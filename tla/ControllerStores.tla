-------------------------- MODULE ControllerStores --------------------------
(***************************************************************************)
(* What the controller keeps for its sidecars, besides holds: the ring of  *)
(* recent audit events, the alerter's deduplication and rate limit, shared *)
(* budgets and the sidecar registry (pkg/controller/events.go, alerter.go, *)
(* budget.go, registry.go).  Each has a mutex of its own that a method     *)
(* holds from start to end, so each method is one step.                    *)
(***************************************************************************)
EXTENDS Windows, FiniteSets

CONSTANTS
    EventType, Tool, Identity,  \* the parts of an event that alerts are keyed by
    Size,           \* EventBuffer.size
    HasWebhook,     \* a webhook URL is configured
    DedupeWindow,   \* Alerter.dedupeWindow
    MaxPerMin,      \* Alerter.maxPerMin
    Minute, Hour, Day, Year,    \* widths, in ticks; a Year is a number of Days
    Session,
    MaxCallsPerHour, MaxCallsPerDay, MaxTokensPerDay,   \* BudgetLimits
    Pod, TTL        \* sidecars, and SidecarRegistry.ttl

NoKey == ""         \* an identity or session the request leaves empty
Never == -1         \* no time

ASSUME StoresAssumption ==
    /\ {Size, MaxPerMin, Minute, Hour, Day, Year} \subseteq Nat \ {0}
    /\ {MaxCallsPerHour, MaxCallsPerDay, MaxTokensPerDay} \subseteq Nat \ {0}
    /\ {DedupeWindow, TTL} \subseteq Nat
    /\ HasWebhook \in BOOLEAN
    /\ Hour <= Day
    /\ "" \notin EventType
    /\ NoKey \notin Identity \union Session

Event == [type : EventType, tool : Tool \union {""}, identity : Identity \union {NoKey}]
NoEvent == [type |-> "", tool |-> "", identity |-> ""]

(* BudgetStore keeps two maps with the same kind of record.                *)
BudgetKey == {<<"identity", i>> : i \in Identity} \union {<<"session", s>> : s \in Session}
NoRecord == [hourly |-> <<>>, daily |-> <<>>, tokens |-> 0, day |-> Never]

VARIABLES
    now,
    buf, pos, count,    \* EventBuffer
    logged,             \* for the properties: every event ever added
    seen, recent,       \* Alerter: last sent per key, recentAlerts
    posted,             \* for the properties: every alert sent, with its time
    budgets,            \* both maps of BudgetStore; NoRecord is a missing key
    granted,            \* for the properties: every call let through
    sidecars,           \* LastHeartbeat per pod; Never is a missing key
    announced           \* for the properties: when each pod registered last

eventVars == <<buf, pos, count, logged>>
alertVars == <<seen, recent, posted>>
budgetVars == <<budgets, granted>>
sidecarVars == <<sidecars, announced>>
storeVars == <<now, eventVars, alertVars, budgetVars, sidecarVars>>

StoresInit ==
    /\ now = 0
    /\ buf = [i \in 0..(Size - 1) |-> NoEvent] /\ pos = 0 /\ count = 0 /\ logged = <<>>
    /\ seen = [e \in Event |-> Never] /\ recent = <<>> /\ posted = <<>>
    /\ budgets = [k \in BudgetKey |-> NoRecord] /\ granted = <<>>
    /\ sidecars = [p \in Pod |-> Never] /\ announced = [p \in Pod |-> Never]

Tick == now' = now + 1

-----------------------------------------------------------------------------
(* Faulty: the write position wraps one slot late.                         *)
FaultyAdd(e) ==
    /\ buf' = [buf EXCEPT ![pos] = e]
    /\ pos' = IF pos + 1 < Size THEN pos + 1 ELSE pos
    /\ count' = IF count < Size THEN count + 1 ELSE count
    /\ logged' = Append(logged, e)

(* EventBuffer.Add                                                         *)
Add(e) ==
    /\ buf' = [buf EXCEPT ![pos] = e]
    /\ pos' = (pos + 1) % Size
    /\ count' = IF count < Size THEN count + 1 ELSE count
    /\ logged' = Append(logged, e)

(* The first n elements of s, all of them if there are fewer or n <= 0.    *)
Limited(s, n) == IF n <= 0 \/ n > Len(s) THEN s ELSE SubSeq(s, 1, n)

OfType(s, type) == IF type = "" THEN s ELSE SelectSeq(s, LAMBDA e : e.type = type)

(* EventBuffer.List: newest first, filtered, at most limit.  It walks back *)
(* from pos and counts what it kept.                                       *)
List(type, limit) ==
    Limited(OfType([i \in 1..count |-> buf[(pos - i + Size) % Size]], type), limit)

-----------------------------------------------------------------------------
(* Faulty: an alert over the rate limit is remembered as sent.             *)
FaultyAlert(e) ==
    LET kept == After(recent, now - Minute) IN
    IF ~HasWebhook \/ (seen[e] # Never /\ now - seen[e] < DedupeWindow)
    THEN UNCHANGED alertVars
    ELSE /\ seen' = [seen EXCEPT ![e] = now]
         /\ IF Len(kept) >= MaxPerMin
            THEN recent' = kept /\ UNCHANGED posted
            ELSE recent' = Append(kept, now) /\ posted' = Append(posted, [key |-> e, at |-> now])

(* Alerter.Alert: nothing without a webhook or within the window of the    *)
(* last alert with this key; otherwise the recent alerts are trimmed and   *)
(* the alert is dropped, unremembered, or marked and posted.  The post is  *)
(* a goroutine that reports nothing back.                                  *)
Alert(e) ==
    LET kept == After(recent, now - Minute) IN
    IF ~HasWebhook \/ (seen[e] # Never /\ now - seen[e] < DedupeWindow)
    THEN UNCHANGED alertVars
    ELSE IF Len(kept) >= MaxPerMin
    THEN recent' = kept /\ UNCHANGED <<seen, posted>>
    ELSE /\ seen' = [seen EXCEPT ![e] = now]
         /\ recent' = Append(kept, now)
         /\ posted' = Append(posted, [key |-> e, at |-> now])

-----------------------------------------------------------------------------
YearDay(t) == (t \div Day) % Year

trimBudgetTimestamps(r) ==
    [hourly |-> After(r.hourly, now - Hour), daily |-> After(r.daily, now - Day),
     tokens |-> r.tokens, day |-> r.day]

(* A new record, or the old one trimmed, its tokens forgotten on a new     *)
(* day; trimming NoRecord and giving it today makes the new one.           *)
getOrCreate(r) ==
    [trimBudgetTimestamps(r) EXCEPT !.tokens = IF r.day = YearDay(now) THEN @ ELSE 0,
                                    !.day = YearDay(now)]

(* checkLimits fails on the record.                                        *)
Spent(r) ==
    \/ Len(r.hourly) >= MaxCallsPerHour
    \/ Len(r.daily) >= MaxCallsPerDay
    \/ MaxTokensPerDay > 0 /\ r.tokens >= MaxTokensPerDay

Charge(r, tokens) ==
    [hourly |-> Append(r.hourly, now), daily |-> Append(r.daily, now),
     tokens |-> r.tokens + tokens, day |-> r.day]

(* The identity's and the session's record, where the request names them.  *)
IdentityKeys(i) == IF i = NoKey THEN {} ELSE {<<"identity", i>>}
SessionKeys(s) == IF s = NoKey THEN {} ELSE {<<"session", s>>}

AnySpent(keys) == \E k \in keys : Spent(getOrCreate(budgets[k]))

Allowed(i, s) == ~AnySpent(IdentityKeys(i) \union SessionKeys(s))

(* Faulty: the identity is charged before the session is looked at.        *)
FaultyCheck(i, s, tokens) ==
    LET charged == IF AnySpent(IdentityKeys(i)) THEN {}
                   ELSE IF AnySpent(SessionKeys(s)) THEN IdentityKeys(i)
                   ELSE IdentityKeys(i) \union SessionKeys(s)
    IN  /\ budgets' = [k \in BudgetKey |->
                         IF k \in charged THEN Charge(getOrCreate(budgets[k]), tokens) ELSE budgets[k]]
        /\ granted' = IF Allowed(i, s)
                      THEN Append(granted, [keys |-> charged, tokens |-> tokens, at |-> now])
                      ELSE granted

(* BudgetStore.Check: the identity first, and the session only if it has   *)
(* budget; the call is charged to both or to neither.  What was looked at  *)
(* is created and trimmed either way.                                      *)
Check(i, s, tokens) ==
    LET ids == IdentityKeys(i)
        looked == IF AnySpent(ids) THEN ids ELSE ids \union SessionKeys(s)
    IN  /\ budgets' = [k \in BudgetKey |->
                         IF k \notin looked THEN budgets[k]
                         ELSE IF Allowed(i, s) THEN Charge(getOrCreate(budgets[k]), tokens)
                         ELSE getOrCreate(budgets[k])]
        /\ granted' = IF Allowed(i, s)
                      THEN Append(granted, [keys |-> looked, tokens |-> tokens, at |-> now])
                      ELSE granted

(* BudgetStore.GetUsage trims the identities it reports.                   *)
GetUsage ==
    /\ budgets' = [k \in BudgetKey |->
                     IF k[1] = "identity" /\ budgets[k] # NoRecord
                     THEN trimBudgetTimestamps(budgets[k]) ELSE budgets[k]]
    /\ UNCHANGED granted

(* BudgetStore.Sweep                                                       *)
SweepBudgets ==
    /\ budgets' = [k \in BudgetKey |->
                     LET d == budgets[k].daily IN
                     IF d = <<>> \/ d[Len(d)] < now - Day THEN NoRecord ELSE budgets[k]]
    /\ UNCHANGED granted

(* SidecarRegistry.Register.  A pod that registers again replaces itself.  *)
Register(p) ==
    /\ sidecars' = [sidecars EXCEPT ![p] = now]
    /\ announced' = [announced EXCEPT ![p] = now]

(* SidecarRegistry.Sweep                                                   *)
SweepSidecars ==
    /\ sidecars' = [p \in Pod |-> IF sidecars[p] < now - TTL THEN Never ELSE sidecars[p]]
    /\ UNCHANGED announced

-----------------------------------------------------------------------------
(* The last Size events, or all if there were fewer, newest first.         *)
Newest ==
    [i \in 1..(IF Len(logged) < Size THEN Len(logged) ELSE Size) |-> logged[Len(logged) - i + 1]]

(* GET /admin/events shows the most recent Size events, newest first, each *)
(* once, filtered and cut as asked, however often the ring wrapped         *)
(* (events.go:48-81); GET /admin/targets shows every sidecar that          *)
(* registered within the TTL, whatever sweeps ran (registry.go:34-81).     *)
AdminSeesRecent ==
    /\ \A type \in EventType \union {""}, limit \in 0..(Size + 1) :
           List(type, limit) = Limited(OfType(Newest, type), limit)
    /\ \A p \in Pod :
           announced[p] # Never /\ now - announced[p] <= TTL => sidecars[p] = announced[p]

(* The alerter is quiet but not deaf: no key is posted twice within the    *)
(* window, no minute sees more than maxPerMin posts, and what it will      *)
(* suppress as a duplicate really was posted: an alert lost to the rate    *)
(* limit does not silence the next one (alerter.go:53-81).                 *)
AlertDiscipline ==
    /\ \A i, j \in DOMAIN posted :
           i < j /\ posted[i].key = posted[j].key => posted[j].at - posted[i].at >= DedupeWindow
    /\ \A i \in DOMAIN posted :
           Cardinality({j \in DOMAIN posted : j >= i /\ posted[j].at - posted[i].at < Minute})
               <= MaxPerMin
    /\ \A e \in Event :
           seen[e] # Never => \E i \in DOMAIN posted : posted[i] = [key |-> e, at |-> seen[e]]

Total(s) ==
    LET sum[i \in 0..Len(s)] == IF i = 0 THEN 0 ELSE sum[i - 1] + s[i]
    IN  sum[Len(s)]

(* The tokens a call charges to k on a calendar day, and those of calls.   *)
Counted(call, k, day) ==
    IF k \in call.keys /\ call.at \div Day = day THEN call.tokens ELSE 0
TokensUsed(calls, k, day) == Total([n \in 1..Len(calls) |-> Counted(calls[n], k, day)])

(* The calls let through, whatever was refused, listed or swept meanwhile: *)
(* per identity and per session at most MaxCallsPerHour in an hour and     *)
(* MaxCallsPerDay in a day, each while the tokens of its calendar day were *)
(* not used up (budget.go:64-107, 131-197).  And a refusal is for cause:   *)
(* what is on record for a key is what was let through for it.             *)
BudgetKept ==
    \A k \in BudgetKey :
        LET of == {n \in DOMAIN granted : k \in granted[n].keys}
            since(w) == {n \in of : granted[n].at > now - w}
        IN  /\ Cardinality(since(Hour)) <= MaxCallsPerHour
            /\ Cardinality(since(Day)) <= MaxCallsPerDay
            /\ \A n \in of :
                  TokensUsed(SubSeq(granted, 1, n - 1), k, granted[n].at \div Day) < MaxTokensPerDay
            /\ Len(getOrCreate(budgets[k]).hourly) = Cardinality(since(Hour))
            /\ Len(getOrCreate(budgets[k]).daily) = Cardinality(since(Day))
=============================================================================
