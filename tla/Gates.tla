-------------------------------- MODULE Gates --------------------------------
(***************************************************************************)
(* The checks both front doors run around a policy decision,               *)
(* pkg/gates/gates.go: Admit before the decision, Charge after it, over    *)
(* the circuit breaker, the per-minute rates (gates.go), the budgets       *)
(* (pkg/budget/tracker.go) and the velocity detector                       *)
(* (pkg/anomaly/velocity.go).                                              *)
(*                                                                         *)
(* Each of these holds its own mutex for one operation; nothing holds a    *)
(* lock from Admit to the end of Charge.  So a request is a sequence of    *)
(* atomic steps, and the steps of concurrent requests interleave, with a   *)
(* decision between Admit and Charge that may take minutes (a HOLD).       *)
(***************************************************************************)
EXTENDS Breaker, Windows, FiniteSets

CONSTANTS
    Caller,         \* goroutines serving requests at the same time
    Call,           \* the calls requests make: [tool, subject, session]
    Rule,           \* rules that can allow a call: [key, perMin, identity, session]
    Subject,        \* identities
    NoSubject,      \* the empty subject
    Registered,     \* tools the registry lists
    NoTool,         \* the empty tool name, for traffic that names none
    ToolPerMin,     \* maxCallsPerMinute of each registered tool, 0 for none
    HasBreaker, HasBudgets, HasVelocity,    \* FALSE for a nil member of Gates
    Threshold,      \* velocity threshold, calls per minute
    AlertDeny,      \* TRUE iff a velocity alert refuses the call
    Minute, Hour, Day,  \* the sliding windows, in ticks
    MaxVelocity     \* bound on the calls of one velocity window

ASSUME GatesAssumption ==
    /\ IsFiniteSet(Caller)
    /\ \A k \in Call : /\ k.session \in Session \union {NoSession}
                       /\ k.subject \in Subject \union {NoSubject}
    /\ \A r \in Rule : /\ r.perMin \in Int
                       /\ \A b \in {r.identity, r.session} :
                             b.declared \in BOOLEAN /\ b.perHour \in Int /\ b.perDay \in Int
    /\ \A t \in Registered : ToolPerMin[t] \in Int
    /\ Threshold \in Nat /\ Minute \in Nat /\ Hour \in Nat /\ Day \in Nat
    /\ Minute <= Hour /\ Hour <= Day
    /\ {HasBreaker, HasBudgets, HasVelocity, AlertDeny} \subseteq BOOLEAN

VARIABLES
    rates,          \* Rates.calls: the timestamps of each limit and subject
    usage,          \* Tracker.identity and Tracker.sessions
    velocity,       \* VelocityTracker.windows
    caller,         \* what each goroutine is serving and how far it is
    trips,          \* circuit.tripped events emitted for each session
    ledger          \* for the properties: when each limit let a call through

limitVars == <<rates, usage, velocity, ledger>>
gatesVars == <<sessions, now, rates, usage, velocity, caller, trips, ledger>>

RateKey ==
    {<<"rule", r.key, x>> : r \in Rule, x \in Subject}
    \union {<<"tool", t, x>> : t \in Registered, x \in Subject}
BudgetKey == ({"identity"} \X Subject) \union ({"session"} \X Session)
VelocityKey == {"velocity"} \X (Subject \union {NoSubject})

NoUsage == [hourly |-> <<>>, daily |-> <<>>]
Idle == [pc |-> "idle"]

GatesInit ==
    /\ BreakerInit
    /\ rates = [k \in RateKey |-> <<>>]
    /\ usage = [k \in BudgetKey |-> NoUsage]
    /\ velocity = [k \in VelocityKey |-> <<>>]
    /\ caller = [c \in Caller |-> Idle]
    /\ trips = [s \in Session |-> 0]
    /\ ledger = [k \in RateKey \union BudgetKey \union VelocityKey |-> <<>>]

(* The timestamps still inside a window: t.After(now.Add(-width)).         *)
Live(times, width) == After(times, now - width)

(* ledger with one more call let through now on each key of keys.          *)
Entered(keys) ==
    [k \in DOMAIN ledger |-> IF k \in keys THEN Append(ledger[k], now) ELSE ledger[k]]

(* Faulty: a refusal without a reason class.                               *)
FaultyRefuse(c, why) ==
    caller' = [caller EXCEPT ![c] = [pc |-> "refused", why |-> ""]]

Refuse(c, why) ==
    caller' = [caller EXCEPT ![c] = [pc |-> "refused", why |-> why]]

Goto(c, pc) ==
    caller' = [caller EXCEPT ![c].pc = pc]

-----------------------------------------------------------------------------
(* Admit: the registry, then Breaker.Allow.                                *)
Admit(c, k) ==
    /\ caller[c].pc = "idle"
    /\ IF k.tool # NoTool /\ k.tool \notin Registered
       THEN Refuse(c, "tool_not_registered")
       ELSE caller' = [caller EXCEPT ![c] =
               [pc |-> IF HasBreaker /\ ~Allow(k.session) THEN "trip" ELSE "policy",
                call |-> k]]
    /\ UNCHANGED <<sessions, now, trips, limitVars>>

(* gateEvent after a circuit refusal: a trip is emitted if it is the       *)
(* first, a plain denial otherwise.                                        *)
Trip(c) ==
    LET s == caller[c].call.session IN
    /\ caller[c].pc = "trip"
    /\ FirstTrip(s)
    /\ trips' = IF IsFirstTrip(s) THEN [trips EXCEPT ![s] = @ + 1] ELSE trips
    /\ Refuse(c, "circuit_open")
    /\ UNCHANGED <<now, limitVars>>

(* The policy decision, of which only the matched rule matters here.       *)
Decide(c) ==
    /\ caller[c].pc = "policy"
    /\ \/ \E r \in Rule :
              caller' = [caller EXCEPT ![c] =
                            [pc |-> "rates", call |-> caller[c].call, rule |-> r]]
       \/ Refuse(c, "policy")
    /\ UNCHANGED <<sessions, now, trips, limitVars>>

-----------------------------------------------------------------------------
(* The limits chargeRates collects, in its order.                          *)
RateLimits(k, r) ==
    (IF r.perMin > 0 THEN <<[kind |-> "rule", name |-> r.key, max |-> r.perMin]>> ELSE <<>>)
    \o (IF k.tool \in Registered /\ ToolPerMin[k.tool] > 0
        THEN <<[kind |-> "tool", name |-> k.tool, max |-> ToolPerMin[k.tool]]>> ELSE <<>>)

Key(l, subject) == <<l.kind, l.name, subject>>

(* Faulty: lets one call past a full window.                               *)
FaultyFull(l, subject) == Len(Live(rates[Key(l, subject)], Minute)) > l.max

Full(l, subject) == Len(Live(rates[Key(l, subject)], Minute)) >= l.max

(* Rates.take: trims the windows it looks at, up to the first full one,    *)
(* and records the call in all of them or in none.                         *)
Takes(subject, ls) == \A i \in DOMAIN ls : ~Full(ls[i], subject)

(* Faulty: records while it looks, so a later full window comes too late.  *)
FaultyTake(subject, ls) ==
    LET looked == {Key(ls[i], subject) :
                     i \in {j \in DOMAIN ls : \A m \in 1..j : ~Full(ls[m], subject)}}
    IN  /\ rates' = [k \in RateKey |->
                        IF k \in looked THEN Append(Live(rates[k], Minute), now) ELSE rates[k]]
        /\ ledger' = IF Takes(subject, ls) THEN Entered(looked) ELSE ledger

Take(subject, ls) ==
    LET looked == {Key(ls[i], subject) :
                     i \in {j \in DOMAIN ls : \A m \in 1..(j - 1) : ~Full(ls[m], subject)}}
        live(k) == IF k \in looked THEN Live(rates[k], Minute) ELSE rates[k]
        took == Takes(subject, ls)
    IN  /\ rates' = [k \in RateKey |->
                        IF took /\ k \in looked THEN Append(live(k), now) ELSE live(k)]
        /\ ledger' = IF took THEN Entered(looked) ELSE ledger

ChargeRates(c) ==
    LET k == caller[c].call
        ls == RateLimits(k, caller[c].rule)
    IN
    /\ caller[c].pc = "rates"
    /\ IF ls = <<>> THEN Goto(c, "budget") /\ UNCHANGED <<rates, ledger>>
       ELSE IF k.subject = NoSubject
            THEN Refuse(c, "rate_unattributable") /\ UNCHANGED <<rates, ledger>>
            ELSE /\ Take(k.subject, ls)
                 /\ IF Takes(k.subject, ls) THEN Goto(c, "budget")
                    ELSE Refuse(c, "rate_limited")
    /\ UNCHANGED <<sessions, now, usage, velocity, trips>>

-----------------------------------------------------------------------------
(* A budget of a rule: declared is FALSE for a nil *BudgetLimits.  Token   *)
(* budgets are left out: nothing in the program calls RecordTokens.        *)
Trimmed(u) == [hourly |-> Live(u.hourly, Hour), daily |-> Live(u.daily, Day)]

(* Faulty: a budget is spent only once it is overdrawn.                    *)
FaultyExhausted(u, b) ==
    \/ b.perHour > 0 /\ Len(Live(u.hourly, Hour)) > b.perHour
    \/ b.perDay > 0 /\ Len(Live(u.daily, Day)) > b.perDay

Exhausted(u, b) ==
    \/ b.perHour > 0 /\ Len(Live(u.hourly, Hour)) >= b.perHour
    \/ b.perDay > 0 /\ Len(Live(u.daily, Day)) >= b.perDay

Spend(u) == [hourly |-> Append(u.hourly, now), daily |-> Append(u.daily, now)]

Charged(k, r) ==
    (IF r.identity.declared THEN {<<"identity", k.subject>>} ELSE {})
    \union (IF r.session.declared THEN {<<"session", k.session>>} ELSE {})

IdentityFull(k, r) ==
    r.identity.declared /\ Exhausted(usage[<<"identity", k.subject>>], r.identity)

WithinBudget(k, r) ==
    /\ ~IdentityFull(k, r)
    /\ ~(r.session.declared /\ Exhausted(usage[<<"session", k.session>>], r.session))

(* Tracker.CheckAndRecord: identity first, then session; recorded against  *)
(* both once both passed.  The session's record is not looked at when the  *)
(* identity is over.                                                       *)
CheckAndRecord(k, r) ==
    LET looked == IF IdentityFull(k, r) THEN {<<"identity", k.subject>>} ELSE Charged(k, r)
    IN  /\ usage' = [b \in BudgetKey |->
                        IF b \notin looked THEN usage[b]
                        ELSE IF WithinBudget(k, r) THEN Spend(Trimmed(usage[b]))
                        ELSE Trimmed(usage[b])]
        /\ ledger' = IF WithinBudget(k, r) THEN Entered(looked) ELSE ledger

Unattributable(k, r) ==
    \/ r.identity.declared /\ k.subject = NoSubject
    \/ r.session.declared /\ k.session = NoSession

ChargeBudget(c) ==
    LET k == caller[c].call
        r == caller[c].rule
    IN
    /\ caller[c].pc = "budget"
    /\ IF ~HasBudgets \/ ~(r.identity.declared \/ r.session.declared)
       THEN Goto(c, "record") /\ UNCHANGED <<usage, ledger>>
       ELSE IF Unattributable(k, r)
            THEN Refuse(c, "budget_unattributable") /\ UNCHANGED <<usage, ledger>>
            ELSE /\ CheckAndRecord(k, r)
                 /\ IF WithinBudget(k, r) THEN Goto(c, "record")
                    ELSE Refuse(c, "budget_exhausted")
    /\ UNCHANGED <<sessions, now, rates, velocity, trips>>

-----------------------------------------------------------------------------
RecordCall(c) ==
    /\ caller[c].pc = "record"
    /\ IF HasBreaker THEN Record(caller[c].call.session) ELSE UNCHANGED sessions
    /\ Goto(c, "velocity")
    /\ UNCHANGED <<now, trips, limitVars>>

(* Faulty: the call is judged and not added to the window.                 *)
FaultyVelocityWindow(k) == Live(velocity[<<"velocity", k.subject>>], Minute)

(* VelocityTracker.Record: the call joins the window before it is judged,  *)
(* so a refused call still counts.  An alert that only logs lets it pass.  *)
VelocityWindow(k) == Append(Live(velocity[<<"velocity", k.subject>>], Minute), now)

VelocityRecord(k) ==
    LET key == <<"velocity", k.subject>>
        window == VelocityWindow(k)
    IN  /\ velocity' = [velocity EXCEPT ![key] = window]
        /\ ledger' = IF AlertDeny /\ Len(window) > Threshold THEN ledger ELSE Entered({key})

ChargeVelocity(c) ==
    LET k == caller[c].call IN
    /\ caller[c].pc = "velocity"
    /\ IF ~HasVelocity THEN Goto(c, "forward") /\ UNCHANGED <<velocity, ledger>>
       ELSE /\ VelocityRecord(k)
            /\ IF AlertDeny /\ Len(VelocityWindow(k)) > Threshold
               THEN Refuse(c, "velocity_limit")
               ELSE Goto(c, "forward")
    /\ UNCHANGED <<sessions, now, rates, usage, trips>>

(* The call goes upstream, or its refusal to the client; the goroutine is  *)
(* free for another request.                                               *)
Finish(c) ==
    /\ caller[c].pc \in {"forward", "refused"}
    /\ caller' = [caller EXCEPT ![c] = Idle]
    /\ UNCHANGED <<sessions, now, trips, limitVars>>

-----------------------------------------------------------------------------
SweepSessions ==
    /\ Sweep
    /\ UNCHANGED <<now, trips, caller, limitVars>>

(* The ledger forgets what no window reaches any more.                     *)
Width(k) == IF k \in BudgetKey THEN Day ELSE Minute

Clock ==
    /\ Tick
    /\ ledger' = [k \in DOMAIN ledger |-> After(ledger[k], now' - Width(k))]
    /\ UNCHANGED <<sessions, trips, caller, rates, usage, velocity>>

(* Requests keep coming while the velocity windows have room for them.     *)
HasRoom(k) ==
    HasVelocity => Len(velocity[<<"velocity", k.subject>>]) + Cardinality(Caller) <= MaxVelocity

GateStep(c) ==
    \/ \E k \in Call : HasRoom(k) /\ Admit(c, k)
    \/ Trip(c)
    \/ ChargeRates(c)
    \/ ChargeBudget(c)
    \/ RecordCall(c)
    \/ ChargeVelocity(c)
    \/ Finish(c)

GatesNext ==
    \/ \E c \in Caller : GateStep(c) \/ Decide(c)
    \/ SweepSessions
    \/ Clock

GatesSpec == GatesInit /\ [][GatesNext]_gatesVars

-----------------------------------------------------------------------------
Why == {"tool_not_registered", "circuit_open", "policy", "rate_limited",
        "rate_unattributable", "budget_exhausted", "budget_unattributable",
        "velocity_limit"}

CallerState ==
    {Idle} \union [pc : {"refused"}, why : Why]
    \union [pc : {"trip", "policy"}, call : Call]
    \union [pc : {"rates", "budget", "record", "velocity", "forward"}, call : Call, rule : Rule]

(* The part of the state the theorems speak about.                         *)
CoreTypeOK ==
    /\ BreakerTypeOK
    /\ caller \in [Caller -> CallerState]
    /\ trips \in [Session -> Nat]

GatesTypeOK ==
    /\ CoreTypeOK
    /\ rates \in [RateKey -> Seq(0..MaxTime)]
    /\ usage \in [BudgetKey -> [hourly : Seq(0..MaxTime), daily : Seq(0..MaxTime)]]
    /\ velocity \in [VelocityKey -> Seq(0..MaxTime)]

(* Callers past Allow that have not reached Record yet.                    *)
Admitted(s) ==
    {c \in Caller : /\ caller[c].pc \in {"policy", "rates", "budget", "record"}
                    /\ caller[c].call.session = s}

(* Allow and Record are separate critical sections (gates.go:121 and 140), *)
(* so concurrent calls do overshoot maxCalls, but never by more than the   *)
(* other calls in flight: a session makes at most maxCalls calls plus one  *)
(* for each further request served at the same time.                       *)
CallsBounded ==
    HasBreaker /\ MaxCalls > 0 =>
        \A s \in Session : sessions[s].calls <= MaxCalls + Cardinality(Caller) - 1

(* However many refused calls race through gateEvent (handler.go:441), a   *)
(* session raises circuit.tripped once while its entry lives, and again    *)
(* only once the sweep dropped the entry and calls filled another: an      *)
(* entry lives for more than 2*maxDuration, so the events of a session are *)
(* at least that far apart on average (breaker.go:73-104).  Without a      *)
(* maxDuration nothing is swept and one event is all there is.             *)
TripsBounded ==
    \A s \in Session :
        /\ sessions[s].tripped => trips[s] > 0
        /\ trips[s] > 0 => (trips[s] - 1) * (2 * MaxDuration + 1) <= now
        /\ MaxDuration = 0 => trips[s] <= 1

(* docs/signals.md:16, of circuit.tripped: "It is emitted once per run or  *)
(* session, on the first refused call, however many calls follow."         *)
OneTripPerSession ==
    \A s \in Session : trips[s] <= 1

(* A session the breaker refuses stays refused until the sweep drops it,   *)
(* whatever calls are still being charged to it (breaker.go:31-71).        *)
RefusalSticks ==
    [][\A s \in Session :
          ~Allow(s) => \/ ~(Allow(s)')
                      \/ (Stale(s) /\ sessions'[s] = Unknown)]_gatesVars

(* Calls the ledger shows for key k in the window of that width ending at  *)
(* the present.                                                            *)
InWindow(k, width) == Len(Live(ledger[k], width))

(* No subject gets more than maxCallsPerMinute calls past a rule's or a    *)
(* tool's limit in any minute, with several requests taking at once and    *)
(* windows trimmed lazily (gates.go:71-94).  Nothing keeps two rules from  *)
(* having the same id; they share a window, and the laxer limit rules it.  *)
RateWindow ==
    \A x \in Subject :
        /\ \A r \in Rule : r.perMin > 0 => \E q \in Rule :
               q.key = r.key /\ InWindow(<<"rule", r.key, x>>, Minute) <= q.perMin
        /\ \A t \in Registered : ToolPerMin[t] > 0 =>
               InWindow(<<"tool", t, x>>, Minute) <= ToolPerMin[t]

(* A call refused by one limit uses up no other limit's allowance: a       *)
(* request stopped by a rate or a budget leaves every live window of that  *)
(* gate as it was (gates.go:69-70, tracker.go:52).                         *)
RefusedTakesNothing ==
    [][\A c \in Caller :
          caller'[c].pc = "refused" =>
            /\ caller[c].pc = "rates" => \A k \in RateKey :
                   Live(rates'[k], Minute) = Live(rates[k], Minute)
            /\ caller[c].pc = "budget" => \A k \in BudgetKey :
                   Trimmed(usage'[k]) = Trimmed(usage[k])]_gatesVars

(* The budgets rules declare on one kind of key.                           *)
IdentityBudgets == {r.identity : r \in {q \in Rule : q.identity.declared}}
SessionBudgets == {r.session : r \in {q \in Rule : q.session.declared}}

WithinLaxest(k, budgets) ==
    budgets # {} =>
        /\ \E b \in budgets : b.perHour <= 0 \/ InWindow(k, Hour) <= b.perHour
        /\ \E b \in budgets : b.perDay <= 0 \/ InWindow(k, Day) <= b.perDay

(* An identity's or a session's calls are counted once for all the rules   *)
(* that budget it: over any hour and any day it gets no more calls than    *)
(* the laxest of those rules allows (tracker.go:32-65).                    *)
BudgetWindow ==
    /\ \A x \in Subject : WithinLaxest(<<"identity", x>>, IdentityBudgets)
    /\ \A s \in Session : WithinLaxest(<<"session", s>>, SessionBudgets)

(* With alertAction DENY no more than threshold calls of one identity pass *)
(* the velocity gate in any minute, although refused calls keep filling    *)
(* its window (velocity.go:64-96).                                         *)
VelocityBounded ==
    AlertDeny => \A k \in VelocityKey : InWindow(k, Minute) <= Threshold
=============================================================================
