----------------------------- MODULE GatesProofs -----------------------------
(***************************************************************************)
(* What the gates guarantee, for any number of concurrent callers, tools,  *)
(* sessions and calls, any limits and any policy: the breaker bounds calls *)
(* and trips once per entry, and rates, budgets and velocity keep their    *)
(* windows.                                                                *)
(*                                                                         *)
(* CallsBounded is not inductive: a caller past Allow is a call the session*)
(* has not been charged for yet.  CallsCommitted counts those too.  Nor are*)
(* the windows: LimitsInv relates every timestamp a limiter keeps to the   *)
(* calls that were let through, for each key by itself, and what trimming  *)
(* keeps of a window is WindowsProofs.                                     *)
(***************************************************************************)
EXTENDS Gates, WindowsProofs, TLAPS

Late == {"rates", "budget", "record", "velocity", "forward"}

LateState == [pc : Late, call : Call, rule : Rule]

(* Calls made, and calls that will be made unless a later gate refuses.    *)
CallsCommitted ==
    HasBreaker /\ MaxCalls > 0 =>
        \A s \in Session :
            sessions[s].calls + Cardinality(Admitted(s)) <= MaxCalls - 1 + Cardinality(Caller)

(* A session without an entry has made no calls, and only a caller with a  *)
(* session is refused by the breaker.                                      *)
EntryState ==
    /\ \A s \in Session : ~sessions[s].known => sessions[s].calls = 0 /\ ~sessions[s].tripped
    /\ \A c \in Caller : caller[c].pc = "trip" => caller[c].call.session \in Session

(* What separates two entries of one session: the sweep drops an entry     *)
(* only when it is older than twice maxDuration (breaker.go:96-106).       *)
Span == 2 * MaxDuration + 1

(* n trips of a session with entry u at time t: one for u if it is marked, *)
(* and the others of entries that each lived for Span before u started.    *)
Spaced(u, n, t) ==
    /\ u.tripped => n > 0
    /\ u.known /\ u.tripped => (n - 1) * Span <= u.started /\ u.started <= t
    /\ u.known /\ ~u.tripped => n * Span <= u.started /\ u.started <= t
    /\ ~u.known => n * Span <= t
    /\ MaxDuration = 0 /\ n # 0 => n = 1 /\ u.known /\ u.tripped

TripsInv == \A s \in Session : Spaced(sessions[s], trips[s], now)

IInv == CoreTypeOK /\ EntryState /\ CallsCommitted /\ TripsInv

-----------------------------------------------------------------------------
(* A caller at a late program point carries its call and rule.             *)
LEMMA LateCaller ==
  ASSUME CoreTypeOK, NEW c \in Caller, caller[c].pc \in Late
  PROVE  caller[c] \in LateState
<1>1. caller[c] \in CallerState
  BY DEF CoreTypeOK
<1> QED
  BY <1>1 DEF CallerState, Idle, Late, LateState

(* Goto between late program points keeps the call.                        *)
LEMMA GotoLate ==
  ASSUME CoreTypeOK, NEW c \in Caller, caller[c].pc \in Late, NEW pc \in Late, Goto(c, pc)
  PROVE  \E v \in LateState : /\ caller' = [caller EXCEPT ![c] = v]
                              /\ v.pc = pc /\ v.call = caller[c].call
<1>1. caller[c] \in LateState
  BY LateCaller
<1> DEFINE v == [caller[c] EXCEPT !.pc = pc]
<1>2. v \in LateState /\ v.pc = pc /\ v.call = caller[c].call
  BY <1>1 DEF LateState
<1>3. caller' = [caller EXCEPT ![c] = v]
  BY DEF Goto, CoreTypeOK
<1> QED
  BY <1>2, <1>3, Zenon


-----------------------------------------------------------------------------
(* The limits.  A window is trimmed only when its own limit is charged, so *)
(* a stored window and the ledger differ in what is out of date; they      *)
(* agree on what is live.  The velocity window also holds the calls it     *)
(* refused, so there it only bounds the ledger, and it has to bound it at  *)
(* every later cutoff, not just at the present one.                        *)
LedgerKey == RateKey \union BudgetKey \union VelocityKey

LimitsTypeOK ==
    /\ now \in 0..MaxTime
    /\ rates \in [RateKey -> Seq(0..MaxTime)]
    /\ usage \in [BudgetKey -> [hourly : Seq(0..MaxTime), daily : Seq(0..MaxTime)]]
    /\ velocity \in [VelocityKey -> Seq(0..MaxTime)]
    /\ ledger \in [LedgerKey -> Seq(0..MaxTime)]

RatesAgree == \A k \in RateKey : Live(rates[k], Minute) = Live(ledger[k], Minute)

UsageAgrees ==
    \A k \in BudgetKey : /\ Live(usage[k].hourly, Hour) = Live(ledger[k], Hour)
                         /\ Live(usage[k].daily, Day) = Live(ledger[k], Day)

VelocityCovers ==
    AlertDeny => \A k \in VelocityKey, x \in Int :
        x >= now - Minute => Len(After(ledger[k], x)) <= Len(After(velocity[k], x))

RatesInv == RatesAgree /\ RateWindow
UsageInv == UsageAgrees /\ BudgetWindow
VelocityInv == VelocityCovers /\ VelocityBounded

LimitsInv == LimitsTypeOK /\ RatesInv /\ UsageInv /\ VelocityInv

(* No two limits share a key, and the windows are no longer than a day.    *)
LEMMA KeysApart ==
  /\ \A k \in RateKey : k \notin BudgetKey /\ k \notin VelocityKey
  /\ \A k \in BudgetKey : k \notin VelocityKey
  BY DEF RateKey, BudgetKey, VelocityKey

(* The windows are naturals, and no limit looks back less than a minute.   *)
LEMMA Widths ==
  /\ Minute \in Nat /\ Hour \in Nat /\ Day \in Nat /\ Minute <= Hour /\ Hour <= Day
  /\ \A k : Width(k) \in Nat /\ Minute <= Width(k)
  /\ \A k \in BudgetKey : Width(k) = Day
  BY GatesAssumption DEF Width

-----------------------------------------------------------------------------
(* What the windows do over time: two that agree on what is live still do  *)
(* after a call joins both, however the first was trimmed, and at any      *)
(* later cutoff.                                                           *)
LEMMA JoinAgree ==
  ASSUME NEW a \in Seq(Int), NEW b \in Seq(Int), NEW t \in Int, NEW cutoff \in Int,
         After(a, cutoff) = After(b, cutoff)
  PROVE  After(Append(After(a, cutoff), t), cutoff) = After(Append(b, t), cutoff)
<1>1. PICK w \in Seq(Int) : w = After(a, cutoff)
  BY AfterType
<1>2. After(w, cutoff) = w
  BY <1>1, AfterAfter
<1>3. After(Append(w, t), cutoff) = IF t > cutoff THEN Append(After(w, cutoff), t) ELSE After(w, cutoff)
  BY AfterAppend
<1>4. After(Append(b, t), cutoff) = IF t > cutoff THEN Append(After(b, cutoff), t) ELSE After(b, cutoff)
  BY AfterAppend
<1> QED
  BY <1>1, <1>2, <1>3, <1>4, SMTT(40)

(* Sequences that agree after a time agree after every later one.          *)
LEMMA LaterAgree ==
  ASSUME NEW a \in Seq(Int), NEW b \in Seq(Int), NEW x \in Int, NEW y \in Int, x <= y,
         After(a, x) = After(b, x)
  PROVE  After(a, y) = After(b, y)
<1>1. After(After(a, x), y) = After(a, y) /\ After(After(b, x), y) = After(b, y)
  BY AfterAfter
<1> QED
  BY <1>1

(* One more entry makes a window longer by at most one.                    *)
LEMMA JoinLen ==
  ASSUME NEW a \in Seq(Int), NEW t \in Int, NEW cutoff \in Int
  PROVE  /\ Len(After(a, cutoff)) \in Nat
         /\ Len(After(Append(a, t), cutoff)) <= Len(After(a, cutoff)) + 1
<1>1. PICK w \in Seq(Int) : w = After(a, cutoff)
  BY AfterType
<1>2. After(Append(a, t), cutoff) = IF t > cutoff THEN Append(w, t) ELSE w
  BY <1>1, AfterAppend
<1> QED
  BY <1>1, <1>2

-----------------------------------------------------------------------------
(* Every limit chargeRates collects is the rule's or the tool's.           *)
LEMMA Joined ==
  ASSUME NEW a, NEW b
  PROVE  /\ <<a>> \o <<b>> = <<a, b>> /\ <<a>> \o <<>> = <<a>>
         /\ <<>> \o <<b>> = <<b>> /\ <<>> \o <<>> = <<>>
<1>1. <<a>> \in Seq({a, b}) /\ <<b>> \in Seq({a, b}) /\ <<a, b>> \in Seq({a, b})
  OBVIOUS
<1>2. <<a>> \o <<b>> = <<a, b>>
  <2>1. <<a>> \o <<b>> \in Seq({a, b}) /\ Len(<<a>> \o <<b>>) = 2
    BY <1>1
  <2>2. (<<a>> \o <<b>>)[1] = a /\ (<<a>> \o <<b>>)[2] = b
    BY <1>1
  <2>3. Len(<<a, b>>) = 2 /\ <<a, b>>[1] = a /\ <<a, b>>[2] = b
    OBVIOUS
  <2>4. \A i \in 1..2 : (<<a>> \o <<b>>)[i] = <<a, b>>[i]
    BY <2>2, <2>3
  <2> QED BY <1>1, <2>1, <2>3, <2>4, SameItems
<1>3. <<a>> \o <<>> = <<a>> /\ <<>> \o <<b>> = <<b>> /\ <<>> \o <<>> = <<>>
  OBVIOUS
<1> QED BY <1>2, <1>3

(* The limits take checks are the rule's own and the tool's.               *)
LEMMA LimitsAre ==
  ASSUME NEW k \in Call, NEW r \in Rule, NEW i \in DOMAIN RateLimits(k, r)
  PROVE  \/ RateLimits(k, r)[i] = [kind |-> "rule", name |-> r.key, max |-> r.perMin]
         \/ /\ RateLimits(k, r)[i] = [kind |-> "tool", name |-> k.tool, max |-> ToolPerMin[k.tool]]
            /\ k.tool \in Registered
<1> DEFINE a == [kind |-> "rule", name |-> r.key, max |-> r.perMin]
           b == [kind |-> "tool", name |-> k.tool, max |-> ToolPerMin[k.tool]]
           R == r.perMin > 0
           T == k.tool \in Registered /\ ToolPerMin[k.tool] > 0
<1>1. RateLimits(k, r) = (IF R THEN <<a>> ELSE <<>>) \o (IF T THEN <<b>> ELSE <<>>)
  BY DEF RateLimits
<1> HIDE DEF a, b, R
<1>2. CASE R /\ T
  <2>1. RateLimits(k, r) = <<a, b>>
    BY <1>1, <1>2, Joined, Zenon
  <2> QED BY <1>2, <2>1 DEF a, b
<1>3. CASE R /\ ~T
  <2>1. RateLimits(k, r) = <<a>>
    BY <1>1, <1>3, Joined, Zenon
  <2> QED BY <2>1 DEF a
<1>4. CASE ~R /\ T
  <2>1. RateLimits(k, r) = <<b>>
    BY <1>1, <1>4, Joined, SMTT(40)
  <2> QED BY <1>4, <2>1 DEF b
<1>5. CASE ~R /\ ~T
  <2>1. RateLimits(k, r) = <<>>
    BY <1>1, <1>5, Joined
  <2> QED BY <2>1
<1> QED BY <1>2, <1>3, <1>4, <1>5, SMTT(40)

(* Rates.take (gates.go:71-94), seen from one key: trimmed, with the call  *)
(* if it was taken, or left alone; and it is taken only below a limit.     *)
LEMMA TakeOne ==
  ASSUME LimitsTypeOK, NEW k \in Call, NEW r \in Rule, k.subject \in Subject,
         Take(k.subject, RateLimits(k, r)), NEW y \in RateKey
  PROVE  \/ rates'[y] = rates[y] /\ ledger'[y] = ledger[y]
         \/ rates'[y] = Live(rates[y], Minute) /\ ledger'[y] = ledger[y]
         \/ /\ rates'[y] = Append(Live(rates[y], Minute), now)
            /\ ledger'[y] = Append(ledger[y], now)
            /\ \/ /\ y = <<"rule", r.key, k.subject>>
                  /\ ~(Len(Live(rates[y], Minute)) >= r.perMin)
               \/ /\ k.tool \in Registered /\ y = <<"tool", k.tool, k.subject>>
                  /\ ~(Len(Live(rates[y], Minute)) >= ToolPerMin[k.tool])
<1> DEFINE x == k.subject
           ls == RateLimits(k, r)
           looked == {Key(ls[i], x) : i \in {j \in DOMAIN ls : \A m \in 1..(j - 1) : ~Full(ls[m], x)}}
           took == Takes(x, ls)
<1>1. rates'[y] = IF took /\ y \in looked THEN Append(Live(rates[y], Minute), now)
                  ELSE IF y \in looked THEN Live(rates[y], Minute) ELSE rates[y]
  BY Zenon DEF Take
<1>2. ledger'[y] = IF took /\ y \in looked THEN Append(ledger[y], now) ELSE ledger[y]
  <2>1. ledger' = IF took THEN Entered(looked) ELSE ledger
    BY DEF Take
  <2>2. y \in DOMAIN ledger
    BY DEF LimitsTypeOK, LedgerKey
  <2> QED BY <2>1, <2>2, Zenon DEF Entered
<1>3. CASE ~(took /\ y \in looked)
  BY <1>1, <1>2, <1>3, Zenon
<1>4. CASE took /\ y \in looked
  <2>1. PICK i \in DOMAIN ls : y = Key(ls[i], x)
    BY <1>4
  <2>2. ~(Len(Live(rates[y], Minute)) >= ls[i].max)
    BY <1>4, <2>1, Zenon DEF Takes, Full
  <2>3. \/ ls[i] = [kind |-> "rule", name |-> r.key, max |-> r.perMin]
        \/ /\ ls[i] = [kind |-> "tool", name |-> k.tool, max |-> ToolPerMin[k.tool]]
           /\ k.tool \in Registered
    BY LimitsAre
  <2> HIDE DEF ls, looked, took
  <2>4. CASE ls[i] = [kind |-> "rule", name |-> r.key, max |-> r.perMin]
    <3>1. y = <<"rule", r.key, k.subject>> /\ ls[i].max = r.perMin
      BY <2>1, <2>4 DEF Key
    <3> QED BY <1>1, <1>2, <1>4, <2>2, <3>1, Zenon
  <2>5. CASE /\ ls[i] = [kind |-> "tool", name |-> k.tool, max |-> ToolPerMin[k.tool]]
             /\ k.tool \in Registered
    <3>1. y = <<"tool", k.tool, k.subject>> /\ ls[i].max = ToolPerMin[k.tool]
      BY <2>1, <2>5 DEF Key
    <3> QED BY <1>1, <1>2, <1>4, <2>2, <2>5, <3>1, Zenon
  <2> QED BY <2>3, <2>4, <2>5, Zenon
<1> QED BY <1>3, <1>4, Zenon

(* The windows as sequences of numbers.                                    *)
LEMMA Timestamps ==
  ASSUME LimitsTypeOK
  PROVE  /\ now \in 0..MaxTime /\ now \in Int
         /\ \A k \in RateKey : rates[k] \in Seq(Int) /\ k \in LedgerKey
         /\ \A k \in BudgetKey : /\ usage[k].hourly \in Seq(Int) /\ usage[k].daily \in Seq(Int)
                                 /\ k \in LedgerKey
         /\ \A k \in VelocityKey : velocity[k] \in Seq(Int) /\ k \in LedgerKey
         /\ \A k \in LedgerKey : ledger[k] \in Seq(Int)
<1>1. \A s \in Seq(0..MaxTime) : s \in Seq(Int)
  BY SeqWidens, BreakerAssumption
<1> QED BY <1>1, BreakerAssumption DEF LimitsTypeOK, LedgerKey

(* A trimmed window is a window.                                           *)
LEMMA LiveType ==
  ASSUME LimitsTypeOK, NEW s \in Seq(0..MaxTime), NEW w \in Nat
  PROVE  Live(s, w) \in Seq(0..MaxTime) /\ Append(Live(s, w), now) \in Seq(0..MaxTime)
<1>1. now \in 0..MaxTime /\ now - w \in Int /\ 0..MaxTime \in SUBSET Int
  BY Timestamps, BreakerAssumption
<1>2. After(s, now - w) \in Seq(0..MaxTime)
  BY <1>1, AfterType
<1> QED BY <1>1, <1>2 DEF Live

(* The ledger after a call has been entered under some of its keys.        *)
LEMMA EnteredOne ==
  ASSUME LimitsTypeOK, NEW keys
  PROVE  /\ Entered(keys) \in [LedgerKey -> Seq(0..MaxTime)]
         /\ \A y \in LedgerKey :
               Entered(keys)[y] = IF y \in keys THEN Append(ledger[y], now) ELSE ledger[y]
<1>1. DOMAIN ledger = LedgerKey /\ \A y \in LedgerKey : ledger[y] \in Seq(0..MaxTime)
  BY DEF LimitsTypeOK
<1>2. \A y \in LedgerKey : Append(ledger[y], now) \in Seq(0..MaxTime)
  BY <1>1 DEF LimitsTypeOK
<1>3. Entered(keys) = [y \in LedgerKey |-> IF y \in keys THEN Append(ledger[y], now) ELSE ledger[y]]
  BY <1>1, Zenon DEF Entered
<1> QED BY <1>1, <1>2, <1>3, Zenon

(* A step that leaves one gate's windows and its part of the ledger alone. *)
LEMMA RatesKept ==
  ASSUME RatesInv, UNCHANGED <<now, rates>>, \A y \in RateKey : ledger'[y] = ledger[y]
  PROVE  RatesInv'
<1>1. \A y \in RateKey : Live(ledger[y], Minute)' = Live(ledger[y], Minute)
  BY Zenon DEF Live
<1>2. RatesAgree'
  <2>1. \A y \in RateKey : Live(rates[y], Minute)' = Live(rates[y], Minute)
    BY Zenon DEF Live
  <2> QED BY <1>1, <2>1, Zenon DEF RatesInv, RatesAgree
<1>3. RateWindow'
  <2>1. \A y \in RateKey : InWindow(y, Minute)' = InWindow(y, Minute)
    BY <1>1, Zenon DEF InWindow
  <2>2. /\ \A x \in Subject, r \in Rule : <<"rule", r.key, x>> \in RateKey
        /\ \A x \in Subject, t \in Registered : <<"tool", t, x>> \in RateKey
    BY DEF RateKey
  <2> QED BY <2>1, <2>2, Zenon DEF RatesInv, RateWindow
<1> QED BY <1>2, <1>3 DEF RatesInv

(* A step that touches neither usage nor the budgets' ledger keeps         *)
(* UsageInv.                                                               *)
LEMMA UsageKept ==
  ASSUME UsageInv, UNCHANGED <<now, usage>>, \A y \in BudgetKey : ledger'[y] = ledger[y]
  PROVE  UsageInv'
<1>1. \A y \in BudgetKey : \A w : Live(ledger[y], w)' = Live(ledger[y], w)
  BY Zenon DEF Live
<1>2. UsageAgrees'
  <2>1. \A y \in BudgetKey : /\ Live(usage[y].hourly, Hour)' = Live(usage[y].hourly, Hour)
                             /\ Live(usage[y].daily, Day)' = Live(usage[y].daily, Day)
    BY Zenon DEF Live
  <2> QED BY <1>1, <2>1, Zenon DEF UsageInv, UsageAgrees
<1>3. BudgetWindow'
  <2>1. \A y \in BudgetKey : \A w : InWindow(y, w)' = InWindow(y, w)
    BY <1>1, Zenon DEF InWindow
  <2>2. /\ \A x \in Subject : <<"identity", x>> \in BudgetKey
        /\ \A s \in Session : <<"session", s>> \in BudgetKey
    BY DEF BudgetKey
  <2>3. \A y \in BudgetKey : \A bs : WithinLaxest(y, bs)' = WithinLaxest(y, bs)
    BY <2>1, Zenon DEF WithinLaxest
  <2> QED BY <2>2, <2>3, Zenon DEF UsageInv, BudgetWindow, IdentityBudgets, SessionBudgets
<1> QED BY <1>2, <1>3 DEF UsageInv

(* The same for velocity.                                                  *)
LEMMA VelocityKept ==
  ASSUME VelocityInv, UNCHANGED <<now, velocity>>, \A y \in VelocityKey : ledger'[y] = ledger[y]
  PROVE  VelocityInv'
<1>1. VelocityCovers'
  BY Zenon DEF VelocityInv, VelocityCovers
<1>2. VelocityBounded'
  BY Zenon DEF VelocityInv, VelocityBounded, InWindow, Live
<1> QED BY <1>1, <1>2 DEF VelocityInv

-----------------------------------------------------------------------------
(* Rates.take keeps the rates within their limits: it records a call only  *)
(* where the live window, which is the ledger's, is below the limit.       *)
LEMMA TakeInv ==
  ASSUME LimitsInv, NEW k \in Call, NEW r \in Rule, k.subject \in Subject,
         Take(k.subject, RateLimits(k, r)), UNCHANGED <<now, usage, velocity>>
  PROVE  LimitsInv'
<1> DEFINE Joins(y) ==
             /\ rates'[y] = Append(Live(rates[y], Minute), now)
             /\ ledger'[y] = Append(ledger[y], now)
             /\ \/ /\ y = <<"rule", r.key, k.subject>>
                   /\ ~(Len(Live(rates[y], Minute)) >= r.perMin)
                \/ /\ k.tool \in Registered /\ y = <<"tool", k.tool, k.subject>>
                   /\ ~(Len(Live(rates[y], Minute)) >= ToolPerMin[k.tool])
<1>0. LimitsTypeOK /\ RatesInv /\ UsageInv /\ VelocityInv
  BY SMTT(40) DEF LimitsInv
<1>1. \A y \in RateKey : \/ rates'[y] = rates[y] /\ ledger'[y] = ledger[y]
                         \/ rates'[y] = Live(rates[y], Minute) /\ ledger'[y] = ledger[y]
                         \/ Joins(y)
  BY <1>0, TakeOne, SMTT(40)
<1> HIDE DEF Joins
<1>2. PICK c \in Int : /\ c = now - Minute
                       /\ \A s : Live(s, Minute) = After(s, c)
                       /\ \A s : Live(s, Minute)' = After(s', c)
  BY <1>0, Timestamps, Widths, SMTT(40) DEF Live
<1>3. /\ now \in Int /\ \A y \in RateKey : rates[y] \in Seq(Int) /\ ledger[y] \in Seq(Int)
      /\ \A y \in RateKey : Live(rates[y], Minute) = Live(ledger[y], Minute)
  BY <1>0, Timestamps DEF RatesInv, RatesAgree
<1>4. PICK keys \in SUBSET RateKey : ledger' = Entered(keys) \/ ledger' = ledger
  <2> DEFINE ls == RateLimits(k, r)
             looked == {Key(ls[i], k.subject) :
                i \in {j \in DOMAIN ls : \A m \in 1..(j - 1) : ~Full(ls[m], k.subject)}}
  <2>1. \A i \in DOMAIN ls : Key(ls[i], k.subject) \in RateKey
    <3> TAKE i \in DOMAIN ls
    <3>1. \/ ls[i] = [kind |-> "rule", name |-> r.key, max |-> r.perMin]
          \/ /\ ls[i] = [kind |-> "tool", name |-> k.tool, max |-> ToolPerMin[k.tool]]
             /\ k.tool \in Registered
      BY LimitsAre, SMTT(40)
    <3> HIDE DEF ls
    <3> QED BY <3>1 DEF Key, RateKey
  <2>2. looked \subseteq RateKey
    BY <2>1
  <2>3. ledger' = Entered(looked) \/ ledger' = ledger
    BY Zenon DEF Take
  <2> HIDE DEF looked
  <2> QED BY <2>2, <2>3, SMTT(40)
<1>5. /\ ledger' \in [LedgerKey -> Seq(0..MaxTime)]
      /\ \A y \in LedgerKey \ RateKey : ledger'[y] = ledger[y]
  <2>1. /\ Entered(keys) \in [LedgerKey -> Seq(0..MaxTime)]
        /\ \A y \in LedgerKey : y \notin keys => Entered(keys)[y] = ledger[y]
    BY <1>0, EnteredOne, Zenon
  <2>2. CASE ledger' = ledger
    BY <1>0, <2>2, Zenon DEF LimitsTypeOK
  <2>3. CASE ledger' = Entered(keys)
    BY <1>4, <2>1, <2>3, ZenonT(40)
  <2> QED BY <1>4, <2>2, <2>3, Zenon
<1>6. LimitsTypeOK'
  <2>1. \A y \in RateKey : rates'[y] \in Seq(0..MaxTime)
    <3> TAKE y \in RateKey
    <3>1. rates[y] \in Seq(0..MaxTime)
      BY <1>0 DEF LimitsTypeOK
    <3>2. Live(rates[y], Minute) \in Seq(0..MaxTime)
          /\ Append(Live(rates[y], Minute), now) \in Seq(0..MaxTime)
      BY <1>0, <3>1, LiveType, Widths, SMTT(40)
    <3> QED BY <1>1, <3>1, <3>2, Zenon DEF Joins
  <2>2. rates' \in [RateKey -> Seq(0..MaxTime)]
    <3>1. PICK f : rates' = [y \in RateKey |-> f[y]]
      <4>1. DOMAIN rates' = RateKey /\ rates' = [y \in DOMAIN rates' |-> rates'[y]]
        BY DEF Take
      <4> QED BY <4>1, SMTT(40)
    <3> QED BY <2>1, <3>1
  <2> QED BY <1>0, <1>5, <2>2 DEF LimitsTypeOK
<1>7. RatesAgree'
  <2> SUFFICES ASSUME NEW y \in RateKey
               PROVE  After(rates'[y], c) = After(ledger'[y], c)
    BY <1>2, SMTT(40) DEF RatesAgree, Live
  <2>1. PICK a \in Seq(Int), b \in Seq(Int) :
          a = rates[y] /\ b = ledger[y] /\ After(a, c) = After(b, c)
    BY <1>2, <1>3, SMTT(40)
  <2>2. CASE Joins(y)
    <3>1. rates'[y] = Append(After(a, c), now) /\ ledger'[y] = Append(b, now)
      BY <1>2, <2>1, <2>2, SMTT(40) DEF Joins
    <3> QED BY <1>3, <2>1, <3>1, JoinAgree, SMTT(40)
  <2>3. CASE rates'[y] = rates[y] /\ ledger'[y] = ledger[y]
    BY <2>1, <2>3, SMTT(40)
  <2>4. CASE rates'[y] = Live(rates[y], Minute) /\ ledger'[y] = ledger[y]
    <3>1. rates'[y] = After(a, c) /\ ledger'[y] = b
      BY <1>2, <2>1, <2>4
    <3>2. After(After(a, c), c) = After(a, c)
      BY AfterAfter, SMTT(40)
    <3> QED BY <2>1, <3>1, <3>2, SMTT(40)
  <2> QED BY <1>1, <2>2, <2>3, <2>4, Zenon
<1>8. \A y \in RateKey : /\ InWindow(y, Minute)' \in Nat /\ InWindow(y, Minute) \in Nat
                         /\ \/ InWindow(y, Minute)' = InWindow(y, Minute)
                            \/ Joins(y) /\ InWindow(y, Minute)' <= Len(Live(rates[y], Minute)) + 1
  <2> TAKE y \in RateKey
  <2>1. PICK b \in Seq(Int) : b = ledger[y]
    BY <1>3, SMTT(40)
  <2>2. InWindow(y, Minute) = Len(After(b, c)) /\ InWindow(y, Minute) = Len(Live(rates[y], Minute))
    BY <1>2, <1>3, <2>1, SMTT(40) DEF InWindow
  <2>3. InWindow(y, Minute)' = Len(After(ledger'[y], c))
    BY <1>2 DEF InWindow, Live
  <2>4. /\ Len(After(b, c)) \in Nat /\ Len(After(Append(b, now), c)) \in Nat
        /\ Len(After(Append(b, now), c)) <= Len(After(b, c)) + 1
    BY <1>3, JoinLen, SMTT(40)
  <2>5. CASE Joins(y)
    BY <2>1, <2>2, <2>3, <2>4, <2>5, SMTT(40) DEF Joins
  <2>6. CASE ledger'[y] = ledger[y]
    BY <2>1, <2>2, <2>3, <2>4, <2>6, Zenon
  <2> QED BY <1>1, <2>5, <2>6, SMTT(40)
<1>9. RateWindow'
  <2>1. ASSUME NEW x \in Subject, NEW q \in Rule, q.perMin > 0
        PROVE  \E p \in Rule : p.key = q.key /\ InWindow(<<"rule", q.key, x>>, Minute)' <= p.perMin
    <3>0. <<"rule", q.key, x>> \in RateKey
      BY DEF RateKey
    <3>1. PICK y \in RateKey : y = <<"rule", q.key, x>>
      BY <3>0
    <3>2. CASE InWindow(y, Minute)' = InWindow(y, Minute)
      BY <1>0, <2>1, <3>1, <3>2, ZenonT(40) DEF RatesInv, RateWindow
    <3>3. CASE Joins(y) /\ InWindow(y, Minute)' <= Len(Live(rates[y], Minute)) + 1
      <4>1. q.key = r.key /\ ~(Len(Live(rates[y], Minute)) >= r.perMin)
        BY <3>1, <3>3, SMTT(40) DEF Joins
      <4>2. Len(Live(rates[y], Minute)) \in Nat /\ r.perMin \in Int /\ InWindow(y, Minute)' \in Nat
        BY <1>2, <1>3, <1>8, JoinLen, GatesAssumption, SMTT(40)
      <4>3. InWindow(y, Minute)' <= r.perMin
        BY <3>3, <4>1, <4>2, SMTT(40)
      <4> QED BY <3>1, <4>1, <4>3
    <3> QED BY <1>8, <3>2, <3>3, SMTT(40)
  <2>2. ASSUME NEW x \in Subject, NEW t \in Registered, ToolPerMin[t] > 0
        PROVE  InWindow(<<"tool", t, x>>, Minute)' <= ToolPerMin[t]
    <3>0. <<"tool", t, x>> \in RateKey
      BY DEF RateKey
    <3>1. PICK y \in RateKey : y = <<"tool", t, x>>
      BY <3>0
    <3>2. CASE InWindow(y, Minute)' = InWindow(y, Minute)
      BY <1>0, <2>2, <3>1, <3>2, Zenon DEF RatesInv, RateWindow
    <3>3. CASE Joins(y) /\ InWindow(y, Minute)' <= Len(Live(rates[y], Minute)) + 1
      <4>1. ~(Len(Live(rates[y], Minute)) >= ToolPerMin[t])
        BY <3>1, <3>3, SMTT(40) DEF Joins
      <4>2. /\ Len(Live(rates[y], Minute)) \in Nat /\ ToolPerMin[t] \in Int
            /\ InWindow(y, Minute)' \in Nat
        BY <1>2, <1>3, <1>8, JoinLen, GatesAssumption, SMTT(40)
      <4> QED BY <3>1, <3>3, <4>1, <4>2, SMTT(40)
    <3> QED BY <1>8, <3>2, <3>3, SMTT(40)
  <2> QED BY <2>1, <2>2, Zenon DEF RateWindow
<1>10. UsageInv' /\ VelocityInv'
  <2>1. /\ \A y \in BudgetKey : ledger'[y] = ledger[y]
        /\ \A y \in VelocityKey : ledger'[y] = ledger[y]
    BY <1>5, KeysApart DEF LedgerKey
  <2> QED BY <1>0, <2>1, UsageKept, VelocityKept, SMTT(40)
<1> QED BY <1>6, <1>7, <1>9, <1>10, SMTT(40) DEF LimitsInv, RatesInv

-----------------------------------------------------------------------------
(* Tracker.CheckAndRecord (tracker.go:32-65), seen from one key: trimmed,  *)
(* with the call if it was recorded, or left alone; and it is recorded     *)
(* only below a limit declared on that kind of key.                        *)
LEMMA RecordOne ==
  ASSUME LimitsTypeOK, NEW k \in Call, NEW r \in Rule, ~Unattributable(k, r),
         CheckAndRecord(k, r), NEW y \in BudgetKey
  PROVE  \/ usage'[y] = usage[y] /\ ledger'[y] = ledger[y]
         \/ usage'[y] = Trimmed(usage[y]) /\ ledger'[y] = ledger[y]
         \/ /\ usage'[y] = Spend(Trimmed(usage[y])) /\ ledger'[y] = Append(ledger[y], now)
            /\ \/ /\ y = <<"identity", k.subject>> /\ r.identity.declared
                  /\ ~Exhausted(usage[y], r.identity)
               \/ /\ y = <<"session", k.session>> /\ r.session.declared
                  /\ ~Exhausted(usage[y], r.session)
<1> DEFINE looked == IF IdentityFull(k, r) THEN {<<"identity", k.subject>>} ELSE Charged(k, r)
           fits == WithinBudget(k, r)
<1>1. usage'[y] = IF y \notin looked THEN usage[y]
                  ELSE IF fits THEN Spend(Trimmed(usage[y])) ELSE Trimmed(usage[y])
  BY Zenon DEF CheckAndRecord
<1>2. ledger'[y] = IF fits /\ y \in looked THEN Append(ledger[y], now) ELSE ledger[y]
  <2>1. ledger' = IF fits THEN Entered(looked) ELSE ledger
    BY DEF CheckAndRecord
  <2>2. y \in LedgerKey
    BY DEF LedgerKey
  <2>3. Entered(looked)[y] = IF y \in looked THEN Append(ledger[y], now) ELSE ledger[y]
    <3> HIDE DEF looked
    <3> QED BY <2>2, EnteredOne, SMTT(40)
  <2> HIDE DEF looked, fits
  <2> QED BY <2>1, <2>3, SMTT(40)
<1>3. CASE ~(fits /\ y \in looked)
  <2> HIDE DEF looked, fits
  <2> QED BY <1>1, <1>2, <1>3, SMTT(40)
<1>4. CASE fits /\ y \in looked
  <2>1. ~IdentityFull(k, r) /\ y \in Charged(k, r)
    BY <1>4 DEF WithinBudget
  <2>2. \/ y = <<"identity", k.subject>> /\ r.identity.declared
        \/ y = <<"session", k.session>> /\ r.session.declared
    BY <2>1 DEF Charged
  <2>3. /\ y = <<"identity", k.subject>> /\ r.identity.declared => ~Exhausted(usage[y], r.identity)
        /\ y = <<"session", k.session>> /\ r.session.declared => ~Exhausted(usage[y], r.session)
    BY <1>4, Zenon DEF WithinBudget, IdentityFull
  <2> HIDE DEF looked, fits
  <2> QED BY <1>1, <1>2, <1>4, <2>2, <2>3, SMTT(40)
<1> QED BY <1>3, <1>4, Zenon

(* What joining means for a window of width w: it agrees with the ledger   *)
(* as before, and counts one call more.                                    *)
JoinsWell(a, b, w) ==
  /\ After(Append(Live(a, w), now), now - w) = After(Append(b, now), now - w)
  /\ After(Live(a, w), now - w) = After(b, now - w)
  /\ Len(Live(a, w)) \in Nat /\ Len(After(b, now - w)) \in Nat
  /\ Len(After(Append(b, now), now - w)) \in Nat
  /\ Len(After(Append(b, now), now - w)) <= Len(Live(a, w)) + 1

(* Two sequences that show the same to a window still do when both get the *)
(* same entry, before or after one of them is trimmed.                     *)
LEMMA JoinWindow ==
  ASSUME NEW a \in Seq(Int), NEW b \in Seq(Int), NEW w \in Nat, now \in Int,
         Live(a, w) = Live(b, w)
  PROVE  JoinsWell(a, b, w)
<1>1. PICK c \in Int : c = now - w
  OBVIOUS
<1>2. Live(a, w) = After(a, c) /\ After(a, c) = After(b, c)
  BY <1>1 DEF Live
<1>3. After(Append(After(a, c), now), c) = After(Append(b, now), c)
  BY <1>2, JoinAgree
<1>4. After(After(a, c), c) = After(a, c)
  BY AfterAfter
<1>5. /\ Len(After(b, c)) \in Nat /\ Len(After(Append(b, now), c)) \in Nat
      /\ Len(After(Append(b, now), c)) <= Len(After(b, c)) + 1
  BY JoinLen
<1> QED BY <1>1, <1>2, <1>3, <1>4, <1>5, SMTT(40) DEF JoinsWell

(* CheckAndRecord keeps every identity and session within the laxest of    *)
(* the budgets on it: the rule that admitted the last call is the witness. *)
LEMMA CheckAndRecordInv ==
  ASSUME LimitsInv, NEW k \in Call, NEW r \in Rule, ~Unattributable(k, r),
         CheckAndRecord(k, r), UNCHANGED <<now, rates, velocity>>
  PROVE  LimitsInv'
<1> DEFINE Joins(y) ==
             /\ usage'[y] = Spend(Trimmed(usage[y])) /\ ledger'[y] = Append(ledger[y], now)
             /\ \/ /\ y = <<"identity", k.subject>> /\ r.identity.declared
                   /\ ~Exhausted(usage[y], r.identity)
                \/ /\ y = <<"session", k.session>> /\ r.session.declared
                   /\ ~Exhausted(usage[y], r.session)
<1>0. LimitsTypeOK /\ RatesInv /\ UsageInv /\ VelocityInv
  BY SMTT(40) DEF LimitsInv
<1>1. \A y \in BudgetKey : \/ usage'[y] = usage[y] /\ ledger'[y] = ledger[y]
                           \/ usage'[y] = Trimmed(usage[y]) /\ ledger'[y] = ledger[y]
                           \/ Joins(y)
  BY <1>0, RecordOne
<1> HIDE DEF Joins
<1>2. /\ now \in Int /\ Hour \in Nat /\ Day \in Nat
      /\ \A y \in BudgetKey :
           /\ usage[y].hourly \in Seq(Int) /\ usage[y].daily \in Seq(Int) /\ ledger[y] \in Seq(Int)
           /\ Live(usage[y].hourly, Hour) = Live(ledger[y], Hour)
           /\ Live(usage[y].daily, Day) = Live(ledger[y], Day)
  BY <1>0, Timestamps, Widths, Zenon DEF UsageInv, UsageAgrees
<1>3. PICK keys \in SUBSET BudgetKey : ledger' = Entered(keys) \/ ledger' = ledger
  <2> DEFINE looked == IF IdentityFull(k, r) THEN {<<"identity", k.subject>>} ELSE Charged(k, r)
  <2>1. /\ r.identity.declared => <<"identity", k.subject>> \in BudgetKey
        /\ r.session.declared => <<"session", k.session>> \in BudgetKey
    <3>1. /\ r.identity.declared => k.subject \in Subject
          /\ r.session.declared => k.session \in Session
      BY GatesAssumption, Zenon DEF Unattributable
    <3> QED BY <3>1 DEF BudgetKey
  <2>2. looked \subseteq BudgetKey
    BY <2>1 DEF IdentityFull, Charged
  <2>3. ledger' = Entered(looked) \/ ledger' = ledger
    BY Zenon DEF CheckAndRecord
  <2> HIDE DEF looked
  <2> QED BY <2>2, <2>3, SMTT(40)
<1>4. /\ ledger' \in [LedgerKey -> Seq(0..MaxTime)]
      /\ \A y \in LedgerKey \ BudgetKey : ledger'[y] = ledger[y]
  <2>1. /\ Entered(keys) \in [LedgerKey -> Seq(0..MaxTime)]
        /\ \A y \in LedgerKey : y \notin keys => Entered(keys)[y] = ledger[y]
    BY <1>0, EnteredOne, Zenon
  <2>2. CASE ledger' = ledger
    BY <1>0, <2>2, Zenon DEF LimitsTypeOK
  <2>3. CASE ledger' = Entered(keys)
    BY <1>3, <2>1, <2>3, ZenonT(40)
  <2> QED BY <1>3, <2>2, <2>3, Zenon
<1>5. \A y \in BudgetKey :
        /\ Trimmed(usage[y]) = [hourly |-> Live(usage[y].hourly, Hour),
                                daily |-> Live(usage[y].daily, Day)]
        /\ Spend(Trimmed(usage[y])) = [hourly |-> Append(Live(usage[y].hourly, Hour), now),
                                       daily |-> Append(Live(usage[y].daily, Day), now)]
  BY SMTT(40) DEF Trimmed, Spend
<1>6. LimitsTypeOK'
  <2> DEFINE U == [hourly : Seq(0..MaxTime), daily : Seq(0..MaxTime)]
  <2>1. ASSUME NEW y \in BudgetKey PROVE usage'[y] \in U
    <3>1. usage[y] \in U
      BY <1>0, SMTT(40) DEF LimitsTypeOK
    <3>2. /\ Live(usage[y].hourly, Hour) \in Seq(0..MaxTime)
          /\ Append(Live(usage[y].hourly, Hour), now) \in Seq(0..MaxTime)
      BY <1>0, <1>2, <3>1, LiveType, SMTT(40)
    <3>3. /\ Live(usage[y].daily, Day) \in Seq(0..MaxTime)
          /\ Append(Live(usage[y].daily, Day), now) \in Seq(0..MaxTime)
      BY <1>0, <1>2, <3>1, LiveType, SMTT(40)
    <3>4. /\ [hourly |-> Live(usage[y].hourly, Hour), daily |-> Live(usage[y].daily, Day)] \in U
          /\ [hourly |-> Append(Live(usage[y].hourly, Hour), now),
              daily |-> Append(Live(usage[y].daily, Day), now)] \in U
      BY <3>2, <3>3
    <3>5. Trimmed(usage[y]) \in U /\ Spend(Trimmed(usage[y])) \in U
      BY <1>5, <3>4, Zenon
    <3> HIDE DEF U
    <3> QED BY <1>1, <3>1, <3>5, SMTT(40) DEF Joins
  <2>2. usage' \in [BudgetKey -> U]
    <3>1. DOMAIN usage' = BudgetKey /\ usage' = [y \in DOMAIN usage' |-> usage'[y]]
      BY DEF CheckAndRecord
    <3> QED BY <2>1, <3>1, SMTT(40)
  <2> QED BY <1>0, <1>4, <2>2, SMTT(40) DEF LimitsTypeOK
<1>7. ASSUME NEW y \in BudgetKey
      PROVE  /\ After(usage'[y].hourly, now - Hour) = After(ledger'[y], now - Hour)
             /\ After(usage'[y].daily, now - Day) = After(ledger'[y], now - Day)
             /\ InWindow(y, Hour)' \in Nat /\ InWindow(y, Day)' \in Nat
             /\ \/ /\ InWindow(y, Hour)' = InWindow(y, Hour)
                   /\ InWindow(y, Day)' = InWindow(y, Day)
                \/ /\ Joins(y)
                   /\ InWindow(y, Hour)' <= Len(Live(usage[y].hourly, Hour)) + 1
                   /\ InWindow(y, Day)' <= Len(Live(usage[y].daily, Day)) + 1
  <2>1. PICK a \in Seq(Int), d \in Seq(Int), b \in Seq(Int) :
          /\ a = usage[y].hourly /\ d = usage[y].daily /\ b = ledger[y]
          /\ Live(a, Hour) = Live(b, Hour) /\ Live(d, Day) = Live(b, Day)
    BY <1>2, Zenon
  <2>0. now \in Int /\ Hour \in Nat /\ Day \in Nat
    BY <1>2, Zenon
  <2>2. JoinsWell(a, b, Hour)
    BY <2>0, <2>1, JoinWindow, ZenonT(40)
  <2>3. JoinsWell(d, b, Day)
    BY <2>0, <2>1, JoinWindow, SMTT(40)
  <2>4. /\ InWindow(y, Hour)' = Len(After(ledger'[y], now - Hour))
        /\ InWindow(y, Day)' = Len(After(ledger'[y], now - Day))
        /\ InWindow(y, Hour) = Len(After(ledger[y], now - Hour))
        /\ InWindow(y, Day) = Len(After(ledger[y], now - Day))
    BY DEF InWindow, Live
  <2>5. CASE Joins(y)
    <3>0. usage'[y] = [hourly |-> Append(Live(a, Hour), now), daily |-> Append(Live(d, Day), now)]
      BY <1>5, <2>1, <2>5, Zenon DEF Joins
    <3>1. /\ usage'[y].hourly = Append(Live(a, Hour), now)
          /\ usage'[y].daily = Append(Live(d, Day), now)
          /\ ledger'[y] = Append(b, now)
      <4>1. PICK p, q : p = Append(Live(a, Hour), now) /\ q = Append(Live(d, Day), now)
        BY Zenon
      <4>2. usage'[y] = [hourly |-> p, daily |-> q]
        BY <3>0, <4>1, ZenonT(40)
      <4>3. usage'[y].hourly = p /\ usage'[y].daily = q
        BY <4>2
      <4>4. ledger'[y] = Append(b, now)
        BY <2>1, <2>5, Zenon DEF Joins
      <4> QED BY <4>1, <4>3, <4>4, Zenon
    <3> QED BY <2>1, <2>2, <2>3, <2>4, <2>5, <3>1, Zenon DEF JoinsWell
  <2>6. CASE usage'[y] = usage[y] /\ ledger'[y] = ledger[y]
    <3>1. After(a, now - Hour) = After(b, now - Hour) /\ After(d, now - Day) = After(b, now - Day)
      BY <2>1 DEF Live
    <3> QED BY <2>1, <2>2, <2>3, <2>4, <2>6, <3>1, Zenon DEF JoinsWell
  <2>7. CASE usage'[y] = Trimmed(usage[y]) /\ ledger'[y] = ledger[y]
    <3>0. usage'[y] = [hourly |-> Live(a, Hour), daily |-> Live(d, Day)]
      BY <1>5, <2>1, <2>7, Zenon
    <3>1. usage'[y].hourly = Live(a, Hour) /\ usage'[y].daily = Live(d, Day)
      <4>1. PICK p, q : p = Live(a, Hour) /\ q = Live(d, Day)
        BY Zenon
      <4>2. usage'[y] = [hourly |-> p, daily |-> q]
        BY <3>0, <4>1, ZenonT(40)
      <4>3. usage'[y].hourly = p /\ usage'[y].daily = q
        BY <4>2
      <4> QED BY <4>1, <4>3, Zenon
    <3> QED BY <2>1, <2>2, <2>3, <2>4, <2>7, <3>1, Zenon DEF JoinsWell
  <2> QED BY <1>1, <2>5, <2>6, <2>7, Zenon
<1>8. UsageAgrees'
  BY <1>7, Zenon DEF UsageAgrees, Live
<1>9. BudgetWindow'
  <2>1. ASSUME NEW y \in BudgetKey, NEW bs, WithinLaxest(y, bs), NEW b \in bs,
               b.perHour \in Int, b.perDay \in Int, ~Exhausted(usage[y], b),
               InWindow(y, Hour)' <= Len(Live(usage[y].hourly, Hour)) + 1,
               InWindow(y, Day)' <= Len(Live(usage[y].daily, Day)) + 1
        PROVE  WithinLaxest(y, bs)'
    <3>1. Len(Live(usage[y].hourly, Hour)) \in Nat /\ Len(Live(usage[y].daily, Day)) \in Nat
      BY <1>2, JoinWindow, SMTT(40) DEF JoinsWell
    <3>2. b.perHour <= 0 \/ InWindow(y, Hour)' <= b.perHour
      <4>1. PICK x \in Nat, n \in Nat, m \in Int :
                x = InWindow(y, Hour)' /\ n = Len(Live(usage[y].hourly, Hour)) /\ m = b.perHour
        BY <1>7, <2>1, <3>1, Zenon
      <4>2. x <= n + 1 /\ ~(m > 0 /\ n >= m)
        BY <2>1, <4>1, Zenon DEF Exhausted
      <4>3. m <= 0 \/ x <= m
        BY <4>2
      <4> QED BY <4>1, <4>3, Zenon
    <3>3. b.perDay <= 0 \/ InWindow(y, Day)' <= b.perDay
      <4>1. PICK x \in Nat, n \in Nat, m \in Int :
                x = InWindow(y, Day)' /\ n = Len(Live(usage[y].daily, Day)) /\ m = b.perDay
        BY <1>7, <2>1, <3>1, Zenon
      <4>2. x <= n + 1 /\ ~(m > 0 /\ n >= m)
        BY <2>1, <4>1, Zenon DEF Exhausted
      <4>3. m <= 0 \/ x <= m
        BY <4>2
      <4> QED BY <4>1, <4>3, Zenon
    <3> QED BY <2>1, <3>2, <3>3, ZenonT(40) DEF WithinLaxest
  <2>2. ASSUME NEW y \in BudgetKey, NEW bs, WithinLaxest(y, bs),
               InWindow(y, Hour)' = InWindow(y, Hour), InWindow(y, Day)' = InWindow(y, Day)
        PROVE  WithinLaxest(y, bs)'
    BY <2>2, Zenon DEF WithinLaxest
  <2>3. /\ r.identity.perHour \in Int /\ r.identity.perDay \in Int
        /\ r.session.perHour \in Int /\ r.session.perDay \in Int
    BY GatesAssumption
  <2>4. ASSUME NEW x \in Subject PROVE WithinLaxest(<<"identity", x>>, IdentityBudgets)'
    <3>1. <<"identity", x>> \in BudgetKey
      BY DEF BudgetKey
    <3>2. PICK y \in BudgetKey : y = <<"identity", x>>
      BY <3>1
    <3>3. WithinLaxest(y, IdentityBudgets)
      BY <1>0, <3>2, SMTT(40) DEF UsageInv, BudgetWindow
    <3>4. Joins(y) => r.identity \in IdentityBudgets /\ ~Exhausted(usage[y], r.identity)
      BY <3>2 DEF Joins, IdentityBudgets
    <3>5. WithinLaxest(y, IdentityBudgets)'
      <4>1. CASE Joins(y) /\ InWindow(y, Hour)' <= Len(Live(usage[y].hourly, Hour)) + 1
                          /\ InWindow(y, Day)' <= Len(Live(usage[y].daily, Day)) + 1
        BY <2>1, <2>3, <3>3, <3>4, <4>1, ZenonT(40)
      <4>2. CASE InWindow(y, Hour)' = InWindow(y, Hour) /\ InWindow(y, Day)' = InWindow(y, Day)
        BY <2>2, <3>3, <4>2, SMTT(40)
      <4> QED BY <1>7, <4>1, <4>2, ZenonT(40)
    <3> QED BY <3>2, <3>5
  <2>5. ASSUME NEW s \in Session PROVE WithinLaxest(<<"session", s>>, SessionBudgets)'
    <3>1. <<"session", s>> \in BudgetKey
      BY DEF BudgetKey
    <3>2. PICK y \in BudgetKey : y = <<"session", s>>
      BY <3>1
    <3>3. WithinLaxest(y, SessionBudgets)
      BY <1>0, <3>2 DEF UsageInv, BudgetWindow
    <3>4. Joins(y) => r.session \in SessionBudgets /\ ~Exhausted(usage[y], r.session)
      BY <3>2, Zenon DEF Joins, SessionBudgets
    <3>5. WithinLaxest(y, SessionBudgets)'
      <4>1. CASE Joins(y) /\ InWindow(y, Hour)' <= Len(Live(usage[y].hourly, Hour)) + 1
                          /\ InWindow(y, Day)' <= Len(Live(usage[y].daily, Day)) + 1
        BY <2>1, <2>3, <3>3, <3>4, <4>1, ZenonT(40)
      <4>2. CASE InWindow(y, Hour)' = InWindow(y, Hour) /\ InWindow(y, Day)' = InWindow(y, Day)
        BY <2>2, <3>3, <4>2, SMTT(40)
      <4> QED BY <1>7, <4>1, <4>2, Zenon
    <3> QED BY <3>2, <3>5, SMTT(40)
  <2> QED BY <2>4, <2>5, Zenon DEF BudgetWindow
<1>10. RatesInv' /\ VelocityInv'
  <2>1. /\ \A y \in RateKey : ledger'[y] = ledger[y]
        /\ \A y \in VelocityKey : ledger'[y] = ledger[y]
    BY <1>4, KeysApart DEF LedgerKey
  <2> QED BY <1>0, <2>1, RatesKept, VelocityKept, SMTT(40)
<1> QED BY <1>6, <1>8, <1>9, <1>10, SMTT(40) DEF LimitsInv, UsageInv

(* VelocityTracker.Record (velocity.go:64-96) lets a call through only     *)
(* while the window with it in, refused calls included, is within the      *)
(* threshold.                                                              *)
LEMMA VelocityRecordInv ==
  ASSUME LimitsInv, NEW k \in Call, VelocityRecord(k), UNCHANGED <<now, rates, usage>>
  PROVE  LimitsInv'
<1> DEFINE z == <<"velocity", k.subject>>
           win == VelocityWindow(k)
<1>0. LimitsTypeOK /\ RatesInv /\ UsageInv /\ VelocityInv
  BY DEF LimitsInv
<1>1. z \in VelocityKey /\ z \in LedgerKey
  BY GatesAssumption DEF VelocityKey, LedgerKey
<1>2. PICK v \in Seq(Int), b \in Seq(Int), c \in Int :
        /\ v = velocity[z] /\ b = ledger[z] /\ c = now - Minute
        /\ win = Append(After(v, c), now) /\ now \in Int /\ Threshold \in Int
  <2>1. win = Append(After(velocity[z], now - Minute), now)
    BY SMTT(40) DEF VelocityWindow, Live
  <2>2. /\ now \in Int /\ now - Minute \in Int /\ Threshold \in Int
        /\ velocity[z] \in Seq(Int) /\ ledger[z] \in Seq(Int)
    BY <1>0, <1>1, Timestamps, Widths, GatesAssumption, SMTT(40)
  <2> HIDE DEF win, z
  <2> QED BY <2>1, <2>2, Zenon
<1>3. /\ velocity' = [velocity EXCEPT ![z] = win]
      /\ ledger' = IF AlertDeny /\ Len(win) > Threshold THEN ledger ELSE Entered({z})
  BY DEF VelocityRecord
<1>4. win \in Seq(0..MaxTime)
  <2>1. velocity[z] \in Seq(0..MaxTime)
    BY <1>0, <1>1 DEF LimitsTypeOK
  <2> QED BY <1>0, <2>1, LiveType, Widths, SMTT(40) DEF VelocityWindow
<1> HIDE DEF win, z
<1>5. /\ velocity'[z] = win /\ \A y \in VelocityKey \ {z} : velocity'[y] = velocity[y]
      /\ velocity' \in [VelocityKey -> Seq(0..MaxTime)]
  BY <1>0, <1>1, <1>3, <1>4 DEF LimitsTypeOK
<1>6. /\ ledger' \in [LedgerKey -> Seq(0..MaxTime)]
      /\ \A y \in LedgerKey \ {z} : ledger'[y] = ledger[y]
      /\ \/ ledger'[z] = b /\ AlertDeny /\ Len(win) > Threshold
         \/ ledger'[z] = Append(b, now) /\ ~(AlertDeny /\ Len(win) > Threshold)
  BY <1>0, <1>1, <1>2, <1>3, EnteredOne, Zenon DEF LimitsTypeOK
<1>7. LimitsTypeOK'
  BY <1>0, <1>5, <1>6, Zenon DEF LimitsTypeOK
<1>8. ASSUME NEW x \in Int, x >= c
      PROVE  /\ Len(After(win, x)) \in Nat /\ Len(After(b, x)) \in Nat /\ Len(After(v, x)) \in Nat
             /\ Len(After(win, x)) = Len(After(v, x)) + (IF now > x THEN 1 ELSE 0)
             /\ Len(After(Append(b, now), x)) = Len(After(b, x)) + (IF now > x THEN 1 ELSE 0)
  <2>1. PICK w \in Seq(Int) : w = After(v, c)
    BY AfterType
  <2>2. After(w, x) = After(v, x)
    BY <1>8, <2>1, AfterAfter, SMTT(40)
  <2>3. After(Append(w, now), x) = IF now > x THEN Append(After(w, x), now) ELSE After(w, x)
    BY <1>2, AfterAppend
  <2>4. After(Append(b, now), x) = IF now > x THEN Append(After(b, x), now) ELSE After(b, x)
    BY <1>2, AfterAppend, Zenon
  <2>5. PICK p \in Seq(Int), q \in Seq(Int) : p = After(v, x) /\ q = After(b, x)
    BY AfterType
  <2>6. After(win, x) = IF now > x THEN Append(p, now) ELSE p
    BY <1>2, <2>1, <2>2, <2>3, <2>5, SMTT(40)
  <2>7. After(Append(b, now), x) = IF now > x THEN Append(q, now) ELSE q
    BY <2>4, <2>5, SMTT(40)
  <2> HIDE <1>2
  <2>8. CASE now > x
    BY <2>5, <2>6, <2>7, <2>8, SMTT(40)
  <2>9. CASE ~(now > x)
    BY <2>5, <2>6, <2>7, <2>9, SMTT(40)
  <2> QED BY <2>8, <2>9
<1>9. VelocityCovers'
  <2> SUFFICES ASSUME AlertDeny, NEW y \in VelocityKey, NEW x \in Int, x >= c
               PROVE  Len(After(ledger'[y], x)) <= Len(After(velocity'[y], x))
    BY <1>2, SMTT(40) DEF VelocityCovers
  <2>1. Len(After(ledger[y], x)) <= Len(After(velocity[y], x))
    BY <1>0, <1>2, SMTT(40) DEF VelocityInv, VelocityCovers
  <2>2. CASE y # z
    BY <1>5, <1>6, <2>1, <2>2, SMTT(40) DEF LedgerKey
  <2>3. CASE y = z
    <3>1. Len(After(b, x)) <= Len(After(v, x))
      BY <1>2, <2>1, <2>3, SMTT(40)
    <3>2. /\ Len(After(win, x)) \in Nat /\ Len(After(b, x)) \in Nat /\ Len(After(v, x)) \in Nat
          /\ Len(After(win, x)) = Len(After(v, x)) + (IF now > x THEN 1 ELSE 0)
          /\ Len(After(Append(b, now), x)) = Len(After(b, x)) + (IF now > x THEN 1 ELSE 0)
      BY <1>8
    <3>3. /\ Len(After(b, x)) <= Len(After(win, x))
          /\ Len(After(Append(b, now), x)) <= Len(After(win, x))
      BY <3>1, <3>2, SMTT(40)
    <3> QED BY <1>5, <1>6, <2>3, <3>3, Zenon
  <2> QED BY <2>2, <2>3, SMTT(40)
<1>10. VelocityBounded'
  <2> SUFFICES ASSUME AlertDeny, NEW y \in VelocityKey
               PROVE  Len(After(ledger'[y], c)) <= Threshold
    BY <1>2, SMTT(40) DEF VelocityBounded, InWindow, Live
  <2>1. Len(After(ledger[y], c)) <= Threshold
    BY <1>0, <1>2, SMTT(40) DEF VelocityInv, VelocityBounded, InWindow, Live
  <2>2. CASE y # z
    BY <1>6, <2>1, <2>2, SMTT(40) DEF LedgerKey
  <2>3. CASE y = z /\ ledger'[z] = b
    BY <1>2, <2>1, <2>3, SMTT(40)
  <2>4. CASE y = z /\ ledger'[z] = Append(b, now) /\ ~(Len(win) > Threshold)
    <3>1. Len(After(b, c)) <= Len(After(v, c))
      <4>1. c >= now - Minute
        BY <1>2
      <4> QED BY <1>0, <1>1, <1>2, <4>1, SMTT(40) DEF VelocityInv, VelocityCovers
    <3>2. After(v, c) \in Seq(Int)
      BY AfterType, SMTT(40)
    <3>3. Len(win) = Len(After(v, c)) + 1
      BY <1>2, <3>2
    <3>4. /\ Len(After(Append(b, now), c)) <= Len(After(b, c)) + 1 /\ Len(After(b, c)) \in Nat
          /\ Len(After(Append(b, now), c)) \in Nat
      <4>1. now \in Int /\ Append(b, now) \in Seq(Int)
        BY <1>2
      <4> QED BY <4>1, JoinLen, SMTT(40)
    <3>5. Len(After(v, c)) \in Nat
      BY <3>2, SMTT(40)
    <3> HIDE <1>2
    <3> QED BY <2>4, <3>1, <3>3, <3>4, <3>5, GatesAssumption, SMTT(40)
  <2> QED BY <1>6, <2>2, <2>3, <2>4, SMTT(40)
<1>11. RatesInv' /\ UsageInv'
  <2>1. /\ \A y \in RateKey : ledger'[y] = ledger[y]
        /\ \A y \in BudgetKey : ledger'[y] = ledger[y]
    BY <1>1, <1>6, KeysApart DEF LedgerKey
  <2> QED BY <1>0, <2>1, RatesKept, UsageKept, SMTT(40)
<1> QED BY <1>7, <1>9, <1>10, <1>11, SMTT(40) DEF LimitsInv, VelocityInv

-----------------------------------------------------------------------------
(* Time only takes calls out of the windows.                               *)
LEMMA ClockInv ==
  ASSUME LimitsInv, Clock
  PROVE  LimitsInv'
<1>0. LimitsTypeOK /\ RatesInv /\ UsageInv /\ VelocityInv
  BY DEF LimitsInv
<1>1. /\ now' = now + 1 /\ now \in Int /\ now' \in Int /\ now' \in 0..MaxTime
      /\ UNCHANGED <<rates, usage, velocity>>
  BY <1>0, BreakerAssumption DEF Clock, Tick, LimitsTypeOK
<1>2. /\ DOMAIN ledger = LedgerKey
      /\ ledger' = [y \in LedgerKey |-> After(ledger[y], now' - Width(y))]
  BY <1>0, Zenon DEF Clock, LimitsTypeOK
<1>3. ASSUME NEW y \in LedgerKey
      PROVE  ledger'[y] \in Seq(0..MaxTime)
  <2>1. ledger[y] \in Seq(0..MaxTime)
    BY <1>0 DEF LimitsTypeOK
  <2>2. 0..MaxTime \in SUBSET Int /\ now' - Width(y) \in Int
    BY <1>1, Widths, BreakerAssumption, SMTT(40)
  <2>3. After(ledger[y], now' - Width(y)) \in Seq(0..MaxTime)
    BY <2>1, <2>2, AfterType, SMTT(40)
  <2> QED BY <1>2, <2>3, Zenon
<1>4. LimitsTypeOK'
  <2>1. ledger' \in [LedgerKey -> Seq(0..MaxTime)]
    BY <1>2, <1>3, SMTT(40)
  <2> QED BY <1>0, <1>1, <2>1 DEF LimitsTypeOK
<1>5. ASSUME NEW y \in LedgerKey, NEW w \in Nat, w <= Width(y)
      PROVE  /\ After(ledger'[y], now' - w) = After(ledger[y], now' - w)
             /\ InWindow(y, w)' \in Nat /\ InWindow(y, w) \in Nat
             /\ InWindow(y, w)' <= InWindow(y, w)
  <2>1. PICK b \in Seq(Int), x \in Int, c \in Int, d \in Int :
          /\ b = ledger[y] /\ x = now' - Width(y) /\ c = now' - w /\ d = now - w /\ x <= c /\ d <= c
    <3>1. ledger[y] \in Seq(Int)
      BY <1>0, Timestamps
    <3>2. /\ now' - Width(y) \in Int /\ now' - w \in Int /\ now - w \in Int
          /\ now' - Width(y) <= now' - w /\ now - w <= now' - w
      BY <1>1, <1>5, Widths
    <3> QED BY <3>1, <3>2, SMTT(40)
  <2>2. ledger'[y] = After(b, x)
    BY <1>2, <2>1, Zenon
  <2>3. After(After(b, x), c) = After(b, c)
    BY <2>1, AfterAfter
  <2>4. Len(After(b, c)) <= Len(After(b, d))
    BY <2>1, AfterMono
  <2>5. Len(After(b, c)) \in Nat /\ Len(After(b, d)) \in Nat
    BY JoinLen
  <2>6. InWindow(y, w)' = Len(After(ledger'[y], c)) /\ InWindow(y, w) = Len(After(b, d))
    BY <2>1, SMTT(40) DEF InWindow, Live
  <2> QED BY <2>1, <2>2, <2>3, <2>4, <2>5, <2>6, SMTT(40)
<1>6. ASSUME NEW a \in Seq(Int), NEW y \in LedgerKey, NEW w \in Nat, w <= Width(y),
             Live(a, w) = Live(ledger[y], w)
      PROVE  After(a, now' - w) = After(ledger'[y], now' - w)
  <2>1. PICK b \in Seq(Int), c \in Int, d \in Int :
          b = ledger[y] /\ c = now' - w /\ d = now - w /\ d <= c
    <3>1. ledger[y] \in Seq(Int)
      BY <1>0, Timestamps
    <3>2. now' - w \in Int /\ now - w \in Int /\ now - w <= now' - w
      BY <1>1
    <3> QED BY <3>1, <3>2, SMTT(40)
  <2>2. After(a, d) = After(b, d)
    BY <1>6, <2>1 DEF Live
  <2>3. After(a, c) = After(b, c)
    BY <2>1, <2>2, LaterAgree
  <2> QED BY <1>5, <1>6, <2>1, <2>3, SMTT(40)
<1>7. RatesInv'
  <2>1. ASSUME NEW y \in RateKey
        PROVE  /\ After(rates[y], now' - Minute) = After(ledger'[y], now' - Minute)
               /\ InWindow(y, Minute)' <= InWindow(y, Minute)
               /\ InWindow(y, Minute)' \in Nat /\ InWindow(y, Minute) \in Nat
    <3>1. /\ rates[y] \in Seq(Int) /\ y \in LedgerKey /\ Minute \in Nat /\ Minute <= Width(y)
          /\ Live(rates[y], Minute) = Live(ledger[y], Minute)
      BY <1>0, Timestamps, Widths, ZenonT(40) DEF RatesInv, RatesAgree
    <3> QED BY <1>5, <1>6, <3>1, Zenon
  <2>2. RatesAgree'
    BY <1>1, <2>1, SMTT(40) DEF RatesAgree, Live
  <2>3. /\ \A x \in Subject, r \in Rule : <<"rule", r.key, x>> \in RateKey
        /\ \A x \in Subject, t \in Registered : <<"tool", t, x>> \in RateKey
    BY DEF RateKey
  <2>4. ASSUME NEW x \in Subject, NEW r \in Rule, r.perMin > 0
        PROVE  \E q \in Rule : q.key = r.key /\ InWindow(<<"rule", r.key, x>>, Minute)' <= q.perMin
    <3>1. PICK q \in Rule : q.key = r.key /\ InWindow(<<"rule", r.key, x>>, Minute) <= q.perMin
      BY <1>0, <2>4 DEF RatesInv, RateWindow
    <3>2. PICK y \in RateKey : y = <<"rule", r.key, x>>
      BY <2>3, Zenon
    <3>3. InWindow(y, Minute)' <= q.perMin
      BY <2>1, <3>1, <3>2, GatesAssumption, SMTT(40)
    <3> QED BY <3>1, <3>2, <3>3, SMTT(40)
  <2>5. ASSUME NEW x \in Subject, NEW t \in Registered, ToolPerMin[t] > 0
        PROVE  InWindow(<<"tool", t, x>>, Minute)' <= ToolPerMin[t]
    <3>1. InWindow(<<"tool", t, x>>, Minute) <= ToolPerMin[t]
      BY <1>0, <2>5 DEF RatesInv, RateWindow
    <3>2. PICK y \in RateKey : y = <<"tool", t, x>>
      BY <2>3, Zenon
    <3>3. InWindow(y, Minute)' <= ToolPerMin[t]
      BY <2>1, <3>1, <3>2, GatesAssumption, SMTT(40)
    <3> QED BY <3>2, <3>3, SMTT(40)
  <2>6. RateWindow'
    BY <2>4, <2>5, Zenon DEF RateWindow
  <2> QED BY <2>2, <2>6 DEF RatesInv
<1>8. UsageInv'
  <2>1. ASSUME NEW y \in BudgetKey
        PROVE  /\ After(usage[y].hourly, now' - Hour) = After(ledger'[y], now' - Hour)
               /\ After(usage[y].daily, now' - Day) = After(ledger'[y], now' - Day)
               /\ InWindow(y, Hour)' <= InWindow(y, Hour) /\ InWindow(y, Day)' <= InWindow(y, Day)
               /\ InWindow(y, Hour)' \in Nat /\ InWindow(y, Hour) \in Nat
               /\ InWindow(y, Day)' \in Nat /\ InWindow(y, Day) \in Nat
    <3>1. /\ usage[y].hourly \in Seq(Int) /\ usage[y].daily \in Seq(Int) /\ y \in LedgerKey
          /\ Hour \in Nat /\ Day \in Nat /\ Hour <= Width(y) /\ Day <= Width(y)
          /\ Live(usage[y].hourly, Hour) = Live(ledger[y], Hour)
          /\ Live(usage[y].daily, Day) = Live(ledger[y], Day)
      <4>1. usage[y].hourly \in Seq(Int) /\ usage[y].daily \in Seq(Int) /\ y \in LedgerKey
        BY <1>0, Timestamps, Zenon
      <4>2. Hour \in Nat /\ Day \in Nat /\ Hour <= Width(y) /\ Day <= Width(y)
        BY Widths
      <4>3. /\ Live(usage[y].hourly, Hour) = Live(ledger[y], Hour)
            /\ Live(usage[y].daily, Day) = Live(ledger[y], Day)
        BY <1>0, Zenon DEF UsageInv, UsageAgrees
      <4> QED BY <4>1, <4>2, <4>3, Zenon
    <3> QED BY <1>5, <1>6, <3>1, Zenon
  <2>2. UsageAgrees'
    BY <1>1, <2>1, Zenon DEF UsageAgrees, Live
  <2>3. ASSUME NEW y \in BudgetKey, NEW bs, WithinLaxest(y, bs),
               \A b \in bs : b.perHour \in Int /\ b.perDay \in Int
        PROVE  WithinLaxest(y, bs)'
    <3>1. \A b \in bs : /\ b.perHour <= 0 \/ InWindow(y, Hour) <= b.perHour
                            => b.perHour <= 0 \/ InWindow(y, Hour)' <= b.perHour
                        /\ b.perDay <= 0 \/ InWindow(y, Day) <= b.perDay
                            => b.perDay <= 0 \/ InWindow(y, Day)' <= b.perDay
      <4>1. \A x \in Nat, n \in Nat, m \in Int : n <= x /\ (m <= 0 \/ x <= m) => m <= 0 \/ n <= m
        BY SMTT(40)
      <4> QED BY <2>1, <2>3, <4>1, Zenon
    <3> QED BY <2>3, <3>1, Zenon DEF WithinLaxest
  <2>4. /\ \A b \in IdentityBudgets : b.perHour \in Int /\ b.perDay \in Int
        /\ \A b \in SessionBudgets : b.perHour \in Int /\ b.perDay \in Int
    BY GatesAssumption DEF IdentityBudgets, SessionBudgets
  <2>5. /\ \A x \in Subject : <<"identity", x>> \in BudgetKey
        /\ \A s \in Session : <<"session", s>> \in BudgetKey
    BY DEF BudgetKey
  <2>6. BudgetWindow'
    BY <1>0, <2>3, <2>4, <2>5, Zenon DEF UsageInv, BudgetWindow, IdentityBudgets, SessionBudgets
  <2> QED BY <2>2, <2>6 DEF UsageInv
<1>9. VelocityInv'
  <2>1. VelocityCovers'
    <3> SUFFICES ASSUME AlertDeny, NEW y \in VelocityKey, NEW x \in Int, x >= now' - Minute
                 PROVE  Len(After(ledger'[y], x)) <= Len(After(velocity[y], x))
      BY <1>1 DEF VelocityCovers
    <3>1. PICK b \in Seq(Int), c \in Int :
            b = ledger[y] /\ c = now' - Width(y) /\ c <= x
      <4>1. ledger[y] \in Seq(Int) /\ Width(y) \in Nat /\ Minute <= Width(y) /\ Minute \in Nat
        BY <1>0, Timestamps, Widths
      <4>2. now' - Width(y) \in Int /\ now' - Width(y) <= x
        BY <1>1, <4>1
      <4> QED BY <4>1, <4>2, SMTT(40)
    <3>2. ledger'[y] = After(b, c)
      BY <1>2, <3>1, Zenon DEF LedgerKey
    <3>3. After(After(b, c), x) = After(b, x)
      BY <3>1, AfterAfter
    <3>4. Len(After(ledger[y], x)) <= Len(After(velocity[y], x))
      <4>1. x >= now - Minute
        BY <1>1, Widths, SMTT(40)
      <4> QED BY <1>0, <4>1 DEF VelocityInv, VelocityCovers
    <3> QED BY <3>1, <3>2, <3>3, <3>4, SMTT(40)
  <2>2. VelocityBounded'
    <3> SUFFICES ASSUME AlertDeny, NEW y \in VelocityKey
                 PROVE  InWindow(y, Minute)' <= Threshold
      BY DEF VelocityBounded
    <3>1. InWindow(y, Minute) <= Threshold
      BY <1>0 DEF VelocityInv, VelocityBounded
    <3>2. y \in LedgerKey /\ Minute \in Nat /\ Minute <= Width(y)
      BY <1>0, Timestamps, Widths
    <3> QED BY <1>5, <3>1, <3>2, GatesAssumption, SMTT(40)
  <2> QED BY <2>1, <2>2, SMTT(40) DEF VelocityInv
<1> QED BY <1>4, <1>7, <1>8, <1>9, SMTT(40) DEF LimitsInv

-----------------------------------------------------------------------------
(* No limit has counted anything at the start.                             *)
LEMMA LimitsInit == GatesInit => LimitsInv
<1> SUFFICES ASSUME GatesInit PROVE LimitsInv
  OBVIOUS
<1>1. /\ now = 0 /\ rates = [k \in RateKey |-> <<>>] /\ velocity = [k \in VelocityKey |-> <<>>]
      /\ usage = [k \in BudgetKey |-> NoUsage] /\ ledger = [k \in LedgerKey |-> <<>>]
  BY DEF GatesInit, BreakerInit, LedgerKey
<1>2. NoUsage.hourly = <<>> /\ NoUsage.daily = <<>>
      /\ NoUsage \in [hourly : Seq(0..MaxTime), daily : Seq(0..MaxTime)]
  BY DEF NoUsage
<1>3. LimitsTypeOK
  BY <1>1, <1>2, BreakerAssumption, SMTT(40) DEF LimitsTypeOK
<1>4. /\ \A y \in LedgerKey : ledger[y] = <<>>
      /\ \A y \in RateKey : rates[y] = <<>> /\ y \in LedgerKey
      /\ \A y \in BudgetKey : usage[y].hourly = <<>> /\ usage[y].daily = <<>> /\ y \in LedgerKey
      /\ \A y \in VelocityKey : velocity[y] = <<>> /\ y \in LedgerKey
  BY <1>1, <1>2 DEF LedgerKey
<1>5. \A y \in LedgerKey, w \in Nat : InWindow(y, w) = 0
  <2> TAKE y \in LedgerKey, w \in Nat
  <2>1. After(<<>>, now - w) = <<>>
    BY <1>1, AfterEmpty
  <2> QED BY <1>4, <2>1 DEF InWindow, Live
<1>6. RatesAgree /\ UsageAgrees /\ VelocityCovers
  <2>1. RatesAgree
    BY <1>4 DEF RatesAgree
  <2>2. UsageAgrees
    BY <1>4 DEF UsageAgrees
  <2>3. VelocityCovers
    <3> SUFFICES ASSUME NEW y \in VelocityKey, NEW x \in Int
                 PROVE  Len(After(ledger[y], x)) <= Len(After(velocity[y], x))
      BY DEF VelocityCovers
    <3>1. After(<<>>, x) = <<>>
      BY AfterEmpty, SMTT(40)
    <3> QED BY <1>4, <3>1
  <2> QED BY <2>1, <2>2, <2>3, SMTT(40)
<1>7. RateWindow
  <2>1. /\ \A x \in Subject, r \in Rule : <<"rule", r.key, x>> \in RateKey
        /\ \A x \in Subject, t \in Registered : <<"tool", t, x>> \in RateKey
    BY DEF RateKey
  <2>2. \A y \in RateKey : InWindow(y, Minute) = 0
    BY <1>4, <1>5, Widths
  <2> QED BY <2>1, <2>2, GatesAssumption DEF RateWindow
<1>8. BudgetWindow
  <2>1. /\ \A x \in Subject : <<"identity", x>> \in BudgetKey
        /\ \A s \in Session : <<"session", s>> \in BudgetKey
    BY DEF BudgetKey
  <2>2. \A y \in BudgetKey : InWindow(y, Hour) = 0 /\ InWindow(y, Day) = 0
    BY <1>4, <1>5, Widths, SMTT(40)
  <2>3. /\ \A b \in IdentityBudgets : b.perHour \in Int /\ b.perDay \in Int
        /\ \A b \in SessionBudgets : b.perHour \in Int /\ b.perDay \in Int
    BY GatesAssumption DEF IdentityBudgets, SessionBudgets
  <2>4. ASSUME NEW y \in BudgetKey, NEW bs, \A b \in bs : b.perHour \in Int /\ b.perDay \in Int
        PROVE  WithinLaxest(y, bs)
    BY <2>2, <2>4, SMTT(40) DEF WithinLaxest
  <2> QED BY <2>1, <2>3, <2>4 DEF BudgetWindow
<1>9. VelocityBounded
  BY <1>4, <1>5, Widths, GatesAssumption, SMTT(40) DEF VelocityBounded
<1> QED BY <1>3, <1>6, <1>7, <1>8, <1>9 DEF LimitsInv, RatesInv, UsageInv, VelocityInv

(* Steps of the breaker alone.                                             *)
LEMMA LimitsKept ==
  ASSUME LimitsInv, UNCHANGED <<now, limitVars>>
  PROVE  LimitsInv'
<1>1. UNCHANGED <<now, rates, usage, velocity, ledger>>
  BY DEF limitVars
<1>2. LimitsTypeOK'
  BY <1>1 DEF LimitsInv, LimitsTypeOK
<1> QED BY <1>1, <1>2, RatesKept, UsageKept, VelocityKept DEF LimitsInv

(* Every step of the gates preserves the invariant of the limits.          *)
LEMMA LimitsNext ==
  ASSUME IInv, LimitsInv, [GatesNext]_gatesVars
  PROVE  LimitsInv'
<1>0. CoreTypeOK
  BY DEF IInv
<1>1. ASSUME NEW c \in Caller, ChargeRates(c) PROVE LimitsInv'
  <2>1. caller[c].pc \in Late
    BY <1>1, Zenon DEF ChargeRates, Late
  <2>2. PICK k \in Call, r \in Rule : k = caller[c].call /\ r = caller[c].rule
    BY <1>0, <2>1, LateCaller DEF LateState
  <2>3. CASE UNCHANGED <<rates, ledger>>
    BY <1>1, <2>3, LimitsKept, Zenon DEF ChargeRates, limitVars
  <2>4. CASE k.subject # NoSubject /\ Take(k.subject, RateLimits(k, r))
    <3>1. k.subject \in Subject
      BY <2>4, GatesAssumption, Zenon
    <3> QED BY <1>1, <2>4, <3>1, TakeInv, Zenon DEF ChargeRates
  <2> QED BY <1>1, <2>2, <2>3, <2>4, ZenonT(40) DEF ChargeRates
<1>2. ASSUME NEW c \in Caller, ChargeBudget(c) PROVE LimitsInv'
  <2>1. caller[c].pc \in Late
    BY <1>2, Zenon DEF ChargeBudget, Late
  <2>2. PICK k \in Call, r \in Rule : k = caller[c].call /\ r = caller[c].rule
    BY <1>0, <2>1, LateCaller DEF LateState
  <2>3. CASE UNCHANGED <<usage, ledger>>
    BY <1>2, <2>3, LimitsKept, Zenon DEF ChargeBudget, limitVars
  <2>4. CASE ~Unattributable(k, r) /\ CheckAndRecord(k, r)
    BY <1>2, <2>4, CheckAndRecordInv, Zenon DEF ChargeBudget
  <2> QED BY <1>2, <2>2, <2>3, <2>4, Zenon DEF ChargeBudget
<1>3. ASSUME NEW c \in Caller, ChargeVelocity(c) PROVE LimitsInv'
  <2>1. caller[c].pc \in Late
    BY <1>3 DEF ChargeVelocity, Late
  <2>2. PICK k \in Call : k = caller[c].call
    BY <1>0, <2>1, LateCaller, SMTT(40) DEF LateState
  <2>3. CASE UNCHANGED <<velocity, ledger>>
    BY <1>3, <2>3, LimitsKept, SMTT(40) DEF ChargeVelocity, limitVars
  <2>4. CASE VelocityRecord(k)
    BY <1>3, <2>4, VelocityRecordInv DEF ChargeVelocity
  <2> QED BY <1>3, <2>2, <2>3, <2>4, Zenon DEF ChargeVelocity
<1>4. CASE UNCHANGED <<now, limitVars>>
  BY <1>4, LimitsKept, SMTT(40)
<1>5. ASSUME NEW c \in Caller, GateStep(c) \/ Decide(c) PROVE LimitsInv'
  BY <1>1, <1>2, <1>3, <1>4, <1>5, Zenon DEF GateStep, Decide, Admit, Trip, RecordCall, Finish
<1>6. CASE Clock
  BY <1>6, ClockInv
<1>7. CASE SweepSessions
  BY <1>4, <1>7 DEF SweepSessions
<1>8. CASE UNCHANGED gatesVars
  BY <1>4, <1>8 DEF gatesVars, limitVars
<1> QED BY <1>5, <1>6, <1>7, <1>8 DEF GatesNext

(* What a step may not do to the windows of the gate that refuses c.       *)
TakesNothing(c) ==
    caller'[c].pc = "refused" =>
        /\ caller[c].pc = "rates" => \A k \in RateKey :
               Live(rates'[k], Minute) = Live(rates[k], Minute)
        /\ caller[c].pc = "budget" => \A k \in BudgetKey :
               Trimmed(usage'[k]) = Trimmed(usage[k])

(* Trimming a window twice is trimming it once.                            *)
LEMMA TrimTwice ==
  ASSUME LimitsTypeOK
  PROVE  /\ \A y \in RateKey : Live(Live(rates[y], Minute), Minute) = Live(rates[y], Minute)
         /\ \A y \in BudgetKey : Trimmed(Trimmed(usage[y])) = Trimmed(usage[y])
<1>1. \A s \in Seq(Int), w \in Nat : Live(Live(s, w), w) = Live(s, w)
  <2> TAKE s \in Seq(Int), w \in Nat
  <2>1. PICK c \in Int : c = now - w
    BY Timestamps
  <2>2. After(After(s, c), c) = After(s, c)
    BY AfterAfter
  <2> QED BY <2>1, <2>2 DEF Live
<1>2. ASSUME NEW y \in BudgetKey PROVE Trimmed(Trimmed(usage[y])) = Trimmed(usage[y])
  <2>1. PICK h \in Seq(Int), d \in Seq(Int) : h = usage[y].hourly /\ d = usage[y].daily
    BY Timestamps, SMTT(40)
  <2>2. Trimmed(usage[y]) = [hourly |-> Live(h, Hour), daily |-> Live(d, Day)]
    BY <2>1, SMTT(40) DEF Trimmed
  <2>3. Trimmed(Trimmed(usage[y])) =
          [hourly |-> Live(Live(h, Hour), Hour), daily |-> Live(Live(d, Day), Day)]
    BY <2>2, Zenon DEF Trimmed
  <2>4. Live(Live(h, Hour), Hour) = Live(h, Hour) /\ Live(Live(d, Day), Day) = Live(d, Day)
    BY <1>1, Widths, SMTT(40)
  <2> QED BY <2>2, <2>3, <2>4, Zenon
<1>3. \A y \in RateKey : rates[y] \in Seq(Int) /\ Minute \in Nat
  BY Timestamps, Widths, SMTT(40)
<1> QED BY <1>1, <1>2, <1>3, SMTT(40)

(* A step that refuses a call leaves the trackers of that gate as they     *)
(* count.                                                                  *)
LEMMA StepTakesNothing ==
  ASSUME IInv, LimitsInv, [GatesNext]_gatesVars, NEW c \in Caller
  PROVE  TakesNothing(c)
<1> SUFFICES ASSUME caller'[c].pc = "refused", caller[c].pc \in {"rates", "budget"}
             PROVE  /\ caller[c].pc = "rates" => \A k \in RateKey :
                          Live(rates'[k], Minute) = Live(rates[k], Minute)
                    /\ caller[c].pc = "budget" => \A k \in BudgetKey :
                          Trimmed(usage'[k]) = Trimmed(usage[k])
  BY Zenon DEF TakesNothing
<1>0. CoreTypeOK /\ LimitsTypeOK
  BY DEF IInv, LimitsInv
<1>1. caller'[c] # caller[c] /\ caller[c] \in LateState
  BY <1>0, LateCaller, SMTT(40) DEF Late
<1>2. ChargeRates(c) \/ ChargeBudget(c)
  <2>1. \A d \in Caller : \A v : caller' = [caller EXCEPT ![d] = v] => d = c
    BY <1>0, <1>1 DEF CoreTypeOK
  <2>2. \A d \in Caller : Goto(d, "budget") \/ Goto(d, "record") \/ Goto(d, "velocity")
                          \/ Goto(d, "forward") => d = c
    BY <1>0, <1>1 DEF CoreTypeOK, Goto
  <2>3. \A d \in Caller : GateStep(d) \/ Decide(d) => d = c
    <3> SUFFICES ASSUME NEW d \in Caller, GateStep(d) \/ Decide(d) PROVE d = c
      OBVIOUS
    <3>1. CASE \E k \in Call : Admit(d, k)
      BY <2>1, <3>1, ZenonT(40) DEF Admit, Refuse
    <3>2. CASE Trip(d) \/ Decide(d) \/ Finish(d)
      BY <2>1, <3>2, ZenonT(40) DEF Trip, Decide, Finish, Refuse
    <3>3. CASE ChargeRates(d)
      BY <2>1, <2>2, <3>3, ZenonT(40) DEF ChargeRates, Refuse
    <3>4. CASE ChargeBudget(d)
      BY <2>1, <2>2, <3>4, ZenonT(40) DEF ChargeBudget, Refuse
    <3>5. CASE RecordCall(d)
      BY <2>2, <3>5, ZenonT(40) DEF RecordCall
    <3>6. CASE ChargeVelocity(d)
      BY <2>1, <2>2, <3>6, ZenonT(40) DEF ChargeVelocity, Refuse
    <3> QED BY <3>1, <3>2, <3>3, <3>4, <3>5, <3>6, ZenonT(40) DEF GateStep
  <2>4. ~SweepSessions /\ ~Clock /\ ~(UNCHANGED gatesVars)
    BY <1>1 DEF SweepSessions, Clock, gatesVars
  <2>5. GateStep(c) \/ Decide(c)
    BY <2>3, <2>4, SMTT(40) DEF GatesNext
  <2> QED BY <2>5, Zenon DEF GateStep, Decide, Admit, Trip, RecordCall, ChargeVelocity, Finish
<1>3. PICK k \in Call, r \in Rule : k = caller[c].call /\ r = caller[c].rule
  BY <1>1 DEF LateState
<1>4. CASE ChargeRates(c)
  <2>1. caller[c].pc = "rates"
    BY <1>4, Zenon DEF ChargeRates
  <2>2. ASSUME NEW pc, Goto(c, pc), pc # "refused" PROVE FALSE
    BY <1>0, <1>1, <2>2 DEF Goto, CoreTypeOK, LateState
  <2>3. CASE UNCHANGED rates
    BY <2>1, <2>3, ZenonT(40)
  <2>4. CASE Take(k.subject, RateLimits(k, r)) /\ ~Takes(k.subject, RateLimits(k, r))
    <3>1. \A y \in RateKey : rates'[y] = rates[y] \/ rates'[y] = Live(rates[y], Minute)
      BY <2>4, Zenon DEF Take
    <3> QED BY <1>0, <2>1, <3>1, TrimTwice, Zenon
  <2> QED BY <1>3, <1>4, <2>2, <2>3, <2>4, Zenon DEF ChargeRates
<1>5. CASE ChargeBudget(c)
  <2>1. caller[c].pc = "budget"
    BY <1>5, Zenon DEF ChargeBudget
  <2>2. ASSUME NEW pc, Goto(c, pc), pc # "refused" PROVE FALSE
    BY <1>0, <1>1, <2>2, SMTT(40) DEF Goto, CoreTypeOK, LateState
  <2>3. CASE UNCHANGED usage
    BY <2>1, <2>3, SMTT(40)
  <2>4. CASE CheckAndRecord(k, r) /\ ~WithinBudget(k, r)
    <3>1. \A y \in BudgetKey : usage'[y] = usage[y] \/ usage'[y] = Trimmed(usage[y])
      BY <2>4, Zenon DEF CheckAndRecord
    <3> QED BY <1>0, <2>1, <3>1, TrimTwice, Zenon
  <2> QED BY <1>3, <1>5, <2>2, <2>3, <2>4, Zenon DEF ChargeBudget
<1> QED BY <1>2, <1>4, <1>5, Zenon

-----------------------------------------------------------------------------
(* What counting callers relies on.  It holds because the callers are      *)
(* finitely many (CallersCount, below); until then it is a hypothesis.     *)
CallersCounted ==
    \A S \in SUBSET Caller :
        /\ Cardinality(S) \in Nat
        /\ \A T \in SUBSET S : Cardinality(T) <= Cardinality(S)
        /\ \A c \in S : Cardinality(S \ {c}) = Cardinality(S) - 1

(* There are never more callers past Allow than callers.                   *)
LEMMA AdmittedFinite ==
  ASSUME CallersCounted, NEW s
  PROVE  /\ Cardinality(Admitted(s)) \in Nat
         /\ Cardinality(Caller) \in Nat
         /\ Cardinality(Admitted(s)) <= Cardinality(Caller)
<1>1. Caller \in SUBSET Caller /\ Admitted(s) \in SUBSET Caller
  BY DEF Admitted
<1> QED
  BY <1>1, Zenon DEF CallersCounted

(* The product of a successor.                                             *)
LEMMA OneMore == \A a, w \in Int : (a + 1) * w = a * w + w
  OBVIOUS

(* Entries live for at least one tick.                                     *)
LEMMA SpanType == Span \in Nat /\ Span >= 1 /\ Span = 2 * MaxDuration + 1
  BY BreakerAssumption DEF Span

(* A session with no entry and no trips.                                   *)
LEMMA SpacedUnknown ==
  ASSUME NEW t \in Nat
  PROVE  Spaced(Unknown, 0, t)
  BY SpanType DEF Spaced, Unknown

(* The clock moves on.                                                     *)
LEMMA SpacedLater ==
  ASSUME NEW u \in SessionState, NEW n \in Nat, NEW t \in Nat, Spaced(u, n, t)
  PROVE  Spaced(u, n, t + 1)
<1>1. PICK m \in Int : m = n * Span
  BY SpanType
<1>2. u.started \in Nat
  BY DEF SessionState
<1> QED
  BY <1>1, <1>2, SpanType DEF Spaced

(* FirstTrip marks the entry as the event goes out.                        *)
LEMMA SpacedTrip ==
  ASSUME NEW u \in SessionState, NEW n \in Nat, NEW t \in Nat, NEW v \in SessionState,
         Spaced(u, n, t), u.known, ~u.tripped, v.known, v.tripped, v.started = u.started
  PROVE  Spaced(v, n + 1, t)
<1>1. (n + 1) - 1 = n /\ n + 1 > 0 /\ (n = 0 => n + 1 = 1)
  OBVIOUS
<1>2. n * Span <= u.started /\ u.started <= t /\ (MaxDuration = 0 => n = 0)
  BY DEF Spaced
<1> QED
  BY <1>1, <1>2, Zenon DEF Spaced

(* A call is counted: the entry is the old one, or starts now.             *)
LEMMA SpacedRecord ==
  ASSUME NEW u \in SessionState, NEW n \in Nat, NEW t \in Nat, NEW v \in SessionState,
         Spaced(u, n, t), v.known, v.tripped <=> u.tripped,
         ~u.known => ~u.tripped /\ v.started = t, u.known => v.started = u.started
  PROVE  Spaced(v, n, t)
<1>1. t <= t
  OBVIOUS
<1> QED
  BY <1>1, Zenon DEF Spaced

(* The sweep drops an entry that has had its span.                         *)
LEMMA SpacedSweep ==
  ASSUME NEW u \in SessionState, NEW n \in Nat, NEW t \in Nat, Spaced(u, n, t),
         u.known, MaxDuration > 0, t - u.started > 2 * MaxDuration
  PROVE  Spaced(Unknown, n, t)
<1>1. u.started \in Nat /\ MaxDuration \in Nat
  BY BreakerAssumption DEF SessionState
<1>2. u.started + Span <= t
  BY <1>1, SpanType
<1>3. (n - 1) * Span \in Int /\ n * Span \in Int /\ n * Span = (n - 1) * Span + Span
  <2>1. n - 1 \in Int /\ n = (n - 1) + 1 /\ Span \in Int
    BY SpanType
  <2> QED
    BY <2>1, OneMore
<1>4. n * Span <= t
  <2>1. (n - 1) * Span <= u.started \/ n * Span <= u.started
    BY Zenon DEF Spaced
  <2> QED
    BY <1>1, <1>2, <1>3, <2>1, SpanType
<1>5. Unknown.known = FALSE /\ Unknown.tripped = FALSE
  BY DEF Unknown
<1>6. MaxDuration # 0
  BY <1>1
<1> QED
  BY <1>4, <1>5, <1>6, Zenon DEF Spaced

(* The breaker has no session at the start.                                *)
LEMMA InitIInv == CallersCounted /\ GatesInit => IInv
<1> SUFFICES ASSUME CallersCounted, GatesInit PROVE IInv
  OBVIOUS
<1>1. CoreTypeOK
  BY DEF GatesInit, BreakerInit, CoreTypeOK, BreakerTypeOK, SessionState, Unknown,
         CallerState, Idle
<1>2. EntryState
  BY DEF GatesInit, BreakerInit, EntryState, Unknown, Idle
<1>3. TripsInv
  <2>1. now \in Nat /\ \A s \in Session : sessions[s] = Unknown /\ trips[s] = 0
    BY DEF GatesInit, BreakerInit
  <2> QED
    BY <2>1, SpacedUnknown, Zenon DEF TripsInv
<1>4. CallsCommitted
  <2> SUFFICES ASSUME MaxCalls > 0, NEW s \in Session
               PROVE  sessions[s].calls + Cardinality(Admitted(s))
                         <= MaxCalls - 1 + Cardinality(Caller)
    BY DEF CallsCommitted
  <2>1. sessions[s].calls = 0
    BY DEF GatesInit, BreakerInit, Unknown
  <2> QED
    BY <2>1, AdmittedFinite, BreakerAssumption
<1> QED
  BY <1>1, <1>2, <1>3, <1>4 DEF IInv

(* A step of one caller that leaves the breaker alone, and does not bring  *)
(* the caller from before Allow to after it, keeps the invariant.          *)
LEMMA QuietIInv ==
  ASSUME CallersCounted, IInv, NEW c \in Caller, NEW v \in CallerState,
         caller' = [caller EXCEPT ![c] = v], UNCHANGED <<sessions, now, trips>>,
         v.pc # "trip",
         v.pc \in {"policy", "rates", "budget", "record"} =>
            caller[c].pc \in {"policy", "rates", "budget", "record"} /\ v.call = caller[c].call
  PROVE  IInv'
<1>0. CoreTypeOK /\ EntryState /\ CallsCommitted /\ TripsInv
  BY DEF IInv
<1>1. caller'[c] = v /\ \A d \in Caller \ {c} : caller'[d] = caller[d]
  BY <1>0 DEF CoreTypeOK
<1>2. CoreTypeOK'
  BY <1>0 DEF CoreTypeOK, BreakerTypeOK
<1>3. EntryState'
  BY <1>0, <1>1 DEF EntryState
<1>4. CallsCommitted'
  <2> SUFFICES ASSUME HasBreaker, MaxCalls > 0, NEW s \in Session
               PROVE  sessions'[s].calls + Cardinality(Admitted(s)')
                         <= MaxCalls - 1 + Cardinality(Caller)
    BY DEF CallsCommitted
  <2>1. Admitted(s)' \subseteq Admitted(s)
    BY <1>1 DEF Admitted
  <2>2. Cardinality(Admitted(s)') <= Cardinality(Admitted(s))
        /\ Cardinality(Admitted(s)') \in Nat
    <3>1. Admitted(s) \in SUBSET Caller /\ Admitted(s)' \in SUBSET Admitted(s)
          /\ Admitted(s)' \in SUBSET Caller
      BY <2>1 DEF Admitted
    <3> QED BY <3>1, Zenon DEF CallersCounted
  <2>3. sessions[s].calls + Cardinality(Admitted(s)) <= MaxCalls - 1 + Cardinality(Caller)
    BY <1>0 DEF CallsCommitted
  <2>4. sessions[s].calls \in Nat
    BY <1>0 DEF CoreTypeOK, BreakerTypeOK, SessionState
  <2> QED
    BY <2>2, <2>3, <2>4, AdmittedFinite, BreakerAssumption
<1>5. TripsInv'
  BY <1>0, Zenon DEF TripsInv
<1> QED
  BY <1>2, <1>3, <1>4, <1>5 DEF IInv

(* Refusing a caller is such a step.                                       *)
LEMMA RefuseIInv ==
  ASSUME CallersCounted, IInv, NEW c \in Caller, NEW why \in Why, Refuse(c, why),
         UNCHANGED <<sessions, now, trips>>
  PROVE  IInv'
<1> DEFINE v == [pc |-> "refused", why |-> why]
<1>1. v \in CallerState /\ v.pc = "refused" /\ caller' = [caller EXCEPT ![c] = v]
  BY DEF CallerState, Refuse
<1> HIDE DEF v
<1> QED
  BY <1>1, QuietIInv, Zenon

(* And so is Goto, from one late point to the next.                        *)
LEMMA GotoIInv ==
  ASSUME CallersCounted, IInv,
         NEW c \in Caller, NEW pc \in Late, Goto(c, pc), caller[c].pc \in Late,
         pc \in {"rates", "budget", "record"} =>
            caller[c].pc \in {"rates", "budget", "record"},
         UNCHANGED <<sessions, now, trips>>
  PROVE  IInv'
<1>1. PICK v \in LateState : /\ caller' = [caller EXCEPT ![c] = v]
                             /\ v.pc = pc /\ v.call = caller[c].call
  BY GotoLate DEF IInv
<1>2. v \in CallerState
  BY DEF LateState, Late, CallerState
<1> QED
  BY <1>1, <1>2, QuietIInv, Zenon DEF Late

-----------------------------------------------------------------------------
(* Admit (gates.go:114-126).  A caller passes Allow only while the session *)
(* has made fewer than MaxCalls calls, and the callers past it are at most *)
(* all callers.                                                            *)
LEMMA AdmitIInv ==
  ASSUME CallersCounted, IInv, NEW c \in Caller, NEW k \in Call, Admit(c, k)
  PROVE  IInv'
<1>0. CoreTypeOK /\ EntryState /\ CallsCommitted /\ TripsInv
  BY DEF IInv
<1>1. UNCHANGED <<sessions, now, trips>>
  BY DEF Admit
<1>2. CASE k.tool # NoTool /\ k.tool \notin Registered
  <2>1. Refuse(c, "tool_not_registered")
    BY <1>2 DEF Admit
  <2> QED
    BY <1>1, <2>1, RefuseIInv DEF Why
<1>3. CASE ~(k.tool # NoTool /\ k.tool \notin Registered)
  <2>1. PICK pc \in {"trip", "policy"} :
          /\ caller' = [caller EXCEPT ![c] = [pc |-> pc, call |-> k]]
          /\ pc = "trip" => ~Allow(k.session)
          /\ pc = "policy" => (HasBreaker => Allow(k.session))
    BY <1>3 DEF Admit
  <2>2. /\ [pc |-> pc, call |-> k] \in CallerState
        /\ caller'[c] = [pc |-> pc, call |-> k]
        /\ \A d \in Caller \ {c} : caller'[d] = caller[d]
    BY <1>0, <2>1, Zenon DEF CoreTypeOK, CallerState
  <2>3. CoreTypeOK'
    BY <1>0, <1>1, <2>1, <2>2 DEF CoreTypeOK, BreakerTypeOK
  <2>4. EntryState'
    <3>1. ~Allow(k.session) => k.session \in Session
      BY GatesAssumption, Zenon DEF Allow
    <3>2. \A d \in Caller : caller'[d].pc = "trip" => caller'[d].call.session \in Session
      BY <1>0, <2>1, <2>2, <3>1 DEF EntryState
    <3> QED BY <1>0, <1>1, <3>2, Zenon DEF EntryState
  <2>5. TripsInv'
    BY <1>0, <1>1, Zenon DEF TripsInv
  <2>6. CallsCommitted'
    <3> SUFFICES ASSUME HasBreaker, MaxCalls > 0, NEW s \in Session
                 PROVE  sessions'[s].calls + Cardinality(Admitted(s)')
                           <= MaxCalls - 1 + Cardinality(Caller)
      BY DEF CallsCommitted
    <3>1. sessions'[s] = sessions[s] /\ sessions[s].calls \in Nat
      BY <1>0, <1>1, Zenon DEF CoreTypeOK, BreakerTypeOK, SessionState
    <3>2. sessions[s].calls + Cardinality(Admitted(s)) <= MaxCalls - 1 + Cardinality(Caller)
      BY <1>0 DEF CallsCommitted
    <3>3. /\ Cardinality(Admitted(s)') \in Nat /\ Cardinality(Caller) \in Nat
          /\ Cardinality(Admitted(s)') <= Cardinality(Caller)
      <4>1. Caller \in SUBSET Caller /\ Admitted(s)' \in SUBSET Caller
        BY DEF Admitted
      <4> QED
        BY <4>1, Zenon DEF CallersCounted
    <3>4. CASE pc = "policy" /\ k.session = s
      <4>1. sessions[s].calls < MaxCalls
        BY <1>0, <2>1, <3>4, BreakerAssumption, Zenon DEF Allow, EntryState
      <4> QED
        BY <3>1, <3>3, <4>1, BreakerAssumption
    <3>5. CASE ~(pc = "policy" /\ k.session = s)
      <4>1. Admitted(s)' \subseteq Admitted(s)
        BY <2>2, <3>5 DEF Admitted
      <4>2. Cardinality(Admitted(s)') <= Cardinality(Admitted(s))
        <5>1. Admitted(s) \in SUBSET Caller /\ Admitted(s)' \in SUBSET Admitted(s)
          BY <4>1, Zenon DEF Admitted
        <5> QED BY <5>1, Zenon DEF CallersCounted
      <4> QED
        BY <3>1, <3>2, <3>3, <4>2, AdmittedFinite, BreakerAssumption
    <3> QED
      BY <3>4, <3>5
  <2> QED
    BY <2>3, <2>4, <2>5, <2>6 DEF IInv
<1> QED
  BY <1>2, <1>3

(* gateEvent (handler.go:441-453): FirstTrip marks the entry and the event *)
(* goes out in the same breath.                                            *)
LEMMA TripIInv ==
  ASSUME CallersCounted, IInv, NEW c \in Caller, Trip(c)
  PROVE  IInv'
<1> DEFINE s == caller[c].call.session
           v == [pc |-> "refused", why |-> "circuit_open"]
<1>0. CoreTypeOK /\ EntryState /\ CallsCommitted /\ TripsInv
  BY DEF IInv
<1>1. s \in Session
  BY <1>0, Zenon DEF Trip, EntryState
<1>2. CASE IsFirstTrip(s)
  <2>1. /\ sessions' = [sessions EXCEPT ![s].tripped = TRUE]
        /\ trips' = [trips EXCEPT ![s] = @ + 1]
        /\ caller' = [caller EXCEPT ![c] = v]
        /\ now' = now
    BY <1>2 DEF Trip, FirstTrip, Refuse
  <2>2. /\ sessions'[s] = [sessions[s] EXCEPT !.tripped = TRUE]
        /\ \A g \in Session \ {s} : sessions'[g] = sessions[g]
        /\ sessions[s] \in SessionState
    BY <1>0, <1>1, <2>1, Zenon DEF CoreTypeOK, BreakerTypeOK
  <2>3. /\ sessions'[s] \in SessionState /\ sessions'[s].tripped = TRUE
        /\ sessions'[s].calls = sessions[s].calls /\ sessions'[s].known = sessions[s].known
        /\ sessions'[s].started = sessions[s].started
    BY <2>2, Zenon DEF SessionState
  <2>4. /\ caller'[c].pc = "refused" /\ caller[c].pc = "trip"
        /\ \A d \in Caller \ {c} : caller'[d] = caller[d]
    BY <1>0, <2>1 DEF CoreTypeOK, Trip
  <2>5. CoreTypeOK'
    <3>1. v \in CallerState
      BY DEF CallerState, Why
    <3>2. sessions' \in [Session -> SessionState]
      BY <1>0, <2>1, <2>2, <2>3, Zenon DEF CoreTypeOK, BreakerTypeOK
    <3> QED
      BY <1>0, <1>1, <2>1, <3>1, <3>2 DEF CoreTypeOK, BreakerTypeOK
  <2>6. EntryState'
    <3> HIDE DEF s, v
    <3> QED
      BY <1>0, <1>2, <2>2, <2>3, <2>4, Zenon DEF EntryState, IsFirstTrip
  <2>7. TripsInv'
    <3>1. /\ trips'[s] = trips[s] + 1 /\ trips[s] \in Nat /\ now \in Nat
          /\ \A g \in Session \ {s} : trips'[g] = trips[g]
      BY <1>0, <1>1, <2>1 DEF CoreTypeOK, BreakerTypeOK
    <3>2. Spaced(sessions[s], trips[s], now) /\ sessions[s].known /\ ~sessions[s].tripped
      BY <1>0, <1>1, <1>2, Zenon DEF TripsInv, IsFirstTrip
    <3> HIDE DEF s, v
    <3>3. Spaced(sessions'[s], trips[s] + 1, now)
      BY <2>2, <2>3, <3>1, <3>2, SpacedTrip, Zenon
    <3>4. ASSUME NEW g \in Session PROVE Spaced(sessions'[g], trips'[g], now')
      <4>1. CASE g = s
        BY <2>1, <3>1, <3>3, <4>1, Zenon
      <4>2. CASE g # s
        BY <1>0, <2>1, <2>2, <3>1, <4>2, Zenon DEF TripsInv
      <4> QED BY <4>1, <4>2
    <3> QED
      BY <3>4, Zenon DEF TripsInv
  <2>8. CallsCommitted'
    <3> HIDE DEF s, v
    <3>1. \A g \in Session : sessions'[g].calls = sessions[g].calls
      BY <2>2, <2>3, Zenon
    <3>2. \A g \in Session : Admitted(g)' = Admitted(g)
      BY <2>4 DEF Admitted
    <3> QED
      BY <1>0, <3>1, <3>2, Zenon DEF CallsCommitted
  <2> QED
    BY <2>5, <2>6, <2>7, <2>8 DEF IInv
<1>3. CASE ~IsFirstTrip(s)
  <2>1. UNCHANGED <<sessions, now, trips>> /\ Refuse(c, "circuit_open")
    BY <1>3 DEF Trip, FirstTrip
  <2> QED
    BY <2>1, RefuseIInv DEF Why
<1> QED
  BY <1>2, <1>3

(* Breaker.Record (gates.go:140): the caller is charged for, so it leaves  *)
(* Admitted as its session's count grows.                                  *)
LEMMA RecordIInv ==
  ASSUME CallersCounted, IInv, NEW c \in Caller, RecordCall(c)
  PROVE  IInv'
<1> DEFINE s == caller[c].call.session
<1>0. CoreTypeOK /\ EntryState /\ CallsCommitted /\ TripsInv
  BY DEF IInv
<1>1. caller[c] \in LateState /\ caller[c].pc = "record" /\ s \in Session \union {NoSession}
  BY <1>0, LateCaller, GatesAssumption, Zenon DEF RecordCall, Late, LateState
<1>2. CASE ~HasBreaker \/ s = NoSession
  <2>1. UNCHANGED <<sessions, now, trips>> /\ Goto(c, "velocity")
    BY <1>2 DEF RecordCall, Record
  <2> QED
    BY <1>1, <2>1, GotoIInv, Zenon DEF Late
<1>3. CASE HasBreaker /\ s \in Session
  <2>1. PICK v \in LateState : /\ caller' = [caller EXCEPT ![c] = v]
                               /\ v.pc = "velocity" /\ v.call = caller[c].call
    BY <1>0, <1>1, GotoLate, Zenon DEF RecordCall, Late
  <2>2. /\ sessions[s] \in SessionState /\ now \in Nat /\ s # NoSession
        /\ ~sessions[s].known => sessions[s].calls = 0 /\ ~sessions[s].tripped
    BY <1>0, <1>3, BreakerAssumption, Zenon DEF CoreTypeOK, BreakerTypeOK, EntryState
  <2>3. PICK e \in SessionState :
          /\ sessions' = [sessions EXCEPT ![s] = e] /\ UNCHANGED <<now, trips>>
          /\ e.known = TRUE
          /\ e.calls = sessions[s].calls + 1 /\ (e.tripped <=> sessions[s].tripped)
          /\ e.started = IF sessions[s].known THEN sessions[s].started ELSE now
    <3>1. CASE sessions[s].known
      <4> DEFINE e == [sessions[s] EXCEPT !.calls = sessions[s].calls + 1]
      <4>1. sessions' = [sessions EXCEPT ![s] = e] /\ UNCHANGED <<now, trips>>
        BY <1>3, <2>2, <3>1, SMTT(40) DEF RecordCall, Record
      <4>2. /\ e \in SessionState /\ e.known = TRUE
            /\ e.calls = sessions[s].calls + 1 /\ (e.tripped <=> sessions[s].tripped)
            /\ e.started = IF sessions[s].known THEN sessions[s].started ELSE now
        BY <2>2, <3>1 DEF SessionState
      <4> QED
        BY <4>1, <4>2, Zenon
    <3>2. CASE ~sessions[s].known
      <4> DEFINE e == [known |-> TRUE, calls |-> 1, started |-> now, tripped |-> FALSE]
      <4>1. sessions' = [sessions EXCEPT ![s] = e] /\ UNCHANGED <<now, trips>>
        BY <1>3, <2>2, <3>2, SMTT(40) DEF RecordCall, Record
      <4>2. /\ e \in SessionState /\ e.known = TRUE
            /\ e.calls = sessions[s].calls + 1 /\ (e.tripped <=> sessions[s].tripped)
            /\ e.started = IF sessions[s].known THEN sessions[s].started ELSE now
        BY <2>2, <3>2 DEF SessionState
      <4> QED
        BY <4>1, <4>2, Zenon
    <3> QED
      BY <3>1, <3>2, Zenon
  <2>4. sessions'[s] = e /\ \A g \in Session \ {s} : sessions'[g] = sessions[g]
    BY <1>0, <1>3, <2>3, Zenon DEF CoreTypeOK, BreakerTypeOK
  <2>5. /\ caller'[c].pc = "velocity"
        /\ \A d \in Caller \ {c} : caller'[d] = caller[d]
    BY <1>0, <2>1 DEF CoreTypeOK
  <2>6. CoreTypeOK'
    <3>1. v \in CallerState
      BY DEF LateState, Late, CallerState
    <3> QED
      BY <1>0, <2>1, <2>3, <3>1, Zenon DEF CoreTypeOK, BreakerTypeOK
  <2> HIDE DEF s
  <2>7. EntryState'
    BY <1>0, <2>3, <2>4, <2>5, Zenon DEF EntryState
  <2>8. TripsInv'
    <3>1. Spaced(sessions[s], trips[s], now) /\ trips[s] \in Nat
      BY <1>0, <1>3, Zenon DEF TripsInv, CoreTypeOK
    <3>2. Spaced(e, trips[s], now)
      <4>1. /\ ~sessions[s].known => ~sessions[s].tripped /\ e.started = now
            /\ sessions[s].known => e.started = sessions[s].started
            /\ e.known /\ (e.tripped <=> sessions[s].tripped)
        BY <2>2, <2>3, Zenon
      <4> QED
        BY <2>2, <3>1, <4>1, SpacedRecord, Zenon
    <3> QED
      BY <1>0, <2>3, <2>4, <3>2, Zenon DEF TripsInv
  <2>9. CallsCommitted'
    <3> SUFFICES ASSUME MaxCalls > 0, NEW g \in Session
                 PROVE  sessions'[g].calls + Cardinality(Admitted(g)')
                           <= MaxCalls - 1 + Cardinality(Caller)
      BY DEF CallsCommitted
    <3>1. /\ sessions[g].calls + Cardinality(Admitted(g)) <= MaxCalls - 1 + Cardinality(Caller)
          /\ sessions[g].calls \in Nat
      BY <1>0, <1>3, Zenon DEF CallsCommitted, CoreTypeOK, BreakerTypeOK, SessionState
    <3>2. CASE g = s
      <4>1. c \in Admitted(g) /\ Admitted(g)' = Admitted(g) \ {c}
        BY <1>1, <2>5, <3>2, Zenon DEF Admitted, s
      <4>2. Cardinality(Admitted(g)') = Cardinality(Admitted(g)) - 1
        <5>1. Admitted(g) \in SUBSET Caller
          BY DEF Admitted
        <5> QED BY <4>1, <5>1, Zenon DEF CallersCounted
      <4> QED
        BY <2>3, <2>4, <3>1, <3>2, <4>2, AdmittedFinite, BreakerAssumption, SMTT(40)
    <3>3. CASE g # s
      <4>1. Admitted(g)' = Admitted(g)
        BY <1>1, <2>5, <3>3, Zenon DEF Admitted, s
      <4> QED
        BY <2>4, <3>1, <3>3, <4>1, Zenon
    <3> QED
      BY <3>2, <3>3
  <2> QED
    BY <2>6, <2>7, <2>8, <2>9, SMTT(40) DEF IInv
<1> QED
  BY <1>1, <1>2, <1>3

(* Breaker.Sweep (breaker.go:96-106) drops an entry with its mark.         *)
LEMMA SweepIInv ==
  ASSUME CallersCounted, IInv, SweepSessions
  PROVE  IInv'
<1>0. CoreTypeOK /\ EntryState /\ CallsCommitted /\ TripsInv
  BY DEF IInv
<1>1. /\ \A s \in Session : sessions'[s] = IF Stale(s) THEN Unknown ELSE sessions[s]
      /\ UNCHANGED <<now, trips, caller>>
  BY DEF SweepSessions, Sweep
<1>2. Unknown \in SessionState /\ Unknown.calls = 0 /\ ~Unknown.tripped
  BY DEF Unknown, SessionState
<1>3. CoreTypeOK'
  BY <1>0, <1>1, <1>2 DEF SweepSessions, Sweep, CoreTypeOK, BreakerTypeOK
<1>4. EntryState'
  BY <1>0, <1>1, <1>2, Zenon DEF EntryState
<1>6. TripsInv'
  <2> SUFFICES ASSUME NEW s \in Session PROVE Spaced(sessions'[s], trips[s], now)
    BY <1>1, Zenon DEF TripsInv
  <2>1. /\ Spaced(sessions[s], trips[s], now) /\ sessions[s] \in SessionState
        /\ trips[s] \in Nat /\ now \in Nat
    BY <1>0, Zenon DEF TripsInv, CoreTypeOK, BreakerTypeOK
  <2>2. CASE Stale(s)
    <3>1. sessions[s].known /\ MaxDuration > 0 /\ now - sessions[s].started > 2 * MaxDuration
      BY <2>2, Zenon DEF Stale, Age
    <3> QED
      BY <1>1, <2>1, <2>2, <3>1, SpacedSweep, Zenon
  <2>3. CASE ~Stale(s)
    BY <1>1, <2>1, <2>3, Zenon
  <2> QED
    BY <2>2, <2>3
<1>5. CallsCommitted'
  <2> SUFFICES ASSUME HasBreaker, MaxCalls > 0, NEW s \in Session
               PROVE  sessions'[s].calls + Cardinality(Admitted(s)')
                         <= MaxCalls - 1 + Cardinality(Caller)
    BY DEF CallsCommitted
  <2>1. Admitted(s)' = Admitted(s)
    BY <1>1 DEF Admitted
  <2>2. sessions'[s].calls = 0 \/ sessions'[s] = sessions[s]
    BY <1>1, <1>2
  <2>3. sessions[s].calls + Cardinality(Admitted(s)) <= MaxCalls - 1 + Cardinality(Caller)
    BY <1>0 DEF CallsCommitted
  <2> QED
    BY <2>1, <2>2, <2>3, AdmittedFinite, BreakerAssumption
<1> QED
  BY <1>3, <1>4, <1>5, <1>6 DEF IInv

(* The clock moves no caller and no entry.                                 *)
LEMMA ClockIInv ==
  ASSUME CallersCounted, IInv, Clock
  PROVE  IInv'
<1>1. UNCHANGED <<sessions, trips, caller>> /\ now' = now + 1
  BY DEF Clock, Tick
<1>2. TripsInv'
  <2>1. now \in Nat /\ \A s \in Session : sessions[s] \in SessionState /\ trips[s] \in Nat
    BY Zenon DEF IInv, CoreTypeOK, BreakerTypeOK
  <2> QED
    BY <1>1, <2>1, SpacedLater, Zenon DEF IInv, TripsInv
<1> QED
  BY <1>1, <1>2 DEF IInv, CoreTypeOK, BreakerTypeOK, EntryState, CallsCommitted, Admitted

(* The decision and the other charges (gates.go:133-139, 143-153).         *)
LEMMA DecideIInv ==
  ASSUME CallersCounted, IInv, NEW c \in Caller, Decide(c)
  PROVE  IInv'
<1>1. UNCHANGED <<sessions, now, trips>> /\ caller[c].pc = "policy"
  BY DEF Decide
<1>2. CASE Refuse(c, "policy")
  BY <1>1, <1>2, RefuseIInv DEF Why
<1>3. ASSUME NEW r \in Rule,
             caller' = [caller EXCEPT ![c] =
                           [pc |-> "rates", call |-> caller[c].call, rule |-> r]]
      PROVE  IInv'
  <2>1. caller[c].call \in Call
    <3>1. caller[c] \in CallerState
      BY DEF IInv, CoreTypeOK
    <3> QED
      BY <1>1, <3>1 DEF CallerState, Idle
  <2>2. [pc |-> "rates", call |-> caller[c].call, rule |-> r] \in CallerState
    BY <2>1, Zenon DEF CallerState
  <2> QED
    BY <1>1, <1>3, <2>2, QuietIInv, Zenon
<1> QED
  BY <1>2, <1>3 DEF Decide

(* Rates, budget and velocity are no business of the breaker.              *)
LEMMA ChargeIInv ==
  ASSUME CallersCounted, IInv,
         NEW c \in Caller, ChargeRates(c) \/ ChargeBudget(c) \/ ChargeVelocity(c)
  PROVE  IInv'
<1>1. UNCHANGED <<sessions, now, trips>>
  BY DEF ChargeRates, ChargeBudget, ChargeVelocity
<1>2. CASE ChargeRates(c)
  <2>1. /\ caller[c].pc = "rates"
        /\ \/ Goto(c, "budget")
           \/ Refuse(c, "rate_unattributable")
           \/ Refuse(c, "rate_limited")
    BY <1>2, Zenon DEF ChargeRates
  <2> QED
    BY <1>1, <2>1, GotoIInv, RefuseIInv, Zenon DEF Late, Why
<1>3. CASE ChargeBudget(c)
  <2>1. /\ caller[c].pc = "budget"
        /\ \/ Goto(c, "record")
           \/ Refuse(c, "budget_unattributable")
           \/ Refuse(c, "budget_exhausted")
    BY <1>3, Zenon DEF ChargeBudget
  <2> QED
    BY <1>1, <2>1, GotoIInv, RefuseIInv, Zenon DEF Late, Why
<1>4. CASE ChargeVelocity(c)
  <2>1. caller[c].pc = "velocity" /\ (Goto(c, "forward") \/ Refuse(c, "velocity_limit"))
    BY <1>4, Zenon DEF ChargeVelocity
  <2> QED
    BY <1>1, <2>1, GotoIInv, RefuseIInv, Zenon DEF Late, Why
<1> QED
  BY <1>2, <1>3, <1>4, SMTT(40)

(* A caller that is done gives up its place.                               *)
LEMMA FinishIInv ==
  ASSUME CallersCounted, IInv, NEW c \in Caller, Finish(c)
  PROVE  IInv'
<1>1. Idle \in CallerState /\ Idle.pc = "idle"
  BY DEF CallerState, Idle
<1>2. caller' = [caller EXCEPT ![c] = Idle] /\ UNCHANGED <<sessions, now, trips>>
  BY DEF Finish
<1> QED
  BY <1>1, <1>2, QuietIInv, Zenon

(* Every step of the gates preserves the invariant of the breaker.         *)
LEMMA NextIInv == CallersCounted /\ IInv /\ [GatesNext]_gatesVars => IInv'
<1> SUFFICES ASSUME CallersCounted, IInv, [GatesNext]_gatesVars PROVE IInv'
  OBVIOUS
<1>1. ASSUME NEW c \in Caller, GateStep(c) PROVE IInv'
  BY <1>1, AdmitIInv, TripIInv, ChargeIInv, RecordIInv, FinishIInv DEF GateStep
<1>2. ASSUME NEW c \in Caller, Decide(c) PROVE IInv'
  BY <1>2, DecideIInv
<1>3. CASE SweepSessions
  BY <1>3, SweepIInv
<1>4. CASE Clock
  BY <1>4, ClockIInv
<1>5. CASE UNCHANGED gatesVars
  BY <1>5, Zenon DEF gatesVars, IInv, CoreTypeOK, BreakerTypeOK, EntryState, CallsCommitted, Admitted,
              TripsInv
<1> QED
  BY <1>1, <1>2, <1>3, <1>4, <1>5, Zenon DEF GatesNext

-----------------------------------------------------------------------------
(* A refused entry that keeps its start, does not lose calls and does not  *)
(* get younger is still refused.                                           *)
LEMMA StillRefused ==
  ASSUME NEW s \in Session, CoreTypeOK, CoreTypeOK', ~Allow(s),
         sessions'[s].known <=> sessions[s].known,
         sessions'[s].calls >= sessions[s].calls,
         sessions'[s].started = sessions[s].started,
         now' >= now
  PROVE  ~(Allow(s)')
<1>1. /\ sessions[s].calls \in Nat /\ sessions'[s].calls \in Nat
      /\ sessions[s].started \in Nat /\ now \in Nat /\ now' \in Nat
  BY DEF CoreTypeOK, BreakerTypeOK, SessionState
<1>2. s # NoSession /\ sessions[s].known
  BY DEF Allow
<1>3. CASE MaxCalls > 0 /\ ~(sessions[s].calls < MaxCalls)
  BY <1>1, <1>2, <1>3, BreakerAssumption, SMTT(40) DEF Allow
<1>4. CASE MaxDuration > 0 /\ ~(Age(s) <= MaxDuration)
  BY <1>1, <1>2, <1>4, BreakerAssumption DEF Allow, Age
<1> QED
  BY <1>2, <1>3, <1>4, Zenon DEF Allow

(* What one step does to the entry of a refused session.                   *)
Sticks(s) ==
    ~Allow(s) => \/ ~(Allow(s)')
                \/ (Stale(s) /\ sessions'[s] = Unknown)

(* No step but a sweep lets a refused session through again.               *)
LEMMA StepSticks ==
  ASSUME CallersCounted, IInv, [GatesNext]_gatesVars, NEW s \in Session
  PROVE  Sticks(s)
<1> SUFFICES ASSUME ~Allow(s), ~(Stale(s) /\ sessions'[s] = Unknown)
             PROVE  ~(Allow(s)')
  BY DEF Sticks
<1>0. CoreTypeOK /\ CoreTypeOK'
  BY NextIInv DEF IInv
<1>1. /\ sessions[s] \in SessionState /\ sessions[s].known
      /\ sessions[s].calls \in Nat /\ now \in Nat
  BY <1>0 DEF Allow, CoreTypeOK, BreakerTypeOK, SessionState
<1>9. ASSUME sessions'[s].known <=> sessions[s].known,
             sessions'[s].calls >= sessions[s].calls,
             sessions'[s].started = sessions[s].started, now' >= now
      PROVE  ~(Allow(s)')
  BY <1>0, <1>9, StillRefused, Zenon
<1>2. ASSUME sessions'[s] = sessions[s], now' \in {now, now + 1} PROVE ~(Allow(s)')
  <2>1. sessions'[s].calls >= sessions[s].calls /\ now' >= now
    BY <1>1, <1>2
  <2> QED BY <1>2, <1>9, <2>1, Zenon
<1>3. ASSUME NEW c \in Caller, RecordCall(c) PROVE ~(Allow(s)')
  <2>1. CASE sessions' = sessions
    BY <1>2, <1>3, <2>1, Zenon DEF RecordCall
  <2>2. CASE sessions' # sessions
    <3> DEFINE g == caller[c].call.session
    <3>1. g # NoSession /\ Record(g) /\ now' = now
      BY <1>3, <2>2, Zenon DEF RecordCall, Record
    <3>2. CASE g = s
      <4> HIDE DEF g
      <4>1. sessions'[s] = [sessions[s] EXCEPT !.calls = sessions[s].calls + 1]
        BY <1>0, <1>1, <3>1, <3>2, SMTT(40) DEF Record, CoreTypeOK, BreakerTypeOK
      <4>2. /\ (sessions'[s].known <=> sessions[s].known)
            /\ sessions'[s].calls = sessions[s].calls + 1
            /\ sessions'[s].started = sessions[s].started
        BY <1>1, <4>1 DEF SessionState
      <4>3. sessions'[s].calls >= sessions[s].calls /\ now' >= now
        BY <1>1, <3>1, <4>2
      <4> QED BY <1>9, <4>2, <4>3, Zenon
    <3>3. CASE g # s
      <4> HIDE DEF g
      <4>1. sessions'[s] = sessions[s]
        BY <1>0, <3>1, <3>3, SMTT(40) DEF Record, CoreTypeOK, BreakerTypeOK
      <4> QED
        BY <1>2, <3>1, <4>1, Zenon
    <3> QED
      BY <3>2, <3>3, SMTT(40)
  <2> QED
    BY <2>1, <2>2
<1>4. ASSUME NEW c \in Caller, Trip(c) PROVE ~(Allow(s)')
  <2> DEFINE g == caller[c].call.session
  <2>1. FirstTrip(g) /\ now' = now
    BY <1>4, Zenon DEF Trip
  <2> HIDE DEF g
  <2>2. \/ sessions'[s] = sessions[s]
        \/ sessions'[s] = [sessions[s] EXCEPT !.tripped = TRUE]
    BY <1>0, <2>1, Zenon DEF FirstTrip, CoreTypeOK, BreakerTypeOK
  <2>3. /\ (sessions'[s].known <=> sessions[s].known)
        /\ sessions'[s].calls = sessions[s].calls
        /\ sessions'[s].started = sessions[s].started
    BY <1>1, <2>2, SMTT(40) DEF SessionState
  <2>4. sessions'[s].calls >= sessions[s].calls /\ now' >= now
    BY <1>1, <2>1, <2>3
  <2> QED BY <1>9, <2>3, <2>4, Zenon
<1>5. CASE SweepSessions
  <2>1. sessions'[s] = sessions[s] /\ now' = now
    BY <1>5, Zenon DEF SweepSessions, Sweep
  <2> QED
    BY <1>2, <2>1, Zenon
<1>6. CASE Clock
  BY <1>2, <1>6 DEF Clock, Tick
<1>7. CASE UNCHANGED <<sessions, now>>
  BY <1>2, <1>7, SMTT(40)
<1>8. ASSUME NEW c \in Caller, GateStep(c) \/ Decide(c) PROVE ~(Allow(s)')
  BY <1>3, <1>4, <1>7, <1>8, Zenon
     DEF GateStep, Admit, ChargeRates, ChargeBudget, ChargeVelocity, Finish, Decide
<1> QED
  BY <1>5, <1>6, <1>7, <1>8 DEF GatesNext, gatesVars

-----------------------------------------------------------------------------
(* Counting.  The library's facts are brought in here, after the lemmas    *)
(* that do without them.                                                   *)
Fin == INSTANCE FiniteSetTheorems

(* The instance's notion of a finite set is the one of the specification.  *)
LEMMA SameFinite == \A S : IsFiniteSet(S) <=> Fin!IsFiniteSet(S)
  BY Zenon DEF IsFiniteSet, Fin!IsFiniteSet

(* So is its cardinality.                                                  *)
LEMMA SameCardinality == \A S : Cardinality(S) = Fin!Cardinality(S)
  BY Zenon DEF Cardinality, Fin!Cardinality

(* A finite set has a natural number of members.                           *)
LEMMA CountOf ==
  ASSUME NEW S, IsFiniteSet(S)
  PROVE  Cardinality(S) \in Nat
  BY SameFinite, SameCardinality, Fin!FS_CardinalityType, Zenon

(* A part of a finite set is finite, and no larger.                        *)
LEMMA CountOfPart ==
  ASSUME NEW S, NEW T, IsFiniteSet(S), T \subseteq S
  PROVE  IsFiniteSet(T) /\ Cardinality(T) <= Cardinality(S)
<1>1. T \in SUBSET S
  OBVIOUS
<1> QED BY <1>1, SameFinite, SameCardinality, Fin!FS_Subset, Zenon

(* One member less takes one away.                                         *)
LEMMA CountWithout ==
  ASSUME NEW S, NEW x \in S, IsFiniteSet(S)
  PROVE  Cardinality(S \ {x}) = Cardinality(S) - 1
  BY SameFinite, SameCardinality, Fin!FS_RemoveElement, Zenon

(* A finite set of callers can be counted.                                 *)
LEMMA CallersCount == CallersCounted
<1> SUFFICES ASSUME NEW S \in SUBSET Caller
             PROVE  /\ Cardinality(S) \in Nat
                    /\ \A T \in SUBSET S : Cardinality(T) <= Cardinality(S)
                    /\ \A c \in S : Cardinality(S \ {c}) = Cardinality(S) - 1
  BY DEF CallersCounted
<1>1. IsFiniteSet(S)
  BY GatesAssumption, CountOfPart, Zenon
<1> QED BY <1>1, CountOf, CountOfPart, CountWithout, Zenon

(* The invariant of the breaker, in every reachable state.                 *)
LEMMA GatesInvariant == GatesSpec => []IInv
  BY CallersCount, InitIInv, NextIInv, PTL DEF GatesSpec

-----------------------------------------------------------------------------
(* The breaker's map, the trip events and every goroutine's progress keep  *)
(* their types.                                                            *)
THEOREM CoreTypeCorrect == GatesSpec => []CoreTypeOK
<1>1. IInv => CoreTypeOK
  BY DEF IInv
<1> QED
  BY <1>1, GatesInvariant, PTL

(* Whatever requests race between Allow and Record (gates.go:121, 140), a  *)
(* session overshoots maxCalls by at most the other requests in flight.    *)
THEOREM BreakerBoundsCalls == GatesSpec => []CallsBounded
<1>1. IInv => CallsBounded
  <2> SUFFICES ASSUME IInv, HasBreaker, MaxCalls > 0, NEW s \in Session
               PROVE  sessions[s].calls <= MaxCalls + Cardinality(Caller) - 1
    BY DEF CallsBounded
  <2>1. sessions[s].calls + Cardinality(Admitted(s)) <= MaxCalls - 1 + Cardinality(Caller)
    BY DEF IInv, CallsCommitted
  <2>2. sessions[s].calls \in Nat
    BY DEF IInv, CoreTypeOK, BreakerTypeOK, SessionState
  <2> QED
    BY <2>1, <2>2, CallersCount, AdmittedFinite, BreakerAssumption
<1> QED
  BY <1>1, GatesInvariant, PTL

(* For any limits, the circuit.tripped events of one session are one per   *)
(* entry of the sessions map, which the sweep keeps more than twice        *)
(* maxDuration apart (breaker.go:76-106, handler.go:441-453).              *)
THEOREM TripsAreSpaced == GatesSpec => []TripsBounded
<1>1. IInv => TripsBounded
  <2> SUFFICES ASSUME IInv, NEW s \in Session
               PROVE  /\ sessions[s].tripped => trips[s] > 0
                      /\ trips[s] > 0 => (trips[s] - 1) * Span <= now
                      /\ MaxDuration = 0 => trips[s] <= 1
    BY Zenon DEF TripsBounded, Span
  <2>1. /\ Spaced(sessions[s], trips[s], now) /\ trips[s] \in Nat /\ now \in Nat
        /\ sessions[s].started \in Nat
    BY Zenon DEF IInv, TripsInv, CoreTypeOK, BreakerTypeOK, SessionState
  <2>2. PICK n \in Nat : n = trips[s]
    BY <2>1
  <2>3. PICK a, b \in Int : a = (n - 1) * Span /\ b = n * Span
    BY SpanType
  <2>4. a <= b
    <3>1. n - 1 \in Int /\ n = (n - 1) + 1 /\ Span \in Int
      BY SpanType
    <3>2. b = a + Span
      BY <2>3, <3>1, OneMore
    <3> QED
      BY <3>2, SpanType
  <2>5. a <= now
    <3>1. \/ a <= sessions[s].started /\ sessions[s].started <= now
          \/ b <= sessions[s].started /\ sessions[s].started <= now
          \/ b <= now
      BY <2>1, <2>2, <2>3, Zenon DEF Spaced
    <3> QED
      BY <2>1, <2>4, <3>1
  <2>6. MaxDuration = 0 => trips[s] = 0 \/ trips[s] = 1
    BY <2>1, Zenon DEF Spaced
  <2> QED
    BY <2>1, <2>2, <2>3, <2>5, <2>6 DEF Spaced
<1> QED
  BY <1>1, GatesInvariant, PTL

(* Once refused, a session stays refused until the sweep drops its entry   *)
(* (breaker.go:31-51, 96-106).                                             *)
THEOREM RefusalsStick == GatesSpec => RefusalSticks
<1>1. IInv /\ [GatesNext]_gatesVars =>
        [\A s \in Session :
            ~Allow(s) => \/ ~(Allow(s)')
                        \/ (Stale(s) /\ sessions'[s] = Unknown)]_gatesVars
  BY CallersCount, StepSticks DEF Sticks
<1> QED
  BY <1>1, GatesInvariant, PTL DEF GatesSpec, RefusalSticks

(* Both invariants, in every reachable state.                              *)
LEMMA LimitsInvariant == GatesSpec => [](IInv /\ LimitsInv)
  BY GatesInvariant, LimitsInit, LimitsNext, PTL DEF GatesSpec

(* The whole state of the gates keeps its type: no window ever holds a     *)
(* time the clock has not shown.                                           *)
THEOREM GatesTypeCorrect == GatesSpec => []GatesTypeOK
<1>1. IInv /\ LimitsInv => GatesTypeOK
  BY DEF IInv, LimitsInv, LimitsTypeOK, GatesTypeOK
<1> QED
  BY <1>1, LimitsInvariant, PTL

(* No subject gets more calls past a rule's or a tool's maxCallsPerMinute  *)
(* in any minute, for any number of concurrent requests, rules and tools   *)
(* and any limits (gates.go:71-94, 157-187).                               *)
THEOREM RatesHold == GatesSpec => []RateWindow
<1>1. LimitsInv => RateWindow
  BY DEF LimitsInv, RatesInv
<1> QED
  BY <1>1, LimitsInvariant, PTL

(* No identity and no session gets more calls in any hour or any day than  *)
(* the laxest of the budgets on it allows (tracker.go:32-65, 122-146).     *)
THEOREM BudgetsHold == GatesSpec => []BudgetWindow
<1>1. LimitsInv => BudgetWindow
  BY DEF LimitsInv, UsageInv
<1> QED
  BY <1>1, LimitsInvariant, PTL

(* With alertAction DENY no more than the threshold's calls of one         *)
(* identity pass in any minute (velocity.go:64-96).                        *)
THEOREM VelocityHolds == GatesSpec => []VelocityBounded
<1>1. LimitsInv => VelocityBounded
  BY DEF LimitsInv, VelocityInv
<1> QED
  BY <1>1, LimitsInvariant, PTL

(* All of it, for whoever composes the gates with something else.          *)
Guarantees == RateWindow /\ BudgetWindow /\ VelocityBounded /\ CallsBounded /\ TripsBounded

(* What the theorems above say of the gates, as one invariant.             *)
LEMMA GatesGuarantee == GatesSpec => []Guarantees
  BY RatesHold, BudgetsHold, VelocityHolds, BreakerBoundsCalls, TripsAreSpaced, PTL DEF Guarantees

-----------------------------------------------------------------------------
(* A call one limit refuses uses up no other limit's allowance             *)
(* (gates.go:69-94, tracker.go:32-65).                                     *)
THEOREM RefusalsTakeNothing == GatesSpec => RefusedTakesNothing
<1>1. IInv /\ LimitsInv /\ [GatesNext]_gatesVars =>
        [\A c \in Caller :
            caller'[c].pc = "refused" =>
              /\ caller[c].pc = "rates" => \A k \in RateKey :
                     Live(rates'[k], Minute) = Live(rates[k], Minute)
              /\ caller[c].pc = "budget" => \A k \in BudgetKey :
                     Trimmed(usage'[k]) = Trimmed(usage[k])]_gatesVars
  BY StepTakesNothing, Zenon DEF TakesNothing
<1> QED
  BY <1>1, LimitsInvariant, PTL DEF GatesSpec, RefusedTakesNothing

=============================================================================
