------------------------------ MODULE ToolsCall ------------------------------
(***************************************************************************)
(* Handler.handleToolsCall, pkg/proxy/handler.go: the sidecar's whole path *)
(* of a tools/call, composed of the gates, the policy engine and the hold  *)
(* queue.  A request is admitted, decided, perhaps parked until a human or *)
(* a timer answers, perhaps has its arguments rewritten, then charged and  *)
(* forwarded.  Nothing is locked in between.                               *)
(*                                                                         *)
(* A rule has, beyond what Policy and Gates read, hold (a HoldConfig is    *)
(* present), onTimeout (its OnTimeout), rewrites (a Scope.Request is       *)
(* present) and injects (it lists credentials).                            *)
(***************************************************************************)
EXTENDS Gates, HoldManager, Policy

CONSTANTS
    Rules,          \* the rules of the loaded policy, in order
    HasHolds        \* FALSE when main built no hold manager

ASSUME ToolsCallAssumption ==
    /\ Rules \in Seq(Rule)
    /\ Rule = {Rules[i] : i \in DOMAIN Rules}
    /\ HasHolds \in BOOLEAN

vars == <<gatesVars, holdVars>>

Init == GatesInit /\ HoldInit

Request(k) ==
    [method |-> "tools/call", tool |-> k.tool, args |-> k.args, identity |-> k.identity]

(* What the engine decides for each call.                                  *)
Decided == [k \in Call |-> Evaluate(Rules, Request(k))]

-----------------------------------------------------------------------------
(* engine.Evaluate and the branch on its decision.  A HOLD without a       *)
(* manager or a HoldConfig is a plain denial, Allowed being false.         *)
EvaluatePolicy(c) ==
    LET k == caller[c].call
        d == Decided[k]
        r == Rules[d.index]
        parked == d.held /\ HasHolds /\ r.hold
    IN
    /\ caller[c].pc = "policy"
    /\ IF parked
       THEN \E h \in Hold :
              /\ Park(h)
              /\ caller' = [caller EXCEPT ![c] =
                               [pc |-> "held", call |-> k, rule |-> r, hold |-> h]]
       ELSE /\ IF d.allowed
               THEN caller' = [caller EXCEPT ![c] =
                       [pc |-> IF d.scoped /\ r.rewrites THEN "scope" ELSE "rates",
                        call |-> k, rule |-> r]]
               ELSE Refuse(c, "policy")
            /\ UNCHANGED holdVars
    /\ UNCHANGED <<sessions, now, trips, limitVars>>

(* Faulty: a timeout is not told from an approval.                         *)
FaultyAwaitHold(c) ==
    LET h == caller[c].hold IN
    /\ caller[c].pc = "held"
    /\ Receive(h)
    /\ IF waiter'[h] = "refused" THEN Refuse(c, "policy") ELSE Goto(c, "rates")
    /\ UNCHANGED <<sessions, now, trips, limitVars>>

(* resolution := <-ch and what follows.  onTimeout is not consulted.       *)
AwaitHold(c) ==
    LET h == caller[c].hold IN
    /\ caller[c].pc = "held"
    /\ Receive(h)
    /\ CASE waiter'[h] = "granted" -> Goto(c, "rates")
         [] waiter'[h] = "expired" -> Refuse(c, "hold_timeout")
         [] waiter'[h] = "refused" -> Refuse(c, "policy")
    /\ UNCHANGED <<sessions, now, trips, limitVars>>

(* Faulty: a rewritten call is forwarded without being charged.            *)
FaultyScopeArguments(c) ==
    LET k == caller[c].call
        injects == caller[c].rule.injects
    IN
    /\ caller[c].pc = "scope"
    /\ \/ ~(injects /\ k.args = "nil") /\ Goto(c, "forward")
       \/ injects /\ Refuse(c, "scope_violation")
       \/ injects /\ k.args = "nil" /\ Refuse(c, "aborted")
    /\ UNCHANGED <<sessions, now, trips, limitVars, holdVars>>

(* SCOPE: ModifyRequest, then the credentials.  A fetch can fail, which    *)
(* answers -32006.  ModifyRequest returns nil arguments as they are, and   *)
(* storing a credential in a nil map panics: net/http drops the request    *)
(* without an answer.                                                      *)
ScopeArguments(c) ==
    LET k == caller[c].call
        injects == caller[c].rule.injects
    IN
    /\ caller[c].pc = "scope"
    /\ \/ ~(injects /\ k.args = "nil") /\ Goto(c, "rates")
       \/ injects /\ Refuse(c, "scope_violation")
       \/ injects /\ k.args = "nil" /\ Refuse(c, "aborted")
    /\ UNCHANGED <<sessions, now, trips, limitVars, holdVars>>

-----------------------------------------------------------------------------
CallerStep(c) ==
    \/ (Trip(c) \/ ChargeRates(c) \/ ChargeBudget(c) \/ RecordCall(c)
           \/ ChargeVelocity(c) \/ Finish(c)) /\ UNCHANGED holdVars
    \/ EvaluatePolicy(c)
    \/ AwaitHold(c)
    \/ ScopeArguments(c)

(* Requests keep coming while there are identifiers for those that park.   *)
HasHold(k) ==
    Decided[k].held =>
        Cardinality({h \in Hold : status[h] = "none"})
            > Cardinality({d \in Caller : caller[d].pc = "policy"})

Next ==
    \/ \E c \in Caller, k \in Call :
          HasRoom(k) /\ HasHold(k) /\ Admit(c, k) /\ UNCHANGED holdVars
    \/ \E c \in Caller : CallerStep(c)
    \/ QueueStep /\ UNCHANGED gatesVars
    \/ (SweepSessions \/ Clock) /\ UNCHANGED holdVars

(* A request that can go on does, and the timers and resolvers of the      *)
(* queue are not held up for ever: as each hold has one timer, one send    *)
(* and one close, it does not matter which of them runs first.  Clients,   *)
(* admins and the sweep owe nothing.                                       *)
QueueRuns ==
    /\ UNCHANGED gatesVars
    /\ \/ \E h \in Hold : TimerFires(h)
       \/ \E x \in Task : Send(x) \/ Close(x)

Fairness == WF_task(QueueRuns) /\ \A c \in Caller : WF_caller(CallerStep(c))

Spec == Init /\ [][Next]_vars /\ Fairness

-----------------------------------------------------------------------------
TypeOK ==
    /\ BreakerTypeOK
    /\ HoldTypeOK
    /\ caller \in [Caller ->
          CallerState
          \union [pc : {"refused"}, why : {"hold_timeout", "scope_violation", "aborted"}]
          \union [pc : {"scope"}, call : Call, rule : Rule]
          \union [pc : {"held", "rates", "budget", "record", "velocity", "forward"},
                  call : Call, rule : Rule, hold : Hold]]

Charging == {"rates", "budget", "record", "velocity", "forward"}

(* A call that a HOLD rule matched is charged and forwarded only on a hold *)
(* of its own that an admin approved, whatever approvals, denials and      *)
(* timeouts of it and of other holds race (handler.go:161-208).            *)
HeldCallsNeedApproval ==
    \A c \in Caller :
        caller[c].pc \in Charging /\ caller[c].rule.action = "HOLD" =>
            /\ status[caller[c].hold] = "approved"
            /\ \A d \in Caller \ {c} :
                  caller[d].pc \in Charging \union {"held"} /\ caller[d].rule.action = "HOLD" =>
                      caller[d].hold # caller[c].hold

(* docs/arbiter-model.md: a hold's timeout is "-32005 (or allow,           *)
(* configurable)", with "onTimeout: DENY or ALLOW".  So a call whose rule  *)
(* says ALLOW does not get -32005.                                         *)
TimeoutAllows ==
    [][\A c \in Caller :
          caller[c].pc = "held" /\ caller[c].rule.onTimeout = "ALLOW" =>
              ~(caller'[c].pc = "refused" /\ caller'[c].why = "hold_timeout")]_vars

(* The gates see this handler as one more order of their own steps: a      *)
(* parked or rewritten call is one whose decision is still out.            *)
AsSeen(x) ==
    CASE x.pc \in {"held", "scope"} -> [pc |-> "policy", call |-> x.call]
      [] x.pc \in Charging -> [pc |-> x.pc, call |-> x.call, rule |-> x.rule]
      [] x.pc = "refused" ->
           [pc |-> "refused", why |-> IF x.why \in Why THEN x.why ELSE "policy"]
      [] OTHER -> x
Seen == [c \in Caller |-> AsSeen(caller[c])]
AsGates == INSTANCE Gates WITH caller <- Seen
GatesRefined == AsGates!GatesSpec

(* Every tools/call ends: no held, charged or refused request is stuck,    *)
(* even if no admin ever acts (handler.go:182 waits on the channel alone). *)
EveryCallEnds ==
    \A c \in Caller : []<>(caller[c].pc = "idle")
=============================================================================
