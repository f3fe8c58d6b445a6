----------------------------- MODULE Controller -----------------------------
(***************************************************************************)
(* The controller process: the gRPC handlers of pkg/controller/server.go   *)
(* over its stores and holds, the sweep goroutine and the admin endpoints  *)
(* of cmd/nullfield-controller/main.go.                                    *)
(*                                                                         *)
(* A handler takes the stores' locks one after the other, so another       *)
(* handler, an admin or a timer may come between any two of its steps: a   *)
(* hold can be resolved before its own creation is logged.                 *)
(***************************************************************************)
EXTENDS ControllerHolds, ControllerStores

CONSTANTS
    Handler,    \* RPCs served at the same time
    Workload,   \* bounds: how many of each RPC clients send and how often the
                \* clock ticks, one of these functions
    Reported,   \* the events sidecars report
    Caller,     \* <<identity, session>> pairs that ask for budget, NoKey if absent
    Tokens      \* the token counts they ask for

Rpc == {"CheckBudget", "CreateHold", "ReportEvent", "RegisterSidecar"}
NoHold == ""

ASSUME ControllerAssumption ==
    /\ \A w \in Workload : w \in [Rpc \union {"Tick"} -> Nat]
    /\ Reported \subseteq Event /\ Tokens \subseteq Nat
    /\ {"budget.check", "budget.denied", "hold.created", "sidecar.registered"} \subseteq EventType
    /\ Caller \subseteq (Identity \union {NoKey}) \X (Session \union {NoKey})

VARIABLES
    rpc,        \* where each handler is and what it has yet to report
    left        \* what is left of the workload

vars == <<holdVars, storeVars, rpc, left>>

Ready == [pc |-> "ready", event |-> NoEvent, alert |-> NoEvent, hold |-> NoHold]

Init ==
    /\ HoldInit
    /\ StoresInit
    /\ rpc = [c \in Handler |-> Ready]
    /\ left \in Workload

(* A handler starts on an RPC of the given name, with an event to add and  *)
(* an alert, a hold to wait for, or neither after it.                      *)
Serve(c, name, event, alert, hold) ==
    /\ rpc[c].pc = "ready"
    /\ left[name] > 0
    /\ left' = [left EXCEPT ![name] = @ - 1]
    /\ rpc' = [rpc EXCEPT ![c] = [pc |-> "event", event |-> event, alert |-> alert, hold |-> hold]]
    /\ UNCHANGED now

MkEvent(type, tool, i) == [type |-> type, tool |-> tool, identity |-> i]

(* Server.CheckBudget: a refusal is an alert.                              *)
CheckBudget(c, tool, i, s, tokens) ==
    /\ Serve(c, "CheckBudget", MkEvent("budget.check", tool, i),
             IF Allowed(i, s) THEN NoEvent ELSE MkEvent("budget.denied", tool, i), NoHold)
    /\ Check(i, s, tokens)
    /\ UNCHANGED <<holdVars, eventVars, alertVars, sidecarVars>>

(* Server.CreateHold up to the creation of the hold.                       *)
CreateHold(c, tool, i, h) ==
    /\ Serve(c, "CreateHold", MkEvent("hold.created", tool, i), MkEvent("hold.created", tool, i), h)
    /\ Create(h)
    /\ UNCHANGED <<eventVars, alertVars, budgetVars, sidecarVars>>

(* Server.ReportEvent                                                      *)
ReportEvent(c, e) ==
    /\ Serve(c, "ReportEvent", e, e, NoHold)
    /\ UNCHANGED <<holdVars, eventVars, alertVars, budgetVars, sidecarVars>>

(* Server.RegisterSidecar                                                  *)
RegisterSidecar(c, p) ==
    /\ Serve(c, "RegisterSidecar", MkEvent("sidecar.registered", "", NoKey), NoEvent, NoHold)
    /\ Register(p)
    /\ UNCHANGED <<holdVars, eventVars, alertVars, budgetVars>>

(* Events.Add, common to all four.                                         *)
AddEvent(c) ==
    /\ rpc[c].pc = "event"
    /\ Add(rpc[c].event)
    /\ rpc' = [rpc EXCEPT ![c] = IF rpc[c].alert = NoEvent THEN Ready
                                 ELSE [rpc[c] EXCEPT !.pc = "alert"]]
    /\ UNCHANGED <<holdVars, now, alertVars, budgetVars, sidecarVars, left>>

(* Alerter.Alert; CreateHold then reaches its select.                      *)
RaiseAlert(c) ==
    /\ rpc[c].pc = "alert"
    /\ Alert(rpc[c].alert)
    /\ IF rpc[c].hold = NoHold
       THEN rpc' = [rpc EXCEPT ![c] = Ready] /\ UNCHANGED holdVars
       ELSE rpc' = [rpc EXCEPT ![c].pc = "hold"] /\ Await(rpc[c].hold)
    /\ UNCHANGED <<now, eventVars, budgetVars, sidecarVars, left>>

(* CreateHold answers with what came down the channel.                     *)
Answer(c) ==
    /\ rpc[c].pc = "hold"
    /\ Receive(rpc[c].hold)
    /\ rpc' = [rpc EXCEPT ![c] = Ready]
    /\ UNCHANGED <<storeVars, left>>

(* The caller's context ends first.                                        *)
GiveUp(c) ==
    /\ rpc[c].pc = "hold"
    /\ Cancel(rpc[c].hold)
    /\ rpc' = [rpc EXCEPT ![c] = Ready]
    /\ UNCHANGED <<storeVars, left>>

(* The goroutine that sweeps every minute; two locks, two steps, in either *)
(* order of effect.                                                        *)
Sweep ==
    \/ SweepBudgets /\ UNCHANGED <<sidecarVars>>
    \/ SweepSidecars /\ UNCHANGED <<budgetVars>>

TimePasses ==
    /\ left["Tick"] > 0
    /\ left' = [left EXCEPT !["Tick"] = @ - 1]
    /\ Tick
    /\ UNCHANGED <<holdVars, eventVars, alertVars, budgetVars, sidecarVars, rpc>>

-----------------------------------------------------------------------------
Arrive(c) ==
    \/ \E tool \in Tool, who \in Caller, n \in Tokens : CheckBudget(c, tool, who[1], who[2], n)
    \/ \E tool \in Tool, i \in Identity, h \in Hold : CreateHold(c, tool, i, h)
    \/ \E e \in Reported : ReportEvent(c, e)
    \/ \E p \in Pod : RegisterSidecar(c, p)

Proceed(c) == AddEvent(c) \/ RaiseAlert(c) \/ Answer(c)

Next ==
    \/ \E c \in Handler : Arrive(c) \/ Proceed(c) \/ GiveUp(c)
    \/ ResolverStep /\ UNCHANGED <<storeVars, rpc, left>>
    \/ Sweep /\ UNCHANGED <<holdVars, now, eventVars, alertVars, rpc, left>>
    \/ GetUsage /\ UNCHANGED <<holdVars, now, eventVars, alertVars, sidecarVars, rpc, left>>
    \/ TimePasses

(* The scheduler runs some goroutine while any can run, and timers fire.   *)
(* Clients, admins and the sweep owe nothing.                              *)
Fairness ==
    /\ WF_vars(\E c \in Handler : Proceed(c))
    /\ WF_vars((\E h \in Hold : RunTimeout(h)) /\ UNCHANGED <<storeVars, rpc, left>>)
    /\ WF_vars((\E x \in Resolver : Send(x) \/ Close(x)) /\ UNCHANGED <<storeVars, rpc, left>>)

Spec == Init /\ [][Next]_vars /\ Fairness

-----------------------------------------------------------------------------
TypeOK ==
    /\ HoldTypeOK
    /\ now \in Nat
    /\ pos \in 0..(Size - 1) /\ count \in 0..Size
    /\ \A k \in BudgetKey : Len(budgets[k].hourly) <= MaxCallsPerHour
                            /\ Len(budgets[k].daily) <= MaxCallsPerDay
    /\ rpc \in [Handler -> [pc : {"ready", "event", "alert", "hold"},
                            event : Event \union {NoEvent}, alert : Event \union {NoEvent},
                            hold : Hold \union {NoHold}]]
    /\ left \in [Rpc \union {"Tick"} -> Nat]

(* Every RPC returns, a CreateHold nobody approves, denies or cancels      *)
(* included: the hold's own timer answers it (server.go:86-101,            *)
(* holds.go:137-162).                                                      *)
EveryRpcReturns ==
    \A c \in Handler : rpc[c].pc # "ready" ~> rpc[c].pc = "ready"
=============================================================================
