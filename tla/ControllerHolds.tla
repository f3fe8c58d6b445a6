--------------------------- MODULE ControllerHolds ---------------------------
(***************************************************************************)
(* The controller's holds: HoldStore, pkg/controller/holds.go, with the    *)
(* CreateHold call that waits on it and the admin handlers that resolve.   *)
(*                                                                         *)
(* Compared with the sidecar's own queue (HoldManager), the waiting RPC    *)
(* may end first, because its context is cancelled; the hold then stays    *)
(* pending with nobody to answer.  And an expiry may grant the call: the   *)
(* record says timeout, the channel carries what onTimeout stands for.     *)
(***************************************************************************)
EXTENDS Naturals, Sequences, FiniteSets

CONSTANTS
    Hold,           \* identifiers generateHoldID can return; each is used once
    AllowOnTimeout, \* the holds created with OnTimeout "ALLOW"
    Admin,          \* admin requests served at the same time
    MaxHist         \* resolved holds kept

ASSUME HoldStoreAssumption ==
    /\ AllowOnTimeout \subseteq Hold
    /\ MaxHist \in Nat \ {0}
    /\ Admin \intersect Hold = {}

HoldState == {"pending", "approved", "denied", "timeout"}

(* The goroutines that can resolve a hold: an admin request, or the one    *)
(* running runTimeout for a hold, named by that hold.                      *)
Resolver == Admin \union Hold

VARIABLES
    pending,    \* keys of HoldStore.pending
    state,      \* Hold.State, "none" before Create
    history,    \* HoldStore.history, oldest first
    done,       \* contents of each hold's channel, which has capacity 1
    closed,     \* holds whose channel is closed
    resolver,   \* where each resolving goroutine is, its hold and what it sends
    reply       \* the CreateHold call of each hold

holdVars == <<pending, state, history, done, closed, resolver, reply>>

Idle == [pc |-> "idle", hold |-> "", sends |-> ""]

HoldInit ==
    /\ pending = {}
    /\ state = [h \in Hold |-> "none"]
    /\ history = <<>>
    /\ done = [h \in Hold |-> <<>>]
    /\ closed = {}
    /\ resolver = [x \in Resolver |-> Idle]
    /\ reply = [h \in Hold |-> "none"]

-----------------------------------------------------------------------------
(* HoldStore.Create, which also starts the hold's timer.                   *)
Create(h) ==
    /\ state[h] = "none"
    /\ pending' = pending \union {h}
    /\ state' = [state EXCEPT ![h] = "pending"]
    /\ resolver' = [resolver EXCEPT ![h].pc = "sleep"]
    /\ reply' = [reply EXCEPT ![h] = "created"]
    /\ UNCHANGED <<history, done, closed>>

archive(s) ==
    IF Len(s) > MaxHist THEN SubSeq(s, Len(s) - MaxHist + 1, Len(s)) ELSE s

(* The critical section of resolve and runTimeout: the hold leaves the map *)
(* with st on record, and the goroutine goes on to send v.                 *)
Take(x, h, st, v) ==
    /\ pending' = pending \ {h}
    /\ state' = [state EXCEPT ![h] = st]
    /\ history' = archive(Append(history, h))
    /\ resolver' = [resolver EXCEPT ![x] = [pc |-> "send", hold |-> h, sends |-> v]]
    /\ UNCHANGED <<done, closed, reply>>

(* POST /admin/holds/{id}/approve and /deny.  A hold that is not in the    *)
(* map is a 404 and changes nothing.                                       *)
Resolve(a, h, v) ==
    /\ resolver[a].pc = "idle"
    /\ h \in pending
    /\ Take(a, h, v, v)

(* Faulty: what is sent is what is recorded, a timeout.                    *)
FaultyOnTimeout(h) == "timeout"

OnTimeout(h) == IF h \in AllowOnTimeout THEN "approved" ELSE "denied"

(* Faulty: the timer resolves its hold without looking it up.              *)
FaultyRunTimeout(h) ==
    /\ resolver[h].pc = "sleep"
    /\ Take(h, h, "timeout", OnTimeout(h))

(* Faulty: an expiry is recorded and nothing is sent.                      *)
FaultyExpiry(h) ==
    /\ resolver[h].pc = "sleep"
    /\ resolver' = [resolver EXCEPT ![h].pc = "done"]
    /\ pending' = pending \ {h}
    /\ state' = [state EXCEPT ![h] = IF h \in pending THEN "timeout" ELSE @]
    /\ UNCHANGED <<history, done, closed, reply>>

(* runTimeout after its sleep, whose length is not modelled.               *)
RunTimeout(h) ==
    /\ resolver[h].pc = "sleep"
    /\ IF h \in pending
       THEN Take(h, h, "timeout", OnTimeout(h))
       ELSE /\ resolver' = [resolver EXCEPT ![h].pc = "done"]
            /\ UNCHANGED <<pending, state, history, done, closed, reply>>

(* done <- state, which blocks while the channel is full and panics once   *)
(* it is closed.                                                           *)
Send(x) ==
    LET h == resolver[x].hold IN
    /\ resolver[x].pc = "send"
    /\ h \in closed \/ Len(done[h]) < 1
    /\ done' = IF h \in closed THEN done
               ELSE [done EXCEPT ![h] = Append(@, resolver[x].sends)]
    /\ resolver' = [resolver EXCEPT ![x].pc = IF h \in closed THEN "panic" ELSE "close"]
    /\ UNCHANGED <<pending, state, history, closed, reply>>

(* close(done), then the goroutine is over.                                *)
Close(x) ==
    LET h == resolver[x].hold IN
    /\ resolver[x].pc = "close"
    /\ resolver' = [resolver EXCEPT ![x] =
                       [Idle EXCEPT !.pc = IF h \in closed THEN "panic"
                                           ELSE IF x \in Admin THEN "idle" ELSE "done"]]
    /\ closed' = closed \union {h}
    /\ UNCHANGED <<pending, state, history, done, reply>>

(* CreateHold reaches its select.                                          *)
Await(h) ==
    /\ reply[h] = "created"
    /\ reply' = [reply EXCEPT ![h] = "waiting"]
    /\ UNCHANGED <<pending, state, history, done, closed, resolver>>

(* case state := <-ch.  A channel closed while empty yields "".            *)
Receive(h) ==
    /\ reply[h] = "waiting"
    /\ done[h] # <<>> \/ h \in closed
    /\ reply' = [reply EXCEPT ![h] = IF done[h] # <<>> THEN Head(done[h]) ELSE ""]
    /\ done' = [done EXCEPT ![h] = IF @ # <<>> THEN Tail(@) ELSE @]
    /\ UNCHANGED <<pending, state, history, closed, resolver>>

(* Faulty: the RPC that ends drops its hold from the map unresolved.       *)
FaultyCancel(h) ==
    /\ reply[h] = "waiting"
    /\ reply' = [reply EXCEPT ![h] = "cancelled"]
    /\ pending' = pending \ {h}
    /\ state' = [state EXCEPT ![h] = IF @ = "pending" THEN "none" ELSE @]
    /\ UNCHANGED <<history, done, closed, resolver>>

(* case <-ctx.Done(): the answer is "denied".  The context may end at any  *)
(* time, and when both are ready select takes either.  The hold is left as *)
(* it is: pending, or resolved with a value nobody reads.                  *)
Cancel(h) ==
    /\ reply[h] = "waiting"
    /\ reply' = [reply EXCEPT ![h] = "cancelled"]
    /\ UNCHANGED <<pending, state, history, done, closed, resolver>>

-----------------------------------------------------------------------------
ResolverStep ==
    \/ \E a \in Admin, h \in Hold, v \in {"approved", "denied"} : Resolve(a, h, v)
    \/ \E h \in Hold : RunTimeout(h)
    \/ \E x \in Resolver : Send(x) \/ Close(x)

HoldNext ==
    \/ ResolverStep
    \/ \E h \in Hold : Create(h) \/ Await(h) \/ Receive(h) \/ Cancel(h)

HoldSpec == HoldInit /\ [][HoldNext]_holdVars

-----------------------------------------------------------------------------
ResolverState ==
    [pc : {"idle", "sleep", "send", "close", "done", "panic"},
     hold : Hold \union {""},
     sends : {"", "approved", "denied"}]

HoldTypeOK ==
    /\ pending \subseteq Hold
    /\ state \in [Hold -> HoldState \union {"none"}]
    /\ history \in Seq(Hold)
    /\ done \in [Hold -> Seq({"approved", "denied"})]
    /\ closed \subseteq Hold
    /\ resolver \in [Resolver -> ResolverState]
    /\ reply \in [Hold -> {"none", "created", "waiting", "cancelled", "approved", "denied"}]

(* Approvals, denials, timeouts and RPCs that end early may race in any    *)
(* way: no goroutine sends on a closed or full channel or closes one       *)
(* twice, so none panics or blocks, not even for a hold whose caller is    *)
(* gone (holds.go:132-133, 156-161).                                       *)
NobodyBlocks ==
    \A x \in Resolver :
        /\ resolver[x].pc # "panic"
        /\ resolver[x].pc = "send" => resolver[x].hold \notin closed /\ done[resolver[x].hold] = <<>>
        /\ resolver[x].pc = "close" => resolver[x].hold \notin closed

(* The controller keeps the same promise as the sidecar's queue: one       *)
(* verdict per hold, never revised, and the answer it stands for, which    *)
(* for a timeout is what onTimeout says (holds.go:54-162,                  *)
(* server.go:86-101).  Here a caller may leave; it is told "denied".       *)
Contract == INSTANCE HoldContract WITH
    TimeoutGrants <- AllowOnTimeout,
    MayLeave <- TRUE,
    verdict <- state,
    answer <- [h \in Hold |-> IF reply[h] \in {"none", "created", "waiting"} THEN "none"
                              ELSE IF reply[h] = "approved" THEN "granted" ELSE "refused"]
ContractSpec == Contract!Spec
=============================================================================
