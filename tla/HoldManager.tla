----------------------------- MODULE HoldManager -----------------------------
(***************************************************************************)
(* The in-process hold queue, pkg/hold/manager.go, with the admin handlers *)
(* of pkg/hold/admin.go as its callers.                                    *)
(*                                                                         *)
(* Three kinds of goroutine meet here: the handler that parked a call and  *)
(* blocks on the hold's channel, the admin requests that approve or deny   *)
(* it, and the timer goroutine started with every hold.  The mutex covers  *)
(* the map and the record; the send on the channel and its close come      *)
(* after the unlock, each as a step of its own.                            *)
(***************************************************************************)
EXTENDS Naturals, Sequences, FiniteSets

CONSTANTS
    Hold,       \* identifiers generateID can return; each is used once
    Admin,      \* admin requests served at the same time
    Approver,   \* X-Approver values, which are whatever the admin sends
    MaxHist     \* resolved holds kept for GET /admin/holds/history

ASSUME HoldAssumption ==
    /\ MaxHist \in Nat \ {0}
    /\ Admin \intersect Hold = {}

Status == {"none", "pending", "approved", "denied", "timeout"}

Resolution == [approved : BOOLEAN, by : Approver \union {"timeout"}]

(* The goroutines that can resolve a hold: an admin request, or the timer  *)
(* of a hold, which carries the hold's own identifier.                     *)
Task == Admin \union Hold

VARIABLES
    pending,    \* keys of Manager.pending
    status,     \* HeldRequest.Status, "none" before Hold is called
    resolvedBy, \* HeldRequest.ResolvedBy, which a timer leaves empty
    history,    \* Manager.history, oldest first
    buffer,     \* contents of each hold's channel, which has capacity 1
    closed,     \* holds whose channel is closed
    task,       \* where each resolving goroutine is, and what it carries
    waiter      \* the parked caller: what it received from the channel

holdVars == <<pending, status, resolvedBy, history, buffer, closed, task, waiter>>

(* ResolvedBy of a hold no admin resolved.                                 *)
Nobody == ""

NoTask == [pc |-> "idle", hold |-> "", res |-> [approved |-> FALSE, by |-> ""]]

HoldInit ==
    /\ pending = {}
    /\ status = [h \in Hold |-> "none"]
    /\ resolvedBy = [h \in Hold |-> Nobody]
    /\ history = <<>>
    /\ buffer = [h \in Hold |-> <<>>]
    /\ closed = {}
    /\ task = [x \in Task |-> NoTask]
    /\ waiter = [h \in Hold |-> "none"]

-----------------------------------------------------------------------------
(* Faulty: the hold is parked and its timer is not started.                *)
FaultyPark(h) ==
    /\ status[h] = "none"
    /\ pending' = pending \union {h}
    /\ status' = [status EXCEPT ![h] = "pending"]
    /\ waiter' = [waiter EXCEPT ![h] = "waiting"]
    /\ UNCHANGED <<resolvedBy, history, buffer, closed, task>>

(* Manager.Hold: record the request, start its timer, hand the channel to  *)
(* the caller, which receives from it next.                                *)
Park(h) ==
    /\ status[h] = "none"
    /\ pending' = pending \union {h}
    /\ status' = [status EXCEPT ![h] = "pending"]
    /\ task' = [task EXCEPT ![h].pc = "sleep"]
    /\ waiter' = [waiter EXCEPT ![h] = "waiting"]
    /\ UNCHANGED <<resolvedBy, history, buffer, closed>>

(* Faulty: trims one resolution too early.                                 *)
FaultyTrim(s) ==
    IF Len(s) >= MaxHist THEN SubSeq(s, Len(s) - MaxHist + 2, Len(s)) ELSE s

Trim(s) ==
    IF Len(s) > MaxHist THEN SubSeq(s, Len(s) - MaxHist + 1, Len(s)) ELSE s

(* The critical section shared by resolve and startTimeout once the hold   *)
(* was found in the map.  It leaves with the channel in hand.              *)
Resolve(x, h, st, by, res) ==
    /\ pending' = pending \ {h}
    /\ status' = [status EXCEPT ![h] = st]
    /\ resolvedBy' = [resolvedBy EXCEPT ![h] = by]
    /\ history' = Trim(Append(history, h))
    /\ task' = [task EXCEPT ![x] = [pc |-> "send", hold |-> h, res |-> res]]
    /\ UNCHANGED <<buffer, closed, waiter>>

(* Faulty: a hold can be resolved again once it left the map.              *)
FaultyAdminResolve(a, h, ok, by) ==
    /\ task[a].pc = "idle"
    /\ status[h] # "none"
    /\ Resolve(a, h, IF ok THEN "approved" ELSE "denied", by,
               [approved |-> ok, by |-> by])

(* POST /admin/holds/{id}/approve and /deny.  A hold that is no longer in  *)
(* the map is an error to the admin and changes nothing.                   *)
AdminResolve(a, h, ok, by) ==
    /\ task[a].pc = "idle"
    /\ h \in pending
    /\ Resolve(a, h, IF ok THEN "approved" ELSE "denied", by,
               [approved |-> ok, by |-> by])

(* Faulty: the timer does not look whether the hold is still pending.      *)
FaultyTimerFires(h) ==
    /\ task[h].pc = "sleep"
    /\ Resolve(h, h, "timeout", Nobody, [approved |-> FALSE, by |-> "timeout"])

(* startTimeout after its sleep.  How long the sleep lasts is not modelled, *)
(* so the timer may fire at any point after the hold was parked.           *)
TimerFires(h) ==
    /\ task[h].pc = "sleep"
    /\ IF h \in pending
       THEN Resolve(h, h, "timeout", Nobody, [approved |-> FALSE, by |-> "timeout"])
       ELSE /\ task' = [task EXCEPT ![h].pc = "done"]
            /\ UNCHANGED <<pending, status, resolvedBy, history, buffer, closed, waiter>>

(* p.resolution <- Resolution{...}: blocks while the buffer is full, and   *)
(* panics on a closed channel.                                             *)
Send(x) ==
    LET h == task[x].hold IN
    /\ task[x].pc = "send"
    /\ h \in closed \/ Len(buffer[h]) < 1
    /\ buffer' = IF h \in closed THEN buffer
                 ELSE [buffer EXCEPT ![h] = Append(@, task[x].res)]
    /\ task' = [task EXCEPT ![x].pc = IF h \in closed THEN "panic" ELSE "close"]
    /\ UNCHANGED <<pending, status, resolvedBy, history, closed, waiter>>

(* close(p.resolution), which panics on a channel already closed; then the *)
(* goroutine is over: an admin slot is free again, a timer is not reused.  *)
Close(x) ==
    LET h == task[x].hold IN
    /\ task[x].pc = "close"
    /\ task' = [task EXCEPT ![x] =
                   [NoTask EXCEPT !.pc = IF h \in closed THEN "panic"
                                         ELSE IF x \in Admin THEN "idle" ELSE "done"]]
    /\ closed' = closed \union {h}
    /\ UNCHANGED <<pending, status, resolvedBy, history, buffer, waiter>>

(* Faulty: any answer that is not a timeout is taken for an approval.      *)
FaultyReads(res) == IF res.by = "timeout" THEN "expired" ELSE "granted"

(* What the handler makes of a Resolution, handler.go:184-197.             *)
Reads(res) ==
    CASE res.approved -> "granted"
      [] ~res.approved /\ res.by = "timeout" -> "expired"
      [] OTHER -> "refused"

(* resolution := <-ch in the handler.  A channel closed while empty yields *)
(* the zero Resolution.                                                    *)
Receive(h) ==
    /\ waiter[h] = "waiting"
    /\ buffer[h] # <<>> \/ h \in closed
    /\ waiter' = [waiter EXCEPT ![h] =
                     Reads(IF buffer[h] # <<>> THEN Head(buffer[h]) ELSE NoTask.res)]
    /\ buffer' = [buffer EXCEPT ![h] = IF @ # <<>> THEN Tail(@) ELSE @]
    /\ UNCHANGED <<pending, status, resolvedBy, history, closed, task>>

-----------------------------------------------------------------------------
AdminStep ==
    \E a \in Admin, h \in Hold, ok \in BOOLEAN, by \in Approver :
        AdminResolve(a, h, ok, by)

QueueStep ==
    \/ AdminStep
    \/ \E h \in Hold : TimerFires(h)
    \/ \E x \in Task : Send(x) \/ Close(x)

HoldNext == QueueStep \/ \E h \in Hold : Park(h) \/ Receive(h)

HoldSpec == HoldInit /\ [][HoldNext]_holdVars

-----------------------------------------------------------------------------
TaskState ==
    [pc : {"idle", "sleep", "send", "close", "done", "panic"},
     hold : Hold \union {""},
     res : [approved : BOOLEAN, by : Approver \union {"timeout", ""}]]

HoldTypeOK ==
    /\ pending \subseteq Hold
    /\ status \in [Hold -> Status]
    /\ resolvedBy \in [Hold -> Approver \union {Nobody}]
    /\ history \in Seq(Hold)
    /\ buffer \in [Hold -> Seq(Resolution)]
    /\ closed \subseteq Hold
    /\ task \in [Task -> TaskState]
    /\ waiter \in [Hold -> {"none", "waiting", "granted", "refused", "expired"}]

Resolved == {h \in Hold : status[h] \in {"approved", "denied", "timeout"}}

(* However approve, deny and timeout race, the goroutine that leaves the   *)
(* critical section with a hold finds its channel open and empty: the send *)
(* never blocks, nothing is sent on or closed twice, so no handler panics  *)
(* (manager.go:164-165 and 190-191).                                       *)
SendReady ==
    \A x \in Task :
        /\ task[x].pc # "panic"
        /\ task[x].pc = "send" => task[x].hold \notin closed /\ buffer[task[x].hold] = <<>>
        /\ task[x].pc = "close" => task[x].hold \notin closed

(* What the parked handler acts on (handler.go:184-199) is what the        *)
(* history shows for the hold.  A call is forwarded iff its hold is        *)
(* recorded approved and -32000 answers a denial.  -32005 answers a        *)
(* timeout, and also a denial by an approver whose name is "timeout",      *)
(* because the handler tells the two apart by Resolution.By.               *)
ReplyMatchesRecord ==
    \A h \in Hold :
        /\ waiter[h] = "granted" => status[h] = "approved"
        /\ waiter[h] = "refused" => status[h] = "denied" /\ resolvedBy[h] # "timeout"
        /\ waiter[h] = "expired" =>
              status[h] = "timeout" \/ (status[h] = "denied" /\ resolvedBy[h] = "timeout")

(* docs/arbiter-model.md:105, "-32005 | ErrCodeHoldTimeout | HOLD timed    *)
(* out without approval": a caller told so was refused by the timer, and   *)
(* no admin decided about its call (handler.go:193, admin.go:64).          *)
TimeoutCodeMeansTimeout ==
    \A h \in Hold : waiter[h] = "expired" => status[h] = "timeout"

(* A hold is pending or resolved, never both and never lost: the pending   *)
(* map holds exactly the unresolved ones, and the history resolved ones    *)
(* alone, each once: all of them until there are MaxHist, and never fewer  *)
(* than that again (manager.go:147-161, 178-187).                          *)
QueueComplete ==
    /\ pending = {h \in Hold : status[h] = "pending"}
    /\ {history[i] : i \in 1..Len(history)} \subseteq Resolved
    /\ \A i, j \in 1..Len(history) : history[i] = history[j] => i = j
    /\ Len(history) = IF Cardinality(Resolved) > MaxHist THEN MaxHist
                      ELSE Cardinality(Resolved)

(* The queue keeps the promise of a hold: one verdict, never revised, and  *)
(* an answer that agrees with it.  Here expiry never grants and a caller   *)
(* never leaves, since the handler blocks on the channel alone.            *)
Contract == INSTANCE HoldContract WITH
    TimeoutGrants <- {},
    MayLeave <- FALSE,
    verdict <- status,
    answer <- [h \in Hold |->
                 IF waiter[h] = "expired" THEN "refused"
                 ELSE IF waiter[h] = "waiting" THEN "none" ELSE waiter[h]]
ContractSpec == Contract!Spec
=============================================================================
