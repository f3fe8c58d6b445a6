--------------------------- MODULE ToolsCallProofs ---------------------------
(***************************************************************************)
(* The hold manager and the sidecar's tools/call handler, for any number   *)
(* of requests, holds, admins and rules: the queue keeps its contract and  *)
(* loses no hold, what was held is forwarded only if approved, and the     *)
(* handler refines the gates, so every limit proved of the gates holds of  *)
(* the composition with the rule engine, the hold queue and the scope.     *)
(*                                                                         *)
(* HeldCallsNeedApproval is not inductive: HandlerInv adds which hold a    *)
(* request waits on, that no two share one, and what the queue can have    *)
(* sent it.  The refinement reads the states this handler adds (held,      *)
(* scope) as the gates' own (Seen); GatesStep goes through the actions one *)
(* by one.  The theorems of GatesProofs then hold of the mapped state.     *)
(***************************************************************************)
EXTENDS ToolsCall, WellFoundedInduction, TLAPS

InHand(x, h) == task[x].pc \in {"send", "close"} /\ task[x].hold = h

(* The resolution that is sent for a hold recorded with st and by.  The    *)
(* name "timeout" may be the timer's or an admin's.                        *)
Tells(res, st, by) ==
    IF res.approved THEN st = "approved"
    ELSE IF res.by = "timeout" THEN st = "timeout" \/ (st = "denied" /\ by = "timeout")
    ELSE st = "denied" /\ by # "timeout"

(* What the handler takes from it.                                         *)
Answers(w, st, by) ==
    /\ w = "granted" <=> st = "approved"
    /\ w = "refused" => st = "denied" /\ by # "timeout"
    /\ w = "expired" => st = "timeout" \/ (st = "denied" /\ by = "timeout")

(* A hold in hand was resolved, and by one goroutine only; a timer only    *)
(* ever carries its own hold.                                              *)
OneResolver ==
    \A x \in Task :
        /\ task[x].pc # "panic"
        /\ task[x].pc \in {"send", "close"} =>
              /\ task[x].hold \in Resolved
              /\ task[x].hold \notin closed
              /\ x \in Hold => task[x].hold = x
              /\ \A y \in Task : InHand(y, task[x].hold) => y = x
        /\ task[x].pc = "send" =>
              /\ buffer[task[x].hold] = <<>>
              /\ waiter[task[x].hold] = "waiting"
              /\ task[x].res \in Resolution
              /\ Tells(task[x].res, status[task[x].hold], resolvedBy[task[x].hold])
        /\ task[x].pc = "close" /\ waiter[task[x].hold] = "waiting" =>
              buffer[task[x].hold] # <<>>

(* What the channel, the record and the parked handler say of one hold.    *)
ChannelState ==
    \A h \in Hold :
        /\ h \in pending <=> status[h] = "pending"
        /\ status[h] = "none" => waiter[h] = "none"
        /\ status[h] = "pending" => waiter[h] = "waiting"
        /\ h \in Resolved => waiter[h] # "none"
        /\ h \notin Resolved => h \notin closed /\ buffer[h] = <<>>
        /\ buffer[h] # <<>> =>
              /\ Len(buffer[h]) = 1
              /\ Tells(Head(buffer[h]), status[h], resolvedBy[h])
              /\ waiter[h] = "waiting"
        /\ h \in closed /\ waiter[h] = "waiting" => buffer[h] # <<>>

HoldInv == HoldTypeOK /\ OneResolver /\ ChannelState /\ ReplyMatchesRecord

-----------------------------------------------------------------------------
(* Initially nothing is held.                                              *)
LEMMA HoldInitInv == HoldInit => HoldInv
<1> SUFFICES ASSUME HoldInit PROVE HoldInv
  OBVIOUS
<1>1. HoldTypeOK
  <2>1. task \in [Task -> TaskState]
    BY Zenon DEF HoldInit, NoTask, TaskState
  <2>2. history \in Seq(Hold) /\ buffer \in [Hold -> Seq(Resolution)]
    BY DEF HoldInit
  <2> QED
    BY <2>1, <2>2 DEF HoldInit, HoldTypeOK, Status
<1>2. OneResolver
  BY Zenon DEF HoldInit, OneResolver, NoTask, Task
<1>3. ChannelState
  BY DEF HoldInit, ChannelState, Resolved
<1>4. ReplyMatchesRecord
  BY DEF HoldInit, ReplyMatchesRecord
<1> QED
  BY <1>1, <1>2, <1>3, <1>4 DEF HoldInv

(* Trimming the history keeps a sequence of holds (manager.go:159-161).    *)
LEMMA TrimType ==
  ASSUME NEW s \in Seq(Hold)
  PROVE  Trim(s) \in Seq(Hold)
<1>1. CASE Len(s) > MaxHist
  <2>1. Len(s) \in Nat /\ MaxHist \in Nat \ {0}
    BY HoldAssumption
  <2>2. Len(s) - MaxHist + 1 \in 1..(Len(s) + 1) /\ Len(s) \in (Len(s) - MaxHist)..Len(s)
    BY <1>1, <2>1
  <2>3. SubSeq(s, Len(s) - MaxHist + 1, Len(s)) \in Seq(Hold)
    BY <2>1, <2>2
  <2> QED
    BY <1>1, <2>3 DEF Trim
<1>2. CASE ~(Len(s) > MaxHist)
  BY <1>2 DEF Trim
<1> QED
  BY <1>1, <1>2

(* Moving one goroutine to another program point keeps the type.           *)
LEMMA MovedTask ==
  ASSUME NEW t \in [Task -> TaskState], NEW x \in Task,
         NEW pc \in {"idle", "sleep", "send", "close", "done", "panic"}
  PROVE  [t EXCEPT ![x].pc = pc] \in [Task -> TaskState]
  BY ZenonT(40) DEF TaskState

(* Parking a fresh hold (manager.go:64-90).                                *)
LEMMA ParkInv ==
  ASSUME HoldInv, NEW h \in Hold, Park(h)
  PROVE  HoldInv'
<1> USE DEF Task
<1>0. HoldTypeOK /\ OneResolver /\ ChannelState /\ ReplyMatchesRecord
  BY DEF HoldInv
<1>1. task[h].pc \notin {"send", "close"} /\ \A x \in Task : ~InHand(x, h)
  BY <1>0 DEF Park, OneResolver, ChannelState, InHand, Resolved
<1>2. HoldTypeOK'
  <2>1. task' \in [Task -> TaskState]
    BY <1>0, MovedTask, Zenon DEF Park, HoldTypeOK
  <2> QED
    BY <1>0, <2>1 DEF Park, HoldTypeOK, Status
<1>3. OneResolver'
  <2>1. task'[h].pc = "sleep" /\ \A x \in Task \ {h} : task'[x] = task[x]
    BY <1>0 DEF Park, HoldTypeOK
  <2>2. \A x \in Task : task'[x].pc \in {"send", "close"} =>
            x # h /\ task'[x] = task[x] /\ task[x].hold # h
    BY <2>1, <1>1 DEF InHand
  <2>3. Resolved' = Resolved /\ UNCHANGED <<buffer, closed>>
        /\ \A g \in Hold \ {h} : waiter'[g] = waiter[g] /\ status'[g] = status[g]
        /\ resolvedBy' = resolvedBy
    BY <1>0 DEF Park, HoldTypeOK, Resolved
  <2>4. \A x \in Task : task'[x].pc # "panic"
    BY <1>0, <2>1 DEF OneResolver
  <2>5. \A x, g \in Task : InHand(x, g)' => InHand(x, g)
    BY <2>2 DEF InHand
  <2> QED
    BY <1>0, <2>2, <2>3, <2>4, <2>5 DEF OneResolver, InHand, Resolved
<1>4. ChannelState'
  BY <1>0 DEF Park, HoldTypeOK, ChannelState, Resolved
<1>5. ReplyMatchesRecord'
  BY <1>0 DEF Park, HoldTypeOK, ReplyMatchesRecord
<1> QED
  BY <1>2, <1>3, <1>4, <1>5 DEF HoldInv

(* The critical section of resolve and startTimeout (manager.go:141-162,   *)
(* 172-188), entered with the hold in the map.                             *)
LEMMA ResolveInv ==
  ASSUME HoldInv, NEW x \in Task, NEW h \in Hold, NEW res \in Resolution, NEW st \in Status,
         NEW by \in Approver \union {Nobody},
         h \in pending, task[x].pc \in {"idle", "sleep"}, x \in Hold => x = h,
         Tells(res, st, by), Resolve(x, h, st, by, res)
  PROVE  HoldInv'
<1> USE DEF Task
<1>0. HoldTypeOK /\ OneResolver /\ ChannelState /\ ReplyMatchesRecord
  BY DEF HoldInv
<1>1. \A y \in Task : ~InHand(y, h)
  BY <1>0 DEF OneResolver, ChannelState, InHand, Resolved
<1>2. HoldTypeOK'
  <2>1. history' \in Seq(Hold)
    <3>1. history \in Seq(Hold) /\ h \in Hold /\ history' = Trim(Append(history, h))
      BY <1>0 DEF Resolve, HoldTypeOK
    <3>2. Append(history, h) \in Seq(Hold)
      BY <3>1
    <3> QED BY <3>1, <3>2, TrimType, Zenon
  <2>2. [pc |-> "send", hold |-> h, res |-> res] \in TaskState
    BY Zenon DEF TaskState, Resolution
  <2> QED
    BY <1>0, <2>1, <2>2 DEF Resolve, HoldTypeOK
<1>3. st \in {"approved", "denied", "timeout"}
  BY DEF Tells
<1>4. /\ status'[h] = st /\ resolvedBy'[h] = by
      /\ \A g \in Hold \ {h} : status'[g] = status[g] /\ resolvedBy'[g] = resolvedBy[g]
      /\ task'[x] = [pc |-> "send", hold |-> h, res |-> res]
      /\ \A y \in Task \ {x} : task'[y] = task[y]
      /\ Resolved \subseteq Resolved' /\ h \in Resolved'
  BY <1>0, <1>3, SMTT(40) DEF Resolve, HoldTypeOK, Resolved, ChannelState
<1>5. OneResolver'
  BY <1>0, <1>1, <1>3, <1>4, SMTT(40) DEF Resolve, OneResolver, ChannelState, InHand, Resolved
<1>6. ChannelState'
  BY <1>0, <1>3, <1>4, SMTT(40) DEF Resolve, HoldTypeOK, ChannelState, Resolved
<1>7. ReplyMatchesRecord'
  <2>1. waiter' = waiter /\ waiter[h] = "waiting"
    BY <1>0, Zenon DEF Resolve, ChannelState
  <2>2. waiter[h] \notin {"granted", "refused", "expired"}
    BY <2>1
  <2> QED
    BY <1>0, <1>4, <2>1, <2>2, Zenon DEF ReplyMatchesRecord
<1> QED
  BY <1>2, <1>5, <1>6, <1>7 DEF HoldInv

(* The timer of a hold that was resolved meanwhile (manager.go:174-177).   *)
LEMMA IdleTimerInv ==
  ASSUME HoldInv, NEW h \in Hold, task[h].pc = "sleep",
         task' = [task EXCEPT ![h].pc = "done"],
         UNCHANGED <<pending, status, resolvedBy, history, buffer, closed, waiter>>
  PROVE  HoldInv'
<1> USE DEF Task
<1>0. HoldTypeOK /\ OneResolver /\ ChannelState /\ ReplyMatchesRecord
  BY DEF HoldInv
<1>1. HoldTypeOK'
  <2>1. task' \in [Task -> TaskState]
    BY <1>0, MovedTask, Zenon DEF HoldTypeOK
  <2> QED
    BY <1>0, <2>1 DEF HoldTypeOK
<1>2. OneResolver'
  <2>1. task'[h].pc = "done" /\ \A x \in Task \ {h} : task'[x] = task[x]
    BY <1>0 DEF HoldTypeOK
  <2> QED
    BY <1>0, <2>1 DEF OneResolver, InHand, Resolved
<1>3. ChannelState' /\ ReplyMatchesRecord'
  BY <1>0 DEF ChannelState, Resolved, ReplyMatchesRecord
<1> QED
  BY <1>1, <1>2, <1>3 DEF HoldInv

(* The send after the unlock (manager.go:164, 190).                        *)
LEMMA SendInv ==
  ASSUME HoldInv, NEW x \in Task, Send(x)
  PROVE  HoldInv'
<1> DEFINE h == task[x].hold
<1>0. HoldTypeOK /\ OneResolver /\ ChannelState /\ ReplyMatchesRecord
  BY DEF HoldInv
<1>1. /\ h \in Hold /\ h \in Resolved /\ h \notin closed
      /\ buffer[h] = <<>> /\ waiter[h] = "waiting"
      /\ task[x].res \in Resolution /\ Tells(task[x].res, status[h], resolvedBy[h])
      /\ \A y \in Task \ {x} : ~InHand(y, h)
  BY <1>0, Zenon DEF Send, OneResolver, Resolved
<1>2. /\ buffer' = [buffer EXCEPT ![h] = Append(<<>>, task[x].res)]
      /\ task' = [task EXCEPT ![x].pc = "close"]
      /\ UNCHANGED <<pending, status, resolvedBy, history, closed, waiter>>
  BY <1>0, <1>1, SMTT(40) DEF Send, HoldTypeOK
<1>3. /\ Append(<<>>, task[x].res) \in Seq(Resolution)
      /\ Append(<<>>, task[x].res) # <<>>
      /\ Len(Append(<<>>, task[x].res)) = 1
      /\ Head(Append(<<>>, task[x].res)) = task[x].res
  BY <1>1
<1>4. /\ task'[x].pc = "close" /\ task'[x].hold = h
      /\ \A y \in Task \ {x} : task'[y] = task[y]
      /\ buffer'[h] = Append(<<>>, task[x].res)
      /\ \A g \in Hold \ {h} : buffer'[g] = buffer[g]
  BY <1>0, <1>1, <1>2, ZenonT(40) DEF HoldTypeOK, TaskState
<1>5. HoldTypeOK'
  <2>1. task' \in [Task -> TaskState]
    BY <1>0, <1>2, MovedTask, Zenon DEF HoldTypeOK
  <2> QED
    BY <1>0, <1>1, <1>2, <1>3, <2>1 DEF HoldTypeOK
<1>6. OneResolver'
  <2>1. Resolved' = Resolved
    BY <1>2, SMTT(40) DEF Resolved
  <2>2. \A y \in Task, g \in Hold : InHand(y, g)' <=> InHand(y, g)
    BY <1>4 DEF InHand, Send
  <2> HIDE DEF h
  <2> QED
    BY <1>0, <1>1, <1>2, <1>4, <2>1, <2>2, SMTT(40) DEF OneResolver, InHand, Resolved
<1>7. ChannelState' /\ ReplyMatchesRecord'
  <2> HIDE DEF h
  <2> QED
    BY <1>0, <1>1, <1>2, <1>3, <1>4 DEF ChannelState, Resolved, ReplyMatchesRecord
<1> QED
  BY <1>5, <1>6, <1>7 DEF HoldInv

(* The close after the send (manager.go:165, 191).                         *)
LEMMA CloseInv ==
  ASSUME HoldInv, NEW x \in Task, Close(x)
  PROVE  HoldInv'
<1> DEFINE h == task[x].hold
<1>0. HoldTypeOK /\ OneResolver /\ ChannelState /\ ReplyMatchesRecord
  BY DEF HoldInv
<1>1. /\ h \in Hold /\ h \in Resolved /\ h \notin closed
      /\ \A y \in Task \ {x} : ~InHand(y, h)
      /\ waiter[h] = "waiting" => buffer[h] # <<>>
  BY <1>0 DEF Close, OneResolver, Resolved
<1>2. PICK pc \in {"idle", "done"} : task' = [task EXCEPT ![x] = [NoTask EXCEPT !.pc = pc]]
  BY <1>1, Zenon DEF Close
<1>3. [NoTask EXCEPT !.pc = pc] \in TaskState /\ [NoTask EXCEPT !.pc = pc].pc = pc
  BY Zenon DEF NoTask, TaskState
<1>4. /\ closed' = closed \union {h}
      /\ UNCHANGED <<pending, status, resolvedBy, history, buffer, waiter>>
      /\ task'[x].pc = pc
      /\ \A y \in Task \ {x} : task'[y] = task[y]
  BY <1>0, <1>2, <1>3, Zenon DEF Close, HoldTypeOK
<1>5. HoldTypeOK'
  BY <1>0, <1>1, <1>2, <1>3, <1>4, SMTT(40) DEF HoldTypeOK
<1>6. OneResolver'
  <2>1. Resolved' = Resolved
    BY <1>4 DEF Resolved
  <2>2. \A y \in Task : task'[y].pc \in {"send", "close"} =>
            y # x /\ task'[y] = task[y] /\ task[y].hold # h
    BY <1>1, <1>4 DEF InHand
  <2>3. \A y \in Task, g \in Hold : InHand(y, g)' => InHand(y, g)
    BY <2>2 DEF InHand
  <2> HIDE DEF h
  <2> QED
    BY <1>0, <1>4, <2>1, <2>2, <2>3, SMTT(40) DEF OneResolver, Resolved
<1>7. ChannelState' /\ ReplyMatchesRecord'
  <2> HIDE DEF h
  <2> QED
    BY <1>0, <1>1, <1>4 DEF ChannelState, Resolved, ReplyMatchesRecord
<1> QED
  BY <1>5, <1>6, <1>7 DEF HoldInv

(* What the handler reads agrees with the record (handler.go:184-197).     *)
LEMMA ReadsStatus ==
  ASSUME NEW res \in Resolution, NEW st, NEW by, Tells(res, st, by)
  PROVE  Reads(res) \in {"granted", "refused", "expired"} /\ Answers(Reads(res), st, by)
  BY DEF Reads, Tells, Answers, Resolution

(* The receive in the parked handler (handler.go:182).                     *)
LEMMA ReceiveFacts ==
  ASSUME HoldInv, NEW h \in Hold, Receive(h)
  PROVE  /\ h \in Resolved
         /\ \E w \in {"granted", "refused", "expired"} :
               waiter' = [waiter EXCEPT ![h] = w] /\ Answers(w, status[h], resolvedBy[h])
         /\ buffer' = [buffer EXCEPT ![h] = <<>>]
<1>0. HoldTypeOK /\ ChannelState
  BY DEF HoldInv
<1>1. buffer[h] # <<>> /\ h \in Resolved
  BY <1>0 DEF Receive, ChannelState
<1>2. Len(buffer[h]) = 1 /\ Tells(Head(buffer[h]), status[h], resolvedBy[h])
  BY <1>0, <1>1 DEF ChannelState
<1>3. buffer[h] \in Seq(Resolution)
  BY <1>0 DEF HoldTypeOK
<1>4. Head(buffer[h]) \in Resolution /\ Tail(buffer[h]) \in Seq(Resolution)
      /\ Len(Tail(buffer[h])) = 0
  BY <1>1, <1>2, <1>3
<1>5. Tail(buffer[h]) = <<>>
  <2>1. PICK t \in Seq(Resolution) : t = Tail(buffer[h]) /\ Len(t) = 0
    BY <1>4, Zenon
  <2>2. DOMAIN t = 1..0 /\ t = [i \in 1..0 |-> t[i]]
    BY <2>1
  <2>3. t = <<>>
    BY <2>2
  <2> QED BY <2>1, <2>3, Zenon
<1>6. waiter' = [waiter EXCEPT ![h] = Reads(Head(buffer[h]))]
  BY <1>1 DEF Receive
<1>7. buffer' = [buffer EXCEPT ![h] = Tail(buffer[h])]
  BY <1>0, <1>1 DEF Receive, HoldTypeOK
<1> QED
  BY <1>1, <1>2, <1>4, <1>5, <1>6, <1>7, ReadsStatus, Zenon

(* The handler takes the decision off the channel.                         *)
LEMMA ReceiveInv ==
  ASSUME HoldInv, NEW h \in Hold, Receive(h)
  PROVE  HoldInv'
<1>0. HoldTypeOK /\ OneResolver /\ ChannelState /\ ReplyMatchesRecord
  BY DEF HoldInv
<1>1. PICK w \in {"granted", "refused", "expired"} :
        waiter' = [waiter EXCEPT ![h] = w] /\ Answers(w, status[h], resolvedBy[h])
  BY ReceiveFacts, Zenon
<1>2. /\ h \in Resolved /\ waiter[h] = "waiting"
      /\ buffer' = [buffer EXCEPT ![h] = <<>>]
      /\ UNCHANGED <<pending, status, resolvedBy, history, closed, task>>
  BY ReceiveFacts, Zenon DEF Receive
<1>3. HoldTypeOK'
  BY <1>0, <1>1, <1>2 DEF HoldTypeOK
<1>4. /\ waiter'[h] = w /\ buffer'[h] = <<>>
      /\ \A g \in Hold \ {h} : waiter'[g] = waiter[g] /\ buffer'[g] = buffer[g]
  BY <1>0, <1>1, <1>2, SMTT(40) DEF HoldTypeOK
<1>5. \A x \in Task : task[x].pc = "send" => task[x].hold # h
  BY <1>0, <1>2, SMTT(40) DEF OneResolver, Receive
<1>6. OneResolver'
  BY <1>0, <1>2, <1>4, <1>5, SMTT(40) DEF OneResolver, InHand, Resolved
<1>7. ChannelState' /\ ReplyMatchesRecord'
  BY <1>0, <1>1, <1>2, <1>4, SMTT(40) DEF ChannelState, Resolved, ReplyMatchesRecord, Answers
<1> QED
  BY <1>3, <1>6, <1>7 DEF HoldInv

-----------------------------------------------------------------------------
(* An admin's or a timer's resolution, as one case.                        *)
LEMMA AdminInv ==
  ASSUME HoldInv, NEW a \in Admin, NEW h \in Hold, NEW ok \in BOOLEAN, NEW by \in Approver,
         AdminResolve(a, h, ok, by)
  PROVE  HoldInv'
<1> DEFINE res == [approved |-> ok, by |-> by]
           st == IF ok THEN "approved" ELSE "denied"
<1>1. res \in Resolution /\ st \in Status /\ Tells(res, st, by)
  BY DEF Resolution, Status, Tells
<1>2. a \in Task /\ a \notin Hold
  BY HoldAssumption DEF Task
<1>3. h \in pending /\ task[a].pc \in {"idle", "sleep"} /\ Resolve(a, h, st, by, res)
  BY DEF AdminResolve
<1> HIDE DEF res, st
<1> QED
  BY <1>1, <1>2, <1>3, ResolveInv, Zenon

(* The timer of a hold finds it in the map, or finds it gone.              *)
LEMMA TimerInv ==
  ASSUME HoldInv, NEW h \in Hold, TimerFires(h)
  PROVE  HoldInv'
<1> DEFINE res == [approved |-> FALSE, by |-> "timeout"]
<1>1. CASE h \in pending
  <2>1. res \in Resolution /\ "timeout" \in Status /\ Tells(res, "timeout", Nobody)
    BY DEF Resolution, Status, Tells
  <2>2. h \in Task /\ task[h].pc \in {"idle", "sleep"} /\ Resolve(h, h, "timeout", Nobody, res)
    BY <1>1 DEF TimerFires, Task
  <2> HIDE DEF res
  <2> QED
    BY <1>1, <2>1, <2>2, ResolveInv
<1>2. CASE h \notin pending
  BY <1>2, IdleTimerInv DEF TimerFires
<1> QED
  BY <1>1, <1>2

(* Every step of the manager preserves the invariant.                      *)
LEMMA HoldNextInv == HoldInv /\ [HoldNext]_holdVars => HoldInv'
<1> SUFFICES ASSUME HoldInv, [HoldNext]_holdVars PROVE HoldInv'
  OBVIOUS
<1>1. ASSUME NEW a \in Admin, NEW h \in Hold, NEW ok \in BOOLEAN, NEW by \in Approver,
             AdminResolve(a, h, ok, by)
      PROVE  HoldInv'
  BY <1>1, AdminInv
<1>2. ASSUME NEW h \in Hold, TimerFires(h) PROVE HoldInv'
  BY <1>2, TimerInv
<1>3. ASSUME NEW x \in Task, Send(x) PROVE HoldInv'
  BY <1>3, SendInv
<1>4. ASSUME NEW x \in Task, Close(x) PROVE HoldInv'
  BY <1>4, CloseInv
<1>5. ASSUME NEW h \in Hold, Park(h) PROVE HoldInv'
  BY <1>5, ParkInv
<1>6. ASSUME NEW h \in Hold, Receive(h) PROVE HoldInv'
  BY <1>6, ReceiveInv, SMTT(40)
<1>7. CASE UNCHANGED holdVars
  BY <1>7, Zenon DEF holdVars, HoldInv, HoldTypeOK, OneResolver, InHand, ChannelState, Resolved,
              ReplyMatchesRecord
<1> QED
  BY <1>1, <1>2, <1>3, <1>4, <1>5, <1>6, <1>7, SMTT(40) DEF HoldNext, QueueStep, AdminStep

(* The invariant, in every reachable state.                                *)
LEMMA HoldInvariant == HoldSpec => []HoldInv
  BY HoldInitInv, HoldNextInv, PTL DEF HoldSpec

(* The queue's state has its type at all times.                            *)
THEOREM HoldTypeCorrect == HoldSpec => []HoldTypeOK
<1>1. HoldInv => HoldTypeOK
  BY DEF HoldInv
<1> QED
  BY <1>1, HoldInvariant, PTL

(* For any number of admins racing any number of timers, a goroutine that  *)
(* resolved a hold finds its channel open and empty, so resolve and        *)
(* startTimeout neither block nor panic (manager.go:164-165, 190-191).     *)
THEOREM ResolversNeverPanic == HoldSpec => []SendReady
<1>1. HoldInv => SendReady
  BY DEF HoldInv, OneResolver, SendReady
<1> QED
  BY <1>1, HoldInvariant, PTL

(* Whatever names admins go by, the handler forwards, refuses or reports a *)
(* timeout as the history records the hold and who resolved it             *)
(* (handler.go:184-197, manager.go:147-155).                               *)
THEOREM RepliesMatch == HoldSpec => []ReplyMatchesRecord
<1>1. HoldInv => ReplyMatchesRecord
  BY SMTT(40) DEF HoldInv
<1> QED
  BY <1>1, HoldInvariant, PTL

-----------------------------------------------------------------------------
(* The refinement: status is the verdict, and what the parked handler      *)
(* received is the answer.                                                 *)
AnswerOf ==
    [h \in Hold |-> IF waiter[h] = "expired" THEN "refused"
                    ELSE IF waiter[h] = "waiting" THEN "none" ELSE waiter[h]]

(* The refinement of HoldContract: initial states.                         *)
LEMMA InitContract == HoldInit => Contract!Init
  BY SMTT(40) DEF HoldInit, Contract!Init

(* Every step of the manager is a step of the contract, or none of its     *)
(* business.                                                               *)
LEMMA StepContract == HoldInv /\ [HoldNext]_holdVars => [Contract!Next]_(Contract!vars)
<1> SUFFICES ASSUME HoldInv, [HoldNext]_holdVars PROVE [Contract!Next]_(Contract!vars)
  OBVIOUS
<1> USE DEF Contract!vars, Contract!Verdict
<1>0. HoldTypeOK /\ ChannelState
  BY DEF HoldInv
<1>1. ASSUME NEW h \in Hold, NEW st \in {"approved", "denied", "timeout"}, h \in pending,
             status' = [status EXCEPT ![h] = st], UNCHANGED waiter
      PROVE  Contract!Next
  <2>1. Contract!Decide(h, st)
    BY <1>0, <1>1 DEF Contract!Decide, ChannelState
  <2> QED
    BY <2>1 DEF Contract!Next
<1>2. ASSUME NEW a \in Admin, NEW h \in Hold, NEW ok \in BOOLEAN, NEW by \in Approver,
             AdminResolve(a, h, ok, by)
      PROVE  Contract!Next
  BY <1>1, <1>2, Zenon DEF AdminResolve, Resolve
<1>3. ASSUME NEW h \in Hold, TimerFires(h) PROVE [Contract!Next]_(Contract!vars)
  BY <1>1, <1>3, SMTT(40) DEF TimerFires, Resolve
<1>4. ASSUME NEW x \in Task, Send(x) \/ Close(x) PROVE UNCHANGED Contract!vars
  BY <1>4 DEF Send, Close
<1>5. ASSUME NEW h \in Hold, Park(h) PROVE Contract!Next
  <2>1. AnswerOf' = AnswerOf
    BY <1>0, <1>5 DEF Park, ChannelState, HoldTypeOK, AnswerOf
  <2>2. Contract!Open(h)
    BY <1>5, <2>1 DEF Park, Contract!Open, AnswerOf
  <2> QED
    BY <2>2 DEF Contract!Next
<1>6. ASSUME NEW h \in Hold, Receive(h) PROVE Contract!Next
  <2>1. h \in Resolved /\ waiter[h] = "waiting" /\ UNCHANGED status
    BY <1>6, ReceiveFacts, Zenon DEF Receive
  <2>2. AnswerOf' = [AnswerOf EXCEPT ![h] = IF status[h] = "approved" THEN "granted" ELSE "refused"]
    <3>1. PICK w \in {"granted", "refused", "expired"} :
            /\ waiter' = [waiter EXCEPT ![h] = w]
            /\ w = "granted" <=> status[h] = "approved"
      BY <1>6, ReceiveFacts DEF Answers
    <3>2. waiter'[h] = w /\ \A g \in Hold \ {h} : waiter'[g] = waiter[g]
      BY <1>0, <3>1, SMTT(40) DEF HoldTypeOK
    <3> QED
      BY <3>1, <3>2, Zenon DEF AnswerOf
  <2>3. Contract!Answer(h)
    BY <2>1, <2>2 DEF Contract!Answer, Contract!Means, AnswerOf, Resolved
  <2> QED
    BY <2>3 DEF Contract!Next
<1>7. CASE UNCHANGED holdVars
  BY <1>7 DEF holdVars
<1> QED
  BY <1>2, <1>3, <1>4, <1>5, <1>6, <1>7, Zenon DEF HoldNext, QueueStep, AdminStep

(* The hold manager keeps the promise of HoldContract: one verdict per     *)
(* hold, never revised, and the answer it stands for (manager.go:64-192).  *)
THEOREM HoldsKeepContract == HoldSpec => ContractSpec
  BY InitContract, StepContract, HoldInvariant, PTL
     DEF HoldSpec, ContractSpec, Contract!Spec


-----------------------------------------------------------------------------
(* A set of natural numbers that has members has a least one.              *)
LEMMA LeastExists ==
    ASSUME NEW S \in SUBSET Nat, S # {}
    PROVE  \E j \in S : \A m \in S : j <= m
<1>1. PICK R : R = OpToRel(<, Nat)
  BY Zenon
<1>2. IsWellFoundedOn(R, Nat)
  BY <1>1, NatLessThanWellFounded, Zenon
<1>3. \A x, y \in Nat : y < x => <<y, x>> \in R
  BY <1>1 DEF OpToRel
<1>4. PICK j \in S : \A m \in S : ~(<<m, j>> \in R)
  BY <1>2, WFMin, Zenon
<1>5. \A m \in S : ~(m < j)
  BY <1>3, <1>4, Zenon
<1> QED BY <1>5

(* It is the one that CHOOSE takes.                                        *)
LEMMA LeastNatural ==
    ASSUME NEW S \in SUBSET Nat, S # {}
    PROVE  (CHOOSE j \in S : \A m \in S : j <= m) \in S
  BY LeastExists, ZenonT(40)

(* The states of a request: as the gates know them, and those this handler *)
(* adds.                                                                   *)
HeldState ==
    [pc : {"held", "rates", "budget", "record", "velocity", "forward"},
     call : Call, rule : Rule, hold : Hold]

HandlerState ==
    CallerState
    \union [pc : {"refused"}, why : {"hold_timeout", "scope_violation", "aborted"}]
    \union [pc : {"scope"}, call : Call, rule : Rule]
    \union HeldState

(* A request that waits on a hold, or was let through by one.              *)
OnHold(x) == x.pc \in Charging \union {"held"} /\ x.rule.action = "HOLD"

(* What a request, a hold and what was read from its channel have to do    *)
(* with each other.  A hold is one request's only.                         *)
Linked(x, w) ==
    /\ x.pc = "held" => x.rule.action = "HOLD" /\ w[x.hold] = "waiting"
    /\ x.pc = "scope" => x.rule.action # "HOLD"
    /\ x.pc \in Charging /\ x.rule.action = "HOLD" => x \in HeldState /\ w[x.hold] = "granted"

OneCallPerHold ==
    \A c, d \in Caller :
        c # d /\ OnHold(caller[c]) /\ OnHold(caller[d]) => caller[c].hold # caller[d].hold

HandlerInv ==
    /\ HoldInv
    /\ caller \in [Caller -> HandlerState]
    /\ \A c \in Caller : Linked(caller[c], waiter)
    /\ OneCallPerHold

-----------------------------------------------------------------------------
(* What the engine decides, and by which rule (rules.go:46-132).           *)
LEMMA DecidedBy ==
    ASSUME NEW k \in Call
    PROVE  /\ Decided[k].held =>
                 Rules[Decided[k].index] \in Rule /\ Rules[Decided[k].index].action = "HOLD"
           /\ Decided[k].allowed =>
                 Rules[Decided[k].index] \in Rule /\ Rules[Decided[k].index].action \in {"ALLOW", "SCOPE"}
           /\ Decided[k].held => ~Decided[k].allowed
<1>1. PICK q : q = Request(k)
  OBVIOUS
<1>2. PICK stopping : stopping = {i \in DOMAIN Rules : Stops(Rules[i], q)}
  BY Zenon
<1>3. PICK d : d = Evaluate(Rules, q) /\ d = Decided[k]
  BY <1>1 DEF Decided
<1>4. \A class, i : /\ Decision(class, i).allowed <=> class \in {"allowed", "policy_scoped"}
                    /\ Decision(class, i).held <=> class = "policy_held"
                    /\ Decision(class, i).index = i
  BY Zenon DEF Decision
<1>5. CASE stopping = {}
  <2>1. d = Decision("default_deny", 0)
    BY <1>2, <1>3, <1>5, SMTT(40) DEF Evaluate
  <2> QED BY <1>3, <1>4, <2>1, SMTT(40)
<1>6. CASE stopping # {}
  <2>1. stopping \in SUBSET Nat
    BY <1>2, ToolsCallAssumption
  <2>2. PICK i \in stopping : d = Decision(ReasonClass(Rules[i], q), i)
    BY <1>2, <1>3, <1>6, <2>1, LeastNatural, SMTT(40) DEF Evaluate
  <2>3. i \in DOMAIN Rules /\ Rules[i] \in Rule /\ Stops(Rules[i], q)
    BY <1>2, <2>2, ToolsCallAssumption
  <2>4. PICK r : r = Rules[i]
    OBVIOUS
  <2>5. PICK class : class = ReasonClass(r, q)
    OBVIOUS
  <2>6. /\ class = "policy_held" => r.action = "HOLD"
        /\ class \in {"allowed", "policy_scoped"} => r.action \in {"ALLOW", "SCOPE"}
    BY <2>3, <2>4, <2>5, SMTT(40) DEF ReasonClass, Stops, Actions
  <2> QED BY <1>3, <1>4, <2>2, <2>3, <2>4, <2>5, <2>6, SMTT(40)
<1> QED BY <1>5, <1>6, Zenon

-----------------------------------------------------------------------------
(* One request moves, and the queue may.                                   *)
LEMMA OneMoves ==
    ASSUME HandlerInv, HoldInv', NEW c \in Caller, NEW x \in HandlerState,
           caller' = [caller EXCEPT ![c] = x], Linked(x, waiter'),
           \A d \in Caller \ {c} : Linked(caller[d], waiter'),
           \A d \in Caller \ {c} : OnHold(x) /\ OnHold(caller[d]) => x.hold # caller[d].hold
    PROVE  HandlerInv'
<1>1. caller \in [Caller -> HandlerState] /\ OneCallPerHold
  BY DEF HandlerInv
<1>2. caller'[c] = x /\ \A d \in Caller \ {c} : caller'[d] = caller[d]
  BY <1>1
<1>3. caller' \in [Caller -> HandlerState]
  BY <1>1
<1>4. \A d \in Caller : Linked(caller'[d], waiter')
  BY <1>2, SMTT(40)
<1>5. OneCallPerHold'
  <2> SUFFICES ASSUME NEW a \in Caller, NEW b \in Caller, a # b,
                      OnHold(caller'[a]), OnHold(caller'[b])
               PROVE  caller'[a].hold # caller'[b].hold
    BY DEF OneCallPerHold
  <2>1. CASE a = c
    BY <1>2, <2>1, SMTT(40)
  <2>2. CASE b = c
    BY <1>2, <2>2, SMTT(40)
  <2>3. CASE a # c /\ b # c
    BY <1>1, <1>2, <2>3, SMTT(40) DEF OneCallPerHold
  <2> QED BY <2>1, <2>2, <2>3, SMTT(40)
<1> QED BY <1>3, <1>4, <1>5, SMTT(40) DEF HandlerInv

(* The same while the queue rests.                                         *)
LEMMA MovesQuietly ==
    ASSUME HandlerInv, UNCHANGED holdVars, NEW c \in Caller, NEW x \in HandlerState,
           caller' = [caller EXCEPT ![c] = x], Linked(x, waiter),
           \A d \in Caller \ {c} : OnHold(x) /\ OnHold(caller[d]) => x.hold # caller[d].hold
    PROVE  HandlerInv'
<1>1. HoldInv'
  BY HoldNextInv, SMTT(40) DEF HandlerInv
<1>2. waiter' = waiter
  BY DEF holdVars
<1>3. \A d \in Caller \ {c} : Linked(caller[d], waiter')
  BY <1>2 DEF HandlerInv
<1>4. Linked(x, waiter')
  BY <1>2
<1> QED BY <1>1, <1>3, <1>4, OneMoves, ZenonT(40)

Reasons == Why \union {"hold_timeout", "scope_violation", "aborted"}

(* A refusal, before any hold, after one or while charging.                *)
LEMMA RefuseKeeps ==
    ASSUME HandlerInv, UNCHANGED holdVars, NEW c \in Caller, NEW why \in Reasons, Refuse(c, why)
    PROVE  HandlerInv'
<1> DEFINE x == [pc |-> "refused", why |-> why]
<1>1. x \in HandlerState
  BY DEF HandlerState, CallerState, Reasons
<1>2. x.pc = "refused"
  BY SMTT(40)
<1>3. Linked(x, waiter) /\ ~OnHold(x)
  BY <1>2 DEF Linked, OnHold, Charging
<1>4. caller' = [caller EXCEPT ![c] = x]
  BY DEF Refuse
<1> HIDE DEF x
<1> QED BY <1>1, <1>3, <1>4, MovesQuietly, Zenon

(* What a request past its decision carries, and what it still does after  *)
(* a step of the charging.                                                 *)
LEMMA ChargedState ==
    ASSUME NEW x \in HandlerState, x.pc \in Charging, NEW pc \in Charging
    PROVE  /\ x.call \in Call /\ x.rule \in Rule
           /\ [x EXCEPT !.pc = pc] \in HandlerState
           /\ [x EXCEPT !.pc = pc].pc = pc
           /\ [x EXCEPT !.pc = pc].call = x.call
           /\ [x EXCEPT !.pc = pc].rule = x.rule
           /\ x \in HeldState => /\ [x EXCEPT !.pc = pc] \in HeldState
                                 /\ [x EXCEPT !.pc = pc].hold = x.hold
<1> USE DEF Charging
<1>1. CASE x \in [pc : Charging, call : Call, rule : Rule]
  <2>1. [x EXCEPT !.pc = pc] \in [pc : Charging, call : Call, rule : Rule]
    BY <1>1
  <2>2. x \notin HeldState
    BY <1>1 DEF HeldState
  <2> QED BY <1>1, <2>1, <2>2, SMTT(40) DEF HandlerState, CallerState
<1>2. CASE x \in HeldState
  <2>1. [x EXCEPT !.pc = pc] \in HeldState
    BY <1>2 DEF HeldState
  <2> QED BY <1>2, <2>1 DEF HandlerState, HeldState
<1> QED BY <1>1, <1>2 DEF HandlerState, CallerState, Idle

(* A step of the charging.                                                 *)
LEMMA GotoKeeps ==
    ASSUME HandlerInv, UNCHANGED holdVars, NEW c \in Caller, caller[c].pc \in Charging,
           NEW pc \in Charging, Goto(c, pc)
    PROVE  HandlerInv'
<1>1. PICK x : x = [caller[c] EXCEPT !.pc = pc]
  BY Zenon
<1>2. caller[c] \in HandlerState /\ Linked(caller[c], waiter) /\ caller \in [Caller -> HandlerState]
  BY DEF HandlerInv
<1>3. caller' = [caller EXCEPT ![c] = x]
  BY <1>1, <1>2 DEF Goto
<1>4. /\ x \in HandlerState /\ x.pc = pc /\ x.rule = caller[c].rule
      /\ caller[c] \in HeldState => x \in HeldState /\ x.hold = caller[c].hold
  BY <1>1, <1>2, ChargedState, SMTT(40)
<1>5. Linked(x, waiter)
  BY <1>2, <1>4, SMTT(40) DEF Linked, Charging
<1>6. OnHold(x) => OnHold(caller[c]) /\ x.hold = caller[c].hold
  BY <1>2, <1>4, SMTT(40) DEF OnHold, Linked
<1>7. \A d \in Caller \ {c} : OnHold(x) /\ OnHold(caller[d]) => x.hold # caller[d].hold
  BY <1>6, SMTT(40) DEF HandlerInv, OneCallPerHold
<1> QED BY <1>3, <1>4, <1>5, <1>7, MovesQuietly, Zenon

(* Admission (gates.go:114-126).                                           *)
LEMMA AdmitKeeps ==
    ASSUME HandlerInv, UNCHANGED holdVars, NEW c \in Caller, NEW k \in Call, Admit(c, k)
    PROVE  HandlerInv'
<1>1. CASE Refuse(c, "tool_not_registered")
  BY <1>1, RefuseKeeps, SMTT(40) DEF Reasons, Why
<1>2. ASSUME NEW pc \in {"trip", "policy"},
             caller' = [caller EXCEPT ![c] = [pc |-> pc, call |-> k]]
      PROVE  HandlerInv'
  <2> DEFINE x == [pc |-> pc, call |-> k]
  <2>1. x \in HandlerState /\ x.pc = pc
    BY SMTT(40) DEF HandlerState, CallerState
  <2>2. Linked(x, waiter) /\ ~OnHold(x)
    BY <2>1, Zenon DEF Linked, OnHold, Charging
  <2>3. caller' = [caller EXCEPT ![c] = x]
    BY <1>2
  <2> HIDE DEF x
  <2> QED BY <2>1, <2>2, <2>3, MovesQuietly, Zenon
<1>3. CASE ~(k.tool # NoTool /\ k.tool \notin Registered)
  <2>1. CASE HasBreaker /\ ~Allow(k.session)
    BY <1>2, <1>3, <2>1, SMTT(40) DEF Admit
  <2>2. CASE ~(HasBreaker /\ ~Allow(k.session))
    BY <1>2, <1>3, <2>2, SMTT(40) DEF Admit
  <2> QED BY <2>1, <2>2, SMTT(40)
<1> QED BY <1>1, <1>3, SMTT(40) DEF Admit

(* A step of the gates after the decision, and the end of a request.       *)
LEMMA ChargeKeeps ==
    ASSUME HandlerInv, UNCHANGED holdVars, NEW c \in Caller,
           Trip(c) \/ ChargeRates(c) \/ ChargeBudget(c) \/ RecordCall(c) \/ ChargeVelocity(c)
    PROVE  HandlerInv'
<1>1. CASE Trip(c)
  BY <1>1, RefuseKeeps, Zenon DEF Trip, Reasons, Why
<1>2. CASE ChargeRates(c)
  BY <1>2, RefuseKeeps, GotoKeeps, ZenonT(40) DEF ChargeRates, Reasons, Why, Charging
<1>3. CASE ChargeBudget(c)
  BY <1>3, RefuseKeeps, GotoKeeps, ZenonT(40) DEF ChargeBudget, Reasons, Why, Charging
<1>4. CASE RecordCall(c)
  BY <1>4, RefuseKeeps, GotoKeeps, Zenon DEF RecordCall, Reasons, Why, Charging
<1>5. CASE ChargeVelocity(c)
  BY <1>5, RefuseKeeps, GotoKeeps, Zenon DEF ChargeVelocity, Reasons, Why, Charging
<1> QED BY <1>1, <1>2, <1>3, <1>4, <1>5, SMTT(40)

(* A request that is answered is out of the handler.                       *)
LEMMA FinishKeeps ==
    ASSUME HandlerInv, UNCHANGED holdVars, NEW c \in Caller, Finish(c)
    PROVE  HandlerInv'
<1>1. Idle \in HandlerState /\ Idle.pc = "idle"
  BY DEF HandlerState, CallerState, Idle
<1>2. Linked(Idle, waiter) /\ ~OnHold(Idle)
  BY <1>1, SMTT(40) DEF Linked, OnHold, Charging
<1> QED BY <1>1, <1>2, MovesQuietly, Zenon DEF Finish

(* The decision, which may park the call (handler.go:161-182).             *)
LEMMA EvaluateKeeps ==
    ASSUME HandlerInv, NEW c \in Caller, EvaluatePolicy(c)
    PROVE  HandlerInv'
<1> DEFINE k == caller[c].call
           d == Decided[k]
           r == Rules[d.index]
<1>1. caller[c] \in HandlerState /\ caller[c].pc = "policy"
  BY ZenonT(40) DEF HandlerInv, EvaluatePolicy
<1>2. k \in Call
  BY <1>1, SMTT(40) DEF HandlerState, CallerState, HeldState, Idle
<1>3. CASE d.held /\ HasHolds /\ r.hold
  <2>1. PICK h \in Hold : /\ Park(h)
                          /\ caller' = [caller EXCEPT ![c] =
                                [pc |-> "held", call |-> k, rule |-> r, hold |-> h]]
    BY <1>3, Zenon DEF EvaluatePolicy
  <2>2. PICK x : x = [pc |-> "held", call |-> k, rule |-> r, hold |-> h]
    BY ZenonT(40)
  <2>3. r \in Rule /\ r.action = "HOLD"
    BY <1>2, <1>3, DecidedBy, ZenonT(40)
  <2>4. /\ x \in HandlerState /\ x.pc = "held" /\ x.rule = r /\ x.hold = h
        /\ caller' = [caller EXCEPT ![c] = x]
    BY <1>2, <2>1, <2>2, <2>3, Zenon DEF HandlerState, HeldState
  <2>5. HoldInv'
    BY <2>1, ParkInv, SMTT(40) DEF HandlerInv
  <2>6. /\ waiter[h] = "none"
        /\ waiter' = [waiter EXCEPT ![h] = "waiting"]
        /\ waiter \in [Hold -> {"none", "waiting", "granted", "refused", "expired"}]
    BY <2>1, SMTT(40) DEF Park, HandlerInv, HoldInv, ChannelState, HoldTypeOK
  <2>7. waiter'[h] = "waiting" /\ \A g \in Hold \ {h} : waiter'[g] = waiter[g]
    BY <2>6, SMTT(40)
  <2>8. Linked(x, waiter')
    BY <2>3, <2>4, <2>7, ZenonT(40) DEF Linked, Charging
  <2>9. ASSUME NEW e \in Caller \ {c}
        PROVE  Linked(caller[e], waiter') /\ (OnHold(caller[e]) => caller[e].hold # h)
    <3>1. caller[e] \in HandlerState /\ Linked(caller[e], waiter)
      BY <2>9, SMTT(40) DEF HandlerInv
    <3>2. caller[e].pc = "held" => caller[e].hold \in Hold
      BY <3>1, SMTT(40) DEF HandlerState, CallerState, HeldState, Idle
    <3>3. OnHold(caller[e]) => caller[e].hold \in Hold /\ caller[e].hold # h
      BY <2>6, <3>1, <3>2, SMTT(40) DEF OnHold, Linked, HeldState
    <3> QED BY <2>7, <3>1, <3>3, Zenon DEF Linked, OnHold, Charging
  <2> QED BY <2>4, <2>5, <2>8, <2>9, OneMoves, Zenon
<1>4. CASE ~(d.held /\ HasHolds /\ r.hold)
  <2>1. UNCHANGED holdVars
    BY <1>4, Zenon DEF EvaluatePolicy
  <2>2. CASE d.allowed
    <3>1. PICK pc \in {"scope", "rates"} :
             caller' = [caller EXCEPT ![c] = [pc |-> pc, call |-> k, rule |-> r]]
      BY <1>4, <2>2, ZenonT(40) DEF EvaluatePolicy
    <3>2. r \in Rule /\ r.action # "HOLD"
      BY <1>2, <2>2, DecidedBy, Zenon
    <3>3. PICK x : x = [pc |-> pc, call |-> k, rule |-> r]
      BY Zenon
    <3>4. /\ x \in HandlerState /\ x.pc = pc /\ x.rule = r
          /\ caller' = [caller EXCEPT ![c] = x]
      BY <1>2, <3>1, <3>2, <3>3, Zenon DEF HandlerState, CallerState
    <3>5. Linked(x, waiter) /\ ~OnHold(x)
      BY <3>2, <3>4, ZenonT(40) DEF Linked, OnHold, Charging
    <3> QED BY <2>1, <3>4, <3>5, MovesQuietly, Zenon
  <2>3. CASE ~d.allowed
    BY <1>4, <2>1, <2>3, RefuseKeeps, Zenon DEF EvaluatePolicy, Reasons, Why
  <2> QED BY <2>2, <2>3, SMTT(40)
<1> QED BY <1>3, <1>4, Zenon

(* The answer of the queue (handler.go:182-208).                           *)
LEMMA AwaitFacts ==
    ASSUME HandlerInv, NEW c \in Caller, AwaitHold(c)
    PROVE  /\ caller[c] \in HeldState /\ caller[c].hold \in Hold
           /\ Receive(caller[c].hold)
           /\ \E w : waiter' = [waiter EXCEPT ![caller[c].hold] = w]
           /\ \/ /\ waiter' = [waiter EXCEPT ![caller[c].hold] = "granted"]
                 /\ Goto(c, "rates")
              \/ Refuse(c, "hold_timeout") \/ Refuse(c, "policy")
<1> DEFINE h == caller[c].hold
<1>1. caller[c] \in HandlerState /\ caller[c].pc = "held" /\ Receive(h)
  BY SMTT(40) DEF HandlerInv, AwaitHold
<1>2. caller[c] \in HeldState /\ h \in Hold
  BY <1>1, SMTT(40) DEF HandlerState, CallerState, HeldState, Idle
<1>3. waiter \in [Hold -> {"none", "waiting", "granted", "refused", "expired"}]
  BY DEF HandlerInv, HoldInv, HoldTypeOK
<1>4. PICK w \in {"granted", "refused", "expired"} : waiter' = [waiter EXCEPT ![h] = w]
  BY <1>1, <1>2, ReceiveFacts, Zenon DEF HandlerInv
<1>5. waiter'[h] = w
  BY <1>2, <1>3, <1>4, SMTT(40)
<1>6. CASE w = "granted"
  <2>1. Goto(c, "rates")
    BY <1>5, <1>6 DEF AwaitHold
  <2> QED BY <1>1, <1>2, <1>4, <1>6, <2>1, Zenon
<1>7. CASE w = "expired"
  <2>1. Refuse(c, "hold_timeout")
    BY <1>5, <1>7 DEF AwaitHold
  <2> QED BY <1>1, <1>2, <1>4, <1>7, <2>1, Zenon
<1>8. CASE w = "refused"
  <2>1. Refuse(c, "policy")
    BY <1>5, <1>8, SMTT(40) DEF AwaitHold
  <2> QED BY <1>1, <1>2, <1>4, <1>8, <2>1, Zenon
<1> QED BY <1>4, <1>6, <1>7, <1>8, Zenon

(* The handler reads the decision of its own hold, which                   *)
(* ReplyMatchesRecord ties to what the map recorded.                       *)
LEMMA AwaitKeeps ==
    ASSUME HandlerInv, NEW c \in Caller, AwaitHold(c)
    PROVE  HandlerInv'
<1>1. PICK h \in Hold : h = caller[c].hold
  BY AwaitFacts, SMTT(40)
<1>2. PICK w : waiter' = [waiter EXCEPT ![h] = w]
  BY <1>1, AwaitFacts, SMTT(40)
<1>3. HoldInv'
  BY <1>1, AwaitFacts, ReceiveInv, SMTT(40) DEF HandlerInv
<1>4. /\ caller[c] \in HeldState /\ Linked(caller[c], waiter) /\ caller[c].pc = "held"
      /\ caller \in [Caller -> HandlerState]
      /\ waiter \in [Hold -> {"none", "waiting", "granted", "refused", "expired"}]
  BY AwaitFacts, ZenonT(40) DEF HandlerInv, HoldInv, HoldTypeOK, AwaitHold
<1>5. OnHold(caller[c])
  BY <1>4, SMTT(40) DEF OnHold, Linked
<1>6. waiter'[h] = w /\ \A g \in Hold \ {h} : waiter'[g] = waiter[g]
  BY <1>2, <1>4, SMTT(40)
<1>7. ASSUME NEW d \in Caller \ {c}
      PROVE  Linked(caller[d], waiter') /\ (OnHold(caller[d]) => caller[d].hold # h)
  <2>1. caller[d] \in HandlerState /\ Linked(caller[d], waiter)
    BY <1>7, SMTT(40) DEF HandlerInv
  <2>2. OnHold(caller[d]) => caller[d].hold # h
    BY <1>1, <1>5, <1>7, SMTT(40) DEF HandlerInv, OneCallPerHold
  <2>3. caller[d].pc = "held" => caller[d].hold \in Hold
    BY <2>1, SMTT(40) DEF HandlerState, CallerState, HeldState, Idle
  <2>4. OnHold(caller[d]) => caller[d].hold \in Hold
    BY <2>1, <2>3, SMTT(40) DEF OnHold, Linked, HeldState
  <2> QED BY <1>6, <2>1, <2>2, <2>4, Zenon DEF Linked, OnHold, Charging
<1>8. CASE Goto(c, "rates") /\ w = "granted"
  <2>1. PICK x : x = [caller[c] EXCEPT !.pc = "rates"]
    BY Zenon
  <2>2. x \in HeldState /\ x.pc = "rates" /\ x.hold = h
    BY <1>1, <1>4, <2>1, SMTT(40) DEF HeldState
  <2>3. x \in HandlerState /\ caller' = [caller EXCEPT ![c] = x]
    BY <1>4, <1>8, <2>1, <2>2, SMTT(40) DEF HandlerState, Goto
  <2>4. Linked(x, waiter')
    BY <1>6, <1>8, <2>2, SMTT(40) DEF Linked, Charging
  <2> QED BY <1>3, <1>7, <2>2, <2>3, <2>4, OneMoves, Zenon
<1>9. ASSUME NEW why \in Reasons, Refuse(c, why) PROVE HandlerInv'
  <2>1. PICK x : x = [pc |-> "refused", why |-> why]
    BY Zenon
  <2>2. x \in HandlerState /\ x.pc = "refused" /\ caller' = [caller EXCEPT ![c] = x]
    BY <1>9, <2>1, SMTT(40) DEF HandlerState, CallerState, Reasons, Refuse
  <2>3. Linked(x, waiter') /\ ~OnHold(x)
    BY <2>2, SMTT(40) DEF Linked, OnHold, Charging
  <2> QED BY <1>3, <1>7, <2>2, <2>3, OneMoves, Zenon
<1>10. \/ waiter' = [waiter EXCEPT ![h] = "granted"] /\ Goto(c, "rates")
       \/ \E why \in Reasons : Refuse(c, why)
  BY <1>1, AwaitFacts, SMTT(40) DEF Reasons, Why
<1>11. waiter' = [waiter EXCEPT ![h] = "granted"] => w = "granted"
  BY <1>4, <1>6, SMTT(40)
<1> QED BY <1>8, <1>9, <1>10, <1>11, SMTT(40)

(* The rewriting of the arguments (handler.go:220-269).                    *)
LEMMA ScopeKeeps ==
    ASSUME HandlerInv, NEW c \in Caller, ScopeArguments(c)
    PROVE  HandlerInv'
<1>1. UNCHANGED holdVars /\ caller[c].pc = "scope"
  BY DEF ScopeArguments
<1>2. /\ caller \in [Caller -> HandlerState] /\ caller[c] \in HandlerState
      /\ Linked(caller[c], waiter)
  BY Zenon DEF HandlerInv
<1>3. caller[c] \in [pc : {"scope"}, call : Call, rule : Rule]
  BY <1>1, <1>2, SMTT(40) DEF HandlerState, CallerState, HeldState, Idle
<1>4. CASE Goto(c, "rates")
  <2>1. PICK x : x = [caller[c] EXCEPT !.pc = "rates"]
    BY Zenon
  <2>2. x \in HandlerState /\ x.pc = "rates" /\ x.rule = caller[c].rule
    BY <1>3, <2>1 DEF HandlerState, CallerState
  <2>3. caller' = [caller EXCEPT ![c] = x]
    BY <1>2, <1>4, <2>1, SMTT(40) DEF Goto
  <2>4. Linked(x, waiter) /\ ~OnHold(x)
    BY <1>1, <1>2, <2>2, SMTT(40) DEF Linked, OnHold, Charging
  <2> QED BY <1>1, <2>2, <2>3, <2>4, MovesQuietly, Zenon
<1>5. ASSUME NEW why \in {"scope_violation", "aborted"}, Refuse(c, why) PROVE HandlerInv'
  BY <1>1, <1>5, RefuseKeeps, SMTT(40) DEF Reasons
<1> QED BY <1>4, <1>5, Zenon DEF ScopeArguments

(* A step of the queue alone, or none of either.                           *)
LEMMA QueueKeeps ==
    ASSUME HandlerInv, UNCHANGED caller, QueueStep \/ UNCHANGED holdVars
    PROVE  HandlerInv'
<1>1. HoldInv'
  BY HoldNextInv, SMTT(40) DEF HandlerInv, HoldNext
<1>2. waiter' = waiter
  BY SMTT(40) DEF holdVars, QueueStep, AdminStep, AdminResolve, TimerFires, Send, Close, Resolve
<1> QED BY <1>1, <1>2 DEF HandlerInv, OneCallPerHold

(* No request is in the handler at the start.                              *)
LEMMA HandlerStarts == Init => HandlerInv
<1> SUFFICES ASSUME Init PROVE HandlerInv
  OBVIOUS
<1>1. HoldInv
  BY HoldInitInv, SMTT(40) DEF Init
<1>2. caller \in [Caller -> HandlerState] /\ \A c \in Caller : caller[c].pc = "idle"
  BY SMTT(40) DEF Init, GatesInit, HandlerState, CallerState, Idle
<1> QED BY <1>1, <1>2, Zenon DEF HandlerInv, Linked, OneCallPerHold, OnHold, Charging

(* Every step of the handler preserves the invariant.                      *)
LEMMA HandlerKeeps == HandlerInv /\ [Next]_vars => HandlerInv'
<1> SUFFICES ASSUME HandlerInv, [Next]_vars PROVE HandlerInv'
  BY SMTT(40)
<1>1. ASSUME NEW c \in Caller, NEW k \in Call, Admit(c, k), UNCHANGED holdVars PROVE HandlerInv'
  BY <1>1, AdmitKeeps, SMTT(40)
<1>2. ASSUME NEW c \in Caller, CallerStep(c) PROVE HandlerInv'
  BY <1>2, ChargeKeeps, FinishKeeps, EvaluateKeeps, AwaitKeeps, ScopeKeeps, SMTT(40) DEF CallerStep
<1>3. CASE QueueStep /\ UNCHANGED gatesVars
  BY <1>3, QueueKeeps, SMTT(40) DEF gatesVars
<1>4. CASE (SweepSessions \/ Clock) /\ UNCHANGED holdVars
  BY <1>4, QueueKeeps, SMTT(40) DEF SweepSessions, Clock
<1>5. CASE UNCHANGED vars
  BY <1>5, QueueKeeps, SMTT(40) DEF vars, gatesVars
<1> QED BY <1>1, <1>2, <1>3, <1>4, <1>5, SMTT(40) DEF Next

(* The invariant, in every reachable state.                                *)
LEMMA HandlerInvariant == Spec => []HandlerInv
  BY HandlerStarts, HandlerKeeps, PTL DEF Spec

(* A function overwritten at an argument that may lie outside its domain   *)
(* keeps its type.                                                         *)
LEMMA Overwritten ==
    ASSUME NEW S, NEW T, NEW f \in [S -> T], NEW x, NEW e, x \in S => e \in T
    PROVE  [f EXCEPT ![x] = e] \in [S -> T]
<1>1. CASE x \in S
  BY <1>1, SMTT(40)
<1>2. CASE x \notin S
  <2>1. f = [y \in S |-> f[y]] /\ \A y \in S : f[y] \in T
    BY SMTT(40)
  <2>2. [f EXCEPT ![x] = e] = f
    BY <1>2, <2>1, SMTT(40)
  <2> QED BY <2>2, Zenon
<1> QED BY <1>1, <1>2, Zenon

(* The breaker's part of the type invariant.                               *)
LEMMA SessionsTyped ==
    ASSUME BreakerTypeOK,
           \/ sessions' = sessions
           \/ Sweep
           \/ \E s : Record(s)
           \/ \E s : FirstTrip(s)
    PROVE  sessions' \in [Session -> SessionState]
<1>1. sessions \in [Session -> SessionState] /\ now \in Nat
  BY Zenon DEF BreakerTypeOK
<1>2. CASE Sweep
  <2>1. Unknown \in SessionState
    BY SMTT(40) DEF Unknown, SessionState
  <2> QED BY <1>1, <1>2, <2>1, SMTT(40) DEF Sweep
<1>3. ASSUME NEW s, Record(s), s # NoSession PROVE sessions' \in [Session -> SessionState]
  <2>1. PICK e : /\ sessions' = [sessions EXCEPT ![s] = e]
                 /\ e = IF sessions[s].known THEN [sessions[s] EXCEPT !.calls = @ + 1]
                        ELSE [known |-> TRUE, calls |-> 1, started |-> now, tripped |-> FALSE]
    BY <1>3, Zenon DEF Record
  <2>2. ASSUME s \in Session PROVE e \in SessionState
    <3>1. PICK r \in SessionState : r = sessions[s]
      BY <1>1, <2>2, Zenon
    <3> QED BY <1>1, <2>1, <3>1, SMTT(40) DEF SessionState
  <2>3. sessions' = [sessions EXCEPT ![s] = e]
    BY <2>1, Zenon
  <2> QED BY <1>1, <2>2, <2>3, Overwritten, Zenon
<1>4. ASSUME NEW s, FirstTrip(s), IsFirstTrip(s) PROVE sessions' \in [Session -> SessionState]
  <2>1. PICK e : sessions' = [sessions EXCEPT ![s] = e] /\ e = [sessions[s] EXCEPT !.tripped = TRUE]
    BY <1>4, Zenon DEF FirstTrip
  <2>2. ASSUME s \in Session PROVE e \in SessionState
    <3>1. PICK r \in SessionState : r = sessions[s]
      BY <1>1, <2>2, Zenon
    <3>2. e = [r EXCEPT !.tripped = TRUE]
      BY <2>1, <3>1, Zenon
    <3> QED BY <3>2, Zenon DEF SessionState
  <2>3. sessions' = [sessions EXCEPT ![s] = e]
    BY <2>1, Zenon
  <2> QED BY <1>1, <2>2, <2>3, Overwritten, Zenon
<1>5. ASSUME NEW s, FirstTrip(s), ~IsFirstTrip(s) PROVE sessions' = sessions
  BY <1>5, Zenon DEF FirstTrip
<1>6. ASSUME NEW s, Record(s), s = NoSession PROVE sessions' = sessions
  BY <1>6, Zenon DEF Record
<1> QED BY <1>1, <1>2, <1>3, <1>4, <1>5, <1>6, Zenon

(* Every step of the pipeline keeps the type of the breaker's map.         *)
LEMMA BreakerTyped == BreakerTypeOK /\ [Next]_vars => BreakerTypeOK'
<1> SUFFICES ASSUME BreakerTypeOK, [Next]_vars PROVE BreakerTypeOK'
  BY Zenon
<1>1. now' = now \/ Tick
  <2>1. \A c, k : Admit(c, k) => now' = now
    BY Zenon DEF Admit
  <2>2. \A c : CallerStep(c) => now' = now
    BY Zenon DEF CallerStep, Trip, ChargeRates, ChargeBudget, RecordCall, ChargeVelocity, Finish,
       EvaluatePolicy, AwaitHold, ScopeArguments
  <2>3. UNCHANGED vars => now' = now
    BY Zenon DEF vars, gatesVars
  <2> QED BY <2>1, <2>2, <2>3, Zenon DEF Next, SweepSessions, Clock, gatesVars
<1>2. sessions' = sessions \/ Sweep \/ (\E s : Record(s)) \/ (\E s : FirstTrip(s))
  <2>1. \A c, k : Admit(c, k) => sessions' = sessions
    BY Zenon DEF Admit
  <2>2. \A c : CallerStep(c) => sessions' = sessions \/ (\E s : Record(s)) \/ (\E s : FirstTrip(s))
    BY Zenon DEF CallerStep, Trip, ChargeRates, ChargeBudget, RecordCall, ChargeVelocity, Finish,
       EvaluatePolicy, AwaitHold, ScopeArguments
  <2>3. UNCHANGED vars => sessions' = sessions
    BY Zenon DEF vars, gatesVars
  <2> QED BY <2>1, <2>2, <2>3, Zenon DEF Next, SweepSessions, Clock, gatesVars
<1>3. sessions' \in [Session -> SessionState]
  BY <1>2, SessionsTyped, Zenon
<1>4. now' \in Nat
  BY <1>1, SMTT(40) DEF BreakerTypeOK, Tick
<1> QED BY <1>3, <1>4, Zenon DEF BreakerTypeOK

(* The handler's state has its type at all times.                          *)
THEOREM HandlerTypeCorrect == Spec => []TypeOK
<1>1. Init => BreakerTypeOK
  BY SMTT(40) DEF Init, GatesInit, BreakerInit, BreakerTypeOK, SessionState, Unknown
<1>2. HandlerInv /\ BreakerTypeOK => TypeOK
  BY SMTT(40) DEF HandlerInv, HoldInv, TypeOK, HandlerState, HeldState
<1> QED BY <1>1, <1>2, HandlerInvariant, BreakerTyped, PTL DEF Spec

(* For any policy, any number of requests at the same time and any order   *)
(* of admins, timers and sends: a call that a HOLD rule matched is charged *)
(* and forwarded only on its own hold, and only if that one was approved   *)
(* (handler.go:161-208).                                                   *)
THEOREM HeldCallsApproved == Spec => []HeldCallsNeedApproval
<1>1. HandlerInv => HeldCallsNeedApproval
  <2> SUFFICES ASSUME HandlerInv, NEW c \in Caller,
                      caller[c].pc \in Charging, caller[c].rule.action = "HOLD"
               PROVE  /\ status[caller[c].hold] = "approved"
                      /\ \A d \in Caller \ {c} :
                            caller[d].pc \in Charging \union {"held"} /\ caller[d].rule.action = "HOLD" =>
                                caller[d].hold # caller[c].hold
    BY SMTT(40) DEF HeldCallsNeedApproval
  <2>1. caller[c] \in HeldState /\ waiter[caller[c].hold] = "granted"
    BY Zenon DEF HandlerInv, Linked
  <2>2. caller[c].hold \in Hold
    BY <2>1, SMTT(40) DEF HeldState
  <2>3. status[caller[c].hold] = "approved"
    BY <2>1, <2>2, SMTT(40) DEF HandlerInv, HoldInv, ReplyMatchesRecord
  <2> QED BY <2>3, ZenonT(40) DEF HandlerInv, OneCallPerHold, OnHold
<1> QED BY <1>1, HandlerInvariant, PTL

-----------------------------------------------------------------------------
(* The refinement of Gates.  What the gates see of each kind of state.     *)
LEMMA Views ==
    ASSUME NEW x \in HandlerState
    PROVE  /\ x.pc \in {"idle", "trip", "policy"} => AsSeen(x) = x
           /\ x.pc \in {"held", "scope"} => AsSeen(x) = [pc |-> "policy", call |-> x.call]
           /\ x.pc \in Charging => AsSeen(x) = [pc |-> x.pc, call |-> x.call, rule |-> x.rule]
           /\ x.pc = "refused" =>
                 AsSeen(x) = [pc |-> "refused", why |-> IF x.why \in Why THEN x.why ELSE "policy"]
           /\ x.pc = "policy" => x = [pc |-> "policy", call |-> x.call]
  BY DEF AsSeen, Charging, HandlerState, CallerState, HeldState, Idle

(* A step of one request changes what the gates see of that request only.  *)
LEMMA SeenMoves ==
    ASSUME caller \in [Caller -> HandlerState], NEW c \in Caller, NEW x,
           caller' = [caller EXCEPT ![c] = x]
    PROVE  /\ Seen[c] = AsSeen(caller[c])
           /\ Seen' = [Seen EXCEPT ![c] = AsSeen(x)]
  BY Zenon DEF Seen

(* What the gates see depends on the requests only.                        *)
LEMMA SeenRests == caller' = caller => Seen' = Seen
  BY DEF Seen

(* A refusal by the gates, and one the gates take for the policy's.        *)
LEMMA SeenRefuse ==
    ASSUME caller \in [Caller -> HandlerState], NEW c \in Caller, NEW why \in Reasons, Refuse(c, why)
    PROVE  /\ why \in Why => AsGates!Refuse(c, why)
           /\ why \notin Why => AsGates!Refuse(c, "policy")
<1>1. PICK x : x = [pc |-> "refused", why |-> why]
  BY ZenonT(40)
<1>2. x \in HandlerState /\ x.pc = "refused" /\ x.why = why
  BY <1>1, SMTT(40) DEF HandlerState, CallerState, Reasons
<1>3. AsSeen(x) = [pc |-> "refused", why |-> IF why \in Why THEN why ELSE "policy"]
  BY <1>2, Views, SMTT(40)
<1>4. Seen' = [Seen EXCEPT ![c] = AsSeen(x)]
  BY <1>1, SeenMoves, Zenon DEF Refuse
<1> QED BY <1>3, <1>4, Zenon DEF AsGates!Refuse

(* Moving on between gates looks to the gates like moving on.              *)
LEMMA SeenGoto ==
    ASSUME caller \in [Caller -> HandlerState], NEW c \in Caller, caller[c].pc \in Charging,
           NEW pc \in Charging, Goto(c, pc)
    PROVE  AsGates!Goto(c, pc)
<1>1. PICK x : x = [caller[c] EXCEPT !.pc = pc]
  BY Zenon
<1>2. caller' = [caller EXCEPT ![c] = x] /\ caller[c] \in HandlerState
  BY <1>1, SMTT(40) DEF Goto
<1>3. x \in HandlerState /\ x.pc = pc /\ x.call = caller[c].call /\ x.rule = caller[c].rule
  BY <1>1, <1>2, ChargedState, SMTT(40)
<1>4. AsSeen(x) = [pc |-> pc, call |-> caller[c].call, rule |-> caller[c].rule]
  BY <1>3, Views, SMTT(40)
<1>5. Seen[c] = [pc |-> caller[c].pc, call |-> caller[c].call, rule |-> caller[c].rule]
  BY <1>2, SeenMoves, Views, Zenon
<1>6. Seen' = [Seen EXCEPT ![c] = [pc |-> pc, call |-> caller[c].call, rule |-> caller[c].rule]]
  BY <1>2, <1>4, SeenMoves, Zenon
<1>7. [Seen[c] EXCEPT !.pc = pc] = [pc |-> pc, call |-> caller[c].call, rule |-> caller[c].rule]
  BY <1>5
<1>8. [Seen EXCEPT ![c].pc = pc] = [Seen EXCEPT ![c] = [Seen[c] EXCEPT !.pc = pc]]
  OBVIOUS
<1> QED BY <1>6, <1>7, <1>8, Zenon DEF AsGates!Goto

(* Admission and the trip are the gates' own.                              *)
LEMMA SeenAdmit ==
    ASSUME caller \in [Caller -> HandlerState], NEW c \in Caller, NEW k \in Call,
           HasRoom(k), Admit(c, k)
    PROVE  AsGates!HasRoom(k) /\ AsGates!Admit(c, k)
<1>1. AsGates!HasRoom(k)
  BY SMTT(40) DEF HasRoom, AsGates!HasRoom, Cardinality, AsGates!Cardinality
<1>2. AsGates!Allow(k.session) <=> Allow(k.session)
  BY SMTT(40) DEF Allow, AsGates!Allow, Age, AsGates!Age
<1>3. Seen[c].pc = "idle"
  BY Views, SMTT(40) DEF Admit, Seen
<1>4. CASE k.tool # NoTool /\ k.tool \notin Registered
  BY <1>1, <1>3, <1>4, SeenRefuse, SMTT(40) DEF Admit, AsGates!Admit, limitVars, AsGates!limitVars, Reasons, Why
<1>5. CASE ~(k.tool # NoTool /\ k.tool \notin Registered)
  <2>1. PICK pc \in {"trip", "policy"} : pc = IF HasBreaker /\ ~Allow(k.session) THEN "trip" ELSE "policy"
    BY SMTT(40)
  <2>2. PICK x : x = [pc |-> pc, call |-> k]
    BY ZenonT(40)
  <2>3. x \in HandlerState /\ x.pc = pc /\ caller' = [caller EXCEPT ![c] = x]
    BY <1>5, <2>1, <2>2, Zenon DEF Admit, HandlerState, CallerState
  <2>4. Seen' = [Seen EXCEPT ![c] = x]
    <3>1. AsSeen(x) = x
      BY <2>3, Views, SMTT(40)
    <3> QED BY <2>3, <3>1, SeenMoves, Zenon
  <2> QED BY <1>1, <1>2, <1>3, <1>5, <2>1, <2>2, <2>4, Zenon
          DEF Admit, AsGates!Admit, limitVars, AsGates!limitVars
<1> QED BY <1>4, <1>5, SMTT(40)

(* Tripping, seen by the gates.                                            *)
LEMMA SeenTrip ==
    ASSUME caller \in [Caller -> HandlerState], NEW c \in Caller, Trip(c)
    PROVE  AsGates!Trip(c)
<1>1. caller[c].pc = "trip" /\ caller[c] \in HandlerState
  BY SMTT(40) DEF Trip
<1>2. Seen[c] = caller[c]
  BY <1>1, Views, SMTT(40) DEF Seen
<1>3. AsGates!Refuse(c, "circuit_open")
  BY SeenRefuse, SMTT(40) DEF Trip, Reasons, Why
<1> QED BY <1>1, <1>2, <1>3, SMTT(40)
        DEF Trip, AsGates!Trip, FirstTrip, AsGates!FirstTrip, IsFirstTrip, AsGates!IsFirstTrip,
            limitVars, AsGates!limitVars

(* The counters do not depend on how the callers are seen.                 *)
LEMMA SameCounters ==
    /\ \A k, r : AsGates!RateLimits(k, r) = RateLimits(k, r)
    /\ \A x, ls : AsGates!Takes(x, ls) <=> Takes(x, ls)
    /\ \A x, ls : Take(x, ls) => AsGates!Take(x, ls)
    /\ \A k, r : AsGates!Unattributable(k, r) <=> Unattributable(k, r)
    /\ \A k, r : AsGates!WithinBudget(k, r) <=> WithinBudget(k, r)
    /\ \A k, r : CheckAndRecord(k, r) => AsGates!CheckAndRecord(k, r)
    /\ \A s : Record(s) => AsGates!Record(s)
    /\ \A k : AsGates!VelocityWindow(k) = VelocityWindow(k)
    /\ \A k : VelocityRecord(k) => AsGates!VelocityRecord(k)
<1>1. \A s, t : AsGates!After(s, t) = After(s, t)
  BY DEF After, AsGates!After, Keep, AsGates!Keep
<1>2. \A s, w : AsGates!Live(s, w) = Live(s, w)
  BY <1>1, SMTT(40) DEF Live, AsGates!Live
<1>3. \A l, x : AsGates!Full(l, x) <=> Full(l, x)
  BY <1>2, SMTT(40) DEF Full, AsGates!Full, Key, AsGates!Key
<1>4. \A x, ls : AsGates!Takes(x, ls) <=> Takes(x, ls)
  BY <1>3, SMTT(40) DEF Takes, AsGates!Takes
<1>5. AsGates!RateKey = RateKey /\ AsGates!BudgetKey = BudgetKey
  BY SMTT(40) DEF RateKey, AsGates!RateKey, BudgetKey, AsGates!BudgetKey
<1>6. \A S : AsGates!Entered(S) = Entered(S)
  BY DEF Entered, AsGates!Entered
<1>7. ASSUME NEW x, NEW ls, Take(x, ls) PROVE AsGates!Take(x, ls)
  <2>1. {AsGates!Key(ls[i], x) :
            i \in {j \in DOMAIN ls : \A m \in 1..(j - 1) : ~AsGates!Full(ls[m], x)}}
        = {Key(ls[i], x) : i \in {j \in DOMAIN ls : \A m \in 1..(j - 1) : ~Full(ls[m], x)}}
    BY <1>3, SMTT(40) DEF Key, AsGates!Key
  <2> QED BY <1>2, <1>4, <1>5, <1>6, <1>7, <2>1, Zenon DEF Take, AsGates!Take
<1>8. \A u, b : AsGates!Exhausted(u, b) <=> Exhausted(u, b)
  BY <1>2, SMTT(40) DEF Exhausted, AsGates!Exhausted
<1>9. \A k, r : AsGates!IdentityFull(k, r) <=> IdentityFull(k, r)
  BY <1>8, SMTT(40) DEF IdentityFull, AsGates!IdentityFull
<1>10. \A k, r : AsGates!WithinBudget(k, r) <=> WithinBudget(k, r)
  BY <1>8, <1>9, Zenon DEF WithinBudget, AsGates!WithinBudget
<1>11. \A u : AsGates!Trimmed(u) = Trimmed(u)
  BY <1>2, SMTT(40) DEF Trimmed, AsGates!Trimmed
<1>12. ASSUME NEW k, NEW r, CheckAndRecord(k, r) PROVE AsGates!CheckAndRecord(k, r)
  BY <1>5, <1>6, <1>9, <1>10, <1>11, <1>12, Zenon
     DEF CheckAndRecord, AsGates!CheckAndRecord, Charged, AsGates!Charged, Spend, AsGates!Spend
<1>13. \A k : AsGates!VelocityWindow(k) = VelocityWindow(k)
  BY <1>2, SMTT(40) DEF VelocityWindow, AsGates!VelocityWindow
<1>14. \A k : VelocityRecord(k) => AsGates!VelocityRecord(k)
  BY <1>6, <1>13, Zenon DEF VelocityRecord, AsGates!VelocityRecord
<1>15. \A k, r : AsGates!RateLimits(k, r) = RateLimits(k, r)
  BY DEF RateLimits, AsGates!RateLimits
<1>16. \A k, r : AsGates!Unattributable(k, r) <=> Unattributable(k, r)
  BY DEF Unattributable, AsGates!Unattributable
<1>17. \A s : Record(s) => AsGates!Record(s)
  BY DEF Record, AsGates!Record
<1> QED BY <1>4, <1>7, <1>10, <1>12, <1>13, <1>14, <1>15, <1>16, <1>17, SMTT(40)

(* Each charge of the handler is the gates'.                               *)
LEMMA SeenCharge ==
    ASSUME caller \in [Caller -> HandlerState], NEW c \in Caller
    PROVE  /\ ChargeRates(c) => AsGates!ChargeRates(c)
           /\ ChargeBudget(c) => AsGates!ChargeBudget(c)
           /\ RecordCall(c) => AsGates!RecordCall(c)
           /\ ChargeVelocity(c) => AsGates!ChargeVelocity(c)
           /\ Finish(c) => AsGates!Finish(c)
<1>1. caller[c] \in HandlerState
  BY SMTT(40)
<1>2. caller[c].pc \in Charging =>
          /\ Seen[c].pc = caller[c].pc
          /\ Seen[c].call = caller[c].call
          /\ Seen[c].rule = caller[c].rule
  BY <1>1, Views, SMTT(40) DEF Seen
<1>3. \A why \in Why : Refuse(c, why) => AsGates!Refuse(c, why)
  BY SeenRefuse, SMTT(40) DEF Reasons
<1>4. \A pc \in Charging : caller[c].pc \in Charging /\ Goto(c, pc) => AsGates!Goto(c, pc)
  BY SeenGoto
<1>5. ChargeRates(c) => AsGates!ChargeRates(c)
  BY <1>2, <1>3, <1>4, SameCounters, Zenon DEF ChargeRates, AsGates!ChargeRates, Why, Charging
<1>6. ChargeBudget(c) => AsGates!ChargeBudget(c)
  BY <1>2, <1>3, <1>4, SameCounters, Zenon DEF ChargeBudget, AsGates!ChargeBudget, Why, Charging
<1>7. RecordCall(c) => AsGates!RecordCall(c)
  BY <1>2, <1>4, SameCounters, ZenonT(40) DEF RecordCall, AsGates!RecordCall, Charging, limitVars, AsGates!limitVars
<1>8. ChargeVelocity(c) => AsGates!ChargeVelocity(c)
  BY <1>2, <1>3, <1>4, SameCounters, ZenonT(40) DEF ChargeVelocity, AsGates!ChargeVelocity, Why, Charging
<1>9. ASSUME Finish(c) PROVE AsGates!Finish(c)
  <2>1. Seen[c].pc = caller[c].pc
    BY <1>1, <1>9, Views, SMTT(40) DEF Finish, Seen, Charging
  <2>2. AsSeen(Idle) = Idle /\ AsGates!Idle = Idle
    BY DEF AsSeen, Idle, AsGates!Idle, Charging
  <2>3. Seen' = [Seen EXCEPT ![c] = Idle]
    BY <1>9, <2>2, SeenMoves, ZenonT(40) DEF Finish
  <2> QED BY <1>9, <2>1, <2>2, <2>3, SMTT(40) DEF Finish, AsGates!Finish, limitVars, AsGates!limitVars
<1> QED BY <1>5, <1>6, <1>7, <1>8, <1>9, SMTT(40)

(* The handler's own steps are the gates' Decide, or nothing to them.      *)
LEMMA SeenDecide ==
    ASSUME caller \in [Caller -> HandlerState], NEW c \in Caller,
           caller[c].pc \in {"policy", "held", "scope"},
           UNCHANGED <<sessions, now, trips, limitVars>>,
           \/ \E r \in Rule : Seen' = [Seen EXCEPT ![c] = [pc |-> "rates", call |-> caller[c].call, rule |-> r]]
           \/ AsGates!Refuse(c, "policy")
    PROVE  AsGates!Decide(c)
<1>1. Seen[c] = [pc |-> "policy", call |-> caller[c].call]
  BY Views, Zenon DEF Seen
<1> QED BY <1>1, SMTT(40) DEF AsGates!Decide, limitVars, AsGates!limitVars

(* Evaluating the policy is the gates' Decide, or parks the request where  *)
(* the gates still see it undecided.                                       *)
LEMMA SeenEvaluate ==
    ASSUME HandlerInv, NEW c \in Caller, EvaluatePolicy(c)
    PROVE  AsGates!Decide(c) \/ Seen' = Seen
<1> DEFINE k == caller[c].call
           d == Decided[k]
           r == Rules[d.index]
<1>1. caller \in [Caller -> HandlerState] /\ caller[c] \in HandlerState /\ caller[c].pc = "policy"
  BY Zenon DEF HandlerInv, EvaluatePolicy
<1>2. k \in Call /\ UNCHANGED <<sessions, now, trips, limitVars>>
  <2>1. k \in Call
    <3>1. PICK x \in HandlerState : x = caller[c] /\ x.pc = "policy"
      BY <1>1, ZenonT(40)
    <3>2. x.call \in Call
      BY <3>1, SMTT(40) DEF HandlerState, CallerState, HeldState, Idle
    <3> QED BY <3>1, <3>2, Zenon
  <2>2. UNCHANGED <<sessions, now, trips, limitVars>>
    BY Zenon DEF EvaluatePolicy
  <2> QED BY <2>1, <2>2
<1>3. Seen[c] = [pc |-> "policy", call |-> k] /\ Seen = [Seen EXCEPT ![c] = [pc |-> "policy", call |-> k]]
  <2>1. Seen[c] = [pc |-> "policy", call |-> k]
    BY <1>1, Views DEF Seen
  <2> QED BY <2>1, SMTT(40) DEF Seen
<1>4. ASSUME NEW x, caller' = [caller EXCEPT ![c] = x], AsSeen(x) = [pc |-> "policy", call |-> k]
      PROVE  Seen' = Seen
  BY <1>1, <1>3, <1>4, SeenMoves, ZenonT(40)
<1>5. CASE d.held /\ HasHolds /\ r.hold
  <2>1. PICK h \in Hold : caller' = [caller EXCEPT ![c] = [pc |-> "held", call |-> k, rule |-> r, hold |-> h]]
    BY <1>5, Zenon DEF EvaluatePolicy
  <2>2. AsSeen([pc |-> "held", call |-> k, rule |-> r, hold |-> h]) = [pc |-> "policy", call |-> k]
    BY DEF AsSeen, Charging
  <2> QED BY <1>4, <2>1, <2>2, Zenon
<1>6. CASE ~(d.held /\ HasHolds /\ r.hold) /\ d.allowed
  <2>1. PICK pc \in {"scope", "rates"} :
           caller' = [caller EXCEPT ![c] = [pc |-> pc, call |-> k, rule |-> r]]
    BY <1>6, ZenonT(40) DEF EvaluatePolicy
  <2>2. r \in Rule
    BY <1>2, <1>6, DecidedBy, Zenon
  <2>3. CASE pc = "scope"
    <3>1. AsSeen([pc |-> "scope", call |-> k, rule |-> r]) = [pc |-> "policy", call |-> k]
      BY DEF AsSeen, Charging
    <3> QED BY <1>4, <2>1, <2>3, <3>1, Zenon
  <2>4. CASE pc = "rates"
    <3>1. PICK x : x = [pc |-> "rates", call |-> k, rule |-> r]
      BY Zenon
    <3>2. AsSeen(x) = x
      BY <3>1, SMTT(40) DEF AsSeen, Charging
    <3>3. caller' = [caller EXCEPT ![c] = x]
      BY <2>1, <2>4, <3>1, Zenon
    <3>4. Seen' = [Seen EXCEPT ![c] = x]
      <4>1. Seen' = [Seen EXCEPT ![c] = AsSeen(x)]
        BY <1>1, <3>3, SeenMoves, ZenonT(40)
      <4> QED BY <3>2, <4>1, SMTT(40)
    <3> QED BY <1>1, <1>2, <2>2, <3>1, <3>4, SeenDecide, Zenon
  <2> QED BY <2>3, <2>4
<1>7. CASE ~(d.held /\ HasHolds /\ r.hold) /\ ~d.allowed
  <2>1. Refuse(c, "policy")
    BY <1>7, Zenon DEF EvaluatePolicy
  <2>2. AsGates!Refuse(c, "policy")
    BY <1>1, <2>1, SeenRefuse, SMTT(40) DEF Reasons, Why
  <2> QED BY <1>1, <1>2, <2>2, SeenDecide, SMTT(40)
<1> QED BY <1>5, <1>6, <1>7, Zenon

(* The end of a wait or of the rewriting: the decision comes out.          *)
LEMMA SeenAwait ==
    ASSUME HandlerInv, NEW c \in Caller, AwaitHold(c) \/ ScopeArguments(c)
    PROVE  AsGates!Decide(c)
<1>1. caller \in [Caller -> HandlerState] /\ caller[c] \in HandlerState
  BY DEF HandlerInv
<1>2. caller[c].pc \in {"held", "scope"} /\ UNCHANGED <<sessions, now, trips, limitVars>>
  BY ZenonT(40) DEF AwaitHold, ScopeArguments
<1>3. caller[c] \in HeldState \union [pc : {"scope"}, call : Call, rule : Rule]
  BY <1>1, <1>2, SMTT(40) DEF HandlerState, CallerState, HeldState, Idle
<1>4. Goto(c, "rates") \/ \E why \in {"hold_timeout", "policy", "scope_violation", "aborted"} : Refuse(c, why)
  <2>1. CASE AwaitHold(c)
    BY <2>1, AwaitFacts, SMTT(40)
  <2>2. CASE ScopeArguments(c)
    BY <2>2, Zenon DEF ScopeArguments
  <2> QED BY <2>1, <2>2, SMTT(40)
<1>5. CASE Goto(c, "rates")
  <2>1. PICK x : x = [caller[c] EXCEPT !.pc = "rates"]
    BY Zenon
  <2>2. x.pc = "rates" /\ x.call = caller[c].call /\ x.rule = caller[c].rule /\ caller[c].rule \in Rule
    BY <1>3, <2>1, SMTT(40) DEF HeldState
  <2>3. caller' = [caller EXCEPT ![c] = x]
    BY <1>1, <1>5, <2>1, SMTT(40) DEF Goto
  <2>4. AsSeen(x) = [pc |-> "rates", call |-> caller[c].call, rule |-> caller[c].rule]
    BY <2>2 DEF AsSeen, Charging
  <2>5. Seen' = [Seen EXCEPT ![c] = [pc |-> "rates", call |-> caller[c].call, rule |-> caller[c].rule]]
    BY <1>1, <2>3, <2>4, SeenMoves, Zenon
  <2> QED BY <1>1, <1>2, <2>2, <2>5, SeenDecide, Zenon
<1>6. ASSUME NEW why \in {"hold_timeout", "policy", "scope_violation", "aborted"}, Refuse(c, why)
      PROVE  AsGates!Decide(c)
  <2>1. AsGates!Refuse(c, "policy")
    BY <1>1, <1>6, SeenRefuse, SMTT(40) DEF Reasons, Why
  <2> QED BY <1>1, <1>2, <2>1, SeenDecide, SMTT(40)
<1> QED BY <1>4, <1>5, <1>6, SMTT(40)

(* The sweep and the clock.                                                *)
LEMMA SeenRest ==
    /\ SweepSessions => AsGates!SweepSessions
    /\ Clock => AsGates!Clock
<1>1. \A s : AsGates!Stale(s) <=> Stale(s)
  BY SMTT(40) DEF Stale, AsGates!Stale, Age, AsGates!Age
<1>2. SweepSessions => AsGates!SweepSessions
  BY <1>1, SeenRests, Zenon DEF SweepSessions, AsGates!SweepSessions, Sweep, AsGates!Sweep, Unknown, AsGates!Unknown,
                         limitVars, AsGates!limitVars
<1>3. ASSUME Clock PROVE AsGates!Clock
  <2>1. \A s, t : AsGates!After(s, t) = After(s, t)
    BY DEF After, AsGates!After, Keep, AsGates!Keep
  <2>2. \A k : AsGates!Width(k) = Width(k)
    BY DEF Width, AsGates!Width, BudgetKey, AsGates!BudgetKey
  <2> QED BY <1>3, <2>1, <2>2, SeenRests, SMTT(40) DEF Clock, AsGates!Clock, Tick, AsGates!Tick
<1> QED BY <1>2, <1>3, SMTT(40)

(* The refinement of Gates: initial states.                                *)
LEMMA GatesStart == Init => AsGates!GatesInit
<1> SUFFICES ASSUME Init PROVE AsGates!GatesInit
  OBVIOUS
<1>1. Seen = [c \in Caller |-> Idle]
  <2>1. AsSeen(Idle) = Idle
    BY DEF AsSeen, Idle, Charging
  <2> QED BY <2>1 DEF Init, GatesInit, Seen
<1>2. RateKey = AsGates!RateKey
  BY SMTT(40) DEF RateKey, AsGates!RateKey
<1> QED BY <1>1, <1>2, Zenon
        DEF Init, GatesInit, AsGates!GatesInit, BreakerInit, AsGates!BreakerInit, Unknown,
            AsGates!Unknown, BudgetKey, AsGates!BudgetKey, VelocityKey, AsGates!VelocityKey,
            NoUsage, AsGates!NoUsage, Idle, AsGates!Idle

(* Every step of the handler is a step of the gates, or none of their      *)
(* business.                                                               *)
LEMMA GatesStep == HandlerInv /\ [Next]_vars => [AsGates!GatesNext]_(AsGates!gatesVars)
<1> SUFFICES ASSUME HandlerInv, [Next]_vars PROVE AsGates!GatesNext \/ UNCHANGED AsGates!gatesVars
  OBVIOUS
<1>1. caller \in [Caller -> HandlerState]
  BY DEF HandlerInv
<1>2. ASSUME NEW c \in Caller, NEW k \in Call, HasRoom(k), Admit(c, k) PROVE AsGates!GatesNext
  BY <1>1, <1>2, SeenAdmit, SMTT(40) DEF AsGates!GatesNext, AsGates!GateStep
<1>3. ASSUME NEW c \in Caller,
             Trip(c) \/ ChargeRates(c) \/ ChargeBudget(c) \/ RecordCall(c) \/ ChargeVelocity(c) \/ Finish(c)
      PROVE  AsGates!GatesNext
  BY <1>1, <1>3, SeenTrip, SeenCharge, SMTT(40) DEF AsGates!GatesNext, AsGates!GateStep
<1>4. ASSUME NEW c \in Caller, EvaluatePolicy(c) PROVE AsGates!GatesNext \/ UNCHANGED AsGates!gatesVars
  <2>1. UNCHANGED <<sessions, now, trips, limitVars>>
    BY <1>4, Zenon DEF EvaluatePolicy
  <2> QED BY <1>4, <2>1, SeenEvaluate, SMTT(40) DEF AsGates!GatesNext, AsGates!gatesVars, limitVars
<1>5. ASSUME NEW c \in Caller, AwaitHold(c) \/ ScopeArguments(c) PROVE AsGates!GatesNext
  BY <1>5, SeenAwait, SMTT(40) DEF AsGates!GatesNext
<1>6. CASE SweepSessions \/ Clock
  BY <1>6, SeenRest, SMTT(40) DEF AsGates!GatesNext
<1>7. CASE UNCHANGED gatesVars
  BY <1>7, SeenRests DEF gatesVars, AsGates!gatesVars
<1> QED BY <1>2, <1>3, <1>4, <1>5, <1>6, <1>7, SMTT(40) DEF Next, CallerStep, vars

(* The handler implements the gates: for any policy, whatever is parked,   *)
(* rewritten or refused in between, its requests go through the gates'     *)
(* steps in the gates' order, and nothing else touches the counters        *)
(* (handler.go:139-336).                                                   *)
THEOREM HandlerRefinesGates == Spec => GatesRefined
  BY HandlerInvariant, GatesStart, GatesStep, PTL DEF Spec, GatesRefined, AsGates!GatesSpec

-----------------------------------------------------------------------------
(* The queue and its history.  Only finitely many holds are ever resolved. *)
QueueInv == QueueComplete /\ IsFiniteSet(Resolved)

(* What trimming does to a history one longer than it may be.              *)
LEMMA TrimOne ==
  ASSUME NEW s \in Seq(Hold), Len(s) <= MaxHist + 1
  PROVE  \E k \in {0, 1} :
           /\ k = (IF Len(s) = MaxHist + 1 THEN 1 ELSE 0)
           /\ Len(Trim(s)) = Len(s) - k
           /\ \A i \in 1..(Len(s) - k) : Trim(s)[i] = s[i + k] /\ i + k \in 1..Len(s)
<1>0. Len(s) \in Nat /\ MaxHist \in Nat /\ MaxHist >= 1
  BY HoldAssumption
<1>1. CASE Len(s) = MaxHist + 1
  <2>1. Trim(s) = SubSeq(s, 2, Len(s))
    BY <1>0, <1>1 DEF Trim
  <2>2. Len(SubSeq(s, 2, Len(s))) = Len(s) - 1
    BY <1>0, <1>1
  <2>3. \A i \in 1..(Len(s) - 1) : SubSeq(s, 2, Len(s))[i] = s[i + 1] /\ i + 1 \in 1..Len(s)
    BY <1>0, <1>1
  <2> QED
    BY <1>1, <2>1, <2>2, <2>3
<1>2. CASE Len(s) # MaxHist + 1
  <2>1. Trim(s) = s
    BY <1>0, <1>2 DEF Trim
  <2>2. \A i \in 1..(Len(s) - 0) : s[i] = s[i + 0] /\ i + 0 \in 1..Len(s)
    BY <1>0
  <2>3. Len(s) = Len(s) - 0
    BY <1>0
  <2> QED
    BY <1>2, <2>1, <2>2, <2>3, Zenon
<1> QED
  BY <1>1, <1>2, Zenon

(* Counting, by the library's facts.                                       *)
Fin == INSTANCE FiniteSetTheorems

(* The instance's notion of a finite set is the one of the specification.  *)
LEMMA SameFinite == \A S : IsFiniteSet(S) <=> Fin!IsFiniteSet(S)
  BY Zenon DEF IsFiniteSet, Fin!IsFiniteSet

(* So is its cardinality.                                                  *)
LEMMA SameCardinality == \A S : Cardinality(S) = Fin!Cardinality(S)
  BY Zenon DEF Cardinality, Fin!Cardinality

(* A finite set has a natural number of members.                           *)
LEMMA CountOf ==
  ASSUME NEW S, IsFiniteSet(S)
  PROVE  Cardinality(S) \in Nat
  BY SameFinite, SameCardinality, Fin!FS_CardinalityType, Zenon

(* One more member adds one.                                               *)
LEMMA CountWith ==
  ASSUME NEW S, NEW x, IsFiniteSet(S), x \notin S
  PROVE  IsFiniteSet(S \union {x}) /\ Cardinality(S \union {x}) = Cardinality(S) + 1
  BY SameFinite, SameCardinality, Fin!FS_AddElement, Zenon

(* The empty set has none.                                                 *)
LEMMA CountOfNone == IsFiniteSet({}) /\ Cardinality({}) = 0
  BY SameFinite, SameCardinality, Fin!FS_EmptySet, Zenon

(* A resolved hold moves from the map to the history, which forgets its    *)
(* oldest.                                                                 *)
LEMMA ResolveQueue ==
  ASSUME HoldInv, QueueInv, NEW h \in pending, NEW st \in {"approved", "denied", "timeout"},
         pending' = pending \ {h}, status' = [status EXCEPT ![h] = st],
         history' = Trim(Append(history, h))
  PROVE  QueueInv'
<1>0. /\ HoldTypeOK /\ QueueComplete /\ IsFiniteSet(Resolved) /\ MaxHist \in Nat /\ MaxHist >= 1
      /\ h \in Hold /\ status[h] = "pending" /\ history \in Seq(Hold)
  <2>1. /\ HoldTypeOK /\ QueueComplete /\ IsFiniteSet(Resolved) /\ history \in Seq(Hold)
        /\ h \in Hold /\ status[h] = "pending"
    BY Zenon DEF HoldInv, QueueInv, QueueComplete, HoldTypeOK
  <2>2. MaxHist \in Nat /\ MaxHist >= 1
    BY HoldAssumption
  <2> QED BY <2>1, <2>2, Zenon
<1>1. pending' = {g \in Hold : status'[g] = "pending"}
  BY <1>0, Zenon DEF QueueComplete, HoldTypeOK
<1>2. Resolved' = Resolved \union {h} /\ h \notin Resolved
  BY <1>0 DEF Resolved, HoldTypeOK
<1>3. /\ IsFiniteSet(Resolved') /\ Cardinality(Resolved) \in Nat
      /\ Cardinality(Resolved') = Cardinality(Resolved) + 1
  BY <1>0, <1>2, CountWith, CountOf
<1>4. PICK n \in Nat : n = Len(history)
  BY <1>0
<1>5. n = IF Cardinality(Resolved) > MaxHist THEN MaxHist ELSE Cardinality(Resolved)
  BY <1>0, <1>4, Zenon DEF QueueComplete
<1>6. PICK s \in Seq(Hold) : s = Append(history, h)
  <2>1. Append(history, h) \in Seq(Hold)
    BY <1>0
  <2> QED BY <2>1, Zenon
<1>7. /\ Len(s) = n + 1 /\ s[n + 1] = h
      /\ \A i \in 1..n : s[i] = history[i] /\ history[i] \in Resolved
  BY <1>0, <1>4, <1>6 DEF QueueComplete
<1>8. \A i \in 1..(n + 1) : i \in 1..n \/ i = n + 1
  OBVIOUS
<1>9. \A i \in 1..(n + 1) : s[i] \in Resolved'
  BY <1>2, <1>7, <1>8, SMTT(40)
<1>10. \A i, j \in 1..(n + 1) : s[i] = s[j] => i = j
  <2>1. \A i, j \in 1..n : history[i] = history[j] => i = j
    BY <1>0, <1>4, SMTT(40) DEF QueueComplete
  <2> QED
    BY <1>2, <1>7, <1>8, <2>1, Zenon
<1>11. Len(s) <= MaxHist + 1
  BY <1>0, <1>3, <1>5, <1>7, SMTT(40)
<1>12. PICK k \in {0, 1} :
         /\ k = (IF Len(s) = MaxHist + 1 THEN 1 ELSE 0)
         /\ Len(history') = Len(s) - k
         /\ \A i \in 1..(Len(s) - k) : history'[i] = s[i + k] /\ i + k \in 1..Len(s)
  <2>1. history' = Trim(s)
    BY <1>6
  <2> QED
    BY <1>11, <2>1, TrimOne, Zenon
<1>13. \A i \in 1..Len(history') : history'[i] \in Resolved'
  BY <1>7, <1>9, <1>12, Zenon
<1>14. \A i, j \in 1..Len(history') : history'[i] = history'[j] => i = j
  <2> SUFFICES ASSUME NEW i \in 1..(Len(s) - k), NEW j \in 1..(Len(s) - k), history'[i] = history'[j]
               PROVE  i = j
    BY <1>12, Zenon
  <2>1. i + k = j + k
    BY <1>7, <1>10, <1>12, SMTT(40)
  <2> QED
    BY <2>1
<1>15. Len(history') = IF Cardinality(Resolved') > MaxHist THEN MaxHist ELSE Cardinality(Resolved')
  BY <1>0, <1>3, <1>5, <1>7, <1>12, SMTT(40)
<1> QED
  BY <1>1, <1>3, <1>13, <1>14, <1>15, SMTT(40) DEF QueueInv, QueueComplete

(* Every step of the manager keeps map and history complete.               *)
LEMMA QueueNext == HoldInv /\ QueueInv /\ [HoldNext]_holdVars => QueueInv'
<1> SUFFICES ASSUME HoldInv, QueueInv, [HoldNext]_holdVars PROVE QueueInv'
  OBVIOUS
<1>0. HoldTypeOK
  BY DEF HoldInv
<1>1. ASSUME NEW a \in Admin, NEW h \in Hold, NEW ok \in BOOLEAN, NEW by \in Approver,
             AdminResolve(a, h, ok, by)
      PROVE  QueueInv'
  BY <1>1, ResolveQueue, Zenon DEF AdminResolve, Resolve
<1>2. CASE UNCHANGED <<pending, status, history>>
  BY <1>2, ZenonT(40) DEF QueueInv, QueueComplete, Resolved
<1>3. ASSUME NEW h \in Hold, TimerFires(h) PROVE QueueInv'
  BY <1>2, <1>3, ResolveQueue DEF TimerFires, Resolve
<1>4. ASSUME NEW x \in Task, Send(x) \/ Close(x) PROVE QueueInv'
  BY <1>2, <1>4, SMTT(40) DEF Send, Close
<1>5. ASSUME NEW h \in Hold, Park(h) PROVE QueueInv'
  <2>1. Resolved' = Resolved /\ history' = history
    BY <1>0, <1>5 DEF Park, Resolved, HoldTypeOK
  <2>2. pending' = {g \in Hold : status'[g] = "pending"}
    BY <1>0, <1>5, SMTT(40) DEF Park, QueueInv, QueueComplete, HoldTypeOK
  <2> QED
    BY <2>1, <2>2, Zenon DEF QueueInv, QueueComplete
<1>6. ASSUME NEW h \in Hold, Receive(h) PROVE QueueInv'
  BY <1>2, <1>6, Zenon DEF Receive
<1>7. CASE UNCHANGED holdVars
  BY <1>2, <1>7 DEF holdVars
<1> QED
  BY <1>1, <1>3, <1>4, <1>5, <1>6, <1>7, SMTT(40) DEF HoldNext, QueueStep, AdminStep

(* However many holds there are, none is lost between the pending map and  *)
(* the history, and the history forgets only what MaxHist makes it forget  *)
(* (manager.go:147-161, 178-187).                                          *)
THEOREM QueueNeverLoses == HoldSpec => []QueueComplete
<1>1. HoldInit => QueueInv
  <2> SUFFICES ASSUME HoldInit PROVE QueueInv
    OBVIOUS
  <2>1. Resolved = {} /\ Len(history) = 0 /\ pending = {h \in Hold : status[h] = "pending"}
    BY DEF HoldInit, Resolved
  <2>2. IsFiniteSet(Resolved) /\ Cardinality(Resolved) = 0
    BY <2>1, CountOfNone
  <2> QED
    BY <2>1, <2>2, HoldAssumption DEF QueueInv, QueueComplete
<1>2. QueueInv => QueueComplete
  BY DEF QueueInv
<1> QED
  BY <1>1, <1>2, QueueNext, HoldInvariant, PTL DEF HoldSpec

-----------------------------------------------------------------------------
(* The theorems about the gates, for the gates as this handler uses them.  *)
Gated == INSTANCE GatesProofs WITH caller <- Seen

(* The gates as refined are the gates GatesProofs speaks of.               *)
LEMMA SameGates == AsGates!GatesSpec => Gated!GatesSpec
<1>1. AsGates!RateKey = Gated!RateKey
  BY SMTT(40) DEF AsGates!RateKey, Gated!RateKey
<1>2. AsGates!GatesInit => Gated!GatesInit
  BY <1>1, ZenonT(60)
  DEF AsGates!BreakerInit, Gated!BreakerInit, AsGates!BudgetKey, Gated!BudgetKey,
      AsGates!GatesInit, Gated!GatesInit, AsGates!Idle, Gated!Idle, AsGates!NoUsage,
      Gated!NoUsage, AsGates!Unknown, Gated!Unknown, AsGates!VelocityKey,
      Gated!VelocityKey
<1>3. ASSUME NEW x, NEW ls, AsGates!Take(x, ls) PROVE Gated!Take(x, ls)
  BY <1>1, <1>3, ZenonT(60)
  DEF AsGates!Take, Gated!Take, AsGates!Takes, Gated!Takes, AsGates!Full, Gated!Full,
      AsGates!Live, Gated!Live, AsGates!After, Gated!After, AsGates!Keep, Gated!Keep,
      AsGates!Key, Gated!Key, AsGates!Entered, Gated!Entered
<1>4. ASSUME NEW c
      PROVE  /\ AsGates!ChargeRates(c) => Gated!ChargeRates(c)
             /\ AsGates!ChargeBudget(c) => Gated!ChargeBudget(c)
             /\ AsGates!ChargeVelocity(c) => Gated!ChargeVelocity(c)
  BY <1>3, ZenonT(60)
  DEF AsGates!ChargeRates, Gated!ChargeRates, AsGates!Takes, Gated!Takes, AsGates!Full,
      Gated!Full, AsGates!Live, Gated!Live, AsGates!After, Gated!After, AsGates!Keep,
      Gated!Keep, AsGates!Key, Gated!Key, AsGates!RateLimits, Gated!RateLimits,
      AsGates!Goto, Gated!Goto, AsGates!Refuse, Gated!Refuse, AsGates!ChargeBudget,
      Gated!ChargeBudget, AsGates!CheckAndRecord, Gated!CheckAndRecord,
      AsGates!IdentityFull, Gated!IdentityFull, AsGates!WithinBudget, Gated!WithinBudget,
      AsGates!Charged, Gated!Charged, AsGates!BudgetKey, Gated!BudgetKey,
      AsGates!Exhausted, Gated!Exhausted, AsGates!Spend, Gated!Spend, AsGates!Trimmed,
      Gated!Trimmed, AsGates!Unattributable, Gated!Unattributable, AsGates!Entered,
      Gated!Entered, AsGates!ChargeVelocity, Gated!ChargeVelocity,
      AsGates!VelocityRecord, Gated!VelocityRecord, AsGates!VelocityWindow,
      Gated!VelocityWindow
<1>5. ASSUME NEW c
      PROVE  /\ (\E k \in Call : AsGates!HasRoom(k) /\ AsGates!Admit(c, k))
                => \E k \in Call : Gated!HasRoom(k) /\ Gated!Admit(c, k)
             /\ AsGates!Trip(c) => Gated!Trip(c)
             /\ AsGates!Decide(c) => Gated!Decide(c)
             /\ AsGates!RecordCall(c) => Gated!RecordCall(c)
             /\ AsGates!Finish(c) => Gated!Finish(c)
             /\ AsGates!SweepSessions => Gated!SweepSessions
             /\ AsGates!Clock => Gated!Clock
  BY ZenonT(60)
  DEF AsGates!HasRoom, Gated!HasRoom, AsGates!Cardinality, Gated!Cardinality,
      AsGates!Admit, Gated!Admit, AsGates!Refuse, Gated!Refuse, AsGates!Allow,
      Gated!Allow, AsGates!Age, Gated!Age, AsGates!limitVars, Gated!limitVars,
      AsGates!Trip, Gated!Trip, AsGates!FirstTrip, Gated!FirstTrip, AsGates!IsFirstTrip,
      Gated!IsFirstTrip, AsGates!Decide, Gated!Decide, AsGates!RecordCall,
      Gated!RecordCall, AsGates!Record, Gated!Record, AsGates!Goto, Gated!Goto,
      AsGates!Finish, Gated!Finish, AsGates!Idle, Gated!Idle, AsGates!SweepSessions,
      Gated!SweepSessions, AsGates!Sweep, Gated!Sweep, AsGates!Stale, Gated!Stale,
      AsGates!Unknown, Gated!Unknown, AsGates!Clock, Gated!Clock, AsGates!Tick,
      Gated!Tick, AsGates!Width, Gated!Width, AsGates!BudgetKey, Gated!BudgetKey,
      AsGates!After, Gated!After, AsGates!Keep, Gated!Keep
<1>6. [AsGates!GatesNext]_(AsGates!gatesVars) => [Gated!GatesNext]_(Gated!gatesVars)
  BY <1>4, <1>5, ZenonT(60)
  DEF AsGates!GatesNext, Gated!GatesNext, AsGates!GateStep, Gated!GateStep,
      AsGates!gatesVars, Gated!gatesVars
<1> QED BY <1>2, <1>6, PTL DEF AsGates!GatesSpec, Gated!GatesSpec

(* What the gates guarantee they guarantee in this handler, whatever it    *)
(* does between the admission and the charge of a call: no subject gets    *)
(* more calls past a rate, a budget or the velocity gate than the laxest   *)
(* limit allows, no session more than maxCalls and the calls in flight,    *)
(* and its trips are apart as TripsBounded says (gates.go, tracker.go,     *)
(* velocity.go, breaker.go, under handler.go:139-336).                     *)
THEOREM HandlerKeepsLimits ==
    Spec => [](RateWindow /\ BudgetWindow /\ VelocityBounded /\ CallsBounded /\ TripsBounded)
<1>1. Gated!IsFiniteSet(Caller)
  BY GatesAssumption, Zenon DEF GatesAssumption, IsFiniteSet, Gated!IsFiniteSet
<1>2. Gated!GatesSpec => []Gated!Guarantees
  BY <1>1, Gated!GatesGuarantee, GatesAssumption, BreakerAssumption, PTL
<1>3. Gated!Guarantees => RateWindow /\ BudgetWindow /\ VelocityBounded /\ CallsBounded /\ TripsBounded
  BY ZenonT(60)
  DEF Gated!Guarantees, Gated!RateWindow, RateWindow, Gated!BudgetWindow, BudgetWindow, Gated!WithinLaxest,
      WithinLaxest, Gated!IdentityBudgets, IdentityBudgets, Gated!SessionBudgets, SessionBudgets,
      Gated!VelocityBounded, VelocityBounded, Gated!VelocityKey, VelocityKey, Gated!CallsBounded,
      CallsBounded, Gated!Cardinality, Cardinality, Gated!TripsBounded, TripsBounded,
      Gated!InWindow, InWindow, Gated!Live, Live, Gated!After, After, Gated!Keep, Keep
<1> QED BY <1>2, <1>3, SameGates, HandlerRefinesGates, PTL DEF GatesRefined
=============================================================================
