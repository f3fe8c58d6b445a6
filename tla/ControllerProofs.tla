-------------------------- MODULE ControllerProofs ---------------------------
(***************************************************************************)
(* The controller, for any number of handlers, holds and admins and any    *)
(* limits and widths: its resolvers never block or panic and its holds     *)
(* keep HoldContract; what the admin endpoints list is what happened; the  *)
(* alerter is quiet but not deaf; and shared budgets are kept.             *)
(*                                                                         *)
(* The holds come first and by themselves (HoldSpec): as in the sidecar's  *)
(* queue, NobodyBlocks needs to know that whoever has a hold in hand took  *)
(* it out of the map alone, and what the channel can contain; here the RPC *)
(* may have left without emptying it.  Then Steps says what a step of the  *)
(* composed controller does to the stores and to the holds, and the        *)
(* invariants of ControllerStoresProofs carry over.                        *)
(***************************************************************************)
EXTENDS Controller, ControllerStoresProofs, TLAPS

InHand(x, h) == resolver[x].pc \in {"send", "close"} /\ resolver[x].hold = h

Resolved == {h \in Hold : state[h] \in {"approved", "denied", "timeout"}}

(* The word that must go down the channel of a resolved hold.              *)
Word(h) == IF state[h] = "timeout" THEN OnTimeout(h) ELSE state[h]

Unanswered(h) == reply[h] \in {"created", "waiting"}

(* A hold in hand was resolved, and by one goroutine only; a timer only    *)
(* ever carries its own hold.                                              *)
OneResolver ==
    \A x \in Resolver :
        /\ resolver[x].pc # "panic"
        /\ resolver[x].pc \in {"send", "close"} =>
              /\ resolver[x].hold \in Resolved
              /\ resolver[x].hold \notin closed
              /\ x \in Hold => resolver[x].hold = x
              /\ \A y \in Resolver : InHand(y, resolver[x].hold) => y = x
        /\ resolver[x].pc = "send" =>
              /\ done[resolver[x].hold] = <<>>
              /\ reply[resolver[x].hold] \in {"created", "waiting", "cancelled"}
              /\ resolver[x].sends = Word(resolver[x].hold)
        /\ resolver[x].pc = "close" /\ Unanswered(resolver[x].hold) =>
              done[resolver[x].hold] # <<>>

(* What the map, the record, the channel and the RPC say of one hold.      *)
ChannelState ==
    \A h \in Hold :
        /\ h \in pending <=> state[h] = "pending"
        /\ state[h] = "none" <=> reply[h] = "none"
        /\ h \notin Resolved =>
              h \notin closed /\ done[h] = <<>> /\ reply[h] \notin {"approved", "denied"}
        /\ done[h] # <<>> =>
              /\ Len(done[h]) = 1
              /\ Head(done[h]) = Word(h)
              /\ reply[h] \in {"created", "waiting", "cancelled"}
        /\ h \in closed /\ Unanswered(h) => done[h] # <<>>
        /\ reply[h] \in {"approved", "denied"} => reply[h] = Word(h)

HoldInv == HoldTypeOK /\ OneResolver /\ ChannelState

-----------------------------------------------------------------------------
(* Initially nothing is held.                                              *)
LEMMA InitHoldInv == HoldInit => HoldInv
<1> SUFFICES ASSUME HoldInit PROVE HoldInv
  OBVIOUS
<1>1. HoldTypeOK
  <2>1. resolver \in [Resolver -> ResolverState]
    BY Zenon DEF HoldInit, Idle, ResolverState
  <2>2. history \in Seq(Hold) /\ done \in [Hold -> Seq({"approved", "denied"})]
    BY DEF HoldInit
  <2> QED
    BY <2>1, <2>2 DEF HoldInit, HoldTypeOK, HoldState
<1>2. OneResolver
  BY Zenon DEF HoldInit, OneResolver, Idle, Resolver
<1>3. ChannelState
  BY DEF HoldInit, ChannelState, Resolved, Unanswered
<1> QED
  BY <1>1, <1>2, <1>3 DEF HoldInv

(* Trimming the history keeps a sequence of holds (holds.go:165-170).      *)
LEMMA ArchiveType ==
  ASSUME NEW s \in Seq(Hold)
  PROVE  archive(s) \in Seq(Hold)
<1>1. CASE Len(s) > MaxHist
  <2>1. Len(s) \in Nat /\ MaxHist \in Nat \ {0}
    BY HoldStoreAssumption
  <2>2. Len(s) - MaxHist + 1 \in 1..(Len(s) + 1) /\ Len(s) \in (Len(s) - MaxHist)..Len(s)
    BY <1>1, <2>1
  <2>3. SubSeq(s, Len(s) - MaxHist + 1, Len(s)) \in Seq(Hold)
    BY <2>1, <2>2
  <2> QED
    BY <1>1, <2>3 DEF archive
<1>2. CASE ~(Len(s) > MaxHist)
  BY <1>2 DEF archive
<1> QED
  BY <1>1, <1>2

(* Moving one goroutine to another program point keeps the type.           *)
LEMMA MovedResolver ==
  ASSUME NEW t \in [Resolver -> ResolverState], NEW x \in Resolver,
         NEW pc \in {"idle", "sleep", "send", "close", "done", "panic"}
  PROVE  [t EXCEPT ![x].pc = pc] \in [Resolver -> ResolverState]
  BY Zenon DEF ResolverState

(* What a timer sends is an answer (holds.go:156-160).                     *)
LEMMA OnTimeoutType == \A h : OnTimeout(h) \in {"approved", "denied"}
  BY DEF OnTimeout

(* A fresh hold (holds.go:57-80).                                          *)
LEMMA CreateHoldInv ==
  ASSUME HoldInv, NEW h \in Hold, Create(h)
  PROVE  HoldInv'
<1> USE DEF Resolver
<1>0. HoldTypeOK /\ OneResolver /\ ChannelState
  BY DEF HoldInv
<1>1. resolver[h].pc \notin {"send", "close"} /\ \A x \in Resolver : ~InHand(x, h)
  BY <1>0 DEF Create, OneResolver, InHand, Resolved
<1>2. HoldTypeOK'
  <2>1. resolver' \in [Resolver -> ResolverState]
    BY <1>0, MovedResolver, Zenon DEF Create, HoldTypeOK
  <2> QED
    BY <1>0, <2>1 DEF Create, HoldTypeOK, HoldState
<1>3. /\ Resolved' = Resolved /\ h \notin Resolved /\ UNCHANGED <<done, closed>>
      /\ \A g \in Hold \ {h} : reply'[g] = reply[g] /\ state'[g] = state[g]
      /\ reply'[h] = "created" /\ state'[h] = "pending"
  BY <1>0, SMTT(40) DEF Create, HoldTypeOK, Resolved
<1>4. OneResolver'
  <2>1. resolver'[h].pc = "sleep" /\ \A x \in Resolver \ {h} : resolver'[x] = resolver[x]
    BY <1>0 DEF Create, HoldTypeOK
  <2>2. \A x \in Resolver : resolver'[x].pc \in {"send", "close"} =>
            x # h /\ resolver'[x] = resolver[x] /\ resolver[x].hold # h
    BY <2>1, <1>1, SMTT(40) DEF InHand
  <2>3. \A x \in Resolver : resolver'[x].pc # "panic"
    BY <1>0, <2>1 DEF OneResolver
  <2>4. \A x, g \in Resolver : InHand(x, g)' => InHand(x, g)
    BY <2>2 DEF InHand
  <2>5. \A g \in Hold \ {h} : Word(g)' = Word(g) /\ (Unanswered(g)' <=> Unanswered(g))
    BY <1>3 DEF Word, Unanswered
  <2> QED
    BY <1>0, <1>3, <2>2, <2>3, <2>4, <2>5, SMTT(40) DEF OneResolver, Resolved
<1>5. ChannelState'
  BY <1>0, <1>3 DEF Create, ChannelState, Unanswered, Word, Resolved
<1> QED
  BY <1>2, <1>4, <1>5 DEF HoldInv

(* The critical section of resolve and runTimeout (holds.go:119-131,       *)
(* 141-155), entered with the hold in the map.                             *)
LEMMA TakeHoldInv ==
  ASSUME HoldInv, NEW x \in Resolver, NEW h \in Hold, NEW st \in {"approved", "denied", "timeout"},
         NEW v \in {"approved", "denied"}, v = (IF st = "timeout" THEN OnTimeout(h) ELSE st),
         h \in pending, resolver[x].pc \in {"idle", "sleep"}, x \in Hold => x = h,
         Take(x, h, st, v)
  PROVE  HoldInv'
<1> USE DEF Resolver
<1>0. HoldTypeOK /\ OneResolver /\ ChannelState
  BY DEF HoldInv
<1>1. \A y \in Resolver : ~InHand(y, h)
  BY <1>0 DEF OneResolver, ChannelState, InHand, Resolved
<1>2. HoldTypeOK'
  <2>1. history' \in Seq(Hold)
    BY <1>0, ArchiveType, Appended, Zenon DEF Take, HoldTypeOK
  <2>2. [pc |-> "send", hold |-> h, sends |-> v] \in ResolverState
    BY Zenon DEF ResolverState
  <2> QED
    BY <1>0, <2>1, <2>2, SMTT(40) DEF Take, HoldTypeOK, HoldState
<1>3. /\ state'[h] = st
      /\ \A g \in Hold \ {h} : state'[g] = state[g]
      /\ resolver'[x] = [pc |-> "send", hold |-> h, sends |-> v]
      /\ \A y \in Resolver \ {x} : resolver'[y] = resolver[y]
      /\ UNCHANGED <<done, closed, reply>> /\ pending' = pending \ {h}
      /\ Resolved' = Resolved \union {h}
  BY <1>0 DEF Take, HoldTypeOK, Resolved
<1>4. /\ Word(h)' = v /\ \A g \in Hold \ {h} : Word(g)' = Word(g)
      /\ \A g \in Hold : Unanswered(g)' <=> Unanswered(g)
  BY <1>3 DEF Word, Unanswered, OnTimeout
<1>5. /\ h \notin closed /\ done[h] = <<>> /\ reply[h] \in {"created", "waiting", "cancelled"}
      /\ h \notin Resolved
  BY <1>0, SMTT(40) DEF HoldTypeOK, ChannelState, Resolved
<1>6. OneResolver'
  <2>1. \A y \in Resolver, g \in Hold : InHand(y, g)' =>
          (y = x /\ g = h) \/ (y # x /\ g # h /\ InHand(y, g))
    BY <1>1, <1>3, SMTT(40) DEF InHand
  <2>2. \A y \in Resolver \ {x} : resolver'[y].pc \in {"send", "close"} => resolver[y].hold # h
    BY <1>1, <1>3, SMTT(40) DEF InHand
  <2> QED
    BY <1>0, <1>3, <1>4, <1>5, <2>1, <2>2, SMTT(40) DEF OneResolver, Resolved
<1>7. ChannelState'
  BY <1>0, <1>3, <1>4, <1>5, SMTT(40) DEF ChannelState, Resolved
<1> QED
  BY <1>2, <1>6, <1>7 DEF HoldInv

(* The timer of a hold that was resolved meanwhile (holds.go:143-147).     *)
LEMMA IdleTimerHoldInv ==
  ASSUME HoldInv, NEW h \in Hold, resolver[h].pc = "sleep",
         resolver' = [resolver EXCEPT ![h].pc = "done"],
         UNCHANGED <<pending, state, history, done, closed, reply>>
  PROVE  HoldInv'
<1> USE DEF Resolver
<1>0. HoldTypeOK /\ OneResolver /\ ChannelState
  BY DEF HoldInv
<1>1. HoldTypeOK'
  <2>1. resolver' \in [Resolver -> ResolverState]
    BY <1>0, MovedResolver, Zenon DEF HoldTypeOK
  <2> QED
    BY <1>0, <2>1 DEF HoldTypeOK
<1>2. OneResolver'
  <2>1. resolver'[h].pc = "done" /\ \A x \in Resolver \ {h} : resolver'[x] = resolver[x]
    BY <1>0 DEF HoldTypeOK
  <2> QED
    BY <1>0, <2>1 DEF OneResolver, InHand, Resolved, Word, Unanswered
<1>3. ChannelState'
  BY <1>0 DEF ChannelState, Resolved, Word, Unanswered
<1> QED
  BY <1>1, <1>2, <1>3, SMTT(40) DEF HoldInv

(* The send after the unlock (holds.go:132, 160).                          *)
LEMMA SendHoldInv ==
  ASSUME HoldInv, NEW x \in Resolver, Send(x)
  PROVE  HoldInv'
<1> DEFINE h == resolver[x].hold
           v == resolver[x].sends
<1>0. HoldTypeOK /\ OneResolver /\ ChannelState
  BY SMTT(40) DEF HoldInv
<1>1. /\ h \in Hold /\ h \in Resolved /\ h \notin closed /\ done[h] = <<>>
      /\ reply[h] \in {"created", "waiting", "cancelled"} /\ v = Word(h)
      /\ \A y \in Resolver \ {x} : ~InHand(y, h)
  BY <1>0, SMTT(40) DEF Send, OneResolver, Resolved
<1>2. v \in {"approved", "denied"}
  BY <1>1, OnTimeoutType, SMTT(40) DEF Word, Resolved
<1>3. /\ done' = [done EXCEPT ![h] = Append(<<>>, v)]
      /\ resolver' = [resolver EXCEPT ![x].pc = "close"]
      /\ UNCHANGED <<pending, state, history, closed, reply>>
  BY <1>0, <1>1, SMTT(40) DEF Send, HoldTypeOK
<1>4. /\ Append(<<>>, v) \in Seq({"approved", "denied"}) /\ Append(<<>>, v) # <<>>
      /\ Len(Append(<<>>, v)) = 1 /\ Head(Append(<<>>, v)) = v
  BY <1>2
<1>5. /\ resolver'[x].pc = "close" /\ resolver'[x].hold = h
      /\ \A y \in Resolver \ {x} : resolver'[y] = resolver[y]
      /\ done'[h] = Append(<<>>, v)
      /\ \A g \in Hold \ {h} : done'[g] = done[g]
  <2>1. resolver'[x].pc = "close" /\ resolver'[x].hold = h
    BY <1>0, <1>3, Zenon DEF HoldTypeOK, ResolverState
  <2>2. \A y \in Resolver \ {x} : resolver'[y] = resolver[y]
    BY <1>0, <1>3 DEF HoldTypeOK
  <2> HIDE DEF h, v
  <2> QED
    BY <1>0, <1>1, <1>3, <2>1, <2>2, SMTT(40) DEF HoldTypeOK
<1>6. HoldTypeOK'
  <2>1. resolver' \in [Resolver -> ResolverState]
    BY <1>0, <1>3, MovedResolver, Zenon DEF HoldTypeOK
  <2> QED
    BY <1>0, <1>1, <1>3, <1>4, <2>1, SMTT(40) DEF HoldTypeOK
<1>7. /\ Resolved' = Resolved
      /\ \A g \in Hold : Word(g)' = Word(g) /\ (Unanswered(g)' <=> Unanswered(g))
  BY <1>3, SMTT(40) DEF Resolved, Word, Unanswered
<1>8. OneResolver'
  <2>1. \A y \in Resolver, g \in Hold : InHand(y, g)' <=> InHand(y, g)
    BY <1>5 DEF InHand, Send
  <2>2. \A y \in Resolver \ {x} : resolver[y].pc \in {"send", "close"} => resolver[y].hold # h
    BY <1>1 DEF InHand
  <2>3. InHand(x, h)
    BY DEF InHand, Send
  <2> HIDE DEF h, v
  <2> QED
    BY <1>0, <1>1, <1>3, <1>4, <1>5, <1>7, <2>1, <2>2, <2>3, SMTT(40) DEF OneResolver, Resolved, InHand
<1>9. ChannelState'
  <2> HIDE DEF h, v
  <2> QED
    BY <1>0, <1>1, <1>3, <1>4, <1>5, <1>7, SMTT(40) DEF ChannelState
<1> QED
  BY <1>6, <1>8, <1>9, SMTT(40) DEF HoldInv

(* The close after the send (holds.go:133, 161).                           *)
LEMMA CloseHoldInv ==
  ASSUME HoldInv, NEW x \in Resolver, Close(x)
  PROVE  HoldInv'
<1> DEFINE h == resolver[x].hold
<1>0. HoldTypeOK /\ OneResolver /\ ChannelState
  BY DEF HoldInv
<1>1. /\ h \in Hold /\ h \in Resolved /\ h \notin closed
      /\ \A y \in Resolver \ {x} : ~InHand(y, h)
      /\ Unanswered(h) => done[h] # <<>>
  BY <1>0 DEF Close, OneResolver, Resolved
<1>2. PICK pc \in {"idle", "done"} : resolver' = [resolver EXCEPT ![x] = [Idle EXCEPT !.pc = pc]]
  BY <1>1, Zenon DEF Close
<1>3. [Idle EXCEPT !.pc = pc] \in ResolverState /\ [Idle EXCEPT !.pc = pc].pc = pc
  BY Zenon DEF Idle, ResolverState
<1>4. /\ closed' = closed \union {h}
      /\ UNCHANGED <<pending, state, history, done, reply>>
      /\ resolver'[x].pc = pc
      /\ \A y \in Resolver \ {x} : resolver'[y] = resolver[y]
  BY <1>0, <1>2, <1>3, Zenon DEF Close, HoldTypeOK
<1>5. HoldTypeOK'
  BY <1>0, <1>1, <1>2, <1>3, <1>4, SMTT(40) DEF HoldTypeOK
<1>6. /\ Resolved' = Resolved
      /\ \A g \in Hold : Word(g)' = Word(g) /\ (Unanswered(g)' <=> Unanswered(g))
  BY <1>4, SMTT(40) DEF Resolved, Word, Unanswered
<1>7. OneResolver'
  <2>1. \A y \in Resolver : resolver'[y].pc \in {"send", "close"} =>
            y # x /\ resolver'[y] = resolver[y] /\ resolver[y].hold # h
    BY <1>1, <1>4, SMTT(40) DEF InHand
  <2>2. \A y \in Resolver, g \in Hold : InHand(y, g)' => InHand(y, g)
    BY <2>1, SMTT(40) DEF InHand
  <2>3. \A y \in Resolver : resolver'[y].pc # "panic"
    BY <1>0, <1>4 DEF OneResolver
  <2> HIDE DEF h
  <2>4. closed' \subseteq closed \union {h} /\ done' = done /\ reply' = reply
    BY <1>4
  <2>5. ASSUME NEW y \in Resolver, resolver'[y].pc \in {"send", "close"}
        PROVE  /\ resolver'[y] = resolver[y]
               /\ \E g \in Hold :
                     /\ g = resolver[y].hold /\ g \in Resolved' /\ g \notin closed'
                     /\ y \in Hold => g = y
                     /\ \A z \in Resolver : InHand(z, g)' => z = y
    <3>1. resolver'[y] = resolver[y] /\ resolver[y].hold # h
      BY <2>1, <2>5, Zenon
    <3>2. PICK g \in Hold : g = resolver[y].hold /\ g # h
      BY <1>0, <2>5, <3>1, SMTT(40) DEF OneResolver, Resolved
    <3>3. /\ g \in Resolved /\ g \notin closed /\ (y \in Hold => g = y)
          /\ \A z \in Resolver : InHand(z, g) => z = y
      BY <1>0, <2>5, <3>1, <3>2, ZenonT(40) DEF OneResolver
    <3>4. g \in Resolved' /\ g \notin closed'
      BY <1>6, <2>4, <3>2, <3>3, SMTT(40)
    <3> QED BY <2>2, <3>1, <3>2, <3>3, <3>4, Zenon
  <2>6. ASSUME NEW y \in Resolver, resolver'[y].pc = "send"
        PROVE  /\ done'[resolver'[y].hold] = <<>>
               /\ reply'[resolver'[y].hold] \in {"created", "waiting", "cancelled"}
               /\ resolver'[y].sends = Word(resolver[y].hold)'
    BY <1>0, <1>6, <2>4, <2>5, <2>6, SMTT(40) DEF OneResolver
  <2>7. ASSUME NEW y \in Resolver, resolver'[y].pc = "close", Unanswered(resolver[y].hold)'
        PROVE  done'[resolver'[y].hold] # <<>>
    BY <1>0, <1>6, <2>4, <2>5, <2>7, SMTT(40) DEF OneResolver
  <2> QED BY <2>3, <2>5, <2>6, <2>7, SMTT(40) DEF OneResolver
<1>8. ChannelState'
  <2> HIDE DEF h
  <2> QED
    BY <1>0, <1>1, <1>4, <1>6, Zenon DEF ChannelState
<1> QED
  BY <1>5, <1>7, <1>8 DEF HoldInv

-----------------------------------------------------------------------------
(* The RPC's own steps change nothing but its reply, and take from the     *)
(* channel (server.go:86-101).                                             *)
LEMMA ReplyHoldInv ==
  ASSUME HoldInv, NEW h \in Hold, NEW r \in {"waiting", "cancelled"},
         Unanswered(h), reply' = [reply EXCEPT ![h] = r],
         UNCHANGED <<pending, state, history, done, closed, resolver>>
  PROVE  HoldInv'
<1>0. HoldTypeOK /\ OneResolver /\ ChannelState
  BY DEF HoldInv
<1>1. HoldTypeOK'
  BY <1>0 DEF HoldTypeOK
<1>2. /\ reply'[h] = r /\ \A g \in Hold \ {h} : reply'[g] = reply[g]
      /\ reply[h] \in {"created", "waiting"}
      /\ \A g \in Hold : Unanswered(g)' => Unanswered(g)
      /\ Resolved' = Resolved /\ \A g \in Hold : Word(g)' = Word(g)
  BY <1>0, SMTT(40) DEF HoldTypeOK, Unanswered, Resolved, Word
<1>3. OneResolver'
  BY <1>0, <1>2, SMTT(40) DEF OneResolver, InHand, Resolved
<1>4. ChannelState'
  BY <1>0, <1>2 DEF ChannelState
<1> QED
  BY <1>1, <1>3, <1>4, SMTT(40) DEF HoldInv

(* The receive takes the one word there is.                                *)
LEMMA ReceiveFacts ==
  ASSUME HoldInv, NEW h \in Hold, Receive(h)
  PROVE  /\ h \in Resolved
         /\ reply' = [reply EXCEPT ![h] = Word(h)]
         /\ done' = [done EXCEPT ![h] = <<>>]
<1>0. HoldTypeOK /\ ChannelState
  BY DEF HoldInv
<1>1. done[h] # <<>> /\ h \in Resolved
  BY <1>0, Zenon DEF Receive, ChannelState, Unanswered
<1>2. Len(done[h]) = 1 /\ Head(done[h]) = Word(h)
  BY <1>0, <1>1 DEF ChannelState
<1>3. done[h] \in Seq({"approved", "denied"})
  BY <1>0, SMTT(40) DEF HoldTypeOK
<1>4. Tail(done[h]) \in Seq({"approved", "denied"}) /\ Len(Tail(done[h])) = 0
  BY <1>1, <1>2, <1>3, SMTT(40)
<1>5. Tail(done[h]) = <<>>
  BY <1>4, EmptyIs, Zenon
<1>6. reply' = [reply EXCEPT ![h] = Head(done[h])]
  BY <1>1 DEF Receive
<1>7. done' = [done EXCEPT ![h] = Tail(done[h])]
  BY <1>0, <1>1 DEF Receive, HoldTypeOK
<1> QED
  BY <1>1, <1>2, <1>5, <1>6, <1>7, Zenon

(* CreateHold takes the decision off the channel.                          *)
LEMMA ReceiveHoldInv ==
  ASSUME HoldInv, NEW h \in Hold, Receive(h)
  PROVE  HoldInv'
<1>0. HoldTypeOK /\ OneResolver /\ ChannelState
  BY DEF HoldInv
<1>1. /\ h \in Resolved /\ reply' = [reply EXCEPT ![h] = Word(h)]
      /\ done' = [done EXCEPT ![h] = <<>>]
      /\ reply[h] = "waiting" /\ (done[h] # <<>> \/ h \in closed)
      /\ UNCHANGED <<pending, state, history, closed, resolver>>
  BY ReceiveFacts, Zenon DEF Receive
<1>2. Word(h) \in {"approved", "denied"}
  BY <1>1, OnTimeoutType, SMTT(40) DEF Word, Resolved
<1>3. HoldTypeOK'
  BY <1>0, <1>1, <1>2, SMTT(40) DEF HoldTypeOK
<1>4. /\ reply'[h] = Word(h) /\ done'[h] = <<>>
      /\ \A g \in Hold \ {h} : reply'[g] = reply[g] /\ done'[g] = done[g]
      /\ \A g \in Hold : Unanswered(g)' <=> g # h /\ Unanswered(g)
      /\ Resolved' = Resolved /\ \A g \in Hold : Word(g)' = Word(g)
  BY <1>0, <1>1, <1>2, SMTT(40) DEF HoldTypeOK, Unanswered, Resolved, Word
<1>5. \A x \in Resolver : resolver[x].pc = "send" => resolver[x].hold # h
  BY <1>0, <1>1, Zenon DEF OneResolver
<1>6. OneResolver'
  <2>1. /\ \A x \in Resolver : resolver[x].pc \in {"send", "close"} => resolver[x].hold \in Hold
        /\ \A x, g : InHand(x, g)' <=> InHand(x, g)
    BY <1>0, <1>1, Zenon DEF OneResolver, InHand, Resolved
  <2>2. ASSUME NEW x \in Resolver
        PROVE  /\ resolver'[x].pc # "panic"
               /\ resolver'[x].pc \in {"send", "close"} =>
                     /\ resolver'[x].hold \in Resolved'
                     /\ resolver'[x].hold \notin closed'
                     /\ x \in Hold => resolver'[x].hold = x
    BY <1>0, <1>1, <1>4, Zenon DEF OneResolver
  <2>3. ASSUME NEW x \in Resolver, resolver[x].pc \in {"send", "close"}, NEW y \in Resolver,
               InHand(y, resolver[x].hold)
        PROVE  y = x
    BY <1>0, <2>3, Zenon DEF OneResolver
  <2>4. ASSUME NEW x \in Resolver, resolver[x].pc = "send", NEW g, g = resolver[x].hold
        PROVE  /\ done'[g] = <<>> /\ reply'[g] \in {"created", "waiting", "cancelled"}
               /\ resolver[x].sends = Word(g)'
    <3>1. done[g] = <<>> /\ reply[g] \in {"created", "waiting", "cancelled"} /\ resolver[x].sends = Word(g)
      BY <1>0, <2>4, Zenon DEF OneResolver
    <3>2. g \in Hold \ {h}
      BY <1>5, <2>1, <2>4, Zenon
    <3> QED BY <1>4, <3>1, <3>2, Zenon
  <2>5. ASSUME NEW x \in Resolver, resolver[x].pc = "close", NEW g, g = resolver[x].hold, Unanswered(g)'
        PROVE  done'[g] # <<>>
    <3>1. g \in Hold
      BY <2>1, <2>5, SMTT(40)
    <3>2. g # h /\ Unanswered(g)
      BY <1>4, <2>5, <3>1, Zenon
    <3>3. done[g] # <<>>
      BY <1>0, <2>5, <3>2, Zenon DEF OneResolver
    <3> QED BY <1>4, <3>1, <3>2, <3>3, SMTT(40)
  <2>6. resolver' = resolver
    BY <1>1, Zenon
  <2>7. \A x \in Resolver : resolver'[x].pc \in {"send", "close"} =>
            \A y \in Resolver : InHand(y, resolver[x].hold)' => y = x
    BY <2>1, <2>3, <2>6, Zenon
  <2>8. \A x \in Resolver : resolver'[x].pc = "send" =>
            /\ done'[resolver'[x].hold] = <<>>
            /\ reply'[resolver'[x].hold] \in {"created", "waiting", "cancelled"}
            /\ resolver'[x].sends = Word(resolver[x].hold)'
    BY <2>4, <2>6, Zenon
  <2>9. \A x \in Resolver : resolver'[x].pc = "close" /\ Unanswered(resolver[x].hold)' =>
            done'[resolver'[x].hold] # <<>>
    BY <2>5, <2>6, Zenon
  <2> QED BY <2>2, <2>7, <2>8, <2>9, Zenon DEF OneResolver
<1>7. ChannelState'
  BY <1>0, <1>1, <1>2, <1>4, SMTT(40) DEF ChannelState, Resolved
<1> QED
  BY <1>3, <1>6, <1>7, SMTT(40) DEF HoldInv

-----------------------------------------------------------------------------
(* An admin resolves a hold that is still in the map.                      *)
LEMMA ResolveHoldInv ==
  ASSUME HoldInv, NEW a \in Admin, NEW h \in Hold, NEW v \in {"approved", "denied"}, Resolve(a, h, v)
  PROVE  HoldInv'
<1>1. a \in Resolver /\ a \notin Hold
  BY HoldStoreAssumption DEF Resolver
<1>2. h \in pending /\ resolver[a].pc \in {"idle", "sleep"} /\ Take(a, h, v, v)
  BY DEF Resolve
<1> QED
  BY <1>1, <1>2, TakeHoldInv

(* The timer of a hold finds it in the map, or finds it gone.              *)
LEMMA TimerHoldInv ==
  ASSUME HoldInv, NEW h \in Hold, RunTimeout(h)
  PROVE  HoldInv'
<1>1. CASE h \in pending
  <2>1. h \in Resolver /\ resolver[h].pc \in {"idle", "sleep"}
        /\ Take(h, h, "timeout", OnTimeout(h))
    BY <1>1 DEF RunTimeout, Resolver
  <2> QED
    BY <1>1, <2>1, OnTimeoutType, TakeHoldInv, SMTT(40)
<1>2. CASE h \notin pending
  BY <1>2, IdleTimerHoldInv DEF RunTimeout
<1> QED
  BY <1>1, <1>2

(* Every step of the hold store preserves its invariant.                   *)
LEMMA NextHoldInv == HoldInv /\ [HoldNext]_holdVars => HoldInv'
<1> SUFFICES ASSUME HoldInv, [HoldNext]_holdVars PROVE HoldInv'
  OBVIOUS
<1>1. ASSUME NEW a \in Admin, NEW h \in Hold, NEW v \in {"approved", "denied"}, Resolve(a, h, v)
      PROVE  HoldInv'
  BY <1>1, ResolveHoldInv
<1>2. ASSUME NEW h \in Hold, RunTimeout(h) PROVE HoldInv'
  BY <1>2, TimerHoldInv
<1>3. ASSUME NEW x \in Resolver, Send(x) PROVE HoldInv'
  BY <1>3, SendHoldInv
<1>4. ASSUME NEW x \in Resolver, Close(x) PROVE HoldInv'
  BY <1>4, CloseHoldInv
<1>5. ASSUME NEW h \in Hold, Create(h) PROVE HoldInv'
  BY <1>5, CreateHoldInv
<1>6. ASSUME NEW h \in Hold, Receive(h) PROVE HoldInv'
  BY <1>6, ReceiveHoldInv
<1>7. ASSUME NEW h \in Hold, Await(h) \/ Cancel(h) PROVE HoldInv'
  BY <1>7, ReplyHoldInv DEF Await, Cancel, Unanswered
<1>8. CASE UNCHANGED holdVars
  <2>1. HoldTypeOK'
    BY <1>8 DEF holdVars, HoldInv, HoldTypeOK
  <2>2. /\ resolver' = resolver /\ state' = state /\ closed' = closed /\ done' = done
        /\ reply' = reply /\ pending' = pending
    BY <1>8 DEF holdVars
  <2>3. Resolved' = Resolved /\ \A h : Word(h)' = Word(h)
    BY <2>2 DEF Resolved, Word
  <2>4. \A h : /\ Unanswered(h)' <=> Unanswered(h)
              /\ \A y : InHand(y, h)' <=> InHand(y, h)
    BY <2>2 DEF Unanswered, InHand
  <2>5. OneResolver'
    BY <2>2, <2>3, <2>4, Zenon DEF HoldInv, OneResolver
  <2>6. ChannelState'
    BY <2>2, <2>3, <2>4, Zenon DEF HoldInv, ChannelState
  <2> QED BY <2>1, <2>5, <2>6, SMTT(40) DEF HoldInv
<1> QED
  BY <1>1, <1>2, <1>3, <1>4, <1>5, <1>6, <1>7, <1>8, SMTT(40) DEF HoldNext, ResolverStep

(* The invariant of the hold store, in every reachable state.              *)
LEMMA HoldInvariant == HoldSpec => []HoldInv
  BY InitHoldInv, NextHoldInv, PTL DEF HoldSpec

-----------------------------------------------------------------------------
(* The refinement: state is the verdict, the RPC's reply the answer.       *)
AnswerOf ==
    [h \in Hold |-> IF reply[h] \in {"none", "created", "waiting"} THEN "none"
                    ELSE IF reply[h] = "approved" THEN "granted" ELSE "refused"]

(* The refinement of HoldContract: initial states.                         *)
LEMMA InitContract == HoldInit => Contract!Init
  BY DEF HoldInit, Contract!Init

(* Every step of the store is a step of the contract, or none of its       *)
(* business.                                                               *)
LEMMA StepContract == HoldInv /\ [HoldNext]_holdVars => [Contract!Next]_(Contract!vars)
<1> SUFFICES ASSUME HoldInv, [HoldNext]_holdVars PROVE [Contract!Next]_(Contract!vars)
  OBVIOUS
<1> USE DEF Contract!vars, Contract!Verdict
<1>0. HoldTypeOK /\ ChannelState
  BY DEF HoldInv
<1>1. ASSUME NEW h \in Hold, NEW st \in {"approved", "denied", "timeout"}, h \in pending,
             state' = [state EXCEPT ![h] = st], UNCHANGED reply
      PROVE  Contract!Next
  <2>1. Contract!Decide(h, st)
    BY <1>0, <1>1 DEF Contract!Decide, ChannelState
  <2> QED
    BY <2>1, SMTT(40) DEF Contract!Next
<1>2. ASSUME NEW a \in Admin, NEW h \in Hold, NEW v \in {"approved", "denied"}, Resolve(a, h, v)
      PROVE  Contract!Next
  BY <1>1, <1>2, Zenon DEF Resolve, Take
<1>3. ASSUME NEW h \in Hold, RunTimeout(h) PROVE [Contract!Next]_(Contract!vars)
  BY <1>1, <1>3, SMTT(40) DEF RunTimeout, Take
<1>4. ASSUME NEW x \in Resolver, Send(x) \/ Close(x) PROVE UNCHANGED Contract!vars
  BY <1>4 DEF Send, Close
<1>5. ASSUME NEW h \in Hold, Create(h) PROVE Contract!Next
  <2>1. AnswerOf' = AnswerOf
    BY <1>0, <1>5 DEF Create, ChannelState, HoldTypeOK, AnswerOf
  <2>2. Contract!Open(h)
    BY <1>5, <2>1, SMTT(40) DEF Create, Contract!Open, AnswerOf
  <2> QED
    BY <2>2 DEF Contract!Next
<1>6. ASSUME NEW h \in Hold, Await(h) PROVE UNCHANGED Contract!vars
  <2>1. AnswerOf' = AnswerOf
    BY <1>0, <1>6, SMTT(40) DEF Await, HoldTypeOK, AnswerOf
  <2> QED
    BY <1>6, <2>1, SMTT(40) DEF Await, AnswerOf
<1>7. ASSUME NEW h \in Hold, Receive(h) PROVE Contract!Next
  <2>1. /\ h \in Resolved /\ reply[h] = "waiting" /\ UNCHANGED state
        /\ reply' = [reply EXCEPT ![h] = Word(h)] /\ Word(h) \in {"approved", "denied"}
    BY <1>7, ReceiveFacts, OnTimeoutType, Zenon DEF Receive, Word, Resolved
  <2>2. reply'[h] = Word(h) /\ \A g \in Hold \ {h} : reply'[g] = reply[g]
    BY <1>0, <2>1 DEF HoldTypeOK
  <2>3. AnswerOf' = [AnswerOf EXCEPT ![h] = Contract!Means(h, state[h])]
    BY <2>1, <2>2, Zenon DEF AnswerOf, Contract!Means, Word, OnTimeout, Resolved
  <2>4. Contract!Answer(h)
    BY <2>1, <2>3, SMTT(40) DEF Contract!Answer, AnswerOf, Resolved
  <2> QED
    BY <2>4 DEF Contract!Next
<1>8. ASSUME NEW h \in Hold, Cancel(h) PROVE Contract!Next
  <2>1. /\ reply[h] = "waiting" /\ UNCHANGED state /\ state[h] # "none"
        /\ reply' = [reply EXCEPT ![h] = "cancelled"]
    BY <1>0, <1>8 DEF Cancel, ChannelState
  <2>2. AnswerOf' = [AnswerOf EXCEPT ![h] = "refused"]
    BY <1>0, <2>1, Zenon DEF AnswerOf, HoldTypeOK
  <2>3. Contract!Leave(h)
    BY <2>1, <2>2 DEF Contract!Leave, AnswerOf
  <2> QED
    BY <2>3, SMTT(40) DEF Contract!Next
<1>9. CASE UNCHANGED holdVars
  BY <1>9 DEF holdVars
<1> QED
  BY <1>2, <1>3, <1>4, <1>5, <1>6, <1>7, <1>8, <1>9, Zenon DEF HoldNext, ResolverStep

(* The hold store implements HoldContract.                                 *)
LEMMA HoldsContract == HoldSpec => ContractSpec
  BY InitContract, StepContract, HoldInvariant, PTL
     DEF HoldSpec, ContractSpec, Contract!Spec

-----------------------------------------------------------------------------
(* The composed controller.  What a handler carries, and that no step does *)
(* more to the stores than StoreNext says.                                 *)
RpcInv ==
    /\ now \in Nat
    /\ left \in [Rpc \union {"Tick"} -> Nat]
    /\ rpc \in [Handler -> [pc : {"ready", "event", "alert", "hold"},
                            event : Event \union {NoEvent}, alert : Event \union {NoEvent},
                            hold : Hold \union {NoHold}]]
    /\ \A c \in Handler :
          /\ rpc[c].pc = "event" => rpc[c].event \in Event
          /\ rpc[c].pc = "alert" => rpc[c].alert \in Event
          /\ rpc[c].pc = "hold" => rpc[c].hold \in Hold

(* What the RPCs record are events.                                        *)
LEMMA EventTypes ==
    /\ \A tool \in Tool, i \in Identity \union {NoKey} :
          /\ MkEvent("budget.check", tool, i) \in Event
          /\ MkEvent("budget.denied", tool, i) \in Event
          /\ MkEvent("hold.created", tool, i) \in Event
    /\ MkEvent("sidecar.registered", "", NoKey) \in Event
  BY ControllerAssumption, Zenon DEF MkEvent, Event

(* An RPC that made its first store call has its event, alert or hold to   *)
(* go on with.                                                             *)
LEMMA ServeRpc ==
    ASSUME RpcInv, NEW c \in Handler, NEW name \in Rpc, NEW event \in Event,
           NEW alert \in Event \union {NoEvent}, NEW hold \in Hold \union {NoHold},
           Serve(c, name, event, alert, hold)
    PROVE  RpcInv'
<1> USE DEF RpcInv, Serve
<1>1. left' \in [Rpc \union {"Tick"} -> Nat]
  OBVIOUS
<1>2. PICK r : r = [pc |-> "event", event |-> event, alert |-> alert, hold |-> hold]
  OBVIOUS
<1>3. rpc'[c] = r /\ (\A d \in Handler \ {c} : rpc'[d] = rpc[d]) /\ DOMAIN rpc' = Handler
  BY <1>2, SMTT(40)
<1>4. rpc' = [rpc EXCEPT ![c] = r]
  BY <1>2
<1> QED BY <1>1, <1>2, <1>3, <1>4, SMTT(40)

(* A handler goes on to pc q with what it had, or is ready again.          *)
LEMMA ProceedRpc ==
    ASSUME RpcInv, NEW c \in Handler, UNCHANGED <<now, left>>,
           NEW q \in {"alert", "hold"},
           q = "alert" => rpc[c].alert \in Event,
           q = "hold" => rpc[c].hold \in Hold,
           rpc' = [rpc EXCEPT ![c] = Ready] \/ rpc' = [rpc EXCEPT ![c].pc = q]
    PROVE  RpcInv'
<1>1. CASE rpc' = [rpc EXCEPT ![c] = Ready]
  BY <1>1 DEF RpcInv, Ready
<1>2. CASE rpc' = [rpc EXCEPT ![c].pc = q]
  BY <1>2, SMTT(40) DEF RpcInv
<1> QED BY <1>1, <1>2, SMTT(40)

(* No handler is busy at the start.                                        *)
LEMMA RpcInit == Init => RpcInv
<1> SUFFICES ASSUME Init PROVE RpcInv
  OBVIOUS
<1>1. left \in [Rpc \union {"Tick"} -> Nat]
  BY ControllerAssumption, Zenon DEF Init
<1>2. now \in Nat
  BY DEF Init, StoresInit
<1>3. /\ rpc = [c \in Handler |-> Ready]
      /\ Ready \in [pc : {"ready", "event", "alert", "hold"},
                    event : Event \union {NoEvent}, alert : Event \union {NoEvent},
                    hold : Hold \union {NoHold}]
      /\ Ready.pc = "ready"
  BY DEF Init, Ready
<1> HIDE DEF Ready
<1> QED BY <1>1, <1>2, <1>3, SMTT(40) DEF RpcInv

(* Every step of the controller keeps RpcInv, moves the stores by          *)
(* StoreNext and the holds by HoldNext or not at all.                      *)
StepsWell == RpcInv' /\ StoreNext /\ (HoldNext \/ UNCHANGED holdVars)

(* What an arriving RPC does to the stores is one of the store operations. *)
LEMMA ArriveStep == ASSUME RpcInv, NEW c \in Handler, Arrive(c) PROVE StepsWell
<1>1. ASSUME NEW tool \in Tool, NEW who \in Caller, NEW n \in Tokens,
             CheckBudget(c, tool, who[1], who[2], n)
      PROVE  StepsWell
  <2>1. who[1] \in Identity \union {NoKey} /\ who[2] \in Session \union {NoKey} /\ n \in Nat
    BY ControllerAssumption
  <2>2. PICK alert \in Event \union {NoEvent} :
            Serve(c, "CheckBudget", MkEvent("budget.check", tool, who[1]), alert, NoHold)
    BY <1>1, <2>1, EventTypes, Zenon DEF CheckBudget
  <2>3. RpcInv'
    BY <2>1, <2>2, ServeRpc, EventTypes, Zenon DEF Rpc
  <2> QED BY <1>1, <2>1, <2>3, Zenon DEF CheckBudget, Serve, StepsWell, StoreNext
<1>2. ASSUME NEW tool \in Tool, NEW i \in Identity, NEW h \in Hold, CreateHold(c, tool, i, h)
      PROVE  StepsWell
  <2>1. MkEvent("hold.created", tool, i) \in Event
    BY EventTypes, Zenon
  <2>2. RpcInv'
    BY <1>2, <2>1, ServeRpc, SMTT(40) DEF CreateHold, Rpc
  <2> QED BY <1>2, <2>2, Zenon DEF CreateHold, Serve, StepsWell, StoreNext, HoldNext
<1>3. ASSUME NEW e \in Reported, ReportEvent(c, e) PROVE StepsWell
  <2>1. e \in Event
    BY ControllerAssumption
  <2>2. RpcInv'
    BY <1>3, <2>1, ServeRpc, SMTT(40) DEF ReportEvent, Rpc
  <2> QED BY <1>3, <2>2, SMTT(40) DEF ReportEvent, Serve, StepsWell, StoreNext
<1>4. ASSUME NEW p \in Pod, RegisterSidecar(c, p) PROVE StepsWell
  <2>1. RpcInv'
    BY <1>4, ServeRpc, EventTypes, ZenonT(40) DEF RegisterSidecar, Rpc
  <2> QED BY <1>4, <2>1, Zenon DEF RegisterSidecar, Serve, StepsWell, StoreNext
<1> QED BY <1>1, <1>2, <1>3, <1>4, SMTT(40) DEF Arrive

(* So is what a handler does next, or when its client leaves.              *)
LEMMA ProceedStep ==
    ASSUME RpcInv, NEW c \in Handler, Proceed(c) \/ GiveUp(c) PROVE StepsWell
<1> USE DEF StepsWell, StoreNext, storeVars
<1>0. rpc[c].hold \in Hold \union {NoHold} /\ rpc[c].alert \in Event \union {NoEvent}
  BY DEF RpcInv
<1>1. CASE AddEvent(c)
  <2>1. rpc' = [rpc EXCEPT ![c] = Ready] \/
        (rpc' = [rpc EXCEPT ![c].pc = "alert"] /\ rpc[c].alert \in Event)
    BY <1>0, <1>1, Zenon DEF AddEvent, RpcInv
  <2>2. RpcInv'
    <3>1. CASE rpc' = [rpc EXCEPT ![c] = Ready]
      BY <1>1, <3>1 DEF AddEvent, RpcInv, Ready
    <3>2. CASE rpc' = [rpc EXCEPT ![c].pc = "alert"] /\ rpc[c].alert \in Event
      BY <1>1, <3>2, ProceedRpc, Zenon DEF AddEvent
    <3> QED BY <2>1, <3>1, <3>2, SMTT(40)
  <2>3. rpc[c].event \in Event
    BY <1>1, SMTT(40) DEF AddEvent, RpcInv
  <2> QED BY <1>1, <2>2, <2>3, SMTT(40) DEF AddEvent
<1>2. CASE RaiseAlert(c)
  <2>1. rpc[c].alert \in Event
    BY <1>2 DEF RaiseAlert, RpcInv
  <2>2. CASE rpc[c].hold = NoHold
    <3>1. RpcInv'
      BY <1>2, <2>1, <2>2, ProceedRpc, SMTT(40) DEF RaiseAlert
    <3> QED BY <1>2, <2>1, <2>2, <3>1, SMTT(40) DEF RaiseAlert
  <2>3. CASE rpc[c].hold # NoHold
    <3>1. rpc[c].hold \in Hold
      BY <1>0, <2>3, SMTT(40)
    <3>2. RpcInv'
      BY <1>2, <2>3, <3>1, ProceedRpc, SMTT(40) DEF RaiseAlert
    <3> QED BY <1>2, <2>1, <2>3, <3>1, <3>2, SMTT(40) DEF RaiseAlert, HoldNext
  <2> QED BY <2>2, <2>3, SMTT(40)
<1>3. CASE Answer(c) \/ GiveUp(c)
  <2>1. rpc[c].hold \in Hold
    BY <1>3 DEF Answer, GiveUp, RpcInv
  <2>2. RpcInv'
    BY <1>3, <2>1, ProceedRpc, SMTT(40) DEF Answer, GiveUp
  <2> QED BY <1>3, <2>1, <2>2, SMTT(40) DEF Answer, GiveUp, HoldNext
<1> QED BY <1>1, <1>2, <1>3, Zenon DEF Proceed

(* Every step of the controller is at most one store operation and keeps   *)
(* the handlers in order.                                                  *)
LEMMA Steps == RpcInv /\ [Next]_vars => StepsWell
<1> SUFFICES ASSUME RpcInv, [Next]_vars PROVE StepsWell
  BY SMTT(40)
<1> USE DEF StepsWell, StoreNext, storeVars
<1>1. ASSUME NEW c \in Handler, Arrive(c) \/ Proceed(c) \/ GiveUp(c) PROVE StepsWell
  BY <1>1, ArriveStep, ProceedStep, Zenon
<1>2. CASE ResolverStep /\ UNCHANGED <<storeVars, rpc, left>>
  BY <1>2, SMTT(40) DEF RpcInv, HoldNext
<1>3. CASE Sweep /\ UNCHANGED <<holdVars, now, eventVars, alertVars, rpc, left>>
  BY <1>3, SMTT(40) DEF RpcInv, Sweep
<1>4. CASE GetUsage /\ UNCHANGED <<holdVars, now, eventVars, alertVars, sidecarVars, rpc, left>>
  BY <1>4, SMTT(40) DEF RpcInv
<1>5. CASE TimePasses
  BY <1>5, SMTT(40) DEF RpcInv, TimePasses, Tick
<1>6. CASE UNCHANGED vars
  BY <1>6 DEF RpcInv, vars
<1> QED BY <1>1, <1>2, <1>3, <1>4, <1>5, <1>6, Zenon DEF Next

-----------------------------------------------------------------------------
ControllerInv == RpcInv /\ StoresInv

(* The invariant of the controller, in every reachable state.              *)
LEMMA ControllerInvariant == Spec => []ControllerInv
<1>1. Init => ControllerInv
  BY RpcInit, StoresStart, SMTT(40) DEF Init, ControllerInv
<1>2. ControllerInv /\ [Next]_vars => ControllerInv'
  BY Steps, StoresStep, SMTT(40) DEF ControllerInv, StepsWell
<1> QED BY <1>1, <1>2, PTL DEF Spec

(* Within the controller the holds behave as they do alone.                *)
LEMMA HoldsAlone == Spec => HoldSpec
<1>1. Init => HoldInit
  BY DEF Init
<1>2. ControllerInv /\ [Next]_vars => [HoldNext]_holdVars
  BY Steps, SMTT(40) DEF ControllerInv, StepsWell
<1> QED BY <1>1, <1>2, ControllerInvariant, PTL DEF Spec, HoldSpec

-----------------------------------------------------------------------------
(* For any number of handlers, admins, timers and RPCs that end early,     *)
(* whoever resolved a hold finds its channel open and empty: the send and  *)
(* the close after the unlock neither block nor panic (holds.go:132-133,   *)
(* 156-161).                                                               *)
THEOREM ControllerNeverBlocks == Spec => []NobodyBlocks
<1>1. HoldInv => NobodyBlocks
  BY Zenon DEF HoldInv, OneResolver, NobodyBlocks
<1> QED
  BY <1>1, HoldsAlone, HoldInvariant, PTL

(* The controller's holds keep the promise of HoldContract, with callers   *)
(* that may leave and expiries that may grant, whatever its other handlers *)
(* do (holds.go:57-162, server.go:86-101).                                 *)
THEOREM ControllerKeepsContract == Spec => ContractSpec
  BY HoldsAlone, HoldsContract, PTL

(* Types, and that no window of calls ever holds more timestamps than its  *)
(* limit: what BudgetStore keeps per key is bounded (budget.go:64-107).    *)
THEOREM ControllerTypeCorrect == Spec => []TypeOK
<1>1. ControllerInv /\ HoldInv => TypeOK
  <2> SUFFICES ASSUME ControllerInv, HoldInv PROVE TypeOK
    OBVIOUS
  <2>1. HoldTypeOK /\ RpcInv /\ RingInv /\ BudgetInv
    BY DEF ControllerInv, StoresInv, HoldInv
  <2>2. pos \in 0..(Size - 1) /\ count \in 0..Size
    <3>1. Len(logged) \in Nat
      BY <2>1, SMTT(40) DEF RingInv
    <3> QED BY <2>1, <3>1, WidthTypes, SMTT(40) DEF RingInv
  <2>3. \A k \in BudgetKey : Len(budgets[k].hourly) <= MaxCallsPerHour
                             /\ Len(budgets[k].daily) <= MaxCallsPerDay
    BY <2>1 DEF BudgetInv, Keeps, WithinLimits
  <2> QED BY <2>1, <2>2, <2>3, SMTT(40) DEF RpcInv, TypeOK
<1> QED BY <1>1, ControllerInvariant, HoldsAlone, HoldInvariant, PTL

(* However often the ring wrapped, the admin endpoint lists the newest     *)
(* Size events, each once and newest first, and no sweep loses a sidecar   *)
(* that registered within the TTL (events.go:48-81, registry.go:34-81).    *)
THEOREM AdminsSeeRecent == Spec => []AdminSeesRecent
  BY ControllerInvariant, ListsRecent, PTL DEF ControllerInv

(* For any windows and limits: no key is posted twice within the dedupe    *)
(* window, no minute sees more than maxPerMin posts, and what is           *)
(* suppressed as a duplicate was posted (alerter.go:53-81).                *)
THEOREM AlertsDisciplined == Spec => []AlertDiscipline
  BY ControllerInvariant, AlertsApart, PTL DEF ControllerInv

(* For any limits, callers and interleaving with refusals, listings and    *)
(* sweeps: per identity and session the calls let through stay within the  *)
(* hour's and the day's limit, none comes after its day's tokens are used  *)
(* up, and the windows on record are exactly the calls let through, so     *)
(* nobody is refused for calls they did not make (budget.go:64-197).       *)
THEOREM BudgetsKept == Spec => []BudgetKept
  BY ControllerInvariant, BudgetsWithin, PTL DEF ControllerInv
=============================================================================
