----------------------- MODULE ControllerStoresProofs -----------------------
(***************************************************************************)
(* The controller's stores, for any limits and widths: the ring lists what *)
(* happened last, the registry forgets no sidecar that is alive, the       *)
(* alerter is quiet but not deaf, and shared budgets are kept.             *)
(*                                                                         *)
(* Each store has an invariant of its own, which ties what it keeps to the *)
(* history the properties speak of.  StoreNext bounds what a step of the   *)
(* controller may do to the stores; ControllerProofs shows that every step *)
(* stays within it.                                                        *)
(***************************************************************************)
EXTENDS ControllerStores, WindowsProofs, TLAPS

(* One step: at most one method of each store, and no store is written     *)
(* when the clock ticks.                                                   *)
StoreNext ==
    /\ now' = now \/ (now' = now + 1 /\ UNCHANGED <<alertVars, budgetVars, sidecarVars>>)
    /\ UNCHANGED eventVars \/ \E e \in Event : Add(e)
    /\ UNCHANGED alertVars \/ \E e \in Event : Alert(e)
    /\ \/ UNCHANGED budgetVars \/ GetUsage \/ SweepBudgets
       \/ \E i \in Identity \union {NoKey}, s \in Session \union {NoKey}, n \in Nat : Check(i, s, n)
    /\ UNCHANGED sidecarVars \/ SweepSidecars \/ \E p \in Pod : Register(p)

-----------------------------------------------------------------------------
(* The ring: going back from pos, its slots are the events from the newest *)
(* on, as far as count.                                                    *)
Slot(p, i) == (p - i + Size) % Size

RingInv ==
    /\ pos \in 0..(Size - 1)
    /\ buf \in [0..(Size - 1) -> Event \union {NoEvent}]
    /\ logged \in Seq(Event \union {NoEvent})
    /\ count = IF Len(logged) < Size THEN Len(logged) ELSE Size
    /\ \A i \in 1..count : buf[Slot(pos, i)] = logged[Len(logged) - i + 1]

(* The assumptions on limits and windows, as the arithmetic below needs    *)
(* them.                                                                   *)
LEMMA WidthTypes ==
    /\ Size \in Nat /\ Size >= 1 /\ MaxPerMin \in Nat /\ MaxPerMin >= 1
    /\ Minute \in Nat /\ Minute >= 1 /\ Hour \in Nat /\ Hour >= 1
    /\ Day \in Nat /\ Day >= 1 /\ Year \in Nat /\ Year >= 1 /\ Hour <= Day
    /\ MaxCallsPerHour \in Nat /\ MaxCallsPerHour >= 1
    /\ MaxCallsPerDay \in Nat /\ MaxCallsPerDay >= 1
    /\ MaxTokensPerDay \in Nat /\ MaxTokensPerDay >= 1
    /\ DedupeWindow \in Nat /\ TTL \in Nat
<1>1. \A n \in {Size, MaxPerMin, Minute, Hour, Day, Year,
               MaxCallsPerHour, MaxCallsPerDay, MaxTokensPerDay} : n \in Nat \ {0}
  BY StoresAssumption, Zenon
<1>2. \A n \in Nat \ {0} : n \in Nat /\ n >= 1
  OBVIOUS
<1> QED BY <1>1, <1>2, StoresAssumption, Zenon

(* The slot i places before position p of the ring, without the modulus.   *)
LEMMA SlotIs ==
    ASSUME NEW p \in 0..(Size - 1), NEW i \in 1..Size
    PROVE  Slot(p, i) = IF i <= p THEN p - i ELSE p - i + Size
<1>1. Size \in Nat \ {0}
  BY WidthTypes
<1>2. CASE i <= p
  BY <1>1, <1>2 DEF Slot
<1>3. CASE ~(i <= p)
  BY <1>1, <1>3 DEF Slot
<1> QED BY <1>2, <1>3

(* One write further on, every slot is one further back.                   *)
LEMMA SlotNext ==
    ASSUME NEW p \in 0..(Size - 1), NEW q, q = (p + 1) % Size
    PROVE  /\ q \in 0..(Size - 1)
           /\ Slot(q, 1) = p
           /\ \A i \in 2..Size : Slot(q, i) = Slot(p, i - 1) /\ Slot(p, i - 1) # p
<1>1. Size \in Nat \ {0}
  BY WidthTypes
<1>2. q = IF p + 1 < Size THEN p + 1 ELSE 0
  <2>1. CASE p + 1 < Size
    BY <1>1, <2>1
  <2>2. CASE p + 1 = Size
    BY <1>1, <2>2
  <2> QED BY <1>1, <2>1, <2>2
<1>3. q \in 0..(Size - 1)
  BY <1>1, <1>2
<1>4. 1 \in 1..Size /\ \A i \in 2..Size : i \in 1..Size /\ i - 1 \in 1..Size
  BY <1>1
<1>5. Slot(q, 1) = p
  BY <1>1, <1>2, <1>3, <1>4, SlotIs
<1>6. ASSUME NEW i \in 2..Size PROVE Slot(q, i) = Slot(p, i - 1) /\ Slot(p, i - 1) # p
  <2>1. Slot(q, i) = IF i <= q THEN q - i ELSE q - i + Size
    BY <1>3, <1>4, SlotIs
  <2>2. Slot(p, i - 1) = IF i - 1 <= p THEN p - (i - 1) ELSE p - (i - 1) + Size
    BY <1>4, SlotIs
  <2> QED BY <1>1, <1>2, <2>1, <2>2
<1> QED BY <1>3, <1>5, <1>6

(* EventStore.Add writes at the position and moves it on.                  *)
LEMMA AddRing == ASSUME RingInv, NEW e \in Event, Add(e) PROVE RingInv'
<1>0. Size \in Nat /\ Size >= 1 /\ pos \in 0..(Size - 1)
  BY WidthTypes DEF RingInv
<1>1. /\ pos' \in 0..(Size - 1) /\ Slot(pos', 1) = pos
      /\ \A i \in 2..Size : Slot(pos', i) = Slot(pos, i - 1) /\ Slot(pos, i - 1) # pos
  <2>1. PICK q : q = (pos + 1) % Size
    OBVIOUS
  <2>2. pos' = q
    BY <2>1 DEF Add
  <2> QED BY <1>0, <2>1, <2>2, SlotNext
<1>2. PICK n \in Nat : n = Len(logged)
  BY DEF RingInv
<1>3. /\ logged' \in Seq(Event \union {NoEvent}) /\ Len(logged') = n + 1 /\ logged'[n + 1] = e
      /\ \A i \in 1..n : logged'[i] = logged[i]
  BY <1>2 DEF RingInv, Add
<1>4. buf' \in [0..(Size - 1) -> Event \union {NoEvent}]
      /\ buf'[pos] = e /\ \A x \in 0..(Size - 1) : x # pos => buf'[x] = buf[x]
  BY <1>0 DEF RingInv, Add
<1>5. /\ count' = IF n + 1 < Size THEN n + 1 ELSE Size
      /\ count = IF n < Size THEN n ELSE Size
  BY <1>0, <1>2 DEF RingInv, Add
<1>6. ASSUME NEW i \in 1..count' PROVE buf'[Slot(pos', i)] = logged'[Len(logged') - i + 1]
  <2>1. CASE i = 1
    BY <1>1, <1>3, <1>4, <2>1
  <2>2. CASE i # 1
    <3>1. i \in 2..Size /\ i - 1 \in 1..count /\ i - 1 \in 1..Size
      BY <1>0, <1>5, <2>2
    <3>2. Slot(pos, i - 1) \in 0..(Size - 1)
      BY <1>0, <3>1, SlotIs
    <3>3. buf'[Slot(pos', i)] = buf[Slot(pos, i - 1)]
      BY <1>1, <1>4, <3>1, <3>2
    <3>4. buf[Slot(pos, i - 1)] = logged[n - (i - 1) + 1]
      BY <1>2, <3>1 DEF RingInv
    <3>5. n - (i - 1) + 1 = Len(logged') - i + 1 /\ Len(logged') - i + 1 \in 1..n
      BY <1>0, <1>3, <1>5, <3>1
    <3> QED BY <1>3, <3>3, <3>4, <3>5
  <2> QED BY <2>1, <2>2
<1> QED BY <1>1, <1>3, <1>4, <1>5, <1>6 DEF RingInv

(* What the registry lost is out of date.                                  *)
SidecarInv ==
    /\ sidecars \in [Pod -> Int] /\ announced \in [Pod -> Int]
    /\ \A p \in Pod : now - announced[p] <= TTL => sidecars[p] = announced[p]

(* The sidecar table after any store operation.                            *)
LEMMA SidecarStep == ASSUME now \in Nat, SidecarInv, StoreNext PROVE SidecarInv'
<1>0. now \in Nat /\ TTL \in Nat
  BY WidthTypes
<1>1. CASE UNCHANGED sidecarVars
  <2>1. now' = now \/ now' = now + 1
    BY DEF StoreNext
  <2> QED BY <1>0, <1>1, <2>1 DEF SidecarInv, sidecarVars
<1>2. CASE SweepSidecars /\ now' = now
  BY <1>0, <1>2 DEF SidecarInv, SweepSidecars, Never
<1>3. ASSUME NEW p \in Pod, Register(p), now' = now PROVE SidecarInv'
  BY <1>0, <1>3 DEF SidecarInv, Register
<1> QED BY <1>1, <1>2, <1>3 DEF StoreNext

-----------------------------------------------------------------------------
(* The alerter: recent holds the times of the posts of the last minute,    *)
(* seen the time of the last post per key, and posts MaxPerMin apart are   *)
(* a minute apart.                                                         *)
Times(s) == [i \in 1..Len(s) |-> s[i].at]
PostedAt == Times(posted)

AlertTypeOK ==
    /\ seen \in [Event -> Int]
    /\ recent \in Seq(Int)
    /\ posted \in Seq([key : Event, at : Nat])

PostsInOrder ==
    /\ \A i \in 1..Len(posted) : posted[i].at <= now /\ posted[i].at <= seen[posted[i].key]
    /\ \A i, j \in 1..Len(posted) : i <= j => posted[i].at <= posted[j].at

RecentAgrees ==
    \A x \in Int : x >= now - Minute => After(recent, x) = After(PostedAt, x)

PostsApart ==
    /\ \A i, j \in 1..Len(posted) : j - i >= MaxPerMin => posted[j].at - posted[i].at >= Minute
    /\ \A i, j \in 1..Len(posted) :
          i < j /\ posted[i].key = posted[j].key => posted[j].at - posted[i].at >= DedupeWindow
    /\ \A e \in Event :
          seen[e] # Never => \E i \in 1..Len(posted) : posted[i] = [key |-> e, at |-> seen[e]]

AlertInv == AlertTypeOK /\ PostsInOrder /\ RecentAgrees /\ PostsApart

(* The times of a sequence of alerts, as the windows see them.             *)
LEMMA TimesType ==
    ASSUME NEW s \in Seq([key : Event, at : Nat])
    PROVE  /\ Times(s) \in Seq(Int) /\ Len(Times(s)) = Len(s)
           /\ \A i \in 1..Len(s) : Times(s)[i] = s[i].at /\ s[i].at \in Nat /\ s[i].key \in Event
<1>1. Len(s) \in Nat /\ \A i \in 1..Len(s) : s[i] \in [key : Event, at : Nat]
  BY SeqItems, Zenon
<1>2. \A i \in 1..Len(s) : s[i].at \in Nat /\ s[i].key \in Event
  BY <1>1
<1>3. \A i \in 1..Len(s) : Times(s)[i] = s[i].at /\ Times(s)[i] \in Int
  BY <1>2 DEF Times
<1>4. Times(s) = [i \in 1..Len(s) |-> Times(s)[i]]
  BY DEF Times
<1>5. Times(s) \in Seq(Int) /\ Len(Times(s)) = Len(s)
  BY <1>1, <1>3, <1>4, IsSequence
<1> QED BY <1>2, <1>3, <1>5

(* Trimming recent on the way to dropping an alert changes nothing.        *)
LEMMA RecentTrimmed ==
    ASSUME now \in Nat, AlertTypeOK, RecentAgrees
    PROVE  LET kept == After(recent, now - Minute) IN
           /\ kept \in Seq(Int) /\ kept = After(PostedAt, now - Minute)
           /\ \A x \in Int : x >= now - Minute => After(kept, x) = After(PostedAt, x)
<1>1. now - Minute \in Int
  BY WidthTypes
<1>2. Int \in SUBSET Int /\ recent \in Seq(Int)
  BY DEF AlertTypeOK
<1>3. After(recent, now - Minute) \in Seq(Int)
  BY <1>1, <1>2, AfterType
<1>4. ASSUME NEW x \in Int, x >= now - Minute
      PROVE  After(After(recent, now - Minute), x) = After(PostedAt, x)
  <2>1. After(After(recent, now - Minute), x) = After(recent, x)
    BY <1>1, <1>2, <1>4, AfterAfter
  <2> QED BY <1>4, <2>1 DEF RecentAgrees
<1>5. After(recent, now - Minute) = After(PostedAt, now - Minute)
  BY <1>1 DEF RecentAgrees
<1> QED BY <1>3, <1>4, <1>5

(* An alert that is sent was not sent within the deduplication window and  *)
(* is below the rate, so it keeps both.                                    *)
LEMMA PostInv ==
    ASSUME now \in Nat, AlertInv, now' = now, NEW e \in Event, NEW kept,
           kept = After(recent, now - Minute),
           seen[e] = Never \/ now - seen[e] >= DedupeWindow,
           Len(kept) < MaxPerMin,
           seen' = [seen EXCEPT ![e] = now],
           recent' = Append(kept, now),
           posted' = Append(posted, [key |-> e, at |-> now])
    PROVE  AlertInv'
<1>0. /\ AlertTypeOK /\ PostsInOrder /\ RecentAgrees /\ PostsApart
      /\ now \in Nat /\ Minute \in Nat /\ Minute >= 1 /\ MaxPerMin \in Nat /\ MaxPerMin >= 1
      /\ DedupeWindow \in Nat /\ now - Minute \in Int
  BY WidthTypes DEF AlertInv
<1>1. PICK n \in Nat : n = Len(posted)
  BY <1>0 DEF AlertTypeOK
<1>2. PICK r : r = [key |-> e, at |-> now]
  OBVIOUS
<1>3. r \in [key : Event, at : Nat] /\ r.key = e /\ r.at = now
  BY <1>0, <1>2
<1>4. /\ posted' \in Seq([key : Event, at : Nat]) /\ Len(posted') = n + 1 /\ posted'[n + 1] = r
      /\ \A i \in 1..n : posted'[i] = posted[i]
  BY <1>0, <1>1, <1>2, <1>3 DEF AlertTypeOK
<1>5. /\ seen' \in [Event -> Int] /\ seen'[e] = now
      /\ \A d \in Event : d # e => seen'[d] = seen[d]
  BY <1>0 DEF AlertTypeOK
<1>6. kept \in Seq(Int) /\ kept = After(PostedAt, now - Minute)
      /\ \A x \in Int : x >= now - Minute => After(kept, x) = After(PostedAt, x)
  BY <1>0, RecentTrimmed
<1>7. AlertTypeOK'
  BY <1>0, <1>4, <1>5, <1>6 DEF AlertTypeOK
<1>8. /\ PostedAt \in Seq(Int) /\ Len(PostedAt) = n
      /\ \A i \in 1..n : PostedAt[i] = posted[i].at /\ posted[i].at \in Nat /\ posted[i].key \in Event
  BY <1>0, <1>1, TimesType, Zenon DEF PostedAt, AlertTypeOK
<1>9. PostedAt' = Append(PostedAt, now)
  <2>1. /\ PostedAt' \in Seq(Int) /\ Len(PostedAt') = n + 1
        /\ \A i \in 1..(n + 1) : PostedAt'[i] = posted'[i].at
    BY <1>4, TimesType, Zenon DEF PostedAt
  <2>2. PostedAt'[n + 1] = now /\ \A i \in 1..n : PostedAt'[i] = PostedAt[i]
    <3>1. n + 1 \in 1..(n + 1) /\ \A i \in 1..n : i \in 1..(n + 1)
      OBVIOUS
    <3>2. PostedAt'[n + 1] = posted'[n + 1].at
      BY <2>1, <3>1, Zenon
    <3>3. ASSUME NEW i \in 1..n PROVE PostedAt'[i] = PostedAt[i]
      <4>1. PostedAt'[i] = posted'[i].at
        BY <2>1, <3>1, Zenon
      <4>2. PostedAt[i] = posted[i].at /\ posted'[i] = posted[i]
        BY <1>4, <1>8, Zenon
      <4> QED BY <4>1, <4>2, Zenon
    <3> QED BY <1>3, <1>4, <3>2, <3>3, Zenon
  <2> QED BY <1>0, <1>8, <2>1, <2>2, LongerByOne, SMTT(40)
<1>10. \A i, j \in 1..n : /\ posted[i].at <= now /\ posted[i].at <= seen[posted[i].key]
                          /\ i <= j => posted[i].at <= posted[j].at
  BY <1>0, <1>1 DEF PostsInOrder
<1>11. \A i \in 1..(n + 1) : i \in 1..n \/ i = n + 1
  OBVIOUS
<1>12. PostsInOrder'
  <2>1. ASSUME NEW i \in 1..(n + 1)
        PROVE  posted'[i].at <= now /\ posted'[i].at <= seen'[posted'[i].key]
    <3>1. CASE i = n + 1
      BY <1>0, <1>3, <1>4, <1>5, <3>1, SMTT(40)
    <3>2. CASE i \in 1..n /\ posted[i].key = e
      BY <1>4, <1>5, <1>10, <3>2
    <3>3. CASE i \in 1..n /\ posted[i].key # e
      BY <1>4, <1>5, <1>8, <1>10, <3>3, SMTT(40)
    <3> QED BY <1>11, <3>1, <3>2, <3>3, Zenon
  <2>2. ASSUME NEW i \in 1..(n + 1), NEW j \in 1..(n + 1), i <= j
        PROVE  posted'[i].at <= posted'[j].at
    <3>1. CASE j = n + 1
      BY <1>3, <1>4, <2>1, <3>1
    <3>2. CASE j \in 1..n
      BY <1>4, <1>10, <2>2, <3>2, SMTT(40)
    <3> QED BY <1>11, <3>1, <3>2, Zenon
  <2> QED BY <1>4, <2>1, <2>2, SMTT(40) DEF PostsInOrder
<1>13. RecentAgrees'
  <2> SUFFICES ASSUME NEW x \in Int, x >= now - Minute
               PROVE  After(Append(kept, now), x) = After(Append(PostedAt, now), x)
    BY <1>9 DEF RecentAgrees
  <2>1. /\ After(Append(kept, now), x) =
               IF now > x THEN Append(After(kept, x), now) ELSE After(kept, x)
        /\ After(Append(PostedAt, now), x) =
               IF now > x THEN Append(After(PostedAt, x), now) ELSE After(PostedAt, x)
    <3>1. now \in Int
      BY <1>0
    <3> QED BY <3>1, <1>6, <1>8, AfterAppend, Zenon
  <2>2. After(kept, x) = After(PostedAt, x)
    BY <1>6
  <2> QED BY <2>1, <2>2, Zenon
<1>14. \A i \in 1..(n - Len(kept)) : posted[i].at <= now - Minute
  <2>1. \A i, j \in 1..Len(PostedAt) : i <= j => PostedAt[i] <= PostedAt[j]
    BY <1>8, <1>10, Zenon
  <2>2. \A i \in 1..(n - Len(kept)) : PostedAt[i] <= now - Minute
    BY <1>0, <1>6, <1>8, <2>1, AfterDropsOld, Zenon
  <2>3. \A i \in 1..(n - Len(kept)) : i \in 1..n
    BY <1>6
  <2> QED BY <1>8, <2>2, <2>3, Zenon
<1>15. PostsApart'
  <2>1. ASSUME NEW i \in 1..(n + 1), NEW j \in 1..(n + 1), j - i >= MaxPerMin
        PROVE  posted'[j].at - posted'[i].at >= Minute
    <3>1. CASE j \in 1..n
      BY <1>0, <1>1, <1>4, <2>1, <3>1 DEF PostsApart
    <3>2. CASE j = n + 1
      <4>1. i \in 1..n /\ i \in 1..(n - Len(kept))
        BY <1>0, <1>6, <2>1, <3>2
      <4>2. posted'[i].at <= now - Minute /\ posted'[i].at \in Nat
        BY <1>4, <1>8, <1>14, <4>1, SMTT(40)
      <4> QED BY <1>0, <1>3, <1>4, <3>2, <4>2, SMTT(40)
    <3> QED BY <1>11, <3>1, <3>2, Zenon
  <2>2. ASSUME NEW i \in 1..(n + 1), NEW j \in 1..(n + 1), i < j, posted'[i].key = posted'[j].key
        PROVE  posted'[j].at - posted'[i].at >= DedupeWindow
    <3>1. CASE j \in 1..n
      BY <1>0, <1>1, <1>4, <2>2, <3>1 DEF PostsApart
    <3>2. CASE j = n + 1
      <4>1. i \in 1..n /\ posted[i].key = e /\ posted'[i] = posted[i]
        BY <1>3, <1>4, <2>2, <3>2
      <4>2. posted[i].at <= seen[e] /\ posted[i].at \in Nat /\ seen[e] \in Int
        BY <1>0, <1>8, <1>10, <4>1, Zenon DEF AlertTypeOK
      <4>3. seen[e] # Never
        BY <4>2, SMTT(40) DEF Never
      <4>4. now - posted[i].at >= DedupeWindow
        BY <1>0, <4>2, <4>3, SMTT(40)
      <4> QED BY <1>3, <1>4, <3>2, <4>1, <4>4, SMTT(40)
    <3> QED BY <1>11, <3>1, <3>2, Zenon
  <2>3. ASSUME NEW d \in Event, seen'[d] # Never
        PROVE  \E i \in 1..(n + 1) : posted'[i] = [key |-> d, at |-> seen'[d]]
    <3>1. CASE d = e
      <4>1. posted'[n + 1] = [key |-> d, at |-> seen'[d]] /\ n + 1 \in 1..(n + 1)
        BY <1>2, <1>4, <1>5, <3>1
      <4> QED BY <4>1, Zenon
    <3>2. CASE d # e
      <4>1. seen'[d] = seen[d]
        BY <1>5, <3>2
      <4>2. PICK i \in 1..n : posted[i] = [key |-> d, at |-> seen[d]]
        BY <1>0, <1>1, <2>3, <4>1 DEF PostsApart
      <4>3. i \in 1..(n + 1) /\ posted'[i] = posted[i]
        BY <1>4
      <4> QED BY <4>1, <4>2, <4>3, Zenon
    <3> QED BY <3>1, <3>2, Zenon
  <2> QED BY <1>4, <2>1, <2>2, <2>3, Zenon DEF PostsApart
<1> QED BY <1>7, <1>12, <1>13, <1>15 DEF AlertInv

(* No store operation breaks the discipline of alerts.                     *)
LEMMA AlertStep == ASSUME now \in Nat, AlertInv, StoreNext PROVE AlertInv'
<1>0. now \in Nat /\ Minute \in Nat
  BY WidthTypes
<1>1. CASE UNCHANGED alertVars
  <2>1. now' \in Nat /\ now' >= now
    BY <1>0 DEF StoreNext
  <2>2. seen' = seen /\ recent' = recent /\ posted' = posted /\ PostedAt' = PostedAt
    BY <1>1 DEF alertVars, PostedAt, Times
  <2>3. AlertTypeOK' /\ PostsApart'
    BY <2>2, Zenon DEF AlertInv, AlertTypeOK, PostsApart
  <2>4. RecentAgrees'
    <3> SUFFICES ASSUME NEW x \in Int, x >= now' - Minute
                 PROVE  After(recent, x) = After(PostedAt, x)
      BY <2>2 DEF RecentAgrees
    <3>0. PICK t \in Nat : t = now'
      BY <2>1
    <3>1. t >= now /\ x >= t - Minute
      BY <2>1, <3>0, Zenon
    <3>2. x >= now - Minute
      BY <1>0, <3>1
    <3> QED BY <3>2 DEF AlertInv, RecentAgrees
  <2>5. PostsInOrder'
    <3>1. AlertTypeOK /\ PostsInOrder
      BY DEF AlertInv
    <3>2. \A i \in 1..Len(posted) : posted[i].at \in Nat
      BY <3>1, TimesType, Zenon DEF AlertTypeOK
    <3> QED BY <1>0, <2>1, <2>2, <3>1, <3>2 DEF PostsInOrder
  <2> QED BY <2>3, <2>4, <2>5 DEF AlertInv
<1>2. ASSUME NEW e \in Event, Alert(e), now' = now PROVE AlertInv'
  <2>1. PICK kept : kept = After(recent, now - Minute)
    OBVIOUS
  <2>2. CASE UNCHANGED alertVars
    BY <1>1, <2>2
  <2>3. CASE recent' = kept /\ UNCHANGED <<seen, posted>>
    <3>1. /\ kept \in Seq(Int)
          /\ \A x \in Int : x >= now - Minute => After(kept, x) = After(PostedAt, x)
      BY <2>1, RecentTrimmed DEF AlertInv
    <3>2. PostedAt' = PostedAt
      BY <2>3 DEF PostedAt, Times
    <3>3. RecentAgrees'
      BY <1>2, <2>3, <3>1, <3>2 DEF RecentAgrees
    <3> QED BY <1>2, <2>3, <3>1, <3>3, Zenon DEF AlertInv, AlertTypeOK, PostsInOrder, PostsApart
  <2>4. CASE /\ seen[e] = Never \/ ~(now - seen[e] < DedupeWindow)
             /\ ~(Len(kept) >= MaxPerMin)
             /\ seen' = [seen EXCEPT ![e] = now]
             /\ recent' = Append(kept, now)
             /\ posted' = Append(posted, [key |-> e, at |-> now])
    <3>1. kept \in Seq(Int)
      BY <2>1, RecentTrimmed DEF AlertInv
    <3>2. Len(kept) < MaxPerMin
      BY <2>4, <3>1, WidthTypes
    <3>3. seen[e] = Never \/ now - seen[e] >= DedupeWindow
      BY <1>0, <2>4, WidthTypes DEF AlertInv, AlertTypeOK
    <3> QED BY <1>2, <2>1, <2>4, <3>2, <3>3, PostInv, Zenon
  <2> QED BY <1>2, <2>1, <2>2, <2>3, <2>4 DEF Alert
<1> QED BY <1>1, <1>2 DEF StoreNext

-----------------------------------------------------------------------------
(* The sum of a sequence, and of one longer by one.                        *)
Summing(sum, s, n) == sum = [i \in 0..n |-> IF i = 0 THEN 0 ELSE sum[i - 1] + s[i]]

Sums(sum, s, n) == sum[0] = 0 /\ \A i \in 1..n : sum[i] = sum[i - 1] + s[i]

(* The recursive function of Total up to n, unfolded.                      *)
LEMMA SumAt ==
    ASSUME NEW s, NEW n \in Nat, NEW sum, Summing(sum, s, n)
    PROVE  Sums(sum, s, n)
<1>1. 0 \in 0..n /\ \A i \in 1..n : i \in 0..n /\ i # 0
  OBVIOUS
<1>2. \A i \in 0..n : sum[i] = IF i = 0 THEN 0 ELSE sum[i - 1] + s[i]
  BY Zenon DEF Summing
<1>3. sum[0] = 0
  BY <1>1, <1>2, Zenon
<1>4. \A i \in 1..n : sum[i] = sum[i - 1] + s[i]
  BY <1>1, <1>2, Zenon
<1> QED BY <1>3, <1>4 DEF Sums

(* There is such a function: induction on n over the set of numbers that   *)
(* have one.                                                               *)
LEMMA SumExists == ASSUME NEW s, NEW n \in Nat PROVE \E sum : Summing(sum, s, n)
<1> DEFINE N == {m \in Nat : \E sum : Summing(sum, s, m)}
<1>1. 0 \in N
  <2>1. Summing([i \in 0..0 |-> 0], s, 0)
    BY DEF Summing
  <2> QED BY <2>1
<1>2. ASSUME NEW m \in N PROVE m + 1 \in N
  <2>1. PICK f : Summing(f, s, m)
    OBVIOUS
  <2>2. Sums(f, s, m)
    BY <2>1, SumAt
  <2>3. PICK last : last = f[m] + s[m + 1]
    OBVIOUS
  <2>4. PICK g : g = [i \in 0..(m + 1) |-> IF i = m + 1 THEN last ELSE f[i]]
    BY Zenon
  <2>5. /\ \A i \in 0..m : i \in 0..(m + 1) /\ i # m + 1
        /\ \A i \in 1..m : i - 1 \in 0..m /\ i \in 0..m /\ i # 0
        /\ m + 1 \in 0..(m + 1) /\ (m + 1) - 1 = m /\ m + 1 # 0 /\ m \in 0..m
        /\ 0 \in 0..m
        /\ \A i \in 0..(m + 1) : i = 0 \/ i \in 1..m \/ i = m + 1
    OBVIOUS
  <2>6. g[m + 1] = last /\ \A i \in 0..m : g[i] = f[i]
    BY <2>4, <2>5, Zenon
  <2>7. \A i \in 0..(m + 1) : g[i] = IF i = 0 THEN 0 ELSE g[i - 1] + s[i]
    <3> TAKE i \in 0..(m + 1)
    <3>1. CASE i = 0
      BY <2>2, <2>5, <2>6, <3>1, Zenon DEF Sums
    <3>2. CASE i \in 1..m
      <4>1. f[i] = f[i - 1] + s[i]
        BY <2>2, <3>2, Zenon DEF Sums
      <4> QED BY <2>5, <2>6, <3>2, <4>1, Zenon
    <3>3. CASE i = m + 1
      BY <2>3, <2>5, <2>6, <3>3, Zenon
    <3> QED BY <2>5, <3>1, <3>2, <3>3
  <2>8. DOMAIN g = 0..(m + 1) /\ g = [i \in DOMAIN g |-> g[i]]
    BY <2>4
  <2>9. Summing(g, s, m + 1)
    BY <2>7, <2>8, Zenon DEF Summing
  <2> QED BY <2>9
<1>3. \A m \in Nat : m \in N
  <2> HIDE DEF N
  <2>1. N \in SUBSET Nat
    BY DEF N
  <2> QED BY <1>1, <1>2, <2>1, NatBySet
<1> QED BY <1>3

(* The partial sums of two sequences that agree so far are the same.       *)
LEMMA SumAgrees ==
    ASSUME NEW s, NEW t, NEW n \in Nat, NEW m \in Nat, n <= m, Alike(s, t, n),
           NEW f, NEW g, Summing(f, s, n), Summing(g, t, m)
    PROVE  f[n] = g[n]
<1> DEFINE N == {i \in Nat : i <= n => f[i] = g[i]}
<1>1. Sums(f, s, n) /\ Sums(g, t, m)
  BY SumAt
<1>2. 0 \in N
  BY <1>1 DEF Sums
<1>3. ASSUME NEW i \in N PROVE i + 1 \in N
  <2> SUFFICES ASSUME i + 1 <= n PROVE f[i + 1] = g[i + 1]
    OBVIOUS
  <2>1. i + 1 \in 1..n /\ i + 1 \in 1..m /\ (i + 1) - 1 = i
    OBVIOUS
  <2>2. f[i] = g[i]
    OBVIOUS
  <2>3. f[i + 1] = f[(i + 1) - 1] + s[i + 1]
    BY <1>1, <2>1, Zenon DEF Sums
  <2>4. g[i + 1] = g[(i + 1) - 1] + t[i + 1]
    BY <1>1, <2>1, Zenon DEF Sums
  <2>5. s[i + 1] = t[i + 1]
    BY <2>1, Zenon DEF Alike
  <2> QED BY <2>1, <2>2, <2>3, <2>4, <2>5, Zenon
<1>4. \A i \in Nat : i \in N
  <2> HIDE DEF N
  <2>1. N \in SUBSET Nat
    BY DEF N
  <2> QED BY <1>2, <1>3, <2>1, NatBySet
<1> QED BY <1>4

(* Total is the last partial sum.                                          *)
LEMMA TotalSum ==
    ASSUME NEW s, Len(s) \in Nat
    PROVE  \E sum : Summing(sum, s, Len(s)) /\ Total(s) = sum[Len(s)]
<1>1. \E sum : Summing(sum, s, Len(s))
  BY SumExists
<1>2. Summing(CHOOSE sum : Summing(sum, s, Len(s)), s, Len(s))
  BY <1>1
<1>3. Total(s) = (CHOOSE sum : Summing(sum, s, Len(s)))[Len(s)]
  BY DEF Total, Summing
<1> QED BY <1>2, <1>3, Zenon

(* Nothing adds up to nothing.                                             *)
LEMMA TotalEmpty == Total(<<>>) = 0
<1>1. Len(<<>>) = 0
  OBVIOUS
<1>2. PICK sum : Summing(sum, <<>>, 0) /\ Total(<<>>) = sum[0]
  BY <1>1, TotalSum
<1>3. Sums(sum, <<>>, 0)
  BY <1>2, SumAt
<1> QED BY <1>2, <1>3 DEF Sums

(* The total of one more is the total plus that one.                       *)
LEMMA TotalAppend ==
    ASSUME NEW s \in Seq(Nat), NEW e \in Nat
    PROVE  Total(Append(s, e)) = Total(s) + e
<1>1. PICK n \in Nat : n = Len(s)
  OBVIOUS
<1>2. PICK t : t = Append(s, e)
  BY Zenon
<1>3. Len(t) = n + 1 /\ t[n + 1] = e /\ \A i \in 1..n : t[i] = s[i]
  BY <1>1, <1>2
<1>4. PICK f : Summing(f, s, n) /\ Total(s) = f[n]
  BY <1>1, TotalSum
<1>5. PICK g : Summing(g, t, n + 1) /\ Total(t) = g[n + 1]
  BY <1>3, TotalSum
<1>6. f[n] = g[n]
  <2>1. n + 1 \in Nat /\ n <= n + 1
    OBVIOUS
  <2>2. Alike(s, t, n)
    BY <1>3 DEF Alike
  <2> QED BY <1>4, <1>5, <2>1, <2>2, SumAgrees
<1>7. g[n + 1] = g[n] + t[n + 1]
  <2>1. n + 1 \in 1..(n + 1) /\ (n + 1) - 1 = n /\ n + 1 \in Nat
    OBVIOUS
  <2>2. Sums(g, t, n + 1)
    BY <1>5, <2>1, SumAt
  <2>3. g[n + 1] = g[(n + 1) - 1] + t[n + 1]
    BY <2>1, <2>2, Zenon DEF Sums
  <2> QED BY <2>1, <2>3
<1> QED BY <1>2, <1>3, <1>4, <1>5, <1>6, <1>7, Zenon

(* A total of zeroes.                                                      *)
LEMMA TotalZero ==
    ASSUME NEW s \in Seq(Nat), \A i \in 1..Len(s) : s[i] = 0
    PROVE  Total(s) = 0
<1> DEFINE Ok(w) == (\A i \in 1..Len(w) : w[i] = 0) => Total(w) = 0
           P == {w \in Seq(Nat) : Ok(w)}
<1>1. Ok(<<>>)
  BY TotalEmpty
<1>2. ASSUME NEW v \in Seq(Nat), Ok(v), NEW e \in Nat PROVE Ok(Append(v, e))
  <2>1. Total(Append(v, e)) = Total(v) + e
    BY TotalAppend
  <2> SUFFICES ASSUME \A i \in 1..Len(Append(v, e)) : Append(v, e)[i] = 0
               PROVE  Total(Append(v, e)) = 0
    OBVIOUS
  <2>2. e = 0 /\ \A i \in 1..Len(v) : v[i] = 0
    OBVIOUS
  <2> QED BY <1>2, <2>1, <2>2
<1>3. \A w \in Seq(Nat) : Ok(w)
  <2> HIDE DEF Ok
  <2>1. <<>> \in P /\ \A v \in P, e \in Nat : Append(v, e) \in P
    BY <1>1, <1>2
  <2>2. P \in SUBSET Seq(Nat)
    OBVIOUS
  <2>3. \A w \in Seq(Nat) : w \in P
    <3> HIDE DEF P
    <3> QED BY <2>1, <2>2, SeqBySet, Zenon
  <2> QED BY <2>3
<1> QED BY <1>3

(* A total of naturals is a natural: induction over sequences as a set.    *)
LEMMA TotalType == ASSUME NEW s \in Seq(Nat) PROVE Total(s) \in Nat
<1> DEFINE Ok(w) == Total(w) \in Nat
           P == {w \in Seq(Nat) : Ok(w)}
<1>1. Ok(<<>>)
  BY TotalEmpty
<1>2. ASSUME NEW v \in Seq(Nat), Ok(v), NEW e \in Nat PROVE Ok(Append(v, e))
  BY <1>2, TotalAppend, SMTT(40)
<1>3. \A w \in Seq(Nat) : Ok(w)
  <2> HIDE DEF Ok
  <2>1. <<>> \in P /\ \A v \in P, e \in Nat : Append(v, e) \in P
    BY <1>1, <1>2
  <2>2. P \in SUBSET Seq(Nat)
    OBVIOUS
  <2>3. \A w \in Seq(Nat) : w \in P
    <3> HIDE DEF P
    <3> QED BY <2>1, <2>2, SeqBySet, Zenon
  <2> QED BY <2>3
<1> QED BY <1>3

-----------------------------------------------------------------------------
(* Budgets.  What record r must hold for key k at time t when calls were   *)
(* let through: each window as many timestamps after any recent enough     *)
(* cutoff as there were calls, the latest one last, and today's tokens.    *)
Call == [keys : SUBSET BudgetKey, tokens : Nat, at : Nat]
Record == [hourly : Seq(Int), daily : Seq(Int), tokens : Nat, day : Int]

Since(calls, k, x) == {n \in 1..Len(calls) : k \in calls[n].keys /\ calls[n].at > x}

CountsHour(r, calls, k, t) ==
    \A x \in Int : x >= t - Hour => Cardinality(Since(calls, k, x)) = Len(After(r.hourly, x))
CountsDay(r, calls, k, t) ==
    \A x \in Int : x >= t - Day => Cardinality(Since(calls, k, x)) = Len(After(r.daily, x))
LatestLast(r, t) ==
    \A i \in 1..Len(r.daily) : r.daily[i] <= r.daily[Len(r.daily)] /\ r.daily[i] <= t
WithinLimits(r) == Len(r.hourly) <= MaxCallsPerHour /\ Len(r.daily) <= MaxCallsPerDay
CountsTokens(r, calls, k, t) ==
    TokensUsed(calls, k, t \div Day) <= IF r.day = YearDay(t) THEN r.tokens ELSE 0

Keeps(r, calls, k, t) ==
    /\ CountsHour(r, calls, k, t) /\ CountsDay(r, calls, k, t)
    /\ LatestLast(r, t) /\ WithinLimits(r) /\ CountsTokens(r, calls, k, t)

(* No call came when the tokens of its day were used up.                   *)
InTokens(calls, k) ==
    \A n \in 1..Len(calls) :
        k \in calls[n].keys =>
            TokensUsed(SubSeq(calls, 1, n - 1), k, calls[n].at \div Day) < MaxTokensPerDay

UpTo(calls, t) == \A n \in 1..Len(calls) : calls[n].at <= t

BudgetInv ==
    /\ budgets \in [BudgetKey -> Record]
    /\ granted \in Seq(Call)
    /\ UpTo(granted, now)
    /\ \A k \in BudgetKey : Keeps(budgets[k], granted, k, now) /\ InTokens(granted, k)

(* The calls of the history variable have a time and a cost.               *)
LEMMA CallFields ==
    ASSUME NEW calls \in Seq(Call)
    PROVE  /\ Len(calls) \in Nat
           /\ \A n \in 1..Len(calls) : calls[n].tokens \in Nat /\ calls[n].at \in Nat
<1>1. Len(calls) \in Nat /\ \A n \in 1..Len(calls) : calls[n] \in Call
  BY SeqItems, Zenon
<1> QED BY <1>1 DEF Call

(* Counting, by the library's facts.                                       *)
Fin == INSTANCE FiniteSetTheorems

(* The instance's notion of a finite set is the one of the specification.  *)
LEMMA SameFinite == \A S : IsFiniteSet(S) <=> Fin!IsFiniteSet(S)
  BY Zenon DEF IsFiniteSet, Fin!IsFiniteSet

(* So is its cardinality.                                                  *)
LEMMA SameCardinality == \A S : Cardinality(S) = Fin!Cardinality(S)
  BY Zenon DEF Cardinality, Fin!Cardinality

(* A finite set has a natural number of members.                           *)
LEMMA CountOf ==
    ASSUME NEW S, IsFiniteSet(S)
    PROVE  Cardinality(S) \in Nat
  BY SameFinite, SameCardinality, Fin!FS_CardinalityType, Zenon

(* A part of a finite set is finite, and no larger.                        *)
LEMMA CountOfPart ==
    ASSUME NEW S, NEW T, IsFiniteSet(S), T \subseteq S
    PROVE  IsFiniteSet(T) /\ Cardinality(T) <= Cardinality(S)
<1>1. T \in SUBSET S
  OBVIOUS
<1> QED BY <1>1, SameFinite, SameCardinality, Fin!FS_Subset, Zenon

(* One more member adds one.                                               *)
LEMMA CountWith ==
    ASSUME NEW S, NEW x, IsFiniteSet(S), x \notin S
    PROVE  Cardinality(S \union {x}) = Cardinality(S) + 1
  BY SameFinite, SameCardinality, Fin!FS_AddElement, Zenon

(* The empty set has none.                                                 *)
LEMMA CountOfNone ==
    /\ Cardinality({}) = 0
    /\ \A S : IsFiniteSet(S) => (Cardinality(S) = 0 <=> S = {})
  BY SameFinite, SameCardinality, Fin!FS_EmptySet, Zenon

(* An interval has as many members as its bounds say.                      *)
LEMMA CountOfInterval ==
    ASSUME NEW a \in Int, NEW b \in Int
    PROVE  IsFiniteSet(a..b) /\ Cardinality(a..b) = IF a > b THEN 0 ELSE b - a + 1
  BY SameFinite, SameCardinality, Fin!FS_Interval, Zenon

(* The calls of a key since a time are finitely many, and can be counted.  *)
LEMMA SinceFinite ==
    ASSUME NEW calls \in Seq(Call), NEW k, NEW x
    PROVE  IsFiniteSet(Since(calls, k, x)) /\ Cardinality(Since(calls, k, x)) \in Nat
<1>1. Since(calls, k, x) \subseteq 1..Len(calls)
  BY DEF Since
<1>2. IsFiniteSet(1..Len(calls))
  BY CallFields, CountOfInterval
<1>3. IsFiniteSet(Since(calls, k, x))
  BY <1>1, <1>2, CountOfPart
<1> QED BY <1>3, CountOf

(* The tokens a key used in a day are a natural.                           *)
LEMMA UsedType ==
    ASSUME NEW calls \in Seq(Call), NEW k, NEW day
    PROVE  \E used \in Seq(Nat) :
              /\ Len(used) = Len(calls)
              /\ \A n \in 1..Len(calls) : used[n] = Counted(calls[n], k, day)
              /\ TokensUsed(calls, k, day) = Total(used) /\ TokensUsed(calls, k, day) \in Nat
<1>1. PICK used : used = [n \in 1..Len(calls) |-> Counted(calls[n], k, day)]
  BY Zenon
<1>2. \A n \in 1..Len(calls) : Counted(calls[n], k, day) \in Nat
  BY CallFields DEF Counted
<1>3. Len(calls) \in Nat /\ used = [n \in 1..Len(calls) |-> used[n]]
      /\ \A n \in 1..Len(calls) : used[n] = Counted(calls[n], k, day) /\ used[n] \in Nat
  BY <1>1, <1>2, CallFields
<1>4. used \in Seq(Nat) /\ Len(used) = Len(calls)
  BY <1>3, IsSequence
<1>5. TokensUsed(calls, k, day) = Total(used)
  BY <1>1 DEF TokensUsed
<1>6. Total(used) \in Nat
  BY <1>4, TotalType
<1> QED BY <1>3, <1>4, <1>5, <1>6, Zenon

(* A key that made no call on a day used nothing.                          *)
LEMMA UsedNone ==
    ASSUME NEW calls \in Seq(Call), NEW k, NEW day,
           \A n \in 1..Len(calls) : ~(k \in calls[n].keys /\ calls[n].at \div Day = day)
    PROVE  TokensUsed(calls, k, day) = 0
<1>2. PICK used \in Seq(Nat) :
          /\ Len(used) = Len(calls) /\ TokensUsed(calls, k, day) = Total(used)
          /\ \A n \in 1..Len(calls) : used[n] = Counted(calls[n], k, day)
  BY UsedType
<1>3. \A n \in 1..Len(used) : used[n] = 0
  BY <1>2 DEF Counted
<1> QED BY <1>2, <1>3, TotalZero

(* One more call adds its tokens to what its keys used that day.           *)
LEMMA UsedAppend ==
    ASSUME NEW calls \in Seq(Call), NEW c \in Call, NEW k, NEW day
    PROVE  TokensUsed(Append(calls, c), k, day) = TokensUsed(calls, k, day) + Counted(c, k, day)
<1>1. PICK more \in Seq(Call) : more = Append(calls, c)
  BY Appended, Zenon
<1>2. PICK n \in Nat : n = Len(calls)
  BY CallFields
<1>3. Len(more) = n + 1 /\ more[n + 1] = c /\ \A i \in 1..n : more[i] = calls[i]
  BY <1>1, <1>2, Appended
<1>6. PICK u \in Seq(Nat) :
          /\ Len(u) = n /\ TokensUsed(calls, k, day) = Total(u)
          /\ \A i \in 1..n : u[i] = Counted(calls[i], k, day)
  BY <1>2, UsedType
<1>7. PICK v \in Seq(Nat) :
          /\ Len(v) = Len(more) /\ TokensUsed(more, k, day) = Total(v)
          /\ \A i \in 1..Len(more) : v[i] = Counted(more[i], k, day)
  BY UsedType, Zenon
<1>8. n + 1 \in 1..(n + 1) /\ \A i \in 1..n : i \in 1..(n + 1)
  OBVIOUS
<1>9. v[n + 1] = Counted(c, k, day) /\ \A i \in 1..n : v[i] = u[i]
  BY <1>3, <1>6, <1>7, <1>8, Zenon
<1>10. Counted(c, k, day) \in Nat
  BY DEF Counted, Call
<1>11. v = Append(u, Counted(c, k, day))
  BY <1>3, <1>6, <1>7, <1>9, <1>10, LongerByOne, SMTT(40)
<1> QED BY <1>1, <1>6, <1>7, <1>10, <1>11, TotalAppend

(* One more call adds one to the calls of its keys since any earlier time. *)
LEMMA SinceAppend ==
    ASSUME NEW calls \in Seq(Call), NEW c \in Call, NEW k, NEW x
    PROVE  Cardinality(Since(Append(calls, c), k, x)) =
               Cardinality(Since(calls, k, x)) + (IF k \in c.keys /\ c.at > x THEN 1 ELSE 0)
<1>1. PICK n \in Nat : n = Len(calls)
  BY CallFields
<1>2. PICK more : more = Append(calls, c)
  BY Zenon
<1>3. Len(more) = n + 1 /\ more[n + 1] = c /\ \A i \in 1..n : more[i] = calls[i]
  BY <1>1, <1>2, Appended
<1>4. IsFiniteSet(Since(calls, k, x)) /\ Cardinality(Since(calls, k, x)) \in Nat
  BY SinceFinite
<1>5. CASE k \in c.keys /\ c.at > x
  <2>1. Since(more, k, x) = Since(calls, k, x) \union {n + 1}
    BY <1>1, <1>3, <1>5 DEF Since
  <2>2. n + 1 \notin Since(calls, k, x)
    BY <1>1 DEF Since
  <2>3. Cardinality(Since(calls, k, x) \union {n + 1}) = Cardinality(Since(calls, k, x)) + 1
    BY <1>4, <2>2, CountWith, Zenon
  <2> QED BY <1>2, <1>5, <2>1, <2>3
<1>6. CASE ~(k \in c.keys /\ c.at > x)
  <2>1. Since(more, k, x) = Since(calls, k, x)
    BY <1>1, <1>3, <1>6 DEF Since
  <2> QED BY <1>2, <1>4, <1>6, <2>1, SMTT(40)
<1> QED BY <1>5, <1>6

(* getOrCreate and GetUsage: trimming loses nothing that still counts, and *)
(* tokens of another day do not count.                                     *)
LEMMA TrimKeeps ==
    ASSUME NEW t \in Nat, NEW calls \in Seq(Call), NEW k, NEW r \in Record, Keeps(r, calls, k, t),
           NEW q, q.hourly = After(r.hourly, t - Hour), q.daily = After(r.daily, t - Day)
    PROVE  /\ q.hourly \in Seq(Int) /\ q.daily \in Seq(Int)
           /\ CountsHour(q, calls, k, t) /\ CountsDay(q, calls, k, t)
           /\ LatestLast(q, t) /\ WithinLimits(q)
<1>0. /\ t - Hour \in Int /\ t - Day \in Int /\ r.hourly \in Seq(Int) /\ r.daily \in Seq(Int)
      /\ Int \in SUBSET Int /\ MaxCallsPerHour \in Nat /\ MaxCallsPerDay \in Nat
  BY WidthTypes DEF Record
<1>1. /\ q.hourly \in Seq(Int) /\ Len(q.hourly) <= Len(r.hourly)
      /\ q.daily \in Seq(Int) /\ Len(q.daily) <= Len(r.daily)
  BY <1>0, AfterType, Zenon
<1>2. CountsHour(q, calls, k, t)
  <2> SUFFICES ASSUME NEW x \in Int, x >= t - Hour
               PROVE  Cardinality(Since(calls, k, x)) = Len(After(q.hourly, x))
    BY Zenon DEF CountsHour
  <2>1. After(After(r.hourly, t - Hour), x) = After(r.hourly, x)
    BY <1>0, AfterAfter, Zenon
  <2> QED BY <2>1, Zenon DEF Keeps, CountsHour
<1>3. CountsDay(q, calls, k, t)
  <2> SUFFICES ASSUME NEW x \in Int, x >= t - Day
               PROVE  Cardinality(Since(calls, k, x)) = Len(After(q.daily, x))
    BY Zenon DEF CountsDay
  <2>1. After(After(r.daily, t - Day), x) = After(r.daily, x)
    BY <1>0, AfterAfter
  <2> QED BY <2>1, Zenon DEF Keeps, CountsDay
<1>4. LatestLast(q, t)
  <2>1. \A i \in 1..Len(r.daily) : r.daily[i] <= r.daily[Len(r.daily)] /\ r.daily[i] <= t
    BY Zenon DEF Keeps, LatestLast
  <2>2. \A i \in 1..Len(q.daily) : q.daily[i] <= q.daily[Len(q.daily)]
    BY <1>0, <2>1, AfterLatest, Zenon
  <2>3. \A i \in 1..Len(q.daily) : q.daily[i] <= t
    <3> DEFINE S == {y \in Int : y <= t}
    <3>1. S \in SUBSET Int
      OBVIOUS
    <3>2. PICK d \in Seq(Int) : d = r.daily
      BY <1>0
    <3>3. Len(d) \in Nat /\ d = [i \in 1..Len(d) |-> d[i]] /\ \A i \in 1..Len(d) : d[i] \in S
      BY <2>1, <3>2
    <3>4. r.daily \in Seq(S)
      BY <3>2, <3>3, IsSequence, Zenon
    <3>5. q.daily \in Seq(S)
      BY <1>0, <3>1, <3>4, AfterType
    <3> QED BY <3>5
  <2> QED BY <2>2, <2>3 DEF LatestLast
<1>5. WithinLimits(q)
  BY <1>0, <1>1, SMTT(40) DEF Keeps, WithinLimits
<1> QED BY <1>1, <1>2, <1>3, <1>4, <1>5, Zenon

(* The day of the year, and the day since the start, are naturals.         *)
LEMMA YearDayType == \A t \in Nat : YearDay(t) \in Nat /\ t \div Day \in Nat
<1> SUFFICES ASSUME NEW t \in Nat PROVE YearDay(t) \in Nat /\ t \div Day \in Nat
  OBVIOUS
<1>1. Day \in Nat \ {0} /\ Year \in Nat \ {0}
  BY WidthTypes
<1>2. t \div Day \in Nat
  BY <1>1
<1> QED BY <1>1, <1>2 DEF YearDay

(* Trimming forgets only what no window counts.                            *)
LEMMA TrimBudgetKeeps ==
    ASSUME now \in Nat, NEW calls \in Seq(Call), NEW k, NEW r \in Record, Keeps(r, calls, k, now)
    PROVE  trimBudgetTimestamps(r) \in Record /\ Keeps(trimBudgetTimestamps(r), calls, k, now)
<1>1. PICK q : q = trimBudgetTimestamps(r)
  OBVIOUS
<1>2. /\ q.hourly = After(r.hourly, now - Hour) /\ q.daily = After(r.daily, now - Day)
      /\ q.tokens = r.tokens /\ q.day = r.day
      /\ q = [hourly |-> q.hourly, daily |-> q.daily, tokens |-> q.tokens, day |-> q.day]
  BY <1>1 DEF trimBudgetTimestamps
<1>3. /\ q.hourly \in Seq(Int) /\ q.daily \in Seq(Int)
      /\ CountsHour(q, calls, k, now) /\ CountsDay(q, calls, k, now)
      /\ LatestLast(q, now) /\ WithinLimits(q)
  BY <1>2, TrimKeeps
<1>4. q \in Record
  BY <1>2, <1>3 DEF Record
<1>5. CountsTokens(q, calls, k, now)
  BY <1>2 DEF Keeps, CountsTokens
<1> QED BY <1>1, <1>3, <1>4, <1>5 DEF Keeps

(* A record that is looked up is trimmed, and its day is today.            *)
LEMMA GetOrCreateKeeps ==
    ASSUME now \in Nat, NEW calls \in Seq(Call), NEW k, NEW r \in Record, Keeps(r, calls, k, now)
    PROVE  /\ getOrCreate(r) \in Record /\ Keeps(getOrCreate(r), calls, k, now)
           /\ getOrCreate(r).day = YearDay(now)
           /\ getOrCreate(r).hourly = After(r.hourly, now - Hour)
           /\ getOrCreate(r).daily = After(r.daily, now - Day)
<1>1. PICK q : q = getOrCreate(r)
  OBVIOUS
<1>2. /\ q.hourly = After(r.hourly, now - Hour) /\ q.daily = After(r.daily, now - Day)
      /\ q.tokens = (IF r.day = YearDay(now) THEN r.tokens ELSE 0) /\ q.day = YearDay(now)
      /\ q = [hourly |-> q.hourly, daily |-> q.daily, tokens |-> q.tokens, day |-> q.day]
  BY <1>1, Zenon DEF getOrCreate, trimBudgetTimestamps
<1>3. /\ q.hourly \in Seq(Int) /\ q.daily \in Seq(Int)
      /\ CountsHour(q, calls, k, now) /\ CountsDay(q, calls, k, now)
      /\ LatestLast(q, now) /\ WithinLimits(q)
  BY <1>2, TrimKeeps
<1>4. q.tokens \in Nat /\ q.day \in Int
  BY <1>2, YearDayType DEF Record
<1>5. q \in Record
  BY <1>2, <1>3, <1>4 DEF Record
<1>6. CountsTokens(q, calls, k, now)
  BY <1>2 DEF Keeps, CountsTokens
<1> QED BY <1>1, <1>2, <1>3, <1>5, <1>6 DEF Keeps

(* A call charged to k at t, and one that is not.                          *)
LEMMA ChargeKeeps ==
    ASSUME now \in Nat, NEW calls \in Seq(Call), NEW k, NEW r \in Record, Keeps(r, calls, k, now),
           r.day = YearDay(now), ~Spent(r),
           NEW c \in Call, k \in c.keys, c.at = now
    PROVE  /\ Charge(r, c.tokens) \in Record
           /\ Keeps(Charge(r, c.tokens), Append(calls, c), k, now)
<1>0. /\ r.hourly \in Seq(Int) /\ r.daily \in Seq(Int) /\ r.tokens \in Nat /\ r.day \in Int
      /\ c.tokens \in Nat
  BY DEF Record, Call
<1>1. PICK q : q = Charge(r, c.tokens)
  OBVIOUS
<1>2. /\ q.hourly = Append(r.hourly, now) /\ q.daily = Append(r.daily, now)
      /\ q.tokens = r.tokens + c.tokens /\ q.day = r.day
      /\ q = [hourly |-> q.hourly, daily |-> q.daily, tokens |-> q.tokens, day |-> q.day]
  BY <1>1 DEF Charge
<1>3. /\ q.hourly \in Seq(Int) /\ Len(q.hourly) = Len(r.hourly) + 1
      /\ q.daily \in Seq(Int) /\ Len(q.daily) = Len(r.daily) + 1
      /\ q.daily[Len(r.daily) + 1] = now /\ \A i \in 1..Len(r.daily) : q.daily[i] = r.daily[i]
  BY <1>0, <1>2
<1>4. q \in Record
  <2>1. q.tokens \in Nat /\ q.day \in Int
    BY <1>0, <1>2
  <2> QED BY <1>2, <1>3, <2>1, Zenon DEF Record
<1>5. PICK more : more = Append(calls, c)
  BY Zenon
<1>6. \A x \in Int : Cardinality(Since(more, k, x)) =
                         Cardinality(Since(calls, k, x)) + (IF now > x THEN 1 ELSE 0)
  <2> TAKE x \in Int
  <2>1. Cardinality(Since(more, k, x)) =
            Cardinality(Since(calls, k, x)) + (IF k \in c.keys /\ c.at > x THEN 1 ELSE 0)
    BY <1>5, SinceAppend
  <2> QED BY <2>1, Zenon
<1>7. ASSUME NEW w \in Seq(Int), NEW x \in Int, Cardinality(Since(calls, k, x)) = Len(After(w, x))
      PROVE  Cardinality(Since(more, k, x)) = Len(After(Append(w, now), x))
  <2>1. now \in Int
    OBVIOUS
  <2>2. After(Append(w, now), x) = IF now > x THEN Append(After(w, x), now) ELSE After(w, x)
    BY <2>1, AfterAppend
  <2>3. After(w, x) \in Seq(Int)
    BY AfterType
  <2>4. Len(Append(After(w, x), now)) = Len(After(w, x)) + 1 /\ Len(After(w, x)) \in Nat
    BY <2>3
  <2>5. PICK m \in Nat : m = Len(After(w, x))
    BY <2>4
  <2>6. Cardinality(Since(more, k, x)) = m + (IF now > x THEN 1 ELSE 0)
    BY <1>6, <1>7, <2>5, Zenon
  <2>7. CASE now > x
    BY <2>2, <2>4, <2>5, <2>6, <2>7
  <2>8. CASE ~(now > x)
    BY <2>2, <2>5, <2>6, <2>8
  <2> QED BY <2>7, <2>8, Zenon
<1>8. CountsHour(q, more, k, now)
  <2> SUFFICES ASSUME NEW x \in Int, x >= now - Hour
               PROVE  Cardinality(Since(more, k, x)) = Len(After(q.hourly, x))
    BY DEF CountsHour
  <2>1. Cardinality(Since(calls, k, x)) = Len(After(r.hourly, x))
    BY DEF Keeps, CountsHour
  <2> QED BY <1>0, <1>2, <1>7, <2>1, SMTT(40)
<1>9. CountsDay(q, more, k, now)
  <2> SUFFICES ASSUME NEW x \in Int, x >= now - Day
               PROVE  Cardinality(Since(more, k, x)) = Len(After(q.daily, x))
    BY DEF CountsDay
  <2>1. Cardinality(Since(calls, k, x)) = Len(After(r.daily, x))
    BY Zenon DEF Keeps, CountsDay
  <2> QED BY <1>0, <1>2, <1>7, <2>1
<1>10. LatestLast(q, now)
  <2>1. \A i \in 1..Len(r.daily) : r.daily[i] <= now
    BY DEF Keeps, LatestLast
  <2>2. PICK n \in Nat : n = Len(r.daily)
    BY <1>0
  <2>3. \A i \in 1..(n + 1) : i \in 1..n \/ i = n + 1
    OBVIOUS
  <2>4. \A i \in 1..(n + 1) : q.daily[i] <= now
    <3>1. now <= now
      OBVIOUS
    <3> QED BY <1>3, <2>1, <2>2, <2>3, <3>1, Zenon
  <2> QED BY <1>3, <2>2, <2>4, Zenon DEF LatestLast
<1>11. WithinLimits(q)
  BY <1>0, <1>3, WidthTypes, SMTT(40) DEF Spent, WithinLimits
<1>12. CountsTokens(q, more, k, now)
  <2>1. PICK d \in Nat : d = now \div Day
    BY YearDayType
  <2>2. TokensUsed(more, k, d) = TokensUsed(calls, k, d) + Counted(c, k, d)
    BY <1>5, UsedAppend
  <2>3. Counted(c, k, d) = c.tokens
    BY <2>1 DEF Counted
  <2>4. TokensUsed(calls, k, d) <= r.tokens
    BY <2>1 DEF Keeps, CountsTokens
  <2>5. TokensUsed(calls, k, d) \in Nat
    BY UsedType, Zenon
  <2>6. TokensUsed(more, k, d) <= q.tokens
    BY <1>0, <1>2, <2>2, <2>3, <2>4, <2>5
  <2> QED BY <1>2, <2>1, <2>6 DEF CountsTokens
<1> QED BY <1>1, <1>4, <1>5, <1>8, <1>9, <1>10, <1>11, <1>12, Zenon DEF Keeps

(* A call of other keys leaves what a record says of its key.              *)
LEMMA OtherKeeps ==
    ASSUME now \in Nat, NEW calls \in Seq(Call), NEW k, NEW r \in Record, Keeps(r, calls, k, now),
           NEW c \in Call, k \notin c.keys
    PROVE  Keeps(r, Append(calls, c), k, now)
<1>1. PICK more : more = Append(calls, c)
  BY Zenon
<1>2. \A x \in Int : Cardinality(Since(more, k, x)) = Cardinality(Since(calls, k, x))
  <2> TAKE x \in Int
  <2>1. Cardinality(Since(more, k, x)) =
            Cardinality(Since(calls, k, x)) + (IF k \in c.keys /\ c.at > x THEN 1 ELSE 0)
    BY <1>1, SinceAppend
  <2>2. Cardinality(Since(calls, k, x)) \in Nat
    BY SinceFinite
  <2> QED BY <2>1, <2>2, SMTT(40)
<1>3. CountsHour(r, more, k, now) /\ CountsDay(r, more, k, now)
  BY <1>2, Zenon DEF Keeps, CountsHour, CountsDay
<1>4. TokensUsed(more, k, now \div Day) = TokensUsed(calls, k, now \div Day)
  <2>1. PICK d \in Nat : d = now \div Day
    BY YearDayType
  <2>2. TokensUsed(more, k, d) = TokensUsed(calls, k, d) + Counted(c, k, d)
    BY <1>1, UsedAppend
  <2>3. Counted(c, k, d) = 0
    BY DEF Counted
  <2>4. TokensUsed(calls, k, d) \in Nat
    BY UsedType
  <2> QED BY <2>1, <2>2, <2>3, <2>4
<1>5. CountsTokens(r, more, k, now)
  BY <1>4, Zenon DEF Keeps, CountsTokens
<1> QED BY <1>1, <1>3, <1>5, Zenon DEF Keeps

(* A call below the token limit keeps all earlier days within the excess   *)
(* one call may cause.                                                     *)
LEMMA AppendInTokens ==
    ASSUME now \in Nat, NEW calls \in Seq(Call), NEW k, InTokens(calls, k),
           NEW c \in Call, c.at = now,
           k \in c.keys => TokensUsed(calls, k, now \div Day) < MaxTokensPerDay
    PROVE  InTokens(Append(calls, c), k)
<1>1. PICK n \in Nat : n = Len(calls)
  BY CallFields
<1>2. PICK more \in Seq(Call) : more = Append(calls, c)
  BY Appended, Zenon
<1>3. Len(more) = n + 1 /\ more[n + 1] = c /\ \A i \in 1..n : more[i] = calls[i]
  BY <1>1, <1>2, Appended
<1>4. \A i \in 1..(n + 1) : SubSeq(more, 1, i - 1) = SubSeq(calls, 1, i - 1)
  <2> TAKE i \in 1..(n + 1)
  <2>1. i - 1 \in 0..n /\ i - 1 \in Int
    OBVIOUS
  <2>2. \A j \in 1..(i - 1) : more[j] = calls[j]
    BY <1>3
  <2> QED BY <1>1, <1>3, <2>1, <2>2
<1>5. SubSeq(calls, 1, n) = calls
  BY <1>1
<1> SUFFICES ASSUME NEW i \in 1..(n + 1), k \in more[i].keys
             PROVE  TokensUsed(SubSeq(more, 1, i - 1), k, more[i].at \div Day) < MaxTokensPerDay
  BY <1>2, <1>3 DEF InTokens
<1>6. CASE i \in 1..n
  BY <1>1, <1>3, <1>4, <1>6, Zenon DEF InTokens
<1>7. CASE i = n + 1
  <2>1. SubSeq(more, 1, i - 1) = calls /\ more[i] = c
    BY <1>3, <1>4, <1>5, <1>7
  <2> QED BY <2>1, Zenon
<1> QED BY <1>6, <1>7

(* Calendar days.                                                          *)
LEMMA DayMono ==
    ASSUME NEW d \in Nat \ {0}, NEW a \in Nat, NEW b \in Nat, a <= b
    PROVE  a \div d <= b \div d
  OBVIOUS

(* Two times of the same day are less than a day apart.                    *)
LEMMA SameDay ==
    ASSUME NEW d \in Nat \ {0}, NEW a \in Nat, NEW b \in Nat, a \div d = b \div d
    PROVE  a > b - d
  OBVIOUS

(* A record the sweep drops held nothing that counts.                      *)
LEMMA SweepKeeps ==
    ASSUME now \in Nat, NEW calls \in Seq(Call), UpTo(calls, now), NEW k, NEW r \in Record,
           Keeps(r, calls, k, now), r.daily = <<>> \/ r.daily[Len(r.daily)] < now - Day
    PROVE  NoRecord \in Record /\ Keeps(NoRecord, calls, k, now)
<1>0. Hour \in Nat /\ Day \in Nat /\ Day >= 1 /\ Hour <= Day /\ now - Day \in Int
      /\ MaxCallsPerHour \in Nat /\ MaxCallsPerDay \in Nat
  BY WidthTypes
<1>1. PICK d \in Seq(Int) : d = r.daily
  BY DEF Record
<1>2. After(d, now - Day) = <<>>
  <2>1. CASE d = <<>>
    BY <2>1, AfterEmpty
  <2>2. CASE d # <<>>
    <3>1. \A i \in 1..Len(d) : d[i] \in Int /\ d[i] <= d[Len(d)]
      BY <1>1, SMTT(40) DEF Keeps, LatestLast
    <3>2. d[Len(d)] \in Int /\ d[Len(d)] < now - Day
      BY <1>1, <2>2
    <3>3. \A i \in 1..Len(d) : d[i] <= now - Day
      BY <1>0, <3>1, <3>2
    <3> QED BY <1>0, <3>3, AfterNone, Zenon
  <2> QED BY <2>1, <2>2
<1>3. Since(calls, k, now - Day) = {}
  <2>1. Cardinality(Since(calls, k, now - Day)) = Len(After(d, now - Day))
    BY <1>0, <1>1, SMTT(40) DEF Keeps, CountsDay
  <2>2. Cardinality(Since(calls, k, now - Day)) = 0
    BY <1>2, <2>1, Zenon
  <2> QED BY <2>2, SinceFinite, CountOfNone, Zenon
<1>4. ASSUME NEW n \in 1..Len(calls), k \in calls[n].keys
      PROVE  calls[n].at \in Nat /\ calls[n].at <= now - Day
  BY <1>0, <1>3, <1>4, CallFields, SMTT(40) DEF Since
<1>5. \A x \in Int : x >= now - Day => Cardinality(Since(calls, k, x)) = 0
  <2> SUFFICES ASSUME NEW x \in Int, x >= now - Day PROVE Since(calls, k, x) = {}
    BY CountOfNone, Zenon
  <2> QED BY <1>0, <1>4, SMTT(40) DEF Since
<1>6. \A x \in Int : Len(After(<<>>, x)) = 0
  <2>1. \A x \in Int : After(<<>>, x) = <<>>
    BY AfterEmpty
  <2> QED BY <2>1
<1>7. NoRecord.hourly = <<>> /\ NoRecord.daily = <<>> /\ NoRecord.tokens = 0 /\ NoRecord.day = -1
  BY DEF NoRecord, Never
<1>8. CountsHour(NoRecord, calls, k, now) /\ CountsDay(NoRecord, calls, k, now)
  <2>1. \A x \in Int : x >= now - Hour => x >= now - Day
    BY <1>0
  <2> QED BY <1>5, <1>6, <1>7, <2>1, Zenon DEF CountsHour, CountsDay
<1>9. LatestLast(NoRecord, now) /\ WithinLimits(NoRecord)
  BY <1>0, <1>7 DEF LatestLast, WithinLimits
<1>10. TokensUsed(calls, k, now \div Day) = 0
  <2>1. ASSUME NEW n \in 1..Len(calls), k \in calls[n].keys
        PROVE  calls[n].at \div Day # now \div Day
    <3>1. PICK a \in Nat : a = calls[n].at /\ a <= now - Day
      BY <1>4, <2>1
    <3>2. Day \in Nat \ {0}
      BY <1>0
    <3>3. a \div Day # now \div Day
      <4>1. ~(a > now - Day)
        BY <1>0, <3>1
      <4> QED BY <3>2, <4>1, SameDay, Zenon
    <3> QED BY <3>1, <3>3
  <2>2. \A n \in 1..Len(calls) : ~(k \in calls[n].keys /\ calls[n].at \div Day = now \div Day)
    BY <2>1
  <2> QED BY <2>2, UsedNone
<1>11. CountsTokens(NoRecord, calls, k, now)
  <2>1. YearDay(now) # -1
    BY YearDayType
  <2> QED BY <1>7, <1>10, <2>1 DEF CountsTokens
<1>12. NoRecord \in Record
  BY DEF NoRecord, Record, Never
<1> QED BY <1>8, <1>9, <1>11, <1>12, Zenon DEF Keeps

(* A tick later less counts; on a new day, no token does.                  *)
LEMMA LaterKeeps ==
    ASSUME now \in Nat, NEW t, t = now + 1, NEW calls \in Seq(Call), UpTo(calls, now), NEW k,
           NEW r \in Record, Keeps(r, calls, k, now)
    PROVE  Keeps(r, calls, k, t)
<1>0. Hour \in Nat /\ Day \in Nat \ {0} /\ t \in Nat /\ r.tokens \in Nat /\ r.daily \in Seq(Int)
  BY WidthTypes DEF Record
<1>1. CountsHour(r, calls, k, t) /\ CountsDay(r, calls, k, t)
  <2>1. \A x \in Int : (x >= t - Hour => x >= now - Hour) /\ (x >= t - Day => x >= now - Day)
    BY <1>0
  <2> QED BY <2>1 DEF Keeps, CountsHour, CountsDay
<1>2. LatestLast(r, t)
  <2>1. \A i \in 1..Len(r.daily) : r.daily[i] \in Int
    BY <1>0, SMTT(40)
  <2> QED BY <1>0, <2>1, SMTT(40) DEF Keeps, LatestLast
<1>3. CASE t \div Day = now \div Day
  <2>1. CountsTokens(r, calls, k, t)
    BY <1>3 DEF Keeps, CountsTokens, YearDay
  <2> QED BY <1>1, <1>2, <2>1 DEF Keeps
<1>4. CASE t \div Day # now \div Day
  <2>1. \A n \in 1..Len(calls) : ~(k \in calls[n].keys /\ calls[n].at \div Day = t \div Day)
    <3> TAKE n \in 1..Len(calls)
    <3>1. PICK a \in Nat : a = calls[n].at /\ a <= now
      BY CallFields DEF UpTo
    <3>2. a \div Day # t \div Day
      <4>1. a \div Day <= now \div Day /\ now \div Day <= t \div Day
        <5>1. now <= t
          OBVIOUS
        <5> QED BY <1>0, <3>1, <5>1, DayMono, Zenon
      <4>2. a \div Day \in Nat /\ now \div Day \in Nat /\ t \div Day \in Nat
        BY <1>0, YearDayType, Zenon
      <4> QED BY <1>4, <4>1, <4>2
    <3> QED BY <3>1, <3>2, Zenon
  <2>2. TokensUsed(calls, k, t \div Day) = 0
    BY <2>1, UsedNone, Zenon
  <2>3. CountsTokens(r, calls, k, t)
    BY <1>0, <2>2 DEF CountsTokens
  <2> QED BY <1>1, <1>2, <2>3 DEF Keeps
<1> QED BY <1>3, <1>4

(* BudgetStore.Check                                                       *)
LEMMA CheckBudgets ==
    ASSUME now \in Nat, BudgetInv, now' = now,
           NEW i \in Identity \union {NoKey}, NEW s \in Session \union {NoKey}, NEW n \in Nat,
           Check(i, s, n)
    PROVE  BudgetInv'
<1>0. now \in Nat /\ granted \in Seq(Call) /\ UpTo(granted, now) /\ budgets \in [BudgetKey -> Record]
  BY DEF BudgetInv
<1>1. PICK ids, ses : ids = IdentityKeys(i) /\ ses = SessionKeys(s)
  OBVIOUS
<1>2. ids \subseteq BudgetKey /\ ses \subseteq BudgetKey
  BY <1>1, Zenon DEF IdentityKeys, SessionKeys, BudgetKey
<1>3. PICK looked : looked = IF AnySpent(ids) THEN ids ELSE ids \union ses
  BY Zenon
<1>4. looked \subseteq BudgetKey
  BY <1>2, <1>3
<1>5. \A k \in BudgetKey : budgets'[k] =
          IF k \notin looked THEN budgets[k]
          ELSE IF Allowed(i, s) THEN Charge(getOrCreate(budgets[k]), n)
          ELSE getOrCreate(budgets[k])
  BY <1>1, <1>3, Zenon DEF Check
<1>6. DOMAIN budgets' = BudgetKey /\ budgets' = [k \in BudgetKey |-> budgets'[k]]
  BY <1>1, <1>3 DEF Check
<1>7. ASSUME NEW k \in BudgetKey
      PROVE  /\ budgets[k] \in Record /\ Keeps(budgets[k], granted, k, now) /\ InTokens(granted, k)
             /\ getOrCreate(budgets[k]) \in Record
             /\ Keeps(getOrCreate(budgets[k]), granted, k, now)
             /\ getOrCreate(budgets[k]).day = YearDay(now)
  <2>1. budgets[k] \in Record /\ Keeps(budgets[k], granted, k, now) /\ InTokens(granted, k)
    BY <1>0 DEF BudgetInv
  <2> QED BY <1>0, <2>1, GetOrCreateKeeps, Zenon
<1>8. CASE Allowed(i, s)
  <2>1. PICK c : c = [keys |-> looked, tokens |-> n, at |-> now]
    BY Zenon
  <2>2. c \in Call /\ c.keys = looked /\ c.tokens = n /\ c.at = now
    BY <1>0, <1>4, <2>1 DEF Call
  <2>3. granted' = Append(granted, c)
    BY <1>1, <1>3, <1>8, <2>1 DEF Check
  <2>4. PICK m \in Nat : m = Len(granted)
    BY <1>0, CallFields
  <2>5. /\ granted' \in Seq(Call) /\ Len(granted') = m + 1 /\ granted'[m + 1] = c
        /\ \A j \in 1..m : granted'[j] = granted[j]
    <3>1. /\ Append(granted, c) \in Seq(Call) /\ Len(Append(granted, c)) = Len(granted) + 1
          /\ \A j \in 1..Len(granted) : Append(granted, c)[j] = granted[j]
          /\ Append(granted, c)[Len(granted) + 1] = c
      BY <1>0, <2>2, Appended
    <3> QED BY <2>3, <2>4, <3>1, Zenon
  <2>6. UpTo(granted', now)
    <3>1. \A j \in 1..(m + 1) : j \in 1..m \/ j = m + 1
      OBVIOUS
    <3>2. now <= now
      BY <1>0
    <3>3. \A j \in 1..m : granted[j].at <= now
      BY <1>0, <2>4 DEF UpTo
    <3>4. \A j \in 1..(m + 1) : granted'[j].at <= now
      BY <2>2, <2>5, <3>1, <3>2, <3>3, Zenon
    <3> QED BY <2>5, <3>4 DEF UpTo
  <2>7. \A k \in looked : ~Spent(getOrCreate(budgets[k]))
    BY <1>1, <1>3, <1>8 DEF Allowed, AnySpent
  <2>8. ASSUME NEW k \in BudgetKey
        PROVE  /\ budgets'[k] \in Record /\ Keeps(budgets'[k], granted', k, now)
               /\ InTokens(granted', k)
    <3>1. CASE k \in looked
      <4>1. PICK r \in Record : /\ r = getOrCreate(budgets[k]) /\ Keeps(r, granted, k, now)
                                /\ r.day = YearDay(now) /\ ~Spent(r)
        BY <1>7, <2>7, <3>1
      <4>2. budgets'[k] = Charge(r, n)
        BY <1>5, <1>8, <3>1, <4>1, Zenon
      <4>3. Charge(r, n) \in Record /\ Keeps(Charge(r, n), Append(granted, c), k, now)
        <5>1. k \in c.keys
          BY <2>2, <3>1
        <5>2. Charge(r, c.tokens) \in Record /\ Keeps(Charge(r, c.tokens), Append(granted, c), k, now)
          BY <1>0, <2>2, <4>1, <5>1, ChargeKeeps, Zenon
        <5> QED BY <2>2, <5>2
      <4>4. TokensUsed(granted, k, now \div Day) < MaxTokensPerDay
        <5>1. TokensUsed(granted, k, now \div Day) <= r.tokens
          BY <4>1 DEF Keeps, CountsTokens
        <5>2. r.tokens \in Nat /\ r.tokens < MaxTokensPerDay
          BY <4>1, WidthTypes DEF Spent, Record
        <5>3. TokensUsed(granted, k, now \div Day) \in Nat
          BY <1>0, UsedType
        <5> QED BY <5>1, <5>2, <5>3, WidthTypes
      <4>5. InTokens(Append(granted, c), k)
        BY <1>0, <1>7, <2>2, <4>4, AppendInTokens, Zenon
      <4> QED BY <2>3, <4>2, <4>3, <4>5
    <3>2. CASE k \notin looked
      <4>1. budgets'[k] = budgets[k]
        BY <1>5, <3>2, Zenon
      <4>2. Keeps(budgets[k], Append(granted, c), k, now)
        BY <1>0, <1>7, <2>2, <3>2, OtherKeeps, Zenon
      <4>3. InTokens(Append(granted, c), k)
        BY <1>0, <1>7, <2>2, <3>2, AppendInTokens, Zenon
      <4> QED BY <1>7, <2>3, <4>1, <4>2, <4>3, Zenon
    <3> QED BY <3>1, <3>2
  <2>9. budgets' \in [BudgetKey -> Record]
    BY <1>6, <2>8
  <2> QED BY <2>5, <2>6, <2>8, <2>9 DEF BudgetInv
<1>9. CASE ~Allowed(i, s)
  <2>1. granted' = granted
    BY <1>9 DEF Check
  <2>2. \A k \in BudgetKey : budgets'[k] \in Record /\ Keeps(budgets'[k], granted, k, now)
    BY <1>5, <1>7, <1>9, Zenon
  <2>3. budgets' \in [BudgetKey -> Record]
    BY <1>6, <2>2
  <2> QED BY <1>0, <1>7, <2>1, <2>2, <2>3 DEF BudgetInv
<1> QED BY <1>8, <1>9

(* No store operation breaks what the budget records say of the calls      *)
(* made.                                                                   *)
LEMMA BudgetStep == ASSUME now \in Nat, BudgetInv, StoreNext PROVE BudgetInv'
<1>0. /\ now \in Nat /\ granted \in Seq(Call) /\ UpTo(granted, now)
      /\ budgets \in [BudgetKey -> Record]
      /\ \A k \in BudgetKey : /\ budgets[k] \in Record /\ Keeps(budgets[k], granted, k, now)
                              /\ InTokens(granted, k)
  BY DEF BudgetInv
<1>1. CASE UNCHANGED budgetVars /\ now' = now
  BY <1>1 DEF budgetVars, BudgetInv
<1>2. CASE UNCHANGED budgetVars /\ now' = now + 1
  <2>1. UpTo(granted, now')
    BY <1>0, <1>2, CallFields, SMTT(40) DEF UpTo
  <2>2. \A k \in BudgetKey : Keeps(budgets[k], granted, k, now')
    BY <1>0, <1>2, LaterKeeps
  <2> QED BY <1>0, <1>2, <2>1, <2>2 DEF budgetVars, BudgetInv
<1>3. ASSUME now' = now, granted' = granted, budgets' = [k \in BudgetKey |-> budgets'[k]],
             \A k \in BudgetKey : budgets'[k] \in Record /\ Keeps(budgets'[k], granted, k, now)
      PROVE  BudgetInv'
  <2>1. budgets' \in [BudgetKey -> Record]
    BY <1>3
  <2> QED BY <1>0, <1>3, <2>1 DEF BudgetInv
<1>4. CASE GetUsage /\ now' = now
  <2>1. ASSUME NEW k \in BudgetKey
        PROVE  budgets'[k] \in Record /\ Keeps(budgets'[k], granted, k, now)
    <3>1. budgets'[k] = trimBudgetTimestamps(budgets[k]) \/ budgets'[k] = budgets[k]
      BY <1>4 DEF GetUsage
    <3> QED BY <1>0, <3>1, TrimBudgetKeeps
  <2> QED BY <1>3, <1>4, <2>1, Zenon DEF GetUsage
<1>5. CASE SweepBudgets /\ now' = now
  <2>1. ASSUME NEW k \in BudgetKey
        PROVE  budgets'[k] \in Record /\ Keeps(budgets'[k], granted, k, now)
    <3>1. PICK r \in Record : r = budgets[k] /\ Keeps(r, granted, k, now)
      BY <1>0
    <3>2. budgets'[k] = IF r.daily = <<>> \/ r.daily[Len(r.daily)] < now - Day THEN NoRecord ELSE r
      BY <1>5, <3>1 DEF SweepBudgets
    <3>3. CASE r.daily = <<>> \/ r.daily[Len(r.daily)] < now - Day
      BY <1>0, <3>1, <3>2, <3>3, SweepKeeps, Zenon
    <3>4. CASE ~(r.daily = <<>> \/ r.daily[Len(r.daily)] < now - Day)
      BY <3>1, <3>2, <3>4, Zenon
    <3> QED BY <3>3, <3>4
  <2> QED BY <1>3, <1>5, <2>1 DEF SweepBudgets
<1>6. ASSUME now' = now, NEW i \in Identity \union {NoKey}, NEW s \in Session \union {NoKey},
             NEW n \in Nat, Check(i, s, n)
      PROVE  BudgetInv'
  BY <1>6, CheckBudgets
<1> QED BY <1>1, <1>2, <1>4, <1>5, <1>6 DEF StoreNext

-----------------------------------------------------------------------------
(* The stores together.                                                    *)
StoresInv == now \in Nat /\ RingInv /\ SidecarInv /\ AlertInv /\ BudgetInv

(* The ring is empty at the start.                                         *)
LEMMA RingStart == StoresInit => RingInv
<1> SUFFICES ASSUME StoresInit PROVE RingInv
  OBVIOUS
<1>1. pos = 0 /\ count = 0 /\ logged = <<>> /\ buf = [i \in 0..(Size - 1) |-> NoEvent]
  BY DEF StoresInit
<1>2. Len(<<>>) = 0 /\ <<>> \in Seq(Event \union {NoEvent})
  OBVIOUS
<1>3. buf \in [0..(Size - 1) -> Event \union {NoEvent}]
  BY <1>1
<1>4. count = IF Len(logged) < Size THEN Len(logged) ELSE Size
  BY <1>1, <1>2, WidthTypes
<1>5. pos \in 0..(Size - 1) /\ 1..count = {}
  BY <1>1, WidthTypes
<1> QED BY <1>1, <1>2, <1>3, <1>4, <1>5 DEF RingInv

(* No alert was sent at the start.                                         *)
LEMMA AlertStart == StoresInit => AlertInv
<1> SUFFICES ASSUME StoresInit PROVE AlertInv
  OBVIOUS
<1>1. now = 0 /\ seen = [e \in Event |-> Never] /\ recent = <<>> /\ posted = <<>>
  BY DEF StoresInit
<1>2. Len(posted) = 0 /\ 1..Len(posted) = {} /\ posted \in Seq([key : Event, at : Nat])
  BY <1>1
<1>3. recent \in Seq(Int) /\ seen \in [Event -> Int]
  BY <1>1 DEF Never
<1>4. AlertTypeOK
  BY <1>2, <1>3 DEF AlertTypeOK
<1>5. PostsInOrder
  BY <1>2 DEF PostsInOrder
<1>6. PostsApart
  BY <1>1, <1>2 DEF PostsApart
<1>7. PostedAt = <<>>
  BY <1>2 DEF PostedAt, Times
<1>8. RecentAgrees
  BY <1>1, <1>7 DEF RecentAgrees
<1> QED BY <1>4, <1>5, <1>6, <1>8 DEF AlertInv

(* No call was granted at the start.                                       *)
LEMMA BudgetStart == StoresInit => BudgetInv
<1> SUFFICES ASSUME StoresInit PROVE BudgetInv
  OBVIOUS
<1>1. now = 0 /\ granted = <<>> /\ budgets = [k \in BudgetKey |-> NoRecord]
  BY DEF StoresInit
<1>2. granted \in Seq(Call) /\ Len(granted) = 0 /\ 1..Len(granted) = {}
  BY <1>1
<1>3. UpTo(granted, now) /\ \A k \in BudgetKey : InTokens(granted, k)
  BY <1>2, Zenon DEF UpTo, InTokens
<1>4. <<>> \in Seq(Int) /\ 0 \in Nat /\ -1 \in Int
  OBVIOUS
<1>5. NoRecord.hourly = <<>> /\ NoRecord.daily = <<>> /\ NoRecord.tokens = 0 /\ NoRecord.day = -1
  BY DEF NoRecord, Never
<1>6. NoRecord \in Record
  BY <1>4, Zenon DEF NoRecord, Record, Never
<1>7. ASSUME NEW k \in BudgetKey PROVE Keeps(NoRecord, granted, k, now)
  <2>1. \A x : Since(granted, k, x) = {}
    BY <1>2, Zenon DEF Since
  <2>2. \A x : Cardinality(Since(granted, k, x)) = 0
    BY <2>1, CountOfNone, Zenon
  <2>3. \A x \in Int : Len(After(<<>>, x)) = 0
    <3>1. \A x \in Int : After(<<>>, x) = <<>>
      BY AfterEmpty
    <3> QED BY <3>1
  <2>4. CountsHour(NoRecord, granted, k, now) /\ CountsDay(NoRecord, granted, k, now)
    BY <1>5, <2>2, <2>3 DEF CountsHour, CountsDay
  <2>5. LatestLast(NoRecord, now) /\ WithinLimits(NoRecord)
    BY <1>5, WidthTypes DEF LatestLast, WithinLimits
  <2>6. TokensUsed(granted, k, now \div Day) = 0
    BY <1>2, UsedNone
  <2>7. YearDay(now) # -1
    BY <1>1, YearDayType
  <2>8. CountsTokens(NoRecord, granted, k, now)
    BY <1>5, <2>6, <2>7 DEF CountsTokens
  <2> QED BY <2>4, <2>5, <2>8 DEF Keeps
<1>8. budgets \in [BudgetKey -> Record] /\ \A k \in BudgetKey : Keeps(budgets[k], granted, k, now)
  BY <1>1, <1>6, <1>7
<1> QED BY <1>2, <1>3, <1>8 DEF BudgetInv

(* All stores are empty at the start.                                      *)
LEMMA StoresStart == StoresInit => StoresInv
<1> SUFFICES ASSUME StoresInit PROVE StoresInv
  OBVIOUS
<1>1. now \in Nat
  BY DEF StoresInit
<1>2. SidecarInv
  BY WidthTypes DEF StoresInit, SidecarInv, Never
<1> QED BY <1>1, <1>2, RingStart, AlertStart, BudgetStart DEF StoresInv

(* Every step of the controller preserves the invariant of the stores.     *)
LEMMA StoresStep == StoresInv /\ StoreNext => StoresInv'
<1> SUFFICES ASSUME StoresInv, StoreNext PROVE StoresInv'
  OBVIOUS
<1>1. now \in Nat /\ RingInv /\ SidecarInv /\ AlertInv /\ BudgetInv
  BY DEF StoresInv
<1>2. now' \in Nat
  BY <1>1 DEF StoreNext
<1>3. RingInv'
  <2>1. CASE UNCHANGED eventVars
    BY <1>1, <2>1 DEF RingInv, eventVars, Slot
  <2>2. ASSUME NEW e \in Event, Add(e) PROVE RingInv'
    BY <1>1, <2>2, AddRing
  <2> QED BY <2>1, <2>2 DEF StoreNext
<1>4. SidecarInv' /\ AlertInv' /\ BudgetInv'
  BY <1>1, SidecarStep, AlertStep, BudgetStep
<1> QED BY <1>2, <1>3, <1>4 DEF StoresInv

(* What the invariant says to those who read the stores: the admin         *)
(* endpoints, whoever reads the alerts, and the callers that are charged.  *)
LEMMA ListsRecent == StoresInv => AdminSeesRecent
<1> SUFFICES ASSUME StoresInv PROVE AdminSeesRecent
  OBVIOUS
<1>1. RingInv /\ SidecarInv
  BY DEF StoresInv
<1>2. [i \in 1..count |-> buf[(pos - i + Size) % Size]] = Newest
  BY <1>1 DEF RingInv, Newest, Slot
<1>3. \A type, limit : List(type, limit) = Limited(OfType(Newest, type), limit)
  BY <1>2, Zenon DEF List
<1>4. \A p \in Pod :
          announced[p] # Never /\ now - announced[p] <= TTL => sidecars[p] = announced[p]
  BY <1>1 DEF SidecarInv
<1> QED BY <1>3, <1>4, Zenon DEF AdminSeesRecent

(* The invariant keeps alerts apart.                                       *)
LEMMA AlertsApart == StoresInv => AlertDiscipline
<1> SUFFICES ASSUME StoresInv PROVE AlertDiscipline
  OBVIOUS
<1>1. AlertTypeOK /\ PostsInOrder /\ PostsApart /\ MaxPerMin \in Nat /\ Minute \in Nat
  BY WidthTypes DEF StoresInv, AlertInv
<1>2. Len(posted) \in Nat /\ DOMAIN posted = 1..Len(posted)
      /\ \A i \in 1..Len(posted) : posted[i].at \in Nat
  BY <1>1, TimesType, SeqItems, Zenon DEF AlertTypeOK
<1>3. ASSUME NEW i \in DOMAIN posted
      PROVE  Cardinality({j \in DOMAIN posted : j >= i /\ posted[j].at - posted[i].at < Minute})
                 <= MaxPerMin
  <2>1. PICK J : J = {j \in DOMAIN posted : j >= i /\ posted[j].at - posted[i].at < Minute}
    BY Zenon
  <2>2. i \in Int /\ i + MaxPerMin - 1 \in Int
    BY <1>1, <1>2
  <2>3. J \subseteq i..(i + MaxPerMin - 1)
    <3> SUFFICES ASSUME NEW j \in J PROVE j \in i..(i + MaxPerMin - 1)
      OBVIOUS
    <3>1. j \in 1..Len(posted) /\ i \in 1..Len(posted) /\ j >= i
          /\ posted[j].at - posted[i].at < Minute
      BY <1>2, <2>1
    <3>2. posted[j].at \in Nat /\ posted[i].at \in Nat
      BY <1>2, <3>1
    <3>3. ~(posted[j].at - posted[i].at >= Minute)
      BY <1>1, <3>1, <3>2
    <3>4. ~(j - i >= MaxPerMin)
      BY <1>1, <3>1, <3>3, Zenon DEF PostsApart
    <3> QED BY <1>1, <3>1, <3>4
  <2>4. IsFiniteSet(i..(i + MaxPerMin - 1)) /\ Cardinality(i..(i + MaxPerMin - 1)) =
            IF i > i + MaxPerMin - 1 THEN 0 ELSE (i + MaxPerMin - 1) - i + 1
    BY <2>2, CountOfInterval
  <2>5. Cardinality(J) <= Cardinality(i..(i + MaxPerMin - 1))
    BY <2>3, <2>4, CountOfPart, Zenon
  <2>6. Cardinality(i..(i + MaxPerMin - 1)) <= MaxPerMin
    BY <1>1, <2>2, <2>4
  <2>7. Cardinality(J) \in Nat /\ Cardinality(i..(i + MaxPerMin - 1)) \in Nat
    BY <2>3, <2>4, CountOfPart, CountOf, Zenon
  <2> QED BY <1>1, <2>1, <2>5, <2>6, <2>7
<1> QED BY <1>1, <1>2, <1>3, Zenon DEF AlertDiscipline, PostsApart

(* The invariant keeps every budget.                                       *)
LEMMA BudgetsWithin == StoresInv => BudgetKept
<1> SUFFICES ASSUME StoresInv, NEW k \in BudgetKey
             PROVE  LET of == {n \in DOMAIN granted : k \in granted[n].keys}
                        since(w) == {n \in of : granted[n].at > now - w}
                    IN  /\ Cardinality(since(Hour)) <= MaxCallsPerHour
                        /\ Cardinality(since(Day)) <= MaxCallsPerDay
                        /\ \A n \in of :
                              TokensUsed(SubSeq(granted, 1, n - 1), k, granted[n].at \div Day)
                                  < MaxTokensPerDay
                        /\ Len(getOrCreate(budgets[k]).hourly) = Cardinality(since(Hour))
                        /\ Len(getOrCreate(budgets[k]).daily) = Cardinality(since(Day))
  BY Zenon DEF BudgetKept
<1>1. /\ now \in Nat /\ granted \in Seq(Call) /\ budgets[k] \in Record
      /\ Keeps(budgets[k], granted, k, now) /\ InTokens(granted, k)
  BY DEF StoresInv, BudgetInv
<1>2. /\ now - Hour \in Int /\ now - Day \in Int
      /\ MaxCallsPerHour \in Nat /\ MaxCallsPerDay \in Nat
  BY <1>1, WidthTypes
<1>3. DOMAIN granted = 1..Len(granted)
  BY <1>1, SeqItems
<1> DEFINE of == {n \in DOMAIN granted : k \in granted[n].keys}
           since(w) == {n \in of : granted[n].at > now - w}
<1>4. since(Hour) = Since(granted, k, now - Hour) /\ since(Day) = Since(granted, k, now - Day)
  BY <1>3 DEF Since
<1>5. PICK r \in Record :
          /\ r = getOrCreate(budgets[k]) /\ Keeps(r, granted, k, now)
          /\ r.hourly = After(budgets[k].hourly, now - Hour)
          /\ r.daily = After(budgets[k].daily, now - Day)
  BY <1>1, GetOrCreateKeeps, Zenon
<1>6. Cardinality(Since(granted, k, now - Hour)) = Len(r.hourly)
  <2>1. PICK x \in Int : x = now - Hour /\ x >= now - Hour
    BY <1>2
  <2>2. Cardinality(Since(granted, k, x)) = Len(After(r.hourly, x))
    BY <1>5, <2>1, Zenon DEF Keeps, CountsHour
  <2>3. After(r.hourly, x) = r.hourly
    <3>1. PICK s \in Seq(Int) : s = budgets[k].hourly
      BY <1>1, Zenon DEF Record
    <3>2. After(After(s, x), x) = After(s, x)
      BY <2>1, AfterAfter
    <3> QED BY <1>5, <2>1, <3>1, <3>2, Zenon
  <2> QED BY <2>1, <2>2, <2>3, Zenon
<1>7. Cardinality(Since(granted, k, now - Day)) = Len(r.daily)
  <2>1. PICK x \in Int : x = now - Day /\ x >= now - Day
    BY <1>2
  <2>2. Cardinality(Since(granted, k, x)) = Len(After(r.daily, x))
    BY <1>5, <2>1, Zenon DEF Keeps, CountsDay
  <2>3. After(r.daily, x) = r.daily
    <3>1. PICK s \in Seq(Int) : s = budgets[k].daily
      BY <1>1, Zenon DEF Record
    <3>2. After(After(s, x), x) = After(s, x)
      BY <2>1, AfterAfter
    <3> QED BY <1>5, <2>1, <3>1, <3>2, Zenon
  <2> QED BY <2>1, <2>2, <2>3, Zenon
<1>8. Len(r.hourly) <= MaxCallsPerHour /\ Len(r.daily) <= MaxCallsPerDay
  BY <1>5, Zenon DEF Keeps, WithinLimits
<1>9. \A n \in of :
          TokensUsed(SubSeq(granted, 1, n - 1), k, granted[n].at \div Day) < MaxTokensPerDay
  BY <1>1, <1>3, Zenon DEF InTokens
<1> HIDE DEF since
<1> QED BY <1>4, <1>5, <1>6, <1>7, <1>8, <1>9, Zenon DEF since
=============================================================================
