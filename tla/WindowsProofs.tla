---------------------------- MODULE WindowsProofs ----------------------------
(***************************************************************************)
(* What trimming a window of timestamps does, for every window.            *)
(***************************************************************************)
EXTENDS Windows, WellFoundedInduction, TLAPS

(* A set of natural numbers that has members has a least one.              *)
LEMMA LeastExists ==
    ASSUME NEW S \in SUBSET Nat, S # {}
    PROVE  \E j \in S : \A m \in S : j <= m
<1>1. PICK R : R = OpToRel(<, Nat)
  BY Zenon
<1>2. IsWellFoundedOn(R, Nat)
  BY <1>1, NatLessThanWellFounded, Zenon
<1>3. \A x, y \in Nat : y < x => <<y, x>> \in R
  BY <1>1 DEF OpToRel
<1>4. PICK j \in S : \A m \in S : ~(<<m, j>> \in R)
  BY <1>2, WFMin, Zenon
<1>5. \A m \in S : ~(m < j)
  BY <1>3, <1>4, Zenon
<1> QED BY <1>5

(* It is the one that CHOOSE takes.                                        *)
LEMMA LeastNatural ==
    ASSUME NEW S \in SUBSET Nat, S # {}
    PROVE  (CHOOSE j \in S : \A m \in S : j <= m) \in S
  BY LeastExists, Zenon

(* Induction, with the property given as the set of what has it.           *)
LEMMA NatBySet ==
    ASSUME NEW P \in SUBSET Nat, 0 \in P, \A n \in P : n + 1 \in P
    PROVE  \A n \in Nat : n \in P
<1>1. PICK R : R = OpToRel(<, Nat)
  BY Zenon
<1>2. IsWellFoundedOn(R, Nat)
  BY <1>1, NatLessThanWellFounded, Zenon
<1>3. \A x, y \in Nat : y < x => <<y, x>> \in R
  BY <1>1 DEF OpToRel
<1> SUFFICES ASSUME Nat \ P # {} PROVE FALSE
  OBVIOUS
<1>4. PICK j \in Nat \ P : \A m \in Nat \ P : ~(<<m, j>> \in R)
  <2>1. Nat \ P \subseteq Nat
    OBVIOUS
  <2> QED BY <1>2, <2>1, WFMin, Zenon
<1>5. j \in Nat /\ j # 0 /\ j - 1 \in Nat /\ j - 1 < j /\ (j - 1) + 1 = j
  BY <1>4
<1>6. j - 1 \in P
  BY <1>3, <1>4, <1>5, Zenon
<1> QED BY <1>4, <1>5, <1>6

(* What Append makes, which sequences are equal, and what every sequence   *)
(* with elements is made of.                                               *)
LEMMA Appended ==
    ASSUME NEW S, NEW s \in Seq(S), NEW e \in S
    PROVE  /\ Append(s, e) \in Seq(S) /\ Append(s, e) # <<>>
           /\ Len(Append(s, e)) = Len(s) + 1
           /\ \A i \in 1..Len(s) : Append(s, e)[i] = s[i]
           /\ Append(s, e)[Len(s) + 1] = e
  OBVIOUS

(* Sequences of the same length with the same entries are equal.           *)
LEMMA SameItems ==
    ASSUME NEW S, NEW s \in Seq(S), NEW t \in Seq(S),
           Len(s) = Len(t), \A i \in 1..Len(s) : s[i] = t[i]
    PROVE  s = t
  OBVIOUS

(* The empty sequence is a sequence of anything, of length zero.           *)
LEMMA EmptyIs ==
    ASSUME NEW S, NEW s \in Seq(S), Len(s) = 0
    PROVE  s = <<>>
  OBVIOUS

(* A sequence over a set is one over any larger set.                       *)
LEMMA SeqWidens ==
    ASSUME NEW S, NEW T, S \subseteq T, NEW s \in Seq(S)
    PROVE  s \in Seq(T)
  OBVIOUS

(* The last entry after an Append is the one appended.                     *)
LEMMA LastAppended ==
    ASSUME NEW S, NEW s \in Seq(S), s # <<>>
    PROVE  \E v \in Seq(S), e \in S : s = Append(v, e)
<1> DEFINE v == [i \in 1..(Len(s) - 1) |-> s[i]]
<1>1. Len(s) \in Nat /\ Len(s) # 0 /\ Len(s) - 1 \in Nat
  OBVIOUS
<1>2. s[Len(s)] \in S /\ \A i \in 1..(Len(s) - 1) : s[i] \in S
  BY <1>1
<1>3. v \in Seq(S) /\ Len(v) = Len(s) - 1 /\ \A i \in 1..Len(v) : v[i] = s[i]
  BY <1>1, <1>2
<1> HIDE DEF v
<1>4. s = Append(v, s[Len(s)])
  BY <1>1, <1>2, <1>3
<1> QED BY <1>2, <1>3, <1>4, Zenon

(* Induction over sequences, with the set of those that have the property  *)
(* in place of the property.                                               *)
LEMMA SeqBySet ==
    ASSUME NEW S, NEW P \in SUBSET Seq(S), <<>> \in P,
           \A v \in P, e \in S : Append(v, e) \in P
    PROVE  \A s \in Seq(S) : s \in P
<1> DEFINE N == {n \in Nat : \A s \in Seq(S) : Len(s) = n => s \in P}
<1>1. 0 \in N
  OBVIOUS
<1>2. ASSUME NEW n \in N PROVE n + 1 \in N
  <2> SUFFICES ASSUME NEW s \in Seq(S), Len(s) = n + 1 PROVE s \in P
    OBVIOUS
  <2>1. s # <<>>
    OBVIOUS
  <2>2. PICK v \in Seq(S), e \in S : s = Append(v, e)
    BY <2>1, LastAppended, Zenon
  <2>3. Len(v) = n
    BY <2>2
  <2>4. v \in P
    BY <2>3
  <2> QED BY <2>2, <2>4
<1>3. \A n \in Nat : n \in N
  <2> HIDE DEF N
  <2>1. N \in SUBSET Nat
    BY DEF N
  <2> QED BY <1>1, <1>2, <2>1, NatBySet
<1> QED BY <1>3

(* What makes a function a sequence, and a sequence longer by one.         *)
LEMMA IsSequence ==
    ASSUME NEW S, NEW n \in Nat, NEW f, f = [i \in 1..n |-> f[i]], \A i \in 1..n : f[i] \in S
    PROVE  f \in Seq(S) /\ Len(f) = n
<1>1. f \in [1..n -> S]
  OBVIOUS
<1> QED BY <1>1

(* The items of a sequence.                                                *)
LEMMA SeqItems ==
    ASSUME NEW S, NEW s \in Seq(S)
    PROVE  Len(s) \in Nat /\ DOMAIN s = 1..Len(s) /\ \A i \in 1..Len(s) : s[i] \in S
  OBVIOUS

(* A sequence with one item more than another it begins with.              *)
LEMMA LongerByOne ==
    ASSUME NEW S, NEW s \in Seq(S), NEW t \in Seq(S), NEW e \in S,
           Len(t) = Len(s) + 1, t[Len(s) + 1] = e, \A i \in 1..Len(s) : t[i] = s[i]
    PROVE  t = Append(s, e)
<1>1. /\ Append(s, e) \in Seq(S) /\ Len(Append(s, e)) = Len(s) + 1
      /\ Append(s, e)[Len(s) + 1] = e /\ \A i \in 1..Len(s) : Append(s, e)[i] = s[i]
  BY Appended
<1>2. \A i \in 1..(Len(s) + 1) : i \in 1..Len(s) \/ i = Len(s) + 1
  OBVIOUS
<1>3. \A i \in 1..Len(t) : t[i] = Append(s, e)[i]
  BY <1>1, <1>2
<1> QED BY <1>1, <1>3, SameItems

(* kept of After, as far as the first n timestamps.                        *)
Keeping(kept, times, cutoff, n) ==
    kept = [i \in 0..n |-> IF i = 0 THEN <<>>
                           ELSE Keep(kept[i - 1], times[i], cutoff)]

Follows(kept, times, cutoff, n) ==
    kept[0] = <<>> /\ \A i \in 1..n : kept[i] = Keep(kept[i - 1], times[i], cutoff)

(* The recursive function Keep up to n, unfolded.                          *)
LEMMA KeptAt ==
    ASSUME NEW times, NEW cutoff, NEW n \in Nat, NEW kept, Keeping(kept, times, cutoff, n)
    PROVE  Follows(kept, times, cutoff, n)
<1>1. 0 \in 0..n /\ \A i \in 1..n : i \in 0..n /\ i # 0
  OBVIOUS
<1>2. \A i \in 0..n : kept[i] = IF i = 0 THEN <<>> ELSE Keep(kept[i - 1], times[i], cutoff)
  BY Zenon DEF Keeping
<1>3. kept[0] = <<>>
  BY <1>1, <1>2, Zenon
<1>4. \A i \in 1..n : kept[i] = Keep(kept[i - 1], times[i], cutoff)
  BY <1>1, <1>2, Zenon
<1> QED BY <1>3, <1>4 DEF Follows

(* There is such a function: induction on n over the set of numbers that   *)
(* have one.                                                               *)
LEMMA KeptExists ==
    ASSUME NEW times, NEW cutoff, NEW n \in Nat
    PROVE  \E kept : Keeping(kept, times, cutoff, n)
<1> DEFINE N == {m \in Nat : \E kept : Keeping(kept, times, cutoff, m)}
<1>1. 0 \in N
  <2>1. Keeping([i \in 0..0 |-> <<>>], times, cutoff, 0)
    BY DEF Keeping
  <2> QED BY <2>1
<1>2. ASSUME NEW m \in N PROVE m + 1 \in N
  <2>1. PICK f : Keeping(f, times, cutoff, m)
    OBVIOUS
  <2>2. Follows(f, times, cutoff, m)
    BY <2>1, KeptAt
  <2>3. PICK last : last = Keep(f[m], times[m + 1], cutoff)
    OBVIOUS
  <2>4. PICK g : g = [i \in 0..(m + 1) |-> IF i = m + 1 THEN last ELSE f[i]]
    BY Zenon
  <2>5. /\ \A i \in 0..m : i \in 0..(m + 1) /\ i # m + 1
        /\ \A i \in 1..m : i - 1 \in 0..m /\ i \in 0..m /\ i # 0
        /\ m + 1 \in 0..(m + 1) /\ (m + 1) - 1 = m /\ m + 1 # 0 /\ m \in 0..m
        /\ 0 \in 0..m
        /\ \A i \in 0..(m + 1) : i = 0 \/ i \in 1..m \/ i = m + 1
    OBVIOUS
  <2>6. g[m + 1] = last /\ \A i \in 0..m : g[i] = f[i]
    BY <2>4, <2>5, Zenon
  <2>7. \A i \in 0..(m + 1) : g[i] = IF i = 0 THEN <<>> ELSE Keep(g[i - 1], times[i], cutoff)
    <3> TAKE i \in 0..(m + 1)
    <3>1. CASE i = 0
      BY <2>2, <2>5, <2>6, <3>1, Zenon DEF Follows
    <3>2. CASE i \in 1..m
      <4>1. f[i] = Keep(f[i - 1], times[i], cutoff)
        BY <2>2, <3>2, Zenon DEF Follows
      <4> QED BY <2>5, <2>6, <3>2, <4>1, Zenon
    <3>3. CASE i = m + 1
      BY <2>3, <2>5, <2>6, <3>3, Zenon
    <3> QED BY <2>5, <3>1, <3>2, <3>3
  <2>8. DOMAIN g = 0..(m + 1) /\ g = [i \in DOMAIN g |-> g[i]]
    BY <2>4
  <2>9. Keeping(g, times, cutoff, m + 1)
    BY <2>7, <2>8, Zenon DEF Keeping
  <2> QED BY <2>9
<1>3. \A m \in Nat : m \in N
  <2> HIDE DEF N
  <2>1. N \in SUBSET Nat
    BY DEF N
  <2> QED BY <1>1, <1>2, <2>1, NatBySet
<1> QED BY <1>3

(* Windows that begin alike are trimmed alike so far.                      *)
Alike(s, t, n) == \A i \in 1..n : s[i] = t[i]

(* What is kept of two sequences that agree so far is the same.            *)
LEMMA KeptAgrees ==
    ASSUME NEW s, NEW t, NEW cutoff, NEW n \in Nat, NEW m \in Nat, n <= m, Alike(s, t, n),
           NEW f, NEW g, Keeping(f, s, cutoff, n), Keeping(g, t, cutoff, m)
    PROVE  f[n] = g[n]
<1> DEFINE N == {i \in Nat : i <= n => f[i] = g[i]}
<1>1. Follows(f, s, cutoff, n) /\ Follows(g, t, cutoff, m)
  BY KeptAt
<1>2. 0 \in N
  BY <1>1 DEF Follows
<1>3. ASSUME NEW i \in N PROVE i + 1 \in N
  <2> SUFFICES ASSUME i + 1 <= n PROVE f[i + 1] = g[i + 1]
    OBVIOUS
  <2>1. i + 1 \in 1..n /\ i + 1 \in 1..m /\ (i + 1) - 1 = i
    OBVIOUS
  <2>2. f[i] = g[i]
    OBVIOUS
  <2>3. f[i + 1] = Keep(f[(i + 1) - 1], s[i + 1], cutoff)
    BY <1>1, <2>1, Zenon DEF Follows
  <2>4. g[i + 1] = Keep(g[(i + 1) - 1], t[i + 1], cutoff)
    BY <1>1, <2>1, Zenon DEF Follows
  <2>5. s[i + 1] = t[i + 1]
    BY <2>1, Zenon DEF Alike
  <2> QED BY <2>1, <2>2, <2>3, <2>4, <2>5, Zenon
<1>4. \A i \in Nat : i \in N
  <2> HIDE DEF N
  <2>1. N \in SUBSET Nat
    BY DEF N
  <2> QED BY <1>2, <1>3, <2>1, NatBySet
<1> QED BY <1>4

(* After is what is kept of the whole sequence.                            *)
LEMMA AfterKept ==
    ASSUME NEW times, Len(times) \in Nat, NEW cutoff
    PROVE  \E kept : Keeping(kept, times, cutoff, Len(times)) /\ After(times, cutoff) = kept[Len(times)]
<1>1. \E kept : Keeping(kept, times, cutoff, Len(times))
  BY KeptExists
<1>2. Keeping(CHOOSE kept : Keeping(kept, times, cutoff, Len(times)), times, cutoff, Len(times))
  BY <1>1
<1>3. After(times, cutoff) = (CHOOSE kept : Keeping(kept, times, cutoff, Len(times)))[Len(times)]
  BY DEF After, Keeping
<1> QED BY <1>2, <1>3, Zenon

(* Nothing is kept of nothing.                                             *)
LEMMA AfterEmpty == \A cutoff : After(<<>>, cutoff) = <<>>
<1> SUFFICES ASSUME NEW cutoff PROVE After(<<>>, cutoff) = <<>>
  OBVIOUS
<1>1. Len(<<>>) = 0
  OBVIOUS
<1>2. PICK kept : Keeping(kept, <<>>, cutoff, 0) /\ After(<<>>, cutoff) = kept[0]
  BY <1>1, AfterKept
<1>3. Follows(kept, <<>>, cutoff, 0)
  BY <1>2, KeptAt
<1> QED BY <1>2, <1>3 DEF Follows

(* One more entry is kept if it is younger than the cutoff.                *)
LEMMA AfterAppend ==
    ASSUME NEW s \in Seq(Int), NEW e \in Int, NEW cutoff
    PROVE  After(Append(s, e), cutoff) =
               IF e > cutoff THEN Append(After(s, cutoff), e) ELSE After(s, cutoff)
<1>1. PICK n \in Nat : n = Len(s)
  OBVIOUS
<1>2. PICK t : t = Append(s, e)
  BY Zenon
<1>3. Len(t) = n + 1 /\ t[n + 1] = e /\ \A i \in 1..n : t[i] = s[i]
  BY <1>1, <1>2
<1>4. PICK f : Keeping(f, s, cutoff, n) /\ After(s, cutoff) = f[n]
  BY <1>1, AfterKept
<1>5. PICK g : Keeping(g, t, cutoff, n + 1) /\ After(t, cutoff) = g[n + 1]
  BY <1>3, AfterKept
<1>6. f[n] = g[n]
  <2>1. n + 1 \in Nat /\ n <= n + 1
    OBVIOUS
  <2>2. Alike(s, t, n)
    BY <1>3 DEF Alike
  <2> QED BY <1>4, <1>5, <2>1, <2>2, KeptAgrees
<1>7. g[n + 1] = Keep(g[n], t[n + 1], cutoff)
  <2>1. n + 1 \in 1..(n + 1) /\ (n + 1) - 1 = n /\ n + 1 \in Nat
    OBVIOUS
  <2>2. Follows(g, t, cutoff, n + 1)
    BY <1>5, <2>1, KeptAt
  <2>3. g[n + 1] = Keep(g[(n + 1) - 1], t[n + 1], cutoff)
    BY <2>1, <2>2, Zenon DEF Follows
  <2> QED BY <2>1, <2>3
<1> QED BY <1>2, <1>3, <1>4, <1>5, <1>6, <1>7 DEF Keep

(* What is kept are entries of the sequence, no more than it had.          *)
LEMMA AfterType ==
    ASSUME NEW S \in SUBSET Int, NEW s \in Seq(S), NEW cutoff \in Int
    PROVE  After(s, cutoff) \in Seq(S) /\ Len(After(s, cutoff)) <= Len(s)
<1> DEFINE P == {w \in Seq(S) : After(w, cutoff) \in Seq(S) /\ Len(After(w, cutoff)) <= Len(w)}
<1>1. <<>> \in P
  <2>1. After(<<>>, cutoff) = <<>>
    BY AfterEmpty
  <2>2. <<>> \in Seq(S) /\ Len(<<>>) <= Len(<<>>)
    OBVIOUS
  <2> QED BY <2>1, <2>2, Zenon
<1>2. ASSUME NEW v \in P, NEW e \in S PROVE Append(v, e) \in P
  <2>1. v \in Seq(Int) /\ e \in Int
    BY SeqWidens, Zenon
  <2>2. After(Append(v, e), cutoff) =
            IF e > cutoff THEN Append(After(v, cutoff), e) ELSE After(v, cutoff)
    BY <2>1, AfterAppend
  <2>3. PICK a \in Seq(S) : a = After(v, cutoff) /\ Len(a) <= Len(v)
    OBVIOUS
  <2>4. v \in Seq(S) /\ Append(v, e) \in Seq(S) /\ Len(Append(v, e)) = Len(v) + 1
    OBVIOUS
  <2>5. After(Append(v, e), cutoff) \in Seq(S)
    BY <2>2, <2>3
  <2>6. Len(After(Append(v, e), cutoff)) <= Len(Append(v, e))
    BY <2>2, <2>3, <2>4
  <2> QED BY <2>4, <2>5, <2>6
<1>3. \A w \in Seq(S) : w \in P
  <2> HIDE DEF P
  <2>1. P \in SUBSET Seq(S)
    BY DEF P
  <2> QED BY <1>1, <1>2, <2>1, SeqBySet, Zenon
<1> QED BY <1>3

(* A later cutoff keeps no more.                                           *)
LEMMA AfterMono ==
    ASSUME NEW s \in Seq(Int), NEW x \in Int, NEW y \in Int, x <= y
    PROVE  Len(After(s, y)) <= Len(After(s, x))
<1> DEFINE Ok(w) == Len(After(w, y)) <= Len(After(w, x))
           P == {w \in Seq(Int) : Ok(w)}
<1>1. Ok(<<>>)
  <2>1. \A c \in Int : After(<<>>, c) = <<>>
    BY AfterEmpty
  <2> QED BY <2>1
<1>2. ASSUME NEW v \in Seq(Int), Ok(v), NEW e \in Int PROVE Ok(Append(v, e))
  <2>1. \A c \in Int : After(Append(v, e), c) =
            IF e > c THEN Append(After(v, c), e) ELSE After(v, c)
    BY AfterAppend
  <2>2. \A c \in Int : After(v, c) \in Seq(Int)
    BY AfterType
  <2>3. After(Append(v, e), y) = IF e > y THEN Append(After(v, y), e) ELSE After(v, y)
    BY <2>1
  <2>4. After(Append(v, e), x) = IF e > x THEN Append(After(v, x), e) ELSE After(v, x)
    BY <2>1
  <2>5. After(v, x) \in Seq(Int) /\ After(v, y) \in Seq(Int)
    BY <2>2
  <2> QED BY <1>2, <2>3, <2>4, <2>5
<1>3. \A w \in Seq(Int) : Ok(w)
  <2> HIDE DEF Ok
  <2>1. <<>> \in P /\ \A v \in P, e \in Int : Append(v, e) \in P
    BY <1>1, <1>2
  <2>2. P \in SUBSET Seq(Int)
    OBVIOUS
  <2>3. \A w \in Seq(Int) : w \in P
    <3> HIDE DEF P
    <3> QED BY <2>1, <2>2, SeqBySet, Zenon
  <2> QED BY <2>3
<1> QED BY <1>3

(* Trimming again at a later cutoff is trimming at the later one.          *)
LEMMA AfterAfter ==
    ASSUME NEW s \in Seq(Int), NEW x \in Int, NEW y \in Int, x <= y
    PROVE  After(After(s, x), y) = After(s, y)
<1> DEFINE Ok(w) == After(After(w, x), y) = After(w, y)
           P == {w \in Seq(Int) : Ok(w)}
<1>1. Ok(<<>>)
  <2>1. \A c \in Int : After(<<>>, c) = <<>>
    BY AfterEmpty
  <2> QED BY <2>1
<1>2. ASSUME NEW v \in Seq(Int), Ok(v), NEW e \in Int PROVE Ok(Append(v, e))
  <2>1. \A c \in Int : After(Append(v, e), c) =
            IF e > c THEN Append(After(v, c), e) ELSE After(v, c)
    BY AfterAppend
  <2>2. \A c \in Int : After(v, c) \in Seq(Int)
    BY AfterType
  <2>3. CASE e > y
    <3>1. After(Append(v, e), x) = Append(After(v, x), e)
      BY <2>1, <2>3
    <3>2. After(Append(After(v, x), e), y) = Append(After(After(v, x), y), e)
      BY <2>2, <2>3, AfterAppend, Zenon
    <3> QED BY <1>2, <2>1, <2>3, <3>1, <3>2
  <2>4. CASE e > x /\ ~(e > y)
    <3>1. After(Append(v, e), x) = Append(After(v, x), e)
      BY <2>1, <2>4
    <3>2. After(Append(After(v, x), e), y) = After(After(v, x), y)
      BY <2>2, <2>4, AfterAppend
    <3> QED BY <1>2, <2>1, <2>4, <3>1, <3>2
  <2>5. CASE ~(e > x)
    <3>1. ~(e > y)
      BY <2>5
    <3>2. After(Append(v, e), x) = After(v, x) /\ After(Append(v, e), y) = After(v, y)
      BY <2>1, <2>5, <3>1
    <3> QED BY <1>2, <3>2, Zenon
  <2> QED BY <2>3, <2>4, <2>5
<1>3. \A w \in Seq(Int) : Ok(w)
  <2> HIDE DEF Ok
  <2>1. <<>> \in P /\ \A v \in P, e \in Int : Append(v, e) \in P
    BY <1>1, <1>2
  <2>2. P \in SUBSET Seq(Int)
    OBVIOUS
  <2>3. \A w \in Seq(Int) : w \in P
    <3> HIDE DEF P
    <3> QED BY <2>1, <2>2, SeqBySet, Zenon
  <2> QED BY <2>3
<1> QED BY <1>3

(* Only what is after the cutoff is kept.                                  *)
LEMMA AfterNewer ==
    ASSUME NEW s \in Seq(Int), NEW x \in Int
    PROVE  \A i \in 1..Len(After(s, x)) : After(s, x)[i] > x
<1> DEFINE Ok(w) == \A i \in 1..Len(After(w, x)) : After(w, x)[i] > x
           P == {w \in Seq(Int) : Ok(w)}
<1>1. Ok(<<>>)
  <2>1. \A c \in Int : After(<<>>, c) = <<>>
    BY AfterEmpty
  <2> QED BY <2>1
<1>2. ASSUME NEW v \in Seq(Int), Ok(v), NEW e \in Int PROVE Ok(Append(v, e))
  <2>1. \A c \in Int : After(Append(v, e), c) =
            IF e > c THEN Append(After(v, c), e) ELSE After(v, c)
    BY AfterAppend
  <2>2. \A c \in Int : After(v, c) \in Seq(Int)
    BY AfterType
  <2>3. PICK a \in Seq(Int) : a = After(v, x)
    BY <2>2
  <2>4. After(Append(v, e), x) = IF e > x THEN Append(a, e) ELSE a
    BY <2>1, <2>3
  <2>5. \A i \in 1..Len(a) : a[i] > x
    BY <1>2, <2>3, Zenon
  <2>6. CASE e > x
    BY <2>4, <2>5, <2>6
  <2>7. CASE ~(e > x)
    BY <2>4, <2>5, <2>7
  <2> QED BY <2>6, <2>7
<1>3. \A w \in Seq(Int) : Ok(w)
  <2> HIDE DEF Ok
  <2>1. <<>> \in P /\ \A v \in P, e \in Int : Append(v, e) \in P
    BY <1>1, <1>2
  <2>2. P \in SUBSET Seq(Int)
    OBVIOUS
  <2>3. \A w \in Seq(Int) : w \in P
    <3> HIDE DEF P
    <3> QED BY <2>1, <2>2, SeqBySet, Zenon
  <2> QED BY <2>3
<1> QED BY <1>3

(* A window wholly after the cutoff is kept.                               *)
LEMMA AfterAll ==
    ASSUME NEW s \in Seq(Int), NEW x \in Int, \A i \in 1..Len(s) : s[i] > x
    PROVE  After(s, x) = s
<1> DEFINE Ok(w) == (\A i \in 1..Len(w) : w[i] > x) => After(w, x) = w
           P == {w \in Seq(Int) : Ok(w)}
<1>1. Ok(<<>>)
  <2>1. \A c \in Int : After(<<>>, c) = <<>>
    BY AfterEmpty
  <2> QED BY <2>1
<1>2. ASSUME NEW v \in Seq(Int), Ok(v), NEW e \in Int PROVE Ok(Append(v, e))
  <2>1. \A c \in Int : After(Append(v, e), c) =
            IF e > c THEN Append(After(v, c), e) ELSE After(v, c)
    BY AfterAppend
  <2>2. \A c \in Int : After(v, c) \in Seq(Int)
    BY AfterType
  <2> SUFFICES ASSUME \A i \in 1..Len(Append(v, e)) : Append(v, e)[i] > x
               PROVE  After(Append(v, e), x) = Append(v, e)
    OBVIOUS
  <2>3. e > x
    BY SMTT(40)
  <2>4. \A i \in 1..Len(v) : v[i] > x
    OBVIOUS
  <2>5. After(v, x) = v
    BY <1>2, <2>4, Zenon
  <2> QED BY <2>1, <2>3, <2>5
<1>3. \A w \in Seq(Int) : Ok(w)
  <2> HIDE DEF Ok
  <2>1. <<>> \in P /\ \A v \in P, e \in Int : Append(v, e) \in P
    BY <1>1, <1>2
  <2>2. P \in SUBSET Seq(Int)
    OBVIOUS
  <2>3. \A w \in Seq(Int) : w \in P
    <3> HIDE DEF P
    <3> QED BY <2>1, <2>2, SeqBySet, Zenon
  <2> QED BY <2>3
<1> QED BY <1>3

(* A window wholly out of date is emptied.                                 *)
LEMMA AfterNone ==
    ASSUME NEW s \in Seq(Int), NEW x \in Int, \A i \in 1..Len(s) : s[i] <= x
    PROVE  After(s, x) = <<>>
<1> DEFINE Ok(w) == (\A i \in 1..Len(w) : w[i] <= x) => After(w, x) = <<>>
           P == {w \in Seq(Int) : Ok(w)}
<1>1. Ok(<<>>)
  <2>1. \A c \in Int : After(<<>>, c) = <<>>
    BY AfterEmpty
  <2> QED BY <2>1
<1>2. ASSUME NEW v \in Seq(Int), Ok(v), NEW e \in Int PROVE Ok(Append(v, e))
  <2>1. \A c \in Int : After(Append(v, e), c) =
            IF e > c THEN Append(After(v, c), e) ELSE After(v, c)
    BY AfterAppend
  <2>2. \A c \in Int : After(v, c) \in Seq(Int)
    BY AfterType
  <2> SUFFICES ASSUME \A i \in 1..Len(Append(v, e)) : Append(v, e)[i] <= x
               PROVE  After(Append(v, e), x) = <<>>
    OBVIOUS
  <2>3. ~(e > x)
    BY SMTT(40)
  <2>4. \A i \in 1..Len(v) : v[i] <= x
    OBVIOUS
  <2>5. After(v, x) = <<>>
    BY <1>2, <2>4, Zenon
  <2> QED BY <2>1, <2>3, <2>5
<1>3. \A w \in Seq(Int) : Ok(w)
  <2> HIDE DEF Ok
  <2>1. <<>> \in P /\ \A v \in P, e \in Int : Append(v, e) \in P
    BY <1>1, <1>2
  <2>2. P \in SUBSET Seq(Int)
    OBVIOUS
  <2>3. \A w \in Seq(Int) : w \in P
    <3> HIDE DEF P
    <3> QED BY <2>1, <2>2, SeqBySet, Zenon
  <2> QED BY <2>3
<1> QED BY <1>3

(* Of timestamps in order, trimming drops a prefix.                        *)
LEMMA AfterDropsOld ==
    ASSUME NEW s \in Seq(Int), NEW x \in Int,
           \A i, j \in 1..Len(s) : i <= j => s[i] <= s[j]
    PROVE  \A i \in 1..(Len(s) - Len(After(s, x))) : s[i] <= x
<1> DEFINE Ok(w) == (\A i, j \in 1..Len(w) : i <= j => w[i] <= w[j])
                        => \A i \in 1..(Len(w) - Len(After(w, x))) : w[i] <= x
           P == {w \in Seq(Int) : Ok(w)}
<1>1. Ok(<<>>)
  <2>1. \A c \in Int : After(<<>>, c) = <<>>
    BY AfterEmpty
  <2> QED BY <2>1
<1>2. ASSUME NEW v \in Seq(Int), Ok(v), NEW e \in Int PROVE Ok(Append(v, e))
  <2>1. After(Append(v, e), x) = IF e > x THEN Append(After(v, x), e) ELSE After(v, x)
    BY AfterAppend
  <2>2. PICK a \in Seq(Int) : a = After(v, x)
    BY AfterType
  <2>3. PICK w \in Seq(Int) : w = Append(v, e)
    BY Appended, Zenon
  <2>4. Len(w) = Len(v) + 1 /\ w[Len(w)] = e /\ \A i \in 1..Len(v) : w[i] = v[i]
    BY <2>3
  <2> SUFFICES ASSUME \A i, j \in 1..Len(w) : i <= j => w[i] <= w[j],
                      NEW i \in 1..(Len(w) - Len(After(w, x)))
               PROVE  w[i] <= x
    BY <2>3, SMTT(40)
  <2>5. CASE e > x
    <3>1. After(w, x) = Append(a, e)
      BY <2>1, <2>2, <2>3, <2>5
    <3>2. i \in 1..(Len(v) - Len(a))
      BY <2>4, <3>1
    <3>3. \A m, n \in 1..Len(v) : m <= n => v[m] <= v[n]
      BY <2>4
    <3>4. v[i] <= x
      BY <1>2, <2>2, <3>2, <3>3, SMTT(40)
    <3>5. i \in 1..Len(v)
      BY <3>2
    <3>6. w[i] = v[i]
      BY <2>4, <3>5
    <3> QED BY <3>4, <3>6
  <2>6. CASE ~(e > x)
    <3>1. i \in 1..Len(w)
      BY <2>1, <2>2, <2>3, <2>6
    <3>2. Len(w) \in 1..Len(w) /\ i <= Len(w)
      BY <2>4, <3>1
    <3>3. w[i] <= w[Len(w)]
      BY <3>1, <3>2
    <3>4. w[i] \in Int /\ w[Len(w)] = e
      BY <2>4, <3>1
    <3> QED BY <2>6, <3>3, <3>4, SMTT(40)
  <2> QED BY <2>5, <2>6
<1>3. \A w \in Seq(Int) : Ok(w)
  <2> HIDE DEF Ok
  <2>1. <<>> \in P /\ \A v \in P, e \in Int : Append(v, e) \in P
    BY <1>1, <1>2
  <2>2. P \in SUBSET Seq(Int)
    OBVIOUS
  <2>3. \A w \in Seq(Int) : w \in P
    <3> HIDE DEF P
    <3> QED BY <2>1, <2>2, SeqBySet, Zenon
  <2> QED BY <2>3
<1> QED BY <1>3, SMTT(40)

(* If the last timestamp is the latest, it still is after trimming.        *)
LEMMA AfterLatest ==
    ASSUME NEW s \in Seq(Int), NEW x \in Int, \A i \in 1..Len(s) : s[i] <= s[Len(s)]
    PROVE  \A i \in 1..Len(After(s, x)) : After(s, x)[i] <= After(s, x)[Len(After(s, x))]
<1>1. CASE s = <<>>
  <2>1. After(s, x) = <<>>
    BY <1>1, AfterEmpty
  <2> QED BY <2>1
<1>2. CASE s # <<>>
  <2>1. PICK v \in Seq(Int), e \in Int : s = Append(v, e)
    BY <1>2, LastAppended, SMTT(40)
  <2>2. e = s[Len(s)] /\ \A i \in 1..Len(v) : v[i] <= e
    BY <2>1, SMTT(40)
  <2>3. CASE e > x
    <3> DEFINE S == {y \in Int : y <= e}
    <3>1. S \in SUBSET Int /\ v \in Seq(S)
      BY <2>2
    <3>2. PICK a \in Seq(S) : a = After(v, x)
      BY <3>1, AfterType, Zenon
    <3>3. After(s, x) = Append(a, e)
      BY <2>1, <2>3, <3>2, AfterAppend
    <3>4. \A i \in 1..Len(a) : a[i] <= e
      BY <3>2
    <3> HIDE DEF S
    <3> QED BY <3>2, <3>3, <3>4
  <2>4. CASE ~(e > x)
    <3>1. \A i \in 1..Len(s) : s[i] <= x
      BY <2>2, <2>4
    <3>2. After(s, x) = <<>>
      BY <3>1, AfterNone
    <3> QED BY <3>2
  <2> QED BY <2>3, <2>4
<1> QED BY <1>1, <1>2

=============================================================================
