--------------------------- MODULE ExtAuthzProofs ---------------------------
(***************************************************************************)
(* The ext_authz service, for any requests, rules, keys, lifetimes, sinks  *)
(* and number of concurrent checks: its key cache, the pipeline of a check *)
(* and the signals of a trip.                                              *)
(*                                                                         *)
(* KeysFollowIssuer is not inductive: a fetch in flight holds keys that are*)
(* not cached yet and may overwrite newer ones.  JwksInv says of every set *)
(* of keys, cached or in flight, what the issuer's history says of it.     *)
(* PipelineInv says of a check at each stage what the stages before it     *)
(* established, and SinksInv, MarksInv and CountsInv relate what the sinks *)
(* were offered, what became of it, what the breaker remembers and how     *)
(* long it remembers it.                                                   *)
(***************************************************************************)
EXTENDS ExtAuthz, WellFoundedInduction, TLAPS

(* What the history says of the keys published now.                        *)
HistoryInv ==
    /\ \A k \in served : history[k].last = now
    /\ \A k \in Kid : history[k].last <= now
    /\ \A k \in Kid : history[k].always => k \in served

(* A set of keys the issuer answered with at time t: all of them were      *)
(* published then, and if they are its keys none is missing that always    *)
(* was.                                                                    *)
Answered(keys, t, whole) ==
    /\ \A k \in keys : history[k].last >= t
    /\ whole => \A k \in Kid \ Unsupported : history[k].always => k \in keys

CacheInv ==
    cache.fetchedAt \in Nat => cache.fetchedAt <= now /\ Answered(cache.keys, cache.readAt, cache.whole)

(* Whoever stored keys finds the cache at least as fresh, though perhaps   *)
(* filled by another.                                                      *)
Excused(k, t, whole) ==
    \/ k \in Unsupported \/ k \notin Kid
    \/ ~history[k].always
    \/ now - t > CacheTTL
    \/ ~whole

VerifyInv(w) ==
    /\ w.pc = "store" => w.at \in Nat /\ w.at <= now /\ Answered(w.got, w.at, w.whole)
    /\ w.pc = "relook" => w.at \in Nat /\ cache.fetchedAt \in Nat /\ w.at <= cache.fetchedAt
    /\ w.pc = "unknown" => w.at \in Nat /\ w.at <= now /\ Excused(w.token.kid, w.at, w.whole)

JwksTypes ==
    /\ now \in Nat
    /\ JwksTypeOK
    /\ cache.fetchedAt = Never => cache.keys = {}

JwksInv ==
    /\ JwksTypes
    /\ HistoryInv
    /\ CacheInv
    /\ \A v \in Verifier : VerifyInv(verify[v])

(* The lifetime of cached keys is a natural.                               *)
LEMMA LifetimeIsNat == CacheTTL \in Nat
BY JwksAssumption

(* Nothing is cached at the start.                                         *)
LEMMA JwksStarts == JwksInit /\ now = 0 => JwksInv
<1> SUFFICES ASSUME JwksInit, now = 0 PROVE JwksInv
  OBVIOUS
<1>1. \A k \in Kid : /\ history[k].last = IF k \in served THEN 0 ELSE Never
                     /\ history[k].always <=> k \in served
  BY Zenon DEF JwksInit
<1>2. history \in [Kid -> [last : Nat \union {Never}, always : BOOLEAN]]
  BY DEF JwksInit
<1>3. \A v \in Verifier : verify[v] = Off
  BY DEF JwksInit
<1>4. JwksTypes
  BY <1>2 DEF JwksInit, JwksTypes, JwksTypeOK, CacheState, VerifyState, Off, Never
<1>5. HistoryInv
  BY <1>1 DEF HistoryInv, JwksInit, Never
<1>6. CacheInv
  BY DEF CacheInv, JwksInit, Never
<1>7. \A v \in Verifier : VerifyInv(verify[v])
  BY <1>3 DEF VerifyInv, Off
<1> QED BY <1>4, <1>5, <1>6, <1>7 DEF JwksInv

(* A step that leaves keys and time alone, and one verification's record   *)
(* changed to w, keeps the invariant if it holds of w.                     *)
LEMMA OneMoves ==
    ASSUME JwksInv, NEW v \in Verifier, NEW w \in VerifyState, VerifyInv(w),
           verify' = [verify EXCEPT ![v] = w], UNCHANGED <<served, cache, history, now>>
    PROVE  JwksInv'
<1>1. \A u \in Verifier : verify'[u] = IF u = v THEN w ELSE verify[u]
  BY DEF JwksInv, JwksTypes, JwksTypeOK
<1>2. JwksTypes'
  BY DEF JwksInv, JwksTypes, JwksTypeOK
<1>3. HistoryInv' /\ CacheInv'
  BY DEF JwksInv, HistoryInv, CacheInv, Answered
<1>4. ASSUME NEW u \in Verifier PROVE VerifyInv(verify[u])'
  <2>1. VerifyInv(IF u = v THEN w ELSE verify[u])
    BY DEF JwksInv
  <2> QED BY <1>1, <2>1, Zenon DEF VerifyInv, Excused, Answered
<1> QED BY <1>2, <1>3, <1>4 DEF JwksInv

(* A verification begins.                                                  *)
LEMMA StartKeeps ==
    ASSUME JwksInv, NEW v \in Verifier, NEW t \in Token, StartVerify(v, t), UNCHANGED now
    PROVE  JwksInv'
<1>1. PICK p : p = IF t.kid = "" THEN "rejected" ELSE "lookup"
  BY Zenon
<1>2. PICK w : w = [Off EXCEPT !.pc = p, !.token = t]
  OBVIOUS
<1>3. p \in {"rejected", "lookup"}
  BY <1>1, Zenon
<1>4. w \in VerifyState /\ w.pc = p
  BY <1>2, <1>3, Zenon DEF Off, VerifyState
<1>5. VerifyInv(w)
  BY <1>3, <1>4 DEF VerifyInv
<1>6. verify' = [verify EXCEPT ![v] = w]
  BY <1>1, <1>2, Zenon DEF StartVerify
<1> QED BY <1>4, <1>5, <1>6, OneMoves, Zenon DEF StartVerify

(* A verification ends, whatever its result.                               *)
LEMMA EndKeeps ==
    ASSUME JwksInv, NEW v \in Verifier, EndVerify(v), UNCHANGED now
    PROVE  JwksInv'
<1>1. Off \in VerifyState /\ VerifyInv(Off)
  BY DEF Off, VerifyState, VerifyInv
<1> QED BY <1>1, OneMoves, Zenon DEF EndVerify

(* A verification moves on without having learnt anything.                 *)
LEMMA MoveKeeps ==
    ASSUME JwksInv, NEW v \in Verifier, NEW p \in {"fetch", "rejected"},
           Move(v, p), UNCHANGED <<served, cache, history, now>>
    PROVE  JwksInv'
<1>1. PICK w : w = [verify[v] EXCEPT !.pc = p]
  BY Zenon
<1>2. verify[v] \in VerifyState
  BY DEF JwksInv, JwksTypes, JwksTypeOK
<1>3. w \in VerifyState /\ w.pc = p
  BY <1>1, <1>2 DEF VerifyState
<1>4. VerifyInv(w)
  BY <1>3 DEF VerifyInv
<1>5. verify' = [verify EXCEPT ![v] = w]
  BY <1>1 DEF Move
<1> QED BY <1>3, <1>4, <1>5, OneMoves, Zenon

(* A token is judged.                                                      *)
LEMMA ConcludeKeeps ==
    ASSUME JwksInv, NEW v \in Verifier, Conclude(v), UNCHANGED <<served, cache, history, now>>
    PROVE  JwksInv'
<1>1. PICK p : p = IF Valid(verify[v].token) THEN "accepted" ELSE "rejected"
  BY Zenon
<1>2. p \in {"accepted", "rejected"}
  BY <1>1, Zenon
<1>3. PICK w : w = [verify[v] EXCEPT !.pc = p, !.at = now]
  BY Zenon
<1>4. verify[v] \in VerifyState /\ now \in Nat
  BY DEF JwksInv, JwksTypes, JwksTypeOK
<1>5. w \in VerifyState /\ w.pc = p
  BY <1>2, <1>3, <1>4 DEF VerifyState
<1>6. VerifyInv(w)
  BY <1>2, <1>5 DEF VerifyInv
<1>7. verify' = [verify EXCEPT ![v] = w]
  BY <1>1, <1>3, Zenon DEF Conclude
<1> QED BY <1>5, <1>6, <1>7, OneMoves, Zenon

(* The cache is consulted under the read lock.                             *)
LEMMA LookupKeeps ==
    ASSUME JwksInv, NEW v \in Verifier, Lookup(v), UNCHANGED now
    PROVE  JwksInv'
<1>1. Conclude(v) \/ Move(v, "fetch")
  BY Zenon DEF Lookup
<1> QED BY <1>1, MoveKeeps, ConcludeKeeps, Zenon DEF Lookup

(* The keys are fetched without a lock.                                    *)
LEMMA FetchKeeps ==
    ASSUME JwksInv, NEW v \in Verifier, FetchKeys(v), UNCHANGED now
    PROVE  JwksInv'
<1>1. CASE Move(v, "rejected")
  BY <1>1, MoveKeeps DEF FetchKeys
<1>2. ASSUME NEW ks \in SUBSET Kid, NEW whole \in BOOLEAN, Receives(v, ks, whole), Answered(ks, now, whole)
      PROVE  JwksInv'
  <2>1. verify[v] \in VerifyState /\ now \in Nat
    BY DEF JwksInv, JwksTypes, JwksTypeOK
  <2>2. PICK w : w = [verify[v] EXCEPT !.pc = "store", !.got = ks, !.at = now, !.whole = whole]
    OBVIOUS
  <2>3. verify' = [verify EXCEPT ![v] = w]
    BY <1>2, <2>2, Zenon DEF Receives
  <2>4. /\ w \in VerifyState
        /\ w.pc = "store" /\ w.got = ks /\ w.at = now /\ w.whole = whole
    BY <2>1, <2>2 DEF VerifyState
  <2>5. VerifyInv(w)
    BY <1>2, <2>1, <2>4 DEF VerifyInv
  <2> QED BY <2>3, <2>4, <2>5, OneMoves, Zenon DEF FetchKeys
<1>3. /\ Answered(served \ Unsupported, now, TRUE) /\ Answered({}, now, FALSE)
      /\ served \ Unsupported \in SUBSET Kid /\ {} \in SUBSET Kid
  BY DEF Answered, JwksInv, HistoryInv, JwksTypes, JwksTypeOK
<1> QED BY <1>1, <1>2, <1>3, Zenon DEF FetchKeys

(* The cache is consulted a second time under the write lock.              *)
LEMMA RelookKeeps ==
    ASSUME JwksInv, NEW v \in Verifier, Relook(v), UNCHANGED now
    PROVE  JwksInv'
<1>1. CASE Conclude(v)
  BY <1>1, ConcludeKeeps, Zenon DEF Relook
<1>2. CASE /\ verify' = [verify EXCEPT ![v] = [@ EXCEPT !.pc = "unknown", !.whole = cache.whole]]
           /\ ~getCachedKey(verify[v].token.kid)
  <2>1. verify[v] \in VerifyState /\ cache.whole \in BOOLEAN
    BY DEF JwksInv, JwksTypes, JwksTypeOK, CacheState
  <2>2. PICK w : w = [verify[v] EXCEPT !.pc = "unknown", !.whole = cache.whole]
    BY Zenon
  <2>3. /\ w \in VerifyState /\ w.pc = "unknown" /\ w.whole = cache.whole
        /\ w.token = verify[v].token /\ w.at = verify[v].at
    BY <2>1, <2>2 DEF VerifyState
  <2>4. /\ verify[v].at \in Nat /\ cache.fetchedAt \in Nat
        /\ verify[v].at <= cache.fetchedAt
    BY DEF Relook, JwksInv, VerifyInv
  <2>5. cache.fetchedAt <= now /\ Answered(cache.keys, cache.readAt, cache.whole)
    BY <2>4 DEF JwksInv, CacheInv
  <2>6. PICK k : k = verify[v].token.kid
    OBVIOUS
  <2>7. now - cache.fetchedAt > CacheTTL \/ k \notin cache.keys
    BY <1>2, <2>4, <2>6, LifetimeIsNat DEF getCachedKey, Never, JwksInv, JwksTypes
  <2>8. Excused(k, verify[v].at, cache.whole)
    <3>1. CASE k \notin cache.keys
      BY <2>5, <3>1 DEF Excused, Answered
    <3>2. CASE now - cache.fetchedAt > CacheTTL
      BY <2>4, <3>2, LifetimeIsNat DEF Excused, JwksInv, JwksTypes
    <3> QED BY <2>7, <3>1, <3>2
  <2>9. VerifyInv(w)
    BY <2>3, <2>4, <2>5, <2>6, <2>8 DEF VerifyInv, JwksInv, JwksTypes
  <2>10. verify' = [verify EXCEPT ![v] = w]
    BY <1>2, <2>2, Zenon
  <2> QED BY <2>3, <2>9, <2>10, OneMoves, Zenon DEF Relook
<1> QED BY <1>1, <1>2, Zenon DEF Relook

(* Fetched keys are stored, and the time with them.                        *)
LEMMA StoreKeeps ==
    ASSUME JwksInv, NEW v \in Verifier, StoreKeys(v), UNCHANGED now
    PROVE  JwksInv'
<1>1. verify[v] \in VerifyState
  BY DEF JwksInv, JwksTypes, JwksTypeOK
<1>2. PICK w : w = [verify[v] EXCEPT !.pc = "relook", !.at = now]
  OBVIOUS
<1>3. verify' = [verify EXCEPT ![v] = w]
  BY <1>2 DEF StoreKeys
<1>4. \A u \in Verifier : verify'[u] = IF u = v THEN w ELSE verify[u]
  BY <1>3 DEF JwksInv, JwksTypes, JwksTypeOK
<1>5. /\ verify[v].at \in Nat /\ verify[v].at <= now
      /\ Answered(verify[v].got, verify[v].at, verify[v].whole)
  BY DEF StoreKeys, JwksInv, VerifyInv
<1>6. /\ cache'.keys = verify[v].got /\ cache'.fetchedAt = now /\ cache'.readAt = verify[v].at
      /\ cache'.whole = verify[v].whole /\ cache' \in CacheState
  BY <1>1, <1>5 DEF StoreKeys, VerifyState, CacheState, JwksInv, JwksTypes
<1>7. w \in VerifyState /\ w.pc = "relook" /\ w.at = now
  BY <1>1, <1>2, Zenon DEF VerifyState, JwksInv, JwksTypes
<1>8. JwksTypes'
  <2>1. verify' \in [Verifier -> VerifyState]
    BY <1>3, <1>7 DEF JwksInv, JwksTypes, JwksTypeOK
  <2>2. cache'.fetchedAt # Never
    BY <1>6 DEF JwksInv, JwksTypes, Never
  <2>3. JwksTypeOK'
    BY <1>6, <2>1, Zenon DEF StoreKeys, JwksInv, JwksTypes, JwksTypeOK
  <2> QED BY <2>2, <2>3 DEF JwksInv, JwksTypes
<1>9. HistoryInv'
  BY DEF StoreKeys, JwksInv, HistoryInv
<1>10. CacheInv'
  BY <1>5, <1>6 DEF StoreKeys, CacheInv, Answered, JwksInv, JwksTypes
<1>11. ASSUME NEW u \in Verifier PROVE VerifyInv(verify[u])'
  <2>1. CASE u = v
    BY <1>4, <1>6, <1>7, <2>1 DEF VerifyInv, JwksInv, JwksTypes
  <2>2. CASE u # v
    <3>1. VerifyInv(verify[u]) /\ verify'[u] = verify[u]
      BY <1>4, <2>2 DEF JwksInv
    <3>2. verify[u].pc = "relook" => verify[u].at \in Nat /\ verify[u].at <= now
      BY <3>1 DEF VerifyInv, JwksInv, CacheInv, JwksTypes
    <3> QED BY <1>6, <3>1, <3>2, Zenon DEF StoreKeys, VerifyInv, Answered, Excused, JwksInv, JwksTypes
  <2> QED BY <2>1, <2>2
<1> QED BY <1>8, <1>9, <1>10, <1>11 DEF JwksInv

(* Time and rotations only add to what the history excuses.                *)
LEMMA HistoryMoves ==
    ASSUME JwksInv, now' \in Nat, now' >= now, UNCHANGED <<cache, verify>>,
           served' \subseteq Kid,
           history' \in [Kid -> [last : Nat \union {Never}, always : BOOLEAN]],
           \A k \in Kid : history'[k].last >= history[k].last,
           \A k \in Kid : history'[k].always => history[k].always,
           HistoryInv'
    PROVE  JwksInv'
<1>1. JwksTypes'
  BY DEF JwksInv, JwksTypes, JwksTypeOK, CacheState, VerifyState
<1>2. ASSUME NEW keys \in SUBSET Kid, NEW t \in Nat \union {Never}, NEW whole, Answered(keys, t, whole)
      PROVE  Answered(keys, t, whole)'
  BY <1>2 DEF Answered, JwksInv, JwksTypes, JwksTypeOK, Never
<1>3. cache.keys \in SUBSET Kid /\ cache.readAt \in Nat \union {Never}
  BY DEF JwksInv, JwksTypes, JwksTypeOK, CacheState
<1>4. CacheInv'
  <2> SUFFICES ASSUME cache.fetchedAt \in Nat
               PROVE  cache.fetchedAt <= now' /\ Answered(cache.keys, cache.readAt, cache.whole)'
    BY DEF CacheInv
  <2>1. cache.fetchedAt <= now /\ Answered(cache.keys, cache.readAt, cache.whole)
    BY DEF JwksInv, CacheInv
  <2>2. cache.fetchedAt <= now'
    BY <2>1 DEF JwksInv, JwksTypes
  <2>3. /\ \A k \in cache.keys : history'[k].last >= cache.readAt
        /\ cache.whole => \A k \in Kid \ Unsupported : history'[k].always => k \in cache.keys
    BY <1>2, <1>3, <2>1, Zenon DEF Answered
  <2> QED BY <2>2, <2>3 DEF Answered
<1>5. ASSUME NEW v \in Verifier PROVE VerifyInv(verify[v])'
  <2>1. /\ verify' = verify /\ cache' = cache
        /\ verify[v].got \in SUBSET Kid
        /\ VerifyInv(verify[v])
    BY DEF JwksInv, JwksTypes, JwksTypeOK, VerifyState
  <2>2. ASSUME verify[v].pc = "store"
        PROVE  verify[v].at \in Nat /\ verify[v].at <= now' /\ Answered(verify[v].got, verify[v].at, verify[v].whole)'
    BY <1>2, <2>1, <2>2, SMTT(40) DEF VerifyInv, JwksInv, JwksTypes, Answered
  <2>3. ASSUME verify[v].pc = "unknown"
        PROVE  /\ verify[v].at \in Nat /\ verify[v].at <= now'
               /\ Excused(verify[v].token.kid, verify[v].at, verify[v].whole)'
    <3>1. /\ verify[v].at \in Nat /\ verify[v].at <= now
          /\ Excused(verify[v].token.kid, verify[v].at, verify[v].whole)
      BY <2>1, <2>3, Zenon DEF VerifyInv
    <3> QED BY <2>1, <3>1, LifetimeIsNat DEF Excused, JwksInv, JwksTypes
  <2> QED BY <2>1, <2>2, <2>3, Zenon DEF VerifyInv
<1> QED BY <1>1, <1>4, <1>5, Zenon DEF JwksInv

(* The issuer changes its keys.                                            *)
LEMMA RotateKeeps ==
    ASSUME JwksInv, NEW ks \in SUBSET Kid, Rotate(ks), UNCHANGED now
    PROVE  JwksInv'
<1>1. \A k \in Kid : history[k] \in [last : Nat \union {Never}, always : BOOLEAN]
  BY DEF JwksInv, JwksTypes, JwksTypeOK
<1>2. history' \in [Kid -> [last : Nat \union {Never}, always : BOOLEAN]]
  BY <1>1, Zenon DEF Rotate, JwksInv, JwksTypes
<1>3. \A k \in Kid : /\ history'[k].last = IF k \in served \union ks THEN now ELSE history[k].last
                     /\ history'[k].always <=> history[k].always /\ k \in ks
  BY Zenon DEF Rotate
<1>4. \A k \in Kid : history'[k].last >= history[k].last
  BY <1>1, <1>3 DEF JwksInv, JwksTypes, HistoryInv, Never
<1>5. HistoryInv'
  BY <1>1, <1>3 DEF Rotate, JwksInv, JwksTypes, HistoryInv, Never
<1>6. now' \in Nat /\ now' >= now
  BY DEF JwksInv, JwksTypes
<1> QED BY <1>2, <1>3, <1>4, <1>5, <1>6, HistoryMoves, Zenon DEF Rotate

(* Time passes, and the issuer serves what it serves.                      *)
LEMMA TickKeeps ==
    ASSUME JwksInv, Tick, StillServed
    PROVE  JwksInv'
<1>1. \A k \in Kid : history[k] \in [last : Nat \union {Never}, always : BOOLEAN]
  BY DEF JwksInv, JwksTypes, JwksTypeOK
<1>2. now \in Nat /\ now' = now + 1
  BY DEF JwksInv, JwksTypes, Tick
<1>3. \A k \in Kid : history'[k] = IF k \in served THEN [history[k] EXCEPT !.last = now'] ELSE history[k]
  BY DEF StillServed
<1>4. \A k \in Kid : /\ history'[k] \in [last : Nat \union {Never}, always : BOOLEAN]
                     /\ history'[k].last = IF k \in served THEN now' ELSE history[k].last
                     /\ history'[k].always <=> history[k].always
  <2> SUFFICES ASSUME NEW k \in Kid
               PROVE  /\ history'[k] \in [last : Nat \union {Never}, always : BOOLEAN]
                      /\ history'[k].last = IF k \in served THEN now' ELSE history[k].last
                      /\ history'[k].always <=> history[k].always
    OBVIOUS
  <2>1. CASE k \in served
    <3>1. PICK h \in [last : Nat \union {Never}, always : BOOLEAN] : h = history[k]
      BY <1>1
    <3>2. history'[k] = [h EXCEPT !.last = now']
      BY <1>3, <2>1, <3>1
    <3> QED BY <1>2, <2>1, <3>1, <3>2
  <2>2. CASE k \notin served
    BY <1>1, <1>3, <2>2, Zenon
  <2> QED BY <2>1, <2>2
<1>5. history' \in [Kid -> [last : Nat \union {Never}, always : BOOLEAN]]
  BY <1>4 DEF StillServed
<1>6. \A k \in Kid : history'[k].last >= history[k].last
  BY <1>1, <1>2, <1>4 DEF JwksInv, HistoryInv, Never
<1>7. HistoryInv'
  BY <1>1, <1>2, <1>4 DEF StillServed, JwksInv, JwksTypes, JwksTypeOK, HistoryInv, Never
<1>8. served' \subseteq Kid
  BY DEF StillServed, JwksInv, JwksTypes, JwksTypeOK
<1> QED BY <1>2, <1>4, <1>5, <1>6, <1>7, <1>8, HistoryMoves DEF StillServed

(* The invariant gives the property: a key in the cache was published when *)
(* its fetch was answered.                                                 *)
LEMMA JwksInvFollows == JwksInv => KeysFollowIssuer
<1> SUFFICES ASSUME JwksInv PROVE KeysFollowIssuer
  OBVIOUS
<1>1. \A k \in cache.keys : history[k].last >= cache.readAt
  BY DEF JwksInv, JwksTypes, JwksTypeOK, CacheState, CacheInv, Answered
<1>2. \A v \in Verifier : verify[v].pc = "unknown" =>
          Excused(verify[v].token.kid, verify[v].at, verify[v].whole)
  BY DEF JwksInv, VerifyInv
<1> QED BY <1>1, <1>2, Zenon DEF KeysFollowIssuer, Excused

(* Every step of the key cache preserves its invariant.                    *)
LEMMA JwksStep == JwksInv /\ [JwksNext]_<<jwksVars, now>> => JwksInv'
<1> SUFFICES ASSUME JwksInv, [JwksNext]_<<jwksVars, now>> PROVE JwksInv'
  OBVIOUS
<1>1. CASE UNCHANGED <<jwksVars, now>>
  BY <1>1, Zenon DEF jwksVars, JwksInv, JwksTypes, JwksTypeOK, CacheState, VerifyState, HistoryInv, CacheInv, Answered,
              VerifyInv, Excused
<1>2. CASE Tick /\ StillServed
  BY <1>2, TickKeeps
<1>3. ASSUME NEW ks \in SUBSET Kid, Rotate(ks), UNCHANGED now PROVE JwksInv'
  BY <1>3, RotateKeeps
<1>4. ASSUME NEW v \in Verifier, NEW t \in Token, StartVerify(v, t), UNCHANGED now PROVE JwksInv'
  BY <1>4, StartKeeps
<1>5. ASSUME NEW v \in Verifier, VerifyStep(v), UNCHANGED now PROVE JwksInv'
  BY <1>5, LookupKeeps, FetchKeeps, StoreKeeps, RelookKeeps DEF VerifyStep
<1>6. ASSUME NEW v \in Verifier, EndVerify(v), UNCHANGED now PROVE JwksInv'
  BY <1>6, EndKeeps
<1> QED BY <1>1, <1>2, <1>3, <1>4, <1>5, <1>6 DEF JwksNext

(* However verifications, slow fetches and rotations interleave, the cache *)
(* holds keys the issuer published when it answered, and a key published   *)
(* all along is reported unknown only if the cache expired before the      *)
(* second look, or the fetch stored last had no keys in its answer         *)
(* (jwks.go:166-244).                                                      *)
THEOREM CacheFollowsIssuer == JwksSpec => []KeysFollowIssuer
  BY JwksStep, JwksStarts, JwksInvFollows, PTL DEF JwksSpec

-----------------------------------------------------------------------------
(* The pipeline of one check.                                              *)

(* The request the engine is asked about.                                  *)
PolicyOf(x) ==
    [method |-> IF x.req.tool = NoTool THEN "" ELSE "tools/call", tool |-> x.req.tool, args |-> x.action,
     identity |-> IF x.run = NoSession THEN NoIdentity ELSE x.req.token.identity]

Screened(x) == Screen(x.req, x.names) = "" /\ x.action = Action(x.req)

RunOK(x) ==
    IF HasRunTokens /\ x.req.token # NoToken
    THEN /\ x.run = x.req.token.txn /\ x.run # NoSession /\ x.req.token.signed /\ Bound(x.req)
         /\ x.req.token.iat # Never /\ InTime(x.req.token, x.judged)
    ELSE x.run = NoSession

Permitted(x) == Evaluate(Rules, PolicyOf(x)).allowed

(* A verification accepts a signed token that is in time then.             *)
Judged(v) == v.pc = "accepted" => v.token.signed /\ InTime(v.token, v.at)

Flight == {"verify", "admit", "gates", "answer"}

Passing == {"rates", "budget", "record", "velocity", "forward"}

(* What is known of a check x, its goroutine k at the gates and its        *)
(* verification v, wherever they are.                                      *)
CheckInv(x, k, v) ==
    /\ x.pc \in Flight \union {"idle", "answered"}
    /\ x.pc \in Flight => x = [pc |-> x.pc, req |-> x.req, run |-> x.run, decision |-> x.decision,
                               names |-> x.names, action |-> x.action, judged |-> x.judged]
    /\ x.pc # "idle" => /\ x.req \in Requests /\ x.run \in Session \union {NoSession}
                        /\ x.req.dest = <<>> => x.names = {}
    /\ x.pc = "verify" => HasRunTokens /\ x.req.token # NoToken /\ v.token = x.req.token /\ Screened(x)
    /\ Judged(v)
    /\ x.pc \in {"admit", "gates"} => Screened(x) /\ RunOK(x)
    /\ x.pc = "answer" => ~x.decision.allowed
    /\ k.pc # "idle" => x.pc = "gates"
    /\ k.pc \in Passing => x.decision.allowed /\ Permitted(x)
    /\ k.pc \notin {"idle", "refused"} => k.call.session = x.run
    /\ k.pc = "trip" => x.run # NoSession
    /\ x.pc = "answered" => /\ x.reply = Respond(x.decision) /\ x.instead = Counterfactual(x.decision)
                            /\ x.decision.allowed => Screened(x) /\ RunOK(x) /\ Permitted(x)

ScriptOK ==
    /\ DOMAIN script = {"mode", "optional", "reqs", "serves", "rotations", "ticks"}
    /\ script = [f \in DOMAIN script |-> script[f]]
    /\ script.reqs \in Seq(Requests) /\ script.rotations \in Seq(SUBSET Kid)

ChecksInv ==
    /\ check = [c \in Caller |-> check[c]]
    /\ \A c \in Caller : CheckInv(check[c], caller[c], verify[c])

PipelineInv == JwksInv /\ CoreTypeOK /\ ScriptOK /\ ChecksInv

(* The configuration of the service does not change.                       *)
Configured == script'.mode = script.mode /\ script'.optional = script.optional

(* What is known of a check depends on no variable but the configuration.  *)
LEMMA Steady ==
    ASSUME Configured, NEW x, NEW k, NEW v, CheckInv(x, k, v)
    PROVE  CheckInv(x, k, v)'
<1>1. \A q, n : Screen(q, n)' = Screen(q, n)
  BY Zenon DEF Screen, Configured
<1>2. mode' = mode
  BY Zenon DEF mode, Configured
<1>3. \A d : Respond(d)' = Respond(d) /\ Counterfactual(d)' = Counterfactual(d)
  BY <1>2, Zenon DEF Respond, Counterfactual
<1>4. Screened(x)' = Screened(x)
  BY <1>1, Zenon DEF Screened
<1> QED BY <1>3, <1>4, Zenon DEF CheckInv, RunOK, Permitted, PolicyOf

(* One goroutine moves: only what is known of its check is to be shown     *)
(* again.                                                                  *)
LEMMA OneCheck ==
    ASSUME ChecksInv, Configured, NEW c \in Caller, NEW x, NEW k, NEW v, CheckInv(x, k, v),
           check' = [d \in Caller |-> check'[d]],
           \A d \in Caller : check'[d] = IF d = c THEN x ELSE check[d],
           \A d \in Caller : caller'[d] = IF d = c THEN k ELSE caller[d],
           \A d \in Caller : verify'[d] = IF d = c THEN v ELSE verify[d]
    PROVE  ChecksInv'
<1>1. ASSUME NEW d \in Caller PROVE CheckInv(check[d], caller[d], verify[d])'
  <2>1. PICK y, l, w : y = check'[d] /\ l = caller'[d] /\ w = verify'[d]
    BY Zenon
  <2>2. CheckInv(y, l, w)
    <3>1. CASE d = c
      BY <2>1, <3>1, Zenon
    <3>2. CASE d # c
      <4>1. y = check[d] /\ l = caller[d] /\ w = verify[d]
        BY <2>1, <3>2, Zenon
      <4> QED BY <4>1, Zenon DEF ChecksInv
    <3> QED BY <3>1, <3>2
  <2>3. CheckInv(y, l, w)'
    BY <2>2, Steady, Zenon
  <2> QED BY <2>1, <2>3, Zenon
<1> QED BY <1>1, Zenon DEF ChecksInv

(* A screen that refuses gives a reason that is no approval.               *)
LEMMA ScreenRefuses ==
    ASSUME NEW q, NEW names, NEW why, why = Screen(q, names)
    PROVE  why # "" => ~Decision(why, 0).allowed
<1>1. why \in {"body_truncated", "target_mismatch", "operation_ambiguous", "run_token_missing", ""}
  BY Zenon DEF Screen
<1> QED BY <1>1 DEF Decision

(* The next request of the script is a request.                            *)
LEMMA NextRequest ==
    ASSUME ScriptOK, script.reqs # <<>>
    PROVE  Head(script.reqs) \in Requests /\ Tail(script.reqs) \in Seq(Requests)
<1>1. PICK s \in Seq(Requests) : s = script.reqs
  BY Zenon DEF ScriptOK
<1>2. Head(s) \in Requests /\ Tail(s) \in Seq(Requests)
  BY <1>1
<1> QED BY <1>1, <1>2, Zenon

(* Check screens the request and passes it on, or answers it.              *)
LEMMA CheckBegins ==
    ASSUME PipelineInv, NEW c \in Caller, Check(c), Configured
    PROVE  ChecksInv'
<1>1. PICK q : q = Head(script.reqs)
  BY Zenon
<1>2. q \in Requests
  BY <1>1, NextRequest, Zenon DEF PipelineInv, Check
<1>3. PICK names \in Resolver[q.dest] :
          LET why == Screen(q, names)
              starts == why = "" /\ HasRunTokens /\ q.token # NoToken
          IN  /\ check' = [check EXCEPT ![c] =
                    [pc |-> IF why # "" THEN "answer" ELSE IF starts THEN "verify" ELSE "admit",
                     req |-> q, run |-> NoSession, decision |-> Decision(why, 0), names |-> names,
                     action |-> IF why = "" THEN Action(q) ELSE "", judged |-> Never]]
              /\ IF starts THEN StartVerify(c, q.token) ELSE UNCHANGED jwksVars
  BY <1>1, Zenon DEF Check
<1>3a. PICK why, starts, x :
          /\ why = Screen(q, names)
          /\ starts = (why = "" /\ HasRunTokens /\ q.token # NoToken)
          /\ x = [pc |-> IF why # "" THEN "answer" ELSE IF starts THEN "verify" ELSE "admit",
                   req |-> q, run |-> NoSession, decision |-> Decision(why, 0), names |-> names,
                   action |-> IF why = "" THEN Action(q) ELSE "", judged |-> Never]
  BY Zenon
<1>4. /\ why = Screen(q, names)
      /\ starts = (why = "" /\ HasRunTokens /\ q.token # NoToken)
      /\ x = [pc |-> IF why # "" THEN "answer" ELSE IF starts THEN "verify" ELSE "admit",
               req |-> q, run |-> NoSession, decision |-> Decision(why, 0), names |-> names,
               action |-> IF why = "" THEN Action(q) ELSE "", judged |-> Never]
      /\ check' = [check EXCEPT ![c] = x]
      /\ IF starts THEN StartVerify(c, q.token) ELSE UNCHANGED jwksVars
  BY <1>3, <1>3a, Zenon
<1>5. /\ x.req = q /\ x.run = NoSession /\ x.decision = Decision(why, 0) /\ x.names = names
      /\ x.action = IF why = "" THEN Action(q) ELSE ""
      /\ x.pc = IF why # "" THEN "answer" ELSE IF starts THEN "verify" ELSE "admit"
      /\ x = [pc |-> x.pc, req |-> x.req, run |-> x.run, decision |-> x.decision,
              names |-> x.names, action |-> x.action, judged |-> x.judged]
  BY <1>4, Zenon
<1>6. q.dest = <<>> => names = {}
  BY <1>3, ExtAuthzAssumption, Zenon
<1>7. check[c].pc = "idle" /\ CheckInv(check[c], caller[c], verify[c]) /\ caller' = caller
  BY DEF Check, PipelineInv, ChecksInv, gatesVars
<1>8. caller[c].pc = "idle" /\ Judged(verify[c])
  BY <1>7, Zenon DEF CheckInv
<1>9. /\ \A d \in Caller : d # c => verify'[d] = verify[d]
      /\ Judged(verify'[c])
      /\ starts => verify'[c].token = q.token
  <2>1. CASE starts
    <3>1. PICK w : w = [Off EXCEPT !.pc = IF q.token.kid = "" THEN "rejected" ELSE "lookup", !.token = q.token]
      BY Zenon
    <3>2. w.pc \in {"rejected", "lookup"} /\ w.token = q.token
      BY <3>1 DEF Off
    <3>3. verify' = [verify EXCEPT ![c] = w]
      BY <1>4, <2>1, <3>1, Zenon DEF StartVerify
    <3>4. c \in Verifier /\ verify \in [Verifier -> VerifyState]
      BY ExtAuthzAssumption, Zenon DEF PipelineInv, JwksInv, JwksTypes, JwksTypeOK
    <3>5. verify'[c] = w /\ \A d \in Caller : d # c => verify'[d] = verify[d]
      BY <3>3, <3>4, ExtAuthzAssumption
    <3> QED BY <3>2, <3>5, Zenon DEF Judged
  <2>2. CASE ~starts
    BY <1>4, <1>8, <2>2, Zenon DEF jwksVars
  <2> QED BY <2>1, <2>2, Zenon
<1>10. PICK v : v = verify'[c]
  BY Zenon
<1>11. ~Decision(why, 0).allowed \/ why = ""
  BY <1>4, ScreenRefuses, Zenon
<1>12. CheckInv(x, caller[c], v)
  <2>1. x.pc \in {"answer", "verify", "admit"} /\ caller[c].pc = "idle"
    BY <1>5, <1>8, Zenon
  <2>2. x.pc = "answer" => ~x.decision.allowed
    BY <1>5, <1>11, Zenon
  <2>3. x.pc \in {"verify", "admit"} => Screened(x)
    BY <1>4, <1>5, Zenon DEF Screened
  <2>4. x.pc = "verify" => HasRunTokens /\ x.req.token # NoToken /\ v.token = x.req.token
    BY <1>4, <1>5, <1>9, <1>10, Zenon
  <2>5. x.pc = "admit" => RunOK(x)
    BY <1>4, <1>5, Zenon DEF RunOK
  <2>6. Judged(v)
    BY <1>9, <1>10, Zenon
  <2> QED BY <1>2, <1>5, <1>6, <2>1, <2>2, <2>3, <2>4, <2>5, <2>6, Zenon DEF CheckInv, Flight, Passing
<1>13. check' = [d \in Caller |-> check'[d]] /\ \A d \in Caller : check'[d] = IF d = c THEN x ELSE check[d]
  BY <1>4, Zenon DEF PipelineInv, ChecksInv
<1>14. /\ \A d \in Caller : caller'[d] = IF d = c THEN caller[c] ELSE caller[d]
       /\ \A d \in Caller : verify'[d] = IF d = c THEN v ELSE verify[d]
  BY <1>7, <1>9, <1>10, Zenon
<1>15. ChecksInv
  BY Zenon DEF PipelineInv
<1> QED BY <1>12, <1>13, <1>14, <1>15, OneCheck, Zenon

(* A verification moves on with its token, and accepts a signed one that   *)
(* is in time only.                                                        *)
LEMMA VerifyMoves ==
    ASSUME JwksTypeOK, NEW c \in Verifier, VerifyStep(c)
    PROVE  /\ \A d \in Verifier : d # c => verify'[d] = verify[d]
           /\ verify'[c].token = verify[c].token
           /\ Judged(verify'[c])
<1>1. verify \in [Verifier -> VerifyState] /\ verify[c] \in VerifyState
  BY DEF JwksTypeOK
<1>2. ASSUME NEW p, Move(c, p)
      PROVE  /\ \A d \in Verifier : d # c => verify'[d] = verify[d]
             /\ verify'[c].token = verify[c].token /\ verify'[c].pc = p
  BY <1>1, <1>2 DEF Move, VerifyState
<1>3. CASE Conclude(c)
  <2>1. PICK t, p : t = verify[c].token /\ p = IF Valid(t) THEN "accepted" ELSE "rejected"
    BY Zenon
  <2>2. p = "accepted" => t.signed /\ InTime(t, now)
    BY <2>1, Zenon DEF Valid, checkLifetime, InTime
  <2>3. verify' = [verify EXCEPT ![c] = [@ EXCEPT !.pc = p, !.at = now]]
    BY <1>3, <2>1, Zenon DEF Conclude
  <2>4. /\ \A d \in Verifier : d # c => verify'[d] = verify[d]
        /\ verify'[c].token = t /\ verify'[c].pc = p /\ verify'[c].at = now
    BY <1>1, <2>1, <2>3 DEF VerifyState
  <2> QED BY <2>1, <2>2, <2>4, Zenon DEF Judged
<1>4. ASSUME NEW p \in {"fetch", "rejected"}, Move(c, p)
      PROVE  /\ \A d \in Verifier : d # c => verify'[d] = verify[d]
             /\ verify'[c].token = verify[c].token /\ Judged(verify'[c])
  BY <1>2, <1>4, Zenon DEF Judged
<1>5. CASE Relook(c)
  <2>1. CASE verify' = [verify EXCEPT ![c] = [@ EXCEPT !.pc = "unknown", !.whole = cache.whole]]
    <3>1. /\ \A d \in Verifier : d # c => verify'[d] = verify[d]
          /\ verify'[c].token = verify[c].token /\ verify'[c].pc = "unknown"
      BY <1>1, <2>1 DEF VerifyState
    <3> QED BY <3>1, Zenon DEF Judged
  <2> QED BY <1>3, <1>5, <2>1, Zenon DEF Relook
<1>6. CASE FetchKeys(c)
  <2>1. ASSUME NEW ks, NEW whole, Receives(c, ks, whole)
        PROVE  /\ \A d \in Verifier : d # c => verify'[d] = verify[d]
               /\ verify'[c].token = verify[c].token /\ verify'[c].pc = "store"
    BY <1>1, <2>1 DEF Receives, VerifyState
  <2> QED BY <1>4, <1>6, <2>1, Zenon DEF FetchKeys, Judged
<1>7. CASE StoreKeys(c)
  <2>1. /\ \A d \in Verifier : d # c => verify'[d] = verify[d]
        /\ verify'[c].token = verify[c].token /\ verify'[c].pc = "relook"
    BY <1>1, <1>7 DEF StoreKeys, VerifyState
  <2> QED BY <2>1, Zenon DEF Judged
<1>8. CASE Lookup(c)
  BY <1>3, <1>4, <1>8, Zenon DEF Lookup
<1> QED BY <1>5, <1>6, <1>7, <1>8, Zenon DEF VerifyStep

(* The verification of a token changes nothing else that is known of its   *)
(* check.                                                                  *)
LEMMA VerifyStepKeeps ==
    ASSUME PipelineInv, NEW c \in Caller, VerifyStep(c), UNCHANGED <<gatesVars, check, script>>
    PROVE  ChecksInv'
<1>1. PICK v : v = verify'[c]
  BY Zenon
<1>2. /\ \A d \in Caller : d # c => verify'[d] = verify[d]
      /\ v.token = verify[c].token /\ Judged(v)
  BY <1>1, VerifyMoves, ExtAuthzAssumption DEF PipelineInv, JwksInv, JwksTypes
<1>3. CheckInv(check[c], caller[c], verify[c]) /\ check = [d \in Caller |-> check[d]]
  BY DEF PipelineInv, ChecksInv
<1>4. CheckInv(check[c], caller[c], v)
  BY <1>2, <1>3, Zenon DEF CheckInv
<1>5. Configured /\ caller' = caller /\ check' = check
  BY DEF Configured, gatesVars
<1> QED BY <1>1, <1>2, <1>3, <1>4, <1>5, OneCheck, Zenon DEF PipelineInv

(* A step that touches neither checks, gates nor verifications.            *)
LEMMA QuietKeeps ==
    ASSUME ChecksInv, Configured, UNCHANGED <<check, caller, verify>>
    PROVE  ChecksInv'
<1>1. ASSUME NEW d \in Caller PROVE CheckInv(check[d], caller[d], verify[d])'
  <2>1. PICK y, l, w : y = check[d] /\ l = caller[d] /\ w = verify[d]
    BY Zenon
  <2>2. CheckInv(y, l, w)
    BY <2>1, Zenon DEF ChecksInv
  <2>3. CheckInv(y, l, w)'
    BY <2>2, Steady, Zenon
  <2> QED BY <2>1, <2>3, Zenon
<1> QED BY <1>1, Zenon DEF ChecksInv

(* Records of checks in flight.                                            *)
InFlight(pc, q, run, d, names, action, judged) ==
    [pc |-> pc, req |-> q, run |-> run, decision |-> d, names |-> names, action |-> action,
     judged |-> judged]

(* The fields of a check under way.                                        *)
LEMMA FlightFields ==
    ASSUME NEW pc, NEW q, NEW run, NEW d, NEW names, NEW action, NEW judged, NEW x,
           x = InFlight(pc, q, run, d, names, action, judged)
    PROVE  /\ x.pc = pc /\ x.req = q /\ x.run = run /\ x.decision = d /\ x.names = names
           /\ x.action = action /\ x.judged = judged
           /\ x = [pc |-> x.pc, req |-> x.req, run |-> x.run, decision |-> x.decision,
                   names |-> x.names, action |-> x.action, judged |-> x.judged]
  BY DEF InFlight

(* What the code assigns to the fields of the check c.                     *)
Admits(c, r, t) == check' = [check EXCEPT ![c].pc = "admit", ![c].run = r, ![c].judged = t]

Decides(c, d) == check' = [check EXCEPT ![c].decision = d]

Becomes(c, x) == check' = [check EXCEPT ![c] = x]

(* What the ways of updating a check under way leave, all fields spelled   *)
(* out.                                                                    *)
LEMMA Rewritten ==
    ASSUME ChecksInv, NEW c \in Caller, check[c].pc \in Flight, NEW y, y = check[c]
    PROVE  /\ y = InFlight(y.pc, y.req, y.run, y.decision, y.names, y.action, y.judged)
           /\ \A p : Goes(c, p) =>
                 Becomes(c, InFlight(p, y.req, y.run, y.decision, y.names, y.action, y.judged))
           /\ \A d : Settle(c, d) =>
                 Becomes(c, InFlight("answer", y.req, y.run, d, y.names, y.action, y.judged))
           /\ \A r, t : Admits(c, r, t) =>
                 Becomes(c, InFlight("admit", y.req, r, y.decision, y.names, y.action, t))
           /\ \A d : Decides(c, d) =>
                 Becomes(c, InFlight(y.pc, y.req, y.run, d, y.names, y.action, y.judged))
<1>1. check = [d \in Caller |-> check[d]] /\ CheckInv(y, caller[c], verify[c])
  BY Zenon DEF ChecksInv
<1>2. y = InFlight(y.pc, y.req, y.run, y.decision, y.names, y.action, y.judged)
  BY <1>1, Zenon DEF CheckInv, InFlight
<1>3. PICK pc, q, run, d, names, action, judged :
          /\ pc = y.pc /\ q = y.req /\ run = y.run /\ d = y.decision /\ names = y.names
          /\ action = y.action /\ judged = y.judged
  BY Zenon
<1>4. y = [pc |-> pc, req |-> q, run |-> run, decision |-> d, names |-> names, action |-> action, judged |-> judged]
  BY <1>2, <1>3, Zenon DEF InFlight
<1>5. ASSUME NEW p PROVE [check EXCEPT ![c].pc = p] = [check EXCEPT ![c] = InFlight(p, q, run, d, names, action, judged)]
  <2>1. [y EXCEPT !.pc = p] = InFlight(p, q, run, d, names, action, judged)
    BY <1>4 DEF InFlight
  <2> QED BY <2>1, Zenon
<1>6. ASSUME NEW e PROVE [check EXCEPT ![c].decision = e] = [check EXCEPT ![c] = InFlight(pc, q, run, e, names, action, judged)]
  <2>1. [y EXCEPT !.decision = e] = InFlight(pc, q, run, e, names, action, judged)
    BY <1>4 DEF InFlight
  <2> QED BY <2>1, Zenon
<1>7. ASSUME NEW r, NEW t, Admits(c, r, t)
      PROVE  check' = [check EXCEPT ![c] = InFlight("admit", q, r, d, names, action, t)]
  <2>1. PICK g : g = [check EXCEPT ![c] = InFlight("admit", q, run, d, names, action, judged)]
    BY Zenon
  <2>2. check' = [[g EXCEPT ![c].run = r] EXCEPT ![c].judged = t]
    BY <1>5, <1>7, <2>1, Zenon DEF Admits
  <2>3. g[c] = [pc |-> "admit", req |-> q, run |-> run, decision |-> d, names |-> names, action |-> action, judged |-> judged]
    BY <1>1, <2>1 DEF InFlight
  <2>4. [g[c] EXCEPT !.run = r] = InFlight("admit", q, r, d, names, action, judged)
    BY <2>3 DEF InFlight
  <2>5. PICK h : h = [g EXCEPT ![c] = InFlight("admit", q, r, d, names, action, judged)]
    BY Zenon
  <2>6. check' = [h EXCEPT ![c].judged = t]
    BY <2>2, <2>4, <2>5, Zenon
  <2>7. h[c] = [pc |-> "admit", req |-> q, run |-> r, decision |-> d, names |-> names, action |-> action,
                judged |-> judged]
    BY <1>1, <2>1, <2>5 DEF InFlight
  <2>8. [h[c] EXCEPT !.judged = t] = InFlight("admit", q, r, d, names, action, t)
    BY <2>7 DEF InFlight
  <2>9. check' = [h EXCEPT ![c] = InFlight("admit", q, r, d, names, action, t)]
    BY <2>6, <2>8, Zenon
  <2> QED BY <1>1, <2>1, <2>5, <2>9
<1>8. ASSUME NEW e, Settle(c, e)
      PROVE  check' = [check EXCEPT ![c] = InFlight("answer", q, run, e, names, action, judged)]
  <2>1. PICK g : g = [check EXCEPT ![c] = InFlight("answer", q, run, d, names, action, judged)]
    BY Zenon
  <2>2. check' = [g EXCEPT ![c].decision = e]
    BY <1>5, <1>8, <2>1, Zenon DEF Settle
  <2>3. g[c] = [pc |-> "answer", req |-> q, run |-> run, decision |-> d, names |-> names, action |-> action, judged |-> judged]
    BY <1>1, <2>1 DEF InFlight
  <2>4. [g[c] EXCEPT !.decision = e] = InFlight("answer", q, run, e, names, action, judged)
    BY <2>3 DEF InFlight
  <2>5. check' = [g EXCEPT ![c] = InFlight("answer", q, run, e, names, action, judged)]
    BY <2>2, <2>4, Zenon
  <2> QED BY <1>1, <2>1, <2>5
<1>9. \A p : Goes(c, p) =>
          Becomes(c, InFlight(p, y.req, y.run, y.decision, y.names, y.action, y.judged))
  BY <1>3, <1>5, Zenon DEF Goes, Becomes
<1>10. \A e : Settle(c, e) =>
          Becomes(c, InFlight("answer", y.req, y.run, e, y.names, y.action, y.judged))
  BY <1>3, <1>8, Zenon DEF Becomes
<1>11. ASSUME NEW r, NEW t, Admits(c, r, t)
       PROVE  Becomes(c, InFlight("admit", y.req, r, y.decision, y.names, y.action, t))
  <2>1. check' = [check EXCEPT ![c] = InFlight("admit", q, r, d, names, action, t)]
    BY <1>7, <1>11, Zenon
  <2> QED BY <1>3, <2>1, Zenon DEF Becomes
<1>12. \A e : Decides(c, e) =>
          Becomes(c, InFlight(y.pc, y.req, y.run, e, y.names, y.action, y.judged))
  BY <1>3, <1>6, Zenon DEF Decides, Becomes
<1> QED BY <1>2, <1>9, <1>10, <1>11, <1>12, Zenon

(* A check is settled by a decision.                                       *)
LEMMA SettleIs ==
    ASSUME ChecksInv, NEW c \in Caller, check[c].pc \in Flight, NEW y, y = check[c], NEW d, Settle(c, d)
    PROVE  Becomes(c, InFlight("answer", y.req, y.run, d, y.names, y.action, y.judged))
  BY Rewritten, Zenon

(* A check goes on to its next stage.                                      *)
LEMMA GoesIs ==
    ASSUME ChecksInv, NEW c \in Caller, check[c].pc \in Flight, NEW y, y = check[c], NEW p, Goes(c, p)
    PROVE  Becomes(c, InFlight(p, y.req, y.run, y.decision, y.names, y.action, y.judged))
  BY Rewritten, Zenon

(* A check goes on with the run its token names.                           *)
LEMMA AdmitsIs ==
    ASSUME ChecksInv, NEW c \in Caller, check[c].pc \in Flight, NEW y, y = check[c], NEW r, NEW t,
           Admits(c, r, t)
    PROVE  Becomes(c, InFlight("admit", y.req, r, y.decision, y.names, y.action, t))
  BY Rewritten, Zenon

(* A check has the decision of the rules.                                  *)
LEMMA DecidesIs ==
    ASSUME ChecksInv, NEW c \in Caller, check[c].pc \in Flight, NEW y, y = check[c], NEW d, Decides(c, d)
    PROVE  Becomes(c, InFlight(y.pc, y.req, y.run, d, y.names, y.action, y.judged))
  BY Rewritten, Zenon

(* One handler's step: its check, its caller's state, its verification.    *)
Moves(c, x, k, v) ==
    /\ CheckInv(x, k, v) /\ Becomes(c, x)
    /\ \A d \in Caller : caller'[d] = IF d = c THEN k ELSE caller[d]
    /\ \A d \in Caller : verify'[d] = IF d = c THEN v ELSE verify[d]

(* OneCheck, for the updates named above.                                  *)
LEMMA OneFlight ==
    ASSUME ChecksInv, Configured, NEW c \in Caller, NEW x, NEW k, NEW v, Moves(c, x, k, v)
    PROVE  ChecksInv'
<1>1. check = [d \in Caller |-> check[d]]
  BY Zenon DEF ChecksInv
<1>2. check' = [d \in Caller |-> check'[d]] /\ \A d \in Caller : check'[d] = IF d = c THEN x ELSE check[d]
  BY <1>1 DEF Moves, Becomes
<1>3. ASSUME NEW d \in Caller PROVE CheckInv(check[d], caller[d], verify[d])'
  <2>1. PICK y, l, w : y = check'[d] /\ l = caller'[d] /\ w = verify'[d]
    BY Zenon
  <2>2. CheckInv(y, l, w)
    <3>1. CASE d = c
      BY <1>2, <2>1, <3>1, Zenon DEF Moves
    <3>2. CASE d # c
      <4>1. y = check[d] /\ l = caller[d] /\ w = verify[d]
        BY <1>2, <2>1, <3>2, Zenon DEF Moves
      <4> QED BY <4>1, Zenon DEF ChecksInv
    <3> QED BY <3>1, <3>2
  <2>3. CheckInv(y, l, w)'
    BY <2>2, Steady, Zenon
  <2> QED BY <2>1, <2>3, Zenon
<1> QED BY <1>2, <1>3, Zenon DEF ChecksInv

(* What does not depend on where the check is.                             *)
LEMMA SameRequest ==
    ASSUME NEW x, NEW y, x.req = y.req, x.run = y.run, x.names = y.names, x.action = y.action,
           x.judged = y.judged
    PROVE  /\ Screened(x) <=> Screened(y)
           /\ RunOK(x) <=> RunOK(y)
           /\ Permitted(x) <=> Permitted(y)
  BY Zenon DEF Screened, RunOK, Permitted, PolicyOf

(* A refusal ends the pipeline.                                            *)
LEMMA Refused ==
    ASSUME NEW y, NEW k, NEW v, CheckInv(y, k, v), y.pc \in Flight, NEW d, ~d.allowed,
           NEW x, x = InFlight("answer", y.req, y.run, d, y.names, y.action, y.judged),
           NEW l, l.pc = "idle", NEW w, Judged(w)
    PROVE  CheckInv(x, l, w)
<1>1. /\ x.pc = "answer" /\ x.req = y.req /\ x.run = y.run /\ x.decision = d /\ x.names = y.names
      /\ x = [pc |-> x.pc, req |-> x.req, run |-> x.run, decision |-> x.decision,
              names |-> x.names, action |-> x.action, judged |-> x.judged]
  BY DEF InFlight
<1>2. y.pc # "idle"
  BY DEF Flight
<1>3. y.req \in Requests /\ y.run \in Session \union {NoSession} /\ (y.req.dest = <<>> => y.names = {})
  BY <1>2, Zenon DEF CheckInv
<1> QED BY <1>1, <1>3, Zenon DEF CheckInv, Flight, Passing

(* A verified token is bound to the caller, or the check refused.          *)
LEMMA VerifyRunKeeps ==
    ASSUME PipelineInv, NEW c \in Caller, VerifyRun(c)
    PROVE  ChecksInv'
<1>1. PICK y, k : y = check[c] /\ k = caller[c]
  BY Zenon
<1>2. y.pc = "verify" /\ CheckInv(y, k, verify[c]) /\ Configured /\ caller' = caller /\ ChecksInv
  BY <1>1, Zenon DEF VerifyRun, PipelineInv, ChecksInv, Configured, gatesVars
<1>3. y.pc \in Flight /\ k.pc = "idle"
  BY <1>2, Zenon DEF CheckInv, Flight
<1>4. Off.pc = "off" /\ \A d \in Caller : verify'[d] = IF d = c THEN Off ELSE verify[d]
  BY ExtAuthzAssumption DEF VerifyRun, EndVerify, Off, PipelineInv, JwksInv, JwksTypes, JwksTypeOK
<1>5. ASSUME NEW class \in {"run_token_invalid", "run_token_unbound"}, Settle(c, Decision(class, 0))
      PROVE  ChecksInv'
  <2>1. PICK x : x = InFlight("answer", y.req, y.run, Decision(class, 0), y.names, y.action, y.judged)
    BY Zenon
  <2>a. Becomes(c, InFlight("answer", y.req, y.run, Decision(class, 0), y.names, y.action, y.judged))
    BY <1>1, <1>2, <1>3, <1>5, SettleIs, Zenon
  <2>2. Becomes(c, x)
    BY <2>1, <2>a, Zenon
  <2>3. ~Decision(class, 0).allowed
    BY <1>5 DEF Decision
  <2>4. CheckInv(x, k, Off)
    BY <1>2, <1>3, <1>4, <2>1, <2>3, Refused, Zenon DEF Judged
  <2>5. Moves(c, x, k, Off)
    BY <1>1, <1>2, <1>4, <2>2, <2>4, Zenon DEF Moves
  <2> QED BY <1>2, <2>5, OneFlight, Zenon
<1>6. ASSUME verify[c].pc = "accepted", Complete(y.req.token), Bound(y.req),
             Admits(c, y.req.token.txn, verify[c].at)
      PROVE  ChecksInv'
  <2>1. PICK x : x = InFlight("admit", y.req, y.req.token.txn, y.decision, y.names, y.action, verify[c].at)
    BY Zenon
  <2>a. Becomes(c, InFlight("admit", y.req, y.req.token.txn, y.decision, y.names, y.action, verify[c].at))
    BY <1>1, <1>2, <1>3, <1>6, AdmitsIs, Zenon
  <2>2. Becomes(c, x)
    BY <2>1, <2>a, Zenon
  <2>3. /\ x.pc = "admit" /\ x.req = y.req /\ x.run = y.req.token.txn /\ x.decision = y.decision
        /\ x.names = y.names /\ x.action = y.action /\ x.judged = verify[c].at
        /\ x = [pc |-> x.pc, req |-> x.req, run |-> x.run, decision |-> x.decision,
                names |-> x.names, action |-> x.action, judged |-> x.judged]
    BY <2>1, Zenon DEF InFlight
  <2>4. /\ HasRunTokens /\ y.req.token # NoToken /\ verify[c].token = y.req.token /\ Screened(y)
        /\ y.req \in Requests /\ (y.req.dest = <<>> => y.names = {}) /\ verify[c].token.signed
        /\ InTime(verify[c].token, verify[c].at)
    BY <1>2, <1>6, Zenon DEF CheckInv, Judged
  <2>5. x.run \in Session \union {NoSession} /\ x.run # NoSession
    BY <1>6, <2>3, <2>4, ExtAuthzAssumption, Zenon DEF RequestOK, Complete
  <2>6. Screened(x)
    BY <2>3, <2>4, Zenon DEF Screened
  <2>7. RunOK(x)
    BY <1>6, <2>3, <2>4, <2>5, Zenon DEF RunOK, Complete
  <2>8. CheckInv(x, k, Off)
    BY <1>3, <1>4, <2>3, <2>4, <2>5, <2>6, <2>7, Zenon DEF CheckInv, Flight, Passing, Judged
  <2>9. Moves(c, x, k, Off)
    BY <1>1, <1>2, <1>4, <2>2, <2>8, Zenon DEF Moves
  <2> QED BY <1>2, <2>9, OneFlight, Zenon
<1> QED BY <1>1, <1>5, <1>6, Zenon DEF VerifyRun, Admits

(* What a step leaves of the other handlers' state.                        *)
Calls(c, k) == \A d \in Caller : caller'[d] = IF d = c THEN k ELSE caller[d]

Verifies(c, v) == \A d \in Caller : verify'[d] = IF d = c THEN v ELSE verify[d]

(* A variable that does not change moves no goroutine.                     *)
LEMMA Unmoved ==
    ASSUME NEW c \in Caller
    PROVE  /\ ChecksInv /\ check' = check => Becomes(c, check[c])
           /\ caller' = caller => Calls(c, caller[c])
           /\ verify' = verify => Verifies(c, verify[c])
<1>1. ChecksInv /\ check' = check => Becomes(c, check[c])
  BY DEF ChecksInv, Becomes
<1>2. (caller' = caller => Calls(c, caller[c])) /\ (verify' = verify => Verifies(c, verify[c]))
  BY Zenon DEF Calls, Verifies
<1> QED BY <1>1, <1>2, Zenon

(* The ways a goroutine moves at the gates.                                *)
LEMMA CallerMoves ==
    ASSUME CoreTypeOK, NEW c \in Caller
    PROVE  /\ \A k : caller' = [caller EXCEPT ![c] = k] => Calls(c, k)
           /\ \A w : Refuse(c, w) => Calls(c, [pc |-> "refused", why |-> w])
           /\ \A p : Goto(c, p) => Calls(c, [caller[c] EXCEPT !.pc = p])
  BY DEF CoreTypeOK, Calls, Refuse, Goto

(* What the invariant says of one check.                                   *)
LEMMA Known ==
    ASSUME PipelineInv, NEW c \in Caller
    PROVE  CheckInv(check[c], caller[c], verify[c]) /\ ChecksInv /\ CoreTypeOK /\ caller[c] \in CallerState
  BY Zenon DEF PipelineInv, ChecksInv, CoreTypeOK

(* At the gates a check keeps what was found of it.                        *)
LEMMA AtGates ==
    ASSUME NEW y, NEW k, NEW v, CheckInv(y, k, v), y.pc = "gates", NEW l,
           l.pc \in Passing => y.decision.allowed /\ Permitted(y),
           l.pc \notin {"idle", "refused"} => l.call.session = y.run,
           l.pc # "trip"
    PROVE  CheckInv(y, l, v)
<1>1. y.pc \in Flight /\ y.pc # "idle" /\ y.pc # "verify" /\ y.pc # "answer" /\ y.pc # "answered"
  BY DEF Flight
<1> QED BY <1>1, Zenon DEF CheckInv

(* The registry and the breaker.                                           *)
LEMMA AdmitCallKeeps ==
    ASSUME PipelineInv, NEW c \in Caller, AdmitCall(c)
    PROVE  ChecksInv'
<1>1. PICK y, v, k : y = check[c] /\ v = verify[c] /\ k = CallOf(c)
  BY Zenon
<1>2. /\ y.pc = "admit" /\ CheckInv(y, caller[c], v) /\ Configured /\ verify' = verify /\ ChecksInv
      /\ CoreTypeOK /\ Goes(c, "gates") /\ Admit(c, k) /\ k.session = y.run
  <2>1. Configured /\ verify' = verify
    BY Zenon DEF AdmitCall, Configured, jwksVars
  <2>2. k.session = y.run
    BY <1>1, Zenon DEF CallOf
  <2> QED BY <1>1, <2>1, <2>2, Known, Zenon DEF AdmitCall
<1>3. y.pc \in Flight
  BY <1>2, Zenon DEF Flight
<1>4. PICK x : x = InFlight("gates", y.req, y.run, y.decision, y.names, y.action, y.judged)
  BY Zenon
<1>5. Becomes(c, x)
  BY <1>1, <1>2, <1>3, <1>4, GoesIs, Zenon
<1>6. /\ x.pc = "gates" /\ x.req = y.req /\ x.run = y.run /\ x.names = y.names /\ x.action = y.action
      /\ x.judged = y.judged
      /\ x = [pc |-> x.pc, req |-> x.req, run |-> x.run, decision |-> x.decision,
              names |-> x.names, action |-> x.action, judged |-> x.judged]
  BY <1>4, Zenon DEF InFlight
<1>7. PICK l : /\ Calls(c, l)
               /\ \/ l.pc = "refused"
                  \/ l.pc = "policy" /\ l.call = k
                  \/ l.pc = "trip" /\ l.call = k /\ HasBreaker /\ ~Allow(k.session)
  <2>1. CASE Refuse(c, "tool_not_registered")
    <3>1. Calls(c, [pc |-> "refused", why |-> "tool_not_registered"])
      BY <1>2, <2>1, CallerMoves, Zenon
    <3> QED BY <3>1
  <2>2. CASE caller' = [caller EXCEPT ![c] = [pc |-> IF HasBreaker /\ ~Allow(k.session) THEN "trip" ELSE "policy",
                                             call |-> k]]
    <3>1. PICK l : l = [pc |-> IF HasBreaker /\ ~Allow(k.session) THEN "trip" ELSE "policy", call |-> k]
      BY Zenon
    <3>2. Calls(c, l)
      BY <1>2, <2>2, <3>1, CallerMoves, Zenon
    <3>3. l.call = k /\ (l.pc = "policy" \/ (l.pc = "trip" /\ HasBreaker /\ ~Allow(k.session)))
      BY <3>1
    <3> QED BY <3>2, <3>3, Zenon
  <2> QED BY <1>2, <2>1, <2>2, Zenon DEF Admit
<1>8. l.pc = "trip" => y.run # NoSession
  BY <1>2, <1>7, Zenon DEF Allow
<1>9. /\ y.req \in Requests /\ y.run \in Session \union {NoSession} /\ (y.req.dest = <<>> => y.names = {})
      /\ Screened(y) /\ RunOK(y) /\ Judged(v)
  BY <1>2, Zenon DEF CheckInv
<1>10. Screened(x) /\ RunOK(x)
  BY <1>6, <1>9, SameRequest, Zenon
<1>11. CheckInv(x, l, v)
  BY <1>2, <1>6, <1>7, <1>8, <1>9, <1>10, Zenon DEF CheckInv, Flight, Passing
<1>12. Moves(c, x, l, v)
  BY <1>1, <1>2, <1>5, <1>7, <1>11, Unmoved, Zenon DEF Moves, Calls, Verifies
<1> QED BY <1>2, <1>12, OneFlight, Zenon

(* A trip is reported and the call refused.                                *)
LEMMA TripRunKeeps ==
    ASSUME PipelineInv, NEW c \in Caller, TripRun(c)
    PROVE  ChecksInv'
<1>1. PICK y, v, l : y = check[c] /\ v = verify[c] /\ l = [pc |-> "refused", why |-> "circuit_open"]
  BY Zenon
<1>2. /\ CheckInv(y, caller[c], v) /\ Configured /\ verify' = verify /\ check' = check /\ ChecksInv
      /\ CoreTypeOK /\ caller[c].pc = "trip" /\ Refuse(c, "circuit_open")
  BY <1>1, Known, Zenon DEF TripRun, Trip, Configured, jwksVars
<1>3. Calls(c, l)
  BY <1>1, <1>2, CallerMoves, Zenon
<1>4. y.pc = "gates"
  BY <1>2, Zenon DEF CheckInv
<1>5. l.pc = "refused"
  BY <1>1, Zenon
<1>6. CheckInv(y, l, v)
  <2>1. l.pc \notin Passing /\ l.pc # "trip"
    BY <1>5 DEF Passing
  <2> QED BY <1>2, <1>4, <1>5, <2>1, AtGates, Zenon
<1>7. Moves(c, y, l, v)
  BY <1>1, <1>2, <1>3, <1>6, Unmoved, Zenon DEF Moves, Calls, Verifies
<1> QED BY <1>2, <1>7, OneFlight, Zenon

(* Gates.Charge moves a call on or refuses it.                             *)
LEMMA Charges ==
    ASSUME CoreTypeOK, NEW c \in Caller,
           ChargeRates(c) \/ ChargeBudget(c) \/ RecordCall(c) \/ ChargeVelocity(c)
    PROVE  /\ caller[c].pc \in {"rates", "budget", "record", "velocity"}
           /\ \/ \E p \in {"budget", "record", "velocity", "forward"} : Goto(c, p)
              \/ \E w \in Why : Refuse(c, w)
<1>1. ChargeRates(c) =>
          /\ caller[c].pc = "rates"
          /\ Goto(c, "budget") \/ Refuse(c, "rate_unattributable") \/ Refuse(c, "rate_limited")
  BY Zenon DEF ChargeRates
<1>2. ChargeBudget(c) =>
          /\ caller[c].pc = "budget"
          /\ Goto(c, "record") \/ Refuse(c, "budget_unattributable") \/ Refuse(c, "budget_exhausted")
  BY Zenon DEF ChargeBudget
<1>3. RecordCall(c) => caller[c].pc = "record" /\ Goto(c, "velocity")
  BY Zenon DEF RecordCall
<1>4. ChargeVelocity(c) => caller[c].pc = "velocity" /\ (Goto(c, "forward") \/ Refuse(c, "velocity_limit"))
  BY Zenon DEF ChargeVelocity
<1> QED BY <1>1, <1>2, <1>3, <1>4, Zenon DEF Why

(* The limits that are charged one after the other.                        *)
LEMMA ChargeKeeps ==
    ASSUME PipelineInv, NEW c \in Caller, Charge(c)
    PROVE  ChecksInv'
<1>1. PICK y, v, k : y = check[c] /\ v = verify[c] /\ k = caller[c]
  BY Zenon
<1>2. /\ CheckInv(y, k, v) /\ Configured /\ verify' = verify /\ check' = check /\ ChecksInv
      /\ CoreTypeOK /\ k \in CallerState
      /\ ChargeRates(c) \/ ChargeBudget(c) \/ RecordCall(c) \/ ChargeVelocity(c)
  BY <1>1, Known, Zenon DEF Charge, Configured, jwksVars
<1>3. k.pc \in {"rates", "budget", "record", "velocity"}
  BY <1>1, <1>2, Charges, Zenon
<1>4. y.pc = "gates" /\ y.decision.allowed /\ Permitted(y) /\ k.call.session = y.run
  BY <1>2, <1>3, Zenon DEF CheckInv, Passing
<1>5. PICK l : /\ Calls(c, l)
               /\ l.pc = "refused" \/ (l.pc \in {"budget", "record", "velocity", "forward"} /\ l.call = k.call)
  <2>1. ASSUME NEW p \in {"budget", "record", "velocity", "forward"}, Goto(c, p)
        PROVE  \E l : /\ Calls(c, l)
                      /\ l.pc = "refused" \/ (l.pc \in {"budget", "record", "velocity", "forward"} /\ l.call = k.call)
    <3>1. PICK l : l = [k EXCEPT !.pc = p]
      BY Zenon
    <3>2. Calls(c, l)
      BY <1>1, <1>2, <2>1, <3>1, CallerMoves, Zenon
    <3>3. l.pc = p /\ l.call = k.call
      BY <1>2, <1>3, <3>1 DEF CallerState, Idle
    <3> QED BY <2>1, <3>2, <3>3, Zenon
  <2>2. ASSUME NEW w \in Why, Refuse(c, w)
        PROVE  \E l : Calls(c, l) /\ l.pc = "refused"
    <3>1. PICK l : l = [pc |-> "refused", why |-> w]
      BY Zenon
    <3>2. Calls(c, l)
      BY <1>2, <2>2, <3>1, CallerMoves, Zenon
    <3>3. l.pc = "refused"
      BY <3>1
    <3> QED BY <3>2, <3>3, Zenon
  <2> QED BY <1>2, <2>1, <2>2, Charges, Zenon
<1>6. CheckInv(y, l, v)
  <2>1. /\ l.pc \in Passing => y.decision.allowed /\ Permitted(y)
        /\ l.pc \notin {"idle", "refused"} => l.call.session = y.run
        /\ l.pc # "trip"
    BY <1>4, <1>5, Zenon
  <2> QED BY <1>2, <1>4, <2>1, AtGates, Zenon
<1>7. Moves(c, y, l, v)
  BY <1>1, <1>2, <1>5, <1>6, Unmoved, Zenon DEF Moves, Calls, Verifies
<1> QED BY <1>2, <1>7, OneFlight, Zenon

(* The rules decide on the operation as it was translated.                 *)
LEMMA EvaluatePolicyKeeps ==
    ASSUME PipelineInv, NEW c \in Caller, EvaluatePolicy(c)
    PROVE  ChecksInv'
<1>1. PICK y, v, k, d : y = check[c] /\ v = verify[c] /\ k = caller[c] /\ d = Evaluate(Rules, PolicyRequest(c))
  BY Zenon
<1>2. /\ CheckInv(y, k, v) /\ Configured /\ verify' = verify /\ ChecksInv /\ CoreTypeOK /\ k.pc = "policy"
      /\ IF d.allowed
         THEN /\ caller' = [caller EXCEPT ![c] = [pc |-> "rates", call |-> k.call, rule |-> Rules[d.index]]]
              /\ Decides(c, d)
         ELSE caller' = [caller EXCEPT ![c] = Idle] /\ Settle(c, d)
  <2>1. Configured /\ verify' = verify /\ k.pc = "policy"
    BY <1>1, Zenon DEF EvaluatePolicy, Configured, jwksVars
  <2>2. IF d.allowed
        THEN /\ caller' = [caller EXCEPT ![c] = [pc |-> "rates", call |-> k.call, rule |-> Rules[d.index]]]
             /\ Decides(c, d)
        ELSE caller' = [caller EXCEPT ![c] = Idle] /\ Settle(c, d)
    BY <1>1, Zenon DEF EvaluatePolicy, Decides
  <2> QED BY <1>1, <2>1, <2>2, Known, Zenon
<1>3. y.pc = "gates" /\ k.call.session = y.run
  BY <1>2, Zenon DEF CheckInv
<1>4. y.pc \in Flight
  BY <1>3 DEF Flight
<1>5. d = Evaluate(Rules, PolicyOf(y))
  BY <1>1, Zenon DEF PolicyRequest, PolicyOf
<1>6. CASE d.allowed
  <2>1. PICK x, l : /\ x = InFlight(y.pc, y.req, y.run, d, y.names, y.action, y.judged)
                    /\ l = [pc |-> "rates", call |-> k.call, rule |-> Rules[d.index]]
    BY Zenon
  <2>2. Becomes(c, x)
    BY <1>1, <1>2, <1>4, <1>6, <2>1, DecidesIs, Zenon
  <2>3. Calls(c, l)
    BY <1>2, <1>6, <2>1, CallerMoves, Zenon
  <2>4. /\ x.pc = "gates" /\ x.req = y.req /\ x.run = y.run /\ x.decision = d /\ x.names = y.names
        /\ x.action = y.action /\ x.judged = y.judged
        /\ x = [pc |-> x.pc, req |-> x.req, run |-> x.run, decision |-> x.decision,
                names |-> x.names, action |-> x.action, judged |-> x.judged]
        /\ l.pc = "rates" /\ l.call = k.call
    BY <1>3, <2>1, Zenon DEF InFlight
  <2>5. Permitted(x)
    BY <1>5, <1>6, <2>4, Zenon DEF Permitted, PolicyOf
  <2>6. /\ y.req \in Requests /\ y.run \in Session \union {NoSession} /\ (y.req.dest = <<>> => y.names = {})
        /\ Screened(y) /\ RunOK(y) /\ Judged(v)
    BY <1>2, <1>3, Zenon DEF CheckInv
  <2>7. Screened(x) /\ RunOK(x)
    BY <2>4, <2>6, SameRequest, Zenon
  <2>8. CheckInv(x, l, v)
    BY <1>3, <1>6, <2>4, <2>5, <2>6, <2>7, Zenon DEF CheckInv, Flight, Passing
  <2>9. Moves(c, x, l, v)
    BY <1>1, <1>2, <2>2, <2>3, <2>8, Unmoved, Zenon DEF Moves, Calls, Verifies
  <2> QED BY <1>2, <2>9, OneFlight, Zenon
<1>7. CASE ~d.allowed
  <2>1. PICK x : x = InFlight("answer", y.req, y.run, d, y.names, y.action, y.judged)
    BY Zenon
  <2>2. Becomes(c, x)
    BY <1>1, <1>2, <1>4, <1>7, <2>1, SettleIs, Zenon
  <2>3. Calls(c, Idle) /\ Idle.pc = "idle"
    BY <1>2, <1>7, CallerMoves DEF Idle
  <2>4. Judged(v)
    BY <1>2, Zenon DEF CheckInv
  <2>5. CheckInv(x, Idle, v)
    BY <1>2, <1>4, <1>7, <2>1, <2>3, <2>4, Refused, Zenon
  <2>6. Moves(c, x, Idle, v)
    BY <1>1, <1>2, <2>2, <2>3, <2>5, Unmoved, Zenon DEF Moves, Calls, Verifies
  <2> QED BY <1>2, <2>6, OneFlight, Zenon
<1> QED BY <1>6, <1>7

(* A check that was answered is over.                                      *)
LEMMA ReturnKeeps ==
    ASSUME PipelineInv, NEW c \in Caller, Return(c)
    PROVE  ChecksInv'
<1>1. PICK y, v, k : y = check[c] /\ v = verify[c] /\ k = caller[c]
  BY Zenon
<1>2. /\ CheckInv(y, k, v) /\ Configured /\ verify' = verify /\ caller' = caller /\ ChecksInv
      /\ CoreTypeOK /\ y.pc = "answered" /\ Becomes(c, Resting)
  BY <1>1, Known, Zenon DEF Return, Configured, jwksVars, gatesVars, Becomes
<1>3. k.pc = "idle" /\ Judged(v)
  BY <1>2, Zenon DEF CheckInv
<1>4. CheckInv(Resting, k, v)
  BY <1>3, Zenon DEF CheckInv, Resting, Flight, Passing
<1>5. Moves(c, Resting, k, v)
  BY <1>1, <1>2, <1>4, Unmoved, Zenon DEF Moves, Calls, Verifies
<1> QED BY <1>2, <1>5, OneFlight, Zenon

(* The answer is made of the decision.                                     *)
LEMMA AnswerKeeps ==
    ASSUME PipelineInv, NEW c \in Caller, Answer(c)
    PROVE  ChecksInv'
<1>1. PICK y, v, k, d : /\ y = check[c] /\ v = verify[c] /\ k = caller[c]
                        /\ d = IF y.pc = "gates" /\ k.pc = "refused" THEN Decision(k.why, y.decision.index)
                               ELSE y.decision
  BY Zenon
<1>2. PICK x : x = [pc |-> "answered", req |-> y.req, run |-> y.run, decision |-> d, names |-> y.names,
                    action |-> y.action, judged |-> y.judged, reply |-> Respond(d), instead |-> Counterfactual(d)]
  BY Zenon
<1>3. /\ CheckInv(y, k, v) /\ Configured /\ verify' = verify /\ ChecksInv /\ CoreTypeOK /\ k \in CallerState
      /\ caller' = [caller EXCEPT ![c] = Idle] /\ Becomes(c, x)
      /\ y.pc = "answer" \/ (y.pc = "gates" /\ k.pc \in {"forward", "refused"})
  <2>1. Configured /\ verify' = verify
    BY Zenon DEF Answer, Configured, jwksVars
  <2>2. Becomes(c, x)
    BY <1>1, <1>2, Zenon DEF Answer, Becomes
  <2>3. caller' = [caller EXCEPT ![c] = Idle] /\ (y.pc = "answer" \/ (y.pc = "gates" /\ k.pc \in {"forward", "refused"}))
    BY <1>1, Zenon DEF Answer
  <2> QED BY <1>1, <2>1, <2>2, <2>3, Known, Zenon
<1>4. Calls(c, Idle) /\ Idle.pc = "idle"
  BY <1>3, CallerMoves DEF Idle
<1>5. d.allowed => y.pc = "gates" /\ k.pc = "forward" /\ d = y.decision
  <2>1. CASE y.pc = "answer"
    BY <1>1, <1>3, <2>1, Zenon DEF CheckInv
  <2>2. CASE y.pc = "gates" /\ k.pc = "forward"
    BY <1>1, <2>2, Zenon
  <2>3. CASE y.pc = "gates" /\ k.pc = "refused"
    <3>1. k.why \in Why /\ d = Decision(k.why, y.decision.index)
      BY <1>1, <1>3, <2>3 DEF CallerState, Idle
    <3>2. ~d.allowed
      BY <3>1 DEF Why, Decision
    <3> QED BY <3>2
  <2> QED BY <1>3, <2>1, <2>2, <2>3, Zenon
<1>6. /\ y.req \in Requests /\ y.run \in Session \union {NoSession} /\ (y.req.dest = <<>> => y.names = {})
      /\ Judged(v)
  BY <1>3, Zenon DEF CheckInv
<1>7. d.allowed => Screened(y) /\ RunOK(y) /\ Permitted(y)
  BY <1>3, <1>5, Zenon DEF CheckInv, Passing
<1>8. /\ x.pc = "answered" /\ x.req = y.req /\ x.run = y.run /\ x.decision = d /\ x.names = y.names
      /\ x.action = y.action /\ x.judged = y.judged /\ x.reply = Respond(d) /\ x.instead = Counterfactual(d)
  BY <1>2, Zenon
<1>9. d.allowed => Screened(x) /\ RunOK(x) /\ Permitted(x)
  BY <1>7, <1>8, SameRequest, Zenon
<1>10. CheckInv(x, Idle, v)
  <2>1. x.pc \notin Flight /\ Idle.pc \notin Passing
    BY <1>4, <1>8, Zenon DEF Flight, Passing
  <2> QED BY <1>4, <1>6, <1>8, <1>9, <2>1, Zenon DEF CheckInv
<1>11. Moves(c, x, Idle, v)
  BY <1>1, <1>3, <1>4, <1>10, Unmoved, Zenon DEF Moves, Calls, Verifies
<1> QED BY <1>3, <1>11, OneFlight, Zenon

(* A set of naturals that is not empty has a least member.                 *)
LEMMA LeastExists ==
    ASSUME NEW S \in SUBSET Nat, S # {}
    PROVE  \E j \in S : \A m \in S : j <= m
<1>1. PICK R : R = OpToRel(<, Nat)
  BY Zenon
<1>2. IsWellFoundedOn(R, Nat)
  BY <1>1, NatLessThanWellFounded, Zenon
<1>3. \A x, y \in Nat : y < x => <<y, x>> \in R
  BY <1>1 DEF OpToRel
<1>4. PICK j \in S : \A m \in S : ~(<<m, j>> \in R)
  BY <1>2, WFMin, Zenon
<1>5. \A m \in S : ~(m < j)
  BY <1>3, <1>4, Zenon
<1> QED BY <1>5

(* CHOOSE finds it.                                                        *)
LEMMA LeastNatural ==
    ASSUME NEW S \in SUBSET Nat, S # {}
    PROVE  (CHOOSE j \in S : \A m \in S : j <= m) \in S
  BY LeastExists, ZenonT(40)

(* A function overwritten at an argument that may lie outside its domain   *)
(* keeps its type.                                                         *)
LEMMA Overwritten ==
    ASSUME NEW S, NEW T, NEW f \in [S -> T], NEW x, NEW e, x \in S => e \in T
    PROVE  [f EXCEPT ![x] = e] \in [S -> T]
<1>1. CASE x \in S
  BY <1>1, SMTT(40)
<1>2. CASE x \notin S
  <2>1. f = [y \in S |-> f[y]] /\ \A y \in S : f[y] \in T
    BY SMTT(40)
  <2>2. [f EXCEPT ![x] = e] = f
    BY <1>2, <2>1, SMTT(40)
  <2> QED BY <2>2, Zenon
<1> QED BY <1>1, <1>2, Zenon

(* The breaker's operations keep the type of its map.                      *)
LEMMA SessionsTyped ==
    ASSUME BreakerTypeOK,
           \/ sessions' = sessions
           \/ Sweep
           \/ \E s : Record(s)
           \/ \E s : FirstTrip(s)
    PROVE  sessions' \in [Session -> SessionState]
<1>1. sessions \in [Session -> SessionState] /\ now \in Nat
  BY Zenon DEF BreakerTypeOK
<1>2. CASE Sweep
  <2>1. Unknown \in SessionState
    BY SMTT(40) DEF Unknown, SessionState
  <2> QED BY <1>1, <1>2, <2>1, SMTT(40) DEF Sweep
<1>3. ASSUME NEW s, Record(s), s # NoSession PROVE sessions' \in [Session -> SessionState]
  <2>1. PICK e : /\ sessions' = [sessions EXCEPT ![s] = e]
                 /\ e = IF sessions[s].known THEN [sessions[s] EXCEPT !.calls = @ + 1]
                        ELSE [known |-> TRUE, calls |-> 1, started |-> now, tripped |-> FALSE]
    BY <1>3, Zenon DEF Record
  <2>2. ASSUME s \in Session PROVE e \in SessionState
    <3>1. PICK r \in SessionState : r = sessions[s]
      BY <1>1, <2>2, Zenon
    <3> QED BY <1>1, <2>1, <3>1, SMTT(40) DEF SessionState
  <2>3. sessions' = [sessions EXCEPT ![s] = e]
    BY <2>1, Zenon
  <2> QED BY <1>1, <2>2, <2>3, Overwritten, Zenon
<1>4. ASSUME NEW s, FirstTrip(s), IsFirstTrip(s) PROVE sessions' \in [Session -> SessionState]
  <2>1. PICK e : sessions' = [sessions EXCEPT ![s] = e] /\ e = [sessions[s] EXCEPT !.tripped = TRUE]
    BY <1>4, Zenon DEF FirstTrip
  <2>2. ASSUME s \in Session PROVE e \in SessionState
    <3>1. PICK r \in SessionState : r = sessions[s]
      BY <1>1, <2>2, Zenon
    <3>2. e = [r EXCEPT !.tripped = TRUE]
      BY <2>1, <3>1, Zenon
    <3> QED BY <3>2, Zenon DEF SessionState
  <2>3. sessions' = [sessions EXCEPT ![s] = e]
    BY <2>1, Zenon
  <2> QED BY <1>1, <2>2, <2>3, Overwritten, Zenon
<1>5. ASSUME NEW s, FirstTrip(s), ~IsFirstTrip(s) PROVE sessions' = sessions
  BY <1>5, Zenon DEF FirstTrip
<1>6. ASSUME NEW s, Record(s), s = NoSession PROVE sessions' = sessions
  BY <1>6, Zenon DEF Record
<1> QED BY <1>1, <1>2, <1>3, <1>4, <1>5, <1>6, Zenon

(* What the engine allows it allows by a rule of the policy.               *)
LEMMA AllowedBy ==
    ASSUME NEW q, NEW d, d = Evaluate(Rules, q), d.allowed
    PROVE  Rules[d.index] \in Rule
<1>1. PICK stopping : stopping = {i \in DOMAIN Rules : Stops(Rules[i], q)}
  BY Zenon
<1>2. \A class, i : /\ Decision(class, i).allowed <=> class \in {"allowed", "policy_scoped"}
                    /\ Decision(class, i).index = i
  BY Zenon DEF Decision
<1>3. stopping # {}
  <2>1. ~Decision("default_deny", 0).allowed
    BY DEF Decision
  <2> QED BY <1>1, <2>1, Zenon DEF Evaluate
<1>4. stopping \in SUBSET Nat
  <2>1. Rules \in Seq(Rule)
    BY ExtAuthzAssumption, Zenon
  <2> QED BY <1>1, <2>1
<1>5. PICK i \in stopping : d = Decision(ReasonClass(Rules[i], q), i)
  BY <1>1, <1>3, <1>4, LeastNatural, Zenon DEF Evaluate
<1>6. i \in DOMAIN Rules /\ d.index = i
  BY <1>1, <1>2, <1>5, Zenon
<1> QED BY <1>6, ExtAuthzAssumption

(* The call a check makes at the gates has its type.                       *)
LEMMA CallTyped ==
    ASSUME PipelineInv, NEW c \in Caller, check[c].pc # "idle"
    PROVE  CallOf(c) \in Call
<1>1. PICK q, run, x : /\ q = check[c].req /\ run = check[c].run
                       /\ x = IF Attested(q) THEN RawPrincipal(q) ELSE NoSubject
  BY Zenon
<1>2. q \in Requests /\ run \in Session \union {NoSession}
  BY <1>1, Known, Zenon DEF CheckInv
<1>3. x \in Subject \union {NoSubject}
  BY <1>1, ExtAuthzAssumption, Zenon DEF Attested, RawPrincipal
<1>4. CallOf(c) = [tool |-> q.tool, session |-> run, subject |-> x]
  BY <1>1, Zenon DEF CallOf
<1>5. RequestOK(q)
  BY <1>2, ExtAuthzAssumption, Zenon
<1>6. \A r \in Session \union {NoSession}, y \in Subject \union {NoSubject} :
          [tool |-> q.tool, session |-> r, subject |-> y] \in Call
  BY <1>5, Zenon DEF RequestOK
<1> QED BY <1>2, <1>3, <1>4, <1>6, Zenon

(* The types of the gates' state.                                          *)
LEMMA CoreMoves ==
    ASSUME CoreTypeOK, NEW c \in Caller, NEW l \in CallerState, caller' = [caller EXCEPT ![c] = l],
           \/ sessions' = sessions
           \/ Sweep
           \/ \E s : Record(s)
           \/ \E s : FirstTrip(s),
           now' = now,
           \/ trips' = trips
           \/ \E s : trips' = [trips EXCEPT ![s] = @ + 1]
    PROVE  CoreTypeOK'
<1>1. BreakerTypeOK /\ caller \in [Caller -> CallerState] /\ trips \in [Session -> Nat]
  BY Zenon DEF CoreTypeOK
<1>2. caller' \in [Caller -> CallerState]
  BY <1>1, Overwritten, Zenon
<1>3. sessions' \in [Session -> SessionState]
  BY <1>1, SessionsTyped, Zenon
<1>4. trips' \in [Session -> Nat]
  <2>1. ASSUME NEW s, trips' = [trips EXCEPT ![s] = @ + 1] PROVE trips' \in [Session -> Nat]
    <3>1. PICK n : n = trips[s] + 1
      BY Zenon
    <3>2. s \in Session => n \in Nat
      BY <1>1, <3>1
    <3>3. trips' = [trips EXCEPT ![s] = n]
      BY <2>1, <3>1, Zenon
    <3> QED BY <1>1, <3>2, <3>3, Overwritten, Zenon
  <2> QED BY <1>1, <2>1, Zenon
<1> QED BY <1>1, <1>2, <1>3, <1>4, Zenon DEF CoreTypeOK, BreakerTypeOK

(* Steps that are no business of the gates.                                *)
LEMMA CoreRests ==
    ASSUME CoreTypeOK, sessions' = sessions, now' = now, caller' = caller, trips' = trips
    PROVE  CoreTypeOK'
  BY Zenon DEF CoreTypeOK, BreakerTypeOK

(* A refused call.                                                         *)
LEMMA RefusedTyped ==
    ASSUME NEW w \in Why
    PROVE  [pc |-> "refused", why |-> w] \in CallerState
  BY DEF CallerState

(* A call that goes on to the next limit.                                  *)
LEMMA GotoTyped ==
    ASSUME NEW k \in CallerState, k.pc \in Passing, NEW p \in Passing
    PROVE  [k EXCEPT !.pc = p] \in CallerState
  BY DEF CallerState, Passing, Idle

(* The registry and the breaker keep the types.                            *)
LEMMA AdmitCallTyped ==
    ASSUME PipelineInv, NEW c \in Caller, AdmitCall(c)
    PROVE  CoreTypeOK'
<1>1. PICK k : k = CallOf(c)
  BY Zenon
<1>2. k \in Call
  <2>1. check[c].pc # "idle"
    BY DEF AdmitCall
  <2> QED BY <1>1, <2>1, CallTyped, Zenon
<1>3. Admit(c, k) /\ CoreTypeOK /\ sessions' = sessions /\ now' = now /\ trips' = trips
  BY <1>1, Known, Zenon DEF AdmitCall, Admit
<1>4. CASE Refuse(c, "tool_not_registered")
  <2>1. "tool_not_registered" \in Why
    BY DEF Why
  <2> QED BY <1>3, <1>4, <2>1, RefusedTyped, CoreMoves, Zenon DEF Refuse
<1>5. CASE caller' = [caller EXCEPT ![c] = [pc |-> IF HasBreaker /\ ~Allow(k.session) THEN "trip" ELSE "policy",
                                           call |-> k]]
  <2>1. PICK l : l = [pc |-> IF HasBreaker /\ ~Allow(k.session) THEN "trip" ELSE "policy", call |-> k]
    BY Zenon
  <2>2. l \in CallerState
    BY <1>2, <2>1, Zenon DEF CallerState
  <2> QED BY <1>3, <1>5, <2>1, <2>2, CoreMoves, Zenon
<1> QED BY <1>3, <1>4, <1>5, Zenon DEF Admit

(* So does a trip.                                                         *)
LEMMA TripRunTyped ==
    ASSUME PipelineInv, NEW c \in Caller, TripRun(c)
    PROVE  CoreTypeOK'
<1>1. PICK s : s = caller[c].call.session
  BY Zenon
<1>2. CoreTypeOK /\ FirstTrip(s) /\ Refuse(c, "circuit_open") /\ now' = now
  BY <1>1, Known, Zenon DEF TripRun, Trip
<1>3. trips' = trips \/ trips' = [trips EXCEPT ![s] = @ + 1]
  BY <1>1, Zenon DEF TripRun, Trip
<1>4. [pc |-> "refused", why |-> "circuit_open"] \in CallerState
  BY DEF CallerState, Why
<1>5. caller' = [caller EXCEPT ![c] = [pc |-> "refused", why |-> "circuit_open"]]
  BY <1>2, Zenon DEF Refuse
<1> QED BY <1>2, <1>3, <1>4, <1>5, CoreMoves, Zenon

(* So do the limits.                                                       *)
LEMMA ChargeTyped ==
    ASSUME PipelineInv, NEW c \in Caller, Charge(c)
    PROVE  CoreTypeOK'
<1>1. /\ CoreTypeOK /\ caller[c] \in CallerState
      /\ ChargeRates(c) \/ ChargeBudget(c) \/ RecordCall(c) \/ ChargeVelocity(c)
  BY Known, Zenon DEF Charge
<1>2. now' = now /\ trips' = trips /\ (sessions' = sessions \/ \E s : Record(s))
  BY <1>1, Zenon DEF ChargeRates, ChargeBudget, RecordCall, ChargeVelocity
<1>3. PICK l \in CallerState : caller' = [caller EXCEPT ![c] = l]
  <2>1. ASSUME NEW p \in {"budget", "record", "velocity", "forward"}, Goto(c, p)
        PROVE  \E l \in CallerState : caller' = [caller EXCEPT ![c] = l]
    <3>1. caller[c].pc \in {"rates", "budget", "record", "velocity"}
      BY <1>1, Charges, Zenon
    <3>2. [caller[c] EXCEPT !.pc = p] \in CallerState
      BY <1>1, <2>1, <3>1, GotoTyped, Zenon DEF Passing
    <3>3. caller' = [caller EXCEPT ![c] = [caller[c] EXCEPT !.pc = p]]
      BY <2>1, Zenon DEF Goto
    <3> QED BY <3>2, <3>3, Zenon
  <2>2. ASSUME NEW w \in Why, Refuse(c, w)
        PROVE  \E l \in CallerState : caller' = [caller EXCEPT ![c] = l]
    BY <2>2, RefusedTyped, Zenon DEF Refuse
  <2> QED BY <1>1, <2>1, <2>2, Charges, Zenon
<1> QED BY <1>1, <1>2, <1>3, CoreMoves, Zenon

(* So do the rules: the one that decided is one of them.                   *)
LEMMA EvaluatePolicyTyped ==
    ASSUME PipelineInv, NEW c \in Caller, EvaluatePolicy(c)
    PROVE  CoreTypeOK'
<1>1. PICK q, d : q = PolicyRequest(c) /\ d = Evaluate(Rules, q)
  BY Zenon
<1>2. /\ CoreTypeOK /\ caller[c] \in CallerState /\ caller[c].pc = "policy"
      /\ sessions' = sessions /\ now' = now /\ trips' = trips
  BY Known, Zenon DEF EvaluatePolicy
<1>3. PICK k \in Call : k = caller[c].call
  BY <1>2 DEF CallerState, Idle
<1>4. CASE d.allowed
  <2>1. PICK l : l = [pc |-> "rates", call |-> k, rule |-> Rules[d.index]]
    BY Zenon
  <2>2. Rules[d.index] \in Rule
    BY <1>1, <1>4, AllowedBy, Zenon
  <2>3. l \in CallerState
    BY <2>1, <2>2, Zenon DEF CallerState
  <2>4. caller' = [caller EXCEPT ![c] = l]
    BY <1>1, <1>3, <1>4, <2>1, Zenon DEF EvaluatePolicy
  <2> QED BY <1>2, <2>3, <2>4, CoreMoves, Zenon
<1>5. CASE ~d.allowed
  <2>1. Idle \in CallerState
    BY Zenon DEF CallerState
  <2>2. caller' = [caller EXCEPT ![c] = Idle]
    BY <1>1, <1>5, Zenon DEF EvaluatePolicy
  <2> QED BY <1>2, <2>1, <2>2, CoreMoves, Zenon
<1> QED BY <1>4, <1>5, Zenon

(* So do the sweep and the clock.                                          *)
LEMMA EnvironmentTyped ==
    ASSUME CoreTypeOK, SweepSessions \/ Clock
    PROVE  CoreTypeOK'
<1>1. BreakerTypeOK /\ caller \in [Caller -> CallerState] /\ trips \in [Session -> Nat]
  BY Zenon DEF CoreTypeOK
<1>2. CASE SweepSessions
  <2>1. Sweep /\ now' = now /\ caller' = caller
    BY <1>2, Zenon DEF SweepSessions
  <2>2. sessions' \in [Session -> SessionState]
    BY <1>1, <2>1, SessionsTyped, Zenon
  <2>3. trips' \in [Session -> Nat]
    BY <1>1, <1>2 DEF SweepSessions
  <2> QED BY <1>1, <2>1, <2>2, <2>3, Zenon DEF CoreTypeOK, BreakerTypeOK
<1>3. CASE Clock
  <2>1. Tick /\ sessions' = sessions /\ caller' = caller /\ trips' = trips
    BY <1>3, Zenon DEF Clock
  <2>2. now' \in Nat
    BY <1>1, <2>1 DEF Tick, BreakerTypeOK
  <2> QED BY <1>1, <2>1, <2>2, Zenon DEF CoreTypeOK, BreakerTypeOK
<1> QED BY <1>2, <1>3

(* What is left of the script.                                             *)
LEMMA ScriptMoves ==
    ASSUME ScriptOK,
           \/ script' = script
           \/ script.reqs # <<>> /\ script' = [script EXCEPT !.reqs = Tail(@)]
           \/ script.rotations # <<>> /\ script' = [script EXCEPT !.rotations = Tail(@)]
           \/ script' = [script EXCEPT !.ticks = @ - 1]
    PROVE  ScriptOK' /\ Configured
<1>1. CASE script' = script
  BY <1>1, Zenon DEF ScriptOK, Configured
<1>2. CASE script.reqs # <<>> /\ script' = [script EXCEPT !.reqs = Tail(@)]
  <2>1. PICK t \in Seq(Requests) : t = Tail(script.reqs)
    BY <1>2, NextRequest, Zenon
  <2>2. script' = [script EXCEPT !.reqs = t]
    BY <1>2, <2>1, Zenon
  <2> QED BY <2>2 DEF ScriptOK, Configured
<1>3. CASE script.rotations # <<>> /\ script' = [script EXCEPT !.rotations = Tail(@)]
  <2>1. PICK t \in Seq(SUBSET Kid) : t = Tail(script.rotations)
    <3>1. PICK s \in Seq(SUBSET Kid) : s = script.rotations
      BY Zenon DEF ScriptOK
    <3>2. Tail(s) \in Seq(SUBSET Kid)
      BY <1>3, <3>1
    <3> QED BY <3>1, <3>2, Zenon
  <2>2. script' = [script EXCEPT !.rotations = t]
    BY <1>3, <2>1, Zenon
  <2> QED BY <2>2 DEF ScriptOK, Configured
<1>4. CASE script' = [script EXCEPT !.ticks = @ - 1]
  <2>1. PICK t : script' = [script EXCEPT !.ticks = t]
    BY <1>4, Zenon
  <2> QED BY <2>1 DEF ScriptOK, Configured
<1> QED BY <1>1, <1>2, <1>3, <1>4

(* What a step does to the key cache it could do on its own.               *)
LEMMA JwksMoves ==
    ASSUME PipelineInv, [Next]_vars
    PROVE  [JwksNext]_<<jwksVars, now>>
<1>1. ASSUME NEW c \in Caller, Check(c) PROVE [JwksNext]_<<jwksVars, now>>
  <2>1. PICK q : q = Head(script.reqs)
    BY Zenon
  <2>2. q \in Requests /\ now' = now
    BY <1>1, <2>1, NextRequest, Zenon DEF PipelineInv, Check, gatesVars
  <2>3. (q.token # NoToken /\ StartVerify(c, q.token)) \/ UNCHANGED jwksVars
    BY <1>1, <2>1, Zenon DEF Check
  <2>4. RequestOK(q)
    BY <2>2, ExtAuthzAssumption, Zenon
  <2>5. q.token # NoToken => q.token \in Token
    BY <2>4, Zenon DEF RequestOK
  <2>6. c \in Verifier
    BY ExtAuthzAssumption
  <2> QED BY <2>2, <2>3, <2>5, <2>6, Zenon DEF JwksNext
<1>2. ASSUME NEW c \in Caller, CheckStep(c) PROVE [JwksNext]_<<jwksVars, now>>
  <2>1. c \in Verifier
    BY ExtAuthzAssumption
  <2>2. CASE VerifyStep(c) /\ UNCHANGED <<gatesVars, signalVars, check, script>>
    BY <2>1, <2>2, Zenon DEF JwksNext, gatesVars
  <2>3. CASE VerifyRun(c)
    BY <2>1, <2>3, Zenon DEF VerifyRun, JwksNext, Ended, gatesVars
  <2>4. CASE AdmitCall(c) \/ TripRun(c) \/ EvaluatePolicy(c) \/ Answer(c) \/ Return(c)
    BY <2>4, Zenon DEF AdmitCall, TripRun, EvaluatePolicy, Answer, Return, Admit, Trip, gatesVars
  <2>5. CASE Charge(c)
    BY <2>5, Zenon DEF Charge, ChargeRates, ChargeBudget, RecordCall, ChargeVelocity
  <2> QED BY <1>2, <2>2, <2>3, <2>4, <2>5, Zenon DEF CheckStep
<1>3. CASE Deliveries
  BY <1>3, Zenon DEF Deliveries, gatesVars
<1>4. CASE Environment
  <2>1. CASE SweepSessions /\ UNCHANGED <<jwksVars, signalVars, check, script>>
    BY <2>1, Zenon DEF SweepSessions
  <2>2. CASE /\ script.rotations # <<>>
             /\ Rotate(Head(script.rotations))
             /\ UNCHANGED <<gatesVars, signalVars, check>>
    <3>1. PICK s \in Seq(SUBSET Kid) : s = script.rotations
      BY Zenon DEF PipelineInv, ScriptOK
    <3>2. PICK ks : ks = Head(s)
      BY Zenon
    <3>3. ks \in SUBSET Kid
      BY <2>2, <3>1, <3>2
    <3> QED BY <2>2, <3>1, <3>2, <3>3, Zenon DEF JwksNext, gatesVars
  <2>3. CASE Clock /\ StillServed
    BY <2>3, Zenon DEF Clock, JwksNext
  <2> QED BY <1>4, <2>1, <2>2, <2>3, Zenon DEF Environment
<1>5. CASE UNCHANGED vars
  BY <1>5, Zenon DEF vars, gatesVars
<1> QED BY <1>1, <1>2, <1>3, <1>4, <1>5, Zenon DEF Next

(* Every step of the service preserves the invariant of its pipeline.      *)
LEMMA PipelineStep == PipelineInv /\ [Next]_vars => PipelineInv'
<1> SUFFICES ASSUME PipelineInv, [Next]_vars PROVE PipelineInv'
  BY Zenon
<1>1. JwksInv'
  <2>1. JwksInv /\ [JwksNext]_<<jwksVars, now>>
    BY JwksMoves, Zenon DEF PipelineInv
  <2> QED BY <2>1, JwksStep, Zenon
<1>2. ScriptOK' /\ Configured
  <2>1. \/ script' = script
        \/ script.reqs # <<>> /\ script' = [script EXCEPT !.reqs = Tail(@)]
        \/ script.rotations # <<>> /\ script' = [script EXCEPT !.rotations = Tail(@)]
        \/ script' = [script EXCEPT !.ticks = @ - 1]
    <3>1. \A c \in Caller : Check(c) => script.reqs # <<>> /\ script' = [script EXCEPT !.reqs = Tail(@)]
      BY Zenon DEF Check
    <3>2. \A c \in Caller : CheckStep(c) => script' = script
      BY Zenon DEF CheckStep, VerifyRun, AdmitCall, TripRun, EvaluatePolicy, Charge, Answer, Return
    <3>3. Deliveries => script' = script
      BY Zenon DEF Deliveries
    <3>4. Environment =>
              \/ script' = script
              \/ script.rotations # <<>> /\ script' = [script EXCEPT !.rotations = Tail(@)]
              \/ script' = [script EXCEPT !.ticks = @ - 1]
      BY Zenon DEF Environment
    <3>5. UNCHANGED vars => script' = script
      BY Zenon DEF vars
    <3> QED BY <3>1, <3>2, <3>3, <3>4, <3>5, Zenon DEF Next
  <2>2. ScriptOK
    BY Zenon DEF PipelineInv
  <2> QED BY <2>1, <2>2, ScriptMoves, Zenon
<1>3. CoreTypeOK' /\ ChecksInv'
  <2>0. CoreTypeOK /\ ChecksInv
    BY Zenon DEF PipelineInv
  <2>1. ASSUME NEW c \in Caller, Check(c) PROVE CoreTypeOK' /\ ChecksInv'
    <3>1. UNCHANGED gatesVars
      BY <2>1, Zenon DEF Check
    <3>2. CoreTypeOK'
      BY <2>0, <3>1, CoreRests, Zenon DEF gatesVars
    <3> QED BY <1>2, <2>1, <3>2, CheckBegins, Zenon
  <2>2. ASSUME NEW c \in Caller, VerifyStep(c), UNCHANGED <<gatesVars, signalVars, check, script>>
        PROVE  CoreTypeOK' /\ ChecksInv'
    <3>1. CoreTypeOK'
      BY <2>0, <2>2, CoreRests, Zenon DEF gatesVars
    <3> QED BY <2>2, <3>1, VerifyStepKeeps, Zenon
  <2>3. ASSUME NEW c \in Caller, VerifyRun(c) \/ Return(c) PROVE CoreTypeOK' /\ ChecksInv'
    <3>1. UNCHANGED gatesVars
      BY <2>3, Zenon DEF VerifyRun, Return
    <3>2. CoreTypeOK'
      BY <2>0, <3>1, CoreRests, Zenon DEF gatesVars
    <3> QED BY <2>3, <3>2, VerifyRunKeeps, ReturnKeeps, Zenon
  <2>4. ASSUME NEW c \in Caller, AdmitCall(c) \/ TripRun(c) \/ EvaluatePolicy(c) \/ Charge(c)
        PROVE  CoreTypeOK' /\ ChecksInv'
    BY <2>4, AdmitCallKeeps, AdmitCallTyped, TripRunKeeps, TripRunTyped, EvaluatePolicyKeeps,
       EvaluatePolicyTyped, ChargeKeeps, ChargeTyped, Zenon
  <2>5. ASSUME NEW c \in Caller, Answer(c) PROVE CoreTypeOK' /\ ChecksInv'
    <3>1. /\ sessions' = sessions /\ now' = now /\ trips' = trips
          /\ caller' = [caller EXCEPT ![c] = Idle]
      BY <2>5, Zenon DEF Answer
    <3>2. Idle \in CallerState
      BY Zenon DEF CallerState
    <3>3. CoreTypeOK'
      BY <2>0, <3>1, <3>2, CoreMoves, Zenon
    <3> QED BY <2>5, <3>3, AnswerKeeps, Zenon
  <2>6. CASE Deliveries \/ UNCHANGED vars
    <3>1. UNCHANGED <<gatesVars, jwksVars, check>>
      BY <2>6, Zenon DEF Deliveries, vars
    <3>2. CoreTypeOK'
      BY <2>0, <3>1, CoreRests, Zenon DEF gatesVars
    <3> QED BY <1>2, <2>0, <3>1, <3>2, QuietKeeps, Zenon DEF gatesVars, jwksVars
  <2>7. CASE Environment
    <3>1. UNCHANGED <<check, caller, verify>>
      BY <2>7, Zenon DEF Environment, SweepSessions, Clock, Rotate, StillServed, jwksVars, gatesVars
    <3>2. CoreTypeOK'
      <4>1. SweepSessions \/ Clock \/ UNCHANGED gatesVars
        BY <2>7, Zenon DEF Environment
      <4> QED BY <2>0, <4>1, EnvironmentTyped, CoreRests, Zenon DEF gatesVars
    <3> QED BY <1>2, <2>0, <3>1, <3>2, QuietKeeps, Zenon
  <2> QED BY <2>1, <2>2, <2>3, <2>4, <2>5, <2>6, <2>7, Zenon DEF Next, CheckStep
<1> QED BY <1>1, <1>2, <1>3, Zenon DEF PipelineInv

(* No check is under way at the start.                                     *)
LEMMA PipelineStarts == Init => PipelineInv
<1> SUFFICES ASSUME Init PROVE PipelineInv
  BY Zenon
<1>1. JwksInv
  BY JwksStarts, Zenon DEF Init, GatesInit, BreakerInit
<1>2. CoreTypeOK
  <2>1. sessions \in [Session -> SessionState] /\ now \in Nat
    BY DEF Init, GatesInit, BreakerInit, SessionState, Unknown
  <2>2. Idle \in CallerState
    BY Zenon DEF CallerState
  <2>3. caller \in [Caller -> CallerState] /\ trips \in [Session -> Nat]
    BY <2>2, Zenon DEF Init, GatesInit
  <2> QED BY <2>1, <2>3, Zenon DEF CoreTypeOK, BreakerTypeOK
<1>3. ScriptOK
  <2>1. PICK s \in Script : s = script
    BY Zenon DEF Init
  <2>2. /\ DOMAIN s = {"mode", "optional", "reqs", "serves", "rotations", "ticks"}
        /\ s = [f \in DOMAIN s |-> s[f]]
        /\ s.reqs \in Seq(Requests) /\ s.rotations \in Seq(SUBSET Kid)
    BY ExtAuthzAssumption, Zenon
  <2> QED BY <2>1, <2>2, Zenon DEF ScriptOK
<1>4. ChecksInv
  <2>1. CheckInv(Resting, Idle, Off)
    BY DEF CheckInv, Resting, Idle, Off, Flight, Passing, Judged
  <2>2. check = [c \in Caller |-> Resting] /\ caller = [c \in Caller |-> Idle] /\ verify = [v \in Verifier |-> Off]
    BY Zenon DEF Init, GatesInit, JwksInit
  <2>3. \A c \in Caller : check[c] = Resting /\ caller[c] = Idle /\ verify[c] = Off
    BY <2>2, ExtAuthzAssumption
  <2>4. check = [c \in Caller |-> check[c]]
    BY <2>2
  <2> QED BY <2>1, <2>3, <2>4, Zenon DEF ChecksInv
<1> QED BY <1>1, <1>2, <1>3, <1>4, Zenon DEF PipelineInv

(* The invariant of the pipeline, in every reachable state.                *)
LEMMA PipelineInvariant == Spec => []PipelineInv
  BY PipelineStarts, PipelineStep, PTL DEF Spec

(* The service's state has its type at all times.                          *)
THEOREM ArbiterTypeCorrect == Spec => []TypeOK
<1>1. PipelineInv => TypeOK
  <2> SUFFICES ASSUME PipelineInv PROVE TypeOK
    BY Zenon
  <2>1. BreakerTypeOK /\ JwksTypeOK /\ caller \in [Caller -> CallerState]
    BY Zenon DEF PipelineInv, CoreTypeOK, JwksInv, JwksTypes
  <2>2. ASSUME NEW c \in Caller
        PROVE  /\ check[c].pc \in {"idle", "verify", "admit", "gates", "answer", "answered"}
               /\ check[c].pc # "idle" => check[c].run \in Session \union {NoSession}
    BY Known, Zenon DEF CheckInv, Flight
  <2> QED BY <2>1, <2>2, Zenon DEF TypeOK
<1> QED BY <1>1, PipelineInvariant, PTL

(* The cache follows the issuer in the service too, as far as what it      *)
(* fetched had keys in it (jwks.go:166-244).                               *)
THEOREM ArbiterCacheFollows == Spec => []KeysFollowIssuer
<1>1. PipelineInv => KeysFollowIssuer
  BY JwksInvFollows, Zenon DEF PipelineInv
<1> QED BY <1>1, PipelineInvariant, PTL

(* A body that was not found truncated was seen whole.                     *)
LEMMA WholeBody ==
    ASSUME NEW got \in Nat, NEW size \in Int, NEW length \in Int, length >= Absent,
           ~(IF size > 0 THEN size > got ELSE length # Absent /\ length > got)
    PROVE  got >= size /\ (size > 0 \/ got >= length)
  BY DEF Absent

(* What holds of a request that no screen refused.                         *)
LEMMA ScreenMeans ==
    ASSUME NEW q \in Requests, NEW names, Screen(q, names) = "", q.dest = <<>> => names = {}
    PROVE  /\ q.partial # "true"
           /\ q.partial = "absent" => q.got >= q.size /\ (q.size > 0 \/ q.got >= q.length)
           /\ \A n \in names : isService(n) => q.host = q.dest \/
                  \E m \in names : isService(m) /\ Names(q.host, m)
           /\ Mapped(q) => \A i \in DOMAIN q.path.segs :
                  q.path.segs[i] \notin Slashed /\ Unescape[q.path.segs[i]] \notin {"", ".", ".."}
           /\ HasRunTokens /\ ~script.optional => q.token # NoToken
<1>1. ~BodyTruncated(q) /\ verifyTarget(q, names) /\ ~Ambiguous(q)
      /\ (HasRunTokens /\ ~script.optional => q.token # NoToken)
  BY DEF Screen, Translates
<1>2. RequestOK(q)
  BY ExtAuthzAssumption, Zenon
<1>0. PICK partial : partial = q.partial
  BY Zenon
<1>3. PICK got \in Nat, size \in Int, length \in Int :
          got = q.got /\ size = q.size /\ length = q.length /\ length >= Absent
  BY <1>2, Zenon DEF RequestOK
<1>4. ~(IF partial # "absent" THEN partial = "true"
        ELSE IF size > 0 THEN size > got ELSE length # Absent /\ length > got)
  BY <1>0, <1>1, <1>3, Zenon DEF BodyTruncated
<1>5. partial # "true" /\ (partial = "absent" => got >= size /\ (size > 0 \/ got >= length))
  <2>1. partial # "true"
    BY <1>4
  <2>2. partial = "absent" => ~(IF size > 0 THEN size > got ELSE length # Absent /\ length > got)
    BY <1>4, Zenon
  <2>3. ~(IF size > 0 THEN size > got ELSE length # Absent /\ length > got) =>
           got >= size /\ (size > 0 \/ got >= length)
    BY <1>3, WholeBody, Zenon
  <2> QED BY <2>1, <2>2, <2>3, Zenon
<1>6. \A n \in names : isService(n) => q.host = q.dest \/ \E m \in names : isService(m) /\ Names(q.host, m)
  BY <1>1, Zenon DEF verifyTarget
<1>7. ASSUME Mapped(q), NEW i \in DOMAIN q.path.segs
      PROVE  q.path.segs[i] \notin Slashed /\ Unescape[q.path.segs[i]] \notin {"", ".", ".."}
  <2>1. PICK u : u = q.path.segs[i]
    BY Zenon
  <2>2. u \notin {"", ".", ".."} /\ ~Unclear(u)
    BY <1>1, <1>7, <2>1, Zenon DEF Ambiguous, split
  <2>3. u \in DOMAIN Unescape
    BY <1>2, <1>7, <2>1, Zenon DEF RequestOK
  <2>4. Unescape[u] # ""
    BY <2>2, <2>3, ExtAuthzAssumption, Zenon
  <2> QED BY <2>1, <2>2, <2>4, Zenon DEF Unclear
<1>8. /\ q.partial # "true"
      /\ q.partial = "absent" => q.got >= q.size /\ (q.size > 0 \/ q.got >= q.length)
  BY <1>0, <1>3, <1>5, Zenon
<1> QED BY <1>1, <1>6, <1>7, <1>8, Zenon

(* A bound token names the attested caller.                                *)
LEMMA BoundMeans ==
    ASSUME NEW q, Bound(q)
    PROVE  /\ q.token.wl = (IF q.principal \in Spiffe THEN q.principal ELSE q.peer)
           /\ q.token.wl \in Spiffe
<1>1. "" \notin Spiffe
  BY ExtAuthzAssumption, Zenon
<1> QED BY <1>1, Zenon DEF Bound, Attested, RawPrincipal

(* For any policy, any tokens, key rotations and number of concurrent      *)
(* checks: in enforce mode a call passes only if everything the service    *)
(* can check of it held, its run token being in time when it was judged    *)
(* and bound to the principal that attests the call, and the rules allow   *)
(* the operation that Host, method and path map to.  In the other modes    *)
(* every call passes, and observe records which ones enforcement would     *)
(* refuse (server.go:167-230).                                             *)
THEOREM PassedMeansVetted == Spec => []OkMeansVetted
<1>1. PipelineInv => OkMeansVetted
  <2> SUFFICES ASSUME PipelineInv, NEW c \in Caller, check[c].pc = "answered"
               PROVE  LET q == check[c].req
                          ok == check[c].reply = "ok"
                      IN
                      IF mode # "enforce"
                      THEN ok /\ (mode = "observe" => (check[c].instead = "DENY" <=> ~check[c].decision.allowed))
                      ELSE ok =>
                          /\ q.partial # "true"
                          /\ q.partial = "absent" => q.got >= q.size /\ (q.size > 0 \/ q.got >= q.length)
                          /\ \A n \in check[c].names : isService(n) => q.host = q.dest \/
                                 \E m \in check[c].names : isService(m) /\ Names(q.host, m)
                          /\ Mapped(q) => \A i \in DOMAIN q.path.segs :
                                 q.path.segs[i] \notin Slashed /\ Unescape[q.path.segs[i]] \notin {"", ".", ".."}
                          /\ IF HasRunTokens /\ ~(script.optional /\ q.token = NoToken)
                             THEN /\ q.token # NoToken /\ q.token.signed /\ check[c].run = q.token.txn
                                  /\ q.token.iat # Never /\ InTime(q.token, check[c].judged)
                                  /\ q.token.wl = (IF q.principal \in Spiffe THEN q.principal ELSE q.peer)
                                  /\ q.token.wl \in Spiffe
                             ELSE check[c].run = NoSession
                          /\ \A p \in {[PolicyRequest(c) EXCEPT !.args = Action(q)]} : Evaluate(Rules, p).allowed
    BY Zenon DEF OkMeansVetted
  <2>1. PICK x, q, d, names : x = check[c] /\ q = x.req /\ d = x.decision /\ names = x.names
    BY Zenon
  <2>2. CheckInv(x, caller[c], verify[c]) /\ x.pc = "answered"
    BY <2>1, Known, Zenon
  <2>3. /\ x.reply = Respond(d) /\ x.instead = Counterfactual(d) /\ q \in Requests
        /\ q.dest = <<>> => names = {}
        /\ d.allowed => Screened(x) /\ RunOK(x) /\ Permitted(x)
    BY <2>1, <2>2, Zenon DEF CheckInv
  <2>4. mode # "enforce" => x.reply = "ok" /\ (x.instead = "DENY" <=> ~d.allowed)
    BY <2>3, Zenon DEF Respond, Counterfactual
  <2>5. ASSUME mode = "enforce", x.reply = "ok"
        PROVE  Screened(x) /\ RunOK(x) /\ Permitted(x)
    BY <2>3, <2>5, Zenon DEF Respond
  <2>6. ASSUME Screened(x), RunOK(x), Permitted(x)
        PROVE  /\ q.partial # "true"
               /\ q.partial = "absent" => q.got >= q.size /\ (q.size > 0 \/ q.got >= q.length)
               /\ \A n \in names : isService(n) => q.host = q.dest \/
                      \E m \in names : isService(m) /\ Names(q.host, m)
               /\ Mapped(q) => \A i \in DOMAIN q.path.segs :
                      q.path.segs[i] \notin Slashed /\ Unescape[q.path.segs[i]] \notin {"", ".", ".."}
               /\ IF HasRunTokens /\ ~(script.optional /\ q.token = NoToken)
                  THEN /\ q.token # NoToken /\ q.token.signed /\ x.run = q.token.txn
                       /\ q.token.iat # Never /\ InTime(q.token, x.judged)
                       /\ q.token.wl = (IF q.principal \in Spiffe THEN q.principal ELSE q.peer)
                       /\ q.token.wl \in Spiffe
                  ELSE x.run = NoSession
               /\ \A p \in {[PolicyRequest(c) EXCEPT !.args = Action(q)]} : Evaluate(Rules, p).allowed
    <3>1. Screen(q, names) = "" /\ x.action = Action(q)
      BY <2>1, <2>6, Zenon DEF Screened
    <3>2. /\ q.partial # "true"
          /\ q.partial = "absent" => q.got >= q.size /\ (q.size > 0 \/ q.got >= q.length)
          /\ \A n \in names : isService(n) => q.host = q.dest \/
                 \E m \in names : isService(m) /\ Names(q.host, m)
          /\ Mapped(q) => \A i \in DOMAIN q.path.segs :
                 q.path.segs[i] \notin Slashed /\ Unescape[q.path.segs[i]] \notin {"", ".", ".."}
          /\ HasRunTokens /\ ~script.optional => q.token # NoToken
      BY <2>3, <3>1, ScreenMeans, Zenon
    <3>3. IF HasRunTokens /\ q.token # NoToken
          THEN /\ q.token.signed /\ x.run = q.token.txn /\ Bound(q)
               /\ q.token.iat # Never /\ InTime(q.token, x.judged)
          ELSE x.run = NoSession
      BY <2>1, <2>6, Zenon DEF RunOK
    <3>4. HasRunTokens /\ q.token # NoToken =>
              /\ q.token.wl = (IF q.principal \in Spiffe THEN q.principal ELSE q.peer)
              /\ q.token.wl \in Spiffe
      BY <3>3, BoundMeans, Zenon
    <3>7. IF HasRunTokens /\ ~(script.optional /\ q.token = NoToken)
          THEN /\ q.token # NoToken /\ q.token.signed /\ x.run = q.token.txn
               /\ q.token.iat # Never /\ InTime(q.token, x.judged)
               /\ q.token.wl = (IF q.principal \in Spiffe THEN q.principal ELSE q.peer)
               /\ q.token.wl \in Spiffe
          ELSE x.run = NoSession
      BY <3>2, <3>3, <3>4, Zenon
    <3>5. [PolicyRequest(c) EXCEPT !.args = Action(q)] = PolicyOf(x)
      <4>1. PICK m, t, i : /\ m = (IF q.tool = NoTool THEN "" ELSE "tools/call") /\ t = q.tool
                           /\ i = (IF x.run = NoSession THEN NoIdentity ELSE q.token.identity)
        BY Zenon
      <4>2. PolicyRequest(c) = [method |-> m, tool |-> t, args |-> x.action, identity |-> i]
        BY <2>1, <4>1, Zenon DEF PolicyRequest
      <4>3. PolicyOf(x) = [method |-> m, tool |-> t, args |-> x.action, identity |-> i]
        BY <2>1, <4>1, Zenon DEF PolicyOf
      <4>4. PICK a : a = Action(q)
        BY Zenon
      <4>5. [[method |-> m, tool |-> t, args |-> a, identity |-> i] EXCEPT !.args = a] =
                [method |-> m, tool |-> t, args |-> a, identity |-> i]
        OBVIOUS
      <4> QED BY <3>1, <4>2, <4>3, <4>4, <4>5, Zenon
    <3>6. \A p \in {[PolicyRequest(c) EXCEPT !.args = Action(q)]} : Evaluate(Rules, p).allowed
      BY <2>6, <3>5, Zenon DEF Permitted
    <3> QED BY <3>2, <3>6, <3>7, Zenon
  <2>7. CASE mode # "enforce"
    BY <2>1, <2>4, <2>7, Zenon
  <2>8. CASE mode = "enforce"
    BY <2>1, <2>5, <2>6, <2>8, Zenon
  <2> QED BY <2>7, <2>8, Zenon
<1> QED BY <1>1, PipelineInvariant, PTL

-----------------------------------------------------------------------------
(* The signals.                                                            *)

(* Appending to the second part is appending to the whole.                 *)
LEMMA JoinLater ==
    ASSUME NEW E, NEW a \in Seq(E), NEW q \in Seq(E), NEW e \in E
    PROVE  a \o Append(q, e) = Append(a \o q, e)
  OBVIOUS

(* The head of the queue goes to the worker.                               *)
LEMMA TakeHead ==
    ASSUME NEW E, NEW a \in Seq(E), NEW q \in Seq(E), q # <<>>
    PROVE  /\ (a \o <<>>) \o q = (a \o <<Head(q)>>) \o Tail(q)
           /\ Head(q) \in E /\ Tail(q) \in Seq(E) /\ Len(Tail(q)) <= Len(q)
  OBVIOUS

(* What the worker had in hand goes to the outcomes.                       *)
LEMMA PutDown ==
    ASSUME NEW E, NEW a \in Seq(E), NEW q \in Seq(E), NEW e \in E
    PROVE  (a \o <<e>>) \o q = (Append(a, e) \o <<>>) \o q
  OBVIOUS

(* Sequences of the same length with the same entries are equal.           *)
LEMMA SameSequence ==
    ASSUME NEW E, NEW a \in Seq(E), NEW b \in Seq(E), Len(a) = Len(b),
           \A i \in 1..Len(a) : a[i] = b[i]
    PROVE  a = b
  OBVIOUS

(* A function on 1..n is a sequence of length n.                           *)
LEMMA Listed ==
    ASSUME NEW E, NEW n \in Nat, NEW f, f = [i \in 1..n |-> f[i]], \A i \in 1..n : f[i] \in E
    PROVE  f \in Seq(E) /\ Len(f) = n
  OBVIOUS

(* b is a with e after it, element by element.                             *)
Extended(a, e, b) ==
    /\ Len(b) = Len(a) + 1 /\ DOMAIN b = 1..(Len(a) + 1) /\ b[Len(a) + 1] = e
    /\ \A i \in 1..Len(a) : b[i] = a[i]

(* What Append makes, entry by entry.                                      *)
LEMMA AppendIs ==
    ASSUME NEW E, NEW a \in Seq(E), NEW e \in E
    PROVE  Append(a, e) \in Seq(E) /\ Extended(a, e, Append(a, e))
  BY DEF Extended

(* What a sequence is, entry by entry.                                     *)
LEMMA SeqIs ==
    ASSUME NEW E, NEW a \in Seq(E)
    PROVE  Len(a) \in Nat /\ DOMAIN a = 1..Len(a) /\ \A i \in 1..Len(a) : a[i] \in E
  OBVIOUS

(* The interval up to m + 1 is the one up to m and m + 1.                  *)
LEMMA NextBound ==
    ASSUME NEW m \in Nat
    PROVE  /\ \A i \in 1..(m + 1) : i \in 1..m \/ i = m + 1
           /\ \A i, j \in 1..(m + 1) : i < j => i \in 1..m
           /\ \A i \in 1..m : i \in 1..(m + 1) /\ i < m + 1
           /\ m + 1 \in 1..(m + 1) /\ m + 1 \in Nat
  OBVIOUS

EventsIn(d, f) == Len(f) = Len(d) /\ \A i \in 1..Len(d) : f[i] = d[i].event

Carry(R, E) == \A r \in R : r.event \in E

(* The events of a sequence of records that carry events.                  *)
LEMMA EventsListed ==
    ASSUME NEW E, NEW R, Carry(R, E), NEW d \in Seq(R)
    PROVE  EventsOf(d) \in Seq(E) /\ EventsIn(d, EventsOf(d))
<1>1. PICK f : f = EventsOf(d)
  BY Zenon
<1>2. Len(d) \in Nat /\ DOMAIN d = 1..Len(d) /\ \A i \in 1..Len(d) : d[i] \in R
  BY SeqIs, Zenon
<1>3. f = [i \in 1..Len(d) |-> d[i].event]
  BY <1>1, <1>2, Zenon DEF EventsOf
<1>4. f = [i \in 1..Len(d) |-> f[i]] /\ \A i \in 1..Len(d) : f[i] = d[i].event
  BY <1>3
<1>5. f \in Seq(E) /\ Len(f) = Len(d)
  <2>1. \A i \in 1..Len(d) : f[i] \in E
    BY <1>2, <1>4, Zenon DEF Carry
  <2>2. f = [i \in 1..Len(d) |-> f[i]]
    BY <1>4, Zenon
  <2> QED BY <1>2, <2>1, <2>2, Listed, Zenon
<1> QED BY <1>1, <1>4, <1>5, Zenon DEF EventsIn

(* One more record carries one more event.                                 *)
LEMMA EventsGrow ==
    ASSUME NEW E, NEW R, Carry(R, E), NEW d \in Seq(R), NEW r \in R
    PROVE  EventsOf(Append(d, r)) = Append(EventsOf(d), r.event)
<1>1. PICK e \in E : e = r.event
  BY Zenon DEF Carry
<1>a. PICK x \in Seq(R) : x = Append(d, r) /\ Extended(d, r, x)
  BY AppendIs, Zenon
<1>2. Len(x) = Len(d) + 1 /\ x[Len(d) + 1] = r /\ \A i \in 1..Len(d) : x[i] = d[i]
  BY <1>a, Zenon DEF Extended
<1>b. PICK f \in Seq(E) : f = EventsOf(d) /\ EventsIn(d, f)
  BY EventsListed, Zenon
<1>3. Len(f) = Len(d) /\ \A i \in 1..Len(d) : f[i] = d[i].event
  BY <1>b, Zenon DEF EventsIn
<1>c. PICK g \in Seq(E) : g = EventsOf(x) /\ EventsIn(x, g)
  BY EventsListed, Zenon
<1>4. Len(g) = Len(x) /\ \A i \in 1..Len(x) : g[i] = x[i].event
  BY <1>c, Zenon DEF EventsIn
<1>d. PICK b \in Seq(E) : b = Append(f, e) /\ Extended(f, e, b)
  BY AppendIs, Zenon
<1>5. Len(b) = Len(f) + 1 /\ b[Len(f) + 1] = e /\ \A i \in 1..Len(f) : b[i] = f[i]
  BY <1>d, Zenon DEF Extended
<1>6. PICK m \in Nat : m = Len(d)
  BY SeqIs, Zenon
<1>7. \A i \in 1..(m + 1) : i \in 1..m \/ i = m + 1
  BY NextBound, Zenon
<1>8. ASSUME NEW i \in 1..(m + 1) PROVE g[i] = b[i]
  <2>0. i \in 1..Len(x)
    BY <1>2, <1>6, Zenon
  <2>1. CASE i \in 1..m
    <3>1. g[i] = x[i].event /\ x[i] = d[i]
      BY <1>2, <1>4, <1>6, <2>0, <2>1, Zenon
    <3>2. b[i] = f[i] /\ f[i] = d[i].event
      BY <1>3, <1>5, <1>6, <2>1, Zenon
    <3> QED BY <3>1, <3>2, Zenon
  <2>2. CASE i = m + 1
    <3>1. g[i] = x[i].event /\ x[i] = r
      BY <1>2, <1>4, <1>6, <2>0, <2>2, Zenon
    <3>2. b[i] = e
      BY <1>3, <1>5, <1>6, <2>2, Zenon
    <3> QED BY <1>1, <3>1, <3>2, Zenon
  <2> QED BY <1>7, <1>8, <2>1, <2>2, Zenon
<1>9. Len(g) = m + 1 /\ Len(b) = m + 1
  BY <1>2, <1>3, <1>4, <1>5, <1>6, Zenon
<1>10. g = b
  BY <1>8, <1>9, SameSequence, Zenon
<1> QED BY <1>1, <1>a, <1>b, <1>c, <1>d, <1>10, Zenon

(* The positions k in o are those of the events L, in order.               *)
Enumerates(k, o, L) ==
    /\ k \in Seq(Nat)
    /\ [i \in DOMAIN k |-> o[k[i]]] = L
    /\ \A i \in DOMAIN k : k[i] \in 1..Len(o)
    /\ \A i, j \in DOMAIN k : i < j => k[i] < k[j]

(* An event that is offered and dropped leaves the account of those kept.  *)
LEMMA OfferDropped ==
    ASSUME NEW E, NEW o \in Seq(E), NEW k, NEW L, Enumerates(k, o, L), NEW e \in E
    PROVE  Enumerates(k, Append(o, e), L)
  BY DEF Enumerates

(* An event that is offered and queued is the last in the account.         *)
LEMMA OfferQueued ==
    ASSUME NEW E, NEW o \in Seq(E), NEW k, NEW L \in Seq(E), Enumerates(k, o, L), NEW e \in E
    PROVE  Enumerates(Append(k, Len(o) + 1), Append(o, e), Append(L, e))
<1>1. /\ k \in Seq(Nat) /\ L = [i \in DOMAIN k |-> o[k[i]]]
      /\ \A i \in DOMAIN k : k[i] \in 1..Len(o)
      /\ \A i, j \in DOMAIN k : i < j => k[i] < k[j]
  BY Zenon DEF Enumerates
<1>2. PICK n \in Nat : n = Len(o)
  BY SeqIs, Zenon
<1>3. PICK m \in Nat : m = Len(k) /\ DOMAIN k = 1..m
  BY <1>1, SeqIs, Zenon
<1>0. n + 1 \in Nat /\ n + 1 \in 1..(n + 1) /\ \A i \in 1..n : i \in 1..(n + 1) /\ i < n + 1
  BY NextBound, Zenon
<1>a. PICK x \in Seq(Nat) : x = Append(k, n + 1) /\ Extended(k, n + 1, x)
  BY <1>0, <1>1, AppendIs, Zenon
<1>4. Len(x) = m + 1 /\ DOMAIN x = 1..(m + 1) /\ x[m + 1] = n + 1 /\ \A i \in 1..m : x[i] = k[i]
  BY <1>3, <1>a, Zenon DEF Extended
<1>b. PICK p \in Seq(E) : p = Append(o, e) /\ Extended(o, e, p)
  BY AppendIs, Zenon
<1>5. Len(p) = n + 1 /\ p[n + 1] = e /\ \A i \in 1..n : p[i] = o[i]
  BY <1>2, <1>b, Zenon DEF Extended
<1>6. Len(L) = m /\ \A i \in 1..m : L[i] = o[k[i]]
  <2>1. DOMAIN L = 1..m /\ \A i \in 1..m : L[i] = o[k[i]]
    BY <1>1, <1>3, Zenon
  <2> QED BY <2>1
<1>c. PICK b \in Seq(E) : b = Append(L, e) /\ Extended(L, e, b)
  BY AppendIs, Zenon
<1>7. Len(b) = m + 1 /\ b[m + 1] = e /\ \A i \in 1..m : b[i] = L[i]
  BY <1>6, <1>c, Zenon DEF Extended
<1>8. \A i \in 1..m : k[i] \in 1..n
  BY <1>1, <1>2, <1>3, Zenon
<1>9. \A i \in 1..(m + 1) : x[i] \in 1..(n + 1)
  <2>1. ASSUME NEW i \in 1..(m + 1) PROVE x[i] \in 1..(n + 1)
    <3>1. i \in 1..m \/ i = m + 1
      BY NextBound, Zenon
    <3> QED BY <1>0, <1>4, <1>8, <3>1, Zenon
  <2> QED BY <2>1, Zenon
<1>10. \A i \in 1..(m + 1) : p[x[i]] = b[i]
  <2>1. ASSUME NEW i \in 1..m PROVE p[x[i]] = b[i]
    <3>1. x[i] = k[i] /\ k[i] \in 1..n
      BY <1>4, <1>8, Zenon
    <3>2. p[k[i]] = o[k[i]]
      BY <1>5, <3>1, Zenon
    <3>3. b[i] = L[i] /\ L[i] = o[k[i]]
      BY <1>6, <1>7, Zenon
    <3> QED BY <3>1, <3>2, <3>3, Zenon
  <2>2. p[x[m + 1]] = b[m + 1]
    BY <1>4, <1>5, <1>7, Zenon
  <2>3. \A i \in 1..(m + 1) : i \in 1..m \/ i = m + 1
    BY NextBound, Zenon
  <2> QED BY <2>1, <2>2, <2>3, Zenon
<1>11. PICK f : f = [i \in DOMAIN x |-> p[x[i]]]
  BY Zenon
<1>12. f = [i \in 1..(m + 1) |-> f[i]] /\ \A i \in 1..(m + 1) : f[i] = b[i] /\ f[i] \in E
  <2>1. \A i \in 1..(m + 1) : f[i] = b[i]
    BY <1>4, <1>10, <1>11, Zenon
  <2>2. \A i \in 1..(m + 1) : b[i] \in E
    BY <1>7, SeqIs, Zenon
  <2>3. f = [i \in 1..(m + 1) |-> f[i]]
    BY <1>4, <1>11
  <2> QED BY <2>1, <2>2, <2>3, Zenon
<1>13. m + 1 \in Nat
  BY NextBound, Zenon
<1>14. f \in Seq(E) /\ Len(f) = m + 1
  BY <1>12, <1>13, Listed, Zenon
<1>15. f = b
  BY <1>7, <1>12, <1>14, SameSequence, Zenon
<1>16. \A i, j \in 1..(m + 1) : i < j => x[i] < x[j]
  <2>1. \A i, j \in 1..m : i < j => x[i] < x[j]
    BY <1>1, <1>3, <1>4, Zenon
  <2>2. \A i \in 1..m : x[i] < x[m + 1]
    BY <1>0, <1>4, <1>8, Zenon
  <2>3. \A i, j \in 1..(m + 1) : i < j => i \in 1..m /\ (j \in 1..m \/ j = m + 1)
    BY NextBound, Zenon
  <2> QED BY <2>1, <2>2, <2>3, Zenon
<1>17. Enumerates(x, p, b)
  BY <1>4, <1>5, <1>9, <1>11, <1>15, <1>16, Zenon DEF Enumerates
<1> QED BY <1>2, <1>a, <1>b, <1>c, <1>17, Zenon

-----------------------------------------------------------------------------
(* One sink.                                                               *)
Kinds == {"circuit.tripped", "anomaly.velocity", "arbiter.decision"}

Attesters == {Attester(q) : q \in Requests} \union {""}

Events == [type : Kinds, run : Session \union {NoSession}, attester : Attesters, attestable : BOOLEAN]

Endings == {"delivered", "given up", "skipped"}

DoneWith == [event : Events, how : Endings]

Busy == [busy : {TRUE}, event : Events, attempt : 0..Retries]

Backlog(q, w, d) == EventsOf(d) \o (IF w.busy THEN <<w.event>> ELSE <<>>) \o q

(* A sink's queue q, its worker w, what is done with d, and what it was    *)
(* offered o and kept k.                                                   *)
SinkInv(q, w, d, o, k) ==
    /\ q \in Seq(Events) /\ o \in Seq(Events) /\ d \in Seq(DoneWith) /\ w \in Busy \union {Free}
    /\ Enumerates(k, o, Backlog(q, w, d))
    /\ Len(q) <= QueueSize

(* The fields of a worker.                                                 *)
LEMMA BusyFields ==
    ASSUME NEW w \in Busy \union {Free}
    PROVE  /\ w.busy => w.event \in Events /\ w.attempt \in 0..Retries
                        /\ w = [busy |-> TRUE, event |-> w.event, attempt |-> w.attempt]
           /\ ~w.busy => w = Free
           /\ ~Free.busy
<1>1. ~Free.busy
  BY DEF Free
<1>2. CASE w \in Busy
  BY <1>1, <1>2, Zenon DEF Busy
<1>3. CASE w = Free
  BY <1>1, <1>3, Zenon
<1> QED BY <1>2, <1>3, Zenon

(* Outcomes carry events.                                                  *)
LEMMA DoneCarry == Carry(DoneWith, Events)
  BY DEF Carry, DoneWith

(* The events done with form a sequence.                                   *)
LEMMA EventsDone ==
    ASSUME NEW d \in Seq(DoneWith)
    PROVE  EventsOf(d) \in Seq(Events)
  BY DoneCarry, EventsListed, Zenon

(* So does what the worker has in hand.                                    *)
LEMMA InHandListed ==
    ASSUME NEW w \in Busy \union {Free}
    PROVE  (IF w.busy THEN <<w.event>> ELSE <<>>) \in Seq(Events)
<1>1. w.busy => w.event \in Events
  BY BusyFields, Zenon
<1>2. \A e \in Events : <<e>> \in Seq(Events)
  OBVIOUS
<1>3. <<>> \in Seq(Events)
  OBVIOUS
<1> QED BY <1>1, <1>2, <1>3, Zenon

(* Two sequences joined are a sequence.                                    *)
LEMMA Joined ==
    ASSUME NEW E, NEW a \in Seq(E), NEW b \in Seq(E)
    PROVE  a \o b \in Seq(E)
  OBVIOUS

(* So is all a sink has taken: done with, in hand and queued.              *)
LEMMA BacklogListed ==
    ASSUME NEW q \in Seq(Events), NEW d \in Seq(DoneWith), NEW w \in Busy \union {Free}
    PROVE  /\ EventsOf(d) \o (IF w.busy THEN <<w.event>> ELSE <<>>) \in Seq(Events)
           /\ Backlog(q, w, d) \in Seq(Events)
<1>1. EventsOf(d) \o (IF w.busy THEN <<w.event>> ELSE <<>>) \in Seq(Events)
  BY EventsDone, InHandListed, Joined, Zenon
<1> QED BY <1>1, Joined, Zenon DEF Backlog

(* A full queue drops the event.                                           *)
LEMMA SinkDrops ==
    ASSUME NEW q, NEW w, NEW d, NEW o, NEW k, SinkInv(q, w, d, o, k), NEW e \in Events
    PROVE  SinkInv(q, w, d, Append(o, e), k)
<1>1. Append(o, e) \in Seq(Events)
  BY AppendIs, Zenon DEF SinkInv
<1>2. Enumerates(k, Append(o, e), Backlog(q, w, d))
  BY OfferDropped, Zenon DEF SinkInv
<1> QED BY <1>1, <1>2, Zenon DEF SinkInv

(* A queue with room takes it.                                             *)
LEMMA SinkQueues ==
    ASSUME NEW q, NEW w, NEW d, NEW o, NEW k, SinkInv(q, w, d, o, k), NEW e \in Events, Len(q) < QueueSize
    PROVE  SinkInv(Append(q, e), w, d, Append(o, e), Append(k, Len(o) + 1))
<1>1. /\ q \in Seq(Events) /\ o \in Seq(Events) /\ d \in Seq(DoneWith) /\ w \in Busy \union {Free}
      /\ Enumerates(k, o, Backlog(q, w, d))
  BY Zenon DEF SinkInv
<1>2. Append(o, e) \in Seq(Events) /\ Append(q, e) \in Seq(Events) /\ Extended(q, e, Append(q, e))
  BY <1>1, AppendIs, Zenon
<1>3. Enumerates(Append(k, Len(o) + 1), Append(o, e), Append(Backlog(q, w, d), e))
  BY <1>1, OfferQueued, BacklogListed, Zenon
<1>4. Append(Backlog(q, w, d), e) = Backlog(Append(q, e), w, d)
  <2>1. PICK a \in Seq(Events) : a = EventsOf(d) \o (IF w.busy THEN <<w.event>> ELSE <<>>)
    BY <1>1, BacklogListed, Zenon
  <2>2. a \o Append(q, e) = Append(a \o q, e)
    <3>1. q \in Seq(Events)
      BY <1>1, Zenon
    <3> QED BY <3>1, JoinLater
  <2> QED BY <2>1, <2>2, Zenon DEF Backlog
<1>5. Len(Append(q, e)) <= QueueSize
  <2>1. PICK n \in Nat : n = Len(q)
    BY <1>1, SeqIs, Zenon
  <2>2. QueueSize \in Nat
    BY SignalsAssumption
  <2>3. n < QueueSize /\ Len(Append(q, e)) = n + 1
    BY <1>2, <2>1, Zenon DEF Extended
  <2> QED BY <2>2, <2>3
<1> QED BY <1>1, <1>2, <1>3, <1>4, <1>5, Zenon DEF SinkInv

(* The worker takes the head of the queue.                                 *)
LEMMA SinkTakes ==
    ASSUME NEW q, NEW w, NEW d, NEW o, NEW k, SinkInv(q, w, d, o, k), ~w.busy, q # <<>>
    PROVE  SinkInv(Tail(q), [busy |-> TRUE, event |-> Head(q), attempt |-> 0], d, o, k)
<1>1. /\ q \in Seq(Events) /\ o \in Seq(Events) /\ d \in Seq(DoneWith) /\ w \in Busy \union {Free}
      /\ Enumerates(k, o, Backlog(q, w, d)) /\ Len(q) <= QueueSize
  BY Zenon DEF SinkInv
<1>2. PICK a \in Seq(Events) : a = EventsOf(d)
  BY <1>1, EventsDone, Zenon
<1>3. /\ (a \o <<>>) \o q = (a \o <<Head(q)>>) \o Tail(q)
      /\ Head(q) \in Events /\ Tail(q) \in Seq(Events) /\ Len(Tail(q)) <= Len(q)
  BY <1>1, TakeHead, Zenon
<1>4. PICK e \in Events : e = Head(q)
  BY <1>3, Zenon
<1>5. PICK u : u = [busy |-> TRUE, event |-> e, attempt |-> 0]
  BY Zenon
<1>6. u.busy /\ u.event = e /\ u \in Busy
  <2>1. 0 \in 0..Retries
    BY SignalsAssumption
  <2> QED BY <1>5, <2>1, Zenon DEF Busy
<1>7. Backlog(q, w, d) = Backlog(Tail(q), u, d)
  BY <1>2, <1>3, <1>4, <1>6, Zenon DEF Backlog
<1>8. Len(Tail(q)) <= QueueSize
  BY <1>1, <1>3, SignalsAssumption
<1>9. SinkInv(Tail(q), u, d, o, k)
  BY <1>1, <1>3, <1>6, <1>7, <1>8, Zenon DEF SinkInv
<1> QED BY <1>4, <1>5, <1>9, Zenon

(* The worker is done with an event, however it ended.                     *)
LEMMA SinkDone ==
    ASSUME NEW q, NEW w, NEW d, NEW o, NEW k, SinkInv(q, w, d, o, k), w.busy, NEW how \in Endings
    PROVE  SinkInv(q, Free, Append(d, [event |-> w.event, how |-> how]), o, k)
<1>1. /\ q \in Seq(Events) /\ o \in Seq(Events) /\ d \in Seq(DoneWith) /\ w \in Busy \union {Free}
      /\ Enumerates(k, o, Backlog(q, w, d)) /\ Len(q) <= QueueSize
  BY Zenon DEF SinkInv
<1>2. PICK e \in Events : e = w.event
  BY <1>1, BusyFields, Zenon
<1>3. PICK r \in DoneWith : r = [event |-> e, how |-> how] /\ r.event = e
  <2>1. [event |-> e, how |-> how] \in DoneWith /\ [event |-> e, how |-> how].event = e
    BY DEF DoneWith
  <2> QED BY <2>1, Zenon
<1>4. PICK x \in Seq(DoneWith) : x = Append(d, r)
  BY <1>1, AppendIs, Zenon
<1>5. EventsOf(x) = Append(EventsOf(d), e)
  <2>1. d \in Seq(DoneWith)
    BY <1>1, Zenon
  <2>2. EventsOf(Append(d, r)) = Append(EventsOf(d), r.event)
    BY <2>1, DoneCarry, EventsGrow, Zenon
  <2> QED BY <1>3, <1>4, <2>2, Zenon
<1>6. PICK a \in Seq(Events) : a = EventsOf(d)
  BY <1>1, EventsDone, Zenon
<1>7. (a \o <<e>>) \o q = (Append(a, e) \o <<>>) \o q
  BY <1>1, PutDown, Zenon
<1>8. ~Free.busy
  BY <1>1, BusyFields, Zenon
<1>9. Backlog(q, w, d) = Backlog(q, Free, x)
  BY <1>2, <1>5, <1>6, <1>7, <1>8, Zenon DEF Backlog
<1>10. SinkInv(q, Free, x, o, k)
  BY <1>1, <1>4, <1>9, Zenon DEF SinkInv
<1> QED BY <1>2, <1>3, <1>4, <1>10, Zenon

(* The worker tries again.                                                 *)
LEMMA SinkRetries ==
    ASSUME NEW q, NEW w, NEW d, NEW o, NEW k, SinkInv(q, w, d, o, k), w.busy, w.attempt # Retries
    PROVE  SinkInv(q, [w EXCEPT !.attempt = @ + 1], d, o, k)
<1>1. /\ q \in Seq(Events) /\ o \in Seq(Events) /\ d \in Seq(DoneWith) /\ w \in Busy \union {Free}
      /\ Enumerates(k, o, Backlog(q, w, d)) /\ Len(q) <= QueueSize
  BY Zenon DEF SinkInv
<1>2. PICK e \in Events, n \in 0..Retries : /\ w = [busy |-> TRUE, event |-> e, attempt |-> n]
                                             /\ w.event = e /\ w.attempt = n
  BY <1>1, BusyFields, Zenon
<1>3. PICK u : u = [w EXCEPT !.attempt = @ + 1]
  BY Zenon
<1>4. n + 1 \in 0..Retries
  BY <1>2, SignalsAssumption
<1>5. u = [busy |-> TRUE, event |-> e, attempt |-> n + 1]
  BY <1>2, <1>3
<1>6. u.busy /\ u.event = e /\ u \in Busy
  BY <1>4, <1>5, Zenon DEF Busy
<1>7. Backlog(q, w, d) = Backlog(q, u, d)
  BY <1>2, <1>6, Zenon DEF Backlog
<1>8. SinkInv(q, u, d, o, k)
  BY <1>1, <1>6, <1>7, Zenon DEF SinkInv
<1> QED BY <1>3, <1>8, Zenon

-----------------------------------------------------------------------------
(* All sinks.                                                              *)
Sinks(f) == f = [s \in Sink |-> f[s]]

SinksInv ==
    /\ Sinks(queue) /\ Sinks(worker) /\ Sinks(outcome) /\ Sinks(offered) /\ Sinks(kept)
    /\ \A s \in Sink : SinkInv(queue[s], worker[s], outcome[s], offered[s], kept[s])

(* Every sink is empty at the start.                                       *)
LEMMA SinksStart == SignalsInit => SinksInv
<1> SUFFICES ASSUME SignalsInit PROVE SinksInv
  BY Zenon
<1>1. SinkInv(<<>>, Free, <<>>, <<>>, <<>>)
  <2>1. <<>> \in Seq(Events) /\ <<>> \in Seq(DoneWith) /\ <<>> \in Seq(Nat) /\ DOMAIN <<>> = {} /\ Len(<<>>) = 0
    OBVIOUS
  <2>2. EventsOf(<<>>) = <<>>
    BY DEF EventsOf
  <2>3. ~Free.busy
    BY DEF Free
  <2>4. Backlog(<<>>, Free, <<>>) = <<>>
    <3>1. (<<>> \o <<>>) \o <<>> = <<>>
      OBVIOUS
    <3> QED BY <2>2, <2>3, <3>1, Zenon DEF Backlog
  <2>5. [i \in DOMAIN <<>> |-> <<>>[<<>>[i]]] = <<>>
    OBVIOUS
  <2>6. Enumerates(<<>>, <<>>, <<>>)
    BY <2>1, <2>5, Zenon DEF Enumerates
  <2>7. Len(<<>>) <= QueueSize
    BY <2>1, SignalsAssumption
  <2> QED BY <2>1, <2>4, <2>6, <2>7, Zenon DEF SinkInv
<1>2. /\ Sinks(queue) /\ Sinks(worker) /\ Sinks(outcome) /\ Sinks(offered) /\ Sinks(kept)
      /\ \A s \in Sink : queue[s] = <<>> /\ worker[s] = Free /\ outcome[s] = <<>> /\ offered[s] = <<>> /\ kept[s] = <<>>
  BY DEF SignalsInit, Sinks
<1> QED BY <1>1, <1>2, Zenon DEF SinksInv

(* Steps that are no business of the sinks.                                *)
LEMMA SinksRest ==
    ASSUME SinksInv, UNCHANGED signalVars
    PROVE  SinksInv'
  BY Zenon DEF SinksInv, signalVars, Sinks

(* An event is offered to every sink.                                      *)
LEMMA EmitKeeps ==
    ASSUME SinksInv, NEW e \in Events, Emit(e)
    PROVE  SinksInv'
<1>1. /\ Sinks(queue') /\ Sinks(offered') /\ Sinks(kept') /\ worker' = worker /\ outcome' = outcome
      /\ \A s \in Sink :
            /\ queue'[s] = IF e.type \in Selected /\ Len(queue[s]) < QueueSize THEN Append(queue[s], e) ELSE queue[s]
            /\ offered'[s] = IF e.type \in Selected THEN Append(offered[s], e) ELSE offered[s]
            /\ kept'[s] = IF e.type \in Selected /\ Len(queue[s]) < QueueSize
                          THEN Append(kept[s], Len(offered[s]) + 1) ELSE kept[s]
  BY DEF Emit, Sinks
<1>2. ASSUME NEW s \in Sink PROVE SinkInv(queue'[s], worker[s], outcome[s], offered'[s], kept'[s])
  <2>1. SinkInv(queue[s], worker[s], outcome[s], offered[s], kept[s])
    BY Zenon DEF SinksInv
  <2>2. CASE e.type \notin Selected
    BY <1>1, <2>1, <2>2, Zenon
  <2>3. CASE e.type \in Selected /\ Len(queue[s]) < QueueSize
    <3>1. SinkInv(Append(queue[s], e), worker[s], outcome[s], Append(offered[s], e),
                  Append(kept[s], Len(offered[s]) + 1))
      BY <2>1, <2>3, SinkQueues, Zenon
    <3> QED BY <1>1, <2>3, <3>1, Zenon
  <2>4. CASE e.type \in Selected /\ ~(Len(queue[s]) < QueueSize)
    <3>1. SinkInv(queue[s], worker[s], outcome[s], Append(offered[s], e), kept[s])
      BY <2>1, SinkDrops, Zenon
    <3> QED BY <1>1, <2>4, <3>1, Zenon
  <2> QED BY <2>2, <2>3, <2>4, Zenon
<1>3. Sinks(worker) /\ Sinks(outcome)
  BY Zenon DEF SinksInv
<1> QED BY <1>1, <1>2, <1>3, Zenon DEF SinksInv, Sinks

(* g is f with e at s.                                                     *)
Resets(f, s, e, g) == Sinks(g) /\ g[s] = e /\ \A t \in Sink : t # s => g[t] = f[t]

(* One sink moves.                                                         *)
LEMMA SinkSet ==
    ASSUME NEW f, Sinks(f), NEW s \in Sink, NEW e
    PROVE  Resets(f, s, e, [f EXCEPT ![s] = e])
  BY DEF Sinks, Resets

(* A worker's step.                                                        *)
LEMMA WorkerKeeps ==
    ASSUME SinksInv, NEW s \in Sink, WorkerStep(s)
    PROVE  SinksInv'
<1>1. /\ Sinks(queue) /\ Sinks(worker) /\ Sinks(outcome) /\ Sinks(offered) /\ Sinks(kept)
      /\ SinkInv(queue[s], worker[s], outcome[s], offered[s], kept[s])
      /\ \A t \in Sink : SinkInv(queue[t], worker[t], outcome[t], offered[t], kept[t])
  BY Zenon DEF SinksInv
<1>2. CASE NextSignal(s)
  <2>1. PICK u : u = [busy |-> TRUE, event |-> Head(queue[s]), attempt |-> 0]
    BY Zenon
  <2>2. /\ ~worker[s].busy /\ queue[s] # <<>> /\ worker' = [worker EXCEPT ![s] = u]
        /\ queue' = [queue EXCEPT ![s] = Tail(queue[s])]
        /\ outcome' = outcome /\ offered' = offered /\ kept' = kept
    BY <1>2, <2>1, Zenon DEF NextSignal
  <2>3. Resets(worker, s, u, worker')
    BY <1>1, <2>2, SinkSet, Zenon
  <2>4. Resets(queue, s, Tail(queue[s]), queue')
    BY <1>1, <2>2, SinkSet, Zenon
  <2>5. SinkInv(Tail(queue[s]), u, outcome[s], offered[s], kept[s])
    BY <1>1, <2>1, <2>2, SinkTakes, Zenon
  <2>6. \A t \in Sink : SinkInv(queue'[t], worker'[t], outcome[t], offered[t], kept[t])
    BY <1>1, <2>3, <2>4, <2>5, Zenon DEF Resets
  <2> QED BY <1>1, <2>2, <2>3, <2>4, <2>6, Zenon DEF SinksInv, Sinks, Resets
<1>3. ASSUME NEW how \in Endings, worker[s].busy, Done(s, how), queue' = queue, offered' = offered, kept' = kept
      PROVE  SinksInv'
  <2>1. PICK x : x = Append(outcome[s], [event |-> worker[s].event, how |-> how])
    BY Zenon
  <2>2. worker' = [worker EXCEPT ![s] = Free] /\ outcome' = [outcome EXCEPT ![s] = x]
    BY <1>3, <2>1, Zenon DEF Done
  <2>3. Resets(worker, s, Free, worker')
    BY <1>1, <2>2, SinkSet, Zenon
  <2>4. Resets(outcome, s, x, outcome')
    BY <1>1, <2>2, SinkSet, Zenon
  <2>5. SinkInv(queue[s], Free, x, offered[s], kept[s])
    BY <1>1, <1>3, <2>1, SinkDone, Zenon
  <2>6. \A t \in Sink : SinkInv(queue[t], worker'[t], outcome'[t], offered[t], kept[t])
    BY <1>1, <2>3, <2>4, <2>5, Zenon DEF Resets
  <2> QED BY <1>1, <1>3, <2>3, <2>4, <2>6, Zenon DEF SinksInv, Sinks, Resets
<1>4. CASE Deliver(s)
  <2>1. worker[s].busy /\ queue' = queue /\ offered' = offered /\ kept' = kept
    BY <1>4, Zenon DEF Deliver
  <2>2. \/ \E how \in Endings : Done(s, how)
        \/ /\ worker[s].attempt # Retries /\ outcome' = outcome
           /\ worker' = [worker EXCEPT ![s].attempt = @ + 1]
    BY <1>4, Zenon DEF Deliver, Fails, Endings
  <2>3. CASE \E how \in Endings : Done(s, how)
    BY <1>3, <2>1, <2>3, Zenon
  <2>4. CASE /\ worker[s].attempt # Retries /\ outcome' = outcome
             /\ worker' = [worker EXCEPT ![s].attempt = @ + 1]
    <3>1. PICK u : u = [worker[s] EXCEPT !.attempt = @ + 1]
      BY Zenon
    <3>2. worker' = [worker EXCEPT ![s] = u]
      BY <2>4, <3>1, Zenon
    <3>3. Resets(worker, s, u, worker')
      BY <1>1, <3>2, SinkSet, Zenon
    <3>4. SinkInv(queue[s], u, outcome[s], offered[s], kept[s])
      BY <1>1, <2>1, <2>4, <3>1, SinkRetries, Zenon
    <3>5. \A t \in Sink : SinkInv(queue[t], worker'[t], outcome[t], offered[t], kept[t])
      BY <1>1, <3>3, <3>4, Zenon DEF Resets
    <3> QED BY <1>1, <2>1, <2>4, <3>3, <3>5, Zenon DEF SinksInv, Sinks, Resets
  <2> QED BY <2>2, <2>3, <2>4, Zenon
<1> QED BY <1>2, <1>4, Zenon DEF WorkerStep

(* The invariant accounts for every event.                                 *)
LEMMA SinksAccounted ==
    ASSUME SinksInv
    PROVE  SignalsAccounted
<1> SUFFICES ASSUME NEW s \in Sink
             PROVE  /\ [i \in DOMAIN kept[s] |-> offered[s][kept[s][i]]]
                         = EventsOf(outcome[s])
                           \o (IF worker[s].busy THEN <<worker[s].event>> ELSE <<>>) \o queue[s]
                    /\ \A i, j \in DOMAIN kept[s] : i < j => kept[s][i] < kept[s][j]
                    /\ worker[s].attempt <= Retries
                    /\ Len(queue[s]) <= QueueSize
  BY Zenon DEF SignalsAccounted
<1>1. SinkInv(queue[s], worker[s], outcome[s], offered[s], kept[s])
  BY Zenon DEF SinksInv
<1>2. /\ [i \in DOMAIN kept[s] |-> offered[s][kept[s][i]]]
           = EventsOf(outcome[s]) \o (IF worker[s].busy THEN <<worker[s].event>> ELSE <<>>) \o queue[s]
      /\ \A i, j \in DOMAIN kept[s] : i < j => kept[s][i] < kept[s][j]
  BY <1>1, Zenon DEF SinkInv, Enumerates, Backlog
<1>3. worker[s] \in Busy \union {Free} /\ Len(queue[s]) <= QueueSize
  BY <1>1, Zenon DEF SinkInv
<1>4. worker[s].attempt <= Retries
  <2>1. Free.attempt = 0
    BY DEF Free
  <2>2. worker[s].attempt \in 0..Retries \/ worker[s].attempt = 0
    BY <1>3, <2>1, BusyFields, Zenon
  <2> QED BY <2>2, SignalsAssumption
<1> QED BY <1>2, <1>3, <1>4, Zenon

-----------------------------------------------------------------------------
(* The signals of the service.                                             *)

(* What each step does to the signals and to the breaker's marks.          *)
Quiet == UNCHANGED signalVars /\ sessions' = sessions /\ trips' = trips /\ now' \in {now, now + 1}

(* The steps that send a signal or touch the breaker's marks, told from    *)
(* all others.                                                             *)
LEMMA StepKinds ==
    ASSUME [Next]_vars
    PROVE  \/ Quiet
           \/ \E s \in Sink : WorkerStep(s) /\ sessions' = sessions /\ trips' = trips /\ now' = now
           \/ \E c \in Caller : TripRun(c)
           \/ \E c \in Caller : Charge(c)
           \/ \E c \in Caller : Answer(c)
           \/ SweepSessions /\ UNCHANGED signalVars
<1>1. \A c \in Caller : Check(c) => Quiet
  BY Zenon DEF Check, Quiet, gatesVars
<1>2. \A c \in Caller : VerifyStep(c) /\ UNCHANGED <<gatesVars, signalVars, check, script>> => Quiet
  BY Zenon DEF Quiet, gatesVars
<1>3. \A c \in Caller : VerifyRun(c) \/ Return(c) => Quiet
  BY Zenon DEF VerifyRun, Return, Quiet, gatesVars
<1>4. \A c \in Caller : AdmitCall(c) => Quiet
  BY Zenon DEF AdmitCall, Admit, Quiet
<1>5. \A c \in Caller : EvaluatePolicy(c) => Quiet
  BY Zenon DEF EvaluatePolicy, Quiet
<1>6. UNCHANGED vars => Quiet
  BY Zenon DEF vars, Quiet, gatesVars
<1>7. Deliveries => \E s \in Sink : WorkerStep(s) /\ sessions' = sessions /\ trips' = trips /\ now' = now
  BY Zenon DEF Deliveries, gatesVars
<1>8. Environment => Quiet \/ (SweepSessions /\ UNCHANGED signalVars)
  BY Zenon DEF Environment, Quiet, Clock, Tick, gatesVars
<1> QED BY <1>1, <1>2, <1>3, <1>4, <1>5, <1>6, <1>7, <1>8, Zenon DEF Next, CheckStep

(* The records Event builds are events.                                    *)
LEMMA SentIsEvent ==
    ASSUME NEW t \in Kinds, NEW r \in Session \union {NoSession}, NEW a \in Attesters, NEW b \in BOOLEAN
    PROVE  [type |-> t, run |-> r, attester |-> a, attestable |-> b] \in Events
  BY Zenon DEF Events

(* What Event builds for a check under way.                                *)
LEMMA EventOf ==
    ASSUME PipelineInv, NEW c \in Caller, check[c].pc # "idle", NEW t \in Kinds, NEW a \in Attesters
    PROVE  Event(c, t, a) \in Events /\ Event(c, t, a).type = t /\ Event(c, t, a).run = check[c].run
<1>1. check[c].run \in Session \union {NoSession}
  BY Known, Zenon DEF CheckInv
<1>2. PICK b \in BOOLEAN : b = (check[c].req.http /\ RawPrincipal(check[c].req) \in Spiffe)
  BY Zenon
<1>3. PICK e : e = Event(c, t, a)
  BY Zenon
<1>4. e = [type |-> t, run |-> check[c].run, attester |-> a, attestable |-> b]
  BY <1>2, <1>3, Zenon DEF Event
<1>5. [type |-> t, run |-> check[c].run, attester |-> a, attestable |-> b] \in Events
  BY <1>1, SentIsEvent, Zenon
<1>6. e.type = t /\ e.run = check[c].run
  BY <1>4, Zenon
<1> QED BY <1>3, <1>4, <1>5, <1>6, Zenon

(* The same without a run.                                                 *)
LEMMA RunlessEvent ==
    ASSUME PipelineInv, NEW c \in Caller, check[c].pc # "idle", NEW t \in Kinds, NEW a \in Attesters
    PROVE  /\ [Event(c, t, a) EXCEPT !.run = NoSession] \in Events
           /\ [Event(c, t, a) EXCEPT !.run = NoSession].type = t
<1>1. PICK b \in BOOLEAN : b = (check[c].req.http /\ RawPrincipal(check[c].req) \in Spiffe)
  BY Zenon
<1>2. PICK e : e = Event(c, t, a)
  BY Zenon
<1>3. e = [type |-> t, run |-> check[c].run, attester |-> a, attestable |-> b]
  BY <1>1, <1>2, Zenon DEF Event
<1>4. [e EXCEPT !.run = NoSession] = [type |-> t, run |-> NoSession, attester |-> a, attestable |-> b]
  BY <1>3
<1>5. [type |-> t, run |-> NoSession, attester |-> a, attestable |-> b] \in Events
  BY SentIsEvent, Zenon
<1>6. [e EXCEPT !.run = NoSession].type = t
  BY <1>4
<1> QED BY <1>2, <1>4, <1>5, <1>6, Zenon

(* Who sends a signal is serving a request.                                *)
LEMMA SentBy ==
    ASSUME PipelineInv, NEW c \in Caller, caller[c].pc # "idle" \/ check[c].pc \in {"answer", "gates"}
    PROVE  check[c].pc # "idle" /\ Attester(check[c].req) \in Attesters /\ "" \in Attesters
<1>1. CheckInv(check[c], caller[c], verify[c])
  BY Known, Zenon
<1>2. check[c].pc # "idle"
  BY <1>1, Zenon DEF CheckInv
<1>3. check[c].req \in Requests
  BY <1>1, <1>2, Zenon DEF CheckInv
<1> QED BY <1>2, <1>3, Zenon DEF Attesters

-----------------------------------------------------------------------------
(* The breaker's marks.                                                    *)

(* What separates two entries of one run: the sweep drops an entry only    *)
(* when it is older than twice maxDuration (breaker.go:96-106).            *)
Span == 2 * MaxDuration + 1

(* n trips of a run with entry u at time t: one of u if it is marked, and  *)
(* the others of entries that each lived for Span before u started.        *)
Marked(u, n, t) ==
    /\ u.tripped => u.known /\ n > 0
    /\ u.known /\ u.tripped => (n - 1) * Span <= u.started /\ u.started <= t
    /\ u.known /\ ~u.tripped => n * Span <= u.started /\ u.started <= t
    /\ ~u.known => n * Span <= t
    /\ MaxDuration = 0 /\ n # 0 => n = 1 /\ u.tripped

MarksInv == \A r \in Session : Marked(sessions[r], trips[r], now)

(* The product of a successor.                                             *)
LEMMA OneMore == \A a, w \in Int : (a + 1) * w = a * w + w
  OBVIOUS

(* An entry that is swept lived for a tick at least.                       *)
LEMMA SpanType == Span \in Nat /\ Span >= 1 /\ Span = 2 * MaxDuration + 1
  BY BreakerAssumption DEF Span

(* A run without an entry has no trip to show.                             *)
LEMMA MarkUnknown ==
    ASSUME NEW t \in Nat
    PROVE  Marked(Unknown, 0, t)
  BY SpanType DEF Marked, Unknown

(* The clock moves on.                                                     *)
LEMMA MarkLater ==
    ASSUME NEW u \in SessionState, NEW n \in Nat, NEW t \in Nat, Marked(u, n, t)
    PROVE  Marked(u, n, t + 1)
<1>1. PICK m \in Int : m = n * Span
  BY SpanType
<1>2. u.started \in Nat
  BY DEF SessionState
<1> QED BY <1>1, <1>2, SpanType DEF Marked

(* The first trip is marked and counted.                                   *)
LEMMA MarkTripped ==
    ASSUME NEW u \in SessionState, NEW n \in Nat, NEW t, Marked(u, n, t), u.known, ~u.tripped
    PROVE  Marked([u EXCEPT !.tripped = TRUE], n + 1, t)
<1>1. (n + 1) - 1 = n /\ n + 1 > 0 /\ (n = 0 => n + 1 = 1)
  OBVIOUS
<1>2. n * Span <= u.started /\ u.started <= t /\ (MaxDuration = 0 => n = 0)
  BY Zenon DEF Marked
<1>3. PICK v : v = [u EXCEPT !.tripped = TRUE]
  BY Zenon
<1>4. v.known /\ v.tripped /\ v.started = u.started
  BY <1>3 DEF SessionState
<1>5. Marked(v, n + 1, t)
  BY <1>1, <1>2, <1>4, Zenon DEF Marked
<1> QED BY <1>3, <1>5, Zenon

(* A call that is recorded leaves the mark.                                *)
LEMMA MarkCharged ==
    ASSUME NEW u \in SessionState, NEW n, NEW t, Marked(u, n, t)
    PROVE  Marked([u EXCEPT !.calls = @ + 1], n, t)
<1>1. PICK v : v = [u EXCEPT !.calls = @ + 1]
  BY Zenon
<1>2. v.known = u.known /\ v.tripped = u.tripped /\ v.started = u.started
  BY <1>1 DEF SessionState
<1>3. Marked(v, n, t)
  BY <1>2, Zenon DEF Marked
<1> QED BY <1>1, <1>3, Zenon

(* A run whose entry begins is not tripped.                                *)
LEMMA MarkStarted ==
    ASSUME NEW u \in SessionState, NEW n, NEW t \in Nat, Marked(u, n, t), ~u.known
    PROVE  Marked([known |-> TRUE, calls |-> 1, started |-> t, tripped |-> FALSE], n, t)
<1>1. t <= t
  OBVIOUS
<1>2. PICK v : v = [known |-> TRUE, calls |-> 1, started |-> t, tripped |-> FALSE]
  BY Zenon
<1>3. v.known /\ ~v.tripped /\ v.started = t
  BY <1>2
<1>4. n * Span <= t /\ (MaxDuration = 0 => n = 0)
  BY Zenon DEF Marked
<1>5. Marked(v, n, t)
  BY <1>1, <1>3, <1>4, Zenon DEF Marked
<1> QED BY <1>2, <1>5, Zenon

(* The sweep drops an entry that has had its span.                         *)
LEMMA MarkSwept ==
    ASSUME NEW u \in SessionState, NEW n \in Nat, NEW t \in Nat, Marked(u, n, t),
           u.known, MaxDuration > 0, t - u.started > 2 * MaxDuration
    PROVE  Marked(Unknown, n, t)
<1>1. u.started \in Nat /\ MaxDuration \in Nat
  BY BreakerAssumption DEF SessionState
<1>2. u.started + Span <= t
  BY <1>1, SpanType
<1>3. (n - 1) * Span \in Int /\ n * Span \in Int /\ n * Span = (n - 1) * Span + Span
  <2>1. n - 1 \in Int /\ n = (n - 1) + 1 /\ Span \in Int
    BY SpanType
  <2> QED BY <2>1, OneMore
<1>4. n * Span <= t
  <2>1. (n - 1) * Span <= u.started \/ n * Span <= u.started
    BY Zenon DEF Marked
  <2> QED BY <1>1, <1>2, <1>3, <2>1, SpanType
<1>5. Unknown.known = FALSE /\ Unknown.tripped = FALSE /\ MaxDuration # 0
  BY <1>1 DEF Unknown
<1> QED BY <1>4, <1>5, Zenon DEF Marked

(* What TripRun does: if the run was not tripped it is marked and the trip *)
(* is sent, and nothing otherwise.                                         *)
FirstOf(c, r) ==
    /\ Emit(Event(c, "circuit.tripped", Attester(check[c].req)))
    /\ sessions[r].known /\ ~sessions[r].tripped
    /\ sessions' = [sessions EXCEPT ![r].tripped = TRUE]
    /\ trips' = [trips EXCEPT ![r] = @ + 1]
    /\ now' = now

(* A trip is of a run of the breaker, and is sent the first time or not at *)
(* all.                                                                    *)
LEMMA TripKinds ==
    ASSUME PipelineInv, NEW c \in Caller, TripRun(c)
    PROVE  /\ caller[c].pc = "trip" /\ check[c].run \in Session
           /\ Quiet \/ FirstOf(c, check[c].run)
<1>1. CheckInv(check[c], caller[c], verify[c])
  BY Known, Zenon
<1>2. caller[c].pc = "trip"
  BY Zenon DEF TripRun, Trip
<1>3. /\ check[c].run \in Session \union {NoSession} /\ check[c].run # NoSession
      /\ caller[c].call.session = check[c].run
  <2>1. "trip" # "idle" /\ "trip" # "refused" /\ "gates" # "idle"
    OBVIOUS
  <2> QED BY <1>1, <1>2, <2>1, Zenon DEF CheckInv
<1>4. CASE IsFirstTrip(check[c].run)
  BY <1>2, <1>3, <1>4, Zenon DEF TripRun, Trip, FirstTrip, IsFirstTrip, FirstOf
<1>5. CASE ~IsFirstTrip(check[c].run)
  BY <1>2, <1>3, <1>5, Zenon DEF TripRun, Trip, FirstTrip, Quiet
<1> QED BY <1>2, <1>3, <1>4, <1>5, Zenon

(* Every step keeps marks, trips and the clock in agreement.               *)
LEMMA MarksStep ==
    ASSUME PipelineInv, MarksInv, [Next]_vars
    PROVE  MarksInv'
<1>1. sessions \in [Session -> SessionState] /\ trips \in [Session -> Nat] /\ now \in Nat
  BY Zenon DEF PipelineInv, CoreTypeOK, BreakerTypeOK
<1>2. ASSUME sessions' = sessions, trips' = trips, now' \in {now, now + 1} PROVE MarksInv'
  <2>1. ASSUME NEW r \in Session PROVE Marked(sessions[r], trips[r], now) /\ Marked(sessions[r], trips[r], now + 1)
    BY <1>1, MarkLater, Zenon DEF MarksInv
  <2> QED BY <1>2, <2>1, Zenon DEF MarksInv
<1>3. ASSUME NEW c \in Caller, NEW r \in Session, FirstOf(c, r) PROVE MarksInv'
  <2>1. Marked([sessions[r] EXCEPT !.tripped = TRUE], trips[r] + 1, now) /\ now' = now
    BY <1>1, <1>3, MarkTripped, Zenon DEF FirstOf, MarksInv
  <2>2. /\ sessions'[r] = [sessions[r] EXCEPT !.tripped = TRUE] /\ trips'[r] = trips[r] + 1
        /\ \A t \in Session \ {r} : sessions'[t] = sessions[t] /\ trips'[t] = trips[t]
    <3>1. sessions' = [sessions EXCEPT ![r].tripped = TRUE] /\ trips' = [trips EXCEPT ![r] = @ + 1]
      BY <1>3, Zenon DEF FirstOf
    <3> QED BY <1>1, <3>1
  <2> QED BY <2>1, <2>2, Zenon DEF MarksInv
<1>4. ASSUME NEW c \in Caller, Charge(c) PROVE MarksInv'
  <2>1. trips' = trips /\ now' = now /\ (sessions' = sessions \/ RecordCall(c))
    BY <1>4, Zenon DEF Charge, ChargeRates, ChargeBudget, ChargeVelocity, RecordCall
  <2>2. CASE sessions' = sessions
    BY <1>2, <2>1, <2>2, Zenon
  <2>3. CASE RecordCall(c)
    <3>1. PICK r : r = caller[c].call.session
      BY Zenon
    <3>2. sessions' = sessions \/ (r # NoSession /\ Record(r))
      BY <2>3, <3>1, Zenon DEF RecordCall, Record
    <3>3. ASSUME r # NoSession, Record(r) PROVE MarksInv'
      <4>1. r \in Session
        <5>1. CheckInv(check[c], caller[c], verify[c]) /\ caller[c].pc = "record"
          BY <2>3, Known, Zenon DEF RecordCall
        <5>2. "record" # "idle" /\ "record" # "refused" /\ "gates" # "idle"
          OBVIOUS
        <5> QED BY <3>1, <3>3, <5>1, <5>2, Zenon DEF CheckInv
      <4>2. PICK u : u = IF sessions[r].known THEN [sessions[r] EXCEPT !.calls = @ + 1]
                         ELSE [known |-> TRUE, calls |-> 1, started |-> now, tripped |-> FALSE]
        BY Zenon
      <4>3. Marked(u, trips[r], now)
        <5>1. sessions[r] \in SessionState /\ Marked(sessions[r], trips[r], now)
          BY <1>1, <4>1, Zenon DEF MarksInv
        <5>2. CASE sessions[r].known
          BY <4>2, <5>1, <5>2, MarkCharged, Zenon
        <5>3. CASE ~sessions[r].known
          BY <1>1, <4>2, <5>1, <5>3, MarkStarted, Zenon
        <5> QED BY <5>2, <5>3, Zenon
      <4>4. sessions' = [sessions EXCEPT ![r] = u]
        BY <3>3, <4>2, Zenon DEF Record
      <4>5. sessions'[r] = u /\ \A t \in Session \ {r} : sessions'[t] = sessions[t]
        BY <1>1, <4>1, <4>4, Zenon
      <4> QED BY <2>1, <4>3, <4>5, Zenon DEF MarksInv
    <3> QED BY <1>2, <2>1, <3>2, <3>3, Zenon
  <2> QED BY <2>1, <2>2, <2>3, Zenon
<1>5. ASSUME SweepSessions PROVE MarksInv'
  <2>1. /\ trips' = trips /\ now' = now
        /\ \A r \in Session : sessions'[r] = IF Stale(r) THEN Unknown ELSE sessions[r]
    BY <1>5, Zenon DEF SweepSessions, Sweep
  <2>2. ASSUME NEW r \in Session, Stale(r) PROVE Marked(Unknown, trips[r], now)
    BY <1>1, <2>2, MarkSwept, Zenon DEF MarksInv, Stale, Age
  <2> QED BY <2>1, <2>2, Zenon DEF MarksInv
<1>6. \A c \in Caller : Answer(c) => sessions' = sessions /\ trips' = trips /\ now' = now
  BY Zenon DEF Answer
<1> QED BY <1>2, <1>3, <1>4, <1>5, <1>6, StepKinds, TripKinds, Zenon DEF Quiet

(* No session is tripped at the start.                                     *)
LEMMA MarksStart == Init => MarksInv
<1> SUFFICES ASSUME Init PROVE MarksInv
  BY Zenon
<1>1. now = 0 /\ \A r \in Session : sessions[r] = Unknown /\ trips[r] = 0
  BY Zenon DEF Init, GatesInit, BreakerInit
<1>2. 0 \in Nat
  OBVIOUS
<1> QED BY <1>1, <1>2, MarkUnknown, Zenon DEF MarksInv

(* Every step of the service preserves the invariant of the sinks.         *)
LEMMA SinksStep ==
    ASSUME PipelineInv, SinksInv, [Next]_vars
    PROVE  SinksInv'
<1>1. Quiet \/ (SweepSessions /\ UNCHANGED signalVars) => SinksInv'
  BY SinksRest, Zenon DEF Quiet
<1>2. {"circuit.tripped", "anomaly.velocity", "arbiter.decision"} \subseteq Kinds
  BY DEF Kinds
<1>3. ASSUME NEW c \in Caller, TripRun(c) PROVE SinksInv'
  <2>1. caller[c].pc # "idle"
    BY <1>3, Zenon DEF TripRun, Trip
  <2> QED BY <1>1, <1>2, <1>3, <2>1, TripKinds, SentBy, EventOf, EmitKeeps, Zenon DEF FirstOf
<1>4. ASSUME NEW c \in Caller, Charge(c) PROVE SinksInv'
  <2>1. caller[c].pc # "idle"
    BY <1>4, Zenon DEF Charge, ChargeRates, ChargeBudget, RecordCall, ChargeVelocity
  <2>2. UNCHANGED signalVars \/ Emit([Event(c, "anomaly.velocity", "") EXCEPT !.run = NoSession])
    BY <1>4, Zenon DEF Charge
  <2> QED BY <1>2, <2>1, <2>2, SentBy, RunlessEvent, EmitKeeps, SinksRest, Zenon
<1>5. ASSUME NEW c \in Caller, Answer(c) PROVE SinksInv'
  <2>1. check[c].pc \in {"answer", "gates"} /\ Emit(Event(c, "arbiter.decision", Attester(check[c].req)))
    BY <1>5, Zenon DEF Answer
  <2> QED BY <1>2, <2>1, SentBy, EventOf, EmitKeeps, Zenon
<1> QED BY <1>1, <1>3, <1>4, <1>5, StepKinds, WorkerKeeps, Zenon

-----------------------------------------------------------------------------
(* The trips a sink was offered, counted.                                  *)
(* What is used of the cardinality of a set of positions.                  *)
PositionsCounted ==
    \A n \in Nat : \A S \in SUBSET (1..n) :
        /\ Cardinality(S) \in Nat
        /\ S = {} => Cardinality(S) = 0
        /\ \A x : x \notin S => Cardinality(S \union {x}) = Cardinality(S) + 1

IsTrip(e, r) == e.type = "circuit.tripped" /\ e.run = r

TripsOf(o, r) == {i \in DOMAIN o : IsTrip(o[i], r)}

(* A trip that is offered is one more of its run, and of no other.         *)
LEMMA TripsOfMore ==
    ASSUME PositionsCounted, NEW o \in Seq(Events), NEW e \in Events, NEW r
    PROVE  /\ Cardinality(TripsOf(o, r)) \in Nat
           /\ IsTrip(e, r) => Cardinality(TripsOf(Append(o, e), r)) = Cardinality(TripsOf(o, r)) + 1
           /\ ~IsTrip(e, r) => TripsOf(Append(o, e), r) = TripsOf(o, r)
<1>1. Len(o) \in Nat /\ DOMAIN o = 1..Len(o) /\ Extended(o, e, Append(o, e))
  BY SeqIs, AppendIs, Zenon
<1>2. PICK n \in Nat : n = Len(o)
  BY <1>1, Zenon
<1>3. 1..(n + 1) = (1..n) \union {n + 1} /\ n + 1 \notin 1..n
  BY <1>2
<1>4. PICK b : b = Append(o, e)
  BY Zenon
<1>5. /\ DOMAIN o = 1..n /\ DOMAIN b = (1..n) \union {n + 1} /\ b[n + 1] = e
      /\ \A i \in 1..n : b[i] = o[i]
  BY <1>1, <1>2, <1>3, <1>4, Zenon DEF Extended
<1>6. TripsOf(o, r) \subseteq 1..n
  BY <1>5, Zenon DEF TripsOf
<1>7. /\ n + 1 \notin TripsOf(o, r) /\ Cardinality(TripsOf(o, r)) \in Nat
      /\ Cardinality(TripsOf(o, r) \union {n + 1}) = Cardinality(TripsOf(o, r)) + 1
  <2>1. n + 1 \notin TripsOf(o, r) /\ TripsOf(o, r) \in SUBSET (1..n)
    BY <1>3, <1>6, Zenon
  <2> QED BY <2>1, Zenon DEF PositionsCounted
<1>8. /\ IsTrip(e, r) => TripsOf(b, r) = TripsOf(o, r) \union {n + 1}
      /\ ~IsTrip(e, r) => TripsOf(b, r) = TripsOf(o, r)
  <2>1. \A i : i \in TripsOf(b, r) <=> i \in TripsOf(o, r) \/ (i = n + 1 /\ IsTrip(e, r))
    <3>1. n + 1 \notin 1..n
      BY <1>3, Zenon
    <3> QED BY <1>5, <3>1, Zenon DEF TripsOf
  <2> QED BY <2>1, Zenon
<1> QED BY <1>4, <1>7, <1>8, Zenon

(* A sink was offered the n trips of run r.                                *)
Counted(o, r, n) == Cardinality(TripsOf(o, r)) = n

CountsInv ==
    "circuit.tripped" \in Selected =>
        \A s \in Sink, r \in Session : Counted(offered[s], r, trips[r])

(* A trip that is sent is counted on both sides.                           *)
LEMMA CountedMore ==
    ASSUME PositionsCounted, NEW o \in Seq(Events), NEW e \in Events, NEW r, NEW n \in Nat, Counted(o, r, n), IsTrip(e, r)
    PROVE  Counted(Append(o, e), r, n + 1)
<1>1. PICK m \in Nat : m = Cardinality(TripsOf(o, r)) /\ Cardinality(TripsOf(Append(o, e), r)) = m + 1
  BY TripsOfMore, Zenon
<1> QED BY <1>1 DEF Counted

(* Any other event is counted on neither.                                  *)
LEMMA CountedSame ==
    ASSUME PositionsCounted, NEW o \in Seq(Events), NEW e \in Events, NEW r, NEW n, Counted(o, r, n), ~IsTrip(e, r)
    PROVE  Counted(Append(o, e), r, n)
  BY TripsOfMore, Zenon DEF Counted

(* Nothing was offered at the start.                                       *)
LEMMA CountsStart == PositionsCounted /\ Init => CountsInv
<1> SUFFICES ASSUME PositionsCounted, Init, NEW s \in Sink, NEW r \in Session
             PROVE  Counted(offered[s], r, trips[r])
  BY Zenon DEF CountsInv
<1>1. offered[s] = <<>> /\ trips[r] = 0
  BY Zenon DEF Init, SignalsInit, GatesInit
<1>2. DOMAIN <<>> = {}
  OBVIOUS
<1>3. TripsOf(<<>>, r) = {}
  BY <1>2, Zenon DEF TripsOf
<1>4. Cardinality(TripsOf(<<>>, r)) = 0
  <2>1. 0 \in Nat /\ {} \in SUBSET (1..0)
    OBVIOUS
  <2> QED BY <1>3, <2>1, Zenon DEF PositionsCounted
<1> QED BY <1>1, <1>4 DEF Counted

(* An event that is no trip leaves the counts alone.                       *)
LEMMA OtherEvent ==
    ASSUME PositionsCounted, SinksInv, CountsInv, NEW e \in Events, Emit(e), e.type # "circuit.tripped", trips' = trips
    PROVE  CountsInv'
<1> SUFFICES ASSUME "circuit.tripped" \in Selected, NEW s \in Sink, NEW r \in Session
             PROVE  Counted(offered'[s], r, trips'[r])
  BY Zenon DEF CountsInv
<1>1. offered[s] \in Seq(Events) /\ Counted(offered[s], r, trips[r])
  BY Zenon DEF SinksInv, SinkInv, CountsInv
<1>2. offered'[s] = Append(offered[s], e) \/ offered'[s] = offered[s]
  BY Zenon DEF Emit
<1> QED BY <1>1, <1>2, CountedSame, Zenon DEF IsTrip

(* Every step keeps the signals offered in agreement with the trips.       *)
LEMMA CountsStep ==
    ASSUME PositionsCounted, PipelineInv, SinksInv, CountsInv, [Next]_vars
    PROVE  CountsInv'
<1>1. ASSUME offered' = offered, trips' = trips PROVE CountsInv'
  BY <1>1, Zenon DEF CountsInv
<1>2. Quiet => CountsInv'
  BY <1>1, Zenon DEF Quiet, signalVars
<1>3. \A s \in Sink : WorkerStep(s) /\ trips' = trips => CountsInv'
  BY <1>1, Zenon DEF WorkerStep, NextSignal, Deliver
<1>4. /\ {"circuit.tripped", "anomaly.velocity", "arbiter.decision"} \subseteq Kinds
      /\ "anomaly.velocity" # "circuit.tripped" /\ "arbiter.decision" # "circuit.tripped"
  BY DEF Kinds
<1>5. ASSUME NEW c \in Caller, TripRun(c) PROVE CountsInv'
  <2>1. PICK r \in Session : r = check[c].run /\ (Quiet \/ FirstOf(c, r)) /\ caller[c].pc = "trip"
    BY <1>5, TripKinds, Zenon
  <2>2. caller[c].pc # "idle"
    BY <2>1
  <2>3. PICK e \in Events : /\ e = Event(c, "circuit.tripped", Attester(check[c].req))
                            /\ e.type = "circuit.tripped" /\ e.run = r
    <3>1. check[c].pc # "idle" /\ Attester(check[c].req) \in Attesters /\ "circuit.tripped" \in Kinds
      BY <1>4, <2>2, SentBy, Zenon
    <3>2. PICK a \in Attesters, t \in Kinds : a = Attester(check[c].req) /\ t = "circuit.tripped"
      BY <3>1, Zenon
    <3>3. Event(c, t, a) \in Events /\ Event(c, t, a).type = t /\ Event(c, t, a).run = check[c].run
      BY <3>1, EventOf, Zenon
    <3> QED BY <2>1, <3>2, <3>3, Zenon
  <2>4. ASSUME FirstOf(c, r) PROVE CountsInv'
    <3> SUFFICES ASSUME "circuit.tripped" \in Selected, NEW s \in Sink, NEW t \in Session
                 PROVE  Counted(offered'[s], t, trips'[t])
      BY Zenon DEF CountsInv
    <3>1. offered[s] \in Seq(Events) /\ Counted(offered[s], t, trips[t])
      BY Zenon DEF SinksInv, SinkInv, CountsInv
    <3>2. offered'[s] = Append(offered[s], e)
      BY <2>3, <2>4, Zenon DEF FirstOf, Emit
    <3>3. trips \in [Session -> Nat]
      BY Zenon DEF PipelineInv, CoreTypeOK
    <3>4. CASE t = r
      <4>1. trips[t] \in Nat /\ trips'[t] = trips[t] + 1
        BY <2>4, <3>3, <3>4, Zenon DEF FirstOf
      <4> QED BY <2>3, <3>1, <3>2, <3>4, <4>1, CountedMore, Zenon DEF IsTrip
    <3>5. CASE t # r
      <4>1. trips'[t] = trips[t]
        BY <2>4, <3>3, <3>5, Zenon DEF FirstOf
      <4> QED BY <2>3, <3>1, <3>2, <3>5, <4>1, CountedSame, Zenon DEF IsTrip
    <3> QED BY <3>4, <3>5, Zenon
  <2> QED BY <1>2, <2>1, <2>4, Zenon
<1>6. ASSUME NEW c \in Caller, Charge(c) PROVE CountsInv'
  <2>1. caller[c].pc # "idle"
    BY <1>6 DEF Charge, ChargeRates, ChargeBudget, RecordCall, ChargeVelocity
  <2>2. trips' = trips
    BY <1>6, Zenon DEF Charge, ChargeRates, ChargeBudget, RecordCall, ChargeVelocity
  <2>3. UNCHANGED signalVars \/ Emit([Event(c, "anomaly.velocity", "") EXCEPT !.run = NoSession])
    BY <1>6, Zenon DEF Charge
  <2>4. CASE UNCHANGED signalVars
    BY <1>1, <2>2, <2>4, Zenon DEF signalVars
  <2> QED BY <1>4, <2>1, <2>2, <2>3, <2>4, SentBy, RunlessEvent, OtherEvent, Zenon
<1>7. ASSUME NEW c \in Caller, Answer(c) PROVE CountsInv'
  <2>1. /\ check[c].pc \in {"answer", "gates"} /\ trips' = trips
        /\ Emit(Event(c, "arbiter.decision", Attester(check[c].req)))
    BY <1>7, Zenon DEF Answer
  <2> QED BY <1>4, <2>1, SentBy, EventOf, OtherEvent, Zenon
<1>8. ASSUME SweepSessions, UNCHANGED signalVars PROVE CountsInv'
  BY <1>1, <1>8, Zenon DEF SweepSessions, signalVars
<1> QED BY <1>2, <1>3, <1>5, <1>6, <1>7, <1>8, StepKinds, Zenon

(* The invariants together give what is to be shown of signals.            *)
LEMMA TripsFollow == PipelineInv /\ SinksInv /\ MarksInv /\ CountsInv => TripsReported
<1> SUFFICES ASSUME PipelineInv, SinksInv, MarksInv, CountsInv PROVE TripsReported
  BY Zenon
<1>1. ASSUME NEW c \in Caller, caller[c].pc = "trip"
      PROVE  /\ check[c].run # NoSession
             /\ Attested(check[c].req) /\ check[c].req.token # NoToken
  <2>1. CheckInv(check[c], caller[c], verify[c])
    BY Known, Zenon
  <2>2. "trip" # "idle" /\ "gates" \in {"admit", "gates"}
    OBVIOUS
  <2>3. check[c].run # NoSession /\ RunOK(check[c])
    BY <1>1, <2>1, <2>2, Zenon DEF CheckInv
  <2> QED BY <2>3, Zenon DEF RunOK, Bound
<1>2. \A s \in Sink, r \in Session : "circuit.tripped" \in Selected =>
          LET signals == {i \in DOMAIN offered[s] :
                  offered[s][i].type = "circuit.tripped" /\ offered[s][i].run = r}
          IN  Cardinality(signals) = trips[r]
  BY Zenon DEF CountsInv, Counted, TripsOf, IsTrip
<1>3. TripsBounded
  <2> SUFFICES ASSUME NEW r \in Session
               PROVE  /\ sessions[r].tripped => trips[r] > 0
                      /\ trips[r] > 0 => (trips[r] - 1) * Span <= now
                      /\ MaxDuration = 0 => trips[r] <= 1
    BY Zenon DEF TripsBounded, Span
  <2>1. /\ Marked(sessions[r], trips[r], now) /\ trips[r] \in Nat /\ now \in Nat
        /\ sessions[r] \in SessionState
    BY Zenon DEF PipelineInv, MarksInv, CoreTypeOK, BreakerTypeOK
  <2>2. PICK n \in Nat, st \in Nat : n = trips[r] /\ st = sessions[r].started
    BY <2>1 DEF SessionState
  <2>3. PICK a, b \in Int : a = (n - 1) * Span /\ b = n * Span
    BY SpanType
  <2>4. a <= b
    <3>1. n - 1 \in Int /\ n = (n - 1) + 1 /\ Span \in Int
      BY SpanType
    <3>2. b = a + Span
      BY <2>3, <3>1, OneMore
    <3> QED BY <3>2, SpanType
  <2>5. \/ a <= st /\ st <= now
        \/ b <= st /\ st <= now
        \/ b <= now
    BY <2>1, <2>2, <2>3, Zenon DEF Marked
  <2>6. a <= now
    BY <2>1, <2>4, <2>5
  <2>7. /\ sessions[r].tripped => n > 0
        /\ MaxDuration = 0 => n = 0 \/ n = 1
    BY <2>1, <2>2, Zenon DEF Marked
  <2> QED BY <2>2, <2>3, <2>6, <2>7
<1> QED BY <1>1, <1>2, <1>3, SinksAccounted, Zenon DEF TripsReported

Fin == INSTANCE FiniteSetTheorems

(* The instance's notion of a finite set is the one of the specification.  *)
LEMMA SameFinite == \A S : IsFiniteSet(S) <=> Fin!IsFiniteSet(S)
  BY Zenon DEF IsFiniteSet, Fin!IsFiniteSet

(* So is its cardinality.                                                  *)
LEMMA SameCardinality == \A S : Cardinality(S) = Fin!Cardinality(S)
  BY Zenon DEF Cardinality, Fin!Cardinality

(* A finite set has a natural number of members.                           *)
LEMMA CountOf ==
    ASSUME NEW S, IsFiniteSet(S)
    PROVE  Cardinality(S) \in Nat
  BY SameFinite, SameCardinality, Fin!FS_CardinalityType, Zenon

(* One more member adds one.                                               *)
LEMMA CountWith ==
    ASSUME NEW S, NEW x, IsFiniteSet(S), x \notin S
    PROVE  Cardinality(S \union {x}) = Cardinality(S) + 1
  BY SameFinite, SameCardinality, Fin!FS_AddElement, Zenon

(* The empty set has none.                                                 *)
LEMMA CountOfNone == Cardinality({}) = 0
  BY SameCardinality, Fin!FS_EmptySet, Zenon

(* A set of positions is finite.                                           *)
LEMMA FiniteUpTo ==
    ASSUME NEW n \in Nat, NEW S, S \subseteq 1..n
    PROVE  IsFiniteSet(S)
<1>1. 1 \in Int /\ n \in Int /\ S \in SUBSET (1..n)
  OBVIOUS
<1>2. Fin!IsFiniteSet(1..n)
  BY <1>1, Fin!FS_Interval, Zenon
<1> QED BY <1>1, <1>2, SameFinite, Fin!FS_Subset, Zenon

(* A set of positions can be counted.                                      *)
LEMMA PositionsCount == PositionsCounted
<1> SUFFICES ASSUME NEW n \in Nat, NEW S \in SUBSET (1..n)
             PROVE  /\ Cardinality(S) \in Nat
                    /\ S = {} => Cardinality(S) = 0
                    /\ \A x : x \notin S => Cardinality(S \union {x}) = Cardinality(S) + 1
  BY Zenon DEF PositionsCounted
<1>1. IsFiniteSet(S)
  BY FiniteUpTo, Zenon
<1> QED BY <1>1, CountOf, CountWith, CountOfNone, Zenon

(* Whatever checks race and sinks fail: a trip has a run and an attested   *)
(* workload to name (server.go:346-350), every sink is offered one signal  *)
(* for each time a run trips, at most one for each entry the breaker keeps *)
(* of it, and accounts for what it was offered (signals.go:63-90).         *)
THEOREM TripsAreReported == Spec => []TripsReported
<1>1. Init => SinksInv /\ MarksInv /\ CountsInv
  BY PositionsCount, SinksStart, MarksStart, CountsStart, Zenon DEF Init
<1>2. /\ PipelineInv /\ SinksInv /\ MarksInv /\ CountsInv
      /\ [Next]_vars
      => SinksInv' /\ MarksInv' /\ CountsInv'
  BY PositionsCount, SinksStep, MarksStep, CountsStep, Zenon
<1> QED BY <1>1, <1>2, TripsFollow, PipelineInvariant, PTL DEF Spec
=============================================================================
