--------------------------- MODULE GatewayProofs ----------------------------
(***************************************************************************)
(* The parts of the gateway that several requests share, for any requests, *)
(* sessions, secrets and number of them at once: the session binder with   *)
(* the replay detector, and the credential cache.                          *)
(*                                                                         *)
(* SessionIntegrity is not inductive: a request between the binder and the *)
(* detector owns its session already, and a token the detector forgot must *)
(* be too old to count.  InjectedIsFresh needs to know how old each secret *)
(* in the cache and in every fetch in flight can be, and for how much      *)
(* longer it may still be handed out.  Then the gateway as a whole: it     *)
(* keeps both, and what it forwards was vetted, by CallsInv, which says at *)
(* each stage of a request what the stages before it established.          *)
(***************************************************************************)
EXTENDS Gateway, WellFoundedInduction, TLAPS

(* A set of natural numbers that has members has a least one.              *)
LEMMA LeastExists ==
    ASSUME NEW S \in SUBSET Nat, S # {}
    PROVE  \E j \in S : \A m \in S : j <= m
<1>1. PICK R : R = OpToRel(<, Nat)
  BY Zenon
<1>2. IsWellFoundedOn(R, Nat)
  BY <1>1, NatLessThanWellFounded, Zenon
<1>3. \A x, y \in Nat : y < x => <<y, x>> \in R
  BY <1>1 DEF OpToRel
<1>4. PICK j \in S : \A m \in S : ~(<<m, j>> \in R)
  BY <1>2, WFMin, Zenon
<1>5. \A m \in S : ~(m < j)
  BY <1>3, <1>4, Zenon
<1> QED BY <1>5

(* It is the one that CHOOSE takes.                                        *)
LEMMA LeastNatural ==
    ASSUME NEW S \in SUBSET Nat, S # {}
    PROVE  (CHOOSE j \in S : \A m \in S : j <= m) \in S
  BY LeastExists, Zenon

(* A request past the binder, and any accepted one, is the only owner of   *)
(* its session; the detector remembers an accepted token until it is more  *)
(* than ReplayMaxAge old.                                                  *)
Owns(q) ==
    BindToSession /\ q.session # "" => [session |-> q.session, subject |-> q.subject] \in bindings

OneOwner == \A b, d \in bindings : b.session = d.session => b.subject = d.subject

Remembered(a) ==
    DetectReplay /\ a.req.jti # "" =>
        \/ now - a.at > ReplayMaxAge
        \/ \E e \in seenJti : e.jti = a.req.jti /\ e.at >= a.at

(* The deployments, as configured and as in force.                         *)
Configured == Deployments \union {InForce(d) : d \in Deployments}

(* What a check may be about: in a gateway, the identity of a request.     *)
Checked ==
    Request \union {<<>>} \union UNION {{IdentityOf(d.identity, q) : q \in d.traffic} : d \in Configured}

CheckState == [pc : {"off", "bind", "replay", "passed", "refused"}, req : Checked]

IntegrityTypes ==
    /\ now \in Nat
    /\ checks \in [Checker -> CheckState]
    /\ \A e \in seenJti : e.at \in Nat
    /\ \A a \in accepted : a.at \in Nat /\ a.at <= now

BindInv ==
    /\ OneOwner
    /\ \A c \in Checker : checks[c].pc = "replay" => Owns(checks[c].req)
    /\ \A a \in accepted : Owns(a.req)

ReplayInv == \A a \in accepted : Remembered(a)

Apart ==
    \A a, b \in accepted :
        DetectReplay /\ a # b /\ a.req.jti # "" /\ a.req.jti = b.req.jti =>
            a.at - b.at > ReplayMaxAge \/ b.at - a.at > ReplayMaxAge

IntegrityInv == IntegrityTypes /\ BindInv /\ ReplayInv /\ Apart

(* The age at which the detector forgets a token.                          *)
LEMMA AgeBound == ReplayMaxAge \in Nat
BY IntegrityAssumption

(* An entry no older than a young one is not swept.                        *)
LEMMA YoungerStays ==
    ASSUME NEW x \in Nat, NEW y \in Nat, NEW t \in Nat, NEW w \in Nat,
           y >= x, ~(t - x > w)
    PROVE  ~(y < t - w)
OBVIOUS

(* Nothing is bound or seen at the start.                                  *)
LEMMA IntegrityStarts == IntegrityInit /\ now = 0 => IntegrityInv
BY DEF IntegrityInit, IntegrityInv, IntegrityTypes, BindInv, ReplayInv, Apart, OneOwner, CheckState,
       Checked, NoCheck

(* A check begins with nothing bound.                                      *)
LEMMA StartKeeps ==
    ASSUME IntegrityInv, NEW c \in Checker, NEW q \in Checked, StartCheck(c, q), UNCHANGED now
    PROVE  IntegrityInv'
<1>1. IntegrityTypes'
  BY DEF IntegrityInv, IntegrityTypes, StartCheck, CheckState
<1>2. BindInv'
  BY Zenon DEF IntegrityInv, IntegrityTypes, BindInv, OneOwner, Owns, StartCheck
<1>3. ReplayInv' /\ Apart'
  BY Zenon DEF IntegrityInv, ReplayInv, Apart, Remembered, StartCheck
<1> QED BY <1>1, <1>2, <1>3 DEF IntegrityInv

(* The binder takes a session nobody has, or refuses another subject.      *)
LEMMA BindKeeps ==
    ASSUME IntegrityInv, NEW c \in Checker, Bind(c), UNCHANGED now
    PROVE  IntegrityInv'
<1>1. PICK q : q = checks[c].req
  OBVIOUS
<1>2. q \in Checked
  BY <1>1 DEF IntegrityInv, IntegrityTypes, CheckState
<1>3. PICK p \in {"replay", "refused"} : checks' = [checks EXCEPT ![c] = [pc |-> p, req |-> q]]
  BY <1>1, Zenon DEF Bind
<1>4. IntegrityTypes'
  BY <1>2, <1>3, Zenon DEF IntegrityInv, IntegrityTypes, Bind, CheckState
<1>5. bindings \subseteq bindings'
  BY Zenon DEF Bind
<1>6. OneOwner'
  <2>1. CASE bindings' = bindings
    BY <2>1 DEF IntegrityInv, BindInv, OneOwner
  <2>2. CASE /\ bindings' = bindings \union {[session |-> q.session, subject |-> q.subject]}
             /\ q.session # ""
             /\ Binds(q)
    <3>1. PICK n : n = [session |-> q.session, subject |-> q.subject]
      BY Zenon
    <3>2. n.session = q.session /\ n.subject = q.subject
      BY <3>1
    <3>3. \A b \in bindings : b.session = n.session => b.subject = n.subject
      BY <2>2, <3>2, Zenon DEF Binds
    <3>4. bindings' = bindings \union {n}
      BY <2>2, <3>1, Zenon
    <3> QED BY <3>3, <3>4 DEF IntegrityInv, BindInv, OneOwner
  <2> QED BY <1>1, <2>1, <2>2, Zenon DEF Bind
<1>7. ASSUME p = "replay", BindToSession, q.session # ""
      PROVE  [session |-> q.session, subject |-> q.subject] \in bindings'
  <2>1. checks'[c].pc = "replay"
    BY <1>3, <1>7, Zenon DEF IntegrityInv, IntegrityTypes
  <2>2. CASE ~BindToSession \/ Binds(q)
    BY <1>1, <1>7, <2>2, Zenon DEF Bind
  <2>3. CASE ~(~BindToSession \/ Binds(q))
    <3>1. checks' = [checks EXCEPT ![c] = [pc |-> "refused", req |-> q]]
      BY <1>1, <2>3 DEF Bind
    <3>2. checks'[c].pc = "refused"
      BY <3>1 DEF IntegrityInv, IntegrityTypes
    <3> QED BY <2>1, <3>2
  <2> QED BY <2>2, <2>3
<1>8. ASSUME NEW d \in Checker, checks'[d].pc = "replay",
             BindToSession, checks'[d].req.session # ""
      PROVE  [session |-> checks'[d].req.session, subject |-> checks'[d].req.subject] \in bindings'
  <2>1. CASE d = c
    <3>1. checks'[c] = [pc |-> p, req |-> q]
      BY <1>3 DEF IntegrityInv, IntegrityTypes
    <3>2. checks'[d].pc = p /\ checks'[d].req = q
      BY <2>1, <3>1
    <3>3. p = "replay"
      BY <1>8, <3>2, Zenon
    <3> QED BY <1>7, <1>8, <3>2, <3>3, Zenon
  <2>2. CASE d # c
    <3>1. checks'[d] = checks[d]
      BY <1>3, <2>2 DEF IntegrityInv, IntegrityTypes
    <3> QED BY <1>5, <1>8, <3>1, Zenon DEF IntegrityInv, BindInv, Owns
  <2> QED BY <2>1, <2>2
<1>9. \A a \in accepted' : Owns(a.req)'
  BY <1>5, Zenon DEF IntegrityInv, BindInv, Owns, Bind
<1>10. BindInv'
  BY <1>6, <1>8, <1>9, Zenon DEF BindInv, Owns
<1>11. ReplayInv' /\ Apart'
  BY Zenon DEF IntegrityInv, ReplayInv, Apart, Remembered, Bind
<1> QED BY <1>4, <1>10, <1>11 DEF IntegrityInv

(* The detector accepts a token it does not remember.                      *)
LEMMA ReplayKeeps ==
    ASSUME IntegrityInv, NEW c \in Checker, Replay(c), UNCHANGED now
    PROVE  IntegrityInv'
<1>1. PICK q : q = checks[c].req
  OBVIOUS
<1>2. q \in Checked /\ now \in Nat
  BY <1>1 DEF IntegrityInv, IntegrityTypes, CheckState
<1>3. PICK p \in {"passed", "refused"} : checks' = [checks EXCEPT ![c] = [pc |-> p, req |-> q]]
  BY <1>1, Zenon DEF Replay
<1>a. PICK n : n = [req |-> q, at |-> now]
  BY Zenon
<1>e. PICK s : s = [jti |-> q.jti, at |-> now]
  BY Zenon
<1>f. n.req = q /\ n.at = now /\ s.jti = q.jti /\ s.at = now
  BY <1>a, <1>e
<1>4. \/ accepted' = accepted /\ seenJti' = seenJti
      \/ /\ accepted' = accepted \union {n}
         /\ DetectReplay => q.jti = "" \/ \A e \in seenJti : e.jti # q.jti
         /\ seenJti' = IF DetectReplay /\ q.jti # "" THEN seenJti \union {s} ELSE seenJti
  BY <1>1, <1>a, <1>e, Zenon DEF Replay
<1>5. seenJti \subseteq seenJti'
  BY <1>4, Zenon
<1>6. IntegrityTypes'
  <2>1. checks' \in [Checker -> CheckState]
    BY <1>2, <1>3 DEF IntegrityInv, IntegrityTypes, CheckState
  <2>2. \A e \in seenJti' : e.at \in Nat
    BY <1>2, <1>f, <1>4, Zenon DEF IntegrityInv, IntegrityTypes
  <2>3. \A a \in accepted' : a.at \in Nat /\ a.at <= now
    <3>1. \A a \in accepted : a.at \in Nat /\ a.at <= now
      BY DEF IntegrityInv, IntegrityTypes
    <3>2. n.at \in Nat /\ n.at <= now
      BY <1>2, <1>f
    <3> QED BY <1>4, <3>1, <3>2, Zenon
  <2> QED BY <1>2, <2>1, <2>2, <2>3 DEF IntegrityTypes
<1>7. Owns(q)
  BY <1>1, Zenon DEF IntegrityInv, BindInv, Replay
<1>8. \A a \in accepted' : Owns(a.req)
  BY <1>f, <1>4, <1>7, Zenon DEF IntegrityInv, BindInv
<1>9. \A d \in Checker : checks'[d].pc = "replay" => checks'[d] = checks[d]
  BY <1>3 DEF IntegrityInv, IntegrityTypes
<1>10. BindInv'
  BY <1>8, <1>9, Zenon DEF IntegrityInv, BindInv, OneOwner, Owns, Replay
<1>11. ReplayInv'
  <2>1. ASSUME NEW a \in accepted PROVE Remembered(a)'
    BY <1>5, Zenon DEF IntegrityInv, ReplayInv, Remembered
  <2>2. ASSUME DetectReplay /\ q.jti # "" => s \in seenJti'
        PROVE  Remembered(n)'
    <3>1. now' >= now
      BY <1>2
    <3>2. s.jti = n.req.jti /\ s.at >= n.at /\ q.jti = n.req.jti
      BY <1>f, <3>1
    <3> QED BY <2>2, <3>2, Zenon DEF Remembered
  <2> QED BY <1>4, <2>1, <2>2, Zenon DEF ReplayInv
<1>12. Apart'
  <2>1. CASE accepted' = accepted
    BY <2>1, Zenon DEF IntegrityInv, Apart
  <2>2. CASE /\ accepted' = accepted \union {n}
             /\ DetectReplay => q.jti = "" \/ \A e \in seenJti : e.jti # q.jti
    <3>1. ASSUME NEW b \in accepted, DetectReplay, q.jti # "", b.req.jti = q.jti
          PROVE  now - b.at > ReplayMaxAge
      BY <2>2, <3>1, Zenon DEF IntegrityInv, ReplayInv, Remembered
    <3> QED BY <1>f, <2>2, <3>1, ZenonT(40) DEF IntegrityInv, Apart
  <2> QED BY <1>4, <2>1, <2>2, Zenon
<1> QED BY <1>6, <1>10, <1>11, <1>12 DEF IntegrityInv

(* The request goes on without the check.                                  *)
LEMMA EndCheckKeeps ==
    ASSUME IntegrityInv, NEW c \in Checker, EndCheck(c), UNCHANGED now
    PROVE  IntegrityInv'
<1>1. IntegrityTypes'
  BY DEF IntegrityInv, IntegrityTypes, EndCheck, CheckState, Checked, NoCheck
<1>2. BindInv'
  BY Zenon DEF IntegrityInv, IntegrityTypes, BindInv, OneOwner, Owns, EndCheck, NoCheck
<1>3. ReplayInv' /\ Apart'
  BY Zenon DEF IntegrityInv, ReplayInv, Apart, Remembered, EndCheck
<1> QED BY <1>1, <1>2, <1>3 DEF IntegrityInv

(* What the sweep forgets is older than any request it might matter to.    *)
LEMMA SweepKeeps ==
    ASSUME IntegrityInv, SweepReplay, UNCHANGED now
    PROVE  IntegrityInv'
<1>1. IntegrityTypes' /\ BindInv' /\ Apart'
  BY Zenon DEF IntegrityInv, IntegrityTypes, BindInv, OneOwner, Owns, Apart, SweepReplay
<1>2. ReplayInv'
  <2> SUFFICES ASSUME NEW a \in accepted, DetectReplay, a.req.jti # "",
                      ~(now - a.at > ReplayMaxAge)
               PROVE  \E e \in seenJti' : e.jti = a.req.jti /\ e.at >= a.at
    BY Zenon DEF ReplayInv, Remembered, SweepReplay
  <2>1. PICK e \in seenJti : e.jti = a.req.jti /\ e.at >= a.at
    BY Zenon DEF IntegrityInv, ReplayInv, Remembered
  <2>2. a.at \in Nat /\ e.at \in Nat /\ now \in Nat
    BY Zenon DEF IntegrityInv, IntegrityTypes
  <2>3. ~Expired(e)
    <3>1. PICK x \in Nat, y \in Nat : x = a.at /\ y = e.at
      BY <2>2, Zenon
    <3>2. y >= x /\ ~(now - x > ReplayMaxAge)
      BY <2>1, <3>1, Zenon
    <3>3. ~(y < now - ReplayMaxAge)
      BY <2>2, <3>2, AgeBound, YoungerStays, Zenon
    <3> QED BY <3>1, <3>3, Zenon DEF Expired
  <2> QED BY <2>1, <2>3, Zenon DEF SweepReplay
<1> QED BY <1>1, <1>2 DEF IntegrityInv

(* Time passes.                                                            *)
LEMMA AgeKeeps ==
    ASSUME IntegrityInv, Tick, UNCHANGED integrityVars
    PROVE  IntegrityInv'
<1>1. now \in Nat /\ now' = now + 1
  BY DEF IntegrityInv, IntegrityTypes, Tick
<1>2. IntegrityTypes'
  BY <1>1 DEF IntegrityInv, IntegrityTypes, integrityVars
<1>3. BindInv' /\ Apart'
  BY Zenon DEF IntegrityInv, BindInv, OneOwner, Owns, Apart, integrityVars
<1>4. ReplayInv'
  <2> SUFFICES ASSUME NEW a \in accepted PROVE Remembered(a)'
    BY DEF ReplayInv, integrityVars
  <2>1. a.at \in Nat /\ Remembered(a)
    BY DEF IntegrityInv, IntegrityTypes, ReplayInv
  <2>2. now - a.at > ReplayMaxAge => now' - a.at > ReplayMaxAge
    BY <1>1, <2>1, AgeBound
  <2> QED BY <2>1, <2>2, Zenon DEF Remembered, integrityVars
<1> QED BY <1>2, <1>3, <1>4 DEF IntegrityInv

(* The invariant gives what is to be shown.                                *)
LEMMA IntegrityInvHolds == IntegrityInv => SessionIntegrity
BY Zenon DEF IntegrityInv, BindInv, OneOwner, Owns, Apart, SessionIntegrity

(* Whatever requests race through the two checks and the sweep, sessions   *)
(* keep one subject and tokens are not accepted twice within ReplayMaxAge  *)
(* (integrity.go:23-94).                                                   *)
THEOREM IntegrityKept == IntegritySpec => []SessionIntegrity
<1>1. IntegrityInv /\ [IntegrityNext]_<<integrityVars, now>> => IntegrityInv'
  <2> SUFFICES ASSUME IntegrityInv, [IntegrityNext]_<<integrityVars, now>> PROVE IntegrityInv'
    OBVIOUS
  <2>1. CASE \E c \in Checker : \E q \in Request : StartCheck(c, q) /\ UNCHANGED now
    BY <2>1, StartKeeps DEF Checked
  <2>2. CASE \E c \in Checker : Bind(c) /\ UNCHANGED now
    BY <2>2, BindKeeps
  <2>3. CASE \E c \in Checker : Replay(c) /\ UNCHANGED now
    BY <2>3, ReplayKeeps
  <2>4. CASE \E c \in Checker : EndCheck(c) /\ UNCHANGED now
    BY <2>4, EndCheckKeeps
  <2>5. CASE SweepReplay /\ UNCHANGED now
    BY <2>5, SweepKeeps
  <2>6. CASE Tick /\ UNCHANGED integrityVars
    BY <2>6, AgeKeeps
  <2>7. CASE UNCHANGED <<integrityVars, now>>
    BY <2>7, Zenon DEF IntegrityInv, IntegrityTypes, BindInv, ReplayInv, Apart, OneOwner, Owns, Remembered, integrityVars
  <2> QED BY <2>1, <2>2, <2>3, <2>4, <2>5, <2>6, <2>7 DEF IntegrityNext
<1> QED BY <1>1, IntegrityStarts, IntegrityInvHolds, PTL DEF IntegritySpec

-----------------------------------------------------------------------------
Version == 1..MaxVersion

FetchState ==
    [pc : {"off", "cache", "login", "read", "store", "got", "failed"},
     ref : {""} \union {k.ref : k \in Credential},
     version : {0} \union Version, at : Nat]

Entry == [version : {0} \union Version, fetched : Nat]

CredentialTypes ==
    /\ now \in Nat
    /\ slowest \in Nat
    /\ vault \in [Ref -> Version]
    /\ kept \in [Ref -> Entry]
    /\ lastHeld \in [Ref -> [Version -> Nat]]
    /\ fetches \in [Fetcher -> FetchState]

(* What Vault holds now it holds at this moment, and nothing later.        *)
HeldInv ==
    /\ \A r \in Ref : lastHeld[r][vault[r]] = now
    /\ \A r \in Ref, v \in Version : lastHeld[r][v] <= now

(* An entry was Vault's at most slowest before it was stored.              *)
EntryOK(r, e) == e.version \in Version => lastHeld[r][e.version] >= e.fetched - slowest

(* An answer under way was Vault's when it was read, one in hand within    *)
(* the bound.                                                              *)
FetchOK(f) ==
    /\ f.pc \in {"cache", "login", "read", "store"} => f.ref \in Ref
    /\ f.pc = "store" =>
          f.version \in Version /\ f.at <= now /\ lastHeld[f.ref][f.version] >= f.at
    /\ f.pc = "got" /\ f.version # 0 =>
          f.ref \in Ref /\ lastHeld[f.ref][f.version] >= f.at - CredentialTTL - slowest

CredentialInv ==
    /\ CredentialTypes
    /\ HeldInv
    /\ \A r \in Ref : EntryOK(r, kept[r])
    /\ \A c \in Fetcher : FetchOK(fetches[c])

(* The assumptions on lifetime and versions.                               *)
LEMMA Constants == CredentialTTL \in Nat /\ MaxVersion \in Nat \ {0}
BY CredentialsAssumption

(* A credential of Vault names a secret.                                   *)
LEMMA VaultRefs == ASSUME NEW k \in Credential, k.from = "vault" PROVE k.ref \in Ref
BY CredentialsAssumption

(* The bounds only loosen: versions are held later, answers get slower.    *)
Loosens ==
    /\ CredentialTypes /\ CredentialTypes'
    /\ now' >= now /\ slowest' >= slowest
    /\ \A r \in Ref, v \in Version : lastHeld'[r][v] >= lastHeld[r][v]

(* A bound on an age still holds of something younger, and with more       *)
(* slack.                                                                  *)
LEMMA Loosening ==
    ASSUME NEW x \in Int, NEW y \in Int, NEW t \in Int, NEW w \in Int, NEW u \in Int,
           x >= t - w, y >= x, u >= w
    PROVE  y >= t - u
OBVIOUS

(* What is known of a cached entry stays known while Vault's history       *)
(* grows.                                                                  *)
LEMMA EntryStays ==
    ASSUME Loosens, NEW r \in Ref, NEW e \in Entry, EntryOK(r, e)
    PROVE  EntryOK(r, e)'
<1> SUFFICES ASSUME e.version \in Version PROVE lastHeld'[r][e.version] >= e.fetched - slowest'
  BY DEF EntryOK
<1>1. e.fetched \in Int /\ slowest \in Int /\ slowest' \in Int
  BY DEF Entry, Loosens, CredentialTypes
<1>2. lastHeld[r][e.version] \in Int /\ lastHeld'[r][e.version] \in Int
  BY DEF Loosens, CredentialTypes
<1>3. lastHeld[r][e.version] >= e.fetched - slowest
  BY DEF EntryOK
<1>4. lastHeld'[r][e.version] >= lastHeld[r][e.version] /\ slowest' >= slowest
  BY DEF Loosens
<1> QED BY <1>1, <1>2, <1>3, <1>4, Loosening

(* The same for a fetch in flight.                                         *)
LEMMA FetchStays ==
    ASSUME Loosens, NEW f \in FetchState, FetchOK(f)
    PROVE  FetchOK(f)'
<1>1. ASSUME f.pc = "store"
      PROVE  f.version \in Version /\ f.at <= now' /\ lastHeld'[f.ref][f.version] >= f.at
  <2>1. /\ f.version \in Version /\ f.ref \in Ref
        /\ f.at <= now /\ lastHeld[f.ref][f.version] >= f.at
    BY <1>1 DEF FetchOK
  <2>2. now \in Nat /\ now' \in Nat /\ f.at \in Nat /\ now' >= now
    BY Zenon DEF Loosens, CredentialTypes, FetchState
  <2>3. /\ lastHeld[f.ref][f.version] \in Nat
        /\ lastHeld'[f.ref][f.version] \in Nat
        /\ lastHeld'[f.ref][f.version] >= lastHeld[f.ref][f.version]
    BY <2>1 DEF Loosens, CredentialTypes
  <2> QED BY <2>1, <2>2, <2>3
<1>2. ASSUME f.pc = "got", f.version # 0
      PROVE  f.ref \in Ref /\ lastHeld'[f.ref][f.version] >= f.at - CredentialTTL - slowest'
  <2>1. f.ref \in Ref /\ lastHeld[f.ref][f.version] >= f.at - CredentialTTL - slowest
    BY <1>2 DEF FetchOK
  <2>2. f.version \in Version /\ f.at \in Nat
    BY <1>2, Zenon DEF FetchState
  <2>3. /\ lastHeld[f.ref][f.version] \in Int
        /\ lastHeld'[f.ref][f.version] \in Int
        /\ lastHeld'[f.ref][f.version] >= lastHeld[f.ref][f.version]
        /\ slowest \in Int /\ slowest' \in Int /\ slowest' >= slowest
    BY <2>1, <2>2 DEF Loosens, CredentialTypes
  <2>4. f.at - CredentialTTL \in Int
    BY <2>2, Constants
  <2> QED BY <2>1, <2>3, <2>4, Loosening
<1> QED BY <1>1, <1>2 DEF FetchOK

(* A step that moves one fetch and touches nothing else but slowest.       *)
LEMMA OneFetch ==
    ASSUME CredentialInv, Loosens, HeldInv', NEW c \in Fetcher, NEW f \in FetchState, FetchOK(f)',
           fetches' = [fetches EXCEPT ![c] = f],
           \A r \in Ref : EntryOK(r, kept[r])'
    PROVE  CredentialInv'
<1>1. ASSUME NEW d \in Fetcher PROVE FetchOK(fetches[d])'
  <2>1. CASE d = c
    <3>1. fetches'[d] = f
      BY <2>1 DEF CredentialInv, CredentialTypes
    <3> QED BY <3>1, Zenon DEF FetchOK
  <2>2. CASE d # c
    <3>1. fetches'[d] = fetches[d] /\ fetches[d] \in FetchState
      BY <2>2 DEF CredentialInv, CredentialTypes
    <3>2. PICK g \in FetchState : g = fetches[d]
      BY <3>1
    <3>3. FetchOK(g)
      BY <3>2 DEF CredentialInv
    <3>4. FetchOK(g)'
      BY <3>3, FetchStays
    <3> QED BY <3>1, <3>2, <3>4, Zenon DEF FetchOK
  <2> QED BY <2>1, <2>2
<1> QED BY <1>1 DEF CredentialInv, Loosens

(* A step of one fetch that leaves Vault, the cache and the clock alone.   *)
LEMMA LocalStep ==
    ASSUME CredentialInv, UNCHANGED <<now, vault, kept, lastHeld, slowest>>,
           NEW c \in Fetcher, NEW f \in FetchState, FetchOK(f),
           fetches' = [fetches EXCEPT ![c] = f]
    PROVE  CredentialInv'
<1>1. CredentialTypes'
  BY DEF CredentialInv, CredentialTypes
<1>2. HeldInv' /\ \A r \in Ref : EntryOK(r, kept[r])'
  BY DEF CredentialInv, HeldInv, EntryOK
<1>3. Loosens
  <2>1. \A r \in Ref, v \in Version : lastHeld[r][v] \in Nat
    BY DEF CredentialInv, CredentialTypes
  <2>2. now \in Nat /\ slowest \in Nat
    BY DEF CredentialInv, CredentialTypes
  <2> QED BY <1>1, <2>1, <2>2 DEF CredentialInv, Loosens
<1>4. FetchOK(f)'
  BY <1>3, FetchStays
<1> QED BY <1>2, <1>3, <1>4, OneFetch, Zenon

(* A fetch starts at the cache, or at the environment.                     *)
LEMMA FromKeeps ==
    ASSUME CredentialInv, NEW c \in Fetcher, NEW k \in Credential, FetchFrom(c, k), UNCHANGED now
    PROVE  CredentialInv'
<1>1. PICK p \in {"cache", "got", "failed"} :
        /\ fetches' = [fetches EXCEPT ![c] = [pc |-> p, ref |-> k.ref, version |-> 0, at |-> now]]
        /\ p = "cache" => k.from = "vault"
  BY Zenon DEF FetchFrom
<1>2. PICK f : f = [pc |-> p, ref |-> k.ref, version |-> 0, at |-> now]
  BY Zenon
<1>3. f \in FetchState
  BY <1>2, Zenon DEF CredentialInv, CredentialTypes, FetchState
<1>4. f.pc = p /\ f.ref = k.ref /\ f.version = 0
  BY <1>2
<1>5. FetchOK(f)
  BY <1>1, <1>4, VaultRefs, Zenon DEF FetchOK
<1> QED BY <1>1, <1>2, <1>3, <1>5, LocalStep, Zenon DEF FetchFrom

(* Only pc changes.                                                        *)
LEMMA GoesKeeps ==
    ASSUME CredentialInv, NEW c \in Fetcher, NEW p \in {"login", "read", "failed"},
           fetches[c].pc \in {"cache", "login", "read"},
           fetches' = [fetches EXCEPT ![c] = [fetches[c] EXCEPT !.pc = p]],
           UNCHANGED <<now, vault, kept, lastHeld, slowest>>
    PROVE  CredentialInv'
<1>1. PICK g \in FetchState : g = fetches[c]
  BY DEF CredentialInv, CredentialTypes
<1>2. PICK f : f = [g EXCEPT !.pc = p]
  BY Zenon
<1>3. f \in FetchState /\ f.pc = p /\ f.ref = g.ref
  BY <1>2, Zenon DEF FetchState
<1>4. g.ref \in Ref
  BY <1>1 DEF CredentialInv, FetchOK
<1>5. FetchOK(f)
  BY <1>3, <1>4 DEF FetchOK
<1> QED BY <1>1, <1>2, <1>3, <1>5, LocalStep, Zenon

(* A hit is as old as the entry when it was stored, and less than a        *)
(* lifetime.                                                               *)
LEMMA HitBound ==
    ASSUME NEW x \in Int, NEW t \in Int, NEW e \in Int, NEW l \in Int, NEW w \in Int,
           x >= e - w, t - e < l
    PROVE  x >= t - l - w
OBVIOUS

(* A look in the cache hits, or goes on to Vault.                          *)
LEMMA LookKeeps ==
    ASSUME CredentialInv, NEW c \in Fetcher, LookInCache(c), UNCHANGED now
    PROVE  CredentialInv'
<1>1. PICK r : r = fetches[c].ref
  OBVIOUS
<1>2. r \in Ref
  BY <1>1 DEF CredentialInv, FetchOK, LookInCache, At
<1>3. PICK e \in Entry : e = kept[r]
  BY <1>2 DEF CredentialInv, CredentialTypes
<1>4. CASE Usable(e)
  <2>1. PICK f : f = [pc |-> "got", ref |-> r, version |-> e.version, at |-> now]
    BY Zenon
  <2>2. fetches' = [fetches EXCEPT ![c] = f]
    BY <1>1, <1>3, <1>4, <2>1 DEF LookInCache
  <2>3. r \in {""} \union {k.ref : k \in Credential}
    BY <1>1, Zenon DEF CredentialInv, CredentialTypes, FetchState
  <2>4. f \in FetchState
    BY <2>1, <2>3, Zenon DEF CredentialInv, CredentialTypes, FetchState, Entry
  <2>5. f.pc = "got" /\ f.ref = r /\ f.version = e.version /\ f.at = now
    BY <2>1
  <2>6. ASSUME e.version # 0 PROVE lastHeld[r][e.version] >= now - CredentialTTL - slowest
    <3>1. e.version \in Version
      BY <2>6 DEF Entry
    <3>2. lastHeld[r][e.version] >= e.fetched - slowest
      BY <1>2, <1>3, <3>1 DEF CredentialInv, EntryOK
    <3>3. now - e.fetched < CredentialTTL
      BY <1>4 DEF Usable
    <3>4. lastHeld[r][e.version] \in Int /\ e.fetched \in Int /\ now \in Int /\ slowest \in Int
      BY <1>2, <3>1 DEF CredentialInv, CredentialTypes, Entry
    <3>5. CredentialTTL \in Int
      BY Constants
    <3> QED BY <3>2, <3>3, <3>4, <3>5, HitBound
  <2>7. FetchOK(f)
    BY <1>2, <2>5, <2>6 DEF FetchOK
  <2> QED BY <2>2, <2>4, <2>7, LocalStep, Zenon DEF LookInCache
<1>5. CASE ~Usable(e)
  <2>1. PICK p \in {"login", "read"} :
          fetches' = [fetches EXCEPT ![c] = [fetches[c] EXCEPT !.pc = p]]
    BY <1>1, <1>3, <1>5, Zenon DEF LookInCache
  <2>2. fetches[c].pc = "cache" /\ UNCHANGED <<vault, kept, lastHeld, slowest>>
    BY DEF LookInCache, At
  <2> QED BY <2>1, <2>2, GoesKeeps, Zenon
<1> QED BY <1>4, <1>5

(* A login changes no secret.                                              *)
LEMMA LoginKeeps ==
    ASSUME CredentialInv, NEW c \in Fetcher, Login(c), UNCHANGED now
    PROVE  CredentialInv'
<1>1. PICK p \in {"read", "failed"} :
        fetches' = [fetches EXCEPT ![c] = [fetches[c] EXCEPT !.pc = p]]
  BY DEF Login, FetchGoes
<1> QED BY <1>1, GoesKeeps, Zenon DEF Login, At

(* Vault answers with what it holds now.                                   *)
LEMMA ReadKeeps ==
    ASSUME CredentialInv, NEW c \in Fetcher, ReadSecret(c), UNCHANGED now
    PROVE  CredentialInv'
<1>1. PICK r : r = fetches[c].ref
  OBVIOUS
<1>2. r \in Ref
  BY <1>1 DEF CredentialInv, FetchOK, ReadSecret, At
<1>3. PICK f : f = [pc |-> "store", ref |-> r, version |-> vault[r], at |-> now]
  BY Zenon
<1>4. CASE fetches' = [fetches EXCEPT ![c] = f]
  <2>1. r \in {""} \union {k.ref : k \in Credential} /\ vault[r] \in Version /\ now \in Nat
    BY <1>1, <1>2, Zenon DEF CredentialInv, CredentialTypes, FetchState
  <2>2. f \in FetchState
    BY <1>3, <2>1, Zenon DEF FetchState
  <2>3. f.pc = "store" /\ f.ref = r /\ f.version = vault[r] /\ f.at = now
    BY <1>3
  <2>4. lastHeld[r][vault[r]] = now /\ now >= now /\ now <= now
    BY <1>2, <2>1, Zenon DEF CredentialInv, HeldInv
  <2>5. FetchOK(f)
    BY <1>2, <2>1, <2>3, <2>4, Zenon DEF FetchOK
  <2> QED BY <1>4, <2>2, <2>5, LocalStep, Zenon DEF ReadSecret
<1>5. CASE fetches' = [fetches EXCEPT ![c] = [fetches[c] EXCEPT !.pc = "failed"]]
  BY <1>5, GoesKeeps, Zenon DEF ReadSecret, At
<1> QED BY <1>1, <1>3, <1>4, <1>5 DEF ReadSecret, FetchGoes

(* A fetch that is over holds nothing.                                     *)
LEMMA EndFetchKeeps ==
    ASSUME CredentialInv, NEW c \in Fetcher, EndFetch(c), UNCHANGED now
    PROVE  CredentialInv'
<1>1. NoFetch \in FetchState /\ FetchOK(NoFetch)
  BY DEF NoFetch, FetchState, FetchOK
<1> QED BY <1>1, LocalStep, Zenon DEF EndFetch

(* The longest answer covers the one being stored.                         *)
LEMMA StoreBound ==
    ASSUME NEW x \in Int, NEW a \in Int, NEW t \in Int, NEW w \in Int, x >= a, w >= t - a
    PROVE  x >= t - w
OBVIOUS

(* A lifetime more is slack.                                               *)
LEMMA TTLBound ==
    ASSUME NEW x \in Int, NEW t \in Int, NEW w \in Int, x >= t - w
    PROVE  x >= t - CredentialTTL - w
BY Constants

(* A slow fetch stores a secret that may have been rotated since, but no   *)
(* earlier than it began.                                                  *)
LEMMA StoreKeeps ==
    ASSUME CredentialInv, NEW c \in Fetcher, StoreSecret(c), UNCHANGED now
    PROVE  CredentialInv'
<1>1. PICK g \in FetchState : g = fetches[c]
  BY DEF CredentialInv, CredentialTypes
<1>2. /\ g.ref \in Ref /\ g.version \in Version /\ g.at <= now
      /\ lastHeld[g.ref][g.version] >= g.at
  BY <1>1, Zenon DEF CredentialInv, FetchOK, StoreSecret, At
<1>3. now \in Nat /\ slowest \in Nat /\ g.at \in Nat /\ lastHeld[g.ref][g.version] \in Nat
  BY <1>2, Zenon DEF CredentialInv, CredentialTypes, FetchState
<1>4. slowest' \in Nat /\ slowest' >= slowest /\ slowest' >= now - g.at
  BY <1>1, <1>2, <1>3 DEF StoreSecret
<1>0. PICK x \in Nat, w \in Nat : x = lastHeld[g.ref][g.version] /\ w = slowest'
  BY <1>3, <1>4, Zenon
<1>5. x >= now - w
  BY <1>0, <1>2, <1>3, <1>4, StoreBound
<1>6. PICK e : e = [version |-> g.version, fetched |-> now]
  BY Zenon
<1>7. e \in Entry /\ e.version = g.version /\ e.fetched = now
  BY <1>2, <1>3, <1>6 DEF Entry
<1>8. kept' = [kept EXCEPT ![g.ref] = e]
  BY <1>1, <1>6 DEF StoreSecret
<1>9. PICK f : f = [pc |-> "got", ref |-> g.ref, version |-> g.version, at |-> now]
  BY Zenon
<1>10. f \in FetchState /\ f.pc = "got" /\ f.ref = g.ref /\ f.version = g.version /\ f.at = now
  BY <1>3, <1>9, Zenon DEF FetchState
<1>11. fetches' = [fetches EXCEPT ![c] = f]
  BY <1>1, <1>9 DEF StoreSecret
<1>12. UNCHANGED <<now, vault, lastHeld>>
  BY DEF StoreSecret
<1>13. CredentialTypes'
  BY <1>4, <1>7, <1>8, <1>10, <1>11, <1>12, Zenon DEF CredentialInv, CredentialTypes
<1>14. HeldInv'
  BY <1>12 DEF CredentialInv, HeldInv
<1>15. Loosens
  <2>1. \A r \in Ref, v \in Version : lastHeld[r][v] \in Nat
    BY DEF CredentialInv, CredentialTypes
  <2> QED BY <1>3, <1>4, <1>12, <1>13, <2>1 DEF CredentialInv, Loosens
<1>16. FetchOK(f)'
  <2>1. x >= now - CredentialTTL - w
    BY <1>3, <1>5, TTLBound
  <2>2. lastHeld[g.ref][g.version] >= now - CredentialTTL - slowest'
    BY <1>0, <2>1, Zenon
  <2> QED BY <1>2, <1>10, <1>12, <2>2 DEF FetchOK
<1>17. ASSUME NEW r \in Ref PROVE EntryOK(r, kept[r])'
  <2>1. CASE r = g.ref
    <3>1. kept'[r] = e
      BY <1>8, <2>1 DEF CredentialInv, CredentialTypes
    <3> QED BY <1>0, <1>5, <1>7, <1>12, <2>1, <3>1, Zenon DEF EntryOK
  <2>2. CASE r # g.ref
    <3>1. kept'[r] = kept[r] /\ kept[r] \in Entry
      BY <1>8, <2>2 DEF CredentialInv, CredentialTypes
    <3>2. PICK h \in Entry : h = kept[r]
      BY <3>1
    <3>3. EntryOK(r, h)
      BY <3>2 DEF CredentialInv
    <3>4. EntryOK(r, h)'
      BY <1>15, <3>3, EntryStays
    <3> QED BY <3>1, <3>2, <3>4, Zenon DEF EntryOK
  <2> QED BY <2>1, <2>2
<1> QED BY <1>10, <1>11, <1>14, <1>15, <1>16, <1>17, OneFetch, Zenon

(* A step that only moves Vault and the clock.                             *)
LEMMA VaultStep ==
    ASSUME CredentialInv, Loosens, HeldInv', UNCHANGED <<kept, fetches>>
    PROVE  CredentialInv'
<1>1. ASSUME NEW r \in Ref PROVE EntryOK(r, kept[r])'
  <2>1. PICK h \in Entry : h = kept[r]
    BY DEF CredentialInv, CredentialTypes
  <2>2. EntryOK(r, h)'
    BY <2>1, EntryStays DEF CredentialInv
  <2> QED BY <2>1, <2>2 DEF EntryOK
<1>2. ASSUME NEW d \in Fetcher PROVE FetchOK(fetches[d])'
  <2>1. PICK g \in FetchState : g = fetches[d]
    BY DEF CredentialInv, CredentialTypes
  <2>2. FetchOK(g)'
    BY <2>1, FetchStays DEF CredentialInv
  <2> QED BY <2>1, <2>2, Zenon DEF FetchOK
<1> QED BY <1>1, <1>2 DEF CredentialInv, Loosens

(* A secret is rotated under all who have it.                              *)
LEMMA RotateKeeps ==
    ASSUME CredentialInv, NEW r \in Ref, RotateSecret(r), UNCHANGED now
    PROVE  CredentialInv'
<1>1. vault[r] \in Version /\ vault[r] + 1 \in Version /\ now \in Nat /\ slowest \in Nat
  BY Constants DEF CredentialInv, CredentialTypes, RotateSecret, Version
<1>2. vault' = [vault EXCEPT ![r] = vault[r] + 1]
  BY DEF RotateSecret
<1>3. \A s \in Ref, v \in Version :
        lastHeld'[s][v] = IF s = r /\ v = vault[r] + 1 THEN now ELSE lastHeld[s][v]
  BY DEF CredentialInv, CredentialTypes, RotateSecret, Version
<1>4. lastHeld' \in [Ref -> [Version -> Nat]]
  BY <1>1, Zenon DEF CredentialInv, CredentialTypes, RotateSecret, Version
<1>5. CredentialTypes'
  BY <1>1, <1>2, <1>4 DEF CredentialInv, CredentialTypes, RotateSecret
<1>6. \A s \in Ref, v \in Version : lastHeld[s][v] \in Nat /\ lastHeld[s][v] <= now
  BY DEF CredentialInv, CredentialTypes, HeldInv
<1>7. \A s \in Ref, v \in Version : lastHeld'[s][v] <= now /\ lastHeld'[s][v] >= lastHeld[s][v]
  BY <1>1, <1>3, <1>6
<1>8. \A s \in Ref : lastHeld'[s][vault'[s]] = now
  BY <1>1, <1>2, <1>3 DEF CredentialInv, CredentialTypes, HeldInv
<1>9. HeldInv'
  BY <1>7, <1>8 DEF HeldInv
<1>10. Loosens
  BY <1>1, <1>5, <1>7 DEF CredentialInv, Loosens, RotateSecret
<1> QED BY <1>9, <1>10, VaultStep DEF RotateSecret

(* Time passes, and Vault holds what it holds.                             *)
LEMMA StillHeldKeeps ==
    ASSUME CredentialInv, Tick, StillHeld
    PROVE  CredentialInv'
<1>1. now \in Nat /\ now' = now + 1 /\ slowest \in Nat /\ slowest' = slowest
  BY DEF CredentialInv, CredentialTypes, Tick, StillHeld
<1>2. \A s \in Ref, v \in Version :
        lastHeld'[s][v] = IF v = vault[s] THEN now' ELSE lastHeld[s][v]
  BY DEF CredentialInv, CredentialTypes, StillHeld, Version
<1>3. lastHeld' \in [Ref -> [Version -> Nat]]
  <2>1. now' \in Nat
    BY <1>1
  <2>2. ASSUME NEW s \in Ref
        PROVE  [v \in 1..MaxVersion |-> IF v = vault[s] THEN now' ELSE lastHeld[s][v]]
                  \in [Version -> Nat]
    BY <2>1, Zenon DEF CredentialInv, CredentialTypes, Version
  <2> QED BY <2>2 DEF StillHeld
<1>4. CredentialTypes'
  BY <1>1, <1>3 DEF CredentialInv, CredentialTypes, StillHeld
<1>5. \A s \in Ref, v \in Version : lastHeld[s][v] \in Nat /\ lastHeld[s][v] <= now
  BY DEF CredentialInv, CredentialTypes, HeldInv
<1>6. \A s \in Ref, v \in Version : lastHeld'[s][v] <= now' /\ lastHeld'[s][v] >= lastHeld[s][v]
  BY <1>1, <1>2, <1>5
<1>7. \A s \in Ref : vault'[s] = vault[s] /\ vault[s] \in Version
  BY DEF CredentialInv, CredentialTypes, StillHeld
<1>8. HeldInv'
  BY <1>2, <1>6, <1>7 DEF HeldInv
<1>9. Loosens
  BY <1>1, <1>4, <1>6 DEF CredentialInv, Loosens
<1> QED BY <1>8, <1>9, VaultStep DEF StillHeld

(* Nothing is cached at the start.                                         *)
LEMMA CredentialsStart == CredentialsInit /\ now = 0 => CredentialInv
<1> SUFFICES ASSUME CredentialsInit, now = 0 PROVE CredentialInv
  OBVIOUS
<1>1. 1 \in Version
  BY Constants DEF Version
<1>2. CredentialTypes
  BY <1>1, Zenon DEF CredentialsInit, CredentialTypes, Entry, FetchState, NoFetch, Version
<1>3. HeldInv
  BY <1>1 DEF CredentialsInit, HeldInv, Version
<1>4. \A r \in Ref : EntryOK(r, kept[r])
  BY DEF CredentialsInit, EntryOK, Version
<1>5. \A c \in Fetcher : FetchOK(fetches[c])
  BY Zenon DEF CredentialsInit, FetchOK, NoFetch
<1> QED BY <1>2, <1>3, <1>4, <1>5 DEF CredentialInv

(* The invariant gives what is to be shown.                                *)
LEMMA CredentialInvFresh == CredentialInv => InjectedIsFresh
<1> SUFFICES ASSUME CredentialInv, NEW c \in Fetcher, fetches[c].pc = "got", fetches[c].version > 0
             PROVE  lastHeld[fetches[c].ref][fetches[c].version]
                       >= fetches[c].at - CredentialTTL - slowest
  BY DEF InjectedIsFresh, At
<1>1. fetches[c].version # 0
  OBVIOUS
<1> QED BY <1>1, Zenon DEF CredentialInv, FetchOK

(* However fetches overlap, secrets rotate and time passes, a credential   *)
(* in hand was Vault's within the last TTL and the longest answer          *)
(* (cache.go:31-49, vault.go:55-153).                                      *)
THEOREM CredentialsFresh == CredentialsSpec => []InjectedIsFresh
<1>1. CredentialInv /\ [CredentialsNext]_<<credentialVars, now>> => CredentialInv'
  <2> SUFFICES ASSUME CredentialInv, [CredentialsNext]_<<credentialVars, now>> PROVE CredentialInv'
    OBVIOUS
  <2>1. CASE \E c \in Fetcher, k \in Credential : FetchFrom(c, k) /\ UNCHANGED now
    BY <2>1, FromKeeps
  <2>2. CASE \E c \in Fetcher : LookInCache(c) /\ UNCHANGED now
    BY <2>2, LookKeeps
  <2>3. CASE \E c \in Fetcher : Login(c) /\ UNCHANGED now
    BY <2>3, LoginKeeps
  <2>4. CASE \E c \in Fetcher : ReadSecret(c) /\ UNCHANGED now
    BY <2>4, ReadKeeps
  <2>5. CASE \E c \in Fetcher : StoreSecret(c) /\ UNCHANGED now
    BY <2>5, StoreKeeps
  <2>6. CASE \E c \in Fetcher : EndFetch(c) /\ UNCHANGED now
    BY <2>6, EndFetchKeeps
  <2>7. CASE \E r \in Ref : RotateSecret(r) /\ UNCHANGED now
    BY <2>7, RotateKeeps
  <2>8. CASE Tick /\ StillHeld
    BY <2>8, StillHeldKeeps
  <2>9. CASE UNCHANGED <<credentialVars, now>>
    BY <2>9, Zenon DEF CredentialInv, CredentialTypes, HeldInv, EntryOK, FetchOK, credentialVars
  <2> QED BY <2>1, <2>2, <2>3, <2>4, <2>5, <2>6, <2>7, <2>8, <2>9 DEF CredentialsNext, FetchStep
<1> QED BY <1>1, CredentialsStart, CredentialInvFresh, PTL DEF CredentialsSpec

-----------------------------------------------------------------------------
(* The gateway put together.  What a request has been through, by where it *)
(* is.                                                                     *)
Cleared(q) ==
    /\ Verifies(deployment.identity, q.token)
    /\ deployment.integrity => \E a \in accepted : a.req.n = q.n

Routed(k) ==
    /\ k.route \in DOMAIN routes
    /\ k.req.tool \in routes[k.route].registry
    /\ \A i \in DOMAIN routes : k.req.tool \in routes[i].names =>
          i <= k.route /\ k.req.tool \in routes[k.route].names
    /\ \/ k.req.tool \in routes[k.route].names
       \/ /\ routes[k.route].prefix \in PrefixesOf[k.req.tool]
          /\ \A i \in DOMAIN routes : routes[i].prefix = routes[k.route].prefix => i <= k.route

Permitted(x) ==
    LET d == Judged(x.call, x.call.route) IN
    /\ d.held => ~d.scoped
    /\ x.pc = "held" => d.held
    /\ x.pc # "held" => d.allowed \/ (d.held /\ x.approved)
    /\ x.pc \notin {"held", "scope"} => x.todo = <<>> \/ ~d.scoped

DecidedPCs == {"held", "scope", "rates", "budget", "record", "velocity", "forward"}

(* A request with its rule, of whatever shape the parts are.               *)
IsDecided(x) ==
    /\ x = [pc |-> x.pc, call |-> x.call, rule |-> x.rule, approved |-> x.approved, todo |-> x.todo]
    /\ x.todo \in Seq(Credential)

CallOK(c, x) ==
    /\ x.pc \in {"idle", "refused", "identified", "trip", "policy"} \union DecidedPCs
    /\ x.pc = "identified" =>
          /\ Verifies(deployment.identity, x.req.token)
          /\ deployment.integrity =>
                /\ checks[c].pc # "off"
                /\ checks[c].req.n = x.req.n
                /\ checks[c].pc = "passed" => \E a \in accepted : a.req.n = x.req.n
    /\ x.pc \in {"trip", "policy"} => Cleared(x.call.req) /\ Routed(x.call)
    /\ x.pc \in DecidedPCs =>
          /\ Cleared(x.call.req)
          /\ \/ x.pc = "forward" /\ x.call.req.method = "other"
             \/ IsDecided(x) /\ Routed(x.call) /\ Permitted(x)

Wired ==
    /\ deployment \in Configured
    /\ routes = <<>> => deployment \in Deployments
    /\ pending \subseteq deployment.traffic
    /\ routes = <<>> => \A c \in Caller : caller[c].pc = "idle"
    /\ routes # <<>> => routes = deployment.routes /\ RoutesLoad(routes)

CallsInv ==
    /\ Wired
    /\ caller = [c \in Caller |-> caller[c]]
    /\ checks = [c \in Caller |-> checks[c]]
    /\ \A c \in Caller : CallOK(c, caller[c])

(* A step that leaves the wiring alone and forgets no accepted request     *)
(* disturbs no call but the one it is about.                               *)
LEMMA CallStays ==
    ASSUME NEW c, NEW x, CallOK(c, x), UNCHANGED wiring, accepted \subseteq accepted',
           checks'[c] = checks[c]
    PROVE  CallOK(c, x)'
<1>1. \A q : Cleared(q) => Cleared(q)'
  BY DEF Cleared, wiring
<1>2. \A k : Routed(k) => Routed(k)'
  BY Zenon DEF Routed, wiring
<1>3. \A k, i : Judged(k, i)' = Judged(k, i)
  BY DEF Judged, Asked, wiring
<1>4. Permitted(x) => Permitted(x)'
  BY <1>3, Zenon DEF Permitted
<1>5. x.pc = "identified" => (
          /\ Verifies(deployment.identity, x.req.token)
          /\ deployment.integrity =>
                /\ checks[c].pc # "off"
                /\ checks[c].req.n = x.req.n
                /\ checks[c].pc = "passed" => \E a \in accepted : a.req.n = x.req.n)'
  BY Zenon DEF CallOK, wiring
<1> QED BY <1>1, <1>2, <1>4, <1>5, Zenon DEF CallOK

(* One request moves: only what is known of that request is to be shown    *)
(* again.                                                                  *)
LEMMA CallMoves ==
    ASSUME CallsInv, NEW c \in Caller, NEW x, NEW k,
           caller' = [caller EXCEPT ![c] = x], checks' = [checks EXCEPT ![c] = k],
           UNCHANGED wiring, pending' \subseteq pending, accepted \subseteq accepted', routes # <<>>,
           CallOK(c, x)'
    PROVE  CallsInv'
<1>1. /\ caller' = [d \in Caller |-> IF d = c THEN x ELSE caller[d]]
      /\ checks' = [d \in Caller |-> IF d = c THEN k ELSE checks[d]]
  BY Zenon DEF CallsInv
<1>2. caller' = [d \in Caller |-> caller'[d]] /\ checks' = [d \in Caller |-> checks'[d]]
  BY <1>1, Zenon
<1>3. Wired'
  BY Zenon DEF CallsInv, Wired, wiring, RoutesLoad
<1>4. ASSUME NEW d \in Caller PROVE CallOK(d, caller[d])'
  <2>1. CASE d = c
    <3>1. caller'[d] = x
      BY <1>1, <2>1
    <3> QED BY <2>1, <3>1, Zenon DEF CallOK, Cleared, Routed, Permitted, Judged, Asked, IsDecided
  <2>2. CASE d # c
    <3>1. PICK y : y = caller[d] /\ y = caller'[d]
      BY <1>1, <2>2
    <3>2. checks'[d] = checks[d]
      BY <1>1, <2>2
    <3>3. CallOK(d, y)'
      BY <3>1, <3>2, CallStays DEF CallsInv
    <3> QED BY <3>1, <3>3, ZenonT(40) DEF CallOK, Cleared, Routed, Permitted, Judged, Asked, IsDecided
  <2> QED BY <2>1, <2>2
<1> QED BY <1>2, <1>3, <1>4 DEF CallsInv

(* No request moves.                                                       *)
LEMMA CallRests ==
    ASSUME CallsInv, UNCHANGED <<caller, checks, wiring, pending>>, accepted \subseteq accepted'
    PROVE  CallsInv'
<1>1. Wired'
  BY Zenon DEF CallsInv, Wired, wiring, RoutesLoad
<1>2. ASSUME NEW d \in Caller PROVE CallOK(d, caller[d])'
  <2>1. PICK y : y = caller[d] /\ y = caller'[d]
    OBVIOUS
  <2>2. CallOK(d, y)'
    BY <2>1, CallStays DEF CallsInv
  <2> QED BY <2>1, <2>2, Zenon DEF CallOK, Cleared, Routed, Permitted, Judged, Asked, IsDecided
<1> QED BY <1>1, <1>2 DEF CallsInv

(* A refusal ends what a request has been through.                         *)
LEMMA RefusedCall ==
    ASSUME CallsInv, NEW c \in Caller, NEW why, Refuse(c, why), UNCHANGED <<checks, accepted, wiring, pending>>,
           routes # <<>>
    PROVE  CallsInv'
<1>1. PICK x : x = [pc |-> "refused", why |-> why]
  BY Zenon
<1>2. x.pc = "refused"
  BY <1>1
<1>3. CallOK(c, x)'
  BY <1>2, Zenon DEF CallOK, DecidedPCs
<1>4. checks' = [checks EXCEPT ![c] = checks[c]]
  BY DEF CallsInv
<1> QED BY <1>1, <1>3, <1>4, CallMoves, Zenon DEF Refuse

(* What main keeps of a deployment, its routes and its traffic included.   *)
LEMMA InForceKeeps ==
    ASSUME NEW d \in Deployments
    PROVE  InForce(d).routes = d.routes /\ InForce(d).traffic = d.traffic
<1>1. /\ {"routes", "traffic"} \subseteq DOMAIN d /\ d = [f \in DOMAIN d |-> d[f]]
  BY GatewayAssumption
<1> QED BY <1>1 DEF InForce

(* Boot is the only step while there are no routes.                        *)
LEMMA BootKeeps == ASSUME CallsInv, Boot PROVE CallsInv'
<1>1. \A c \in Caller : caller'[c] = caller[c] /\ caller[c].pc = "idle"
  BY DEF CallsInv, Wired, Boot, gatesVars
<1>2. \A c \in Caller : CallOK(c, caller[c])'
  BY <1>1, Zenon DEF CallOK, DecidedPCs
<1>3. PICK d \in Deployments : d = deployment /\ deployment' = InForce(d)
  BY DEF CallsInv, Wired, Boot
<1>4. deployment'.routes = deployment.routes /\ deployment'.traffic = deployment.traffic
  BY <1>3, InForceKeeps
<1>5. routes' = deployment'.routes /\ RoutesLoad(routes)' /\ pending' \subseteq deployment'.traffic
  BY <1>4, Zenon DEF CallsInv, Wired, Boot, RoutesLoad
<1>6. routes' # <<>> /\ deployment' \in Configured
  BY <1>3, <1>5, Zenon DEF RoutesLoad, Configured
<1>7. Wired'
  BY <1>5, <1>6, Zenon DEF Wired
<1> QED BY <1>2, <1>7 DEF CallsInv, Boot, gatesVars, integrityVars

(* A request is resolved to an identity.                                   *)
LEMMA ServeKeeps == ASSUME CallsInv, NEW c \in Caller, NEW q \in pending, Serve(c, q) PROVE CallsInv'
<1>1. PICK id : id = IdentityOf(deployment.identity, q)
  OBVIOUS
<1>2. id.n = q.n
  BY <1>1 DEF IdentityOf
<1>3. pending' \subseteq pending /\ UNCHANGED wiring /\ routes # <<>>
  BY Zenon DEF Serve, wiring
<1>4. CASE UNCHANGED integrityVars /\ \E why : Refuse(c, why)
  <2>1. PICK why : caller' = [caller EXCEPT ![c] = [pc |-> "refused", why |-> why]]
    BY <1>4, Zenon DEF Refuse
  <2>2. PICK x : x = [pc |-> "refused", why |-> why]
    BY Zenon
  <2>3. x.pc = "refused"
    BY <2>2
  <2>4. CallOK(c, x)'
    BY <2>3, Zenon DEF CallOK, DecidedPCs
  <2>5. checks' = [checks EXCEPT ![c] = checks[c]] /\ accepted' = accepted
    BY <1>4 DEF CallsInv, integrityVars
  <2> QED BY <1>3, <2>1, <2>2, <2>4, <2>5, CallMoves, Zenon
<1>5. CASE /\ Verifies(deployment.identity, q.token)
           /\ caller' = [caller EXCEPT ![c] = [pc |-> "identified", req |-> q, id |-> id]]
           /\ IF deployment.integrity THEN StartCheck(c, id) ELSE UNCHANGED integrityVars
  <2>1. PICK x : x = [pc |-> "identified", req |-> q, id |-> id]
    BY Zenon
  <2>2. x.pc = "identified" /\ x.req = q
    BY <2>1
  <2>3. PICK k : k = IF deployment.integrity THEN [pc |-> "bind", req |-> id] ELSE checks[c]
    BY Zenon
  <2>4. checks' = [checks EXCEPT ![c] = k] /\ accepted' = accepted
    BY <1>5, <2>3 DEF CallsInv, integrityVars, StartCheck
  <2>5. checks'[c] = k
    BY <2>4 DEF CallsInv
  <2>6. deployment.integrity => k.pc = "bind" /\ k.req.n = q.n
    BY <1>2, <2>3
  <2>7. CallOK(c, x)'
    BY <1>3, <1>5, <2>2, <2>5, <2>6, Zenon DEF CallOK, DecidedPCs, wiring
  <2> QED BY <1>3, <1>5, <2>1, <2>4, <2>7, CallMoves, Zenon
<1> QED BY <1>1, <1>4, <1>5, Zenon DEF Serve

(* The integrity check of a request passes it or refuses it.               *)
LEMMA CheckKeeps == ASSUME CallsInv, NEW c \in Caller, IntegrityStep(c) PROVE CallsInv'
<1>1. PICK y : y = caller[c]
  OBVIOUS
<1>2. /\ UNCHANGED wiring /\ pending' = pending /\ caller' = [caller EXCEPT ![c] = y]
      /\ accepted \subseteq accepted'
  BY <1>1, Zenon DEF CallsInv, IntegrityStep, Bind, Replay, gatesVars
<1>3. PICK p \in {"replay", "refused", "passed"} :
        /\ checks' = [checks EXCEPT ![c] = [pc |-> p, req |-> checks[c].req]]
        /\ p = "passed" => [req |-> checks[c].req, at |-> now] \in accepted'
  BY Zenon DEF IntegrityStep, Bind, Replay
<1>4. checks'[c] = [pc |-> p, req |-> checks[c].req]
  <2>1. c \in DOMAIN checks
    BY DEF CallsInv
  <2> QED BY <1>3, <2>1
<1>5. checks'[c].pc = p /\ checks'[c].req = checks[c].req
  BY <1>4
<1>6. CallOK(c, y)
  BY <1>1 DEF CallsInv
<1>7. CASE y.pc = "identified"
  <2>1. p = "passed" => \E a \in accepted' : a.req = checks[c].req
    BY <1>3
  <2>2. CallOK(c, y)'
    BY <1>2, <1>5, <1>6, <1>7, <2>1, Zenon DEF CallOK, DecidedPCs, wiring
  <2>3. routes # <<>>
    BY <1>1, <1>7 DEF CallsInv, Wired
  <2> QED BY <1>2, <1>3, <2>2, <2>3, CallMoves, Zenon
<1>8. CASE y.pc # "identified"
  <2>1. \A q : Cleared(q) => Cleared(q)'
    BY <1>2 DEF Cleared, wiring
  <2>2. \A k : Routed(k) => Routed(k)'
    BY <1>2, Zenon DEF Routed, wiring
  <2>3. \A k, i : Judged(k, i)' = Judged(k, i)
    BY <1>2 DEF Judged, Asked, wiring
  <2>4. Permitted(y) => Permitted(y)'
    BY <2>3, Zenon DEF Permitted
  <2>5. CallOK(c, y)'
    BY <1>6, <1>8, <2>1, <2>2, <2>4, Zenon DEF CallOK
  <2>6. CASE routes # <<>>
    BY <1>2, <1>3, <2>5, <2>6, CallMoves, Zenon
  <2>7. CASE routes = <<>>
    <3>1. \A d \in Caller : caller'[d] = caller[d] /\ caller[d].pc = "idle"
      BY <1>2, <2>7 DEF CallsInv, Wired, IntegrityStep, gatesVars
    <3>2. \A d \in Caller : CallOK(d, caller[d])'
      BY <3>1, Zenon DEF CallOK, DecidedPCs
    <3>3. checks' = [d \in Caller |-> checks'[d]]
      BY <1>3 DEF CallsInv
    <3>4. Wired'
      BY <1>2, <2>7, <3>1 DEF CallsInv, Wired, wiring
    <3> QED BY <3>2, <3>3, <3>4 DEF CallsInv, IntegrityStep, gatesVars
  <2> QED BY <2>6, <2>7
<1> QED BY <1>7, <1>8

(* The routes in force are a sequence, their rules too.                    *)
LEMMA RoutesAre ==
    ASSUME Wired, routes # <<>>
    PROVE  /\ IsSeq(routes)
           /\ \A i \in DOMAIN routes :
                 /\ IsSeq(routes[i].rules)
                 /\ \A j \in DOMAIN routes[i].rules : routes[i].rules[j].injects \in Seq(Credential)
<1>1. PICK d \in Deployments : routes = d.routes
  BY InForceKeeps, Zenon DEF Wired, Configured
<1>2. \A i \in DOMAIN d.routes : d.routes[i].rules # NoRules
  BY <1>1, Zenon DEF Wired, RoutesLoad
<1> QED BY <1>1, <1>2, GatewayAssumption, Zenon

(* A tool that some route names goes to the last one that does, another to *)
(* the last route of a prefix of it.                                       *)
LEMMA ResolvedLast ==
    ASSUME Wired, routes # <<>>, NEW tool, NEW i \in Resolve(tool)
    PROVE  /\ i \in DOMAIN routes
           /\ \A j \in DOMAIN routes : tool \in routes[j].names =>
                 j <= i /\ tool \in routes[i].names
           /\ \/ tool \in routes[i].names
              \/ /\ routes[i].prefix \in PrefixesOf[tool]
                 /\ \A j \in DOMAIN routes : routes[j].prefix = routes[i].prefix => j <= i
<1>1. PICK n \in Nat : n = Len(routes) /\ DOMAIN routes = 1..n
  BY RoutesAre DEF IsSeq
<1>2. \A j : j \in Exact(tool) <=>
        /\ j \in 1..n /\ tool \in routes[j].names
        /\ \A m \in (j + 1)..n : ~(tool \in routes[m].names)
  BY <1>1 DEF Exact, LastWith
<1>3. CASE \E j \in DOMAIN routes : tool \in routes[j].names
  <2>1. PICK j \in 1..n : tool \in routes[j].names
    BY <1>1, <1>3
  <2>2. PICK S : S = {m \in Nat : m < n /\ tool \in routes[n - m].names}
    BY Zenon
  <2>3. S \in SUBSET Nat /\ n - j \in S
    BY <2>1, <2>2
  <2>4. PICK m \in S : \A l \in S : m <= l
    BY <2>3, LeastExists
  <2>5. n - m \in 1..n /\ tool \in routes[n - m].names
    BY <2>2, <2>4
  <2>6. \A l \in (n - m + 1)..n : ~(tool \in routes[l].names)
    <3> SUFFICES ASSUME NEW l \in (n - m + 1)..n, tool \in routes[l].names PROVE FALSE
      OBVIOUS
    <3>1. n - l \in Nat /\ n - l < n /\ n - (n - l) = l /\ m \in Nat
      BY <2>2, <2>4
    <3>2. n - l \in S
      BY <2>2, <3>1
    <3> QED BY <2>4, <3>1, <3>2
  <2>7. Exact(tool) # {}
    BY <1>2, <2>5, <2>6, Zenon
  <2>8. i \in Exact(tool)
    BY <2>7 DEF Resolve
  <2> QED BY <1>1, <1>2, <2>8
<1>4. CASE ~\E j \in DOMAIN routes : tool \in routes[j].names
  <2>1. i \in ByPrefix(tool)
    BY <1>4 DEF Resolve, Exact, LastWith
  <2>2. PICK p \in PrefixesOf[tool] :
          /\ i \in DOMAIN routes /\ routes[i].prefix = p
          /\ \A j \in (i + 1)..n : ~(routes[j].prefix = p)
    BY <1>1, <2>1 DEF ByPrefix, LastWith
  <2>3. \A j \in DOMAIN routes : routes[j].prefix = p => j <= i
    BY <1>1, <2>2
  <2> QED BY <1>4, <2>2, <2>3, Zenon
<1> QED BY <1>3, <1>4, Zenon

(* What the engine of a route decides, it decides by a rule of that route. *)
LEMMA JudgedBy ==
    ASSUME Wired, routes # <<>>, NEW k, NEW i \in DOMAIN routes
    PROVE  /\ Judged(k, i).held => ~Judged(k, i).scoped
           /\ Judged(k, i).allowed \/ Judged(k, i).held =>
                 routes[i].rules[Judged(k, i).index].injects \in Seq(Credential)
<1>1. PICK rules : rules = routes[i].rules /\ IsSeq(rules)
  BY RoutesAre
<1>2. PICK q : q = Asked(k)
  OBVIOUS
<1>3. PICK d : d = Judged(k, i) /\ d = Evaluate(rules, q)
  BY <1>1, <1>2 DEF Judged
<1>4. PICK stopping : stopping = {j \in DOMAIN rules : Stops(rules[j], q)}
  BY Zenon
<1>5. \A class, j : /\ Decision(class, j).allowed <=> class \in {"allowed", "policy_scoped"}
                    /\ Decision(class, j).held <=> class = "policy_held"
                    /\ Decision(class, j).scoped <=> class = "policy_scoped"
                    /\ Decision(class, j).index = j
  BY Zenon DEF Decision
<1>6. CASE stopping = {}
  <2>1. d = Decision("default_deny", 0)
    BY <1>3, <1>4, <1>6 DEF Evaluate
  <2> QED BY <1>3, <1>5, <2>1, Zenon
<1>7. CASE stopping # {}
  <2>1. stopping \in SUBSET Nat
    BY <1>1, <1>4 DEF IsSeq
  <2>2. PICK j \in stopping : d = Decision(ReasonClass(rules[j], q), j)
    BY <1>3, <1>4, <1>7, <2>1, LeastNatural, Zenon DEF Evaluate
  <2>3. d.index = j /\ j \in DOMAIN rules /\ (d.held => ~d.scoped)
    BY <1>4, <1>5, <2>2, Zenon
  <2> QED BY <1>1, <1>3, <2>3, RoutesAre, Zenon
<1> QED BY <1>6, <1>7, Zenon

(* The route is looked up and its registry asked.                          *)
LEMMA DispatchKeeps == ASSUME CallsInv, NEW c \in Caller, Dispatch(c) PROVE CallsInv'
<1>1. PICK x : x = caller[c]
  OBVIOUS
<1>2. PICK q : q = x.req
  OBVIOUS
<1>3. /\ x.pc = "identified" /\ CallOK(c, x) /\ routes # <<>>
      /\ UNCHANGED <<wiring, pending, accepted>>
  BY <1>1, Zenon DEF CallsInv, Wired, Dispatch, EndCheck, integrityVars
<1>4. PICK k : checks' = [checks EXCEPT ![c] = k]
  BY DEF CallsInv, Dispatch, EndCheck, integrityVars
<1>5. ~(deployment.integrity /\ checks[c].pc = "refused") => Cleared(q)
  BY <1>1, <1>2, <1>3, Zenon DEF CallOK, Cleared, Dispatch, EndCheck
<1>6. ASSUME NEW y, caller' = [caller EXCEPT ![c] = y], CallOK(c, y)'
      PROVE  CallsInv'
  BY <1>3, <1>4, <1>6, CallMoves, Zenon
<1>7. \A r : Cleared(r) => Cleared(r)'
  BY <1>3, Zenon DEF Cleared, wiring
<1>8. \A r : Routed(r) => Routed(r)'
  BY <1>3, Zenon DEF Routed, wiring
<1>9. ASSUME NEW why, Refuse(c, why) PROVE CallsInv'
  <2>1. PICK y : y = [pc |-> "refused", why |-> why]
    BY Zenon
  <2>2. y.pc = "refused"
    BY <2>1
  <2>3. CallOK(c, y)'
    BY <2>2, Zenon DEF CallOK, DecidedPCs
  <2> QED BY <1>6, <1>9, <2>1, <2>3, Zenon DEF Refuse
<1>10. ASSUME Cleared(q), q.method = "other",
              caller' = [caller EXCEPT ![c] = [pc |-> "forward", call |-> CallOf(q, x.id, 1)]]
       PROVE  CallsInv'
  <2>1. PICK y : y = [pc |-> "forward", call |-> CallOf(q, x.id, 1)]
    BY Zenon
  <2>2. y.pc = "forward" /\ y.call.req = q
    BY <2>1 DEF CallOf
  <2>3. CallOK(c, y)'
    BY <1>7, <1>10, <2>2, Zenon DEF CallOK, DecidedPCs
  <2> QED BY <1>6, <1>10, <2>1, <2>3, Zenon
<1>11. ASSUME Cleared(q), NEW i \in Resolve(q.tool), q.tool \in routes[i].registry,
              NEW p \in {"trip", "policy"},
              caller' = [caller EXCEPT ![c] = [pc |-> p, call |-> CallOf(q, x.id, i)]]
       PROVE  CallsInv'
  <2>1. PICK y : y = [pc |-> p, call |-> CallOf(q, x.id, i)]
    BY Zenon
  <2>2. y.pc = p /\ y.call.req = q /\ y.call.route = i
    BY <2>1 DEF CallOf
  <2>3. Routed(y.call)
    BY <1>3, <1>11, <2>2, ResolvedLast DEF Routed, CallsInv
  <2>4. CallOK(c, y)'
    BY <1>7, <1>8, <1>11, <2>2, <2>3, Zenon DEF CallOK, DecidedPCs
  <2> QED BY <1>6, <1>11, <2>1, <2>4, Zenon
<1>12. CASE deployment.integrity /\ checks[c].pc = "refused"
  BY <1>9, <1>12, Zenon DEF Dispatch
<1>13. CASE ~(deployment.integrity /\ checks[c].pc = "refused")
  <2>1. \/ q.method = "other" /\ caller' = [caller EXCEPT ![c] = [pc |-> "forward", call |-> CallOf(q, x.id, 1)]]
        \/ \E why : Refuse(c, why)
        \/ \E i \in Resolve(q.tool) :
              /\ q.tool \in routes[i].registry
              /\ \E p \in {"trip", "policy"} :
                    caller' = [caller EXCEPT ![c] = [pc |-> p, call |-> CallOf(q, x.id, i)]]
    BY <1>1, <1>2, <1>13, Zenon DEF Dispatch
  <2> QED BY <1>5, <1>9, <1>10, <1>11, <1>13, <2>1, Zenon
<1> QED BY <1>12, <1>13

(* The route's own rules decide.                                           *)
LEMMA EvaluateKeeps == ASSUME CallsInv, NEW c \in Caller, EvaluateRoute(c) PROVE CallsInv'
<1>1. PICK k : k = caller[c].call
  OBVIOUS
<1>2. PICK d : d = Judged(k, k.route)
  OBVIOUS
<1>3. PICK r : r = routes[k.route].rules[d.index]
  OBVIOUS
<1>4. /\ caller[c].pc = "policy" /\ CallOK(c, caller[c]) /\ routes # <<>> /\ Wired
      /\ UNCHANGED <<wiring, pending, accepted, checks>>
  BY Zenon DEF CallsInv, Wired, EvaluateRoute, integrityVars
<1>5. Cleared(k.req) /\ Routed(k)
  BY <1>1, <1>4, Zenon DEF CallOK
<1>6. CASE \E why : Refuse(c, why)
  BY <1>4, <1>6, RefusedCall, Zenon
<1>7. CASE /\ d.allowed \/ d.held
           /\ caller' = [caller EXCEPT ![c] =
                 [pc |-> IF d.held THEN "held" ELSE IF d.scoped THEN "scope" ELSE "rates",
                  call |-> k, rule |-> r, approved |-> FALSE, todo |-> r.injects]]
  <2>1. PICK p : p = IF d.held THEN "held" ELSE IF d.scoped THEN "scope" ELSE "rates"
    OBVIOUS
  <2>2. PICK y : y = [pc |-> p, call |-> k, rule |-> r, approved |-> FALSE, todo |-> r.injects]
    BY Zenon
  <2>3. y.pc = p /\ y.call = k /\ y.todo = r.injects
    BY <2>2
  <2>4. r.injects \in Seq(Credential) /\ (d.held => ~d.scoped)
    BY <1>2, <1>3, <1>4, <1>5, <1>7, JudgedBy, Zenon DEF Routed
  <2>5. IsDecided(y)
    BY <2>2, <2>4 DEF IsDecided
  <2>6. Permitted(y)
    BY <1>2, <1>7, <2>1, <2>3, <2>4, Zenon DEF Permitted
  <2>7. CallOK(c, y)
    BY <1>5, <2>1, <2>3, <2>5, <2>6, Zenon DEF CallOK, DecidedPCs
  <2>8. CallOK(c, y)'
    BY <1>4, <2>7, CallStays, Zenon
  <2>9. checks' = [checks EXCEPT ![c] = checks[c]]
    BY <1>4 DEF CallsInv
  <2> QED BY <1>4, <1>7, <2>1, <2>2, <2>8, <2>9, CallMoves, Zenon
<1> QED BY <1>1, <1>2, <1>3, <1>6, <1>7, Zenon DEF EvaluateRoute

(* The answer to a held call.                                              *)
LEMMA AnswerKeeps == ASSUME CallsInv, NEW c \in Caller, AwaitAnswer(c) PROVE CallsInv'
<1>1. /\ caller[c].pc = "held" /\ CallOK(c, caller[c]) /\ routes # <<>>
      /\ UNCHANGED <<wiring, pending, accepted, checks>>
  BY DEF CallsInv, Wired, AwaitAnswer, integrityVars
<1>2. CASE \E why : Refuse(c, why)
  BY <1>1, <1>2, RefusedCall
<1>3. CASE caller' = [caller EXCEPT ![c].pc = "rates", ![c].approved = TRUE]
  <2>1. PICK x : x = caller[c] /\ CallOK(c, x)
    BY <1>1
  <2>2. IsDecided(x) /\ Cleared(x.call.req) /\ Routed(x.call) /\ Permitted(x) /\ x.pc = "held"
    BY <1>1, <2>1, Zenon DEF CallOK, DecidedPCs
  <2>t. PICK t : t = TRUE
    OBVIOUS
  <2>3. PICK y : y = [pc |-> "rates", call |-> x.call, rule |-> x.rule, approved |-> t, todo |-> x.todo]
    BY Zenon
  <2>4. y.pc = "rates" /\ y.call = x.call /\ y.approved /\ y.todo = x.todo
    BY <2>t, <2>3
  <2>5. IsDecided(y)
    BY <2>2, <2>3 DEF IsDecided
  <2>6. Permitted(y)
    BY <2>2, <2>4, Zenon DEF Permitted
  <2>7. CallOK(c, y)
    BY <2>2, <2>4, <2>5, <2>6, Zenon DEF CallOK, DecidedPCs
  <2>8. CallOK(c, y)'
    BY <1>1, <2>7, CallStays, Zenon
  <2>9. [[x EXCEPT !.pc = "rates"] EXCEPT !.approved = TRUE] = y
    <3>1. PICK z : z = [x EXCEPT !.pc = "rates"]
      BY Zenon
    <3>2. z = [pc |-> "rates", call |-> x.call, rule |-> x.rule, approved |-> x.approved, todo |-> x.todo]
      BY <2>2, <3>1, Zenon DEF IsDecided
    <3>3. [z EXCEPT !.approved = t] = y
      BY <2>3, <3>2
    <3> QED BY <2>t, <3>1, <3>3
  <2>10. caller' = [caller EXCEPT ![c] = y]
    BY <1>3, <2>1, <2>9, Zenon DEF CallsInv
  <2>11. checks' = [checks EXCEPT ![c] = checks[c]]
    BY <1>1 DEF CallsInv
  <2> QED BY <1>1, <2>8, <2>10, <2>11, CallMoves, Zenon
<1> QED BY <1>2, <1>3 DEF AwaitAnswer

(* From one charge to the next, and from the last credential to the first  *)
(* charge, nothing changes but the place.                                  *)
LEMMA GotoKeepsCall ==
    ASSUME CallsInv, NEW c \in Caller, NEW p \in {"rates", "budget", "record", "velocity", "forward"},
           caller[c].pc \in DecidedPCs \ {"held", "forward"}, caller[c].pc = "scope" => caller[c].todo = <<>>,
           Goto(c, p), UNCHANGED <<wiring, pending, accepted, checks>>
    PROVE  CallsInv'
<1>1. PICK x : x = caller[c] /\ CallOK(c, x)
  BY DEF CallsInv
<1>2. /\ IsDecided(x) /\ Cleared(x.call.req) /\ Routed(x.call) /\ Permitted(x)
      /\ x.pc \in DecidedPCs /\ x.pc # "held" /\ routes # <<>>
  BY <1>1, Zenon DEF CallOK, DecidedPCs, CallsInv, Wired
<1>3. PICK y : y = [x EXCEPT !.pc = p]
  BY Zenon
<1>4. y = [pc |-> p, call |-> x.call, rule |-> x.rule, approved |-> x.approved, todo |-> x.todo]
  BY <1>2, <1>3 DEF IsDecided
<1>5. y.pc = p /\ y.call = x.call /\ y.approved = x.approved /\ y.todo = x.todo
  BY <1>4, Zenon
<1>6. IsDecided(y)
  BY <1>2, <1>4 DEF IsDecided
<1>7. Permitted(y)
  BY <1>1, <1>2, <1>5, Zenon DEF Permitted
<1>8. CallOK(c, y)
  BY <1>2, <1>5, <1>6, <1>7, Zenon DEF CallOK, DecidedPCs
<1>9. CallOK(c, y)'
  BY <1>8, CallStays, Zenon
<1>10. caller' = [caller EXCEPT ![c] = y]
  BY <1>1, <1>3 DEF CallsInv, Goto
<1>11. checks' = [checks EXCEPT ![c] = checks[c]]
  BY DEF CallsInv
<1> QED BY <1>2, <1>9, <1>10, <1>11, CallMoves, Zenon

(* The charging of a call.                                                 *)
LEMMA ChargeKeepsCall == ASSUME CallsInv, NEW c \in Caller, ChargeStep(c) PROVE CallsInv'
<1>1. UNCHANGED <<wiring, pending, accepted, checks>>
  BY DEF ChargeStep, integrityVars
<1>2. caller[c].pc # "idle" => routes # <<>>
  BY DEF CallsInv, Wired
<1>3. CASE Finish(c)
  <2>1. Idle.pc = "idle"
    BY DEF Idle
  <2>2. CallOK(c, Idle)'
    BY <2>1, Zenon DEF CallOK, DecidedPCs
  <2>3. checks' = [checks EXCEPT ![c] = checks[c]]
    BY <1>1 DEF CallsInv
  <2> QED BY <1>1, <1>2, <1>3, <2>2, <2>3, CallMoves, Zenon DEF Finish
<1>4. CASE Trip(c)
  BY <1>1, <1>2, <1>4, RefusedCall, Zenon DEF Trip
<1>5. CASE ChargeRates(c) \/ ChargeBudget(c) \/ RecordCall(c) \/ ChargeVelocity(c) \/ Untracked(c)
  <2>1. /\ caller[c].pc \in {"rates", "budget", "record", "velocity"}
        /\ \/ \E why : Refuse(c, why)
           \/ \E p \in {"budget", "record", "velocity", "forward"} : Goto(c, p)
    BY <1>5, Zenon DEF ChargeRates, ChargeBudget, RecordCall, ChargeVelocity, Untracked
  <2>2. CASE \E why : Refuse(c, why)
    BY <1>1, <1>2, <2>1, <2>2, RefusedCall, Zenon
  <2>3. CASE \E p \in {"budget", "record", "velocity", "forward"} : Goto(c, p)
    <3>1. caller[c].pc \in DecidedPCs \ {"held", "forward"} /\ caller[c].pc # "scope"
      BY <2>1 DEF DecidedPCs
    <3> QED BY <1>1, <2>3, <3>1, GotoKeepsCall
  <2> QED BY <2>1, <2>2, <2>3, Zenon
<1> QED BY <1>3, <1>4, <1>5 DEF ChargeStep

(* A fetch is under way only for a credential that is still to do.         *)
Fetching == \A c \in Caller : fetches[c].pc # "off" => caller[c].pc = "scope" /\ caller[c].todo # <<>>

(* A call that is to have credentials starts to fetch them.                *)
LEMMA InjectKeeps == ASSUME CallsInv, NEW c \in Caller, Inject(c) PROVE CallsInv'
<1>1. /\ caller[c].pc = "scope" /\ UNCHANGED <<wiring, pending, accepted, checks>>
  BY DEF Inject, integrityVars
<1>2. CASE UNCHANGED caller
  BY <1>1, <1>2, CallRests, Zenon
<1>3. CASE caller[c].todo = <<>> /\ Goto(c, "rates")
  <2>1. caller[c].pc \in DecidedPCs \ {"held", "forward"}
    BY <1>1 DEF DecidedPCs
  <2> QED BY <1>1, <1>3, <2>1, GotoKeepsCall
<1> QED BY <1>2, <1>3, Zenon DEF Inject

(* It goes on when the fetch succeeded.                                    *)
LEMMA InjectedKeeps == ASSUME CallsInv, Fetching, NEW c \in Caller, Injected(c) PROVE CallsInv'
<1>1. /\ caller[c].pc = "scope" /\ UNCHANGED <<wiring, pending, accepted, checks>> /\ routes # <<>>
      /\ caller[c].todo # <<>>
  BY DEF CallsInv, Wired, Injected, integrityVars, Fetching, EndFetch
<1>2. CASE \E why : Refuse(c, why)
  BY <1>1, <1>2, RefusedCall, Zenon
<1>3. CASE caller' = [caller EXCEPT ![c].todo = Tail(@)]
  <2>1. PICK x : x = caller[c] /\ CallOK(c, x)
    BY DEF CallsInv
  <2>2. IsDecided(x) /\ Cleared(x.call.req) /\ Routed(x.call) /\ Permitted(x) /\ x.pc = "scope"
    BY <1>1, <2>1, Zenon DEF CallOK, DecidedPCs
  <2>3. PICK y : y = [x EXCEPT !.todo = Tail(x.todo)]
    BY Zenon
  <2>4. y = [pc |-> x.pc, call |-> x.call, rule |-> x.rule, approved |-> x.approved, todo |-> Tail(x.todo)]
    BY <2>2, <2>3, Zenon DEF IsDecided
  <2>5. y.pc = x.pc /\ y.call = x.call /\ y.approved = x.approved
    BY <2>4
  <2>6. Tail(x.todo) \in Seq(Credential)
    <3>1. x.todo \in Seq(Credential)
      BY <2>2 DEF IsDecided
    <3>2. x.todo # <<>>
      BY <1>1, <2>1
    <3> QED BY <3>1, <3>2
  <2>7. IsDecided(y)
    BY <2>4, <2>6 DEF IsDecided
  <2>8. Permitted(y)
    BY <2>2, <2>5, Zenon DEF Permitted
  <2>9. CallOK(c, y)
    BY <2>2, <2>5, <2>7, <2>8, Zenon DEF CallOK, DecidedPCs
  <2>10. CallOK(c, y)'
    BY <1>1, <2>9, CallStays, Zenon
  <2>11. caller' = [caller EXCEPT ![c] = y]
    BY <1>3, <2>1, <2>3 DEF CallsInv
  <2>12. checks' = [checks EXCEPT ![c] = checks[c]]
    BY <1>1 DEF CallsInv
  <2> QED BY <1>1, <2>10, <2>11, <2>12, CallMoves, Zenon
<1> QED BY <1>2, <1>3 DEF Injected

(* Requests begin with a gateway that loaded its routes.                   *)
LEMMA CallsStart == Init => CallsInv
<1> SUFFICES ASSUME Init PROVE CallsInv
  OBVIOUS
<1>1. \A c \in Caller : caller[c] = Idle /\ Idle.pc = "idle"
  BY DEF Init, GatesInit, Idle
<1>2. \A c \in Caller : CallOK(c, caller[c])
  BY <1>1, Zenon DEF CallOK, DecidedPCs
<1>3. Wired
  BY <1>1, Zenon DEF Init, Wired, Configured
<1>4. caller = [c \in Caller |-> caller[c]] /\ checks = [c \in Caller |-> checks[c]]
  BY GatewayAssumption, Zenon DEF Init, GatesInit, IntegrityInit
<1> QED BY <1>2, <1>3, <1>4 DEF CallsInv

(* Nobody fetches at the start.                                            *)
LEMMA FetchingStarts == Init => Fetching
<1> SUFFICES ASSUME Init PROVE Fetching
  OBVIOUS
<1>1. Fetcher = Caller /\ fetches = [c \in Fetcher |-> NoFetch] /\ NoFetch.pc = "off"
  BY GatewayAssumption, Zenon DEF Init, CredentialsInit, NoFetch
<1> QED BY <1>1 DEF Fetching

(* Who is not at SCOPE has no fetch under way, and other steps start none. *)
LEMMA FetchingStays ==
    ASSUME Fetching, CallsInv, NEW c \in Caller, NEW x, caller[c].pc # "scope",
           caller' = [caller EXCEPT ![c] = x], UNCHANGED fetches
    PROVE  Fetching'
<1>1. \A d \in Caller : d # c => caller'[d] = caller[d]
  BY DEF CallsInv
<1> QED BY <1>1, Zenon DEF Fetching

(* A fetch belongs to a call that is waiting for it.                       *)
LEMMA FetchingNext ==
    ASSUME Fetching, CallsInv, CredentialInv, [Next]_vars
    PROVE  Fetching'
<1>0. fetches \in [Caller -> FetchState]
  BY GatewayAssumption, Zenon DEF CredentialInv, CredentialTypes
<1>1. ASSUME UNCHANGED <<caller, fetches>> PROVE Fetching'
  BY <1>1, Zenon DEF Fetching
<1>2. ASSUME NEW c \in Caller, NEW q, Serve(c, q) PROVE Fetching'
  <2>1. PICK x : caller' = [caller EXCEPT ![c] = x]
    BY <1>2, Zenon DEF Serve, Refuse
  <2> QED BY <1>2, <2>1, FetchingStays, Zenon DEF Serve, credentialVars
<1>3. ASSUME NEW c \in Caller, Dispatch(c) PROVE Fetching'
  <2>1. PICK x : caller' = [caller EXCEPT ![c] = x]
    BY <1>3, Zenon DEF Dispatch, Refuse
  <2> QED BY <1>3, <2>1, FetchingStays, Zenon DEF Dispatch, credentialVars
<1>4. ASSUME NEW c \in Caller, EvaluateRoute(c) PROVE Fetching'
  <2>1. PICK x : caller' = [caller EXCEPT ![c] = x]
    BY <1>4, Zenon DEF EvaluateRoute, Refuse
  <2> QED BY <1>4, <2>1, FetchingStays, Zenon DEF EvaluateRoute, credentialVars
<1>5. ASSUME NEW c \in Caller, AwaitAnswer(c) PROVE Fetching'
  <2>1. PICK x : caller' = [caller EXCEPT ![c] = x]
    BY <1>5 DEF AwaitAnswer, Refuse, CallsInv
  <2> QED BY <1>5, <2>1, FetchingStays, Zenon DEF AwaitAnswer, credentialVars
<1>6. ASSUME NEW c \in Caller, ChargeStep(c) PROVE Fetching'
  <2>1. PICK x : caller' = [caller EXCEPT ![c] = x]
    BY <1>6, Zenon DEF ChargeStep, Trip, ChargeRates, ChargeBudget, RecordCall, ChargeVelocity, Finish,
               Untracked, Refuse, Goto, CallsInv
  <2>2. caller[c].pc # "scope"
    BY <1>6, Zenon DEF ChargeStep, Trip, ChargeRates, ChargeBudget, RecordCall, ChargeVelocity, Finish, Untracked
  <2> QED BY <1>6, <2>1, <2>2, FetchingStays, Zenon DEF ChargeStep, credentialVars
<1>7. ASSUME NEW c \in Caller, Inject(c) PROVE Fetching'
  <2>1. CASE /\ caller[c].pc = "scope" /\ caller[c].todo # <<>> /\ UNCHANGED caller
             /\ FetchFrom(c, Head(caller[c].todo))
    <3>1. \A d \in Caller : d # c => fetches'[d] = fetches[d]
      BY <1>0, <2>1, Zenon DEF FetchFrom
    <3> QED BY <2>1, <3>1, Zenon DEF Fetching
  <2>2. CASE caller[c].todo = <<>> /\ Goto(c, "rates") /\ UNCHANGED credentialVars
    <3>1. fetches[c].pc = "off"
      BY <2>2, Zenon DEF Fetching
    <3>2. \A d \in Caller : d # c => caller'[d] = caller[d]
      BY <2>2 DEF CallsInv, Goto
    <3> QED BY <2>2, <3>1, <3>2, Zenon DEF Fetching, credentialVars
  <2> QED BY <1>7, <2>1, <2>2, Zenon DEF Inject
<1>8. ASSUME NEW c \in Caller, Injected(c) PROVE Fetching'
  <2>1. PICK x : caller' = [caller EXCEPT ![c] = x]
    BY <1>8 DEF Injected, Refuse, CallsInv
  <2>2. \A d \in Caller : d # c => caller'[d] = caller[d] /\ fetches'[d] = fetches[d]
    BY <1>0, <1>8, <2>1 DEF CallsInv, Injected, EndFetch
  <2>3. fetches'[c].pc = "off"
    BY <1>0, <1>8, Zenon DEF Injected, EndFetch, NoFetch
  <2> QED BY <2>2, <2>3, Zenon DEF Fetching
<1>9. ASSUME NEW c \in Caller, FetchStep(c), UNCHANGED caller PROVE Fetching'
  <2>1. fetches[c].pc # "off"
    BY <1>9 DEF FetchStep, LookInCache, Login, ReadSecret, StoreSecret, At
  <2>2. \A d \in Caller : d # c => fetches'[d] = fetches[d]
    BY <1>0, <1>9 DEF FetchStep, LookInCache, Login, ReadSecret, StoreSecret, FetchGoes
  <2> QED BY <1>9, <2>1, <2>2 DEF Fetching
<1>10. CASE Boot
  BY <1>1, <1>10 DEF Boot, gatesVars, credentialVars
<1>11. CASE \E c \in Caller : IntegrityStep(c)
  BY <1>1, <1>11 DEF IntegrityStep, gatesVars, credentialVars
<1>12. CASE SweepStep /\ UNCHANGED <<credentialVars, wiring, pending>>
  BY <1>1, <1>12 DEF SweepStep, SweepSessions, gatesVars, credentialVars
<1>13. CASE \E r \in Ref : RotateSecret(r) /\ UNCHANGED <<gatesVars, integrityVars, wiring, pending>>
  BY <1>1, <1>13 DEF RotateSecret, gatesVars
<1>14. CASE Clock /\ StillHeld
  BY <1>1, <1>14, Zenon DEF Clock, StillHeld
<1>15. CASE UNCHANGED vars
  BY <1>1, <1>15 DEF vars, gatesVars, credentialVars
<1> QED BY <1>2, <1>3, <1>4, <1>5, <1>6, <1>7, <1>8, <1>9, <1>10, <1>11, <1>12, <1>13, <1>14, <1>15, Zenon
        DEF Next, gatesVars

(* Every step of the gateway preserves what is known of its requests.      *)
LEMMA CallsNext ==
    ASSUME CallsInv, Fetching, [Next]_vars
    PROVE  CallsInv'
<1>1. CASE Boot
  BY <1>1, BootKeeps
<1>2. CASE \E c \in Caller, q \in pending : Serve(c, q)
  BY <1>2, ServeKeeps
<1>3. CASE \E c \in Caller : IntegrityStep(c) \/ Dispatch(c) \/ EvaluateRoute(c) \/ AwaitAnswer(c)
  BY <1>3, CheckKeeps, DispatchKeeps, EvaluateKeeps, AnswerKeeps
<1>4. CASE \E c \in Caller : Inject(c) \/ Injected(c) \/ ChargeStep(c)
  BY <1>4, InjectKeeps, InjectedKeeps, ChargeKeepsCall
<1>5. CASE UNCHANGED <<gatesVars, integrityVars, wiring, pending>>
  BY <1>5, CallRests DEF gatesVars, integrityVars
<1>6. CASE SweepStep /\ UNCHANGED <<credentialVars, wiring, pending>>
  BY <1>6, CallRests, Zenon DEF SweepStep, SweepSessions, SweepReplay, gatesVars, integrityVars
<1>7. CASE Clock /\ UNCHANGED <<integrityVars, wiring, pending>>
  BY <1>7, CallRests DEF Clock, integrityVars
<1>8. CASE UNCHANGED vars
  BY <1>8, CallRests, Zenon DEF vars, gatesVars, integrityVars, wiring
<1> QED BY <1>1, <1>2, <1>3, <1>4, <1>5, <1>6, <1>7, <1>8, Zenon DEF Next

(* Steps that are no business of the integrity check.                      *)
LEMMA IntegrityRests == IntegrityInv /\ UNCHANGED <<integrityVars, now>> => IntegrityInv'
  BY Zenon DEF IntegrityInv, IntegrityTypes, BindInv, ReplayInv, Apart, OneOwner, Owns, Remembered, integrityVars

(* In the gateway, only identities of its traffic are checked.             *)
LEMMA IntegrityComposed ==
    ASSUME CallsInv, IntegrityInv, [Next]_vars
    PROVE  IntegrityInv'
<1>1. CASE \E c \in Caller, q \in pending : Serve(c, q)
  <2>1. PICK c \in Caller, q \in pending : Serve(c, q)
    BY <1>1
  <2>2. PICK id : id = IdentityOf(deployment.identity, q)
    OBVIOUS
  <2>3. id \in Checked
    BY <2>2 DEF CallsInv, Wired, Checked
  <2>4. UNCHANGED now /\ (StartCheck(c, id) \/ UNCHANGED integrityVars)
    BY <2>1, <2>2, Zenon DEF Serve
  <2> QED BY <2>3, <2>4, StartKeeps, IntegrityRests, GatewayAssumption, Zenon
<1>2. CASE \E c \in Caller : IntegrityStep(c)
  BY <1>2, BindKeeps, ReplayKeeps, GatewayAssumption, Zenon DEF IntegrityStep, gatesVars
<1>3. CASE \E c \in Caller : Dispatch(c)
  BY <1>3, EndCheckKeeps, IntegrityRests, GatewayAssumption, Zenon DEF Dispatch
<1>4. CASE \E c \in Caller : EvaluateRoute(c) \/ AwaitAnswer(c) \/ Inject(c) \/ Injected(c)
  BY <1>4, IntegrityRests, Zenon DEF EvaluateRoute, AwaitAnswer, Inject, Injected
<1>5. CASE \E c \in Caller : ChargeStep(c)
  BY <1>5, IntegrityRests, Zenon
     DEF ChargeStep, Trip, ChargeRates, ChargeBudget, RecordCall, ChargeVelocity, Finish, Untracked
<1>6. CASE Boot \/ UNCHANGED <<gatesVars, integrityVars>>
  BY <1>6, IntegrityRests DEF Boot, gatesVars
<1>7. CASE SweepStep
  BY <1>7, SweepKeeps, IntegrityRests DEF SweepStep, SweepSessions, gatesVars
<1>8. CASE Clock /\ UNCHANGED integrityVars
  BY <1>8, AgeKeeps DEF Clock
<1>9. CASE UNCHANGED vars
  BY <1>9, IntegrityRests DEF vars, gatesVars
<1> QED BY <1>1, <1>2, <1>3, <1>4, <1>5, <1>6, <1>7, <1>8, <1>9, Zenon DEF Next

(* Steps that are no business of the credentials.                          *)
LEMMA CredentialsRest == CredentialInv /\ UNCHANGED <<credentialVars, now>> => CredentialInv'
  BY Zenon DEF CredentialInv, CredentialTypes, HeldInv, EntryOK, FetchOK, credentialVars

(* In the gateway, only credentials that its rules name are fetched.       *)
LEMMA CredentialsComposed ==
    ASSUME CallsInv, CredentialInv, [Next]_vars
    PROVE  CredentialInv'
<1>1. CASE \E c \in Caller : Inject(c)
  <2>1. PICK c \in Caller : Inject(c)
    BY <1>1
  <2>2. CASE caller[c].todo # <<>> /\ FetchFrom(c, Head(caller[c].todo))
    <3>1. IsDecided(caller[c])
      BY <2>1, Zenon DEF CallsInv, CallOK, DecidedPCs, Inject
    <3>2. caller[c].todo \in Seq(Credential) /\ caller[c].todo # <<>>
      BY <2>2, <3>1, Zenon DEF IsDecided
    <3>3. PICK k \in Credential : k = Head(caller[c].todo)
      BY <3>2
    <3> QED BY <2>1, <2>2, <3>3, FromKeeps, GatewayAssumption, Zenon DEF Inject
  <2>3. CASE UNCHANGED credentialVars
    BY <2>1, <2>3, CredentialsRest, Zenon DEF Inject
  <2> QED BY <2>1, <2>2, <2>3, Zenon DEF Inject
<1>2. CASE \E c \in Caller : Injected(c)
  BY <1>2, EndFetchKeeps, GatewayAssumption DEF Injected
<1>3. CASE \E c \in Caller : FetchStep(c) /\ UNCHANGED now
  BY <1>3, LookKeeps, LoginKeeps, ReadKeeps, StoreKeeps, GatewayAssumption, Zenon DEF FetchStep
<1>4. CASE \E r \in Ref : RotateSecret(r) /\ UNCHANGED now
  BY <1>4, RotateKeeps
<1>5. CASE Clock /\ StillHeld
  BY <1>5, StillHeldKeeps DEF Clock
<1>6. CASE UNCHANGED <<credentialVars, now>>
  BY <1>6, CredentialsRest
<1>7. CASE \E c \in Caller, q \in pending : Serve(c, q)
  BY <1>6, <1>7, Zenon DEF Serve
<1>8. CASE \E c \in Caller : IntegrityStep(c) \/ Dispatch(c) \/ EvaluateRoute(c) \/ AwaitAnswer(c)
  BY <1>6, <1>8, Zenon DEF IntegrityStep, Dispatch, EvaluateRoute, AwaitAnswer, gatesVars
<1>9. CASE \E c \in Caller : ChargeStep(c)
  BY <1>6, <1>9, Zenon DEF ChargeStep, Trip, ChargeRates, ChargeBudget, RecordCall, ChargeVelocity, Finish, Untracked
<1>10. CASE Boot \/ (SweepStep /\ UNCHANGED credentialVars)
  BY <1>6, <1>10, Zenon DEF Boot, SweepStep, SweepSessions, gatesVars
<1>11. CASE UNCHANGED vars
  BY <1>6, <1>11 DEF vars, gatesVars
<1> QED BY <1>1, <1>2, <1>3, <1>4, <1>5, <1>7, <1>8, <1>9, <1>10, <1>11, Zenon DEF Next, gatesVars

GatewayInv == CallsInv /\ Fetching /\ IntegrityInv /\ CredentialInv

(* The invariants together, in every reachable state.                      *)
LEMMA GatewayInvariant == Spec => []GatewayInv
<1>1. Init => GatewayInv
  BY CallsStart, FetchingStarts, IntegrityStarts, CredentialsStart, Zenon
     DEF Init, GatesInit, BreakerInit, GatewayInv
<1>2. GatewayInv /\ [Next]_vars => GatewayInv'
  BY CallsNext, FetchingNext, IntegrityComposed, CredentialsComposed DEF GatewayInv
<1> QED BY <1>1, <1>2, PTL DEF Spec

(* The token is of a provider of the configuration.                        *)
Issued(cfg, token) ==
    cfg.providers # <<>> \/ cfg.jwks =>
        /\ token # NoToken
        /\ \E p \in IF cfg.providers # <<>> THEN {cfg.providers[i] : i \in DOMAIN cfg.providers}
                     ELSE {EnvProvider(cfg)} :
              token.signer = p.name /\ p.issuer \in {"", token.iss}

(* What the choice of verifier leaves to be true of an accepted token.     *)
LEMMA VerifiedBy == \A cfg, token : Verifies(cfg, token) => Issued(cfg, token)
  BY ZenonT(40) DEF Verifies, SelectVerifier, MultiAccepts, JwksAccepts, Issued

(* The invariant gives what is to be shown.                                *)
LEMMA CallsAreVetted == CallsInv => ForwardedVetted
<1> SUFFICES ASSUME CallsInv, NEW c \in Caller, caller[c].pc = "forward"
             PROVE  LET k == caller[c].call
                        q == k.req
                        cfg == deployment.identity
                        providers == IF cfg.providers # <<>>
                                     THEN {cfg.providers[i] : i \in DOMAIN cfg.providers}
                                     ELSE {EnvProvider(cfg)}
                        d == Judged(k, k.route)
                    IN  /\ cfg.providers # <<>> \/ cfg.jwks =>
                              /\ q.token # NoToken
                              /\ \E p \in providers : q.token.signer = p.name /\ p.issuer \in {"", q.token.iss}
                        /\ deployment.integrity => \E a \in accepted : a.req.n = q.n
                        /\ q.method = "other" \/
                              /\ q.tool \in routes[k.route].registry
                              /\ \A i \in DOMAIN routes : q.tool \in routes[i].names =>
                                    i <= k.route /\ q.tool \in routes[k.route].names
                              /\ \/ q.tool \in routes[k.route].names
                                 \/ /\ routes[k.route].prefix \in PrefixesOf[q.tool]
                                    /\ \A i \in DOMAIN routes :
                                          routes[i].prefix = routes[k.route].prefix => i <= k.route
                              /\ d.allowed \/ (d.held /\ caller[c].approved)
                              /\ caller[c].todo = <<>> \/ ~d.scoped
  BY Zenon DEF ForwardedVetted
<1>1. PICK x : x = caller[c] /\ CallOK(c, x) /\ x.pc = "forward"
  BY DEF CallsInv
<1>2. Cleared(x.call.req)
  BY <1>1, Zenon DEF CallOK, DecidedPCs
<1>3. x.call.req.method = "other" \/ (Routed(x.call) /\ Permitted(x))
  BY <1>1, Zenon DEF CallOK, DecidedPCs
<1>4. PICK cfg : cfg = deployment.identity
  OBVIOUS
<1>5. Issued(cfg, x.call.req.token)
  BY <1>2, <1>4, VerifiedBy, Zenon DEF Cleared
<1>6. deployment.integrity => \E a \in accepted : a.req.n = x.call.req.n
  BY <1>2, Zenon DEF Cleared
<1>7. x.call.req.method = "other" \/
        /\ x.call.req.tool \in routes[x.call.route].registry
        /\ \A i \in DOMAIN routes : x.call.req.tool \in routes[i].names =>
              i <= x.call.route /\ x.call.req.tool \in routes[x.call.route].names
        /\ \/ x.call.req.tool \in routes[x.call.route].names
           \/ /\ routes[x.call.route].prefix \in PrefixesOf[x.call.req.tool]
              /\ \A i \in DOMAIN routes : routes[i].prefix = routes[x.call.route].prefix => i <= x.call.route
        /\ Judged(x.call, x.call.route).allowed \/ (Judged(x.call, x.call.route).held /\ x.approved)
        /\ x.todo = <<>> \/ ~Judged(x.call, x.call.route).scoped
  BY <1>1, <1>3, Zenon DEF Routed, Permitted
<1> QED BY <1>1, <1>4, <1>5, <1>6, <1>7, Zenon DEF Issued

(* For any deployment, traffic and number of requests at once, what        *)
(* reaches an upstream was identified and checked as the policy in force   *)
(* asks, routed and decided for that upstream (gateway.go:66-309,          *)
(* route.go:49-80).  In force is what main falls back to where its policy  *)
(* does not load (main.go:127-147).                                        *)
THEOREM ForwardedAreVetted == Spec => []ForwardedVetted
  BY GatewayInvariant, CallsAreVetted, PTL DEF GatewayInv

(* The binder and the detector keep their promise as the gateway uses      *)
(* them, whatever else its requests do between the two checks              *)
(* (gateway.go:93-98, integrity.go:23-94).                                 *)
THEOREM GatewayKeepsSessions == Spec => []SessionIntegrity
  BY GatewayInvariant, IntegrityInvHolds, PTL DEF GatewayInv

(* The credentials a SCOPE rule injects are as fresh as the cache promises *)
(* (gateway.go:219-265, cache.go:31-49).                                   *)
THEOREM GatewayInjectsFresh == Spec => []InjectedIsFresh
  BY GatewayInvariant, CredentialInvFresh, PTL DEF GatewayInv

=============================================================================
