--------------------------------- MODULE Jwks ---------------------------------
(***************************************************************************)
(* JWKSVerifier, pkg/identity/jwks.go: a token is checked with a key from  *)
(* a cache that any verification may refill.  The lock is not held while   *)
(* the keys are fetched, so fetches overlap and the slowest stores last;   *)
(* the verification then reads the cache again, whatever is in it by then. *)
(*                                                                         *)
(* A token is [kid, signed, alg, typ, iss, aud, iat, exp] and what its     *)
(* users read; signed is FALSE if its signature does not verify.           *)
(***************************************************************************)
EXTENDS Ticks, FiniteSets

CONSTANTS
    Verifier,       \* goroutines verifying at the same time
    Token,          \* tokens they are given
    NoToken,
    Kid,            \* key ids the issuer may publish
    Unsupported,    \* those whose entry cannot be parsed: another kty or curve
    CacheTTL,
    Issuer, Algorithms, Type, Audiences, MaxLifetime, ClockSkew     \* JWKSVerifierConfig

Never == -1         \* a time before any other, and a claim that is absent

ASSUME JwksAssumption ==
    /\ Unsupported \subseteq Kid
    /\ {CacheTTL, MaxLifetime, ClockSkew} \subseteq Nat

VARIABLES
    served,         \* the keys the issuer publishes
    cache,          \* keys and fetchedAt; for the properties: readAt, when the issuer answered,
                    \* and whole, if that was with its keys
    verify,         \* where each verification is, and the keys it got; for the properties:
                    \* at, when it got or stored them or judged its token, and whole
    history         \* for the properties: when each key was last served, and if it always was

jwksVars == <<served, cache, verify, history>>

Off == [pc |-> "off", token |-> NoToken, got |-> {}, at |-> Never, whole |-> TRUE]

JwksInit ==
    /\ served \in SUBSET Kid
    /\ cache = [keys |-> {}, fetchedAt |-> Never, readAt |-> Never, whole |-> TRUE]
    /\ verify = [v \in Verifier |-> Off]
    /\ history = [k \in Kid |-> [last |-> IF k \in served THEN 0 ELSE Never, always |-> k \in served]]

Move(v, pc) == verify' = [verify EXCEPT ![v].pc = pc]

getCachedKey(kid) ==
    /\ cache.fetchedAt # Never
    /\ now - cache.fetchedAt <= CacheTTL
    /\ kid \in cache.keys

-----------------------------------------------------------------------------
checkAudience(t) == Audiences = {} \/ t.aud \intersect Audiences # {}

checkLifetime(t) ==
    MaxLifetime > 0 =>
        t.exp - (IF t.iat = Never THEN now ELSE t.iat) <= MaxLifetime + ClockSkew

(* What Verify asks of a token once its key is found.  The library checks  *)
(* the signature, the issuer if one is configured, and the expiry, within  *)
(* the clock skew; an expiry is required of a run token.                   *)
Valid(t) ==
    /\ t.signed
    /\ Issuer = "" \/ t.iss = Issuer
    /\ t.exp # Never /\ now < t.exp + ClockSkew
    /\ t.alg \in Algorithms
    /\ Type = "" \/ t.typ = Type
    /\ checkAudience(t)
    /\ checkLifetime(t)

Conclude(v) ==
    LET pc == IF Valid(verify[v].token) THEN "accepted" ELSE "rejected" IN
    verify' = [verify EXCEPT ![v] = [@ EXCEPT !.pc = pc, !.at = now]]

(* Verify is called.  A token without a kid fails at once.                 *)
StartVerify(v, t) ==
    /\ verify[v].pc = "off"
    /\ verify' = [verify EXCEPT ![v] =
                     [Off EXCEPT !.pc = IF t.kid = "" THEN "rejected" ELSE "lookup", !.token = t]]
    /\ UNCHANGED <<served, cache, history>>

(* keyFunc's first look.                                                   *)
Lookup(v) ==
    /\ verify[v].pc = "lookup"
    /\ IF getCachedKey(verify[v].token.kid) THEN Conclude(v) ELSE Move(v, "fetch")
    /\ UNCHANGED <<served, cache, history>>

Receives(v, ks, whole) ==
    verify' = [verify EXCEPT ![v] = [@ EXCEPT !.pc = "store", !.got = ks, !.at = now, !.whole = whole]]

(* fetchKeys up to its critical section: the issuer's keys, of which       *)
(* entries that do not parse are skipped; a JSON body without keys, such   *)
(* as an error's, since the status is not looked at; or a failure.         *)
FetchKeys(v) ==
    /\ verify[v].pc = "fetch"
    /\ \/ Receives(v, served \ Unsupported, TRUE)
       \/ Receives(v, {}, FALSE)
       \/ Move(v, "rejected")
    /\ UNCHANGED <<served, cache, history>>

(* Faulty: the keys are added to those already cached.                     *)
FaultyStoreKeys(v) ==
    /\ verify[v].pc = "store"
    /\ cache' = [keys |-> verify[v].got \union cache.keys, fetchedAt |-> now, readAt |-> verify[v].at,
                  whole |-> verify[v].whole]
    /\ verify' = [verify EXCEPT ![v] = [@ EXCEPT !.pc = "relook", !.at = now]]
    /\ UNCHANGED <<served, history>>

StoreKeys(v) ==
    /\ verify[v].pc = "store"
    /\ cache' = [keys |-> verify[v].got, fetchedAt |-> now, readAt |-> verify[v].at,
                  whole |-> verify[v].whole]
    /\ verify' = [verify EXCEPT ![v] = [@ EXCEPT !.pc = "relook", !.at = now]]
    /\ UNCHANGED <<served, history>>

(* Faulty: waits for the key to turn up.                                   *)
FaultyRelook(v) ==
    /\ verify[v].pc = "relook"
    /\ getCachedKey(verify[v].token.kid)
    /\ Conclude(v)
    /\ UNCHANGED <<served, cache, history>>

(* keyFunc's second look.                                                  *)
Relook(v) ==
    /\ verify[v].pc = "relook"
    /\ IF getCachedKey(verify[v].token.kid) THEN Conclude(v)
       ELSE verify' = [verify EXCEPT ![v] = [@ EXCEPT !.pc = "unknown", !.whole = cache.whole]]
    /\ UNCHANGED <<served, cache, history>>

EndVerify(v) ==
    /\ verify' = [verify EXCEPT ![v] = Off]
    /\ UNCHANGED <<served, cache, history>>

VerifyStep(v) == Lookup(v) \/ FetchKeys(v) \/ StoreKeys(v) \/ Relook(v)

(* The issuer rotates its keys.                                            *)
Rotate(ks) ==
    /\ served' = ks
    /\ history' = [k \in Kid |-> [last |-> IF k \in served \union ks THEN now ELSE history[k].last,
                                 always |-> history[k].always /\ k \in ks]]
    /\ UNCHANGED <<cache, verify>>

(* For the properties: time passes.                                        *)
StillServed ==
    /\ history' = [k \in Kid |-> IF k \in served THEN [history[k] EXCEPT !.last = now'] ELSE history[k]]
    /\ UNCHANGED <<served, cache, verify>>

Ended(v) == verify[v].pc \in {"accepted", "rejected", "unknown"}

(* Verifications on their own, for any tokens and any rotation.            *)
JwksNext ==
    \/ Tick /\ StillServed
    \/ /\ \/ \E ks \in SUBSET Kid : Rotate(ks)
          \/ \E v \in Verifier, t \in Token : StartVerify(v, t)
          \/ \E v \in Verifier : VerifyStep(v) \/ (Ended(v) /\ EndVerify(v))
       /\ UNCHANGED now

JwksSpec == JwksInit /\ now = 0 /\ [][JwksNext]_<<jwksVars, now>>

-----------------------------------------------------------------------------
VerifyState ==
    [pc : {"off", "lookup", "fetch", "store", "relook", "accepted", "rejected", "unknown"},
     token : Token \union {NoToken}, got : SUBSET Kid, at : Nat \union {Never}, whole : BOOLEAN]

CacheState ==
    [keys : SUBSET Kid, fetchedAt : Nat \union {Never}, readAt : Nat \union {Never}, whole : BOOLEAN]

JwksTypeOK ==
    /\ served \subseteq Kid
    /\ cache \in CacheState
    /\ verify \in [Verifier -> VerifyState]
    /\ history \in [Kid -> [last : Nat \union {Never}, always : BOOLEAN]]

(* The cache follows the issuer although slow fetches overwrite newer keys *)
(* with older ones (jwks.go:239).  A key it holds was published when the   *)
(* issuer answered the fetch it came from, so a withdrawn key is usable    *)
(* for at most the TTL and the time that fetch took.  And a key that was   *)
(* published all along is reported unknown only if the cache expired       *)
(* between a fetch and the look that follows it (jwks.go:166-193), or the  *)
(* last fetch to be stored had an answer without keys: the status of a     *)
(* reply is never looked at, so an error in JSON empties the cache, for    *)
(* every verification under way (jwks.go:196-212).                         *)
KeysFollowIssuer ==
    /\ \A k \in cache.keys : history[k].last >= cache.readAt
    /\ \A v \in Verifier : verify[v].pc = "unknown" =>
           LET k == verify[v].token.kid IN
           \/ k \in Unsupported \/ k \notin Kid
           \/ ~history[k].always
           \/ now - verify[v].at > CacheTTL
           \/ ~verify[v].whole
=============================================================================
