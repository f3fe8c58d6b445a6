----------------------------- MODULE Credentials -----------------------------
(***************************************************************************)
(* pkg/credentials: the providers a SCOPE rule takes credentials from, and *)
(* the cache in front of Vault.  No lock is held while Vault is asked, so  *)
(* fetches of one secret overlap and the slowest stores last.              *)
(*                                                                         *)
(* Vault's secrets are versions that are rotated; a secret holds a "value" *)
(* key or several others, of which any may be taken.                       *)
(***************************************************************************)
EXTENDS Ticks, FiniteSets

CONSTANTS
    Fetcher,        \* goroutines that fetch credentials
    Ref,            \* Vault paths
    Credential,     \* what rules may ask for: [from, ref]
    Environment,    \* environment variables that are set
    Vault,          \* TRUE iff a Vault address is configured
    VaultAuths,     \* how it may be configured: [method, token], token iff VAULT_TOKEN is set
    CredentialTTL,
    MaxVersion      \* bound on rotations

ASSUME CredentialsAssumption ==
    /\ Vault \in BOOLEAN
    /\ CredentialTTL \in Nat
    /\ MaxVersion \in Nat \ {0}
    /\ \A k \in Credential : k.from = "vault" => k.ref \in Ref

VARIABLES
    vault,          \* what Vault holds: the version of each secret
    kept,           \* CachedProvider.cache: [version, fetched], version 0 for no entry
    vaultAuth,      \* VaultProvider: its method, and whether it has a token
    fetches,        \* where each fetch is
    lastHeld,       \* for the properties: when Vault last held each version
    slowest         \* for the properties: the longest a stored answer was under way

credentialVars == <<vault, kept, vaultAuth, fetches, lastHeld, slowest>>

NoFetch == [pc |-> "off", ref |-> "", version |-> 0, at |-> 0]

CredentialsInit ==
    /\ vault = [r \in Ref |-> 1]
    /\ kept = [r \in Ref |-> [version |-> 0, fetched |-> 0]]
    /\ vaultAuth \in VaultAuths
    /\ fetches = [c \in Fetcher |-> NoFetch]
    /\ lastHeld = [r \in Ref |-> [v \in 1..MaxVersion |-> 0]]
    /\ slowest = 0

At(c, pc) == fetches[c].pc = pc
FetchGoes(c, pc) == fetches' = [fetches EXCEPT ![c].pc = pc]

(* FetchFrom: an unknown provider and an unset variable fail at once.      *)
FetchFrom(c, cred) ==
    LET from == IF cred.from = "" THEN "env" ELSE cred.from
        ok == cred.ref \in Environment
    IN
    /\ At(c, "off")
    /\ fetches' = [fetches EXCEPT ![c] =
          [pc |-> IF from = "vault" /\ Vault THEN "cache"
                  ELSE IF from = "env" /\ ok THEN "got" ELSE "failed",
           ref |-> cred.ref, version |-> 0, at |-> now]]
    /\ UNCHANGED <<vault, kept, vaultAuth, lastHeld, slowest>>

(* Faulty: an expired entry is served.                                     *)
FaultyUsable(e) == e.version > 0

Usable(e) == e.version > 0 /\ now - e.fetched < CredentialTTL

(* CachedProvider.Fetch up to the call of the inner provider.              *)
LookInCache(c) ==
    LET e == kept[fetches[c].ref] IN
    /\ At(c, "cache")
    /\ fetches' = [fetches EXCEPT ![c] =
          IF Usable(e) THEN [pc |-> "got", ref |-> fetches[c].ref, version |-> e.version, at |-> now]
          ELSE [fetches[c] EXCEPT !.pc = IF vaultAuth.method = "token" /\ vaultAuth.token THEN "read" ELSE "login"]]
    /\ UNCHANGED <<vault, kept, vaultAuth, lastHeld, slowest>>

(* resolveToken, when it has to log in: always with the kubernetes method, *)
(* once with the token method.  The token is written without a lock, but   *)
(* any login's token serves.                                               *)
Login(c) ==
    /\ At(c, "login")
    /\ \/ FetchGoes(c, "read") /\ vaultAuth' = [vaultAuth EXCEPT !.token = TRUE]
       \/ FetchGoes(c, "failed") /\ UNCHANGED vaultAuth
    /\ UNCHANGED <<vault, kept, lastHeld, slowest>>

(* VaultProvider.Fetch: the secret is read, or cannot be.                  *)
ReadSecret(c) ==
    /\ At(c, "read")
    /\ \/ fetches' = [fetches EXCEPT ![c] =
             [pc |-> "store", ref |-> fetches[c].ref, version |-> vault[fetches[c].ref],
              at |-> now]]
       \/ FetchGoes(c, "failed")
    /\ UNCHANGED <<vault, kept, vaultAuth, lastHeld, slowest>>

StoreSecret(c) ==
    LET f == fetches[c] IN
    /\ At(c, "store")
    /\ kept' = [kept EXCEPT ![f.ref] = [version |-> f.version, fetched |-> now]]
    /\ slowest' = IF now - f.at > slowest THEN now - f.at ELSE slowest
    /\ fetches' = [fetches EXCEPT ![c] =
          [pc |-> "got", ref |-> f.ref, version |-> f.version, at |-> now]]
    /\ UNCHANGED <<vault, vaultAuth, lastHeld>>

EndFetch(c) ==
    /\ fetches[c].pc \in {"got", "failed"}
    /\ fetches' = [fetches EXCEPT ![c] = NoFetch]
    /\ UNCHANGED <<vault, kept, vaultAuth, lastHeld, slowest>>

FetchStep(c) == LookInCache(c) \/ Login(c) \/ ReadSecret(c) \/ StoreSecret(c)

(* Vault's secret is rotated.                                              *)
RotateSecret(r) ==
    /\ vault[r] < MaxVersion
    /\ vault' = [vault EXCEPT ![r] = @ + 1]
    /\ lastHeld' = [lastHeld EXCEPT ![r] =
          [v \in 1..MaxVersion |-> IF v = vault[r] + 1 THEN now ELSE lastHeld[r][v]]]
    /\ UNCHANGED <<kept, vaultAuth, fetches, slowest>>

(* For the properties: time passes.                                        *)
StillHeld ==
    /\ lastHeld' = [r \in Ref |->
          [v \in 1..MaxVersion |-> IF v = vault[r] THEN now' ELSE lastHeld[r][v]]]
    /\ UNCHANGED <<vault, kept, vaultAuth, fetches, slowest>>

CredentialsNext ==
    \/ /\ \/ \E c \in Fetcher : \/ \E k \in Credential : FetchFrom(c, k)
                                \/ FetchStep(c)
                                \/ EndFetch(c)
          \/ \E r \in Ref : RotateSecret(r)
       /\ UNCHANGED now
    \/ Tick /\ StillHeld

CredentialsSpec ==
    CredentialsInit /\ now = 0 /\ [][CredentialsNext]_<<credentialVars, now>>

-----------------------------------------------------------------------------
(* A rotated secret is not injected for longer than the cache keeps it and *)
(* a fetch takes: whatever fetches overlap and overwrite one another's     *)
(* entries, a credential in hand was Vault's at some moment of the last    *)
(* TTL and the longest answer so far (cache.go:31-49).                     *)
InjectedIsFresh ==
    \A c \in Fetcher : At(c, "got") /\ fetches[c].version > 0 =>
        lastHeld[fetches[c].ref][fetches[c].version] >= fetches[c].at - CredentialTTL - slowest
=============================================================================
