------------------------------- MODULE Identity -------------------------------
(***************************************************************************)
(* Who a request comes from: how cmd/nullfield selects a verifier, and     *)
(* what MultiVerifier, HeaderVerifier and NoopVerifier make of a request.  *)
(* A JWKS verifier accepts the tokens signed with its keys; how it gets    *)
(* them is the subject of module Jwks.                                     *)
(*                                                                         *)
(* A configuration is [providers, jwks, issuer, trustHeader]: the          *)
(* providers of the policy in force, in order, each [name, issuer], and    *)
(* the environment's settings.  A token is [bearer, iss, signer, sub, jti, *)
(* identity]: signer names the provider whose keys verify its signature,   *)
(* iss is "" where peekIssuer finds none, and identity is what a verifier  *)
(* that reads the claims makes of them.  NoToken is a missing header.      *)
(***************************************************************************)
EXTENDS Naturals, Sequences

CONSTANTS NoToken

(* The verifier main installs; "exit" if the configuration is refused.     *)
SelectVerifier(cfg) ==
    IF cfg.providers # <<>> THEN "multi"
    ELSE IF cfg.jwks /\ (cfg.trustHeader \/ cfg.issuer = "") THEN "exit"
    ELSE IF cfg.jwks THEN "env"
    ELSE IF cfg.trustHeader THEN "header" ELSE "noop"

(* A provider without an issuer takes tokens of any.                       *)
JwksAccepts(token, p) == token.bearer /\ token.signer = p.name /\ p.issuer \in {"", token.iss}

(* MultiVerifier.Verify: the first provider of the token's issuer, or, if  *)
(* no issuer can be read, the first that accepts.                          *)
MultiAccepts(token, providers) ==
    \E i \in DOMAIN providers :
        /\ JwksAccepts(token, providers[i])
        /\ token.iss # "" => /\ providers[i].issuer = token.iss
                             /\ \A j \in 1..(i - 1) : providers[j].issuer # token.iss

EnvProvider(cfg) == [name |-> "env", issuer |-> cfg.issuer]

Verifies(cfg, token) ==
    LET v == SelectVerifier(cfg) IN
    \/ v = "noop"
    \/ /\ token # NoToken
       /\ \/ v = "multi" /\ MultiAccepts(token, cfg.providers)
          \/ v = "env" /\ JwksAccepts(token, EnvProvider(cfg))
          \/ v = "header" /\ token.bearer

-----------------------------------------------------------------------------
ReadsClaims(cfg) == SelectVerifier(cfg) \in {"multi", "env"}

(* The identity without claims of the other verifiers.                     *)
Unclaimed ==
    [type |-> "", provider |-> "", claimed |-> FALSE, claims |-> {}, chain |-> 0,
     aud |-> {}, parentAud |-> {}]

(* The Subject and JTI of the identity, and what the rules look at.        *)
SubjectOf(cfg, token) == IF SelectVerifier(cfg) = "noop" THEN "dev-user" ELSE token.sub
JtiOf(cfg, token) == IF ReadsClaims(cfg) THEN token.jti ELSE ""
ClaimsOf(cfg, token) ==
    IF ReadsClaims(cfg) THEN [token.identity EXCEPT !.provider = token.signer] ELSE Unclaimed
===============================================================================
