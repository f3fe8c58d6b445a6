------------------------------ MODULE PolicyFile ------------------------------
(***************************************************************************)
(* What pkg/policy/loader.go accepts: ParseSpec refuses a policy that sets *)
(* anything nullfield would not enforce, and the proxy, which sees no      *)
(* attested workload, refuses run tokens as well.                          *)
(*                                                                         *)
(* A specification is [readable, rules, onTrip, chainValidation,           *)
(* sequences, runToken, identity].  Durations and expressions are what     *)
(* parsing them gives: "", "ok" or "bad".                                  *)
(***************************************************************************)
EXTENDS Naturals, Sequences

(* Fields of a rule that nothing enforces.                                 *)
Unenforced == {"direction", "destination", "injectCredential", "paramRules", "hold.notify"}

RuleValid(r) ==
    /\ r.sets \intersect Unenforced = {}
    /\ r.expression # "bad"
    /\ r.onExhausted \in {"", "DENY"}

RunTokenValid(t) ==
    t.declared => t.jwksUri /\ t.audience /\ "bad" \notin {t.maxLifetime, t.clockSkew}

IdentityValid(id) ==
    id.declared =>
        /\ \A p \in id.providers : p.clockSkew # "bad" /\ (id.requireAudience => p.audiences # {})
        /\ id.maxLifetime # "bad"

validate(s) ==
    /\ \A i \in DOMAIN s.rules : RuleValid(s.rules[i])
    /\ s.onTrip \in {"", "DENY", "REJECT"}
    /\ ~s.chainValidation
    /\ ~s.sequences
    /\ RunTokenValid(s.runToken)
    /\ IdentityValid(s.identity)

(* readable is FALSE for a document with an unknown key.                   *)
ParseSpec(s) == s.readable /\ s.rules # <<>> /\ validate(s)

LoadProxySpec(s) == ParseSpec(s) /\ ~s.runToken.declared
=============================================================================
