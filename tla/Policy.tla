-------------------------------- MODULE Policy --------------------------------
(***************************************************************************)
(* RuleEngine.Evaluate, pkg/policy/rules.go: the rules are tried in order  *)
(* and the first that stops the search decides.  A rule whose predicates   *)
(* or guards do not hold is skipped; one whose CEL expression cannot be    *)
(* evaluated, or that needs an identity the call lacks, stops it with a    *)
(* refusal.                                                                *)
(*                                                                         *)
(* A rule is [action, method, tools, when, cel, requireIdentity, guarded,  *)
(* actChain, narrow, maxDepth] and whatever the gates read; guarded is     *)
(* FALSE for a nil identity block, which has neither of the next two.  A   *)
(* request is [method, tool, args, identity].  Claims, audiences and       *)
(* argument shapes are members of small sets; cel maps the shape of the    *)
(* arguments to the outcome of the expression.                             *)
(***************************************************************************)
EXTENDS Naturals, FiniteSets

CONSTANTS
    Fold(_),        \* case folding of a tool or provider name
    NoIdentity      \* a nil *identity.Identity

Actions == {"ALLOW", "DENY", "HOLD", "SCOPE"}

matchesMethod(r, q) == r.method \in {"", q.method}

matchesToolName(r, q) ==
    r.tools = {} \/ \E n \in r.tools : n = "*" \/ Fold(n) = Fold(q.tool)

(* An identity is [type, provider, claimed, claims, chain, aud,            *)
(* parentAud]; claimed is FALSE for nil Claims, which hold nothing, and    *)
(* chain is the depth of the act claims, 0 for a direct caller.            *)
matchesWhen(r, q) ==
    LET w == r.when
        id == q.identity
    IN  /\ w.type \in {"", "any"} \/ (id # NoIdentity /\ id.type = w.type)
        /\ \/ w.provider = ""
           \/ id # NoIdentity /\ IF w.provider = "unknown" THEN id.provider = ""
                                 ELSE Fold(id.provider) = Fold(w.provider)
        /\ w.claims = {} \/ (id # NoIdentity /\ w.claims \subseteq id.claims)

(* A rule with a guard block, be it one that asks for nothing, does not    *)
(* match a call without claims.  Widening is judged against the immediate  *)
(* parent only, and passes without one.                                    *)
evaluateIdentityGuards(r, q) ==
    LET id == q.identity IN
    r.guarded =>
        /\ id # NoIdentity /\ id.claimed
        /\ r.actChain => id.chain > 0
        /\ r.narrow /\ id.chain > 0 => id.aud \subseteq id.parentAud

evaluateDelegationGuards(r, q) ==
    r.maxDepth > 0 /\ q.identity # NoIdentity => q.identity.chain <= r.maxDepth

Matches(r, q) == matchesMethod(r, q) /\ matchesToolName(r, q) /\ matchesWhen(r, q)

matchesCEL(r, q) == r.cel[q.args]

LacksIdentity(r, q) == r.requireIdentity /\ q.identity = NoIdentity

(* The rule ends the search.                                               *)
Stops(r, q) ==
    /\ Matches(r, q)
    /\ \/ matchesCEL(r, q) = "error"
       \/ /\ matchesCEL(r, q) = "true"
          /\ \/ LacksIdentity(r, q)
             \/ /\ evaluateIdentityGuards(r, q)
                /\ evaluateDelegationGuards(r, q)
                /\ r.action \in Actions

Decision(class, index) ==
    [allowed |-> class \in {"allowed", "policy_scoped"},
     held    |-> class = "policy_held",
     scoped  |-> class = "policy_scoped",
     class   |-> class,
     index   |-> index]

ReasonClass(r, q) ==
    CASE matchesCEL(r, q) = "error" -> "expression_error"
      [] matchesCEL(r, q) # "error" /\ LacksIdentity(r, q) -> "identity_required"
      [] OTHER -> CASE r.action = "ALLOW" -> "allowed"
                    [] r.action = "DENY" -> "policy_denied"
                    [] r.action = "HOLD" -> "policy_held"
                    [] r.action = "SCOPE" -> "policy_scoped"

Evaluate(rules, q) ==
    LET stopping == {i \in DOMAIN rules : Stops(rules[i], q)} IN
    IF stopping = {} THEN Decision("default_deny", 0)
    ELSE LET i == CHOOSE j \in stopping : \A m \in stopping : j <= m
         IN  Decision(ReasonClass(rules[i], q), i)
=============================================================================
