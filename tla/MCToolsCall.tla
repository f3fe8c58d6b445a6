----------------------------- MODULE MCToolsCall -----------------------------
(* Two requests at a time through a policy with a HOLD that parks, a HOLD  *)
(* without a HoldConfig and a SCOPE that injects a credential.  The        *)
(* breaker allows one call per session; a hold can outlive the calls       *)
(* admitted after it.  The history keeps one of two holds, and the admin   *)
(* may go by the name "timeout".                                           *)
EXTENDS ToolsCall, TLC

NoBudget == [declared |-> FALSE, perHour |-> 0, perDay |-> 0]

MCFold(name) == IF name = "PAY" THEN "pay" ELSE name

Plain(action, tools) ==
    [key |-> tools, action |-> action, method |-> "tools/call", tools |-> tools,
     when |-> [type |-> "any", provider |-> "", claims |-> {}],
     cel |-> [a \in {"object", "nil"} |-> "true"], requireIdentity |-> FALSE,
     guarded |-> FALSE, actChain |-> FALSE, narrow |-> FALSE, maxDepth |-> 0,
     perMin |-> 0, identity |-> NoBudget, session |-> NoBudget,
     hold |-> FALSE, onTimeout |-> "", rewrites |-> FALSE, injects |-> FALSE]

MCRules ==
    <<[Plain("HOLD", {"PAY"}) EXCEPT !.hold = TRUE, !.onTimeout = "ALLOW", !.maxDepth = 1],
      Plain("HOLD", {"pay"}),
      [Plain("SCOPE", {"read"}) EXCEPT !.rewrites = TRUE, !.injects = TRUE]>>

MCRule == {MCRules[i] : i \in DOMAIN MCRules}

(* Callers of pay are known, with that many delegations behind them.       *)
Ident(depth) ==
    [type |-> "agent", provider |-> "corp", claimed |-> TRUE, claims |-> {}, chain |-> depth,
     aud |-> {"tools"}, parentAud |-> {"tools"}]

MkCall(tool, args, identity) ==
    [tool |-> tool, subject |-> "alice", session |-> "s1", args |-> args, identity |-> identity]

MCCall ==
    {MkCall("pay", "object", Ident(1)), MkCall("pay", "object", Ident(2)),
     MkCall("read", "object", NoIdentity), MkCall("read", "nil", NoIdentity)}

MCToolPerMin == [t \in {"pay", "read"} |-> 0]
=============================================================================
