------------------------------- MODULE MCGates -------------------------------
(* Two callers through every gate at once: a breaker with both its limits, *)
(* a rule and a tool with different rates, budgets on identity and session *)
(* and a velocity threshold.  Calls are of alice in a session, of nobody,  *)
(* and of a tool the registry does not list.  The clock runs past the      *)
(* longest window, and long enough for a second entry of the session.      *)
EXTENDS Gates, TLC

NoBudget == [declared |-> FALSE, perHour |-> 0, perDay |-> 0]

MCRule ==
    {[key |-> "write", perMin |-> 1, session |-> NoBudget,
      identity |-> [declared |-> TRUE, perHour |-> 2, perDay |-> 3]],
     [key |-> "pay", perMin |-> 0,
      identity |-> [declared |-> TRUE, perHour |-> 2, perDay |-> 0],
      session |-> [declared |-> TRUE, perHour |-> 1, perDay |-> 2]]}

MCCall ==
    {[tool |-> "pay", subject |-> "alice", session |-> "s1"],
     [tool |-> NoTool, subject |-> NoSubject, session |-> NoSession],
     [tool |-> "unlisted", subject |-> "alice", session |-> "s1"]}

MCToolPerMin == [t \in {"pay"} |-> 2]

MCSymmetry == Permutations(Caller)
=============================================================================
