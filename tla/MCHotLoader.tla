----------------------------- MODULE MCHotLoader -----------------------------
(* Two valid policies, one of them with a budget, and a broken one, with   *)
(* four changes of the file: enough to change it back between two reads.   *)
EXTENDS HotLoader

MCDeclares == [v \in {"plain", "budgeted", "broken"} |->
                 IF v = "budgeted" THEN {"budget", "hold"} ELSE {}]
=============================================================================
