------------------------------- MODULE Windows -------------------------------
(* A sliding window, as the program keeps one everywhere it counts calls:  *)
(* the timestamps in the order they were appended, filtered by             *)
(*     for _, t := range times { if t.After(cutoff) { kept = append(...) } }*)
(* whenever the window is looked at.                                       *)
EXTENDS Integers, Sequences

(* One turn of the loop.                                                   *)
Keep(kept, t, cutoff) == IF t > cutoff THEN Append(kept, t) ELSE kept

(* The loop: what of a window is after the cutoff.                         *)
After(times, cutoff) ==
    LET kept[i \in 0..Len(times)] ==
            IF i = 0 THEN <<>> ELSE Keep(kept[i - 1], times[i], cutoff)
    IN  kept[Len(times)]
=============================================================================
