---------------------------- MODULE HoldContract ----------------------------
(***************************************************************************)
(* What a hold promises its caller, independently of locks, channels and   *)
(* timers: a parked call gets one verdict, the verdict is never revised,   *)
(* and the answer the caller acts on is the one the verdict stands for.    *)
(* pkg/hold/manager.go and pkg/controller/holds.go both claim to be this.  *)
(***************************************************************************)

CONSTANTS
    Hold,           \* hold identifiers
    TimeoutGrants,  \* the holds whose expiry counts as an approval
    MayLeave        \* TRUE iff a caller may give up before it is answered

Verdict == {"approved", "denied", "timeout"}

VARIABLES
    verdict,        \* what is on record for each hold
    answer          \* what its caller was told

vars == <<verdict, answer>>

TypeOK ==
    /\ verdict \in [Hold -> Verdict \union {"none", "pending"}]
    /\ answer \in [Hold -> {"none", "granted", "refused"}]

(* The answer that verdict v stands for.                                   *)
Means(h, v) ==
    IF v = "approved" \/ (v = "timeout" /\ h \in TimeoutGrants)
    THEN "granted" ELSE "refused"

Init ==
    /\ verdict = [h \in Hold |-> "none"]
    /\ answer = [h \in Hold |-> "none"]

Open(h) ==
    /\ verdict[h] = "none"
    /\ verdict' = [verdict EXCEPT ![h] = "pending"]
    /\ UNCHANGED answer

Decide(h, v) ==
    /\ verdict[h] = "pending"
    /\ verdict' = [verdict EXCEPT ![h] = v]
    /\ UNCHANGED answer

Answer(h) ==
    /\ verdict[h] \in Verdict
    /\ answer[h] = "none"
    /\ answer' = [answer EXCEPT ![h] = Means(h, verdict[h])]
    /\ UNCHANGED verdict

(* A caller that gives up proceeds as if refused, whatever is decided      *)
(* later.                                                                  *)
Leave(h) ==
    /\ MayLeave
    /\ verdict[h] # "none"
    /\ answer[h] = "none"
    /\ answer' = [answer EXCEPT ![h] = "refused"]
    /\ UNCHANGED verdict

Next ==
    \E h \in Hold :
        \/ Open(h)
        \/ \E v \in Verdict : Decide(h, v)
        \/ Answer(h)
        \/ Leave(h)

Spec == Init /\ [][Next]_vars

=============================================================================
