------------------------------- MODULE Breaker -------------------------------
(***************************************************************************)
(* The per-session circuit breaker, pkg/circuit/breaker.go: what one       *)
(* session may do in total.  Every method holds the mutex from start to    *)
(* end, so each is one atomic operation on the sessions map; what may      *)
(* happen between two of them is for the modules that call them.           *)
(***************************************************************************)
EXTENDS Ticks

CONSTANTS
    Session,        \* session (or run) identifiers
    NoSession,      \* the empty identifier: a caller without a session
    MaxCalls,       \* calls per session, 0 for no limit
    MaxDuration     \* ticks per session, 0 for no limit

ASSUME BreakerAssumption ==
    /\ NoSession \notin Session
    /\ MaxCalls \in Nat
    /\ MaxDuration \in Nat
    /\ MaxTime \in Nat

VARIABLES
    sessions        \* Breaker.sessions; known is FALSE where the map has no key

breakerVars == <<sessions, now>>

SessionState == [known : BOOLEAN, calls : Nat, started : Nat, tripped : BOOLEAN]

Unknown == [known |-> FALSE, calls |-> 0, started |-> 0, tripped |-> FALSE]

BreakerInit ==
    /\ sessions = [s \in Session |-> Unknown]
    /\ now = 0

Age(s) == now - sessions[s].started

(* Faulty: one call too many.                                              *)
FaultyAllow(s) ==
    \/ s = NoSession
    \/ ~sessions[s].known
    \/ /\ MaxCalls > 0 => sessions[s].calls <= MaxCalls
       /\ MaxDuration > 0 => Age(s) <= MaxDuration

Allow(s) ==
    \/ s = NoSession
    \/ ~sessions[s].known
    \/ /\ MaxCalls > 0 => sessions[s].calls < MaxCalls
       /\ MaxDuration > 0 => Age(s) <= MaxDuration

(* Faulty: a call of a session that is too old starts it anew.             *)
FaultyRecord(s) ==
    sessions' =
        IF s = NoSession THEN sessions
        ELSE [sessions EXCEPT ![s] =
                IF sessions[s].known /\ Age(s) <= MaxDuration THEN [sessions[s] EXCEPT !.calls = @ + 1]
                ELSE [known |-> TRUE, calls |-> 1, started |-> now, tripped |-> FALSE]]

Record(s) ==
    sessions' =
        IF s = NoSession THEN sessions
        ELSE [sessions EXCEPT ![s] =
                IF sessions[s].known THEN [sessions[s] EXCEPT !.calls = @ + 1]
                ELSE [known |-> TRUE, calls |-> 1, started |-> now, tripped |-> FALSE]]

(* FirstTrip in two halves: the value it returns, and what it leaves.      *)
IsFirstTrip(s) == sessions[s].known /\ ~sessions[s].tripped

(* Faulty: reports the first trip without remembering it.                  *)
FaultyFirstTrip(s) == sessions' = sessions

FirstTrip(s) ==
    sessions' = IF IsFirstTrip(s) THEN [sessions EXCEPT ![s].tripped = TRUE] ELSE sessions

Stale(s) == sessions[s].known /\ MaxDuration > 0 /\ Age(s) > 2 * MaxDuration

(* Run every 60 seconds by cmd/nullfield and cmd/nullfield-extauthz.       *)
Sweep ==
    sessions' = [s \in Session |-> IF Stale(s) THEN Unknown ELSE sessions[s]]

BreakerTypeOK ==
    /\ sessions \in [Session -> SessionState]
    /\ now \in Nat
=============================================================================
