------------------------------ MODULE Integrity ------------------------------
(***************************************************************************)
(* IntegrityChecker, pkg/identity/integrity.go: a session stays with the   *)
(* subject that opened it, and a token is used once.  Binder and detector  *)
(* have a lock each, so two requests interleave between the two checks;    *)
(* the sweep of cmd/nullfield forgets tokens older than ReplayMaxAge.      *)
(*                                                                         *)
(* A map is the set of its entries.  A request is [n, session, subject,    *)
(* jti]; n tells apart requests that carry the same token.                 *)
(***************************************************************************)
EXTENDS Ticks

CONSTANTS
    Checker,        \* goroutines that call Check
    Request,        \* requests they may be serving
    BindToSession, DetectReplay,    \* IntegrityConfig
    ReplayMaxAge

ASSUME IntegrityAssumption ==
    /\ {BindToSession, DetectReplay} \subseteq BOOLEAN
    /\ ReplayMaxAge \in Nat
    /\ MaxTime \in Nat

VARIABLES
    bindings,       \* SessionBinder.sessions: [session, subject]
    seenJti,        \* ReplayDetector.seen: [jti, at]
    checks,         \* where each call of Check is
    accepted        \* for the properties: requests that passed, and when

integrityVars == <<bindings, seenJti, checks, accepted>>

NoCheck == [pc |-> "off", req |-> <<>>]

IntegrityInit ==
    /\ bindings = {}
    /\ seenJti = {}
    /\ checks = [c \in Checker |-> NoCheck]
    /\ accepted = {}

StartCheck(c, q) ==
    /\ checks[c].pc = "off"
    /\ checks' = [checks EXCEPT ![c] = [pc |-> "bind", req |-> q]]
    /\ UNCHANGED <<bindings, seenJti, accepted>>

Binds(q) == q.session = "" \/ \A b \in bindings : b.session = q.session => b.subject = q.subject

(* SessionBinder.Bind.                                                     *)
Bind(c) ==
    LET q == checks[c].req IN
    /\ checks[c].pc = "bind"
    /\ IF ~BindToSession \/ Binds(q)
       THEN /\ checks' = [checks EXCEPT ![c] = [pc |-> "replay", req |-> q]]
            /\ bindings' = IF BindToSession /\ q.session # ""
                           THEN bindings \union {[session |-> q.session, subject |-> q.subject]}
                           ELSE bindings
       ELSE checks' = [checks EXCEPT ![c] = [pc |-> "refused", req |-> q]] /\ UNCHANGED bindings
    /\ UNCHANGED <<seenJti, accepted>>

(* ReplayDetector.Check.  A binding made for a replayed token stays.       *)
Replay(c) ==
    LET q == checks[c].req
        fresh == q.jti = "" \/ \A e \in seenJti : e.jti # q.jti
    IN
    /\ checks[c].pc = "replay"
    /\ IF ~DetectReplay \/ fresh
       THEN /\ checks' = [checks EXCEPT ![c] = [pc |-> "passed", req |-> q]]
            /\ accepted' = accepted \union {[req |-> q, at |-> now]}
            /\ seenJti' = IF DetectReplay /\ q.jti # ""
                          THEN seenJti \union {[jti |-> q.jti, at |-> now]} ELSE seenJti
       ELSE /\ checks' = [checks EXCEPT ![c] = [pc |-> "refused", req |-> q]]
            /\ UNCHANGED <<accepted, seenJti>>
    /\ UNCHANGED bindings

EndCheck(c) ==
    /\ checks[c].pc \in {"passed", "refused"}
    /\ checks' = [checks EXCEPT ![c] = NoCheck]
    /\ UNCHANGED <<bindings, seenJti, accepted>>

(* Faulty: an entry goes at the age at which it still counts.              *)
FaultyExpired(e) == e.at <= now - ReplayMaxAge

Expired(e) == e.at < now - ReplayMaxAge

SweepReplay ==
    /\ seenJti' = {e \in seenJti : ~Expired(e)}
    /\ UNCHANGED <<bindings, checks, accepted>>

IntegrityNext ==
    \/ /\ \E c \in Checker : \/ \E q \in Request : StartCheck(c, q)
                             \/ Bind(c) \/ Replay(c) \/ EndCheck(c)
       /\ UNCHANGED now
    \/ SweepReplay /\ UNCHANGED now
    \/ Tick /\ UNCHANGED integrityVars

IntegritySpec == IntegrityInit /\ now = 0 /\ [][IntegrityNext]_<<integrityVars, now>>

-----------------------------------------------------------------------------
(* However the checks of concurrent requests and the sweep interleave, all *)
(* requests accepted on a session have one subject, and two accepted with  *)
(* the same jti are more than ReplayMaxAge apart (integrity.go:23-94).     *)
SessionIntegrity ==
    \A a, b \in accepted :
        /\ BindToSession /\ a.req.session # "" /\ a.req.session = b.req.session =>
              a.req.subject = b.req.subject
        /\ DetectReplay /\ a # b /\ a.req.jti # "" /\ a.req.jti = b.req.jti =>
              a.at - b.at > ReplayMaxAge \/ b.at - a.at > ReplayMaxAge
=============================================================================
