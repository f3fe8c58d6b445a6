------------------------------- MODULE ExtAuthz -------------------------------
(***************************************************************************)
(* The decision service, pkg/extauthz/server.go: Server.Check composed of  *)
(* the translation, the run token verifier, the gates, the policy engine   *)
(* and the signal sinks.                                                   *)
(*                                                                         *)
(* Checks run concurrently; what they share is the key cache, the          *)
(* breaker and the other counters, and the sinks' queues.                  *)
(***************************************************************************)
EXTENDS Gates, Policy, Jwks, Signals, Translate

CONSTANTS
    HasRunTokens,       \* FALSE for a nil Server.runTokens
    Rules,              \* the rules of the policy, in order
    Resolver,           \* external: the sets of names DNS may answer for an address
    Script              \* bound: how the service is configured and what happens to it

(* The requests that may come.                                             *)
Requests == UNION {{s.reqs[i] : i \in DOMAIN s.reqs} : s \in Script}

(* The types of what Envoy and the token libraries hand over.              *)
RequestOK(q) ==
    /\ q.got \in Nat /\ q.size \in Int /\ q.length \in Int /\ q.length >= Absent
    /\ \A i \in DOMAIN q.path.segs : q.path.segs[i] \in DOMAIN Unescape
    /\ q.token \in Token \union {NoToken}
    /\ q.token # NoToken => q.token.txn \in Session \union {NoSession}
    /\ \A s \in Session \union {NoSession}, x \in Subject \union {NoSubject} :
          [tool |-> q.tool, session |-> s, subject |-> x] \in Call

ASSUME ExtAuthzAssumption ==
    /\ Verifier = Caller
    /\ Rules \in Seq(Rule) /\ Rule = {Rules[i] : i \in DOMAIN Rules}
    /\ HasBreaker => HasRunTokens
    /\ Spiffe \subseteq Subject /\ "" \notin Spiffe
    /\ \A u \in DOMAIN Unescape : Unescape[u] = "" => u = ""
    /\ Resolver[<<>>] = {{}}
    /\ \A s \in Script :
          /\ DOMAIN s = {"mode", "optional", "reqs", "serves", "rotations", "ticks"}
          /\ s = [f \in DOMAIN s |-> s[f]]
          /\ s.reqs \in Seq(Requests) /\ s.rotations \in Seq(SUBSET Kid) /\ s.ticks \in Nat
    /\ \A q \in Requests : RequestOK(q)

VARIABLES
    check,              \* the Check call each goroutine serves; for the properties, judged
                        \* is when its token was found valid
    script              \* [mode, optional]: the configuration; [reqs, serves, rotations, ticks]:
                        \* the requests, key rotations and ticks still to come

vars == <<gatesVars, jwksVars, signalVars, check, script>>

Resting == [pc |-> "idle"]

Init ==
    /\ GatesInit /\ JwksInit /\ SignalsInit
    /\ check = [c \in Caller |-> Resting]
    /\ script \in Script
    /\ served = script.serves

(* NewServer: a mode it does not know is observe.                          *)
mode == IF script.mode \in {"no-op", "observe", "enforce"} THEN script.mode ELSE "observe"

Respond(d) == IF mode # "enforce" \/ d.allowed THEN "ok" ELSE "denied"

Counterfactual(d) ==
    IF mode = "enforce" THEN ""
    ELSE IF ~d.allowed THEN "DENY" ELSE IF d.held THEN "HOLD" ELSE IF d.scoped THEN "SCOPE" ELSE "ALLOW"

-----------------------------------------------------------------------------
Event(c, type, attester) ==
    [type |-> type, run |-> check[c].run, attester |-> attester,
     attestable |-> check[c].req.http /\ RawPrincipal(check[c].req) \in Spiffe]

(* The call as the gates see it: charged to an attested principal only,    *)
(* and to a run only if its token was verified.                            *)
CallOf(c) ==
    LET q == check[c].req IN
    [tool |-> q.tool, session |-> check[c].run,
     subject |-> IF Attested(q) THEN RawPrincipal(q) ELSE NoSubject]

(* The call as the engine sees it; args is what the expressions of the     *)
(* rules tell apart, the name of the operation.                            *)
PolicyRequest(c) ==
    LET q == check[c].req IN
    [method |-> IF q.tool = NoTool THEN "" ELSE "tools/call", tool |-> q.tool, args |-> check[c].action,
     identity |-> IF check[c].run = NoSession THEN NoIdentity ELSE q.token.identity]

Goes(c, pc) == check' = [check EXCEPT ![c].pc = pc]

Settle(c, d) == check' = [check EXCEPT ![c].pc = "answer", ![c].decision = d]

-----------------------------------------------------------------------------
(* The refusals that need nothing but the request, in the order decide     *)
(* reaches them.                                                           *)
Screen(q, names) ==
    IF ~Translates(q) THEN "body_truncated"
    ELSE IF ~verifyTarget(q, names) THEN "target_mismatch"
    ELSE IF Ambiguous(q) THEN "operation_ambiguous"
    ELSE IF HasRunTokens /\ q.token = NoToken /\ ~script.optional THEN "run_token_missing"
    ELSE ""

(* Check, up to the run token verifier.                                    *)
Check(c) ==
    /\ check[c].pc = "idle"
    /\ script.reqs # <<>>
    /\ LET q == Head(script.reqs) IN
       \E names \in Resolver[q.dest] :
           LET why == Screen(q, names)
               starts == why = "" /\ HasRunTokens /\ q.token # NoToken
           IN  /\ check' = [check EXCEPT ![c] =
                     [pc |-> IF why # "" THEN "answer" ELSE IF starts THEN "verify" ELSE "admit",
                      req |-> q, run |-> NoSession, decision |-> Decision(why, 0), names |-> names,
                      action |-> IF why = "" THEN Action(q) ELSE "", judged |-> Never]]
               /\ IF starts THEN StartVerify(c, q.token) ELSE UNCHANGED jwksVars
    /\ script' = [script EXCEPT !.reqs = Tail(@)]
    /\ UNCHANGED <<gatesVars, signalVars>>

(* RunTokenVerifier.Verify: the claims a verified token must still carry.  *)
Complete(t) == t.iat # Never /\ t.txn # NoSession /\ t.wl # ""

(* Faulty: a run token is good wherever it is presented.                   *)
FaultyBound(q) == Attested(q)

(* The token was issued to the workload that presents it.                  *)
Bound(q) == Attested(q) /\ q.token.wl = RawPrincipal(q)

(* RunTokenVerifier.Verify after the signature, and verifyRun.             *)
VerifyRun(c) ==
    LET q == check[c].req IN
    /\ check[c].pc = "verify"
    /\ verify[c].pc \in {"accepted", "rejected", "unknown"}
    /\ IF verify[c].pc # "accepted" \/ ~Complete(q.token) THEN Settle(c, Decision("run_token_invalid", 0))
       ELSE IF ~Bound(q) THEN Settle(c, Decision("run_token_unbound", 0))
       ELSE check' = [check EXCEPT ![c].pc = "admit", ![c].run = q.token.txn, ![c].judged = verify[c].at]
    /\ EndVerify(c)
    /\ UNCHANGED <<gatesVars, signalVars, script>>

AdmitCall(c) ==
    /\ check[c].pc = "admit"
    /\ Admit(c, CallOf(c))
    /\ Goes(c, "gates")
    /\ UNCHANGED <<jwksVars, signalVars, script>>

(* A circuit refusal, signalled if it is the run's first.                  *)
TripRun(c) ==
    /\ IF caller[c].pc = "trip" /\ IsFirstTrip(caller[c].call.session)
       THEN Emit(Event(c, "circuit.tripped", Attester(check[c].req)))
       ELSE UNCHANGED signalVars
    /\ Trip(c)
    /\ UNCHANGED <<jwksVars, check, script>>

EvaluatePolicy(c) ==
    /\ caller[c].pc = "policy"
    /\ \E q \in {PolicyRequest(c)} : \E d \in {Evaluate(Rules, q)} :
          IF d.allowed
          THEN /\ caller' = [caller EXCEPT ![c] = [pc |-> "rates", call |-> caller[c].call,
                                                   rule |-> Rules[d.index]]]
               /\ check' = [check EXCEPT ![c].decision = d]
          ELSE /\ caller' = [caller EXCEPT ![c] = Idle]
               /\ Settle(c, d)
    /\ UNCHANGED <<sessions, now, trips, limitVars, jwksVars, signalVars, script>>

(* Gates.Charge.  A velocity alert that only logs has an event of its own. *)
Charge(c) ==
    /\ ChargeRates(c) \/ ChargeBudget(c) \/ RecordCall(c) \/ ChargeVelocity(c)
    /\ IF /\ caller[c].pc = "velocity" /\ HasVelocity /\ ~AlertDeny
          /\ Len(VelocityWindow(caller[c].call)) > Threshold
       THEN Emit([Event(c, "anomaly.velocity", "") EXCEPT !.run = NoSession])
       ELSE UNCHANGED signalVars
    /\ UNCHANGED <<jwksVars, check, script>>

(* The end of Check: the decision is audited and answered.                 *)
Answer(c) ==
    LET d == IF check[c].pc = "gates" /\ caller[c].pc = "refused"
             THEN Decision(caller[c].why, check[c].decision.index) ELSE check[c].decision
    IN
    /\ \/ check[c].pc = "answer"
       \/ check[c].pc = "gates" /\ caller[c].pc \in {"forward", "refused"}
    /\ check' = [check EXCEPT ![c] =
                    [pc |-> "answered", req |-> check[c].req, run |-> check[c].run, decision |-> d,
                     names |-> check[c].names, action |-> check[c].action, judged |-> check[c].judged,
                     reply |-> Respond(d), instead |-> Counterfactual(d)]]
    /\ Emit(Event(c, "arbiter.decision", Attester(check[c].req)))
    /\ caller' = [caller EXCEPT ![c] = Idle]
    /\ UNCHANGED <<sessions, now, trips, limitVars, jwksVars, script>>

Return(c) ==
    /\ check[c].pc = "answered"
    /\ check' = [check EXCEPT ![c] = Resting]
    /\ UNCHANGED <<gatesVars, jwksVars, signalVars, script>>

CheckStep(c) ==
    \/ VerifyStep(c) /\ UNCHANGED <<gatesVars, signalVars, check, script>>
    \/ VerifyRun(c) \/ AdmitCall(c) \/ TripRun(c) \/ EvaluatePolicy(c) \/ Charge(c)
    \/ Answer(c) \/ Return(c)

(* What happens around the service: the sweep, the issuer, the clock.      *)
Environment ==
    \/ SweepSessions /\ UNCHANGED <<jwksVars, signalVars, check, script>>
    \/ /\ script.rotations # <<>>
       /\ Rotate(Head(script.rotations))
       /\ script' = [script EXCEPT !.rotations = Tail(@)]
       /\ UNCHANGED <<gatesVars, signalVars, check>>
    \/ /\ script.ticks > 0
       /\ Clock
       /\ StillServed
       /\ script' = [script EXCEPT !.ticks = @ - 1]
       /\ UNCHANGED <<signalVars, check>>

Deliveries == \E s \in Sink : WorkerStep(s) /\ UNCHANGED <<gatesVars, jwksVars, check, script>>

Next ==
    \/ \E c \in Caller : Check(c) \/ CheckStep(c)
    \/ Deliveries
    \/ Environment

(* Of the goroutines that can run one does.  A sink's worker waits for its *)
(* receiver for ten seconds at most (signals.go:77).  An issuer owes no    *)
(* answer: the keys are fetched with no timeout (jwks.go:196), so a check  *)
(* that has come to fetch them may wait for ever.                          *)
Fairness ==
    /\ WF_vars(\E c \in Caller : verify[c].pc # "fetch" /\ CheckStep(c))
    /\ WF_vars(Deliveries)

Spec == Init /\ [][Next]_vars /\ Fairness

-----------------------------------------------------------------------------
TypeOK ==
    /\ BreakerTypeOK /\ JwksTypeOK
    /\ caller \in [Caller -> CallerState]
    /\ \A c \in Caller :
          /\ check[c].pc \in {"idle", "verify", "admit", "gates", "answer", "answered"}
          /\ check[c].pc # "idle" => check[c].run \in Session \union {NoSession}

(* An expiry within the skew, and a lifetime within the bound if any.      *)
InTime(t, at) ==
    /\ at < t.exp + ClockSkew
    /\ MaxLifetime > 0 /\ t.iat # Never => t.exp - t.iat <= MaxLifetime + ClockSkew

(* In enforce mode a call passes only if everything the service can check  *)
(* of it held, although the checks are spread over a pipeline with early   *)
(* exits: its body was seen whole, it goes where Host says, its path reads *)
(* one way only, its run token names the run it is charged to, was in time *)
(* when it was judged and is bound to the principal that attests it (the   *)
(* certificate's, or the waypoint's where there is none), and the rules    *)
(* allow the operation that Host, method and path map to.  A Host the map  *)
(* does not list, as an alias or in brackets, maps to none.  In the other  *)
(* modes every call passes, a truncated one too, and observe records what  *)
(* enforcement would have refused (server.go:167-230, response.go:43-78).  *)
OkMeansVetted ==
    \A c \in Caller : check[c].pc = "answered" =>
        LET q == check[c].req
            ok == check[c].reply = "ok"
        IN
        IF mode # "enforce"
        THEN ok /\ (mode = "observe" => (check[c].instead = "DENY" <=> ~check[c].decision.allowed))
        ELSE ok =>
            /\ q.partial # "true"
            /\ q.partial = "absent" => q.got >= q.size /\ (q.size > 0 \/ q.got >= q.length)
            /\ \A n \in check[c].names : isService(n) => q.host = q.dest \/
                   \E m \in check[c].names : isService(m) /\ Names(q.host, m)
            /\ Mapped(q) => \A i \in DOMAIN q.path.segs :
                   q.path.segs[i] \notin Slashed /\ Unescape[q.path.segs[i]] \notin {"", ".", ".."}
            /\ IF HasRunTokens /\ ~(script.optional /\ q.token = NoToken)
               THEN /\ q.token # NoToken /\ q.token.signed /\ check[c].run = q.token.txn
                    /\ q.token.iat # Never /\ InTime(q.token, check[c].judged)
                    /\ q.token.wl = (IF q.principal \in Spiffe THEN q.principal ELSE q.peer)
                    /\ q.token.wl \in Spiffe
               ELSE check[c].run = NoSession
            /\ \A p \in {[PolicyRequest(c) EXCEPT !.args = Action(q)]} : Evaluate(Rules, p).allowed

(* A trip names the run and the attested workload it is about, so the nil  *)
(* dereferences server.go:346-350 would make never happen; each sink that  *)
(* asked for trips is offered one signal for every trip of the run, no     *)
(* more of them than the breaker's sweeps account for; and it loses none   *)
(* without saying so (signals.go:63-90).                                   *)
TripsReported ==
    /\ \A c \in Caller : caller[c].pc = "trip" =>
          /\ check[c].run # NoSession
          /\ Attested(check[c].req) /\ check[c].req.token # NoToken
    /\ \A s \in Sink, r \in Session : "circuit.tripped" \in Selected =>
          LET signals == {i \in DOMAIN offered[s] :
                  offered[s][i].type = "circuit.tripped" /\ offered[s][i].run = r}
          IN  Cardinality(signals) = trips[r]
    /\ TripsBounded
    /\ SignalsAccounted

(* Every check is answered, or has come to fetch keys from an issuer, and  *)
(* is answered if that returns: nothing else in a check waits for another  *)
(* or for a sink.  And every sink works off its queue.                     *)
ArbiterLive ==
    /\ \A c \in Caller : []<>(check[c].pc = "idle" \/ verify[c].pc = "fetch")
    /\ SignalsDrain
=============================================================================
