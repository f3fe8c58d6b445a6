------------------------------- MODULE Gateway -------------------------------
(***************************************************************************)
(* Gateway mode, pkg/proxy/gateway.go and route.go: one process in front   *)
(* of several upstreams, each a route with its own policy and registry.  A *)
(* request is identified, checked for integrity, routed by its tool,       *)
(* judged by that route, given credentials, charged and forwarded.  The    *)
(* breaker, the rates and the budgets are shared by all routes.            *)
(*                                                                         *)
(* A deployment is [loads, identity, integrity, holds, budgets, velocity,  *)
(* routes, auth, traffic, time, rotations]: what the main policy asks for  *)
(* and if it loads, the routes, the requests clients send, and how far the *)
(* clock and the rotation of secrets go.  A route is [name, upstream,      *)
(* prefix, names, registry, rules], with rules NoRules for a policy or     *)
(* registry file that does not load.  Routes that list the same tool give  *)
(* it the same maxCallsPerMinute.  A hold gets the answers HoldContract    *)
(* allows.                                                                 *)
(***************************************************************************)
EXTENDS Gates, Policy, Identity, Integrity, Credentials

CONSTANTS
    Deployments,
    NoRules,
    PrefixesOf      \* the prefixes of each tool name

IsSeq(s) == s \in Seq({s[i] : i \in DOMAIN s})

ASSUME GatewayAssumption ==
    /\ Checker = Caller /\ Fetcher = Caller
    /\ \A d \in Deployments :
          /\ {"routes", "traffic"} \subseteq DOMAIN d /\ d = [f \in DOMAIN d |-> d[f]]
          /\ \A q, r \in d.traffic : q.n = r.n => q = r
          /\ IsSeq(d.routes)
          /\ \A i \in DOMAIN d.routes : d.routes[i].rules # NoRules =>
                /\ IsSeq(d.routes[i].rules)
                /\ \A j \in DOMAIN d.routes[i].rules : d.routes[i].rules[j].injects \in Seq(Credential)

VARIABLES
    deployment,     \* as configured; once main has run, as in force
    routes,         \* Router.routes, empty until main has built them
    pending         \* requests not sent yet

vars == <<gatesVars, integrityVars, credentialVars, deployment, routes, pending>>
wiring == <<deployment, routes>>
counters == <<sessions, trips, limitVars>>

Init ==
    /\ GatesInit
    /\ IntegrityInit
    /\ CredentialsInit
    /\ deployment \in Deployments
    /\ vaultAuth = deployment.auth
    /\ routes = <<>>
    /\ pending = deployment.traffic

(* LoadGatewayConfig and BuildRoute accept the routes file.                *)
RoutesLoad(rs) ==
    /\ rs # <<>>
    /\ \A i \in DOMAIN rs : /\ rs[i].name # "" /\ rs[i].upstream # ""
                            /\ rs[i].prefix # "" \/ rs[i].names # {}
                            /\ rs[i].rules # NoRules

(* A main policy that does not load, or has no rule, gives way to one that *)
(* denies every tools/call and declares nothing else.  A gateway asks its  *)
(* routes' policies, so nothing of it is left in force.                    *)
InForce(d) ==
    IF d.loads THEN d
    ELSE [d EXCEPT !.identity.providers = <<>>, !.integrity = FALSE, !.holds = FALSE,
                   !.budgets = FALSE, !.velocity = FALSE]

(* main exits on a bad configuration, so no request is served.             *)
Boot ==
    /\ routes = <<>>
    /\ deployment' = InForce(deployment)
    /\ SelectVerifier(deployment'.identity) # "exit"
    /\ RoutesLoad(deployment.routes)
    /\ routes' = deployment.routes
    /\ UNCHANGED <<gatesVars, integrityVars, credentialVars, pending>>

-----------------------------------------------------------------------------
(* NewRouter: a later route takes over a name or a prefix.                 *)
LastWith(P(_)) == {i \in DOMAIN routes : P(routes[i]) /\ \A j \in (i + 1)..Len(routes) : ~P(routes[j])}

Exact(tool) == LastWith(LAMBDA r : tool \in r.names)
ByPrefix(tool) == UNION {LastWith(LAMBDA r : r.prefix = p) : p \in PrefixesOf[tool]}

(* Faulty: prefixes are looked at first.                                   *)
FaultyResolve(tool) == IF ByPrefix(tool) # {} THEN ByPrefix(tool) ELSE Exact(tool)

(* Resolve: the routes it may return, as the prefixes are tried in the     *)
(* order of a map.                                                         *)
Resolve(tool) == IF Exact(tool) # {} THEN Exact(tool) ELSE ByPrefix(tool)

-----------------------------------------------------------------------------
(* The identity the verifier makes of a request.                           *)
IdentityOf(cfg, q) ==
    [n |-> q.n, session |-> q.session, subject |-> SubjectOf(cfg, q.token),
     jti |-> JtiOf(cfg, q.token)]

(* ServeHTTP up to the integrity check.                                    *)
Serve(c, q) ==
    LET cfg == deployment.identity
        id == IdentityOf(cfg, q)
    IN
    /\ routes # <<>>
    /\ caller[c].pc = "idle"
    /\ pending' = pending \ {q}
    /\ IF q.method = "unreadable"
       THEN Refuse(c, "parse") /\ UNCHANGED integrityVars
       ELSE IF ~Verifies(cfg, q.token)
       THEN Refuse(c, "identity_failed") /\ UNCHANGED integrityVars
       ELSE /\ caller' = [caller EXCEPT ![c] = [pc |-> "identified", req |-> q, id |-> id]]
            /\ IF deployment.integrity THEN StartCheck(c, id) ELSE UNCHANGED integrityVars
    /\ UNCHANGED <<now, counters, credentialVars, wiring>>

IntegrityStep(c) ==
    /\ Bind(c) \/ Replay(c)
    /\ UNCHANGED <<gatesVars, credentialVars, wiring, pending>>

CallOf(q, id, i) ==
    [tool |-> q.tool, subject |-> id.subject, session |-> q.session, args |-> q.args,
     req |-> q, route |-> i]

(* The rest of ServeHTTP and handleToolsCall up to the policy: a method    *)
(* other than tools/call goes to the first route undecided and uncharged.  *)
Dispatch(c) ==
    LET q == caller[c].req IN
    /\ caller[c].pc = "identified"
    /\ IF deployment.integrity THEN EndCheck(c) ELSE UNCHANGED integrityVars
    /\ IF deployment.integrity /\ checks[c].pc = "refused" THEN Refuse(c, "integrity")
       ELSE IF q.method = "other"
       THEN caller' = [caller EXCEPT ![c] =
               [pc |-> "forward", call |-> CallOf(q, caller[c].id, 1)]]
       ELSE IF q.tool = NoTool THEN Refuse(c, "invalid_params")
       ELSE IF Resolve(q.tool) = {} THEN Refuse(c, "no_route")
       ELSE \E i \in Resolve(q.tool) :
              IF q.tool \notin routes[i].registry THEN Refuse(c, "tool_not_registered")
              ELSE caller' = [caller EXCEPT ![c] =
                      [pc |-> IF HasBreaker /\ ~Allow(q.session) THEN "trip" ELSE "policy",
                       call |-> CallOf(q, caller[c].id, i)]]
    /\ UNCHANGED <<now, counters, credentialVars, wiring, pending>>

Asked(k) ==
    [method |-> "tools/call", tool |-> k.tool, args |-> k.args,
     identity |-> ClaimsOf(deployment.identity, k.req.token)]

(* What the engine of route i decides.                                     *)
Judged(k, i) == Evaluate(routes[i].rules, Asked(k))

EvaluateRoute(c) ==
    LET k == caller[c].call
        d == Judged(k, k.route)
        r == routes[k.route].rules[d.index]
    IN
    /\ caller[c].pc = "policy"
    /\ IF ~d.allowed /\ ~(d.held /\ deployment.holds /\ r.hold) THEN Refuse(c, "policy")
       ELSE caller' = [caller EXCEPT ![c] =
               [pc |-> IF d.held THEN "held" ELSE IF d.scoped THEN "scope" ELSE "rates",
                call |-> k, rule |-> r, approved |-> FALSE, todo |-> r.injects]]
    /\ UNCHANGED <<now, counters, integrityVars, credentialVars, wiring, pending>>

AwaitAnswer(c) ==
    /\ caller[c].pc = "held"
    /\ \/ caller' = [caller EXCEPT ![c].pc = "rates", ![c].approved = TRUE]
       \/ Refuse(c, "hold_timeout")
       \/ Refuse(c, "policy")
    /\ UNCHANGED <<now, counters, integrityVars, credentialVars, wiring, pending>>

(* The credentials of a SCOPE rule, one after the other.                   *)
Inject(c) ==
    /\ caller[c].pc = "scope"
    /\ \/ /\ caller[c].todo # <<>>
          /\ FetchFrom(c, Head(caller[c].todo))
          /\ UNCHANGED caller
       \/ /\ caller[c].todo = <<>>
          /\ Goto(c, "rates")
          /\ UNCHANGED credentialVars
    /\ UNCHANGED <<now, counters, integrityVars, wiring, pending>>

(* A credential cannot be put into arguments that are a nil map.           *)
Injected(c) ==
    /\ caller[c].pc = "scope"
    /\ EndFetch(c)
    /\ IF fetches[c].pc = "failed" THEN Refuse(c, "scope_violation")
       ELSE IF caller[c].call.args = "nil" THEN Refuse(c, "aborted")
       ELSE caller' = [caller EXCEPT ![c].todo = Tail(@)]
    /\ UNCHANGED <<now, counters, integrityVars, wiring, pending>>

(* Charge without a budget or a velocity tracker.                          *)
Untracked(c) ==
    /\ \/ caller[c].pc = "budget" /\ ~deployment.budgets /\ Goto(c, "record")
       \/ caller[c].pc = "velocity" /\ ~deployment.velocity /\ Goto(c, "forward")
    /\ UNCHANGED <<now, counters>>

ChargeStep(c) ==
    /\ \/ Trip(c) \/ ChargeRates(c) \/ RecordCall(c) \/ Untracked(c) \/ Finish(c)
       \/ deployment.budgets /\ ChargeBudget(c)
       \/ deployment.velocity /\ ChargeVelocity(c)
    /\ UNCHANGED <<integrityVars, credentialVars, wiring, pending>>

-----------------------------------------------------------------------------
(* The ticker of main sweeps the breaker, then the replay entries, each    *)
(* under its own lock.                                                     *)
SweepStep ==
    \/ SweepSessions /\ UNCHANGED integrityVars
    \/ SweepReplay /\ deployment.integrity /\ UNCHANGED gatesVars

Next ==
    \/ Boot
    \/ \E c \in Caller, q \in pending : Serve(c, q)
    \/ \E c \in Caller :
          \/ IntegrityStep(c) \/ Dispatch(c) \/ EvaluateRoute(c) \/ AwaitAnswer(c)
          \/ Inject(c) \/ Injected(c) \/ ChargeStep(c)
          \/ FetchStep(c) /\ UNCHANGED <<gatesVars, integrityVars, wiring, pending>>
    \/ SweepStep /\ UNCHANGED <<credentialVars, wiring, pending>>
    \/ \E r \in Ref : /\ vault[r] <= deployment.rotations
                     /\ RotateSecret(r)
                     /\ UNCHANGED <<gatesVars, integrityVars, wiring, pending>>
    \/ now < deployment.time /\ Clock /\ StillHeld /\ UNCHANGED <<integrityVars, wiring, pending>>

Spec == Init /\ [][Next]_vars

-----------------------------------------------------------------------------
(* What reaches an upstream was vetted for that upstream: its token was    *)
(* signed with the keys of a provider in force, and issued by the issuer   *)
(* that provider names if it names one; it passed the integrity check in   *)
(* force; and a tools/call went to the last route that names its tool, or  *)
(* to the last of a prefix of it if none does, is in that route's          *)
(* registry, and was allowed to its verified identity, or held and         *)
(* approved, by that route's own rules, whatever other requests are under  *)
(* way (gateway.go:66-309, route.go:49-80).  In force is what main keeps:  *)
(* without a policy that loads it verifies by the environment alone and    *)
(* checks no integrity, and the routes still serve (main.go:127-147).      *)
ForwardedVetted ==
    \A c \in Caller : caller[c].pc = "forward" =>
        LET k == caller[c].call
            q == k.req
            cfg == deployment.identity
            providers == IF cfg.providers # <<>> THEN {cfg.providers[i] : i \in DOMAIN cfg.providers}
                         ELSE {EnvProvider(cfg)}
            d == Judged(k, k.route)
        IN  /\ cfg.providers # <<>> \/ cfg.jwks =>
                  /\ q.token # NoToken
                  /\ \E p \in providers : q.token.signer = p.name /\ p.issuer \in {"", q.token.iss}
            /\ deployment.integrity => \E a \in accepted : a.req.n = q.n
            /\ q.method = "other" \/
                  /\ q.tool \in routes[k.route].registry
                  /\ \A i \in DOMAIN routes : q.tool \in routes[i].names =>
                        i <= k.route /\ q.tool \in routes[k.route].names
                  /\ \/ q.tool \in routes[k.route].names
                     \/ /\ routes[k.route].prefix \in PrefixesOf[q.tool]
                        /\ \A i \in DOMAIN routes : routes[i].prefix = routes[k.route].prefix =>
                              i <= k.route
                  /\ d.allowed \/ (d.held /\ caller[c].approved)
                  /\ caller[c].todo = <<>> \/ ~d.scoped
=============================================================================
