------------------------------ MODULE MCDelivery ------------------------------
(* Two policies the sidecar accepts, one that only the watcher accepts (it *)
(* asks for run tokens) and one that neither does; a flow that goes        *)
(* through four documents, two policy resources and a registry.            *)
EXTENDS Delivery

MCFold(n) == n
Caller == [type |-> "human", provider |-> "idp", claimed |-> TRUE, claims |-> {}, chain |-> 0, aud |-> {}, parentAud |-> {}]

(* Calls with and without an identity, of tools a flow may name.           *)
MCRequests == [method : {"tools/call"}, tool : {"read", "write", "other"}, args : {"object"},
               identity : {NoIdentity, Caller}]

NoToken == [declared |-> FALSE]
RunTokens == [declared |-> TRUE, jwksUri |-> TRUE, audience |-> TRUE, maxLifetime |-> "ok", clockSkew |-> ""]
Provider == [declared |-> TRUE, requireAudience |-> TRUE, maxLifetime |-> "ok",
             providers |-> {[clockSkew |-> "ok", audiences |-> {"mcp"}]}]

Spec1(sets, token) ==
    [readable |-> TRUE, rules |-> <<[sets |-> sets, expression |-> "ok", onExhausted |-> "DENY"]>>,
     onTrip |-> "DENY", chainValidation |-> FALSE, sequences |-> FALSE, runToken |-> token,
     identity |-> [declared |-> FALSE]]

MCContent == {"plain", "budgeted", "attested", "typo"}
MCSpecOf == [c \in MCContent |->
               CASE c = "plain" -> Spec1({}, NoToken)
                 [] c = "budgeted" -> [Spec1({"budget"}, NoToken) EXCEPT !.identity = Provider]
                 [] c = "attested" -> Spec1({}, RunTokens)
                 [] c = "typo" -> [Spec1({}, NoToken) EXCEPT !.readable = FALSE]]
MCDeclares == [v \in MCContent |-> IF v = "budgeted" THEN {"budget", "hold"} ELSE {}]

(* The documents: controls applied, controls previewed and credentials, a  *)
(* field that nothing enforces, and an undeclared credential.              *)
Tool(n, a, refs, sets) ==
    [name |-> n, action |-> a, method |-> "", when |-> AnyCaller, inline |-> {}, refs |-> refs,
     sets |-> sets, onExhausted |-> ""]
Doc(tools, creds, generated, egress, servers) ==
    [readable |-> TRUE, name |-> "desk", tools |-> tools, credentials |-> creds,
     requireIdentity |-> TRUE, selector |-> TRUE, generated |-> generated, egress |-> egress,
     istio |-> [declared |-> TRUE, principals |-> {"sa"}, ports |-> {80}],
     cilium |-> [declared |-> FALSE, ingress |-> <<>>],
     linkerd |-> [declared |-> servers # <<>>, servers |-> servers],
     settings |-> [chainValidation |-> FALSE, sequences |-> FALSE, identity |-> Provider]]
Applying == [declared |-> TRUE, mode |-> "apply", apply |-> {"NetworkPolicy", "Server"}]
Default == [declared |-> FALSE, mode |-> "", apply |-> {}]
Key == [name |-> "key", from |-> "env", secretRef |-> "KEY"]
Out == [cidr |-> "10.0.0.0/8", ports |-> {443}]
Server == [name |-> "mcp", port |-> 80, identities |-> {"sa"}]

Applied == Doc(<<Tool("read", "", <<>>, {}), Tool("write", "HOLD", <<>>, {"hold"})>>, <<>>, Applying, <<Out>>, <<Server>>)
Scoped == Doc(<<Tool("write", "DENY", <<"key">>, {})>>, <<Key>>, Default, <<>>, <<>>)
Unenforceable == Doc(<<Tool("read", "", <<>>, {"hold.notify"})>>, <<>>, Default, <<>>, <<>>)
Undeclared == Doc(<<Tool("read", "", <<"key">>, {})>>, <<>>, Default, <<>>, <<>>)

MCDocOf == [d \in {"applied", "scoped", "unenforceable", "unreadable", "undeclared"} |->
              CASE d = "applied" -> Applied
                [] d = "scoped" -> Scoped
                [] d = "unenforceable" -> Unenforceable
                [] d = "unreadable" -> [Scoped EXCEPT !.readable = FALSE]
                [] d = "undeclared" -> Undeclared]

FlowRes == <<"flow", "desk">>
First == <<"policy", "a">>
Second == <<"policy", "b">>
Registry == <<"registry", "tools">>
MCResource == <<FlowRes, First, Second, Registry>>
Allow(c, f, h, s) == [changes |-> c, faults |-> f, hands |-> h, restarts |-> s]
Pol(s, a) == [spec |-> s, active |-> a]

(* Without the bridge a flow, a policy and a registry; with it two         *)
(* policies that carry its label.                                          *)
MCStart == [b \in BOOLEAN |-> [r \in {FlowRes, First, Second, Registry} |->
              CASE r = FlowRes -> IF b THEN Gone ELSE [doc |-> "applied", gen |-> 1]
                [] r = First -> Pol("plain", TRUE)
                [] r = Second -> IF b THEN Pol("budgeted", TRUE) ELSE Pol(NoSpec, FALSE)
                [] r = Registry -> IF b THEN Gone ELSE [tools |-> "tools"]]]
MCVersions == [r \in {FlowRes, First, Second, Registry} |->
                 CASE r = FlowRes -> (DOMAIN MCDocOf \ {"applied"}) \union {Gone}
                   [] r = First -> {Pol("plain", TRUE), Pol("plain", FALSE), Pol("attested", TRUE),
                                    Pol("typo", TRUE)}
                   [] r = Second -> {}
                   [] r = Registry -> {}]
MCHandEdits == {<<Active, Gone>>, <<Active, "attested">>, <<FlowRes, Gone>>, <<First, "typo">>}
MCBudget == [b \in BOOLEAN |->
    IF b THEN {Allow(2, 0, 0, 0), Allow(1, 1, 0, 0), Allow(0, 1, 1, 0), Allow(0, 0, 1, 1)}
    ELSE {Allow(2, 1, 0, 0), Allow(0, 1, 1, 1)}]
=============================================================================
