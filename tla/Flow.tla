--------------------------------- MODULE Flow ---------------------------------
(***************************************************************************)
(* The AgenticFlow compiler, pkg/flow/compiler.go: one document of tools,  *)
(* credentials and network intent becomes a policy, a tool registry and    *)
(* the network controls of five kinds.                                     *)
(*                                                                         *)
(* A document is [name, tools, credentials, requireIdentity, selector,     *)
(* generated, egress, istio, cilium, linkerd, settings]; settings are the  *)
(* parts of the policy that are copied.  A tool is [name, action, method,  *)
(* when, inline, refs, sets, onExhausted].                                 *)
(***************************************************************************)
EXTENDS Policy, PolicyFile

ControlKinds == {"NetworkPolicy", "AuthorizationPolicy", "CiliumNetworkPolicy", "Server",
                 "ServerAuthorization"}

Elements(s) == {s[i] : i \in DOMAIN s}

validateGeneratedControls(g) ==
    g.declared => \/ g.mode \in {"", "preview"}
                  \/ g.mode = "apply" /\ g.apply # {} /\ g.apply \subseteq ControlKinds

(* Whatever is declared of the network or the mesh is declared completely. *)
validateExplicitControlIntent(doc) ==
    /\ validateGeneratedControls(doc.generated)
    /\ doc.egress # <<>> =>
          doc.selector /\ \A e \in Elements(doc.egress) : e.cidr # "" /\ e.ports # {}
    /\ doc.istio.declared =>
          doc.selector /\ doc.istio.principals # {} /\ doc.istio.ports # {}
    /\ doc.cilium.declared =>
          /\ doc.selector /\ doc.cilium.ingress # <<>>
          /\ \A r \in Elements(doc.cilium.ingress) : r.from # {} /\ r.port > 0 /\ r.methods # {}
    /\ doc.linkerd.declared =>
          /\ doc.selector /\ doc.linkerd.servers # <<>>
          /\ \A s \in Elements(doc.linkerd.servers) : s.name # "" /\ s.port > 0 /\ s.identities # {}

(* credentialMap: complete declarations, no name twice.                    *)
CredentialsDeclared(cs) ==
    /\ \A c \in Elements(cs) : c.name # "" /\ c.from # "" /\ c.secretRef # ""
    /\ \A i, j \in DOMAIN cs : cs[i].name = cs[j].name => i = j

Compiles(doc) ==
    /\ doc.name # ""
    /\ doc.tools # <<>>
    /\ validateExplicitControlIntent(doc)
    /\ CredentialsDeclared(doc.credentials)
    /\ \A t \in Elements(doc.tools) :
          t.name # "" /\ Elements(t.refs) \subseteq {c.name : c \in Elements(doc.credentials)}

resolveToolCredentials(t, cs) ==
    t.inline \union {c.secretRef : c \in {k \in Elements(cs) : k.name \in Elements(t.refs)}}

-----------------------------------------------------------------------------
AnyArgs == {"object"}

(* A tool that injects credentials is scoped, whatever action it declares. *)
CompileRule(doc, t) ==
    LET injected == resolveToolCredentials(t, doc.credentials) IN
    [action |-> IF injected # {} THEN "SCOPE" ELSE IF t.action = "" THEN "ALLOW" ELSE t.action,
     method |-> IF t.method = "" THEN "tools/call" ELSE t.method,
     tools |-> {t.name}, when |-> t.when, requireIdentity |-> doc.requireIdentity,
     cel |-> [a \in AnyArgs |-> "true"], guarded |-> FALSE, actChain |-> FALSE,
     narrow |-> FALSE, maxDepth |-> 0, injected |-> injected, sets |-> t.sets,
     expression |-> "", onExhausted |-> t.onExhausted]

AnyCaller == [type |-> "", provider |-> "", claims |-> {}]

DefaultDeny ==
    [action |-> "DENY", method |-> "tools/call", tools |-> {"*"}, when |-> AnyCaller,
     requireIdentity |-> FALSE, cel |-> [a \in AnyArgs |-> "true"], guarded |-> FALSE,
     actChain |-> FALSE, narrow |-> FALSE, maxDepth |-> 0, injected |-> {}, sets |-> {},
     expression |-> "", onExhausted |-> ""]

CompileRules(doc) == Append([i \in DOMAIN doc.tools |-> CompileRule(doc, doc.tools[i])], DefaultDeny)

CompileRegistry(doc) == [i \in DOMAIN doc.tools |-> doc.tools[i].name]

(* The network controls, in the order they are applied.                    *)
CompileControls(doc) ==
    (IF doc.egress # <<>> THEN <<[kind |-> "NetworkPolicy", name |-> doc.name]>> ELSE <<>>)
    \o (IF doc.istio.declared THEN <<[kind |-> "AuthorizationPolicy", name |-> doc.name]>> ELSE <<>>)
    \o (IF doc.cilium.declared THEN <<[kind |-> "CiliumNetworkPolicy", name |-> doc.name]>> ELSE <<>>)
    \o [i \in DOMAIN doc.linkerd.servers |-> [kind |-> "Server", name |-> doc.linkerd.servers[i].name]]
    \o [i \in DOMAIN doc.linkerd.servers |->
          [kind |-> "ServerAuthorization", name |-> doc.linkerd.servers[i].name]]

(* The compiled policy.  A flow declares no breaker and no run token.      *)
CompilePolicy(doc) ==
    [readable |-> TRUE, rules |-> CompileRules(doc), onTrip |-> "",
     chainValidation |-> doc.settings.chainValidation, sequences |-> doc.settings.sequences,
     runToken |-> [declared |-> FALSE], identity |-> doc.settings.identity]

-----------------------------------------------------------------------------
(* A compiled policy lets through only calls of tools the flow names, and  *)
(* none that the flow denies or holds without giving it credentials, and   *)
(* it needs no rule of the author's to say so (compiler.go:358-409).       *)
FlowIsClosed(doc, requests) ==
    \A q \in requests : Evaluate(CompileRules(doc), q).allowed =>
        /\ doc.requireIdentity => q.identity # NoIdentity
        /\ \E t \in Elements(doc.tools) :
              /\ t.name = "*" \/ Fold(t.name) = Fold(q.tool)
              /\ t.action \in {"", "ALLOW", "SCOPE"} \/ t.inline # {} \/ t.refs # <<>>
=============================================================================
