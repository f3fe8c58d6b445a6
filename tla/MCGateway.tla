------------------------------ MODULE MCGateway ------------------------------
(* A gateway of two workers in deployments that each put one part under    *)
(* load: sessions and tokens shared by concurrent requests, routes that    *)
(* claim the same names and prefixes, secrets rotated while they are       *)
(* fetched, verifiers chosen by the environment, a main policy, routes and *)
(* route files that do not load.                                           *)
EXTENDS Gateway, TLC

NoBudget == [declared |-> FALSE, perHour |-> 0, perDay |-> 0]

Plain(action, tools) ==
    [key |-> "#0", action |-> action, method |-> "", tools |-> tools,
     when |-> [type |-> "", provider |-> "", claims |-> {}],
     cel |-> [a \in {"object", "nil"} |-> "true"], requireIdentity |-> FALSE,
     guarded |-> FALSE, actChain |-> FALSE, narrow |-> FALSE, maxDepth |-> 0,
     perMin |-> 0, identity |-> NoBudget, session |-> NoBudget,
     hold |-> FALSE, injects |-> <<>>]

Allow2 == [Plain("ALLOW", {"*"}) EXCEPT !.perMin = 2]
Budgeted == [Plain("ALLOW", {"*"}) EXCEPT !.session = [declared |-> TRUE, perHour |-> 1, perDay |-> 0]]
Held == [Plain("HOLD", {"db_write"}) EXCEPT !.hold = TRUE]
Secret == [Plain("SCOPE", {"*"}) EXCEPT !.injects =
              <<[from |-> "", ref |-> "HOME"], [from |-> "vault", ref |-> "kv/db"]>>]

Route(prefix, names, registry, rules) ==
    [name |-> "r", upstream |-> "up", prefix |-> prefix, names |-> names, registry |-> registry, rules |-> rules]

Tools == {"db_read", "db_write", "mail"}
Open == <<Route("db_", {"mail"}, Tools, <<Allow2>>)>>

(* Denied to agents, allowed to callers with claims.                       *)
Personal ==
    <<Route("db_", {"mail"}, Tools,
            <<[Plain("DENY", {"*"}) EXCEPT !.when.type = "agent"], [Allow2 EXCEPT !.guarded = TRUE]>>)>>

(* Names and prefixes overlap; "db_r" and "db_" both fit db_read.          *)
Overlapping ==
    <<Route("db_", {"mail"}, Tools, <<Held, Budgeted>>),
      Route("db_r", {}, {"db_read"}, <<Allow2>>),
      Route("", {"mail", "db_write"}, Tools \ {"mail"}, <<Held, Plain("DENY", {"*"})>>)>>

Vaulted == <<Route("db_", {}, Tools, <<Secret>>)>>
Elsewhere == <<Route("db_", {}, Tools, <<[Secret EXCEPT !.injects = <<[from |-> "kms", ref |-> "k"]>>]>>)>>

Verify(providers, jwks, issuer, trust) ==
    [providers |-> providers, jwks |-> jwks, issuer |-> issuer, trustHeader |-> trust]

Provider(name, issuer) == [name |-> name, issuer |-> issuer]
Both == <<Provider("corp", "https://corp"), Provider("edge", "https://edge")>>
Noop == Verify(<<>>, FALSE, "", FALSE)

Is(type) == [Unclaimed EXCEPT !.type = type, !.claimed = TRUE]

Token(iss, signer, sub, jti) ==
    [bearer |-> TRUE, iss |-> iss, signer |-> signer, sub |-> sub, jti |-> jti,
     identity |-> Is(IF sub = "bob" THEN "agent" ELSE "human")]

Req(n, method, token, session, tool, args) ==
    [n |-> n, method |-> method, token |-> token, session |-> session, tool |-> tool, args |-> args]

Asks(n, token, session) == Req(n, "tools/call", token, session, "mail", "object")
Uses(n, tool) == Req(n, "tools/call", NoToken, "s1", tool, "object")

LogsIn == [method |-> "kubernetes", token |-> FALSE]
KeepsToken == [method |-> "token", token |-> FALSE]
MCVaultAuths == {LogsIn, KeepsToken}

Deploy(identity, integrity, rs, traffic, time) ==
    [loads |-> TRUE, identity |-> identity, integrity |-> integrity, holds |-> TRUE,
     budgets |-> TRUE, velocity |-> FALSE, routes |-> rs, auth |-> LogsIn,
     traffic |-> traffic, time |-> time, rotations |-> 0]

A1 == Token("https://corp", "corp", "alice", "j1")
A2 == Token("https://corp", "corp", "alice", "j2")
B1 == Token("https://edge", "edge", "bob", "j3")
Crossed == Token("https://corp", "edge", "bob", "j4")
Unread == Token("", "edge", "bob", "j5")
FromEnv(t) == [t EXCEPT !.signer = "env"]

Identities ==
    {Deploy(Verify(Both, FALSE, "", FALSE), TRUE, Open, t, 2) :
        t \in {{Asks(1, A1, "s1"), Asks(2, A1, "s1"), Asks(3, A1, ""), Asks(4, B1, "s1")},
               {Asks(1, Crossed, "s1"), Asks(2, Unread, "s1"), Asks(3, A2, "s1"), Asks(4, NoToken, "s1")}}}
    \union
    {[Deploy(Verify(ps, FALSE, "", FALSE), TRUE, Personal,
            {Asks(1, A1, "s1"), Asks(2, Unread, ""), Asks(3, B1, "s1")}, 0) EXCEPT !.velocity = TRUE] :
        ps \in {Both, <<Provider("corp", "https://corp"), Provider("edge", "")>>}}

(* The policy names providers, but its file does not load.                 *)
Fallbacks ==
    {[Deploy(v, TRUE, rs, {Asks(1, A1, "s1"), Asks(2, Crossed, "s1")}, 0) EXCEPT !.loads = FALSE] :
        v \in {Verify(Both, FALSE, "", FALSE), Verify(Both, TRUE, "https://corp", FALSE)},
        rs \in {<<Route("db_", {"mail"}, Tools, <<Budgeted>>)>>, Personal}}

Environments ==
    {Deploy(v, FALSE, Open, {Asks(1, FromEnv(A1), "s1"), Asks(2, FromEnv(B1), ""), Asks(3, A2, "s1"),
                             [Asks(4, FromEnv(A2), "s1") EXCEPT !.token.bearer = FALSE]}, 0) :
        v \in {Verify(<<>>, TRUE, "https://corp", FALSE), Verify(<<>>, FALSE, "", TRUE),
               Verify(<<>>, TRUE, "", FALSE), Verify(<<>>, TRUE, "https://corp", TRUE)}}

Routings ==
    {[Deploy(Noop, FALSE, Overlapping, t, 1) EXCEPT !.holds = h] : h \in BOOLEAN,
        t \in {{Uses(1, "db_read"), Uses(2, "db_read"), Uses(3, "db_write"), Uses(4, "mail")},
               {Uses(1, "sms"), Uses(2, ""), Req(3, "other", NoToken, "", "", "nil"),
                Req(4, "unreadable", NoToken, "s1", "", "nil"), Uses(5, "db_new")}}}
    \union {Deploy(Noop, FALSE, rs, {Uses(1, "mail")}, 0) :
               rs \in {<<Route("", {}, Tools, <<Allow2>>)>>, <<Route("db_", {}, Tools, NoRules)>>,
                      <<[Open[1] EXCEPT !.name = ""]>>}}

Secrets ==
    {[Deploy(Noop, FALSE, Vaulted, {Uses(1, "db_read"), Uses(2, "db_read")}, 3) EXCEPT !.rotations = 1],
     [Deploy(Noop, FALSE, Vaulted, {Uses(1, "db_read"), Uses(2, "db_read"), Uses(3, "db_read")}, 2)
        EXCEPT !.auth = KeepsToken, !.rotations = 1]}
    \union
    {Deploy(Noop, FALSE, Vaulted, {[Uses(1, "db_read") EXCEPT !.args = "nil"]}, 0),
     Deploy(Noop, FALSE, Elsewhere, {Uses(1, "db_read")}, 0)}

MCDeployments == Identities \union Fallbacks \union Environments \union Routings \union Secrets

MCPrefixesOf ==
    [t \in Tools \union {"sms", "db_new"} |->
        CASE t = "db_read" -> {"db_", "db_r"}
          [] t \in {"db_write", "db_new"} -> {"db_"}
          [] OTHER -> {}]

MCFold(name) == name
MCSubject == {"alice", "bob", "dev-user"}
MCCall == [tool : Tools, subject : MCSubject, session : {"", "s1"}]
MCRule == {Allow2, Budgeted, Held, Secret}
MCRequest == {}
MCToolPerMin == [t \in Tools |-> 0]
MCCredential ==
    {[from |-> "", ref |-> "HOME"], [from |-> "vault", ref |-> "kv/db"], [from |-> "kms", ref |-> "k"]}
Workers == Permutations(Caller)
=============================================================================
