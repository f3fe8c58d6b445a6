------------------------------ MODULE MCExtAuthz ------------------------------
(* Two checks at a time.  The scripts: a run that trips while its calls    *)
(* overlap, with both sinks; keys rotating under two verifications; a      *)
(* request for each way of being refused, in all modes.                    *)
EXTENDS ExtAuthz, TLC

MCFold(name) == name
MCFoldMethod(m) == IF m = "delete" THEN "DELETE" ELSE m

NoBudget == [declared |-> FALSE, perHour |-> 0, perDay |-> 0]

Ident == [type |-> "agent", provider |-> "run-token", claimed |-> TRUE, claims |-> {}, chain |-> 0, aud |-> {}, parentAud |-> {}]

Plain(action, hits) ==
    [key |-> hits, action |-> action, method |-> "", tools |-> {"*"},
     when |-> [type |-> "any", provider |-> "", claims |-> {}],
     cel |-> [a \in {"", "repos.delete", "repos.get"} |-> IF a \in hits THEN "true" ELSE "false"],
     requireIdentity |-> FALSE, guarded |-> FALSE, actChain |-> FALSE, narrow |-> FALSE, maxDepth |-> 0,
     perMin |-> 0, identity |-> NoBudget, session |-> NoBudget]

MCRules == <<Plain("DENY", {"repos.delete"}), Plain("ALLOW", {"", "repos.get"})>>
MCRule == {MCRules[i] : i \in DOMAIN MCRules}

Git == <<"git", "prod", "svc", "local">>
Other == <<"web", "prod", "svc", "local">>
Vip == <<"10", "0", "0", "1">>

MCResolver == [d \in {Vip, <<>>} |-> IF d = Vip THEN {{}, {Git}, {<<"ip", "pod", "local">>}} ELSE {{}}]

Seg(n) == [param |-> n = "{id}", name |-> n]
MCOpMap == (Git :> <<[name |-> "repos.delete", method |-> "DELETE", path |-> <<Seg("repos"), Seg("{id}")>>],
                     [name |-> "repos.get", method |-> "GET", path |-> <<Seg("repos"), Seg("{id}")>>]>>)

MCUnescape == [s \in {"repos", "1", "%72epos", "%2e", "", "x%2fy"} |->
                 IF s = "%72epos" THEN "repos" ELSE IF s = "%2e" THEN "." ELSE s]

Tok(kid, txn, wl) ==
    [kid |-> kid, signed |-> TRUE, alg |-> "RS256", typ |-> "txntoken+jwt", iss |-> "ctl", aud |-> {"td"},
     iat |-> 0, exp |-> 2, txn |-> txn, wl |-> wl, identity |-> Ident]

Get == [http |-> TRUE, partial |-> "false", size |-> 0, length |-> -1, got |-> 1, tool |-> "",
        principal |-> "", peer |-> "wl1", host |-> Git, bracketed |-> FALSE, dest |-> <<>>, method |-> "GET",
        path |-> [absolute |-> TRUE, segs |-> <<"repos", "1">>], token |-> Tok("k1", "run1", "wl1")]

At(segs) == [absolute |-> TRUE, segs |-> segs]

Bad == {[Get EXCEPT !.http = FALSE], [Get EXCEPT !.partial = "true"], [Get EXCEPT !.partial = "absent", !.size = 2],
        [Get EXCEPT !.partial = "absent", !.length = 2], [Get EXCEPT !.partial = "", !.size = 2],
        [Get EXCEPT !.bracketed = TRUE, !.method = "DELETE"], [Get EXCEPT !.dest = Vip, !.host = Other],
        [Get EXCEPT !.dest = Vip, !.host = <<"git", "prod">>], [Get EXCEPT !.path = At(<<"%2e", "1">>)],
        [Get EXCEPT !.path = At(<<"x%2fy">>)], [Get EXCEPT !.path = At(<<"%72epos", "1">>), !.method = "delete"],
        [Get EXCEPT !.path = At(<<"", "1">>)], [Get EXCEPT !.token = NoToken],
        [Get EXCEPT !.token = Tok("k1", "run1", "wl2")], [Get EXCEPT !.principal = "wl2"],
        [Get EXCEPT !.principal = "odd", !.peer = ""], [Get EXCEPT !.token = Tok("k1", "", "wl1")],
        [Get EXCEPT !.token.signed = FALSE], [Get EXCEPT !.token.kid = ""], [Get EXCEPT !.token.exp = 3],
        [Get EXCEPT !.token.iss = "nobody"], [Get EXCEPT !.token.aud = {}], [Get EXCEPT !.tool = "rogue"]}

Deploy(m, optional, reqs, serves, rotations, ticks) ==
    [mode |-> m, optional |-> optional, reqs |-> reqs, serves |-> serves,
     rotations |-> rotations, ticks |-> ticks]

MCScript ==
    {Deploy("enforce", FALSE, <<Get, Get, Get>>, {"k1"}, <<>>, 0),
     Deploy("enforce", FALSE, <<Get, [Get EXCEPT !.peer = "wl2", !.token = Tok("k2", "run2", "wl2")]>>, {"k1", "k4"}, <<{"k1", "k2", "k3"}>>, 2)}
    \union {Deploy(m, optional, <<q>>, {"k1"}, <<>>, 0) :
              m \in {"no-op", "observe", "enforce", "enforced"}, optional \in BOOLEAN, q \in Bad}

MCToken == {q.token : q \in Bad} \union {Get.token, Tok("k2", "run2", "wl2")}
MCCall == [tool : {"", "rogue"}, subject : {"wl1", "wl2", ""}, session : {"run1", "run2", ""}]
MCToolPerMin == [t \in {"read"} |-> 0]
=============================================================================
