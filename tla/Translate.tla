------------------------------ MODULE Translate ------------------------------
(***************************************************************************)
(* What the decision service makes of one Envoy CheckRequest before it     *)
(* decides anything: pkg/extauthz/translate.go, verifyTarget of            *)
(* pkg/extauthz/server.go and the operation maps of                        *)
(* pkg/operations/operations.go.                                           *)
(*                                                                         *)
(* A request is [http, partial, size, length, got, tool, principal, peer,  *)
(* host, bracketed, dest, method, path, token]: what Envoy says of the     *)
(* body and how much of it came, the MCP tool it calls if any, the         *)
(* principal of the certificate and the one a waypoint put in a header,    *)
(* the Host without its port, and if it stands in brackets without one,    *)
(* and the address routed to.  Host names are sequences of lower-case      *)
(* labels.                                                                 *)
(***************************************************************************)
EXTENDS Integers, Sequences

CONSTANTS
    Spiffe,         \* principals of the form MeshAttester.Attest parses
    OpMap,          \* the operations of each mapped target; the empty function if none
    Unescape,       \* what url.PathUnescape makes of a segment
    Slashed,        \* the segments it cannot decode, or that decode to several
    FoldMethod(_)   \* case folding of an HTTP method

Absent == -1    \* a number the request does not carry, or not legibly

(* The three signals, the strongest first: the header if it is there at    *)
(* all, even empty.  No signal is no truncation.                           *)
BodyTruncated(q) ==
    IF q.partial # "absent" THEN q.partial = "true"
    ELSE IF q.size > 0 THEN q.size > q.got
    ELSE q.length # Absent /\ q.length > q.got

(* The peer certificate, then the waypoint's header.                       *)
Attested(q) == q.principal \in Spiffe \/ q.peer \in Spiffe
Attester(q) == IF q.principal \in Spiffe THEN "mesh-spiffe"
               ELSE IF q.peer \in Spiffe THEN "mesh-header" ELSE "none"
RawPrincipal(q) == IF q.principal \in Spiffe \/ q.peer = "" THEN q.principal ELSE q.peer

Translates(q) == q.http /\ ~BodyTruncated(q)

-----------------------------------------------------------------------------
(* Service names have four labels or more and "svc" as the third; what     *)
(* else an address resolves to is not looked at.                           *)
isService(n) == Len(n) >= 4 /\ n[3] = "svc"

(* h is n, or n cut at a dot: how a resolver's search path names it.       *)
Names(h, n) == h # <<>> /\ Len(h) <= Len(n) /\ SubSeq(n, 1, Len(h)) = h

(* names is what the reverse lookup of the destination came back with,     *)
(* nothing if it failed.  hostOf reads a bracketed Host as what is inside. *)
verifyTarget(q, names) ==
    LET services == {n \in names : isService(n)} IN
    \/ q.dest = <<>> \/ services = {}
    \/ q.host = q.dest
    \/ \E n \in services : Names(q.host, n)

-----------------------------------------------------------------------------
(* A path is [absolute, segs]; a segment of a template is [param, name].   *)
split(p) == p.absolute /\ \A i \in DOMAIN p.segs : p.segs[i] \notin {"", ".", ".."}

(* The operations of a target; host() leaves brackets on, and no target of *)
(* a map has them.                                                         *)
Mapped(q) == ~q.bracketed /\ q.host \in DOMAIN OpMap

Unclear(s) == s \in Slashed \/ Unescape[s] \in {".", ".."}

(* Resolve returns ErrAmbiguous.                                           *)
Ambiguous(q) ==
    Mapped(q) /\ (~split(q.path) \/ \E i \in DOMAIN q.path.segs : Unclear(q.path.segs[i]))

match(op, q) ==
    /\ FoldMethod(op.method) = FoldMethod(q.method)
    /\ Len(op.path) = Len(q.path.segs)
    /\ \A i \in DOMAIN op.path : op.path[i].param \/ op.path[i].name = Unescape[q.path.segs[i]]

(* The name Resolve gives the call: the first operation that matches.      *)
Action(q) ==
    LET ops == IF Mapped(q) THEN OpMap[q.host] ELSE <<>>
        fits == {i \in DOMAIN ops : match(ops[i], q)}
    IN  IF fits = {} THEN "" ELSE ops[CHOOSE i \in fits : \A j \in fits : i <= j].name
=============================================================================
