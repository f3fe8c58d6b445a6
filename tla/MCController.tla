---------------------------- MODULE MCController ----------------------------
(* Two handlers at a time.  Clients send two holds and an event, or budget *)
(* checks, or events and a registration: the stores share the clock and    *)
(* the handlers only, so each workload stresses one of them.               *)
EXTENDS Controller

Load(b, h, e, s, t) ==
    [CheckBudget |-> b, CreateHold |-> h, ReportEvent |-> e, RegisterSidecar |-> s, Tick |-> t]

MCReported == [type : {"tool.denied", "hold.created"}, tool : Tool, identity : Identity]
MCCaller == {<<"alice", "s1">>, <<"alice", NoKey>>, <<NoKey, "s1">>}
MCWorkload == 
    {Load(0, 2, 0, 0, 1), Load(3, 0, 0, 0, 3), Load(0, 0, 4, 0, 3), Load(0, 0, 1, 2, 3)}
=============================================================================
