------------------------------- MODULE Signals -------------------------------
(***************************************************************************)
(* The sinks of pkg/signals/signals.go: audit events of the selected types *)
(* are queued without blocking and one worker per sink delivers them, with *)
(* retries, to a webhook or as Kubernetes Events.                          *)
(***************************************************************************)
EXTENDS Naturals, Sequences

CONSTANTS
    Sink,           \* the channels FromEnv built
    KubeSink,       \* those that record Kubernetes Events
    Selected,       \* event types the sinks were given
    QueueSize,      \* capacity of Sink.queue
    Retries         \* attempts after the first

ASSUME SignalsAssumption ==
    /\ KubeSink \subseteq Sink
    /\ {QueueSize, Retries} \subseteq Nat

VARIABLES
    queue,          \* Sink.queue
    worker,         \* the event each worker has in hand, and the attempt
    outcome,        \* for the properties: events done with, and how they ended
    offered,        \* for the properties: the events of a selected type
    kept            \* for the properties: positions in offered of those that were queued

signalVars == <<queue, worker, outcome, offered, kept>>

Free == [busy |-> FALSE, event |-> <<>>, attempt |-> 0]

SignalsInit ==
    /\ queue = [s \in Sink |-> <<>>]
    /\ worker = [s \in Sink |-> Free]
    /\ outcome = [s \in Sink |-> <<>>]
    /\ offered = [s \in Sink |-> <<>>]
    /\ kept = [s \in Sink |-> <<>>]

(* Emit, to every sink in turn: a select with a default, so a full queue   *)
(* drops the event.                                                        *)
Emit(e) ==
    LET fits(s) == e.type \in Selected /\ Len(queue[s]) < QueueSize IN
    /\ queue' = [s \in Sink |-> IF fits(s) THEN Append(queue[s], e) ELSE queue[s]]
    /\ offered' = [s \in Sink |-> IF e.type \in Selected THEN Append(offered[s], e) ELSE offered[s]]
    /\ kept' = [s \in Sink |-> IF fits(s) THEN Append(kept[s], Len(offered[s]) + 1) ELSE kept[s]]
    /\ UNCHANGED <<worker, outcome>>

(* The worker takes the next event.                                        *)
NextSignal(s) ==
    /\ ~worker[s].busy
    /\ queue[s] # <<>>
    /\ worker' = [worker EXCEPT ![s] = [busy |-> TRUE, event |-> Head(queue[s]), attempt |-> 0]]
    /\ queue' = [queue EXCEPT ![s] = Tail(@)]
    /\ UNCHANGED <<outcome, offered, kept>>

(* A Kubernetes Event needs an attested workload to be about.              *)
Skipped(s, e) == s \in KubeSink /\ ~(e.attestable /\ e.attester # "")

Done(s, how) ==
    /\ outcome' = [outcome EXCEPT ![s] = Append(@, [event |-> worker[s].event, how |-> how])]
    /\ worker' = [worker EXCEPT ![s] = Free]

(* Faulty: the failed attempt that was the last is not told from others.   *)
FaultyFails(s) ==
    worker' = [worker EXCEPT ![s].attempt = @ + 1] /\ UNCHANGED outcome

Fails(s) ==
    IF worker[s].attempt = Retries THEN Done(s, "given up")
    ELSE worker' = [worker EXCEPT ![s].attempt = @ + 1] /\ UNCHANGED outcome

(* deliver, and what run makes of its result: an attempt that fails may    *)
(* have reached the receiver, its reply lost, and a retry then repeats it. *)
(* The backoff is not modelled: it delays the next attempt only.           *)
Deliver(s) ==
    /\ worker[s].busy
    /\ IF Skipped(s, worker[s].event) THEN Done(s, "skipped")
       ELSE Done(s, "delivered") \/ Fails(s)
    /\ UNCHANGED <<queue, offered, kept>>

WorkerStep(s) == NextSignal(s) \/ Deliver(s)

-----------------------------------------------------------------------------
EventsOf(s) == [i \in DOMAIN s |-> s[i].event]

(* Every event of a selected type is acknowledged once, in the order they  *)
(* were emitted, unless its fate is on record: dropped on a full queue,    *)
(* skipped for want of a workload, or given up after retries + 1 attempts  *)
(* (signals.go:63-90, 155-159).                                            *)
SignalsAccounted ==
    \A s \in Sink :
        /\ [i \in DOMAIN kept[s] |-> offered[s][kept[s][i]]]
             = EventsOf(outcome[s])
               \o (IF worker[s].busy THEN <<worker[s].event>> ELSE <<>>) \o queue[s]
        /\ \A i, j \in DOMAIN kept[s] : i < j => kept[s][i] < kept[s][j]
        /\ worker[s].attempt <= Retries
        /\ Len(queue[s]) <= QueueSize

(* The worker is never stuck on one event: what is queued is done with.    *)
SignalsDrain ==
    \A s \in Sink : [](worker[s].busy \/ queue[s] # <<>> => <>(~worker[s].busy /\ queue[s] = <<>>))
=============================================================================
