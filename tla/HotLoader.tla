------------------------------ MODULE HotLoader ------------------------------
(***************************************************************************)
(* The sidecar's policy from disk to engine: what cmd/nullfield/main.go    *)
(* does at startup and what HotLoader, pkg/policy/watcher.go, does from    *)
(* then on.                                                                *)
(*                                                                         *)
(* The file is read three times while starting and up to twice per poll,   *)
(* and an editor or the kubelet may replace it between any two reads.      *)
(* Contents are opaque; a sha256 is taken to identify its content.         *)
(***************************************************************************)
EXTENDS Naturals

CONSTANTS
    Content,        \* what the policy file may contain
    Valid,          \* contents LoadProxySpecFromFile accepts
    Declares,       \* features of each content: a subset of {"budget", "hold"}
    ControllerMode, \* TRUE iff NULLFIELD_CONTROLLER_ADDR is set
    MaxEdits        \* bound on changes of the file

Missing == "missing"    \* the file cannot be read
DenyAll == "deny-all"   \* the built-in policy
NoHash == "no-hash"

ASSUME HotLoaderAssumption ==
    /\ Valid \subseteq Content
    /\ Declares \in [Content -> SUBSET {"budget", "hold"}]
    /\ ControllerMode \in BOOLEAN
    /\ MaxEdits \in Nat
    /\ {Missing, DenyAll, NoHash} \intersect Content = {}

VARIABLES
    file,           \* what a read of the path returns now
    edits,          \* changes so far
    pc,             \* where the main goroutine, later Watch, is
    trackers,       \* features main built a tracker or manager for
    engine,         \* the content whose rules are in force
    lastHash,       \* HotLoader.lastHash
    hashed,         \* hash in check, taken before the spec is loaded
    seen,           \* for the properties: contents the file has had
    moved,          \* for the properties: changed since the load in progress began
    torn            \* for the properties: the file changed between the two
                    \* reads that gave the engine in force and lastHash

vars == <<file, edits, pc, trackers, engine, lastHash, hashed, seen, moved, torn>>

Init ==
    /\ file \in Content \union {Missing}
    /\ edits = 0
    /\ pc = "start"
    /\ trackers = {}
    /\ engine = DenyAll
    /\ lastHash = NoHash
    /\ hashed = NoHash
    /\ seen = {file}
    /\ moved = FALSE
    /\ torn = FALSE

(* A ConfigMap update, an edit, a removal.                                 *)
Edit(v) ==
    /\ edits < MaxEdits
    /\ v # file
    /\ file' = v
    /\ edits' = edits + 1
    /\ seen' = seen \union {v}
    /\ moved' = TRUE
    /\ UNCHANGED <<pc, trackers, engine, lastHash, hashed, torn>>

(* Faulty: any file that can be read is taken for a policy.                *)
FaultyLoads(v) == v # Missing

(* LoadProxySpecFromFile succeeds.                                         *)
Loads(v) == v \in Valid

(* main: the spec that fixes the breaker limits, the budget tracker and    *)
(* the hold manager for the life of the process, or deny-all.              *)
LoadSpec ==
    /\ pc = "start"
    /\ engine' = IF Loads(file) THEN file ELSE DenyAll
    /\ trackers' = IF ControllerMode \/ ~Loads(file) THEN {} ELSE Declares[file]
    /\ pc' = "initial"
    /\ UNCHANGED <<file, edits, lastHash, hashed, seen, moved, torn>>

(* Faulty: Watch is started although nothing was loaded.                   *)
FaultyLoadInitial ==
    /\ pc = "initial"
    /\ IF Loads(file) THEN engine' = file /\ pc' = "hash"
       ELSE pc' = "watch" /\ UNCHANGED engine
    /\ moved' = FALSE
    /\ UNCHANGED <<file, edits, trackers, lastHash, hashed, seen, torn>>

(* LoadInitial up to engine.Store.  If the file does not load now, main    *)
(* keeps the engine it built and never starts Watch.                       *)
LoadInitial ==
    /\ pc = "initial"
    /\ IF Loads(file) THEN engine' = file /\ pc' = "hash"
       ELSE pc' = "static" /\ UNCHANGED engine
    /\ moved' = FALSE
    /\ UNCHANGED <<file, edits, trackers, lastHash, hashed, seen, torn>>

(* The rest of LoadInitial: the file is read again for lastHash, and an    *)
(* error of that read is ignored.  main then starts Watch.                 *)
HashInitial ==
    /\ pc = "hash"
    /\ lastHash' = file
    /\ torn' = moved
    /\ pc' = "watch"
    /\ UNCHANGED <<file, edits, trackers, engine, hashed, seen, moved>>

(* check, up to the comparison with lastHash.                              *)
Poll ==
    /\ pc = "watch"
    /\ file \notin {Missing, lastHash}
    /\ hashed' = file
    /\ pc' = "reload"
    /\ moved' = FALSE
    /\ UNCHANGED <<file, edits, trackers, engine, lastHash, seen, torn>>

(* Faulty: a file that does not load is remembered as seen.                *)
FaultyReloadHash ==
    /\ pc = "reload"
    /\ lastHash' = hashed
    /\ IF Loads(file) THEN engine' = file /\ torn' = moved
       ELSE UNCHANGED <<engine, torn>>
    /\ hashed' = NoHash
    /\ pc' = "watch"
    /\ UNCHANGED <<file, edits, trackers, seen, moved>>

(* Faulty: a file that does not load ends the polling loop.                *)
FaultyReloadExits ==
    /\ pc = "reload"
    /\ IF Loads(file)
       THEN engine' = file /\ lastHash' = hashed /\ torn' = moved
       ELSE UNCHANGED <<engine, lastHash, torn>>
    /\ hashed' = NoHash
    /\ pc' = IF Loads(file) THEN "watch" ELSE "static"
    /\ UNCHANGED <<file, edits, trackers, seen, moved>>

(* The rest of check: the spec is loaded by a read of its own.             *)
Reload ==
    /\ pc = "reload"
    /\ IF Loads(file)
       THEN engine' = file /\ lastHash' = hashed /\ torn' = moved
       ELSE UNCHANGED <<engine, lastHash, torn>>
    /\ hashed' = NoHash
    /\ pc' = "watch"
    /\ UNCHANGED <<file, edits, trackers, seen, moved>>

Loader == LoadSpec \/ LoadInitial \/ HashInitial \/ Poll \/ Reload

Next ==
    \/ \E v \in Content \union {Missing} : Edit(v)
    \/ Loader

(* Startup runs to its end and the ticker keeps firing.                    *)
Spec == Init /\ [][Next]_vars /\ WF_vars(Loader)

-----------------------------------------------------------------------------
TypeOK ==
    /\ file \in Content \union {Missing}
    /\ edits \in 0..MaxEdits
    /\ pc \in {"start", "initial", "hash", "watch", "reload", "static"}
    /\ trackers \in SUBSET {"budget", "hold"}
    /\ engine \in Valid \union {DenyAll}
    /\ lastHash \in Content \union {Missing, NoHash}
    /\ hashed \in Content \union {NoHash}
    /\ seen \subseteq Content \union {Missing}
    /\ moved \in BOOLEAN
    /\ torn \in BOOLEAN

(* A broken or removed file never takes effect and never ends enforcement: *)
(* the rules in force are deny-all, only while no version loaded, or a     *)
(* valid version the file really had (watcher.go:91-95, main.go:126-147).  *)
LastGoodPolicy ==
    /\ engine # DenyAll => engine \in Valid \intersect seen
    /\ pc \in {"hash", "watch", "reload"} => engine # DenyAll

(* The loader rests on a policy that is not the one on disk only if the    *)
(* file changed between the two reads of one load (watcher.go:48 and 55,   *)
(* 81 and 91): while watching, with nothing left for check to do, engine   *)
(* and file agree unless torn.                                             *)
StaleOnlyIfTorn ==
    pc \in {"watch", "reload"} /\ lastHash = file /\ ~torn => engine = file

(* A change check can see takes effect: once Watch was started, whatever   *)
(* broken versions were polled before, a valid file whose hash is not      *)
(* lastHash comes into force, unless it changes again (watcher.go:77-106). *)
ChangeTakesEffect ==
    \A v \in Valid :
        lastHash \notin {NoHash, v} /\ file = v ~> engine = v \/ file # v

(* watcher.go:1-3: "When the policy YAML changes on disk (e.g., ConfigMap  *)
(* update), the watcher detects the change and swaps the rule engine       *)
(* atomically."  So a valid file that stays comes into force.              *)
DiskPolicyInForce ==
    \A v \in Valid : (pc = "watch" /\ file = v) ~> (engine = v \/ file # v)

(* loader.go:33-35: a policy is refused if it sets "anything nullfield     *)
(* would not enforce".  So budgets in the rules in force are counted.      *)
BudgetsAreCounted ==
    engine \in Content /\ "budget" \in Declares[engine] => "budget" \in trackers
=============================================================================
