------------------------------ MODULE CRDWatcher ------------------------------
(***************************************************************************)
(* The CRD watcher, pkg/crdwatcher/watcher.go: at every tick the custom    *)
(* resources are listed and written to ConfigMaps, flows first, then       *)
(* policies, registries, and the policy that is active for the sidecar.    *)
(*                                                                         *)
(* Every request to the API server is a step of its own; resources and     *)
(* ConfigMaps change between them, any request may fail, and a write that  *)
(* failed may have been made.  A resource is [spec, active] (a policy),    *)
(* [doc, gen] (a flow) or [tools] (a registry).                            *)
(***************************************************************************)
EXTENDS Flow

CONSTANTS
    Resource,       \* the resources in list order, each <<kind, name>>
    Start,          \* their values at first, without and with the bridge
    Versions,       \* the values each may be changed to
    HandEdits,      \* the edits of ConfigMaps by hand: <<map, content>>
    SpecOf,         \* the policy each spec spells
    DocOf,          \* the document each flow spells
    Gone,           \* no such object
    Requests,       \* calls the compiled policies are tried on
    Budget          \* bounds: [changes, faults, hands, restarts], likewise

NoSpec == "no-spec"     \* a policy without a spec
NoSig == <<>>
Active == <<"active", "policy">>    \* the ConfigMap the sidecar mounts

Phases == <<"flow", "policy", "registry", "active">>
Named == {Resource[i] : i \in DOMAIN Resource}
OfKind(kind) == {i \in DOMAIN Resource : Resource[i][1] = kind}
FlowResource == {r \in Named : r[1] = "flow"}

IsSeq(s) == s \in Seq(Elements(s))

(* No two resources of a kind have the same name; a resource is made of    *)
(* specs and documents that are spelled out.                               *)
ASSUME WatcherAssumption ==
    /\ IsSeq(Resource)
    /\ \A i, j \in DOMAIN Resource : Resource[i] = Resource[j] => i = j
    /\ Gone \notin DOMAIN DocOf
    /\ \A d \in DOMAIN DocOf : IsSeq(DocOf[d].tools) /\ IsSeq(DocOf[d].linkerd.servers)
    /\ \A q \in Requests : q.args \in AnyArgs
    /\ \A b \in BOOLEAN :
          /\ Start[b] = [r \in Named |-> Start[b][r]]
          /\ \A r \in Named : Start[b][r] # Gone =>
                /\ r[1] = "policy" => Start[b][r].spec \in DOMAIN SpecOf \union {NoSpec}
                /\ r[1] = "flow" => Start[b][r].doc \in DOMAIN DocOf /\ Start[b][r].gen \in Nat
    /\ \A r \in Named : \A v \in Versions[r] : v # Gone =>
          /\ r[1] = "policy" => v.spec \in DOMAIN SpecOf \union {NoSpec}
          /\ r[1] = "flow" => v \in DOMAIN DocOf
    /\ \A e \in HandEdits : e[1] \in Named \union {Active}

VARIABLES
    bridged,        \* ActiveTargetCM and ActiveTargetLabel are set
    crs,            \* the custom resources
    cms,            \* the ConfigMaps: [holds], and for the properties who
                    \* wrote them and the generation written, [by, at]
    applied,        \* generated controls that exist in the cluster
    status,         \* the status of each flow
    syncing,        \* how far sync is
    lastActiveSig,  \* Watcher.lastActiveSig
    budget,         \* what may still happen
    astray          \* for the properties: the active ConfigMap was changed behind lastActiveSig

watcherVars == <<bridged, crs, cms, applied, status, syncing, lastActiveSig, budget, astray>>

(* listed are the controls the status names, and whether it says they were *)
(* applied.                                                                *)
NoStatus == [gen |-> 0, hash |-> Gone, compiled |-> "", controls |-> "", listed |-> {}]
Waiting == [phase |-> 0, step |-> "idle"]

WatcherInit ==
    /\ bridged \in BOOLEAN
    /\ crs = Start[bridged]
    /\ cms = [m \in Named \union {Active} |-> [holds |-> Gone, by |-> "nobody", at |-> 0]]
    /\ applied = {}
    /\ status = [r \in FlowResource |-> NoStatus]
    /\ syncing = Waiting
    /\ lastActiveSig = NoSig
    /\ budget \in Budget[bridged]
    /\ astray = FALSE

(* A call to the API server fails.                                         *)
Fault == budget.faults > 0 /\ budget' = [budget EXCEPT !.faults = @ - 1]

At(step) == syncing.step = step

Listing(p) ==
    IF p > Len(Phases) \/ (Phases[p] = "active" /\ ~bridged) THEN Waiting
    ELSE [phase |-> p, step |-> "list"]

(* What was listed, by its position in the list, is worked off in order.   *)
FirstOf(S) == CHOOSE i \in S : \A j \in S : i <= j

Item(todo) ==
    [name |-> Resource[FirstOf(DOMAIN todo)], value |-> todo[FirstOf(DOMAIN todo)]]

Rest(todo) == [i \in DOMAIN todo \ {FirstOf(DOMAIN todo)} |-> todo[i]]

(* The item in hand is done with.                                          *)
AfterItem ==
    IF DOMAIN Rest(syncing.todo) = {} THEN Listing(syncing.phase + 1)
    ELSE [phase |-> syncing.phase, step |-> "item", todo |-> Rest(syncing.todo)]

(* The ticker fires.                                                       *)
Sync ==
    /\ At("idle")
    /\ syncing' = Listing(1)
    /\ UNCHANGED <<bridged, crs, cms, applied, status, lastActiveSig, budget, astray>>

(* What listCRD returns.  For the bridge the first policy with the label   *)
(* is picked.                                                              *)
Found(kind) ==
    LET found == {i \in OfKind(IF kind = "active" THEN "policy" ELSE kind) :
                      crs[Resource[i]] # Gone /\ (kind = "active" => crs[Resource[i]].active)}
    IN  IF kind = "active" /\ found # {} THEN {FirstOf(found)} ELSE found

(* listCRD.                                                                *)
List ==
    LET found == Found(Phases[syncing.phase]) IN
    /\ At("list")
    /\ \/ /\ syncing' = IF found = {} THEN Listing(syncing.phase + 1)
                        ELSE [phase |-> syncing.phase, step |-> "item",
                              todo |-> [i \in found |-> crs[Resource[i]]]]
          /\ UNCHANGED budget
       \/ Fault /\ syncing' = Listing(syncing.phase + 1)
    /\ UNCHANGED <<bridged, crs, cms, applied, status, lastActiveSig, astray>>

-----------------------------------------------------------------------------
(* upsertConfigMap is called.                                              *)
Write(map, holds, report) ==
    syncing' = [phase |-> syncing.phase, todo |-> syncing.todo, step |-> "get",
                job |-> [map |-> map, holds |-> holds, exists |-> FALSE], report |-> report]

Report(v, hash, compiled, controls, listed) ==
    [gen |-> v.gen, hash |-> hash, compiled |-> compiled, controls |-> controls, listed |-> listed]

(* Faulty: what the sidecar would refuse is published.                     *)
FaultyPublishable(spec) == spec # NoSpec

(* A policy is published only if ParseSpec accepts it.                     *)
Publishable(spec) == spec # NoSpec /\ ParseSpec(SpecOf[spec])

Sig(item) == <<item.name, item.value.spec>>

(* syncPolicies, syncRegistries and syncActivePolicy up to the write.      *)
PublishItem ==
    LET item == Item(syncing.todo)
        kind == Phases[syncing.phase]
    IN
    /\ At("item") /\ kind # "flow"
    /\ IF kind = "registry" THEN Write(item.name, item.value.tools, NoStatus)
       ELSE IF ~Publishable(item.value.spec) THEN syncing' = AfterItem
       ELSE IF kind = "policy" THEN Write(item.name, item.value.spec, NoStatus)
       ELSE IF Sig(item) = lastActiveSig THEN syncing' = AfterItem
       ELSE Write(Active, item.value.spec, NoStatus)
    /\ UNCHANGED <<bridged, crs, cms, applied, status, lastActiveSig, budget, astray>>

(* syncAgenticFlows up to the controls.  A flow that cannot be parsed is   *)
(* skipped without a word in its status.                                   *)
CompileItem ==
    LET v == Item(syncing.todo).value
        doc == DocOf[v.doc]
    IN
    /\ At("item") /\ Phases[syncing.phase] = "flow"
    /\ syncing' =
          IF ~doc.readable \/ doc.name = "" THEN AfterItem
          ELSE IF ~Compiles(doc) \/ ~ParseSpec(CompilePolicy(doc))
          THEN [phase |-> syncing.phase, todo |-> syncing.todo, step |-> "patch",
                report |-> Report(v, Gone, "False", "", {})]
          ELSE [phase |-> syncing.phase, todo |-> syncing.todo, step |-> "controls",
                ctls |-> CompileControls(doc), listed |-> {}, failed |-> FALSE]
    /\ UNCHANGED <<bridged, crs, cms, applied, status, lastActiveSig, budget, astray>>

Applies(doc, ctl) == doc.generated.declared /\ doc.generated.mode = "apply" /\ ctl.kind \in doc.generated.apply

(* reconcileGeneratedControls: one control, its upsert as one request.     *)
ReconcileControl ==
    LET doc == DocOf[Item(syncing.todo).value.doc]
        ctl == Head(syncing.ctls)
        rest == [syncing EXCEPT !.ctls = Tail(@)]
    IN
    /\ At("controls") /\ syncing.ctls # <<>>
    /\ \/ /\ ~Applies(doc, ctl)
          /\ syncing' = [rest EXCEPT !.listed = @ \union {<<ctl, FALSE>>}]
          /\ UNCHANGED <<applied, budget>>
       \/ /\ Applies(doc, ctl)
          /\ applied' = applied \union {ctl}
          /\ syncing' = [rest EXCEPT !.listed = @ \union {<<ctl, TRUE>>}]
          /\ UNCHANGED budget
       \/ /\ Applies(doc, ctl) /\ Fault
          /\ applied' \in {applied, applied \union {ctl}}
          /\ syncing' = [rest EXCEPT !.failed = TRUE, !.listed = @ \union {<<ctl, FALSE>>}]
    /\ UNCHANGED <<bridged, crs, cms, status, lastActiveSig, astray>>

(* The condition the controls leave, and the write of the artifacts.       *)
PublishFlow ==
    LET item == Item(syncing.todo)
        doc == DocOf[item.value.doc]
        condition == IF CompileControls(doc) = <<>> THEN "none"
                     ELSE IF ~doc.generated.declared \/ doc.generated.mode # "apply" THEN "previewed"
                     ELSE IF syncing.failed THEN "failed" ELSE "applied"
    IN
    /\ At("controls") /\ syncing.ctls = <<>>
    /\ Write(item.name, item.value.doc, Report(item.value, item.value.doc, "True", condition, syncing.listed))
    /\ UNCHANGED <<bridged, crs, cms, applied, status, lastActiveSig, budget, astray>>

-----------------------------------------------------------------------------
(* upsertConfigMap's GET.  Not found and failed look the same.             *)
GetMap ==
    /\ At("get")
    /\ \/ /\ syncing' = [syncing EXCEPT !.step = "put",
                                       !.job.exists = cms[syncing.job.map].holds # Gone]
          /\ UNCHANGED budget
       \/ Fault /\ syncing' = [syncing EXCEPT !.step = "put"]
    /\ UNCHANGED <<bridged, crs, cms, applied, status, lastActiveSig, astray>>

(* Faulty: the signature is remembered before the write is known to be     *)
(* made.                                                                   *)
FaultyRemembered(ok) == Sig(Item(syncing.todo))

Remembered(ok) == IF ok THEN Sig(Item(syncing.todo)) ELSE lastActiveSig

(* Faulty: the artifacts are reported synced whether or not they were.     *)
FaultyReported(ok) == syncing.report

Reported(ok) == IF ok THEN syncing.report ELSE [syncing.report EXCEPT !.compiled = "False"]

(* Where a write leads, once it has answered.                              *)
AfterWrite(ok) ==
    LET kind == Phases[syncing.phase] IN
    /\ syncing' = IF kind = "flow"
                  THEN [phase |-> syncing.phase, todo |-> syncing.todo, step |-> "patch",
                        report |-> Reported(ok)]
                  ELSE AfterItem
    /\ lastActiveSig' = IF kind = "active" THEN Remembered(ok) ELSE lastActiveSig

(* upsertConfigMap's PUT or POST.  A PUT of a map that went away and a     *)
(* POST of one that is there fail; a call that fails may have been made.   *)
PutMap ==
    LET job == syncing.job
        fits == job.exists <=> cms[job.map].holds # Gone
        made == [cms EXCEPT ![job.map] = [holds |-> job.holds, by |-> "watcher", at |-> syncing.report.gen]]
    IN
    /\ At("put")
    /\ \/ /\ fits /\ cms' = made /\ AfterWrite(TRUE)
          /\ astray' = (astray /\ job.map # Active)
          /\ UNCHANGED budget
       \/ ~fits /\ UNCHANGED <<cms, budget, astray>> /\ AfterWrite(FALSE)
       \/ Fault /\ UNCHANGED <<cms, astray>> /\ AfterWrite(FALSE)
       \/ /\ Fault /\ fits /\ cms' = made /\ AfterWrite(FALSE)
          /\ astray' = (astray \/ job.map = Active)
    /\ UNCHANGED <<bridged, crs, applied, status>>

(* patchAgenticFlowStatus: a merge patch, so what a report leaves out      *)
(* stays; its failure is only logged.                                      *)
PatchStatus ==
    LET r == syncing.report
        f == Item(syncing.todo).name
    IN
    /\ At("patch")
    /\ \/ /\ crs[f] # Gone
          /\ status' = [status EXCEPT ![f] =
                          [gen |-> r.gen, hash |-> IF r.hash = Gone THEN @.hash ELSE r.hash,
                           compiled |-> r.compiled, controls |-> r.controls,
                           listed |-> IF r.listed = {} THEN @.listed ELSE r.listed]]
          /\ UNCHANGED budget
       \/ crs[f] = Gone /\ UNCHANGED <<status, budget>>
       \/ Fault /\ UNCHANGED status
    /\ syncing' = AfterItem
    /\ UNCHANGED <<bridged, crs, cms, applied, lastActiveSig, astray>>

WatcherStep ==
    \/ Sync \/ List \/ PublishItem \/ CompileItem \/ ReconcileControl \/ PublishFlow
    \/ GetMap \/ PutMap \/ PatchStatus

-----------------------------------------------------------------------------
Spends(what) == budget[what] > 0 /\ budget' = [budget EXCEPT ![what] = @ - 1]

(* Someone applies, changes or deletes a resource.  A change of a flow has *)
(* a generation of its own; a deleted flow takes its status with it.       *)
Change(r, v) ==
    /\ Spends("changes")
    /\ IF r \in FlowResource THEN crs[r] # Gone ELSE crs[r] # v
    /\ crs' = [crs EXCEPT ![r] =
                 IF r \in FlowResource /\ v # Gone THEN [doc |-> v, gen |-> @.gen + 1] ELSE v]
    /\ status' = IF v = Gone /\ r \in FlowResource THEN [status EXCEPT ![r] = NoStatus] ELSE status
    /\ UNCHANGED <<bridged, cms, applied, syncing, lastActiveSig, astray>>

(* Someone edits or deletes a ConfigMap by hand.                           *)
HandEdit ==
    /\ Spends("hands")
    /\ \E e \in HandEdits :
          /\ cms' = [cms EXCEPT ![e[1]] = [holds |-> e[2], by |-> "hand", at |-> 0]]
          /\ astray' = (astray \/ e[1] = Active)
    /\ UNCHANGED <<bridged, crs, applied, status, syncing, lastActiveSig>>

(* The controller restarts and forgets what it wrote.                      *)
Restart ==
    /\ Spends("restarts")
    /\ syncing' = Waiting
    /\ lastActiveSig' = NoSig
    /\ astray' = FALSE
    /\ UNCHANGED <<bridged, crs, cms, applied, status>>

-----------------------------------------------------------------------------
(* The policy the bridge should be delivering.                             *)
Picked ==
    IF Found("active") = {} THEN NoSpec ELSE crs[Resource[FirstOf(Found("active"))]].spec

(* Flows whose policy the sidecar loads, and which lets through only what  *)
(* the flow names.                                                         *)
SoundFlows == {d \in DOMAIN DocOf : /\ Compiles(DocOf[d])
                                    /\ LoadProxySpec(CompilePolicy(DocOf[d]))
                                    /\ FlowIsClosed(DocOf[d], Requests)}

(* Policies the sidecar loads, or refuses for their run tokens alone.      *)
SoundSpecs ==
    {s \in DOMAIN SpecOf : \/ LoadProxySpec(SpecOf[s])
                           \/ ParseSpec(SpecOf[s]) /\ SpecOf[s].runToken.declared}

(* Whatever was listed when, and whichever calls failed in between, a      *)
(* ConfigMap the watcher wrote holds a policy that the sidecar loads or    *)
(* refuses for nothing but its run tokens, which the watcher does not look *)
(* at (loader.go:61), or the artifacts of a flow whose compiled policy the *)
(* sidecar does load and that lets through nothing the flow does not name  *)
(* (watcher.go:197, 277, 350).  PublishedIsAccepted is the stronger        *)
(* promise that the change log makes.                                      *)
PublishedIsValid ==
    \A m \in DOMAIN cms : cms[m].by = "watcher" =>
        /\ m[1] \in {"policy", "active"} => cms[m].holds \in SoundSpecs
        /\ m[1] = "flow" => cms[m].holds \in SoundFlows

(* What CHANGELOG.md:176-178 says, and the message at watcher.go:198: the  *)
(* watcher keeps the current ConfigMap rather than publish a policy its    *)
(* sidecars would refuse.  It applies ParseSpec (watcher.go:197), and the  *)
(* sidecar LoadProxySpecFromFile, which refuses run tokens as well         *)
(* (loader.go:61).                                                         *)
PublishedIsAccepted ==
    cms[Active].by = "watcher" => LoadProxySpec(SpecOf[cms[Active].holds])

(* A flow's status claims nothing the cluster does not bear out, whichever *)
(* write or patch was lost: while it says that a generation was compiled,  *)
(* the ConfigMap holds that generation or a later one, unless someone      *)
(* changed it by hand; a control it lists as applied exists; and when it   *)
(* says that the controls were applied, all that were asked for exist      *)
(* (watcher.go:372-405, 494-546).                                          *)
StatusHonest ==
    \A f \in FlowResource :
        LET s == status[f] IN
        /\ s.compiled = "True" /\ cms[f].by # "hand" =>
              /\ cms[f].at >= s.gen
              /\ cms[f].at = s.gen => cms[f].holds = s.hash
        /\ \A l \in s.listed : l[2] => l[1] \in applied
        /\ s.controls = "applied" =>
              \A c \in Elements(CompileControls(DocOf[s.hash])) : Applies(DocOf[s.hash], c) => c \in applied
=============================================================================
