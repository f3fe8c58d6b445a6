--------------------------- MODULE DeliveryProofs ---------------------------
(***************************************************************************)
(* How a policy gets into force, for any contents, edits and flows: the    *)
(* rules the loader enforces are the last good ones it read, a stale policy*)
(* takes an edit between the two reads of a load, what the flow compiler   *)
(* writes is closed under the rule engine, what the watcher publishes is   *)
(* valid and the status it patches honest, and watcher, kubelet and loader *)
(* together implement the loader.                                          *)
(*                                                                         *)
(* StaleOnlyIfTorn is not inductive: it says nothing while a load is under *)
(* way.  HashNamesEngine says what the reads of a load say of each other.  *)
(* That compiled flows are closed is a fact about operators, for every flow*)
(* and request; the least stopping rule exists because the naturals are    *)
(* well founded.                                                           *)
(***************************************************************************)
EXTENDS Delivery, WellFoundedInduction, TLAPS

(* A set of natural numbers that has members has a least one.              *)
LEMMA LeastExists ==
    ASSUME NEW S \in SUBSET Nat, S # {}
    PROVE  \E j \in S : \A m \in S : j <= m
<1>1. PICK R : R = OpToRel(<, Nat)
  BY Zenon
<1>2. IsWellFoundedOn(R, Nat)
  BY <1>1, NatLessThanWellFounded, Zenon
<1>3. \A x, y \in Nat : y < x => <<y, x>> \in R
  BY <1>1 DEF OpToRel
<1>4. PICK j \in S : \A m \in S : ~(<<m, j>> \in R)
  BY <1>2, WFMin, Zenon
<1>5. \A m \in S : ~(m < j)
  BY <1>3, <1>4, Zenon
<1> QED BY <1>5

(* It is the one that CHOOSE takes.                                        *)
LEMMA LeastNatural ==
    ASSUME NEW S \in SUBSET Nat, S # {}
    PROVE  (CHOOSE j \in S : \A m \in S : j <= m) \in S
  BY LeastExists, Zenon

(* StaleOnlyIfTorn speaks of the moments the hash matches the file.  What  *)
(* is preserved is what the reads say of each other: without an edit since *)
(* the first read of a load the file still is what it returned, and once   *)
(* an untorn load is over lastHash identifies the engine in force,         *)
(* whatever the file is.                                                   *)
HashNamesEngine ==
    /\ pc = "hash" /\ ~moved => file = engine
    /\ pc = "reload" /\ ~moved => file = hashed
    /\ pc \in {"watch", "reload"} /\ ~torn => lastHash = engine

LoaderInv ==
    /\ TypeOK
    /\ file \in seen
    /\ LastGoodPolicy
    /\ HashNamesEngine

(* The loader has read nothing at the start.                               *)
LEMMA LoaderStarts == Init => LoaderInv
<1> SUFFICES ASSUME Init PROVE LoaderInv
  OBVIOUS
<1>1. TypeOK
  <2>1. edits \in 0..MaxEdits
    BY HotLoaderAssumption DEF Init
  <2> QED
    BY <2>1, Zenon DEF Init, TypeOK
<1>2. file \in seen /\ LastGoodPolicy /\ HashNamesEngine
  BY SMTT(40) DEF Init, LastGoodPolicy, HashNamesEngine
<1> QED
  BY <1>1, <1>2 DEF LoaderInv

(* Reads, loads and edits preserve the invariant.                          *)
LEMMA LoaderKeeps == LoaderInv /\ [Next]_vars => LoaderInv'
<1> SUFFICES ASSUME LoaderInv, [Next]_vars PROVE LoaderInv'
  OBVIOUS
<1> USE HotLoaderAssumption DEF LoaderInv, TypeOK, LastGoodPolicy, HashNamesEngine, Loads
<1>1. ASSUME NEW v \in Content \union {Missing}, Edit(v) PROVE LoaderInv'
  BY <1>1 DEF Edit
<1>2. CASE LoadSpec
  BY <1>2 DEF LoadSpec
<1>3. CASE LoadInitial
  BY <1>3, Zenon DEF LoadInitial
<1>4. CASE HashInitial
  BY <1>4 DEF HashInitial
<1>5. CASE Poll
  BY <1>5, Zenon DEF Poll
<1>6. CASE Reload
  BY <1>6 DEF Reload
<1>7. CASE UNCHANGED vars
  BY <1>7 DEF vars
<1> QED
  BY <1>1, <1>2, <1>3, <1>4, <1>5, <1>6, <1>7, Zenon DEF Next, Loader

(* The loader's invariant, in every reachable state.                       *)
LEMMA LoaderInvariant == Spec => []LoaderInv
  BY LoaderStarts, LoaderKeeps, PTL DEF Spec

(* The loader's state has its type at all times.                           *)
THEOREM TypeCorrect == Spec => []TypeOK
<1>1. LoaderInv => TypeOK
  BY DEF LoaderInv
<1> QED
  BY <1>1, LoaderInvariant, PTL

(* The rules in force are always deny-all or a valid version the file had, *)
(* and never deny-all once the loader watches (watcher.go:47-106).         *)
THEOREM PolicyIsLastGood == Spec => []LastGoodPolicy
<1>1. LoaderInv => LastGoodPolicy
  BY DEF LoaderInv
<1> QED
  BY <1>1, LoaderInvariant, PTL

(* Resting on a stale policy takes an edit between the two reads of one    *)
(* load (watcher.go:47-60, 77-106).                                        *)
THEOREM StalenessNeedsTornRead == Spec => []StaleOnlyIfTorn
<1>1. LoaderInv => StaleOnlyIfTorn
  BY DEF LoaderInv, HashNamesEngine, StaleOnlyIfTorn
<1> QED
  BY <1>1, LoaderInvariant, PTL

-----------------------------------------------------------------------------
(* The compiled rules: one for each tool, and the default at the end.      *)
LEMMA CompiledRules ==
    ASSUME NEW doc, doc.tools \in Seq(Elements(doc.tools))
    PROVE  /\ DOMAIN CompileRules(doc) \subseteq Nat
           /\ \A i \in DOMAIN CompileRules(doc) :
                 \/ i \in DOMAIN doc.tools /\ CompileRules(doc)[i] = CompileRule(doc, doc.tools[i])
                 \/ CompileRules(doc)[i] = DefaultDeny
<1>1. PICK n \in Nat : n = Len(doc.tools) /\ DOMAIN doc.tools = 1..n
  OBVIOUS
<1>2. PICK rs : rs = [j \in DOMAIN doc.tools |-> CompileRule(doc, doc.tools[j])]
  BY Zenon
<1>3. DOMAIN rs = 1..n /\ \A j \in 1..n : rs[j] = CompileRule(doc, doc.tools[j])
  BY <1>1, <1>2
<1>4. Len(rs) = n /\ rs \in Seq({rs[j] : j \in 1..n})
  BY <1>1, <1>2, <1>3
<1>5. CompileRules(doc) = Append(rs, DefaultDeny)
  BY <1>2 DEF CompileRules
<1>6. /\ DOMAIN CompileRules(doc) = 1..(n + 1)
      /\ \A j \in 1..n : CompileRules(doc)[j] = rs[j]
      /\ CompileRules(doc)[n + 1] = DefaultDeny
  BY <1>4, <1>5
<1> QED BY <1>1, <1>3, <1>6

(* A compiled rule that lets a call through is one for the tool it names,  *)
(* and that tool may be called.                                            *)
LEMMA CompiledRuleLetsThrough ==
    ASSUME NEW doc, NEW t, NEW q, q.args \in AnyArgs,
           Stops(CompileRule(doc, t), q),
           ReasonClass(CompileRule(doc, t), q) \in {"allowed", "policy_scoped"}
    PROVE  /\ doc.requireIdentity => q.identity # NoIdentity
           /\ t.name = "*" \/ Fold(t.name) = Fold(q.tool)
           /\ t.action \in {"", "ALLOW", "SCOPE"} \/ t.inline # {} \/ t.refs # <<>>
<1>1. PICK injected : injected = resolveToolCredentials(t, doc.credentials)
  OBVIOUS
<1>2. PICK r : r = CompileRule(doc, t)
  OBVIOUS
<1>3. /\ r.action = IF injected # {} THEN "SCOPE" ELSE IF t.action = "" THEN "ALLOW" ELSE t.action
      /\ r.tools = {t.name}
      /\ r.cel = [a \in AnyArgs |-> "true"]
  BY <1>1, <1>2, Zenon DEF CompileRule
<1>4. r.requireIdentity <=> doc.requireIdentity
  BY <1>2, Zenon DEF CompileRule
<1>5. matchesCEL(r, q) = "true"
  BY <1>3, Zenon DEF matchesCEL
<1>6. ~LacksIdentity(r, q)
  BY <1>2, <1>5 DEF ReasonClass
<1>7. r.action \in Actions
  BY <1>2, <1>5, <1>6 DEF Stops
<1>8. r.action \in {"ALLOW", "SCOPE"}
  BY <1>2, <1>5, <1>6, <1>7 DEF ReasonClass, Actions
<1>9. matchesToolName(r, q)
  BY <1>2 DEF Stops, Matches
<1>10. injected # {} => t.inline # {} \/ t.refs # <<>>
  BY <1>1 DEF resolveToolCredentials, Elements
<1>11. t.name = "*" \/ Fold(t.name) = Fold(q.tool)
  BY <1>3, <1>9, Zenon DEF matchesToolName
<1>12. doc.requireIdentity => q.identity # NoIdentity
  BY <1>4, <1>6 DEF LacksIdentity
<1> QED BY <1>3, <1>8, <1>10, <1>11, <1>12, Zenon

(* The rule the compiler appends denies.                                   *)
LEMMA DefaultDenies ==
    ASSUME NEW q, q.args \in AnyArgs
    PROVE  ReasonClass(DefaultDeny, q) = "policy_denied"
<1>1. matchesCEL(DefaultDeny, q) = "true" /\ DefaultDeny.action = "DENY"
  BY DEF matchesCEL, DefaultDeny
<1>2. ~LacksIdentity(DefaultDeny, q)
  BY DEF LacksIdentity, DefaultDeny
<1> QED BY <1>1, <1>2 DEF ReasonClass

(* For every flow, whatever tools, actions, callers and credentials it     *)
(* declares, and every request: the engine lets the request through the    *)
(* compiled rules only if the flow names its tool and neither denies nor   *)
(* holds it, and with an identity if the flow requires one                 *)
(* (compiler.go:347-409, rules.go).                                        *)
THEOREM CompiledFlowsAreClosed ==
    ASSUME NEW doc, doc.tools \in Seq(Elements(doc.tools)),
           NEW requests, \A q \in requests : q.args \in AnyArgs
    PROVE  FlowIsClosed(doc, requests)
<1> SUFFICES ASSUME NEW q \in requests, Evaluate(CompileRules(doc), q).allowed
             PROVE  /\ doc.requireIdentity => q.identity # NoIdentity
                    /\ \E t \in Elements(doc.tools) :
                          /\ t.name = "*" \/ Fold(t.name) = Fold(q.tool)
                          /\ t.action \in {"", "ALLOW", "SCOPE"} \/ t.inline # {} \/ t.refs # <<>>
  BY Zenon DEF FlowIsClosed
<1>1. PICK rules : rules = CompileRules(doc)
  OBVIOUS
<1>2. PICK stopping : stopping = {i \in DOMAIN rules : Stops(rules[i], q)}
  BY Zenon
<1>3. \A class, i : Decision(class, i).allowed <=> class \in {"allowed", "policy_scoped"}
  BY Zenon DEF Decision
<1>4. stopping # {}
  BY <1>1, <1>2, <1>3 DEF Evaluate
<1>5. DOMAIN rules \subseteq Nat
  BY <1>1, CompiledRules
<1>6. PICK i \in stopping : Evaluate(rules, q) = Decision(ReasonClass(rules[i], q), i)
  BY <1>2, <1>4, <1>5, LeastNatural, Zenon DEF Evaluate
<1>7. ReasonClass(rules[i], q) \in {"allowed", "policy_scoped"}
  BY <1>1, <1>3, <1>6
<1>8. rules[i] # DefaultDeny
  BY <1>7, DefaultDenies
<1>9. i \in DOMAIN doc.tools /\ rules[i] = CompileRule(doc, doc.tools[i])
  BY <1>1, <1>2, <1>8, CompiledRules
<1>10. PICK t \in Elements(doc.tools) : rules[i] = CompileRule(doc, t)
  BY <1>9 DEF Elements
<1>11. Stops(CompileRule(doc, t), q) /\ ReasonClass(CompileRule(doc, t), q) \in {"allowed", "policy_scoped"}
  BY <1>2, <1>7, <1>10
<1> QED BY <1>10, <1>11, CompiledRuleLetsThrough, Zenon

-----------------------------------------------------------------------------
(* The watcher.  What is in flight between a list and the patch of a       *)
(* status is as old as the list; the invariant says of each step of sync   *)
(* what it may still rely on.  A resource is made of what is spelled out.  *)
ResourceOK(r, v) ==
    /\ r[1] = "policy" => v.spec \in DOMAIN SpecOf \union {NoSpec}
    /\ r[1] = "flow" => v.doc \in DOMAIN DocOf /\ v.gen \in Nat

(* A flow listed as v, now c with status t: the status and what was listed *)
(* are no newer than the resource and, of the same generation, agree.      *)
Newer(v, t) ==
    /\ t.gen <= v.gen
    /\ t.compiled = "True" /\ t.gen = v.gen => t.hash = v.doc

Current(v, c, t) ==
    /\ Newer(v, t)
    /\ c # Gone => v.gen <= c.gen /\ (v.gen = c.gen => v.doc = c.doc)

KindAt(p) == IF Phases[p] = "active" THEN "policy" ELSE Phases[p]

(* What was listed in phase p, with the resources c and the statuses t.    *)
Listed(p, i, v, c, t) ==
    /\ i \in DOMAIN Resource
    /\ Resource[i][1] = KindAt(p)
    /\ ResourceOK(Resource[i], v)
    /\ Phases[p] = "flow" => Current(v, c[Resource[i]], t[Resource[i]])

TodoOK(p, todo, c, t) ==
    /\ p \in 1..4
    /\ DOMAIN todo # {}
    /\ \A i \in DOMAIN todo : Listed(p, i, todo[i], c, t)

(* With the controls a in the cluster: those listed as applied exist, and  *)
(* all that the document d asks for do.                                    *)
Backed(listed, a) == \A l \in listed : l[2] => l[1] \in a

AllApplied(d, a) == \A k \in Elements(CompileControls(DocOf[d])) : Applies(DocOf[d], k) => k \in a

ReportOK(r, v, a) ==
    /\ r = [gen |-> r.gen, hash |-> r.hash, compiled |-> r.compiled, controls |-> r.controls,
            listed |-> r.listed]
    /\ r.gen = v.gen
    /\ r.hash \in {Gone, v.doc}
    /\ r.compiled = "True" => r.hash = v.doc
    /\ Backed(r.listed, a)
    /\ r.controls = "applied" => r.hash = v.doc /\ AllApplied(v.doc, a)

ControlsOK(s, v, a) ==
    /\ s = [phase |-> s.phase, todo |-> s.todo, step |-> s.step, ctls |-> s.ctls,
            listed |-> s.listed, failed |-> s.failed]
    /\ Phases[s.phase] = "flow"
    /\ v.doc \in SoundFlows
    /\ IsSeq(s.ctls)
    /\ Backed(s.listed, a)
    /\ \A k \in Elements(CompileControls(DocOf[v.doc])) :
          Applies(DocOf[v.doc], k) => s.failed \/ k \in a \/ k \in Elements(s.ctls)

(* What is about to be written, and what will be reported of it.           *)
WriteOK(s, item, a) ==
    /\ s = [phase |-> s.phase, todo |-> s.todo, step |-> s.step, job |-> s.job, report |-> s.report]
    /\ s.job = [map |-> s.job.map, holds |-> s.job.holds, exists |-> s.job.exists]
    /\ s.report.gen \in Nat
    /\ s.job.map = IF Phases[s.phase] = "active" THEN Active ELSE item.name
    /\ Phases[s.phase] \in {"policy", "active"} => s.job.holds \in SoundSpecs
    /\ Phases[s.phase] = "flow" =>
          /\ s.job.holds = item.value.doc /\ s.job.holds \in SoundFlows
          /\ ReportOK(s.report, item.value, a)
          /\ s.report.hash = item.value.doc

(* A report of success was earned by a write, which only a hand undoes.    *)
Earned(r, m) == r.compiled = "True" /\ m.by # "hand" => m.at = r.gen /\ m.holds = r.hash

PatchOK(s, item, m, a) ==
    /\ Phases[s.phase] = "flow"
    /\ ReportOK(s.report, item.value, a)
    /\ Earned(s.report, m[item.name])

(* With the resources c, statuses t, maps m and controls a.                *)
SyncOK(s, c, t, m, a) ==
    /\ s.step \in {"idle", "list", "item", "controls", "get", "put", "patch"}
    /\ s.step = "list" => s.phase \in 1..4
    /\ s.step \in {"item", "controls", "get", "put", "patch"} => TodoOK(s.phase, s.todo, c, t)
    /\ s.step = "controls" => ControlsOK(s, Item(s.todo).value, a)
    /\ s.step \in {"get", "put"} => WriteOK(s, Item(s.todo), a)
    /\ s.step = "patch" => PatchOK(s, Item(s.todo), m, a)

Maps == Named \union {Active}

CrsOK ==
    /\ crs = [r \in Named |-> crs[r]]
    /\ \A r \in Named : crs[r] # Gone => ResourceOK(r, crs[r])

CmsOK ==
    /\ cms = [m \in Maps |-> cms[m]]
    /\ \A m \in Maps : cms[m].at \in Nat

StatusOK ==
    /\ status = [f \in FlowResource |-> status[f]]
    /\ \A f \in FlowResource : status[f].gen \in Nat /\ (crs[f] # Gone => Newer(crs[f], status[f]))

(* What a status s may claim, of the map m and the controls a.             *)
Honest(s, m, a) ==
    /\ s.compiled = "True" /\ m.by # "hand" => m.at >= s.gen /\ (m.at = s.gen => m.holds = s.hash)
    /\ Backed(s.listed, a)
    /\ s.controls = "applied" => AllApplied(s.hash, a)

WatcherInv ==
    /\ CrsOK /\ CmsOK /\ StatusOK
    /\ PublishedIsValid
    /\ \A f \in FlowResource : Honest(status[f], cms[f], applied)
    /\ SyncOK(syncing, crs, status, cms, applied)

(* What the invariant says of statuses is what is to be shown.             *)
LEMMA StatusesHonest == WatcherInv => StatusHonest
  BY DEF WatcherInv, Honest, StatusHonest, Backed, AllApplied

(* The phases of sync, in their order.                                     *)
LEMMA PhaseNames ==
    /\ Phases[1] = "flow" /\ Phases[2] = "policy" /\ Phases[3] = "registry" /\ Phases[4] = "active"
    /\ Len(Phases) = 4
  BY DEF Phases

(* The first of what is to do is one of it.                                *)
LEMMA PositionsAreNat == DOMAIN Resource \subseteq Nat
  BY WatcherAssumption DEF IsSeq

(* The first of some positions is one of them.                             *)
LEMMA FirstIsIn ==
    ASSUME NEW S, S # {}, S \subseteq DOMAIN Resource
    PROVE  FirstOf(S) \in S
<1>1. S \in SUBSET Nat
  BY PositionsAreNat
<1> QED BY <1>1, LeastNatural DEF FirstOf

(* The item a sync is at is one it listed.                                 *)
LEMMA ItemIsListed ==
    ASSUME NEW p, NEW todo, NEW c, NEW t, TodoOK(p, todo, c, t)
    PROVE  \E i \in DOMAIN todo :
              /\ i = FirstOf(DOMAIN todo)
              /\ Item(todo).name = Resource[i] /\ Item(todo).value = todo[i]
              /\ Item(todo).name \in Named
              /\ Listed(p, i, todo[i], c, t)
<1>1. DOMAIN todo # {} /\ DOMAIN todo \subseteq DOMAIN Resource
  BY DEF TodoOK, Listed
<1>2. FirstOf(DOMAIN todo) \in DOMAIN todo
  BY <1>1, FirstIsIn
<1>3. PICK i \in DOMAIN todo : i = FirstOf(DOMAIN todo)
  BY <1>2
<1>4. Item(todo).name = Resource[i] /\ Item(todo).value = todo[i]
  BY <1>3 DEF Item
<1>5. Resource[i] \in Named
  BY <1>1 DEF Named
<1> QED BY <1>3, <1>4, <1>5 DEF TodoOK

(* Sync goes on to the next phase.                                         *)
LEMMA NextPhase ==
    ASSUME NEW p \in 1..5, NEW c, NEW t, NEW m, NEW a
    PROVE  SyncOK(Listing(p), c, t, m, a)
<1>1. Listing(p) = Waiting \/ (p \in 1..4 /\ Listing(p) = [phase |-> p, step |-> "list"])
  BY PhaseNames DEF Listing
<1>2. Waiting.step = "idle"
  BY DEF Waiting
<1>3. CASE Listing(p) = Waiting
  BY <1>2, <1>3 DEF SyncOK
<1>4. CASE p \in 1..4 /\ Listing(p) = [phase |-> p, step |-> "list"]
  <2>1. Listing(p).step = "list" /\ Listing(p).phase = p
    BY <1>4
  <2> QED BY <1>4, <2>1 DEF SyncOK
<1> QED BY <1>1, <1>3, <1>4

(* The item in hand is done with: what was listed of the others still      *)
(* holds of the resources c and the statuses t.                            *)
LEMMA ItemDone ==
    ASSUME NEW c, NEW t, NEW m, NEW a, NEW p \in 1..4, syncing.phase = p,
           \A i \in DOMAIN syncing.todo :
               i # FirstOf(DOMAIN syncing.todo) => Listed(p, i, syncing.todo[i], c, t)
    PROVE  SyncOK(AfterItem, c, t, m, a)
<1>1. PICK todo : todo = Rest(syncing.todo)
  OBVIOUS
<1>2. \A i \in DOMAIN todo : Listed(p, i, todo[i], c, t)
  BY <1>1 DEF Rest
<1>3. CASE DOMAIN todo = {}
  <2>1. AfterItem = Listing(p + 1) /\ p + 1 \in 1..5
    BY <1>1, <1>3 DEF AfterItem
  <2> QED BY <2>1, NextPhase
<1>4. CASE DOMAIN todo # {}
  <2>1. PICK s : s = [phase |-> p, step |-> "item", todo |-> todo]
    BY Zenon
  <2>2. AfterItem = s
    BY <1>1, <1>4, <2>1 DEF AfterItem
  <2>3. s.phase = p /\ s.step = "item" /\ s.todo = todo
    BY <2>1
  <2>4. TodoOK(p, todo, c, t)
    BY <1>2, <1>4 DEF TodoOK
  <2> QED BY <2>2, <2>3, <2>4 DEF SyncOK
<1> QED BY <1>3, <1>4, Zenon

(* A step that changes nothing but how far sync is.                        *)
LEMMA OnlySyncing ==
    ASSUME WatcherInv, UNCHANGED <<crs, cms, applied, status>>,
           SyncOK(syncing', crs, status, cms, applied)
    PROVE  WatcherInv'
  BY Zenon DEF WatcherInv, CrsOK, CmsOK, StatusOK, PublishedIsValid

(* The watcher starts with what the cluster holds.                         *)
LEMMA WatcherStarts ==
    ASSUME WatcherInit
    PROVE  WatcherInv
<1>1. \A m \in Maps : cms[m] = [holds |-> Gone, by |-> "nobody", at |-> 0]
  BY DEF WatcherInit, Maps
<1>2. \A f \in FlowResource : status[f] = NoStatus
  BY DEF WatcherInit
<1>3. NoStatus.gen = 0 /\ NoStatus.compiled = "" /\ NoStatus.controls = "" /\ NoStatus.listed = {}
  BY DEF NoStatus
<1>4. FlowResource \subseteq Named /\ Named \subseteq Maps
  BY DEF FlowResource, Maps
<1>5. CrsOK
  BY WatcherAssumption DEF WatcherInit, CrsOK, ResourceOK
<1>6. CmsOK
  BY <1>1 DEF CmsOK, WatcherInit, Maps
<1>7. StatusOK
  <2>1. \A f \in FlowResource : crs[f] # Gone => crs[f].gen \in Nat
    BY <1>4, <1>5 DEF CrsOK, ResourceOK, FlowResource
  <2>2. status = [f \in FlowResource |-> status[f]]
    BY DEF WatcherInit
  <2>3. ASSUME NEW f \in FlowResource
        PROVE  status[f].gen \in Nat /\ (crs[f] # Gone => Newer(crs[f], status[f]))
    <3>1. status[f].gen = 0
      BY <1>2, <1>3, Zenon
    <3>2. status[f].compiled # "True"
      BY <1>2, <1>3, Zenon
    <3>3. status[f].gen \in Nat
      BY <3>1
    <3>4. ASSUME crs[f] # Gone PROVE Newer(crs[f], status[f])
      <4>1. crs[f].gen \in Nat
        BY <2>1, <3>4
      <4>2. status[f].gen <= crs[f].gen
        BY <3>1, <4>1
      <4> QED BY <3>2, <4>2 DEF Newer
    <3> QED BY <3>3, <3>4
  <2> QED BY <2>2, <2>3 DEF StatusOK
<1>8. PublishedIsValid
  BY <1>1 DEF PublishedIsValid, WatcherInit, Maps
<1>9. \A f \in FlowResource : Honest(status[f], cms[f], applied)
  BY <1>2, <1>3, Zenon DEF Honest, Backed
<1>10. SyncOK(syncing, crs, status, cms, applied)
  <2>1. syncing.step = "idle"
    BY DEF WatcherInit, Waiting
  <2> QED BY <2>1 DEF SyncOK
<1> QED BY <1>5, <1>6, <1>7, <1>8, <1>9, <1>10 DEF WatcherInv

(* The ticker starts a sync.                                               *)
LEMMA SyncKeeps ==
    ASSUME WatcherInv, Sync
    PROVE  WatcherInv'
<1>1. SyncOK(Listing(1), crs, status, cms, applied)
  BY NextPhase
<1> QED BY <1>1, OnlySyncing DEF Sync

(* What is listed is current.                                              *)
LEMMA FoundIsListed ==
    ASSUME WatcherInv, NEW p \in 1..4, NEW i \in Found(Phases[p])
    PROVE  Listed(p, i, crs[Resource[i]], crs, status)
<1>1. PICK k : k = Phases[p]
  OBVIOUS
<1>2. PICK found : found = {j \in OfKind(IF k = "active" THEN "policy" ELSE k) :
                      crs[Resource[j]] # Gone /\ (k = "active" => crs[Resource[j]].active)}
  BY Zenon
<1>3. found \subseteq DOMAIN Resource
  BY <1>2 DEF OfKind
<1>4. i \in found
  BY <1>1, <1>2, <1>3, FirstIsIn DEF Found
<1>5. i \in DOMAIN Resource /\ Resource[i][1] = KindAt(p) /\ crs[Resource[i]] # Gone
  BY <1>1, <1>2, <1>4 DEF OfKind, KindAt
<1>6. Resource[i] \in Named
  BY <1>5 DEF Named
<1>7. ResourceOK(Resource[i], crs[Resource[i]])
  BY <1>5, <1>6 DEF WatcherInv, CrsOK
<1>8. ASSUME k = "flow" PROVE Current(crs[Resource[i]], crs[Resource[i]], status[Resource[i]])
  <2>1. Resource[i] \in FlowResource
    BY <1>1, <1>5, <1>6, <1>8 DEF KindAt, FlowResource
  <2>2. crs[Resource[i]].gen \in Nat
    BY <1>7, <2>1 DEF ResourceOK, FlowResource
  <2> QED BY <1>5, <2>1, <2>2 DEF WatcherInv, StatusOK, Current
<1> QED BY <1>1, <1>5, <1>7, <1>8 DEF Listed

(* A list returns what the cluster holds now, so all of it is current.     *)
LEMMA ListKeeps ==
    ASSUME WatcherInv, List
    PROVE  WatcherInv'
<1>1. PICK p \in 1..4 : p = syncing.phase
  BY DEF List, At, WatcherInv, SyncOK
<1>2. PICK found : found = Found(Phases[p])
  OBVIOUS
<1>3. SyncOK(Listing(p + 1), crs, status, cms, applied)
  BY NextPhase
<1>4. PICK s : s = [phase |-> p, step |-> "item", todo |-> [i \in found |-> crs[Resource[i]]]]
  BY Zenon
<1>5. ASSUME found # {} PROVE SyncOK(s, crs, status, cms, applied)
  <2>1. s.phase = p /\ s.step = "item" /\ DOMAIN s.todo = found
    BY <1>4
  <2>2. \A i \in found : s.todo[i] = crs[Resource[i]]
    BY <1>4
  <2>3. TodoOK(p, s.todo, crs, status)
    BY <1>2, <1>5, <2>1, <2>2, FoundIsListed, SMTT(40) DEF TodoOK
  <2> QED BY <2>1, <2>3 DEF SyncOK
<1>6. syncing' = Listing(p + 1) \/ (found # {} /\ syncing' = s)
  BY <1>1, <1>2, <1>4 DEF List
<1>7. UNCHANGED <<crs, cms, applied, status>>
  BY DEF List
<1> QED BY <1>3, <1>5, <1>6, <1>7, OnlySyncing, SMTT(40)

(* The item in hand is skipped or done with, and nothing else changed.     *)
LEMMA ItemSkipped ==
    ASSUME WatcherInv, syncing.step \in {"item", "controls", "get", "put", "patch"}
    PROVE  SyncOK(AfterItem, crs, status, cms, applied)
<1>1. PICK p \in 1..4 : p = syncing.phase
  BY DEF WatcherInv, SyncOK, TodoOK
<1>2. \A i \in DOMAIN syncing.todo : Listed(p, i, syncing.todo[i], crs, status)
  BY <1>1, Zenon DEF WatcherInv, SyncOK, TodoOK
<1> QED BY <1>1, <1>2, ItemDone, SMTT(40)

(* A write is started.                                                     *)
LEMMA WriteStarts ==
    ASSUME WatcherInv, NEW map, NEW holds, NEW report, syncing.step \in {"item", "controls"},
           NEW item, item = Item(syncing.todo), NEW kind, kind = Phases[syncing.phase],
           map = IF kind = "active" THEN Active ELSE item.name,
           kind \in {"policy", "active"} => holds \in SoundSpecs,
           kind = "flow" => /\ holds = item.value.doc /\ holds \in SoundFlows
                            /\ ReportOK(report, item.value, applied) /\ report.hash = item.value.doc,
           report.gen \in Nat,
           Write(map, holds, report), UNCHANGED <<crs, cms, applied, status>>
    PROVE  WatcherInv'
<1>1. PICK b : b = FALSE
  BY Zenon
<1>2. PICK j : j = [map |-> map, holds |-> holds, exists |-> b]
  BY Zenon
<1>3. j.map = map /\ j.holds = holds /\ j.exists = b
  BY <1>2, Zenon
<1>4. PICK s : s = [phase |-> syncing.phase, todo |-> syncing.todo, step |-> "get",
                    job |-> j, report |-> report]
  BY Zenon
<1>5. /\ s.phase = syncing.phase /\ s.todo = syncing.todo /\ s.step = "get"
      /\ s.job = j /\ s.report = report
  BY <1>4, Zenon
<1>6. syncing' = s
  BY <1>1, <1>2, <1>4, Zenon DEF Write
<1>7. TodoOK(s.phase, s.todo, crs, status)
  BY <1>5, Zenon DEF WatcherInv, SyncOK
<1>8. WriteOK(s, item, applied)
  BY <1>2, <1>3, <1>4, <1>5, Zenon DEF WriteOK
<1>9. SyncOK(s, crs, status, cms, applied)
  BY <1>5, <1>7, <1>8, Zenon DEF SyncOK
<1> QED BY <1>6, <1>9, OnlySyncing, Zenon

(* A policy or registry is published if it parses.                         *)
LEMMA PublishItemKeeps ==
    ASSUME WatcherInv, PublishItem
    PROVE  WatcherInv'
<1>1. PICK item : item = Item(syncing.todo)
  OBVIOUS
<1>2. PICK p \in 1..4 : p = syncing.phase
  BY Zenon DEF PublishItem, At, WatcherInv, SyncOK, TodoOK
<1>3. PICK kind : kind = Phases[p]
  OBVIOUS
<1>4. kind \in {"policy", "registry", "active"}
  <2>1. kind # "flow"
    BY <1>2, <1>3, Zenon DEF PublishItem
  <2>2. p = 1 \/ p = 2 \/ p = 3 \/ p = 4
    BY <1>2
  <2> QED BY <1>3, <2>1, <2>2, PhaseNames, Zenon
<1>5. syncing.step = "item" /\ UNCHANGED <<crs, cms, applied, status>>
  BY DEF PublishItem, At
<1>6. CASE syncing' = AfterItem
  BY <1>5, <1>6, ItemSkipped, OnlySyncing
<1>7. NoStatus.gen \in Nat
  BY DEF NoStatus
<1>0. ASSUME NEW map, NEW holds, map = IF kind = "active" THEN Active ELSE item.name,
             kind \in {"policy", "active"} => holds \in SoundSpecs, Write(map, holds, NoStatus)
      PROVE  WatcherInv'
  <2>1. PICK report : report = NoStatus
    BY Zenon
  <2>2. report.gen \in Nat /\ Write(map, holds, report)
    BY <1>0, <1>7, <2>1, Zenon
  <2>3. kind = Phases[syncing.phase] /\ kind # "flow"
    BY <1>2, <1>3, <1>4, Zenon
  <2>4. syncing.step \in {"item", "controls"}
    BY <1>5, Zenon
  <2> QED BY <1>0, <1>1, <1>5, <2>2, <2>3, <2>4, WriteStarts
<1>8. CASE kind = "registry" /\ Write(item.name, item.value.tools, NoStatus)
  <2>1. PICK holds : holds = item.value.tools
    BY Zenon
  <2> QED BY <1>0, <1>8, <2>1
<1>9. ASSUME kind # "registry", Publishable(item.value.spec)
      PROVE  item.value.spec \in SoundSpecs
  <2>1. PICK i \in DOMAIN syncing.todo : Listed(p, i, syncing.todo[i], crs, status)
                /\ item.value = syncing.todo[i]
    <3>1. TodoOK(p, syncing.todo, crs, status)
      BY <1>2, <1>5, Zenon DEF WatcherInv, SyncOK
    <3> QED BY <1>1, <3>1, ItemIsListed
  <2>2. Resource[i][1] = "policy"
    BY <1>3, <1>4, <1>9, <2>1, Zenon DEF Listed, KindAt
  <2>3. item.value.spec \in DOMAIN SpecOf \union {NoSpec}
    BY <2>1, <2>2, Zenon DEF Listed, ResourceOK
  <2>4. item.value.spec \in DOMAIN SpecOf /\ ParseSpec(SpecOf[item.value.spec])
    BY <1>9, <2>3, Zenon DEF Publishable
  <2> QED BY <2>4, Zenon DEF SoundSpecs, LoadProxySpec
<1>10. CASE kind = "policy" /\ Publishable(item.value.spec) /\ Write(item.name, item.value.spec, NoStatus)
  <2>1. PICK holds : holds = item.value.spec /\ holds \in SoundSpecs
    BY <1>9, <1>10, Zenon
  <2> QED BY <1>0, <1>10, <2>1
<1>11. CASE kind = "active" /\ Publishable(item.value.spec) /\ Write(Active, item.value.spec, NoStatus)
  <2>1. PICK holds : holds = item.value.spec /\ holds \in SoundSpecs
    BY <1>9, <1>11, Zenon
  <2> QED BY <1>0, <1>11, <2>1
<1> QED
  <2>1. IF kind = "registry" THEN Write(item.name, item.value.tools, NoStatus)
        ELSE IF ~Publishable(item.value.spec) THEN syncing' = AfterItem
        ELSE IF kind = "policy" THEN Write(item.name, item.value.spec, NoStatus)
        ELSE IF Sig(item) = lastActiveSig THEN syncing' = AfterItem
        ELSE Write(Active, item.value.spec, NoStatus)
    BY <1>1, <1>2, <1>3, Zenon DEF PublishItem
  <2> QED BY <1>4, <1>6, <1>8, <1>10, <1>11, <2>1, Zenon

(* The document a flow's item is of is spelled out, and so is its          *)
(* generation.                                                             *)
LEMMA FlowItem ==
    ASSUME WatcherInv, syncing.step \in {"item", "controls", "get", "put", "patch"},
           Phases[syncing.phase] = "flow", NEW item, item = Item(syncing.todo)
    PROVE  /\ item.name \in FlowResource
           /\ item.value.doc \in DOMAIN DocOf /\ item.value.gen \in Nat
           /\ Current(item.value, crs[item.name], status[item.name])
<1>1. TodoOK(syncing.phase, syncing.todo, crs, status)
  BY Zenon DEF WatcherInv, SyncOK
<1>2. PICK i \in DOMAIN syncing.todo :
         /\ item.name = Resource[i] /\ item.value = syncing.todo[i] /\ item.name \in Named
         /\ Listed(syncing.phase, i, syncing.todo[i], crs, status)
  BY <1>1, ItemIsListed, Zenon
<1>3. item.name[1] = "flow"
  BY <1>2, Zenon DEF Listed, KindAt
<1> QED BY <1>2, <1>3, Zenon DEF Listed, ResourceOK, FlowResource

(* A flow that compiles, to a policy that is accepted, is closed.          *)
LEMMA SoundFlow ==
    ASSUME NEW d \in DOMAIN DocOf, Compiles(DocOf[d]), ParseSpec(CompilePolicy(DocOf[d]))
    PROVE  d \in SoundFlows
<1>1. DocOf[d].tools \in Seq(Elements(DocOf[d].tools))
  BY WatcherAssumption, Zenon DEF IsSeq
<1>2. FlowIsClosed(DocOf[d], Requests)
  BY <1>1, WatcherAssumption, CompiledFlowsAreClosed, Zenon
<1>3. LoadProxySpec(CompilePolicy(DocOf[d]))
  <2>1. ~CompilePolicy(DocOf[d]).runToken.declared
    BY DEF CompilePolicy
  <2> QED BY <2>1, Zenon DEF LoadProxySpec
<1> QED BY <1>2, <1>3, Zenon DEF SoundFlows

(* The empty sequence has no elements.                                     *)
LEMMA NoElements == Elements(<<>>) = {}
  BY DEF Elements

(* Sequences are sequences in the sense of the assumptions.                *)
LEMMA SeqIsSeq ==
    ASSUME NEW X, NEW s \in Seq(X)
    PROVE  IsSeq(s)
<1>1. PICK n \in Nat : n = Len(s) /\ DOMAIN s = 1..n /\ s = [i \in 1..n |-> s[i]]
  OBVIOUS
<1>2. \A i \in 1..n : s[i] \in Elements(s)
  BY <1>1 DEF Elements
<1>3. s \in [1..n -> Elements(s)]
  BY <1>1, <1>2
<1>4. s \in Seq(Elements(s))
  BY <1>1, <1>3
<1> QED BY <1>4 DEF IsSeq

(* The controls are a sequence.                                            *)
LEMMA ControlsAreSeq ==
    ASSUME NEW doc, IsSeq(doc.linkerd.servers)
    PROVE  IsSeq(CompileControls(doc))
<1>1. PICK X : X = {[kind |-> "NetworkPolicy", name |-> doc.name],
                    [kind |-> "AuthorizationPolicy", name |-> doc.name],
                    [kind |-> "CiliumNetworkPolicy", name |-> doc.name]}
                   \union {[kind |-> "Server", name |-> doc.linkerd.servers[i].name] :
                              i \in DOMAIN doc.linkerd.servers}
                   \union {[kind |-> "ServerAuthorization", name |-> doc.linkerd.servers[i].name] :
                              i \in DOMAIN doc.linkerd.servers}
  BY Zenon
<1>2. PICK n \in Nat : DOMAIN doc.linkerd.servers = 1..n
  BY DEF IsSeq
<1>3. PICK c1 : c1 = IF doc.egress # <<>> THEN <<[kind |-> "NetworkPolicy", name |-> doc.name]>> ELSE <<>>
  BY Zenon
<1>4. PICK c2 : c2 = IF doc.istio.declared
                     THEN <<[kind |-> "AuthorizationPolicy", name |-> doc.name]>> ELSE <<>>
  BY Zenon
<1>5. PICK c3 : c3 = IF doc.cilium.declared
                     THEN <<[kind |-> "CiliumNetworkPolicy", name |-> doc.name]>> ELSE <<>>
  BY Zenon
<1>6. PICK c4 : c4 = [i \in DOMAIN doc.linkerd.servers |->
                        [kind |-> "Server", name |-> doc.linkerd.servers[i].name]]
  BY Zenon
<1>7. PICK c5 : c5 = [i \in DOMAIN doc.linkerd.servers |->
                        [kind |-> "ServerAuthorization", name |-> doc.linkerd.servers[i].name]]
  BY Zenon
<1>8. c1 \in Seq(X) /\ c2 \in Seq(X) /\ c3 \in Seq(X)
  <2>1. \A e \in X : <<e>> \in Seq(X)
    OBVIOUS
  <2>2. <<>> \in Seq(X)
    OBVIOUS
  <2>3. /\ [kind |-> "NetworkPolicy", name |-> doc.name] \in X
        /\ [kind |-> "AuthorizationPolicy", name |-> doc.name] \in X
        /\ [kind |-> "CiliumNetworkPolicy", name |-> doc.name] \in X
    BY <1>1, Zenon
  <2>4. c1 \in Seq(X)
    BY <1>3, <2>1, <2>2, <2>3
  <2>5. c2 \in Seq(X)
    BY <1>4, <2>1, <2>2, <2>3
  <2>6. c3 \in Seq(X)
    BY <1>5, <2>1, <2>2, <2>3
  <2> QED BY <2>4, <2>5, <2>6
<1>9. c4 \in [1..n -> X] /\ c5 \in [1..n -> X]
  BY <1>1, <1>2, <1>6, <1>7, Zenon
<1>10. c4 \in Seq(X) /\ c5 \in Seq(X)
  BY <1>9
<1>11. CompileControls(doc) = c1 \o c2 \o c3 \o c4 \o c5
  BY <1>3, <1>4, <1>5, <1>6, <1>7 DEF CompileControls
<1>12. CompileControls(doc) \in Seq(X)
  BY <1>8, <1>10, <1>11
<1> QED BY <1>12, SeqIsSeq

(* A flow that compiles has its controls to reconcile; of one that does    *)
(* not, a failure is reported.                                             *)
LEMMA CompileItemKeeps ==
    ASSUME WatcherInv, CompileItem
    PROVE  WatcherInv'
<1>1. PICK item : item = Item(syncing.todo)
  OBVIOUS
<1>2. PICK v : v = item.value
  OBVIOUS
<1>3. PICK doc : doc = DocOf[v.doc]
  OBVIOUS
<1>4. syncing.step = "item" /\ Phases[syncing.phase] = "flow" /\ UNCHANGED <<crs, cms, applied, status>>
  BY Zenon DEF CompileItem, At
<1>5. v.doc \in DOMAIN DocOf /\ v.gen \in Nat
  BY <1>1, <1>2, <1>4, FlowItem, Zenon
<1>6. TodoOK(syncing.phase, syncing.todo, crs, status)
  BY <1>4, Zenon DEF WatcherInv, SyncOK
<1>7. PICK r : r = Report(v, Gone, "False", "", {})
  BY Zenon
<1>8. PICK s : s = [phase |-> syncing.phase, todo |-> syncing.todo, step |-> "patch", report |-> r]
  BY Zenon
<1>9. PICK b : b = FALSE
  BY Zenon
<1>10. PICK u : u = [phase |-> syncing.phase, todo |-> syncing.todo, step |-> "controls",
                     ctls |-> CompileControls(doc), listed |-> {}, failed |-> b]
  BY Zenon
<1>11. \/ syncing' = AfterItem \/ syncing' = s
       \/ Compiles(doc) /\ ParseSpec(CompilePolicy(doc)) /\ syncing' = u
  BY <1>1, <1>2, <1>3, <1>7, <1>8, <1>9, <1>10, ZenonT(40) DEF CompileItem
<1>12. CASE syncing' = AfterItem
  BY <1>4, <1>12, ItemSkipped, OnlySyncing, Zenon
<1>13. CASE syncing' = s
  <2>1. s.phase = syncing.phase /\ s.todo = syncing.todo /\ s.step = "patch" /\ s.report = r
    BY <1>8
  <2>2. /\ r.gen = v.gen /\ r.hash = Gone /\ r.compiled = "False" /\ r.controls = "" /\ r.listed = {}
        /\ r = [gen |-> r.gen, hash |-> r.hash, compiled |-> r.compiled, controls |-> r.controls,
                listed |-> r.listed]
    BY <1>7, Zenon DEF Report
  <2>3. ReportOK(r, v, applied)
    BY <2>2, Zenon DEF ReportOK, Backed
  <2>4. PatchOK(s, item, cms, applied)
    BY <1>2, <1>4, <2>1, <2>2, <2>3, Zenon DEF PatchOK, Earned
  <2>5. SyncOK(s, crs, status, cms, applied)
    BY <1>1, <1>6, <2>1, <2>4, Zenon DEF SyncOK
  <2> QED BY <1>4, <1>13, <2>5, OnlySyncing, SMTT(40)
<1>14. CASE Compiles(doc) /\ ParseSpec(CompilePolicy(doc)) /\ syncing' = u
  <2>1. /\ u.phase = syncing.phase /\ u.todo = syncing.todo /\ u.step = "controls"
        /\ u.ctls = CompileControls(doc) /\ u.listed = {}
        /\ u = [phase |-> u.phase, todo |-> u.todo, step |-> u.step, ctls |-> u.ctls,
                listed |-> u.listed, failed |-> u.failed]
    BY <1>10
  <2>2. v.doc \in SoundFlows
    BY <1>3, <1>5, <1>14, SoundFlow, SMTT(40)
  <2>3. IsSeq(u.ctls)
    BY <1>3, <1>5, <2>1, WatcherAssumption, ControlsAreSeq, SMTT(40)
  <2>4. ControlsOK(u, v, applied)
    BY <1>3, <1>4, <2>1, <2>2, <2>3, Zenon DEF ControlsOK, Backed
  <2>5. SyncOK(u, crs, status, cms, applied)
    BY <1>1, <1>2, <1>6, <2>1, <2>4 DEF SyncOK
  <2> QED BY <1>4, <1>14, <2>5, OnlySyncing, Zenon
<1> QED BY <1>11, <1>12, <1>13, <1>14

(* More controls exist, and nothing else has changed but how far sync is.  *)
LEMMA MoreControls ==
    ASSUME WatcherInv, UNCHANGED <<crs, cms, status>>, applied \subseteq applied',
           SyncOK(syncing', crs, status, cms, applied')
    PROVE  WatcherInv'
<1>1. \A f \in FlowResource : Honest(status[f], cms[f], applied')
  BY Zenon DEF WatcherInv, Honest, Backed, AllApplied
<1> QED BY <1>1, Zenon DEF WatcherInv, CrsOK, CmsOK, StatusOK, PublishedIsValid

(* The controls but for the first.                                         *)
LEMMA TailElements ==
    ASSUME NEW s, IsSeq(s), s # <<>>
    PROVE  IsSeq(Tail(s)) /\ Elements(s) \subseteq {Head(s)} \union Elements(Tail(s))
<1>1. PICK X : X = Elements(s)
  OBVIOUS
<1>2. s \in Seq(X)
  BY <1>1 DEF IsSeq
<1>3. Tail(s) \in Seq(X) /\ Len(Tail(s)) = Len(s) - 1 /\ \A i \in 1..Len(Tail(s)) : Tail(s)[i] = s[i + 1]
  BY <1>2
<1>4. IsSeq(Tail(s))
  BY <1>3, SeqIsSeq, Zenon
<1>5. ASSUME NEW i \in DOMAIN s PROVE s[i] \in {Head(s)} \union Elements(Tail(s))
  <2>1. CASE i = 1
    BY <1>2, <2>1
  <2>2. CASE i # 1
    <3>1. i \in 1..Len(s) /\ Len(s) \in Nat
      BY <1>2
    <3>2. i - 1 \in 1..Len(Tail(s)) /\ Tail(s)[i - 1] = s[i]
      BY <1>3, <2>2, <3>1
    <3>3. DOMAIN Tail(s) = 1..Len(Tail(s))
      BY <1>3
    <3> QED BY <3>2, <3>3 DEF Elements
  <2> QED BY <2>1, <2>2
<1> QED BY <1>4, <1>5 DEF Elements

(* A control is dealt with: it is listed with or without having been       *)
(* applied, and if it should have been and was not, the attempt failed.    *)
LEMMA ControlDone ==
    ASSUME WatcherInv, syncing.step = "controls", syncing.ctls # <<>>,
           UNCHANGED <<crs, cms, status>>, applied \subseteq applied',
           NEW k, k = Head(syncing.ctls), NEW b, NEW failed,
           NEW doc, doc = DocOf[Item(syncing.todo).value.doc],
           b => k \in applied', syncing.failed => failed,
           Applies(doc, k) => failed \/ k \in applied',
           syncing' = [phase |-> syncing.phase, todo |-> syncing.todo, step |-> "controls",
                       ctls |-> Tail(syncing.ctls), listed |-> syncing.listed \union {<<k, b>>},
                       failed |-> failed]
    PROVE  WatcherInv'
<1>1. PICK v : v = Item(syncing.todo).value
  BY Zenon
<1>2. TodoOK(syncing.phase, syncing.todo, crs, status) /\ ControlsOK(syncing, v, applied)
  BY <1>1, Zenon DEF WatcherInv, SyncOK
<1>3. PICK u : u = syncing'
  BY ZenonT(40)
<1>4. /\ u.phase = syncing.phase /\ u.todo = syncing.todo /\ u.step = "controls"
      /\ u.ctls = Tail(syncing.ctls) /\ u.listed = syncing.listed \union {<<k, b>>}
      /\ u = [phase |-> u.phase, todo |-> u.todo, step |-> u.step, ctls |-> u.ctls,
              listed |-> u.listed, failed |-> u.failed]
  BY <1>3, Zenon
<1>5. u.failed = failed
  BY <1>3, Zenon
<1>6. IsSeq(u.ctls) /\ Elements(syncing.ctls) \subseteq {k} \union Elements(u.ctls)
  BY <1>2, <1>4, TailElements, SMTT(40) DEF ControlsOK
<1>7. Backed(u.listed, applied')
  <2>1. Backed(syncing.listed, applied)
    BY <1>2, SMTT(40) DEF ControlsOK
  <2>2. <<k, b>>[1] = k /\ <<k, b>>[2] = b
    OBVIOUS
  <2> QED BY <1>4, <2>1, <2>2, SMTT(40) DEF Backed
<1>8. ASSUME NEW e \in Elements(CompileControls(doc)), Applies(doc, e)
      PROVE  failed \/ e \in applied' \/ e \in Elements(u.ctls)
  <2>1. syncing.failed \/ e \in applied \/ e \in Elements(syncing.ctls)
    BY <1>1, <1>2, <1>8, Zenon DEF ControlsOK
  <2> QED BY <1>6, <1>8, <2>1, Zenon
<1>9. ControlsOK(u, v, applied')
  BY <1>1, <1>2, <1>4, <1>5, <1>6, <1>7, <1>8, Zenon DEF ControlsOK
<1>10. SyncOK(u, crs, status, cms, applied')
  BY <1>1, <1>2, <1>4, <1>9, Zenon DEF SyncOK
<1> QED BY <1>3, <1>10, MoreControls, Zenon

(* A control that was applied is listed so; a failure is remembered.       *)
LEMMA ReconcileKeeps ==
    ASSUME WatcherInv, ReconcileControl
    PROVE  WatcherInv'
<1>1. PICK doc : doc = DocOf[Item(syncing.todo).value.doc]
  OBVIOUS
<1>2. PICK k : k = Head(syncing.ctls)
  OBVIOUS
<1>3. PICK f : f = FALSE
  BY Zenon
<1>4. PICK t : t = TRUE
  OBVIOUS
<1>5. syncing.step = "controls" /\ syncing.ctls # <<>> /\ UNCHANGED <<crs, cms, status>>
  BY SMTT(40) DEF ReconcileControl, At
<1>6. syncing = [phase |-> syncing.phase, todo |-> syncing.todo, step |-> syncing.step,
                 ctls |-> syncing.ctls, listed |-> syncing.listed, failed |-> syncing.failed]
  BY <1>5 DEF WatcherInv, SyncOK, ControlsOK
<1>7. \/ /\ ~Applies(doc, k) /\ applied' = applied
         /\ syncing' = [[syncing EXCEPT !.ctls = Tail(@)] EXCEPT !.listed = @ \union {<<k, f>>}]
      \/ /\ Applies(doc, k) /\ applied' = applied \union {k}
         /\ syncing' = [[syncing EXCEPT !.ctls = Tail(@)] EXCEPT !.listed = @ \union {<<k, t>>}]
      \/ /\ Applies(doc, k) /\ applied' \in {applied, applied \union {k}}
         /\ syncing' = [[syncing EXCEPT !.ctls = Tail(@)] EXCEPT !.failed = t, !.listed = @ \union {<<k, f>>}]
  BY <1>1, <1>2, <1>3, <1>4, Zenon DEF ReconcileControl
<1>8. CASE /\ ~Applies(doc, k) /\ applied' = applied
           /\ syncing' = [[syncing EXCEPT !.ctls = Tail(@)] EXCEPT !.listed = @ \union {<<k, f>>}]
  <2>1. syncing' = [phase |-> syncing.phase, todo |-> syncing.todo, step |-> "controls",
                    ctls |-> Tail(syncing.ctls), listed |-> syncing.listed \union {<<k, f>>},
                    failed |-> syncing.failed]
    BY <1>5, <1>6, <1>8, Zenon
  <2> QED BY <1>1, <1>2, <1>3, <1>5, <1>8, <2>1, ControlDone, Zenon
<1>9. CASE /\ Applies(doc, k) /\ applied' = applied \union {k}
           /\ syncing' = [[syncing EXCEPT !.ctls = Tail(@)] EXCEPT !.listed = @ \union {<<k, t>>}]
  <2>1. syncing' = [phase |-> syncing.phase, todo |-> syncing.todo, step |-> "controls",
                    ctls |-> Tail(syncing.ctls), listed |-> syncing.listed \union {<<k, t>>},
                    failed |-> syncing.failed]
    BY <1>5, <1>6, <1>9, Zenon
  <2> QED BY <1>1, <1>2, <1>5, <1>9, <2>1, ControlDone, Zenon
<1>10. CASE /\ Applies(doc, k) /\ applied' \in {applied, applied \union {k}}
            /\ syncing' = [[syncing EXCEPT !.ctls = Tail(@)] EXCEPT !.failed = t, !.listed = @ \union {<<k, f>>}]
  <2>1. syncing' = [phase |-> syncing.phase, todo |-> syncing.todo, step |-> "controls",
                    ctls |-> Tail(syncing.ctls), listed |-> syncing.listed \union {<<k, f>>},
                    failed |-> t]
    BY <1>5, <1>6, <1>10, Zenon
  <2> QED BY <1>1, <1>2, <1>3, <1>4, <1>5, <1>10, <2>1, ControlDone, Zenon
<1> QED BY <1>7, <1>8, <1>9, <1>10

(* What is to be reported of a flow's controls is settled before its map   *)
(* is written.                                                             *)
LEMMA PublishFlowKeeps ==
    ASSUME WatcherInv, PublishFlow
    PROVE  WatcherInv'
<1>1. PICK item : item = Item(syncing.todo)
  OBVIOUS
<1>2. PICK v : v = item.value
  OBVIOUS
<1>3. PICK doc : doc = DocOf[v.doc]
  OBVIOUS
<1>4. PICK condition : condition = IF CompileControls(doc) = <<>> THEN "none"
                     ELSE IF ~doc.generated.declared \/ doc.generated.mode # "apply" THEN "previewed"
                     ELSE IF syncing.failed THEN "failed" ELSE "applied"
  OBVIOUS
<1>5. syncing.step = "controls" /\ syncing.ctls = <<>> /\ UNCHANGED <<crs, cms, applied, status>>
  BY Zenon DEF PublishFlow, At
<1>6. ControlsOK(syncing, v, applied)
  BY <1>1, <1>2, <1>5, Zenon DEF WatcherInv, SyncOK
<1>7. v.gen \in Nat
  BY <1>1, <1>2, <1>5, <1>6, FlowItem DEF ControlsOK
<1>8. PICK r : r = Report(v, v.doc, "True", condition, syncing.listed)
  OBVIOUS
<1>9. /\ r.gen = v.gen /\ r.hash = v.doc /\ r.compiled = "True" /\ r.controls = condition
      /\ r.listed = syncing.listed
      /\ r = [gen |-> r.gen, hash |-> r.hash, compiled |-> r.compiled, controls |-> r.controls,
              listed |-> r.listed]
  BY <1>8 DEF Report
<1>10. ASSUME condition = "applied" PROVE AllApplied(v.doc, applied)
  <2>1. ~syncing.failed
    BY <1>4, <1>10
  <2>2. Elements(syncing.ctls) = {}
    BY <1>5, NoElements, Zenon
  <2> QED BY <1>6, <2>1, <2>2 DEF ControlsOK, AllApplied
<1>11. ReportOK(r, v, applied)
  BY <1>6, <1>9, <1>10, Zenon DEF ReportOK, ControlsOK
<1>12. Write(item.name, v.doc, r)
  BY <1>1, <1>2, <1>3, <1>4, <1>8, Zenon DEF PublishFlow
<1>13. Phases[syncing.phase] = "flow" /\ v.doc \in SoundFlows
  BY <1>6 DEF ControlsOK
<1> QED BY <1>1, <1>2, <1>5, <1>7, <1>9, <1>11, <1>12, <1>13, WriteStarts

(* The read of a map says whether to create or to replace it.              *)
LEMMA GetMapKeeps ==
    ASSUME WatcherInv, GetMap
    PROVE  WatcherInv'
<1>1. PICK b : b = (cms[syncing.job.map].holds # Gone)
  OBVIOUS
<1>2. syncing.step = "get" /\ UNCHANGED <<crs, cms, applied, status>>
  BY DEF GetMap, At
<1>3. TodoOK(syncing.phase, syncing.todo, crs, status) /\ WriteOK(syncing, Item(syncing.todo), applied)
  BY <1>2, Zenon DEF WatcherInv, SyncOK
<1>4. syncing = [phase |-> syncing.phase, todo |-> syncing.todo, step |-> syncing.step,
                 job |-> syncing.job, report |-> syncing.report]
  BY <1>3, Zenon DEF WriteOK
<1>5. syncing.job = [map |-> syncing.job.map, holds |-> syncing.job.holds, exists |-> syncing.job.exists]
  BY <1>3, Zenon DEF WriteOK
<1>6. ASSUME NEW e,
             syncing' = [phase |-> syncing.phase, todo |-> syncing.todo, step |-> "put",
                         job |-> [map |-> syncing.job.map, holds |-> syncing.job.holds, exists |-> e],
                         report |-> syncing.report]
      PROVE  WatcherInv'
  <2>1. PICK j : j = [map |-> syncing.job.map, holds |-> syncing.job.holds, exists |-> e]
    BY Zenon
  <2>2. PICK s : s = syncing'
    OBVIOUS
  <2>3. /\ s.phase = syncing.phase /\ s.todo = syncing.todo /\ s.step = "put" /\ s.job = j
        /\ s.report = syncing.report
        /\ s = [phase |-> s.phase, todo |-> s.todo, step |-> s.step, job |-> s.job, report |-> s.report]
    BY <1>6, <2>1, <2>2
  <2>4. /\ j.map = syncing.job.map /\ j.holds = syncing.job.holds
        /\ j = [map |-> j.map, holds |-> j.holds, exists |-> j.exists]
    BY <2>1, SMTT(40)
  <2>5. WriteOK(s, Item(syncing.todo), applied)
    BY <1>3, <2>3, <2>4, Zenon DEF WriteOK
  <2>6. SyncOK(s, crs, status, cms, applied)
    BY <1>3, <2>3, <2>5 DEF SyncOK
  <2> QED BY <1>2, <2>2, <2>6, OnlySyncing
<1>7. \/ syncing' = [syncing EXCEPT !.step = "put", !.job.exists = b]
      \/ syncing' = [syncing EXCEPT !.step = "put"]
  BY <1>1 DEF GetMap
<1>8. CASE syncing' = [syncing EXCEPT !.step = "put", !.job.exists = b]
  <2>1. [syncing.job EXCEPT !.exists = b] = [map |-> syncing.job.map, holds |-> syncing.job.holds, exists |-> b]
    BY <1>5
  <2>2. syncing' = [phase |-> syncing.phase, todo |-> syncing.todo, step |-> "put",
                    job |-> [syncing.job EXCEPT !.exists = b], report |-> syncing.report]
    BY <1>4, <1>8, Zenon
  <2> QED BY <1>6, <2>1, <2>2
<1>9. CASE syncing' = [syncing EXCEPT !.step = "put"]
  <2>1. syncing' = [phase |-> syncing.phase, todo |-> syncing.todo, step |-> "put",
                    job |-> syncing.job, report |-> syncing.report]
    BY <1>4, <1>9
  <2> QED BY <1>5, <1>6, <2>1, Zenon
<1> QED BY <1>7, <1>8, <1>9

(* Where a write leads: the report of it may claim what it did.            *)
LEMMA WriteAnswered ==
    ASSUME WatcherInv, syncing.step = "put", NEW m, NEW item, item = Item(syncing.todo),
           NEW r, \/ r = syncing.report /\ Earned(r, m[item.name])
                  \/ r = [syncing.report EXCEPT !.compiled = "False"],
           syncing' = IF Phases[syncing.phase] = "flow"
                      THEN [phase |-> syncing.phase, todo |-> syncing.todo, step |-> "patch", report |-> r]
                      ELSE AfterItem
    PROVE  SyncOK(syncing', crs, status, m, applied)
<1>1. TodoOK(syncing.phase, syncing.todo, crs, status) /\ WriteOK(syncing, item, applied)
  BY DEF WatcherInv, SyncOK
<1>2. CASE Phases[syncing.phase] = "flow"
  <2>1. PICK s : s = syncing'
    OBVIOUS
  <2>2. s.phase = syncing.phase /\ s.todo = syncing.todo /\ s.step = "patch" /\ s.report = r
    BY <1>2, <2>1
  <2>3. PICK o : o = syncing.report
    OBVIOUS
  <2>4. ReportOK(o, item.value, applied)
    BY <1>1, <1>2, <2>3 DEF WriteOK
  <2>5. ReportOK(r, item.value, applied) /\ Earned(r, m[item.name])
    <3>1. CASE r = [o EXCEPT !.compiled = "False"]
      <4>1. o = [gen |-> o.gen, hash |-> o.hash, compiled |-> o.compiled, controls |-> o.controls,
                 listed |-> o.listed]
        BY <2>4 DEF ReportOK
      <4>2. r = [gen |-> o.gen, hash |-> o.hash, compiled |-> "False", controls |-> o.controls,
                 listed |-> o.listed]
        BY <3>1, <4>1
      <4>3. /\ r.gen = o.gen /\ r.hash = o.hash /\ r.compiled = "False" /\ r.controls = o.controls
            /\ r.listed = o.listed
        BY <4>2
      <4> QED BY <2>4, <4>2, <4>3 DEF ReportOK, Earned
    <3> QED BY <2>3, <2>4, <3>1
  <2>6. PatchOK(s, item, m, applied)
    BY <1>2, <2>2, <2>5 DEF PatchOK
  <2> QED BY <1>1, <2>1, <2>2, <2>6 DEF SyncOK
<1>3. CASE Phases[syncing.phase] # "flow"
  <2>1. PICK p \in 1..4 : p = syncing.phase
    BY <1>1 DEF TodoOK
  <2>2. \A i \in DOMAIN syncing.todo : Listed(p, i, syncing.todo[i], crs, status)
    BY <1>1, <2>1 DEF TodoOK
  <2>3. SyncOK(AfterItem, crs, status, m, applied)
    BY <2>1, <2>2, ItemDone, SMTT(40)
  <2> QED BY <1>3, <2>3
<1> QED BY <1>2, <1>3

(* A write that was made.                                                  *)
LEMMA WriteMade ==
    ASSUME WatcherInv, syncing.step = "put", UNCHANGED <<crs, applied, status>>,
           NEW new, new = [holds |-> syncing.job.holds, by |-> "watcher", at |-> syncing.report.gen],
           cms' = [cms EXCEPT ![syncing.job.map] = new],
           SyncOK(syncing', crs, status, cms', applied)
    PROVE  WatcherInv'
<1>1. PICK item : item = Item(syncing.todo)
  OBVIOUS
<1>2. PICK kind : kind = Phases[syncing.phase]
  OBVIOUS
<1>3. TodoOK(syncing.phase, syncing.todo, crs, status) /\ WriteOK(syncing, item, applied)
  BY <1>1, Zenon DEF WatcherInv, SyncOK
<1>4. item.name \in Named /\ item.name[1] = KindAt(syncing.phase)
  <2>1. PICK i \in DOMAIN syncing.todo :
            /\ item.name = Resource[i] /\ item.name \in Named
            /\ Listed(syncing.phase, i, syncing.todo[i], crs, status)
    BY <1>1, <1>3, ItemIsListed, Zenon
  <2> QED BY <2>1, Zenon DEF Listed
<1>5. kind \in {"flow", "policy", "registry", "active"}
  BY <1>2, <1>3, PhaseNames DEF TodoOK
<1>6. Active[1] = "active"
  BY DEF Active
<1>7. PICK j : j = syncing.job.map
  BY SMTT(40)
<1>8. j \in Maps /\ j[1] = kind
  BY <1>2, <1>3, <1>4, <1>5, <1>6, <1>7, Zenon DEF WriteOK, KindAt, Maps
<1>9. new.holds = syncing.job.holds /\ new.by = "watcher" /\ new.at = syncing.report.gen
  OBVIOUS
<1>10. DOMAIN cms = Maps /\ DOMAIN cms' = Maps /\ cms'[j] = new /\ \A m \in Maps : m # j => cms'[m] = cms[m]
  BY <1>7, <1>8, Zenon DEF WatcherInv, CmsOK
<1>11. CmsOK'
  <2>1. cms' = [m \in Maps |-> cms'[m]]
    BY <1>7, <1>10, Zenon DEF WatcherInv, CmsOK
  <2>2. new.at \in Nat
    BY <1>3, <1>9, Zenon DEF WriteOK
  <2> QED BY <1>10, <2>1, <2>2, Zenon DEF WatcherInv, CmsOK
<1>12. PublishedIsValid'
  <2>1. /\ kind \in {"policy", "active"} => new.holds \in SoundSpecs
        /\ kind = "flow" => new.holds \in SoundFlows
    BY <1>2, <1>3, <1>9, Zenon DEF WriteOK
  <2>2. \A m \in Maps : cms[m].by = "watcher" =>
           /\ m[1] \in {"policy", "active"} => cms[m].holds \in SoundSpecs
           /\ m[1] = "flow" => cms[m].holds \in SoundFlows
    BY <1>10, Zenon DEF WatcherInv, PublishedIsValid
  <2>3. \A m \in Maps : cms'[m].by = "watcher" =>
           /\ m[1] \in {"policy", "active"} => cms'[m].holds \in SoundSpecs
           /\ m[1] = "flow" => cms'[m].holds \in SoundFlows
    BY <1>8, <1>10, <2>1, <2>2, ZenonT(40)
  <2> QED BY <1>10, <2>3, Zenon DEF PublishedIsValid, SoundSpecs, SoundFlows
<1>13. ASSUME NEW f \in FlowResource PROVE Honest(status[f], cms'[f], applied)
  <2>1. f \in Maps /\ f[1] = "flow" /\ Honest(status[f], cms[f], applied)
    BY Zenon DEF FlowResource, Maps, WatcherInv
  <2>2. CASE f # j
    BY <1>10, <2>1, <2>2, Zenon
  <2>3. CASE f = j
    <3>1. kind = "flow" /\ f = item.name
      BY <1>2, <1>3, <1>7, <1>8, <2>1, <2>3, Zenon DEF WriteOK
    <3>2. /\ new.holds = item.value.doc /\ new.at = item.value.gen
      BY <1>2, <1>3, <1>9, <3>1, Zenon DEF WriteOK, ReportOK
    <3>3. Newer(item.value, status[f]) /\ item.value.gen \in Nat
      BY <1>1, <1>2, <3>1, FlowItem, Zenon DEF Current
    <3>4. status[f].gen \in Nat
      BY SMTT(40) DEF WatcherInv, StatusOK
    <3>5. status[f].compiled = "True" => new.at >= status[f].gen /\ (new.at = status[f].gen => new.holds = status[f].hash)
      BY <3>2, <3>3, <3>4, Zenon DEF Newer
    <3> QED BY <1>10, <2>1, <2>3, <3>5, ZenonT(40) DEF Honest
  <2> QED BY <2>2, <2>3, Zenon
<1> QED BY <1>11, <1>12, <1>13, Zenon DEF WatcherInv, CrsOK, StatusOK

(* The write of a map. One that fails may have been made, and is not       *)
(* reported as made.                                                       *)
LEMMA PutMapKeeps ==
    ASSUME WatcherInv, PutMap
    PROVE  WatcherInv'
<1>1. PICK item : item = Item(syncing.todo)
  OBVIOUS
<1>2. PICK new : new = [holds |-> syncing.job.holds, by |-> "watcher", at |-> syncing.report.gen]
  BY Zenon
<1>3. syncing.step = "put" /\ UNCHANGED <<crs, applied, status>>
  BY DEF PutMap, At
<1>4. PICK made : made = [cms EXCEPT ![syncing.job.map] = new]
  BY Zenon
<1>5. \/ cms' = made /\ AfterWrite(TRUE)
      \/ cms' = cms /\ AfterWrite(FALSE)
      \/ cms' = made /\ AfterWrite(FALSE)
  BY <1>2, <1>4, Zenon DEF PutMap
<1>6. ASSUME AfterWrite(FALSE) PROVE SyncOK(syncing', crs, status, cms', applied)
  <2>1. PICK r : r = [syncing.report EXCEPT !.compiled = "False"]
    BY Zenon
  <2>2. syncing' = IF Phases[syncing.phase] = "flow"
                   THEN [phase |-> syncing.phase, todo |-> syncing.todo, step |-> "patch", report |-> r]
                   ELSE AfterItem
    BY <1>6, <2>1 DEF AfterWrite, Reported
  <2>3. PICK m : m = cms'
    BY SMTT(40)
  <2> QED BY <1>1, <1>3, <2>1, <2>2, <2>3, WriteAnswered
<1>7. ASSUME AfterWrite(TRUE), cms' = made PROVE SyncOK(syncing', crs, status, cms', applied)
  <2>1. PICK r : r = syncing.report
    OBVIOUS
  <2>2. syncing' = IF Phases[syncing.phase] = "flow"
                   THEN [phase |-> syncing.phase, todo |-> syncing.todo, step |-> "patch", report |-> r]
                   ELSE AfterItem
    BY <1>7, <2>1 DEF AfterWrite, Reported
  <2>3. PICK m : m = cms'
    OBVIOUS
  <2>4. ASSUME Phases[syncing.phase] = "flow" PROVE Earned(r, m[item.name])
    <3>1. WriteOK(syncing, item, applied)
      BY <1>1, <1>3, Zenon DEF WatcherInv, SyncOK
    <3>2. syncing.job.map = item.name /\ syncing.job.holds = item.value.doc /\ r.hash = item.value.doc
      BY <2>1, <2>4, <3>1, SMTT(40) DEF WriteOK
    <3>3. item.name \in Maps
      BY <1>1, <1>3, <2>4, FlowItem, Zenon DEF FlowResource, Maps
    <3>4. m[item.name] = new
      BY <1>4, <1>7, <2>3, <3>2, <3>3 DEF WatcherInv, CmsOK
    <3>5. new.holds = syncing.job.holds /\ new.at = syncing.report.gen
      BY <1>2
    <3> QED BY <2>1, <3>2, <3>4, <3>5 DEF Earned
  <2>5. CASE Phases[syncing.phase] = "flow"
    BY <1>1, <1>3, <2>1, <2>2, <2>3, <2>4, <2>5, WriteAnswered, SMTT(40)
  <2>6. CASE Phases[syncing.phase] # "flow"
    <3>1. PICK q : q = [syncing.report EXCEPT !.compiled = "False"]
      BY Zenon
    <3>2. syncing' = IF Phases[syncing.phase] = "flow"
                   THEN [phase |-> syncing.phase, todo |-> syncing.todo, step |-> "patch", report |-> q]
                   ELSE AfterItem
      BY <2>2, <2>6
    <3> QED BY <1>1, <1>3, <2>3, <3>1, <3>2, WriteAnswered
  <2> QED BY <2>5, <2>6, Zenon
<1>8. CASE cms' = cms
  <2>1. SyncOK(syncing', crs, status, cms', applied)
    BY <1>5, <1>6, <1>7, <1>8, Zenon
  <2> QED BY <1>3, <1>8, <2>1, OnlySyncing
<1>9. CASE cms' = made
  <2>1. SyncOK(syncing', crs, status, cms', applied)
    BY <1>5, <1>6, <1>7, <1>9, Zenon
  <2> QED BY <1>2, <1>3, <1>4, <1>9, <2>1, WriteMade, Zenon
<1> QED BY <1>5, <1>8, <1>9, Zenon

(* What a patch leaves in the status of a flow.                            *)
(* n is what a patch makes of the status t: the fields of the report r, and *)
(* the hash and the list of t where the report leaves them out.  r reports  *)
(* on the version v of the flow, while the map of the flow is m and the     *)
(* resources a are applied.                                                 *)
Patches(n, t, r, v, m, a) ==
    /\ ReportOK(r, v, a) /\ Earned(r, m) /\ Backed(t.listed, a)
    /\ v.doc \in DOMAIN DocOf /\ v.gen \in Nat
    /\ n.gen = r.gen /\ n.compiled = r.compiled /\ n.controls = r.controls
    /\ n.hash = IF r.hash = Gone THEN t.hash ELSE r.hash
    /\ n.listed = IF r.listed = {} THEN t.listed ELSE r.listed

(* A status that was patched is honest about the resource it was computed  *)
(* from.                                                                   *)
LEMMA StatusPatched ==
    ASSUME NEW t, NEW r, NEW v, NEW m, NEW a, NEW n, Patches(n, t, r, v, m, a)
    PROVE  /\ Honest(n, m, a) /\ n.gen = v.gen
           /\ n.compiled = "True" => n.hash = v.doc
<1>1. /\ n.gen = r.gen /\ n.compiled = r.compiled /\ n.controls = r.controls
      /\ n.hash = IF r.hash = Gone THEN t.hash ELSE r.hash
      /\ n.listed = IF r.listed = {} THEN t.listed ELSE r.listed
  BY Zenon DEF Patches
<1>0. /\ ReportOK(r, v, a) /\ Earned(r, m) /\ Backed(t.listed, a)
      /\ v.doc \in DOMAIN DocOf /\ v.gen \in Nat
  BY Zenon DEF Patches
<1>2. v.doc # Gone
  BY <1>0, WatcherAssumption, Zenon
<1>3. r.hash = v.doc => n.hash = v.doc
  BY <1>1, <1>2, Zenon
<1>4. Backed(n.listed, a)
  BY <1>1, <1>0, SMTT(40) DEF ReportOK
<1>5. n.controls = "applied" => AllApplied(n.hash, a)
  BY <1>1, <1>3, <1>0, SMTT(40) DEF ReportOK
<1>6. n.compiled = "True" => n.hash = v.doc /\ r.hash = v.doc
  BY <1>1, <1>3, <1>0, SMTT(40) DEF ReportOK
<1>7. n.gen = v.gen
  BY <1>1, <1>0, SMTT(40) DEF ReportOK
<1>8. n.compiled = "True" /\ m.by # "hand" => m.at = n.gen /\ m.holds = n.hash
  BY <1>1, <1>6, <1>0, Zenon DEF Earned
<1>9. n.compiled = "True" /\ m.by # "hand" => m.at >= n.gen /\ (m.at = n.gen => m.holds = n.hash)
  <2>1. SUFFICES ASSUME n.compiled = "True", m.by # "hand"
                 PROVE  m.at >= n.gen /\ (m.at = n.gen => m.holds = n.hash)
    BY Zenon
  <2>2. m.at = n.gen /\ m.holds = n.hash
    BY <1>8, <2>1, Zenon
  <2>3. PICK g \in Nat : g = n.gen
    BY <1>7, <1>0, Zenon
  <2> QED BY <2>2, <2>3
<1> QED BY <1>4, <1>5, <1>6, <1>7, <1>9, Zenon DEF Honest

(* The patch of a status leaves out what it does not know.                 *)
LEMMA PatchStatusKeeps ==
    ASSUME WatcherInv, PatchStatus
    PROVE  WatcherInv'
<1>1. PICK item : item = Item(syncing.todo)
  OBVIOUS
<1>2. PICK f : f = item.name
  OBVIOUS
<1>3. PICK r : r = syncing.report
  BY SMTT(40)
<1>4. /\ syncing.step = "patch" /\ syncing' = AfterItem /\ UNCHANGED <<crs, cms, applied>>
  BY DEF PatchStatus, At
<1>5. TodoOK(syncing.phase, syncing.todo, crs, status) /\ PatchOK(syncing, item, cms, applied)
  BY <1>1, <1>4, Zenon DEF WatcherInv, SyncOK
<1>6. CASE status' = status
  <2>1. SyncOK(AfterItem, crs, status, cms, applied)
    BY <1>4, ItemSkipped
  <2> QED BY <1>4, <1>6, <2>1, OnlySyncing
<1>7. PICK n : n = [gen |-> r.gen, hash |-> IF r.hash = Gone THEN status[f].hash ELSE r.hash,
                    compiled |-> r.compiled, controls |-> r.controls,
                    listed |-> IF r.listed = {} THEN status[f].listed ELSE r.listed]
  BY Zenon
<1>8. CASE crs[f] # Gone /\ status' = [status EXCEPT ![f] = n]
  <2>1. Phases[syncing.phase] = "flow" /\ ReportOK(r, item.value, applied) /\ Earned(r, cms[f])
    BY <1>2, <1>3, <1>5, Zenon DEF PatchOK
  <2>2. /\ f \in FlowResource /\ item.value.doc \in DOMAIN DocOf /\ item.value.gen \in Nat
        /\ Current(item.value, crs[f], status[f])
    BY <1>1, <1>2, <1>4, <2>1, FlowItem, ZenonT(40)
  <2>3. Backed(status[f].listed, applied)
    BY <2>2, Zenon DEF WatcherInv, Honest
  <2>4. /\ Honest(n, cms[f], applied) /\ n.gen = item.value.gen
        /\ n.compiled = "True" => n.hash = item.value.doc
    <3>1. PICK t, m, v : t = status[f] /\ m = cms[f] /\ v = item.value
      BY Zenon
    <3>2. ReportOK(r, v, applied) /\ Earned(r, m) /\ v.doc \in DOMAIN DocOf /\ v.gen \in Nat
          /\ Backed(t.listed, applied)
      BY <2>1, <2>2, <2>3, <3>1, Zenon
    <3>3. Patches(n, t, r, v, m, applied)
      BY <1>7, <3>1, <3>2, Zenon DEF Patches
    <3>4. Honest(n, m, applied) /\ n.gen = v.gen /\ (n.compiled = "True" => n.hash = v.doc)
      BY <3>3, StatusPatched, SMTT(40)
    <3> QED BY <3>1, <3>4, Zenon
  <2>5. status = [g \in FlowResource |-> status[g]]
    BY DEF WatcherInv, StatusOK
  <2>6. status'[f] = n /\ \A g \in FlowResource : g # f => status'[g] = status[g]
    BY <1>8, <2>2, <2>5
  <2>7. status' = [g \in FlowResource |-> status'[g]]
    BY <1>8, <2>5, SMTT(40)
  <2>8. Newer(crs[f], n)
    BY <1>8, <2>2, <2>4, Zenon DEF Current, Newer
  <2>9. StatusOK'
    <3>1. ASSUME NEW g \in FlowResource
          PROVE  status'[g].gen \in Nat /\ (crs[g] # Gone => Newer(crs[g], status'[g]))
      <4>1. CASE g = f
        BY <2>2, <2>4, <2>6, <2>8, <4>1, Zenon
      <4>2. CASE g # f
        BY <2>6, <4>2, SMTT(40) DEF WatcherInv, StatusOK
      <4> QED BY <4>1, <4>2, SMTT(40)
    <3> QED BY <1>4, <2>7, <3>1, SMTT(40) DEF StatusOK
  <2>10. \A g \in FlowResource : Honest(status'[g], cms[g], applied)
    BY <2>4, <2>6 DEF WatcherInv
  <2>11. SyncOK(AfterItem, crs, status', cms, applied)
    <3>1. PICK p \in 1..4 : p = syncing.phase
      BY <1>5 DEF TodoOK
    <3>2. PICK i \in DOMAIN syncing.todo : i = FirstOf(DOMAIN syncing.todo) /\ f = Resource[i]
                                           /\ i \in DOMAIN Resource
      BY <1>1, <1>2, <1>5, ItemIsListed, ZenonT(40) DEF Listed
    <3>3. PICK t : t = status'
      OBVIOUS
    <3>4. ASSUME NEW j \in DOMAIN syncing.todo, j # i PROVE Listed(p, j, syncing.todo[j], crs, t)
      <4>1. Listed(p, j, syncing.todo[j], crs, status)
        BY <1>5, <3>1, SMTT(40) DEF TodoOK
      <4>2. j \in DOMAIN Resource /\ Resource[j][1] = "flow"
        BY <2>1, <3>1, <4>1, Zenon DEF Listed, KindAt
      <4>3. Resource[j] # f
        BY <3>2, <3>4, <4>2, WatcherAssumption, Zenon
      <4>4. Resource[j] \in FlowResource
        BY <4>2 DEF FlowResource, Named
      <4>5. t[Resource[j]] = status[Resource[j]]
        BY <2>6, <3>3, <4>3, <4>4
      <4> QED BY <4>1, <4>5, Zenon DEF Listed
    <3>5. SyncOK(AfterItem, crs, t, cms, applied)
      BY <3>1, <3>2, <3>4, ItemDone, Zenon
    <3> QED BY <3>3, <3>5
  <2> QED BY <1>4, <2>9, <2>10, <2>11, Zenon DEF WatcherInv, CrsOK, CmsOK, PublishedIsValid
<1> QED
  <2>1. \/ crs[f] # Gone /\ status' = [status EXCEPT ![f] = n]
        \/ status' = status
    BY <1>1, <1>2, <1>3, <1>7, Zenon DEF PatchStatus
  <2> QED BY <1>6, <1>8, <2>1, SMTT(40)

-----------------------------------------------------------------------------
(* What was listed stays current while the resources and their statuses    *)
(* change as they may, and a map is only changed by hand.                  *)
LEMMA SyncSurvives ==
    ASSUME WatcherInv, NEW c, NEW t, NEW m,
           \A f \in FlowResource : \A v : v.gen \in Nat /\ Current(v, crs[f], status[f]) =>
                                          Current(v, c[f], t[f]),
           \A f \in FlowResource : m[f].by = "hand" \/ m[f] = cms[f]
    PROVE  SyncOK(syncing, c, t, m, applied)
<1>1. ASSUME NEW p, NEW todo, TodoOK(p, todo, crs, status) PROVE TodoOK(p, todo, c, t)
  <2>1. ASSUME NEW i \in DOMAIN todo PROVE Listed(p, i, todo[i], c, t)
    <3>1. Listed(p, i, todo[i], crs, status)
      BY <1>1, Zenon DEF TodoOK
    <3>2. ASSUME Phases[p] = "flow" PROVE Current(todo[i], c[Resource[i]], t[Resource[i]])
      <4>1. Resource[i] \in FlowResource /\ Resource[i][1] = "flow"
        BY <3>1, <3>2, ZenonT(40) DEF Listed, KindAt, FlowResource, Named
      <4>2. todo[i].gen \in Nat /\ Current(todo[i], crs[Resource[i]], status[Resource[i]])
        BY <3>1, <3>2, <4>1, Zenon DEF Listed, ResourceOK
      <4> QED BY <4>1, <4>2, Zenon
    <3> QED BY <3>1, <3>2, Zenon DEF Listed
  <2> QED BY <1>1, <2>1, Zenon DEF TodoOK
<1>2. ASSUME syncing.step = "patch" PROVE PatchOK(syncing, Item(syncing.todo), m, applied)
  <2>1. PatchOK(syncing, Item(syncing.todo), cms, applied)
    BY <1>2, Zenon DEF WatcherInv, SyncOK
  <2>2. Item(syncing.todo).name \in FlowResource
    BY <1>2, <2>1, FlowItem, Zenon DEF PatchOK
  <2> QED BY <2>1, <2>2, Zenon DEF PatchOK, Earned
<1> QED BY <1>1, <1>2, Zenon DEF WatcherInv, SyncOK

(* A changed flow has a new generation, so no status and nothing in flight *)
(* speaks of it yet.                                                       *)
LEMMA ChangeKeeps ==
    ASSUME WatcherInv, NEW r \in Named, NEW v \in Versions[r], Change(r, v)
    PROVE  WatcherInv'
<1>1. PICK new : new = IF r \in FlowResource /\ v # Gone THEN [doc |-> v, gen |-> crs[r].gen + 1] ELSE v
  BY Zenon
<1>2. /\ UNCHANGED <<cms, applied, syncing>>
      /\ crs' = [crs EXCEPT ![r] = new]
      /\ status' = IF v = Gone /\ r \in FlowResource THEN [status EXCEPT ![r] = NoStatus] ELSE status
      /\ r \in FlowResource => crs[r] # Gone
  BY <1>1, Zenon DEF Change
<1>3. crs = [q \in Named |-> crs[q]] /\ status = [g \in FlowResource |-> status[g]]
  BY DEF WatcherInv, CrsOK, StatusOK
<1>4. /\ crs' = [q \in Named |-> crs'[q]] /\ crs'[r] = new /\ \A q \in Named : q # r => crs'[q] = crs[q]
      /\ status' = [g \in FlowResource |-> status'[g]]
  BY <1>2, <1>3
<1>5. \A g \in FlowResource : status'[g] = IF g = r /\ v = Gone THEN NoStatus ELSE status[g]
  BY <1>2, <1>3, SMTT(40)
<1>6. r \in FlowResource => crs[r].gen \in Nat
  BY <1>2, SMTT(40) DEF WatcherInv, CrsOK, ResourceOK, FlowResource
<1>7. r \in FlowResource /\ v # Gone => new.doc = v /\ new.gen = crs[r].gen + 1 /\ new.gen \in Nat
  BY <1>1, <1>6, SMTT(40)
<1>8. new # Gone => ResourceOK(r, new)
  <2>1. CASE r \in FlowResource /\ v # Gone
    <3>1. r[1] = "flow" /\ v \in DOMAIN DocOf
      BY <2>1, WatcherAssumption, ZenonT(40) DEF FlowResource
    <3> QED BY <1>7, <2>1, <3>1 DEF ResourceOK
  <2>2. CASE ~(r \in FlowResource /\ v # Gone)
    <3>1. new = v
      BY <1>1, <2>2
    <3>2. v # Gone => r[1] # "flow"
      BY <2>2 DEF FlowResource
    <3> QED BY <3>1, <3>2, WatcherAssumption, Zenon DEF ResourceOK
  <2> QED BY <2>1, <2>2, SMTT(40)
<1>9. CrsOK'
  BY <1>4, <1>8 DEF WatcherInv, CrsOK
<1>10. NoStatus.gen = 0
  BY Zenon DEF NoStatus
<1>11. NoStatus.compiled # "True" /\ NoStatus.controls # "applied" /\ NoStatus.listed = {}
  BY Zenon DEF NoStatus
<1>12. StatusOK'
  <2>1. ASSUME NEW g \in FlowResource
        PROVE  status'[g].gen \in Nat /\ (crs'[g] # Gone => Newer(crs'[g], status'[g]))
    <3>1. status[g].gen \in Nat /\ (crs[g] # Gone => Newer(crs[g], status[g])) /\ g \in Named
      BY DEF WatcherInv, StatusOK, FlowResource
    <3>2. CASE g # r
      BY <1>4, <1>5, <3>1, <3>2, SMTT(40)
    <3>3. CASE g = r /\ v = Gone
      <4>1. status'[g].gen = 0 /\ crs'[g] = Gone
        BY <1>1, <1>4, <1>5, <1>10, <3>3
      <4> QED BY <4>1
    <3>4. CASE g = r /\ v # Gone
      <4>1. status'[g] = status[g] /\ crs'[g] = new
        BY <1>4, <1>5, <3>4, SMTT(40)
      <4>2. status[g].gen <= crs[g].gen /\ crs[g].gen \in Nat /\ new.gen = crs[g].gen + 1
        BY <1>2, <1>6, <1>7, <3>1, <3>4 DEF Newer
      <4>3. status[g].gen <= new.gen /\ status[g].gen # new.gen
        <5>1. PICK x \in Nat, y \in Nat : x = status[g].gen /\ y = crs[g].gen
          BY <3>1, <4>2, Zenon
        <5>2. x <= y /\ new.gen = y + 1
          BY <4>2, <5>1, Zenon
        <5>3. x <= y + 1 /\ x # y + 1
          BY <5>2
        <5> QED BY <5>1, <5>2, <5>3, Zenon
      <4> QED BY <3>1, <4>1, <4>3, Zenon DEF Newer
    <3> QED BY <3>2, <3>3, <3>4, Zenon
  <2> QED BY <1>4, <2>1, SMTT(40) DEF StatusOK
<1>13. ASSUME NEW g \in FlowResource PROVE Honest(status'[g], cms[g], applied)
  BY <1>5, <1>11, Zenon DEF WatcherInv, Honest, Backed
<1>14. SyncOK(syncing, crs', status', cms, applied)
  <2>1. PICK c : c = crs'
    OBVIOUS
  <2>2. PICK t : t = status'
    OBVIOUS
  <2>3. ASSUME NEW g \in FlowResource, NEW x, x.gen \in Nat, Current(x, crs[g], status[g])
        PROVE  Current(x, c[g], t[g])
    <3>1. g \in Named
      BY DEF FlowResource
    <3>2. CASE g # r
      BY <1>4, <1>5, <2>1, <2>2, <2>3, <3>1, <3>2, SMTT(40)
    <3>3. CASE g = r /\ v = Gone
      <4>1. t[g] = NoStatus /\ c[g] = Gone
        BY <1>1, <1>4, <1>5, <2>1, <2>2, <3>1, <3>3, SMTT(40)
      <4>2. NoStatus.gen <= x.gen
        BY <1>10, <2>3, SMTT(40)
      <4> QED BY <1>11, <4>1, <4>2, Zenon DEF Current, Newer
    <3>4. CASE g = r /\ v # Gone
      <4>1. t[g] = status[g] /\ c[g] = new
        BY <1>4, <1>5, <2>1, <2>2, <3>1, <3>4, SMTT(40)
      <4>2. x.gen <= crs[g].gen /\ crs[g].gen \in Nat /\ new.gen = crs[g].gen + 1
        BY <1>2, <1>6, <1>7, <2>3, <3>4 DEF Current
      <4>3. x.gen <= new.gen /\ x.gen # new.gen
        <5>1. PICK i, j \in Nat : i = x.gen /\ j = crs[g].gen
          BY <2>3, <4>2, Zenon
        <5>2. i <= j /\ new.gen = j + 1
          BY <4>2, <5>1, Zenon
        <5>3. i <= j + 1 /\ i # j + 1
          BY <5>2, SMTT(40)
        <5> QED BY <5>1, <5>2, <5>3, Zenon
      <4> QED BY <2>3, <4>1, <4>3, Zenon DEF Current
    <3> QED BY <3>2, <3>3, <3>4, Zenon
  <2>4. SyncOK(syncing, c, t, cms, applied)
    BY <2>3, SyncSurvives, Zenon
  <2> QED BY <2>1, <2>2, <2>4
<1> QED BY <1>2, <1>9, <1>12, <1>13, <1>14, Zenon DEF WatcherInv, CmsOK, PublishedIsValid

(* A map changed by hand is marked so.                                     *)
LEMMA HandEditKeeps ==
    ASSUME WatcherInv, HandEdit
    PROVE  WatcherInv'
<1>1. UNCHANGED <<crs, applied, status, syncing>>
  BY DEF HandEdit
<1>2. PICK e \in HandEdits : cms' = [cms EXCEPT ![e[1]] = [holds |-> e[2], by |-> "hand", at |-> 0]]
  BY Zenon DEF HandEdit
<1>3. PICK new : new = [holds |-> e[2], by |-> "hand", at |-> 0]
  BY Zenon
<1>4. new.by = "hand"
  BY <1>3
<1>5. new.at = 0
  BY <1>3, SMTT(40)
<1>6. e[1] \in Maps
  BY WatcherAssumption DEF Maps
<1>7. cms = [m \in Maps |-> cms[m]]
  BY SMTT(40) DEF WatcherInv, CmsOK
<1>8. /\ cms' = [m \in Maps |-> cms'[m]]
      /\ \A m \in Maps : cms'[m] = IF m = e[1] THEN new ELSE cms[m]
  BY <1>2, <1>3, <1>6, <1>7, SMTT(40)
<1>9. CmsOK'
  BY <1>5, <1>8 DEF WatcherInv, CmsOK
<1>10. DOMAIN cms = Maps /\ DOMAIN cms' = Maps
  BY <1>7, <1>8
<1>11. PublishedIsValid'
  <2>1. \A m \in Maps : cms'[m].by = "watcher" => cms'[m] = cms[m]
    BY <1>4, <1>8
  <2> QED BY <1>10, <2>1, Zenon DEF WatcherInv, PublishedIsValid, SoundSpecs, SoundFlows
<1>12. \A f \in FlowResource : cms'[f].by = "hand" \/ cms'[f] = cms[f]
  BY <1>4, <1>8 DEF FlowResource, Maps
<1>13. \A f \in FlowResource : Honest(status[f], cms'[f], applied)
  BY <1>12, Zenon DEF WatcherInv, Honest
<1>14. SyncOK(syncing, crs, status, cms', applied)
  <2>1. PICK m : m = cms'
    OBVIOUS
  <2>2. SyncOK(syncing, crs, status, m, applied)
    BY <1>12, <2>1, SyncSurvives, Zenon
  <2> QED BY <2>1, <2>2
<1> QED BY <1>1, <1>9, <1>11, <1>13, <1>14, SMTT(40) DEF WatcherInv, CrsOK, StatusOK

(* A restarted watcher has forgotten what was in flight.                   *)
LEMMA RestartKeeps ==
    ASSUME WatcherInv, Restart
    PROVE  WatcherInv'
<1>1. syncing' = Waiting /\ UNCHANGED <<crs, cms, applied, status>>
  BY DEF Restart
<1>2. Waiting.step = "idle"
  BY DEF Waiting
<1>3. SyncOK(Waiting, crs, status, cms, applied)
  BY <1>2 DEF SyncOK
<1> QED BY <1>1, <1>3, OnlySyncing

(* Every step of the watcher preserves the invariant.                      *)
LEMMA WatcherStepKeeps ==
    ASSUME WatcherInv, WatcherStep
    PROVE  WatcherInv'
  BY SyncKeeps, ListKeeps, PublishItemKeeps, CompileItemKeeps, ReconcileKeeps, PublishFlowKeeps,
     GetMapKeeps, PutMapKeeps, PatchStatusKeeps, SMTT(40) DEF WatcherStep

(* So does a step of the kubelet or the loader.                            *)
LEMMA WatcherIdles ==
    ASSUME WatcherInv, UNCHANGED watcherVars
    PROVE  WatcherInv'
<1>1. UNCHANGED <<crs, cms, applied, status, syncing>>
  BY SMTT(40) DEF watcherVars
<1>2. SyncOK(syncing', crs, status, cms, applied)
  BY <1>1, Zenon DEF WatcherInv
<1> QED BY <1>1, <1>2, OnlySyncing

-----------------------------------------------------------------------------
(* The two put together: what the kubelet mounts is a content the loader   *)
(* knows, since the watcher writes only policies that are accepted.        *)
ActiveOK == cms[Active].by = "watcher" \/ cms[Active].holds \in Content \union {Gone}

DeliveryInv == WatcherInv /\ ActiveOK

(* What the kubelet carries to the file is something the loader can meet.  *)
LEMMA MountedIsContent ==
    ASSUME DeliveryInv, cms[Active].holds # Gone
    PROVE  cms[Active].holds \in Content
<1>1. Active \in DOMAIN cms
  BY DEF DeliveryInv, WatcherInv, CmsOK, Maps
<1>2. Active[1] = "active"
  BY SMTT(40) DEF Active
<1>3. cms[Active].by = "watcher" => cms[Active].holds \in SoundSpecs
  BY <1>1, <1>2, Zenon DEF DeliveryInv, WatcherInv, PublishedIsValid
<1>4. SoundSpecs \subseteq Content
  BY DeliveryAssumption DEF SoundSpecs
<1> QED BY <1>3, <1>4 DEF DeliveryInv, ActiveOK

(* The active map keeps holding contents the loader can meet.              *)
LEMMA ActiveKept ==
    ASSUME DeliveryInv, [DeliveryNext]_deliveryVars
    PROVE  ActiveOK'
<1>1. CASE cms' = cms
  BY <1>1 DEF DeliveryInv, ActiveOK
<1>2. cms = [m \in Maps |-> cms[m]] /\ Active \in Maps
  BY DEF DeliveryInv, WatcherInv, CmsOK, Maps
<1>3. CASE PutMap
  <2>1. PICK new : new = [holds |-> syncing.job.holds, by |-> "watcher", at |-> syncing.report.gen]
    BY Zenon
  <2>2. cms' = cms \/ cms' = [cms EXCEPT ![syncing.job.map] = new]
    BY <1>3, <2>1, Zenon DEF PutMap
  <2>3. new.by = "watcher"
    BY <2>1
  <2>4. CASE cms' = [cms EXCEPT ![syncing.job.map] = new]
    <3>1. cms'[Active] = IF syncing.job.map = Active THEN new ELSE cms[Active]
      BY <1>2, <2>4, SMTT(40)
    <3> QED BY <2>3, <3>1 DEF DeliveryInv, ActiveOK
  <2> QED BY <1>1, <2>2, <2>4
<1>4. CASE HandEdit
  <2>1. PICK e \in HandEdits : cms' = [cms EXCEPT ![e[1]] = [holds |-> e[2], by |-> "hand", at |-> 0]]
    BY <1>4, Zenon DEF HandEdit
  <2>2. PICK new : new = [holds |-> e[2], by |-> "hand", at |-> 0]
    BY Zenon
  <2>3. new.holds = e[2]
    BY <2>2
  <2>4. cms'[Active] = IF e[1] = Active THEN new ELSE cms[Active]
    BY <1>2, <2>1, <2>2
  <2>5. e[1] = Active => e[2] \in Content \union {Gone}
    BY DeliveryAssumption
  <2> QED BY <2>3, <2>4, <2>5 DEF DeliveryInv, ActiveOK
<1>5. cms' = cms \/ PutMap \/ HandEdit
  BY Zenon DEF DeliveryNext, deliveryVars, Kubelet, ByHand, Watching, Cluster, Loading, WatcherStep, Sync,
         List, PublishItem, CompileItem, ReconcileControl, PublishFlow, GetMap, PatchStatus,
         Change, Restart, watcherVars
<1> QED BY <1>1, <1>3, <1>4, <1>5

(* The composed invariant holds at the start.                              *)
LEMMA DeliveryStarts == DeliveryInit => DeliveryInv
<1> SUFFICES ASSUME DeliveryInit PROVE DeliveryInv
  OBVIOUS
<1>1. WatcherInv
  BY WatcherStarts, SMTT(40) DEF DeliveryInit
<1>2. cms[Active] = [holds |-> Gone, by |-> "nobody", at |-> 0]
  BY SMTT(40) DEF DeliveryInit, WatcherInit
<1> QED BY <1>1, <1>2 DEF DeliveryInv, ActiveOK

(* Every step of watcher, kubelet and loader preserves it.                 *)
LEMMA DeliveryKeeps == DeliveryInv /\ [DeliveryNext]_deliveryVars => DeliveryInv'
<1> SUFFICES ASSUME DeliveryInv, [DeliveryNext]_deliveryVars PROVE DeliveryInv'
  OBVIOUS
<1>1. ActiveOK'
  BY ActiveKept
<1>2. WatcherInv
  BY DEF DeliveryInv
<1>3. CASE UNCHANGED watcherVars
  BY <1>1, <1>2, <1>3, WatcherIdles DEF DeliveryInv
<1>4. CASE WatcherStep
  BY <1>1, <1>2, <1>4, WatcherStepKeeps, SMTT(40) DEF DeliveryInv
<1>5. CASE \E r \in Named : \E v \in Versions[r] : Change(r, v)
  BY <1>1, <1>2, <1>5, ChangeKeeps DEF DeliveryInv
<1>6. CASE HandEdit
  BY <1>1, <1>2, <1>6, HandEditKeeps DEF DeliveryInv
<1>7. CASE Restart
  BY <1>1, <1>2, <1>7, RestartKeeps DEF DeliveryInv
<1> QED BY <1>3, <1>4, <1>5, <1>6, <1>7, Zenon
        DEF DeliveryNext, deliveryVars, Kubelet, ByHand, Watching, Cluster, Loading

(* The composed invariant, in every reachable state.                       *)
LEMMA DeliveryInvariant == DeliverySpec => []DeliveryInv
  BY DeliveryStarts, DeliveryKeeps, PTL DEF DeliverySpec

(* For any resources, documents, edits, failed calls and restarts: what    *)
(* the watcher published is a policy that the sidecar loads or refuses for *)
(* its run tokens alone, or comes from a closed flow whose policy it does  *)
(* load (crdwatcher/watcher.go:132-406, policy/loader.go:55-65).           *)
THEOREM PublishedPoliciesAreValid == DeliverySpec => []PublishedIsValid
<1>1. DeliveryInv => PublishedIsValid
  BY DEF DeliveryInv, WatcherInv
<1> QED BY <1>1, DeliveryInvariant, PTL

(* And no flow's status claims a compilation, a ConfigMap or a control     *)
(* that is not there (crdwatcher/watcher.go:298-547).                      *)
THEOREM StatusesAreHonest == DeliverySpec => []StatusHonest
<1>1. DeliveryInv => StatusHonest
  BY StatusesHonest DEF DeliveryInv
<1> QED BY <1>1, DeliveryInvariant, PTL

(* With the watcher and the kubelet behind the file instead of an editor,  *)
(* the sidecar's loader still takes only the steps its own specification   *)
(* allows: the file never holds anything that is not a policy's content    *)
(* (policy/watcher.go, crdwatcher/watcher.go:132-237).                     *)
THEOREM DeliveryImplementsLoader == DeliverySpec => Init /\ [][Next]_vars
<1>1. DeliveryInit => Init
  BY DEF DeliveryInit
<1>2. ASSUME DeliveryInv, [DeliveryNext]_deliveryVars PROVE [Next]_vars
  <2>1. CASE Kubelet
    <3>1. PICK v : v = cms[Active].holds
      OBVIOUS
    <3>2. v \in Content /\ Edit(v)
      BY <1>2, <2>1, <3>1, MountedIsContent DEF Kubelet
    <3> QED BY <3>2 DEF Next
  <2>2. CASE ByHand
    BY <2>2 DEF ByHand, Next
  <2>3. CASE Loading
    BY <2>3 DEF Loading, Next
  <2>4. CASE UNCHANGED vars
    BY <2>4
  <2> QED BY <1>2, <2>1, <2>2, <2>3, <2>4 DEF DeliveryNext, Watching, Cluster, deliveryVars
<1> QED BY <1>1, <1>2, DeliveryInvariant, PTL DEF DeliverySpec

(* So the loader's guarantees hold of the whole way a policy takes.        *)
THEOREM DeliveryKeepsLastGood == DeliverySpec => [](TypeOK /\ LastGoodPolicy /\ StaleOnlyIfTorn)
<1>1. LoaderInv => TypeOK /\ LastGoodPolicy /\ StaleOnlyIfTorn
  BY DEF LoaderInv, HashNamesEngine, StaleOnlyIfTorn
<1>2. Init /\ [][Next]_vars => []LoaderInv
  BY LoaderStarts, LoaderKeeps, PTL
<1> QED BY <1>1, <1>2, DeliveryImplementsLoader, PTL

=============================================================================
