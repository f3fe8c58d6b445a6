# nullfield in TLA+

nullfield arbitrates agent traffic: every MCP `tools/call` is allowed, denied,
held for a human, scoped (its arguments rewritten) or charged to a budget. This
directory models the four processes that decide or govern decisions: sidecar,
gateway, ext_authz service and controller, with the delivery of policies from
custom resource to rule engine. TLC checks the models on small instances and
TLAPS proves the central properties for all instances.

## The system

| Part | State | Operations | What is hard about it |
|---|---|---|---|
| Gates (`pkg/gates`) | the trackers below | `Admit`, `Charge` | no lock spans the two; a HOLD of minutes may lie in between |
| Circuit breaker (`pkg/circuit`) | calls, start and trip mark per session | `Allow`, `Record`, `FirstTrip`, `Sweep` | check-then-act; the sweep drops an entry under a call in flight |
| Rates, budgets, velocity (`pkg/gates`, `pkg/budget`, `pkg/anomaly`) | timestamps in sliding windows | `take`, `CheckAndRecord`, `Record` | several limits at once, all or nothing; lazy trimming |
| Hold manager (`pkg/hold`) | pending map, history, one channel per hold | `Hold`, `Approve`, `Deny`, timer | three goroutines race for one hold; send and close after the unlock |
| Rule engine (`pkg/policy/rules.go`) | none | `Evaluate` | first match, with errors that refuse and guards that skip |
| Sidecar handler (`pkg/proxy/handler.go`) | one goroutine per request | `handleToolsCall` | composes all of the above |
| Gateway (`pkg/proxy/gateway.go`, `route.go`) | routes, each with rules and a registry | `ServeHTTP`, `handleToolsCall`, `Resolve` | shared trackers over separate routes; overlapping names and prefixes |
| Session integrity (`pkg/identity/integrity.go`) | subject per session, tokens seen | `Check`, `Sweep` | two locks one after the other, and a sweep |
| Credentials (`pkg/credentials`) | cached secrets, Vault token | `Fetch` | the fetch is unlocked; secrets rotate under it |
| ext_authz service (`pkg/extauthz`) | one goroutine per check | `Check`, `decide` | a long pipeline of early exits, in three modes |
| JWKS cache (`pkg/identity/jwks.go`) | keys, time of the fetch | `keyFunc`, `fetchKeys` | look, fetch, store, look again, without a lock across |
| Signals (`pkg/signals`) | bounded queue per sink | `Emit`, worker | drop when full, retry when failing |
| Controller (`pkg/controller`) | holds, budgets, event ring, alerts, sidecars | four RPCs, admin endpoints, sweeps | a client may give up while its hold is being resolved |
| CRD watcher (`pkg/crdwatcher`) with the flow compiler (`pkg/flow`) | last written signature | list, compile, upsert, status patch | every request may fail, and a failed write may have been made |
| Hot loader (`pkg/policy/watcher.go`, `cmd/nullfield`) | engine, last hash | `LoadInitial`, `check` | the file is read twice per load and may change in between |

A request goes identity -> integrity -> `Admit` (registry, breaker) ->
`Evaluate` -> perhaps parked on a hold -> perhaps scoped, with credentials ->
`Charge` (rates, budget, breaker, velocity) -> upstream. The ext_authz service
runs the same gates and rules on a translated request and answers instead of
forwarding. Rules reach the sidecar as custom resource -> watcher -> ConfigMap
-> mounted file -> hot loader; trackers, hold manager, verifier and routes are
built once, at startup.

## Modules

| Module | Models | State and actions |
|---|---|---|
| `HoldContract` | the promise of a hold, abstractly | verdict and answer per hold; `Open`, `Decide`, `Answer`, `Leave` |
| `HoldManager` | `pkg/hold/manager.go`, `admin.go` | `Park` = `Hold`; `Resolve` = the critical section shared by `AdminResolve` (approve, deny) and `TimerFires` (startTimeout); `Send`, `Close` = the two statements after the unlock; `Receive` = the handler's `<-ch` |
| `Ticks`, `Breaker` | the clock; `pkg/circuit/breaker.go` | operators over the sessions map, one per method; each method holds the mutex throughout |
| `Gates` | `pkg/gates/gates.go` with budgets and velocity | each caller walks `Admit`, `Trip` or `Decide`, `ChargeRates`, `ChargeBudget`, `RecordCall`, `ChargeVelocity`, `Finish`; one action per critical section. `ledger` is a history variable: calls let through per limit and tick |
| `Policy` | `pkg/policy/rules.go` | pure operators with the source's names |
| `ToolsCall` | the sidecar's `handleToolsCall` | `Gates`, `HoldManager` and `Policy` composed; `EvaluatePolicy`, `AwaitHold`, `ScopeArguments` take the place of `Decide` |
| `Identity` | choice of verifier, what each accepts | pure operators: `SelectVerifier`, `MultiAccepts`, `JwksAccepts`, `ClaimsOf` |
| `Integrity` | `integrity.go` | `StartCheck`, `Bind`, `Replay`, `EndCheck`, `SweepReplay`; `accepted` is a history variable |
| `Credentials` | cache, Vault and environment providers | `LookInCache`, `Login`, `ReadSecret`, `StoreSecret` per fetch; `RotateSecret` by the environment |
| `Gateway` | `gateway.go`, `route.go`, `gateway_config.go` | `Gates`, `Policy`, `Identity`, `Integrity`, `Credentials` composed; `Boot` settles which policy is in force and loads the routes, `Serve` ... `ChargeStep` are one request |
| `Jwks` | `jwks.go` | `StartVerify`, `Lookup`, `FetchKeys`, `StoreKeys`, `Relook`; `Rotate` by the issuer |
| `Signals` | `signals.go` | `Emit`, `NextSignal`, `Deliver`, one queue and worker per sink |
| `Translate` | `translate.go`, `operations.go`, target verification | pure operators: `BodyTruncated`, `verifyTarget`, `Action` |
| `ExtAuthz` | `extauthz/server.go`, `response.go`, `runtoken.go` | `Gates`, `Policy`, `Jwks`, `Signals`, `Translate` composed; `Check`, `VerifyRun`, `AdmitCall`, `TripRun`, `EvaluatePolicy`, `Charge`, `Answer` |
| `ControllerHolds` | `controller/holds.go`, the select of `CreateHold` | as `HoldManager`, with `OnTimeout` and with `Cancel` for a client that gives up |
| `ControllerStores` | budgets, events, alerts, sidecars | one operator per method, each under its mutex |
| `Controller` | `controller/server.go`, the binary's sweeps and admin | the two composed; a handler's store calls are steps of their own |
| `PolicyFile` | `ParseSpec`, `validate`, `LoadProxySpecFromFile` | predicates on a record of the fields they look at |
| `Flow` | `flow/compiler.go` | `Compiles`, `CompileRules`, `CompileRegistry`, `CompileControls`, `CompilePolicy` |
| `CRDWatcher` | `crdwatcher/watcher.go` | `Sync`, `List`, `PublishItem`, `CompileItem`, `ReconcileControl`, `PublishFlow`, `GetMap`, `PutMap`, `PatchStatus`: one action per request to the API server |
| `HotLoader` | `policy/watcher.go` and main's own load | one action per read of the file; `Edit` may come between any two |
| `Delivery` | watcher, kubelet and hot loader together | `Kubelet` carries the ConfigMap to the file |
| `MC*` | instances for TLC | constants only |
| `Windows` | the trimming of timestamps common to rates, budgets, velocity and alerts | `After`, a recursive function |
| `*Proofs` | theorems | `Windows`, `Gates`, `ToolsCall` with the hold manager, `ControllerStores`, `Controller` with its holds, `Gateway` with integrity and credentials, `Delivery` with watcher, compiler and loader, `ExtAuthz` with key cache and signals |

The API server, the kubelet, the token issuer and Vault are external: modelled
from what the code sends them and how it reads their answers. Operators named
`Faulty...` are wrong variants of the operator they precede (a dropped guard, an
off-by-one, a missing reset). No specification uses them; with one in the place
of the original a named property fails.

## Runs

| Run | Question | Result |
|---|---|---|
| `tools_call` | Does the composed handler keep what its parts promise, and can approve, deny and timeout of a hold get in each other's way? | No panic and no blocked resolver, reply and record agree, no hold is lost, `HoldContract` is implemented; a held call needs its own approval; the handler refines `Gates`; every call ends |
| `gates` | How far can concurrent calls overshoot a limit, with a moving clock and a sweep? | `maxCalls` by the other callers in flight, rates, budgets and velocity not at all; a refused call takes nothing from the gate that refused it; a refusal sticks until the sweep, and trips are as far apart as entries live |
| `gateway` | Do sessions, routes and secrets stay apart when requests overlap? | One subject per session, one use of a token per window, a call goes only where its own route let it and as the verifier in force accepted it, and an injected secret is at most the cache's lifetime and one fetch old |
| `ext_authz` | Does OK mean that everything was checked, and is every trip heard of? | Yes in enforce mode, and observe records what enforcement would have refused; a trip is posted, or counted as dropped or failed; cached keys follow the issuer; a check is answered unless its issuer stays silent |
| `controller` | Do holds, budgets, events and alerts stay right when RPCs, admins, timers and leaving clients race? | Yes: `HoldContract` is implemented a second time, nobody blocks, the ring shows the latest events, alerts keep their rate, budgets their limits, and every RPC returns |
| `hot_loader` | Does the policy a cluster names come into force, and nothing else? | Only policies `ParseSpec` accepts are published, broken files never take effect, a flow's status is borne out, and a policy that stays picked is enforced, unless the ConfigMap was changed behind the watcher's back or a load saw two files |
| `trip_signal` | `circuit.tripped` is "emitted once per run or session" | Violated: the sweep forgets the mark, and a session that goes on trips again |
| `hold_timeout` | "timeout -> -32005 (or allow, configurable)" | Violated: `onTimeout` is never read by the sidecar |
| `hold_named` | "-32005: HOLD timed out without approval" | Violated: so is a denial by an approver named `timeout` answered |
| `published_refused` | the watcher does not "publish a policy its sidecars would refuse" | Violated: it publishes one with `runToken`, which they do refuse |
| `policy_stale` | "the watcher detects the change" | Violated: an edit between the reads of `LoadInitial` is never noticed |
| `policy_budgets` | a policy is refused if it sets "anything nullfield would not enforce" | Violated: a budget that arrives by reload is not counted |

The six violated statements are quoted with their places in `PROJECT.json`
under `findings`.

What some of these words mean here. `QueueComplete` fixes which holds are in the
history and how many, each once; not that they are the last ones. The newest
events of `AdminSeesRecent` are the last ones added, while a handler takes an
event's timestamp before it gets the store's lock. A signal counts as posted when
an attempt succeeds: an attempt that failed may have reached the receiver too, and
its retry then comes there twice. `TripsBounded` bounds the signals a session can
give rise to; that the mark may be set on another entry than the refused one, or
on none, shows in `trips` and is not excluded. `ForwardedVetted` speaks of the
identity settings in force, which are not the policy file's if that does not load.

### Bounds

Two holds, an admin and a history of one let approve, deny and both timers race
and push a resolved hold out of the history; two callers on a session of two calls
overshoot by the maximum, and a session can grow too old with calls to spare while
one is still in flight. Sessions do not interact, so one is enough. The clock of `gates` outruns
the longest window (minute 1, hour 2, day 3 ticks: the code only compares ages
with widths) and the age at which the sweep acts, so that a second entry of the
session fills and trips. Its rules have hourly and daily limits on identity
and session, and a rate that differs from the tool's; a limit that never binds
alone on this instance is covered by the proofs only. `MaxVelocity` stops
arrivals before a velocity window, which refused calls keep filling, grows without
bound.

The composed runs choose a deployment in `Init`, each of which puts one part
under load, so that state spaces add up instead of multiplying:

- `gateway` (`Deployments`): sessions and tokens shared by four requests of two
  workers, with time for a token to be swept; every choice of verifier the
  environment allows; routes that claim the same names and prefixes; secrets
  rotated while they are fetched; route files that do not load, and a main policy
  that names providers and does not load.
- `ext_authz` (`Script`): a run that trips while its calls overlap, with two sinks
  whose queue holds one signal and whose deliveries fail; keys rotated under two
  verifications, and fetches answered without keys; one request for each way of
  being refused, in each mode.
- `controller` (`Workload`): two holds, budget checks, events or registrations by
  two handlers. A ring of two events wraps; one alert a minute and a
  deduplication window of two ticks can disagree.
- `hot_loader` (`Budget`): up to two changes of resources, with one failed
  request, hand edit or restart in the combinations the budgets list; the flow
  moves between five documents, the policy between four specs. Four changes of the
  file (`MaxEdits`) can take it away and back between two reads. A deleted flow is
  not created again.

`MaxHist`, `MaxTime`, `MaxEdits`, `MaxVelocity`, `MaxVersion`, `Workload`,
`Script`, `Deployments` and `Budget` are bounds of the model or of the code, by
those names. Callers are symmetric, and symmetry is used in runs without liveness.
`tools_call` has no clock, so only `maxCalls` can trip its breaker.

`CHECK_DEADLOCK FALSE` is set where the system may stop: holds, requests and
changes of the model run out, and a loader whose initial load failed never reads
again.

### Fairness

Goroutines that can run do: weak fairness on timers, sends, closes and receives,
on the steps of requests, RPCs and checks, on the signal workers, and on the two
polling loops, whose tickers keep firing. `Delivery` also assumes that the
kubelet keeps refreshing volumes. Admins, clients, sweeps and whoever edits
resources owe nothing, so `EveryCallEnds` and `EveryRpcReturns` rest on the hold's
own timer, as the code does; approvals alone never discharge the fairness of the
queue (`QueueRuns`). A sleep's length is not modelled: a timer may fire at any time.
Requests to the API server fail finitely often in `ActivePolicyEnforced`.

Two peers decide more than the code bounds. The sidecar forwards without a timeout
of its own (`handler.go:295`): `EveryCallEnds` takes the upstream to answer, or to
drop the connection. `fetchKeys` uses the default HTTP client, which has none
either (`jwks.go:196`): an issuer that accepts a connection and stays silent holds
a check for ever, so `FetchKeys` is outside the fairness of `ExtAuthz` and
`ArbiterLive` promises an answer only to a check that is not waiting for keys.
Sinks do have timeouts (`signals.go:77`, `111`).

## Proofs

Proved for every value of the constants under the named assumptions of the
modules: finite callers, natural limits and widths, disjoint identifier sets,
deployments and resources made of what is spelled out. Approvers are any names at
all, "timeout" among them. Every invariant, action property and refinement the
passing runs check is proved.

Facts on finite sets come from the library by a named instance (`Fin`) at the
point of a module where they are first used; `SameFinite` and `SameCardinality`
say that it counts as the specification does. What precedes that point and needs
to count takes the facts as a hypothesis (`CallersCounted` in `GatesProofs`), which
is discharged there (`CallersCount`).

- `WindowsProofs`: what trimming a window keeps (`After`), for every sequence of
  timestamps and every cutoff. `After` is a recursive function, and the library's
  induction rules take an operator, which no prover here can instantiate;
  `SeqBySet` states induction over sequences for a set instead of a predicate.
  The definition is unfolded once (`KeptAt`, `KeptExists`), and `AfterEmpty` and
  `AfterAppend` are all that other modules use of it.
- `GatesProofs`: the type invariant, `CallsBounded`, `TripsBounded`,
  `RefusalSticks`, `RateWindow`, `BudgetWindow`, `VelocityBounded` and
  `RefusedTakesNothing`. A caller past `Allow` is a call not charged yet, so the
  inductive bound `CallsCommitted` counts calls made plus callers admitted: a
  caller passes `Allow` only below `maxCalls`, and `Record` moves it from one term
  to the other. For the trips, `Spaced` accounts for every one by an entry that
  lived for `Span`, twice `maxDuration` and a tick, before the next could start,
  the last of them by the entry at hand if it is marked. For the windows,
  `LimitsInv` relates each tracker to the ledger of calls let through: after
  trimming, the tracker and the ledger show a window the same timestamps (for
  velocity, the tracker shows at least the ledger's, since refused calls are
  recorded too), so the tracker's check bounds the ledger.
- `ToolsCallProofs`: first of the hold manager on its own, `HoldTypeOK`,
  `SendReady`, `ReplyMatchesRecord`, `QueueComplete` and the refinement
  `HoldSpec => ContractSpec`. `SendReady` alone is not inductive. The invariant
  adds `OneResolver` (a hold in hand was taken from the map by that goroutine
  only, and a timer carries its own hold) and `ChannelState` (what the channel
  holds at each stage, and that it agrees with the record down to the approver's
  name, so that a closed channel is never read empty). `QueueInv`
  says where each hold is: in the map, or in a history that forgets its oldest.
  Then of the composed handler `TypeOK`, `HeldCallsNeedApproval` and `GatesRefined`.
  `HandlerInv` adds which hold a request waits on, that no two share one, and what
  the queue can have sent it. The refinement mapping `Seen` reads the states this
  handler adds (held, scope) as the gates' "decide"; `GatesStep` shows for each
  action that it is a step of the gates or a stutter. Hence what `GatesProofs`
  proves of the gates holds of the composed handler (`HandlerKeepsLimits`).
- `ControllerStoresProofs` and `ControllerProofs`: `NobodyBlocks`, `ContractSpec`,
  `TypeOK`, `AdminSeesRecent`, `AlertDiscipline` and `BudgetKept`. The hold store
  is proved like the hold manager; here a caller may leave at any time, so the
  invariant covers holds whose caller is gone. `Steps` reduces each step of the
  composed controller to at most one operation per store, and each store has an
  invariant over its history variable: the ring holds the latest events newest
  first from `pos` backwards (`RingInv`); the alerter's list is what its window
  shows of the alerts sent (`RecentAgrees`); a budget record counts the granted
  calls of its key within the hour, the day and the calendar day (`Keeps`), with
  sums of tokens by the same set induction (`TotalAppend`).
- `GatewayProofs`: first the shared parts on their own. `SessionIntegrity`: a
  check that has bound its session is not accepted yet, and a token may be swept
  before the next use is looked at: `BindInv` says that whoever is past `Bind` has
  the subject on record, `ReplayInv` that a token accepted within the window is
  still in the map, and `Apart`, what is to be shown of tokens, closes the
  induction. `InjectedIsFresh`: `HeldInv` says what Vault last held, `FetchOK` how
  old an answer in hand may be, and `EntryOK` how old a cached entry may be
  although a slower fetch may have overwritten a newer one. Then the composition:
  both hold in the gateway as a whole, and `ForwardedVetted`, for whatever
  identity and integrity settings main kept, follows from `CallsInv`, which says
  at each stage of a request what has been established for it (verified, cleared
  by the integrity check, dispatched to its route, decided by that route's rules),
  and `Fetching`, that a fetch belongs to a request waiting for it.
- `ExtAuthzProofs`: `KeysFollowIssuer`, of the key cache alone and inside the
  service. A set of keys in the cache, or in the hands of a slow fetch, is
  `Answered`: all were published when the issuer answered, and, if the answer was
  its keys and not a body without any (`whole`), none is missing that always was.
  Whoever stored keys finds the cache at least as fresh at the second look, though
  perhaps filled by another (`VerifyInv`). `TypeOK` and `OkMeansVetted` follow
  from `PipelineInv`: `CheckInv` relates a check, its goroutine at the gates and
  the verification of its token, and says at each stage what the stages before it
  established (`Screened`, `RunOK`, `Permitted`; `Judged` carries over that the
  token was in time when the verification looked at it), and that whoever is at
  the gates acts for the run its token names. `TripsReported` needs three more
  invariants. `SinksInv`: what a sink is done with, has in hand and has queued is,
  in order, the part of what it was offered that found room (`Enumerates`).
  `MarksInv`: as `Spaced` of the gates, with the time an entry lives, and only an
  entry that exists is marked. `CountsInv`: the trips offered to a sink are
  exactly those the breaker counted.
- `DeliveryProofs`: of the hot loader, `TypeOK`, `LastGoodPolicy` and
  `StaleOnlyIfTorn`, through what the two reads of a load say of each other
  (`HashNamesEngine`). Of the compiler, that a compiled flow is closed for every
  flow and every request, from what it writes (`CompiledRules`) and that the
  engine decides by the first rule that stops the search. Of the watcher,
  `PublishedIsValid` and `StatusHonest`: what is in flight between a list and the
  patch of a status is as old as the list, and `SyncOK` says at each step of a sync
  what still holds of it (`Listed`: no newer than the resource, and of the same
  generation the same; `WriteOK`, `PatchOK`: what may be reported; `Earned`: a
  report of success follows a write that only a hand can have undone). Of all
  three together, that they implement the loader's specification
  (`DeliveryImplementsLoader`: the kubelet edits the file only to contents the
  loader's model has), so that the loader's properties hold in the composition
  (`DeliveryKeepsLastGood`).

Only model-checked: liveness (`EveryCallEnds`, `ChangeTakesEffect`,
`ActivePolicyEnforced`, `EveryRpcReturns`, `ArbiterLive`),
which is out of the prover's reach.

## What modelling brought up

Behaviour a reader of the code should know of; the properties above hold with it.

- `docs/observability.md:103` says the proxy emits `circuit.tripped` "per refused
  call", `docs/signals.md:16` once per session: the code does neither
  (`trip_signal`).
- A refusal is decided by `Allow` and marked later by `FirstTrip`. If the sweep
  drops the entry in between and a call still in flight records a new one, the mark
  lands there: the session is reported tripped and its next calls are admitted,
  although `docs/implementation-guide.md:394` says that "all subsequent tool calls
  for that session return `-32002`". If none does, the trip is not reported.
- A gateway whose main policy does not load serves its routes all the same,
  without that policy's identity providers and integrity check: with no verifier
  in the environment every caller is `dev-user` (`cmd/nullfield/main.go:131-147`,
  `199`). `CHANGELOG.md:180`, "a refused policy falls back to deny-all at
  startup", is true of the sidecar only.
- The status of an issuer's reply is not looked at. An error in JSON empties the key
  cache and stamps it fresh; as a missing key is never served from the cache, the
  next verification fetches again (`jwks.go:196-212`, `166-193`).
- No-op mode records the counterfactual as observe does, while `response.go:16` says
  it "records nothing beyond the request itself".
- A Host that is an alias of a mapped target, or stands in brackets, passes
  `verifyTarget` and is not in the operation map: the rules see no operation name
  (`operations.go:121`).
- `lastActiveSig` is what the watcher believes it wrote. After a write whose
  reply was lost, and after an edit by hand, it may differ from the ConfigMap until
  the policy changes or the controller restarts (`crdwatcher/watcher.go:212`).
- A flow tool with credentials is compiled to SCOPE whatever its action says
  (`flow/compiler.go:370`). ConfigMaps and controls of a deleted flow stay. A
  status patch leaves fields it omits at their old values.
- `Bind` comes before the replay check, so a refused request may have bound its
  session (`integrity.go:137`).
- A later route takes over a name an earlier one has; of several prefixes that
  fit, the map's order picks one per call (`route.go:60`, `73`). Methods other than
  `tools/call` go to the first route undecided. Rate limits are shared over routes;
  hold manager and budget tracker follow the main policy, not the routes'.
- A slow fetch of keys or of a secret overwrites a newer one and is stamped fresh
  (`jwks.go:239`, `credentials/cache.go:44`): staleness is bounded by the lifetime
  plus the slowest fetch, not by the lifetime.

## Not modelled

- Formatting, logging, metrics, HTTP and gRPC plumbing, the contents of generated
  manifests, CEL (a function to true, false or error), signature checks: data or
  libraries; where a decision depends on them, they are a parameter.
- No caller in a binary: `RecordTokens` of the sidecar's tracker, `cost.go`,
  `budget/remote.go`, `hold/remote.go`, `hold/notify.go`, `sequence.go`,
  `drift.go`, `Breaker.Reset`, `ForceReload`, `Heartbeat`, `SetWebhook` and the
  sweeps of sidecar budgets, velocity and credentials.
- Response redaction and inspection: after the forward, they change no state
  modelled here. The tool lifecycle tracker only logs.
- The data race on what `GET /admin/holds` encodes: no decision reads it. Vault's
  token is written without a lock; each writer stores a valid one.
- The injector webhook: a stateless patch of a pod. Generated protobuf code.

`PROJECT.json` lists every part of the system with the reason.
