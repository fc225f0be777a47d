# Verification of the cloud-native service control plane

TLA+ models of the programs in this repository, checked with TLC on small
instances; every safety property that a passing run checks is also proved with
TLAPS, for all instances.
`PROJECT.json` is the machine-readable index: components, runs, mutants, the
source lines behind every definition, findings, hazards and theorems.

## The system

A client asks the **control-plane API** (`internal/controlplaneapi`,
`cmd/control-plane-api`) for a demo service. The API stores a `ManagedService`
resource in Kubernetes. The **operator** (`internal/controller`, `cmd/main.go`)
watches these resources, keeps a Deployment and a Service of the same name for
each, and writes what it finds into the resource's status. The Pods run
**demo-http** (`internal/demohttp`, `cmd/demo-http`). API and demo-http share the
**telemetry** package: middleware with metrics, tracing, and
`ServeUntilShutdown`, which runs a public and a metrics server.

| component | state | operations | what makes it correct |
|---|---|---|---|
| ManagedService type | spec, generation, deletionTimestamp, status | defaults, limits | limits agree with the API's validation |
| operator: reconciler | work queue, informer caches, the reconciliation in progress | `Reconcile`, `reconcileDeployment`, `reconcileService`, `updateManagedServiceStatus`, `recordDegradedStatus` | converges and then rests; never touches others' objects; children belong to the live resource and go with it; status is of one write and of its generation |
| operator: metrics | two counters | `observeReconciliation`, `observeConditionTransitions` | count what was persisted |
| operator: process | flags, lease | start, restart, change of leader | nothing is lost in a restart, nor while two managers run |
| Kubernetes (external) | objects, watches, Pods | writes with and without resourceVersion, garbage collection, both ways of deletion, rolling updates | - |
| API: handler, store | none but requests in progress | authenticate, route, validate, create/list/get/delete/ready | behaves as an atomic registry |
| API: configuration | the token, the ports | `LoadToken`, `ParsePort`, `ParseMetricsPort` | a rotated token takes effect, and no rotation locks everybody out |
| API and demo-http: process | environment, stage, exit code | `run`, `main`, signals | stops in time, and its exit code tells the truth |
| telemetry: middleware | gauge, counter, histogram | count in, count out | accounts for every request, also one that panics, between any two updates |
| telemetry: server lifecycle | listeners, goroutines, result channel, deadline | `ServeUntilShutdown` | leaves nothing behind, loses no error, returns |
| telemetry: tracing | span buffer | `NewTraceRuntime`, its shutdown | every span is handed to the exporter, or the exit code says so |
| demo-http | message, ports | three routes | the endpoint answers with the message of the spec |
| manifests, charts, generated code | none | - | - |

API and operator interact only through Kubernetes: the API's create and delete
are `ClientCreates` and `ClientDeletes` of `Cluster`. The hard behaviours are:
every read of the operator is of a cache that lags behind; the two status writers
send an unconditional merge patch; calls may take effect although they fail; the
resource can be deleted and created again under its name while a reconciliation
of the old one runs; the lease does not fence two managers; the shutdown races
with goroutines that have not started, with requests that do not end and with
the kubelet. `PROJECT.json` lists these hazards at their lines.

## Modules

    ManagedService   pure: spec, status, conditions, merge patch
      Cluster        external: API server, watches, caches, other writers
        Operator     queue, Reconcile, status, metrics, restart; properties
          OperatorProofs   theorems
            StatusProofs   theorem about the generation in a status
          Handover         two managers over one API server
            HandoverProofs theorem (and OperatorProofs)
          Workload         Pods, demo-http and the Service in front (and Config)
    Config           pure: token, ports, trace settings
      Rotation       the token over time: Secret, Pods, administrator
        RotationProofs     theorems
    Servers          ServeUntilShutdown over net/http
      ServersProofs  theorems
      Process        the two programs from exec to exit (and Config)
        ProcessProofs      theorems (and ServersProofs)
    Registry         abstract: an atomic registry of services
    ControlPlaneAPI  handler, store, middleware; implements Registry
      APIProofs      theorems

`MCOperator`, `MCHandover`, `MCWorkload`, `MCProcess`, `MCRotation`, `MCServers`
and `MCControlPlaneAPI` hold the instances for TLC.

### Operator

One resource name is modelled: different names share nothing but the queue.
With the one worker that controller-runtime starts by default, a single
reconciliation runs at a time, and the queue is one bit (it coalesces).

`Reconcile` is cut where it calls the API server, since other writers run there:

| step | action | code |
|---|---|---|
| idle | `Reconcile`, `ReconcileFailsToRead` | the cached `Get`, the image check |
| get | `CreateOrUpdate(k)` | the cached read of the child, the mutate function, the comparison |
| create, update | `CreateChild(k)`, `UpdateChild(k)` | the call: accepted, refused, failed, or accepted and its answer lost |
| status | `updateManagedServiceStatus` | the status of a success and its patch |
| degraded | `recordDegradedStatus` | the status of a failure and its patch; the error is returned in any case |

`DeliverManagedService` and `DeliverChild` are the informers with the handlers
that `SetupWithManager` installs. `Restart` is a crash at any point, after which
a new process, perhaps with another `--demo-http-image`, lists everything.

What happens outside is a `scenario`, chosen by `Init` from the constant
`Scenarios`: the kinds of events, how many of them are left, the specs that
clients send, the children that the API server refuses (a quota, an admission
rule, a Service name that begins with a digit), and how many versions a watch
may be behind. Events are creations, edits and deletions of the resource, in the
background and in the foreground; drift, disowning, removal and occupation of
the children; Pods that become unready; failed calls, lost answers, restarts.

Abstractions. A child is its controller reference, the fields that come from
spec and flags, one bit for the selector (immutable in a Deployment), and its
ready replicas; constant parts of the Pod template are part of "the fields".
resourceVersions are one bit per child: the copy held is the live one.
A condition is status, reason and generation; its message is a function of the
reason (the text of an error is identified with its reason), and
`lastTransitionTime` appears only as the possibility that a patch with no other
change is a write. The endpoint is set or not set. `requeue`, the third label of
the reconciliation counter, is never used by this reconciler. A watch delivers
every version in order; skipping versions, as a relist does, is covered by
`Restart` only.

### Handover

`--leader-elect` starts a second manager when the lease of the first has run
out. `Handover` composes two instances of `Operator`: the variables of the
module are the old manager's, `New` is an `INSTANCE` for the new one, and `ms`,
`child` and `scenario` are shared. What one writes goes into the watches of the
other and makes the other's copy of a child an old one. `TakeLease` starts the
new manager, `OldWorks` lets the old one finish up to `MaxOverlap` steps,
`OldExits` is the end of its process in the middle of anything. The lease itself
is client-go's; only the order of these events is modelled.

### Workload

Replaces `Cluster`'s `Rollout`, which reports all replicas ready at once, by the
Pods of a rolling update with demo-http in them: `CreatePod`, `RemovePod`,
`PodBecomesReady` (the readiness probe against the routes and the port that
demo-http chooses from its environment), `PodFails`, `ReportReady`. A request to
the endpoint goes through the Service's selector and named port, and is answered
with the message after the kubelet's expansion of the variable and demo-http's
default.

### ControlPlaneAPI and Registry

A request is a record of what the handler distinguishes: path (clean or not),
method, token, query, name, how the body decodes, replicas and message length.
`ServeHTTP` and what it calls, with ServeMux' redirects, are functions from a
request to an answer or to a store call; the actions `Arrive`, `Route`,
`StoreCall`, `StoreCallFails`, `StoreAnswerLost`, `Panic`, `LowerInFlight`,
`CountRequest` and `ObserveDuration` interleave the requests of several clients.
The last three are the middleware's deferred function, which runs after a panic
too and then reports the recorder's 200: `requestFinished` updates gauge, counter
and histogram one after the other, and other requests, or a scrape, come between.
What a scrape relies on is stated for each of these moments: a request that has
left the gauge and is not yet counted is in neither, and the counter may be ahead
of the histogram by the requests between the two. The store's client reads from
the server directly (no cache), so a store call is one step
there. `Registry` says what clients may rely on; `ControlPlaneAPI` is checked to
implement it through `R`, an `INSTANCE` that maps status codes to outcomes. What
the registry accepts is stated in `RegistryOp` from the CRD's limits, not from
the handler's code.

### Servers

`N` servers, opened in order; then one goroutine each; `select`; `Shutdown` one
after the other under one deadline; `Close` after a timeout; the drain of the
result channel. `net/http` is external and modelled in the detail this code
depends on: `Serve` refuses to start after `Shutdown`, and closes its listener
when it returns; `Shutdown` closes only a listener that `Serve` has registered,
waits for `Serve` to let go of it, closes idle connections at every poll, and
looks at the deadline only between polls. A request need never end.

### Process, Config and Rotation

`Process` puts `Servers` between the setup and the exit of a program. The two
programs differ in the order of their steps (`SetupSteps`: demo-http installs its
signal handler last) and in the grace period of their Pods. `SetUp` takes one
step at a time and exits with 1 at the first that fails; `Serve` is a step of
`Servers` with its deadline driven by the clock; `BeginFlush`, `Flushed` and
`FlushFails` are the shutdown of the trace runtime in a context of its own;
`Terminate` and `Kill` are the kubelet's. Time passes only while the program
waits for a request or for the exporter.

`Config` holds the parsing functions character by character as far as they tell
characters apart. `Rotation` lives through their consequences: the process loads
the token once, the administrator replaces the Secret, restarts the Deployment
and waits for it (`docs/operator-guide.md`, 10.6), and processes crash. The
Deployment has one replica, `maxSurge: 1` and `maxUnavailable: 0`
(`kubernetes/platform/control-plane-api/deployment.yaml`): `CreatePod` and
`Spared`. A process of a Pod from before the rotation that starts again reads
either file (`Mounted`), since the kubelet refreshes a mounted Secret some time
after it was replaced.

## Runs

| run | checks | instance |
|---|---|---|
| `operator_safety` | `TypeOK`, `ConditionsCoherent`, `ForeignChildUntouched`, `OwnerNeverRegresses`, `StatusDescribesItsGeneration` | 3 events of a life cycle with failures and restarts; 3 events of other writers; re-creation and edits with watches 2 behind; a foreground deletion. 2 messages, pinned and unpinned image |
| `operator_converges` | `EventuallyConverged`, `EventuallyQuiet`, `ChildrenGoWithIt` | the same life cycle, also with the Service refused; 3 events of other writers, or 2 with drift |
| `operator_recreated_status` | violates `GenerationTellsCurrentStatus` | create, delete, create with another spec |
| `operator_transition_count` | violates `CountsOnlyPersistedTransitions` | one creation |
| `operator_foreground` | violates `ForegroundDeletionEnds` | create, delete in the foreground |
| `handover` | `ConditionsCoherent`, `HandoverConverges` | managers with different images, 3 steps of overlap, one edit |
| `workload` | `EventuallyServes` | 2 events: create, then edit, delete, restart or a failing Pod; or scale between 1 and 2 |
| `api` | `TypeOK`, `MetricsAccountForRequests`, `ImplementsRegistry` | 3 clients; any 3 of 7 contending requests; a name created, deleted, created again and read; or a creation and any 1 of 340 requests |
| `process` | `ProcessTypeOK`, `NeverKilled`, `ZeroMeansClean`, `EventuallyGone`, no deadlock | 2 programs in 13 environments each |
| `process_demo_grace` | violates `ShutdownCompletes` | demo-http as the operator's Pod template starts it |
| `rotation` | `RotationTakesEffect`, `KeepsServing`, `RotationEnds` | 3 rotations among 9 token files, 2 crashes |
| `servers` | `TypeOK`, `NothingLeftBehind`, `ErrorTellsWhatHappened`, `EventuallyReturns`, no deadlock | 3 servers, 2 connections each |

Why the bounds are enough. Three outside events reach a re-creation (create,
delete, create) and every pair of disruptions after a creation, each at every
point of a reconciliation. One replica is enough to tell ready from not ready;
two messages tell a spec from its successor. A write waits when its watch is as
far behind as the scenario allows, which excludes no order of the writes
themselves; two versions are needed for deliveries that could go out of order.
`MaxCount` saturates the counters, and is 0 where no property reads them. Three
overlapping steps let the old manager get from its read through a write of a
child to the next. Three servers make the middle one differ from the first and
the last. In `Process` a Tick is 5 s: each shutdown may take 2, the grace period
is 6 for control-plane-api (`kubernetes/platform/control-plane-api`) and 2 for
demo-http (`managedservice_resources.go`); one connection per server and a span
buffer of one tell cut from finished and exported from lost.
`MinimumTokenLength` is 2 instead of 32, so that tokens on both sides of it, with
every line ending, can be listed. The clients of `api` are symmetric: nothing
tells them apart, and both properties are safety properties. Messages with "$("
are left out of `Workload`, since what Kubernetes makes of them depends on
other variables.

Deadlock is not checked in the operator's, the API's and `Rotation`'s runs: the
operator may rest once it is quiet, the API once all requests were sent, the
administrator after the last rotation. `EventuallyQuiet` and
`EventuallyConverged` say that the operator rests in the right place. In
`Servers` and `Process` only a returned function and a process that is gone are
final.

Every property of a passing run has a mutant: a plausible mistake in one
definition under which TLC finds the property violated. The mutants' definitions
stand before the definition they replace, with a comment saying what is wrong.

### What the runs show

The passing runs found nothing to object to in the children's handling, in the
API or in the server lifecycle. Some remarks. The branch of
`ServeUntilShutdown` that reports "stopped unexpectedly" is never taken: `Serve`
returns `ErrServerClosed` only after `Shutdown`. A name that another controller
occupies is noticed as free again only because the error keeps the resource in
the queue. demo-http that gets SIGTERM before its signal handler is installed,
its last step, exits with 143. `NothingLeftBehind` is about listeners,
connections and the goroutines that call `Serve`; the handler of a request that
was cut off may still run when the function returns. `KeepsServing` holds across
files that `LoadToken` refuses: the new Pod does not get ready and the old one
stays. Only while no process ends, though: one that starts again with such a file
mounted does not come back, and the API is down until the Secret is repaired.

Four statements of the repository do not hold (`findings`):

* The help text of `managedservice_condition_transitions_total` promises
  persisted transitions. A reconciliation from a cache that has not yet seen the
  first status counts the same transitions again.
* A status patch computed for a deleted resource is stored in its successor of
  the same name and generation, so the generation in a condition does not
  distinguish it from a current one, until the next reconciliation writes it.
  What is written for the live incarnation it does describe
  (`StatusDescribesItsGeneration`), but for the exception below.
* A foreground deletion need not end: `Reconcile` does not look at the
  deletionTimestamp and creates again what the garbage collector removes. The
  API deletes in the background, where `ChildrenGoWithIt` holds.
* The Pods that the operator makes give demo-http 10 s of grace, which its own
  shutdown timeout of 10 s uses up: with a request that does not end the kubelet
  kills it before it has cut the request off and said so. With 30 s, as
  control-plane-api has them, both shutdowns fit (`NeverKilled`).

Five limits are built into the models rather than shown by a run of their own:

* `RotationTakesEffect` and `KeepsServing` make an exception for a token with a
  blank or a tab in it: `LoadToken` lets it pass and `authenticated` refuses every
  request with it, so such a rotation completes and locks everybody out.
* `StatusDescribesItsGeneration` is about the first incarnation, and in a later
  one about writes that carry the observed generation. A merge patch leaves the
  field out when the cached copy already has it, and the server may hold another:
  after create, edit, delete, create, edit, with the watch five versions behind,
  two reconciliations of the deleted resource store observed generations 1 and 2
  in its successor; one of the successor's first generation, from a copy that
  has the 1, then sends its conditions alone, and they stand beside the 2. Five
  events and five versions are beyond the bounds of `operator_safety`; the case
  was found when the proof of the property without the exception failed, and TLC
  reproduced it.
* `OwnerNeverRegresses` is a property of one manager. While two overlap, the old
  one can give a child of a re-created resource back to the deleted one;
  `HandoverConverges` is what remains.
* `ChildrenGoWithIt` is not checked of a resource that is deleted in the
  foreground (`operator_foreground` is) nor of one that goes while a child of it
  has been disowned by another writer: no reference leads to that child any more.
* `Workload`'s messages have no two dollar signs in a row: `Expand` makes one of
  them, as Kubernetes does with every variable, and such a message is not served
  as it was written.

### Fairness

`Operator!Fairness`: the worker, the informers, the Deployment controller and
the garbage collector each take a step they can take for ever (weak fairness):
controller-runtime's worker loop, the queue's retry with backoff after an error,
and client-go's reflectors do so. The end of a foreground deletion is strongly
fair, since the garbage collector looks at the resource again whenever a child
goes. Failures and other disruptions are not fair, and finitely many.
`Handover` asks the same of both managers while they lead, and that the old one
notices the loss of its lease; the lease may never change hands. `Workload` asks
it of Kubernetes' Pod steps too. `Servers!Fairness`: the goroutines and the
deadline are weakly fair; the case of the timed-out deadline in `Shutdown`'s
`select` is strongly fair, since Go picks among ready cases at random.
Connections, signals and failures are not fair. `ProcessFairness` adds the
setup, the flush that has run out of time, the kubelet's kill, and strong
fairness of the clock, which other steps interrupt but do not stop; a flush to a
collector need not end by itself. `Rotation`: Pod steps and the
administrator's restart are weakly fair, and `kubectl rollout status`, which
polls, is strongly fair; nobody has to rotate.

## Proofs

`OperatorProofs` proves, of `Operator!Safety`, for all sets of replicas,
messages and images, and all scenarios: any number and mix of disruptions,
foreground deletions and refused children included:

* `TypeCorrect`: `[]TypeOK`, one lemma per group of actions. The conditions of
  the type that matter: a merge patch of two well-typed statuses is one, and a
  failure is recorded with a declared reason.
* `OwnerNeverGoesBack`: `OwnerNeverRegresses`. It rests on `WatchInOrder` (the
  UIDs in the cache, along the watch and at the server grow) and `OwnersInOrder`
  (no child's owner is newer than the cached resource, nor, while a
  reconciliation runs, than its copy, which is no newer than the cache).
  Without the order along the watch the invariant is not inductive: a delivery
  could take the cache back.
* `ForeignChildrenSafe`: `ForeignChildUntouched`. It rests on
  `ChildCacheInOrder` (the last version under way, or else the cache, is the
  live child) and
  `UpdatesItsOwn` (a child that is about to be updated from a copy that is still
  the live one is not owned by another controller): the check of the cached copy
  and the resourceVersion together say what neither says alone.
* `ConditionsStayCoherent`: `[]ConditionsCoherent`, from the fact that a merge
  patch replaces the list of conditions whole or not at all.

`StatusProofs` adds `StatusTruthful`: `StatusDescribesItsGeneration`.
`VersionsInOrder` says that the copy being reconciled, the cache, the watch and
the server hold versions in this order, where within an incarnation a generation
does not go back and names one spec. `ObservedWasRead` bounds the generation
that the first incarnation reports by what the cache has seen and by the copy
being reconciled: without it, a patch without the observed generation might find
a newer one at the server. `VersionsNumbered` says which incarnation is the
first.

`HandoverProofs` proves `HandoverKeepsCoherence`: `[]ConditionsCoherent` also
while two managers patch one status. The invariant, `ResourceOK`, is about the
stored resource only. Whatever a manager holds, the list in its patch is one
that the two status functions build; so nothing has to be known of the caches,
and the overlap may be of any length.

`ServersProofs` proves, for any number of servers and connections, `TypeCorrect`
(`[]TypeOK`), `CleanReturn` (`[]NothingLeftBehind`) and `ErrorComplete`
(`[]ErrorTellsWhatHappened`). That the function returns only after the last
goroutine is a matter of counting: `ResultsCounted` says that the results
received and those in the channel, each there once, are as many as the
goroutines that have sent one, and so `received = N` means all. `GoroutineOK`
ties a goroutine's place to its outcome and to its listener; `NotBegun` and
`Progress` say how far the two loops have come, and that a server passed by the
second one has no connection and gets none; `ErrorSoFar` says which failures are
in `resultErr` while others still wait in the channel.

`ProcessProofs` builds on it, since every step of a process is a step of its
servers or none of theirs: `ProcessTypeCorrect` (`[]ProcessTypeOK`),
`GracePeriodSuffices` (`[]NeverKilled`) and `ExitCodeTruthful`
(`[]ZeroMeansClean`), for all timeouts, grace periods and environments.
`WithinTimeouts` is the reason for the second: the clock since SIGTERM and what
is left of the running timer never exceed one shutdown timeout while the servers
stop, and two while the spans are exported.

`APIProofs` proves, for all clients, names and loads, `TypeCorrect`
(`[]TypeOK`), `MetricsExact` (`[]MetricsAccountForRequests`) and
`RefinesRegistry` (`ImplementsRegistry`). `RequestOK` records what is known of a
request at each place: the store is called only as `ServeHTTP` decided, and
before the answer nothing was shown. For the refinement, lemmas say what the
handler decides in each case the registry distinguishes, then each action is
shown to be a registry step or a stutter. `MetricsExact` has three parts, which
are inductive one by one: `GaugesExact`, `CounterComplete` and
`HistogramFollows`, each about the requests that have passed one of the updates
and not the next. The requests counted are compared with the cardinality of
`Counted`, a set with one member for each, since the sum over a bag is a
recursion.

`RotationProofs` proves `RotationEffective` (`[]RotationTakesEffect`) and
`NobodyLockedOut` (`KeepsServing`), for any number of Pods, rotations and
crashes, and for files of any contents and length. `LoadedCurrent` says that a
Pod of the current revision has loaded what the Secret holds, except between the
replacement of the Secret and the restart; `LoadedEither` that any process has
loaded that or what it replaced, and never nothing; `OnlyCurrentPods` that except
during a rollout there are only Pods of the current revision; `PreviousWasLoaded`
that the replaced token was a real one. When a ready Pod of an older revision
goes, a current one is ready, and by `LoadedCurrent` it has the token of a valid
Secret; when the Secret is replaced, the Pods that serve have its token, which
becomes the previous one. The lemmas about `LoadToken` say, without induction
over the file, that it takes a token only from a valid file, that what is loaded
is the file's first line, and that the handler takes the same characters out of
the header.

The inductive invariants were checked with TLC before they were proved.

Assumptions: `SpecAssumption`, `ClusterAssumption`, `OperatorAssumption`,
`ServersAssumption`, `ProcessAssumption`, `APIAssumption`, `ConfigAssumption`
and `RotationAssumption`, which type and bound the constants; TLC evaluates them
on the runs.

Model-checked only: liveness (`EventuallyConverged`, `EventuallyQuiet`,
`ChildrenGoWithIt`, `HandoverConverges`, `EventuallyServes`, `EventuallyReturns`,
`EventuallyGone`, `RotationEnds`), which needs fairness and `ENABLED`, out of the
prover's reach. `Workload` has no theorem, since what it is for is liveness.

## Not modelled

* Several names at a time, rate limiting and backoff as durations.
* The timing of the lease, finalizers of others, watches that skip versions
  (only `Restart` does).
* The operator's flags but for the image, its TLS options, probes and metrics
  server, which are options handed to controller-runtime.
* Request IDs, logs, response sizes and how long a request took; demo-http's
  `NormalizeRoute`, a label.
* Writers of ManagedServices other than the API in `Registry`.
* Manifests, charts, workflows and the Go tests of their text; generated code.

## Plan

1. Proofs: that two managers leave the children of other controllers alone
   (`ForeignChildUntouched` in `Handover`); what every answer of a Pod in
   `Workload` is made of.
2. `Platform`: API and operator composed over one `Cluster`, several names, and
   a client's view from the create to an answering endpoint.
3. Other writers of ManagedServices in `Registry`; a watch that skips versions.
