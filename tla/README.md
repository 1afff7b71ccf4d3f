# A verification of FrameworkController

TLA+ models of FrameworkController (`src/`), the TLC runs that check them on small
instances, and theorems about them that TLAPS checks. FrameworkController is a
Kubernetes controller written in Go: a user creates a *Framework* object, which has
*TaskRoles* with a number of *Tasks*; the controller runs each attempt of a Framework as
a ConfigMap and each attempt of a Task as a Pod, retries, rescales and completes them,
and reports all of it in `Framework.Status`.

File names below are relative to `src/pkg/controller/` (`controller.go`) and
`src/pkg/apis/frameworkcontroller/v1/` (`types.go`, `funcs.go`, `completion.go`,
`config.go`) and `src/pkg/barrier/` (`barrier.go`).
`PROJECT.json` maps each definition to the lines it stands for.

## The system

### Components

| Component | State it keeps | Operations | What makes it correct |
|---|---|---|---|
| Framework status persistence (`syncFramework`, `updateRemoteFrameworkStatus`) | Framework in the ApiServer; local cache; `fExpectedStatusInfos`; the key in `fQueue`; the copy a sync works on | Informer events, `syncFramework`, Update with RetryOnConflict, restart | a sync acts on the persisted Status only; the Status is exposed monotonically; no Spec is reverted or forgotten |
| Framework attempts (`syncFrameworkState`, `deleteFramework`, `*ConfigMap`, `completeFrameworkAttempt`) | FrameworkState, RetryPolicyStatus, ConfigMapUID, CompletionStatus; the ConfigMap in the ApiServer and in the cache; AddAfter timers | create, wait for, delete, complete, retry, stop, retain | the documented lifecycle; one instance per attempt; no leaked ConfigMap; no lost outcome; no hanging |
| Task attempts (`syncTaskState`, `handlePodGracefulDeletion`, `*Pod`, `completeTaskAttempt`) | the same for a Task and its Pod, and DeletionPending, PodGracefulDeletionTimeoutSec | the same, and graceful and forced deletion, scale down | the same, and force deletion only when exposed |
| Rescale and completion policy (`syncFrameworkScale`, `compactFrameworkScale`, `syncFrameworkAttemptCompletionPolicy`) | the TaskRoles and Tasks in Spec and in Status | mark, add, drop and replace Tasks; complete the attempt | Status agrees with Spec where it is used; nothing vanishes unexposed; a Rescale ends |
| Retry policy (`ShouldRetry`) | none | decide | counts stay within the policy |
| Completion codes (`completion.go`) | a list of codes with Pod patterns | match a failed Pod to a code; classify an error of a Pod creation | the first match decides, predefined codes before configured ones; else the last failed container's code |
| Object consistency over attempts | one ConfigMap name and one Pod name per Task, reused by all attempts | the same operations on all of them, and handlers that look up owners | ConsistencyGuarantee2 and 3 of the user manual; no event is lost on its way to the key |
| FrameworkBarrier (`barrier.go`) | none but the files it writes | poll until all Tasks are ready, then exit with a code | the addresses it injects are those of current Pods; once open, it stays so; its exit codes are honoured |
| Work queue and handlers | dirty, processing and delayed keys | Add, AddRateLimited, AddAfter, Done | one worker per key; no key lost |
| Configuration, CRD, snapshots in the log, utilities, generated client | none after the start | | |

### How they interact

Three Informers (Framework, ConfigMap, Pod) fill local caches and call handlers, which
enqueue the key of the Framework that owns the object. Workers take keys and run
`syncFramework` on the *cached* Framework, with the Status replaced by the *expected* one
in memory. A sync may create and delete ConfigMaps and Pods by remote calls; at its end
the new Status is written. A Status that is needed for an effect (a new attempt, a
completion, a DeletionPending mark) is persisted by one sync, and the effect is made by
the next one, for which the first enqueues the key. Timeouts are `AddAfter` of the key,
with the decision made again when the key is synced.

The Pods of a Framework may have FrameworkBarrier as an init container. It reads the
Framework object, that is what the controller persisted of its Status, and talks back only
by its exit code: the controller matches it to a CompletionCode, and the RetryPolicy to a
retry.

### What is hard

- The caches lag behind the ApiServer, skip versions, and lag differently.
- A remote call may take effect and lose its answer; a write may conflict.
- A restart keeps the ApiServer's state only.
- Others delete ConfigMaps and Pods, and create a Framework again under its name.
- The user writes the Spec at any moment: Stop, or another Rescale before the last is through.
- Timeouts race the events that they wait for.
- Only some events enqueue the key, so each place that waits needs one that will come.
- The names of objects are reused by later attempts, while objects of earlier ones, their
  events, and their owners in the cache come and go in any order.
- The barrier counts Tasks in a Status that is in the middle of a Rescale or of a retry.

`PROJECT.json` lists the hazards at their lines, with the properties about each.

## The modules

    FrameworkStatusSync      syncFramework: cache, expected Status, writes
      FrameworkStatusSyncProofs                             its theorems
      FrameworkAttempt       a Framework and its ConfigMap (instantiates it)
        ==implements==> FrameworkLifecycle                  (abstract)
        FrameworkAttemptProofs                              its theorems
                             (instantiates FrameworkStatusSyncProofs)
    TaskAttempt              a Task and its Pod
      TaskAttemptProofs                                     its theorems
    FrameworkScale           Tasks and TaskRoles while the user rescales
      FrameworkScaleProofs                                  its theorems
    FrameworkConsistency     the ConfigMap and the Pods over several attempts
      FrameworkConsistencyProofs                            its theorems
    CompletionCodes          Pod failures to codes
      CompletionCodesProofs                                 its theorems
      FrameworkBarrier       the barrier, the controller and the kubelet
        FrameworkBarrierProofs                              its theorems
                             (extends CompletionCodesProofs)
    RemoteCalls              outcomes of create and delete: used by FrameworkAttempt,
                             TaskAttempt and FrameworkConsistency
      RemoteCallsProofs      lemmas on them, used by the proofs of those three
    RetryPolicy              used by FrameworkAttempt, TaskAttempt and FrameworkBarrier

### FrameworkStatusSync

`syncFramework` around `syncFrameworkStatus`, for one Framework name. `remote`, `cached`
and `pending` are the object in the ApiServer, in the Informer's cache, and the versions
in between. `expected` is `fExpectedStatusInfos[key]` and `f` the copy a sync works on.
`pc` is where the sync is: `push` (the expected Status must be written first), `body`
(`syncFrameworkStatus`) and `persist`. What the body computes is left open: `Body` moves
the Status to any later one of a partial order, a parameter of the module.
`UpdateStored`, `UpdateConflict` and `UpdateFailed` are the outcomes of one Update call
in `RetryOnConflict`; `UpdateStored(FALSE)` is a stored write whose answer is lost. A
Status carries the UID it was computed for, and `userSpec` and `synced` are histories that
properties use.

### FrameworkAttempt and FrameworkLifecycle

`FrameworkAttempt` instantiates `FrameworkStatusSync` and fills in its `Body` by
`syncFrameworkState`: each branch of that function is an action (`SyncNewFramework`,
`SyncCompleted`, `SyncAttemptCompleted`, `SyncConfigMapNil`, `SyncConfigMapAlive`,
`SyncConfigMapDeleting`), guarded as in the code and with the remote calls it makes. It
adds the ConfigMap, its Informer, and timeouts (`due`: the timeout of the present state is
over; `timer`: an AddAfter is pending). `deleteFramework` confirms by reading, so that
its call and the check after it are two steps (`DeleteFrameworkCall`, `SyncCompleted`).

`FrameworkLifecycle` is what is promised to a client who watches the Framework object: the
transitions listed with `FrameworkState` in `types.go`, the states which a sync may pass
without exposing them, and that the identity and the outcome of an attempt never change.
`ImplementsLifecycle` is the refinement: the abstract variables are the fields of the
Framework in the ApiServer.

### TaskAttempt

`syncTaskState` for one Task, in the same way. A sync is one step that takes the Status
from `f` to its next value and makes its remote calls; `Persist` is the write at its end.
This is sound because of `SyncsAgainstPersisted`, which the first module establishes for
the whole Status. The completion of the FrameworkAttempt by another Task (`Completing`)
can happen in front of any sync, and any event of the Framework can enqueue the key.
`RemoteCalls` gives the possible outcomes of Create and Delete with a UID precondition and
of the confirmation, and is shared with `FrameworkAttempt`.

### FrameworkScale

Several TaskRoles, whose Spec the user replaces at any time. A sync has three places:
`StartSync` is `syncFrameworkScale` and `compactFrameworkScale`, `SyncPolicy` the
completion policy, and `SyncTask` one call of `syncTaskState` each. A Task's attempt is
reduced to what Rescale and the policy look at. Instances are numbered, which the code
does not do: the history by which `RemovedOnceExposed` and `ScaleDownCommitted` tell
instances apart.

### FrameworkConsistency

What `FrameworkAttempt` and `TaskAttempt` look at one by one, composed: one ConfigMap
name and, under it, one Pod name per Task, over several FrameworkAttempts and
TaskAttempts. `next` is where the sync is: `StartSync` is `syncFrameworkState` up to the
Tasks, each `SyncTask(t)` one call of `syncTaskState`, and `EndSync` the write of the
Status. Between them the Informers, the garbage collector, the kubelets and other clients
go on, so that a sync uses a ConfigMap that it read at its start. A Pod carries the UID of
its owner, and the handlers enqueue the key only if that owner is in the cache
(`HasOwner`). `orphan` is a history: the owner was gone when the Pod was created.
When to retry and when to complete are choices here, the other two modules' business.

### CompletionCodes

`MatchCompletionCodeInfos` and what it calls, `ClassifyPodCreationError`, the predefined
codes with their types, as operators. A regular expression is the set of strings in
which it finds a match. `IsPodFailureSpec` is what `NewConfig` accepts. The loop over the
containers that looks for the last failed one is the set `LastFailed`, which has that
container as its only member.

### FrameworkBarrier

Three actors. The barrier of each Pod: `BarrierMisconfigured`, `BarrierPasses` and
`BarrierFails` are the ways that `Run` ends. The kubelet runs the containers and evicts
Pods. The controller rescales, creates Pods, reports PodIPs, completes, retries and
replaces Tasks, each as one persisted step; only the UIDs of created Pods are persisted
later (`created`), and may be lost. A Task that ends takes its code from
`CompletionCodes` and its retry from `RetryPolicy`, so that an exit code of the barrier is
followed to what becomes of the Task. Two things are assumed of the kubelet: a PodIP is
not taken back once it is reported, and a Pod that ran a container had one.

### RetryPolicy

`RetryPolicySpec.ShouldRetry`, as one operator.

Definitions marked "a mutant" in the modules are no part of a specification: each is a
plausible mistake in the definition before or after it, which the property that is about
it is shown to catch (`PROJECT.json`, "mutants").

## The runs

| Run | Shows | Instance |
|---|---|---|
| `status_sync` | Status persistence, safety and liveness | 2 Specs, 3 Statuses, 2 incarnations, no user edit after version 4, 2 Update tries, 1 restart: 136 k states |
| `attempt` | lifecycle refinement, order of persistence and deletion, no ConfigMap leak, retry counts | Create, Start and Stop, MaxRetryCount 1, attempts 0..2, 1 restart, 1 lost answer to a create, 1 undelivered version: 1.25 M |
| `attempt_live` | no hanging; a Stop completes the Framework | Start and Stop, MaxRetryCount 1, attempts 0..1 |
| `scale` | Rescale, safety | TaskRoles a (2 or 1 Tasks) and b (1), 3 edits, Task retries or restarts: 1.8 M |
| `scale_live` | Rescale ends | TaskRole a with 2, 1 or 0 Tasks, 3 edits, retries or restarts: 103 k |
| `task` | Pod leak, outcome, force deletion, retry counts | FancyRetryPolicy, attempts 0..2, 1 edit, 1 lost answer, 1 restart: 4.4 M |
| `task_live` | no hanging, ScaleDown ends | attempts 0..1, 1 edit: 294 k |
| `consistency` | at most one instance, over attempts; no lost event | 1 Task, 2 FrameworkAttempts of 2 TaskAttempts, others delete, 1 lost answer, 1 restart: 1.6 M |
| `barrier` | the barrier against Rescale, retries and failures; its exit codes | TaskRoles a and b with 1+1 or 2+0 Tasks, 3 Pods, 2 faults, MaxRetryCount 1, a configured pattern for codes 128..255: 1.1 M |
| `stop_retry`, `others`, `guarantee4` | findings, below | |

Why the bounds are enough for the cases of interest: each property needs at most one
restart and one lost answer to break (its mutant does with that); two incarnations are
what it takes to confuse objects of one name; two attempts let a retry follow a retry,
and three values of a Status an old, an expected and a next one; three events let a user
take back a Rescale and change it again while the first is under way. In `barrier` the
Specs move a Task from one TaskRole to the other, so that the number of Tasks is the
same while the Tasks are not; the configured pattern overlaps the exit codes 200, 201 and
210. `MaxVersions`, `MaxUid`, `MaxCrashes`, `MaxAttempt`, `MaxTaskAttempt`, `MaxEdits`,
`MaxLag`, `MaxLost`, `MaxEvents`, `MaxPods` and `MaxFaults` are the bounds; each is in the
guard of the actions it bounds and explained where it is declared. `MaxLag` bounds how
far a cache is behind, not whether it is.

The properties of `consistency` also hold on two larger instances, too slow to keep: two
Tasks without faults (5.1 M states), and two Tasks without retries but with one restart
(2.3 M). So does `TypeOK` of `FrameworkAttempt` on the instance of `attempt`, whose run
keeps the properties that say more; and so do the properties of `attempt_live` with one
restart and one attempt (249 k), since restart and retry together are too slow there.

Two things follow from the bounds. Safety runs say nothing about longer histories; the
theorems below do, for each safety property of a passing run. And a retry beyond `MaxAttempt` is not taken,
so that `NeverStuck` is checked with a `MaxRetryCount` that `MaxAttempt` accommodates.
Deadlock is not checked where the bounds end the behaviours or a completed object is
at rest.

**Views.** `MCFrameworkAttempt` and `MCTaskAttempt` use a VIEW that identifies states
which differ in what no action and no property distinguishes: versions but for their
order (`MaxVersions` is out of reach there), the history `synced`, what the phases of a
Pod that is gone were. Each view is a bisimulation for the module's actions, so that the
quotient has the same behaviours, and temporal properties keep their meaning.

### Fairness

- `WF` of delivery, of the worker and of the timers: goroutines of a live process that
  nothing blocks. A worker's sync ends because each remote call returns.
- `SF` of a successful Update and of a sync without failing calls
  (`SyncBody(World(FALSE))`, `Sync(World(FALSE))`): the key of a failed sync is added
  again, rate limited, without a limit of tries, so the call is made again and again; it
  is assumed not to fail each single time. Weak fairness would not do: between two tries
  the worker is elsewhere, and the step is not enabled.
- `WF` of the garbage collector (`FrameworkAttempt`): it deletes ConfigMaps whose owner
  is gone or being deleted and removes what has no dependents. A Stop depends on it.
- Nothing is assumed of users, other clients, nodes (`TaskAttempt`: a Pod may
  stay deleting for ever) or restarts. `FrameworkScale` assumes that a deleting Pod goes,
  which is what `ScaleDownEnds` of `TaskAttempt` is for.
- `FrameworkConsistency` and `FrameworkBarrier` state safety only.
- In `FrameworkScale` others move between syncs only, since their steps commute with
  those within one; `SF` makes up for the steps that a running sync disables there.

### What the runs found

1. `stop_retry`: `types.go` says that with ExecutionStop there is no retry. A retry that
   is already scheduled is executed at once instead, and counted; the new attempt is then
   stopped. `FrameworkCompleted` is reached all the same (`attempt_live`).
2. `others`: an attempt whose ConfigMap the controller deleted itself, because of a Stop
   or of the creation timeout, can be completed as ConfigMapExternalDeleted, "ConfigMap is
   being deleted by others": the confirmed deletion fails while finalizers keep the
   object, without a CompletionStatus, and the next sync sees an object being deleted.
3. `guarantee4`: the user manual promises that no instance of a completed Framework runs
   unless somebody deletes by force or without foreground propagation. The controller
   alone breaks this for a while: on a creation timeout `deleteConfigMap` deletes the
   ConfigMap and fails to confirm it; then the cache gets the version that was alive, the
   attempt goes on, and `createPod` makes a Pod whose owner is gone. The removal of the
   ConfigMap completes the attempt by force while the Pod runs, until the garbage
   collector takes it. `ConsistencyGuarantee2` and `3` show that this is the only way.

Two more places where the words say more than the code, which are no runs:

- A Task in `TaskAttemptCompleted` is retried while it is DeletionPending or its
  FrameworkAttempt is completing, which the comment of `stop_retry` excludes too. The
  behaviours are in `TaskAttempt`.
- `barrier.go` says at its head that AppContainers start "only after its PodUID is
  persisted in the Framework object". The barrier looks at the Tasks of the Spec only, so
  the Pod of a Task that was scaled out may start before; hence `InSpec` in
  `StartsAfterPersisted`. Likewise all-or-nothing has its exceptions, which
  `AllOrNothing` names: a Rescale, and a Task that is retried or replaced after others
  went through.

## The proofs

Each invariant and each safety action property of a passing run is a theorem, and so is
the refinement of `FrameworkLifecycle`: they hold for every value of the constants that
the assumptions of the modules allow, hence for histories, numbers of objects and
configurations of any size, where the runs check an instance.

The assumptions are named where the constants are declared, and the runs evaluate them.
Those on bounds (`BoundAssumption`, `AttemptBoundAssumption`, `TaskBoundAssumption`, and
parts of `ConsistencyAssumption` and `ScaleAssumption`) say that a bound is a number; as it
may be any, a theorem is about behaviours of any length. The others
say what the code validates or a type of it guarantees: a RetryPolicy has an int32 and a
bool, the TaskRoles of a Spec are finitely many, `NewConfig` accepts the PodFailureSpec.

The shape is the same everywhere. A module `XProofs` states an invariant `Inv`, of
which the checked properties are parts or consequences, proves that `Init` implies it and
that each action keeps it (a lemma for each action, or for each branch of the handler),
and derives the theorems. The properties are about what the controller *did*, while
its decisions are taken on caches, copies and expected values; what `Inv` adds to
them is how those relate to the ApiServer. None of the properties is inductive
without that, but for `CompletionCodeAsDocumented`, which is about what a function
returns and follows from `TypeOK`.

### FrameworkStatusSyncProofs

It proves for every value of the constants (any Specs, any
Statuses with any reflexive and transitive order, any number of incarnations, restarts,
versions and conflicts) that `Safety` implies `TypeOK`, `SyncsAgainstPersisted`,
`SpecNeverReverted`, `StatusOfOwnIncarnation` and `MonotonicallyExposed`. The assumptions
are those the module states: `NoSpec` is no Spec, the order is one, the bounds are numbers.

None of these is inductive. That a sync acts on the persisted Status depends on what
`expected` says of a Status whose write failed, or whose cached version is old, several
steps before. The inductive invariant `Inv` (in `FrameworkStatusSync`) is the conjunction of

- `VersionsOrdered`: versions are numbered in the order they were stored, and one number
  is one object: an accepted Update had the newest Spec;
- `IncarnationsOrdered`: UIDs are not reused, and the known versions of one are contiguous;
- `StatusesOwned`: a Status belongs to the UID it was computed for, in each place;
- `ExpectedAhead`: an entry for the present incarnation is at or after the remote Status,
  and equals it if it says so; without an entry nobody has written this incarnation's
  Status since the cache learnt of it, so that the cached Status may be taken for the remote one;
- `WorkerConsistent`: what `f` is at each place of a sync;
- `SpecNeverReverted`, which the proof of an accepted Update needs of the step before.

There is a lemma for each action, and in it a step for each conjunct it can disturb.
`MonotonicallyExposed` is an action property: the only step that changes a Status is
`UpdateStored`, and `ExpectedAhead` and `WorkerConsistent` put the written one at or after
the remote one.

### RemoteCallsProofs

Lemmas on the outcomes of a call, for any object: a Delete changes at most the object of
its UID (`DeleteEnds`), a Create adds one with the next UID to a name that is free, a call
that fails may have had its effect. `InOrder` is what the versions in and before a
cache are: older than the object, and the last one is not missed. `FrameworkAttempt`,
`TaskAttempt` and `FrameworkConsistency` apply them to ConfigMaps and Pods.

### FrameworkAttemptProofs

`NoConfigMapLeak`, `DeletedAfterPersisted`, `DeletionRequestedIsTrue`,
`RetriesWithinPolicy` and type correctness, for any RetryPolicy, ExecutionTypes and bounds.

`FrameworkAttempt` instantiates `FrameworkStatusSync`, and `FrameworkAttemptProofs`
instantiates its proofs: each step here is a step of `FrameworkStatusSync`, or leaves
its variables alone (`SyncSteps`), so that its invariant carries over and with it
`SyncsAgainstPersisted`, `SpecNeverReverted` and `StatusOfOwnIncarnation`
(`StatusSyncHolds`). Without that the rest could not be proved: what a sync does to the
ConfigMap is right only since the Status it works on is the persisted one. `Inv` adds

- `Sound`: what a Status says of the ConfigMap in the ApiServer and in the cache; say,
  that one in DeletionRequested has a ConfigMap that is no longer alive. It is
  about the Status in the ApiServer, the expected one and the one a sync works on alike,
  as each of them may become the persisted one;
- `Follows`: the latter two are at most one exposed transition ahead of the first;
- `Fresh`: a worker whose Framework is gone may still create and delete ConfigMaps, but
  then nothing has been written for the next Framework of the name;
- `InOrder`: the versions of the ConfigMap reach the cache in their order.

The calls of a sync make the ConfigMap older (`Called`), which keeps what the Statuses say
of it; then each branch of `syncFrameworkState` is shown to move to a Status that `Sound`
and `Follows` allow (`MayMove`).

`ImplementsLifecycleHolds` is the refinement, step by step: only a stored Update and a
creation or deletion of the Framework change what a client sees. `Follows` is exactly what
makes a stored Update a step of `FrameworkLifecycle`, whose `Exposes` lists the
documented transitions with those that a sync passes through.

### TaskAttemptProofs

`TypeOK`, `NoPodLeak`, `DeletedAfterPersisted`, `DeletionRequestedIsTrue`,
`RetriesWithinPolicy`, `ExposedOnce` and `ForcedOnlyIfExposed`, for any RetryPolicy, failure codes
and bounds. `Inv` has the same parts for the Pod: `Ordered`, `Sound` of the persisted
TaskStatus and of the one a sync works on, and `Follows` between the two. That an
attempt that is over has no Pod is part of `Sound`, and rests on the confirmation that the
code asks the ApiServer for; that it has not forgotten one is that the Pod
of the last UID is the one that its Status or its cache knows. The two action properties
are proved with the invariant, step by step (`Promises`): an outcome is set once, and
a Pod is forced only with a timeout that is persisted.

### FrameworkScaleProofs

`TypeOK`, `ScaleEffective`, `CompletedWithinTotal`, `PodsAreExposed`,
`ScaleDownCommitted` and `RemovedOnceExposed`, for any TaskRoles, Specs (each with finitely
many TaskRoles), completion policies and bounds. A sync changes its copy `f` of the Status
in many steps, and may be cut short by a restart after each. `Inv` says of the copy and
the persisted Status

- `Committed`: what the copy has lost were droppable Tasks, no mark is taken back from an
  instance, and new instances have new numbers (`GensAhead`);
- `IsRemembered`, once the sync has come to the policy and the Tasks: the copy
  has no instance and no mark that is not persisted, since otherwise the sync has ended
  (`MustWait`);
- `UnsyncedAsPersisted`: a Task that is still to be synced is as it is persisted, so that
  what the sync does to its Pod is decided on what users see;
- `PodsFit`: a Pod is that of a Task instance which is not over.

`CompletedWithinTotal` is an argument on cardinalities: with `ScaleEffective` the completed
Tasks are a part of those of the Spec, whose number is the sum over the TaskRoles. That
`compactFrameworkScale` finds the length to keep is shown by taking the least one
(`KeptLengthExists`).

### FrameworkConsistencyProofs

`TypeOK`, `ConsistencyGuarantee2`, `ConsistencyGuarantee3` and `NoEventLost`, for any
number of Tasks and attempts, faults and restarts. `Inv` adds

- `InOrder` for the ConfigMap and for the Pods of each name, whose versions of one UID
  agree on their owner;
- `Owned`: a Pod whose owner does not hold it is an orphan. A ConfigMap stays while it
  has Pods that were created while it was there;
- `Fit`: what the saved FrameworkStatus and the one in memory say of the ConfigMap, the
  Pods and both caches;
- `InSync`: until a sync comes to a Task, it knows of it what is saved;
- `Queued`: the key is queued unless nothing in the caches calls for a sync. A version
  that is on its way finds its owner in the cache when it arrives, and enqueues the key; that is
  why `NoEventLost` needs `Fit`.

### CompletionCodesProofs

`MatchedAsDocumented`: the code that a failed Pod is matched to is what the user manual
promises, for all containers and any PodFailureSpec that `NewConfig` accepts. The
predefined infos come first and each matches as soon as a container exited with its code
(`PredefinedMatches`); else the first configured info that matches decides, and
else the last failed container, which exists if one failed (`LastFailedExists`: the
shortest prefix of the containers that has a failed one but no last one is
contradictory). `PredefinedDecides`: what is predefined cannot be configured away.

### FrameworkBarrierProofs

`TypeOK`, `InjectsCurrentPods`, `StartsAfterPersisted`, `AllOrNothing`,
`BarrierExitHonoured` and `CompletionCodeAsDocumented`, for any TaskRoles and TaskNumbers, any
Specs, any accepted PodFailureSpec, any ends of containers, any MaxRetryCount, any
number of Pods and faults. The assumptions are `BarrierAssumption` (the TaskRoles are
finitely many, the Specs give each a TaskNumber up to the largest one),
`ContainersAssumption` (containers are ContainerStatuses) and `PodFailureSpecAssumption`.

- `InjectsCurrentPods` is about the peers that a Pod is told of. That an open barrier has a
  ready Task for each of the Spec is counting: `ReadyTasks` is a part of `TasksOfSpec`,
  which is finite, so as many of the one as of the other means all (`PassedIsAllReady`).
  That the PodIP of a ready Task is the one of the Pod that the Status names, and that this
  is the last Pod of its name, needs an invariant. `Inv` adds to `TypeOK`
  - `IPsArePersisted`: a Task with a PodIP has a PodUID, and that is the one of the last
    Pod of its name. Without the reset in `NewAttempt` a retried Task would keep the
    PodIP of a Pod that is gone; without the comparison of UIDs in `ReportIP` a Task would
    have that of a Pod whose creation lost its answer, and which is deleted next;
  - `CreatedHaveUIDs`: what is to be persisted is a UID.
- `StartsAfterPersisted` is an action property. Only `BarrierPasses` starts AppContainers
  (`OnlyBarrierStartsApp`), and then the Task of the Pod is ready, so that `Inv` says that
  the Status has its UID.
- `AllOrNothing`: each step that changes the Status leaves a ready Task of the Spec ready,
  unless it retries it (`StaysReady`). A retry takes the PodUID away, which with
  `IPsArePersisted` a ready Task had; a Rescale replaces and drops droppable Tasks
  only (`RescaledTask`), and those are not ready.
- `CompletionCodeAsDocumented`: `TypeOK` says of each CompletionStatus how it came about, and
  `MatchedAsDocumented` what follows for its code.
- `BarrierExitHonoured`: only the decision about a Task ends its attempt
  (`OnlyDecisionEndsAttempt`); a first container that failed is a barrier that exited
  (`FirstFailedIsBarrier`); its predefined codes are matched before anything configured
  (`BarrierExitMatched`), and `Decisions` is what `ShouldRetry` makes of their types. The
  proof showed what a run with one PodFailureSpec could not: an unknown exit (1)
  counts as a retry only if no configured PodPattern matches it, say one for a
  transient code. The property now says so (`IsConfigured`).
- `TypeOK` has a lemma for what a Rescale does to a TaskRole (`ScaledType`,
  `CompactedType`), and says of each completed Task that it has a CompletionStatus.

### What is only model-checked

- Liveness: `SpecEventuallySynced`, `ExpectedEventuallyPersisted`, `NeverStuck` (of
  Frameworks and of Tasks), `StopCompletes`, `RescaleCompletes`, `ScaleDownEnds`. They
  need fairness and ENABLED, which are beyond the prover.
- The three properties of the findings, which do not hold.
- That the models' bounds cut off nothing but length: a theorem is about the actions with
  their guards on bounds, whatever the bounds are.

## What is not modelled

- The transition times by which the completion policy picks the first Task that
  triggered it, in `FrameworkScale`.
- Diagnostics and phrases of a completion; what a regular expression looks like.
- What the barrier writes to its files, but that it may fail to, and whose addresses it has.
- How long a back-off is: `BarrierExitHonoured` is about whether a Task is retried and what
  that counts for. The delay of a Task is 0; that of a Framework is drawn from the
  configuration, and only its end is modelled.
- Graceful deletion timeouts of different lengths: in `TaskAttempt` one is set or not.
- Compression of the Status (inverse conversions), logging, snapshots, utilities,
  reading the configuration but for what it refuses in a PodFailureSpec, the CRD:
  sequential code without state after the start, in which no two steps meet.
- `fQueue`: client-go guarantees that one key is not processed twice at once.
- A Spec that changes its RetryPolicy or completion policy of a running attempt, in
  `FrameworkAttempt` and `TaskAttempt` (in `FrameworkScale` the completion policy does change).
- Objects of the same name that are not controlled by the Framework.
- A delay before a Task's retry: it is 0 in the code, and over at once in the models.

## Plan

Done, in this order: `FrameworkStatusSync` and its proofs, `FrameworkAttempt` with its
abstract specification, `TaskAttempt`, `FrameworkScale`, the composition of the ConfigMap
and the Pods (`FrameworkConsistency`), the matching of failures (`CompletionCodes`),
`FrameworkBarrier`, and the proofs about each of them. Left:

1. **Proofs**: an abstract specification of a Task, as `FrameworkLifecycle` is of a
   Framework, with `TaskAttempt` shown to implement it; that each `SyncTask` of
   `FrameworkScale` is what `TaskAttempt` exposes of a Task; `ShouldRetry` against the
   table of the user manual.
2. **Completion policy and retry policy against reference definitions**: the comments of
   `RetryPolicySpec` and `CompletionPolicySpec` as declarative definitions, equal to the
   code's order of tests over all small inputs; with CompletionTimes.
3. **Liveness of the barrier**: a Framework whose Pods all start gets through.
4. **Work queue**: the dirty and processing sets with two workers, as external.
5. The Task side of `stop_retry`.
