------------------------ MODULE FrameworkConsistency ------------------------
(***************************************************************************)
(* The objects of one Framework over its attempts: one ConfigMap name, and *)
(* under it one Pod name per Task.  FrameworkAttempt and TaskAttempt look  *)
(* at each alone; here they are composed, because a ConfigMap owns the     *)
(* Pods of its attempt, the next attempt reuses all names, and Pod events  *)
(* reach the Framework only through the ConfigMap in the local cache.      *)
(*                                                                         *)
(* A sync reads the ConfigMap once and then goes through the Tasks, while  *)
(* the Informers, the garbage collector, the kubelets and other clients    *)
(* keep going between its calls.                                           *)
(*                                                                         *)
(* Scope.  Preparing is part of Running, and DeletionRequested of          *)
(* Deleting.  Whether a retry is due or the completion policy triggers is  *)
(* a choice (RetryPolicy, FrameworkScale).  The Framework object stays,    *)
(* its Spec does not change, and no Pod is deleted by force.  The garbage  *)
(* collector removes a ConfigMap after its Pods, as its finalizer asks     *)
(* (NewConfigMap).                                                         *)
(***************************************************************************)
EXTENDS Integers, FiniteSets, RemoteCalls

CONSTANTS
  TaskNumber,
  OthersDelete,    \* what other clients delete, gracefully
  MaxAttempt,      \* bound: the last FrameworkAttemptID
  MaxTaskAttempt,  \* bound: the last TaskAttemptID
  MaxLag,          \* bound: versions of an object its watch is behind
  MaxLost,         \* bound: only one of the first MaxLost creates loses its answer
  MaxCrashes       \* bound: restarts of FrameworkController

VARIABLES
  f,          \* the FrameworkStatus in memory
  saved,      \* the one in the ApiServer
  next,       \* the Task that the sync comes to next; 0: no sync; else the end
  queued,     \* the key waits in fQueue
  cm, cmCached, cmPending,       \* the ConfigMap, as in FrameworkAttempt
  pods, podsCached, podsPending, \* by Task: the Pod, as in TaskAttempt
  crashes

ASSUME ConsistencyAssumption ==
  /\ TaskNumber \in Nat \ {0}
  /\ OthersDelete \subseteq {"ConfigMap", "Pod"}
  /\ MaxAttempt \in Nat /\ MaxTaskAttempt \in Nat /\ MaxCrashes \in Nat

Tasks == 1 .. TaskNumber

statusVars == <<f, saved, next, queued>>
cmVars == <<cm, cmCached, cmPending>>
podVars == <<pods, podsCached, podsPending>>
vars == <<statusVars, cmVars, podVars, crashes>>

States == {"CreationPending", "CreationRequested", "Running", "DeletionPending",
           "Deleting", "AttemptCompleted", "Completed"}

\* The UID of the object is 0 while it is nil.
TaskStatus == [state : States, attempt : 0 .. MaxTaskAttempt, pod : Nat]

Status == [state : States, attempt : 0 .. MaxAttempt, cm : Nat,
           tasks : [Tasks -> TaskStatus]]

NewTaskAttempt(attempt) ==
  [state |-> "CreationPending", attempt |-> attempt, pod |-> 0]

NewAttempt(attempt) ==
  [state |-> "CreationPending", attempt |-> attempt, cm |-> 0,
   tasks |-> [t \in Tasks |-> NewTaskAttempt(0)]]

\* by: whether its deletion was requested (by whom is FrameworkAttempt's question)
ConfigMap == [uid : Nat, phase : Phases, by : {"nobody", "someone"}]

\* owner: the ConfigMap.  orphan: history, its owner was gone when it was created.
Pod == [uid : Nat, phase : Phases, owner : Nat, orphan : BOOLEAN,
        by : {"nobody", "someone"}]

NoConfigMap == [uid |-> 0, phase |-> "gone", by |-> "nobody"]

NoPod == [uid |-> 0, phase |-> "gone", owner |-> 0, orphan |-> FALSE, by |-> "nobody"]

TypeOK ==
  /\ f \in Status /\ saved \in Status
  /\ next \in 0 .. TaskNumber + 1
  /\ queued \in BOOLEAN
  /\ cm \in ConfigMap /\ cmCached \in ConfigMap /\ cmPending \subseteq ConfigMap
  /\ pods \in [Tasks -> Pod] /\ podsCached \in [Tasks -> Pod]
  /\ podsPending \in [Tasks -> SUBSET Pod]
  /\ crashes \in 0 .. MaxCrashes

Init ==
  /\ f = NewAttempt(0) /\ saved = f
  /\ next = 0
  /\ queued = TRUE
  /\ cm = NoConfigMap /\ cmCached = NoConfigMap /\ cmPending = {}
  /\ pods = [t \in Tasks |-> NoPod] /\ podsCached = pods
  /\ podsPending = [t \in Tasks |-> {}]
  /\ crashes = 0

IsCompleting(v) == v.state \in {"DeletionPending", "Deleting"}

-----------------------------------------------------------------------------
(* The objects in the ApiServer *)

\* Any call may fail.
ConfigMapWorld == [obj |-> cm, watch |-> cmPending, failing |-> TRUE]

PodWorld(t) == [obj |-> pods[t], watch |-> podsPending[t], failing |-> TRUE]

EnterConfigMap(w) ==
  /\ cm' = w.obj
  /\ cmPending' = w.watch
  /\ UNCHANGED <<cmCached, podVars>>

EnterPod(t, w) ==
  /\ pods' = [pods EXCEPT ![t] = w.obj]
  /\ podsPending' = [podsPending EXCEPT ![t] = w.watch]
  /\ UNCHANGED <<podsCached, cmVars>>

NoDependents(uid) == {}   \* a mutant: ConfigMaps without the finalizer

Dependents(uid) == {t \in Tasks : Present(pods[t]) /\ pods[t].owner = uid}

\* deleteConfigMap: it stays while it has Pods.
DeleteConfigMapResults(w, u) ==
  {r \in DeleteResults(w, u, "someone") :
     Present(w.obj) /\ ~Present(r.w.obj) => Dependents(w.obj.uid) = {}}

CreateConfigMapResults(w) ==
  CreateResults(w, [uid |-> w.obj.uid + 1, phase |-> "alive", by |-> "nobody"], MaxLost)

\* createPod.  The ApiServer does not look whether the owner exists.
CreatePodResults(w) ==
  CreateResults(w, [uid |-> w.obj.uid + 1, phase |-> "alive", owner |-> f.cm,
                    orphan |-> ~(Present(cm) /\ cm.uid = f.cm), by |-> "nobody"],
                MaxLost)

-----------------------------------------------------------------------------
(* syncFrameworkState up to the Tasks *)

\* The rest of the sync is skipped.
Finish(v, again) ==
  /\ f' = v
  /\ next' = TaskNumber + 1
  /\ queued' = again
  /\ UNCHANGED <<saved, crashes>>

\* A failed call: the key is added again, rate limited.
Fail(w) == EnterConfigMap(w) /\ Finish(f, TRUE)

\* completeFrameworkAttempt by force, which completes the Tasks too
CompleteByForce ==
  Finish([f EXCEPT !.state = "AttemptCompleted",
                   !.tasks = [t \in Tasks |-> [f.tasks[t] EXCEPT !.state = "Completed"]]],
         TRUE)

SyncAttemptCompleted ==
  /\ f.state = "AttemptCompleted"
  /\ \/ f.attempt < MaxAttempt /\ Finish(NewAttempt(f.attempt + 1), TRUE)
     \/ Finish([f EXCEPT !.state = "Completed"], FALSE)
  /\ UNCHANGED <<cmVars, podVars>>

SyncCompleted ==
  /\ f.state = "Completed"
  /\ Finish(f, FALSE)
  /\ UNCHANGED <<cmVars, podVars>>

HasConfigMap == f.state \notin {"AttemptCompleted", "Completed"}

\* getOrCleanupConfigMap(f, false)
ManagedConfigMapPhase == IF cmCached.uid = f.cm THEN cmCached.phase ELSE "gone"

ConfigMapCleanups(w) ==
  IF Present(cmCached) /\ cmCached.uid # f.cm
    THEN DeleteConfigMapResults(w, cmCached.uid)
    ELSE {[w |-> w, ok |-> TRUE]}

\* It is deleted and confirmed once it is overdue in the local cache.
SyncCreationRequested(w) ==
  /\ f.state = "CreationRequested"
  /\ \/ EnterConfigMap(w) /\ Finish(f, FALSE)
     \/ \E r \in DeleteConfigMapResults(w, f.cm) :
          \/ Confirmed(r, f.cm) /\ EnterConfigMap(r.w) /\ CompleteByForce
          \/ ~Confirmed(r, f.cm) /\ Fail(r.w)

SyncCreationPending(w) ==
  /\ f.state = "CreationPending"
  /\ \E r \in CreateConfigMapResults(w) :
       \/ /\ r.ok /\ EnterConfigMap(r.w)
          /\ Finish([f EXCEPT !.state = "CreationRequested", !.cm = r.w.obj.uid], FALSE)
       \/ ~r.ok /\ Fail(r.w)

\* It was in the local cache, and is no more.
SyncConfigMapGone(w) ==
  /\ f.state \notin {"CreationPending", "CreationRequested"}
  /\ EnterConfigMap(w)
  /\ CompleteByForce

SyncConfigMapNil(w) ==
  /\ HasConfigMap /\ ManagedConfigMapPhase = "gone"
  /\ \E r \in ConfigMapCleanups(w) :
       \/ ~r.ok /\ Fail(r.w)
       \/ /\ r.ok
          /\ \/ SyncCreationRequested(r.w)
             \/ SyncCreationPending(r.w)
             \/ SyncConfigMapGone(r.w)

\* The completion policy may complete the attempt before the Tasks are gone through.
SyncTasks(v) ==
  /\ next' = 1
  /\ \/ f' = v /\ queued' = FALSE
     \/ /\ ~IsCompleting(v)
        /\ f' = [v EXCEPT !.state = "DeletionPending"] /\ queued' = TRUE
  /\ UNCHANGED <<saved, crashes>>

SyncConfigMapAlive(w) ==
  /\ HasConfigMap /\ ManagedConfigMapPhase = "alive"
  /\ \/ /\ f.state = "DeletionPending"
        /\ \E r \in DeleteConfigMapResults(w, f.cm) :
             \/ ~r.ok /\ Fail(r.w)
             \/ r.ok /\ EnterConfigMap(r.w) /\ SyncTasks([f EXCEPT !.state = "Deleting"])
     \/ /\ f.state # "DeletionPending"
        /\ SyncTasks(IF f.state = "Deleting" THEN f ELSE [f EXCEPT !.state = "Running"])
        /\ EnterConfigMap(w)

SyncConfigMapDeleting ==
  /\ HasConfigMap /\ ManagedConfigMapPhase = "deleting"
  /\ SyncTasks([f EXCEPT !.state = "Deleting"])
  /\ UNCHANGED <<cmVars, podVars>>

\* The last sync's Status has been persisted (FrameworkStatusSync).
StartSync ==
  /\ next = 0 /\ queued
  /\ \/ SyncAttemptCompleted
     \/ SyncCompleted
     \/ SyncConfigMapNil(ConfigMapWorld)
     \/ SyncConfigMapAlive(ConfigMapWorld)
     \/ SyncConfigMapDeleting

\* updateRemoteFrameworkStatus, once it succeeds
EndSync ==
  /\ next = TaskNumber + 1
  /\ saved' = f
  /\ next' = 0
  /\ UNCHANGED <<f, queued, cmVars, podVars, crashes>>

-----------------------------------------------------------------------------
(* syncTaskState *)

\* The FrameworkStatus is v, and the sync goes on with the next Task.
Leave(v, again) ==
  /\ f' = v
  /\ next' = next + 1
  /\ queued' = (queued \/ again)
  /\ UNCHANGED <<saved, crashes>>

Goto(t, v, again) == Leave([f EXCEPT !.tasks[t] = v], again)

\* An error of one Task does not keep the sync from the others.
FailTask(t, w) == EnterPod(t, w) /\ Goto(t, f.tasks[t], TRUE)

CompleteTaskByForce(t) ==
  Goto(t, [f.tasks[t] EXCEPT !.state = "AttemptCompleted"], TRUE)

\* A mutant: retried without end.
SyncTaskAttemptCompletedRetried(t) ==
  /\ f.tasks[t].state = "AttemptCompleted"
  /\ \/ Goto(t, NewTaskAttempt(f.tasks[t].attempt + 1), TRUE)
     \/ Goto(t, [f.tasks[t] EXCEPT !.state = "Completed"], FALSE)
  /\ UNCHANGED <<cmVars, podVars>>

SyncTaskAttemptCompleted(t) ==
  /\ f.tasks[t].state = "AttemptCompleted"
  /\ \/ /\ f.tasks[t].attempt < MaxTaskAttempt
        /\ Goto(t, NewTaskAttempt(f.tasks[t].attempt + 1), TRUE)
     \/ Goto(t, [f.tasks[t] EXCEPT !.state = "Completed"], FALSE)
     \/ /\ ~IsCompleting(f)
        /\ Leave([f EXCEPT !.tasks[t].state = "Completed",
                           !.state = "DeletionPending"], TRUE)
  /\ UNCHANGED <<cmVars, podVars>>

SyncTaskCompleted(t) ==
  /\ f.tasks[t].state = "Completed"
  /\ Goto(t, f.tasks[t], FALSE)
  /\ UNCHANGED <<cmVars, podVars>>

HasPod(t) == f.tasks[t].state \notin {"AttemptCompleted", "Completed"}

\* getOrCleanupPod: the Pod of the name is deleted if it is the attempt's and not
\* the Task's.  A Pod of another attempt is left to the garbage collector.
ManagedPodPhase(t) ==
  IF podsCached[t].uid = f.tasks[t].pod THEN podsCached[t].phase ELSE "gone"

MustCleanup(t, p) == Present(p) /\ p.uid # f.tasks[t].pod /\ p.owner = f.cm

LocalPodCleanups(t, w) ==
  IF MustCleanup(t, podsCached[t]) THEN DeleteResults(w, podsCached[t].uid, "someone")
  ELSE {[w |-> w, ok |-> TRUE]}

ConfirmedPodCleanups(t, w) ==
  {[w |-> w, ok |-> FALSE]}
  \cup (IF MustCleanup(t, w.obj)
          THEN {[w |-> r.w, ok |-> Confirmed(r, w.obj.uid)] :
                  r \in DeleteResults(w, w.obj.uid, "someone")}
          ELSE {[w |-> w, ok |-> TRUE]})

SyncPodCreationRequested(t, w) ==
  /\ f.tasks[t].state = "CreationRequested"
  /\ \/ EnterPod(t, w) /\ Goto(t, f.tasks[t], FALSE)
     \/ \E r \in DeleteResults(w, f.tasks[t].pod, "someone") :
          \/ /\ Confirmed(r, f.tasks[t].pod)
             /\ EnterPod(t, r.w) /\ CompleteTaskByForce(t)
          \/ ~Confirmed(r, f.tasks[t].pod) /\ FailTask(t, r.w)

\* The Pod is created, with the ConfigMap of this sync as its owner, or rejected.
\* A Pod of the name that exists is a transient error (ClassifyPodCreationError).
CreateTaskAttempt(t, w) ==
  \/ \E r \in CreatePodResults(w) :
       \/ /\ r.ok /\ EnterPod(t, r.w)
          /\ Goto(t, [f.tasks[t] EXCEPT !.state = "CreationRequested",
                                        !.pod = r.w.obj.uid], FALSE)
       \/ ~r.ok /\ FailTask(t, r.w)
  \/ \E r \in ConfirmedPodCleanups(t, w) :
       \/ r.ok /\ EnterPod(t, r.w) /\ CompleteTaskByForce(t)
       \/ ~r.ok /\ FailTask(t, r.w)

SyncPodCreationPending(t, w) ==
  /\ f.tasks[t].state = "CreationPending"
  /\ \/ IsCompleting(f) /\ EnterPod(t, w) /\ Goto(t, f.tasks[t], FALSE)
     \/ ~IsCompleting(f) /\ CreateTaskAttempt(t, w)

SyncPodGone(t, w) ==
  /\ f.tasks[t].state \notin {"CreationPending", "CreationRequested"}
  /\ EnterPod(t, w)
  /\ CompleteTaskByForce(t)

SyncPodNil(t, w) ==
  /\ HasPod(t) /\ ManagedPodPhase(t) = "gone"
  /\ \E r \in LocalPodCleanups(t, w) :
       \/ ~r.ok /\ FailTask(t, r.w)
       \/ /\ r.ok
          /\ \/ SyncPodCreationRequested(t, r.w)
             \/ SyncPodCreationPending(t, r.w)
             \/ SyncPodGone(t, r.w)

\* Whether the Pod is done is a choice.
SyncPodAlive(t, w) ==
  /\ HasPod(t) /\ ManagedPodPhase(t) = "alive"
  /\ \/ /\ f.tasks[t].state = "DeletionPending"
        /\ \E r \in DeleteResults(w, f.tasks[t].pod, "someone") :
             \/ ~r.ok /\ FailTask(t, r.w)
             \/ /\ r.ok /\ EnterPod(t, r.w)
                /\ Goto(t, [f.tasks[t] EXCEPT !.state = "Deleting"], FALSE)
     \/ /\ f.tasks[t].state = "Deleting"
        /\ EnterPod(t, w) /\ Goto(t, f.tasks[t], FALSE)
     \/ /\ f.tasks[t].state \in {"CreationRequested", "Running"}
        /\ EnterPod(t, w)
        /\ \/ Goto(t, [f.tasks[t] EXCEPT !.state = "Running"], FALSE)
           \/ Goto(t, [f.tasks[t] EXCEPT !.state = "DeletionPending"], TRUE)

\* A mutant: a Pod in its graceful deletion is taken for gone.
SyncPodDeletingAtOnce(t) ==
  /\ HasPod(t) /\ ManagedPodPhase(t) = "deleting"
  /\ CompleteTaskByForce(t)
  /\ UNCHANGED <<cmVars, podVars>>

SyncPodDeleting(t) ==
  /\ HasPod(t) /\ ManagedPodPhase(t) = "deleting"
  /\ Goto(t, [f.tasks[t] EXCEPT !.state = "Deleting"], FALSE)
  /\ UNCHANGED <<cmVars, podVars>>

SyncTask(t) ==
  /\ next = t
  /\ \/ SyncTaskCompleted(t)
     \/ SyncTaskAttemptCompleted(t)
     \/ SyncPodNil(t, PodWorld(t))
     \/ SyncPodAlive(t, PodWorld(t))
     \/ SyncPodDeleting(t)

-----------------------------------------------------------------------------
(* Informers *)

DeliverConfigMap ==
  \E c \in cmPending :
    /\ cmCached' = c
    /\ cmPending' = {d \in cmPending : PhaseAge(d) > PhaseAge(c)}
    /\ queued' = (queued \/ Present(cmCached) \/ Present(c))
    /\ UNCHANGED <<f, saved, next, cm, podVars, crashes>>

\* getPodOwner: the ConfigMap in the local cache, of the UID in the Pod
HasOwner(p) == Present(cmCached) /\ cmCached.uid = p.owner

\* A mutant: a deletion of the Pod enqueues nothing.
EnqueuesQuietly(old, new) == Present(new) /\ HasOwner(new)

\* enqueuePodObj for a version new that replaces old
Enqueues(old, new) ==
  \/ Present(old) /\ HasOwner(old)
  \/ Present(new) /\ HasOwner(new)

DeliverPod(t) ==
  \E p \in podsPending[t] :
    /\ podsCached' = [podsCached EXCEPT ![t] = p]
    /\ podsPending' = [podsPending EXCEPT ![t] = {q \in @ : PhaseAge(q) > PhaseAge(p)}]
    /\ queued' = (queued \/ Enqueues(podsCached[t], p))
    /\ UNCHANGED <<f, saved, next, cmVars, pods, crashes>>

-----------------------------------------------------------------------------
(* The cluster, time and restarts *)

ConfigMapChanges(w) ==
  /\ Cardinality(cmPending) < MaxLag
  /\ EnterConfigMap(w)
  /\ UNCHANGED <<statusVars, crashes>>

PodChanges(t, w) ==
  /\ Cardinality(podsPending[t]) < MaxLag
  /\ EnterPod(t, w)
  /\ UNCHANGED <<statusVars, crashes>>

ConfigMapDeletedByOthers ==
  /\ "ConfigMap" \in OthersDelete
  /\ cm.phase = "alive"
  /\ ConfigMapChanges(Marked(ConfigMapWorld, "someone"))

ConfigMapVanishes ==
  /\ cm.phase = "deleting" /\ Dependents(cm.uid) = {}
  /\ ConfigMapChanges(Erased(ConfigMapWorld))

PodDeletedByOthers(t) ==
  /\ "Pod" \in OthersDelete
  /\ pods[t].phase = "alive"
  /\ PodChanges(t, Marked(PodWorld(t), "someone"))

\* The dependents of a ConfigMap in foreground deletion, and orphans
PodCollected(t) ==
  /\ pods[t].phase = "alive"
  /\ cm.uid = pods[t].owner => cm.phase # "alive"
  /\ PodChanges(t, Marked(PodWorld(t), "someone"))

PodVanishes(t) ==
  /\ pods[t].phase = "deleting"
  /\ PodChanges(t, Erased(PodWorld(t)))

\* An AddAfter of a creation timeout
TimerFires ==
  /\ next = 0 /\ ~queued
  /\ \/ f.state = "CreationRequested"
     \/ \E t \in Tasks : f.tasks[t].state = "CreationRequested"
  /\ queued' = TRUE
  /\ UNCHANGED <<f, saved, next, cmVars, podVars, crashes>>

Restart ==
  /\ crashes < MaxCrashes
  /\ crashes' = crashes + 1
  /\ f' = saved
  /\ next' = 0
  /\ queued' = TRUE
  /\ cmCached' = cm /\ cmPending' = {}
  /\ podsCached' = pods /\ podsPending' = [t \in Tasks |-> {}]
  /\ UNCHANGED <<saved, cm, pods>>

-----------------------------------------------------------------------------
Informers == DeliverConfigMap \/ \E t \in Tasks : DeliverPod(t)

Worker ==
  \/ StartSync
  \/ \E t \in Tasks : SyncTask(t)
  \/ EndSync

Cluster ==
  \/ ConfigMapDeletedByOthers \/ ConfigMapVanishes
  \/ \E t \in Tasks : PodDeletedByOthers(t) \/ PodCollected(t) \/ PodVanishes(t)

Next == Worker \/ Informers \/ Cluster \/ TimerFires \/ Restart

Safety == Init /\ [][Next]_vars

-----------------------------------------------------------------------------
(* Properties *)

Over == {"AttemptCompleted", "Completed"}

\* ConsistencyGuarantee2: "No instance of the Task is running if it is [...]
\* TaskAttemptCompleted, TaskCompleted", unless it was created under a ConfigMap
\* that was gone already: the only way in which a Pod outlives its attempt.
ConsistencyGuarantee2 ==
  \A t \in Tasks :
    saved.tasks[t].state \in Over /\ Present(pods[t]) => pods[t].orphan

\* ConsistencyGuarantee3: "At most one instance of the Framework is running at any
\* point in time", though all attempts use the same names: no Pod of an earlier
\* attempt is left, unless it was created under a ConfigMap that was gone.
ConsistencyGuarantee3 ==
  \A t \in Tasks : Present(pods[t]) => pods[t].owner = f.cm \/ pods[t].orphan

\* Nothing is left to be done but by the cluster, users and time.
AtRest ==
  /\ next = 0 /\ ~queued
  /\ cmPending = {} /\ \A t \in Tasks : podsPending[t] = {}

\* No event is lost on its way from an object over its owners to the key, in the
\* middle of a sync or around the end of a ConfigMap: at rest, the Status agrees
\* with the objects, and no Task waits for a sync that nobody will start.
NoEventLost ==
  AtRest =>
    /\ f.state \in {"CreationRequested", "Running", "Deleting", "Completed"}
    /\ f.state = "Running" =>
         /\ cm.uid = f.cm /\ cm.phase = "alive"
         /\ \A t \in Tasks :
              /\ f.tasks[t].state \in {"CreationRequested", "Running", "Deleting", "Completed"}
              /\ f.tasks[t].state = "Running" =>
                   pods[t].uid = f.tasks[t].pod /\ pods[t].phase = "alive"
              /\ f.tasks[t].state = "Deleting" =>
                   pods[t].uid = f.tasks[t].pod /\ pods[t].phase = "deleting"
    /\ f.state = "Deleting" => cm.uid = f.cm /\ cm.phase = "deleting"

-----------------------------------------------------------------------------
(* What the repository says, and the code does not do *)

\* ConsistencyGuarantee4: "No instance of the Framework is running if it is
\* FrameworkAttemptCompleted, FrameworkCompleted", where "the default ConfigMap
\* deletion is acceptable".
ConsistencyGuarantee4 ==
  saved.state \in Over => \A t \in Tasks : ~Present(pods[t])
=============================================================================
