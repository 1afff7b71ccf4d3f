---------------------------- MODULE TaskAttempt ----------------------------
(***************************************************************************)
(* The attempts of one Task: syncTaskState and what it calls               *)
(* (controller.go).  Each is represented by a Pod, which the controller    *)
(* creates and deletes by remote calls, and watches through an Informer.   *)
(*                                                                         *)
(* Scope.  One instance of a Task during one FrameworkAttempt, whose       *)
(* ConfigMap is there until the attempt completes, and then goes after its *)
(* Pods.  That a Status is persisted before the next sync acts on it is    *)
(* FrameworkStatusSync's; other Tasks may enqueue the key and complete the *)
(* FrameworkAttempt at any time.  All Pods of the name are created by this *)
(* controller.                                                             *)
(***************************************************************************)
EXTENDS Integers, FiniteSets, RemoteCalls

CONSTANTS
  MaxRetryCount, FancyRetryPolicy,   \* RetryPolicy in the TaskSpec
  PodFailedCodes,   \* those that MatchCompletionCodeInfos finds for a failed Pod
  MaxAttempt,    \* bound: the last TaskAttemptID
  MaxEdits,      \* bound: changes of the Spec by the user
  MaxLag,        \* bound: Pod versions the watch is behind
  MaxLost,       \* bound: only one of the first MaxLost creates loses its answer
  MaxCrashes     \* bound: restarts of FrameworkController

VARIABLES
  spec,      \* what the Spec in the local cache says of the Task
  status,    \* the TaskStatus in the ApiServer
  f,         \* the one in memory, which differs while it is not persisted
  queued,    \* the key waits in fQueue
  timer,     \* an AddAfter of the key is pending
  due,       \* the timeout that the present TaskState waits for is over
  overdue,   \* the Pod whose PodGracefulDeletionTimeoutSec is over, by its uid
  pod,       \* the Pod in the ApiServer, or what is left of the last one
  podCached, \* the same in the Informer's local cache
  podPending,\* versions newer than podCached, not delivered yet
  edits, crashes   \* so far

ASSUME PodFailedCodesAssumption == PodFailedCodes \subseteq
  {"ContainerTransientFailed", "ContainerPermanentFailed",
   "ContainerUnrecognizedFailed"}

ASSUME TaskRetryPolicyAssumption ==
  /\ MaxRetryCount \in Int
  /\ FancyRetryPolicy \in BOOLEAN

ASSUME TaskBoundAssumption ==
  MaxAttempt \in Nat /\ MaxEdits \in Nat /\ MaxCrashes \in Nat

podVars == <<pod, podCached, podPending>>
syncVars == <<status, f, queued>>
timeVars == <<timer, due, overdue>>
boundVars == <<edits, crashes>>
vars == <<spec, syncVars, timeVars, podVars, boundVars>>

RP == INSTANCE RetryPolicy

\* task: the Task is in its TaskRole's TaskNumber, beyond it, or the TaskRole is
\* gone.  timeout: PodGracefulDeletionTimeoutSec # nil.
TaskSpec == [task : {"in", "out", "gone"}, timeout : BOOLEAN]

PermanentCodes == {"ContainerPermanentFailed", "PodCreationPermanentError",
                   "DeleteTaskRequested", "FrameworkAttemptCompletion"}

UnknownCodes == {"ContainerUnrecognizedFailed", "PodCreationUnknownError"}

Codes == {"None", "Succeeded", "ContainerTransientFailed", "PodExternalDeleted",
          "PodLocalCacheCreationTimeout"} \cup PermanentCodes \cup UnknownCodes

States == {"CreationPending", "CreationRequested", "Preparing", "Running",
           "DeletionPending", "DeletionRequested", "Deleting",
           "AttemptCompleted", "Completed"}

\* TaskStatus: State, TotalRetriedCount (which is also AttemptStatus.ID),
\* AccountableRetriedCount, PodUID (0 is nil), CompletionStatus, DeletionPending;
\* with whether its FrameworkAttempt is completing, and with its TaskRoleStatus's
\* PodGracefulDeletionTimeoutSec # nil.  RetryDelaySec is 0 and over at once.
TaskStatus ==
  [state : States, attempt : 0 .. MaxAttempt, retries : 0 .. MaxAttempt,
   pod : Nat, code : Codes, deletionPending : BOOLEAN,
   completing : BOOLEAN, timeout : BOOLEAN]

\* by: history, on whose behalf its deletion was first requested
Pod == [uid : Nat, phase : Phases,
        status : {"Pending", "Running", "Succeeded", "Failed"},
        by : {"nobody", "completion", "cleanup", "others"}, forced : BOOLEAN]

NoPod == [uid |-> 0, phase |-> "gone", status |-> "Pending", by |-> "nobody",
          forced |-> FALSE]

\* The order in which the ApiServer went through the versions.
Age(p) ==
  4 * PhaseAge(p)
  + (CASE p.status = "Pending" -> 0 [] p.status = "Running" -> 1 [] OTHER -> 2)

HasOutcome == {"DeletionPending", "DeletionRequested", "Deleting",
               "AttemptCompleted", "Completed"}

IsTaskStatus(v) ==
  /\ v \in TaskStatus
  /\ v.state \in HasOutcome => v.code # "None"   \* dereferenced by the retry

TypeOK ==
  /\ spec \in TaskSpec
  /\ IsTaskStatus(status) /\ IsTaskStatus(f)
  /\ queued \in BOOLEAN /\ timer \in BOOLEAN /\ due \in BOOLEAN
  /\ overdue \in Nat
  /\ pod \in Pod /\ podCached \in Pod /\ podPending \subseteq Pod
  /\ edits \in 0 .. MaxEdits /\ crashes \in 0 .. MaxCrashes

NewTaskAttempt(v, attempt, retries) ==
  [v EXCEPT !.state = "CreationPending", !.attempt = attempt,
            !.retries = retries, !.pod = 0, !.code = "None"]

Init ==
  /\ spec \in [task : {"in"}, timeout : BOOLEAN]
  /\ status = [state |-> "CreationPending", attempt |-> 0, retries |-> 0,
               pod |-> 0, code |-> "None",
               deletionPending |-> FALSE, completing |-> FALSE,
               timeout |-> spec.timeout]
  /\ f = status
  /\ queued = TRUE
  /\ timer = FALSE /\ due = FALSE
  /\ overdue = 0
  /\ pod = NoPod /\ podCached = NoPod /\ podPending = {}
  /\ edits = 0 /\ crashes = 0

Persisted == f = status

-----------------------------------------------------------------------------
(* Remote calls and the end of a sync *)

World(failing) == [obj |-> pod, watch |-> podPending, failing |-> failing]

Enter(w) ==
  /\ pod' = w.obj
  /\ podPending' = w.watch
  /\ UNCHANGED podCached

\* createPod
CreatePodResults(w) ==
  CreateResults(w, [NoPod EXCEPT !.uid = w.obj.uid + 1, !.phase = "alive"], MaxLost)

\* deletePod(.., force = true): no grace period, whatever the node still runs.  It
\* stays if it has finalizers.
ForceDeleteResults(w, u) ==
  CASE ~Present(w.obj) -> Results(w, {w})
    [] Present(w.obj) /\ w.obj.uid # u -> {[w |-> w, ok |-> FALSE]}
    [] OTHER ->
         Results(w, {Erased([w EXCEPT !.obj.forced = TRUE])}
                    \cup (IF w.failing THEN {w} ELSE {}))

\* The sync leaves the TaskStatus at v.  A new state has a timeout of its own; an
\* AddAfter left over from the old one is dropped.
Goto(v, again, wait) ==
  /\ f' = v
  /\ queued' = again
  /\ timer' = (wait \/ (timer /\ v.state = f.state))
  /\ due' = (due /\ v.state = f.state)
  /\ UNCHANGED <<spec, status, overdue, boundVars>>

Continue(v, again) == Goto(v, again, FALSE)

WaitWithoutTimer(v) == Goto(v, FALSE, FALSE)   \* a mutant

\* enqueueFrameworkTimeoutCheck
Wait(v) == Goto(v, FALSE, TRUE)

\* A failed call: the key is added again, rate limited.
Error(w, v) == Enter(w) /\ Continue(v, TRUE)

CodeKept(v, code) == v.code     \* a mutant

\* CompletionStatus is immutable once set.
CodeOr(v, code) == IF v.code = "None" THEN code ELSE v.code

\* completeTaskAttempt, by force or not
CompleteByForce(v, code) ==
  Continue([v EXCEPT !.state = "AttemptCompleted", !.code = CodeOr(v, code)], TRUE)

Complete(v, code) ==
  Continue([v EXCEPT !.state = "DeletionPending", !.code = CodeOr(v, code)], TRUE)

-----------------------------------------------------------------------------
(* What comes before syncTaskState in a sync *)

\* syncFrameworkScale: a Task beyond the Spec is marked, and persisted first.
MustMark == spec.task # "in" /\ ~f.deletionPending /\ ~f.completing

SyncFrameworkScale ==
  /\ MustMark
  /\ Continue([f EXCEPT !.deletionPending = TRUE,
                        !.code = CodeOr(f, "DeleteTaskRequested")], TRUE)
  /\ UNCHANGED podVars

\* updatePodGracefulDeletionTimeoutSec: persisted before it is used.
MustUpdateTimeout == spec.task # "gone" /\ f.timeout # spec.timeout

UpdatePodGracefulDeletionTimeoutSec ==
  /\ ~MustMark /\ MustUpdateTimeout
  /\ Continue([f EXCEPT !.timeout = spec.timeout], TRUE)
  /\ UNCHANGED podVars

\* The FrameworkAttempt may have been decided to complete just before.
Completing(v) ==
  [v EXCEPT !.completing = TRUE,
            !.code = CodeOr(v, "FrameworkAttemptCompletion")]

Before == {f, Completing(f)}

-----------------------------------------------------------------------------
(* deletePod and getOrCleanupPod *)

\* A mutant: the timeout that the user just wrote is used.
TimeoutOfSpec(v) == spec.timeout

EffectiveTimeout(v) == v.timeout

\* A mutant: only a Pod that another client deleted is forced.
MustForceOthers(v, p) ==
  /\ p.phase = "deleting" /\ p.by = "others"
  /\ EffectiveTimeout(v) /\ overdue = p.uid

\* handlePodGracefulDeletion: whether it forces the deletion of a deleting Pod, or
\* leaves an AddAfter behind.
MustForce(v, p) ==
  p.phase = "deleting" /\ EffectiveTimeout(v) /\ overdue = p.uid

MustWaitGracefully(v, p) ==
  p.phase = "deleting" /\ EffectiveTimeout(v) /\ overdue # p.uid

GracefulDeletionResults(w, v, p) ==
  IF MustForce(v, p)
    THEN {[w |-> r.w, ok |-> Confirmed(r, p.uid)] : r \in ForceDeleteResults(w, p.uid)}
    ELSE {[w |-> w, ok |-> TRUE]}

\* An unmanaged Pod p is deleted.
CleanupResults(w, v, p) ==
  UNION {IF ~g.ok THEN {g} ELSE DeleteResults(g.w, p.uid, "cleanup") :
           g \in GracefulDeletionResults(w, v, p)}

\* getOrCleanupPod(.., confirm = false): the managed Pod in the local cache (its
\* phase there, "gone" for nil); an unmanaged one is deleted.
ManagedPhase(v) == IF podCached.uid = v.pod THEN podCached.phase ELSE "gone"

Unmanaged(v, p) == Present(p) /\ p.uid # v.pod

LocalCleanups(w, v) ==
  IF Unmanaged(v, podCached) THEN CleanupResults(w, v, podCached)
  ELSE {[w |-> w, ok |-> TRUE]}

\* A mutant: the local cache is believed.
UnconfirmedCleanups(w, v) == LocalCleanups(w, v)

\* getOrCleanupPod(.., confirm = true)
ConfirmedCleanups(w, v) ==
  (IF w.failing THEN {[w |-> w, ok |-> FALSE]} ELSE {})
  \cup (IF Unmanaged(v, w.obj)
          THEN {[w |-> r.w, ok |-> Confirmed(r, w.obj.uid)] :
                  r \in CleanupResults(w, v, w.obj)}
          ELSE {[w |-> w, ok |-> TRUE]})

-----------------------------------------------------------------------------
(* syncTaskState, from the TaskStatus v *)

\* The Task may complete the FrameworkAttempt (FrameworkScale).
SyncTaskCompleted(v) ==
  \/ v.completing /\ Continue(v, FALSE)
  \/ ~v.completing /\ v.deletionPending /\ Continue(v, TRUE)
  \/ /\ ~v.completing /\ ~v.deletionPending
     /\ Continue(v, FALSE) \/ Continue(Completing(v), TRUE)

CompletionTypeOf(code) ==
  CASE code = "Succeeded" -> RP!CompletionType("Succeeded", {})
    [] code \in PermanentCodes -> RP!CompletionType("Failed", {"Permanent"})
    [] code \in UnknownCodes -> RP!CompletionType("Failed", {})
    [] OTHER -> RP!CompletionType("Failed", {"Transient"})

RetryDecision(v) ==
  IF spec.task = "gone" THEN RP!Decision(FALSE, TRUE, 0)
  ELSE RP!ShouldRetry([FancyRetryPolicy |-> FancyRetryPolicy,
                       MaxRetryCount |-> MaxRetryCount],
                      v.retries, v.code, CompletionTypeOf(v.code), 0)

\* attemptToRetryTask
SyncAttemptCompleted(v) ==
  /\ v.state = "AttemptCompleted"
  /\ \/ /\ ~RetryDecision(v).ShouldRetry
        /\ SyncTaskCompleted([v EXCEPT !.state = "Completed"])
     \/ /\ RetryDecision(v).ShouldRetry
        /\ v.attempt < MaxAttempt
        /\ Continue(NewTaskAttempt(v, v.attempt + 1,
                      v.retries + IF RetryDecision(v).IsAccountable THEN 1 ELSE 0),
                    TRUE)
  /\ UNCHANGED podVars

HasPod(v) == v.state \notin {"AttemptCompleted", "Completed"}

\* The managed Pod is deleted and seen to be gone before the attempt completes.
CompleteAfterDelete(w, v, code) ==
  \E r \in DeleteResults(w, v.pod, "cleanup") :
    \/ Confirmed(r, v.pod) /\ Enter(r.w) /\ CompleteByForce(v, code)
    \/ ~Confirmed(r, v.pod) /\ Error(r.w, v)

\* A mutant: the Pod is created again when its creation is not seen in time.
SyncCreationRequestedAgain(w, v) ==
  /\ v.state = "CreationRequested"
  /\ Enter(w)
  /\ IF due THEN Continue([v EXCEPT !.state = "CreationPending", !.pod = 0], TRUE)
     ELSE Wait(v)

\* Creation requested, and not found in the local cache.
SyncCreationRequested(w, v) ==
  /\ v.state = "CreationRequested"
  /\ \/ v.deletionPending /\ CompleteAfterDelete(w, v, "DeleteTaskRequested")
     \/ /\ ~v.deletionPending /\ due
        /\ CompleteAfterDelete(w, v, "PodLocalCacheCreationTimeout")
     \/ ~v.deletionPending /\ ~due /\ Wait(v) /\ Enter(w)

CompleteAfterCleanup(w, v, code) ==
  \E r \in ConfirmedCleanups(w, v) :
    \/ r.ok /\ Enter(r.w) /\ CompleteByForce(v, code)
    \/ ~r.ok /\ Error(r.w, v)

\* createTaskAttempt.  The ApiServer may reject the Pod.
CreateTaskAttempt(w, v) ==
  \/ \E r \in CreatePodResults(w) :
       \/ /\ r.ok /\ Enter(r.w)
          /\ Wait([v EXCEPT !.state = "CreationRequested", !.pod = r.w.obj.uid])
       \/ ~r.ok /\ Error(r.w, v)
  \/ \E code \in {"PodCreationPermanentError", "PodCreationUnknownError"} :
       w.failing /\ CompleteAfterCleanup(w, v, code)

SyncCreationPending(w, v) ==
  /\ v.state = "CreationPending"
  /\ \/ v.completing /\ Enter(w) /\ Continue(v, FALSE)
     \/ /\ ~v.completing
        /\ v.deletionPending \/ spec.task = "gone"
        /\ CompleteAfterCleanup(w, v, "DeleteTaskRequested")
     \/ /\ ~v.completing
        /\ ~v.deletionPending /\ spec.task # "gone"
        /\ CreateTaskAttempt(w, v)

\* It was in the local cache, and is no more.
SyncPodGone(w, v) ==
  /\ v.state \notin {"CreationPending", "CreationRequested"}
  /\ Enter(w)
  /\ CompleteByForce(v, "PodExternalDeleted")

SyncPodNil(w, v) ==
  /\ HasPod(v) /\ ManagedPhase(v) = "gone"
  /\ \E r \in LocalCleanups(w, v) :
       \/ ~r.ok /\ Error(r.w, v)
       \/ /\ r.ok
          /\ \/ SyncCreationRequested(r.w, v)
             \/ SyncCreationPending(r.w, v)
             \/ SyncPodGone(r.w, v)

\* The Pod runs, or is done.  The NodeController may report it as PodUnknown.
SyncPodPhase(v) ==
  LET u == IF v.state = "CreationRequested" THEN [v EXCEPT !.state = "Preparing"]
           ELSE v
      Goes(t) == IF t.deletionPending THEN Complete(t, "DeleteTaskRequested")
                 ELSE Continue(t, FALSE)
  IN  \/ podCached.status \in {"Pending", "Running"} /\ Goes(u)
      \/ podCached.status = "Pending" /\ Goes([u EXCEPT !.state = "Preparing"])
      \/ podCached.status = "Running" /\ Goes([u EXCEPT !.state = "Running"])
      \/ podCached.status = "Succeeded" /\ Complete(u, "Succeeded")
      \/ /\ podCached.status = "Failed"
         /\ \E code \in PodFailedCodes : Complete(u, code)

SyncPodDone(v) == v.state = "DeletionRequested" /\ Continue(v, FALSE)

\* Mutants: the Pod of a done Task is deleted in the sync that decides to; a
\* failed deletion is taken for requested.
SyncPodAliveAtOnce(w, v) ==
  /\ HasPod(v) /\ ManagedPhase(v) = "alive"
  /\ \/ /\ podCached.status = "Succeeded"
        /\ \E r \in DeleteResults(w, v.pod, "completion") :
             \/ ~r.ok /\ Error(r.w, v)
             \/ /\ r.ok /\ Enter(r.w)
                /\ Continue([v EXCEPT !.state = "DeletionRequested",
                                      !.code = CodeOr(v, "Succeeded")], FALSE)
     \/ podCached.status # "Succeeded" /\ SyncPodPhase(v) /\ UNCHANGED podVars

SyncPodAliveUnchecked(w, v) ==
  /\ HasPod(v) /\ ManagedPhase(v) = "alive"
  /\ \/ /\ v.state = "DeletionPending"
        /\ \E r \in DeleteResults(w, v.pod, "completion") :
             Enter(r.w) /\ SyncPodDone([v EXCEPT !.state = "DeletionRequested"])
     \/ SyncPodDone(v) /\ UNCHANGED podVars
     \/ /\ v.state \notin {"DeletionPending", "DeletionRequested"}
        /\ SyncPodPhase(v)
        /\ UNCHANGED podVars

SyncPodAlive(w, v) ==
  /\ HasPod(v) /\ ManagedPhase(v) = "alive"
  /\ \/ /\ v.state = "DeletionPending"
        /\ \E r \in DeleteResults(w, v.pod, "completion") :
             \/ ~r.ok /\ Error(r.w, v)
             \/ /\ r.ok /\ Enter(r.w)
                /\ SyncPodDone([v EXCEPT !.state = "DeletionRequested"])
     \/ SyncPodDone(v) /\ UNCHANGED podVars
     \/ /\ v.state \notin {"DeletionPending", "DeletionRequested"}
        /\ SyncPodPhase(v)
        /\ UNCHANGED podVars

SyncPodDeleting(w, v) ==
  /\ HasPod(v) /\ ManagedPhase(v) = "deleting"
  /\ LET u == [v EXCEPT !.state = "Deleting", !.code = CodeOr(v, "PodExternalDeleted")]
     IN  \/ MustWaitGracefully(v, podCached) /\ Wait(u) /\ Enter(w)
         \/ /\ ~MustWaitGracefully(v, podCached)
            /\ \E r \in GracefulDeletionResults(w, v, podCached) :
                 Enter(r.w) /\ Continue(u, ~r.ok)

SyncTaskState(w) ==
  /\ ~MustMark /\ ~MustUpdateTimeout
  /\ \E v \in Before :
       \/ v.state = "Completed" /\ Continue(v, FALSE) /\ UNCHANGED podVars
       \/ SyncAttemptCompleted(v)
       \/ SyncPodNil(w, v)
       \/ SyncPodAlive(w, v)
       \/ SyncPodDeleting(w, v)

Sync(w) ==
  /\ queued /\ Persisted
  /\ \/ SyncFrameworkScale
     \/ UpdatePodGracefulDeletionTimeoutSec
     \/ SyncTaskState(w)

\* updateRemoteFrameworkStatus, once it succeeds
Persist ==
  /\ ~Persisted
  /\ status' = f
  /\ UNCHANGED <<spec, f, queued, timeVars, podVars, boundVars>>

\* completeFrameworkAttempt by force: the ConfigMap is gone, after its Pods.
FrameworkAttemptOver ==
  /\ Persisted
  /\ f.completing /\ ~Present(pod)
  /\ f.state # "Completed"
  /\ f' = [f EXCEPT !.state = "Completed",
                    !.code = CodeOr(f, "FrameworkAttemptCompletion")]
  /\ UNCHANGED <<spec, status, queued, timeVars, podVars, boundVars>>

-----------------------------------------------------------------------------
(* The user, the Informer, the cluster, time and restarts *)

UserEdit ==
  /\ edits < MaxEdits
  /\ edits' = edits + 1
  /\ spec' \in TaskSpec \ {spec}
  /\ queued' = TRUE
  /\ UNCHANGED <<status, f, timeVars, podVars, crashes>>

\* Any event of another Task
OtherEvent ==
  /\ ~queued
  /\ queued' = TRUE
  /\ UNCHANGED <<spec, status, f, timeVars, podVars, boundVars>>

\* enqueuePodObj
Deliver ==
  \E p \in podPending :
    /\ podCached' = p
    /\ podPending' = {q \in podPending : Age(q) > Age(p)}
    /\ queued' = TRUE
    /\ UNCHANGED <<spec, status, f, timeVars, pod, boundVars>>

InLag == Cardinality(podPending) < MaxLag

ClusterChanges(w) ==
  /\ InLag
  /\ Enter(w)
  /\ UNCHANGED <<spec, syncVars, timeVars, boundVars>>

PodProgresses ==
  /\ pod.phase = "alive"
  /\ \E s \in {"Running", "Succeeded", "Failed"} :
       /\ pod.status = "Pending" \/ (pod.status = "Running" /\ s # "Running")
       /\ ClusterChanges(Store(World(FALSE), [pod EXCEPT !.status = s]))

PodDeletedByOthers ==
  /\ pod.phase = "alive"
  /\ ClusterChanges(Marked(World(FALSE), "others"))

PodVanishes ==
  /\ pod.phase = "deleting"
  /\ ClusterChanges(Erased(World(FALSE)))

TimeoutElapses ==
  /\ ~due
  /\ f.state = "CreationRequested"
  /\ due' = TRUE
  /\ UNCHANGED <<spec, syncVars, timer, overdue, podVars, boundVars>>

GracePeriodElapses ==
  /\ podCached.phase = "deleting"
  /\ overdue # podCached.uid
  /\ overdue' = podCached.uid
  /\ UNCHANGED <<spec, syncVars, timer, due, podVars, boundVars>>

TimerFires ==
  /\ timer
  /\ due \/ (overdue # 0 /\ overdue = podCached.uid)
  /\ timer' = FALSE
  /\ queued' = TRUE
  /\ UNCHANGED <<spec, status, f, due, overdue, podVars, boundVars>>

Restart ==
  /\ crashes < MaxCrashes
  /\ crashes' = crashes + 1
  /\ f' = status
  /\ queued' = TRUE
  /\ timer' = FALSE
  /\ podCached' = pod
  /\ podPending' = {}
  /\ UNCHANGED <<spec, status, due, overdue, pod, edits>>

-----------------------------------------------------------------------------
Worker == (\E failing \in BOOLEAN : Sync(World(failing))) \/ Persist \/ FrameworkAttemptOver

Cluster == PodProgresses \/ PodDeletedByOthers \/ PodVanishes

Clock == TimeoutElapses \/ GracePeriodElapses \/ TimerFires

Next == UserEdit \/ OtherEvent \/ Deliver \/ Worker \/ Cluster \/ Clock \/ Restart

\* The worker, the Informer and the clock keep going, and calls that are made
\* again and again succeed once.  Nothing is assumed of the nodes.
Fairness ==
  /\ WF_vars(Deliver)
  /\ WF_vars(Persist)
  /\ SF_vars(Sync(World(FALSE)))
  /\ WF_vars(TimeoutElapses) /\ WF_vars(GracePeriodElapses)
  /\ WF_vars(TimerFires)

Safety == Init /\ [][Next]_vars
FairSpec == Safety /\ Fairness

-----------------------------------------------------------------------------
(* Properties *)

\* TaskAttemptCompleted: "Pod does not exist and is not expected to exist and will
\* never exist", not even one whose creation the controller never heard the
\* answer of: no Pod runs besides that of the next attempt.
NoPodLeak ==
  status.state \in {"AttemptCompleted", "Completed"} => ~Present(pod)

\* "The CompletionStatus has been persisted, so it is safe to delete the pod now":
\* the outcome of an attempt survives any crash after its Pod is given up.
DeletedAfterPersisted ==
  pod.by = "completion" /\ pod.uid = status.pod => status.code # "None"

\* TaskAttemptDeletionRequested "must have been deletion requested successfully",
\* though calls fail and the decision was taken on the local cache.
DeletionRequestedIsTrue ==
  status.state \in {"DeletionRequested", "Deleting"} /\ pod.uid = status.pod
    => pod.phase # "alive"

\* "At most one instance is exposed into ApiServer over time" for each attempt, and
\* what was exposed as its outcome is final.
ExposedOnce ==
  [][status'.attempt = status.attempt =>
       /\ status.pod # 0 => status'.pod = status.pod
       /\ status.code # "None" => status'.code = status.code]_vars

\* A Pod is deleted by force, while its node may still run it, only once its grace
\* period is over, and users can see in the Status that this may happen.
ForcedOnlyIfExposed ==
  [][pod'.forced /\ ~pod.forced => status.timeout /\ overdue = pod.uid]_vars

\* "The RetryPolicyStatus will never exceed the RetryPolicySpec": with
\* FancyRetryPolicy too, over failed calls, lost Status and restarts.
RetriesWithinPolicy ==
  MaxRetryCount >= 0 => status.retries <= MaxRetryCount

\* A Task does not hang in a state it is only waiting in.
Waiting ==
  status.state \in {"CreationRequested", "DeletionPending", "AttemptCompleted"}

NeverStuck == Waiting ~> ~Waiting

\* A Task that is scaled down is completed even if its node is never heard of
\* again, as long as there is a PodGracefulDeletionTimeoutSec.
ScaleDownEnds ==
  status.deletionPending
    ~> status.state = "Completed" \/ status.completing \/ ~status.timeout
=============================================================================
