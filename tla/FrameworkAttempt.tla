------------------------- MODULE FrameworkAttempt -------------------------
(***************************************************************************)
(* The attempts of one Framework: syncFrameworkState and what it calls     *)
(* (controller.go), on top of FrameworkStatusSync, whose Body it fills in. *)
(* Each attempt is represented by a ConfigMap, which the controller        *)
(* creates and deletes by remote calls, and watches through a second       *)
(* Informer; other clients and the GarbageCollectionController delete it   *)
(* too.                                                                    *)
(*                                                                         *)
(* Scope.  The Tasks are abstracted to whether the completion policy is    *)
(* triggered and whether one of them runs.  The Spec's Tasks and retry     *)
(* policy are fixed, the ExecutionType is not.  One ConfigMap name, whose  *)
(* object always has the "foregroundDeletion" finalizer.  All ConfigMaps   *)
(* of the name are created by this controller.                             *)
(***************************************************************************)
EXTENDS Integers, FiniteSets, RemoteCalls

CONSTANTS
  ExecutionTypes,                    \* those that users write
  MaxRetryCount, FancyRetryPolicy,   \* Framework.Spec.RetryPolicy
  MaxTries, MaxVersions, MaxUid, MaxCrashes,  \* see FrameworkStatusSync
  MaxLag,        \* bound: Framework versions the watch is behind
  MaxAttempt,    \* bound: the last FrameworkAttemptID
  MaxLost        \* bound: only one of the first MaxLost creates loses its answer

VARIABLES
  remote, cached, pending, expected, queued, pc, f, tries,
  userSpec, synced, lastUid, crashes,         \* see FrameworkStatusSync
  cmRemote,    \* the ConfigMap in the ApiServer, or what is left of the last one
  cmCached,    \* the same in the Informer's local cache
  cmPending,   \* versions newer than cmCached, not delivered yet
  timer,       \* an AddAfter of the key is pending
  due          \* the timeout that the present FrameworkState waits for is over

ASSUME ExecutionTypeAssumption == ExecutionTypes \subseteq {"Create", "Start", "Stop"}

ASSUME RetryPolicyAssumption ==
  /\ MaxRetryCount \in Int
  /\ FancyRetryPolicy \in BOOLEAN

ASSUME AttemptBoundAssumption ==
  /\ MaxTries \in Nat \ {0}
  /\ MaxVersions \in Nat /\ MaxUid \in Nat /\ MaxCrashes \in Nat

States == {"None", "CreationPending", "CreationRequested", "Preparing",
           "Running", "DeletionPending", "DeletionRequested", "Deleting",
           "AttemptCompleted", "Completed"}

Codes == {"None", "Succeeded", "ContainerUnrecognizedFailed",
          "StopFrameworkRequested", "ConfigMapExternalDeleted",
          "ConfigMapLocalCacheCreationTimeout"}

\* FrameworkStatus: State, RetryPolicyStatus.TotalRetriedCount (which is also
\* AttemptStatus.ID), .AccountableRetriedCount, .RetryDelaySec # nil,
\* AttemptStatus.ConfigMapUID (0 is nil) and .CompletionStatus.
Status == [state : States, attempt : Nat, retries : Nat, scheduled : BOOLEAN,
           cm : Nat, code : Codes]

NewAttempt(attempt, retries) ==
  [state |-> "CreationPending", attempt |-> attempt, retries |-> retries,
   scheduled |-> FALSE, cm |-> 0, code |-> "None"]

NilStatus == [NewAttempt(0, 0) EXCEPT !.state = "None"]

AnyLeq(a, b) == TRUE

FS == INSTANCE FrameworkStatusSync WITH
        Specs <- ExecutionTypes, NoSpec <- "None",
        Statuses <- Status, NilStatus <- NilStatus, Leq <- AnyLeq

RP == INSTANCE RetryPolicy

\* All variables of FrameworkStatusSync but queued.
unqueuedVars == <<remote, cached, pending, expected, pc, f, tries,
                  userSpec, synced, lastUid, crashes>>
statusVars == <<unqueuedVars, queued>>
InLag == Cardinality(pending) < MaxLag

cmVars == <<cmRemote, cmCached, cmPending>>
timeVars == <<timer, due>>
vars == <<statusVars, cmVars, timeVars>>

-----------------------------------------------------------------------------
(* ConfigMaps *)

\* by: history, on whose behalf its deletion was first requested
ConfigMap == [uid : Nat, owner : Nat, phase : Phases,
              by : {"nobody", "completion", "cleanup", "others"}]

NoConfigMap == [uid |-> 0, owner |-> 0, phase |-> "gone", by |-> "nobody"]

TypeOK ==
  /\ FS!TypeOK
  /\ cmRemote \in ConfigMap
  /\ cmCached \in ConfigMap
  /\ cmPending \subseteq ConfigMap
  /\ timer \in BOOLEAN
  /\ due \in BOOLEAN

Init ==
  /\ FS!Init
  /\ cmRemote = NoConfigMap
  /\ cmCached = NoConfigMap
  /\ cmPending = {}
  /\ timer = FALSE
  /\ due = FALSE

\* Some calls of a failing sync fail.
World(failing) == [obj |-> cmRemote, watch |-> cmPending, failing |-> failing]

\* createConfigMap
NewConfigMap(w) ==
  [uid |-> w.obj.uid + 1, owner |-> f.uid, phase |-> "alive", by |-> "nobody"]

CreateConfigMapResults(w) == CreateResults(w, NewConfigMap(w), MaxLost)

Enter(w) ==
  /\ cmRemote' = w.obj
  /\ cmPending' = w.watch
  /\ UNCHANGED cmCached

-----------------------------------------------------------------------------
(* The end of a sync *)

val == f.status.val

\* syncFrameworkStatus leaves f.Status at v.  A new state has a timeout of its
\* own; an AddAfter left over from the old one is dropped.
Goto(v, again, wait) ==
  /\ FS!SyncBody(v, again)
  /\ due' = (due /\ v.state = val.state)
  /\ timer' = (wait \/ (timer /\ v.state = val.state))

Continue(v, again) == Goto(v, again, FALSE)

WaitWithoutTimer(v) == Goto(v, FALSE, FALSE)   \* a mutant

\* enqueueFrameworkTimeoutCheck
Wait(v) == Goto(v, FALSE, TRUE)

\* A failed call ends the sync; the key is added again, rate limited.
Error(w) == Enter(w) /\ Continue(val, TRUE)

CodeReplaced(v, code) == code   \* a mutant

\* CompletionStatus is immutable once set.
CodeOr(v, code) == IF v.code = "None" THEN code ELSE v.code

\* completeFrameworkAttempt
CompleteByForce(code) ==
  Continue([val EXCEPT !.state = "AttemptCompleted", !.code = CodeOr(val, code)],
           TRUE)

Complete(v, code) ==
  Continue([v EXCEPT !.state = "DeletionPending", !.code = CodeOr(v, code)], TRUE)

-----------------------------------------------------------------------------
(* syncFrameworkState *)

SyncNewFramework ==
  /\ val.state = "None"
  /\ Continue(NewAttempt(0, 0), TRUE)
  /\ UNCHANGED cmVars

\* The Framework is deleted after FrameworkCompletedRetainSec.
DeleteFrameworkCall ==
  /\ pc = "body" /\ InLag
  /\ val.state = "Completed" /\ due
  /\ remote.uid = f.uid
  /\ FS!UserDelete
  /\ UNCHANGED <<cmVars, timeVars>>

\* The sync fails unless the deletion is confirmed.
SyncCompleted(w) ==
  /\ val.state = "Completed"
  /\ \/ ~due /\ Wait(val)
     \/ /\ due /\ remote.uid = f.uid
        /\ remote.deleting \/ w.failing
        /\ Continue(val, TRUE)
     \/ /\ due /\ remote.uid # f.uid
        /\ \E again \in BOOLEAN : Continue(val, again)
  /\ UNCHANGED cmVars

\* attemptToRetryFramework
CompletionTypeOf(code) ==
  CASE code = "Succeeded" -> RP!CompletionType("Succeeded", {})
    [] code = "ContainerUnrecognizedFailed" -> RP!CompletionType("Failed", {})
    [] code = "StopFrameworkRequested" -> RP!CompletionType("Failed", {"Permanent"})
    [] OTHER -> RP!CompletionType("Failed", {"Transient"})

RetryDecision ==
  RP!ShouldRetry([FancyRetryPolicy |-> FancyRetryPolicy,
                  MaxRetryCount |-> MaxRetryCount],
                 val.retries, val.code, CompletionTypeOf(val.code), 0)

WillRetry == val.scheduled \/ RetryDecision.ShouldRetry

SyncAttemptCompleted ==
  /\ val.state = "AttemptCompleted"
  /\ \/ ~WillRetry /\ Wait([val EXCEPT !.state = "Completed"])
     \/ /\ WillRetry
        /\ f.spec # "Stop" /\ ~due
        /\ Wait([val EXCEPT !.scheduled = TRUE])
     \/ /\ WillRetry
        /\ f.spec = "Stop" \/ due
        /\ val.attempt < MaxAttempt
        /\ Continue(NewAttempt(val.attempt + 1,
                      val.retries + IF RetryDecision.IsAccountable THEN 1 ELSE 0),
                    TRUE)
  /\ UNCHANGED cmVars

\* getOrCleanupConfigMap(f, false): the managed ConfigMap in the local cache
\* (its phase there, "gone" for nil); one of this Framework that is not the
\* managed one is deleted.
ManagedPhase == IF cmCached.uid = val.cm THEN cmCached.phase ELSE "gone"

Cleanups(w) ==
  IF Present(cmCached) /\ cmCached.uid # val.cm /\ cmCached.owner = f.uid
    THEN DeleteResults(w, cmCached.uid, "cleanup")
    ELSE {[w |-> w, ok |-> TRUE]}

HasConfigMap == val.state \notin {"None", "AttemptCompleted", "Completed"}

SyncCleanupFailed(w) ==
  /\ HasConfigMap
  /\ \E r \in Cleanups(w) : ~r.ok /\ Error(r.w)

\* The ConfigMap is deleted and seen to be gone before the attempt completes.
CompleteAfterDelete(w, u, code) ==
  \E r \in DeleteResults(w, u, "cleanup") :
    \/ Confirmed(r, u) /\ Enter(r.w) /\ CompleteByForce(code)
    \/ ~Confirmed(r, u) /\ Error(r.w)

\* Creation requested, and not found in the local cache.
SyncCreationRequested(w) ==
  /\ val.state = "CreationRequested" /\ ManagedPhase = "gone"
  /\ \/ f.spec = "Stop" /\ CompleteAfterDelete(w, val.cm, "StopFrameworkRequested")
     \/ /\ f.spec # "Stop" /\ due
        /\ CompleteAfterDelete(w, val.cm, "ConfigMapLocalCacheCreationTimeout")
     \/ f.spec # "Stop" /\ ~due /\ Wait(val) /\ Enter(w)

\* A mutant: a Stop believes the local cache.
SyncCreationPendingUnconfirmed(w) ==
  /\ val.state = "CreationPending"
  /\ \/ /\ f.deleting \/ f.spec = "Create"
        /\ Continue(val, FALSE) /\ Enter(w)
     \/ /\ ~f.deleting /\ f.spec = "Stop"
        /\ Enter(w) /\ CompleteByForce("StopFrameworkRequested")
     \/ /\ ~f.deleting /\ f.spec = "Start"
        /\ \E r \in CreateConfigMapResults(w) :
             \/ /\ r.ok /\ Enter(r.w)
                /\ Wait([val EXCEPT !.state = "CreationRequested",
                                    !.cm = r.w.obj.uid])
             \/ ~r.ok /\ Error(r.w)

SyncCreationPending(w) ==
  /\ val.state = "CreationPending"
  /\ \/ /\ f.deleting \/ f.spec = "Create"
        /\ Continue(val, FALSE) /\ Enter(w)
     \/ /\ ~f.deleting /\ f.spec = "Stop"
        /\ \/ w.failing /\ Error(w)    \* getOrCleanupConfigMap(f, true) failed
           \/ IF Present(w.obj) /\ w.obj.owner = f.uid
                THEN CompleteAfterDelete(w, w.obj.uid, "StopFrameworkRequested")
                ELSE Enter(w) /\ CompleteByForce("StopFrameworkRequested")
     \/ /\ ~f.deleting /\ f.spec = "Start"
        /\ \E r \in CreateConfigMapResults(w) :
             \/ /\ r.ok /\ Enter(r.w)
                /\ Wait([val EXCEPT !.state = "CreationRequested",
                                    !.cm = r.w.obj.uid])
             \/ ~r.ok /\ Error(r.w)

\* It was in the local cache, and is no more.
SyncConfigMapGone(w) ==
  /\ val.state \notin {"CreationPending", "CreationRequested"}
  /\ ManagedPhase = "gone"
  /\ Enter(w)
  /\ CompleteByForce("ConfigMapExternalDeleted")

\* What the rest of the sync does at v: stop, the completion policy, the Tasks.
SyncTasks(v) ==
  \/ /\ v.state \in {"DeletionRequested", "Deleting"}
     /\ \E again \in BOOLEAN : Continue(v, again)
  \/ /\ v.state \in {"Preparing", "Running"} /\ f.spec = "Stop"
     /\ Complete(v, "StopFrameworkRequested")
  \/ /\ v.state \in {"Preparing", "Running"} /\ f.spec # "Stop"
     /\ \/ \E code \in {"Succeeded", "ContainerUnrecognizedFailed"} :
             Complete(v, code)
        \/ \E again \in BOOLEAN : Continue(v, again)
        \/ \E again \in BOOLEAN : Continue([v EXCEPT !.state = "Running"], again)

\* Mutants: the ConfigMap is deleted in the sync that decides to; a failed
\* deletion is taken for requested.
SyncConfigMapAliveAtOnce(w) ==
  /\ HasConfigMap /\ ManagedPhase = "alive"
  /\ \/ /\ f.spec = "Stop"
        /\ \E r \in DeleteResults(w, val.cm, "completion") :
             \/ ~r.ok /\ Error(r.w)
             \/ /\ r.ok /\ Enter(r.w)
                /\ Continue([val EXCEPT !.state = "DeletionRequested",
                                !.code = CodeOr(val, "StopFrameworkRequested")], FALSE)
     \/ /\ f.spec # "Stop"
        /\ SyncTasks([val EXCEPT !.state = "Preparing"])
        /\ UNCHANGED cmVars

SyncConfigMapAliveUnchecked(w) ==
  /\ HasConfigMap /\ ManagedPhase = "alive"
  /\ \/ /\ val.state = "DeletionPending"
        /\ \E r \in DeleteResults(w, val.cm, "completion") :
             Enter(r.w) /\ SyncTasks([val EXCEPT !.state = "DeletionRequested"])
     \/ /\ val.state = "CreationRequested"
        /\ SyncTasks([val EXCEPT !.state = "Preparing"])
        /\ UNCHANGED cmVars
     \/ /\ val.state \notin {"DeletionPending", "CreationRequested"}
        /\ SyncTasks(val)
        /\ UNCHANGED cmVars

SyncConfigMapAlive(w) ==
  /\ HasConfigMap /\ ManagedPhase = "alive"
  /\ \/ /\ val.state = "DeletionPending"
        /\ \E r \in DeleteResults(w, val.cm, "completion") :
             \/ ~r.ok /\ Error(r.w)
             \/ /\ r.ok /\ Enter(r.w)
                /\ SyncTasks([val EXCEPT !.state = "DeletionRequested"])
     \/ /\ val.state = "CreationRequested"
        /\ SyncTasks([val EXCEPT !.state = "Preparing"])
        /\ UNCHANGED cmVars
     \/ /\ val.state \notin {"DeletionPending", "CreationRequested"}
        /\ SyncTasks(val)
        /\ UNCHANGED cmVars

SyncConfigMapDeleting ==
  /\ HasConfigMap /\ ManagedPhase = "deleting"
  /\ SyncTasks([val EXCEPT !.state = "Deleting",
                           !.code = CodeOr(val, "ConfigMapExternalDeleted")])
  /\ UNCHANGED cmVars

SyncConfigMapNil(w) ==
  /\ HasConfigMap
  /\ \E r \in Cleanups(w) :
       /\ r.ok
       /\ \/ SyncCreationRequested(r.w)
          \/ SyncCreationPending(r.w)
          \/ SyncConfigMapGone(r.w)

SyncBody(w) ==
  /\ pc = "body"
  /\ \/ SyncNewFramework
     \/ SyncCompleted(w)
     \/ SyncAttemptCompleted
     \/ SyncCleanupFailed(w)
     \/ SyncConfigMapNil(w)
     \/ SyncConfigMapAlive(w)
     \/ SyncConfigMapDeleting

-----------------------------------------------------------------------------
(* The ConfigMap Informer, other clients, garbage collection and time *)

\* enqueueConfigMapObj: of the Framework in the local cache, if it is the owner.
Owned(cm) == Present(cm) /\ FS!Exists(cached) /\ cm.owner = cached.uid

DeliverConfigMap ==
  \E cm \in cmPending :
    /\ cmCached' = cm
    /\ cmPending' = {c \in cmPending : PhaseAge(c) > PhaseAge(cm)}
    /\ queued' = (queued \/ Owned(cmCached) \/ Owned(cm))
    /\ UNCHANGED <<cmRemote, timeVars, unqueuedVars>>

\* The garbage collector deletes it with its owner, someone else at any time.
ConfigMapDeletedByOthers ==
  /\ cmRemote.phase = "alive"
  /\ Enter(Store(World(FALSE), [cmRemote EXCEPT !.phase = "deleting", !.by = "others"]))
  /\ UNCHANGED <<statusVars, timeVars>>

\* The finalizer is removed once the Pods are gone.
ConfigMapVanishes ==
  /\ cmRemote.phase = "deleting"
  /\ Enter(Store(World(FALSE), [cmRemote EXCEPT !.phase = "gone"]))
  /\ UNCHANGED <<statusVars, timeVars>>

ExpectedState ==
  IF expected.uid # 0 THEN expected.status.val.state ELSE remote.status.val.state

TimeoutElapses ==
  /\ ~due
  /\ ExpectedState \in {"CreationRequested", "AttemptCompleted", "Completed"}
  /\ due' = TRUE
  /\ UNCHANGED <<statusVars, cmVars, timer>>

TimerFires ==
  /\ timer /\ due
  /\ timer' = FALSE
  /\ queued' = TRUE
  /\ UNCHANGED <<cmVars, due, unqueuedVars>>

-----------------------------------------------------------------------------
(* FrameworkStatusSync's other actions *)

\* With the ConfigMap and the clock as they are.
Alone(A) == A /\ UNCHANGED <<cmVars, timeVars>>

\* The supported changes of ExecutionType.
UserUpdateSpec ==
  \E s \in ExecutionTypes :
    /\ remote.spec = "Create" \/ (remote.spec = "Start" /\ s = "Stop")
    /\ FS!UserUpdateSpec(s)

\* A Framework in foreground deletion goes after its ConfigMap.
Vanish ==
  /\ InLag
  /\ Present(cmRemote) => cmRemote.owner # remote.uid
  /\ FS!Vanish

Users ==
  /\ InLag
  /\ \/ \E s \in ExecutionTypes : FS!UserCreate(s)
     \/ UserUpdateSpec
     \/ FS!UserDelete

UpdateStored(ok) == InLag /\ FS!UpdateStored(ok)

UpdateRemote ==
  \/ \E ok \in BOOLEAN : UpdateStored(ok)
  \/ FS!UpdateConflict
  \/ FS!UpdateFailed

Restart ==
  /\ FS!Restart
  /\ cmCached' = cmRemote
  /\ cmPending' = {}
  /\ timer' = FALSE
  /\ UNCHANGED <<cmRemote, due>>

-----------------------------------------------------------------------------
Informers == Alone(FS!Deliver) \/ DeliverConfigMap

Worker ==
  \/ Alone(FS!StartSync)
  \/ \E failing \in BOOLEAN : SyncBody(World(failing))
  \/ DeleteFrameworkCall
  \/ Alone(UpdateRemote)

GarbageCollect ==
  \/ /\ remote.deleting \/ remote.uid # cmRemote.owner
     /\ ConfigMapDeletedByOthers
  \/ ConfigMapVanishes
  \/ Alone(Vanish)

Cluster == ConfigMapDeletedByOthers \/ ConfigMapVanishes \/ Alone(Vanish)

Clock == TimeoutElapses \/ TimerFires

Next == Alone(Users) \/ Informers \/ Worker \/ Cluster \/ Clock \/ Restart

\* The processes, the garbage collector and the clock keep going; calls that
\* are made again and again succeed once.
Fairness ==
  /\ WF_vars(Alone(FS!Deliver)) /\ WF_vars(DeliverConfigMap)
  /\ WF_vars(Alone(FS!StartSync))
  /\ WF_vars(Alone(UpdateRemote))
  /\ SF_vars(SyncBody(World(FALSE)))
  /\ SF_vars(Alone(UpdateStored(TRUE)))
  /\ SF_vars(DeleteFrameworkCall)
  /\ WF_vars(GarbageCollect)
  /\ WF_vars(TimeoutElapses) /\ WF_vars(TimerFires)

Safety == Init /\ [][Next]_vars
FairSpec == Safety /\ Fairness

-----------------------------------------------------------------------------
(* Properties *)

\* The Framework, its persisted status, and whether the ConfigMap is its own.
persisted == remote.status.val
IsOwn(cm) == Present(cm) /\ FS!Exists(remote) /\ cm.owner = remote.uid

\* FrameworkAttemptCompleted: "ConfigMap does not exist and is not expected to
\* exist and will never exist".  No ConfigMap, with the Pods under it, is left
\* behind by an attempt that is over, not even one whose creation the
\* controller never heard the answer of.
NoConfigMapLeak ==
  IsOwn(cmRemote) => persisted.state \notin {"AttemptCompleted", "Completed"}

\* "The CompletionStatus has been persisted, so it is safe to delete the cm now":
\* the outcome of an attempt survives any crash after its Pods are given up.
DeletedAfterPersisted ==
  cmRemote.by = "completion" /\ FS!Exists(remote) /\ cmRemote.uid = persisted.cm
    => persisted.code # "None"

\* FrameworkAttemptDeletionRequested "must have been deletion requested
\* successfully": what the Status says is true in the ApiServer, though calls fail
\* and lose their answers and the decision was taken on the local cache.
DeletionRequestedIsTrue ==
  FS!Exists(remote) /\ persisted.state \in {"DeletionRequested", "Deleting"}
    /\ cmRemote.uid = persisted.cm
    => cmRemote.phase # "alive"

\* "The RetryPolicyStatus will never exceed the RetryPolicySpec", and a retry is
\* counted as accountable unless FancyRetryPolicy says otherwise, once each, over
\* failed writes and restarts.
RetriesWithinPolicy ==
  /\ MaxRetryCount >= 0 => persisted.retries <= MaxRetryCount
  /\ persisted.retries <= persisted.attempt
  /\ ~FancyRetryPolicy => persisted.retries = persisted.attempt

\* The Framework object, as clients see it, follows the documented lifecycle.
Lifecycle == INSTANCE FrameworkLifecycle WITH
               Codes <- Codes, NoCode <- "None",
               uid <- remote.uid, lastUid <- lastUid, state <- persisted.state,
               attempt <- persisted.attempt, cm <- persisted.cm,
               code <- persisted.code

ImplementsLifecycle == Lifecycle!Spec

\* ExecutionStop: "The Framework will be transitioned to FrameworkCompleted."
StopCompletes ==
  FS!Exists(remote) /\ remote.spec = "Stop"
    ~> ~FS!Exists(remote) \/ persisted.state = "Completed"

\* A Framework does not hang in a state it is only waiting in: for a ConfigMap that
\* may never show up in the local cache, for a deletion, for a retry delay.
Waiting ==
  persisted.state \in {"CreationRequested", "DeletionPending", "DeletionRequested",
                       "Deleting", "AttemptCompleted"}

NeverStuck == Waiting ~> ~Waiting

-----------------------------------------------------------------------------
(* What the repository says, and the code does not do *)

\* RetryPolicySpec: "If the ExecutionType is ExecutionStop [...] will not retry".
StopNeverRetries ==
  [][pc = "body" /\ f.spec = "Stop" /\ pc' = "persist"
       => f'.status.val.attempt = val.attempt]_vars

\* "ConfigMap is being deleted by others": an attempt completes as
\* ConfigMapExternalDeleted only if the controller did not delete the ConfigMap.
ExternalDeletedIsExternal ==
  FS!Exists(remote) /\ persisted.code = "ConfigMapExternalDeleted"
    /\ cmRemote.uid = persisted.cm
    => cmRemote.by = "others"
=============================================================================
