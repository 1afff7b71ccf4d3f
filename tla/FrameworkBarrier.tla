-------------------------- MODULE FrameworkBarrier --------------------------
(***************************************************************************)
(* FrameworkBarrier (barrier.go): the init container that holds the        *)
(* AppContainers of a Pod back until all Tasks of its Framework are ready. *)
(* It polls the Framework object, which the controller rescales, retries   *)
(* and persists meanwhile, and it tells the controller by its exit code    *)
(* whether to retry the Task (completion.go, RetryPolicySpec).             *)
(*                                                                         *)
(* Scope.  One FrameworkAttempt that does not complete; its Pods have no   *)
(* restartPolicy but Never.  A sync of a Task and the write of the Status  *)
(* it ends with are one step (FrameworkStatusSync), but for the creation   *)
(* of Pods, whose UIDs are persisted later or lost (TaskAttempt).  A poll  *)
(* of the barrier and what it does about it are one step.  A deletion is   *)
(* through in one step, and a retry may come after any delay.  A TaskRole  *)
(* stays in the Spec, with a TaskNumber of 0 when it is scaled down.       *)
(***************************************************************************)
EXTENDS CompletionCodes, FiniteSets

CONSTANTS
  Roles,           \* TaskRole names
  MaxNumber,       \* the largest TaskNumber
  Specs,           \* the values of Framework.Spec.TaskRoles: their TaskNumbers
  InitialSpec,     \* the one that the Framework is created with
  AppEnds,         \* how the AppContainers of a Pod may terminate
  CreationErrors,  \* what the predicates say of the errors of a Pod creation
  MaxRetryCount,   \* of the RetryPolicy of the Tasks, with FancyRetryPolicy
  MaxPods,         \* bound: Pods, of all names
  MaxFaults        \* bound: rescales, and deletions and evictions by others, together

ASSUME BarrierAssumption ==
  /\ IsFiniteSet(Roles) /\ MaxNumber \in Nat
  /\ Specs \subseteq [Roles -> 0 .. MaxNumber] /\ InitialSpec \in Specs
  /\ MaxRetryCount \in Int /\ MaxRetryCount >= ExtendedUnlimitedValue

ASSUME ContainersAssumption ==
  /\ {"", "barrier", "app", "Completed", "Error"} \subseteq Strings
  /\ AppEnds \subseteq Seq(ContainerStatus)

VARIABLES
  exists,    \* the Framework object exists
  spec,      \* its Spec
  status,    \* its Status: of each TaskRole, the Tasks
  created,   \* the Tasks whose PodUID is in the memory of the controller only
  pods,      \* by name: the Pod
  faults

vars == <<exists, spec, status, created, pods, faults>>

Names == Roles \X (1 .. MaxNumber)

-----------------------------------------------------------------------------
(* Pods and Tasks *)

Container(name, terminated, code, finished) ==
  [name |-> name, terminated |-> terminated,
   reason |-> IF code = 0 THEN "Completed" ELSE "Error", message |-> "",
   signal |-> 0, code |-> code, finished |-> finished]

Waiting == <<Container("app", FALSE, 0, 0)>>

\* Containers that have not run; a barrier that exits, so that the others do not
\* start; or one that lets them run to their ends
BarrierOnly(code) == <<Container("barrier", TRUE, code, 1)>> \o Waiting

AllRan(ends) == <<Container("barrier", TRUE, 0, 1)>> \o ends

BarrierCodes == {1, ContainerTransientConflictFailed, ContainerPermanentFailed}

ContainerStatuses ==
  {<<>>, Waiting} \cup {BarrierOnly(code) : code \in BarrierCodes}
                  \cup {AllRan(ends) : ends \in AppEnds}

Reasons == {"", "Evicted"}

\* The phase "barrier" includes that the Pod is not yet started.
Pod == [uid : Nat, phase : {"gone", "barrier", "app", "ended"}, reason : Reasons,
        containers : ContainerStatuses]

NoPod == [uid |-> 0, phase |-> "gone", reason |-> "", containers |-> <<>>]

Present(pod) == pod.phase # "gone"

Disappeared(pod) == [NoPod EXCEPT !.uid = pod.uid]

NoResult == [code |-> "none"]

\* TaskAttemptCompletionStatus.  pod: the containers of its PodCompletionStatus
Completion(result, containers) ==
  [code |-> result.code, type |-> result.type, pod |-> containers]

CompletionOfController(code) == Completion(OfController(code), <<>>)

HaveSucceeded(containers) ==
  \A i \in 1 .. Len(containers) : containers[i].terminated /\ ~HasFailed(containers[i])

HasSucceeded(pod) == pod.reason = "" /\ HaveSucceeded(pod.containers)

MatchablePod(reason, containers) ==
  [name |-> "", reason |-> reason, message |-> "", containers |-> containers]

CompletionOfPod(reason, containers) ==
  Completion(MatchCompletionCodeInfos(MatchablePod(reason, containers)), containers)

\* A transient rejection does not complete the attempt: the creation is tried again.
Rejections ==
  {ClassifyPodCreationError(err) : err \in CreationErrors} \ {OfController(PodCreationTransientError)}

Completions ==
  {NoResult}
  \cup {CompletionOfController(code) : code \in {PodExternalDeleted, DeleteTaskRequested}}
  \cup {Completion(result, <<>>) : result \in Rejections}
  \cup {Completion(OfController(Succeeded), containers) :
           containers \in {cs \in ContainerStatuses : HaveSucceeded(cs)}}
  \cup {CompletionOfPod(reason, containers) : reason \in Reasons, containers \in ContainerStatuses}

\* TaskStatus.  pod: PodUID, 0 while it is nil; ip: PodIP is not empty; result:
\* its CompletionStatus; retries: AccountableRetriedCount.
Task ==
  [pod : Nat, ip : BOOLEAN, result : Completions, completed : BOOLEAN,
   deletionPending : BOOLEAN, retries : Nat]

NewTask ==
  [pod |-> 0, ip |-> FALSE, result |-> NoResult, completed |-> FALSE,
   deletionPending |-> FALSE, retries |-> 0]

NewAttemptWithIP(task, retries) ==   \* a mutant
  [task EXCEPT !.pod = 0, !.result = NoResult, !.retries = retries]

NewAttempt(task, retries) ==
  [task EXCEPT !.pod = 0, !.ip = FALSE, !.result = NoResult, !.retries = retries]

Init ==
  /\ exists = TRUE
  /\ spec = InitialSpec
  /\ status = [r \in Roles |-> [i \in 1 .. spec[r] |-> NewTask]]
  /\ created = {}
  /\ pods = [t \in Names |-> NoPod]
  /\ faults = 0

InStatus(t) == t[2] <= Len(status[t[1]])
TaskAt(t) == status[t[1]][t[2]]
InSpec(t) == t[2] <= spec[t[1]]

SetTask(t, task) == status' = [status EXCEPT ![t[1]][t[2]] = task]

Fault == faults < MaxFaults /\ faults' = faults + 1

-----------------------------------------------------------------------------
(* The barrier *)

IsTaskReadyRunning(task) == ~task.deletionPending /\ task.ip /\ ~task.completed  \* a mutant

\* A completed Task was ready, and stays it.
IsTaskReady(task) == ~task.deletionPending /\ task.ip

TasksOfSpec == {t \in Names : InSpec(t)}

\* The Tasks beyond the Spec may not yet be marked as DeletionPending.
ReadyTasks == {t \in TasksOfSpec : InStatus(t) /\ IsTaskReady(TaskAt(t))}

\* The code counts both in one loop over the TaskRoles of the Spec.
IsBarrierPassed == Cardinality(ReadyTasks) >= Cardinality(TasksOfSpec)

Ended(pod, reason, containers) ==
  [pod EXCEPT !.phase = "ended", !.reason = reason, !.containers = containers]

\* exit: the AppContainers do not start.
BarrierExits(t, code) ==
  pods' = [pods EXCEPT ![t] = Ended(@, "", BarrierOnly(code))]

\* newConfig and buildKubeConfig, before it polls
BarrierMisconfigured(t) ==
  /\ pods[t].phase = "barrier"
  /\ \E code \in {ContainerPermanentFailed, 1} : BarrierExits(t, code)
  /\ UNCHANGED <<exists, spec, status, created, faults>>

\* dumpFramework and generateInjector may fail to write their files.
BarrierPasses(t) ==
  /\ pods[t].phase = "barrier"
  /\ exists /\ IsBarrierPassed
  /\ \/ pods' = [pods EXCEPT ![t].phase = "app"]
     \/ BarrierExits(t, 1)
  /\ UNCHANGED <<exists, spec, status, created, faults>>

\* A missing Framework stops the polling at once; otherwise the last poll before
\* the timeout tells: the Framework could not be read or decompressed, or it is
\* not ready.
BarrierFails(t) ==
  /\ pods[t].phase = "barrier"
  /\ \/ ~exists /\ BarrierExits(t, ContainerPermanentFailed)
     \/ BarrierExits(t, 1)
     \/ exists /\ ~IsBarrierPassed /\ BarrierExits(t, ContainerTransientConflictFailed)
  /\ UNCHANGED <<exists, spec, status, created, faults>>

-----------------------------------------------------------------------------
(* The kubelet *)

AppContainersTerminate(t) ==
  /\ pods[t].phase = "app"
  /\ \E ends \in AppEnds :
       pods' = [pods EXCEPT ![t] = Ended(@, "", AllRan(ends))]
  /\ UNCHANGED <<exists, spec, status, created, faults>>

\* A failure of the Pod that is none of its containers'
EvictPod(t) ==
  /\ pods[t].phase \in {"barrier", "app"}
  /\ pods' = [pods EXCEPT ![t] = Ended(@, "Evicted", Waiting)]
  /\ Fault
  /\ UNCHANGED <<exists, spec, status, created>>

-----------------------------------------------------------------------------
(* The controller.  It syncs a Framework whose last Status is persisted. *)

Syncs(t) == exists /\ created = {} /\ InStatus(t)

\* syncFrameworkScale
Scaled(tasks, number) ==
  LET size == IF Len(tasks) < number THEN number ELSE Len(tasks)
  IN  [i \in 1 .. size |->
         IF i > Len(tasks) THEN NewTask
         ELSE IF i <= number \/ tasks[i].deletionPending THEN tasks[i]
         ELSE [tasks[i] EXCEPT
                 !.deletionPending = TRUE,
                 !.result = IF @ = NoResult THEN CompletionOfController(DeleteTaskRequested)
                            ELSE @]]

Droppable(task) == task.deletionPending /\ task.completed

ReusedTask(task) ==   \* a mutant
  [task EXCEPT !.deletionPending = FALSE, !.result = NoResult]

ReplacedTask(task) == NewTask

\* compactFrameworkScale drops the tail that is droppable, and replaces the rest.
IsKeptLength(k, tasks, number) ==
  /\ k <= Len(tasks)
  /\ \A i \in k + 1 .. Len(tasks) : i > number /\ Droppable(tasks[i])
  /\ k > number => ~Droppable(tasks[k])

Compacted(k, tasks, number) ==
  [i \in 1 .. k |->
     IF i <= number /\ Droppable(tasks[i]) THEN ReplacedTask(tasks[i]) ELSE tasks[i]]

\* What is new is persisted before it is acted on.
Rescale ==
  /\ exists /\ created = {}
  /\ LET scaled == [r \in Roles |-> Scaled(status[r], spec[r])]
     IN  IF scaled # status
           THEN status' = scaled
           ELSE \E kept \in [Roles -> 0 .. MaxNumber] :
                  /\ \A r \in Roles : IsKeptLength(kept[r], status[r], spec[r])
                  /\ status' = [r \in Roles |-> Compacted(kept[r], status[r], spec[r])]
  /\ status' # status
  /\ UNCHANGED <<exists, spec, created, pods, faults>>

\* A sync may create several Pods before it ends.
IsCreationPending(t) ==
  /\ exists /\ InStatus(t) /\ t \notin created
  /\ TaskAt(t).pod = 0 /\ TaskAt(t).result = NoResult /\ ~TaskAt(t).deletionPending

\* The UID comes into the Status in memory, or it is lost: with the answer of the
\* call, or with the memory of a controller that restarts before it persists it.
CreatePod(t) ==
  /\ IsCreationPending(t)
  /\ ~Present(pods[t]) /\ MapThenSumSet(LAMBDA n : pods[n].uid, Names) < MaxPods
  /\ pods' = [pods EXCEPT ![t] = [NoPod EXCEPT !.uid = pods[t].uid + 1, !.phase = "barrier"]]
  /\ created' \in {created, created \cup {t}}
  /\ UNCHANGED <<exists, spec, status, faults>>

PersistPods ==
  /\ exists /\ created # {}
  /\ status' = [r \in Roles |->
                  [i \in 1 .. Len(status[r]) |->
                     IF <<r, i>> \in created THEN [status[r][i] EXCEPT !.pod = pods[<<r, i>>].uid]
                     ELSE status[r][i]]]
  /\ created' = {}
  /\ UNCHANGED <<exists, spec, pods, faults>>

PodCreationFails(t) ==
  /\ IsCreationPending(t) /\ created = {}
  /\ \E result \in Rejections : SetTask(t, [TaskAt(t) EXCEPT !.result = Completion(result, <<>>)])
  /\ UNCHANGED <<exists, spec, created, pods, faults>>

\* A mutant: the PodIP of whatever Pod has the name, managed or not
ReportIPByName(t) ==
  /\ Syncs(t)
  /\ TaskAt(t).result = NoResult
  /\ Present(pods[t])
  /\ SetTask(t, [TaskAt(t) EXCEPT !.ip = TRUE])
  /\ status' # status
  /\ UNCHANGED <<exists, spec, created, pods, faults>>

ReportIP(t) ==
  /\ Syncs(t)
  /\ TaskAt(t).pod # 0 /\ TaskAt(t).result = NoResult
  /\ Present(pods[t])
  /\ SetTask(t, [TaskAt(t) EXCEPT !.ip = TRUE])
  /\ status' # status
  /\ UNCHANGED <<exists, spec, created, pods, faults>>

\* The Pod ended or was deleted by others, or the Task is to be deleted.  A Pod that was
\* evicted before it started has no PodIP; a PodIP that was reported is not taken back.
CompleteTaskAttempt(t) ==
  LET task == TaskAt(t)
      pod == pods[t]
  IN  /\ Syncs(t)
      /\ task.result = NoResult
      /\ \/ /\ task.pod # 0 /\ pod.phase = "ended"
            /\ \E ip \in IF pod.reason = "" THEN {TRUE} ELSE {task.ip, TRUE} :
                 SetTask(t, [task EXCEPT
                               !.ip = ip,
                               !.result = IF HasSucceeded(pod)
                                            THEN Completion(OfController(Succeeded), pod.containers)
                                            ELSE CompletionOfPod(pod.reason, pod.containers)])
         \/ /\ task.pod # 0 /\ ~Present(pod)
            /\ SetTask(t, [task EXCEPT !.result = CompletionOfController(PodExternalDeleted)])
         \/ /\ task.deletionPending
            /\ SetTask(t, [task EXCEPT !.result = CompletionOfController(DeleteTaskRequested)])
      /\ UNCHANGED <<exists, spec, created, pods, faults>>

\* The attempt is completed, or the Pod is not the one that the Status knows.
DeletePod(t) ==
  /\ Syncs(t)
  /\ Present(pods[t])
  /\ TaskAt(t).result # NoResult \/ TaskAt(t).pod = 0
  /\ pods' = [pods EXCEPT ![t] = Disappeared(@)]
  /\ UNCHANGED <<exists, spec, status, created, faults>>

NameOf(code) ==
  IF code = DeleteTaskRequested THEN "DeleteTaskRequested" ELSE "another one"

\* Once its Pod is gone
RetryOrCompleteTask(t) ==
  LET task == TaskAt(t)
      decision == ShouldRetry([MaxRetryCount |-> MaxRetryCount, FancyRetryPolicy |-> TRUE],
                              task.retries, NameOf(task.result.code), task.result.type, 0)
  IN  /\ Syncs(t)
      /\ task.result # NoResult /\ ~task.completed
      /\ ~Present(pods[t])
      /\ IF decision.ShouldRetry
           THEN SetTask(t, NewAttempt(task, task.retries + (IF decision.IsAccountable THEN 1 ELSE 0)))
           ELSE SetTask(t, [task EXCEPT !.completed = TRUE])
      /\ UNCHANGED <<exists, spec, created, pods, faults>>

-----------------------------------------------------------------------------
(* The others *)

RescaleByUser ==
  /\ spec' \in Specs \ {spec}
  /\ Fault
  /\ UNCHANGED <<exists, status, created, pods>>

FrameworkDeletedByUser ==
  /\ exists /\ exists' = FALSE
  /\ created' = {}
  /\ Fault
  /\ UNCHANGED <<spec, status, pods>>

PodDeletedByOthers(t) ==
  /\ Present(pods[t])
  /\ pods' = [pods EXCEPT ![t] = Disappeared(@)]
  /\ Fault
  /\ UNCHANGED <<exists, spec, status, created>>

Barrier(t) == BarrierMisconfigured(t) \/ BarrierPasses(t) \/ BarrierFails(t)

Kubelet(t) == AppContainersTerminate(t) \/ EvictPod(t)

SyncTask(t) ==
  \/ CreatePod(t) \/ PodCreationFails(t) \/ ReportIP(t)
  \/ CompleteTaskAttempt(t) \/ DeletePod(t) \/ RetryOrCompleteTask(t)

Next ==
  \/ \E t \in Names : Barrier(t) \/ Kubelet(t) \/ SyncTask(t) \/ PodDeletedByOthers(t)
  \/ Rescale \/ PersistPods
  \/ RescaleByUser \/ FrameworkDeletedByUser

Safety == Init /\ [][Next]_vars

-----------------------------------------------------------------------------
(* Properties *)

\* Whatever is rescaled, retried or replaced, the Status consists of Tasks, and each
\* completed one has the CompletionStatus that the decisions about it dereference.
TypeOK ==
  /\ exists \in BOOLEAN
  /\ spec \in [Roles -> 0 .. MaxNumber]
  /\ status \in [Roles -> Seq(Task)]
  /\ \A r \in Roles :
       /\ Len(status[r]) <= MaxNumber
       /\ \A i \in 1 .. Len(status[r]) :
            status[r][i].completed => status[r][i].result # NoResult
  /\ created \subseteq Names
  /\ pods \in [Names -> Pod]
  /\ faults \in Nat

\* "Any Task in the Framework is able to discover all other Tasks": the addresses that
\* the barrier injects are those of the Pods that the controller manages, each the
\* last one of its name.  None is left from an earlier attempt, from a Task that was
\* replaced, or from a Pod whose UID was lost, so that it is deleted again; and no
\* newer Pod comes up behind an address before the Status forgets it.
InjectsCurrentPods ==
  exists /\ IsBarrierPassed =>
    \A t \in TasksOfSpec :
      InStatus(t) /\ TaskAt(t).pod # 0 /\ TaskAt(t).pod = pods[t].uid

\* "Start the AppContainers in the Pod only after its PodUID is persisted in the
\* Framework object": by polling, a Pod of a Task of the Spec starts them after the
\* controller knows it, also when the UID of its creation was lost before, or the
\* name was used by an earlier attempt or Task.
StartsAfterPersisted ==
  [][pods' # pods => \A t \in Names :
       pods[t].phase # "app" /\ pods'[t].phase = "app" /\ InSpec(t) =>
         InStatus(t) /\ TaskAt(t).pod = pods[t].uid]_vars

\* "All AppContainers of all Tasks in the Framework will be executed in an
\* all-or-nothing fashion": once the barrier is open for one Task it stays open for
\* all, whatever becomes of those that went through, until the user changes the
\* Framework or a Task is retried or replaced.
AllOrNothing ==
  [][/\ exists /\ exists' /\ spec' = spec
     /\ status' # status
     /\ ~ \E t \in Names :
          InSpec(t) /\ InStatus(t) /\ TaskAt(t).pod # 0 /\ TaskAt(t)'.pod = 0
     /\ IsBarrierPassed
     => IsBarrierPassed']_vars

\* A configured PodPattern matches a Pod whose containers ended like that.
IsConfigured(containers) ==
  \E reason \in Reasons, i \in 1 .. Len(PodFailureSpec) :
    MatchesInfo(MatchablePod(reason, containers), PodFailureSpec[i])

\* Its Task is completed or retried.
AttemptEnds(t) ==
  /\ InStatus(t) /\ InStatus(t)'
  /\ TaskAt(t).result # NoResult /\ ~TaskAt(t).completed
  /\ TaskAt(t)'.completed \/ TaskAt(t)'.result = NoResult

\* What the barrier exits with ("to tell controller to retry", "to back off retry",
\* "not to retry", exit in barrier.go) is what happens to its Task, however often and
\* whatever PodFailureSpec is configured: a conflict is retried and not accounted
\* for, a permanent failure ends the Task, and an unknown one, unless a configured
\* PodPattern says what it is, counts as a retry.
BarrierExitHonoured ==
  [][status' # status => \A t \in Names :
       AttemptEnds(t) /\ TaskAt(t).result.pod # <<>> =>
         LET exit == TaskAt(t).result.pod[1].code
         IN  /\ exit = ContainerTransientConflictFailed =>
                  ~TaskAt(t)'.completed /\ TaskAt(t)'.retries = TaskAt(t).retries
             /\ exit = ContainerPermanentFailed => TaskAt(t)'.completed
             /\ exit = 1 /\ ~IsConfigured(TaskAt(t).result.pod) /\ ~TaskAt(t)'.completed =>
                  TaskAt(t)'.retries = TaskAt(t).retries + 1]_vars

\* The completion of an attempt whose Pod failed is one that the user manual promises
\* for its containers (IsAsDocumented), with several of them failed, none, or some
\* that a configured pattern matches; and PodCreationTransientError "will never be
\* used to complete a TaskAttempt" (completion.go).
CompletionCodeAsDocumented ==
  \A t \in Names :
    InStatus(t) /\ TaskAt(t).result # NoResult =>
      LET result == TaskAt(t).result
      IN  /\ result.code # Succeeded => IsAsDocumented(result.pod, result.code)
          /\ result.code # PodCreationTransientError
=============================================================================
