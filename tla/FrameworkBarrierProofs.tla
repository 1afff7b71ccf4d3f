----------------------- MODULE FrameworkBarrierProofs -----------------------
(***************************************************************************)
(* What FrameworkBarrier promises, proved for every Framework, Spec,       *)
(* PodFailureSpec and bound.                                               *)
(*                                                                         *)
(* The argument.  The barrier counts, but what it has to know is which     *)
(* Tasks are ready: ReadyTasks is a part of TasksOfSpec, so as many of the *)
(* one as of the other means all.  That a ready Task is one whose Pod the  *)
(* Status knows is IPsArePersisted, which needs that a name is reused by   *)
(* another Pod only while its Task has no PodUID.                          *)
(* That a Task stays ready is a step over each action that changes the     *)
(* Status.  What becomes of an exit code is followed through TypeOK: a     *)
(* CompletionStatus is what its containers are matched to, so the first    *)
(* container tells which Pod it was of.                                    *)
(***************************************************************************)
EXTENDS FrameworkBarrier, CompletionCodesProofs, FiniteSetTheorems, TLAPS

-----------------------------------------------------------------------------
(* The Status as a value *)

\* A Task of the Status is a Task.
LEMMA TaskAtType ==
  ASSUME TypeOK, NEW t \in Names, InStatus(t)
  PROVE  TaskAt(t) \in Task
BY DEF TypeOK, InStatus, TaskAt, Names

\* To set a Task leaves the lengths and the other Tasks alone.
LEMMA SetTaskEffect ==
  ASSUME TypeOK, NEW t \in Names, InStatus(t), NEW task, SetTask(t, task)
  PROVE  /\ DOMAIN status' = Roles
         /\ \A r \in Roles : Len(status'[r]) = Len(status[r])
         /\ \A r \in Roles : \A i \in 1 .. Len(status[r]) :
              status'[r][i] = IF <<r, i>> = t THEN task ELSE status[r][i]
<1>1. t[1] \in Roles /\ t[2] \in 1 .. Len(status[t[1]]) /\ t = <<t[1], t[2]>>
  BY DEF Names, InStatus, TypeOK
<1>2. status \in [Roles -> Seq(Task)]
  BY DEF TypeOK
<1>3. status' = [status EXCEPT ![t[1]] = [status[t[1]] EXCEPT ![t[2]] = task]]
  BY <1>1, <1>2 DEF SetTask
<1> QED
  BY <1>1, <1>2, <1>3

\* Nothing completes a Task with the nil CompletionStatus.
LEMMA CompletionIsNotNil ==
  ASSUME NEW result, NEW containers
  PROVE  Completion(result, containers) # NoResult
<1>1. "pod" \in DOMAIN Completion(result, containers)
  BY DEF Completion
<1>2. "pod" \notin DOMAIN NoResult
  BY DEF NoResult
<1> QED
  BY <1>1, <1>2

\* What TypeOK says of a Task, of those of a TaskRole, and of the Status.
TaskOK(task) == task \in Task /\ (task.completed => task.result # NoResult)

TasksOK(tasks) ==
  tasks \in Seq(Task) /\ Len(tasks) <= MaxNumber /\ \A i \in 1 .. Len(tasks) : TaskOK(tasks[i])

StatusOK == status \in [Roles -> Seq(Task)] /\ \A r \in Roles : TasksOK(status[r])

LEMMA TypeOfTasks ==
  ASSUME TypeOK, NEW r \in Roles
  PROVE  TasksOK(status[r])
BY DEF TypeOK, TasksOK, TaskOK

LEMMA TypeOfNextStatus ==
  ASSUME StatusOK', exists' \in BOOLEAN, spec' \in [Roles -> 0 .. MaxNumber],
         created' \subseteq Names, pods' \in [Names -> Pod], faults' \in Nat
  PROVE  TypeOK'
BY DEF StatusOK, TasksOK, TaskOK, TypeOK

\* A tuple of proper Tasks
LEMMA TupleOfTasks ==
  ASSUME BarrierAssumption, NEW n \in Nat, n <= MaxNumber, NEW tasks,
         tasks = [i \in 1 .. n |-> tasks[i]], \A i \in 1 .. n : TaskOK(tasks[i])
  PROVE  TasksOK(tasks)
<1>1. \A i \in 1 .. n : tasks[i] \in Task
  BY DEF TaskOK
<1>2. tasks \in Seq(Task) /\ Len(tasks) = n
  BY <1>1
<1> QED
  BY <1>2 DEF TasksOK

\* A step that sets a Task to a proper one keeps the Status proper.
LEMMA SetTaskType ==
  ASSUME TypeOK, NEW t \in Names, InStatus(t), NEW task, TaskOK(task), SetTask(t, task)
  PROVE  StatusOK'
<1>1. t[1] \in Roles /\ t[2] \in 1 .. Len(status[t[1]])
  BY DEF Names, InStatus, TypeOK
<1>2. status \in [Roles -> Seq(Task)]
  BY DEF TypeOK
<1>3. status' = [status EXCEPT ![t[1]] = [status[t[1]] EXCEPT ![t[2]] = task]]
  BY <1>1, <1>2 DEF SetTask
<1>4. [status[t[1]] EXCEPT ![t[2]] = task] \in Seq(Task)
  BY <1>1, <1>2 DEF TaskOK
<1>5. status' \in [Roles -> Seq(Task)]
  BY <1>2, <1>3, <1>4
<1>6. ASSUME NEW r \in Roles
      PROVE  TasksOK(status'[r])
  <2>1. /\ Len(status'[r]) = Len(status[r]) /\ Len(status[r]) <= MaxNumber
        /\ \A i \in 1 .. Len(status[r]) :
             status'[r][i] = IF <<r, i>> = t THEN task ELSE status[r][i]
    BY <1>6, SetTaskEffect DEF TypeOK
  <2>2. \A i \in 1 .. Len(status[r]) : TaskOK(status[r][i])
    BY <1>6, TypeOfTasks DEF TasksOK
  <2>3. status'[r] \in Seq(Task)
    BY <1>5
  <2> QED
    BY <2>1, <2>2, <2>3 DEF TasksOK
<1> QED
  BY <1>5, <1>6 DEF StatusOK

LEMMA PodType ==
  ASSUME TypeOK, NEW t \in Names, NEW pod \in Pod, pods' = [pods EXCEPT ![t] = pod]
  PROVE  pods' \in [Names -> Pod]
BY DEF TypeOK

-----------------------------------------------------------------------------
(* Type correctness *)

LEMMA InitType == Init => TypeOK
<1> SUFFICES ASSUME Init PROVE TypeOK
  OBVIOUS
<1> USE BarrierAssumption
<1>1. spec \in [Roles -> 0 .. MaxNumber]
  BY DEF Init
<1>2. NewTask \in Task /\ ~NewTask.completed
  BY DEF NewTask, Task, Completions
<1>3. \A r \in Roles : status[r] = [i \in 1 .. spec[r] |-> NewTask]
  BY DEF Init
<1>4. \A r \in Roles : spec[r] \in Nat /\ spec[r] <= MaxNumber
  BY <1>1
<1>5. ASSUME NEW r \in Roles
      PROVE  status[r] \in Seq(Task) /\ Len(status[r]) = spec[r]
  <2>1. status[r] = [i \in 1 .. spec[r] |-> NewTask]
    BY <1>3
  <2>2. spec[r] \in Nat /\ \A i \in 1 .. spec[r] : NewTask \in Task
    BY <1>2, <1>4
  <2> QED
    BY <2>1, <2>2
<1>6. NoPod \in Pod
  BY DEF NoPod, Pod, Reasons, ContainerStatuses
<1>7. status \in [Roles -> Seq(Task)]
  BY <1>5 DEF Init
<1>8. pods \in [Names -> Pod]
  BY <1>6 DEF Init
<1>9. \A r \in Roles : \A i \in 1 .. Len(status[r]) : ~status[r][i].completed
  BY <1>2, <1>3, <1>4, <1>5
<1> QED
  BY <1>1, <1>4, <1>5, <1>7, <1>8, <1>9 DEF Init, TypeOK

\* Rescaling makes proper Tasks of proper ones.
LEMMA ScaledType ==
  ASSUME BarrierAssumption, TypeOK, NEW r \in Roles
  PROVE  TasksOK(Scaled(status[r], spec[r]))
<1> DEFINE old == status[r]
           number == spec[r]
           size == IF Len(old) < number THEN number ELSE Len(old)
           requested == CompletionOfController(DeleteTaskRequested)
           Marked(task) == [task EXCEPT !.deletionPending = TRUE,
                                        !.result = IF @ = NoResult THEN requested ELSE @]
           Op(i) == IF i > Len(old) THEN NewTask
                    ELSE IF i <= number \/ old[i].deletionPending THEN old[i]
                    ELSE Marked(old[i])
<1>1. TasksOK(old) /\ Len(old) \in Nat /\ Len(old) <= MaxNumber
  BY TypeOfTasks DEF TypeOK
<1>2. number \in Nat /\ number <= MaxNumber
  BY DEF TypeOK, BarrierAssumption
<1>3. size \in Nat /\ size <= MaxNumber
  BY <1>1, <1>2
<1>4. requested \in Completions /\ requested # NoResult
  BY CompletionIsNotNil DEF Completions, CompletionOfController
<1>5. Scaled(old, number) = [i \in 1 .. size |-> Op(i)]
  BY DEF Scaled
<1> HIDE DEF requested
<1>6. ASSUME NEW task, TaskOK(task)
      PROVE  TaskOK(Marked(task))
  <2> DEFINE result == IF task.result = NoResult THEN requested ELSE task.result
  <2>1. result \in Completions /\ result # NoResult
    BY <1>4, <1>6 DEF TaskOK, Task
  <2>2. Marked(task) = [task EXCEPT !.deletionPending = TRUE, !.result = result]
    BY <1>6 DEF TaskOK, Task
  <2> HIDE DEF result, Marked
  <2>3. Marked(task) \in Task /\ Marked(task).result = result
    BY <1>6, <2>1, <2>2 DEF TaskOK, Task
  <2> QED
    BY <2>1, <2>3 DEF TaskOK
<1>7. TaskOK(NewTask)
  BY DEF NewTask, TaskOK, Task, Completions
<1>8. \A i \in 1 .. size : i <= Len(old) => TaskOK(old[i])
  BY <1>1, <1>3 DEF TasksOK
<1> HIDE DEF Marked, size, old, number
<1>9. \A i \in 1 .. size : TaskOK(Op(i))
  BY <1>1, <1>3, <1>6, <1>7, <1>8
<1>10. Scaled(old, number) = [i \in 1 .. size |-> Scaled(old, number)[i]]
       /\ \A i \in 1 .. size : Scaled(old, number)[i] = Op(i)
  BY <1>5
<1> HIDE DEF Op
<1> QED
  BY <1>3, <1>9, <1>10, TupleOfTasks DEF old, number

LEMMA CompactedType ==
  ASSUME BarrierAssumption, TypeOK, NEW r \in Roles,
         NEW k \in Nat, IsKeptLength(k, status[r], spec[r])
  PROVE  TasksOK(Compacted(k, status[r], spec[r]))
<1> DEFINE old == status[r]
           number == spec[r]
           Op(i) == IF i <= number /\ Droppable(old[i]) THEN ReplacedTask(old[i]) ELSE old[i]
<1>1. TasksOK(old) /\ Len(old) \in Nat /\ Len(old) <= MaxNumber
  BY TypeOfTasks DEF TypeOK
<1>2. k <= Len(old)
  BY DEF IsKeptLength
<1>3. k <= MaxNumber
  BY <1>1, <1>2 DEF BarrierAssumption
<1>4. Compacted(k, old, number) = [i \in 1 .. k |-> Op(i)]
  BY DEF Compacted
<1>5. \A i \in 1 .. k : TaskOK(old[i])
  BY <1>1, <1>2 DEF TasksOK
<1>6. \A task : TaskOK(ReplacedTask(task))
  BY DEF ReplacedTask, NewTask, TaskOK, Task, Completions
<1> HIDE DEF old, number
<1>7. \A i \in 1 .. k : TaskOK(Op(i))
  BY <1>5, <1>6
<1>8. Compacted(k, old, number) = [i \in 1 .. k |-> Compacted(k, old, number)[i]]
      /\ \A i \in 1 .. k : Compacted(k, old, number)[i] = Op(i)
  BY <1>4
<1> HIDE DEF Op
<1> QED
  BY <1>3, <1>7, <1>8, TupleOfTasks DEF old, number

\* What the Status is left with when nothing of it changes.
LEMMA StatusKept ==
  ASSUME TypeOK, UNCHANGED status
  PROVE  StatusOK'
BY TypeOfTasks DEF TypeOK, StatusOK, TasksOK

LEMMA PodsKept ==
  ASSUME TypeOK, UNCHANGED pods
  PROVE  pods' \in [Names -> Pod]
BY DEF TypeOK

\* The operations on a Pod
LEMMA PodOperations ==
  ASSUME NEW pod \in Pod
  PROVE  /\ Disappeared(pod) \in Pod
         /\ \A reason \in Reasons : \A containers \in ContainerStatuses :
              Ended(pod, reason, containers) \in Pod
BY DEF Pod, Disappeared, NoPod, Ended, Reasons, ContainerStatuses

LEMMA BarrierExitType ==
  ASSUME TypeOK, NEW t \in Names, NEW code \in BarrierCodes, BarrierExits(t, code)
  PROVE  pods' \in [Names -> Pod]
<1>1. pods[t] \in Pod
  BY DEF TypeOK
<1>2. BarrierOnly(code) \in ContainerStatuses /\ "" \in Reasons
  BY DEF ContainerStatuses, Reasons
<1>3. Ended(pods[t], "", BarrierOnly(code)) \in Pod
  BY <1>1, <1>2, PodOperations
<1> QED
  BY <1>3, PodType DEF BarrierExits, TypeOK

\* The Pods stay Pods, whatever the barrier, the kubelet or another one does to one.
LEMMA PodStepType ==
  ASSUME TypeOK, NEW t \in Names, Barrier(t) \/ Kubelet(t) \/ PodDeletedByOthers(t)
  PROVE  TypeOK'
<1>1. pods[t] \in Pod
  BY DEF TypeOK
<1>2. ASSUME pods' \in [Names -> Pod], UNCHANGED <<exists, spec, status, created>>, faults' \in Nat
      PROVE  TypeOK'
  BY <1>2, StatusKept, TypeOfNextStatus DEF TypeOK
<1>3. faults \in Nat
  BY DEF TypeOK
<1>4. CASE BarrierMisconfigured(t)
  BY <1>2, <1>3, <1>4, BarrierExitType DEF BarrierMisconfigured, BarrierCodes
<1>5. CASE BarrierPasses(t)
  <2>1. [pods[t] EXCEPT !.phase = "app"] \in Pod
    BY <1>1 DEF Pod
  <2>2. CASE pods' = [pods EXCEPT ![t].phase = "app"]
    BY <1>2, <1>3, <1>5, <2>1, <2>2, PodType DEF BarrierPasses, TypeOK
  <2>3. CASE BarrierExits(t, 1)
    BY <1>2, <1>3, <1>5, <2>3, BarrierExitType DEF BarrierPasses, BarrierCodes
  <2> QED
    BY <1>5, <2>2, <2>3 DEF BarrierPasses
<1>6. CASE BarrierFails(t)
  BY <1>2, <1>3, <1>6, BarrierExitType DEF BarrierFails, BarrierCodes
<1>7. CASE AppContainersTerminate(t)
  <2>1. PICK ends \in AppEnds : pods' = [pods EXCEPT ![t] = Ended(@, "", AllRan(ends))]
    BY <1>7 DEF AppContainersTerminate
  <2>2. AllRan(ends) \in ContainerStatuses /\ "" \in Reasons
    BY DEF ContainerStatuses, Reasons
  <2>3. Ended(pods[t], "", AllRan(ends)) \in Pod
    BY <1>1, <2>2, PodOperations
  <2>4. pods' \in [Names -> Pod]
    BY <2>1, <2>3, PodType DEF TypeOK
  <2> QED
    BY <1>2, <1>3, <1>7, <2>4 DEF AppContainersTerminate
<1>8. CASE EvictPod(t)
  <2>1. Waiting \in ContainerStatuses /\ "Evicted" \in Reasons
    BY DEF ContainerStatuses, Reasons
  <2>2. Ended(pods[t], "Evicted", Waiting) \in Pod
    BY <1>1, <2>1, PodOperations
  <2>3. pods' \in [Names -> Pod]
    BY <1>8, <2>2, PodType DEF EvictPod, TypeOK
  <2> QED
    BY <1>2, <1>3, <1>8, <2>3 DEF EvictPod, Fault
<1>9. CASE PodDeletedByOthers(t)
  <2>1. pods' \in [Names -> Pod]
    BY <1>1, <1>9, PodOperations, PodType DEF PodDeletedByOthers, TypeOK
  <2> QED
    BY <1>2, <1>3, <1>9, <2>1 DEF PodDeletedByOthers, Fault
<1> QED
  BY <1>4, <1>5, <1>6, <1>7, <1>8, <1>9 DEF Barrier, Kubelet

\* A Task keeps what is proper of it when its attempt goes on, completes or is retried.
LEMMA TaskOperations ==
  ASSUME NEW task, TaskOK(task)
  PROVE  /\ TaskOK([task EXCEPT !.ip = TRUE])
         /\ \A retries \in Nat : ~task.completed => TaskOK(NewAttempt(task, retries))
         /\ task.result # NoResult => TaskOK([task EXCEPT !.completed = TRUE])
         /\ \A pod \in Nat : TaskOK([task EXCEPT !.pod = pod])
         /\ \A result \in Completions \ {NoResult} :
              /\ TaskOK([task EXCEPT !.result = result])
              /\ \A ip \in BOOLEAN : TaskOK([task EXCEPT !.ip = ip, !.result = result])
<1>1. task \in Task /\ (task.completed => task.result # NoResult)
  BY DEF TaskOK
<1>2. NoResult \in Completions
  BY DEF Completions
<1> QED
  BY <1>1, <1>2 DEF TaskOK, Task, NewAttempt

LEMMA CompletionTypes ==
  ASSUME NEW reason \in Reasons, NEW containers \in ContainerStatuses
  PROVE  /\ HaveSucceeded(containers) =>
              Completion(OfController(Succeeded), containers) \in Completions \ {NoResult}
         /\ CompletionOfPod(reason, containers) \in Completions \ {NoResult}
         /\ CompletionOfController(PodExternalDeleted) \in Completions \ {NoResult}
         /\ CompletionOfController(DeleteTaskRequested) \in Completions \ {NoResult}
         /\ \A result \in Rejections : Completion(result, <<>>) \in Completions \ {NoResult}
<1>1. \A result, cs : Completion(result, cs) # NoResult
  BY CompletionIsNotNil
<1> QED
  BY <1>1 DEF Completions, CompletionOfPod, CompletionOfController

\* A sync of one Task sets it to a proper one.
LEMMA SyncTaskType ==
  ASSUME BarrierAssumption, TypeOK, NEW t \in Names, SyncTask(t)
  PROVE  TypeOK'
<1>1. InStatus(t)
  BY DEF SyncTask, CreatePod, IsCreationPending, PodCreationFails, ReportIP,
         CompleteTaskAttempt, DeletePod, RetryOrCompleteTask, Syncs
<1>2. TaskOK(TaskAt(t)) /\ pods[t] \in Pod
  BY <1>1, TypeOfTasks DEF Names, InStatus, TaskAt, TasksOK, TypeOK
<1>3. ASSUME NEW task, TaskOK(task), SetTask(t, task),
             UNCHANGED <<exists, spec, created, pods, faults>>
      PROVE  TypeOK'
  BY <1>1, <1>3, SetTaskType, PodsKept, TypeOfNextStatus DEF TypeOK
<1>4. CASE CreatePod(t)
  <2>1. [NoPod EXCEPT !.uid = pods[t].uid + 1, !.phase = "barrier"] \in Pod
    <3>1. pods[t].uid + 1 \in Nat
      BY <1>2 DEF Pod
    <3>2. "" \in Reasons /\ <<>> \in ContainerStatuses
      BY DEF Reasons, ContainerStatuses
    <3> QED
      BY <3>1, <3>2 DEF Pod, NoPod
  <2>2. pods' \in [Names -> Pod]
    BY <1>4, <2>1, PodType DEF CreatePod, TypeOK
  <2> QED
    BY <1>4, <2>2, StatusKept, TypeOfNextStatus DEF CreatePod, TypeOK
<1>5. CASE PodCreationFails(t)
  <2>1. PICK rejection \in Rejections :
          SetTask(t, [TaskAt(t) EXCEPT !.result = Completion(rejection, <<>>)])
    BY <1>5 DEF PodCreationFails
  <2> DEFINE result == Completion(rejection, <<>>)
  <2>2. result \in Completions \ {NoResult}
    BY CompletionTypes DEF Reasons, ContainerStatuses
  <2>3. SetTask(t, [TaskAt(t) EXCEPT !.result = result])
    BY <2>1
  <2> HIDE DEF result
  <2>4. TaskOK([TaskAt(t) EXCEPT !.result = result])
    BY <1>2, <2>2, TaskOperations
  <2> QED
    BY <1>3, <1>5, <2>3, <2>4 DEF PodCreationFails
<1>6. CASE ReportIP(t)
  BY <1>2, <1>3, <1>6, TaskOperations DEF ReportIP
<1>7. CASE CompleteTaskAttempt(t)
  <2>1. pods[t].reason \in Reasons /\ pods[t].containers \in ContainerStatuses
    BY <1>2 DEF Pod
  <2>2. PICK result \in Completions \ {NoResult} :
          \/ \E ip \in BOOLEAN : SetTask(t, [TaskAt(t) EXCEPT !.ip = ip, !.result = result])
          \/ SetTask(t, [TaskAt(t) EXCEPT !.result = result])
    <3>1. TaskAt(t).ip \in BOOLEAN
      BY <1>2 DEF TaskOK, Task
    <3> QED
      BY <1>7, <2>1, <3>1, CompletionTypes DEF CompleteTaskAttempt, HasSucceeded
  <2> QED
    BY <1>2, <1>3, <1>7, <2>2, TaskOperations DEF CompleteTaskAttempt
<1>8. CASE DeletePod(t)
  <2>1. pods' \in [Names -> Pod]
    BY <1>2, <1>8, PodOperations, PodType DEF DeletePod, TypeOK
  <2> QED
    BY <1>8, <2>1, StatusKept, TypeOfNextStatus DEF DeletePod, TypeOK
<1>9. CASE RetryOrCompleteTask(t)
  <2>1. PICK retries \in Nat :
          \/ SetTask(t, NewAttempt(TaskAt(t), retries))
          \/ SetTask(t, [TaskAt(t) EXCEPT !.completed = TRUE])
    <3>1. TaskAt(t).retries \in Nat
      BY <1>2 DEF TaskOK, Task
    <3> QED
      BY <1>9, <3>1 DEF RetryOrCompleteTask
  <2>2. ~TaskAt(t).completed /\ TaskAt(t).result # NoResult
    BY <1>9 DEF RetryOrCompleteTask
  <2> QED
    BY <1>2, <1>3, <1>9, <2>1, <2>2, TaskOperations DEF RetryOrCompleteTask
<1> QED
  BY <1>4, <1>5, <1>6, <1>7, <1>8, <1>9 DEF SyncTask

LEMMA RescaleType ==
  ASSUME BarrierAssumption, TypeOK, Rescale
  PROVE  TypeOK'
<1>1. ASSUME NEW r \in Roles
      PROVE  TasksOK(status'[r])
  <2>1. CASE status' = [s \in Roles |-> Scaled(status[s], spec[s])]
    BY <1>1, <2>1, ScaledType
  <2>2. ASSUME NEW kept \in [Roles -> 0 .. MaxNumber],
               \A s \in Roles : IsKeptLength(kept[s], status[s], spec[s]),
               status' = [s \in Roles |-> Compacted(kept[s], status[s], spec[s])]
        PROVE  TasksOK(status'[r])
    <3>1. kept[r] \in Nat /\ IsKeptLength(kept[r], status[r], spec[r])
      BY <1>1, <2>2 DEF BarrierAssumption
    <3>2. TasksOK(Compacted(kept[r], status[r], spec[r]))
      BY <1>1, <3>1, CompactedType
    <3> QED
      BY <1>1, <2>2, <3>2
  <2> QED
    BY <2>1, <2>2 DEF Rescale
<1>2. status' = [r \in Roles |-> status'[r]]
  BY DEF Rescale
<1>3. status' \in [Roles -> Seq(Task)]
  BY <1>1, <1>2 DEF TasksOK
<1> QED
  BY <1>1, <1>3, TypeOfNextStatus DEF Rescale, StatusOK, TypeOK

LEMMA PersistPodsType ==
  ASSUME BarrierAssumption, TypeOK, PersistPods
  PROVE  TypeOK'
<1>1. ASSUME NEW r \in Roles
      PROVE  TasksOK(status'[r])
  <2> DEFINE n == Len(status[r])
  <2>1. TasksOK(status[r]) /\ n \in Nat /\ n <= MaxNumber
    BY <1>1, TypeOfTasks DEF TypeOK
  <2>2. status'[r] = [i \in 1 .. n |->
                        IF <<r, i>> \in created
                          THEN [status[r][i] EXCEPT !.pod = pods[<<r, i>>].uid]
                          ELSE status[r][i]]
    BY <1>1 DEF PersistPods
  <2>3. ASSUME NEW i \in 1 .. n
        PROVE  TaskOK(status'[r][i])
    <3>1. TaskOK(status[r][i])
      BY <2>1, <2>3 DEF TasksOK
    <3>2. <<r, i>> \in created => pods[<<r, i>>].uid \in Nat
      BY DEF TypeOK, Pod
    <3>3. CASE <<r, i>> \in created
      <4> DEFINE task == status[r][i]
                 uid == pods[<<r, i>>].uid
      <4>1. status'[r][i] = [task EXCEPT !.pod = uid]
        BY <2>2, <2>3, <3>3
      <4>2. TaskOK(task) /\ uid \in Nat
        BY <3>1, <3>2, <3>3
      <4> HIDE DEF task, uid
      <4>3. TaskOK([task EXCEPT !.pod = uid])
        BY <4>2, TaskOperations
      <4> QED
        BY <4>1, <4>3
    <3>4. CASE <<r, i>> \notin created
      BY <2>2, <2>3, <3>1, <3>4
    <3> QED
      BY <3>3, <3>4
  <2>4. status'[r] = [i \in 1 .. n |-> status'[r][i]]
    BY <2>2
  <2> QED
    BY <2>1, <2>3, <2>4, TupleOfTasks
<1>2. status' = [r \in Roles |-> status'[r]]
  BY DEF PersistPods
<1>3. status' \in [Roles -> Seq(Task)]
  BY <1>1, <1>2 DEF TasksOK
<1> QED
  BY <1>1, <1>3, TypeOfNextStatus DEF PersistPods, StatusOK, TypeOK

LEMMA TypeStep ==
  ASSUME TypeOK, [Next]_vars
  PROVE  TypeOK'
<1> USE BarrierAssumption
<1>1. ASSUME NEW t \in Names, Barrier(t) \/ Kubelet(t) \/ PodDeletedByOthers(t)
      PROVE  TypeOK'
  BY <1>1, PodStepType
<1>2. ASSUME NEW t \in Names, SyncTask(t)
      PROVE  TypeOK'
  BY <1>2, SyncTaskType
<1>3. CASE Rescale
  BY <1>3, RescaleType
<1>4. CASE PersistPods
  BY <1>4, PersistPodsType
<1>5. CASE RescaleByUser
  BY <1>5, StatusKept, PodsKept, TypeOfNextStatus DEF RescaleByUser, Fault, TypeOK, BarrierAssumption
<1>6. CASE FrameworkDeletedByUser
  <2>1. exists' \in BOOLEAN /\ created' = {} /\ UNCHANGED <<spec, status, pods>>
    BY <1>6 DEF FrameworkDeletedByUser
  <2>2. faults' \in Nat
    BY <1>6 DEF FrameworkDeletedByUser, Fault, TypeOK
  <2> QED
    BY <2>1, <2>2, StatusKept, PodsKept, TypeOfNextStatus DEF TypeOK
<1>7. CASE UNCHANGED vars
  BY <1>7, StatusKept, PodsKept, TypeOfNextStatus DEF vars, TypeOK
<1> QED
  BY <1>1, <1>2, <1>3, <1>4, <1>5, <1>6, <1>7 DEF Next

\* The Status consists of Tasks, and a completed one has its CompletionStatus: the
\* controller (1846-1860, controller.go) and the barrier never meet another one, for
\* any number of Tasks, any Specs, PodFailureSpec and RetryPolicy.
THEOREM TypeCorrect == Safety => []TypeOK
<1>1. Init => TypeOK
  BY InitType
<1>2. TypeOK /\ [Next]_vars => TypeOK'
  BY TypeStep
<1> QED
  BY <1>1, <1>2, PTL DEF Safety

-----------------------------------------------------------------------------
(* Each CompletionStatus is a documented one *)

LEMMA ContainersType == ContainerStatuses \subseteq Seq(ContainerStatus)
<1>1. \A name \in {"barrier", "app"}, terminated \in BOOLEAN, code \in Nat, finished \in Nat :
        <<Container(name, terminated, code, finished)>> \in Seq(ContainerStatus)
  <2>1. \A c \in ContainerStatus : <<c>> \in Seq(ContainerStatus)
    OBVIOUS
  <2>2. \A name \in {"barrier", "app"}, terminated \in BOOLEAN, code \in Nat, finished \in Nat :
          Container(name, terminated, code, finished) \in ContainerStatus
    BY ContainersAssumption DEF Container, ContainerStatus
  <2> QED
    BY <2>1, <2>2
<1>2. BarrierCodes \subseteq Nat /\ 0 \in Nat /\ 1 \in Nat
  BY DEF BarrierCodes, ContainerTransientConflictFailed, ContainerPermanentFailed
<1>3. Waiting \in Seq(ContainerStatus)
  BY <1>1, <1>2 DEF Waiting
<1>4. \A code \in BarrierCodes : BarrierOnly(code) \in Seq(ContainerStatus)
  <2> TAKE code \in BarrierCodes
  <2>1. <<Container("barrier", TRUE, code, 1)>> \in Seq(ContainerStatus)
    BY <1>1, <1>2
  <2> QED
    BY <1>3, <2>1, ConcatProperties DEF BarrierOnly
<1>5. \A ends \in AppEnds : AllRan(ends) \in Seq(ContainerStatus)
  <2> TAKE ends \in AppEnds
  <2>1. <<Container("barrier", TRUE, 0, 1)>> \in Seq(ContainerStatus)
    BY <1>1, <1>2
  <2>2. ends \in Seq(ContainerStatus)
    BY ContainersAssumption
  <2> QED
    BY <2>1, <2>2, ConcatProperties DEF AllRan
<1>6. <<>> \in Seq(ContainerStatus)
  OBVIOUS
<1> QED
  BY <1>3, <1>4, <1>5, <1>6 DEF ContainerStatuses

LEMMA RejectionCodes ==
  ASSUME NEW result \in Rejections
  PROVE  result.code \in Int /\ result.code < 0 /\ result.code # PodCreationTransientError
<1>1. PICK err \in CreationErrors :
        /\ result = ClassifyPodCreationError(err)
        /\ result # OfController(PodCreationTransientError)
  BY DEF Rejections
<1>2. PICK code \in {PodCreationTransientError, PodCreationUnknownError, PodCreationPermanentError} :
        result = OfController(code)
  BY <1>1 DEF ClassifyPodCreationError
<1>3. result.code = code /\ code # PodCreationTransientError
  BY <1>1, <1>2 DEF OfController, Result
<1> QED
  BY <1>2, <1>3 DEF PodCreationTransientError, PodCreationUnknownError, PodCreationPermanentError

LEMMA CompletionsDocumented ==
  ASSUME NEW result \in Completions \ {NoResult}
  PROVE  /\ result.code # Succeeded => IsAsDocumented(result.pod, result.code)
         /\ result.code # PodCreationTransientError
<1>1. ASSUME NEW code \in {PodExternalDeleted, DeleteTaskRequested},
             result = CompletionOfController(code)
      PROVE  IsAsDocumented(result.pod, result.code) /\ result.code # PodCreationTransientError
  <2>1. result.code = code /\ result.pod = <<>>
    BY <1>1 DEF CompletionOfController, Completion, OfController, Result
  <2>2. code \in Int /\ code < 0 /\ code # PodCreationTransientError
    BY <1>1 DEF PodExternalDeleted, DeleteTaskRequested, PodCreationTransientError
  <2> QED
    BY <2>1, <2>2, OfControllerAsDocumented
<1>2. ASSUME NEW rejection \in Rejections, result = Completion(rejection, <<>>)
      PROVE  IsAsDocumented(result.pod, result.code) /\ result.code # PodCreationTransientError
  <2>1. result.code = rejection.code /\ result.pod = <<>>
    BY <1>2 DEF Completion
  <2> QED
    BY <1>2, <2>1, RejectionCodes, OfControllerAsDocumented
<1>3. ASSUME NEW containers, result = Completion(OfController(Succeeded), containers)
      PROVE  result.code = Succeeded /\ result.code # PodCreationTransientError
  BY <1>3 DEF Completion, OfController, Result, Succeeded, PodCreationTransientError
<1>4. ASSUME NEW reason \in Reasons, NEW containers \in ContainerStatuses,
             result = CompletionOfPod(reason, containers)
      PROVE  IsAsDocumented(result.pod, result.code) /\ result.code # PodCreationTransientError
  <2> DEFINE pod == MatchablePod(reason, containers)
  <2>1. pod.containers = containers
    BY DEF MatchablePod
  <2>2. result.code = MatchCompletionCodeInfos(pod).code /\ result.pod = containers
    BY <1>4 DEF CompletionOfPod, Completion
  <2>3. pod.containers \in Seq(ContainerStatus)
    BY <1>4, <2>1, ContainersType
  <2> HIDE DEF pod
  <2> QED
    BY <2>1, <2>2, <2>3, MatchedAsDocumented
<1> QED
  BY <1>1, <1>2, <1>3, <1>4 DEF Completions

\* The completion of an attempt is one that the user manual promises for its
\* containers, and never the transient rejection of a Pod creation: for any
\* PodFailureSpec that NewConfig accepts, any containers, and any errors of the
\* ApiServer.
THEOREM CompletionCodeHolds == Safety => []CompletionCodeAsDocumented
<1>1. TypeOK => CompletionCodeAsDocumented
  <2> SUFFICES ASSUME TypeOK, NEW t \in Names, InStatus(t), TaskAt(t).result # NoResult
               PROVE  LET result == TaskAt(t).result
                      IN  /\ result.code # Succeeded => IsAsDocumented(result.pod, result.code)
                          /\ result.code # PodCreationTransientError
    BY DEF CompletionCodeAsDocumented
  <2>1. TaskAt(t).result \in Completions \ {NoResult}
    BY TaskAtType DEF Task
  <2> QED
    BY <2>1, CompletionsDocumented
<1> QED
  BY <1>1, TypeCorrect, PTL

-----------------------------------------------------------------------------
(* To count the ready Tasks of the Spec is to have them all *)

LEMMA NamesAreFinite == IsFiniteSet(Names)
<1>1. IsFiniteSet(1 .. MaxNumber)
  BY FS_Interval, BarrierAssumption
<1> QED
  BY <1>1, FS_Product, BarrierAssumption DEF Names

LEMMA PassedIsAllReady ==
  ASSUME IsBarrierPassed
  PROVE  ReadyTasks = TasksOfSpec
<1>1. IsFiniteSet(TasksOfSpec)
  BY NamesAreFinite, FS_Subset DEF TasksOfSpec
<1>2. ReadyTasks \subseteq TasksOfSpec
  BY DEF ReadyTasks
<1>3. /\ Cardinality(ReadyTasks) <= Cardinality(TasksOfSpec)
      /\ Cardinality(ReadyTasks) = Cardinality(TasksOfSpec) => ReadyTasks = TasksOfSpec
  BY <1>1, <1>2, FS_Subset
<1>4. Cardinality(ReadyTasks) \in Nat /\ Cardinality(TasksOfSpec) \in Nat
  BY <1>1, <1>2, FS_Subset, FS_CardinalityType
<1> QED
  BY <1>3, <1>4 DEF IsBarrierPassed

-----------------------------------------------------------------------------
(* The Status knows the Pod of each ready Task *)

\* A PodIP is that of the Pod with the persisted PodUID, which is the last one of its
\* name.
IsLinked(task, pod) ==
  (task.ip => task.pod # 0) /\ (task.pod # 0 => task.pod = pod.uid)

IPsArePersisted == \A t \in Names : InStatus(t) => IsLinked(TaskAt(t), pods[t])

CreatedHaveUIDs == \A t \in created : pods[t].uid # 0

Inv == TypeOK /\ IPsArePersisted /\ CreatedHaveUIDs

\* A step of a Pod: its UID stays, or it is the first one that its Task knows of.
LEMMA PodStepLinks ==
  ASSUME Inv, UNCHANGED status, created' \subseteq created,
         \A n \in Names : pods'[n].uid = pods[n].uid
  PROVE  IPsArePersisted' /\ CreatedHaveUIDs'
<1>1. created \subseteq Names
  BY DEF Inv, TypeOK
<1> QED
  BY <1>1 DEF Inv, IPsArePersisted, IsLinked, InStatus, TaskAt, CreatedHaveUIDs

LEMMA SetTaskLinks ==
  ASSUME Inv, NEW t \in Names, InStatus(t), NEW task, SetTask(t, task),
         IsLinked(task, pods[t]), UNCHANGED <<created, pods>>
  PROVE  IPsArePersisted' /\ CreatedHaveUIDs'
<1>1. ASSUME NEW n \in Names, InStatus(n)'
      PROVE  IsLinked(TaskAt(n)', pods[n])
  <2>1. /\ n[1] \in Roles /\ n[2] \in 1 .. MaxNumber /\ n = <<n[1], n[2]>>
        /\ Len(status'[n[1]]) = Len(status[n[1]])
        /\ Len(status[n[1]]) \in Nat
    BY SetTaskEffect DEF Names, Inv, TypeOK
  <2>2. n[2] \in 1 .. Len(status[n[1]])
    BY <1>1, <2>1 DEF InStatus, BarrierAssumption
  <2>3. TaskAt(n)' = IF n = t THEN task ELSE TaskAt(n)
    BY <2>1, <2>2, SetTaskEffect DEF TaskAt, Inv
  <2>4. InStatus(n)
    BY <2>2 DEF InStatus
  <2> QED
    BY <2>3, <2>4 DEF Inv, IPsArePersisted
<1> QED
  BY <1>1 DEF Inv, IPsArePersisted, CreatedHaveUIDs

LEMMA SyncTaskLinks ==
  ASSUME Inv, NEW t \in Names, SyncTask(t)
  PROVE  IPsArePersisted' /\ CreatedHaveUIDs'
<1>1. InStatus(t)
  BY DEF SyncTask, CreatePod, IsCreationPending, PodCreationFails, ReportIP,
         CompleteTaskAttempt, DeletePod, RetryOrCompleteTask, Syncs
<1>2. TaskAt(t) \in Task /\ pods[t] \in Pod /\ IsLinked(TaskAt(t), pods[t])
  BY <1>1, TaskAtType DEF Inv, IPsArePersisted, TypeOK
<1>3. ASSUME NEW task, IsLinked(task, pods[t]), SetTask(t, task), UNCHANGED <<created, pods>>
      PROVE  IPsArePersisted' /\ CreatedHaveUIDs'
  BY <1>1, <1>3, SetTaskLinks
<1>4. CASE CreatePod(t)
  <2>1. /\ TaskAt(t).pod = 0 /\ ~TaskAt(t).ip
        /\ UNCHANGED status
        /\ created' \in {created, created \cup {t}}
    BY <1>2, <1>4 DEF CreatePod, IsCreationPending, IsLinked
  <2>2. /\ pods'[t].uid = pods[t].uid + 1
        /\ \A n \in Names : n # t => pods'[n] = pods[n]
    BY <1>4 DEF CreatePod, NoPod, Inv, TypeOK
  <2>3. pods'[t].uid # 0
    BY <1>2, <2>2 DEF Pod
  <2>4. IPsArePersisted'
    BY <2>1, <2>2 DEF Inv, IPsArePersisted, IsLinked, InStatus, TaskAt
  <2>5. CreatedHaveUIDs'
    BY <2>1, <2>2, <2>3 DEF Inv, CreatedHaveUIDs, TypeOK
  <2> QED
    BY <2>4, <2>5
<1>5. CASE PodCreationFails(t)
  <2>1. PICK result : SetTask(t, [TaskAt(t) EXCEPT !.result = result])
    BY <1>5 DEF PodCreationFails
  <2>2. IsLinked([TaskAt(t) EXCEPT !.result = result], pods[t])
    BY <1>2 DEF IsLinked, Task
  <2> QED
    BY <1>3, <1>5, <2>1, <2>2 DEF PodCreationFails
<1>6. CASE ReportIP(t)
  <2>1. IsLinked([TaskAt(t) EXCEPT !.ip = TRUE], pods[t])
    BY <1>2, <1>6 DEF ReportIP, IsLinked, Task
  <2> QED
    BY <1>3, <1>6, <2>1 DEF ReportIP
<1>7. CASE CompleteTaskAttempt(t)
  <2>1. PICK result :
          \/ /\ TaskAt(t).pod # 0
             /\ \E ip : SetTask(t, [TaskAt(t) EXCEPT !.ip = ip, !.result = result])
          \/ SetTask(t, [TaskAt(t) EXCEPT !.result = result])
    BY <1>7 DEF CompleteTaskAttempt
  <2>2. /\ IsLinked([TaskAt(t) EXCEPT !.result = result], pods[t])
        /\ TaskAt(t).pod # 0 =>
             \A ip : IsLinked([TaskAt(t) EXCEPT !.ip = ip, !.result = result], pods[t])
    BY <1>2 DEF IsLinked, Task
  <2> QED
    BY <1>3, <1>7, <2>1, <2>2 DEF CompleteTaskAttempt
<1>8. CASE DeletePod(t)
  <2>1. \A n \in Names : pods'[n].uid = pods[n].uid
    BY <1>8 DEF DeletePod, Disappeared, NoPod, Inv, TypeOK
  <2> QED
    BY <1>8, <2>1, PodStepLinks DEF DeletePod
<1>9. CASE RetryOrCompleteTask(t)
  <2>1. PICK retries :
          \/ SetTask(t, NewAttempt(TaskAt(t), retries))
          \/ SetTask(t, [TaskAt(t) EXCEPT !.completed = TRUE])
    BY <1>9 DEF RetryOrCompleteTask
  <2>2. /\ IsLinked(NewAttempt(TaskAt(t), retries), pods[t])
        /\ IsLinked([TaskAt(t) EXCEPT !.completed = TRUE], pods[t])
    BY <1>2 DEF IsLinked, Task, NewAttempt
  <2> QED
    BY <1>3, <1>9, <2>1, <2>2 DEF RetryOrCompleteTask
<1> QED
  BY <1>4, <1>5, <1>6, <1>7, <1>8, <1>9 DEF SyncTask

\* What another one does to a Pod leaves its UID alone.
LEMMA PodUIDsStay ==
  ASSUME TypeOK, NEW t \in Names, Barrier(t) \/ Kubelet(t) \/ PodDeletedByOthers(t)
  PROVE  \A n \in Names : pods'[n].uid = pods[n].uid
<1>1. pods[t] \in Pod
  BY DEF TypeOK
<1>2. \A reason, containers : Ended(pods[t], reason, containers).uid = pods[t].uid
  BY <1>1 DEF Pod, Ended
<1>3. Disappeared(pods[t]).uid = pods[t].uid
  BY DEF Disappeared, NoPod
<1>4. [pods[t] EXCEPT !.phase = "app"].uid = pods[t].uid
  BY <1>1 DEF Pod
<1>5. CASE \E reason, containers : pods' = [pods EXCEPT ![t] = Ended(@, reason, containers)]
  BY <1>2, <1>5 DEF TypeOK
<1>6. CASE pods' = [pods EXCEPT ![t].phase = "app"]
  BY <1>4, <1>6 DEF TypeOK
<1>7. CASE pods' = [pods EXCEPT ![t] = Disappeared(@)]
  BY <1>3, <1>7 DEF TypeOK
<1> QED
  BY <1>5, <1>6, <1>7 DEF Barrier, BarrierMisconfigured, BarrierPasses, BarrierFails, BarrierExits,
     Kubelet, AppContainersTerminate, EvictPod, PodDeletedByOthers

\* A Task that is scaled is new, or it keeps its Pod.
LEMMA ScaledElements ==
  ASSUME NEW tasks \in Seq(Task), NEW number \in Nat,
         NEW i \in Nat, i >= 1, i <= Len(Scaled(tasks, number))
  PROVE  /\ i > Len(tasks) => Scaled(tasks, number)[i] = NewTask
         /\ i <= Len(tasks) => /\ Scaled(tasks, number)[i].ip = tasks[i].ip
                               /\ Scaled(tasks, number)[i].pod = tasks[i].pod
<1> DEFINE size == IF Len(tasks) < number THEN number ELSE Len(tasks)
           Marked(task) == [task EXCEPT !.deletionPending = TRUE,
                                        !.result = IF @ = NoResult
                                                     THEN CompletionOfController(DeleteTaskRequested)
                                                     ELSE @]
           Op(j) == IF j > Len(tasks) THEN NewTask
                    ELSE IF j <= number \/ tasks[j].deletionPending THEN tasks[j]
                    ELSE Marked(tasks[j])
<1>1. Scaled(tasks, number) = [j \in 1 .. size |-> Op(j)]
  BY DEF Scaled
<1>2. \A task \in Task : Marked(task).ip = task.ip /\ Marked(task).pod = task.pod
  BY DEF Task
<1>3. size \in Nat /\ Len(tasks) \in Nat
  OBVIOUS
<1>4. i <= Len(tasks) => tasks[i] \in Task
  OBVIOUS
<1> HIDE DEF size, Marked
<1>5. Scaled(tasks, number)[i] = Op(i)
  BY <1>1, <1>3
<1>6. CASE i > Len(tasks)
  BY <1>5, <1>6
<1>7. CASE ~(i > Len(tasks))
  <2>1. Scaled(tasks, number)[i] \in {tasks[i], Marked(tasks[i])}
    BY <1>5, <1>7
  <2>2. tasks[i] \in Task
    BY <1>3, <1>4, <1>7
  <2> QED
    BY <1>2, <1>7, <2>1, <2>2
<1> QED
  BY <1>6, <1>7

LEMMA RescaleLinks ==
  ASSUME Inv, Rescale
  PROVE  IPsArePersisted' /\ CreatedHaveUIDs'
<1> USE BarrierAssumption
<1>1. \A pod : IsLinked(NewTask, pod)
  BY DEF IsLinked, NewTask
<1>2. ASSUME NEW n \in Names, InStatus(n)'
      PROVE  IsLinked(TaskAt(n)', pods[n])
  <2> DEFINE r == n[1]
             i == n[2]
  <2>1. r \in Roles /\ i \in Nat /\ i >= 1 /\ status[r] \in Seq(Task) /\ spec[r] \in Nat
    BY DEF Names, Inv, TypeOK
  <2>2. InStatus(n) => TaskAt(n) \in Task /\ IsLinked(TaskAt(n), pods[n])
    BY TaskAtType DEF Inv, IPsArePersisted
  <2>3. CASE status' = [s \in Roles |-> Scaled(status[s], spec[s])]
    <3>1. status'[r] = Scaled(status[r], spec[r])
      BY <2>1, <2>3
    <3>2. i <= Len(Scaled(status[r], spec[r]))
      BY <1>2, <3>1 DEF InStatus
    <3>3. /\ InStatus(n) <=> ~(i > Len(status[r]))
          /\ TaskAt(n) = status[r][i] /\ TaskAt(n)' = Scaled(status[r], spec[r])[i]
      BY <2>1, <3>1 DEF InStatus, TaskAt
    <3>4. CASE ~InStatus(n)
      <4>1. TaskAt(n)' = NewTask
        BY <2>1, <3>2, <3>3, <3>4, ScaledElements
      <4> QED
        BY <1>1, <4>1
    <3>5. CASE InStatus(n)
      <4>1. TaskAt(n)'.ip = TaskAt(n).ip /\ TaskAt(n)'.pod = TaskAt(n).pod
        <5>1. i <= Len(status[r]) /\ Len(status[r]) \in Nat
          BY <2>1, <3>3, <3>5
        <5>2. /\ Scaled(status[r], spec[r])[i].ip = status[r][i].ip
              /\ Scaled(status[r], spec[r])[i].pod = status[r][i].pod
          BY <2>1, <3>2, <5>1, ScaledElements
        <5> QED
          BY <3>3, <5>2
      <4> QED
        BY <2>2, <3>5, <4>1 DEF IsLinked
    <3> QED
      BY <3>4, <3>5
  <2>4. ASSUME NEW kept \in [Roles -> 0 .. MaxNumber],
               \A s \in Roles : IsKeptLength(kept[s], status[s], spec[s]),
               status' = [s \in Roles |-> Compacted(kept[s], status[s], spec[s])]
        PROVE  IsLinked(TaskAt(n)', pods[n])
    <3>1. status'[r] = Compacted(kept[r], status[r], spec[r]) /\ kept[r] \in Nat
      BY <2>1, <2>4
    <3>2. i <= kept[r] /\ kept[r] <= Len(status[r])
      BY <1>2, <2>1, <2>4, <3>1 DEF InStatus, Compacted, IsKeptLength
    <3>3. InStatus(n)
      BY <2>1, <3>1, <3>2 DEF InStatus
    <3>4. TaskAt(n)' \in {NewTask, TaskAt(n)}
      BY <2>1, <3>1, <3>2 DEF TaskAt, Compacted, ReplacedTask
    <3> QED
      BY <1>1, <2>2, <3>3, <3>4
  <2> QED
    BY <2>3, <2>4 DEF Rescale
<1> QED
  BY <1>2 DEF Rescale, Inv, IPsArePersisted, CreatedHaveUIDs

LEMMA PersistPodsLinks ==
  ASSUME Inv, PersistPods
  PROVE  IPsArePersisted' /\ CreatedHaveUIDs'
<1>1. ASSUME NEW n \in Names, InStatus(n)'
      PROVE  IsLinked(TaskAt(n)', pods[n])
  <2>1. /\ n[1] \in Roles /\ n[2] \in Nat /\ n[2] >= 1 /\ n = <<n[1], n[2]>>
        /\ status[n[1]] \in Seq(Task)
    BY BarrierAssumption DEF Names, Inv, TypeOK
  <2>2. status'[n[1]] = [i \in 1 .. Len(status[n[1]]) |->
                           IF <<n[1], i>> \in created
                             THEN [status[n[1]][i] EXCEPT !.pod = pods[<<n[1], i>>].uid]
                             ELSE status[n[1]][i]]
    BY <2>1 DEF PersistPods
  <2>3. n[2] \in 1 .. Len(status[n[1]]) /\ InStatus(n)
    BY <1>1, <2>1, <2>2 DEF InStatus
  <2>4. TaskAt(n)' = IF n \in created THEN [TaskAt(n) EXCEPT !.pod = pods[n].uid] ELSE TaskAt(n)
    BY <2>1, <2>2, <2>3 DEF TaskAt
  <2>5. TaskAt(n) \in Task /\ IsLinked(TaskAt(n), pods[n])
    BY <2>3, TaskAtType DEF Inv, IPsArePersisted
  <2>6. n \in created => pods[n].uid # 0
    BY DEF Inv, CreatedHaveUIDs
  <2> QED
    BY <2>4, <2>5, <2>6 DEF IsLinked, Task
<1> QED
  BY <1>1 DEF PersistPods, IPsArePersisted, CreatedHaveUIDs

LEMMA InvStep ==
  ASSUME Inv, [Next]_vars
  PROVE  Inv'
<1>1. TypeOK'
  BY TypeStep DEF Inv
<1>2. ASSUME NEW t \in Names, Barrier(t) \/ Kubelet(t) \/ PodDeletedByOthers(t)
      PROVE  IPsArePersisted' /\ CreatedHaveUIDs'
  <2>1. UNCHANGED <<status, created>>
    BY <1>2 DEF Barrier, BarrierMisconfigured, BarrierPasses, BarrierFails,
       Kubelet, AppContainersTerminate, EvictPod, PodDeletedByOthers
  <2> QED
    BY <1>2, <2>1, PodUIDsStay, PodStepLinks DEF Inv
<1>3. ASSUME NEW t \in Names, SyncTask(t)
      PROVE  IPsArePersisted' /\ CreatedHaveUIDs'
  BY <1>3, SyncTaskLinks
<1>4. Rescale => IPsArePersisted' /\ CreatedHaveUIDs'
  BY RescaleLinks
<1>5. PersistPods => IPsArePersisted' /\ CreatedHaveUIDs'
  BY PersistPodsLinks
<1>6. ASSUME RescaleByUser \/ FrameworkDeletedByUser \/ UNCHANGED vars
      PROVE  IPsArePersisted' /\ CreatedHaveUIDs'
  BY <1>6, PodStepLinks DEF RescaleByUser, FrameworkDeletedByUser, vars
<1> QED
  BY <1>1, <1>2, <1>3, <1>4, <1>5, <1>6 DEF Next, Inv

LEMMA Invariance == Safety => []Inv
<1>1. Init => Inv
  <2>1. ASSUME Init, NEW t \in Names, InStatus(t)
        PROVE  TaskAt(t) = NewTask
    <3>1. t[1] \in Roles /\ t[2] \in Nat /\ t[2] >= 1 /\ spec[t[1]] \in Nat
      BY <2>1, BarrierAssumption DEF Names, Init
    <3>2. status[t[1]] = [i \in 1 .. spec[t[1]] |-> NewTask] /\ Len(status[t[1]]) = spec[t[1]]
      BY <2>1, <3>1 DEF Init
    <3> QED
      BY <2>1, <3>1, <3>2 DEF InStatus, TaskAt
  <2> QED
    BY <2>1, InitType DEF Init, Inv, IPsArePersisted, IsLinked, NewTask, CreatedHaveUIDs
<1>2. Inv /\ [Next]_vars => Inv'
  BY InvStep
<1> QED
  BY <1>1, <1>2, PTL DEF Safety

\* What generateInjector writes are the addresses of current Pods: an open barrier has a
\* PodIP of each Task of the Spec (by counting), and each PodIP in the Status is that of
\* the managed Pod, which no other of its name follows (IPsArePersisted).
THEOREM InjectsCurrentPodsHolds == Safety => []InjectsCurrentPods
<1>1. Inv => InjectsCurrentPods
  <2> SUFFICES ASSUME Inv, IsBarrierPassed, NEW t \in TasksOfSpec
               PROVE  InStatus(t) /\ TaskAt(t).pod # 0 /\ TaskAt(t).pod = pods[t].uid
    BY DEF InjectsCurrentPods
  <2>1. t \in ReadyTasks
    BY PassedIsAllReady
  <2>2. t \in Names /\ InStatus(t) /\ TaskAt(t).ip
    BY <2>1 DEF ReadyTasks, TasksOfSpec, IsTaskReady
  <2> QED
    BY <2>2 DEF Inv, IPsArePersisted, IsLinked
<1> QED
  BY <1>1, Invariance, PTL

\* Only a barrier that passes lets the AppContainers start.
LEMMA OnlyBarrierStartsApp ==
  ASSUME TypeOK, Next, NEW n \in Names, pods[n].phase # "app", pods'[n].phase = "app"
  PROVE  exists /\ IsBarrierPassed /\ UNCHANGED <<spec, status>>
<1>1. pods \in [Names -> Pod]
  BY DEF TypeOK
<1>2. \A pod, reason, containers :
        pod \in Pod => Ended(pod, reason, containers).phase = "ended"
  BY DEF Pod, Ended
<1>3. \A pod : Disappeared(pod).phase = "gone"
  BY DEF Disappeared, NoPod
<1>4. PICK t \in Names : Barrier(t) \/ Kubelet(t) \/ SyncTask(t) \/ PodDeletedByOthers(t)
  BY DEF Next, Rescale, PersistPods, RescaleByUser, FrameworkDeletedByUser
<1>5. CASE BarrierPasses(t)
  BY <1>5 DEF BarrierPasses
<1>6. ASSUME NEW pod, pod.phase # "app", pods' = [pods EXCEPT ![t] = pod]
      PROVE  FALSE
  BY <1>1, <1>6
<1>7. pods[t] \in Pod
  BY <1>1
<1>8. CASE \E reason, containers : pods' = [pods EXCEPT ![t] = Ended(@, reason, containers)]
  BY <1>1, <1>2, <1>6, <1>7, <1>8
<1>9. CASE pods' = [pods EXCEPT ![t] = Disappeared(@)]
  BY <1>1, <1>3, <1>6, <1>9
<1>10. CASE CreatePod(t)
  <2>1. [NoPod EXCEPT !.uid = pods[t].uid + 1, !.phase = "barrier"].phase = "barrier"
    BY DEF NoPod
  <2> QED
    BY <1>6, <1>10, <2>1 DEF CreatePod
<1>11. CASE UNCHANGED pods
  BY <1>11
<1> QED
  BY <1>4, <1>5, <1>8, <1>9, <1>10, <1>11 DEF Barrier, BarrierMisconfigured, BarrierFails,
     BarrierExits, Kubelet, AppContainersTerminate, EvictPod, PodDeletedByOthers, SyncTask,
     PodCreationFails, ReportIP, CompleteTaskAttempt, DeletePod, RetryOrCompleteTask

\* The AppContainers of a Pod of the Spec start only once the Status knows that Pod,
\* for every Framework, whatever UIDs were lost and whatever Pods had its name before.
THEOREM StartsAfterPersistedHolds == Safety => StartsAfterPersisted
<1>1. ASSUME Inv, Next, NEW t \in Names,
             pods[t].phase # "app", pods'[t].phase = "app", InSpec(t)
      PROVE  InStatus(t) /\ TaskAt(t).pod = pods[t].uid
  <2>1. IsBarrierPassed
    BY <1>1, OnlyBarrierStartsApp DEF Inv
  <2>2. t \in ReadyTasks
    BY <1>1, <2>1, PassedIsAllReady DEF TasksOfSpec
  <2>3. InStatus(t) /\ TaskAt(t).ip
    BY <2>2 DEF ReadyTasks, IsTaskReady
  <2> QED
    BY <1>1, <2>3 DEF Inv, IPsArePersisted, IsLinked
<1>2. Inv /\ [Next]_vars =>
        [pods' # pods => \A t \in Names :
           pods[t].phase # "app" /\ pods'[t].phase = "app" /\ InSpec(t) =>
             InStatus(t) /\ TaskAt(t).pod = pods[t].uid]_vars
  BY <1>1 DEF vars
<1> QED
  BY <1>2, Invariance, PTL DEF Safety, StartsAfterPersisted
-----------------------------------------------------------------------------
(* All or nothing *)

\* What setting a Task does to a Task of the Status
LEMMA SetTaskAt ==
  ASSUME TypeOK, NEW t \in Names, InStatus(t), NEW task, SetTask(t, task), NEW n \in Names
  PROVE  /\ InStatus(n)' <=> InStatus(n)
         /\ InStatus(n) => TaskAt(n)' = IF n = t THEN task ELSE TaskAt(n)
<1>1. /\ n[1] \in Roles /\ n[2] \in Nat /\ n[2] >= 1 /\ n = <<n[1], n[2]>>
      /\ Len(status[n[1]]) \in Nat
  BY BarrierAssumption DEF Names, TypeOK
<1>2. /\ Len(status'[n[1]]) = Len(status[n[1]])
      /\ \A i \in 1 .. Len(status[n[1]]) :
           status'[n[1]][i] = IF <<n[1], i>> = t THEN task ELSE status[n[1]][i]
  BY <1>1, SetTaskEffect
<1>3. InStatus(n) => n[2] \in 1 .. Len(status[n[1]])
  BY <1>1 DEF InStatus
<1> QED
  BY <1>1, <1>2, <1>3 DEF InStatus, TaskAt

\* What a Rescale does to a Task of the Status: it is scaled, kept or new, or it is
\* dropped if it was droppable and is beyond the Spec.
LEMMA RescaledTask ==
  ASSUME TypeOK, Rescale, NEW n \in Names, InStatus(n)
  PROVE  \/ /\ InStatus(n)' /\ ~InSpec(n)
            /\ TaskAt(n)'.completed = TaskAt(n).completed
            /\ TaskAt(n).result # NoResult => TaskAt(n)'.result = TaskAt(n).result
         \/ InStatus(n)' /\ TaskAt(n)' = TaskAt(n)
         \/ Droppable(TaskAt(n)) /\ (InSpec(n) => InStatus(n)')
<1> USE BarrierAssumption
<1> DEFINE r == n[1]
           i == n[2]
           old == status[r]
<1>1. /\ r \in Roles /\ i \in Nat /\ i >= 1 /\ old \in Seq(Task) /\ spec[r] \in Nat
      /\ i <= Len(old) /\ Len(old) \in Nat /\ old[i] = TaskAt(n) /\ old[i] \in Task
  BY TaskAtType DEF Names, TypeOK, InStatus, TaskAt
<1>2. CASE status' = [s \in Roles |-> Scaled(status[s], spec[s])]
  <2> DEFINE size == IF Len(old) < spec[r] THEN spec[r] ELSE Len(old)
             marked == [old[i] EXCEPT !.deletionPending = TRUE,
                                      !.result = IF @ = NoResult
                                                   THEN CompletionOfController(DeleteTaskRequested)
                                                   ELSE @]
             Op(j) == IF j > Len(old) THEN NewTask
                      ELSE IF j <= spec[r] \/ old[j].deletionPending THEN old[j]
                      ELSE [old[j] EXCEPT !.deletionPending = TRUE,
                                          !.result = IF @ = NoResult
                                                       THEN CompletionOfController(DeleteTaskRequested)
                                                       ELSE @]
  <2>1. status'[r] = [j \in 1 .. size |-> Op(j)]
    BY <1>1, <1>2 DEF Scaled
  <2>2. size \in Nat /\ i <= size
    BY <1>1
  <2>3. Op(i) = IF i <= spec[r] \/ old[i].deletionPending THEN old[i] ELSE marked
    BY <1>1
  <2>4. /\ marked.completed = old[i].completed
        /\ old[i].result # NoResult => marked.result = old[i].result
    BY <1>1 DEF Task
  <2> HIDE DEF size, Op, marked
  <2>5. Len(status'[r]) = size /\ status'[r][i] = Op(i)
    BY <1>1, <2>1, <2>2
  <2>6. InStatus(n)' /\ TaskAt(n)' = Op(i)
    BY <2>2, <2>5 DEF InStatus, TaskAt
  <2> QED
    BY <1>1, <2>3, <2>4, <2>6 DEF InSpec
<1>3. ASSUME NEW kept \in [Roles -> 0 .. MaxNumber],
             \A s \in Roles : IsKeptLength(kept[s], status[s], spec[s]),
             status' = [s \in Roles |-> Compacted(kept[s], status[s], spec[s])]
      PROVE  \/ InStatus(n)' /\ TaskAt(n)' = TaskAt(n)
             \/ Droppable(TaskAt(n)) /\ (InSpec(n) => InStatus(n)')
  <2> DEFINE k == kept[r]
             Op(j) == IF j <= spec[r] /\ Droppable(old[j]) THEN ReplacedTask(old[j]) ELSE old[j]
  <2>1. k \in Nat /\ IsKeptLength(k, old, spec[r])
    BY <1>1, <1>3
  <2>2. status'[r] = [j \in 1 .. k |-> Op(j)]
    BY <1>1, <1>3 DEF Compacted
  <2>3. /\ k <= Len(old)
        /\ i > k => i > spec[r] /\ Droppable(old[i])
    BY <1>1, <2>1 DEF IsKeptLength
  <2>4. ~Droppable(old[i]) => Op(i) = old[i]
    OBVIOUS
  <2> HIDE DEF Op, k
  <2>5. Len(status'[r]) = k
    BY <2>1, <2>2
  <2>6. CASE i <= k
    <3>1. InStatus(n)' /\ TaskAt(n)' = Op(i)
      BY <1>1, <2>1, <2>2, <2>5, <2>6 DEF InStatus, TaskAt
    <3> QED
      BY <1>1, <2>4, <3>1
  <2>7. CASE ~(i <= k)
    BY <1>1, <2>1, <2>3, <2>7 DEF InSpec
  <2> QED
    BY <2>6, <2>7
<1> QED
  BY <1>2, <1>3 DEF Rescale

\* To persist the PodUIDs changes nothing else.
LEMMA PersistedTask ==
  ASSUME TypeOK, PersistPods, NEW n \in Names, InStatus(n)
  PROVE  /\ InStatus(n)'
         /\ TaskAt(n)'.ip = TaskAt(n).ip
         /\ TaskAt(n)'.deletionPending = TaskAt(n).deletionPending
         /\ TaskAt(n)'.completed = TaskAt(n).completed
         /\ TaskAt(n)'.result = TaskAt(n).result
<1>1. /\ n[1] \in Roles /\ n[2] \in Nat /\ n[2] >= 1 /\ n = <<n[1], n[2]>>
      /\ Len(status[n[1]]) \in Nat /\ TaskAt(n) \in Task
  BY BarrierAssumption, TaskAtType DEF Names, TypeOK
<1>2. status'[n[1]] = [i \in 1 .. Len(status[n[1]]) |->
                         IF <<n[1], i>> \in created
                           THEN [status[n[1]][i] EXCEPT !.pod = pods[<<n[1], i>>].uid]
                           ELSE status[n[1]][i]]
  BY <1>1 DEF PersistPods
<1>3. n[2] \in 1 .. Len(status[n[1]])
  BY <1>1 DEF InStatus
<1>4. Len(status'[n[1]]) = Len(status[n[1]])
  BY <1>1, <1>2
<1>5. TaskAt(n)' = IF n \in created THEN [TaskAt(n) EXCEPT !.pod = pods[n].uid] ELSE TaskAt(n)
  BY <1>1, <1>2, <1>3 DEF TaskAt
<1> QED
  BY <1>1, <1>3, <1>4, <1>5 DEF InStatus, Task

\* A ready Task of the Spec stays ready, but for a retry.
LEMMA StaysReady ==
  ASSUME Inv, Next, exists', spec' = spec, status' # status,
         ~ \E t \in Names :
             InSpec(t) /\ InStatus(t) /\ TaskAt(t).pod # 0 /\ TaskAt(t)'.pod = 0,
         NEW n \in Names, InSpec(n), InStatus(n), IsTaskReady(TaskAt(n))
  PROVE  InStatus(n)' /\ IsTaskReady(TaskAt(n)')
<1>1. /\ TaskAt(n) \in Task /\ TaskAt(n).pod # 0
      /\ TaskAt(n).ip /\ ~TaskAt(n).deletionPending /\ TypeOK
  BY TaskAtType DEF Inv, IPsArePersisted, IsLinked, IsTaskReady
<1>2. ASSUME NEW t \in Names, SyncTask(t)
      PROVE  InStatus(n)' /\ IsTaskReady(TaskAt(n)')
  <2>1. InStatus(t)
    BY <1>2 DEF SyncTask, CreatePod, IsCreationPending, PodCreationFails, ReportIP,
       CompleteTaskAttempt, DeletePod, RetryOrCompleteTask, Syncs
  <2>2. PICK task :
          /\ SetTask(t, task)
          /\ \/ \E result : task = [TaskAt(t) EXCEPT !.result = result]
             \/ task = [TaskAt(t) EXCEPT !.ip = TRUE]
             \/ \E ip \in {TaskAt(t).ip, TRUE} : \E result :
                  task = [TaskAt(t) EXCEPT !.ip = ip, !.result = result]
             \/ \E retries : task = NewAttempt(TaskAt(t), retries)
             \/ task = [TaskAt(t) EXCEPT !.completed = TRUE]
    BY <1>2 DEF SyncTask, CreatePod, PodCreationFails, ReportIP, CompleteTaskAttempt, DeletePod,
       RetryOrCompleteTask
  <2>3. InStatus(n)' /\ TaskAt(n)' = IF n = t THEN task ELSE TaskAt(n)
    BY <1>1, <2>1, <2>2, SetTaskAt
  <2>4. CASE n # t
    BY <2>3, <2>4
  <2>5. CASE n = t
    <3>1. task.pod # 0
      BY <1>1, <2>3, <2>5
    <3>2. \A retries : NewAttempt(TaskAt(n), retries).pod = 0
      BY <1>1 DEF NewAttempt, Task
    <3>3. task.ip /\ ~task.deletionPending
      BY <1>1, <2>2, <2>5, <3>1, <3>2 DEF Task
    <3> QED
      BY <2>3, <2>5, <3>3 DEF IsTaskReady
  <2> QED
    BY <2>4, <2>5
<1>3. CASE Rescale
  BY <1>1, <1>3, RescaledTask DEF Droppable
<1>4. CASE PersistPods
  BY <1>1, <1>4, PersistedTask DEF IsTaskReady
<1>5. ASSUME NEW t \in Names, Barrier(t) \/ Kubelet(t) \/ PodDeletedByOthers(t)
      PROVE  FALSE
  BY <1>5 DEF Barrier, BarrierMisconfigured, BarrierPasses, BarrierFails,
     Kubelet, AppContainersTerminate, EvictPod, PodDeletedByOthers
<1>6. CASE RescaleByUser \/ FrameworkDeletedByUser
  BY <1>6 DEF RescaleByUser, FrameworkDeletedByUser
<1> QED
  BY <1>2, <1>3, <1>4, <1>5, <1>6 DEF Next

\* Once the barrier is open for one Task it stays open for all, for any number of
\* them: what opens it is a Task that is ready for each of the Spec, and only the
\* user, a retry or a replacement takes that from one.
THEOREM AllOrNothingHolds == Safety => AllOrNothing
<1>1. ASSUME Inv, Next, exists, exists', spec' = spec, status' # status,
             ~ \E t \in Names :
                 InSpec(t) /\ InStatus(t) /\ TaskAt(t).pod # 0 /\ TaskAt(t)'.pod = 0,
             IsBarrierPassed
      PROVE  IsBarrierPassed'
  <2>1. \A n \in Names : InSpec(n) => InStatus(n) /\ IsTaskReady(TaskAt(n))
    BY <1>1, PassedIsAllReady DEF ReadyTasks, TasksOfSpec
  <2>2. \A n \in Names : InSpec(n) => InStatus(n)' /\ IsTaskReady(TaskAt(n)')
    BY <1>1, <2>1, StaysReady
  <2>3. TasksOfSpec' = TasksOfSpec
    BY <1>1 DEF TasksOfSpec, InSpec
  <2>4. ReadyTasks' = TasksOfSpec
    BY <2>2, <2>3 DEF ReadyTasks, TasksOfSpec
  <2>5. Cardinality(TasksOfSpec) \in Nat
    BY NamesAreFinite, FS_Subset, FS_CardinalityType DEF TasksOfSpec
  <2> QED
    BY <2>3, <2>4, <2>5 DEF IsBarrierPassed
<1>2. Inv /\ [Next]_vars =>
        [/\ exists /\ exists' /\ spec' = spec
         /\ status' # status
         /\ ~ \E t \in Names :
              InSpec(t) /\ InStatus(t) /\ TaskAt(t).pod # 0 /\ TaskAt(t)'.pod = 0
         /\ IsBarrierPassed
         => IsBarrierPassed']_vars
  BY <1>1 DEF vars
<1> QED
  BY <1>2, Invariance, PTL DEF Safety, AllOrNothing
-----------------------------------------------------------------------------
(* What the barrier exits with *)

LEMMA BarrierOnlyContainers ==
  ASSUME NEW code
  PROVE  /\ Len(BarrierOnly(code)) = 2
         /\ BarrierOnly(code)[1].terminated /\ BarrierOnly(code)[1].code = code
         /\ ~BarrierOnly(code)[2].terminated
<1> DEFINE b == Container("barrier", TRUE, code, 1)
           w == Container("app", FALSE, 0, 0)
<1>1. b.terminated /\ b.code = code /\ ~w.terminated
  BY DEF Container
<1>2. BarrierOnly(code) = <<b>> \o <<w>>
  BY DEF BarrierOnly, Waiting
<1> HIDE DEF b, w
<1>3. <<b>> \in Seq({b, w}) /\ <<w>> \in Seq({b, w}) /\ Len(<<b>>) = 1 /\ Len(<<w>>) = 1
  OBVIOUS
<1>4. Len(<<b>> \o <<w>>) = 2 /\ (<<b>> \o <<w>>)[1] = b /\ (<<b>> \o <<w>>)[2] = w
  BY <1>3, ConcatProperties
<1> QED
  BY <1>1, <1>2, <1>4

\* Only a barrier that exited leaves containers of which the first has failed.
LEMMA FirstFailedIsBarrier ==
  ASSUME NEW containers \in ContainerStatuses, containers # <<>>, containers[1].code # 0
  PROVE  \E code \in BarrierCodes : containers = BarrierOnly(code) /\ containers[1].code = code
<1>1. Waiting[1].code = 0
  BY DEF Waiting, Container
<1>2. \A ends \in AppEnds : AllRan(ends)[1].code = 0
  <2> TAKE ends \in AppEnds
  <2> DEFINE first == Container("barrier", TRUE, 0, 1)
  <2>1. ends \in Seq(ContainerStatus)
    BY ContainersAssumption
  <2>2. first \in ContainerStatus /\ first.code = 0
    BY ContainersAssumption DEF ContainerStatus, Container
  <2> HIDE DEF first
  <2>3. AllRan(ends) = <<first>> \o ends
    BY DEF AllRan, first
  <2>4. <<first>> \in Seq(ContainerStatus) /\ Len(<<first>>) = 1 /\ <<first>>[1] = first
    BY <2>2
  <2>5. Len(ends) \in Nat
    BY <2>1
  <2>6. AllRan(ends)[1] = first
    BY <2>1, <2>3, <2>4, <2>5, ConcatProperties
  <2> QED
    BY <2>2, <2>6
<1>3. PICK code \in BarrierCodes : containers = BarrierOnly(code)
  BY <1>1, <1>2 DEF ContainerStatuses
<1> QED
  BY <1>3, BarrierOnlyContainers

\* A predefined exit code is what the Pod is matched to, whatever is configured, and
\* an unknown one is the code of the completion unless a configured PodPattern matches.
LEMMA BarrierExitMatched ==
  ASSUME NEW reason \in Reasons, NEW code \in BarrierCodes
  PROVE  LET result == MatchCompletionCodeInfos(MatchablePod(reason, BarrierOnly(code)))
         IN  /\ code = ContainerTransientConflictFailed =>
                  result = Result(code, Failed({"Transient", "Conflict"}))
             /\ code = ContainerPermanentFailed => result = Result(code, Failed({"Permanent"}))
             /\ code = 1 /\ ~IsConfigured(BarrierOnly(code)) => result = Result(code, Failed({}))
<1> DEFINE pod == MatchablePod(reason, BarrierOnly(code))
<1>1. pod.containers = BarrierOnly(code)
  BY DEF MatchablePod
<1>2. pod.containers \in Seq(ContainerStatus)
  BY <1>1, ContainersType DEF ContainerStatuses
<1>3. ~IsConfigured(BarrierOnly(code)) =>
        \A i \in 1 .. Len(PodFailureSpec) : ~MatchesInfo(pod, PodFailureSpec[i])
  BY DEF IsConfigured
<1> HIDE DEF pod
<1>4. /\ Len(pod.containers) = 2
      /\ \A k \in 1 .. 2 : pod.containers[k].terminated <=> k = 1
      /\ pod.containers[1].code = code
  BY <1>1, BarrierOnlyContainers
<1>5. /\ PredefinedInfos[2].code = ContainerTransientConflictFailed
      /\ PredefinedInfos[2].type = Failed({"Transient", "Conflict"})
      /\ PredefinedInfos[3].code = ContainerPermanentFailed
      /\ PredefinedInfos[3].type = Failed({"Permanent"})
  BY DEF PredefinedInfos, PredefinedInfo
<1>6. ASSUME NEW i \in 1 .. 3, PredefinedInfos[i].code = code
      PROVE  MatchCompletionCodeInfos(pod) = Result(code, PredefinedInfos[i].type)
  BY <1>2, <1>4, <1>6, PredefinedDecides
<1>7. ASSUME code = 1, ~IsConfigured(BarrierOnly(code))
      PROVE  MatchCompletionCodeInfos(pod) = Result(code, Failed({}))
  <2>1. ASSUME NEW i \in 1 .. 3
        PROVE  ~MatchesInfo(pod, PredefinedInfos[i])
    <3>1. PICK type, c : c \in PredefinedCodes /\ PredefinedInfos[i] = PredefinedInfo(c, type)
      BY PredefinedInfoOf
    <3>2. c \in Nat /\ c # 1
      BY <3>1 DEF PredefinedCodes, ContainerTransientFailed, ContainerTransientConflictFailed,
         ContainerPermanentFailed
    <3> QED
      BY <1>2, <1>4, <1>7, <3>1, <3>2, PredefinedMatches
  <2>2. \A i \in 1 .. Len(CompletionCodeInfos) : ~MatchesInfo(pod, CompletionCodeInfos[i])
    BY <1>3, <1>7, <2>1, InfosInOrder
  <2>3. MatchCompletionCodeInfos(pod) = UnmatchedResult(pod)
    BY <2>2, FirstMatch
  <2>4. FailedContainers(pod.containers) = {1}
    BY <1>4, <1>7 DEF FailedContainers, HasFailed
  <2>5. UnmatchedResult(pod) = Result(pod.containers[1].code, Failed({}))
    BY <1>2, <2>4, UnmatchedCode
  <2> QED
    BY <1>4, <2>3, <2>5
<1>8. /\ code = ContainerTransientConflictFailed =>
           MatchCompletionCodeInfos(pod) = Result(code, Failed({"Transient", "Conflict"}))
      /\ code = ContainerPermanentFailed =>
           MatchCompletionCodeInfos(pod) = Result(code, Failed({"Permanent"}))
      /\ code = 1 /\ ~IsConfigured(BarrierOnly(code)) =>
           MatchCompletionCodeInfos(pod) = Result(code, Failed({}))
  BY <1>5, <1>6, <1>7
<1> QED
  BY <1>8 DEF pod

\* What the RetryPolicy decides of the types that the exits have
LEMMA Decisions ==
  ASSUME NEW retries, NEW code, code # DeleteTaskRequested, NEW type
  PROVE  LET decision == ShouldRetry([MaxRetryCount |-> MaxRetryCount, FancyRetryPolicy |-> TRUE],
                                     retries, NameOf(code), type, 0)
         IN  /\ type = Failed({"Transient", "Conflict"}) =>
                  decision.ShouldRetry /\ ~decision.IsAccountable
             /\ type = Failed({"Permanent"}) => ~decision.ShouldRetry
             /\ type = Failed({}) => decision.IsAccountable
<1>1. NameOf(code) \notin NeverRetriedCodes
  BY DEF NameOf, NeverRetriedCodes
<1> QED
  BY <1>1 DEF ShouldRetry, NormalRetryPolicy, Decision, Failed, CompletionType, IsFailed

\* An attempt that ends is retried or completed by the sync of its Task.
LEMMA OnlyDecisionEndsAttempt ==
  ASSUME Inv, Next, NEW n \in Names, AttemptEnds(n)
  PROVE  RetryOrCompleteTask(n)
<1>1. /\ InStatus(n) /\ InStatus(n)'
      /\ TaskAt(n).result # NoResult /\ ~TaskAt(n).completed
      /\ TaskAt(n)'.completed \/ TaskAt(n)'.result = NoResult
      /\ TaskAt(n) \in Task /\ TypeOK
  BY TaskAtType DEF AttemptEnds, Inv
<1>2. CASE status' = status
  BY <1>1, <1>2 DEF TaskAt
<1>3. CASE Rescale
  BY <1>1, <1>3, RescaledTask DEF Droppable
<1>4. CASE PersistPods
  BY <1>1, <1>4, PersistedTask
<1>5. ASSUME NEW t \in Names, SyncTask(t), status' # status
      PROVE  RetryOrCompleteTask(n)
  <2>1. InStatus(t) /\ \E task : SetTask(t, task)
    BY <1>5 DEF SyncTask, CreatePod, IsCreationPending, PodCreationFails, ReportIP,
       CompleteTaskAttempt, DeletePod, RetryOrCompleteTask, Syncs
  <2>2. n = t
    BY <1>1, <2>1, SetTaskAt
  <2> QED
    BY <1>1, <1>5, <2>2 DEF SyncTask, CreatePod, PodCreationFails, IsCreationPending, ReportIP,
       CompleteTaskAttempt, DeletePod
<1>6. ASSUME NEW t \in Names, Barrier(t) \/ Kubelet(t) \/ PodDeletedByOthers(t)
      PROVE  status' = status
  BY <1>6 DEF Barrier, BarrierMisconfigured, BarrierPasses, BarrierFails,
     Kubelet, AppContainersTerminate, EvictPod, PodDeletedByOthers
<1> QED
  BY <1>2, <1>3, <1>4, <1>5, <1>6 DEF Next, RescaleByUser, FrameworkDeletedByUser

\* What the barrier exits with is what happens to its Task, for any RetryPolicy with
\* FancyRetryPolicy, any number of retries before, and any PodFailureSpec.
THEOREM BarrierExitHonouredHolds == Safety => BarrierExitHonoured
<1>1. ASSUME Inv, Next, NEW t \in Names, AttemptEnds(t), TaskAt(t).result.pod # <<>>
      PROVE  LET exit == TaskAt(t).result.pod[1].code
             IN  /\ exit = ContainerTransientConflictFailed =>
                      ~TaskAt(t)'.completed /\ TaskAt(t)'.retries = TaskAt(t).retries
                 /\ exit = ContainerPermanentFailed => TaskAt(t)'.completed
                 /\ exit = 1 /\ ~IsConfigured(TaskAt(t).result.pod) /\ ~TaskAt(t)'.completed =>
                      TaskAt(t)'.retries = TaskAt(t).retries + 1
  <2> DEFINE task == TaskAt(t)
             exit == task.result.pod[1].code
             decision == ShouldRetry([MaxRetryCount |-> MaxRetryCount, FancyRetryPolicy |-> TRUE],
                                     task.retries, NameOf(task.result.code), task.result.type, 0)
             next == IF decision.ShouldRetry
                       THEN NewAttempt(task, task.retries + (IF decision.IsAccountable THEN 1 ELSE 0))
                       ELSE [task EXCEPT !.completed = TRUE]
  <2>1. /\ InStatus(t) /\ task.result # NoResult /\ ~task.completed /\ TypeOK
        /\ task \in Task /\ task.retries \in Nat
    BY <1>1, TaskAtType DEF AttemptEnds, Inv, Task
  <2>2. SetTask(t, next)
    BY <1>1, OnlyDecisionEndsAttempt DEF RetryOrCompleteTask
  <2>3. TaskAt(t)' = next
    BY <2>1, <2>2, SetTaskAt
  <2>4. /\ decision.ShouldRetry =>
             /\ ~next.completed
             /\ next.retries = task.retries + (IF decision.IsAccountable THEN 1 ELSE 0)
        /\ ~decision.ShouldRetry => next.completed
    BY <2>1 DEF NewAttempt, Task
  <2>5. ASSUME exit \in BarrierCodes
        PROVE  \E reason \in Reasons :
                 task.result = CompletionOfPod(reason, BarrierOnly(exit))
    <3>1. 0 \notin BarrierCodes
      BY DEF BarrierCodes, ContainerTransientConflictFailed, ContainerPermanentFailed
    <3>2. \A result, containers : Completion(result, containers).pod = containers
      BY DEF Completion
    <3>3. task.result \in Completions \ {NoResult}
      BY <2>1 DEF Task
    <3>4. ~HaveSucceeded(BarrierOnly(exit))
      <4>1. HasFailed(BarrierOnly(exit)[1]) /\ 1 \in 1 .. Len(BarrierOnly(exit))
        BY <2>5, <3>1, BarrierOnlyContainers DEF HasFailed
      <4> QED
        BY <4>1 DEF HaveSucceeded
    <3>5. ASSUME NEW containers \in ContainerStatuses, task.result.pod = containers
          PROVE  containers = BarrierOnly(exit)
      BY <1>1, <2>5, <3>1, <3>5, FirstFailedIsBarrier
    <3>6. CASE \E containers \in ContainerStatuses :
                 HaveSucceeded(containers)
                 /\ task.result = Completion(OfController(Succeeded), containers)
      BY <3>2, <3>4, <3>5, <3>6
    <3>7. CASE \E reason \in Reasons, containers \in ContainerStatuses :
                 task.result = CompletionOfPod(reason, containers)
      <4>1. PICK reason \in Reasons, containers \in ContainerStatuses :
              task.result = CompletionOfPod(reason, containers)
        BY <3>7
      <4>2. task.result.pod = containers
        BY <3>2, <4>1 DEF CompletionOfPod
      <4> QED
        BY <3>5, <4>1, <4>2
    <3>8. CASE \E result : task.result = Completion(result, <<>>)
      BY <1>1, <3>2, <3>8
    <3> HIDE DEF task
    <3> QED
      BY <3>3, <3>6, <3>7, <3>8 DEF Completions, CompletionOfController
  <2>6. ASSUME exit \in BarrierCodes
        PROVE  /\ exit = ContainerTransientConflictFailed =>
                    decision.ShouldRetry /\ ~decision.IsAccountable
               /\ exit = ContainerPermanentFailed => ~decision.ShouldRetry
               /\ exit = 1 /\ ~IsConfigured(task.result.pod) => decision.IsAccountable
    <3>1. PICK reason \in Reasons : task.result = CompletionOfPod(reason, BarrierOnly(exit))
      BY <2>5, <2>6
    <3> DEFINE result == MatchCompletionCodeInfos(MatchablePod(reason, BarrierOnly(exit)))
    <3>2. /\ task.result.code = result.code /\ task.result.type = result.type
          /\ task.result.pod = BarrierOnly(exit)
      BY <3>1 DEF CompletionOfPod, Completion
    <3>3. /\ exit = ContainerTransientConflictFailed =>
               result = Result(exit, Failed({"Transient", "Conflict"}))
          /\ exit = ContainerPermanentFailed => result = Result(exit, Failed({"Permanent"}))
          /\ exit = 1 /\ ~IsConfigured(BarrierOnly(exit)) => result = Result(exit, Failed({}))
      BY <2>6, BarrierExitMatched
    <3>4. exit # DeleteTaskRequested
      BY <2>6 DEF BarrierCodes, ContainerTransientConflictFailed, ContainerPermanentFailed,
         DeleteTaskRequested
    <3>5. \A type : Result(exit, type).code = exit /\ Result(exit, type).type = type
      BY DEF Result
    <3> HIDE DEF exit, result
    <3>6. /\ exit = ContainerTransientConflictFailed =>
               /\ task.result.code = exit
               /\ task.result.type = Failed({"Transient", "Conflict"})
          /\ exit = ContainerPermanentFailed =>
               task.result.code = exit /\ task.result.type = Failed({"Permanent"})
          /\ exit = 1 /\ ~IsConfigured(task.result.pod) =>
               task.result.code = exit /\ task.result.type = Failed({})
      BY <3>2, <3>3, <3>5
    <3>7. task.result.code = exit =>
            /\ task.result.type = Failed({"Transient", "Conflict"}) =>
                 decision.ShouldRetry /\ ~decision.IsAccountable
            /\ task.result.type = Failed({"Permanent"}) => ~decision.ShouldRetry
            /\ task.result.type = Failed({}) => decision.IsAccountable
      BY <3>4, Decisions
    <3> HIDE DEF task, decision
    <3> QED
      BY <3>6, <3>7
  <2>7. {1, ContainerTransientConflictFailed, ContainerPermanentFailed} \subseteq BarrierCodes
    BY DEF BarrierCodes
  <2> HIDE DEF exit, decision, next, task
  <2>8. /\ exit = ContainerTransientConflictFailed =>
             ~TaskAt(t)'.completed /\ TaskAt(t)'.retries = task.retries
        /\ exit = ContainerPermanentFailed => TaskAt(t)'.completed
        /\ exit = 1 /\ ~IsConfigured(task.result.pod) /\ ~TaskAt(t)'.completed =>
             TaskAt(t)'.retries = task.retries + 1
    BY <2>1, <2>3, <2>4, <2>6, <2>7
  <2> QED
    BY <2>8 DEF exit, task
<1>2. Inv /\ [Next]_vars =>
        [status' # status => \A t \in Names :
           AttemptEnds(t) /\ TaskAt(t).result.pod # <<>> =>
             LET exit == TaskAt(t).result.pod[1].code
             IN  /\ exit = ContainerTransientConflictFailed =>
                      ~TaskAt(t)'.completed /\ TaskAt(t)'.retries = TaskAt(t).retries
                 /\ exit = ContainerPermanentFailed => TaskAt(t)'.completed
                 /\ exit = 1 /\ ~IsConfigured(TaskAt(t).result.pod) /\ ~TaskAt(t)'.completed =>
                      TaskAt(t)'.retries = TaskAt(t).retries + 1]_vars
  BY <1>1 DEF vars
<1> QED
  BY <1>2, Invariance, PTL DEF Safety, BarrierExitHonoured
=============================================================================
