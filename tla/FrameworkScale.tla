-------------------------- MODULE FrameworkScale --------------------------
(***************************************************************************)
(* Framework ScaleUp/ScaleDown (controller.go): how the TaskRoles and Tasks*)
(* in Framework.Status follow those in Framework.Spec, which a user may    *)
(* change again before the last Rescale is through, and how the Tasks      *)
(* complete the FrameworkAttempt (CompletionPolicySpec).                   *)
(*                                                                         *)
(* Scope.  One FrameworkAttempt, up to the sync that decides to complete   *)
(* it: Rescale is ignored from then on.  A Status is persisted before the  *)
(* next sync acts on it (FrameworkStatusSync).  The                        *)
(* Pod of a Task is reduced to its existence.  A Task or a condition that  *)
(* completes the attempt is any of those satisfied, not the one with the   *)
(* earliest CompletionTime.                                                *)
(***************************************************************************)
EXTENDS Integers, Sequences, FiniteSets

CONSTANTS
  Roles,        \* TaskRole names
  MaxNumber,    \* the largest TaskNumber
  UserSpecs,    \* the values of Framework.Spec.TaskRoles that users write
  MaxEvents     \* bound: changes of the Spec, Task retries and restarts together

\* TaskRoleSpec: TaskNumber and FrameworkAttemptCompletionPolicy
RoleSpec == [number : 0 .. MaxNumber, minFailed : Int, minSucceeded : Int]

ASSUME ScaleAssumption ==
  /\ MaxNumber \in Nat
  /\ \A s \in UserSpecs :
       /\ DOMAIN s \subseteq Roles /\ IsFiniteSet(DOMAIN s)
       /\ s \in [DOMAIN s -> RoleSpec]
  /\ MaxEvents \in Nat

VARIABLES
  spec,     \* Framework.Spec in the ApiServer
  seen,     \* Framework.Spec in the local cache, which a running sync works on
  status,   \* Framework.Status in the ApiServer
  f,        \* the Status that the running sync works on
  pc,       \* where it is in syncFrameworkStatus
  todo,     \* the Tasks that syncTaskRoleStatuses still has to sync
  queued,   \* the key waits in fQueue
  cm,       \* the ConfigMap is there
  pods,     \* the Pods in the ApiServer
  gens,     \* for each Task name, its instances so far
  events    \* changes of the Spec, Task retries and restarts so far

cacheVars == <<seen, cm>>
syncVars == <<f, pc, todo, queued>>
vars == <<spec, cacheVars, syncVars, status, pods, gens, events>>

Names == Roles \X (1 .. MaxNumber)

\* TaskStatus.  Active stands for CreationRequested, Preparing and Running, and
\* DeletionPending for all of the attempt's deletion states.
Task == [inst : Nat,
         state : {"CreationPending", "Active", "DeletionPending",
                  "AttemptCompleted", "Completed"},
         deletionPending : BOOLEAN,
         outcome : {"none", "Succeeded", "Failed", "DeleteTaskRequested",
                    "FrameworkAttemptCompletion"}]

NewTask(gen) ==
  [inst |-> gen, state |-> "CreationPending", deletionPending |-> FALSE,
   outcome |-> "none"]

\* A Pod carries the name and the instance of its Task.
Pod == [name : Names, inst : Nat, deleting : BOOLEAN]

TasksOf(ts) == {n \in Names : n[1] \in DOMAIN ts /\ n[2] <= Len(ts[n[1]])}
TaskAt(ts, n) == ts[n[1]][n[2]]

\* A TaskAttempt that completes has a CompletionStatus, which the decision to
\* retry dereferences.
IsTaskStatus(t) ==
  /\ t \in Task
  /\ t.state \in {"DeletionPending", "AttemptCompleted", "Completed"} => t.outcome # "none"

IsTaskRoleStatuses(ts) ==
  /\ DOMAIN ts \subseteq Roles
  /\ ts \in [DOMAIN ts -> Seq(Task)]
  /\ \A n \in TasksOf(ts) : IsTaskStatus(TaskAt(ts, n))
  /\ \A r \in DOMAIN ts : Len(ts[r]) <= MaxNumber

IsStatus(s) ==
  /\ s = [completing |-> s.completing, tasks |-> s.tasks]
  /\ s.completing \in BOOLEAN
  /\ IsTaskRoleStatuses(s.tasks)

TypeOK ==
  /\ spec \in UserSpecs /\ seen \in UserSpecs
  /\ IsStatus(status) /\ IsStatus(f)
  /\ pc \in {"idle", "policy", "tasks", "persist"}
  /\ todo \subseteq Names
  /\ queued \in BOOLEAN /\ cm \in BOOLEAN
  /\ pods \subseteq Pod
  /\ gens \in [Names -> Nat]
  /\ events \in 0 .. MaxEvents

\* NewTaskRoleStatuses
Init ==
  /\ spec \in UserSpecs
  /\ seen = spec
  /\ status = [completing |-> FALSE,
               tasks |-> [r \in DOMAIN spec |->
                            [i \in 1 .. spec[r].number |-> NewTask(1)]]]
  /\ f = status
  /\ pc = "idle"
  /\ todo = {}
  /\ queued = TRUE
  /\ cm = FALSE
  /\ pods = {}
  /\ gens = [n \in Names |-> IF n \in TasksOf(status.tasks) THEN 1 ELSE 0]
  /\ events = 0

Bounded == events < MaxEvents /\ events' = events + 1

-----------------------------------------------------------------------------
(* syncFrameworkScale *)

Number(s, r) == IF r \in DOMAIN s THEN s[r].number ELSE 0

TasksIn(ts, r) == IF r \in DOMAIN ts THEN ts[r] ELSE <<>>

OutcomeKept(t, o) == t.outcome   \* a mutant

\* CompletionStatus is immutable once set.
OutcomeOr(t, o) == IF t.outcome = "none" THEN o ELSE t.outcome

\* A mutant: a Task that is completed needs no mark.
MarkUncompleted(t) ==
  IF t.state = "Completed" THEN t
  ELSE [t EXCEPT !.deletionPending = TRUE,
                 !.outcome = OutcomeOr(t, "DeleteTaskRequested")]

MarkAsDeletionPending(t) ==
  [t EXCEPT !.deletionPending = TRUE,
            !.outcome = OutcomeOr(t, "DeleteTaskRequested")]

Scaled(s, ts) ==
  [r \in DOMAIN s \cup DOMAIN ts |->
     LET q == TasksIn(ts, r)
         size == IF Len(q) < Number(s, r) THEN Number(s, r) ELSE Len(q)
     IN  [i \in 1 .. size |->
            IF i > Len(q) THEN NewTask(gens[<<r, i>>] + 1)
            ELSE IF i > Number(s, r) THEN MarkAsDeletionPending(q[i])
            ELSE q[i]]]

\* compactFrameworkScale
DroppableUncompleted(t) == t.deletionPending   \* a mutant

Droppable(t) == t.deletionPending /\ t.state = "Completed"

\* The tail of Tasks beyond the Spec that are droppable is dropped.
KeptLength(s, r, q) ==
  CHOOSE k \in 0 .. Len(q) :
    /\ k >= Number(s, r) \/ k = Len(q)
    /\ \A i \in k + 1 .. Len(q) : Droppable(q[i])
    /\ k - 1 >= Number(s, r) /\ k > 0 => ~Droppable(q[k])

ReusedTask(t, gen) ==    \* a mutant
  [t EXCEPT !.state = "CreationPending", !.deletionPending = FALSE,
            !.outcome = "none"]

ReplacedTask(t, gen) == NewTask(gen)

Compacted(s, ts) ==
  LET kept(r) == KeptLength(s, r, ts[r])
  IN  [r \in {r \in DOMAIN ts : r \in DOMAIN s \/ kept(r) > 0} |->
         [i \in 1 .. kept(r) |->
            IF i <= Number(s, r) /\ Droppable(ts[r][i])
              THEN ReplacedTask(ts[r][i], gens[<<r, i>>] + 1)
              ELSE ts[r][i]]]

\* New Tasks or DeletionPending ones were produced.
IsRemembered(old, new) ==
  \A n \in TasksOf(new) :
    /\ n \in TasksOf(old)
    /\ TaskAt(new, n).inst = TaskAt(old, n).inst
    /\ TaskAt(new, n).deletionPending = TaskAt(old, n).deletionPending

NextGens(ts) ==
  [n \in Names |->
     IF n \in TasksOf(ts) /\ TaskAt(ts, n).inst > gens[n]
       THEN TaskAt(ts, n).inst ELSE gens[n]]

MustWaitNever(old, new) == FALSE   \* a mutant

\* A sync that produced some waits until they are persisted.
MustWait(old, new) == ~IsRemembered(old, new)

\* f.Status becomes ts; the sync goes on, or ends because of new Tasks.
Rescale(ts) ==
  /\ f' = [status EXCEPT !.tasks = ts]
  /\ gens' = NextGens(ts)
  /\ IF MustWait(status.tasks, ts)
       THEN pc' = "persist" /\ queued' = TRUE
       ELSE /\ pc' = IF cm THEN "policy" ELSE "persist"
            /\ queued' = FALSE

StartSync ==
  /\ pc = "idle" /\ queued
  /\ ~status.completing
  /\ LET scaled == Scaled(seen, status.tasks)
     IN  IF MustWait(status.tasks, scaled) THEN Rescale(scaled)
         ELSE Rescale(Compacted(seen, scaled))
  /\ UNCHANGED <<spec, cacheVars, todo, status, pods, events>>

-----------------------------------------------------------------------------
(* The FrameworkAttemptCompletionPolicy *)

IsFailed(t) == t.outcome \notin {"none", "Succeeded"}
IsSucceeded(t) == t.outcome = "Succeeded"

CountsDeletionPending(t) == t.state = "Completed"    \* a mutant

\* The selectors of the policy ignore DeletionPending Tasks.
Counts(t) == t.state = "Completed" /\ ~t.deletionPending

CountIn(q, Selected(_)) ==
  Cardinality({i \in 1 .. Len(q) : Counts(q[i]) /\ Selected(q[i])})

FailedTaskCount(ts, r) == CountIn(TasksIn(ts, r), IsFailed)
SucceededTaskCount(ts, r) == CountIn(TasksIn(ts, r), IsSucceeded)

CompletedTasks(ts) == {n \in TasksOf(ts) : Counts(TaskAt(ts, n))}
TotalTasks(s) == {n \in Names : n[2] <= Number(s, n[1])}

FailedTriggers(s, ts, r) ==
  s[r].minFailed >= 1 /\ FailedTaskCount(ts, r) >= s[r].minFailed

SucceededTriggers(s, ts, r) ==
  s[r].minSucceeded >= 1 /\ SucceededTaskCount(ts, r) >= s[r].minSucceeded

CompletedTriggers(s, ts) ==
  /\ TotalTasks(s) # {}
  /\ Cardinality(CompletedTasks(ts)) >= Cardinality(TotalTasks(s))

\* completeFrameworkAttempt, not forced, with the Tasks ts.  The sync goes on with
\* the other Tasks.
CompleteFrameworkAttempt(ts) ==
  /\ f' = [completing |-> TRUE,
           tasks |-> [r \in DOMAIN ts |->
             [i \in 1 .. Len(ts[r]) |->
                [ts[r][i] EXCEPT !.outcome =
                   OutcomeOr(ts[r][i], "FrameworkAttemptCompletion")]]]]
  /\ queued' = TRUE

\* syncFrameworkAttemptCompletionPolicy, before the Tasks are synced.
SyncPolicy ==
  /\ pc = "policy"
  /\ LET ts == f.tasks
     IN  IF \/ \E r \in DOMAIN seen :
                 FailedTriggers(seen, ts, r) \/ SucceededTriggers(seen, ts, r)
            \/ CompletedTriggers(seen, ts)
           THEN CompleteFrameworkAttempt(ts)
           ELSE UNCHANGED <<f, queued>>
  /\ pc' = "tasks"
  /\ todo' = {n \in TasksOf(f.tasks) :
                TaskAt(f.tasks, n).state # "Completed"}
  /\ UNCHANGED <<spec, cacheVars, status, pods, gens, events>>

-----------------------------------------------------------------------------
(* syncTaskState *)

Belongs(n) == n[1] \in DOMAIN seen

PodsOf(n) == {p \in pods : p.name = n}

With(n, t) == [f.tasks EXCEPT ![n[1]][n[2]] = t]

\* The Task named n becomes t, and the sync goes on with the next one.
Becomes(n, t, again) ==
  /\ f' = [f EXCEPT !.tasks = With(n, t)]
  /\ todo' = todo \ {n}
  /\ queued' = (queued \/ again)
  /\ UNCHANGED pc

DeletePod(n) ==
  pods' = {IF p.name = n THEN [p EXCEPT !.deleting = TRUE] ELSE p : p \in pods}

SyncCreationPending(n, t) ==
  /\ t.state = "CreationPending"
  /\ \/ /\ PodsOf(n) # {}      \* unmanaged
        /\ DeletePod(n)
        /\ Becomes(n, t, TRUE)
     \/ /\ PodsOf(n) = {}
        /\ f.completing
        /\ Becomes(n, t, FALSE)
        /\ UNCHANGED pods
     \/ /\ PodsOf(n) = {} /\ ~f.completing
        /\ t.deletionPending \/ ~Belongs(n)
        /\ Becomes(n, [t EXCEPT !.state = "AttemptCompleted",
                                !.outcome = OutcomeOr(t, "DeleteTaskRequested")], TRUE)
        /\ UNCHANGED pods
     \/ /\ PodsOf(n) = {} /\ ~f.completing
        /\ ~t.deletionPending /\ Belongs(n)
        /\ pods' = pods \cup {[name |-> n, inst |-> t.inst, deleting |-> FALSE]}
        /\ Becomes(n, [t EXCEPT !.state = "Active"], FALSE)
  /\ UNCHANGED events

\* The Pod is gone, being deleted, done, or else to be deleted by a ScaleDown.
SyncActive(n, t) ==
  /\ t.state = "Active"
  /\ \/ /\ PodsOf(n) = {}
        /\ Becomes(n, [t EXCEPT !.state = "AttemptCompleted",
                                !.outcome = OutcomeOr(t, "Failed")], TRUE)
     \/ /\ \E p \in PodsOf(n) : p.deleting
        /\ Becomes(n, [t EXCEPT !.state = "DeletionPending",
                                !.outcome = OutcomeOr(t, "Failed")], FALSE)
     \/ /\ \E p \in PodsOf(n) : ~p.deleting
        /\ \/ \E o \in {"Succeeded", "Failed"} :
                Becomes(n, [t EXCEPT !.state = "DeletionPending",
                                     !.outcome = OutcomeOr(t, o)], TRUE)
           \/ IF t.deletionPending
                THEN Becomes(n, [t EXCEPT !.state = "DeletionPending",
                                          !.outcome = OutcomeOr(t, "DeleteTaskRequested")],
                             TRUE)
                ELSE Becomes(n, t, FALSE)
  /\ UNCHANGED <<pods, events>>

SyncDeletionPending(n, t) ==
  /\ t.state = "DeletionPending"
  /\ DeletePod(n)
  /\ IF PodsOf(n) = {}
       THEN Becomes(n, [t EXCEPT !.state = "AttemptCompleted"], TRUE)
       ELSE Becomes(n, t, FALSE)
  /\ UNCHANGED events

\* A Task that is DeletionPending or whose TaskRole is gone from the Spec does
\* not impact the FrameworkAttempt; its completion is persisted first.
CompleteTaskQuietly(n, t) == Becomes(n, t, FALSE)   \* a mutant

CompleteTask(n, t) ==
  LET ts == With(n, t)
      ignored == t.deletionPending \/ ~Belongs(n)
  IN  IF /\ ~f.completing /\ ~ignored
         /\ \/ IsFailed(t) /\ FailedTriggers(seen, ts, n[1])
            \/ IsSucceeded(t) /\ SucceededTriggers(seen, ts, n[1])
            \/ CompletedTriggers(seen, ts)
        THEN CompleteFrameworkAttempt(ts) /\ todo' = todo \ {n} /\ UNCHANGED pc
        ELSE Becomes(n, t, ~f.completing /\ ignored)

\* attemptToRetryTask, whatever RetryPolicySpec.ShouldRetry says
SyncAttemptCompleted(n, t) ==
  /\ t.state = "AttemptCompleted"
  /\ \/ CompleteTask(n, [t EXCEPT !.state = "Completed"]) /\ UNCHANGED events
     \/ /\ Belongs(n)
        /\ t.outcome \notin {"DeleteTaskRequested", "FrameworkAttemptCompletion"}
        /\ Bounded
        /\ Becomes(n, [t EXCEPT !.state = "CreationPending", !.outcome = "none"],
                   TRUE)
  /\ UNCHANGED pods

SyncTask ==
  /\ pc = "tasks"
  /\ \E n \in todo :
       /\ \A m \in todo : m[1] = n[1] => n[2] <= m[2]
       /\ LET t == TaskAt(f.tasks, n)
          IN  \/ SyncCreationPending(n, t)
              \/ SyncActive(n, t)
              \/ SyncDeletionPending(n, t)
              \/ SyncAttemptCompleted(n, t)
  /\ UNCHANGED <<spec, cacheVars, status, gens>>

\* updateRemoteFrameworkStatus, once it succeeds
Persist ==
  /\ pc = "persist" \/ (pc = "tasks" /\ todo = {})
  /\ status' = f
  /\ pc' = "idle"
  /\ UNCHANGED <<spec, cacheVars, f, todo, queued, pods, gens, events>>

-----------------------------------------------------------------------------
(* The user, the Informers, the cluster and restarts.  A sync reads its own *)
(* copy of the Spec (hence seen stays) and each Pod once, so that others    *)
(* move between syncs: within one, what they do commutes with its rest.     *)

UserRescale ==
  /\ pc = "idle"
  /\ Bounded
  /\ spec' \in UserSpecs \ {spec}
  /\ UNCHANGED <<cacheVars, syncVars, status, pods, gens>>

Deliver ==
  /\ pc = "idle"
  /\ seen # spec
  /\ seen' = spec
  /\ queued' = TRUE
  /\ UNCHANGED <<spec, cm, f, pc, todo, status, pods, gens, events>>

ConfigMapAppears ==
  /\ pc = "idle"
  /\ ~cm
  /\ cm' = TRUE
  /\ queued' = TRUE
  /\ UNCHANGED <<spec, seen, f, pc, todo, status, pods, gens, events>>

\* Any other event of a Pod enqueues the key too.
PodEvent ==
  /\ pc = "idle"
  /\ pods # {}
  /\ ~queued
  /\ queued' = TRUE
  /\ UNCHANGED <<spec, cacheVars, f, pc, todo, status, pods, gens, events>>

PodDeletedByOthers ==
  /\ pc = "idle"
  /\ \E n \in Names : (\E p \in PodsOf(n) : ~p.deleting) /\ DeletePod(n)
  /\ queued' = TRUE
  /\ UNCHANGED <<spec, cacheVars, f, pc, todo, status, gens, events>>

PodGone ==
  /\ pc = "idle"
  /\ \E p \in pods : p.deleting /\ pods' = pods \ {p}
  /\ queued' = TRUE
  /\ UNCHANGED <<spec, cacheVars, f, pc, todo, status, gens, events>>

Restart ==
  /\ Bounded
  /\ seen' = spec
  /\ f' = status
  /\ pc' = "idle"
  /\ todo' = {}
  /\ queued' = TRUE
  /\ UNCHANGED <<spec, cm, status, pods, gens>>

-----------------------------------------------------------------------------
Sync == StartSync \/ SyncPolicy \/ SyncTask \/ Persist

Cluster == ConfigMapAppears \/ PodEvent \/ PodDeletedByOthers \/ PodGone

Next == UserRescale \/ Deliver \/ Sync \/ Cluster \/ Restart

\* The worker and the others keep going.  What happens only between syncs here
\* would wait for no sync, hence SF.
Fairness ==
  /\ WF_vars(Sync)
  /\ SF_vars(Deliver)
  /\ SF_vars(ConfigMapAppears)
  /\ SF_vars(PodGone)

Safety == Init /\ [][Next]_vars
FairSpec == Safety /\ Fairness

-----------------------------------------------------------------------------
(* Properties *)

\* "TaskRoles/Tasks in f.Status must fully contain TaskRoles/Tasks in f.Spec", and
\* conversely those that are not DeletionPending: whatever the policy and the Tasks
\* act on is as if the Rescale were already done (SafetyGuarantee1), although the
\* Spec changed again before the last Rescale was through.
ScaleEffective ==
  pc \in {"policy", "tasks"} =>
    /\ DOMAIN seen \subseteq DOMAIN f.tasks
    /\ TotalTasks(seen) \subseteq TasksOf(f.tasks)
    /\ \A n \in TasksOf(f.tasks) \ TotalTasks(seen) :
         TaskAt(f.tasks, n).deletionPending

\* "completedTaskCount must <= totalTaskCount", and if it reaches it each TaskRole
\* has its last completed Task: CompletionTimeOrderedTaskStatus never panics.
CompletedWithinTotal ==
  pc = "policy" /\ CompletedTriggers(seen, f.tasks) =>
    CompletedTasks(f.tasks) = TotalTasks(seen)

\* A ScaleUp is exposed before it has an effect, and a Task leaves the Status only
\* after its Pod is gone: every Pod is that of a Task instance in the ApiServer,
\* also if the controller restarts between any two steps.
PodsAreExposed ==
  \A p \in pods :
    p.name \in TasksOf(status.tasks) /\ TaskAt(status.tasks, p.name).inst = p.inst

\* SafetyGuarantee2: once a user observed a Task as DeletionPending, that instance
\* is never reused; until then the ScaleDown has not impacted it.
ScaleDownCommitted ==
  [][\A n \in TasksOf(status.tasks) \cap TasksOf(status'.tasks) :
       LET t == TaskAt(status.tasks, n)
           u == TaskAt(status'.tasks, n)
       IN  t.inst = u.inst =>
             /\ t.deletionPending => u.deletionPending
             /\ ~t.deletionPending /\ u.deletionPending => u.state = t.state]_vars

\* A Task instance leaves the Status, by deletion or replacement, only after it was
\* exposed as DeletionPending and Completed: its history snapshot is one that
\* users have seen.
RemovedOnceExposed ==
  [][\A n \in TasksOf(status.tasks) :
       \/ /\ n \in TasksOf(status'.tasks)
          /\ TaskAt(status'.tasks, n).inst = TaskAt(status.tasks, n).inst
       \/ /\ TaskAt(status.tasks, n).deletionPending
          /\ TaskAt(status.tasks, n).state = "Completed"]_vars

\* Once the user is done, the TaskRoles and Tasks become and stay exactly those of
\* the Spec he left, none of them DeletionPending, unless the attempt completes.
Matches(s) ==
  /\ DOMAIN status.tasks = DOMAIN s
  /\ TasksOf(status.tasks) = TotalTasks(s)
  /\ \A n \in TotalTasks(s) : ~TaskAt(status.tasks, n).deletionPending

RescaleCompletes == <>[](status.completing \/ Matches(spec))
=============================================================================
