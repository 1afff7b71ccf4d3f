--------------------- MODULE FrameworkConsistencyProofs ---------------------
(***************************************************************************)
(* The ConsistencyGuarantees of FrameworkConsistency for every number of   *)
(* Tasks and every bound, and that no event is lost.                       *)
(*                                                                         *)
(* The argument.  Both Informers deliver the versions of an object in      *)
(* their order and do not miss the last one (InOrder).  A Pod that its     *)
(* owner does not hold is an orphan (Owned).  The FrameworkStatus in       *)
(* memory and the saved one each fit the objects and the caches (Fit); the *)
(* objects only get older between the calls of a sync, which keeps that.   *)
(* Whatever the Status does not know yet has enqueued the key, or will     *)
(* when it reaches the cache (Queued).                                     *)
(***************************************************************************)
EXTENDS FrameworkConsistency, RemoteCallsProofs, TLAPS

-----------------------------------------------------------------------------
(* The inductive invariant *)

\* An object was created for the attempt; it was found in the local cache.
Begun == {"CreationRequested", "Running", "DeletionPending", "Deleting"}
Seen == {"Running", "DeletionPending", "Deleting"}

\* Versions of Pods of the name: those of one uid agree on their owner.
VersionsOf(o) ==
  {p \in Pod : p.uid = o.uid => p.owner = o.owner /\ p.orphan = o.orphan}

PodInOrder(o, c, W) ==
  /\ o \in Pod /\ c \in VersionsOf(o) /\ W \subseteq VersionsOf(o)
  /\ InOrder(o, c, W)

\* A ConfigMap o stays while it has Pods.
Owned(o, P) ==
  \A t \in Tasks :
    Present(P[t]) => P[t].orphan \/ (Present(o) /\ o.uid = P[t].owner)

\* What a TaskStatus u, under the ConfigMap of the uid k, says of the Pod p in the
\* ApiServer and c in the local cache.
FitTask(u, k, p, c) ==
  /\ u.state = "CreationPending" => u.pod = 0
  /\ u.state \in Begun => u.pod = p.uid /\ p.owner = k
  /\ u.state \in Seen => c.uid = p.uid
  /\ u.state = "Deleting" => p.phase # "alive"
  /\ u.state \in Over /\ Present(p) => p.orphan

\* What a FrameworkStatus v says of the ConfigMap o in the ApiServer and c in the
\* local cache, and of the Pods P and C.
Fit(v, o, c, P, C) ==
  /\ v.state = "CreationPending" =>
       /\ v.cm = 0
       /\ \A t \in Tasks : v.tasks[t].state = "CreationPending"
                         /\ (Present(P[t]) => P[t].orphan)
  /\ v.state \in Begun => v.cm = o.uid
  /\ v.state \in Seen => c.uid = o.uid
  /\ v.state = "Deleting" => o.phase # "alive"
  /\ v.state \in Over => ~Present(o)
  /\ \A t \in Tasks : FitTask(v.tasks[t], v.cm, P[t], C[t])

\* Until it comes to a Task, a sync knows of it what is saved.
InSync ==
  /\ next = 0 => f = saved
  /\ next \in Tasks =>
       /\ f.state \in Seen /\ saved.state \in Begun /\ saved.cm = f.cm
       /\ \A t \in Tasks : t >= next => f.tasks[t] = saved.tasks[t]

\* A Task needs no sync, as far as the local cache tells.
Settled(u, c) ==
  /\ u.state \in {"CreationRequested", "Running", "Deleting", "Completed"}
  /\ u.state = "Running" => c.uid = u.pod /\ c.phase = "alive"
  /\ u.state = "Deleting" => c.uid = u.pod /\ Present(c)

\* The key is queued unless the Framework, and each Task that the sync has left
\* behind, needs no sync.
Queued ==
  ~queued =>
    /\ f.state \in {"CreationRequested", "Running", "Deleting", "Completed"}
    /\ f.state = "Running" => cmCached.uid = f.cm /\ cmCached.phase = "alive"
    /\ f.state = "Deleting" => cmCached.uid = f.cm /\ Present(cmCached)
    /\ f.state = "Running" =>
         \A t \in Tasks : next = 0 \/ t < next => Settled(f.tasks[t], podsCached[t])

Inv ==
  /\ TypeOK
  /\ InOrder(cm, cmCached, cmPending)
  /\ \A t \in Tasks : PodInOrder(pods[t], podsCached[t], podsPending[t])
  /\ Owned(cm, pods)
  /\ Fit(f, cm, cmCached, pods, podsCached)
  /\ Fit(saved, cm, cmCached, pods, podsCached)
  /\ InSync
  /\ Queued

-----------------------------------------------------------------------------
(* Types *)

LEMMA ConfigMapClosed == Closed(ConfigMap, "someone")
<1> SUFFICES ASSUME NEW o \in ConfigMap
             PROVE  /\ o.uid \in Nat /\ o.phase \in Phases
                    /\ LET d == [o EXCEPT !.phase = "deleting", !.by = "someone"]
                       IN  d \in ConfigMap /\ d.uid = o.uid /\ d.phase = "deleting"
                    /\ LET g == [o EXCEPT !.phase = "gone"]
                       IN  g \in ConfigMap /\ g.uid = o.uid /\ g.phase = "gone"
  BY DEF Closed
<1> QED
  BY DEF ConfigMap, Phases

LEMMA VersionsClosed ==
  ASSUME NEW o \in Pod
  PROVE  Closed(VersionsOf(o), "someone") /\ o \in VersionsOf(o)
<1>1. o \in VersionsOf(o)
  BY DEF VersionsOf
<1>2. ASSUME NEW p \in VersionsOf(o)
      PROVE  /\ p.uid \in Nat /\ p.phase \in Phases
             /\ LET d == [p EXCEPT !.phase = "deleting", !.by = "someone"]
                IN  d \in VersionsOf(o) /\ d.uid = p.uid /\ d.phase = "deleting"
             /\ LET g == [p EXCEPT !.phase = "gone"]
                IN  g \in VersionsOf(o) /\ g.uid = p.uid /\ g.phase = "gone"
  <2> DEFINE d == [p EXCEPT !.phase = "deleting", !.by = "someone"]
             g == [p EXCEPT !.phase = "gone"]
  <2>1. p \in Pod /\ (p.uid = o.uid => p.owner = o.owner /\ p.orphan = o.orphan)
    BY DEF VersionsOf
  <2>2. /\ d \in Pod /\ d.uid = p.uid /\ d.phase = "deleting"
        /\ d.owner = p.owner /\ d.orphan = p.orphan
    BY <2>1 DEF Pod, Phases
  <2>3. /\ g \in Pod /\ g.uid = p.uid /\ g.phase = "gone"
        /\ g.owner = p.owner /\ g.orphan = p.orphan
    BY <2>1 DEF Pod, Phases
  <2>4. p.uid \in Nat /\ p.phase \in Phases
    BY <2>1 DEF Pod
  <2> HIDE DEF d, g
  <2>5. d \in VersionsOf(o) /\ g \in VersionsOf(o)
    BY <2>1, <2>2, <2>3 DEF VersionsOf
  <2> QED
    BY <2>2, <2>3, <2>4, <2>5 DEF d, g
<1> QED
  BY <1>1, <1>2 DEF Closed

LEMMA WorldTypes ==
  ASSUME Inv
  PROVE  /\ ConfigMapWorld \in WorldsOf(ConfigMap)
         /\ ConfigMapWorld.obj = cm /\ ConfigMapWorld.watch = cmPending
         /\ \A t \in Tasks :
              /\ PodWorld(t) \in WorldsOf(VersionsOf(pods[t]))
              /\ PodWorld(t).obj = pods[t] /\ PodWorld(t).watch = podsPending[t]
<1>1. cm \in ConfigMap /\ cmPending \subseteq ConfigMap
  BY DEF Inv, TypeOK
<1>2. ASSUME NEW t \in Tasks
      PROVE  pods[t] \in VersionsOf(pods[t]) /\ podsPending[t] \subseteq VersionsOf(pods[t])
  BY VersionsClosed DEF Inv, PodInOrder
<1>3. /\ ConfigMapWorld \in WorldsOf(ConfigMap)
      /\ ConfigMapWorld.obj = cm /\ ConfigMapWorld.watch = cmPending
  BY <1>1 DEF ConfigMapWorld, WorldsOf
<1>4. ASSUME NEW t \in Tasks
      PROVE  /\ PodWorld(t) \in WorldsOf(VersionsOf(pods[t]))
             /\ PodWorld(t).obj = pods[t] /\ PodWorld(t).watch = podsPending[t]
  BY <1>2 DEF PodWorld, WorldsOf
<1> QED
  BY <1>3, <1>4

-----------------------------------------------------------------------------
(* The ConfigMap after the calls of a sync, or the cluster's doing *)

\* The ApiServer may come to the world x without a creation.
ConfigMapCalled(x) ==
  /\ x \in WorldsOf(ConfigMap) /\ Onwards(ConfigMapWorld, x)
  /\ Present(cm) /\ ~Present(x.obj) => Dependents(cm.uid) = {}

\* In the world x everything but the Status and the queue is as it should be, and
\* the present Status fits it.
ConfigMapReached(x) ==
  /\ x \in WorldsOf(ConfigMap)
  /\ InOrder(x.obj, cmCached, x.watch)
  /\ Owned(x.obj, pods)
  /\ Fit(f, x.obj, cmCached, pods, podsCached)
  /\ Fit(saved, x.obj, cmCached, pods, podsCached)

LEMMA ConfigMapDeleted ==
  ASSUME Inv, NEW w, ConfigMapCalled(w), NEW u, NEW r \in DeleteConfigMapResults(w, u)
  PROVE  /\ r.ok \in BOOLEAN /\ ConfigMapCalled(r.w)
         /\ r.ok /\ r.w.obj.uid = u => r.w.obj.phase # "alive"
         /\ Confirmed(r, u) => ~Present(r.w.obj)
<1>1. r \in DeleteResults(w, u, "someone")
      /\ (Present(w.obj) /\ ~Present(r.w.obj) => Dependents(w.obj.uid) = {})
  BY DEF DeleteConfigMapResults
<1>2. /\ r.ok \in BOOLEAN
      /\ r.w \in WorldsOf(ConfigMap) /\ Onwards(w, r.w)
      /\ r.ok /\ r.w.obj.uid = u => r.w.obj.phase # "alive"
      /\ Confirmed(r, u) => ~Present(r.w.obj)
  BY <1>1, ConfigMapClosed, DeleteOnwards DEF ConfigMapCalled
<1>3. Onwards(ConfigMapWorld, r.w)
  BY <1>2, ConfigMapClosed, WorldTypes, OnwardsTransitive DEF ConfigMapCalled
<1>4. w.obj.uid = cm.uid
  BY WorldTypes DEF ConfigMapCalled, Onwards
<1>5. Present(cm) /\ ~Present(r.w.obj) => Dependents(cm.uid) = {}
  BY <1>1, <1>4 DEF ConfigMapCalled
<1> QED
  BY <1>2, <1>3, <1>5 DEF ConfigMapCalled

\* An older ConfigMap takes nothing back.
LEMMA CalledReached ==
  ASSUME Inv, NEW x, ConfigMapCalled(x)
  PROVE  /\ ConfigMapReached(x)
         /\ x.obj.uid = cm.uid
         /\ cm.phase # "alive" => x.obj.phase # "alive"
         /\ ~Present(cm) => ~Present(x.obj)
<1>1. /\ ConfigMapWorld \in WorldsOf(ConfigMap) /\ ConfigMapWorld.obj = cm
      /\ ConfigMapWorld.watch = cmPending
  BY WorldTypes
<1>2. /\ cm \in ConfigMap /\ cmCached \in ConfigMap /\ x.obj \in ConfigMap
  BY DEF Inv, TypeOK, ConfigMapCalled, WorldsOf
<1>3. x.obj.uid = cm.uid /\ PhaseAge(cm) <= PhaseAge(x.obj)
  BY <1>1 DEF ConfigMapCalled, Onwards
<1>4. /\ cm.phase # "alive" => x.obj.phase # "alive"
      /\ ~Present(cm) => ~Present(x.obj)
  BY <1>2, <1>3, PhaseAgeOrder DEF ConfigMap, Present
<1>5. InOrder(x.obj, cmCached, x.watch)
  BY <1>1, <1>2, ConfigMapClosed, InOrderOnwards DEF ConfigMapCalled, Inv
<1>6. Owned(x.obj, pods)
  BY <1>3 DEF Inv, Owned, ConfigMapCalled, Dependents
<1>7. Fit(f, x.obj, cmCached, pods, podsCached) /\ Fit(saved, x.obj, cmCached, pods, podsCached)
  BY <1>3, <1>4 DEF Inv, Fit
<1> QED
  BY <1>3, <1>4, <1>5, <1>6, <1>7 DEF ConfigMapReached, ConfigMapCalled

LEMMA NoConfigMapCall ==
  ASSUME Inv
  PROVE  /\ ConfigMapCalled(ConfigMapWorld)
         /\ UNCHANGED <<cmVars, podVars>> => EnterConfigMap(ConfigMapWorld)
<1>1. /\ ConfigMapWorld \in WorldsOf(ConfigMap) /\ ConfigMapWorld.obj = cm
      /\ ConfigMapWorld.watch = cmPending
  BY WorldTypes
<1> QED
  BY <1>1, ConfigMapClosed, StayOnwards DEF ConfigMapCalled, EnterConfigMap, cmVars, podVars

\* A ConfigMap is created where there is none.
LEMMA CreatedReached ==
  ASSUME Inv, f.state = "CreationPending", saved = f, NEW w, ConfigMapCalled(w),
         NEW r \in CreateConfigMapResults(w)
  PROVE  /\ r.ok \in BOOLEAN /\ ConfigMapReached(r.w)
         /\ r.ok => r.w.obj.uid # 0 /\ ~Present(w.obj)
<1> DEFINE n == [uid |-> w.obj.uid + 1, phase |-> "alive", by |-> "nobody"]
<1>1. /\ r.ok \in BOOLEAN
      /\ r.w = w \/ (~Present(w.obj) /\ r.w = Store(w, n))
      /\ r.ok => ~Present(w.obj) /\ r.w = Store(w, n)
  BY CreateEnds DEF CreateConfigMapResults
<1>2. ConfigMapReached(w)
  BY CalledReached
<1>3. w \in WorldsOf(ConfigMap) /\ w.obj \in ConfigMap /\ w.watch \subseteq ConfigMap
      /\ cmCached \in ConfigMap
  BY DEF ConfigMapCalled, WorldsOf, Inv, TypeOK
<1>4. n \in ConfigMap /\ n.uid = w.obj.uid + 1 /\ n.phase = "alive"
  BY <1>3 DEF ConfigMap, Phases
<1> HIDE DEF n
<1>5. ASSUME ~Present(w.obj)
      PROVE  ConfigMapReached(Store(w, n)) /\ Store(w, n).obj.uid # 0
  <2>1. /\ Store(w, n) \in WorldsOf(ConfigMap) /\ Store(w, n).obj = n
        /\ Store(w, n).watch = w.watch \cup {n}
    BY <1>3, <1>4 DEF Store, WorldsOf
  <2>2. \A p \in w.watch \cup {w.obj, cmCached} : p.uid \in Nat /\ p.phase \in Phases
    BY <1>3 DEF ConfigMap
  <2>3. InOrder(n, cmCached, w.watch \cup {n})
    BY <1>2, <1>4, <2>2, InOrderCreated DEF ConfigMapReached
  <2>4. Owned(n, pods)
    BY <1>2, <1>5 DEF ConfigMapReached, Owned
  <2>5. Fit(f, n, cmCached, pods, podsCached)
    BY <1>2 DEF ConfigMapReached, Fit, Begun, Seen, Over
  <2>6. n.uid # 0
    BY <1>4, <2>2
  <2> QED
    BY <2>1, <2>3, <2>4, <2>5, <2>6 DEF ConfigMapReached
<1> QED
  BY <1>1, <1>2, <1>5

-----------------------------------------------------------------------------
(* How the part of a sync before the Tasks ends *)

LEMMA FinishKeeps ==
  ASSUME Inv, next = 0, NEW x, ConfigMapReached(x), EnterConfigMap(x),
         NEW v \in Status, Fit(v, x.obj, cmCached, pods, podsCached),
         NEW again \in BOOLEAN, Finish(v, again),
         again \/ v.state \in {"CreationRequested", "Completed"}
  PROVE  Inv'
<1>1. /\ cm' = x.obj /\ cmPending' = x.watch /\ cmCached' = cmCached
      /\ pods' = pods /\ podsCached' = podsCached /\ podsPending' = podsPending
      /\ f' = v /\ next' = TaskNumber + 1 /\ queued' = again
      /\ saved' = saved /\ crashes' = crashes
  BY DEF EnterConfigMap, podVars, Finish
<1>2. TaskNumber + 1 \in 0 .. TaskNumber + 1 /\ TaskNumber + 1 # 0
      /\ TaskNumber + 1 \notin Tasks
  BY ConsistencyAssumption DEF Tasks
<1>3. x.obj \in ConfigMap /\ x.watch \subseteq ConfigMap
  BY DEF ConfigMapReached, WorldsOf
<1>4. TypeOK'
  BY <1>1, <1>2, <1>3 DEF Inv, TypeOK
<1>5. InSync'
  BY <1>1, <1>2 DEF InSync
<1>6. Queued'
  BY <1>1 DEF Queued
<1> QED
  BY <1>1, <1>4, <1>5, <1>6 DEF Inv, ConfigMapReached

\* The call failed, or nothing is to be done.
LEMMA FailKeeps ==
  ASSUME Inv, next = 0, NEW x, ConfigMapReached(x), Fail(x)
  PROVE  Inv'
<1>1. f \in Status /\ Fit(f, x.obj, cmCached, pods, podsCached)
  BY DEF Inv, TypeOK, ConfigMapReached
<1>2. Finish(f, TRUE) /\ EnterConfigMap(x)
  BY DEF Fail
<1> QED
  BY <1>1, <1>2, FinishKeeps

\* The attempt completes by force when there is no ConfigMap: then the Pods that
\* are left are orphans.
LEMMA CompleteByForceKeeps ==
  ASSUME Inv, next = 0, NEW x, ConfigMapReached(x), EnterConfigMap(x),
         ~Present(x.obj), CompleteByForce
  PROVE  Inv'
<1> DEFINE tasks == [t \in Tasks |-> [f.tasks[t] EXCEPT !.state = "Completed"]]
           v == [f EXCEPT !.state = "AttemptCompleted", !.tasks = tasks]
<1>1. f \in Status /\ \A t \in Tasks : f.tasks[t] \in TaskStatus
  BY DEF Inv, TypeOK, Status
<1>2. \A t \in Tasks : /\ [f.tasks[t] EXCEPT !.state = "Completed"] \in TaskStatus
                       /\ [f.tasks[t] EXCEPT !.state = "Completed"].state = "Completed"
  BY <1>1 DEF TaskStatus, States
<1>3. /\ tasks \in [Tasks -> TaskStatus]
      /\ \A t \in Tasks : tasks[t].state = "Completed"
  BY <1>2
<1> HIDE DEF tasks
<1>4. v \in Status /\ v.state = "AttemptCompleted" /\ v.tasks = tasks
  BY <1>1, <1>3 DEF Status, States
<1>5. Finish(v, TRUE)
  BY DEF CompleteByForce, tasks
<1> HIDE DEF v
<1>6. \A t \in Tasks : Present(pods[t]) => pods[t].orphan
  BY DEF ConfigMapReached, Owned
<1>7. Fit(v, x.obj, cmCached, pods, podsCached)
  BY <1>3, <1>4, <1>6 DEF Fit, FitTask, Begun, Seen, Over
<1> QED
  BY <1>4, <1>5, <1>7, FinishKeeps

\* A sync that goes on with the Tasks has found the ConfigMap in the local cache.
LEMMA SyncTasksKeeps ==
  ASSUME Inv, next = 0, f.state \in Begun, NEW x, ConfigMapReached(x), EnterConfigMap(x),
         NEW v \in Status, v.cm = f.cm, v.tasks = f.tasks,
         cmCached.uid = x.obj.uid,
         \/ v.state = "Running" /\ cmCached.phase = "alive"
         \/ v.state = "Deleting" /\ Present(cmCached) /\ x.obj.phase # "alive",
         SyncTasks(v)
  PROVE  Inv'
<1>1. /\ cm' = x.obj /\ cmPending' = x.watch /\ cmCached' = cmCached
      /\ pods' = pods /\ podsCached' = podsCached /\ podsPending' = podsPending
      /\ next' = 1 /\ saved' = saved /\ crashes' = crashes
  BY DEF EnterConfigMap, podVars, SyncTasks
<1> DEFINE d == [v EXCEPT !.state = "DeletionPending"]
<1>2. \/ f' = v /\ queued' = FALSE
      \/ f' = d /\ queued' = TRUE
  BY DEF SyncTasks
<1>3. d \in Status /\ d.state = "DeletionPending" /\ d.cm = v.cm /\ d.tasks = v.tasks
  BY DEF Status, States
<1> HIDE DEF d
<1>4. 1 \in Tasks /\ 1 \in 0 .. TaskNumber + 1 /\ \A t \in Tasks : ~(t < 1)
  BY ConsistencyAssumption DEF Tasks
<1>5. x.obj \in ConfigMap /\ x.watch \subseteq ConfigMap
  BY DEF ConfigMapReached, WorldsOf
<1>6. TypeOK'
  BY <1>1, <1>2, <1>3, <1>4, <1>5 DEF Inv, TypeOK
<1>7. f.cm = x.obj.uid /\ \A t \in Tasks : FitTask(f.tasks[t], f.cm, pods[t], podsCached[t])
  BY DEF ConfigMapReached, Fit
<1>8. Fit(v, x.obj, cmCached, pods, podsCached) /\ Fit(d, x.obj, cmCached, pods, podsCached)
  BY <1>3, <1>7 DEF Fit, Begun, Seen, Over
<1>9. Fit(f', x.obj, cmCached, pods, podsCached)
  BY <1>2, <1>8
<1>10. f = saved
  BY DEF Inv, InSync
<1>11. InSync'
  <2>1. f'.state \in Seen /\ f'.cm = f.cm /\ f'.tasks = f.tasks
    BY <1>2, <1>3 DEF Seen
  <2> QED
    BY <1>1, <1>4, <1>10, <2>1 DEF InSync
<1>12. Queued'
  BY <1>1, <1>2, <1>4, <1>7 DEF Queued
<1> QED
  BY <1>1, <1>6, <1>9, <1>11, <1>12 DEF Inv, ConfigMapReached

-----------------------------------------------------------------------------
(* A sync up to the Tasks *)

LEMMA NewAttemptFits ==
  ASSUME Inv, NEW x, ConfigMapReached(x), ~Present(x.obj), NEW n \in 0 .. MaxAttempt
  PROVE  /\ NewAttempt(n) \in Status
         /\ Fit(NewAttempt(n), x.obj, cmCached, pods, podsCached)
<1> DEFINE u == NewTaskAttempt(0)
<1>1. u \in TaskStatus /\ u.state = "CreationPending" /\ u.pod = 0
  BY ConsistencyAssumption DEF NewTaskAttempt, TaskStatus, States
<1> HIDE DEF u
<1>2. /\ NewAttempt(n) \in Status
      /\ NewAttempt(n).state = "CreationPending" /\ NewAttempt(n).cm = 0
      /\ \A t \in Tasks : NewAttempt(n).tasks[t] = u
  BY <1>1 DEF NewAttempt, Status, States, u
<1>3. \A t \in Tasks : Present(pods[t]) => pods[t].orphan
  BY DEF ConfigMapReached, Owned
<1> QED
  BY <1>1, <1>2, <1>3 DEF Fit, FitTask, Begun, Seen, Over

LEMMA AttemptCompletedKeeps ==
  ASSUME Inv, next = 0, SyncAttemptCompleted
  PROVE  Inv'
<1>1. ConfigMapReached(ConfigMapWorld) /\ EnterConfigMap(ConfigMapWorld)
      /\ ConfigMapWorld.obj = cm
  BY NoConfigMapCall, CalledReached, WorldTypes DEF SyncAttemptCompleted
<1>2. f \in Status /\ ~Present(cm)
  BY DEF Inv, TypeOK, Fit, SyncAttemptCompleted, Over
<1>3. CASE f.attempt < MaxAttempt /\ Finish(NewAttempt(f.attempt + 1), TRUE)
  <2>1. f.attempt + 1 \in 0 .. MaxAttempt
    BY <1>2, <1>3, ConsistencyAssumption DEF Status
  <2> QED
    BY <1>1, <1>2, <1>3, <2>1, NewAttemptFits, FinishKeeps
<1>4. CASE Finish([f EXCEPT !.state = "Completed"], FALSE)
  <2> DEFINE v == [f EXCEPT !.state = "Completed"]
  <2>1. v \in Status /\ v.state = "Completed" /\ v.cm = f.cm /\ v.tasks = f.tasks
    BY <1>2 DEF Status, States
  <2>2. Finish(v, FALSE)
    BY <1>4
  <2> HIDE DEF v
  <2>3. Fit(v, cm, cmCached, pods, podsCached)
    BY <1>2, <2>1 DEF Inv, Fit, Begun, Seen, Over
  <2> QED
    BY <1>1, <2>1, <2>2, <2>3, FinishKeeps
<1> QED
  BY <1>3, <1>4 DEF SyncAttemptCompleted

LEMMA CompletedKeeps ==
  ASSUME Inv, next = 0, SyncCompleted
  PROVE  Inv'
<1>1. ConfigMapReached(ConfigMapWorld) /\ EnterConfigMap(ConfigMapWorld)
      /\ ConfigMapWorld.obj = cm
  BY NoConfigMapCall, CalledReached, WorldTypes DEF SyncCompleted
<1> QED
  BY <1>1, FinishKeeps DEF SyncCompleted, Inv, TypeOK

LEMMA CreationRequestedKeeps ==
  ASSUME Inv, next = 0, NEW w, ConfigMapCalled(w), SyncCreationRequested(w)
  PROVE  Inv'
<1>1. ConfigMapReached(w) /\ f \in Status /\ f.state = "CreationRequested"
  BY CalledReached DEF Inv, TypeOK, SyncCreationRequested
<1>2. CASE EnterConfigMap(w) /\ Finish(f, FALSE)
  BY <1>1, <1>2, FinishKeeps DEF ConfigMapReached
<1>3. ASSUME NEW r \in DeleteConfigMapResults(w, f.cm),
             \/ Confirmed(r, f.cm) /\ EnterConfigMap(r.w) /\ CompleteByForce
             \/ ~Confirmed(r, f.cm) /\ Fail(r.w)
      PROVE  Inv'
  <2>1. ConfigMapReached(r.w) /\ (Confirmed(r, f.cm) => ~Present(r.w.obj))
    BY ConfigMapDeleted, CalledReached
  <2> QED
    BY <1>3, <2>1, CompleteByForceKeeps, FailKeeps
<1> QED
  BY <1>2, <1>3 DEF SyncCreationRequested

LEMMA CreationPendingKeeps ==
  ASSUME Inv, next = 0, NEW w, ConfigMapCalled(w), SyncCreationPending(w)
  PROVE  Inv'
<1>1. f.state = "CreationPending" /\ saved = f /\ f \in Status
  BY DEF SyncCreationPending, Inv, InSync, TypeOK
<1>2. PICK r \in CreateConfigMapResults(w) :
        \/ /\ r.ok /\ EnterConfigMap(r.w)
           /\ Finish([f EXCEPT !.state = "CreationRequested", !.cm = r.w.obj.uid], FALSE)
        \/ ~r.ok /\ Fail(r.w)
  BY DEF SyncCreationPending
<1>3. ConfigMapReached(r.w)
  BY <1>1, CreatedReached
<1>4. CASE ~r.ok /\ Fail(r.w)
  BY <1>3, <1>4, FailKeeps
<1>5. CASE /\ r.ok /\ EnterConfigMap(r.w)
           /\ Finish([f EXCEPT !.state = "CreationRequested", !.cm = r.w.obj.uid], FALSE)
  <2> DEFINE v == [f EXCEPT !.state = "CreationRequested", !.cm = r.w.obj.uid]
  <2>1. r.w.obj.uid \in Nat
    BY <1>3 DEF ConfigMapReached, WorldsOf, ConfigMap
  <2>2. /\ v \in Status /\ v.state = "CreationRequested" /\ v.cm = r.w.obj.uid
        /\ v.tasks = f.tasks
    BY <1>1, <2>1 DEF Status, States
  <2>3. Finish(v, FALSE)
    BY <1>5
  <2> HIDE DEF v
  <2>4. Fit(v, r.w.obj, cmCached, pods, podsCached)
    BY <1>1, <1>3, <2>2 DEF ConfigMapReached, Fit, FitTask, Begun, Seen, Over
  <2> QED
    BY <1>3, <1>5, <2>2, <2>3, <2>4, FinishKeeps
<1> QED
  BY <1>2, <1>4, <1>5

\* A ConfigMap that was in the local cache, and is no more, is gone for good.
LEMMA ConfigMapGoneKeeps ==
  ASSUME Inv, next = 0, HasConfigMap, ManagedConfigMapPhase = "gone",
         NEW w, ConfigMapCalled(w), SyncConfigMapGone(w)
  PROVE  Inv'
<1>1. f.state \in Seen
  BY DEF HasConfigMap, SyncConfigMapGone, Seen, Inv, TypeOK, Status, States
<1>2. cmCached.uid = cm.uid /\ f.cm = cm.uid
  BY <1>1 DEF Inv, Fit, Begun, Seen
<1>3. ~Present(cmCached)
  BY <1>2 DEF ManagedConfigMapPhase, Present
<1>4. ~Present(cm)
  BY <1>2, <1>3, ConfigMapClosed, InOrderFacts DEF Inv, TypeOK
<1>5. ConfigMapReached(w) /\ ~Present(w.obj)
  BY <1>4, CalledReached
<1> QED
  BY <1>5, CompleteByForceKeeps DEF SyncConfigMapGone

LEMMA ConfigMapNilKeeps ==
  ASSUME Inv, next = 0, SyncConfigMapNil(ConfigMapWorld)
  PROVE  Inv'
<1>1. HasConfigMap /\ ManagedConfigMapPhase = "gone"
  BY DEF SyncConfigMapNil
<1>2. PICK r \in ConfigMapCleanups(ConfigMapWorld) :
        \/ ~r.ok /\ Fail(r.w)
        \/ /\ r.ok
           /\ \/ SyncCreationRequested(r.w)
              \/ SyncCreationPending(r.w)
              \/ SyncConfigMapGone(r.w)
  BY DEF SyncConfigMapNil
<1>3. ConfigMapCalled(r.w)
  <2>1. CASE Present(cmCached) /\ cmCached.uid # f.cm
    <3>1. r \in DeleteConfigMapResults(ConfigMapWorld, cmCached.uid)
      BY <2>1 DEF ConfigMapCleanups
    <3> QED
      BY <3>1, NoConfigMapCall, ConfigMapDeleted
  <2>2. CASE ~(Present(cmCached) /\ cmCached.uid # f.cm)
    <3>1. r.w = ConfigMapWorld
      BY <2>2 DEF ConfigMapCleanups
    <3> QED
      BY <3>1, NoConfigMapCall
  <2> QED
    BY <2>1, <2>2
<1>4. CASE Fail(r.w)
  BY <1>3, <1>4, CalledReached, FailKeeps
<1>5. CASE SyncCreationRequested(r.w)
  BY <1>3, <1>5, CreationRequestedKeeps
<1>6. CASE SyncCreationPending(r.w)
  BY <1>3, <1>6, CreationPendingKeeps
<1>7. CASE SyncConfigMapGone(r.w)
  BY <1>1, <1>3, <1>7, ConfigMapGoneKeeps
<1> QED
  BY <1>2, <1>4, <1>5, <1>6, <1>7

\* The ConfigMap that a sync finds in the local cache is the one of the name.
LEMMA ManagedConfigMap ==
  ASSUME Inv, HasConfigMap, ManagedConfigMapPhase # "gone"
  PROVE  /\ f.state \in Begun /\ f \in Status
         /\ f.cm = cm.uid /\ cmCached.uid = cm.uid
         /\ ManagedConfigMapPhase = cmCached.phase /\ Present(cmCached)
         /\ cmCached.phase # "alive" => cm.phase # "alive"
<1>1. f \in Status /\ cm \in ConfigMap /\ cmCached \in ConfigMap
  BY DEF Inv, TypeOK
<1>2. /\ cmCached.uid = f.cm
      /\ ManagedConfigMapPhase = cmCached.phase /\ Present(cmCached)
  BY DEF ManagedConfigMapPhase, Present
<1>3. f.state \in Begun
  <2>1. f.state # "CreationPending"
    BY <1>2 DEF Inv, Fit, InOrder
  <2> QED
    BY <1>1, <2>1 DEF HasConfigMap, Begun, Status, States
<1>4. f.cm = cm.uid
  BY <1>3 DEF Inv, Fit
<1>5. cmCached.phase # "alive" => cm.phase # "alive"
  BY <1>1, <1>2, <1>4, ConfigMapClosed, InOrderFacts DEF Inv, TypeOK
<1> QED
  BY <1>1, <1>2, <1>3, <1>4, <1>5

LEMMA InState ==
  ASSUME NEW v \in Status, NEW s \in States
  PROVE  LET w == [v EXCEPT !.state = s]
         IN  w \in Status /\ w.state = s /\ w.cm = v.cm /\ w.tasks = v.tasks
BY DEF Status

LEMMA ConfigMapAliveKeeps ==
  ASSUME Inv, next = 0, SyncConfigMapAlive(ConfigMapWorld)
  PROVE  Inv'
<1>1. /\ HasConfigMap /\ ManagedConfigMapPhase = "alive"
      /\ f.state \in Begun /\ f \in Status
      /\ f.cm = cm.uid /\ cmCached.uid = cm.uid
      /\ cmCached.phase = "alive" /\ Present(cmCached)
  BY ManagedConfigMap DEF SyncConfigMapAlive
<1> DEFINE d == [f EXCEPT !.state = "Deleting"]
           a == [f EXCEPT !.state = "Running"]
<1>2. d \in Status /\ d.state = "Deleting" /\ d.cm = f.cm /\ d.tasks = f.tasks
  BY <1>1, InState DEF States
<1>3. a \in Status /\ a.state = "Running" /\ a.cm = f.cm /\ a.tasks = f.tasks
  BY <1>1, InState DEF States
<1>4. CASE f.state = "DeletionPending"
  <2>1. PICK r \in DeleteConfigMapResults(ConfigMapWorld, f.cm) :
          \/ ~r.ok /\ Fail(r.w)
          \/ r.ok /\ EnterConfigMap(r.w) /\ SyncTasks(d)
    BY <1>4 DEF SyncConfigMapAlive
  <2> HIDE DEF d, a
  <2>2. /\ ConfigMapReached(r.w) /\ r.w.obj.uid = cm.uid
        /\ r.ok => r.w.obj.phase # "alive"
    BY <1>1, NoConfigMapCall, ConfigMapDeleted, CalledReached
  <2>3. CASE Fail(r.w)
    BY <2>2, <2>3, FailKeeps
  <2>4. CASE r.ok /\ EnterConfigMap(r.w) /\ SyncTasks(d)
    BY <1>1, <1>2, <2>2, <2>4, SyncTasksKeeps
  <2> QED
    BY <2>1, <2>3, <2>4
<1>5. CASE f.state # "DeletionPending"
  <2>1. /\ SyncTasks(IF f.state = "Deleting" THEN f ELSE a)
        /\ EnterConfigMap(ConfigMapWorld)
    BY <1>5 DEF SyncConfigMapAlive
  <2> HIDE DEF d, a
  <2>2. ConfigMapReached(ConfigMapWorld) /\ ConfigMapWorld.obj = cm
    BY NoConfigMapCall, CalledReached, WorldTypes
  <2>3. CASE f.state = "Deleting"
    <3>1. SyncTasks(f) /\ cm.phase # "alive"
      BY <2>1, <2>3 DEF Inv, Fit
    <3> QED
      BY <1>1, <2>1, <2>2, <2>3, <3>1, SyncTasksKeeps
  <2>4. CASE f.state # "Deleting"
    <3>1. SyncTasks(a)
      BY <2>1, <2>4
    <3> QED
      BY <1>1, <1>3, <2>1, <2>2, <3>1, SyncTasksKeeps
  <2> QED
    BY <2>3, <2>4
<1> QED
  BY <1>4, <1>5

LEMMA ConfigMapDeletingKeeps ==
  ASSUME Inv, next = 0, SyncConfigMapDeleting
  PROVE  Inv'
<1>1. /\ f.state \in Begun /\ f \in Status
      /\ f.cm = cm.uid /\ cmCached.uid = cm.uid
      /\ cm.phase # "alive" /\ Present(cmCached)
  BY ManagedConfigMap DEF SyncConfigMapDeleting
<1>2. /\ ConfigMapReached(ConfigMapWorld) /\ ConfigMapWorld.obj = cm
      /\ EnterConfigMap(ConfigMapWorld)
  BY NoConfigMapCall, CalledReached, WorldTypes DEF SyncConfigMapDeleting
<1> DEFINE d == [f EXCEPT !.state = "Deleting"]
<1>3. d \in Status /\ d.state = "Deleting" /\ d.cm = f.cm /\ d.tasks = f.tasks
  BY <1>1, InState DEF States
<1>4. SyncTasks(d)
  BY DEF SyncConfigMapDeleting
<1> HIDE DEF d
<1> QED
  BY <1>1, <1>2, <1>3, <1>4, SyncTasksKeeps

LEMMA StartSyncKeeps ==
  ASSUME Inv, StartSync
  PROVE  Inv'
BY AttemptCompletedKeeps, CompletedKeeps, ConfigMapNilKeeps, ConfigMapAliveKeeps,
   ConfigMapDeletingKeeps
   DEF StartSync

LEMMA EndSyncKeeps ==
  ASSUME Inv, EndSync
  PROVE  Inv'
<1>1. /\ next = TaskNumber + 1 /\ saved' = f /\ next' = 0
      /\ f' = f /\ queued' = queued /\ crashes' = crashes
      /\ cm' = cm /\ cmCached' = cmCached /\ cmPending' = cmPending
      /\ pods' = pods /\ podsCached' = podsCached /\ podsPending' = podsPending
  BY DEF EndSync, cmVars, podVars
<1>2. 0 \in 0 .. TaskNumber + 1 /\ 0 \notin Tasks /\ \A t \in Tasks : t < TaskNumber + 1
  BY ConsistencyAssumption DEF Tasks
<1>3. TypeOK'
  BY <1>1, <1>2 DEF Inv, TypeOK
<1>4. InSync'
  BY <1>1, <1>2 DEF InSync
<1>5. Queued'
  BY <1>1, <1>2 DEF Inv, Queued
<1> QED
  BY <1>1, <1>3, <1>4, <1>5 DEF Inv

-----------------------------------------------------------------------------
(* The Pod of a Task after the calls of its sync, or the cluster's doing *)

\* The ApiServer may come to the world x without a creation.
PodCalled(t, x) ==
  x \in WorldsOf(VersionsOf(pods[t])) /\ Onwards(PodWorld(t), x)

\* As ConfigMapReached
PodReached(t, x) ==
  /\ PodInOrder(x.obj, podsCached[t], x.watch)
  /\ Owned(cm, [pods EXCEPT ![t] = x.obj])
  /\ Fit(f, cm, cmCached, [pods EXCEPT ![t] = x.obj], podsCached)
  /\ Fit(saved, cm, cmCached, [pods EXCEPT ![t] = x.obj], podsCached)

LEMMA PodTypes ==
  ASSUME Inv, NEW t \in Tasks
  PROVE  /\ pods[t] \in Pod /\ podsCached[t] \in Pod
         /\ Closed(VersionsOf(pods[t]), "someone")
         /\ pods[t] \in VersionsOf(pods[t]) /\ podsCached[t] \in VersionsOf(pods[t])
         /\ podsPending[t] \in SUBSET VersionsOf(pods[t])
         /\ InOrder(pods[t], podsCached[t], podsPending[t])
<1>1. pods[t] \in Pod /\ podsCached[t] \in Pod
  BY DEF Inv, TypeOK
<1> QED
  BY <1>1, VersionsClosed DEF Inv, PodInOrder

LEMMA PodDeleted ==
  ASSUME Inv, NEW t \in Tasks, NEW w, PodCalled(t, w), NEW u,
         NEW r \in DeleteResults(w, u, "someone")
  PROVE  /\ r.ok \in BOOLEAN /\ PodCalled(t, r.w)
         /\ r.ok /\ r.w.obj.uid = u => r.w.obj.phase # "alive"
         /\ Confirmed(r, u) => ~Present(r.w.obj)
<1>1. w \in WorldsOf(VersionsOf(pods[t])) /\ Onwards(PodWorld(t), w)
      /\ PodWorld(t) \in WorldsOf(VersionsOf(pods[t]))
  BY WorldTypes DEF PodCalled
<1>2. Closed(VersionsOf(pods[t]), "someone")
  BY PodTypes
<1>3. /\ r.ok \in BOOLEAN
      /\ r.w \in WorldsOf(VersionsOf(pods[t])) /\ Onwards(w, r.w)
      /\ r.ok /\ r.w.obj.uid = u => r.w.obj.phase # "alive"
      /\ Confirmed(r, u) => ~Present(r.w.obj)
  BY <1>1, <1>2, DeleteOnwards
<1>4. Onwards(PodWorld(t), r.w)
  BY <1>1, <1>2, <1>3, OnwardsTransitive
<1> QED
  BY <1>3, <1>4 DEF PodCalled

LEMMA PodCalledReached ==
  ASSUME Inv, NEW t \in Tasks, NEW x, PodCalled(t, x)
  PROVE  /\ PodReached(t, x)
         /\ x.obj.uid = pods[t].uid
         /\ pods[t].phase # "alive" => x.obj.phase # "alive"
         /\ ~Present(pods[t]) => ~Present(x.obj)
<1>1. /\ PodWorld(t) \in WorldsOf(VersionsOf(pods[t])) /\ PodWorld(t).obj = pods[t]
      /\ PodWorld(t).watch = podsPending[t]
  BY WorldTypes
<1>2. /\ pods[t] \in Pod /\ podsCached[t] \in VersionsOf(pods[t])
      /\ InOrder(pods[t], podsCached[t], podsPending[t])
      /\ Closed(VersionsOf(pods[t]), "someone")
  BY PodTypes
<1>3. /\ x \in WorldsOf(VersionsOf(pods[t]))
      /\ x.obj.uid = pods[t].uid /\ PhaseAge(pods[t]) <= PhaseAge(x.obj)
  BY <1>1 DEF PodCalled, Onwards
<1>4. /\ x.obj \in Pod /\ x.obj.owner = pods[t].owner /\ x.obj.orphan = pods[t].orphan
      /\ x.watch \subseteq VersionsOf(pods[t])
  BY <1>3 DEF WorldsOf, VersionsOf
<1>5. /\ pods[t].phase # "alive" => x.obj.phase # "alive"
      /\ ~Present(pods[t]) => ~Present(x.obj)
  BY <1>2, <1>3, <1>4, PhaseAgeOrder DEF Pod, Present
<1>6. InOrder(x.obj, podsCached[t], x.watch)
  BY <1>1, <1>2, <1>3, InOrderOnwards DEF PodCalled
<1>7. VersionsOf(x.obj) = VersionsOf(pods[t])
  BY <1>3, <1>4 DEF VersionsOf
<1>8. PodInOrder(x.obj, podsCached[t], x.watch)
  BY <1>2, <1>4, <1>6, <1>7 DEF PodInOrder
<1> DEFINE P == [pods EXCEPT ![t] = x.obj]
<1>9. \A s \in Tasks : P[s] = IF s = t THEN x.obj ELSE pods[s]
  BY DEF Inv, TypeOK
<1> HIDE DEF P
<1>10. Owned(cm, P)
  BY <1>4, <1>5, <1>9 DEF Inv, Owned
<1>11. ASSUME NEW v, Fit(v, cm, cmCached, pods, podsCached)
       PROVE  Fit(v, cm, cmCached, P, podsCached)
  <2>1. \A s \in Tasks : FitTask(v.tasks[s], v.cm, P[s], podsCached[s])
    BY <1>3, <1>4, <1>5, <1>9, <1>11 DEF Fit, FitTask
  <2> QED
    BY <1>4, <1>5, <1>9, <1>11, <2>1 DEF Fit
<1>12. Fit(f, cm, cmCached, P, podsCached) /\ Fit(saved, cm, cmCached, P, podsCached)
  BY <1>11 DEF Inv
<1> QED
  BY <1>3, <1>5, <1>8, <1>10, <1>12 DEF PodReached, P

LEMMA NoPodCall ==
  ASSUME Inv, NEW t \in Tasks
  PROVE  /\ PodCalled(t, PodWorld(t))
         /\ UNCHANGED <<cmVars, podVars>> => EnterPod(t, PodWorld(t))
<1>1. /\ PodWorld(t) \in WorldsOf(VersionsOf(pods[t])) /\ PodWorld(t).obj = pods[t]
      /\ PodWorld(t).watch = podsPending[t]
  BY WorldTypes
<1>2. PodCalled(t, PodWorld(t))
  BY <1>1, PodTypes, StayOnwards DEF PodCalled
<1>3. /\ pods = [pods EXCEPT ![t] = pods[t]]
      /\ podsPending = [podsPending EXCEPT ![t] = podsPending[t]]
  BY DEF Inv, TypeOK
<1> QED
  BY <1>1, <1>2, <1>3 DEF EnterPod, cmVars, podVars

\* The Task of the sync, and the Framework in it
LEMMA TaskInSync ==
  ASSUME Inv, NEW t \in Tasks, next = t
  PROVE  /\ f \in Status /\ f.tasks[t] \in TaskStatus
         /\ f.state \in Seen /\ saved.state \in Begun
         /\ f.cm = cm.uid /\ saved.cm = f.cm /\ saved.tasks[t] = f.tasks[t]
         /\ FitTask(f.tasks[t], f.cm, pods[t], podsCached[t])
<1>1. f \in Status /\ f.tasks[t] \in TaskStatus
  BY DEF Inv, TypeOK, Status
<1>2. f.state \in Seen /\ saved.state \in Begun /\ saved.cm = f.cm
      /\ saved.tasks[t] = f.tasks[t]
  BY DEF Inv, InSync, Tasks
<1>3. f.cm = cm.uid /\ FitTask(f.tasks[t], f.cm, pods[t], podsCached[t])
  BY <1>2 DEF Inv, Fit, Seen, Begun
<1> QED
  BY <1>1, <1>2, <1>3

\* A Pod is created where there is none.
LEMMA PodCreatedReached ==
  ASSUME Inv, NEW t \in Tasks, next = t, f.tasks[t].state = "CreationPending",
         NEW w, PodCalled(t, w), NEW r \in CreatePodResults(w)
  PROVE  /\ r.ok \in BOOLEAN /\ PodReached(t, r.w)
         /\ r.ok => r.w.obj.owner = f.cm /\ r.w.obj.uid \in Nat
<1> DEFINE n == [uid |-> w.obj.uid + 1, phase |-> "alive", owner |-> f.cm,
                 orphan |-> ~(Present(cm) /\ cm.uid = f.cm), by |-> "nobody"]
<1>1. /\ r.ok \in BOOLEAN
      /\ r.w = w \/ (~Present(w.obj) /\ r.w = Store(w, n))
      /\ r.ok => ~Present(w.obj) /\ r.w = Store(w, n)
  BY CreateEnds DEF CreatePodResults
<1>2. PodReached(t, w)
  BY PodCalledReached
<1>3. /\ w.obj \in Pod /\ w.watch \subseteq Pod /\ podsCached[t] \in Pod
      /\ InOrder(w.obj, podsCached[t], w.watch)
  BY <1>2, PodTypes DEF PodReached, PodInOrder, VersionsOf
<1>4. f.state \in Seen /\ saved.state \in Begun /\ f.cm \in Nat
      /\ saved.tasks[t] = f.tasks[t]
  BY TaskInSync DEF Status
<1>5. /\ n \in Pod /\ n.uid = w.obj.uid + 1 /\ n.phase = "alive" /\ n.owner = f.cm
      /\ n.orphan <=> ~(Present(cm) /\ cm.uid = f.cm)
  <2>1. w.obj.uid + 1 \in Nat
    BY <1>3 DEF Pod
  <2> QED
    BY <1>4, <2>1 DEF Pod, Phases
<1> HIDE DEF n
<1>6. Store(w, n).obj = n /\ Store(w, n).watch = w.watch \cup {n}
  BY DEF Store, PodCalled, WorldsOf
<1>7. PodInOrder(n, podsCached[t], w.watch \cup {n})
  <2>1. \A p \in w.watch \cup {w.obj, podsCached[t]} : p.uid \in Nat /\ p.phase \in Phases
    BY <1>3 DEF Pod
  <2>2. InOrder(n, podsCached[t], w.watch \cup {n})
    BY <1>3, <1>5, <2>1, InOrderCreated
  <2>3. \A p \in w.watch \cup {podsCached[t]} : PhaseAge(p) <= PhaseAge(w.obj)
    BY <1>3 DEF InOrder
  <2>4. \A p \in w.watch \cup {podsCached[t]} : p.uid <= w.obj.uid
    BY <2>1, <2>3, PhaseAgeOrder
  <2>5. \A p \in w.watch \cup {podsCached[t]} : p.uid # n.uid
    BY <1>5, <2>1, <2>4
  <2> QED
    BY <1>3, <1>5, <2>2, <2>5 DEF PodInOrder, VersionsOf
<1> DEFINE P == [pods EXCEPT ![t] = n]
<1>8. \A s \in Tasks : P[s] = IF s = t THEN n ELSE pods[s]
  BY DEF Inv, TypeOK
<1> HIDE DEF P
<1>9. Owned(cm, P)
  BY <1>5, <1>8 DEF Inv, Owned
<1>10. ASSUME NEW v, Fit(v, cm, cmCached, pods, podsCached),
              v.state \in Begun, v.tasks[t].state = "CreationPending"
       PROVE  Fit(v, cm, cmCached, P, podsCached)
  <2>1. \A s \in Tasks : FitTask(v.tasks[s], v.cm, P[s], podsCached[s])
    BY <1>8, <1>10 DEF Fit, FitTask, Begun, Seen, Over
  <2> QED
    BY <1>10, <2>1 DEF Fit, Begun
<1>11. Fit(f, cm, cmCached, P, podsCached) /\ Fit(saved, cm, cmCached, P, podsCached)
  BY <1>4, <1>10 DEF Inv, Seen, Begun
<1>12. PodReached(t, Store(w, n))
  BY <1>6, <1>7, <1>9, <1>11 DEF PodReached, P
<1> QED
  BY <1>1, <1>2, <1>5, <1>6, <1>12 DEF Pod

-----------------------------------------------------------------------------
(* How the sync of a Task ends *)

LEMMA LeaveKeeps ==
  ASSUME Inv, NEW t \in Tasks, next = t, NEW x, PodReached(t, x), EnterPod(t, x),
         NEW s \in {f.state, "DeletionPending"},
         NEW u \in TaskStatus, FitTask(u, f.cm, x.obj, podsCached[t]),
         NEW v \in Status, v.state = s, v.cm = f.cm, v.tasks = [f.tasks EXCEPT ![t] = u],
         NEW again \in BOOLEAN, Leave(v, again),
         again \/ (s = f.state /\ (f.state = "Running" => Settled(u, podsCached[t])))
  PROVE  Inv'
<1> DEFINE P == [pods EXCEPT ![t] = x.obj]
<1>1. /\ pods' = P /\ podsPending' = [podsPending EXCEPT ![t] = x.watch]
      /\ podsCached' = podsCached
      /\ cm' = cm /\ cmCached' = cmCached /\ cmPending' = cmPending
      /\ f' = v /\ next' = t + 1 /\ queued' = (queued \/ again)
      /\ saved' = saved /\ crashes' = crashes
  BY DEF EnterPod, cmVars, Leave
<1>2. \A r \in Tasks : /\ P[r] = IF r = t THEN x.obj ELSE pods[r]
                       /\ podsPending'[r] = IF r = t THEN x.watch ELSE podsPending[r]
                       /\ v.tasks[r] = IF r = t THEN u ELSE f.tasks[r]
  BY <1>1 DEF Inv, TypeOK, Status
<1>3. f.state \in Seen /\ saved.state \in Begun /\ saved.cm = f.cm /\ f.cm = cm.uid
  BY TaskInSync
<1>4. x.obj \in Pod /\ x.watch \subseteq Pod /\ PodInOrder(x.obj, podsCached[t], x.watch)
      /\ Owned(cm, P) /\ Fit(saved, cm, cmCached, P, podsCached)
  BY DEF PodReached, PodInOrder, VersionsOf
<1>5. /\ t + 1 \in 0 .. TaskNumber + 1 /\ t + 1 # 0
      /\ \A r \in Tasks : /\ r >= t + 1 => r >= t /\ r # t
                          /\ r < t + 1 => r = t \/ r < t
  BY ConsistencyAssumption DEF Tasks
<1>6. P \in [Tasks -> Pod] /\ podsPending' \in [Tasks -> SUBSET Pod]
  BY <1>1, <1>4 DEF Inv, TypeOK
<1> HIDE DEF P
<1>7. TypeOK'
  BY <1>1, <1>5, <1>6 DEF Inv, TypeOK
<1>8. ASSUME NEW r \in Tasks
      PROVE  PodInOrder(P[r], podsCached[r], podsPending'[r])
  BY <1>2, <1>4 DEF Inv
<1>9. Fit(v, cm, cmCached, P, podsCached)
  <2>1. \A r \in Tasks : FitTask(v.tasks[r], v.cm, P[r], podsCached[r])
    BY <1>2 DEF Inv, Fit
  <2>2. v.state \in {f.state, "DeletionPending"} /\ v.cm = f.cm
    OBVIOUS
  <2>3. cmCached.uid = cm.uid /\ (f.state = "Deleting" => cm.phase # "alive")
    BY <1>3 DEF Inv, Fit
  <2> QED
    BY <1>3, <2>1, <2>2, <2>3 DEF Fit, Begun, Seen, Over
<1>10. InSync'
  <2>1. v.state \in Seen
    BY <1>3 DEF Seen
  <2>2. \A r \in Tasks : r >= t + 1 => v.tasks[r] = saved.tasks[r]
    BY <1>2, <1>5 DEF Inv, InSync
  <2> QED
    BY <1>1, <1>3, <1>5, <2>1, <2>2 DEF InSync
<1>11. Queued'
  <2> SUFFICES ASSUME ~queued, s = f.state,
                      f.state = "Running" => Settled(u, podsCached[t])
               PROVE  Queued'
    BY <1>1 DEF Queued
  <2>1. f.state = "Running" =>
          \A r \in Tasks : r < t + 1 => Settled(v.tasks[r], podsCached[r])
    BY <1>2, <1>5 DEF Inv, Queued
  <2> QED
    BY <1>1, <1>5, <2>1 DEF Inv, Queued
<1> QED
  BY <1>1, <1>4, <1>7, <1>8, <1>9, <1>10, <1>11 DEF Inv

LEMMA GotoKeeps ==
  ASSUME Inv, NEW t \in Tasks, next = t, NEW x, PodReached(t, x), EnterPod(t, x),
         NEW u \in TaskStatus, FitTask(u, f.cm, x.obj, podsCached[t]),
         NEW again \in BOOLEAN, Goto(t, u, again),
         again \/ (f.state = "Running" => Settled(u, podsCached[t]))
  PROVE  Inv'
<1> DEFINE v == [f EXCEPT !.tasks[t] = u]
<1>1. f \in Status
  BY TaskInSync
<1>2. /\ v \in Status /\ v.state = f.state /\ v.cm = f.cm
      /\ v.tasks = [f.tasks EXCEPT ![t] = u]
  BY <1>1 DEF Status
<1>3. Leave(v, again)
  BY DEF Goto
<1> HIDE DEF v
<1> QED
  BY <1>2, <1>3, LeaveKeeps

LEMMA ReachedFits ==
  ASSUME Inv, NEW t \in Tasks, next = t, NEW x, PodReached(t, x)
  PROVE  FitTask(f.tasks[t], f.cm, x.obj, podsCached[t])
<1>1. [pods EXCEPT ![t] = x.obj][t] = x.obj
  BY DEF Inv, TypeOK
<1> QED
  BY <1>1 DEF PodReached, Fit

LEMMA FailTaskKeeps ==
  ASSUME Inv, NEW t \in Tasks, next = t, NEW x, PodReached(t, x), FailTask(t, x)
  PROVE  Inv'
BY ReachedFits, TaskInSync, GotoKeeps DEF FailTask

LEMMA TaskInState ==
  ASSUME NEW u \in TaskStatus, NEW s \in States
  PROVE  LET w == [u EXCEPT !.state = s]
         IN  w \in TaskStatus /\ w.state = s /\ w.pod = u.pod
BY DEF TaskStatus

\* The attempt of a Task completes when no Pod is left but an orphan.
LEMMA CompleteTaskByForceKeeps ==
  ASSUME Inv, NEW t \in Tasks, next = t, NEW x, PodReached(t, x), EnterPod(t, x),
         Present(x.obj) => x.obj.orphan, CompleteTaskByForce(t)
  PROVE  Inv'
<1> DEFINE u == [f.tasks[t] EXCEPT !.state = "AttemptCompleted"]
<1>1. u \in TaskStatus /\ u.state = "AttemptCompleted"
  BY TaskInSync, TaskInState DEF States
<1>2. Goto(t, u, TRUE)
  BY DEF CompleteTaskByForce
<1> HIDE DEF u
<1>3. FitTask(u, f.cm, x.obj, podsCached[t])
  BY <1>1 DEF FitTask, Begun, Seen
<1> QED
  BY <1>1, <1>2, <1>3, GotoKeeps

-----------------------------------------------------------------------------
(* The sync of a Task *)

LEMMA TaskAttemptCompletedKeeps ==
  ASSUME Inv, NEW t \in Tasks, next = t, SyncTaskAttemptCompleted(t)
  PROVE  Inv'
<1>1. PodReached(t, PodWorld(t)) /\ EnterPod(t, PodWorld(t)) /\ PodWorld(t).obj = pods[t]
  BY NoPodCall, PodCalledReached, WorldTypes DEF SyncTaskAttemptCompleted
<1>2. /\ f \in Status /\ f.tasks[t] \in TaskStatus /\ f.tasks[t].state = "AttemptCompleted"
      /\ Present(pods[t]) => pods[t].orphan
  BY TaskInSync DEF SyncTaskAttemptCompleted, FitTask, Over
<1> DEFINE c == [f.tasks[t] EXCEPT !.state = "Completed"]
<1>3. c \in TaskStatus /\ c.state = "Completed"
  BY <1>2, TaskInState DEF States
<1>4. CASE /\ f.tasks[t].attempt < MaxTaskAttempt
           /\ Goto(t, NewTaskAttempt(f.tasks[t].attempt + 1), TRUE)
  <2> DEFINE u == NewTaskAttempt(f.tasks[t].attempt + 1)
  <2>1. f.tasks[t].attempt + 1 \in 0 .. MaxTaskAttempt
    BY <1>2, <1>4, ConsistencyAssumption DEF TaskStatus
  <2>2. u \in TaskStatus /\ u.state = "CreationPending" /\ u.pod = 0
    BY <2>1 DEF NewTaskAttempt, TaskStatus, States
  <2> HIDE DEF u, c
  <2>3. FitTask(u, f.cm, pods[t], podsCached[t])
    BY <2>2 DEF FitTask, Begun, Seen, Over
  <2> QED
    BY <1>1, <1>4, <2>2, <2>3, GotoKeeps DEF u
<1>5. FitTask(c, f.cm, pods[t], podsCached[t]) /\ Settled(c, podsCached[t])
  <2> HIDE DEF c
  <2> QED
    BY <1>2, <1>3 DEF FitTask, Begun, Seen, Settled
<1>6. CASE Goto(t, c, FALSE)
  <2> HIDE DEF c
  <2> QED
    BY <1>1, <1>3, <1>5, <1>6, GotoKeeps
<1>7. CASE Leave([f EXCEPT !.tasks[t].state = "Completed", !.state = "DeletionPending"], TRUE)
  <2> DEFINE v == [f EXCEPT !.tasks[t].state = "Completed", !.state = "DeletionPending"]
  <2>1. /\ v \in Status /\ v.state = "DeletionPending" /\ v.cm = f.cm
        /\ v.tasks = [f.tasks EXCEPT ![t] = c]
    BY <1>2, <1>3 DEF Status, States
  <2>2. Leave(v, TRUE)
    BY <1>7
  <2> HIDE DEF v, c
  <2> QED
    BY <1>1, <1>3, <1>5, <2>1, <2>2, LeaveKeeps
<1> QED
  BY <1>4, <1>6, <1>7 DEF SyncTaskAttemptCompleted

LEMMA TaskCompletedKeeps ==
  ASSUME Inv, NEW t \in Tasks, next = t, SyncTaskCompleted(t)
  PROVE  Inv'
<1>1. PodReached(t, PodWorld(t)) /\ EnterPod(t, PodWorld(t)) /\ PodWorld(t).obj = pods[t]
  BY NoPodCall, PodCalledReached, WorldTypes DEF SyncTaskCompleted
<1>2. f.tasks[t] \in TaskStatus /\ FitTask(f.tasks[t], f.cm, pods[t], podsCached[t])
  BY TaskInSync
<1>3. Settled(f.tasks[t], podsCached[t])
  BY DEF Settled, SyncTaskCompleted
<1> QED
  BY <1>1, <1>2, <1>3, GotoKeeps DEF SyncTaskCompleted

LEMMA PodCreationRequestedKeeps ==
  ASSUME Inv, NEW t \in Tasks, next = t, NEW w, PodCalled(t, w),
         SyncPodCreationRequested(t, w)
  PROVE  Inv'
<1>1. PodReached(t, w) /\ FitTask(f.tasks[t], f.cm, w.obj, podsCached[t])
      /\ f.tasks[t] \in TaskStatus
  BY PodCalledReached, ReachedFits, TaskInSync
<1>2. CASE EnterPod(t, w) /\ Goto(t, f.tasks[t], FALSE)
  <2>1. Settled(f.tasks[t], podsCached[t])
    BY DEF Settled, SyncPodCreationRequested
  <2> QED
    BY <1>1, <1>2, <2>1, GotoKeeps
<1>3. ASSUME NEW r \in DeleteResults(w, f.tasks[t].pod, "someone"),
             \/ /\ Confirmed(r, f.tasks[t].pod)
                /\ EnterPod(t, r.w) /\ CompleteTaskByForce(t)
             \/ ~Confirmed(r, f.tasks[t].pod) /\ FailTask(t, r.w)
      PROVE  Inv'
  <2>1. PodReached(t, r.w) /\ (Confirmed(r, f.tasks[t].pod) => ~Present(r.w.obj))
    BY PodDeleted, PodCalledReached
  <2> QED
    BY <1>3, <2>1, CompleteTaskByForceKeeps, FailTaskKeeps
<1> QED
  BY <1>2, <1>3 DEF SyncPodCreationRequested

\* No Pod that the confirmed cleanup leaves alone is owned by the ConfigMap.
LEMMA ConfirmedCleanup ==
  ASSUME Inv, NEW t \in Tasks, next = t, f.tasks[t].state = "CreationPending",
         NEW w, PodCalled(t, w), NEW r \in ConfirmedPodCleanups(t, w)
  PROVE  PodReached(t, r.w) /\ (r.ok /\ Present(r.w.obj) => r.w.obj.orphan)
<1>1. CASE MustCleanup(t, w.obj) /\ r # [w |-> w, ok |-> FALSE]
  <2>1. PICK d \in DeleteResults(w, w.obj.uid, "someone") :
          r = [w |-> d.w, ok |-> Confirmed(d, w.obj.uid)]
    BY <1>1 DEF ConfirmedPodCleanups
  <2>2. r.w = d.w /\ (r.ok <=> Confirmed(d, w.obj.uid))
    BY <2>1
  <2> QED
    BY <2>2, PodDeleted, PodCalledReached
<1>2. CASE ~MustCleanup(t, w.obj) /\ r # [w |-> w, ok |-> FALSE]
  <2>1. r.w = w
    BY <1>2 DEF ConfirmedPodCleanups
  <2>2. PodReached(t, w)
    BY PodCalledReached
  <2>3. f.tasks[t].pod = 0 /\ f.cm = cm.uid
    BY TaskInSync DEF FitTask
  <2>4. Present(w.obj) => w.obj.uid # 0
    BY <2>2 DEF PodReached, PodInOrder, InOrder
  <2>5. Present(w.obj) => w.obj.owner # cm.uid
    BY <1>2, <2>3, <2>4 DEF MustCleanup
  <2>6. [pods EXCEPT ![t] = w.obj][t] = w.obj
    BY DEF Inv, TypeOK
  <2>7. Present(w.obj) => w.obj.orphan
    BY <2>2, <2>5, <2>6 DEF PodReached, Owned
  <2> QED
    BY <2>1, <2>2, <2>7
<1>3. CASE r = [w |-> w, ok |-> FALSE]
  <2>1. r.w = w /\ r.ok = FALSE
    BY <1>3
  <2> QED
    BY <2>1, PodCalledReached
<1> QED
  BY <1>1, <1>2, <1>3

LEMMA PodCreationPendingKeeps ==
  ASSUME Inv, NEW t \in Tasks, next = t, NEW w, PodCalled(t, w),
         SyncPodCreationPending(t, w)
  PROVE  Inv'
<1>1. /\ PodReached(t, w) /\ FitTask(f.tasks[t], f.cm, w.obj, podsCached[t])
      /\ f.tasks[t] \in TaskStatus /\ f.tasks[t].state = "CreationPending"
  BY PodCalledReached, ReachedFits, TaskInSync DEF SyncPodCreationPending
<1>2. CASE IsCompleting(f) /\ EnterPod(t, w) /\ Goto(t, f.tasks[t], FALSE)
  <2>1. f.state # "Running"
    BY <1>2 DEF IsCompleting
  <2> QED
    BY <1>1, <1>2, <2>1, GotoKeeps
<1>3. ASSUME NEW r \in CreatePodResults(w),
             \/ /\ r.ok /\ EnterPod(t, r.w)
                /\ Goto(t, [f.tasks[t] EXCEPT !.state = "CreationRequested",
                                              !.pod = r.w.obj.uid], FALSE)
             \/ ~r.ok /\ FailTask(t, r.w)
      PROVE  Inv'
  <2>1. /\ PodReached(t, r.w)
        /\ r.ok => r.w.obj.owner = f.cm /\ r.w.obj.uid \in Nat
    BY <1>1, PodCreatedReached
  <2>2. CASE FailTask(t, r.w)
    BY <2>1, <2>2, FailTaskKeeps
  <2>3. CASE r.ok /\ EnterPod(t, r.w)
             /\ Goto(t, [f.tasks[t] EXCEPT !.state = "CreationRequested",
                                           !.pod = r.w.obj.uid], FALSE)
    <3> DEFINE u == [f.tasks[t] EXCEPT !.state = "CreationRequested",
                                       !.pod = r.w.obj.uid]
    <3>1. u \in TaskStatus /\ u.state = "CreationRequested" /\ u.pod = r.w.obj.uid
      BY <1>1, <2>1, <2>3 DEF TaskStatus, States
    <3>2. Goto(t, u, FALSE)
      BY <2>3
    <3> HIDE DEF u
    <3>3. FitTask(u, f.cm, r.w.obj, podsCached[t]) /\ Settled(u, podsCached[t])
      BY <2>1, <2>3, <3>1 DEF FitTask, Begun, Seen, Over, Settled
    <3> QED
      BY <2>1, <2>3, <3>1, <3>2, <3>3, GotoKeeps
  <2> QED
    BY <1>3, <2>2, <2>3
<1>4. ASSUME NEW r \in ConfirmedPodCleanups(t, w),
             \/ r.ok /\ EnterPod(t, r.w) /\ CompleteTaskByForce(t)
             \/ ~r.ok /\ FailTask(t, r.w)
      PROVE  Inv'
  <2>1. PodReached(t, r.w) /\ (r.ok /\ Present(r.w.obj) => r.w.obj.orphan)
    BY <1>1, ConfirmedCleanup
  <2> QED
    BY <1>4, <2>1, CompleteTaskByForceKeeps, FailTaskKeeps
<1> QED
  BY <1>2, <1>3, <1>4 DEF SyncPodCreationPending, CreateTaskAttempt

\* A Pod that was in the local cache, and is no more, is gone for good.
LEMMA PodGoneKeeps ==
  ASSUME Inv, NEW t \in Tasks, next = t, HasPod(t), ManagedPodPhase(t) = "gone",
         NEW w, PodCalled(t, w), SyncPodGone(t, w)
  PROVE  Inv'
<1>1. f.tasks[t].state \in Seen /\ FitTask(f.tasks[t], f.cm, pods[t], podsCached[t])
  BY TaskInSync DEF HasPod, SyncPodGone, Seen, TaskStatus, States
<1>2. podsCached[t].uid = pods[t].uid /\ f.tasks[t].pod = pods[t].uid
  BY <1>1 DEF FitTask, Begun, Seen
<1>3. ~Present(podsCached[t])
  BY <1>2 DEF ManagedPodPhase, Present
<1>4. ~Present(pods[t])
  BY <1>2, <1>3, PodTypes, InOrderFacts
<1>5. PodReached(t, w) /\ ~Present(w.obj)
  BY <1>4, PodCalledReached
<1> QED
  BY <1>5, CompleteTaskByForceKeeps DEF SyncPodGone

LEMMA PodNilKeeps ==
  ASSUME Inv, NEW t \in Tasks, next = t, SyncPodNil(t, PodWorld(t))
  PROVE  Inv'
<1>1. HasPod(t) /\ ManagedPodPhase(t) = "gone"
  BY DEF SyncPodNil
<1>2. PICK r \in LocalPodCleanups(t, PodWorld(t)) :
        \/ ~r.ok /\ FailTask(t, r.w)
        \/ /\ r.ok
           /\ \/ SyncPodCreationRequested(t, r.w)
              \/ SyncPodCreationPending(t, r.w)
              \/ SyncPodGone(t, r.w)
  BY DEF SyncPodNil
<1>3. PodCalled(t, r.w)
  <2>1. CASE MustCleanup(t, podsCached[t])
    <3>1. r \in DeleteResults(PodWorld(t), podsCached[t].uid, "someone")
      BY <2>1 DEF LocalPodCleanups
    <3> QED
      BY <3>1, NoPodCall, PodDeleted
  <2>2. CASE ~MustCleanup(t, podsCached[t])
    <3>1. r.w = PodWorld(t)
      BY <2>2 DEF LocalPodCleanups
    <3> QED
      BY <3>1, NoPodCall
  <2> QED
    BY <2>1, <2>2
<1>4. CASE FailTask(t, r.w)
  BY <1>3, <1>4, PodCalledReached, FailTaskKeeps
<1>5. CASE SyncPodCreationRequested(t, r.w)
  BY <1>3, <1>5, PodCreationRequestedKeeps
<1>6. CASE SyncPodCreationPending(t, r.w)
  BY <1>3, <1>6, PodCreationPendingKeeps
<1>7. CASE SyncPodGone(t, r.w)
  BY <1>1, <1>3, <1>7, PodGoneKeeps
<1> QED
  BY <1>2, <1>4, <1>5, <1>6, <1>7

\* The Pod that a sync finds in the local cache is the one of the name.
LEMMA ManagedPod ==
  ASSUME Inv, NEW t \in Tasks, next = t, HasPod(t), ManagedPodPhase(t) # "gone"
  PROVE  /\ f.tasks[t].state \in Begun /\ f.tasks[t] \in TaskStatus
         /\ f.tasks[t].pod = pods[t].uid /\ podsCached[t].uid = pods[t].uid
         /\ pods[t].owner = f.cm
         /\ ManagedPodPhase(t) = podsCached[t].phase /\ Present(podsCached[t])
         /\ podsCached[t].phase # "alive" => pods[t].phase # "alive"
<1>1. f.tasks[t] \in TaskStatus /\ FitTask(f.tasks[t], f.cm, pods[t], podsCached[t])
  BY TaskInSync
<1>2. /\ podsCached[t].uid = f.tasks[t].pod
      /\ ManagedPodPhase(t) = podsCached[t].phase /\ Present(podsCached[t])
  BY DEF ManagedPodPhase, Present
<1>3. f.tasks[t].state \in Begun
  <2>1. f.tasks[t].state # "CreationPending"
    BY <1>1, <1>2, PodTypes DEF FitTask, InOrder
  <2> QED
    BY <1>1, <2>1 DEF HasPod, Begun, TaskStatus, States
<1>4. f.tasks[t].pod = pods[t].uid /\ pods[t].owner = f.cm
  BY <1>1, <1>3 DEF FitTask
<1>5. podsCached[t].phase # "alive" => pods[t].phase # "alive"
  BY <1>2, <1>4, PodTypes, InOrderFacts
<1> QED
  BY <1>1, <1>2, <1>3, <1>4, <1>5

LEMMA PodAliveKeeps ==
  ASSUME Inv, NEW t \in Tasks, next = t, SyncPodAlive(t, PodWorld(t))
  PROVE  Inv'
<1>1. /\ f.tasks[t] \in TaskStatus
      /\ f.tasks[t].pod = pods[t].uid /\ podsCached[t].uid = pods[t].uid
      /\ pods[t].owner = f.cm
      /\ podsCached[t].phase = "alive" /\ Present(podsCached[t])
  BY ManagedPod DEF SyncPodAlive
<1>2. /\ PodReached(t, PodWorld(t)) /\ PodWorld(t).obj = pods[t]
      /\ FitTask(f.tasks[t], f.cm, pods[t], podsCached[t])
  BY NoPodCall, PodCalledReached, WorldTypes, TaskInSync
<1>3. ASSUME NEW s \in {"Running", "DeletionPending"}, NEW again \in BOOLEAN,
             again \/ s = "Running", EnterPod(t, PodWorld(t)),
             Goto(t, [f.tasks[t] EXCEPT !.state = s], again)
      PROVE  Inv'
  <2> DEFINE u == [f.tasks[t] EXCEPT !.state = s]
  <2>1. u \in TaskStatus /\ u.state = s /\ u.pod = f.tasks[t].pod
    <3>1. s \in States
      BY DEF States
    <3> QED
      BY <1>1, <3>1, TaskInState
  <2>2. Goto(t, u, again)
    BY <1>3
  <2> HIDE DEF u
  <2>3. FitTask(u, f.cm, pods[t], podsCached[t]) /\ (s = "Running" => Settled(u, podsCached[t]))
    BY <1>1, <2>1 DEF FitTask, Begun, Seen, Over, Settled
  <2> QED
    BY <1>2, <1>3, <2>1, <2>2, <2>3, GotoKeeps
<1>4. CASE f.tasks[t].state = "DeletionPending"
  <2> DEFINE u == [f.tasks[t] EXCEPT !.state = "Deleting"]
  <2>1. PICK r \in DeleteResults(PodWorld(t), f.tasks[t].pod, "someone") :
          \/ ~r.ok /\ FailTask(t, r.w)
          \/ r.ok /\ EnterPod(t, r.w) /\ Goto(t, u, FALSE)
    BY <1>4 DEF SyncPodAlive
  <2>2. u \in TaskStatus /\ u.state = "Deleting" /\ u.pod = f.tasks[t].pod
    BY <1>1, TaskInState DEF States
  <2> HIDE DEF u
  <2>3. /\ PodReached(t, r.w) /\ r.w.obj.uid = pods[t].uid
        /\ r.ok => r.w.obj.phase # "alive"
    BY <1>1, NoPodCall, PodDeleted, PodCalledReached
  <2>4. r.w.obj.owner = f.cm
    <3>1. r.w.obj \in VersionsOf(pods[t])
      BY NoPodCall, PodDeleted DEF PodCalled, WorldsOf
    <3> QED
      BY <1>1, <2>3, <3>1 DEF VersionsOf
  <2>5. CASE FailTask(t, r.w)
    BY <2>3, <2>5, FailTaskKeeps
  <2>6. CASE r.ok /\ EnterPod(t, r.w) /\ Goto(t, u, FALSE)
    <3>1. FitTask(u, f.cm, r.w.obj, podsCached[t]) /\ Settled(u, podsCached[t])
      BY <1>1, <2>2, <2>3, <2>4, <2>6 DEF FitTask, Begun, Seen, Over, Settled
    <3> QED
      BY <2>2, <2>3, <2>6, <3>1, GotoKeeps
  <2> QED
    BY <2>1, <2>5, <2>6
<1>5. CASE f.tasks[t].state = "Deleting"
  <2>1. EnterPod(t, PodWorld(t)) /\ Goto(t, f.tasks[t], FALSE)
    BY <1>5 DEF SyncPodAlive
  <2>2. Settled(f.tasks[t], podsCached[t])
    BY <1>1, <1>5 DEF Settled
  <2> QED
    BY <1>1, <1>2, <2>1, <2>2, GotoKeeps
<1>6. CASE f.tasks[t].state \in {"CreationRequested", "Running"}
  BY <1>3, <1>6 DEF SyncPodAlive
<1> QED
  BY <1>4, <1>5, <1>6 DEF SyncPodAlive

LEMMA PodDeletingKeeps ==
  ASSUME Inv, NEW t \in Tasks, next = t, SyncPodDeleting(t)
  PROVE  Inv'
<1>1. /\ f.tasks[t] \in TaskStatus
      /\ f.tasks[t].pod = pods[t].uid /\ podsCached[t].uid = pods[t].uid
      /\ pods[t].owner = f.cm /\ pods[t].phase # "alive" /\ Present(podsCached[t])
  BY ManagedPod DEF SyncPodDeleting
<1>2. /\ PodReached(t, PodWorld(t)) /\ PodWorld(t).obj = pods[t]
      /\ EnterPod(t, PodWorld(t))
  BY NoPodCall, PodCalledReached, WorldTypes DEF SyncPodDeleting
<1> DEFINE u == [f.tasks[t] EXCEPT !.state = "Deleting"]
<1>3. u \in TaskStatus /\ u.state = "Deleting" /\ u.pod = f.tasks[t].pod
  BY <1>1, TaskInState DEF States
<1>4. Goto(t, u, FALSE)
  BY DEF SyncPodDeleting
<1> HIDE DEF u
<1>5. FitTask(u, f.cm, pods[t], podsCached[t]) /\ Settled(u, podsCached[t])
  BY <1>1, <1>3 DEF FitTask, Begun, Seen, Over, Settled
<1> QED
  BY <1>2, <1>3, <1>4, <1>5, GotoKeeps

LEMMA SyncTaskKeeps ==
  ASSUME Inv, NEW t \in Tasks, SyncTask(t)
  PROVE  Inv'
BY TaskCompletedKeeps, TaskAttemptCompletedKeeps, PodNilKeeps, PodAliveKeeps,
   PodDeletingKeeps
   DEF SyncTask

-----------------------------------------------------------------------------
(* The Informers, the cluster, time and restarts *)

LEMMA ConfigMapChangesKeeps ==
  ASSUME Inv, NEW x, ConfigMapCalled(x), ConfigMapChanges(x)
  PROVE  Inv'
<1>1. /\ cm' = x.obj /\ cmPending' = x.watch /\ cmCached' = cmCached
      /\ pods' = pods /\ podsCached' = podsCached /\ podsPending' = podsPending
      /\ f' = f /\ saved' = saved /\ next' = next /\ queued' = queued
      /\ crashes' = crashes
  BY DEF ConfigMapChanges, EnterConfigMap, podVars, statusVars
<1>2. ConfigMapReached(x)
  BY CalledReached
<1>3. x.obj \in ConfigMap /\ x.watch \subseteq ConfigMap
  BY DEF ConfigMapCalled, WorldsOf
<1>4. TypeOK'
  BY <1>1, <1>3 DEF Inv, TypeOK
<1>5. InSync' /\ Queued'
  BY <1>1 DEF Inv, InSync, Queued
<1> QED
  BY <1>1, <1>2, <1>4, <1>5 DEF Inv, ConfigMapReached

LEMMA PodChangesKeeps ==
  ASSUME Inv, NEW t \in Tasks, NEW x, PodCalled(t, x), PodChanges(t, x)
  PROVE  Inv'
<1> DEFINE P == [pods EXCEPT ![t] = x.obj]
<1>1. /\ pods' = P /\ podsPending' = [podsPending EXCEPT ![t] = x.watch]
      /\ podsCached' = podsCached
      /\ cm' = cm /\ cmCached' = cmCached /\ cmPending' = cmPending
      /\ f' = f /\ saved' = saved /\ next' = next /\ queued' = queued
      /\ crashes' = crashes
  BY DEF PodChanges, EnterPod, cmVars, statusVars
<1>2. PodReached(t, x)
  BY PodCalledReached
<1>3. \A r \in Tasks : /\ P[r] = IF r = t THEN x.obj ELSE pods[r]
                       /\ podsPending'[r] = IF r = t THEN x.watch ELSE podsPending[r]
  BY <1>1 DEF Inv, TypeOK
<1>4. x.obj \in Pod /\ x.watch \subseteq Pod /\ PodInOrder(x.obj, podsCached[t], x.watch)
  BY <1>2 DEF PodReached, PodInOrder, VersionsOf
<1>5. TypeOK'
  <2>1. P \in [Tasks -> Pod] /\ podsPending' \in [Tasks -> SUBSET Pod]
    BY <1>1, <1>4 DEF Inv, TypeOK
  <2> HIDE DEF P
  <2> QED
    BY <1>1, <2>1 DEF Inv, TypeOK
<1> HIDE DEF P
<1>6. \A r \in Tasks : PodInOrder(P[r], podsCached[r], podsPending'[r])
  BY <1>3, <1>4 DEF Inv
<1>7. Owned(cm, P) /\ Fit(f, cm, cmCached, P, podsCached) /\ Fit(saved, cm, cmCached, P, podsCached)
  BY <1>2 DEF PodReached, P
<1>8. InSync' /\ Queued'
  BY <1>1 DEF Inv, InSync, Queued
<1> QED
  BY <1>1, <1>5, <1>6, <1>7, <1>8 DEF Inv

LEMMA ClusterKeeps ==
  ASSUME Inv, Cluster
  PROVE  Inv'
<1>1. /\ ConfigMapWorld \in WorldsOf(ConfigMap) /\ ConfigMapWorld.obj = cm
      /\ \A t \in Tasks : /\ PodWorld(t) \in WorldsOf(VersionsOf(pods[t]))
                          /\ PodWorld(t).obj = pods[t]
  BY WorldTypes
<1>2. ASSUME ConfigMapDeletedByOthers
      PROVE  Inv'
  <2>1. ConfigMapCalled(Marked(ConfigMapWorld, "someone"))
    BY <1>1, ConfigMapClosed, MarkedOnwards DEF ConfigMapCalled
  <2> QED
    BY <1>2, <2>1, ConfigMapChangesKeeps DEF ConfigMapDeletedByOthers
<1>3. ASSUME ConfigMapVanishes
      PROVE  Inv'
  <2>1. Present(cm) /\ Dependents(cm.uid) = {}
    BY <1>3 DEF ConfigMapVanishes, Present
  <2>2. ConfigMapCalled(Erased(ConfigMapWorld))
    BY <1>1, <2>1, ConfigMapClosed, ErasedOnwards DEF ConfigMapCalled
  <2> QED
    BY <1>3, <2>2, ConfigMapChangesKeeps DEF ConfigMapVanishes
<1>4. ASSUME NEW t \in Tasks, PodDeletedByOthers(t) \/ PodCollected(t)
      PROVE  Inv'
  <2>1. PodCalled(t, Marked(PodWorld(t), "someone"))
    BY <1>1, PodTypes, MarkedOnwards DEF PodCalled
  <2> QED
    BY <1>4, <2>1, PodChangesKeeps DEF PodDeletedByOthers, PodCollected
<1>5. ASSUME NEW t \in Tasks, PodVanishes(t)
      PROVE  Inv'
  <2>1. Present(pods[t])
    BY <1>5 DEF PodVanishes, Present
  <2>2. PodCalled(t, Erased(PodWorld(t)))
    BY <1>1, <2>1, PodTypes, ErasedOnwards DEF PodCalled
  <2> QED
    BY <1>5, <2>2, PodChangesKeeps DEF PodVanishes
<1> QED
  BY <1>2, <1>3, <1>4, <1>5 DEF Cluster

\* What a Status says of the cache stays true, since no older object arrives; and
\* the event enqueues the key whenever the Status was at odds with it.
LEMMA DeliverConfigMapKeeps ==
  ASSUME Inv, DeliverConfigMap
  PROVE  Inv'
<1>1. PICK c \in cmPending :
        /\ cmCached' = c
        /\ cmPending' = {d \in cmPending : PhaseAge(d) > PhaseAge(c)}
        /\ queued' = (queued \/ Present(cmCached) \/ Present(c))
        /\ UNCHANGED <<f, saved, next, cm, podVars, crashes>>
  BY DEF DeliverConfigMap
<1>2. /\ f' = f /\ saved' = saved /\ next' = next /\ cm' = cm /\ crashes' = crashes
      /\ pods' = pods /\ podsCached' = podsCached /\ podsPending' = podsPending
  BY <1>1 DEF podVars
<1>3. cm \in ConfigMap /\ cmCached \in ConfigMap /\ cmPending \in SUBSET ConfigMap
  BY DEF Inv, TypeOK
<1>4. InOrder(cm, cmCached, cmPending)
  BY DEF Inv
<1>5. InOrder(cm, c, cmPending') /\ cmCached.uid <= c.uid /\ c.uid <= cm.uid
  BY <1>1, <1>3, <1>4, ConfigMapClosed, InOrderDelivered
<1>6. cmCached.uid = cm.uid => c.uid = cm.uid
  BY <1>3, <1>5 DEF ConfigMap
<1>7. ASSUME NEW v, Fit(v, cm, cmCached, pods, podsCached)
      PROVE  Fit(v, cm, c, pods, podsCached)
  BY <1>6, <1>7 DEF Fit
<1>8. Fit(f, cm, c, pods, podsCached) /\ Fit(saved, cm, c, pods, podsCached)
  BY <1>7 DEF Inv
<1>9. TypeOK'
  <2>1. queued' \in BOOLEAN
    BY <1>1 DEF Inv, TypeOK, Present
  <2>2. cmPending' \subseteq ConfigMap /\ cmCached' \in ConfigMap
    BY <1>1, <1>3
  <2> QED
    BY <1>2, <2>1, <2>2 DEF Inv, TypeOK
<1>10. InSync'
  BY <1>2 DEF Inv, InSync
<1>11. Queued'
  <2> SUFFICES ASSUME ~queued, ~Present(cmCached)
               PROVE  Queued'
    BY <1>1 DEF Queued
  <2>1. f.state \in {"CreationRequested", "Completed"}
    BY DEF Inv, Queued, Present
  <2> QED
    BY <1>2, <2>1 DEF Queued
<1> QED
  BY <1>1, <1>2, <1>5, <1>8, <1>9, <1>10, <1>11 DEF Inv

\* A Task that waits for an event of its Pod has the Pod's owner in the cache.
LEMMA DeliverPodKeeps ==
  ASSUME Inv, NEW t \in Tasks, DeliverPod(t)
  PROVE  Inv'
<1>1. PICK p \in podsPending[t] :
        /\ podsCached' = [podsCached EXCEPT ![t] = p]
        /\ podsPending' = [podsPending EXCEPT ![t] = {q \in @ : PhaseAge(q) > PhaseAge(p)}]
        /\ queued' = (queued \/ Enqueues(podsCached[t], p))
        /\ UNCHANGED <<f, saved, next, cmVars, pods, crashes>>
  BY DEF DeliverPod
<1>2. /\ f' = f /\ saved' = saved /\ next' = next /\ pods' = pods /\ crashes' = crashes
      /\ cm' = cm /\ cmCached' = cmCached /\ cmPending' = cmPending
  BY <1>1 DEF cmVars
<1> DEFINE W == {q \in podsPending[t] : PhaseAge(q) > PhaseAge(p)}
<1>3. \A r \in Tasks : /\ podsCached'[r] = IF r = t THEN p ELSE podsCached[r]
                       /\ podsPending'[r] = IF r = t THEN W ELSE podsPending[r]
  BY <1>1 DEF Inv, TypeOK
<1>4. /\ Closed(VersionsOf(pods[t]), "someone")
      /\ pods[t] \in VersionsOf(pods[t]) /\ podsCached[t] \in VersionsOf(pods[t])
      /\ podsPending[t] \in SUBSET VersionsOf(pods[t])
      /\ InOrder(pods[t], podsCached[t], podsPending[t])
      /\ pods[t] \in Pod
  BY PodTypes
<1>5. InOrder(pods[t], p, W) /\ podsCached[t].uid <= p.uid /\ p.uid <= pods[t].uid
  <2> DEFINE O == VersionsOf(pods[t])
  <2>1. /\ Closed(O, "someone") /\ pods[t] \in O /\ podsCached[t] \in O
        /\ podsPending[t] \in SUBSET O /\ p \in podsPending[t]
        /\ InOrder(pods[t], podsCached[t], podsPending[t])
    BY <1>4
  <2> HIDE DEF O
  <2> QED
    BY <2>1, InOrderDelivered
<1>6. /\ p \in Pod /\ p \in VersionsOf(pods[t]) /\ W \subseteq VersionsOf(pods[t])
      /\ podsCached[t].uid = pods[t].uid => p.uid = pods[t].uid
  BY <1>4, <1>5 DEF VersionsOf, Pod
<1>7. TypeOK'
  <2>1. W \subseteq Pod
    BY <1>4 DEF VersionsOf
  <2>2. podsCached' \in [Tasks -> Pod] /\ podsPending' \in [Tasks -> SUBSET Pod]
    BY <1>1, <1>6, <2>1 DEF Inv, TypeOK
  <2>3. queued' \in BOOLEAN
    BY <1>1 DEF Inv, TypeOK, Enqueues, HasOwner, Present
  <2> QED
    BY <1>2, <2>2, <2>3 DEF Inv, TypeOK
<1> HIDE DEF W
<1>8. \A r \in Tasks : PodInOrder(pods[r], podsCached'[r], podsPending'[r])
  BY <1>3, <1>4, <1>5, <1>6 DEF Inv, PodInOrder
<1>9. ASSUME NEW v, Fit(v, cm, cmCached, pods, podsCached)
      PROVE  Fit(v, cm, cmCached, pods, podsCached')
  <2>1. \A r \in Tasks : FitTask(v.tasks[r], v.cm, pods[r], podsCached'[r])
    BY <1>3, <1>6, <1>9 DEF Fit, FitTask
  <2> QED
    BY <1>9, <2>1 DEF Fit
<1>10. Fit(f, cm, cmCached, pods, podsCached') /\ Fit(saved, cm, cmCached, pods, podsCached')
  BY <1>9 DEF Inv
<1>11. InSync'
  BY <1>2 DEF Inv, InSync
<1>12. Queued'
  <2> SUFFICES ASSUME ~queued, ~Enqueues(podsCached[t], p)
               PROVE  Queued'
    BY <1>1 DEF Queued
  <2>1. ASSUME f.state = "Running", NEW r \in Tasks, next = 0 \/ r < next
        PROVE  Settled(f.tasks[r], podsCached'[r])
    <3>1. Settled(f.tasks[r], podsCached[r])
      BY <2>1 DEF Inv, Queued
    <3>2. CASE r # t
      BY <1>3, <3>1, <3>2
    <3>3. CASE r = t /\ f.tasks[t].state \notin {"Running", "Deleting"}
      BY <3>1, <3>3 DEF Settled
    <3>4. CASE r = t /\ f.tasks[t].state \in {"Running", "Deleting"}
      <4>1. podsCached[t].uid = f.tasks[t].pod /\ Present(podsCached[t])
        BY <3>1, <3>4 DEF Settled, Present
      <4>2. f.tasks[t].pod = pods[t].uid /\ pods[t].owner = f.cm
        BY <3>4 DEF Inv, Fit, FitTask, Begun
      <4>3. podsCached[t].owner = f.cm
        BY <1>4, <4>1, <4>2 DEF VersionsOf
      <4>4. cmCached.uid = f.cm /\ Present(cmCached)
        BY <2>1 DEF Inv, Queued, Present
      <4> QED
        BY <4>1, <4>3, <4>4 DEF Enqueues, HasOwner
    <3> QED
      BY <3>2, <3>3, <3>4
  <2> QED
    BY <1>2, <2>1 DEF Inv, Queued
<1> QED
  BY <1>2, <1>7, <1>8, <1>10, <1>11, <1>12 DEF Inv

LEMMA TimerFiresKeeps ==
  ASSUME Inv, TimerFires
  PROVE  Inv'
<1>1. /\ f' = f /\ saved' = saved /\ next' = next /\ queued' = TRUE /\ crashes' = crashes
      /\ cm' = cm /\ cmCached' = cmCached /\ cmPending' = cmPending
      /\ pods' = pods /\ podsCached' = podsCached /\ podsPending' = podsPending
  BY DEF TimerFires, cmVars, podVars
<1>2. TypeOK' /\ InSync' /\ Queued'
  BY <1>1 DEF Inv, TypeOK, InSync, Queued
<1> QED
  BY <1>1, <1>2 DEF Inv

\* Nothing is lost but what was not saved, and the caches are filled again.
LEMMA RestartKeeps ==
  ASSUME Inv, Restart
  PROVE  Inv'
<1>1. /\ crashes < MaxCrashes /\ crashes' = crashes + 1
      /\ f' = saved /\ saved' = saved /\ next' = 0 /\ queued' = TRUE
      /\ cm' = cm /\ cmCached' = cm /\ cmPending' = {}
      /\ pods' = pods /\ podsCached' = pods
      /\ podsPending' = [t \in Tasks |-> {}]
  BY DEF Restart
<1>2. TypeOK'
  <2>1. crashes' \in 0 .. MaxCrashes /\ 0 \in 0 .. TaskNumber + 1
    BY <1>1, ConsistencyAssumption DEF Inv, TypeOK
  <2>2. podsPending' \in [Tasks -> SUBSET Pod]
    BY <1>1
  <2> QED
    BY <1>1, <2>1, <2>2 DEF Inv, TypeOK
<1>3. InOrder(cm, cm, {})
  BY InOrderRelisted DEF Inv, TypeOK, ConfigMap, InOrder
<1>4. ASSUME NEW t \in Tasks
      PROVE  PodInOrder(pods[t], pods[t], {})
  <2>1. pods[t] \in Pod /\ pods[t] \in VersionsOf(pods[t])
        /\ InOrder(pods[t], podsCached[t], podsPending[t])
    BY PodTypes
  <2>2. InOrder(pods[t], pods[t], {})
    BY <2>1, InOrderRelisted DEF Pod, InOrder
  <2> QED
    BY <2>1, <2>2 DEF PodInOrder
<1>5. Fit(saved, cm, cm, pods, pods)
  <2>1. \A t \in Tasks : FitTask(saved.tasks[t], saved.cm, pods[t], pods[t])
    BY DEF Inv, Fit, FitTask
  <2> QED
    BY <2>1 DEF Inv, Fit
<1>6. InSync' /\ Queued'
  <2>1. 0 \notin Tasks
    BY DEF Tasks
  <2> QED
    BY <1>1, <2>1 DEF InSync, Queued
<1>7. \A t \in Tasks : podsPending'[t] = {}
  BY <1>1
<1> QED
  BY <1>1, <1>2, <1>3, <1>4, <1>5, <1>6, <1>7 DEF Inv

-----------------------------------------------------------------------------
(* The theorems *)

LEMMA InitInv == Init => Inv
<1> SUFFICES ASSUME Init
             PROVE  Inv
  OBVIOUS
<1>1. NewTaskAttempt(0) \in TaskStatus /\ NewTaskAttempt(0).state = "CreationPending"
      /\ NewTaskAttempt(0).pod = 0
  BY ConsistencyAssumption DEF NewTaskAttempt, TaskStatus, States
<1>2. /\ NewAttempt(0) \in Status /\ NewAttempt(0).state = "CreationPending"
      /\ NewAttempt(0).cm = 0
      /\ \A t \in Tasks : NewAttempt(0).tasks[t] = NewTaskAttempt(0)
  BY <1>1, ConsistencyAssumption DEF NewAttempt, Status, States
<1>3. /\ NoConfigMap \in ConfigMap /\ NoPod \in Pod
      /\ ~Present(NoConfigMap) /\ ~Present(NoPod)
      /\ NoConfigMap.uid = 0 /\ NoPod.uid = 0
  BY DEF NoConfigMap, ConfigMap, NoPod, Pod, Phases, Present
<1>4. /\ f = NewAttempt(0) /\ saved = f /\ next = 0 /\ queued = TRUE
      /\ cm = NoConfigMap /\ cmCached = NoConfigMap /\ cmPending = {}
      /\ pods = [t \in Tasks |-> NoPod] /\ podsCached = pods
      /\ podsPending = [t \in Tasks |-> {}] /\ crashes = 0
  BY DEF Init
<1>5. TypeOK
  <2>1. 0 \in 0 .. TaskNumber + 1 /\ 0 \in 0 .. MaxCrashes
    BY ConsistencyAssumption
  <2> QED
    BY <1>2, <1>3, <1>4, <2>1 DEF TypeOK
<1>6. InOrder(NoConfigMap, NoConfigMap, {}) /\ InOrder(NoPod, NoPod, {})
  BY <1>3, InOrderRelisted DEF ConfigMap, Pod
<1>7. PodInOrder(NoPod, NoPod, {})
  BY <1>3, <1>6, VersionsClosed DEF PodInOrder
<1>8. Owned(cm, pods)
  BY <1>3, <1>4 DEF Owned
<1>9. Fit(f, cm, cmCached, pods, podsCached)
  BY <1>1, <1>2, <1>3, <1>4 DEF Fit, FitTask, Begun, Seen, Over
<1>10. InSync /\ Queued
  <2>1. 0 \notin Tasks
    BY DEF Tasks
  <2> QED
    BY <1>4, <2>1 DEF InSync, Queued
<1> QED
  BY <1>4, <1>5, <1>6, <1>7, <1>8, <1>9, <1>10 DEF Inv

LEMMA NextKeeps == Inv /\ [Next]_vars => Inv'
<1> SUFFICES ASSUME Inv, [Next]_vars
             PROVE  Inv'
  OBVIOUS
<1>1. CASE Worker
  BY <1>1, StartSyncKeeps, SyncTaskKeeps, EndSyncKeeps DEF Worker
<1>2. CASE Informers
  BY <1>2, DeliverConfigMapKeeps, DeliverPodKeeps DEF Informers
<1>3. CASE Cluster
  BY <1>3, ClusterKeeps
<1>4. CASE TimerFires
  BY <1>4, TimerFiresKeeps
<1>5. CASE Restart
  BY <1>5, RestartKeeps
<1>6. CASE UNCHANGED vars
  BY <1>6 DEF vars, statusVars, cmVars, podVars, Inv, TypeOK, InSync, Queued
<1> QED
  BY <1>1, <1>2, <1>3, <1>4, <1>5, <1>6 DEF Next

LEMMA Invariance == Safety => []Inv
BY InitInv, NextKeeps, PTL DEF Safety

\* The Status and the objects have their types: in particular a sync never leaves
\* the Tasks of the Framework.
THEOREM TypeCorrect == Safety => []TypeOK
<1>1. Inv => TypeOK
  BY DEF Inv
<1> QED
  BY <1>1, Invariance, PTL

\* ConsistencyGuarantee2: no Pod runs under a Task whose attempt is saved as
\* completed, unless it was created under a ConfigMap that was gone already.
THEOREM ConsistencyGuarantee2Holds == Safety => []ConsistencyGuarantee2
<1>1. Inv => ConsistencyGuarantee2
  BY DEF Inv, Fit, FitTask, ConsistencyGuarantee2
<1> QED
  BY <1>1, Invariance, PTL

\* ConsistencyGuarantee3: no Pod of an earlier attempt is left, unless it was
\* created under a ConfigMap that was gone already.
THEOREM ConsistencyGuarantee3Holds == Safety => []ConsistencyGuarantee3
<1>1. ASSUME Inv, NEW t \in Tasks, Present(pods[t])
      PROVE  pods[t].owner = f.cm \/ pods[t].orphan
  <2>1. f.state \in Begun \cup {"CreationPending"} \cup Over
    BY <1>1 DEF Inv, TypeOK, Status, States, Begun, Over
  <2> QED
    BY <1>1, <2>1 DEF Inv, Fit, Owned
<1>2. Inv => ConsistencyGuarantee3
  BY <1>1 DEF ConsistencyGuarantee3
<1> QED
  BY <1>2, Invariance, PTL

\* No event is lost: when the controller rests and its caches are up to date, the
\* Status agrees with the ConfigMap and the Pods.
THEOREM NoEventLostHolds == Safety => []NoEventLost
<1>1. ASSUME Inv, AtRest
      PROVE  /\ cmCached.uid = cm.uid /\ cmCached.phase = cm.phase
             /\ \A t \in Tasks : /\ podsCached[t].uid = pods[t].uid
                                 /\ podsCached[t].phase = pods[t].phase
  <2>1. cmCached.uid = cm.uid /\ cmCached.phase = cm.phase
    BY <1>1, ConfigMapClosed, InOrderFacts DEF Inv, TypeOK, AtRest
  <2>2. ASSUME NEW t \in Tasks
        PROVE  podsCached[t].uid = pods[t].uid /\ podsCached[t].phase = pods[t].phase
    BY <1>1, PodTypes, InOrderFacts DEF AtRest
  <2> QED
    BY <2>1, <2>2
<1>2. ASSUME Inv, AtRest
      PROVE  /\ cm.phase \in Phases
             /\ \A t \in Tasks : pods[t].phase \in Phases
  BY <1>2 DEF Inv, TypeOK, ConfigMap, Pod
<1>3. ASSUME Inv, AtRest, f.state = "Running", NEW t \in Tasks
      PROVE  /\ f.tasks[t].state \in {"CreationRequested", "Running", "Deleting", "Completed"}
             /\ f.tasks[t].state = "Running" =>
                  pods[t].uid = f.tasks[t].pod /\ pods[t].phase = "alive"
             /\ f.tasks[t].state = "Deleting" =>
                  pods[t].uid = f.tasks[t].pod /\ pods[t].phase = "deleting"
  <2>1. Settled(f.tasks[t], podsCached[t])
    BY <1>3 DEF Inv, Queued, AtRest
  <2>2. f.tasks[t].state = "Deleting" => pods[t].phase # "alive"
    BY <1>3 DEF Inv, Fit, FitTask
  <2> QED
    BY <1>1, <1>2, <1>3, <2>1, <2>2 DEF Settled, Present, Phases
<1>4. ASSUME Inv, AtRest
      PROVE  /\ f.state \in {"CreationRequested", "Running", "Deleting", "Completed"}
             /\ f.state = "Running" => cm.uid = f.cm /\ cm.phase = "alive"
             /\ f.state = "Deleting" => cm.uid = f.cm /\ cm.phase = "deleting"
  <2>1. /\ f.state \in {"CreationRequested", "Running", "Deleting", "Completed"}
        /\ f.state = "Running" => cmCached.uid = f.cm /\ cmCached.phase = "alive"
        /\ f.state = "Deleting" => cmCached.uid = f.cm /\ Present(cmCached)
    BY <1>4 DEF Inv, Queued, AtRest
  <2>2. f.state = "Deleting" => cm.phase # "alive"
    BY <1>4 DEF Inv, Fit
  <2> QED
    BY <1>1, <1>2, <1>4, <2>1, <2>2 DEF Present, Phases
<1>5. Inv => NoEventLost
  BY <1>3, <1>4 DEF NoEventLost
<1> QED
  BY <1>5, Invariance, PTL
=============================================================================
