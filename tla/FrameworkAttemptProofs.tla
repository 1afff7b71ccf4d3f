----------------------- MODULE FrameworkAttemptProofs -----------------------
(***************************************************************************)
(* What FrameworkAttempt promises of the ConfigMaps and the retries of a   *)
(* Framework, for every RetryPolicy, every set of ExecutionTypes and every *)
(* bound, and that it implements FrameworkLifecycle.                       *)
(*                                                                         *)
(* The argument.  FrameworkAttempt takes the steps of FrameworkStatusSync, *)
(* whose invariant is proved there: a sync acts on the persisted Status.   *)
(* What is added says what each Status of the present Framework (in the    *)
(* ApiServer, expected, or worked on) says of the ConfigMap (Sound), and   *)
(* that the two others are at most one exposed transition ahead of the     *)
(* first (Follows).  A worker whose Framework is gone may still create and *)
(* delete ConfigMaps; then nothing was written yet for the next one of the *)
(* name (Fresh).                                                           *)
(***************************************************************************)
EXTENDS FrameworkAttempt, RemoteCallsProofs, TLAPS

\* The same instance of FrameworkStatusSync, with what is proved about it
SP == INSTANCE FrameworkStatusSyncProofs WITH
        Specs <- ExecutionTypes, NoSpec <- "None",
        Statuses <- Status, NilStatus <- NilStatus, Leq <- AnyLeq

-----------------------------------------------------------------------------
(* The inductive invariant *)

Over == {"AttemptCompleted", "Completed"}

\* The ConfigMap was found in the local cache; it was created.
Seen == {"Preparing", "Running", "DeletionPending", "DeletionRequested", "Deleting"}
Begun == Seen \cup {"CreationRequested"}

DecisionOf(v) ==
  RP!ShouldRetry([FancyRetryPolicy |-> FancyRetryPolicy, MaxRetryCount |-> MaxRetryCount],
                 v.retries, v.code, CompletionTypeOf(v.code), 0)

\* What a Status v of the Framework k says of the ConfigMap o in the ApiServer and c
\* in the local cache, and of its own past.
Sound(v, k, o, c) ==
  /\ v.state \in {"None", "CreationPending"} => v.cm = 0 /\ v.code = "None"
  /\ v.state = "None" => v.attempt = 0
  /\ v.state \in Begun => v.cm = o.uid
  /\ v.state \in Seen => c.uid = o.uid
  /\ v.state \in {"DeletionRequested", "Deleting"} => o.phase # "alive"
  /\ v.state \in Over /\ Present(o) => o.owner # k
  /\ v.state \in {"DeletionPending", "DeletionRequested", "Deleting"} \cup Over =>
       v.code # "None"
  /\ o.by = "completion" /\ o.uid = v.cm => v.code # "None"
  /\ v.retries <= v.attempt
  /\ MaxRetryCount >= 0 => v.retries <= MaxRetryCount
  /\ ~FancyRetryPolicy => v.retries = v.attempt
  /\ v.scheduled => v.state = "AttemptCompleted" /\ DecisionOf(v).ShouldRetry

\* A client who saw v may see u next.
Starts(v, u) ==
  /\ "CreationPending" \in Lifecycle!Exposes(v.state)
  /\ u.state = "CreationPending"
  /\ u.attempt = IF v.state = "None" THEN 0 ELSE v.attempt + 1
  /\ u.cm = 0 /\ u.code = "None"

Progresses(v, u) ==
  /\ u.state \in Lifecycle!Exposes(v.state) \ {"CreationPending"}
  /\ IF u.state = "CreationRequested" THEN u.cm \in Nat \ {0} ELSE u.cm = v.cm
  /\ IF v.code # "None" \/ u.state \in {"CreationRequested", "Preparing", "Running"}
       THEN u.code = v.code
       ELSE u.code \in Codes \ {"None"}
  /\ u.attempt = v.attempt

Follows(v, u) ==
  \/ u.state = v.state /\ u.attempt = v.attempt /\ u.cm = v.cm /\ u.code = v.code
  \/ Starts(v, u)
  \/ Progresses(v, u)

\* Nothing was written yet for a Framework that this process has not synced.
Fresh ==
  (~FS!Exists(remote) \/ cached.uid # remote.uid \/ expected.uid \notin {0, remote.uid})
    => remote.status.val = NilStatus

\* All Statuses of the present Framework fit the ConfigMap o, and c in the cache.
Fit(o, c) ==
  FS!Exists(remote) =>
    /\ Sound(remote.status.val, remote.uid, o, c)
    /\ expected.uid = remote.uid =>
         /\ Sound(expected.status.val, remote.uid, o, c)
         /\ Follows(remote.status.val, expected.status.val)
    /\ pc # "idle" /\ f.uid = remote.uid =>
         /\ Sound(val, remote.uid, o, c)
         /\ Follows(remote.status.val, val)

Inv ==
  /\ TypeOK
  /\ FS!Inv
  /\ Fresh
  /\ InOrder(cmRemote, cmCached, cmPending)
  /\ cmRemote.uid = 0 => cmRemote.by # "completion"
  /\ Fit(cmRemote, cmCached)

-----------------------------------------------------------------------------
(* FrameworkStatusSync *)

LEMMA NilType == NilStatus \in Status
BY DEF NilStatus, NewAttempt, Status, States, Codes

LEMMA SyncAssumptions ==
  SP!SpecAssumption /\ SP!StatusAssumption /\ SP!BoundAssumption
BY ExecutionTypeAssumption, AttemptBoundAssumption, NilType
   DEF SP!SpecAssumption, SP!StatusAssumption, SP!BoundAssumption, AnyLeq

LEMMA SameInvariant == (SP!Inv <=> FS!Inv) /\ (SP!Inv' <=> FS!Inv')
BY DEF SP!Inv, SP!TypeOK, SP!VersionsOrdered, SP!IncarnationsOrdered, SP!StatusesOwned,
       SP!ExpectedAhead, SP!WorkerConsistent, SP!SpecNeverReverted, SP!Known, SP!Exists,
       SP!Version, SP!StatusRec, SP!Info,
       FS!Inv, FS!TypeOK, FS!VersionsOrdered, FS!IncarnationsOrdered, FS!StatusesOwned,
       FS!ExpectedAhead, FS!WorkerConsistent, FS!SpecNeverReverted, FS!Known, FS!Exists,
       FS!Version, FS!StatusRec, FS!Info

LEMMA SameSteps == FS!Init => SP!Init
BY DEF SP!Init, SP!Tombstone, SP!NoInfo, FS!Init, FS!Tombstone, FS!NoInfo

LEMMA SameNext == FS!Next => SP!Next
BY DEF SP!Next, SP!Users, SP!UserCreate, SP!UserUpdateSpec, SP!UserDelete, SP!Vanish,
       SP!Deliver, SP!StartSync, SP!SyncNotFound, SP!SyncRecover, SP!SyncKnown, SP!Body,
       SP!SyncBody, SP!UpdateRemote, SP!UpdateStored, SP!UpdateConflict, SP!UpdateFailed,
       SP!UpdateEnds, SP!UpdateBase, SP!Updating, SP!BaseIsSameObject, SP!Accepts,
       SP!Restart, SP!ToIdle, SP!Publish, SP!Notifies, SP!Exists, SP!Tombstone, SP!NoInfo,
       SP!objVars, SP!cacheVars, SP!syncVars,
       FS!Next, FS!Users, FS!UserCreate, FS!UserUpdateSpec, FS!UserDelete, FS!Vanish,
       FS!Deliver, FS!StartSync, FS!SyncNotFound, FS!SyncRecover, FS!SyncKnown, FS!Body,
       FS!SyncBody, FS!UpdateRemote, FS!UpdateStored, FS!UpdateConflict, FS!UpdateFailed,
       FS!UpdateEnds, FS!UpdateBase, FS!Updating, FS!BaseIsSameObject, FS!Accepts,
       FS!Restart, FS!ToIdle, FS!Publish, FS!Notifies, FS!Exists, FS!Tombstone, FS!NoInfo,
       FS!objVars, FS!cacheVars, FS!syncVars

LEMMA SyncInit == FS!Init => FS!Inv
BY SameSteps, SameInvariant, SyncAssumptions, SP!InvInit

LEMMA SyncStep == FS!Inv /\ FS!Next => FS!Inv'
BY SameNext, SameInvariant, SyncAssumptions, SP!InvStep

LEMMA SyncStutter ==
  ASSUME FS!Inv, UNCHANGED unqueuedVars, queued' \in BOOLEAN
  PROVE  FS!Inv'
<1>1. FS!TypeOK'
  BY DEF FS!Inv, FS!TypeOK, unqueuedVars
<1> QED
  BY <1>1 DEF FS!Inv, FS!VersionsOrdered, FS!IncarnationsOrdered, FS!StatusesOwned,
     FS!ExpectedAhead, FS!WorkerConsistent, FS!SpecNeverReverted, FS!Known, FS!Exists,
     unqueuedVars

-----------------------------------------------------------------------------
(* Statuses, ConfigMaps and their versions *)

LEMMA ConfigMapClosed ==
  ASSUME NEW by \in {"completion", "cleanup", "others"}
  PROVE  Closed(ConfigMap, by)
<1> SUFFICES ASSUME NEW o \in ConfigMap
             PROVE  /\ o.uid \in Nat /\ o.phase \in Phases
                    /\ LET d == [o EXCEPT !.phase = "deleting", !.by = by]
                       IN  d \in ConfigMap /\ d.uid = o.uid /\ d.phase = "deleting"
                    /\ LET g == [o EXCEPT !.phase = "gone"]
                       IN  g \in ConfigMap /\ g.uid = o.uid /\ g.phase = "gone"
  BY DEF Closed
<1> QED
  BY DEF ConfigMap, Phases

LEMMA WorldType ==
  ASSUME TypeOK, NEW b \in BOOLEAN
  PROVE  /\ World(b) \in WorldsOf(ConfigMap)
         /\ World(b).obj = cmRemote /\ World(b).watch = cmPending
BY DEF TypeOK, World, WorldsOf

\* x is a later version of the ConfigMap o.
Older(o, x) ==
  /\ x.uid = o.uid /\ x.owner = o.owner
  /\ o.phase # "alive" => x.phase # "alive"
  /\ ~Present(o) => ~Present(x)

\* What a Status says stays true of later versions of the ConfigMap, unless that is
\* deleted because of a completion that the Status does not have.
LEMMA SoundOlder ==
  ASSUME NEW v, NEW k, NEW o, NEW x, NEW c, Sound(v, k, o, c), Older(o, x),
         x.by = "completion" /\ x.uid = v.cm => o.by = "completion" \/ v.code # "None"
  PROVE  Sound(v, k, x, c)
BY DEF Sound, Older, Seen, Begun, Over

\* ... and when the local cache learns of a further version.
LEMMA SoundCached ==
  ASSUME NEW v, NEW k, NEW o, NEW c, NEW p, Sound(v, k, o, c), c.uid = o.uid => p.uid = o.uid
  PROVE  Sound(v, k, o, p)
BY DEF Sound

LEMMA FollowsItself == \A v : Follows(v, v)
BY DEF Follows

LEMMA NilSound ==
  ASSUME NEW k, NEW o, NEW c, o.uid = 0 => o.by # "completion"
  PROVE  Sound(NilStatus, k, o, c)
<1>1. /\ NilStatus.state = "None" /\ NilStatus.cm = 0 /\ NilStatus.code = "None"
      /\ NilStatus.attempt = 0 /\ NilStatus.retries = 0 /\ ~NilStatus.scheduled
  BY DEF NilStatus, NewAttempt
<1> QED
  BY <1>1, RetryPolicyAssumption DEF Sound, Seen, Begun, Over

\* What a Delete does to the ConfigMap u.
LEMMA DeleteCall ==
  ASSUME NEW w \in WorldsOf(ConfigMap), NEW u, NEW by \in {"completion", "cleanup", "others"},
         NEW r \in DeleteResults(w, u, by)
  PROVE  /\ r.ok \in BOOLEAN
         /\ r.w \in WorldsOf(ConfigMap) /\ Onwards(w, r.w) /\ Older(w.obj, r.w.obj)
         /\ r.w.obj.by # w.obj.by => /\ Present(w.obj) /\ w.obj.uid = u
                                     /\ r.w.obj.by = by
         /\ r.ok /\ r.w.obj.uid = u => r.w.obj.phase # "alive"
         /\ Confirmed(r, u) => ~Present(r.w.obj)
<1> DEFINE m == Marked(w, by)
           d == [w.obj EXCEPT !.phase = "deleting", !.by = by]
           g == [m.obj EXCEPT !.phase = "gone"]
<1>1. \/ r.w = w
      \/ Present(w.obj) /\ w.obj.uid = u /\ r.w \in {m, Erased(m)}
  BY DeleteEnds
<1>2. w.obj \in ConfigMap /\ m \in WorldsOf(ConfigMap)
  BY ConfigMapClosed, MarkedOnwards DEF WorldsOf
<1>3. /\ d.uid = w.obj.uid /\ d.owner = w.obj.owner /\ d.phase = "deleting" /\ d.by = by
  BY <1>2 DEF ConfigMap
<1>4. m.obj = IF w.obj.phase = "alive" THEN d ELSE w.obj
  <2> HIDE DEF d
  <2>1. w.obj.phase = "alive" => m = Store(w, d)
    BY DEF Marked, d
  <2>2. w.obj.phase # "alive" => m = w
    BY DEF Marked
  <2>3. Store(w, d).obj = d
    BY DEF Store, WorldsOf
  <2> QED
    BY <2>1, <2>2, <2>3
<1> HIDE DEF d
<1>5. Older(w.obj, m.obj) /\ (m.obj.by # w.obj.by => m.obj.by = by)
  BY <1>3, <1>4 DEF Older, Present
<1>6. m.obj \in ConfigMap
  BY <1>2 DEF WorldsOf
<1> HIDE DEF m
<1>7. g.uid = m.obj.uid /\ g.owner = m.obj.owner /\ g.phase = "gone" /\ g.by = m.obj.by
  BY <1>6 DEF ConfigMap
<1>8. Erased(m).obj = g
  BY <1>2 DEF Erased, Store, WorldsOf
<1> HIDE DEF g
<1>9. Older(w.obj, Erased(m).obj) /\ (Erased(m).obj.by # w.obj.by => Erased(m).obj.by = by)
  BY <1>5, <1>7, <1>8 DEF Older, Present
<1>10. Older(w.obj, w.obj)
  BY DEF Older
<1>11. /\ r.ok \in BOOLEAN
       /\ r.w \in WorldsOf(ConfigMap) /\ Onwards(w, r.w)
       /\ r.ok /\ r.w.obj.uid = u => r.w.obj.phase # "alive"
       /\ Confirmed(r, u) => ~Present(r.w.obj)
  BY ConfigMapClosed, DeleteOnwards
<1> QED
  BY <1>1, <1>5, <1>9, <1>10, <1>11

-----------------------------------------------------------------------------
(* What a sync knows, and how it ends *)

\* The worker's Framework is the present one.
Live == FS!Exists(remote) /\ f.uid = remote.uid

\* x is the world after calls of this sync that concern the same ConfigMap.
Called(b, x) ==
  /\ x \in WorldsOf(ConfigMap)
  /\ Onwards(World(b), x)
  /\ Older(cmRemote, x.obj)
  /\ x.obj.by = "completion" /\ cmRemote.by # "completion" =>
       Present(cmRemote) /\ val.state = "DeletionPending" /\ cmRemote.uid = val.cm

\* The ApiServer may be at the world x after the calls of a sync.
Reached(x) ==
  /\ x.obj \in ConfigMap /\ x.watch \subseteq ConfigMap
  /\ InOrder(x.obj, cmCached, x.watch)
  /\ x.obj.uid = 0 => x.obj.by # "completion"
  /\ Live => Sound(val, remote.uid, x.obj, cmCached)

\* The sync leaves the ApiServer at x and the Status at v.
Ends(x, v) ==
  /\ Reached(x) /\ Enter(x)
  /\ v \in Status
  /\ Live => Sound(v, remote.uid, x.obj, cmCached) /\ Follows(val, v)
  /\ \E again, wait \in BOOLEAN : Goto(v, again, wait)

\* A sync acts on the persisted Status of its Framework, if that is still there.
LEMMA BodyFacts ==
  ASSUME Inv, pc = "body"
  PROVE  /\ val \in Status
         /\ FS!Exists(f) /\ expected.uid = f.uid
         /\ Live => /\ remote.status.val = val
                    /\ Sound(val, remote.uid, cmRemote, cmCached)
         /\ FS!Exists(remote) /\ ~Live => remote.status.val = NilStatus
<1>1. val \in Status
  BY DEF val, Inv, TypeOK, FS!TypeOK, FS!Version, FS!StatusRec
<1>2. FS!Exists(f) /\ expected.uid = f.uid /\ f.status = expected.status /\ expected.synced
  BY DEF Inv, FS!Inv, FS!WorkerConsistent
<1>3. Live => remote.status.val = val
  BY <1>2 DEF val, AnyLeq, Live, Inv, FS!Inv, FS!ExpectedAhead
<1>4. Live => Sound(val, remote.uid, cmRemote, cmCached)
  BY DEF Live, Inv, Fit
<1>5. FS!Exists(remote) /\ ~Live => remote.status.val = NilStatus
  BY <1>2 DEF Live, Inv, Fresh, FS!Exists
<1> QED
  BY <1>1, <1>2, <1>3, <1>4, <1>5

LEMMA NoCall ==
  ASSUME Inv, NEW b \in BOOLEAN
  PROVE  /\ Called(b, World(b))
         /\ UNCHANGED cmVars => Enter(World(b))
<1>1. World(b) \in WorldsOf(ConfigMap) /\ World(b).obj = cmRemote /\ World(b).watch = cmPending
  BY WorldType DEF Inv
<1>2. Onwards(World(b), World(b))
  BY <1>1, ConfigMapClosed, StayOnwards
<1> QED
  BY <1>1, <1>2 DEF Called, Older, Enter, cmVars

LEMMA CalledReached ==
  ASSUME Inv, pc = "body", NEW b \in BOOLEAN, NEW x, Called(b, x)
  PROVE  Reached(x) /\ x.obj.uid = cmRemote.uid
<1>1. World(b) \in WorldsOf(ConfigMap) /\ World(b).obj = cmRemote /\ World(b).watch = cmPending
  BY WorldType DEF Inv
<1>2. x \in WorldsOf(ConfigMap) /\ x.obj \in ConfigMap /\ x.watch \subseteq ConfigMap
  BY DEF Called, WorldsOf
<1>3. InOrder(x.obj, cmCached, x.watch)
  <2>1. cmCached \in ConfigMap /\ Closed(ConfigMap, "others")
    BY ConfigMapClosed DEF Inv, TypeOK
  <2>2. InOrder(World(b).obj, cmCached, World(b).watch) /\ Onwards(World(b), x)
    BY <1>1 DEF Inv, Called
  <2> QED
    BY <1>1, <1>2, <2>1, <2>2, InOrderOnwards
<1>4. x.obj.uid = cmRemote.uid
  BY DEF Called, Older
<1>5. x.obj.uid = 0 => x.obj.by # "completion"
  BY <1>4 DEF Called, Inv, InOrder
<1>6. ASSUME Live PROVE Sound(val, remote.uid, x.obj, cmCached)
  <2>1. Sound(val, remote.uid, cmRemote, cmCached)
    BY <1>6, BodyFacts
  <2>2. val.state = "DeletionPending" => val.code # "None"
    BY <2>1 DEF Sound
  <2>3. Older(cmRemote, x.obj)
    BY DEF Called
  <2>4. x.obj.by = "completion" => cmRemote.by = "completion" \/ val.code # "None"
    BY <2>2 DEF Called
  <2> QED
    BY <2>1, <2>3, <2>4, SoundOlder
<1> QED
  BY <1>2, <1>3, <1>4, <1>5, <1>6 DEF Reached

\* A further Delete, which only the DeletionPending state makes for a completion.
LEMMA DeleteCalled ==
  ASSUME Inv, NEW b \in BOOLEAN, NEW w, Called(b, w), NEW u,
         NEW by \in {"completion", "cleanup"},
         by = "completion" => val.state = "DeletionPending" /\ u = val.cm /\ w = World(b),
         NEW r \in DeleteResults(w, u, by)
  PROVE  /\ r.ok \in BOOLEAN /\ Called(b, r.w)
         /\ r.ok /\ r.w.obj.uid = u => r.w.obj.phase # "alive"
         /\ Confirmed(r, u) => ~Present(r.w.obj)
<1>1. World(b) \in WorldsOf(ConfigMap) /\ World(b).obj = cmRemote
  BY WorldType DEF Inv
<1>2. w \in WorldsOf(ConfigMap) /\ Onwards(World(b), w) /\ Older(cmRemote, w.obj)
  BY DEF Called
<1>3. /\ r.ok \in BOOLEAN
      /\ r.w \in WorldsOf(ConfigMap) /\ Onwards(w, r.w) /\ Older(w.obj, r.w.obj)
      /\ r.w.obj.by # w.obj.by => Present(w.obj) /\ w.obj.uid = u /\ r.w.obj.by = by
      /\ r.ok /\ r.w.obj.uid = u => r.w.obj.phase # "alive"
      /\ Confirmed(r, u) => ~Present(r.w.obj)
  BY <1>2, DeleteCall
<1>4. Onwards(World(b), r.w)
  BY <1>1, <1>2, <1>3, ConfigMapClosed, OnwardsTransitive
<1>5. Older(cmRemote, r.w.obj)
  BY <1>2, <1>3 DEF Older
<1>6. r.w.obj.by = "completion" /\ cmRemote.by # "completion" =>
        Present(cmRemote) /\ val.state = "DeletionPending" /\ cmRemote.uid = val.cm
  <2>1. CASE r.w.obj.by = w.obj.by
    BY <2>1 DEF Called
  <2>2. CASE r.w.obj.by # w.obj.by /\ by = "completion"
    BY <1>1, <1>3, <2>2
  <2>3. CASE r.w.obj.by # w.obj.by /\ by = "cleanup"
    BY <1>3, <2>3
  <2> QED
    BY <2>1, <2>2, <2>3
<1> QED
  BY <1>3, <1>4, <1>5, <1>6 DEF Called

LEMMA CleanupCalled ==
  ASSUME Inv, NEW b \in BOOLEAN, NEW r \in Cleanups(World(b))
  PROVE  r.ok \in BOOLEAN /\ Called(b, r.w)
<1>1. Called(b, World(b))
  BY NoCall
<1>2. CASE r \in DeleteResults(World(b), cmCached.uid, "cleanup")
  BY <1>1, <1>2, DeleteCalled
<1>3. CASE r = [w |-> World(b), ok |-> TRUE]
  BY <1>1, <1>3
<1> QED
  BY <1>2, <1>3 DEF Cleanups

-----------------------------------------------------------------------------
(* What a Status may become *)

\* The transitions a client may see that this controller makes.
LEMMA Exposed ==
  /\ \A s \in {"CreationPending", "CreationRequested", "Preparing", "Running",
               "DeletionPending", "DeletionRequested", "Deleting"} :
       "AttemptCompleted" \in Lifecycle!Exposes(s)
  /\ "CreationPending" \in Lifecycle!Exposes("None")
  /\ "CreationRequested" \in Lifecycle!Exposes("CreationPending")
  /\ {"Preparing", "Running", "DeletionPending", "Deleting"}
       \subseteq Lifecycle!Exposes("CreationRequested")
  /\ {"Running", "DeletionPending", "Deleting"} \subseteq Lifecycle!Exposes("Preparing")
  /\ {"DeletionPending", "Deleting"} \subseteq Lifecycle!Exposes("Running")
  /\ {"DeletionRequested", "Deleting"} \subseteq Lifecycle!Exposes("DeletionPending")
  /\ "Deleting" \in Lifecycle!Exposes("DeletionRequested")
  /\ {"CreationPending", "Completed"} \subseteq Lifecycle!Exposes("AttemptCompleted")
<1> DEFINE T(s) == Lifecycle!Transitions[s]
<1>1. \A S : S \subseteq Lifecycle!Further(S)
  BY DEF Lifecycle!Further
<1>2. \A s : T(s) \subseteq Lifecycle!Exposes(s)
  BY <1>1 DEF Lifecycle!Exposes
<1>3. \A S : "Preparing" \in S => T("Preparing") \subseteq Lifecycle!Further(S)
  BY DEF Lifecycle!Further, Lifecycle!Passing
<1>4. /\ T("CreationPending") = {"CreationRequested", "AttemptCompleted"}
      /\ T("CreationRequested") = {"Preparing", "Deleting", "AttemptCompleted"}
      /\ T("Preparing") = {"Running", "DeletionPending", "Deleting", "AttemptCompleted"}
      /\ T("Running") = {"DeletionPending", "Deleting", "AttemptCompleted"}
      /\ T("DeletionPending") = {"DeletionRequested", "Deleting", "AttemptCompleted"}
      /\ T("DeletionRequested") = {"Deleting", "AttemptCompleted"}
      /\ T("Deleting") = {"AttemptCompleted"}
      /\ T("AttemptCompleted") = {"CreationPending", "Completed"}
      /\ T("None") = {"CreationPending"}
  BY DEF Lifecycle!Transitions
<1> HIDE DEF T
<1>5. "Preparing" \in Lifecycle!Further(Lifecycle!Further(T("CreationRequested")))
  BY <1>1, <1>4
<1>6. T("Preparing") \subseteq Lifecycle!Exposes("CreationRequested")
  BY <1>3, <1>5 DEF Lifecycle!Exposes, T
<1> QED
  BY <1>2, <1>4, <1>6

\* u is v in the state s: the attempt is the same, and so is its outcome if it has one.
Move(v, u, s) ==
  /\ u \in Status /\ u.state = s
  /\ u.attempt = v.attempt /\ u.retries = v.retries
  /\ u.cm = v.cm /\ u.scheduled = v.scheduled
  /\ v.code # "None" => u.code = v.code

LEMMA MovedStatus ==
  ASSUME NEW v \in Status, NEW s \in States
  PROVE  Move(v, [v EXCEPT !.state = s], s) /\ [v EXCEPT !.state = s].code = v.code
<1> DEFINE u == [v EXCEPT !.state = s]
<1>1. /\ u \in Status /\ u.code = v.code /\ u.state = s /\ u.cm = v.cm
      /\ u.attempt = v.attempt /\ u.retries = v.retries /\ u.scheduled = v.scheduled
  BY DEF Status
<1> HIDE DEF u
<1>2. Move(v, u, s) /\ u.code = v.code
  BY <1>1 DEF Move
<1> QED
  BY <1>2 DEF u

LEMMA OutcomeStatus ==
  ASSUME NEW v \in Status, NEW s \in States, NEW code \in Codes \ {"None"}
  PROVE  LET u == [v EXCEPT !.state = s, !.code = CodeOr(v, code)]
         IN  Move(v, u, s) /\ u.code # "None"
<1> DEFINE kept == CodeOr(v, code)
           u == [v EXCEPT !.state = s, !.code = kept]
<1>1. kept \in Codes /\ kept # "None" /\ (v.code # "None" => kept = v.code)
  BY DEF CodeOr, Status
<1> HIDE DEF kept
<1>2. /\ u \in Status /\ u.code = kept /\ u.state = s /\ u.cm = v.cm
      /\ u.attempt = v.attempt /\ u.retries = v.retries /\ u.scheduled = v.scheduled
  BY <1>1 DEF Status
<1> HIDE DEF u
<1>3. Move(v, u, s) /\ u.code # "None"
  BY <1>1, <1>2 DEF Move
<1> QED
  BY <1>3 DEF u, kept

LEMMA MoveTransitive ==
  ASSUME NEW v, NEW u, NEW t, NEW s, NEW r, Move(v, u, s), Move(u, t, r)
  PROVE  Move(v, t, r)
BY DEF Move

\* The Status may move to u in the state s, with the ConfigMap as it is in the world x.
MayMove(x, s, u) ==
  /\ s = val.state => u.code = val.code
  /\ s # val.state =>
       /\ s \in Lifecycle!Exposes(val.state)
       /\ s \in Seen \cup Over
       /\ s \in {"Preparing", "Running"} => u.code = val.code
       /\ s \notin {"Preparing", "Running"} => u.code # "None"
       /\ s \in Seen => val.state \in Begun /\ cmCached.uid = cmRemote.uid
       /\ s \in {"DeletionRequested", "Deleting"} => x.obj.phase # "alive"
       /\ s \in Over => ~Present(x.obj) \/ x.obj.owner # remote.uid
       /\ ~val.scheduled

\* A sync that stays with the ConfigMap and the attempt that it found.
LEMMA MoveEnds ==
  ASSUME Inv, pc = "body", NEW b \in BOOLEAN, NEW x, Called(b, x), Enter(x),
         NEW s, NEW u, Move(val, u, s),
         NEW again \in BOOLEAN, NEW wait \in BOOLEAN, Goto(u, again, wait),
         Live => MayMove(x, s, u)
  PROVE  Ends(x, u)
<1>1. Reached(x) /\ x.obj.uid = cmRemote.uid /\ u \in Status
  BY CalledReached DEF Move
<1>2. CASE ~Live
  BY <1>1, <1>2 DEF Ends
<1>3. CASE Live /\ s = val.state
  <2>1. Sound(val, remote.uid, x.obj, cmCached)
    BY <1>1, <1>3 DEF Reached
  <2>2. Sound(u, remote.uid, x.obj, cmCached)
    BY <1>3, <2>1 DEF MayMove, Move, Sound, DecisionOf
  <2>3. Follows(val, u)
    BY <1>3 DEF Follows, Move, MayMove
  <2> QED
    BY <1>1, <2>2, <2>3 DEF Ends
<1>4. CASE Live /\ s # val.state
  <2> USE DEF MayMove
  <2>1. Sound(val, remote.uid, x.obj, cmCached)
    BY <1>1, <1>4 DEF Reached
  <2>2. u.code \in Codes /\ u.state = s
    BY DEF Move, Status
  <2>3. Sound(u, remote.uid, x.obj, cmCached)
    <3>1. s \notin {"None", "CreationPending", "CreationRequested"}
      BY <1>4 DEF Seen, Over
    <3>2. s \in Seen => val.cm = x.obj.uid /\ cmCached.uid = x.obj.uid
      BY <1>1, <1>4, <2>1 DEF Sound
    <3>3. u.code = "None" => val.code = "None"
      BY DEF Move
    <3> QED
      BY <1>4, <2>1, <2>2, <3>1, <3>2, <3>3 DEF Move, Sound, Seen, Begun, Over
  <2>4. Progresses(val, u)
    BY <1>4, <2>2 DEF Progresses, Move, Seen, Over
  <2>5. Follows(val, u)
    BY <2>4 DEF Follows
  <2> QED
    BY <1>1, <2>3, <2>5 DEF Ends
<1> QED
  BY <1>2, <1>3, <1>4

-----------------------------------------------------------------------------
(* Every sync ends so *)

\* A sync that leaves the Status alone.
LEMMA StayEnds ==
  ASSUME Inv, pc = "body", NEW b \in BOOLEAN, NEW x, Called(b, x), Enter(x),
         NEW again \in BOOLEAN, NEW wait \in BOOLEAN, Goto(val, again, wait)
  PROVE  Ends(x, val)
<1>1. Move(val, val, val.state)
  BY BodyFacts DEF Move
<1> QED
  BY <1>1, MoveEnds DEF MayMove

LEMMA ErrorEnds ==
  ASSUME Inv, pc = "body", NEW b \in BOOLEAN, NEW x, Called(b, x), Error(x)
  PROVE  Ends(x, val)
<1>1. Enter(x) /\ Goto(val, TRUE, FALSE)
  BY DEF Error, Continue
<1> QED
  BY <1>1, StayEnds

\* The attempt completes by force only when no ConfigMap of the Framework is left.
LEMMA CompleteByForceEnds ==
  ASSUME Inv, pc = "body", HasConfigMap, NEW b \in BOOLEAN, NEW x, Called(b, x), Enter(x),
         Live => ~Present(x.obj) \/ x.obj.owner # remote.uid,
         NEW code \in Codes \ {"None"}, CompleteByForce(code)
  PROVE  \E y, u : Ends(y, u)
<1> DEFINE u == [val EXCEPT !.state = "AttemptCompleted", !.code = CodeOr(val, code)]
<1>1. val \in Status /\ (Live => Sound(val, remote.uid, cmRemote, cmCached))
  BY BodyFacts
<1>2. Move(val, u, "AttemptCompleted") /\ u.code # "None"
  <2>1. "AttemptCompleted" \in States
    BY DEF States
  <2> QED
    BY <1>1, <2>1, OutcomeStatus
<1>3. Goto(u, TRUE, FALSE)
  BY DEF CompleteByForce, Continue
<1> HIDE DEF u
<1>4. /\ val.state # "AttemptCompleted"
      /\ "AttemptCompleted" \in Lifecycle!Exposes(val.state)
      /\ Live => ~val.scheduled
  <2>1. val.state \in {"CreationPending", "CreationRequested", "Preparing", "Running",
                       "DeletionPending", "DeletionRequested", "Deleting"}
    BY <1>1 DEF HasConfigMap, Status, States
  <2>2. Live /\ val.scheduled => val.state = "AttemptCompleted"
    BY <1>1 DEF Sound
  <2> QED
    BY <2>1, <2>2, Exposed
<1>5. Ends(x, u)
  BY <1>2, <1>3, <1>4, MoveEnds DEF MayMove, Seen, Over
<1> QED
  BY <1>5

LEMMA NewFrameworkEnds ==
  ASSUME Inv, pc = "body", SyncNewFramework
  PROVE  \E y, u : Ends(y, u)
<1>1. val.state = "None" /\ Goto(NewAttempt(0, 0), TRUE, FALSE)
  BY DEF SyncNewFramework, Continue
<1>2. Called(TRUE, World(TRUE)) /\ Enter(World(TRUE))
  BY NoCall DEF SyncNewFramework
<1>3. Reached(World(TRUE)) /\ World(TRUE).obj = cmRemote
  BY <1>2, CalledReached, WorldType DEF Inv
<1> DEFINE u == NewAttempt(0, 0)
<1>4. /\ u \in Status /\ u.state = "CreationPending" /\ u.cm = 0 /\ u.code = "None"
      /\ u.attempt = 0 /\ u.retries = 0 /\ ~u.scheduled
  BY DEF NewAttempt, Status, States, Codes
<1> HIDE DEF u
<1>5. Sound(u, remote.uid, cmRemote, cmCached)
  BY <1>4, RetryPolicyAssumption DEF Sound, Seen, Begun, Over, Inv
<1>6. Follows(val, u)
  BY <1>1, <1>4, Exposed DEF Follows, Starts
<1>7. Ends(World(TRUE), u)
  BY <1>1, <1>2, <1>3, <1>4, <1>5, <1>6 DEF Ends, u
<1> QED
  BY <1>7

LEMMA CompletedEnds ==
  ASSUME Inv, pc = "body", NEW b \in BOOLEAN, SyncCompleted(World(b))
  PROVE  \E y, u : Ends(y, u)
<1>1. Called(b, World(b)) /\ Enter(World(b))
  BY NoCall DEF SyncCompleted
<1>2. PICK again \in BOOLEAN, wait \in BOOLEAN : Goto(val, again, wait)
  BY DEF SyncCompleted, Continue, Wait
<1> QED
  BY <1>1, <1>2, StayEnds

\* A retry that is accountable is within MaxRetryCount, and without
\* FancyRetryPolicy every retry is accountable.
LEMMA AccountableRetry ==
  ASSUME NEW v, DecisionOf(v).ShouldRetry
  PROVE  /\ DecisionOf(v).IsAccountable /\ MaxRetryCount >= 0 => v.retries < MaxRetryCount
         /\ ~FancyRetryPolicy => DecisionOf(v).IsAccountable
<1> DEFINE rp == [FancyRetryPolicy |-> FancyRetryPolicy, MaxRetryCount |-> MaxRetryCount]
           ct == CompletionTypeOf(v.code)
           d == RP!ShouldRetry(rp, v.retries, v.code, ct, 0)
<1>1. DecisionOf(v) = d
  BY DEF DecisionOf
<1>2. /\ MaxRetryCount \in Int /\ rp.MaxRetryCount = MaxRetryCount
      /\ rp.FancyRetryPolicy = FancyRetryPolicy
  BY RetryPolicyAssumption
<1> HIDE DEF rp, ct
<1> DEFINE fancy == rp.FancyRetryPolicy /\ RP!IsFailed(ct)
           conflict == IF "Conflict" \in ct.attributes THEN 0 ELSE 0
<1>3. \/ fancy /\ ~d.IsAccountable
      \/ d = RP!NormalRetryPolicy(rp, v.retries, ct)
  <2>1. CASE v.code \in RP!NeverRetriedCodes
    <3>1. d = RP!Decision(FALSE, TRUE, 0)
      BY <2>1 DEF RP!ShouldRetry
    <3> QED
      BY <1>1, <3>1 DEF RP!Decision
  <2>2. CASE v.code \notin RP!NeverRetriedCodes /\ fancy /\ "Transient" \in ct.attributes
    <3>1. d = RP!Decision(TRUE, FALSE, conflict)
      BY <2>2 DEF RP!ShouldRetry
    <3> QED
      BY <2>2, <3>1 DEF RP!Decision
  <2>3. CASE /\ v.code \notin RP!NeverRetriedCodes /\ fancy
             /\ "Transient" \notin ct.attributes /\ "Permanent" \in ct.attributes
    <3>1. d = RP!Decision(FALSE, TRUE, 0)
      BY <2>3 DEF RP!ShouldRetry
    <3> QED
      BY <1>1, <3>1 DEF RP!Decision
  <2>4. CASE /\ v.code \notin RP!NeverRetriedCodes
             /\ fancy => "Transient" \notin ct.attributes /\ "Permanent" \notin ct.attributes
    BY <2>4 DEF RP!ShouldRetry
  <2> QED
    BY <2>1, <2>2, <2>3, <2>4
<1>4. d = RP!NormalRetryPolicy(rp, v.retries, ct) =>
        /\ d.IsAccountable
        /\ \/ MaxRetryCount = RP!ExtendedUnlimitedValue
           \/ MaxRetryCount = RP!UnlimitedValue
           \/ v.retries < MaxRetryCount
  BY <1>1, <1>2 DEF RP!NormalRetryPolicy, RP!Decision
<1> QED
  BY <1>1, <1>2, <1>3, <1>4 DEF RP!ExtendedUnlimitedValue, RP!UnlimitedValue

\* attemptToRetryFramework, to another attempt.
LEMMA RetryEnds ==
  ASSUME Inv, pc = "body", val.state = "AttemptCompleted", WillRetry, UNCHANGED cmVars,
         NEW n, n = val.retries + IF RetryDecision.IsAccountable THEN 1 ELSE 0,
         Continue(NewAttempt(val.attempt + 1, n), TRUE)
  PROVE  \E y, u : Ends(y, u)
<1> DEFINE u == NewAttempt(val.attempt + 1, n)
<1>1. Called(TRUE, World(TRUE)) /\ Enter(World(TRUE))
  BY NoCall
<1>2. Reached(World(TRUE)) /\ World(TRUE).obj = cmRemote
  BY <1>1, CalledReached, WorldType DEF Inv
<1>3. /\ val \in Status /\ val.retries \in Nat /\ val.attempt \in Nat
      /\ MaxRetryCount \in Int
      /\ Live => Sound(val, remote.uid, cmRemote, cmCached)
  BY BodyFacts, RetryPolicyAssumption DEF Status
<1>4. RetryDecision = DecisionOf(val)
  BY DEF RetryDecision, DecisionOf
<1>5. n \in {val.retries, val.retries + 1} /\ n \in Nat
      /\ (RetryDecision.IsAccountable <=> n = val.retries + 1)
  BY <1>3
<1>6. /\ u \in Status /\ u.state = "CreationPending" /\ u.cm = 0 /\ u.code = "None"
      /\ u.attempt = val.attempt + 1 /\ u.retries = n /\ ~u.scheduled
  BY <1>3, <1>5 DEF NewAttempt, Status, States, Codes
<1>7. Goto(u, TRUE, FALSE)
  BY DEF Continue
<1> HIDE DEF u
<1>8. ASSUME Live PROVE Sound(u, remote.uid, cmRemote, cmCached) /\ Follows(val, u)
  <2>1. /\ val.retries <= val.attempt
        /\ MaxRetryCount >= 0 => val.retries <= MaxRetryCount
        /\ ~FancyRetryPolicy => val.retries = val.attempt
        /\ DecisionOf(val).ShouldRetry
    BY <1>3, <1>4, <1>8 DEF Sound, WillRetry
  <2>2. /\ DecisionOf(val).IsAccountable /\ MaxRetryCount >= 0 => val.retries < MaxRetryCount
        /\ ~FancyRetryPolicy => DecisionOf(val).IsAccountable
    BY <2>1, AccountableRetry
  <2>3. /\ n <= val.attempt + 1
        /\ MaxRetryCount >= 0 => n <= MaxRetryCount
        /\ ~FancyRetryPolicy => n = val.attempt + 1
    BY <1>3, <1>4, <1>5, <2>1, <2>2
  <2>4. Sound(u, remote.uid, cmRemote, cmCached)
    BY <1>6, <2>3 DEF Sound, Seen, Begun, Over, Inv
  <2>5. Follows(val, u)
    BY <1>6, Exposed DEF Follows, Starts
  <2> QED
    BY <2>4, <2>5
<1>9. Ends(World(TRUE), u)
  BY <1>1, <1>2, <1>6, <1>7, <1>8 DEF Ends
<1> QED
  BY <1>9

LEMMA AttemptCompletedEnds ==
  ASSUME Inv, pc = "body", SyncAttemptCompleted
  PROVE  \E y, u : Ends(y, u)
<1>1. val.state = "AttemptCompleted" /\ UNCHANGED cmVars
  BY DEF SyncAttemptCompleted
<1>2. Called(TRUE, World(TRUE)) /\ Enter(World(TRUE))
  BY <1>1, NoCall
<1>3. Reached(World(TRUE)) /\ World(TRUE).obj = cmRemote
  BY <1>2, CalledReached, WorldType DEF Inv
<1>4. val \in Status /\ (Live => Sound(val, remote.uid, cmRemote, cmCached))
  BY BodyFacts
<1>5. ASSUME ~WillRetry, Wait([val EXCEPT !.state = "Completed"])
      PROVE  \E y, u : Ends(y, u)
  <2> DEFINE u == [val EXCEPT !.state = "Completed"]
  <2>1. Move(val, u, "Completed") /\ u.code = val.code
    <3>1. "Completed" \in States
      BY DEF States
    <3> QED
      BY <1>4, <3>1, MovedStatus
  <2>2. Goto(u, FALSE, TRUE)
    BY <1>5 DEF Wait
  <2> HIDE DEF u
  <2>3. ~val.scheduled /\ "Completed" \in Lifecycle!Exposes(val.state)
    BY <1>1, <1>5, Exposed DEF WillRetry
  <2>4. Live => /\ val.code # "None"
                /\ ~Present(cmRemote) \/ cmRemote.owner # remote.uid
    BY <1>1, <1>4 DEF Sound, Over
  <2>5. Ends(World(TRUE), u)
    BY <1>1, <1>2, <1>3, <2>1, <2>2, <2>3, <2>4, MoveEnds DEF MayMove, Seen, Over
  <2> QED
    BY <2>5
<1>6. ASSUME WillRetry, Wait([val EXCEPT !.scheduled = TRUE])
      PROVE  \E y, u : Ends(y, u)
  <2> DEFINE u == [val EXCEPT !.scheduled = TRUE]
  <2>1. /\ u \in Status /\ u.state = val.state /\ u.attempt = val.attempt
        /\ u.retries = val.retries /\ u.cm = val.cm /\ u.code = val.code
    BY <1>4 DEF Status
  <2>2. Goto(u, FALSE, TRUE)
    BY <1>6 DEF Wait
  <2> HIDE DEF u
  <2>3. RetryDecision = DecisionOf(val) /\ DecisionOf(u) = DecisionOf(val)
    BY <2>1 DEF RetryDecision, DecisionOf
  <2>4. Live => DecisionOf(val).ShouldRetry
    BY <1>4, <1>6, <2>3 DEF WillRetry, Sound
  <2>5. Live => Sound(u, remote.uid, cmRemote, cmCached)
    BY <1>1, <1>4, <2>1, <2>3, <2>4 DEF Sound
  <2>6. Follows(val, u)
    BY <2>1 DEF Follows
  <2>7. Ends(World(TRUE), u)
    BY <1>2, <1>3, <2>1, <2>2, <2>5, <2>6 DEF Ends
  <2> QED
    BY <2>7
<1>7. ASSUME WillRetry,
             Continue(NewAttempt(val.attempt + 1,
                        val.retries + IF RetryDecision.IsAccountable THEN 1 ELSE 0), TRUE)
      PROVE  \E y, u : Ends(y, u)
  BY <1>1, <1>7, RetryEnds
<1> QED
  BY <1>5, <1>6, <1>7 DEF SyncAttemptCompleted

LEMMA CleanupFailedEnds ==
  ASSUME Inv, pc = "body", NEW b \in BOOLEAN, SyncCleanupFailed(World(b))
  PROVE  \E y, u : Ends(y, u)
<1>1. PICK r \in Cleanups(World(b)) : Error(r.w)
  BY DEF SyncCleanupFailed
<1>2. Called(b, r.w)
  BY CleanupCalled
<1> QED
  BY <1>1, <1>2, ErrorEnds

LEMMA CompleteAfterDeleteEnds ==
  ASSUME Inv, pc = "body", HasConfigMap, NEW b \in BOOLEAN, NEW w, Called(b, w), NEW u,
         NEW code \in Codes \ {"None"}, CompleteAfterDelete(w, u, code)
  PROVE  \E y, t : Ends(y, t)
<1>1. PICK r \in DeleteResults(w, u, "cleanup") :
        \/ Confirmed(r, u) /\ Enter(r.w) /\ CompleteByForce(code)
        \/ ~Confirmed(r, u) /\ Error(r.w)
  BY DEF CompleteAfterDelete
<1>2. Called(b, r.w) /\ (Confirmed(r, u) => ~Present(r.w.obj))
  BY DeleteCalled
<1> QED
  BY <1>1, <1>2, CompleteByForceEnds, ErrorEnds

LEMMA CreationRequestedEnds ==
  ASSUME Inv, pc = "body", HasConfigMap, NEW b \in BOOLEAN, NEW w, Called(b, w),
         SyncCreationRequested(w)
  PROVE  \E y, u : Ends(y, u)
<1>1. {"StopFrameworkRequested", "ConfigMapLocalCacheCreationTimeout"} \subseteq Codes \ {"None"}
  BY DEF Codes
<1>2. CASE \E code \in {"StopFrameworkRequested", "ConfigMapLocalCacheCreationTimeout"} :
             CompleteAfterDelete(w, val.cm, code)
  BY <1>1, <1>2, CompleteAfterDeleteEnds
<1>3. CASE Wait(val) /\ Enter(w)
  <2>1. Goto(val, FALSE, TRUE)
    BY <1>3 DEF Wait
  <2> QED
    BY <1>3, <2>1, StayEnds
<1> QED
  BY <1>2, <1>3 DEF SyncCreationRequested

\* createConfigMap stored the ConfigMap, whether or not it was told so.
LEMMA CreatedReached ==
  ASSUME Inv, pc = "body", NEW b \in BOOLEAN, NEW w, Called(b, w),
         val.state = "CreationPending"
  PROVE  LET x == Store(w, NewConfigMap(w))
         IN  /\ Reached(x) /\ x.obj.uid \in Nat \ {0}
             /\ x.obj.by = "nobody" /\ x.obj.phase = "alive"
<1> DEFINE n == NewConfigMap(w)
<1>1. w \in WorldsOf(ConfigMap) /\ w.obj \in ConfigMap /\ w.watch \subseteq ConfigMap
  BY DEF Called, WorldsOf
<1>2. Reached(w) /\ f.uid \in Nat /\ cmCached \in ConfigMap
  BY CalledReached DEF Inv, TypeOK, FS!TypeOK, FS!Version
<1>3. n \in ConfigMap /\ n.uid = w.obj.uid + 1 /\ n.by = "nobody" /\ n.phase = "alive"
  BY <1>1, <1>2 DEF NewConfigMap, ConfigMap, Phases
<1>4. n.uid \in Nat \ {0}
  BY <1>1, <1>3 DEF ConfigMap
<1> HIDE DEF n
<1>5. Store(w, n).obj = n /\ Store(w, n).watch = w.watch \cup {n}
  BY <1>1 DEF Store, WorldsOf
<1>6. InOrder(n, cmCached, w.watch \cup {n})
  <2>1. \A p \in w.watch \cup {w.obj, cmCached} : p.uid \in Nat /\ p.phase \in Phases
    BY <1>1, <1>2 DEF ConfigMap
  <2>2. InOrder(w.obj, cmCached, w.watch)
    BY <1>2 DEF Reached
  <2> QED
    BY <1>3, <2>1, <2>2, InOrderCreated
<1>7. Live => Sound(val, remote.uid, n, cmCached)
  BY <1>2, <1>3 DEF Reached, Sound, Seen, Begun, Over
<1>8. Reached(Store(w, n))
  BY <1>1, <1>3, <1>4, <1>5, <1>6, <1>7 DEF Reached
<1> QED
  BY <1>3, <1>4, <1>5, <1>8 DEF n

LEMMA CreationPendingEnds ==
  ASSUME Inv, pc = "body", HasConfigMap, NEW b \in BOOLEAN, NEW w, Called(b, w),
         SyncCreationPending(w)
  PROVE  \E y, u : Ends(y, u)
<1>1. val.state = "CreationPending" /\ "StopFrameworkRequested" \in Codes \ {"None"}
  BY DEF SyncCreationPending, Codes
<1>2. val \in Status
  BY BodyFacts
<1>3. CASE Continue(val, FALSE) /\ Enter(w)
  <2>1. Goto(val, FALSE, FALSE)
    BY <1>3 DEF Continue
  <2> QED
    BY <1>3, <2>1, StayEnds
<1>4. CASE Error(w)
  BY <1>4, ErrorEnds
<1>5. CASE CompleteAfterDelete(w, w.obj.uid, "StopFrameworkRequested")
  BY <1>1, <1>5, CompleteAfterDeleteEnds
<1>6. CASE /\ ~(Present(w.obj) /\ w.obj.owner = f.uid)
           /\ Enter(w) /\ CompleteByForce("StopFrameworkRequested")
  BY <1>1, <1>6, CompleteByForceEnds DEF Live
<1>7. ASSUME NEW r \in CreateConfigMapResults(w), r.ok, Enter(r.w),
             Wait([val EXCEPT !.state = "CreationRequested", !.cm = r.w.obj.uid])
      PROVE  \E y, u : Ends(y, u)
  <2> DEFINE u == [val EXCEPT !.state = "CreationRequested", !.cm = r.w.obj.uid]
  <2>1. r.w = Store(w, NewConfigMap(w))
    BY <1>7, CreateEnds DEF CreateConfigMapResults
  <2>2. /\ Reached(r.w) /\ r.w.obj.uid \in Nat \ {0}
        /\ r.w.obj.by = "nobody" /\ r.w.obj.phase = "alive"
    BY <1>1, <2>1, CreatedReached
  <2>3. /\ u \in Status /\ u.state = "CreationRequested" /\ u.cm = r.w.obj.uid
        /\ u.code = val.code /\ u.attempt = val.attempt /\ u.retries = val.retries
        /\ u.scheduled = val.scheduled
    BY <1>2, <2>2 DEF Status, States
  <2>4. Goto(u, FALSE, TRUE)
    BY <1>7 DEF Wait
  <2> HIDE DEF u
  <2>5. ASSUME Live PROVE Sound(u, remote.uid, r.w.obj, cmCached)
    <3>1. Sound(val, remote.uid, r.w.obj, cmCached)
      BY <2>2, <2>5 DEF Reached
    <3> QED
      BY <1>1, <2>2, <2>3, <3>1 DEF Sound, Seen, Begun, Over
  <2>6. Progresses(val, u)
    BY <1>1, <2>2, <2>3, Exposed DEF Progresses
  <2>7. Ends(r.w, u)
    BY <1>7, <2>2, <2>3, <2>4, <2>5, <2>6 DEF Ends, Follows
  <2> QED
    BY <2>7
<1>8. ASSUME NEW r \in CreateConfigMapResults(w), ~r.ok, Error(r.w)
      PROVE  \E y, u : Ends(y, u)
  <2>1. CASE r.w = w
    BY <1>8, <2>1, ErrorEnds
  <2>2. CASE r.w = Store(w, NewConfigMap(w))
    <3>1. Reached(r.w) /\ Enter(r.w) /\ Goto(val, TRUE, FALSE)
      BY <1>1, <1>8, <2>2, CreatedReached DEF Error, Continue
    <3>2. Ends(r.w, val)
      BY <1>2, <3>1, FollowsItself DEF Ends, Reached
    <3> QED
      BY <3>2
  <2> QED
    BY <2>1, <2>2, CreateEnds DEF CreateConfigMapResults
<1> QED
  BY <1>3, <1>4, <1>5, <1>6, <1>7, <1>8 DEF SyncCreationPending

\* What the local cache says of the managed ConfigMap of a Framework that is there.
LEMMA Managed ==
  ASSUME Inv, pc = "body", Live, HasConfigMap
  PROVE  /\ ManagedPhase # "gone" =>
              /\ val.state \in Begun
              /\ cmCached.uid = cmRemote.uid /\ val.cm = cmRemote.uid
              /\ ManagedPhase # "alive" => cmRemote.phase # "alive"
         /\ ManagedPhase = "gone" /\ val.state \in Seen => ~Present(cmRemote)
<1>1. val \in Status /\ Sound(val, remote.uid, cmRemote, cmCached)
  BY BodyFacts
<1>2. cmRemote \in ConfigMap /\ cmCached \in ConfigMap /\ cmPending \in SUBSET ConfigMap
      /\ InOrder(cmRemote, cmCached, cmPending)
  BY DEF Inv, TypeOK
<1>3. /\ cmCached.uid = cmRemote.uid /\ cmCached.phase # "alive" => cmRemote.phase # "alive"
      /\ cmCached.uid = cmRemote.uid /\ ~Present(cmCached) => ~Present(cmRemote)
  <2>1. Closed(ConfigMap, "others")
    BY ConfigMapClosed
  <2> QED
    BY <1>2, <2>1, InOrderFacts
<1>4. CASE val.state = "CreationPending"
  <2>1. val.cm = 0
    BY <1>1, <1>4 DEF Sound
  <2>2. ManagedPhase = "gone"
    BY <1>2, <2>1 DEF ManagedPhase, InOrder, Present
  <2> QED
    BY <1>4, <2>2 DEF Seen
<1>5. CASE val.state \in Begun
  <2>1. val.cm = cmRemote.uid /\ (val.state \in Seen => cmCached.uid = cmRemote.uid)
    BY <1>1, <1>5 DEF Sound
  <2>2. ManagedPhase # "gone" => cmCached.uid = cmRemote.uid /\ ManagedPhase = cmCached.phase
    BY <2>1 DEF ManagedPhase
  <2>3. ManagedPhase = "gone" /\ val.state \in Seen => ~Present(cmCached)
    BY <2>1 DEF ManagedPhase, Present
  <2> QED
    BY <1>3, <1>5, <2>1, <2>2, <2>3
<1>6. val.state \in Begun \cup {"CreationPending"}
  BY <1>1 DEF HasConfigMap, Status, States, Begun, Seen
<1> QED
  BY <1>4, <1>5, <1>6

LEMMA ConfigMapNilEnds ==
  ASSUME Inv, pc = "body", NEW b \in BOOLEAN, SyncConfigMapNil(World(b))
  PROVE  \E y, u : Ends(y, u)
<1>1. HasConfigMap
  BY DEF SyncConfigMapNil
<1>2. PICK r \in Cleanups(World(b)) :
        SyncCreationRequested(r.w) \/ SyncCreationPending(r.w) \/ SyncConfigMapGone(r.w)
  BY DEF SyncConfigMapNil
<1>3. Called(b, r.w)
  BY CleanupCalled
<1>4. CASE SyncConfigMapGone(r.w)
  <2>1. Enter(r.w) /\ CompleteByForce("ConfigMapExternalDeleted")
        /\ "ConfigMapExternalDeleted" \in Codes \ {"None"}
    BY <1>4 DEF SyncConfigMapGone, Codes
  <2>2. ASSUME Live PROVE ~Present(r.w.obj)
    <3>1. val.state \in Seen
      BY <1>1, <1>4, BodyFacts DEF SyncConfigMapGone, HasConfigMap, Status, States, Seen
    <3>2. ~Present(cmRemote)
      BY <1>1, <1>4, <2>2, <3>1, Managed DEF SyncConfigMapGone
    <3> QED
      BY <1>3, <3>2 DEF Called, Older
  <2> QED
    BY <1>1, <1>3, <2>1, <2>2, CompleteByForceEnds
<1> QED
  BY <1>1, <1>2, <1>3, <1>4, CreationRequestedEnds, CreationPendingEnds

\* The rest of a sync that found the ConfigMap in the local cache.
LEMMA TasksEnds ==
  ASSUME Inv, pc = "body", NEW b \in BOOLEAN, NEW x, Called(b, x), Enter(x),
         NEW v, Move(val, v, v.state),
         Live =>
           /\ val.state \in Begun /\ cmCached.uid = cmRemote.uid
           /\ v.state # val.state => v.state \in Lifecycle!Exposes(val.state)
           /\ v.state = val.state => v.code = val.code
           /\ v.state \in {"Preparing", "Running"} =>
                v.code = val.code /\ val.state \in {"CreationRequested", "Preparing", "Running"}
           /\ v.state \in {"DeletionRequested", "Deleting"} =>
                v.code # "None" /\ x.obj.phase # "alive",
         SyncTasks(v)
  PROVE  \E y, u : Ends(y, u)
<1>1. v \in Status /\ v.state \in {"Preparing", "Running", "DeletionRequested", "Deleting"}
  BY DEF Move, SyncTasks
<1>2. Live => ~val.scheduled
  <2>1. Live => Sound(val, remote.uid, cmRemote, cmCached)
    BY BodyFacts
  <2> QED
    BY <2>1 DEF Sound, Begun, Seen
<1>3. ASSUME NEW again \in BOOLEAN, Continue(v, again)
      PROVE  \E y, u : Ends(y, u)
  <2>1. Goto(v, again, FALSE)
    BY <1>3 DEF Continue
  <2>2. Live => MayMove(x, v.state, v)
    BY <1>1, <1>2 DEF MayMove, Seen, Over
  <2>3. Ends(x, v)
    BY <2>1, <2>2, MoveEnds
  <2> QED
    BY <2>3
<1>4. ASSUME NEW again \in BOOLEAN, v.state \in {"Preparing", "Running"},
             Continue([v EXCEPT !.state = "Running"], again)
      PROVE  \E y, u : Ends(y, u)
  <2> DEFINE u == [v EXCEPT !.state = "Running"]
  <2>1. Move(v, u, "Running") /\ u.code = v.code
    <3>1. "Running" \in States
      BY DEF States
    <3> QED
      BY <1>1, <3>1, MovedStatus
  <2>2. Goto(u, again, FALSE)
    BY <1>4 DEF Continue
  <2> HIDE DEF u
  <2>3. Move(val, u, "Running")
    BY <2>1, MoveTransitive
  <2>4. Live /\ val.state # "Running" => "Running" \in Lifecycle!Exposes(val.state)
    BY <1>4, Exposed
  <2>5. Live => MayMove(x, "Running", u)
    BY <1>2, <1>4, <2>1, <2>4 DEF MayMove, Seen, Over
  <2>6. Ends(x, u)
    BY <2>2, <2>3, <2>5, MoveEnds
  <2> QED
    BY <2>6
<1>5. ASSUME NEW code \in Codes \ {"None"}, v.state \in {"Preparing", "Running"},
             Complete(v, code)
      PROVE  \E y, u : Ends(y, u)
  <2> DEFINE u == [v EXCEPT !.state = "DeletionPending", !.code = CodeOr(v, code)]
  <2>1. Move(v, u, "DeletionPending") /\ u.code # "None"
    <3>1. "DeletionPending" \in States
      BY DEF States
    <3> QED
      BY <1>1, <3>1, OutcomeStatus
  <2>2. Goto(u, TRUE, FALSE)
    BY <1>5 DEF Complete, Continue
  <2> HIDE DEF u
  <2>3. Move(val, u, "DeletionPending")
    BY <2>1, MoveTransitive
  <2>4. Live => /\ "DeletionPending" \in Lifecycle!Exposes(val.state)
                /\ val.state # "DeletionPending"
    BY <1>5, Exposed
  <2>5. Live => MayMove(x, "DeletionPending", u)
    BY <1>2, <2>1, <2>4 DEF MayMove, Seen, Over
  <2>6. Ends(x, u)
    BY <2>2, <2>3, <2>5, MoveEnds
  <2> QED
    BY <2>6
<1>6. {"StopFrameworkRequested", "Succeeded", "ContainerUnrecognizedFailed"}
        \subseteq Codes \ {"None"}
  BY DEF Codes
<1> QED
  BY <1>3, <1>4, <1>5, <1>6 DEF SyncTasks

LEMMA ConfigMapAliveEnds ==
  ASSUME Inv, pc = "body", NEW b \in BOOLEAN, SyncConfigMapAlive(World(b))
  PROVE  \E y, u : Ends(y, u)
<1>1. HasConfigMap /\ ManagedPhase = "alive"
  BY DEF SyncConfigMapAlive
<1>2. /\ val \in Status
      /\ Live => Sound(val, remote.uid, cmRemote, cmCached)
  BY BodyFacts
<1>3. Live => /\ val.state \in Begun
              /\ cmCached.uid = cmRemote.uid /\ val.cm = cmRemote.uid
  BY <1>1, Managed
<1>4. Called(b, World(b)) /\ (UNCHANGED cmVars => Enter(World(b)))
  BY NoCall
<1>5. World(b).obj = cmRemote
  BY WorldType DEF Inv
<1>6. ASSUME val.state = "DeletionPending", NEW r \in DeleteResults(World(b), val.cm, "completion"),
             ~r.ok /\ Error(r.w)
      PROVE  \E y, u : Ends(y, u)
  BY <1>4, <1>6, DeleteCalled, ErrorEnds
<1>7. ASSUME val.state = "DeletionPending", NEW r \in DeleteResults(World(b), val.cm, "completion"),
             r.ok, Enter(r.w), SyncTasks([val EXCEPT !.state = "DeletionRequested"])
      PROVE  \E y, u : Ends(y, u)
  <2> DEFINE v == [val EXCEPT !.state = "DeletionRequested"]
  <2>1. Move(val, v, "DeletionRequested") /\ v.code = val.code
    <3>1. "DeletionRequested" \in States
      BY DEF States
    <3> QED
      BY <1>2, <3>1, MovedStatus
  <2>2. Called(b, r.w) /\ (r.w.obj.uid = val.cm => r.w.obj.phase # "alive")
    BY <1>4, <1>7, DeleteCalled
  <2>3. Live => r.w.obj.phase # "alive" /\ val.code # "None"
    BY <1>2, <1>3, <1>7, <2>2 DEF Called, Older, Sound
  <2>4. SyncTasks(v)
    BY <1>7
  <2> HIDE DEF v
  <2>5. v.state = "DeletionRequested"
    BY <2>1 DEF Move
  <2> QED
    BY <1>3, <1>7, <2>1, <2>2, <2>3, <2>4, <2>5, Exposed, TasksEnds
<1>8. ASSUME val.state = "CreationRequested", SyncTasks([val EXCEPT !.state = "Preparing"]),
             UNCHANGED cmVars
      PROVE  \E y, u : Ends(y, u)
  <2> DEFINE v == [val EXCEPT !.state = "Preparing"]
  <2>1. Move(val, v, "Preparing") /\ v.code = val.code
    <3>1. "Preparing" \in States
      BY DEF States
    <3> QED
      BY <1>2, <3>1, MovedStatus
  <2>2. SyncTasks(v)
    BY <1>8
  <2> HIDE DEF v
  <2>3. v.state = "Preparing"
    BY <2>1 DEF Move
  <2> QED
    BY <1>3, <1>4, <1>8, <2>1, <2>2, <2>3, Exposed, TasksEnds
<1>9. ASSUME val.state \notin {"DeletionPending", "CreationRequested"}, SyncTasks(val),
             UNCHANGED cmVars
      PROVE  \E y, u : Ends(y, u)
  <2>1. Move(val, val, val.state)
    BY <1>2 DEF Move
  <2>2. Live /\ val.state \in {"DeletionRequested", "Deleting"} =>
          val.code # "None" /\ World(b).obj.phase # "alive"
    BY <1>2, <1>5 DEF Sound
  <2> QED
    BY <1>3, <1>4, <1>9, <2>1, <2>2, TasksEnds
<1> QED
  BY <1>6, <1>7, <1>8, <1>9 DEF SyncConfigMapAlive

LEMMA ConfigMapDeletingEnds ==
  ASSUME Inv, pc = "body", SyncConfigMapDeleting
  PROVE  \E y, u : Ends(y, u)
<1> DEFINE v == [val EXCEPT !.state = "Deleting",
                            !.code = CodeOr(val, "ConfigMapExternalDeleted")]
<1>1. HasConfigMap /\ ManagedPhase = "deleting" /\ SyncTasks(v) /\ UNCHANGED cmVars
  BY DEF SyncConfigMapDeleting
<1>2. val \in Status /\ (Live => Sound(val, remote.uid, cmRemote, cmCached))
  BY BodyFacts
<1>3. Move(val, v, "Deleting") /\ v.code # "None"
  <2>1. "Deleting" \in States /\ "ConfigMapExternalDeleted" \in Codes \ {"None"}
    BY DEF States, Codes
  <2> QED
    BY <1>2, <2>1, OutcomeStatus
<1> HIDE DEF v
<1>4. v.state = "Deleting"
  BY <1>3 DEF Move
<1>5. Live => /\ val.state \in Begun
              /\ cmCached.uid = cmRemote.uid /\ cmRemote.phase # "alive"
  BY <1>1, Managed
<1>6. Called(TRUE, World(TRUE)) /\ Enter(World(TRUE)) /\ World(TRUE).obj = cmRemote
  BY <1>1, NoCall, WorldType DEF Inv
<1>7. Live /\ val.state = "Deleting" => v.code = val.code
  BY <1>2, <1>3 DEF Move, Sound
<1>8. Live /\ val.state # "Deleting" => "Deleting" \in Lifecycle!Exposes(val.state)
  BY <1>5, Exposed DEF Begun, Seen
<1> QED
  BY <1>1, <1>3, <1>4, <1>5, <1>6, <1>7, <1>8, TasksEnds

LEMMA SyncBodyEnds ==
  ASSUME Inv, NEW b \in BOOLEAN, SyncBody(World(b))
  PROVE  pc = "body" /\ \E y, u : Ends(y, u)
BY NewFrameworkEnds, CompletedEnds, AttemptCompletedEnds, CleanupFailedEnds,
   ConfigMapNilEnds, ConfigMapAliveEnds, ConfigMapDeletingEnds DEF SyncBody

-----------------------------------------------------------------------------
(* The steps of a sync preserve the invariant *)

\* A step of FrameworkStatusSync, or none.
SyncSteps ==
  \/ FS!Next
  \/ UNCHANGED unqueuedVars /\ queued' \in BOOLEAN

LEMMA SyncStays ==
  ASSUME FS!Inv, SyncSteps
  PROVE  FS!Inv' /\ FS!TypeOK'
BY SyncStep, SyncStutter DEF SyncSteps, FS!Inv

\* The body of a sync.
LEMMA BodyStep ==
  ASSUME Inv, NEW b \in BOOLEAN, SyncBody(World(b))
  PROVE  Inv'
<1>1. pc = "body"
  BY SyncBodyEnds
<1>2. PICK x, u : Ends(x, u)
  BY SyncBodyEnds
<1>3. PICK again \in BOOLEAN, wait \in BOOLEAN : Goto(u, again, wait)
  BY <1>2 DEF Ends
<1>4. /\ u \in Status /\ FS!SyncBody(u, again)
      /\ due' = (due /\ u.state = val.state)
      /\ timer' = (wait \/ (timer /\ u.state = val.state))
  BY <1>2, <1>3 DEF Ends, Goto
<1>5. FS!Inv' /\ FS!TypeOK'
  <2>1. FS!Next
    BY <1>4 DEF FS!Next, FS!Body
  <2> QED
    BY <2>1, SyncStays DEF Inv, SyncSteps
<1>6. UNCHANGED <<remote, cached, expected>>
  BY <1>4 DEF FS!SyncBody, FS!objVars, FS!cacheVars
<1>7. \/ pc' = "idle"
      \/ f'.uid = f.uid /\ val' = u
  <2>1. f \in FS!Version
    BY DEF Inv, TypeOK, FS!TypeOK
  <2>2. CASE u = f.status.val
    BY <1>4, <2>2 DEF FS!SyncBody, FS!ToIdle
  <2>3. CASE u # f.status.val
    <3>1. f' = [f EXCEPT !.status = [owner |-> f.uid, val |-> u]]
      BY <1>4, <2>3 DEF FS!SyncBody
    <3> QED
      BY <2>1, <3>1 DEF val, FS!Version
  <2> QED
    BY <2>2, <2>3
<1>8. cmRemote' = x.obj /\ cmPending' = x.watch /\ cmCached' = cmCached /\ Reached(x)
  BY <1>2 DEF Ends, Enter
<1>9. due' \in BOOLEAN /\ timer' \in BOOLEAN
  BY <1>4 DEF Inv, TypeOK
<1>10. TypeOK'
  BY <1>5, <1>8, <1>9 DEF Inv, TypeOK, Reached
<1>11. Fresh'
  BY <1>6 DEF Inv, Fresh, FS!Exists
<1>12. InOrder(cmRemote, cmCached, cmPending)' /\ (cmRemote.uid = 0 => cmRemote.by # "completion")'
  BY <1>8 DEF Reached
<1>13. Fit(cmRemote, cmCached)'
  <2>1. SUFFICES ASSUME FS!Exists(remote), UNCHANGED remote
                 PROVE  Fit(cmRemote, cmCached)'
    BY <1>6 DEF Fit, FS!Exists
  <2>2. CASE Live
    <3>1. /\ remote.status.val = val /\ expected.uid = remote.uid
          /\ FS!Exists(f)
      BY <1>1, <2>2, BodyFacts DEF Live
    <3>2. /\ Sound(val, remote.uid, x.obj, cmCached)
          /\ Sound(u, remote.uid, x.obj, cmCached) /\ Follows(val, u)
      BY <1>2, <2>2 DEF Ends, Reached
    <3>3. expected.status.val = val
      BY <1>1 DEF val, Inv, FS!Inv, FS!WorkerConsistent
    <3> QED
      BY <1>6, <1>7, <1>8, <2>1, <3>1, <3>2, <3>3, FollowsItself DEF Fit
  <2>3. CASE ~Live
    <3>1. /\ remote.status.val = NilStatus /\ expected.uid # remote.uid
          /\ f.uid # remote.uid
      BY <1>1, <2>1, <2>3, BodyFacts DEF Live
    <3>2. Sound(NilStatus, remote.uid, x.obj, cmCached)
      BY <1>8, NilSound DEF Reached
    <3> QED
      BY <1>6, <1>7, <1>8, <2>1, <3>1, <3>2 DEF Fit
  <2> QED
    BY <2>2, <2>3
<1> QED
  BY <1>5, <1>10, <1>11, <1>12, <1>13 DEF Inv

-----------------------------------------------------------------------------
(* The other steps of FrameworkStatusSync preserve the invariant *)

LEMMA UserCreateFit ==
  ASSUME Inv, NEW s \in ExecutionTypes, FS!UserCreate(s), FS!Next, UNCHANGED cmVars
  PROVE  Fresh' /\ Fit(cmRemote, cmCached)'
<1>1. /\ remote'.uid = lastUid + 1 /\ remote'.status.val = NilStatus
      /\ UNCHANGED <<cached, expected, pc, f>>
  BY DEF FS!UserCreate, FS!Publish, FS!syncVars
<1>2. /\ lastUid \in Nat /\ expected.uid \in Nat /\ f.uid \in Nat
      /\ expected.uid <= lastUid /\ f.uid <= lastUid
  BY DEF Inv, TypeOK, FS!TypeOK, FS!Info, FS!Version, FS!Inv, FS!IncarnationsOrdered
<1>3. expected.uid # remote'.uid /\ f.uid # remote'.uid
  BY <1>1, <1>2
<1>4. Sound(NilStatus, remote'.uid, cmRemote, cmCached)
  BY NilSound DEF Inv
<1> QED
  BY <1>1, <1>3, <1>4 DEF Fresh, Fit, cmVars

\* A change of the Framework that leaves its Status alone.
LEMMA EditFit ==
  ASSUME Inv, remote'.uid = remote.uid, remote'.status = remote.status,
         UNCHANGED <<cached, expected, pc, f>>, UNCHANGED cmVars
  PROVE  Fresh' /\ Fit(cmRemote, cmCached)'
<1>1. Fresh /\ Fit(cmRemote, cmCached)
  BY DEF Inv
<1>2. val' = val
  BY DEF val
<1> QED
  BY <1>1, <1>2 DEF Fresh, Fit, FS!Exists, cmVars

LEMMA UserUpdateSpecFit ==
  ASSUME Inv, NEW s \in ExecutionTypes, FS!UserUpdateSpec(s), UNCHANGED cmVars
  PROVE  Fresh' /\ Fit(cmRemote, cmCached)'
<1> DEFINE v == [remote EXCEPT !.rv = @ + 1, !.spec = s]
<1>1. remote' = v /\ UNCHANGED <<cached, expected, pc, f>>
  BY DEF FS!UserUpdateSpec, FS!Publish, FS!syncVars
<1>2. v.uid = remote.uid /\ v.status = remote.status
  BY DEF Inv, TypeOK, FS!TypeOK, FS!Version
<1> HIDE DEF v
<1> QED
  BY <1>1, <1>2, EditFit

LEMMA UserDeleteFit ==
  ASSUME Inv, FS!UserDelete, UNCHANGED cmVars
  PROVE  Fresh' /\ Fit(cmRemote, cmCached)'
<1> DEFINE v == [remote EXCEPT !.rv = @ + 1, !.deleting = TRUE]
<1>1. remote' = v /\ UNCHANGED <<cached, expected, pc, f>>
  BY DEF FS!UserDelete, FS!Publish, FS!syncVars
<1>2. v.uid = remote.uid /\ v.status = remote.status
  BY DEF Inv, TypeOK, FS!TypeOK, FS!Version
<1> HIDE DEF v
<1> QED
  BY <1>1, <1>2, EditFit

LEMMA VanishFit ==
  ASSUME Inv, FS!Vanish, UNCHANGED cmVars
  PROVE  Fresh' /\ Fit(cmRemote, cmCached)'
<1>1. remote'.uid = 0 /\ remote'.status.val = NilStatus
  BY DEF FS!Vanish, FS!Publish, FS!Tombstone
<1> QED
  BY <1>1 DEF Fresh, Fit, FS!Exists

\* The cache never goes back to an object before the present one.
LEMMA DeliverFit ==
  ASSUME Inv, FS!Deliver, UNCHANGED cmVars
  PROVE  Fresh' /\ Fit(cmRemote, cmCached)'
<1>1. PICK v \in pending : cached' = v
  BY DEF FS!Deliver
<1>2. UNCHANGED <<remote, expected, pc, f>>
  BY DEF FS!Deliver, FS!objVars, FS!syncVars
<1>3. FS!Exists(remote) /\ cached.uid = remote.uid => v.uid = remote.uid
  <2>1. cached.rv < v.rv /\ cached.rv \in Nat /\ v.rv \in Nat
    BY DEF Inv, TypeOK, FS!TypeOK, FS!Version, FS!Inv, FS!VersionsOrdered
  <2>2. cached \in FS!Known /\ v \in FS!Known /\ cached.rv <= v.rv
    BY <2>1 DEF FS!Known
  <2> QED
    BY <2>2 DEF Inv, FS!Inv, FS!IncarnationsOrdered
<1>4. val' = val
  BY <1>2 DEF val
<1> QED
  BY <1>1, <1>2, <1>3, <1>4 DEF Inv, Fresh, Fit, FS!Exists, cmVars

LEMMA StartSyncFit ==
  ASSUME Inv, FS!StartSync, UNCHANGED cmVars
  PROVE  Fresh' /\ Fit(cmRemote, cmCached)'
<1>1. CASE FS!SyncNotFound
  <2>1. UNCHANGED <<remote, cached, pc, f>> /\ pc = "idle" /\ expected'.uid = 0
    BY <1>1 DEF FS!SyncNotFound, FS!objVars, FS!cacheVars, FS!NoInfo
  <2> QED
    BY <2>1 DEF Inv, Fresh, Fit, FS!Exists, cmVars
<1>2. CASE FS!SyncRecover
  <2>1. /\ UNCHANGED <<remote, cached>>
        /\ expected'.uid = cached.uid /\ expected'.status = cached.status
        /\ f' = cached /\ expected.uid # cached.uid /\ FS!Exists(cached)
    BY <1>2 DEF FS!SyncRecover, FS!objVars, FS!cacheVars
  <2>2. FS!Exists(remote) /\ cached.uid = remote.uid => cached.status = remote.status
    BY <2>1 DEF Inv, FS!Inv, FS!ExpectedAhead, FS!Known
  <2>3. val' = cached.status.val /\ expected'.status.val = cached.status.val
    BY <2>1 DEF val
  <2>4. Fresh'
    BY <2>1 DEF Inv, Fresh, FS!Exists
  <2>5. Fit(cmRemote, cmCached)'
    BY <2>1, <2>2, <2>3, FollowsItself DEF Inv, Fit, FS!Exists, cmVars
  <2> QED
    BY <2>4, <2>5
<1>3. CASE FS!SyncKnown
  <2> DEFINE v == [cached EXCEPT !.status = expected.status]
  <2>1. /\ UNCHANGED <<remote, cached, expected>> /\ f' = v
        /\ expected.uid = cached.uid
    BY <1>3 DEF FS!SyncKnown, FS!objVars, FS!cacheVars
  <2>2. v.uid = cached.uid /\ v.status = expected.status
    BY DEF Inv, TypeOK, FS!TypeOK, FS!Version
  <2> HIDE DEF v
  <2>3. val' = expected.status.val /\ f'.uid = expected.uid
    BY <2>1, <2>2 DEF val
  <2> QED
    BY <2>1, <2>3 DEF Inv, Fresh, Fit, FS!Exists, cmVars
<1> QED
  BY <1>1, <1>2, <1>3 DEF FS!StartSync

\* The Status that a worker writes is one of the present Framework.
LEMMA UpdateLive ==
  ASSUME Inv, NEW ok \in BOOLEAN, FS!UpdateStored(ok)
  PROVE  /\ Live /\ cached.uid = remote.uid /\ pc # "idle"
         /\ remote'.uid = remote.uid /\ remote'.status = f.status
<1>1. /\ pc # "idle" /\ FS!UpdateBase.uid = f.uid
      /\ FS!Exists(remote) /\ FS!UpdateBase.rv = remote.rv
  BY DEF FS!UpdateStored, FS!Updating, FS!BaseIsSameObject, FS!Accepts
<1>2. FS!Exists(f) /\ expected.uid = f.uid
  BY <1>1 DEF Inv, FS!Inv, FS!WorkerConsistent
<1>3. f.uid = remote.uid
  <2>1. CASE tries = 0
    BY <1>1, <1>2, <2>1 DEF FS!UpdateBase, Inv, FS!Inv, FS!VersionsOrdered
  <2>2. CASE tries # 0
    BY <1>1, <2>2 DEF FS!UpdateBase, Inv, FS!Inv, FS!VersionsOrdered, FS!Known
  <2> QED
    BY <2>1, <2>2
<1>4. cached.uid = remote.uid
  BY <1>1, <1>2, <1>3 DEF Inv, FS!Inv, FS!ExpectedAhead
<1>5. remote'.uid = remote.uid /\ remote'.status = f.status
  <2> DEFINE v == [FS!UpdateBase EXCEPT !.rv = remote.rv + 1, !.status = f.status]
  <2>1. CASE f.status = remote.status /\ UNCHANGED remote
    BY <2>1
  <2>2. CASE remote' = v
    <3>1. FS!UpdateBase \in FS!Version
      BY DEF FS!UpdateBase, Inv, TypeOK, FS!TypeOK
    <3>2. v.uid = FS!UpdateBase.uid /\ v.status = f.status
      BY <3>1 DEF FS!Version
    <3> HIDE DEF v
    <3> QED
      BY <1>1, <1>3, <2>2, <3>2
  <2> QED
    BY <2>1, <2>2 DEF FS!UpdateStored, FS!Publish
<1> QED
  BY <1>1, <1>3, <1>4, <1>5 DEF Live

LEMMA UpdateFit ==
  ASSUME Inv, FS!UpdateRemote, UNCHANGED cmVars
  PROVE  Fresh' /\ Fit(cmRemote, cmCached)'
<1>1. ASSUME NEW ok \in BOOLEAN, FS!UpdateStored(ok)
      PROVE  Fresh' /\ Fit(cmRemote, cmCached)'
  <2>1. /\ Live /\ cached.uid = remote.uid /\ pc # "idle"
        /\ remote'.uid = remote.uid /\ remote'.status = f.status
    BY <1>1, UpdateLive
  <2>2. /\ UNCHANGED cached
        /\ expected'.uid = f.uid /\ expected'.status = f.status
        /\ pc' = "idle" \/ f' = f
    BY <1>1 DEF FS!UpdateStored, FS!UpdateEnds, FS!ToIdle
  <2>3. Sound(val, remote.uid, cmRemote, cmCached)
    BY <2>1 DEF Inv, Fit, Live
  <2>4. remote'.status.val = val /\ expected'.status.val = val
        /\ (pc' # "idle" => val' = val)
    BY <2>1, <2>2 DEF val
  <2> QED
    BY <2>1, <2>2, <2>3, <2>4, FollowsItself DEF Fresh, Fit, Live, FS!Exists, cmVars
<1>2. CASE FS!UpdateConflict
  <2>1. UNCHANGED <<remote, cached, expected, pc, f>>
    BY <1>2 DEF FS!UpdateConflict, FS!objVars, FS!cacheVars
  <2> QED
    BY <2>1, EditFit
<1>3. CASE FS!UpdateFailed
  <2>1. /\ UNCHANGED <<remote, cached>> /\ pc # "idle" /\ pc' = "idle"
        /\ expected'.uid = f.uid /\ expected'.status = f.status
    BY <1>3 DEF FS!UpdateFailed, FS!UpdateEnds, FS!ToIdle, FS!Updating, FS!objVars, FS!cacheVars
  <2>2. expected.uid = f.uid
    BY <2>1 DEF Inv, FS!Inv, FS!WorkerConsistent
  <2>3. expected'.status.val = val
    BY <2>1 DEF val
  <2> QED
    BY <2>1, <2>2, <2>3 DEF Inv, Fresh, Fit, FS!Exists, cmVars
<1> QED
  BY <1>1, <1>2, <1>3 DEF FS!UpdateRemote

\* A step of FrameworkStatusSync while the ConfigMap stays as it is.
LEMMA AloneStep ==
  ASSUME Inv, FS!Next, UNCHANGED cmVars, timer' \in BOOLEAN, due' \in BOOLEAN,
         Fresh' /\ Fit(cmRemote, cmCached)'
  PROVE  Inv'
<1>1. FS!Inv' /\ FS!TypeOK'
  BY SyncStays DEF Inv, SyncSteps
<1> QED
  BY <1>1 DEF Inv, TypeOK, cmVars

LEMMA UsersStep ==
  ASSUME Inv, Users, UNCHANGED <<cmVars, timeVars>>
  PROVE  Inv'
<1>1. timer' \in BOOLEAN /\ due' \in BOOLEAN /\ UNCHANGED cmVars
  BY DEF Inv, TypeOK, timeVars
<1>2. FS!Next
  BY DEF Users, UserUpdateSpec, FS!Next, FS!Users
<1>3. Fresh' /\ Fit(cmRemote, cmCached)'
  BY <1>1, <1>2, UserCreateFit, UserUpdateSpecFit, UserDeleteFit DEF Users, UserUpdateSpec
<1> QED
  BY <1>1, <1>2, <1>3, AloneStep

LEMMA SyncAloneStep ==
  ASSUME Inv, UNCHANGED <<cmVars, timeVars>>,
         FS!UserDelete \/ FS!Vanish \/ FS!Deliver \/ FS!StartSync \/ FS!UpdateRemote
  PROVE  Inv'
<1>1. timer' \in BOOLEAN /\ due' \in BOOLEAN /\ UNCHANGED cmVars
  BY DEF Inv, TypeOK, timeVars
<1>2. FS!Next
  BY DEF FS!Next, FS!Users
<1>3. Fresh' /\ Fit(cmRemote, cmCached)'
  BY <1>1, UserDeleteFit, VanishFit, DeliverFit, StartSyncFit, UpdateFit
<1> QED
  BY <1>1, <1>2, <1>3, AloneStep

LEMMA RestartStep ==
  ASSUME Inv, Restart
  PROVE  Inv'
<1>1. /\ UNCHANGED <<remote, cmRemote>> /\ cached' = remote
      /\ cmCached' = cmRemote /\ cmPending' = {}
      /\ expected'.uid = 0 /\ pc' = "idle"
      /\ timer' \in BOOLEAN /\ due' \in BOOLEAN
  BY DEF Inv, TypeOK, Restart, FS!Restart, FS!ToIdle, FS!NoInfo, FS!objVars
<1>2. FS!Inv' /\ FS!TypeOK'
  <2>1. FS!Next
    BY DEF Restart, FS!Next
  <2> QED
    BY <2>1, SyncStays DEF Inv, SyncSteps
<1>3. TypeOK'
  BY <1>1, <1>2 DEF Inv, TypeOK
<1>4. Fresh'
  BY <1>1 DEF Inv, Fresh, FS!Exists
<1>5. InOrder(cmRemote, cmRemote, {})
  <2>1. cmRemote.uid \in Nat /\ cmRemote.phase \in Phases
        /\ (cmRemote.uid = 0 => ~Present(cmRemote))
    BY DEF Inv, TypeOK, ConfigMap, InOrder
  <2> QED
    BY <2>1, InOrderRelisted
<1>6. Fit(cmRemote, cmCached)'
  BY <1>1, SoundCached DEF Inv, Fit, FS!Exists
<1> QED
  BY <1>1, <1>2, <1>3, <1>4, <1>5, <1>6 DEF Inv

-----------------------------------------------------------------------------
(* The steps of the ConfigMap and of the clock preserve the invariant *)

LEMMA DeliverConfigMapStep ==
  ASSUME Inv, DeliverConfigMap
  PROVE  Inv'
<1>1. PICK p \in cmPending :
        /\ cmCached' = p
        /\ cmPending' = {c \in cmPending : PhaseAge(c) > PhaseAge(p)}
        /\ queued' = (queued \/ Owned(cmCached) \/ Owned(p))
        /\ UNCHANGED <<cmRemote, timeVars, unqueuedVars>>
  BY DEF DeliverConfigMap
<1>2. queued' \in BOOLEAN
  BY <1>1
<1>3. FS!Inv' /\ FS!TypeOK'
  BY <1>1, <1>2, SyncStays DEF Inv, SyncSteps
<1>4. cmRemote \in ConfigMap /\ cmCached \in ConfigMap /\ cmPending \in SUBSET ConfigMap
  BY DEF Inv, TypeOK
<1>5. /\ InOrder(cmRemote, p, cmPending')
      /\ cmCached.uid <= p.uid /\ p.uid <= cmRemote.uid
  <2>1. Closed(ConfigMap, "others") /\ InOrder(cmRemote, cmCached, cmPending)
    BY ConfigMapClosed DEF Inv
  <2>2. /\ InOrder(cmRemote, p, {q \in cmPending : PhaseAge(q) > PhaseAge(p)})
        /\ cmCached.uid <= p.uid /\ p.uid <= cmRemote.uid
    BY <1>4, <2>1, InOrderDelivered
  <2> QED
    BY <1>1, <2>2
<1>6. cmCached.uid = cmRemote.uid => p.uid = cmRemote.uid
  <2>1. p.uid \in Nat /\ cmRemote.uid \in Nat
    BY <1>4 DEF ConfigMap
  <2> QED
    BY <1>5, <2>1
<1>7. TypeOK'
  BY <1>1, <1>3, <1>4 DEF Inv, TypeOK, timeVars
<1>8. UNCHANGED <<remote, cached, expected, pc, f>> /\ val' = val
  BY <1>1 DEF unqueuedVars, val
<1>9. Fresh'
  BY <1>8 DEF Inv, Fresh, FS!Exists
<1>10. Fit(cmRemote, cmCached)'
  BY <1>1, <1>6, <1>8, SoundCached DEF Inv, Fit, FS!Exists
<1>11. (cmRemote.uid = 0 => cmRemote.by # "completion")'
  BY <1>1 DEF Inv
<1> QED
  BY <1>1, <1>3, <1>5, <1>7, <1>9, <1>10, <1>11 DEF Inv

\* A ConfigMap that is not deleted on behalf of a completion.
LEMMA ConfigMapStep ==
  ASSUME Inv, UNCHANGED <<statusVars, timeVars>>,
         NEW x \in WorldsOf(ConfigMap), Enter(x), Onwards(World(FALSE), x),
         Older(cmRemote, x.obj), x.obj.by = "completion" => cmRemote.by = "completion"
  PROVE  Inv'
<1>1. /\ UNCHANGED <<remote, cached, expected, pc, f>> /\ val' = val
      /\ queued' = queued /\ UNCHANGED unqueuedVars /\ UNCHANGED timeVars
  BY DEF statusVars, unqueuedVars, val
<1>2. FS!Inv' /\ FS!TypeOK'
  BY <1>1, SyncStays DEF Inv, SyncSteps, TypeOK, FS!TypeOK
<1>3. cmRemote' = x.obj /\ cmPending' = x.watch /\ cmCached' = cmCached
  BY DEF Enter
<1>4. x.obj \in ConfigMap /\ x.watch \subseteq ConfigMap
  BY DEF WorldsOf
<1>5. TypeOK'
  BY <1>1, <1>2, <1>3, <1>4 DEF Inv, TypeOK, timeVars
<1>6. InOrder(x.obj, cmCached, x.watch)
  <2>1. /\ World(FALSE) \in WorldsOf(ConfigMap)
        /\ World(FALSE).obj = cmRemote /\ World(FALSE).watch = cmPending
    BY WorldType DEF Inv
  <2>2. cmCached \in ConfigMap /\ Closed(ConfigMap, "others")
        /\ InOrder(World(FALSE).obj, cmCached, World(FALSE).watch)
    BY <2>1, ConfigMapClosed DEF Inv, TypeOK
  <2> QED
    BY <2>1, <2>2, InOrderOnwards
<1>7. x.obj.uid = 0 => x.obj.by # "completion"
  BY DEF Inv, Older
<1>8. \A v, k : Sound(v, k, cmRemote, cmCached) => Sound(v, k, x.obj, cmCached)
  BY SoundOlder
<1>9. Fresh' /\ Fit(cmRemote, cmCached)'
  BY <1>1, <1>3, <1>8 DEF Inv, Fresh, Fit, FS!Exists
<1> QED
  BY <1>2, <1>3, <1>5, <1>6, <1>7, <1>9 DEF Inv

LEMMA ConfigMapDeletedByOthersStep ==
  ASSUME Inv, ConfigMapDeletedByOthers
  PROVE  Inv'
<1> DEFINE w == World(FALSE)
           d == [cmRemote EXCEPT !.phase = "deleting", !.by = "others"]
           x == Store(w, d)
<1>1. cmRemote.phase = "alive" /\ Enter(x) /\ UNCHANGED <<statusVars, timeVars>>
  BY DEF ConfigMapDeletedByOthers
<1>2. w \in WorldsOf(ConfigMap) /\ w.obj = cmRemote /\ cmRemote \in ConfigMap
  BY WorldType DEF Inv, TypeOK
<1>3. /\ d.uid = cmRemote.uid /\ d.owner = cmRemote.owner /\ d.phase = "deleting"
      /\ d.by = "others"
  BY <1>2 DEF ConfigMap
<1>4. x = Marked(w, "others")
  BY <1>1, <1>2 DEF Marked
<1>5. x.obj = d
  <2> HIDE DEF w, d
  <2> QED BY <1>2 DEF Store, WorldsOf
<1> HIDE DEF d, x, w
<1>6. x \in WorldsOf(ConfigMap) /\ Onwards(w, x)
  BY <1>2, <1>4, ConfigMapClosed, MarkedOnwards
<1>7. Older(cmRemote, x.obj) /\ x.obj.by # "completion"
  BY <1>1, <1>3, <1>5 DEF Older, Present
<1> QED
  BY <1>1, <1>6, <1>7, ConfigMapStep DEF w

LEMMA ConfigMapVanishesStep ==
  ASSUME Inv, ConfigMapVanishes
  PROVE  Inv'
<1> DEFINE w == World(FALSE)
           g == [cmRemote EXCEPT !.phase = "gone"]
           x == Store(w, g)
<1>1. cmRemote.phase = "deleting" /\ Enter(x) /\ UNCHANGED <<statusVars, timeVars>>
  BY DEF ConfigMapVanishes
<1>2. w \in WorldsOf(ConfigMap) /\ w.obj = cmRemote /\ cmRemote \in ConfigMap
  BY WorldType DEF Inv, TypeOK
<1>3. /\ g.uid = cmRemote.uid /\ g.owner = cmRemote.owner /\ g.phase = "gone"
      /\ g.by = cmRemote.by
  BY <1>2 DEF ConfigMap
<1>4. x = Erased(w)
  BY <1>1, <1>2 DEF Erased
<1>5. x.obj = g
  <2> HIDE DEF w, g
  <2> QED BY <1>2 DEF Store, WorldsOf
<1> HIDE DEF g, x, w
<1>6. x \in WorldsOf(ConfigMap) /\ Onwards(w, x)
  BY <1>1, <1>2, <1>4, ConfigMapClosed, ErasedOnwards DEF Present
<1>7. Older(cmRemote, x.obj) /\ x.obj.by = cmRemote.by
  BY <1>1, <1>3, <1>5 DEF Older, Present
<1> QED
  BY <1>1, <1>6, <1>7, ConfigMapStep DEF w

LEMMA ClockStep ==
  ASSUME Inv, Clock
  PROVE  Inv'
<1>1. /\ UNCHANGED unqueuedVars /\ UNCHANGED cmVars
      /\ queued' \in BOOLEAN /\ timer' \in BOOLEAN /\ due' \in BOOLEAN
  BY DEF Clock, TimeoutElapses, TimerFires, statusVars, Inv, TypeOK, FS!TypeOK
<1>2. FS!Inv' /\ FS!TypeOK'
  BY <1>1, SyncStays DEF Inv, SyncSteps
<1>3. UNCHANGED <<remote, cached, expected, pc, f>>
  BY <1>1 DEF unqueuedVars
<1>4. Fresh' /\ Fit(cmRemote, cmCached)'
  BY <1>1, <1>3, EditFit
<1> QED
  BY <1>1, <1>2, <1>4 DEF Inv, TypeOK, cmVars

-----------------------------------------------------------------------------
(* The invariant *)

LEMMA InvInit == Init => Inv
<1> SUFFICES ASSUME Init PROVE Inv
  OBVIOUS
<1>1. FS!Inv /\ FS!TypeOK
  BY SyncInit DEF Init, FS!Inv
<1>2. NoConfigMap \in ConfigMap /\ ~Present(NoConfigMap)
      /\ NoConfigMap.uid \in Nat /\ NoConfigMap.phase \in Phases /\ NoConfigMap.by = "nobody"
  BY DEF NoConfigMap, ConfigMap, Phases, Present
<1>3. TypeOK
  BY <1>1, <1>2 DEF Init, TypeOK
<1>4. InOrder(cmRemote, cmCached, cmPending) /\ (cmRemote.uid = 0 => cmRemote.by # "completion")
  BY <1>2, InOrderRelisted DEF Init
<1>5. ~FS!Exists(remote) /\ remote.status.val = NilStatus
  BY DEF Init, FS!Init, FS!Tombstone, FS!Exists
<1> QED
  BY <1>1, <1>3, <1>4, <1>5 DEF Inv, Fresh, Fit

LEMMA InvStutter ==
  ASSUME Inv, UNCHANGED vars
  PROVE  Inv'
<1>1. UNCHANGED <<unqueuedVars, queued, cmVars, timeVars>>
  BY DEF vars, statusVars
<1>2. FS!Inv' /\ FS!TypeOK'
  BY <1>1, SyncStays DEF Inv, TypeOK, FS!TypeOK, SyncSteps
<1>3. UNCHANGED <<remote, cached, expected, pc, f>>
  BY <1>1 DEF unqueuedVars
<1>4. Fresh' /\ Fit(cmRemote, cmCached)'
  BY <1>1, <1>3, EditFit
<1> QED
  BY <1>1, <1>2, <1>4 DEF Inv, TypeOK, cmVars, timeVars

LEMMA InvStep == Inv /\ [Next]_vars => Inv'
<1> SUFFICES ASSUME Inv, [Next]_vars PROVE Inv'
  OBVIOUS
<1>1. CASE Alone(Users)
  BY <1>1, UsersStep DEF Alone
<1>2. CASE Informers
  BY <1>2, SyncAloneStep, DeliverConfigMapStep DEF Informers, Alone
<1>3. CASE Worker
  <2>1. CASE Alone(FS!StartSync)
    BY <2>1, SyncAloneStep DEF Alone
  <2>2. CASE \E failing \in BOOLEAN : SyncBody(World(failing))
    BY <2>2, BodyStep
  <2>3. CASE DeleteFrameworkCall
    BY <2>3, SyncAloneStep DEF DeleteFrameworkCall
  <2>4. CASE Alone(UpdateRemote)
    BY <2>4, SyncAloneStep DEF Alone, UpdateRemote, UpdateStored, FS!UpdateRemote
  <2> QED
    BY <1>3, <2>1, <2>2, <2>3, <2>4 DEF Worker
<1>4. CASE Cluster
  BY <1>4, ConfigMapDeletedByOthersStep, ConfigMapVanishesStep, SyncAloneStep
  DEF Cluster, Alone, Vanish
<1>5. CASE Clock
  BY <1>5, ClockStep
<1>6. CASE Restart
  BY <1>6, RestartStep
<1>7. CASE UNCHANGED vars
  BY <1>7, InvStutter
<1> QED
  BY <1>1, <1>2, <1>3, <1>4, <1>5, <1>6, <1>7 DEF Next

LEMMA InvAlways == Safety => []Inv
BY InvInit, InvStep, PTL DEF Safety

-----------------------------------------------------------------------------
(* What it implies *)

\* Types: the state of the controller, the caches and the ApiServer.
THEOREM TypeCorrect == Safety => []TypeOK
<1>1. Inv => TypeOK
  BY DEF Inv
<1> QED
  BY <1>1, InvAlways, PTL

\* An attempt that is persisted as over leaves no ConfigMap of its Framework behind,
\* whatever calls failed or lost their answers (completeFrameworkAttempt).
THEOREM NoConfigMapLeakHolds == Safety => []NoConfigMapLeak
<1>1. Inv => NoConfigMapLeak
  BY DEF Inv, Fit, Sound, NoConfigMapLeak, IsOwn, persisted, Over
<1> QED
  BY <1>1, InvAlways, PTL

\* The ConfigMap is deleted for a completion only once that is persisted.
THEOREM DeletedAfterPersistedHolds == Safety => []DeletedAfterPersisted
<1>1. Inv => DeletedAfterPersisted
  BY DEF Inv, Fit, Sound, DeletedAfterPersisted, persisted
<1> QED
  BY <1>1, InvAlways, PTL

\* The ConfigMap of an attempt in DeletionRequested or Deleting is being deleted, or
\* gone, in the ApiServer.
THEOREM DeletionRequestedIsTrueHolds == Safety => []DeletionRequestedIsTrue
<1>1. Inv => DeletionRequestedIsTrue
  BY DEF Inv, Fit, Sound, DeletionRequestedIsTrue, persisted
<1> QED
  BY <1>1, InvAlways, PTL

\* Accountable retries are within the RetryPolicy, and counted once each.
THEOREM RetriesWithinPolicyHolds == Safety => []RetriesWithinPolicy
<1>1. Inv => RetriesWithinPolicy
  <2> SUFFICES ASSUME Inv PROVE RetriesWithinPolicy
    OBVIOUS
  <2>1. CASE FS!Exists(remote)
    BY <2>1 DEF Inv, Fit, Sound, RetriesWithinPolicy, persisted
  <2>2. CASE ~FS!Exists(remote)
    <3>1. remote.status.val = NilStatus
      BY <2>2 DEF Inv, Fresh
    <3> QED
      BY <3>1 DEF NilStatus, NewAttempt, RetriesWithinPolicy, persisted
  <2> QED
    BY <2>1, <2>2
<1> QED
  BY <1>1, InvAlways, PTL

\* What FrameworkStatusSync promises for any Body holds for this one: a sync acts on
\* the persisted Status, the user's Spec stays, and a Status stays with its Framework.
THEOREM StatusSyncHolds ==
  Safety => [](FS!SyncsAgainstPersisted /\ FS!SpecNeverReverted /\ FS!StatusOfOwnIncarnation)
<1>1. Inv => FS!SpecNeverReverted
  BY DEF Inv, FS!Inv
<1>2. Inv => FS!StatusOfOwnIncarnation
  BY DEF Inv, FS!Inv, FS!StatusesOwned, FS!StatusOfOwnIncarnation, FS!Exists
<1>3. Inv => FS!SyncsAgainstPersisted
  <2> SUFFICES ASSUME Inv, pc = "body", f.uid = remote.uid
               PROVE  /\ f.status = remote.status
                      /\ expected = [uid |-> f.uid, status |-> f.status, synced |-> TRUE]
    BY DEF FS!SyncsAgainstPersisted
  <2>1. /\ FS!Exists(f) /\ expected.uid = f.uid
        /\ f.status = expected.status /\ expected.synced
    BY DEF Inv, FS!Inv, FS!WorkerConsistent
  <2>2. f.status = remote.status
    BY <2>1 DEF Inv, FS!Inv, FS!ExpectedAhead, FS!Exists, AnyLeq
  <2>3. expected.synced = TRUE /\ expected \in FS!Info
    BY <2>1 DEF Inv, TypeOK, FS!TypeOK, FS!Info
  <2> QED
    BY <2>1, <2>2, <2>3 DEF FS!Info
<1> QED
  BY <1>1, <1>2, <1>3, InvAlways, PTL

-----------------------------------------------------------------------------
(* FrameworkAttempt implements FrameworkLifecycle *)

\* The Status that a client sees.
LEMMA UnseenStep ==
  ASSUME remote'.uid = remote.uid, remote'.status = remote.status, lastUid' = lastUid
  PROVE  UNCHANGED Lifecycle!vars
BY DEF Lifecycle!vars, persisted

LEMMA LifecycleInit == Init => Lifecycle!Init
BY DEF Init, FS!Init, FS!Tombstone, NilStatus, NewAttempt, Lifecycle!Init, persisted

\* The Status of the Framework changes to one that may follow.
LEMMA StatusStep ==
  ASSUME NEW v, Follows(persisted, v), FS!Exists(remote), remote'.uid = remote.uid,
         remote'.status.val = v, lastUid' = lastUid
  PROVE  [Lifecycle!Next]_Lifecycle!vars
<1>1. persisted' = v /\ remote.uid # 0
  BY DEF persisted, FS!Exists
<1>2. CASE /\ v.state = persisted.state /\ v.attempt = persisted.attempt
           /\ v.cm = persisted.cm /\ v.code = persisted.code
  BY <1>1, <1>2 DEF Lifecycle!vars
<1>3. CASE Starts(persisted, v)
  <2>1. Lifecycle!NewAttempt
    BY <1>1, <1>3 DEF Starts, Lifecycle!NewAttempt
  <2> QED
    BY <2>1 DEF Lifecycle!Next
<1>4. CASE Progresses(persisted, v)
  <2>1. Lifecycle!Progress
    BY <1>1, <1>4 DEF Progresses, Lifecycle!Progress
  <2> QED
    BY <2>1 DEF Lifecycle!Next
<1> QED
  BY <1>2, <1>3, <1>4 DEF Follows

LEMMA LifecycleStep == Inv /\ [Next]_vars => [Lifecycle!Next]_Lifecycle!vars
<1> SUFFICES ASSUME Inv, [Next]_vars PROVE [Lifecycle!Next]_Lifecycle!vars
  OBVIOUS
<1>1. ASSUME NEW s \in ExecutionTypes, FS!UserCreate(s) PROVE Lifecycle!Create
  <2>1. /\ remote.uid = 0 /\ remote'.uid = lastUid + 1 /\ lastUid' = lastUid + 1
        /\ remote'.status.val = NilStatus
    BY <1>1 DEF FS!UserCreate, FS!Publish, FS!Exists
  <2>2. remote.status.val = NilStatus
    BY <2>1 DEF Inv, Fresh, FS!Exists
  <2>3. lastUid \in Nat
    BY DEF Inv, TypeOK, FS!TypeOK
  <2> QED
    BY <2>1, <2>2, <2>3 DEF Lifecycle!Create, persisted
<1>2. CASE FS!Vanish
  <2>1. /\ remote.uid # 0 /\ remote'.uid = 0 /\ remote'.status.val = NilStatus
        /\ lastUid' = lastUid
    BY <1>2 DEF FS!Vanish, FS!Publish, FS!Tombstone, FS!Exists
  <2>2. Lifecycle!Remove
    BY <2>1 DEF Lifecycle!Remove, NilStatus, NewAttempt, persisted
  <2> QED
    BY <2>2 DEF Lifecycle!Next
<1>3. ASSUME NEW s \in ExecutionTypes, FS!UserUpdateSpec(s) PROVE UNCHANGED Lifecycle!vars
  <2> DEFINE v == [remote EXCEPT !.rv = @ + 1, !.spec = s]
  <2>1. remote' = v /\ lastUid' = lastUid
    BY <1>3 DEF FS!UserUpdateSpec, FS!Publish
  <2>2. v.uid = remote.uid /\ v.status = remote.status
    BY DEF Inv, TypeOK, FS!TypeOK, FS!Version
  <2> HIDE DEF v
  <2> QED
    BY <2>1, <2>2, UnseenStep
<1>4. CASE FS!UserDelete
  <2> DEFINE v == [remote EXCEPT !.rv = @ + 1, !.deleting = TRUE]
  <2>1. remote' = v /\ lastUid' = lastUid
    BY <1>4 DEF FS!UserDelete, FS!Publish
  <2>2. v.uid = remote.uid /\ v.status = remote.status
    BY DEF Inv, TypeOK, FS!TypeOK, FS!Version
  <2> HIDE DEF v
  <2> QED
    BY <2>1, <2>2, UnseenStep
<1>5. ASSUME NEW ok \in BOOLEAN, FS!UpdateStored(ok)
      PROVE  [Lifecycle!Next]_Lifecycle!vars
  <2>1. /\ Live /\ pc # "idle" /\ remote'.uid = remote.uid /\ remote'.status = f.status
    BY <1>5, UpdateLive
  <2>2. Follows(persisted, val) /\ remote'.status.val = val
    BY <2>1 DEF Inv, Fit, Live, persisted, val
  <2>3. lastUid' = lastUid
    BY <1>5 DEF FS!UpdateStored
  <2> QED
    BY <2>1, <2>2, <2>3, StatusStep DEF Live
<1>6. ASSUME UNCHANGED <<remote, lastUid>> PROVE UNCHANGED Lifecycle!vars
  BY <1>6, UnseenStep
<1>7. CASE Alone(Users)
  BY <1>1, <1>3, <1>4, <1>7 DEF Alone, Users, UserUpdateSpec, Lifecycle!Next
<1>8. CASE Informers
  BY <1>6, <1>8 DEF Informers, Alone, FS!Deliver, FS!objVars, DeliverConfigMap, unqueuedVars
<1>9. CASE Worker
  <2>1. CASE Alone(FS!StartSync)
    BY <1>6, <2>1 DEF Alone, FS!StartSync, FS!SyncNotFound, FS!SyncRecover, FS!SyncKnown,
       FS!objVars
  <2>2. ASSUME NEW b \in BOOLEAN, SyncBody(World(b)) PROVE UNCHANGED <<remote, lastUid>>
    <3>1. PICK x, u : Ends(x, u)
      BY <2>2, SyncBodyEnds
    <3>2. PICK again \in BOOLEAN : FS!SyncBody(u, again)
      BY <3>1 DEF Ends, Goto
    <3> QED
      BY <3>2 DEF FS!SyncBody, FS!objVars
  <2>3. CASE DeleteFrameworkCall
    BY <1>4, <2>3 DEF DeleteFrameworkCall
  <2>4. CASE Alone(UpdateRemote)
    <3>1. CASE FS!UpdateConflict \/ FS!UpdateFailed
      BY <1>6, <3>1 DEF FS!UpdateConflict, FS!UpdateFailed, FS!objVars
    <3> QED
      BY <1>5, <2>4, <3>1 DEF Alone, UpdateRemote, UpdateStored
  <2> QED
    BY <1>6, <1>9, <2>1, <2>2, <2>3, <2>4 DEF Worker
<1>10. CASE Cluster
  <2>1. CASE ConfigMapDeletedByOthers \/ ConfigMapVanishes
    BY <1>6, <2>1 DEF ConfigMapDeletedByOthers, ConfigMapVanishes, statusVars, unqueuedVars
  <2> QED
    BY <1>2, <1>10, <2>1 DEF Cluster, Alone, Vanish
<1>11. CASE Clock
  BY <1>6, <1>11 DEF Clock, TimeoutElapses, TimerFires, statusVars, unqueuedVars
<1>12. CASE Restart
  BY <1>6, <1>12 DEF Restart, FS!Restart, FS!objVars
<1>13. CASE UNCHANGED vars
  BY <1>6, <1>13 DEF vars, statusVars, unqueuedVars
<1> QED
  BY <1>7, <1>8, <1>9, <1>10, <1>11, <1>12, <1>13 DEF Next

\* To a client of the ApiServer the Framework object follows the documented
\* lifecycle: the transitions of types.go, and what they keep of an attempt.
THEOREM ImplementsLifecycleHolds == Safety => ImplementsLifecycle
BY InvAlways, LifecycleInit, LifecycleStep, PTL
   DEF Safety, ImplementsLifecycle, Lifecycle!Spec
=============================================================================
