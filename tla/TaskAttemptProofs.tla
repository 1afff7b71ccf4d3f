------------------------- MODULE TaskAttemptProofs -------------------------
(***************************************************************************)
(* What TaskAttempt promises of the Pods of a Task, proved for every       *)
(* RetryPolicy, every set of failure codes and every bound.                *)
(*                                                                         *)
(* The argument.  The controller decides on a local cache that lags, so    *)
(* what has to hold is how the cache relates to the ApiServer: a version   *)
(* in the cache or on its way is not younger than the Pod (Ordered), and a *)
(* Task that has seen its Pod has seen the last one of the name (Sound).   *)
(* A sync makes several calls; each only makes the Pod older (Later),      *)
(* which keeps whatever the cache said of it true.                         *)
(***************************************************************************)
EXTENDS TaskAttempt, RemoteCallsProofs, TLAPS

-----------------------------------------------------------------------------
(* The inductive invariant *)

Over == {"AttemptCompleted", "Completed"}

\* The states in which the Pod was found in the local cache.
Seen == {"Preparing", "Running", "DeletionPending", "DeletionRequested", "Deleting"}

\* What a TaskStatus v says of the Pod o in the ApiServer and c in the local cache,
\* and of its own past.
Sound(v, o, c) ==
  /\ v.state = "CreationPending" => v.pod = 0
  /\ v.state \in Seen \cup {"CreationRequested"} => v.pod = o.uid
  /\ v.state \in Seen => c.uid = o.uid
  /\ v.state \in {"DeletionRequested", "Deleting"} => o.phase # "alive"
  /\ v.state \in Over => ~Present(o)
  /\ o.by = "completion" /\ o.uid = v.pod => v.code # "None"
  /\ v.retries <= v.attempt
  /\ MaxRetryCount >= 0 => v.retries <= MaxRetryCount

\* u may be exposed after v (ExposedOnce).
Follows(v, u) ==
  u.attempt = v.attempt =>
    /\ v.pod # 0 => u.pod = v.pod
    /\ v.code # "None" => u.code = v.code

\* uids start at 1, and the versions of the Pod come to the cache in their order.
Ordered ==
  /\ pod.uid = 0 => ~Present(pod) /\ pod.by = "nobody"
  /\ podCached.uid = 0 => ~Present(podCached)
  /\ Age(podCached) <= Age(pod)
  /\ \A p \in podPending :
       p.uid # 0 /\ Age(podCached) < Age(p) /\ Age(p) <= Age(pod)

Inv ==
  /\ TypeOK
  /\ Ordered
  /\ Sound(f, pod, podCached)
  /\ Sound(status, pod, podCached)
  /\ Follows(status, f)

-----------------------------------------------------------------------------
(* Pods and their versions *)

\* Ages are numbers, and an older version is of a later uid, or further in its phases.
LEMMA AgeOrder ==
  ASSUME NEW p \in Pod
  PROVE  /\ Age(p) \in Nat
         /\ \A q \in Pod : Age(p) <= Age(q) =>
              /\ p.uid <= q.uid
              /\ p.uid = q.uid /\ p.phase # "alive" => q.phase # "alive"
              /\ p.uid = q.uid /\ p.phase = "gone" => q.phase = "gone"
<1> DEFINE rank(o) == IF o.phase = "alive" THEN 0 ELSE IF o.phase = "deleting" THEN 1 ELSE 2
           step(o) == IF o.status = "Pending" THEN 0 ELSE IF o.status = "Running" THEN 1 ELSE 2
<1>1. \A o \in Pod : PhaseAge(o) = 3 * o.uid + rank(o)
  BY DEF PhaseAge, Pod, Phases
<1>2. \A o \in Pod : Age(o) = 4 * PhaseAge(o) + step(o)
  BY DEF Age, Pod
<1>3. \A o \in Pod : /\ o.uid \in Nat /\ rank(o) \in 0 .. 2 /\ step(o) \in 0 .. 2
                     /\ o.phase = "alive" <=> rank(o) = 0
                     /\ o.phase = "gone" <=> rank(o) = 2
  BY DEF Pod, Phases
<1>4. \A o \in Pod : Age(o) = 12 * o.uid + 4 * rank(o) + step(o)
  <2> HIDE DEF rank, step
  <2> QED BY <1>1, <1>2, <1>3
<1> HIDE DEF rank, step
<1> QED
  BY <1>3, <1>4

Worlds == [obj : Pod, watch : SUBSET Pod, failing : BOOLEAN]

\* x is the world w after calls that concern the same Pod.
Later(w, x) ==
  /\ x \in Worlds
  /\ x.obj.uid = w.obj.uid
  /\ Age(w.obj) <= Age(x.obj)
  /\ ~Present(w.obj) => x.obj = w.obj
  /\ \A p \in x.watch :
       \/ p \in w.watch
       \/ /\ Present(w.obj) /\ p.uid = w.obj.uid
          /\ Age(w.obj) < Age(p) /\ Age(p) <= Age(x.obj)

\* The calls do not delete the Pod on behalf of its completion, and force its
\* deletion only if that is exposed in v.
Discreet(v, w, x) ==
  /\ x.obj.by = "completion" => w.obj.by = "completion"
  /\ x.obj.forced /\ ~w.obj.forced => v.timeout /\ overdue = w.obj.uid

LEMMA LaterReflexive ==
  ASSUME NEW w \in Worlds, NEW v
  PROVE  Later(w, w) /\ Discreet(v, w, w)
<1>1. w.obj \in Pod
  BY DEF Worlds
<1> QED
  BY <1>1, AgeOrder DEF Later, Discreet

LEMMA LaterTransitive ==
  ASSUME NEW w \in Worlds, NEW x, NEW y, NEW v, Later(w, x), Later(x, y)
  PROVE  /\ Later(w, y)
         /\ Discreet(v, w, x) /\ Discreet(v, x, y) => Discreet(v, w, y)
<1>1. x \in Worlds /\ y \in Worlds
  BY DEF Later
<1>2. w.obj \in Pod /\ x.obj \in Pod /\ y.obj \in Pod
  BY <1>1 DEF Worlds
<1>3. Age(w.obj) \in Nat /\ Age(x.obj) \in Nat /\ Age(y.obj) \in Nat
  BY <1>2, AgeOrder
<1>4. \A p \in y.watch : p \in Pod /\ Age(p) \in Nat
  BY <1>1, AgeOrder DEF Worlds
<1>5. Later(w, y)
  BY <1>1, <1>3, <1>4 DEF Later
<1>6. w.obj.forced \in BOOLEAN /\ x.obj.forced \in BOOLEAN /\ y.obj.forced \in BOOLEAN
  BY <1>2 DEF Pod
<1>7. x.obj.uid = w.obj.uid
  BY DEF Later
<1>8. Discreet(v, w, x) /\ Discreet(v, x, y) => Discreet(v, w, y)
  BY <1>6, <1>7 DEF Discreet
<1> QED
  BY <1>5, <1>8

\* An older version is stored.
LEMMA StoreLater ==
  ASSUME NEW w \in Worlds, NEW o \in Pod, o.uid = w.obj.uid, Age(w.obj) < Age(o),
         Present(w.obj)
  PROVE  Later(w, Store(w, o)) /\ Store(w, o).obj = o
<1>1. w.obj \in Pod
  BY DEF Worlds
<1>2. Store(w, o).obj = o /\ Store(w, o).watch = w.watch \cup {o}
  BY DEF Store, Worlds
<1>3. Store(w, o) \in Worlds
  BY DEF Store, Worlds
<1>4. Age(w.obj) \in Nat /\ Age(o) \in Nat
  BY <1>1, AgeOrder
<1> QED
  BY <1>2, <1>3, <1>4 DEF Later

LEMMA PhasesAge ==
  ASSUME NEW o \in Pod, NEW by \in {"completion", "cleanup", "others"}
  PROVE  /\ o.phase = "alive" =>
              /\ [o EXCEPT !.phase = "deleting", !.by = by] \in Pod
              /\ Age(o) < Age([o EXCEPT !.phase = "deleting", !.by = by])
         /\ Present(o) =>
              /\ [o EXCEPT !.phase = "gone"] \in Pod
              /\ Age(o) < Age([o EXCEPT !.phase = "gone"])
<1> DEFINE d == [o EXCEPT !.phase = "deleting", !.by = by]
           g == [o EXCEPT !.phase = "gone"]
<1>1. d \in Pod /\ g \in Pod
  BY DEF Pod, Phases
<1>2. Present(o) <=> o.phase \in {"alive", "deleting"}
  BY DEF Present, Pod, Phases
<1>3. d.phase = "deleting" /\ g.phase = "gone" /\ d.uid = o.uid /\ g.uid = o.uid
      /\ d.status = o.status /\ g.status = o.status /\ o.uid \in Nat
  BY DEF Pod
<1>4. o.phase = "alive" => PhaseAge(d) = PhaseAge(o) + 1
  BY <1>3 DEF PhaseAge
<1>5. Present(o) => PhaseAge(g) \in {PhaseAge(o) + 1, PhaseAge(o) + 2}
  BY <1>2, <1>3 DEF PhaseAge
<1>6. PhaseAge(o) \in Nat
  BY <1>3 DEF PhaseAge, Pod, Phases
<1>7. \A n \in {o, d, g} :
        Age(n) = 4 * PhaseAge(n) + (CASE o.status = "Pending" -> 0 [] o.status = "Running" -> 1 [] OTHER -> 2)
  BY <1>3 DEF Age
<1> QED
  BY <1>1, <1>4, <1>5, <1>6, <1>7

-----------------------------------------------------------------------------
(* The calls of a sync *)

\* x is the world w after calls for the TaskStatus v.
Called(v, w, x) == Later(w, x) /\ Discreet(v, w, x)

LEMMA MarkedLater ==
  ASSUME NEW w \in Worlds, NEW by \in {"completion", "cleanup", "others"}
  PROVE  LET x == Marked(w, by)
         IN  /\ Later(w, x)
             /\ x.obj.phase # "alive"
             /\ Present(x.obj) <=> Present(w.obj)
             /\ x.obj.forced = w.obj.forced
             /\ x.obj.by = "completion" => w.obj.by = "completion" \/ by = "completion"
<1> DEFINE x == Marked(w, by)
           d == [w.obj EXCEPT !.phase = "deleting", !.by = by]
<1>1. w.obj \in Pod
  BY DEF Worlds
<1>2. CASE w.obj.phase = "alive"
  <2>1. x = Store(w, d)
    BY <1>2 DEF Marked
  <2>2. d \in Pod /\ Age(w.obj) < Age(d)
    BY <1>1, <1>2, PhasesAge
  <2>3. d.uid = w.obj.uid /\ d.phase = "deleting" /\ d.by = by /\ d.forced = w.obj.forced
    BY <1>1 DEF Pod
  <2>4. Present(w.obj) /\ Present(d)
    BY <1>2, <2>3 DEF Present
  <2> HIDE DEF d
  <2>5. Later(w, x) /\ x.obj = d
    BY <2>1, <2>2, <2>3, <2>4, StoreLater
  <2> QED
    BY <2>3, <2>4, <2>5
<1>3. CASE w.obj.phase # "alive"
  <2>1. x = w
    BY <1>3 DEF Marked
  <2> QED
    BY <1>3, <2>1, LaterReflexive
<1> QED
  BY <1>2, <1>3

LEMMA ErasedLater ==
  ASSUME NEW w \in Worlds, Present(w.obj)
  PROVE  LET x == Erased(w)
         IN  /\ Later(w, x)
             /\ ~Present(x.obj)
             /\ x.obj.by = w.obj.by /\ x.obj.forced = w.obj.forced
<1> DEFINE g == [w.obj EXCEPT !.phase = "gone"]
<1>1. w.obj \in Pod
  BY DEF Worlds
<1>2. g \in Pod /\ Age(w.obj) < Age(g)
  BY <1>1, PhasesAge
<1>3. g.uid = w.obj.uid /\ g.phase = "gone" /\ g.by = w.obj.by /\ g.forced = w.obj.forced
  BY <1>1 DEF Pod
<1>4. Erased(w) = Store(w, g)
  BY DEF Erased
<1> HIDE DEF g
<1>5. Later(w, Erased(w)) /\ Erased(w).obj = g
  BY <1>2, <1>3, <1>4, StoreLater
<1> QED
  BY <1>3, <1>5 DEF Present

\* What deletePod does to the Pod u.
LEMMA DeleteCall ==
  ASSUME NEW w \in Worlds, NEW u, NEW by \in {"completion", "cleanup"},
         NEW r \in DeleteResults(w, u, by)
  PROVE  /\ r.ok \in BOOLEAN
         /\ Later(w, r.w)
         /\ r.w.obj.forced = w.obj.forced
         /\ r.w.obj.by = "completion" => \/ w.obj.by = "completion"
                                         \/ by = "completion" /\ w.obj.uid = u
         /\ r.ok /\ r.w.obj.uid = u => r.w.obj.phase # "alive"
         /\ Confirmed(r, u) => ~Present(r.w.obj)
<1> DEFINE m == Marked(w, by)
<1>1. /\ r.ok \in BOOLEAN
      /\ \/ r.w = w
         \/ Present(w.obj) /\ w.obj.uid = u /\ r.w \in {m, Erased(m)}
      /\ r.ok => \/ ~Present(w.obj) /\ r.w = w
                 \/ Present(w.obj) /\ w.obj.uid = u /\ r.w \in {m, Erased(m)}
  BY DeleteEnds
<1>2. /\ Later(w, m) /\ m.obj.phase # "alive"
      /\ Present(m.obj) <=> Present(w.obj)
      /\ m.obj.forced = w.obj.forced
      /\ m.obj.by = "completion" => w.obj.by = "completion" \/ by = "completion"
  BY MarkedLater
<1>3. m \in Worlds /\ m.obj.uid = w.obj.uid
  BY <1>2 DEF Later
<1> HIDE DEF m
<1>4. Present(w.obj) =>
        /\ Later(m, Erased(m)) /\ ~Present(Erased(m).obj)
        /\ Erased(m).obj.by = m.obj.by /\ Erased(m).obj.forced = m.obj.forced
  BY <1>2, <1>3, ErasedLater
<1>5. Present(w.obj) => Later(w, Erased(m))
  BY <1>2, <1>4, LaterTransitive
<1>6. Later(w, w)
  BY LaterReflexive
<1>7. \A o : ~Present(o) => o.phase # "alive"
  BY DEF Present
<1>8. Later(w, r.w) /\ r.w.obj.uid = w.obj.uid
  BY <1>1, <1>2, <1>5, <1>6 DEF Later
<1>9. r.ok /\ r.w.obj.uid = u => r.w.obj.phase # "alive"
  BY <1>1, <1>2, <1>4, <1>7
<1>10. Confirmed(r, u) => ~Present(r.w.obj)
  BY <1>1, <1>8 DEF Confirmed
<1> QED
  BY <1>1, <1>2, <1>4, <1>8, <1>9, <1>10

LEMMA CleanupDelete ==
  ASSUME NEW v, NEW w \in Worlds, NEW u, NEW r \in DeleteResults(w, u, "cleanup")
  PROVE  r.ok \in BOOLEAN /\ Called(v, w, r.w)
<1>1. /\ r.ok \in BOOLEAN /\ Later(w, r.w) /\ r.w.obj.forced = w.obj.forced
      /\ r.w.obj.by = "completion" => w.obj.by = "completion"
  BY DeleteCall
<1> QED
  BY <1>1 DEF Called, Discreet

\* A forced deletion.
LEMMA ForceDeleteCall ==
  ASSUME NEW v, NEW w \in Worlds, NEW u, v.timeout, overdue = u,
         NEW r \in ForceDeleteResults(w, u)
  PROVE  r.ok \in BOOLEAN /\ Called(v, w, r.w)
<1> DEFINE y == [w EXCEPT !.obj.forced = TRUE]
<1>1. CASE ~Present(w.obj)
  <2>1. r \in Results(w, {w})
    BY <1>1 DEF ForceDeleteResults
  <2> QED
    BY <2>1, ResultsEnd, LaterReflexive DEF Called
<1>2. CASE Present(w.obj) /\ w.obj.uid # u
  <2>1. r = [w |-> w, ok |-> FALSE]
    BY <1>2 DEF ForceDeleteResults
  <2> QED
    BY <2>1, LaterReflexive DEF Called
<1>3. CASE Present(w.obj) /\ w.obj.uid = u
  <2> DEFINE worlds == {Erased(y)} \cup (IF w.failing THEN {w} ELSE {})
  <2>1. r \in Results(w, worlds)
    BY <1>3 DEF ForceDeleteResults
  <2>2. r.ok \in BOOLEAN /\ (r.w = Erased(y) \/ r.w = w)
    <3>1. \A x \in worlds : x = Erased(y) \/ x = w
      OBVIOUS
    <3> HIDE DEF worlds
    <3> QED
      BY <2>1, <3>1, ResultsEnd
  <2>3. w.obj \in Pod
    BY DEF Worlds
  <2>4. y \in Worlds /\ y.watch = w.watch /\ y.obj = [w.obj EXCEPT !.forced = TRUE]
    <3>1. y = [w EXCEPT !.obj = [w.obj EXCEPT !.forced = TRUE]]
      BY DEF Worlds
    <3>2. [w.obj EXCEPT !.forced = TRUE] \in Pod
      BY <2>3 DEF Pod
    <3> QED
      BY <3>1, <3>2 DEF Worlds
  <2>5. /\ y.obj.uid = w.obj.uid /\ y.obj.phase = w.obj.phase
        /\ y.obj.status = w.obj.status /\ y.obj.by = w.obj.by
    BY <2>3, <2>4 DEF Pod
  <2> HIDE DEF y
  <2>6. Age(y.obj) = Age(w.obj) /\ Present(y.obj)
    BY <1>3, <2>5 DEF Age, PhaseAge, Present
  <2>7. Later(y, Erased(y)) /\ Erased(y).obj.by = y.obj.by
    BY <2>4, <2>6, ErasedLater
  <2>8. Later(w, Erased(y))
    BY <1>3, <2>4, <2>5, <2>6, <2>7 DEF Later
  <2>9. Discreet(v, w, Erased(y))
    BY <1>3, <2>5, <2>7 DEF Discreet
  <2> QED
    BY <2>2, <2>8, <2>9, LaterReflexive DEF Called
<1> QED
  BY <1>1, <1>2, <1>3

LEMMA GracefulDeletionCall ==
  ASSUME NEW v, NEW w \in Worlds, NEW p, NEW r \in GracefulDeletionResults(w, v, p)
  PROVE  r.ok \in BOOLEAN /\ Called(v, w, r.w)
<1>1. CASE MustForce(v, p)
  <2>1. PICK s \in ForceDeleteResults(w, p.uid) : r = [w |-> s.w, ok |-> Confirmed(s, p.uid)]
    BY <1>1 DEF GracefulDeletionResults
  <2>2. s.ok \in BOOLEAN /\ Called(v, w, s.w)
    BY <1>1, ForceDeleteCall DEF MustForce, EffectiveTimeout
  <2>3. Confirmed(s, p.uid) \in BOOLEAN
    BY <2>2 DEF Confirmed
  <2> QED
    BY <2>1, <2>2, <2>3
<1>2. CASE ~MustForce(v, p)
  <2>1. r = [w |-> w, ok |-> TRUE]
    BY <1>2 DEF GracefulDeletionResults
  <2> QED
    BY <2>1, LaterReflexive DEF Called
<1> QED
  BY <1>1, <1>2

LEMMA CalledTransitive ==
  ASSUME NEW v, NEW w \in Worlds, NEW x, NEW y, Called(v, w, x), Called(v, x, y)
  PROVE  Called(v, w, y)
BY LaterTransitive DEF Called

LEMMA CleanupCall ==
  ASSUME NEW v, NEW w \in Worlds, NEW p, NEW r \in CleanupResults(w, v, p)
  PROVE  r.ok \in BOOLEAN /\ Called(v, w, r.w)
<1>1. PICK g \in GracefulDeletionResults(w, v, p) :
        r \in IF ~g.ok THEN {g} ELSE DeleteResults(g.w, p.uid, "cleanup")
  BY DEF CleanupResults
<1>2. g.ok \in BOOLEAN /\ Called(v, w, g.w)
  BY GracefulDeletionCall
<1>3. g.w \in Worlds
  BY <1>2 DEF Called, Later
<1>4. CASE ~g.ok
  BY <1>1, <1>2, <1>4
<1>5. CASE g.ok
  <2>1. r.ok \in BOOLEAN /\ Called(v, g.w, r.w)
    BY <1>1, <1>3, <1>5, CleanupDelete
  <2> QED
    BY <1>2, <2>1, CalledTransitive
<1> QED
  BY <1>4, <1>5

LEMMA LocalCleanupCall ==
  ASSUME NEW v, NEW w \in Worlds, NEW r \in LocalCleanups(w, v)
  PROVE  r.ok \in BOOLEAN /\ Called(v, w, r.w)
<1>1. CASE Unmanaged(v, podCached)
  <2>1. r \in CleanupResults(w, v, podCached)
    BY <1>1 DEF LocalCleanups
  <2> QED
    BY <2>1, CleanupCall
<1>2. CASE ~Unmanaged(v, podCached)
  <2>1. r = [w |-> w, ok |-> TRUE]
    BY <1>2 DEF LocalCleanups
  <2> QED
    BY <2>1, LaterReflexive DEF Called
<1> QED
  BY <1>1, <1>2

\* getOrCleanupPod(.., confirm = true) succeeds for a Task without a Pod only when
\* no Pod of the name is left.
LEMMA ConfirmedCleanupCall ==
  ASSUME NEW v, NEW w \in Worlds, NEW r \in ConfirmedCleanups(w, v)
  PROVE  /\ r.ok \in BOOLEAN /\ Called(v, w, r.w)
         /\ r.ok /\ w.obj.uid # v.pod => ~Present(r.w.obj)
<1>0. Called(v, w, w)
  BY LaterReflexive DEF Called
<1>1. CASE Unmanaged(v, w.obj) /\ r # [w |-> w, ok |-> FALSE]
  <2>1. PICK s \in CleanupResults(w, v, w.obj) :
          r = [w |-> s.w, ok |-> Confirmed(s, w.obj.uid)]
    BY <1>1 DEF ConfirmedCleanups
  <2>2. s.ok \in BOOLEAN /\ Called(v, w, s.w)
    BY CleanupCall
  <2>3. Confirmed(s, w.obj.uid) \in BOOLEAN
    BY <2>2 DEF Confirmed
  <2>4. Confirmed(s, w.obj.uid) => ~Present(s.w.obj)
    BY <2>2 DEF Confirmed, Called, Later
  <2> QED
    BY <2>1, <2>2, <2>3, <2>4
<1>2. CASE ~Unmanaged(v, w.obj) /\ r # [w |-> w, ok |-> FALSE]
  <2>1. r = [w |-> w, ok |-> TRUE]
    BY <1>2 DEF ConfirmedCleanups
  <2> QED
    BY <1>0, <1>2, <2>1 DEF Unmanaged
<1>3. CASE r = [w |-> w, ok |-> FALSE]
  BY <1>0, <1>3
<1> QED
  BY <1>1, <1>2, <1>3

-----------------------------------------------------------------------------
(* What a TaskStatus may become *)

\* The TaskStatus that a sync starts from is sound if the one in memory is.
LEMMA BeforeStatus ==
  ASSUME IsTaskStatus(f), NEW v \in Before
  PROVE  /\ IsTaskStatus(v) /\ Follows(f, v)
         /\ v.state = f.state /\ v.pod = f.pod /\ v.timeout = f.timeout
         /\ v.attempt = f.attempt /\ v.retries = f.retries
         /\ f.code # "None" => v.code = f.code
         /\ \A o, c : Sound(f, o, c) => Sound(v, o, c)
<1>1. f \in TaskStatus
  BY DEF IsTaskStatus
<1>2. CASE v = f
  BY <1>2 DEF Follows
<1>3. CASE v = Completing(f)
  <2> DEFINE code == CodeOr(f, "FrameworkAttemptCompletion")
  <2>1. code \in Codes /\ code # "None" /\ (f.code # "None" => code = f.code)
    BY <1>1 DEF CodeOr, Codes, PermanentCodes, TaskStatus
  <2>2. v = [f EXCEPT !.completing = TRUE, !.code = code]
    BY <1>3 DEF Completing
  <2> HIDE DEF code
  <2>3. v \in TaskStatus /\ v.code = code
    BY <1>1, <2>1, <2>2 DEF TaskStatus
  <2>4. /\ v.state = f.state /\ v.pod = f.pod /\ v.timeout = f.timeout
        /\ v.attempt = f.attempt /\ v.retries = f.retries
    BY <1>1, <2>2 DEF TaskStatus
  <2>5. IsTaskStatus(v)
    BY <2>1, <2>3 DEF IsTaskStatus
  <2>6. Follows(f, v)
    BY <2>1, <2>3, <2>4 DEF Follows
  <2>7. \A o, c : Sound(f, o, c) => Sound(v, o, c)
    BY <2>1, <2>3, <2>4 DEF Sound
  <2> QED
    BY <2>1, <2>3, <2>4, <2>5, <2>6, <2>7
<1> QED
  BY <1>2, <1>3 DEF Before

\* A TaskStatus in another state, with the code that is its outcome from then on.
Outcome(v, s, code) == [v EXCEPT !.state = s, !.code = CodeOr(v, code)]

\* A TaskStatus in another state, and else the same.
Moved(v, s) == [v EXCEPT !.state = s]

\* u is what v may become in the same attempt.
Becomes(v, u, s) ==
  /\ IsTaskStatus(u) /\ Follows(v, u)
  /\ u.state = s
  /\ u.attempt = v.attempt /\ u.pod = v.pod /\ u.retries = v.retries

LEMMA OutcomeStatus ==
  ASSUME NEW v, IsTaskStatus(v), NEW s \in States, NEW code \in Codes \ {"None"}
  PROVE  Becomes(v, Outcome(v, s, code), s)
<1> DEFINE kept == CodeOr(v, code)
           u == [v EXCEPT !.state = s, !.code = kept]
<1>1. v \in TaskStatus
  BY DEF IsTaskStatus
<1>2. kept \in Codes /\ kept # "None" /\ (v.code # "None" => kept = v.code)
  BY <1>1 DEF CodeOr, TaskStatus
<1>3. Outcome(v, s, code) = u
  BY DEF Outcome
<1> HIDE DEF kept
<1>4. /\ u \in TaskStatus /\ u.code = kept /\ u.state = s /\ u.pod = v.pod
      /\ u.attempt = v.attempt /\ u.retries = v.retries
  BY <1>1, <1>2 DEF TaskStatus
<1> HIDE DEF u
<1> QED
  BY <1>2, <1>3, <1>4 DEF IsTaskStatus, Follows, Becomes

LEMMA MovedStatus ==
  ASSUME NEW v, IsTaskStatus(v), NEW s \in States, s \in HasOutcome => v.code # "None"
  PROVE  Becomes(v, Moved(v, s), s) /\ Moved(v, s).code = v.code
<1> DEFINE u == [v EXCEPT !.state = s]
<1>1. v \in TaskStatus
  BY DEF IsTaskStatus
<1>2. /\ u \in TaskStatus /\ u.code = v.code /\ u.state = s /\ u.pod = v.pod
      /\ u.attempt = v.attempt /\ u.retries = v.retries
  BY <1>1 DEF TaskStatus
<1>3. Moved(v, s) = u
  BY DEF Moved
<1> HIDE DEF u
<1> QED
  BY <1>2, <1>3 DEF IsTaskStatus, Follows, Becomes

-----------------------------------------------------------------------------
(* How a sync ends *)

\* The ApiServer may be at the world x after the calls of a sync.
Onward(x) ==
  /\ x \in Worlds
  /\ Age(pod) <= Age(x.obj)
  /\ x.obj.uid = 0 => x.obj = pod
  /\ \A p \in x.watch :
       \/ p \in podPending
       \/ p.uid # 0 /\ Age(pod) < Age(p) /\ Age(p) <= Age(x.obj)
  /\ x.obj.forced /\ ~pod.forced => f.timeout /\ overdue = pod.uid

\* The sync leaves the ApiServer at x and the TaskStatus at u.
Ends(x, u) ==
  /\ Onward(x) /\ Enter(x)
  /\ IsTaskStatus(u) /\ Follows(f, u)
  /\ Sound(u, x.obj, podCached) /\ Sound(f, x.obj, podCached)
  /\ \E again, wait \in BOOLEAN : Goto(u, again, wait)

LEMMA WorldType ==
  ASSUME TypeOK, NEW b \in BOOLEAN
  PROVE  /\ World(b) \in Worlds
         /\ World(b).obj = pod /\ World(b).watch = podPending /\ World(b).failing = b
BY DEF TypeOK, World, Worlds

\* Calls keep true what the TaskStatus says, if they delete the Pod on behalf of
\* its completion only with an outcome.
LEMMA LaterOnward ==
  ASSUME Inv, NEW b \in BOOLEAN, NEW v \in Before, NEW x, Later(World(b), x),
         x.obj.forced /\ ~pod.forced => f.timeout /\ overdue = pod.uid,
         x.obj.by = "completion" => pod.by = "completion" \/ f.code # "None"
  PROVE  /\ Onward(x) /\ x.obj.uid = pod.uid
         /\ ~Present(pod) => x.obj = pod
         /\ pod.phase # "alive" => x.obj.phase # "alive"
         /\ Sound(f, x.obj, podCached) /\ Sound(v, x.obj, podCached)
<1>1. /\ World(b) \in Worlds /\ World(b).obj = pod /\ World(b).watch = podPending
  BY WorldType DEF Inv
<1>2. \A o, c : Sound(f, o, c) => Sound(v, o, c)
  BY BeforeStatus DEF Inv, TypeOK
<1>3. /\ x \in Worlds /\ x.obj.uid = pod.uid /\ Age(pod) <= Age(x.obj)
      /\ ~Present(pod) => x.obj = pod
      /\ \A p \in x.watch :
           \/ p \in podPending
           \/ Present(pod) /\ p.uid = pod.uid /\ Age(pod) < Age(p) /\ Age(p) <= Age(x.obj)
  BY <1>1 DEF Later
<1>4. pod.uid = 0 => ~Present(pod)
  BY DEF Inv, Ordered
<1>5. Onward(x)
  BY <1>3, <1>4 DEF Onward
<1>6. pod \in Pod /\ x.obj \in Pod
  BY <1>3 DEF Inv, TypeOK, Worlds
<1>7. pod.phase # "alive" => x.obj.phase # "alive"
  BY <1>3, <1>6, AgeOrder
<1>8. Sound(f, x.obj, podCached)
  BY <1>3, <1>7 DEF Inv, Sound
<1> QED
  BY <1>2, <1>3, <1>5, <1>7, <1>8

LEMMA CalledOnward ==
  ASSUME Inv, NEW b \in BOOLEAN, NEW v \in Before, NEW x, Called(v, World(b), x)
  PROVE  /\ Onward(x) /\ x.obj.uid = pod.uid
         /\ ~Present(pod) => x.obj = pod
         /\ pod.phase # "alive" => x.obj.phase # "alive"
         /\ Sound(f, x.obj, podCached) /\ Sound(v, x.obj, podCached)
<1>1. World(b).obj = pod
  BY WorldType DEF Inv
<1>2. Later(World(b), x) /\ Discreet(v, World(b), x) /\ v.timeout = f.timeout
  BY BeforeStatus DEF Inv, TypeOK, Called
<1>3. /\ x.obj.by = "completion" => pod.by = "completion"
      /\ x.obj.forced /\ ~pod.forced => f.timeout /\ overdue = pod.uid
  BY <1>1, <1>2 DEF Discreet
<1> QED
  BY <1>2, <1>3, LaterOnward

\* A sync that stays with the Pod and the attempt that it found.
LEMMA MoveEnds ==
  ASSUME Inv, NEW b \in BOOLEAN, NEW v \in Before, NEW x, Called(v, World(b), x),
         NEW s, NEW u, Becomes(v, u, s),
         s = "CreationPending" => v.state = "CreationPending",
         s \in Seen \cup {"CreationRequested"} => v.state \in Seen \cup {"CreationRequested"},
         s \in Seen => podCached.uid = pod.uid,
         s \in {"DeletionRequested", "Deleting"} => x.obj.phase # "alive",
         s \in Over => ~Present(x.obj),
         NEW again \in BOOLEAN, NEW wait \in BOOLEAN, Goto(u, again, wait), Enter(x)
  PROVE  \E y, t : Ends(y, t)
<1>1. /\ Onward(x) /\ x.obj.uid = pod.uid
      /\ Sound(f, x.obj, podCached) /\ Sound(v, x.obj, podCached)
  BY CalledOnward
<1>2. Follows(f, v) /\ v.attempt = f.attempt
  BY BeforeStatus DEF Inv, TypeOK
<1>3. IsTaskStatus(u) /\ Follows(f, u)
  BY <1>2 DEF Follows, Becomes
<1>4. Sound(u, x.obj, podCached)
  BY <1>1 DEF Sound, Follows, Becomes
<1>5. Ends(x, u)
  BY <1>1, <1>3, <1>4 DEF Ends
<1> QED
  BY <1>5

-----------------------------------------------------------------------------
(* Every sync ends so *)

LEMMA NoCall ==
  ASSUME TypeOK, NEW b \in BOOLEAN, NEW v
  PROVE  /\ Called(v, World(b), World(b))
         /\ UNCHANGED podVars => Enter(World(b))
<1>1. World(b) \in Worlds /\ World(b).obj = pod /\ World(b).watch = podPending
  BY WorldType
<1> QED
  BY <1>1, LaterReflexive DEF Called, Enter, podVars

LEMMA ErrorEnds ==
  ASSUME Inv, NEW b \in BOOLEAN, NEW v \in Before, NEW x, Called(v, World(b), x),
         Error(x, v)
  PROVE  \E y, t : Ends(y, t)
<1>1. IsTaskStatus(v) /\ Sound(v, x.obj, podCached)
  BY BeforeStatus, CalledOnward DEF Inv, TypeOK
<1>2. Goto(v, TRUE, FALSE) /\ Enter(x)
  BY DEF Error, Continue
<1>3. x.obj.uid = pod.uid
  BY CalledOnward
<1>4. Becomes(v, v, v.state)
  BY <1>1 DEF Follows, Becomes
<1> QED
  BY <1>1, <1>2, <1>3, <1>4, MoveEnds DEF Sound

\* The attempt completes by force only when no Pod is left.
LEMMA CompleteByForceEnds ==
  ASSUME Inv, NEW b \in BOOLEAN, NEW v \in Before, NEW x, Called(v, World(b), x),
         Enter(x), ~Present(x.obj), NEW code \in Codes \ {"None"},
         CompleteByForce(v, code)
  PROVE  \E y, t : Ends(y, t)
<1> DEFINE u == Outcome(v, "AttemptCompleted", code)
<1>1. IsTaskStatus(v) /\ "AttemptCompleted" \in States
  BY BeforeStatus DEF Inv, TypeOK, States
<1>2. Becomes(v, u, "AttemptCompleted")
  BY <1>1, OutcomeStatus
<1>3. Goto(u, TRUE, FALSE)
  BY DEF CompleteByForce, Continue, Outcome
<1> HIDE DEF u
<1> QED
  BY <1>2, <1>3, MoveEnds DEF Seen, Becomes

LEMMA ScaleEnds ==
  ASSUME Inv, NEW b \in BOOLEAN, SyncFrameworkScale
  PROVE  \E y, t : Ends(y, t)
<1> DEFINE code == CodeOr(f, "DeleteTaskRequested")
           u == [f EXCEPT !.deletionPending = TRUE, !.code = code]
<1>1. IsTaskStatus(f) /\ f \in TaskStatus
  BY DEF Inv, TypeOK, IsTaskStatus
<1>2. code \in Codes /\ code # "None" /\ (f.code # "None" => code = f.code)
  BY <1>1 DEF CodeOr, Codes, PermanentCodes, TaskStatus
<1>3. Goto(u, TRUE, FALSE) /\ UNCHANGED podVars
  BY DEF SyncFrameworkScale, Continue
<1> HIDE DEF code
<1>4. /\ u \in TaskStatus /\ u.code = code /\ u.state = f.state /\ u.pod = f.pod
      /\ u.attempt = f.attempt /\ u.retries = f.retries
  BY <1>1, <1>2 DEF TaskStatus
<1> HIDE DEF u
<1>5. Becomes(f, u, f.state)
  BY <1>1, <1>2, <1>4 DEF IsTaskStatus, Follows, Becomes
<1>6. f \in Before /\ Called(f, World(b), World(b)) /\ Enter(World(b)) /\ World(b).obj = pod
  BY <1>3, NoCall, WorldType DEF Before, Inv
<1> QED
  BY <1>3, <1>5, <1>6, MoveEnds DEF Inv, Sound

LEMMA TimeoutEnds ==
  ASSUME Inv, NEW b \in BOOLEAN, UpdatePodGracefulDeletionTimeoutSec
  PROVE  \E y, t : Ends(y, t)
<1> DEFINE u == [f EXCEPT !.timeout = spec.timeout]
<1>1. IsTaskStatus(f) /\ f \in TaskStatus /\ spec.timeout \in BOOLEAN
  BY DEF Inv, TypeOK, IsTaskStatus, TaskSpec
<1>2. Goto(u, TRUE, FALSE) /\ UNCHANGED podVars
  BY DEF UpdatePodGracefulDeletionTimeoutSec, Continue
<1>3. /\ u \in TaskStatus /\ u.code = f.code /\ u.state = f.state /\ u.pod = f.pod
      /\ u.attempt = f.attempt /\ u.retries = f.retries
  BY <1>1 DEF TaskStatus
<1> HIDE DEF u
<1>4. Becomes(f, u, f.state)
  BY <1>1, <1>3 DEF IsTaskStatus, Follows, Becomes
<1>5. f \in Before /\ Called(f, World(b), World(b)) /\ Enter(World(b)) /\ World(b).obj = pod
  BY <1>2, NoCall, WorldType DEF Before, Inv
<1> QED
  BY <1>2, <1>4, <1>5, MoveEnds DEF Inv, Sound

\* A sync that leaves the Pod alone, or only sets flags and its code.
LEMMA StayEnds ==
  ASSUME Inv, NEW b \in BOOLEAN, NEW v \in Before, NEW again \in BOOLEAN,
         Continue(v, again), UNCHANGED podVars
  PROVE  \E y, t : Ends(y, t)
<1>1. IsTaskStatus(v) /\ Called(v, World(b), World(b)) /\ Enter(World(b))
  BY NoCall, BeforeStatus DEF Inv, TypeOK
<1>2. Sound(v, pod, podCached) /\ World(b).obj = pod
  BY BeforeStatus, WorldType DEF Inv, TypeOK
<1>3. Goto(v, again, FALSE) /\ Becomes(v, v, v.state)
  BY <1>1 DEF Continue, Follows, Becomes
<1> QED
  BY <1>1, <1>2, <1>3, MoveEnds DEF Sound

\* A retry that is accountable is within MaxRetryCount.
LEMMA AccountableRetry ==
  ASSUME NEW v, RetryDecision(v).ShouldRetry, RetryDecision(v).IsAccountable,
         MaxRetryCount >= 0
  PROVE  v.retries < MaxRetryCount
<1> DEFINE rp == [FancyRetryPolicy |-> FancyRetryPolicy, MaxRetryCount |-> MaxRetryCount]
           ct == CompletionTypeOf(v.code)
           d == RP!ShouldRetry(rp, v.retries, v.code, ct, 0)
<1>1. spec.task # "gone" /\ RetryDecision(v) = d
  BY DEF RetryDecision, RP!Decision
<1>2. MaxRetryCount \in Int /\ rp.MaxRetryCount = MaxRetryCount
  BY TaskRetryPolicyAssumption
<1> HIDE DEF rp, ct
<1> DEFINE fancy == rp.FancyRetryPolicy /\ RP!IsFailed(ct)
           conflict == IF "Conflict" \in ct.attributes THEN 0 ELSE 0
<1>3. d = RP!NormalRetryPolicy(rp, v.retries, ct)
  <2>1. CASE v.code \in RP!NeverRetriedCodes
    <3>1. d = RP!Decision(FALSE, TRUE, 0)
      BY <2>1 DEF RP!ShouldRetry
    <3> QED
      BY <1>1, <3>1 DEF RP!Decision
  <2>2. CASE v.code \notin RP!NeverRetriedCodes /\ fancy /\ "Transient" \in ct.attributes
    <3>1. d = RP!Decision(TRUE, FALSE, conflict)
      BY <2>2 DEF RP!ShouldRetry
    <3> QED
      BY <1>1, <3>1 DEF RP!Decision
  <2>3. CASE /\ v.code \notin RP!NeverRetriedCodes /\ fancy
             /\ "Transient" \notin ct.attributes /\ "Permanent" \in ct.attributes
    <3>1. d = RP!Decision(FALSE, TRUE, 0)
      BY <2>3 DEF RP!ShouldRetry
    <3> QED
      BY <1>1, <3>1 DEF RP!Decision
  <2>4. CASE /\ v.code \notin RP!NeverRetriedCodes
             /\ fancy => "Transient" \notin ct.attributes /\ "Permanent" \notin ct.attributes
    BY <2>4 DEF RP!ShouldRetry
  <2> QED
    BY <2>1, <2>2, <2>3, <2>4
<1>4. \/ MaxRetryCount = RP!ExtendedUnlimitedValue
      \/ MaxRetryCount = RP!UnlimitedValue
      \/ v.retries < MaxRetryCount
  BY <1>1, <1>2, <1>3 DEF RP!NormalRetryPolicy, RP!Decision
<1> QED
  BY <1>2, <1>4 DEF RP!ExtendedUnlimitedValue, RP!UnlimitedValue

\* attemptToRetryTask, to another attempt.
LEMMA RetryEnds ==
  ASSUME Inv, NEW b \in BOOLEAN, NEW v \in Before,
         v.state = "AttemptCompleted", v.attempt < MaxAttempt,
         RetryDecision(v).ShouldRetry, UNCHANGED podVars,
         NEW n, n = v.retries + IF RetryDecision(v).IsAccountable THEN 1 ELSE 0,
         Continue(NewTaskAttempt(v, v.attempt + 1, n), TRUE)
  PROVE  \E y, t : Ends(y, t)
<1> DEFINE u == NewTaskAttempt(v, v.attempt + 1, n)
<1>1. /\ IsTaskStatus(v) /\ v \in TaskStatus /\ v.attempt = f.attempt
      /\ Sound(v, pod, podCached)
  BY BeforeStatus DEF Inv, TypeOK, IsTaskStatus
<1>2. v.retries \in Nat /\ v.attempt \in Nat /\ MaxAttempt \in Nat /\ MaxRetryCount \in Int
  BY <1>1, TaskBoundAssumption, TaskRetryPolicyAssumption DEF TaskStatus
<1>3. v.retries <= v.attempt /\ (MaxRetryCount >= 0 => v.retries <= MaxRetryCount)
  BY <1>1 DEF Sound
<1>4. n \in 0 .. MaxAttempt /\ n <= v.attempt + 1
  BY <1>2, <1>3
<1>5. MaxRetryCount >= 0 => n <= MaxRetryCount
  <2>1. CASE RetryDecision(v).IsAccountable
    <3>1. n = v.retries + 1
      BY <2>1
    <3> QED
      BY <1>2, <2>1, <3>1, AccountableRetry
  <2>2. CASE ~RetryDecision(v).IsAccountable
    <3>1. n = v.retries
      BY <1>2, <2>2
    <3> QED
      BY <1>3, <3>1
  <2> QED
    BY <2>1, <2>2
<1>6. /\ u \in TaskStatus /\ u.state = "CreationPending" /\ u.attempt = v.attempt + 1
      /\ u.retries = n /\ u.pod = 0 /\ u.code = "None"
  <2>1. v.attempt + 1 \in 0 .. MaxAttempt /\ "CreationPending" \in States /\ "None" \in Codes
    BY <1>1, <1>2 DEF TaskStatus, States, Codes
  <2> QED
    BY <1>1, <1>4, <2>1 DEF NewTaskAttempt, TaskStatus
<1>7. Goto(u, TRUE, FALSE)
  BY DEF Continue
<1> HIDE DEF u
<1>8. pod.uid = 0 => pod.by = "nobody"
  BY DEF Inv, Ordered
<1>9. IsTaskStatus(u)
  BY <1>6 DEF IsTaskStatus, HasOutcome
<1>10. Follows(f, u)
  BY <1>1, <1>2, <1>6 DEF Follows
<1>11. Sound(u, pod, podCached)
  BY <1>4, <1>5, <1>6, <1>8 DEF Sound, Seen, Over
<1>12. World(b).obj = pod /\ Onward(World(b)) /\ Enter(World(b)) /\ Sound(f, pod, podCached)
  BY NoCall, WorldType, CalledOnward DEF Inv
<1>13. Ends(World(b), u)
  BY <1>7, <1>9, <1>10, <1>11, <1>12 DEF Ends
<1> QED
  BY <1>13

LEMMA AttemptCompletedEnds ==
  ASSUME Inv, NEW b \in BOOLEAN, NEW v \in Before, SyncAttemptCompleted(v)
  PROVE  \E y, t : Ends(y, t)
<1>1. v.state = "AttemptCompleted" /\ UNCHANGED podVars
  BY DEF SyncAttemptCompleted
<1>2. CASE /\ RetryDecision(v).ShouldRetry /\ v.attempt < MaxAttempt
           /\ Continue(NewTaskAttempt(v, v.attempt + 1,
                         v.retries + IF RetryDecision(v).IsAccountable THEN 1 ELSE 0),
                       TRUE)
  BY <1>1, <1>2, RetryEnds
<1>3. ASSUME SyncTaskCompleted([v EXCEPT !.state = "Completed"])
      PROVE  \E y, t : Ends(y, t)
  <2> DEFINE u == Moved(v, "Completed")
  <2>1. IsTaskStatus(v) /\ "Completed" \in States /\ v.code # "None"
    BY <1>1, BeforeStatus DEF Inv, TypeOK, IsTaskStatus, HasOutcome, States
  <2>2. Becomes(v, u, "Completed") /\ u.code = v.code
    BY <2>1, MovedStatus
  <2>3. SyncTaskCompleted(u)
    BY <1>3 DEF Moved
  <2> HIDE DEF u
  <2>4. \E again \in BOOLEAN : Continue(u, again) \/ Continue(Completing(u), again)
    BY <2>3 DEF SyncTaskCompleted
  <2>5. Becomes(v, Completing(u), "Completed")
    <3> DEFINE z == [u EXCEPT !.completing = TRUE, !.code = u.code]
    <3>1. Completing(u) = z
      BY <2>1, <2>2 DEF Completing, CodeOr
    <3>2. u \in TaskStatus
      BY <2>2 DEF Becomes, IsTaskStatus
    <3>3. /\ z \in TaskStatus /\ z.state = u.state /\ z.code = u.code /\ z.pod = u.pod
          /\ z.attempt = u.attempt /\ z.retries = u.retries
      BY <3>2 DEF TaskStatus
    <3> HIDE DEF z
    <3> QED
      BY <2>2, <3>1, <3>3 DEF Becomes, IsTaskStatus, Follows
  <2>6. ~Present(World(b).obj) /\ Called(v, World(b), World(b)) /\ Enter(World(b))
    BY <1>1, BeforeStatus, NoCall, WorldType DEF Inv, TypeOK, Sound, Over
  <2>7. PICK again \in BOOLEAN : Goto(u, again, FALSE) \/ Goto(Completing(u), again, FALSE)
    BY <2>4 DEF Continue
  <2> QED
    BY <2>2, <2>5, <2>6, <2>7, MoveEnds DEF Seen
<1> QED
  BY <1>2, <1>3 DEF SyncAttemptCompleted

LEMMA CompleteAfterDeleteEnds ==
  ASSUME Inv, NEW b \in BOOLEAN, NEW v \in Before, NEW w, Called(v, World(b), w),
         NEW code \in Codes \ {"None"}, CompleteAfterDelete(w, v, code)
  PROVE  \E y, t : Ends(y, t)
<1>1. World(b) \in Worlds /\ w \in Worlds
  BY WorldType DEF Inv, Called, Later
<1>2. PICK r \in DeleteResults(w, v.pod, "cleanup") :
        \/ Confirmed(r, v.pod) /\ Enter(r.w) /\ CompleteByForce(v, code)
        \/ ~Confirmed(r, v.pod) /\ Error(r.w, v)
  BY DEF CompleteAfterDelete
<1>3. Called(v, w, r.w)
  BY <1>1, CleanupDelete
<1>4. Called(v, World(b), r.w)
  BY <1>1, <1>3, CalledTransitive
<1>5. Confirmed(r, v.pod) => ~Present(r.w.obj)
  BY <1>1, DeleteCall
<1> QED
  BY <1>2, <1>4, <1>5, CompleteByForceEnds, ErrorEnds

LEMMA CreationRequestedEnds ==
  ASSUME Inv, NEW b \in BOOLEAN, NEW v \in Before, NEW w, Called(v, World(b), w),
         SyncCreationRequested(w, v)
  PROVE  \E y, t : Ends(y, t)
<1>1. {"DeleteTaskRequested", "PodLocalCacheCreationTimeout"} \subseteq Codes \ {"None"}
  BY DEF Codes, PermanentCodes
<1>2. CASE \E code \in {"DeleteTaskRequested", "PodLocalCacheCreationTimeout"} :
             CompleteAfterDelete(w, v, code)
  BY <1>1, <1>2, CompleteAfterDeleteEnds
<1>3. CASE Wait(v) /\ Enter(w)
  <2>1. IsTaskStatus(v) /\ v.state = "CreationRequested"
    BY BeforeStatus DEF Inv, TypeOK, SyncCreationRequested
  <2>2. Becomes(v, v, "CreationRequested") /\ Goto(v, FALSE, TRUE)
    BY <1>3, <2>1 DEF Becomes, Follows, Wait
  <2> QED
    BY <1>3, <2>1, <2>2, MoveEnds DEF Seen, Over
<1> QED
  BY <1>2, <1>3 DEF SyncCreationRequested

LEMMA CompleteAfterCleanupEnds ==
  ASSUME Inv, NEW b \in BOOLEAN, NEW v \in Before, NEW w, Called(v, World(b), w),
         v.state = "CreationPending",
         NEW code \in Codes \ {"None"}, CompleteAfterCleanup(w, v, code)
  PROVE  \E y, t : Ends(y, t)
<1>1. World(b) \in Worlds /\ w \in Worlds /\ World(b).obj = pod
  BY WorldType DEF Inv, Called, Later
<1>2. PICK r \in ConfirmedCleanups(w, v) :
        \/ r.ok /\ Enter(r.w) /\ CompleteByForce(v, code)
        \/ ~r.ok /\ Error(r.w, v)
  BY DEF CompleteAfterCleanup
<1>3. Called(v, w, r.w) /\ (r.ok /\ w.obj.uid # v.pod => ~Present(r.w.obj))
  BY <1>1, ConfirmedCleanupCall
<1>4. Called(v, World(b), r.w)
  BY <1>1, <1>3, CalledTransitive
<1>5. v.pod = 0 /\ r.w.obj.uid = pod.uid /\ w.obj.uid = pod.uid
      /\ (~Present(pod) => r.w.obj = pod)
  BY <1>4, BeforeStatus, CalledOnward DEF Inv, TypeOK, Sound
<1>6. pod.uid = 0 => ~Present(pod)
  BY DEF Inv, Ordered
<1>7. r.ok => ~Present(r.w.obj)
  BY <1>3, <1>5, <1>6
<1> QED
  BY <1>2, <1>4, <1>7, CompleteByForceEnds, ErrorEnds

\* createPod succeeded, or lost its answer: the Pod has a new uid.
LEMMA CreatedOnward ==
  ASSUME Inv, NEW b \in BOOLEAN, NEW v \in Before, NEW w, Called(v, World(b), w),
         v.state = "CreationPending", ~Present(w.obj),
         NEW x, x = Store(w, [NoPod EXCEPT !.uid = w.obj.uid + 1, !.phase = "alive"])
  PROVE  /\ Onward(x) /\ x.obj.uid # 0 /\ x.obj.by = "nobody"
         /\ Sound(f, x.obj, podCached) /\ Sound(v, x.obj, podCached)
<1> DEFINE o == [NoPod EXCEPT !.uid = w.obj.uid + 1, !.phase = "alive"]
<1>1. w \in Worlds /\ w.obj \in Pod /\ pod \in Pod
  BY DEF Inv, TypeOK, Called, Later, Worlds
<1>2. o \in Pod /\ o.uid = w.obj.uid + 1 /\ o.by = "nobody" /\ ~o.forced
  <2>1. w.obj.uid + 1 \in Nat
    BY <1>1 DEF Pod
  <2>2. NoPod \in Pod /\ NoPod.by = "nobody" /\ ~NoPod.forced
    BY DEF NoPod, Pod, Phases
  <2> QED
    BY <2>1, <2>2 DEF Pod, Phases
<1>3. Onward(w) /\ w.obj.uid = pod.uid
  BY CalledOnward
<1>4. x \in Worlds /\ x.obj = o /\ x.watch = w.watch \cup {o}
  <2> HIDE DEF o
  <2>1. x = Store(w, o)
    BY DEF o
  <2>2. Store(w, o) \in Worlds /\ Store(w, o).obj = o /\ Store(w, o).watch = w.watch \cup {o}
    BY <1>1, <1>2 DEF Store, Worlds
  <2> QED
    BY <2>1, <2>2
<1> HIDE DEF o
<1>5. w.obj.uid \in Nat /\ Age(w.obj) \in Nat /\ Age(o) \in Nat /\ Age(pod) \in Nat
  BY <1>1, <1>2, AgeOrder DEF Pod
<1>6. Age(w.obj) < Age(o)
  <2>1. Age(o) <= Age(w.obj) => o.uid <= w.obj.uid
    BY <1>1, <1>2, AgeOrder
  <2> QED
    BY <1>2, <1>5, <2>1
<1>7. x.obj.uid # 0 /\ x.obj.by = "nobody" /\ ~x.obj.forced
  BY <1>2, <1>4, <1>5
<1>8. ASSUME NEW p \in x.watch
      PROVE  \/ p \in podPending
             \/ p.uid # 0 /\ Age(pod) < Age(p) /\ Age(p) <= Age(x.obj)
  <2>1. CASE p = o
    BY <1>3, <1>4, <1>5, <1>6, <1>7, <2>1 DEF Onward
  <2>2. CASE p \in w.watch
    <3>1. p \in Pod /\ Age(p) \in Nat
      BY <1>1, <2>2, AgeOrder DEF Worlds
    <3> QED
      BY <1>3, <1>4, <1>5, <1>6, <2>2, <3>1 DEF Onward
  <2> QED
    BY <1>4, <2>1, <2>2
<1>9. Onward(x)
  BY <1>3, <1>4, <1>5, <1>6, <1>7, <1>8 DEF Onward
<1>10. Sound(f, w.obj, podCached) /\ Sound(v, w.obj, podCached) /\ v.state = f.state
  BY CalledOnward, BeforeStatus DEF Inv, TypeOK
<1>11. Sound(f, x.obj, podCached) /\ Sound(v, x.obj, podCached)
  BY <1>7, <1>10 DEF Sound, Seen, Over
<1> QED
  BY <1>7, <1>9, <1>11

LEMMA TaskAttemptCreationEnds ==
  ASSUME Inv, NEW b \in BOOLEAN, NEW v \in Before, NEW w, Called(v, World(b), w),
         v.state = "CreationPending", CreateTaskAttempt(w, v)
  PROVE  \E y, t : Ends(y, t)
<1>1. {"PodCreationPermanentError", "PodCreationUnknownError"} \subseteq Codes \ {"None"}
  BY DEF Codes, PermanentCodes, UnknownCodes
<1>2. CASE \E code \in {"PodCreationPermanentError", "PodCreationUnknownError"} :
             CompleteAfterCleanup(w, v, code)
  BY <1>1, <1>2, CompleteAfterCleanupEnds
<1>3. ASSUME NEW r \in CreatePodResults(w),
             \/ /\ r.ok /\ Enter(r.w)
                /\ Wait([v EXCEPT !.state = "CreationRequested", !.pod = r.w.obj.uid])
             \/ ~r.ok /\ Error(r.w, v)
      PROVE  \E y, t : Ends(y, t)
  <2> DEFINE created == Store(w, [NoPod EXCEPT !.uid = w.obj.uid + 1, !.phase = "alive"])
  <2>1. /\ r.w = w \/ (~Present(w.obj) /\ r.w = created)
        /\ r.ok => ~Present(w.obj) /\ r.w = created
    BY CreateEnds DEF CreatePodResults
  <2>2. IsTaskStatus(v) /\ v \in TaskStatus /\ Follows(f, v) /\ v.attempt = f.attempt
        /\ v.pod = f.pod /\ v.pod = 0
    BY BeforeStatus DEF Inv, TypeOK, IsTaskStatus, Sound
  <2>3. CASE r.ok
    <3> DEFINE u == [v EXCEPT !.state = "CreationRequested", !.pod = r.w.obj.uid]
    <3>1. /\ Onward(r.w) /\ r.w.obj.uid # 0 /\ r.w.obj.by = "nobody"
          /\ Sound(f, r.w.obj, podCached) /\ Sound(v, r.w.obj, podCached)
      BY <2>1, <2>3, CreatedOnward
    <3>2. Enter(r.w) /\ Goto(u, FALSE, TRUE)
      BY <1>3, <2>3 DEF Wait
    <3>3. r.w.obj.uid \in Nat
      BY <3>1 DEF Onward, Worlds, Pod
    <3>4. /\ u \in TaskStatus /\ u.state = "CreationRequested" /\ u.pod = r.w.obj.uid
          /\ u.code = v.code /\ u.attempt = v.attempt /\ u.retries = v.retries
      BY <2>2, <3>3 DEF TaskStatus, States
    <3> HIDE DEF u
    <3>5. IsTaskStatus(u)
      BY <3>4 DEF IsTaskStatus, HasOutcome
    <3>6. Follows(f, u)
      BY <2>2, <3>4 DEF Follows
    <3>7. Sound(u, r.w.obj, podCached)
      BY <3>1, <3>4 DEF Sound, Seen, Over
    <3>8. Ends(r.w, u)
      BY <3>1, <3>2, <3>5, <3>6, <3>7 DEF Ends
    <3> QED
      BY <3>8
  <2>4. CASE ~r.ok /\ r.w = w
    BY <1>3, <2>4, ErrorEnds
  <2>5. CASE ~r.ok /\ ~Present(w.obj) /\ r.w = created
    <3>1. /\ Onward(r.w)
          /\ Sound(f, r.w.obj, podCached) /\ Sound(v, r.w.obj, podCached)
      BY <2>5, CreatedOnward
    <3>2. Enter(r.w) /\ Goto(v, TRUE, FALSE)
      BY <1>3, <2>5 DEF Error, Continue
    <3>3. Ends(r.w, v)
      BY <2>2, <3>1, <3>2 DEF Ends
    <3> QED
      BY <3>3
  <2> QED
    BY <2>1, <2>3, <2>4, <2>5
<1> QED
  BY <1>2, <1>3 DEF CreateTaskAttempt

LEMMA CreationPendingEnds ==
  ASSUME Inv, NEW b \in BOOLEAN, NEW v \in Before, NEW w, Called(v, World(b), w),
         SyncCreationPending(w, v)
  PROVE  \E y, t : Ends(y, t)
<1>1. v.state = "CreationPending" /\ "DeleteTaskRequested" \in Codes \ {"None"}
  BY DEF SyncCreationPending, Codes, PermanentCodes
<1>2. CASE Enter(w) /\ Continue(v, FALSE)
  <2>1. IsTaskStatus(v)
    BY BeforeStatus DEF Inv, TypeOK
  <2>2. Becomes(v, v, "CreationPending") /\ Goto(v, FALSE, FALSE)
    BY <1>1, <1>2, <2>1 DEF Becomes, Follows, Continue
  <2> QED
    BY <1>1, <1>2, <2>2, MoveEnds DEF Seen, Over
<1>3. CASE CompleteAfterCleanup(w, v, "DeleteTaskRequested")
  BY <1>1, <1>3, CompleteAfterCleanupEnds
<1>4. CASE CreateTaskAttempt(w, v)
  BY <1>1, <1>4, TaskAttemptCreationEnds
<1> QED
  BY <1>2, <1>3, <1>4 DEF SyncCreationPending

\* What the local cache says of the managed Pod, unless it is not found there.
LEMMA Managed ==
  ASSUME Inv, NEW v \in Before, HasPod(v)
  PROVE  /\ ManagedPhase(v) # "gone" =>
              /\ v.state \in Seen \cup {"CreationRequested"}
              /\ podCached.uid = pod.uid /\ v.pod = pod.uid
              /\ podCached.phase = ManagedPhase(v)
              /\ podCached.phase # "alive" => pod.phase # "alive"
         /\ ManagedPhase(v) = "gone" /\ v.state \in Seen => ~Present(pod)
<1>1. IsTaskStatus(v) /\ v \in TaskStatus /\ Sound(v, pod, podCached)
  BY BeforeStatus DEF Inv, TypeOK, IsTaskStatus
<1>2. pod \in Pod /\ podCached \in Pod /\ Ordered
  BY DEF Inv, TypeOK
<1>3. podCached.uid = pod.uid =>
        /\ podCached.phase # "alive" => pod.phase # "alive"
        /\ podCached.phase = "gone" => pod.phase = "gone"
  BY <1>2, AgeOrder DEF Ordered
<1>4. v.state \in Seen \cup {"CreationRequested", "CreationPending"}
  BY <1>1 DEF HasPod, TaskStatus, States, Seen
<1>5. CASE v.state = "CreationPending"
  <2>1. v.pod = 0 /\ v.state \notin Seen
    BY <1>1, <1>5 DEF Sound, Seen
  <2>2. ManagedPhase(v) = "gone"
    BY <1>2, <2>1 DEF ManagedPhase, Ordered, Present
  <2> QED
    BY <2>1, <2>2
<1>6. CASE v.state \in Seen \cup {"CreationRequested"}
  <2>1. v.pod = pod.uid /\ (v.state \in Seen => podCached.uid = pod.uid)
    BY <1>1, <1>6 DEF Sound
  <2>2. ManagedPhase(v) # "gone" => podCached.uid = pod.uid /\ podCached.phase = ManagedPhase(v)
    BY <2>1 DEF ManagedPhase
  <2>3. ManagedPhase(v) = "gone" /\ v.state \in Seen => podCached.phase = "gone"
    BY <2>1 DEF ManagedPhase
  <2> QED
    BY <1>3, <1>6, <2>1, <2>2, <2>3 DEF Present
<1> QED
  BY <1>4, <1>5, <1>6

LEMMA PodNilEnds ==
  ASSUME Inv, NEW b \in BOOLEAN, NEW v \in Before, SyncPodNil(World(b), v)
  PROVE  \E y, t : Ends(y, t)
<1>1. World(b) \in Worlds
  BY WorldType DEF Inv
<1>2. PICK r \in LocalCleanups(World(b), v) :
        \/ ~r.ok /\ Error(r.w, v)
        \/ /\ r.ok
           /\ \/ SyncCreationRequested(r.w, v)
              \/ SyncCreationPending(r.w, v)
              \/ SyncPodGone(r.w, v)
  BY DEF SyncPodNil
<1>3. Called(v, World(b), r.w)
  BY <1>1, LocalCleanupCall
<1>4. CASE SyncPodGone(r.w, v)
  <2>1. IsTaskStatus(v) /\ v.state \in Seen /\ HasPod(v) /\ ManagedPhase(v) = "gone"
    BY <1>4, BeforeStatus
    DEF Inv, TypeOK, IsTaskStatus, TaskStatus, States, Seen, SyncPodNil, SyncPodGone, HasPod
  <2>2. ~Present(r.w.obj)
    BY <1>3, <2>1, Managed, CalledOnward
  <2>3. "PodExternalDeleted" \in Codes \ {"None"}
    BY DEF Codes
  <2> QED
    BY <1>3, <1>4, <2>2, <2>3, CompleteByForceEnds DEF SyncPodGone
<1> QED
  BY <1>2, <1>3, <1>4, ErrorEnds, CreationRequestedEnds, CreationPendingEnds

LEMMA BecomesTransitive ==
  ASSUME NEW v, NEW u, NEW t, NEW s, NEW q, Becomes(v, u, s), Becomes(u, t, q)
  PROVE  Becomes(v, t, q)
BY DEF Becomes, Follows

\* completeTaskAttempt of a Task whose Pod is in the local cache.
LEMMA CompleteEnds ==
  ASSUME Inv, NEW b \in BOOLEAN, NEW v \in Before,
         v.state \in Seen \cup {"CreationRequested"}, podCached.uid = pod.uid,
         NEW t, NEW s, Becomes(v, t, s), NEW code \in Codes \ {"None"},
         Complete(t, code), UNCHANGED podVars
  PROVE  \E y, z : Ends(y, z)
<1> DEFINE u == Outcome(t, "DeletionPending", code)
<1>1. IsTaskStatus(t) /\ "DeletionPending" \in States
  BY DEF Becomes, States
<1>2. Becomes(v, u, "DeletionPending")
  BY <1>1, OutcomeStatus, BecomesTransitive
<1>3. Goto(u, TRUE, FALSE)
  BY DEF Complete, Continue, Outcome
<1> HIDE DEF u
<1>4. Called(v, World(b), World(b)) /\ Enter(World(b))
  BY NoCall DEF Inv
<1> QED
  BY <1>2, <1>3, <1>4, MoveEnds DEF Over

LEMMA PodPhaseEnds ==
  ASSUME Inv, NEW b \in BOOLEAN, NEW v \in Before,
         v.state \in Seen \cup {"CreationRequested"}, podCached.uid = pod.uid,
         SyncPodPhase(v), UNCHANGED podVars
  PROVE  \E y, z : Ends(y, z)
<1> DEFINE u == IF v.state = "CreationRequested" THEN Moved(v, "Preparing") ELSE v
<1>1. IsTaskStatus(v) /\ Sound(v, pod, podCached)
  BY BeforeStatus DEF Inv, TypeOK
<1>2. {"Preparing", "Running"} \subseteq States /\ {"Preparing", "Running"} \cap HasOutcome = {}
  BY DEF States, HasOutcome
<1>3. ASSUME NEW t, IsTaskStatus(t), NEW s \in {"Preparing", "Running"}
      PROVE  Becomes(t, Moved(t, s), s)
  BY <1>2, <1>3, MovedStatus
<1>4. \E s \in Seen : Becomes(v, u, s) /\ (s # "Preparing" => s = v.state)
  <2>1. CASE v.state = "CreationRequested"
    BY <1>1, <1>3, <2>1 DEF Seen
  <2>2. CASE v.state # "CreationRequested"
    BY <1>1, <2>2 DEF Becomes, Follows
  <2> QED
    BY <2>1, <2>2
<1>5. ASSUME NEW t, NEW s \in Seen, Becomes(v, t, s), s \in {"Preparing", "Running"} \/ s = v.state,
             IF t.deletionPending THEN Complete(t, "DeleteTaskRequested")
             ELSE Continue(t, FALSE)
      PROVE  \E y, z : Ends(y, z)
  <2>1. CASE Complete(t, "DeleteTaskRequested")
    <3>1. "DeleteTaskRequested" \in Codes \ {"None"}
      BY DEF Codes, PermanentCodes
    <3> QED
      BY <1>5, <2>1, <3>1, CompleteEnds
  <2>2. CASE Continue(t, FALSE)
    <3>1. Called(v, World(b), World(b)) /\ Enter(World(b)) /\ World(b).obj = pod
      BY NoCall, WorldType DEF Inv
    <3>2. Goto(t, FALSE, FALSE)
      BY <2>2 DEF Continue
    <3>3. s \in {"DeletionRequested", "Deleting"} => pod.phase # "alive"
      BY <1>1, <1>5 DEF Sound
    <3>4. s # "CreationPending" /\ s \notin Over
      BY DEF Seen, Over
    <3> QED
      BY <1>5, <3>1, <3>2, <3>3, <3>4, MoveEnds
  <2> QED
    BY <1>5, <2>1, <2>2
<1>6. PICK s \in Seen : Becomes(v, u, s) /\ (s # "Preparing" => s = v.state)
  BY <1>4
<1>7. IsTaskStatus(u)
  BY <1>6 DEF Becomes
<1>8. \A q \in {"Preparing", "Running"} : Becomes(v, Moved(u, q), q) /\ q \in Seen
  BY <1>3, <1>6, <1>7, BecomesTransitive DEF Seen
<1>9. PodFailedCodes \cup {"Succeeded"} \subseteq Codes \ {"None"}
  BY PodFailedCodesAssumption DEF Codes, PermanentCodes, UnknownCodes
<1>10. \/ \E t \in {u, Moved(u, "Preparing"), Moved(u, "Running")} :
            IF t.deletionPending THEN Complete(t, "DeleteTaskRequested")
            ELSE Continue(t, FALSE)
       \/ \E code \in PodFailedCodes \cup {"Succeeded"} : Complete(u, code)
  BY DEF SyncPodPhase, Moved
<1> HIDE DEF u
<1>11. CASE \E code \in PodFailedCodes \cup {"Succeeded"} : Complete(u, code)
  BY <1>6, <1>9, <1>11, CompleteEnds
<1>12. CASE \E t \in {u, Moved(u, "Preparing"), Moved(u, "Running")} :
              IF t.deletionPending THEN Complete(t, "DeleteTaskRequested")
              ELSE Continue(t, FALSE)
  BY <1>5, <1>6, <1>8, <1>12
<1> QED
  BY <1>10, <1>11, <1>12

\* The Pod is deleted on behalf of its completion: only once its outcome is
\* persisted, and the Task says so only if the call succeeded.
LEMMA DeletionPendingEnds ==
  ASSUME Inv, NEW b \in BOOLEAN, NEW v \in Before,
         v.state = "DeletionPending",
         NEW r \in DeleteResults(World(b), v.pod, "completion"),
         \/ ~r.ok /\ Error(r.w, v)
         \/ /\ r.ok /\ Enter(r.w)
            /\ SyncPodDone([v EXCEPT !.state = "DeletionRequested"])
  PROVE  \E y, z : Ends(y, z)
<1>1. World(b) \in Worlds /\ World(b).obj = pod
  BY WorldType DEF Inv
<1>2. /\ Later(World(b), r.w) /\ r.w.obj.forced = pod.forced
      /\ r.ok /\ r.w.obj.uid = v.pod => r.w.obj.phase # "alive"
  BY <1>1, DeleteCall
<1>3. f.code # "None"
  BY BeforeStatus DEF Inv, TypeOK, IsTaskStatus, HasOutcome
<1>4. /\ Onward(r.w) /\ r.w.obj.uid = pod.uid
      /\ Sound(f, r.w.obj, podCached) /\ Sound(v, r.w.obj, podCached)
  BY <1>2, <1>3, LaterOnward
<1>5. IsTaskStatus(v) /\ Follows(f, v) /\ v.attempt = f.attempt /\ v.code # "None"
  BY BeforeStatus DEF Inv, TypeOK, IsTaskStatus, HasOutcome
<1>6. CASE ~r.ok /\ Error(r.w, v)
  <2>1. Enter(r.w) /\ Goto(v, TRUE, FALSE)
    BY <1>6 DEF Error, Continue
  <2>2. Ends(r.w, v)
    BY <1>4, <1>5, <2>1 DEF Ends
  <2> QED
    BY <2>2
<1>7. CASE /\ r.ok /\ Enter(r.w)
           /\ SyncPodDone([v EXCEPT !.state = "DeletionRequested"])
  <2> DEFINE u == Moved(v, "DeletionRequested")
  <2>1. "DeletionRequested" \in States
    BY DEF States
  <2>2. Becomes(v, u, "DeletionRequested") /\ u.code = v.code
    BY <1>5, <2>1, MovedStatus
  <2>3. Goto(u, FALSE, FALSE)
    BY <1>7 DEF SyncPodDone, Continue, Moved
  <2> HIDE DEF u
  <2>4. IsTaskStatus(u) /\ Follows(f, u)
    BY <1>5, <2>2 DEF Becomes, Follows
  <2>5. v.pod = pod.uid /\ podCached.uid = r.w.obj.uid
    BY <1>4 DEF Sound, Seen
  <2>6. Sound(u, r.w.obj, podCached)
    BY <1>2, <1>4, <1>5, <1>7, <2>2, <2>5 DEF Sound, Becomes, Seen, Over
  <2>7. Ends(r.w, u)
    BY <1>4, <1>7, <2>3, <2>4, <2>6 DEF Ends
  <2> QED
    BY <2>7
<1> QED
  BY <1>6, <1>7

LEMMA PodAliveEnds ==
  ASSUME Inv, NEW b \in BOOLEAN, NEW v \in Before, SyncPodAlive(World(b), v)
  PROVE  \E y, z : Ends(y, z)
<1>1. v.state \in Seen \cup {"CreationRequested"} /\ podCached.uid = pod.uid
  BY Managed DEF SyncPodAlive
<1>2. CASE SyncPodDone(v) /\ UNCHANGED podVars
  BY <1>2, StayEnds DEF SyncPodDone
<1>3. CASE SyncPodPhase(v) /\ UNCHANGED podVars
  BY <1>1, <1>3, PodPhaseEnds
<1> QED
  BY <1>2, <1>3, DeletionPendingEnds DEF SyncPodAlive

LEMMA PodDeletingEnds ==
  ASSUME Inv, NEW b \in BOOLEAN, NEW v \in Before, SyncPodDeleting(World(b), v)
  PROVE  \E y, z : Ends(y, z)
<1> DEFINE u == Outcome(v, "Deleting", "PodExternalDeleted")
<1>1. /\ v.state \in Seen \cup {"CreationRequested"} /\ podCached.uid = pod.uid
      /\ pod.phase # "alive"
  BY Managed DEF SyncPodDeleting
<1>2. IsTaskStatus(v) /\ "Deleting" \in States /\ "PodExternalDeleted" \in Codes \ {"None"}
  BY BeforeStatus DEF Inv, TypeOK, States, Codes
<1>3. Becomes(v, u, "Deleting")
  BY <1>2, OutcomeStatus
<1>4. ASSUME NEW x, Called(v, World(b), x), Enter(x),
             NEW again \in BOOLEAN, NEW wait \in BOOLEAN, Goto(u, again, wait)
      PROVE  \E y, z : Ends(y, z)
  <2> HIDE DEF u
  <2>1. x.obj.phase # "alive"
    BY <1>1, <1>4, CalledOnward
  <2> QED
    BY <1>1, <1>3, <1>4, <2>1, MoveEnds DEF Over
<1>5. CASE Wait(u) /\ Enter(World(b))
  <2>1. Goto(u, FALSE, TRUE)
    BY <1>5 DEF Wait
  <2> HIDE DEF u
  <2> QED
    BY <1>4, <1>5, <2>1, NoCall DEF Inv
<1>6. ASSUME NEW r \in GracefulDeletionResults(World(b), v, podCached),
             Enter(r.w), Continue(u, ~r.ok)
      PROVE  \E y, z : Ends(y, z)
  <2>1. Called(v, World(b), r.w) /\ (~r.ok) \in BOOLEAN
    BY WorldType, GracefulDeletionCall DEF Inv
  <2>2. Goto(u, ~r.ok, FALSE)
    BY <1>6 DEF Continue
  <2> HIDE DEF u
  <2> QED
    BY <1>4, <1>6, <2>1, <2>2
<1> QED
  BY <1>5, <1>6 DEF SyncPodDeleting, Outcome

LEMMA SyncEnds ==
  ASSUME Inv, NEW b \in BOOLEAN, Sync(World(b))
  PROVE  \E y, t : Ends(y, t)
<1>1. CASE SyncTaskState(World(b))
  <2>1. PICK v \in Before :
          \/ v.state = "Completed" /\ Continue(v, FALSE) /\ UNCHANGED podVars
          \/ SyncAttemptCompleted(v)
          \/ SyncPodNil(World(b), v)
          \/ SyncPodAlive(World(b), v)
          \/ SyncPodDeleting(World(b), v)
    BY <1>1 DEF SyncTaskState
  <2> QED
    BY <2>1, StayEnds, AttemptCompletedEnds, PodNilEnds, PodAliveEnds, PodDeletingEnds
<1> QED
  BY <1>1, ScaleEnds, TimeoutEnds DEF Sync

-----------------------------------------------------------------------------
(* Every step preserves the invariant *)

LEMMA InitInv == Init => Inv
<1> SUFFICES ASSUME Init PROVE Inv
  OBVIOUS
<1>1. NoPod \in Pod /\ NoPod.uid = 0 /\ NoPod.phase = "gone" /\ NoPod.by = "nobody"
  BY DEF NoPod, Pod, Phases
<1>2. /\ f = status /\ pod = NoPod /\ podCached = NoPod /\ podPending = {}
      /\ spec \in TaskSpec
  BY DEF Init, TaskSpec
<1>3. spec.timeout \in BOOLEAN /\ "None" \in Codes /\ "CreationPending" \in States
  BY <1>2 DEF TaskSpec, Codes, States
<1>4. /\ f \in TaskStatus /\ f.state = "CreationPending" /\ f.pod = 0 /\ f.code = "None"
      /\ f.attempt = 0 /\ f.retries = 0
  BY <1>2, <1>3, TaskBoundAssumption DEF Init, TaskStatus
<1>5. TypeOK
  <2>1. IsTaskStatus(f) /\ IsTaskStatus(status)
    BY <1>2, <1>4 DEF IsTaskStatus, HasOutcome
  <2>2. queued \in BOOLEAN /\ timer \in BOOLEAN /\ due \in BOOLEAN
    BY DEF Init
  <2>3. overdue \in Nat /\ edits \in 0 .. MaxEdits /\ crashes \in 0 .. MaxCrashes
    BY TaskBoundAssumption DEF Init
  <2> QED
    BY <1>1, <1>2, <2>1, <2>2, <2>3 DEF TypeOK
<1>6. Ordered
  <2>1. Age(NoPod) \in Nat
    BY <1>1, AgeOrder
  <2> QED
    BY <1>1, <1>2, <2>1 DEF Ordered, Present
<1>7. Sound(f, pod, podCached)
  BY <1>1, <1>2, <1>4, TaskRetryPolicyAssumption DEF Sound, Seen, Over
<1>8. Follows(status, f)
  BY <1>2 DEF Follows
<1> QED
  BY <1>2, <1>5, <1>6, <1>7, <1>8 DEF Inv

\* What follows a world that is onward from this one.
LEMMA EnterKeeps ==
  ASSUME Inv, NEW x, Onward(x), Enter(x)
  PROVE  /\ pod' \in Pod /\ podPending' \subseteq Pod /\ podCached' = podCached
         /\ pod' = x.obj
         /\ Ordered'
<1>1. /\ pod \in Pod /\ podCached \in Pod /\ podPending \subseteq Pod /\ Ordered
  BY DEF Inv, TypeOK
<1>2. /\ pod' = x.obj /\ podPending' = x.watch /\ podCached' = podCached
      /\ x.obj \in Pod /\ x.watch \subseteq Pod
  BY DEF Enter, Onward, Worlds
<1>3. /\ Age(pod) \in Nat /\ Age(podCached) \in Nat /\ Age(x.obj) \in Nat
      /\ \A p \in x.watch : Age(p) \in Nat
  BY <1>1, <1>2, AgeOrder
<1>4. x.obj.uid = 0 => ~Present(x.obj) /\ x.obj.by = "nobody"
  BY <1>1 DEF Onward, Ordered
<1>5. Age(podCached) <= Age(x.obj)
  BY <1>1, <1>3 DEF Onward, Ordered
<1>6. \A p \in x.watch : p.uid # 0 /\ Age(podCached) < Age(p) /\ Age(p) <= Age(x.obj)
  BY <1>1, <1>3 DEF Onward, Ordered
<1>7. Ordered'
  BY <1>1, <1>2, <1>4, <1>5, <1>6 DEF Ordered
<1> QED
  BY <1>2, <1>7

LEMMA EndsKeeps ==
  ASSUME Inv, Persisted, NEW x, NEW u, Ends(x, u)
  PROVE  /\ Inv'
         /\ status' = status
         /\ pod'.forced /\ ~pod.forced => status.timeout /\ overdue = pod.uid
<1>1. /\ pod' \in Pod /\ podPending' \subseteq Pod /\ podCached' = podCached
      /\ pod' = x.obj /\ Ordered'
  BY EnterKeeps DEF Ends
<1>2. PICK again \in BOOLEAN, wait \in BOOLEAN : Goto(u, again, wait)
  BY DEF Ends
<1>3. /\ f' = u /\ status' = status /\ spec' = spec /\ overdue' = overdue
      /\ edits' = edits /\ crashes' = crashes
      /\ queued' \in BOOLEAN /\ timer' \in BOOLEAN /\ due' \in BOOLEAN
  BY <1>2 DEF Goto, boundVars
<1>4. status = f
  BY DEF Persisted
<1>5. TypeOK'
  BY <1>1, <1>3 DEF Inv, TypeOK, Ends
<1>6. Sound(f, pod, podCached)' /\ Sound(status, pod, podCached)'
  BY <1>1, <1>3, <1>4 DEF Ends
<1>7. Follows(status, f)'
  BY <1>3, <1>4 DEF Ends
<1> QED
  BY <1>1, <1>3, <1>4, <1>5, <1>6, <1>7 DEF Inv, Ends, Onward

\* The nodes and other clients make the Pod older, too.
LEMMA ClusterKeeps ==
  ASSUME Inv, NEW x, Later(World(FALSE), x), ClusterChanges(x),
         x.obj.by = "completion" => pod.by = "completion",
         x.obj.forced = pod.forced
  PROVE  Inv' /\ status' = status /\ pod'.forced = pod.forced
<1>1. /\ Enter(x) /\ spec' = spec /\ status' = status /\ f' = f /\ queued' = queued
      /\ timer' = timer /\ due' = due /\ overdue' = overdue
      /\ edits' = edits /\ crashes' = crashes
  BY DEF ClusterChanges, syncVars, timeVars, boundVars
<1>2. f \in Before
  BY DEF Before
<1>3. /\ Onward(x) /\ x.obj.uid = pod.uid
      /\ ~Present(pod) => x.obj = pod
      /\ pod.phase # "alive" => x.obj.phase # "alive"
      /\ Sound(f, x.obj, podCached)
  BY <1>2, LaterOnward
<1>4. /\ pod' \in Pod /\ podPending' \subseteq Pod /\ podCached' = podCached
      /\ pod' = x.obj /\ Ordered'
  BY <1>1, <1>3, EnterKeeps
<1>5. Sound(status, x.obj, podCached)
  BY <1>3 DEF Inv, Sound
<1>6. TypeOK'
  BY <1>1, <1>4 DEF Inv, TypeOK
<1>7. Sound(f, pod, podCached)' /\ Sound(status, pod, podCached)' /\ Follows(status, f)'
  BY <1>1, <1>3, <1>4, <1>5 DEF Inv
<1> QED
  BY <1>1, <1>4, <1>6, <1>7 DEF Inv

\* What a step promises besides the invariant.
Promises ==
  /\ status'.attempt = status.attempt =>
       /\ status.pod # 0 => status'.pod = status.pod
       /\ status.code # "None" => status'.code = status.code
  /\ pod'.forced /\ ~pod.forced => status.timeout /\ overdue = pod.uid

LEMMA PodProgressesKeeps ==
  ASSUME Inv, PodProgresses
  PROVE  Inv' /\ Promises
<1>1. PICK s \in {"Running", "Succeeded", "Failed"} :
        /\ pod.status = "Pending" \/ (pod.status = "Running" /\ s # "Running")
        /\ ClusterChanges(Store(World(FALSE), [pod EXCEPT !.status = s]))
  BY DEF PodProgresses
<1> DEFINE o == [pod EXCEPT !.status = s]
           x == Store(World(FALSE), o)
<1>2. pod \in Pod /\ World(FALSE) \in Worlds /\ World(FALSE).obj = pod /\ Present(pod)
  BY WorldType DEF Inv, TypeOK, PodProgresses, Present
<1>3. /\ o \in Pod /\ o.uid = pod.uid /\ o.phase = pod.phase /\ o.by = pod.by
      /\ o.forced = pod.forced /\ o.status = s
  BY <1>2 DEF Pod
<1>4. Age(pod) < Age(o)
  <2> HIDE DEF o
  <2>1. PhaseAge(o) = PhaseAge(pod) /\ PhaseAge(pod) \in Int
    BY <1>2, <1>3 DEF PhaseAge, Pod, Phases
  <2> QED
    BY <1>1, <1>3, <2>1 DEF Age
<1> HIDE DEF o
<1>5. Later(World(FALSE), x) /\ x.obj = o
  BY <1>2, <1>3, <1>4, StoreLater
<1>6. ClusterChanges(x)
  BY <1>1 DEF o
<1> HIDE DEF x
<1>7. Inv' /\ status' = status /\ pod'.forced = pod.forced
  BY <1>3, <1>5, <1>6, ClusterKeeps
<1> QED
  BY <1>7 DEF Promises

LEMMA PodDeletedByOthersKeeps ==
  ASSUME Inv, PodDeletedByOthers
  PROVE  Inv' /\ Promises
<1>1. World(FALSE) \in Worlds /\ World(FALSE).obj = pod
  BY WorldType DEF Inv
<1> DEFINE x == Marked(World(FALSE), "others")
<1>2. /\ Later(World(FALSE), x) /\ x.obj.forced = pod.forced
      /\ x.obj.by = "completion" => pod.by = "completion"
  BY <1>1, MarkedLater
<1>3. Inv' /\ status' = status /\ pod'.forced = pod.forced
  BY <1>2, ClusterKeeps DEF PodDeletedByOthers
<1> QED
  BY <1>3 DEF Promises

LEMMA PodVanishesKeeps ==
  ASSUME Inv, PodVanishes
  PROVE  Inv' /\ Promises
<1>1. World(FALSE) \in Worlds /\ World(FALSE).obj = pod /\ Present(pod)
  BY WorldType DEF Inv, PodVanishes, Present
<1> DEFINE x == Erased(World(FALSE))
<1>2. Later(World(FALSE), x) /\ x.obj.forced = pod.forced /\ x.obj.by = pod.by
  BY <1>1, ErasedLater
<1>3. Inv' /\ status' = status /\ pod'.forced = pod.forced
  BY <1>2, ClusterKeeps DEF PodVanishes
<1> QED
  BY <1>3 DEF Promises

LEMMA DeliverKeeps ==
  ASSUME Inv, Deliver
  PROVE  Inv' /\ Promises
<1>1. PICK p \in podPending :
        /\ podCached' = p
        /\ podPending' = {q \in podPending : Age(q) > Age(p)}
        /\ queued' = TRUE
        /\ UNCHANGED <<spec, status, f, timeVars, pod, boundVars>>
  BY DEF Deliver
<1>2. pod \in Pod /\ podCached \in Pod /\ podPending \subseteq Pod /\ p \in Pod /\ Ordered
  BY DEF Inv, TypeOK
<1>3. /\ Age(pod) \in Nat /\ Age(podCached) \in Nat /\ Age(p) \in Nat
      /\ pod.uid \in Nat /\ p.uid \in Nat /\ podCached.uid \in Nat
      /\ \A q \in podPending : Age(q) \in Nat
  BY <1>2, AgeOrder DEF Pod
<1>4. podCached.uid <= p.uid /\ p.uid <= pod.uid
  BY <1>2, <1>3, AgeOrder DEF Ordered
<1>5. TypeOK'
  BY <1>1, <1>2 DEF Inv, TypeOK, timeVars, boundVars
<1>6. Ordered'
  BY <1>1, <1>2, <1>3 DEF Ordered
<1>7. ASSUME NEW v, Sound(v, pod, podCached)
      PROVE  Sound(v, pod, p)
  BY <1>3, <1>4, <1>7 DEF Sound
<1>8. Sound(f, pod, podCached)' /\ Sound(status, pod, podCached)' /\ Follows(status, f)'
  BY <1>1, <1>7 DEF Inv
<1>9. Inv'
  BY <1>5, <1>6, <1>8 DEF Inv
<1>10. status' = status /\ pod' = pod
  BY <1>1
<1> QED
  BY <1>9, <1>10 DEF Promises

LEMMA RestartKeeps ==
  ASSUME Inv, Restart
  PROVE  Inv' /\ Promises
<1>1. /\ f' = status /\ status' = status /\ pod' = pod /\ podCached' = pod
      /\ podPending' = {} /\ spec' = spec
  BY DEF Restart
<1>2. TypeOK'
  <2>1. crashes' \in 0 .. MaxCrashes
    BY TaskBoundAssumption DEF Inv, TypeOK, Restart
  <2>2. queued' \in BOOLEAN /\ timer' \in BOOLEAN /\ due' = due /\ overdue' = overdue
        /\ edits' = edits
    BY DEF Restart
  <2> QED
    BY <1>1, <2>1, <2>2 DEF Inv, TypeOK
<1>3. Age(pod) \in Nat
  BY AgeOrder DEF Inv, TypeOK
<1>4. Ordered'
  BY <1>1, <1>3 DEF Inv, Ordered
<1>5. Sound(status, pod, pod)
  BY DEF Inv, Sound
<1>6. Sound(f, pod, podCached)' /\ Sound(status, pod, podCached)' /\ Follows(status, f)'
  BY <1>1, <1>5 DEF Follows
<1> QED
  BY <1>1, <1>2, <1>4, <1>6 DEF Inv, Promises

LEMMA PersistKeeps ==
  ASSUME Inv, Persist
  PROVE  Inv' /\ Promises
<1>1. /\ status' = f /\ f' = f /\ pod' = pod /\ podCached' = podCached
      /\ podPending' = podPending
  BY DEF Persist, podVars
<1>2. TypeOK'
  BY DEF Inv, TypeOK, Persist, podVars, timeVars, boundVars
<1>3. Ordered' /\ Sound(f, pod, podCached)' /\ Sound(status, pod, podCached)'
  BY <1>1 DEF Inv, Ordered
<1>4. Follows(status, f)'
  BY <1>1 DEF Follows
<1>5. Promises
  BY <1>1 DEF Inv, Follows, Promises
<1> QED
  BY <1>2, <1>3, <1>4, <1>5 DEF Inv

LEMMA FrameworkAttemptOverKeeps ==
  ASSUME Inv, FrameworkAttemptOver
  PROVE  Inv' /\ Promises
<1> DEFINE code == "FrameworkAttemptCompletion"
           u == Outcome(f, "Completed", code)
<1>1. /\ f' = u /\ status' = status /\ status = f /\ ~Present(pod)
      /\ pod' = pod /\ podCached' = podCached /\ podPending' = podPending
      /\ spec' = spec /\ queued' = queued /\ timer' = timer /\ due' = due
      /\ overdue' = overdue /\ edits' = edits /\ crashes' = crashes
  BY DEF FrameworkAttemptOver, Outcome, Persisted, podVars, timeVars, boundVars
<1>2. IsTaskStatus(f) /\ "Completed" \in States /\ code \in Codes \ {"None"}
  BY DEF Inv, TypeOK, States, Codes, PermanentCodes
<1>3. Becomes(f, u, "Completed")
  BY <1>2, OutcomeStatus
<1> HIDE DEF u
<1>4. Sound(u, pod, podCached)
  BY <1>1, <1>3 DEF Inv, Sound, Becomes, Follows, Seen, Over
<1>5. TypeOK'
  BY <1>1, <1>3 DEF Inv, TypeOK, Becomes
<1>6. Ordered' /\ Sound(f, pod, podCached)' /\ Sound(status, pod, podCached)'
  BY <1>1, <1>4 DEF Inv, Ordered
<1>7. Follows(status, f)'
  BY <1>1, <1>3 DEF Becomes
<1> QED
  BY <1>1, <1>5, <1>6, <1>7 DEF Inv, Promises

LEMMA NextKeeps ==
  ASSUME Inv, [Next]_vars
  PROVE  Inv' /\ Promises
<1>1. ASSUME UNCHANGED <<status, f, podVars>>, TypeOK'
      PROVE  Inv' /\ Promises
  <2>1. Ordered' /\ Sound(f, pod, podCached)' /\ Sound(status, pod, podCached)'
        /\ Follows(status, f)'
    BY <1>1 DEF Inv, Ordered, podVars
  <2> QED
    BY <1>1, <2>1 DEF Inv, Promises, podVars
<1>2. CASE UNCHANGED vars
  <2>1. TypeOK'
    BY <1>2 DEF Inv, TypeOK, vars, syncVars, timeVars, podVars, boundVars
  <2> QED
    BY <1>1, <1>2, <2>1 DEF vars, syncVars
<1>3. CASE UserEdit
  <2>1. TypeOK'
    BY <1>3, TaskBoundAssumption DEF Inv, TypeOK, UserEdit, timeVars, podVars
  <2> QED
    BY <1>1, <1>3, <2>1 DEF UserEdit
<1>4. CASE OtherEvent
  <2>1. TypeOK'
    BY <1>4 DEF Inv, TypeOK, OtherEvent, timeVars, podVars, boundVars
  <2> QED
    BY <1>1, <1>4, <2>1 DEF OtherEvent
<1>5. CASE Worker
  <2>1. ASSUME NEW b \in BOOLEAN, Sync(World(b))
        PROVE  Inv' /\ Promises
    <3>1. PICK x, u : Ends(x, u)
      BY <2>1, SyncEnds
    <3>2. Persisted
      BY <2>1 DEF Sync
    <3> QED
      BY <3>1, <3>2, EndsKeeps DEF Promises
  <2> QED
    BY <1>5, <2>1, PersistKeeps, FrameworkAttemptOverKeeps DEF Worker
<1>6. CASE Cluster
  BY <1>6, PodProgressesKeeps, PodDeletedByOthersKeeps, PodVanishesKeeps DEF Cluster
<1>7. CASE TimeoutElapses
  <2>1. TypeOK'
    BY <1>7 DEF Inv, TypeOK, TimeoutElapses, syncVars, podVars, boundVars
  <2> QED
    BY <1>1, <1>7, <2>1 DEF TimeoutElapses, syncVars
<1>8. CASE GracePeriodElapses
  <2>1. podCached.uid \in Nat
    BY DEF Inv, TypeOK, Pod
  <2>2. TypeOK'
    BY <1>8, <2>1 DEF Inv, TypeOK, GracePeriodElapses, syncVars, podVars, boundVars
  <2> QED
    BY <1>1, <1>8, <2>2 DEF GracePeriodElapses, syncVars
<1>9. CASE TimerFires
  <2>1. TypeOK'
    BY <1>9 DEF Inv, TypeOK, TimerFires, podVars, boundVars
  <2> QED
    BY <1>1, <1>9, <2>1 DEF TimerFires
<1> QED
  BY <1>2, <1>3, <1>4, <1>5, <1>6, <1>7, <1>8, <1>9, DeliverKeeps, RestartKeeps
  DEF Next, Clock

-----------------------------------------------------------------------------
(* Theorems *)

\* The invariant holds of every behavior, and every step keeps its promises.
LEMMA Invariance == Safety => []Inv /\ [][Promises]_vars
<1>1. Inv /\ [Next]_vars => Inv'
  BY NextKeeps
<1>2. Inv /\ [Next]_vars => [Promises]_vars
  BY NextKeeps
<1> QED
  BY InitInv, <1>1, <1>2, PTL DEF Safety

\* Every reachable state has its types: no retry starts from a TaskStatus without
\* an outcome (attemptToRetryTask dereferences the CompletionStatus).
THEOREM TypeCorrect == Safety => []TypeOK
<1>1. Inv => TypeOK
  BY DEF Inv
<1> QED
  BY Invariance, <1>1, PTL

\* Once a TaskAttempt is completed its Pod does not exist and never will, whatever
\* calls failed or lost their answer, and whenever FrameworkController restarted
\* (completeTaskAttempt, by force after a confirmed deletion).
THEOREM NoPodLeakHolds == Safety => []NoPodLeak
<1>1. Inv => NoPodLeak
  BY DEF Inv, NoPodLeak, Sound, Over
<1> QED
  BY Invariance, <1>1, PTL

\* A Pod is deleted on behalf of its completion only when the outcome is persisted
\* (syncTaskState, TaskAttemptDeletionPending).
THEOREM DeletedAfterPersistedHolds == Safety => []DeletedAfterPersisted
<1>1. Inv => DeletedAfterPersisted
  BY DEF Inv, DeletedAfterPersisted, Sound
<1> QED
  BY Invariance, <1>1, PTL

\* A Task that says its Pod's deletion was requested is right about the ApiServer,
\* not only about its local cache (deletePod, syncTaskState).
THEOREM DeletionRequestedIsTrueHolds == Safety => []DeletionRequestedIsTrue
<1>1. Inv => DeletionRequestedIsTrue
  BY DEF Inv, DeletionRequestedIsTrue, Sound
<1> QED
  BY Invariance, <1>1, PTL

\* A Task is never retried more often than its RetryPolicy allows, for every
\* MaxRetryCount (attemptToRetryTask, ShouldRetry).
THEOREM RetriesWithinPolicyHolds == Safety => []RetriesWithinPolicy
<1>1. Inv => RetriesWithinPolicy
  BY DEF Inv, RetriesWithinPolicy, Sound
<1> QED
  BY Invariance, <1>1, PTL

\* The Pod and the outcome of an attempt are final once users could see them
\* (updateRemoteFrameworkStatus).
THEOREM ExposedOnceHolds == Safety => ExposedOnce
<1>1. Inv /\ [Promises]_vars =>
        [status'.attempt = status.attempt =>
           /\ status.pod # 0 => status'.pod = status.pod
           /\ status.code # "None" => status'.code = status.code]_vars
  BY DEF Promises
<1> QED
  BY Invariance, <1>1, PTL DEF ExposedOnce

\* A Pod is only deleted by force once its grace period is over, and only if its
\* Status, as users can see it, says so (handlePodGracefulDeletion).
THEOREM ForcedOnlyIfExposedHolds == Safety => ForcedOnlyIfExposed
<1>1. Inv /\ [Promises]_vars =>
        [pod'.forced /\ ~pod.forced => status.timeout /\ overdue = pod.uid]_vars
  BY DEF Promises
<1> QED
  BY Invariance, <1>1, PTL DEF ForcedOnlyIfExposed
=============================================================================
