------------------------ MODULE FrameworkScaleProofs ------------------------
(***************************************************************************)
(* What a Rescale keeps, proved for all TaskRoles, Specs, completion       *)
(* policies and bounds.                                                    *)
(*                                                                         *)
(* The argument.  A sync rescales its copy of the Status, and goes on to   *)
(* the Tasks only if that added no instance and no mark to what users see. *)
(* From then on no Task, instance or mark changes until the copy is        *)
(* persisted, and a Task that is still to be synced is as it is persisted: *)
(* a Pod is created or given up for a Task that users know in that state.  *)
(***************************************************************************)
EXTENDS FrameworkScale, FiniteSetTheorems, SequenceTheorems, WellFoundedInduction, TLAPS

-----------------------------------------------------------------------------
(* Statuses as sets of named Tasks *)

\* A tuple of Tasks
LEMMA TupleOfTasks ==
  ASSUME NEW n \in Nat, NEW q, q = [i \in 1 .. n |-> q[i]],
         \A i \in 1 .. n : q[i] \in Task
  PROVE  q \in Seq(Task) /\ Len(q) = n
<1>1. q \in [1 .. n -> Task]
  OBVIOUS
<1>2. q \in Seq(Task)
  BY <1>1, SeqDef
<1>3. Len(q) \in Nat /\ DOMAIN q = 1 .. Len(q)
  BY <1>2, LenProperties
<1>4. 1 .. n = 1 .. Len(q)
  BY <1>1, <1>3
<1> QED
  BY <1>2, <1>3, <1>4

\* The name of a Task is its TaskRole and its index.
LEMMA NamesOfTasks ==
  ASSUME ScaleAssumption, NEW ts, IsTaskRoleStatuses(ts)
  PROVE  /\ \A r \in DOMAIN ts : Len(ts[r]) \in Nat /\ Len(ts[r]) <= MaxNumber /\ r \in Roles
         /\ \A n \in TasksOf(ts) :
              /\ n \in Names /\ n = <<n[1], n[2]>>
              /\ n[1] \in DOMAIN ts /\ n[2] \in 1 .. Len(ts[n[1]])
         /\ \A r \in DOMAIN ts : \A i \in 1 .. Len(ts[r]) :
              <<r, i>> \in TasksOf(ts) /\ TaskAt(ts, <<r, i>>) = ts[r][i]
<1>1. \A r \in DOMAIN ts : Len(ts[r]) \in Nat /\ Len(ts[r]) <= MaxNumber /\ r \in Roles
  BY LenProperties DEF IsTaskRoleStatuses
<1>2. \A n \in TasksOf(ts) :
        /\ n \in Names /\ n = <<n[1], n[2]>>
        /\ n[1] \in DOMAIN ts /\ n[2] \in 1 .. Len(ts[n[1]])
  BY <1>1 DEF TasksOf, Names
<1>3. \A r \in DOMAIN ts : \A i \in 1 .. Len(ts[r]) :
        <<r, i>> \in TasksOf(ts) /\ TaskAt(ts, <<r, i>>) = ts[r][i]
  BY <1>1 DEF TasksOf, TaskAt, Names, ScaleAssumption
<1> QED
  BY <1>1, <1>2, <1>3

LEMMA TypeOfTask ==
  ASSUME NEW ts, IsTaskRoleStatuses(ts), NEW n \in TasksOf(ts)
  PROVE  TaskAt(ts, n) \in Task /\ IsTaskStatus(TaskAt(ts, n))
BY DEF IsTaskRoleStatuses, IsTaskStatus

\* TaskRoleStatuses that are made of tuples of proper Tasks
OfTuples(ts, size) ==
  /\ DOMAIN ts \subseteq Roles
  /\ ts = [r \in DOMAIN ts |-> ts[r]]
  /\ \A r \in DOMAIN ts :
       /\ size[r] \in Nat /\ size[r] <= MaxNumber
       /\ ts[r] = [i \in 1 .. size[r] |-> ts[r][i]]
       /\ \A i \in 1 .. size[r] : IsTaskStatus(ts[r][i])

LEMMA TypeOfTuples ==
  ASSUME ScaleAssumption, NEW ts, NEW size, OfTuples(ts, size)
  PROVE  /\ IsTaskRoleStatuses(ts)
         /\ \A r \in DOMAIN ts : Len(ts[r]) = size[r]
<1> USE DEF OfTuples
<1>1. \A r \in DOMAIN ts : ts[r] \in Seq(Task) /\ Len(ts[r]) = size[r]
  BY TupleOfTasks DEF IsTaskStatus
<1>2. ts \in [DOMAIN ts -> Seq(Task)]
  BY <1>1
<1>3. \A n \in TasksOf(ts) : IsTaskStatus(TaskAt(ts, n))
  BY <1>1 DEF TasksOf, TaskAt, Names
<1> QED
  BY <1>1, <1>2, <1>3 DEF IsTaskRoleStatuses

\* What the Spec asks of each TaskRole
LEMMA NumberType ==
  ASSUME ScaleAssumption, NEW s \in UserSpecs, NEW r
  PROVE  /\ Number(s, r) \in Nat /\ Number(s, r) <= MaxNumber
         /\ Number(s, r) > 0 => r \in DOMAIN s
BY DEF ScaleAssumption, Number, RoleSpec

LEMMA TotalIsNumber ==
  ASSUME ScaleAssumption, NEW s \in UserSpecs
  PROVE  \A r \in Roles : \A i \in 1 .. MaxNumber :
           <<r, i>> \in TotalTasks(s) <=> i <= Number(s, r)
BY DEF TotalTasks, Names

\* The operations on one Task
LEMMA TaskOperations ==
  /\ \A gen \in Nat :
       /\ IsTaskStatus(NewTask(gen))
       /\ NewTask(gen).inst = gen /\ ~NewTask(gen).deletionPending
  /\ \A t : IsTaskStatus(t) =>
       /\ IsTaskStatus(MarkAsDeletionPending(t))
       /\ MarkAsDeletionPending(t).inst = t.inst
       /\ MarkAsDeletionPending(t).deletionPending
       /\ MarkAsDeletionPending(t).state = t.state
BY DEF IsTaskStatus, NewTask, Task, MarkAsDeletionPending, OutcomeOr

-----------------------------------------------------------------------------
(* syncFrameworkScale and compactFrameworkScale *)

\* Scaling adds the Tasks that the Spec asks for, marks those beyond it, and leaves
\* the others alone.
LEMMA ScaledTasks ==
  ASSUME ScaleAssumption, NEW s \in UserSpecs, NEW ts, IsTaskRoleStatuses(ts),
         gens \in [Names -> Nat]
  PROVE  /\ IsTaskRoleStatuses(Scaled(s, ts))
         /\ DOMAIN s \subseteq DOMAIN Scaled(s, ts)
         /\ TasksOf(Scaled(s, ts)) = TasksOf(ts) \cup TotalTasks(s)
         /\ \A n \in TasksOf(Scaled(s, ts)) :
              TaskAt(Scaled(s, ts), n) =
                IF n \notin TasksOf(ts) THEN NewTask(gens[n] + 1)
                ELSE IF n \notin TotalTasks(s) THEN MarkAsDeletionPending(TaskAt(ts, n))
                ELSE TaskAt(ts, n)
<1> DEFINE roles == DOMAIN s \cup DOMAIN ts
           len == [r \in roles |-> Len(TasksIn(ts, r))]
<1>1. roles \subseteq Roles
  BY DEF ScaleAssumption, IsTaskRoleStatuses
<1>2. \A r \in roles :
        /\ len[r] = Len(TasksIn(ts, r))
        /\ len[r] = IF r \in DOMAIN ts THEN Len(ts[r]) ELSE 0
        /\ len[r] \in Nat /\ len[r] <= MaxNumber
  BY NamesOfTasks DEF TasksIn, ScaleAssumption
<1> HIDE DEF len
<1> DEFINE size == [r \in roles |-> IF len[r] < Number(s, r) THEN Number(s, r) ELSE len[r]]
<1>3. \A r \in roles :
        /\ size[r] = IF len[r] < Number(s, r) THEN Number(s, r) ELSE len[r]
        /\ size[r] \in Nat /\ size[r] <= MaxNumber
        /\ len[r] <= size[r] /\ Number(s, r) <= size[r]
        /\ \A i \in 1 .. size[r] : i \in 1 .. MaxNumber /\ (i <= len[r] => i \in 1 .. len[r])
  <2> SUFFICES ASSUME NEW r \in roles
               PROVE  LET m == IF len[r] < Number(s, r) THEN Number(s, r) ELSE len[r]
                      IN  /\ m \in Nat /\ m <= MaxNumber
                          /\ len[r] <= m /\ Number(s, r) <= m
                          /\ \A i \in 1 .. m :
                               i \in 1 .. MaxNumber /\ (i <= len[r] => i \in 1 .. len[r])
    OBVIOUS
  <2>1. Number(s, r) \in Nat /\ Number(s, r) <= MaxNumber
    BY NumberType
  <2>2. len[r] \in Nat /\ len[r] <= MaxNumber /\ MaxNumber \in Nat
    BY <1>2 DEF ScaleAssumption
  <2> QED
    BY <2>1, <2>2
<1> HIDE DEF size
<1> DEFINE sc == Scaled(s, ts)
           Op(r, i) == IF i > len[r] THEN NewTask(gens[<<r, i>>] + 1)
                       ELSE IF i > Number(s, r) THEN MarkAsDeletionPending(ts[r][i])
                       ELSE ts[r][i]
<1>4. sc = [r \in roles |-> [i \in 1 .. size[r] |-> Op(r, i)]]
  <2>1. \A r \in roles : \A i \in 1 .. size[r] :
          i <= len[r] => r \in DOMAIN ts /\ TasksIn(ts, r) = ts[r]
    BY <1>2, <1>3 DEF TasksIn
  <2>2. \A r \in roles : \A i \in 1 .. size[r] : i \in Nat /\ len[r] \in Nat
    BY <1>2, <1>3
  <2>3. \A r \in roles : \A i \in 1 .. size[r] :
          Op(r, i) = IF i > len[r] THEN NewTask(gens[<<r, i>>] + 1)
                     ELSE IF i > Number(s, r) THEN MarkAsDeletionPending(TasksIn(ts, r)[i])
                     ELSE TasksIn(ts, r)[i]
    BY <2>1, <2>2
  <2> HIDE DEF Op
  <2> QED
    BY <1>2, <1>3, <2>3 DEF Scaled
<1>5. \A r \in roles : \A i \in 1 .. size[r] : <<r, i>> \in Names
  BY <1>1, <1>3 DEF Names, ScaleAssumption
<1>6. \A r \in roles : \A i \in 1 .. size[r] :
        i <= len[r] => <<r, i>> \in TasksOf(ts) /\ TaskAt(ts, <<r, i>>) = ts[r][i]
  <2> SUFFICES ASSUME NEW r \in roles, NEW i \in 1 .. size[r], i <= len[r]
               PROVE  <<r, i>> \in TasksOf(ts) /\ TaskAt(ts, <<r, i>>) = ts[r][i]
    OBVIOUS
  <2>1. r \in DOMAIN ts /\ i \in 1 .. Len(ts[r])
    BY <1>2, <1>3
  <2> QED
    BY <2>1, NamesOfTasks
<1>7. \A r \in roles : \A i \in 1 .. size[r] :
        i > len[r] => <<r, i>> \notin TasksOf(ts)
  BY <1>2 DEF TasksOf
<1>8. \A r \in roles : \A i \in 1 .. size[r] : IsTaskStatus(Op(r, i))
  <2> SUFFICES ASSUME NEW r \in roles, NEW i \in 1 .. size[r]
               PROVE  IsTaskStatus(Op(r, i))
    OBVIOUS
  <2>1. <<r, i>> \in Names
    BY <1>5
  <2>2. gens[<<r, i>>] + 1 \in Nat
    BY <2>1
  <2>3. i <= len[r] => IsTaskStatus(ts[r][i])
    BY <1>6, TypeOfTask
  <2>4. i \in Nat /\ len[r] \in Nat
    BY <1>2
  <2> QED
    BY <2>2, <2>3, <2>4, TaskOperations
<1>9. DOMAIN sc = roles
  BY <1>4
<1> HIDE DEF sc, Op
<1>10. \A r \in roles : /\ sc[r] = [i \in 1 .. size[r] |-> Op(r, i)]
                        /\ sc[r] = [i \in 1 .. size[r] |-> sc[r][i]]
                        /\ \A i \in 1 .. size[r] : sc[r][i] = Op(r, i)
  BY <1>4
<1>11. IsTaskRoleStatuses(sc) /\ \A r \in roles : Len(sc[r]) = size[r]
  <2>1. sc = [r \in DOMAIN sc |-> sc[r]] /\ DOMAIN sc \subseteq Roles
    BY <1>1, <1>4, <1>9
  <2>2. \A r \in DOMAIN sc :
          /\ size[r] \in Nat /\ size[r] <= MaxNumber
          /\ sc[r] = [i \in 1 .. size[r] |-> sc[r][i]]
          /\ \A i \in 1 .. size[r] : IsTaskStatus(sc[r][i])
    BY <1>3, <1>8, <1>9, <1>10
  <2>3. OfTuples(sc, size)
    BY <2>1, <2>2 DEF OfTuples
  <2> QED
    BY <1>9, <2>3, TypeOfTuples
<1>12. TasksOf(sc) = TasksOf(ts) \cup TotalTasks(s)
  <2> SUFFICES ASSUME NEW n \in Names
               PROVE  n \in TasksOf(sc) <=> n \in TasksOf(ts) \/ n \in TotalTasks(s)
    BY DEF TasksOf, TotalTasks
  <2>1. n[1] \in Roles /\ n[2] \in Nat /\ n[2] > 0
    BY DEF Names
  <2>2. Number(s, n[1]) \in Nat /\ (Number(s, n[1]) > 0 => n[1] \in DOMAIN s)
    BY NumberType
  <2>3. CASE n[1] \in roles
    <3>1. n \in TasksOf(sc) <=> n[2] <= size[n[1]]
      BY <1>9, <1>11, <2>3 DEF TasksOf
    <3>2. n \in TasksOf(ts) <=> n[2] <= len[n[1]]
      BY <1>2, <2>1, <2>3 DEF TasksOf
    <3>3. n \in TotalTasks(s) <=> n[2] <= Number(s, n[1])
      BY DEF TotalTasks
    <3>4. size[n[1]] = IF len[n[1]] < Number(s, n[1]) THEN Number(s, n[1]) ELSE len[n[1]]
      BY <1>3, <2>3
    <3> QED
      BY <1>2, <2>1, <2>2, <2>3, <3>1, <3>2, <3>3, <3>4
  <2>4. CASE n[1] \notin roles
    BY <1>9, <2>1, <2>2, <2>4 DEF TasksOf, TotalTasks
  <2> QED
    BY <2>3, <2>4
<1>13. ASSUME NEW n \in TasksOf(sc)
       PROVE  TaskAt(sc, n) =
                IF n \notin TasksOf(ts) THEN NewTask(gens[n] + 1)
                ELSE IF n \notin TotalTasks(s) THEN MarkAsDeletionPending(TaskAt(ts, n))
                ELSE TaskAt(ts, n)
  <2>1. /\ n \in Names /\ n = <<n[1], n[2]>> /\ n[1] \in roles
        /\ n[2] \in 1 .. size[n[1]]
    BY <1>9, <1>11, NamesOfTasks
  <2>2. TaskAt(sc, n) = Op(n[1], n[2])
    BY <1>10, <2>1 DEF TaskAt
  <2>3. n \in TotalTasks(s) <=> n[2] <= Number(s, n[1])
    BY <2>1 DEF TotalTasks
  <2>4. n \in TasksOf(ts) <=> n[2] <= len[n[1]]
    BY <1>2, <1>3, <1>6, <1>7, <2>1
  <2>5. n \in TasksOf(ts) => TaskAt(ts, n) = ts[n[1]][n[2]]
    BY DEF TaskAt
  <2>6. Number(s, n[1]) \in Nat /\ len[n[1]] \in Nat /\ n[2] \in Nat
    BY <1>2, <1>3, <2>1, NumberType
  <2> QED
    BY <2>1, <2>2, <2>3, <2>4, <2>5, <2>6 DEF Op
<1> QED
  BY <1>9, <1>11, <1>12, <1>13 DEF sc

\* What compactFrameworkScale computes from the end of a TaskRole
IsKeptLength(k, s, r, q) ==
  /\ k \in 0 .. Len(q)
  /\ k >= Number(s, r) \/ k = Len(q)
  /\ \A i \in k + 1 .. Len(q) : Droppable(q[i])
  /\ k - 1 >= Number(s, r) /\ k > 0 => ~Droppable(q[k])

\* It exists: the least length beyond which all are droppable.
LEMMA KeptLengthExists ==
  ASSUME ScaleAssumption, NEW s \in UserSpecs, NEW r, NEW q \in Seq(Task)
  PROVE  IsKeptLength(KeptLength(s, r, q), s, r, q)
<1> DEFINE T == {k \in 0 .. Len(q) :
                   /\ k >= Number(s, r) \/ k = Len(q)
                   /\ \A i \in k + 1 .. Len(q) : Droppable(q[i])}
<1>1. Len(q) \in Nat /\ Number(s, r) \in Nat
  BY NumberType, LenProperties
<1>2. T \subseteq Nat /\ Len(q) \in T
  BY <1>1
<1>3. PICK k \in T : \A j \in T : ~ (j < k)
  <2> DEFINE R == {ss \in Nat \X Nat : ss[1] < ss[2]}
  <2>1. IsWellFoundedOn(R, Nat)
    BY NatLessThanWellFounded DEF OpToRel
  <2> HIDE DEF R, T
  <2>2. \E k \in T : \A j \in T : ~ (<<j, k>> \in R)
    BY <1>2, <2>1, WFMin
  <2> QED
    BY <1>2, <2>2 DEF R
<1>4. k - 1 >= Number(s, r) /\ k > 0 => ~Droppable(q[k])
  <2> SUFFICES ASSUME k - 1 >= Number(s, r), k > 0, Droppable(q[k])
               PROVE  FALSE
    OBVIOUS
  <2>1. k \in Nat /\ k - 1 \in 0 .. Len(q) /\ k \in 0 .. Len(q)
    BY <1>1
  <2>2. \A i \in (k - 1) + 1 .. Len(q) : i = k \/ i \in k + 1 .. Len(q)
    BY <1>1, <2>1
  <2>3. k - 1 \in T
    BY <2>1, <2>2
  <2> QED
    BY <1>3, <2>1, <2>3
<1>5. IsKeptLength(k, s, r, q)
  BY <1>4 DEF IsKeptLength
<1> QED
  BY <1>5 DEF KeptLength, IsKeptLength

\* Compacting drops and replaces droppable Tasks only: those beyond the Spec, and
\* those that the Spec asks for again.
LEMMA CompactedTasks ==
  ASSUME ScaleAssumption, NEW s \in UserSpecs, NEW ts, IsTaskRoleStatuses(ts),
         gens \in [Names -> Nat], DOMAIN s \subseteq DOMAIN ts,
         TotalTasks(s) \subseteq TasksOf(ts)
  PROVE  /\ IsTaskRoleStatuses(Compacted(s, ts))
         /\ DOMAIN s \subseteq DOMAIN Compacted(s, ts)
         /\ TotalTasks(s) \subseteq TasksOf(Compacted(s, ts))
         /\ TasksOf(Compacted(s, ts)) \subseteq TasksOf(ts)
         /\ \A n \in TasksOf(ts) \ TasksOf(Compacted(s, ts)) : Droppable(TaskAt(ts, n))
         /\ \A n \in TasksOf(Compacted(s, ts)) :
              TaskAt(Compacted(s, ts), n) =
                IF n \in TotalTasks(s) /\ Droppable(TaskAt(ts, n))
                  THEN NewTask(gens[n] + 1) ELSE TaskAt(ts, n)
<1> DEFINE kept == [r \in DOMAIN ts |-> KeptLength(s, r, ts[r])]
           roles == {r \in DOMAIN ts : r \in DOMAIN s \/ kept[r] > 0}
<1>1. \A r \in DOMAIN ts : /\ kept[r] = KeptLength(s, r, ts[r])
                           /\ IsKeptLength(kept[r], s, r, ts[r])
  BY KeptLengthExists DEF IsTaskRoleStatuses
<1> HIDE DEF kept
<1>2. \A r \in DOMAIN ts :
        /\ Number(s, r) \in Nat /\ Number(s, r) <= Len(ts[r])
        /\ Len(ts[r]) \in Nat /\ Len(ts[r]) <= MaxNumber /\ MaxNumber \in Nat /\ r \in Roles
  <2> SUFFICES ASSUME NEW r \in DOMAIN ts
               PROVE  /\ Number(s, r) \in Nat /\ Number(s, r) <= Len(ts[r])
                      /\ Len(ts[r]) \in Nat /\ Len(ts[r]) <= MaxNumber
                      /\ MaxNumber \in Nat /\ r \in Roles
    OBVIOUS
  <2>1. Len(ts[r]) \in Nat /\ Len(ts[r]) <= MaxNumber /\ MaxNumber \in Nat /\ r \in Roles
    BY NamesOfTasks DEF ScaleAssumption
  <2>2. Number(s, r) \in Nat /\ Number(s, r) <= MaxNumber
    BY NumberType
  <2>3. Number(s, r) > 0 => <<r, Number(s, r)>> \in TotalTasks(s)
    BY <2>1, <2>2, TotalIsNumber
  <2>4. Number(s, r) > 0 => Number(s, r) <= Len(ts[r])
    BY <2>3 DEF TasksOf
  <2> QED
    BY <2>1, <2>2, <2>4
<1>3. \A r \in DOMAIN ts :
        /\ kept[r] \in Nat /\ kept[r] <= Len(ts[r]) /\ kept[r] <= MaxNumber
        /\ Number(s, r) <= kept[r]
        /\ \A i \in 1 .. Len(ts[r]) : ~(i <= kept[r]) => Droppable(ts[r][i])
        /\ \A i \in 1 .. kept[r] : i \in 1 .. Len(ts[r]) /\ i \in 1 .. MaxNumber
  BY <1>1, <1>2 DEF IsKeptLength
<1> DEFINE co == Compacted(s, ts)
           Op(r, i) == IF i <= Number(s, r) /\ Droppable(ts[r][i])
                         THEN NewTask(gens[<<r, i>>] + 1) ELSE ts[r][i]
<1>4. co = [r \in roles |-> [i \in 1 .. kept[r] |-> Op(r, i)]]
  BY <1>1 DEF Compacted, ReplacedTask
<1>5. \A r \in roles : \A i \in 1 .. kept[r] :
        /\ <<r, i>> \in Names /\ <<r, i>> \in TasksOf(ts)
        /\ TaskAt(ts, <<r, i>>) = ts[r][i]
  BY <1>2, <1>3, NamesOfTasks DEF Names
<1>6. \A r \in roles : \A i \in 1 .. kept[r] : IsTaskStatus(Op(r, i))
  <2> SUFFICES ASSUME NEW r \in roles, NEW i \in 1 .. kept[r]
               PROVE  IsTaskStatus(Op(r, i))
    OBVIOUS
  <2>1. <<r, i>> \in Names
    BY <1>5
  <2>2. gens[<<r, i>>] + 1 \in Nat
    BY <2>1
  <2>3. IsTaskStatus(ts[r][i])
    BY <1>5, TypeOfTask
  <2> QED
    BY <2>2, <2>3, TaskOperations
<1>7. DOMAIN co = roles
  BY <1>4
<1> HIDE DEF co, Op
<1>8. \A r \in roles : /\ co[r] = [i \in 1 .. kept[r] |-> Op(r, i)]
                       /\ co[r] = [i \in 1 .. kept[r] |-> co[r][i]]
                       /\ \A i \in 1 .. kept[r] : co[r][i] = Op(r, i)
  BY <1>4
<1>9. IsTaskRoleStatuses(co) /\ \A r \in roles : Len(co[r]) = kept[r]
  <2>1. co = [r \in DOMAIN co |-> co[r]] /\ DOMAIN co \subseteq Roles
    BY <1>2, <1>4, <1>7
  <2>2. \A r \in DOMAIN co :
          /\ kept[r] \in Nat /\ kept[r] <= MaxNumber
          /\ co[r] = [i \in 1 .. kept[r] |-> co[r][i]]
          /\ \A i \in 1 .. kept[r] : IsTaskStatus(co[r][i])
    BY <1>3, <1>6, <1>7, <1>8
  <2>3. OfTuples(co, kept)
    BY <2>1, <2>2 DEF OfTuples
  <2> QED
    BY <1>7, <2>3, TypeOfTuples
<1>10. \A n \in TasksOf(ts) : n \in TasksOf(co) <=> n[2] <= kept[n[1]]
  <2> SUFFICES ASSUME NEW n \in TasksOf(ts)
               PROVE  n \in TasksOf(co) <=> n[2] <= kept[n[1]]
    OBVIOUS
  <2>1. n \in Names /\ n[1] \in DOMAIN ts /\ n[2] \in Nat /\ n[2] > 0
    BY NamesOfTasks
  <2>2. n[2] <= kept[n[1]] => n[1] \in roles
    BY <1>3, <2>1
  <2> QED
    BY <1>7, <1>9, <2>1, <2>2 DEF TasksOf
<1>11. TasksOf(co) \subseteq TasksOf(ts)
  <2> SUFFICES ASSUME NEW n \in TasksOf(co) PROVE n \in TasksOf(ts)
    OBVIOUS
  <2>1. n \in Names /\ n = <<n[1], n[2]>> /\ n[1] \in roles /\ n[2] \in 1 .. kept[n[1]]
    BY <1>7, <1>9, NamesOfTasks
  <2> QED
    BY <1>5, <2>1
<1>12. TotalTasks(s) \subseteq TasksOf(co)
  <2> SUFFICES ASSUME NEW n \in TotalTasks(s) PROVE n \in TasksOf(co)
    OBVIOUS
  <2>1. n \in TasksOf(ts) /\ n[2] <= Number(s, n[1])
    BY DEF TotalTasks
  <2>2. n[1] \in DOMAIN ts /\ n[2] \in Nat
    BY <2>1, NamesOfTasks
  <2> QED
    BY <1>2, <1>3, <1>10, <2>1, <2>2
<1>13. \A n \in TasksOf(ts) \ TasksOf(co) : Droppable(TaskAt(ts, n))
  BY <1>3, <1>10, NamesOfTasks DEF TaskAt
<1>14. ASSUME NEW n \in TasksOf(co)
       PROVE  TaskAt(co, n) = IF n \in TotalTasks(s) /\ Droppable(TaskAt(ts, n))
                                THEN NewTask(gens[n] + 1) ELSE TaskAt(ts, n)
  <2>1. n \in Names /\ n = <<n[1], n[2]>> /\ n[1] \in roles /\ n[2] \in 1 .. kept[n[1]]
    BY <1>7, <1>9, NamesOfTasks
  <2>2. TaskAt(co, n) = Op(n[1], n[2]) /\ TaskAt(ts, n) = ts[n[1]][n[2]]
    BY <1>8, <2>1 DEF TaskAt
  <2>3. n \in TotalTasks(s) <=> n[2] <= Number(s, n[1])
    BY <2>1 DEF TotalTasks
  <2> QED
    BY <2>1, <2>2, <2>3 DEF Op
<1>15. DOMAIN s \subseteq roles
  OBVIOUS
<1> QED
  BY <1>7, <1>9, <1>11, <1>12, <1>13, <1>14, <1>15 DEF co

\* A Spec asks for finitely many Tasks.
LEMMA TotalIsFinite ==
  ASSUME ScaleAssumption, NEW s \in UserSpecs
  PROVE  IsFiniteSet(TotalTasks(s))
<1>1. IsFiniteSet((DOMAIN s) \X (1 .. MaxNumber))
  <2>1. IsFiniteSet(DOMAIN s) /\ 1 \in Int /\ MaxNumber \in Int
    BY DEF ScaleAssumption
  <2>2. IsFiniteSet(1 .. MaxNumber)
    BY <2>1, FS_Interval
  <2> QED
    BY <2>1, <2>2, FS_Product
<1>2. TotalTasks(s) \subseteq (DOMAIN s) \X (1 .. MaxNumber)
  <2> SUFFICES ASSUME NEW n \in TotalTasks(s)
               PROVE  n \in (DOMAIN s) \X (1 .. MaxNumber)
    OBVIOUS
  <2>1. n \in Names /\ n[2] <= Number(s, n[1])
    BY DEF TotalTasks
  <2>2. n = <<n[1], n[2]>> /\ n[2] \in 1 .. MaxNumber
    BY <2>1 DEF Names
  <2>3. n[1] \in DOMAIN s
    BY <2>1, <2>2, NumberType DEF ScaleAssumption
  <2> QED
    BY <2>2, <2>3
<1> QED
  BY <1>1, <1>2, FS_Subset

-----------------------------------------------------------------------------
(* The invariant *)

\* A Task name's instances are numbered upwards: a new one is none of those before.
GensAhead(ts) == \A n \in TasksOf(ts) : TaskAt(ts, n).inst <= gens[n]

\* A Task that this sync did not sync yet is in the state that users see.
UnsyncedAsPersisted ==
  /\ pc = "tasks" => todo \subseteq TasksOf(f.tasks)
  /\ \A n \in TasksOf(f.tasks) :
       pc = "policy" \/ (pc = "tasks" /\ n \in todo)
         => TaskAt(f.tasks, n).state = TaskAt(status.tasks, n).state

\* What is to be persisted keeps each instance but those that users know as done
\* with, and does nothing more to one that it marks.
OnlyDroppableLost(old, new) ==
  \A n \in TasksOf(old) :
    \/ n \in TasksOf(new) /\ TaskAt(new, n).inst = TaskAt(old, n).inst
    \/ Droppable(TaskAt(old, n))

MarksCommitted(old, new) ==
  \A n \in TasksOf(old) \cap TasksOf(new) :
    TaskAt(old, n).inst = TaskAt(new, n).inst =>
      /\ TaskAt(old, n).deletionPending => TaskAt(new, n).deletionPending
      /\ ~TaskAt(old, n).deletionPending /\ TaskAt(new, n).deletionPending
           => TaskAt(new, n).state = TaskAt(old, n).state

\* Every Pod is that of an instance which is not over.
PodsFit(ts) ==
  \A p \in pods :
    /\ p.name \in TasksOf(ts)
    /\ TaskAt(ts, p.name).inst = p.inst
    /\ TaskAt(ts, p.name).state \notin {"AttemptCompleted", "Completed"}

\* What holds of the Status that a sync works on, whatever it does to single Tasks
Committed(old, new) ==
  /\ GensAhead(new)
  /\ OnlyDroppableLost(old, new) /\ MarksCommitted(old, new)

Inv ==
  /\ TypeOK
  /\ ScaleEffective
  /\ GensAhead(status.tasks)
  /\ Committed(status.tasks, f.tasks)
  /\ pc \in {"policy", "tasks"} => IsRemembered(status.tasks, f.tasks)
  /\ UnsyncedAsPersisted
  /\ PodsFit(status.tasks) /\ PodsFit(f.tasks)

\* A Status is committed to itself.
LEMMA PersistedIsCommitted ==
  ASSUME NEW ts, GensAhead(ts)
  PROVE  Committed(ts, ts)
BY DEF Committed, OnlyDroppableLost, MarksCommitted

LEMMA InitInv == ScaleAssumption /\ Init => Inv
<1> SUFFICES ASSUME ScaleAssumption, Init PROVE Inv
  OBVIOUS
<1> DEFINE ts == status.tasks
           size == [r \in DOMAIN spec |-> spec[r].number]
<1>1. spec \in UserSpecs /\ \A r \in DOMAIN spec : size[r] \in Nat /\ size[r] <= MaxNumber
  BY DEF Init, ScaleAssumption, RoleSpec
<1>2. DOMAIN spec \subseteq Roles
  BY <1>1 DEF ScaleAssumption
<1>3. ts = [r \in DOMAIN spec |-> [i \in 1 .. size[r] |-> NewTask(1)]]
  BY DEF Init
<1> HIDE DEF ts, size
<1>4. DOMAIN ts = DOMAIN spec
      /\ \A r \in DOMAIN ts : /\ ts[r] = [i \in 1 .. size[r] |-> ts[r][i]]
                              /\ \A i \in 1 .. size[r] : ts[r][i] = NewTask(1)
  BY <1>3
<1>5. OfTuples(ts, size)
  BY <1>1, <1>2, <1>3, <1>4, TaskOperations DEF OfTuples
<1>6. IsTaskRoleStatuses(ts)
  BY <1>5, TypeOfTuples
<1>7. \A n \in TasksOf(ts) : TaskAt(ts, n) = NewTask(1)
  BY <1>4, <1>5, <1>6, NamesOfTasks, TypeOfTuples DEF TaskAt
<1>8. gens \in [Names -> Nat] /\ \A n \in TasksOf(ts) : gens[n] = 1
  BY DEF Init, TasksOf, ts
<1>9. IsStatus(status) /\ f = status /\ f.tasks = ts
  BY <1>6 DEF Init, IsStatus, ts
<1>10. TypeOK
  <2>1. 0 \in 0 .. MaxEvents
    BY DEF ScaleAssumption
  <2>2. gens \in [Names -> Nat]
    BY <1>8
  <2> QED
    BY <1>1, <1>9, <2>1, <2>2 DEF Init, TypeOK
<1>11. GensAhead(ts)
  BY <1>7, <1>8, TaskOperations DEF GensAhead
<1>12. Committed(ts, ts)
  BY <1>11, PersistedIsCommitted
<1>13. PodsFit(ts) /\ pc = "idle"
  BY DEF PodsFit, Init
<1> QED
  BY <1>9, <1>10, <1>11, <1>12, <1>13 DEF Inv, ScaleEffective, UnsyncedAsPersisted, ts

-----------------------------------------------------------------------------
(* Steps between syncs *)

\* The Pods of an instance remain those of that instance.
NoOtherPods == \A q \in pods' : \E p \in pods : q.name = p.name /\ q.inst = p.inst

LEMMA PodsStillFit ==
  ASSUME NEW ts, PodsFit(ts), NoOtherPods
  PROVE  PodsFit(ts)'
BY DEF PodsFit, NoOtherPods

LEMMA DeletePodKeeps ==
  ASSUME TypeOK, NEW n \in Names, DeletePod(n)
  PROVE  NoOtherPods /\ pods' \subseteq Pod
<1>1. \A p \in pods : p \in Pod
  BY DEF TypeOK
<1>2. \A p \in pods : LET q == IF p.name = n THEN [p EXCEPT !.deleting = TRUE] ELSE p
                      IN  q \in Pod /\ q.name = p.name /\ q.inst = p.inst
  BY <1>1 DEF Pod
<1> QED
  BY <1>2 DEF DeletePod, NoOtherPods

LEMMA BetweenSyncsKeeps ==
  ASSUME Inv, TypeOK', pc' = "idle", UNCHANGED <<status, gens>>,
         f' = f \/ f' = status, NoOtherPods
  PROVE  Inv'
<1>1. GensAhead(status.tasks)'
  BY DEF Inv, GensAhead
<1>2. Committed(status.tasks, f.tasks)'
  <2>1. CASE f' = f
    BY <2>1 DEF Inv, Committed, GensAhead, OnlyDroppableLost, MarksCommitted
  <2>2. CASE f' = status
    BY <1>1, <2>2, PersistedIsCommitted
       DEF Committed, GensAhead, OnlyDroppableLost, MarksCommitted
  <2> QED
    BY <2>1, <2>2
<1>3. PodsFit(status.tasks)' /\ PodsFit(f.tasks)'
  BY DEF Inv, PodsFit, NoOtherPods
<1> QED
  BY <1>1, <1>2, <1>3 DEF Inv, ScaleEffective, UnsyncedAsPersisted

LEMMA PersistKeeps ==
  ASSUME Inv, Persist
  PROVE  Inv'
<1>1. TypeOK'
  BY DEF Inv, TypeOK, Persist, cacheVars, IsStatus
<1>2. GensAhead(status.tasks)' /\ Committed(status.tasks, f.tasks)'
  <2>1. GensAhead(f.tasks)' /\ status'.tasks = f'.tasks
    BY DEF Inv, Persist, Committed, GensAhead
  <2> QED
    BY <2>1 DEF Committed, GensAhead, OnlyDroppableLost, MarksCommitted
<1>3. PodsFit(status.tasks)' /\ PodsFit(f.tasks)' /\ pc' = "idle"
  BY DEF Inv, PodsFit, Persist
<1> QED
  BY <1>1, <1>2, <1>3 DEF Inv, ScaleEffective, UnsyncedAsPersisted

LEMMA OthersKeep ==
  ASSUME ScaleAssumption, Inv, UserRescale \/ Deliver \/ Cluster \/ Restart
  PROVE  Inv'
<1> USE DEF cacheVars, syncVars
<1>1. pods' = pods => NoOtherPods
  BY DEF NoOtherPods
<1>2. Bounded => events' \in 0 .. MaxEvents
  BY DEF Inv, TypeOK, Bounded, ScaleAssumption
<1>3. CASE UserRescale
  <2>1. TypeOK' /\ pods' = pods
    BY <1>2, <1>3 DEF Inv, TypeOK, UserRescale, IsStatus
  <2> QED
    BY <1>1, <1>3, <2>1, BetweenSyncsKeeps DEF UserRescale
<1>4. CASE Deliver
  <2>1. TypeOK' /\ pods' = pods
    BY <1>4 DEF Inv, TypeOK, Deliver, IsStatus
  <2> QED
    BY <1>1, <1>4, <2>1, BetweenSyncsKeeps DEF Deliver
<1>5. CASE ConfigMapAppears
  <2>1. TypeOK' /\ pods' = pods
    BY <1>5 DEF Inv, TypeOK, ConfigMapAppears, IsStatus
  <2> QED
    BY <1>1, <1>5, <2>1, BetweenSyncsKeeps DEF ConfigMapAppears
<1>6. CASE PodEvent
  <2>1. TypeOK' /\ pods' = pods
    BY <1>6 DEF Inv, TypeOK, PodEvent, IsStatus
  <2> QED
    BY <1>1, <1>6, <2>1, BetweenSyncsKeeps DEF PodEvent
<1>7. CASE PodDeletedByOthers
  <2>1. NoOtherPods /\ pods' \subseteq Pod
    BY <1>7, DeletePodKeeps DEF Inv, PodDeletedByOthers
  <2>2. TypeOK'
    BY <1>7, <2>1 DEF Inv, TypeOK, PodDeletedByOthers, IsStatus
  <2> QED
    BY <1>7, <2>1, <2>2, BetweenSyncsKeeps DEF PodDeletedByOthers
<1>8. CASE PodGone
  <2>1. pods' \subseteq pods
    BY <1>8 DEF PodGone
  <2>2. TypeOK' /\ NoOtherPods
    BY <1>8, <2>1 DEF Inv, TypeOK, PodGone, IsStatus, NoOtherPods
  <2> QED
    BY <1>8, <2>2, BetweenSyncsKeeps DEF PodGone
<1>9. CASE Restart
  <2>1. TypeOK' /\ pods' = pods
    BY <1>2, <1>9 DEF Inv, TypeOK, Restart, IsStatus
  <2> QED
    BY <1>1, <1>9, <2>1, BetweenSyncsKeeps DEF Restart
<1> QED
  BY <1>3, <1>4, <1>5, <1>6, <1>7, <1>8, <1>9 DEF Cluster

-----------------------------------------------------------------------------
(* The start of a sync: the Status is rescaled *)

\* What ScaleEffective says of a Spec and of TaskRoleStatuses
Effective(s, ts) ==
  /\ DOMAIN s \subseteq DOMAIN ts
  /\ TotalTasks(s) \subseteq TasksOf(ts)
  /\ \A n \in TasksOf(ts) \ TotalTasks(s) : TaskAt(ts, n).deletionPending

SameStates(old, new) ==
  \A n \in TasksOf(new) : TaskAt(new, n).state = TaskAt(old, n).state

\* The TaskRoleStatuses that a sync may go on with, or may persist
Rescaled(old, new) ==
  /\ IsTaskRoleStatuses(new)
  /\ OnlyDroppableLost(old, new) /\ MarksCommitted(old, new)
  /\ PodsFit(new)
  /\ IsRemembered(old, new) => Effective(seen, new) /\ SameStates(old, new)

LEMMA ScaledFacts ==
  ASSUME ScaleAssumption, Inv
  PROVE  LET old == status.tasks
             sc == Scaled(seen, old)
         IN  /\ IsTaskRoleStatuses(sc)
             /\ Effective(seen, sc)
             /\ TasksOf(old) \subseteq TasksOf(sc)
             /\ \A n \in TasksOf(old) :
                  /\ TaskAt(sc, n).inst = TaskAt(old, n).inst
                  /\ TaskAt(sc, n).state = TaskAt(old, n).state
                  /\ TaskAt(old, n).deletionPending => TaskAt(sc, n).deletionPending
<1> DEFINE old == status.tasks
           sc == Scaled(seen, old)
<1>1. seen \in UserSpecs /\ IsTaskRoleStatuses(old) /\ gens \in [Names -> Nat]
  BY DEF Inv, TypeOK, IsStatus
<1> HIDE DEF old
<1>2. /\ IsTaskRoleStatuses(sc)
      /\ DOMAIN seen \subseteq DOMAIN sc
      /\ TasksOf(sc) = TasksOf(old) \cup TotalTasks(seen)
      /\ \A n \in TasksOf(sc) :
           TaskAt(sc, n) =
             IF n \notin TasksOf(old) THEN NewTask(gens[n] + 1)
             ELSE IF n \notin TotalTasks(seen) THEN MarkAsDeletionPending(TaskAt(old, n))
             ELSE TaskAt(old, n)
  BY <1>1, ScaledTasks
<1> HIDE DEF sc
<1>3. \A n \in TasksOf(old) : IsTaskStatus(TaskAt(old, n))
  BY <1>1, TypeOfTask
<1>4. Effective(seen, sc)
  BY <1>2, <1>3, TaskOperations DEF Effective
<1>5. \A n \in TasksOf(old) :
        /\ TaskAt(sc, n).inst = TaskAt(old, n).inst
        /\ TaskAt(sc, n).state = TaskAt(old, n).state
        /\ TaskAt(old, n).deletionPending => TaskAt(sc, n).deletionPending
  BY <1>2, <1>3, TaskOperations
<1> QED
  BY <1>2, <1>4, <1>5 DEF sc, old

LEMMA ScaledIsRescaled ==
  ASSUME ScaleAssumption, Inv
  PROVE  Rescaled(status.tasks, Scaled(seen, status.tasks))
<1> DEFINE old == status.tasks
           sc == Scaled(seen, old)
<1>1. /\ IsTaskRoleStatuses(sc) /\ Effective(seen, sc)
      /\ TasksOf(old) \subseteq TasksOf(sc)
      /\ \A n \in TasksOf(old) :
           /\ TaskAt(sc, n).inst = TaskAt(old, n).inst
           /\ TaskAt(sc, n).state = TaskAt(old, n).state
           /\ TaskAt(old, n).deletionPending => TaskAt(sc, n).deletionPending
  BY ScaledFacts
<1>2. PodsFit(old)
  BY DEF Inv
<1> HIDE DEF old, sc
<1>3. OnlyDroppableLost(old, sc) /\ MarksCommitted(old, sc)
  BY <1>1 DEF OnlyDroppableLost, MarksCommitted
<1>4. PodsFit(sc)
  BY <1>1, <1>2 DEF PodsFit
<1>5. IsRemembered(old, sc) => SameStates(old, sc)
  BY <1>1 DEF IsRemembered, SameStates
<1> QED
  BY <1>1, <1>3, <1>4, <1>5 DEF Rescaled, old, sc

LEMMA CompactedIsRescaled ==
  ASSUME ScaleAssumption, Inv, IsRemembered(status.tasks, Scaled(seen, status.tasks))
  PROVE  Rescaled(status.tasks, Compacted(seen, Scaled(seen, status.tasks)))
<1> DEFINE old == status.tasks
           sc == Scaled(seen, old)
           co == Compacted(seen, sc)
<1>1. /\ IsTaskRoleStatuses(sc) /\ Effective(seen, sc)
      /\ TasksOf(old) \subseteq TasksOf(sc)
      /\ \A n \in TasksOf(old) :
           /\ TaskAt(sc, n).inst = TaskAt(old, n).inst
           /\ TaskAt(sc, n).state = TaskAt(old, n).state
           /\ TaskAt(old, n).deletionPending => TaskAt(sc, n).deletionPending
  BY ScaledFacts
<1>2. /\ PodsFit(old) /\ GensAhead(old) /\ seen \in UserSpecs
      /\ gens \in [Names -> Nat] /\ IsTaskRoleStatuses(old)
  BY DEF Inv, TypeOK, IsStatus
<1>3. IsRemembered(old, sc)
  OBVIOUS
<1> HIDE DEF old, sc
<1>4. TasksOf(sc) = TasksOf(old)
      /\ \A n \in TasksOf(old) :
           /\ TaskAt(sc, n).inst = TaskAt(old, n).inst
           /\ TaskAt(sc, n).state = TaskAt(old, n).state
           /\ TaskAt(sc, n).deletionPending = TaskAt(old, n).deletionPending
  BY <1>1, <1>3 DEF IsRemembered
<1>5. /\ IsTaskRoleStatuses(co)
      /\ DOMAIN seen \subseteq DOMAIN co
      /\ TotalTasks(seen) \subseteq TasksOf(co)
      /\ TasksOf(co) \subseteq TasksOf(sc)
      /\ \A n \in TasksOf(sc) \ TasksOf(co) : Droppable(TaskAt(sc, n))
      /\ \A n \in TasksOf(co) :
           TaskAt(co, n) = IF n \in TotalTasks(seen) /\ Droppable(TaskAt(sc, n))
                             THEN NewTask(gens[n] + 1) ELSE TaskAt(sc, n)
  BY <1>1, <1>2, CompactedTasks DEF Effective
<1> HIDE DEF co
<1>6. \A n \in TasksOf(old) : Droppable(TaskAt(sc, n)) <=> Droppable(TaskAt(old, n))
  BY <1>4 DEF Droppable
<1>7. \A n \in TasksOf(co) :
        \/ /\ Droppable(TaskAt(old, n))
           /\ TaskAt(co, n).inst # TaskAt(old, n).inst
        \/ TaskAt(co, n) = TaskAt(sc, n) /\ TaskAt(co, n).inst = TaskAt(old, n).inst
  <2> SUFFICES ASSUME NEW n \in TasksOf(co), TaskAt(co, n) # TaskAt(sc, n)
               PROVE  /\ Droppable(TaskAt(old, n))
                      /\ TaskAt(co, n).inst # TaskAt(old, n).inst
    BY <1>4, <1>5
  <2>1. n \in TasksOf(old) /\ n \in Names
    BY <1>4, <1>5 DEF TasksOf
  <2>2. TaskAt(co, n) = NewTask(gens[n] + 1) /\ Droppable(TaskAt(old, n))
    BY <1>5, <1>6, <2>1
  <2>3. gens[n] \in Nat /\ TaskAt(old, n).inst <= gens[n]
    BY <1>2, <2>1 DEF GensAhead
  <2>4. TaskAt(co, n).inst = gens[n] + 1
    BY <2>2, <2>3, TaskOperations
  <2>5. TaskAt(old, n).inst \in Nat
    BY <1>2, <2>1, TypeOfTask DEF Task
  <2> QED
    BY <2>2, <2>3, <2>4, <2>5
<1>8. OnlyDroppableLost(old, co)
  BY <1>4, <1>5, <1>6, <1>7 DEF OnlyDroppableLost
<1>9. MarksCommitted(old, co)
  BY <1>4, <1>5, <1>7 DEF MarksCommitted
<1>10. PodsFit(co)
  <2> SUFFICES ASSUME NEW p \in pods
               PROVE  /\ p.name \in TasksOf(co)
                      /\ TaskAt(co, p.name).inst = p.inst
                      /\ TaskAt(co, p.name).state \notin {"AttemptCompleted", "Completed"}
    BY DEF PodsFit
  <2>1. /\ p.name \in TasksOf(old) /\ TaskAt(old, p.name).inst = p.inst
        /\ TaskAt(old, p.name).state \notin {"AttemptCompleted", "Completed"}
    BY <1>2 DEF PodsFit
  <2>2. ~Droppable(TaskAt(old, p.name)) /\ ~Droppable(TaskAt(sc, p.name))
    BY <1>6, <2>1 DEF Droppable
  <2>3. p.name \in TasksOf(co)
    BY <1>4, <1>5, <2>1, <2>2
  <2> QED
    BY <1>4, <1>5, <2>1, <2>2, <2>3
<1>11. IsRemembered(old, co) => SameStates(old, co)
  BY <1>4, <1>5, <1>7 DEF IsRemembered, SameStates
<1>12. Effective(seen, co)
  <2>1. \A n \in TasksOf(co) \ TotalTasks(seen) : TaskAt(co, n).deletionPending
    BY <1>1, <1>5 DEF Effective
  <2> QED
    BY <1>5, <2>1 DEF Effective
<1> QED
  BY <1>5, <1>8, <1>9, <1>10, <1>11, <1>12 DEF Rescaled, old, sc, co

LEMMA RescaleKeeps ==
  ASSUME ScaleAssumption, Inv, NEW ts, Rescaled(status.tasks, ts), Rescale(ts),
         pc = "idle", UNCHANGED <<spec, cacheVars, todo, status, pods, events>>
  PROVE  Inv'
<1> USE DEF cacheVars
<1>1. f' = [completing |-> status.completing, tasks |-> ts] /\ status.completing \in BOOLEAN
  BY DEF Inv, TypeOK, IsStatus, Rescale
<1>2. IsStatus(f)'
  BY <1>1 DEF IsStatus, Rescaled
<1>3. \A n \in Names :
        /\ gens'[n] = IF n \in TasksOf(ts) /\ TaskAt(ts, n).inst > gens[n]
                        THEN TaskAt(ts, n).inst ELSE gens[n]
        /\ gens[n] \in Nat
        /\ n \in TasksOf(ts) => TaskAt(ts, n).inst \in Nat
  BY TypeOfTask DEF Rescale, NextGens, Inv, TypeOK, Task, Rescaled
<1>4. gens' \in [Names -> Nat]
  BY <1>3 DEF Rescale, NextGens
<1>5. /\ pc' \in {"policy", "persist"} /\ queued' \in BOOLEAN
      /\ pc' = "policy" => IsRemembered(status.tasks, ts)
  BY DEF Rescale, MustWait
<1>6. TypeOK'
  BY <1>2, <1>4, <1>5 DEF Inv, TypeOK, IsStatus
<1>7. GensAhead(status.tasks)'
  <2> SUFFICES ASSUME NEW n \in TasksOf(status.tasks)
               PROVE  TaskAt(status.tasks, n).inst <= gens'[n]
    BY DEF GensAhead
  <2>1. n \in Names /\ TaskAt(status.tasks, n).inst <= gens[n]
    BY DEF Inv, GensAhead, TasksOf
  <2>2. TaskAt(status.tasks, n).inst \in Nat
    BY TypeOfTask DEF Inv, TypeOK, IsStatus, Task
  <2> QED
    BY <1>3, <2>1, <2>2
<1>8. Committed(status.tasks, f.tasks)'
  <2>1. GensAhead(f.tasks)'
    <3> SUFFICES ASSUME NEW n \in TasksOf(ts)
                 PROVE  TaskAt(ts, n).inst <= gens'[n]
      BY <1>1 DEF GensAhead
    <3>1. n \in Names
      BY DEF TasksOf
    <3> QED
      BY <1>3, <3>1
  <2>2. OnlyDroppableLost(status.tasks, ts) /\ MarksCommitted(status.tasks, ts)
    BY DEF Rescaled
  <2> QED
    BY <1>1, <2>1, <2>2 DEF Committed, OnlyDroppableLost, MarksCommitted
<1>9. PodsFit(status.tasks)' /\ PodsFit(f.tasks)'
  <2>1. PodsFit(status.tasks) /\ PodsFit(ts)
    BY DEF Inv, Rescaled
  <2> QED
    BY <1>1, <2>1 DEF PodsFit
<1>10. ScaleEffective' /\ UnsyncedAsPersisted'
  <2>1. pc' = "policy" => Effective(seen, ts) /\ SameStates(status.tasks, ts)
    BY <1>5 DEF Rescaled
  <2> QED
    BY <1>1, <1>5, <2>1 DEF ScaleEffective, UnsyncedAsPersisted, Effective, SameStates
<1>11. pc' \in {"policy", "tasks"} => IsRemembered(status.tasks, f.tasks)'
  BY <1>1, <1>5
<1> QED
  BY <1>6, <1>7, <1>8, <1>9, <1>10, <1>11 DEF Inv

LEMMA StartSyncKeeps ==
  ASSUME ScaleAssumption, Inv, StartSync
  PROVE  Inv'
<1> DEFINE sc == Scaled(seen, status.tasks)
<1>1. CASE MustWait(status.tasks, sc)
  <2>1. Rescale(sc)
    BY <1>1 DEF StartSync
  <2> QED
    BY <2>1, ScaledIsRescaled, RescaleKeeps DEF StartSync
<1>2. CASE ~MustWait(status.tasks, sc)
  <2>1. Rescale(Compacted(seen, sc)) /\ IsRemembered(status.tasks, sc)
    BY <1>2 DEF StartSync, MustWait
  <2>2. Rescaled(status.tasks, Compacted(seen, sc))
    BY <2>1, CompactedIsRescaled
  <2> HIDE DEF sc
  <2> QED
    BY <2>1, <2>2, RescaleKeeps DEF StartSync
<1> QED
  BY <1>1, <1>2

-----------------------------------------------------------------------------
(* The rest of a sync: Tasks change, but no name, instance or mark does *)

SameTasks(ts, us) ==
  /\ DOMAIN us = DOMAIN ts
  /\ TasksOf(us) = TasksOf(ts)
  /\ \A n \in TasksOf(ts) :
       /\ TaskAt(us, n).inst = TaskAt(ts, n).inst
       /\ TaskAt(us, n).deletionPending = TaskAt(ts, n).deletionPending

LEMMA SameTasksKeeps ==
  ASSUME Inv, pc \in {"policy", "tasks"}, SameTasks(f.tasks, f'.tasks),
         UNCHANGED <<seen, status, gens>>
  PROVE  /\ ScaleEffective'
         /\ GensAhead(status.tasks)' /\ Committed(status.tasks, f.tasks)'
         /\ IsRemembered(status.tasks, f.tasks)'
<1>1. ScaleEffective'
  BY DEF Inv, ScaleEffective, SameTasks
<1>2. GensAhead(status.tasks)' /\ GensAhead(f.tasks)'
  BY DEF Inv, Committed, GensAhead, SameTasks
<1>3. IsRemembered(status.tasks, f.tasks)'
  BY DEF Inv, IsRemembered, SameTasks
<1>4. OnlyDroppableLost(status.tasks, f.tasks)'
  BY DEF Inv, Committed, OnlyDroppableLost, SameTasks
<1>5. MarksCommitted(status.tasks, f.tasks)'
  BY <1>3 DEF IsRemembered, MarksCommitted
<1> QED
  BY <1>1, <1>2, <1>3, <1>4, <1>5 DEF Committed

\* One Task of the Status is set.
LEMMA SetTask ==
  ASSUME ScaleAssumption, NEW ts, IsTaskRoleStatuses(ts), NEW n \in TasksOf(ts),
         NEW t, IsTaskStatus(t)
  PROVE  LET us == [ts EXCEPT ![n[1]][n[2]] = t]
         IN  /\ IsTaskRoleStatuses(us)
             /\ DOMAIN us = DOMAIN ts /\ TasksOf(us) = TasksOf(ts)
             /\ \A m \in TasksOf(ts) :
                  TaskAt(us, m) = IF m = n THEN t ELSE TaskAt(ts, m)
<1> DEFINE us == [ts EXCEPT ![n[1]][n[2]] = t]
           q == [ts[n[1]] EXCEPT ![n[2]] = t]
<1>1. n = <<n[1], n[2]>> /\ n[1] \in DOMAIN ts /\ n[2] \in 1 .. Len(ts[n[1]])
  BY NamesOfTasks
<1>2. ts \in [DOMAIN ts -> Seq(Task)] /\ t \in Task
  BY DEF IsTaskRoleStatuses, IsTaskStatus
<1>3. /\ q \in Seq(Task) /\ Len(q) = Len(ts[n[1]])
      /\ \A i \in 1 .. Len(ts[n[1]]) : q[i] = IF i = n[2] THEN t ELSE ts[n[1]][i]
  BY <1>1, <1>2, ExceptSeq
<1>4. us = [ts EXCEPT ![n[1]] = q]
  BY <1>1
<1> HIDE DEF us, q
<1>5. /\ us \in [DOMAIN ts -> Seq(Task)] /\ DOMAIN us = DOMAIN ts
      /\ \A r \in DOMAIN ts : Len(us[r]) = Len(ts[r])
      /\ \A r \in DOMAIN ts : us[r] = IF r = n[1] THEN q ELSE ts[r]
  BY <1>1, <1>2, <1>3, <1>4
<1>6. TasksOf(us) = TasksOf(ts)
  BY <1>5 DEF TasksOf
<1>7. \A m \in TasksOf(ts) : TaskAt(us, m) = IF m = n THEN t ELSE TaskAt(ts, m)
  <2> SUFFICES ASSUME NEW m \in TasksOf(ts)
               PROVE  TaskAt(us, m) = IF m = n THEN t ELSE TaskAt(ts, m)
    OBVIOUS
  <2>1. m = <<m[1], m[2]>> /\ m[1] \in DOMAIN ts /\ m[2] \in 1 .. Len(ts[m[1]])
    BY NamesOfTasks
  <2>2. m = n <=> m[1] = n[1] /\ m[2] = n[2]
    BY <1>1, <2>1
  <2> QED
    BY <1>3, <1>5, <2>1, <2>2 DEF TaskAt
<1>8. IsTaskRoleStatuses(us)
  BY <1>5, <1>6, <1>7 DEF IsTaskRoleStatuses
<1> QED
  BY <1>5, <1>6, <1>7, <1>8 DEF us

\* completeFrameworkAttempt sets outcomes only.
LEMMA CompletionFacts ==
  ASSUME ScaleAssumption, NEW ts, IsTaskRoleStatuses(ts), CompleteFrameworkAttempt(ts)
  PROVE  /\ IsStatus(f)' /\ SameTasks(ts, f'.tasks) /\ queued' \in BOOLEAN
         /\ \A n \in TasksOf(ts) : TaskAt(f'.tasks, n).state = TaskAt(ts, n).state
<1> DEFINE us == f'.tasks
           size == [r \in DOMAIN ts |-> Len(ts[r])]
           Over(t) == [t EXCEPT !.outcome = OutcomeOr(t, "FrameworkAttemptCompletion")]
<1>1. \A t : IsTaskStatus(t) =>
        /\ IsTaskStatus(Over(t)) /\ Over(t).inst = t.inst /\ Over(t).state = t.state
        /\ Over(t).deletionPending = t.deletionPending
  BY DEF IsTaskStatus, Task, OutcomeOr
<1> HIDE DEF Over
<1>2. \A r \in DOMAIN ts : /\ size[r] = Len(ts[r]) /\ size[r] \in Nat
                           /\ size[r] <= MaxNumber /\ r \in Roles
  BY NamesOfTasks
<1>3. f' = [completing |-> TRUE, tasks |-> us]
      /\ us = [r \in DOMAIN ts |-> [i \in 1 .. size[r] |-> Over(ts[r][i])]]
  BY DEF CompleteFrameworkAttempt, Over
<1> HIDE DEF us, size
<1>4. DOMAIN us = DOMAIN ts
      /\ \A r \in DOMAIN us : /\ us[r] = [i \in 1 .. size[r] |-> us[r][i]]
                              /\ \A i \in 1 .. size[r] : us[r][i] = Over(ts[r][i])
  BY <1>3
<1>5. \A r \in DOMAIN ts : \A i \in 1 .. size[r] : IsTaskStatus(ts[r][i])
  <2>1. \A r \in DOMAIN ts : \A i \in 1 .. size[r] :
          <<r, i>> \in TasksOf(ts) /\ TaskAt(ts, <<r, i>>) = ts[r][i]
    <3> SUFFICES ASSUME NEW r \in DOMAIN ts, NEW i \in 1 .. size[r]
                 PROVE  <<r, i>> \in TasksOf(ts) /\ TaskAt(ts, <<r, i>>) = ts[r][i]
      OBVIOUS
    <3>1. i \in 1 .. Len(ts[r])
      BY <1>2
    <3> QED
      BY <3>1, NamesOfTasks
  <2>2. \A n \in TasksOf(ts) : IsTaskStatus(TaskAt(ts, n))
    BY TypeOfTask
  <2> QED
    BY <2>1, <2>2
<1>6. OfTuples(us, size)
  BY <1>1, <1>2, <1>3, <1>4, <1>5 DEF OfTuples
<1>7. IsTaskRoleStatuses(us) /\ \A r \in DOMAIN us : Len(us[r]) = Len(ts[r])
  BY <1>2, <1>4, <1>6, TypeOfTuples
<1>8. TasksOf(us) = TasksOf(ts)
  BY <1>4, <1>7 DEF TasksOf
<1>9. \A n \in TasksOf(ts) : TaskAt(us, n) = Over(TaskAt(ts, n))
  BY <1>2, <1>4, NamesOfTasks DEF TaskAt
<1>10. \A n \in TasksOf(ts) : IsTaskStatus(TaskAt(ts, n))
  BY TypeOfTask
<1>11. SameTasks(ts, us)
  BY <1>1, <1>4, <1>8, <1>9, <1>10 DEF SameTasks
<1>12. \A n \in TasksOf(ts) : TaskAt(us, n).state = TaskAt(ts, n).state
  BY <1>1, <1>9, <1>10
<1>13. IsStatus(f)' /\ queued' \in BOOLEAN
  BY <1>3, <1>7 DEF IsStatus, CompleteFrameworkAttempt, us
<1> QED
  BY <1>11, <1>12, <1>13 DEF us

LEMMA SyncPolicyKeeps ==
  ASSUME ScaleAssumption, Inv, SyncPolicy
  PROVE  Inv'
<1>1. IsTaskRoleStatuses(f.tasks) /\ IsStatus(f)
  BY DEF Inv, TypeOK, IsStatus
<1>2. /\ IsStatus(f)' /\ SameTasks(f.tasks, f'.tasks) /\ queued' \in BOOLEAN
      /\ \A n \in TasksOf(f.tasks) : TaskAt(f'.tasks, n).state = TaskAt(f.tasks, n).state
  <2>1. CASE CompleteFrameworkAttempt(f.tasks)
    BY <1>1, <2>1, CompletionFacts
  <2>2. CASE UNCHANGED <<f, queued>>
    BY <1>1, <2>2 DEF SameTasks, Inv, TypeOK, IsStatus
  <2> QED
    BY <2>1, <2>2 DEF SyncPolicy
<1>3. TypeOK'
  <2>1. todo' \subseteq Names /\ pc' \in {"idle", "policy", "tasks", "persist"}
    BY DEF SyncPolicy, TasksOf
  <2> QED
    BY <1>2, <2>1 DEF Inv, TypeOK, SyncPolicy, cacheVars, IsStatus
<1>4. /\ ScaleEffective'
      /\ GensAhead(status.tasks)' /\ Committed(status.tasks, f.tasks)'
      /\ IsRemembered(status.tasks, f.tasks)'
  BY <1>2, SameTasksKeeps DEF SyncPolicy, cacheVars
<1>5. UnsyncedAsPersisted'
  BY <1>2 DEF Inv, UnsyncedAsPersisted, SyncPolicy, SameTasks
<1>6. PodsFit(status.tasks)' /\ PodsFit(f.tasks)'
  BY <1>2 DEF Inv, PodsFit, SyncPolicy, SameTasks
<1> QED
  BY <1>3, <1>4, <1>5, <1>6 DEF Inv

\* What a call of syncTaskState does to the sync: the Task named n is in state s.
TaskStep(n, s) ==
  /\ IsStatus(f)' /\ SameTasks(f.tasks, f'.tasks)
  /\ \A m \in TasksOf(f.tasks) :
       TaskAt(f'.tasks, m).state = IF m = n THEN s ELSE TaskAt(f.tasks, m).state
  /\ todo' = todo \ {n} /\ queued' \in BOOLEAN /\ pc' = pc

\* t is what the Task named n may become.
Successor(n, t) ==
  /\ IsTaskStatus(t)
  /\ t.inst = TaskAt(f.tasks, n).inst
  /\ t.deletionPending = TaskAt(f.tasks, n).deletionPending

LEMMA WithFacts ==
  ASSUME ScaleAssumption, TypeOK, NEW n \in TasksOf(f.tasks), NEW t, Successor(n, t)
  PROVE  /\ IsTaskRoleStatuses(With(n, t)) /\ SameTasks(f.tasks, With(n, t))
         /\ \A m \in TasksOf(f.tasks) :
              TaskAt(With(n, t), m).state =
                IF m = n THEN t.state ELSE TaskAt(f.tasks, m).state
<1> DEFINE us == With(n, t)
<1>1. IsTaskRoleStatuses(f.tasks)
  BY DEF TypeOK, IsStatus
<1>2. /\ IsTaskRoleStatuses(us)
      /\ DOMAIN us = DOMAIN f.tasks /\ TasksOf(us) = TasksOf(f.tasks)
      /\ \A m \in TasksOf(f.tasks) :
           TaskAt(us, m) = IF m = n THEN t ELSE TaskAt(f.tasks, m)
  BY <1>1, SetTask DEF Successor, With
<1> HIDE DEF us
<1>3. SameTasks(f.tasks, us)
  BY <1>2 DEF SameTasks, Successor
<1> QED
  BY <1>2, <1>3 DEF us

LEMMA BecomesFacts ==
  ASSUME ScaleAssumption, TypeOK, NEW n \in TasksOf(f.tasks), NEW t, Successor(n, t),
         NEW again \in BOOLEAN, Becomes(n, t, again)
  PROVE  TaskStep(n, t.state)
<1>1. /\ IsTaskRoleStatuses(With(n, t)) /\ SameTasks(f.tasks, With(n, t))
      /\ \A m \in TasksOf(f.tasks) :
           TaskAt(With(n, t), m).state =
             IF m = n THEN t.state ELSE TaskAt(f.tasks, m).state
  BY WithFacts
<1>2. f' = [completing |-> f.completing, tasks |-> With(n, t)] /\ f.completing \in BOOLEAN
  BY DEF TypeOK, IsStatus, Becomes
<1>3. queued' \in BOOLEAN
  BY DEF TypeOK, Becomes
<1> QED
  BY <1>1, <1>2, <1>3 DEF TaskStep, IsStatus, Becomes

LEMMA CompleteTaskFacts ==
  ASSUME ScaleAssumption, TypeOK, NEW n \in TasksOf(f.tasks), NEW t, Successor(n, t),
         CompleteTask(n, t)
  PROVE  TaskStep(n, t.state)
<1>1. CASE CompleteFrameworkAttempt(With(n, t)) /\ todo' = todo \ {n} /\ UNCHANGED pc
  <2>1. /\ IsTaskRoleStatuses(With(n, t)) /\ SameTasks(f.tasks, With(n, t))
        /\ \A m \in TasksOf(f.tasks) :
             TaskAt(With(n, t), m).state =
               IF m = n THEN t.state ELSE TaskAt(f.tasks, m).state
    BY WithFacts
  <2>2. /\ IsStatus(f)' /\ SameTasks(With(n, t), f'.tasks) /\ queued' \in BOOLEAN
        /\ \A m \in TasksOf(With(n, t)) :
             TaskAt(f'.tasks, m).state = TaskAt(With(n, t), m).state
    BY <1>1, <2>1, CompletionFacts
  <2>3. SameTasks(f.tasks, f'.tasks)
    BY <2>1, <2>2 DEF SameTasks
  <2> QED
    BY <1>1, <2>1, <2>2, <2>3 DEF TaskStep, SameTasks
<1>2. CASE Becomes(n, t, ~f.completing /\ (t.deletionPending \/ ~Belongs(n)))
  <2>1. (~f.completing /\ (t.deletionPending \/ ~Belongs(n))) \in BOOLEAN
    OBVIOUS
  <2> QED
    BY <1>2, <2>1, BecomesFacts
<1> QED
  BY <1>1, <1>2 DEF CompleteTask

\* The Pods after a step of the Task named n, which is then in state s: those
\* before, or a new one of a Task that is CreationPending.
PodsStep(n, s) ==
  /\ pods' \subseteq Pod
  /\ \A q \in pods' :
       \/ \E p \in pods : q.name = p.name /\ q.inst = p.inst
       \/ /\ q.name = n /\ q.inst = TaskAt(f.tasks, n).inst
          /\ TaskAt(f.tasks, n).state = "CreationPending"
  /\ s \in {"AttemptCompleted", "Completed"} => \A q \in pods' : q.name # n

LEMMA TaskStepKeeps ==
  ASSUME Inv, pc = "tasks", NEW n \in todo, NEW s, TaskStep(n, s), PodsStep(n, s),
         UNCHANGED <<spec, cacheVars, status, gens>>, events' \in 0 .. MaxEvents
  PROVE  Inv'
<1> USE DEF cacheVars
<1>1. n \in TasksOf(f.tasks) /\ IsRemembered(status.tasks, f.tasks)
  BY DEF Inv, UnsyncedAsPersisted
<1>2. TypeOK'
  BY DEF Inv, TypeOK, TaskStep, PodsStep, IsStatus
<1>3. /\ ScaleEffective'
      /\ GensAhead(status.tasks)' /\ Committed(status.tasks, f.tasks)'
      /\ IsRemembered(status.tasks, f.tasks)'
  BY SameTasksKeeps DEF TaskStep
<1>4. UnsyncedAsPersisted'
  BY DEF Inv, UnsyncedAsPersisted, TaskStep, SameTasks
<1>5. PodsFit(status.tasks)'
  <2> SUFFICES ASSUME NEW q \in pods'
               PROVE  /\ q.name \in TasksOf(status.tasks)
                      /\ TaskAt(status.tasks, q.name).inst = q.inst
                      /\ TaskAt(status.tasks, q.name).state
                           \notin {"AttemptCompleted", "Completed"}
    BY DEF PodsFit
  <2>1. CASE \E p \in pods : q.name = p.name /\ q.inst = p.inst
    BY <2>1 DEF Inv, PodsFit
  <2>2. CASE /\ q.name = n /\ q.inst = TaskAt(f.tasks, n).inst
             /\ TaskAt(f.tasks, n).state = "CreationPending"
    <3>1. TaskAt(status.tasks, n).state = "CreationPending"
      BY <1>1, <2>2 DEF Inv, UnsyncedAsPersisted
    <3> QED
      BY <1>1, <2>2, <3>1 DEF IsRemembered
  <2> QED
    BY <2>1, <2>2 DEF PodsStep
<1>6. PodsFit(f.tasks)'
  <2> SUFFICES ASSUME NEW q \in pods'
               PROVE  /\ q.name \in TasksOf(f.tasks)
                      /\ TaskAt(f.tasks, q.name).inst = q.inst
                      /\ q.name # n => TaskAt(f.tasks, q.name).state
                                         \notin {"AttemptCompleted", "Completed"}
    BY <1>1 DEF PodsFit, TaskStep, SameTasks, PodsStep
  <2> QED
    BY <1>1 DEF Inv, PodsFit, PodsStep
<1> QED
  BY <1>2, <1>3, <1>4, <1>5, <1>6 DEF Inv

-----------------------------------------------------------------------------
(* syncTaskState *)

\* The Task that is synced
LEMMA SyncedTask ==
  ASSUME Inv, pc = "tasks", NEW n \in todo
  PROVE  /\ n \in TasksOf(f.tasks) /\ n \in Names
         /\ IsTaskStatus(TaskAt(f.tasks, n)) /\ Successor(n, TaskAt(f.tasks, n))
         /\ TaskAt(f.tasks, n).state \in {"AttemptCompleted", "Completed"} => PodsOf(n) = {}
<1>1. n \in TasksOf(f.tasks) /\ n \in Names
  BY DEF Inv, UnsyncedAsPersisted, TasksOf
<1>2. IsTaskStatus(TaskAt(f.tasks, n))
  BY <1>1, TypeOfTask DEF Inv, TypeOK, IsStatus
<1>3. TaskAt(f.tasks, n).state \in {"AttemptCompleted", "Completed"} => PodsOf(n) = {}
  BY DEF Inv, PodsFit, PodsOf
<1> QED
  BY <1>1, <1>2, <1>3 DEF Successor

\* A step that leaves the Pods alone, or deletes them
LEMMA SamePodsStep ==
  ASSUME TypeOK, NEW n \in Names, NEW s, UNCHANGED pods \/ DeletePod(n),
         s \in {"AttemptCompleted", "Completed"} => PodsOf(n) = {}
  PROVE  PodsStep(n, s)
<1>1. NoOtherPods /\ pods' \subseteq Pod
  BY DeletePodKeeps DEF NoOtherPods, TypeOK
<1> QED
  BY <1>1 DEF NoOtherPods, PodsStep, PodsOf

LEMMA CreationPendingStep ==
  ASSUME ScaleAssumption, Inv, pc = "tasks", NEW n \in todo,
         SyncCreationPending(n, TaskAt(f.tasks, n))
  PROVE  \E s : TaskStep(n, s) /\ PodsStep(n, s)
<1> DEFINE t == TaskAt(f.tasks, n)
<1>1. /\ n \in TasksOf(f.tasks) /\ n \in Names /\ TypeOK
      /\ IsTaskStatus(t) /\ Successor(n, t) /\ t.state = "CreationPending"
  BY SyncedTask DEF Inv, SyncCreationPending
<1>2. ASSUME NEW u, Successor(n, u), NEW again \in BOOLEAN, Becomes(n, u, again),
             UNCHANGED pods \/ DeletePod(n),
             u.state \in {"AttemptCompleted", "Completed"} => PodsOf(n) = {}
      PROVE  \E s : TaskStep(n, s) /\ PodsStep(n, s)
  BY <1>1, <1>2, BecomesFacts, SamePodsStep
<1>3. CASE DeletePod(n) /\ Becomes(n, t, TRUE)
  BY <1>1, <1>2, <1>3
<1>4. CASE Becomes(n, t, FALSE) /\ UNCHANGED pods
  BY <1>1, <1>2, <1>4
<1>5. CASE /\ PodsOf(n) = {} /\ UNCHANGED pods
           /\ Becomes(n, [t EXCEPT !.state = "AttemptCompleted",
                                   !.outcome = OutcomeOr(t, "DeleteTaskRequested")], TRUE)
  <2>1. Successor(n, [t EXCEPT !.state = "AttemptCompleted",
                               !.outcome = OutcomeOr(t, "DeleteTaskRequested")])
    BY <1>1 DEF Successor, IsTaskStatus, Task, OutcomeOr
  <2> QED
    BY <1>2, <1>5, <2>1
<1>6. CASE /\ pods' = pods \cup {[name |-> n, inst |-> t.inst, deleting |-> FALSE]}
           /\ Becomes(n, [t EXCEPT !.state = "Active"], FALSE)
  <2>1. Successor(n, [t EXCEPT !.state = "Active"])
        /\ [t EXCEPT !.state = "Active"].state = "Active"
    BY <1>1 DEF Successor, IsTaskStatus, Task
  <2>2. TaskStep(n, "Active")
    BY <1>1, <1>6, <2>1, BecomesFacts
  <2>3. PodsStep(n, "Active")
    <3> DEFINE p == [name |-> n, inst |-> t.inst, deleting |-> FALSE]
    <3>1. p \in Pod /\ p.name = n /\ p.inst = t.inst
      BY <1>1 DEF Pod, IsTaskStatus, Task
    <3>2. pods' = pods \cup {p} /\ pods \subseteq Pod /\ t.state = "CreationPending"
      BY <1>1, <1>6 DEF TypeOK
    <3> HIDE DEF p
    <3> QED
      BY <3>1, <3>2 DEF PodsStep
  <2> QED
    BY <2>2, <2>3
<1> QED
  BY <1>3, <1>4, <1>5, <1>6 DEF SyncCreationPending

LEMMA ActiveStep ==
  ASSUME ScaleAssumption, Inv, pc = "tasks", NEW n \in todo,
         SyncActive(n, TaskAt(f.tasks, n))
  PROVE  \E s : TaskStep(n, s) /\ PodsStep(n, s)
<1> DEFINE t == TaskAt(f.tasks, n)
           Ended(state, o) == [t EXCEPT !.state = state, !.outcome = OutcomeOr(t, o)]
<1>1. /\ n \in TasksOf(f.tasks) /\ n \in Names /\ TypeOK
      /\ IsTaskStatus(t) /\ Successor(n, t) /\ t.state = "Active" /\ UNCHANGED pods
  BY SyncedTask DEF Inv, SyncActive
<1>2. \A state \in {"AttemptCompleted", "DeletionPending"} :
        \A o \in {"Succeeded", "Failed", "DeleteTaskRequested"} :
          Successor(n, Ended(state, o)) /\ Ended(state, o).state = state
  BY <1>1 DEF Successor, IsTaskStatus, Task, OutcomeOr
<1> HIDE DEF Ended
<1>3. ASSUME NEW u, Successor(n, u), NEW again \in BOOLEAN, Becomes(n, u, again),
             u.state \in {"AttemptCompleted", "Completed"} => PodsOf(n) = {}
      PROVE  \E s : TaskStep(n, s) /\ PodsStep(n, s)
  BY <1>1, <1>3, BecomesFacts, SamePodsStep
<1>4. CASE PodsOf(n) = {} /\ Becomes(n, Ended("AttemptCompleted", "Failed"), TRUE)
  BY <1>2, <1>3, <1>4
<1>5. CASE \E o \in {"Succeeded", "Failed", "DeleteTaskRequested"} : \E again \in BOOLEAN :
             Becomes(n, Ended("DeletionPending", o), again)
  BY <1>2, <1>3, <1>5
<1>6. CASE Becomes(n, t, FALSE)
  BY <1>1, <1>3, <1>6
<1> QED
  BY <1>4, <1>5, <1>6 DEF SyncActive, Ended

LEMMA DeletionPendingStep ==
  ASSUME ScaleAssumption, Inv, pc = "tasks", NEW n \in todo,
         SyncDeletionPending(n, TaskAt(f.tasks, n))
  PROVE  \E s : TaskStep(n, s) /\ PodsStep(n, s)
<1> DEFINE t == TaskAt(f.tasks, n)
           u == [t EXCEPT !.state = "AttemptCompleted"]
<1>1. /\ n \in TasksOf(f.tasks) /\ n \in Names /\ TypeOK
      /\ IsTaskStatus(t) /\ Successor(n, t) /\ t.state = "DeletionPending" /\ DeletePod(n)
  BY SyncedTask DEF Inv, SyncDeletionPending
<1>2. Successor(n, u) /\ u.state = "AttemptCompleted"
  BY <1>1 DEF Successor, IsTaskStatus, Task
<1>3. CASE PodsOf(n) = {} /\ Becomes(n, u, TRUE)
  <2> HIDE DEF u
  <2> QED
    BY <1>1, <1>2, <1>3, BecomesFacts, SamePodsStep
<1>4. CASE Becomes(n, t, FALSE)
  BY <1>1, <1>4, BecomesFacts, SamePodsStep
<1> QED
  BY <1>3, <1>4 DEF SyncDeletionPending

LEMMA AttemptCompletedStep ==
  ASSUME ScaleAssumption, Inv, pc = "tasks", NEW n \in todo,
         SyncAttemptCompleted(n, TaskAt(f.tasks, n))
  PROVE  \E s : TaskStep(n, s) /\ PodsStep(n, s)
<1> DEFINE t == TaskAt(f.tasks, n)
           done == [t EXCEPT !.state = "Completed"]
           again == [t EXCEPT !.state = "CreationPending", !.outcome = "none"]
<1>1. /\ n \in TasksOf(f.tasks) /\ n \in Names /\ TypeOK
      /\ IsTaskStatus(t) /\ Successor(n, t) /\ t.state = "AttemptCompleted"
      /\ PodsOf(n) = {} /\ UNCHANGED pods
  BY SyncedTask DEF Inv, SyncAttemptCompleted
<1>2. /\ Successor(n, done) /\ done.state = "Completed"
      /\ Successor(n, again) /\ again.state = "CreationPending"
  BY <1>1 DEF Successor, IsTaskStatus, Task
<1>3. CASE CompleteTask(n, done)
  <2> HIDE DEF done
  <2> QED
    BY <1>1, <1>2, <1>3, CompleteTaskFacts, SamePodsStep
<1>4. CASE Becomes(n, again, TRUE)
  <2> HIDE DEF again
  <2> QED
    BY <1>1, <1>2, <1>4, BecomesFacts, SamePodsStep
<1> QED
  BY <1>3, <1>4 DEF SyncAttemptCompleted

LEMMA SyncTaskKeeps ==
  ASSUME ScaleAssumption, Inv, SyncTask
  PROVE  Inv'
<1>1. PICK n \in todo :
        LET t == TaskAt(f.tasks, n)
        IN  \/ SyncCreationPending(n, t)
            \/ SyncActive(n, t)
            \/ SyncDeletionPending(n, t)
            \/ SyncAttemptCompleted(n, t)
  BY DEF SyncTask
<1>2. pc = "tasks" /\ UNCHANGED <<spec, cacheVars, status, gens>>
  BY DEF SyncTask
<1>3. \E s : TaskStep(n, s) /\ PodsStep(n, s)
  BY <1>1, <1>2, CreationPendingStep, ActiveStep, DeletionPendingStep, AttemptCompletedStep
<1>4. events' \in 0 .. MaxEvents
  <2>1. UNCHANGED events \/ Bounded
    BY <1>1 DEF SyncCreationPending, SyncActive, SyncDeletionPending, SyncAttemptCompleted
  <2> QED
    BY <2>1 DEF Inv, TypeOK, Bounded, ScaleAssumption
<1> QED
  BY <1>2, <1>3, <1>4, TaskStepKeeps

LEMMA NextKeeps == ScaleAssumption /\ Inv /\ [Next]_vars => Inv'
<1> SUFFICES ASSUME ScaleAssumption, Inv, [Next]_vars PROVE Inv'
  OBVIOUS
<1>1. CASE UNCHANGED vars
  BY <1>1 DEF Inv, TypeOK, IsStatus, ScaleEffective, GensAhead, Committed, OnlyDroppableLost,
              MarksCommitted, UnsyncedAsPersisted, PodsFit, vars, cacheVars, syncVars
<1>2. CASE Sync
  BY <1>2, StartSyncKeeps, SyncPolicyKeeps, SyncTaskKeeps, PersistKeeps DEF Sync
<1> QED
  BY <1>1, <1>2, OthersKeep DEF Next

-----------------------------------------------------------------------------
(* Theorems *)

\* What no step does to what users see
StepCommitted ==
  \/ UNCHANGED status
  \/ OnlyDroppableLost(status.tasks, status'.tasks) /\ MarksCommitted(status.tasks, status'.tasks)

LEMMA NextCommits == Inv /\ [Next]_vars => StepCommitted
<1> SUFFICES ASSUME Inv, [Next]_vars PROVE StepCommitted
  OBVIOUS
<1>1. CASE Persist
  BY <1>1 DEF Persist, Inv, Committed, StepCommitted
<1>2. CASE ~Persist
  BY <1>2 DEF Next, Sync, Cluster, UserRescale, Deliver, StartSync, SyncPolicy, SyncTask,
              ConfigMapAppears, PodEvent, PodDeletedByOthers, PodGone, Restart, vars,
              StepCommitted
<1> QED
  BY <1>1, <1>2

LEMMA Invariance == Safety => []Inv /\ [][StepCommitted]_vars
<1>1. Init => Inv
  BY InitInv, ScaleAssumption
<1>2. Inv /\ [Next]_vars => Inv'
  BY NextKeeps, ScaleAssumption
<1>3. Inv /\ [Next]_vars => [StepCommitted]_vars
  BY NextCommits
<1> QED
  BY <1>1, <1>2, <1>3, PTL DEF Safety

\* Each variable has its type, and a Task that has ended has an outcome: the retry
\* decision dereferences its CompletionStatus (attemptToRetryTask).
THEOREM TypeCorrect == Safety => []TypeOK
<1>1. Inv => TypeOK
  BY DEF Inv
<1> QED
  BY Invariance, <1>1, PTL

\* The policy and the Tasks are only synced with TaskRoles and Tasks that contain
\* those of the Spec, all others being DeletionPending, however often the Spec
\* changed before (syncFrameworkStatus, compactFrameworkScale).
THEOREM ScaleEffectiveHolds == Safety => []ScaleEffective
<1>1. Inv => ScaleEffective
  BY DEF Inv
<1> QED
  BY Invariance, <1>1, PTL

\* As many completed Tasks as Tasks of the Spec are exactly those of the Spec: the
\* list ordered by completion time has the element that completes the attempt
\* (syncFrameworkAttemptCompletionPolicy).
THEOREM CompletedWithinTotalHolds == Safety => []CompletedWithinTotal
<1>1. Inv => CompletedWithinTotal
  <2> SUFFICES ASSUME Inv, pc = "policy", CompletedTriggers(seen, f.tasks)
               PROVE  CompletedTasks(f.tasks) = TotalTasks(seen)
    BY DEF CompletedWithinTotal
  <2>1. IsFiniteSet(TotalTasks(seen))
    BY TotalIsFinite, ScaleAssumption DEF Inv, TypeOK
  <2>2. CompletedTasks(f.tasks) \subseteq TotalTasks(seen)
    BY DEF Inv, ScaleEffective, CompletedTasks, Counts
  <2>3. /\ IsFiniteSet(CompletedTasks(f.tasks))
        /\ Cardinality(CompletedTasks(f.tasks)) <= Cardinality(TotalTasks(seen))
        /\ Cardinality(TotalTasks(seen)) = Cardinality(CompletedTasks(f.tasks))
             => TotalTasks(seen) = CompletedTasks(f.tasks)
    BY <2>1, <2>2, FS_Subset
  <2>4. /\ Cardinality(TotalTasks(seen)) \in Nat
        /\ Cardinality(CompletedTasks(f.tasks)) \in Nat
    BY <2>1, <2>3, FS_CardinalityType
  <2>5. Cardinality(CompletedTasks(f.tasks)) >= Cardinality(TotalTasks(seen))
    BY DEF CompletedTriggers
  <2> QED
    BY <2>3, <2>4, <2>5
<1> QED
  BY Invariance, <1>1, PTL

\* A Pod is always that of a Task instance which users can see, also if the
\* controller restarts between any two steps (createPod, compactFrameworkScale).
THEOREM PodsAreExposedHolds == Safety => []PodsAreExposed
<1>1. Inv => PodsAreExposed
  BY DEF Inv, PodsFit, PodsAreExposed
<1> QED
  BY Invariance, <1>1, PTL

\* An instance that users saw as DeletionPending stays so, and it was not impacted
\* before they could see it (syncFrameworkScale).
THEOREM ScaleDownCommittedHolds == Safety => ScaleDownCommitted
<1>1. [StepCommitted]_vars =>
        [\A n \in TasksOf(status.tasks) \cap TasksOf(status'.tasks) :
           LET t == TaskAt(status.tasks, n)
               u == TaskAt(status'.tasks, n)
           IN  t.inst = u.inst =>
                 /\ t.deletionPending => u.deletionPending
                 /\ ~t.deletionPending /\ u.deletionPending => u.state = t.state]_vars
  BY DEF StepCommitted, MarksCommitted
<1> QED
  BY Invariance, <1>1, PTL DEF ScaleDownCommitted

\* An instance leaves the Status only after users could see it as DeletionPending
\* and Completed (compactFrameworkScale).
THEOREM RemovedOnceExposedHolds == Safety => RemovedOnceExposed
<1>1. [StepCommitted]_vars =>
        [\A n \in TasksOf(status.tasks) :
           \/ /\ n \in TasksOf(status'.tasks)
              /\ TaskAt(status'.tasks, n).inst = TaskAt(status.tasks, n).inst
           \/ /\ TaskAt(status.tasks, n).deletionPending
              /\ TaskAt(status.tasks, n).state = "Completed"]_vars
  BY DEF StepCommitted, OnlyDroppableLost, Droppable
<1> QED
  BY Invariance, <1>1, PTL DEF RemovedOnceExposed
=============================================================================
