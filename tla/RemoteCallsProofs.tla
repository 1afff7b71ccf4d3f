------------------------- MODULE RemoteCallsProofs -------------------------
(***************************************************************************)
(* What calls to the ApiServer can do to the world they are made in,       *)
(* whatever the objects are: the facts about RemoteCalls that the proofs   *)
(* about ConfigMaps and Pods rest on.                                      *)
(***************************************************************************)
EXTENDS RemoteCalls, TLAPS

\* A call ends in one of its worlds, or has no effect and fails.
LEMMA ResultsEnd ==
  ASSUME NEW w, NEW worlds, NEW r \in Results(w, worlds)
  PROVE  /\ r.ok \in BOOLEAN
         /\ r.w \in worlds \/ (r.w = w /\ ~r.ok)
BY DEF Results

\* A Delete changes the object of the UID at most, and if it succeeds that one is
\* requested to be deleted, or there is none of the name.
LEMMA DeleteEnds ==
  ASSUME NEW w, NEW u, NEW by, NEW r \in DeleteResults(w, u, by)
  PROVE  /\ r.ok \in BOOLEAN
         /\ \/ r.w = w
            \/ /\ Present(w.obj) /\ w.obj.uid = u
               /\ r.w \in {Marked(w, by), Erased(Marked(w, by))}
         /\ r.ok => \/ ~Present(w.obj) /\ r.w = w
                    \/ /\ Present(w.obj) /\ w.obj.uid = u
                       /\ r.w \in {Marked(w, by), Erased(Marked(w, by))}
<1>1. CASE ~Present(w.obj)
  <2>1. r \in Results(w, {w})
    BY <1>1 DEF DeleteResults
  <2> QED
    BY <1>1, <2>1, ResultsEnd
<1>2. CASE Present(w.obj) /\ w.obj.uid # u
  <2>1. r = [w |-> w, ok |-> FALSE]
    BY <1>2 DEF DeleteResults
  <2> QED
    BY <2>1
<1>3. CASE Present(w.obj) /\ w.obj.uid = u
  <2>1. r \in Results(w, {Marked(w, by), Erased(Marked(w, by))})
    BY <1>3 DEF DeleteResults
  <2> QED
    BY <1>3, <2>1, ResultsEnd
<1> QED
  BY <1>1, <1>2, <1>3

\* A Create stores the object if there is none of the name, or has no effect.
LEMMA CreateEnds ==
  ASSUME NEW w, NEW created, NEW maxLost, NEW r \in CreateResults(w, created, maxLost)
  PROVE  /\ r.ok \in BOOLEAN
         /\ r.w = w \/ (~Present(w.obj) /\ r.w = Store(w, created))
         /\ r.ok => ~Present(w.obj) /\ r.w = Store(w, created)
<1>1. CASE Present(w.obj)
  <2>1. r = [w |-> w, ok |-> FALSE]
    BY <1>1 DEF CreateResults
  <2> QED
    BY <2>1
<1>2. CASE ~Present(w.obj)
  <2>1. r \in Results(w, {Store(w, created)})
    BY <1>2 DEF CreateResults
  <2> QED
    BY <1>2, <2>1, ResultsEnd
<1> QED
  BY <1>1, <1>2

-----------------------------------------------------------------------------
(* Versions of an object, in a set O that is closed under deletion on behalf of by *)

Closed(O, by) ==
  \A o \in O :
    /\ o.uid \in Nat /\ o.phase \in Phases
    /\ LET d == [o EXCEPT !.phase = "deleting", !.by = by]
       IN  d \in O /\ d.uid = o.uid /\ d.phase = "deleting"
    /\ LET g == [o EXCEPT !.phase = "gone"]
       IN  g \in O /\ g.uid = o.uid /\ g.phase = "gone"

WorldsOf(O) == [obj : O, watch : SUBSET O, failing : BOOLEAN]

\* x is the world w after calls that concern the same object.
Onwards(w, x) ==
  /\ x.obj.uid = w.obj.uid
  /\ PhaseAge(w.obj) <= PhaseAge(x.obj)
  /\ ~Present(w.obj) => x = w
  /\ w.watch \subseteq x.watch
  /\ \A p \in x.watch :
       \/ p \in w.watch
       \/ /\ Present(w.obj) /\ p.uid = w.obj.uid
          /\ PhaseAge(w.obj) < PhaseAge(p) /\ PhaseAge(p) <= PhaseAge(x.obj)
  /\ x.obj = w.obj \/ x.obj \in x.watch

\* The cache has c, and the versions W are on their way to it: they are in the
\* order of the ApiServer, which is at o, and the last one is not missing.
InOrder(o, c, W) ==
  /\ (o.uid = 0 => ~Present(o)) /\ (c.uid = 0 => ~Present(c))
  /\ PhaseAge(c) <= PhaseAge(o)
  /\ \A p \in W : p.uid # 0 /\ PhaseAge(c) < PhaseAge(p) /\ PhaseAge(p) <= PhaseAge(o)
  /\ PhaseAge(c) = PhaseAge(o) \/ \E p \in W : PhaseAge(p) = PhaseAge(o)

\* The age of a version tells its uid and its phase, and grows with both.
LEMMA PhaseAgeOrder ==
  ASSUME NEW o, o.uid \in Nat, o.phase \in Phases
  PROVE  /\ PhaseAge(o) \in Nat
         /\ \A q : q.uid \in Nat /\ q.phase \in Phases =>
              /\ PhaseAge(o) <= PhaseAge(q) =>
                   /\ o.uid <= q.uid
                   /\ o.uid = q.uid /\ o.phase # "alive" => q.phase # "alive"
                   /\ o.uid = q.uid /\ o.phase = "gone" => q.phase = "gone"
              /\ PhaseAge(o) = PhaseAge(q) => o.uid = q.uid /\ o.phase = q.phase
              /\ o.uid < q.uid => PhaseAge(o) < PhaseAge(q)
<1> DEFINE rank(p) == IF p = "alive" THEN 0 ELSE IF p = "deleting" THEN 1 ELSE 2
<1>1. \A q : q.phase \in Phases => PhaseAge(q) = 3 * q.uid + rank(q.phase)
  BY DEF PhaseAge, Phases
<1>2. \A p \in Phases : rank(p) \in 0 .. 2 /\ (p = "alive" <=> rank(p) = 0)
                        /\ (p = "deleting" <=> rank(p) = 1) /\ (p = "gone" <=> rank(p) = 2)
  BY DEF Phases
<1>3. \A p, q \in Phases : rank(p) = rank(q) => p = q
  BY DEF Phases
<1> HIDE DEF rank
<1>4. PhaseAge(o) = 3 * o.uid + rank(o.phase) /\ PhaseAge(o) \in Nat
  BY <1>1, <1>2
<1> SUFFICES ASSUME NEW q, q.uid \in Nat, q.phase \in Phases
             PROVE  /\ PhaseAge(o) <= PhaseAge(q) =>
                         /\ o.uid <= q.uid
                         /\ o.uid = q.uid /\ o.phase # "alive" => q.phase # "alive"
                         /\ o.uid = q.uid /\ o.phase = "gone" => q.phase = "gone"
                    /\ PhaseAge(o) = PhaseAge(q) => o.uid = q.uid /\ o.phase = q.phase
                    /\ o.uid < q.uid => PhaseAge(o) < PhaseAge(q)
  BY <1>4
<1>5. PhaseAge(q) = 3 * q.uid + rank(q.phase)
  BY <1>1
<1>6. rank(o.phase) \in 0 .. 2 /\ rank(q.phase) \in 0 .. 2
  BY <1>2
<1>7. PhaseAge(o) <= PhaseAge(q) => o.uid <= q.uid /\ (o.uid = q.uid => rank(o.phase) <= rank(q.phase))
  BY <1>4, <1>5, <1>6
<1>8. PhaseAge(o) = PhaseAge(q) => o.uid = q.uid /\ rank(o.phase) = rank(q.phase)
  <2>1. \A a, b \in Nat : \A r, s \in 0 .. 2 : 3 * a + r = 3 * b + s => a = b /\ r = s
    OBVIOUS
  <2> QED
    BY <1>4, <1>5, <1>6, <2>1
<1>9. o.uid < q.uid => PhaseAge(o) < PhaseAge(q)
  BY <1>4, <1>5, <1>6
<1> QED
  BY <1>2, <1>3, <1>6, <1>7, <1>8, <1>9

\* The ApiServer stores a further version.
LEMMA StoreOnwards ==
  ASSUME NEW O, NEW by, Closed(O, by), NEW w \in WorldsOf(O), NEW o \in O,
         Present(w.obj), o.uid = w.obj.uid, PhaseAge(w.obj) < PhaseAge(o)
  PROVE  /\ Store(w, o) \in WorldsOf(O) /\ Store(w, o).obj = o
         /\ Onwards(w, Store(w, o))
<1>1. /\ Store(w, o) \in WorldsOf(O) /\ Store(w, o).obj = o
      /\ Store(w, o).watch = w.watch \cup {o}
  BY DEF Store, WorldsOf
<1>2. PhaseAge(w.obj) \in Nat /\ PhaseAge(o) \in Nat
  BY PhaseAgeOrder DEF Closed, WorldsOf
<1> QED
  BY <1>1, <1>2 DEF Onwards

LEMMA StayOnwards ==
  ASSUME NEW O, NEW by, Closed(O, by), NEW w \in WorldsOf(O)
  PROVE  Onwards(w, w)
<1>1. PhaseAge(w.obj) \in Nat
  BY PhaseAgeOrder DEF Closed, WorldsOf
<1> QED
  BY <1>1 DEF Onwards

LEMMA OnwardsTransitive ==
  ASSUME NEW O, NEW by, Closed(O, by), NEW w \in WorldsOf(O), NEW x \in WorldsOf(O),
         NEW y \in WorldsOf(O), Onwards(w, x), Onwards(x, y)
  PROVE  Onwards(w, y)
<1>1. /\ w.obj \in O /\ x.obj \in O /\ y.obj \in O
      /\ w.watch \subseteq O /\ x.watch \subseteq O /\ y.watch \subseteq O
  BY DEF WorldsOf
<1>2. /\ PhaseAge(w.obj) \in Nat /\ PhaseAge(x.obj) \in Nat /\ PhaseAge(y.obj) \in Nat
      /\ \A p \in y.watch : PhaseAge(p) \in Nat
  BY <1>1, PhaseAgeOrder DEF Closed
<1>3. ASSUME NEW p \in y.watch
      PROVE  \/ p \in w.watch
             \/ /\ Present(w.obj) /\ p.uid = w.obj.uid
                /\ PhaseAge(w.obj) < PhaseAge(p) /\ PhaseAge(p) <= PhaseAge(y.obj)
  <2>1. CASE p \in x.watch
    BY <1>2, <2>1 DEF Onwards
  <2>2. CASE p \notin x.watch
    <3>1. /\ Present(x.obj) /\ p.uid = x.obj.uid
          /\ PhaseAge(x.obj) < PhaseAge(p) /\ PhaseAge(p) <= PhaseAge(y.obj)
      BY <2>2 DEF Onwards
    <3>2. Present(w.obj) /\ x.obj.uid = w.obj.uid /\ PhaseAge(w.obj) <= PhaseAge(x.obj)
      BY <3>1 DEF Onwards
    <3> QED
      BY <1>2, <3>1, <3>2
  <2> QED
    BY <2>1, <2>2
<1>4. PhaseAge(w.obj) <= PhaseAge(y.obj) /\ y.obj.uid = w.obj.uid
  BY <1>2 DEF Onwards
<1>5. ~Present(w.obj) => y = w
  BY DEF Onwards
<1>6. w.watch \subseteq y.watch /\ (y.obj = w.obj \/ y.obj \in y.watch)
  BY DEF Onwards
<1> QED
  BY <1>3, <1>4, <1>5, <1>6 DEF Onwards

LEMMA MarkedOnwards ==
  ASSUME NEW O, NEW by, Closed(O, by), NEW w \in WorldsOf(O)
  PROVE  LET x == Marked(w, by)
         IN  /\ x \in WorldsOf(O) /\ Onwards(w, x)
             /\ x.obj.phase # "alive"
             /\ Present(x.obj) <=> Present(w.obj)
<1>1. CASE w.obj.phase = "alive"
  <2> DEFINE d == [w.obj EXCEPT !.phase = "deleting", !.by = by]
  <2>1. d \in O /\ d.uid = w.obj.uid /\ d.phase = "deleting" /\ w.obj.uid \in Nat
    BY DEF Closed, WorldsOf
  <2>2. Marked(w, by) = Store(w, d)
    BY <1>1 DEF Marked
  <2> HIDE DEF d
  <2>3. PhaseAge(w.obj) < PhaseAge(d) /\ Present(w.obj) /\ Present(d)
    BY <1>1, <2>1 DEF PhaseAge, Present
  <2> QED
    BY <2>1, <2>2, <2>3, StoreOnwards
<1>2. CASE w.obj.phase # "alive"
  <2>1. Marked(w, by) = w
    BY <1>2 DEF Marked
  <2> QED
    BY <1>2, <2>1, StayOnwards
<1> QED
  BY <1>1, <1>2

LEMMA ErasedOnwards ==
  ASSUME NEW O, NEW by, Closed(O, by), NEW w \in WorldsOf(O), Present(w.obj)
  PROVE  LET x == Erased(w)
         IN  /\ x \in WorldsOf(O) /\ Onwards(w, x)
             /\ ~Present(x.obj)
<1> DEFINE g == [w.obj EXCEPT !.phase = "gone"]
<1>1. /\ g \in O /\ g.uid = w.obj.uid /\ g.phase = "gone"
      /\ w.obj.uid \in Nat /\ w.obj.phase \in {"alive", "deleting"}
  BY DEF Closed, WorldsOf, Present, Phases
<1>2. Erased(w) = Store(w, g)
  BY DEF Erased
<1> HIDE DEF g
<1>3. PhaseAge(w.obj) < PhaseAge(g) /\ ~Present(g)
  BY <1>1 DEF PhaseAge, Present
<1> QED
  BY <1>1, <1>2, <1>3, StoreOnwards

\* A Delete makes the object of the UID older.  If it succeeds that one is not
\* alive, and if that is confirmed, there is no object.
LEMMA DeleteOnwards ==
  ASSUME NEW O, NEW by, Closed(O, by), NEW w \in WorldsOf(O), NEW u,
         NEW r \in DeleteResults(w, u, by)
  PROVE  /\ r.ok \in BOOLEAN
         /\ r.w \in WorldsOf(O) /\ Onwards(w, r.w)
         /\ r.ok /\ r.w.obj.uid = u => r.w.obj.phase # "alive"
         /\ Confirmed(r, u) => ~Present(r.w.obj)
<1> DEFINE m == Marked(w, by)
<1>1. /\ r.ok \in BOOLEAN
      /\ \/ r.w = w
         \/ Present(w.obj) /\ w.obj.uid = u /\ r.w \in {m, Erased(m)}
      /\ r.ok => \/ ~Present(w.obj) /\ r.w = w
                 \/ Present(w.obj) /\ w.obj.uid = u /\ r.w \in {m, Erased(m)}
  BY DeleteEnds
<1>2. /\ m \in WorldsOf(O) /\ Onwards(w, m) /\ m.obj.phase # "alive"
      /\ Present(m.obj) <=> Present(w.obj)
  BY MarkedOnwards
<1> HIDE DEF m
<1>3. Present(w.obj) =>
        Erased(m) \in WorldsOf(O) /\ Onwards(m, Erased(m)) /\ ~Present(Erased(m).obj)
  BY <1>2, ErasedOnwards
<1>4. Present(w.obj) => Onwards(w, Erased(m))
  BY <1>2, <1>3, OnwardsTransitive
<1>5. Onwards(w, w)
  BY StayOnwards
<1>6. r.w \in WorldsOf(O) /\ Onwards(w, r.w) /\ r.w.obj.uid = w.obj.uid
  BY <1>1, <1>2, <1>3, <1>4, <1>5 DEF Onwards
<1>7. \A o : ~Present(o) => o.phase # "alive"
  BY DEF Present
<1>8. r.ok /\ r.w.obj.uid = u => r.w.obj.phase # "alive"
  BY <1>1, <1>2, <1>3, <1>7
<1>9. Confirmed(r, u) => ~Present(r.w.obj)
  BY <1>1, <1>6 DEF Confirmed
<1> QED
  BY <1>1, <1>6, <1>8, <1>9

-----------------------------------------------------------------------------
(* The cache and the ApiServer *)

\* What the cache says of an object of the same uid is true for good.
LEMMA InOrderFacts ==
  ASSUME NEW O, NEW by, Closed(O, by), NEW o \in O, NEW c \in O, NEW W \in SUBSET O,
         InOrder(o, c, W)
  PROVE  /\ c.uid <= o.uid
         /\ c.uid = o.uid /\ c.phase # "alive" => o.phase # "alive"
         /\ c.uid = o.uid /\ ~Present(c) => ~Present(o)
         /\ W = {} => c.uid = o.uid /\ c.phase = o.phase
<1>1. /\ o.uid \in Nat /\ o.phase \in Phases
      /\ c.uid \in Nat /\ c.phase \in Phases
  BY DEF Closed
<1>2. PhaseAge(c) <= PhaseAge(o)
  BY DEF InOrder
<1>3. W = {} => PhaseAge(c) = PhaseAge(o)
  BY DEF InOrder
<1> QED
  BY <1>1, <1>2, <1>3, PhaseAgeOrder DEF Present

LEMMA InOrderOnwards ==
  ASSUME NEW O, NEW by, Closed(O, by), NEW c \in O, NEW w \in WorldsOf(O),
         NEW x \in WorldsOf(O), InOrder(w.obj, c, w.watch), Onwards(w, x)
  PROVE  InOrder(x.obj, c, x.watch)
<1>1. /\ w.obj \in O /\ x.obj \in O /\ w.watch \subseteq O /\ x.watch \subseteq O
  BY DEF WorldsOf
<1>2. /\ PhaseAge(w.obj) \in Nat /\ PhaseAge(x.obj) \in Nat /\ PhaseAge(c) \in Nat
      /\ \A p \in x.watch : PhaseAge(p) \in Nat
  BY <1>1, PhaseAgeOrder DEF Closed
<1>3. x.obj.uid = 0 => ~Present(x.obj)
  BY DEF InOrder, Onwards
<1>4. PhaseAge(c) <= PhaseAge(x.obj)
  BY <1>2 DEF InOrder, Onwards
<1>5. ASSUME NEW p \in x.watch
      PROVE  p.uid # 0 /\ PhaseAge(c) < PhaseAge(p) /\ PhaseAge(p) <= PhaseAge(x.obj)
  <2>1. CASE p \in w.watch
    BY <1>2, <2>1 DEF InOrder, Onwards
  <2>2. CASE p \notin w.watch
    <3>1. /\ Present(w.obj) /\ p.uid = w.obj.uid
          /\ PhaseAge(w.obj) < PhaseAge(p) /\ PhaseAge(p) <= PhaseAge(x.obj)
      BY <2>2 DEF Onwards
    <3> QED
      BY <1>2, <3>1 DEF InOrder
  <2> QED
    BY <2>1, <2>2
<1>6. PhaseAge(c) = PhaseAge(x.obj) \/ \E p \in x.watch : PhaseAge(p) = PhaseAge(x.obj)
  <2>1. CASE x.obj = w.obj
    BY <2>1 DEF InOrder, Onwards
  <2>2. CASE x.obj \in x.watch
    BY <2>2
  <2> QED
    BY <2>1, <2>2 DEF Onwards
<1> QED
  BY <1>3, <1>4, <1>5, <1>6 DEF InOrder

\* The next object of the name
LEMMA InOrderCreated ==
  ASSUME NEW o, NEW c, NEW W, InOrder(o, c, W),
         \A p \in W \cup {o, c} : p.uid \in Nat /\ p.phase \in Phases,
         NEW n, n.uid = o.uid + 1, n.phase = "alive"
  PROVE  InOrder(n, c, W \cup {n})
<1>1. n.uid \in Nat /\ n.phase \in Phases /\ n.uid # 0 /\ o.uid < n.uid
  BY DEF Phases
<1>2. PhaseAge(o) < PhaseAge(n) /\ PhaseAge(o) \in Nat /\ PhaseAge(n) \in Nat
      /\ \A p \in W \cup {c} : PhaseAge(p) \in Nat
  BY <1>1, PhaseAgeOrder
<1> QED
  BY <1>1, <1>2 DEF InOrder

\* A version arrives in the cache; it is not of an object before the cached one.
LEMMA InOrderDelivered ==
  ASSUME NEW O, NEW by, Closed(O, by), NEW o \in O, NEW c \in O, NEW W \in SUBSET O,
         InOrder(o, c, W), NEW p \in W
  PROVE  /\ InOrder(o, p, {q \in W : PhaseAge(q) > PhaseAge(p)})
         /\ c.uid <= p.uid /\ p.uid <= o.uid
<1>1. \A q \in W \cup {o, c} : q.uid \in Nat /\ q.phase \in Phases
  BY DEF Closed
<1>2. \A q \in W \cup {o, c} : PhaseAge(q) \in Nat
  BY <1>1, PhaseAgeOrder
<1>3. c.uid <= p.uid /\ p.uid <= o.uid
  <2>1. PhaseAge(c) <= PhaseAge(p) /\ PhaseAge(p) <= PhaseAge(o)
    BY <1>2 DEF InOrder
  <2> QED
    BY <1>1, <2>1, PhaseAgeOrder
<1>4. InOrder(o, p, {q \in W : PhaseAge(q) > PhaseAge(p)})
  BY <1>2 DEF InOrder
<1> QED
  BY <1>3, <1>4

\* The Informer lists the objects again.
LEMMA InOrderRelisted ==
  ASSUME NEW o, o.uid \in Nat, o.phase \in Phases, o.uid = 0 => ~Present(o)
  PROVE  InOrder(o, o, {})
<1>1. PhaseAge(o) \in Nat
  BY PhaseAgeOrder
<1> QED
  BY <1>1 DEF InOrder
=============================================================================
