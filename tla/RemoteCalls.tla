---------------------------- MODULE RemoteCalls ----------------------------
(***************************************************************************)
(* Calls to the Kubernetes ApiServer on the one object of a name that an   *)
(* attempt is represented by: a ConfigMap or a Pod (client-go, as the      *)
(* controller uses it).                                                    *)
(*                                                                         *)
(* An object has a uid, a phase ("alive", "deleting" or "gone") and the    *)
(* reason its deletion was first requested for.  A gone one stands for no  *)
(* object, and keeps its uid so that uids are not reused.  A call takes    *)
(* the ApiServer from a world to another: the object, the versions that    *)
(* the watch has yet to deliver, and whether calls of this sync may fail.  *)
(***************************************************************************)
EXTENDS Integers

Phases == {"alive", "deleting", "gone"}

Present(o) == o.phase # "gone"

\* The order in which the ApiServer goes through the phases of its objects.
PhaseAge(o) ==
  3 * o.uid + (CASE o.phase = "alive" -> 0 [] o.phase = "deleting" -> 1
                 [] o.phase = "gone" -> 2)

\* The ApiServer stores a version of the object.
Store(w, o) == [w EXCEPT !.obj = o, !.watch = @ \cup {o}]

Marked(w, by) ==
  IF w.obj.phase = "alive"
    THEN Store(w, [w.obj EXCEPT !.phase = "deleting", !.by = by])
    ELSE w

Erased(w) == Store(w, [w.obj EXCEPT !.phase = "gone"])

\* The results of a call that ends in one of the worlds: a failing one may end
\* there and lose its answer, or not take effect.
Results(w, worlds) ==
  [w : worlds, ok : {TRUE}]
  \cup (IF w.failing THEN [w : worlds \cup {w}, ok : {FALSE}] ELSE {})

\* Delete with a UID precondition: another object of the name is a Conflict,
\* none is NotFound, which counts as success.  The object may be gone before a
\* confirmation looks.
DeleteResults(w, u, by) ==
  LET marked == Marked(w, by)
  IN  CASE ~Present(w.obj) -> Results(w, {w})
        [] Present(w.obj) /\ w.obj.uid # u -> {[w |-> w, ok |-> FALSE]}
        [] OTHER -> Results(w, {marked, Erased(marked)})

\* The deletion with confirm = true succeeded.
Confirmed(r, u) == r.ok /\ (Present(r.w.obj) => r.w.obj.uid # u)

\* Create: AlreadyExists, or stored.  Only one of the first maxLost creates loses
\* its answer.
CreateResults(w, created, maxLost) ==
  IF Present(w.obj) THEN {[w |-> w, ok |-> FALSE]}
  ELSE {r \in Results(w, {Store(w, created)}) :
          r.ok \/ r.w = w \/ w.obj.uid < maxLost}
=============================================================================
