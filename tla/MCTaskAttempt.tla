--------------------------- MODULE MCTaskAttempt ---------------------------
(* Small instances of TaskAttempt.  overdue matters for the Pod in the      *)
(* local cache only: it was set from it, and an older Pod is gone for good. *)
(* What is left of a gone Pod is its uid and the history of its deletion.   *)
EXTENDS TaskAttempt

Remains(p) == IF Present(p) THEN p ELSE [p EXCEPT !.status = "Pending"]

View ==
  <<spec, syncVars, timer, due, overdue = podCached.uid,
    Remains(pod), Remains(podCached), {Remains(p) : p \in podPending}, boundVars>>
=============================================================================
