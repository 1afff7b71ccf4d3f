------------------------ MODULE MCFrameworkAttempt ------------------------
(* Small instances of FrameworkAttempt.  No action and no property compares *)
(* resource versions but for their order, or reads the history synced, so   *)
(* states that differ in nothing else are one.                              *)
EXTENDS FrameworkAttempt

Rank(v) == Cardinality({w \in pending : w.rv < v.rv})

View ==
  <<[remote EXCEPT !.rv = 0],
    [cached EXCEPT !.rv = IF cached.rv = remote.rv THEN 0 ELSE 1],
    {[v EXCEPT !.rv = Rank(v)] : v \in pending},
    [f EXCEPT !.rv = IF f.rv = remote.rv THEN 0 ELSE 1],
    expected, queued, pc, tries, userSpec, lastUid, crashes,
    cmVars, timeVars>>
=============================================================================
