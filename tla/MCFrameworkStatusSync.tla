----------------------- MODULE MCFrameworkStatusSync -----------------------
(* Small instances of FrameworkStatusSync: the statuses are positions in a  *)
(* sequence of states.                                                      *)
EXTENDS FrameworkStatusSync

MCStatuses == 0 .. 2
MCLeq(a, b) == a <= b
=============================================================================
