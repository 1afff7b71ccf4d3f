------------------------- MODULE MCFrameworkScale -------------------------
(* A small instance of FrameworkScale: Specs with one or two TaskRoles.     *)
EXTENDS FrameworkScale

TaskRole(number, minFailed, minSucceeded) ==
  [number |-> number, minFailed |-> minFailed, minSucceeded |-> minSucceeded]

MCUserSpecs ==
  {[a |-> TaskRole(2, 2, -1)],
   [a |-> TaskRole(1, 1, -1)],
   [b |-> TaskRole(1, -1, 1)]}

MCSmallSpecs ==
  {[a |-> TaskRole(2, 2, -1)],
   [a |-> TaskRole(1, 1, -1)],
   [a |-> TaskRole(0, -1, -1)]}
=============================================================================
