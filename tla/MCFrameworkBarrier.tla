------------------------- MODULE MCFrameworkBarrier -------------------------
(* A small instance of FrameworkBarrier: two TaskRoles that swap a Task, and  *)
(* a configured pattern that also matches the predefined exit codes.          *)
EXTENDS FrameworkBarrier

MCStrings == {"", "Completed", "Error", "Evicted", "barrier", "app", "sidecar"}

MCInitialSpec == [a |-> 1, b |-> 1]

MCSpecs == {MCInitialSpec, [a |-> 2, b |-> 0]}

\* A Container that was killed by a signal, in any way it could be told
MCPodFailureSpec ==
  <<[code |-> 220, type |-> Failed({}),
     patterns |->
       {[name |-> NilRegex, reason |-> NilRegex, message |-> NilRegex,
         containers |-> <<[name |-> NilRegex, reason |-> NilRegex, message |-> NilRegex,
                           signal |-> NilRange,
                           code |-> [isNil |-> FALSE, min |-> 128, max |-> 255]]>>]}]>>

MCAppEnds ==
  {<<Container("app", TRUE, 0, 2), Container("sidecar", TRUE, 0, 2)>>,
   <<Container("app", TRUE, 1, 3), Container("sidecar", TRUE, 2, 2)>>}

MCCreationErrors == {{"exceeded quota", "IsForbidden"}, {"IsInvalid"}}
=============================================================================
