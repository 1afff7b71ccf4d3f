------------------------ MODULE FrameworkLifecycle ------------------------
(***************************************************************************)
(* What FrameworkController promises an ApiServer client who watches one   *)
(* Framework name: the FrameworkStates he may see, one after the other     *)
(* (types.go), and how the identity and the outcome of an attempt may      *)
(* change on the way.  Nothing is said of caches, queues, retried writes   *)
(* or the ConfigMap: FrameworkAttempt, seen through the Framework object   *)
(* in the ApiServer, implements this.                                      *)
(***************************************************************************)
EXTENDS Integers

CONSTANTS
  Codes,   \* CompletionCodes
  NoCode   \* CompletionStatus = nil

VARIABLES
  uid,       \* of the present Framework; 0 if there is none
  lastUid,
  state, attempt,
  cm,        \* the ConfigMapUID; 0 is nil
  code

vars == <<uid, lastUid, state, attempt, cm, code>>

\* The transitions listed with each FrameworkState.
Transitions ==
  [CreationPending   |-> {"CreationRequested", "AttemptCompleted"},
   CreationRequested |-> {"Preparing", "Deleting", "AttemptCompleted"},
   Preparing         |-> {"Running", "DeletionPending", "Deleting", "AttemptCompleted"},
   Running           |-> {"DeletionPending", "Deleting", "AttemptCompleted"},
   DeletionPending   |-> {"DeletionRequested", "Deleting", "AttemptCompleted"},
   DeletionRequested |-> {"Deleting", "AttemptCompleted"},
   Deleting          |-> {"AttemptCompleted"},
   AttemptCompleted  |-> {"CreationPending", "Completed"},
   Completed         |-> {},
   None              |-> {"CreationPending"}]

\* A sync may go through these without exposing them; it waits until any other
\* one is persisted.
Passing == {"Preparing", "Running", "DeletionRequested", "Deleting"}

Further(S) == S \cup UNION {Transitions[s] : s \in S \cap Passing}

\* The states a client may see next.
Exposes(s) == Further(Further(Further(Transitions[s])))

Init ==
  /\ uid = 0
  /\ lastUid = 0
  /\ state = "None"
  /\ attempt = 0
  /\ cm = 0
  /\ code = NoCode

Create ==
  /\ uid = 0
  /\ uid' \in Nat /\ uid' > lastUid
  /\ lastUid' = uid'
  /\ UNCHANGED <<state, attempt, cm, code>>

Remove ==
  /\ uid # 0
  /\ uid' = 0
  /\ state' = "None" /\ attempt' = 0 /\ cm' = 0 /\ code' = NoCode
  /\ UNCHANGED lastUid

\* The first attempt, or the next one.
NewAttempt ==
  /\ uid # 0
  /\ "CreationPending" \in Exposes(state)
  /\ state' = "CreationPending"
  /\ attempt' = IF state = "None" THEN 0 ELSE attempt + 1
  /\ cm' = 0 /\ code' = NoCode
  /\ UNCHANGED <<uid, lastUid>>

\* The ConfigMap becomes known with CreationRequested, the outcome at the
\* latest with DeletionPending, Deleting or AttemptCompleted.  Neither changes.
Progress ==
  /\ uid # 0
  /\ state' \in Exposes(state) \ {"CreationPending"}
  /\ IF state' = "CreationRequested" THEN cm' \in Nat \ {0} ELSE cm' = cm
  /\ IF code # NoCode \/ state' \in {"CreationRequested", "Preparing", "Running"}
       THEN code' = code
       ELSE code' \in Codes \ {NoCode}
  /\ UNCHANGED <<uid, lastUid, attempt>>

Next == Create \/ Remove \/ NewAttempt \/ Progress

Spec == Init /\ [][Next]_vars
=============================================================================
