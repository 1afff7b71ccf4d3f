--------------------- MODULE FrameworkStatusSyncProofs ---------------------
(***************************************************************************)
(* The safety properties of FrameworkStatusSync for every value of its     *)
(* constants.  Inv is inductive: each action is shown to preserve each of  *)
(* its conjuncts.                                                          *)
(***************************************************************************)
EXTENDS FrameworkStatusSync, TLAPS

-----------------------------------------------------------------------------
(* Type correctness *)

\* The types of the initial state.
LEMMA TypeInit == Init => TypeOK
<1> SUFFICES ASSUME Init PROVE TypeOK
  OBVIOUS
<1>1. Tombstone(0) \in Version /\ NoInfo \in Info /\ 0 \in 0 .. MaxTries - 1
  BY StatusAssumption, BoundAssumption
  DEF Tombstone, NoInfo, Version, Info, StatusRec
<1>2. /\ remote \in Version /\ cached \in Version /\ f \in Version
      /\ pending \subseteq Version
      /\ expected \in Info
  BY <1>1 DEF Init
<1>3. /\ pc \in {"idle", "push", "body", "persist"}
      /\ tries \in 0 .. MaxTries - 1
      /\ userSpec \in Specs \cup {NoSpec}
  BY <1>1 DEF Init
<1>4. /\ synced \in [uid : Nat, spec : Specs \cup {NoSpec}]
      /\ lastUid \in Nat /\ crashes \in Nat
  BY DEF Init
<1>5. queued \in BOOLEAN
  BY DEF Init
<1> QED
  BY <1>2, <1>3, <1>4, <1>5 DEF TypeOK

\* The records the actions build have the right types.
LEMMA NilType == NilStatus \in Statuses
  BY StatusAssumption

\* A tombstone is a version.
LEMMA TombstoneType == \A n \in Nat : Tombstone(n) \in Version
  BY NilType DEF Tombstone, Version, StatusRec

\* The missing entry of fExpectedStatusInfos is an info.
LEMMA NoInfoType == NoInfo \in Info
  BY NilType DEF NoInfo, Info, StatusRec

\* Editing one field of a version and renumbering it gives a version.
LEMMA EditType ==
  ASSUME NEW o \in Version, NEW n \in Nat
  PROVE  /\ \A s \in Specs : [o EXCEPT !.rv = n, !.spec = s] \in Version
         /\ [o EXCEPT !.rv = n, !.deleting = TRUE] \in Version
         /\ \A st \in StatusRec : [o EXCEPT !.rv = n, !.status = st] \in Version
  BY DEF Version

\* Publishing a version keeps the types of the object and of the watch.
LEMMA PublishType ==
  ASSUME TypeOK, NEW v \in Version, Publish(v)
  PROVE  remote' \in Version /\ pending' \subseteq Version
  BY DEF Publish, TypeOK

\* Every step of the controller, the users and the watch keeps the types.
LEMMA TypeStep == TypeOK /\ [Next]_vars => TypeOK'
<1> SUFFICES ASSUME TypeOK, [Next]_vars PROVE TypeOK'
  OBVIOUS
<1> USE DEF TypeOK
<1>0. remote.rv + 1 \in Nat /\ f.status \in StatusRec
  BY DEF Version
<1>1. ASSUME NEW s \in Specs, UserCreate(s) PROVE TypeOK'
  <2>1. lastUid' \in Nat /\ remote'.status \in StatusRec
    BY <1>1, NilType DEF UserCreate, Publish, StatusRec
  <2>2. remote' \in Version
    BY <1>1, <2>1, NilType DEF UserCreate, Publish, Version, StatusRec
  <2> QED
    BY <1>1, <2>1, <2>2 DEF UserCreate, Publish, syncVars
<1>2. ASSUME NEW s \in Specs, UserUpdateSpec(s) PROVE TypeOK'
  <2> DEFINE v == [remote EXCEPT !.rv = remote.rv + 1, !.spec = s]
  <2>1. v \in Version
    BY <1>0, EditType
  <2>2. remote' = v /\ pending' = pending \cup {v}
    BY <1>2 DEF UserUpdateSpec, Publish
  <2> HIDE DEF v
  <2> QED
    BY <1>2, <2>1, <2>2 DEF UserUpdateSpec, syncVars
<1>3. CASE UserDelete
  <2> DEFINE v == [remote EXCEPT !.rv = remote.rv + 1, !.deleting = TRUE]
  <2>1. v \in Version
    BY <1>0, EditType
  <2>2. remote' = v /\ pending' = pending \cup {v}
    BY <1>3 DEF UserDelete, Publish
  <2> HIDE DEF v
  <2> QED
    BY <1>3, <2>1, <2>2 DEF UserDelete, syncVars
<1>4. CASE Vanish
  <2>2. remote' \in Version
    BY <1>4, TombstoneType DEF Vanish, Publish, Version
  <2> QED
    BY <1>4, <2>2 DEF Vanish, Publish, syncVars
<1>5. CASE SyncNotFound
    BY <1>5, NoInfoType DEF SyncNotFound, objVars, cacheVars
<1>6. CASE SyncRecover
  <2>1. expected' \in Info
    BY <1>6 DEF SyncRecover, Info, Version
  <2> QED
    BY <1>6, <2>1 DEF SyncRecover, objVars, cacheVars
<1>7. CASE SyncKnown
  <2>1. f' \in Version
    BY <1>7 DEF SyncKnown, Info, Version
  <2> QED
    BY <1>7, <2>1 DEF SyncKnown, objVars, cacheVars
<1>8. ASSUME NEW ok \in BOOLEAN, UpdateStored(ok) PROVE TypeOK'
  <2>1. UpdateBase \in Version
    BY DEF UpdateBase
  <2>2. [UpdateBase EXCEPT !.rv = remote.rv + 1, !.status = f.status] \in Version
    BY <1>0, <2>1, EditType
  <2>6. remote' \in Version /\ pending' \subseteq Version
    BY <1>8, <2>2, PublishType DEF UpdateStored
  <2>3. expected' \in Info
    BY <1>8 DEF UpdateStored, UpdateEnds, Info, Version
  <2>4. f' \in Version /\ pc' \in {"idle", "push", "body", "persist"} /\ tries' = 0
    BY <1>8, TombstoneType DEF UpdateStored, UpdateEnds, ToIdle
  <2>5. queued' \in BOOLEAN
    BY <1>8 DEF UpdateStored, UpdateEnds
  <2> QED
    BY <1>8, <2>6, <2>3, <2>4, <2>5, BoundAssumption DEF UpdateStored
<1>9. CASE UpdateFailed
  <2>3. expected' \in Info
    BY <1>9 DEF UpdateFailed, UpdateEnds, Info, Version
  <2>4. f' \in Version /\ pc' \in {"idle", "push", "body", "persist"} /\ tries' = 0
    BY <1>9, TombstoneType DEF UpdateFailed, UpdateEnds, ToIdle
  <2>5. queued' \in BOOLEAN
    BY <1>9 DEF UpdateFailed, UpdateEnds
  <2> QED
    BY <1>9, <2>3, <2>4, <2>5, BoundAssumption DEF UpdateFailed, objVars, cacheVars
<1>10. CASE Restart
  <2>1. f' \in Version /\ expected' \in Info /\ tries' \in 0 .. MaxTries-1
    BY <1>10, TombstoneType, NoInfoType, BoundAssumption DEF Restart, ToIdle
  <2>2. synced' \in [uid : Nat, spec : Specs \cup {NoSpec}]
    BY <1>10 DEF Restart
  <2>3. queued' \in BOOLEAN
    BY <1>10 DEF Restart, Exists
  <2> QED
    BY <1>10, <2>1, <2>2, <2>3 DEF Restart, ToIdle, objVars
<1>11. CASE Deliver
  BY <1>11 DEF Deliver, Notifies, objVars, syncVars
<1>12. ASSUME NEW s \in Statuses, NEW again \in BOOLEAN, SyncBody(s, again)
       PROVE  TypeOK'
  BY <1>12, TombstoneType, BoundAssumption
  DEF SyncBody, ToIdle, Version, StatusRec, objVars, cacheVars
<1>13. CASE UpdateConflict
  BY <1>13, BoundAssumption DEF UpdateConflict, objVars, cacheVars
<1>14. CASE UNCHANGED vars
  BY <1>14 DEF vars
<1> QED
  BY <1>1, <1>2, <1>3, <1>4, <1>5, <1>6, <1>7, <1>8, <1>9, <1>10, <1>11,
     <1>12, <1>13, <1>14
  DEF Next, Users, StartSync, Body, UpdateRemote

\* Every variable of the status protocol keeps its type.
THEOREM TypeCorrect == Safety => []TypeOK
  BY TypeInit, TypeStep, PTL DEF Safety

-----------------------------------------------------------------------------
(* The inductive invariant *)

\* Inv holds of the empty ApiServer the controller starts against.
LEMMA InvInit == Init => Inv
<1> SUFFICES ASSUME Init PROVE Inv
  OBVIOUS
<1>1. TypeOK
  BY TypeInit
<1>2. VersionsOrdered /\ IncarnationsOrdered /\ StatusesOwned
  BY DEF Init, Tombstone, NoInfo, VersionsOrdered, IncarnationsOrdered,
         StatusesOwned, Known, Exists
<1>3. ExpectedAhead /\ WorkerConsistent /\ SpecNeverReverted
  BY DEF Init, Tombstone, NoInfo, ExpectedAhead, WorkerConsistent,
         SpecNeverReverted, Exists
<1> QED
  BY <1>1, <1>2, <1>3 DEF Inv

\* A version stored under the next number keeps the numbering.
LEMMA NewVersionOrdered ==
  ASSUME Inv, TypeOK', cached' = cached,
         remote'.rv = remote.rv + 1, pending' = pending \cup {remote'},
         f'.rv <= remote.rv
  PROVE  VersionsOrdered'
  BY DEF Inv, TypeOK, Version, VersionsOrdered, Known, Exists

\* ... and the incarnations contiguous, if it is of the present one.
LEMMA NewVersionSameIncarnation ==
  ASSUME Inv, TypeOK', cached' = cached, lastUid' = lastUid,
         remote'.rv = remote.rv + 1, pending' = pending \cup {remote'},
         remote'.uid = remote.uid,
         f'.uid <= lastUid, expected'.uid <= lastUid
  PROVE  IncarnationsOrdered'
  BY DEF Inv, TypeOK, Version, Info, VersionsOrdered, IncarnationsOrdered, Known, Exists

\* A new Framework object starts a new incarnation, which nobody knows of.
LEMMA UserCreateInv ==
  ASSUME Inv, TypeOK', NEW s \in Specs, UserCreate(s) PROVE Inv'
<1>1. /\ remote'.rv = remote.rv + 1
      /\ remote'.uid = lastUid + 1 /\ lastUid' = lastUid + 1
      /\ remote'.spec = s /\ userSpec' = s
      /\ remote'.status.owner = lastUid + 1
      /\ pending' = pending \cup {remote'}
  BY DEF UserCreate, Publish
<1>2. UNCHANGED <<cached, expected, pc, f>>
  BY DEF UserCreate, syncVars
<1>3. f.rv <= remote.rv /\ expected.uid <= lastUid /\ f.uid <= lastUid
  BY DEF Inv, VersionsOrdered, IncarnationsOrdered
<1>4. lastUid \in Nat /\ expected.uid \in Nat /\ f.uid \in Nat /\ remote.rv \in Nat
  BY DEF Inv, TypeOK, Info, Version
<1>5. \A v \in Known : v.uid \in Nat /\ v.rv \in Nat /\ v.uid <= lastUid /\ v.rv <= remote.rv
  BY DEF Inv, TypeOK, Version, Known, IncarnationsOrdered, VersionsOrdered
<1>6. Known' = Known \cup {remote'}
  BY <1>1, <1>2 DEF Known
<1>7. VersionsOrdered'
  BY <1>1, <1>2, <1>3, NewVersionOrdered
<1>8. IncarnationsOrdered'
  BY <1>1, <1>2, <1>3, <1>4, <1>5, <1>6 DEF IncarnationsOrdered
<1>9. StatusesOwned'
  BY <1>1, <1>2, <1>6 DEF Inv, StatusesOwned
<1>10. ExpectedAhead'
  BY <1>1, <1>2, <1>3, <1>4, <1>5, <1>6 DEF ExpectedAhead
<1>11. WorkerConsistent' /\ SpecNeverReverted'
  BY <1>1, <1>2, <1>3, <1>4 DEF Inv, WorkerConsistent, SpecNeverReverted, Exists
<1> QED
  BY <1>7, <1>8, <1>9, <1>10, <1>11 DEF Inv

\* A user's edit changes the Spec of the present incarnation only.
LEMMA UserUpdateSpecInv == ASSUME Inv, TypeOK', NEW s \in Specs, UserUpdateSpec(s) PROVE Inv'
<1>1. /\ remote' \in Version
      /\ remote'.rv = remote.rv + 1
      /\ remote'.uid = remote.uid
      /\ remote'.status = remote.status
      /\ remote'.spec = s
      /\ remote'.deleting = remote.deleting
      /\ pending' = pending \cup {remote'}
  BY DEF UserUpdateSpec, Publish, Inv, TypeOK, Version
<1>2. f.rv <= remote.rv /\ f.uid <= lastUid /\ expected.uid <= lastUid
  BY DEF Inv, VersionsOrdered, IncarnationsOrdered
<1>3. UNCHANGED <<cached, expected, pc, f, lastUid>> /\ userSpec' = s
  BY DEF UserUpdateSpec, syncVars
<1>4. VersionsOrdered' /\ IncarnationsOrdered'
  BY <1>1, <1>2, <1>3, NewVersionOrdered, NewVersionSameIncarnation
<1>5. StatusesOwned'
  BY <1>1, <1>3 DEF Inv, StatusesOwned, Known
<1>6. ExpectedAhead' /\ WorkerConsistent' /\ SpecNeverReverted'
  BY <1>1, <1>3 DEF Inv, ExpectedAhead, WorkerConsistent, SpecNeverReverted, Known, Exists
<1> QED
  BY <1>4, <1>5, <1>6 DEF Inv

\* Setting DeletionTimestamp changes neither Spec nor Status.
LEMMA UserDeleteInv == ASSUME Inv, TypeOK', UserDelete PROVE Inv'
<1>1. /\ remote' \in Version
      /\ remote'.rv = remote.rv + 1
      /\ remote'.uid = remote.uid
      /\ remote'.status = remote.status
      /\ remote'.spec = remote.spec
      /\ remote'.deleting = TRUE
      /\ pending' = pending \cup {remote'}
  BY DEF UserDelete, Publish, Inv, TypeOK, Version
<1>2. f.rv <= remote.rv /\ f.uid <= lastUid /\ expected.uid <= lastUid
  BY DEF Inv, VersionsOrdered, IncarnationsOrdered
<1>3. UNCHANGED <<cached, expected, pc, f, lastUid>> /\ userSpec' = userSpec
  BY DEF UserDelete, syncVars
<1>4. VersionsOrdered' /\ IncarnationsOrdered'
  BY <1>1, <1>2, <1>3, NewVersionOrdered, NewVersionSameIncarnation
<1>5. StatusesOwned'
  BY <1>1, <1>3 DEF Inv, StatusesOwned, Known
<1>6. ExpectedAhead' /\ WorkerConsistent' /\ SpecNeverReverted'
  BY <1>1, <1>3 DEF Inv, ExpectedAhead, WorkerConsistent, SpecNeverReverted, Known, Exists
<1> QED
  BY <1>4, <1>5, <1>6 DEF Inv

\* With the object gone nothing is claimed of it.
LEMMA VanishInv ==
  ASSUME Inv, TypeOK', Vanish PROVE Inv'
<1>1. /\ remote'.rv = remote.rv + 1
      /\ ~Exists(remote')
      /\ remote'.uid = 0 /\ remote'.status.owner = 0
      /\ pending' = pending \cup {remote'}
  BY DEF Vanish, Publish, Tombstone, Exists
<1>2. UNCHANGED <<cached, expected, pc, f, lastUid>>
  BY DEF Vanish, syncVars
<1>3. f.rv <= remote.rv /\ f.uid <= lastUid /\ expected.uid <= lastUid
  BY DEF Inv, VersionsOrdered, IncarnationsOrdered
<1>4. VersionsOrdered'
  BY <1>1, <1>2, <1>3, NewVersionOrdered
<1>5. IncarnationsOrdered'
  BY <1>1, <1>2, <1>3 DEF Inv, TypeOK, IncarnationsOrdered, Known, Exists
<1>6. StatusesOwned'
  BY <1>1, <1>2 DEF Inv, StatusesOwned, Known
<1>7. ExpectedAhead' /\ WorkerConsistent' /\ SpecNeverReverted'
  BY <1>1, <1>2 DEF Inv, ExpectedAhead, WorkerConsistent, SpecNeverReverted, Exists
<1> QED
  BY <1>4, <1>5, <1>6, <1>7 DEF Inv

\* The cache moves to a newer version; once it holds the present incarnation
\* it never leaves it.
LEMMA DeliverInv ==
  ASSUME Inv, TypeOK', Deliver PROVE Inv'
<1>1. PICK v \in pending : /\ cached' = v
                           /\ pending' = {w \in pending : w.rv > v.rv}
  BY DEF Deliver
<1>2. UNCHANGED <<remote, userSpec, lastUid, expected, pc, f>>
  BY DEF Deliver, objVars, syncVars
<1>3. Known' \subseteq Known /\ v \in Known
  BY <1>1 DEF Known
<1>4. VersionsOrdered'
  BY <1>1, <1>2, <1>3 DEF Inv, TypeOK, Version, VersionsOrdered
<1>5. IncarnationsOrdered' /\ StatusesOwned'
  BY <1>2, <1>3 DEF Inv, IncarnationsOrdered, StatusesOwned
<1>6. Exists(remote) /\ cached.uid = remote.uid => v.uid = remote.uid
  BY <1>1 DEF Inv, TypeOK, Version, VersionsOrdered, IncarnationsOrdered, Known
<1>7. ExpectedAhead'
  BY <1>1, <1>2, <1>3, <1>6 DEF Inv, ExpectedAhead
<1>8. WorkerConsistent' /\ SpecNeverReverted'
  BY <1>2 DEF Inv, WorkerConsistent, SpecNeverReverted
<1> QED
  BY <1>4, <1>5, <1>7, <1>8 DEF Inv

\* Starting a sync copies the cache, with the Status that is expected.
LEMMA StartSyncInv ==
  ASSUME Inv, TypeOK', StartSync PROVE Inv'
<1> USE DEF objVars, cacheVars
<1>1. UNCHANGED <<remote, cached, pending, userSpec, lastUid>>
  BY DEF StartSync, SyncNotFound, SyncRecover, SyncKnown
<1>2. \/ f' = f
      \/ /\ f'.rv = cached.rv /\ f'.uid = cached.uid
         /\ f'.spec = cached.spec /\ f'.deleting = cached.deleting
         /\ f'.status.owner = cached.uid
  BY DEF StartSync, SyncNotFound, SyncRecover, SyncKnown, Inv, TypeOK, Version,
         StatusesOwned, Known
<1>3. VersionsOrdered' /\ IncarnationsOrdered' /\ StatusesOwned'
  <2>1. VersionsOrdered'
    BY <1>1, <1>2 DEF Inv, VersionsOrdered, Known, Exists
  <2>2. expected'.uid <= lastUid /\ expected'.status.owner = expected'.uid
    BY DEF StartSync, SyncNotFound, SyncRecover, SyncKnown, NoInfo,
           Inv, TypeOK, IncarnationsOrdered, StatusesOwned, Known
  <2> QED
    BY <1>1, <1>2, <2>1, <2>2
    DEF Inv, IncarnationsOrdered, StatusesOwned, Known, Exists
<1>4. ExpectedAhead' /\ WorkerConsistent'
  <2>1. CASE SyncNotFound
    BY <1>1, <2>1 DEF SyncNotFound, NoInfo, Inv, ExpectedAhead,
       WorkerConsistent, Known, Exists
  <2>2. CASE SyncRecover
    BY <1>1, <2>2, StatusAssumption DEF SyncRecover, Inv, TypeOK, Version, StatusRec,
       ExpectedAhead, WorkerConsistent, Known, Exists
  <2>3. CASE SyncKnown
    BY <1>1, <2>3 DEF SyncKnown, Inv, TypeOK, Version, ExpectedAhead,
       WorkerConsistent, Known, Exists
  <2> QED
    BY <2>1, <2>2, <2>3 DEF StartSync
<1>5. SpecNeverReverted'
  BY <1>1 DEF Inv, SpecNeverReverted
<1> QED
  BY <1>3, <1>4, <1>5 DEF Inv

\* The body of a sync moves f.Status, of the incarnation it synced, forward.
LEMMA SyncBodyInv ==
  ASSUME Inv, TypeOK', NEW s \in Statuses, NEW again \in BOOLEAN,
         SyncBody(s, again)
  PROVE  Inv'
<1>1. UNCHANGED <<remote, cached, pending, userSpec, lastUid, expected>>
  BY DEF SyncBody, objVars, cacheVars
<1>2. \/ f' = Tombstone(0) /\ pc' = "idle"
      \/ /\ pc' = "persist"
         /\ f'.rv = f.rv /\ f'.uid = f.uid
         /\ f'.spec = f.spec /\ f'.deleting = f.deleting
         /\ f'.status.owner = f.uid /\ f'.status.val = s
  BY DEF SyncBody, ToIdle, Inv, TypeOK, Version
<1>3. pc = "body" /\ Leq(f.status.val, s)
  BY DEF SyncBody
<1>4. VersionsOrdered' /\ IncarnationsOrdered' /\ StatusesOwned'
  BY <1>1, <1>2 DEF Tombstone, Inv, TypeOK, Version, VersionsOrdered,
     IncarnationsOrdered, StatusesOwned, Known, Exists
<1>5. ExpectedAhead' /\ SpecNeverReverted'
  BY <1>1 DEF Inv, ExpectedAhead, SpecNeverReverted, Known
<1>6. WorkerConsistent'
  <2>1. Exists(f) /\ expected.uid = f.uid /\ f.status = expected.status
        /\ expected.synced
    BY <1>3 DEF Inv, WorkerConsistent
  <2>2. f.uid = remote.uid => remote.status = f.status
    BY <2>1 DEF Inv, ExpectedAhead, Exists
  <2> QED
    BY <1>1, <1>2, <1>3, <2>1, <2>2 DEF WorkerConsistent, Exists
<1> QED
  BY <1>4, <1>5, <1>6 DEF Inv

\* A stored Update writes the Status of f to the version f or the cache knows,
\* which is the present one: Spec and UID are those of the ApiServer.
LEMMA UpdateStoredInv == ASSUME Inv, TypeOK', NEW ok \in BOOLEAN, UpdateStored(ok) PROVE Inv'
<1>1. /\ pc \in {"push", "persist"}
      /\ Exists(f) /\ Exists(remote) /\ expected.uid = f.uid
      /\ UpdateBase.uid = f.uid /\ UpdateBase.rv = remote.rv
  BY DEF UpdateStored, Updating, BaseIsSameObject, Accepts, Inv, WorkerConsistent
<1>2. /\ remote.uid = f.uid
      /\ UpdateBase.spec = remote.spec
      /\ UpdateBase.deleting = remote.deleting
  BY <1>1 DEF UpdateBase, Inv, VersionsOrdered, Known
<1>3. /\ remote'.uid = f.uid /\ remote'.spec = remote.spec
      /\ remote'.status = f.status
      /\ \/ UNCHANGED <<remote, pending>>
         \/ remote'.rv = remote.rv + 1 /\ pending' = pending \cup {remote'}
  <2>1. CASE UpdateBase.spec = remote.spec /\ f.status = remote.status
    BY <1>2, <2>1 DEF UpdateStored
  <2>2. CASE ~(UpdateBase.spec = remote.spec /\ f.status = remote.status)
    <3>1. UpdateBase \in Version
      BY DEF UpdateBase, Inv, TypeOK
    <3>2. /\ remote' = [UpdateBase EXCEPT !.rv = remote.rv + 1, !.status = f.status]
          /\ pending' = pending \cup {remote'}
      BY <2>2 DEF UpdateStored, Publish
    <3> QED
      BY <1>1, <1>2, <3>1, <3>2 DEF Version
  <2> QED
    BY <2>1, <2>2
<1>4. /\ expected' = [uid |-> f.uid, status |-> f.status, synced |-> ok]
      /\ \/ pc' = "body" /\ f' = f /\ ok
         \/ pc' = "idle" /\ f' = Tombstone(0)
      /\ UNCHANGED <<cached, userSpec, lastUid>>
  BY DEF UpdateStored, UpdateEnds, ToIdle
<1>5. /\ f'.rv <= remote.rv /\ f'.uid <= lastUid /\ f'.status.owner = f'.uid
      /\ expected'.uid <= lastUid
  BY <1>4 DEF Tombstone, Inv, TypeOK, Version, StatusRec, VersionsOrdered, IncarnationsOrdered, StatusesOwned
<1>6. VersionsOrdered'
  <2>1. CASE UNCHANGED <<remote, pending>>
    BY <1>4, <2>1 DEF Tombstone, Inv, VersionsOrdered, Known, Exists, TypeOK, Version
  <2>2. CASE remote'.rv = remote.rv + 1 /\ pending' = pending \cup {remote'}
    BY <1>4, <1>5, <2>2, NewVersionOrdered
  <2> QED
    BY <1>3, <2>1, <2>2
<1>7. IncarnationsOrdered'
  <2>1. CASE UNCHANGED <<remote, pending>>
    BY <1>4, <1>5, <2>1 DEF Inv, IncarnationsOrdered, Known, Exists, TypeOK, Version
  <2>2. CASE remote'.rv = remote.rv + 1 /\ pending' = pending \cup {remote'}
    BY <1>2, <1>3, <1>4, <1>5, <2>2, NewVersionSameIncarnation
  <2> QED
    BY <1>3, <2>1, <2>2
<1>8. StatusesOwned'
  BY <1>2, <1>3, <1>4, <1>5 DEF Inv, StatusesOwned, Known
<1>9. ExpectedAhead'
  <2>1. f.status.val \in Statuses
    BY DEF Inv, TypeOK, Version, StatusRec
  <2>2. cached.uid = remote.uid
    BY <1>1, <1>2 DEF Inv, ExpectedAhead
  <2> QED
    BY <1>2, <1>3, <1>4, <2>1, <2>2, StatusAssumption DEF ExpectedAhead
<1>10. WorkerConsistent'
  BY <1>1, <1>3, <1>4 DEF WorkerConsistent, Exists
<1>11. SpecNeverReverted'
  BY <1>1, <1>2, <1>3, <1>4 DEF Inv, SpecNeverReverted, Exists
<1> QED
  BY <1>6, <1>7, <1>8, <1>9, <1>10, <1>11 DEF Inv

\* An Update that failed, or whose answer got lost, leaves the expected Status
\* ahead of the persisted one.
LEMMA UpdateFailedInv ==
  ASSUME Inv, TypeOK', UpdateFailed PROVE Inv'
<1>1. /\ UNCHANGED <<remote, cached, pending, userSpec, lastUid>>
      /\ expected' = [uid |-> f.uid, status |-> f.status, synced |-> FALSE]
      /\ pc' = "idle" /\ f' = Tombstone(0)
      /\ pc \in {"push", "persist"}
  BY DEF UpdateFailed, UpdateEnds, Updating, ToIdle, objVars, cacheVars
<1>2. VersionsOrdered' /\ IncarnationsOrdered' /\ StatusesOwned'
  BY <1>1 DEF Tombstone, Inv, TypeOK, Version, VersionsOrdered,
     IncarnationsOrdered, StatusesOwned, Known, Exists
<1>3. ExpectedAhead'
  BY <1>1 DEF Inv, ExpectedAhead, WorkerConsistent, Exists, Known
<1>4. WorkerConsistent' /\ SpecNeverReverted'
  BY <1>1 DEF Inv, WorkerConsistent, SpecNeverReverted
<1> QED
  BY <1>2, <1>3, <1>4 DEF Inv

\* A conflict only counts the try.
LEMMA UpdateConflictInv ==
  ASSUME Inv, TypeOK', UpdateConflict PROVE Inv'
  BY DEF UpdateConflict, objVars, cacheVars, Inv, VersionsOrdered,
     IncarnationsOrdered, StatusesOwned, ExpectedAhead, WorkerConsistent,
     SpecNeverReverted, Known

\* A restart lists the ApiServer again and expects nothing.
LEMMA RestartInv ==
  ASSUME Inv, TypeOK', Restart PROVE Inv'
<1>1. /\ UNCHANGED <<remote, userSpec, lastUid>>
      /\ cached' = remote /\ pending' = {}
      /\ expected' = NoInfo /\ f' = Tombstone(0) /\ pc' = "idle"
  BY DEF Restart, ToIdle, objVars
<1>2. VersionsOrdered' /\ IncarnationsOrdered' /\ StatusesOwned'
  BY <1>1 DEF Tombstone, NoInfo, Inv, TypeOK, Version, VersionsOrdered,
     IncarnationsOrdered, StatusesOwned, Known, Exists
<1>3. ExpectedAhead' /\ WorkerConsistent' /\ SpecNeverReverted'
  BY <1>1 DEF NoInfo, Inv, ExpectedAhead, WorkerConsistent,
     SpecNeverReverted, Known, Exists
<1> QED
  BY <1>2, <1>3 DEF Inv

\* Every step keeps the invariant.
LEMMA InvStep == Inv /\ [Next]_vars => Inv'
<1> SUFFICES ASSUME Inv, [Next]_vars PROVE Inv'
  OBVIOUS
<1>0. TypeOK'
  BY TypeStep DEF Inv
<1>1. ASSUME NEW s \in Specs, UserCreate(s) PROVE Inv'
  BY <1>0, <1>1, UserCreateInv
<1>2. ASSUME NEW s \in Specs, UserUpdateSpec(s) PROVE Inv'
  BY <1>0, <1>2, UserUpdateSpecInv
<1>3. CASE UserDelete
  BY <1>0, <1>3, UserDeleteInv
<1>4. CASE Vanish
  BY <1>0, <1>4, VanishInv
<1>5. CASE Deliver
  BY <1>0, <1>5, DeliverInv
<1>6. CASE StartSync
  BY <1>0, <1>6, StartSyncInv
<1>7. ASSUME NEW s \in Statuses, NEW again \in BOOLEAN, SyncBody(s, again)
      PROVE  Inv'
  BY <1>0, <1>7, SyncBodyInv
<1>8. ASSUME NEW ok \in BOOLEAN, UpdateStored(ok) PROVE Inv'
  BY <1>0, <1>8, UpdateStoredInv
<1>9. CASE UpdateConflict
  BY <1>0, <1>9, UpdateConflictInv
<1>10. CASE UpdateFailed
  BY <1>0, <1>10, UpdateFailedInv
<1>11. CASE Restart
  BY <1>0, <1>11, RestartInv
<1>12. CASE UNCHANGED vars
  BY <1>0, <1>12 DEF vars, Inv, VersionsOrdered, IncarnationsOrdered, StatusesOwned,
     ExpectedAhead, WorkerConsistent, SpecNeverReverted, Known
<1> QED
  BY <1>1, <1>2, <1>3, <1>4, <1>5, <1>6, <1>7, <1>8, <1>9, <1>10, <1>11, <1>12
  DEF Next, Users, Body, UpdateRemote

\* The invariant holds in every reachable state.
THEOREM InvCorrect == Safety => []Inv
  BY InvInit, InvStep, PTL DEF Safety

-----------------------------------------------------------------------------
(* The safety properties *)

\* A sync acts on the persisted Status only: whatever writes failed, conflicted
\* or lost their answer before, at the body of syncFramework f.Status, the
\* expected and the remote Status are the same.
THEOREM SyncsAgainstPersistedHolds == Safety => []SyncsAgainstPersisted
<1>1. Inv => SyncsAgainstPersisted
  <2> SUFFICES ASSUME Inv, pc = "body", f.uid = remote.uid
               PROVE  /\ f.status = remote.status
                      /\ expected = [uid |-> f.uid, status |-> f.status,
                                     synced |-> TRUE]
    BY DEF SyncsAgainstPersisted
  <2>1. /\ Exists(remote) /\ expected.uid = remote.uid
        /\ f.status = expected.status /\ expected.synced
    BY DEF Inv, WorkerConsistent, Exists
  <2>2. remote.status = expected.status
    BY <2>1 DEF Inv, ExpectedAhead
  <2>3. expected \in Info
    BY DEF Inv, TypeOK
  <2>4. expected.synced = TRUE
    BY <2>1, <2>3 DEF Info
  <2>5. expected = [uid |-> expected.uid, status |-> expected.status,
                    synced |-> expected.synced]
    BY <2>3 DEF Info
  <2> QED
    BY <2>1, <2>2, <2>4, <2>5
<1> QED
  BY <1>1, InvCorrect, PTL

\* Persisting a Status sends a whole object, possibly an old copy, back to the
\* ApiServer, and never undoes what a user wrote to the Spec.
THEOREM SpecNeverRevertedHolds == Safety => []SpecNeverReverted
<1>1. Inv => SpecNeverReverted
  BY DEF Inv
<1> QED
  BY <1>1, InvCorrect, PTL

\* A Status computed for one Framework object is never written to another one
\* of the same name.
THEOREM StatusOfOwnIncarnationHolds == Safety => []StatusOfOwnIncarnation
<1>1. Inv => StatusOfOwnIncarnation
  BY DEF Inv, StatusesOwned, StatusOfOwnIncarnation
<1> QED
  BY <1>1, InvCorrect, PTL

\* The Status of a Framework object only changes to a future one, over any
\* number of failures, conflicts, stale caches and restarts.
THEOREM MonotonicallyExposedHolds == Safety => MonotonicallyExposed
<1>1. Inv /\ Inv' /\ [Next]_vars =>
        [Exists(remote) /\ remote'.uid = remote.uid
           => Leq(remote.status.val, remote'.status.val)]_vars
  <2> SUFFICES ASSUME Inv, [Next]_vars, Exists(remote), remote'.uid = remote.uid
               PROVE  Leq(remote.status.val, remote'.status.val)
    OBVIOUS
  <2>1. remote.status.val \in Statuses
    BY DEF Inv, TypeOK, Version, StatusRec
  <2>2. CASE remote'.status = remote.status
    BY <2>1, <2>2, StatusAssumption
  <2>3. ASSUME NEW s \in Specs, UserCreate(s) PROVE FALSE
    BY <2>3 DEF UserCreate
  <2>4. CASE Vanish
    BY <2>4 DEF Vanish, Publish, Tombstone, Exists
  <2>5. ASSUME NEW s \in Specs, UserUpdateSpec(s) PROVE remote'.status = remote.status
    BY <2>5 DEF UserUpdateSpec, Publish, Inv, TypeOK, Version
  <2>6. CASE UserDelete
    <3>1. remote'.status = remote.status
      BY <2>6 DEF UserDelete, Publish, Inv, TypeOK, Version
    <3> QED
      BY <2>2, <3>1
  <2>7. ASSUME NEW ok \in BOOLEAN, UpdateStored(ok)
        PROVE  Leq(remote.status.val, remote'.status.val)
    <3>1. /\ UpdateBase.uid = f.uid /\ UpdateBase.rv = remote.rv
          /\ pc \in {"push", "persist"}
          /\ Exists(f) /\ expected.uid = f.uid
      BY <2>7 DEF UpdateStored, BaseIsSameObject, Accepts, Updating, Inv,
         WorkerConsistent
    <3>2. remote.uid = f.uid
      BY <3>1 DEF UpdateBase, Inv, VersionsOrdered, Known
    <3>3. Leq(remote.status.val, f.status.val)
      BY <3>1, <3>2 DEF Inv, WorkerConsistent, ExpectedAhead
    <3>4. UpdateBase \in Version
      BY DEF UpdateBase, Inv, TypeOK
    <3>5. CASE UpdateBase.spec = remote.spec /\ f.status = remote.status
      BY <2>2, <2>7, <3>5 DEF UpdateStored
    <3>6. CASE ~(UpdateBase.spec = remote.spec /\ f.status = remote.status)
      <4>1. remote' = [UpdateBase EXCEPT !.rv = remote.rv + 1, !.status = f.status]
        BY <2>7, <3>6 DEF UpdateStored, Publish
      <4>2. remote'.status = f.status
        BY <3>4, <4>1 DEF Version
      <4> QED
        BY <3>3, <4>2
    <3> QED
      BY <3>5, <3>6
  <2>8. CASE \/ Deliver \/ StartSync \/ Body \/ UpdateConflict \/ UpdateFailed
             \/ Restart \/ UNCHANGED vars
    <3>1. remote' = remote
      BY <2>8 DEF Deliver, StartSync, SyncNotFound, SyncRecover, SyncKnown, Body,
         SyncBody, UpdateConflict, UpdateFailed, Restart, vars, objVars
    <3> QED
      BY <2>2, <3>1
  <2> QED
    BY <2>2, <2>3, <2>4, <2>5, <2>6, <2>7, <2>8 DEF Next, Users, UpdateRemote
<1> QED
  BY <1>1, InvCorrect, PTL DEF Safety, MonotonicallyExposed
=============================================================================
