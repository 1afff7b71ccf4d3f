------------------------ MODULE FrameworkStatusSync ------------------------
(***************************************************************************)
(* How FrameworkController keeps the Status of one Framework name: the     *)
(* object in the ApiServer, the Informer's local cache of it, the in-memory*)
(* ExpectedFrameworkStatusInfo, the work queue entry of the key, and the   *)
(* worker that runs syncFramework (controller.go).  What a sync computes   *)
(* is left open: Body moves Framework.Status to any value that may follow  *)
(* the current one.  FrameworkAttempt fills it in.                         *)
(*                                                                         *)
(* Scope.  One Framework name, deleted and created again under new UIDs.   *)
(* An ApiServer call takes effect, if at all, before it returns.  After a  *)
(* restart the first List is up to date.  Only this controller writes      *)
(* Framework.Status, only users write Framework.Spec.                      *)
(***************************************************************************)
EXTENDS Integers

CONSTANTS
  Specs,         \* the values of Framework.Spec that users write
  NoSpec,        \* the spec of an absent object
  Statuses,      \* the values of Framework.Status
  NilStatus,     \* Framework.Status = nil, as the user creates it
  Leq(_, _),     \* Leq(a, b): b may be exposed after a
  MaxTries,      \* attempts of one RetryOnConflict (retry.DefaultRetry.Steps)
  MaxVersions,   \* bound: no user edit or creation after this many versions
  MaxUid,        \* bound: incarnations of the Framework name
  MaxCrashes     \* bound: restarts of FrameworkController

ASSUME SpecAssumption == NoSpec \notin Specs

ASSUME StatusAssumption ==
  /\ NilStatus \in Statuses
  /\ \A a, b \in Statuses : Leq(a, b) \in BOOLEAN
  /\ \A a \in Statuses : Leq(a, a)
  /\ \A a, b, c \in Statuses : Leq(a, b) /\ Leq(b, c) => Leq(a, c)

ASSUME BoundAssumption ==
  /\ MaxTries \in Nat \ {0}
  /\ MaxVersions \in Nat
  /\ MaxUid \in Nat
  /\ MaxCrashes \in Nat

VARIABLES
  remote,     \* the Framework object in the ApiServer, or its tombstone
  cached,     \* the object in the Informer's local cache
  pending,    \* versions newer than cached, not delivered yet
  expected,   \* fExpectedStatusInfos[key]; uid 0 is the missing entry
  queued,     \* the key waits in fQueue
  pc,         \* where the worker is in syncFramework
  f,          \* the writable copy that syncFramework works on
  tries,      \* Update calls made by the running RetryOnConflict
  userSpec,   \* history: the Spec the user last wrote
  synced,     \* history: the object this process last synced against
  lastUid,    \* the last UID given out
  crashes     \* restarts so far

objVars == <<remote, userSpec, lastUid>>
cacheVars == <<cached, pending>>
syncVars == <<expected, pc, f, tries, synced>>
vars == <<remote, cached, pending, expected, queued, pc, f, tries,
          userSpec, synced, lastUid, crashes>>

-----------------------------------------------------------------------------
(* Objects.  uid 0 stands for an absent object; a status carries the UID of *)
(* the incarnation it was computed for.                                     *)

StatusRec == [owner : Nat, val : Statuses]

Version == [rv : Nat, uid : Nat, spec : Specs \cup {NoSpec},
            status : StatusRec, deleting : BOOLEAN]

Info == [uid : Nat, status : StatusRec, synced : BOOLEAN]

Tombstone(rv) ==
  [rv |-> rv, uid |-> 0, spec |-> NoSpec,
   status |-> [owner |-> 0, val |-> NilStatus], deleting |-> FALSE]

NoInfo ==
  [uid |-> 0, status |-> [owner |-> 0, val |-> NilStatus], synced |-> TRUE]

Exists(o) == o.uid # 0

TypeOK ==
  /\ remote \in Version
  /\ cached \in Version
  /\ pending \subseteq Version
  /\ expected \in Info
  /\ queued \in BOOLEAN
  /\ pc \in {"idle", "push", "body", "persist"}
  /\ f \in Version
  /\ tries \in 0 .. MaxTries - 1
  /\ userSpec \in Specs \cup {NoSpec}
  /\ synced \in [uid : Nat, spec : Specs \cup {NoSpec}]
  /\ lastUid \in Nat
  /\ crashes \in Nat

Init ==
  /\ remote = Tombstone(0)
  /\ cached = Tombstone(0)
  /\ pending = {}
  /\ expected = NoInfo
  /\ queued = FALSE
  /\ pc = "idle"
  /\ f = Tombstone(0)
  /\ tries = 0
  /\ userSpec = NoSpec
  /\ synced = [uid |-> 0, spec |-> NoSpec]
  /\ lastUid = 0
  /\ crashes = 0

\* The ApiServer stores a version, which the Informer will hear of.
Publish(v) ==
  /\ remote' = v
  /\ pending' = pending \cup {v}

-----------------------------------------------------------------------------
(* Users and the GarbageCollectionController *)

UserCreate(s) ==
  /\ ~Exists(remote)
  /\ lastUid < MaxUid
  /\ lastUid' = lastUid + 1
  /\ Publish([rv |-> remote.rv + 1, uid |-> lastUid + 1, spec |-> s,
              status |-> [owner |-> lastUid + 1, val |-> NilStatus],
              deleting |-> FALSE])
  /\ userSpec' = s
  /\ UNCHANGED <<cached, queued, syncVars, crashes>>

UserUpdateSpec(s) ==
  /\ Exists(remote)
  /\ s # remote.spec
  /\ remote.rv < MaxVersions
  /\ Publish([remote EXCEPT !.rv = @ + 1, !.spec = s])
  /\ userSpec' = s
  /\ UNCHANGED <<cached, lastUid, queued, syncVars, crashes>>

\* Foreground deletion first only sets DeletionTimestamp ...
UserDelete ==
  /\ Exists(remote)
  /\ ~remote.deleting
  /\ Publish([remote EXCEPT !.rv = @ + 1, !.deleting = TRUE])
  /\ UNCHANGED <<cached, userSpec, lastUid, queued, syncVars, crashes>>

\* ... and the object goes once its dependents are gone.
Vanish ==
  /\ Exists(remote)
  /\ remote.deleting
  /\ Publish(Tombstone(remote.rv + 1))
  /\ userSpec' = NoSpec
  /\ UNCHANGED <<cached, lastUid, queued, syncVars, crashes>>

-----------------------------------------------------------------------------
(* The Informer.  Delivery is level driven: it may skip versions, never go  *)
(* back.  A status or metadata change of the same object enqueues nothing.  *)

NotifiesNewObjectsOnly(old, new) == old.uid # new.uid   \* a mutant

Notifies(old, new) ==
  \/ old.uid # new.uid
  \/ Exists(new) /\ old.spec # new.spec

Deliver ==
  \E v \in pending :
    /\ cached' = v
    /\ pending' = {w \in pending : w.rv > v.rv}
    /\ queued' = (queued \/ Notifies(cached, v))
    /\ UNCHANGED <<objVars, syncVars, crashes>>

-----------------------------------------------------------------------------
(* The worker: processNextWorkItem and syncFramework *)

ToIdle ==
  /\ pc' = "idle"
  /\ f' = Tombstone(0)
  /\ tries' = 0

\* The Framework cannot be found in the local cache.
SyncNotFound ==
  /\ pc = "idle" /\ queued
  /\ ~Exists(cached)
  /\ queued' = FALSE
  /\ expected' = NoInfo
  /\ UNCHANGED <<objVars, cacheVars, pc, f, tries, synced, crashes>>

\* First sight of this UID: take the cached Status for the remote one.
SyncRecover ==
  /\ pc = "idle" /\ queued
  /\ Exists(cached)
  /\ expected.uid # cached.uid
  /\ queued' = FALSE
  /\ expected' = [uid |-> cached.uid, status |-> cached.status, synced |-> TRUE]
  /\ f' = cached
  /\ pc' = "body"
  /\ UNCHANGED <<objVars, cacheVars, tries, synced, crashes>>

\* Mutants: the expected Status is not pushed first; the cached Status is not
\* overridden.
SyncKnownWithoutPush ==
  /\ pc = "idle" /\ queued
  /\ Exists(cached)
  /\ expected.uid = cached.uid
  /\ queued' = FALSE
  /\ f' = [cached EXCEPT !.status = expected.status]
  /\ pc' = "body"
  /\ UNCHANGED <<objVars, cacheVars, expected, tries, synced, crashes>>

SyncKnownFromCache ==
  /\ pc = "idle" /\ queued
  /\ Exists(cached)
  /\ expected.uid = cached.uid
  /\ queued' = FALSE
  /\ f' = cached
  /\ pc' = IF expected.synced THEN "body" ELSE "push"
  /\ UNCHANGED <<objVars, cacheVars, expected, tries, synced, crashes>>

\* Known UID: the expected Status overrides the cached one, and is pushed
\* first unless the remote one is known to equal it.
SyncKnown ==
  /\ pc = "idle" /\ queued
  /\ Exists(cached)
  /\ expected.uid = cached.uid
  /\ queued' = FALSE
  /\ f' = [cached EXCEPT !.status = expected.status]
  /\ pc' = IF expected.synced THEN "body" ELSE "push"
  /\ UNCHANGED <<objVars, cacheVars, expected, tries, synced, crashes>>

\* syncFrameworkStatus changed f.Status to s, or left it alone; `again` is a
\* key enqueued by the sync itself or a sync error.
SyncBody(s, again) ==
  /\ pc = "body"
  /\ Leq(f.status.val, s)
  /\ queued' = (queued \/ again)
  /\ synced' = [uid |-> f.uid, spec |-> f.spec]
  /\ IF s = f.status.val
       THEN ToIdle
       ELSE /\ f' = [f EXCEPT !.status = [owner |-> f.uid, val |-> s]]
            /\ pc' = "persist"
            /\ tries' = 0
  /\ UNCHANGED <<objVars, cacheVars, expected, crashes>>

-----------------------------------------------------------------------------
(* updateRemoteFrameworkStatus *)

Updating == pc \in {"push", "persist"}

\* The first call sends f, a later one f.Status on the cached object.
UpdateBase == IF tries = 0 THEN f ELSE cached

BaseIsAnyObject == TRUE   \* a mutant

\* Only the object with the UID of f is updated.
BaseIsSameObject == UpdateBase.uid = f.uid

AcceptsAnyVersion == Exists(remote)   \* a mutant

\* The ApiServer accepts an Update of the version it holds.
Accepts == Exists(remote) /\ UpdateBase.rv = remote.rv

\* A mutant: a failed Update is not requeued.
UpdateEndsWithoutRequeue(ok) ==
  /\ expected' = [uid |-> f.uid, status |-> f.status, synced |-> ok]
  /\ IF ok /\ pc = "push"
       THEN pc' = "body" /\ f' = f /\ tries' = 0
       ELSE ToIdle
  /\ queued' = queued

UpdateEnds(ok) ==
  /\ expected' = [uid |-> f.uid, status |-> f.status, synced |-> ok]
  /\ IF ok /\ pc = "push"
       THEN pc' = "body" /\ f' = f /\ tries' = 0
       ELSE ToIdle
  /\ queued' = (queued \/ ~ok)

\* The write is stored.  The answer may get lost, which looks like a failure.
\* An Update that changes nothing makes no new version.
UpdateStored(ok) ==
  /\ Updating
  /\ BaseIsSameObject
  /\ Accepts
  /\ IF UpdateBase.spec = remote.spec /\ f.status = remote.status
       THEN UNCHANGED <<remote, pending>>
       ELSE Publish([UpdateBase EXCEPT !.rv = remote.rv + 1,
                                       !.status = f.status])
  /\ UpdateEnds(ok)
  /\ UNCHANGED <<cached, userSpec, synced, lastUid, crashes>>

\* A mutant: RetryOnConflict never gives up.
UpdateConflictForever ==
  /\ Updating
  /\ BaseIsSameObject
  /\ Exists(remote) /\ ~Accepts
  /\ tries' = tries + 1
  /\ UNCHANGED <<objVars, cacheVars, expected, queued, pc, f, synced, crashes>>

UpdateConflict ==
  /\ Updating
  /\ BaseIsSameObject
  /\ Exists(remote) /\ ~Accepts
  /\ tries + 1 < MaxTries
  /\ tries' = tries + 1
  /\ UNCHANGED <<objVars, cacheVars, expected, queued, pc, f, synced, crashes>>

\* Not stored: the object is gone, the local cache has another object or none,
\* the conflict attempts are used up, or the call failed.
UpdateFailed ==
  /\ Updating
  /\ UpdateEnds(FALSE)
  /\ UNCHANGED <<objVars, cacheVars, synced, crashes>>

-----------------------------------------------------------------------------
(* A restart loses the memory of the process; all Frameworks are enqueued. *)

Restart ==
  /\ crashes < MaxCrashes
  /\ crashes' = crashes + 1
  /\ cached' = remote
  /\ pending' = {}
  /\ expected' = NoInfo
  /\ queued' = Exists(remote)
  /\ ToIdle
  /\ synced' = [uid |-> 0, spec |-> NoSpec]
  /\ UNCHANGED objVars

-----------------------------------------------------------------------------
Users ==
  \/ \E s \in Specs : UserCreate(s) \/ UserUpdateSpec(s)
  \/ UserDelete
  \/ Vanish

StartSync == SyncNotFound \/ SyncRecover \/ SyncKnown

UpdateRemote ==
  \/ \E ok \in BOOLEAN : UpdateStored(ok)
  \/ UpdateConflict
  \/ UpdateFailed

Body == \E s \in Statuses, again \in BOOLEAN : SyncBody(s, again)

Next == Users \/ Deliver \/ StartSync \/ Body \/ UpdateRemote \/ Restart

\* The worker and the Informer keep going, and an ApiServer that can accept the
\* Update again and again does so once.
Fairness ==
  /\ WF_vars(Deliver)
  /\ WF_vars(StartSync)
  /\ WF_vars(Body)
  /\ WF_vars(UpdateRemote)
  /\ SF_vars(UpdateStored(TRUE))

Safety == Init /\ [][Next]_vars
FairSpec == Safety /\ Fairness

-----------------------------------------------------------------------------
(* Properties *)

\* "At this point, f.Status is the same as the expected and remote
\* Framework.Status" (syncFramework): a sync never acts on a Status that is not
\* the persisted one, whatever writes failed or lost their answer before.
SyncsAgainstPersisted ==
  pc = "body" /\ f.uid = remote.uid =>
    /\ f.status = remote.status
    /\ expected = [uid |-> f.uid, status |-> f.status, synced |-> TRUE]

\* The whole object is sent back to the ApiServer with a possibly old Spec, yet
\* the Spec there is always the last one the user wrote.
SpecNeverReverted == Exists(remote) => remote.spec = userSpec

\* A Status is never written to another Framework of the same name.
StatusOfOwnIncarnation == Exists(remote) => remote.status.owner = remote.uid

\* "Monotonically Exposed" (FrameworkStatus): to every ApiServer client the
\* Status of a Framework object only changes to a future one.
MonotonicallyExposed ==
  [][Exists(remote) /\ remote'.uid = remote.uid
       => Leq(remote.status.val, remote'.status.val)]_vars

\* No missed event: whatever Spec is left in the ApiServer is synced against,
\* although resync is disabled and only some events enqueue the key.
SpecEventuallySynced ==
  \A s \in Specs :
    (Exists(remote) /\ remote.spec = s)
      ~> (synced = [uid |-> remote.uid, spec |-> s] \/ remote.spec # s)

\* An expected Status that failed to persist is retried until it is persisted
\* or the Framework object is gone.
ExpectedEventuallyPersisted ==
  \A u \in 1 .. MaxUid :
    (expected.uid = u /\ ~expected.synced)
      ~> (expected.uid # u \/ remote.uid # u \/ remote.status = expected.status)

-----------------------------------------------------------------------------
(* The inductive invariant behind the safety properties *)

Known == pending \cup {cached}

\* Versions are numbered in the order the ApiServer stored them, and one number
\* is one object.
VersionsOrdered ==
  /\ \A v \in Known :
       /\ v.rv <= remote.rv
       /\ v.rv = remote.rv => v = remote
  /\ \A v \in pending : cached.rv < v.rv
  /\ f.rv <= remote.rv
  /\ Exists(f) /\ f.rv = remote.rv =>
       f.uid = remote.uid /\ f.spec = remote.spec /\ f.deleting = remote.deleting

\* UIDs are never reused, and the versions of one incarnation are contiguous.
IncarnationsOrdered ==
  /\ \A v \in Known : v.uid <= lastUid
  /\ remote.uid <= lastUid /\ f.uid <= lastUid /\ expected.uid <= lastUid
  /\ Exists(remote) =>
       \A v, w \in Known :
         v.rv <= w.rv /\ v.uid = remote.uid => w.uid = remote.uid

\* A Status belongs to the incarnation it was computed for, everywhere.
StatusesOwned ==
  /\ \A v \in Known \cup {remote, f} : v.status.owner = v.uid
  /\ expected.status.owner = expected.uid

\* The expected entry of the present incarnation is at or after the persisted
\* Status; without such an entry nobody has written this incarnation's Status
\* since the cache learnt of it.
ExpectedAhead ==
  Exists(remote) =>
    /\ expected.uid = remote.uid =>
         /\ cached.uid = remote.uid
         /\ Leq(remote.status.val, expected.status.val)
         /\ expected.synced => remote.status = expected.status
    /\ expected.uid # remote.uid =>
         \A v \in Known : v.uid = remote.uid => v.status = remote.status

\* What the worker holds, at each place of syncFramework.
WorkerConsistent ==
  /\ pc # "idle" => Exists(f) /\ expected.uid = f.uid
  /\ pc \in {"push", "body"} => f.status = expected.status
  /\ pc = "body" => expected.synced
  /\ pc = "persist" /\ f.uid = remote.uid => Leq(remote.status.val, f.status.val)

Inv ==
  /\ TypeOK
  /\ VersionsOrdered
  /\ IncarnationsOrdered
  /\ StatusesOwned
  /\ ExpectedAhead
  /\ WorkerConsistent
  /\ SpecNeverReverted
=============================================================================
