---------------------------- MODULE RetryPolicy ----------------------------
(***************************************************************************)
(* RetryPolicySpec.ShouldRetry (funcs.go): whether a completed attempt of  *)
(* a Framework or of a Task is followed by another one, whether that retry *)
(* counts against MaxRetryCount, and after which delay.                    *)
(***************************************************************************)
EXTENDS Integers

UnlimitedValue == -1
ExtendedUnlimitedValue == -2

\* CompletionStatus.Type
CompletionType(name, attributes) == [name |-> name, attributes |-> attributes]

IsFailed(ct) == ct.name = "Failed"

\* A completion with one of these codes is never retried.
NeverRetriedCodes ==
  {"StopFrameworkRequested", "FrameworkAttemptCompletion", "DeleteTaskRequested"}

Decision(retry, accountable, delay) ==
  [ShouldRetry |-> retry, IsAccountable |-> accountable, DelaySec |-> delay]

\* rp: the RetryPolicySpec; accountable: AccountableRetriedCount; code and ct:
\* those of the CompletionStatus; delay: what RandInt64 draws between the
\* configured minimum and maximum.
NormalRetryPolicyOnceMore(rp, accountable, ct) ==   \* a mutant
  Decision(\/ rp.MaxRetryCount = ExtendedUnlimitedValue
           \/ IsFailed(ct) /\ rp.MaxRetryCount = UnlimitedValue
           \/ IsFailed(ct) /\ accountable <= rp.MaxRetryCount,
           TRUE, 0)

NormalRetryPolicy(rp, accountable, ct) ==
  Decision(\/ rp.MaxRetryCount = ExtendedUnlimitedValue
           \/ IsFailed(ct) /\ rp.MaxRetryCount = UnlimitedValue
           \/ IsFailed(ct) /\ accountable < rp.MaxRetryCount,
           TRUE, 0)

ShouldRetryAccountably(rp, accountable, code, ct, delay) ==   \* a mutant
  IF code \notin NeverRetriedCodes /\ rp.FancyRetryPolicy /\ IsFailed(ct)
     /\ "Transient" \in ct.attributes
    THEN Decision(TRUE, TRUE, 0)
    ELSE NormalRetryPolicy(rp, accountable, ct)

ShouldRetry(rp, accountable, code, ct, delay) ==
  CASE code \in NeverRetriedCodes -> Decision(FALSE, TRUE, 0)
    [] /\ code \notin NeverRetriedCodes
       /\ rp.FancyRetryPolicy /\ IsFailed(ct) /\ "Transient" \in ct.attributes ->
         Decision(TRUE, FALSE, IF "Conflict" \in ct.attributes THEN delay ELSE 0)
    [] /\ code \notin NeverRetriedCodes
       /\ rp.FancyRetryPolicy /\ IsFailed(ct)
       /\ "Transient" \notin ct.attributes /\ "Permanent" \in ct.attributes ->
         Decision(FALSE, TRUE, 0)
    [] OTHER -> NormalRetryPolicy(rp, accountable, ct)
=============================================================================
