-------------------------- MODULE CompletionCodes --------------------------
(***************************************************************************)
(* Completion codes (completion.go): the CompletionCode and CompletionType *)
(* that a failed Pod, or a Pod that could not be created, completes its    *)
(* TaskAttempt with.                                                       *)
(*                                                                         *)
(* A Pod is a record of its name, reason, message and containers, those of *)
(* the init containers first (GetAllContainerStatuses).  A regular         *)
(* expression is whether it is nil and the strings in which it finds a     *)
(* match; a range is whether it is nil, its minimum and its maximum.       *)
(* Diagnostics and phrases are left out.                                   *)
(***************************************************************************)
EXTENDS Integers, Sequences, SequencesExt, RetryPolicy

CONSTANTS
  PodFailureSpec,   \* the CompletionCodeInfos of the configuration
  Strings           \* names, reasons and messages

ContainerTransientFailed == 200
ContainerTransientConflictFailed == 201
ContainerPermanentFailed == 210
Succeeded == 0
PodExternalDeleted == -101
PodCreationTransientError == -120
PodCreationPermanentError == -200
DeleteTaskRequested == -230
PodFailedWithoutFailedContainer == -300
PodCreationUnknownError == -310

Failed(attributes) == CompletionType("Failed", attributes)

NilRegex == [isNil |-> TRUE, finds |-> {}]
AnyString == [isNil |-> FALSE, finds |-> Strings]   \* "(?ms).*"

NilRange == [isNil |-> TRUE, min |-> 0, max |-> 0]
Exactly(n) == [isNil |-> FALSE, min |-> n, max |-> n]

\* The codes by which a container instructs FrameworkController
PredefinedInfo(code, type) ==
  [code |-> code, type |-> type,
   patterns |->
     {[name |-> NilRegex, reason |-> NilRegex, message |-> NilRegex,
       containers |-> <<[name |-> AnyString, reason |-> NilRegex, message |-> AnyString,
                         signal |-> NilRange, code |-> Exactly(code)]>>]}]

PredefinedInfos ==
  <<PredefinedInfo(ContainerTransientFailed, Failed({"Transient"})),
    PredefinedInfo(ContainerTransientConflictFailed, Failed({"Transient", "Conflict"})),
    PredefinedInfo(ContainerPermanentFailed, Failed({"Permanent"}))>>

\* The types of the other predefined codes, which no pattern matches
TypeOf(code) ==
  CASE code \in -199 .. -100 -> Failed({"Transient"})
    [] code \in -299 .. -200 -> Failed({"Permanent"})
    [] code \in -399 .. -300 -> Failed({})
    [] code = 0 -> CompletionType("Succeeded", {})

Result(code, type) == [code |-> code, type |-> type]

OfController(code) == Result(code, TypeOf(code))

\* AppendCompletionCodeInfos
InfosPrepended == PodFailureSpec \o PredefinedInfos   \* a mutant

CompletionCodeInfos == PredefinedInfos \o PodFailureSpec

Regex == [isNil : BOOLEAN, finds : SUBSET Strings]
Int32Range == [isNil : BOOLEAN, min : Int, max : Int]

ContainerPattern ==
  [name : Regex, reason : Regex, message : Regex, signal : Int32Range, code : Int32Range]

PodPattern == [name : Regex, reason : Regex, message : Regex, containers : Seq(ContainerPattern)]

CompletionCodeInfo ==
  [code : Int, patterns : SUBSET PodPattern,
   type : [name : {"Failed", "Succeeded"}, attributes : SUBSET {"Transient", "Conflict", "Permanent"}]]

\* NewConfig refuses other PodFailureSpecs.
IsPodFailureSpec(infos) ==
  /\ infos \in Seq(CompletionCodeInfo)
  /\ \A i \in 1 .. Len(infos) :
       LET info == infos[i]
       IN  /\ info.type.name = "Failed"
           /\ info.patterns # {}
           /\ info.code \notin (-999 .. 0) \cup (200 .. 219)
           /\ \A j \in 1 .. i - 1 : infos[j].code # info.code

ASSUME PodFailureSpecAssumption == IsPodFailureSpec(PodFailureSpec)

-----------------------------------------------------------------------------
(* Matching *)

ContainerStatus ==
  [name : Strings, reason : Strings, message : Strings, terminated : BOOLEAN,
   signal : Nat, code : Nat, finished : Nat]

Finds(regex, s) == regex.isNil \/ s \in regex.finds

InRange(range, n) == range.isNil \/ n \in range.min .. range.max

\* A pattern of how a container terminated matches none that did not.
MatchContainerPattern(c, p) ==
  /\ Finds(p.name, c.name)
  /\ \/ c.terminated
     \/ p.reason.isNil /\ p.message.isNil /\ p.signal.isNil /\ p.code.isNil
  /\ Finds(p.reason, c.reason) /\ Finds(p.message, c.message)
  /\ InRange(p.signal, c.signal) /\ InRange(p.code, c.code)

MatchPodPattern(pod, p) ==
  /\ Finds(p.name, pod.name)
  /\ Finds(p.reason, pod.reason)
  /\ Finds(p.message, pod.message)
  /\ \A i \in 1 .. Len(p.containers) :
       \E j \in 1 .. Len(pod.containers) :
         MatchContainerPattern(pod.containers[j], p.containers[i])

HasFailed(c) == c.terminated /\ c.code # 0

FailedContainers(containers) == {i \in 1 .. Len(containers) : HasFailed(containers[i])}

FirstFailed(containers) ==   \* a mutant
  {i \in FailedContainers(containers) :
     \A j \in FailedContainers(containers) : containers[i].finished <= containers[j].finished}

\* The one that failed last, and the first of those that did so at once
LastFailed(containers) ==
  {i \in FailedContainers(containers) :
     \A j \in FailedContainers(containers) :
       /\ containers[j].finished <= containers[i].finished
       /\ j < i => containers[j].finished < containers[i].finished}

\* generatePodUnmatchedResult
UnmatchedResult(pod) ==
  IF FailedContainers(pod.containers) = {} THEN OfController(PodFailedWithoutFailedContainer)
  ELSE Result(pod.containers[CHOOSE i \in LastFailed(pod.containers) : TRUE].code, Failed({}))

MatchesInfo(pod, info) == \E p \in info.patterns : MatchPodPattern(pod, p)

\* The first one that matches
MatchCompletionCodeInfos(pod) ==
  LET first == SelectInSeq(CompletionCodeInfos, LAMBDA info : MatchesInfo(pod, info))
  IN  IF first = 0 THEN UnmatchedResult(pod)
      ELSE Result(CompletionCodeInfos[first].code, CompletionCodeInfos[first].type)

\* An error of the ApiServer is the set of what the predicates say of it.
ClassifyPodCreationError(err) ==
  OfController(
    CASE err \cap {"object provided is unrecognized", "exceeded quota"} # {} ->
           PodCreationTransientError
      [] OTHER ->
           CASE err \cap {"IsBadRequest", "IsForbidden"} # {} -> PodCreationUnknownError
             [] OTHER ->
                  IF err \cap {"IsInvalid", "IsRequestEntityTooLargeError"} = {}
                    THEN PodCreationTransientError
                  ELSE IF err \cap {"IsConnectionReset", "IsProbableEOF"} # {}
                    THEN PodCreationUnknownError
                  ELSE PodCreationPermanentError)

-----------------------------------------------------------------------------
(* Properties *)

\* "You can leverage the Predefined CompletionCode to instruct your RetryPolicy [...]
\* regardless of different PodFailureSpec", and else, "if no PodPattern is matched and
\* failed Container exists, the CompletionCode is the same as the last failed
\* Container ExitCode".
IsAsDocumented(containers, code) ==
  LET ended == {i \in 1 .. Len(containers) : containers[i].terminated}
      codes == {containers[i].code : i \in ended}
      predefined == codes \cap {PredefinedInfos[i].code : i \in 1 .. Len(PredefinedInfos)}
  IN  /\ predefined # {} => code \in predefined
      /\ \/ code < 0 /\ codes \subseteq {0}
         \/ \E i \in 1 .. Len(CompletionCodeInfos) : code = CompletionCodeInfos[i].code
         \/ \E i \in ended :
              /\ code = containers[i].code /\ code # 0
              /\ \A j \in ended : \/ containers[j].code = 0
                                  \/ containers[j].finished <= containers[i].finished
=============================================================================
