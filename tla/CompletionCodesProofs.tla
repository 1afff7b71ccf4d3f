----------------------- MODULE CompletionCodesProofs -----------------------
(***************************************************************************)
(* What the matching of CompletionCodes finds, proved for every            *)
(* PodFailureSpec that NewConfig accepts and all containers.               *)
(*                                                                         *)
(* The argument.  The predefined infos are asked first, and each of them   *)
(* matches as soon as a container exited with its code, so a configured    *)
(* info or the last failed container only decides if none did.  That there *)
(* is a last failed container if there is a failed one is shown by the     *)
(* shortest prefix of the containers that would have none.                 *)
(***************************************************************************)
EXTENDS CompletionCodes, SequenceTheorems, WellFoundedInduction, TLAPS

-----------------------------------------------------------------------------
(* Least numbers *)

\* A set of numbers has a least one.
LEMMA LeastNumber ==
  ASSUME NEW T, T \subseteq Nat, T # {}
  PROVE  \E n \in T : \A m \in T : n <= m
<1> DEFINE R == {ss \in Nat \X Nat : ss[1] < ss[2]}
<1>1. IsWellFoundedOn(R, Nat)
  BY NatLessThanWellFounded DEF OpToRel
<1> HIDE DEF R
<1>2. PICK n \in T : \A m \in T : ~ (<<m, n>> \in R)
  BY <1>1, WFMin
<1>3. ASSUME NEW m \in T
      PROVE  n <= m
  <2>1. m \in Nat /\ n \in Nat /\ <<m, n>> \notin R
    BY <1>2, <1>3
  <2> QED
    BY <2>1 DEF R
<1> QED
  BY <1>3

\* Min is that of FiniteSetsExt, by which SelectInSeq finds the first one.
LEMMA MinIsLeast ==
  ASSUME NEW T, T \subseteq Nat, T # {}
  PROVE  Min(T) \in T /\ \A m \in T : Min(T) <= m
BY LeastNumber DEF Min

-----------------------------------------------------------------------------
(* The infos *)

\* The predefined ones come first.
LEMMA InfosInOrder ==
  /\ Len(PredefinedInfos) = 3
  /\ Len(CompletionCodeInfos) = 3 + Len(PodFailureSpec)
  /\ Len(PodFailureSpec) \in Nat
  /\ \A i \in 1 .. 3 : CompletionCodeInfos[i] = PredefinedInfos[i]
  /\ \A i \in 4 .. Len(CompletionCodeInfos) :
       /\ i - 3 \in 1 .. Len(PodFailureSpec)
       /\ CompletionCodeInfos[i] = PodFailureSpec[i - 3]
<1> DEFINE S == CompletionCodeInfo \cup
                {PredefinedInfo(ContainerTransientFailed, Failed({"Transient"})),
                 PredefinedInfo(ContainerTransientConflictFailed, Failed({"Transient", "Conflict"})),
                 PredefinedInfo(ContainerPermanentFailed, Failed({"Permanent"}))}
<1>1. PredefinedInfos \in Seq(S) /\ Len(PredefinedInfos) = 3
  BY DEF PredefinedInfos
<1>2. PodFailureSpec \in Seq(S) /\ Len(PodFailureSpec) \in Nat
  BY PodFailureSpecAssumption DEF IsPodFailureSpec
<1> HIDE DEF S
<1>3. /\ Len(CompletionCodeInfos) = Len(PredefinedInfos) + Len(PodFailureSpec)
      /\ \A i \in 1 .. Len(PredefinedInfos) + Len(PodFailureSpec) :
           CompletionCodeInfos[i] = IF i <= Len(PredefinedInfos) THEN PredefinedInfos[i]
                                    ELSE PodFailureSpec[i - Len(PredefinedInfos)]
  BY <1>1, <1>2, ConcatProperties DEF CompletionCodeInfos
<1> QED
  BY <1>1, <1>2, <1>3

\* The codes by which a container instructs FrameworkController
PredefinedCodes ==
  {ContainerTransientFailed, ContainerTransientConflictFailed, ContainerPermanentFailed}

LEMMA PredefinedInfoOf ==
  /\ \A i \in 1 .. 3 : \E type, code : /\ code \in PredefinedCodes
                                    /\ PredefinedInfos[i] = PredefinedInfo(code, type)
  /\ \A code \in PredefinedCodes : \E i \in 1 .. 3 : \E type :
       PredefinedInfos[i] = PredefinedInfo(code, type)
<1>1. /\ PredefinedInfos[1] = PredefinedInfo(ContainerTransientFailed, Failed({"Transient"}))
      /\ PredefinedInfos[2] =
           PredefinedInfo(ContainerTransientConflictFailed, Failed({"Transient", "Conflict"}))
      /\ PredefinedInfos[3] = PredefinedInfo(ContainerPermanentFailed, Failed({"Permanent"}))
  BY DEF PredefinedInfos
<1> QED
  BY <1>1 DEF PredefinedCodes

\* A predefined info matches the Pods of which a container exited with its code.
LEMMA PredefinedMatches ==
  ASSUME NEW pod, pod.containers \in Seq(ContainerStatus), NEW code \in Nat, NEW type
  PROVE  MatchesInfo(pod, PredefinedInfo(code, type)) <=>
           \E j \in 1 .. Len(pod.containers) :
             pod.containers[j].terminated /\ pod.containers[j].code = code
<1> DEFINE cp == [name |-> AnyString, reason |-> NilRegex, message |-> AnyString,
                  signal |-> NilRange, code |-> Exactly(code)]
           pp == [name |-> NilRegex, reason |-> NilRegex, message |-> NilRegex,
                  containers |-> <<cp>>]
<1>1. ASSUME NEW c \in ContainerStatus
      PROVE  MatchContainerPattern(c, cp) <=> c.terminated /\ c.code = code
  <2>1. c.code \in Nat /\ c.name \in Strings /\ c.message \in Strings
    BY <1>1 DEF ContainerStatus
  <2>2. /\ Finds(cp.name, c.name) /\ Finds(cp.reason, c.reason) /\ Finds(cp.message, c.message)
        /\ InRange(cp.signal, c.signal)
        /\ ~cp.code.isNil
    BY <2>1 DEF Finds, InRange, AnyString, NilRegex, NilRange, Exactly
  <2>3. InRange(cp.code, c.code) <=> c.code = code
    BY <2>1 DEF InRange, Exactly
  <2> HIDE DEF cp
  <2> QED
    BY <2>2, <2>3 DEF MatchContainerPattern
<1>2. pod.containers \in Seq(ContainerStatus)
  OBVIOUS
<1>3. PredefinedInfo(code, type).patterns = {pp}
  BY DEF PredefinedInfo
<1>4. /\ Finds(pp.name, pod.name) /\ Finds(pp.reason, pod.reason) /\ Finds(pp.message, pod.message)
      /\ pp.containers = <<cp>>
  BY DEF Finds, NilRegex
<1> HIDE DEF cp, pp
<1>5. MatchPodPattern(pod, pp) <=>
        \E j \in 1 .. Len(pod.containers) : MatchContainerPattern(pod.containers[j], cp)
  <2>1. 1 .. Len(<<cp>>) = {1} /\ <<cp>>[1] = cp
    OBVIOUS
  <2> QED
    BY <1>4, <2>1 DEF MatchPodPattern
<1>6. \A j \in 1 .. Len(pod.containers) : pod.containers[j] \in ContainerStatus
  BY <1>2
<1> QED
  BY <1>1, <1>3, <1>5, <1>6 DEF MatchesInfo

-----------------------------------------------------------------------------
(* The first match *)

\* Either no info matches, or the result is the first one that does.
LEMMA FirstMatch ==
  ASSUME NEW pod
  PROVE  \/ /\ \A i \in 1 .. Len(CompletionCodeInfos) : ~MatchesInfo(pod, CompletionCodeInfos[i])
            /\ MatchCompletionCodeInfos(pod) = UnmatchedResult(pod)
         \/ \E i \in 1 .. Len(CompletionCodeInfos) :
              /\ MatchesInfo(pod, CompletionCodeInfos[i])
              /\ \A j \in 1 .. Len(CompletionCodeInfos) :
                   MatchesInfo(pod, CompletionCodeInfos[j]) => i <= j
              /\ MatchCompletionCodeInfos(pod)
                   = Result(CompletionCodeInfos[i].code, CompletionCodeInfos[i].type)
<1> DEFINE I == {i \in 1 .. Len(CompletionCodeInfos) : MatchesInfo(pod, CompletionCodeInfos[i])}
           first == IF I # {} THEN Min(I) ELSE 0
<1>1. SelectInSeq(CompletionCodeInfos, LAMBDA info : MatchesInfo(pod, info)) = first
  BY DEF SelectInSeq
<1>2. MatchCompletionCodeInfos(pod) =
        IF first = 0 THEN UnmatchedResult(pod)
        ELSE Result(CompletionCodeInfos[first].code, CompletionCodeInfos[first].type)
  BY <1>1 DEF MatchCompletionCodeInfos
<1>3. I \subseteq Nat /\ 0 \notin I
  BY InfosInOrder
<1>4. CASE I = {}
  BY <1>2, <1>4
<1>5. CASE I # {}
  <2>1. Min(I) \in I /\ \A j \in I : Min(I) <= j
    BY <1>3, <1>5, MinIsLeast
  <2>2. first \in I /\ first # 0 /\ \A j \in I : first <= j
    BY <1>3, <1>5, <2>1
  <2> QED
    BY <1>2, <2>2
<1> QED
  BY <1>4, <1>5

\* Whatever is configured, containers that exited with the same predefined code get
\* what is predefined for it.
LEMMA PredefinedDecides ==
  ASSUME NEW pod, pod.containers \in Seq(ContainerStatus), NEW i \in 1 .. 3,
         \E k \in 1 .. Len(pod.containers) : pod.containers[k].terminated,
         \A k \in 1 .. Len(pod.containers) :
           pod.containers[k].terminated => pod.containers[k].code = PredefinedInfos[i].code
  PROVE  MatchCompletionCodeInfos(pod) = Result(PredefinedInfos[i].code, PredefinedInfos[i].type)
<1>1. \A j \in 1 .. 3 : MatchesInfo(pod, PredefinedInfos[j]) <=>
        \E k \in 1 .. Len(pod.containers) :
          pod.containers[k].terminated /\ pod.containers[k].code = PredefinedInfos[j].code
  <2> TAKE j \in 1 .. 3
  <2>1. PICK type, code : /\ code \in PredefinedCodes
                          /\ PredefinedInfos[j] = PredefinedInfo(code, type)
    BY PredefinedInfoOf
  <2>2. code \in Nat /\ PredefinedInfos[j].code = code
    BY <2>1 DEF PredefinedCodes, ContainerTransientFailed, ContainerTransientConflictFailed,
       ContainerPermanentFailed, PredefinedInfo
  <2> QED
    BY <2>1, <2>2, PredefinedMatches
<1>2. \A j \in 1 .. 3 : PredefinedInfos[j].code = PredefinedInfos[i].code => j = i
  BY DEF PredefinedInfos, PredefinedInfo, ContainerTransientFailed,
         ContainerTransientConflictFailed, ContainerPermanentFailed
<1>3. \A j \in 1 .. 3 : MatchesInfo(pod, PredefinedInfos[j]) <=> j = i
  BY <1>1, <1>2
<1>4. i \in 1 .. Len(CompletionCodeInfos) /\ MatchesInfo(pod, CompletionCodeInfos[i])
  BY <1>3, InfosInOrder
<1>5. PICK first \in 1 .. Len(CompletionCodeInfos) :
        /\ MatchesInfo(pod, CompletionCodeInfos[first])
        /\ first <= i
        /\ MatchCompletionCodeInfos(pod)
             = Result(CompletionCodeInfos[first].code, CompletionCodeInfos[first].type)
  BY <1>4, FirstMatch
<1>6. first \in 1 .. 3
  BY <1>5, InfosInOrder
<1>7. first = i
  BY <1>3, <1>5, <1>6, InfosInOrder
<1> QED
  BY <1>5, <1>7, InfosInOrder

-----------------------------------------------------------------------------
(* The last failed container *)

\* i is the last failed one of the first n containers.
IsLast(containers, i, n) ==
  /\ i \in 1 .. n /\ HasFailed(containers[i])
  /\ \A j \in 1 .. n :
       HasFailed(containers[j]) =>
         /\ containers[j].finished <= containers[i].finished
         /\ j < i => containers[j].finished < containers[i].finished

LEMMA LastFailedExists ==
  ASSUME NEW containers \in Seq(ContainerStatus), FailedContainers(containers) # {}
  PROVE  LastFailed(containers) # {}
<1> DEFINE Failing(n) == \E j \in 1 .. n : HasFailed(containers[j])
           T == {n \in 0 .. Len(containers) : Failing(n) /\ ~ \E i \in 1 .. n : IsLast(containers, i, n)}
<1>1. Len(containers) \in Nat /\ \A i \in 1 .. Len(containers) : containers[i].finished \in Nat
  <2>1. \A c \in ContainerStatus : c.finished \in Nat
    BY DEF ContainerStatus
  <2> QED
    BY <2>1
<1>2. T = {}
  <2> SUFFICES ASSUME T # {} PROVE FALSE
    OBVIOUS
  <2>1. T \subseteq Nat
    BY <1>1
  <2>2. PICK n \in T : \A m \in T : n <= m
    BY <2>1, LeastNumber
  <2>3. n \in 1 .. Len(containers) /\ Failing(n) /\ \A i \in 1 .. n : ~IsLast(containers, i, n)
    BY <1>1, <2>2
  <2>4. n - 1 \in 0 .. Len(containers) /\ n - 1 \notin T
    BY <1>1, <2>1, <2>2, <2>3
  <2>5. \A j \in 1 .. n : j = n \/ j \in 1 .. n - 1
    BY <2>3
  <2>6. CASE ~Failing(n - 1)
    <3>1. HasFailed(containers[n]) /\ \A j \in 1 .. n : HasFailed(containers[j]) => j = n
      BY <2>3, <2>5, <2>6
    <3>2. IsLast(containers, n, n)
      BY <1>1, <2>3, <3>1 DEF IsLast
    <3> QED
      BY <2>3, <3>2
  <2>7. CASE Failing(n - 1)
    <3>1. PICK i \in 1 .. n - 1 : IsLast(containers, i, n - 1)
      BY <2>4, <2>7
    <3>2. /\ i \in 1 .. n /\ i < n /\ n \in 1 .. n
          /\ containers[i].finished \in Nat /\ containers[n].finished \in Nat
      BY <1>1, <2>3
    <3>3. CASE ~HasFailed(containers[n]) \/ containers[n].finished <= containers[i].finished
      <4>1. ASSUME NEW j \in 1 .. n, HasFailed(containers[j])
            PROVE  /\ containers[j].finished <= containers[i].finished
                   /\ j < i => containers[j].finished < containers[i].finished
        <5>1. CASE j = n
          BY <3>2, <3>3, <4>1, <5>1
        <5>2. CASE j \in 1 .. n - 1
          BY <3>1, <4>1, <5>2 DEF IsLast
        <5> QED
          BY <2>5, <4>1, <5>1, <5>2
      <4>2. IsLast(containers, i, n)
        BY <3>1, <3>2, <4>1 DEF IsLast
      <4> QED
        BY <2>3, <3>2, <4>2
    <3>4. CASE HasFailed(containers[n]) /\ containers[i].finished < containers[n].finished
      <4>1. ASSUME NEW j \in 1 .. n - 1, HasFailed(containers[j])
            PROVE  containers[j].finished < containers[n].finished
        <5>1. j \in 1 .. Len(containers)
          BY <2>3, <4>1
        <5>2. containers[j].finished \in Nat
          BY <1>1, <5>1
        <5>3. containers[j].finished <= containers[i].finished
          BY <3>1, <4>1 DEF IsLast
        <5> QED
          BY <3>2, <3>4, <5>2, <5>3
      <4>2. ASSUME NEW j \in 1 .. n, HasFailed(containers[j])
            PROVE  /\ containers[j].finished <= containers[n].finished
                   /\ j < n => containers[j].finished < containers[n].finished
        <5>1. j = n \/ j \in 1 .. n - 1
          BY <2>5, <4>2
        <5>2. containers[j].finished \in Nat
          BY <1>1, <2>3, <4>2
        <5> QED
          BY <3>2, <4>1, <4>2, <5>1, <5>2
      <4>3. IsLast(containers, n, n)
        BY <3>2, <3>4, <4>2 DEF IsLast
      <4> QED
        BY <2>3, <3>2, <4>3
    <3> QED
      BY <3>2, <3>3, <3>4
  <2> QED
    BY <2>6, <2>7
<1>3. Failing(Len(containers))
  BY DEF FailedContainers
<1>4. PICK i \in 1 .. Len(containers) : IsLast(containers, i, Len(containers))
  BY <1>1, <1>2, <1>3
<1>5. i \in LastFailed(containers)
  BY <1>4 DEF IsLast, LastFailed, FailedContainers
<1> QED
  BY <1>5

\* Without a match, the code says that no container failed, or it is that of a failed
\* container than which none failed later.
LEMMA UnmatchedCode ==
  ASSUME NEW pod, pod.containers \in Seq(ContainerStatus)
  PROVE  \/ /\ FailedContainers(pod.containers) = {}
            /\ UnmatchedResult(pod) = OfController(PodFailedWithoutFailedContainer)
         \/ \E i \in FailedContainers(pod.containers) :
              /\ UnmatchedResult(pod) = Result(pod.containers[i].code, Failed({}))
              /\ \A j \in FailedContainers(pod.containers) :
                   pod.containers[j].finished <= pod.containers[i].finished
<1>1. CASE FailedContainers(pod.containers) = {}
  BY <1>1 DEF UnmatchedResult
<1>2. CASE FailedContainers(pod.containers) # {}
  <2> DEFINE i == CHOOSE i \in LastFailed(pod.containers) : TRUE
  <2>1. i \in LastFailed(pod.containers)
    BY <1>2, LastFailedExists
  <2>2. UnmatchedResult(pod) = Result(pod.containers[i].code, Failed({}))
    BY <1>2 DEF UnmatchedResult
  <2> HIDE DEF i
  <2> QED
    BY <2>1, <2>2 DEF LastFailed
<1> QED
  BY <1>1, <1>2

-----------------------------------------------------------------------------
(* What the user manual promises *)

\* Whatever is configured and however many containers ended in whatever order, the
\* code that a failed Pod is matched to (completion.go, MatchCompletionCodeInfos) is a
\* predefined one by which a container instructs the RetryPolicy, if there is one, and
\* else a configured one, or that of the last failed container, or the one that says
\* that none failed; and none of those is PodCreationTransientError.
THEOREM MatchedAsDocumented ==
  ASSUME NEW pod, pod.containers \in Seq(ContainerStatus)
  PROVE  /\ IsAsDocumented(pod.containers, MatchCompletionCodeInfos(pod).code)
         /\ MatchCompletionCodeInfos(pod).code # PodCreationTransientError
<1> DEFINE containers == pod.containers
           code == MatchCompletionCodeInfos(pod).code
           ended == {i \in 1 .. Len(containers) : containers[i].terminated}
           codes == {containers[i].code : i \in ended}
           predefined == codes \cap PredefinedCodes
<1>1. \A i \in 1 .. Len(containers) : containers[i].code \in Nat
  <2>1. \A c \in ContainerStatus : c.code \in Nat
    BY DEF ContainerStatus
  <2>2. containers \in Seq(ContainerStatus)
    OBVIOUS
  <2> QED
    BY <2>1, <2>2
<1>2. {PredefinedInfos[i].code : i \in 1 .. Len(PredefinedInfos)} = PredefinedCodes
  <2>1. \A c, type : PredefinedInfo(c, type).code = c
    BY DEF PredefinedInfo
  <2> QED
    BY <2>1, InfosInOrder, PredefinedInfoOf
<1>3. PredefinedCodes \subseteq Nat /\ \A c \in PredefinedCodes : c >= 200
  BY DEF PredefinedCodes, ContainerTransientFailed, ContainerTransientConflictFailed,
         ContainerPermanentFailed
<1>4. \A c \in PredefinedCodes : \A type :
        /\ PredefinedInfo(c, type).code = c
        /\ MatchesInfo(pod, PredefinedInfo(c, type)) <=> c \in codes
  BY <1>3, PredefinedMatches DEF PredefinedInfo
<1>5. \A i \in FailedContainers(containers) :
        i \in ended /\ containers[i].code # 0
  BY DEF FailedContainers, HasFailed
<1>6. \A i \in ended : i \in FailedContainers(containers) \/ containers[i].code = 0
  BY DEF FailedContainers, HasFailed
<1> DEFINE Decides == \/ code < 0 /\ codes \subseteq {0}
                      \/ \E i \in 1 .. Len(CompletionCodeInfos) : code = CompletionCodeInfos[i].code
                      \/ \E i \in ended :
                           /\ code = containers[i].code /\ code # 0
                           /\ \A j \in ended : \/ containers[j].code = 0
                                               \/ containers[j].finished <= containers[i].finished
<1>7. CASE /\ \A i \in 1 .. Len(CompletionCodeInfos) : ~MatchesInfo(pod, CompletionCodeInfos[i])
           /\ MatchCompletionCodeInfos(pod) = UnmatchedResult(pod)
  <2>1. predefined = {}
    <3>1. \A c \in PredefinedCodes : \E type : ~MatchesInfo(pod, PredefinedInfo(c, type))
      BY <1>7, InfosInOrder, PredefinedInfoOf
    <3> QED
      BY <1>4, <3>1
  <2>2. ASSUME FailedContainers(containers) = {},
               UnmatchedResult(pod) = OfController(PodFailedWithoutFailedContainer)
        PROVE  predefined = {} /\ Decides /\ code # PodCreationTransientError
    <3>1. code = -300
      BY <1>7, <2>2 DEF OfController, Result, PodFailedWithoutFailedContainer
    <3>2. codes \subseteq {0}
      BY <1>6, <2>2
    <3> QED
      BY <2>1, <3>1, <3>2 DEF PodCreationTransientError
  <2>3. ASSUME NEW i \in FailedContainers(containers),
               UnmatchedResult(pod) = Result(containers[i].code, Failed({})),
               \A j \in FailedContainers(containers) :
                 containers[j].finished <= containers[i].finished
        PROVE  predefined = {} /\ Decides /\ code # PodCreationTransientError
    <3>1. code = containers[i].code
      BY <1>7, <2>3 DEF Result
    <3>2. code \in Nat
      BY <1>1, <1>5, <3>1
    <3>3. code # PodCreationTransientError
      BY <3>2 DEF PodCreationTransientError
    <3> HIDE DEF code
    <3> QED
      BY <1>5, <1>6, <2>1, <2>3, <3>1, <3>3
  <2>4. predefined = {} /\ Decides /\ code # PodCreationTransientError
    BY <2>1, <2>2, <2>3, UnmatchedCode
  <2> QED
    BY <1>2, <2>4 DEF IsAsDocumented
<1>8. ASSUME NEW i \in 1 .. Len(CompletionCodeInfos),
             MatchesInfo(pod, CompletionCodeInfos[i]),
             \A j \in 1 .. Len(CompletionCodeInfos) :
               MatchesInfo(pod, CompletionCodeInfos[j]) => i <= j,
             MatchCompletionCodeInfos(pod)
               = Result(CompletionCodeInfos[i].code, CompletionCodeInfos[i].type)
      PROVE  /\ predefined # {} => code \in predefined
             /\ Decides
             /\ code # PodCreationTransientError
  <2>1. code = CompletionCodeInfos[i].code
    BY <1>8 DEF Result
  <2>2. CASE i \in 1 .. 3
    <3>1. PICK type, c : /\ c \in PredefinedCodes
                         /\ CompletionCodeInfos[i] = PredefinedInfo(c, type)
      BY <2>2, InfosInOrder, PredefinedInfoOf
    <3>2. code = c /\ c \in PredefinedCodes /\ c \in codes
      BY <1>4, <1>8, <2>1, <3>1
    <3>3. code # PodCreationTransientError
      BY <1>3, <3>2 DEF PodCreationTransientError
    <3> QED
      BY <2>1, <3>2, <3>3
  <2>3. CASE i \notin 1 .. 3
    <3>1. i \in 4 .. Len(CompletionCodeInfos)
      BY <2>3, InfosInOrder
    <3>2. predefined = {}
      <4> SUFFICES ASSUME NEW c \in predefined PROVE FALSE
        OBVIOUS
      <4>1. PICK j \in 1 .. 3 : \E type : PredefinedInfos[j] = PredefinedInfo(c, type)
        BY PredefinedInfoOf
      <4>2. /\ j \in 1 .. Len(CompletionCodeInfos) /\ MatchesInfo(pod, CompletionCodeInfos[j])
        BY <1>4, <4>1, InfosInOrder
      <4> QED
        BY <1>8, <3>1, <4>2
    <3>3. i - 3 \in 1 .. Len(PodFailureSpec) /\ code = PodFailureSpec[i - 3].code
      BY <2>1, <3>1, InfosInOrder
    <3>4. code \notin -999 .. 0
      BY <3>3, PodFailureSpecAssumption DEF IsPodFailureSpec
    <3>5. PodCreationTransientError \in -999 .. 0
      BY DEF PodCreationTransientError
    <3> QED
      BY <2>1, <3>2, <3>4, <3>5
  <2> QED
    BY <2>2, <2>3
<1>9. ASSUME NEW i \in 1 .. Len(CompletionCodeInfos),
             MatchesInfo(pod, CompletionCodeInfos[i]),
             \A j \in 1 .. Len(CompletionCodeInfos) :
               MatchesInfo(pod, CompletionCodeInfos[j]) => i <= j,
             MatchCompletionCodeInfos(pod)
               = Result(CompletionCodeInfos[i].code, CompletionCodeInfos[i].type)
      PROVE  IsAsDocumented(containers, code) /\ code # PodCreationTransientError
  BY <1>2, <1>8, <1>9 DEF IsAsDocumented
<1> QED
  BY <1>7, <1>9, FirstMatch

\* The code of an error that is not of a container says so.
LEMMA OfControllerAsDocumented ==
  ASSUME NEW code \in Int, code < 0
  PROVE  IsAsDocumented(<<>>, code)
<1>1. 1 .. Len(<<>>) = {}
  OBVIOUS
<1> QED
  BY <1>1 DEF IsAsDocumented
=============================================================================
