---------------------------- MODULE VersionProofs ----------------------------
(***************************************************************************)
(* Proofs about the choice of the benchmark, for any version mapping, any  *)
(* cluster and flags, and any number of tries.                             *)
(***************************************************************************)
EXTENDS MCVersion, TLAPS

-----------------------------------------------------------------------------
(* Versions and tables.                                                    *)

\* What a version is, without the types of its texts: the provers do not know
\* which strings there are.
IsVersion(v) ==
  v.minor \in Nat /\ v = [lead |-> v.lead, minor |-> v.minor, tail |-> v.tail]

LEMMA MinorTyped == \A v : IsVersion(v) => v.minor \in Nat
  BY DEF IsVersion

LEMMA VersionsTyped ==
  /\ IsVersion(NoVersion)
  /\ IsVersion(Default)
  /\ IsVersion(Hollow)
  /\ \A m \in Nat : IsVersion(K8s(m))
  /\ \A v \in OcpValid : IsVersion(v) /\ v # NoVersion
  /\ \A v \in Versions : IsVersion(v)
<1>1. IsVersion(NoVersion) /\ IsVersion(Hollow) /\ IsVersion(Default)
  BY DEF V, NoVersion, Hollow, K8s, Default, IsVersion
<1>2. \A m \in Nat : IsVersion(K8s(m))
  BY DEF V, K8s, IsVersion
<1>3. \A v \in OcpValid : IsVersion(v) /\ v # NoVersion
  <2>1. ASSUME NEW l, NEW m \in Nat \ {0}, NEW t
        PROVE  IsVersion(V(l, m, t)) /\ V(l, m, t) # NoVersion
    <3>1. V(l, m, t).minor # NoVersion.minor
      BY DEF V, NoVersion
    <3> QED BY <3>1 DEF V, IsVersion
  <2> DEFINE Fine(v) == IsVersion(v) /\ v # NoVersion
  <2>2. Fine(V("3", 10, None))
    BY <2>1
  <2>3. Fine(V("4", 1, None))
    BY <2>1
  <2>4. Fine(V("4", 11, None)) /\ Fine(V("4", 13, None)) /\ Fine(V("4", 14, None))
    BY <2>1
  <2> QED BY <2>2, <2>3, <2>4 DEF OcpValid
<1>4. \A v \in Versions : IsVersion(v)
  BY DEF Versions, IsVersion
<1> QED BY <1>1, <1>2, <1>3, <1>4

\* A version is counted down by one, or given up.
LEMMA DecrementTyped ==
  ASSUME NEW v, IsVersion(v)
  PROVE  /\ IsVersion(Decrement(v))
         /\ v.minor > 1 => /\ Decrement(v).lead = v.lead
                           /\ Decrement(v).tail = v.tail
                           /\ Decrement(v).minor = v.minor - 1
         /\ ~(v.minor > 1) => Decrement(v) = NoVersion
<1>1. CASE v.minor > 1
  <2>1. Decrement(v) = [lead |-> v.lead, minor |-> v.minor - 1, tail |-> v.tail]
    BY <1>1 DEF IsVersion, Decrement
  <2> QED BY <1>1, <2>1 DEF IsVersion
<1>2. CASE ~(v.minor > 1)
  BY <1>2, VersionsTyped DEF IsVersion, Decrement
<1> QED BY <1>1, <1>2

\* A set of versions that may be looked for.
AreVersions(S) == \A w \in S : IsVersion(w) /\ w # NoVersion

LEMMA SameVersion ==
  ASSUME NEW v, NEW w, IsVersion(v), IsVersion(w),
         v.lead = w.lead, v.minor = w.minor, v.tail = w.tail
  PROVE  v = w
  BY DEF IsVersion

\* Below "no version" there is none.
LEMMA NothingBelow ==
  ASSUME NEW S, AreVersions(S)
  PROVE  Below(NoVersion, S, 0) = {}
<1>1. NoVersion = [lead |-> None, minor |-> 0, tail |-> None]
  BY DEF NoVersion, V
<1>2. ASSUME NEW w \in S, w.lead = None, w.tail = None, w.minor <= 0 PROVE FALSE
  <2>1. w.minor \in Nat
    BY MinorTyped DEF AreVersions
  <2>2. w.minor = 0
    BY <1>2, <2>1
  <2> QED BY <1>1, <1>2, <2>2, VersionsTyped, SameVersion DEF AreVersions
<1> QED BY <1>1, <1>2 DEF Below

\* Counting down from a version that is not looked for passes none by.
LEMMA DecrementBelow ==
  ASSUME NEW S, AreVersions(S), NEW v, IsVersion(v), v \notin S,
         NEW low \in Nat, v.minor > 1
  PROVE  Below(Decrement(v), S, low) = Below(v, S, low)
<1>1. ASSUME NEW w \in S, w.lead = v.lead, w.tail = v.tail
      PROVE  w.minor # v.minor
  BY <1>1, SameVersion DEF AreVersions
<1>2. \A w \in S : w.minor \in Nat
  BY MinorTyped DEF AreVersions
<1> QED BY <1>1, <1>2, DecrementTyped, MinorTyped DEF Below

\* The last number counts, and 0 is only looked at if it is the first.
LEMMA LastBelow ==
  ASSUME NEW S, AreVersions(S), NEW v, IsVersion(v), v \notin S,
         NEW low \in Nat, low >= v.minor
  PROVE  Below(v, S, low) = {}
<1>1. ASSUME NEW w \in S, w.lead = v.lead, w.tail = v.tail
      PROVE  w.minor # v.minor
  BY <1>1, SameVersion DEF AreVersions
<1>2. \A w \in S : w.minor \in Nat
  BY MinorTyped DEF AreVersions
<1> QED BY <1>1, <1>2, MinorTyped DEF Below

\* A version that is looked for is the highest at or below itself.
LEMMA HighestBelow ==
  ASSUME NEW S, AreVersions(S), NEW v \in S, NEW low \in Nat, low <= v.minor
  PROVE  /\ Below(v, S, low) # {}
         /\ Highest(Below(v, S, low)) = v
<1> DEFINE B == Below(v, S, low)
<1>1. v \in B /\ \A u \in B : u.minor <= v.minor
  BY MinorTyped DEF Below, AreVersions
<1>2. Highest(B) \in B /\ \A u \in B : u.minor <= Highest(B).minor
  BY <1>1 DEF Highest
<1>3. \A u \in B : IsVersion(u) /\ u.lead = v.lead /\ u.tail = v.tail
  BY DEF Below, AreVersions
<1>4. Highest(B).minor = v.minor
  BY <1>1, <1>2, <1>3, MinorTyped
<1>5. Highest(B) = v
  BY <1>1, <1>2, <1>3, <1>4, SameVersion
<1> QED BY <1>1, <1>5

\* A step of counting down does not change what the nearest version is, and
\* where counting down ends the nearest is known.
LEMMA NearestLower ==
  ASSUME NEW v, IsVersion(v), setup.config \in DOMAIN Mappings
  PROVE  /\ v \in DOMAIN Mapping => Nearest(v) = Mapping[v]
         /\ v \notin DOMAIN Mapping /\ v \notin {Default, NoVersion} =>
              Nearest(Decrement(v)) = Nearest(v)
         /\ v \notin DOMAIN Mapping /\ v \in {Default, NoVersion} =>
              Nearest(v) = None
         /\ DOMAIN Mapping = {} => Nearest(v) = None
<1> DEFINE M == DOMAIN Mapping
<1>1. AreVersions(M)
  BY MappingsAssumption, VersionsTyped DEF Mapping, AreVersions
<1>2. v.minor \in Nat /\ Floor(v) \in Nat /\ Floor(v) <= v.minor
  <2>1. v.minor \in Nat
    BY MinorTyped
  <2>2. \/ v.minor >= 18 /\ Floor(v) = 18
        \/ v.minor = 0 /\ Floor(v) = 0
        \/ v.minor # 0 /\ Floor(v) = 1
    BY <2>1 DEF Floor
  <2> QED BY <2>1, <2>2
<1>3. Default = [lead |-> "1", minor |-> 18, tail |-> None]
      /\ NoVersion = [lead |-> None, minor |-> 0, tail |-> None]
  BY DEF Default, NoVersion, K8s, V
<1>4. v \in M => Nearest(v) = Mapping[v]
  BY <1>1, <1>2, HighestBelow DEF Nearest
<1>5. ASSUME v \notin M, v \notin {Default, NoVersion}
      PROVE  Nearest(Decrement(v)) = Nearest(v)
  <2>1. CASE v.minor > 1
    <3>1. Floor(Decrement(v)) = Floor(v)
      <4>1. ~(v.lead = "1" /\ v.tail = None /\ v.minor = 18)
        BY <1>3, <1>5 DEF IsVersion
      <4>2. /\ Decrement(v).lead = v.lead
            /\ Decrement(v).tail = v.tail
            /\ Decrement(v).minor = v.minor - 1
        BY <2>1, DecrementTyped
      <4>3. CASE v.lead = "1" /\ v.tail = None
        <5>1. v.minor >= 18 <=> v.minor - 1 >= 18
          BY <1>2, <4>1, <4>3
        <5> QED BY <1>2, <2>1, <4>2, <4>3, <5>1 DEF Floor
      <4>4. CASE ~(v.lead = "1" /\ v.tail = None)
        BY <1>2, <2>1, <4>2, <4>4 DEF Floor
      <4> QED BY <4>3, <4>4
    <3>2. Below(Decrement(v), M, Floor(v)) = Below(v, M, Floor(v))
      BY <1>1, <1>2, <1>5, <2>1, DecrementBelow
    <3> QED BY <3>1, <3>2 DEF Nearest
  <2>2. CASE ~(v.minor > 1)
    <3>1. Decrement(v) = NoVersion /\ Floor(NoVersion) = 0
      BY <1>3, <2>2, DecrementTyped DEF Floor
    <3>2. Nearest(NoVersion) = None
      BY <1>1, <3>1, NothingBelow DEF Nearest
    <3>3. Floor(v) >= v.minor
      <4>1. v.minor \in {0, 1}
        BY <1>2, <2>2
      <4>2. Floor(v) = v.minor
        BY <4>1 DEF Floor
      <4> QED BY <1>2, <4>2
    <3>4. Nearest(v) = None
      BY <1>1, <1>2, <1>5, <3>3, LastBelow DEF Nearest
    <3> QED BY <3>1, <3>2, <3>4
  <2> QED BY <2>1, <2>2
<1>6. v \notin M /\ v \in {Default, NoVersion} => Nearest(v) = None
  <2>1. v \in {Default, NoVersion} => Floor(v) >= v.minor
    <3>1. Floor(Default) = 18 /\ Default.minor = 18
      BY <1>3 DEF Floor
    <3>2. Floor(NoVersion) = 0 /\ NoVersion.minor = 0
      BY <1>3 DEF Floor
    <3> QED BY <3>1, <3>2
  <2> QED BY <1>1, <1>2, <2>1, LastBelow DEF Nearest
<1>7. M = {} => Nearest(v) = None
  BY DEF Nearest, Below
<1> QED BY <1>4, <1>5, <1>6, <1>7

-----------------------------------------------------------------------------
(***************************************************************************)
(* The invariant.  The properties speak of the end; what carries them      *)
(* there is, of the tries, how many looks there were; of what is detected, *)
(* where it comes from; of the counting down, that it does not pass by the *)
(* nearest version.                                                        *)
(***************************************************************************)
\* The types of the variables, but for those of texts.
Typed ==
  /\ SetupOK(setup)
  /\ refused \in Nat
  /\ tries \in 0..MaxTries
  /\ look \in {"platform", "version"}
  /\ pc \in {"start", "ocp", "rke", "aks", "api", "tools", "known", "select",
             "map", "end"}
  /\ pc \in {"ocp", "map"} => IsVersion(kv)
  /\ pc = "known" => IsVersion(kube.version)

\* The version is asked for in two looks, each of which has its tries.
Looks ==
  /\ refused <= tries + (IF look = "version" THEN MaxTries ELSE 0)
  /\ pc \in {"start", "ocp", "select"} => look = "platform"
  /\ pc \in {"start", "ocp"} => refused = 0
  /\ pc \in {"rke", "aks", "api"} => tries < MaxTries

\* With a flag there is but one look, and nothing that it detects is used.
FlagsWin ==
  Flagged =>
    /\ look = "platform"
    /\ detected = Nothing
    /\ setup.benchmark # None /\ pc = "map" => FALSE
    /\ setup.benchmark # None /\ pc = "end" =>
         result = IF setup.version = NoVersion THEN setup.benchmark ELSE None

\* The versions that getKubeVersion may answer with.
Versionable == {K8s(setup.minor), K8s(setup.kubelet), Default, Hollow}

\* A platform is named only by the cluster itself, with its own version.
OwnPlatform(p) ==
  \E name \in PlatformNames : p = [name |-> name, version |-> K8s(setup.minor)]

OcpBelow == Below(setup.oc, OcpValid, 1)

OcpFound(p) ==
  /\ OcpBelow # {}
  /\ Highest(OcpBelow) \in OcpValid
  /\ p = [name |-> "ocp", version |-> Highest(OcpBelow)]

\* Until the platform is known, there is none; then it is that of oc or what
\* the cluster says.
Platforms ==
  /\ rke => "rke" \in setup.marks
  /\ aks => "aks" \in setup.marks
  /\ pc = "known" =>
       /\ kube.name # None => OwnPlatform(kube)
       /\ kube.version \in Versionable
  /\ platform.name # None =>
       OcpFound(platform) \/ OwnPlatform(platform)

\* What is detected has its evidence.
Evidence ==
  /\ pc \notin {"map", "end"} => detected = Nothing
  /\ ~Flagged =>
       /\ pc = "map" => detected.benchmark = None
       /\ pc \in {"map", "end"} =>
            /\ detected.benchmark # None =>
                 /\ detected.version = NoVersion
                 /\ result = detected.benchmark
                 /\ result \in {OcpOf} \cup {Of(name) : name \in PlatformNames}
            /\ detected.benchmark = None => detected.version \in Versionable

\* While oc's version is counted down, nothing valid is passed by; where
\* something is valid, the cluster is not asked.
Openshift ==
  /\ pc = "ocp" => Below(kv, OcpValid, 1) = OcpBelow
  /\ pc \in {"rke", "aks", "api", "tools", "known"} => OcpBelow = {}
  /\ pc = "select" => OcpBelow = {} \/ OcpFound(platform)
  /\ pc = "map" => Flagged \/ OcpBelow = {}

\* While the version is counted down, nothing mapped is passed by.
Counting ==
  pc = "map" =>
    /\ setup.version # NoVersion => Nearest(kv) = Nearest(setup.version)
    /\ detected.version # NoVersion => Nearest(kv) = Nearest(detected.version)

IInv ==
  Typed /\ Looks /\ FlagsWin /\ Platforms /\ Evidence /\ Openshift /\ Counting /\ NearestBelow

LEMMA SetupTyped ==
  ASSUME SetupOK(setup)
  PROVE  /\ IsVersion(setup.version)
         /\ IsVersion(setup.oc)
         /\ setup.minor \in Nat /\ setup.kubelet \in Nat
         /\ setup.config \in DOMAIN Mappings
         /\ setup.words \in Seq(Words)
         /\ setup.marks \subseteq {"rke", "aks"}
  BY VersionsTyped DEF SetupOK

\* What the gitVersion is read as, by the marks that were seen.
LEMMA NamesRead ==
  ASSUME SetupOK(setup)
  PROVE  /\ setup.words # <<>> /\ (rke \/ aks) =>
              NameIn(GitVersion) = Head(setup.words).text
         /\ ~rke /\ ~aks => NameIn(GitVersion) = NameIn(setup.words)
         /\ setup.words = <<>> =>
              NameIn(GitVersion) = IF rke THEN (IF aks THEN "rancher1" ELSE "rancher")
                                   ELSE IF aks THEN "aks" ELSE None
         /\ Len(setup.words) > 1 => NameIn(setup.words) = Head(setup.words).text
         /\ Len(setup.words) = 1 => NameIn(setup.words) = Head(setup.words).cut
         /\ setup.words = <<>> => NameIn(setup.words) = None
         /\ \/ setup.words = <<>>
            \/ setup.words # <<>> /\ Len(setup.words) = 1
            \/ setup.words # <<>> /\ Len(setup.words) > 1
         /\ setup.words = <<>> <=> Len(setup.words) = 0
         /\ Len(setup.words) \in Nat
<1> DEFINE w == setup.words
           a == Appended
           All == Words \cup {Rancher1, Aks1}
<1>1. /\ w \in Seq(All) /\ Len(w) \in Nat
      /\ w = <<>> <=> Len(w) = 0
  <2>1. w \in Seq(Words)
    BY SetupTyped
  <2> HIDE DEF w
  <2>2. w \in [1..Len(w) -> Words] /\ Len(w) \in Nat
    BY <2>1
  <2> QED BY <2>1, <2>2
<1>2. a \in Seq(All) /\ Len(a) \in Nat /\ (rke \/ aks => Len(a) > 0)
  <2>1. Rancher1 \in All /\ Aks1 \in All
    OBVIOUS
  <2> HIDE DEF All
  <2> QED BY <2>1 DEF Appended
<1>3. ASSUME w # <<>>, rke \/ aks
      PROVE  NameIn(GitVersion) = Head(w).text
  <2>1. Len(w) >= 1 /\ Len(w \o a) = Len(w) + Len(a) /\ Head(w \o a) = Head(w)
    BY <1>1, <1>2, <1>3
  <2>2. Len(w \o a) > 1
    BY <1>1, <1>2, <1>3, <2>1
  <2> QED BY <2>1, <2>2 DEF NameIn, GitVersion
<1>4. ~rke /\ ~aks => GitVersion = w
  BY <1>1 DEF GitVersion, Appended
<1>5. ASSUME w = <<>>
      PROVE  NameIn(GitVersion) = IF rke THEN (IF aks THEN "rancher1" ELSE "rancher")
                                  ELSE IF aks THEN "aks" ELSE None
  <2>1. GitVersion = a
    BY <1>2, <1>5 DEF GitVersion
  <2>2. CASE rke /\ aks
    <3>1. Len(a) = 2 /\ Head(a) = Rancher1
      BY <1>1, <2>2 DEF Appended
    <3> QED BY <2>1, <2>2, <3>1 DEF NameIn, Rancher1, W
  <2>3. CASE rke /\ ~aks
    <3>1. Len(a) = 1 /\ Head(a) = Rancher1
      BY <1>1, <2>3 DEF Appended
    <3> QED BY <2>1, <2>3, <3>1 DEF NameIn, Rancher1, W
  <2>4. CASE ~rke /\ aks
    <3>1. Len(a) = 1 /\ Head(a) = Aks1
      BY <1>1, <2>4 DEF Appended
    <3> QED BY <2>1, <2>4, <3>1 DEF NameIn, Aks1, W
  <2>5. CASE ~rke /\ ~aks
    BY <1>4, <1>5, <2>5 DEF NameIn
  <2> QED BY <2>2, <2>3, <2>4, <2>5
<1>6. /\ Len(w) > 1 => NameIn(w) = Head(w).text
      /\ Len(w) = 1 => NameIn(w) = Head(w).cut
      /\ w = <<>> => NameIn(w) = None
  <2>1. Len(w) > 1 => NameIn(w) = Head(w).text
    BY <1>1 DEF NameIn
  <2>2. Len(w) = 1 => NameIn(w) = Head(w).cut
    BY <1>1 DEF NameIn
  <2>3. w = <<>> => NameIn(w) = None
    BY <1>1 DEF NameIn
  <2> QED BY <2>1, <2>2, <2>3
<1>7. \/ w = <<>>
      \/ w # <<>> /\ Len(w) = 1
      \/ w # <<>> /\ Len(w) > 1
  <2>1. \A n \in Nat : n = 0 \/ n = 1 \/ n > 1
    OBVIOUS
  <2>2. Len(w) = 0 \/ Len(w) = 1 \/ Len(w) > 1
    BY <1>1, <2>1
  <2>3. Len(w) = 1 => Len(w) # 0
    OBVIOUS
  <2>4. Len(w) > 1 => Len(w) # 0
    OBVIOUS
  <2> QED BY <1>1, <2>2, <2>3, <2>4, Zenon
<1>8. ~rke /\ ~aks => NameIn(GitVersion) = NameIn(w)
  BY <1>4
<1> QED BY <1>1, <1>3, <1>5, <1>6, <1>7, <1>8

\* Whatever is read in it is one of the names that the cluster may be told by.
LEMMA NamesKnown ==
  ASSUME SetupOK(setup), rke => "rke" \in setup.marks, aks => "aks" \in setup.marks
  PROVE  /\ NameIn(setup.words) \in PlatformNames
         /\ NameIn(GitVersion) \in PlatformNames
<1>1. /\ None \in PlatformNames
      /\ \A w \in Signs : w.text \in PlatformNames /\ w.cut \in PlatformNames
  BY DEF PlatformNames
<1>2. /\ setup.words # <<>> => Head(setup.words) \in Signs
      /\ "rke" \in setup.marks => Rancher1 \in Signs
      /\ "aks" \in setup.marks => Aks1 \in Signs
  BY DEF Signs
<1>3. NameIn(setup.words) \in PlatformNames
  <2>1. \/ setup.words = <<>>
        \/ setup.words # <<>> /\ Len(setup.words) = 1
        \/ setup.words # <<>> /\ Len(setup.words) > 1
    BY NamesRead
  <2> QED BY <1>1, <1>2, <2>1, NamesRead
<1>4. NameIn(GitVersion) \in PlatformNames
  <2>1. CASE ~rke /\ ~aks
    BY <1>3, <2>1, NamesRead
  <2>2. CASE (rke \/ aks) /\ setup.words # <<>>
    BY <1>1, <1>2, <2>2, NamesRead
  <2>3. CASE (rke \/ aks) /\ setup.words = <<>>
    <3>1. NameIn(GitVersion) \in {Rancher1.text, Rancher1.cut, Aks1.cut}
      BY <2>3, NamesRead DEF Rancher1, Aks1, W
    <3>2. rke => NameIn(GitVersion) \in {Rancher1.text, Rancher1.cut}
      BY <2>3, NamesRead DEF Rancher1, W
    <3>3. ~rke => aks /\ NameIn(GitVersion) = Aks1.cut
      BY <2>3, NamesRead DEF Aks1, W
    <3> QED BY <1>1, <1>2, <3>2, <3>3
  <2> QED BY <2>1, <2>2, <2>3
<1> QED BY <1>3, <1>4

\* A platform that the gitVersion spells is read whatever marks were seen.
LEMMA SpelledRead ==
  ASSUME SetupOK(setup), rke => "rke" \in setup.marks, aks => "aks" \in setup.marks,
         Spelled # None
  PROVE  NameIn(GitVersion) = Spelled
<1>1. Len(setup.words) \in Nat /\ (setup.words = <<>> <=> Len(setup.words) = 0)
  BY NamesRead
<1>2. CASE Len(setup.words) > 1
  <2>1. setup.words # <<>>
    BY <1>1, <1>2
  <2>2. \A n : n > 1 => n # 1
    OBVIOUS
  <2>3. Spelled = Head(setup.words).text
    <3>1. ~(Len(setup.words) = 1)
      BY <1>2, <2>2, Zenon
    <3> QED BY <1>2, <3>1 DEF Spelled
  <2> QED BY <1>2, <2>1, <2>3, NamesRead
<1>3. CASE Len(setup.words) = 1 /\ setup.marks = {}
  <2>1. ~rke /\ ~aks /\ Spelled = Head(setup.words).cut
    BY <1>3 DEF Spelled
  <2> QED BY <1>3, <2>1, NamesRead
<1> QED BY <1>2, <1>3 DEF Spelled

LEMMA SetupSame == [Next]_vars => setup' = setup
  BY DEF Next, Request, Own, GetPlatformInfo, DetectRKE, DetectAKS, AskInVain,
     AskAPI, AskTools, LookOcp, NoCredentials, KnowPlatform, KnowVersion,
     Select, Lookup, LookLower, NotMapped, Churn, Ended, env, vars

LEMMA InitIInv == Init => IInv
<1> SUFFICES ASSUME Init PROVE IInv
  OBVIOUS
<1>1. SetupOK(setup)
  BY SetupsAssumption DEF Init
<1>2. NoPlatform.name = None
  BY DEF NoPlatform
<1>3. Typed /\ Looks /\ FlagsWin /\ Counting /\ NearestBelow
  BY <1>1, TriesAssumption DEF Init, Typed, Looks, FlagsWin, Counting, NearestBelow
<1>4. Platforms
  BY <1>2 DEF Init, Platforms
<1>5. Evidence
  BY DEF Init, Evidence
<1>6. Openshift
  BY DEF Init, Openshift
<1> QED BY <1>3, <1>4, <1>5, <1>6 DEF IInv

\* Types, part by part of Next.
LEMMA NextTyped == IInv /\ [Next]_vars => Typed' /\ Looks'
<1> SUFFICES ASSUME IInv, [Next]_vars PROVE Typed' /\ Looks'
  OBVIOUS
<1> USE DEF IInv, Typed, Looks
<1>0. /\ setup' = setup
      /\ MaxTries \in Nat /\ MaxTries > 0
      /\ IsVersion(setup.version) /\ IsVersion(setup.oc)
      /\ \A m \in {setup.minor, setup.kubelet} : IsVersion(K8s(m))
  BY SetupSame, TriesAssumption, SetupTyped, VersionsTyped
<1>1. CASE GetPlatformInfo
  BY <1>0, <1>1 DEF GetPlatformInfo, GetKubeVersion, env, asking
<1>2. CASE LookOcp
  BY <1>0, <1>2, DecrementTyped DEF LookOcp, GetKubeVersion, env, asking
<1>3. CASE DetectRKE
  BY <1>0, <1>3 DEF DetectRKE, env
<1>4. CASE DetectAKS
  BY <1>0, <1>4 DEF DetectAKS, env
<1>5. CASE AskInVain
  BY <1>0, <1>5 DEF AskInVain, env
<1>6. CASE AskAPI
  BY <1>0, <1>6, VersionsTyped DEF AskAPI, Answer, env
<1>7. CASE AskTools
  BY <1>0, <1>7, VersionsTyped DEF AskTools, Answer, env
<1>8. CASE NoCredentials
  BY <1>0, <1>8 DEF NoCredentials, env, asking
<1>9. CASE KnowPlatform
  BY <1>0, <1>9 DEF KnowPlatform, env, asking
<1>10. CASE KnowVersion
  BY <1>0, <1>10 DEF KnowVersion, env, asking
<1>11. CASE Select
  BY <1>0, <1>11 DEF Select, GetKubeVersion, End, env, asking
<1>12. CASE Lookup \/ NotMapped
  BY <1>0, <1>12 DEF Lookup, NotMapped, End, env, asking
<1>13. CASE LookLower
  BY <1>0, <1>13, DecrementTyped DEF LookLower, env, asking
<1>14. CASE Churn
  BY <1>0, <1>14 DEF Churn, asking
<1>15. CASE UNCHANGED vars
  BY <1>0, <1>15 DEF vars
<1> QED BY <1>1, <1>2, <1>3, <1>4, <1>5, <1>6, <1>7, <1>8, <1>9, <1>10, <1>11,
           <1>12, <1>13, <1>14, <1>15 DEF Next, Request, Own, Ended

LEMMA NextFlags == IInv /\ [Next]_vars => FlagsWin'
<1> SUFFICES ASSUME IInv, [Next]_vars, Flagged PROVE FlagsWin'
  BY SetupSame DEF FlagsWin, Flagged
<1>0. setup' = setup /\ Looks /\ FlagsWin
  BY SetupSame DEF IInv
<1> USE DEF FlagsWin, Looks
<1>1. CASE GetPlatformInfo \/ LookOcp
  BY <1>0, <1>1 DEF GetPlatformInfo, LookOcp, GetKubeVersion, env, asking
<1>2. CASE DetectRKE \/ DetectAKS \/ AskInVain \/ AskAPI \/ AskTools
  BY <1>0, <1>2 DEF DetectRKE, DetectAKS, AskInVain, AskAPI, AskTools, env
<1>3. CASE NoCredentials \/ KnowPlatform \/ KnowVersion
  BY <1>0, <1>3 DEF NoCredentials, KnowPlatform, KnowVersion, env, asking
<1>4. CASE Select
  BY <1>0, <1>4 DEF Select, End, Flagged, GetKubeVersion, env, asking
<1>5. CASE Lookup \/ LookLower \/ NotMapped
  BY <1>0, <1>5 DEF Lookup, LookLower, NotMapped, End, env, asking
<1>6. CASE Churn \/ UNCHANGED vars
  BY <1>0, <1>6 DEF Churn, asking, vars
<1> QED BY <1>1, <1>2, <1>3, <1>4, <1>5, <1>6 DEF Next, Request, Own, Ended

LEMMA OcpMapped ==
  /\ AreVersions(OcpValid)
  /\ \A v \in OcpValid : OcpBenchmark(v) # None /\ v.minor >= 1
<1>1. AreVersions(OcpValid)
  BY VersionsTyped DEF AreVersions
<1>2. \A b \in OcpBenchmarks : b[2] # None
  BY DEF OcpBenchmarks, None
<1>3. \A v \in OcpValid : \E b \in OcpBenchmarks : b[1] = v
  BY DEF OcpBenchmarks, OcpValid
<1>4. \A v \in OcpValid : OcpBenchmark(v) # None
  BY <1>2, <1>3 DEF OcpBenchmark
<1>5. \A v \in OcpValid : v.minor >= 1
  BY DEF OcpValid, V
<1> QED BY <1>1, <1>4, <1>5

\* A platform without a name has no benchmark; that of OpenShift is found,
\* and that of a platform that names itself is one of those it may have.
LEMMA PlatformsMapped ==
  ASSUME NEW p
  PROVE  /\ p.name = None => PlatformBenchmark(p) = None
         /\ OcpFound(p) => PlatformBenchmark(p) = OcpOf /\ OcpOf # None
         /\ OwnPlatform(p) =>
              PlatformBenchmark(p) \in {Of(name) : name \in PlatformNames}
<1>1. p.name = None => PlatformBenchmark(p) = None
  BY DEF PlatformBenchmark, None
<1>2. ASSUME OcpFound(p) PROVE PlatformBenchmark(p) = OcpOf /\ OcpOf # None
  <2>1. OcpOf = OcpBenchmark(Highest(OcpBelow))
    BY <1>2 DEF OcpFound, OcpOf, OcpBelow
  <2>2. p.name = "ocp" /\ p.version = Highest(OcpBelow)
    BY <1>2 DEF OcpFound
  <2>3. PlatformBenchmark(p) = OcpBenchmark(p.version)
    BY <2>2 DEF PlatformBenchmark
  <2> QED BY <1>2, <2>1, <2>2, <2>3, OcpMapped DEF OcpFound
<1>3. OwnPlatform(p) =>
        PlatformBenchmark(p) \in {Of(name) : name \in PlatformNames}
  BY DEF OwnPlatform, Of
<1> QED BY <1>1, <1>2, <1>3

LEMMA NextOpenshift == IInv /\ [Next]_vars => Openshift'
<1> SUFFICES ASSUME IInv, [Next]_vars PROVE Openshift'
  OBVIOUS
<1>0. /\ setup' = setup /\ OcpBelow' = OcpBelow
      /\ Openshift /\ FlagsWin /\ Looks /\ Platforms /\ Typed
  BY SetupSame DEF IInv, OcpBelow
<1> USE DEF Openshift
<1>1. CASE GetPlatformInfo
  <2>1. setup.oc = NoVersion => OcpBelow = {}
    BY <1>0, OcpMapped, LastBelow, VersionsTyped DEF OcpBelow, NoVersion, V
  <2> QED BY <1>0, <1>1, <2>1 DEF GetPlatformInfo, GetKubeVersion, OcpBelow
<1>2. CASE LookOcp
  <2>1. IsVersion(kv) /\ Below(kv, OcpValid, 1) = OcpBelow /\ kv.minor \in Nat
    BY <1>0, <1>2, MinorTyped DEF LookOcp, Typed
  <2>2. CASE kv \in OcpValid
    <3>1. OcpBelow # {} /\ Highest(OcpBelow) = kv
      BY <2>1, <2>2, OcpMapped, HighestBelow
    <3>2. OcpFound(platform)' /\ pc' = "select"
      BY <1>0, <1>2, <2>2, <3>1, OcpMapped DEF LookOcp, OcpFound, AreVersions
    <3> QED BY <3>2
  <2>3. CASE kv \notin OcpValid /\ kv # NoVersion
    <3>1. Below(Decrement(kv), OcpValid, 1) = OcpBelow
      <4>1. CASE kv.minor > 1
        BY <2>1, <2>3, <4>1, OcpMapped, DecrementBelow
      <4>2. CASE ~(kv.minor > 1)
        <5>1. OcpBelow = {}
          BY <2>1, <2>3, <4>2, OcpMapped, LastBelow
        <5>2. Decrement(kv) = NoVersion
          BY <2>1, <4>2, DecrementTyped
        <5>3. Below(NoVersion, OcpValid, 1) = {}
          BY OcpMapped, LastBelow, VersionsTyped DEF AreVersions, NoVersion, V
        <5> QED BY <5>1, <5>2, <5>3
      <4> QED BY <4>1, <4>2
    <3> QED BY <1>0, <1>2, <2>3, <3>1 DEF LookOcp, asking
  <2>4. CASE kv = NoVersion
    <3>1. OcpBelow = {}
      BY <2>1, <2>4, OcpMapped, LastBelow, VersionsTyped
         DEF AreVersions, NoVersion, V
    <3>2. kv \notin OcpValid
      BY <2>4, OcpMapped DEF AreVersions
    <3> QED BY <1>0, <1>2, <2>4, <3>1, <3>2 DEF LookOcp, GetKubeVersion
  <2> QED BY <2>2, <2>3, <2>4
<1>3. CASE DetectRKE \/ DetectAKS \/ AskInVain \/ AskAPI \/ AskTools
  BY <1>0, <1>3 DEF DetectRKE, DetectAKS, AskInVain, AskAPI, AskTools
<1>4. CASE NoCredentials \/ KnowPlatform \/ KnowVersion
  BY <1>0, <1>4 DEF NoCredentials, KnowPlatform, KnowVersion
<1>5. CASE Select
  <2>1. OcpBelow = {} \/ PlatformBenchmark(platform) # None
    BY <1>0, <1>5, PlatformsMapped DEF Select
  <2> QED BY <1>0, <1>5, <2>1 DEF Select, End, Flagged, GetKubeVersion
<1>6. CASE Lookup \/ LookLower \/ NotMapped
  BY <1>0, <1>6 DEF Lookup, LookLower, NotMapped, End, Flagged
<1>7. CASE Churn \/ UNCHANGED vars
  <2>1. /\ pc' = pc /\ kv' = kv /\ platform' = platform
        /\ OcpFound(platform)' = OcpFound(platform) /\ Flagged' = Flagged
    BY <1>0, <1>7 DEF Churn, vars, OcpFound, Flagged
  <2> QED BY <1>0, <2>1
<1> QED BY <1>1, <1>2, <1>3, <1>4, <1>5, <1>6, <1>7 DEF Next, Request, Own, Ended

LEMMA NextPlatforms == IInv /\ [Next]_vars => Platforms'
<1> SUFFICES ASSUME IInv, [Next]_vars PROVE Platforms'
  OBVIOUS
<1> DEFINE Kept ==
      /\ rke' => "rke" \in setup.marks
      /\ aks' => "aks" \in setup.marks
    KubeFine ==
      /\ kube'.name # None => OwnPlatform(kube')
      /\ kube'.version \in Versionable
    PlatformFine ==
      platform'.name # None => OcpFound(platform') \/ OwnPlatform(platform')
<1>0. setup' = setup /\ Platforms /\ Openshift /\ SetupOK(setup)
  BY SetupSame DEF IInv, Typed
<1>1. SUFFICES Kept /\ (pc' = "known" => KubeFine) /\ PlatformFine
  BY <1>0 DEF Platforms, OcpFound, OwnPlatform, PlatformNames, Signs,
              Versionable, OcpBelow
<1> HIDE DEF KubeFine
<1> USE DEF Platforms
<1>2. CASE GetPlatformInfo
  BY <1>0, <1>2 DEF GetPlatformInfo, GetKubeVersion, asking
<1>3. CASE LookOcp
  <2>1. PlatformFine
    <3>1. CASE kv \in OcpValid
      <4>1. platform' = [name |-> "ocp", version |-> kv] /\ pc' = "select"
        BY <1>3, <3>1, OcpMapped DEF LookOcp, AreVersions
      <4>2. OcpFound(platform')
        <5>1. Openshift'
          BY NextOpenshift
        <5>2. OcpBelow # {}
          <6>1. Below(kv, OcpValid, 1) = OcpBelow
            BY <1>0, <1>3 DEF LookOcp, Openshift
          <6> QED BY <3>1, <6>1, OcpMapped, HighestBelow
        <5>3. OcpBelow' = OcpBelow
          BY <1>0 DEF OcpBelow
        <5> QED BY <4>1, <5>1, <5>2, <5>3 DEF Openshift, OcpFound
      <4> QED BY <4>2
    <3>2. CASE kv \notin OcpValid
      BY <1>0, <1>3, <3>2 DEF LookOcp
    <3> QED BY <3>1, <3>2
  <2> QED BY <1>0, <1>3, <2>1 DEF LookOcp, GetKubeVersion, asking
<1>4. CASE DetectRKE \/ DetectAKS
  <2>1. Kept
    <3>1. CASE DetectRKE
      BY <1>0, <3>1, Zenon DEF DetectRKE
    <3>2. CASE DetectAKS
      BY <1>0, <3>2, Zenon DEF DetectAKS
    <3> QED BY <1>4, <3>1, <3>2
  <2> QED BY <1>0, <1>4, <2>1 DEF DetectRKE, DetectAKS
<1>5. CASE AskInVain \/ NoCredentials
  BY <1>0, <1>5 DEF AskInVain, NoCredentials, asking
<1>6. CASE AskAPI
  <2>1. NameIn(GitVersion) \in PlatformNames
    BY <1>0, NamesKnown
  <2>2. pc' = "known" =>
          \/ kube' = [name |-> None, version |-> Hollow]
          \/ kube' = [name |-> NameIn(GitVersion), version |-> K8s(setup.minor)]
    BY <1>6 DEF AskAPI, Answer
  <2>3. pc' = "known" => KubeFine
    BY <2>1, <2>2 DEF KubeFine, OwnPlatform, Versionable
  <2> QED BY <1>0, <1>6, <2>3 DEF AskAPI
<1>7. CASE AskTools
  <2>1. \/ kube' = [name |-> NameIn(setup.words), version |-> K8s(setup.minor)]
        \/ kube' = [name |-> None, version |-> K8s(setup.kubelet)]
        \/ kube' = [name |-> None, version |-> Default]
    BY <1>7 DEF AskTools, Answer
  <2>2. NameIn(setup.words) \in PlatformNames
    BY <1>0, NamesKnown
  <2>3. KubeFine
    BY <2>1, <2>2 DEF KubeFine, OwnPlatform, Versionable
  <2> QED BY <1>0, <1>7, <2>3 DEF AskTools
<1>8. CASE KnowPlatform
  BY <1>0, <1>8 DEF KnowPlatform, asking, NoPlatform
<1>9. CASE KnowVersion
  BY <1>0, <1>9 DEF KnowVersion, asking
<1>10. CASE Select
  BY <1>0, <1>10 DEF Select, End, GetKubeVersion, asking
<1>11. CASE Lookup \/ LookLower \/ NotMapped
  BY <1>0, <1>11 DEF Lookup, LookLower, NotMapped, End, asking
<1>12. CASE Churn \/ UNCHANGED vars
  BY <1>0, <1>12 DEF Churn, vars, asking, KubeFine
<1> QED BY <1>2, <1>3, <1>4, <1>5, <1>6, <1>7, <1>8, <1>9, <1>10, <1>11, <1>12
        DEF Next, Request, Own, Ended

LEMMA NextEvidence == IInv /\ [Next]_vars => Evidence'
<1> SUFFICES ASSUME IInv, [Next]_vars PROVE Evidence'
  OBVIOUS
<1>0. /\ setup' = setup
      /\ Typed /\ Looks /\ FlagsWin /\ Platforms /\ Evidence /\ Openshift
      /\ Flagged' = Flagged /\ Versionable' = Versionable /\ OcpOf' = OcpOf
      /\ {Of(name) : name \in PlatformNames}' = {Of(name) : name \in PlatformNames}
  BY SetupSame DEF IInv, Flagged, Versionable, OcpOf, Of, PlatformNames,
                       Signs
<1> USE DEF Evidence
<1>1. CASE GetPlatformInfo \/ LookOcp
  BY <1>0, <1>1 DEF GetPlatformInfo, LookOcp, GetKubeVersion
<1>2. CASE DetectRKE \/ DetectAKS \/ AskInVain \/ AskAPI \/ AskTools
  BY <1>0, <1>2 DEF DetectRKE, DetectAKS, AskInVain, AskAPI, AskTools
<1>3. CASE NoCredentials \/ KnowPlatform
  BY <1>0, <1>3 DEF NoCredentials, KnowPlatform
<1>4. CASE KnowVersion
  BY <1>0, <1>4 DEF KnowVersion, Platforms, Nothing
<1>5. CASE Select
  <2> DEFINE b == PlatformBenchmark(platform)
  <2>1. b # None => b \in {OcpOf} \cup {Of(name) : name \in PlatformNames}
    BY <1>0, PlatformsMapped DEF Platforms
  <2>2. detected = Nothing
    BY <1>0, <1>5 DEF Select
  <2> QED BY <1>0, <1>5, <2>1, <2>2
          DEF Select, End, Flagged, GetKubeVersion, Nothing
<1>6. CASE Lookup \/ LookLower \/ NotMapped
  BY <1>0, <1>6 DEF Lookup, LookLower, NotMapped, End
<1>7. CASE Churn \/ UNCHANGED vars
  BY <1>0, <1>7 DEF Churn, vars
<1> QED BY <1>1, <1>2, <1>3, <1>4, <1>5, <1>6, <1>7 DEF Next, Request, Own, Ended

\* Nearest, before and after a step.
LEMMA NearestSame ==
  ASSUME setup' = setup
  PROVE  /\ Nearest(setup.version)' = Nearest(setup.version)
         /\ detected' = detected =>
              Nearest(detected.version)' = Nearest(detected.version)
         /\ kv' = kv => Nearest(kv)' = Nearest(kv)
         /\ kv' = Decrement(kv) => Nearest(kv)' = Nearest(Decrement(kv))
         /\ kv' = setup.version => Nearest(kv)' = Nearest(setup.version)
         /\ kv' = detected'.version => Nearest(kv)' = Nearest(detected.version)'
         /\ OcpOf' = OcpOf /\ Flagged' = Flagged
  BY DEF Nearest, Mapping, OcpOf, Flagged

LEMMA NextNearest == IInv /\ [Next]_vars => Counting' /\ NearestBelow'
<1> SUFFICES ASSUME IInv, [Next]_vars PROVE Counting' /\ NearestBelow'
  OBVIOUS
<1>0. /\ setup' = setup
      /\ Typed /\ Looks /\ FlagsWin /\ Platforms /\ Evidence /\ Openshift
      /\ Counting /\ NearestBelow
  BY SetupSame DEF IInv
<1> USE DEF Counting, NearestBelow
<1>1. CASE GetPlatformInfo \/ LookOcp
  BY <1>0, <1>1 DEF GetPlatformInfo, LookOcp, GetKubeVersion
<1>2. CASE DetectRKE \/ DetectAKS \/ AskInVain \/ AskAPI \/ AskTools
  BY <1>0, <1>2 DEF DetectRKE, DetectAKS, AskInVain, AskAPI, AskTools
<1>3. CASE NoCredentials \/ KnowPlatform
  BY <1>0, <1>3 DEF NoCredentials, KnowPlatform
<1>4. CASE KnowVersion
  <2>1. setup.version = NoVersion
    BY <1>0, <1>4 DEF KnowVersion, FlagsWin, Flagged
  <2>2. pc' = "map" /\ kv' = detected'.version
    BY <1>4 DEF KnowVersion, Nothing
  <2> QED BY <1>0, <2>1, <2>2, NearestSame
<1>5. CASE Select
  <2>1. detected = Nothing /\ Nothing.version = NoVersion
    BY <1>0, <1>5 DEF Select, Evidence, Nothing
  <2>2. ASSUME OcpOf # None PROVE PlatformBenchmark(platform) = OcpOf
    BY <1>0, <1>5, <2>2, PlatformsMapped DEF Select, Openshift, OcpOf, OcpBelow
  <2>3. CASE setup.benchmark # None
    BY <1>0, <1>5, <2>1, <2>3, NearestSame DEF Select, End, Flagged
  <2>4. CASE setup.benchmark = None /\ setup.version # NoVersion
    BY <1>0, <1>5, <2>1, <2>4, NearestSame DEF Select
  <2>5. CASE setup.benchmark = None /\ setup.version = NoVersion
    BY <1>0, <1>5, <2>1, <2>2, <2>5, NearestSame
       DEF Select, End, GetKubeVersion, Nothing
  <2> QED BY <2>3, <2>4, <2>5
<1>6. CASE Lookup \/ NotMapped
  <2>1. IsVersion(kv) /\ setup.config \in DOMAIN Mappings
    BY <1>0, <1>6, SetupTyped DEF Lookup, NotMapped, Typed
  <2>2. result' = Nearest(kv) /\ pc' = "end" /\ pc = "map" /\ detected' = detected
    BY <1>6, <2>1, NearestLower DEF Lookup, NotMapped, Lowest, End
  <2>3. ~Flagged => OcpOf = None
    BY <1>0, <2>2 DEF Openshift, OcpOf, OcpBelow
  <2> QED BY <1>0, <2>2, <2>3, NearestSame
<1>7. CASE LookLower
  <2>1. IsVersion(kv) /\ setup.config \in DOMAIN Mappings
    BY <1>0, <1>7, SetupTyped DEF LookLower, Typed
  <2>2. Nearest(Decrement(kv)) = Nearest(kv)
    BY <1>7, <2>1, NearestLower DEF LookLower, Lowest
  <2> QED BY <1>0, <1>7, <2>2, NearestSame DEF LookLower
<1>8. CASE Churn \/ UNCHANGED vars
  BY <1>0, <1>8, NearestSame DEF Churn, vars
<1> QED BY <1>1, <1>2, <1>3, <1>4, <1>5, <1>6, <1>7, <1>8
        DEF Next, Request, Own, Ended

\* The invariant holds.
LEMMA Inductive == Spec => []IInv
<1>1. IInv /\ [Next]_vars => IInv'
  BY NextTyped, NextFlags, NextPlatforms, NextEvidence, NextOpenshift,
     NextNearest DEF IInv
<1> QED BY InitIInv, <1>1, PTL DEF Spec

-----------------------------------------------------------------------------
(* Outages and marks.                                                      *)

\* No sign of the cluster names a platform.
Plain == \A name \in PlatformNames : Of(name) = None

\* As long as the API server may still be waited for, the look that is on
\* ends with the version of the cluster, and with the platform that its
\* gitVersion spells.
Short == ~Flagged /\ Askable /\ refused < MaxTries

Outage ==
  /\ tries <= refused
  /\ Short =>
       /\ pc # "tools"
       /\ pc = "known" =>
            /\ kube.version = K8s(setup.minor)
            /\ kube.name \in PlatformNames
            /\ Spelled # None => kube.name = Spelled
       /\ pc = "select" =>
            /\ Spelled # None => PlatformBenchmark(platform) = Of(Spelled)
            /\ Plain => PlatformBenchmark(platform) = None
       /\ look = "version" \/ pc = "map" => Of(Spelled) = None
       /\ pc = "map" => detected.version = K8s(setup.minor)
       /\ pc = "end" /\ Of(Spelled) # None => result = Of(Spelled)
       /\ pc = "end" /\ Plain => detected.version = K8s(setup.minor)

LEMMA InitOutage == Init => Outage
<1> SUFFICES ASSUME Init PROVE Outage
  OBVIOUS
<1> QED BY DEF Init, Outage

\* A version is a version.
LEMMA K8sVersion == \A m : K8s(m) # NoVersion
<1>1. \A m : K8s(m).lead = "1" /\ NoVersion.lead = None
  BY DEF K8s, NoVersion, V
<1> QED BY <1>1 DEF None

LEMMA NextOutage == IInv /\ Outage /\ [Next]_vars => Outage'
<1> SUFFICES ASSUME IInv, Outage, [Next]_vars PROVE Outage'
  OBVIOUS
<1>0. /\ setup' = setup
      /\ Typed /\ Looks /\ FlagsWin /\ Platforms /\ Evidence /\ Openshift
      /\ Flagged' = Flagged /\ Askable' = Askable
      /\ PlatformNames' = PlatformNames /\ Plain' = Plain
      /\ Spelled' = Spelled /\ Of(Spelled)' = Of(Spelled)
      /\ SetupOK(setup) /\ refused \in Nat /\ tries \in Nat /\ MaxTries \in Nat
  BY SetupSame, TriesAssumption
     DEF IInv, Typed, Flagged, Askable, OcpOf, PlatformNames, Signs, Plain,
         Spelled, Of
<1> USE DEF Outage, Short
<1>1. CASE GetPlatformInfo
  BY <1>0, <1>1 DEF GetPlatformInfo, GetKubeVersion, Looks, asking
<1>2. CASE LookOcp
  <2>1. ASSUME Askable, pc' = "select" PROVE FALSE
    <3>1. Openshift' /\ Platforms' /\ OcpOf' = OcpOf
      BY <1>0, NextOpenshift, NextPlatforms DEF OcpOf
    <3>2. OcpBelow' # {}
      <4>1. kv \in OcpValid /\ Below(kv, OcpValid, 1) = OcpBelow
        BY <1>0, <1>2, <2>1 DEF LookOcp, Openshift, GetKubeVersion
      <4> QED BY <1>0, <4>1, OcpMapped, HighestBelow DEF OcpBelow
    <3>3. OcpFound(platform)'
      BY <2>1, <3>1, <3>2 DEF Openshift
    <3>4. OcpBelow' = OcpBelow
      BY <1>0 DEF OcpBelow
    <3>5. OcpFound(platform')
      BY <3>3, <3>4 DEF OcpFound
    <3> QED BY <2>1, <3>5, PlatformsMapped DEF Askable
  <2> QED BY <1>0, <1>2, <2>1 DEF LookOcp, GetKubeVersion, Looks, asking
<1>3. CASE DetectRKE \/ DetectAKS
  BY <1>0, <1>3 DEF DetectRKE, DetectAKS
<1>4. CASE AskInVain
  BY <1>0, <1>4 DEF AskInVain, Looks
<1>5. CASE AskAPI
  <2>1. NameIn(GitVersion) \in PlatformNames
    BY <1>0, NamesKnown DEF Platforms
  <2>2. Askable =>
          kube' = [name |-> NameIn(GitVersion), version |-> K8s(setup.minor)]
    BY <1>5 DEF AskAPI, Answer, Askable
  <2>3. Spelled # None => NameIn(GitVersion) = Spelled
    BY <1>0, SpelledRead DEF Platforms
  <2> QED BY <1>0, <1>5, <2>1, <2>2, <2>3 DEF AskAPI, Askable
<1>6. CASE AskTools
  BY <1>0, <1>6 DEF AskTools
<1>7. CASE NoCredentials
  BY <1>0, <1>7 DEF NoCredentials, asking, Askable
<1>8. CASE KnowPlatform
  <2> SUFFICES ASSUME Short
               PROVE  /\ Spelled # None =>
                           PlatformBenchmark(platform') = Of(Spelled)
                      /\ Plain => PlatformBenchmark(platform') = None
    BY <1>0, <1>8 DEF KnowPlatform, asking
  <2>1. /\ kube.name \in PlatformNames
        /\ Spelled # None => kube.name = Spelled
        /\ platform' = IF kube.name = None THEN NoPlatform ELSE kube
    BY <1>8 DEF KnowPlatform
  <2>2. CASE kube.name = None
    <3>1. PlatformBenchmark(platform') = None
      BY <2>1, <2>2, PlatformsMapped DEF NoPlatform
    <3> QED BY <2>1, <2>2, <3>1
  <2>3. CASE kube.name # None
    <3>1. kube = [name |-> kube.name, version |-> K8s(setup.minor)]
      BY <1>0, <1>8, <2>3 DEF KnowPlatform, Platforms, OwnPlatform
    <3>2. PlatformBenchmark(platform') = Of(kube.name)
      BY <2>1, <2>3, <3>1 DEF Of
    <3> QED BY <2>1, <3>2 DEF Plain
  <2> QED BY <2>2, <2>3
<1>9. CASE KnowVersion
  BY <1>0, <1>9 DEF KnowVersion, asking, Nothing
<1>10. CASE Select
  <2>1. Spelled = None => Of(Spelled) = None
    BY PlatformsMapped DEF Of
  <2> QED BY <1>0, <1>10, <2>1
          DEF Select, End, GetKubeVersion, asking, Looks, Flagged
<1>11. CASE Lookup \/ LookLower \/ NotMapped
  BY <1>0, <1>11 DEF Lookup, LookLower, NotMapped, End, asking
<1>12. CASE Churn \/ UNCHANGED vars
  BY <1>0, <1>12 DEF Churn, vars, asking
<1> QED BY <1>1, <1>2, <1>3, <1>4, <1>5, <1>6, <1>7, <1>8, <1>9, <1>10, <1>11,
           <1>12 DEF Next, Request, Own, Ended

\* While all routes are open, the marks are seen, and every look ends with the
\* version of the cluster and with the platform that it is taken for.
Marks ==
  MarksInSight =>
    /\ pc # "tools"
    /\ pc \in {"aks", "api"} => (rke <=> "rke" \in setup.marks)
    /\ pc = "api" => (aks <=> "aks" \in setup.marks)
    /\ pc = "known" => /\ kube.version = K8s(setup.minor)
                       /\ Of(kube.name) = Of(KnownAs)
    /\ pc = "select" => PlatformBenchmark(platform) = Of(KnownAs)
    /\ look = "version" \/ pc = "map" => Of(KnownAs) = None
    /\ pc = "map" => detected.version = K8s(setup.minor)
    /\ pc = "end" /\ Of(KnownAs) # None => result = Of(KnownAs)
    /\ pc = "end" /\ Of(KnownAs) = None => detected.version = K8s(setup.minor)

LEMMA InitMarks == Init => Marks
  BY DEF Init, Marks

\* With the marks in sight the gitVersion is read as the platform that the
\* cluster is taken for; two marks are read as one word that names none.
LEMMA MarksRead ==
  ASSUME SetupOK(setup), setup.marks # {},
         rke <=> "rke" \in setup.marks, aks <=> "aks" \in setup.marks
  PROVE  Of(NameIn(GitVersion)) = Of(KnownAs)
<1>1. rke \/ aks
  BY SetupTyped
<1>2. CASE setup.words # <<>>
  BY <1>1, <1>2, NamesRead DEF KnownAs
<1>3. CASE setup.words = <<>>
  <2>1. CASE rke /\ aks
    <3>1. NameIn(GitVersion) = "rancher1" /\ KnownAs = None
      <4>1. setup.marks # {"rke"} /\ setup.marks # {"aks"}
        BY <2>1
      <4> QED BY <1>3, <2>1, <4>1, NamesRead DEF KnownAs
    <3>2. Of("rancher1") = None /\ Of(None) = None
      BY DEF Of, PlatformBenchmark, None
    <3> QED BY <3>1, <3>2
  <2>2. CASE rke /\ ~aks
    <3>1. setup.marks = {"rke"}
      BY <2>2, SetupTyped
    <3> QED BY <1>3, <2>2, <3>1, NamesRead DEF KnownAs
  <2>3. CASE ~rke /\ aks
    <3>1. setup.marks = {"aks"}
      BY <2>3, SetupTyped
    <3> QED BY <1>3, <2>3, <3>1, NamesRead DEF KnownAs
  <2> QED BY <1>1, <2>1, <2>2, <2>3
<1> QED BY <1>2, <1>3

LEMMA NextMarks == IInv /\ Marks /\ [Next]_vars => Marks'
<1> SUFFICES ASSUME IInv, Marks, [Next]_vars, MarksInSight' PROVE Marks'
  BY DEF Marks
<1>0. /\ setup' = setup /\ setup.marks # {} /\ SetupOK(setup)
      /\ Platforms /\ Openshift /\ Looks
      /\ KnownAs' = KnownAs /\ Of(KnownAs)' = Of(KnownAs)
      /\ ~Flagged /\ Askable /\ setup.pod /\ setup.creds
      /\ setup.answer = "version"
  BY SetupSame DEF IInv, Typed, KnownAs, Of, MarksInSight, Flagged, Askable, OcpOf
<1>1. ~Churn
  BY DEF Churn, MarksInSight
<1>2. UNCHANGED env
  BY <1>1 DEF Next, Request, Own, GetPlatformInfo, DetectRKE, DetectAKS,
     AskInVain, AskAPI, AskTools, LookOcp, NoCredentials, KnowPlatform,
     KnowVersion, Select, Lookup, LookLower, NotMapped, Ended, env, vars
<1>3. MarksInSight /\ "client" \in up /\ "api" \in up
  BY <1>2 DEF MarksInSight, env, Flagged, Askable, OcpOf
<1> USE DEF Marks
<1>4. CASE GetPlatformInfo
  BY <1>0, <1>3, <1>4 DEF GetPlatformInfo, GetKubeVersion, Looks, asking
<1>5. CASE LookOcp
  <2>1. pc' # "select"
    <3> SUFFICES ASSUME kv \in OcpValid PROVE FALSE
      BY <1>5, OcpMapped DEF LookOcp, GetKubeVersion
    <3>1. Below(kv, OcpValid, 1) = OcpBelow
      BY <1>0, <1>5 DEF LookOcp, Openshift
    <3>2. OcpBelow # {} /\ Highest(OcpBelow) = kv
      BY <3>1, OcpMapped, HighestBelow
    <3>3. OcpFound([name |-> "ocp", version |-> kv])
      BY <3>2 DEF OcpFound
    <3> QED BY <1>0, <3>3, PlatformsMapped DEF Askable
  <2> QED BY <1>0, <1>3, <1>5, <2>1 DEF LookOcp, GetKubeVersion, Looks, asking
<1>6. CASE DetectRKE
  <2>1. rke' <=> "rke" \in setup.marks
    BY <1>3, <1>6, Zenon DEF DetectRKE
  <2> QED BY <1>0, <1>3, <1>6, <2>1 DEF DetectRKE
<1>7. CASE DetectAKS
  <2>1. aks' <=> "aks" \in setup.marks
    BY <1>3, <1>7, Zenon DEF DetectAKS
  <2>2. rke' = rke /\ (rke <=> "rke" \in setup.marks)
    BY <1>3, <1>7, Zenon DEF DetectAKS, Marks
  <2> QED BY <1>0, <1>3, <1>7, <2>1, <2>2 DEF DetectAKS
<1>8. CASE AskInVain
  BY <1>3, <1>8 DEF AskInVain
<1>9. CASE AskAPI
  <2>1. Of(NameIn(GitVersion)) = Of(KnownAs)
    BY <1>0, <1>3, <1>9, MarksRead DEF AskAPI
  <2>2. kube' = [name |-> NameIn(GitVersion), version |-> K8s(setup.minor)]
    BY <1>0, <1>9 DEF AskAPI, Answer
  <2>3. Of(kube'.name) = Of(kube.name)' /\ kube'.version = K8s(setup.minor)'
    BY <1>0, <2>2 DEF Of
  <2> QED BY <1>0, <1>3, <1>9, <2>1, <2>2, <2>3 DEF AskAPI
<1>10. CASE AskTools \/ NoCredentials
  BY <1>0, <1>3, <1>10 DEF AskTools, NoCredentials
<1>11. CASE KnowPlatform
  <2>1. Of(kube.name) = Of(KnownAs)
    BY <1>3, <1>11 DEF KnowPlatform
  <2>2. CASE kube.name = None
    <3>1. PlatformBenchmark(platform') = None /\ Of(kube.name) = None
      BY <1>11, <2>2, PlatformsMapped DEF KnowPlatform, NoPlatform, Of
    <3> QED BY <1>0, <1>3, <1>11, <2>1, <3>1 DEF KnowPlatform, asking
  <2>3. CASE kube.name # None
    <3>1. kube = [name |-> kube.name, version |-> K8s(setup.minor)]
      BY <1>0, <1>11, <2>3 DEF KnowPlatform, Platforms, OwnPlatform
    <3>2. PlatformBenchmark(platform') = Of(kube.name)
      BY <1>11, <2>3, <3>1 DEF KnowPlatform, Of
    <3> QED BY <1>0, <1>3, <1>11, <2>1, <3>2 DEF KnowPlatform, asking
  <2> QED BY <2>2, <2>3
<1>12. CASE KnowVersion
  BY <1>0, <1>3, <1>12 DEF KnowVersion, asking, Nothing
<1>13. CASE Select
  BY <1>0, <1>3, <1>13 DEF Select, End, Flagged, GetKubeVersion, Looks, asking
<1>14. CASE Lookup \/ LookLower \/ NotMapped
  BY <1>0, <1>3, <1>14 DEF Lookup, LookLower, NotMapped, End, asking
<1>15. CASE UNCHANGED vars
  <2>1. /\ UNCHANGED <<pc, look, rke, aks, kube, platform, detected, result>>
        /\ Of(kube.name)' = Of(kube.name)
    BY <1>0, <1>15 DEF vars, Of
  <2> QED BY <1>0, <1>3, <2>1
<1> QED BY <1>1, <1>4, <1>5, <1>6, <1>7, <1>8, <1>9, <1>10, <1>11, <1>12, <1>13,
           <1>14, <1>15 DEF Next, Request, Own, Ended

-----------------------------------------------------------------------------
(* Targets.                                                                *)

\* All that getPlatformBenchmarkVersion knows.
Tables ==
  {"eks-1.0.1", "eks-1.5.0", "eks-1.7.0", "eks-1.8.0", "aks-1.0", "aks-1.7",
   "aks-1.8", "gke-1.0", "gke-1.2.0", "gke-1.6.0", "gke-1.8.0", "gke-1.9.0",
   "rh-0.7", "rh-1.0", "rh-1.4", "rh-1.8", "rh-1.9", "k3s-cis-1.23",
   "k3s-cis-1.24", "k3s-cis-1.7", "k3s-cis-1.8", "k3s-cis-1.9", "k3s-cis-1.10",
   "k3s-cis-1.11", "rke-cis-1.23", "rke-cis-1.24", "rke-cis-1.7",
   "rke2-cis-1.23", "rke2-cis-1.24", "rke2-cis-1.7", "rke2-cis-1.8",
   "rke2-cis-1.9", "ack-1.0", "tkgi-1.2.53"}

LEMMA TablesKnown ==
  ASSUME NEW p
  PROVE  PlatformBenchmark(p) \in Tables \cup {None}
<1>1. \A m : /\ EksBenchmark(m) \in Tables
            /\ AksBenchmark(m) \in Tables
            /\ GkeBenchmark(m) \in Tables
  BY DEF EksBenchmark, AksBenchmark, GkeBenchmark, Tables
<1>2. \A m : /\ K3sBenchmark(m) \in Tables
            /\ RkeBenchmark(m) \in Tables
            /\ Rke2Benchmark(m) \in Tables
  BY DEF K3sBenchmark, RkeBenchmark, Rke2Benchmark, Tables
<1>3. \A v : OcpBenchmark(v) \in Tables \cup {None}
  <2>1. \A b \in OcpBenchmarks : b[2] \in Tables
    BY DEF OcpBenchmarks, Tables
  <2> QED BY <2>1 DEF OcpBenchmark
<1>4. "ack-1.0" \in Tables /\ "tkgi-1.2.53" \in Tables
  BY DEF Tables
<1> QED BY <1>1, <1>2, <1>3, <1>4 DEF PlatformBenchmark

-----------------------------------------------------------------------------
(* The results.                                                            *)

(***************************************************************************)
(* For every mapping, given or detected versions get the benchmark of the  *)
(* nearest mapped version (mapToBenchmarkVersion), and so does OpenShift.  *)
(***************************************************************************)
THEOREM NearestCorrect == Spec => []NearestBelow
<1>1. IInv => NearestBelow
  BY DEF IInv
<1> QED BY Inductive, <1>1, PTL

(***************************************************************************)
(* The flags win, and what is detected has its evidence, whatever routes   *)
(* open and close and however often the API server is asked                *)
(* (getBenchmarkVersion, getPlatformInfo, getKubeVersion).                 *)
(***************************************************************************)
THEOREM EvidenceCorrect == Spec => []EvidenceOrDefault
<1>1. IInv => EvidenceOrDefault
  BY DEF IInv, FlagsWin, Evidence, EvidenceOrDefault, Versionable
<1> QED BY Inductive, <1>1, PTL

(***************************************************************************)
(* The API server is asked in vain at most as often as there are tries in  *)
(* two looks (getWebDataWithRetry).                                        *)
(***************************************************************************)
THEOREM TriesBounded == Spec => [](refused <= 2 * MaxTries)
<1>1. IInv => refused <= 2 * MaxTries
  BY TriesAssumption DEF IInv, Typed, Looks
<1> QED BY Inductive, <1>1, PTL

(***************************************************************************)
(* An API server that is away for fewer tries than there are changes       *)
(* neither the benchmark of a platform that the gitVersion spells, nor     *)
(* that of a cluster of which no sign names one (getWebDataWithRetry,      *)
(* getPlatformInfoFromVersion).                                            *)
(***************************************************************************)
THEOREM OutageCorrect == Spec => []ShortOutage
<1>1. Spec => []Outage
  BY Inductive, InitOutage, NextOutage, PTL DEF Spec
<1>2. IInv /\ Outage => ShortOutage
  BY K8sVersion DEF IInv, Outage, Short, Plain, NearestBelow, ShortOutage
<1> QED BY Inductive, <1>1, <1>2, PTL

(***************************************************************************)
(* If all routes are open all the time, a mark of RKE or of AKS decides    *)
(* the benchmark exactly if it is all there is behind the version; behind  *)
(* another word, be it of the gitVersion or a mark, it takes the platform  *)
(* of that word away (IsRKE, IsAKS, getKubeVersion, getPlatformInfo).      *)
(***************************************************************************)
THEOREM MarksCorrect == Spec => []SteadyMarks
<1>1. Spec => []Marks
  BY Inductive, InitMarks, NextMarks, PTL DEF Spec
<1>2. IInv /\ Marks => SteadyMarks
  BY K8sVersion DEF IInv, NearestBelow, Marks, SteadyMarks
<1> QED BY Inductive, <1>1, <1>2, PTL

\* Each step keeps what is chosen among the benchmarks that have targets.
LEMMA KeepsTargets ==
  ASSUME NEW benchmarks,
         Tables \subseteq benchmarks,
         \A c \in DOMAIN Mappings : \A v \in DOMAIN Mappings[c] :
           Mappings[c][v] \in benchmarks
  PROVE  /\ Init => HasTargets(benchmarks)
         /\ IInv /\ HasTargets(benchmarks) /\ [Next]_vars => HasTargets(benchmarks)'
<1>1. Init => HasTargets(benchmarks)
  BY DEF Init, HasTargets
<1>2. IInv /\ HasTargets(benchmarks) /\ [Next]_vars => HasTargets(benchmarks)'
  <2> SUFFICES ASSUME IInv, HasTargets(benchmarks), [Next]_vars
               PROVE  HasTargets(benchmarks)'
    OBVIOUS
  <2>1. setup' = setup
    BY SetupSame
  <2>2. CASE Select
    BY <2>1, <2>2, TablesKnown DEF HasTargets, Select, End
  <2>3. CASE Lookup
    <3>1. setup.config \in DOMAIN Mappings
      BY SetupTyped DEF IInv, Typed
    <3> QED BY <2>1, <2>3, <3>1 DEF HasTargets, Lookup, End, Mapping
  <2>4. CASE NotMapped
    BY <2>4 DEF HasTargets, NotMapped, End
  <2>5. CASE result' = result
    BY <2>1, <2>5 DEF HasTargets
  <2>6. Select \/ Lookup \/ NotMapped \/ result' = result
    BY DEF Next, Request, Own, GetPlatformInfo, DetectRKE, DetectAKS, AskInVain,
       AskAPI, AskTools, LookOcp, NoCredentials, KnowPlatform, KnowVersion,
       LookLower, Churn, Ended, vars
  <2> QED BY <2>2, <2>3, <2>4, <2>5, <2>6
<1> QED BY <1>1, <1>2

(***************************************************************************)
(* If target_mapping has every benchmark of the tables and every one that  *)
(* version_mapping leads to, then what is chosen without --benchmark has   *)
(* targets, on any cluster (getBenchmarkVersion, validTargets).            *)
(***************************************************************************)
THEOREM TargetsCorrect ==
  ASSUME NEW benchmarks,
         Tables \subseteq benchmarks,
         \A c \in DOMAIN Mappings : \A v \in DOMAIN Mappings[c] :
           Mappings[c][v] \in benchmarks
  PROVE  Spec => []HasTargets(benchmarks)
<1>1. /\ Init => HasTargets(benchmarks)
      /\ IInv /\ HasTargets(benchmarks) /\ [Next]_vars => HasTargets(benchmarks)'
  BY KeepsTargets
<1> QED BY Inductive, <1>1, PTL DEF Spec

\* Every benchmark that version_mapping leads to is a key of target_mapping.
LEMMA ShippedKnown ==
  /\ \A v \in DOMAIN Shipped : Shipped[v] \in Benchmarks
  /\ \A v \in DOMAIN Gaps : Gaps[v] \in Benchmarks
<1>1. \A m \in 15..35 : Cis[m] \in Benchmarks
  BY DEF Cis, Benchmarks
<1>2. \A o \in Others : o[1].lead # "1" /\ o[2] \in Benchmarks
  <2>1. \A o \in OpenShiftVersions : o[1].lead # "1" /\ o[2] \in Benchmarks
    BY DEF OpenShiftVersions, V, Benchmarks
  <2>2. \A o \in Themselves : o[1].lead # "1" /\ o[2] \in Benchmarks
    BY DEF Themselves, V, Benchmarks
  <2> QED BY <2>1, <2>2 DEF Others
<1>3. ASSUME NEW v \in DOMAIN Shipped PROVE Shipped[v] \in Benchmarks
  <2>1. Shipped[v] = IF v.lead = "1" THEN Cis[v.minor]
                     ELSE (CHOOSE o \in Others : o[1] = v)[2]
    BY <1>3 DEF Shipped
  <2>2. CASE v \in {K8s(m) : m \in 15..35}
    <3>1. PICK m \in 15..35 : v = K8s(m)
      BY <2>2
    <3>2. v.lead = "1" /\ v.minor = m
      BY <3>1 DEF K8s, V
    <3> QED BY <1>1, <2>1, <3>2
  <2>3. CASE v \in {o[1] : o \in Others}
    <3>1. PICK o \in Others : v = o[1]
      BY <2>3
    <3>2. (CHOOSE e \in Others : e[1] = v) \in Others
      BY <3>1
    <3> QED BY <1>2, <2>1, <3>1, <3>2
  <2> QED BY <1>3, <2>2, <2>3 DEF Shipped
<1>4. ASSUME NEW v \in DOMAIN Gaps PROVE Gaps[v] \in Benchmarks
  <2>1. PICK m \in {16, 22, 27} : v = K8s(m)
    BY <1>4 DEF Gaps
  <2>2. v.minor = m /\ m \in 15..35
    BY <2>1 DEF K8s, V
  <2>3. Gaps[v] = Cis[v.minor]
    BY <1>4 DEF Gaps
  <2> QED BY <1>1, <2>2, <2>3
<1> QED BY <1>3, <1>4

(***************************************************************************)
(* With the mapping that is shipped, one with gaps or none, what is chosen *)
(* without --benchmark is a key of the target_mapping that is shipped, on  *)
(* any cluster, of whatever version: the tables of cmd/util.go and the two *)
(* mappings of cfg/config.yaml agree.                                      *)
(***************************************************************************)
THEOREM AnswersHaveTargets ==
  ASSUME Mappings = MCMappings
  PROVE  Spec => []AnswerHasTargets
<1>1. Tables \subseteq Benchmarks
  BY DEF Tables, Benchmarks
<1>2. ASSUME NEW c \in DOMAIN Mappings, NEW v \in DOMAIN Mappings[c]
      PROVE  Mappings[c][v] \in Benchmarks
  <2>1. \/ Mappings[c] = Shipped
        \/ Mappings[c] = Gaps
        \/ DOMAIN Mappings[c] = {}
    BY <1>2 DEF MCMappings
  <2> QED BY <1>2, <2>1, ShippedKnown
<1>3. /\ Init => HasTargets(Benchmarks)
      /\ IInv /\ HasTargets(Benchmarks) /\ [Next]_vars => HasTargets(Benchmarks)'
  BY <1>1, <1>2, KeepsTargets
<1> QED BY Inductive, <1>3, PTL DEF Spec, AnswerHasTargets

-----------------------------------------------------------------------------
(* The loops end.                                                          *)

\* What the program itself changes: all but the routes to the cluster.
own == <<setup, asking, pc, platform, kv, detected, result>>

\* A version is counted down at most so often.
Down(v) == IF v = NoVersion THEN 0 ELSE v.minor + 1

\* The steps of a look that are ahead, and bounds on those behind a look for
\* the version, behind the choice and behind OpenShift's versions.
LookAhead ==
  CASE pc = "rke"   -> MaxTries + 4
    [] pc = "aks"   -> MaxTries + 3
    [] pc = "api"   -> MaxTries - tries + 2
    [] pc = "tools" -> 2
    [] OTHER        -> 1

ToMap    == setup.minor + setup.kubelet + setup.version.minor + 20
ToSelect == ToMap + MaxTries + 5
ToOcp    == ToSelect + MaxTries + 5

\* At most as many steps as this are ahead.
Ahead ==
  CASE pc = "start"  -> ToOcp + Down(setup.oc) + 1
    [] pc = "ocp"    -> ToOcp + Down(kv)
    [] pc = "select" -> ToSelect
    [] pc = "map"    -> Down(kv) + 1
    [] pc = "end"    -> 0
    [] OTHER         -> LookAhead + (IF look = "platform" THEN ToSelect ELSE ToMap)

LEMMA DownTyped == \A v : IsVersion(v) => Down(v) \in Nat /\ Down(v) <= v.minor + 1
  BY MinorTyped DEF Down

\* With each version that is passed there are fewer left.
LEMMA DownGoesDown ==
  ASSUME NEW v, IsVersion(v), v # NoVersion
  PROVE  Down(Decrement(v)) < Down(v)
<1>1. v.minor \in Nat /\ Down(v) = v.minor + 1
  BY MinorTyped DEF Down
<1>2. CASE v.minor > 1
  <2>1. IsVersion(Decrement(v)) /\ Decrement(v).minor = v.minor - 1
    BY <1>2, DecrementTyped
  <2>2. Down(Decrement(v)) \in Nat /\ Down(Decrement(v)) <= (v.minor - 1) + 1
    BY <2>1, DownTyped
  <2> QED BY <1>1, <2>2
<1>3. CASE ~(v.minor > 1)
  <2>1. Decrement(v) = NoVersion
    BY <1>3, DecrementTyped
  <2> QED BY <1>1, <2>1 DEF Down
<1> QED BY <1>2, <1>3

\* The numbers there are: what is asked for, and what may be answered.
LEMMA Numbers ==
  ASSUME IInv
  PROVE  /\ MaxTries \in Nat \ {0}
         /\ tries \in Nat /\ tries <= MaxTries
         /\ pc = "api" => tries < MaxTries
         /\ setup.minor \in Nat /\ setup.kubelet \in Nat
         /\ setup.version.minor \in Nat
         /\ Down(setup.oc) \in Nat
         /\ pc \in {"ocp", "map"} => Down(kv) \in Nat
<1>1. /\ IsVersion(setup.version) /\ IsVersion(setup.oc)
      /\ setup.minor \in Nat /\ setup.kubelet \in Nat
  BY SetupTyped DEF IInv, Typed
<1>2. pc \in {"ocp", "map"} => IsVersion(kv)
  BY DEF IInv, Typed
<1>3. tries \in 0..MaxTries /\ (pc = "api" => tries < MaxTries)
  BY DEF IInv, Typed, Looks
<1> QED BY <1>1, <1>2, <1>3, DownTyped, MinorTyped, TriesAssumption

\* What is mapped is not counted down for longer than ToMap says.
LEMMA MapBounded ==
  ASSUME IInv
  PROVE  /\ Down(setup.version) + 1 <= ToMap
         /\ pc = "known" => Down(kube.version) + 1 <= ToMap
<1>1. Down(setup.version) \in Nat /\ Down(setup.version) <= setup.version.minor + 1
  BY SetupTyped, DownTyped DEF IInv, Typed
<1>2. ASSUME pc = "known" PROVE Down(kube.version) + 1 <= ToMap
  <2>1. kube.version \in Versionable /\ IsVersion(kube.version)
    BY <1>2 DEF IInv, Platforms, Typed
  <2>2. /\ K8s(setup.minor).minor = setup.minor /\ K8s(setup.kubelet).minor = setup.kubelet
        /\ Default.minor = 18 /\ Hollow.minor = 0
    BY DEF K8s, Default, Hollow, V
  <2>3. kube.version.minor \in {setup.minor, setup.kubelet, 18, 0}
    BY <2>1, <2>2 DEF Versionable
  <2>4. Down(kube.version) \in Nat /\ Down(kube.version) <= kube.version.minor + 1
    BY <2>1, DownTyped
  <2> QED BY <2>3, <2>4, Numbers DEF ToMap
<1> QED BY <1>1, <1>2, Numbers DEF ToMap

LEMMA BoundsTyped == IInv => ToMap \in Nat /\ ToSelect \in Nat /\ ToOcp \in Nat
  BY Numbers DEF ToMap, ToSelect, ToOcp

LEMMA AheadTyped == IInv => Ahead \in Nat
<1> SUFFICES ASSUME IInv PROVE Ahead \in Nat
  OBVIOUS
<1>1. ToMap \in Nat /\ ToSelect \in Nat /\ ToOcp \in Nat
  BY BoundsTyped
<1>2. LookAhead \in Nat
  BY Numbers DEF LookAhead
<1> QED BY <1>1, <1>2, Numbers DEF Ahead

\* A look that begins is shorter than what follows it allows for.
LEMMA LookBegins ==
  ASSUME IInv, NEW purpose \in {"platform", "version"}, GetKubeVersion(purpose),
         setup' = setup
  PROVE  /\ Ahead' \in Nat
         /\ Ahead' <= MaxTries + 4 + (IF purpose = "platform" THEN ToSelect ELSE ToMap)
<1>1. /\ look' = purpose /\ tries' = 0 /\ pc' \in {"rke", "api"}
      /\ ToSelect' = ToSelect /\ ToMap' = ToMap
  BY DEF GetKubeVersion, ToSelect, ToMap
<1>2. LookAhead' <= MaxTries + 4 /\ LookAhead' \in Nat
  BY <1>1, Numbers DEF LookAhead
<1>3. Ahead' = LookAhead' + (IF purpose = "platform" THEN ToSelect ELSE ToMap)
  BY <1>1 DEF Ahead
<1> QED BY <1>2, <1>3, BoundsTyped, Numbers

LEMMA NextAhead == IInv /\ [Next]_vars => Ahead' < Ahead \/ UNCHANGED own
<1> SUFFICES ASSUME IInv, Next PROVE Ahead' < Ahead \/ UNCHANGED own
  BY DEF own, vars, asking
<1>0. /\ setup' = setup
      /\ ToMap' = ToMap /\ ToSelect' = ToSelect /\ ToOcp' = ToOcp
      /\ ToMap \in Nat /\ ToSelect \in Nat /\ ToOcp \in Nat
      /\ ToSelect = ToMap + MaxTries + 5 /\ ToOcp = ToSelect + MaxTries + 5
  BY SetupSame, BoundsTyped DEF ToMap, ToSelect, ToOcp
<1>1. CASE GetPlatformInfo
  <2>1. Ahead = ToOcp + Down(setup.oc) + 1
    BY <1>1 DEF GetPlatformInfo, Ahead
  <2>2. CASE setup.oc # NoVersion
    <3>1. pc' = "ocp" /\ kv' = setup.oc
      BY <1>1, <2>2 DEF GetPlatformInfo
    <3>2. Ahead' = ToOcp + Down(setup.oc)
      BY <1>0, <3>1 DEF Ahead
    <3> QED BY <1>0, <2>1, <3>2, Numbers
  <2>3. CASE setup.oc = NoVersion
    <3>1. GetKubeVersion("platform")
      BY <1>1, <2>3 DEF GetPlatformInfo
    <3>2. Ahead' \in Nat /\ Ahead' <= MaxTries + 4 + ToSelect
      BY <1>0, <3>1, LookBegins
    <3> QED BY <1>0, <2>1, <3>2, Numbers
  <2> QED BY <2>2, <2>3
<1>2. CASE LookOcp
  <2>1. pc = "ocp" /\ Ahead = ToOcp + Down(kv) /\ IsVersion(kv) /\ Down(kv) \in Nat
    BY <1>2, Numbers DEF LookOcp, Ahead, IInv, Typed
  <2>2. CASE kv \in OcpValid
    <3>1. kv # NoVersion /\ pc' = "select"
      BY <1>2, <2>2, VersionsTyped DEF LookOcp
    <3>2. Ahead' = ToSelect
      BY <1>0, <3>1 DEF Ahead
    <3> QED BY <1>0, <2>1, <3>2, Numbers
  <2>3. CASE kv \notin OcpValid \cup {NoVersion}
    <3>1. pc' = "ocp" /\ kv' = Decrement(kv) /\ kv # NoVersion
      BY <1>2, <2>1, <2>3 DEF LookOcp
    <3>2. Ahead' = ToOcp + Down(Decrement(kv)) /\ Down(Decrement(kv)) \in Nat
      BY <1>0, <2>1, <3>1, DecrementTyped, DownTyped DEF Ahead
    <3> QED BY <1>0, <2>1, <3>1, <3>2, DownGoesDown
  <2>4. CASE kv = NoVersion
    <3>1. kv \notin OcpValid
      BY <2>4, VersionsTyped
    <3>2. GetKubeVersion("platform")
      BY <1>2, <2>4, <3>1 DEF LookOcp
    <3>3. Ahead' \in Nat /\ Ahead' <= MaxTries + 4 + ToSelect
      BY <1>0, <3>2, LookBegins
    <3> QED BY <1>0, <2>1, <3>3, Numbers
  <2> QED BY <2>2, <2>3, <2>4
<1>3. CASE DetectRKE \/ DetectAKS \/ AskInVain \/ AskAPI \/ NoCredentials \/ AskTools
  <2>1. /\ look' = look
        /\ \/ pc = "rke" /\ pc' = "aks"
           \/ pc = "aks" /\ pc' = "api" /\ tries' = tries
           \/ pc = "api" /\ pc' \in {"api", "tools"} /\ tries' = tries + 1
           \/ pc = "api" /\ pc' \in {"tools", "known"}
           \/ pc = "tools" /\ pc' = "known"
    BY <1>3 DEF DetectRKE, DetectAKS, AskInVain, AskAPI, NoCredentials, AskTools, asking
  <2>2. LookAhead' < LookAhead /\ LookAhead \in Nat /\ LookAhead' \in Nat
    BY <1>0, <2>1, Numbers DEF LookAhead
  <2> DEFINE rest == IF look = "platform" THEN ToSelect ELSE ToMap
  <2>3. Ahead = LookAhead + rest /\ Ahead' = LookAhead' + rest
    BY <1>0, <2>1 DEF Ahead
  <2>4. rest \in Nat
    BY <1>0
  <2> HIDE DEF rest
  <2>5. \A n, k, j \in Nat : k < j => k + n < j + n
    OBVIOUS
  <2>6. LookAhead' + rest < LookAhead + rest
    BY <2>2, <2>4, <2>5
  <2> QED BY <2>3, <2>6
<1>4. CASE KnowPlatform
  <2>1. Ahead = 1 + ToSelect /\ Ahead' = ToSelect
    BY <1>0, <1>4 DEF KnowPlatform, Ahead, LookAhead
  <2> QED BY <1>0, <2>1
<1>5. CASE KnowVersion
  <2>1. pc = "known" /\ IsVersion(kube.version)
    BY <1>5 DEF KnowVersion, IInv, Typed
  <2>2. Ahead = 1 + ToMap /\ Ahead' = Down(kube.version) + 1
    BY <1>0, <1>5 DEF KnowVersion, Ahead, LookAhead
  <2> QED BY <1>0, <2>1, <2>2, MapBounded, DownTyped
<1>6. CASE Select
  <2>1. pc = "select" /\ Ahead = ToSelect
    BY <1>6 DEF Select, Ahead
  <2>2. CASE pc' = "end"
    BY <1>0, <2>1, <2>2, Numbers DEF Ahead
  <2>3. CASE pc' = "map" /\ kv' = setup.version
    <3>1. Ahead' = Down(setup.version) + 1
      BY <2>3 DEF Ahead
    <3>2. IsVersion(setup.version)
      BY SetupTyped DEF IInv, Typed
    <3> QED BY <1>0, <2>1, <3>1, <3>2, MapBounded, DownTyped, Numbers
  <2>4. CASE GetKubeVersion("version")
    <3>1. Ahead' \in Nat /\ Ahead' <= MaxTries + 4 + ToMap
      BY <1>0, <2>4, LookBegins
    <3> QED BY <1>0, <2>1, <3>1, Numbers
  <2> QED BY <1>6, <2>2, <2>3, <2>4 DEF Select, End
<1>7. CASE LookLower
  <2>1. pc = "map" /\ pc' = "map" /\ kv' = Decrement(kv) /\ kv # NoVersion
    BY <1>7 DEF LookLower, Lowest
  <2>2. IsVersion(kv)
    BY <2>1 DEF IInv, Typed
  <2>3. Ahead = Down(kv) + 1 /\ Ahead' = Down(Decrement(kv)) + 1
    BY <2>1 DEF Ahead
  <2>4. Down(kv) \in Nat /\ Down(Decrement(kv)) \in Nat
    BY <2>2, DecrementTyped, DownTyped
  <2> QED BY <2>1, <2>2, <2>3, <2>4, DownGoesDown
<1>8. CASE Lookup \/ NotMapped
  <2>1. pc = "map" /\ pc' = "end"
    BY <1>8 DEF Lookup, NotMapped, End
  <2> QED BY <2>1, Numbers DEF Ahead
<1>9. CASE Churn \/ Ended
  BY <1>9 DEF Churn, Ended, own, asking, vars
<1> QED BY <1>1, <1>2, <1>3, <1>4, <1>5, <1>6, <1>7, <1>8, <1>9 DEF Next, Request, Own

(***************************************************************************)
(* Counting versions down, the tries and the two looks come to an end, on  *)
(* any cluster and whatever the routes to it do: every step of the program *)
(* uses up one of a number of steps that is known beforehand, so that only *)
(* a request that is waited for keeps getBenchmarkVersion from returning.  *)
(***************************************************************************)
THEOREM StepsRunOut == Spec => [](Ahead \in Nat) /\ [][Ahead' < Ahead]_own
BY Inductive, AheadTyped, NextAhead, PTL DEF Spec
=============================================================================
