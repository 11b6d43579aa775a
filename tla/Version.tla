------------------------------ MODULE Version ------------------------------
(***************************************************************************)
(* Which benchmark an invocation uses: getPlatformInfo and getKubeVersion  *)
(* (cmd/util.go), the version answered by the API server, retried          *)
(* (cmd/kubernetes_version.go), and getBenchmarkVersion with               *)
(* mapToBenchmarkVersion (cmd/common.go).                                  *)
(*                                                                         *)
(* The cluster is asked over three routes, that come and go while it is    *)
(* asked: the client of the pod ("client"), the address of the API server  *)
(* ("api") and kubectl ("kubectl").                                        *)
(***************************************************************************)
EXTENDS Naturals, Sequences

CONSTANTS
  Setups,    \* node, flags and configuration
  Mappings,  \* the version_mapping of each configuration
  MaxTries   \* how often the version is asked for in one look; the code: 10

ASSUME TriesAssumption == MaxTries \in Nat \ {0}

(***************************************************************************)
(* A version is its text up to the first dot, the number behind it and the *)
(* rest: "ocp-4.12", "eks-1.5.0".  decrementVersion gives up on 0 as it    *)
(* does on a text without a second number, which is all lead here.         *)
(***************************************************************************)
Versions == [lead : STRING, minor : Nat, tail : STRING]

\* The empty text.
None == "none"

V(lead, minor, tail) == [lead |-> lead, minor |-> minor, tail |-> tail]
K8s(minor) == V("1", minor, None)
NoVersion == V(None, 0, None)

\* defaultKubeVersion.
Default == K8s(18)

Routes == {"client", "api", "kubectl"}

(***************************************************************************)
(* What is behind the version in a gitVersion is a sequence of words: k3s1 *)
(* in "v1.27.6+k3s1", eks and a hash in "v1.17.9-eks-4c6976".  A word is   *)
(* its text, and that without the last character, None if there is none.   *)
(***************************************************************************)
Words == [text : STRING \ {None}, cut : STRING]

W(text, cut) == [text |-> text, cut |-> cut]

\* What getKubeVersion puts behind the gitVersion of RKE and of AKS.
Rancher1 == W("rancher1", "rancher")
Aks1 == W("aks1", "aks")

(***************************************************************************)
(* A setup is a record:                                                    *)
(*   version, benchmark   the flags: NoVersion and None if not given       *)
(*   config               the configuration that was found                 *)
(*   oc       the version that the oc client prints, or NoVersion          *)
(*   pod      there is an in-cluster configuration for the client          *)
(*   creds    the certificate and the token of the service account         *)
(*   marks    the signs of "rke" and of "aks" that the nodes carry         *)
(*   answer   what the API server answers: a "version", "garbled" text or  *)
(*            JSON without a version ("hollow")                            *)
(*   minor    the version of the cluster                                   *)
(*   words    what is behind it in the gitVersion                          *)
(*   tool     "kubectl", else "kubelet" (in the PATH or elsewhere), "none" *)
(*   kubelet  the version of that kubelet, 0 if it says none               *)
(***************************************************************************)
SetupOK(x) ==
  /\ x.version \in Versions
  /\ x.benchmark \in STRING
  /\ x.config \in DOMAIN Mappings
  /\ x.oc \in Versions
  /\ x.pod \in BOOLEAN
  /\ x.creds \in BOOLEAN
  /\ x.marks \subseteq {"rke", "aks"}
  /\ x.answer \in {"version", "garbled", "hollow"}
  /\ x.minor \in Nat \ {0}
  /\ x.words \in Seq(Words)
  /\ x.tool \in {"kubectl", "kubelet", "none"}
  /\ x.kubelet \in Nat

ASSUME MappingsAssumption ==
  \A c \in DOMAIN Mappings :
    /\ DOMAIN Mappings[c] \subseteq Versions \ {NoVersion}
    /\ \A v \in DOMAIN Mappings[c] : Mappings[c][v] \in STRING \ {None}

ASSUME SetupsAssumption == \A x \in Setups : SetupOK(x)

VARIABLES
  setup,
  up,        \* the routes on which the cluster answers
  steady,    \* history: up has never changed
  refused,   \* history: how often the API server did not give its version
  pc,
  look,      \* what getKubeVersion is asked for: "platform" or "version"
  rke, aks,  \* isRKE and isAKS of getKubeVersion
  tries,
  kube,      \* its result: base version and the name in the gitVersion
  platform,  \* name and version, the name None if there is none
  kv,        \* the version that mapToBenchmarkVersion is at
  detected,  \* detecetedKubeVersion: a benchmark or a version
  result     \* the benchmark, None before it is known and after an error

env == <<setup, up, steady>>
asking == <<refused, look, rke, aks, tries, kube>>
vars == <<setup, up, steady, refused, pc, look, rke, aks, tries, kube,
          platform, kv, detected, result>>

\* loadVersionMapping.
Mapping == Mappings[setup.config]

Nothing == [benchmark |-> None, version |-> NoVersion]
NoPlatform == [name |-> None, version |-> NoVersion]

Init ==
  /\ setup \in Setups
  /\ up \in SUBSET Routes
  /\ steady = TRUE
  /\ refused = 0
  /\ pc = "start"
  /\ look = "platform"
  /\ rke = FALSE
  /\ aks = FALSE
  /\ tries = 0
  /\ kube = NoPlatform
  /\ platform = NoPlatform
  /\ kv = NoVersion
  /\ detected = Nothing
  /\ result = None

-----------------------------------------------------------------------------
(* Tables and pure functions.                                              *)

\* Mutant of Decrement: versions count down to 0.
DecrementToZero(v) ==
  IF v.minor = 0 THEN NoVersion ELSE [v EXCEPT !.minor = @ - 1]

\* decrementVersion.
Decrement(v) == IF v.minor <= 1 THEN NoVersion ELSE [v EXCEPT !.minor = @ - 1]

EksBenchmark(minor) ==
  CASE minor \in 15..19 -> "eks-1.0.1"
    [] minor \in 29..31 -> "eks-1.7.0"
    [] minor \in 32..34 -> "eks-1.8.0"
    [] OTHER            -> "eks-1.5.0"

AksBenchmark(minor) ==
  CASE minor \in 19..24 -> "aks-1.0"
    [] minor \in 29..31 -> "aks-1.7"
    [] OTHER            -> "aks-1.8"

GkeBenchmark(minor) ==
  CASE minor \in 15..19 -> "gke-1.0"
    [] minor \in 20..27 -> "gke-1.2.0"
    [] minor \in 28..29 -> "gke-1.6.0"
    [] minor = 30       -> "gke-1.8.0"
    [] OTHER            -> "gke-1.9.0"

K3sBenchmark(minor) ==
  CASE minor \in 22..23 -> "k3s-cis-1.23"
    [] minor = 24       -> "k3s-cis-1.24"
    [] minor = 25       -> "k3s-cis-1.7"
    [] minor = 26       -> "k3s-cis-1.8"
    [] minor = 27       -> "k3s-cis-1.9"
    [] minor = 28       -> "k3s-cis-1.10"
    [] OTHER            -> "k3s-cis-1.11"

\* Mutant of RkeBenchmark: named after the Kubernetes version throughout.
RkeBenchmarkByVersion(minor) ==
  CASE minor = 23 -> "rke-cis-1.23"
    [] minor = 24 -> "rke-cis-1.24"
    [] minor = 25 -> "rke-cis-1.25"
    [] OTHER      -> "rke-cis-1.7"

RkeBenchmark(minor) ==
  CASE minor = 23 -> "rke-cis-1.23"
    [] minor = 24 -> "rke-cis-1.24"
    [] OTHER      -> "rke-cis-1.7"

Rke2Benchmark(minor) ==
  CASE minor = 23 -> "rke2-cis-1.23"
    [] minor = 24 -> "rke2-cis-1.24"
    [] minor = 25 -> "rke2-cis-1.7"
    [] minor = 26 -> "rke2-cis-1.8"
    [] OTHER      -> "rke2-cis-1.9"

OcpBenchmarks ==
  {<<V("3", 10, None), "rh-0.7">>, <<V("4", 1, None), "rh-1.0">>,
   <<V("4", 11, None), "rh-1.4">>, <<V("4", 13, None), "rh-1.8">>,
   <<V("4", 14, None), "rh-1.9">>}

OcpBenchmark(v) ==
  IF \E b \in OcpBenchmarks : b[1] = v
  THEN (CHOOSE b \in OcpBenchmarks : b[1] = v)[2] ELSE None

\* getPlatformBenchmarkVersion: None for a platform without benchmarks.
PlatformBenchmark(p) ==
  CASE p.name = "eks"     -> EksBenchmark(p.version.minor)
    [] p.name = "aks"     -> AksBenchmark(p.version.minor)
    [] p.name = "gke"     -> GkeBenchmark(p.version.minor)
    [] p.name = "ocp"     -> OcpBenchmark(p.version)
    [] p.name = "k3s"     -> K3sBenchmark(p.version.minor)
    [] p.name = "rancher" -> RkeBenchmark(p.version.minor)
    [] p.name = "rke2r"   -> Rke2Benchmark(p.version.minor)
    [] p.name = "aliyun"  -> "ack-1.0"
    [] p.name = "vmware"  -> "tkgi-1.2.53"
    [] OTHER              -> None

\* valid of getOcpValidVersion.
OcpValid ==
  {V("3", 10, None), V("4", 1, None), V("4", 11, None), V("4", 13, None),
   V("4", 14, None)}

-----------------------------------------------------------------------------
(* getPlatformInfo and getKubeVersion.                                     *)

\* getKubeVersion begins, for the platform or for the version.
GetKubeVersion(purpose) ==
  /\ look' = purpose
  /\ rke' = FALSE
  /\ aks' = FALSE
  /\ tries' = 0
  /\ pc' = IF setup.pod THEN "rke" ELSE "api"
  /\ UNCHANGED <<refused, kube>>

\* getPlatformInfo looks for oc first.  It is evaluated with the arguments
\* of getBenchmarkVersion, whatever the flags are.
GetPlatformInfo ==
  /\ pc = "start"
  /\ \/ /\ setup.oc # NoVersion
        /\ pc' = "ocp"
        /\ kv' = setup.oc
        /\ UNCHANGED asking
     \/ /\ setup.oc = NoVersion
        /\ GetKubeVersion("platform")
        /\ UNCHANGED kv
  /\ UNCHANGED <<env, platform, detected, result>>

\* getOcpValidVersion: down, one version at a time.  Without a valid one the
\* cluster is asked as if there were no oc.
LookOcp ==
  /\ pc = "ocp"
  /\ \/ /\ kv \in OcpValid
        /\ platform' = [name |-> "ocp", version |-> kv]
        /\ pc' = "select"
        /\ UNCHANGED <<asking, kv>>
     \/ /\ kv \notin OcpValid \cup {NoVersion}
        /\ kv' = Decrement(kv)
        /\ UNCHANGED <<asking, pc, platform>>
     \/ /\ kv = NoVersion
        /\ GetKubeVersion("platform")
        /\ UNCHANGED <<kv, platform>>
  /\ UNCHANGED <<env, detected, result>>

\* IsRKE and IsAKS: an error counts as no, and nothing is retried.
DetectRKE ==
  /\ pc = "rke"
  /\ rke' = ("client" \in up /\ "rke" \in setup.marks)
  /\ pc' = "aks"
  /\ UNCHANGED <<env, refused, look, aks, tries, kube, platform, kv, detected,
                 result>>

DetectAKS ==
  /\ pc = "aks"
  /\ aks' = ("client" \in up /\ "aks" \in setup.marks)
  /\ pc' = "api"
  /\ UNCHANGED <<env, refused, look, rke, tries, kube, platform, kv, detected,
                 result>>

\* getPlatformInfoFromVersion.  In its regular expression, [-+](\w+), some
\* separators or none, and \w+, the group takes as much of the first word as
\* leaves something for the last \w+: the whole word if there is another one
\* behind it, else all but its last character.
NameIn(words) ==
  CASE Len(words) = 0 -> None
    [] Len(words) = 1 -> Head(words).cut
    [] Len(words) > 1 -> Head(words).text

\* The marks that were seen, as words.
Appended ==
  (IF rke THEN <<Rancher1>> ELSE <<>>) \o (IF aks THEN <<Aks1>> ELSE <<>>)

\* Mutant of GitVersion: the marks come first.
GitVersionMarksFirst == Appended \o setup.words

\* The gitVersion that getKubeVersion returns after the API server answered.
GitVersion == setup.words \o Appended

\* What Major.Minor makes of an answer without the two.
Hollow == V(".", 0, None)

Answer(base, name) == [name |-> name, version |-> base]

\* Mutant of AskInVain: the first error is the last.
AskInVainOnce ==
  /\ pc = "api"
  /\ setup.creds
  /\ "api" \notin up
  /\ tries' = tries + 1
  /\ refused' = refused + 1
  /\ pc' = "tools"
  /\ UNCHANGED <<env, look, rke, aks, kube, platform, kv, detected, result>>

\* getWebDataWithRetry: one try that fails.
AskInVain ==
  /\ pc = "api"
  /\ setup.creds
  /\ "api" \notin up
  /\ tries' = tries + 1
  /\ refused' = refused + 1
  /\ pc' = IF tries' < MaxTries THEN "api" ELSE "tools"
  /\ UNCHANGED <<env, look, rke, aks, kube, platform, kv, detected, result>>

\* A try that succeeds, and extractVersion.
AskAPI ==
  /\ pc = "api"
  /\ setup.creds
  /\ "api" \in up
  /\ IF setup.answer = "garbled"
     THEN pc' = "tools" /\ UNCHANGED kube
     ELSE /\ pc' = "known"
          /\ kube' = IF setup.answer = "hollow" THEN Answer(Hollow, None)
                     ELSE Answer(K8s(setup.minor), NameIn(GitVersion))
  /\ UNCHANGED <<env, refused, look, rke, aks, tries, platform, kv, detected,
                 result>>

\* Without a certificate or a token there is nothing to try.
NoCredentials ==
  /\ pc = "api"
  /\ ~setup.creds
  /\ pc' = "tools"
  /\ UNCHANGED <<env, asking, platform, kv, detected, result>>

\* kubectl, else kubelet, else the default; neither says anything of marks.
AskTools ==
  /\ pc = "tools"
  /\ kube' = CASE setup.tool = "kubectl" /\ "kubectl" \in up ->
                    Answer(K8s(setup.minor), NameIn(setup.words))
               [] setup.tool = "kubelet" /\ setup.kubelet # 0 ->
                    Answer(K8s(setup.kubelet), None)
               [] OTHER -> Answer(Default, None)
  /\ pc' = "known"
  /\ UNCHANGED <<env, refused, look, rke, aks, tries, platform, kv, detected,
                 result>>

\* getKubeVersion returns.
KnowPlatform ==
  /\ pc = "known"
  /\ look = "platform"
  /\ platform' = IF kube.name = None THEN NoPlatform ELSE kube
  /\ pc' = "select"
  /\ UNCHANGED <<env, asking, kv, detected, result>>

\* Mutant of KnowVersion: the version does not get into the report.
KnowVersionInside ==
  /\ pc = "known"
  /\ look = "version"
  /\ kv' = kube.version
  /\ pc' = "map"
  /\ UNCHANGED <<env, asking, platform, detected, result>>

KnowVersion ==
  /\ pc = "known"
  /\ look = "version"
  /\ kv' = kube.version
  /\ detected' = [Nothing EXCEPT !.version = kube.version]
  /\ pc' = "map"
  /\ UNCHANGED <<env, asking, platform, result>>

-----------------------------------------------------------------------------
(* getBenchmarkVersion.                                                    *)

End(benchmark) == pc' = "end" /\ result' = benchmark

\* The flags, then the platform; else the version is asked for.
Select ==
  /\ pc = "select"
  /\ LET b == PlatformBenchmark(platform) IN
     \/ /\ setup.benchmark # None
        /\ End(IF setup.version # NoVersion THEN None ELSE setup.benchmark)
        /\ UNCHANGED <<asking, kv, detected>>
     \/ /\ setup.benchmark = None /\ setup.version # NoVersion
        /\ pc' = "map" /\ kv' = setup.version
        /\ UNCHANGED <<asking, detected, result>>
     \/ /\ setup.benchmark = None /\ setup.version = NoVersion /\ b # None
        /\ detected' = [Nothing EXCEPT !.benchmark = b]
        /\ End(b)
        /\ UNCHANGED <<asking, kv>>
     \/ /\ setup.benchmark = None /\ setup.version = NoVersion /\ b = None
        /\ GetKubeVersion("version")
        /\ UNCHANGED <<kv, detected, result>>
  /\ UNCHANGED <<env, platform>>

\* Mutant of Lowest: only the default version ends the loop.
LowestDefault == kv = Default

\* Where the loop of mapToBenchmarkVersion ends.
Lowest == kv \in {Default, NoVersion}

\* loadVersionMapping and mapToBenchmarkVersion: down, one version at a time.
Lookup ==
  /\ pc = "map"
  /\ kv \in DOMAIN Mapping
  /\ End(Mapping[kv])
  /\ UNCHANGED <<env, asking, platform, kv, detected>>

LookLower ==
  /\ pc = "map"
  /\ DOMAIN Mapping # {}
  /\ kv \notin DOMAIN Mapping
  /\ ~Lowest
  /\ kv' = Decrement(kv)
  /\ UNCHANGED <<env, asking, pc, platform, detected, result>>

NotMapped ==
  /\ pc = "map"
  /\ \/ DOMAIN Mapping = {}
     \/ kv \notin DOMAIN Mapping /\ Lowest
  /\ End(None)
  /\ UNCHANGED <<env, asking, platform, kv, detected>>

\* Routes open and close.
Churn ==
  /\ pc # "end"
  /\ up' \in SUBSET Routes \ {up}
  /\ steady' = FALSE
  /\ UNCHANGED <<setup, asking, pc, platform, kv, detected, result>>

Ended == pc = "end" /\ UNCHANGED vars

\* What waits for the cluster or for a program that asks it.
Request ==
  \/ GetPlatformInfo \/ DetectRKE \/ DetectAKS
  \/ AskInVain \/ AskAPI \/ AskTools

Own ==
  \/ LookOcp \/ NoCredentials \/ KnowPlatform \/ KnowVersion
  \/ Select \/ Lookup \/ LookLower \/ NotMapped

Next == Request \/ Own \/ Churn \/ Ended

Spec == Init /\ [][Next]_vars

\* The program goes on as long as it can.  It may wait for ever for a
\* request: neither the clients of the API server nor the commands have a
\* timeout.
FairSpec == Spec /\ WF_vars(Own)

-----------------------------------------------------------------------------
Flagged == setup.version # NoVersion \/ setup.benchmark # None

\* Of some versions those at or below v, but not below a minor version low,
\* and the highest of them.
Below(v, versions, low) ==
  {w \in versions :
     w.lead = v.lead /\ w.tail = v.tail /\ low <= w.minor /\ w.minor <= v.minor}

Highest(versions) ==
  CHOOSE w \in versions : \A u \in versions : u.minor <= w.minor

\* From 1.18 on nothing below that counts, and 0 is never counted down to.
Floor(v) ==
  IF v.lead = "1" /\ v.tail = None /\ v.minor >= 18 THEN 18
  ELSE IF v.minor = 0 THEN 0 ELSE 1

\* The benchmark of the nearest mapped version, None if there is none.
Nearest(v) ==
  LET below == Below(v, DOMAIN Mapping, Floor(v)) IN
  IF below = {} THEN None ELSE Mapping[Highest(below)]

\* The benchmark of the OpenShift that oc tells of.
OcpOf ==
  LET below == Below(setup.oc, OcpValid, 1) IN
  IF below = {} THEN None ELSE OcpBenchmark(Highest(below))

\* A version, be it given or detected, is measured against the benchmark of
\* the nearest version at or below it that has one, and there is an error if
\* and only if there is none (mapToBenchmarkVersion); so is OpenShift, whose
\* versions have a list of their own (getOcpValidVersion).
NearestBelow ==
  pc = "end" =>
    /\ setup.benchmark = None /\ setup.version # NoVersion =>
         result = Nearest(setup.version)
    /\ detected.version # NoVersion => result = Nearest(detected.version)
    /\ ~Flagged /\ OcpOf # None => result = OcpOf

\* The words by which the platform of the cluster may be told: the first one
\* of its gitVersion, and those for the marks that its nodes carry.
Signs ==
  (IF setup.words = <<>> THEN {} ELSE {Head(setup.words)})
    \cup (IF "rke" \in setup.marks THEN {Rancher1} ELSE {})
    \cup (IF "aks" \in setup.marks THEN {Aks1} ELSE {})

\* What may be read in them.
PlatformNames == {None} \cup UNION {{w.text, w.cut} : w \in Signs}

Of(name) == PlatformBenchmark([name |-> name, version |-> K8s(setup.minor)])

\* The flags win: with one of them nothing that is detected has a say, nor
\* does the report claim that anything was.  Without, however the routes come
\* and go, a benchmark that is detected is that of a platform the cluster is
\* on, or that of the version of the cluster, of the kubelet or of the default;
\* and the report names what it was derived from.
EvidenceOrDefault ==
  /\ pc = "end" /\ Flagged =>
       /\ detected = Nothing
       /\ setup.benchmark # None =>
            result = IF setup.version = NoVersion THEN setup.benchmark ELSE None
  /\ pc = "end" /\ ~Flagged =>
       /\ detected.benchmark # None =>
            /\ detected.version = NoVersion
            /\ result = detected.benchmark
            /\ result \in {OcpOf} \cup {Of(name) : name \in PlatformNames}
       /\ detected.benchmark = None =>
            detected.version \in
              {K8s(setup.minor), K8s(setup.kubelet), Default, Hollow}

Askable == setup.creds /\ setup.answer = "version" /\ OcpOf = None

\* The name that the gitVersion spells whatever is seen of the marks: a word
\* with another one behind it stays as it is, a single one does if nothing is
\* put behind it.
Spelled ==
  CASE Len(setup.words) > 1 -> Head(setup.words).text
    [] Len(setup.words) = 1 /\ setup.marks = {} -> Head(setup.words).cut
    [] OTHER -> None

\* An API server that is away for fewer tries than there are is waited for:
\* a cluster whose gitVersion spells its platform gets the benchmark of the
\* platform, one of which no sign names a platform that of its own version.
ShortOutage ==
  pc = "end" /\ ~Flagged /\ Askable /\ refused < MaxTries =>
    /\ Of(Spelled) # None => result = Of(Spelled)
    /\ (\A name \in PlatformNames : Of(name) = None) =>
         result = Nearest(K8s(setup.minor))

\* All routes have been open all the time, and there are marks to be seen.
MarksInSight ==
  /\ ~Flagged /\ Askable /\ setup.pod /\ setup.marks # {}
  /\ steady /\ {"client", "api"} \subseteq up

\* What a cluster with marks is taken for: what its gitVersion says first, in
\* full; else what its nodes are marked as, but for nothing if they carry both
\* marks, for the one of RKE is then no longer the last word.
KnownAs ==
  CASE setup.words # <<>> -> Head(setup.words).text
    [] setup.words = <<>> /\ setup.marks = {"rke"} -> "rancher"
    [] setup.words = <<>> /\ setup.marks = {"aks"} -> "aks"
    [] OTHER -> None

\* RKE and AKS are known by their nodes, which are asked once.  If all the
\* routes are open all the time, a mark tells the platform exactly if it is
\* all there is behind the version: behind the word of a gitVersion like
\* those of K3s and RKE2 it makes another word of it, k3s1 for k3s, and two
\* marks make rancher1 of rancher, of which none is a platform.  The benchmark
\* is then that of the version of the cluster.
SteadyMarks ==
  pc = "end" /\ MarksInSight =>
    result = IF Of(KnownAs) # None THEN Of(KnownAs)
             ELSE Nearest(K8s(setup.minor))

\* What is chosen without --benchmark is one of these: the keys of
\* target_mapping, which validTargets asks for.
HasTargets(benchmarks) ==
  setup.benchmark = None /\ result # None => result \in benchmarks

Waiting == pc \in {"start", "rke", "aks", "api", "tools"}

\* Either a benchmark is settled, or the program waits for one request for
\* ever: counting down and the tries come to an end.
OnlyRequestsHang ==
  <>(pc = "end") \/ (<>[]Waiting /\ <>[][~Request]_vars)
=============================================================================
