----------------------------- MODULE MCVersion -----------------------------
(***************************************************************************)
(* Instances of Version for TLC: the mapping of cfg/config.yaml, clusters  *)
(* of every platform on both sides of every step of the tables, every way  *)
(* to reach them, and every kind of flag.                                  *)
(***************************************************************************)
EXTENDS Version

\* version_mapping: the versions of Kubernetes, the others that are mapped to
\* a benchmark of another name, and the benchmarks that map to themselves.
Cis ==
  [m \in 15..35 |->
     CASE m = 15       -> "cis-1.5"
       [] m \in 16..18 -> "cis-1.6"
       [] m \in 19..21 -> "cis-1.20"
       [] m \in 22..23 -> "cis-1.23"
       [] m = 24       -> "cis-1.24"
       [] m = 25       -> "cis-1.7"
       [] m = 26       -> "cis-1.8"
       [] m = 27       -> "cis-1.9"
       [] m = 28       -> "cis-1.10"
       [] m \in 29..31 -> "cis-1.11"
       [] m \in 32..33 -> "cis-1.12"
       [] OTHER        -> "cis-2.0"]

OpenShiftVersions ==
  {<<V("ocp-3", 10, None), "rh-0.7">>, <<V("ocp-3", 11, None), "rh-0.7">>,
   <<V("ocp-4", 0, None), "rh-1.0">>, <<V("ocp-4", 11, None), "rh-1.4">>,
   <<V("ocp-4", 13, None), "rh-1.8">>, <<V("ocp-4", 14, None), "rh-1.9">>}

Themselves ==
  {<<V("eks-1", 0, ".1"), "eks-1.0.1">>, <<V("eks-1", 1, ".0"), "eks-1.1.0">>,
   <<V("eks-1", 2, ".0"), "eks-1.2.0">>, <<V("eks-1", 5, ".0"), "eks-1.5.0">>,
   <<V("eks-1", 7, ".0"), "eks-1.7.0">>, <<V("eks-1", 8, ".0"), "eks-1.8.0">>,
   <<V("gke-1", 0, None), "gke-1.0">>, <<V("gke-1", 2, ".0"), "gke-1.2.0">>,
   <<V("gke-1", 6, ".0"), "gke-1.6.0">>, <<V("gke-1", 8, ".0"), "gke-1.8.0">>,
   <<V("gke-1", 9, ".0"), "gke-1.9.0">>,
   <<V("aks-1", 0, None), "aks-1.0">>, <<V("aks-1", 7, None), "aks-1.7">>,
   <<V("aks-1", 8, None), "aks-1.8">>, <<V("ack-1", 0, None), "ack-1.0">>,
   <<V("cis-1.6-k3s", 0, None), "cis-1.6-k3s">>,
   <<V("cis-1.24-microk8s", 0, None), "cis-1.24-microk8s">>,
   <<V("tkgi-1", 2, ".53"), "tkgi-1.2.53">>}
  \cup
  {<<V("k3s-cis-1", 7, None), "k3s-cis-1.7">>,
   <<V("k3s-cis-1", 8, None), "k3s-cis-1.8">>,
   <<V("k3s-cis-1", 9, None), "k3s-cis-1.9">>,
   <<V("k3s-cis-1", 10, None), "k3s-cis-1.10">>,
   <<V("k3s-cis-1", 11, None), "k3s-cis-1.11">>,
   <<V("k3s-cis-1", 23, None), "k3s-cis-1.23">>,
   <<V("k3s-cis-1", 24, None), "k3s-cis-1.24">>,
   <<V("rke-cis-1", 7, None), "rke-cis-1.7">>,
   <<V("rke-cis-1", 23, None), "rke-cis-1.23">>,
   <<V("rke-cis-1", 24, None), "rke-cis-1.24">>,
   <<V("rke2-cis-1", 7, None), "rke2-cis-1.7">>,
   <<V("rke2-cis-1", 8, None), "rke2-cis-1.8">>,
   <<V("rke2-cis-1", 9, None), "rke2-cis-1.9">>,
   <<V("rke2-cis-1", 23, None), "rke2-cis-1.23">>,
   <<V("rke2-cis-1", 24, None), "rke2-cis-1.24">>}

Others == OpenShiftVersions \cup Themselves

Shipped ==
  [v \in {K8s(m) : m \in 15..35} \cup {o[1] : o \in Others} |->
     IF v.lead = "1" THEN Cis[v.minor]
     ELSE (CHOOSE o \in Others : o[1] = v)[2]]

\* A mapping of one's own, with gaps and without the default.
Gaps ==
  [v \in {K8s(16), K8s(22), K8s(27)} |-> Cis[v.minor]]

MCMappings ==
  [c \in {"shipped", "gaps", "none"} |->
     CASE c = "shipped" -> Shipped
       [] c = "gaps"    -> Gaps
       [] OTHER         -> [v \in {} |-> None]]

Base ==
  [version |-> NoVersion, benchmark |-> None, config |-> "shipped",
   oc |-> NoVersion, pod |-> TRUE, creds |-> TRUE, marks |-> {},
   answer |-> "version", minor |-> 27, words |-> <<>>, tool |-> "none",
   kubelet |-> 0]

\* What gitVersions say, in the form of getPlatformInfoFromVersion's test:
\* names with words behind them, and names with one character behind them.
Eks == <<W("eks", "ek"), W("4c6976", "4c697")>>
Gke == <<W("gke", "gk"), W("1", None)>>
Aliyun == <<W("aliyun", "aliyu"), W("1", None)>>
Vmware == <<W("vmware", "vmwar"), W("2", None)>>
Aks == <<Aks1>>
K3s == <<W("k3s1", "k3s")>>
Rke2 == <<W("rke2r1", "rke2r")>>
Rancher == <<Rancher1>>
RancherAgain == <<Rancher1, W("1", None)>>
K0s == <<W("k0s", "k0")>>
OneLetter == <<W("x", None)>>

GitVersions ==
  {<<>>, Eks, Gke, Aliyun, Vmware, Aks, K3s, Rke2, Rancher, RancherAgain, K0s,
   OneLetter}

\* Every platform and both sides of every step of its table.
OnPlatforms ==
  {[Base EXCEPT !.words = w, !.minor = m] :
     w \in GitVersions,
     m \in {14, 15, 19, 20, 22, 23, 24, 25, 26, 27, 28, 29, 30, 31, 32, 34,
            35, 36}}

\* Every gitVersion with every mark behind it.
Marked ==
  {[Base EXCEPT !.words = w, !.marks = k] :
     w \in GitVersions, k \in SUBSET {"rke", "aks"}}

\* Every way to get at the version and at the platform.
Reaching ==
  {[Base EXCEPT !.pod = p, !.creds = c, !.marks = k, !.answer = a,
                !.words = w, !.tool = t[1], !.kubelet = t[2]] :
     p \in BOOLEAN, c \in BOOLEAN, k \in SUBSET {"rke", "aks"},
     a \in {"version", "garbled", "hollow"}, w \in {<<>>, Eks, K3s},
     t \in {<<"kubectl", 0>>, <<"kubelet", 26>>, <<"kubelet", 0>>,
            <<"none", 0>>}}

\* OpenShift, with an oc of this and that version.
OpenShifts ==
  {[Base EXCEPT !.oc = v, !.version = f] :
     v \in {V("3", 9, None), V("3", 11, None), V("4", 5, None),
            V("4", 12, None), V("4", 17, None), V("5", 2, None)},
     f \in {NoVersion, K8s(30)}}

\* The flags, on a cluster with and without a platform.
Flags ==
  {[Base EXCEPT !.version = v, !.benchmark = b, !.words = w, !.config = g] :
     v \in {NoVersion, K8s(1), K8s(14), K8s(17), K8s(18), K8s(21), K8s(36),
            V("1", 18, ".3"), V("ocp-4", 5, None), V("ocp-4", 12, None),
            V("eks-1", 6, ".0"), V("eks-1", 0, ".1"),
            V("cis-1.6-k3s", 0, None), V("latest", 0, None)},
     b \in {None, "cis-1.8"},
     w \in {<<>>, Eks},
     g \in DOMAIN MCMappings}

MCSetups ==
  OnPlatforms \cup Marked \cup Reaching \cup OpenShifts \cup Flags

\* The keys of target_mapping in cfg/config.yaml.
Benchmarks ==
  {"cis-1.5", "cis-1.6", "cis-1.6-k3s", "cis-1.20", "cis-1.23", "cis-1.24",
   "cis-1.24-microk8s", "cis-1.7", "cis-1.8", "cis-1.9", "cis-1.10",
   "cis-1.11", "cis-1.12", "cis-2.0", "gke-1.0", "gke-1.2.0", "gke-1.6.0",
   "gke-1.8.0", "gke-1.9.0", "eks-1.0.1", "eks-1.1.0", "eks-1.2.0",
   "eks-1.5.0", "eks-1.7.0", "eks-1.8.0", "rh-0.7", "aks-1.0", "aks-1.7",
   "aks-1.8", "ack-1.0", "rh-1.0", "rh-1.4", "rh-1.8", "rh-1.9",
   "eks-stig-kubernetes-v1r6", "tkgi-1.2.53", "k3s-cis-1.7", "k3s-cis-1.8",
   "k3s-cis-1.9", "k3s-cis-1.10", "k3s-cis-1.11", "k3s-cis-1.23",
   "k3s-cis-1.24", "rke-cis-1.7", "rke-cis-1.23", "rke-cis-1.24",
   "rke2-cis-1.7", "rke2-cis-1.8", "rke2-cis-1.9", "rke2-cis-1.23",
   "rke2-cis-1.24"}

\* Whatever is detected has targets: the tables of cmd/util.go and the two
\* mappings of cfg/config.yaml, kept by hand in two files, agree, so that
\* validTargets does not refuse what getBenchmarkVersion chose.
AnswerHasTargets == HasTargets(Benchmarks)
=============================================================================
