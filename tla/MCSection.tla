----------------------------- MODULE MCSection -----------------------------
(***************************************************************************)
(* Sections of two or three components for TLC, after those of master and  *)
(* node in cfg/config.yaml, on every node that tells them apart.           *)
(***************************************************************************)
EXTENDS Section

Bins == {"kubelet", "hyperkube kubelet", "etcd"}
MCMultiWord == {"hyperkube kubelet"}

NoFiles == [k \in FileKinds |-> <<>>]
NoDefaults == [k \in FileKinds |-> None]

Kubelet ==
  [id |-> "kubelet", name |-> <<"kubelet">>, set |-> TRUE, optional |-> FALSE,
   bins |-> <<"hyperkube kubelet", "kubelet">>,
   files |-> [NoFiles EXCEPT !["conf"] = <<"config", "config.yaml">>,
                             !["kubeconfig"] = <<"kubelet.conf">>],
   default |-> [NoDefaults EXCEPT !["conf"] = "config.yaml",
                                  !["svc"] = ""]]

Etcd ==
  [id |-> "etcd", name |-> <<"etcd">>, set |-> TRUE, optional |-> TRUE,
   bins |-> <<"etcd">>,
   files |-> [NoFiles EXCEPT !["conf"] = <<"kubelet.conf">>],
   default |-> NoDefaults]

\* A component without bins, and one without settings.
Kubernetes ==
  [id |-> "kubernetes", name |-> <<"kubernetes">>, set |-> TRUE,
   optional |-> FALSE, bins |-> <<>>, files |-> NoFiles,
   default |-> [NoDefaults EXCEPT !["conf"] = "config"]]

Flanneld == [Kubernetes EXCEPT !.id = "flanneld", !.name = <<"flanneld">>,
                               !.set = FALSE]

\* Components whose variables begin like those of another.
KubeletKube == [Etcd EXCEPT !.id = "kubeletkube", !.name = <<"kubelet", "kube">>]
KubeletBin == [Etcd EXCEPT !.id = "kubeletbin", !.name = <<"kubelet", "bin">>]

\* A controls file that names the binaries in bins, and files of components.
Text(bins) ==
  <<<<"cat">>, <<"$", "kubelet", "conf">>, <<"$", "kubelet", "svc", ".d">>,
    <<"$", "kubelet", "kube", "conf", "ig">>, <<"$", "etcd", "conf">>,
    <<"$", "proxy", "conf">>>> \o bins

Texts ==
  {Text(<<>>), Text(<<<<"$", "kubelet", "bin">>>>),
   Text(<<<<"$", "kubelet", "bin">>, <<"$", "kubelet", "bin">>>>),
   Text(<<<<"$", "kubelet", "bin", "bin">>, <<"$", "etcd", "bin">>>>)}

MCSetups ==
  {[comps |-> c, text |-> t, audits |-> a, running |-> r, there |-> f,
    denied |-> d] :
     c \in {<<Kubelet, Etcd>>, <<Kubelet, Kubernetes, Flanneld>>,
            <<Kubelet, KubeletKube>>, <<Kubelet, KubeletBin>>,
            <<Etcd, Kubelet>>, <<Etcd, [Kubelet EXCEPT !.optional = TRUE]>>},
     t \in Texts, a \in BOOLEAN, r \in SUBSET Bins,
     f \in SUBSET {"config", "config.yaml", "kubelet.conf"},
     d \in {{}, {"config"}, {"config.yaml"}, {"kubelet.conf"}}}

Sections == {x \in MCSetups : x.there \intersect x.denied = {}}
=============================================================================
