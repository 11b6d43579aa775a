--------------------------- MODULE SectionProofs ---------------------------
(***************************************************************************)
(* Proofs about Section, for all sections, all controls files and all      *)
(* nodes: how the search for binaries and files goes on (Searching), what  *)
(* it has found (FoundInv) and at what it gives up (DeniedInv), what has   *)
(* become of each word of the text (TextInv) and which binaries are noted  *)
(* (SubsInv).                                                              *)
(***************************************************************************)
EXTENDS Section, ProofLemmas

\* The names of the kinds, one by one.
LEMMA KindList ==
  /\ DOMAIN Kinds = 1..6 /\ Len(Kinds) = 6
  /\ Kinds[1] = "bin" /\ Kinds[2] = "conf" /\ Kinds[3] = "svc"
  /\ Kinds[4] = "kubeconfig" /\ Kinds[5] = "cafile" /\ Kinds[6] = "datadir"
  BY DEF Kinds

\* No two of them are the same, and all but the first are those of files.
LEMMA KindsDiffer ==
  /\ \A m, n \in 1..6 : Kinds[m] = Kinds[n] => m = n
  /\ \A n \in 2..6 : Kinds[n] \in FileKinds /\ Kinds[n] # "bin"
  /\ \A k \in FileKinds : k # "bin" /\ \E n \in 2..6 : k = Kinds[n]
  /\ \A n \in 1..6 : Kinds[n] \in KindNames
  /\ \A k \in KindNames : \E n \in 1..6 : k = Kinds[n]
  /\ KindNames = {"bin"} \union FileKinds
<1> USE KindList
<1>1. \A m, n \in 1..6 : Kinds[m] = Kinds[n] => m = n
  OBVIOUS
<1>2. \A n \in 2..6 : Kinds[n] \in FileKinds /\ Kinds[n] # "bin"
  BY DEF FileKinds
<1>3. \A k \in FileKinds : k # "bin" /\ \E n \in 2..6 : k = Kinds[n]
  BY DEF FileKinds
<1>4. \A n \in 1..6 : Kinds[n] \in KindNames
  BY DEF KindNames
<1>5. \A k \in KindNames : \E n \in 1..6 : k = Kinds[n]
  BY DEF KindNames
<1>6. KindNames = {"bin"} \union FileKinds
  BY <1>2, <1>3, <1>4, <1>5
<1> QED BY <1>1, <1>2, <1>3, <1>4, <1>5, <1>6

\* What the assumption says of the component of a section.
LEMMA ComponentTypes ==
  ASSUME setup \in Setups, NEW i \in Indices
  PROVE  /\ setup.comps[i] \in Components
         /\ Len(setup.comps) \in Nat
         /\ Indices = 1..Len(setup.comps)
         /\ setup.comps[i].bins \in Seq(STRING)
         /\ \A k \in FileKinds : /\ setup.comps[i].files[k] \in Seq(STRING)
                                 /\ setup.comps[i].default[k] \in STRING \ {"$"}
         /\ setup.comps[i].name \in Seq(STRING)
         /\ setup.comps[i].id \in STRING
         /\ Candidates(setup.comps[i]) \intersect {None, "$"} = {}
<1>1. SetupOK(setup)
  BY SetupsAssumption
<1>2. setup.comps \in Seq(Components)
  BY <1>1 DEF SetupOK
<1>3. setup.comps[i] \in Components
  BY <1>2 DEF Indices
<1> DEFINE c == setup.comps[i]
<1>4. /\ Len(setup.comps) \in Nat
      /\ Indices = 1..Len(setup.comps)
  BY <1>2 DEF Indices
<1>5. /\ c.bins \in Seq(STRING)
      /\ c.files \in [FileKinds -> Seq(STRING)]
      /\ c.default \in [FileKinds -> STRING]
      /\ c.name \in Seq(STRING)
      /\ c.id \in STRING
  BY <1>3 DEF Components
<1>6. /\ \A k \in FileKinds : c.default[k] # "$"
      /\ Candidates(c) \intersect {None, "$"} = {}
  BY <1>1 DEF SetupOK, Indices
<1> QED BY <1>3, <1>4, <1>5, <1>6

\* The place that First names.
LEMMA FirstIs ==
  ASSUME NEW c \in Seq(STRING), NEW present, NEW n \in 1..Len(c) + 1,
         \A m \in 1..n - 1 : c[m] \notin present,
         n <= Len(c) => c[n] \in present
  PROVE  First(c, present) = n
<1> DEFINE P(x) == /\ \A m \in 1..x - 1 : c[m] \notin present
                   /\ x <= Len(c) => c[x] \in present
<1>1. P(n)
  OBVIOUS
<1>2. ASSUME NEW x \in 1..Len(c) + 1, P(x)
      PROVE  x = n
  <2>1. x \in Nat /\ n \in Nat /\ Len(c) \in Nat
    OBVIOUS
  <2>2. ~(x < n)
    <3> SUFFICES ASSUME x < n PROVE FALSE
      OBVIOUS
    <3>1. x \in 1..n - 1 /\ x <= Len(c)
      BY <2>1
    <3> QED BY <1>2, <3>1
  <2>3. ~(n < x)
    <3> SUFFICES ASSUME n < x PROVE FALSE
      OBVIOUS
    <3>1. n \in 1..x - 1 /\ n <= Len(c)
      BY <2>1
    <3> QED BY <1>1, <1>2, <3>1
  <2> QED BY <2>1, <2>2, <2>3
<1>3. First(c, present) = CHOOSE x \in 1..Len(c) + 1 : P(x)
  BY DEF First
<1> HIDE DEF P
<1> QED BY <1>1, <1>2, <1>3

\* It is one behind the last if none is present.
LEMMA FirstIsBehind ==
  ASSUME NEW c \in Seq(STRING), NEW present,
         \A m \in DOMAIN c : c[m] \notin present
  PROVE  First(c, present) = Len(c) + 1
<1>1. /\ Len(c) \in Nat /\ DOMAIN c = 1..Len(c)
      /\ Len(c) + 1 \in 1..Len(c) + 1
      /\ (Len(c) + 1) - 1 = Len(c) /\ ~(Len(c) + 1 <= Len(c))
  OBVIOUS
<1> DEFINE n == Len(c) + 1
<1>2. \A m \in 1..n - 1 : c[m] \notin present
  BY <1>1
<1>3. n <= Len(c) => c[n] \in present
  BY <1>1
<1>4. n \in 1..Len(c) + 1
  BY <1>1
<1> HIDE DEF n
<1>5. First(c, present) = n
  BY <1>2, <1>3, <1>4, FirstIs
<1> QED BY <1>5 DEF n

\* There is such a place: of some numbers one is the least.
LEMMA FirstType ==
  ASSUME NEW c \in Seq(STRING), NEW present
  PROVE  First(c, present) \in 1..Len(c) + 1
<1> DEFINE T == {m \in DOMAIN c : c[m] \in present}
<1>1. CASE T = {}
  <2>1. First(c, present) = Len(c) + 1
    BY <1>1, FirstIsBehind
  <2> QED BY <2>1
<1>2. CASE T # {}
  <2>1. T \subseteq Nat
    OBVIOUS
  <2>2. PICK n \in T : \A m \in T : n <= m
    BY <1>2, <2>1, LeastExists
  <2>3. n \in 1..Len(c) + 1 /\ c[n] \in present
    OBVIOUS
  <2>4. ASSUME NEW m \in 1..n - 1 PROVE c[m] \notin present
    <3>1. m \in DOMAIN c /\ m < n /\ m \in Nat /\ n \in Nat
      OBVIOUS
    <3>2. m \notin T
      BY <2>2, <3>1
    <3> QED BY <3>1, <3>2
  <2>5. First(c, present) = n
    BY <2>3, <2>4, FirstIs
  <2> QED BY <2>3, <2>5
<1> QED BY <1>1, <1>2

-----------------------------------------------------------------------------
(* How the search goes on.                                                 *)

\* The candidates at hand, and those that stop the search.
List == IF pc = "bins" THEN Here.bins ELSE Here.files[Kind]

Stops ==
  IF pc = "bins" THEN setup.running ELSE setup.there \union setup.denied

\* None of the candidates that the search has passed stops it.
Searching ==
  /\ setup \in Setups
  /\ kind \in 1..6
  /\ pc \in {"bins", "files", "replace", "audits", "done", "exit"}
  /\ pc = "bins" => kind = 1
  /\ pc = "files" => kind # 1
  /\ pc \in {"bins", "files"} =>
       /\ at \in 1..Len(setup.comps) + 1
       /\ cand \in Nat \ {0}
       /\ at \in Indices =>
            /\ cand <= Len(List) + 1
            /\ \A m \in 1..cand - 1 : List[m] \notin Stops

\* The component at hand, and its candidates.
LEMMA HereTypes ==
  ASSUME Searching, pc \in {"bins", "files"}, at \in DOMAIN setup.comps
  PROVE  /\ at \in Indices
         /\ List \in Seq(STRING)
         /\ Len(setup.comps) \in Nat
         /\ at \in 1..Len(setup.comps)
         /\ at + 1 \in 1..Len(setup.comps) + 1
<1>1. at \in Indices
  BY DEF Indices
<1>2. pc = "files" => Kind \in FileKinds
  BY KindsDiffer DEF Searching, Kind
<1>3. setup \in Setups
  BY DEF Searching
<1>4. /\ Len(setup.comps) \in Nat
      /\ Indices = 1..Len(setup.comps)
      /\ Here.bins \in Seq(STRING)
      /\ \A k \in FileKinds : Here.files[k] \in Seq(STRING)
  BY <1>1, <1>3, ComponentTypes DEF Here
<1> QED BY <1>1, <1>2, <1>4 DEF List

\* A component that has just come to hand.
LEMMA FreshSearching ==
  ASSUME Searching, setup' = setup, pc' \in {"bins", "files"},
         pc' = "bins" <=> kind' = 1, kind' \in 1..6,
         at' \in 1..Len(setup.comps) + 1, cand' = 1
  PROVE  Searching'
<1>1. setup \in Setups
  BY DEF Searching
<1>2. ASSUME (at \in Indices)' PROVE (Len(List) \in Nat)'
  <2>1. at' \in Indices
    BY <1>2 DEF Indices
  <2>2. setup.comps[at'].bins \in Seq(STRING)
        /\ \A k \in FileKinds : setup.comps[at'].files[k] \in Seq(STRING)
    BY <1>1, <2>1, ComponentTypes
  <2>3. pc' = "files" => Kind' \in FileKinds
    BY KindsDiffer DEF Kind
  <2> QED BY <2>2, <2>3 DEF List, Here
<1>3. ASSUME (at \in Indices)'
      PROVE  /\ (cand <= Len(List) + 1)'
             /\ (\A m \in 1..cand - 1 : List[m] \notin Stops)'
  BY <1>2, <1>3
<1> QED BY <1>1, <1>3 DEF Searching

\* A component is done with.
LEMMA ComponentSearching ==
  ASSUME Searching, setup' = setup, pc \in {"bins", "files"},
         at \in DOMAIN setup.comps, at' = at + 1, cand' = 1,
         UNCHANGED <<pc, kind>>
  PROVE  Searching'
  BY HereTypes, FreshSearching DEF Searching

\* A candidate is.
LEMMA CandidateSearching ==
  ASSUME Searching, setup' = setup, pc \in {"bins", "files"},
         at \in DOMAIN setup.comps, cand \in DOMAIN List,
         List[cand] \notin Stops, cand' = cand + 1,
         UNCHANGED <<pc, kind, at>>
  PROVE  Searching'
<1>1. List \in Seq(STRING)
  BY HereTypes
<1>2. List' = List /\ Stops' = Stops /\ Indices' = Indices
  BY DEF List, Stops, Here, Kind, Indices
<1>3. cand \in 1..Len(List)
  BY <1>1
<1>4. cand' <= Len(List) + 1
  BY <1>1, <1>3
<1>5. ASSUME NEW m \in 1..cand' - 1
      PROVE  List[m] \notin Stops
  <2>1. m \in 1..cand - 1 \/ m = cand
    BY <1>1, <1>3
  <2>2. at \in Indices
    BY DEF Indices
  <2> QED BY <2>1, <2>2 DEF Searching
<1>6. cand' \in Nat \ {0}
  BY <1>1, <1>3
<1> QED BY <1>2, <1>4, <1>5, <1>6 DEF Searching

\* A kind is.
LEMMA KindSearching ==
  ASSUME Searching, setup' = setup, pc \in {"bins", "files"}, NextKind
  PROVE  /\ Searching'
         /\ kind < 6 => pc' = "files" /\ kind' = kind + 1
         /\ kind = 6 => pc' = "replace"
         /\ at' = 1
<1>1. kind \in 1..6 /\ setup \in Setups
  BY DEF Searching
<1>2. /\ kind < 6 => pc' = "files" /\ kind' = kind + 1
      /\ kind = 6 => pc' = "replace" /\ kind' = 1
      /\ at' = 1 /\ cand' = 1
  BY <1>1, KindList DEF NextKind
<1>3. CASE kind < 6
  <2>1. setup.comps \in Seq(Components)
    BY <1>1, SetupsAssumption DEF SetupOK
  <2> QED BY <1>1, <1>2, <1>3, <2>1, FreshSearching
<1>4. CASE kind = 6
  BY <1>1, <1>2, <1>4 DEF Searching
<1> QED BY <1>1, <1>2, <1>3, <1>4

-----------------------------------------------------------------------------
(* What one step of the search decides.                                    *)

\* A file that cannot be looked at comes before the first that exists.
Hidden(i, k) ==
  LET fs == setup.comps[i].files[k] IN
  \E n \in DOMAIN fs :
    /\ fs[n] \in setup.denied
    /\ \A m \in 1..n - 1 : fs[m] \notin setup.there

Clear(i, k) == setup.comps[i].set => ~Hidden(i, k)

\* The component gets its value, if there is one, and the next one is at hand.
Settles(value) ==
  /\ UNCHANGED <<setup, pc, kind>>
  /\ at' = at + 1
  /\ cand' = 1
  /\ IF value = None THEN UNCHANGED maps ELSE Found(value)

\* The candidate at hand is passed.
Passes ==
  /\ cand \in DOMAIN List
  /\ List[cand] \notin Stops
  /\ NextCandidate
  /\ setup' = setup

\* getBinaries settles the binary of a component, passes a candidate, or gives
\* up on a component that is mandatory.
LEMMA BinarySettles ==
  ASSUME Searching, GetBinaries
  PROVE  \/ ~Missing(at) /\ Settles(BinaryOf(at))
         \/ Passes
         \/ Missing(at) /\ MandatoryMissing /\ setup' = setup
<1>0. /\ pc = "bins" /\ at \in Indices /\ at \in DOMAIN setup.comps
      /\ setup \in Setups /\ setup' = setup
      /\ List = Here.bins /\ Stops = setup.running /\ Here = setup.comps[at]
  BY DEF GetBinaries, Searching, Indices, List, Stops, Here
<1>1. /\ Here.bins \in Seq(STRING)
      /\ Candidates(Here) \intersect {None, "$"} = {}
  BY <1>0, ComponentTypes
<1>2. /\ cand \in Nat \ {0} /\ cand <= Len(Here.bins) + 1
      /\ \A m \in 1..cand - 1 : Here.bins[m] \notin setup.running
  BY <1>0 DEF Searching
<1>3. CASE ~Here.set \/ Here.bins = <<>>
  <2>1. NextComponent
    BY <1>1, <1>2, <1>3 DEF GetBinaries
  <2>2. BinaryOf(at) = None /\ ~Missing(at)
    BY <1>0, <1>3 DEF BinaryOf, Missing
  <2> QED BY <1>0, <2>1, <2>2 DEF NextComponent, Settles
<1>4. CASE Here.set /\ cand \in DOMAIN Here.bins /\ Here.bins[cand] \in setup.running
  <2>1. Here.bins # <<>> /\ cand <= Len(Here.bins)
    BY <1>1, <1>4
  <2>2. First(Here.bins, setup.running) = cand
    BY <1>1, <1>2, <1>4, <2>1, FirstIs
  <2>3. BinaryOf(at) = Here.bins[cand]
    BY <1>0, <1>4, <2>1, <2>2 DEF BinaryOf
  <2>4. ~Missing(at)
    BY <1>0, <1>4 DEF Missing
  <2>5. Here.bins[cand] # None
    BY <1>1, <1>4 DEF Candidates
  <2>6. Found(Here.bins[cand])
    BY <1>1, <1>2, <1>4, <2>1 DEF GetBinaries
  <2> QED BY <1>0, <2>3, <2>4, <2>5, <2>6 DEF Settles, Found
<1>5. CASE /\ Here.set /\ cand \in DOMAIN Here.bins
           /\ Here.bins[cand] \notin setup.running
  <2>1. NextCandidate
    BY <1>1, <1>2, <1>5 DEF GetBinaries
  <2> QED BY <1>0, <1>5, <2>1 DEF Passes
<1>6. CASE Here.set /\ Here.bins # <<>> /\ cand \notin DOMAIN Here.bins
  <2>1. cand = Len(Here.bins) + 1
    BY <1>1, <1>2, <1>6
  <2>2. \A n \in DOMAIN Here.bins : Here.bins[n] \notin setup.running
    BY <1>1, <1>2, <2>1
  <2>3. First(Here.bins, setup.running) = cand
    BY <1>1, <2>1, <2>2, FirstIsBehind
  <2>4. CASE Here.optional
    <3>1. BinaryOf(at) = Here.id /\ ~Missing(at)
      BY <1>0, <1>1, <1>6, <2>1, <2>3, <2>4 DEF BinaryOf, Missing
    <3>2. Found(Here.id)
      BY <1>6, <2>4 DEF GetBinaries, MandatoryMissing
    <3>3. Here.id # None
      BY <1>1 DEF Candidates
    <3> QED BY <1>0, <3>1, <3>2, <3>3 DEF Settles, Found
  <2>5. CASE ~Here.optional
    BY <1>0, <1>6, <2>2, <2>5 DEF GetBinaries, Missing
  <2> QED BY <2>4, <2>5
<1> QED BY <1>3, <1>4, <1>5, <1>6

\* getFiles settles the file of a component, passes a candidate, or ends the
\* program on one that cannot be looked at.
LEMMA FileSettles ==
  ASSUME Searching, GetFiles
  PROVE  \/ Clear(at, Kind) /\ Settles(FileOf(Kind, at))
         \/ Passes
         \/ /\ ~Clear(at, Kind)
            /\ pc' = "exit" /\ UNCHANGED <<setup, kind, search>>
<1>0. /\ pc = "files" /\ at \in Indices /\ at \in DOMAIN setup.comps
      /\ setup \in Setups /\ setup' = setup
      /\ List = Here.files[Kind] /\ Stops = setup.there \union setup.denied
      /\ Here = setup.comps[at]
  BY DEF GetFiles, Searching, Indices, List, Stops, Here
<1> DEFINE fs == Here.files[Kind]
<1>1. /\ Kind \in FileKinds /\ fs \in Seq(STRING)
      /\ Candidates(Here) \intersect {None, "$"} = {}
      /\ setup.there \intersect setup.denied = {}
  <2>1. Kind \in FileKinds
    BY <1>0, KindsDiffer DEF Searching, Kind
  <2>2. /\ Here.files[Kind] \in Seq(STRING)
        /\ Candidates(Here) \intersect {None, "$"} = {}
    BY <1>0, <2>1, ComponentTypes
  <2> QED BY <1>0, <2>1, <2>2, SetupsAssumption DEF SetupOK
<1>2. /\ cand \in Nat \ {0} /\ cand <= Len(fs) + 1
      /\ \A m \in 1..cand - 1 : fs[m] \notin setup.there \union setup.denied
  BY <1>0 DEF Searching
<1>3. CASE ~Here.set
  BY <1>0, <1>3 DEF GetFiles, NextComponent, FileOf, Clear, Settles
<1>4. CASE Here.set /\ cand \in DOMAIN fs /\ fs[cand] \in setup.there
  <2>1. cand <= Len(fs)
    BY <1>1, <1>4
  <2>2. First(fs, setup.there) = cand
    BY <1>1, <1>2, <1>4, FirstIs
  <2>3. FileOf(Kind, at) = fs[cand]
    BY <1>0, <1>4, <2>1, <2>2 DEF FileOf
  <2>4. fs[cand] # None
    <3>1. fs[cand] \in Candidates(Here)
      BY <1>1, <1>4 DEF Candidates
    <3> QED BY <1>1, <3>1
  <2>5. Found(fs[cand])
    <3>1. LookAt(fs[cand])
      BY <1>0, <1>2, <1>4, <2>1 DEF GetFiles
    <3>2. fs[cand] \notin setup.denied
      BY <1>1, <1>4
    <3> QED BY <1>4, <3>1, <3>2 DEF LookAt
  <2>6. ~Hidden(at, Kind)
    <3> SUFFICES ASSUME NEW n \in DOMAIN fs, fs[n] \in setup.denied,
                        \A m \in 1..n - 1 : fs[m] \notin setup.there
                 PROVE  FALSE
      BY <1>0 DEF Hidden
    <3>1. n \in Nat /\ n >= 1
      BY <1>1
    <3>2. CASE n < cand
      BY <1>2, <3>1, <3>2
    <3>3. CASE n = cand
      BY <1>1, <1>4, <3>3
    <3>4. CASE n > cand
      BY <1>2, <1>4, <3>1, <3>4
    <3> QED BY <1>2, <3>1, <3>2, <3>3, <3>4
  <2> QED BY <1>0, <2>3, <2>4, <2>5, <2>6 DEF Settles, Found, Clear
<1>5. CASE Here.set /\ cand \in DOMAIN fs /\ fs[cand] \in setup.denied
  <2>1. ~Clear(at, Kind)
    BY <1>0, <1>2, <1>5 DEF Clear, Hidden
  <2>2. LookAt(fs[cand])
    <3>1. ~(cand > Len(fs))
      BY <1>1, <1>5
    <3> QED BY <1>0, <1>5, <3>1 DEF GetFiles
  <2>3. fs[cand] \notin setup.there
    BY <1>1, <1>5
  <2>4. pc' = "exit" /\ UNCHANGED <<kind, search>>
    BY <1>5, <2>2, <2>3 DEF LookAt
  <2> QED BY <1>0, <2>1, <2>4
<1>6. CASE Here.set /\ cand \in DOMAIN fs /\ fs[cand] \notin Stops
  <2>1. NextCandidate
    <3>1. ~(cand > Len(fs))
      BY <1>1, <1>6
    <3>2. LookAt(fs[cand])
      BY <1>0, <1>6, <3>1 DEF GetFiles
    <3> QED BY <1>0, <1>6, <3>2 DEF LookAt
  <2> QED BY <1>0, <1>6, <2>1 DEF Passes
<1>7. CASE Here.set /\ cand \notin DOMAIN fs
  <2>1. cand = Len(fs) + 1
    BY <1>1, <1>2, <1>7
  <2>2. First(fs, setup.there) = cand
    <3>1. \A n \in DOMAIN fs : fs[n] \notin setup.there
      BY <1>1, <1>2, <2>1
    <3> QED BY <1>1, <2>1, <3>1, FirstIsBehind
  <2> DEFINE value == IF Here.default[Kind] = None
                      THEN Here.id ELSE Here.default[Kind]
  <2>3. FileOf(Kind, at) = value
    BY <1>0, <1>1, <1>7, <2>1, <2>2 DEF FileOf
  <2>4. value # None
    BY <1>1 DEF Candidates
  <2>5. Found(value)
    BY <1>0, <1>7 DEF GetFiles
  <2>6. ~Hidden(at, Kind)
    BY <1>0, <1>1, <1>2, <2>1 DEF Hidden
  <2> QED BY <1>0, <2>3, <2>4, <2>5, <2>6 DEF Settles, Found, Clear
<1> QED BY <1>0, <1>3, <1>4, <1>5, <1>6, <1>7

\* What a step of the program is for the search.
SettlesBinary ==
  pc = "bins" /\ at \in Indices /\ ~Missing(at) /\ Settles(BinaryOf(at))
SettlesFile ==
  pc = "files" /\ at \in Indices /\ Clear(at, Kind) /\ Settles(FileOf(Kind, at))
PassesOne == pc \in {"bins", "files"} /\ at \in Indices /\ Passes
GivesUp ==
  /\ pc = "bins" /\ at \in Indices /\ Missing(at) /\ MandatoryMissing
  /\ setup' = setup
Denies ==
  /\ pc = "files" /\ at \in Indices /\ ~Clear(at, Kind)
  /\ pc' = "exit" /\ UNCHANGED <<setup, kind, search>>
Rewrites ==
  /\ pc \in {"replace", "audits"} /\ pc' \in {"replace", "audits", "done"}
  /\ kind' \in 1..6 /\ UNCHANGED <<setup, search>>
Idles == UNCHANGED <<setup, pc, kind, search>>

LEMMA SearchSteps ==
  ASSUME Searching, [Next]_vars
  PROVE  \/ SettlesBinary \/ SettlesFile \/ PassesOne \/ GivesUp \/ KindDone
         \/ Denies \/ Rewrites \/ Idles
<1>1. CASE GetBinaries
  <2>1. pc = "bins" /\ at \in Indices
    BY <1>1 DEF GetBinaries, Indices
  <2> QED BY <1>1, <2>1, BinarySettles DEF SettlesBinary, PassesOne, GivesUp
<1>2. CASE GetFiles
  <2>1. pc = "files" /\ at \in Indices
    BY <1>2 DEF GetFiles, Indices
  <2> QED BY <1>2, <2>1, FileSettles DEF SettlesFile, PassesOne, Denies
<1>3. CASE Substitute \/ KindReplaced
  <2>1. kind \in 1..6
    BY DEF Searching
  <2>2. CASE Substitute
    BY <2>1, <2>2 DEF Substitute, Rewrites
  <2>3. CASE KindReplaced
    <3>1. kind' \in 1..6
      BY <2>1, <2>3, KindList DEF KindReplaced
    <3> QED BY <2>3, <3>1 DEF KindReplaced, Rewrites
  <2> QED BY <1>3, <2>2, <2>3
<1>4. CASE GenerateAudits
  BY <1>4 DEF GenerateAudits, Rewrites, Searching
<1>5. CASE Ended \/ UNCHANGED vars
  BY <1>5 DEF Ended, vars, search, Idles
<1> QED BY <1>1, <1>2, <1>3, <1>4, <1>5 DEF Next

\* The search goes on as Searching says.
LEMMA NextSearching == Searching /\ [Next]_vars => Searching'
<1> SUFFICES ASSUME Searching, [Next]_vars PROVE Searching'
  OBVIOUS
<1>1. CASE SettlesBinary \/ SettlesFile
  BY <1>1, ComponentSearching
     DEF SettlesBinary, SettlesFile, Settles, Found, Indices
<1>2. CASE PassesOne
  BY <1>2, CandidateSearching DEF PassesOne, Passes, NextCandidate, Indices
<1>3. CASE GivesUp \/ KindDone
  BY <1>3, KindSearching DEF GivesUp, MandatoryMissing, KindDone
<1>4. CASE Denies \/ Rewrites
  BY <1>4 DEF Denies, Rewrites, Searching
<1>5. CASE Idles
  <2>1. UNCHANGED <<List, Stops, Indices>>
    BY <1>5 DEF Idles, List, Stops, Here, Kind, Indices, search
  <2> QED BY <1>5, <2>1 DEF Idles, Searching, search
<1> QED BY <1>1, <1>2, <1>3, <1>4, <1>5, SearchSteps

LEMMA SearchingHolds == Spec => []Searching
<1>1. Init => Searching
  <2> SUFFICES ASSUME Init PROVE Searching
    OBVIOUS
  <2>1. setup \in Setups /\ kind = 1 /\ pc = "bins" /\ at = 1 /\ cand = 1
    BY DEF Init
  <2>2. Len(setup.comps) \in Nat
    BY <2>1, SetupsAssumption DEF SetupOK
  <2>3. ASSUME at \in Indices PROVE Len(List) \in Nat
    BY <2>1, <2>3, ComponentTypes DEF List, Here
  <2> QED BY <2>1, <2>2, <2>3 DEF Searching
<1> QED BY <1>1, NextSearching, PTL DEF Spec

-----------------------------------------------------------------------------
(* Where the search gives up.                                              *)

\* The search is behind component i, as far as the kind with number n goes.
Behind(n, i) ==
  \/ pc \in {"replace", "audits", "done"}
  \/ pc \in {"bins", "files"} /\ (n < kind \/ (n = kind /\ i < at))

\* What is behind has hidden nothing, and the program has ended at what has.
DeniedInv ==
  /\ \A n \in 2..6, i \in Indices : Behind(n, i) => Clear(i, Kinds[n])
  /\ pc = "exit" => \E n \in 2..6, i \in Indices : ~Clear(i, Kinds[n])

\* What a step of the search adds to what is behind.
LEMMA BehindGrows ==
  ASSUME Searching, [Next]_vars, NEW n \in 1..6, NEW i \in Indices
  PROVE  /\ SettlesBinary \/ SettlesFile =>
              (Behind(n, i)' <=> Behind(n, i) \/ (n = kind /\ i = at))
         /\ PassesOne \/ KindDone \/ Rewrites \/ Idles =>
              (Behind(n, i)' <=> Behind(n, i))
         /\ Denies => ~Behind(n, i)'
         /\ GivesUp /\ n # 1 => ~Behind(n, i) /\ ~Behind(n, i)'
<1>0. /\ kind \in 1..6 /\ setup \in Setups
      /\ pc \in {"bins", "files"} => at \in 1..Len(setup.comps) + 1
      /\ Len(setup.comps) \in Nat /\ i \in 1..Len(setup.comps)
      /\ pc = "bins" => kind = 1
  BY ComponentTypes DEF Searching
<1>1. ASSUME SettlesBinary \/ SettlesFile
      PROVE  Behind(n, i)' <=> Behind(n, i) \/ (n = kind /\ i = at)
  BY <1>0, <1>1 DEF SettlesBinary, SettlesFile, Settles, Behind, Indices
<1>2. ASSUME PassesOne \/ Idles PROVE Behind(n, i)' <=> Behind(n, i)
  BY <1>0, <1>2 DEF PassesOne, Passes, NextCandidate, Idles, search, Behind
<1>3. ASSUME KindDone PROVE Behind(n, i)' <=> Behind(n, i)
  <2>1. /\ kind < 6 => pc' = "files" /\ kind' = kind + 1
        /\ kind = 6 => pc' = "replace"
        /\ at' = 1 /\ pc \in {"bins", "files"}
    BY <1>3, KindSearching DEF KindDone
  <2>2. at > Len(setup.comps)
    BY <1>3 DEF KindDone
  <2> QED BY <1>0, <2>1, <2>2 DEF Behind
<1>4. ASSUME Rewrites PROVE Behind(n, i)' <=> Behind(n, i)
  BY <1>4 DEF Rewrites, Behind
<1>5. ASSUME Denies PROVE ~Behind(n, i)'
  BY <1>5 DEF Denies, Behind
<1>6. ASSUME GivesUp, n # 1 PROVE ~Behind(n, i) /\ ~Behind(n, i)'
  <2>1. pc' = "files" /\ kind' = 2 /\ at' = 1
    BY <1>0, <1>6, KindSearching DEF GivesUp, MandatoryMissing
  <2> QED BY <1>0, <1>6, <2>1 DEF GivesUp, Behind
<1>7. PassesOne \/ KindDone \/ Rewrites \/ Idles =>
        (Behind(n, i)' <=> Behind(n, i))
  BY <1>2, <1>3, <1>4
<1> QED BY <1>1, <1>5, <1>6, <1>7

\* What the setup alone determines does not change.
LEMMA SetupOnly ==
  ASSUME setup' = setup
  PROVE  /\ Indices' = Indices
         /\ \A k, i : /\ Clear(i, k)' <=> Clear(i, k)
                      /\ Missing(i)' <=> Missing(i)
                      /\ BinaryOf(i)' = BinaryOf(i)
                      /\ FileOf(k, i)' = FileOf(k, i)
                      /\ Variable(k, i)' = Variable(k, i)
         /\ \A k, i : ValueOf(k, i)' = ValueOf(k, i)
<1>1. Indices' = Indices
  BY DEF Indices
<1>2. \A k, i : /\ Clear(i, k)' <=> Clear(i, k)
                /\ Missing(i)' <=> Missing(i)
  BY DEF Clear, Hidden, Missing
<1>3. \A k, i : /\ BinaryOf(i)' = BinaryOf(i)
                /\ FileOf(k, i)' = FileOf(k, i)
                /\ Variable(k, i)' = Variable(k, i)
  BY DEF BinaryOf, FileOf, Variable
<1>4. MandatoryRun' <=> MandatoryRun
  BY <1>1, <1>2 DEF MandatoryRun
<1>5. \A k, i : ValueOf(k, i)' = ValueOf(k, i)
  BY <1>3, <1>4 DEF ValueOf
<1> QED BY <1>1, <1>2, <1>3, <1>5

\* No step of the program changes it.
LEMMA SetupSame == [Next]_vars => setup' = setup
  BY DEF Next, vars, GetBinaries, GetFiles, KindDone, Substitute, KindReplaced,
     GenerateAudits, Ended

\* DeniedInv is inductive.
LEMMA NextDenied == Searching /\ DeniedInv /\ [Next]_vars => DeniedInv'
<1> SUFFICES ASSUME Searching, DeniedInv, [Next]_vars PROVE DeniedInv'
  OBVIOUS
<1>0. /\ setup' = setup /\ Indices' = Indices
      /\ \A k, i : Clear(i, k)' <=> Clear(i, k)
  BY SetupSame, SetupOnly
<1>1. ASSUME NEW n \in 2..6, NEW i \in Indices, Behind(n, i)'
      PROVE  Clear(i, Kinds[n])
  <2>1. n \in 1..6
    OBVIOUS
  <2>2. CASE Behind(n, i)
    BY <2>2 DEF DeniedInv
  <2>3. CASE ~Behind(n, i)
    <3>1. (SettlesBinary \/ SettlesFile) /\ n = kind /\ i = at
      BY <1>1, <2>1, <2>3, SearchSteps, BehindGrows
    <3>2. SettlesFile
      BY <3>1 DEF SettlesBinary, Searching
    <3> QED BY <3>1, <3>2 DEF SettlesFile, Kind
  <2> QED BY <2>2, <2>3
<1>2. ASSUME pc' = "exit"
      PROVE  \E n \in 2..6, i \in Indices : ~Clear(i, Kinds[n])
  <2>1. CASE Denies
    <3>1. kind \in 2..6
      BY <2>1 DEF Denies, Searching
    <3> QED BY <2>1, <3>1 DEF Denies, Kind
  <2>2. CASE Idles
    BY <1>2, <2>2 DEF Idles, DeniedInv
  <2>3. CASE KindDone \/ GivesUp
    BY <1>2, <2>3, KindList DEF KindDone, GivesUp, MandatoryMissing, NextKind
  <2>4. CASE SettlesBinary \/ SettlesFile \/ PassesOne
    BY <1>2, <2>4 DEF SettlesBinary, SettlesFile, Settles, PassesOne, Passes,
       NextCandidate
  <2>5. CASE Rewrites
    BY <1>2, <2>5 DEF Rewrites
  <2> QED BY <2>1, <2>2, <2>3, <2>4, <2>5, SearchSteps
<1> QED BY <1>0, <1>1, <1>2 DEF DeniedInv

LEMMA DeniedHolds == Spec => []DeniedInv
<1>1. Init => DeniedInv
  BY DEF Init, DeniedInv, Behind
<1> QED BY <1>1, NextDenied, SearchingHolds, PTL DEF Spec

(***************************************************************************)
(* findConfigFile skips no file that it could not look at: the program     *)
(* ends at the first that may be the one, and at no other.                 *)
(***************************************************************************)
THEOREM DeniedCorrect == Spec => []DeniedEnds
<1>1. DeniedInv => DeniedEnds
  <2> SUFFICES ASSUME DeniedInv PROVE DeniedEnds
    OBVIOUS
  <2> DEFINE some == \E i \in Indices, k \in FileKinds :
                       setup.comps[i].set /\ Hidden(i, k)
  <2>1. some <=> \E n \in 2..6, i \in Indices : ~Clear(i, Kinds[n])
    BY KindsDiffer DEF Clear
  <2>2. pc = "exit" => some
    BY <2>1 DEF DeniedInv
  <2>3. pc \in {"replace", "audits", "done"} => ~some
    BY <2>1 DEF DeniedInv, Behind
  <2> QED BY <2>2, <2>3 DEF DeniedEnds, Hidden
<1> QED BY <1>1, DeniedHolds, PTL

-----------------------------------------------------------------------------
(* What the search finds.                                                  *)

\* The map m[k] has the value for component i, and nothing if it is None.
IsFound(m, k, i, value) ==
  /\ i \in DOMAIN m[k] <=> value # None
  /\ i \in DOMAIN m[k] => m[k][i] = value

\* What is behind has been found, and nothing else; what getBinaries has passed
\* does not miss, and if it gave up then no binary is found at all.
FoundInv ==
  /\ DOMAIN maps = KindNames
  /\ \A k \in KindNames : DOMAIN maps[k] \subseteq Indices
  /\ pc # "exit" => \A n \in 2..6, i \in Indices :
       IF Behind(n, i) THEN IsFound(maps, Kinds[n], i, FileOf(Kinds[n], i))
       ELSE i \notin DOMAIN maps[Kinds[n]]
  /\ pc = "bins" => \A i \in Indices :
       IF i < at THEN IsFound(maps, "bin", i, BinaryOf(i)) /\ ~Missing(i)
       ELSE i \notin DOMAIN maps["bin"]
  /\ pc \notin {"bins", "exit"} =>
       \A i \in Indices : IsFound(maps, "bin", i, ValueOf("bin", i))

\* One more value.
LEMMA SettledMaps ==
  ASSUME Searching, FoundInv, pc \in {"bins", "files"}, at \in Indices,
         at \notin DOMAIN maps[Kind], NEW value, Settles(value)
  PROVE  /\ DOMAIN maps' = KindNames
         /\ \A k \in KindNames : DOMAIN maps'[k] \subseteq Indices
         /\ IsFound(maps', Kind, at, value)
         /\ \A k \in KindNames, i \in Indices :
              k # Kind \/ i # at =>
                /\ \A v : IsFound(maps', k, i, v) <=> IsFound(maps, k, i, v)
                /\ i \in DOMAIN maps'[k] <=> i \in DOMAIN maps[k]
<1>0. /\ Kind \in KindNames /\ Kind' = Kind /\ DOMAIN maps = KindNames
      /\ \A k \in KindNames : DOMAIN maps[k] \subseteq Indices
  BY KindsDiffer DEF Searching, FoundInv, Kind, Settles
<1>1. CASE value = None
  BY <1>0, <1>1 DEF Settles, IsFound
<1>2. CASE value # None
  <2>1. maps' = [maps EXCEPT ![Kind] =
                   [i \in DOMAIN maps[Kind] \cup {at} |->
                      IF i = at THEN value ELSE maps[Kind][i]]]
    BY <1>2 DEF Settles, Found
  <2>2. /\ DOMAIN maps' = KindNames
        /\ \A k \in KindNames : k # Kind => maps'[k] = maps[k]
        /\ DOMAIN maps'[Kind] = DOMAIN maps[Kind] \cup {at}
        /\ maps'[Kind][at] = value
        /\ \A i \in DOMAIN maps[Kind] : i # at => maps'[Kind][i] = maps[Kind][i]
    BY <1>0, <2>1
  <2> QED BY <1>0, <1>2, <2>2 DEF IsFound
<1> QED BY <1>1, <1>2

\* FoundInv is inductive.
LEMMA NextFound == Searching /\ FoundInv /\ [Next]_vars => FoundInv'
<1> SUFFICES ASSUME Searching, FoundInv, [Next]_vars PROVE FoundInv'
  OBVIOUS
<1>0. /\ setup' = setup /\ Indices' = Indices
      /\ \A i : /\ Missing(i)' <=> Missing(i)
                /\ BinaryOf(i)' = BinaryOf(i)
      /\ \A k, i : /\ FileOf(k, i)' = FileOf(k, i)
                   /\ ValueOf(k, i)' = ValueOf(k, i)
  BY SetupSame, SetupOnly
<1>1. \A n \in 2..6 : n \in 1..6 /\ Kinds[n] \in KindNames /\ Kinds[n] # "bin"
  BY KindsDiffer
<1>2. "bin" \in KindNames /\ (pc = "bins" => Kind = "bin" /\ kind = 1)
  BY KindsDiffer, KindList DEF Searching, Kind
<1>3. CASE SettlesFile
  <2>0. /\ pc = "files" /\ pc' = "files" /\ at \in Indices
        /\ Settles(FileOf(Kind, at)) /\ kind \in 2..6 /\ Kind = Kinds[kind]
    BY <1>3 DEF SettlesFile, Settles, Searching, Kind
  <2>1. ~Behind(kind, at) /\ at \notin DOMAIN maps[Kind]
    <3>1. ~Behind(kind, at)
      BY <2>0, ComponentTypes DEF Behind, Searching
    <3> QED BY <2>0, <3>1 DEF FoundInv
  <2>2. /\ DOMAIN maps' = KindNames
        /\ \A k \in KindNames : DOMAIN maps'[k] \subseteq Indices
        /\ IsFound(maps', Kind, at, FileOf(Kind, at))
        /\ \A k \in KindNames, i \in Indices :
             k # Kind \/ i # at =>
               /\ \A v : IsFound(maps', k, i, v) <=> IsFound(maps, k, i, v)
               /\ i \in DOMAIN maps'[k] <=> i \in DOMAIN maps[k]
    BY <2>0, <2>1, SettledMaps
  <2>3. ASSUME NEW n \in 2..6, NEW i \in Indices
        PROVE  IF Behind(n, i)'
               THEN IsFound(maps', Kinds[n], i, FileOf(Kinds[n], i))
               ELSE i \notin DOMAIN maps'[Kinds[n]]
    <3>1. Behind(n, i)' <=> Behind(n, i) \/ (n = kind /\ i = at)
      BY <1>1, <1>3, BehindGrows
    <3>2. CASE n = kind /\ i = at
      BY <1>0, <2>0, <2>2, <3>1, <3>2
    <3>3. CASE n # kind \/ i # at
      <4>1. Kinds[n] # Kind \/ i # at
        BY <2>0, <3>3, KindsDiffer
      <4> QED BY <1>0, <1>1, <2>0, <2>2, <3>1, <3>3, <4>1 DEF FoundInv
    <3> QED BY <3>2, <3>3
  <2>4. \A i \in Indices : IsFound(maps', "bin", i, ValueOf("bin", i))
    <3>1. Kind # "bin"
      BY <1>1, <2>0
    <3> QED BY <1>0, <1>2, <2>0, <2>2, <3>1 DEF FoundInv
  <2> QED BY <1>0, <2>0, <2>2, <2>3, <2>4 DEF FoundInv
<1>4. CASE SettlesBinary
  <2>0. /\ pc = "bins" /\ pc' = "bins" /\ at \in Indices /\ ~Missing(at)
        /\ Settles(BinaryOf(at)) /\ kind = 1 /\ Kind = "bin" /\ at' = at + 1
    BY <1>2, <1>4 DEF SettlesBinary, Settles
  <2>1. /\ at \notin DOMAIN maps[Kind]
        /\ at \in Nat /\ Indices \subseteq Nat
    <3>1. at \in Nat /\ Indices \subseteq Nat
      <4>1. setup \in Setups
        BY DEF Searching
      <4>2. Indices = 1..Len(setup.comps) /\ Len(setup.comps) \in Nat
        BY <2>0, <4>1, ComponentTypes
      <4> QED BY <2>0, <4>2
    <3>2. ~(at < at)
      BY <3>1
    <3> QED BY <2>0, <3>1, <3>2 DEF FoundInv
  <2>2. /\ DOMAIN maps' = KindNames
        /\ \A k \in KindNames : DOMAIN maps'[k] \subseteq Indices
        /\ IsFound(maps', "bin", at, BinaryOf(at))
        /\ \A k \in KindNames, i \in Indices :
             k # "bin" \/ i # at =>
               /\ \A v : IsFound(maps', k, i, v) <=> IsFound(maps, k, i, v)
               /\ i \in DOMAIN maps'[k] <=> i \in DOMAIN maps[k]
    BY <2>0, <2>1, SettledMaps
  <2>3. ASSUME NEW n \in 2..6, NEW i \in Indices
        PROVE  IF Behind(n, i)'
               THEN IsFound(maps', Kinds[n], i, FileOf(Kinds[n], i))
               ELSE i \notin DOMAIN maps'[Kinds[n]]
    <3>1. Behind(n, i)' <=> Behind(n, i)
      BY <1>1, <1>4, <2>0, BehindGrows
    <3> QED BY <1>0, <1>1, <2>0, <2>2, <3>1 DEF FoundInv
  <2>4. ASSUME NEW i \in Indices
        PROVE  IF i < at' THEN IsFound(maps', "bin", i, BinaryOf(i)) /\ ~Missing(i)'
               ELSE i \notin DOMAIN maps'["bin"]
    <3>1. CASE i = at
      BY <1>0, <2>0, <2>1, <2>2, <3>1
    <3>2. CASE i # at
      <4>1. i < at' <=> i < at
        BY <2>0, <2>1, <3>2
      <4> QED BY <1>0, <1>2, <2>0, <2>2, <3>2, <4>1 DEF FoundInv
    <3> QED BY <3>1, <3>2
  <2> QED BY <1>0, <2>0, <2>2, <2>3, <2>4 DEF FoundInv
<1>5. CASE PassesOne \/ Rewrites \/ Idles
  <2>1. /\ maps' = maps
        /\ pc' = "exit" <=> pc = "exit"
        /\ pc' = "bins" => pc = "bins" /\ at' = at
        /\ pc' \notin {"bins", "exit"} => pc \notin {"bins", "exit"}
    BY <1>5 DEF PassesOne, Passes, NextCandidate, Rewrites, Idles, search
  <2>2. \A n \in 2..6, i \in Indices : Behind(n, i)' <=> Behind(n, i)
    BY <1>1, <1>5, BehindGrows
  <2> QED BY <1>0, <2>1, <2>2 DEF FoundInv
<1>6. CASE Denies
  BY <1>0, <1>6 DEF Denies, FoundInv, search
<1>7. CASE KindDone
  <2>1. /\ maps' = maps /\ pc \in {"bins", "files"}
        /\ pc' \in {"files", "replace"} /\ at > Len(setup.comps)
    BY <1>7 DEF KindDone, NextKind
  <2>2. \A n \in 2..6, i \in Indices : Behind(n, i)' <=> Behind(n, i)
    BY <1>1, <1>7, BehindGrows
  <2>3. \A i \in Indices : IsFound(maps, "bin", i, ValueOf("bin", i))
    <3>1. CASE pc = "files"
      BY <3>1 DEF FoundInv
    <3>2. CASE pc = "bins"
      <4>1. \A i \in Indices : i < at
        BY <2>1, <3>2, ComponentTypes DEF Searching
      <4>2. MandatoryRun
        BY <3>2, <4>1 DEF FoundInv, MandatoryRun
      <4> QED BY <3>2, <4>1, <4>2 DEF FoundInv, ValueOf
    <3> QED BY <2>1, <3>1, <3>2
  <2> QED BY <1>0, <2>1, <2>2, <2>3 DEF FoundInv
<1>8. CASE GivesUp
  <2>1. /\ pc = "bins" /\ pc' = "files" /\ at \in Indices /\ Missing(at)
        /\ maps' = [maps EXCEPT !["bin"] = Empty]
    BY <1>2, <1>8, KindSearching DEF GivesUp, MandatoryMissing
  <2>2. \A n \in 2..6, i \in Indices : ~Behind(n, i) /\ ~Behind(n, i)'
    <3> TAKE n \in 2..6, i \in Indices
    <3>1. n \in 1..6 /\ n # 1
      OBVIOUS
    <3> QED BY <1>8, <3>1, BehindGrows
  <2>3. ~MandatoryRun
    BY <2>1 DEF MandatoryRun
  <2>4. /\ DOMAIN maps' = KindNames
        /\ DOMAIN maps'["bin"] = {}
        /\ \A k \in KindNames : k # "bin" => maps'[k] = maps[k]
    BY <1>2, <2>1 DEF FoundInv, Empty
  <2>5. \A i : ValueOf("bin", i) = None
    BY <2>3 DEF ValueOf
  <2>6. \A i \in Indices : IsFound(maps', "bin", i, ValueOf("bin", i))
    BY <1>0, <2>4, <2>5 DEF IsFound
  <2>7. \A k \in KindNames : DOMAIN maps'[k] \subseteq Indices
    BY <2>4 DEF FoundInv
  <2>8. \A n \in 2..6, i \in Indices : i \notin DOMAIN maps'[Kinds[n]]
    BY <1>1, <2>1, <2>2, <2>4 DEF FoundInv
  <2> QED BY <1>0, <2>1, <2>2, <2>4, <2>6, <2>7, <2>8 DEF FoundInv
<1> QED BY <1>3, <1>4, <1>5, <1>6, <1>7, <1>8, SearchSteps

LEMMA FoundHolds == Spec => []FoundInv
<1>1. Init => FoundInv
  <2> SUFFICES ASSUME Init PROVE FoundInv
    OBVIOUS
  <2>1. /\ maps = [k \in KindNames |-> Empty] /\ pc = "bins" /\ kind = 1
        /\ at = 1 /\ setup \in Setups
    BY DEF Init
  <2>2. \A k \in KindNames : DOMAIN maps[k] = {}
    BY <2>1 DEF Empty
  <2>3. \A i \in Indices : ~(i < at)
    BY <2>1, ComponentTypes
  <2>4. \A n \in 2..6, i \in Indices : ~Behind(n, i)
    BY <2>1, <2>3 DEF Behind
  <2>5. "bin" \in KindNames /\ \A n \in 2..6 : Kinds[n] \in KindNames
    BY KindsDiffer
  <2> QED BY <2>1, <2>2, <2>3, <2>4, <2>5 DEF FoundInv
<1> QED BY <1>1, NextFound, SearchingHolds, PTL DEF Spec

-----------------------------------------------------------------------------
(* What becomes of the text.                                               *)

\* The variables that stand for something, and those that had their turn.
Vars ==
  {v \in KindNames \X Indices : ValueOf(v[1], v[2]) \notin {None, ""}}

HadTurn(v) ==
  \/ pc \in {"audits", "done"}
  \/ /\ pc = "replace"
     /\ \/ \E n \in 1..6 : v[1] = Kinds[n] /\ n < kind
        \/ v[1] = Kind /\ v[2] \in replaced

Shows(v, word) == IsPrefix(Variable(v[1], v[2]), word)

\* A word with what v stands for in its place.
InPlace(v, word) ==
  Quoted(ValueOf(v[1], v[2]))
    \o SubSeq(word, Len(Variable(v[1], v[2])) + 1, Len(word))

\* A word that shows a variable that had its turn has its value in its place,
\* and any other word is as it was.
TextInv ==
  /\ DOMAIN text = DOMAIN setup.text
  /\ text = [w \in DOMAIN text |-> text[w]]
  /\ pc \in {"bins", "files"} => text = setup.text /\ replaced = {}
  /\ pc = "replace" => replaced \subseteq DOMAIN maps[Kind]
  /\ NoClash => \A w \in DOMAIN text :
       /\ text[w] = setup.text[w]
            \/ \E v \in Vars : HadTurn(v) /\ Shows(v, setup.text[w])
       /\ \A v \in Vars : HadTurn(v) /\ Shows(v, setup.text[w]) =>
            text[w] = InPlace(v, setup.text[w])

\* The symbols that a word may consist of.
Symbols == STRING \union KindNames \union {"$", "'", "kube", "conf", "ig"}

\* Words of some symbols are words of more.
LEMMA WiderSeq ==
  ASSUME NEW S, NEW T, S \subseteq T, NEW w \in Seq(S)
  PROVE  w \in Seq(T)
  OBVIOUS

\* A variable is a word, and starts with "$".
LEMMA VariableType ==
  ASSUME setup \in Setups, NEW k \in KindNames, NEW i \in Indices
  PROVE  /\ Variable(k, i) \in Seq(Symbols)
         /\ Len(Variable(k, i)) \in Nat \ {0}
         /\ Variable(k, i)[1] = "$"
<1>1. setup.comps[i].name \in Seq(STRING)
  BY ComponentTypes
<1>2. STRING \subseteq Symbols /\ {"$", "kube", "conf", "ig", k} \subseteq Symbols
  BY DEF Symbols
<1>3. setup.comps[i].name \in Seq(Symbols)
  BY <1>1, <1>2, WiderSeq
<1>4. Ending(k) \in Seq(Symbols)
  BY <1>2 DEF Ending
<1> DEFINE name == setup.comps[i].name
           end == Ending(k)
           var == <<"$">> \o name \o end
<1> HIDE DEF name, end
<1>5. /\ var \in Seq(Symbols)
      /\ Len(var) \in Nat \ {0}
      /\ var[1] = "$"
  <2>1. /\ <<"$">> \in Seq(Symbols)
        /\ name \in Seq(Symbols) /\ end \in Seq(Symbols)
    BY <1>2, <1>3, <1>4 DEF name, end
  <2> HIDE DEF Symbols
  <2>2. /\ <<"$">> \o name \in Seq(Symbols)
        /\ Len(<<"$">> \o name) \in Nat \ {0}
        /\ (<<"$">> \o name)[1] = "$"
    BY <2>1
  <2> QED BY <2>1, <2>2
<1> QED BY <1>5 DEF Variable, name, end

\* What a variable stands for is not a "$".
LEMMA ValueType ==
  ASSUME setup \in Setups, NEW k \in KindNames, NEW i \in Indices,
         ValueOf(k, i) # None
  PROVE  ValueOf(k, i) \in STRING \ {"$"}
<1> DEFINE c == setup.comps[i]
<1>1. /\ c.bins \in Seq(STRING) /\ c.id \in STRING
      /\ \A f \in FileKinds : /\ c.files[f] \in Seq(STRING)
                              /\ c.default[f] \in STRING \ {"$"}
      /\ Candidates(c) \intersect {None, "$"} = {}
  BY ComponentTypes
<1>2. c.id # "$"
  BY <1>1 DEF Candidates
<1>3. CASE k = "bin"
  <2>1. ValueOf(k, i) = BinaryOf(i)
    BY <1>3 DEF ValueOf
  <2> DEFINE n == First(c.bins, setup.running)
  <2>2. CASE c.set /\ c.bins # <<>> /\ n <= Len(c.bins)
    <3>1. BinaryOf(i) = c.bins[n]
      BY <2>2 DEF BinaryOf
    <3>2. n \in DOMAIN c.bins
      BY <1>1, <2>2, FirstType
    <3>3. c.bins[n] \in Candidates(c)
      BY <3>2 DEF Candidates
    <3> QED BY <1>1, <2>1, <3>1, <3>2, <3>3
  <2>3. CASE c.set /\ c.bins # <<>> /\ ~(n <= Len(c.bins))
    <3>1. BinaryOf(i) = c.id
      BY <2>3 DEF BinaryOf
    <3> QED BY <1>1, <1>2, <2>1, <3>1
  <2>4. CASE ~(c.set /\ c.bins # <<>>)
    BY <2>1, <2>4 DEF BinaryOf
  <2> QED BY <2>2, <2>3, <2>4
<1>4. CASE k # "bin"
  <2>1. k \in FileKinds /\ ValueOf(k, i) = FileOf(k, i)
    BY <1>4, KindsDiffer DEF ValueOf
  <2> DEFINE n == First(c.files[k], setup.there)
  <2>2. CASE c.set /\ n <= Len(c.files[k])
    <3>1. FileOf(k, i) = c.files[k][n]
      BY <2>2 DEF FileOf
    <3>2. c.files[k] \in Seq(STRING)
      BY <1>1, <2>1
    <3>3. n \in DOMAIN c.files[k]
      BY <2>2, <3>2, FirstType
    <3>4. c.files[k][n] \in Candidates(c)
      BY <2>1, <3>3 DEF Candidates
    <3> QED BY <1>1, <2>1, <3>1, <3>2, <3>3, <3>4
  <2>3. CASE c.set /\ ~(n <= Len(c.files[k]))
    <3>1. FileOf(k, i) = IF c.default[k] = None THEN c.id ELSE c.default[k]
      BY <2>3 DEF FileOf
    <3> QED BY <1>1, <1>2, <2>1, <3>1
  <2>4. CASE ~c.set
    BY <2>1, <2>4 DEF FileOf
  <2> QED BY <2>2, <2>3, <2>4
<1> QED BY <1>3, <1>4

\* IsPrefix, symbol by symbol.
LEMMA PrefixSymbols ==
  ASSUME NEW S, NEW s \in Seq(S), NEW t \in Seq(S)
  PROVE  IsPrefix(s, t) <=>
           Len(s) <= Len(t) /\ \A n \in 1..Len(s) : s[n] = t[n]
<1>1. ASSUME Len(s) <= Len(t)
      PROVE  /\ SubSeq(s, 1, Len(s)) = s
             /\ SubSeq(t, 1, Len(s)) \in Seq(S)
             /\ Len(SubSeq(t, 1, Len(s))) = Len(s)
             /\ \A n \in 1..Len(s) : SubSeq(t, 1, Len(s))[n] = t[n]
  BY <1>1
<1>2. ASSUME Len(s) <= Len(t), \A n \in 1..Len(s) : s[n] = t[n]
      PROVE  SubSeq(t, 1, Len(s)) = s
  BY <1>1, <1>2
<1> QED BY <1>1, <1>2 DEF IsPrefix

\* Words that start otherwise do not begin like each other.
LEMMA OtherStart ==
  ASSUME NEW S, NEW s \in Seq(S), NEW t \in Seq(S), Len(s) # 0, s[1] # t[1]
  PROVE  ~IsPrefix(s, t)
<1>1. 1 \in 1..Len(s)
  OBVIOUS
<1> QED BY <1>1, PrefixSymbols

\* Of two beginnings of a word one begins like the other.
LEMMA TwoPrefixes ==
  ASSUME NEW S, NEW a \in Seq(S), NEW b \in Seq(S), NEW w \in Seq(S),
         IsPrefix(a, w), IsPrefix(b, w)
  PROVE  IsPrefix(a, b) \/ IsPrefix(b, a)
<1>1. /\ Len(a) <= Len(w) /\ \A n \in 1..Len(a) : a[n] = w[n]
      /\ Len(b) <= Len(w) /\ \A n \in 1..Len(b) : b[n] = w[n]
  BY PrefixSymbols
<1>2. CASE Len(a) <= Len(b)
  BY <1>1, <1>2, PrefixSymbols
<1>3. CASE Len(b) <= Len(a)
  BY <1>1, <1>3, PrefixSymbols
<1> QED BY <1>2, <1>3

\* The variable that a word starts with is the only one, if none clash.
LEMMA OneShows ==
  ASSUME setup \in Setups, NoClash, NEW word \in Seq(STRING),
         NEW u \in Vars, NEW v \in Vars, Shows(u, word), Shows(v, word)
  PROVE  u = v
<1>1. /\ u \in KindNames \X Indices /\ v \in KindNames \X Indices
  BY DEF Vars
<1>2. /\ Variable(u[1], u[2]) \in Seq(Symbols)
      /\ Variable(v[1], v[2]) \in Seq(Symbols)
  BY <1>1, VariableType
<1>3. word \in Seq(Symbols)
  BY WiderSeq DEF Symbols
<1>4. \/ IsPrefix(Variable(u[1], u[2]), Variable(v[1], v[2]))
      \/ IsPrefix(Variable(v[1], v[2]), Variable(u[1], u[2]))
  BY <1>2, <1>3, TwoPrefixes DEF Shows
<1>5. u[1] = v[1] /\ u[2] = v[2]
  BY <1>1, <1>4 DEF NoClash
<1> QED BY <1>1, <1>5

\* A word with a value in its place shows no variable any more.
LEMMA NoneShows ==
  ASSUME setup \in Setups, NEW word \in Seq(STRING),
         NEW u \in Vars, Shows(u, word),
         NEW k \in KindNames, NEW i \in Indices
  PROVE  /\ ~IsPrefix(Variable(k, i), InPlace(u, word))
         /\ InPlace(u, word) # word
         /\ InPlace(u, word) \in Seq(Symbols)
<1>1. u[1] \in KindNames /\ u[2] \in Indices /\ ValueOf(u[1], u[2]) # None
  BY DEF Vars
<1> DEFINE value == ValueOf(u[1], u[2])
           rest == SubSeq(word, Len(Variable(u[1], u[2])) + 1, Len(word))
<1>2. value \in STRING \ {"$"}
  BY <1>1, ValueType
<1>3. STRING \subseteq Symbols /\ "'" \in Symbols
  BY DEF Symbols
<1>4. Len(Variable(u[1], u[2])) \in Nat \ {0}
      /\ Variable(u[1], u[2]) \in Seq(Symbols)
      /\ Variable(u[1], u[2])[1] = "$"
  BY <1>1, VariableType
<1>5. word \in Seq(Symbols)
  BY <1>3, WiderSeq
<1>6. rest \in Seq(Symbols)
  BY <1>4, <1>5
<1> HIDE DEF value, rest
<1>7. /\ Quoted(value) \in Seq(Symbols)
      /\ Len(Quoted(value)) \in Nat \ {0}
      /\ Quoted(value)[1] # "$"
  BY <1>2, <1>3 DEF Quoted
<1> DEFINE q == Quoted(value)
<1> HIDE DEF q
<1>8. /\ q \o rest \in Seq(Symbols)
      /\ (q \o rest)[1] # "$"
  BY <1>6, <1>7 DEF q
<1>9. InPlace(u, word) = q \o rest
  BY DEF InPlace, q, value, rest
<1>10. ~IsPrefix(Variable(k, i), q \o rest)
  <2> DEFINE var == Variable(k, i)
             out == q \o rest
  <2>1. /\ var \in Seq(Symbols)
        /\ Len(var) \in Nat \ {0}
        /\ var[1] = "$"
    BY VariableType
  <2>2. out \in Seq(Symbols) /\ out[1] # "$"
    BY <1>8
  <2> HIDE DEF var, out
  <2>3. ~IsPrefix(var, out)
    BY <2>1, <2>2, OtherStart
  <2> QED BY <2>3 DEF var, out
<1>11. word[1] = "$"
  BY <1>4, <1>5, PrefixSymbols DEF Shows
<1> QED BY <1>8, <1>9, <1>10, <1>11

\* When the text is rewritten, the maps hold what the variables stand for.
LEMMA RewritingFound ==
  ASSUME FoundInv, pc = "replace", NEW k \in KindNames, NEW i \in Indices
  PROVE  /\ i \in DOMAIN maps[k] <=> ValueOf(k, i) # None
         /\ i \in DOMAIN maps[k] => maps[k][i] = ValueOf(k, i)
<1>1. CASE k = "bin"
  BY <1>1 DEF FoundInv, IsFound
<1>2. CASE k # "bin"
  <2>1. PICK n \in 2..6 : k = Kinds[n]
    BY <1>2, KindsDiffer
  <2>2. Behind(n, i)
    BY DEF Behind
  <2>3. ValueOf(k, i) = FileOf(k, i)
    BY <1>2 DEF ValueOf
  <2> QED BY <2>1, <2>2, <2>3 DEF FoundInv, IsFound
<1> QED BY <1>1, <1>2

\* A component that is not replaced yet has its turn to come.
LEMMA TurnToCome ==
  ASSUME Searching, pc = "replace", NEW i, i \notin replaced
  PROVE  ~HadTurn(<<Kind, i>>)
<1>1. kind \in 1..6
  BY DEF Searching
<1>2. \A n \in 1..6 : Kind = Kinds[n] => ~(n < kind)
  BY <1>1, KindsDiffer DEF Kind
<1> QED BY <1>2 DEF HadTurn

\* One turn more.
LEMMA TurnsTaken ==
  ASSUME Searching, pc = "replace", UNCHANGED <<pc, kind>>, NEW i,
         replaced' = replaced \union {i}, NEW v \in KindNames \X Indices
  PROVE  HadTurn(v)' <=> HadTurn(v) \/ v = <<Kind, i>>
<1>1. Kind' = Kind /\ v = <<v[1], v[2]>>
  BY DEF Kind
<1> QED BY <1>1 DEF HadTurn

\* And one kind more.
LEMMA KindsTaken ==
  ASSUME Searching, FoundInv, KindReplaced, NEW v \in Vars
  PROVE  HadTurn(v)' <=> HadTurn(v)
<1>0. /\ kind \in 1..6 /\ pc = "replace" /\ replaced = DOMAIN maps[Kind]
      /\ replaced' = {}
      /\ v[1] \in KindNames /\ v[2] \in Indices /\ ValueOf(v[1], v[2]) # None
  BY DEF Searching, KindReplaced, Vars
<1>1. PICK m \in 1..6 : v[1] = Kinds[m]
  BY <1>0, KindsDiffer
<1>2. v[1] = Kind => v[2] \in replaced
  BY <1>0, RewritingFound
<1>3. HadTurn(v) <=> m <= kind
  BY <1>0, <1>1, <1>2, KindsDiffer DEF HadTurn, Kind
<1>4. CASE kind < 6
  <2>1. kind' = kind + 1 /\ pc' = "replace"
    BY <1>0, <1>4, KindList DEF KindReplaced
  <2>2. HadTurn(v)' <=> m < kind + 1
    BY <1>0, <1>1, <2>1, KindsDiffer DEF HadTurn, Kind
  <2> QED BY <1>0, <1>3, <2>2
<1>5. CASE kind = 6
  <2>1. pc' = "audits"
    BY <1>5, KindList DEF KindReplaced
  <2> QED BY <1>3, <1>5, <2>1 DEF HadTurn
<1> QED BY <1>0, <1>4, <1>5

\* What a sequence consists of.
LEMMA ElementOf ==
  ASSUME NEW S, NEW s \in Seq(S), NEW n \in DOMAIN s
  PROVE  s[n] \in S
  OBVIOUS

\* The turn of a variable that stands for something.
LEMMA TurnText ==
  ASSUME Searching, FoundInv, TextInv, pc = "replace", NoClash,
         NEW i \in DOMAIN maps[Kind] \ replaced, maps[Kind][i] # "",
         NEW w \in DOMAIN text
  PROVE  LET v == <<Kind, i>>
             new == Replace(text, Variable(Kind, i), maps[Kind][i]) IN
         /\ v \in Vars /\ ~HadTurn(v)
         /\ new[w] = IF Shows(v, setup.text[w])
                     THEN InPlace(v, setup.text[w]) ELSE text[w]
         /\ Shows(v, setup.text[w]) =>
              /\ text[w] = setup.text[w]
              /\ \A u \in Vars : HadTurn(u) => ~Shows(u, setup.text[w])
<1> DEFINE v == <<Kind, i>>
           new == Replace(text, Variable(Kind, i), maps[Kind][i])
<1>0. /\ setup \in Setups /\ setup.text[w] \in Seq(STRING)
      /\ kind \in 1..6 /\ Kind \in KindNames /\ i \in Indices
      /\ v[1] = Kind /\ v[2] = i
  <2>1. setup \in Setups /\ kind \in 1..6
    BY DEF Searching
  <2>2. setup.text \in Seq(Seq(STRING)) /\ DOMAIN text = DOMAIN setup.text
    BY <2>1, SetupsAssumption DEF SetupOK, TextInv
  <2>3. setup.text[w] \in Seq(STRING)
    BY <2>2, ElementOf
  <2>4. Kind \in KindNames
    BY <2>1, KindsDiffer DEF Kind
  <2>5. i \in Indices
    BY <2>4 DEF FoundInv
  <2> QED BY <2>1, <2>3, <2>4, <2>5
<1>1. ValueOf(Kind, i) # None /\ maps[Kind][i] = ValueOf(Kind, i)
  BY <1>0, RewritingFound
<1>2. v \in Vars
  BY <1>0, <1>1 DEF Vars
<1>3. ~HadTurn(v)
  BY TurnToCome
<1>4. ASSUME Shows(v, setup.text[w]), NEW u \in Vars, HadTurn(u)
      PROVE  ~Shows(u, setup.text[w])
  BY <1>0, <1>2, <1>3, <1>4, OneShows
<1>5. new[w] = IF IsPrefix(Variable(Kind, i), text[w])
               THEN InPlace(v, text[w]) ELSE text[w]
  BY <1>0, <1>1 DEF Replace, InPlace
<1>6. CASE text[w] = setup.text[w]
  BY <1>0, <1>2, <1>3, <1>4, <1>5, <1>6 DEF Shows
<1>7. CASE text[w] # setup.text[w]
  <2>1. PICK u \in Vars : HadTurn(u) /\ Shows(u, setup.text[w])
    BY <1>7 DEF TextInv
  <2>2. text[w] = InPlace(u, setup.text[w])
    BY <2>1 DEF TextInv
  <2>3. ~IsPrefix(Variable(Kind, i), text[w])
    BY <1>0, <2>1, <2>2, NoneShows
  <2>4. ~Shows(v, setup.text[w])
    BY <1>4, <2>1
  <2> QED BY <1>2, <1>3, <1>5, <2>3, <2>4
<1> QED BY <1>6, <1>7

\* TextInv is inductive.
LEMMA NextText == Searching /\ FoundInv /\ TextInv /\ [Next]_vars => TextInv'
<1> SUFFICES ASSUME Searching, FoundInv, TextInv, [Next]_vars PROVE TextInv'
  OBVIOUS
<1>0. /\ setup' = setup /\ Indices' = Indices
      /\ \A k, i : /\ Variable(k, i)' = Variable(k, i)
                   /\ ValueOf(k, i)' = ValueOf(k, i)
  BY SetupSame, SetupOnly
<1>1. /\ NoClash' <=> NoClash
      /\ Vars' = Vars
      /\ \A v, word : Shows(v, word)' <=> Shows(v, word)
      /\ \A v, word : InPlace(v, word)' = InPlace(v, word)
  BY <1>0 DEF NoClash, Vars, Shows, InPlace
<1>2. ASSUME text' = text, pc' = "replace" => (replaced \subseteq DOMAIN maps[Kind])',
             pc' \notin {"bins", "files"},
             \A v \in Vars : HadTurn(v)' <=> HadTurn(v)
      PROVE  TextInv'
  BY <1>0, <1>1, <1>2 DEF TextInv
<1>3. CASE GetBinaries \/ GetFiles \/ KindDone
  <2>1. /\ pc \in {"bins", "files"} /\ UNCHANGED <<text, replaced>>
        /\ pc' = "replace" => kind' = 1
        /\ pc' \notin {"audits", "done"}
    BY <1>3, KindList
       DEF Searching, GetBinaries, GetFiles, KindDone, rewrite, Found, LookAt,
       NextCandidate, NextComponent, MandatoryMissing, NextKind
  <2>2. text = setup.text /\ replaced = {}
    BY <2>1 DEF TextInv
  <2>3. \A v : ~HadTurn(v)'
    BY <2>1, <2>2 DEF HadTurn
  <2> QED BY <1>0, <1>1, <2>1, <2>2, <2>3 DEF TextInv
<1>4. CASE Substitute
  <2>1. PICK i \in DOMAIN maps[Kind] \ replaced :
          /\ replaced' = replaced \union {i}
          /\ text' = IF maps[Kind][i] = "" THEN text
                     ELSE Replace(text, Variable(Kind, i), maps[Kind][i])
    BY <1>4 DEF Substitute
  <2>2. /\ pc = "replace" /\ UNCHANGED <<pc, kind, maps>> /\ Kind' = Kind
        /\ Kind \in KindNames /\ i \in Indices
        /\ (replaced \subseteq DOMAIN maps[Kind])'
    BY <1>4, <2>1, KindsDiffer
       DEF Substitute, search, Kind, TextInv, Searching, FoundInv
  <2> DEFINE v == <<Kind, i>>
  <2>3. \A u \in Vars : HadTurn(u)' <=> HadTurn(u) \/ u = v
    BY <2>1, <2>2, TurnsTaken DEF Vars
  <2>4. CASE maps[Kind][i] = ""
    <3>1. v \notin Vars
      BY <2>1, <2>2, <2>4, RewritingFound DEF Vars
    <3> QED BY <1>2, <2>1, <2>2, <2>3, <2>4, <3>1
  <2>5. CASE maps[Kind][i] # ""
    <3>1. /\ DOMAIN text' = DOMAIN text
          /\ text' = [w \in DOMAIN text' |-> text'[w]]
      BY <2>1, <2>5 DEF Replace
    <3>2. ASSUME NoClash, NEW w \in DOMAIN text
          PROVE  /\ text'[w] = setup.text[w]
                      \/ \E u \in Vars : HadTurn(u)' /\ Shows(u, setup.text[w])
                 /\ \A u \in Vars : HadTurn(u)' /\ Shows(u, setup.text[w]) =>
                      text'[w] = InPlace(u, setup.text[w])
      <4>1. /\ v \in Vars /\ ~HadTurn(v)
            /\ text'[w] = IF Shows(v, setup.text[w])
                          THEN InPlace(v, setup.text[w]) ELSE text[w]
            /\ Shows(v, setup.text[w]) =>
                 /\ text[w] = setup.text[w]
                 /\ \A u \in Vars : HadTurn(u) => ~Shows(u, setup.text[w])
        BY <2>1, <2>2, <2>5, <3>2, TurnText
      <4> HIDE DEF v
      <4> QED BY <2>3, <3>2, <4>1 DEF TextInv
    <3> QED BY <1>0, <1>1, <2>2, <3>1, <3>2 DEF TextInv
  <2> QED BY <2>4, <2>5
<1>5. CASE KindReplaced
  <2>1. \A v \in Vars : HadTurn(v)' <=> HadTurn(v)
    BY <1>5, KindsTaken
  <2> QED BY <1>2, <1>5, <2>1 DEF KindReplaced
<1>6. CASE GenerateAudits
  BY <1>2, <1>6 DEF GenerateAudits, HadTurn, rewrite
<1>7. CASE Ended \/ UNCHANGED vars
  <2>1. UNCHANGED vars
    BY <1>7 DEF Ended
  <2>2. \A v : HadTurn(v)' <=> HadTurn(v)
    BY <2>1 DEF vars, HadTurn, Kind
  <2>3. Kind' = Kind
    BY <2>1 DEF vars, Kind
  <2> QED BY <1>0, <1>1, <2>1, <2>2, <2>3 DEF vars, TextInv
<1> QED BY <1>3, <1>4, <1>5, <1>6, <1>7 DEF Next

LEMMA TextHolds == Spec => []TextInv
<1>1. Init => TextInv
  <2>1. Init => text \in Seq(Seq(STRING))
    BY SetupsAssumption DEF Init, SetupOK
  <2> QED BY <2>1 DEF Init, TextInv, HadTurn
<1> QED BY <1>1, NextText, SearchingHolds, FoundHolds, PTL DEF Spec

(***************************************************************************)
(* Whatever the order in which Go goes through the map, each variable of   *)
(* the controls file is replaced by what belongs to its own component, and *)
(* no other word is touched.                                               *)
(***************************************************************************)
THEOREM SubstitutionCorrect == Spec => []Substituted
<1>1. TextInv => Substituted
  <2> SUFFICES ASSUME TextInv, pc = "done", NoClash, NEW w \in DOMAIN text
               PROVE  LET shown == {v \in KindNames \X Indices :
                                      /\ ValueOf(v[1], v[2]) \notin {None, ""}
                                      /\ IsPrefix(Variable(v[1], v[2]), setup.text[w])}
                      IN  IF shown = {} THEN text[w] = setup.text[w]
                          ELSE \A v \in shown :
                                 LET n == Len(Variable(v[1], v[2])) IN
                                 text[w] = Quoted(ValueOf(v[1], v[2]))
                                   \o SubSeq(setup.text[w], n + 1, Len(setup.text[w]))
    BY DEF Substituted
  <2>1. \A v \in Vars : HadTurn(v)
    BY DEF HadTurn
  <2> QED BY <2>1 DEF TextInv, Vars, Shows, InPlace
<1> QED BY <1>1, TextHolds, PTL

-----------------------------------------------------------------------------
(* What the audits that are generated ask.                                 *)

\* The components whose binary is in the text by now.
Named ==
  {i \in Indices :
     /\ <<"bin", i>> \in Vars
     /\ HadTurn(<<"bin", i>>)
     /\ \E w \in DOMAIN setup.text : Shows(<<"bin", i>>, setup.text[w])}

\* The substitutions that are kept are those, one of each.
SubsInv ==
  /\ pc \in {"bins", "files"} => subs = <<>>
  /\ NoClash /\ pc # "exit" =>
       /\ subs \in Seq(STRING)
       /\ IsFiniteSet(Named)
       /\ Len(subs) = Cardinality(Named)
       /\ \A n \in DOMAIN subs : \E i \in Named : subs[n] = ValueOf("bin", i)
  /\ pc = "done" /\ setup.audits =>
       auditBin = IF Len(subs) = 1 THEN subs[1] ELSE ""

\* The text changes exactly if it shows the variable.
LEMMA TurnChanges ==
  ASSUME Searching, FoundInv, TextInv, pc = "replace", NoClash,
         NEW i \in DOMAIN maps[Kind] \ replaced, maps[Kind][i] # "",
         text' = Replace(text, Variable(Kind, i), maps[Kind][i])
  PROVE  text' # text <=>
           \E w \in DOMAIN setup.text : Shows(<<Kind, i>>, setup.text[w])
<1> DEFINE v == <<Kind, i>>
<1>0. /\ DOMAIN text = DOMAIN setup.text
      /\ text = [w \in DOMAIN text |-> text[w]]
      /\ text' = [w \in DOMAIN text |-> text'[w]]
  BY DEF TextInv, Replace
<1>1. \A w \in DOMAIN text :
        /\ v \in Vars
        /\ text'[w] = IF Shows(v, setup.text[w])
                      THEN InPlace(v, setup.text[w]) ELSE text[w]
        /\ Shows(v, setup.text[w]) => text[w] = setup.text[w]
  BY TurnText
<1>2. ASSUME NEW w \in DOMAIN text, Shows(v, setup.text[w])
      PROVE  text'[w] # text[w]
  <2>1. setup \in Setups
    BY DEF Searching
  <2>2. setup.text[w] \in Seq(STRING)
    BY <1>0, <2>1, SetupsAssumption, ElementOf DEF SetupOK
  <2>3. v \in Vars /\ v[1] \in KindNames /\ v[2] \in Indices
    BY <1>1, <1>2 DEF Vars
  <2>4. InPlace(v, setup.text[w]) # setup.text[w]
    BY <1>2, <2>1, <2>2, <2>3, NoneShows
  <2> QED BY <1>1, <1>2, <2>4
<1>3. ASSUME \A w \in DOMAIN text : ~Shows(v, setup.text[w])
      PROVE  text' = text
  BY <1>0, <1>1, <1>3
<1> QED BY <1>0, <1>2, <1>3

\* A turn keeps a binary exactly if it names one more component.
LEMMA TurnNames ==
  ASSUME Searching, FoundInv, TextInv, SubsInv, Substitute, NoClash
  PROVE  /\ subs' \in Seq(STRING)
         /\ IsFiniteSet(Named')
         /\ Len(subs') = Cardinality(Named')
         /\ \A n \in DOMAIN subs' :
              \E i \in Named' : subs'[n] = ValueOf("bin", i)
<1>1. PICK i \in DOMAIN maps[Kind] \ replaced :
        /\ replaced' = replaced \union {i}
        /\ text' = IF maps[Kind][i] = "" THEN text
                   ELSE Replace(text, Variable(Kind, i), maps[Kind][i])
        /\ subs' = Noted(maps[Kind][i])
  BY DEF Substitute
<1> DEFINE v == <<Kind, i>>
           value == maps[Kind][i]
<1>2. /\ pc = "replace" /\ UNCHANGED <<pc, kind, setup>>
      /\ kind \in 1..6 /\ Kind \in KindNames /\ i \in Indices
      /\ setup \in Setups
  BY <1>1, KindsDiffer DEF Substitute, Kind, Searching, FoundInv
<1>3. /\ subs \in Seq(STRING)
      /\ IsFiniteSet(Named)
      /\ Len(subs) = Cardinality(Named)
      /\ \A n \in DOMAIN subs : \E j \in Named : subs[n] = ValueOf("bin", j)
  BY <1>2 DEF SubsInv
<1>4. /\ Indices' = Indices /\ Vars' = Vars
      /\ \A u, word : Shows(u, word)' <=> Shows(u, word)
  BY <1>2, SetupOnly DEF Vars, Shows
<1>5. \A u \in Vars : HadTurn(u)' <=> HadTurn(u) \/ u = v
  BY <1>1, <1>2, TurnsTaken DEF Vars
<1>6. ValueOf(Kind, i) # None /\ value = ValueOf(Kind, i)
      /\ value \in STRING
  BY <1>1, <1>2, RewritingFound, ValueType
<1>7. Named' = {j \in Indices :
         /\ <<"bin", j>> \in Vars
         /\ HadTurn(<<"bin", j>>) \/ <<"bin", j>> = v
         /\ \E w \in DOMAIN setup.text : Shows(<<"bin", j>>, setup.text[w])}
  BY <1>2, <1>4, <1>5 DEF Named
<1>8. ~HadTurn(v)
  BY <1>1, <1>2, TurnToCome
<1> DEFINE more == /\ kind = 1 /\ value # ""
                   /\ \E w \in DOMAIN setup.text : Shows(v, setup.text[w])
<1>9. v \in Vars <=> value # ""
  BY <1>2, <1>6 DEF Vars
<1>10. kind = 1 <=> Kind = "bin"
  BY <1>2, KindsDiffer, KindList DEF Kind
<1>11. subs' = IF more THEN Append(subs, value) ELSE subs
  BY <1>1, <1>2, TurnChanges DEF Noted
<1>12. CASE more
  <2>1. Named' = Named \union {i} /\ i \notin Named
    BY <1>2, <1>7, <1>8, <1>9, <1>10, <1>12 DEF Named
  <2>2. IsFiniteSet(Named') /\ Cardinality(Named') = Cardinality(Named) + 1
    BY <1>3, <2>1, FS_AddElement
  <2>3. subs' = Append(subs, value)
    BY <1>11, <1>12
  <2>4. /\ subs' \in Seq(STRING) /\ Len(subs') = Len(subs) + 1
        /\ DOMAIN subs' = DOMAIN subs \union {Len(subs) + 1}
        /\ \A n \in DOMAIN subs : subs'[n] = subs[n]
        /\ subs'[Len(subs) + 1] = value
    BY <1>3, <1>6, <2>3
  <2>5. value = ValueOf("bin", i)
    BY <1>6, <1>10, <1>12
  <2> HIDE DEF value
  <2> QED BY <1>3, <2>1, <2>2, <2>4, <2>5
<1>13. CASE ~more
  <2>1. Named' = Named
    <3>1. ASSUME NEW j \in Indices, <<"bin", j>> \in Vars, <<"bin", j>> = v,
                 \E w \in DOMAIN setup.text : Shows(<<"bin", j>>, setup.text[w])
          PROVE  FALSE
      BY <1>9, <1>10, <1>13, <3>1
    <3> HIDE DEF v
    <3> QED BY <1>7, <3>1 DEF Named
  <2>2. subs' = subs
    BY <1>11, <1>13
  <2> QED BY <1>3, <2>1, <2>2
<1> QED BY <1>12, <1>13

\* SubsInv is inductive.
LEMMA NextSubs ==
  Searching /\ FoundInv /\ TextInv /\ SubsInv /\ [Next]_vars => SubsInv'
<1> SUFFICES ASSUME Searching, FoundInv, TextInv, SubsInv, [Next]_vars
             PROVE  SubsInv'
  OBVIOUS
<1>0. /\ setup' = setup /\ Indices' = Indices
      /\ \A k, i : /\ Variable(k, i)' = Variable(k, i)
                   /\ ValueOf(k, i)' = ValueOf(k, i)
  BY SetupSame, SetupOnly
<1>1. /\ NoClash' <=> NoClash
      /\ Vars' = Vars
      /\ \A v, word : Shows(v, word)' <=> Shows(v, word)
  BY <1>0 DEF NoClash, Vars, Shows
<1>2. ASSUME \A v \in Vars : HadTurn(v)' <=> HadTurn(v)
      PROVE  Named' = Named
  BY <1>0, <1>1, <1>2 DEF Named
<1>3. CASE GetBinaries \/ GetFiles \/ KindDone
  <2>1. /\ pc \in {"bins", "files"} /\ UNCHANGED <<subs, replaced>>
        /\ pc' = "replace" => kind' = 1
        /\ pc' \notin {"audits", "done"}
    BY <1>3, KindList
       DEF Searching, GetBinaries, GetFiles, KindDone, rewrite, Found, LookAt,
       NextCandidate, NextComponent, MandatoryMissing, NextKind
  <2>2. subs = <<>> /\ replaced = {}
    BY <2>1 DEF SubsInv, TextInv
  <2>3. \A v : ~HadTurn(v)'
    BY <2>1, <2>2 DEF HadTurn
  <2>4. Named' = {}
    BY <2>3 DEF Named
  <2>5. IsFiniteSet(Named') /\ Cardinality(Named') = 0
    BY <2>4, FS_EmptySet
  <2>6. /\ subs' = <<>> /\ subs' \in Seq(STRING)
        /\ Len(subs') = 0 /\ DOMAIN subs' = {}
    BY <2>1, <2>2
  <2> QED BY <2>1, <2>5, <2>6 DEF SubsInv
<1>4. CASE Substitute
  <2>1. pc = "replace" /\ pc' = "replace"
    BY <1>4 DEF Substitute
  <2> QED BY <1>0, <1>1, <1>4, <2>1, TurnNames DEF SubsInv
<1>5. CASE KindReplaced
  <2>1. Named' = Named
    BY <1>2, <1>5, KindsTaken
  <2>2. pc = "replace" /\ pc' \in {"replace", "audits"} /\ subs' = subs
    BY <1>5 DEF KindReplaced
  <2> QED BY <1>0, <1>1, <2>1, <2>2 DEF SubsInv
<1>6. CASE GenerateAudits
  <2>1. \A v : HadTurn(v)' <=> HadTurn(v)
    BY <1>6 DEF GenerateAudits, HadTurn
  <2>2. Named' = Named
    BY <1>2, <2>1
  <2>3. /\ pc = "audits" /\ pc' = "done" /\ subs' = subs
        /\ setup.audits =>
             auditBin' = IF Len(subs) = 1 THEN subs[1] ELSE ""
    BY <1>6 DEF GenerateAudits, rewrite
  <2> QED BY <1>0, <1>1, <2>2, <2>3 DEF SubsInv
<1>7. CASE Ended \/ UNCHANGED vars
  <2>1. UNCHANGED vars
    BY <1>7 DEF Ended
  <2>2. \A v : HadTurn(v)' <=> HadTurn(v)
    BY <2>1 DEF vars, HadTurn, Kind
  <2>3. Named' = Named
    BY <1>2, <2>2
  <2> QED BY <1>0, <1>1, <2>1, <2>3 DEF vars, SubsInv
<1> QED BY <1>3, <1>4, <1>5, <1>6, <1>7 DEF Next

LEMMA SubsHolds == Spec => []SubsInv
<1>1. Init => SubsInv
  <2> SUFFICES ASSUME Init PROVE SubsInv
    OBVIOUS
  <2>1. pc = "bins" /\ subs = <<>>
    BY DEF Init
  <2>2. Named = {}
    BY <2>1 DEF Named, HadTurn
  <2>3. IsFiniteSet(Named) /\ Cardinality(Named) = 0
    BY <2>2, FS_EmptySet
  <2> QED BY <2>1, <2>3 DEF SubsInv
<1> QED BY <1>1, NextSubs, SearchingHolds, FoundHolds, TextHolds, PTL DEF Spec

(***************************************************************************)
(* A generated audit asks for the environment of the process that the text *)
(* is about, and of none if the text names several or none.                *)
(***************************************************************************)
THEOREM AuditsCorrect == Spec => []AuditNamesBinary
<1>1. SubsInv => AuditNamesBinary
  <2> SUFFICES ASSUME SubsInv, pc = "done", NoClash, setup.audits
               PROVE  IF Cardinality(Named) = 1
                      THEN \A i \in Named : auditBin = ValueOf("bin", i)
                      ELSE auditBin = ""
    <3>1. pc = "done" => Named = {i \in Indices :
                  /\ ValueOf("bin", i) \notin {None, ""}
                  /\ \E w \in DOMAIN setup.text :
                       IsPrefix(Variable("bin", i), setup.text[w])}
      BY KindsDiffer DEF Named, HadTurn, Vars, Shows
    <3> QED BY <3>1 DEF AuditNamesBinary
  <2>1. /\ Len(subs) = Cardinality(Named) /\ subs \in Seq(STRING)
        /\ IsFiniteSet(Named)
        /\ \A n \in DOMAIN subs : \E i \in Named : subs[n] = ValueOf("bin", i)
        /\ auditBin = IF Len(subs) = 1 THEN subs[1] ELSE ""
    BY DEF SubsInv
  <2>2. CASE Cardinality(Named) = 1
    <3>1. PICK i : Named = {i}
      BY <2>1, <2>2, FS_Singleton
    <3>2. 1 \in DOMAIN subs /\ auditBin = subs[1]
      BY <2>1, <2>2
    <3> QED BY <2>1, <2>2, <3>1, <3>2
  <2> QED BY <2>1, <2>2
<1> QED BY <1>1, SubsHolds, PTL

-----------------------------------------------------------------------------
(* The loops end.                                                          *)

Stage ==
  CASE pc = "bins"    -> 4
    [] pc = "files"   -> 3
    [] pc = "replace" -> 2
    [] pc = "audits"  -> 1
    [] OTHER          -> 0

KindsToGo == 6 - kind

\* The components that have not had their turn, of the search or of the map.
ComponentsToGo ==
  CASE pc \in {"bins", "files"} -> ToGo(at, Len(setup.comps))
    [] pc = "replace"           -> Cardinality(DOMAIN maps[Kind] \ replaced)
    [] OTHER                    -> 0

CandidatesToGo ==
  IF pc \in {"bins", "files"} /\ at \in Indices
  THEN ToGo(cand, Len(List)) ELSE 0

\* What is ahead: kinds, in the kind at hand components, and candidates of
\* the one that is looked at.
Ahead == <<Stage, KindsToGo, ComponentsToGo, CandidatesToGo>>

\* The turns of a kind that are to come are as many as a number says.
LEMMA TurnsFinite ==
  ASSUME Searching, FoundInv PROVE IsFiniteSet(DOMAIN maps[Kind] \ replaced)
<1>1. setup \in Setups /\ Kind \in KindNames
  BY KindsDiffer DEF Searching, Kind
<1>2. setup.comps \in Seq(Components)
  BY <1>1, SetupsAssumption DEF SetupOK
<1>3. Indices = 1..Len(setup.comps) /\ Len(setup.comps) \in Nat
  BY <1>2 DEF Indices
<1>4. IsFiniteSet(Indices)
  BY <1>3, FS_Interval
<1>5. DOMAIN maps[Kind] \ replaced \subseteq Indices
  BY <1>1 DEF FoundInv
<1> QED BY <1>4, <1>5, FS_Subset

LEMMA AheadTyped ==
  Searching /\ FoundInv
    => /\ Stage \in Nat /\ KindsToGo \in Nat
       /\ ComponentsToGo \in Nat /\ CandidatesToGo \in Nat
<1> SUFFICES ASSUME Searching, FoundInv
             PROVE  /\ Stage \in Nat /\ KindsToGo \in Nat
                    /\ ComponentsToGo \in Nat /\ CandidatesToGo \in Nat
  OBVIOUS
<1>1. Stage \in Nat
  BY DEF Stage
<1>2. KindsToGo \in Nat
  BY DEF KindsToGo, Searching
<1>3. ComponentsToGo \in Nat
  <2>1. CASE pc \in {"bins", "files"}
    <3>1. setup.comps \in Seq(Components)
      BY SetupsAssumption DEF Searching, SetupOK
    <3>2. Len(setup.comps) \in Nat
      BY <3>1
    <3>3. at \in Nat
      BY <2>1, <3>2 DEF Searching
    <3>4. ComponentsToGo = ToGo(at, Len(setup.comps))
      BY <2>1 DEF ComponentsToGo
    <3> QED BY <3>2, <3>3, <3>4, FewerToGo
  <2>2. CASE pc = "replace"
    <3>1. ComponentsToGo = Cardinality(DOMAIN maps[Kind] \ replaced)
      BY <2>2 DEF ComponentsToGo
    <3> QED BY <3>1, TurnsFinite, FS_CardinalityType
  <2> QED BY <2>1, <2>2 DEF ComponentsToGo
<1>4. CandidatesToGo \in Nat
  <2>1. CASE pc \in {"bins", "files"} /\ at \in Indices
    <3>1. List \in Seq(STRING) /\ cand \in Nat
      BY <2>1, HereTypes DEF Searching, Indices
    <3>2. Len(List) \in Nat
      BY <3>1
    <3> QED BY <2>1, <3>1, <3>2, FewerToGo DEF CandidatesToGo
  <2> QED BY <2>1 DEF CandidatesToGo
<1> QED BY <1>1, <1>2, <1>3, <1>4

\* The search leaves behind a candidate, a component or a kind.
LEMMA SearchAhead ==
  ASSUME Searching,
         SettlesBinary \/ SettlesFile \/ PassesOne \/ GivesUp \/ KindDone
  PROVE  \/ Stage' < Stage
         \/ Stage' = Stage /\ KindsToGo' < KindsToGo
         \/ /\ Stage' = Stage /\ KindsToGo' = KindsToGo
            /\ ComponentsToGo' < ComponentsToGo
         \/ /\ Stage' = Stage /\ KindsToGo' = KindsToGo
            /\ ComponentsToGo' = ComponentsToGo
            /\ CandidatesToGo' < CandidatesToGo
<1>1. CASE SettlesBinary \/ SettlesFile
  <2>1. /\ pc \in {"bins", "files"} /\ at \in Indices
        /\ UNCHANGED <<setup, pc, kind>> /\ at' = at + 1
    BY <1>1 DEF SettlesBinary, SettlesFile, Settles
  <2>2. /\ at \in 1..Len(setup.comps) /\ Len(setup.comps) \in Nat
        /\ at \in Nat /\ at <= Len(setup.comps)
    <3>1. at \in 1..Len(setup.comps) /\ Len(setup.comps) \in Nat
      BY <2>1, HereTypes DEF Indices
    <3> QED BY <3>1
  <2>3. ToGo(at + 1, Len(setup.comps)) < ToGo(at, Len(setup.comps))
    BY <2>2, FewerToGo
  <2>4. ComponentsToGo' < ComponentsToGo
    BY <2>1, <2>3 DEF ComponentsToGo
  <2> QED BY <2>1, <2>4 DEF Stage, KindsToGo
<1>2. CASE PassesOne
  <2>1. /\ pc \in {"bins", "files"} /\ at \in Indices /\ cand \in DOMAIN List
        /\ UNCHANGED <<setup, pc, kind, at, maps>> /\ cand' = cand + 1
    BY <1>2 DEF PassesOne, Passes, NextCandidate
  <2>2. List \in Seq(STRING)
    BY <2>1, HereTypes DEF Indices
  <2>3. Len(List) \in Nat /\ cand \in 1..Len(List)
    BY <2>1, <2>2
  <2>4. ToGo(cand + 1, Len(List)) < ToGo(cand, Len(List))
    BY <2>3, FewerToGo
  <2>5. List' = List /\ Indices' = Indices
    BY <2>1 DEF List, Here, Kind, Indices
  <2>6. CandidatesToGo' < CandidatesToGo
    BY <2>1, <2>4, <2>5 DEF CandidatesToGo
  <2>7. ComponentsToGo' = ComponentsToGo
    BY <2>1 DEF ComponentsToGo
  <2> QED BY <2>1, <2>6, <2>7 DEF Stage, KindsToGo
<1>3. CASE GivesUp \/ KindDone
  <2>1. pc \in {"bins", "files"} /\ NextKind /\ setup' = setup
    BY <1>3 DEF GivesUp, MandatoryMissing, KindDone
  <2>2. /\ kind < 6 => pc' = "files" /\ kind' = kind + 1
        /\ kind = 6 => pc' = "replace"
    BY <2>1, KindSearching
  <2>3. kind \in 1..6
    BY DEF Searching
  <2> QED BY <2>1, <2>2, <2>3 DEF Stage, KindsToGo
<1> QED BY <1>1, <1>2, <1>3

\* The rewriting leaves behind a turn, a kind or a stage.
LEMMA RewriteAhead ==
  ASSUME Searching, FoundInv, Substitute \/ KindReplaced \/ GenerateAudits
  PROVE  \/ Stage' < Stage
         \/ Stage' = Stage /\ KindsToGo' < KindsToGo
         \/ /\ Stage' = Stage /\ KindsToGo' = KindsToGo
            /\ ComponentsToGo' < ComponentsToGo
<1>1. CASE Substitute
  <2>1. /\ pc = "replace"
        /\ UNCHANGED <<setup, pc, kind, at, cand, maps>>
    BY <1>1 DEF Substitute, search
  <2>2. PICK i \in DOMAIN maps[Kind] \ replaced :
          replaced' = replaced \cup {i}
    BY <1>1 DEF Substitute
  <2> DEFINE T == DOMAIN maps[Kind] \ replaced
  <2>3. IsFiniteSet(T) /\ i \in T
    BY <2>2, TurnsFinite
  <2>4. (DOMAIN maps[Kind] \ replaced)' = T \ {i}
    BY <2>1, <2>2 DEF Kind
  <2>5. Cardinality(T) \in Nat /\ Cardinality(T \ {i}) = Cardinality(T) - 1
    BY <2>3, FS_CardinalityType, FS_RemoveElement
  <2> HIDE DEF T
  <2>6. ComponentsToGo' = Cardinality(T \ {i})
    BY <2>1, <2>4 DEF ComponentsToGo
  <2>7. ComponentsToGo = Cardinality(T)
    BY <2>1 DEF ComponentsToGo, T
  <2>8. ComponentsToGo' < ComponentsToGo
    BY <2>5, <2>6, <2>7
  <2> QED BY <2>1, <2>8 DEF Stage, KindsToGo
<1>2. CASE KindReplaced
  <2>1. pc = "replace" /\ kind \in 1..6
    BY <1>2 DEF KindReplaced, Searching
  <2>2. \/ kind' = kind + 1 /\ pc' = pc
        \/ pc' = "audits"
    BY <1>2 DEF KindReplaced
  <2> QED BY <2>1, <2>2 DEF Stage, KindsToGo
<1>3. CASE GenerateAudits
  <2>1. pc = "audits" /\ pc' = "done"
    BY <1>3 DEF GenerateAudits
  <2> QED BY <2>1 DEF Stage
<1> QED BY <1>1, <1>2, <1>3

\* Every step leaves something behind.
LEMMA NextAhead ==
  Searching /\ FoundInv /\ (Ahead \in [1..4 -> Nat])' /\ [Next]_vars
    => <<Ahead', Ahead>> \in LexOrder(4) \/ UNCHANGED vars
<1> SUFFICES ASSUME Searching, FoundInv, (Ahead \in [1..4 -> Nat])', Next,
                    ~UNCHANGED vars
             PROVE  <<Ahead', Ahead>> \in LexOrder(4)
  OBVIOUS
<1>1. /\ Stage \in Nat /\ KindsToGo \in Nat
      /\ ComponentsToGo \in Nat /\ CandidatesToGo \in Nat
  BY AheadTyped
<1>2. /\ Stage' \in Nat /\ KindsToGo' \in Nat
      /\ ComponentsToGo' \in Nat /\ CandidatesToGo' \in Nat
  BY DEF Ahead
<1>3. \/ Stage' < Stage
      \/ Stage' = Stage /\ KindsToGo' < KindsToGo
      \/ /\ Stage' = Stage /\ KindsToGo' = KindsToGo
         /\ ComponentsToGo' < ComponentsToGo
      \/ /\ Stage' = Stage /\ KindsToGo' = KindsToGo
         /\ ComponentsToGo' = ComponentsToGo
         /\ CandidatesToGo' < CandidatesToGo
  <2>1. CASE GetBinaries
    <3>1. pc = "bins" /\ at \in Indices
      BY <2>1 DEF GetBinaries, Indices
    <3>2. SettlesBinary \/ PassesOne \/ GivesUp
      BY <2>1, <3>1, BinarySettles DEF SettlesBinary, PassesOne, GivesUp
    <3> QED BY <3>2, SearchAhead
  <2>2. CASE GetFiles
    <3>1. pc = "files" /\ at \in Indices
      BY <2>2 DEF GetFiles, Indices
    <3>2. SettlesFile \/ PassesOne \/ Denies
      BY <2>2, <3>1, FileSettles DEF SettlesFile, PassesOne, Denies
    <3>3. Denies => Stage' < Stage
      BY DEF Denies, Stage
    <3> QED BY <3>2, <3>3, SearchAhead
  <2>3. CASE KindDone
    BY <2>3, SearchAhead
  <2>4. CASE Substitute \/ KindReplaced \/ GenerateAudits
    BY <2>4, RewriteAhead
  <2> QED BY <2>1, <2>2, <2>3, <2>4 DEF Next, Ended
<1>4. <<<<Stage', KindsToGo', ComponentsToGo', CandidatesToGo'>>,
        <<Stage, KindsToGo, ComponentsToGo, CandidatesToGo>>>> \in LexOrder(4)
  BY <1>1, <1>2, <1>3, FourInOrder, ZenonT(60)
<1> QED BY <1>4 DEF Ahead

(***************************************************************************)
(* A section is prepared in so many steps, whatever is configured, runs or *)
(* exists, and in whatever order the map yields: every step brings what is *)
(* ahead down in an order in which nothing goes down for ever              *)
(* (OrderWellFounded).                                                     *)
(***************************************************************************)
THEOREM StepsRunOut ==
  Spec => [](Ahead \in [1..4 -> Nat]) /\ [][(<<Ahead', Ahead>> \in LexOrder(4))]_vars
<1>1. Searching /\ FoundInv => Ahead \in [1..4 -> Nat]
  BY AheadTyped DEF Ahead
<1> QED BY SearchingHolds, FoundHolds, <1>1, NextAhead, PTL DEF Spec
=============================================================================
