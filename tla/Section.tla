------------------------------ MODULE Section ------------------------------
(***************************************************************************)
(* How runChecks (cmd/common.go) prepares the controls of a section:       *)
(* getBinaries and getFiles look for what its components run and read      *)
(* (cmd/util.go), makeSubstitutions puts that in place of the variables of *)
(* the controls file, in the random order of a Go map, and                 *)
(* generateDefaultEnvAudit completes the checks.                           *)
(***************************************************************************)
EXTENDS Naturals, Sequences, FiniteSets, SequencesExt

CONSTANTS
  Setups,     \* sections and nodes
  MultiWord   \* the values that consist of several words

(***************************************************************************)
(* A setup is a record:                                                    *)
(*   comps    the components: id, name (the id as a sequence of symbols),  *)
(*            set (it has settings), optional, bins and, for each kind of  *)
(*            file, the candidates and the default, None if there is none  *)
(*   text     the controls file, word by word; a word is a sequence of     *)
(*            symbols, and a variable starts with "$"                      *)
(*   audits   a check of the file lacks the audit of its environment       *)
(*   running  the executables that run                                     *)
(*   there    the files that exist                                         *)
(*   denied   the files that cannot be looked at                           *)
(***************************************************************************)
FileKinds == {"conf", "svc", "kubeconfig", "cafile", "datadir"}
Kinds == <<"bin", "conf", "svc", "kubeconfig", "cafile", "datadir">>
KindNames == {Kinds[n] : n \in DOMAIN Kinds}

None == "none"

Components ==
  [id : STRING, name : Seq(STRING), set : BOOLEAN, optional : BOOLEAN,
   bins : Seq(STRING), files : [FileKinds -> Seq(STRING)],
   default : [FileKinds -> STRING]]

\* What may become the value of a variable of a component.
Candidates(c) ==
  {c.id} \union {c.bins[n] : n \in DOMAIN c.bins}
    \union UNION {{c.files[k][n] : n \in DOMAIN c.files[k]} : k \in FileKinds}

\* A value is one symbol, and neither None nor the one that starts a variable.
SetupOK(x) ==
  /\ x.comps \in Seq(Components)
  /\ x.text \in Seq(Seq(STRING))
  /\ x.audits \in BOOLEAN
  /\ x.there \intersect x.denied = {}
  /\ \A i \in DOMAIN x.comps :
       /\ Candidates(x.comps[i]) \intersect {None, "$"} = {}
       /\ \A k \in FileKinds : x.comps[i].default[k] # "$"

ASSUME SetupsAssumption == \A x \in Setups : SetupOK(x)

VARIABLES
  setup,
  pc,
  kind,     \* the kind of variable that is looked for, or replaced
  at,       \* the component that is looked at
  cand,     \* the candidate of that component
  maps,     \* kind by kind, component by component, what was found
  text,
  replaced, \* the components whose variable of this kind has been replaced
  subs,     \* the substitutions of the binaries
  auditBin  \* the binary that the generated audits name

vars == <<setup, pc, kind, at, cand, maps, text, replaced, subs, auditBin>>
search == <<at, cand, maps>>
rewrite == <<text, replaced, subs>>

Empty == [i \in {} |-> None]

Init ==
  /\ setup \in Setups
  /\ pc = "bins"
  /\ kind = 1
  /\ at = 1
  /\ cand = 1
  /\ maps = [k \in KindNames |-> Empty]
  /\ text = setup.text
  /\ replaced = {}
  /\ subs = <<>>
  /\ auditBin = None

Kind == Kinds[kind]
Here == setup.comps[at]

-----------------------------------------------------------------------------
(* getBinaries and getFiles.                                               *)

\* The component gets a value, and the next one is looked at.
Found(value) ==
  /\ maps' = [maps EXCEPT ![Kind] =
                [i \in DOMAIN @ \cup {at} |-> IF i = at THEN value ELSE @[i]]]
  /\ at' = at + 1
  /\ cand' = 1
  /\ UNCHANGED <<pc, kind>>

NextCandidate == cand' = cand + 1 /\ UNCHANGED <<pc, kind, at, maps>>

NextComponent == at' = at + 1 /\ cand' = 1 /\ UNCHANGED <<pc, kind, maps>>

\* The next kind of file, or the substitutions.
NextKind ==
  /\ pc' = IF kind < Len(Kinds) THEN "files" ELSE "replace"
  /\ kind' = IF kind < Len(Kinds) THEN kind + 1 ELSE 1
  /\ at' = 1
  /\ cand' = 1

\* Mutant of MandatoryMissing: what was found before the error is used.
MandatoryMissingKeeps ==
  /\ ~Here.optional
  /\ NextKind
  /\ UNCHANGED maps

\* The error of getBinaries comes with a nil map.
MandatoryMissing ==
  /\ ~Here.optional
  /\ NextKind
  /\ maps' = [maps EXCEPT !["bin"] = Empty]

\* getBinaries: the first candidate that runs, else the name of a component
\* that is optional.
GetBinaries ==
  /\ pc = "bins"
  /\ at \in DOMAIN setup.comps
  /\ \/ ~Here.set /\ NextComponent
     \/ Here.set /\ Here.bins = <<>> /\ NextComponent
     \/ /\ Here.set /\ cand \in DOMAIN Here.bins
        /\ IF Here.bins[cand] \in setup.running
           THEN Found(Here.bins[cand]) ELSE NextCandidate
     \/ /\ Here.set /\ Here.bins # <<>> /\ cand > Len(Here.bins)
        /\ MandatoryMissing \/ (Here.optional /\ Found(Here.id))
  /\ UNCHANGED <<setup, rewrite, auditBin>>

\* Mutant of LookAt: a file that cannot be looked at is taken for missing.
LookAtLenient(file) ==
  IF file \in setup.there THEN Found(file) ELSE NextCandidate

\* findConfigFile, one candidate: an error other than that the file does not
\* exist ends the program.
LookAt(file) ==
  \/ file \in setup.there /\ Found(file)
  \/ file \notin setup.there \cup setup.denied /\ NextCandidate
  \/ file \in setup.denied /\ pc' = "exit" /\ UNCHANGED <<kind, search>>

\* getFiles: the first candidate that exists, else the default, else the
\* name of the component.
GetFiles ==
  /\ pc = "files"
  /\ at \in DOMAIN setup.comps
  /\ \/ ~Here.set /\ NextComponent
     \/ Here.set /\ cand \in DOMAIN Here.files[Kind]
                 /\ LookAt(Here.files[Kind][cand])
     \/ Here.set /\ cand > Len(Here.files[Kind])
                 /\ Found(IF Here.default[Kind] = None
                          THEN Here.id ELSE Here.default[Kind])
  /\ UNCHANGED <<setup, rewrite, auditBin>>

KindDone ==
  /\ pc \in {"bins", "files"}
  /\ at > Len(setup.comps)
  /\ NextKind
  /\ UNCHANGED <<setup, maps, rewrite, auditBin>>

-----------------------------------------------------------------------------
(* makeSubstitutions.                                                      *)

\* The six endings, of which one may begin like another.
Ending(k) == IF k = "kubeconfig" THEN <<"kube", "conf", "ig">> ELSE <<k>>

Variable(k, i) == <<"$">> \o setup.comps[i].name \o Ending(k)

\* multiWordReplace quotes several words.
Quoted(value) == IF value \in MultiWord THEN <<"'", value, "'">> ELSE <<value>>

\* Mutant of Replace: variables are replaced if they are the whole word.
ReplaceWord(words, var, value) ==
  [k \in DOMAIN words |-> IF words[k] = var THEN Quoted(value) ELSE words[k]]

\* strings.Replace: wherever the text shows the variable.
Replace(words, var, value) ==
  [k \in DOMAIN words |->
     IF IsPrefix(var, words[k])
     THEN Quoted(value) \o SubSeq(words[k], Len(var) + 1, Len(words[k]))
     ELSE words[k]]

\* Mutant of Noted: every binary counts, whether the text names it or not.
NotedAlways(value) == IF kind = 1 THEN Append(subs, value) ELSE subs

\* Only the substitutions of the binaries are kept, if they changed the text.
Noted(value) ==
  IF kind = 1 /\ text' # text THEN Append(subs, value) ELSE subs

\* One turn of the loop, for any component that has not had its turn.
Substitute ==
  /\ pc = "replace"
  /\ \E i \in DOMAIN maps[Kind] \ replaced :
       /\ replaced' = replaced \cup {i}
       /\ text' = IF maps[Kind][i] = "" THEN text
                  ELSE Replace(text, Variable(Kind, i), maps[Kind][i])
       /\ subs' = Noted(maps[Kind][i])
  /\ UNCHANGED <<setup, pc, kind, search, auditBin>>

KindReplaced ==
  /\ pc = "replace"
  /\ replaced = DOMAIN maps[Kind]
  /\ replaced' = {}
  /\ IF kind < Len(Kinds) THEN kind' = kind + 1 /\ UNCHANGED pc
     ELSE pc' = "audits" /\ UNCHANGED kind
  /\ UNCHANGED <<setup, search, text, subs, auditBin>>

\* generateDefaultEnvAudit: a check with an item that names a variable of
\* the environment and without an audit for it, unless that is disabled, gets
\* one, for the binary of the text if there is but one.
GenerateAudits ==
  /\ pc = "audits"
  /\ pc' = "done"
  /\ auditBin' = CASE setup.audits /\ Len(subs) = 1 -> subs[1]
                   [] setup.audits /\ Len(subs) # 1 -> ""
                   [] OTHER                         -> None
  /\ UNCHANGED <<setup, kind, search, rewrite>>

Ended == pc \in {"done", "exit"} /\ UNCHANGED vars

Next ==
  \/ GetBinaries \/ GetFiles \/ KindDone
  \/ Substitute \/ KindReplaced \/ GenerateAudits \/ Ended

Spec == Init /\ [][Next]_vars

-----------------------------------------------------------------------------
Indices == DOMAIN setup.comps

\* The place of the first candidate that is present, one behind the last if
\* none is.
First(candidates, present) ==
  CHOOSE n \in 1..Len(candidates) + 1 :
    /\ \A m \in 1..n - 1 : candidates[m] \notin present
    /\ n <= Len(candidates) => candidates[n] \in present

Missing(i) ==
  /\ setup.comps[i].set
  /\ setup.comps[i].bins # <<>>
  /\ \A n \in DOMAIN setup.comps[i].bins :
       setup.comps[i].bins[n] \notin setup.running
  /\ ~setup.comps[i].optional

\* What the variable of a component stands for, None for nothing.
BinaryOf(i) ==
  LET c == setup.comps[i]
      n == First(c.bins, setup.running)
  IN  CASE ~c.set \/ c.bins = <<>> -> None
        [] c.set /\ c.bins # <<>> /\ n <= Len(c.bins) -> c.bins[n]
        [] OTHER -> c.id

FileOf(k, i) ==
  LET c == setup.comps[i]
      n == First(c.files[k], setup.there)
  IN  CASE ~c.set -> None
        [] c.set /\ n <= Len(c.files[k]) -> c.files[k][n]
        [] OTHER -> IF c.default[k] = None THEN c.id ELSE c.default[k]

MandatoryRun == \A i \in Indices : ~Missing(i)

ValueOf(k, i) ==
  CASE k = "bin" /\ MandatoryRun  -> BinaryOf(i)
    [] k = "bin" /\ ~MandatoryRun -> None
    [] OTHER                      -> FileOf(k, i)

\* No file stands in for one before it that could not be looked at: the
\* program ends instead, and only then (findConfigFile).
DeniedEnds ==
  LET hidden(i, k) ==
        LET fs == setup.comps[i].files[k] IN
        \E n \in DOMAIN fs :
          /\ fs[n] \in setup.denied
          /\ \A m \in 1..n - 1 : fs[m] \notin setup.there
      some == \E i \in Indices, k \in FileKinds :
                setup.comps[i].set /\ hidden(i, k)
  IN  /\ pc = "exit" => some
      /\ pc \in {"replace", "audits", "done"} => ~some

\* The names of the variables are such that none begins like another.
NoClash ==
  \A j, k \in KindNames, h, i \in Indices :
    IsPrefix(Variable(j, h), Variable(k, i)) => j = k /\ h = i

\* The controls that are run do not depend on the order of the map: each
\* variable is replaced by what belongs to its own component; and none that
\* stands for a binary is if a mandatory component does not run.
Substituted ==
  pc = "done" /\ NoClash =>
    \A w \in DOMAIN text :
      LET shown == {v \in KindNames \X Indices :
                      /\ ValueOf(v[1], v[2]) \notin {None, ""}
                      /\ IsPrefix(Variable(v[1], v[2]), setup.text[w])}
      IN  IF shown = {} THEN text[w] = setup.text[w]
          ELSE \A v \in shown :
                 LET n == Len(Variable(v[1], v[2])) IN
                 text[w] = Quoted(ValueOf(v[1], v[2]))
                             \o SubSeq(setup.text[w], n + 1, Len(setup.text[w]))

\* A generated audit of the environment asks the process that the text is
\* about; where the text names the binaries of several components, or of
\* none, it asks nobody.
AuditNamesBinary ==
  pc = "done" /\ NoClash /\ setup.audits =>
    LET named == {i \in Indices :
                    /\ ValueOf("bin", i) \notin {None, ""}
                    /\ \E w \in DOMAIN setup.text :
                         IsPrefix(Variable("bin", i), setup.text[w])}
    IN  IF Cardinality(named) = 1
        THEN \A i \in named : auditBin = ValueOf("bin", i)
        ELSE auditBin = ""
=============================================================================
