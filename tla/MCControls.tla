----------------------------- MODULE MCControls -----------------------------
(***************************************************************************)
(* Small controls files and command lines for Controls.                    *)
(***************************************************************************)
EXTENDS Outputs

UpTo(n, S) == UNION {[1..k -> S] : k \in 0..n}

GroupIDs == {"1.1", "1.2"}
CheckIDs == {"1.1.1"}

\* kind is a triple <<type, scored, tests>>.
Check(id, kind) ==
  [id |-> id, type |-> kind[1], scored |-> kind[2], tests |-> kind[3]]

MCGroups(types, kinds, maxChecks) ==
  [id : GroupIDs, type : types,
   checks : UpTo(maxChecks, {Check(id, kind) : id \in CheckIDs, kind \in kinds})]

\* Up to three groups that may share an ID, each with up to two checks that
\* pass or fail, for the new groups and their counts.
Regrouped == UpTo(3, MCGroups({"blank"}, {<<"blank", TRUE, "items">>}, 2))

\* Up to two groups with up to one check, which is of any kind that Allowed
\* tells apart, for the options.
Mixed ==
  UpTo(2, MCGroups({"blank", "skip"},
    {<<"blank", TRUE, "items">>, <<"blank", FALSE, "items">>,
     <<"blank", TRUE, "nil">>, <<"manual", FALSE, "items">>,
     <<"skip", TRUE, "items">>}, 1))

MCFiles == Regrouped \cup Mixed

AllOptions ==
  [groups : SUBSET GroupIDs, checks : SUBSET CheckIDs,
   scored : BOOLEAN, unscored : BOOLEAN]

\* No flag is given.
NoOptions == [groups |-> {}, checks |-> {}, scored |-> TRUE, unscored |-> TRUE]

AllSkips == SUBSET (GroupIDs \cup CheckIDs)

\* The larger files without options, the smaller ones with all of them.
MCInit ==
  /\ \/ file \in Regrouped /\ opts = NoOptions /\ skipIDs = {}
     \/ file \in Mixed /\ opts \in AllOptions /\ skipIDs \in AllSkips
  /\ Init

MCSpec == MCInit /\ [][Next]_vars
=============================================================================
