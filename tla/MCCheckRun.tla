----------------------------- MODULE MCCheckRun -----------------------------
(***************************************************************************)
(* Small sets of checks and outputs for CheckRun.                          *)
(***************************************************************************)
EXTENDS CheckRun

CONSTANTS
  CheckTypes,     \* the values of type
  TestsSections,  \* the values of tests
  BinOps,         \* those of bin_op for one item; two items get every one
  Multiples,      \* use_multiple_values for one item; two items go without
  MaxItems,       \* how many test items a check has at most
  MaxRows,        \* how many rows a command prints at most for one item
  Legible         \* what a row may say of an item

Command == "auditCommand"
Config  == "auditConfig"
Env     == "auditEnv"

AllNames == {Command, Config, Env}

Shape(set, compares, names) ==
  [set |-> set, compares |-> compares, names |-> names]

AllShapes == [set : BOOLEAN, compares : BOOLEAN, names : SUBSET AllNames]

\* A flag with a value, that path and env may give too; a flag that must not
\* be there; one that has to be there and may come from the environment.
PairShapes ==
  {Shape(TRUE, TRUE, AllNames), Shape(FALSE, FALSE, {Command, Config}),
   Shape(TRUE, FALSE, {Command, Env})}

AuditSets == {{Command}, {Command, Config}, AllNames, {Config, Env}}

Descriptions(items, binOps, multiples) ==
  [type : CheckTypes, tests : TestsSections, scored : BOOLEAN, binOp : binOps,
   items : items, multiple : multiples, audits : AuditSets]

MCChecks ==
  {c \in Descriptions({<<>>} \cup {<<a>> : a \in AllShapes}, BinOps, Multiples)
         \cup (IF MaxItems < 2 THEN {}
               ELSE Descriptions(PairShapes \X PairShapes, {"and", "or", "xor"},
                                 {FALSE})) :
     (c.tests = "items") <=> (c.items # <<>>)}

\* An environment variable is matched, or not: its reading is never an error.
MCOutputs(c, s) ==
  LET said == IF s = Env THEN Legible \ {"error"} ELSE Legible
      most == IF Len(c.items) > 1 THEN 1 ELSE MaxRows
  IN  UNION {[1..n -> [DOMAIN c.items -> said]] : n \in 0..most}
=============================================================================
