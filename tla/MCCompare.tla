----------------------------- MODULE MCCompare -----------------------------
(***************************************************************************)
(* Instances of Compare for TLC: every pair of short texts of the symbols  *)
(* that tell something to each operation.                                  *)
(***************************************************************************)
EXTENDS Compare

Every(ops, flags, values) == [op : ops, flag : flags, value : values]

\* All texts of so many symbols at most.
Texts(symbols, n) == UNION {[1..k -> symbols] : k \in 0..n}

\* Modes: 8 is no octal digit; four digits set user and group IDs.
Modes ==
  Texts({"0", "2", "6", "7", "8"}, 3)
    \cup {<<"0", "6", "0", "0">>, <<"0", "6", "4", "4">>, <<"4", "6", "4", "4">>,
          <<"1", "6", "0", "0">>}

Numbers == Texts({"0", "1", "5", "-", " ", "a"}, 2) \cup {<<" ", "1", "0">>}

Booleans == {<<w>> : w \in {"true", "True", "TRUE", "false", "False", "a"}}

Lists == Texts({"a", "b", ",", " "}, 3) \cup Texts({"a", ",", " "}, 4)

MCComparisons ==
  Every({"bitmask"}, Modes, Modes)
    \cup Every({"gt", "gte", "lt", "lte"}, Numbers, Numbers)
    \cup Every({"eq", "noteq"}, Booleans, Booleans)
    \cup Every({"has", "nothave"}, Texts({"a", "b"}, 3), Texts({"a", "b"}, 2))
    \cup Every({"valid_elements"}, Lists, Lists)
    \cup Every({"regex", "other"}, Booleans, Booleans)

MCSymbols ==
  {"0", "1", "2", "4", "5", "6", "7", "8", "-", " ", ",", "a", "b", "true",
   "True", "TRUE", "false", "False"}
=============================================================================
