------------------------------ MODULE Compare ------------------------------
(***************************************************************************)
(* compareOp of check/test.go: how the text that an item finds compares    *)
(* with the text of the benchmark.  What CheckRun calls good is a text for *)
(* which it answers true.                                                  *)
(*                                                                         *)
(* A text is a sequence of symbols: digits, signs, the separator, the      *)
(* blank and others, which may be whole words.  Numbers fit into an int.   *)
(***************************************************************************)
EXTENDS Integers, Sequences, SequencesExt, FiniteSetsExt

CONSTANTS
  Symbols,      \* of which texts consist
  Comparisons   \* the op, the flag's text and the benchmark's

Operations ==
  {"eq", "noteq", "gt", "gte", "lt", "lte", "has", "nothave", "regex",
   "valid_elements", "bitmask", "other"}

\* Permissions, as stat prints them, have no sign.
ASSUME ComparisonsAssumption ==
  /\ Comparisons \subseteq
       [op : Operations, flag : Seq(Symbols), value : Seq(Symbols)]
  /\ \A x \in Comparisons :
       x.op = "bitmask" => {"+", "-"} \intersect
                             (ToSet(x.flag) \cup ToSet(x.value)) = {}

VARIABLES
  asked,   \* a comparison
  passed   \* testResult, once it is known

vars == <<asked, passed>>

Blank == " "
Separator == ","

-----------------------------------------------------------------------------
(* Conversions.                                                            *)

\* strings.TrimRight(s, separator).
TrimSeparators(s) ==
  LET solid == {k \in DOMAIN s : s[k] # Separator}
  IN  IF solid = {} THEN <<>> ELSE SubSeq(s, 1, Max(solid))

\* strings.TrimSpace.
TrimSpace(s) ==
  LET solid == {k \in DOMAIN s : s[k] # Blank}
  IN  IF solid = {} THEN <<>> ELSE SubSeq(s, Min(solid), Max(solid))

\* strings.Split(s, separator), without the order of the pieces.
Split(s) ==
  LET cuts == {0, Len(s) + 1} \cup {k \in DOMAIN s : s[k] = Separator}
  IN  {SubSeq(s, c[1] + 1, c[2] - 1) :
         c \in {d \in cuts \X cuts :
                  d[1] < d[2] /\ \A k \in d[1] + 1..d[2] - 1 : k \notin cuts}}

Digits == <<"0", "1", "2", "3", "4", "5", "6", "7", "8", "9">>
DigitOf(c) == (CHOOSE d \in DOMAIN Digits : Digits[d] = c) - 1
IsDigit(c, base) == \E d \in 1..base : Digits[d] = c

Signed(s) == s # <<>> /\ s[1] \in {"+", "-"}

\* What the first so many digits are worth.
Sizes(digits, base) ==
  LET size[k \in 0..Len(digits)] ==
        IF k = 0 THEN 0 ELSE size[k - 1] * base + DigitOf(digits[k])
  IN  size

\* strconv.ParseInt: the one number that the text is, or none.
Parse(s, base) ==
  LET digits == IF Signed(s) THEN Tail(s) ELSE s
      size   == Sizes(digits, base)[Len(digits)]
  IN  IF digits = <<>> \/ \E k \in DOMAIN digits : ~IsDigit(digits[k], base)
      THEN {}
      ELSE {IF s[1] = "-" THEN 0 - size ELSE size}

\* toNumeric of one text.
Numeric(s) == Parse(TrimSpace(s), 10)

Lower ==
  [s \in {<<"true">>, <<"True">>, <<"TRUE">>} |-> <<"true">>] @@
  [s \in {<<"false">>, <<"False">>, <<"FALSE">>} |-> <<"false">>]

\* Mutant of Elements: a separator at the end is followed by an element.
ElementsAll(s) ==
  LET clean == TrimSpace(s)
  IN  IF clean = <<>> THEN {} ELSE {TrimSpace(p) : p \in Split(clean)}

\* splitAndRemoveLastSeparator.
Elements(s) ==
  LET clean == TrimSeparators(TrimSpace(s))
  IN  IF clean = <<>> THEN {} ELSE {TrimSpace(p) : p \in Split(clean)}

-----------------------------------------------------------------------------
(* compareOp.                                                              *)

\* Of eq and noteq: a boolean that the component writes is taken in lower
\* case, the benchmark's as it is.
Equal(flag, value) ==
  IF flag \in DOMAIN Lower THEN Lower[flag] = value ELSE flag = value

Relation(op, a, b) ==
  CASE op = "gt"  -> a > b
    [] op = "gte" -> a >= b
    [] op = "lt"  -> a < b
    [] op = "lte" -> a <= b

\* Mutant of Ordered: the error of toNumeric is not looked at.
OrderedAnyway(op, flag, value) ==
  IF Numeric(flag) = {} \/ Numeric(value) = {} THEN Relation(op, -1, -1)
  ELSE \E a \in Numeric(flag), b \in Numeric(value) : Relation(op, a, b)

Ordered(op, flag, value) ==
  \E a \in Numeric(flag), b \in Numeric(value) : Relation(op, a, b)

\* allElementsValid, of the elements of either list.
AllElementsValid(s, t) == (s = {} <=> t = {}) /\ s \subseteq t

\* The bits of a number, by their places from the right.
Bits[n \in Nat] ==
  IF n = 0 THEN {}
  ELSE {k + 1 : k \in Bits[n \div 2]} \cup (IF n % 2 = 1 THEN {0} ELSE {})

\* Mutant of Masked: permissions are read as decimal numbers.
MaskedDecimal(flag, value) ==
  \E requested \in Parse(flag, 10), max \in Parse(value, 10) :
    Bits[max] \cap Bits[requested] = Bits[requested]

\* Of bitmask.
Masked(flag, value) ==
  \E requested \in Parse(flag, 8), max \in Parse(value, 8) :
    Bits[max] \cap Bits[requested] = Bits[requested]

Has(flag, value) == value \in SubSeqs(flag)

\* What may come of it.  Whether a regular expression matches is up to the
\* library (one that is malformed is a panic: it is not in the benchmarks).
CompareOp(op, flag, value) ==
  CASE op = "eq"             -> {Equal(flag, value)}
    [] op = "noteq"          -> {~Equal(flag, value)}
    [] op \in {"gt", "gte", "lt", "lte"} -> {Ordered(op, flag, value)}
    [] op = "has"            -> {Has(flag, value)}
    [] op = "nothave"        -> {~Has(flag, value)}
    [] op = "regex"          -> BOOLEAN
    [] op = "valid_elements" -> {AllElementsValid(Elements(flag), Elements(value))}
    [] op = "bitmask"        -> {Masked(flag, value)}
    [] OTHER                 -> {FALSE}

Unknown == "unknown"

Init ==
  /\ asked \in Comparisons
  /\ passed = Unknown

Evaluate ==
  /\ passed = Unknown
  /\ \E holds \in CompareOp(asked.op, asked.flag, asked.value) :
       passed' = IF holds THEN "pass" ELSE "fail"
  /\ UNCHANGED asked

Answered == passed # Unknown /\ UNCHANGED vars

Next == Evaluate \/ Answered

Spec == Init /\ [][Next]_vars
-----------------------------------------------------------------------------
Passes == passed = "pass"
Known == passed # Unknown

\* Read, write and execute of an octal digit, and who has which: classes are
\* counted from the right, for leading zeros say nothing.
Rights == [c \in {"0", "1", "2", "3", "4", "5", "6", "7"} |->
  (IF c \in {"4", "5", "6", "7"} THEN {"r"} ELSE {}) \cup
  (IF c \in {"2", "3", "6", "7"} THEN {"w"} ELSE {}) \cup
  (IF c \in {"1", "3", "5", "7"} THEN {"x"} ELSE {})]

Mode(s) == s # <<>> /\ ToSet(s) \subseteq DOMAIN Rights
Granted(s) ==
  UNION {{<<Len(s) - k, r>> : r \in Rights[s[k]]} : k \in DOMAIN s}

\* bitmask says that a file is as restrictive as expected or more: no class
\* is granted what the benchmark does not grant it, however many digits the
\* two are written with.  A text that is no octal number fails.
MoreRestrictive ==
  asked.op = "bitmask" /\ Known =>
    (Passes <=> /\ Mode(asked.flag) /\ Mode(asked.value)
                /\ Granted(asked.flag) \subseteq Granted(asked.value))

Opposite(op) ==
  CASE op = "eq"  -> "noteq"   [] op = "noteq"   -> "eq"
    [] op = "has" -> "nothave" [] op = "nothave" -> "has"
    [] op = "gt"  -> "lte"     [] op = "lte"     -> "gt"
    [] op = "gte" -> "lt"      [] op = "lt"      -> "gte"

InDecimal(s) ==
  LET t == TrimSpace(s)
  IN  /\ \E k \in DOMAIN t : IsDigit(t[k], 10)
      /\ \A k \in DOMAIN t : IsDigit(t[k], 10) \/ (k = 1 /\ Signed(t))

\* Of two opposite comparisons of the same texts exactly one passes; but if
\* one of the texts is no number, every order fails, so that a flag with an
\* unexpected text never passes because the other order fails.
Complementary ==
  asked.op \in {"eq", "noteq", "has", "nothave", "gt", "gte", "lt", "lte"}
    /\ Known =>
  LET other == CompareOp(Opposite(asked.op), asked.flag, asked.value) IN
  IF asked.op \in {"gt", "gte", "lt", "lte"}
     /\ ~(InDecimal(asked.flag) /\ InDecimal(asked.value))
  THEN ~Passes /\ other = {FALSE}
  ELSE other = {~Passes}

\* The words of a list: what is between its separators, without the blanks
\* around it.
Words(s) ==
  {SubSeq(s, w[1], w[2]) :
     w \in {v \in (DOMAIN s) \X (DOMAIN s) :
              /\ v[1] <= v[2]
              /\ \A k \in v[1]..v[2] : s[k] # Separator
              /\ Blank \notin {s[v[1]], s[v[2]]}
              /\ \E k \in 0..v[1] - 1 :
                   /\ k = 0 \/ s[k] = Separator
                   /\ \A j \in k + 1..v[1] - 1 : s[j] = Blank
              /\ \E k \in v[2] + 1..Len(s) + 1 :
                   /\ k = Len(s) + 1 \/ s[k] = Separator
                   /\ \A j \in v[2] + 1..k - 1 : s[j] = Blank}}

\* A list in which every separator comes after a word, or directly after
\* another one in a row that ends the list.
Tidy(s) ==
  \A k \in DOMAIN s : s[k] = Separator =>
    \/ \E j \in 1..k - 1 :
         /\ s[j] \notin {Separator, Blank}
         /\ \A i \in j + 1..k - 1 : s[i] = Blank
    \/ /\ k > 1 => s[k - 1] = Separator
       /\ \E e \in k..Len(s) :
            /\ \A j \in k..e : s[j] = Separator
            /\ \A j \in e + 1..Len(s) : s[j] = Blank

\* valid_elements takes both texts as sets of words: neither their order nor
\* how often they occur, the blanks around them or separators at the end
\* count, and an empty list is valid for an empty one only.
ValidElementsAreIncluded ==
  asked.op = "valid_elements" /\ Known
    /\ Tidy(asked.flag) /\ Tidy(asked.value) =>
  (Passes <=> /\ Words(asked.flag) \subseteq Words(asked.value)
              /\ Words(asked.flag) = {} <=> Words(asked.value) = {})
=============================================================================
