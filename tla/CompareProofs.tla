--------------------------- MODULE CompareProofs ---------------------------
(***************************************************************************)
(* Proofs about Compare, for all comparisons of texts of any length.  They *)
(* have three parts: a text is one number or none (OppositesCorrect), the  *)
(* elements of a tidy list are its words (ListsCorrect), and the bits of a *)
(* mode are the rights of its digits (ModesCorrect).  What a recursive     *)
(* function is worth is shown by the least number for which it would not   *)
(* be so.                                                                  *)
(***************************************************************************)
EXTENDS Compare, SequenceTheorems, ProofLemmas

-----------------------------------------------------------------------------
(* What is known of a comparison once there is an answer.                  *)

LEMMA AnswersBoolean ==
  ASSUME NEW op, NEW flag, NEW value
  PROVE  CompareOp(op, flag, value) \subseteq BOOLEAN
<1>1. Equal(flag, value) \in BOOLEAN
  BY DEF Equal
<1>2. Ordered(op, flag, value) \in BOOLEAN
  BY DEF Ordered
<1>3. Has(flag, value) \in BOOLEAN
  BY DEF Has
<1>4. AllElementsValid(Elements(flag), Elements(value)) \in BOOLEAN
  BY DEF AllElementsValid
<1>5. Masked(flag, value) \in BOOLEAN
  BY DEF Masked
<1> QED BY <1>1, <1>2, <1>3, <1>4, <1>5 DEF CompareOp

Inv ==
  /\ asked \in Comparisons
  /\ Passes => TRUE \in CompareOp(asked.op, asked.flag, asked.value)
  /\ Known /\ ~Passes => FALSE \in CompareOp(asked.op, asked.flag, asked.value)

LEMMA InvHolds == Spec => []Inv
<1>1. Init => Inv
  BY DEF Init, Inv, Passes, Known, Unknown
<1>2. Inv /\ [Next]_vars => Inv'
  <2> SUFFICES ASSUME Inv, [Next]_vars PROVE Inv'
    OBVIOUS
  <2>1. CASE Evaluate
    <3>1. PICK holds \in CompareOp(asked.op, asked.flag, asked.value) :
            passed' = IF holds THEN "pass" ELSE "fail"
      BY <2>1 DEF Evaluate
    <3>2. asked' = asked
      BY <2>1 DEF Evaluate
    <3>3. holds \in BOOLEAN
      BY AnswersBoolean
    <3>4. CASE holds = TRUE
      BY <3>1, <3>2, <3>4 DEF Inv, Passes, Known, Unknown
    <3>5. CASE holds = FALSE
      BY <3>1, <3>2, <3>5 DEF Inv, Passes, Known, Unknown
    <3> QED BY <3>3, <3>4, <3>5
  <2>2. CASE UNCHANGED vars
    BY <2>2 DEF vars, Inv, Passes, Known
  <2> QED BY <2>1, <2>2 DEF Next, Answered
<1> QED BY <1>1, <1>2, PTL DEF Spec

-----------------------------------------------------------------------------
(* Numbers.                                                                *)

\* What a digit is worth.
LEMMA DigitTypes ==
  ASSUME NEW base \in 0..10, NEW c, IsDigit(c, base)
  PROVE  DigitOf(c) \in 0..base - 1
<1>1. DOMAIN Digits = 1..10
  BY DEF Digits
<1>2. PICK d \in 1..base : Digits[d] = c
  BY DEF IsDigit
<1>3. \A i, j \in 1..10 : Digits[i] = Digits[j] => i = j
  BY DEF Digits
<1>4. (CHOOSE e \in DOMAIN Digits : Digits[e] = c) = d
  BY <1>1, <1>2, <1>3
<1>5. DigitOf(c) = d - 1
  BY <1>4 DEF DigitOf
<1> QED BY <1>2, <1>5

\* The first digits are worth what their definition says.
LEMMA SizesDefined ==
  ASSUME NEW S, NEW digits \in Seq(S), NEW base \in Nat
  PROVE  Sizes(digits, base) =
           [k \in 0..Len(digits) |->
              IF k = 0 THEN 0
              ELSE Sizes(digits, base)[k - 1] * base + DigitOf(digits[k])]
<1> DEFINE more(x, k) == x * base + DigitOf(digits[k])
           G(f, n) == f = [k \in 0..n |-> IF k = 0 THEN 0 ELSE more(f[k - 1], k)]
           Bad == {n \in 0..Len(digits) : ~\E f : G(f, n)}
<1>1. Len(digits) \in Nat
  OBVIOUS
<1>2. Sizes(digits, base) = CHOOSE f : G(f, Len(digits))
  BY DEF Sizes
<1>6. Bad \subseteq Nat /\ \A n \in 0..Len(digits) : n \in Bad <=> ~\E f : G(f, n)
  BY <1>1
<1> HIDE DEF more, Bad
<1>3. Bad = {}
  <2> SUFFICES ASSUME Bad # {} PROVE FALSE
    OBVIOUS
  <2>1. PICK n \in Bad : \A m \in Bad : n <= m
    BY <1>6, LeastExists
  <2>2. n \in 0..Len(digits) /\ ~\E f : G(f, n)
    BY DEF Bad
  <2>3. n # 0
    <3>1. G([k \in 0..0 |-> 0], 0)
      OBVIOUS
    <3> QED BY <3>1, <2>2
  <2>4. n - 1 \in 0..Len(digits) /\ n - 1 \notin Bad
    <3> HIDE DEF G
    <3> QED BY <1>1, <2>1, <2>2, <2>3
  <2>5. PICK g : G(g, n - 1)
    BY <2>4, <1>6
  <2> DEFINE f == [k \in 0..n |-> IF k < n THEN g[k] ELSE more(g[n - 1], n)]
  <2>6. ASSUME NEW k \in 0..n
        PROVE  f[k] = IF k = 0 THEN 0 ELSE more(f[k - 1], k)
    <3>1. CASE k < n
      <4>1. k \in 0..n - 1 /\ f[k] = g[k]
        BY <3>1, <2>2, <1>1
      <4>2. k # 0 => k - 1 \in 0..n - 1 /\ f[k - 1] = g[k - 1]
        BY <4>1, <2>2, <1>1
      <4> HIDE DEF f
      <4> QED BY <2>5, <4>1, <4>2
    <3>2. CASE k = n
      BY <3>2, <2>2, <2>3, <1>1
    <3> QED BY <3>1, <3>2, <2>2, <1>1
  <2>7. f = [k \in 0..n |-> f[k]]
    OBVIOUS
  <2> HIDE DEF f
  <2>8. G(f, n)
    BY <2>6, <2>7
  <2> QED BY <2>2, <2>8
<1>4. \E f : G(f, Len(digits))
  BY <1>1, <1>3, <1>6
<1>5. G(Sizes(digits, base), Len(digits))
  BY <1>2, <1>4
<1> QED BY <1>5 DEF more

\* Their value is a number.
LEMMA SizesTyped ==
  ASSUME NEW S, NEW digits \in Seq(S), NEW base \in 0..10,
         \A k \in DOMAIN digits : IsDigit(digits[k], base)
  PROVE  \A k \in 0..Len(digits) : Sizes(digits, base)[k] \in Nat
<1> DEFINE f == Sizes(digits, base)
           Bad == {k \in 0..Len(digits) : f[k] \notin Nat}
<1>1. ASSUME NEW k \in 0..Len(digits)
      PROVE  f[k] = IF k = 0 THEN 0 ELSE f[k - 1] * base + DigitOf(digits[k])
  BY SizesDefined
<1>2. ASSUME NEW k \in DOMAIN digits PROVE DigitOf(digits[k]) \in Nat
  BY DigitTypes
<1> HIDE DEF f
<1>3. \A x \in Nat : x * base \in Nat
  OBVIOUS
<1>4. Bad = {}
  <2> SUFFICES ASSUME Bad # {} PROVE FALSE
    OBVIOUS
  <2>0. Bad \subseteq Nat
    OBVIOUS
  <2>1. PICK n \in Bad : \A m \in Bad : n <= m
    <3> HIDE DEF Bad
    <3> QED BY <2>0, LeastExists
  <2>2. n # 0 /\ n - 1 \in 0..Len(digits) /\ n \in DOMAIN digits
    BY <1>1
  <2>3. f[n - 1] \in Nat
    BY <2>1, <2>2
  <2>4. f[n] = f[n - 1] * base + DigitOf(digits[n])
    BY <1>1, <2>2
  <2>5. f[n - 1] * base \in Nat /\ DigitOf(digits[n]) \in Nat
    BY <1>2, <1>3, <2>2, <2>3
  <2>6. f[n] \in Nat
    BY <2>4, <2>5
  <2> QED BY <2>6
<1> QED BY <1>4 DEF f

\* The greatest of some numbers up to n.
LEMMA GreatestExists ==
  ASSUME NEW n \in Nat, NEW T, T \subseteq 1..n, T # {}
  PROVE  /\ Max(T) \in T /\ \A y \in T : y <= Max(T)
         /\ Min(T) \in T /\ \A y \in T : Min(T) <= y
<1> DEFINE U == {n - x : x \in T}
<1>1. U \subseteq Nat /\ U # {}
  <2>1. ASSUME NEW x \in T PROVE n - x \in Nat
    <3>1. x \in 1..n
      OBVIOUS
    <3> QED BY <3>1
  <2> QED BY <2>1
<1>2. PICK u \in U : \A y \in U : u <= y
  BY <1>1, LeastExists
<1>3. PICK x \in T : u = n - x
  OBVIOUS
<1>4. ASSUME NEW y \in T PROVE x >= y
  <2>1. n - y \in U /\ x \in Nat /\ y \in Nat
    OBVIOUS
  <2> QED BY <1>2, <1>3, <2>1
<1>5. \E m \in T : \A y \in T : m >= y
  BY <1>4
<1>6. T \subseteq Nat
  OBVIOUS
<1>7. \E m \in T : \A y \in T : m <= y
  BY <1>6, LeastExists
<1> HIDE DEF U
<1>8. Max(T) \in T /\ \A y \in T : Max(T) >= y
  BY <1>5 DEF Max
<1>9. Min(T) \in T /\ \A y \in T : Min(T) <= y
  BY <1>7 DEF Min
<1> QED BY <1>6, <1>8, <1>9

\* A text without the blanks around it.
LEMMA TrimSpaceIs ==
  ASSUME NEW S, NEW s \in Seq(S)
  PROVE  /\ TrimSpace(s) \in Seq(S)
         /\ (\A k \in DOMAIN s : s[k] = Blank) => TrimSpace(s) = <<>>
         /\ \/ \A k \in DOMAIN s : s[k] = Blank
            \/ \E a, b \in DOMAIN s :
                 /\ a <= b /\ s[a] # Blank /\ s[b] # Blank
                 /\ \A k \in DOMAIN s : k < a \/ k > b => s[k] = Blank
                 /\ TrimSpace(s) = SubSeq(s, a, b)
<1> DEFINE solid == {k \in DOMAIN s : s[k] # Blank}
<1>1. TrimSpace(s) =
        IF solid = {} THEN <<>> ELSE SubSeq(s, Min(solid), Max(solid))
  BY DEF TrimSpace
<1>2. CASE solid = {}
  BY <1>1, <1>2
<1>3. CASE solid # {}
  <2>1. solid \subseteq 1..Len(s) /\ Len(s) \in Nat
    OBVIOUS
  <2>2. PICK a, b \in solid :
          /\ a = Min(solid) /\ b = Max(solid)
          /\ \A y \in solid : a <= y /\ y <= b
    BY <1>3, <2>1, GreatestExists
  <2>3. a \in DOMAIN s /\ b \in DOMAIN s /\ s[a] # Blank /\ s[b] # Blank
    OBVIOUS
  <2>4. a <= b
    BY <2>2
  <2>5. ASSUME NEW k \in DOMAIN s, k < a \/ k > b PROVE s[k] = Blank
    <3>1. k \in solid => a <= k /\ k <= b
      BY <2>2
    <3> QED BY <2>5, <3>1
  <2>6. TrimSpace(s) = SubSeq(s, a, b)
    BY <1>1, <1>3, <2>2
  <2>7. SubSeq(s, a, b) \in Seq(S)
    BY <2>3, SubSeqProperties
  <2> QED BY <2>3, <2>4, <2>5, <2>6, <2>7
<1> QED BY <1>2, <1>3

\* A text in decimal is one number, and any other is none.
LEMMA NumericIs ==
  ASSUME NEW S, NEW s \in Seq(S)
  PROVE  /\ InDecimal(s) => \E n \in Int : Numeric(s) = {n}
         /\ ~InDecimal(s) => Numeric(s) = {}
<1> DEFINE t      == TrimSpace(s)
           digits == IF Signed(t) THEN Tail(t) ELSE t
           size   == Sizes(digits, 10)[Len(digits)]
<1>1. t \in Seq(S)
  BY TrimSpaceIs
<1>2. Numeric(s) =
        IF digits = <<>> \/ \E k \in DOMAIN digits : ~IsDigit(digits[k], 10)
        THEN {} ELSE {IF t[1] = "-" THEN 0 - size ELSE size}
  BY DEF Numeric, Parse
<1>3. InDecimal(s) <=>
        /\ \E k \in DOMAIN t : IsDigit(t[k], 10)
        /\ \A k \in DOMAIN t : IsDigit(t[k], 10) \/ (k = 1 /\ Signed(t))
  BY DEF InDecimal
<1> HIDE DEF t
<1>4. digits \in Seq(S)
  BY <1>1, HeadTailProperties DEF Signed
<1>5. InDecimal(s) <=>
        digits # <<>> /\ \A k \in DOMAIN digits : IsDigit(digits[k], 10)
  <2>1. CASE Signed(t)
    <3>1. t # <<>> /\ t[1] \in {"+", "-"} /\ digits = Tail(t)
      BY <2>1 DEF Signed
    <3>2. Len(digits) = Len(t) - 1 /\ Len(t) \in Nat \ {0}
          /\ \A k \in 1..Len(t) - 1 : digits[k] = t[k + 1]
      BY <1>1, <3>1
    <3>3. ~IsDigit(t[1], 10)
      BY <3>1 DEF IsDigit, Digits
    <3>4. DOMAIN digits = 1..Len(t) - 1 /\ DOMAIN t = 1..Len(t)
      BY <1>1, <1>4, <3>2
    <3> HIDE DEF digits
    <3>5. digits # <<>> <=> Len(t) > 1
      BY <1>4, <3>2
    <3>6. ASSUME InDecimal(s)
          PROVE  digits # <<>> /\ \A k \in DOMAIN digits : IsDigit(digits[k], 10)
      BY <1>3, <3>2, <3>3, <3>4, <3>5, <3>6, SMTT(30)
    <3>7. ASSUME digits # <<>>, \A k \in DOMAIN digits : IsDigit(digits[k], 10)
          PROVE  InDecimal(s)
      <4>1. IsDigit(t[2], 10) /\ 2 \in DOMAIN t
        BY <3>2, <3>4, <3>5, <3>7
      <4>2. ASSUME NEW k \in DOMAIN t, k # 1 PROVE IsDigit(t[k], 10)
        <5>1. k - 1 \in DOMAIN digits /\ digits[k - 1] = t[k]
          BY <3>2, <3>4, <4>2
        <5> QED BY <3>7, <5>1
      <4> QED BY <1>3, <2>1, <4>1, <4>2
    <3> QED BY <3>6, <3>7
  <2>2. CASE ~Signed(t)
    BY <1>1, <1>3, <2>2
  <2> QED BY <2>1, <2>2
<1>6. ASSUME \A k \in DOMAIN digits : IsDigit(digits[k], 10)
      PROVE  size \in Nat
  <2> HIDE DEF digits
  <2>1. Len(digits) \in 0..Len(digits)
    BY <1>4
  <2> QED BY <1>4, <1>6, <2>1, SizesTyped
<1> HIDE DEF digits, size
<1> QED BY <1>2, <1>5, <1>6

\* Of two opposite comparisons exactly one passes, and no order with a text
\* that is no number does, for texts of any length.
THEOREM OppositesCorrect == Spec => []Complementary
<1>1. Inv => Complementary
  <2> SUFFICES ASSUME Inv, Known,
                      asked.op \in {"eq", "noteq", "has", "nothave",
                                    "gt", "gte", "lt", "lte"}
               PROVE  LET other == CompareOp(Opposite(asked.op), asked.flag, asked.value)
                      IN  IF asked.op \in {"gt", "gte", "lt", "lte"}
                             /\ ~(InDecimal(asked.flag) /\ InDecimal(asked.value))
                          THEN ~Passes /\ other = {FALSE}
                          ELSE other = {~Passes}
    BY DEF Complementary
  <2> DEFINE op == asked.op  flag == asked.flag  value == asked.value
             orders == {"gt", "gte", "lt", "lte"}
  <2>1. flag \in Seq(Symbols) /\ value \in Seq(Symbols)
    BY ComparisonsAssumption DEF Inv
  <2>2. /\ Passes => TRUE \in CompareOp(op, flag, value)
        /\ ~Passes => FALSE \in CompareOp(op, flag, value)
    BY DEF Inv
  <2>3. Passes \in BOOLEAN
    BY DEF Passes
  <2> HIDE DEF op, flag, value
  <2>4. CASE op \in orders
    <3>1. \A p \in orders : CompareOp(p, flag, value) = {Ordered(p, flag, value)}
      BY DEF CompareOp
    <3>2. Opposite(op) \in orders
      BY <2>4 DEF Opposite
    <3>3. ASSUME ~(InDecimal(flag) /\ InDecimal(value)), NEW p \in orders
          PROVE  Ordered(p, flag, value) = FALSE
      BY <2>1, <3>3, NumericIs DEF Ordered
    <3>4. ASSUME InDecimal(flag), InDecimal(value)
          PROVE  Ordered(Opposite(op), flag, value) = ~Ordered(op, flag, value)
      <4>1. PICK a, b \in Int : Numeric(flag) = {a} /\ Numeric(value) = {b}
        BY <2>1, <3>4, NumericIs
      <4>2. \A p \in orders : Ordered(p, flag, value) <=> Relation(p, a, b)
        BY <4>1 DEF Ordered
      <4>3. Relation(Opposite(op), a, b) <=> ~Relation(op, a, b)
        <5>1. op = "gt" \/ op = "gte" \/ op = "lt" \/ op = "lte"
          BY <2>4
        <5>2. CASE op = "gt"
          BY <5>2 DEF Opposite, Relation
        <5>3. CASE op = "gte"
          BY <5>3 DEF Opposite, Relation
        <5>4. CASE op = "lt"
          BY <5>4 DEF Opposite, Relation
        <5>5. CASE op = "lte"
          BY <5>5 DEF Opposite, Relation
        <5> QED BY <5>1, <5>2, <5>3, <5>4, <5>5
      <4>4. \A p \in orders : Ordered(p, flag, value) \in BOOLEAN
        BY DEF Ordered
      <4> QED BY <2>4, <3>2, <4>2, <4>3, <4>4
    <3>5. Ordered(op, flag, value) \in BOOLEAN
      BY DEF Ordered
    <3> QED BY <2>2, <2>3, <2>4, <3>1, <3>2, <3>3, <3>4, <3>5 DEF op, flag, value
  <2>5. CASE op \in {"eq", "noteq"}
    <3>1. /\ CompareOp("eq", flag, value) = {Equal(flag, value)}
          /\ CompareOp("noteq", flag, value) = {~Equal(flag, value)}
      BY DEF CompareOp
    <3>2. Equal(flag, value) \in BOOLEAN
      BY DEF Equal
    <3> QED BY <2>2, <2>3, <2>5, <3>1, <3>2 DEF op, flag, value, Opposite
  <2>6. CASE op \in {"has", "nothave"}
    <3>1. /\ CompareOp("has", flag, value) = {Has(flag, value)}
          /\ CompareOp("nothave", flag, value) = {~Has(flag, value)}
      BY DEF CompareOp
    <3>2. Has(flag, value) \in BOOLEAN
      BY DEF Has
    <3> QED BY <2>2, <2>3, <2>6, <3>1, <3>2 DEF op, flag, value, Opposite
  <2> QED BY <2>4, <2>5, <2>6 DEF op, flag, value
<1> QED BY <1>1, InvHolds, PTL

-----------------------------------------------------------------------------
(* Lists.  What the conversions make of a list are stretches of it: from    *)
(* position a to e when it is clean, and between two cuts i and j of that.  *)

\* A stretch that is not blank, without the blanks around it.
LEMMA TrimPiece ==
  ASSUME NEW S, NEW s \in Seq(S),
         NEW p \in Nat, NEW q \in Nat, 1 <= p, q <= Len(s),
         \E j \in p..q : s[j] # Blank
  PROVE  \E v, w \in p..q :
           /\ v <= w /\ s[v] # Blank /\ s[w] # Blank
           /\ \A k \in p..q : k < v \/ k > w => s[k] = Blank
           /\ TrimSpace(SubSeq(s, p, q)) = SubSeq(s, v, w)
<1> DEFINE t == SubSeq(s, p, q)
<1>1. p <= q /\ Len(s) \in Nat
  OBVIOUS
<1>2. /\ t \in Seq(S) /\ Len(t) = q - p + 1
      /\ \A i \in 1..q - p + 1 : t[i] = s[p + i - 1]
  BY <1>1, SubSeqProperties
<1> HIDE DEF t
<1>3. DOMAIN t = 1..q - p + 1
  BY <1>2
<1>4. PICK j \in p..q : s[j] # Blank
  OBVIOUS
<1>5. j - p + 1 \in DOMAIN t /\ t[j - p + 1] # Blank
  <2>1. j - p + 1 \in 1..q - p + 1 /\ p + (j - p + 1) - 1 = j
    BY <1>1
  <2> QED BY <1>2, <1>3, <1>4, <2>1
<1>6. PICK a \in 1..q - p + 1, b \in 1..q - p + 1 :
        /\ a <= b /\ t[a] # Blank /\ t[b] # Blank
        /\ \A k \in DOMAIN t : k < a \/ k > b => t[k] = Blank
        /\ TrimSpace(t) = SubSeq(t, a, b)
  BY <1>2, <1>3, <1>5, TrimSpaceIs, ZenonT(40)
<1> DEFINE v == p + a - 1
           w == p + b - 1
<1>7. v \in p..q /\ w \in p..q /\ v <= w /\ s[v] = t[a] /\ s[w] = t[b]
  BY <1>1, <1>2, <1>6
<1>8. ASSUME NEW k \in p..q, k < v \/ k > w PROVE s[k] = Blank
  <2>1. k - p + 1 \in 1..q - p + 1 /\ p + (k - p + 1) - 1 = k
    BY <1>1
  <2>2. k - p + 1 < a \/ k - p + 1 > b
    BY <1>1, <1>3, <1>8
  <2>3. t[k - p + 1] = Blank
    BY <1>3, <1>6, <2>1, <2>2
  <2> QED BY <1>2, <2>1, <2>3
<1>9. SubSeq(t, a, b) = SubSeq(s, v, w)
  <2>1. p \in 1..Len(s) /\ q \in 1..Len(s)
    BY <1>1
  <2> QED BY <2>1, SubSeqOfSubSeq DEF t
<1> HIDE DEF v, w
<1> QED BY <1>6, <1>7, <1>8, <1>9 DEF t

\* Two cuts of the stretch from a to e with none between them.
Cut(s, a, e, i, j) ==
  /\ i < j
  /\ i = a - 1 \/ s[i] = Separator
  /\ j = e + 1 \/ s[j] = Separator
  /\ \A k \in i + 1..j - 1 : s[k] # Separator

LEMMA SplitIs ==
  ASSUME NEW S, NEW s \in Seq(S),
         NEW a \in Nat, NEW e \in Nat, 1 <= a, a <= e, e <= Len(s)
  PROVE  /\ \A p \in Split(SubSeq(s, a, e)) :
              \E i \in a - 1..e, j \in a..e + 1 :
                Cut(s, a, e, i, j) /\ p = SubSeq(s, i + 1, j - 1)
         /\ \A i \in a - 1..e, j \in a..e + 1 :
              Cut(s, a, e, i, j) =>
                SubSeq(s, i + 1, j - 1) \in Split(SubSeq(s, a, e))
<1> DEFINE t == SubSeq(s, a, e)
           n == e - a + 1
           cuts == {0, Len(t) + 1} \cup {k \in DOMAIN t : t[k] = Separator}
<1>1. Len(s) \in Nat /\ n \in Nat /\ n >= 1
  OBVIOUS
<1>2. t \in Seq(S) /\ Len(t) = n /\ \A i \in 1..n : t[i] = s[a + i - 1]
  BY <1>1, SubSeqProperties
<1>3. Split(t) =
        {SubSeq(t, c[1] + 1, c[2] - 1) :
           c \in {d \in cuts \X cuts :
                   d[1] < d[2] /\ \A k \in d[1] + 1..d[2] - 1 : k \notin cuts}}
  BY DEF Split
<1> HIDE DEF t
<1>4. DOMAIN t = 1..n
  BY <1>1, <1>2
<1>5. /\ cuts \subseteq 0..n + 1 /\ 0 \in cuts /\ n + 1 \in cuts
      /\ \A k \in 1..n : k \in cuts <=> s[a + k - 1] = Separator
  BY <1>1, <1>2, <1>4
<1> HIDE DEF cuts
<1>6. ASSUME NEW x \in 0..n, NEW y \in 1..n + 1
      PROVE  SubSeq(t, x + 1, y - 1) = SubSeq(s, a + x, a + y - 2)
  <2>1. CASE y - 1 < x + 1
    <3>1. a + y - 2 < a + x
      BY <1>1, <2>1
    <3>2. x + 1 \in Int /\ y - 1 \in Int /\ a + y - 2 \in Int /\ a + x \in Int
      BY <1>1
    <3> QED BY <2>1, <3>1, <3>2, SubSeqEmpty
  <2>2. CASE ~(y - 1 < x + 1)
    <3>1. x + 1 \in 1..e - a + 1 /\ y - 1 \in 1..e - a + 1
      BY <1>1, <2>2
    <3>4. a \in 1..Len(s) /\ e \in 1..Len(s)
      BY <1>1
    <3>2. SubSeq(t, x + 1, y - 1) = SubSeq(s, a + (x + 1) - 1, a + (y - 1) - 1)
      BY <3>1, <3>4, SubSeqOfSubSeq DEF t
    <3>3. a + (x + 1) - 1 = a + x /\ a + (y - 1) - 1 = a + y - 2
      BY <1>1
    <3> QED BY <3>2, <3>3
  <2> QED BY <2>1, <2>2
<1>7. ASSUME NEW p \in Split(t)
      PROVE  \E i \in a - 1..e, j \in a..e + 1 :
               Cut(s, a, e, i, j) /\ p = SubSeq(s, i + 1, j - 1)
  <2>0. \E x \in cuts, y \in cuts :
          /\ x < y /\ \A k \in x + 1..y - 1 : k \notin cuts
          /\ p = SubSeq(t, x + 1, y - 1)
    BY <1>3
  <2>1. PICK x \in 0..n + 1, y \in 0..n + 1 :
          /\ x \in cuts /\ y \in cuts
          /\ x < y /\ \A k \in x + 1..y - 1 : k \notin cuts
          /\ p = SubSeq(t, x + 1, y - 1)
    BY <1>5, <2>0
  <2>2. x \in 0..n /\ y \in 1..n + 1
    BY <1>1, <2>1
  <2> DEFINE i == a + x - 1
             j == a + y - 1
  <2>3. i \in a - 1..e /\ j \in a..e + 1 /\ i < j
    BY <1>1, <2>1, <2>2
  <2>4. i = a - 1 \/ s[i] = Separator
    BY <1>1, <1>5, <2>1, <2>2
  <2>5. j = e + 1 \/ s[j] = Separator
    BY <1>1, <1>5, <2>1, <2>2
  <2>6. ASSUME NEW k \in i + 1..j - 1 PROVE s[k] # Separator
    <3>1. k - a + 1 \in x + 1..y - 1 /\ k - a + 1 \in 1..n /\ a + (k - a + 1) - 1 = k
      BY <1>1, <2>2
    <3> QED BY <1>5, <2>1, <3>1
  <2>7. p = SubSeq(s, i + 1, j - 1)
    <3>1. i + 1 = a + x /\ j - 1 = a + y - 2
      BY <1>1, <2>2
    <3> QED BY <1>6, <2>1, <2>2, <3>1
  <2> HIDE DEF i, j
  <2> QED BY <2>3, <2>4, <2>5, <2>6, <2>7 DEF Cut
<1>8. ASSUME NEW i \in a - 1..e, NEW j \in a..e + 1, Cut(s, a, e, i, j)
      PROVE  SubSeq(s, i + 1, j - 1) \in Split(t)
  <2>0. i - a + 1 \in 0..n /\ j - a + 1 \in 1..n + 1
    BY <1>1
  <2>1. PICK x \in 0..n, y \in 1..n + 1 : x < y /\ i = a + x - 1 /\ j = a + y - 1
    BY <1>1, <1>8, <2>0 DEF Cut
  <2>2. x \in cuts
    BY <1>1, <1>5, <1>8, <2>1 DEF Cut
  <2>3. y \in cuts
    BY <1>1, <1>5, <1>8, <2>1 DEF Cut
  <2>4. ASSUME NEW k \in x + 1..y - 1 PROVE k \notin cuts
    <3>1. a + k - 1 \in i + 1..j - 1 /\ k \in 1..n
      BY <1>1, <2>1
    <3> QED BY <1>5, <1>8, <3>1 DEF Cut
  <2>5. SubSeq(t, x + 1, y - 1) \in Split(t)
    <3>1. \E c \in cuts \X cuts :
            /\ c[1] < c[2] /\ \A k \in c[1] + 1..c[2] - 1 : k \notin cuts
            /\ SubSeq(t, x + 1, y - 1) = SubSeq(t, c[1] + 1, c[2] - 1)
      <4> USE <2>2, <2>3
      <4> WITNESS <<x, y>> \in cuts \X cuts
      <4> QED BY <2>1, <2>4
    <3> QED BY <1>3, <3>1
  <2>6. i + 1 = a + x /\ j - 1 = a + y - 2
    BY <1>1, <2>1
  <2> QED BY <1>6, <2>1, <2>5, <2>6
<1> QED BY <1>7, <1>8 DEF t

\* A letter is neither a blank nor a separator.
Letter(c) == c \notin {Blank, Separator}

\* The stretch from a to e is the list without the blanks around it and the
\* separators at its end.  The last that is in it, but for blanks, is a letter.
IsClean(s, a, e) ==
  /\ 1 <= a /\ a <= e /\ e <= Len(s)
  /\ s[a] # Blank /\ \A k \in 1..a - 1 : s[k] = Blank
  /\ \A k \in e + 1..Len(s) : ~Letter(s[k])
  /\ \/ e < Len(s) /\ s[e + 1] = Separator
     \/ \A k \in e + 1..Len(s) : s[k] = Blank
  /\ \E j \in a..e : Letter(s[j]) /\ \A k \in j + 1..e : s[k] = Blank

LEMMA CleanIs ==
  ASSUME NEW S, NEW s \in Seq(S), Tidy(s)
  PROVE  LET clean == TrimSeparators(TrimSpace(s))
         IN  \/ clean = <<>> /\ \A k \in DOMAIN s : ~Letter(s[k])
             \/ clean # <<>> /\ \E a, e \in Nat :
                  IsClean(s, a, e) /\ clean = SubSeq(s, a, e)
<1> DEFINE u == TrimSpace(s)
           clean == TrimSeparators(u)
           solid == {k \in DOMAIN u : u[k] # Separator}
<1> DEFINE goal == \/ clean = <<>> /\ \A k \in DOMAIN s : ~Letter(s[k])
                   \/ clean # <<>> /\ \E a, e \in Nat :
                        IsClean(s, a, e) /\ clean = SubSeq(s, a, e)
<1> SUFFICES goal
  OBVIOUS
<1>1. u \in Seq(S) /\ Len(s) \in Nat /\ DOMAIN s = 1..Len(s)
  BY TrimSpaceIs
<1>2. clean = IF solid = {} THEN <<>> ELSE SubSeq(u, 1, Max(solid))
  BY DEF TrimSeparators
<1>3. CASE \A k \in DOMAIN s : s[k] = Blank
  <2>1. u = <<>>
    BY <1>3, TrimSpaceIs
  <2>2. solid = {}
    BY <2>1
  <2> QED BY <1>2, <1>3, <2>2 DEF Letter
<1>4. CASE ~\A k \in DOMAIN s : s[k] = Blank
  <2>0. \E a, b \in DOMAIN s :
          /\ a <= b /\ s[a] # Blank /\ s[b] # Blank
          /\ \A k \in DOMAIN s : k < a \/ k > b => s[k] = Blank
          /\ u = SubSeq(s, a, b)
    BY <1>4, TrimSpaceIs
  <2>1. PICK a \in 1..Len(s), b \in 1..Len(s) :
          /\ a <= b /\ s[a] # Blank /\ s[b] # Blank
          /\ \A k \in 1..Len(s) : k < a \/ k > b => s[k] = Blank
          /\ u = SubSeq(s, a, b)
    <3>1. \E a, b \in 1..Len(s) :
          /\ a <= b /\ s[a] # Blank /\ s[b] # Blank
          /\ \A k \in DOMAIN s : k < a \/ k > b => s[k] = Blank
          /\ u = SubSeq(s, a, b)
      BY <1>1, <2>0
    <3> HIDE DEF u
    <3> QED BY <1>1, <3>1
  <2> HIDE DEF u
  <2>9. a \in Nat /\ b \in Nat /\ 1 <= a /\ b <= Len(s)
    BY <1>1, <2>1
  <2> DEFINE n == b - a + 1
  <2>2. Len(u) = n /\ \A i \in 1..n : u[i] = s[a + i - 1]
    <3>1. \A i \in a..b : s[i] \in S
      BY <1>1
    <3> QED BY <1>1, <2>1, <3>1, SubSeqProperties
  <2>3. DOMAIN u = 1..n /\ n \in Nat /\ n >= 1
    BY <1>1, <2>1, <2>2, <2>9
  <2>4. CASE solid = {}
    <3>1. ASSUME NEW k \in 1..Len(s) PROVE ~Letter(s[k])
      <4>1. CASE k < a \/ k > b
        BY <2>1, <4>1 DEF Letter
      <4>2. CASE ~(k < a \/ k > b)
        <5>1. k - a + 1 \in 1..n /\ a + (k - a + 1) - 1 = k
          BY <1>1, <2>1, <4>2
        <5>2. u[k - a + 1] = Separator
          BY <2>3, <2>4, <5>1
        <5> QED BY <2>2, <5>1, <5>2 DEF Letter
      <4> QED BY <4>1, <4>2
    <3> QED BY <1>1, <1>2, <2>4, <3>1
  <2>5. CASE solid # {}
    <3>1. solid \subseteq 1..n
      BY <2>3
    <3>2. PICK c \in 1..n : c \in solid /\ c = Max(solid) /\ \A y \in solid : y <= c
      BY <2>3, <2>5, <3>1, GreatestExists
    <3> DEFINE e == a + c - 1
    <3>14. c \in Nat /\ 1 <= c /\ c <= n
      BY <2>3
    <3>3. e \in Nat /\ a <= e /\ e <= b
      BY <2>9, <3>14
    <3>4. clean = SubSeq(s, a, e)
      <4>1. a \in 1..Len(s) /\ b \in 1..Len(s) /\ 1 \in 1..b - a + 1 /\ c \in 1..b - a + 1
        BY <2>1, <2>3
      <4>2. SubSeq(u, 1, c) = SubSeq(s, a + 1 - 1, a + c - 1)
        BY <2>1, <4>1, SubSeqOfSubSeq
      <4>3. a + 1 - 1 = a
        BY <2>1
      <4> QED BY <1>2, <2>5, <3>2, <4>2, <4>3
    <3>5. s[e] # Separator
      BY <2>2, <3>2
    <3> HIDE DEF clean
    <3>6. ASSUME NEW k \in e + 1..b PROVE s[k] = Separator
      <4>1. k - a + 1 \in 1..n /\ a + (k - a + 1) - 1 = k /\ k - a + 1 > c
        BY <2>9, <3>14
      <4>2. k - a + 1 \notin solid
        <5> HIDE DEF solid
        <5>1. k - a + 1 \in solid => k - a + 1 <= c
          BY <3>2
        <5> QED BY <2>9, <3>14, <4>1, <5>1
      <4>3. u[k - a + 1] = Separator
        BY <2>3, <4>1, <4>2
      <4> QED BY <2>2, <4>1, <4>3
    <3>7. \A k \in b + 1..Len(s) : s[k] = Blank
      BY <1>1, <2>1
    <3> HIDE DEF e
    <3>8. \A k \in e + 1..Len(s) : ~Letter(s[k])
      BY <1>1, <2>1, <3>3, <3>6, <3>7 DEF Letter
    <3>9. \/ e < Len(s) /\ s[e + 1] = Separator
          \/ \A k \in e + 1..Len(s) : s[k] = Blank
      <4>1. CASE e < b
        BY <1>1, <2>1, <3>3, <3>6, <4>1
      <4>2. CASE e = b
        BY <3>7, <4>2
      <4> QED BY <2>1, <3>3, <4>1, <4>2
    <3>10. \E j \in a..e : Letter(s[j]) /\ \A k \in j + 1..e : s[k] = Blank
      <4>1. CASE e = b
        <5>1. e \in a..e /\ Letter(s[e]) /\ \A k \in e + 1..e : s[k] = Blank
          BY <2>1, <3>3, <3>5, <4>1 DEF Letter
        <5> QED BY <5>1
      <4>2. CASE e < b
        <5>1. e + 1 \in 1..Len(s) /\ s[e + 1] = Separator /\ e + 1 > 1
              /\ e + 1 - 1 = e
          BY <1>1, <2>1, <3>3, <3>6, <4>2
        <5>2. PICK j \in 1..e :
                Letter(s[j]) /\ \A k \in j + 1..e : s[k] = Blank
          <6> DEFINE i == e + 1
          <6>1. i \in DOMAIN s /\ s[i] = Separator /\ i > 1 /\ i - 1 = e
            BY <1>1, <3>3, <5>1
          <6> HIDE DEF i
          <6>2. \E j \in 1..i - 1 :
                  /\ s[j] \notin {Separator, Blank}
                  /\ \A k \in j + 1..i - 1 : s[k] = Blank
            BY <3>5, <6>1 DEF Tidy
          <6> QED BY <6>1, <6>2 DEF Letter
        <5>3. j >= a
          BY <1>1, <2>1, <3>3, <5>2 DEF Letter
        <5> QED BY <5>2, <5>3
      <4> QED BY <2>1, <3>3, <4>1, <4>2
    <3>11. \A k \in 1..a - 1 : s[k] = Blank
      BY <1>1, <2>1
    <3>12. IsClean(s, a, e)
      BY <2>1, <3>3, <3>8, <3>9, <3>10, <3>11 DEF IsClean
    <3>13. clean # <<>>
      <4>1. \A i \in a..e : s[i] \in S
        BY <1>1, <2>1, <3>3
      <4>2. Len(clean) = e - a + 1 /\ clean \in Seq(S)
        BY <2>1, <3>3, <3>4, <4>1, SubSeqProperties
      <4> QED BY <2>1, <3>3, <4>2
    <3> QED BY <2>9, <3>3, <3>4, <3>12, <3>13
  <2> QED BY <2>4, <2>5
<1> QED BY <1>3, <1>4

\* Positions v to w of a list are a word.
IsWord(s, v, w) ==
  /\ v <= w
  /\ \A k \in v..w : s[k] # Separator
  /\ s[v] # Blank /\ s[w] # Blank
  /\ \E k \in 0..v - 1 :
       (k = 0 \/ s[k] = Separator) /\ \A j \in k + 1..v - 1 : s[j] = Blank
  /\ \E k \in w + 1..Len(s) + 1 :
       /\ k = Len(s) + 1 \/ s[k] = Separator
       /\ \A j \in w + 1..k - 1 : s[j] = Blank

LEMMA WordsAre ==
  ASSUME NEW S, NEW s \in Seq(S)
  PROVE  /\ \A p \in Words(s) :
              \E v, w \in 1..Len(s) : IsWord(s, v, w) /\ p = SubSeq(s, v, w)
         /\ \A v, w \in 1..Len(s) : IsWord(s, v, w) => SubSeq(s, v, w) \in Words(s)
<1>1. DOMAIN s = 1..Len(s)
  OBVIOUS
<1> DEFINE pairs == {v \in (1..Len(s)) \X (1..Len(s)) : IsWord(s, v[1], v[2])}
<1>2. Words(s) = {SubSeq(s, w[1], w[2]) : w \in pairs}
  BY <1>1 DEF Words, IsWord
<1>3. ASSUME NEW v \in 1..Len(s), NEW w \in 1..Len(s), IsWord(s, v, w)
      PROVE  SubSeq(s, v, w) \in Words(s)
  <2> DEFINE x == <<v, w>>
  <2>1. x \in pairs /\ x[1] = v /\ x[2] = w
    BY <1>3
  <2> HIDE DEF x, pairs
  <2> QED BY <1>2, <2>1
<1> QED BY <1>2, <1>3

\* Between two cuts of a clean list there is a letter.
LEMMA CutHasLetter ==
  ASSUME NEW S, NEW s \in Seq(S), Tidy(s), NEW a \in Nat, NEW e \in Nat,
         IsClean(s, a, e), NEW i \in a - 1..e, NEW j \in a..e + 1, Cut(s, a, e, i, j)
  PROVE  \E k \in i + 1..j - 1 : Letter(s[k])
<1>1. 1 <= a /\ a <= e /\ e <= Len(s) /\ Len(s) \in Nat /\ DOMAIN s = 1..Len(s)
  BY DEF IsClean
<1>2. i < j /\ (i = a - 1 \/ s[i] = Separator) /\ (j = e + 1 \/ s[j] = Separator)
  BY DEF Cut
<1>3. PICK l \in a..e : Letter(s[l]) /\ \A k \in l + 1..e : s[k] = Blank
  BY DEF IsClean
<1>4. Separator # Blank
  BY DEF Separator, Blank
\* A letter behind which there is nothing but blanks is behind the cut i.
<1>5. ASSUME NEW k \in 1..j - 1, Letter(s[k]), \A m \in k + 1..j - 1 : s[m] = Blank
      PROVE  k \in i + 1..j - 1
  <2>1. CASE i = a - 1
    <3>1. ~(k < a)
      <4>1. \A m \in 1..a - 1 : s[m] = Blank
        BY DEF IsClean
      <4> QED BY <1>1, <1>5, <4>1 DEF Letter
    <3> QED BY <1>1, <2>1, <3>1
  <2>2. CASE s[i] = Separator
    <3>1. k # i
      BY <1>5, <2>2 DEF Letter
    <3>2. ~(k < i)
      <4>1. k < i => i \in k + 1..j - 1
        BY <1>1, <1>2
      <4> QED BY <1>4, <1>5, <2>2, <4>1
    <3> QED BY <1>1, <1>2, <3>1, <3>2
  <2> QED BY <1>2, <2>1, <2>2
<1>6. CASE j = e + 1
  <2>1. l \in 1..j - 1 /\ \A m \in l + 1..j - 1 : s[m] = Blank
    BY <1>1, <1>3, <1>6
  <2> QED BY <1>3, <1>5, <2>1
<1>7. CASE j # e + 1
  <2>1. s[j] = Separator /\ j \in 1..Len(s) /\ j <= e
    BY <1>1, <1>2, <1>7
  <2>2. \/ \E k \in 1..j - 1 :
             s[k] \notin {Separator, Blank} /\ \A m \in k + 1..j - 1 : s[m] = Blank
        \/ \E r \in j..Len(s) :
             /\ \A m \in j..r : s[m] = Separator
             /\ \A m \in r + 1..Len(s) : s[m] = Blank
    BY <1>1, <2>1 DEF Tidy
  <2>3. CASE \E k \in 1..j - 1 :
               s[k] \notin {Separator, Blank} /\ \A m \in k + 1..j - 1 : s[m] = Blank
    BY <1>5, <2>3 DEF Letter
  <2>4. CASE \E r \in j..Len(s) :
               /\ \A m \in j..r : s[m] = Separator
               /\ \A m \in r + 1..Len(s) : s[m] = Blank
    <3>1. PICK r \in j..Len(s) :
                 /\ \A m \in j..r : s[m] = Separator
                 /\ \A m \in r + 1..Len(s) : s[m] = Blank
      BY <2>4
    <3>2. ~(l >= j)
      <4>1. l >= j => l \in j..r \/ l \in r + 1..Len(s)
        BY <1>1, <2>1
      <4> QED BY <1>3, <3>1, <4>1 DEF Letter
    <3>3. j \in l + 1..e
      BY <1>1, <2>1, <3>2
    <3> QED BY <1>3, <1>4, <2>1, <3>3
  <2> QED BY <2>2, <2>3, <2>4
<1> QED BY <1>6, <1>7

\* What is between two cuts of a clean list is a word.
LEMMA CutIsWord ==
  ASSUME NEW S, NEW s \in Seq(S), Tidy(s), NEW a \in Nat, NEW e \in Nat,
         IsClean(s, a, e), NEW i \in a - 1..e, NEW j \in a..e + 1, Cut(s, a, e, i, j)
  PROVE  TrimSpace(SubSeq(s, i + 1, j - 1)) \in Words(s)
<1>1. 1 <= a /\ a <= e /\ e <= Len(s) /\ Len(s) \in Nat
  BY DEF IsClean
<1>2. /\ i < j /\ (i = a - 1 \/ s[i] = Separator) /\ (j = e + 1 \/ s[j] = Separator)
      /\ \A k \in i + 1..j - 1 : s[k] # Separator
  BY DEF Cut
<1>3. \E k \in i + 1..j - 1 : s[k] # Blank
  BY CutHasLetter DEF Letter
<1>4. i + 1 \in Nat /\ j - 1 \in Nat /\ 1 <= i + 1 /\ j - 1 <= Len(s)
  BY <1>1, <1>2
<1>5. PICK v \in i + 1..j - 1, w \in i + 1..j - 1 :
        /\ v <= w /\ s[v] # Blank /\ s[w] # Blank
        /\ \A k \in i + 1..j - 1 : k < v \/ k > w => s[k] = Blank
        /\ TrimSpace(SubSeq(s, i + 1, j - 1)) = SubSeq(s, v, w)
  BY <1>3, <1>4, TrimPiece, ZenonT(40)
<1>6. v \in 1..Len(s) /\ w \in 1..Len(s)
  BY <1>1, <1>4
<1>7. \A k \in v..w : s[k] # Separator
  BY <1>1, <1>2
<1>8. \A m \in i + 1..v - 1 : s[m] = Blank
  BY <1>1, <1>5
<1>9. \E k \in 0..v - 1 :
        (k = 0 \/ s[k] = Separator) /\ \A m \in k + 1..v - 1 : s[m] = Blank
  <2>1. CASE i = a - 1
    <3>1. \A m \in 1..a - 1 : s[m] = Blank
      BY DEF IsClean
    <3>2. \A m \in 0 + 1..v - 1 : s[m] = Blank
      BY <1>1, <1>6, <1>8, <2>1, <3>1
    <3>3. 0 \in 0..v - 1
      BY <1>6
    <3> QED BY <3>2, <3>3
  <2>2. CASE s[i] = Separator
    <3>1. i \in 0..v - 1
      BY <1>1
    <3> QED BY <1>8, <2>2, <3>1
  <2> QED BY <1>2, <2>1, <2>2
<1>10. \A m \in w + 1..j - 1 : s[m] = Blank
  BY <1>1, <1>5
<1>11. \E k \in w + 1..Len(s) + 1 :
         /\ k = Len(s) + 1 \/ s[k] = Separator
         /\ \A m \in w + 1..k - 1 : s[m] = Blank
  <2>1. CASE s[j] = Separator
    <3>1. j \in w + 1..Len(s) + 1
      BY <1>1
    <3> QED BY <1>10, <2>1, <3>1
  <2>2. CASE j = e + 1 /\ e < Len(s) /\ s[e + 1] = Separator
    <3>1. j \in w + 1..Len(s) + 1
      BY <1>1
    <3> QED BY <1>10, <2>2, <3>1
  <2>3. CASE j = e + 1 /\ \A k \in e + 1..Len(s) : s[k] = Blank
    <3>1. \A m \in w + 1..Len(s) + 1 - 1 : s[m] = Blank
      BY <1>1, <1>10, <2>3
    <3>2. Len(s) + 1 \in w + 1..Len(s) + 1
      BY <1>1, <1>6
    <3> QED BY <3>1, <3>2
  <2> QED BY <1>2, <2>1, <2>2, <2>3 DEF IsClean
<1>12. IsWord(s, v, w)
  BY <1>5, <1>7, <1>9, <1>11 DEF IsWord
<1> QED BY <1>5, <1>6, <1>12, WordsAre

\* Every word of a clean list is between two cuts.
LEMMA WordIsCut ==
  ASSUME NEW S, NEW s \in Seq(S), NEW a \in Nat, NEW e \in Nat, IsClean(s, a, e),
         NEW v \in 1..Len(s), NEW w \in 1..Len(s), IsWord(s, v, w)
  PROVE  \E i \in a - 1..e, j \in a..e + 1 :
           Cut(s, a, e, i, j) /\ TrimSpace(SubSeq(s, i + 1, j - 1)) = SubSeq(s, v, w)
<1>1. 1 <= a /\ a <= e /\ e <= Len(s) /\ Len(s) \in Nat
  BY DEF IsClean
<1>2. /\ v <= w /\ s[v] # Blank /\ s[w] # Blank
      /\ \A k \in v..w : s[k] # Separator
  BY DEF IsWord
<1>3. v >= a
  BY <1>1, <1>2 DEF IsClean
<1>4. w <= e
  <2>1. s[w] # Separator
    BY <1>2
  <2>2. w > e => ~Letter(s[w])
    BY <1>1 DEF IsClean
  <2> QED BY <1>2, <2>1, <2>2 DEF Letter
<1>5. PICK i \in a - 1..v - 1 :
        (i = a - 1 \/ s[i] = Separator) /\ \A m \in i + 1..v - 1 : s[m] = Blank
  <2>1. PICK k \in 0..v - 1 :
          (k = 0 \/ s[k] = Separator) /\ \A m \in k + 1..v - 1 : s[m] = Blank
    BY DEF IsWord
  <2>2. CASE k >= a
    <3>1. k \in a - 1..v - 1 /\ s[k] = Separator
      BY <1>1, <2>1, <2>2
    <3> QED BY <2>1, <3>1
  <2>3. CASE k < a
    <3>1. a - 1 \in a - 1..v - 1 /\ \A m \in a - 1 + 1..v - 1 : s[m] = Blank
      BY <1>1, <1>3, <2>1, <2>3
    <3> QED BY <3>1
  <2> QED BY <2>2, <2>3
<1>6. PICK j \in w + 1..e + 1 :
        (j = e + 1 \/ s[j] = Separator) /\ \A m \in w + 1..j - 1 : s[m] = Blank
  <2>1. PICK k \in w + 1..Len(s) + 1 :
          /\ k = Len(s) + 1 \/ s[k] = Separator
          /\ \A m \in w + 1..k - 1 : s[m] = Blank
    BY DEF IsWord
  <2>2. CASE k <= e
    <3>1. k \in w + 1..e + 1 /\ s[k] = Separator
      BY <1>1, <2>1, <2>2
    <3> QED BY <2>1, <3>1
  <2>3. CASE k > e
    <3>1. e + 1 \in w + 1..e + 1 /\ \A m \in w + 1..e + 1 - 1 : s[m] = Blank
      BY <1>1, <1>4, <2>1, <2>3
    <3> QED BY <3>1
  <2> QED BY <2>2, <2>3
<1>7. i \in a - 1..e /\ j \in a..e + 1 /\ i < j
  BY <1>1, <1>2, <1>3, <1>4
<1>8. \A k \in i + 1..j - 1 : s[k] # Separator
  <2> SUFFICES ASSUME NEW k \in i + 1..j - 1 PROVE s[k] # Separator
    OBVIOUS
  <2>1. k \in i + 1..v - 1 \/ k \in v..w \/ k \in w + 1..j - 1
    BY <1>1, <1>7
  <2>2. Blank # Separator
    BY DEF Blank, Separator
  <2> QED BY <1>2, <1>5, <1>6, <2>1, <2>2
<1>9. TrimSpace(SubSeq(s, i + 1, j - 1)) = SubSeq(s, v, w)
  <2>1. i + 1 \in Nat /\ j - 1 \in Nat /\ 1 <= i + 1 /\ j - 1 <= Len(s)
        /\ v \in i + 1..j - 1 /\ w \in i + 1..j - 1
    BY <1>1, <1>2, <1>7
  <2>2. PICK x \in i + 1..j - 1, y \in i + 1..j - 1 :
          /\ x <= y /\ s[x] # Blank /\ s[y] # Blank
          /\ \A k \in i + 1..j - 1 : k < x \/ k > y => s[k] = Blank
          /\ TrimSpace(SubSeq(s, i + 1, j - 1)) = SubSeq(s, x, y)
    <3>1. \E m \in i + 1..j - 1 : s[m] # Blank
      BY <1>2, <2>1
    <3>2. i + 1 \in Nat /\ j - 1 \in Nat /\ 1 <= i + 1 /\ j - 1 <= Len(s)
      BY <2>1
    <3> QED BY <3>1, <3>2, TrimPiece, ZenonT(40)
  <2>3. x <= v /\ w <= y
    BY <1>2, <2>1, <2>2
  <2>4. ~(x < v)
    <3>1. x < v => x \in i + 1..v - 1
      BY <2>1
    <3> QED BY <1>5, <2>2, <3>1
  <2>5. ~(y > w)
    <3>1. y > w => y \in w + 1..j - 1
      BY <2>1
    <3> QED BY <1>6, <2>2, <3>1
  <2>6. x = v /\ y = w
    BY <2>1, <2>3, <2>4, <2>5
  <2> QED BY <2>2, <2>6
<1>10. Cut(s, a, e, i, j)
  BY <1>5, <1>6, <1>7, <1>8 DEF Cut
<1> QED BY <1>7, <1>9, <1>10

\* The elements of a tidy list are its words.
LEMMA ElementsAreWords ==
  ASSUME NEW S, NEW s \in Seq(S), Tidy(s)
  PROVE  Elements(s) = Words(s)
<1> DEFINE clean == TrimSeparators(TrimSpace(s))
<1>1. Elements(s) =
        IF clean = <<>> THEN {} ELSE {TrimSpace(p) : p \in Split(clean)}
  BY DEF Elements
<1>2. \/ clean = <<>> /\ \A k \in DOMAIN s : ~Letter(s[k])
      \/ clean # <<>> /\ \E a, e \in Nat : IsClean(s, a, e) /\ clean = SubSeq(s, a, e)
  BY CleanIs
<1> HIDE DEF clean
<1>3. CASE clean = <<>> /\ \A k \in DOMAIN s : ~Letter(s[k])
  <2>1. ASSUME NEW v \in 1..Len(s), NEW w \in 1..Len(s), IsWord(s, v, w) PROVE FALSE
    <3>1. v \in v..w /\ s[v] # Separator /\ s[v] # Blank
      BY <2>1 DEF IsWord
    <3> QED BY <1>3, <3>1 DEF Letter
  <2>2. Words(s) = {}
    BY <2>1, WordsAre
  <2> QED BY <1>1, <1>3, <2>2
<1>4. CASE clean # <<>> /\ \E a, e \in Nat :
             IsClean(s, a, e) /\ clean = SubSeq(s, a, e)
  <2>1. PICK a, e \in Nat : IsClean(s, a, e) /\ clean = SubSeq(s, a, e)
    BY <1>4
  <2>2. 1 <= a /\ a <= e /\ e <= Len(s)
    BY <2>1 DEF IsClean
  <2>3. ASSUME NEW p \in Split(clean) PROVE TrimSpace(p) \in Words(s)
    <3>1. PICK i \in a - 1..e, j \in a..e + 1 :
            Cut(s, a, e, i, j) /\ p = SubSeq(s, i + 1, j - 1)
      BY <2>1, <2>2, <2>3, SplitIs
    <3> QED BY <2>1, <3>1, CutIsWord
  <2>4. ASSUME NEW p \in Words(s) PROVE \E q \in Split(clean) : p = TrimSpace(q)
    <3>1. PICK v \in 1..Len(s), w \in 1..Len(s) :
            IsWord(s, v, w) /\ p = SubSeq(s, v, w)
      BY <2>4, WordsAre
    <3>2. PICK i \in a - 1..e, j \in a..e + 1 :
            /\ Cut(s, a, e, i, j)
            /\ TrimSpace(SubSeq(s, i + 1, j - 1)) = SubSeq(s, v, w)
      BY <2>1, <3>1, WordIsCut
    <3>3. SubSeq(s, i + 1, j - 1) \in Split(clean)
      BY <2>1, <2>2, <3>2, SplitIs
    <3> QED BY <3>1, <3>2, <3>3
  <2> QED BY <1>1, <1>4, <2>3, <2>4
<1> QED BY <1>2, <1>3, <1>4

\* valid_elements takes tidy lists as sets of words, for lists of any length.
THEOREM ListsCorrect == Spec => []ValidElementsAreIncluded
<1>1. Inv => ValidElementsAreIncluded
  <2> SUFFICES ASSUME Inv, asked.op = "valid_elements", Known,
                      Tidy(asked.flag), Tidy(asked.value)
               PROVE  Passes <=>
                        /\ Words(asked.flag) \subseteq Words(asked.value)
                        /\ Words(asked.flag) = {} <=> Words(asked.value) = {}
    BY DEF ValidElementsAreIncluded
  <2>1. asked.flag \in Seq(Symbols) /\ asked.value \in Seq(Symbols)
    BY ComparisonsAssumption DEF Inv
  <2>2. /\ Elements(asked.flag) = Words(asked.flag)
        /\ Elements(asked.value) = Words(asked.value)
    BY <2>1, ElementsAreWords
  <2>3. CompareOp(asked.op, asked.flag, asked.value) =
          {AllElementsValid(Words(asked.flag), Words(asked.value))}
    BY <2>2 DEF CompareOp
  <2>4. AllElementsValid(Words(asked.flag), Words(asked.value)) \in BOOLEAN
    BY DEF AllElementsValid
  <2>5. Passes <=> AllElementsValid(Words(asked.flag), Words(asked.value))
    BY <2>3, <2>4 DEF Inv
  <2> QED BY <2>5 DEF AllElementsValid
<1> QED BY <1>1, InvHolds, PTL

-----------------------------------------------------------------------------
(* Modes.                                                                  *)

\* The bits of a number are those of its half, one place on, and the last.
More(bits, n) ==
  {k + 1 : k \in bits} \cup (IF n % 2 = 1 THEN {0} ELSE {})

LEMMA BitsDefined ==
  Bits = [n \in Nat |-> IF n = 0 THEN {} ELSE More(Bits[n \div 2], n)]
<1> DEFINE G(f, n) ==
             f = [m \in 0..n |-> IF m = 0 THEN {} ELSE More(f[m \div 2], m)]
           F(f) == f = [m \in Nat |-> IF m = 0 THEN {} ELSE More(f[m \div 2], m)]
<1>1. Bits = CHOOSE f : F(f)
  BY DEF Bits, More
<1>2. \A m \in Nat \ {0} : m \div 2 \in Nat /\ m \div 2 < m
  OBVIOUS
<1>7. ASSUME NEW n \in Nat, NEW f, G(f, n), NEW m \in Nat, m <= n
      PROVE  f[m] = IF m = 0 THEN {} ELSE More(f[m \div 2], m)
  <2> DEFINE g == [k \in 0..n |-> IF k = 0 THEN {} ELSE More(f[k \div 2], k)]
  <2>1. m \in 0..n
    BY <1>7
  <2>2. g[m] = IF m = 0 THEN {} ELSE More(f[m \div 2], m)
    BY <2>1
  <2>3. f = g
    BY <1>7
  <2> HIDE DEF g, G
  <2> QED BY <2>2, <2>3
<1>3. ASSUME NEW n \in Nat PROVE \E f : G(f, n)
  <2> DEFINE Bad == {m \in Nat : ~\E f : G(f, m)}
  <2>1. Bad \subseteq Nat /\ \A m \in Nat : m \in Bad <=> ~\E f : G(f, m)
    OBVIOUS
  <2>2. Bad = {}
    <3> SUFFICES ASSUME Bad # {} PROVE FALSE
      OBVIOUS
    <3> HIDE DEF Bad, G
    <3>1. PICK m \in Bad : \A k \in Bad : m <= k
      BY <2>1, LeastExists
    <3>2. m \in Nat /\ ~\E f : G(f, m)
      BY <2>1
    <3>3. m # 0
      <4>1. G([k \in 0..0 |-> {}], 0)
        BY DEF G
      <4> QED BY <3>2, <4>1
    <3>4. m - 1 \in Nat /\ m - 1 \notin Bad
      BY <3>1, <3>2, <3>3
    <3>5. PICK g : G(g, m - 1)
      BY <2>1, <3>4
    <3> DEFINE f == [k \in 0..m |->
                       IF k < m THEN g[k] ELSE More(g[m \div 2], m)]
    <3>6. ASSUME NEW k \in 0..m
          PROVE  f[k] = IF k = 0 THEN {} ELSE More(f[k \div 2], k)
      <4>1. k # 0 => f[k \div 2] = g[k \div 2]
        <5>1. k # 0 => k \div 2 \in 0..m /\ k \div 2 < m
          BY <1>2, <3>2
        <5> QED BY <5>1
      <4>2. CASE k < m
        <5>1. f[k] = g[k] /\ k \in 0..m - 1
          BY <3>2, <4>2
        <5> HIDE DEF f
        <5> QED BY <3>5, <4>1, <5>1 DEF G
      <4>3. CASE k = m
        <5>1. f[k] = More(g[k \div 2], k)
          BY <3>2, <4>3
        <5> HIDE DEF f
        <5> QED BY <3>3, <4>1, <4>3, <5>1
      <4> QED BY <3>2, <4>2, <4>3
    <3>7. f = [k \in 0..m |-> f[k]]
      OBVIOUS
    <3> HIDE DEF f
    <3>8. G(f, m)
      BY <3>6, <3>7 DEF G
    <3> QED BY <3>2, <3>8
  <2> QED BY <2>1, <2>2
<1>4. ASSUME NEW m \in Nat, NEW n \in Nat, NEW f, NEW g, G(f, m), G(g, n),
             NEW k \in Nat, k <= m, k <= n
      PROVE  f[k] = g[k]
  <2> DEFINE Bad == {i \in Nat : i <= m /\ i <= n /\ f[i] # g[i]}
  <2>1. Bad \subseteq Nat /\ \A i \in Nat :
          i \in Bad <=> i <= m /\ i <= n /\ f[i] # g[i]
    OBVIOUS
  <2>2. ASSUME NEW i \in Nat, i <= m
        PROVE  f[i] = IF i = 0 THEN {} ELSE More(f[i \div 2], i)
    <3> HIDE DEF G
    <3> QED BY <1>4, <1>7, <2>2
  <2>3. ASSUME NEW i \in Nat, i <= n
        PROVE  g[i] = IF i = 0 THEN {} ELSE More(g[i \div 2], i)
    <3> HIDE DEF G
    <3> QED BY <1>4, <1>7, <2>3
  <2>4. Bad = {}
    <3> SUFFICES ASSUME Bad # {} PROVE FALSE
      OBVIOUS
    <3> HIDE DEF Bad, G
    <3>1. PICK i \in Bad : \A j \in Bad : i <= j
      BY <2>1, LeastExists
    <3>2. i \in Nat /\ i <= m /\ i <= n /\ f[i] # g[i]
      BY <2>1
    <3>3. CASE i = 0
      BY <2>2, <2>3, <3>2, <3>3
    <3>4. CASE i # 0
      <4>1. i \div 2 \in Nat /\ i \div 2 < i
        BY <1>2, <3>2, <3>4
      <4>2. i \div 2 \notin Bad
        BY <3>1, <3>2, <4>1
      <4>3. f[i \div 2] = g[i \div 2]
        BY <2>1, <3>2, <4>1, <4>2
      <4> QED BY <2>2, <2>3, <3>2, <3>4, <4>3
    <3> QED BY <3>3, <3>4
  <2> QED BY <1>4, <2>1, <2>4
<1>5. \E f : F(f)
  <2> DEFINE h == [n \in Nat |-> CHOOSE f : G(f, n)]
             f == [n \in Nat |-> h[n][n]]
  <2>1. ASSUME NEW n \in Nat PROVE G(h[n], n)
    <3> HIDE DEF G
    <3> QED BY <1>3
  <2> HIDE DEF h
  <2>2. ASSUME NEW n \in Nat
        PROVE  f[n] = IF n = 0 THEN {} ELSE More(f[n \div 2], n)
    <3>1. h[n][n] = IF n = 0 THEN {} ELSE More(h[n][n \div 2], n)
      <4> HIDE DEF G
      <4> QED BY <1>7, <2>1
    <3>2. n # 0 => h[n][n \div 2] = h[n \div 2][n \div 2]
      <4>1. n # 0 => n \div 2 \in Nat /\ n \div 2 <= n
        BY <1>2
      <4> HIDE DEF G
      <4> QED BY <1>4, <2>1, <4>1
    <3>3. n # 0 => n \div 2 \in Nat
      BY <1>2
    <3> QED BY <3>1, <3>2, <3>3
  <2>3. f = [n \in Nat |-> f[n]]
    OBVIOUS
  <2> HIDE DEF f
  <2>4. F(f)
    BY <2>2, <2>3
  <2> QED BY <2>4
<1>6. F(Bits)
  <2> HIDE DEF F
  <2> QED BY <1>1, <1>5
<1> QED BY <1>6

\* The places of bits are natural numbers.
LEMMA BitsTyped == \A n \in Nat : Bits[n] \subseteq Nat
<1> DEFINE Bad == {n \in Nat : ~(Bits[n] \subseteq Nat)}
<1>1. Bad \subseteq Nat /\ \A n \in Nat : n \in Bad <=> ~(Bits[n] \subseteq Nat)
  OBVIOUS
<1>2. Bad = {}
  <2> SUFFICES ASSUME Bad # {} PROVE FALSE
    OBVIOUS
  <2> HIDE DEF Bad
  <2>1. PICK n \in Bad : \A m \in Bad : n <= m
    BY <1>1, LeastExists
  <2>2. n \in Nat /\ ~(Bits[n] \subseteq Nat)
    BY <1>1
  <2>3. Bits[n] = IF n = 0 THEN {} ELSE More(Bits[n \div 2], n)
    <3> DEFINE R == [m \in Nat |-> IF m = 0 THEN {} ELSE More(Bits[m \div 2], m)]
    <3>1. R[n] = IF n = 0 THEN {} ELSE More(Bits[n \div 2], n)
      BY <2>2
    <3>2. Bits = R
      BY BitsDefined
    <3> HIDE DEF R
    <3> QED BY <3>1, <3>2
  <2>4. n # 0
    BY <2>2, <2>3
  <2>5. n \div 2 \in Nat /\ n \div 2 < n
    BY <2>2, <2>4
  <2>6. Bits[n \div 2] \subseteq Nat
    BY <1>1, <2>1, <2>2, <2>5
  <2>7. More(Bits[n \div 2], n) \subseteq Nat
    BY <2>6 DEF More
  <2> QED BY <2>2, <2>3, <2>4, <2>7
<1> QED BY <1>1, <1>2

\* One more binary digit.
LEMMA BinaryDigit ==
  ASSUME NEW a \in Nat, NEW p \in 0..1, NEW j \in Nat
  PROVE  j \in Bits[2 * a + p] <=>
           (j = 0 /\ p = 1) \/ (j > 0 /\ j - 1 \in Bits[a])
<1> DEFINE n == 2 * a + p
<1>1. n \in Nat /\ n \div 2 = a /\ n % 2 = p /\ (n = 0 <=> a = 0 /\ p = 0)
  OBVIOUS
<1> HIDE DEF n
<1>2. ASSUME NEW m \in Nat
      PROVE  Bits[m] = IF m = 0 THEN {} ELSE More(Bits[m \div 2], m)
  <2> DEFINE R == [k \in Nat |-> IF k = 0 THEN {} ELSE More(Bits[k \div 2], k)]
  <2>1. R[m] = IF m = 0 THEN {} ELSE More(Bits[m \div 2], m)
    OBVIOUS
  <2>2. Bits = R
    BY BitsDefined
  <2> HIDE DEF R
  <2> QED BY <2>1, <2>2
<1>3. Bits[a] \subseteq Nat
  BY BitsTyped
<1>4. CASE n = 0
  <2>1. Bits[n] = {} /\ Bits[a] = {} /\ p = 0
    BY <1>1, <1>2, <1>4
  <2> QED BY <2>1 DEF n
<1>5. CASE n # 0
  <2>1. Bits[n] = {k + 1 : k \in Bits[a]} \cup (IF p = 1 THEN {0} ELSE {})
    BY <1>1, <1>2, <1>5 DEF More
  <2>2. j \in {k + 1 : k \in Bits[a]} <=> j > 0 /\ j - 1 \in Bits[a]
    <3>1. ASSUME NEW k \in Bits[a], j = k + 1 PROVE j > 0 /\ j - 1 \in Bits[a]
      <4>1. k \in Nat
        BY <1>3
      <4>2. j - 1 = k
        BY <3>1, <4>1
      <4> QED BY <3>1, <4>1, <4>2
    <3>2. j - 1 + 1 = j
      OBVIOUS
    <3> QED BY <3>1, <3>2
  <2>3. j \in (IF p = 1 THEN {0} ELSE {}) <=> j = 0 /\ p = 1
    OBVIOUS
  <2> QED BY <2>1, <2>2, <2>3 DEF n
<1> QED BY <1>4, <1>5

\* One more octal digit, of the binary digits p, q and r.
OctalBit(j, n, a, p, q, r) ==
  j \in Bits[n] <=>
    \/ j = 0 /\ r = 1
    \/ j = 1 /\ q = 1
    \/ j = 2 /\ p = 1
    \/ j >= 3 /\ j - 3 \in Bits[a]

LEMMA OctalDigit ==
  ASSUME NEW a \in Nat, NEW p \in 0..1, NEW q \in 0..1, NEW r \in 0..1, NEW j \in Nat,
         NEW n, n = 8 * a + (4 * p + 2 * q + r)
  PROVE  OctalBit(j, n, a, p, q, r)
<1> DEFINE b == 2 * a + p
           c == 2 * b + q
<1>1. b \in Nat /\ c \in Nat /\ n = 2 * c + r
  OBVIOUS
<1>2. j \in Bits[2 * c + r] <=> (j = 0 /\ r = 1) \/ (j > 0 /\ j - 1 \in Bits[c])
  <2> HIDE DEF c
  <2> QED BY <1>1, BinaryDigit
<1>3. j > 0 => (j - 1 \in Bits[c] <=>
                  (j - 1 = 0 /\ q = 1) \/ (j - 1 > 0 /\ j - 1 - 1 \in Bits[b]))
  <2> SUFFICES ASSUME j > 0
               PROVE  j - 1 \in Bits[2 * b + q] <=>
                        (j - 1 = 0 /\ q = 1) \/ (j - 1 > 0 /\ j - 1 - 1 \in Bits[b])
    OBVIOUS
  <2> HIDE DEF b
  <2>1. j - 1 \in Nat
    OBVIOUS
  <2> QED BY <1>1, <2>1, BinaryDigit
<1>4. j > 1 => (j - 2 \in Bits[b] <=>
                  (j - 2 = 0 /\ p = 1) \/ (j - 2 > 0 /\ j - 2 - 1 \in Bits[a]))
  <2> SUFFICES ASSUME j > 1
               PROVE  j - 2 \in Bits[2 * a + p] <=>
                        (j - 2 = 0 /\ p = 1) \/ (j - 2 > 0 /\ j - 2 - 1 \in Bits[a])
    OBVIOUS
  <2>1. j - 2 \in Nat
    OBVIOUS
  <2> QED BY <2>1, BinaryDigit
<1> HIDE DEF b, c
<1>5. j - 1 - 1 = j - 2 /\ j - 2 - 1 = j - 3
  OBVIOUS
<1> QED BY <1>1, <1>2, <1>3, <1>4, <1>5 DEF OctalBit

\* What the digits are worth, one by one.
LEMMA DigitValues == \A i \in 1..10 : DigitOf(Digits[i]) = i - 1
<1> SUFFICES ASSUME NEW i \in 1..10 PROVE DigitOf(Digits[i]) = i - 1
  OBVIOUS
<1>1. DOMAIN Digits = 1..10
  BY DEF Digits
<1>2. \A m, n \in 1..10 : Digits[m] = Digits[n] => m = n
  BY DEF Digits
<1>3. (CHOOSE d \in DOMAIN Digits : Digits[d] = Digits[i]) = i
  BY <1>1, <1>2
<1> QED BY <1>3 DEF DigitOf

\* The octal digits, and the bit of each right.
LEMMA OctalRights ==
  /\ DOMAIN Rights = {"0", "1", "2", "3", "4", "5", "6", "7"}
  /\ \A c : IsDigit(c, 8) <=> c \in DOMAIN Rights
  /\ \A c \in DOMAIN Rights :
       /\ Rights[c] \subseteq {"r", "w", "x"}
       /\ \E p, q, r \in 0..1 :
            /\ DigitOf(c) = 4 * p + 2 * q + r
            /\ "r" \in Rights[c] <=> p = 1
            /\ "w" \in Rights[c] <=> q = 1
            /\ "x" \in Rights[c] <=> r = 1
<1>1. DOMAIN Rights = {"0", "1", "2", "3", "4", "5", "6", "7"}
  BY DEF Rights
<1>2. /\ Digits[1] = "0" /\ Digits[2] = "1" /\ Digits[3] = "2" /\ Digits[4] = "3"
      /\ Digits[5] = "4" /\ Digits[6] = "5" /\ Digits[7] = "6" /\ Digits[8] = "7"
  BY DEF Digits
<1>3. ASSUME NEW c PROVE IsDigit(c, 8) <=> c \in DOMAIN Rights
  <2>1. \A d \in 1..8 : d = 1 \/ d = 2 \/ d = 3 \/ d = 4 \/ d = 5 \/ d = 6 \/ d = 7 \/ d = 8
    OBVIOUS
  <2> QED BY <1>1, <1>2, <2>1 DEF IsDigit
<1>4. /\ DigitOf("0") = 0 /\ DigitOf("1") = 1 /\ DigitOf("2") = 2 /\ DigitOf("3") = 3
      /\ DigitOf("4") = 4 /\ DigitOf("5") = 5 /\ DigitOf("6") = 6 /\ DigitOf("7") = 7
  BY <1>2, DigitValues
<1>5. ASSUME NEW c \in DOMAIN Rights
      PROVE  /\ Rights[c] \subseteq {"r", "w", "x"}
             /\ "r" \in Rights[c] <=> c \in {"4", "5", "6", "7"}
             /\ "w" \in Rights[c] <=> c \in {"2", "3", "6", "7"}
             /\ "x" \in Rights[c] <=> c \in {"1", "3", "5", "7"}
  BY <1>1 DEF Rights
<1>6. ASSUME NEW c \in DOMAIN Rights
      PROVE  \E p, q, r \in 0..1 :
               /\ DigitOf(c) = 4 * p + 2 * q + r
               /\ "r" \in Rights[c] <=> p = 1
               /\ "w" \in Rights[c] <=> q = 1
               /\ "x" \in Rights[c] <=> r = 1
  <2> DEFINE p == IF c \in {"4", "5", "6", "7"} THEN 1 ELSE 0
             q == IF c \in {"2", "3", "6", "7"} THEN 1 ELSE 0
             r == IF c \in {"1", "3", "5", "7"} THEN 1 ELSE 0
  <2>1. p \in 0..1 /\ q \in 0..1 /\ r \in 0..1
    OBVIOUS
  <2>2. DigitOf(c) = 4 * p + 2 * q + r
    BY <1>1, <1>4
  <2>3. /\ "r" \in Rights[c] <=> p = 1
        /\ "w" \in Rights[c] <=> q = 1
        /\ "x" \in Rights[c] <=> r = 1
    BY <1>5
  <2> HIDE DEF p, q, r
  <2> QED BY <2>1, <2>2, <2>3
<1> QED BY <1>1, <1>3, <1>5, <1>6

Place(right) == IF right = "r" THEN 2 ELSE IF right = "w" THEN 1 ELSE 0

\* The bit of a right of a class.
BitOf(class, right) == 3 * class + Place(right)

\* Bits are the rights of the first so many digits, three places for each.
BitsOfFirst(k, s, bits) ==
  \A j \in Nat : j \in bits <=>
    \E i \in 1..k : \E r \in Rights[s[i]] : j = BitOf(k - i, r)

\* So are those of a mode.
LEMMA ModeBits ==
  ASSUME NEW S, NEW s \in Seq(S), Mode(s)
  PROVE  \A k \in 0..Len(s) : /\ Sizes(s, 8)[k] \in Nat
                               /\ BitsOfFirst(k, s, Bits[Sizes(s, 8)[k]])
<1> DEFINE f == Sizes(s, 8)
           Has3(k) == \A j \in Nat : j \in Bits[f[k]] <=>
                        \E i \in 1..k : \E r \in Rights[s[i]] : j = 3 * (k - i) + Place(r)
<1>1. Len(s) \in Nat /\ DOMAIN s = 1..Len(s)
  OBVIOUS
<1>2. \A i \in 1..Len(s) : s[i] \in DOMAIN Rights
  BY <1>1 DEF Mode, ToSet
<1>3. \A k \in 0..Len(s) : f[k] \in Nat
  BY <1>1, <1>2, OctalRights, SizesTyped
<1>4. ASSUME NEW k \in 0..Len(s)
      PROVE  f[k] = IF k = 0 THEN 0 ELSE f[k - 1] * 8 + DigitOf(s[k])
  BY SizesDefined
<1> HIDE DEF f
<1>5. Has3(0)
  <2>1. f[0] = 0
    BY <1>1, <1>4
  <2>2. Bits[0] = {}
    <3> DEFINE R == [m \in Nat |-> IF m = 0 THEN {} ELSE More(Bits[m \div 2], m)]
    <3>1. R[0] = {}
      OBVIOUS
    <3>2. Bits = R
      BY BitsDefined
    <3> HIDE DEF R
    <3> QED BY <3>1, <3>2
  <2> QED BY <2>1, <2>2
<1>6. ASSUME NEW k \in Nat, k + 1 \in 0..Len(s), Has3(k) PROVE Has3(k + 1)
  <2>1. k + 1 \in 1..Len(s) /\ k \in 0..Len(s) /\ k + 1 - 1 = k /\ k + 1 # 0
    BY <1>1, <1>6
  <2>2. f[k + 1] = f[k] * 8 + DigitOf(s[k + 1]) /\ f[k] \in Nat
    BY <1>3, <1>4, <2>1
  <2>3. PICK p \in 0..1, q \in 0..1, x \in 0..1 :
          /\ DigitOf(s[k + 1]) = 4 * p + 2 * q + x
          /\ "r" \in Rights[s[k + 1]] <=> p = 1
          /\ "w" \in Rights[s[k + 1]] <=> q = 1
          /\ "x" \in Rights[s[k + 1]] <=> x = 1
    BY <1>2, <2>1, OctalRights
  <2>4. f[k + 1] = 8 * f[k] + (4 * p + 2 * q + x)
    BY <2>2, <2>3
  <2>5. ASSUME NEW j \in Nat
        PROVE  j \in Bits[f[k + 1]] <=>
                 \/ \E r \in Rights[s[k + 1]] : j = Place(r)
                 \/ j >= 3 /\ j - 3 \in Bits[f[k]]
    <3>1. j \in Bits[f[k + 1]] <=>
            \/ j = 0 /\ x = 1
            \/ j = 1 /\ q = 1
            \/ j = 2 /\ p = 1
            \/ j >= 3 /\ j - 3 \in Bits[f[k]]
      <4>1. OctalBit(j, f[k + 1], f[k], p, q, x)
        BY <2>2, <2>4, OctalDigit
      <4> QED BY <4>1 DEF OctalBit
    <3>2. (\E r \in Rights[s[k + 1]] : j = Place(r)) <=>
            \/ j = 0 /\ x = 1
            \/ j = 1 /\ q = 1
            \/ j = 2 /\ p = 1
      <4>1. Rights[s[k + 1]] \subseteq {"r", "w", "x"}
        BY <1>2, <2>1, OctalRights
      <4> QED BY <2>3, <4>1 DEF Place
    <3> QED BY <3>1, <3>2
  <2>6. ASSUME NEW j \in Nat
        PROVE  (\E i \in 1..k + 1 : \E r \in Rights[s[i]] :
                  j = 3 * (k + 1 - i) + Place(r)) <=>
                 \/ \E r \in Rights[s[k + 1]] : j = Place(r)
                 \/ j >= 3 /\ j - 3 \in Bits[f[k]]
    <3>1. ASSUME NEW i \in 1..k + 1, NEW r \in Rights[s[i]],
                 j = 3 * (k + 1 - i) + Place(r)
          PROVE  \/ \E t \in Rights[s[k + 1]] : j = Place(t)
                 \/ j >= 3 /\ j - 3 \in Bits[f[k]]
      <4>1. Place(r) \in 0..2
        BY DEF Place
      <4>2. CASE i = k + 1
        <5>1. j = Place(r)
          BY <3>1, <4>1, <4>2
        <5> QED BY <4>2, <5>1
      <4>3. CASE i # k + 1
        <5>1. i \in 1..k /\ j >= 3 /\ j - 3 \in Nat /\ j - 3 = 3 * (k - i) + Place(r)
          BY <3>1, <4>1, <4>3
        <5> QED BY <1>6, <5>1
      <4> QED BY <4>2, <4>3
    <3>2. ASSUME NEW r \in Rights[s[k + 1]], j = Place(r)
          PROVE  \E i \in 1..k + 1 : \E t \in Rights[s[i]] :
                   j = 3 * (k + 1 - i) + Place(t)
      <4>1. k + 1 \in 1..k + 1 /\ j = 3 * (k + 1 - (k + 1)) + Place(r)
        BY <3>2
      <4> QED BY <4>1
    <3>3. ASSUME j >= 3, j - 3 \in Bits[f[k]]
          PROVE  \E i \in 1..k + 1 : \E t \in Rights[s[i]] :
                   j = 3 * (k + 1 - i) + Place(t)
      <4>1. j - 3 \in Nat
        BY <3>3
      <4>2. PICK i \in 1..k : \E r \in Rights[s[i]] : j - 3 = 3 * (k - i) + Place(r)
        BY <1>6, <3>3, <4>1
      <4>3. PICK r \in Rights[s[i]] : j - 3 = 3 * (k - i) + Place(r)
        BY <4>2
      <4>4. Place(r) \in 0..2
        BY DEF Place
      <4>5. i \in 1..k + 1 /\ j = 3 * (k + 1 - i) + Place(r)
        BY <4>3, <4>4
      <4> QED BY <4>5
    <3> QED BY <3>1, <3>2, <3>3
  <2> QED BY <2>5, <2>6
<1>7. \A k \in 0..Len(s) : Has3(k)
  <2> DEFINE Bad == {k \in 0..Len(s) : ~Has3(k)}
  <2> HIDE DEF Has3
  <2>1. Bad \subseteq Nat /\ \A k \in 0..Len(s) : k \in Bad <=> ~Has3(k)
    BY <1>1
  <2>2. Bad = {}
    <3> SUFFICES ASSUME Bad # {} PROVE FALSE
      OBVIOUS
    <3>1. \A k \in Bad : k \in 0..Len(s)
      OBVIOUS
    <3> HIDE DEF Bad
    <3>2. PICK k \in Bad : \A m \in Bad : k <= m
      BY <2>1, LeastExists
    <3>3. k \in 0..Len(s) /\ ~Has3(k)
      BY <2>1, <3>1
    <3>4. k # 0
      BY <1>5, <3>3
    <3>5. k - 1 \in Nat /\ k - 1 \in 0..Len(s) /\ k - 1 + 1 = k
      BY <1>1, <3>3, <3>4
    <3>6. Has3(k - 1)
      BY <2>1, <3>2, <3>3, <3>5
    <3> QED BY <1>6, <3>3, <3>5, <3>6
  <2> QED BY <2>1, <2>2
<1>8. ASSUME NEW k \in 0..Len(s) PROVE BitsOfFirst(k, s, Bits[f[k]])
  <2>1. Has3(k)
    <3> HIDE DEF Has3
    <3> QED BY <1>7
  <2> QED BY <2>1 DEF BitsOfFirst, BitOf
<1> QED BY <1>3, <1>8 DEF f

\* A right of a class is a bit of the mode, and every bit is one.
ShownRight(s, bits, c, r) == <<c, r>> \in Granted(s) <=> BitOf(c, r) \in bits

Shown(s, bits) ==
  /\ Granted(s) \subseteq Nat \X {"r", "w", "x"}
  /\ bits \subseteq {BitOf(c, r) : c \in Nat, r \in {"r", "w", "x"}}
  /\ \A c \in Nat, r \in {"r", "w", "x"} : ShownRight(s, bits, c, r)

LEMMA ModeRights ==
  ASSUME NEW S, NEW s \in Seq(S), Mode(s)
  PROVE  Shown(s, Bits[Sizes(s, 8)[Len(s)]])
<1> DEFINE n    == Len(s)
           bits == Bits[Sizes(s, 8)[n]]
<1>1. n \in Nat /\ n \in 0..n /\ DOMAIN s = 1..n
  OBVIOUS
<1>2. \A i \in 1..n : Rights[s[i]] \subseteq {"r", "w", "x"}
  BY <1>1, OctalRights DEF Mode, ToSet
<1>3. \A j \in Nat : j \in bits <=>
        \E i \in 1..n : \E r \in Rights[s[i]] : j = BitOf(n - i, r)
  <2>1. BitsOfFirst(n, s, bits)
    BY <1>1, ModeBits
  <2> QED BY <2>1 DEF BitsOfFirst
<1>4. bits \subseteq Nat
  BY <1>1, ModeBits, BitsTyped
<1>5. \A e : e \in Granted(s) <=>
        \E i \in 1..n : \E r \in Rights[s[i]] : e = <<n - i, r>>
  <2>1. Granted(s) = UNION {{<<n - i, r>> : r \in Rights[s[i]]} : i \in 1..n}
    BY <1>1 DEF Granted
  <2> HIDE DEF n
  <2> QED BY <2>1
<1>6. \A i \in 1..n : n - i \in Nat
  BY <1>1
<1> HIDE DEF n, bits
<1>7. ASSUME NEW c \in Nat, NEW r \in {"r", "w", "x"}
      PROVE  <<c, r>> \in Granted(s) <=> BitOf(c, r) \in bits
  <2>1. ASSUME NEW d \in Nat, NEW q \in {"r", "w", "x"}
        PROVE  BitOf(c, r) = BitOf(d, q) <=> c = d /\ r = q
    <3>1. Place(r) \in 0..2 /\ Place(q) \in 0..2 /\ (Place(r) = Place(q) <=> r = q)
      BY DEF Place
    <3> QED BY <3>1 DEF BitOf
  <2>2. BitOf(c, r) \in Nat
    BY DEF BitOf, Place
  <2>3. BitOf(c, r) \in bits <=>
          \E i \in 1..n : \E q \in Rights[s[i]] : c = n - i /\ r = q
    BY <1>2, <1>3, <1>6, <2>1, <2>2
  <2> QED BY <1>5, <2>3
<1>8. ASSUME NEW e \in Granted(s) PROVE e \in Nat \X {"r", "w", "x"}
  <2>1. PICK i \in 1..n : \E r \in Rights[s[i]] : e = <<n - i, r>>
    BY <1>5
  <2>2. PICK r \in Rights[s[i]] : e = <<n - i, r>>
    BY <2>1
  <2>3. r \in {"r", "w", "x"} /\ n - i \in Nat
    BY <1>2, <1>6
  <2> QED BY <2>2, <2>3
<1>9. ASSUME NEW j \in bits
      PROVE  \E c \in Nat, r \in {"r", "w", "x"} : j = BitOf(c, r)
  <2>1. PICK i \in 1..n : \E r \in Rights[s[i]] : j = BitOf(n - i, r)
    BY <1>3, <1>4
  <2>2. PICK r \in Rights[s[i]] : j = BitOf(n - i, r)
    BY <2>1
  <2>3. r \in {"r", "w", "x"} /\ n - i \in Nat
    BY <1>2, <1>6
  <2> QED BY <2>2, <2>3
<1>10. Shown(s, bits)
  <2>1. Granted(s) \subseteq Nat \X {"r", "w", "x"}
    BY <1>8
  <2>2. bits \subseteq {BitOf(c, r) : c \in Nat, r \in {"r", "w", "x"}}
    BY <1>9
  <2>3. \A c \in Nat, r \in {"r", "w", "x"} : ShownRight(s, bits, c, r)
    BY <1>7 DEF ShownRight
  <2> QED BY <2>1, <2>2, <2>3 DEF Shown
<1> QED BY <1>10 DEF n, bits

\* No class is granted more if and only if no other bits are set, however
\* many digits there are.
LEMMA ModesCompared ==
  ASSUME NEW S, NEW s \in Seq(S), NEW t \in Seq(S), Mode(s), Mode(t)
  PROVE  Granted(s) \subseteq Granted(t) <=>
           Bits[Sizes(s, 8)[Len(s)]] \subseteq Bits[Sizes(t, 8)[Len(t)]]
<1> DEFINE m == Bits[Sizes(s, 8)[Len(s)]]
           n == Bits[Sizes(t, 8)[Len(t)]]
<1>1. Shown(s, m) /\ Shown(t, n)
  BY ModeRights
<1> HIDE DEF m, n
<1>2. ASSUME NEW c \in Nat, NEW r \in {"r", "w", "x"}
      PROVE  /\ <<c, r>> \in Granted(s) <=> BitOf(c, r) \in m
             /\ <<c, r>> \in Granted(t) <=> BitOf(c, r) \in n
  <2>1. ShownRight(s, m, c, r) /\ ShownRight(t, n, c, r)
    BY <1>1 DEF Shown
  <2> QED BY <2>1 DEF ShownRight
<1>3. ASSUME Granted(s) \subseteq Granted(t), NEW j \in m PROVE j \in n
  <2>1. PICK c \in Nat, r \in {"r", "w", "x"} : j = BitOf(c, r)
    BY <1>1 DEF Shown
  <2>2. <<c, r>> \in Granted(s)
    BY <1>2, <2>1
  <2> QED BY <1>2, <1>3, <2>1, <2>2
<1>4. ASSUME m \subseteq n, NEW e \in Granted(s) PROVE e \in Granted(t)
  <2>1. PICK c \in Nat, r \in {"r", "w", "x"} : e = <<c, r>>
    BY <1>1 DEF Shown
  <2>2. BitOf(c, r) \in m
    BY <1>2, <2>1
  <2> QED BY <1>2, <1>4, <2>1, <2>2
<1> QED BY <1>3, <1>4 DEF m, n

\* Without a sign, the octal numbers are the modes.
LEMMA ModeIs ==
  ASSUME NEW S, NEW s \in Seq(S), {"+", "-"} \intersect ToSet(s) = {}
  PROVE  Parse(s, 8) = IF Mode(s) THEN {Sizes(s, 8)[Len(s)]} ELSE {}
<1>1. s # <<>> => s[1] \in ToSet(s)
  BY DEF ToSet
<1>2. ~Signed(s)
  BY <1>1 DEF Signed
<1>3. Mode(s) <=> s # <<>> /\ \A k \in DOMAIN s : IsDigit(s[k], 8)
  BY OctalRights DEF Mode, ToSet
<1>4. s # <<>> => s[1] # "-"
  BY <1>1
<1>5. Parse(s, 8) =
        IF s = <<>> \/ \E k \in DOMAIN s : ~IsDigit(s[k], 8) THEN {}
        ELSE {IF s[1] = "-" THEN 0 - Sizes(s, 8)[Len(s)] ELSE Sizes(s, 8)[Len(s)]}
  BY <1>2 DEF Parse
<1> QED BY <1>3, <1>4, <1>5

\* A mode passes if and only if no class is granted what the benchmark does
\* not grant it, for modes of any length.
THEOREM ModesCorrect == Spec => []MoreRestrictive
<1>1. Inv => MoreRestrictive
  <2> SUFFICES ASSUME Inv, asked.op = "bitmask", Known
               PROVE  Passes <=>
                        /\ Mode(asked.flag) /\ Mode(asked.value)
                        /\ Granted(asked.flag) \subseteq Granted(asked.value)
    BY DEF MoreRestrictive
  <2> DEFINE flag == asked.flag
             value == asked.value
             requested == Sizes(flag, 8)[Len(flag)]
             max == Sizes(value, 8)[Len(value)]
  <2>1. /\ flag \in Seq(Symbols) /\ value \in Seq(Symbols)
        /\ {"+", "-"} \intersect (ToSet(flag) \cup ToSet(value)) = {}
    BY ComparisonsAssumption DEF Inv
  <2>2. CompareOp(asked.op, flag, value) = {Masked(flag, value)}
    BY DEF CompareOp
  <2>3. Masked(flag, value) \in BOOLEAN
    BY DEF Masked
  <2>4. Passes <=> Masked(flag, value)
    BY <2>2, <2>3 DEF Inv
  <2> HIDE DEF flag, value
  <2>5. /\ Parse(flag, 8) = IF Mode(flag) THEN {requested} ELSE {}
        /\ Parse(value, 8) = IF Mode(value) THEN {max} ELSE {}
    <3>1. {"+", "-"} \intersect ToSet(flag) = {} /\ {"+", "-"} \intersect ToSet(value) = {}
      BY <2>1
    <3> QED BY <2>1, <3>1, ModeIs
  <2>6. Masked(flag, value) <=>
          Mode(flag) /\ Mode(value) /\ Bits[requested] \subseteq Bits[max]
    BY <2>5 DEF Masked
  <2>7. Mode(flag) /\ Mode(value) =>
          (Granted(flag) \subseteq Granted(value) <=> Bits[requested] \subseteq Bits[max])
    BY <2>1, ModesCompared
  <2> QED BY <2>4, <2>6, <2>7 DEF flag, value
<1> QED BY <1>1, InvHolds, PTL
=============================================================================
