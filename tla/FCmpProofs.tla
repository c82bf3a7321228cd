------------------------------ MODULE FCmpProofs ------------------------------
(***************************************************************************)
(* What convert-fcmp-eq makes of a comparison, for doubles of any width    *)
(* and any threshold: the predicates it chooses for the difference answer  *)
(* as the comparison did, on all pairs but the ones named.  And what it    *)
(* makes of a body: converting the comparisons of the list one after the   *)
(* other replaces each of them, once, and nothing else.                    *)
(***************************************************************************)
EXTENDS FCmp, SequenceTheorems, FiniteSetTheorems, TLAPS

\* A double is a sign and a magnitude.
LEMMA SignAndMagnitude ==
  ASSUME NEW d \in Doubles
  PROVE  /\ d \in Int /\ Magnitude(d) \in 0 .. SignBit - 1
         /\ d < SignBit => Magnitude(d) = d /\ Signed(d) = d
         /\ d >= SignBit => Magnitude(d) = d - SignBit /\ Signed(d) = SignBit - d
  <1>1. SignBit \in Nat \ {0, 1, 2} /\ d \in 0 .. 2 * SignBit - 1
    BY DoubleAssumption DEF Doubles
  <1>2. CASE d < SignBit
    <2>1. d % SignBit = d
      BY <1>1, <1>2
    <2>. QED  BY <1>1, <1>2, <2>1 DEF Magnitude, Signed
  <1>3. CASE d >= SignBit
    <2>1. \A r \in 0 .. SignBit - 1 : (r + SignBit) % SignBit = r
      BY <1>1
    <2>2. d - SignBit \in 0 .. SignBit - 1 /\ (d - SignBit) + SignBit = d
      BY <1>1, <1>3
    <2>3. d % SignBit = d - SignBit
      BY <2>1, <2>2
    <2>. QED  BY <1>1, <1>3, <2>3 DEF Magnitude, Signed
  <1>. QED  BY <1>1, <1>2, <1>3

\* The other sign, the same magnitude.
LEMMA NegationKeepsMagnitude ==
  ASSUME NEW d \in 0 .. SignBit - 1
  PROVE  Negated(d) \in Doubles /\ Magnitude(Negated(d)) = d
  <1>1. SignBit \in Nat \ {0, 1, 2}
    BY DoubleAssumption
  <1>2. d + SignBit \in 0 .. 2 * SignBit - 1
    BY <1>1
  <1>3. (d + SignBit) % (2 * SignBit) = d + SignBit
    <2>. DEFINE m == 2 * SignBit
    <2>1. m \in Nat \ {0} /\ d + SignBit \in 0 .. m - 1
      BY <1>1, <1>2
    <2>2. ASSUME NEW n \in Nat \ {0}, NEW r \in 0 .. n - 1 PROVE r % n = r
      OBVIOUS
    <2>. HIDE DEF m
    <2>3. (d + SignBit) % m = d + SignBit
      BY <2>1, <2>2
    <2>. QED  BY <2>3 DEF m
  <1>4. Negated(d) = d + SignBit /\ Negated(d) \in Doubles
    BY <1>2, <1>3 DEF Negated, Doubles
  <1>. QED  BY <1>1, <1>4, SignAndMagnitude

\* Rounding cuts a magnitude at infinity.
LEMMA RoundedMagnitude ==
  ASSUME NEW n \in Int
  PROVE  LET m == IF n < 0 THEN -n ELSE n
         IN  /\ Rounded(n) \in Doubles
             /\ Magnitude(Rounded(n)) = IF m > Infinity THEN Infinity ELSE m
  <1>. DEFINE m == IF n < 0 THEN -n ELSE n
              c == IF m > Infinity THEN Infinity ELSE m
  <1>1. SignBit \in Nat \ {0, 1, 2} /\ Infinity = SignBit - 2
    BY DoubleAssumption DEF Infinity
  <1>2. c \in 0 .. SignBit - 1 /\ c \in Doubles
    BY <1>1 DEF Doubles
  <1>3. Magnitude(c) = c
    BY <1>1, <1>2, SignAndMagnitude
  <1>4. Rounded(n) = IF n < 0 THEN Negated(c) ELSE c
    BY DEF Rounded
  <1>. HIDE DEF c
  <1>5. Rounded(n) \in Doubles /\ Magnitude(Rounded(n)) = c
    BY <1>2, <1>3, <1>4, NegationKeepsMagnitude
  <1>. QED  BY <1>5 DEF c

Finite(d) == ~IsNaN(d) /\ ~IsInfinite(d)

\* The magnitude of a difference: NaN if an operand is or if the operands are
\* the same infinity, infinity if another operand is, and otherwise the
\* distance of the operands, unless it overflows.
LEMMA DifferenceMagnitude ==
  ASSUME NEW a \in Doubles, NEW b \in Doubles
  PROVE  LET n == Signed(a) - Signed(b)
             m == IF n < 0 THEN -n ELSE n
         IN  /\ FSub(a, b) \in Doubles
             /\ (IsNaN(a) \/ IsNaN(b) \/ (IsInfinite(a) /\ a = b)) => Magnitude(FSub(a, b)) = NaN
             /\ (~IsNaN(a) /\ ~IsNaN(b) /\ ~(IsInfinite(a) /\ a = b) /\ (IsInfinite(a) \/ IsInfinite(b)))
                  => Magnitude(FSub(a, b)) = Infinity
             /\ (Finite(a) /\ Finite(b)) => Magnitude(FSub(a, b)) = IF m > Infinity THEN Infinity ELSE m
  <1>. DEFINE n == Signed(a) - Signed(b)
              m == IF n < 0 THEN -n ELSE n
  <1>1. SignBit \in Nat \ {0, 1, 2} /\ Infinity = SignBit - 2 /\ NaN = SignBit - 1
    BY DoubleAssumption DEF Infinity, NaN
  <1>2. Signed(a) \in Int /\ Signed(b) \in Int /\ n \in Int
    BY <1>1, SignAndMagnitude DEF Doubles
  <1>3. NaN \in Doubles /\ Magnitude(NaN) = NaN /\ Infinity \in Doubles /\ Magnitude(Infinity) = Infinity
    <2>1. NaN \in Doubles /\ Infinity \in Doubles /\ NaN < SignBit /\ Infinity < SignBit
      BY <1>1 DEF Doubles
    <2>. QED  BY <2>1, SignAndMagnitude
  <1>4. CASE IsNaN(a) \/ IsNaN(b) \/ (IsInfinite(a) /\ a = b)
    <2>1. FSub(a, b) = NaN
      BY <1>4 DEF FSub
    <2>. QED  BY <1>3, <1>4, <2>1 DEF Finite
  <1>5. CASE ~(IsNaN(a) \/ IsNaN(b) \/ (IsInfinite(a) /\ a = b)) /\ IsInfinite(a)
    <2>1. FSub(a, b) = a
      BY <1>5 DEF FSub
    <2>. QED  BY <1>5, <2>1 DEF Finite, IsInfinite
  <1>6. CASE ~(IsNaN(a) \/ IsNaN(b)) /\ ~IsInfinite(a) /\ IsInfinite(b)
    <2>1. FSub(a, b) = Negated(b)
      BY <1>6 DEF FSub
    <2>2. Negated(b) \in Doubles /\ Magnitude(Negated(b)) = Infinity
      <3>1. b = Infinity \/ b = Infinity + SignBit
        BY <1>1, <1>6, SignAndMagnitude DEF IsInfinite
      <3>2. CASE b = Infinity
        BY <1>1, <3>2, NegationKeepsMagnitude
      <3>3. CASE b = Infinity + SignBit
        <4>1. ASSUME NEW k \in Nat \ {0}, NEW r \in 0 .. k - 1 PROVE (r + k) % k = r
          OBVIOUS
        <4>2. Negated(b) = (Infinity + 2 * SignBit) % (2 * SignBit)
          BY <1>1, <3>3 DEF Negated
        <4>3. 2 * SignBit \in Nat \ {0} /\ Infinity \in 0 .. 2 * SignBit - 1
          BY <1>1
        <4>4. Negated(b) = Infinity
          <5>. DEFINE k == 2 * SignBit
          <5>. HIDE DEF k
          <5>1. Negated(b) = (Infinity + k) % k /\ k \in Nat \ {0} /\ Infinity \in 0 .. k - 1
            BY <4>2, <4>3 DEF k
          <5>. QED  BY <4>1, <5>1
        <4>. QED  BY <1>3, <4>4
      <3>. QED  BY <3>1, <3>2, <3>3
    <2>. QED  BY <1>6, <2>1, <2>2 DEF Finite
  <1>7. CASE Finite(a) /\ Finite(b)
    <2>1. CASE a = SignBit /\ b = 0
      <3>1. FSub(a, b) = SignBit
        BY <1>7, <2>1 DEF FSub, Finite
      <3>2. SignBit \in Doubles /\ 0 \in Doubles /\ SignBit >= SignBit /\ 0 < SignBit
        BY <1>1 DEF Doubles
      <3>3. Magnitude(SignBit) = 0 /\ Signed(SignBit) = 0 /\ Signed(0) = 0
        BY <1>1, <3>2, SignAndMagnitude
      <3>4. n = 0 /\ m = 0
        BY <2>1, <3>3
      <3>. QED  BY <1>1, <1>7, <2>1, <3>1, <3>2, <3>3, <3>4 DEF Finite
    <2>2. CASE ~(a = SignBit /\ b = 0)
      <3>1. FSub(a, b) = Rounded(n)
        BY <1>7, <2>2 DEF FSub, Finite
      <3>2. Rounded(n) \in Doubles /\ Magnitude(Rounded(n)) = IF m > Infinity THEN Infinity ELSE m
        BY <1>2, RoundedMagnitude
      <3>. QED  BY <1>7, <3>1, <3>2 DEF Finite
    <2>. QED  BY <2>1, <2>2
  <1>. QED  BY <1>4, <1>5, <1>6, <1>7 DEF Finite

\* How a magnitude compares with the threshold.
LEMMA AgainstEpsilon ==
  ASSUME NEW x \in 0 .. SignBit - 1
  PROVE  Relation(x, Epsilon) = IF x = NaN THEN "U" ELSE IF x < Epsilon THEN "L"
                                ELSE IF x > Epsilon THEN "G" ELSE "E"
  <1>1. /\ SignBit \in Nat \ {0, 1, 2} /\ NaN = SignBit - 1
        /\ Epsilon \in 1 .. SignBit - 3
    BY DoubleAssumption DEF NaN
  <1>2. x \in Doubles /\ Epsilon \in Doubles /\ x < SignBit /\ Epsilon < SignBit
    BY <1>1 DEF Doubles
  <1>3. /\ Magnitude(x) = x /\ Signed(x) = x
        /\ Magnitude(Epsilon) = Epsilon /\ Signed(Epsilon) = Epsilon
    BY <1>2, SignAndMagnitude
  <1>. QED  BY <1>1, <1>3 DEF Relation, IsNaN

\* Which relations a predicate and its replacement are true of.
LEMMA PredicateTable ==
  ASSUME NEW pred \in Equalities
  PROVE  /\ "U" \in CmpPred[pred] <=> "U" \in pred
         /\ "L" \in CmpPred[pred] <=> "E" \in pred
         /\ "G" \in CmpPred[pred] <=> "E" \notin pred
         /\ "E" \in CmpPred[pred] <=> "E" \notin pred
         /\ "L" \in pred <=> "E" \notin pred
         /\ "G" \in pred <=> "E" \notin pred
         /\ pred \in {OEQ, UNE} <=> ("E" \in pred <=> "U" \notin pred)
  <1>1. /\ "E" \in OEQ /\ "U" \notin OEQ /\ "E" \in UEQ /\ "U" \in UEQ
        /\ "E" \notin ONE /\ "U" \notin ONE /\ "E" \notin UNE /\ "U" \in UNE
    BY DEF OEQ, UEQ, ONE, UNE
  <1>2. OEQ # UEQ /\ OEQ # ONE /\ OEQ # UNE /\ UEQ # ONE /\ UEQ # UNE /\ ONE # UNE
    BY <1>1
  <1>3. CmpPred[OEQ] = OLT /\ CmpPred[UEQ] = ULT /\ CmpPred[ONE] = OGE /\ CmpPred[UNE] = UGE
    BY <1>2 DEF CmpPred, Equalities
  <1>4. CASE pred = OEQ
    BY <1>1, <1>3, <1>4 DEF OEQ, OLT
  <1>5. CASE pred = UEQ
    BY <1>1, <1>2, <1>3, <1>5 DEF UEQ, ULT
  <1>6. CASE pred = ONE
    BY <1>1, <1>2, <1>3, <1>6 DEF ONE, OGE
  <1>7. CASE pred = UNE
    BY <1>1, <1>3, <1>7 DEF UNE, UGE
  <1>. QED  BY <1>4, <1>5, <1>6, <1>7 DEF Equalities

\* The converted comparison of a and b.
Answer(pred, a, b) == Relation(a, b) \in pred
ConvertedAnswer(pred, a, b) == Relation(FSub(a, b) % SignBit, Epsilon) \in CmpPred[pred]

\* The comparison of the absolute difference with epsilon answers as the
\* equality it stands for, unless the operands are the same infinity and the
\* predicate tells NaN from equal, or they are distinct, finite and closer
\* than epsilon; then it gives the opposite answer.
THEOREM DifferenceDecides ==
  ASSUME NEW pred \in Equalities, NEW a \in Doubles, NEW b \in Doubles
  PROVE  (ConvertedAnswer(pred, a, b) <=> Answer(pred, a, b)) <=> ~Confused(pred, a, b)
  <1>. DEFINE x == Magnitude(FSub(a, b))
              n == Signed(a) - Signed(b)
              m == IF n < 0 THEN -n ELSE n
  <1>1. /\ SignBit \in Nat \ {0, 1, 2} /\ Infinity = SignBit - 2 /\ NaN = SignBit - 1
        /\ Epsilon \in 1 .. SignBit - 3
    BY DoubleAssumption DEF Infinity, NaN
  <1>2. Signed(a) \in Int /\ Signed(b) \in Int
    BY <1>1, SignAndMagnitude DEF Doubles
  <1>3. x \in 0 .. SignBit - 1
    <2>1. FSub(a, b) \in Doubles
      BY DifferenceMagnitude
    <2>. QED  BY <2>1, SignAndMagnitude
  <1>4. ConvertedAnswer(pred, a, b) <=>
          (IF x = NaN THEN "U" ELSE IF x < Epsilon THEN "L" ELSE IF x > Epsilon THEN "G" ELSE "E")
            \in CmpPred[pred]
    <2>1. FSub(a, b) % SignBit = x
      BY DEF Magnitude
    <2>2. ConvertedAnswer(pred, a, b) <=> Relation(x, Epsilon) \in CmpPred[pred]
      BY <2>1 DEF ConvertedAnswer
    <2>. HIDE DEF x
    <2>. QED  BY <1>3, <2>2, AgainstEpsilon
  <1>5. CASE IsNaN(a) \/ IsNaN(b)
    <2>1. x = NaN /\ Relation(a, b) = "U"
      BY <1>5, DifferenceMagnitude DEF Relation
    <2>2. ~Confused(pred, a, b)
      <3>1. IsInfinite(a) /\ a = b => ~IsNaN(a) /\ ~IsNaN(b)
        BY <1>1 DEF IsInfinite, IsNaN
      <3>. QED  BY <1>5, <3>1 DEF Confused
    <2>. QED  BY <1>4, <2>1, <2>2, PredicateTable DEF Answer
  <1>6. CASE IsInfinite(a) /\ a = b
    <2>1. x = NaN
      BY <1>6, DifferenceMagnitude
    <2>2. Relation(a, b) = "E"
      BY <1>1, <1>2, <1>6 DEF Relation, IsInfinite, IsNaN
    <2>3. Confused(pred, a, b) <=> pred \in {OEQ, UNE}
      BY <1>6 DEF Confused
    <2>. QED  BY <1>4, <2>1, <2>2, <2>3, PredicateTable DEF Answer
  <1>7. CASE ~IsNaN(a) /\ ~IsNaN(b) /\ ~(IsInfinite(a) /\ a = b) /\ (IsInfinite(a) \/ IsInfinite(b))
    <2>1. x = Infinity
      BY <1>7, DifferenceMagnitude
    <2>2. Signed(a) # Signed(b)
      <3>1. /\ Magnitude(a) \in 0 .. SignBit - 1 /\ Magnitude(b) \in 0 .. SignBit - 1
            /\ a < SignBit => Magnitude(a) = a /\ Signed(a) = a
            /\ a >= SignBit => Magnitude(a) = a - SignBit /\ Signed(a) = SignBit - a
            /\ b < SignBit => Magnitude(b) = b /\ Signed(b) = b
            /\ b >= SignBit => Magnitude(b) = b - SignBit /\ Signed(b) = SignBit - b
            /\ a \in Int /\ b \in Int
        BY SignAndMagnitude
      <3>2. CASE IsInfinite(a) /\ a # b
        BY <1>1, <3>1, <3>2 DEF IsInfinite
      <3>3. CASE ~IsInfinite(a) /\ IsInfinite(b)
        BY <1>1, <3>1, <3>3 DEF IsInfinite
      <3>. QED  BY <1>7, <3>2, <3>3
    <2>3. Relation(a, b) \in {"L", "G"}
      BY <1>2, <1>7, <2>2 DEF Relation
    <2>4. ~Confused(pred, a, b)
      BY <1>7 DEF Confused
    <2>5. x # NaN /\ ~(x < Epsilon) /\ x > Epsilon
      BY <1>1, <2>1
    <2>. QED  BY <1>4, <2>3, <2>4, <2>5, PredicateTable DEF Answer
  <1>8. CASE Finite(a) /\ Finite(b)
    <2>1. x = IF m > Infinity THEN Infinity ELSE m
      BY <1>8, DifferenceMagnitude
    <2>2. n \in Int /\ (m = 0 <=> Signed(a) = Signed(b)) /\ m >= 0
      BY <1>2
    <2>3. Confused(pred, a, b) <=> Signed(a) # Signed(b) /\ x < Epsilon
      BY <1>8 DEF Confused, Finite
    <2>4. Relation(a, b) = IF Signed(a) < Signed(b) THEN "L" ELSE IF Signed(a) > Signed(b) THEN "G" ELSE "E"
      BY <1>8 DEF Relation, Finite
    <2>5. x # NaN
      BY <1>1, <2>1, <2>2
    <2>6. CASE Signed(a) = Signed(b)
      <3>1. x = 0 /\ x < Epsilon /\ Relation(a, b) = "E"
        BY <1>1, <1>2, <2>1, <2>2, <2>4, <2>6
      <3>. QED  BY <1>4, <2>3, <2>5, <2>6, <3>1, PredicateTable DEF Answer
    <2>7. CASE Signed(a) # Signed(b)
      <3>1. Relation(a, b) \in {"L", "G"}
        BY <1>2, <2>4, <2>7
      <3>. QED  BY <1>4, <2>3, <2>5, <2>7, <3>1, PredicateTable DEF Answer
    <2>. QED  BY <2>6, <2>7
  <1>. QED  BY <1>5, <1>6, <1>7, <1>8 DEF Finite

-----------------------------------------------------------------------------
(* Lists: what a fold, a flat map and a count make of them.                *)

\* Induction over the natural numbers, whose order is well founded.
LEMMA Induction ==
  ASSUME NEW S, 0 \in S, \A n \in Nat : n \in S => n + 1 \in S
  PROVE  Nat \subseteq S
  <1>. SUFFICES ASSUME Nat \ S # {} PROVE FALSE
    OBVIOUS
  <1>1. PICK n \in Nat \ S : \A m \in Nat \ S : <<m, n>> \notin OpToRel(<, Nat)
    BY NatLessThanWellFounded, WFMin
  <1>2. n # 0 /\ n - 1 \in Nat
    OBVIOUS
  <1>3. n - 1 \notin S
    <2>1. n - 1 \in S => (n - 1) + 1 \in S
      BY <1>2
    <2>. QED  BY <2>1
  <1>4. <<n - 1, n>> \in OpToRel(<, Nat)
    BY <1>2 DEF OpToRel
  <1>. QED  BY <1>1, <1>2, <1>3, <1>4

\* Lists run together.
Associates(a, b, c) == (a \o b) \o c = a \o (b \o c)

\* It does not matter which two of three lists are run together first.
LEMMA RunTogether ==
  ASSUME NEW S, NEW a \in Seq(S), NEW b \in Seq(S), NEW c \in Seq(S)
  PROVE  Associates(a, b, c)
  BY ConcatAssociative DEF Associates

\* What is in one of two lists is in both together, and nothing else.
LEMMA RangeRunTogether ==
  ASSUME NEW S, NEW a \in Seq(S), NEW b \in Seq(S)
  PROVE  \A x : x \in Range(a \o b) <=> x \in Range(a) \/ x \in Range(b)
  <1>. DEFINE c == a \o b
  <1>1. /\ DOMAIN a = 1 .. Len(a) /\ DOMAIN b = 1 .. Len(b) /\ DOMAIN c = 1 .. Len(a) + Len(b)
        /\ Len(a) \in Nat /\ Len(b) \in Nat
        /\ \A k \in DOMAIN c : c[k] = IF k <= Len(a) THEN a[k] ELSE b[k - Len(a)]
    BY ConcatProperties
  <1>. HIDE DEF c
  <1>2. \A k \in DOMAIN a : k \in DOMAIN c /\ c[k] = a[k]
    BY <1>1
  <1>3. \A k \in DOMAIN b : k + Len(a) \in DOMAIN c /\ c[k + Len(a)] = b[k]
    BY <1>1
  <1>4. ASSUME NEW k \in DOMAIN c
        PROVE  (k \in DOMAIN a /\ c[k] = a[k]) \/ (k - Len(a) \in DOMAIN b /\ c[k] = b[k - Len(a)])
    <2>1. CASE k <= Len(a)
      BY <1>1, <2>1
    <2>2. CASE ~(k <= Len(a))
      BY <1>1, <2>2
    <2>. QED  BY <2>1, <2>2
  <1>5. ASSUME NEW x, x \in Range(c) PROVE x \in Range(a) \/ x \in Range(b)
    BY <1>4, <1>5 DEF Range
  <1>6. ASSUME NEW x, x \in Range(a) PROVE x \in Range(c)
    BY <1>2, <1>6 DEF Range
  <1>7. ASSUME NEW x, x \in Range(b) PROVE x \in Range(c)
    BY <1>3, <1>7 DEF Range
  <1>8. \A x : x \in Range(c) <=> x \in Range(a) \/ x \in Range(b)
    BY <1>5, <1>6, <1>7
  <1>. QED  BY <1>8 DEF c

\* A list that is not empty is a shorter one and its last element.
LEMMA LastApart ==
  ASSUME NEW S, NEW s \in Seq(S), NEW n \in Nat, Len(s) = n + 1
  PROVE  \E t \in Seq(S) : \E x \in S : s = Append(t, x) /\ Len(t) = n
  <1>. DEFINE t == [k \in 1 .. n |-> s[k]]
  <1>1. t \in Seq(S) /\ Len(t) = n /\ s[n + 1] \in S
    OBVIOUS
  <1>2. s = Append(t, s[n + 1])
    OBVIOUS
  <1>. QED  BY <1>1, <1>2

\* c holds the lists of ss run together, up to each of them.
IsFlattening(c, ss) ==
  /\ DOMAIN c = 0 .. Len(ss)
  /\ c[0] = <<>>
  /\ \A n \in 1 .. Len(ss) : c[n] = c[n - 1] \o ss[n]

\* Lists can be run together one after the other.
LEMMA FlatteningExists ==
  ASSUME NEW S
  PROVE  \A ss \in Seq(Seq(S)) : \E c \in [0 .. Len(ss) -> Seq(S)] : IsFlattening(c, ss)
  <1>. DEFINE Lists(n) == {ss \in Seq(Seq(S)) : Len(ss) = n}
              D == {n \in Nat : \A ss \in Lists(n) : \E c \in [0 .. n -> Seq(S)] : IsFlattening(c, ss)}
  <1>1. 0 \in D
    <2>. SUFFICES ASSUME NEW ss \in Lists(0)
                  PROVE  \E c \in [0 .. 0 -> Seq(S)] : IsFlattening(c, ss)
      OBVIOUS
    <2>. DEFINE c == [n \in 0 .. 0 |-> <<>>]
    <2>1. c \in [0 .. 0 -> Seq(S)] /\ IsFlattening(c, ss)
      BY DEF IsFlattening
    <2>. QED  BY <2>1
  <1>2. ASSUME NEW n \in Nat, n \in D PROVE n + 1 \in D
    <2>. SUFFICES ASSUME NEW ss \in Lists(n + 1)
                  PROVE  \E c \in [0 .. n + 1 -> Seq(S)] : IsFlattening(c, ss)
      OBVIOUS
    <2>1. PICK tt \in Seq(Seq(S)) : \E x \in Seq(S) : ss = Append(tt, x) /\ Len(tt) = n
      BY LastApart
    <2>2. PICK x \in Seq(S) : ss = Append(tt, x) /\ Len(tt) = n
      BY <2>1
    <2>3. PICK c \in [0 .. n -> Seq(S)] : IsFlattening(c, tt)
      BY <1>2, <2>2
    <2>. DEFINE d == [m \in 0 .. n + 1 |-> IF m = n + 1 THEN c[n] \o x ELSE c[m]]
    <2>4. d \in [0 .. n + 1 -> Seq(S)] /\ d[0] = c[0]
      OBVIOUS
    <2>5. ASSUME NEW m \in 1 .. n + 1 PROVE d[m] = d[m - 1] \o ss[m]
      <3>1. CASE m = n + 1
        <4>1. d[m] = c[n] \o x /\ d[m - 1] = c[n]
          BY <3>1
        <4>2. ss[m] = x
          BY <2>2, <3>1
        <4>. QED  BY <4>1, <4>2
      <3>2. CASE m \in 1 .. n
        <4>1. c[m] = c[m - 1] \o tt[m]
          BY <2>2, <2>3, <3>2 DEF IsFlattening
        <4>3. ss[m] = tt[m]
          BY <2>2, <3>2
        <4>2. d[m] = c[m] /\ d[m - 1] = c[m - 1]
          BY <3>2
        <4>. QED  BY <4>1, <4>2, <4>3
      <3>3. m = n + 1 \/ m \in 1 .. n
        OBVIOUS
      <3>. HIDE DEF d
      <3>. QED  BY <3>1, <3>2, <3>3
    <2>. HIDE DEF d
    <2>6. Len(ss) = n + 1 /\ DOMAIN d = 0 .. n + 1 /\ d[0] = <<>>
      BY <2>2, <2>3, <2>4 DEF IsFlattening
    <2>7. IsFlattening(d, ss)
      BY <2>5, <2>6, Zenon DEF IsFlattening
    <2>. QED  BY <2>4, <2>7
  <1>. HIDE DEF D
  <1>3. Nat \subseteq D
    BY <1>1, <1>2, Induction
  <1>. QED  BY <1>3 DEF D

\* There is one way to do so.
LEMMA FlatteningIsOne ==
  ASSUME NEW S, NEW ss \in Seq(Seq(S)), NEW c, IsFlattening(c, ss), NEW d, IsFlattening(d, ss)
  PROVE  \A n \in 0 .. Len(ss) : c[n] = d[n]
  <1>. DEFINE D == {n \in Nat : n <= Len(ss) => c[n] = d[n]}
  <1>1. 0 \in D
    BY DEF IsFlattening
  <1>2. ASSUME NEW n \in Nat, n \in D PROVE n + 1 \in D
    <2>. SUFFICES ASSUME n + 1 <= Len(ss) PROVE c[n + 1] = d[n + 1]
      OBVIOUS
    <2>1. n + 1 \in 1 .. Len(ss) /\ (n + 1) - 1 = n
      OBVIOUS
    <2>2. c[n + 1] = c[n] \o ss[n + 1] /\ d[n + 1] = d[n] \o ss[n + 1]
      BY <2>1 DEF IsFlattening
    <2>3. c[n] = d[n]
      BY <1>2
    <2>. QED  BY <2>2, <2>3
  <1>. HIDE DEF D
  <1>3. Nat \subseteq D
    BY <1>1, <1>2, Induction
  <1>. QED  BY <1>3 DEF D

\* The recursive definition ends where the flattening does.
LEMMA FlattenIsLast ==
  ASSUME NEW S, NEW ss \in Seq(Seq(S)), NEW c, IsFlattening(c, ss)
  PROVE  FlattenSeq(ss) = c[Len(ss)]
  <1>1. CASE Len(ss) = 0
    BY <1>1 DEF FlattenSeq, IsFlattening
  <1>2. CASE Len(ss) # 0
    <2>. DEFINE R(e) == e = [i \in 1 .. Len(ss) |-> IF i = 1 THEN ss[i] ELSE e[i - 1] \o ss[i]]
                f == CHOOSE e : R(e)
                g == [i \in 1 .. Len(ss) |-> c[i]]
    <2>1. FlattenSeq(ss) = f[Len(ss)]
      BY <1>2 DEF FlattenSeq
    <2>2. c[1] = ss[1]
      <3>1. ss[1] \in Seq(S) /\ 1 \in 1 .. Len(ss)
        BY <1>2
      <3>. QED  BY <3>1 DEF IsFlattening
    <2>3. R(g)
      <3>1. ASSUME NEW i \in 1 .. Len(ss) PROVE g[i] = IF i = 1 THEN ss[i] ELSE g[i - 1] \o ss[i]
        <4>1. CASE i = 1
          BY <2>2, <4>1
        <4>2. CASE i # 1
          <5>1. g[i] = c[i] /\ g[i - 1] = c[i - 1]
            BY <4>2
          <5>2. c[i] = c[i - 1] \o ss[i]
            BY DEF IsFlattening
          <5>. QED  BY <4>2, <5>1, <5>2
        <4>. QED  BY <4>1, <4>2
      <3>. QED  BY <3>1
    <2>4. R(f)
      BY <2>3
    <2>. HIDE DEF f
    <2>. DEFINE d == [n \in 0 .. Len(ss) |-> IF n = 0 THEN <<>> ELSE f[n]]
    <2>5. IsFlattening(d, ss)
      <3>1. ASSUME NEW n \in 1 .. Len(ss) PROVE d[n] = d[n - 1] \o ss[n]
        <4>1. f[n] = IF n = 1 THEN ss[n] ELSE f[n - 1] \o ss[n]
          BY <2>4
        <4>2. ss[n] \in Seq(S)
          OBVIOUS
        <4>3. d[n] = f[n] /\ d[n - 1] = IF n = 1 THEN <<>> ELSE f[n - 1]
          OBVIOUS
        <4>4. <<>> \o ss[n] = ss[n]
          BY <4>2, ConcatEmptySeq
        <4>. QED  BY <4>1, <4>3, <4>4
      <3>2. DOMAIN d = 0 .. Len(ss) /\ d[0] = <<>>
        OBVIOUS
      <3>. HIDE DEF d
      <3>. QED  BY <3>1, <3>2 DEF IsFlattening
    <2>6. Len(ss) \in 1 .. Len(ss) /\ Len(ss) \in 0 .. Len(ss)
      BY <1>2
    <2>7. c[Len(ss)] = d[Len(ss)]
      BY <2>5, <2>6, FlatteningIsOne
    <2>. QED  BY <2>1, <2>6, <2>7
  <1>. QED  BY <1>1, <1>2

\* Lists run together, from the left.
LEMMA FlattenType ==
  ASSUME NEW S, NEW ss \in Seq(Seq(S))
  PROVE  FlattenSeq(ss) \in Seq(S)
  <1>1. PICK c \in [0 .. Len(ss) -> Seq(S)] : IsFlattening(c, ss)
    BY FlatteningExists
  <1>2. FlattenSeq(ss) = c[Len(ss)]
    BY <1>1, FlattenIsLast
  <1>. QED  BY <1>2

\* No lists run together are empty.
LEMMA FlattenEmpty == FlattenSeq(<<>>) = <<>>
  BY DEF FlattenSeq

\* One list more comes behind the others.
LEMMA FlattenAppend ==
  ASSUME NEW S, NEW ss \in Seq(Seq(S)), NEW s \in Seq(S)
  PROVE  FlattenSeq(Append(ss, s)) = FlattenSeq(ss) \o s
  <1>. DEFINE tt == Append(ss, s)
  <1>1. tt \in Seq(Seq(S)) /\ Len(tt) = Len(ss) + 1 /\ tt[Len(tt)] = s
    OBVIOUS
  <1>2. PICK c \in [0 .. Len(tt) -> Seq(S)] : IsFlattening(c, tt)
    BY <1>1, FlatteningExists
  <1>. DEFINE d == [n \in 0 .. Len(ss) |-> c[n]]
  <1>3. IsFlattening(d, ss)
    <2>1. \A n \in 1 .. Len(ss) : tt[n] = ss[n]
      OBVIOUS
    <2>. HIDE DEF tt
    <2>2. Len(ss) \in Nat /\ \A n \in 1 .. Len(ss) : d[n] = c[n] /\ d[n - 1] = c[n - 1]
      OBVIOUS
    <2>3. ASSUME NEW n \in 1 .. Len(ss) PROVE c[n] = c[n - 1] \o ss[n]
      <3>1. n \in 1 .. Len(tt)
        BY <1>1
      <3>2. c[n] = c[n - 1] \o tt[n]
        BY <1>2, <3>1 DEF IsFlattening
      <3>. QED  BY <2>1, <3>2
    <2>4. d[0] = <<>>
      BY <1>2, <2>2 DEF IsFlattening
    <2>. QED  BY <2>2, <2>3, <2>4 DEF IsFlattening
  <1>4. FlattenSeq(ss) = c[Len(ss)]
    BY <1>3, FlattenIsLast
  <1>5. FlattenSeq(tt) = c[Len(tt)]
    BY <1>1, <1>2, FlattenIsLast
  <1>6. c[Len(tt)] = c[Len(ss)] \o s
    <2>. HIDE DEF tt
    <2>1. Len(tt) \in 1 .. Len(tt) /\ Len(tt) - 1 = Len(ss)
      BY <1>1
    <2>. QED  BY <1>1, <1>2, <2>1 DEF IsFlattening
  <1>. QED  BY <1>4, <1>5, <1>6

\* Lists of lists may be run together before or after they are flattened.
LEMMA FlattenConcat ==
  ASSUME NEW S, NEW ss \in Seq(Seq(S))
  PROVE  \A tt \in Seq(Seq(S)) : FlattenSeq(ss \o tt) = FlattenSeq(ss) \o FlattenSeq(tt)
  <1>. DEFINE D == {n \in Nat : \A tt \in Seq(Seq(S)) : Len(tt) = n =>
                      FlattenSeq(ss \o tt) = FlattenSeq(ss) \o FlattenSeq(tt)}
  <1>1. 0 \in D
    <2>1. ASSUME NEW tt \in Seq(Seq(S)), Len(tt) = 0
          PROVE  FlattenSeq(ss \o tt) = FlattenSeq(ss) \o FlattenSeq(tt)
      <3>1. tt = <<>> /\ ss \o tt = ss /\ FlattenSeq(ss) \in Seq(S)
        BY <2>1, FlattenType
      <3>. QED  BY <3>1, FlattenEmpty
    <2>. QED  BY <2>1
  <1>2. ASSUME NEW n \in Nat, n \in D PROVE n + 1 \in D
    <2>. SUFFICES ASSUME NEW tt \in Seq(Seq(S)), Len(tt) = n + 1
                  PROVE  FlattenSeq(ss \o tt) = FlattenSeq(ss) \o FlattenSeq(tt)
      OBVIOUS
    <2>1. PICK uu \in Seq(Seq(S)), x \in Seq(S) : tt = Append(uu, x) /\ Len(uu) = n
      BY LastApart
    <2>2. ss \o tt = Append(ss \o uu, x) /\ ss \o uu \in Seq(Seq(S))
      BY <2>1
    <2>3. FlattenSeq(ss \o tt) = FlattenSeq(ss \o uu) \o x
      BY <2>2, FlattenAppend
    <2>4. FlattenSeq(ss \o uu) = FlattenSeq(ss) \o FlattenSeq(uu)
      BY <1>2, <2>1
    <2>5. FlattenSeq(tt) = FlattenSeq(uu) \o x
      BY <2>1, FlattenAppend
    <2>6. FlattenSeq(ss) \in Seq(S) /\ FlattenSeq(uu) \in Seq(S)
      BY FlattenType
    <2>7. (FlattenSeq(ss) \o FlattenSeq(uu)) \o x = FlattenSeq(ss) \o (FlattenSeq(uu) \o x)
      <3>1. Associates(FlattenSeq(ss), FlattenSeq(uu), x)
        BY <2>6, RunTogether, Zenon
      <3>. QED  BY <3>1, Zenon DEF Associates
    <2>. QED  BY <2>3, <2>4, <2>5, <2>7
  <1>. HIDE DEF D
  <1>3. Nat \subseteq D
    BY <1>1, <1>2, Induction
  <1>. QED  BY <1>3 DEF D


\* Induction over lists.
LEMMA ListInduction ==
  ASSUME NEW S, NEW D, <<>> \in D, \A s \in Seq(S) : \A x \in S : s \in D => Append(s, x) \in D
  PROVE  Seq(S) \subseteq D
  <1>. DEFINE N == {n \in Nat : \A s \in Seq(S) : Len(s) = n => s \in D}
  <1>1. 0 \in N
    OBVIOUS
  <1>2. ASSUME NEW n \in Nat, n \in N PROVE n + 1 \in N
    <2>. SUFFICES ASSUME NEW s \in Seq(S), Len(s) = n + 1 PROVE s \in D
      OBVIOUS
    <2>1. PICK t \in Seq(S), x \in S : s = Append(t, x) /\ Len(t) = n
      BY LastApart
    <2>. QED  BY <1>2, <2>1
  <1>. HIDE DEF N
  <1>3. Nat \subseteq N
    BY <1>1, <1>2, Induction
  <1>. QED  BY <1>3 DEF N

\* What a list of lists holds is what its lists hold.
LEMMA FlattenRange ==
  ASSUME NEW S, NEW ss \in Seq(Seq(S))
  PROVE  \A x : x \in Range(FlattenSeq(ss)) <=> \E n \in DOMAIN ss : x \in Range(ss[n])
  <1>. DEFINE Holds(tt) == \A x : x \in Range(FlattenSeq(tt)) <=> \E n \in DOMAIN tt : x \in Range(tt[n])
              D == {tt \in Seq(Seq(S)) : Holds(tt)}
  <1>1. <<>> \in D
    BY FlattenEmpty DEF Range
  <1>2. ASSUME NEW tt \in Seq(Seq(S)), NEW s \in Seq(S), tt \in D PROVE Append(tt, s) \in D
    <2>. SUFFICES Holds(Append(tt, s))
      <3>1. Append(tt, s) \in Seq(Seq(S))
        OBVIOUS
      <3>. HIDE DEF Holds
      <3>. QED  BY <3>1
    <2>. DEFINE f == FlattenSeq(tt)
    <2>1. f \in Seq(S) /\ FlattenSeq(Append(tt, s)) = f \o s
      BY FlattenType, FlattenAppend
    <2>. HIDE DEF f
    <2>2. \A x : x \in Range(f \o s) <=> x \in Range(f) \/ x \in Range(s)
      BY <2>1, RangeRunTogether
    <2>3. \A x : x \in Range(f) <=> \E n \in DOMAIN tt : x \in Range(tt[n])
      BY <1>2 DEF f
    <2>4. /\ DOMAIN Append(tt, s) = DOMAIN tt \cup {Len(tt) + 1}
          /\ Append(tt, s)[Len(tt) + 1] = s
          /\ \A n \in DOMAIN tt : Append(tt, s)[n] = tt[n]
      OBVIOUS
    <2>. HIDE DEF D
    <2>. QED  BY <2>1, <2>2, <2>3, <2>4
  <1>. HIDE DEF D
  <1>3. Seq(Seq(S)) \subseteq D
    BY <1>1, <1>2, ListInduction
  <1>. QED  BY <1>3 DEF D
-----------------------------------------------------------------------------
(* A list with a list put for each of its elements.                        *)

FlatMap(M, s) == FlattenSeq([k \in DOMAIN s |-> M[s[k]]])

\* A function applied to each element of a list gives a list.
LEMMA MappedList ==
  ASSUME NEW S, NEW T, NEW M \in [S -> T], NEW s \in Seq(S)
  PROVE  /\ [k \in DOMAIN s |-> M[s[k]]] \in Seq(T)
         /\ Len([k \in DOMAIN s |-> M[s[k]]]) = Len(s)
  OBVIOUS

\* A flat map is a list of what the function puts in its lists.
LEMMA FlatMapType ==
  ASSUME NEW S, NEW T, NEW M \in [S -> Seq(T)], NEW s \in Seq(S)
  PROVE  FlatMap(M, s) \in Seq(T)
  <1>1. [k \in DOMAIN s |-> M[s[k]]] \in Seq(Seq(T))
    BY MappedList
  <1>. QED  BY <1>1, FlattenType DEF FlatMap

\* The flat map of nothing is nothing.
LEMMA FlatMapEmpty ==
  ASSUME NEW M
  PROVE  FlatMap(M, <<>>) = <<>>
  <1>1. [k \in DOMAIN <<>> |-> M[<<>>[k]]] = <<>>
    OBVIOUS
  <1>. QED  BY <1>1, FlattenEmpty DEF FlatMap

\* One element more adds its list behind the others.
LEMMA FlatMapAppend ==
  ASSUME NEW S, NEW T, NEW M \in [S -> Seq(T)], NEW s \in Seq(S), NEW x \in S
  PROVE  FlatMap(M, Append(s, x)) = FlatMap(M, s) \o M[x]
  <1>. DEFINE m == [k \in DOMAIN s |-> M[s[k]]]
              t == Append(s, x)
              n == [k \in DOMAIN t |-> M[t[k]]]
  <1>1. m \in Seq(Seq(T)) /\ M[x] \in Seq(T)
    BY MappedList
  <1>2. n = Append(m, M[x])
    <2>1. /\ t \in Seq(S) /\ Len(t) = Len(s) + 1 /\ t[Len(s) + 1] = x
          /\ \A k \in 1 .. Len(s) : t[k] = s[k]
      OBVIOUS
    <2>2. n \in Seq(Seq(T)) /\ Len(n) = Len(s) + 1
      <3>. HIDE DEF t
      <3>. QED  BY <2>1, MappedList
    <2>3. Append(m, M[x]) \in Seq(Seq(T)) /\ Len(m) = Len(s) /\ Len(Append(m, M[x])) = Len(s) + 1
      BY <1>1, MappedList
    <2>4. ASSUME NEW k \in 1 .. Len(s) + 1 PROVE n[k] = Append(m, M[x])[k]
      <3>. HIDE DEF t
      <3>1. n[k] = M[t[k]]
        BY <2>1
      <3>2. CASE k = Len(s) + 1
        BY <1>1, <2>1, <2>3, <3>1, <3>2
      <3>3. CASE k \in 1 .. Len(s)
        BY <1>1, <2>1, <2>3, <3>1, <3>3
      <3>. QED  BY <3>2, <3>3
    <2>. HIDE DEF m, n, t
    <2>. QED  BY <2>2, <2>3, <2>4, SeqEqual
  <1>3. FlattenSeq(Append(m, M[x])) = FlattenSeq(m) \o M[x]
    BY <1>1, FlattenAppend
  <1>. QED  BY <1>2, <1>3 DEF FlatMap

Grows(M, s, x) == FlatMap(M, Append(s, x)) = FlatMap(M, s) \o M[x]

\* The same, named.
LEMMA FlatMapGrows ==
  ASSUME NEW S, NEW T, NEW M \in [S -> Seq(T)], NEW s \in Seq(S), NEW x \in S
  PROVE  Grows(M, s, x)
  BY FlatMapAppend DEF Grows

\* The flat map of one element is its list.
LEMMA FlatMapOne ==
  ASSUME NEW S, NEW T, NEW M \in [S -> Seq(T)], NEW x \in S
  PROVE  FlatMap(M, <<x>>) = M[x]
  <1>1. <<>> \in Seq(S) /\ <<x>> = Append(<<>>, x) /\ M[x] \in Seq(T)
    OBVIOUS
  <1>2. FlatMap(M, <<x>>) = <<>> \o M[x]
    BY <1>1, FlatMapAppend, FlatMapEmpty
  <1>. QED  BY <1>1, <1>2, ConcatEmptySeq

Distributes(M, s, t) == FlatMap(M, s \o t) = FlatMap(M, s) \o FlatMap(M, t)

\* A flat map distributes over lists run together.
LEMMA FlatMapConcat ==
  ASSUME NEW S, NEW T, NEW M \in [S -> Seq(T)], NEW s \in Seq(S), NEW t \in Seq(S)
  PROVE  Distributes(M, s, t)
  <1>. DEFINE Holds(u) == FlatMap(M, s \o u) = FlatMap(M, s) \o FlatMap(M, u)
              D == {u \in Seq(S) : Holds(u)}
  <1>1. <<>> \in D
    <2>1. s \o <<>> = s /\ FlatMap(M, s) \in Seq(T) /\ FlatMap(M, <<>>) = <<>>
      BY FlatMapType, FlatMapEmpty
    <2>2. FlatMap(M, s) \o <<>> = FlatMap(M, s)
      BY <2>1, ConcatEmptySeq
    <2>. QED  BY <2>1, <2>2
  <1>2. ASSUME NEW u \in Seq(S), NEW x \in S, u \in D PROVE Append(u, x) \in D
    <2>. SUFFICES Holds(Append(u, x))
      OBVIOUS
    <2>1. s \o Append(u, x) = Append(s \o u, x) /\ s \o u \in Seq(S)
      OBVIOUS
    <2>2. FlatMap(M, s \o Append(u, x)) = FlatMap(M, s \o u) \o M[x]
      BY <2>1, FlatMapAppend
    <2>3. FlatMap(M, Append(u, x)) = FlatMap(M, u) \o M[x]
      BY FlatMapAppend
    <2>4. FlatMap(M, s) \in Seq(T) /\ FlatMap(M, u) \in Seq(T) /\ M[x] \in Seq(T)
      BY FlatMapType
    <2>5. Associates(FlatMap(M, s), FlatMap(M, u), M[x])
      BY <2>4, RunTogether
    <2>6. (FlatMap(M, s) \o FlatMap(M, u)) \o M[x] = FlatMap(M, s) \o (FlatMap(M, u) \o M[x])
      BY <2>5, Zenon DEF Associates
    <2>. QED  BY <1>2, <2>2, <2>3, <2>6
  <1>. HIDE DEF D
  <1>3. Seq(S) \subseteq D
    BY <1>1, <1>2, ListInduction
  <1>. QED  BY <1>3 DEF D, Distributes

\* One map of lists after another is a third.
Composed(S, M, N, K) == \A s \in Seq(S) : FlatMap(N, FlatMap(M, s)) = FlatMap(K, s)

\* Two flat maps one after the other are one.
LEMMA FlatMapsCompose ==
  ASSUME NEW S, NEW T, NEW U, NEW M \in [S -> Seq(T)], NEW N \in [T -> Seq(U)], NEW K \in [S -> Seq(U)],
         \A x \in S : FlatMap(N, M[x]) = K[x]
  PROVE  Composed(S, M, N, K)
  <1>. DEFINE Holds(s) == FlatMap(N, FlatMap(M, s)) = FlatMap(K, s)
              D == {s \in Seq(S) : Holds(s)}
  <1>1. <<>> \in D
    <2>1. FlatMap(M, <<>>) = <<>> /\ FlatMap(N, <<>>) = <<>> /\ FlatMap(K, <<>>) = <<>>
      BY FlatMapEmpty
    <2>. QED  BY <2>1
  <1>2. ASSUME NEW s \in Seq(S), NEW x \in S, s \in D PROVE Append(s, x) \in D
    <2>. SUFFICES Holds(Append(s, x))
      OBVIOUS
    <2>1. FlatMap(M, Append(s, x)) = FlatMap(M, s) \o M[x]
      BY FlatMapAppend
    <2>2. FlatMap(M, s) \in Seq(T) /\ M[x] \in Seq(T)
      BY FlatMapType
    <2>3. FlatMap(N, FlatMap(M, s) \o M[x]) = FlatMap(N, FlatMap(M, s)) \o FlatMap(N, M[x])
      <3>1. Distributes(N, FlatMap(M, s), M[x])
        BY <2>2, FlatMapConcat, Zenon
      <3>. QED  BY <3>1, Zenon DEF Distributes
    <2>4. FlatMap(K, Append(s, x)) = FlatMap(K, s) \o K[x]
      BY FlatMapAppend
    <2>. QED  BY <1>2, <2>1, <2>3, <2>4
  <1>. HIDE DEF D
  <1>3. Seq(S) \subseteq D
    BY <1>1, <1>2, ListInduction
  <1>. QED  BY <1>3 DEF D, Composed

\* What is in a flat map is in the list of one of the elements.
LEMMA FlatMapRange ==
  ASSUME NEW S, NEW T, NEW M \in [S -> Seq(T)], NEW s \in Seq(S)
  PROVE  \A y : y \in Range(FlatMap(M, s)) <=> \E x \in Range(s) : y \in Range(M[x])
  <1>. DEFINE m == [k \in DOMAIN s |-> M[s[k]]]
  <1>1. m \in Seq(Seq(T))
    BY MappedList
  <1>2. \A y : y \in Range(FlattenSeq(m)) <=> \E n \in DOMAIN m : y \in Range(m[n])
    BY <1>1, FlattenRange
  <1>3. \A y : (\E n \in DOMAIN m : y \in Range(m[n])) <=> \E x \in Range(s) : y \in Range(M[x])
    <2>1. DOMAIN m = DOMAIN s /\ \A n \in DOMAIN s : m[n] = M[s[n]]
      OBVIOUS
    <2>2. \A x : x \in Range(s) <=> \E n \in DOMAIN s : x = s[n]
      BY DEF Range
    <2>. HIDE DEF m
    <2>. QED  BY <2>1, <2>2
  <1>. QED  BY <1>2, <1>3 DEF FlatMap
-----------------------------------------------------------------------------
(* How many elements of a list are in a set.                               *)

PlacesIn(s, P) == {k \in DOMAIN s : s[k] \in P}
Count(s, P) == Cardinality(PlacesIn(s, P))

\* The places of a list are finitely many.
LEMMA PlacesFinite ==
  ASSUME NEW S, NEW s \in Seq(S), NEW P
  PROVE  IsFiniteSet(PlacesIn(s, P)) /\ Count(s, P) \in Nat
  <1>1. IsFiniteSet(1 .. Len(s)) /\ PlacesIn(s, P) \in SUBSET (1 .. Len(s))
    BY FS_Interval DEF PlacesIn
  <1>. QED  BY <1>1, FS_Subset, FS_CardinalityType DEF Count

\* Nothing is counted where nothing is sought.
LEMMA CountNone ==
  ASSUME NEW S, NEW s \in Seq(S), NEW P, \A x \in Range(s) : x \notin P
  PROVE  Count(s, P) = 0
  <1>1. PlacesIn(s, P) = {}
    BY DEF PlacesIn, Range
  <1>. QED  BY <1>1, FS_EmptySet DEF Count

\* One element more counts if it is sought.
LEMMA CountAppend ==
  ASSUME NEW S, NEW s \in Seq(S), NEW x \in S, NEW P
  PROVE  Count(Append(s, x), P) = IF x \in P THEN Count(s, P) + 1 ELSE Count(s, P)
  <1>1. PlacesIn(Append(s, x), P) = IF x \in P THEN PlacesIn(s, P) \cup {Len(s) + 1} ELSE PlacesIn(s, P)
    <2>. DEFINE t == Append(s, x)
    <2>1. /\ DOMAIN t = DOMAIN s \cup {Len(s) + 1} /\ t[Len(s) + 1] = x
          /\ \A k \in DOMAIN s : t[k] = s[k]
      OBVIOUS
    <2>. HIDE DEF t
    <2>2. PlacesIn(t, P) = IF x \in P THEN PlacesIn(s, P) \cup {Len(s) + 1} ELSE PlacesIn(s, P)
      BY <2>1 DEF PlacesIn
    <2>. QED  BY <2>2 DEF t
  <1>2. Len(s) + 1 \notin PlacesIn(s, P)
    BY DEF PlacesIn
  <1>3. IsFiniteSet(PlacesIn(s, P))
    BY PlacesFinite
  <1>4. Cardinality(PlacesIn(s, P) \cup {Len(s) + 1}) = Cardinality(PlacesIn(s, P)) + 1
    BY <1>2, <1>3, FS_AddElement
  <1>. QED  BY <1>1, <1>4 DEF Count

\* Nothing is counted in an empty list.
LEMMA CountEmpty ==
  ASSUME NEW P
  PROVE  Count(<<>>, P) = 0
  <1>1. PlacesIn(<<>>, P) = {}
    BY DEF PlacesIn
  <1>. QED  BY <1>1, FS_EmptySet DEF Count

\* One element counts once or not at all.
LEMMA CountOfOne ==
  ASSUME NEW S, NEW x \in S, NEW P
  PROVE  Count(<<x>>, P) = IF x \in P THEN 1 ELSE 0
  <1>1. <<>> \in Seq(S) /\ <<x>> = Append(<<>>, x)
    OBVIOUS
  <1>2. Count(<<x>>, P) = IF x \in P THEN Count(<<>>, P) + 1 ELSE Count(<<>>, P)
    BY <1>1, CountAppend
  <1>. QED  BY <1>2, CountEmpty

\* What is counted in two lists run together is the sum.
LEMMA CountConcat ==
  ASSUME NEW S, NEW s \in Seq(S), NEW P
  PROVE  \A t \in Seq(S) : Count(s \o t, P) = Count(s, P) + Count(t, P)
  <1>. DEFINE Holds(t) == Count(s \o t, P) = Count(s, P) + Count(t, P)
              D == {t \in Seq(S) : Holds(t)}
  <1>1. <<>> \in D
    <2>1. s \o <<>> = s /\ Count(s, P) \in Nat /\ Count(<<>>, P) = 0
      BY PlacesFinite, CountEmpty
    <2>. QED  BY <2>1
  <1>2. ASSUME NEW t \in Seq(S), NEW x \in S, t \in D PROVE Append(t, x) \in D
    <2>1. s \o Append(t, x) = Append(s \o t, x) /\ s \o t \in Seq(S) /\ Append(t, x) \in Seq(S)
      OBVIOUS
    <2>2. Count(Append(s \o t, x), P) = IF x \in P THEN Count(s \o t, P) + 1 ELSE Count(s \o t, P)
      BY <2>1, CountAppend
    <2>3. Count(Append(t, x), P) = IF x \in P THEN Count(t, P) + 1 ELSE Count(t, P)
      BY CountAppend
    <2>4. Count(s \o t, P) = Count(s, P) + Count(t, P)
      BY <1>2
    <2>5. Count(s, P) \in Nat /\ Count(t, P) \in Nat
      BY PlacesFinite
    <2>6. Holds(Append(t, x))
      <3>. HIDE DEF D
      <3>1. CASE x \in P
        BY <2>1, <2>2, <2>3, <2>4, <2>5, <3>1
      <3>2. CASE x \notin P
        BY <2>1, <2>2, <2>3, <2>4, <2>5, <3>2
      <3>. QED  BY <3>1, <3>2
    <2>. HIDE DEF Holds
    <2>. QED  BY <2>1, <2>6
  <1>. HIDE DEF D
  <1>3. Seq(S) \subseteq D
    BY <1>1, <1>2, ListInduction
  <1>. QED  BY <1>3 DEF D

\* A list put for each element may hold as many of Q as there were of P.
LEMMA CountFlatMap ==
  ASSUME NEW S, NEW T, NEW M \in [S -> Seq(T)], NEW P, NEW Q,
         \A x \in S : Count(M[x], Q) = IF x \in P THEN 1 ELSE 0
  PROVE  \A s \in Seq(S) : Count(FlatMap(M, s), Q) = Count(s, P)
  <1>. DEFINE Holds(s) == Count(FlatMap(M, s), Q) = Count(s, P)
              D == {s \in Seq(S) : Holds(s)}
  <1>1. <<>> \in D
    <2>1. FlatMap(M, <<>>) = <<>> /\ Count(<<>>, P) = 0 /\ Count(<<>>, Q) = 0
      BY FlatMapEmpty, CountEmpty
    <2>. QED  BY <2>1
  <1>2. ASSUME NEW s \in Seq(S), NEW x \in S, s \in D PROVE Append(s, x) \in D
    <2>1. FlatMap(M, Append(s, x)) = FlatMap(M, s) \o M[x]
      <3>1. Grows(M, s, x)
        BY FlatMapGrows, Zenon
      <3>. QED  BY <3>1, Zenon DEF Grows
    <2>2. FlatMap(M, s) \in Seq(T) /\ M[x] \in Seq(T)
      BY FlatMapType
    <2>3. Count(FlatMap(M, s) \o M[x], Q) = Count(FlatMap(M, s), Q) + Count(M[x], Q)
      BY <2>2, CountConcat
    <2>4. Count(Append(s, x), P) = IF x \in P THEN Count(s, P) + 1 ELSE Count(s, P)
      BY CountAppend
    <2>5. Count(s, P) \in Nat
      BY PlacesFinite
    <2>6. Count(FlatMap(M, s), Q) = Count(s, P) /\ Count(M[x], Q) = IF x \in P THEN 1 ELSE 0
      BY <1>2
    <2>7. Count(FlatMap(M, Append(s, x)), Q) = Count(Append(s, x), P)
      <3>. HIDE DEF D
      <3>. QED  BY <2>1, <2>3, <2>4, <2>5, <2>6
    <2>8. Append(s, x) \in Seq(S)
      OBVIOUS
    <2>. QED  BY <2>7, <2>8
  <1>. HIDE DEF D
  <1>3. Seq(S) \subseteq D
    BY <1>1, <1>2, ListInduction
  <1>. QED  BY <1>3 DEF D

\* Lists run together hold as many as disjoint sets that hold as many as each
\* of the lists.
LEMMA CountByParts ==
  ASSUME NEW S, NEW P
  PROVE  \A ss \in Seq(Seq(S)) : \A W :
           /\ \A n \in DOMAIN ss : IsFiniteSet(W[n]) /\ Cardinality(W[n]) = Count(ss[n], P)
           /\ \A m, n \in DOMAIN ss : m # n => W[m] \cap W[n] = {}
           => LET all == UNION {W[n] : n \in DOMAIN ss}
              IN  IsFiniteSet(all) /\ Cardinality(all) = Count(FlattenSeq(ss), P)
  <1>. DEFINE All(ss, W) == UNION {W[n] : n \in DOMAIN ss}
              Parts(ss, W) ==
                /\ \A n \in DOMAIN ss : IsFiniteSet(W[n]) /\ Cardinality(W[n]) = Count(ss[n], P)
                /\ \A m, n \in DOMAIN ss : m # n => W[m] \cap W[n] = {}
              Counted(ss, W) == IsFiniteSet(All(ss, W)) /\ Cardinality(All(ss, W)) = Count(FlattenSeq(ss), P)
              D == {ss \in Seq(Seq(S)) : \A W : Parts(ss, W) => Counted(ss, W)}
  <1>1. <<>> \in D
    <2>1. \A W : All(<<>>, W) = {}
      OBVIOUS
    <2>2. Count(FlattenSeq(<<>>), P) = 0
      BY FlattenEmpty, CountEmpty
    <2>3. \A W : Counted(<<>>, W)
      BY <2>1, <2>2, FS_EmptySet
    <2>. QED  BY <2>3
  <1>2. ASSUME NEW ss \in Seq(Seq(S)), NEW s \in Seq(S), ss \in D PROVE Append(ss, s) \in D
    <2>. DEFINE tt == Append(ss, s)
                N == Len(ss) + 1
    <2>1. tt \in Seq(Seq(S)) /\ DOMAIN tt = DOMAIN ss \cup {N} /\ tt[N] = s /\ N \notin DOMAIN ss
      OBVIOUS
    <2>2. \A n \in DOMAIN ss : tt[n] = ss[n]
      OBVIOUS
    <2>3. FlattenSeq(tt) = FlattenSeq(ss) \o s /\ FlattenSeq(ss) \in Seq(S)
      BY FlattenAppend, FlattenType
    <2>. HIDE DEF tt, N
    <2>4. ASSUME NEW W, Parts(tt, W) PROVE Counted(tt, W)
      <3>1. Parts(ss, W)
        BY <2>1, <2>2, <2>4
      <3>2. Counted(ss, W)
        BY <1>2, <3>1
      <3>3. All(tt, W) = All(ss, W) \cup W[N]
        BY <2>1
      <3>4. All(ss, W) \cap W[N] = {}
        BY <2>1, <2>4
      <3>5. IsFiniteSet(W[N]) /\ Cardinality(W[N]) = Count(s, P)
        BY <2>1, <2>4
      <3>. HIDE DEF D, All
      <3>6. /\ IsFiniteSet(All(ss, W) \cup W[N])
            /\ Cardinality(All(ss, W) \cup W[N])
                 = Cardinality(All(ss, W)) + Cardinality(W[N]) - Cardinality(All(ss, W) \cap W[N])
        BY <3>2, <3>5, FS_Union
      <3>7. Count(FlattenSeq(tt), P) = Count(FlattenSeq(ss), P) + Count(s, P)
        BY <2>3, CountConcat
      <3>8. Count(FlattenSeq(ss), P) \in Nat /\ Count(s, P) \in Nat
        BY <2>3, PlacesFinite
      <3>9. Cardinality(All(ss, W)) = Count(FlattenSeq(ss), P)
        BY <3>2
      <3>10. Cardinality(All(ss, W) \cap W[N]) = 0
        BY <3>4, FS_EmptySet
      <3>11. IsFiniteSet(All(tt, W)) /\ Cardinality(All(tt, W)) = Count(FlattenSeq(tt), P)
        BY <3>3, <3>5, <3>6, <3>7, <3>8, <3>9, <3>10
      <3>. QED  BY <3>11
    <2>5. tt \in D
      <3>. HIDE DEF Parts, Counted
      <3>. QED  BY <2>1, <2>4
    <2>. QED  BY <2>5 DEF tt
  <1>. HIDE DEF D
  <1>3. Seq(Seq(S)) \subseteq D
    BY <1>1, <1>2, ListInduction
  <1>. QED  BY <1>3 DEF D

-----------------------------------------------------------------------------
(* Bodies: lists of blocks, each of them a list that is not empty.         *)

\* Blocks of instructions from a set, and bodies of such blocks.
BlocksOver(S) == Seq(S) \ {<<>>}
BodiesOver(S) == Seq(BlocksOver(S))

\* A block has a last instruction, which is one of its own.
LEMMA BlockFacts ==
  ASSUME NEW S, NEW block \in BlocksOver(S)
  PROVE  /\ block \in Seq(S)
         /\ Len(block) \in Nat \ {0}
         /\ DOMAIN block = 1 .. Len(block)
         /\ Len(block) \in DOMAIN block
         /\ Last(block) \in S
         /\ Last(block) \in Range(block)
  <1>1. block \in Seq(S) /\ Len(block) \in Nat \ {0} /\ DOMAIN block = 1 .. Len(block)
    BY DEF BlocksOver
  <1>2. Len(block) \in DOMAIN block
    BY <1>1
  <1>. QED  BY <1>1, <1>2 DEF Last, Range

\* A body is made of its own instructions.
LEMMA BodyIsOver ==
  ASSUME NEW body, IsBody(body)
  PROVE  body \in BodiesOver(InstructionSet(body))
  BY DEF IsBody, BodiesOver, BlocksOver

\* The blocks of a body are numbered from the entry.
LEMMA BodyFacts ==
  ASSUME NEW S, NEW body \in BodiesOver(S)
  PROVE  /\ Len(body) \in Nat /\ DOMAIN body = 1 .. Len(body)
         /\ \A b \in DOMAIN body : body[b] \in BlocksOver(S)
  BY DEF BodiesOver

\* Blocks of instructions from a set are a body with no others.
LEMMA OverIsBody ==
  ASSUME NEW S, NEW body \in BodiesOver(S)
  PROVE  IsBody(body) /\ InstructionSet(body) \subseteq S
  <1>. DEFINE T == InstructionSet(body)
  <1>1. ASSUME NEW b \in DOMAIN body PROVE Range(body[b]) \subseteq T /\ Range(body[b]) \subseteq S
    <2>1. body[b] \in Seq(S)
      BY BodyFacts, BlockFacts
    <2>. QED  BY <2>1 DEF InstructionSet, Range
  <1>. HIDE DEF T
  <1>2. ASSUME NEW b \in DOMAIN body PROVE body[b] \in BlocksOver(T)
    <2>1. body[b] \in Seq(S) /\ body[b] # <<>>
      BY BodyFacts DEF BlocksOver
    <2>2. \A k \in 1 .. Len(body[b]) : body[b][k] \in T
      BY <1>1, <2>1 DEF Range
    <2>3. body[b] \in Seq(T)
      BY <2>1, <2>2
    <2>. QED  BY <2>1, <2>3 DEF BlocksOver
  <1>3. body \in BodiesOver(T)
    <2>. DEFINE B == BlocksOver(T)
    <2>1. Len(body) \in Nat /\ body = [b \in 1 .. Len(body) |-> body[b]] /\ DOMAIN body = 1 .. Len(body)
      BY BodyFacts DEF BodiesOver
    <2>2. \A b \in 1 .. Len(body) : body[b] \in B
      BY <1>2, <2>1
    <2>. HIDE DEF B
    <2>3. body \in Seq(B)
      BY <2>1, <2>2
    <2>. QED  BY <2>3 DEF B, BodiesOver
  <1>4. T \subseteq S
    BY <1>1 DEF InstructionSet, T
  <1>. QED  BY <1>3, <1>4 DEF IsBody, T, BodiesOver, BlocksOver

\* A body in which each block is replaced by another.
LEMMA BlocksReplaced ==
  ASSUME NEW S, NEW T, NEW body \in BodiesOver(S), NEW new, DOMAIN new = DOMAIN body,
         new = [b \in DOMAIN body |-> new[b]],
         \A b \in DOMAIN body : new[b] \in BlocksOver(T)
  PROVE  new \in BodiesOver(T)
  <1>. DEFINE B == BlocksOver(T)
  <1>1. Len(body) \in Nat /\ DOMAIN body = 1 .. Len(body)
    BY BodyFacts
  <1>. HIDE DEF B
  <1>2. \A b \in 1 .. Len(body) : new[b] \in B
    BY <1>1 DEF B
  <1>3. new \in Seq(B)
    BY <1>1, <1>2
  <1>. QED  BY <1>3 DEF B, BodiesOver

\* A list in front of a block.
EndsAs(S, is, block) == is \o block \in BlocksOver(S) /\ Last(is \o block) = Last(block)

\* Instructions in front of a block leave its last one the last.
LEMMA Prefixed ==
  ASSUME NEW S, NEW is \in Seq(S), NEW block \in BlocksOver(S)
  PROVE  EndsAs(S, is, block)
  <1>1. /\ block \in Seq(S) /\ Len(block) \in Nat \ {0} /\ Len(is) \in Nat
        /\ Len(is \o block) = Len(is) + Len(block) /\ is \o block \in Seq(S)
    BY BlockFacts
  <1>2. is \o block # <<>>
    BY <1>1
  <1>3. (is \o block)[Len(is) + Len(block)] = block[Len(block)]
    BY <1>1
  <1>. QED  BY <1>1, <1>2, <1>3 DEF EndsAs, BlocksOver, Last

\* A block is what stands in front of its last instruction, and that.
LEMMA FrontAndLast ==
  ASSUME NEW S, NEW block \in BlocksOver(S)
  PROVE  /\ Front(block) \in Seq(S)
         /\ Len(Front(block)) = Len(block) - 1
         /\ \A k \in 1 .. Len(block) - 1 : Front(block)[k] = block[k]
         /\ block = Append(Front(block), Last(block))
  <1>1. block \in Seq(S) /\ Len(block) \in Nat \ {0}
    BY BlockFacts
  <1>2. /\ Front(block) \in Seq(S) /\ Len(Front(block)) = Len(block) - 1
        /\ \A k \in 1 .. Len(block) - 1 : Front(block)[k] = block[k]
    <2>. DEFINE n == Len(block) - 1
    <2>1. n \in Nat /\ 1 \in Int /\ \A k \in 1 .. n : block[k] \in S
      BY <1>1
    <2>. HIDE DEF n
    <2>2. /\ SubSeq(block, 1, n) \in Seq(S)
          /\ Len(SubSeq(block, 1, n)) = IF 1 <= n THEN n - 1 + 1 ELSE 0
          /\ \A k \in 1 .. n - 1 + 1 : SubSeq(block, 1, n)[k] = block[1 + k - 1]
      BY <2>1, SubSeqProperties
    <2>3. Front(block) = SubSeq(block, 1, n)
      BY DEF Front, n
    <2>4. /\ Front(block) \in Seq(S) /\ Len(Front(block)) = n
          /\ \A k \in 1 .. n : Front(block)[k] = block[k]
      BY <2>1, <2>2, <2>3
    <2>. QED  BY <2>4 DEF n
  <1>3. block = Append(Front(block), Last(block))
    BY <1>1, <1>2 DEF Last
  <1>. QED  BY <1>2, <1>3

\* A body with instructions at its entry.
LEMMA AtEntryOver ==
  ASSUME NEW S, NEW body \in BodiesOver(S), body # <<>>, NEW is \in Seq(S)
  PROVE  /\ AtEntry(body, is) \in BodiesOver(S)
         /\ DOMAIN AtEntry(body, is) = DOMAIN body
         /\ AtEntry(body, is)[1] = is \o body[1]
         /\ \A b \in DOMAIN body \ {1} : AtEntry(body, is)[b] = body[b]
         /\ \A b \in DOMAIN body : Last(AtEntry(body, is)[b]) = Last(body[b])
  <1>. DEFINE new == AtEntry(body, is)
  <1>1. 1 \in DOMAIN body /\ body[1] \in BlocksOver(S)
    BY BodyFacts DEF BodiesOver
  <1>2. /\ DOMAIN new = DOMAIN body /\ new = [b \in DOMAIN body |-> new[b]]
        /\ new[1] = is \o body[1]
        /\ \A b \in DOMAIN body \ {1} : new[b] = body[b]
    BY <1>1 DEF AtEntry
  <1>3. new[1] \in BlocksOver(S) /\ Last(new[1]) = Last(body[1])
    <2>1. EndsAs(S, is, body[1])
      BY <1>1, Prefixed, Zenon
    <2>. QED  BY <1>2, <2>1, Zenon DEF EndsAs
  <1>. HIDE DEF new
  <1>4. \A b \in DOMAIN body : new[b] \in BlocksOver(S)
    BY <1>2, <1>3, BodyFacts
  <1>5. new \in BodiesOver(S)
    BY <1>2, <1>4, BlocksReplaced
  <1>. QED  BY <1>2, <1>3, <1>5 DEF new

\* A body with instructions in front of each return.
LEMMA BeforeReturnsOver ==
  ASSUME NEW S, NEW body \in BodiesOver(S), NEW is \in Seq(S)
  PROVE  /\ BeforeReturns(body, is) \in BodiesOver(S)
         /\ DOMAIN BeforeReturns(body, is) = DOMAIN body
         /\ \A b \in DOMAIN body : Last(BeforeReturns(body, is)[b]) = Last(body[b])
  <1>. DEFINE new == BeforeReturns(body, is)
  <1>1. /\ DOMAIN new = DOMAIN body /\ new = [b \in DOMAIN body |-> new[b]]
    BY DEF BeforeReturns
  <1>2. ASSUME NEW b \in DOMAIN body
        PROVE  new[b] \in BlocksOver(S) /\ Last(new[b]) = Last(body[b])
    <2>1. body[b] \in BlocksOver(S)
      BY BodyFacts
    <2>2. CASE Last(body[b]).op = "ret"
      <3>. DEFINE last == <<Last(body[b])>>
      <3>1. Front(body[b]) \in Seq(S) /\ last \in BlocksOver(S) /\ Last(last) = Last(body[b])
        BY <2>1, FrontAndLast, BlockFacts DEF BlocksOver, Last
      <3>2. new[b] = (Front(body[b]) \o is) \o last
        BY <2>2 DEF BeforeReturns
      <3>3. Front(body[b]) \o is \in Seq(S)
        BY <3>1
      <3>. HIDE DEF last, new
      <3>4. EndsAs(S, Front(body[b]) \o is, last)
        BY <3>1, <3>3, Prefixed, Zenon
      <3>. QED  BY <3>1, <3>2, <3>4, Zenon DEF EndsAs
    <2>3. CASE Last(body[b]).op # "ret"
      BY <2>1, <2>3 DEF BeforeReturns
    <2>. QED  BY <2>2, <2>3
  <1>. HIDE DEF new
  <1>3. new \in BodiesOver(S)
    BY <1>1, <1>2, BlocksReplaced
  <1>. QED  BY <1>1, <1>2, <1>3 DEF new

\* A list around one of its elements, and without it.
CutIn(block, k, s, t) == Len(s) = k - 1 /\ block = Append(s, block[k]) \o t /\ RemoveAt(block, k) = s \o t

\* A list that has lost an element: what stood in front of it, and behind it.
LEMMA CutAt ==
  ASSUME NEW S, NEW block \in Seq(S), NEW k \in 1 .. Len(block)
  PROVE  /\ RemoveAt(block, k) \in Seq(S) /\ Len(RemoveAt(block, k)) = Len(block) - 1
         /\ \A i \in 1 .. Len(block) - 1 : RemoveAt(block, k)[i] = IF i < k THEN block[i] ELSE block[i + 1]
         /\ \E s, t \in Seq(S) : CutIn(block, k, s, t)
  <1>. DEFINE N == Len(block)
              s == SubSeq(block, 1, k - 1)
              t == SubSeq(block, k + 1, N)
  <1>1. block \in Seq(S) /\ N \in Nat \ {0} /\ DOMAIN block = 1 .. N
    OBVIOUS
  <1>2. k \in Nat \ {0} /\ k <= N /\ k - 1 \in Int /\ k + 1 \in Int
    BY <1>1
  <1>3. (\A i \in 1 .. k - 1 : block[i] \in S) /\ (\A i \in k + 1 .. N : block[i] \in S)
    BY <1>1, <1>2
  <1>4. /\ s \in Seq(S) /\ Len(s) = k - 1
        /\ \A i \in 1 .. k - 1 : s[i] = block[i]
    <2>. DEFINE n == k - 1
    <2>1. n \in Int /\ 1 \in Int /\ n \in Nat /\ \A i \in 1 .. n : block[i] \in S
      BY <1>2, <1>3
    <2>. HIDE DEF n
    <2>2. /\ SubSeq(block, 1, n) \in Seq(S)
          /\ Len(SubSeq(block, 1, n)) = IF 1 <= n THEN n - 1 + 1 ELSE 0
          /\ \A i \in 1 .. n - 1 + 1 : SubSeq(block, 1, n)[i] = block[1 + i - 1]
      BY <2>1, SubSeqProperties
    <2>3. s = SubSeq(block, 1, n)
      BY DEF n
    <2>. HIDE DEF s
    <2>4. s \in Seq(S) /\ Len(s) = n /\ \A i \in 1 .. n : s[i] = block[i]
      BY <2>1, <2>2, <2>3
    <2>. QED  BY <2>4 DEF n
  <1>5. /\ t \in Seq(S) /\ Len(t) = N - k
        /\ \A i \in 1 .. N - k : t[i] = block[k + i]
    <2>. DEFINE m == k + 1
    <2>1. m \in Int /\ N \in Int /\ \A i \in m .. N : block[i] \in S
      BY <1>1, <1>2, <1>3
    <2>. HIDE DEF m, N
    <2>2. /\ SubSeq(block, m, N) \in Seq(S)
          /\ Len(SubSeq(block, m, N)) = IF m <= N THEN N - m + 1 ELSE 0
          /\ \A i \in 1 .. N - m + 1 : SubSeq(block, m, N)[i] = block[m + i - 1]
      BY <2>1, SubSeqProperties
    <2>3. t = SubSeq(block, m, N)
      BY DEF m
    <2>. HIDE DEF t
    <2>4. m = k + 1
      BY DEF m
    <2>5. Len(t) = N - k
      BY <1>1, <1>2, <2>2, <2>3, <2>4
    <2>6. ASSUME NEW i \in 1 .. N - k PROVE t[i] = block[k + i]
      <3>1. i \in 1 .. N - m + 1 /\ m + i - 1 = k + i
        BY <1>1, <1>2, <2>4
      <3>. QED  BY <2>2, <2>3, <3>1
    <2>. QED  BY <2>2, <2>3, <2>5, <2>6
  <1>6. RemoveAt(block, k) = s \o t
    BY DEF RemoveAt
  <1>. HIDE DEF s, t, N
  <1>7. /\ s \o t \in Seq(S) /\ Len(s \o t) = N - 1
        /\ \A i \in 1 .. N - 1 : (s \o t)[i] = IF i < k THEN block[i] ELSE block[i + 1]
    <2>1. s \o t \in Seq(S) /\ Len(s \o t) = N - 1
      <3>1. s \o t \in Seq(S) /\ Len(s \o t) = Len(s) + Len(t)
        BY <1>4, <1>5, ConcatProperties
      <3>. QED  BY <1>1, <1>2, <1>4, <1>5, <3>1
    <2>2. ASSUME NEW i \in 1 .. N - 1 PROVE (s \o t)[i] = IF i < k THEN block[i] ELSE block[i + 1]
      <3>1. CASE i < k
        BY <1>1, <1>2, <1>4, <1>5, <3>1
      <3>2. CASE ~(i < k)
        <4>1. (s \o t)[i] = t[i - (k - 1)]
          BY <1>1, <1>2, <1>4, <1>5, <3>2
        <4>2. i - (k - 1) \in 1 .. N - k /\ k + (i - (k - 1)) = i + 1
          BY <1>1, <1>2, <3>2
        <4>. QED  BY <1>5, <3>2, <4>1, <4>2
      <3>. QED  BY <3>1, <3>2
    <2>. QED  BY <2>1, <2>2
  <1>8. block = Append(s, block[k]) \o t
    <2>. DEFINE u == Append(s, block[k])
    <2>1. block[k] \in S
      BY <1>1, <1>2
    <2>2. /\ u \in Seq(S) /\ Len(u) = k /\ u[k] = block[k]
          /\ \A i \in 1 .. k - 1 : u[i] = block[i]
      BY <1>2, <1>4, <2>1
    <2>. HIDE DEF u
    <2>3. u \o t \in Seq(S) /\ Len(u \o t) = N
      <3>1. u \o t \in Seq(S) /\ Len(u \o t) = Len(u) + Len(t)
        BY <1>5, <2>2, ConcatProperties
      <3>. QED  BY <1>1, <1>2, <1>5, <2>2, <3>1
    <2>4. ASSUME NEW i \in 1 .. N PROVE (u \o t)[i] = block[i]
      <3>1. CASE i <= k
        BY <1>1, <1>2, <1>5, <2>2, <3>1
      <3>2. CASE ~(i <= k)
        <4>1. (u \o t)[i] = t[i - k]
          BY <1>1, <1>2, <1>5, <2>2, <3>2
        <4>2. i - k \in 1 .. N - k /\ k + (i - k) = i
          BY <1>1, <1>2, <3>2
        <4>. QED  BY <1>5, <4>1, <4>2
      <3>. QED  BY <3>1, <3>2
    <2>5. block = u \o t
      BY <1>1, <2>3, <2>4, SeqEqual DEF N
    <2>. QED  BY <2>5 DEF u
  <1>9. CutIn(block, k, s, t)
    BY <1>4, <1>6, <1>8, Zenon DEF CutIn
  <1>. QED  BY <1>4, <1>5, <1>6, <1>7, <1>9 DEF N

\* A block that has lost an instruction in front of its last.
LEMMA RemovedOver ==
  ASSUME NEW S, NEW block \in BlocksOver(S), NEW k \in 1 .. Len(block) - 1
  PROVE  /\ RemoveAt(block, k) \in BlocksOver(S)
         /\ Last(RemoveAt(block, k)) = Last(block)
  <1>. DEFINE N == Len(block)
              new == RemoveAt(block, k)
  <1>1. block \in Seq(S) /\ N \in Nat \ {0} /\ DOMAIN block = 1 .. N
    BY BlockFacts
  <1>2. k \in Nat \ {0} /\ k < N
    BY <1>1
  <1>3. /\ new \in Seq(S) /\ Len(new) = N - 1 /\ N - 1 \in Nat \ {0}
        /\ \A i \in 1 .. N - 1 : new[i] = IF i < k THEN block[i] ELSE block[i + 1]
    <2>1. k \in 1 .. Len(block)
      BY <1>1
    <2>2. /\ new \in Seq(S) /\ Len(new) = N - 1
          /\ \A i \in 1 .. N - 1 : new[i] = IF i < k THEN block[i] ELSE block[i + 1]
      BY <1>1, <2>1, CutAt, Zenon
    <2>. QED  BY <1>1, <1>2, <2>2
  <1>. HIDE DEF new, N
  <1>4. new \in BlocksOver(S)
    BY <1>3 DEF BlocksOver
  <1>5. Last(new) = Last(block)
    <2>1. N - 1 \in 1 .. N - 1 /\ ~(N - 1 < k) /\ (N - 1) + 1 = N
      BY <1>1, <1>2
    <2>2. new[N - 1] = block[N]
      BY <1>3, <2>1
    <2>. QED  BY <1>3, <2>2 DEF Last, N
  <1>. QED  BY <1>4, <1>5 DEF new

-----------------------------------------------------------------------------
(* The instructions that replace a comparison.                             *)

\* Every record of an instruction has the fields of one.
IsInstr(i) == i = Instr(i.op, i.def, i.args, i.fn, i.to, i.pred, i.by)

\* The least of some places is one of them.
LEMMA MinIsIn ==
  ASSUME NEW N \in SUBSET Nat, N # {}
  PROVE  Min(N) \in N
  <1>1. PICK n \in N : \A m \in N : <<m, n>> \notin OpToRel(<, Nat)
    BY NatLessThanWellFounded, WFMin
  <1>2. \A m \in N : n =< m
    <2>. SUFFICES ASSUME NEW m \in N PROVE n =< m
      OBVIOUS
    <2>1. m \in Nat /\ n \in Nat
      OBVIOUS
    <2>2. m < n => <<m, n>> \in OpToRel(<, Nat)
      BY <2>1 DEF OpToRel
    <2>3. ~(m < n)
      BY <1>1, <2>2
    <2>. QED  BY <2>1, <2>3
  <1>. QED  BY <1>2 DEF Min

\* The instructions of a body one after the other are those in its blocks.
LEMMA InstructionsHold ==
  ASSUME NEW S, NEW body \in BodiesOver(S)
  PROVE  /\ Instructions(body) \in Seq(S)
         /\ Range(Instructions(body)) = InstructionSet(body)
  <1>1. body \in Seq(Seq(S))
    BY DEF BodiesOver, BlocksOver
  <1>2. \A x : x \in Range(FlattenSeq(body)) <=> \E n \in DOMAIN body : x \in Range(body[n])
    BY <1>1, FlattenRange
  <1>. QED  BY <1>1, <1>2, FlattenType DEF Instructions, InstructionSet

\* The pointer to the only instruction that defines a value.
LEMMA PointeeIs ==
  ASSUME NEW S, NEW body \in BodiesOver(S), NEW p \in InstructionSet(body),
         \A i \in InstructionSet(body) : i.def = p.def => i = p
  PROVE  Pointee(body, p.def) = p
  <1>. DEFINE is == Instructions(body)
              I == {k \in 1 .. Len(is) : is[k].def = p.def}
  <1>1. is \in Seq(S) /\ Range(is) = InstructionSet(body)
    BY InstructionsHold
  <1>2. DOMAIN is = 1 .. Len(is) /\ \A k \in 1 .. Len(is) : is[k] \in InstructionSet(body)
    BY <1>1 DEF Range
  <1>3. PICK k \in 1 .. Len(is) : is[k] = p
    BY <1>1, <1>2 DEF Range
  <1>4. I # {} /\ I \in SUBSET Nat
    BY <1>3
  <1>5. Min(I) \in I
    BY <1>4, MinIsIn
  <1>6. is[Min(I)] = p
    BY <1>2, <1>5
  <1>7. Pointee(body, p.def) = is[Min(I)]
    <2>1. SelectInSeq(is, LAMBDA i : i.def = p.def) = Min(I)
      BY <1>4 DEF SelectInSeq
    <2>. QED  BY <2>1 DEF Pointee
  <1>. QED  BY <1>6, <1>7

\* What conversion puts for a comparison: four instructions that define new
\* values, and the comparison with another predicate and other operands.
MadeFrom(i, j) ==
  /\ IsInstr(j)
  /\ j.op \in {"fsub", "bitcast", "and"} /\ j.by = "convert-fcmp-eq"
  /\ j.fn = Indirect /\ j.to = {}
  /\ \E part, ty : j.def = MadeFor(i.def, part, ty)

TheSameBut(i, j) ==
  /\ IsInstr(j)
  /\ j.op = i.op /\ j.def = i.def /\ j.fn = i.fn /\ j.to = i.to /\ j.by = i.by
  /\ j.pred = CmpPred[i.pred]

\* A comparison is replaced by four instructions and itself, with other operands.
LEMMA ConvertedIs ==
  ASSUME NEW i, IsInstr(i)
  PROVE  \E a, b, c, d, e :
           /\ Converted(i) = <<a, b, c, d, e>>
           /\ MadeFrom(i, a) /\ MadeFrom(i, b) /\ MadeFrom(i, c) /\ MadeFrom(i, d)
           /\ TheSameBut(i, e)
  <1>. DEFINE a == Converted(i)[1]
              b == Converted(i)[2]
              c == Converted(i)[3]
              d == Converted(i)[4]
              e == Converted(i)[5]
  <1>1. Converted(i) = <<a, b, c, d, e>>
    BY DEF Converted
  <1>2. a.def = MadeFor(i.def, "diff", i.args[1].ty)
    BY DEF Converted, Plain, Instr
  <1>3. b.def = MadeFor(i.def, "bits", "i64")
    BY DEF Converted, Plain, Instr
  <1>4. c.def = MadeFor(i.def, "abs", "i64")
    BY DEF Converted, Plain, Instr
  <1>5. d.def = MadeFor(i.def, "dbl", "double")
    BY DEF Converted, Plain, Instr
  <1>6. /\ IsInstr(a) /\ a.op \in {"fsub", "bitcast", "and"} /\ a.by = "convert-fcmp-eq"
        /\ a.fn = Indirect /\ a.to = {}
    BY DEF Converted, Plain, Instr, IsInstr
  <1>7. /\ IsInstr(b) /\ b.op \in {"fsub", "bitcast", "and"} /\ b.by = "convert-fcmp-eq"
        /\ b.fn = Indirect /\ b.to = {}
    BY DEF Converted, Plain, Instr, IsInstr
  <1>8. /\ IsInstr(c) /\ c.op \in {"fsub", "bitcast", "and"} /\ c.by = "convert-fcmp-eq"
        /\ c.fn = Indirect /\ c.to = {}
    BY DEF Converted, Plain, Instr, IsInstr
  <1>9. /\ IsInstr(d) /\ d.op \in {"fsub", "bitcast", "and"} /\ d.by = "convert-fcmp-eq"
        /\ d.fn = Indirect /\ d.to = {}
    BY DEF Converted, Plain, Instr, IsInstr
  <1>10. /\ IsInstr(e)
         /\ e.op = i.op /\ e.def = i.def /\ e.fn = i.fn /\ e.to = i.to /\ e.by = i.by
         /\ e.pred = CmpPred[i.pred]
    BY DEF Converted, Instr, IsInstr
  <1>. HIDE DEF a, b, c, d, e
  <1>11. MadeFrom(i, a)
    <2>1. \E part, ty : a.def = MadeFor(i.def, part, ty)
      BY <1>2, Zenon
    <2>. QED  BY <1>6, <2>1 DEF MadeFrom
  <1>12. MadeFrom(i, b)
    <2>1. \E part, ty : b.def = MadeFor(i.def, part, ty)
      BY <1>3, Zenon
    <2>. QED  BY <1>7, <2>1 DEF MadeFrom
  <1>13. MadeFrom(i, c)
    <2>1. \E part, ty : c.def = MadeFor(i.def, part, ty)
      BY <1>4, Zenon
    <2>. QED  BY <1>8, <2>1 DEF MadeFrom
  <1>14. MadeFrom(i, d)
    <2>1. \E part, ty : d.def = MadeFor(i.def, part, ty)
      BY <1>5, Zenon
    <2>. QED  BY <1>9, <2>1 DEF MadeFrom
  <1>15. TheSameBut(i, e)
    BY <1>10 DEF TheSameBut
  <1>. QED  BY <1>1, <1>11, <1>12, <1>13, <1>14, <1>15

\* A converted comparison is not an equality, and is not found again.
LEMMA NoLongerEquality ==
  ASSUME NEW pred \in Equalities
  PROVE  CmpPred[pred] \notin Equalities
  <1>1. /\ "E" \in OEQ /\ "U" \notin OEQ /\ "E" \in UEQ /\ "U" \in UEQ
        /\ "E" \notin ONE /\ "U" \notin ONE /\ "E" \notin UNE /\ "U" \in UNE
    BY DEF OEQ, UEQ, ONE, UNE
  <1>2. OEQ # UEQ /\ OEQ # ONE /\ OEQ # UNE /\ UEQ # ONE /\ UEQ # UNE /\ ONE # UNE
    BY <1>1
  <1>3. CmpPred[OEQ] = OLT /\ CmpPred[UEQ] = ULT /\ CmpPred[ONE] = OGE /\ CmpPred[UNE] = UGE
    BY <1>2 DEF CmpPred, Equalities
  <1>4. /\ "L" \notin OEQ /\ "G" \notin OEQ /\ "L" \notin UEQ /\ "G" \notin UEQ
        /\ "L" \in ONE /\ "G" \in ONE /\ "L" \in UNE /\ "G" \in UNE
    BY DEF OEQ, UEQ, ONE, UNE
  <1>5. /\ "L" \in OLT /\ "G" \notin OLT /\ "L" \in ULT /\ "G" \notin ULT
        /\ "L" \notin OGE /\ "G" \in OGE /\ "L" \notin UGE /\ "G" \in UGE
    BY DEF OLT, ULT, OGE, UGE
  <1>. QED  BY <1>3, <1>4, <1>5 DEF Equalities

-----------------------------------------------------------------------------
(* A body with instructions replaced, all at once.                         *)

MapBlocks(M, body) == [b \in DOMAIN body |-> FlatMap(M, body[b])]

\* A block in which each instruction has been replaced by a block is a block.
LEMMA FlatMapBlock ==
  ASSUME NEW S, NEW T, NEW M \in [S -> BlocksOver(T)], NEW block \in BlocksOver(S)
  PROVE  /\ FlatMap(M, block) \in BlocksOver(T)
         /\ Last(FlatMap(M, block)) = Last(M[Last(block)])
  <1>. DEFINE s == Front(block)
              x == Last(block)
  <1>1. s \in Seq(S) /\ x \in S /\ block = Append(s, x)
    BY BlockFacts, FrontAndLast
  <1>. HIDE DEF s, x
  <1>2. M \in [S -> Seq(T)] /\ M[x] \in BlocksOver(T)
    BY <1>1 DEF BlocksOver
  <1>3. FlatMap(M, s) \in Seq(T)
    BY <1>1, <1>2, FlatMapType
  <1>4. Grows(M, s, x)
    BY <1>1, <1>2, FlatMapGrows, Zenon
  <1>5. EndsAs(T, FlatMap(M, s), M[x])
    BY <1>2, <1>3, Prefixed, Zenon
  <1>. QED  BY <1>1, <1>4, <1>5, Zenon DEF Grows, EndsAs, x

\* So is a body made of such blocks, which holds what the replacements hold.
LEMMA MapBlocksOver ==
  ASSUME NEW S, NEW T, NEW M \in [S -> BlocksOver(T)], NEW body \in BodiesOver(S)
  PROVE  /\ MapBlocks(M, body) \in BodiesOver(T)
         /\ DOMAIN MapBlocks(M, body) = DOMAIN body
         /\ \A b \in DOMAIN body : /\ MapBlocks(M, body)[b] = FlatMap(M, body[b])
                                   /\ Last(MapBlocks(M, body)[b]) = Last(M[Last(body[b])])
         /\ \A y : y \in InstructionSet(MapBlocks(M, body)) <=> \E x \in InstructionSet(body) : y \in Range(M[x])
  <1>. DEFINE new == MapBlocks(M, body)
  <1>1. /\ DOMAIN new = DOMAIN body /\ new = [b \in DOMAIN body |-> new[b]]
        /\ \A b \in DOMAIN body : new[b] = FlatMap(M, body[b])
    BY DEF MapBlocks
  <1>. HIDE DEF new
  <1>2. ASSUME NEW b \in DOMAIN body
        PROVE  /\ new[b] \in BlocksOver(T) /\ Last(new[b]) = Last(M[Last(body[b])])
               /\ \A y : y \in Range(new[b]) <=> \E x \in Range(body[b]) : y \in Range(M[x])
    <2>1. body[b] \in BlocksOver(S) /\ body[b] \in Seq(S) /\ M \in [S -> Seq(T)]
      BY BodyFacts, BlockFacts DEF BlocksOver
    <2>2. FlatMap(M, body[b]) \in BlocksOver(T) /\ Last(FlatMap(M, body[b])) = Last(M[Last(body[b])])
      BY <2>1, FlatMapBlock
    <2>3. \A y : y \in Range(FlatMap(M, body[b])) <=> \E x \in Range(body[b]) : y \in Range(M[x])
      BY <2>1, FlatMapRange
    <2>. QED  BY <1>1, <2>2, <2>3
  <1>3. new \in BodiesOver(T)
    BY <1>1, <1>2, BlocksReplaced
  <1>4. \A y : y \in InstructionSet(new) <=> \E x \in InstructionSet(body) : y \in Range(M[x])
    BY <1>1, <1>2 DEF InstructionSet
  <1>. QED  BY <1>1, <1>2, <1>3, <1>4 DEF new

\* A list in which nothing is replaced.
LEMMA FlatMapKeeps ==
  ASSUME NEW S, NEW M \in [S -> Seq(S)]
  PROVE  \A s \in Seq(S) : (\A x \in Range(s) : M[x] = <<x>>) => FlatMap(M, s) = s
  <1>. DEFINE Holds(s) == (\A x \in Range(s) : M[x] = <<x>>) => FlatMap(M, s) = s
              D == {s \in Seq(S) : Holds(s)}
  <1>1. <<>> \in D
    BY FlatMapEmpty
  <1>2. ASSUME NEW s \in Seq(S), NEW x \in S, s \in D PROVE Append(s, x) \in D
    <2>. SUFFICES ASSUME \A y \in Range(Append(s, x)) : M[y] = <<y>>
                  PROVE  FlatMap(M, Append(s, x)) = Append(s, x)
      OBVIOUS
    <2>1. \A y \in Range(s) \cup {x} : y \in Range(Append(s, x))
      <3>. DEFINE t == Append(s, x)
      <3>1. /\ t[Len(s) + 1] = x /\ Len(s) + 1 \in DOMAIN t
            /\ \A k \in DOMAIN s : k \in DOMAIN t /\ t[k] = s[k]
        OBVIOUS
      <3>. HIDE DEF t
      <3>2. \A y \in Range(s) \cup {x} : y \in Range(t)
        BY <3>1 DEF Range
      <3>. QED  BY <3>2 DEF t
    <2>2. FlatMap(M, s) = s /\ M[x] = <<x>>
      BY <1>2, <2>1
    <2>3. FlatMap(M, Append(s, x)) = FlatMap(M, s) \o M[x]
      <3>1. Grows(M, s, x)
        BY FlatMapGrows, Zenon
      <3>. QED  BY <3>1, Zenon DEF Grows
    <2>4. s \o <<x>> = Append(s, x)
      OBVIOUS
    <2>. QED  BY <2>2, <2>3, <2>4
  <1>. HIDE DEF D
  <1>3. Seq(S) \subseteq D
    BY <1>1, <1>2, ListInduction
  <1>. QED  BY <1>3 DEF D

\* Replacing is such a map.
ReplacementMap(S, v, is) == [i \in S |-> IF i.def = v THEN is ELSE <<i>>]

\* Replacing the instruction that defines a value replaces one instruction.
LEMMA ReplacingIsMap ==
  ASSUME NEW S, NEW body \in BodiesOver(S), NEW v, NEW is
  PROVE  Replacing(body, v, is) = MapBlocks(ReplacementMap(S, v, is), body)
  <1>1. ASSUME NEW b \in DOMAIN body
        PROVE  ReplacingIn(body[b], v, is) = FlatMap(ReplacementMap(S, v, is), body[b])
    <2>. DEFINE block == body[b]
    <2>1. block \in Seq(S)
      BY BodyFacts, BlockFacts
    <2>. HIDE DEF block
    <2>2. \A k \in DOMAIN block : ReplacementMap(S, v, is)[block[k]] = IF block[k].def = v THEN is ELSE <<block[k]>>
      BY <2>1 DEF ReplacementMap
    <2>3. [k \in DOMAIN block |-> IF block[k].def = v THEN is ELSE <<block[k]>>]
            = [k \in DOMAIN block |-> ReplacementMap(S, v, is)[block[k]]]
      BY <2>2
    <2>. QED  BY <2>3 DEF ReplacingIn, FlatMap, block
  <1>. QED  BY <1>1 DEF Replacing, MapBlocks

-----------------------------------------------------------------------------
(* All comparisons of a body, one after the other.                         *)

\* Instructions among which a comparison is known by the value it defines,
\* which no conversion makes anew.
ComparisonsKnown(S) ==
  /\ \A i \in S : IsInstr(i)
  /\ \A i, j \in S : i.op = "fcmp" /\ i.def = j.def => i = j
  /\ \A i, j \in S : i.op = "fcmp" /\ j.op = "fcmp" => \A part, ty : MadeFor(i.def, part, ty) # j.def

WithConverted(S) == S \cup UNION {Range(Converted(i)) : i \in S}

\* What stands for each instruction when the equalities that define the
\* values in D are converted.
Conversion(S, D) == [i \in S |-> IF IsEquality(i) /\ i.def \in D THEN Converted(i) ELSE <<i>>]

\* What replaces a comparison is a block that ends with the comparison.
LEMMA ConvertedBlock ==
  ASSUME NEW S, NEW i \in S, IsInstr(i)
  PROVE  /\ Converted(i) \in BlocksOver(WithConverted(S))
         /\ \A j \in Range(Converted(i)) : MadeFrom(i, j) \/ TheSameBut(i, j)
         /\ \E j \in Range(Converted(i)) : TheSameBut(i, j)
         /\ TheSameBut(i, Last(Converted(i)))
  <1>1. PICK a, b, c, d, e :
           /\ Converted(i) = <<a, b, c, d, e>>
           /\ MadeFrom(i, a) /\ MadeFrom(i, b) /\ MadeFrom(i, c) /\ MadeFrom(i, d)
           /\ TheSameBut(i, e)
    BY ConvertedIs
  <1>2. Range(Converted(i)) = {a, b, c, d, e}
    <2>1. Range(<<a, b, c, d, e>>) = {a, b, c, d, e}
      BY DEF Range
    <2>. QED  BY <1>1, <2>1, Zenon
  <1>3. a \in WithConverted(S) /\ b \in WithConverted(S) /\ c \in WithConverted(S)
        /\ d \in WithConverted(S) /\ e \in WithConverted(S)
    BY <1>2 DEF WithConverted
  <1>4. <<a, b, c, d, e>> \in BlocksOver(WithConverted(S))
    <2>. DEFINE T == WithConverted(S)
    <2>. HIDE DEF T
    <2>1. a \in T /\ b \in T /\ c \in T /\ d \in T /\ e \in T
      BY <1>3 DEF T
    <2>2. <<a, b, c, d, e>> \in Seq(T) /\ <<a, b, c, d, e>> # <<>>
      BY <2>1
    <2>. QED  BY <2>2 DEF T, BlocksOver
  <1>5. Last(<<a, b, c, d, e>>) = e
    BY DEF Last
  <1>6. Converted(i) \in BlocksOver(WithConverted(S))
    BY <1>1, <1>4, Zenon
  <1>7. \A j \in Range(Converted(i)) : MadeFrom(i, j) \/ TheSameBut(i, j)
    BY <1>1, <1>2, Zenon
  <1>8. \E j \in Range(Converted(i)) : TheSameBut(i, j)
    <2>1. e \in Range(Converted(i))
      BY <1>2, Zenon
    <2>. QED  BY <1>1, <2>1, Zenon
  <1>9. TheSameBut(i, Last(Converted(i)))
    BY <1>1, <1>5, Zenon
  <1>. QED  BY <1>6, <1>7, <1>8, <1>9

\* Every instruction of a body is replaced by a block.
LEMMA ConversionType ==
  ASSUME NEW S, ComparisonsKnown(S), NEW D
  PROVE  Conversion(S, D) \in [S -> BlocksOver(WithConverted(S))]
  <1>. SUFFICES ASSUME NEW i \in S PROVE Conversion(S, D)[i] \in BlocksOver(WithConverted(S))
    BY DEF Conversion
  <1>1. Converted(i) \in BlocksOver(WithConverted(S))
    BY ConvertedBlock DEF ComparisonsKnown
  <1>2. <<i>> \in BlocksOver(WithConverted(S))
    BY DEF BlocksOver, WithConverted
  <1>. QED  BY <1>1, <1>2, Zenon DEF Conversion

\* Of the instructions of a body converted so far, those that define the value
\* of a comparison p.
LEMMA OnlyOneDefines ==
  ASSUME NEW S, ComparisonsKnown(S), NEW D, NEW p \in S, IsEquality(p),
         NEW i \in S, NEW j \in Range(Conversion(S, D)[i]), j.def = p.def
  PROVE  i = p /\ IF p.def \in D THEN TheSameBut(p, j) ELSE j = p
  <1>1. p.op = "fcmp" /\ IsInstr(i)
    BY DEF IsEquality, ComparisonsKnown
  <1>2. CASE IsEquality(i) /\ i.def \in D
    <2>1. Conversion(S, D)[i] = Converted(i)
      BY <1>2, Zenon DEF Conversion
    <2>2. MadeFrom(i, j) \/ TheSameBut(i, j)
      BY <1>1, <2>1, ConvertedBlock
    <2>3. ~MadeFrom(i, j)
      BY <1>1, <1>2 DEF MadeFrom, ComparisonsKnown, IsEquality
    <2>4. i.def = p.def
      BY <2>2, <2>3 DEF TheSameBut
    <2>5. i = p
      BY <1>1, <2>4 DEF ComparisonsKnown
    <2>. QED  BY <1>2, <2>2, <2>3, <2>5
  <1>3. CASE ~(IsEquality(i) /\ i.def \in D)
    <2>1. Conversion(S, D)[i] = <<i>>
      BY <1>3, Zenon DEF Conversion
    <2>2. Range(<<i>>) = {i}
      BY DEF Range
    <2>3. j = i
      BY <2>1, <2>2, Zenon
    <2>4. i = p
      BY <1>1, <2>3 DEF ComparisonsKnown
    <2>. QED  BY <1>3, <2>3, <2>4
  <1>. QED  BY <1>2, <1>3

\* Converting one more comparison of a body.
LEMMA ConvertOne ==
  ASSUME NEW S, ComparisonsKnown(S), NEW body \in BodiesOver(S), InstructionSet(body) = S,
         NEW D, NEW p \in S, IsEquality(p)
  PROVE  ConvertFCmpEqInstruction(MapBlocks(Conversion(S, D), body), p.def)
           = MapBlocks(Conversion(S, D \cup {p.def}), body)
  <1>. DEFINE T == WithConverted(S)
              M == Conversion(S, D)
              N == Conversion(S, D \cup {p.def})
              now == MapBlocks(M, body)
  <1>1. /\ M \in [S -> BlocksOver(T)] /\ N \in [S -> BlocksOver(T)]
        /\ IsInstr(p) /\ p.op = "fcmp" /\ p.pred \in Equalities
    BY ConversionType DEF ComparisonsKnown, IsEquality
  <1>2. /\ now \in BodiesOver(T)
        /\ \A y : y \in InstructionSet(now) <=> \E x \in S : y \in Range(M[x])
    BY <1>1, MapBlocksOver
  <1>3. ASSUME NEW i \in S, NEW j \in Range(M[i]), j.def = p.def
        PROVE  i = p /\ IF p.def \in D THEN TheSameBut(p, j) ELSE j = p
    BY <1>3, OnlyOneDefines
  <1>4. CASE p.def \in D
    <2>1. M = N
      <3>1. D \cup {p.def} = D
        BY <1>4
      <3>. QED  BY <3>1, Zenon
    <2>2. M[p] = Converted(p)
      BY <1>4, Zenon DEF Conversion
    <2>3. PICK a, b, c, d, q :
             /\ Converted(p) = <<a, b, c, d, q>>
             /\ MadeFrom(p, a) /\ MadeFrom(p, b) /\ MadeFrom(p, c) /\ MadeFrom(p, d)
             /\ TheSameBut(p, q)
      BY <1>1, ConvertedIs
    <2>4. Range(<<a, b, c, d, q>>) = {a, b, c, d, q}
      BY DEF Range
    <2>5. q \in Range(M[p])
      BY <2>2, <2>3, <2>4, Zenon
    <2>6. q \in InstructionSet(now) /\ q.def = p.def
      BY <1>2, <2>3, <2>5, Zenon DEF TheSameBut
    <2>7. ASSUME NEW j \in InstructionSet(now), j.def = q.def PROVE j = q
      <3>1. PICK i \in S : j \in Range(M[i])
        BY <1>2
      <3>2. i = p /\ TheSameBut(p, j)
        BY <1>3, <1>4, <2>6, <2>7, <3>1
      <3>3. j \in Range(Converted(p))
        BY <2>2, <3>1, <3>2, Zenon
      <3>4. j \in {a, b, c, d, q}
        BY <2>3, <2>4, <3>3, Zenon
      <3>5. j.op = "fcmp"
        BY <1>1, <3>2 DEF TheSameBut
      <3>6. a.op # "fcmp" /\ b.op # "fcmp" /\ c.op # "fcmp" /\ d.op # "fcmp"
        BY <2>3 DEF MadeFrom
      <3>. QED  BY <3>4, <3>5, <3>6
    <2>8. Pointee(now, p.def) = q
      <3>. HIDE DEF now
      <3>. QED  BY <1>2, <2>6, <2>7, PointeeIs
    <2>9. ~IsEquality(q)
      <3>1. q.pred = CmpPred[p.pred]
        BY <2>3 DEF TheSameBut
      <3>2. CmpPred[p.pred] \notin Equalities
        BY <1>1, NoLongerEquality
      <3>. QED  BY <3>1, <3>2 DEF IsEquality
    <2>. HIDE DEF now
    <2>10. ConvertFCmpEqInstruction(now, p.def) = now
      BY <2>8, <2>9 DEF ConvertFCmpEqInstruction
    <2>. QED  BY <2>1, <2>10, Zenon DEF now
  <1>5. CASE p.def \notin D
    <2>1. M[p] = <<p>>
      BY <1>5, Zenon DEF Conversion
    <2>2. Range(<<p>>) = {p}
      BY DEF Range
    <2>3. p \in InstructionSet(now)
      BY <1>2, <2>1, <2>2, Zenon
    <2>4. ASSUME NEW j \in InstructionSet(now), j.def = p.def PROVE j = p
      <3>1. PICK i \in S : j \in Range(M[i])
        BY <1>2
      <3>. QED  BY <1>3, <1>5, <2>4, <3>1
    <2>5. Pointee(now, p.def) = p
      <3>. HIDE DEF now
      <3>. QED  BY <1>2, <2>3, <2>4, PointeeIs
    <2>. DEFINE R == ReplacementMap(T, p.def, Converted(p))
    <2>6. ConvertFCmpEqInstruction(now, p.def) = MapBlocks(R, now)
      <3>. HIDE DEF now
      <3>. QED  BY <1>2, <2>5, ReplacingIsMap DEF ConvertFCmpEqInstruction
    <2>7. R \in [T -> Seq(T)]
      <3>1. Converted(p) \in BlocksOver(T)
        BY <1>1, ConvertedBlock
      <3>. HIDE DEF T
      <3>2. Converted(p) \in Seq(T)
        BY <3>1 DEF BlocksOver
      <3>3. \A i \in T : <<i>> \in Seq(T)
        OBVIOUS
      <3>. QED  BY <3>2, <3>3 DEF ReplacementMap
    <2>8. ASSUME NEW i \in S PROVE FlatMap(R, M[i]) = N[i]
      <3>1. M[i] \in Seq(T) /\ \A j \in Range(M[i]) : j \in T
        <4>1. M[i] \in BlocksOver(T)
          BY <1>1
        <4>2. M[i] \in Seq(T)
          BY <4>1 DEF BlocksOver
        <4>. HIDE DEF M, T
        <4>. QED  BY <4>2 DEF Range
      <3>2. CASE i = p
        <4>1. p \in T /\ R[p] = Converted(p)
          BY DEF WithConverted, ReplacementMap
        <4>2. FlatMap(R, <<p>>) = R[p]
          <5>. HIDE DEF R, T
          <5>. QED  BY <2>7, <4>1, FlatMapOne
        <4>3. N[p] = Converted(p)
          BY Zenon DEF Conversion
        <4>. QED  BY <2>1, <3>2, <4>1, <4>2, <4>3, Zenon
      <3>3. CASE i # p
        <4>1. \A j \in Range(M[i]) : j.def # p.def
          BY <1>3, <3>3
        <4>2. \A j \in Range(M[i]) : R[j] = <<j>>
          BY <3>1, <4>1 DEF ReplacementMap
        <4>3. FlatMap(R, M[i]) = M[i]
          <5>. HIDE DEF R, T, M
          <5>. QED  BY <2>7, <3>1, <4>2, FlatMapKeeps
        <4>4. IsEquality(i) => i.def # p.def
          BY <1>1, <3>3 DEF ComparisonsKnown
        <4>5. N[i] = M[i]
          <5>1. (IsEquality(i) /\ i.def \in D \cup {p.def}) <=> (IsEquality(i) /\ i.def \in D)
            BY <4>4
          <5>. QED  BY <5>1, Zenon DEF Conversion
        <4>. QED  BY <4>3, <4>5
      <3>. QED  BY <3>2, <3>3
    <2>9. ASSUME NEW b \in DOMAIN body PROVE FlatMap(R, now[b]) = FlatMap(N, body[b])
      <3>1. body[b] \in Seq(S) /\ now[b] = FlatMap(M, body[b])
        <4>1. body[b] \in Seq(S)
          BY BodyFacts, BlockFacts
        <4>. QED  BY <4>1 DEF MapBlocks
      <3>2. M \in [S -> Seq(T)] /\ N \in [S -> Seq(T)]
        BY <1>1 DEF BlocksOver
      <3>. HIDE DEF R, M, N, T, now
      <3>3. \A x \in S : FlatMap(R, M[x]) = N[x]
        BY <2>8
      <3>4. Composed(S, M, R, N)
        BY <2>7, <3>2, <3>3, FlatMapsCompose
      <3>. QED  BY <3>1, <3>4, Zenon DEF Composed
    <2>10. MapBlocks(R, now) = MapBlocks(N, body)
      <3>1. DOMAIN now = DOMAIN body
        BY DEF MapBlocks
      <3>. HIDE DEF R, N, now
      <3>. QED  BY <2>9, <3>1 DEF MapBlocks
    <2>. QED  BY <2>6, <2>10
  <1>. QED  BY <1>4, <1>5

\* c holds the body with the comparisons of vs converted, up to each of them.
IsConverting(c, body, vs) ==
  /\ DOMAIN c = 0 .. Len(vs)
  /\ c[0] = body
  /\ \A n \in 1 .. Len(vs) : c[n] = ConvertFCmpEqInstruction(c[n - 1], vs[n])

ConvertsFirst(body, vs, N, g) ==
  g = [s \in SUBSET (1 .. N) |-> IF s = {} THEN body ELSE ConvertFCmpEqInstruction(g[s \ {Max(s)}], vs[Max(s)])]

\* The last of the first places is their greatest.
LEMMA MaxOf ==
  ASSUME NEW n \in Nat, NEW s \in SUBSET (1 .. n + 1), n + 1 \in s
  PROVE  Max(s) = n + 1
  <1>1. n + 1 \in s /\ \A y \in s : n + 1 >= y
    OBVIOUS
  <1>2. \A x \in s : (\A y \in s : x >= y) => x = n + 1
    <2>1. \A x \in s : x \in Int /\ x <= n + 1
      OBVIOUS
    <2>. QED  BY <2>1
  <1>. QED  BY <1>1, <1>2 DEF Max

\* The first n numbers, as the folds of the library take them apart.
LEMMA FirstNumbers ==
  ASSUME NEW N \in Nat, NEW n \in 1 .. N
  PROVE  1 .. n \in SUBSET (1 .. N) /\ 1 .. n # {} /\ (1 .. n) \ {n} = 1 .. n - 1 /\ Max(1 .. n) = n
  <1>1. n \in Nat /\ n >= 1 /\ n <= N /\ n - 1 \in Nat /\ (n - 1) + 1 = n
    OBVIOUS
  <1>2. \A k \in 1 .. n : k \in 1 .. N
    BY <1>1
  <1>3. n \in 1 .. n
    BY <1>1
  <1>4. \A k : k \in (1 .. n) \ {n} <=> k \in 1 .. n - 1
    BY <1>1
  <1>5. Max(1 .. n) = n
    <2>1. 1 .. n \in SUBSET (1 .. (n - 1) + 1) /\ (n - 1) + 1 \in 1 .. n
      BY <1>1
    <2>. QED  BY <1>1, <2>1, MaxOf
  <1>. QED  BY <1>2, <1>3, <1>4, <1>5

\* The list can be converted up to any of its values.
LEMMA ConvertersExist ==
  ASSUME NEW body, NEW vs
  PROVE  \A N \in Nat : \E g : ConvertsFirst(body, vs, N, g)
  <1>. DEFINE D == {N \in Nat : \E g : ConvertsFirst(body, vs, N, g)}
  <1>1. 0 \in D
    <2>. DEFINE g == [s \in SUBSET (1 .. 0) |-> body]
    <2>1. \A s \in SUBSET (1 .. 0) : s = {}
      OBVIOUS
    <2>2. ConvertsFirst(body, vs, 0, g)
      BY <2>1 DEF ConvertsFirst
    <2>. QED  BY <2>2
  <1>2. ASSUME NEW N \in Nat, N \in D PROVE N + 1 \in D
    <2>1. PICK g : ConvertsFirst(body, vs, N, g)
      BY <1>2
    <2>. DEFINE Below == SUBSET (1 .. N)
                All == SUBSET (1 .. N + 1)
                h == [s \in All |-> IF N + 1 \in s THEN ConvertFCmpEqInstruction(g[s \ {N + 1}], vs[N + 1]) ELSE g[s]]
    <2>2. ASSUME NEW s \in All
          PROVE  h[s] = IF s = {} THEN body ELSE ConvertFCmpEqInstruction(h[s \ {Max(s)}], vs[Max(s)])
      <3>1. CASE N + 1 \in s
        <4>1. Max(s) = N + 1
          BY <3>1, MaxOf
        <4>2. s \ {N + 1} \in All /\ N + 1 \notin s \ {N + 1}
          OBVIOUS
        <4>3. h[s \ {N + 1}] = g[s \ {N + 1}]
          BY <4>2
        <4>. QED  BY <3>1, <4>1, <4>3
      <3>2. CASE N + 1 \notin s
        <4>1. s \in Below
          BY <3>2
        <4>2. g[s] = IF s = {} THEN body ELSE ConvertFCmpEqInstruction(g[s \ {Max(s)}], vs[Max(s)])
          BY <2>1, <4>1, Zenon DEF ConvertsFirst
        <4>3. s \ {Max(s)} \in All /\ N + 1 \notin s \ {Max(s)}
          BY <3>2
        <4>4. h[s] = g[s] /\ h[s \ {Max(s)}] = g[s \ {Max(s)}]
          BY <3>2, <4>3
        <4>. HIDE DEF h
        <4>. QED  BY <4>2, <4>4
      <3>. QED  BY <3>1, <3>2
    <2>3. ConvertsFirst(body, vs, N + 1, h)
      BY <2>2, Zenon DEF ConvertsFirst
    <2>. QED  BY <2>3
  <1>. HIDE DEF D
  <1>3. Nat \subseteq D
    BY <1>1, <1>2, Induction
  <1>. QED  BY <1>3 DEF D

\* Converting a list of values is a chain of bodies, each made from the last.
LEMMA ConvertingExists ==
  ASSUME NEW V, NEW vs \in Seq(V), NEW body
  PROVE  \E c : IsConverting(c, body, vs) /\ FoldLeft(ConvertFCmpEqInstruction, body, vs) = c[Len(vs)]
  <1>. DEFINE N == Len(vs)
              f == CHOOSE g : ConvertsFirst(body, vs, N, g)
  <1>1. N \in Nat /\ DOMAIN vs = 1 .. N
    OBVIOUS
  <1>2. ConvertsFirst(body, vs, N, f)
    BY <1>1, ConvertersExist
  <1>3. FoldLeft(ConvertFCmpEqInstruction, body, vs) = f[1 .. N]
    BY <1>1 DEF FoldLeft, MapThenFoldSet, ConvertsFirst
  <1>. HIDE DEF f
  <1>. DEFINE c == [n \in 0 .. N |-> f[1 .. n]]
  <1>4. c[0] = body
    <2>1. 1 .. 0 = {} /\ 1 .. 0 \in SUBSET (1 .. N)
      OBVIOUS
    <2>. QED  BY <1>1, <1>2, <2>1 DEF ConvertsFirst
  <1>5. ASSUME NEW n \in 1 .. N PROVE c[n] = ConvertFCmpEqInstruction(c[n - 1], vs[n])
    <2>1. 1 .. n \in SUBSET (1 .. N) /\ 1 .. n # {} /\ (1 .. n) \ {n} = 1 .. n - 1 /\ Max(1 .. n) = n
      BY <1>1, FirstNumbers
    <2>2. f[1 .. n] = ConvertFCmpEqInstruction(f[1 .. n - 1], vs[n])
      BY <1>2, <2>1 DEF ConvertsFirst
    <2>3. c[n] = f[1 .. n] /\ c[n - 1] = f[1 .. n - 1]
      BY <1>1
    <2>. QED  BY <2>2, <2>3
  <1>6. IsConverting(c, body, vs)
    BY <1>4, <1>5 DEF IsConverting
  <1>7. FoldLeft(ConvertFCmpEqInstruction, body, vs) = c[N]
    BY <1>1, <1>3
  <1>. QED  BY <1>6, <1>7

\* The list of comparisons holds the values that equalities define.
LEMMA FoundAre ==
  ASSUME NEW S, NEW body \in BodiesOver(S), InstructionSet(body) = S
  PROVE  /\ FindFCmpEq(body) \in Seq({i.def : i \in S})
         /\ \A v : v \in Range(FindFCmpEq(body)) <=> \E i \in S : IsEquality(i) /\ i.def = v
  <1>. DEFINE V == {i.def : i \in S}
              M == [i \in S |-> IF IsEquality(i) THEN <<i.def>> ELSE <<>>]
              is == Instructions(body)
  <1>1. is \in Seq(S) /\ Range(is) = S
    BY InstructionsHold
  <1>. HIDE DEF is
  <1>2. FindFCmpEq(body) = FlatMap(M, is)
    <2>1. \A k \in DOMAIN is : M[is[k]] = IF IsEquality(is[k]) THEN <<is[k].def>> ELSE <<>>
      BY <1>1
    <2>2. [k \in DOMAIN is |-> IF IsEquality(is[k]) THEN <<is[k].def>> ELSE <<>>] = [k \in DOMAIN is |-> M[is[k]]]
      BY <2>1
    <2>. QED  BY <2>2 DEF FindFCmpEq, FlatMap, is
  <1>3. M \in [S -> Seq(V)]
    <2>1. \A i \in S : <<i.def>> \in Seq(V) /\ <<>> \in Seq(V)
      OBVIOUS
    <2>. HIDE DEF V
    <2>. QED  BY <2>1
  <1>4. \A v : \A i \in S : v \in Range(M[i]) <=> IsEquality(i) /\ i.def = v
    <2>1. \A x : Range(<<x>>) = {x}
      BY DEF Range
    <2>2. Range(<<>>) = {}
      BY DEF Range
    <2>. QED  BY <2>1, <2>2, Zenon
  <1>. HIDE DEF M, V
  <1>5. \A v : v \in Range(FlatMap(M, is)) <=> \E i \in Range(is) : v \in Range(M[i])
    BY <1>1, <1>3, FlatMapRange
  <1>6. FlatMap(M, is) \in Seq(V)
    BY <1>1, <1>3, FlatMapType
  <1>7. \A v : v \in Range(FindFCmpEq(body)) <=> \E i \in S : IsEquality(i) /\ i.def = v
    BY <1>1, <1>2, <1>4, <1>5
  <1>. QED  BY <1>2, <1>6, <1>7 DEF V

\* convert-fcmp-eq on a body, one comparison after the other, puts what
\* Converted says for every equality, and touches nothing else.
THEOREM ConvertsEach ==
  ASSUME NEW S, ComparisonsKnown(S), NEW body \in BodiesOver(S), InstructionSet(body) = S
  PROVE  FoldLeft(ConvertFCmpEqInstruction, body, FindFCmpEq(body))
           = MapBlocks(Conversion(S, Range(FindFCmpEq(body))), body)
  <1>. DEFINE vs == FindFCmpEq(body)
              V == {i.def : i \in S}
              First(n) == {vs[m] : m \in 1 .. n}
  <1>1. /\ vs \in Seq(V)
        /\ \A v : v \in Range(vs) <=> \E i \in S : IsEquality(i) /\ i.def = v
    BY FoundAre
  <1>. HIDE DEF vs
  <1>2. PICK c : IsConverting(c, body, vs) /\ FoldLeft(ConvertFCmpEqInstruction, body, vs) = c[Len(vs)]
    BY <1>1, ConvertingExists
  <1>3. Len(vs) \in Nat /\ DOMAIN vs = 1 .. Len(vs)
    BY <1>1
  <1>. DEFINE D == {n \in Nat : n <= Len(vs) => c[n] = MapBlocks(Conversion(S, First(n)), body)}
  <1>4. 0 \in D
    <2>1. First(0) = {}
      OBVIOUS
    <2>. DEFINE M == Conversion(S, {})
                T == WithConverted(S)
    <2>2. \A i \in S : M[i] = <<i>>
      BY DEF Conversion
    <2>3. ASSUME NEW b \in DOMAIN body PROVE FlatMap(M, body[b]) = body[b]
      <3>1. body[b] \in Seq(S)
        BY BodyFacts, BlockFacts
      <3>2. M \in [S -> Seq(S)]
        <4>1. \A i \in S : <<i>> \in Seq(S)
          OBVIOUS
        <4>2. M = [i \in S |-> <<i>>]
          BY DEF Conversion
        <4>. QED  BY <4>1, <4>2
      <3>3. \A x \in Range(body[b]) : M[x] = <<x>>
        <4>1. \A x \in Range(body[b]) : x \in S
          BY <3>1 DEF Range
        <4>. QED  BY <2>2, <4>1
      <3>. HIDE DEF M
      <3>. QED  BY <3>1, <3>2, <3>3, FlatMapKeeps, Zenon
    <2>4. body = [b \in DOMAIN body |-> body[b]]
      BY BodyFacts DEF BodiesOver
    <2>5. MapBlocks(M, body) = body
      <3>. HIDE DEF M
      <3>. QED  BY <2>3, <2>4 DEF MapBlocks
    <2>6. c[0] = body
      BY <1>2 DEF IsConverting
    <2>. QED  BY <2>1, <2>5, <2>6, Zenon
  <1>5. ASSUME NEW n \in Nat, n \in D PROVE n + 1 \in D
    <2>. SUFFICES ASSUME n + 1 <= Len(vs)
                  PROVE  c[n + 1] = MapBlocks(Conversion(S, First(n + 1)), body)
      OBVIOUS
    <2>1. n + 1 \in 1 .. Len(vs) /\ (n + 1) - 1 = n /\ n <= Len(vs)
      BY <1>3
    <2>2. c[n + 1] = ConvertFCmpEqInstruction(c[n], vs[n + 1])
      BY <1>2, <2>1 DEF IsConverting
    <2>3. c[n] = MapBlocks(Conversion(S, First(n)), body)
      BY <1>5, <2>1
    <2>4. vs[n + 1] \in Range(vs)
      BY <1>3, <2>1 DEF Range
    <2>5. PICK p \in S : IsEquality(p) /\ p.def = vs[n + 1]
      BY <1>1, <2>4
    <2>6. First(n + 1) = First(n) \cup {p.def}
      <3>1. 1 .. n + 1 = (1 .. n) \cup {n + 1}
        OBVIOUS
      <3>. QED  BY <2>5, <3>1
    <2>. DEFINE F == First(n)
    <2>. HIDE DEF First, F
    <2>7. ConvertFCmpEqInstruction(MapBlocks(Conversion(S, F), body), p.def)
            = MapBlocks(Conversion(S, F \cup {p.def}), body)
      BY <2>5, ConvertOne
    <2>. QED  BY <2>2, <2>3, <2>5, <2>6, <2>7, Zenon DEF F
  <1>. HIDE DEF D
  <1>6. Nat \subseteq D
    BY <1>4, <1>5, Induction
  <1>7. c[Len(vs)] = MapBlocks(Conversion(S, First(Len(vs))), body)
    BY <1>3, <1>6 DEF D
  <1>8. First(Len(vs)) = Range(vs)
    BY <1>3 DEF Range
  <1>. QED  BY <1>2, <1>7, <1>8, Zenon DEF vs
=============================================================================
