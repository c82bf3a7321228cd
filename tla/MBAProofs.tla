------------------------------ MODULE MBAProofs ------------------------------
(***************************************************************************)
(* The mba passes, for every function they may be run on:                  *)
(*   - AddIdentity, SubIdentity: the arithmetic the replacements rest on;  *)
(*   - TypeCorrect, TargetsAreReplacedOnce, PreservedUntouched: the walk;  *)
(*   - ValuesAreKept: every value of the function is what it was.          *)
(* Blocks and the instructions in them are gone through with the induction *)
(* principle of module IRProofs.                                           *)
(***************************************************************************)
EXTENDS MBA, IRProofs, SequenceTheorems
-----------------------------------------------------------------------------
(* Bitwise operators by halves: x ^ y and x & y add up to x + y.           *)

\* One bit.
LEMMA HalfAdder1 ==
  ASSUME NEW a \in 0 .. 1, NEW b \in 0 .. 1
  PROVE  /\ Xor1(a, b) \in 0 .. 1 /\ And1(a, b) \in 0 .. 1
         /\ Xor1(a, b) + 2 * And1(a, b) = a + b
  <1>1. a \in {0, 1} /\ b \in {0, 1} OBVIOUS
  <1> QED BY <1>1 DEF Xor1, And1

\* Two bits, from the bits of the operands.
LEMMA HalfAdder2 ==
  ASSUME NEW a \in 0 .. 3, NEW b \in 0 .. 3
  PROVE  /\ Xor2(a, b) \in 0 .. 3 /\ And2(a, b) \in 0 .. 3
         /\ Xor2(a, b) + 2 * And2(a, b) = a + b
  <1>1. /\ a % 2 \in 0 .. 1 /\ b % 2 \in 0 .. 1
        /\ a \div 2 \in 0 .. 1 /\ b \div 2 \in 0 .. 1
        /\ a = (a % 2) + 2 * (a \div 2) /\ b = (b % 2) + 2 * (b \div 2) OBVIOUS
  <1> HIDE DEF Xor1, And1
  <1> QED BY <1>1, HalfAdder1 DEF Xor2, And2

\* Four bits, from the halves of the operands.
LEMMA HalfAdder4 ==
  ASSUME NEW a \in 0 .. 15, NEW b \in 0 .. 15
  PROVE  /\ Xor4(a, b) \in 0 .. 15 /\ And4(a, b) \in 0 .. 15
         /\ Xor4(a, b) + 2 * And4(a, b) = a + b
  <1>1. /\ a % 4 \in 0 .. 3 /\ b % 4 \in 0 .. 3
        /\ a \div 4 \in 0 .. 3 /\ b \div 4 \in 0 .. 3
        /\ a = (a % 4) + 4 * (a \div 4) /\ b = (b % 4) + 4 * (b \div 4) OBVIOUS
  <1> QED BY <1>1, HalfAdder2 DEF Xor4, And4

\* Eight bits, from the halves of the operands.
LEMMA HalfAdder8 ==
  ASSUME NEW a \in 0 .. 255, NEW b \in 0 .. 255
  PROVE  /\ Xor8(a, b) \in 0 .. 255 /\ And8(a, b) \in 0 .. 255
         /\ Xor8(a, b) + 2 * And8(a, b) = a + b
  <1> DEFINE al == a % 16
             ah == a \div 16
             bl == b % 16
             bh == b \div 16
  <1>1. al \in 0 .. 15 /\ ah \in 0 .. 15 /\ a = al + 16 * ah OBVIOUS
  <1>2. bl \in 0 .. 15 /\ bh \in 0 .. 15 /\ b = bl + 16 * bh OBVIOUS
  <1> HIDE DEF al, ah, bl, bh
  <1>3. /\ Xor4(al, bl) \in 0 .. 15 /\ And4(al, bl) \in 0 .. 15
        /\ Xor4(al, bl) + 2 * And4(al, bl) = al + bl BY <1>1, <1>2, HalfAdder4
  <1>4. /\ Xor4(ah, bh) \in 0 .. 15 /\ And4(ah, bh) \in 0 .. 15
        /\ Xor4(ah, bh) + 2 * And4(ah, bh) = ah + bh BY <1>1, <1>2, HalfAdder4
  <1>5. /\ Xor8(a, b) = Xor4(al, bl) + 16 * Xor4(ah, bh)
        /\ And8(a, b) = And4(al, bl) + 16 * And4(ah, bh)
        BY DEF Xor8, And8, al, ah, bl, bh
  <1> DEFINE xl == Xor4(al, bl)
             xh == Xor4(ah, bh)
             nl == And4(al, bl)
             nh == And4(ah, bh)
  <1>6. /\ xl \in 0 .. 15 /\ xh \in 0 .. 15 /\ nl \in 0 .. 15 /\ nh \in 0 .. 15
        /\ Xor8(a, b) = xl + 16 * xh /\ And8(a, b) = nl + 16 * nh
        /\ xl + 2 * nl = al + bl /\ xh + 2 * nh = ah + bh BY <1>3, <1>4, <1>5
  <1> HIDE DEF xl, xh, nl, nh
  <1> QED BY <1>1, <1>2, <1>6

\* The 16-bit operators on 8-bit operands.
LEMMA HalfAdder16 ==
  ASSUME NEW a \in 0 .. 255, NEW b \in 0 .. 255
  PROVE  /\ Xor16(a, b) \in 0 .. 255 /\ And16(a, b) \in 0 .. 255
         /\ Xor16(a, b) + 2 * And16(a, b) = a + b
  <1>1. PICK z \in 0 .. 255 : z = 0 OBVIOUS
  <1>2. a % 256 = a /\ b % 256 = b /\ a \div 256 = z /\ b \div 256 = z BY <1>1
  <1>3. Xor8(z, z) = 0 /\ And8(z, z) = 0
    <2> DEFINE x == Xor8(z, z)
               n == And8(z, z)
    <2>1. x \in 0 .. 255 /\ n \in 0 .. 255 /\ x + 2 * n = z + z BY HalfAdder8
    <2> HIDE DEF x, n
    <2>2. x = 0 /\ n = 0 BY <1>1, <2>1
    <2> QED BY <2>2 DEF x, n
  <1>4. /\ Xor8(a, b) \in 0 .. 255 /\ And8(a, b) \in 0 .. 255
        /\ Xor8(a, b) + 2 * And8(a, b) = a + b BY HalfAdder8
  <1>5. /\ Xor16(a, b) = Xor8(a, b) + 256 * Xor8(z, z)
        /\ And16(a, b) = And8(a, b) + 256 * And8(z, z) BY <1>2 DEF Xor16, And16
  <1>6. Xor16(a, b) = Xor8(a, b) /\ And16(a, b) = And8(a, b) BY <1>3, <1>4, <1>5
  <1> QED BY <1>4, <1>6
-----------------------------------------------------------------------------
(* The identities.                                                         *)

\* 39 * 151 = 1 and 23 * 151 + 111 = 0 modulo 256.
LEMMA Polynomial ==
  ASSUME NEW s \in 0 .. 510
  PROVE  (111 + ((151 * ((23 + ((39 * (s % 256)) % 256)) % 256)) % 256)) % 256 = s % 256
  <1> DEFINE r == s % 256
             p == (39 * r) % 256
             q == (23 + p) % 256
             t == (151 * q) % 256
  <1>1. r \in 0 .. 255 OBVIOUS
  <1>0. \A n \in Int : n % 256 \in 0 .. 255 /\ n = (n % 256) + 256 * (n \div 256)
                        /\ n \div 256 \in Int OBVIOUS
  <1> HIDE DEF r
  <1>2. p \in 0 .. 255 /\ 39 * r = p + 256 * ((39 * r) \div 256) /\ (39 * r) \div 256 \in Int
    BY <1>0, <1>1
  <1> HIDE DEF p
  <1>3. q \in 0 .. 255 /\ 23 + p = q + 256 * ((23 + p) \div 256) /\ (23 + p) \div 256 \in Int
    BY <1>0, <1>2
  <1> HIDE DEF q
  <1>4. t \in 0 .. 255 /\ 151 * q = t + 256 * ((151 * q) \div 256)
        /\ (151 * q) \div 256 \in Int
    BY <1>0, <1>3
  <1> HIDE DEF t
  <1>5. PICK k \in Int : 111 + t = r + 256 * k
    <2> DEFINE x == (39 * r) \div 256
               y == (23 + p) \div 256
               z == (151 * q) \div 256
               k == 23 * r + 14 - 151 * x - 151 * y - z
    <2>1. x \in Int /\ y \in Int /\ z \in Int /\ r \in Int BY <1>1, <1>2, <1>3, <1>4
    <2>2. /\ p \in Int /\ q \in Int /\ t \in Int
          /\ 39 * r = p + 256 * x /\ 23 + p = q + 256 * y /\ 151 * q = t + 256 * z
      BY <1>2, <1>3, <1>4
    <2> HIDE DEF x, y, z
    <2>3. k \in Int /\ 111 + t = r + 256 * k BY <2>1, <2>2
    <2> QED BY <2>3
  <1>6. (111 + t) % 256 = r
    <2>1. k \in {0, 1} BY <1>1, <1>4, <1>5
    <2>2. CASE k = 0 BY <1>1, <1>5, <2>2
    <2>3. CASE k = 1
      <3>1. (r + 256) % 256 = r BY <1>1
      <3> QED BY <1>5, <2>3, <3>1
    <2> QED BY <2>1, <2>2, <2>3
  <1> QED BY <1>6 DEF r, p, q, t

\* The addition pass: e5 + 111, computed modulo 256 as the inserted
\* instructions compute it, is a + b, for every pair of 8-bit operands.
THEOREM AddIdentity ==
  ASSUME NEW a \in 0 .. 255, NEW b \in 0 .. 255
  PROVE  Plus(256, 111, Folded(256, a, b)) = Plus(256, a, b)
  <1> DEFINE x == Xor16(a, b)
             n == And16(a, b)
  <1>1. x \in 0 .. 255 /\ n \in 0 .. 255 /\ x + 2 * n = a + b BY HalfAdder16
  <1> HIDE DEF x, n
  <1>2. Plus(256, x, Times(256, 2, n)) = (a + b) % 256 BY <1>1 DEF Plus, Times
  <1>3. Folded(256, a, b) =
          Times(256, 151, Plus(256, 23, Times(256, 39, (a + b) % 256)))
        BY <1>2 DEF Folded, x, n
  <1>4. a + b \in 0 .. 510 OBVIOUS
  <1> QED BY <1>3, <1>4, Polynomial DEF Plus, Times

AddsUp(a, b) == Plus(256, 111, Folded(256, a, b)) = Plus(256, a, b)

LEMMA AddIdentityHolds == \A a, b \in 0 .. 255 : AddsUp(a, b)
  BY AddIdentity, Zenon DEF AddsUp

\* The subtraction pass: (a + ~b) + 1 is a - b, whatever the width.
THEOREM SubIdentity ==
  ASSUME NEW m \in Nat \ {0}, NEW a \in 0 .. m - 1, NEW b \in 0 .. m - 1
  PROVE  Plus(m, Plus(m, a, Complement(m, b)), 1) = Minus(m, a, b)
  <1> SUFFICES (((a + (m - 1 - b)) % m) + 1) % m = (a + m - b) % m
      BY DEF Plus, Minus, Complement
  <1>0. \A r \in 0 .. m - 1 : r % m = r /\ (r + m) % m = r OBVIOUS
  <1>1. CASE a - 1 >= b
    <2>1. (a + (m - 1 - b)) % m = a - 1 - b
      <3>1. a - 1 - b \in 0 .. m - 1 BY <1>1
      <3>2. a + (m - 1 - b) = (a - 1 - b) + m OBVIOUS
      <3> QED BY <1>0, <3>1, <3>2
    <2>2. (a + m - b) % m = a - b
      <3>1. a - b \in 0 .. m - 1 BY <1>1
      <3>2. a + m - b = (a - b) + m OBVIOUS
      <3> QED BY <1>0, <3>1, <3>2
    <2>3. a - b \in 0 .. m - 1 /\ a - 1 - b + 1 = a - b BY <1>1
    <2> QED BY <1>0, <2>1, <2>2, <2>3
  <1>2. CASE a - 1 < b
    <2>1. a + (m - 1 - b) \in 0 .. m - 1 BY <1>2
    <2>2. (a + (m - 1 - b)) % m = a + (m - 1 - b) BY <1>0, <2>1
    <2>3. a + (m - 1 - b) + 1 = a + m - b OBVIOUS
    <2> QED BY <2>2, <2>3
  <1> QED BY <1>1, <1>2
-----------------------------------------------------------------------------
(* What the replacements are made of.                                      *)
Instr ==
  [def : Value, op : {"add", "sub", "mul", "and", "xor"}, width : 0 .. 16, args : Value \X Value]
    \cup [def : Value, op : {"not"}, width : 0 .. 16, args : [1 .. 1 -> Value]]

\* Instruction j of new is of i's stem, defines i's value only if it is the
\* last, and reads constants, what i reads, and what those before it define.
Supports(i, new, j) ==
  /\ new[j] \in Instr
  /\ new[j].def[1] = i.def[1]
  /\ new[j].def[2] = 0 <=> j = Len(new)
  /\ new[j].width = i.width
  /\ \A n \in DOMAIN new[j].args :
       LET v == new[j].args[n] IN
       IsConst(v) \/ v = i.args[1] \/ v = i.args[2] \/ \E k \in 1 .. j - 1 : v = new[k].def

StandsFor(i, new) ==
  /\ new \in Seq(Instr) /\ Len(new) >= 1
  /\ \A j \in 1 .. Len(new) : Supports(i, new, j)
  /\ \A j, k \in 1 .. Len(new) : new[j].def = new[k].def => j = k

\* The bitwise operators are operators on the integers.
LEMMA BitwiseInt ==
  ASSUME NEW a \in Int, NEW b \in Int
  PROVE  Xor16(a, b) \in Int /\ And16(a, b) \in Int
<1>1. ASSUME NEW x \in Int, NEW y \in Int PROVE And1(x, y) \in Int /\ Xor1(x, y) \in Int
  BY DEF And1, Xor1
<1>2. ASSUME NEW x \in Int, NEW y \in Int PROVE And2(x, y) \in Int /\ Xor2(x, y) \in Int
  <2>1. x % 2 \in Int /\ y % 2 \in Int /\ x \div 2 \in Int /\ y \div 2 \in Int
    OBVIOUS
  <2>2. /\ And1(x % 2, y % 2) \in Int /\ And1(x \div 2, y \div 2) \in Int
        /\ Xor1(x % 2, y % 2) \in Int /\ Xor1(x \div 2, y \div 2) \in Int
    BY <2>1, <1>1
  <2> QED BY <2>2 DEF And2, Xor2
<1>3. ASSUME NEW x \in Int, NEW y \in Int PROVE And4(x, y) \in Int /\ Xor4(x, y) \in Int
  <2>1. x % 4 \in Int /\ y % 4 \in Int /\ x \div 4 \in Int /\ y \div 4 \in Int
    OBVIOUS
  <2>2. /\ And2(x % 4, y % 4) \in Int /\ And2(x \div 4, y \div 4) \in Int
        /\ Xor2(x % 4, y % 4) \in Int /\ Xor2(x \div 4, y \div 4) \in Int
    BY <2>1, <1>2
  <2> QED BY <2>2 DEF And4, Xor4
<1>4. ASSUME NEW x \in Int, NEW y \in Int PROVE And8(x, y) \in Int /\ Xor8(x, y) \in Int
  <2>1. x % 16 \in Int /\ y % 16 \in Int /\ x \div 16 \in Int /\ y \div 16 \in Int
    OBVIOUS
  <2>2. /\ And4(x % 16, y % 16) \in Int /\ And4(x \div 16, y \div 16) \in Int
        /\ Xor4(x % 16, y % 16) \in Int /\ Xor4(x \div 16, y \div 16) \in Int
    BY <2>1, <1>3
  <2> QED BY <2>2 DEF And8, Xor8
<1>5. ASSUME NEW x \in Int, NEW y \in Int PROVE And16(x, y) \in Int /\ Xor16(x, y) \in Int
  <2>1. x % 256 \in Int /\ y % 256 \in Int /\ x \div 256 \in Int /\ y \div 256 \in Int
    OBVIOUS
  <2>2. /\ And8(x % 256, y % 256) \in Int /\ And8(x \div 256, y \div 256) \in Int
        /\ Xor8(x % 256, y % 256) \in Int /\ Xor8(x \div 256, y \div 256) \in Int
    BY <2>1, <1>4
  <2> QED BY <2>2 DEF And16, Xor16
<1> QED BY <1>5

\* Moduli are positive.
LEMMA Moduli ==
  /\ \A w \in 0 .. 16 : 2 ^ w \in Nat \ {0}
  /\ 2 ^ 8 = 256
<1>1. ASSUME NEW w \in 0 .. 16 PROVE 2 ^ w \in Nat \ {0}
  <2>1. \/ w = 0 \/ w = 1 \/ w = 2 \/ w = 3 \/ w = 4 \/ w = 5 \/ w = 6 \/ w = 7 \/ w = 8
        \/ w = 9 \/ w = 10 \/ w = 11 \/ w = 12 \/ w = 13 \/ w = 14 \/ w = 15 \/ w = 16
    OBVIOUS
  <2>2. /\ 2 ^ 0 \in Nat \ {0}
        /\ 2 ^ 1 \in Nat \ {0}
        /\ 2 ^ 2 \in Nat \ {0}
        /\ 2 ^ 3 \in Nat \ {0}
        /\ 2 ^ 4 \in Nat \ {0}
        /\ 2 ^ 5 \in Nat \ {0}
        /\ 2 ^ 6 \in Nat \ {0}
        /\ 2 ^ 7 \in Nat \ {0}
        /\ 2 ^ 8 \in Nat \ {0}
        /\ 2 ^ 9 \in Nat \ {0}
        /\ 2 ^ 10 \in Nat \ {0}
        /\ 2 ^ 11 \in Nat \ {0}
        /\ 2 ^ 12 \in Nat \ {0}
        /\ 2 ^ 13 \in Nat \ {0}
        /\ 2 ^ 14 \in Nat \ {0}
        /\ 2 ^ 15 \in Nat \ {0}
        /\ 2 ^ 16 \in Nat \ {0}
    OBVIOUS
  <2> QED BY <2>1, <2>2, Zenon
<1>2. 2 ^ 8 = 256
  OBVIOUS
<1> QED BY <1>1, <1>2

\* A constant is a value.
LEMMA Constants ==
  ASSUME NEW n \in Nat
  PROVE  Const(n) \in Value /\ IsConst(Const(n)) /\ Const(n)[2] = n
BY DEF Const, IsConst, Value

\* An instruction inserted in front of i is an instruction.
LEMMA InsertedInstr ==
  ASSUME NEW i \in SourceInstr, NEW k \in Nat \ {0},
         NEW op \in {"add", "sub", "mul", "and", "xor"}, NEW args \in Value \X Value
  PROVE  LET n == Inserted(i, k, op, args) IN
         /\ n \in Instr
         /\ n.def = Temp(i, k) /\ n.def[1] = i.def[1] /\ n.def[2] = k
         /\ n.op = op /\ n.width = i.width /\ n.args = args /\ DOMAIN n.args = {1, 2}
BY DEF Inserted, Temp, Instr, SourceInstr, Value

\* So is the one that takes its place.
LEMMA NewInstInstr ==
  ASSUME NEW i \in SourceInstr, NEW args \in Value \X Value
  PROVE  LET n == NewInst(i, args) IN
         /\ n \in Instr
         /\ n.def = i.def /\ n.def[2] = 0
         /\ n.op = "add" /\ n.width = i.width /\ n.args = args /\ DOMAIN n.args = {1, 2}
BY DEF NewInst, Instr, SourceInstr, Value

\* An instruction as the pass received it.
LEMMA SourceStands ==
  ASSUME NEW i \in SourceInstr
  PROVE  StandsFor(i, <<i>>)
<1>1. i \in Instr /\ i.def[2] = 0 /\ DOMAIN i.args = {1, 2}
  BY DEF SourceInstr, Instr, Value
<1> DEFINE new == <<i>>
<1>2. new \in Seq(Instr) /\ Len(new) = 1 /\ new[1] = i
  BY <1>1
<1> HIDE DEF new
<1>3. Supports(i, new, 1)
  BY <1>1, <1>2 DEF Supports
<1> QED BY <1>2, <1>3 DEF StandsFor, new

\* The constant that e5 folds to.
LEMMA FoldedNat ==
  ASSUME NEW m \in Nat \ {0}, NEW a \in Int, NEW b \in Int
  PROVE  Folded(m, a, b) \in Nat
<1>1. ASSUME NEW x \in Int, NEW y \in Int PROVE Plus(m, x, y) \in Nat
  <2>1. x + y \in Int
    OBVIOUS
  <2> QED BY <2>1 DEF Plus
<1>2. ASSUME NEW n \in {2, 39, 151}, NEW x \in Int PROVE Times(m, n, x) \in Nat
  <2>1. n * x \in Int
    OBVIOUS
  <2> QED BY <2>1 DEF Times
<1> DEFINE n == And16(a, b)
           x == Xor16(a, b)
           e2 == Plus(m, x, Times(m, 2, n))
           e3 == Times(m, 39, e2)
           e4 == Plus(m, 23, e3)
<1>3. n \in Int /\ x \in Int
  BY BitwiseInt
<1> HIDE DEF n, x
<1>4. Times(m, 2, n) \in Int
  BY <1>2, <1>3
<1>5. e2 \in Int
  BY <1>1, <1>3, <1>4
<1> HIDE DEF e2
<1>6. e3 \in Int
  BY <1>2, <1>5
<1> HIDE DEF e3
<1>7. e4 \in Int
  BY <1>1, <1>6
<1> HIDE DEF e4
<1>8. Times(m, 151, e4) \in Nat
  BY <1>2, <1>7
<1> QED BY <1>8 DEF Folded, e4, e3, e2, n, x

\* Three instructions for a subtraction, or fewer.
LEMMA SubStands ==
  ASSUME NEW i \in SourceInstr, i.width > 0,
         IsConst(i.args[2]) => Fits(i.args[2][2], i.width)
  PROVE  StandsFor(i, SubReplacement(i))
<1> DEFINE a == i.args[1]
           b == i.args[2]
           m == 2 ^ i.width
           new == SubReplacement(i)
<1>1. /\ a \in Value /\ b \in Value /\ a[2] \in Nat /\ b[2] \in Nat
      /\ i.width \in 0 .. 16 /\ i.def[1] \in STRING /\ i.def = <<i.def[1], 0>>
  BY DEF SourceInstr, Value
<1>2. m \in Nat \ {0}
  BY <1>1, Moduli
<1> HIDE DEF a, b, m
<1>3. Const(1) \in Value /\ IsConst(Const(1))
  BY Constants
<1>4. \A k \in Nat : Temp(i, k) \in Value
  BY <1>1 DEF Temp, Value
<1>5. CASE ~IsConst(b)
  <2> DEFINE n1 == Inserted(i, 1, "not", <<b>>)
             n2 == Inserted(i, 2, "add", <<a, Temp(i, 1)>>)
             n3 == NewInst(i, <<Temp(i, 2), Const(1)>>)
  <2>1. new = <<n1, n2, n3>>
    BY <1>5 DEF SubReplacement, a, b
  <2>2. n1 \in Instr /\ n1.def = Temp(i, 1) /\ n1.def[1] = i.def[1] /\ n1.def[2] = 1
        /\ n1.args = <<b>> /\ n1.width = i.width
    BY <1>1 DEF Inserted, Temp, Instr, Value
  <2>3. n2 \in Instr /\ n2.def = Temp(i, 2) /\ n2.def[1] = i.def[1] /\ n2.def[2] = 2
        /\ n2.args = <<a, Temp(i, 1)>> /\ n2.width = i.width
    BY <1>1, <1>4, InsertedInstr
  <2>4. n3 \in Instr /\ n3.def = i.def /\ n3.def[2] = 0 /\ n3.args = <<Temp(i, 2), Const(1)>>
        /\ n3.width = i.width
    BY <1>1, <1>3, <1>4, NewInstInstr
  <2> HIDE DEF n1, n2, n3, new
  <2>5. new \in Seq(Instr) /\ Len(new) = 3 /\ new[1] = n1 /\ new[2] = n2 /\ new[3] = n3
    BY <2>1, <2>2, <2>3, <2>4
  <2>6. Supports(i, new, 1)
    BY <2>2, <2>5 DEF Supports, b
  <2>7. Supports(i, new, 2)
    BY <2>2, <2>3, <2>5 DEF Supports, a
  <2>8. Supports(i, new, 3)
    BY <1>3, <2>3, <2>4, <2>5 DEF Supports
  <2> QED BY <2>2, <2>3, <2>4, <2>5, <2>6, <2>7, <2>8 DEF StandsFor, new
<1>6. CASE IsConst(b) /\ ~IsConst(a)
  <2> DEFINE c == Const(Complement(m, b[2]))
             n1 == Inserted(i, 1, "add", <<a, c>>)
             n2 == NewInst(i, <<Temp(i, 1), Const(1)>>)
  <2>0. Complement(m, b[2]) \in Nat
    BY <1>1, <1>2, <1>6 DEF Fits, Complement, b, m
  <2>1. new = <<n1, n2>> /\ c \in Value /\ IsConst(c)
    BY <1>6, <2>0, Constants DEF SubReplacement, a, b, m
  <2> HIDE DEF c
  <2>2. n1 \in Instr /\ n1.def = Temp(i, 1) /\ n1.def[1] = i.def[1] /\ n1.def[2] = 1
        /\ n1.args = <<a, c>> /\ n1.width = i.width
    BY <1>1, <2>1, InsertedInstr
  <2>3. n2 \in Instr /\ n2.def = i.def /\ n2.def[2] = 0
        /\ n2.args = <<Temp(i, 1), Const(1)>> /\ n2.width = i.width
    BY <1>1, <1>3, <1>4, NewInstInstr
  <2> HIDE DEF n1, n2, new
  <2>4. new \in Seq(Instr) /\ Len(new) = 2 /\ new[1] = n1 /\ new[2] = n2
    BY <2>1, <2>2, <2>3
  <2>5. Supports(i, new, 1)
    BY <2>1, <2>2, <2>4 DEF Supports, a
  <2>6. Supports(i, new, 2)
    BY <1>3, <2>2, <2>3, <2>4 DEF Supports
  <2> QED BY <2>2, <2>3, <2>4, <2>5, <2>6 DEF StandsFor, new
<1>7. CASE IsConst(b) /\ IsConst(a)
  <2> DEFINE c == Const(Plus(m, a[2], Complement(m, b[2])))
             n1 == NewInst(i, <<c, Const(1)>>)
  <2>1. Plus(m, a[2], Complement(m, b[2])) \in Nat
    <3>1. a[2] + (m - 1 - b[2]) \in Int
      BY <1>1, <1>2
    <3> QED BY <1>2, <3>1 DEF Plus, Complement
  <2>2. new = <<n1>> /\ c \in Value /\ IsConst(c)
    <3>1. Const(Complement(m, b[2]))[2] = Complement(m, b[2])
      BY DEF Const
    <3> QED BY <1>7, <2>1, <3>1, Constants DEF SubReplacement, a, b, m
  <2> HIDE DEF c
  <2>3. n1 \in Instr /\ n1.def = i.def /\ n1.def[2] = 0 /\ n1.def[1] = i.def[1]
        /\ n1.args = <<c, Const(1)>> /\ n1.width = i.width
    BY <1>1, <1>3, <2>2, NewInstInstr
  <2> HIDE DEF n1, new
  <2>4. new \in Seq(Instr) /\ Len(new) = 1 /\ new[1] = n1
    BY <2>2, <2>3
  <2>5. Supports(i, new, 1)
    BY <1>3, <2>2, <2>3, <2>4 DEF Supports
  <2> QED BY <2>3, <2>4, <2>5 DEF StandsFor, new
<1> QED BY <1>5, <1>6, <1>7

\* Eight instructions for an addition, or one.
LEMMA AddStands ==
  ASSUME NEW i \in SourceInstr, NEW xorFirst \in BOOLEAN
  PROVE  StandsFor(i, AddReplacement(i, xorFirst))
<1> DEFINE a == i.args[1]
           b == i.args[2]
           m == 2 ^ i.width
           new == AddReplacement(i, xorFirst)
<1>1. /\ i.args \in Value \X Value /\ i.args = <<a, b>> /\ DOMAIN i.args = {1, 2}
      /\ a[2] \in Nat /\ b[2] \in Nat
      /\ i.width \in 0 .. 16 /\ i.def[1] \in STRING
  BY DEF SourceInstr, Value
<1>2. m \in Nat \ {0}
  BY <1>1, Moduli
<1> HIDE DEF a, b, m
<1>3. \A k \in Nat : Temp(i, k) \in Value /\ Temp(i, k)[2] = k /\ Temp(i, k)[1] = i.def[1]
  BY <1>1 DEF Temp, Value
<1>4. \A n \in Nat : Const(n) \in Value /\ IsConst(Const(n))
  BY Constants
<1>5. CASE IsConst(a) /\ IsConst(b)
  <2> DEFINE c == Const(Folded(m, a[2], b[2]))
             n1 == NewInst(i, <<Const(111), c>>)
  <2>0. Folded(m, a[2], b[2]) \in Nat
    BY <1>1, <1>2, FoldedNat
  <2>1. c \in Value /\ IsConst(c)
    BY <1>4, <2>0
  <2>2. new = <<n1>>
    BY <1>1, <1>5 DEF AddReplacement, a, b, m
  <2> HIDE DEF c
  <2>3. n1 \in Instr /\ n1.def = i.def /\ n1.def[2] = 0 /\ n1.def[1] = i.def[1]
        /\ n1.args = <<Const(111), c>> /\ n1.width = i.width
    BY <1>1, <1>4, <2>1, NewInstInstr
  <2> HIDE DEF n1, new
  <2>4. new \in Seq(Instr) /\ Len(new) = 1 /\ new[1] = n1
    BY <2>2, <2>3
  <2>5. Supports(i, new, 1)
    BY <1>4, <2>1, <2>3, <2>4 DEF Supports
  <2> QED BY <2>3, <2>4, <2>5 DEF StandsFor, new
<1>6. CASE ~(IsConst(a) /\ IsConst(b))
  <2> DEFINE x == IF xorFirst THEN 1 ELSE 3
             n == IF xorFirst THEN 2 ELSE 1
             e0 == Inserted(i, x, "xor", i.args)
             e1 == Inserted(i, n, "and", i.args)
             e2 == Inserted(i, n + 1, "mul", <<Const(2), Temp(i, n)>>)
             n4 == Inserted(i, 4, "add", <<Temp(i, x), Temp(i, n + 1)>>)
             n5 == Inserted(i, 5, "mul", <<Const(39), Temp(i, 4)>>)
             n6 == Inserted(i, 6, "add", <<Const(23), Temp(i, 5)>>)
             n7 == Inserted(i, 7, "mul", <<Const(151), Temp(i, 6)>>)
             n8 == NewInst(i, <<Const(111), Temp(i, 7)>>)
             Made(j, k, args) == /\ j \in Instr /\ j.def = Temp(i, k) /\ j.def[1] = i.def[1]
                                 /\ j.def[2] = k /\ j.args = args /\ DOMAIN j.args = {1, 2}
                                 /\ j.width = i.width
  <2>1. ~ \A k \in DOMAIN i.args : IsConst(i.args[k])
    BY <1>1, <1>6
  <2>2. /\ new = IF xorFirst THEN <<e0, e1, e2, n4, n5, n6, n7, n8>>
                 ELSE <<e1, e2, e0, n4, n5, n6, n7, n8>>
    BY <2>1 DEF AddReplacement
  <2>3. x \in Nat \ {0} /\ n \in Nat \ {0} /\ n + 1 \in Nat \ {0}
    OBVIOUS
  <2>4. ASSUME NEW k \in Nat \ {0}, NEW op \in {"add", "sub", "mul", "and", "xor"},
               NEW args \in Value \X Value
        PROVE  Made(Inserted(i, k, op, args), k, args)
    BY InsertedInstr
  <2>5. Made(e0, x, i.args) /\ Made(e1, n, i.args)
    <3>1. /\ x \in Nat \ {0} /\ n \in Nat \ {0} /\ i.args \in Value \X Value
          /\ "xor" \in {"add", "sub", "mul", "and", "xor"}
          /\ "and" \in {"add", "sub", "mul", "and", "xor"}
      BY <1>1, <2>3
    <3> HIDE DEF x, n, new, Made
    <3>2. Made(Inserted(i, x, "xor", i.args), x, i.args)
      BY <2>4, <3>1
    <3>3. Made(Inserted(i, n, "and", i.args), n, i.args)
      BY <2>4, <3>1
    <3> QED BY <3>2, <3>3
  <2>6. Made(e2, n + 1, <<Const(2), Temp(i, n)>>)
    BY <1>3, <1>4, <2>3, <2>4
  <2>7. Made(n4, 4, <<Temp(i, x), Temp(i, n + 1)>>)
    BY <1>3, <2>3, <2>4
  <2>8. Made(n5, 5, <<Const(39), Temp(i, 4)>>)
    BY <1>3, <1>4, <2>4
  <2>9. Made(n6, 6, <<Const(23), Temp(i, 5)>>)
    BY <1>3, <1>4, <2>4
  <2>10. Made(n7, 7, <<Const(151), Temp(i, 6)>>)
    BY <1>3, <1>4, <2>4
  <2>11. n8 \in Instr /\ n8.def = i.def /\ n8.def[2] = 0 /\ n8.def[1] = i.def[1]
         /\ n8.args = <<Const(111), Temp(i, 7)>> /\ DOMAIN n8.args = {1, 2}
            /\ n8.width = i.width
    BY <1>3, <1>4, NewInstInstr
  <2>12. /\ new \in Seq(Instr) /\ Len(new) = 8
         /\ new[1] = IF xorFirst THEN e0 ELSE e1
         /\ new[2] = IF xorFirst THEN e1 ELSE e2
         /\ new[3] = IF xorFirst THEN e2 ELSE e0
         /\ new[4] = n4 /\ new[5] = n5 /\ new[6] = n6 /\ new[7] = n7 /\ new[8] = n8
    <3> HIDE DEF e0, e1, e2, n4, n5, n6, n7, n8, new
    <3>1. e0 \in Instr /\ e1 \in Instr /\ e2 \in Instr /\ n4 \in Instr /\ n5 \in Instr
          /\ n6 \in Instr /\ n7 \in Instr /\ n8 \in Instr
      BY <2>5, <2>6, <2>7, <2>8, <2>9, <2>10, <2>11
    <3>2. CASE xorFirst
      BY <2>2, <3>1, <3>2
    <3>3. CASE ~xorFirst
      BY <2>2, <3>1, <3>3
    <3> QED BY <3>2, <3>3
  <2> HIDE DEF e0, e1, e2, n4, n5, n6, n7, n8, new
  <2>13. /\ new[1].def = Temp(i, 1) /\ new[2].def = Temp(i, 2) /\ new[3].def = Temp(i, 3)
         /\ new[4].def = Temp(i, 4) /\ new[5].def = Temp(i, 5) /\ new[6].def = Temp(i, 6)
         /\ new[7].def = Temp(i, 7)
    BY <2>5, <2>6, <2>7, <2>8, <2>9, <2>10, <2>12
  <2>14. ASSUME xorFirst PROVE Supports(i, new, 1) /\ Supports(i, new, 2) /\ Supports(i, new, 3)
    <3>1. x = 1 /\ n = 2
      BY <2>14
    <3>2. /\ Made(new[1], 1, i.args) /\ Made(new[2], 2, i.args)
          /\ Made(new[3], 3, <<Const(2), new[2].def>>)
      BY <2>5, <2>6, <2>12, <2>13, <2>14, <3>1
    <3>3. \A k \in {1, 2} : new[k].args[1] = i.args[1] /\ new[k].args[2] = i.args[2]
      BY <3>2
    <3>4. \A k \in {1, 2} : /\ new[k] \in Instr /\ new[k].def[1] = i.def[1] /\ new[k].def[2] = k
                             /\ new[k].width = i.width /\ DOMAIN new[k].args = {1, 2}
      BY <3>2
    <3>6. Len(new) = 8
      BY <2>12
    <3>7. ASSUME NEW k \in {1, 2} PROVE Supports(i, new, k)
      <4> HIDE DEF Made
      <4> QED BY <3>3, <3>4, <3>6 DEF Supports
    <3>5. Supports(i, new, 3)
      BY <1>4, <2>12, <3>2 DEF Supports
    <3> QED BY <3>5, <3>7
  <2>15. ASSUME ~xorFirst PROVE Supports(i, new, 1) /\ Supports(i, new, 2)
                                /\ Supports(i, new, 3)
    <3>1. x = 3 /\ n = 1
      BY <2>15
    <3>2. /\ Made(new[1], 1, i.args) /\ Made(new[3], 3, i.args)
          /\ Made(new[2], 2, <<Const(2), new[1].def>>)
      BY <2>5, <2>6, <2>12, <2>13, <2>15, <3>1
    <3>3. \A k \in {1, 3} : new[k].args[1] = i.args[1] /\ new[k].args[2] = i.args[2]
      BY <3>2
    <3>4. \A k \in {1, 3} : /\ new[k] \in Instr /\ new[k].def[1] = i.def[1] /\ new[k].def[2] = k
                             /\ new[k].width = i.width /\ DOMAIN new[k].args = {1, 2}
      BY <3>2
    <3>6. Len(new) = 8
      BY <2>12
    <3>7. ASSUME NEW k \in {1, 3} PROVE Supports(i, new, k)
      <4> HIDE DEF Made
      <4> QED BY <3>3, <3>4, <3>6 DEF Supports
    <3>5. Supports(i, new, 2)
      BY <1>4, <2>12, <3>2 DEF Supports
    <3> QED BY <3>5, <3>7
  <2>16. Supports(i, new, 1) /\ Supports(i, new, 2) /\ Supports(i, new, 3)
    BY <2>14, <2>15
  <2>17. Supports(i, new, 4)
    BY <2>7, <2>12, <2>13 DEF Supports
  <2>18. Supports(i, new, 5)
    BY <1>4, <2>8, <2>12, <2>13 DEF Supports
  <2>19. Supports(i, new, 6)
    BY <1>4, <2>9, <2>12, <2>13 DEF Supports
  <2>20. Supports(i, new, 7)
    BY <1>4, <2>10, <2>12, <2>13 DEF Supports
  <2>21. Supports(i, new, 8)
    <3>1. /\ new[8] \in Instr /\ new[8].def[1] = i.def[1] /\ new[8].def[2] = 0 /\ new[8].width = i.width
          /\ Len(new) = 8
      BY <2>11, <2>12
    <3>2. new[8].args = <<Const(111), Temp(i, 7)>> /\ DOMAIN new[8].args = {1, 2}
      BY <2>11, <2>12
    <3>3. IsConst(new[8].args[1]) /\ new[8].args[2] = new[7].def
      BY <1>4, <2>13, <3>2
    <3> HIDE DEF Made
    <3> QED BY <3>1, <3>2, <3>3 DEF Supports
  <2>22. \A j \in 1 .. 8 : new[j].def[2] = IF j = 8 THEN 0 ELSE j
    <3>1. new[8].def[2] = 0
      BY <2>11, <2>12
    <3>2. /\ new[1].def[2] = 1 /\ new[2].def[2] = 2 /\ new[3].def[2] = 3 /\ new[4].def[2] = 4
          /\ new[5].def[2] = 5 /\ new[6].def[2] = 6 /\ new[7].def[2] = 7
      BY <1>3, <2>13
    <3> QED BY <3>1, <3>2
  <2>23. \A j \in 1 .. 8 : j = 1 \/ j = 2 \/ j = 3 \/ j = 4 \/ j = 5 \/ j = 6 \/ j = 7 \/ j = 8
    OBVIOUS
  <2>24. \A j \in 1 .. 8 : Supports(i, new, j)
    BY <2>16, <2>17, <2>18, <2>19, <2>20, <2>21, <2>23, Zenon
  <2> QED BY <2>12, <2>22, <2>24 DEF StandsFor, new
<1> QED BY <1>5, <1>6
-----------------------------------------------------------------------------
(* The walk over a block.                                                  *)

\* Instructions lo + 1 .. hi of s are new.
Holds(s, lo, hi, new) ==
  /\ hi = lo + Len(new)
  /\ \A j \in 1 .. Len(new) : s[lo + j] = new[j]

\* What stands for instruction i once the pass p is past it.
Outcomes(p, i) == IF IsTarget(p, i) THEN Replacements(p, i) ELSE {<<i>>}

\* Block src has become s: its k-th instruction ends at cut[k], and the pass
\* is past the first done of them.
Laid(p, src, s, cut, done) ==
  /\ cut \in [0 .. Len(src) -> 0 .. Len(s)]
  /\ cut[0] = 0 /\ cut[Len(src)] = Len(s)
  /\ \A j, k \in 0 .. Len(src) : j < k => cut[j] < cut[k]
  /\ \A k \in 1 .. Len(src) :
       IF k <= done THEN \E new \in Outcomes(p, src[k]) : Holds(s, cut[k - 1], cut[k], new)
       ELSE Holds(s, cut[k - 1], cut[k], <<src[k]>>)

\* The blocks behind the walk are replaced, the one that is walked up to the
\* iterator, and the ones ahead not at all.
Progress(b, cut, done) ==
  /\ b < bb => done = Len(code0[b])
  /\ b = bb => inst = cut[done] + 1
  /\ b > bb => done = 0

IndInv ==
  /\ pass \in {"mba-add", "mba-sub"}
  /\ code0 \in Functions
  /\ bb \in 1 .. Len(code0) + 1
  /\ inst \in Nat
  /\ code \in Seq(Seq(Instr)) /\ Len(code) = Len(code0)
  /\ \A b \in 1 .. Len(code0) :
       \E done \in 0 .. Len(code0[b]) :
       \E cut \in [0 .. Len(code0[b]) -> 0 .. Len(code[b])] :
         Laid(pass, code0[b], code[b], cut, done) /\ Progress(b, cut, done)

\* A constant subtrahend is an integer of the width of the subtraction.
LEMMA Sources ==
  ASSUME NEW c \in Functions, NEW b \in DOMAIN c, NEW k \in DOMAIN c[b]
  PROVE  /\ c[b][k] \in SourceInstr
         /\ IsConst(c[b][k].args[2]) => Fits(c[b][k].args[2][2], c[b][k].width)
<1>1. c \in Seq(Seq(SourceInstr)) /\ Readable(c, b, k, c[b][k].args[2], c[b][k].width)
  BY FunctionsAssumption
<1>2. c[b] \in Seq(SourceInstr)
  BY <1>1
<1>3. c[b][k] \in SourceInstr
  BY <1>2
<1>4. IsConst(c[b][k].args[2]) => Fits(c[b][k].args[2][2], c[b][k].width)
  BY <1>1 DEF Readable
<1> QED BY <1>3, <1>4

\* Every replacement stands for the instruction it replaces.
LEMMA ReplacementsStand ==
  ASSUME NEW p \in {"mba-add", "mba-sub"}, NEW c \in Functions,
         NEW b \in DOMAIN c, NEW k \in DOMAIN c[b], IsTarget(p, c[b][k]),
         NEW new \in Replacements(p, c[b][k])
  PROVE  StandsFor(c[b][k], new)
<1> DEFINE i == c[b][k]
<1>1. i \in SourceInstr /\ (IsConst(i.args[2]) => Fits(i.args[2][2], i.width))
  BY Sources
<1> HIDE DEF i
<1>2. IsTarget(p, i) /\ new \in Replacements(p, i)
  BY DEF i
<1>3. CASE p = "mba-add"
  <2>1. PICK xorFirst \in BOOLEAN : new = AddReplacement(i, xorFirst)
    BY <1>2, <1>3 DEF Replacements
  <2>2. StandsFor(i, new)
    BY <1>1, <2>1, AddStands
  <2> QED BY <2>2 DEF i
<1>4. CASE p = "mba-sub"
  <2>1. new = SubReplacement(i) /\ i.width > 0
    BY <1>2, <1>4 DEF Replacements, IsTarget
  <2>2. StandsFor(i, new)
    BY <1>1, <2>1, SubStands
  <2> QED BY <2>2 DEF i
<1> QED BY <1>3, <1>4

\* What is left behind the iterator stands for what was there.
LEMMA OutcomesStand ==
  ASSUME NEW p \in {"mba-add", "mba-sub"}, NEW c \in Functions,
         NEW b \in DOMAIN c, NEW k \in DOMAIN c[b], NEW new \in Outcomes(p, c[b][k])
  PROVE  StandsFor(c[b][k], new)
<1>1. CASE IsTarget(p, c[b][k])
  BY <1>1, ReplacementsStand DEF Outcomes
<1>2. CASE ~IsTarget(p, c[b][k])
  BY <1>2, Sources, SourceStands DEF Outcomes
<1> QED BY <1>1, <1>2

\* The elements of a sequence with one of them replaced.
HasSpliced(S, s, k, new, t) ==
  /\ t \in Seq(S) /\ Len(t) = Len(s) + Len(new) - 1
  /\ \A j \in 1 .. k - 1 : t[j] = s[j]
  /\ \A j \in 1 .. Len(new) : t[k - 1 + j] = new[j]
  /\ \A j \in k + 1 .. Len(s) : t[j + Len(new) - 1] = s[j]

LEMMA Spliced ==
  ASSUME NEW S, NEW s \in Seq(S), NEW k \in 1 .. Len(s), NEW new \in Seq(S)
  PROVE  HasSpliced(S, s, k, new, Splice(s, k, new))
<1> DEFINE u == SubSeq(s, 1, k - 1)
           v == SubSeq(s, k + 1, Len(s))
           t == u \o new \o v
<1>1. Len(s) \in Nat /\ Len(new) \in Nat
  OBVIOUS
<1>2. u \in Seq(S) /\ Len(u) = k - 1 /\ \A j \in 1 .. k - 1 : u[j] = s[j]
  <2>1. \A j \in 1 .. k - 1 : s[j] \in S
    OBVIOUS
  <2> QED BY <1>1, <2>1, SubSeqProperties
<1>3. v \in Seq(S) /\ Len(v) = Len(s) - k /\ \A j \in 1 .. Len(s) - k : v[j] = s[k + j]
  <2>1. \A j \in k + 1 .. Len(s) : s[j] \in S
    OBVIOUS
  <2> QED BY <1>1, <2>1, SubSeqProperties
<1> HIDE DEF u, v
<1>4. /\ u \o new \in Seq(S) /\ Len(u \o new) = Len(u) + Len(new)
      /\ \A j \in 1 .. Len(u) : (u \o new)[j] = u[j]
      /\ \A j \in 1 .. Len(new) : (u \o new)[Len(u) + j] = new[j]
  <2> DEFINE r == u \o new
  <2>1. /\ r \in Seq(S) /\ Len(r) = Len(u) + Len(new)
        /\ \A j \in 1 .. Len(u) + Len(new) : r[j] = IF j <= Len(u) THEN u[j] ELSE new[j - Len(u)]
    BY <1>2, ConcatProperties
  <2> HIDE DEF r
  <2>2. \A j \in 1 .. Len(u) : r[j] = u[j]
    BY <1>1, <1>2, <2>1
  <2>3. ASSUME NEW j \in 1 .. Len(new) PROVE r[Len(u) + j] = new[j]
    <3>1. Len(u) \in Nat /\ Len(u) + j \in 1 .. Len(u) + Len(new) /\ ~(Len(u) + j <= Len(u))
          /\ (Len(u) + j) - Len(u) = j
      BY <1>1, <1>2
    <3> QED BY <2>1, <3>1
  <2> QED BY <2>1, <2>2, <2>3 DEF r
<1>5. /\ t \in Seq(S) /\ Len(t) = Len(u \o new) + Len(v)
      /\ \A j \in 1 .. Len(u \o new) : t[j] = (u \o new)[j]
      /\ \A j \in 1 .. Len(v) : t[Len(u \o new) + j] = v[j]
  <2> DEFINE r == u \o new
  <2>1. /\ t \in Seq(S) /\ Len(t) = Len(r) + Len(v)
        /\ \A j \in 1 .. Len(r) + Len(v) : t[j] = IF j <= Len(r) THEN r[j] ELSE v[j - Len(r)]
    <3>1. r \in Seq(S) /\ v \in Seq(S)
      BY <1>3, <1>4
    <3>2. t = r \o v
      OBVIOUS
    <3> HIDE DEF r, t
    <3> QED BY <3>1, <3>2, ConcatProperties
  <2>2. r \in Seq(S)
    BY <1>4
  <2>5. Len(r) \in Nat /\ Len(v) \in Nat
    BY <1>3, <2>2
  <2> HIDE DEF r, t
  <2>3. \A j \in 1 .. Len(r) : t[j] = r[j]
    BY <2>1, <2>5
  <2>4. ASSUME NEW j \in 1 .. Len(v) PROVE t[Len(r) + j] = v[j]
    <3>1. Len(r) \in Nat /\ Len(r) + j \in 1 .. Len(r) + Len(v) /\ ~(Len(r) + j <= Len(r))
          /\ (Len(r) + j) - Len(r) = j
      BY <2>5
    <3> QED BY <2>1, <3>1
  <2> QED BY <2>1, <2>3, <2>4 DEF r
<1>6. Splice(s, k, new) = t
  BY DEF Splice, u, v
<1> HIDE DEF t
<1>7. t \in Seq(S) /\ Len(t) = Len(s) + Len(new) - 1
  BY <1>1, <1>2, <1>3, <1>4, <1>5
<1>8. \A j \in 1 .. k - 1 : t[j] = s[j]
  BY <1>1, <1>2, <1>4, <1>5
<1>9. ASSUME NEW j \in 1 .. Len(new) PROVE t[k - 1 + j] = new[j]
  <2>1. k - 1 = Len(u) /\ Len(u) + j \in 1 .. Len(u \o new)
    BY <1>1, <1>2, <1>4
  <2> QED BY <1>4, <1>5, <2>1
<1>10. ASSUME NEW j \in k + 1 .. Len(s) PROVE t[j + Len(new) - 1] = s[j]
  <2>1. j - k \in 1 .. Len(s) - k /\ k + (j - k) = j
    BY <1>1
  <2>2. Len(u \o new) + (j - k) = j + Len(new) - 1
    BY <1>1, <1>2, <1>4
  <2>3. t[Len(u \o new) + (j - k)] = v[j - k]
    BY <1>3, <1>5, <2>1
  <2> QED BY <1>3, <2>1, <2>2, <2>3
<1> QED BY <1>6, <1>7, <1>8, <1>9, <1>10 DEF HasSpliced

\* The iterator is on the first instruction of the block that is not passed.
LEMMA AtIterator ==
  ASSUME NEW p, NEW src, NEW s, Len(src) \in Nat, Len(s) \in Nat,
         NEW done \in 0 .. Len(src), NEW cut, Laid(p, src, s, cut, done),
         cut[done] + 1 <= Len(s)
  PROVE  /\ done + 1 \in 1 .. Len(src)
         /\ s[cut[done] + 1] = src[done + 1] /\ cut[done + 1] = cut[done] + 1
<1>1. cut[Len(src)] = Len(s) /\ cut \in [0 .. Len(src) -> 0 .. Len(s)]
  BY DEF Laid
<1>2. done # Len(src)
  BY <1>1
<1>3. done + 1 \in 1 .. Len(src) /\ ~(done + 1 <= done) /\ (done + 1) - 1 = done
  BY <1>2
<1>4. Holds(s, cut[done], cut[done + 1], <<src[done + 1]>>)
  BY <1>3 DEF Laid
<1>5. Len(<<src[done + 1]>>) = 1 /\ <<src[done + 1]>>[1] = src[done + 1]
  OBVIOUS
<1> QED BY <1>3, <1>4, <1>5 DEF Holds

\* An instruction that is none of those the pass looks for.
LEMMA PassedOver ==
  ASSUME NEW p, NEW src, NEW s, Len(src) \in Nat, Len(s) \in Nat,
         NEW done \in 0 .. Len(src), NEW cut, Laid(p, src, s, cut, done),
         cut[done] + 1 <= Len(s), ~IsTarget(p, s[cut[done] + 1])
  PROVE  Laid(p, src, s, cut, done + 1)
<1>1. done + 1 \in 1 .. Len(src) /\ s[cut[done] + 1] = src[done + 1]
  BY AtIterator
<1>2. <<src[done + 1]>> \in Outcomes(p, src[done + 1])
  BY <1>1 DEF Outcomes
<1>3. Holds(s, cut[done], cut[done + 1], <<src[done + 1]>>)
  <2>1. ~(done + 1 <= done) /\ (done + 1) - 1 = done
    OBVIOUS
  <2> QED BY <1>1, <2>1 DEF Laid
<1>4. ASSUME NEW k \in 1 .. Len(src)
      PROVE  IF k <= done + 1
             THEN \E new \in Outcomes(p, src[k]) : Holds(s, cut[k - 1], cut[k], new)
             ELSE Holds(s, cut[k - 1], cut[k], <<src[k]>>)
  <2>1. CASE k <= done
    BY <2>1 DEF Laid
  <2>2. CASE k = done + 1
    <3>1. (done + 1) - 1 = done
      OBVIOUS
    <3> QED BY <1>2, <1>3, <2>2, <3>1
  <2>3. CASE k > done + 1
    BY <2>3 DEF Laid
  <2> QED BY <2>1, <2>2, <2>3
<1> QED BY <1>4 DEF Laid

\* The block has become s, up to and including the instruction at n.
Continued(p, src, s, cut, done, n) ==
  /\ cut \in [0 .. Len(src) -> 0 .. Len(s)]
  /\ Laid(p, src, s, cut, done)
  /\ cut[done] = n

\* Places in a segment.
LEMMA SubtractLength ==
  ASSUME NEW s, NEW x \in Nat, NEW y \in Nat, y = x + Len(s)
  PROVE  Len(s) = y - x
  OBVIOUS

LEMMA PlaceInSegment ==
  ASSUME NEW x \in Nat, NEW l \in Nat, NEW n \in Int, x < n, n <= x + l
  PROVE  n - x \in 1 .. l /\ x + (n - x) = n
  OBVIOUS

\* An instruction that is replaced by at least one.
LEMMA Replaced ==
  ASSUME NEW p, NEW src, NEW S, NEW s \in Seq(S), Len(src) \in Nat,
         NEW done \in 0 .. Len(src), NEW cut, Laid(p, src, s, cut, done),
         cut[done] + 1 <= Len(s), NEW new \in Seq(S), Len(new) >= 1,
         new \in Outcomes(p, s[cut[done] + 1])
  PROVE  \E cut2 : Continued(p, src, Splice(s, cut[done] + 1, new), cut2, done + 1,
                            cut[done] + Len(new))
<1> DEFINE n == cut[done] + 1
           t == Splice(s, n, new)
           d == Len(new) - 1
           cut2 == [k \in 0 .. Len(src) |-> IF k <= done THEN cut[k] ELSE cut[k] + d]
<1>1. /\ Len(s) \in Nat /\ Len(new) \in Nat /\ d \in Nat
      /\ cut \in [0 .. Len(src) -> 0 .. Len(s)] /\ cut[0] = 0 /\ cut[Len(src)] = Len(s)
      /\ n \in 1 .. Len(s)
  BY DEF Laid
<1>2. done + 1 \in 1 .. Len(src) /\ s[n] = src[done + 1] /\ cut[done + 1] = n
  BY <1>1, AtIterator
<1>3. /\ t \in Seq(S) /\ Len(t) = Len(s) + d
      /\ \A j \in 1 .. n - 1 : t[j] = s[j]
      /\ \A j \in 1 .. Len(new) : t[n - 1 + j] = new[j]
      /\ \A j \in n + 1 .. Len(s) : t[j + Len(new) - 1] = s[j]
  <2>1. /\ t \in Seq(S) /\ Len(t) = Len(s) + Len(new) - 1
        /\ \A j \in 1 .. n - 1 : t[j] = s[j]
        /\ \A j \in 1 .. Len(new) : t[n - 1 + j] = new[j]
        /\ \A j \in n + 1 .. Len(s) : t[j + Len(new) - 1] = s[j]
    <3>1. n \in 1 .. Len(s)
      BY <1>1
    <3> HIDE DEF n, d, cut2
    <3>2. HasSpliced(S, s, n, new, t)
      BY <3>1, Spliced
    <3> QED BY <3>2 DEF HasSpliced
  <2> HIDE DEF t, n
  <2> QED BY <1>1, <2>1
<1>4. n - 1 = cut[done] /\ n = cut[done] + 1
  BY <1>1
<1> HIDE DEF t, n, d
<1>5. /\ cut2 \in [0 .. Len(src) -> 0 .. Len(t)]
      /\ \A k \in 0 .. Len(src) : cut2[k] = IF k <= done THEN cut[k] ELSE cut[k] + d
  BY <1>1, <1>3
<1> HIDE DEF cut2
<1>6. cut2[0] = 0 /\ cut2[Len(src)] = Len(t) /\ cut2[done + 1] = cut[done] + Len(new)
  <2>1. Len(new) = d + 1
    BY <1>1 DEF d
  <2>2. 0 \in 0 .. Len(src) /\ 0 <= done /\ Len(src) \in 0 .. Len(src) /\ ~(Len(src) <= done)
        /\ done + 1 \in 0 .. Len(src) /\ ~(done + 1 <= done)
    BY <1>2
  <2>3. cut2[0] = cut[0] /\ cut2[Len(src)] = cut[Len(src)] + d
        /\ cut2[done + 1] = cut[done + 1] + d
    BY <1>5, <2>2
  <2>4. Len(t) = Len(s) + d
    BY <1>3
  <2> QED BY <1>1, <1>2, <1>4, <2>1, <2>3, <2>4
<1>7. \A j, k \in 0 .. Len(src) : j < k => cut[j] < cut[k]
  BY DEF Laid
<1>8. \A j, k \in 0 .. Len(src) : j < k => cut2[j] < cut2[k]
  <2> TAKE j, k \in 0 .. Len(src)
  <2> HAVE j < k
  <2>1. cut[j] < cut[k] /\ cut[j] \in Nat /\ cut[k] \in Nat
    BY <1>1, <1>7
  <2> QED BY <1>1, <1>5, <2>1
<1>9. ASSUME NEW k \in 1 .. done
      PROVE  \E m \in Outcomes(p, src[k]) : Holds(t, cut2[k - 1], cut2[k], m)
  <2>1. k \in 1 .. Len(src) /\ k - 1 \in 0 .. Len(src) /\ k \in 0 .. Len(src) /\ k <= done
        /\ k - 1 <= done
    OBVIOUS
  <2>2. PICK m \in Outcomes(p, src[k]) : Holds(s, cut[k - 1], cut[k], m)
    BY <2>1 DEF Laid
  <2>3. cut2[k - 1] = cut[k - 1] /\ cut2[k] = cut[k]
    BY <1>5, <2>1
  <2>4. cut[k] <= n - 1 /\ cut[k] \in Nat /\ cut[k - 1] \in Nat
    <3>1. k = done \/ cut[k] < cut[done]
      BY <1>7, <2>1
    <3>2. cut[done] \in Nat /\ cut[k] \in Nat /\ cut[k - 1] \in Nat
      <4>1. \A h \in 0 .. Len(src) : cut[h] \in Nat
        BY <1>1
      <4>2. done \in 0 .. Len(src)
        OBVIOUS
      <4> QED BY <2>1, <4>1, <4>2, Zenon
    <3>3. cut[k] <= cut[done]
      BY <3>1, <3>2
    <3> QED BY <1>4, <3>2, <3>3
  <2>5. \A j \in 1 .. cut[k] : t[j] = s[j]
    BY <1>1, <1>3, <2>4
  <2>6. cut[k] = cut[k - 1] + Len(m) /\ \A j \in 1 .. Len(m) : s[cut[k - 1] + j] = m[j]
    BY <2>2 DEF Holds
  <2>7. ASSUME NEW j \in 1 .. Len(m) PROVE t[cut[k - 1] + j] = m[j]
    <3>1. Len(m) = cut[k] - cut[k - 1]
      BY <2>4, <2>6, SubtractLength
    <3>2. cut[k - 1] + j \in 1 .. cut[k]
      BY <2>4, <3>1
    <3> QED BY <2>5, <2>6, <3>2
  <2> QED BY <2>2, <2>3, <2>6, <2>7 DEF Holds
<1>10. Holds(t, cut2[done], cut2[done + 1], new)
  <2>1. cut2[done] = cut[done]
    BY <1>5
  <2> QED BY <1>3, <1>4, <1>6, <2>1 DEF Holds
<1>11. ASSUME NEW k \in done + 2 .. Len(src)
       PROVE  Holds(t, cut2[k - 1], cut2[k], <<src[k]>>)
  <2>1. k \in 1 .. Len(src) /\ k - 1 \in 0 .. Len(src) /\ k \in 0 .. Len(src) /\ ~(k <= done)
        /\ ~(k - 1 <= done)
    OBVIOUS
  <2>2. Holds(s, cut[k - 1], cut[k], <<src[k]>>)
    BY <2>1 DEF Laid
  <2>3. cut2[k - 1] = cut[k - 1] + d /\ cut2[k] = cut[k] + d
    BY <1>5, <2>1
  <2>4. Len(<<src[k]>>) = 1 /\ <<src[k]>>[1] = src[k]
    OBVIOUS
  <2>5. cut[k] = cut[k - 1] + 1 /\ s[cut[k - 1] + 1] = src[k]
    BY <2>2, <2>4 DEF Holds
  <2>6. cut[k - 1] \in Nat /\ cut[k - 1] >= n /\ cut[k] <= Len(s)
    <3>1. k - 1 = done + 1 \/ cut[done + 1] < cut[k - 1]
      BY <1>2, <1>7, <2>1
    <3>2. cut[k - 1] \in 0 .. Len(s) /\ cut[k] \in 0 .. Len(s) /\ Len(s) \in Nat
      <4>1. k - 1 \in 0 .. Len(src) /\ k \in 0 .. Len(src)
        BY <2>1
      <4> QED BY <1>1, <4>1
    <3>3. cut[k - 1] >= n
      <4>1. CASE k - 1 = done + 1
        BY <1>1, <1>2, <4>1
      <4>2. CASE cut[done + 1] < cut[k - 1]
        BY <1>1, <1>2, <3>2, <4>2
      <4> QED BY <3>1, <4>1, <4>2
    <3> QED BY <1>1, <3>2, <3>3
  <2>7. cut[k - 1] + 1 \in n + 1 .. Len(s)
    BY <1>1, <2>5, <2>6
  <2>8. t[(cut[k - 1] + 1) + Len(new) - 1] = s[cut[k - 1] + 1]
    BY <1>3, <2>7
  <2>9. (cut[k - 1] + 1) + Len(new) - 1 = cut2[k - 1] + 1 /\ cut2[k] = cut2[k - 1] + 1
    BY <1>1, <2>3, <2>5, <2>6 DEF d
  <2>10. t[cut2[k - 1] + 1] = src[k]
    BY <2>5, <2>8, <2>9
  <2> QED BY <2>4, <2>9, <2>10 DEF Holds
<1>12. ASSUME NEW k \in 1 .. Len(src)
       PROVE  IF k <= done + 1 THEN \E m \in Outcomes(p, src[k]) : Holds(t, cut2[k - 1], cut2[k], m)
              ELSE Holds(t, cut2[k - 1], cut2[k], <<src[k]>>)
  <2>1. CASE k <= done
    BY <1>9, <2>1
  <2>2. CASE k = done + 1
    <3>1. (done + 1) - 1 = done /\ new \in Outcomes(p, src[done + 1])
      BY <1>2 DEF n
    <3> QED BY <1>10, <2>2, <3>1
  <2>3. CASE k > done + 1
    BY <1>11, <2>3
  <2> QED BY <2>1, <2>2, <2>3
<1>13. Laid(p, src, t, cut2, done + 1)
  BY <1>5, <1>6, <1>8, <1>12 DEF Laid
<1>14. Continued(p, src, t, cut2, done + 1, cut[done] + Len(new))
  BY <1>5, <1>6, <1>13 DEF Continued
<1> QED BY <1>14 DEF t, n
-----------------------------------------------------------------------------
(* The walk over the function.                                             *)

\* What the invariant says of block b.
BlockInv(b) ==
  \E done \in 0 .. Len(code0[b]) :
  \E cut \in [0 .. Len(code0[b]) -> 0 .. Len(code[b])] :
    Laid(pass, code0[b], code[b], cut, done) /\ Progress(b, cut, done)

\* The function received is one of instructions, as the passes leave them.
LEMMA SourceTypes ==
  ASSUME NEW c \in Functions
  PROVE  /\ c \in Seq(Seq(SourceInstr)) /\ c \in Seq(Seq(Instr))
         /\ \A b \in 1 .. Len(c) : c[b] \in Seq(SourceInstr) /\ Len(c[b]) \in Nat
<1>1. SourceInstr \subseteq Instr
  BY DEF SourceInstr, Instr, Value
<1>2. Seq(SourceInstr) \subseteq Seq(Instr)
  BY <1>1
<1>3. c \in Seq(Seq(SourceInstr))
  BY FunctionsAssumption
<1>4. Seq(Seq(SourceInstr)) \subseteq Seq(Seq(Instr))
  BY <1>2
<1> QED BY <1>3, <1>4

\* Nothing is replaced at first.
LEMMA InitIndInv == Init => IndInv
<1> SUFFICES ASSUME Init PROVE IndInv
  OBVIOUS
<1>1. /\ pass \in {"mba-add", "mba-sub"} /\ code0 \in Functions /\ code = code0
      /\ bb = 1 /\ inst = 1
  BY DEF Init
<1>2. code \in Seq(Seq(Instr)) /\ \A b \in 1 .. Len(code0) : Len(code0[b]) \in Nat
  BY <1>1, SourceTypes
<1>3. ASSUME NEW b \in 1 .. Len(code0) PROVE BlockInv(b)
  <2> DEFINE src == code0[b]
             cut == [k \in 0 .. Len(src) |-> k]
  <2>1. Len(src) \in Nat
    BY <1>2
  <2>2. cut \in [0 .. Len(src) -> 0 .. Len(src)] /\ 0 \in 0 .. Len(src) /\ cut[0] = 0
        /\ cut[Len(src)] = Len(src)
    BY <2>1
  <2>3. \A k \in 1 .. Len(src) : ~(k <= 0) /\ Holds(src, cut[k - 1], cut[k], <<src[k]>>)
    <3> TAKE k \in 1 .. Len(src)
    <3>1. cut[k - 1] = k - 1 /\ cut[k] = k
      BY <2>1
    <3>2. Len(<<src[k]>>) = 1 /\ <<src[k]>>[1] = src[k]
      OBVIOUS
    <3>3. \A j \in 1 .. 1 : src[(k - 1) + j] = <<src[k]>>[j]
      BY <2>1, <3>2
    <3> QED BY <2>1, <3>1, <3>2, <3>3 DEF Holds
  <2>4. \A j, k \in 0 .. Len(src) : j < k => cut[j] < cut[k]
    OBVIOUS
  <2> HIDE DEF src, cut
  <2>5. Laid(pass, src, src, cut, 0)
    BY <2>2, <2>3, <2>4 DEF Laid
  <2>6. Progress(b, cut, 0)
    BY <1>1, <2>2 DEF Progress
  <2> QED BY <1>1, <2>2, <2>5, <2>6 DEF BlockInv, src
<1> QED BY <1>1, <1>2, <1>3 DEF IndInv, BlockInv

\* A block other than the one that is walked, while only that one changes.
LEMMA OtherBlocks ==
  ASSUME NEW b \in 1 .. Len(code0), BlockInv(b), b # bb,
         pass' = pass, code0' = code0, bb' = bb, code'[b] = code[b]
  PROVE  BlockInv(b)'
<1>1. PICK done \in 0 .. Len(code0[b]), cut \in [0 .. Len(code0[b]) -> 0 .. Len(code[b])] :
        Laid(pass, code0[b], code[b], cut, done) /\ Progress(b, cut, done)
  BY DEF BlockInv
<1>2. Progress(b, cut, done)'
  BY <1>1 DEF Progress
<1>3. Laid(pass, code0[b], code[b], cut, done)'
  BY <1>1
<1> QED BY <1>1, <1>2, <1>3 DEF BlockInv

\* The iterator goes past an instruction.
LEMMA SkipIndInv ==
  ASSUME IndInv, Skip
  PROVE  IndInv'
<1>1. /\ pass' = pass /\ code0' = code0 /\ code' = code /\ bb' = bb /\ inst' = inst + 1
      /\ bb <= Len(code) /\ inst <= Len(code[bb]) /\ ~IsTarget(pass, code[bb][inst])
  BY DEF Skip, InBlock
<1>2. /\ pass \in {"mba-add", "mba-sub"} /\ code0 \in Functions /\ bb \in 1 .. Len(code0)
         /\ inst \in Nat
      /\ code \in Seq(Seq(Instr)) /\ Len(code) = Len(code0)
      /\ \A b \in 1 .. Len(code0) : BlockInv(b)
  BY <1>1 DEF IndInv, BlockInv
<1>3. BlockInv(bb)'
  <2>1. PICK done \in 0 .. Len(code0[bb]), cut \in [0 .. Len(code0[bb]) -> 0 .. Len(code[bb])] :
          Laid(pass, code0[bb], code[bb], cut, done) /\ Progress(bb, cut, done)
    BY <1>2 DEF BlockInv
  <2>2. Len(code0[bb]) \in Nat /\ Len(code[bb]) \in Nat
    BY <1>2, SourceTypes
  <2>3. inst = cut[done] + 1
    BY <2>1 DEF Progress
  <2>4. /\ done + 1 \in 1 .. Len(code0[bb]) /\ cut[done + 1] = cut[done] + 1
    <3>1. cut[done] + 1 <= Len(code[bb])
      BY <1>1, <2>3
    <3> QED BY <2>1, <2>2, <3>1, AtIterator
  <2>5. Laid(pass, code0[bb], code[bb], cut, done + 1)
    BY <1>1, <2>1, <2>2, <2>3, PassedOver
  <2>6. Progress(bb, cut, done + 1)'
    BY <1>1, <1>2, <2>3, <2>4 DEF Progress
  <2>7. done + 1 \in 0 .. Len(code0[bb])
    BY <2>4
  <2> QED BY <1>1, <2>1, <2>5, <2>6, <2>7 DEF BlockInv
<1>4. ASSUME NEW b \in 1 .. Len(code0) PROVE BlockInv(b)'
  BY <1>1, <1>2, <1>3, OtherBlocks
<1> QED BY <1>1, <1>2, <1>4 DEF IndInv, BlockInv

\* An instruction is replaced.
LEMMA SubstituteIndInv ==
  ASSUME IndInv, Substitute
  PROVE  IndInv'
<1> DEFINE s == code[bb]
           src == code0[bb]
<1>1. /\ pass' = pass /\ code0' = code0 /\ bb' = bb
      /\ bb <= Len(code) /\ inst <= Len(s) /\ IsTarget(pass, s[inst])
  BY DEF Substitute, InBlock
<1>2. PICK new \in Replacements(pass, s[inst]) :
        code' = [code EXCEPT ![bb] = Splice(s, inst, new)] /\ inst' = inst + Len(new)
  BY DEF Substitute
<1>3. /\ pass \in {"mba-add", "mba-sub"} /\ code0 \in Functions /\ bb \in 1 .. Len(code0)
         /\ inst \in Nat
      /\ code \in Seq(Seq(Instr)) /\ Len(code) = Len(code0)
      /\ \A b \in 1 .. Len(code0) : BlockInv(b)
  BY <1>1 DEF IndInv, BlockInv
<1>4. PICK done \in 0 .. Len(src), cut \in [0 .. Len(src) -> 0 .. Len(s)] :
        Laid(pass, src, s, cut, done) /\ Progress(bb, cut, done)
  BY <1>3 DEF BlockInv
<1>5. Len(src) \in Nat /\ s \in Seq(Instr) /\ Len(s) \in Nat /\ bb \in DOMAIN code0
  BY <1>3, SourceTypes
<1>6. inst = cut[done] + 1
  BY <1>4 DEF Progress
<1>7. done + 1 \in 1 .. Len(src) /\ s[inst] = src[done + 1]
  BY <1>1, <1>4, <1>5, <1>6, AtIterator
<1>8. StandsFor(src[done + 1], new)
  <2>1. done + 1 \in DOMAIN src
    <3>1. src \in Seq(SourceInstr)
      BY <1>3, SourceTypes
    <3> QED BY <1>7, <3>1
  <2> QED BY <1>1, <1>2, <1>3, <1>5, <1>7, <2>1, ReplacementsStand
<1>9. new \in Seq(Instr) /\ Len(new) \in Nat /\ Len(new) >= 1 /\ new \in Outcomes(pass, s[inst])
  BY <1>1, <1>2, <1>8 DEF StandsFor, Outcomes
<1> DEFINE t == Splice(s, inst, new)
<1>10. PICK cut2 \in [0 .. Len(src) -> 0 .. Len(t)] :
         Laid(pass, src, t, cut2, done + 1) /\ cut2[done + 1] = cut[done] + Len(new)
  <2> HIDE DEF s, src
  <2>1. \E cut2 : Continued(pass, src, Splice(s, cut[done] + 1, new), cut2, done + 1,
                            cut[done] + Len(new))
    <3>1. cut[done] + 1 <= Len(s) /\ new \in Outcomes(pass, s[cut[done] + 1])
      BY <1>1, <1>6, <1>9
    <3> QED BY <1>4, <1>5, <1>9, <3>1, Replaced
  <2>2. t = Splice(s, cut[done] + 1, new)
    BY <1>6
  <2> HIDE DEF t
  <2> QED BY <2>1, <2>2 DEF Continued
<1>11. t \in Seq(Instr)
  <2>1. inst \in 1 .. Len(s)
    BY <1>1, <1>4, <1>5, <1>6
  <2> HIDE DEF s
  <2>2. HasSpliced(Instr, s, inst, new, t)
    BY <1>5, <1>9, <2>1, Spliced
  <2> QED BY <2>2 DEF HasSpliced
<1> HIDE DEF t
<1>12. /\ code' \in Seq(Seq(Instr)) /\ Len(code') = Len(code) /\ code'[bb] = t
       /\ \A b \in 1 .. Len(code0) : b # bb => code'[b] = code[b]
  <2>1. code' = [code EXCEPT ![bb] = t] /\ bb \in DOMAIN code /\ Len(code) \in Nat
    BY <1>2, <1>3 DEF t
  <2>2. t \in Seq(Instr) /\ code \in Seq(Seq(Instr)) /\ DOMAIN code = 1 .. Len(code0)
    BY <1>3, <1>11
  <2>3. /\ code' \in Seq(Seq(Instr)) /\ Len(code') = Len(code)
        /\ \A b \in 1 .. Len(code) : code'[b] = IF b = bb THEN t ELSE code[b]
    BY <2>1, <2>2, ExceptSeq
  <2> QED BY <1>3, <2>3
<1>13. BlockInv(bb)'
  <2>1. Progress(bb, cut2, done + 1)'
    <3>1. cut[done] \in Nat
      BY <1>4, <1>5
    <3>2. inst' = cut2[done + 1] + 1
      BY <1>2, <1>6, <1>9, <1>10, <3>1
    <3>3. ~(bb < bb) /\ ~(bb > bb)
      BY <1>3
    <3> QED BY <1>1, <3>2, <3>3 DEF Progress
  <2>2. done + 1 \in 0 .. Len(src)
    BY <1>7
  <2> QED BY <1>1, <1>10, <1>12, <2>1, <2>2 DEF BlockInv
<1>14. ASSUME NEW b \in 1 .. Len(code0) PROVE BlockInv(b)'
  BY <1>1, <1>3, <1>12, <1>13, OtherBlocks
<1>15. inst' \in Nat
  BY <1>2, <1>3, <1>9
<1> QED BY <1>1, <1>3, <1>12, <1>14, <1>15 DEF IndInv, BlockInv

\* The walk goes on in the next block.
LEMMA NextBlockIndInv ==
  ASSUME IndInv, NextBlock
  PROVE  IndInv'
<1>1. /\ pass' = pass /\ code0' = code0 /\ code' = code /\ bb' = bb + 1 /\ inst' = 1
      /\ bb <= Len(code) /\ inst > Len(code[bb])
  BY DEF NextBlock
<1>2. /\ pass \in {"mba-add", "mba-sub"} /\ code0 \in Functions /\ bb \in 1 .. Len(code0)
         /\ inst \in Nat
      /\ code \in Seq(Seq(Instr)) /\ Len(code) = Len(code0) /\ Len(code) \in Nat
      /\ \A b \in 1 .. Len(code0) : BlockInv(b)
  BY <1>1 DEF IndInv, BlockInv
<1>3. ASSUME NEW b \in 1 .. Len(code0) PROVE BlockInv(b)'
  <2> DEFINE src == code0[b]
             s == code[b]
  <2>1. PICK done \in 0 .. Len(src), cut \in [0 .. Len(src) -> 0 .. Len(s)] :
          Laid(pass, src, s, cut, done) /\ Progress(b, cut, done)
    BY <1>2 DEF BlockInv
  <2>2. Len(src) \in Nat /\ Len(s) \in Nat
    BY <1>2, SourceTypes
  <2>3. b = bb => done = Len(src)
    <3> SUFFICES ASSUME b = bb, done # Len(src) PROVE FALSE
      OBVIOUS
    <3>1. cut[done] < cut[Len(src)] /\ cut[Len(src)] = Len(s)
      BY <2>1, <2>2 DEF Laid
    <3>2. inst = cut[done] + 1
      BY <2>1 DEF Progress
    <3>3. cut[done] \in Nat
      BY <2>1, <2>2
    <3> QED BY <1>1, <2>2, <3>1, <3>2, <3>3
  <2>4. b = bb + 1 => done = 0 /\ cut[0] = 0
    BY <1>2, <2>1 DEF Progress, Laid
  <2>5. Progress(b, cut, done)'
    BY <1>1, <1>2, <2>1, <2>3, <2>4 DEF Progress
  <2> QED BY <1>1, <2>1, <2>5 DEF BlockInv
<1>4. bb + 1 \in 1 .. Len(code0) + 1
  BY <1>2
<1> QED BY <1>1, <1>2, <1>3, <1>4 DEF IndInv, BlockInv

\* The invariant holds in every state the passes reach.
LEMMA Invariance == Spec => []IndInv
<1>1. Init => IndInv
  BY InitIndInv
<1>2. IndInv /\ [Next]_vars => IndInv'
  <2> SUFFICES ASSUME IndInv, [Next]_vars PROVE IndInv'
    OBVIOUS
  <2>1. CASE Skip
    BY <2>1, SkipIndInv
  <2>2. CASE Substitute
    BY <2>2, SubstituteIndInv
  <2>3. CASE NextBlock
    BY <2>3, NextBlockIndInv
  <2>4. CASE UNCHANGED vars
    BY <2>4 DEF vars, IndInv, Progress
  <2> QED BY <2>1, <2>2, <2>3, <2>4 DEF Next, Returned
<1> QED BY <1>1, <1>2, PTL DEF Spec
-----------------------------------------------------------------------------
(* Where the source instructions have gone.                                *)

\* Rising cuts leave no gaps.
LEMMA Covered ==
  ASSUME NEW N \in Nat, NEW cut \in [0 .. N -> Nat], cut[0] = 0, NEW n \in 1 .. cut[N]
  PROVE  \E k \in 1 .. N : cut[k - 1] < n /\ n <= cut[k]
<1> DEFINE S == {m \in Nat :
                   m <= N /\ n <= cut[m] => \E k \in 1 .. m : cut[k - 1] < n /\ n <= cut[k]}
<1>1. 0 \in S
  OBVIOUS
<1>2. ASSUME NEW m \in Nat, m \in S PROVE m + 1 \in S
  <2> SUFFICES ASSUME m + 1 <= N, n <= cut[m + 1]
               PROVE  \E k \in 1 .. m + 1 : cut[k - 1] < n /\ n <= cut[k]
    OBVIOUS
  <2>1. cut[m] \in Nat /\ cut[m + 1] \in Nat
    OBVIOUS
  <2>2. CASE n <= cut[m]
    BY <1>2, <2>2
  <2>3. CASE n > cut[m]
    <3>1. m + 1 \in 1 .. m + 1 /\ (m + 1) - 1 = m
      OBVIOUS
    <3> QED BY <2>3, <3>1
  <2> QED BY <2>1, <2>2, <2>3
<1> HIDE DEF S
<1>3. N \in S
  BY <1>1, <1>2, Induction
<1> QED BY <1>3 DEF S

\* Instructions cut[k - 1] + 1 .. cut[k] of block b, which are new, stand for
\* the k-th one that the pass received.
Segment(b, cut, k, new) ==
  /\ StandsFor(code0[b][k], new)
  /\ Holds(code[b], cut[k - 1], cut[k], new)

\* The length and the elements of a segment.
SegmentLies(b, cut, k, new) ==
  /\ Len(new) \in Nat /\ DOMAIN new = 1 .. Len(new) /\ cut[k] = cut[k - 1] + Len(new)
  /\ \A j \in 1 .. Len(new) :
       code[b][cut[k - 1] + j] = new[j] /\ new[j].def[1] = code0[b][k].def[1]

LEMMA SegmentFacts ==
  ASSUME NEW b, NEW cut, NEW k, NEW new, Segment(b, cut, k, new)
  PROVE  SegmentLies(b, cut, k, new)
<1>1. new \in Seq(Instr) /\ \A j \in 1 .. Len(new) : new[j].def[1] = code0[b][k].def[1]
  BY Zenon DEF Segment, StandsFor, Supports
<1>2. cut[k] = cut[k - 1] + Len(new) /\ \A j \in 1 .. Len(new) : code[b][cut[k - 1] + j] = new[j]
  BY Zenon DEF Segment, Holds
<1>3. Len(new) \in Nat /\ DOMAIN new = 1 .. Len(new)
  BY <1>1
<1> QED BY <1>1, <1>2, <1>3, Zenon DEF SegmentLies

\* Every source instruction has a segment, whether it was passed or not.
LEMMA Segments ==
  ASSUME IndInv, NEW b \in 1 .. Len(code0), NEW done \in 0 .. Len(code0[b]), NEW cut,
         Laid(pass, code0[b], code[b], cut, done), NEW k \in 1 .. Len(code0[b])
  PROVE  /\ k <= done => \E new \in Outcomes(pass, code0[b][k]) : Segment(b, cut, k, new)
         /\ k > done => Segment(b, cut, k, <<code0[b][k]>>)
<1>1. /\ pass \in {"mba-add", "mba-sub"} /\ code0 \in Functions
      /\ b \in DOMAIN code0 /\ k \in DOMAIN code0[b]
  <2>1. code0 \in Functions /\ pass \in {"mba-add", "mba-sub"}
    BY DEF IndInv
  <2>2. b \in DOMAIN code0 /\ code0[b] \in Seq(SourceInstr)
    BY <2>1, SourceTypes
  <2> QED BY <2>1, <2>2
<1>2. k \in Nat /\ done \in Nat
  OBVIOUS
<1>3. k <= done => \E new \in Outcomes(pass, code0[b][k]) : Holds(code[b], cut[k - 1], cut[k], new)
  BY DEF Laid
<1>4. k > done => Holds(code[b], cut[k - 1], cut[k], <<code0[b][k]>>)
  BY <1>2 DEF Laid
<1>5. StandsFor(code0[b][k], <<code0[b][k]>>)
  BY <1>1, Sources, SourceStands
<1> QED BY <1>1, <1>3, <1>4, <1>5, OutcomesStand DEF Segment

\* Instruction n of block b is in the segment of the k-th source instruction.
LiesIn(b, cut, n, k, new) ==
  /\ Segment(b, cut, k, new)
  /\ n - cut[k - 1] \in 1 .. Len(new)
  /\ code[b][n] = new[n - cut[k - 1]]

IsLocated(b, cut, n) ==
  \E k \in 1 .. Len(code0[b]) : \E new : LiesIn(b, cut, n, k, new)

\* Every instruction belongs to a segment.
LEMMA Located ==
  ASSUME IndInv, NEW b \in 1 .. Len(code0), NEW done \in 0 .. Len(code0[b]), NEW cut,
         Laid(pass, code0[b], code[b], cut, done), NEW n \in 1 .. Len(code[b])
  PROVE  IsLocated(b, cut, n)
<1>1. Len(code0[b]) \in Nat /\ Len(code[b]) \in Nat
  <2>1. code0 \in Functions /\ code \in Seq(Seq(Instr)) /\ b \in 1 .. Len(code)
    BY DEF IndInv
  <2> QED BY <2>1, SourceTypes
<1>2. cut \in [0 .. Len(code0[b]) -> Nat] /\ cut[0] = 0 /\ cut[Len(code0[b])] = Len(code[b])
  BY <1>1 DEF Laid
<1>3. PICK k \in 1 .. Len(code0[b]) : cut[k - 1] < n /\ n <= cut[k]
  BY <1>1, <1>2, Covered
<1>4. PICK new : Segment(b, cut, k, new)
  <2>1. k <= done \/ k > done
    OBVIOUS
  <2> QED BY <2>1, Segments
<1>5. Len(new) \in Nat /\ cut[k] = cut[k - 1] + Len(new)
      /\ \A j \in 1 .. Len(new) : code[b][cut[k - 1] + j] = new[j]
  BY <1>4, SegmentFacts DEF SegmentLies
<1>7. cut[k - 1] \in Nat
  <2>1. k - 1 \in 0 .. Len(code0[b])
    BY <1>1
  <2> QED BY <1>2, <2>1
<1>6. n - cut[k - 1] \in 1 .. Len(new) /\ cut[k - 1] + (n - cut[k - 1]) = n
  <2>1. n \in Int /\ cut[k - 1] \in Nat /\ Len(new) \in Nat /\ cut[k - 1] < n /\ n <= cut[k - 1] + Len(new)
    BY <1>3, <1>5, <1>7
  <2> QED BY <2>1, PlaceInSegment
<1>8. LiesIn(b, cut, n, k, new)
  BY <1>4, <1>5, <1>6 DEF LiesIn
<1> QED BY <1>8 DEF IsLocated

\* A stem names one source instruction.
LEMMA Stems ==
  ASSUME NEW c \in Functions, NEW a \in 1 .. Len(c), NEW b \in 1 .. Len(c),
         NEW j \in 1 .. Len(c[a]), NEW k \in 1 .. Len(c[b]), c[a][j].def[1] = c[b][k].def[1]
  PROVE  a = b /\ j = k
<1>1. c[a] \in Seq(SourceInstr) /\ c[b] \in Seq(SourceInstr) /\ a \in DOMAIN c /\ b \in DOMAIN c
  BY SourceTypes
<1>2. j \in DOMAIN c[a] /\ k \in DOMAIN c[b] /\ c[a][j] \in SourceInstr
      /\ c[b][k] \in SourceInstr
  BY <1>1
<1>3. c[a][j].def = c[b][k].def
  <2>1. \A i \in SourceInstr : i.def = <<i.def[1], 0>>
    BY DEF SourceInstr
  <2> QED BY <1>2, <2>1
<1>4. DefinedOnce(c)
  BY FunctionsAssumption
<1> QED BY <1>1, <1>2, <1>3, <1>4 DEF DefinedOnce

\* A segment is all there is of its source instruction.
LEMMA SegmentIsAll ==
  ASSUME IndInv, NEW b \in 1 .. Len(code0), NEW done \in 0 .. Len(code0[b]), NEW cut,
         Laid(pass, code0[b], code[b], cut, done), NEW k \in 1 .. Len(code0[b]),
         NEW new, Segment(b, cut, k, new)
  PROVE  Became(b, code0[b][k], new)
<1> DEFINE i == code0[b][k]
           n == cut[k - 1]
           s == code[b]
<1>1. code0 \in Functions /\ Len(code0[b]) \in Nat /\ s \in Seq(Instr) /\ Len(s) \in Nat
  <2>1. code0 \in Functions /\ code \in Seq(Seq(Instr)) /\ b \in 1 .. Len(code)
    BY DEF IndInv
  <2> QED BY <2>1, SourceTypes
<1>2. cut \in [0 .. Len(code0[b]) -> 0 .. Len(s)]
  BY DEF Laid
<1>3. n \in Nat /\ cut[k] <= Len(s)
  <2>1. k - 1 \in 0 .. Len(code0[b]) /\ k \in 0 .. Len(code0[b])
    BY <1>1
  <2>2. cut[k - 1] \in 0 .. Len(s) /\ cut[k] \in 0 .. Len(s)
    BY <1>2, <2>1
  <2> HIDE DEF s
  <2> QED BY <1>1, <2>2
<1>4. /\ Len(new) \in Nat /\ DOMAIN new = 1 .. Len(new) /\ cut[k] = n + Len(new)
      /\ \A j \in 1 .. Len(new) : s[n + j] = new[j] /\ new[j].def[1] = i.def[1]
  BY SegmentFacts DEF SegmentLies
<1>5. n + Len(new) <= Len(s) /\ n \in 0 .. Len(s)
  BY <1>1, <1>3, <1>4
<1>6. DOMAIN s = 1 .. Len(s)
  BY <1>1
<1> HIDE DEF s, n
<1>7. ASSUME NEW m \in n + 1 .. n + Len(new) PROVE m \in DOMAIN s /\ s[m].def[1] = i.def[1]
  <2>1. m - n \in 1 .. Len(new) /\ n + (m - n) = m /\ m \in 1 .. Len(s)
    BY <1>1, <1>3, <1>4, <1>5
  <2>2. s[n + (m - n)] = new[m - n] /\ new[m - n].def[1] = i.def[1]
    BY <1>4, <2>1
  <2> QED BY <1>6, <2>1, <2>2
<1>8. ASSUME NEW m \in DOMAIN s, s[m].def[1] = i.def[1] PROVE m \in n + 1 .. n + Len(new)
  <2>1. m \in 1 .. Len(s)
    BY <1>6
  <2>8. IsLocated(b, cut, m)
    <3>1. m \in 1 .. Len(code[b])
      BY <2>1 DEF s
    <3> QED BY <3>1, Located
  <2>9. PICK k2 \in 1 .. Len(code0[b]) : \E new2 : LiesIn(b, cut, m, k2, new2)
    BY <2>8 DEF IsLocated
  <2>10. PICK new2 : LiesIn(b, cut, m, k2, new2)
    BY <2>9
  <2>2. /\ Segment(b, cut, k2, new2)
        /\ m - cut[k2 - 1] \in 1 .. Len(new2) /\ s[m] = new2[m - cut[k2 - 1]]
    BY <2>10 DEF LiesIn, s
  <2>3. /\ Len(new2) \in Nat /\ cut[k2] = cut[k2 - 1] + Len(new2)
        /\ \A j \in 1 .. Len(new2) : new2[j].def[1] = code0[b][k2].def[1]
    BY <2>2, SegmentFacts DEF SegmentLies
  <2>4. code0[b][k2].def[1] = i.def[1]
    BY <1>8, <2>2, <2>3, Zenon
  <2>5. k2 = k
    BY <1>1, <2>4, Stems
  <2>6. cut[k2 - 1] = n
    BY <2>5 DEF n
  <2>7. m - n \in 1 .. Len(new2) /\ n + Len(new2) = n + Len(new)
    BY <1>4, <2>2, <2>3, <2>5, <2>6
  <2>11. n \in Nat /\ m \in Int /\ Len(new) \in Nat /\ Len(new2) \in Nat
    BY <1>1, <1>3, <1>4, <2>1, <2>3
  <2> HIDE DEF n, s, i
  <2> QED BY <2>7, <2>11
<1>9. {m \in DOMAIN s : s[m].def[1] = i.def[1]} = n + 1 .. n + Len(new)
  BY <1>7, <1>8
<1>10. \A j \in DOMAIN new : s[n + j] = new[j]
  BY <1>4
<1> QED BY <1>5, <1>9, <1>10 DEF Became, s

\* For every function: what stands for an instruction, at any time, is the
\* instruction, or, if the pass looks for it, one replacement of it.
THEOREM TargetsAreReplacedOnce == Spec => []EachTargetOnce
<1>1. ASSUME IndInv PROVE EachTargetOnce
  <2>1. code0 \in Functions /\ DOMAIN code0 = 1 .. Len(code0)
    <3>1. code0 \in Functions
      BY <1>1 DEF IndInv
    <3> QED BY <3>1, SourceTypes
  <2> SUFFICES ASSUME NEW b \in 1 .. Len(code0), NEW k \in DOMAIN code0[b]
               PROVE  \/ /\ Became(b, code0[b][k], <<code0[b][k]>>)
                         /\ bb > b => ~IsTarget(pass, code0[b][k])
                      \/ /\ IsTarget(pass, code0[b][k])
                         /\ \E new \in Replacements(pass, code0[b][k]) : Became(b, code0[b][k], new)
    BY <2>1 DEF EachTargetOnce
  <2>2. k \in 1 .. Len(code0[b]) /\ Len(code0[b]) \in Nat
    BY <2>1, SourceTypes
  <2>3. PICK done \in 0 .. Len(code0[b]), cut \in [0 .. Len(code0[b]) -> 0 .. Len(code[b])] :
          Laid(pass, code0[b], code[b], cut, done) /\ Progress(b, cut, done)
    BY <1>1 DEF IndInv
  <2>4. CASE k <= done
    <3>1. PICK new \in Outcomes(pass, code0[b][k]) : Segment(b, cut, k, new)
      BY <1>1, <2>2, <2>3, <2>4, Segments
    <3>2. Became(b, code0[b][k], new)
      BY <1>1, <2>2, <2>3, <3>1, SegmentIsAll
    <3> QED BY <3>1, <3>2 DEF Outcomes
  <2>5. CASE k > done
    <3>1. Segment(b, cut, k, <<code0[b][k]>>)
      BY <1>1, <2>2, <2>3, <2>5, Segments
    <3>2. Became(b, code0[b][k], <<code0[b][k]>>)
      BY <1>1, <2>2, <2>3, <3>1, SegmentIsAll
    <3>3. ~(bb > b)
      <4>1. bb \in Nat
        BY <1>1 DEF IndInv
      <4> QED BY <2>2, <2>3, <2>5, <4>1 DEF Progress
    <3> QED BY <3>2, <3>3
  <2> QED BY <2>2, <2>4, <2>5
<1> QED BY <1>1, Invariance, PTL

\* A position in an interval as an offset from where it starts.
LEMMA Offsets ==
  ASSUME NEW lo \in Int, NEW len \in Int, NEW h \in lo + 1 .. lo + len
  PROVE  h - lo \in 1 .. len /\ lo + (h - lo) = h
OBVIOUS

\* For every function: the iterator stays in the block it walks, and a value
\* has one definition, although each replacement adds instructions.
THEOREM TypeCorrect == Spec => []TypeOK
<1>1. ASSUME IndInv PROVE TypeOK
  <2>1. /\ code0 \in Functions /\ bb \in 1 .. Len(code0) + 1 /\ Len(code) = Len(code0)
        /\ code \in Seq(Seq(Instr)) /\ DOMAIN code = 1 .. Len(code0)
    BY <1>1 DEF IndInv
  <2>2. ASSUME bb <= Len(code) PROVE inst \in 1 .. Len(code[bb]) + 1
    <3>1. bb \in 1 .. Len(code0)
      BY <2>1, <2>2
    <3>2. PICK done \in 0 .. Len(code0[bb]), cut \in [0 .. Len(code0[bb]) -> 0 .. Len(code[bb])] :
            Progress(bb, cut, done)
      BY <1>1, <3>1 DEF IndInv
    <3>3. Len(code[bb]) \in Nat
      BY <2>1, <3>1
    <3>4. inst = cut[done] + 1
      BY <3>2 DEF Progress
    <3> QED BY <3>2, <3>3, <3>4
  <2>3. DefinedOnce(code)
    <3> SUFFICES ASSUME NEW a \in 1 .. Len(code0), NEW b \in 1 .. Len(code0),
                        NEW m \in DOMAIN code[a], NEW n \in DOMAIN code[b],
                        code[a][m].def = code[b][n].def
                 PROVE  a = b /\ m = n
      BY <2>1 DEF DefinedOnce
    <3>1. m \in 1 .. Len(code[a]) /\ n \in 1 .. Len(code[b]) /\ Len(code[b]) \in Nat
      BY <2>1
    <3>2. PICK doneA \in 0 .. Len(code0[a]), cutA \in [0 .. Len(code0[a]) -> 0 .. Len(code[a])] :
            Laid(pass, code0[a], code[a], cutA, doneA)
      BY <1>1 DEF IndInv
    <3>3. PICK doneB \in 0 .. Len(code0[b]), cutB \in [0 .. Len(code0[b]) -> 0 .. Len(code[b])] :
            Laid(pass, code0[b], code[b], cutB, doneB)
      BY <1>1 DEF IndInv
    <3>14. PICK j \in 1 .. Len(code0[a]) : \E new : LiesIn(a, cutA, m, j, new)
      <4>1. IsLocated(a, cutA, m)
        BY <1>1, <3>1, <3>2, Located
      <4> QED BY <4>1 DEF IsLocated
    <3>16. PICK newA : LiesIn(a, cutA, m, j, newA)
      BY <3>14
    <3>4. /\ Segment(a, cutA, j, newA)
         /\ m - cutA[j - 1] \in 1 .. Len(newA) /\ code[a][m] = newA[m - cutA[j - 1]]
      BY <3>16 DEF LiesIn
    <3>15. PICK k \in 1 .. Len(code0[b]) : \E new : LiesIn(b, cutB, n, k, new)
      <4>1. IsLocated(b, cutB, n)
        BY <1>1, <3>1, <3>3, Located
      <4> QED BY <4>1 DEF IsLocated
    <3>17. PICK newB : LiesIn(b, cutB, n, k, newB)
      BY <3>15
    <3>5. /\ Segment(b, cutB, k, newB)
         /\ n - cutB[k - 1] \in 1 .. Len(newB) /\ code[b][n] = newB[n - cutB[k - 1]]
      BY <3>17 DEF LiesIn
    <3>6. /\ code[a][m].def[1] = code0[a][j].def[1] /\ code[b][n].def[1] = code0[b][k].def[1]
         /\ code0[a][j].def[1] = code0[b][k].def[1]
      <4>1. code[a][m].def[1] = code0[a][j].def[1]
        <5>1. /\ code[a][cutA[j - 1] + (m - cutA[j - 1])] = newA[m - cutA[j - 1]]
              /\ newA[m - cutA[j - 1]].def[1] = code0[a][j].def[1]
          <6>1. SegmentLies(a, cutA, j, newA)
            BY <3>4, SegmentFacts
          <6> QED BY <3>4, <6>1 DEF SegmentLies
        <5> QED BY <3>4, <5>1
      <4>2. code[b][n].def[1] = code0[b][k].def[1]
        <5>1. /\ code[b][cutB[k - 1] + (n - cutB[k - 1])] = newB[n - cutB[k - 1]]
              /\ newB[n - cutB[k - 1]].def[1] = code0[b][k].def[1]
          <6>1. SegmentLies(b, cutB, k, newB)
            BY <3>5, SegmentFacts
          <6> QED BY <3>5, <6>1 DEF SegmentLies
        <5> QED BY <3>5, <5>1
      <4> QED BY <4>1, <4>2
    <3>7. a = b /\ j = k
      <4>1. /\ code0 \in Functions /\ a \in 1 .. Len(code0) /\ b \in 1 .. Len(code0)
            /\ j \in 1 .. Len(code0[a]) /\ k \in 1 .. Len(code0[b])
        BY <2>1
      <4> QED BY <3>6, <4>1, Stems
    <3>8. Became(b, code0[b][k], newB)
      BY <1>1, <3>3, <3>5, SegmentIsAll
    <3>9. PICK lo \in 0 .. Len(code[b]) :
            /\ {h \in DOMAIN code[b] : code[b][h].def[1] = code0[b][k].def[1]}
                 = lo + 1 .. lo + Len(newB)
            /\ \A h \in DOMAIN newB : code[b][lo + h] = newB[h]
      BY <3>8 DEF Became
    <3>10. m \in lo + 1 .. lo + Len(newB) /\ n \in lo + 1 .. lo + Len(newB)
      <4>1. m \in DOMAIN code[b] /\ code[b][m].def[1] = code0[b][k].def[1]
        BY <3>6, <3>7
      <4> QED BY <3>6, <3>9, <4>1
    <3>11. /\ Len(newB) \in Nat /\ DOMAIN newB = 1 .. Len(newB)
           /\ \A g, h \in 1 .. Len(newB) : newB[g].def = newB[h].def => g = h
      <4>1. Len(newB) \in Nat /\ DOMAIN newB = 1 .. Len(newB)
        BY <3>5, SegmentFacts DEF SegmentLies
      <4>2. StandsFor(code0[b][k], newB)
        BY <3>5 DEF Segment
      <4> QED BY <4>1, <4>2 DEF StandsFor
    <3>12. /\ m - lo \in 1 .. Len(newB) /\ lo + (m - lo) = m
           /\ n - lo \in 1 .. Len(newB) /\ lo + (n - lo) = n
      <4>1. lo \in Nat /\ Len(newB) \in Nat /\ m \in Int /\ n \in Int
        BY <3>1, <3>7, <3>11
      <4>2. \A h \in lo + 1 .. lo + Len(newB) : h - lo \in 1 .. Len(newB) /\ lo + (h - lo) = h
        BY <4>1, Offsets
      <4> QED BY <3>10, <4>2, Zenon
    <3>13. code[b][m] = newB[m - lo] /\ code[b][n] = newB[n - lo]
      BY <3>9, <3>11, <3>12
    <3>20. m - lo = n - lo
      BY <3>7, <3>11, <3>12, <3>13
    <3> QED BY <3>1, <3>7, <3>12, <3>20
  <2> QED BY <2>1, <2>2, <2>3 DEF TypeOK
<1> QED BY <1>1, Invariance, PTL
-----------------------------------------------------------------------------
(* What a function computes.                                               *)

\* The values known after x, an instruction or, if all is TRUE, a block.
After(all, x, env) == IF all THEN AfterBlock(x, env) ELSE Assign(env, x)

\* run lists the values known after each of the elements of s.
Runs(all, s, env, run) ==
  run = [n \in 0 .. Len(s) |-> IF n = 0 THEN env ELSE After(all, s[n], run[n - 1])]

RunsStep(all, s, env, run) ==
  /\ run[0] = env
  /\ \A n \in 1 .. Len(s) : run[n] = After(all, s[n], run[n - 1])

\* A run, one element after the other.
LEMMA RunsOneByOne ==
  ASSUME NEW all, NEW s, NEW env, Len(s) \in Nat, NEW run, Runs(all, s, env, run)
  PROVE  RunsStep(all, s, env, run)
<1> DEFINE e == [n \in 0 .. Len(s) |-> IF n = 0 THEN env ELSE After(all, s[n], run[n - 1])]
<1>1. e[0] = env /\ \A n \in 1 .. Len(s) : e[n] = After(all, s[n], run[n - 1])
  OBVIOUS
<1>2. run = e
  BY DEF Runs
<1> QED BY <1>1, <1>2 DEF RunsStep

\* Every sequence has a run.
LEMMA RunExists ==
  ASSUME NEW all, NEW s, NEW env, Len(s) \in Nat
  PROVE  \E run : Runs(all, s, env, run)
<1> DEFINE Upto(k, run) ==
             run = [n \in 0 .. k |-> IF n = 0 THEN env ELSE After(all, s[n], run[n - 1])]
           S == {k \in Nat : \E run : Upto(k, run)}
<1>1. 0 \in S
  <2> DEFINE run == [n \in 0 .. 0 |-> env]
  <2>1. Upto(0, run)
    OBVIOUS
  <2> QED BY <2>1
<1>2. ASSUME NEW k \in Nat, k \in S PROVE k + 1 \in S
  <2>1. PICK run : Upto(k, run)
    BY <1>2
  <2> DEFINE e == [n \in 0 .. k |-> IF n = 0 THEN env ELSE After(all, s[n], run[n - 1])]
             more == [n \in 0 .. k + 1 |->
                        IF n = k + 1 THEN After(all, s[k + 1], run[k]) ELSE run[n]]
  <2>2. e[0] = env /\ \A n \in 1 .. k : e[n] = After(all, s[n], run[n - 1])
    OBVIOUS
  <2>3. run = e
    BY <2>1
  <2>4. run[0] = env /\ \A n \in 1 .. k : run[n] = After(all, s[n], run[n - 1])
    BY <2>2, <2>3
  <2>5. /\ \A n \in 0 .. k : more[n] = run[n]
        /\ more[k + 1] = After(all, s[k + 1], run[k])
    OBVIOUS
  <2>6. DOMAIN more = 0 .. k + 1 /\ more = [n \in 0 .. k + 1 |-> more[n]]
    OBVIOUS
  <2> HIDE DEF more, e
  <2>7. ASSUME NEW n \in 0 .. k + 1
        PROVE  more[n] = IF n = 0 THEN env ELSE After(all, s[n], more[n - 1])
    <3>1. CASE n = 0
      BY <2>4, <2>5, <3>1
    <3>2. CASE n \in 1 .. k
      <4>1. n - 1 \in 0 .. k /\ n \in 0 .. k /\ n # 0
        BY <3>2
      <4> QED BY <2>4, <2>5, <3>2, <4>1
    <3>3. CASE n = k + 1
      <4>1. n - 1 = k /\ k \in 0 .. k /\ n # 0
        BY <3>3
      <4> QED BY <2>5, <3>3, <4>1
    <3> QED BY <3>1, <3>2, <3>3
  <2>8. Upto(k + 1, more)
    BY <2>6, <2>7
  <2> HIDE DEF Upto
  <2> QED BY <2>8
<1> HIDE DEF S
<1>3. Len(s) \in S
  BY <1>1, <1>2, Induction
<1>4. PICK run : Upto(Len(s), run)
  BY <1>3 DEF S
<1>5. Runs(all, s, env, run)
  BY <1>4 DEF Runs
<1> QED BY <1>5

\* The values after each instruction of a block, and after each block.
BlockRun(s, env, run) ==
  /\ run[0] = env
  /\ \A n \in 1 .. Len(s) : run[n] = Assign(run[n - 1], s[n])
  /\ AfterBlock(s, env) = run[Len(s)]

FunctionRun(c, in, run) ==
  /\ run[0] = in
  /\ \A b \in 1 .. Len(c) : run[b] = AfterBlock(c[b], run[b - 1])
  /\ Values(c, in) = run[Len(c)]

\* Every block has a run, which ends with the values after the block.
LEMMA BlockRunExists ==
  ASSUME NEW s, NEW env, Len(s) \in Nat
  PROVE  \E run : BlockRun(s, env, run)
<1> DEFINE Run(r) == r = [n \in 0 .. Len(s) |-> IF n = 0 THEN env ELSE Assign(r[n - 1], s[n])]
           run == CHOOSE r : Run(r)
<1>1. \A r : Run(r) <=> Runs(FALSE, s, env, r)
  BY DEF Runs, After
<1>2. Run(run)
  <2> HIDE DEF Run
  <2> QED BY <1>1, RunExists
<1>3. AfterBlock(s, env) = run[Len(s)]
  BY DEF AfterBlock
<1> HIDE DEF run, Run
<1>4. RunsStep(FALSE, s, env, run)
  BY <1>1, <1>2, RunsOneByOne
<1>5. BlockRun(s, env, run)
  BY <1>3, <1>4 DEF BlockRun, RunsStep, After
<1> QED BY <1>5

\* Every function has a run, which ends with its values.
LEMMA FunctionRunExists ==
  ASSUME NEW c, NEW in, Len(c) \in Nat
  PROVE  \E run : FunctionRun(c, in, run)
<1> DEFINE Run(r) == r = [b \in 0 .. Len(c) |-> IF b = 0 THEN in ELSE AfterBlock(c[b], r[b - 1])]
           run == CHOOSE r : Run(r)
<1>1. \A r : Run(r) <=> Runs(TRUE, c, in, r)
  BY DEF Runs, After
<1>2. Run(run)
  <2> HIDE DEF Run
  <2> QED BY <1>1, RunExists
<1>3. Values(c, in) = run[Len(c)]
  BY DEF Values
<1> HIDE DEF run, Run
<1>4. RunsStep(TRUE, c, in, run)
  BY <1>1, <1>2, RunsOneByOne
<1>5. FunctionRun(c, in, run)
  BY <1>3, <1>4 DEF FunctionRun, RunsStep, After
<1> QED BY <1>5
-----------------------------------------------------------------------------
(* What an instruction and its replacement compute.                        *)

\* f is e, and the value of i.
Extends(e, i, f) ==
  /\ DOMAIN f = DOMAIN e \cup {i.def}
  /\ f[i.def] = Result(e, i)
  /\ \A v \in DOMAIN e : v # i.def => f[v] = e[v]

\* An assignment does just that.
LEMMA Assigned == \A e, i : Extends(e, i, Assign(e, i))
<1> SUFFICES ASSUME NEW e, NEW i PROVE Extends(e, i, Assign(e, i))
  OBVIOUS
<1> QED BY DEF Extends, Assign

\* An operation on two operands.
LEMMA BinaryResult ==
  ASSUME NEW env, NEW i, i.width # 0, DOMAIN i.args = {1, 2}
  PROVE  LET m == 2 ^ i.width
             x == Read(env, i.args[1])
             y == Read(env, i.args[2])
         IN  /\ i.op = "add" => Result(env, i) = Plus(m, x, y)
             /\ i.op = "sub" => Result(env, i) = Minus(m, x, y)
             /\ i.op = "mul" => Result(env, i) = Times(m, x, y)
             /\ i.op = "and" => Result(env, i) = And16(x, y) % m
             /\ i.op = "xor" => Result(env, i) = Xor16(x, y) % m
<1> DEFINE a == [k \in DOMAIN i.args |-> Read(env, i.args[k])]
           m == 2 ^ i.width
<1>1. a[1] = Read(env, i.args[1]) /\ a[2] = Read(env, i.args[2])
  OBVIOUS
<1>2. Result(env, i) = Compute(i.op, m, a)
  BY DEF Result
<1> HIDE DEF a, m
<1>3. /\ i.op = "add" => Compute(i.op, m, a) = Plus(m, a[1], a[2])
      /\ i.op = "sub" => Compute(i.op, m, a) = Minus(m, a[1], a[2])
      /\ i.op = "mul" => Compute(i.op, m, a) = Times(m, a[1], a[2])
      /\ i.op = "and" => Compute(i.op, m, a) = And16(a[1], a[2]) % m
      /\ i.op = "xor" => Compute(i.op, m, a) = Xor16(a[1], a[2]) % m
  BY DEF Compute
<1> QED BY <1>1, <1>2, <1>3 DEF m

\* The complement of one operand.
LEMMA NotResult ==
  ASSUME NEW env, NEW i, i.width # 0, DOMAIN i.args = {1}, i.op = "not"
  PROVE  Result(env, i) = Complement(2 ^ i.width, Read(env, i.args[1]))
<1> DEFINE a == [k \in DOMAIN i.args |-> Read(env, i.args[k])]
           m == 2 ^ i.width
<1>1. a[1] = Read(env, i.args[1])
  OBVIOUS
<1>2. Result(env, i) = Compute(i.op, m, a)
  BY DEF Result
<1> HIDE DEF a, m
<1>3. Compute("not", m, a) = Complement(m, a[1])
  BY DEF Compute
<1> QED BY <1>1, <1>2, <1>3 DEF m

\* A result is an integer of the width of the instruction.
LEMMA ResultFits ==
  ASSUME NEW env, NEW i \in SourceInstr,
         Read(env, i.args[1]) \in Nat, Read(env, i.args[2]) \in Nat
  PROVE  Result(env, i) \in Nat /\ Fits(Result(env, i), i.width)
<1> DEFINE m == 2 ^ i.width
           x == Read(env, i.args[1])
           y == Read(env, i.args[2])
<1>1. i.op \in {"add", "sub", "mul", "and", "xor"} /\ i.width \in 0 .. 16
      /\ DOMAIN i.args = {1, 2}
  BY DEF SourceInstr
<1>2. m \in Nat \ {0}
  BY <1>1, Moduli
<1>3. CASE i.width = 0
  BY <1>3 DEF Result, Fits
<1>4. CASE i.width # 0
  <2>1. /\ i.op = "add" => Result(env, i) = Plus(m, x, y)
        /\ i.op = "sub" => Result(env, i) = Minus(m, x, y)
        /\ i.op = "mul" => Result(env, i) = Times(m, x, y)
        /\ i.op = "and" => Result(env, i) = And16(x, y) % m
        /\ i.op = "xor" => Result(env, i) = Xor16(x, y) % m
    BY <1>1, <1>4, BinaryResult
  <2> DEFINE N == And16(x, y)
             X == Xor16(x, y)
  <2>2. N \in Int /\ X \in Int /\ x \in Nat /\ y \in Nat
    BY BitwiseInt
  <2>3. x * y \in Int
    BY <2>2
  <2> DEFINE p == x * y
  <2> HIDE DEF N, X, m, x, y
  <2>5. \A n \in Int : n % m \in 0 .. m - 1
    BY <1>2
  <2>6. x + y \in Int /\ x + m - y \in Int
    BY <1>2, <2>2
  <2>7. Plus(m, x, y) \in 0 .. m - 1 /\ Minus(m, x, y) \in 0 .. m - 1
        /\ Times(m, x, y) \in 0 .. m - 1 /\ N % m \in 0 .. m - 1 /\ X % m \in 0 .. m - 1
    BY <2>2, <2>3, <2>5, <2>6 DEF Plus, Minus, Times
  <2>8. Result(env, i) \in 0 .. m - 1
    BY <1>1, <2>1, <2>7 DEF N, X
  <2>9. Result(env, i) \in Nat
    BY <2>8
  <2> QED BY <2>8, <2>9 DEF Fits, m
<1> QED BY <1>3, <1>4

\* r lists the values known after each of the instructions new.
Chain(new, r) == \A j \in 1 .. Len(new) : r[j] = Assign(r[j - 1], new[j])

\* A value stays until it is defined again.
LEMMA Stays ==
  ASSUME NEW new, Len(new) \in Nat, NEW r, Chain(new, r),
         NEW n \in 0 .. Len(new), NEW j \in n .. Len(new), NEW v \in DOMAIN r[n],
         \A q \in n + 1 .. j : v # new[q].def
  PROVE  v \in DOMAIN r[j] /\ r[j][v] = r[n][v]
<1> DEFINE S == {d \in Nat : n + d <= j => v \in DOMAIN r[n + d] /\ r[n + d][v] = r[n][v]}
<1>1. 0 \in S
  OBVIOUS
<1>2. ASSUME NEW d \in Nat, d \in S PROVE d + 1 \in S
  <2> SUFFICES ASSUME n + (d + 1) <= j
               PROVE  v \in DOMAIN r[n + (d + 1)] /\ r[n + (d + 1)][v] = r[n][v]
    OBVIOUS
  <2> DEFINE q == n + (d + 1)
  <2>1. q \in 1 .. Len(new) /\ q \in n + 1 .. j /\ q - 1 = n + d /\ n + d <= j
    OBVIOUS
  <2>2. v \in DOMAIN r[n + d] /\ r[n + d][v] = r[n][v]
    BY <1>2, <2>1
  <2> HIDE DEF q
  <2>3. r[q] = Assign(r[n + d], new[q]) /\ v # new[q].def
    BY <2>1 DEF Chain
  <2>4. Extends(r[n + d], new[q], r[q])
    BY <2>3, Assigned
  <2>5. v \in DOMAIN r[q] /\ r[q][v] = r[n][v]
    BY <2>2, <2>3, <2>4 DEF Extends
  <2> QED BY <2>5 DEF q
<1> HIDE DEF S
<1>3. j - n \in S
  BY <1>1, <1>2, Induction
<1>4. j - n \in Nat /\ n + (j - n) = j
  OBVIOUS
<1> QED BY <1>3, <1>4 DEF S

\* The operands of i, in e: integers of its width, none of them inserted.
Operands(e, i) ==
  \A n \in {1, 2} :
    /\ Read(e, i.args[n]) \in Nat /\ Fits(Read(e, i.args[n]), i.width)
    /\ \/ IsConst(i.args[n])
       \/ i.args[n] \in DOMAIN e /\ \A k \in Nat \ {0} : i.args[n] # Temp(i, k)

\* What an instruction of a replacement defines.
LEMMA Stands ==
  ASSUME NEW i \in SourceInstr, ~IsConst(i.def), NEW new, StandsFor(i, new)
  PROVE  /\ Len(new) \in Nat \ {0}
         /\ \A j \in 1 .. Len(new) :
              /\ ~IsConst(new[j].def) /\ new[j].width = i.width
              /\ IF j = Len(new) THEN new[j].def = i.def
                 ELSE \E k \in Nat \ {0} : new[j].def = Temp(i, k)
         /\ \A j, k \in 1 .. Len(new) : new[j].def = new[k].def => j = k
<1>1. new \in Seq(Instr) /\ Len(new) \in Nat \ {0}
      /\ \A j, k \in 1 .. Len(new) : new[j].def = new[k].def => j = k
  BY DEF StandsFor
<1>2. ASSUME NEW j \in 1 .. Len(new)
      PROVE  /\ ~IsConst(new[j].def) /\ new[j].width = i.width
             /\ IF j = Len(new) THEN new[j].def = i.def
                ELSE \E k \in Nat \ {0} : new[j].def = Temp(i, k)
  <2> DEFINE d == new[j].def
  <2>1. /\ new[j] \in Instr /\ d[1] = i.def[1] /\ (d[2] = 0 <=> j = Len(new))
        /\ new[j].width = i.width
    BY DEF StandsFor, Supports
  <2>2. d \in Value
    BY <2>1 DEF Instr
  <2>3. d = <<d[1], d[2]>> /\ d[2] \in Nat
    BY <2>2 DEF Value
  <2>4. i.def = <<i.def[1], 0>>
    BY DEF SourceInstr
  <2> HIDE DEF d
  <2>5. ~IsConst(d)
    BY <2>1 DEF IsConst
  <2>6. j # Len(new) => d = Temp(i, d[2])
    BY <2>1, <2>3 DEF Temp
  <2>7. j = Len(new) => d = i.def
    BY <2>1, <2>3, <2>4
  <2> QED BY <2>1, <2>3, <2>5, <2>6, <2>7 DEF d
<1> QED BY <1>1, <1>2

\* What was known of others is known after a replacement.
LEMMA OthersStay ==
  ASSUME NEW i \in SourceInstr, ~IsConst(i.def), NEW new, StandsFor(i, new),
         NEW r, Chain(new, r), NEW v \in DOMAIN r[0], v # i.def,
         \A k \in Nat \ {0} : v # Temp(i, k)
  PROVE  v \in DOMAIN r[Len(new)] /\ r[Len(new)][v] = r[0][v]
<1>1. Len(new) \in Nat \ {0} /\ \A q \in 1 .. Len(new) : v # new[q].def
  BY Stands
<1>2. /\ 0 \in 0 .. Len(new) /\ Len(new) \in 0 .. Len(new)
      /\ \A q \in 0 + 1 .. Len(new) : v # new[q].def
  BY <1>1
<1> QED BY <1>1, <1>2, Stays

\* What the replacement reads of the operands is what they were.
LEMMA OperandsStay ==
  ASSUME NEW i \in SourceInstr, ~IsConst(i.def), NEW new, StandsFor(i, new),
         NEW r, Chain(new, r), Operands(r[0], i), NEW n \in {1, 2}, NEW j \in 0 .. Len(new) - 1
  PROVE  Read(r[j], i.args[n]) = Read(r[0], i.args[n])
<1> DEFINE v == i.args[n]
<1>1. CASE IsConst(v)
  BY <1>1 DEF Read
<1>2. CASE ~IsConst(v)
  <2>1. v \in DOMAIN r[0] /\ \A k \in Nat \ {0} : v # Temp(i, k)
    BY <1>2 DEF Operands
  <2> HIDE DEF v
  <2>2. Len(new) \in Nat \ {0}
    BY Stands
  <2>3. \A q \in 0 + 1 .. j : v # new[q].def
    <3> SUFFICES ASSUME NEW q \in 0 + 1 .. j PROVE v # new[q].def
      OBVIOUS
    <3>1. q \in 1 .. Len(new) /\ q # Len(new)
      BY <2>2
    <3>2. \E k \in Nat \ {0} : new[q].def = Temp(i, k)
      BY <3>1, Stands
    <3> QED BY <2>1, <3>2
  <2>4. 0 \in 0 .. Len(new) /\ j \in 0 .. Len(new) /\ Len(new) \in Nat
    BY <2>2
  <2>5. r[j][v] = r[0][v]
    BY <2>1, <2>3, <2>4, Stays
  <2> QED BY <1>2, <2>5 DEF Read, v
<1> QED BY <1>1, <1>2

\* What an instruction of the replacement defines is what later ones read.
LEMMA ResultStays ==
  ASSUME NEW i \in SourceInstr, ~IsConst(i.def), NEW new, StandsFor(i, new),
         NEW r, Chain(new, r), NEW p \in 1 .. Len(new), NEW j \in p .. Len(new)
  PROVE  new[p].def \in DOMAIN r[j] /\ Read(r[j], new[p].def) = Result(r[p - 1], new[p])
<1> DEFINE v == new[p].def
<1>1. Len(new) \in Nat \ {0} /\ ~IsConst(v)
      /\ \A h, k \in 1 .. Len(new) : new[h].def = new[k].def => h = k
  BY Stands
<1>2. r[p] = Assign(r[p - 1], new[p])
  BY DEF Chain
<1>3. v \in DOMAIN r[p] /\ r[p][v] = Result(r[p - 1], new[p])
  <2>1. Extends(r[p - 1], new[p], r[p])
    BY <1>2, Assigned
  <2> QED BY <2>1 DEF Extends
<1>4. \A q \in p + 1 .. j : v # new[q].def
  <2> SUFFICES ASSUME NEW q \in p + 1 .. j PROVE v # new[q].def
    OBVIOUS
  <2>1. q \in 1 .. Len(new) /\ q # p
    BY <1>1
  <2> QED BY <1>1, <2>1
<1> HIDE DEF v
<1>5. p \in 0 .. Len(new)
  BY <1>1
<1>6. v \in DOMAIN r[j] /\ r[j][v] = r[p][v]
  BY <1>1, <1>3, <1>4, <1>5, Stays
<1> QED BY <1>1, <1>3, <1>6 DEF Read, v

\* f is what is known in e, and the value of i.
Computes(e, i, f) ==
  /\ i.def \in DOMAIN f /\ f[i.def] = Result(e, i)
  /\ \A v \in DOMAIN e : v # i.def /\ (\A k \in Nat \ {0} : v # Temp(i, k)) =>
       v \in DOMAIN f /\ f[v] = e[v]

\* A replacement whose last value is right computes the instruction.
LEMMA ChainComputes ==
  ASSUME NEW i \in SourceInstr, ~IsConst(i.def), NEW new, StandsFor(i, new),
         NEW r, Chain(new, r),
         Result(r[Len(new) - 1], new[Len(new)]) = Result(r[0], i)
  PROVE  Computes(r[0], i, r[Len(new)])
<1>1. Len(new) \in Nat \ {0} /\ Len(new) \in 1 .. Len(new) /\ new[Len(new)].def = i.def
  BY Stands
<1>2. r[Len(new)] = Assign(r[Len(new) - 1], new[Len(new)])
  BY <1>1 DEF Chain
<1>3. i.def \in DOMAIN r[Len(new)] /\ r[Len(new)][i.def] = Result(r[0], i)
  <2>1. Extends(r[Len(new) - 1], new[Len(new)], r[Len(new)])
    BY <1>2, Assigned
  <2> QED BY <1>1, <2>1 DEF Extends
<1> QED BY <1>3, OthersStay DEF Computes

\* A constant reads as its value.
LEMMA ConstRead ==
  ASSUME NEW e, NEW n \in Nat
  PROVE  Read(e, Const(n)) = n
BY DEF Read, Const, IsConst

\* The instructions that AddReplacement puts in place, when it inserts any.
LEMMA AddShape ==
  ASSUME NEW i \in SourceInstr, NEW xorFirst \in BOOLEAN,
         ~(IsConst(i.args[1]) /\ IsConst(i.args[2]))
  PROVE  LET new == AddReplacement(i, xorFirst)
             x == IF xorFirst THEN 1 ELSE 3
             n == IF xorFirst THEN 2 ELSE 1
         IN  /\ Len(new) = 8
             /\ new[x] = Inserted(i, x, "xor", i.args)
             /\ new[n] = Inserted(i, n, "and", i.args)
             /\ new[n + 1] = Inserted(i, n + 1, "mul", <<Const(2), Temp(i, n)>>)
             /\ new[4] = Inserted(i, 4, "add", <<Temp(i, x), Temp(i, n + 1)>>)
             /\ new[5] = Inserted(i, 5, "mul", <<Const(39), Temp(i, 4)>>)
             /\ new[6] = Inserted(i, 6, "add", <<Const(23), Temp(i, 5)>>)
             /\ new[7] = Inserted(i, 7, "mul", <<Const(151), Temp(i, 6)>>)
             /\ new[8] = NewInst(i, <<Const(111), Temp(i, 7)>>)
<1> DEFINE new == AddReplacement(i, xorFirst)
           x == IF xorFirst THEN 1 ELSE 3
           n == IF xorFirst THEN 2 ELSE 1
           e0 == Inserted(i, x, "xor", i.args)
           e1 == Inserted(i, n, "and", i.args)
           e2 == Inserted(i, n + 1, "mul", <<Const(2), Temp(i, n)>>)
           n4 == Inserted(i, 4, "add", <<Temp(i, x), Temp(i, n + 1)>>)
           n5 == Inserted(i, 5, "mul", <<Const(39), Temp(i, 4)>>)
           n6 == Inserted(i, 6, "add", <<Const(23), Temp(i, 5)>>)
           n7 == Inserted(i, 7, "mul", <<Const(151), Temp(i, 6)>>)
           n8 == NewInst(i, <<Const(111), Temp(i, 7)>>)
<1>1. ~ \A k \in DOMAIN i.args : IsConst(i.args[k])
  <2>1. DOMAIN i.args = {1, 2}
    BY DEF SourceInstr
  <2> QED BY <2>1
<1>2. new = IF xorFirst THEN <<e0, e1, e2, n4, n5, n6, n7, n8>>
            ELSE <<e1, e2, e0, n4, n5, n6, n7, n8>>
  BY <1>1 DEF AddReplacement
<1>3. /\ Len(new) = 8 /\ new[x] = e0 /\ new[n] = e1 /\ new[n + 1] = e2
      /\ new[4] = n4 /\ new[5] = n5 /\ new[6] = n6 /\ new[7] = n7 /\ new[8] = n8
  <2> HIDE DEF e0, e1, e2, n4, n5, n6, n7, n8, new
  <2>1. CASE xorFirst
    BY <1>2, <2>1
  <2>2. CASE ~xorFirst
    BY <1>2, <2>2
  <2> QED BY <2>1, <2>2
<1> QED BY <1>3

\* What the instructions of a replacement that read c and d compute.
ReadsBoth(i, m, e, k, c, d) ==
  /\ Result(e, Inserted(i, k, "add", <<c, d>>)) = Plus(m, Read(e, c), Read(e, d))
  /\ Result(e, Inserted(i, k, "mul", <<c, d>>)) = Times(m, Read(e, c), Read(e, d))
  /\ Result(e, Inserted(i, k, "and", <<c, d>>)) = And16(Read(e, c), Read(e, d)) % m
  /\ Result(e, Inserted(i, k, "xor", <<c, d>>)) = Xor16(Read(e, c), Read(e, d)) % m
  /\ Result(e, NewInst(i, <<c, d>>)) = Plus(m, Read(e, c), Read(e, d))

LEMMA InsertedResult ==
  ASSUME NEW i \in SourceInstr, i.width # 0
  PROVE  \A e, k, c, d : ReadsBoth(i, 2 ^ i.width, e, k, c, d)
<1> DEFINE m == 2 ^ i.width
<1> SUFFICES ASSUME NEW e, NEW k, NEW c, NEW d PROVE ReadsBoth(i, m, e, k, c, d)
  OBVIOUS
<1>1. ASSUME NEW j, j.width = i.width, DOMAIN j.args = {1, 2}, j.args[1] = c, j.args[2] = d
      PROVE  /\ j.op = "add" => Result(e, j) = Plus(m, Read(e, c), Read(e, d))
             /\ j.op = "mul" => Result(e, j) = Times(m, Read(e, c), Read(e, d))
             /\ j.op = "and" => Result(e, j) = And16(Read(e, c), Read(e, d)) % m
             /\ j.op = "xor" => Result(e, j) = Xor16(Read(e, c), Read(e, d)) % m
  BY <1>1, BinaryResult
<1> HIDE DEF m
<1>2. ASSUME NEW op
      PROVE  LET j == Inserted(i, k, op, <<c, d>>) IN
             /\ j.op = op /\ j.width = i.width
             /\ DOMAIN j.args = {1, 2} /\ j.args[1] = c /\ j.args[2] = d
  BY DEF Inserted
<1>3. LET j == NewInst(i, <<c, d>>) IN
      /\ j.op = "add" /\ j.width = i.width
      /\ DOMAIN j.args = {1, 2} /\ j.args[1] = c /\ j.args[2] = d
  BY DEF NewInst
<1> QED BY <1>1, <1>2, <1>3 DEF ReadsBoth

\* The eight instructions of an addition, one after the other, compute it.
LEMMA AddComputes ==
  ASSUME NEW i \in SourceInstr, ~IsConst(i.def), i.op = "add", i.width = 8,
         NEW xorFirst \in BOOLEAN, NEW r, Chain(AddReplacement(i, xorFirst), r),
         Operands(r[0], i)
  PROVE  LET new == AddReplacement(i, xorFirst) IN
         Result(r[Len(new) - 1], new[Len(new)]) = Result(r[0], i)
<1> DEFINE new == AddReplacement(i, xorFirst)
           a == Read(r[0], i.args[1])
           b == Read(r[0], i.args[2])
           m == 2 ^ i.width
<1>1. i.width # 0 /\ DOMAIN i.args = {1, 2} /\ i.args = <<i.args[1], i.args[2]>>
  BY DEF SourceInstr
<1>2. m = 256
  <2>1. m = 2 ^ 8
    OBVIOUS
  <2> QED BY <2>1, Moduli
<1>3. a \in 0 .. 255 /\ b \in 0 .. 255
  <2>1. Fits(a, i.width) /\ Fits(b, i.width)
    BY DEF Operands
  <2>2. a \in 0 .. m - 1 /\ b \in 0 .. m - 1
    BY <2>1 DEF Fits
  <2> HIDE DEF a, b, m
  <2> QED BY <1>2, <2>2
<1>4. Result(r[0], i) = Plus(256, a, b)
  <2>1. Result(r[0], i) = Plus(m, a, b)
    BY <1>1, BinaryResult
  <2> HIDE DEF m
  <2> QED BY <1>2, <2>1
<1>5. StandsFor(i, new)
  BY AddStands
<1>6. Plus(256, 111, Folded(256, a, b)) = Plus(256, a, b)
  <2> HIDE DEF a, b, m, new
  <2>1. AddsUp(a, b)
    BY <1>3, AddIdentityHolds
  <2> QED BY <2>1 DEF AddsUp
<1>7. CASE IsConst(i.args[1]) /\ IsConst(i.args[2])
  <2>1. a = i.args[1][2] /\ b = i.args[2][2]
    BY <1>7 DEF Read
  <2>2. \A k \in DOMAIN i.args : IsConst(i.args[k])
    BY <1>1, <1>7
  <2> DEFINE c == Folded(m, a, b)
             n1 == NewInst(i, <<Const(111), Const(c)>>)
  <2>3. new = <<n1>>
    BY <2>1, <2>2 DEF AddReplacement
  <2>4. c = Folded(256, a, b)
    <3> HIDE DEF m, a, b
    <3> QED BY <1>2
  <2>5. c \in Nat
    <3>1. Folded(256, a, b) \in Nat
      <4> HIDE DEF a, b
      <4> QED BY <1>3, FoldedNat
    <3> QED BY <2>4, <3>1
  <2> HIDE DEF c
  <2>6. Result(r[0], n1) = Plus(m, Read(r[0], Const(111)), Read(r[0], Const(c)))
    <3>1. \A e, k, c1, d1 : ReadsBoth(i, m, e, k, c1, d1)
      BY <1>1, InsertedResult
    <3> HIDE DEF m, c, a, b
    <3> QED BY <3>1 DEF ReadsBoth
  <2>7. Result(r[0], n1) = Plus(256, 111, c)
    <3>1. Read(r[0], Const(111)) = 111 /\ Read(r[0], Const(c)) = c
      BY <2>5, ConstRead
    <3> HIDE DEF m, n1
    <3> QED BY <1>2, <2>6, <3>1
  <2>8. Len(new) = 1 /\ new[1] = n1 /\ 1 - 1 = 0
    <3> HIDE DEF n1, new
    <3> QED BY <2>3
  <2> HIDE DEF n1, new, a, b
  <2>9. Result(r[Len(new) - 1], new[Len(new)]) = Result(r[0], i)
    BY <1>4, <1>6, <2>4, <2>7, <2>8
  <2> QED BY <2>9 DEF new
<1>8. CASE ~(IsConst(i.args[1]) /\ IsConst(i.args[2]))
  <2> DEFINE x == IF xorFirst THEN 1 ELSE 3
             n == IF xorFirst THEN 2 ELSE 1
             V(p) == Result(r[p - 1], new[p])
  <2>1. /\ Len(new) = 8
        /\ new[x] = Inserted(i, x, "xor", i.args)
        /\ new[n] = Inserted(i, n, "and", i.args)
        /\ new[n + 1] = Inserted(i, n + 1, "mul", <<Const(2), Temp(i, n)>>)
        /\ new[4] = Inserted(i, 4, "add", <<Temp(i, x), Temp(i, n + 1)>>)
        /\ new[5] = Inserted(i, 5, "mul", <<Const(39), Temp(i, 4)>>)
        /\ new[6] = Inserted(i, 6, "add", <<Const(23), Temp(i, 5)>>)
        /\ new[7] = Inserted(i, 7, "mul", <<Const(151), Temp(i, 6)>>)
        /\ new[8] = NewInst(i, <<Const(111), Temp(i, 7)>>)
    BY <1>8, AddShape
  <2>2. x \in {1, 3} /\ n \in {1, 2} /\ x # n /\ x # n + 1
    OBVIOUS
  <2> HIDE DEF x, n, new
  <2>3. \A p \in 1 .. 7 : new[p].def = Temp(i, p)
    <3>1. \A k, op, args : Inserted(i, k, op, args).def = Temp(i, k)
      BY DEF Inserted
    <3>2. /\ new[x].def = Temp(i, x) /\ new[n].def = Temp(i, n)
             /\ new[n + 1].def = Temp(i, n + 1)
          /\ new[4].def = Temp(i, 4) /\ new[5].def = Temp(i, 5) /\ new[6].def = Temp(i, 6)
          /\ new[7].def = Temp(i, 7)
      BY <2>1, <3>1
    <3>3. \A p \in 1 .. 7 : p = x \/ p = n \/ p = n + 1 \/ p = 4 \/ p = 5 \/ p = 6 \/ p = 7
      BY <2>2
    <3> QED BY <3>2, <3>3, Zenon
  <2>4. ASSUME NEW p \in 1 .. 7, NEW j \in p .. 8 PROVE Read(r[j], Temp(i, p)) = V(p)
    <3>1. p \in 1 .. Len(new) /\ j \in p .. Len(new)
      BY <2>1
    <3>2. Read(r[j], new[p].def) = Result(r[p - 1], new[p])
      BY <1>5, <3>1, ResultStays DEF new
    <3> QED BY <2>3, <3>2
  <2>5. ASSUME NEW j \in 0 .. 7 PROVE Read(r[j], i.args[1]) = a /\ Read(r[j], i.args[2]) = b
    <3>1. j \in 0 .. Len(new) - 1
      BY <2>1
    <3> QED BY <1>5, <3>1, OperandsStay DEF new
  <2>6. \A e : Read(e, Const(2)) = 2 /\ Read(e, Const(39)) = 39 /\ Read(e, Const(23)) = 23
               /\ Read(e, Const(151)) = 151 /\ Read(e, Const(111)) = 111
    BY ConstRead
  <2> HIDE DEF a, b, m
  <2>17. \A e, k, c, d : ReadsBoth(i, m, e, k, c, d)
    BY <1>1, InsertedResult DEF m
  <2>18. /\ new[x] = Inserted(i, x, "xor", <<i.args[1], i.args[2]>>)
         /\ new[n] = Inserted(i, n, "and", <<i.args[1], i.args[2]>>)
    BY <1>1, <2>1
  <2>7. V(x) = Xor16(a, b) % m /\ V(n) = And16(a, b) % m
    <3>1. x - 1 \in 0 .. 7 /\ n - 1 \in 0 .. 7
      BY <2>2
    <3>2. /\ V(x) = Xor16(Read(r[x - 1], i.args[1]), Read(r[x - 1], i.args[2])) % m
          /\ V(n) = And16(Read(r[n - 1], i.args[1]), Read(r[n - 1], i.args[2])) % m
      BY <2>18, <2>17 DEF ReadsBoth
    <3> QED BY <2>5, <3>1, <3>2
  <2>8. V(n + 1) = Times(m, 2, V(n))
    <3>1. n \in 1 .. 7 /\ n \in n .. 8 /\ (n + 1) - 1 = n
      BY <2>2
    <3>2. V(n + 1) = Times(m, Read(r[n], Const(2)), Read(r[n], Temp(i, n)))
      BY <2>1, <2>17, <3>1 DEF ReadsBoth
    <3>3. Read(r[n], Temp(i, n)) = V(n)
      BY <2>4, <3>1
    <3> QED BY <2>6, <3>2, <3>3
  <2>9. V(4) = Plus(m, V(x), V(n + 1))
    <3>1. x \in 1 .. 7 /\ 3 \in x .. 8 /\ n + 1 \in 1 .. 7 /\ 3 \in n + 1 .. 8 /\ 4 - 1 = 3
      BY <2>2
    <3>2. V(4) = Plus(m, Read(r[3], Temp(i, x)), Read(r[3], Temp(i, n + 1)))
      BY <2>1, <2>17, <3>1 DEF ReadsBoth
    <3>3. Read(r[3], Temp(i, x)) = V(x) /\ Read(r[3], Temp(i, n + 1)) = V(n + 1)
      BY <2>4, <3>1
    <3> QED BY <3>2, <3>3
  <2>10. V(5) = Times(m, 39, V(4))
    <3>1. V(5) = Times(m, Read(r[4], Const(39)), Read(r[4], Temp(i, 4)))
      BY <2>1, <2>17 DEF ReadsBoth
    <3> QED BY <2>4, <2>6, <3>1
  <2>11. V(6) = Plus(m, 23, V(5))
    <3>1. V(6) = Plus(m, Read(r[5], Const(23)), Read(r[5], Temp(i, 5)))
      BY <2>1, <2>17 DEF ReadsBoth
    <3> QED BY <2>4, <2>6, <3>1
  <2>12. V(7) = Times(m, 151, V(6))
    <3>1. V(7) = Times(m, Read(r[6], Const(151)), Read(r[6], Temp(i, 6)))
      BY <2>1, <2>17 DEF ReadsBoth
    <3> QED BY <2>4, <2>6, <3>1
  <2>13. Result(r[7], new[8]) = Plus(m, 111, V(7))
    <3>1. Result(r[7], new[8]) = Plus(m, Read(r[7], Const(111)), Read(r[7], Temp(i, 7)))
      BY <2>1, <2>17 DEF ReadsBoth
    <3> QED BY <2>4, <2>6, <3>1
  <2>14. V(x) = Xor16(a, b) /\ V(n) = And16(a, b)
    <3> DEFINE X == Xor16(a, b)
               N == And16(a, b)
    <3>1. X \in 0 .. 255 /\ N \in 0 .. 255
      BY <1>3, HalfAdder16
    <3>2. V(x) = X % 256 /\ V(n) = N % 256
      BY <1>2, <2>7
    <3> HIDE DEF X, N, V
    <3>3. X % 256 = X /\ N % 256 = N
      BY <3>1
    <3> QED BY <3>2, <3>3 DEF X, N
  <2>15. V(7) = Folded(256, a, b)
    <3> HIDE DEF V
    <3>1. V(4) = Plus(m, Xor16(a, b), Times(m, 2, And16(a, b)))
      BY <2>8, <2>9, <2>14
    <3>2. V(7) = Times(m, 151, Plus(m, 23, Times(m, 39, V(4))))
      BY <2>10, <2>11, <2>12
    <3>3. V(7) = Folded(m, a, b)
      BY <3>1, <3>2 DEF Folded
    <3> QED BY <1>2, <3>3
  <2>16. Result(r[7], new[8]) = Result(r[0], i)
    <3> HIDE DEF V
    <3> QED BY <1>2, <1>4, <1>6, <2>13, <2>15
  <2> QED BY <2>1, <2>16 DEF new
<1> QED BY <1>7, <1>8

\* The instructions of a subtraction, one after the other, compute it.
LEMMA SubComputes ==
  ASSUME NEW i \in SourceInstr, ~IsConst(i.def), i.op = "sub", i.width > 0,
         NEW r, Chain(SubReplacement(i), r), Operands(r[0], i)
  PROVE  LET new == SubReplacement(i) IN
         Result(r[Len(new) - 1], new[Len(new)]) = Result(r[0], i)
<1> DEFINE new == SubReplacement(i)
           u == i.args[1]
           v == i.args[2]
           a == Read(r[0], u)
           b == Read(r[0], v)
           m == 2 ^ i.width
<1>1. i.width # 0 /\ i.width \in 0 .. 16 /\ DOMAIN i.args = {1, 2}
  BY DEF SourceInstr
<1>2. m \in Nat \ {0}
  BY <1>1, Moduli
<1>3. a \in 0 .. m - 1 /\ b \in 0 .. m - 1
  <2>1. Fits(a, i.width) /\ Fits(b, i.width)
    BY DEF Operands
  <2> QED BY <2>1 DEF Fits
<1>4. Result(r[0], i) = Minus(m, a, b)
  BY <1>1, BinaryResult
<1>5. StandsFor(i, new)
  <2>1. IsConst(i.args[2]) => Fits(i.args[2][2], i.width)
    <3>1. IsConst(v) => v[2] = b
      BY DEF Read
    <3> QED BY <3>1 DEF Operands
  <2> QED BY <2>1, SubStands
<1>6. Plus(m, Plus(m, a, Complement(m, b)), 1) = Minus(m, a, b)
  <2> HIDE DEF m, a, b
  <2> QED BY <1>2, <1>3, SubIdentity
<1>7. Complement(m, b) \in Nat
  <2> HIDE DEF m, a, b
  <2> QED BY <1>2, <1>3 DEF Complement
<1>8. \A e, k, c, d : ReadsBoth(i, m, e, k, c, d)
  BY <1>1, InsertedResult
<1>9. \A e : Read(e, Const(1)) = 1
  BY ConstRead
<1>10. ASSUME NEW j \in 0 .. Len(new) - 1 PROVE Read(r[j], u) = a /\ Read(r[j], v) = b
  BY <1>5, OperandsStay
<1>11. ASSUME NEW p \in 1 .. Len(new), NEW j \in p .. Len(new)
       PROVE  Read(r[j], new[p].def) = Result(r[p - 1], new[p])
  BY <1>5, ResultStays
<1>12. \A k, op, args : Inserted(i, k, op, args).def = Temp(i, k)
  BY DEF Inserted
<1>13. CASE ~IsConst(v)
  <2> DEFINE n1 == Inserted(i, 1, "not", <<v>>)
             n2 == Inserted(i, 2, "add", <<u, Temp(i, 1)>>)
             n3 == NewInst(i, <<Temp(i, 2), Const(1)>>)
  <2>1. new = <<n1, n2, n3>>
    BY <1>13 DEF SubReplacement
  <2>2. \A e : Result(e, n1) = Complement(m, Read(e, v))
    <3>1. n1.op = "not" /\ n1.width = i.width /\ DOMAIN n1.args = {1} /\ n1.args[1] = v
      BY DEF Inserted
    <3> HIDE DEF n1
    <3> QED BY <1>1, <3>1, NotResult
  <2>3. n1.def = Temp(i, 1) /\ n2.def = Temp(i, 2)
    BY <1>12
  <2>4. /\ \A e : Result(e, n2) = Plus(m, Read(e, u), Read(e, Temp(i, 1)))
        /\ \A e : Result(e, n3) = Plus(m, Read(e, Temp(i, 2)), Read(e, Const(1)))
    <3> HIDE DEF m, u, v
    <3> QED BY <1>8 DEF ReadsBoth
  <2> HIDE DEF n1, n2, n3, new, m, u, v, a, b
  <2>5. Len(new) = 3 /\ new[1] = n1 /\ new[2] = n2 /\ new[3] = n3
    BY <2>1
  <2>6. Read(r[0], v) = b /\ Read(r[1], u) = a
    BY <1>10, <2>5
  <2>7. Read(r[1], Temp(i, 1)) = Complement(m, b)
    <3>1. 1 \in 1 .. Len(new) /\ 1 \in 1 .. Len(new) /\ 1 - 1 = 0
      BY <2>5
    <3>2. Read(r[1], new[1].def) = Result(r[0], new[1])
      BY <1>11, <3>1
    <3> QED BY <2>2, <2>3, <2>5, <2>6, <3>2
  <2>8. Read(r[2], Temp(i, 2)) = Plus(m, a, Complement(m, b))
    <3>1. 2 \in 1 .. Len(new) /\ 2 \in 2 .. Len(new) /\ 2 - 1 = 1
      BY <2>5
    <3>2. Read(r[2], new[2].def) = Result(r[1], new[2])
      BY <1>11, <3>1
    <3> QED BY <2>3, <2>4, <2>5, <2>6, <2>7, <3>2
  <2>9. Result(r[2], n3) = Plus(m, Plus(m, a, Complement(m, b)), 1)
    BY <1>9, <2>4, <2>8
  <2>10. Len(new) - 1 = 2 /\ new[Len(new)] = n3
    BY <2>5
  <2>11. Result(r[Len(new) - 1], new[Len(new)]) = Result(r[0], i)
    BY <1>4, <1>6, <2>9, <2>10
  <2> QED BY <2>11 DEF new
<1>14. CASE IsConst(v) /\ ~IsConst(u)
  <2> DEFINE c == Const(Complement(m, v[2]))
             n1 == Inserted(i, 1, "add", <<u, c>>)
             n2 == NewInst(i, <<Temp(i, 1), Const(1)>>)
  <2>1. new = <<n1, n2>>
    BY <1>14 DEF SubReplacement
  <2>2. v[2] = b
    BY <1>14 DEF Read
  <2>3. \A e : Read(e, c) = Complement(m, b)
    <3>1. \A e : Read(e, Const(Complement(m, b))) = Complement(m, b)
      BY <1>7, ConstRead
    <3> HIDE DEF b
    <3> QED BY <2>2, <3>1
  <2>4. n1.def = Temp(i, 1)
    BY <1>12
  <2> HIDE DEF c
  <2>5. /\ \A e : Result(e, n1) = Plus(m, Read(e, u), Read(e, c))
        /\ \A e : Result(e, n2) = Plus(m, Read(e, Temp(i, 1)), Read(e, Const(1)))
    <3> HIDE DEF m, u, v
    <3> QED BY <1>8 DEF ReadsBoth
  <2> HIDE DEF n1, n2, new, m, u, v, a, b
  <2>6. Len(new) = 2 /\ new[1] = n1 /\ new[2] = n2
    BY <2>1
  <2>7. Read(r[0], u) = a
    BY <1>10, <2>6
  <2>8. Read(r[1], Temp(i, 1)) = Plus(m, a, Complement(m, b))
    <3>1. 1 \in 1 .. Len(new) /\ 1 \in 1 .. Len(new) /\ 1 - 1 = 0
      BY <2>6
    <3>2. Read(r[1], new[1].def) = Result(r[0], new[1])
      BY <1>11, <3>1
    <3> QED BY <2>3, <2>4, <2>5, <2>6, <2>7, <3>2
  <2>9. Result(r[1], n2) = Plus(m, Plus(m, a, Complement(m, b)), 1)
    BY <1>9, <2>5, <2>8
  <2>10. Len(new) - 1 = 1 /\ new[Len(new)] = n2
    BY <2>6
  <2>11. Result(r[Len(new) - 1], new[Len(new)]) = Result(r[0], i)
    BY <1>4, <1>6, <2>9, <2>10
  <2> QED BY <2>11 DEF new
<1>15. CASE IsConst(v) /\ IsConst(u)
  <2> DEFINE k == Complement(m, v[2])
             c == Const(Plus(m, u[2], Const(k)[2]))
             n1 == NewInst(i, <<c, Const(1)>>)
  <2>1. new = <<n1>>
    BY <1>15 DEF SubReplacement
  <2>2. v[2] = b /\ u[2] = a
    BY <1>15 DEF Read
  <2>3. Plus(m, a, Complement(m, b)) \in Nat
    <3> HIDE DEF m, a, b
    <3>1. a + Complement(m, b) \in Int
      BY <1>3, <1>7
    <3> QED BY <1>2, <3>1 DEF Plus
  <2>4. c = Const(Plus(m, a, Complement(m, b)))
    <3>1. Const(k)[2] = k
      BY DEF Const
    <3> HIDE DEF m, a, b, u, v
    <3> QED BY <2>2, <3>1
  <2>5. \A e : Read(e, c) = Plus(m, a, Complement(m, b))
    <3> HIDE DEF m, a, b, u, v, c
    <3> QED BY <2>3, <2>4, ConstRead
  <2> HIDE DEF c, k
  <2>6. \A e : Result(e, n1) = Plus(m, Read(e, c), Read(e, Const(1)))
    <3> HIDE DEF m, u, v
    <3> QED BY <1>8 DEF ReadsBoth
  <2> HIDE DEF n1, new, m, u, v, a, b
  <2>7. Len(new) = 1 /\ new[1] = n1
    BY <2>1
  <2>8. Result(r[0], n1) = Plus(m, Plus(m, a, Complement(m, b)), 1)
    BY <1>9, <2>5, <2>6
  <2>9. Len(new) - 1 = 0 /\ new[Len(new)] = n1
    BY <2>7
  <2>10. Result(r[Len(new) - 1], new[Len(new)]) = Result(r[0], i)
    BY <1>4, <1>6, <2>8, <2>9
  <2> QED BY <2>10 DEF new
<1> QED BY <1>13, <1>14, <1>15

\* What stands for an instruction, replaced or not, computes it.
LEMMA OutcomeComputes ==
  ASSUME NEW p \in {"mba-add", "mba-sub"}, NEW i \in SourceInstr, ~IsConst(i.def),
         NEW new, new \in Outcomes(p, i) \/ new = <<i>>, StandsFor(i, new),
         NEW r, Chain(new, r), Operands(r[0], i)
  PROVE  Computes(r[0], i, r[Len(new)])
<1>1. Result(r[Len(new) - 1], new[Len(new)]) = Result(r[0], i)
  <2>1. CASE new \in Outcomes(p, i) /\ IsTarget(p, i) /\ p = "mba-add"
    <3>1. i.op = "add" /\ i.width = 8
      BY <2>1 DEF IsTarget
    <3>2. PICK xorFirst \in BOOLEAN : new = AddReplacement(i, xorFirst)
      BY <2>1 DEF Outcomes, Replacements
    <3> QED BY <3>1, <3>2, AddComputes
  <2>2. CASE new \in Outcomes(p, i) /\ IsTarget(p, i) /\ p = "mba-sub"
    <3>1. i.op = "sub" /\ i.width > 0
      BY <2>2 DEF IsTarget
    <3>2. new = SubReplacement(i)
      BY <2>2 DEF Outcomes, Replacements
    <3> QED BY <3>1, <3>2, SubComputes
  <2>3. CASE new = <<i>>
    <3>1. Len(new) = 1 /\ new[1] = i /\ 1 - 1 = 0
      BY <2>3
    <3> QED BY <3>1
  <2> QED BY <2>1, <2>2, <2>3 DEF Outcomes
<1> QED BY <1>1, ChainComputes
-----------------------------------------------------------------------------
(* The values of the function that was received, and of the function now.  *)

\* What is known after the blocks before b and the first k instructions of
\* block b: the inputs, and integers of the widths of what was computed.
Known(c, in, b, k, e) ==
  /\ \A v \in DOMAIN in : v \in DOMAIN e /\ e[v] = in[v]
  /\ \A v \in DOMAIN e : (v \in DOMAIN in \/ v[2] = 0) /\ e[v] \in Nat
  /\ \A a \in DOMAIN c : \A j \in DOMAIN c[a] :
       a < b \/ (a = b /\ j <= k) => c[a][j].def \in DOMAIN e /\ Fits(e[c[a][j].def], c[a][j].width)

\* Instruction k of block b of a function, its position and its operands.
LEMMA SourceFacts ==
  ASSUME NEW c \in Functions, NEW in \in Inputs,
         NEW b \in DOMAIN c, NEW k \in DOMAIN c[b]
  PROVE  /\ c[b][k] \in SourceInstr /\ ~IsConst(c[b][k].def)
         /\ \A v \in DOMAIN in : v[1] # c[b][k].def[1]
         /\ \A n \in {1, 2} : Readable(c, b, k, c[b][k].args[n], c[b][k].width)
<1>1. c[b][k] \in SourceInstr
  BY Sources
<1>2. /\ ~IsConst(c[b][k].def) /\ \A v \in DOMAIN in : v[1] # c[b][k].def[1]
      /\ Readable(c, b, k, c[b][k].args[1], c[b][k].width)
      /\ Readable(c, b, k, c[b][k].args[2], c[b][k].width)
  BY FunctionsAssumption
<1> QED BY <1>1, <1>2

\* The operands of an instruction are known when it is reached.
LEMMA OperandsKnown ==
  ASSUME NEW c \in Functions, NEW in \in Inputs, NEW b \in DOMAIN c, NEW k \in DOMAIN c[b],
         NEW e, Known(c, in, b, k - 1, e)
  PROVE  Operands(e, c[b][k])
<1> DEFINE i == c[b][k]
<1>1. /\ i \in SourceInstr /\ ~IsConst(i.def) /\ \A v \in DOMAIN in : v[1] # i.def[1]
      /\ \A n \in {1, 2} : Readable(c, b, k, i.args[n], i.width)
  BY SourceFacts
<1>2. b \in Nat /\ k \in Nat /\ c \in Seq(Seq(SourceInstr))
  BY SourceTypes
<1> SUFFICES ASSUME NEW n \in {1, 2}
             PROVE  /\ Read(e, i.args[n]) \in Nat /\ Fits(Read(e, i.args[n]), i.width)
                    /\ \/ IsConst(i.args[n])
                       \/ i.args[n] \in DOMAIN e /\ \A h \in Nat \ {0} : i.args[n] # Temp(i, h)
  BY DEF Operands
<1> DEFINE v == i.args[n]
<1>3. v \in Value /\ v[2] \in Nat
  <2>1. i.args[1] \in Value /\ i.args[2] \in Value
    BY <1>1 DEF SourceInstr
  <2> QED BY <2>1 DEF Value
<1>4. Readable(c, b, k, v, i.width)
  BY <1>1
<1>5. \A h : Temp(i, h)[1] = i.def[1] /\ Temp(i, h)[2] = h
  BY DEF Temp
<1>6. v \in DOMAIN e => \A h \in Nat \ {0} : v # Temp(i, h)
  <2> SUFFICES ASSUME v \in DOMAIN e, NEW h \in Nat \ {0}, v = Temp(i, h) PROVE FALSE
    OBVIOUS
  <2>1. v[1] = i.def[1] /\ v[2] = h
    BY <1>5
  <2>2. v \in DOMAIN in \/ v[2] = 0
    BY DEF Known
  <2> QED BY <1>1, <2>1, <2>2
<1> HIDE DEF i, v
<1>7. CASE IsConst(v)
  <2>1. Read(e, v) = v[2] /\ Fits(v[2], i.width)
    BY <1>4, <1>7 DEF Read, Readable
  <2> QED BY <1>3, <1>7, <2>1 DEF v
<1>8. CASE ~IsConst(v) /\ v \in DOMAIN in /\ Fits(in[v], i.width)
  <2>1. v \in DOMAIN e /\ e[v] = in[v] /\ e[v] \in Nat
    BY <1>8 DEF Known
  <2>2. Read(e, v) = e[v]
    BY <1>8 DEF Read
  <2> QED BY <1>6, <1>8, <2>1, <2>2 DEF v
<1>9. CASE ~IsConst(v) /\ \E a \in 1 .. b : \E j \in DOMAIN c[a] :
             (a < b \/ j < k) /\ c[a][j].def = v /\ (i.width > 0 => c[a][j].width = i.width)
  <2>0. PICK a \in 1 .. b : \E j \in DOMAIN c[a] :
          (a < b \/ j < k) /\ c[a][j].def = v /\ (i.width > 0 => c[a][j].width = i.width)
    BY <1>9
  <2>1. PICK j \in DOMAIN c[a] :
          (a < b \/ j < k) /\ c[a][j].def = v /\ (i.width > 0 => c[a][j].width = i.width)
    BY <2>0
  <2>2. a \in DOMAIN c /\ (a < b \/ (a = b /\ j <= k - 1))
    <3>1. a \in DOMAIN c /\ (a < b \/ a = b)
      BY <1>2
    <3>2. j \in Nat
      BY <1>2, <3>1, SourceTypes
    <3> QED BY <1>2, <2>1, <3>2
  <2>3. v \in DOMAIN e /\ Fits(e[v], c[a][j].width)
    BY <2>1, <2>2 DEF Known
  <2>4. e[v] \in Nat
    BY <2>3 DEF Known
  <2>5. Fits(e[v], i.width)
    BY <2>1, <2>3 DEF Fits
  <2>6. Read(e, v) = e[v]
    BY <1>9 DEF Read
  <2> QED BY <1>6, <2>3, <2>4, <2>5, <2>6 DEF v
<1> QED BY <1>4, <1>7, <1>8, <1>9 DEF Readable

\* After one more instruction, more is known.
LEMMA KnownGrows ==
  ASSUME NEW c \in Functions, NEW in \in Inputs, NEW b \in DOMAIN c, NEW k \in DOMAIN c[b],
         NEW e, Known(c, in, b, k - 1, e)
  PROVE  Known(c, in, b, k, Assign(e, c[b][k]))
<1> DEFINE i == c[b][k]
           f == Assign(e, i)
<1>1. i \in SourceInstr /\ ~IsConst(i.def) /\ \A v \in DOMAIN in : v[1] # i.def[1]
  BY SourceFacts
<1>2. Operands(e, i)
  BY OperandsKnown
<1>3. Extends(e, i, f)
  BY Assigned
<1>4. i.def[2] = 0
  BY <1>1 DEF SourceInstr
<1>5. b \in Nat /\ k \in Nat /\ c \in Seq(Seq(SourceInstr)) /\ DefinedOnce(c)
  BY SourceTypes, FunctionsAssumption
<1> HIDE DEF f
<1>6. Result(e, i) \in Nat /\ Fits(Result(e, i), i.width)
  <2> HIDE DEF i
  <2>1. Read(e, i.args[1]) \in Nat /\ Read(e, i.args[2]) \in Nat
    BY <1>2 DEF Operands
  <2> QED BY <1>1, <2>1, ResultFits
<1>7. ASSUME NEW v \in DOMAIN in PROVE v \in DOMAIN f /\ f[v] = in[v]
  BY <1>1, <1>3 DEF Known, Extends
<1>8. ASSUME NEW v \in DOMAIN f PROVE (v \in DOMAIN in \/ v[2] = 0) /\ f[v] \in Nat
  <2>1. CASE v = i.def
    BY <1>3, <1>4, <1>6, <2>1 DEF Extends
  <2>2. CASE v # i.def
    BY <1>3, <2>2 DEF Known, Extends
  <2> QED BY <2>1, <2>2
<1>9. ASSUME NEW a \in DOMAIN c, NEW j \in DOMAIN c[a], a < b \/ (a = b /\ j <= k)
      PROVE  c[a][j].def \in DOMAIN f /\ Fits(f[c[a][j].def], c[a][j].width)
  <2>1. a \in Nat /\ j \in Nat
    BY SourceTypes
  <2>2. CASE a = b /\ j = k
    BY <1>3, <1>6, <2>2 DEF Extends
  <2>3. CASE ~(a = b /\ j = k)
    <3>1. a < b \/ (a = b /\ j <= k - 1)
      BY <1>5, <1>9, <2>1, <2>3
    <3>2. c[a][j].def \in DOMAIN e /\ Fits(e[c[a][j].def], c[a][j].width)
      BY <3>1 DEF Known
    <3>3. c[a][j].def # i.def
      BY <1>5, <2>1, <2>3 DEF DefinedOnce
    <3> QED BY <1>3, <3>2, <3>3 DEF Extends
  <2> QED BY <2>2, <2>3
<1>10. Known(c, in, b, k, f)
  BY <1>7, <1>8, <1>9 DEF Known
<1> QED BY <1>10 DEF f

\* e and f agree on what is known in e.
Agrees(e, f) == \A v \in DOMAIN e : v \in DOMAIN f /\ f[v] = e[v]

\* They still do after an instruction here and what stands for it there.
LEMMA AgreementGoesOn ==
  ASSUME NEW c \in Functions, NEW in \in Inputs, NEW b \in DOMAIN c, NEW k \in DOMAIN c[b],
         NEW p \in {"mba-add", "mba-sub"},
         NEW new, new \in Outcomes(p, c[b][k]) \/ new = <<c[b][k]>>,
         NEW e, Known(c, in, b, k - 1, e), NEW r, Chain(new, r), Agrees(e, r[0])
  PROVE  Agrees(Assign(e, c[b][k]), r[Len(new)])
<1> DEFINE i == c[b][k]
           f == Assign(e, i)
           g == r[Len(new)]
<1>1. i \in SourceInstr /\ ~IsConst(i.def) /\ \A v \in DOMAIN in : v[1] # i.def[1]
  BY SourceFacts
<1>2. StandsFor(i, new)
  BY <1>1, OutcomesStand, SourceStands
<1>3. Operands(e, i) /\ Extends(e, i, f)
  BY OperandsKnown, Assigned
<1>4. new \in Outcomes(p, i) \/ new = <<i>>
  OBVIOUS
<1> HIDE DEF i, f
<1>5. \A n \in {1, 2} : Read(r[0], i.args[n]) = Read(e, i.args[n])
  BY <1>3 DEF Operands, Agrees, Read
<1>6. Operands(r[0], i)
  BY <1>3, <1>5 DEF Operands, Agrees
<1>7. Computes(r[0], i, g)
  BY <1>1, <1>2, <1>4, <1>6, OutcomeComputes
<1>8. Result(r[0], i) = Result(e, i)
  <2>1. DOMAIN i.args = {1, 2}
    BY <1>1 DEF SourceInstr
  <2>2. [n \in DOMAIN i.args |-> Read(r[0], i.args[n])]
          = [n \in DOMAIN i.args |-> Read(e, i.args[n])]
    BY <1>5, <2>1
  <2> QED BY <2>2 DEF Result
<1> HIDE DEF g
<1>9. ASSUME NEW v \in DOMAIN f PROVE v \in DOMAIN g /\ g[v] = f[v]
  <2>1. CASE v = i.def
    BY <1>3, <1>7, <1>8, <2>1 DEF Computes, Extends
  <2>2. CASE v # i.def
    <3>1. v \in DOMAIN e /\ f[v] = e[v]
      BY <1>3, <2>2 DEF Extends
    <3>2. \A h \in Nat \ {0} : v # Temp(i, h)
      <4>1. v \in DOMAIN in \/ v[2] = 0
        BY <3>1 DEF Known
      <4>2. \A h : Temp(i, h)[1] = i.def[1] /\ Temp(i, h)[2] = h
        BY DEF Temp
      <4> QED BY <1>1, <4>1, <4>2
    <3>3. v \in DOMAIN r[0] /\ r[0][v] = e[v]
      BY <3>1 DEF Agrees
    <3> QED BY <1>7, <2>2, <3>1, <3>2, <3>3 DEF Computes
  <2> QED BY <2>1, <2>2
<1> QED BY <1>9 DEF Agrees, f, g, i

\* The values known along a segment.
Along(run, lo, len) == [h \in 0 .. len |-> run[lo + h]]

Follows(run, cut, k, new) ==
  LET r == Along(run, cut[k - 1], Len(new)) IN
  Chain(new, r) /\ r[0] = run[cut[k - 1]] /\ r[Len(new)] = run[cut[k]]

\* The values known along a segment are one after the other.
LEMMA SegmentChain ==
  ASSUME NEW b, NEW cut, NEW k, NEW new, Segment(b, cut, k, new), Len(code[b]) \in Nat,
         cut[k - 1] \in Nat, cut[k] <= Len(code[b]),
         NEW run, \A n \in 1 .. Len(code[b]) : run[n] = Assign(run[n - 1], code[b][n])
  PROVE  Follows(run, cut, k, new)
<1> DEFINE lo == cut[k - 1]
           r == Along(run, lo, Len(new))
<1>1. /\ Len(new) \in Nat /\ cut[k] = lo + Len(new)
      /\ \A j \in 1 .. Len(new) : code[b][lo + j] = new[j]
  BY SegmentFacts DEF SegmentLies
<1>2. \A h \in 0 .. Len(new) : r[h] = run[lo + h]
  BY DEF Along
<1>3. lo \in Nat /\ lo + Len(new) <= Len(code[b])
  BY <1>1
<1> HIDE DEF r, lo
<1>4. r[0] = run[lo] /\ r[Len(new)] = run[cut[k]]
  <2>1. 0 \in 0 .. Len(new) /\ Len(new) \in 0 .. Len(new) /\ lo + 0 = lo
    BY <1>1, <1>3
  <2> QED BY <1>1, <1>2, <2>1
<1>5. ASSUME NEW j \in 1 .. Len(new) PROVE r[j] = Assign(r[j - 1], new[j])
  <2>1. /\ j \in 0 .. Len(new) /\ j - 1 \in 0 .. Len(new)
        /\ lo + j \in 1 .. Len(code[b]) /\ (lo + j) - 1 = lo + (j - 1)
    BY <1>1, <1>3
  <2>2. run[lo + j] = Assign(run[lo + (j - 1)], code[b][lo + j])
    BY <2>1
  <2> QED BY <1>1, <1>2, <2>1, <2>2
<1> QED BY <1>4, <1>5 DEF Follows, Chain, r, lo

\* What is known before a block and agrees, agrees after it.
LEMMA BlocksAgree ==
  ASSUME IndInv, NEW in \in Inputs, NEW b \in 1 .. Len(code0), NEW e, NEW f,
         Known(code0, in, b, 0, e), Agrees(e, f)
  PROVE  /\ Known(code0, in, b, Len(code0[b]), AfterBlock(code0[b], e))
         /\ Agrees(AfterBlock(code0[b], e), AfterBlock(code[b], f))
<1> DEFINE src == code0[b]
           s == code[b]
<1>1. /\ code0 \in Functions /\ b \in DOMAIN code0 /\ src \in Seq(SourceInstr)
      /\ Len(src) \in Nat /\ DOMAIN src = 1 .. Len(src) /\ Len(s) \in Nat
      /\ pass \in {"mba-add", "mba-sub"}
  <2>1. code0 \in Functions /\ code \in Seq(Seq(Instr)) /\ b \in 1 .. Len(code)
        /\ pass \in {"mba-add", "mba-sub"}
    BY DEF IndInv
  <2>2. src \in Seq(SourceInstr) /\ code0 \in Seq(Seq(SourceInstr))
    BY <2>1, SourceTypes
  <2>3. b \in DOMAIN code0
    BY <2>2
  <2> QED BY <2>1, <2>2, <2>3
<1>2. PICK done \in 0 .. Len(src), cut \in [0 .. Len(src) -> 0 .. Len(s)] :
        Laid(pass, src, s, cut, done)
  BY DEF IndInv
<1>3. PICK run0 : BlockRun(src, e, run0)
  BY <1>1, BlockRunExists
<1>4. PICK run : BlockRun(s, f, run)
  BY <1>1, BlockRunExists
<1>5. /\ run0[0] = e /\ AfterBlock(src, e) = run0[Len(src)]
      /\ \A n \in 1 .. Len(src) : run0[n] = Assign(run0[n - 1], src[n])
  BY <1>3 DEF BlockRun
<1>6. /\ run[0] = f /\ AfterBlock(s, f) = run[Len(s)]
      /\ \A n \in 1 .. Len(s) : run[n] = Assign(run[n - 1], s[n])
  BY <1>4 DEF BlockRun
<1>7. cut[0] = 0 /\ cut[Len(src)] = Len(s)
  BY <1>2 DEF Laid
<1> DEFINE Good(k) == Known(code0, in, b, k, run0[k]) /\ Agrees(run0[k], run[cut[k]])
           S == {k \in Nat : k <= Len(src) => Good(k)}
<1>8. 0 \in S
  BY <1>5, <1>6, <1>7
<1>9. ASSUME NEW k \in 1 .. Len(src), Good(k - 1) PROVE Good(k)
  <2> DEFINE i == src[k]
  <2>1. k \in DOMAIN code0[b] /\ k \in 1 .. Len(code0[b])
    BY <1>1
  <2>2. PICK new : Segment(b, cut, k, new) /\ (new \in Outcomes(pass, i) \/ new = <<i>>)
    <3>1. k <= done \/ k > done
      BY <1>1
    <3>2. CASE k <= done
      BY <1>2, <2>1, <3>2, Segments
    <3>3. CASE k > done
      BY <1>2, <2>1, <3>3, Segments
    <3> QED BY <3>1, <3>2, <3>3
  <2>3. cut[k - 1] \in Nat /\ cut[k] <= Len(s)
    <3>1. k - 1 \in 0 .. Len(src) /\ k \in 0 .. Len(src)
      BY <1>1
    <3> QED BY <1>1, <1>2, <3>1
  <2> DEFINE r == Along(run, cut[k - 1], Len(new))
  <2>4. Chain(new, r) /\ r[0] = run[cut[k - 1]] /\ r[Len(new)] = run[cut[k]]
    <3>1. Len(code[b]) \in Nat /\ cut[k] <= Len(code[b])
      BY <1>1, <2>3
    <3>2. \A n \in 1 .. Len(code[b]) : run[n] = Assign(run[n - 1], code[b][n])
      BY <1>6
    <3>3. Follows(run, cut, k, new)
      BY <2>2, <2>3, <3>1, <3>2, SegmentChain
    <3> QED BY <3>3 DEF Follows
  <2> HIDE DEF r
  <2>5. run0[k] = Assign(run0[k - 1], src[k])
    BY <1>5
  <2>6. Known(code0, in, b, k, run0[k])
    BY <1>1, <1>9, <2>1, <2>5, KnownGrows
  <2>7. Agrees(run0[k - 1], r[0])
    BY <1>9, <2>4
  <2>8. Agrees(Assign(run0[k - 1], src[k]), r[Len(new)])
    BY <1>1, <1>9, <2>1, <2>2, <2>4, <2>7, AgreementGoesOn
  <2> QED BY <2>4, <2>5, <2>6, <2>8
<1> HIDE DEF Good
<1>10. ASSUME NEW k \in Nat, k \in S PROVE k + 1 \in S
  <2> SUFFICES ASSUME k + 1 <= Len(src) PROVE Good(k + 1)
    OBVIOUS
  <2>1. k + 1 \in 1 .. Len(src) /\ (k + 1) - 1 = k /\ k <= Len(src)
    BY <1>1
  <2> QED BY <1>9, <1>10, <2>1
<1> HIDE DEF S
<1>11. Len(src) \in S
  BY <1>1, <1>8, <1>10, Induction
<1>12. Good(Len(src))
  BY <1>1, <1>11 DEF S
<1> QED BY <1>5, <1>6, <1>7, <1>12 DEF Good

\* For every function, input and state of the pass: each value the function
\* defined has the value it had.
THEOREM ValuesAreKept == Spec => []SameValues
<1>1. ASSUME IndInv, NEW in \in Inputs PROVE Agrees(Values(code0, in), Values(code, in))
  <2>1. /\ code0 \in Functions /\ Len(code0) \in Nat /\ Len(code) = Len(code0)
        /\ code0 \in Seq(Seq(SourceInstr))
    BY <1>1, SourceTypes DEF IndInv
  <2>2. PICK run0 : FunctionRun(code0, in, run0)
    BY <2>1, FunctionRunExists
  <2>3. PICK run : FunctionRun(code, in, run)
    BY <2>1, FunctionRunExists
  <2>4. /\ run0[0] = in /\ Values(code0, in) = run0[Len(code0)]
        /\ \A b \in 1 .. Len(code0) : run0[b] = AfterBlock(code0[b], run0[b - 1])
    BY <2>2 DEF FunctionRun
  <2>5. /\ run[0] = in /\ Values(code, in) = run[Len(code0)]
        /\ \A b \in 1 .. Len(code0) : run[b] = AfterBlock(code[b], run[b - 1])
    BY <2>1, <2>3 DEF FunctionRun
  <2> DEFINE Good(b) == Known(code0, in, b + 1, 0, run0[b]) /\ Agrees(run0[b], run[b])
             S == {b \in Nat : b <= Len(code0) => Good(b)}
  <2>6. Good(0)
    <3>1. \A v \in DOMAIN in : in[v] \in Nat
      BY InputsAssumption
    <3>2. ASSUME NEW a \in DOMAIN code0, NEW j \in DOMAIN code0[a],
                 a < 0 + 1 \/ (a = 0 + 1 /\ j <= 0) PROVE FALSE
      <4>1. a \in Nat \ {0} /\ j \in Nat \ {0}
        BY <2>1
      <4> QED BY <3>2, <4>1
    <3>3. Known(code0, in, 0 + 1, 0, in)
      BY <3>1, <3>2 DEF Known
    <3>4. Agrees(in, in)
      BY DEF Agrees
    <3> QED BY <2>4, <2>5, <3>3, <3>4
  <2>7. ASSUME NEW b \in Nat, b \in S PROVE b + 1 \in S
    <3> SUFFICES ASSUME b + 1 <= Len(code0) PROVE Good(b + 1)
      OBVIOUS
    <3> DEFINE d == b + 1
    <3>1. d \in 1 .. Len(code0) /\ d - 1 = b /\ b <= Len(code0)
      BY <2>1
    <3>2. Known(code0, in, d, 0, run0[b]) /\ Agrees(run0[b], run[b])
      BY <2>7, <3>1
    <3>3. run0[d] = AfterBlock(code0[d], run0[b]) /\ run[d] = AfterBlock(code[d], run[b])
      BY <2>4, <2>5, <3>1
    <3> HIDE DEF d
    <3>4. Known(code0, in, d, Len(code0[d]), run0[d]) /\ Agrees(run0[d], run[d])
      BY <1>1, <3>1, <3>2, <3>3, BlocksAgree
    <3>5. ASSUME NEW a \in DOMAIN code0, NEW j \in DOMAIN code0[a],
                 a < d + 1 \/ (a = d + 1 /\ j <= 0)
          PROVE  a < d \/ (a = d /\ j <= Len(code0[d]))
      <4>1. d \in Nat /\ a \in Nat /\ j \in Nat \ {0} /\ j <= Len(code0[a])
        BY <2>1, <3>1
      <4> QED BY <3>5, <4>1
    <3>6. Known(code0, in, d + 1, 0, run0[d])
      BY <3>4, <3>5 DEF Known
    <3> QED BY <3>4, <3>6 DEF d
  <2> HIDE DEF Good
  <2>8. 0 \in S
    BY <2>6
  <2> HIDE DEF S
  <2>9. Len(code0) \in S
    BY <2>1, <2>7, <2>8, Induction
  <2>10. Good(Len(code0))
    BY <2>1, <2>9 DEF S
  <2> QED BY <2>4, <2>5, <2>10 DEF Good
<1>2. IndInv => SameValues
  BY <1>1 DEF SameValues, Agrees
<1> QED BY <1>2, Invariance, PTL
-----------------------------------------------------------------------------
(* The analyses that are preserved.                                        *)


\* A function whose analyses are reported preserved is the function received.
THEOREM PreservedUntouched == Spec => []PreservedMeansUntouched
  <1> DEFINE Inv == ~changed => code = code0
  <1>1. Init => Inv BY DEF Init
  <1>2. Inv /\ [Next]_vars => Inv'
    BY DEF Next, Skip, Substitute, NextBlock, Returned, vars
  <1>3. Inv => PreservedMeansUntouched BY DEF PreservedMeansUntouched
  <1> QED BY <1>1, <1>2, <1>3, PTL DEF Spec
=============================================================================
