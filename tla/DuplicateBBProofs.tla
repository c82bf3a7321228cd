-------------------------- MODULE DuplicateBBProofs --------------------------
(***************************************************************************)
(* The duplicate-bb pass, for every function it may be run on.             *)
(*                                                                         *)
(* The argument is a closed form: which blocks were split, where the       *)
(* iterator is, and which value decides in each head determine the whole   *)
(* function.  ClosedForm says so for every block, and is inductive; what   *)
(* the pass promises is then read off the closed form.                     *)
(***************************************************************************)
EXTENDS DuplicateBB, IRProofs, SequenceTheorems
-----------------------------------------------------------------------------
(* The closed form.  R is ReMapper, S the set of blocks that were split,   *)
(* and u the first position of a split block that is not cloned yet.       *)

Body(c) == F0.code[c]
First(c) == FirstNonPhi(F0.code[c])
Size(c) == Len(F0.code[c])

Came(p, S) == IF p \in S THEN TailOf(p) ELSE p

\* Operands and incoming blocks, as they are now.
ArgsNow(a, R) == [k \in DOMAIN a |-> Lookup(R, a[k])]
FromNow(fr, S) == [k \in DOMAIN fr |-> Came(fr[k], S)]

\* An instruction of the function received, where it is now.
Renamed(i, R, S) ==
  [op |-> i.op, def |-> i.def, args |-> ArgsNow(i.args, R), from |-> FromNow(i.from, S)]

\* The values of block c that are defined behind its PHIs and in front of u.
OwnValues(c, u) == {Body(c)[i].def : i \in First(c) .. u - 1} \ {NoValue}

\* The clone of instruction i of block c.
ArgsCloned(c, i, part, R) ==
  LET a == Body(c)[i].args
      own == OwnValues(c, i) IN
  [k \in DOMAIN a |-> IF a[k] \in own THEN NewValue(a[k], part) ELSE Lookup(R, a[k])]

Cloned(c, i, part, R, S) ==
  [op |-> Body(c)[i].op,
   def |-> IF Body(c)[i].def = NoValue THEN NoValue ELSE NewValue(Body(c)[i].def, part),
   args |-> ArgsCloned(c, i, part, R),
   from |-> FromNow(Body(c)[i].from, S)]

\* The PHI that merges the clones of value v of block c.
PhiOf(c, v) ==
  [op |-> "phi", def |-> NewValue(v, "phi"),
   args |-> <<NewValue(v, "then"), NewValue(v, "else")>>, from |-> <<Then(c), Else(c)>>]

KeptCode(c, R, S) == [i \in 1 .. Size(c) |-> Renamed(Body(c)[i], R, S)]

HeadCode(c, v, R, S) ==
  [j \in 1 .. First(c) + 1 |->
     IF j < First(c) THEN Renamed(Body(c)[j], R, S)
     ELSE IF j = First(c) THEN IsNull(c, Lookup(R, v))
     ELSE IfNull(c)]

CloneCode(c, u, part, R, S) ==
  [j \in 1 .. u - First(c) + 1 |->
     IF j = u - First(c) + 1 THEN Jump ELSE Cloned(c, First(c) + j - 1, part, R, S)]

\* What stands in the tail for instruction i of the block.
InTail(c, u, i, R, S) ==
  IF i < u /\ Body(c)[i].def # NoValue THEN PhiOf(c, Body(c)[i].def)
  ELSE Renamed(Body(c)[i], R, S)

TailCode(c, u, R, S) == [j \in 1 .. Size(c) - First(c) + 1 |-> InTail(c, u, First(c) + j - 1, R, S)]

VoidsUpTo(c, u) == {j \in 1 .. u - First(c) : Body(c)[First(c) + j - 1].def = NoValue}

\* The tail once its void instructions are gone.
PurgedCode(c, R, S) == Without(TailCode(c, Size(c), R, S), VoidsUpTo(c, Size(c)))

SplitBlocks == {c \in F0.blocks : TailOf(c) \in f.blocks}

\* The position in c that the pass has reached.
Reached(c) == IF c = bb THEN First(c) + at - 1 ELSE Size(c)

Replaced == UNION {OwnValues(c, Reached(c)) : c \in SplitBlocks}

\* The values that may decide in the head of c: inputs, and integers defined in
\* blocks that dominate c.
Above(g, c, v) ==
  \E a \in g.blocks :
    /\ a # c /\ Dominates(g, a, c)
    /\ \E i \in DOMAIN g.code[a] : g.code[a][i].def = v
MayDecide(c) == {v \in IntegerValues : v \in Inputs \/ Above(F0, c, v)}

PartBlocks(S) == {NewBlock(c, p) : c \in S, p \in Parts}

GraphForm ==
  LET S == SplitBlocks IN
  /\ f = [entry |-> F0.entry, blocks |-> f.blocks, code |-> f.code, succ |-> f.succ]
  /\ f.blocks = F0.blocks \cup PartBlocks(S)
  /\ DOMAIN f.code = f.blocks /\ DOMAIN f.succ = f.blocks
  /\ \A c \in F0.blocks \ S : f.succ[c] = F0.succ[c]
  /\ \A c \in S :
       /\ f.succ[c] = <<Then(c), Else(c)>>
       /\ f.succ[Then(c)] = <<TailOf(c)>> /\ f.succ[Else(c)] = <<TailOf(c)>>
       /\ f.succ[TailOf(c)] = F0.succ[c]

CodeForm ==
  LET S == SplitBlocks
      R == reMapper IN
  /\ \A c \in F0.blocks \ S : f.code[c] = KeptCode(c, R, S)
  /\ \A c \in S :
       /\ \E v \in MayDecide(c) : f.code[c] = HeadCode(c, v, R, S)
       /\ \A part \in {"then", "else"} :
            f.code[NewBlock(c, part)] = CloneCode(c, Reached(c), part, R, S)
       /\ f.code[TailOf(c)] = IF c = bb THEN TailCode(c, Reached(c), R, S) ELSE PurgedCode(c, R, S)

MapForm ==
  /\ DOMAIN reMapper = Replaced
  /\ \A v \in Replaced : reMapper[v] = NewValue(v, "phi")
  /\ DOMAIN thenVMap = DOMAIN elseVMap
  /\ bb # NoBlock =>
       /\ bb \in SplitBlocks
       /\ Reached(bb) \in First(bb) .. Size(bb)
       /\ DOMAIN thenVMap = {NewValue(v, "phi") : v \in OwnValues(bb, Reached(bb))}
       /\ \A v \in OwnValues(bb, Reached(bb)) :
            /\ thenVMap[NewValue(v, "phi")] = NewValue(v, "then")
            /\ elseVMap[NewValue(v, "phi")] = NewValue(v, "else")
       /\ toRemove = VoidsUpTo(bb, Reached(bb))

\* The analysis, and what was chosen from it.
ChoiceForm ==
  /\ worklist \in Seq(DOMAIN riv)
  /\ selected => worklist = <<>>
  /\ DOMAIN riv \subseteq F0.blocks
  /\ \A b \in DOMAIN riv : riv[b] \subseteq MayDecide(b)
  /\ ~selected => f = F0 /\ bb = NoBlock /\ targets = NoMap
  /\ DOMAIN targets \subseteq F0.blocks \ SplitBlocks
  /\ \A b \in DOMAIN targets : targets[b] \in MayDecide(b)

ClosedForm ==
  /\ F0 \in Functions /\ bb \in F0.blocks \cup {NoBlock} /\ at \in Nat
  /\ GraphForm /\ CodeForm /\ MapForm /\ ChoiceForm
-----------------------------------------------------------------------------
(* Functions, blocks and names.                                            *)

\* A set of numbers that is not empty has a least element.
LEMMA LeastNumber ==
  ASSUME NEW I \in SUBSET Nat, I # {}
  PROVE  Min(I) \in I /\ \A j \in I : Min(I) <= j
<1> SUFFICES ASSUME \A i \in I : \E j \in I : j < i PROVE FALSE
  <2>1. (\E i \in I : \A j \in I : i <= j) => Min(I) \in I /\ \A j \in I : Min(I) <= j
    BY DEF Min
  <2> QED
    BY <2>1
<1> DEFINE S == {n \in Nat : \A i \in I : i >= n}
<1>1. 0 \in S
  OBVIOUS
<1>2. ASSUME NEW n \in Nat, n \in S PROVE n + 1 \in S
  BY <1>2
<1>3. Nat \subseteq S
  <2> HIDE DEF S
  <2> QED
    BY <1>1, <1>2, Induction
<1>4. PICK i \in I : TRUE
  OBVIOUS
<1>5. i + 1 \in S
  BY <1>3
<1> QED
  BY <1>5

\* The function received is well formed, in SSA form and valid.
LEMMA Received ==
  ASSUME F0 \in Functions
  PROVE  /\ ControlFlowGraph(F0) /\ IsFunction(F0) /\ InSSA(F0) /\ Verified(F0)
         /\ F0 = [entry |-> F0.entry, blocks |-> F0.blocks, code |-> F0.code, succ |-> F0.succ]
         /\ F0.entry \in F0.blocks /\ IsFiniteSet(F0.blocks) /\ NoBlock \notin F0.blocks
         /\ DOMAIN F0.code = F0.blocks /\ DOMAIN F0.succ = F0.blocks
         /\ \A b \in F0.blocks : Range(F0.succ[b]) \subseteq F0.blocks \ {F0.entry}
BY FunctionsAssumption DEF ControlFlowGraph, IsFunction, Verified, EdgesStayInside

\* A block is a list of PHIs and then of other instructions, at least one.
LEMMA BlockShape ==
  ASSUME F0 \in Functions, NEW c \in F0.blocks
  PROVE  /\ Body(c) \in Seq(Range(Body(c))) /\ Size(c) \in Nat \ {0}
         /\ DOMAIN Body(c) = 1 .. Size(c)
         /\ First(c) \in 1 .. Size(c)
         /\ \A j \in 1 .. First(c) - 1 : IsPhi(Body(c)[j])
         /\ \A j \in First(c) .. Size(c) : ~IsPhi(Body(c)[j])
<1>1. /\ Body(c) \in Seq(Range(Body(c))) /\ Body(c) # <<>> /\ ~IsPhi(Body(c)[Size(c)])
      /\ \A i \in 2 .. Size(c) : IsPhi(Body(c)[i]) => IsPhi(Body(c)[i - 1])
  BY FunctionsAssumption DEF IsFunction, WellFormed, IsSequence, Last, Verified, PhisComeFirst, Body, Size
<1>2. Size(c) \in Nat \ {0} /\ DOMAIN Body(c) = 1 .. Size(c)
  <2>1. Size(c) = Len(Body(c))
    BY DEF Size, Body
  <2> QED
    BY <1>1, <2>1, EmptySeq, LenProperties
<1> DEFINE I == {i \in 1 .. Size(c) : ~IsPhi(Body(c)[i])}
<1>3. Size(c) \in I /\ I \in SUBSET Nat
  BY <1>1, <1>2
<1>4. First(c) = Min(I)
  BY <1>3 DEF First, FirstNonPhi, SelectInSeq, Size, Body
<1>5. First(c) \in I /\ \A j \in I : First(c) <= j
  BY <1>3, <1>4, LeastNumber
<1>6. \A j \in First(c) .. Size(c) : ~IsPhi(Body(c)[j])
  <2> DEFINE T == {k \in Nat : First(c) + k <= Size(c) => ~IsPhi(Body(c)[First(c) + k])}
  <2>1. 0 \in T
    BY <1>5
  <2>2. ASSUME NEW k \in Nat, k \in T PROVE k + 1 \in T
    <3> SUFFICES ASSUME First(c) + (k + 1) <= Size(c) PROVE ~IsPhi(Body(c)[First(c) + (k + 1)])
      OBVIOUS
    <3>1. First(c) \in Nat /\ First(c) >= 1
      BY <1>5
    <3>2. First(c) + (k + 1) \in 2 .. Size(c) /\ (First(c) + (k + 1)) - 1 = First(c) + k
      BY <1>2, <3>1
    <3>3. ~IsPhi(Body(c)[First(c) + k])
      BY <1>2, <2>2, <3>1, <3>2
    <3> QED
      BY <1>1, <3>2, <3>3
  <2>3. Nat \subseteq T
    <3> HIDE DEF T
    <3> QED
      BY <2>1, <2>2, Induction
  <2> TAKE j \in First(c) .. Size(c)
  <2>4. j - First(c) \in Nat /\ First(c) + (j - First(c)) = j
    BY <1>2, <1>5
  <2> QED
    BY <1>2, <2>3, <2>4
<1> QED
  BY <1>1, <1>2, <1>5, <1>6

LEMMA InstructionShape ==
  ASSUME F0 \in Functions, NEW c \in F0.blocks, NEW i \in 1 .. Size(c)
  PROVE  LET x == Body(c)[i] IN
         /\ x = [op |-> x.op, def |-> x.def, args |-> x.args, from |-> x.from]
         /\ Len(x.args) \in Nat /\ DOMAIN x.args = 1 .. Len(x.args)
         /\ Len(x.from) \in Nat /\ DOMAIN x.from = 1 .. Len(x.from)
         /\ \A k \in DOMAIN x.args : x.args[k] \in Inputs \cup Defs(F0)
         /\ x.def # NoValue => x.def \in Defs(F0)
<1> DEFINE x == Body(c)[i]
<1>1. i \in DOMAIN Body(c)
  BY BlockShape
<1>2. /\ x = [op |-> x.op, def |-> x.def, args |-> x.args, from |-> x.from]
      /\ x.args \in Seq(Range(x.args)) /\ x.from \in Seq(Range(x.from))
      /\ Range(x.args) \subseteq Inputs \cup Defs(F0)
  BY <1>1, FunctionsAssumption DEF IsFunction, WellFormed, IsSequence, InSSA, SingleAssignment, Body
<1>3. x.def # NoValue => x.def \in Defs(F0)
  BY <1>1 DEF Defs, Body
<1> QED
  BY <1>2, <1>3, LenProperties DEF Range

\* Whatever an instruction reads is an input or defined.
LEMMA ArgumentsAreDefined ==
  ASSUME F0 \in Functions, NEW c \in F0.blocks, NEW i \in 1 .. Size(c), NEW k \in DOMAIN Body(c)[i].args
  PROVE  Body(c)[i].args[k] \in Inputs \cup Defs(F0)
<1>1. i \in DOMAIN Body(c)
  BY BlockShape
<1>2. Range(Body(c)[i].args) \subseteq Inputs \cup Defs(F0)
  BY <1>1, FunctionsAssumption DEF IsFunction, InSSA, Body
<1> QED
  BY <1>2 DEF Range

\* A value is defined in one place.
LEMMA OneDefinition ==
  ASSUME F0 \in Functions, NEW c \in F0.blocks, NEW d \in F0.blocks,
         NEW i \in 1 .. Size(c), NEW j \in 1 .. Size(d),
         Body(c)[i].def = Body(d)[j].def, Body(c)[i].def # NoValue
  PROVE  c = d /\ i = j
<1>1. i \in DOMAIN F0.code[c] /\ j \in DOMAIN F0.code[d]
  BY BlockShape DEF Body
<1>2. InSSA(F0)
  BY FunctionsAssumption
<1> QED
  BY <1>1, <1>2 DEF InSSA, SingleAssignment, Body

LEMMA OwnValuesAreDefined ==
  ASSUME F0 \in Functions, NEW c \in F0.blocks, NEW u \in Nat, u <= Size(c) + 1
  PROVE  OwnValues(c, u) \subseteq Defs(F0)
<1> SUFFICES ASSUME NEW i \in First(c) .. u - 1, Body(c)[i].def # NoValue
             PROVE  Body(c)[i].def \in Defs(F0)
  BY DEF OwnValues
<1>1. i \in 1 .. Size(c)
  BY BlockShape
<1> QED
  BY <1>1, InstructionShape

\* Made blocks are new and distinct, and so are made values.
LEMMA BlockNames ==
  ASSUME F0 \in Functions
  PROVE  \A b, c \in F0.blocks : \A p, q \in Parts :
           /\ NewBlock(b, p) \notin F0.blocks \cup {NoBlock}
           /\ NewBlock(b, p) = NewBlock(c, q) => b = c /\ p = q
BY NamesAssumption

LEMMA ValueNames ==
  ASSUME F0 \in Functions
  PROVE  \A v, w \in Defs(F0) \cup F0.blocks : \A p, q \in {"then", "else", "phi", "cond"} :
           /\ NewValue(v, p) \notin Inputs \cup Defs(F0) \cup {NoValue}
           /\ NewValue(v, p) = NewValue(w, q) => v = w /\ p = q
BY NamesAssumption

LEMMA PartNames ==
  ASSUME F0 \in Functions, NEW b \in F0.blocks, NEW c \in F0.blocks
  PROVE  /\ Then(b) # Else(c) /\ Then(b) # TailOf(c) /\ Else(b) # TailOf(c)
         /\ (Then(b) = Then(c) \/ Else(b) = Else(c) \/ TailOf(b) = TailOf(c)) => b = c
         /\ Then(b) # c /\ Else(b) # c /\ TailOf(b) # c
         /\ Then(b) # NoBlock /\ Else(b) # NoBlock /\ TailOf(b) # NoBlock
BY BlockNames DEF Parts, Then, Else, TailOf
-----------------------------------------------------------------------------
(* The two rewritings of a whole function, instruction by instruction: an  *)
(* edge that moves, and a value that is replaced.                          *)

MovedFrom(x, b) == [x EXCEPT !.from = ReplaceAll(@, b, TailOf(b))]

Rewritten(x, d) == [x EXCEPT !.args = ReplaceAll(@, d, NewValue(d, "phi"))]

\* What ReMapper is while the pass runs.
IsReMapper(R) == DOMAIN R \subseteq Defs(F0) /\ \A v \in DOMAIN R : R[v] = NewValue(v, "phi")

\* The edge out of b moves to its tail, and b joins the split blocks.
Splitting(S, b, T) == S \subseteq F0.blocks /\ b \in F0.blocks \ S /\ T = S \cup {b}

\* The uses of d are replaced, and d joins ReMapper.
Replacing(R, d, Q) ==
  IsReMapper(R) /\ d \in Defs(F0) \ DOMAIN R /\ Q = Entered(R, d, NewValue(d, "phi"))

\* Replacing the members of a list one by one.
LEMMA ReplacedList ==
  ASSUME NEW n \in Nat, NEW s, DOMAIN s = 1 .. n, s = [k \in 1 .. n |-> s[k]], NEW old, NEW new
  PROVE  ReplaceAll(s, old, new) = [k \in 1 .. n |-> IF s[k] = old THEN new ELSE s[k]]
<1>1. s \in Seq({s[k] : k \in 1 .. n})
  OBVIOUS
<1>2. Len(s) = n
  BY <1>1, LenProperties
<1> QED
  BY <1>2 DEF ReplaceAll

LEMMA ReplacedNone ==
  ASSUME NEW old, NEW new
  PROVE  ReplaceAll(<<>>, old, new) = <<>>
BY DEF ReplaceAll

LEMMA ReplacedOne ==
  ASSUME NEW old, NEW new, NEW v
  PROVE  ReplaceAll(<<v>>, old, new) = <<IF v = old THEN new ELSE v>>
BY DEF ReplaceAll

LEMMA ReplacedTwo ==
  ASSUME NEW old, NEW new, NEW v, NEW w, v # old, w # old
  PROVE  ReplaceAll(<<v, w>>, old, new) = <<v, w>>
BY DEF ReplaceAll

\* What the two rewritings do to an instruction, field by field.
LEMMA MovedFields ==
  ASSUME NEW o, NEW d, NEW a, NEW fr, NEW b
  PROVE  MovedFrom([op |-> o, def |-> d, args |-> a, from |-> fr], b)
           = [op |-> o, def |-> d, args |-> a, from |-> ReplaceAll(fr, b, TailOf(b))]
BY DEF MovedFrom

LEMMA RewrittenFields ==
  ASSUME NEW o, NEW v, NEW a, NEW fr, NEW d
  PROVE  Rewritten([op |-> o, def |-> v, args |-> a, from |-> fr], d)
           = [op |-> o, def |-> v, args |-> ReplaceAll(a, d, NewValue(d, "phi")), from |-> fr]
BY DEF Rewritten

LEMMA MovedCame ==
  ASSUME F0 \in Functions, NEW S, NEW b, NEW T, Splitting(S, b, T), NEW p
  PROVE  Came(p, T) = IF Came(p, S) = b THEN TailOf(b) ELSE Came(p, S)
<1>1. CASE p \in S
  BY <1>1, PartNames DEF Came, Splitting
<1>2. CASE p \notin S
  BY <1>2 DEF Came, Splitting
<1> QED
  BY <1>1, <1>2

LEMMA MovedEdges ==
  ASSUME F0 \in Functions, NEW S, NEW b, NEW T, Splitting(S, b, T),
         NEW c \in F0.blocks, NEW i \in 1 .. Size(c)
  PROVE  ReplaceAll(FromNow(Body(c)[i].from, S), b, TailOf(b)) = FromNow(Body(c)[i].from, T)
<1> DEFINE w == Body(c)[i].from
           n == Len(w)
           s == [k \in 1 .. n |-> Came(w[k], S)]
<1>1. n \in Nat /\ DOMAIN w = 1 .. n
  BY InstructionShape
<1>2. ReplaceAll(s, b, TailOf(b)) = [k \in 1 .. n |-> IF s[k] = b THEN TailOf(b) ELSE s[k]]
  <2> HIDE DEF w, n
  <2> QED
    BY <1>1, ReplacedList
<1>3. \A k \in 1 .. n : (IF s[k] = b THEN TailOf(b) ELSE s[k]) = Came(w[k], T)
  BY MovedCame
<1> QED
  BY <1>1, <1>2, <1>3 DEF FromNow

LEMMA MovedRenamed ==
  ASSUME F0 \in Functions, NEW S, NEW b, NEW T, Splitting(S, b, T),
         NEW c \in F0.blocks, NEW i \in 1 .. Size(c), NEW R
  PROVE  MovedFrom(Renamed(Body(c)[i], R, S), b) = Renamed(Body(c)[i], R, T)
<1>1. ReplaceAll(FromNow(Body(c)[i].from, S), b, TailOf(b)) = FromNow(Body(c)[i].from, T)
  BY MovedEdges
<1> QED
  BY <1>1, MovedFields DEF Renamed

LEMMA MovedCloned ==
  ASSUME F0 \in Functions, NEW S, NEW b, NEW T, Splitting(S, b, T),
         NEW c \in F0.blocks, NEW i \in 1 .. Size(c), NEW R, NEW part
  PROVE  MovedFrom(Cloned(c, i, part, R, S), b) = Cloned(c, i, part, R, T)
<1>1. ReplaceAll(FromNow(Body(c)[i].from, S), b, TailOf(b)) = FromNow(Body(c)[i].from, T)
  BY MovedEdges
<1> QED
  BY <1>1, MovedFields DEF Cloned

LEMMA MovedMade ==
  ASSUME F0 \in Functions, NEW b \in F0.blocks, NEW c \in F0.blocks, NEW v
  PROVE  /\ MovedFrom(PhiOf(c, v), b) = PhiOf(c, v)
         /\ MovedFrom(IsNull(c, v), b) = IsNull(c, v)
         /\ MovedFrom(IfNull(c), b) = IfNull(c)
         /\ MovedFrom(Jump, b) = Jump
<1>1. Then(c) # b /\ Else(c) # b
  BY PartNames
<1>2. ReplaceAll(<<Then(c), Else(c)>>, b, TailOf(b)) = <<Then(c), Else(c)>>
  BY <1>1, ReplacedTwo
<1>3. ReplaceAll(<<>>, b, TailOf(b)) = <<>>
  BY ReplacedNone
<1> QED
  BY <1>2, <1>3, MovedFields DEF PhiOf, IsNull, IfNull, Jump

LEMMA RewrittenLookup ==
  ASSUME F0 \in Functions, NEW R, IsReMapper(R), NEW d \in Defs(F0), d \notin DOMAIN R, NEW v
  PROVE  Lookup(Entered(R, d, NewValue(d, "phi")), v)
           = IF Lookup(R, v) = d THEN NewValue(d, "phi") ELSE Lookup(R, v)
<1>1. CASE v \in DOMAIN R
  <2>1. R[v] # d /\ v # d
    BY <1>1, ValueNames DEF IsReMapper
  <2> QED
    BY <1>1, <2>1 DEF Lookup, Entered
<1>2. CASE v \notin DOMAIN R
  BY <1>2 DEF Lookup, Entered
<1> QED
  BY <1>1, <1>2

LEMMA RewrittenInstructions ==
  ASSUME F0 \in Functions, NEW R, IsReMapper(R), NEW d \in Defs(F0), d \notin DOMAIN R, NEW S,
         NEW c \in F0.blocks, NEW R1, R1 = Entered(R, d, NewValue(d, "phi"))
  PROVE  /\ \A i \in 1 .. Size(c) :
              /\ Rewritten(Renamed(Body(c)[i], R, S), d) = Renamed(Body(c)[i], R1, S)
              /\ \A part \in {"then", "else"} :
                   Rewritten(Cloned(c, i, part, R, S), d) = Cloned(c, i, part, R1, S)
         /\ \A v \in Defs(F0) : Rewritten(PhiOf(c, v), d) = PhiOf(c, v)
         /\ \A v : Rewritten(IsNull(c, Lookup(R, v)), d) = IsNull(c, Lookup(R1, v))
         /\ Rewritten(IfNull(c), d) = IfNull(c)
         /\ Rewritten(Jump, d) = Jump
<1> DEFINE w == NewValue(d, "phi")
<1>1. \A v : Lookup(R1, v) = IF Lookup(R, v) = d THEN w ELSE Lookup(R, v)
  BY RewrittenLookup
<1> HIDE DEF w
<1>2. ASSUME NEW i \in 1 .. Size(c)
      PROVE  Rewritten(Renamed(Body(c)[i], R, S), d) = Renamed(Body(c)[i], R1, S)
  <2> DEFINE a == Body(c)[i].args
             n == Len(a)
             s == [k \in 1 .. n |-> Lookup(R, a[k])]
  <2>1. n \in Nat /\ DOMAIN a = 1 .. n
    BY InstructionShape
  <2>2. ReplaceAll(s, d, w) = [k \in 1 .. n |-> IF s[k] = d THEN w ELSE s[k]]
    <3> HIDE DEF a, n
    <3> QED
      BY <2>1, ReplacedList
  <2>3. ReplaceAll(ArgsNow(a, R), d, w) = ArgsNow(a, R1)
    BY <1>1, <2>1, <2>2 DEF ArgsNow
  <2> QED
    BY <2>1, <2>3, RewrittenFields DEF Renamed, w
<1>3. ASSUME NEW i \in 1 .. Size(c), NEW part \in {"then", "else"}
      PROVE  Rewritten(Cloned(c, i, part, R, S), d) = Cloned(c, i, part, R1, S)
  <2> DEFINE a == Body(c)[i].args
             n == Len(a)
             own == OwnValues(c, i)
             s == [k \in 1 .. n |-> IF a[k] \in own THEN NewValue(a[k], part) ELSE Lookup(R, a[k])]
  <2>1. n \in Nat /\ DOMAIN a = 1 .. n
    BY InstructionShape
  <2>2. ReplaceAll(s, d, w) = [k \in 1 .. n |-> IF s[k] = d THEN w ELSE s[k]]
    <3> HIDE DEF a, n, own
    <3> QED
      BY <2>1, ReplacedList
  <2>3. own \subseteq Defs(F0)
    BY OwnValuesAreDefined, BlockShape
  <2>4. \A v \in own : NewValue(v, part) # d
    BY <2>3, ValueNames
  <2>5. ReplaceAll(s, d, w)
          = [k \in DOMAIN a |-> IF a[k] \in own THEN NewValue(a[k], part) ELSE Lookup(R1, a[k])]
    <3> HIDE DEF own, a, n
    <3> QED
      BY <1>1, <2>1, <2>2, <2>4
  <2>6. ReplaceAll(ArgsCloned(c, i, part, R), d, w) = ArgsCloned(c, i, part, R1)
    BY <2>1, <2>5 DEF ArgsCloned
  <2> QED
    BY <2>6, RewrittenFields DEF Cloned, w
<1>4. ASSUME NEW v \in Defs(F0) PROVE Rewritten(PhiOf(c, v), d) = PhiOf(c, v)
  <2>1. NewValue(v, "then") # d /\ NewValue(v, "else") # d
    BY ValueNames
  <2>2. ReplaceAll(<<NewValue(v, "then"), NewValue(v, "else")>>, d, NewValue(d, "phi"))
          = <<NewValue(v, "then"), NewValue(v, "else")>>
    BY <2>1, ReplacedTwo
  <2> QED
    BY <2>2, RewrittenFields DEF PhiOf
<1>5. ASSUME NEW v PROVE Rewritten(IsNull(c, Lookup(R, v)), d) = IsNull(c, Lookup(R1, v))
  <2>1. ReplaceAll(<<Lookup(R, v)>>, d, w) = <<Lookup(R1, v)>>
    BY <1>1, ReplacedOne
  <2> QED
    BY <2>1, RewrittenFields DEF IsNull, w
<1>6. Rewritten(IfNull(c), d) = IfNull(c)
  <2>1. NewValue(c, "cond") # d
    BY ValueNames
  <2>2. ReplaceAll(<<NewValue(c, "cond")>>, d, NewValue(d, "phi")) = <<NewValue(c, "cond")>>
    BY <2>1, ReplacedOne
  <2> QED
    BY <2>2, RewrittenFields DEF IfNull
<1>7. Rewritten(Jump, d) = Jump
  BY ReplacedNone, RewrittenFields DEF Jump
<1> QED
  BY <1>2, <1>3, <1>4, <1>5, <1>6, <1>7
-----------------------------------------------------------------------------
(* The rewritings, block by block.                                         *)

\* e lists K in increasing order.
ListsUp(e, K) ==
  /\ e \in [1 .. Cardinality(K) -> K]
  /\ \A i \in K : \E k \in 1 .. Cardinality(K) : e[k] = i
  /\ \A k, l \in 1 .. Cardinality(K) : k < l => e[k] < e[l]

\* s without some positions holds the other positions of s, in their order.
KeepsOrder(e, n, P) ==
  /\ Cardinality((1 .. n) \ P) \in Nat
  /\ ListsUp(e, (1 .. n) \ P)
  /\ \A s : DOMAIN s = 1 .. n =>
       Without(s, P) = [k \in 1 .. Cardinality((1 .. n) \ P) |-> s[e[k]]]

LEMMA WithoutKeepsOrder ==
  ASSUME NEW n \in Nat, NEW P
  PROVE  \E e : KeepsOrder(e, n, P)
<1> DEFINE K == (1 .. n) \ P
           m == Cardinality(K)
           upTo(i) == {j \in K : j <= i}
           rank == [i \in K |-> Cardinality(upTo(i))]
           e == [k \in 1 .. m |-> CHOOSE i \in K : Cardinality(upTo(i)) = k]
<1>1. IsFiniteSet(K) /\ m \in Nat
  <2>1. IsFiniteSet(1 .. n)
    BY FS_Interval
  <2>2. IsFiniteSet(K)
    BY <2>1, FS_Subset
  <2> QED
    BY <2>2, FS_CardinalityType
<1>2. \A i \in K : IsFiniteSet(upTo(i)) /\ Cardinality(upTo(i)) \in 1 .. m
  <2> TAKE i \in K
  <2>1. IsFiniteSet(upTo(i)) /\ Cardinality(upTo(i)) \in Nat /\ Cardinality(upTo(i)) <= m
    BY <1>1, FS_Subset, FS_CardinalityType
  <2>2. Cardinality(upTo(i)) # 0
    <3>1. i \in upTo(i)
      OBVIOUS
    <3> QED
      BY <2>1, <3>1, FS_EmptySet
  <2> QED
    BY <1>1, <2>1, <2>2
<1>3. ASSUME NEW i \in K, NEW j \in K, i < j
      PROVE  Cardinality(upTo(i)) < Cardinality(upTo(j))
  <2>1. upTo(i) \subseteq upTo(j) /\ upTo(i) # upTo(j)
    <3>1. j \in upTo(j) /\ j \notin upTo(i)
      BY <1>3
    <3>2. \A x \in K : x <= i => x <= j
      BY <1>3
    <3> QED
      BY <3>1, <3>2
  <2>2. Cardinality(upTo(i)) <= Cardinality(upTo(j)) /\ Cardinality(upTo(i)) # Cardinality(upTo(j))
    BY <1>2, <2>1, FS_Subset
  <2> QED
    BY <1>1, <1>2, <2>2
<1>4. \A i, j \in K : Cardinality(upTo(i)) = Cardinality(upTo(j)) => i = j
  <2> TAKE i, j \in K
  <2>1. i < j \/ j < i \/ i = j
    OBVIOUS
  <2>2. Cardinality(upTo(i)) \in Nat /\ Cardinality(upTo(j)) \in Nat
    BY <1>1, <1>2
  <2> HIDE DEF K, upTo, m
  <2>3. i < j => Cardinality(upTo(i)) < Cardinality(upTo(j))
    BY <1>3
  <2>4. j < i => Cardinality(upTo(j)) < Cardinality(upTo(i))
    BY <1>3
  <2> QED
    BY <2>1, <2>2, <2>3, <2>4
<1>5. rank \in Injection(K, 1 .. m)
  <2> HIDE DEF m
  <2>1. rank \in [K -> 1 .. m]
    BY <1>2
  <2>2. \A i, j \in K : rank[i] = rank[j] => i = j
    BY <1>4
  <2> QED
    BY <2>1, <2>2 DEF Injection, IsInjective
<1>6. \A k \in 1 .. m : \E i \in K : Cardinality(upTo(i)) = k
  <2>1. IsFiniteSet(1 .. m) /\ Cardinality(1 .. m) = m
    BY <1>1, FS_Interval
  <2>2. rank \in Surjection(K, 1 .. m)
    BY <1>5, <2>1, FS_Injection
  <2> HIDE DEF m, K
  <2> QED
    BY <2>2 DEF Surjection
<1>7. \A k \in 1 .. m : e[k] \in K /\ Cardinality(upTo(e[k])) = k
  <2> TAKE k \in 1 .. m
  <2>1. e[k] = CHOOSE i \in K : Cardinality(upTo(i)) = k
    OBVIOUS
  <2> HIDE DEF e, m, K
  <2> QED
    BY <1>6, <2>1
<1>8. ListsUp(e, K)
  <2>1. e \in [1 .. m -> K]
    BY <1>7
  <2>2. \A i \in K : \E k \in 1 .. m : e[k] = i
    <3> HIDE DEF e, m, K
    <3> QED
      BY <1>2, <1>4, <1>7
  <2>3. \A k, l \in 1 .. m : k < l => e[k] < e[l]
    <3> TAKE k, l \in 1 .. m
    <3> SUFFICES ASSUME k < l, ~(e[k] < e[l]) PROVE FALSE
      OBVIOUS
    <3>1. e[k] \in K /\ e[l] \in K /\ Cardinality(upTo(e[k])) = k /\ Cardinality(upTo(e[l])) = l
      BY <1>7
    <3>2. e[k] \in Nat /\ e[l] \in Nat
      BY <3>1
    <3> HIDE DEF e, K, m
    <3>3. e[l] < e[k] \/ e[l] = e[k]
      BY <3>2
    <3>4. e[l] # e[k]
      BY <3>1, <1>1
    <3>5. l < k
      BY <1>3, <3>1, <3>3, <3>4
    <3> QED
      BY <1>1, <3>5
  <2> QED
    BY <2>1, <2>2, <2>3 DEF ListsUp
<1>9. ASSUME NEW s, DOMAIN s = 1 .. n
      PROVE  Without(s, P) = [k \in 1 .. m |-> s[e[k]]]
  BY <1>9 DEF Without
<1> QED
  BY <1>1, <1>8, <1>9 DEF KeepsOrder

\* The rewritings of the code of a block.
MovedCode(s, b) == [i \in DOMAIN s |-> MovedFrom(s[i], b)]
RewrittenCode(s, d) == [i \in DOMAIN s |-> Rewritten(s[i], d)]

LEMMA RewritingsAreThese ==
  /\ \A s, b : MoveIncoming(s, b, TailOf(b)) = MovedCode(s, b)
  /\ \A code, d : ReplaceAllUses(code, d, NewValue(d, "phi"))
                    = [b \in DOMAIN code |-> RewrittenCode(code[b], d)]
BY DEF MoveIncoming, MovedCode, MovedFrom, ReplaceAllUses, RewrittenCode, Rewritten

LEMMA MovedWithout ==
  ASSUME NEW n \in Nat, NEW P, NEW s, DOMAIN s = 1 .. n, NEW b
  PROVE  MovedCode(Without(s, P), b) = Without(MovedCode(s, b), P)
<1> DEFINE m == Cardinality((1 .. n) \ P)
<1>1. PICK e : KeepsOrder(e, n, P)
  BY WithoutKeepsOrder
<1>2. \A k \in 1 .. m : e[k] \in 1 .. n
  BY <1>1 DEF KeepsOrder, ListsUp
<1>3. DOMAIN MovedCode(s, b) = 1 .. n /\ \A i \in 1 .. n : MovedCode(s, b)[i] = MovedFrom(s[i], b)
  BY DEF MovedCode
<1>4. Without(s, P) = [k \in 1 .. m |-> s[e[k]]]
  BY <1>1 DEF KeepsOrder
<1>5. Without(MovedCode(s, b), P) = [k \in 1 .. m |-> MovedCode(s, b)[e[k]]]
  BY <1>1, <1>3 DEF KeepsOrder
<1>6. MovedCode([k \in 1 .. m |-> s[e[k]]], b) = [k \in 1 .. m |-> MovedFrom(s[e[k]], b)]
  BY DEF MovedCode
<1> HIDE DEF m
<1> QED
  BY <1>2, <1>3, <1>4, <1>5, <1>6

LEMMA RewrittenWithout ==
  ASSUME NEW n \in Nat, NEW P, NEW s, DOMAIN s = 1 .. n, NEW d
  PROVE  RewrittenCode(Without(s, P), d) = Without(RewrittenCode(s, d), P)
<1> DEFINE m == Cardinality((1 .. n) \ P)
<1>1. PICK e : KeepsOrder(e, n, P)
  BY WithoutKeepsOrder
<1>2. \A k \in 1 .. m : e[k] \in 1 .. n
  BY <1>1 DEF KeepsOrder, ListsUp
<1>3. /\ DOMAIN RewrittenCode(s, d) = 1 .. n
      /\ \A i \in 1 .. n : RewrittenCode(s, d)[i] = Rewritten(s[i], d)
  BY DEF RewrittenCode
<1>4. Without(s, P) = [k \in 1 .. m |-> s[e[k]]]
  BY <1>1 DEF KeepsOrder
<1>5. Without(RewrittenCode(s, d), P) = [k \in 1 .. m |-> RewrittenCode(s, d)[e[k]]]
  BY <1>1, <1>3 DEF KeepsOrder
<1>6. RewrittenCode([k \in 1 .. m |-> s[e[k]]], d) = [k \in 1 .. m |-> Rewritten(s[e[k]], d)]
  BY DEF RewrittenCode
<1> HIDE DEF m
<1> QED
  BY <1>2, <1>3, <1>4, <1>5, <1>6

LEMMA MovedKept ==
  ASSUME F0 \in Functions, NEW S, NEW b, NEW T, Splitting(S, b, T), NEW R, NEW c \in F0.blocks
  PROVE  MovedCode(KeptCode(c, R, S), b) = KeptCode(c, R, T)
<1>1. \A i \in 1 .. Size(c) : MovedFrom(Renamed(Body(c)[i], R, S), b) = Renamed(Body(c)[i], R, T)
  BY MovedRenamed
<1> QED
  BY <1>1 DEF MovedCode, KeptCode

LEMMA MovedHead ==
  ASSUME F0 \in Functions, NEW S, NEW b, NEW T, Splitting(S, b, T), NEW R, NEW c \in F0.blocks, NEW v
  PROVE  MovedCode(HeadCode(c, v, R, S), b) = HeadCode(c, v, R, T)
<1>1. \A i \in 1 .. Size(c) : MovedFrom(Renamed(Body(c)[i], R, S), b) = Renamed(Body(c)[i], R, T)
  BY MovedRenamed
<1>2. /\ MovedFrom(IsNull(c, Lookup(R, v)), b) = IsNull(c, Lookup(R, v))
      /\ MovedFrom(IfNull(c), b) = IfNull(c)
  BY MovedMade DEF Splitting
<1>3. First(c) \in 1 .. Size(c) /\ Size(c) \in Nat
  BY BlockShape
<1>4. \A j \in 1 .. First(c) + 1 : j < First(c) => j \in 1 .. Size(c)
  BY <1>3
<1> QED
  BY <1>1, <1>2, <1>4 DEF MovedCode, HeadCode

LEMMA MovedClone ==
  ASSUME F0 \in Functions, NEW S, NEW b, NEW T, Splitting(S, b, T), NEW R, NEW c \in F0.blocks,
         NEW u \in First(c) .. Size(c), NEW part
  PROVE  MovedCode(CloneCode(c, u, part, R, S), b) = CloneCode(c, u, part, R, T)
<1>1. \A i \in 1 .. Size(c) : MovedFrom(Cloned(c, i, part, R, S), b) = Cloned(c, i, part, R, T)
  BY MovedCloned
<1>2. MovedFrom(Jump, b) = Jump
  BY MovedMade DEF Splitting
<1>3. First(c) \in 1 .. Size(c) /\ Size(c) \in Nat
  BY BlockShape
<1>4. \A j \in 1 .. u - First(c) + 1 : j # u - First(c) + 1 => First(c) + j - 1 \in 1 .. Size(c)
  BY <1>3
<1> QED
  BY <1>1, <1>2, <1>4 DEF MovedCode, CloneCode

LEMMA MovedTail ==
  ASSUME F0 \in Functions, NEW S, NEW b, NEW T, Splitting(S, b, T), NEW R, NEW c \in F0.blocks, NEW u
  PROVE  MovedCode(TailCode(c, u, R, S), b) = TailCode(c, u, R, T)
<1>1. \A i \in 1 .. Size(c) : MovedFrom(InTail(c, u, i, R, S), b) = InTail(c, u, i, R, T)
  <2>1. \A v : MovedFrom(PhiOf(c, v), b) = PhiOf(c, v)
    BY MovedMade DEF Splitting
  <2>2. \A i \in 1 .. Size(c) : MovedFrom(Renamed(Body(c)[i], R, S), b) = Renamed(Body(c)[i], R, T)
    BY MovedRenamed
  <2> QED
    BY <2>1, <2>2 DEF InTail
<1>2. First(c) \in 1 .. Size(c) /\ Size(c) \in Nat
  BY BlockShape
<1>3. \A j \in 1 .. Size(c) - First(c) + 1 : First(c) + j - 1 \in 1 .. Size(c)
  BY <1>2
<1> QED
  BY <1>1, <1>3 DEF MovedCode, TailCode

LEMMA MovedPurged ==
  ASSUME F0 \in Functions, NEW S, NEW b, NEW T, Splitting(S, b, T), NEW R, NEW c \in F0.blocks
  PROVE  MovedCode(PurgedCode(c, R, S), b) = PurgedCode(c, R, T)
<1>1. First(c) \in 1 .. Size(c) /\ Size(c) \in Nat
  BY BlockShape
<1>2. Size(c) - First(c) + 1 \in Nat /\ DOMAIN TailCode(c, Size(c), R, S) = 1 .. Size(c) - First(c) + 1
  BY <1>1 DEF TailCode
<1>3. MovedCode(TailCode(c, Size(c), R, S), b) = TailCode(c, Size(c), R, T)
  BY MovedTail
<1> QED
  BY <1>2, <1>3, MovedWithout DEF PurgedCode

\* With the uses of d replaced, the code of block c is what ReMapper, now with
\* d, makes of it.
ReplacedIn(R, d, Q, S, c) ==
  /\ \A i \in 1 .. Size(c) :
       /\ Rewritten(Renamed(Body(c)[i], R, S), d) = Renamed(Body(c)[i], Q, S)
       /\ \A part \in {"then", "else"} :
            Rewritten(Cloned(c, i, part, R, S), d) = Cloned(c, i, part, Q, S)
  /\ \A v \in Defs(F0) : Rewritten(PhiOf(c, v), d) = PhiOf(c, v)
  /\ \A v : Rewritten(IsNull(c, Lookup(R, v)), d) = IsNull(c, Lookup(Q, v))
  /\ Rewritten(IfNull(c), d) = IfNull(c)
  /\ Rewritten(Jump, d) = Jump

LEMMA RewrittenByReplacing ==
  ASSUME F0 \in Functions, NEW R, NEW d, NEW Q, Replacing(R, d, Q), NEW S, NEW c \in F0.blocks
  PROVE  ReplacedIn(R, d, Q, S, c)
<1>1. IsReMapper(R) /\ d \in Defs(F0) /\ d \notin DOMAIN R /\ Q = Entered(R, d, NewValue(d, "phi"))
  BY DEF Replacing
<1> QED
  BY <1>1, RewrittenInstructions DEF ReplacedIn

LEMMA RewrittenKept ==
  ASSUME F0 \in Functions, NEW R, NEW d, NEW Q, Replacing(R, d, Q), NEW S, NEW c \in F0.blocks
  PROVE  RewrittenCode(KeptCode(c, R, S), d) = KeptCode(c, Q, S)
<1>0. ReplacedIn(R, d, Q, S, c)
  BY RewrittenByReplacing
<1>1. \A i \in 1 .. Size(c) : Rewritten(Renamed(Body(c)[i], R, S), d) = Renamed(Body(c)[i], Q, S)
  BY <1>0 DEF ReplacedIn
<1> QED
  BY <1>1 DEF RewrittenCode, KeptCode

LEMMA RewrittenHead ==
  ASSUME F0 \in Functions, NEW R, NEW d, NEW Q, Replacing(R, d, Q), NEW S, NEW c \in F0.blocks, NEW v
  PROVE  RewrittenCode(HeadCode(c, v, R, S), d) = HeadCode(c, v, Q, S)
<1>0. ReplacedIn(R, d, Q, S, c)
  BY RewrittenByReplacing
<1>1. /\ \A i \in 1 .. Size(c) : Rewritten(Renamed(Body(c)[i], R, S), d) = Renamed(Body(c)[i], Q, S)
      /\ Rewritten(IsNull(c, Lookup(R, v)), d) = IsNull(c, Lookup(Q, v))
      /\ Rewritten(IfNull(c), d) = IfNull(c)
  BY <1>0 DEF ReplacedIn
<1>2. First(c) \in 1 .. Size(c) /\ Size(c) \in Nat
  BY BlockShape
<1>3. \A j \in 1 .. First(c) + 1 : j < First(c) => j \in 1 .. Size(c)
  BY <1>2
<1> QED
  BY <1>1, <1>3 DEF RewrittenCode, HeadCode

LEMMA RewrittenClone ==
  ASSUME F0 \in Functions, NEW R, NEW d, NEW Q, Replacing(R, d, Q), NEW S, NEW c \in F0.blocks,
         NEW u \in First(c) .. Size(c), NEW part \in {"then", "else"}
  PROVE  RewrittenCode(CloneCode(c, u, part, R, S), d) = CloneCode(c, u, part, Q, S)
<1>0. ReplacedIn(R, d, Q, S, c)
  BY RewrittenByReplacing
<1>1. /\ \A i \in 1 .. Size(c) : Rewritten(Cloned(c, i, part, R, S), d) = Cloned(c, i, part, Q, S)
      /\ Rewritten(Jump, d) = Jump
  BY <1>0 DEF ReplacedIn
<1>2. First(c) \in 1 .. Size(c) /\ Size(c) \in Nat
  BY BlockShape
<1>3. \A j \in 1 .. u - First(c) + 1 : j # u - First(c) + 1 => First(c) + j - 1 \in 1 .. Size(c)
  BY <1>2
<1> QED
  BY <1>1, <1>3 DEF RewrittenCode, CloneCode

LEMMA RewrittenTail ==
  ASSUME F0 \in Functions, NEW R, NEW d, NEW Q, Replacing(R, d, Q), NEW S, NEW c \in F0.blocks, NEW u
  PROVE  RewrittenCode(TailCode(c, u, R, S), d) = TailCode(c, u, Q, S)
<1>0. ReplacedIn(R, d, Q, S, c)
  BY RewrittenByReplacing
<1>1. \A i \in 1 .. Size(c) : Rewritten(InTail(c, u, i, R, S), d) = InTail(c, u, i, Q, S)
  <2> TAKE i \in 1 .. Size(c)
  <2>1. /\ Rewritten(Renamed(Body(c)[i], R, S), d) = Renamed(Body(c)[i], Q, S)
        /\ \A v \in Defs(F0) : Rewritten(PhiOf(c, v), d) = PhiOf(c, v)
    BY <1>0 DEF ReplacedIn
  <2>2. Body(c)[i].def # NoValue => Body(c)[i].def \in Defs(F0)
    BY InstructionShape
  <2> QED
    BY <2>1, <2>2 DEF InTail
<1>2. First(c) \in 1 .. Size(c) /\ Size(c) \in Nat
  BY BlockShape
<1>3. \A j \in 1 .. Size(c) - First(c) + 1 : First(c) + j - 1 \in 1 .. Size(c)
  BY <1>2
<1> QED
  BY <1>1, <1>3 DEF RewrittenCode, TailCode

LEMMA RewrittenPurged ==
  ASSUME F0 \in Functions, NEW R, NEW d, NEW Q, Replacing(R, d, Q), NEW S, NEW c \in F0.blocks
  PROVE  RewrittenCode(PurgedCode(c, R, S), d) = PurgedCode(c, Q, S)
<1>1. First(c) \in 1 .. Size(c) /\ Size(c) \in Nat
  BY BlockShape
<1>2. Size(c) - First(c) + 1 \in Nat /\ DOMAIN TailCode(c, Size(c), R, S) = 1 .. Size(c) - First(c) + 1
  BY <1>1 DEF TailCode
<1>3. RewrittenCode(TailCode(c, Size(c), R, S), d) = TailCode(c, Size(c), Q, S)
  BY RewrittenTail
<1> QED
  BY <1>2, <1>3, RewrittenWithout DEF PurgedCode
-----------------------------------------------------------------------------
(* What the pass makes of one block.                                       *)

\* A list is determined by its length and its members.
LEMMA ListOf ==
  ASSUME NEW n \in Nat, NEW s, s = [k \in 1 .. n |-> s[k]]
  PROVE  s \in Seq({s[k] : k \in 1 .. n}) /\ Len(s) = n /\ DOMAIN s = 1 .. n
<1>1. s \in [1 .. n -> {s[k] : k \in 1 .. n}]
  OBVIOUS
<1>2. s \in Seq({s[k] : k \in 1 .. n})
  BY <1>1
<1> QED
  BY <1>1, <1>2, LenProperties

LEMMA KeptShape ==
  ASSUME F0 \in Functions, NEW c \in F0.blocks, NEW R, NEW S
  PROVE  /\ Len(KeptCode(c, R, S)) = Size(c)
         /\ DOMAIN KeptCode(c, R, S) = 1 .. Size(c)
         /\ FirstNonPhi(KeptCode(c, R, S)) = First(c)
<1> DEFINE s == KeptCode(c, R, S)
<1>1. Size(c) \in Nat
  BY BlockShape
<1>2. s = [k \in 1 .. Size(c) |-> s[k]] /\ \A k \in 1 .. Size(c) : s[k].op = Body(c)[k].op
  BY DEF KeptCode, Renamed
<1>3. Len(s) = Size(c) /\ DOMAIN s = 1 .. Size(c)
  <2> HIDE DEF s
  <2> QED
    BY <1>1, <1>2, ListOf
<1>4. {i \in 1 .. Len(s) : ~IsPhi(s[i])} = {i \in 1 .. Len(Body(c)) : ~IsPhi(Body(c)[i])}
  <2> HIDE DEF s
  <2> QED
    BY <1>2, <1>3 DEF IsPhi, Size, Body
<1>5. FirstNonPhi(s) = FirstNonPhi(Body(c))
  <2> HIDE DEF s
  <2> QED
    BY <1>4 DEF FirstNonPhi, SelectInSeq
<1> QED
  BY <1>3, <1>5 DEF First, Body

\* The code of a function before anything happened to it.
LEMMA NothingRenamed ==
  ASSUME F0 \in Functions, NEW c \in F0.blocks
  PROVE  F0.code[c] = KeptCode(c, NoMap, {})
<1>1. ASSUME NEW i \in 1 .. Size(c) PROVE Renamed(Body(c)[i], NoMap, {}) = Body(c)[i]
  <2> DEFINE x == Body(c)[i]
  <2>1. i \in DOMAIN Body(c)
    BY BlockShape
  <2>2. /\ x = [op |-> x.op, def |-> x.def, args |-> x.args, from |-> x.from]
        /\ x.args \in Seq(Range(x.args)) /\ x.from \in Seq(Range(x.from))
    BY <2>1, FunctionsAssumption DEF IsFunction, WellFormed, IsSequence, Body
  <2>3. /\ x.args = [k \in DOMAIN x.args |-> x.args[k]]
        /\ x.from = [k \in DOMAIN x.from |-> x.from[k]]
    <3> HIDE DEF x
    <3> QED
      BY <2>2, LenProperties
  <2>4. ArgsNow(x.args, NoMap) = x.args /\ FromNow(x.from, {}) = x.from
    BY <2>3 DEF ArgsNow, FromNow, Lookup, NoMap, Came
  <2> QED
    BY <2>2, <2>4 DEF Renamed
<1>2. Body(c) = [i \in 1 .. Size(c) |-> Body(c)[i]]
  BY BlockShape, LenProperties DEF Size, Body
<1> QED
  BY <1>1, <1>2 DEF KeptCode, Body

LEMMA SplitHead ==
  ASSUME F0 \in Functions, NEW c \in F0.blocks, NEW R, NEW S, NEW v
  PROVE  SubSeq(KeptCode(c, R, S), 1, First(c) - 1) \o <<IsNull(c, Lookup(R, v)), IfNull(c)>>
           = HeadCode(c, v, R, S)
<1> DEFINE s == KeptCode(c, R, S)
           n == First(c) - 1
           x == IsNull(c, Lookup(R, v))
           y == IfNull(c)
           T == {s[k] : k \in 1 .. Size(c)} \cup {x, y}
           h == SubSeq(s, 1, n)
           w == h \o <<x, y>>
<1>1. n \in Nat /\ n <= Size(c) /\ Size(c) \in Nat /\ First(c) = n + 1
  BY BlockShape
<1>2. h \in Seq(T) /\ Len(h) = n /\ \A i \in 1 .. n : h[i] = s[i]
  <2>1. \A i \in 1 .. n : s[i] \in T
    BY <1>1
  <2> HIDE DEF n, s, T
  <2> QED
    BY <1>1, <2>1, SubSeqProperties
<1>3. <<x, y>> \in Seq(T) /\ Len(<<x, y>>) = 2 /\ <<x, y>>[1] = x /\ <<x, y>>[2] = y
  <2>1. x \in T /\ y \in T
    OBVIOUS
  <2> HIDE DEF x, y, T
  <2> QED
    BY <2>1
<1>4. /\ w \in Seq(T) /\ Len(w) = n + 2
      /\ \A i \in 1 .. n + 2 : w[i] = IF i <= n THEN s[i] ELSE <<x, y>>[i - n]
  <2> HIDE DEF s, n, T, h, x, y
  <2>1. /\ w \in Seq(T) /\ Len(w) = Len(h) + Len(<<x, y>>)
        /\ \A i \in 1 .. Len(h) + Len(<<x, y>>) :
             w[i] = IF i <= Len(h) THEN h[i] ELSE <<x, y>>[i - Len(h)]
    BY <1>2, <1>3, ConcatProperties
  <2> QED
    BY <1>1, <1>2, <1>3, <2>1
<1>5. w = [i \in 1 .. n + 2 |-> w[i]]
  <2> HIDE DEF w, T
  <2> QED
    BY <1>4, LenProperties
<1>6. \A i \in 1 .. n + 2 : w[i] = HeadCode(c, v, R, S)[i]
  <2> TAKE i \in 1 .. n + 2
  <2>1. \A k \in 1 .. n : s[k] = Renamed(Body(c)[k], R, S)
    BY <1>1 DEF KeptCode
  <2>2. HeadCode(c, v, R, S)[i] = IF i < First(c) THEN Renamed(Body(c)[i], R, S)
                                 ELSE IF i = First(c) THEN x ELSE y
    BY <1>1 DEF HeadCode
  <2> HIDE DEF w, s, n, x, y
  <2>3. CASE i <= n
    BY <1>1, <1>4, <2>1, <2>2, <2>3
  <2>4. CASE i = n + 1
    BY <1>1, <1>3, <1>4, <2>2, <2>4
  <2>5. CASE i = n + 2
    BY <1>1, <1>3, <1>4, <2>2, <2>5
  <2> QED
    BY <1>1, <2>3, <2>4, <2>5
<1>7. HeadCode(c, v, R, S) = [i \in 1 .. n + 2 |-> HeadCode(c, v, R, S)[i]]
  <2>1. First(c) + 1 = n + 2
    BY <1>1
  <2> QED
    BY <2>1 DEF HeadCode
<1> HIDE DEF w, n
<1>8. w = HeadCode(c, v, R, S)
  BY <1>5, <1>6, <1>7
<1> QED
  BY <1>8 DEF w, n

LEMMA SplitTail ==
  ASSUME F0 \in Functions, NEW c \in F0.blocks, NEW R, NEW S
  PROVE  SubSeq(KeptCode(c, R, S), First(c), Size(c)) = TailCode(c, First(c), R, S)
<1> DEFINE s == KeptCode(c, R, S)
           m == First(c)
           n == Size(c)
           T == {s[k] : k \in 1 .. n}
           w == SubSeq(s, m, n)
<1>1. m \in Nat /\ n \in Nat /\ 1 <= m /\ m <= n
  BY BlockShape
<1>2. \A i \in 1 .. n : s[i] = Renamed(Body(c)[i], R, S) /\ s[i] \in T
  BY DEF KeptCode
<1>3. w \in Seq(T) /\ Len(w) = n - m + 1 /\ \A i \in 1 .. n - m + 1 : w[i] = s[m + i - 1]
  <2> HIDE DEF s, m, n, T
  <2>1. m \in Int /\ n \in Int /\ \A i \in m .. n : s[i] \in T
    BY <1>1, <1>2
  <2> QED
    BY <1>1, <2>1, SubSeqProperties
<1>4. w = [i \in 1 .. n - m + 1 |-> w[i]]
  <2> HIDE DEF w, T, n, m
  <2> QED
    BY <1>3, LenProperties
<1>5. \A i \in 1 .. n - m + 1 : w[i] = InTail(c, m, m + i - 1, R, S)
  <2> TAKE i \in 1 .. n - m + 1
  <2>1. m + i - 1 \in 1 .. n /\ ~(m + i - 1 < m)
    BY <1>1
  <2>2. w[i] = Renamed(Body(c)[m + i - 1], R, S)
    BY <1>2, <1>3, <2>1
  <2> QED
    BY <2>1, <2>2 DEF InTail
<1> QED
  BY <1>4, <1>5 DEF TailCode

LEMMA SplitClone ==
  ASSUME F0 \in Functions, NEW c \in F0.blocks, NEW part, NEW R, NEW S
  PROVE  CloneCode(c, First(c), part, R, S) = <<Jump>>
<1>1. First(c) \in Nat /\ First(c) - First(c) + 1 = 1
  BY BlockShape
<1>2. CloneCode(c, First(c), part, R, S) = [j \in 1 .. 1 |-> Jump]
  BY <1>1 DEF CloneCode
<1> QED
  BY <1>2

\* A clone that grows by one instruction.
LEMMA GrownClone ==
  ASSUME F0 \in Functions, NEW c \in F0.blocks, NEW u \in First(c) .. Size(c), NEW part, NEW R, NEW S
  PROVE  InsertBeforeTerminator(CloneCode(c, u, part, R, S), Cloned(c, u, part, R, S))
           = CloneCode(c, u + 1, part, R, S)
<1> DEFINE s == CloneCode(c, u, part, R, S)
           n == u - First(c)
           x == Cloned(c, u, part, R, S)
           T == {s[k] : k \in 1 .. n + 1} \cup {x}
           h == SubSeq(s, 1, n)
           w == h \o <<x, s[n + 1]>>
<1>1. n \in Nat /\ u = First(c) + n /\ First(c) \in Nat /\ u \in Nat
  BY BlockShape
<1>2. s = [k \in 1 .. n + 1 |-> s[k]] /\ s[n + 1] = Jump
  BY <1>1 DEF CloneCode
<1>3. Len(s) = n + 1
  <2> HIDE DEF s, n
  <2> QED
    BY <1>1, <1>2, ListOf
<1>4. InsertBeforeTerminator(s, x) = w
  <2>1. Len(s) - 1 = n
    BY <1>1, <1>3
  <2> QED
    BY <1>3, <2>1 DEF InsertBeforeTerminator, Front, Last
<1>5. h \in Seq(T) /\ Len(h) = n /\ \A i \in 1 .. n : h[i] = s[i]
  <2>1. \A i \in 1 .. n : s[i] \in T
    BY <1>1
  <2> HIDE DEF n, s, T
  <2> QED
    BY <1>1, <2>1, SubSeqProperties
<1>6. /\ <<x, s[n + 1]>> \in Seq(T) /\ Len(<<x, s[n + 1]>>) = 2
      /\ <<x, s[n + 1]>>[1] = x /\ <<x, s[n + 1]>>[2] = s[n + 1]
  <2>1. x \in T /\ s[n + 1] \in T
    BY <1>1
  <2> HIDE DEF x, T, s, n
  <2> QED
    BY <2>1
<1>7. /\ w \in Seq(T) /\ Len(w) = n + 2
      /\ \A i \in 1 .. n + 2 : w[i] = IF i <= n THEN s[i] ELSE <<x, s[n + 1]>>[i - n]
  <2> HIDE DEF s, n, T, h, x
  <2> DEFINE y == <<x, s[n + 1]>>
  <2>1. /\ w \in Seq(T) /\ Len(w) = Len(h) + Len(y)
        /\ \A i \in 1 .. Len(h) + Len(y) : w[i] = IF i <= Len(h) THEN h[i] ELSE y[i - Len(h)]
    BY <1>5, <1>6, ConcatProperties
  <2> QED
    BY <1>1, <1>5, <1>6, <2>1
<1>8. w = [i \in 1 .. n + 2 |-> w[i]]
  <2> HIDE DEF w, T, n
  <2> QED
    BY <1>7, LenProperties
<1>9. \A i \in 1 .. n + 2 : w[i] = CloneCode(c, u + 1, part, R, S)[i]
  <2> TAKE i \in 1 .. n + 2
  <2>1. \A k \in 1 .. n : s[k] = Cloned(c, First(c) + k - 1, part, R, S)
    BY <1>1 DEF CloneCode
  <2>2. CloneCode(c, u + 1, part, R, S)[i]
          = IF i = n + 2 THEN Jump ELSE Cloned(c, First(c) + i - 1, part, R, S)
    <3>1. (u + 1) - First(c) + 1 = n + 2
      BY <1>1
    <3> QED
      BY <3>1 DEF CloneCode
  <2> HIDE DEF w, s, n
  <2>3. CASE i <= n
    <3>1. i \in 1 .. n /\ i # n + 2
      BY <1>1, <2>3
    <3>2. w[i] = s[i]
      BY <1>7, <2>3
    <3> QED
      BY <2>1, <2>2, <3>1, <3>2
  <2>4. CASE i = n + 1
    <3>1. First(c) + i - 1 = u /\ ~(i <= n) /\ i - n = 1 /\ i # n + 2
      BY <1>1, <2>4
    <3>2. w[i] = x
      BY <1>6, <1>7, <3>1
    <3> QED
      BY <2>2, <3>1, <3>2
  <2>5. CASE i = n + 2
    <3>1. ~(i <= n) /\ i - n = 2
      BY <1>1, <2>5
    <3>2. w[i] = s[n + 1]
      BY <1>6, <1>7, <3>1
    <3> QED
      BY <1>2, <2>2, <2>5, <3>2
  <2> QED
    BY <1>1, <2>3, <2>4, <2>5
<1>10. CloneCode(c, u + 1, part, R, S) = [i \in 1 .. n + 2 |-> CloneCode(c, u + 1, part, R, S)[i]]
  <2>1. (u + 1) - First(c) + 1 = n + 2
    BY <1>1
  <2> QED
    BY <2>1 DEF CloneCode
<1>11. w = CloneCode(c, u + 1, part, R, S)
  <2> HIDE DEF w, n
  <2> QED
    BY <1>8, <1>9, <1>10
<1> QED
  BY <1>4, <1>11

\* What the maps of a clone hold: its own values, by their PHIs.
IsVMap(map, c, u, part) ==
  /\ DOMAIN map = {NewValue(v, "phi") : v \in OwnValues(c, u)}
  /\ \A v \in OwnValues(c, u) : map[NewValue(v, "phi")] = NewValue(v, part)

\* An instruction with another value and other operands.
LEMMA WithFields ==
  ASSUME NEW o, NEW d, NEW a, NEW fr, NEW x, NEW y
  PROVE  [[[op |-> o, def |-> d, args |-> a, from |-> fr] EXCEPT !.def = x] EXCEPT !.args = y]
           = [op |-> o, def |-> x, args |-> y, from |-> fr]
<1>1. [[op |-> o, def |-> d, args |-> a, from |-> fr] EXCEPT !.def = x]
        = [op |-> o, def |-> x, args |-> a, from |-> fr]
  OBVIOUS
<1>2. [[op |-> o, def |-> x, args |-> a, from |-> fr] EXCEPT !.args = y]
        = [op |-> o, def |-> x, args |-> y, from |-> fr]
  OBVIOUS
<1> QED
  BY <1>1, <1>2

\* An instruction of the tail, cloned.
LEMMA MadeClone ==
  ASSUME F0 \in Functions, NEW c \in F0.blocks, NEW u \in First(c) .. Size(c), NEW part, NEW S,
         NEW R, IsReMapper(R), OwnValues(c, u) \subseteq DOMAIN R,
         NEW map, IsVMap(map, c, u, part)
  PROVE  CloneOf(Renamed(Body(c)[u], R, S), part, map) = Cloned(c, u, part, R, S)
<1> DEFINE a == Body(c)[u].args
           own == OwnValues(c, u)
<1>1. u \in 1 .. Size(c) /\ own \subseteq Defs(F0)
  BY BlockShape, OwnValuesAreDefined
<1>2. \A k \in DOMAIN a : a[k] \in Inputs \cup Defs(F0)
  BY <1>1, InstructionShape
<1>3. ASSUME NEW k \in DOMAIN a
      PROVE  Lookup(map, Lookup(R, a[k]))
               = IF a[k] \in own THEN NewValue(a[k], part) ELSE Lookup(R, a[k])
  <2> DEFINE v == a[k]
  <2>1. v \in Inputs \cup Defs(F0)
    BY <1>2
  <2>2. \A x \in own : NewValue(x, "phi") \notin Inputs \cup Defs(F0)
    BY <1>1, ValueNames
  <2>3. CASE v \in own
    <3>1. Lookup(R, v) = NewValue(v, "phi")
      BY <2>3 DEF IsReMapper, Lookup
    <3> QED
      BY <2>3, <3>1 DEF Lookup, IsVMap
  <2>4. CASE v \notin own /\ v \in DOMAIN R
    <3>1. v \in Defs(F0) /\ Lookup(R, v) = NewValue(v, "phi")
      BY <2>4 DEF IsReMapper, Lookup
    <3>2. \A x \in own : NewValue(x, "phi") # NewValue(v, "phi")
      BY <1>1, <2>4, <3>1, ValueNames
    <3>3. NewValue(v, "phi") \notin DOMAIN map
      BY <3>2 DEF IsVMap
    <3> QED
      BY <2>4, <3>1, <3>3 DEF Lookup
  <2>5. CASE v \notin own /\ v \notin DOMAIN R
    <3>1. Lookup(R, v) = v /\ v \notin DOMAIN map
      BY <2>1, <2>2, <2>5 DEF IsVMap, Lookup
    <3> QED
      BY <2>5, <3>1 DEF Lookup
  <2> QED
    BY <2>3, <2>4, <2>5
<1>4. [k \in DOMAIN ArgsNow(a, R) |-> Lookup(map, ArgsNow(a, R)[k])] = ArgsCloned(c, u, part, R)
  <2>1. DOMAIN ArgsNow(a, R) = DOMAIN a /\ \A k \in DOMAIN a : ArgsNow(a, R)[k] = Lookup(R, a[k])
    BY DEF ArgsNow
  <2> HIDE DEF a, own
  <2>2. [k \in DOMAIN ArgsNow(a, R) |-> Lookup(map, ArgsNow(a, R)[k])]
          = [k \in DOMAIN a |-> IF a[k] \in own THEN NewValue(a[k], part) ELSE Lookup(R, a[k])]
    BY <1>3, <2>1
  <2> QED
    BY <2>2 DEF ArgsCloned, a, own
<1>5. \A o, d, b, fr :
        CloneOf([op |-> o, def |-> d, args |-> b, from |-> fr], part, map)
          = [op |-> o, def |-> IF d = NoValue THEN NoValue ELSE NewValue(d, part),
             args |-> [k \in DOMAIN b |-> Lookup(map, b[k])], from |-> fr]
  <2> TAKE o, d, b, fr
  <2> DEFINE i == [op |-> o, def |-> d, args |-> b, from |-> fr]
  <2>1. i.def = d /\ i.args = b
    OBVIOUS
  <2>2. CloneOf(i, part, map)
          = [[i EXCEPT !.def = IF d = NoValue THEN NoValue ELSE NewValue(d, part)]
               EXCEPT !.args = [k \in DOMAIN b |-> Lookup(map, b[k])]]
    <3> HIDE DEF i
    <3> QED
      BY <2>1 DEF CloneOf
  <2> QED
    BY <2>2, WithFields
<1> QED
  BY <1>4, <1>5 DEF Renamed, Cloned
-----------------------------------------------------------------------------
(* The closed form at the start, and while blocks are chosen.              *)

\* The analysis talks of the same graph.
LEMMA AnalysisGraph ==
  /\ \A g : Analysis!Reachable(g) = Reachable(g)
  /\ \A g, a, b : Analysis!Dominates(g, a, b) <=> Dominates(g, a, b)
<1>1. \A g, a : Analysis!ReachableAvoiding(g, a) = ReachableAvoiding(g, a)
  BY DEF Analysis!ReachableAvoiding, ReachableAvoiding, Analysis!Cardinality, Cardinality,
         Analysis!Range, Range
<1>2. Analysis!NoBlock = NoBlock
  BY DEF Analysis!NoBlock, NoBlock
<1>3. \A g : Analysis!Reachable(g) = Reachable(g)
  BY <1>1, <1>2 DEF Analysis!Reachable, Reachable
<1>4. \A g, a, b : Analysis!Dominates(g, a, b) <=> Dominates(g, a, b)
  BY <1>1 DEF Analysis!Dominates, Dominates
<1> QED
  BY <1>3, <1>4

LEMMA ChildrenAreDominated ==
  ASSUME NEW g, NEW p, NEW b \in Analysis!Children(g, p)
  PROVE  b \in Reachable(g) /\ p \in Reachable(g) /\ p # b /\ Dominates(g, p, b)
<1>1. b \in Reachable(g) /\ p \in Analysis!StrictDominators(g, b)
  BY AnalysisGraph DEF Analysis!Children
<1> QED
  BY <1>1, AnalysisGraph DEF Analysis!StrictDominators

\* What the closed form says of the blocks and of ReMapper.
LEMMA ClosedFacts ==
  ASSUME ClosedForm
  PROVE  /\ SplitBlocks \subseteq F0.blocks
         /\ bb # NoBlock => bb \in SplitBlocks
         /\ \A c \in F0.blocks : Reached(c) \in First(c) .. Size(c)
         /\ \A c \in F0.blocks : OwnValues(c, Reached(c)) \subseteq Defs(F0)
         /\ IsReMapper(reMapper)
         /\ \A c \in SplitBlocks : OwnValues(c, Reached(c)) \subseteq DOMAIN reMapper
<1>1. F0 \in Functions /\ SplitBlocks \subseteq F0.blocks
  BY DEF ClosedForm, SplitBlocks
<1>2. bb # NoBlock => bb \in SplitBlocks /\ Reached(bb) \in First(bb) .. Size(bb)
  BY DEF ClosedForm, MapForm
<1>3. \A c \in F0.blocks : First(c) \in Nat /\ Size(c) \in Nat /\ First(c) <= Size(c)
  BY <1>1, BlockShape
<1>4. NoBlock \notin F0.blocks
  BY <1>1, Received
<1>5. \A c \in F0.blocks : Reached(c) \in First(c) .. Size(c)
  <2> TAKE c \in F0.blocks
  <2>1. CASE c = bb
    BY <1>2, <1>4, <2>1
  <2>2. CASE c # bb
    <3>1. Reached(c) = Size(c)
      BY <2>2 DEF Reached
    <3> QED
      BY <1>3, <3>1
  <2> QED
    BY <2>1, <2>2
<1>6. \A c \in F0.blocks : OwnValues(c, Reached(c)) \subseteq Defs(F0)
  <2> TAKE c \in F0.blocks
  <2>1. Reached(c) \in Nat /\ Reached(c) <= Size(c) + 1
    BY <1>3, <1>5
  <2> QED
    BY <1>1, <2>1, OwnValuesAreDefined
<1>7. DOMAIN reMapper = Replaced /\ \A v \in Replaced : reMapper[v] = NewValue(v, "phi")
  BY DEF ClosedForm, MapForm
<1>8. \A c \in SplitBlocks : OwnValues(c, Reached(c)) \subseteq Replaced
  BY DEF Replaced
<1>9. Replaced \subseteq Defs(F0)
  BY <1>1, <1>6 DEF Replaced
<1> QED
  BY <1>1, <1>2, <1>5, <1>6, <1>7, <1>8, <1>9 DEF IsReMapper

LEMMA InitClosed == Init => ClosedForm
<1> SUFFICES ASSUME Init PROVE ClosedForm
  OBVIOUS
<1>1. /\ f \in Functions /\ worklist = <<f.entry>> /\ F0 = f
      /\ riv = [b \in {f.entry} |-> Inputs \cap IntegerValues]
      /\ selected = FALSE /\ targets = NoMap /\ reMapper = NoMap
      /\ bb = NoBlock /\ at = 1
      /\ thenVMap = NoMap /\ elseVMap = NoMap /\ toRemove = {}
  BY DEF Init, Analysis!Init, Analysis!EntryValues
<1>2. /\ F0 = [entry |-> F0.entry, blocks |-> F0.blocks, code |-> F0.code, succ |-> F0.succ]
      /\ DOMAIN F0.code = F0.blocks /\ DOMAIN F0.succ = F0.blocks
      /\ F0.entry \in F0.blocks
  BY <1>1, Received
<1>3. SplitBlocks = {}
  BY <1>1, PartNames DEF SplitBlocks
<1>4. GraphForm
  BY <1>1, <1>2, <1>3 DEF GraphForm, PartBlocks
<1>5. CodeForm
  BY <1>1, <1>3, NothingRenamed DEF CodeForm
<1>6. MapForm
  BY <1>1, <1>3 DEF MapForm, Replaced, NoMap
<1>7. ChoiceForm
  <2>1. DOMAIN riv = {F0.entry} /\ riv[F0.entry] = Inputs \cap IntegerValues
    BY <1>1
  <2>2. worklist \in Seq(DOMAIN riv)
    BY <1>1, <2>1
  <2>3. \A c : Inputs \cap IntegerValues \subseteq MayDecide(c)
    BY DEF MayDecide
  <2>4. DOMAIN targets = {}
    BY <1>1 DEF NoMap
  <2> QED
    BY <1>1, <1>2, <2>2, <2>1, <2>3, <2>4 DEF ChoiceForm
<1> QED
  BY <1>1, <1>4, <1>5, <1>6, <1>7 DEF ClosedForm

\* The function received does not change, and what is said of it neither.
LEMMA SameSource ==
  ASSUME F0' = F0
  PROVE  /\ \A c : Body(c)' = Body(c) /\ First(c)' = First(c) /\ Size(c)' = Size(c)
         /\ \A c, u : OwnValues(c, u)' = OwnValues(c, u)
         /\ \A c, u : VoidsUpTo(c, u)' = VoidsUpTo(c, u)
         /\ \A c : MayDecide(c)' = MayDecide(c)
<1>1. \A c : Body(c)' = Body(c) /\ First(c)' = First(c) /\ Size(c)' = Size(c)
  BY DEF Body, First, Size
<1>2. \A c, u : OwnValues(c, u)' = OwnValues(c, u)
  BY <1>1 DEF OwnValues
<1>3. \A c, u : VoidsUpTo(c, u)' = VoidsUpTo(c, u)
  BY <1>1 DEF VoidsUpTo
<1>4. \A c : MayDecide(c)' = MayDecide(c)
  BY DEF MayDecide
<1> QED
  BY <1>1, <1>2, <1>3, <1>4

LEMMA SameForms ==
  ASSUME F0' = F0, NEW R, NEW S
  PROVE  /\ \A c : KeptCode(c, R, S)' = KeptCode(c, R, S)
         /\ \A c, v : HeadCode(c, v, R, S)' = HeadCode(c, v, R, S)
         /\ \A c, u, part : CloneCode(c, u, part, R, S)' = CloneCode(c, u, part, R, S)
         /\ \A c, u : TailCode(c, u, R, S)' = TailCode(c, u, R, S)
         /\ \A c : PurgedCode(c, R, S)' = PurgedCode(c, R, S)
<1>1. \A c : Body(c)' = Body(c) /\ First(c)' = First(c) /\ Size(c)' = Size(c)
  BY SameSource
<1>2. \A c : KeptCode(c, R, S)' = KeptCode(c, R, S)
  BY <1>1 DEF KeptCode
<1>3. \A c, v : HeadCode(c, v, R, S)' = HeadCode(c, v, R, S)
  BY <1>1 DEF HeadCode
<1>4. \A c, u, part : CloneCode(c, u, part, R, S)' = CloneCode(c, u, part, R, S)
  <2>1. \A c, u : OwnValues(c, u)' = OwnValues(c, u)
    BY SameSource
  <2>2. \A c, i, part : ArgsCloned(c, i, part, R)' = ArgsCloned(c, i, part, R)
    BY <1>1, <2>1 DEF ArgsCloned
  <2>3. \A c, i, part : Cloned(c, i, part, R, S)' = Cloned(c, i, part, R, S)
    BY <1>1, <2>2 DEF Cloned
  <2> QED
    BY <1>1, <2>3 DEF CloneCode
<1>5. \A c, u, i : InTail(c, u, i, R, S)' = InTail(c, u, i, R, S)
  BY <1>1 DEF InTail
<1>6. \A c, u : TailCode(c, u, R, S)' = TailCode(c, u, R, S)
  BY <1>1, <1>5 DEF TailCode
<1>7. \A c : PurgedCode(c, R, S)' = PurgedCode(c, R, S)
  <2>1. \A c, u : VoidsUpTo(c, u)' = VoidsUpTo(c, u)
    BY SameSource
  <2> QED
    BY <1>1, <1>6, <2>1 DEF PurgedCode
<1> QED
  BY <1>2, <1>3, <1>4, <1>6, <1>7

\* The closed form after a step, from what the step leaves.
LEMMA CodeNext ==
  ASSUME F0' = F0,
         \A c \in F0.blocks \ SplitBlocks' : f'.code[c] = KeptCode(c, reMapper', SplitBlocks'),
         \A c \in SplitBlocks' :
           \E v \in MayDecide(c) : f'.code[c] = HeadCode(c, v, reMapper', SplitBlocks'),
         \A c \in SplitBlocks' : \A part \in {"then", "else"} :
           f'.code[NewBlock(c, part)] = CloneCode(c, Reached(c)', part, reMapper', SplitBlocks'),
         \A c \in SplitBlocks' :
           f'.code[TailOf(c)] = IF c = bb' THEN TailCode(c, Reached(c)', reMapper', SplitBlocks')
                                ELSE PurgedCode(c, reMapper', SplitBlocks')
  PROVE  CodeForm'
<1> DEFINE R == reMapper'
           S == SplitBlocks'
<1>1. /\ \A c : KeptCode(c, reMapper, SplitBlocks)' = KeptCode(c, R, S)
      /\ \A c, v : HeadCode(c, v, reMapper, SplitBlocks)' = HeadCode(c, v, R, S)
      /\ \A c, u, part : CloneCode(c, u, part, reMapper, SplitBlocks)' = CloneCode(c, u, part, R, S)
      /\ \A c, u : TailCode(c, u, reMapper, SplitBlocks)' = TailCode(c, u, R, S)
      /\ \A c : PurgedCode(c, reMapper, SplitBlocks)' = PurgedCode(c, R, S)
  BY SameForms
<1>2. \A c : MayDecide(c)' = MayDecide(c)
  BY SameSource
<1> QED
  BY <1>1, <1>2 DEF CodeForm

LEMMA GraphNext ==
  ASSUME F0' = F0,
         f' = [entry |-> F0.entry, blocks |-> f'.blocks, code |-> f'.code, succ |-> f'.succ],
         f'.blocks = F0.blocks \cup PartBlocks(SplitBlocks'),
         DOMAIN f'.code = f'.blocks, DOMAIN f'.succ = f'.blocks,
         \A c \in F0.blocks \ SplitBlocks' : f'.succ[c] = F0.succ[c],
         \A c \in SplitBlocks' :
           /\ f'.succ[c] = <<Then(c), Else(c)>>
           /\ f'.succ[Then(c)] = <<TailOf(c)>> /\ f'.succ[Else(c)] = <<TailOf(c)>>
           /\ f'.succ[TailOf(c)] = F0.succ[c]
  PROVE  GraphForm'
<1>1. PartBlocks(SplitBlocks)' = PartBlocks(SplitBlocks')
  BY DEF PartBlocks
<1>2. \A c : Then(c)' = Then(c) /\ Else(c)' = Else(c) /\ TailOf(c)' = TailOf(c)
  BY DEF Then, Else, TailOf
<1> QED
  BY <1>1, <1>2 DEF GraphForm

LEMMA SameFunction ==
  ASSUME ClosedForm,
         UNCHANGED <<F0, f, reMapper, bb, at, thenVMap, elseVMap, toRemove>>
  PROVE  /\ (F0 \in Functions /\ bb \in F0.blocks \cup {NoBlock} /\ at \in Nat)'
         /\ GraphForm' /\ CodeForm' /\ MapForm' /\ SplitBlocks' = SplitBlocks
<1>1. SplitBlocks' = SplitBlocks
  BY DEF SplitBlocks
<1>2. \A c : Reached(c)' = Reached(c)
  BY SameSource DEF Reached
<1>3. \A c, u : OwnValues(c, u)' = OwnValues(c, u) /\ VoidsUpTo(c, u)' = VoidsUpTo(c, u)
  BY SameSource
<1>4. \A c : OwnValues(c, Reached(c))' = OwnValues(c, Reached(c))
  BY <1>2, SameSource
<1>5. Replaced' = Replaced
  BY <1>1, <1>4 DEF Replaced
<1>6. GraphForm'
  <2>1. GraphForm
    BY DEF ClosedForm
  <2> QED
    BY <1>1, <2>1, GraphNext DEF GraphForm
<1>7. CodeForm'
  <2>1. CodeForm
    BY DEF ClosedForm
  <2> QED
    BY <1>1, <1>2, <2>1, CodeNext DEF CodeForm
<1>8. MapForm'
  <2>1. MapForm
    BY DEF ClosedForm
  <2>2. Reached(bb)' = Reached(bb) /\ First(bb)' = First(bb) /\ Size(bb)' = Size(bb)
    BY <1>2, SameSource
  <2>3. /\ VoidsUpTo(bb, Reached(bb))' = VoidsUpTo(bb, Reached(bb))
        /\ OwnValues(bb, Reached(bb))' = OwnValues(bb, Reached(bb))
    BY <1>2, SameSource
  <2>4. /\ DOMAIN reMapper' = Replaced'
        /\ \A v \in Replaced' : reMapper'[v] = NewValue(v, "phi")
        /\ DOMAIN thenVMap' = DOMAIN elseVMap'
    BY <1>5, <2>1 DEF MapForm
  <2> QED
    BY <1>1, <2>1, <2>2, <2>3, <2>4 DEF MapForm
<1> QED
  BY <1>1, <1>6, <1>7, <1>8 DEF ClosedForm

\* One round of the analysis: a child of a block sees what the block sees, and
\* what the block defines.
LEMMA AnalyseClosed == ClosedForm /\ Analyse => ClosedForm'
<1> SUFFICES ASSUME ClosedForm, Analyse PROVE ClosedForm'
  OBVIOUS
<1> DEFINE p == Analysis!Last(worklist)
           K == Analysis!Children(f, p)
<1>1. /\ worklist # <<>> /\ riv' = Analysis!HandDown(p)
      /\ \E order \in Analysis!Listings(K) : worklist' = Analysis!Front(worklist) \o order
      /\ UNCHANGED <<F0, f, selected, targets, reMapper, bb, at, thenVMap, elseVMap, toRemove>>
  BY DEF Analyse, Analysis!Visit
<1>2. F0 \in Functions /\ ChoiceForm
  BY DEF ClosedForm
<1>3. ~selected /\ f = F0
  BY <1>1, <1>2 DEF ChoiceForm
<1>4. ControlFlowGraph(F0) /\ Reachable(F0) \subseteq F0.blocks
  BY <1>2, Received, ReachableIsClosed
<1>5. p \in DOMAIN riv
  <2>1. p = worklist[Len(worklist)]
    BY DEF Analysis!Last
  <2>2. worklist \in Seq(DOMAIN riv)
    BY <1>2 DEF ChoiceForm
  <2> HIDE DEF p
  <2> QED
    BY <1>1, <2>1, <2>2
<1>6. K \subseteq F0.blocks
  BY <1>3, <1>4, ChildrenAreDominated
<1>7. /\ DOMAIN riv' = DOMAIN riv \cup K
      /\ \A b \in K : riv'[b] = (IF b \in DOMAIN riv THEN riv[b] ELSE {})
                                  \cup Analysis!DefinedValues(f, p) \cup riv[p]
      /\ \A b \in DOMAIN riv \ K : riv'[b] = riv[b]
  <2> HIDE DEF p
  <2> QED
    BY <1>1 DEF Analysis!HandDown
<1>8. DOMAIN riv' \subseteq F0.blocks
  BY <1>2, <1>6, <1>7 DEF ChoiceForm
<1>9. worklist' \in Seq(DOMAIN riv')
  <2>1. PICK order \in Analysis!Listings(K) : worklist' = Analysis!Front(worklist) \o order
    BY <1>1
  <2>2. \E n \in Nat : order \in [1 .. n -> K]
    <3>1. order \in [1 .. Analysis!Cardinality(K) -> K]
      <4> HIDE DEF K
      <4> QED
        BY DEF Analysis!Listings
    <3>2. Analysis!Cardinality(K) = Cardinality(K)
      BY DEF Analysis!Cardinality, Cardinality
    <3>3. IsFiniteSet(F0.blocks)
      BY <1>2, Received
    <3>4. Cardinality(K) \in Nat
      <4> HIDE DEF K
      <4> QED
        BY <1>6, <3>3, FS_Subset, FS_CardinalityType
    <3> QED
      BY <3>1, <3>2, <3>4
  <2>3. order \in Seq(K)
    BY <2>2
  <2>4. Analysis!Front(worklist) \in Seq(DOMAIN riv)
    <3>1. worklist \in Seq(DOMAIN riv)
      BY <1>2 DEF ChoiceForm
    <3>2. Analysis!Front(worklist) = SubSeq(worklist, 1, Len(worklist) - 1)
      BY DEF Analysis!Front
    <3>3. Len(worklist) \in Nat /\ \A i \in 1 .. Len(worklist) - 1 : worklist[i] \in DOMAIN riv
      BY <3>1
    <3> QED
      BY <3>2, <3>3, SubSeqProperties
  <2>5. order \in Seq(DOMAIN riv') /\ Analysis!Front(worklist) \in Seq(DOMAIN riv')
    <3> HIDE DEF K
    <3> QED
      BY <1>7, <2>3, <2>4
  <2> QED
    BY <2>1, <2>5, ConcatProperties
<1>10. ASSUME NEW b \in DOMAIN riv', NEW v \in riv'[b]
       PROVE  v \in MayDecide(b)
  <2>1. CASE b \in DOMAIN riv /\ v \in riv[b]
    BY <1>2, <2>1 DEF ChoiceForm
  <2>2. CASE b \in K /\ v \in Analysis!DefinedValues(f, p)
    <3>1. p \in F0.blocks /\ p # b /\ Dominates(F0, p, b)
      BY <1>3, <1>4, <2>2, ChildrenAreDominated
    <3>2. v \in IntegerValues /\ \E i \in DOMAIN F0.code[p] : F0.code[p][i].def = v
      <4> HIDE DEF p
      <4> QED
        BY <1>3, <2>2 DEF Analysis!DefinedValues
    <3>3. Above(F0, b, v)
      <4> HIDE DEF p
      <4> QED
        BY <3>1, <3>2 DEF Above
    <3> QED
      BY <3>2, <3>3 DEF MayDecide
  <2>3. CASE b \in K /\ v \in riv[p]
    <3>1. /\ p \in Reachable(F0) /\ b \in Reachable(F0)
          /\ p # b /\ Dominates(F0, p, b)
      BY <1>3, <2>3, ChildrenAreDominated
    <3>2. v \in MayDecide(p)
      BY <1>2, <1>5, <2>3 DEF ChoiceForm
    <3>3. Above(F0, p, v) => Above(F0, b, v)
      <4> SUFFICES ASSUME Above(F0, p, v) PROVE Above(F0, b, v)
        OBVIOUS
      <4>1. PICK a \in F0.blocks : /\ a # p /\ Dominates(F0, a, p)
                                   /\ \E i \in DOMAIN F0.code[a] : F0.code[a][i].def = v
        BY DEF Above
      <4> HIDE DEF p
      <4>2. Dominates(F0, a, b)
        BY <1>4, <3>1, <4>1, DominanceIsTransitive
      <4>3. a # b
        BY <1>4, <3>1, <4>1, DominanceIsAntisymmetric
      <4> QED
        BY <4>1, <4>2, <4>3 DEF Above
    <3> QED
      BY <3>2, <3>3 DEF MayDecide
  <2> HIDE DEF p, K
  <2> QED
    BY <1>7, <2>1, <2>2, <2>3
<1>11. ChoiceForm'
  <2>1. SplitBlocks' = SplitBlocks
    BY <1>1 DEF SplitBlocks
  <2>2. \A b : MayDecide(b)' = MayDecide(b)
    BY <1>1, SameSource
  <2>3. ~selected' /\ f' = F0' /\ bb' = NoBlock /\ targets' = NoMap
    BY <1>1, <1>2, <1>3 DEF ChoiceForm
  <2>4. DOMAIN targets' = {}
    BY <2>3 DEF NoMap
  <2> QED
    BY <1>1, <1>8, <1>9, <1>10, <2>1, <2>2, <2>3, <2>4 DEF ChoiceForm
<1> QED
  BY <1>1, <1>11, SameFunction DEF ClosedForm

LEMMA FindClosed == ClosedForm /\ FindBBsToDuplicate => ClosedForm'
<1> SUFFICES ASSUME ClosedForm, FindBBsToDuplicate PROVE ClosedForm'
  OBVIOUS
<1>1. /\ worklist = <<>> /\ ~selected /\ selected' = TRUE
      /\ UNCHANGED <<F0, f, worklist, riv, reMapper, bb, at, thenVMap, elseVMap, toRemove>>
  BY DEF FindBBsToDuplicate, Analysis!Done
<1>2. F0 \in Functions /\ ChoiceForm
  BY DEF ClosedForm
<1>3. f = F0 /\ SplitBlocks = {}
  BY <1>1, <1>2, PartNames DEF ChoiceForm, SplitBlocks
<1>4. DOMAIN targets' \subseteq F0.blocks /\ \A b \in DOMAIN targets' : targets'[b] \in MayDecide(b)
  <2> DEFINE candidates == {b \in f.blocks : ~IsLandingPad(b) /\ HasReachableValues(b)}
  <2>1. \E pick \in [candidates -> IntegerValues] :
          /\ \A b \in candidates : pick[b] \in riv[b]
          /\ targets' = [b \in {c \in candidates : pick[c] \notin GlobalValues} |-> pick[b]]
    BY DEF FindBBsToDuplicate
  <2>2. \A b \in candidates : b \in F0.blocks /\ b \in DOMAIN riv
    BY <1>3 DEF HasReachableValues
  <2>3. \A b \in DOMAIN riv : riv[b] \subseteq MayDecide(b)
    BY <1>2 DEF ChoiceForm
  <2> HIDE DEF candidates
  <2> QED
    BY <2>1, <2>2, <2>3
<1>5. ChoiceForm'
  <2>1. SplitBlocks' = {}
    BY <1>1, <1>3 DEF SplitBlocks
  <2>2. \A b : MayDecide(b)' = MayDecide(b)
    BY <1>1, SameSource
  <2> QED
    BY <1>1, <1>2, <1>4, <2>1, <2>2 DEF ChoiceForm
<1> QED
  BY <1>1, <1>5, SameFunction DEF ClosedForm
-----------------------------------------------------------------------------
(* The closed form while blocks are cloned.                                *)

\* Nothing is replaced yet at the first position that is no PHI.
LEMMA NothingBehindPhis ==
  ASSUME F0 \in Functions, NEW c \in F0.blocks
  PROVE  OwnValues(c, First(c)) = {} /\ VoidsUpTo(c, First(c)) = {}
<1>1. First(c) \in Nat /\ First(c) .. First(c) - 1 = {} /\ 1 .. First(c) - First(c) = {}
  BY BlockShape
<1> QED
  BY <1>1 DEF OwnValues, VoidsUpTo

\* SplitOn, block by block.
Apart(b) ==
  b \in f.blocks \ {Then(b), Else(b), TailOf(b)} /\ TailOf(b) \notin {Then(b), Else(b)}

LEMMA SplitFields ==
  ASSUME NEW b, NEW v, Apart(b)
  PROVE  LET g == SplitOn(b, v) IN
         /\ g = [entry |-> g.entry, blocks |-> g.blocks, code |-> g.code, succ |-> g.succ]
         /\ g.entry = f.entry
         /\ g.blocks = f.blocks \cup {Then(b), Else(b), TailOf(b)}
         /\ DOMAIN g.code = g.blocks /\ DOMAIN g.succ = g.blocks
         /\ \A c \in f.blocks \ {b, Then(b), Else(b), TailOf(b)} :
              g.code[c] = MovedCode(f.code[c], b) /\ g.succ[c] = f.succ[c]
         /\ g.succ[b] = <<Then(b), Else(b)>> /\ g.succ[TailOf(b)] = f.succ[b]
         /\ g.succ[Then(b)] = <<TailOf(b)>> /\ g.succ[Else(b)] = <<TailOf(b)>>
<1> DEFINE moved == [c \in f.blocks |-> MovedCode(f.code[c], b)]
           bbHead == FirstNonPhi(f.code[b])
           blocks == f.blocks \cup {Then(b), Else(b), TailOf(b)}
           code == [c \in blocks |->
                      CASE c = b -> SubSeq(moved[b], 1, bbHead - 1) \o <<IsNull(b, v), IfNull(b)>>
                        [] c = TailOf(b) -> SubSeq(moved[b], bbHead, Len(moved[b]))
                        [] c \in {Then(b), Else(b)} -> <<Jump>>
                        [] OTHER -> moved[c]]
           succ == [c \in blocks |->
                      CASE c = b -> <<Then(b), Else(b)>>
                        [] c = TailOf(b) -> f.succ[b]
                        [] c \in {Then(b), Else(b)} -> <<TailOf(b)>>
                        [] OTHER -> f.succ[c]]
<1>1. SplitOn(b, v) = [entry |-> f.entry, blocks |-> blocks, code |-> code, succ |-> succ]
  BY DEF SplitOn, MoveIncoming, MovedCode, MovedFrom
<1>2. DOMAIN code = blocks /\ DOMAIN succ = blocks
  OBVIOUS
<1>3. \A c \in f.blocks \ {b, Then(b), Else(b), TailOf(b)} :
        code[c] = MovedCode(f.code[c], b) /\ succ[c] = f.succ[c]
  OBVIOUS
<1>4. /\ succ[b] = <<Then(b), Else(b)>> /\ succ[TailOf(b)] = f.succ[b]
      /\ succ[Then(b)] = <<TailOf(b)>> /\ succ[Else(b)] = <<TailOf(b)>>
  BY DEF Apart
<1> HIDE DEF moved, code, succ, blocks, bbHead
<1> DEFINE g == SplitOn(b, v)
<1>5. /\ g = [entry |-> g.entry, blocks |-> g.blocks, code |-> g.code, succ |-> g.succ]
      /\ g.entry = f.entry /\ g.blocks = blocks /\ g.code = code /\ g.succ = succ
  BY <1>1
<1> HIDE DEF g
<1> QED
  BY <1>2, <1>3, <1>4, <1>5 DEF g, blocks

LEMMA SplitCode ==
  ASSUME NEW b, NEW v, Apart(b)
  PROVE  LET g == SplitOn(b, v)
             moved == MovedCode(f.code[b], b)
             bbHead == FirstNonPhi(f.code[b]) IN
         /\ g.code[b] = SubSeq(moved, 1, bbHead - 1) \o <<IsNull(b, v), IfNull(b)>>
         /\ g.code[TailOf(b)] = SubSeq(moved, bbHead, Len(moved))
         /\ g.code[Then(b)] = <<Jump>> /\ g.code[Else(b)] = <<Jump>>
<1> DEFINE moved == [c \in f.blocks |-> MovedCode(f.code[c], b)]
           bbHead == FirstNonPhi(f.code[b])
           blocks == f.blocks \cup {Then(b), Else(b), TailOf(b)}
           code == [c \in blocks |->
                      CASE c = b -> SubSeq(moved[b], 1, bbHead - 1) \o <<IsNull(b, v), IfNull(b)>>
                        [] c = TailOf(b) -> SubSeq(moved[b], bbHead, Len(moved[b]))
                        [] c \in {Then(b), Else(b)} -> <<Jump>>
                        [] OTHER -> moved[c]]
           succ == [c \in blocks |->
                      CASE c = b -> <<Then(b), Else(b)>>
                        [] c = TailOf(b) -> f.succ[b]
                        [] c \in {Then(b), Else(b)} -> <<TailOf(b)>>
                        [] OTHER -> f.succ[c]]
<1>1. SplitOn(b, v) = [entry |-> f.entry, blocks |-> blocks, code |-> code, succ |-> succ]
  BY DEF SplitOn, MoveIncoming, MovedCode, MovedFrom
<1>2. moved[b] = MovedCode(f.code[b], b)
  BY DEF Apart
<1>3. /\ code[b] = SubSeq(moved[b], 1, bbHead - 1) \o <<IsNull(b, v), IfNull(b)>>
      /\ code[TailOf(b)] = SubSeq(moved[b], bbHead, Len(moved[b]))
      /\ code[Then(b)] = <<Jump>> /\ code[Else(b)] = <<Jump>>
  BY DEF Apart
<1> HIDE DEF moved, code, succ, blocks
<1>4. SplitOn(b, v).code = code
  BY <1>1
<1> QED
  BY <1>2, <1>3, <1>4

\* The blocks made so far are the parts of the split blocks.
LEMMA MadeBlocks ==
  ASSUME ClosedForm
  PROVE  /\ F0.blocks \subseteq f.blocks
         /\ \A x \in f.blocks \ F0.blocks : \E c \in SplitBlocks : x \in {Then(c), Else(c), TailOf(c)}
         /\ \A c \in F0.blocks :
              /\ (Then(c) \in f.blocks <=> c \in SplitBlocks)
              /\ (Else(c) \in f.blocks <=> c \in SplitBlocks)
              /\ (TailOf(c) \in f.blocks <=> c \in SplitBlocks)
<1>1. F0 \in Functions /\ f.blocks = F0.blocks \cup PartBlocks(SplitBlocks)
  BY DEF ClosedForm, GraphForm
<1>2. \A x \in PartBlocks(SplitBlocks) :
        \E c \in SplitBlocks : x \in {Then(c), Else(c), TailOf(c)}
  BY DEF PartBlocks, Parts, Then, Else, TailOf
<1>3. \A c \in SplitBlocks : {Then(c), Else(c), TailOf(c)} \subseteq PartBlocks(SplitBlocks)
  BY DEF PartBlocks, Parts, Then, Else, TailOf
<1>4. SplitBlocks \subseteq F0.blocks
  BY DEF SplitBlocks
<1>5. ASSUME NEW c \in F0.blocks, c \notin SplitBlocks
      PROVE  Then(c) \notin f.blocks /\ Else(c) \notin f.blocks /\ TailOf(c) \notin f.blocks
  <2>1. Then(c) \notin F0.blocks /\ Else(c) \notin F0.blocks /\ TailOf(c) \notin F0.blocks
    BY <1>1, PartNames
  <2>2. \A d \in SplitBlocks :
          /\ Then(c) \notin {Then(d), Else(d), TailOf(d)}
          /\ Else(c) \notin {Then(d), Else(d), TailOf(d)}
          /\ TailOf(c) \notin {Then(d), Else(d), TailOf(d)}
    BY <1>1, <1>4, <1>5, PartNames
  <2> QED
    BY <1>1, <1>2, <2>1, <2>2
<1> QED
  BY <1>1, <1>2, <1>3, <1>5

LEMMA SplitClosed ==
  ASSUME ClosedForm, NEW b \in f.blocks, Split(b)
  PROVE  ClosedForm'
<1> DEFINE S == SplitBlocks
           T == S \cup {b}
           R == reMapper
           v == targets[b]
           new == {Then(b), Else(b), TailOf(b)}
<1>1. /\ selected /\ bb = NoBlock /\ b \in DOMAIN targets
      /\ f' = SplitOn(b, Lookup(R, v))
      /\ targets' = [c \in DOMAIN targets \ {b} |-> targets[c]]
      /\ bb' = b /\ at' = 1
      /\ thenVMap' = NoMap /\ elseVMap' = NoMap /\ toRemove' = {}
      /\ UNCHANGED <<F0, worklist, riv, selected, reMapper>>
  BY DEF Split
<1>2. F0 \in Functions /\ GraphForm /\ CodeForm /\ MapForm /\ ChoiceForm
  BY DEF ClosedForm
<1>3. b \in F0.blocks \ S /\ v \in MayDecide(b) /\ S \subseteq F0.blocks
  BY <1>1, <1>2, ClosedFacts DEF ChoiceForm
<1>4. NoBlock \notin F0.blocks
  BY <1>2, Received
<1>5. /\ b \notin new /\ new \cap f.blocks = {} /\ TailOf(b) \notin {Then(b), Else(b)}
      /\ \A c \in F0.blocks : TailOf(c) \in new => c = b
      /\ Apart(b)
  BY <1>2, <1>3, MadeBlocks, PartNames DEF Apart
<1>6. Splitting(S, b, T)
  BY <1>3 DEF Splitting
<1> HIDE DEF S, R, v, new
<1>7. /\ f'.entry = f.entry
      /\ f' = [entry |-> f'.entry, blocks |-> f'.blocks, code |-> f'.code, succ |-> f'.succ]
      /\ f'.blocks = f.blocks \cup new
      /\ DOMAIN f'.code = f'.blocks /\ DOMAIN f'.succ = f'.blocks
      /\ \A c \in f.blocks \ {b} : f'.code[c] = MovedCode(f.code[c], b) /\ f'.succ[c] = f.succ[c]
  BY <1>1, <1>5, SplitFields DEF new
<1>8. /\ f.code[b] = KeptCode(b, R, S) /\ FirstNonPhi(f.code[b]) = First(b)
      /\ MovedCode(f.code[b], b) = KeptCode(b, R, T)
      /\ Len(KeptCode(b, R, T)) = Size(b)
  <2>1. f.code[b] = KeptCode(b, R, S)
    BY <1>2, <1>3 DEF CodeForm, S, R
  <2>2. MovedCode(KeptCode(b, R, S), b) = KeptCode(b, R, T)
    BY <1>2, <1>3, <1>6, MovedKept
  <2> QED
    BY <1>2, <1>3, <2>1, <2>2, KeptShape
<1>9. /\ f'.code[b] = HeadCode(b, v, R, T)
      /\ f'.code[TailOf(b)] = TailCode(b, First(b), R, T)
      /\ f'.code[Then(b)] = <<Jump>> /\ f'.code[Else(b)] = <<Jump>>
      /\ f'.succ[b] = <<Then(b), Else(b)>> /\ f'.succ[TailOf(b)] = f.succ[b]
      /\ f'.succ[Then(b)] = <<TailOf(b)>> /\ f'.succ[Else(b)] = <<TailOf(b)>>
  <2>1. /\ f'.code[b] = SubSeq(KeptCode(b, R, T), 1, First(b) - 1)
                          \o <<IsNull(b, Lookup(R, v)), IfNull(b)>>
        /\ f'.code[TailOf(b)] = SubSeq(KeptCode(b, R, T), First(b), Size(b))
        /\ f'.code[Then(b)] = <<Jump>> /\ f'.code[Else(b)] = <<Jump>>
    BY <1>1, <1>5, <1>8, SplitCode
  <2>2. SubSeq(KeptCode(b, R, T), 1, First(b) - 1) \o <<IsNull(b, Lookup(R, v)), IfNull(b)>>
          = HeadCode(b, v, R, T)
    BY <1>2, <1>3, SplitHead
  <2>3. SubSeq(KeptCode(b, R, T), First(b), Size(b)) = TailCode(b, First(b), R, T)
    BY <1>2, <1>3, SplitTail
  <2>4. /\ f'.succ[b] = <<Then(b), Else(b)>> /\ f'.succ[TailOf(b)] = f.succ[b]
        /\ f'.succ[Then(b)] = <<TailOf(b)>> /\ f'.succ[Else(b)] = <<TailOf(b)>>
    BY <1>1, <1>5, SplitFields
  <2> QED
    BY <2>1, <2>2, <2>3, <2>4
<1>10. SplitBlocks' = T
  <2>1. SplitBlocks' = {c \in F0.blocks : TailOf(c) \in f'.blocks}
    BY <1>1 DEF SplitBlocks
  <2>2. S = {c \in F0.blocks : TailOf(c) \in f.blocks}
    BY DEF SplitBlocks, S
  <2>3. TailOf(b) \in new
    BY DEF new
  <2> QED
    BY <1>3, <1>5, <1>7, <2>1, <2>2, <2>3
<1>11. /\ Reached(b)' = First(b)
       /\ \A c \in S : c # b /\ Reached(c) = Size(c) /\ Reached(c)' = Size(c)
  <2>1. First(b) \in Nat
    BY <1>2, <1>3, BlockShape
  <2>2. \A c : First(c)' = First(c) /\ Size(c)' = Size(c)
    BY <1>1, SameSource
  <2>3. Reached(b)' = First(b) + 1 - 1
    BY <1>1, <2>2 DEF Reached
  <2>4. \A c \in S : c # b /\ c # NoBlock
    BY <1>3, <1>4
  <2> QED
    BY <1>1, <2>1, <2>2, <2>3, <2>4 DEF Reached
<1>12. GraphForm'
  <2>1. f.entry = F0.entry /\ f.blocks = F0.blocks \cup PartBlocks(S)
    BY <1>2 DEF GraphForm, S
  <2>2. PartBlocks(T) = PartBlocks(S) \cup new
    BY DEF PartBlocks, Parts, Then, Else, TailOf, new
  <2>3. /\ \A c \in F0.blocks \ S : f.succ[c] = F0.succ[c]
        /\ \A c \in S : /\ f.succ[c] = <<Then(c), Else(c)>>
                        /\ f.succ[Then(c)] = <<TailOf(c)>> /\ f.succ[Else(c)] = <<TailOf(c)>>
                        /\ f.succ[TailOf(c)] = F0.succ[c]
    BY <1>2 DEF GraphForm, S
  <2>4. \A c \in S : {c, Then(c), Else(c), TailOf(c)} \subseteq f.blocks \ {b}
    BY <1>2, <1>3, MadeBlocks, PartNames DEF S
  <2>5. F0.blocks \subseteq f.blocks
    BY MadeBlocks
  <2>6. \A c \in F0.blocks \ T : f'.succ[c] = F0.succ[c]
    BY <1>7, <2>3, <2>5
  <2>7. \A c \in T : /\ f'.succ[c] = <<Then(c), Else(c)>>
                     /\ f'.succ[Then(c)] = <<TailOf(c)>> /\ f'.succ[Else(c)] = <<TailOf(c)>>
                     /\ f'.succ[TailOf(c)] = F0.succ[c]
    BY <1>3, <1>7, <1>9, <2>3, <2>4
  <2> HIDE DEF T
  <2> QED
    BY <1>1, <1>7, <1>10, <2>1, <2>2, <2>6, <2>7, GraphNext
<1>13. CodeForm'
  <2>1. \A c \in F0.blocks \ T : f'.code[c] = KeptCode(c, R, T)
    <3> TAKE c \in F0.blocks \ T
    <3>1. c \in f.blocks \ {b} /\ f.code[c] = KeptCode(c, R, S)
      BY <1>2, MadeBlocks DEF CodeForm, S, R
    <3>2. MovedCode(KeptCode(c, R, S), b) = KeptCode(c, R, T)
      BY <1>2, <1>6, MovedKept
    <3> QED
      BY <1>7, <3>1, <3>2
  <2>2. ASSUME NEW c \in S
        PROVE  /\ \E w \in MayDecide(c) : f'.code[c] = HeadCode(c, w, R, T)
               /\ \A part \in {"then", "else"} :
                    f'.code[NewBlock(c, part)] = CloneCode(c, Reached(c)', part, R, T)
               /\ f'.code[TailOf(c)] = PurgedCode(c, R, T)
    <3>1. c \in F0.blocks /\ c # b
      BY <1>3
    <3>2. {c, Then(c), Else(c), TailOf(c)} \subseteq f.blocks \ {b}
      BY <1>2, <1>3, MadeBlocks, PartNames DEF S
    <3>3. Size(c) \in First(c) .. Size(c)
      BY <1>2, <3>1, BlockShape
    <3>4. /\ \E w \in MayDecide(c) : f.code[c] = HeadCode(c, w, R, S)
          /\ \A part \in {"then", "else"} :
               f.code[NewBlock(c, part)] = CloneCode(c, Size(c), part, R, S)
          /\ f.code[TailOf(c)] = PurgedCode(c, R, S)
      <4>1. Reached(c) = Size(c) /\ c # bb
        BY <1>1, <1>4, <1>11, <3>1
      <4> QED
        BY <1>2, <4>1 DEF CodeForm, S, R
    <3>5. /\ \A w : MovedCode(HeadCode(c, w, R, S), b) = HeadCode(c, w, R, T)
          /\ \A part : MovedCode(CloneCode(c, Size(c), part, R, S), b) = CloneCode(c, Size(c), part, R, T)
          /\ MovedCode(PurgedCode(c, R, S), b) = PurgedCode(c, R, T)
      BY <1>2, <1>6, <3>1, <3>3, MovedHead, MovedClone, MovedPurged
    <3>6. \A part \in {"then", "else"} : NewBlock(c, part) \in f.blocks \ {b}
      BY <3>2 DEF Then, Else
    <3> HIDE DEF T
    <3> QED
      BY <1>7, <1>11, <3>2, <3>4, <3>5, <3>6
  <2>3. \A part \in {"then", "else"} : f'.code[NewBlock(b, part)] = CloneCode(b, First(b), part, R, T)
    <3>1. \A part : CloneCode(b, First(b), part, R, T) = <<Jump>>
      BY <1>2, <1>3, SplitClone
    <3> HIDE DEF T
    <3> QED
      BY <1>9, <3>1 DEF Then, Else
  <2>4. \A c \in S : c # b
    BY <1>3
  <2>5. \A c \in T : \E w \in MayDecide(c) : f'.code[c] = HeadCode(c, w, R, T)
    BY <1>3, <1>9, <2>2
  <2>6. \A c \in T : \A part \in {"then", "else"} :
          f'.code[NewBlock(c, part)] = CloneCode(c, Reached(c)', part, R, T)
    BY <1>11, <2>2, <2>3
  <2>7. \A c \in T : f'.code[TailOf(c)] = IF c = b THEN TailCode(c, Reached(c)', R, T)
                                        ELSE PurgedCode(c, R, T)
    BY <1>9, <1>11, <2>2, <2>4
  <2> HIDE DEF T
  <2>8. R = reMapper'
    BY <1>1 DEF R
  <2> QED
    BY <1>1, <1>10, <2>1, <2>5, <2>6, <2>7, <2>8, CodeNext
<1>14. OwnValues(b, First(b)) = {} /\ VoidsUpTo(b, First(b)) = {}
  BY <1>2, <1>3, NothingBehindPhis
<1>15. Replaced' = Replaced
  <2>1. \A c, u : OwnValues(c, u)' = OwnValues(c, u)
    BY <1>1, SameSource
  <2>2. OwnValues(b, Reached(b))' = {}
    <3>1. OwnValues(b, Reached(b))' = OwnValues(b, Reached(b)')
      BY <1>1, SameSource DEF OwnValues
    <3> QED
      BY <1>11, <1>14, <3>1
  <2>3. \A c \in S : OwnValues(c, Reached(c))' = OwnValues(c, Reached(c))
    <3> TAKE c \in S
    <3>1. OwnValues(c, Reached(c))' = OwnValues(c, Reached(c)')
      BY <1>1, SameSource DEF OwnValues
    <3> QED
      BY <1>11, <3>1
  <2> QED
    BY <1>10, <2>2, <2>3 DEF Replaced, S
<1>16. MapForm'
  <2>1. /\ DOMAIN reMapper' = Replaced'
        /\ \A u \in Replaced' : reMapper'[u] = NewValue(u, "phi")
    BY <1>1, <1>2, <1>15 DEF MapForm
  <2>2. bb' \in SplitBlocks'
    BY <1>1, <1>10
  <2>3. Reached(bb)' = First(b) /\ First(bb)' = First(b) /\ Size(bb)' = Size(b)
    BY <1>1, <1>11, SameSource DEF Reached
  <2>4. OwnValues(bb, Reached(bb))' = {} /\ VoidsUpTo(bb, Reached(bb))' = {}
    <3>1. /\ OwnValues(bb, Reached(bb))' = OwnValues(b, Reached(bb)')
          /\ VoidsUpTo(bb, Reached(bb))' = VoidsUpTo(b, Reached(bb)')
      BY <1>1, SameSource DEF OwnValues, VoidsUpTo
    <3> QED
      BY <1>14, <2>3, <3>1
  <2>5. First(b) \in First(b) .. Size(b)
    BY <1>2, <1>3, BlockShape
  <2> QED
    BY <1>1, <2>1, <2>2, <2>3, <2>4, <2>5 DEF MapForm, NoMap
<1>17. ChoiceForm'
  <2>1. \A c : MayDecide(c)' = MayDecide(c)
    BY <1>1, SameSource
  <2>2. /\ DOMAIN targets' = DOMAIN targets \ {b}
        /\ \A c \in DOMAIN targets' : targets'[c] = targets[c]
    BY <1>1
  <2> QED
    BY <1>1, <1>2, <1>10, <2>1, <2>2 DEF ChoiceForm, S
<1> QED
  BY <1>1, <1>2, <1>3, <1>12, <1>13, <1>16, <1>17 DEF ClosedForm

\* What the iterator points at, and what the tail is, while a block is cloned.
LEMMA TailShape ==
  ASSUME ClosedForm, bb # NoBlock
  PROVE  /\ bb \in F0.blocks /\ bb \in SplitBlocks
         /\ at = Reached(bb) - First(bb) + 1
         /\ Reached(bb) \in First(bb) .. Size(bb)
         /\ f.code[TailOf(bb)] = TailCode(bb, Reached(bb), reMapper, SplitBlocks)
         /\ Len(f.code[TailOf(bb)]) = Size(bb) - First(bb) + 1
         /\ DOMAIN f.code[TailOf(bb)] = 1 .. Size(bb) - First(bb) + 1
<1> DEFINE s == TailCode(bb, Reached(bb), reMapper, SplitBlocks)
           n == Size(bb) - First(bb) + 1
<1>1. /\ F0 \in Functions /\ bb \in F0.blocks /\ bb \in SplitBlocks /\ at \in Nat
      /\ Reached(bb) \in First(bb) .. Size(bb)
  BY ClosedFacts DEF ClosedForm
<1>2. First(bb) \in 1 .. Size(bb) /\ Size(bb) \in Nat
  BY <1>1, BlockShape
<1>3. Reached(bb) = First(bb) + at - 1
  BY DEF Reached
<1>4. f.code[TailOf(bb)] = s
  BY <1>1 DEF ClosedForm, CodeForm
<1>5. Len(s) = n /\ DOMAIN s = 1 .. n
  <2>1. s = [k \in 1 .. n |-> s[k]]
    BY DEF TailCode
  <2>2. n \in Nat
    BY <1>2
  <2> HIDE DEF s, n
  <2> QED
    BY <2>1, <2>2, ListOf
<1>6. at = Reached(bb) - First(bb) + 1
  BY <1>1, <1>2, <1>3
<1> QED
  BY <1>1, <1>4, <1>5, <1>6

\* A step that changes the code of some blocks and no edge.
LEMMA SameGraph ==
  ASSUME ClosedForm, F0' = F0, NEW code, f' = [f EXCEPT !.code = code], DOMAIN code = f.blocks
  PROVE  /\ f'.code = code /\ f'.blocks = f.blocks
         /\ SplitBlocks' = SplitBlocks /\ GraphForm'
<1>1. GraphForm
  BY DEF ClosedForm
<1>2. f = [entry |-> F0.entry, blocks |-> f.blocks, code |-> f.code, succ |-> f.succ]
  BY <1>1 DEF GraphForm
<1>3. f' = [entry |-> F0.entry, blocks |-> f.blocks, code |-> code, succ |-> f.succ]
  BY <1>2
<1>4. f'.code = code /\ f'.blocks = f.blocks /\ f'.succ = f.succ
  BY <1>3
<1>5. SplitBlocks' = SplitBlocks
  BY <1>4 DEF SplitBlocks
<1>6. GraphForm'
  <2>1. /\ f' = [entry |-> F0.entry, blocks |-> f'.blocks, code |-> f'.code, succ |-> f'.succ]
        /\ DOMAIN f'.code = f'.blocks
    BY <1>3, <1>4
  <2>2. f'.blocks = F0.blocks \cup PartBlocks(SplitBlocks') /\ DOMAIN f'.succ = f'.blocks
    BY <1>1, <1>4, <1>5 DEF GraphForm
  <2>3. /\ \A c \in F0.blocks \ SplitBlocks' : f'.succ[c] = F0.succ[c]
        /\ \A c \in SplitBlocks' :
             /\ f'.succ[c] = <<Then(c), Else(c)>>
             /\ f'.succ[Then(c)] = <<TailOf(c)>> /\ f'.succ[Else(c)] = <<TailOf(c)>>
             /\ f'.succ[TailOf(c)] = F0.succ[c]
    BY <1>1, <1>4, <1>5 DEF GraphForm
  <2> QED
    BY <2>1, <2>2, <2>3, GraphNext
<1> QED
  BY <1>4, <1>5, <1>6

LEMMA PurgeClosed == ClosedForm /\ Purge => ClosedForm'
<1> SUFFICES ASSUME ClosedForm, Purge PROVE ClosedForm'
  OBVIOUS
<1> DEFINE S == SplitBlocks
           R == reMapper
           c == bb
<1>1. /\ c # NoBlock /\ at = Len(f.code[TailOf(c)])
      /\ f' = [f EXCEPT !.code[TailOf(c)] = Without(@, toRemove)]
      /\ bb' = NoBlock
      /\ UNCHANGED <<F0, worklist, riv, selected, targets, reMapper, at, thenVMap, elseVMap, toRemove>>
  BY DEF Purge, AtTerminator
<1>2. /\ F0 \in Functions /\ GraphForm /\ CodeForm /\ MapForm /\ ChoiceForm
      /\ S \subseteq F0.blocks /\ at \in Nat
  BY ClosedFacts DEF ClosedForm
<1>3. NoBlock \notin F0.blocks
  BY <1>2, Received
<1>4. c \in F0.blocks /\ c \in S /\ Reached(c) = Size(c)
  <2>1. First(c) \in Nat /\ Size(c) \in Nat
    BY <1>1, <1>2, TailShape, BlockShape
  <2> QED
    BY <1>1, <2>1, TailShape
<1>5. f.code[TailOf(c)] = TailCode(c, Size(c), R, S) /\ toRemove = VoidsUpTo(c, Size(c))
  BY <1>1, <1>2, <1>4, TailShape DEF MapForm
<1>6. Without(f.code[TailOf(c)], toRemove) = PurgedCode(c, R, S)
  BY <1>5 DEF PurgedCode
<1>7. /\ f.blocks = DOMAIN f.code /\ TailOf(c) \in f.blocks
      /\ f = [entry |-> F0.entry, blocks |-> f.blocks, code |-> f.code, succ |-> f.succ]
  BY <1>2, <1>4, MadeBlocks DEF GraphForm
<1> DEFINE code == [f.code EXCEPT ![TailOf(c)] = PurgedCode(c, R, S)]
<1>8. /\ f' = [f EXCEPT !.code = code] /\ DOMAIN code = f.blocks
      /\ code[TailOf(c)] = PurgedCode(c, R, S)
      /\ \A x \in f.blocks \ {TailOf(c)} : code[x] = f.code[x]
  BY <1>1, <1>6, <1>7
<1> HIDE DEF code
<1>9. f'.code = code /\ f'.blocks = f.blocks /\ SplitBlocks' = S /\ GraphForm'
  BY <1>1, <1>8, SameGraph
<1>10. \A e \in F0.blocks : Reached(e)' = Reached(e)
  <2> TAKE e \in F0.blocks
  <2>1. Reached(e)' = Size(e)
    BY <1>1, <1>3, SameSource DEF Reached
  <2>2. Reached(e) = Size(e)
    BY <1>4 DEF Reached
  <2> QED
    BY <2>1, <2>2
<1>11. CodeForm'
  <2>1. \A e \in F0.blocks \ S : f'.code[e] = KeptCode(e, R, S)
    BY <1>2, <1>4, <1>8, <1>9, MadeBlocks, PartNames DEF CodeForm
  <2>2. \A e \in S : e # TailOf(c) /\ Then(e) # TailOf(c) /\ Else(e) # TailOf(c)
                     /\ {e, Then(e), Else(e), TailOf(e)} \subseteq f.blocks
                     /\ (e # c => TailOf(e) # TailOf(c))
    BY <1>2, <1>4, MadeBlocks, PartNames
  <2>3. \A e \in S : \E v \in MayDecide(e) : f'.code[e] = HeadCode(e, v, R, S)
    BY <1>2, <1>8, <1>9, <2>2 DEF CodeForm
  <2>4. \A e \in S : \A part \in {"then", "else"} :
          f'.code[NewBlock(e, part)] = CloneCode(e, Reached(e)', part, R, S)
    <3>1. \A e \in S : \A part \in {"then", "else"} :
            NewBlock(e, part) \in f.blocks \ {TailOf(c)}
      BY <2>2 DEF Then, Else
    <3> QED
      BY <1>2, <1>8, <1>9, <1>10, <3>1 DEF CodeForm
  <2>5. \A e \in S : f'.code[TailOf(e)] = PurgedCode(e, R, S) /\ e # NoBlock
    BY <1>2, <1>3, <1>8, <1>9, <2>2 DEF CodeForm
  <2> QED
    BY <1>1, <1>9, <2>1, <2>3, <2>4, <2>5, CodeNext
<1>12. Replaced' = Replaced
  <2>1. \A e \in S : OwnValues(e, Reached(e))' = OwnValues(e, Reached(e))
    <3> TAKE e \in S
    <3>1. OwnValues(e, Reached(e))' = OwnValues(e, Reached(e)')
      BY <1>1, SameSource DEF OwnValues
    <3> QED
      BY <1>2, <1>10, <3>1
  <2> QED
    BY <1>9, <2>1 DEF Replaced
<1>13. MapForm'
  BY <1>1, <1>2, <1>12 DEF MapForm
<1>14. ChoiceForm'
  <2>1. \A e : MayDecide(e)' = MayDecide(e)
    BY <1>1, SameSource
  <2>2. selected
    BY <1>1, <1>2 DEF ChoiceForm
  <2> QED
    BY <1>1, <1>2, <1>9, <2>1, <2>2 DEF ChoiceForm
<1> QED
  BY <1>1, <1>2, <1>9, <1>11, <1>13, <1>14 DEF ClosedForm

\* One more instruction is behind the iterator.
LEMMA OneFurther ==
  ASSUME F0 \in Functions, NEW c \in F0.blocks, NEW u \in First(c) .. Size(c), u # Size(c)
  PROVE  /\ u + 1 \in First(c) .. Size(c)
         /\ OwnValues(c, u + 1) = OwnValues(c, u) \cup ({Body(c)[u].def} \ {NoValue})
         /\ Body(c)[u].def = NoValue => VoidsUpTo(c, u + 1) = VoidsUpTo(c, u) \cup {u - First(c) + 1}
         /\ Body(c)[u].def # NoValue => VoidsUpTo(c, u + 1) = VoidsUpTo(c, u)
<1> DEFINE m == First(c)
           n == Size(c)
<1>1. m \in Nat /\ n \in Nat /\ 1 <= m /\ m <= u /\ u < n /\ u \in Nat
  BY BlockShape
<1>2. m .. (u + 1) - 1 = (m .. u - 1) \cup {u}
  BY <1>1
<1>3. OwnValues(c, u + 1) = OwnValues(c, u) \cup ({Body(c)[u].def} \ {NoValue})
  BY <1>2 DEF OwnValues
<1>4. 1 .. (u + 1) - m = (1 .. u - m) \cup {u - m + 1}
  BY <1>1
<1>5. /\ Body(c)[u].def = NoValue => VoidsUpTo(c, u + 1) = VoidsUpTo(c, u) \cup {u - m + 1}
      /\ Body(c)[u].def # NoValue => VoidsUpTo(c, u + 1) = VoidsUpTo(c, u)
  <2>1. m + (u - m + 1) - 1 = u
    BY <1>1
  <2> HIDE DEF m
  <2> QED
    BY <1>4, <2>1 DEF VoidsUpTo, m
<1> QED
  BY <1>1, <1>3, <1>5

LEMMA TailStays ==
  ASSUME F0 \in Functions, NEW c \in F0.blocks, NEW u \in First(c) .. Size(c), u # Size(c),
         NEW R, NEW S, Body(c)[u].def = NoValue
  PROVE  TailCode(c, u + 1, R, S) = TailCode(c, u, R, S)
<1> DEFINE m == First(c)
           n == Size(c)
<1>1. m \in Nat /\ n \in Nat /\ 1 <= m /\ m <= u /\ u < n /\ u \in Nat
  BY BlockShape
<1>2. \A i \in m .. n : i # u => InTail(c, u + 1, i, R, S) = InTail(c, u, i, R, S)
  <2> TAKE i \in m .. n
  <2>1. i # u => (i < u + 1 <=> i < u)
    BY <1>1
  <2> QED
    BY <2>1 DEF InTail
<1>3. InTail(c, u + 1, u, R, S) = InTail(c, u, u, R, S)
  BY <1>1 DEF InTail
<1>4. \A j \in 1 .. n - m + 1 : m + j - 1 \in m .. n /\ (m + j - 1 = u <=> j = u - m + 1)
  BY <1>1
<1> QED
  BY <1>2, <1>3, <1>4 DEF TailCode

LEMMA TailGains ==
  ASSUME F0 \in Functions, NEW c \in F0.blocks, NEW u \in First(c) .. Size(c), u # Size(c),
         NEW R, NEW S, Body(c)[u].def # NoValue
  PROVE  TailCode(c, u + 1, R, S)
           = [TailCode(c, u, R, S) EXCEPT ![u - First(c) + 1] = PhiOf(c, Body(c)[u].def)]
<1> DEFINE m == First(c)
           n == Size(c)
<1>1. m \in Nat /\ n \in Nat /\ 1 <= m /\ m <= u /\ u < n /\ u \in Nat
  BY BlockShape
<1>2. \A i \in m .. n : i # u => InTail(c, u + 1, i, R, S) = InTail(c, u, i, R, S)
  <2> TAKE i \in m .. n
  <2>1. i # u => (i < u + 1 <=> i < u)
    BY <1>1
  <2> QED
    BY <2>1 DEF InTail
<1>3. InTail(c, u + 1, u, R, S) = PhiOf(c, Body(c)[u].def)
  BY <1>1 DEF InTail
<1>4. \A j \in 1 .. n - m + 1 : m + j - 1 \in m .. n /\ (m + j - 1 = u <=> j = u - m + 1)
  BY <1>1
<1> QED
  BY <1>2, <1>3, <1>4 DEF TailCode

\* The two clones of an instruction, and the blocks they are put in.
LEMMA ClonesAreThese ==
  ASSUME ClosedForm, bb # NoBlock, ~AtTerminator,
         NEW u, u = Reached(bb), NEW R, R = reMapper, NEW S, S = SplitBlocks
  PROVE  /\ u \in First(bb) .. Size(bb) /\ u # Size(bb)
         /\ Instr = Renamed(Body(bb)[u], R, S) /\ Instr.def = Body(bb)[u].def
         /\ ThenClone = Cloned(bb, u, "then", R, S) /\ ElseClone = Cloned(bb, u, "else", R, S)
         /\ DOMAIN WithClones = f.blocks
         /\ \A part \in {"then", "else"} :
              WithClones[NewBlock(bb, part)] = CloneCode(bb, u + 1, part, R, S)
         /\ \A x \in f.blocks \ {Then(bb), Else(bb)} : WithClones[x] = f.code[x]
<1>1. /\ F0 \in Functions /\ bb \in F0.blocks /\ bb \in S /\ DOMAIN f.code = f.blocks
      /\ IsReMapper(R) /\ OwnValues(bb, u) \subseteq DOMAIN R
  BY ClosedFacts, TailShape DEF ClosedForm, GraphForm
<1>2. /\ at = u - First(bb) + 1 /\ u \in First(bb) .. Size(bb)
      /\ f.code[TailOf(bb)] = TailCode(bb, u, R, S)
      /\ Len(f.code[TailOf(bb)]) = Size(bb) - First(bb) + 1
  BY TailShape
<1>3. First(bb) \in 1 .. Size(bb) /\ Size(bb) \in Nat
  BY <1>1, BlockShape
<1>4. u # Size(bb)
  BY <1>2, <1>3 DEF AtTerminator
<1>5. Instr = Renamed(Body(bb)[u], R, S) /\ Instr.def = Body(bb)[u].def
  <2>1. at \in 1 .. Size(bb) - First(bb) + 1 /\ First(bb) + at - 1 = u /\ ~(u < u)
    BY <1>2, <1>3
  <2>2. Instr = InTail(bb, u, u, R, S)
    BY <1>2, <2>1 DEF Instr, TailCode
  <2> QED
    BY <2>1, <2>2 DEF InTail, Renamed
<1>6. IsVMap(thenVMap, bb, u, "then") /\ IsVMap(elseVMap, bb, u, "else")
  BY DEF ClosedForm, MapForm, IsVMap
<1>7. ThenClone = Cloned(bb, u, "then", R, S) /\ ElseClone = Cloned(bb, u, "else", R, S)
  BY <1>1, <1>2, <1>5, <1>6, MadeClone DEF ThenClone, ElseClone
<1>8. \A part \in {"then", "else"} : f.code[NewBlock(bb, part)] = CloneCode(bb, u, part, R, S)
  BY <1>1 DEF ClosedForm, CodeForm
<1>9. \A part \in {"then", "else"} :
        InsertBeforeTerminator(f.code[NewBlock(bb, part)], Cloned(bb, u, part, R, S))
          = CloneCode(bb, u + 1, part, R, S)
  BY <1>1, <1>2, <1>8, GrownClone
<1>10. Then(bb) # Else(bb) /\ Then(bb) \in f.blocks /\ Else(bb) \in f.blocks
  BY <1>1, PartNames, MadeBlocks
<1>11. WithClones = [f.code EXCEPT ![Then(bb)] = CloneCode(bb, u + 1, "then", R, S),
                                   ![Else(bb)] = CloneCode(bb, u + 1, "else", R, S)]
  <2>1. /\ InsertBeforeTerminator(f.code[Then(bb)], ThenClone) = CloneCode(bb, u + 1, "then", R, S)
        /\ InsertBeforeTerminator(f.code[Else(bb)], ElseClone) = CloneCode(bb, u + 1, "else", R, S)
    BY <1>7, <1>9 DEF Then, Else
  <2> QED
    BY <1>10, <2>1 DEF WithClones
<1>12. \A part \in {"then", "else"} :
         WithClones[NewBlock(bb, part)] = CloneCode(bb, u + 1, part, R, S)
  <2>1. /\ WithClones[Then(bb)] = CloneCode(bb, u + 1, "then", R, S)
        /\ WithClones[Else(bb)] = CloneCode(bb, u + 1, "else", R, S)
    BY <1>1, <1>10, <1>11
  <2> QED
    BY <2>1 DEF Then, Else
<1>13. DOMAIN WithClones = f.blocks /\ \A x \in f.blocks \ {Then(bb), Else(bb)} : WithClones[x] = f.code[x]
  BY <1>1, <1>11
<1> QED
  BY <1>2, <1>4, <1>5, <1>7, <1>12, <1>13

\* The iterator moves on, in the same block.
LEMMA NextReached ==
  ASSUME ClosedForm, bb # NoBlock, F0' = F0, bb' = bb, at' = at + 1
  PROVE  /\ Reached(bb)' = Reached(bb) + 1
         /\ \A c : c # bb => Reached(c)' = Reached(c)
<1>1. bb \in F0.blocks /\ F0 \in Functions /\ at \in Nat
  BY TailShape DEF ClosedForm
<1>2. First(bb) \in Nat
  BY <1>1, BlockShape
<1>3. \A c : First(c)' = First(c) /\ Size(c)' = Size(c)
  BY SameSource
<1>4. Reached(bb)' = First(bb) + (at + 1) - 1 /\ Reached(bb) = First(bb) + at - 1
  BY <1>3 DEF Reached
<1> QED
  BY <1>1, <1>2, <1>3, <1>4 DEF Reached

LEMMA SameChoice ==
  ASSUME ClosedForm, bb # NoBlock, SplitBlocks' = SplitBlocks,
         UNCHANGED <<F0, worklist, riv, selected, targets>>
  PROVE  ChoiceForm'
<1>1. ChoiceForm /\ selected
  BY DEF ClosedForm, ChoiceForm
<1>2. \A c : MayDecide(c)' = MayDecide(c)
  BY SameSource
<1> QED
  BY <1>1, <1>2 DEF ChoiceForm

\* What ReMapper holds, from what was replaced in the block being cloned.
LEMMA NextReplaced ==
  ASSUME ClosedForm, bb # NoBlock, F0' = F0, bb' = bb, at' = at + 1, SplitBlocks' = SplitBlocks
  PROVE  Replaced' = Replaced \cup OwnValues(bb, Reached(bb) + 1)
<1> DEFINE S == SplitBlocks
           u == Reached(bb)
<1>1. bb \in S /\ u \in First(bb) .. Size(bb) /\ First(bb) \in Nat
  BY TailShape, BlockShape DEF ClosedForm
<1>2. \A c \in S : OwnValues(c, Reached(c))' = OwnValues(c, Reached(c)')
  BY SameSource DEF OwnValues
<1>3. \A c \in S : OwnValues(c, Reached(c))' = OwnValues(c, IF c = bb THEN u + 1 ELSE Reached(c))
  BY <1>2, NextReached
<1>4. OwnValues(bb, u) \subseteq OwnValues(bb, u + 1)
  BY <1>1 DEF OwnValues
<1> HIDE DEF u
<1>5. Replaced' = UNION {OwnValues(c, IF c = bb THEN u + 1 ELSE Reached(c)) : c \in S}
  BY <1>3 DEF Replaced
<1>6. Replaced = UNION {OwnValues(c, IF c = bb THEN u ELSE Reached(c)) : c \in S}
  BY DEF Replaced, u
<1> HIDE DEF S
<1> QED
  BY <1>1, <1>4, <1>5, <1>6 DEF u

LEMMA CloneVoidClosed == ClosedForm /\ CloneVoid => ClosedForm'
<1> SUFFICES ASSUME ClosedForm, CloneVoid PROVE ClosedForm'
  OBVIOUS
<1> DEFINE S == SplitBlocks
           R == reMapper
           u == Reached(bb)
<1>1. /\ bb # NoBlock /\ ~AtTerminator /\ Instr.def = NoValue
      /\ f' = [f EXCEPT !.code = WithClones]
      /\ toRemove' = toRemove \cup {at} /\ at' = at + 1
      /\ UNCHANGED <<F0, worklist, riv, selected, targets, reMapper, bb, thenVMap, elseVMap>>
  BY DEF CloneVoid
<1>2. /\ F0 \in Functions /\ CodeForm /\ MapForm /\ at \in Nat /\ bb \in F0.blocks \cup {NoBlock}
      /\ S \subseteq F0.blocks
  BY ClosedFacts DEF ClosedForm
<1>3. bb \in F0.blocks /\ bb \in S /\ at = u - First(bb) + 1
  BY <1>1, TailShape
<1>4. /\ u \in First(bb) .. Size(bb) /\ u # Size(bb) /\ Body(bb)[u].def = NoValue
      /\ DOMAIN WithClones = f.blocks
      /\ \A part \in {"then", "else"} :
           WithClones[NewBlock(bb, part)] = CloneCode(bb, u + 1, part, R, S)
      /\ \A x \in f.blocks \ {Then(bb), Else(bb)} : WithClones[x] = f.code[x]
  BY <1>1, ClonesAreThese
<1>5. /\ u + 1 \in First(bb) .. Size(bb)
      /\ OwnValues(bb, u + 1) = OwnValues(bb, u)
      /\ VoidsUpTo(bb, u + 1) = VoidsUpTo(bb, u) \cup {at}
      /\ TailCode(bb, u + 1, R, S) = TailCode(bb, u, R, S)
  <2> HIDE DEF u, R, S
  <2>1. /\ u + 1 \in First(bb) .. Size(bb)
        /\ OwnValues(bb, u + 1) = OwnValues(bb, u) \cup ({Body(bb)[u].def} \ {NoValue})
        /\ Body(bb)[u].def = NoValue => VoidsUpTo(bb, u + 1) = VoidsUpTo(bb, u) \cup {u - First(bb) + 1}
    BY <1>2, <1>3, <1>4, OneFurther
  <2>2. TailCode(bb, u + 1, R, S) = TailCode(bb, u, R, S)
    BY <1>2, <1>3, <1>4, TailStays
  <2> QED
    BY <1>3, <1>4, <2>1, <2>2
<1>6. f'.code = WithClones /\ SplitBlocks' = S /\ GraphForm'
  BY <1>1, <1>4, SameGraph
<1>7. Reached(bb)' = u + 1 /\ \A e : e # bb => Reached(e)' = Reached(e)
  BY <1>1, NextReached
<1>8. CodeForm'
  <2>1. \A e \in F0.blocks : e \in f.blocks \ {Then(bb), Else(bb)}
    BY <1>2, <1>3, MadeBlocks, PartNames
  <2>2. \A e \in S : TailOf(e) \in f.blocks \ {Then(bb), Else(bb)}
    BY <1>2, <1>3, MadeBlocks, PartNames
  <2>3. \A e \in S : e # bb => {Then(e), Else(e)} \subseteq f.blocks \ {Then(bb), Else(bb)}
    BY <1>2, <1>3, MadeBlocks, PartNames
  <2>4. \A e \in F0.blocks \ S : f'.code[e] = KeptCode(e, R, S)
    BY <1>2, <1>4, <1>6, <2>1 DEF CodeForm
  <2>5. \A e \in S : \E v \in MayDecide(e) : f'.code[e] = HeadCode(e, v, R, S)
    BY <1>2, <1>4, <1>6, <2>1 DEF CodeForm
  <2>6. \A e \in S : \A part \in {"then", "else"} :
          f'.code[NewBlock(e, part)] = CloneCode(e, Reached(e)', part, R, S)
    <3>1. \A e \in S : e # bb => \A part \in {"then", "else"} :
            NewBlock(e, part) \in f.blocks \ {Then(bb), Else(bb)}
      BY <2>3 DEF Then, Else
    <3> TAKE e \in S
    <3> TAKE part \in {"then", "else"}
    <3>2. f.code[NewBlock(e, part)] = CloneCode(e, Reached(e), part, R, S)
      BY <1>2 DEF CodeForm
    <3>3. CASE e = bb
      BY <1>1, <1>4, <1>6, <1>7, <3>3
    <3>4. CASE e # bb
      BY <1>4, <1>6, <1>7, <3>1, <3>2, <3>4
    <3> QED
      BY <3>3, <3>4
  <2>7. \A e \in S : f'.code[TailOf(e)] = IF e = bb THEN TailCode(e, Reached(e)', R, S)
                                         ELSE PurgedCode(e, R, S)
    <3> TAKE e \in S
    <3>1. /\ f'.code[TailOf(e)] = f.code[TailOf(e)]
          /\ f.code[TailOf(e)] = IF e = bb THEN TailCode(e, Reached(e), R, S)
                                 ELSE PurgedCode(e, R, S)
      BY <1>2, <1>4, <1>6, <2>2 DEF CodeForm
    <3> QED
      BY <1>1, <1>5, <1>7, <3>1
  <2> HIDE DEF u
  <2> QED
    BY <1>1, <1>6, <2>4, <2>5, <2>6, <2>7, CodeNext
<1>9. Replaced' = Replaced
  <2>1. OwnValues(bb, u) \subseteq Replaced
    BY <1>3 DEF Replaced
  <2> QED
    BY <1>1, <1>5, <1>6, <2>1, NextReplaced
<1>10. MapForm'
  <2>1. /\ Reached(bb)' = u + 1 /\ First(bb)' = First(bb) /\ Size(bb)' = Size(bb)
        /\ OwnValues(bb, Reached(bb))' = OwnValues(bb, u + 1)
        /\ VoidsUpTo(bb, Reached(bb))' = VoidsUpTo(bb, u + 1)
    <3>1. /\ OwnValues(bb, Reached(bb))' = OwnValues(bb, Reached(bb)')
          /\ VoidsUpTo(bb, Reached(bb))' = VoidsUpTo(bb, Reached(bb)')
      BY <1>1, SameSource DEF OwnValues, VoidsUpTo
    <3> QED
      BY <1>1, <1>7, <3>1, SameSource
  <2> HIDE DEF R
  <2>2. /\ DOMAIN thenVMap = {NewValue(v, "phi") : v \in OwnValues(bb, u)}
        /\ DOMAIN thenVMap = DOMAIN elseVMap
        /\ \A v \in OwnValues(bb, u) : /\ thenVMap[NewValue(v, "phi")] = NewValue(v, "then")
                                       /\ elseVMap[NewValue(v, "phi")] = NewValue(v, "else")
        /\ toRemove = VoidsUpTo(bb, u)
        /\ DOMAIN reMapper = Replaced /\ \A v \in Replaced : reMapper[v] = NewValue(v, "phi")
    BY <1>1, <1>2 DEF MapForm
  <2> QED
    BY <1>1, <1>3, <1>5, <1>6, <1>9, <2>1, <2>2 DEF MapForm
<1>11. ChoiceForm'
  BY <1>1, <1>6, SameChoice
<1> QED
  BY <1>1, <1>2, <1>6, <1>8, <1>10, <1>11 DEF ClosedForm

\* The value at the iterator was not replaced before.
LEMMA ReplacedOnce ==
  ASSUME ClosedForm, bb # NoBlock, NEW u, u = Reached(bb), u # Size(bb), Body(bb)[u].def # NoValue
  PROVE  Body(bb)[u].def \in Defs(F0) \ DOMAIN reMapper
<1> DEFINE d == Body(bb)[u].def
<1>1. /\ F0 \in Functions /\ bb \in F0.blocks /\ u \in First(bb) .. Size(bb)
      /\ SplitBlocks \subseteq F0.blocks
      /\ \A c \in F0.blocks : Reached(c) \in First(c) .. Size(c)
      /\ DOMAIN reMapper = Replaced
  BY TailShape, ClosedFacts DEF ClosedForm, MapForm
<1>2. \A c \in F0.blocks : First(c) \in 1 .. Size(c) /\ Size(c) \in Nat
  BY <1>1, BlockShape
<1>3. u \in 1 .. Size(bb)
  BY <1>1, <1>2
<1>4. d \in Defs(F0)
  BY <1>1, <1>3, InstructionShape
<1>5. ASSUME NEW c \in SplitBlocks, NEW i \in First(c) .. Reached(c) - 1, Body(c)[i].def = d
      PROVE  FALSE
  <2>1. c \in F0.blocks /\ i \in 1 .. Size(c)
    BY <1>1, <1>2
  <2>2. c = bb /\ i = u
    BY <1>1, <1>3, <1>5, <2>1, OneDefinition
  <2> QED
    BY <1>1, <1>2, <2>2
<1>6. d \notin Replaced
  BY <1>5 DEF Replaced, OwnValues
<1> QED
  BY <1>1, <1>4, <1>6

LEMMA CloneValueClosed == ClosedForm /\ CloneValue => ClosedForm'
<1> SUFFICES ASSUME ClosedForm, CloneValue PROVE ClosedForm'
  OBVIOUS
<1> DEFINE S == SplitBlocks
           R == reMapper
           u == Reached(bb)
           d == Body(bb)[u].def
           w == NewValue(d, "phi")
           Q == Entered(R, d, w)
           all == ReplaceAllUses(WithClones, d, w)
           code == [all EXCEPT ![TailOf(bb)][at] = PhiOf(bb, d)]
<1>1. /\ bb # NoBlock /\ ~AtTerminator /\ Instr.def # NoValue
      /\ f' = [f EXCEPT !.code = [ReplaceAllUses(WithClones, Instr.def, MergingPhi.def)
                                    EXCEPT ![TailOf(bb)][at] = MergingPhi]]
      /\ thenVMap' = Entered(thenVMap, MergingPhi.def, ThenClone.def)
      /\ elseVMap' = Entered(elseVMap, MergingPhi.def, ElseClone.def)
      /\ reMapper' = Entered(reMapper, Instr.def, MergingPhi.def)
      /\ at' = at + 1
      /\ UNCHANGED <<F0, worklist, riv, selected, targets, bb, toRemove>>
  BY DEF CloneValue, Enter, Follow
<1>2. /\ F0 \in Functions /\ CodeForm /\ MapForm /\ at \in Nat /\ bb \in F0.blocks \cup {NoBlock}
      /\ S \subseteq F0.blocks /\ IsReMapper(R)
      /\ \A e \in F0.blocks : Reached(e) \in First(e) .. Size(e)
  BY ClosedFacts DEF ClosedForm
<1>3. /\ bb \in F0.blocks /\ bb \in S /\ at = u - First(bb) + 1
      /\ f.code[TailOf(bb)] = TailCode(bb, u, R, S)
      /\ at \in DOMAIN f.code[TailOf(bb)]
  <2>1. First(bb) \in 1 .. Size(bb) /\ Size(bb) \in Nat
    BY <1>1, <1>2, TailShape, BlockShape
  <2> QED
    BY <1>1, <2>1, TailShape
<1>4. /\ u \in First(bb) .. Size(bb) /\ u # Size(bb) /\ Instr.def = d
      /\ ThenClone = Cloned(bb, u, "then", R, S) /\ ElseClone = Cloned(bb, u, "else", R, S)
      /\ DOMAIN WithClones = f.blocks
      /\ \A part \in {"then", "else"} :
           WithClones[NewBlock(bb, part)] = CloneCode(bb, u + 1, part, R, S)
      /\ \A x \in f.blocks \ {Then(bb), Else(bb)} : WithClones[x] = f.code[x]
  BY <1>1, ClonesAreThese
<1>5. d # NoValue /\ d \in Defs(F0) \ DOMAIN R
  BY <1>1, <1>4, ReplacedOnce
<1>6. Replacing(R, d, Q)
  BY <1>2, <1>5 DEF Replacing
<1>7. ThenClone.def = NewValue(d, "then") /\ ElseClone.def = NewValue(d, "else")
  BY <1>4, <1>5 DEF Cloned
<1>8. MergingPhi = PhiOf(bb, d) /\ MergingPhi.def = w
  BY <1>4, <1>7 DEF MergingPhi, PhiOf
<1>9. /\ f' = [f EXCEPT !.code = code]
      /\ thenVMap' = Entered(thenVMap, w, NewValue(d, "then"))
      /\ elseVMap' = Entered(elseVMap, w, NewValue(d, "else"))
      /\ reMapper' = Q
  BY <1>1, <1>4, <1>7, <1>8
<1> HIDE DEF S, R, u, d, w, Q
<1>10. /\ u + 1 \in First(bb) .. Size(bb)
       /\ OwnValues(bb, u + 1) = OwnValues(bb, u) \cup {d}
       /\ VoidsUpTo(bb, u + 1) = VoidsUpTo(bb, u)
  BY <1>2, <1>3, <1>4, <1>5, OneFurther DEF d
<1>11. TailCode(bb, u + 1, Q, S) = [TailCode(bb, u, Q, S) EXCEPT ![at] = PhiOf(bb, d)]
  BY <1>2, <1>3, <1>4, <1>5, TailGains DEF d
<1>12. /\ DOMAIN all = f.blocks
       /\ \A x \in f.blocks : all[x] = RewrittenCode(WithClones[x], d)
  BY <1>4, RewritingsAreThese DEF w
<1>13. TailOf(bb) \in f.blocks \ {Then(bb), Else(bb)}
  BY <1>2, <1>3, MadeBlocks, PartNames DEF S
<1> HIDE DEF all
<1>14. /\ DOMAIN code = f.blocks
       /\ code[TailOf(bb)] = [all[TailOf(bb)] EXCEPT ![at] = PhiOf(bb, d)]
       /\ \A x \in f.blocks \ {TailOf(bb)} : code[x] = all[x]
  BY <1>12, <1>13
<1> HIDE DEF code
<1>15. f'.code = code /\ SplitBlocks' = S /\ GraphForm'
  BY <1>1, <1>9, <1>14, SameGraph DEF S
<1>16. Reached(bb)' = u + 1 /\ \A e : e # bb => Reached(e)' = Reached(e)
  BY <1>1, NextReached DEF u
<1>17. /\ \A e \in F0.blocks : e \in f.blocks \ {Then(bb), Else(bb), TailOf(bb)}
       /\ \A e \in S : e # bb =>
            {Then(e), Else(e), TailOf(e)} \subseteq f.blocks \ {Then(bb), Else(bb), TailOf(bb)}
       /\ {Then(bb), Else(bb)} \subseteq f.blocks \ {TailOf(bb)}
  BY <1>2, <1>3, MadeBlocks, PartNames DEF S
<1>18. \A x \in f.blocks \ {Then(bb), Else(bb), TailOf(bb)} : code[x] = RewrittenCode(f.code[x], d)
  BY <1>4, <1>12, <1>14
<1>19. CodeForm'
  <2>1. \A e \in F0.blocks \ S : f'.code[e] = KeptCode(e, Q, S)
    <3> TAKE e \in F0.blocks \ S
    <3>1. f.code[e] = KeptCode(e, R, S)
      BY <1>2 DEF CodeForm, R, S
    <3>2. RewrittenCode(KeptCode(e, R, S), d) = KeptCode(e, Q, S)
      BY <1>2, <1>6, RewrittenKept
    <3> QED
      BY <1>15, <1>17, <1>18, <3>1, <3>2
  <2>2. \A e \in S : \E v \in MayDecide(e) : f'.code[e] = HeadCode(e, v, Q, S)
    <3> TAKE e \in S
    <3>1. PICK v \in MayDecide(e) : f.code[e] = HeadCode(e, v, R, S)
      BY <1>2 DEF CodeForm, R, S
    <3>2. e \in F0.blocks
      BY <1>2
    <3>3. RewrittenCode(HeadCode(e, v, R, S), d) = HeadCode(e, v, Q, S)
      BY <1>2, <1>6, <3>2, RewrittenHead
    <3> QED
      BY <1>15, <1>17, <1>18, <3>1, <3>2, <3>3
  <2>3. \A e \in S : \A part \in {"then", "else"} :
          f'.code[NewBlock(e, part)] = CloneCode(e, Reached(e)', part, Q, S)
    <3> TAKE e \in S
    <3> TAKE part \in {"then", "else"}
    <3>1. e \in F0.blocks /\ Reached(e) \in First(e) .. Size(e)
      BY <1>2
    <3>2. CASE e = bb
      <4>1. NewBlock(bb, part) \in f.blocks \ {TailOf(bb)}
        BY <1>17 DEF Then, Else
      <4>2. code[NewBlock(bb, part)] = RewrittenCode(CloneCode(bb, u + 1, part, R, S), d)
        BY <1>4, <1>12, <1>14, <4>1
      <4>3. RewrittenCode(CloneCode(bb, u + 1, part, R, S), d) = CloneCode(bb, u + 1, part, Q, S)
        BY <1>2, <1>3, <1>6, <1>10, RewrittenClone
      <4> QED
        BY <1>1, <1>15, <1>16, <3>2, <4>2, <4>3
    <3>3. CASE e # bb
      <4>1. NewBlock(e, part) \in f.blocks \ {Then(bb), Else(bb), TailOf(bb)}
        BY <1>17, <3>3 DEF Then, Else
      <4>2. f.code[NewBlock(e, part)] = CloneCode(e, Reached(e), part, R, S)
        BY <1>2 DEF CodeForm, R, S
      <4>3. RewrittenCode(CloneCode(e, Reached(e), part, R, S), d) = CloneCode(e, Reached(e), part, Q, S)
        BY <1>2, <1>6, <3>1, RewrittenClone
      <4> QED
        BY <1>15, <1>16, <1>18, <3>3, <4>1, <4>2, <4>3
    <3> QED
      BY <3>2, <3>3
  <2>4. \A e \in S : f'.code[TailOf(e)] = IF e = bb THEN TailCode(e, Reached(e)', Q, S)
                                         ELSE PurgedCode(e, Q, S)
    <3> TAKE e \in S
    <3>1. CASE e = bb
      <4>1. all[TailOf(bb)] = RewrittenCode(TailCode(bb, u, R, S), d)
        BY <1>3, <1>4, <1>12, <1>13
      <4>2. RewrittenCode(TailCode(bb, u, R, S), d) = TailCode(bb, u, Q, S)
        BY <1>2, <1>3, <1>6, RewrittenTail
      <4>3. code[TailOf(bb)] = TailCode(bb, u + 1, Q, S)
        BY <1>11, <1>14, <4>1, <4>2
      <4> QED
        BY <1>1, <1>15, <1>16, <3>1, <4>3
    <3>2. CASE e # bb
      <4>1. TailOf(e) \in f.blocks \ {Then(bb), Else(bb), TailOf(bb)} /\ e \in F0.blocks
        BY <1>2, <1>17, <3>2
      <4>2. f.code[TailOf(e)] = PurgedCode(e, R, S)
        BY <1>2, <3>2 DEF CodeForm, R, S
      <4>3. RewrittenCode(PurgedCode(e, R, S), d) = PurgedCode(e, Q, S)
        BY <1>2, <1>6, <4>1, RewrittenPurged
      <4> QED
        BY <1>15, <1>18, <3>2, <4>1, <4>2, <4>3
    <3> QED
      BY <3>1, <3>2
  <2> QED
    BY <1>1, <1>9, <1>15, <2>1, <2>2, <2>3, <2>4, CodeNext
<1>20. Replaced' = Replaced \cup {d}
  <2>1. OwnValues(bb, u) \subseteq Replaced
    BY <1>3 DEF Replaced, S, u
  <2>2. Replaced' = Replaced \cup OwnValues(bb, u + 1)
    BY <1>1, <1>15, NextReplaced DEF S, u
  <2> QED
    BY <1>10, <2>1, <2>2
<1>21. MapForm'
  <2>1. /\ Reached(bb)' = u + 1 /\ First(bb)' = First(bb) /\ Size(bb)' = Size(bb)
        /\ OwnValues(bb, Reached(bb))' = OwnValues(bb, u + 1)
        /\ VoidsUpTo(bb, Reached(bb))' = VoidsUpTo(bb, u + 1)
    <3>1. /\ OwnValues(bb, Reached(bb))' = OwnValues(bb, Reached(bb)')
          /\ VoidsUpTo(bb, Reached(bb))' = VoidsUpTo(bb, Reached(bb)')
      BY <1>1, SameSource DEF OwnValues, VoidsUpTo
    <3> QED
      BY <1>1, <1>16, <3>1, SameSource
  <2>2. /\ DOMAIN thenVMap = {NewValue(v, "phi") : v \in OwnValues(bb, u)}
        /\ DOMAIN thenVMap = DOMAIN elseVMap
        /\ \A v \in OwnValues(bb, u) : /\ thenVMap[NewValue(v, "phi")] = NewValue(v, "then")
                                       /\ elseVMap[NewValue(v, "phi")] = NewValue(v, "else")
        /\ toRemove = VoidsUpTo(bb, u)
        /\ DOMAIN R = Replaced /\ \A v \in Replaced : R[v] = NewValue(v, "phi")
    BY <1>1, <1>2 DEF MapForm, R, u
  <2>3. \A v \in OwnValues(bb, u) : v \in Defs(F0) /\ v # d
    <3>1. OwnValues(bb, u) \subseteq DOMAIN R
      BY <1>3, ClosedFacts DEF R, S, u
    <3> QED
      BY <1>2, <1>5, <3>1 DEF IsReMapper
  <2>4. \A v \in OwnValues(bb, u) : NewValue(v, "phi") # w
    BY <1>2, <1>5, <2>3, ValueNames DEF w
  <2>5. /\ DOMAIN thenVMap' = {w} \cup DOMAIN thenVMap /\ DOMAIN elseVMap' = {w} \cup DOMAIN elseVMap
        /\ thenVMap'[w] = NewValue(d, "then") /\ elseVMap'[w] = NewValue(d, "else")
        /\ \A v \in DOMAIN thenVMap \ {w} : thenVMap'[v] = thenVMap[v] /\ elseVMap'[v] = elseVMap[v]
    BY <1>9, <2>2 DEF Entered
  <2>6. /\ DOMAIN thenVMap' = {NewValue(v, "phi") : v \in OwnValues(bb, u + 1)}
        /\ DOMAIN thenVMap' = DOMAIN elseVMap'
        /\ \A v \in OwnValues(bb, u + 1) : /\ thenVMap'[NewValue(v, "phi")] = NewValue(v, "then")
                                           /\ elseVMap'[NewValue(v, "phi")] = NewValue(v, "else")
    BY <1>10, <2>2, <2>4, <2>5 DEF w
  <2>7. DOMAIN reMapper' = Replaced' /\ \A v \in Replaced' : reMapper'[v] = NewValue(v, "phi")
    BY <1>9, <1>20, <2>2 DEF Q, Entered, w
  <2> QED
    BY <1>1, <1>3, <1>10, <1>15, <2>1, <2>2, <2>6, <2>7 DEF MapForm, S
<1>22. ChoiceForm'
  BY <1>1, <1>15, SameChoice DEF S
<1> QED
  BY <1>1, <1>2, <1>15, <1>19, <1>21, <1>22 DEF ClosedForm
-----------------------------------------------------------------------------
(* What follows from the closed form.                                      *)

LEMMA NextClosed == ClosedForm /\ [Next]_vars => ClosedForm'
<1> SUFFICES ASSUME ClosedForm, [Next]_vars PROVE ClosedForm'
  OBVIOUS
<1>1. CASE Analyse
  BY <1>1, AnalyseClosed
<1>2. CASE FindBBsToDuplicate
  BY <1>2, FindClosed
<1>3. CASE \E b \in f.blocks : Split(b)
  BY <1>3, SplitClosed
<1>4. CASE CloneVoid
  BY <1>4, CloneVoidClosed
<1>5. CASE CloneValue
  BY <1>5, CloneValueClosed
<1>6. CASE Purge
  BY <1>6, PurgeClosed
<1>7. CASE UNCHANGED vars
  <2>1. UNCHANGED <<F0, f, worklist, riv, selected, targets, reMapper, bb, at, thenVMap, elseVMap, toRemove>>
    BY <1>7 DEF vars
  <2>2. ChoiceForm /\ SplitBlocks' = SplitBlocks /\ \A b : MayDecide(b)' = MayDecide(b)
    BY <2>1, SameSource DEF ClosedForm, SplitBlocks
  <2>3. ChoiceForm'
    BY <2>1, <2>2 DEF ChoiceForm
  <2> QED
    BY <2>1, <2>3, SameFunction DEF ClosedForm
<1> QED
  BY <1>1, <1>2, <1>3, <1>4, <1>5, <1>6, <1>7 DEF Next, Returned

\* Whatever was split and wherever the iterator is, the function is the one
\* received, each block in place or in its four parts, with the values in
\* ReMapper replaced.
THEOREM FunctionHasClosedForm == Spec => []ClosedForm
<1>1. Init => ClosedForm
  BY InitClosed
<1>2. ClosedForm /\ [Next]_vars => ClosedForm'
  BY NextClosed
<1> QED
  BY <1>1, <1>2, PTL DEF Spec

\* Targets are blocks that were not split, the iterator is in the tail, and
\* ThenVMap and ElseVMap have the same keys.
THEOREM TypeCorrect == Spec => []TypeOK
<1>1. ASSUME ClosedForm PROVE TypeOK
  <2>1. /\ DOMAIN targets \subseteq F0.blocks \ SplitBlocks
        /\ DOMAIN f.code = f.blocks /\ DOMAIN f.succ = f.blocks
        /\ DOMAIN thenVMap = DOMAIN elseVMap
    BY <1>1 DEF ClosedForm, ChoiceForm, GraphForm, MapForm
  <2>2. \A b \in DOMAIN targets : TailOf(b) \notin f.blocks
    BY <1>1, <2>1, MadeBlocks
  <2>3. ASSUME bb # NoBlock PROVE at \in 1 .. Len(f.code[TailOf(bb)])
    <3>1. First(bb) \in 1 .. Size(bb) /\ Size(bb) \in Nat
      BY <1>1, <2>3, TailShape, BlockShape DEF ClosedForm
    <3> QED
      BY <1>1, <2>3, <3>1, TailShape
  <2> QED
    BY <2>1, <2>2, <2>3 DEF TypeOK
<1> QED
  BY <1>1, FunctionHasClosedForm, PTL

LEMMA PartsAreFinite ==
  ASSUME NEW S, IsFiniteSet(S), NEW p
  PROVE  IsFiniteSet({NewBlock(c, p) : c \in S})
<1> DEFINE h == [c \in S |-> NewBlock(c, p)]
           T == {NewBlock(c, p) : c \in S}
<1>1. h \in [S -> T] /\ \A x \in T : \E c \in S : h[c] = x
  OBVIOUS
<1>2. h \in Surjection(S, T)
  BY <1>1 DEF Surjection
<1> QED
  BY <1>2, FS_Surjection

\* The function is a control-flow graph at all times.
LEMMA StillAGraph ==
  ASSUME ClosedForm
  PROVE  ControlFlowGraph(f) /\ f.entry = F0.entry
<1> DEFINE S == SplitBlocks
<1>1. /\ F0 \in Functions /\ S \subseteq F0.blocks
      /\ f.blocks = F0.blocks \cup PartBlocks(S)
      /\ f = [entry |-> F0.entry, blocks |-> f.blocks, code |-> f.code, succ |-> f.succ]
      /\ \A c \in F0.blocks \ S : f.succ[c] = F0.succ[c]
      /\ \A c \in S :
           /\ f.succ[c] = <<Then(c), Else(c)>>
           /\ f.succ[Then(c)] = <<TailOf(c)>> /\ f.succ[Else(c)] = <<TailOf(c)>>
           /\ f.succ[TailOf(c)] = F0.succ[c]
  BY ClosedFacts DEF ClosedForm, GraphForm
<1>2. /\ F0.entry \in F0.blocks /\ IsFiniteSet(F0.blocks) /\ NoBlock \notin F0.blocks
      /\ \A b \in F0.blocks : Range(F0.succ[b]) \subseteq F0.blocks
  BY <1>1, Received
<1>3. IsFiniteSet(f.blocks)
  <2>1. IsFiniteSet(S)
    BY <1>1, <1>2, FS_Subset
  <2> HIDE DEF S
  <2> DEFINE made(p) == {NewBlock(c, p) : c \in S}
  <2>2. IsFiniteSet(made("then")) /\ IsFiniteSet(made("else")) /\ IsFiniteSet(made("tail"))
    BY <2>1, PartsAreFinite
  <2>3. PartBlocks(S) = (made("then") \cup made("else")) \cup made("tail")
    BY DEF PartBlocks, Parts
  <2> HIDE DEF made
  <2>4. IsFiniteSet(made("then") \cup made("else"))
    BY <2>2, FS_Union
  <2>5. IsFiniteSet(PartBlocks(S))
    BY <2>2, <2>3, <2>4, FS_Union
  <2>6. IsFiniteSet(F0.blocks \cup PartBlocks(S))
    BY <1>2, <2>5, FS_Union
  <2> QED
    BY <1>1, <2>6
<1>4. NoBlock \notin f.blocks
  <2>1. \A c \in S : NoBlock \notin {Then(c), Else(c), TailOf(c)}
    BY <1>1, PartNames
  <2> QED
    BY <1>1, <1>2, <2>1, MadeBlocks
<1>5. \A x \in f.blocks : Range(f.succ[x]) \subseteq f.blocks
  <2> TAKE x \in f.blocks
  <2>1. CASE x \in F0.blocks \ S
    BY <1>1, <1>2, <2>1
  <2>2. CASE x \in S
    <3>1. Range(f.succ[x]) = {Then(x), Else(x)}
      BY <1>1, <2>2 DEF Range
    <3> QED
      BY <1>1, <2>2, <3>1, MadeBlocks
  <2>3. ASSUME NEW c \in S, x = Then(c) \/ x = Else(c) PROVE Range(f.succ[x]) \subseteq f.blocks
    <3>1. Range(f.succ[x]) = {TailOf(c)}
      BY <1>1, <2>3 DEF Range
    <3> QED
      BY <1>1, <3>1, MadeBlocks
  <2>4. ASSUME NEW c \in S, x = TailOf(c) PROVE Range(f.succ[x]) \subseteq f.blocks
    BY <1>1, <1>2, <2>4
  <2> QED
    BY <2>1, <2>2, <2>3, <2>4, MadeBlocks
<1>6. f.entry = F0.entry
  BY <1>1
<1> QED
  BY <1>1, <1>2, <1>3, <1>4, <1>5, <1>6 DEF ControlFlowGraph

\* Where block a ends now, or any part of it that all of its runs pass: what a
\* dominates, this part does.
EndsIn(a, l) == l = a \/ (a \in SplitBlocks /\ l = TailOf(a))

PartOf(c, x) == x = c \/ (c \in SplitBlocks /\ x \in {Then(c), Else(c), TailOf(c)})

LEMMA DominanceIsKept ==
  ASSUME ClosedForm, NEW a \in F0.blocks, NEW c \in F0.blocks, a # c, Dominates(F0, a, c),
         NEW l, EndsIn(a, l), NEW x, PartOf(c, x)
  PROVE  Dominates(f, l, x)
<1> DEFINE S == SplitBlocks
           A == ReachableAvoiding(F0, a)
           parts == UNION {{Then(d), Else(d), TailOf(d)} : d \in A \cap S}
           inner == IF l = a THEN {} ELSE {a, Then(a), Else(a)}
           Y == A \cup parts \cup inner
<1>1. /\ F0 \in Functions /\ ControlFlowGraph(F0) /\ ControlFlowGraph(f) /\ f.entry = F0.entry
      /\ S \subseteq F0.blocks
      /\ \A d \in F0.blocks \ S : f.succ[d] = F0.succ[d]
      /\ \A d \in S :
           /\ f.succ[d] = <<Then(d), Else(d)>>
           /\ f.succ[Then(d)] = <<TailOf(d)>> /\ f.succ[Else(d)] = <<TailOf(d)>>
           /\ f.succ[TailOf(d)] = F0.succ[d]
  BY ClosedFacts, StillAGraph, Received DEF ClosedForm, GraphForm
<1>2. /\ A \subseteq F0.blocks \ {a} /\ c \notin A
      /\ F0.entry # a => F0.entry \in A
      /\ \A d \in A : Range(F0.succ[d]) \subseteq A \cup {a}
  BY <1>1, ReachableIsLeast DEF Dominates, Closed
<1>3. l = a \/ (l = TailOf(a) /\ a \in S /\ l # a)
  BY <1>1, PartNames DEF EndsIn
<1> HIDE DEF A, S
<1>4. A \cup {a} \subseteq Y \cup {l}
  BY <1>3
<1>5. ASSUME NEW y \in Y PROVE Range(f.succ[y]) \subseteq Y \cup {l}
  <2>1. CASE y \in A \ S
    BY <1>1, <1>2, <1>4, <2>1
  <2>2. CASE y \in A \cap S
    <3>1. Range(f.succ[y]) = {Then(y), Else(y)}
      BY <1>1, <2>2 DEF Range
    <3> QED
      BY <2>2, <3>1
  <2>3. ASSUME NEW d \in A \cap S, y = Then(d) \/ y = Else(d) PROVE Range(f.succ[y]) \subseteq Y \cup {l}
    <3>1. Range(f.succ[y]) = {TailOf(d)}
      BY <1>1, <2>3 DEF Range
    <3> QED
      BY <3>1
  <2>4. ASSUME NEW d \in A \cap S, y = TailOf(d) PROVE Range(f.succ[y]) \subseteq Y \cup {l}
    BY <1>1, <1>2, <1>4, <2>4
  <2>5. CASE y \in inner
    <3>1. a \in S /\ l = TailOf(a) /\ inner = {a, Then(a), Else(a)} /\ y \in {a, Then(a), Else(a)}
      BY <1>3, <2>5
    <3>2. Range(<<Then(a), Else(a)>>) = {Then(a), Else(a)} /\ Range(<<TailOf(a)>>) = {TailOf(a)}
      BY DEF Range
    <3>3. Range(f.succ[y]) \subseteq {Then(a), Else(a), l}
      BY <1>1, <3>1, <3>2
    <3> HIDE DEF inner
    <3> QED
      BY <3>1, <3>3
  <2> QED
    BY <2>1, <2>2, <2>3, <2>4, <2>5
<1>6. f.entry # l => f.entry \in Y
  BY <1>1, <1>2, <1>3
<1>7. ReachableAvoiding(f, l) \subseteq Y
  <2> HIDE DEF Y
  <2> QED
    BY <1>1, <1>5, <1>6, ReachableIsLeast DEF Closed
<1>8. x \notin Y
  <2>1. x \notin A
    BY <1>1, <1>2, PartNames DEF PartOf, S
  <2>2. \A d \in A \cap S : x \notin {Then(d), Else(d), TailOf(d)}
    BY <1>1, <1>2, PartNames DEF PartOf, S
  <2>3. x \notin inner
    BY <1>1, PartNames DEF PartOf, S
  <2> QED
    BY <2>1, <2>2, <2>3
<1> QED
  BY <1>7, <1>8 DEF Dominates
-----------------------------------------------------------------------------
(* Where a value of the function received is, now.                         *)

LEMMA WhatIsReplaced ==
  ASSUME ClosedForm, NEW a \in F0.blocks, NEW i \in 1 .. Size(a), Body(a)[i].def # NoValue
  PROVE  /\ Body(a)[i].def \in DOMAIN reMapper <=> a \in SplitBlocks /\ i \in First(a) .. Reached(a) - 1
         /\ Body(a)[i].def \in DOMAIN reMapper =>
              Lookup(reMapper, Body(a)[i].def) = NewValue(Body(a)[i].def, "phi")
         /\ Body(a)[i].def \notin DOMAIN reMapper =>
              Lookup(reMapper, Body(a)[i].def) = Body(a)[i].def
<1> DEFINE v == Body(a)[i].def
<1>1. /\ F0 \in Functions /\ DOMAIN reMapper = Replaced
      /\ \A w \in Replaced : reMapper[w] = NewValue(w, "phi")
      /\ SplitBlocks \subseteq F0.blocks
      /\ \A c \in F0.blocks : Reached(c) \in First(c) .. Size(c)
  BY ClosedFacts DEF ClosedForm, MapForm
<1>2. ASSUME a \in SplitBlocks, i \in First(a) .. Reached(a) - 1 PROVE v \in Replaced
  BY <1>2 DEF Replaced, OwnValues
<1>3. ASSUME v \in Replaced PROVE a \in SplitBlocks /\ i \in First(a) .. Reached(a) - 1
  <2>1. PICK c \in SplitBlocks : v \in OwnValues(c, Reached(c))
    BY <1>3 DEF Replaced
  <2>2. PICK j \in First(c) .. Reached(c) - 1 : v = Body(c)[j].def
    BY <2>1 DEF OwnValues
  <2>3. c \in F0.blocks /\ Reached(c) \in First(c) .. Size(c)
    BY <1>1
  <2>4. j \in 1 .. Size(c)
    BY <1>1, <2>3, BlockShape
  <2>5. c = a /\ j = i
    BY <1>1, <2>2, <2>3, <2>4, OneDefinition
  <2> QED
    BY <2>5
<1> QED
  BY <1>1, <1>2, <1>3 DEF Lookup

\* An instruction with a value does not leave the tail.
LEMMA StaysInTail ==
  ASSUME F0 \in Functions, NEW c \in F0.blocks, NEW R, NEW S, NEW i \in First(c) .. Size(c),
         Body(c)[i].def # NoValue
  PROVE  \E k \in DOMAIN PurgedCode(c, R, S) : PurgedCode(c, R, S)[k] = InTail(c, Size(c), i, R, S)
<1> DEFINE n == Size(c) - First(c) + 1
           s == TailCode(c, Size(c), R, S)
           P == VoidsUpTo(c, Size(c))
           j == i - First(c) + 1
<1>1. First(c) \in 1 .. Size(c) /\ Size(c) \in Nat
  BY BlockShape
<1>2. n \in Nat /\ j \in 1 .. n /\ First(c) + j - 1 = i
  BY <1>1
<1>3. DOMAIN s = 1 .. n /\ s[j] = InTail(c, Size(c), i, R, S)
  BY <1>2 DEF TailCode
<1>4. j \notin P
  BY <1>2 DEF VoidsUpTo
<1> HIDE DEF n, s, P, j
<1>5. PICK e : KeepsOrder(e, n, P)
  BY <1>2, WithoutKeepsOrder
<1>6. PICK k \in 1 .. Cardinality((1 .. n) \ P) : e[k] = j
  BY <1>2, <1>4, <1>5 DEF KeepsOrder, ListsUp
<1>7. PurgedCode(c, R, S) = [m \in 1 .. Cardinality((1 .. n) \ P) |-> s[e[m]]]
  BY <1>3, <1>5 DEF KeepsOrder, PurgedCode, s, P
<1> QED
  BY <1>3, <1>6, <1>7

\* A value defined in block a is defined where a is, or ends, now, under the
\* name ReMapper knows: by what defined it, or by the PHI that replaced that.
LEMMA WhereDefined ==
  ASSUME ClosedForm, NEW a \in F0.blocks, NEW i \in 1 .. Size(a), Body(a)[i].def # NoValue
  PROVE  \E l \in f.blocks : EndsIn(a, l) /\ \E k \in DOMAIN f.code[l] :
           /\ f.code[l][k].def = Lookup(reMapper, Body(a)[i].def)
           /\ f.code[l][k].op \in {Body(a)[i].op, "phi"}
<1> DEFINE R == reMapper
           S == SplitBlocks
           v == Body(a)[i].def
<1>1. /\ F0 \in Functions /\ CodeForm /\ S \subseteq F0.blocks
      /\ Reached(a) \in First(a) .. Size(a)
  BY ClosedFacts DEF ClosedForm
<1>2. First(a) \in 1 .. Size(a) /\ Size(a) \in Nat
  BY <1>1, BlockShape
<1>3. a \in f.blocks /\ (a \in S => TailOf(a) \in f.blocks)
  BY MadeBlocks
<1>4. CASE a \notin S
  <2>1. Lookup(R, v) = v
    BY <1>4, WhatIsReplaced
  <2>2. f.code[a] = KeptCode(a, R, S)
    BY <1>1, <1>4 DEF CodeForm
  <2>3. i \in DOMAIN f.code[a] /\ f.code[a][i].def = v /\ f.code[a][i].op = Body(a)[i].op
    BY <2>2 DEF KeptCode, Renamed
  <2> QED
    BY <1>3, <2>1, <2>3 DEF EndsIn
<1>5. CASE a \in S /\ i < First(a)
  <2>1. Lookup(R, v) = v
    BY <1>2, <1>5, WhatIsReplaced
  <2>2. PICK w : f.code[a] = HeadCode(a, w, R, S)
    BY <1>1, <1>5 DEF CodeForm
  <2>3. i \in 1 .. First(a) + 1
    BY <1>2, <1>5
  <2>4. i \in DOMAIN f.code[a] /\ f.code[a][i].def = v /\ f.code[a][i].op = Body(a)[i].op
    BY <1>5, <2>2, <2>3 DEF HeadCode, Renamed
  <2> QED
    BY <1>3, <2>1, <2>4 DEF EndsIn
<1>6. CASE a \in S /\ ~(i < First(a))
  <2> DEFINE l == TailOf(a)
             u == Reached(a)
             x == InTail(a, u, i, R, S)
  <2>1. i \in First(a) .. Size(a)
    BY <1>2, <1>6
  <2>2. x.def = Lookup(R, v) /\ x.op \in {Body(a)[i].op, "phi"}
    <3>1. CASE i < u
      <4>1. Lookup(R, v) = NewValue(v, "phi")
        BY <1>1, <1>2, <1>6, <2>1, <3>1, WhatIsReplaced
      <4> QED
        BY <3>1, <4>1 DEF InTail, PhiOf
    <3>2. CASE ~(i < u)
      <4>1. Lookup(R, v) = v
        BY <1>1, <1>2, <1>6, <2>1, <3>2, WhatIsReplaced
      <4> QED
        BY <3>2, <4>1 DEF InTail, Renamed
    <3> QED
      BY <3>1, <3>2
  <2>3. \E k \in DOMAIN f.code[l] : f.code[l][k] = x
    <3>1. CASE a = bb
      <4>1. f.code[l] = TailCode(a, u, R, S)
        BY <1>1, <1>6, <3>1 DEF CodeForm
      <4>2. /\ i - First(a) + 1 \in 1 .. Size(a) - First(a) + 1
            /\ First(a) + (i - First(a) + 1) - 1 = i
        BY <1>2, <2>1
      <4> QED
        BY <4>1, <4>2 DEF TailCode
    <3>2. CASE a # bb
      <4>1. f.code[l] = PurgedCode(a, R, S) /\ u = Size(a)
        BY <1>1, <1>6, <3>2 DEF CodeForm, Reached
      <4> QED
        BY <1>1, <2>1, <4>1, StaysInTail
    <3> QED
      BY <3>1, <3>2
  <2>4. l \in f.blocks /\ EndsIn(a, l)
    BY <1>3, <1>6 DEF EndsIn
  <2> HIDE DEF l, x
  <2> QED
    BY <2>2, <2>3, <2>4
<1> QED
  BY <1>4, <1>5, <1>6

\* No invoke returns an integer.  The analysis puts what an invoke returns in
\* reach of its landing pad, where it is not available.
NoIntegerIsInvoked ==
  \A g \in Functions : \A b \in g.blocks : \A i \in DOMAIN g.code[b] :
    g.code[b][i].op = "invoke" => g.code[b][i].def \notin IntegerValues

\* Whatever was cloned before, the value that will decide between the clones
\* of a block, looked up in ReMapper, is an input or is defined in a block that
\* dominates it.
THEOREM ContextStaysAvailable ==
  ASSUME NoIntegerIsInvoked
  PROVE  Spec => []ContextIsAvailable
<1>1. ASSUME ClosedForm PROVE ContextIsAvailable
  <2> SUFFICES ASSUME NEW b \in DOMAIN targets, Lookup(reMapper, targets[b]) \notin Inputs
               PROVE  \E l \in f.blocks : \E k \in DOMAIN f.code[l] :
                        /\ f.code[l][k].def = Lookup(reMapper, targets[b])
                        /\ l # b /\ AvailableIn(f, l, k, b)
    BY DEF ContextIsAvailable
  <2> DEFINE v == targets[b]
  <2>1. /\ F0 \in Functions /\ b \in F0.blocks /\ v \in MayDecide(b)
        /\ SplitBlocks \subseteq F0.blocks /\ DOMAIN reMapper \subseteq Defs(F0)
    BY <1>1, ClosedFacts DEF ClosedForm, ChoiceForm, IsReMapper
  <2>2. v \notin Inputs
    <3>1. Defs(F0) \cap Inputs = {}
      BY <2>1, Received DEF InSSA
    <3> QED
      BY <2>1, <3>1 DEF Lookup
  <2>3. PICK a \in F0.blocks : /\ a # b /\ Dominates(F0, a, b)
                               /\ \E i \in DOMAIN F0.code[a] : F0.code[a][i].def = v
    BY <2>1, <2>2 DEF MayDecide, Above
  <2>4. PICK i \in DOMAIN F0.code[a] : F0.code[a][i].def = v
    BY <2>3
  <2>5. i \in 1 .. Size(a) /\ Body(a)[i] = F0.code[a][i] /\ v # NoValue
    BY <2>1, BlockShape, NamesAssumption DEF Body, MayDecide
  <2>6. Body(a)[i].op # "invoke"
    BY <2>1, <2>4, <2>5 DEF NoIntegerIsInvoked, MayDecide
  <2>7. PICK l \in f.blocks : EndsIn(a, l) /\ \E k \in DOMAIN f.code[l] :
             /\ f.code[l][k].def = Lookup(reMapper, v)
             /\ f.code[l][k].op \in {Body(a)[i].op, "phi"}
    BY <1>1, <2>4, <2>5, WhereDefined
  <2>8. PICK k \in DOMAIN f.code[l] : /\ f.code[l][k].def = Lookup(reMapper, v)
                                      /\ f.code[l][k].op \in {Body(a)[i].op, "phi"}
    BY <2>7
  <2>9. l # b
    BY <2>1, <2>3, <2>7, PartNames DEF EndsIn
  <2>10. Dominates(f, l, b)
    BY <1>1, <2>1, <2>3, <2>7, DominanceIsKept DEF PartOf
  <2>11. AvailableIn(f, l, k, b)
    BY <2>6, <2>8, <2>10 DEF AvailableIn
  <2> QED
    BY <2>8, <2>9, <2>11
<1> QED
  BY <1>1, FunctionHasClosedForm, PTL
-----------------------------------------------------------------------------
(* The IR between two blocks: what stands where.                           *)

Settled == ClosedForm /\ bb = NoBlock

\* Instruction i of block c stands at position j of block x.
Stands(x, j, c, i) ==
  /\ c \in F0.blocks /\ i \in 1 .. Size(c)
  /\ f.code[x][j] = Renamed(Body(c)[i], reMapper, SplitBlocks)
  /\ \/ x = c /\ j = i /\ (c \in SplitBlocks => i < First(c))
     \/ c \in SplitBlocks /\ x = TailOf(c) /\ i = Size(c) /\ j = Len(f.code[x])

\* A clone of it, in the block made for a part.
IsClone(x, j, c, i, part) ==
  /\ c \in SplitBlocks /\ part \in {"then", "else"} /\ i \in First(c) .. Size(c) - 1
  /\ x = NewBlock(c, part) /\ j = i - First(c) + 1
  /\ f.code[x][j] = Cloned(c, i, part, reMapper, SplitBlocks)

\* The PHI that merges the clones.
IsMerge(x, j, c, i) ==
  /\ c \in SplitBlocks /\ i \in First(c) .. Size(c) - 1 /\ Body(c)[i].def # NoValue
  /\ x = TailOf(c) /\ j < Len(f.code[x])
  /\ f.code[x][j] = PhiOf(c, Body(c)[i].def)

\* The test of the context value, and the branch on it.
IsTest(x, j, c, w) ==
  /\ c \in SplitBlocks /\ x = c /\ j = First(c) /\ w \in MayDecide(c)
  /\ f.code[x][j] = IsNull(c, Lookup(reMapper, w))

IsFork(x, j, c) ==
  c \in SplitBlocks /\ x = c /\ j = First(c) + 1 /\ f.code[x][j] = IfNull(c)

IsJump(x, j, c) ==
  c \in SplitBlocks /\ x \in {Then(c), Else(c)} /\ f.code[x][j] = Jump

LEMMA SettledFacts ==
  ASSUME Settled
  PROVE  /\ ClosedForm /\ F0 \in Functions /\ SplitBlocks \subseteq F0.blocks
         /\ \A c \in F0.blocks : Reached(c) = Size(c)
         /\ \A c \in F0.blocks : First(c) \in 1 .. Size(c) /\ Size(c) \in Nat
         /\ IsReMapper(reMapper)
<1>1. /\ ClosedForm /\ F0 \in Functions /\ SplitBlocks \subseteq F0.blocks /\ IsReMapper(reMapper)
  BY ClosedFacts DEF Settled, ClosedForm
<1>2. \A c \in F0.blocks : Reached(c) = Size(c)
  BY <1>1, Received DEF Reached, Settled
<1> QED
  BY <1>1, <1>2, BlockShape

\* The code of the blocks, once no block is being cloned.
LEMMA SettledCode ==
  ASSUME Settled
  PROVE  /\ \A c \in F0.blocks \ SplitBlocks : f.code[c] = KeptCode(c, reMapper, SplitBlocks)
         /\ \A c \in SplitBlocks :
              /\ \E v \in MayDecide(c) : f.code[c] = HeadCode(c, v, reMapper, SplitBlocks)
              /\ \A part \in {"then", "else"} :
                   f.code[NewBlock(c, part)] = CloneCode(c, Size(c), part, reMapper, SplitBlocks)
              /\ f.code[TailOf(c)] = PurgedCode(c, reMapper, SplitBlocks)
<1>1. \A c \in SplitBlocks : c # bb /\ Reached(c) = Size(c)
  BY SettledFacts, Received DEF Settled
<1>2. CodeForm
  BY SettledFacts DEF ClosedForm
<1> QED
  BY <1>1, <1>2 DEF CodeForm

LEMMA KeptKinds ==
  ASSUME Settled, NEW c \in F0.blocks \ SplitBlocks, NEW j \in DOMAIN f.code[c]
  PROVE  Stands(c, j, c, j)
<1>1. f.code[c] = KeptCode(c, reMapper, SplitBlocks)
  BY SettledCode
<1> QED
  BY <1>1 DEF KeptCode, Stands

LEMMA HeadKinds ==
  ASSUME Settled, NEW c \in SplitBlocks
  PROVE  \E w \in MayDecide(c) :
           /\ DOMAIN f.code[c] = 1 .. First(c) + 1
           /\ \A j \in 1 .. First(c) - 1 : Stands(c, j, c, j)
           /\ IsTest(c, First(c), c, w) /\ IsFork(c, First(c) + 1, c)
<1>1. c \in F0.blocks /\ First(c) \in 1 .. Size(c) /\ Size(c) \in Nat
  BY SettledFacts
<1>2. PICK w \in MayDecide(c) : f.code[c] = HeadCode(c, w, reMapper, SplitBlocks)
  BY SettledCode
<1>3. DOMAIN f.code[c] = 1 .. First(c) + 1
  BY <1>2 DEF HeadCode
<1>4. ASSUME NEW j \in 1 .. First(c) - 1 PROVE Stands(c, j, c, j)
  <2>1. j \in 1 .. First(c) + 1 /\ j < First(c) /\ j \in 1 .. Size(c)
    BY <1>1
  <2>2. f.code[c][j] = Renamed(Body(c)[j], reMapper, SplitBlocks)
    BY <1>2, <2>1 DEF HeadCode
  <2> QED
    BY <1>1, <2>1, <2>2 DEF Stands
<1>5. IsTest(c, First(c), c, w) /\ IsFork(c, First(c) + 1, c)
  BY <1>1, <1>2 DEF HeadCode, IsTest, IsFork
<1> QED
  BY <1>3, <1>4, <1>5

LEMMA CloneKinds ==
  ASSUME Settled, NEW c \in SplitBlocks, NEW part \in {"then", "else"}
  PROVE  /\ DOMAIN f.code[NewBlock(c, part)] = 1 .. Size(c) - First(c) + 1
         /\ \A i \in First(c) .. Size(c) - 1 : IsClone(NewBlock(c, part), i - First(c) + 1, c, i, part)
         /\ IsJump(NewBlock(c, part), Size(c) - First(c) + 1, c)
<1> DEFINE x == NewBlock(c, part)
<1>1. c \in F0.blocks /\ First(c) \in 1 .. Size(c) /\ Size(c) \in Nat
  BY SettledFacts
<1>2. f.code[x] = CloneCode(c, Size(c), part, reMapper, SplitBlocks)
  BY SettledCode
<1>3. DOMAIN f.code[x] = 1 .. Size(c) - First(c) + 1
  BY <1>2 DEF CloneCode
<1>4. ASSUME NEW i \in First(c) .. Size(c) - 1 PROVE IsClone(x, i - First(c) + 1, c, i, part)
  <2> DEFINE j == i - First(c) + 1
  <2>1. j \in 1 .. Size(c) - First(c) + 1 /\ j # Size(c) - First(c) + 1 /\ First(c) + j - 1 = i
    BY <1>1
  <2>2. f.code[x][j] = Cloned(c, i, part, reMapper, SplitBlocks)
    BY <1>2, <2>1 DEF CloneCode
  <2> QED
    BY <2>2 DEF IsClone
<1>5. IsJump(x, Size(c) - First(c) + 1, c)
  <2>1. f.code[x][Size(c) - First(c) + 1] = Jump
    BY <1>1, <1>2 DEF CloneCode
  <2> QED
    BY <2>1 DEF IsJump, Then, Else
<1> QED
  BY <1>3, <1>4, <1>5

\* In the tail, PHIs for the values come first, and the terminator last.
LEMMA TailKinds ==
  ASSUME Settled, NEW c \in SplitBlocks
  PROVE  LET m == Len(f.code[TailOf(c)]) IN
         /\ m \in Nat /\ DOMAIN f.code[TailOf(c)] = 1 .. m
         /\ m \in DOMAIN f.code[TailOf(c)] /\ Stands(TailOf(c), m, c, Size(c))
         /\ \A j \in 1 .. m - 1 : \E i \in First(c) .. Size(c) - 1 : IsMerge(TailOf(c), j, c, i)
<1> DEFINE R == reMapper
           S == SplitBlocks
           n == Size(c) - First(c) + 1
           s == TailCode(c, Size(c), R, S)
           P == VoidsUpTo(c, Size(c))
           t == f.code[TailOf(c)]
           m == Cardinality((1 .. n) \ P)
<1>1. c \in F0.blocks /\ First(c) \in 1 .. Size(c) /\ Size(c) \in Nat
  BY SettledFacts
<1>2. n \in Nat /\ n \in 1 .. n /\ First(c) + n - 1 = Size(c)
  BY <1>1
<1>3. DOMAIN s = 1 .. n
  BY DEF TailCode
<1>4. t = Without(s, P)
  BY SettledCode DEF PurgedCode
<1>5. s[n] = Renamed(Body(c)[Size(c)], R, S)
  BY <1>1, <1>2 DEF TailCode, InTail
<1>6. n \notin P
  <2>1. n \notin 1 .. Size(c) - First(c)
    BY <1>1
  <2> QED
    BY <2>1 DEF VoidsUpTo
<1>7. \A j \in (1 .. n) \ P : j # n =>
        \E i \in First(c) .. Size(c) - 1 : Body(c)[i].def # NoValue /\ s[j] = PhiOf(c, Body(c)[i].def)
  <2> TAKE j \in (1 .. n) \ P
  <2> HAVE j # n
  <2> DEFINE i == First(c) + j - 1
  <2>1. j \in 1 .. Size(c) - First(c) /\ i \in First(c) .. Size(c) - 1 /\ i < Size(c)
    BY <1>1
  <2>2. Body(c)[i].def # NoValue
    BY <2>1 DEF VoidsUpTo
  <2>3. s[j] = PhiOf(c, Body(c)[i].def)
    BY <2>1, <2>2 DEF TailCode, InTail
  <2> QED
    BY <2>1, <2>2, <2>3
<1>8. PICK e : KeepsOrder(e, n, P)
  BY <1>2, WithoutKeepsOrder
<1> HIDE DEF s, P, n
<1>9. /\ m \in Nat /\ t = [k \in 1 .. m |-> s[e[k]]]
      /\ \A k \in 1 .. m : e[k] \in (1 .. n) \ P
      /\ \A k, l \in 1 .. m : k < l => e[k] < e[l]
      /\ \A i \in (1 .. n) \ P : \E k \in 1 .. m : e[k] = i
  BY <1>3, <1>4, <1>8 DEF KeepsOrder, ListsUp
<1> HIDE DEF m, t
<1>10. Len(t) = m /\ DOMAIN t = 1 .. m
  <2>1. t = [k \in 1 .. m |-> t[k]]
    BY <1>9
  <2> QED
    BY <1>9, <2>1, ListOf
<1>11. m \in 1 .. m /\ e[m] = n /\ \A k \in 1 .. m - 1 : e[k] # n
  <2>1. PICK k \in 1 .. m : e[k] = n
    BY <1>2, <1>6, <1>9
  <2>2. m \in 1 .. m /\ e[m] \in 1 .. n /\ (k < m => e[k] < e[m])
    BY <1>9
  <2>3. k = m
    BY <1>2, <1>9, <2>1, <2>2
  <2>4. \A l \in 1 .. m - 1 : l \in 1 .. m /\ l < m /\ e[l] < e[m] /\ e[l] \in 1 .. n
    BY <1>9, <2>2
  <2> QED
    BY <1>2, <2>1, <2>2, <2>3, <2>4
<1>12. t[m] = Renamed(Body(c)[Size(c)], R, S)
  BY <1>5, <1>9, <1>11
<1>13. ASSUME NEW j \in 1 .. m - 1
       PROVE  \E i \in First(c) .. Size(c) - 1 : Body(c)[i].def # NoValue /\ t[j] = PhiOf(c, Body(c)[i].def)
  <2>1. j \in 1 .. m /\ e[j] \in (1 .. n) \ P /\ e[j] # n /\ t[j] = s[e[j]]
    BY <1>9, <1>11
  <2> QED
    BY <1>7, <2>1
<1>14. Stands(TailOf(c), m, c, Size(c))
  <2>1. f.code[TailOf(c)][m] = Renamed(Body(c)[Size(c)], R, S) /\ m = Len(f.code[TailOf(c)])
    BY <1>10, <1>12 DEF t
  <2>2. Size(c) \in 1 .. Size(c)
    BY <1>1
  <2> QED
    BY <1>1, <2>1, <2>2 DEF Stands
<1>15. \A j \in 1 .. m - 1 : \E i \in First(c) .. Size(c) - 1 : IsMerge(TailOf(c), j, c, i)
  <2> TAKE j \in 1 .. m - 1
  <2>1. PICK i \in First(c) .. Size(c) - 1 : Body(c)[i].def # NoValue /\ t[j] = PhiOf(c, Body(c)[i].def)
    BY <1>13
  <2>2. j < Len(f.code[TailOf(c)]) /\ f.code[TailOf(c)][j] = PhiOf(c, Body(c)[i].def)
    BY <1>9, <1>10, <2>1 DEF t
  <2> QED
    BY <2>1, <2>2 DEF IsMerge
<1> QED
  BY <1>9, <1>10, <1>11, <1>14, <1>15 DEF t

\* Each instruction of the function is one of these.
LEMMA EachKind ==
  ASSUME Settled, NEW x \in f.blocks, NEW j \in DOMAIN f.code[x]
  PROVE  \/ \E c \in F0.blocks : \E i \in 1 .. Size(c) : Stands(x, j, c, i)
         \/ \E c \in SplitBlocks : \E i \in First(c) .. Size(c) - 1 : \E part \in {"then", "else"} :
              IsClone(x, j, c, i, part)
         \/ \E c \in SplitBlocks : \E i \in First(c) .. Size(c) - 1 : IsMerge(x, j, c, i)
         \/ \E c \in SplitBlocks : \E w \in MayDecide(c) : IsTest(x, j, c, w)
         \/ \E c \in SplitBlocks : IsFork(x, j, c) \/ IsJump(x, j, c)
<1>1. CASE x \in F0.blocks \ SplitBlocks
  <2>1. Stands(x, j, x, j)
    BY <1>1, KeptKinds
  <2> QED
    BY <2>1 DEF Stands
<1>2. CASE x \in SplitBlocks
  <2>1. x \in F0.blocks /\ First(x) \in 1 .. Size(x) /\ Size(x) \in Nat
    BY <1>2, SettledFacts
  <2>2. PICK w \in MayDecide(x) :
           /\ DOMAIN f.code[x] = 1 .. First(x) + 1
           /\ \A k \in 1 .. First(x) - 1 : Stands(x, k, x, k)
           /\ IsTest(x, First(x), x, w) /\ IsFork(x, First(x) + 1, x)
    BY <1>2, HeadKinds
  <2>3. CASE j \in 1 .. First(x) - 1
    <3>1. Stands(x, j, x, j)
      BY <2>2, <2>3
    <3> QED
      BY <3>1 DEF Stands
  <2>4. CASE j = First(x)
    BY <1>2, <2>2, <2>4
  <2>5. CASE j = First(x) + 1
    BY <1>2, <2>2, <2>5
  <2> QED
    BY <2>1, <2>2, <2>3, <2>4, <2>5
<1>3. ASSUME NEW c \in SplitBlocks, NEW part \in {"then", "else"}, x = NewBlock(c, part)
      PROVE  \/ \E i \in First(c) .. Size(c) - 1 : IsClone(x, j, c, i, part)
             \/ IsJump(x, j, c)
  <2>1. c \in F0.blocks /\ First(c) \in 1 .. Size(c) /\ Size(c) \in Nat
    BY SettledFacts
  <2>2. /\ j \in 1 .. Size(c) - First(c) + 1
        /\ \A i \in First(c) .. Size(c) - 1 : IsClone(x, i - First(c) + 1, c, i, part)
        /\ IsJump(x, Size(c) - First(c) + 1, c)
    BY <1>3, CloneKinds
  <2>3. CASE j = Size(c) - First(c) + 1
    BY <2>2, <2>3
  <2>4. CASE j # Size(c) - First(c) + 1
    <3>1. First(c) + j - 1 \in First(c) .. Size(c) - 1 /\ (First(c) + j - 1) - First(c) + 1 = j
      BY <2>1, <2>2, <2>4
    <3> QED
      BY <2>2, <3>1
  <2> QED
    BY <2>3, <2>4
<1>4. ASSUME NEW c \in SplitBlocks, x = TailOf(c)
      PROVE  \/ Stands(x, j, c, Size(c))
             \/ \E i \in First(c) .. Size(c) - 1 : IsMerge(x, j, c, i)
  <2> DEFINE m == Len(f.code[TailOf(c)])
  <2>1. /\ m \in Nat /\ j \in 1 .. m /\ Stands(x, m, c, Size(c))
        /\ \A k \in 1 .. m - 1 : \E i \in First(c) .. Size(c) - 1 : IsMerge(x, k, c, i)
    BY <1>4, TailKinds
  <2> HIDE DEF m
  <2>2. j = m \/ j \in 1 .. m - 1
    BY <2>1
  <2> QED
    BY <2>1, <2>2
<1>5. x \in F0.blocks \/ \E c \in SplitBlocks : x = NewBlock(c, "then") \/ x = NewBlock(c, "else") \/ x = TailOf(c)
  BY SettledFacts, MadeBlocks DEF Then, Else
<1>6. \A c : Stands(x, j, c, Size(c)) => c \in F0.blocks /\ Size(c) \in 1 .. Size(c)
  BY DEF Stands
<1> QED
  BY <1>1, <1>2, <1>3, <1>4, <1>5, <1>6, SettledFacts

LEMMA CodeIsAList ==
  ASSUME Settled, NEW x \in f.blocks
  PROVE  Len(f.code[x]) \in Nat /\ DOMAIN f.code[x] = 1 .. Len(f.code[x])
<1>1. /\ SplitBlocks \subseteq F0.blocks /\ ClosedForm
      /\ \A c \in F0.blocks : First(c) \in 1 .. Size(c) /\ Size(c) \in Nat
  BY SettledFacts
<1>2. ASSUME NEW n \in Nat, f.code[x] = [k \in 1 .. n |-> f.code[x][k]]
      PROVE  Len(f.code[x]) \in Nat /\ DOMAIN f.code[x] = 1 .. Len(f.code[x])
  BY <1>2, ListOf
<1>3. CASE x \in F0.blocks \ SplitBlocks
  <2>1. f.code[x] = [k \in 1 .. Size(x) |-> f.code[x][k]]
    BY <1>3, SettledCode DEF KeptCode
  <2> QED
    BY <1>1, <1>2, <1>3, <2>1
<1>4. CASE x \in SplitBlocks
  <2>1. f.code[x] = [k \in 1 .. First(x) + 1 |-> f.code[x][k]]
    BY <1>4, SettledCode DEF HeadCode
  <2>2. First(x) + 1 \in Nat
    BY <1>1, <1>4
  <2> QED
    BY <1>2, <2>1, <2>2
<1>5. ASSUME NEW c \in SplitBlocks, NEW part \in {"then", "else"}, x = NewBlock(c, part)
      PROVE  Len(f.code[x]) \in Nat /\ DOMAIN f.code[x] = 1 .. Len(f.code[x])
  <2>1. f.code[x] = [k \in 1 .. Size(c) - First(c) + 1 |-> f.code[x][k]]
    <3>1. f.code[x] = CloneCode(c, Size(c), part, reMapper, SplitBlocks)
      BY <1>5, SettledCode
    <3> DEFINE X == CloneCode(c, Size(c), part, reMapper, SplitBlocks)
    <3>2. X = [k \in 1 .. Size(c) - First(c) + 1 |-> X[k]]
      BY DEF CloneCode
    <3> HIDE DEF X
    <3>3. f.code[x] = X
      BY <3>1 DEF X
    <3> QED BY <3>2, <3>3
  <2>2. Size(c) - First(c) + 1 \in Nat
    BY <1>1
  <2> QED
    BY <1>2, <2>1, <2>2
<1>6. ASSUME NEW c \in SplitBlocks, x = TailOf(c)
      PROVE  Len(f.code[x]) \in Nat /\ DOMAIN f.code[x] = 1 .. Len(f.code[x])
  BY <1>6, TailKinds
<1> QED
  BY <1>1, <1>3, <1>4, <1>5, <1>6, MadeBlocks DEF Then, Else
-----------------------------------------------------------------------------
(* Which instruction defines a value, and that there is one.               *)

\* The value an instruction of the function defines, by its kind.
LEMMA DefOfKinds ==
  /\ \A x, j, c, i : Stands(x, j, c, i) => f.code[x][j].def = Body(c)[i].def
  /\ \A x, j, c, i, part : IsClone(x, j, c, i, part) =>
       f.code[x][j].def = IF Body(c)[i].def = NoValue THEN NoValue ELSE NewValue(Body(c)[i].def, part)
  /\ \A x, j, c, i : IsMerge(x, j, c, i) => f.code[x][j].def = NewValue(Body(c)[i].def, "phi")
  /\ \A x, j, c, w : IsTest(x, j, c, w) => f.code[x][j].def = NewValue(c, "cond")
  /\ \A x, j, c : IsFork(x, j, c) \/ IsJump(x, j, c) => f.code[x][j].def = NoValue
<1>1. \A x, j, c, i : Stands(x, j, c, i) => f.code[x][j].def = Body(c)[i].def
  BY DEF Stands, Renamed
<1>2. \A x, j, c, i, part : IsClone(x, j, c, i, part) =>
        f.code[x][j].def = IF Body(c)[i].def = NoValue THEN NoValue ELSE NewValue(Body(c)[i].def, part)
  BY DEF IsClone, Cloned
<1>3. \A x, j, c, i : IsMerge(x, j, c, i) => f.code[x][j].def = NewValue(Body(c)[i].def, "phi")
  BY DEF IsMerge, PhiOf
<1>4. \A x, j, c, w : IsTest(x, j, c, w) => f.code[x][j].def = NewValue(c, "cond")
  BY DEF IsTest, IsNull
<1>5. \A x, j, c : IsFork(x, j, c) \/ IsJump(x, j, c) => f.code[x][j].def = NoValue
  BY DEF IsFork, IfNull, IsJump, Jump
<1> QED
  BY <1>1, <1>2, <1>3, <1>4, <1>5

\* The names of values say by what they are defined.
LEMMA DefNames ==
  ASSUME Settled, NEW x \in f.blocks, NEW j \in DOMAIN f.code[x], f.code[x][j].def # NoValue
  PROVE  LET d == f.code[x][j].def IN
         \/ /\ d \in Defs(F0)
            /\ \E c \in F0.blocks : \E i \in 1 .. Size(c) : Stands(x, j, c, i) /\ d = Body(c)[i].def
         \/ \E c \in SplitBlocks : \E i \in First(c) .. Size(c) - 1 : \E part \in {"then", "else"} :
              /\ Body(c)[i].def \in Defs(F0) /\ d = NewValue(Body(c)[i].def, part)
              /\ IsClone(x, j, c, i, part)
         \/ \E c \in SplitBlocks : \E i \in First(c) .. Size(c) - 1 :
              /\ Body(c)[i].def \in Defs(F0) /\ d = NewValue(Body(c)[i].def, "phi")
              /\ IsMerge(x, j, c, i)
         \/ \E c \in SplitBlocks : \E w \in MayDecide(c) : d = NewValue(c, "cond") /\ IsTest(x, j, c, w)
<1> DEFINE d == f.code[x][j].def
<1>1. /\ F0 \in Functions /\ SplitBlocks \subseteq F0.blocks
      /\ \A c \in F0.blocks : First(c) \in 1 .. Size(c) /\ Size(c) \in Nat
  BY SettledFacts
<1>2. \A c \in F0.blocks : \A i \in 1 .. Size(c) : Body(c)[i].def # NoValue => Body(c)[i].def \in Defs(F0)
  BY <1>1, InstructionShape
<1>3. \A c \in SplitBlocks : \A i \in First(c) .. Size(c) - 1 : c \in F0.blocks /\ i \in 1 .. Size(c)
  BY <1>1
<1>4. ASSUME NEW c \in F0.blocks, NEW i \in 1 .. Size(c), Stands(x, j, c, i)
      PROVE  d \in Defs(F0) /\ d = Body(c)[i].def
  BY <1>2, <1>4, DefOfKinds
<1>5. ASSUME NEW c \in SplitBlocks, NEW i \in First(c) .. Size(c) - 1, NEW part \in {"then", "else"},
             IsClone(x, j, c, i, part)
      PROVE  Body(c)[i].def \in Defs(F0) /\ d = NewValue(Body(c)[i].def, part)
  BY <1>2, <1>3, <1>5, DefOfKinds
<1>6. ASSUME NEW c \in SplitBlocks, NEW i \in First(c) .. Size(c) - 1, IsMerge(x, j, c, i)
      PROVE  Body(c)[i].def \in Defs(F0) /\ d = NewValue(Body(c)[i].def, "phi")
  <2>1. c \in F0.blocks /\ i \in 1 .. Size(c) /\ Body(c)[i].def # NoValue
    BY <1>3, <1>6 DEF IsMerge
  <2> QED
    BY <1>2, <1>6, <2>1, DefOfKinds
<1>7. ASSUME NEW c \in SplitBlocks, NEW w \in MayDecide(c), IsTest(x, j, c, w)
      PROVE  d = NewValue(c, "cond")
  BY <1>7, DefOfKinds
<1>8. \A c : ~IsFork(x, j, c) /\ ~IsJump(x, j, c)
  BY DefOfKinds
<1> QED
  BY <1>4, <1>5, <1>6, <1>7, <1>8, EachKind

\* A value of the function received is defined where it was, or by its PHI.
IsAt(x, j, c, i) == Stands(x, j, c, i) \/ IsMerge(x, j, c, i)

LEMMA DefinedByOriginal ==
  ASSUME Settled, NEW x \in f.blocks, NEW j \in DOMAIN f.code[x],
         NEW v \in Inputs \cup Defs(F0), f.code[x][j].def # NoValue,
         f.code[x][j].def = Lookup(reMapper, v)
  PROVE  \E c \in F0.blocks : \E i \in 1 .. Size(c) : v = Body(c)[i].def /\ IsAt(x, j, c, i)
<1> DEFINE d == f.code[x][j].def
<1>1. /\ F0 \in Functions /\ SplitBlocks \subseteq F0.blocks /\ IsReMapper(reMapper)
      /\ \A c \in F0.blocks : First(c) \in 1 .. Size(c) /\ Size(c) \in Nat
  BY SettledFacts
<1>2. d = v \/ (v \in Defs(F0) /\ d = NewValue(v, "phi"))
  BY <1>1 DEF IsReMapper, Lookup
<1>3. \A c \in SplitBlocks : \A i \in First(c) .. Size(c) - 1 : c \in F0.blocks /\ i \in 1 .. Size(c)
  BY <1>1
<1>4. \A w \in Defs(F0) \cup F0.blocks : \A p \in {"then", "else", "phi", "cond"} :
        NewValue(w, p) \notin Inputs \cup Defs(F0)
  BY <1>1, ValueNames
<1>5. CASE d \in Defs(F0) /\ \E c \in F0.blocks : \E i \in 1 .. Size(c) : Stands(x, j, c, i) /\ d = Body(c)[i].def
  <2>1. d = v
    BY <1>2, <1>4, <1>5
  <2> QED
    BY <1>5, <2>1 DEF IsAt
<1>6. ASSUME NEW c \in SplitBlocks, NEW i \in First(c) .. Size(c) - 1, NEW part \in {"then", "else"},
             Body(c)[i].def \in Defs(F0), d = NewValue(Body(c)[i].def, part)
      PROVE  FALSE
  <2>1. d # v
    BY <1>4, <1>6
  <2>2. v \in Defs(F0) /\ NewValue(v, "phi") = NewValue(Body(c)[i].def, part)
    BY <1>2, <1>6, <2>1
  <2> QED
    BY <1>1, <1>6, <2>2, ValueNames
<1>7. ASSUME NEW c \in SplitBlocks, NEW i \in First(c) .. Size(c) - 1,
             Body(c)[i].def \in Defs(F0), d = NewValue(Body(c)[i].def, "phi"), IsMerge(x, j, c, i)
      PROVE  \E e \in F0.blocks : \E k \in 1 .. Size(e) : v = Body(e)[k].def /\ IsAt(x, j, e, k)
  <2>1. d # v
    BY <1>4, <1>7
  <2>2. v \in Defs(F0) /\ NewValue(v, "phi") = NewValue(Body(c)[i].def, "phi")
    BY <1>2, <1>7, <2>1
  <2>3. v = Body(c)[i].def
    BY <1>1, <1>7, <2>2, ValueNames
  <2> QED
    BY <1>3, <1>7, <2>3 DEF IsAt
<1>8. ASSUME NEW c \in SplitBlocks, d = NewValue(c, "cond") PROVE FALSE
  <2>1. d # v
    BY <1>1, <1>4, <1>8
  <2>2. v \in Defs(F0) /\ NewValue(v, "phi") = NewValue(c, "cond")
    BY <1>2, <1>8, <2>1
  <2> QED
    BY <1>1, <2>2, ValueNames
<1> QED
  BY <1>5, <1>6, <1>7, <1>8, DefNames

\* The clone of a value is defined by its clone, ...
LEMMA DefinedByClone ==
  ASSUME Settled, NEW x \in f.blocks, NEW j \in DOMAIN f.code[x],
         NEW c \in SplitBlocks, NEW i \in First(c) .. Size(c) - 1, Body(c)[i].def # NoValue,
         NEW part \in {"then", "else"}, f.code[x][j].def = NewValue(Body(c)[i].def, part)
  PROVE  IsClone(x, j, c, i, part)
<1> DEFINE d == f.code[x][j].def
           v == Body(c)[i].def
<1>1. /\ F0 \in Functions /\ SplitBlocks \subseteq F0.blocks
      /\ \A e \in F0.blocks : First(e) \in 1 .. Size(e) /\ Size(e) \in Nat
  BY SettledFacts
<1>2. \A e \in SplitBlocks : \A k \in First(e) .. Size(e) - 1 : e \in F0.blocks /\ k \in 1 .. Size(e)
  BY <1>1
<1>3. v \in Defs(F0) /\ c \in F0.blocks /\ i \in 1 .. Size(c)
  BY <1>1, <1>2, InstructionShape
<1>4. d # NoValue /\ d \notin Defs(F0)
  BY <1>1, <1>3, ValueNames
<1>5. \A w \in Defs(F0) \cup F0.blocks : \A q \in {"then", "else", "phi", "cond"} :
        d = NewValue(w, q) => v = w /\ part = q
  <2>1. d = NewValue(v, part)
    OBVIOUS
  <2>2. v \in Defs(F0) /\ part \in {"then", "else", "phi", "cond"}
    BY <1>3
  <2> HIDE DEF d, v
  <2>3. \A w \in Defs(F0) \cup F0.blocks : \A q \in {"then", "else", "phi", "cond"} :
          NewValue(v, part) = NewValue(w, q) => v = w /\ part = q
    BY <1>1, <2>2, ValueNames
  <2> QED
    BY <2>1, <2>3
<1> HIDE DEF d, v
<1>6. ASSUME NEW e \in SplitBlocks, NEW k \in First(e) .. Size(e) - 1, NEW q \in {"then", "else"},
             Body(e)[k].def \in Defs(F0), d = NewValue(Body(e)[k].def, q), IsClone(x, j, e, k, q)
      PROVE  IsClone(x, j, c, i, part)
  <2>1. Body(e)[k].def = v /\ q = part
    BY <1>6, <1>5
  <2>2. e \in F0.blocks /\ k \in 1 .. Size(e)
    BY <1>2
  <2>3. e = c /\ k = i
    BY <1>1, <1>3, <2>1, <2>2, OneDefinition DEF v
  <2> QED
    BY <1>6, <2>1, <2>3
<1>7. ASSUME NEW e \in SplitBlocks, NEW k \in First(e) .. Size(e) - 1,
             Body(e)[k].def \in Defs(F0), d = NewValue(Body(e)[k].def, "phi")
      PROVE  FALSE
  BY <1>7, <1>5
<1>8. ASSUME NEW e \in SplitBlocks, d = NewValue(e, "cond") PROVE FALSE
  BY <1>1, <1>8, <1>5
<1> QED
  BY <1>4, <1>6, <1>7, <1>8, DefNames DEF d

\* ... and the condition of a head by its test.
LEMMA DefinedByTest ==
  ASSUME Settled, NEW x \in f.blocks, NEW j \in DOMAIN f.code[x],
         NEW c \in SplitBlocks, f.code[x][j].def = NewValue(c, "cond")
  PROVE  x = c /\ j = First(c)
<1> DEFINE d == f.code[x][j].def
<1>1. F0 \in Functions /\ SplitBlocks \subseteq F0.blocks
  BY SettledFacts
<1>2. d # NoValue /\ d \notin Defs(F0)
  BY <1>1, ValueNames
<1>3. ASSUME NEW v \in Defs(F0), NEW p \in {"then", "else", "phi"}, d = NewValue(v, p) PROVE FALSE
  BY <1>1, <1>3, ValueNames
<1>4. ASSUME NEW e \in SplitBlocks, NEW w, d = NewValue(e, "cond"), IsTest(x, j, e, w)
      PROVE  x = c /\ j = First(c)
  <2>1. e = c
    BY <1>1, <1>4, ValueNames
  <2> QED
    BY <1>4, <2>1 DEF IsTest
<1> QED
  BY <1>2, <1>3, <1>4, DefNames

\* No input is defined.
LEMMA InputsStayInputs ==
  ASSUME Settled
  PROVE  Defs(f) \cap Inputs = {}
<1> SUFFICES ASSUME NEW x \in f.blocks, NEW j \in DOMAIN f.code[x],
                    f.code[x][j].def # NoValue, f.code[x][j].def \in Inputs
             PROVE  FALSE
  BY DEF Defs
<1>1. /\ F0 \in Functions /\ SplitBlocks \subseteq F0.blocks /\ Defs(F0) \cap Inputs = {}
  BY SettledFacts, Received DEF InSSA
<1>2. \A w \in Defs(F0) \cup F0.blocks : \A p \in {"then", "else", "phi", "cond"} :
        NewValue(w, p) \notin Inputs
  BY <1>1, ValueNames
<1> QED
  BY <1>1, <1>2, DefNames

\* What was defined still is, under the name ReMapper knows.
LEMMA StillDefined ==
  ASSUME Settled, NEW v \in Inputs \cup Defs(F0)
  PROVE  Lookup(reMapper, v) \in Inputs \cup Defs(f)
<1>1. F0 \in Functions /\ IsReMapper(reMapper) /\ Defs(F0) \cap Inputs = {}
  BY SettledFacts, Received DEF InSSA
<1>2. CASE v \in Inputs
  BY <1>1, <1>2 DEF IsReMapper, Lookup
<1>3. CASE v \in Defs(F0)
  <2>1. PICK a \in F0.blocks : \E i \in DOMAIN F0.code[a] : F0.code[a][i].def = v
    BY <1>3 DEF Defs
  <2>2. PICK i \in DOMAIN F0.code[a] : F0.code[a][i].def = v
    BY <2>1
  <2>3. i \in 1 .. Size(a) /\ Body(a)[i].def = v /\ v # NoValue
    BY <1>1, <1>3, <2>2, BlockShape DEF Body, Defs
  <2>4. PICK l \in f.blocks : \E k \in DOMAIN f.code[l] : f.code[l][k].def = Lookup(reMapper, v)
    BY <2>3, SettledFacts, WhereDefined
  <2>5. Lookup(reMapper, v) # NoValue
    BY <1>1, <1>3, <2>3, ValueNames DEF IsReMapper, Lookup
  <2> QED
    BY <2>4, <2>5 DEF Defs
<1> QED
  BY <1>2, <1>3
-----------------------------------------------------------------------------
(* What is reachable, and what is available where.                         *)

\* g is g0 with the split blocks in their parts; edges may be missing.
Expands(g0, g) ==
  /\ ControlFlowGraph(g0) /\ ControlFlowGraph(g) /\ g.entry = g0.entry
  /\ g0.blocks = F0.blocks
  /\ \A c \in F0.blocks \ SplitBlocks : Range(g.succ[c]) \subseteq Range(g0.succ[c])
  /\ \A c \in SplitBlocks :
       /\ Range(g.succ[c]) = {Then(c), Else(c)}
       /\ Range(g.succ[Then(c)]) = {TailOf(c)} /\ Range(g.succ[Else(c)]) = {TailOf(c)}
       /\ Range(g.succ[TailOf(c)]) \subseteq Range(g0.succ[c])

\* A part of a block is reachable only if the block was.
LEMMA ReachableParts ==
  ASSUME ClosedForm, NEW g0, NEW g, Expands(g0, g), NEW c \in F0.blocks, NEW x, PartOf(c, x),
         x \in Reachable(g)
  PROVE  c \in Reachable(g0)
<1> DEFINE A == Reachable(g0)
           parts == UNION {{Then(d), Else(d), TailOf(d)} : d \in A \cap SplitBlocks}
           X == A \cup parts
<1>1. F0 \in Functions /\ SplitBlocks \subseteq F0.blocks
  BY ClosedFacts DEF ClosedForm
<1>2. A \subseteq F0.blocks /\ g.entry \in A /\ \A d \in A : Range(g0.succ[d]) \subseteq A
  BY ReachableIsClosed DEF Expands
<1> HIDE DEF A
<1>3. ASSUME NEW y \in X PROVE Range(g.succ[y]) \subseteq X
  <2>1. CASE y \in A \ SplitBlocks
    BY <1>2, <2>1 DEF Expands
  <2>2. CASE y \in A \cap SplitBlocks
    <3>1. Range(g.succ[y]) = {Then(y), Else(y)}
      BY <2>2 DEF Expands
    <3> QED
      BY <2>2, <3>1
  <2>3. ASSUME NEW d \in A \cap SplitBlocks, y = Then(d) \/ y = Else(d) PROVE Range(g.succ[y]) \subseteq X
    <3>1. Range(g.succ[y]) = {TailOf(d)}
      BY <2>3 DEF Expands
    <3> QED
      BY <3>1
  <2>4. ASSUME NEW d \in A \cap SplitBlocks, y = TailOf(d) PROVE Range(g.succ[y]) \subseteq X
    BY <1>2, <2>4 DEF Expands
  <2> QED
    BY <2>1, <2>2, <2>3, <2>4
<1>4. Reachable(g) \subseteq X
  <2> HIDE DEF X
  <2>1. g.entry \in X
    BY <1>2 DEF X
  <2> QED
    BY <1>3, <2>1, ClosedHoldsReachable DEF Expands
<1>5. x \in A \/ \E d \in A \cap SplitBlocks : x \in {Then(d), Else(d), TailOf(d)}
  BY <1>4
<1>6. CASE x = c
  <2>1. \A d \in SplitBlocks : c \notin {Then(d), Else(d), TailOf(d)}
    BY <1>1, PartNames
  <2> QED
    BY <1>5, <1>6, <2>1 DEF A
<1>7. CASE c \in SplitBlocks /\ x \in {Then(c), Else(c), TailOf(c)}
  <2>1. x \notin A
    BY <1>1, <1>2, <1>7, PartNames
  <2>2. \A d \in SplitBlocks : x \in {Then(d), Else(d), TailOf(d)} => d = c
    BY <1>1, <1>7, PartNames
  <2> QED
    BY <1>5, <2>1, <2>2 DEF A
<1> QED
  BY <1>6, <1>7 DEF PartOf

\* The edges of the function, as sets.
LEMMA EdgesNow ==
  ASSUME ClosedForm
  PROVE  Expands(F0, f)
<1>1. F0 \in Functions /\ GraphForm
  BY DEF ClosedForm
<1>2. ControlFlowGraph(F0) /\ ControlFlowGraph(f) /\ f.entry = F0.entry
  BY <1>1, Received, StillAGraph
<1>3. \A u, w : Range(<<u, w>>) = {u, w} /\ Range(<<u>>) = {u}
  BY DEF Range
<1> QED
  BY <1>1, <1>2, <1>3 DEF Expands, GraphForm

\* The head of a split block dominates its parts.
LEMMA HeadDominatesParts ==
  ASSUME ClosedForm, NEW c \in SplitBlocks, NEW x \in {Then(c), Else(c), TailOf(c)}
  PROVE  Dominates(f, c, x)
<1> DEFINE Y == f.blocks \ {c, Then(c), Else(c), TailOf(c)}
<1>1. F0 \in Functions /\ SplitBlocks \subseteq F0.blocks /\ c \in F0.blocks
  BY ClosedFacts DEF ClosedForm
<1>2. Expands(F0, f)
  BY EdgesNow
<1>3. /\ F0.entry \in F0.blocks /\ F0.blocks \subseteq f.blocks
      /\ \A d \in F0.blocks : Range(F0.succ[d]) \subseteq F0.blocks
      /\ \A d \in SplitBlocks : {Then(d), Else(d), TailOf(d)} \subseteq f.blocks
      /\ \A y \in f.blocks \ F0.blocks : \E d \in SplitBlocks : y \in {Then(d), Else(d), TailOf(d)}
  BY <1>1, Received, MadeBlocks
<1>4. F0.blocks \subseteq Y \cup {c}
  BY <1>1, <1>3, PartNames
<1>5. \A d \in SplitBlocks : d # c => {Then(d), Else(d), TailOf(d)} \subseteq Y
  BY <1>1, <1>3, PartNames
<1> HIDE DEF Y
<1>6. ASSUME NEW y \in Y PROVE Range(f.succ[y]) \subseteq Y \cup {c}
  <2>1. y \in f.blocks \ {c, Then(c), Else(c), TailOf(c)}
    BY DEF Y
  <2>2. CASE y \in F0.blocks \ SplitBlocks
    BY <1>2, <1>3, <1>4, <2>2 DEF Expands
  <2>3. CASE y \in SplitBlocks
    <3>1. Range(f.succ[y]) = {Then(y), Else(y)}
      BY <1>2, <2>3 DEF Expands
    <3> QED
      BY <1>5, <2>1, <2>3, <3>1
  <2>4. ASSUME NEW d \in SplitBlocks, y \in {Then(d), Else(d), TailOf(d)}
        PROVE  Range(f.succ[y]) \subseteq Y \cup {c}
    <3>1. d # c
      BY <2>1, <2>4
    <3>2. Range(f.succ[y]) = {TailOf(d)} \/ Range(f.succ[y]) \subseteq Range(F0.succ[d])
      BY <1>2, <2>4 DEF Expands
    <3> QED
      BY <1>1, <1>3, <1>4, <1>5, <3>1, <3>2
  <2> QED
    BY <1>3, <2>1, <2>2, <2>3, <2>4
<1>7. f.entry # c => f.entry \in Y
  BY <1>2, <1>3, <1>4 DEF Expands
<1>8. ReachableAvoiding(f, c) \subseteq Y
  BY <1>2, <1>6, <1>7, ReachableIsLeast DEF Closed, Expands
<1>9. x \notin Y
  BY DEF Y
<1> QED
  BY <1>8, <1>9 DEF Dominates

\* Only the last instruction of a block is an invoke.
LEMMA InvokeIsLast ==
  ASSUME F0 \in Functions, NEW c \in F0.blocks, NEW i \in 1 .. Size(c), Body(c)[i].op = "invoke"
  PROVE  i = Size(c) /\ Len(F0.succ[c]) = 2 /\ F0.succ[c] \in Seq(Range(F0.succ[c]))
<1>1. i \in DOMAIN F0.code[c] /\ F0.code[c][i].op = "invoke"
  BY BlockShape DEF Body
<1>2. IsFunction(F0)
  BY Received
<1>3. i = Len(F0.code[c]) /\ Len(F0.succ[c]) = 2 /\ IsSequence(F0.succ[c])
  BY <1>1, <1>2 DEF IsFunction, WellFormed
<1> QED
  BY <1>3 DEF IsSequence, Size

LEMMA OpOfOriginal ==
  ASSUME NEW a, NEW j, NEW c, NEW i, IsAt(a, j, c, i)
  PROVE  f.code[a][j].op \in {Body(c)[i].op, "phi"}
BY DEF IsAt, Stands, IsMerge, Renamed, PhiOf

\* An invoke stands at the end of the last part, with the edges it had.
LEMMA InvokeStands ==
  ASSUME Settled, NEW a \in F0.blocks, NEW i \in 1 .. Size(a), NEW l, NEW k, IsAt(l, k, a, i),
         f.code[l][k].op = "invoke"
  PROVE  /\ Body(a)[i].op = "invoke" /\ f.succ[l] = F0.succ[a]
         /\ (a \notin SplitBlocks /\ l = a) \/ (a \in SplitBlocks /\ l = TailOf(a))
<1>1. /\ F0 \in Functions /\ ClosedForm /\ First(a) \in 1 .. Size(a) /\ Size(a) \in Nat
  BY SettledFacts
<1>2. Body(a)[i].op = "invoke"
  BY OpOfOriginal
<1>3. i = Size(a)
  BY <1>1, <1>2, InvokeIsLast
<1>4. Stands(l, k, a, i)
  BY <1>1, <1>3 DEF IsAt, IsMerge
<1>5. (a \notin SplitBlocks /\ l = a) \/ (a \in SplitBlocks /\ l = TailOf(a))
  BY <1>1, <1>3, <1>4 DEF Stands
<1> QED
  BY <1>1, <1>2, <1>5 DEF ClosedForm, GraphForm

\* What was available in a block is available in all of its parts.
LEMMA AvailabilityIsKept ==
  ASSUME Settled, NEW a \in F0.blocks, NEW c \in F0.blocks, a # c, NEW i \in 1 .. Size(a),
         AvailableIn(F0, a, i, c), NEW l, NEW k, IsAt(l, k, a, i), NEW x, PartOf(c, x)
  PROVE  l # x /\ AvailableIn(f, l, k, x)
<1>1. /\ F0 \in Functions /\ SplitBlocks \subseteq F0.blocks /\ ClosedForm
      /\ First(a) \in 1 .. Size(a) /\ Size(a) \in Nat
  BY SettledFacts
<1>2. EndsIn(a, l)
  BY DEF IsAt, Stands, IsMerge, EndsIn
<1>3. l # x
  BY <1>1, <1>2, PartNames DEF EndsIn, PartOf
<1>4. Dominates(f, l, x)
  BY <1>1, <1>2, DominanceIsKept DEF AvailableIn
<1>5. ASSUME f.code[l][k].op = "invoke" PROVE x \notin Reachable([f EXCEPT !.succ[l] = Tail(@)])
  <2> DEFINE s == F0.succ[a]
             g0 == [F0 EXCEPT !.succ[a] = Tail(@)]
             g == [f EXCEPT !.succ[l] = Tail(@)]
  <2>1. Body(a)[i].op = "invoke"
    BY <1>5, OpOfOriginal
  <2>2. Len(s) = 2 /\ s \in Seq(Range(s))
    BY <1>1, <2>1, InvokeIsLast
  <2>4. (a \notin SplitBlocks /\ l = a) \/ (a \in SplitBlocks /\ l = TailOf(a))
    BY <1>5, InvokeStands
  <2>5. f.succ[l] = s
    BY <1>5, InvokeStands
  <2>6. Range(Tail(s)) \subseteq Range(s)
    BY <2>2 DEF Range
  <2>7. /\ F0 = [entry |-> F0.entry, blocks |-> F0.blocks, code |-> F0.code, succ |-> F0.succ]
        /\ DOMAIN F0.succ = F0.blocks
        /\ f = [entry |-> F0.entry, blocks |-> f.blocks, code |-> f.code, succ |-> f.succ]
        /\ DOMAIN f.succ = f.blocks /\ l \in f.blocks
    BY <1>1, <2>4, Received, MadeBlocks DEF ClosedForm, GraphForm
  <2>8. /\ g0.entry = F0.entry /\ g0.blocks = F0.blocks
        /\ g0.succ = [F0.succ EXCEPT ![a] = Tail(s)]
    BY <2>7
  <2>9. /\ g.entry = f.entry /\ g.blocks = f.blocks
        /\ g.succ = [f.succ EXCEPT ![l] = Tail(s)]
    BY <2>5, <2>7
  <2> HIDE DEF g0, g, s
  <2>10. \A b \in F0.blocks : g0.succ[b] = IF b = a THEN Tail(s) ELSE F0.succ[b]
    BY <2>7, <2>8
  <2>11. \A b \in f.blocks : g.succ[b] = IF b = l THEN Tail(s) ELSE f.succ[b]
    BY <2>7, <2>9
  <2>12. Expands(F0, f)
    BY <1>1, EdgesNow
  <2>13. ControlFlowGraph(g0)
    BY <2>6, <2>8, <2>10, <2>12 DEF ControlFlowGraph, Expands, s
  <2>14. ControlFlowGraph(g)
    BY <2>5, <2>6, <2>9, <2>11, <2>12 DEF ControlFlowGraph, Expands
  <2>15. /\ F0.blocks \subseteq f.blocks
         /\ \A d \in SplitBlocks : {Then(d), Else(d), TailOf(d)} \subseteq f.blocks
    BY <1>1, MadeBlocks
  <2>16. \A d \in SplitBlocks : d # l /\ Then(d) # l /\ Else(d) # l /\ (TailOf(d) = l => d = a)
    BY <1>1, <2>4, PartNames
  <2>17. \A d \in F0.blocks \ SplitBlocks : d = l <=> d = a
    BY <1>1, <2>4, PartNames
  <2>18. Expands(g0, g)
    <3>1. \A d \in F0.blocks \ SplitBlocks : Range(g.succ[d]) \subseteq Range(g0.succ[d])
      BY <2>10, <2>11, <2>12, <2>15, <2>17 DEF Expands
    <3>2. ASSUME NEW d \in SplitBlocks
          PROVE  /\ Range(g.succ[d]) = {Then(d), Else(d)}
                 /\ Range(g.succ[Then(d)]) = {TailOf(d)} /\ Range(g.succ[Else(d)]) = {TailOf(d)}
                 /\ Range(g.succ[TailOf(d)]) \subseteq Range(g0.succ[d])
      <4>1. g.succ[d] = f.succ[d] /\ g.succ[Then(d)] = f.succ[Then(d)] /\ g.succ[Else(d)] = f.succ[Else(d)]
        BY <1>1, <2>11, <2>15, <2>16
      <4>2. Range(g.succ[TailOf(d)]) \subseteq Range(g0.succ[d])
        <5>1. CASE d = a
          <6>1. TailOf(d) = l
            BY <2>4, <5>1
          <6> QED
            BY <2>7, <2>10, <2>11, <5>1, <6>1
        <5>2. CASE d # a
          <6>1. g.succ[TailOf(d)] = f.succ[TailOf(d)] /\ g0.succ[d] = F0.succ[d]
            BY <1>1, <2>10, <2>11, <2>15, <2>16, <5>2
          <6> QED
            BY <2>12, <6>1 DEF Expands
        <5> QED
          BY <5>1, <5>2
      <4> QED
        BY <2>12, <4>1, <4>2 DEF Expands
    <3> QED
      BY <2>8, <2>9, <2>12, <2>13, <2>14, <3>1, <3>2 DEF Expands
  <2>19. c \notin Reachable(g0)
    BY <2>1 DEF AvailableIn, Body, g0
  <2>20. x \notin Reachable(g)
    BY <1>1, <2>18, <2>19, ReachableParts
  <2> QED
    BY <2>20 DEF g
<1> QED
  BY <1>3, <1>4, <1>5 DEF AvailableIn

\* The blocks a PHI names are blocks of the function, one for each operand.
LEMMA PhiShape ==
  ASSUME F0 \in Functions, NEW c \in F0.blocks, NEW i \in 1 .. Size(c), IsPhi(Body(c)[i])
  PROVE  /\ DOMAIN Body(c)[i].from = DOMAIN Body(c)[i].args
         /\ \A m \in DOMAIN Body(c)[i].from : Body(c)[i].from[m] \in F0.blocks
<1>1. i \in DOMAIN F0.code[c] /\ IsPhi(F0.code[c][i])
  BY BlockShape DEF Body
<1>2. IsFunction(F0) /\ PhisMatchEdges(F0)
  BY Received DEF Verified
<1>3. Len(F0.code[c][i].from) = Len(F0.code[c][i].args)
  BY <1>1, <1>2 DEF IsFunction, WellFormed
<1>4. Range(F0.code[c][i].from) \subseteq F0.blocks
  BY <1>1, <1>2 DEF PhisMatchEdges
<1> QED
  BY <1>3, <1>4, InstructionShape DEF Body, Range
-----------------------------------------------------------------------------
(* Definitions dominate their uses.                                        *)

\* In the function received they do.
LEMMA ReceivedUses ==
  ASSUME F0 \in Functions, NEW c \in F0.blocks, NEW i \in 1 .. Size(c), NotDebug(Body(c)[i]),
         NEW m \in DOMAIN Body(c)[i].args, NEW a \in F0.blocks, NEW e \in 1 .. Size(a),
         Body(a)[e].def = Body(c)[i].args[m], Body(a)[e].def # NoValue, c \in Reachable(F0)
  PROVE  DefReachesUse(F0, a, e, c, i, m)
<1> DEFINE v == Body(a)[e].def
           u == <<c, i, m>>
<1>1. /\ i \in DOMAIN F0.code[c] /\ e \in DOMAIN F0.code[a]
      /\ NotDebug(F0.code[c][i]) /\ m \in DOMAIN F0.code[c][i].args
      /\ F0.code[c][i].args[m] = v /\ F0.code[a][e].def = v /\ v # NoValue
  BY BlockShape DEF Body
<1>2. DefsDominateUses(F0)
  BY Received DEF Verified
<1> HIDE DEF v
<1>3. u \in UsesIn(F0, c, v)
  BY <1>1 DEF UsesIn
<1>4. u \in Uses(F0, v)
  BY <1>1, <1>3 DEF Uses
<1>5. \A w \in Uses(F0, v) : w[1] \in Reachable(F0) => DefReachesUse(F0, a, e, w[1], w[2], w[3])
  BY <1>1, <1>2 DEF DefsDominateUses
<1>6. u[1] = c /\ u[2] = i /\ u[3] = m
  OBVIOUS
<1> HIDE DEF u
<1> QED
  BY <1>4, <1>5, <1>6

\* An operand that is no PHI's, read in some part of its block.
LEMMA UseOfOriginal ==
  ASSUME Settled, NEW c \in F0.blocks, NEW i \in 1 .. Size(c), NotDebug(Body(c)[i]), ~IsPhi(Body(c)[i]),
         NEW m \in DOMAIN Body(c)[i].args, NEW x, PartOf(c, x), x \in Reachable(f),
         NEW l \in f.blocks, NEW k \in DOMAIN f.code[l], f.code[l][k].def # NoValue,
         f.code[l][k].def = Lookup(reMapper, Body(c)[i].args[m])
  PROVE  \E a \in F0.blocks : \E e \in 1 .. Size(a) :
           /\ Body(c)[i].args[m] = Body(a)[e].def /\ IsAt(l, k, a, e)
           /\ (a = c /\ e < i) \/ (l # x /\ AvailableIn(f, l, k, x))
<1> DEFINE v == Body(c)[i].args[m]
<1>1. F0 \in Functions /\ ClosedForm
  BY SettledFacts
<1>2. v \in Inputs \cup Defs(F0)
  BY <1>1, InstructionShape
<1>3. PICK a \in F0.blocks : \E e \in 1 .. Size(a) : v = Body(a)[e].def /\ IsAt(l, k, a, e)
  BY <1>2, DefinedByOriginal
<1>4. PICK e \in 1 .. Size(a) : v = Body(a)[e].def /\ IsAt(l, k, a, e)
  BY <1>3
<1>5. v # NoValue
  <2>1. NoValue \notin Inputs \cup Defs(F0)
    BY NamesAssumption DEF Defs
  <2> QED
    BY <1>2, <2>1
<1>6. c \in Reachable(F0)
  BY <1>1, EdgesNow, ReachableParts
<1>7. DefReachesUse(F0, a, e, c, i, m)
  BY <1>1, <1>4, <1>5, <1>6, ReceivedUses
<1>8. IF a = c THEN e < i ELSE AvailableIn(F0, a, e, c)
  BY <1>7 DEF DefReachesUse, Body
<1>9. a # c => l # x /\ AvailableIn(f, l, k, x)
  BY <1>4, <1>8, AvailabilityIsKept
<1> QED
  BY <1>4, <1>8, <1>9

\* An operand of a PHI, read at the end of what is its incoming block now.
LEMMA PhiUseOfOriginal ==
  ASSUME Settled, NEW c \in F0.blocks, NEW i \in 1 .. Size(c), IsPhi(Body(c)[i]), c \in Reachable(F0),
         NEW m \in DOMAIN Body(c)[i].args, NEW p, p = Came(Body(c)[i].from[m], SplitBlocks),
         p \in Reachable(f),
         NEW l \in f.blocks, NEW k \in DOMAIN f.code[l], f.code[l][k].def # NoValue,
         f.code[l][k].def = Lookup(reMapper, Body(c)[i].args[m])
  PROVE  (l = p /\ OnEdge(f, l, k, c)) \/ (l # p /\ AvailableIn(f, l, k, p))
<1> DEFINE v == Body(c)[i].args[m]
           q == Body(c)[i].from[m]
<1>1. F0 \in Functions /\ ClosedForm /\ SplitBlocks \subseteq F0.blocks
  BY SettledFacts
<1>2. v \in Inputs \cup Defs(F0)
  BY <1>1, InstructionShape
<1>3. PICK a \in F0.blocks : \E e \in 1 .. Size(a) : v = Body(a)[e].def /\ IsAt(l, k, a, e)
  BY <1>2, DefinedByOriginal
<1>4. PICK e \in 1 .. Size(a) : v = Body(a)[e].def /\ IsAt(l, k, a, e)
  BY <1>3
<1>5. v # NoValue
  <2>1. NoValue \notin Inputs \cup Defs(F0)
    BY NamesAssumption DEF Defs
  <2> QED
    BY <1>2, <2>1
<1>6. q \in F0.blocks
  BY <1>1, PhiShape
<1>7. PartOf(q, p)
  BY DEF Came, PartOf
<1>8. q \in Reachable(F0)
  BY <1>1, <1>6, <1>7, EdgesNow, ReachableParts
<1>9. NotDebug(Body(c)[i])
  BY DEF IsPhi, NotDebug
<1>10. DefReachesUse(F0, a, e, c, i, m)
  BY <1>1, <1>4, <1>5, <1>9, ReceivedUses
<1>11. (a = q /\ OnEdge(F0, a, e, c)) \/ (a # q /\ AvailableIn(F0, a, e, q))
  BY <1>8, <1>10 DEF DefReachesUse, Body
<1>12. CASE a # q
  <2>1. AvailableIn(F0, a, e, q)
    BY <1>11, <1>12
  <2> QED
    BY <1>4, <1>6, <1>7, <1>12, <2>1, AvailabilityIsKept
<1>13. CASE a = q
  <2>1. EndsIn(a, l)
    BY <1>4 DEF IsAt, Stands, IsMerge, EndsIn
  <2>2. CASE l = p
    <3>1. ASSUME f.code[l][k].op = "invoke" PROVE f.succ[l][1] = c /\ f.succ[l][2] # c
      <4>1. F0.code[a][e].op = "invoke" /\ f.succ[l] = F0.succ[a]
        BY <1>4, <3>1, InvokeStands DEF Body
      <4> QED
        BY <1>11, <1>13, <4>1 DEF OnEdge
    <3> QED
      BY <2>2, <3>1 DEF OnEdge
  <2>3. CASE l # p
    <3>1. a \in SplitBlocks /\ l = a /\ p = TailOf(a)
      BY <1>4, <1>13, <2>1, <2>3 DEF EndsIn, Came, IsAt, Stands, IsMerge
    <3>2. Dominates(f, l, p)
      BY <1>1, <3>1, HeadDominatesParts
    <3>3. f.code[l][k].op # "invoke"
      BY <1>4, <2>3, <3>1, InvokeStands
    <3> QED
      BY <2>3, <3>2, <3>3 DEF AvailableIn
  <2> QED
    BY <2>2, <2>3
<1> QED
  BY <1>12, <1>13

\* The uses of the function, by the kind of the user.
LEMMA UsesByStanding ==
  ASSUME Settled, NEW x \in f.blocks, NEW j \in DOMAIN f.code[x], NEW c, NEW i, Stands(x, j, c, i),
         NotDebug(f.code[x][j]), NEW m \in DOMAIN f.code[x][j].args, x \in Reachable(f),
         NEW l \in f.blocks, NEW k \in DOMAIN f.code[l], f.code[l][k].def # NoValue,
         f.code[l][k].def = f.code[x][j].args[m]
  PROVE  DefReachesUse(f, l, k, x, j, m)
<1> DEFINE o == Body(c)[i]
           y == f.code[x][j]
<1>1. /\ F0 \in Functions /\ ClosedForm /\ SplitBlocks \subseteq F0.blocks
      /\ c \in F0.blocks /\ i \in 1 .. Size(c) /\ First(c) \in 1 .. Size(c) /\ Size(c) \in Nat
  BY SettledFacts DEF Stands
<1>2. y = Renamed(o, reMapper, SplitBlocks)
  BY DEF Stands
<1>3. /\ NotDebug(o) /\ (IsPhi(y) <=> IsPhi(o)) /\ m \in DOMAIN o.args
      /\ y.args[m] = Lookup(reMapper, o.args[m])
  BY <1>2 DEF Renamed, ArgsNow, NotDebug, IsPhi
<1>4. PartOf(c, x)
  BY DEF Stands, PartOf
<1>5. c \in Reachable(F0)
  BY <1>1, <1>4, EdgesNow, ReachableParts
<1>6. CASE IsPhi(o)
  <2>1. m \in DOMAIN o.from
    BY <1>1, <1>3, <1>6, PhiShape
  <2>2. y.from[m] = Came(o.from[m], SplitBlocks)
    BY <1>2, <2>1 DEF Renamed, FromNow
  <2> DEFINE p == Came(o.from[m], SplitBlocks)
  <2>3. p \in Reachable(f) => (l = p /\ OnEdge(f, l, k, c)) \/ (l # p /\ AvailableIn(f, l, k, p))
    BY <1>1, <1>3, <1>5, <1>6, PhiUseOfOriginal
  <2>4. x = c
    <3>1. i # Size(c)
      <4>1. Size(c) \in First(c) .. Size(c)
        BY <1>1
      <4> QED
        BY <1>1, <1>6, <4>1, BlockShape
    <3> QED
      BY <3>1 DEF Stands
  <2> HIDE DEF p
  <2> QED
    BY <1>3, <1>6, <2>2, <2>3, <2>4 DEF DefReachesUse, p
<1>7. CASE ~IsPhi(o)
  <2>1. PICK a \in F0.blocks : \E e \in 1 .. Size(a) :
           /\ o.args[m] = Body(a)[e].def /\ IsAt(l, k, a, e)
           /\ (a = c /\ e < i) \/ (l # x /\ AvailableIn(f, l, k, x))
    BY <1>1, <1>3, <1>4, <1>7, UseOfOriginal
  <2>2. PICK e \in 1 .. Size(a) :
           /\ o.args[m] = Body(a)[e].def /\ IsAt(l, k, a, e)
           /\ (a = c /\ e < i) \/ (l # x /\ AvailableIn(f, l, k, x))
    BY <2>1
  <2>3. IF l = x THEN k < j ELSE AvailableIn(f, l, k, x)
    <3>1. CASE l # x /\ AvailableIn(f, l, k, x)
      BY <3>1
    <3>2. CASE a = c /\ e < i /\ c \notin SplitBlocks
      BY <2>2, <3>2 DEF IsAt, Stands, IsMerge
    <3>3. CASE a = c /\ e < i /\ c \in SplitBlocks
      <4>1. ~(i < First(c))
        <5>1. i \in 1 .. First(c) - 1 => IsPhi(o)
          BY <1>1, BlockShape
        <5> QED
          BY <1>1, <1>7, <5>1
      <4>2. x = TailOf(c) /\ i = Size(c) /\ j = Len(f.code[x])
        BY <3>3, <4>1 DEF Stands
      <4>3. CASE IsMerge(l, k, c, e)
        BY <4>2, <4>3 DEF IsMerge
      <4>4. CASE Stands(l, k, c, e)
        <5>1. l = c /\ e < First(c)
          BY <3>3, <4>2, <4>4 DEF Stands
        <5>2. l # x
          BY <1>1, <4>2, <5>1, PartNames
        <5>3. f.code[l][k].op # "invoke"
          <6>1. f.code[l][k].op = Body(c)[e].op
            BY <4>4 DEF Stands, Renamed
          <6>2. e # Size(c)
            BY <1>1, <5>1
          <6> QED
            BY <1>1, <2>2, <3>3, <6>1, <6>2, InvokeIsLast
        <5>4. Dominates(f, l, x)
          BY <1>1, <3>3, <4>2, <5>1, HeadDominatesParts
        <5> QED
          BY <5>2, <5>3, <5>4 DEF AvailableIn
      <4> QED
        BY <2>2, <3>3, <4>3, <4>4 DEF IsAt
    <3> QED
      BY <2>2, <3>1, <3>2, <3>3
  <2> QED
    BY <1>3, <1>7, <2>3 DEF DefReachesUse
<1> QED
  BY <1>6, <1>7

LEMMA UsesByClones ==
  ASSUME Settled, NEW x \in f.blocks, NEW j \in DOMAIN f.code[x],
         NEW c, NEW i, NEW part, IsClone(x, j, c, i, part),
         NotDebug(f.code[x][j]), NEW m \in DOMAIN f.code[x][j].args, x \in Reachable(f),
         NEW l \in f.blocks, NEW k \in DOMAIN f.code[l], f.code[l][k].def # NoValue,
         f.code[l][k].def = f.code[x][j].args[m]
  PROVE  DefReachesUse(f, l, k, x, j, m)
<1> DEFINE o == Body(c)[i]
           y == f.code[x][j]
           own == OwnValues(c, i)
<1>1. /\ F0 \in Functions /\ ClosedForm /\ SplitBlocks \subseteq F0.blocks
      /\ c \in SplitBlocks /\ c \in F0.blocks /\ First(c) \in 1 .. Size(c) /\ Size(c) \in Nat
      /\ i \in First(c) .. Size(c) - 1 /\ part \in {"then", "else"}
      /\ x = NewBlock(c, part) /\ j = i - First(c) + 1
  BY SettledFacts DEF IsClone
<1>2. i \in 1 .. Size(c) /\ i \in Nat /\ i < Size(c)
  BY <1>1
<1>3. y = Cloned(c, i, part, reMapper, SplitBlocks)
  BY DEF IsClone
<1>4. ~IsPhi(o)
  BY <1>1, BlockShape
<1>5. /\ NotDebug(o) /\ ~IsPhi(y) /\ m \in DOMAIN o.args
      /\ y.args[m] = IF o.args[m] \in own THEN NewValue(o.args[m], part) ELSE Lookup(reMapper, o.args[m])
  BY <1>3, <1>4 DEF Cloned, ArgsCloned, NotDebug, IsPhi
<1>6. x \in {Then(c), Else(c), TailOf(c)} /\ PartOf(c, x)
  BY <1>1 DEF Then, Else, PartOf
<1>7. CASE o.args[m] \in own
  <2>1. PICK e \in First(c) .. i - 1 : o.args[m] = Body(c)[e].def /\ Body(c)[e].def # NoValue
    BY <1>7 DEF OwnValues
  <2>2. e \in First(c) .. Size(c) - 1 /\ e - First(c) + 1 < i - First(c) + 1
    BY <1>1, <1>2
  <2>3. IsClone(l, k, c, e, part)
    BY <1>1, <1>5, <1>7, <2>1, <2>2, DefinedByClone
  <2>4. l = x /\ k < j
    BY <1>1, <2>2, <2>3 DEF IsClone
  <2> QED
    BY <1>5, <2>4 DEF DefReachesUse
<1>8. CASE o.args[m] \notin own
  <2>1. PICK a \in F0.blocks : \E e \in 1 .. Size(a) :
           /\ o.args[m] = Body(a)[e].def /\ IsAt(l, k, a, e)
           /\ (a = c /\ e < i) \/ (l # x /\ AvailableIn(f, l, k, x))
    BY <1>1, <1>2, <1>4, <1>5, <1>6, <1>8, UseOfOriginal
  <2>2. PICK e \in 1 .. Size(a) :
           /\ o.args[m] = Body(a)[e].def /\ IsAt(l, k, a, e)
           /\ (a = c /\ e < i) \/ (l # x /\ AvailableIn(f, l, k, x))
    BY <2>1
  <2>3. CASE a = c /\ e < i
    <3>1. Body(c)[e].def # NoValue
      <4>1. NoValue \notin Inputs \cup Defs(F0)
        BY NamesAssumption DEF Defs
      <4>2. o.args[m] \in Inputs \cup Defs(F0)
        BY <1>1, <1>2, <1>5, InstructionShape
      <4> QED
        BY <2>2, <2>3, <4>1, <4>2
    <3>2. e < First(c)
      <4>1. e \in First(c) .. i - 1 => Body(c)[e].def \in own
        BY <3>1 DEF OwnValues
      <4>2. ~(e < First(c)) => e \in First(c) .. i - 1
        BY <1>1, <1>2, <2>2, <2>3
      <4> QED
        BY <1>8, <2>2, <2>3, <4>1, <4>2
    <3>3. e # Size(c) /\ e \notin First(c) .. Size(c) - 1
      BY <1>1, <3>2
    <3>4. Stands(l, k, c, e) /\ l = c
      BY <1>1, <2>2, <2>3, <3>3 DEF IsAt, Stands, IsMerge
    <3>5. f.code[l][k].op # "invoke"
      <4>1. f.code[l][k].op = Body(c)[e].op
        BY <3>4 DEF Stands, Renamed
      <4> QED
        BY <1>1, <2>2, <2>3, <3>3, <4>1, InvokeIsLast
    <3>6. Dominates(f, l, x) /\ l # x
      BY <1>1, <1>6, <3>4, HeadDominatesParts, PartNames
    <3> QED
      BY <1>5, <3>5, <3>6 DEF DefReachesUse, AvailableIn
  <2>4. CASE l # x /\ AvailableIn(f, l, k, x)
    BY <1>5, <2>4 DEF DefReachesUse
  <2> QED
    BY <2>2, <2>3, <2>4
<1> QED
  BY <1>7, <1>8

LEMMA UsesByMerges ==
  ASSUME Settled, NEW x \in f.blocks, NEW j \in DOMAIN f.code[x], NEW c, NEW i, IsMerge(x, j, c, i),
         NEW m \in DOMAIN f.code[x][j].args,
         NEW l \in f.blocks, NEW k \in DOMAIN f.code[l], f.code[l][k].def = f.code[x][j].args[m]
  PROVE  DefReachesUse(f, l, k, x, j, m)
<1> DEFINE v == Body(c)[i].def
<1>1. /\ F0 \in Functions /\ SplitBlocks \subseteq F0.blocks
      /\ c \in SplitBlocks /\ c \in F0.blocks /\ i \in First(c) .. Size(c) - 1 /\ v # NoValue
      /\ First(c) \in 1 .. Size(c) /\ Size(c) \in Nat
  BY SettledFacts DEF IsMerge
<1>2. f.code[x][j] = PhiOf(c, v)
  BY DEF IsMerge
<1>3. PICK part \in {"then", "else"} :
         f.code[x][j].args[m] = NewValue(v, part) /\ f.code[x][j].from[m] = NewBlock(c, part)
  BY <1>2 DEF PhiOf, Then, Else
<1>4. IsClone(l, k, c, i, part)
  BY <1>1, <1>3, DefinedByClone
<1>5. l = f.code[x][j].from[m]
  BY <1>3, <1>4 DEF IsClone
<1>6. f.code[l][k].op # "invoke"
  <2>1. f.code[l][k].op = Body(c)[i].op
    BY <1>4 DEF IsClone, Cloned
  <2>2. i \in 1 .. Size(c) /\ i # Size(c)
    BY <1>1
  <2> QED
    BY <1>1, <2>1, <2>2, InvokeIsLast
<1>7. IsPhi(f.code[x][j])
  BY <1>2 DEF PhiOf, IsPhi
<1> QED
  BY <1>5, <1>6, <1>7 DEF DefReachesUse, OnEdge

\* What decides in a head: it was available when it was chosen, and still is.
LEMMA DeciderIsAvailable ==
  ASSUME NoIntegerIsInvoked, Settled, NEW c \in F0.blocks, NEW w \in MayDecide(c),
         NEW l \in f.blocks, NEW k \in DOMAIN f.code[l], f.code[l][k].def = Lookup(reMapper, w),
         f.code[l][k].def # NoValue
  PROVE  l # c /\ AvailableIn(f, l, k, c)
<1>1. F0 \in Functions /\ ClosedForm /\ IsReMapper(reMapper) /\ Defs(F0) \cap Inputs = {}
  BY SettledFacts, Received DEF InSSA
<1>2. w \notin Inputs
  <2>1. f.code[l][k].def \in Defs(f)
    BY DEF Defs
  <2>2. w \in Inputs => Lookup(reMapper, w) = w
    BY <1>1 DEF IsReMapper, Lookup
  <2> QED
    BY <2>1, <2>2, InputsStayInputs
<1>3. w \in IntegerValues /\ Above(F0, c, w)
  BY <1>2 DEF MayDecide
<1>4. PICK a \in F0.blocks : /\ a # c /\ Dominates(F0, a, c)
                             /\ \E e \in DOMAIN F0.code[a] : F0.code[a][e].def = w
  BY <1>3 DEF Above
<1>5. PICK e \in DOMAIN F0.code[a] : F0.code[a][e].def = w
  BY <1>4
<1>6. e \in 1 .. Size(a) /\ Body(a)[e] = F0.code[a][e] /\ w # NoValue
  BY <1>1, <1>3, BlockShape, NamesAssumption DEF Body
<1>7. F0.code[a][e].op # "invoke"
  BY <1>1, <1>3, <1>5 DEF NoIntegerIsInvoked
<1>8. AvailableIn(F0, a, e, c)
  BY <1>4, <1>7 DEF AvailableIn
<1>9. w \in Defs(F0)
  BY <1>1, <1>5, <1>6, InstructionShape
<1>10. PICK b \in F0.blocks : \E n \in 1 .. Size(b) : w = Body(b)[n].def /\ IsAt(l, k, b, n)
  BY <1>9, DefinedByOriginal
<1>11. PICK n \in 1 .. Size(b) : w = Body(b)[n].def /\ IsAt(l, k, b, n)
  BY <1>10
<1>12. b = a /\ n = e
  BY <1>1, <1>5, <1>6, <1>11, OneDefinition
<1>13. PartOf(c, c)
  BY DEF PartOf
<1> QED
  BY <1>4, <1>6, <1>8, <1>11, <1>12, <1>13, AvailabilityIsKept

LEMMA UsesByTests ==
  ASSUME NoIntegerIsInvoked, Settled, NEW x \in f.blocks, NEW j \in DOMAIN f.code[x],
         NEW c, NEW w, IsTest(x, j, c, w), NEW m \in DOMAIN f.code[x][j].args,
         NEW l \in f.blocks, NEW k \in DOMAIN f.code[l], f.code[l][k].def # NoValue,
         f.code[l][k].def = f.code[x][j].args[m]
  PROVE  DefReachesUse(f, l, k, x, j, m)
<1>1. c \in F0.blocks /\ w \in MayDecide(c) /\ x = c
  BY SettledFacts DEF IsTest
<1>2. f.code[x][j] = IsNull(c, Lookup(reMapper, w))
  BY DEF IsTest
<1>3. ~IsPhi(f.code[x][j]) /\ f.code[x][j].args[m] = Lookup(reMapper, w)
  BY <1>2 DEF IsNull, IsPhi
<1>4. l # c /\ AvailableIn(f, l, k, c)
  BY <1>1, <1>3, DeciderIsAvailable
<1> QED
  BY <1>1, <1>3, <1>4 DEF DefReachesUse

LEMMA UsesByForks ==
  ASSUME Settled, NEW x \in f.blocks, NEW j \in DOMAIN f.code[x], NEW c, IsFork(x, j, c),
         NEW m \in DOMAIN f.code[x][j].args,
         NEW l \in f.blocks, NEW k \in DOMAIN f.code[l], f.code[l][k].def = f.code[x][j].args[m]
  PROVE  DefReachesUse(f, l, k, x, j, m)
<1>1. c \in SplitBlocks /\ x = c /\ j = First(c) + 1 /\ f.code[x][j] = IfNull(c) /\ First(c) \in Nat
  BY SettledFacts DEF IsFork
<1>2. ~IsPhi(f.code[x][j]) /\ f.code[x][j].args[m] = NewValue(c, "cond")
  BY <1>1 DEF IfNull, IsPhi
<1>3. l = c /\ k = First(c)
  BY <1>1, <1>2, DefinedByTest
<1> QED
  BY <1>1, <1>2, <1>3 DEF DefReachesUse

LEMMA DefsStillDominate ==
  ASSUME NoIntegerIsInvoked, Settled
  PROVE  DefsDominateUses(f)
<1> SUFFICES ASSUME NEW l \in f.blocks, NEW k \in DOMAIN f.code[l], f.code[l][k].def # NoValue,
                    NEW u \in Uses(f, f.code[l][k].def), u[1] \in Reachable(f)
             PROVE  DefReachesUse(f, l, k, u[1], u[2], u[3])
  BY DEF DefsDominateUses
<1> DEFINE v == f.code[l][k].def
<1>1. PICK x \in f.blocks : u \in UsesIn(f, x, v)
  BY DEF Uses
<1>2. PICK j \in DOMAIN f.code[x] :
         /\ NotDebug(f.code[x][j])
         /\ \E m \in DOMAIN f.code[x][j].args : f.code[x][j].args[m] = v /\ u = <<x, j, m>>
  BY <1>1 DEF UsesIn
<1>3. PICK m \in DOMAIN f.code[x][j].args : f.code[x][j].args[m] = v /\ u = <<x, j, m>>
  BY <1>2
<1>4. u[1] = x /\ u[2] = j /\ u[3] = m /\ x \in Reachable(f)
  BY <1>3
<1> HIDE DEF v
<1>5. DefReachesUse(f, l, k, x, j, m)
  <2>1. f.code[l][k].def = f.code[x][j].args[m]
    BY <1>3 DEF v
  <2>2. ASSUME NEW c, NEW i, Stands(x, j, c, i) PROVE DefReachesUse(f, l, k, x, j, m)
    BY <1>2, <1>4, <2>1, <2>2, UsesByStanding
  <2>3. ASSUME NEW c, NEW i, NEW part, IsClone(x, j, c, i, part) PROVE DefReachesUse(f, l, k, x, j, m)
    BY <1>2, <1>4, <2>1, <2>3, UsesByClones
  <2>4. ASSUME NEW c, NEW i, IsMerge(x, j, c, i) PROVE DefReachesUse(f, l, k, x, j, m)
    BY <2>1, <2>4, UsesByMerges
  <2>5. ASSUME NEW c, NEW w, IsTest(x, j, c, w) PROVE DefReachesUse(f, l, k, x, j, m)
    BY <2>1, <2>5, UsesByTests
  <2>6. ASSUME NEW c, IsFork(x, j, c) PROVE DefReachesUse(f, l, k, x, j, m)
    BY <2>1, <2>6, UsesByForks
  <2>7. ASSUME NEW c, IsJump(x, j, c) PROVE FALSE
    <3>1. f.code[x][j].args = <<>>
      BY <2>7 DEF IsJump, Jump
    <3> QED
      BY <3>1
  <2> QED
    BY <2>2, <2>3, <2>4, <2>5, <2>6, <2>7, EachKind
<1> QED
  BY <1>4, <1>5
-----------------------------------------------------------------------------
(* The rest of what the verifier asks.                                     *)

LEMMA EdgesStillInside ==
  ASSUME Settled
  PROVE  f.entry \in f.blocks /\ EdgesStayInside(f)
<1>1. F0 \in Functions /\ SplitBlocks \subseteq F0.blocks /\ ClosedForm
  BY SettledFacts
<1>2. Expands(F0, f)
  BY <1>1, EdgesNow
<1>3. /\ F0.entry \in F0.blocks
      /\ \A b \in F0.blocks : Range(F0.succ[b]) \subseteq F0.blocks \ {F0.entry}
      /\ F0.blocks \subseteq f.blocks /\ f.entry = F0.entry
  BY <1>1, <1>2, Received, MadeBlocks DEF Expands
<1>4. \A d \in SplitBlocks : {Then(d), Else(d), TailOf(d)} \subseteq f.blocks \ {F0.entry}
  BY <1>1, <1>3, MadeBlocks, PartNames
<1>5. ASSUME NEW x \in f.blocks PROVE Range(f.succ[x]) \subseteq f.blocks \ {f.entry}
  <2>1. CASE x \in F0.blocks \ SplitBlocks
    BY <1>2, <1>3, <2>1 DEF Expands
  <2>2. CASE x \in SplitBlocks
    <3>1. Range(f.succ[x]) = {Then(x), Else(x)}
      BY <1>2, <2>2 DEF Expands
    <3> QED
      BY <1>3, <1>4, <2>2, <3>1
  <2>3. ASSUME NEW d \in SplitBlocks, x \in {Then(d), Else(d), TailOf(d)}
        PROVE  Range(f.succ[x]) \subseteq f.blocks \ {f.entry}
    <3>1. Range(f.succ[x]) = {TailOf(d)} \/ Range(f.succ[x]) \subseteq Range(F0.succ[d])
      BY <1>2, <2>3 DEF Expands
    <3> QED
      BY <1>1, <1>3, <1>4, <3>1
  <2> QED
    BY <1>1, <2>1, <2>2, <2>3, MadeBlocks
<1> QED
  BY <1>3, <1>5 DEF EdgesStayInside

\* Where PHIs are: those received, in place, and those that merge clones.
LEMMA WherePhisAre ==
  ASSUME Settled, NEW x \in f.blocks, NEW j \in DOMAIN f.code[x], IsPhi(f.code[x][j])
  PROVE  \/ x \in F0.blocks /\ Stands(x, j, x, j) /\ IsPhi(Body(x)[j]) /\ j \in 1 .. Size(x)
         \/ \E c \in SplitBlocks : \E i \in First(c) .. Size(c) - 1 : IsMerge(x, j, c, i)
<1>1. /\ F0 \in Functions /\ SplitBlocks \subseteq F0.blocks
      /\ \A c \in F0.blocks : First(c) \in 1 .. Size(c) /\ Size(c) \in Nat
  BY SettledFacts
<1>2. ASSUME NEW c \in F0.blocks, NEW i \in 1 .. Size(c), Stands(x, j, c, i)
      PROVE  x \in F0.blocks /\ Stands(x, j, x, j) /\ IsPhi(Body(x)[j]) /\ j \in 1 .. Size(x)
  <2>1. IsPhi(Body(c)[i])
    BY <1>2 DEF Stands, Renamed, IsPhi
  <2>2. i # Size(c)
    <3>1. Size(c) \in First(c) .. Size(c)
      BY <1>1
    <3> QED
      BY <1>1, <2>1, <3>1, BlockShape
  <2>3. x = c /\ j = i
    BY <1>2, <2>2 DEF Stands
  <2> QED
    BY <1>2, <2>1, <2>3
<1>3. ASSUME NEW c \in SplitBlocks, NEW i \in First(c) .. Size(c) - 1, NEW part, IsClone(x, j, c, i, part)
      PROVE  FALSE
  <2>1. c \in F0.blocks /\ i \in First(c) .. Size(c)
    BY <1>1
  <2>2. ~IsPhi(Body(c)[i])
    BY <1>1, <2>1, BlockShape
  <2> QED
    BY <1>3, <2>2 DEF IsClone, Cloned, IsPhi
<1>4. ASSUME NEW c, NEW w, IsTest(x, j, c, w) PROVE FALSE
  BY <1>4 DEF IsTest, IsNull, IsPhi
<1>5. ASSUME NEW c, IsFork(x, j, c) \/ IsJump(x, j, c) PROVE FALSE
  BY <1>5 DEF IsFork, IfNull, IsJump, Jump, IsPhi
<1> QED
  BY <1>2, <1>3, <1>4, <1>5, EachKind

LEMMA PhisStillComeFirst ==
  ASSUME Settled
  PROVE  PhisComeFirst(f)
<1> SUFFICES ASSUME NEW x \in f.blocks, NEW j \in 2 .. Len(f.code[x]), IsPhi(f.code[x][j])
             PROVE  IsPhi(f.code[x][j - 1])
  BY DEF PhisComeFirst
<1>1. /\ F0 \in Functions /\ SplitBlocks \subseteq F0.blocks
      /\ \A c \in F0.blocks : First(c) \in 1 .. Size(c) /\ Size(c) \in Nat
  BY SettledFacts
<1>2. Len(f.code[x]) \in Nat /\ DOMAIN f.code[x] = 1 .. Len(f.code[x])
  BY CodeIsAList
<1>3. j \in DOMAIN f.code[x] /\ j - 1 \in DOMAIN f.code[x] /\ j \in Nat /\ j >= 2
  BY <1>2
<1>4. CASE x \in F0.blocks /\ Stands(x, j, x, j) /\ IsPhi(Body(x)[j]) /\ j \in 1 .. Size(x)
  <2>1. j < First(x)
    <3>1. j \in First(x) .. Size(x) => ~IsPhi(Body(x)[j])
      BY <1>1, <1>4, BlockShape
    <3> QED
      BY <1>1, <1>4, <3>1
  <2>2. j - 1 \in 1 .. First(x) - 1
    BY <1>1, <1>3, <1>4, <2>1
  <2>3. IsPhi(Body(x)[j - 1])
    BY <1>1, <1>4, <2>2, BlockShape
  <2>4. Stands(x, j - 1, x, j - 1)
    <3>1. CASE x \in SplitBlocks
      BY <2>2, <3>1, HeadKinds
    <3>2. CASE x \notin SplitBlocks
      BY <1>3, <1>4, <3>2, KeptKinds
    <3> QED
      BY <3>1, <3>2
  <2> QED
    BY <2>3, <2>4 DEF Stands, Renamed, IsPhi
<1>5. ASSUME NEW c \in SplitBlocks, NEW i, IsMerge(x, j, c, i)
      PROVE  IsPhi(f.code[x][j - 1])
  <2>1. x = TailOf(c) /\ j < Len(f.code[x])
    BY <1>5 DEF IsMerge
  <2>2. j - 1 \in 1 .. Len(f.code[x]) - 1
    BY <1>2, <1>3, <2>1
  <2>3. PICK e \in First(c) .. Size(c) - 1 : IsMerge(x, j - 1, c, e)
    BY <2>1, <2>2, TailKinds
  <2> QED
    BY <2>3 DEF IsMerge, PhiOf, IsPhi
<1> QED
  BY <1>3, <1>4, <1>5, WherePhisAre

\* PHIs received name an edge wherever they did.
LEMMA StandingPhisMatch ==
  ASSUME Settled, NEW x \in F0.blocks, NEW j \in 1 .. Size(x), Stands(x, j, x, j), IsPhi(Body(x)[j])
  PROVE  LET phi == f.code[x][j] IN
         /\ Range(phi.from) \subseteq f.blocks
         /\ \A p \in f.blocks :
              Cardinality({k \in DOMAIN phi.from : phi.from[k] = p}) = EdgesBetween(f, p, x)
         /\ \A k, m \in DOMAIN phi.from : phi.from[k] = phi.from[m] => phi.args[k] = phi.args[m]
<1> DEFINE phi == f.code[x][j]
           o == Body(x)[j]
           S == SplitBlocks
<1>1. F0 \in Functions /\ S \subseteq F0.blocks /\ ClosedForm
  BY SettledFacts
<1>2. /\ DOMAIN o.from = DOMAIN o.args
      /\ \A m \in DOMAIN o.from : o.from[m] \in F0.blocks
  BY <1>1, PhiShape
<1>3. phi = Renamed(o, reMapper, S)
  BY DEF Stands
<1>4. /\ DOMAIN phi.from = DOMAIN o.from
      /\ \A k \in DOMAIN o.from : phi.from[k] = Came(o.from[k], S) /\ phi.args[k] = Lookup(reMapper, o.args[k])
  BY <1>2, <1>3 DEF Renamed, FromNow, ArgsNow
<1>5. /\ \A p \in F0.blocks : Cardinality({k \in DOMAIN o.from : o.from[k] = p}) = EdgesBetween(F0, p, x)
      /\ \A k, m \in DOMAIN o.from : o.from[k] = o.from[m] => o.args[k] = o.args[m]
  <2>1. j \in DOMAIN F0.code[x] /\ IsPhi(F0.code[x][j]) /\ o = F0.code[x][j]
    BY <1>1, BlockShape DEF Body
  <2>2. PhisMatchEdges(F0)
    BY <1>1, Received DEF Verified
  <2> HIDE DEF o
  <2> QED
    BY <2>1, <2>2 DEF PhisMatchEdges
<1> HIDE DEF phi, o, S
<1>6. \A p, q \in F0.blocks : Came(p, S) = Came(q, S) => p = q
  BY <1>1, PartNames DEF Came
<1>7. \A p \in F0.blocks : Came(p, S) \in f.blocks
  BY <1>1, MadeBlocks DEF Came, S
<1>8. /\ \A c \in F0.blocks \ S : f.succ[c] = F0.succ[c]
      /\ \A c \in S :
           /\ f.succ[c] = <<Then(c), Else(c)>>
           /\ f.succ[Then(c)] = <<TailOf(c)>> /\ f.succ[Else(c)] = <<TailOf(c)>>
           /\ f.succ[TailOf(c)] = F0.succ[c]
  BY <1>1 DEF ClosedForm, GraphForm, S
<1>9. ASSUME NEW q \in F0.blocks
      PROVE  Cardinality({k \in DOMAIN phi.from : phi.from[k] = Came(q, S)}) = EdgesBetween(f, Came(q, S), x)
  <2>1. {k \in DOMAIN phi.from : phi.from[k] = Came(q, S)} = {k \in DOMAIN o.from : o.from[k] = q}
    BY <1>2, <1>4, <1>6
  <2>2. f.succ[Came(q, S)] = F0.succ[q]
    BY <1>8 DEF Came
  <2> QED
    BY <1>5, <2>1, <2>2 DEF EdgesBetween
<1>10. ASSUME NEW p \in f.blocks, \A q \in F0.blocks : p # Came(q, S)
       PROVE  Cardinality({k \in DOMAIN phi.from : phi.from[k] = p}) = EdgesBetween(f, p, x)
  <2>1. {k \in DOMAIN phi.from : phi.from[k] = p} = {}
    BY <1>2, <1>4, <1>10
  <2>2. PICK c \in S : p \in {c, Then(c), Else(c)}
    <3>1. p \in F0.blocks => p \in S
      BY <1>10 DEF Came
    <3>2. p \notin F0.blocks => \E c \in S : p \in {Then(c), Else(c), TailOf(c)}
      BY <1>1, MadeBlocks DEF S
    <3>3. \A c \in S : p # TailOf(c)
      BY <1>1, <1>10 DEF Came
    <3> QED
      BY <3>1, <3>2, <3>3
  <2>3. x \notin {Then(c), Else(c), TailOf(c)}
    BY <1>1, <2>2, PartNames
  <2>4. f.succ[p] = <<Then(c), Else(c)>> \/ f.succ[p] = <<TailOf(c)>>
    BY <1>8, <2>2
  <2>5. {n \in DOMAIN f.succ[p] : f.succ[p][n] = x} = {}
    <3>1. \A n \in DOMAIN <<Then(c), Else(c)>> : <<Then(c), Else(c)>>[n] # x
      BY <2>3
    <3>2. \A n \in DOMAIN <<TailOf(c)>> : <<TailOf(c)>>[n] # x
      BY <2>3
    <3> QED
      BY <2>4, <3>1, <3>2
  <2> QED
    BY <2>1, <2>5 DEF EdgesBetween
<1>11. \A p \in f.blocks :
         Cardinality({k \in DOMAIN phi.from : phi.from[k] = p}) = EdgesBetween(f, p, x)
  <2> TAKE p \in f.blocks
  <2>1. CASE \E q \in F0.blocks : p = Came(q, S)
    BY <1>9, <2>1
  <2>2. CASE \A q \in F0.blocks : p # Came(q, S)
    BY <1>10, <2>2
  <2> QED
    BY <2>1, <2>2
<1>12. \A k, m \in DOMAIN phi.from : phi.from[k] = phi.from[m] => phi.args[k] = phi.args[m]
  BY <1>2, <1>4, <1>5, <1>6
<1>13. Range(phi.from) \subseteq f.blocks
  BY <1>2, <1>4, <1>7 DEF Range
<1> QED
  BY <1>11, <1>12, <1>13 DEF phi

\* PHIs that merge clones name the two clones, which have an edge to them each.
LEMMA MergingPhisMatch ==
  ASSUME Settled, NEW c \in SplitBlocks, NEW x, NEW j, NEW i, IsMerge(x, j, c, i)
  PROVE  LET phi == f.code[x][j] IN
         /\ Range(phi.from) \subseteq f.blocks
         /\ \A p \in f.blocks :
              Cardinality({k \in DOMAIN phi.from : phi.from[k] = p}) = EdgesBetween(f, p, x)
         /\ \A k, m \in DOMAIN phi.from : phi.from[k] = phi.from[m] => phi.args[k] = phi.args[m]
<1> DEFINE phi == f.code[x][j]
<1>1. /\ F0 \in Functions /\ SplitBlocks \subseteq F0.blocks /\ ClosedForm /\ c \in F0.blocks
      /\ \A d \in F0.blocks : Range(F0.succ[d]) \subseteq F0.blocks
  BY SettledFacts, Received
<1>2. x = TailOf(c) /\ phi = PhiOf(c, Body(c)[i].def)
  BY DEF IsMerge
<1>3. phi.from = <<Then(c), Else(c)>>
  BY <1>2 DEF PhiOf
<1> HIDE DEF phi
<1>4. Then(c) # Else(c) /\ Then(c) \in f.blocks /\ Else(c) \in f.blocks
  BY <1>1, PartNames, MadeBlocks
<1>5. /\ \A d \in F0.blocks \ SplitBlocks : f.succ[d] = F0.succ[d]
      /\ \A d \in SplitBlocks :
           /\ f.succ[d] = <<Then(d), Else(d)>>
           /\ f.succ[Then(d)] = <<TailOf(d)>> /\ f.succ[Else(d)] = <<TailOf(d)>>
           /\ f.succ[TailOf(d)] = F0.succ[d]
  BY <1>1 DEF ClosedForm, GraphForm
<1>6. ASSUME NEW p \in {Then(c), Else(c)}
      PROVE  Cardinality({k \in DOMAIN phi.from : phi.from[k] = p}) = EdgesBetween(f, p, x)
  <2>1. \E k : {n \in DOMAIN phi.from : phi.from[n] = p} = {k}
    <3>1. p = Then(c) => {n \in DOMAIN <<Then(c), Else(c)>> : <<Then(c), Else(c)>>[n] = p} = {1}
      BY <1>4
    <3>2. p = Else(c) => {n \in DOMAIN <<Then(c), Else(c)>> : <<Then(c), Else(c)>>[n] = p} = {2}
      BY <1>4
    <3> QED
      BY <1>3, <3>1, <3>2
  <2>2. {n \in DOMAIN f.succ[p] : f.succ[p][n] = x} = {1}
    <3>1. f.succ[p] = <<x>>
      BY <1>2, <1>5
    <3>2. {n \in DOMAIN <<x>> : <<x>>[n] = x} = {1}
      OBVIOUS
    <3> QED
      BY <3>1, <3>2
  <2> QED
    BY <2>1, <2>2, FS_Singleton DEF EdgesBetween
<1>7. ASSUME NEW p \in f.blocks \ {Then(c), Else(c)}
      PROVE  Cardinality({k \in DOMAIN phi.from : phi.from[k] = p}) = EdgesBetween(f, p, x)
  <2>1. {k \in DOMAIN phi.from : phi.from[k] = p} = {}
    <3>1. \A n \in DOMAIN <<Then(c), Else(c)>> : <<Then(c), Else(c)>>[n] # p
      OBVIOUS
    <3> QED
      BY <1>3, <3>1
  <2>2. x \notin Range(f.succ[p])
    <3>1. x \notin F0.blocks
      BY <1>1, <1>2, PartNames
    <3>2. CASE p \in F0.blocks \ SplitBlocks
      BY <1>1, <1>5, <3>1, <3>2
    <3>3. CASE p \in SplitBlocks
      <4>1. Range(<<Then(p), Else(p)>>) = {Then(p), Else(p)}
        BY DEF Range
      <4>2. x \notin {Then(p), Else(p)}
        BY <1>1, <1>2, <3>3, PartNames
      <4> QED
        BY <1>5, <3>3, <4>1, <4>2
    <3>4. ASSUME NEW d \in SplitBlocks, p \in {Then(d), Else(d)} PROVE x \notin Range(f.succ[p])
      <4>1. d # c
        BY <3>4
      <4>2. x # TailOf(d)
        BY <1>1, <1>2, <4>1, PartNames
      <4>3. Range(<<TailOf(d)>>) = {TailOf(d)}
        BY DEF Range
      <4> QED
        BY <1>5, <3>4, <4>2, <4>3
    <3>5. ASSUME NEW d \in SplitBlocks, p = TailOf(d) PROVE x \notin Range(f.succ[p])
      BY <1>1, <1>5, <3>1, <3>5
    <3> QED
      BY <1>1, <3>2, <3>3, <3>4, <3>5, MadeBlocks
  <2>3. {n \in DOMAIN f.succ[p] : f.succ[p][n] = x} = {}
    BY <2>2 DEF Range
  <2> QED
    BY <2>1, <2>3 DEF EdgesBetween
<1>8. \A k, m \in DOMAIN phi.from : phi.from[k] = phi.from[m] => phi.args[k] = phi.args[m]
  <2>1. \A k, m \in DOMAIN <<Then(c), Else(c)>> : <<Then(c), Else(c)>>[k] = <<Then(c), Else(c)>>[m] => k = m
    BY <1>4
  <2> QED
    BY <1>3, <2>1
<1>9. Range(phi.from) \subseteq f.blocks
  <2>1. Range(<<Then(c), Else(c)>>) = {Then(c), Else(c)}
    BY DEF Range
  <2> QED
    BY <1>3, <1>4, <2>1
<1> QED
  BY <1>6, <1>7, <1>8, <1>9 DEF phi

LEMMA PhisStillMatchEdges ==
  ASSUME Settled
  PROVE  PhisMatchEdges(f)
<1> SUFFICES ASSUME NEW x \in f.blocks, NEW j \in DOMAIN f.code[x], IsPhi(f.code[x][j])
             PROVE  LET phi == f.code[x][j] IN
                    /\ Range(phi.from) \subseteq f.blocks
                    /\ \A p \in f.blocks :
                         Cardinality({k \in DOMAIN phi.from : phi.from[k] = p}) = EdgesBetween(f, p, x)
                    /\ \A k, m \in DOMAIN phi.from : phi.from[k] = phi.from[m] => phi.args[k] = phi.args[m]
  BY DEF PhisMatchEdges
<1>1. CASE x \in F0.blocks /\ Stands(x, j, x, j) /\ IsPhi(Body(x)[j]) /\ j \in 1 .. Size(x)
  BY <1>1, StandingPhisMatch
<1>2. CASE \E c \in SplitBlocks : \E i \in First(c) .. Size(c) - 1 : IsMerge(x, j, c, i)
  BY <1>2, MergingPhisMatch
<1> QED
  BY <1>1, <1>2, WherePhisAre

\* Whatever is read is an input or defined.
LEMMA OperandsAreDefined ==
  ASSUME Settled, NEW x \in f.blocks, NEW j \in DOMAIN f.code[x], NEW m \in DOMAIN f.code[x][j].args
  PROVE  f.code[x][j].args[m] \in Inputs \cup Defs(f)
<1> DEFINE y == f.code[x][j]
<1>1. /\ F0 \in Functions /\ SplitBlocks \subseteq F0.blocks /\ ClosedForm
      /\ \A c \in F0.blocks : First(c) \in 1 .. Size(c) /\ Size(c) \in Nat
  BY SettledFacts
<1>2. ASSUME NEW c \in SplitBlocks, NEW i \in First(c) .. Size(c) - 1, NEW part \in {"then", "else"},
             Body(c)[i].def # NoValue
      PROVE  NewValue(Body(c)[i].def, part) \in Defs(f)
  <2> DEFINE b == NewBlock(c, part)
             k == i - First(c) + 1
  <2>1. c \in F0.blocks /\ i \in 1 .. Size(c)
    BY <1>1
  <2>2. IsClone(b, k, c, i, part) /\ DOMAIN f.code[b] = 1 .. Size(c) - First(c) + 1
    BY CloneKinds
  <2>3. k \in DOMAIN f.code[b]
    BY <1>1, <2>1, <2>2
  <2>4. f.code[b][k].def = NewValue(Body(c)[i].def, part)
    BY <1>2, <2>2, DefOfKinds
  <2>5. b \in f.blocks
    BY <1>1, <2>1, MadeBlocks DEF Then, Else
  <2>6. NewValue(Body(c)[i].def, part) # NoValue
    BY <1>1, <1>2, <2>1, InstructionShape, ValueNames
  <2> HIDE DEF b, k
  <2> QED
    BY <2>3, <2>4, <2>5, <2>6 DEF Defs
<1>3. ASSUME NEW c \in F0.blocks, NEW i \in 1 .. Size(c), NEW n \in DOMAIN Body(c)[i].args
      PROVE  Lookup(reMapper, Body(c)[i].args[n]) \in Inputs \cup Defs(f)
  <2>1. Body(c)[i].args[n] \in Inputs \cup Defs(F0)
    BY <1>1, ArgumentsAreDefined
  <2> QED
    BY <2>1, StillDefined
<1>4. ASSUME NEW c, NEW i, Stands(x, j, c, i) PROVE y.args[m] \in Inputs \cup Defs(f)
  <2>1. c \in F0.blocks /\ i \in 1 .. Size(c) /\ y = Renamed(Body(c)[i], reMapper, SplitBlocks)
    BY <1>4 DEF Stands
  <2>2. m \in DOMAIN Body(c)[i].args /\ y.args[m] = Lookup(reMapper, Body(c)[i].args[m])
    BY <2>1 DEF Renamed, ArgsNow
  <2> QED
    BY <1>3, <2>1, <2>2
<1>5. ASSUME NEW c, NEW i, NEW part, IsClone(x, j, c, i, part) PROVE y.args[m] \in Inputs \cup Defs(f)
  <2>1. /\ c \in SplitBlocks /\ c \in F0.blocks /\ i \in First(c) .. Size(c) - 1 /\ i \in 1 .. Size(c)
        /\ part \in {"then", "else"} /\ y = Cloned(c, i, part, reMapper, SplitBlocks)
    BY <1>1, <1>5 DEF IsClone
  <2>2. /\ m \in DOMAIN Body(c)[i].args
        /\ y.args[m] = IF Body(c)[i].args[m] \in OwnValues(c, i) THEN NewValue(Body(c)[i].args[m], part)
                       ELSE Lookup(reMapper, Body(c)[i].args[m])
    BY <2>1 DEF Cloned, ArgsCloned
  <2>3. CASE Body(c)[i].args[m] \in OwnValues(c, i)
    <3>1. PICK e \in First(c) .. i - 1 : Body(c)[i].args[m] = Body(c)[e].def /\ Body(c)[e].def # NoValue
      BY <2>3 DEF OwnValues
    <3>2. e \in First(c) .. Size(c) - 1
      BY <1>1, <2>1
    <3> QED
      BY <1>2, <2>1, <2>2, <2>3, <3>1, <3>2
  <2>4. CASE Body(c)[i].args[m] \notin OwnValues(c, i)
    BY <1>3, <2>1, <2>2, <2>4
  <2> QED
    BY <2>3, <2>4
<1>6. ASSUME NEW c, NEW i, IsMerge(x, j, c, i) PROVE y.args[m] \in Inputs \cup Defs(f)
  <2>1. /\ c \in SplitBlocks /\ i \in First(c) .. Size(c) - 1 /\ Body(c)[i].def # NoValue
        /\ y = PhiOf(c, Body(c)[i].def)
    BY <1>6 DEF IsMerge
  <2>2. y.args[m] = NewValue(Body(c)[i].def, "then") \/ y.args[m] = NewValue(Body(c)[i].def, "else")
    BY <2>1 DEF PhiOf
  <2> QED
    BY <1>2, <2>1, <2>2
<1>7. ASSUME NEW c, NEW w, IsTest(x, j, c, w) PROVE y.args[m] \in Inputs \cup Defs(f)
  <2>1. w \in MayDecide(c) /\ y.args[m] = Lookup(reMapper, w)
    BY <1>7 DEF IsTest, IsNull
  <2>2. w \in Inputs \cup Defs(F0)
    <3>1. w \in IntegerValues /\ w # NoValue
      BY <2>1, NamesAssumption DEF MayDecide
    <3> QED
      BY <2>1, <3>1 DEF MayDecide, Above, Defs
  <2> QED
    BY <2>1, <2>2, StillDefined
<1>8. ASSUME NEW c, IsFork(x, j, c) PROVE y.args[m] \in Inputs \cup Defs(f)
  <2>1. c \in SplitBlocks /\ c \in F0.blocks /\ y.args[m] = NewValue(c, "cond")
    BY <1>1, <1>8 DEF IsFork, IfNull
  <2>2. PICK w \in MayDecide(c) : DOMAIN f.code[c] = 1 .. First(c) + 1 /\ IsTest(c, First(c), c, w)
    BY <2>1, HeadKinds
  <2>3. First(c) \in DOMAIN f.code[c] /\ f.code[c][First(c)].def = NewValue(c, "cond")
    BY <1>1, <2>1, <2>2, DefOfKinds
  <2>4. NewValue(c, "cond") # NoValue /\ c \in f.blocks
    BY <1>1, <2>1, ValueNames, MadeBlocks
  <2> QED
    BY <2>1, <2>3, <2>4 DEF Defs
<1>9. ASSUME NEW c, IsJump(x, j, c) PROVE FALSE
  <2>1. y.args = <<>>
    BY <1>9 DEF IsJump, Jump
  <2> QED
    BY <2>1
<1> QED
  BY <1>4, <1>5, <1>6, <1>7, <1>8, <1>9, EachKind

\* Between two blocks the function is one the verifier accepts: PHIs come
\* first and match the edges, definitions dominate their uses, and whatever is
\* read exists.
THEOREM IRStaysValid ==
  ASSUME NoIntegerIsInvoked
  PROVE  Spec => []ValidIR
<1>1. ASSUME ClosedForm PROVE ValidIR
  <2> SUFFICES ASSUME Settled
               PROVE  /\ Verified(f)
                      /\ \A b \in f.blocks : \A i \in DOMAIN f.code[b] :
                           Range(f.code[b][i].args) \subseteq Inputs \cup Defs(f)
    BY <1>1 DEF ValidIR, Settled
  <2>1. Verified(f)
    BY EdgesStillInside, PhisStillComeFirst, PhisStillMatchEdges, DefsStillDominate DEF Verified
  <2>2. \A b \in f.blocks : \A i \in DOMAIN f.code[b] :
          Range(f.code[b][i].args) \subseteq Inputs \cup Defs(f)
    BY OperandsAreDefined DEF Range
  <2> QED
    BY <2>1, <2>2
<1> QED
  BY <1>1, FunctionHasClosedForm, PTL
=============================================================================
