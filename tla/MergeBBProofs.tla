---------------------------- MODULE MergeBBProofs ----------------------------
(***************************************************************************)
(* Proofs about the merge-bb pass, for every set of blocks and every set   *)
(* of verified functions: first which blocks are merged and where edges    *)
(* lead, then that the function stays valid while they are merged and      *)
(* erased, under the hypothesis that PHIs of two blocks differ.            *)
(***************************************************************************)
EXTENDS MergeBB, IRProofs, SequenceTheorems

(***************************************************************************)
(* The inductive invariant.                                                *)
(***************************************************************************)

\* Blocks are erased after the last visit and only if they were merged;
\* instructions change only when a block is erased.
ErasedLast ==
  /\ F0.blocks \ deleteList \subseteq blocks
  /\ unvisited # {} => blocks = F0.blocks
  /\ blocks = F0.blocks => code = F0.code

\* rep points from every block of the function straight to a retained one.
RepIsRetained ==
  \A b \in F0.blocks :
    /\ rep[b] \in F0.blocks \ deleteList
    /\ b \notin deleteList => rep[b] = b

\* Edges are those of the input, seen through rep.
EdgesMapped ==
  \A b \in blocks :
    /\ Len(succ[b]) = Len(F0.succ[b])
    /\ \A n \in DOMAIN succ[b] : succ[b][n] = rep[F0.succ[b][n]]

\* As long as Changed is false nothing was merged.
UnchangedMeansNoMerge == ~changed => deleteList = {} /\ succ = F0.succ

IndInv ==
  /\ F0 \in Functions
  /\ TypeOK
  /\ ErasedLast
  /\ RepIsRetained
  /\ EdgesMapped
  /\ MergedBlocksAreEqual
  /\ UnchangedMeansNoMerge
-----------------------------------------------------------------------------
(* Lemmas about the helpers.                                               *)

\* Replacing a target keeps the number of targets and changes only that one.
LEMMA ReplaceAllTargets ==
  ASSUME NEW S, NEW s \in Seq(S), NEW old, NEW new \in S
  PROVE  /\ ReplaceAll(s, old, new) \in Seq(S)
         /\ Len(ReplaceAll(s, old, new)) = Len(s)
         /\ \A i \in DOMAIN s :
              ReplaceAll(s, old, new)[i] = IF s[i] = old THEN new ELSE s[i]
  BY DEF ReplaceAll

\* A lockstep walk over two bodies of one length compares every position.
LEMMA LockstepComparesAll ==
  ASSUME NEW f, NEW b1, NEW b2,
         Len(Body(f.code[b1])) = Len(Body(f.code[b2])),
         Lockstep(f, b1, b2)
  PROVE  SameInstructions(Body(f.code[b1]), Body(f.code[b2]))
<1> DEFINE s == Body(f.code[b1])
           t == Body(f.code[b2])
           n == Len(s)
<1>1. n \in Nat
  BY SMT
<1>2. Min({Len(s), Len(t)}) = n
  BY DEF Min
<1>3. SUFFICES ASSUME NEW i \in 1 .. n
               PROVE  s[i].op = t[i].op /\ s[i].args = t[i].args
  BY DEF SameInstructions
<1>4. n - i \in 0 .. n - 1 /\ n - (n - i) = i
  BY <1>1
<1>5. CanMergeInstructions(f, b1, s[n - (n - i)], b2, t[Len(t) - (n - i)])
  BY <1>2, <1>4 DEF Lockstep
<1>6. CanMergeInstructions(f, b1, s[i], b2, t[i])
  BY <1>4, <1>5
<1> QED
  BY <1>6 DEF CanMergeInstructions
-----------------------------------------------------------------------------
(* The invariance proof.                                                   *)

LEMMA InitIndInv == Init => IndInv
<1> SUFFICES ASSUME Init PROVE IndInv
  OBVIOUS
<1> USE DEF Init
<1>1. TypeOK
  BY FunctionsAreWellTyped DEF TypeOK
<1>2. ErasedLast
  BY DEF ErasedLast
<1>3. RepIsRetained
  BY FunctionsAreWellTyped DEF RepIsRetained
<1>4. EdgesMapped
  BY FunctionsAreWellTyped DEF EdgesMapped
<1>5. MergedBlocksAreEqual
  BY FunctionsAreWellTyped DEF MergedBlocksAreEqual, SameInstructions, SameExit
<1> QED
  BY <1>1, <1>2, <1>3, <1>4, <1>5 DEF IndInv, UnchangedMeansNoMerge

\* Merging a visited block into a duplicate.
LEMMA MergeIndInv ==
  ASSUME IndInv, NEW b1 \in Block, Merge(b1)
  PROVE  IndInv'
<1> USE DEF IndInv
<1>1. PICK b2 \in Duplicates(F, b1, deleteList) :
        /\ succ' = UpdateBranchTargets(F, b1, b2)
        /\ rep' = [b \in Block |-> IF rep[b] = b1 THEN b2 ELSE rep[b]]
  BY DEF Merge
<1>2. /\ b1 \in unvisited /\ b1 \in F0.blocks /\ b1 \notin deleteList
      /\ deleteList' = deleteList \cup {b1}
      /\ unvisited' = unvisited \ {b1}
      /\ changed' = TRUE
      /\ F0' = F0 /\ blocks' = blocks /\ code' = code
  BY DEF Merge, TypeOK
<1>3. blocks = F0.blocks /\ code = F0.code
  BY <1>2 DEF ErasedLast
<1>4. /\ b2 \in F0.blocks /\ b2 \in Block /\ b2 # b1 /\ b2 \notin deleteList
      /\ Len(Body(F0.code[b1])) = Len(Body(F0.code[b2]))
      /\ Lockstep(F, b1, b2)
  BY <1>3, FunctionsAreWellTyped DEF Duplicates, Preds, F
<1>5. ASSUME NEW p \in Block
      PROVE  /\ succ'[p] \in Seq(Block)
             /\ Len(succ'[p]) = Len(succ[p])
             /\ DOMAIN succ'[p] = DOMAIN succ[p]
             /\ p \in blocks => \A n \in DOMAIN succ[p] :
                  succ'[p][n] = IF succ[p][n] = b1 THEN b2 ELSE succ[p][n]
  <2>1. succ[p] \in Seq(Block)
    BY DEF TypeOK
  <2>2. succ'[p] = IF p \in Preds(F, b1) THEN ReplaceAll(succ[p], b1, b2) ELSE succ[p]
    BY <1>1 DEF UpdateBranchTargets, F, TypeOK
  <2>3. CASE p \in Preds(F, b1)
    BY <1>4, <2>1, <2>2, <2>3, ReplaceAllTargets
  <2>4. CASE p \notin Preds(F, b1)
    <3>1. succ'[p] = succ[p]
      BY <2>2, <2>4
    <3>2. p \in blocks => \A n \in DOMAIN succ[p] : succ[p][n] # b1
      BY <2>4 DEF Preds, F, Range
    <3> QED
      BY <2>1, <3>1, <3>2
  <2> QED
    BY <2>3, <2>4
<1>6. TypeOK'
  <2>1. DOMAIN succ' = Block
    BY <1>1 DEF UpdateBranchTargets, F, TypeOK
  <2>2. succ' \in [Block -> Seq(Block)]
    <3>1. succ' = [p \in Block |-> succ'[p]]
      BY <1>1, <2>1 DEF UpdateBranchTargets
    <3> QED
      BY <1>5, <3>1
  <2>3. rep' \in [Block -> Block]
    BY <1>1, <1>4 DEF TypeOK
  <2> QED
    BY <1>2, <2>2, <2>3 DEF TypeOK
<1>7. ErasedLast'
  BY <1>2, <1>3 DEF ErasedLast
<1>8. RepIsRetained'
  BY <1>1, <1>2, <1>4, FunctionsAreWellTyped DEF RepIsRetained
<1>9. EdgesMapped'
  <2> SUFFICES ASSUME NEW b \in F0.blocks
               PROVE  /\ Len(succ'[b]) = Len(F0.succ[b])
                      /\ \A n \in DOMAIN succ'[b] : succ'[b][n] = rep'[F0.succ[b][n]]
    BY <1>2, <1>3 DEF EdgesMapped
  <2>1. b \in Block /\ b \in blocks /\ succ[b] \in Seq(Block) /\ F0.succ[b] \in Seq(Block)
    BY <1>3, FunctionsAreWellTyped DEF TypeOK
  <2>2. Len(succ[b]) = Len(F0.succ[b])
    BY <2>1 DEF EdgesMapped
  <2>3. ASSUME NEW n \in DOMAIN succ'[b]
        PROVE  succ'[b][n] = rep'[F0.succ[b][n]]
    <3>1. n \in DOMAIN succ[b] /\ n \in DOMAIN F0.succ[b]
      BY <1>5, <2>1, <2>2, <2>3
    <3>2. F0.succ[b][n] \in Block
      BY <2>1, <3>1
    <3>3. succ[b][n] = rep[F0.succ[b][n]]
      BY <2>1, <3>1 DEF EdgesMapped
    <3>4. succ'[b][n] = IF succ[b][n] = b1 THEN b2 ELSE succ[b][n]
      BY <1>5, <2>1, <3>1
    <3> QED
      BY <1>1, <3>2, <3>3, <3>4
  <2> QED
    BY <1>5, <2>1, <2>2, <2>3
<1>10. MergedBlocksAreEqual'
  <2> SUFFICES ASSUME NEW b \in F0.blocks
               PROVE  /\ SameInstructions(Body(F0.code[b]), Body(F0.code[rep'[b]]))
                      /\ SameExit(F0, rep', b, rep'[b])
    BY <1>2 DEF MergedBlocksAreEqual
  <2>1. /\ SameInstructions(Body(F0.code[b]), Body(F0.code[rep[b]]))
        /\ SameExit(F0, rep, b, rep[b])
    BY DEF MergedBlocksAreEqual
  <2>2. /\ b \in Block /\ rep[b] \in F0.blocks
        /\ rep'[b] = IF rep[b] = b1 THEN b2 ELSE rep[b]
    BY <1>1, FunctionsAreWellTyped DEF RepIsRetained
  <2>3. SameInstructions(Body(F0.code[b1]), Body(F0.code[b2]))
    BY <1>3, <1>4, LockstepComparesAll DEF F
  <2>4. SameInstructions(Body(F0.code[b]), Body(F0.code[rep'[b]]))
    BY <2>1, <2>2, <2>3 DEF SameInstructions
  <2>5. ASSUME NEW c \in F0.blocks, NEW d \in F0.blocks, SameExit(F0, rep, c, d)
        PROVE  SameExit(F0, rep', c, d)
    <3>1. \A n \in 1 .. Len(F0.succ[c]) :
            F0.succ[c][n] \in F0.blocks /\ F0.succ[d][n] \in F0.blocks
      BY <2>5, FunctionsAreWellTyped DEF SameExit
    <3> QED
      BY <1>1, <1>2, <2>5, <3>1, FunctionsAreWellTyped DEF SameExit, Term
  <2>6. SameExit(F0, rep, b1, b2)
    <3>1. /\ IsUnconditional(Term(F0, b1)) /\ IsUnconditional(Term(F0, b2))
          /\ b2 \in Preds(F, succ[b1][1])
      BY <1>1, <1>3 DEF Merge, MayBeErased, Duplicates, F, Term
    <3>2. Len(F0.succ[b1]) = 1 /\ Len(F0.succ[b2]) = 1
      BY <1>2, <1>4, <3>1, FunctionsAreWellTyped
    <3>3. /\ succ[b1] \in Seq(Block) /\ succ[b2] \in Seq(Block)
          /\ Len(succ[b1]) = 1 /\ Len(succ[b2]) = 1
      BY <1>2, <1>3, <1>4, <3>2 DEF EdgesMapped, TypeOK
    <3>4. succ[b2][1] = succ[b1][1]
      BY <3>1, <3>3 DEF Preds, F, Range
    <3>5. rep[F0.succ[b1][1]] = rep[F0.succ[b2][1]]
      BY <1>2, <1>3, <1>4, <3>3, <3>4 DEF EdgesMapped
    <3> QED
      BY <3>1, <3>2, <3>5 DEF SameExit, IsUnconditional
  <2>7. SameExit(F0, rep', b, rep[b]) /\ SameExit(F0, rep', b1, b2)
    BY <1>2, <1>4, <2>1, <2>2, <2>5, <2>6
  <2>8. SameExit(F0, rep', b, rep'[b])
    BY <2>2, <2>7 DEF SameExit
  <2> QED
    BY <2>4, <2>8
<1> QED
  BY <1>2, <1>6, <1>7, <1>8, <1>9, <1>10 DEF UnchangedMeansNoMerge

\* Visiting a block that has no duplicate.
LEMMA RetainIndInv ==
  ASSUME IndInv, NEW b1 \in Block, Retain(b1)
  PROVE  IndInv'
<1> USE DEF IndInv
<1>1. /\ unvisited' = unvisited \ {b1} /\ b1 \in unvisited
      /\ UNCHANGED <<F0, blocks, code, succ, deleteList, changed, rep>>
  BY DEF Retain
<1>2. TypeOK'
  BY <1>1 DEF TypeOK
<1>3. ErasedLast'
  BY <1>1 DEF ErasedLast
<1> QED
  BY <1>1, <1>2, <1>3
     DEF RepIsRetained, EdgesMapped, MergedBlocksAreEqual, SameExit, UnchangedMeansNoMerge

\* Erasing a block keeps the shape of the table of instructions.
LEMMA ErasureKeepsDomain ==
  ASSUME NEW cd, NEW s, NEW p, NEW b
  PROVE  DOMAIN PoisonDefs(ForgetPredecessor(cd, s, p), b) = DOMAIN cd
<1>1. DOMAIN ForgetPredecessor(cd, s, p) = DOMAIN cd
  BY Zenon DEF ForgetPredecessor, ReplaceAllUses
<1> QED
  BY <1>1 DEF PoisonDefs

\* Erasing a merged block.
LEMMA DeleteDeadBlockIndInv ==
  ASSUME IndInv, NEW b1 \in Block, DeleteDeadBlock(b1)
  PROVE  IndInv'
<1> USE DEF IndInv
<1>1. /\ unvisited = {} /\ b1 \in deleteList /\ b1 \in blocks
      /\ blocks' = blocks \ {b1}
      /\ UNCHANGED <<F0, succ, unvisited, deleteList, changed, rep>>
  BY DEF DeleteDeadBlock
<1>2. TypeOK'
  <2>1. DOMAIN code' = Block
    BY ErasureKeepsDomain DEF DeleteDeadBlock, TypeOK
  <2> QED
    BY <1>1, <2>1 DEF TypeOK
<1>3. ErasedLast'
  BY <1>1 DEF ErasedLast, TypeOK
<1>4. EdgesMapped'
  BY <1>1 DEF EdgesMapped
<1> QED
  BY <1>1, <1>2, <1>3, <1>4
     DEF RepIsRetained, MergedBlocksAreEqual, SameExit, UnchangedMeansNoMerge

LEMMA NextIndInv == IndInv /\ [Next]_vars => IndInv'
<1> SUFFICES ASSUME IndInv, [Next]_vars PROVE IndInv'
  OBVIOUS
<1>1. ASSUME NEW b \in Block, Merge(b) PROVE IndInv'
  BY <1>1, MergeIndInv
<1>2. ASSUME NEW b \in Block, Retain(b) PROVE IndInv'
  BY <1>2, RetainIndInv
<1>3. ASSUME NEW b \in Block, DeleteDeadBlock(b) PROVE IndInv'
  BY <1>3, DeleteDeadBlockIndInv
<1>4. CASE UNCHANGED vars
  BY <1>4 DEF vars, IndInv, TypeOK, ErasedLast, RepIsRetained, EdgesMapped,
              MergedBlocksAreEqual, SameExit, UnchangedMeansNoMerge
<1> QED
  BY <1>1, <1>2, <1>3, <1>4 DEF Next, Returned

THEOREM Invariance == Spec => []IndInv
  BY InitIndInv, NextIndInv, PTL DEF Spec
-----------------------------------------------------------------------------
(* What follows.                                                           *)

\* The variables keep their types, and blocks are put on DeleteList only when
\* they are visited.
THEOREM TypeCorrect == Spec => []TypeOK
<1>1. IndInv => TypeOK
  BY DEF IndInv
<1> QED
  BY <1>1, Invariance, PTL

\* Every edge of a live block leads, through any chain of merges, to the block
\* that stands for its original target; no edge leads to a block that is about
\* to be erased, which is what DeleteDeadBlock requires.
THEOREM EdgesAreFollowed == Spec => []EdgesFollowRep
<1>1. IndInv => EdgesFollowRep
  <2> SUFFICES ASSUME IndInv, NEW b \in blocks, NEW n \in DOMAIN succ[b]
               PROVE  succ[b][n] \in blocks \ deleteList
    BY DEF EdgesFollowRep, IndInv, EdgesMapped
  <2>1. b \in F0.blocks /\ b \in Block /\ succ[b] \in Seq(Block) /\ F0.succ[b] \in Seq(Block)
    BY FunctionsAreWellTyped DEF IndInv, TypeOK
  <2>2. n \in DOMAIN F0.succ[b] /\ succ[b][n] = rep[F0.succ[b][n]]
    BY <2>1 DEF IndInv, EdgesMapped
  <2>3. F0.succ[b][n] \in F0.blocks
    BY <2>1, <2>2, FunctionsAreWellTyped DEF IndInv
  <2> QED
    BY <2>2, <2>3 DEF IndInv, RepIsRetained, ErasedLast
<1> QED
  BY <1>1, Invariance, PTL

\* A merged block held the instructions of the block that stands for it at the
\* end of the chain, and the two led to the same place.
THEOREM MergesAreBetweenEquals == Spec => []MergedBlocksAreEqual
<1>1. IndInv => MergedBlocksAreEqual
  BY DEF IndInv
<1> QED
  BY <1>1, Invariance, PTL

\* All analyses are reported preserved only for a function left as it was.
THEOREM PreservedIsSound == Spec => []PreservedMeansUntouched
<1>1. IndInv => PreservedMeansUntouched
  <2> SUFFICES ASSUME IndInv, ~changed
               PROVE  F = F0
    BY DEF PreservedMeansUntouched
  <2>1. deleteList = {} /\ succ = F0.succ
    BY DEF IndInv, UnchangedMeansNoMerge
  <2>2. blocks = F0.blocks /\ code = F0.code
    BY <2>1 DEF IndInv, TypeOK, ErasedLast
  <2> QED
    BY <2>1, <2>2, FunctionsAreWellTyped DEF F, IndInv
<1> QED
  BY <1>1, Invariance, PTL
-----------------------------------------------------------------------------
(* What Body holds.                                                        *)

\* w is what the walk of Body has listed after each of k instructions.
Walks(c, k, w) ==
  w = [n \in 0 .. k |->
         IF n = 0 THEN <<>>
         ELSE IF NotDebug(c[n]) THEN Append(w[n - 1], c[n]) ELSE w[n - 1]]

WalksStep(c, n, w) == w[n] = IF NotDebug(c[n]) THEN Append(w[n - 1], c[n]) ELSE w[n - 1]

LEMMA WalkStepByStep ==
  ASSUME NEW c, NEW k \in Nat, NEW w, Walks(c, k, w)
  PROVE  w[0] = <<>> /\ \A n \in 1 .. k : WalksStep(c, n, w)
<1> DEFINE e == [n \in 0 .. k |->
                   IF n = 0 THEN <<>>
                   ELSE IF NotDebug(c[n]) THEN Append(w[n - 1], c[n]) ELSE w[n - 1]]
<1>1. e[0] = <<>> /\ \A n \in 1 .. k : e[n] = IF NotDebug(c[n]) THEN Append(w[n - 1], c[n]) ELSE w[n - 1]
  OBVIOUS
<1>2. w = e
  BY DEF Walks
<1> HIDE DEF e
<1> QED
  BY <1>1, <1>2 DEF WalksStep

\* s lists what is no debug intrinsic among the first n instructions.
Lists(c, n, s) ==
  /\ \A k \in 1 .. Len(s) : \E i \in 1 .. n : s[k] = c[i] /\ NotDebug(c[i])
  /\ \A i \in 1 .. n : NotDebug(c[i]) => \E k \in 1 .. Len(s) : s[k] = c[i]

LEMMA OneMore ==
  ASSUME NEW S, NEW c \in Seq(S), NEW n \in Nat, n + 1 <= Len(c), NEW s \in Seq(S), Lists(c, n, s),
         NEW t, t = IF NotDebug(c[n + 1]) THEN Append(s, c[n + 1]) ELSE s
  PROVE  t \in Seq(S) /\ Lists(c, n + 1, t)
<1>1. c[n + 1] \in S
  OBVIOUS
<1>2. CASE ~NotDebug(c[n + 1])
  <2>1. t = s
    BY <1>2
  <2>2. \A i \in 1 .. n : i \in 1 .. n + 1
    OBVIOUS
  <2>3. \A i \in 1 .. n + 1 : i = n + 1 \/ i \in 1 .. n
    OBVIOUS
  <2>4. \A k \in 1 .. Len(s) : \E i \in 1 .. n + 1 : s[k] = c[i] /\ NotDebug(c[i])
    BY <2>2 DEF Lists
  <2>5. \A i \in 1 .. n + 1 : NotDebug(c[i]) => \E k \in 1 .. Len(s) : s[k] = c[i]
    BY <1>2, <2>3 DEF Lists
  <2> QED
    BY <2>1, <2>4, <2>5 DEF Lists
<1>3. CASE NotDebug(c[n + 1])
  <2>1. /\ t \in Seq(S) /\ Len(t) = Len(s) + 1 /\ t[Len(s) + 1] = c[n + 1]
        /\ \A k \in 1 .. Len(s) : t[k] = s[k]
    BY <1>1, <1>3
  <2>2. \A k \in 1 .. Len(t) : \E i \in 1 .. n + 1 : t[k] = c[i] /\ NotDebug(c[i])
    BY <1>3, <2>1 DEF Lists
  <2>3. ASSUME NEW i \in 1 .. n + 1, NotDebug(c[i])
        PROVE  \E k \in 1 .. Len(t) : t[k] = c[i]
    <3>1. CASE i = n + 1
      BY <2>1, <3>1
    <3>2. CASE i \in 1 .. n
      <4>1. PICK k \in 1 .. Len(s) : s[k] = c[i]
        BY <2>3, <3>2 DEF Lists
      <4> QED
        BY <2>1, <4>1
    <3> QED
      BY <3>1, <3>2
  <2> QED
    BY <2>1, <2>2, <2>3 DEF Lists
<1> QED
  BY <1>2, <1>3

\* The walk can be made.
LEMMA WalkExists ==
  ASSUME NEW S, NEW c \in Seq(S), NEW N \in Nat, N <= Len(c)
  PROVE  \E w \in [0 .. N -> Seq(S)] : Walks(c, N, w)
<1> DEFINE T == {k \in Nat : k <= N => \E w \in [0 .. k -> Seq(S)] : Walks(c, k, w)}
<1>1. 0 \in T
  <2> DEFINE w == [n \in 0 .. 0 |-> <<>>]
  <2>1. w \in [0 .. 0 -> Seq(S)]
    OBVIOUS
  <2>2. Walks(c, 0, w)
    BY DEF Walks
  <2> QED
    BY <2>1, <2>2
<1>2. ASSUME NEW k \in Nat, k \in T PROVE k + 1 \in T
  <2> SUFFICES ASSUME k + 1 <= N
               PROVE  \E w \in [0 .. k + 1 -> Seq(S)] : Walks(c, k + 1, w)
    OBVIOUS
  <2>1. PICK w \in [0 .. k -> Seq(S)] : Walks(c, k, w)
    BY <1>2
  <2>2. w[0] = <<>> /\ \A n \in 1 .. k : WalksStep(c, n, w)
    BY <2>1, WalkStepByStep
  <2> DEFINE last == IF NotDebug(c[k + 1]) THEN Append(w[k], c[k + 1]) ELSE w[k]
             v == [n \in 0 .. k + 1 |-> IF n = k + 1 THEN last ELSE w[n]]
  <2>3. last \in Seq(S)
    <3>1. w[k] \in Seq(S) /\ c[k + 1] \in S
      OBVIOUS
    <3> QED
      BY <3>1
  <2> HIDE DEF last
  <2>4. v \in [0 .. k + 1 -> Seq(S)]
    BY <2>3
  <2>5. ASSUME NEW n \in 0 .. k + 1
        PROVE  v[n] = IF n = 0 THEN <<>> ELSE IF NotDebug(c[n]) THEN Append(v[n - 1], c[n]) ELSE v[n - 1]
    <3>1. CASE n = k + 1
      BY <3>1 DEF last
    <3>2. CASE n = 0
      BY <2>2, <3>2
    <3>3. CASE n \in 1 .. k
      <4>1. v[n] = w[n] /\ v[n - 1] = w[n - 1] /\ n # 0
        BY <3>3
      <4> QED
        BY <2>2, <3>3, <4>1 DEF WalksStep
    <3> QED
      BY <3>1, <3>2, <3>3
  <2>6. Walks(c, k + 1, v)
    <3>1. v = [n \in 0 .. k + 1 |-> v[n]]
      OBVIOUS
    <3> HIDE DEF v
    <3> QED
      BY <2>5, <3>1 DEF Walks
  <2> HIDE DEF v
  <2> QED
    BY <2>4, <2>6
<1> HIDE DEF T
<1>3. N \in T
  BY <1>1, <1>2, Induction
<1> QED
  BY <1>3 DEF T

\* Body lists what the block does besides its terminator.
LEMMA BodyLists ==
  ASSUME NEW S, NEW c \in Seq(S), c # <<>>
  PROVE  Lists(c, Len(c) - 1, Body(c))
<1> DEFINE N == Len(c) - 1
           w == CHOOSE w : Walks(c, N, w)
<1>1. N \in Nat /\ N <= Len(c)
  OBVIOUS
<1>2. Walks(c, N, w)
  BY <1>1, WalkExists
<1>3. Body(c) = w[N]
  BY DEF Walks, Body
<1> HIDE DEF w, N
<1>4. w[0] = <<>> /\ \A n \in 1 .. N : WalksStep(c, n, w)
  BY <1>1, <1>2, WalkStepByStep
<1> DEFINE T == {n \in Nat : n <= N => w[n] \in Seq(S) /\ Lists(c, n, w[n])}
<1>5. 0 \in T
  <2>1. Lists(c, 0, <<>>) /\ <<>> \in Seq(S)
    BY DEF Lists
  <2> QED
    BY <1>4, <2>1
<1>6. ASSUME NEW n \in Nat, n \in T PROVE n + 1 \in T
  <2> SUFFICES ASSUME n + 1 <= N PROVE w[n + 1] \in Seq(S) /\ Lists(c, n + 1, w[n + 1])
    OBVIOUS
  <2>1. w[n] \in Seq(S) /\ Lists(c, n, w[n])
    BY <1>1, <1>6
  <2>2. w[n + 1] = IF NotDebug(c[n + 1]) THEN Append(w[n], c[n + 1]) ELSE w[n]
    <3>1. n + 1 \in 1 .. N /\ (n + 1) - 1 = n
      BY <1>1
    <3> QED
      BY <1>4, <3>1 DEF WalksStep
  <2>3. n + 1 <= Len(c)
    BY <1>1
  <2> HIDE DEF T
  <2> QED
    BY <2>1, <2>2, <2>3, OneMore
<1> HIDE DEF T
<1>7. N \in T
  BY <1>1, <1>5, <1>6, Induction
<1>8. Lists(c, N, w[N])
  BY <1>1, <1>7 DEF T
<1> QED
  BY <1>3, <1>8 DEF N
-----------------------------------------------------------------------------
(* Uses.                                                                   *)

UseAt(f, v, b, i, k) ==
  /\ b \in f.blocks /\ i \in DOMAIN f.code[b] /\ NotDebug(f.code[b][i])
  /\ k \in DOMAIN f.code[b][i].args /\ f.code[b][i].args[k] = v

LEMMA UsesAre ==
  ASSUME NEW f, NEW v, v # NoValue, NEW u
  PROVE  u \in Uses(f, v) <=> \E b \in f.blocks : \E i \in DOMAIN f.code[b] :
                                \E k \in DOMAIN f.code[b][i].args :
                                  u = <<b, i, k>> /\ UseAt(f, v, b, i, k)
BY DEF Uses, UsesIn, UseAt

LEMMA UseIsUse ==
  ASSUME NEW f, NEW v, v # NoValue, NEW b, NEW i, NEW k, UseAt(f, v, b, i, k)
  PROVE  <<b, i, k>> \in Uses(f, v)
BY UsesAre DEF UseAt

LEMMA UsesInFinite ==
  ASSUME NEW f, NEW v, NEW b, IsSequence(f.code[b]),
         \A i \in DOMAIN f.code[b] : IsSequence(f.code[b][i].args)
  PROVE  IsFiniteSet(UsesIn(f, b, v))
<1> DEFINE D == {j \in DOMAIN f.code[b] : NotDebug(f.code[b][j])}
           K(i) == {n \in DOMAIN f.code[b][i].args : f.code[b][i].args[n] = v}
           U(i) == {<<b, i, k>> : k \in K(i)}
<1>1. IsFiniteSet(D)
  <2>1. IsFiniteSet(DOMAIN f.code[b])
    <3>1. Len(f.code[b]) \in Nat /\ DOMAIN f.code[b] = 1 .. Len(f.code[b])
      BY DEF IsSequence
    <3> QED
      BY <3>1, FS_Interval
  <2> QED
    BY <2>1, FS_Subset
<1>2. ASSUME NEW i \in D PROVE IsFiniteSet(U(i))
  <2>1. IsFiniteSet(DOMAIN f.code[b][i].args)
    <3>1. Len(f.code[b][i].args) \in Nat /\ DOMAIN f.code[b][i].args = 1 .. Len(f.code[b][i].args)
      BY <1>2 DEF IsSequence
    <3> QED
      BY <3>1, FS_Interval
  <2>2. IsFiniteSet(K(i))
    BY <2>1, FS_Subset
  <2> HIDE DEF K
  <2> DEFINE h == [k \in K(i) |-> <<b, i, k>>]
  <2>3. h \in Surjection(K(i), U(i))
    BY DEF Surjection
  <2> HIDE DEF h
  <2> QED
    BY <2>2, <2>3, FS_Surjection
<1>3. IsFiniteSet({U(i) : i \in D})
  <2> HIDE DEF D, U
  <2> DEFINE h == [i \in D |-> U(i)]
  <2>1. h \in Surjection(D, {U(i) : i \in D})
    BY DEF Surjection
  <2> HIDE DEF h
  <2> QED
    BY <1>1, <2>1, FS_Surjection
<1>4. \A X \in {U(i) : i \in D} : IsFiniteSet(X)
  BY <1>2
<1>5. IsFiniteSet(UNION {U(i) : i \in D})
  <2> HIDE DEF D, U
  <2> QED
    BY <1>3, <1>4, FS_UNION
<1> QED
  BY <1>5 DEF UsesIn

LEMMA UsesFinite ==
  ASSUME NEW f, IsFiniteSet(f.blocks), WellFormed(f), NEW v
  PROVE  IsFiniteSet(Uses(f, v))
<1>1. CASE v = NoValue
  BY <1>1, FS_EmptySet DEF Uses
<1>2. CASE v # NoValue
  <2>1. \A b \in f.blocks : IsFiniteSet(UsesIn(f, b, v))
    BY UsesInFinite DEF WellFormed
  <2> DEFINE h == [b \in f.blocks |-> UsesIn(f, b, v)]
             X == {UsesIn(f, b, v) : b \in f.blocks}
  <2>2. h \in Surjection(f.blocks, X)
    BY DEF Surjection
  <2>3. IsFiniteSet(X)
    <3> HIDE DEF h, X
    <3> QED
      BY <2>2, FS_Surjection
  <2>4. IsFiniteSet(UNION X)
    BY <2>1, <2>3, FS_UNION
  <2> QED
    BY <1>2, <2>4 DEF Uses
<1> QED
  BY <1>1, <1>2

\* Counting up to one.
LEMMA FewUses ==
  ASSUME NEW U, IsFiniteSet(U)
  PROVE  /\ Cardinality(U) = 0 => U = {}
         /\ Cardinality(U) = 1 => \A x, y \in U : x = y
<1>1. Cardinality(U) = 0 => U = {}
  BY FS_EmptySet
<1>2. ASSUME Cardinality(U) = 1, NEW x \in U, NEW y \in U, x # y PROVE FALSE
  <2>1. IsFiniteSet(U \ {x}) /\ Cardinality(U \ {x}) = Cardinality(U) - 1
    BY FS_RemoveElement
  <2>2. U \ {x} = {}
    BY <1>2, <2>1, FS_EmptySet
  <2> QED
    BY <1>2, <2>2
<1> QED
  BY <1>1, <1>2
-----------------------------------------------------------------------------
(* The graph after the edges to b1 were led to b2.                         *)

Retargeted(g, h, b1, b2, s) ==
  /\ ControlFlowGraph(g) /\ ControlFlowGraph(h)
  /\ h.entry = g.entry /\ h.blocks = g.blocks /\ h.code = g.code
  /\ b1 \in g.blocks \ {g.entry} /\ b2 \in g.blocks \ {g.entry} /\ b1 # b2 /\ s \in g.blocks
  /\ g.succ[b1] = <<s>> /\ g.succ[b2] = <<s>>
  /\ \A c \in g.blocks :
       /\ IsSequence(g.succ[c]) /\ IsSequence(h.succ[c]) /\ Len(h.succ[c]) = Len(g.succ[c])
       /\ \A n \in DOMAIN g.succ[c] : h.succ[c][n] = IF g.succ[c][n] = b1 THEN b2 ELSE g.succ[c][n]

\* Each edge is one of before, with b2 in place of b1.
LedTo(g, h, b1, b2) ==
  \A c \in g.blocks : \A y \in Range(h.succ[c]) :
    \E x \in Range(g.succ[c]) : y = IF x = b1 THEN b2 ELSE x

\* What is reached now was reached before; b2 is, if b1 was.
LEMMA RetargetedReach ==
  ASSUME NEW g, NEW h, ControlFlowGraph(g), ControlFlowGraph(h), h.entry = g.entry,
         NEW b1, NEW b2, NEW s, NEW a, a # b1, b1 # g.entry, b2 \in g.blocks,
         Range(g.succ[b1]) = {s}, Range(g.succ[b2]) = {s},
         LedTo(g, h, b1, b2)
  PROVE  \A c \in ReachableAvoiding(h, a) :
           c \in ReachableAvoiding(g, a) \/ (c = b2 /\ b1 \in ReachableAvoiding(g, a))
<1> DEFINE R == ReachableAvoiding(g, a)
           X == R \cup {c \in {b2} \ {a} : b1 \in R}
<1>1. R \subseteq g.blocks \ {a} /\ (g.entry # a => g.entry \in R) /\ Closed(g, a, R)
  BY ReachableIsLeast
<1>2. ASSUME NEW c \in X, NEW y \in Range(h.succ[c]) \ {a} PROVE y \in X
  <2>1. PICK x \in Range(g.succ[c]) : y = IF x = b1 THEN b2 ELSE x
    BY <1>1 DEF LedTo
  <2>2. CASE c \in R
    <3>1. x # a => x \in R
      BY <1>1, <2>1, <2>2 DEF Closed
    <3> QED
      BY <1>2, <2>1, <3>1
  <2>3. CASE c = b2 /\ b1 \in R
    <3>1. x = s /\ s \in Range(g.succ[b1])
      BY <2>1, <2>3
    <3>2. x # a => x \in R
      BY <1>1, <2>3, <3>1 DEF Closed
    <3> QED
      BY <1>2, <2>1, <3>2
  <2> QED
    BY <2>2, <2>3
<1>3. Closed(h, a, X)
  BY <1>2 DEF Closed
<1>4. h.entry # a => h.entry \in X
  BY <1>1
<1>5. ReachableAvoiding(h, a) \subseteq X
  BY <1>3, <1>4, ReachableIsLeast
<1> QED
  BY <1>5

\* A function as a record, with successors for each of its blocks.
IsRecord(g) ==
  /\ g = [entry |-> g.entry, blocks |-> g.blocks, code |-> g.code, succ |-> g.succ]
  /\ g.blocks \subseteq DOMAIN g.succ

\* The graph without the edge on which an invoke in a returns.
Unwinding(g, a) == [g EXCEPT !.succ[a] = Tail(@)]

LEMMA OneLeft ==
  ASSUME NEW s, s \in Seq(Range(s)), Len(s) = 2, NEW t \in Seq(Range(s)), Len(t) = Len(s) - 1,
         \A i \in 1 .. Len(t) : t[i] = s[i + 1]
  PROVE  Range(t) = {s[2]} /\ s[2] \in Range(s)
<1>1. DOMAIN t = {1} /\ DOMAIN s = 1 .. 2 /\ t[1] = s[2]
  OBVIOUS
<1> QED
  BY <1>1 DEF Range

LEMMA SecondOfTwo ==
  ASSUME NEW s, IsSequence(s), Len(s) = 2
  PROVE  Range(Tail(s)) = {s[2]} /\ s[2] \in Range(s)
<1>1. s \in Seq(Range(s)) /\ s # <<>>
  BY DEF IsSequence
<1>2. /\ Tail(s) \in Seq(Range(s)) /\ Len(Tail(s)) = Len(s) - 1
      /\ \A i \in 1 .. Len(Tail(s)) : Tail(s)[i] = s[i + 1]
  BY <1>1, HeadTailProperties
<1> QED
  BY <1>1, <1>2, OneLeft, Zenon

LEMMA UnwindingFields ==
  ASSUME NEW g, IsRecord(g), ControlFlowGraph(g), NEW a \in g.blocks,
         IsSequence(g.succ[a]), Len(g.succ[a]) = 2
  PROVE  /\ Unwinding(g, a).entry = g.entry /\ Unwinding(g, a).blocks = g.blocks
         /\ \A c : c # a => Unwinding(g, a).succ[c] = g.succ[c]
         /\ Range(Unwinding(g, a).succ[a]) = {g.succ[a][2]}
         /\ ControlFlowGraph(Unwinding(g, a))
<1> DEFINE t == Tail(g.succ[a])
           u == Unwinding(g, a)
<1>1. /\ u.entry = g.entry /\ u.blocks = g.blocks
      /\ u.succ = [g.succ EXCEPT ![a] = t]
  BY DEF IsRecord, Unwinding
<1>2. Range(t) = {g.succ[a][2]} /\ g.succ[a][2] \in Range(g.succ[a])
  BY SecondOfTwo
<1> HIDE DEF t, u
<1>3. u.succ[a] = t /\ \A c : c # a => u.succ[c] = g.succ[c]
  BY <1>1 DEF IsRecord
<1>4. ControlFlowGraph(u)
  BY <1>1, <1>2, <1>3 DEF ControlFlowGraph
<1> QED
  BY <1>1, <1>2, <1>3, <1>4 DEF u

\* Nothing reaches a block no edge leads to.
LEMMA NoPredecessors ==
  ASSUME NEW g, ControlFlowGraph(g), NEW b, b # g.entry,
         \A c \in g.blocks : b \notin Range(g.succ[c])
  PROVE  b \notin Reachable(g)
<1> DEFINE X == Reachable(g) \ {b}
<1>1. g.entry \in X /\ \A c \in X : Range(g.succ[c]) \subseteq X
  BY ReachableIsClosed
<1> QED
  BY <1>1, ClosedHoldsReachable

\* What an edge less leaves reachable was reachable.
LEMMA UnwindingReaches ==
  ASSUME NEW g, IsRecord(g), ControlFlowGraph(g), NEW a \in g.blocks,
         IsSequence(g.succ[a]), Len(g.succ[a]) = 2
  PROVE  Reachable(Unwinding(g, a)) \subseteq Reachable(g)
<1> DEFINE u == Unwinding(g, a)
           R == Reachable(g)
<1>1. /\ u.entry = g.entry /\ u.blocks = g.blocks /\ ControlFlowGraph(u)
      /\ \A c : c # a => u.succ[c] = g.succ[c]
      /\ Range(u.succ[a]) = {g.succ[a][2]}
  BY UnwindingFields
<1> HIDE DEF u
<1>2. g.succ[a][2] \in Range(g.succ[a])
  BY DEF IsSequence, Range
<1>3. u.entry \in R /\ \A c \in R : Range(u.succ[c]) \subseteq R
  BY <1>1, <1>2, ReachableIsClosed
<1>4. Reachable(u) \subseteq R
  <2> HIDE DEF R
  <2> QED
    BY <1>1, <1>3, ClosedHoldsReachable
<1> QED
  BY <1>4 DEF u

\* What cannot be reached is dominated by everything.
LEMMA UnreachableIsDominated ==
  ASSUME NEW g, IsRecord(g), ControlFlowGraph(g), WellFormed(g),
         NEW a \in g.blocks, NEW i \in DOMAIN g.code[a], NEW b, b \notin Reachable(g)
  PROVE  AvailableIn(g, a, i, b)
<1>1. Dominates(g, a, b)
  BY ReachableShrinks DEF Dominates
<1>2. ASSUME g.code[a][i].op = "invoke" PROVE b \notin Reachable(Unwinding(g, a))
  <2>1. IsSequence(g.succ[a]) /\ Len(g.succ[a]) = 2
    BY <1>2 DEF WellFormed
  <2> QED
    BY <2>1, UnwindingReaches
<1> QED
  BY <1>1, <1>2 DEF AvailableIn, Unwinding
-----------------------------------------------------------------------------
(* Merging keeps the function valid.                                       *)

\* The values of a block are read once at most, in it or by a PHI on the edge
\* that leaves it.
ReadOnTheWayOut(g, b) ==
  \A i \in DOMAIN g.code[b] : g.code[b][i].def # NoValue =>
    \A u \in Uses(g, g.code[b][i].def) :
      \/ u[1] = b
      \/ IsPhi(g.code[u[1]][u[2]]) /\ g.code[u[1]][u[2]].from[u[3]] = b

ReadOnce(g, b) ==
  \A i \in DOMAIN g.code[b] : g.code[b][i].def # NoValue =>
    \A u, w \in Uses(g, g.code[b][i].def) : u = w

NoPhi(g, b) == \A i \in DOMAIN g.code[b] : ~IsPhi(g.code[b][i])

OnePhi(g, b) == \A i \in DOMAIN g.code[b] : IsPhi(g.code[b][i]) => i = 1

\* What MergeBB has found out about b1 and b2, which branch to s.
Alike(g, b1, b2, s) ==
  /\ NoPhi(g, b1) /\ NoPhi(g, b2) /\ OnePhi(g, s)
  /\ ReadOnTheWayOut(g, b1) /\ ReadOnce(g, b1) /\ ReadOnce(g, b2)
  /\ \A j \in DOMAIN g.code[b2] : NotDebug(g.code[b2][j]) =>
       \E i \in DOMAIN g.code[b1] : NotDebug(g.code[b1][i]) /\ g.code[b1][i].args = g.code[b2][j].args
  /\ \A k, m \in DOMAIN g.code[s][1].from :
       /\ IsPhi(g.code[s][1]) /\ g.code[s][1].from[k] = b1 /\ g.code[s][1].from[m] = b2
       => \/ g.code[s][1].args[k] = g.code[s][1].args[m]
          \/ DefinedIn(g, b2, g.code[s][1].args[m])

\* The situation of the lemmas below.
Merging(g, h, b1, b2, s) ==
  /\ IsRecord(g) /\ IsRecord(h) /\ WellFormed(g) /\ SingleAssignment(g) /\ Verified(g)
  /\ Retargeted(g, h, b1, b2, s) /\ Alike(g, b1, b2, s)
  /\ \A a \in g.blocks : \A i \in DOMAIN g.code[a] :
       g.code[a][i].op = "invoke" => b1 \notin Range(g.succ[a])

LEMMA MergingReach ==
  ASSUME NEW g, NEW h, NEW b1, NEW b2, NEW s, Merging(g, h, b1, b2, s)
  PROVE  /\ \A a : a # b1 => \A c \in ReachableAvoiding(h, a) :
              c \in ReachableAvoiding(g, a) \/ (c = b2 /\ b1 \in ReachableAvoiding(g, a))
         /\ \A a \in g.blocks \ {b1, b2} : Len(g.succ[a]) = 2 =>
              \A c \in Reachable(Unwinding(h, a)) :
                c \in Reachable(Unwinding(g, a)) \/ (c = b2 /\ b1 \in Reachable(Unwinding(g, a)))
         /\ b1 \notin Reachable(h)
<1>1. /\ ControlFlowGraph(g) /\ ControlFlowGraph(h) /\ h.entry = g.entry /\ h.blocks = g.blocks
      /\ b1 \in g.blocks /\ b1 # g.entry /\ b2 \in g.blocks /\ b1 # b2
      /\ g.succ[b1] = <<s>> /\ g.succ[b2] = <<s>> /\ NoBlock # b1
  BY DEF Merging, Retargeted, ControlFlowGraph
<1>2. Range(g.succ[b1]) = {s} /\ Range(g.succ[b2]) = {s}
  BY <1>1 DEF Range
<1>3. ASSUME NEW c \in g.blocks
      PROVE  /\ IsSequence(g.succ[c]) /\ IsSequence(h.succ[c]) /\ Len(h.succ[c]) = Len(g.succ[c])
             /\ DOMAIN h.succ[c] = DOMAIN g.succ[c] /\ DOMAIN g.succ[c] = 1 .. Len(g.succ[c])
             /\ \A n \in DOMAIN g.succ[c] : h.succ[c][n] = IF g.succ[c][n] = b1 THEN b2 ELSE g.succ[c][n]
  BY DEF Merging, Retargeted, IsSequence
<1>4. ASSUME NEW c \in g.blocks, NEW y \in Range(h.succ[c])
      PROVE  \E x \in Range(g.succ[c]) : y = IF x = b1 THEN b2 ELSE x
  BY <1>3, <1>4 DEF Range
<1>8. LedTo(g, h, b1, b2)
  BY <1>4 DEF LedTo
<1>5. ASSUME NEW a, a # b1, NEW c \in ReachableAvoiding(h, a)
      PROVE  c \in ReachableAvoiding(g, a) \/ (c = b2 /\ b1 \in ReachableAvoiding(g, a))
  BY <1>1, <1>2, <1>5, <1>8, RetargetedReach
<1>6. ASSUME NEW a \in g.blocks \ {b1, b2}, Len(g.succ[a]) = 2, NEW c \in Reachable(Unwinding(h, a))
      PROVE  c \in Reachable(Unwinding(g, a)) \/ (c = b2 /\ b1 \in Reachable(Unwinding(g, a)))
  <2> DEFINE gu == Unwinding(g, a)
             hu == Unwinding(h, a)
  <2>1. /\ gu.entry = g.entry /\ gu.blocks = g.blocks /\ ControlFlowGraph(gu)
        /\ \A d : d # a => gu.succ[d] = g.succ[d]
        /\ Range(gu.succ[a]) = {g.succ[a][2]}
    BY <1>1, <1>3, <1>6, UnwindingFields DEF Merging
  <2>2. /\ hu.entry = h.entry /\ hu.blocks = h.blocks /\ ControlFlowGraph(hu)
        /\ \A d : d # a => hu.succ[d] = h.succ[d]
        /\ Range(hu.succ[a]) = {h.succ[a][2]}
    BY <1>1, <1>3, <1>6, UnwindingFields DEF Merging
  <2> HIDE DEF gu, hu
  <2>3. Range(gu.succ[b1]) = {s} /\ Range(gu.succ[b2]) = {s}
    BY <1>2, <1>6, <2>1
  <2>4. ASSUME NEW d \in gu.blocks, NEW y \in Range(hu.succ[d])
        PROVE  \E x \in Range(gu.succ[d]) : y = IF x = b1 THEN b2 ELSE x
    <3>1. CASE d # a
      BY <1>4, <2>1, <2>2, <2>4, <3>1
    <3>2. CASE d = a
      <4>1. y = h.succ[a][2] /\ 2 \in DOMAIN g.succ[a]
        BY <1>3, <1>6, <2>2, <2>4, <3>2
      <4> QED
        BY <1>3, <2>1, <3>2, <4>1
    <3> QED
      BY <3>1, <3>2
  <2>5. c \in ReachableAvoiding(hu, NoBlock)
    BY <1>6 DEF Reachable, hu
  <2>6. /\ ControlFlowGraph(gu) /\ ControlFlowGraph(hu) /\ hu.entry = gu.entry
        /\ NoBlock # b1 /\ b1 # gu.entry /\ b2 \in gu.blocks
    BY <1>1, <2>1, <2>2
  <2>7. LedTo(gu, hu, b1, b2)
    BY <2>4 DEF LedTo
  <2>8. \A d \in ReachableAvoiding(hu, NoBlock) :
          d \in ReachableAvoiding(gu, NoBlock) \/ (d = b2 /\ b1 \in ReachableAvoiding(gu, NoBlock))
    BY <2>3, <2>6, <2>7, RetargetedReach
  <2> QED
    BY <2>5, <2>8 DEF Reachable, gu
<1>7. b1 \notin Reachable(h)
  <2>1. \A c \in h.blocks : b1 \notin Range(h.succ[c])
    BY <1>1, <1>3 DEF Range
  <2> QED
    BY <1>1, <2>1, NoPredecessors
<1> QED
  BY <1>5, <1>6, <1>7

\* What is available somewhere else than in b2 stays so,
LEMMA AvailableStill ==
  ASSUME NEW g, NEW h, NEW b1, NEW b2, NEW s, Merging(g, h, b1, b2, s),
         NEW a \in g.blocks, a # b1, NEW i \in DOMAIN g.code[a], NEW c, c # b2,
         AvailableIn(g, a, i, c)
  PROVE  AvailableIn(h, a, i, c)
<1>1. h.code = g.code /\ g.succ[b2] = <<s>> /\ b1 # NoBlock
  BY DEF Merging, Retargeted, ControlFlowGraph
<1>2. Dominates(h, a, c)
  BY MergingReach DEF AvailableIn, Dominates
<1>3. ASSUME g.code[a][i].op = "invoke" PROVE c \notin Reachable(Unwinding(h, a))
  <2>1. Len(g.succ[a]) = 2
    BY <1>3 DEF Merging, WellFormed
  <2>2. a # b2
    BY <1>1, <2>1
  <2>3. c \notin Reachable(Unwinding(g, a))
    BY <1>3 DEF AvailableIn, Unwinding
  <2> QED
    BY <2>1, <2>2, <2>3, MergingReach
<1> QED
  BY <1>1, <1>2, <1>3 DEF AvailableIn, Unwinding

\* and what is available in both blocks is available in what they become.
LEMMA AvailableInBoth ==
  ASSUME NEW g, NEW h, NEW b1, NEW b2, NEW s, Merging(g, h, b1, b2, s),
         NEW a \in g.blocks, a # b1, a # b2, NEW i \in DOMAIN g.code[a],
         AvailableIn(g, a, i, b1), AvailableIn(g, a, i, b2)
  PROVE  AvailableIn(h, a, i, b2)
<1>1. h.code = g.code
  BY DEF Merging, Retargeted
<1>2. Dominates(h, a, b2)
  BY MergingReach DEF AvailableIn, Dominates
<1>3. ASSUME g.code[a][i].op = "invoke" PROVE b2 \notin Reachable(Unwinding(h, a))
  <2>1. Len(g.succ[a]) = 2
    BY <1>3 DEF Merging, WellFormed
  <2>2. b1 \notin Reachable(Unwinding(g, a)) /\ b2 \notin Reachable(Unwinding(g, a))
    BY <1>3 DEF AvailableIn, Unwinding
  <2> QED
    BY <2>1, <2>2, MergingReach
<1> QED
  BY <1>1, <1>2, <1>3 DEF AvailableIn, Unwinding

MergedUse(g, h, b1, b2, s, a, i, c, j, k) ==
  /\ Merging(g, h, b1, b2, s)
  /\ a \in g.blocks /\ i \in DOMAIN g.code[a] /\ g.code[a][i].def # NoValue
  /\ UseAt(g, g.code[a][i].def, c, j, k) /\ c \in Reachable(h)

\* What the verifier knew of a use before the merge, wherever it could be reached.
LEMMA UseBefore ==
  ASSUME NEW g, Verified(g), NEW a \in g.blocks, NEW i \in DOMAIN g.code[a],
         g.code[a][i].def # NoValue, NEW c, NEW j, NEW k, UseAt(g, g.code[a][i].def, c, j, k),
         c \in Reachable(g)
  PROVE  DefReachesUse(g, a, i, c, j, k)
<1>1. <<c, j, k>> \in Uses(g, g.code[a][i].def)
  BY UseIsUse
<1> QED
  BY <1>1 DEF Verified, DefsDominateUses

\* An operand that is read in b2 is not defined in b1 or b2: b1 reads it, too.
LEMMA UseInRetained ==
  ASSUME NEW g, NEW h, NEW b1, NEW b2, NEW s, NEW a, NEW i, NEW j, NEW k,
         MergedUse(g, h, b1, b2, s, a, i, b2, j, k)
  PROVE  a # b2 /\ AvailableIn(h, a, i, b2)
<1> DEFINE d == g.code[a][i].def
<1>1. /\ IsRecord(g) /\ ControlFlowGraph(g) /\ WellFormed(g) /\ Verified(g)
      /\ Alike(g, b1, b2, s) /\ b1 \in g.blocks /\ b2 \in g.blocks /\ b1 # b2
      /\ a \in g.blocks /\ i \in DOMAIN g.code[a] /\ d # NoValue /\ UseAt(g, d, b2, j, k)
  BY DEF MergedUse, Merging, Retargeted
<1> HIDE DEF d
<1>2. PICK m \in DOMAIN g.code[b1] : NotDebug(g.code[b1][m]) /\ g.code[b1][m].args = g.code[b2][j].args
  BY <1>1 DEF Alike, UseAt
<1>3. UseAt(g, d, b1, m, k)
  BY <1>1, <1>2 DEF UseAt
<1>4. <<b1, m, k>> \in Uses(g, d) /\ <<b2, j, k>> \in Uses(g, d) /\ <<b1, m, k>> # <<b2, j, k>>
  BY <1>1, <1>3, UseIsUse
<1>5. a # b1 /\ a # b2
  BY <1>1, <1>4 DEF Alike, ReadOnce, d
<1>6. ~IsPhi(g.code[b1][m]) /\ ~IsPhi(g.code[b2][j])
  BY <1>1, <1>2 DEF Alike, NoPhi, UseAt
<1>7. AvailableIn(g, a, i, b1)
  <2>1. CASE b1 \in Reachable(g)
    <3>1. DefReachesUse(g, a, i, b1, m, k)
      BY <1>1, <1>3, <2>1, UseBefore DEF d
    <3> QED
      BY <1>5, <1>6, <3>1 DEF DefReachesUse
  <2> QED
    BY <1>1, <2>1, UnreachableIsDominated
<1>8. AvailableIn(g, a, i, b2)
  <2>1. CASE b2 \in Reachable(g)
    <3>1. DefReachesUse(g, a, i, b2, j, k)
      BY <1>1, <2>1, UseBefore DEF d
    <3> QED
      BY <1>5, <1>6, <3>1 DEF DefReachesUse
  <2> QED
    BY <1>1, <2>1, UnreachableIsDominated
<1> QED
  BY <1>1, <1>5, <1>7, <1>8, AvailableInBoth DEF MergedUse

\* A block has one entry in a PHI for each edge.
LEMMA EntryForEdge ==
  ASSUME NEW g, PhisMatchEdges(g), WellFormed(g), NEW c \in g.blocks, NEW j \in DOMAIN g.code[c],
         IsPhi(g.code[c][j]), NEW p \in g.blocks
  PROVE  /\ \A k \in DOMAIN g.code[c][j].from : g.code[c][j].from[k] = p => c \in Range(g.succ[p])
         /\ c \in Range(g.succ[p]) => \E k \in DOMAIN g.code[c][j].from : g.code[c][j].from[k] = p
         /\ DOMAIN g.code[c][j].from = DOMAIN g.code[c][j].args
<1> DEFINE o == g.code[c][j]
           K == {k \in DOMAIN o.from : o.from[k] = p}
           N == {n \in DOMAIN g.succ[p] : g.succ[p][n] = c}
<1>1. Cardinality(K) = Cardinality(N)
  BY DEF PhisMatchEdges, EdgesBetween
<1>2. /\ IsSequence(o.from) /\ IsSequence(o.args) /\ IsSequence(g.succ[p])
      /\ Len(o.from) = Len(o.args)
  BY DEF WellFormed
<1>3. DOMAIN o.from = 1 .. Len(o.from) /\ DOMAIN g.succ[p] = 1 .. Len(g.succ[p])
      /\ Len(o.from) \in Nat /\ Len(g.succ[p]) \in Nat /\ DOMAIN o.args = DOMAIN o.from
  BY <1>2 DEF IsSequence
<1>4. IsFiniteSet(K) /\ IsFiniteSet(N)
  <2>1. IsFiniteSet(1 .. Len(o.from)) /\ IsFiniteSet(1 .. Len(g.succ[p]))
    <3> DEFINE m == Len(o.from)
               n == Len(g.succ[p])
    <3>1. m \in Int /\ n \in Int /\ 1 \in Int
      BY <1>3
    <3> HIDE DEF m, n
    <3> QED
      BY <3>1, FS_Interval DEF m, n
  <2> QED
    BY <1>3, <2>1, FS_Subset
<1>5. K = {} <=> N = {}
  <2> HIDE DEF K, N
  <2> QED
    BY <1>1, <1>4, FS_EmptySet
<1> QED
  BY <1>3, <1>5 DEF Range

\* What the PHI of s reads from b2 is defined in b2, or read from b1 as well.
LEMMA UseFromRetained ==
  ASSUME NEW g, NEW h, NEW b1, NEW b2, NEW s, NEW a, NEW i, NEW c, NEW j, NEW k,
         MergedUse(g, h, b1, b2, s, a, i, c, j, k),
         IsPhi(g.code[c][j]), g.code[c][j].from[k] = b2, b2 \in Reachable(h)
  PROVE  (a = b2 /\ g.code[a][i].op # "invoke") \/ (a # b2 /\ AvailableIn(h, a, i, b2))
<1> DEFINE d == g.code[a][i].def
<1>1. /\ IsRecord(g) /\ ControlFlowGraph(g) /\ WellFormed(g) /\ Verified(g) /\ SingleAssignment(g)
      /\ Alike(g, b1, b2, s) /\ b1 \in g.blocks /\ b2 \in g.blocks /\ b1 # b2
      /\ g.succ[b1] = <<s>> /\ g.succ[b2] = <<s>> /\ s \in g.blocks
      /\ a \in g.blocks /\ i \in DOMAIN g.code[a] /\ d # NoValue /\ UseAt(g, d, c, j, k)
  BY DEF MergedUse, Merging, Retargeted
<1> HIDE DEF d
<1>2. c \in g.blocks /\ j \in DOMAIN g.code[c] /\ k \in DOMAIN g.code[c][j].args
      /\ g.code[c][j].args[k] = d /\ PhisMatchEdges(g)
  BY <1>1 DEF UseAt, Verified
<1>3. k \in DOMAIN g.code[c][j].from /\ c \in Range(g.succ[b2])
  BY <1>1, <1>2, EntryForEdge
<1>4. c = s /\ j = 1
  <2>1. c = s
    BY <1>1, <1>3 DEF Range
  <2> QED
    BY <1>1, <1>2, <2>1 DEF Alike, OnePhi
<1>5. a = b2 => g.code[a][i].op # "invoke"
  <2>1. Len(g.succ[b2]) = 1
    BY <1>1
  <2>2. g.code[a][i].op = "invoke" => Len(g.succ[a]) = 2
    BY <1>1 DEF WellFormed
  <2> QED
    BY <2>1, <2>2
<1>6. CASE DefinedIn(g, b2, d)
  <2>1. a = b2
    BY <1>1, <1>6 DEF DefinedIn, SingleAssignment, d
  <2> QED
    BY <1>5, <2>1
<1>7. CASE a # b2 /\ ~DefinedIn(g, b2, d)
  <2>1. s \in Range(g.succ[b1])
    BY <1>1 DEF Range
  <2>2. PICK m \in DOMAIN g.code[c][j].from : g.code[c][j].from[m] = b1
    BY <1>1, <1>2, <1>4, <2>1, EntryForEdge
  <2>3. g.code[c][j].args[m] = d
    BY <1>1, <1>2, <1>3, <1>4, <1>7, <2>2 DEF Alike
  <2>4. UseAt(g, d, c, j, m)
    BY <1>1, <1>2, <2>2, <2>3, EntryForEdge DEF UseAt
  <2>5. a # b1
    <3>1. <<c, j, m>> \in Uses(g, d) /\ <<c, j, k>> \in Uses(g, d) /\ m # k
      BY <1>1, <2>2, <2>4, UseIsUse
    <3> QED
      BY <1>1, <3>1 DEF Alike, ReadOnce, d
  <2>6. \A p \in {b1, b2} : p \in Reachable(g) => c \in Reachable(g)
    BY <1>1, <1>3, <1>4, <2>1, ReachableIsClosed
  <2>7. AvailableIn(g, a, i, b1)
    <3>1. CASE b1 \in Reachable(g)
      <4>1. DefReachesUse(g, a, i, c, j, m)
        BY <1>1, <2>4, <2>6, <3>1, UseBefore DEF d
      <4> QED
        BY <2>2, <2>5, <3>1, <4>1 DEF DefReachesUse
    <3> QED
      BY <1>1, <3>1, UnreachableIsDominated
  <2>8. AvailableIn(g, a, i, b2)
    <3>1. CASE b2 \in Reachable(g)
      <4>1. DefReachesUse(g, a, i, c, j, k)
        BY <1>1, <2>6, <3>1, UseBefore DEF d
      <4> QED
        BY <1>7, <3>1, <4>1 DEF DefReachesUse
    <3> QED
      BY <1>1, <3>1, UnreachableIsDominated
  <2> QED
    BY <1>1, <1>7, <2>5, <2>7, <2>8, AvailableInBoth DEF MergedUse
<1> QED
  BY <1>5, <1>6, <1>7

\* What anything else reads comes from where it came from.
LEMMA UseElsewhere ==
  ASSUME NEW g, NEW h, NEW b1, NEW b2, NEW s, NEW a, NEW i, NEW c, NEW j, NEW k,
         MergedUse(g, h, b1, b2, s, a, i, c, j, k)
  PROVE  /\ ~IsPhi(g.code[c][j]) /\ c # b2 =>
              (a = c /\ i < j) \/ (a # c /\ AvailableIn(h, a, i, c))
         /\ IsPhi(g.code[c][j]) =>
              \A p \in Reachable(h) \ {b2} : g.code[c][j].from[k] = p =>
                (a = p /\ OnEdge(h, a, i, c)) \/ (a # p /\ AvailableIn(h, a, i, p))
<1> DEFINE d == g.code[a][i].def
<1>1. /\ IsRecord(g) /\ ControlFlowGraph(g) /\ WellFormed(g) /\ Verified(g) /\ PhisMatchEdges(g)
      /\ Alike(g, b1, b2, s) /\ Merging(g, h, b1, b2, s) /\ h.blocks = g.blocks
      /\ ControlFlowGraph(h) /\ b1 # NoBlock /\ c \in Reachable(h)
      /\ a \in g.blocks /\ i \in DOMAIN g.code[a] /\ d # NoValue /\ UseAt(g, d, c, j, k)
  BY DEF MergedUse, Merging, Retargeted, Verified, ControlFlowGraph
<1> HIDE DEF d
<1>2. b1 \notin Reachable(h)
  BY <1>1, MergingReach
<1>3. \A p \in Reachable(h) \ {b2} : p \in Reachable(g) /\ p \in g.blocks /\ p # b1
  BY <1>1, <1>2, MergingReach, ReachableIsClosed DEF Reachable
<1>4. a = b1 => IsPhi(g.code[c][j]) /\ g.code[c][j].from[k] = b1
  <2>1. <<c, j, k>> \in Uses(g, d)
    BY <1>1, UseIsUse
  <2>2. c # b1
    BY <1>1, <1>2
  <2> QED
    BY <1>1, <2>1, <2>2 DEF Alike, ReadOnTheWayOut, d
<1>5. OnEdge(g, a, i, c) => OnEdge(h, a, i, c)
  <2> SUFFICES ASSUME g.code[a][i].op = "invoke", OnEdge(g, a, i, c)
               PROVE  h.succ[a][1] = c /\ h.succ[a][2] # c
    BY DEF OnEdge, MergedUse, Merging, Retargeted
  <2>1. g.succ[a][1] = c /\ g.succ[a][2] # c /\ b1 \notin Range(g.succ[a])
    BY <1>1 DEF OnEdge, Merging
  <2>2. IsSequence(g.succ[a]) /\ Len(g.succ[a]) = 2
    BY <1>1 DEF WellFormed
  <2>3. DOMAIN g.succ[a] = 1 .. 2
    BY <2>2 DEF IsSequence
  <2>4. h.succ[a][1] = g.succ[a][1] /\ h.succ[a][2] = g.succ[a][2]
    BY <1>1, <2>1, <2>3 DEF Merging, Retargeted, Range
  <2> QED
    BY <2>1, <2>4
<1>6. ASSUME ~IsPhi(g.code[c][j]), c # b2
      PROVE  (a = c /\ i < j) \/ (a # c /\ AvailableIn(h, a, i, c))
  <2>1. a # b1 /\ c \in Reachable(g)
    BY <1>1, <1>3, <1>4, <1>6
  <2>2. DefReachesUse(g, a, i, c, j, k)
    BY <1>1, <2>1, UseBefore DEF d
  <2>3. (a = c /\ i < j) \/ (a # c /\ AvailableIn(g, a, i, c))
    BY <1>6, <2>2 DEF DefReachesUse
  <2> QED
    BY <1>1, <1>6, <2>1, <2>3, AvailableStill
<1>7. ASSUME IsPhi(g.code[c][j]), NEW p \in Reachable(h) \ {b2}, g.code[c][j].from[k] = p
      PROVE  (a = p /\ OnEdge(h, a, i, c)) \/ (a # p /\ AvailableIn(h, a, i, p))
  <2>1. p \in Reachable(g) /\ p \in g.blocks /\ p # b1 /\ a # b1
    BY <1>3, <1>4, <1>7
  <2>2. c \in g.blocks /\ j \in DOMAIN g.code[c] /\ k \in DOMAIN g.code[c][j].args
    BY <1>1 DEF UseAt
  <2>3. k \in DOMAIN g.code[c][j].from /\ c \in Range(g.succ[p])
    BY <1>1, <1>7, <2>1, <2>2, EntryForEdge
  <2>4. c \in Reachable(g)
    BY <1>1, <2>1, <2>3, ReachableIsClosed
  <2>5. DefReachesUse(g, a, i, c, j, k)
    BY <1>1, <2>4, UseBefore DEF d
  <2>6. (a = p /\ OnEdge(g, a, i, c)) \/ (a # p /\ AvailableIn(g, a, i, p))
    BY <1>7, <2>1, <2>5 DEF DefReachesUse
  <2> QED
    BY <1>1, <1>5, <1>7, <2>1, <2>6, AvailableStill
<1> QED
  BY <1>6, <1>7

\* The function stays valid when the edges to b1 are led to b2.
LEMMA MergingKeepsValid ==
  ASSUME NEW g, NEW h, NEW b1, NEW b2, NEW s, Merging(g, h, b1, b2, s)
  PROVE  Verified(h) /\ WellFormed(h) /\ SingleAssignment(h)
<1>1. /\ h.entry = g.entry /\ h.blocks = g.blocks /\ h.code = g.code /\ ControlFlowGraph(h)
      /\ WellFormed(g) /\ Verified(g) /\ SingleAssignment(g)
      /\ NoPhi(g, b1) /\ NoPhi(g, b2) /\ b2 \in g.blocks \ {g.entry}
  BY DEF Merging, Retargeted, Alike
<1>2. ASSUME NEW c \in g.blocks
      PROVE  /\ IsSequence(g.succ[c]) /\ IsSequence(h.succ[c]) /\ Len(h.succ[c]) = Len(g.succ[c])
             /\ DOMAIN h.succ[c] = DOMAIN g.succ[c]
             /\ \A n \in DOMAIN g.succ[c] : h.succ[c][n] = IF g.succ[c][n] = b1 THEN b2 ELSE g.succ[c][n]
  BY DEF Merging, Retargeted, IsSequence
<1>3. WellFormed(h)
  <2> DEFINE Inst(c, n, m, i) ==
         /\ c = [op |-> c.op, def |-> c.def, args |-> c.args, from |-> c.from]
         /\ IsSequence(c.args) /\ IsSequence(c.from)
         /\ IsPhi(c) => Len(c.from) = Len(c.args) /\ c.def # NoValue
         /\ c.op = "invoke" => i = n /\ m = 2
         /\ ~NotDebug(c) \/ IsUnconditional(c) => c.def = NoValue
         /\ IsUnconditional(c) => c.args = <<>>
      Form(f) ==
          \A b \in f.blocks :
            /\ IsSequence(f.code[b]) /\ IsSequence(f.succ[b])
            /\ f.code[b] # <<>> /\ ~IsPhi(Last(f.code[b]))
            /\ \A i \in DOMAIN f.code[b] : Inst(f.code[b][i], Len(f.code[b]), Len(f.succ[b]), i)
  <2>1. WellFormed(g) <=> Form(g)
    BY DEF WellFormed
  <2>2. WellFormed(h) <=> Form(h)
    BY DEF WellFormed
  <2> HIDE DEF Inst
  <2> QED
    BY <1>1, <1>2, <2>1, <2>2
<1>4. SingleAssignment(h)
  BY <1>1 DEF SingleAssignment
<1>5. EdgesStayInside(h)
  BY <1>1, <1>2 DEF EdgesStayInside, Verified, Range
<1>6. PhisComeFirst(h)
  BY <1>1 DEF PhisComeFirst, Verified
<1>7. PhisMatchEdges(h)
  <2>1. ASSUME NEW c \in g.blocks, c # b1, c # b2, NEW p \in g.blocks
        PROVE  EdgesBetween(h, p, c) = EdgesBetween(g, p, c)
    <3>1. {n \in DOMAIN h.succ[p] : h.succ[p][n] = c} = {n \in DOMAIN g.succ[p] : g.succ[p][n] = c}
      BY <1>2, <2>1
    <3> QED
      BY <3>1 DEF EdgesBetween
  <2>2. PhisMatchEdges(g)
    BY <1>1 DEF Verified
  <2>3. ASSUME NEW c \in g.blocks, NEW i \in DOMAIN g.code[c], IsPhi(g.code[c][i])
        PROVE  c # b1 /\ c # b2
    BY <1>1, <2>3 DEF NoPhi
  <2> QED
    BY <1>1, <2>1, <2>2, <2>3 DEF PhisMatchEdges
<1>8. ASSUME NEW a \in h.blocks, NEW i \in DOMAIN h.code[a], h.code[a][i].def # NoValue,
             NEW c, NEW j, NEW k, UseAt(g, h.code[a][i].def, c, j, k), c \in Reachable(h)
      PROVE  DefReachesUse(h, a, i, c, j, k)
  <2>1. MergedUse(g, h, b1, b2, s, a, i, c, j, k) /\ h.code = g.code
    BY <1>1, <1>8 DEF MergedUse
  <2>2. CASE ~IsPhi(g.code[c][j]) /\ c # b2
    BY <1>1, <2>1, <2>2, UseElsewhere DEF DefReachesUse
  <2>3. CASE ~IsPhi(g.code[c][j]) /\ c = b2
    <3>1. a # b2 /\ AvailableIn(h, a, i, b2)
      BY <2>1, <2>3, UseInRetained
    <3> QED
      BY <1>1, <2>3, <3>1 DEF DefReachesUse
  <2>4. CASE IsPhi(g.code[c][j])
    <3> DEFINE p == g.code[c][j].from[k]
    <3>1. ASSUME p \in Reachable(h)
          PROVE  (a = p /\ OnEdge(h, a, i, c)) \/ (a # p /\ AvailableIn(h, a, i, p))
      <4>1. CASE p = b2
        BY <2>1, <2>4, <3>1, <4>1, UseFromRetained DEF OnEdge
      <4>2. CASE p # b2
        BY <2>1, <2>4, <3>1, <4>2, UseElsewhere
      <4> QED
        BY <4>1, <4>2
    <3> QED
      BY <1>1, <2>4, <3>1 DEF DefReachesUse
  <2> QED
    BY <2>2, <2>3, <2>4
<1>9. DefsDominateUses(h)
  <2> SUFFICES ASSUME NEW a \in h.blocks, NEW i \in DOMAIN h.code[a], h.code[a][i].def # NoValue,
                      NEW u \in Uses(h, h.code[a][i].def), u[1] \in Reachable(h)
               PROVE  DefReachesUse(h, a, i, u[1], u[2], u[3])
    BY DEF DefsDominateUses
  <2>1. PICK c, j, k : u = <<c, j, k>> /\ UseAt(h, h.code[a][i].def, c, j, k)
    BY UsesAre
  <2>2. UseAt(g, h.code[a][i].def, c, j, k)
    BY <1>1, <2>1 DEF UseAt
  <2> QED
    BY <1>8, <2>1, <2>2
<1> QED
  BY <1>1, <1>3, <1>4, <1>5, <1>6, <1>7, <1>9 DEF Verified
-----------------------------------------------------------------------------
(* Searching and shortening a list.                                        *)

LEMMA LeastIsThere ==
  ASSUME NEW I \in SUBSET Nat, I # {}
  PROVE  Min(I) \in I
<1> DEFINE Least == \E x \in I : \A y \in I : x <= y
           T == {n \in Nat : (\E m \in I : m <= n) => Least}
<1>1. 0 \in T
  <2> SUFFICES ASSUME NEW m \in I, m <= 0 PROVE Least
    OBVIOUS
  <2>1. m = 0 /\ \A y \in I : m <= y
    OBVIOUS
  <2> QED
    BY <2>1
<1>2. ASSUME NEW n \in Nat, n \in T PROVE n + 1 \in T
  <2> SUFFICES ASSUME NEW m \in I, m <= n + 1, ~\E y \in I : y <= n PROVE Least
    BY <1>2
  <2>1. \A y \in I : m <= y
    OBVIOUS
  <2> QED
    BY <2>1
<1>3. PICK n \in I : n \in Nat
  OBVIOUS
<1> HIDE DEF T
<1>4. n \in T
  BY <1>1, <1>2, <1>3, Induction
<1>5. Least
  BY <1>3, <1>4 DEF T
<1> QED
  BY <1>5 DEF Min

\* The first place where s holds b.
LEMMA Selected ==
  ASSUME NEW s, NEW b, IsSequence(s), \E k \in DOMAIN s : s[k] = b
  PROVE  SelectInSeq(s, LAMBDA c : c = b) \in DOMAIN s /\ s[SelectInSeq(s, LAMBDA c : c = b)] = b
<1> DEFINE I == {i \in 1 .. Len(s) : s[i] = b}
<1>1. DOMAIN s = 1 .. Len(s) /\ Len(s) \in Nat
  BY DEF IsSequence
<1>2. I \in SUBSET Nat /\ I # {}
  BY <1>1
<1>3. Min(I) \in I
  <2> HIDE DEF I
  <2> QED
    BY <1>2, LeastIsThere
<1>4. SelectInSeq(s, LAMBDA c : c = b) = Min(I)
  BY <1>2 DEF SelectInSeq
<1> QED
  BY <1>1, <1>3, <1>4

\* What a PHI reads on the edges from a block.
LEMMA IncomingIs ==
  ASSUME NEW phi, NEW b, IsSequence(phi.from), \E k \in DOMAIN phi.from : phi.from[k] = b
  PROVE  \E k \in DOMAIN phi.from : phi.from[k] = b /\ IncomingValue(phi, b) = phi.args[k]
<1>1. /\ SelectInSeq(phi.from, LAMBDA c : c = b) \in DOMAIN phi.from
      /\ phi.from[SelectInSeq(phi.from, LAMBDA c : c = b)] = b
  BY Selected
<1> QED
  BY <1>1 DEF IncomingValue

\* A list without its k-th element.
Drop(s, k, t) ==
  /\ IsSequence(t) /\ Len(t) = Len(s) - 1
  /\ \A m \in 1 .. Len(t) : t[m] = IF m < k THEN s[m] ELSE s[m + 1]

LEMMA Joined ==
  ASSUME NEW S, NEW s \in Seq(S), NEW k \in 1 .. Len(s), NEW x \in Seq(S), NEW y \in Seq(S),
         Len(x) = k - 1, \A i \in 1 .. Len(x) : x[i] = s[i],
         Len(y) = Len(s) - k, \A i \in 1 .. Len(y) : y[i] = s[i + k]
  PROVE  /\ x \o y \in Seq(S) /\ Len(x \o y) = Len(s) - 1
         /\ \A m \in 1 .. Len(x \o y) : (x \o y)[m] = IF m < k THEN s[m] ELSE s[m + 1]
<1> DEFINE z == x \o y
<1>1. /\ z \in Seq(S) /\ Len(z) = Len(x) + Len(y)
      /\ \A i \in 1 .. Len(x) + Len(y) : z[i] = IF i <= Len(x) THEN x[i] ELSE y[i - Len(x)]
  BY ConcatProperties
<1> HIDE DEF z
<1>2. Len(s) \in Nat /\ k \in Nat /\ Len(z) = Len(s) - 1
  BY <1>1
<1>3. ASSUME NEW m \in 1 .. Len(z) PROVE z[m] = IF m < k THEN s[m] ELSE s[m + 1]
  <2>1. z[m] = IF m <= Len(x) THEN x[m] ELSE y[m - Len(x)]
    BY <1>1, <1>2
  <2>2. CASE m < k
    <3>1. m \in 1 .. Len(x)
      BY <1>2, <2>2
    <3> QED
      BY <2>1, <2>2, <3>1
  <2>3. CASE ~(m < k)
    <3>1. ~(m <= Len(x)) /\ m - Len(x) \in 1 .. Len(y) /\ (m - Len(x)) + k = m + 1
      BY <1>2, <2>3
    <3> QED
      BY <2>1, <2>3, <3>1
  <2> QED
    BY <2>2, <2>3
<1> QED
  BY <1>1, <1>2, <1>3 DEF z

LEMMA RemovedIs ==
  ASSUME NEW s, IsSequence(s), NEW k \in 1 .. Len(s)
  PROVE  Drop(s, k, RemoveAt(s, k))
<1> DEFINE S == Range(s)
           x == SubSeq(s, 1, k - 1)
           y == SubSeq(s, k + 1, Len(s))
<1>1. s \in Seq(S)
  BY DEF IsSequence
<1>2. x \in Seq(S) /\ Len(x) = k - 1 /\ \A i \in 1 .. Len(x) : x[i] = s[i]
  BY <1>1
<1>3. y \in Seq(S) /\ Len(y) = Len(s) - k /\ \A i \in 1 .. Len(y) : y[i] = s[i + k]
  BY <1>1
<1>4. RemoveAt(s, k) = x \o y
  BY DEF RemoveAt
<1> HIDE DEF x, y, S
<1>5. /\ x \o y \in Seq(S) /\ Len(x \o y) = Len(s) - 1
      /\ \A m \in 1 .. Len(x \o y) : (x \o y)[m] = IF m < k THEN s[m] ELSE s[m + 1]
  BY <1>1, <1>2, <1>3, Joined
<1>6. x \o y \in Seq(Range(x \o y))
  BY <1>5, SeqOfRange
<1> QED
  BY <1>4, <1>5, <1>6 DEF Drop, IsSequence

\* A list without its first element.
LEMMA TailIs ==
  ASSUME NEW s, IsSequence(s), s # <<>>
  PROVE  Drop(s, 1, Tail(s))
<1>1. s \in Seq(Range(s))
  BY DEF IsSequence
<1>2. /\ Tail(s) \in Seq(Range(s)) /\ Len(Tail(s)) = Len(s) - 1
      /\ \A i \in 1 .. Len(Tail(s)) : Tail(s)[i] = s[i + 1]
  BY <1>1, HeadTailProperties
<1>3. Tail(s) \in Seq(Range(Tail(s)))
  BY <1>2, SeqOfRange
<1>4. \A m \in 1 .. Len(Tail(s)) : ~(m < 1)
  OBVIOUS
<1> QED
  BY <1>2, <1>3, <1>4 DEF Drop, IsSequence
-----------------------------------------------------------------------------
(* More about graphs.                                                      *)

\* h is g, maybe without some blocks that nothing led to.
SameGraph(g, h) ==
  /\ IsRecord(g) /\ IsRecord(h) /\ ControlFlowGraph(g) /\ ControlFlowGraph(h)
  /\ h.entry = g.entry /\ h.blocks \subseteq g.blocks
  /\ \A c \in h.blocks : h.succ[c] = g.succ[c]

LEMMA SameReach ==
  ASSUME NEW g, NEW h, ControlFlowGraph(g), ControlFlowGraph(h), h.entry = g.entry,
         h.blocks \subseteq g.blocks, \A c \in h.blocks : Range(h.succ[c]) = Range(g.succ[c]), NEW a
  PROVE  ReachableAvoiding(h, a) = ReachableAvoiding(g, a)
<1> DEFINE X == ReachableAvoiding(h, a)
           Y == ReachableAvoiding(g, a) \cap h.blocks
<1>1. /\ X \subseteq h.blocks \ {a} /\ (h.entry # a => h.entry \in X) /\ Closed(h, a, X)
      /\ ReachableAvoiding(g, a) \subseteq g.blocks \ {a}
      /\ (g.entry # a => g.entry \in ReachableAvoiding(g, a))
      /\ Closed(g, a, ReachableAvoiding(g, a))
  BY ReachableIsLeast
<1>2. ReachableAvoiding(g, a) \subseteq X
  <2>1. Closed(g, a, X)
    BY <1>1 DEF Closed
  <2> QED
    BY <1>1, <2>1, ReachableIsLeast
<1>3. X \subseteq Y
  <2>1. Closed(h, a, Y)
    BY <1>1 DEF Closed, ControlFlowGraph
  <2>2. h.entry # a => h.entry \in Y
    BY <1>1 DEF ControlFlowGraph
  <2> QED
    BY <2>1, <2>2, ReachableIsLeast
<1> QED
  BY <1>2, <1>3

\* With fewer edges less is reached.
LEMMA FewerEdges ==
  ASSUME NEW g, NEW u, ControlFlowGraph(g), ControlFlowGraph(u), u.entry = g.entry,
         u.blocks = g.blocks, \A c \in g.blocks : Range(u.succ[c]) \subseteq Range(g.succ[c]), NEW a
  PROVE  ReachableAvoiding(u, a) \subseteq ReachableAvoiding(g, a)
<1> DEFINE X == ReachableAvoiding(g, a)
<1>1. X \subseteq g.blocks /\ (g.entry # a => g.entry \in X) /\ Closed(g, a, X)
  BY ReachableIsLeast
<1>2. Closed(u, a, X)
  BY <1>1 DEF Closed
<1> QED
  BY <1>1, <1>2, ReachableIsLeast

LEMMA UnwindingEdges ==
  ASSUME NEW g, IsRecord(g), ControlFlowGraph(g), NEW a \in g.blocks,
         IsSequence(g.succ[a]), Len(g.succ[a]) = 2, NEW c
  PROVE  ReachableAvoiding(Unwinding(g, a), c) \subseteq ReachableAvoiding(g, c)
<1> DEFINE u == Unwinding(g, a)
<1>1. /\ u.entry = g.entry /\ u.blocks = g.blocks /\ ControlFlowGraph(u)
      /\ \A d : d # a => u.succ[d] = g.succ[d]
      /\ Range(u.succ[a]) = {g.succ[a][2]}
  BY UnwindingFields
<1> HIDE DEF u
<1>2. g.succ[a][2] \in Range(g.succ[a])
  BY DEF IsSequence, Range
<1>3. ReachableAvoiding(u, c) \subseteq ReachableAvoiding(g, c)
  BY <1>1, <1>2, FewerEdges
<1> QED
  BY <1>3 DEF u

\* Availability is a matter of the graph and of what defines the value.
LEMMA SameAvailable ==
  ASSUME NEW g, NEW h, SameGraph(g, h), WellFormed(g), NEW a \in h.blocks,
         NEW i \in DOMAIN h.code[a], NEW e \in DOMAIN g.code[a], h.code[a][i].op = g.code[a][e].op,
         NEW c, AvailableIn(g, a, e, c)
  PROVE  AvailableIn(h, a, i, c)
<1>1. \A d : ReachableAvoiding(h, d) = ReachableAvoiding(g, d)
  BY SameReach DEF SameGraph
<1>2. Dominates(h, a, c)
  BY <1>1 DEF AvailableIn, Dominates
<1>3. ASSUME h.code[a][i].op = "invoke" PROVE c \notin Reachable(Unwinding(h, a))
  <2> DEFINE gu == Unwinding(g, a)
             hu == Unwinding(h, a)
  <2>1. a \in g.blocks /\ IsSequence(g.succ[a]) /\ Len(g.succ[a]) = 2 /\ h.succ[a] = g.succ[a]
    <3>1. a \in g.blocks /\ h.succ[a] = g.succ[a] /\ g.code[a][e].op = "invoke"
      BY <1>3 DEF SameGraph
    <3> QED
      BY <3>1 DEF WellFormed
  <2>0. /\ IsRecord(g) /\ ControlFlowGraph(g) /\ IsRecord(h) /\ ControlFlowGraph(h)
        /\ a \in h.blocks /\ IsSequence(h.succ[a]) /\ Len(h.succ[a]) = 2
    BY <2>1 DEF SameGraph
  <2>2. /\ gu.entry = g.entry /\ gu.blocks = g.blocks /\ ControlFlowGraph(gu)
        /\ \A d : d # a => gu.succ[d] = g.succ[d]
        /\ Range(gu.succ[a]) = {g.succ[a][2]}
    BY <2>1, <2>0, UnwindingFields
  <2>3. /\ hu.entry = h.entry /\ hu.blocks = h.blocks /\ ControlFlowGraph(hu)
        /\ \A d : d # a => hu.succ[d] = h.succ[d]
        /\ Range(hu.succ[a]) = {h.succ[a][2]}
    BY <2>1, <2>0, UnwindingFields
  <2> HIDE DEF gu, hu
  <2>4. ReachableAvoiding(hu, NoBlock) = ReachableAvoiding(gu, NoBlock)
    <3>1. \A d \in hu.blocks : Range(hu.succ[d]) = Range(gu.succ[d])
      BY <2>1, <2>2, <2>3 DEF SameGraph
    <3>2. hu.entry = gu.entry /\ hu.blocks \subseteq gu.blocks
      BY <2>2, <2>3 DEF SameGraph
    <3> QED
      BY <2>2, <2>3, <3>1, <3>2, SameReach
  <2>5. c \notin Reachable(gu)
    BY <1>3 DEF AvailableIn, Unwinding, gu
  <2> QED
    BY <2>4, <2>5 DEF Reachable, hu
<1> QED
  BY <1>2, <1>3 DEF AvailableIn, Unwinding

\* A path to s comes to it a first time.
LEMMA FirstArrival ==
  ASSUME NEW g, ControlFlowGraph(g), NEW a, NEW s, s # g.entry, s \in ReachableAvoiding(g, a)
  PROVE  \E p \in ReachableAvoiding(g, a) \cap ReachableAvoiding(g, s) : s \in Range(g.succ[p])
<1> DEFINE A == ReachableAvoiding(g, a)
           B == ReachableAvoiding(g, s)
<1>1. /\ A \subseteq g.blocks \ {a} /\ (g.entry # a => g.entry \in A) /\ Closed(g, a, A)
      /\ B \subseteq g.blocks \ {s} /\ g.entry \in B /\ Closed(g, s, B)
  BY ReachableIsLeast
<1> SUFFICES ASSUME \A p \in A \cap B : s \notin Range(g.succ[p])
             PROVE  FALSE
  OBVIOUS
<1>2. Closed(g, a, A \cap B)
  BY <1>1 DEF Closed
<1>3. A \subseteq A \cap B
  BY <1>1, <1>2, ReachableIsLeast
<1> QED
  BY <1>1, <1>3

\* What is available in s is available in all that s dominates.
LEMMA AvailableBehind ==
  ASSUME NEW g, IsRecord(g), ControlFlowGraph(g), WellFormed(g),
         NEW a \in g.blocks, NEW i \in DOMAIN g.code[a], NEW s \in Reachable(g), a # s,
         AvailableIn(g, a, i, s), NEW c \in Reachable(g), Dominates(g, s, c)
  PROVE  a # c /\ AvailableIn(g, a, i, c)
<1>1. Dominates(g, a, s)
  BY DEF AvailableIn
<1>2. Dominates(g, a, c)
  BY <1>1, DominanceIsTransitive
<1>3. a # c
  BY <1>1, DominanceIsAntisymmetric
<1>4. ASSUME g.code[a][i].op = "invoke" PROVE c \notin Reachable(Unwinding(g, a))
  <2> DEFINE u == Unwinding(g, a)
             Y == Reachable(u) \cap ReachableAvoiding(g, s)
  <2>1. IsSequence(g.succ[a]) /\ Len(g.succ[a]) = 2
    BY <1>4 DEF WellFormed
  <2>2. /\ u.entry = g.entry /\ u.blocks = g.blocks /\ ControlFlowGraph(u)
        /\ \A d : d # a => u.succ[d] = g.succ[d]
        /\ Range(u.succ[a]) = {g.succ[a][2]}
    BY <2>1, UnwindingFields
  <2>3. s \notin Reachable(u)
    BY <1>4 DEF AvailableIn, Unwinding
  <2> HIDE DEF u
  <2>4. g.succ[a][2] \in Range(g.succ[a])
    BY <2>1 DEF IsSequence, Range
  <2>5. \A d \in g.blocks : Range(u.succ[d]) \subseteq Range(g.succ[d])
    BY <2>2, <2>4
  <2>6. /\ Reachable(u) \subseteq u.blocks /\ u.entry \in Reachable(u)
        /\ \A d \in Reachable(u) : Range(u.succ[d]) \subseteq Reachable(u)
    BY <2>2, ReachableIsClosed
  <2>7. (g.entry # s => g.entry \in ReachableAvoiding(g, s)) /\ Closed(g, s, ReachableAvoiding(g, s))
    BY ReachableIsLeast
  <2>8. u.entry \in Y
    BY <2>2, <2>3, <2>6, <2>7
  <2>9. \A d \in Y : Range(u.succ[d]) \subseteq Y
    BY <2>2, <2>3, <2>5, <2>6, <2>7 DEF Closed
  <2>10. Reachable(u) \subseteq Y
    <3> HIDE DEF Y
    <3> QED
      BY <2>2, <2>8, <2>9, ClosedHoldsReachable
  <2>11. c = s \/ c \notin ReachableAvoiding(g, s)
    BY DEF Dominates
  <2>12. c \notin Reachable(u)
    BY <2>3, <2>10, <2>11
  <2> QED
    BY <2>12 DEF u
<1> QED
  BY <1>2, <1>3, <1>4 DEF AvailableIn, Unwinding
-----------------------------------------------------------------------------
(* A PHI that is left with one value when its entry for b is gone.         *)

Sound(g) ==
  /\ IsRecord(g) /\ ControlFlowGraph(g) /\ WellFormed(g) /\ SingleAssignment(g)
  /\ Verified(g) /\ PoisonFree(g) /\ Poison \notin Defs(g)

\* b is about to be erased; it led to s.
Leaves(g, b, s) ==
  /\ b \in g.blocks \ {g.entry} /\ s \in g.blocks /\ g.succ[b] = <<s>>
  /\ \A c \in g.blocks : b \notin Range(g.succ[c])
  /\ NoPhi(g, b) /\ ReadOnTheWayOut(g, b) /\ OnePhi(g, s)

\* The PHI of s has no value but w on the other edges, and maybe its own.
Collapses(g, b, s, w) ==
  LET phi == g.code[s][1] IN
  /\ IsPhi(phi) /\ w # phi.def
  /\ \A m \in DOMAIN phi.from : phi.from[m] # b => phi.args[m] \in {w, phi.def}
  /\ w = Poison \/ \E m \in DOMAIN phi.from : phi.from[m] # b /\ phi.args[m] = w

LEMMA LeavesFacts ==
  ASSUME NEW g, NEW b, NEW s, Sound(g), Leaves(g, b, s)
  PROVE  /\ b \notin Reachable(g) /\ s # g.entry /\ s # b /\ s # NoBlock
         /\ 1 \in DOMAIN g.code[s] /\ IsSequence(g.code[s])
         /\ \A j \in DOMAIN g.code[s] : IsPhi(g.code[s][j]) => j = 1
         /\ IsPhi(g.code[s][1]) =>
              /\ IsSequence(g.code[s][1].from) /\ IsSequence(g.code[s][1].args)
              /\ Len(g.code[s][1].from) = Len(g.code[s][1].args)
              /\ DOMAIN g.code[s][1].from = DOMAIN g.code[s][1].args
              /\ g.code[s][1].def # NoValue /\ NotDebug(g.code[s][1])
              /\ g.code[s][1].op # "invoke"
<1>1. /\ ControlFlowGraph(g) /\ WellFormed(g) /\ EdgesStayInside(g)
      /\ b \in g.blocks /\ b # g.entry /\ s \in g.blocks /\ g.succ[b] = <<s>>
      /\ \A c \in g.blocks : b \notin Range(g.succ[c])
  BY DEF Sound, Leaves, Verified
<1>2. b \notin Reachable(g)
  BY <1>1, NoPredecessors
<1>3. s \in Range(g.succ[b])
  BY <1>1 DEF Range
<1>4. s # g.entry /\ s # b /\ s # NoBlock
  BY <1>1, <1>3 DEF EdgesStayInside, ControlFlowGraph
<1>5. IsSequence(g.code[s]) /\ g.code[s] # <<>>
  BY <1>1 DEF WellFormed
<1>6. 1 \in DOMAIN g.code[s]
  BY <1>5 DEF IsSequence
<1>7. IsPhi(g.code[s][1]) =>
              /\ IsSequence(g.code[s][1].from) /\ IsSequence(g.code[s][1].args)
              /\ Len(g.code[s][1].from) = Len(g.code[s][1].args)
              /\ g.code[s][1].def # NoValue
  BY <1>1, <1>6 DEF WellFormed
<1>8. IsPhi(g.code[s][1]) => DOMAIN g.code[s][1].from = DOMAIN g.code[s][1].args
  BY <1>7 DEF IsSequence
<1>9. IsPhi(g.code[s][1]) => NotDebug(g.code[s][1]) /\ g.code[s][1].op # "invoke"
  BY DEF IsPhi, NotDebug
<1> QED
  BY <1>2, <1>4, <1>5, <1>6, <1>7, <1>8, <1>9 DEF Leaves, OnePhi

\* Whoever comes to s a first time brings w.
LEMMA ArrivesWith ==
  ASSUME NEW g, NEW b, NEW s, NEW w, Sound(g), Leaves(g, b, s), Collapses(g, b, s, w),
         NEW p \in Reachable(g) \cap ReachableAvoiding(g, s), s \in Range(g.succ[p])
  PROVE  \E m \in DOMAIN g.code[s][1].args :
           g.code[s][1].from[m] = p /\ g.code[s][1].args[m] = w
<1> DEFINE phi == g.code[s][1]
<1>1. /\ b \notin Reachable(g) /\ 1 \in DOMAIN g.code[s] /\ IsPhi(phi)
      /\ DOMAIN phi.from = DOMAIN phi.args /\ phi.def # NoValue /\ NotDebug(phi)
      /\ s \in g.blocks
  BY LeavesFacts DEF Collapses, Leaves
<1>2. ControlFlowGraph(g) /\ WellFormed(g) /\ Verified(g) /\ PhisMatchEdges(g)
  BY DEF Sound, Verified
<1>3. p \in g.blocks /\ p # s /\ s \in Reachable(g)
  <2>1. ReachableAvoiding(g, s) \subseteq g.blocks \ {s}
    BY <1>2, ReachableIsLeast
  <2>2. \A c \in Reachable(g) : Range(g.succ[c]) \subseteq Reachable(g)
    BY <1>2, ReachableIsClosed
  <2> QED
    BY <2>1, <2>2
<1>4. PICK m \in DOMAIN phi.from : phi.from[m] = p
  BY <1>1, <1>2, <1>3, EntryForEdge
<1>5. phi.args[m] \in {w, phi.def}
  BY <1>1, <1>4 DEF Collapses
<1>6. phi.args[m] # phi.def
  <2> SUFFICES ASSUME phi.args[m] = phi.def PROVE FALSE
    OBVIOUS
  <2>1. UseAt(g, phi.def, s, 1, m)
    BY <1>1, <1>4 DEF UseAt
  <2>2. DefReachesUse(g, s, 1, s, 1, m)
    BY <1>1, <1>2, <1>3, <2>1, UseBefore
  <2>3. AvailableIn(g, s, 1, p)
    BY <1>1, <1>3, <1>4, <2>2 DEF DefReachesUse
  <2> QED
    BY <1>3, <2>3 DEF AvailableIn, Dominates
<1> QED
  BY <1>1, <1>4, <1>5, <1>6

\* No value means that nobody comes.
LEMMA NobodyArrives ==
  ASSUME NEW g, NEW b, NEW s, Sound(g), Leaves(g, b, s), Collapses(g, b, s, Poison)
  PROVE  s \notin Reachable(g)
<1> SUFFICES ASSUME s \in Reachable(g) PROVE FALSE
  OBVIOUS
<1>1. /\ ControlFlowGraph(g) /\ PoisonFree(g) /\ s # g.entry /\ s \in g.blocks
      /\ 1 \in DOMAIN g.code[s] /\ NotDebug(g.code[s][1])
  BY LeavesFacts DEF Sound, Leaves, Collapses
<1>2. PICK p \in Reachable(g) \cap ReachableAvoiding(g, s) : s \in Range(g.succ[p])
  BY <1>1, FirstArrival DEF Reachable
<1>3. PICK m \in DOMAIN g.code[s][1].args : g.code[s][1].from[m] = p /\ g.code[s][1].args[m] = Poison
  BY <1>2, ArrivesWith
<1>4. UseAt(g, Poison, s, 1, m)
  BY <1>1, <1>3 DEF UseAt
<1>5. Poison # NoValue
  BY DEF Poison, NoValue
<1>6. <<s, 1, m>> \in Uses(g, Poison)
  BY <1>4, <1>5, UseIsUse
<1> QED
  BY <1>1, <1>2, <1>3, <1>6 DEF PoisonFree

\* A value that everyone brings is available in s.
LEMMA BroughtIsAvailable ==
  ASSUME NEW g, NEW b, NEW s, NEW a \in g.blocks, NEW i \in DOMAIN g.code[a], Sound(g),
         Leaves(g, b, s), g.code[a][i].def # NoValue, Collapses(g, b, s, g.code[a][i].def),
         s \in Reachable(g)
  PROVE  a # s /\ AvailableIn(g, a, i, s)
<1> DEFINE w == g.code[a][i].def
           phi == g.code[s][1]
<1>1. /\ IsRecord(g) /\ ControlFlowGraph(g) /\ WellFormed(g) /\ Verified(g) /\ s # g.entry /\ s \in g.blocks
      /\ 1 \in DOMAIN g.code[s] /\ NotDebug(phi) /\ s # NoBlock /\ IsPhi(phi)
  BY LeavesFacts DEF Sound, Leaves, Collapses
<1>2. ASSUME NEW p \in Reachable(g) \cap ReachableAvoiding(g, s), s \in Range(g.succ[p])
      PROVE  IF a = p THEN OnEdge(g, a, i, s) ELSE AvailableIn(g, a, i, p)
  <2>1. PICK m \in DOMAIN phi.args : phi.from[m] = p /\ phi.args[m] = w
    BY <1>2, ArrivesWith
  <2>2. UseAt(g, w, s, 1, m)
    BY <1>1, <2>1 DEF UseAt
  <2>3. DefReachesUse(g, a, i, s, 1, m)
    BY <1>1, <2>2, UseBefore
  <2> QED
    BY <1>1, <1>2, <2>1, <2>3 DEF DefReachesUse
<1>3. /\ ReachableAvoiding(g, s) \subseteq g.blocks \ {s}
      /\ ReachableAvoiding(g, a) \subseteq g.blocks \ {a}
      /\ ReachableAvoiding(g, a) \subseteq Reachable(g)
  BY <1>1, ReachableIsLeast, ReachableShrinks
<1>4. a # s
  <2>1. PICK p \in Reachable(g) \cap ReachableAvoiding(g, s) : s \in Range(g.succ[p])
    BY <1>1, FirstArrival DEF Reachable
  <2> QED
    BY <1>2, <1>3, <2>1 DEF AvailableIn, Dominates
<1>5. Dominates(g, a, s)
  <2> SUFFICES ASSUME s \in ReachableAvoiding(g, a) PROVE FALSE
    BY DEF Dominates
  <2>1. PICK p \in ReachableAvoiding(g, a) \cap ReachableAvoiding(g, s) : s \in Range(g.succ[p])
    BY <1>1, FirstArrival
  <2> QED
    BY <1>2, <1>3, <2>1 DEF AvailableIn, Dominates
<1>6. ASSUME g.code[a][i].op = "invoke" PROVE s \notin Reachable(Unwinding(g, a))
  <2> DEFINE u == Unwinding(g, a)
  <2>1. IsSequence(g.succ[a]) /\ Len(g.succ[a]) = 2
    BY <1>1, <1>6 DEF WellFormed
  <2>2. /\ u.entry = g.entry /\ u.blocks = g.blocks /\ ControlFlowGraph(u)
        /\ \A d : d # a => u.succ[d] = g.succ[d]
        /\ Range(u.succ[a]) = {g.succ[a][2]}
    BY <1>1, <2>1, UnwindingFields
  <2>3. \A c : ReachableAvoiding(u, c) \subseteq ReachableAvoiding(g, c)
    BY <1>1, <2>1, UnwindingEdges
  <2>4. g.succ[a][2] \in Range(g.succ[a])
    BY <2>1 DEF IsSequence, Range
  <2> HIDE DEF u
  <2> SUFFICES ASSUME s \in ReachableAvoiding(u, NoBlock) PROVE FALSE
    BY DEF Reachable, u
  <2>5. PICK p \in ReachableAvoiding(u, NoBlock) \cap ReachableAvoiding(u, s) : s \in Range(u.succ[p])
    BY <1>1, <2>2, FirstArrival
  <2>6. p \in Reachable(g) \cap ReachableAvoiding(g, s)
    BY <2>3, <2>5 DEF Reachable
  <2>7. s \in Range(g.succ[p])
    BY <2>2, <2>4, <2>5
  <2>8. a # p
    <3> SUFFICES ASSUME a = p PROVE FALSE
      OBVIOUS
    <3>1. OnEdge(g, a, i, s)
      BY <1>2, <2>6, <2>7
    <3>2. g.succ[a][2] = s
      BY <2>2, <2>5
    <3> QED
      BY <1>6, <3>1, <3>2 DEF OnEdge
  <2>9. p \notin Reachable(u)
    BY <1>2, <1>6, <2>6, <2>7, <2>8 DEF AvailableIn, Unwinding, u
  <2> QED
    BY <2>5, <2>9 DEF Reachable
<1> QED
  BY <1>4, <1>5, <1>6 DEF AvailableIn, Unwinding
-----------------------------------------------------------------------------
(* A block forgets its predecessor b.                                      *)

\* Where instruction j of c stood before block s lost its first o instructions,
\* and operand k of it before the first instruction of s lost operand q.
Src(s, o, c, j) == IF c = s THEN j + o ELSE j
Dropped(s, q, c, j) == c = s /\ j = 1 /\ q # 0
Slot(s, q, c, j, k) == IF Dropped(s, q, c, j) /\ ~(k < q) THEN k + 1 ELSE k
Put(x, w, v) == IF v = x THEN w ELSE v

EditedInstruction(I, J, dropped, q) ==
  /\ I = [op |-> J.op, def |-> J.def, args |-> I.args, from |-> I.from]
  /\ IsSequence(I.args) /\ IsSequence(I.from)
  /\ ~dropped => I.from = J.from /\ Len(I.args) = Len(J.args)
  /\ dropped => Drop(J.from, q, I.from) /\ Len(I.args) = Len(J.args) - 1

Edited(g, h, s, o, q, x, w) ==
  /\ IsRecord(h) /\ h.entry = g.entry /\ h.blocks = g.blocks /\ h.succ = g.succ
  /\ \A c \in g.blocks :
       /\ IsSequence(h.code[c]) /\ Len(h.code[c]) = Len(g.code[c]) - (IF c = s THEN o ELSE 0)
       /\ \A j \in DOMAIN h.code[c] :
            /\ EditedInstruction(h.code[c][j], g.code[c][Src(s, o, c, j)], Dropped(s, q, c, j), q)
            /\ \A k \in DOMAIN h.code[c][j].args :
                 h.code[c][j].args[k] = Put(x, w, g.code[c][Src(s, o, c, j)].args[Slot(s, q, c, j, k)])

\* A PHI loses its entry for b, or goes with it: what it had is put in its place.
Forgets(g, h, b, s, o, q, x, w) ==
  /\ Sound(g) /\ Leaves(g, b, s) /\ Edited(g, h, s, o, q, x, w)
  /\ \/ o = 0 /\ x = w
     \/ o = 1 /\ q = 0 /\ x = g.code[s][1].def /\ Collapses(g, b, s, w)
  /\ q = 0 \/ (q \in DOMAIN g.code[s][1].from /\ g.code[s][1].from[q] = b)
  /\ IsPhi(g.code[s][1]) <=> o = 1 \/ q # 0

LEMMA Shifted ==
  ASSUME NEW m \in Nat, NEW n \in Nat, NEW o \in {0, 1}, m = n - o, NEW j \in 1 .. m
  PROVE  j + o \in 1 .. n /\ j + o \in Nat /\ j \in Nat /\ j >= 1
OBVIOUS

LEMMA EditedKeeps ==
  ASSUME NEW I, NEW J, NEW dropped, NEW q, EditedInstruction(I, J, dropped, q)
  PROVE  I.op = J.op /\ I.def = J.def
BY DEF EditedInstruction

\* Where an instruction was, and what it was.
LEMMA CameFrom ==
  ASSUME NEW g, NEW h, NEW b, NEW s, NEW o, NEW q, NEW x, NEW w,
         Forgets(g, h, b, s, o, q, x, w), NEW c \in g.blocks, NEW j \in DOMAIN h.code[c]
  PROVE  /\ Src(s, o, c, j) \in DOMAIN g.code[c] /\ Src(s, o, c, j) \in Nat /\ j \in Nat /\ j >= 1
         /\ h.code[c][j].op = g.code[c][Src(s, o, c, j)].op
         /\ h.code[c][j].def = g.code[c][Src(s, o, c, j)].def
         /\ IsPhi(h.code[c][j]) <=> IsPhi(g.code[c][Src(s, o, c, j)])
         /\ NotDebug(h.code[c][j]) <=> NotDebug(g.code[c][Src(s, o, c, j)])
<1>1. /\ IsSequence(h.code[c]) /\ Len(h.code[c]) = Len(g.code[c]) - (IF c = s THEN o ELSE 0)
      /\ EditedInstruction(h.code[c][j], g.code[c][Src(s, o, c, j)], Dropped(s, q, c, j), q)
      /\ o \in {0, 1}
  BY DEF Forgets, Edited
<1>2. IsSequence(g.code[c])
  BY DEF Forgets, Sound, WellFormed
<1>3. /\ DOMAIN h.code[c] = 1 .. Len(h.code[c]) /\ DOMAIN g.code[c] = 1 .. Len(g.code[c])
      /\ Len(h.code[c]) \in Nat /\ Len(g.code[c]) \in Nat
  BY <1>1, <1>2 DEF IsSequence
<1>4. /\ Src(s, o, c, j) \in DOMAIN g.code[c] /\ Src(s, o, c, j) \in Nat /\ j \in Nat /\ j >= 1
  <2>1. CASE c = s
    <3>1. Src(s, o, c, j) = j + o /\ Len(h.code[c]) = Len(g.code[c]) - o
      BY <1>1, <2>1 DEF Src
    <3> DEFINE m == Len(h.code[c])
               n == Len(g.code[c])
    <3>2. m \in Nat /\ n \in Nat /\ o \in {0, 1} /\ m = n - o /\ j \in 1 .. m
      BY <1>1, <1>3, <3>1
    <3> HIDE DEF m, n
    <3>3. j + o \in 1 .. n /\ j + o \in Nat /\ j \in Nat /\ j >= 1
      BY <3>2, Shifted
    <3> QED
      BY <1>3, <3>1, <3>3 DEF n
  <2>2. CASE c # s
    <3>1. Src(s, o, c, j) = j /\ Len(h.code[c]) = Len(g.code[c])
      BY <1>1, <1>3, <2>2 DEF Src
    <3> QED
      BY <1>3, <3>1
  <2> QED
    BY <2>1, <2>2
<1>5. /\ h.code[c][j].op = g.code[c][Src(s, o, c, j)].op
      /\ h.code[c][j].def = g.code[c][Src(s, o, c, j)].def
  BY <1>1, EditedKeeps
<1> QED
  BY <1>4, <1>5 DEF IsPhi, NotDebug

LEMMA ForgetsGraph ==
  ASSUME NEW g, NEW h, NEW b, NEW s, NEW o, NEW q, NEW x, NEW w, Forgets(g, h, b, s, o, q, x, w)
  PROVE  /\ SameGraph(g, h) /\ h.blocks = g.blocks /\ h.succ = g.succ /\ ControlFlowGraph(h)
         /\ Reachable(h) = Reachable(g)
<1>1. /\ IsRecord(g) /\ ControlFlowGraph(g) /\ IsRecord(h) /\ h.entry = g.entry
      /\ h.blocks = g.blocks /\ h.succ = g.succ
  BY DEF Forgets, Sound, Edited
<1>2. ControlFlowGraph(h)
  BY <1>1 DEF ControlFlowGraph
<1>3. Reachable(h) = Reachable(g)
  BY <1>1, <1>2, SameReach DEF Reachable
<1> QED
  BY <1>1, <1>2, <1>3 DEF SameGraph

\* The PHI of s has one entry for b.
LEMMA OneEntry ==
  ASSUME NEW g, NEW b, NEW s, Sound(g), Leaves(g, b, s), IsPhi(g.code[s][1]),
         NEW k \in DOMAIN g.code[s][1].from, NEW m \in DOMAIN g.code[s][1].from,
         g.code[s][1].from[k] = b, g.code[s][1].from[m] = b
  PROVE  k = m
<1> DEFINE phi == g.code[s][1]
           K == {n \in DOMAIN phi.from : phi.from[n] = b}
<1>1. /\ 1 \in DOMAIN g.code[s] /\ IsSequence(phi.from) /\ s \in g.blocks /\ b \in g.blocks
      /\ g.succ[b] = <<s>> /\ PhisMatchEdges(g)
  BY LeavesFacts DEF Leaves, Sound, Verified
<1>2. Cardinality(K) = EdgesBetween(g, b, s)
  BY <1>1 DEF PhisMatchEdges
<1>3. EdgesBetween(g, b, s) = 1
  <2>1. {n \in DOMAIN g.succ[b] : g.succ[b][n] = s} = {1}
    BY <1>1
  <2> QED
    BY <2>1, FS_Singleton DEF EdgesBetween
<1>4. IsFiniteSet(K)
  <2>1. IsFiniteSet(1 .. Len(phi.from))
    <3> DEFINE n == Len(phi.from)
    <3>1. n \in Int /\ 1 \in Int
      BY <1>1 DEF IsSequence
    <3> HIDE DEF n
    <3> QED
      BY <3>1, FS_Interval DEF n
  <2>2. DOMAIN phi.from = 1 .. Len(phi.from)
    BY <1>1 DEF IsSequence
  <2> QED
    BY <2>1, <2>2, FS_Subset
<1>5. k \in K /\ m \in K
  OBVIOUS
<1> HIDE DEF K
<1> QED
  BY <1>2, <1>3, <1>4, <1>5, FewUses

LEMMA SequenceDomain ==
  ASSUME NEW t, IsSequence(t)
  PROVE  DOMAIN t = 1 .. Len(t) /\ Len(t) \in Nat
BY DEF IsSequence

\* The place that the k-th of one less had before.
LEMMA SlotBefore ==
  ASSUME NEW m \in Nat, NEW k \in 1 .. m - 1, NEW q \in 1 .. m, NEW n, n = IF k < q THEN k ELSE k + 1
  PROVE  k \in Nat /\ n \in 1 .. m /\ n # q
OBVIOUS

\* Where an operand was, and what it was.  No PHI has an entry for b any more.
LEMMA UseCameFrom ==
  ASSUME NEW g, NEW h, NEW b, NEW s, NEW o, NEW q, NEW x, NEW w,
         Forgets(g, h, b, s, o, q, x, w), NEW v, NEW c, NEW j, NEW k, UseAt(h, v, c, j, k)
  PROVE  \E n : \E y :
           /\ UseAt(g, y, c, Src(s, o, c, j), n) /\ v = Put(x, w, y)
           /\ n = Slot(s, q, c, j, k)
           /\ IsPhi(h.code[c][j]) =>
                /\ h.code[c][j].from[k] = g.code[c][Src(s, o, c, j)].from[n]
                /\ h.code[c][j].from[k] # b
<1> DEFINE e == Src(s, o, c, j)
           n == Slot(s, q, c, j, k)
           I == h.code[c][j]
           J == g.code[c][e]
<1>1. /\ c \in g.blocks /\ j \in DOMAIN h.code[c] /\ k \in DOMAIN I.args /\ I.args[k] = v /\ NotDebug(I)
      /\ Sound(g) /\ Leaves(g, b, s)
  BY ForgetsGraph DEF UseAt, Forgets
<1>2. /\ e \in DOMAIN g.code[c] /\ j \in Nat /\ j >= 1 /\ NotDebug(J) /\ (IsPhi(I) <=> IsPhi(J))
      /\ e \in Nat
  BY <1>1, CameFrom
<1>3. EditedInstruction(I, J, Dropped(s, q, c, j), q) /\ v = Put(x, w, J.args[n])
  BY <1>1 DEF Forgets, Edited
<1>4. IsSequence(J.args) /\ IsSequence(J.from) /\ (IsPhi(J) => Len(J.from) = Len(J.args))
  BY <1>1, <1>2 DEF Sound, WellFormed
<1>5. /\ IsSequence(I.args) /\ IsSequence(I.from)
      /\ ~Dropped(s, q, c, j) => I.from = J.from /\ Len(I.args) = Len(J.args)
      /\ Dropped(s, q, c, j) => Drop(J.from, q, I.from) /\ Len(I.args) = Len(J.args) - 1
  BY <1>3 DEF EditedInstruction
<1>6. /\ DOMAIN I.args = 1 .. Len(I.args) /\ DOMAIN J.args = 1 .. Len(J.args)
      /\ Len(I.args) \in Nat /\ Len(J.args) \in Nat
      /\ DOMAIN J.from = 1 .. Len(J.from) /\ Len(J.from) \in Nat
  BY <1>4, <1>5, SequenceDomain
<1>7. CASE ~Dropped(s, q, c, j)
  <2>1. n = k /\ n \in DOMAIN J.args /\ I.from = J.from
    BY <1>1, <1>5, <1>6, <1>7 DEF Slot
  <2>2. UseAt(g, J.args[n], c, e, n)
    BY <1>1, <1>2, <2>1 DEF UseAt
  <2>3. ASSUME IsPhi(I), J.from[n] = b PROVE FALSE
    <3>1. n \in DOMAIN J.from
      BY <1>2, <1>4, <1>6, <2>1, <2>3
    <3>2. c \in Range(g.succ[b])
      BY <1>1, <1>2, <2>3, <3>1, EntryForEdge DEF Sound, Verified, Leaves
    <3>3. c = s
      BY <1>1, <3>2 DEF Leaves, Range
    <3>4. e = 1
      BY <1>1, <1>2, <2>3, <3>3, LeavesFacts
    <3>5. o \in {0, 1} /\ e = j + o
      BY <3>3 DEF Forgets, Src
    <3>6. o = 0 /\ j = 1
      BY <1>2, <3>4, <3>5
    <3>7. q # 0
      BY <1>2, <2>3, <3>3, <3>4, <3>6 DEF Forgets
    <3> QED
      BY <1>7, <3>3, <3>6, <3>7 DEF Dropped
  <2> QED
    BY <1>3, <2>1, <2>2, <2>3
<1>8. CASE Dropped(s, q, c, j)
  <2>1. c = s /\ j = 1 /\ q # 0
    BY <1>8 DEF Dropped
  <2>2. o = 0 /\ IsPhi(g.code[s][1]) /\ e = 1 /\ q \in DOMAIN g.code[s][1].from /\ g.code[s][1].from[q] = b
    BY <2>1 DEF Forgets, Src
  <2>3. /\ J = g.code[s][1] /\ q \in 1 .. Len(J.from) /\ Len(J.from) = Len(J.args)
        /\ Drop(J.from, q, I.from) /\ Len(I.args) = Len(J.args) - 1
    BY <1>4, <1>5, <1>6, <1>8, <2>1, <2>2
  <2>4. n = IF k < q THEN k ELSE k + 1
    BY <1>8 DEF Slot
  <2>5. k \in Nat /\ n \in DOMAIN J.args /\ n \in DOMAIN J.from /\ n # q
    <3> DEFINE m == Len(J.args)
    <3>1. /\ m \in Nat /\ k \in 1 .. m - 1 /\ q \in 1 .. m
          /\ DOMAIN J.args = 1 .. m /\ DOMAIN J.from = 1 .. m
      BY <1>1, <1>6, <2>3
    <3> HIDE DEF m, n
    <3>2. k \in Nat /\ n \in 1 .. m /\ n # q
      BY <2>4, <3>1, SlotBefore
    <3> QED
      BY <3>1, <3>2
  <2>6. I.from[k] = J.from[n]
    <3>1. k \in 1 .. Len(I.from)
      BY <1>1, <1>6, <2>3 DEF Drop
    <3> QED
      BY <2>3, <2>4, <3>1 DEF Drop
  <2>7. J.from[n] # b
    BY <1>1, <2>2, <2>3, <2>5, OneEntry
  <2>8. UseAt(g, J.args[n], c, e, n)
    BY <1>1, <1>2, <2>5 DEF UseAt
  <2> QED
    BY <1>3, <2>6, <2>7, <2>8
<1> QED
  BY <1>7, <1>8

\* A reachable block is dominated by reachable ones only.
LEMMA DominatorIsReachable ==
  ASSUME NEW g, ControlFlowGraph(g), NEW s, NEW c \in Reachable(g), Dominates(g, s, c)
  PROVE  s \in Reachable(g)
<1> SUFFICES ASSUME s \notin Reachable(g) PROVE FALSE
  OBVIOUS
<1>1. /\ g.entry \in Reachable(g)
      /\ \A d \in Reachable(g) : Range(g.succ[d]) \subseteq Reachable(g)
  BY ReachableIsClosed
<1>2. g.entry \in ReachableAvoiding(g, s) /\ Closed(g, s, ReachableAvoiding(g, s))
  BY <1>1, ReachableIsLeast
<1>3. Reachable(g) \subseteq ReachableAvoiding(g, s)
  BY <1>1, <1>2, ClosedHoldsReachable DEF Closed
<1> QED
  BY <1>3 DEF Dominates

\* Where the value of the PHI is read, what replaces it is available.
LEMMA ReplacementIsAvailable ==
  ASSUME NEW g, NEW h, NEW b, NEW s, NEW o, NEW q, NEW x, NEW w,
         Forgets(g, h, b, s, o, q, x, w), Collapses(g, b, s, w),
         NEW a \in g.blocks, NEW i \in DOMAIN h.code[a], h.code[a][i].def = w, w # NoValue,
         NEW z \in Reachable(g), Dominates(g, s, z)
  PROVE  a # z /\ AvailableIn(h, a, i, z)
<1> DEFINE e == Src(s, o, a, i)
<1>1. /\ e \in DOMAIN g.code[a] /\ h.code[a][i].op = g.code[a][e].op
      /\ h.code[a][i].def = g.code[a][e].def
  BY CameFrom
<1> HIDE DEF e
<1>2. /\ Sound(g) /\ Leaves(g, b, s) /\ IsRecord(g) /\ ControlFlowGraph(g) /\ WellFormed(g)
  BY DEF Forgets, Sound
<1>3. s \in Reachable(g)
  BY <1>2, DominatorIsReachable
<1>4. a # s /\ AvailableIn(g, a, e, s)
  BY <1>1, <1>2, <1>3, BroughtIsAvailable
<1>5. a # z /\ AvailableIn(g, a, e, z)
  BY <1>1, <1>2, <1>3, <1>4, AvailableBehind
<1>6. SameGraph(g, h) /\ a \in h.blocks
  BY ForgetsGraph
<1> QED
  BY <1>1, <1>2, <1>5, <1>6, SameAvailable

\* Where the value of the PHI was read, the PHI came first.
LEMMA PhiCameFirst ==
  ASSUME NEW g, NEW b, NEW s, Sound(g), Leaves(g, b, s), IsPhi(g.code[s][1]),
         NEW c \in Reachable(g), NEW j, NEW k, UseAt(g, g.code[s][1].def, c, j, k)
  PROVE  /\ ~IsPhi(g.code[c][j]) => Dominates(g, s, c)
         /\ IsPhi(g.code[c][j]) => \A p \in Reachable(g) : g.code[c][j].from[k] = p => Dominates(g, s, p)
<1>1. Verified(g) /\ s \in g.blocks /\ 1 \in DOMAIN g.code[s] /\ g.code[s][1].def # NoValue
  BY LeavesFacts DEF Sound, Leaves
<1>2. DefReachesUse(g, s, 1, c, j, k)
  BY <1>1, UseBefore
<1> QED
  BY <1>2 DEF DefReachesUse, AvailableIn, Dominates

LEMMA ForgetsReaches ==
  ASSUME NEW g, NEW h, NEW b, NEW s, NEW o, NEW q, NEW x, NEW w,
         Forgets(g, h, b, s, o, q, x, w),
         NEW a \in h.blocks, NEW i \in DOMAIN h.code[a], h.code[a][i].def # NoValue,
         NEW c \in Reachable(h), NEW j, NEW k, UseAt(h, h.code[a][i].def, c, j, k)
  PROVE  DefReachesUse(h, a, i, c, j, k)
<1> DEFINE d == h.code[a][i].def
           f == Src(s, o, a, i)
           e == Src(s, o, c, j)
<1>1. PICK n : \E y :
           /\ UseAt(g, y, c, e, n) /\ d = Put(x, w, y)
           /\ IsPhi(h.code[c][j]) =>
                h.code[c][j].from[k] = g.code[c][e].from[n] /\ h.code[c][j].from[k] # b
  BY UseCameFrom
<1>2. PICK y :
           /\ UseAt(g, y, c, e, n) /\ d = Put(x, w, y)
           /\ IsPhi(h.code[c][j]) => h.code[c][j].from[k] = g.code[c][e].from[n]
  BY <1>1
<1>3. /\ Sound(g) /\ Leaves(g, b, s) /\ ControlFlowGraph(g) /\ WellFormed(g) /\ Verified(g)
      /\ SameGraph(g, h) /\ a \in g.blocks /\ c \in g.blocks /\ h.blocks = g.blocks /\ h.succ = g.succ
      /\ c \in Reachable(g) /\ Reachable(h) = Reachable(g)
  BY ForgetsGraph, ReachableIsClosed DEF Forgets, Sound
<1>4. j \in DOMAIN h.code[c]
  BY DEF UseAt
<1>5. /\ f \in DOMAIN g.code[a] /\ h.code[a][i].op = g.code[a][f].op /\ d = g.code[a][f].def
      /\ e \in DOMAIN g.code[c] /\ (IsPhi(h.code[c][j]) <=> IsPhi(g.code[c][e]))
      /\ i \in Nat /\ j \in Nat
  BY <1>3, <1>4, CameFrom
<1>6. a = c /\ f < e => i < j
  BY <1>5 DEF Src, Forgets
<1> HIDE DEF d, e, f
<1>7. CASE d = y
  <2>1. DefReachesUse(g, a, f, c, e, n)
    BY <1>2, <1>3, <1>5, <1>7, UseBefore DEF d
  <2>2. CASE ~IsPhi(h.code[c][j])
    <3>1. IF a = c THEN f < e ELSE AvailableIn(g, a, f, c)
      BY <1>5, <2>1, <2>2 DEF DefReachesUse
    <3>2. a # c => AvailableIn(h, a, i, c)
      BY <1>3, <1>5, <3>1, SameAvailable
    <3> QED
      BY <1>6, <2>2, <3>1, <3>2 DEF DefReachesUse
  <2>3. CASE IsPhi(h.code[c][j])
    <3> DEFINE p == h.code[c][j].from[k]
    <3>1. ASSUME p \in Reachable(h)
          PROVE  IF a = p THEN OnEdge(h, a, i, c) ELSE AvailableIn(h, a, i, p)
      <4>1. IF a = p THEN OnEdge(g, a, f, c) ELSE AvailableIn(g, a, f, p)
        BY <1>2, <1>3, <1>5, <2>1, <2>3, <3>1 DEF DefReachesUse
      <4>2. a = p => OnEdge(h, a, i, c)
        BY <1>3, <1>5, <4>1 DEF OnEdge
      <4>3. a # p => AvailableIn(h, a, i, p)
        BY <1>3, <1>5, <4>1, SameAvailable
      <4> QED
        BY <4>2, <4>3
    <3> QED
      BY <2>3, <3>1 DEF DefReachesUse
  <2> QED
    BY <2>2, <2>3
<1>8. CASE d # y
  <2>1. y = x /\ d = w /\ x # w
    BY <1>2, <1>8 DEF Put
  <2>2. x = g.code[s][1].def /\ Collapses(g, b, s, w) /\ IsPhi(g.code[s][1])
    BY <2>1 DEF Forgets, Collapses
  <2>3. ASSUME NEW z \in Reachable(g), Dominates(g, s, z)
        PROVE  a # z /\ AvailableIn(h, a, i, z)
    BY <1>3, <2>1, <2>2, <2>3, ReplacementIsAvailable DEF d
  <2>4. CASE ~IsPhi(h.code[c][j])
    <3>1. Dominates(g, s, c)
      BY <1>2, <1>3, <1>5, <2>1, <2>2, <2>4, PhiCameFirst
    <3> QED
      BY <1>3, <2>3, <2>4, <3>1 DEF DefReachesUse
  <2>5. CASE IsPhi(h.code[c][j])
    <3>1. ASSUME h.code[c][j].from[k] \in Reachable(g)
          PROVE  Dominates(g, s, h.code[c][j].from[k])
      BY <1>2, <1>3, <1>5, <2>1, <2>2, <2>5, <3>1, PhiCameFirst
    <3> QED
      BY <1>3, <2>3, <2>5, <3>1 DEF DefReachesUse
  <2> QED
    BY <2>4, <2>5
<1> QED
  BY <1>7, <1>8

LEMMA ForgetsDominates ==
  ASSUME NEW g, NEW h, NEW b, NEW s, NEW o, NEW q, NEW x, NEW w, Forgets(g, h, b, s, o, q, x, w)
  PROVE  DefsDominateUses(h)
<1> SUFFICES ASSUME NEW a \in h.blocks, NEW i \in DOMAIN h.code[a], h.code[a][i].def # NoValue,
                    NEW u \in Uses(h, h.code[a][i].def), u[1] \in Reachable(h)
             PROVE  DefReachesUse(h, a, i, u[1], u[2], u[3])
  BY DEF DefsDominateUses
<1>1. PICK c, j, k : u = <<c, j, k>> /\ UseAt(h, h.code[a][i].def, c, j, k)
  BY UsesAre
<1> QED
  BY <1>1, ForgetsReaches

\* What reads poison now read it before, or reads the value of a PHI that
\* nobody comes to.
LEMMA ForgetsPoison ==
  ASSUME NEW g, NEW h, NEW b, NEW s, NEW o, NEW q, NEW x, NEW w, Forgets(g, h, b, s, o, q, x, w)
  PROVE  PoisonFree(h)
<1> SUFFICES ASSUME NEW c \in Reachable(h), NEW j, NEW k, UseAt(h, Poison, c, j, k)
             PROVE  IsPhi(h.code[c][j]) /\ h.code[c][j].from[k] \notin Reachable(h)
  <2>1. Poison # NoValue
    BY DEF Poison, NoValue
  <2>2. \A u \in Uses(h, Poison) : \E c, j, k : u = <<c, j, k>> /\ UseAt(h, Poison, c, j, k)
    BY <2>1, UsesAre
  <2> QED
    BY <2>2 DEF PoisonFree
<1> DEFINE e == Src(s, o, c, j)
<1>1. PICK n : \E y :
           /\ UseAt(g, y, c, e, n) /\ Poison = Put(x, w, y)
           /\ IsPhi(h.code[c][j]) =>
                h.code[c][j].from[k] = g.code[c][e].from[n] /\ h.code[c][j].from[k] # b
  BY UseCameFrom
<1>2. PICK y :
           /\ UseAt(g, y, c, e, n) /\ Poison = Put(x, w, y)
           /\ IsPhi(h.code[c][j]) => h.code[c][j].from[k] = g.code[c][e].from[n]
  BY <1>1
<1>3. /\ Sound(g) /\ Leaves(g, b, s) /\ PoisonFree(g) /\ ControlFlowGraph(g)
      /\ c \in Reachable(g) /\ c \in g.blocks /\ Reachable(h) = Reachable(g)
  BY ForgetsGraph, ReachableIsClosed DEF Forgets, Sound
<1>4. IsPhi(h.code[c][j]) <=> IsPhi(g.code[c][e])
  BY <1>3, CameFrom DEF UseAt
<1> HIDE DEF e
<1>5. CASE y = Poison
  <2>1. <<c, e, n>> \in Uses(g, Poison)
    BY <1>2, <1>5, UseIsUse DEF Poison, NoValue
  <2> QED
    BY <1>2, <1>3, <1>4, <2>1 DEF PoisonFree
<1>6. CASE y # Poison
  <2>1. y = x /\ w = Poison /\ x # w
    BY <1>2, <1>6 DEF Put
  <2>2. x = g.code[s][1].def /\ Collapses(g, b, s, Poison) /\ IsPhi(g.code[s][1])
    BY <2>1 DEF Forgets, Collapses
  <2>3. \A z \in Reachable(g) : ~Dominates(g, s, z)
    BY <1>3, <2>2, NobodyArrives, DominatorIsReachable
  <2> QED
    BY <1>2, <1>3, <1>4, <2>1, <2>2, <2>3, PhiCameFirst
<1> QED
  BY <1>5, <1>6

\* The function keeps its form.
LEMMA ForgetsForm ==
  ASSUME NEW g, NEW h, NEW b, NEW s, NEW o, NEW q, NEW x, NEW w, Forgets(g, h, b, s, o, q, x, w)
  PROVE  WellFormed(h)
<1>1. WellFormed(g) /\ Sound(g) /\ Leaves(g, b, s) /\ h.blocks = g.blocks /\ h.succ = g.succ
  BY ForgetsGraph DEF Forgets, Sound
<1>2. ASSUME NEW c \in g.blocks
      PROVE  /\ IsSequence(h.code[c]) /\ IsSequence(g.code[c]) /\ g.code[c] # <<>>
             /\ h.code[c] # <<>> /\ Len(h.code[c]) \in Nat /\ Len(h.code[c]) >= 1
             /\ DOMAIN h.code[c] = 1 .. Len(h.code[c])
             /\ Src(s, o, c, Len(h.code[c])) = Len(g.code[c])
             /\ \A i \in DOMAIN h.code[c] : Src(s, o, c, i) = Len(g.code[c]) => i = Len(h.code[c])
  <2>1. IsSequence(h.code[c]) /\ Len(h.code[c]) = Len(g.code[c]) - (IF c = s THEN o ELSE 0)
    BY DEF Forgets, Edited
  <2>2. IsSequence(g.code[c]) /\ g.code[c] # <<>> /\ ~IsPhi(Last(g.code[c]))
    BY <1>1 DEF WellFormed
  <2> DEFINE m == Len(h.code[c])
             n == Len(g.code[c])
  <2>3. /\ m \in Nat /\ n \in Nat /\ n >= 1 /\ DOMAIN h.code[c] = 1 .. m /\ DOMAIN g.code[c] = 1 .. n
    BY <2>1, <2>2 DEF IsSequence
  <2>4. Last(g.code[c]) = g.code[c][n]
    BY DEF Last
  <2>5. CASE c = s /\ o = 1
    <3>1. IsPhi(g.code[c][1])
      BY <2>5 DEF Forgets
    <3>2. n # 1
      BY <2>2, <2>4, <3>1
    <3>3. m = n - 1
      BY <2>1, <2>5
    <3> HIDE DEF m, n
    <3>4. m >= 1
      BY <2>3, <3>2, <3>3
    <3>5. h.code[c] # <<>>
      BY <3>4 DEF m
    <3>6. \A i : Src(s, o, c, i) = i + 1
      BY <2>5 DEF Src
    <3>7. \A i \in 1 .. m : i + 1 = n => i = m
      BY <2>3, <3>3
    <3> QED
      BY <2>1, <2>2, <2>3, <3>3, <3>4, <3>5, <3>6, <3>7 DEF m, n
  <2>6. CASE ~(c = s /\ o = 1)
    <3>1. m = n /\ \A i \in Nat : Src(s, o, c, i) = i
      BY <2>1, <2>3, <2>6 DEF Src, Forgets
    <3>2. h.code[c] # <<>>
      BY <2>3, <3>1
    <3> QED
      BY <2>1, <2>2, <2>3, <3>1, <3>2
  <2> QED
    BY <2>5, <2>6
<1>3. ASSUME NEW c \in g.blocks, NEW i \in DOMAIN h.code[c]
      PROVE  LET I == h.code[c][i] IN
             /\ I = [op |-> I.op, def |-> I.def, args |-> I.args, from |-> I.from]
             /\ IsSequence(I.args) /\ IsSequence(I.from)
             /\ IsPhi(I) => Len(I.from) = Len(I.args) /\ I.def # NoValue
             /\ I.op = "invoke" => i = Len(h.code[c]) /\ Len(h.succ[c]) = 2
             /\ ~NotDebug(I) \/ IsUnconditional(I) => I.def = NoValue
             /\ IsUnconditional(I) => I.args = <<>>
  <2> DEFINE e == Src(s, o, c, i)
             I == h.code[c][i]
             J == g.code[c][e]
             dr == Dropped(s, q, c, i)
  <2>1. /\ e \in DOMAIN g.code[c] /\ I.op = J.op /\ I.def = J.def
        /\ (IsPhi(I) <=> IsPhi(J)) /\ (NotDebug(I) <=> NotDebug(J))
    BY CameFrom
  <2>2. EditedInstruction(I, J, dr, q)
    BY DEF Forgets, Edited
  <2>3. /\ IsPhi(J) => Len(J.from) = Len(J.args) /\ J.def # NoValue
        /\ J.op = "invoke" => e = Len(g.code[c]) /\ Len(g.succ[c]) = 2
        /\ ~NotDebug(J) \/ IsUnconditional(J) => J.def = NoValue
        /\ IsUnconditional(J) => J.args = <<>>
    BY <1>1, <2>1 DEF WellFormed
  <2>4. dr => IsPhi(J)
    <3> SUFFICES ASSUME dr PROVE IsPhi(J)
      OBVIOUS
    <3>1. o = 0 /\ c = s /\ i = 1 /\ IsPhi(g.code[s][1])
      BY DEF Forgets, Dropped
    <3> QED
      BY <3>1 DEF Src
  <2>5. e = Len(g.code[c]) => i = Len(h.code[c])
    BY <1>2
  <2> HIDE DEF e, I, J, dr
  <2>6. I = [op |-> I.op, def |-> I.def, args |-> I.args, from |-> I.from]
    BY <2>2 DEF EditedInstruction
  <2>7. /\ IsSequence(I.args) /\ IsSequence(I.from)
        /\ ~dr => I.from = J.from /\ Len(I.args) = Len(J.args)
        /\ dr => Drop(J.from, q, I.from) /\ Len(I.args) = Len(J.args) - 1
    BY <2>2 DEF EditedInstruction
  <2>8. IsPhi(I) => Len(I.from) = Len(I.args)
    BY <2>1, <2>3, <2>7 DEF Drop
  <2>9. IsUnconditional(I) => I.args = <<>>
    <3> SUFFICES ASSUME IsUnconditional(I) PROVE I.args = <<>>
      OBVIOUS
    <3>1. ~IsPhi(J) /\ J.args = <<>>
      BY <2>1, <2>3 DEF IsUnconditional, IsPhi
    <3>2. Len(I.args) = 0
      BY <2>4, <2>7, <3>1
    <3>3. IsSequence(I.args)
      BY <2>7
    <3> QED
      BY <3>2, <3>3 DEF IsSequence
  <2>10. IsPhi(I) => I.def # NoValue
    BY <2>1, <2>3
  <2>11. I.op = "invoke" => i = Len(h.code[c]) /\ Len(h.succ[c]) = 2
    BY <1>1, <2>1, <2>3, <2>5
  <2>12. ~NotDebug(I) \/ IsUnconditional(I) => I.def = NoValue
    BY <2>1, <2>3 DEF IsUnconditional
  <2> QED
    BY <2>6, <2>7, <2>8, <2>9, <2>10, <2>11, <2>12 DEF I
<1>4. ASSUME NEW c \in g.blocks PROVE ~IsPhi(Last(h.code[c]))
  <2> DEFINE m == Len(h.code[c])
             n == Len(g.code[c])
  <2>1. m \in DOMAIN h.code[c] /\ Src(s, o, c, m) = n
    BY <1>2
  <2>2. ~IsPhi(g.code[c][n])
    BY <1>1 DEF WellFormed, Last
  <2>3. ~IsPhi(h.code[c][m])
    BY <2>1, <2>2, CameFrom
  <2> QED
    BY <2>3 DEF Last
<1>5. \A c \in g.blocks : IsSequence(h.succ[c])
  BY <1>1 DEF WellFormed
<1> QED
  BY <1>1, <1>2, <1>3, <1>4, <1>5, Zenon DEF WellFormed

\* No definition is added, and each keeps its place among the others.
LEMMA ForgetsDefs ==
  ASSUME NEW g, NEW h, NEW b, NEW s, NEW o, NEW q, NEW x, NEW w, Forgets(g, h, b, s, o, q, x, w)
  PROVE  SingleAssignment(h) /\ Defs(h) \subseteq Defs(g)
<1>1. SingleAssignment(g) /\ h.blocks = g.blocks
  BY ForgetsGraph DEF Forgets, Sound
<1>2. SingleAssignment(h)
  <2> SUFFICES ASSUME NEW a \in h.blocks, NEW c \in h.blocks,
                      NEW i \in DOMAIN h.code[a], NEW j \in DOMAIN h.code[c],
                      h.code[a][i].def = h.code[c][j].def, h.code[a][i].def # NoValue
               PROVE  a = c /\ i = j
    BY DEF SingleAssignment
  <2>1. /\ Src(s, o, a, i) \in DOMAIN g.code[a] /\ Src(s, o, c, j) \in DOMAIN g.code[c]
        /\ h.code[a][i].def = g.code[a][Src(s, o, a, i)].def
        /\ h.code[c][j].def = g.code[c][Src(s, o, c, j)].def
        /\ i \in Nat /\ j \in Nat
    BY <1>1, CameFrom
  <2>2. a = c /\ Src(s, o, a, i) = Src(s, o, c, j)
    BY <1>1, <2>1 DEF SingleAssignment
  <2>3. o \in {0, 1}
    BY DEF Forgets
  <2> QED
    BY <2>1, <2>2, <2>3 DEF Src
<1>3. Defs(h) \subseteq Defs(g)
  <2> SUFFICES ASSUME NEW c \in h.blocks, NEW i \in DOMAIN h.code[c], h.code[c][i].def # NoValue
               PROVE  h.code[c][i].def \in Defs(g)
    BY DEF Defs
  <2>1. /\ Src(s, o, c, i) \in DOMAIN g.code[c] /\ h.code[c][i].def = g.code[c][Src(s, o, c, i)].def
    BY <1>1, CameFrom
  <2> QED
    BY <1>1, <2>1 DEF Defs
<1> QED
  BY <1>2, <1>3
-----------------------------------------------------------------------------
(* The PHIs after b was forgotten.                                         *)

\* Where p stands in a list.
Places(s, p) == {k \in DOMAIN s : s[k] = p}

\* Leaving one element out leaves the number of the others as it was.
LEMMA DropCounts ==
  ASSUME NEW s, IsSequence(s), NEW q \in DOMAIN s, NEW t, Drop(s, q, t), NEW p, s[q] # p
  PROVE  Cardinality(Places(t, p)) = Cardinality(Places(s, p))
<1> DEFINE m == Len(t)
           n == Len(s)
           S == Places(s, p)
           T == Places(t, p)
           f == [k \in T |-> IF k < q THEN k ELSE k + 1]
<1>1. /\ m \in Nat /\ n \in Nat /\ m = n - 1 /\ DOMAIN t = 1 .. m /\ DOMAIN s = 1 .. n /\ q \in 1 .. n
      /\ \A k \in 1 .. m : t[k] = IF k < q THEN s[k] ELSE s[k + 1]
  BY DEF Drop, IsSequence
<1> HIDE DEF m, n
<1> USE DEF Places
<1>2. ASSUME NEW k \in T PROVE f[k] \in S
  BY <1>1
<1>3. ASSUME NEW k \in T, NEW l \in T, f[k] = f[l] PROVE k = l
  BY <1>1, <1>3
<1>4. ASSUME NEW k \in S PROVE \E l \in T : f[l] = k
  <2>1. k # q /\ k \in 1 .. n /\ s[k] = p
    BY <1>1
  <2>2. CASE k < q
    <3>1. k \in T
      BY <1>1, <2>1, <2>2
    <3> QED
      BY <2>2, <3>1
  <2>3. CASE ~(k < q)
    <3>1. k - 1 \in 1 .. m /\ ~(k - 1 < q) /\ (k - 1) + 1 = k
      BY <1>1, <2>1, <2>3
    <3>2. k - 1 \in T
      BY <1>1, <2>1, <3>1
    <3>3. f[k - 1] = k
      BY <3>1, <3>2
    <3> QED
      BY <3>2, <3>3
  <2> QED
    BY <2>2, <2>3
<1>5. IsFiniteSet(T)
  <2>1. 1 \in Int /\ m \in Int
    BY <1>1
  <2>2. IsFiniteSet(1 .. m)
    BY <2>1, FS_Interval
  <2> QED
    BY <1>1, <2>2, FS_Subset
<1>6. f \in Bijection(T, S)
  <2>1. f \in [T -> S]
    BY <1>2
  <2> HIDE DEF f, S, T
  <2>2. IsInjective(f)
    BY <1>3, <2>1 DEF IsInjective
  <2>3. f \in Surjection(T, S)
    BY <1>4, <2>1 DEF Surjection
  <2> QED
    BY <2>1, <2>2, <2>3 DEF Bijection, Injection
<1>7. ExistsBijection(T, S)
  BY <1>6 DEF ExistsBijection
<1> HIDE DEF S, T
<1>8. Cardinality(S) = Cardinality(T)
  BY <1>5, <1>7, FS_Bijection
<1> QED
  BY <1>8 DEF S, T

LEMMA ForgetsOrder ==
  ASSUME NEW g, NEW h, NEW b, NEW s, NEW o, NEW q, NEW x, NEW w, Forgets(g, h, b, s, o, q, x, w)
  PROVE  PhisComeFirst(h)
<1> SUFFICES ASSUME NEW c \in h.blocks, NEW i \in 2 .. Len(h.code[c]), IsPhi(h.code[c][i])
             PROVE  IsPhi(h.code[c][i - 1])
  BY DEF PhisComeFirst
<1>1. /\ c \in g.blocks /\ IsSequence(h.code[c]) /\ Sound(g) /\ Leaves(g, b, s) /\ PhisComeFirst(g)
      /\ IsSequence(g.code[c]) /\ Len(h.code[c]) = Len(g.code[c]) - (IF c = s THEN o ELSE 0)
  BY DEF Forgets, Edited, Sound, Verified, WellFormed
<1> DEFINE m == Len(h.code[c])
           n == Len(g.code[c])
<1>2. m \in Nat /\ n \in Nat /\ DOMAIN h.code[c] = 1 .. m
  BY <1>1 DEF IsSequence
<1>3. CASE c = s
  <2>1. i \in DOMAIN h.code[c]
    BY <1>2
  <2>2. Src(s, o, c, i) \in DOMAIN g.code[c] /\ IsPhi(g.code[c][Src(s, o, c, i)])
    BY <1>1, <2>1, CameFrom
  <2>3. Src(s, o, c, i) = 1
    BY <1>1, <1>3, <2>2, LeavesFacts
  <2>4. o \in {0, 1} /\ Src(s, o, c, i) = i + o
    BY <1>3 DEF Forgets, Src
  <2> QED
    BY <2>3, <2>4
<1>4. CASE c # s
  <2>1. m = n /\ Src(s, o, c, i) = i /\ Src(s, o, c, i - 1) = i - 1
    BY <1>1, <1>2, <1>4 DEF Src
  <2> HIDE DEF m, n
  <2>2. i \in DOMAIN h.code[c] /\ i - 1 \in DOMAIN h.code[c] /\ i \in 2 .. n
    BY <1>2, <2>1 DEF m, n
  <2>3. IsPhi(g.code[c][i])
    BY <1>1, <2>1, <2>2, CameFrom
  <2>4. IsPhi(g.code[c][i - 1])
    BY <1>1, <2>2, <2>3 DEF PhisComeFirst, n
  <2> QED
    BY <1>1, <2>1, <2>2, <2>4, CameFrom
<1> QED
  BY <1>3, <1>4

\* PHIs have an entry for each edge that does not come from b, and no other.
PhiMatchesBut(h, b, c, phi) ==
  /\ Range(phi.from) \subseteq h.blocks \ {b}
  /\ \A p \in h.blocks \ {b} :
       Cardinality(Places(phi.from, p)) = EdgesBetween(h, p, c)
  /\ \A k, m \in DOMAIN phi.from : phi.from[k] = phi.from[m] => phi.args[k] = phi.args[m]

PhisMatchBut(h, b) ==
  \A c \in h.blocks : \A i \in DOMAIN h.code[c] :
    IsPhi(h.code[c][i]) => PhiMatchesBut(h, b, c, h.code[c][i])

LEMMA ForgetsPhis ==
  ASSUME NEW g, NEW h, NEW b, NEW s, NEW o, NEW q, NEW x, NEW w, Forgets(g, h, b, s, o, q, x, w)
  PROVE  PhisMatchBut(h, b)
<1> SUFFICES ASSUME NEW c \in h.blocks, NEW i \in DOMAIN h.code[c], IsPhi(h.code[c][i])
             PROVE  PhiMatchesBut(h, b, c, h.code[c][i])
  BY DEF PhisMatchBut
<1> DEFINE e == Src(s, o, c, i)
           I == h.code[c][i]
           J == g.code[c][e]
           dr == Dropped(s, q, c, i)
<1>1. /\ Sound(g) /\ Leaves(g, b, s) /\ h.blocks = g.blocks /\ h.succ = g.succ /\ WellFormed(h)
      /\ c \in g.blocks
  BY ForgetsGraph, ForgetsForm DEF Forgets
<1>2. e \in DOMAIN g.code[c] /\ IsPhi(J)
  BY <1>1, CameFrom
<1>3. EditedInstruction(I, J, dr, q)
  BY <1>1 DEF Forgets, Edited
<1>4. /\ IsSequence(I.from) /\ IsSequence(I.args) /\ Len(I.from) = Len(I.args)
      /\ IsSequence(J.from) /\ IsSequence(J.args) /\ Len(J.from) = Len(J.args)
  BY <1>1, <1>2 DEF WellFormed, Sound
<1>5. DOMAIN I.from = DOMAIN I.args /\ DOMAIN J.from = DOMAIN J.args
  BY <1>4 DEF IsSequence
<1>6. ASSUME NEW k \in DOMAIN I.from
      PROVE  LET n == Slot(s, q, c, i, k) IN
             /\ n \in DOMAIN J.from /\ I.args[k] = Put(x, w, J.args[n])
             /\ I.from[k] = J.from[n] /\ I.from[k] # b
  <2>1. UseAt(h, I.args[k], c, i, k)
    BY <1>5 DEF UseAt, IsPhi, NotDebug
  <2>2. PICK n : \E y :
           /\ UseAt(g, y, c, e, n) /\ I.args[k] = Put(x, w, y)
           /\ n = Slot(s, q, c, i, k)
           /\ I.from[k] = J.from[n] /\ I.from[k] # b
    BY <2>1, UseCameFrom
  <2>3. PICK y :
           /\ UseAt(g, y, c, e, n) /\ I.args[k] = Put(x, w, y)
           /\ n = Slot(s, q, c, i, k)
           /\ I.from[k] = J.from[n] /\ I.from[k] # b
    BY <2>2
  <2> QED
    BY <1>5, <2>3 DEF UseAt
<1>7. /\ Range(J.from) \subseteq g.blocks
      /\ \A p \in g.blocks :
           Cardinality(Places(J.from, p)) = EdgesBetween(g, p, c)
      /\ \A k, m \in DOMAIN J.from : J.from[k] = J.from[m] => J.args[k] = J.args[m]
  <2>1. PhisMatchEdges(g)
    BY <1>1 DEF Sound, Verified
  <2> HIDE DEF e
  <2> QED
    BY <1>1, <1>2, <2>1 DEF PhisMatchEdges, Places
<1>8. dr => Drop(J.from, q, I.from) /\ q \in DOMAIN J.from /\ J.from[q] = b
  <2> SUFFICES ASSUME dr
               PROVE  Drop(J.from, q, I.from) /\ q \in DOMAIN J.from /\ J.from[q] = b
    OBVIOUS
  <2>1. c = s /\ i = 1 /\ q # 0 /\ o = 0 /\ q \in DOMAIN g.code[s][1].from /\ g.code[s][1].from[q] = b
    BY DEF Dropped, Forgets
  <2>2. e = 1
    BY <2>1 DEF Src
  <2> QED
    BY <1>3, <2>1, <2>2 DEF EditedInstruction
<1>9. ~dr => I.from = J.from
  BY <1>3 DEF EditedInstruction
<1> HIDE DEF e, I, J, dr
<1>10. Range(I.from) \subseteq h.blocks \ {b}
  BY <1>1, <1>6, <1>7 DEF Range
<1>11. ASSUME NEW p \in h.blocks \ {b}
       PROVE  Cardinality(Places(I.from, p)) = EdgesBetween(h, p, c)
  <2>1. EdgesBetween(h, p, c) = EdgesBetween(g, p, c)
    BY <1>1 DEF EdgesBetween
  <2>2. Cardinality(Places(I.from, p)) = Cardinality(Places(J.from, p))
    <3>1. CASE dr
      <4>1. Drop(J.from, q, I.from) /\ q \in DOMAIN J.from /\ J.from[q] # p /\ IsSequence(J.from)
        BY <1>4, <1>8, <3>1
      <4> QED
        BY <4>1, DropCounts
    <3>2. CASE ~dr
      BY <1>9, <3>2
    <3> QED
      BY <3>1, <3>2
  <2> QED
    BY <1>1, <1>7, <2>1, <2>2
<1>12. ASSUME NEW k \in DOMAIN I.from, NEW m \in DOMAIN I.from, I.from[k] = I.from[m]
       PROVE  I.args[k] = I.args[m]
  BY <1>6, <1>7, <1>12
<1> QED
  BY <1>10, <1>11, <1>12 DEF PhiMatchesBut, I
-----------------------------------------------------------------------------
(* A merged block and the block that stands in for it.                     *)

\* Where the PHI of s reads a value of b from b, it reads a value of r from r.
OwnAgree(g, b, r, s) ==
  \A k, m \in DOMAIN g.code[s][1].from :
    /\ IsPhi(g.code[s][1]) /\ g.code[s][1].from[k] = b /\ g.code[s][1].from[m] = r
    /\ g.code[s][1].args[k] # NoValue /\ DefinedIn(g, b, g.code[s][1].args[k])
    => DefinedIn(g, r, g.code[s][1].args[m])

\* b was merged into r, or into a block that was merged into r.
Gone(g, b, r, s) ==
  /\ Leaves(g, b, s) /\ r \in g.blocks \ {b} /\ g.succ[r] = <<s>> /\ NoPhi(g, r)
  /\ OwnAgree(g, b, r, s)

\* What takes the place of a PHI is not a value of another merged block: its
\* stand-in would bring a value of its own.
LEMMA NotOfAMergedBlock ==
  ASSUME NEW g, NEW h, NEW b, NEW s, NEW o, NEW q, NEW x, NEW w,
         Forgets(g, h, b, s, o, q, x, w), x # w, w # NoValue,
         NEW a, NEW r, NEW t, Gone(g, a, r, t), a # b, r # b
  PROVE  ~DefinedIn(g, a, w)
<1> SUFFICES ASSUME DefinedIn(g, a, w) PROVE FALSE
  OBVIOUS
<1> DEFINE phi == g.code[s][1]
<1>1. /\ Sound(g) /\ Leaves(g, b, s) /\ Collapses(g, b, s, w) /\ IsPhi(phi)
      /\ SingleAssignment(g) /\ WellFormed(g) /\ PhisMatchEdges(g) /\ Poison \notin Defs(g)
  BY DEF Forgets, Collapses, Sound, Verified
<1>2. /\ Leaves(g, a, t) /\ r \in g.blocks /\ r # a /\ g.succ[r] = <<t>> /\ NoPhi(g, r)
      /\ OwnAgree(g, a, r, t) /\ a \in g.blocks /\ g.succ[a] = <<t>> /\ NoPhi(g, a)
      /\ ReadOnTheWayOut(g, a)
  BY DEF Gone, Leaves
<1>3. /\ s \in g.blocks /\ 1 \in DOMAIN g.code[s] /\ NotDebug(phi) /\ phi.def # NoValue
      /\ DOMAIN phi.from = DOMAIN phi.args
  BY <1>1, LeavesFacts DEF Leaves
<1>4. PICK i \in DOMAIN g.code[a] : g.code[a][i].def = w
  BY DEF DefinedIn
<1>5. w \in Defs(g)
  BY <1>2, <1>4 DEF Defs
<1>6. PICK m \in DOMAIN phi.from : phi.from[m] # b /\ phi.args[m] = w
  BY <1>1, <1>5 DEF Collapses
<1>7. <<s, 1, m>> \in Uses(g, w)
  <2>1. UseAt(g, w, s, 1, m)
    BY <1>3, <1>6 DEF UseAt
  <2> QED
    BY <2>1, UseIsUse
<1>8. s # a
  BY <1>1, <1>2, <1>3 DEF NoPhi
<1>9. phi.from[m] = a
  BY <1>2, <1>4, <1>7, <1>8 DEF ReadOnTheWayOut
<1>10. s = t
  <2>1. s \in Range(g.succ[a])
    BY <1>1, <1>2, <1>3, <1>6, <1>9, EntryForEdge
  <2> QED
    BY <1>2, <2>1 DEF Range
<1>11. PICK n \in DOMAIN phi.from : phi.from[n] = r
  <2>1. s \in Range(g.succ[r])
    BY <1>2, <1>10 DEF Range
  <2> QED
    BY <1>1, <1>2, <1>3, <2>1, EntryForEdge
<1>12. DefinedIn(g, r, phi.args[n])
  BY <1>1, <1>2, <1>6, <1>9, <1>10, <1>11 DEF OwnAgree
<1>13. phi.args[n] \in {w, phi.def}
  BY <1>1, <1>11 DEF Collapses
<1>14. PICK j \in DOMAIN g.code[r] : g.code[r][j].def = phi.args[n]
  BY <1>12 DEF DefinedIn
<1>15. CASE phi.args[n] = w
  BY <1>1, <1>2, <1>4, <1>14, <1>15 DEF SingleAssignment
<1>16. CASE phi.args[n] = phi.def
  <2>1. r = s
    BY <1>1, <1>2, <1>3, <1>14, <1>16 DEF SingleAssignment
  <2> QED
    BY <1>1, <1>2, <1>3, <2>1 DEF NoPhi
<1> QED
  BY <1>13, <1>15, <1>16

\* Nor is it a value of b: the others do not read those.
LEMMA NotOfTheErasedBlock ==
  ASSUME NEW g, NEW h, NEW b, NEW s, NEW o, NEW q, NEW x, NEW w,
         Forgets(g, h, b, s, o, q, x, w), x # w, w # NoValue
  PROVE  ~DefinedIn(g, b, w)
<1> SUFFICES ASSUME DefinedIn(g, b, w) PROVE FALSE
  OBVIOUS
<1> DEFINE phi == g.code[s][1]
<1>1. /\ Sound(g) /\ Leaves(g, b, s) /\ Collapses(g, b, s, w)
      /\ Poison \notin Defs(g) /\ b \in g.blocks /\ ReadOnTheWayOut(g, b)
  BY DEF Forgets, Collapses, Sound, Leaves
<1>2. /\ s \in g.blocks /\ s # b /\ 1 \in DOMAIN g.code[s]
      /\ IsPhi(phi) => NotDebug(phi) /\ DOMAIN phi.from = DOMAIN phi.args
  BY <1>1, LeavesFacts DEF Leaves
<1>3. PICK i \in DOMAIN g.code[b] : g.code[b][i].def = w
  BY DEF DefinedIn
<1>4. w \in Defs(g)
  BY <1>1, <1>3 DEF Defs
<1>5. PICK m \in DOMAIN phi.from : phi.from[m] # b /\ phi.args[m] = w
  BY <1>1, <1>4 DEF Collapses
<1>6. UseAt(g, w, s, 1, m)
  BY <1>1, <1>2, <1>5 DEF UseAt, Collapses
<1>7. <<s, 1, m>> \in Uses(g, w)
  BY <1>6, UseIsUse
<1> QED
  BY <1>1, <1>2, <1>3, <1>5, <1>7 DEF ReadOnTheWayOut

\* So values that leave their block with it still do.
LEMMA StillOnTheWayOut ==
  ASSUME NEW g, NEW h, NEW b, NEW s, NEW o, NEW q, NEW x, NEW w,
         Forgets(g, h, b, s, o, q, x, w), NEW a \in g.blocks, ReadOnTheWayOut(g, a),
         x # w /\ w # NoValue => ~DefinedIn(g, a, w)
  PROVE  ReadOnTheWayOut(h, a)
<1> SUFFICES ASSUME NEW i \in DOMAIN h.code[a], h.code[a][i].def # NoValue,
                    NEW u \in Uses(h, h.code[a][i].def)
             PROVE  u[1] = a \/ (IsPhi(h.code[u[1]][u[2]]) /\ h.code[u[1]][u[2]].from[u[3]] = a)
  BY DEF ReadOnTheWayOut
<1> DEFINE v == h.code[a][i].def
<1>1. PICK c, j, k : u = <<c, j, k>> /\ UseAt(h, v, c, j, k)
  BY UsesAre
<1> DEFINE e == Src(s, o, c, j)
<1>2. PICK n : \E y :
           /\ UseAt(g, y, c, e, n) /\ v = Put(x, w, y)
           /\ IsPhi(h.code[c][j]) => h.code[c][j].from[k] = g.code[c][e].from[n]
  BY <1>1, UseCameFrom
<1>3. PICK y :
           /\ UseAt(g, y, c, e, n) /\ v = Put(x, w, y)
           /\ IsPhi(h.code[c][j]) => h.code[c][j].from[k] = g.code[c][e].from[n]
  BY <1>2
<1>4. c \in g.blocks /\ j \in DOMAIN h.code[c]
  BY <1>1, ForgetsGraph DEF UseAt
<1>5. /\ Src(s, o, a, i) \in DOMAIN g.code[a] /\ v = g.code[a][Src(s, o, a, i)].def
      /\ IsPhi(h.code[c][j]) <=> IsPhi(g.code[c][e])
  BY <1>4, CameFrom
<1>6. DefinedIn(g, a, v)
  BY <1>5 DEF DefinedIn
<1>7. y = v
  BY <1>3, <1>6 DEF Put
<1>8. <<c, e, n>> \in Uses(g, v)
  BY <1>3, <1>7, UseIsUse
<1>9. c = a \/ (IsPhi(g.code[c][e]) /\ g.code[c][e].from[n] = a)
  <2> DEFINE z == Src(s, o, a, i)
  <2>1. z \in DOMAIN g.code[a] /\ g.code[a][z].def = v /\ g.code[a][z].def # NoValue
    BY <1>5
  <2> HIDE DEF z, v, e
  <2>2. <<c, e, n>> \in Uses(g, g.code[a][z].def)
    BY <1>8, <2>1
  <2>3. \A y1 \in Uses(g, g.code[a][z].def) :
          y1[1] = a \/ (IsPhi(g.code[y1[1]][y1[2]]) /\ g.code[y1[1]][y1[2]].from[y1[3]] = a)
    BY <2>1 DEF ReadOnTheWayOut
  <2> QED
    BY <2>2, <2>3
<1> QED
  BY <1>1, <1>3, <1>5, <1>9

\* The blocks and their PHIs keep their shape.
LEMMA ForgetsShapes ==
  ASSUME NEW g, NEW h, NEW b, NEW s, NEW o, NEW q, NEW x, NEW w,
         Forgets(g, h, b, s, o, q, x, w), NEW a \in g.blocks
  PROVE  /\ NoPhi(g, a) => NoPhi(h, a)
         /\ OnePhi(g, a) => OnePhi(h, a)
         /\ \A v : DefinedIn(h, a, v) => DefinedIn(g, a, v)
         /\ \A v : NoPhi(g, a) /\ DefinedIn(g, a, v) => DefinedIn(h, a, v)
<1>1. NoPhi(g, a) => NoPhi(h, a)
  BY CameFrom DEF NoPhi
<1>2. OnePhi(g, a) => OnePhi(h, a)
  <2> SUFFICES ASSUME OnePhi(g, a), NEW j \in DOMAIN h.code[a], IsPhi(h.code[a][j])
               PROVE  j = 1
    BY DEF OnePhi
  <2>1. Src(s, o, a, j) = 1 /\ j \in Nat /\ j >= 1
    BY CameFrom DEF OnePhi
  <2>2. o \in {0, 1}
    BY DEF Forgets
  <2> QED
    BY <2>1, <2>2 DEF Src
<1>3. ASSUME NEW v, DefinedIn(h, a, v) PROVE DefinedIn(g, a, v)
  BY <1>3, CameFrom DEF DefinedIn
<1>4. ASSUME NEW v, NoPhi(g, a), DefinedIn(g, a, v) PROVE DefinedIn(h, a, v)
  <2>1. PICK i \in DOMAIN g.code[a] : g.code[a][i].def = v
    BY <1>4 DEF DefinedIn
  <2>2. IsSequence(g.code[a]) /\ IsSequence(h.code[a])
    BY DEF Forgets, Edited, Sound, WellFormed
  <2>3. a = s => o = 0
    <3>1. ~(1 \in DOMAIN g.code[a] /\ IsPhi(g.code[a][1]))
      BY <1>4 DEF NoPhi
    <3>2. 1 \in DOMAIN g.code[s]
      BY LeavesFacts DEF Forgets
    <3> QED
      BY <3>1, <3>2 DEF Forgets
  <2>4. i \in DOMAIN h.code[a] /\ i \in Nat
    <3> DEFINE m == Len(h.code[a])
               n == Len(g.code[a])
    <3>1. DOMAIN h.code[a] = 1 .. m /\ DOMAIN g.code[a] = 1 .. n /\ m \in Nat /\ n \in Nat
      BY <2>2 DEF IsSequence
    <3>2. m = n - (IF a = s THEN o ELSE 0)
      BY DEF Forgets, Edited
    <3> HIDE DEF m, n
    <3>3. m = n
      BY <2>3, <3>1, <3>2
    <3> QED
      BY <2>1, <3>1, <3>3
  <2>5. Src(s, o, a, i) = i
    BY <2>3, <2>4 DEF Src
  <2> QED
    BY <2>1, <2>4, <2>5, CameFrom DEF DefinedIn
<1> QED
  BY <1>1, <1>2, <1>3, <1>4

\* A merged block and its stand-in still agree in what they bring.
LEMMA ForgetsAgree ==
  ASSUME NEW g, NEW h, NEW b, NEW s, NEW o, NEW q, NEW x, NEW w,
         Forgets(g, h, b, s, o, q, x, w),
         NEW a, NEW r, NEW t, Gone(g, a, r, t), a # b, r # b
  PROVE  OwnAgree(h, a, r, t)
<1> SUFFICES ASSUME NEW k \in DOMAIN h.code[t][1].from, NEW m \in DOMAIN h.code[t][1].from,
                    IsPhi(h.code[t][1]), h.code[t][1].from[k] = a, h.code[t][1].from[m] = r,
                    h.code[t][1].args[k] # NoValue, DefinedIn(h, a, h.code[t][1].args[k])
             PROVE  DefinedIn(h, r, h.code[t][1].args[m])
  BY DEF OwnAgree
<1> DEFINE I == h.code[t][1]
           J == g.code[t][1]
<1>1. /\ Leaves(g, a, t) /\ a \in g.blocks /\ t \in g.blocks /\ OnePhi(g, t)
      /\ r \in g.blocks /\ NoPhi(g, r) /\ OwnAgree(g, a, r, t) /\ Sound(g) /\ Leaves(g, b, s)
      /\ h.blocks = g.blocks /\ WellFormed(h) /\ SingleAssignment(g)
  BY ForgetsGraph, ForgetsForm DEF Gone, Leaves, Forgets, Sound
<1>2. 1 \in DOMAIN h.code[t]
  <2>1. h.code[t] # <<>> /\ IsSequence(h.code[t])
    BY <1>1 DEF WellFormed
  <2> QED
    BY <2>1 DEF IsSequence
<1>3. Src(s, o, t, 1) = 1 /\ IsPhi(J)
  <2>1. Src(s, o, t, 1) \in DOMAIN g.code[t] /\ IsPhi(g.code[t][Src(s, o, t, 1)])
    BY <1>1, <1>2, CameFrom
  <2> QED
    BY <1>1, <2>1 DEF OnePhi
<1>4. DOMAIN I.from = DOMAIN I.args
  <2>1. IsSequence(I.from) /\ IsSequence(I.args) /\ Len(I.from) = Len(I.args)
    BY <1>1, <1>2 DEF WellFormed
  <2> QED
    BY <2>1 DEF IsSequence
<1>5. ASSUME NEW l \in DOMAIN I.from
      PROVE  \E n \in DOMAIN J.from : J.from[n] = I.from[l] /\ I.args[l] = Put(x, w, J.args[n])
  <2>1. UseAt(h, I.args[l], t, 1, l)
    BY <1>1, <1>2, <1>4 DEF UseAt, IsPhi, NotDebug
  <2>2. PICK n : \E y :
           /\ UseAt(g, y, t, 1, n) /\ I.args[l] = Put(x, w, y) /\ I.from[l] = J.from[n]
    BY <1>3, <2>1, UseCameFrom
  <2>3. n \in DOMAIN J.args /\ I.args[l] = Put(x, w, J.args[n]) /\ I.from[l] = J.from[n]
    BY <2>2 DEF UseAt
  <2>4. DOMAIN J.from = DOMAIN J.args
    <3>1. 1 \in DOMAIN g.code[t]
      BY <1>1, <1>2, <1>3, CameFrom
    <3> QED
      BY <1>1, <1>3, <3>1, EntryForEdge DEF Sound, Verified
  <2> QED
    BY <2>3, <2>4
<1>6. PICK n \in DOMAIN J.from : J.from[n] = a /\ I.args[k] = Put(x, w, J.args[n])
  BY <1>5
<1>7. PICK l \in DOMAIN J.from : J.from[l] = r /\ I.args[m] = Put(x, w, J.args[l])
  BY <1>5
<1>8. DefinedIn(g, a, I.args[k])
  BY <1>1, ForgetsShapes
<1>9. J.args[n] = I.args[k]
  <2>1. ~(x # w /\ I.args[k] = w)
    BY <1>8, NotOfAMergedBlock
  <2> QED
    BY <1>6, <2>1 DEF Put
<1>10. DefinedIn(g, r, J.args[l])
  BY <1>1, <1>3, <1>6, <1>7, <1>8, <1>9 DEF OwnAgree
<1>11. x # w => J.args[l] # x
  <2> SUFFICES ASSUME x # w, J.args[l] = x PROVE FALSE
    OBVIOUS
  <2>1. x = g.code[s][1].def /\ IsPhi(g.code[s][1])
    BY DEF Forgets, Collapses
  <2>2. 1 \in DOMAIN g.code[s] /\ x # NoValue /\ s \in g.blocks
    BY <1>1, <2>1, LeavesFacts DEF Leaves
  <2>3. PICK j \in DOMAIN g.code[r] : g.code[r][j].def = x
    BY <1>10 DEF DefinedIn
  <2>4. r = s
    BY <1>1, <2>1, <2>2, <2>3 DEF SingleAssignment
  <2> QED
    BY <1>1, <2>1, <2>2, <2>4 DEF NoPhi
<1>12. I.args[m] = J.args[l]
  BY <1>7, <1>11 DEF Put
<1> QED
  BY <1>1, <1>10, <1>12, ForgetsShapes

LEMMA ForgetsOthers ==
  ASSUME NEW g, NEW h, NEW b, NEW s, NEW o, NEW q, NEW x, NEW w,
         Forgets(g, h, b, s, o, q, x, w),
         NEW a, NEW r, NEW t, Gone(g, a, r, t), a # b, r # b
  PROVE  Gone(h, a, r, t)
<1>1. /\ Leaves(g, a, t) /\ a \in g.blocks /\ t \in g.blocks
      /\ r \in g.blocks /\ NoPhi(g, r) /\ ReadOnTheWayOut(g, a)
      /\ h.blocks = g.blocks /\ h.succ = g.succ /\ h.entry = g.entry
  BY ForgetsGraph DEF Gone, Leaves, SameGraph
<1>2. ReadOnTheWayOut(h, a)
  BY <1>1, NotOfAMergedBlock, StillOnTheWayOut
<1>3. NoPhi(h, a) /\ NoPhi(h, r) /\ OnePhi(h, t)
  BY <1>1, ForgetsShapes DEF Leaves
<1>4. OwnAgree(h, a, r, t)
  BY ForgetsAgree
<1> QED
  BY <1>1, <1>2, <1>3, <1>4 DEF Gone, Leaves
-----------------------------------------------------------------------------
(* Block b is erased; nothing reads its values any more.                   *)

ValuesOf(g, b) == {g.code[b][i].def : i \in DOMAIN g.code[b]} \ {NoValue}

PoisonedInstruction(I, J, V) ==
  /\ I = [op |-> J.op, def |-> J.def, args |-> I.args, from |-> J.from]
  /\ IsSequence(I.args) /\ Len(I.args) = Len(J.args)
  /\ \A k \in DOMAIN I.args : I.args[k] = IF J.args[k] \in V THEN Poison ELSE J.args[k]

LEMMA PoisonedFields ==
  ASSUME NEW I, NEW J, NEW V, PoisonedInstruction(I, J, V)
  PROVE  /\ I.op = J.op /\ I.def = J.def /\ I.from = J.from
         /\ I = [op |-> I.op, def |-> I.def, args |-> I.args, from |-> I.from]
         /\ IsSequence(I.args) /\ Len(I.args) = Len(J.args)
BY DEF PoisonedInstruction

LEMMA NothingToPoison ==
  ASSUME NEW I, NEW J, NEW V, PoisonedInstruction(I, J, V), IsSequence(J.args),
         \A k \in DOMAIN J.args : J.args[k] \notin V
  PROVE  I.args = J.args
<1>1. DOMAIN I.args = 1 .. Len(I.args) /\ DOMAIN J.args = 1 .. Len(J.args) /\ Len(I.args) = Len(J.args)
  BY DEF PoisonedInstruction, IsSequence
<1>2. \A k \in DOMAIN I.args : I.args[k] = J.args[k]
  BY <1>1 DEF PoisonedInstruction
<1>3. I.args = [k \in DOMAIN I.args |-> I.args[k]] /\ J.args = [k \in DOMAIN J.args |-> J.args[k]]
  BY DEF PoisonedInstruction, IsSequence
<1> QED
  BY <1>1, <1>2, <1>3

Erases(g, h, b) ==
  /\ IsRecord(g) /\ ControlFlowGraph(g) /\ WellFormed(g) /\ SingleAssignment(g)
  /\ EdgesStayInside(g) /\ PhisComeFirst(g) /\ DefsDominateUses(g) /\ PoisonFree(g)
  /\ PhisMatchBut(g, b) /\ Poison \notin Defs(g)
  /\ b \in g.blocks \ {g.entry} /\ \A c \in g.blocks : b \notin Range(g.succ[c])
  /\ ReadOnTheWayOut(g, b)
  /\ IsRecord(h) /\ h.entry = g.entry /\ h.blocks = g.blocks \ {b} /\ h.succ = g.succ
  /\ \A c \in h.blocks :
       /\ IsSequence(h.code[c]) /\ Len(h.code[c]) = Len(g.code[c])
       /\ \A i \in DOMAIN h.code[c] :
            PoisonedInstruction(h.code[c][i], g.code[c][i], ValuesOf(g, b))

\* What is no debug intrinsic does not change.
LEMMA ErasesLeaves ==
  ASSUME NEW g, NEW h, NEW b, Erases(g, h, b), NEW c \in h.blocks
  PROVE  /\ DOMAIN h.code[c] = DOMAIN g.code[c] /\ Len(h.code[c]) = Len(g.code[c])
         /\ \A i \in DOMAIN g.code[c] :
              /\ h.code[c][i].op = g.code[c][i].op /\ h.code[c][i].def = g.code[c][i].def
              /\ h.code[c][i].from = g.code[c][i].from
              /\ NotDebug(g.code[c][i]) => h.code[c][i].args = g.code[c][i].args
<1>1. /\ IsSequence(h.code[c]) /\ Len(h.code[c]) = Len(g.code[c]) /\ IsSequence(g.code[c])
      /\ c \in g.blocks /\ c # b /\ b \in g.blocks
  BY DEF Erases, WellFormed
<1>2. DOMAIN h.code[c] = DOMAIN g.code[c]
  BY <1>1 DEF IsSequence
<1>3. ASSUME NEW i \in DOMAIN g.code[c]
      PROVE  /\ h.code[c][i].op = g.code[c][i].op /\ h.code[c][i].def = g.code[c][i].def
             /\ h.code[c][i].from = g.code[c][i].from
             /\ NotDebug(g.code[c][i]) => h.code[c][i].args = g.code[c][i].args
  <2> DEFINE I == h.code[c][i]
             J == g.code[c][i]
             V == ValuesOf(g, b)
  <2>1. PoisonedInstruction(I, J, V)
    BY <1>2 DEF Erases
  <2>2. IsSequence(J.args) /\ IsSequence(J.from) /\ (IsPhi(J) => Len(J.from) = Len(J.args))
    BY <1>1 DEF Erases, WellFormed
  <2>3. ASSUME NotDebug(J), NEW k \in DOMAIN J.args, J.args[k] \in V PROVE FALSE
    <3>1. PICK n \in DOMAIN g.code[b] : g.code[b][n].def = J.args[k] /\ J.args[k] # NoValue
      BY <2>3 DEF ValuesOf
    <3>2. UseAt(g, J.args[k], c, i, k)
      BY <1>1, <2>3 DEF UseAt
    <3>3. <<c, i, k>> \in Uses(g, J.args[k])
      BY <3>1, <3>2, UseIsUse
    <3>4. IsPhi(J) /\ J.from[k] = b
      <4>1. g.code[b][n].def # NoValue /\ <<c, i, k>> \in Uses(g, g.code[b][n].def) /\ ReadOnTheWayOut(g, b)
        BY <3>1, <3>3 DEF Erases
      <4>2. c = b \/ (IsPhi(J) /\ J.from[k] = b)
        <5> HIDE DEF V
        <5> QED BY <4>1 DEF ReadOnTheWayOut
      <4> QED BY <1>1, <4>2
    <3>5. k \in DOMAIN J.from
      BY <2>2, <3>4 DEF IsSequence
    <3>6. PhiMatchesBut(g, b, c, J)
      BY <1>1, <3>4 DEF Erases, PhisMatchBut
    <3> QED
      BY <3>4, <3>5, <3>6 DEF PhiMatchesBut, Range
  <2> HIDE DEF I, J, V
  <2>4. NotDebug(J) => I.args = J.args
    BY <2>1, <2>2, <2>3, NothingToPoison
  <2>5. I.op = J.op /\ I.def = J.def /\ I.from = J.from
    BY <2>1, PoisonedFields
  <2> QED
    BY <2>4, <2>5 DEF I, J
<1> QED
  BY <1>1, <1>2, <1>3

LEMMA ErasesUses ==
  ASSUME NEW g, NEW h, NEW b, Erases(g, h, b), NEW v, NEW c, NEW j, NEW k, UseAt(h, v, c, j, k)
  PROVE  /\ UseAt(g, v, c, j, k) /\ c \in h.blocks
         /\ IsPhi(h.code[c][j]) <=> IsPhi(g.code[c][j])
         /\ h.code[c][j].from = g.code[c][j].from
<1>1. c \in h.blocks /\ j \in DOMAIN h.code[c] /\ NotDebug(h.code[c][j]) /\ c \in g.blocks
  BY DEF UseAt, Erases
<1>2. /\ j \in DOMAIN g.code[c] /\ h.code[c][j].op = g.code[c][j].op
      /\ h.code[c][j].from = g.code[c][j].from
      /\ NotDebug(g.code[c][j]) => h.code[c][j].args = g.code[c][j].args
  BY <1>1, ErasesLeaves
<1> QED
  BY <1>1, <1>2 DEF UseAt, IsPhi, NotDebug

LEMMA ErasesGraph ==
  ASSUME NEW g, NEW h, NEW b, Erases(g, h, b)
  PROVE  /\ SameGraph(g, h) /\ ControlFlowGraph(h) /\ Reachable(h) = Reachable(g)
         /\ EdgesStayInside(h)
<1>1. /\ IsRecord(g) /\ ControlFlowGraph(g) /\ IsRecord(h) /\ h.entry = g.entry
      /\ h.blocks = g.blocks \ {b} /\ h.succ = g.succ /\ h.entry # b
      /\ \A c \in g.blocks : b \notin Range(g.succ[c])
      /\ EdgesStayInside(g)
  BY DEF Erases
<1>2. IsFiniteSet(h.blocks)
  BY <1>1, FS_Subset DEF ControlFlowGraph
<1>3. ControlFlowGraph(h)
  BY <1>1, <1>2 DEF ControlFlowGraph
<1>4. Reachable(h) = Reachable(g)
  BY <1>1, <1>3, SameReach DEF Reachable
<1>5. EdgesStayInside(h)
  BY <1>1, <1>3 DEF EdgesStayInside, ControlFlowGraph
<1> QED
  BY <1>1, <1>3, <1>4, <1>5 DEF SameGraph
LEMMA ErasesForm ==
  ASSUME NEW g, NEW h, NEW b, Erases(g, h, b)
  PROVE  WellFormed(h) /\ SingleAssignment(h) /\ Poison \notin Defs(h) /\ PhisComeFirst(h)
<1>1. /\ WellFormed(g) /\ SingleAssignment(g) /\ Poison \notin Defs(g) /\ PhisComeFirst(g)
      /\ h.blocks \subseteq g.blocks /\ h.succ = g.succ
  BY DEF Erases
<1>2. ASSUME NEW c \in h.blocks
      PROVE  /\ c \in g.blocks
             /\ DOMAIN h.code[c] = DOMAIN g.code[c] /\ Len(h.code[c]) = Len(g.code[c])
             /\ IsSequence(g.code[c]) /\ IsSequence(h.code[c])
             /\ \A i \in DOMAIN g.code[c] :
                  h.code[c][i].op = g.code[c][i].op /\ h.code[c][i].def = g.code[c][i].def
  <2>1. c \in g.blocks /\ IsSequence(g.code[c]) /\ IsSequence(h.code[c])
    BY <1>1 DEF Erases, WellFormed
  <2> QED
    BY <2>1, ErasesLeaves
<1>3. WellFormed(h)
  <2>1. ASSUME NEW c \in h.blocks
        PROVE  /\ h.code[c] # <<>> /\ ~IsPhi(Last(h.code[c])) /\ IsSequence(h.code[c])
               /\ IsSequence(h.succ[c])
    <3> DEFINE n == Len(g.code[c])
    <3>1. g.code[c] # <<>> /\ ~IsPhi(g.code[c][n]) /\ IsSequence(g.succ[c])
      BY <1>1, <1>2 DEF WellFormed, Last
    <3>2. n \in DOMAIN g.code[c] /\ n = Len(h.code[c])
      BY <1>2, <3>1 DEF IsSequence
    <3> HIDE DEF n
    <3>3. h.code[c][n].op = g.code[c][n].op
      BY <1>2, <3>2
    <3>4. h.code[c] # <<>>
      BY <1>2, <3>2
    <3> QED
      BY <1>1, <1>2, <3>1, <3>2, <3>3, <3>4 DEF IsPhi, Last
  <2>2. ASSUME NEW c \in h.blocks, NEW i \in DOMAIN h.code[c]
        PROVE  LET I == h.code[c][i] IN
               /\ I = [op |-> I.op, def |-> I.def, args |-> I.args, from |-> I.from]
               /\ IsSequence(I.args) /\ IsSequence(I.from)
               /\ IsPhi(I) => Len(I.from) = Len(I.args) /\ I.def # NoValue
               /\ I.op = "invoke" => i = Len(h.code[c]) /\ Len(h.succ[c]) = 2
               /\ ~NotDebug(I) \/ IsUnconditional(I) => I.def = NoValue
               /\ IsUnconditional(I) => I.args = <<>>
    <3> DEFINE I == h.code[c][i]
               J == g.code[c][i]
               V == ValuesOf(g, b)
    <3>1. /\ IsSequence(J.args) /\ IsSequence(J.from)
          /\ IsPhi(J) => Len(J.from) = Len(J.args) /\ J.def # NoValue
          /\ J.op = "invoke" => i = Len(g.code[c]) /\ Len(g.succ[c]) = 2
          /\ ~NotDebug(J) \/ IsUnconditional(J) => J.def = NoValue
          /\ IsUnconditional(J) => J.args = <<>>
      <4>1. c \in g.blocks /\ i \in DOMAIN g.code[c]
        BY <1>2
      <4> HIDE DEF J
      <4> QED
        BY <1>1, <4>1 DEF WellFormed, J
    <3>2. PoisonedInstruction(I, J, V)
      BY DEF Erases
    <3>3. Len(h.code[c]) = Len(g.code[c]) /\ h.succ[c] = g.succ[c]
      BY <1>1, <1>2
    <3> HIDE DEF I, J, V
    <3>4. /\ I.op = J.op /\ I.def = J.def /\ I.from = J.from
          /\ I = [op |-> I.op, def |-> I.def, args |-> I.args, from |-> I.from]
          /\ IsSequence(I.args) /\ Len(I.args) = Len(J.args)
      BY <3>2, PoisonedFields
    <3>5. IsUnconditional(I) => I.args = <<>>
      <4> SUFFICES ASSUME IsUnconditional(I) PROVE I.args = <<>>
        OBVIOUS
      <4>1. Len(I.args) = 0
        BY <3>1, <3>4 DEF IsUnconditional
      <4> QED
        BY <3>4, <4>1 DEF IsSequence
    <3> QED
      BY <3>1, <3>3, <3>4, <3>5 DEF I, IsPhi, NotDebug, IsUnconditional
  <2> QED
    BY <2>1, <2>2, Zenon DEF WellFormed
<1>4. SingleAssignment(h)
  BY <1>1, <1>2 DEF SingleAssignment
<1>5. Poison \notin Defs(h)
  BY <1>1, <1>2 DEF Defs
<1>6. PhisComeFirst(h)
  <2> SUFFICES ASSUME NEW c \in h.blocks, NEW i \in 2 .. Len(h.code[c]), IsPhi(h.code[c][i])
               PROVE  IsPhi(h.code[c][i - 1])
    BY DEF PhisComeFirst
  <2> DEFINE n == Len(g.code[c])
  <2>1. n = Len(h.code[c]) /\ n \in Nat /\ DOMAIN g.code[c] = 1 .. n
    BY <1>2 DEF IsSequence
  <2> HIDE DEF n
  <2>2. i \in 2 .. n /\ i \in DOMAIN g.code[c] /\ i - 1 \in DOMAIN g.code[c]
    BY <2>1
  <2>3. IsPhi(g.code[c][i - 1])
    BY <1>1, <1>2, <2>2 DEF PhisComeFirst, IsPhi, n
  <2> QED
    BY <1>2, <2>2, <2>3 DEF IsPhi
<1> QED
  BY <1>3, <1>4, <1>5, <1>6

LEMMA ErasesPhis ==
  ASSUME NEW g, NEW h, NEW b, Erases(g, h, b)
  PROVE  PhisMatchEdges(h)
<1>1. h.blocks = g.blocks \ {b} /\ h.succ = g.succ /\ PhisMatchBut(g, b) /\ WellFormed(g)
  BY DEF Erases
<1> SUFFICES ASSUME NEW c \in h.blocks, NEW i \in DOMAIN h.code[c], IsPhi(h.code[c][i])
             PROVE  /\ Range(h.code[c][i].from) \subseteq h.blocks
                    /\ \A p \in h.blocks :
                         Cardinality(Places(h.code[c][i].from, p)) = EdgesBetween(h, p, c)
                    /\ \A k, m \in DOMAIN h.code[c][i].from :
                         h.code[c][i].from[k] = h.code[c][i].from[m]
                         => h.code[c][i].args[k] = h.code[c][i].args[m]
  BY Zenon DEF PhisMatchEdges, Places
<1>2. i \in DOMAIN g.code[c] /\ c \in g.blocks
  BY <1>1, ErasesLeaves
<1>3. IsPhi(g.code[c][i]) /\ NotDebug(g.code[c][i])
  BY <1>2, ErasesLeaves DEF IsPhi, NotDebug
<1>4. h.code[c][i].from = g.code[c][i].from /\ h.code[c][i].args = g.code[c][i].args
  BY <1>2, <1>3, ErasesLeaves
<1>5. PhiMatchesBut(g, b, c, g.code[c][i])
  BY <1>1, <1>2, <1>3 DEF PhisMatchBut
<1>6. \A p : EdgesBetween(h, p, c) = EdgesBetween(g, p, c)
  BY <1>1 DEF EdgesBetween
<1> QED
  BY <1>1, <1>4, <1>5, <1>6 DEF PhiMatchesBut

LEMMA ErasesReaches ==
  ASSUME NEW g, NEW h, NEW b, Erases(g, h, b),
         NEW a \in h.blocks, NEW i \in DOMAIN h.code[a], h.code[a][i].def # NoValue,
         NEW c \in Reachable(h), NEW j, NEW k, UseAt(h, h.code[a][i].def, c, j, k)
  PROVE  DefReachesUse(h, a, i, c, j, k)
<1>1. /\ SameGraph(g, h) /\ Reachable(h) = Reachable(g) /\ WellFormed(g) /\ a \in g.blocks
      /\ h.succ = g.succ /\ DefsDominateUses(g)
  BY ErasesGraph DEF Erases
<1>2. i \in DOMAIN g.code[a] /\ h.code[a][i].op = g.code[a][i].op /\ h.code[a][i].def = g.code[a][i].def
  BY ErasesLeaves
<1>3. /\ UseAt(g, g.code[a][i].def, c, j, k) /\ (IsPhi(h.code[c][j]) <=> IsPhi(g.code[c][j]))
      /\ h.code[c][j].from = g.code[c][j].from
  BY <1>2, ErasesUses
<1>4. <<c, j, k>> \in Uses(g, g.code[a][i].def)
  BY <1>2, <1>3, UseIsUse
<1>5. DefReachesUse(g, a, i, c, j, k)
  <2>1. i \in {n \in DOMAIN g.code[a] : g.code[a][n].def # NoValue}
    BY <1>2
  <2>2. \A u \in Uses(g, g.code[a][i].def) :
          u[1] \in Reachable(g) => DefReachesUse(g, a, i, u[1], u[2], u[3])
    BY <1>1, <2>1 DEF DefsDominateUses
  <2> QED
    BY <1>1, <1>4, <2>2
<1>6. \A z : AvailableIn(g, a, i, z) => AvailableIn(h, a, i, z)
  BY <1>1, <1>2, SameAvailable
<1>7. OnEdge(g, a, i, c) => OnEdge(h, a, i, c)
  BY <1>1, <1>2 DEF OnEdge
<1> QED
  BY <1>1, <1>3, <1>5, <1>6, <1>7 DEF DefReachesUse

\* The function is valid without b,
LEMMA ErasesSound ==
  ASSUME NEW g, NEW h, NEW b, Erases(g, h, b)
  PROVE  Sound(h)
<1>1. /\ WellFormed(h) /\ SingleAssignment(h) /\ Poison \notin Defs(h) /\ PhisComeFirst(h)
      /\ PhisMatchEdges(h) /\ EdgesStayInside(h) /\ ControlFlowGraph(h)
  BY ErasesForm, ErasesPhis, ErasesGraph
<1>2. DefsDominateUses(h)
  <2> SUFFICES ASSUME NEW a \in h.blocks, NEW i \in DOMAIN h.code[a], h.code[a][i].def # NoValue,
                      NEW u \in Uses(h, h.code[a][i].def), u[1] \in Reachable(h)
               PROVE  DefReachesUse(h, a, i, u[1], u[2], u[3])
    BY DEF DefsDominateUses
  <2>1. PICK c, j, k : u = <<c, j, k>> /\ UseAt(h, h.code[a][i].def, c, j, k)
    BY UsesAre
  <2> QED
    BY <2>1, ErasesReaches
<1>3. PoisonFree(h)
  <2>1. Poison # NoValue
    BY DEF Poison, NoValue
  <2> SUFFICES ASSUME NEW c \in Reachable(h), NEW j, NEW k, UseAt(h, Poison, c, j, k)
               PROVE  IsPhi(h.code[c][j]) /\ h.code[c][j].from[k] \notin Reachable(h)
    <3>1. \A u \in Uses(h, Poison) : \E c, j, k : u = <<c, j, k>> /\ UseAt(h, Poison, c, j, k)
      BY <2>1, UsesAre
    <3> QED
      BY <3>1 DEF PoisonFree
  <2>2. /\ UseAt(g, Poison, c, j, k) /\ (IsPhi(h.code[c][j]) <=> IsPhi(g.code[c][j]))
        /\ h.code[c][j].from = g.code[c][j].from
    BY ErasesUses
  <2>3. <<c, j, k>> \in Uses(g, Poison)
    BY <2>1, <2>2, UseIsUse
  <2>4. Reachable(h) = Reachable(g) /\ PoisonFree(g)
    BY ErasesGraph DEF Erases
  <2> QED
    BY <2>2, <2>3, <2>4 DEF PoisonFree
<1>4. IsRecord(h) /\ h.entry \in h.blocks
  BY <1>1 DEF Erases, ControlFlowGraph
<1> QED
  BY <1>1, <1>2, <1>3, <1>4 DEF Sound, Verified

\* and the other merged blocks are as they were.
LEMMA ErasesOthers ==
  ASSUME NEW g, NEW h, NEW b, Erases(g, h, b),
         NEW a, NEW r, NEW t, Gone(g, a, r, t), a # b, r # b
  PROVE  Gone(h, a, r, t)
<1>1. /\ h.blocks = g.blocks \ {b} /\ h.succ = g.succ /\ h.entry = g.entry
      /\ \A c \in g.blocks : b \notin Range(g.succ[c])
      /\ WellFormed(h)
  BY ErasesForm DEF Erases
<1>2. /\ a \in g.blocks \ {g.entry} /\ t \in g.blocks /\ g.succ[a] = <<t>>
      /\ \A c \in g.blocks : a \notin Range(g.succ[c])
      /\ NoPhi(g, a) /\ ReadOnTheWayOut(g, a) /\ OnePhi(g, t)
      /\ r \in g.blocks \ {a} /\ g.succ[r] = <<t>> /\ NoPhi(g, r) /\ OwnAgree(g, a, r, t)
  BY DEF Gone, Leaves
<1>3. t # b
  BY <1>1, <1>2 DEF Range
<1>4. a \in h.blocks /\ r \in h.blocks /\ t \in h.blocks
  BY <1>1, <1>2, <1>3
<1>5. \A c \in h.blocks :
        /\ DOMAIN h.code[c] = DOMAIN g.code[c]
        /\ \A i \in DOMAIN g.code[c] :
             h.code[c][i].op = g.code[c][i].op /\ h.code[c][i].def = g.code[c][i].def
  BY ErasesLeaves
<1>6. NoPhi(h, a) /\ NoPhi(h, r) /\ OnePhi(h, t)
  BY <1>2, <1>4, <1>5 DEF NoPhi, OnePhi, IsPhi
<1>7. \A v : /\ DefinedIn(h, a, v) <=> DefinedIn(g, a, v)
             /\ DefinedIn(h, r, v) <=> DefinedIn(g, r, v)
  BY <1>4, <1>5 DEF DefinedIn
<1>8. ReadOnTheWayOut(h, a)
  <2> SUFFICES ASSUME NEW i \in DOMAIN h.code[a], h.code[a][i].def # NoValue,
                      NEW u \in Uses(h, h.code[a][i].def)
               PROVE  u[1] = a \/ (IsPhi(h.code[u[1]][u[2]]) /\ h.code[u[1]][u[2]].from[u[3]] = a)
    BY DEF ReadOnTheWayOut
  <2> DEFINE v == h.code[a][i].def
  <2>1. PICK c, j, k : u = <<c, j, k>> /\ UseAt(h, v, c, j, k)
    BY UsesAre
  <2>2. /\ UseAt(g, v, c, j, k) /\ (IsPhi(h.code[c][j]) <=> IsPhi(g.code[c][j]))
        /\ h.code[c][j].from = g.code[c][j].from
    BY <2>1, ErasesUses
  <2>3. <<c, j, k>> \in Uses(g, v)
    BY <2>2, UseIsUse
  <2>4. i \in DOMAIN g.code[a] /\ g.code[a][i].def = v
    BY <1>4, <1>5
  <2> QED
    BY <1>2, <2>1, <2>2, <2>3, <2>4 DEF ReadOnTheWayOut
<1>9. OwnAgree(h, a, r, t)
  <2>1. 1 \in DOMAIN h.code[t]
    <3>1. h.code[t] # <<>> /\ IsSequence(h.code[t])
      BY <1>1, <1>4 DEF WellFormed
    <3> QED
      BY <3>1 DEF IsSequence
  <2>2. IsPhi(h.code[t][1]) => IsPhi(g.code[t][1]) /\ NotDebug(g.code[t][1])
    BY <1>4, <1>5, <2>1 DEF IsPhi, NotDebug
  <2>3. IsPhi(h.code[t][1]) =>
          h.code[t][1].from = g.code[t][1].from /\ h.code[t][1].args = g.code[t][1].args
    BY <1>4, <1>5, <2>1, <2>2, ErasesLeaves
  <2> QED
    BY <1>2, <1>7, <2>2, <2>3 DEF OwnAgree
<1> QED
  BY <1>1, <1>2, <1>4, <1>6, <1>8, <1>9 DEF Gone, Leaves
-----------------------------------------------------------------------------
(* What the helpers of DeleteDeadBlock do to the code.                     *)

\* A list element by element.
LEMMA Rebuilt ==
  ASSUME NEW s, IsSequence(s), NEW t, t = [i \in DOMAIN s |-> t[i]]
  PROVE  IsSequence(t) /\ Len(t) = Len(s) /\ DOMAIN t = DOMAIN s
<1> DEFINE n == Len(s)
<1>1. n \in Nat /\ DOMAIN s = 1 .. n
  BY DEF IsSequence
<1> HIDE DEF n
<1>2. DOMAIN t = 1 .. n
  BY <1>1
<1>3. t \in [1 .. n -> Range(t)]
  BY <1>1, <1>2 DEF Range
<1>4. t \in Seq(Range(t))
  BY <1>1, <1>3, SeqDef
<1>5. Len(t) = n
  BY <1>1, <1>2, <1>4
<1> QED
  BY <1>1, <1>2, <1>4, <1>5 DEF IsSequence, n

LEMMA OperandsSet ==
  ASSUME NEW o, NEW d, NEW a, NEW fr, NEW y
  PROVE  [[op |-> o, def |-> d, args |-> a, from |-> fr] EXCEPT !.args = y]
           = [op |-> o, def |-> d, args |-> y, from |-> fr]
OBVIOUS

IsInstruction(J) ==
  /\ J = [op |-> J.op, def |-> J.def, args |-> J.args, from |-> J.from]
  /\ IsSequence(J.args) /\ IsSequence(J.from)

\* replaceAllUsesWith on one instruction.
Replaced(J, x, w) == [J EXCEPT !.args = ReplaceAll(J.args, x, w)]

HasReplaced(I, J, x, w) == \A k \in DOMAIN I.args : I.args[k] = Put(x, w, J.args[k])

LEMMA OperandsReplaced ==
  ASSUME NEW J, IsInstruction(J), NEW x, NEW w, NEW q,
         NEW I, I = Replaced(J, x, w)
  PROVE  EditedInstruction(I, J, FALSE, q) /\ HasReplaced(I, J, x, w)
<1> USE DEF IsInstruction
<1> DEFINE y == ReplaceAll(J.args, x, w)
<1>1. I = [op |-> J.op, def |-> J.def, args |-> y, from |-> J.from]
  <2> HIDE DEF y
  <2>1. [[op |-> J.op, def |-> J.def, args |-> J.args, from |-> J.from] EXCEPT !.args = y]
          = [op |-> J.op, def |-> J.def, args |-> y, from |-> J.from]
    BY OperandsSet
  <2>2. I = [J EXCEPT !.args = y]
    BY DEF y, Replaced
  <2> QED
    BY <2>1, <2>2, Zenon
<1>2. y = [i \in DOMAIN J.args |-> IF J.args[i] = x THEN w ELSE J.args[i]]
  BY DEF ReplaceAll, IsSequence
<1> HIDE DEF y
<1>3. y = [i \in DOMAIN J.args |-> y[i]]
  BY <1>2
<1>4. IsSequence(y) /\ Len(y) = Len(J.args) /\ DOMAIN y = DOMAIN J.args
  BY <1>3, Rebuilt
<1>5. I.args = y /\ I.from = J.from
  BY <1>1
<1>6. \A k \in DOMAIN y : y[k] = Put(x, w, J.args[k])
  BY <1>2 DEF Put
<1>7. I = [op |-> J.op, def |-> J.def, args |-> I.args, from |-> I.from]
  BY <1>1, <1>5, Zenon
<1> QED
  BY <1>4, <1>5, <1>6, <1>7 DEF EditedInstruction, HasReplaced

\* PoisonDefs on the code of one block.
LEMMA PoisonedIs ==
  ASSUME NEW g, NEW c \in DOMAIN g.code, NEW b, IsSequence(g.code[c]),
         \A i \in DOMAIN g.code[c] :
           LET J == g.code[c][i] IN
           /\ J = [op |-> J.op, def |-> J.def, args |-> J.args, from |-> J.from]
           /\ IsSequence(J.args),
         NEW cd, cd = PoisonDefs(g.code, b)
  PROVE  /\ IsSequence(cd[c]) /\ Len(cd[c]) = Len(g.code[c])
         /\ \A i \in DOMAIN cd[c] : PoisonedInstruction(cd[c][i], g.code[c][i], ValuesOf(g, b))
<1> DEFINE V == ValuesOf(g, b)
           A(i) == [k \in DOMAIN g.code[c][i].args |->
                      IF g.code[c][i].args[k] \in V THEN Poison ELSE g.code[c][i].args[k]]
<1>1. cd[c] = [i \in DOMAIN g.code[c] |-> [g.code[c][i] EXCEPT !.args = A(i)]]
  BY DEF PoisonDefs, ValuesOf
<1> HIDE DEF V
<1>2. cd[c] = [i \in DOMAIN g.code[c] |-> cd[c][i]]
  <2> HIDE DEF A
  <2> QED
    BY <1>1
<1>3. IsSequence(cd[c]) /\ Len(cd[c]) = Len(g.code[c]) /\ DOMAIN cd[c] = DOMAIN g.code[c]
  BY <1>2, Rebuilt
<1>4. ASSUME NEW i \in DOMAIN g.code[c]
      PROVE  PoisonedInstruction(cd[c][i], g.code[c][i], V)
  <2> DEFINE I == cd[c][i]
             J == g.code[c][i]
             y == A(i)
  <2>1. I = [J EXCEPT !.args = y]
    <3> HIDE DEF A
    <3> QED
      BY <1>1
  <2>2. J = [op |-> J.op, def |-> J.def, args |-> J.args, from |-> J.from] /\ IsSequence(J.args)
    OBVIOUS
  <2>3. y = [k \in DOMAIN J.args |-> IF J.args[k] \in V THEN Poison ELSE J.args[k]]
    OBVIOUS
  <2> HIDE DEF y, A, I, J
  <2>4. [[op |-> J.op, def |-> J.def, args |-> J.args, from |-> J.from] EXCEPT !.args = y]
          = [op |-> J.op, def |-> J.def, args |-> y, from |-> J.from]
    BY OperandsSet
  <2>5. I = [op |-> J.op, def |-> J.def, args |-> y, from |-> J.from]
    BY <2>1, <2>2, <2>4, Zenon
  <2>6. I.args = y /\ I.from = J.from
    BY <2>5
  <2>7. I = [op |-> J.op, def |-> J.def, args |-> I.args, from |-> I.from]
    BY <2>5, <2>6, Zenon
  <2>8. y = [k \in DOMAIN J.args |-> y[k]]
    BY <2>3
  <2>9. IsSequence(y) /\ Len(y) = Len(J.args)
    BY <2>2, <2>8, Rebuilt
  <2>10. \A k \in DOMAIN y : y[k] = IF J.args[k] \in V THEN Poison ELSE J.args[k]
    BY <2>3
  <2>11. PoisonedInstruction(I, J, V)
    BY <2>6, <2>7, <2>9, <2>10 DEF PoisonedInstruction
  <2> QED
    BY <2>11 DEF I, J
<1> QED
  BY <1>3, <1>4 DEF V
\* The three things removePredecessor may do with the PHI of s.
Erased(g, h, b, s) ==
  /\ Sound(g) /\ Leaves(g, b, s)
  /\ IsRecord(h) /\ h.entry = g.entry /\ h.blocks = g.blocks /\ h.succ = g.succ

LEMMA WellFormedCode ==
  ASSUME NEW g, WellFormed(g), NEW c \in g.blocks
  PROVE  /\ IsSequence(g.code[c]) /\ DOMAIN g.code[c] = 1 .. Len(g.code[c]) /\ Len(g.code[c]) \in Nat
         /\ g.code[c] # <<>> /\ 1 \in DOMAIN g.code[c]
         /\ \A i \in DOMAIN g.code[c] :
              i \in Nat /\ IsInstruction(g.code[c][i])
<1>1. IsSequence(g.code[c]) /\ g.code[c] # <<>>
  BY DEF WellFormed
<1>2. DOMAIN g.code[c] = 1 .. Len(g.code[c]) /\ Len(g.code[c]) \in Nat /\ 1 \in DOMAIN g.code[c]
  BY <1>1 DEF IsSequence
<1>3. \A i \in DOMAIN g.code[c] : i \in Nat
  <2> DEFINE n == Len(g.code[c])
  <2>1. DOMAIN g.code[c] = 1 .. n /\ n \in Nat
    BY <1>2
  <2> HIDE DEF n
  <2> QED
    BY <2>1
<1>4. ASSUME NEW i \in DOMAIN g.code[c]
      PROVE  LET J == g.code[c][i] IN
             /\ J = [op |-> J.op, def |-> J.def, args |-> J.args, from |-> J.from]
             /\ IsSequence(J.args) /\ IsSequence(J.from)
  BY DEF WellFormed
<1> QED
  BY <1>1, <1>2, <1>3, <1>4 DEF IsInstruction

LEMMA Unedited ==
  ASSUME NEW J, IsInstruction(J), NEW q
  PROVE  EditedInstruction(J, J, FALSE, q)
BY DEF EditedInstruction, IsInstruction

EditedBlock(g, h, s, o, q, x, w, c) ==
  /\ IsSequence(h.code[c]) /\ Len(h.code[c]) = Len(g.code[c]) - (IF c = s THEN o ELSE 0)
  /\ \A j \in DOMAIN h.code[c] :
       /\ EditedInstruction(h.code[c][j], g.code[c][Src(s, o, c, j)], Dropped(s, q, c, j), q)
       /\ \A k \in DOMAIN h.code[c][j].args :
            h.code[c][j].args[k] = Put(x, w, g.code[c][Src(s, o, c, j)].args[Slot(s, q, c, j, k)])

LEMMA EditedBlockByBlock ==
  ASSUME NEW g, NEW h, NEW b, NEW s, NEW o, NEW q, NEW x, NEW w, Erased(g, h, b, s),
         \A c \in g.blocks : EditedBlock(g, h, s, o, q, x, w, c)
  PROVE  Edited(g, h, s, o, q, x, w)
BY DEF Edited, EditedBlock, Erased

LEMMA UneditedBlock ==
  ASSUME NEW g, WellFormed(g), NEW h, NEW s, NEW q, NEW x, NEW c \in g.blocks, c # s \/ q = 0,
         h.code[c] = g.code[c]
  PROVE  EditedBlock(g, h, s, 0, q, x, x, c)
<1>1. /\ IsSequence(g.code[c]) /\ Len(g.code[c]) \in Nat
      /\ \A i \in DOMAIN g.code[c] :
           i \in Nat /\ IsInstruction(g.code[c][i])
  BY WellFormedCode
<1>2. ASSUME NEW j \in DOMAIN g.code[c]
      PROVE  /\ Src(s, 0, c, j) = j /\ Dropped(s, q, c, j) = FALSE
             /\ \A k : Slot(s, q, c, j, k) = k
  BY <1>1 DEF Src, Dropped, Slot
<1>3. ASSUME NEW j \in DOMAIN g.code[c]
      PROVE  /\ EditedInstruction(g.code[c][j], g.code[c][j], FALSE, q)
             /\ \A k \in DOMAIN g.code[c][j].args :
                  g.code[c][j].args[k] = Put(x, x, g.code[c][j].args[k])
  BY <1>1, Unedited DEF Put
<1>4. ASSUME NEW j \in DOMAIN h.code[c]
      PROVE  /\ EditedInstruction(h.code[c][j], g.code[c][Src(s, 0, c, j)], Dropped(s, q, c, j), q)
             /\ \A k \in DOMAIN h.code[c][j].args :
                  h.code[c][j].args[k] = Put(x, x, g.code[c][Src(s, 0, c, j)].args[Slot(s, q, c, j, k)])
  <2>1. j \in DOMAIN g.code[c] /\ h.code[c][j] = g.code[c][j]
    OBVIOUS
  <2>2. /\ Src(s, 0, c, j) = j /\ Dropped(s, q, c, j) = FALSE
        /\ \A k : Slot(s, q, c, j, k) = k
    BY <1>2, <2>1
  <2>3. EditedInstruction(h.code[c][j], g.code[c][Src(s, 0, c, j)], Dropped(s, q, c, j), q)
    BY <1>3, <2>1, <2>2, Zenon
  <2>4. ASSUME NEW k \in DOMAIN h.code[c][j].args
        PROVE  h.code[c][j].args[k] = Put(x, x, g.code[c][Src(s, 0, c, j)].args[Slot(s, q, c, j, k)])
    BY <2>2, <2>1, <1>3
  <2> QED
    BY <2>3, <2>4
<1>5. Len(h.code[c]) = Len(g.code[c]) - (IF c = s THEN 0 ELSE 0)
  <2> DEFINE n == Len(g.code[c])
  <2>1. n \in Nat /\ Len(h.code[c]) = n
    BY <1>1
  <2> HIDE DEF n
  <2>2. n = n - (IF c = s THEN 0 ELSE 0)
    BY <2>1
  <2> QED
    BY <2>1, <2>2 DEF n
<1> QED
  BY <1>1, <1>4, <1>5 DEF EditedBlock

LEMMA NoPhiToForget ==
  ASSUME NEW g, NEW h, NEW b, NEW s, Erased(g, h, b, s), ~IsPhi(g.code[s][1]), h.code = g.code
  PROVE  Forgets(g, h, b, s, 0, 0, Poison, Poison)
<1>1. WellFormed(g)
  BY DEF Erased, Sound
<1>2. \A c \in g.blocks : EditedBlock(g, h, s, 0, 0, Poison, Poison, c)
  BY <1>1, UneditedBlock
<1>3. Edited(g, h, s, 0, 0, Poison, Poison)
  BY <1>2, EditedBlockByBlock
<1> QED
  BY <1>3 DEF Forgets, Erased

LEMMA TwoFieldsSet ==
  ASSUME NEW o, NEW d, NEW a, NEW fr, NEW y, NEW z
  PROVE  [[op |-> o, def |-> d, args |-> a, from |-> fr] EXCEPT !.args = y, !.from = z]
           = [op |-> o, def |-> d, args |-> y, from |-> z]
<1> DEFINE r == [op |-> o, def |-> d, args |-> a, from |-> fr]
           l == [r EXCEPT !.args = y, !.from = z]
           e == [op |-> o, def |-> d, args |-> y, from |-> z]
<1>1. l = [[r EXCEPT !.args = y] EXCEPT !.from = z]
  OBVIOUS
<1>2. [r EXCEPT !.args = y] = [op |-> o, def |-> d, args |-> y, from |-> fr]
  OBVIOUS
<1>3. [[op |-> o, def |-> d, args |-> y, from |-> fr] EXCEPT !.from = z] = e
  OBVIOUS
<1> QED
  BY <1>1, <1>2, <1>3

\* The PHI loses its entry.
Shortened(phi, k) == [phi EXCEPT !.args = RemoveAt(phi.args, k), !.from = RemoveAt(phi.from, k)]

HasShifted(I, J, q) == \A k \in DOMAIN I.args : I.args[k] = J.args[IF ~(k < q) THEN k + 1 ELSE k]

LEMMA ShortenedIs ==
  ASSUME NEW J, IsInstruction(J), Len(J.from) = Len(J.args),
         NEW q \in 1 .. Len(J.from), NEW I, I = Shortened(J, q)
  PROVE  /\ EditedInstruction(I, J, TRUE, q) /\ HasShifted(I, J, q)
         /\ I.op = J.op /\ I.def = J.def
         /\ Drop(J.args, q, I.args) /\ Drop(J.from, q, I.from)
<1> USE DEF IsInstruction
<1> DEFINE y == RemoveAt(J.args, q)
           z == RemoveAt(J.from, q)
<1>1. I = [J EXCEPT !.args = y, !.from = z]
  BY DEF Shortened
<1>2. Drop(J.args, q, y) /\ Drop(J.from, q, z)
  BY RemovedIs
<1> HIDE DEF y, z
<1>3. PICK o, d, a, fr : J = [op |-> o, def |-> d, args |-> a, from |-> fr] /\ o = J.op /\ d = J.def
  OBVIOUS
<1>4. I = [op |-> J.op, def |-> J.def, args |-> y, from |-> z]
  BY <1>1, <1>3, TwoFieldsSet
<1>5. I.args = y /\ I.from = z /\ I.op = J.op /\ I.def = J.def
  BY <1>4
<1>6. I = [op |-> J.op, def |-> J.def, args |-> I.args, from |-> I.from]
  BY <1>4, <1>5, Zenon
<1>7. Drop(J.args, q, I.args) /\ Drop(J.from, q, I.from)
  BY <1>2, <1>5
<1>8. EditedInstruction(I, J, TRUE, q)
  BY <1>6, <1>7 DEF EditedInstruction, Drop
<1>9. DOMAIN I.args = 1 .. Len(I.args)
  BY <1>7 DEF Drop, IsSequence
<1>10. HasShifted(I, J, q)
  BY <1>7, <1>9 DEF Drop, HasShifted
<1> QED
  BY <1>5, <1>7, <1>8, <1>10
LEMMA PhiLosesEntry ==
  ASSUME NEW g, NEW h, NEW b, NEW s, Erased(g, h, b, s), IsPhi(g.code[s][1]),
         NEW q \in DOMAIN g.code[s][1].from, g.code[s][1].from[q] = b, g.blocks \subseteq DOMAIN g.code,
         h.code = [g.code EXCEPT ![s] = [g.code[s] EXCEPT ![1] = Shortened(g.code[s][1], q)]]
  PROVE  Forgets(g, h, b, s, 0, q, Poison, Poison)
<1> DEFINE phi == g.code[s][1]
           new == Shortened(phi, q)
           u == [g.code[s] EXCEPT ![1] = new]
<1>1. /\ WellFormed(g) /\ s \in g.blocks /\ Sound(g) /\ Leaves(g, b, s)
  BY DEF Erased, Sound, Leaves
<1>2. h.code[s] = u /\ \A c \in g.blocks \ {s} : h.code[c] = g.code[c]
  <2> HIDE DEF u
  <2>1. h.code = [g.code EXCEPT ![s] = u]
    BY DEF u
  <2> QED
    BY <1>1, <2>1
<1>3. /\ IsSequence(g.code[s]) /\ 1 \in DOMAIN g.code[s] /\ Len(g.code[s]) \in Nat
      /\ \A i \in DOMAIN g.code[s] :
           i \in Nat /\ IsInstruction(g.code[s][i])
  BY <1>1, WellFormedCode
<1>4. Len(phi.from) = Len(phi.args) /\ q \in 1 .. Len(phi.from) /\ q # 0
  <2>1. IsSequence(phi.from)
    BY <1>3 DEF IsInstruction
  <2>2. q \in 1 .. Len(phi.from) /\ Len(phi.from) \in Nat
    BY <2>1 DEF IsSequence
  <2>3. q # 0
    BY <2>2
  <2> QED
    BY <1>1, <2>2, <2>3, LeavesFacts
<1>5. EditedInstruction(new, phi, TRUE, q) /\ HasShifted(new, phi, q)
  <2>1. IsInstruction(phi)
    BY <1>3
  <2> HIDE DEF phi
  <2> QED
    BY <1>4, <2>1, ShortenedIs
<1> HIDE DEF new
<1>6. /\ DOMAIN u = DOMAIN g.code[s] /\ u[1] = new
      /\ \A i \in DOMAIN g.code[s] \ {1} : u[i] = g.code[s][i]
      /\ u = [i \in DOMAIN g.code[s] |-> u[i]]
  BY <1>3
<1> HIDE DEF u
<1>7. IsSequence(u) /\ Len(u) = Len(g.code[s])
  BY <1>3, <1>6, Rebuilt
<1>8. EditedBlock(g, h, s, 0, q, Poison, Poison, s)
  <2>1. Len(h.code[s]) = Len(g.code[s]) - (IF s = s THEN 0 ELSE 0)
    <3> DEFINE n == Len(g.code[s])
    <3>1. n \in Nat /\ Len(h.code[s]) = n
      BY <1>2, <1>3, <1>7
    <3> HIDE DEF n
    <3>2. n = n - (IF s = s THEN 0 ELSE 0)
      BY <3>1
    <3> QED
      BY <3>1, <3>2 DEF n
  <2>2. ASSUME NEW j \in DOMAIN h.code[s]
        PROVE  /\ EditedInstruction(h.code[s][j], g.code[s][Src(s, 0, s, j)], Dropped(s, q, s, j), q)
               /\ \A k \in DOMAIN h.code[s][j].args :
                    h.code[s][j].args[k]
                      = Put(Poison, Poison, g.code[s][Src(s, 0, s, j)].args[Slot(s, q, s, j, k)])
    <3> DEFINE I == h.code[s][j]
               J == g.code[s][j]
    <3>1. j \in DOMAIN g.code[s] /\ j \in Nat /\ Src(s, 0, s, j) = j
      BY <1>2, <1>3, <1>6 DEF Src
    <3>2. CASE j = 1
      <4>1. Dropped(s, q, s, j) = TRUE /\ \A k : Slot(s, q, s, j, k) = IF ~(k < q) THEN k + 1 ELSE k
        BY <1>4, <3>2 DEF Dropped, Slot
      <4>2. I = new /\ J = phi
        BY <1>2, <1>6, <3>2
      <4> HIDE DEF I, J, phi
      <4>3. EditedInstruction(I, J, Dropped(s, q, s, j), q)
        BY <1>5, <4>1, <4>2, Zenon
      <4>4. \A k \in DOMAIN I.args : I.args[k] = Put(Poison, Poison, J.args[Slot(s, q, s, j, k)])
        BY <1>5, <4>1, <4>2 DEF Put, HasShifted
      <4> QED
        BY <3>1, <4>3, <4>4 DEF I, J
    <3>3. CASE j # 1
      <4>1. Dropped(s, q, s, j) = FALSE /\ \A k : Slot(s, q, s, j, k) = k
        BY <3>3 DEF Dropped, Slot
      <4>2. I = J
        BY <1>2, <1>6, <3>1, <3>3
      <4>3. EditedInstruction(J, J, FALSE, q)
        BY <1>3, <3>1, Unedited
      <4> HIDE DEF I, J
      <4>4. EditedInstruction(I, J, Dropped(s, q, s, j), q)
        BY <4>1, <4>2, <4>3, Zenon
      <4>5. \A k \in DOMAIN I.args : I.args[k] = Put(Poison, Poison, J.args[Slot(s, q, s, j, k)])
        BY <4>1, <4>2 DEF Put
      <4> QED
        BY <3>1, <4>4, <4>5 DEF I, J
    <3> QED
      BY <3>2, <3>3
  <2> QED
    BY <1>2, <1>7, <2>1, <2>2 DEF EditedBlock
<1>9. ASSUME NEW c \in g.blocks PROVE EditedBlock(g, h, s, 0, q, Poison, Poison, c)
  BY <1>1, <1>2, <1>8, UneditedBlock
<1>10. Edited(g, h, s, 0, q, Poison, Poison)
  BY <1>9, EditedBlockByBlock
<1> QED
  BY <1>1, <1>4, <1>10 DEF Forgets

LEMMA PhiGoes ==
  ASSUME NEW g, NEW h, NEW b, NEW s, NEW w, Erased(g, h, b, s), Collapses(g, b, s, w),
         g.blocks \subseteq DOMAIN g.code,
         NEW cd, cd = [g.code EXCEPT ![s] = Tail(g.code[s])],
         h.code = ReplaceAllUses(cd, g.code[s][1].def, w)
  PROVE  Forgets(g, h, b, s, 1, 0, g.code[s][1].def, w)
<1> DEFINE x == g.code[s][1].def
<1>1. /\ WellFormed(g) /\ s \in g.blocks /\ Sound(g) /\ Leaves(g, b, s) /\ IsPhi(g.code[s][1])
  BY DEF Erased, Sound, Leaves, Collapses
<1>2. ASSUME NEW c \in g.blocks PROVE EditedBlock(g, h, s, 1, 0, x, w, c)
  <2>1. /\ IsSequence(g.code[c]) /\ Len(g.code[c]) \in Nat /\ g.code[c] # <<>>
        /\ DOMAIN g.code[c] = 1 .. Len(g.code[c])
        /\ \A i \in DOMAIN g.code[c] :
             i \in Nat /\ IsInstruction(g.code[c][i])
    BY <1>1, WellFormedCode
  <2>2. /\ IsSequence(cd[c]) /\ Len(cd[c]) = Len(g.code[c]) - (IF c = s THEN 1 ELSE 0)
        /\ \A j \in DOMAIN cd[c] :
             Src(s, 1, c, j) \in DOMAIN g.code[c] /\ cd[c][j] = g.code[c][Src(s, 1, c, j)]
    <3>1. CASE c = s
      <4> DEFINE t == Tail(g.code[s])
      <4>1. Drop(g.code[s], 1, t)
        BY <2>1, <3>1, TailIs
      <4>2. cd[s] = t
        BY <1>1
      <4> HIDE DEF t
      <4>3. IsSequence(t) /\ Len(t) = Len(g.code[s]) - 1
        BY <4>1 DEF Drop
      <4> DEFINE m == Len(t)
                 n == Len(g.code[s])
      <4>4. m \in Nat /\ n \in Nat /\ m = n - 1 /\ DOMAIN t = 1 .. m /\ DOMAIN g.code[s] = 1 .. n
        BY <2>1, <3>1, <4>3 DEF IsSequence
      <4>5. \A j \in 1 .. m : t[j] = IF j < 1 THEN g.code[s][j] ELSE g.code[s][j + 1]
        BY <4>1 DEF Drop
      <4> HIDE DEF m, n
      <4>6. ASSUME NEW j \in 1 .. m
            PROVE  /\ Src(s, 1, s, j) = j + 1 /\ j + 1 \in DOMAIN g.code[s]
                   /\ t[j] = g.code[s][j + 1]
        BY <4>4, <4>5 DEF Src
      <4>7. Len(t) = Len(g.code[s]) - (IF s = s THEN 1 ELSE 0)
        BY <4>4 DEF m, n
      <4> QED
        BY <3>1, <4>2, <4>3, <4>4, <4>6, <4>7
    <3>2. CASE c # s
      <4>1. cd[c] = g.code[c]
        BY <3>2
      <4>2. \A j : Src(s, 1, c, j) = j
        BY <3>2 DEF Src
      <4> DEFINE n == Len(g.code[c])
      <4>3. n \in Nat
        BY <2>1
      <4> HIDE DEF n
      <4>4. n = n - (IF c = s THEN 1 ELSE 0)
        BY <3>2, <4>3
      <4> QED
        BY <2>1, <4>1, <4>2, <4>4 DEF n
    <3> QED
      BY <3>1, <3>2
  <2>3. c \in DOMAIN cd
    OBVIOUS
  <2> HIDE DEF x
  <2>4. h.code[c] = [i \in DOMAIN cd[c] |-> [cd[c][i] EXCEPT !.args = ReplaceAll(cd[c][i].args, x, w)]]
    BY <2>3 DEF ReplaceAllUses, x
  <2>5. IsSequence(h.code[c]) /\ Len(h.code[c]) = Len(cd[c]) /\ DOMAIN h.code[c] = DOMAIN cd[c]
    <3>1. h.code[c] = [i \in DOMAIN cd[c] |-> h.code[c][i]]
      BY <2>4
    <3> QED
      BY <2>2, <3>1, Rebuilt
  <2>6. ASSUME NEW j \in DOMAIN h.code[c]
        PROVE  /\ EditedInstruction(h.code[c][j], g.code[c][Src(s, 1, c, j)], Dropped(s, 0, c, j), 0)
               /\ \A k \in DOMAIN h.code[c][j].args :
                    h.code[c][j].args[k] = Put(x, w, g.code[c][Src(s, 1, c, j)].args[Slot(s, 0, c, j, k)])
    <3> DEFINE e == Src(s, 1, c, j)
               I == h.code[c][j]
               J == g.code[c][e]
    <3>1. e \in DOMAIN g.code[c] /\ cd[c][j] = J
      BY <2>2, <2>5
    <3>2. I = Replaced(J, x, w)
      <4>1. I = [cd[c][j] EXCEPT !.args = ReplaceAll(cd[c][j].args, x, w)]
        BY <2>4, <2>5
      <4> HIDE DEF I, J
      <4> QED
        BY <3>1, <4>1 DEF Replaced
    <3>3. Dropped(s, 0, c, j) = FALSE /\ \A k : Slot(s, 0, c, j, k) = k
      BY DEF Dropped, Slot
    <3>4. IsInstruction(J)
      BY <2>1, <3>1
    <3> HIDE DEF I, J
    <3>5. EditedInstruction(I, J, FALSE, 0) /\ HasReplaced(I, J, x, w)
      BY <3>2, <3>4, OperandsReplaced
    <3>6. EditedInstruction(I, J, Dropped(s, 0, c, j), 0)
      BY <3>3, <3>5, Zenon
    <3>7. \A k \in DOMAIN I.args : I.args[k] = Put(x, w, J.args[Slot(s, 0, c, j, k)])
      BY <3>3, <3>5 DEF HasReplaced
    <3> QED
      BY <3>6, <3>7 DEF I, J
  <2> QED
    BY <2>2, <2>5, <2>6 DEF EditedBlock
<1> HIDE DEF x
<1>3. Edited(g, h, s, 1, 0, x, w)
  BY <1>2, EditedBlockByBlock
<1> QED
  BY <1>1, <1>3 DEF Forgets, x
\* A PHI that is left with one value at most.
LEMMA LeftWithOne ==
  ASSUME NEW g, NEW b, NEW s, Sound(g), Leaves(g, b, s), IsPhi(g.code[s][1]),
         NEW q \in DOMAIN g.code[s][1].from, g.code[s][1].from[q] = b,
         NEW new, new = Shortened(g.code[s][1], q),
         NEW vals, vals = Range(new.args) \ {g.code[s][1].def}, ~(Cardinality(vals) > 1),
         NEW w, w = IF vals = {} THEN Poison ELSE CHOOSE v \in vals : TRUE
  PROVE  Collapses(g, b, s, w)
<1> DEFINE phi == g.code[s][1]
<1>1. /\ WellFormed(g) /\ s \in g.blocks /\ 1 \in DOMAIN g.code[s] /\ Poison \notin Defs(g)
      /\ IsSequence(phi.from) /\ IsSequence(phi.args) /\ Len(phi.from) = Len(phi.args)
      /\ DOMAIN phi.from = DOMAIN phi.args /\ phi.def # NoValue
  BY LeavesFacts DEF Sound, Leaves
<1>2. IsInstruction(phi)
  BY <1>1, WellFormedCode
<1>3. q \in 1 .. Len(phi.from) /\ Len(phi.from) \in Nat /\ DOMAIN phi.from = 1 .. Len(phi.from)
  BY <1>1 DEF IsSequence
<1>4. Drop(phi.args, q, new.args)
  <2> HIDE DEF phi
  <2>1. new = Shortened(phi, q)
    BY DEF phi
  <2> QED
    BY <1>1, <1>2, <1>3, <2>1, ShortenedIs
<1> DEFINE n == Len(phi.args)
           m == Len(new.args)
<1>5. /\ m \in Nat /\ n \in Nat /\ m = n - 1 /\ DOMAIN new.args = 1 .. m /\ DOMAIN phi.args = 1 .. n
      /\ q \in 1 .. n
  <2> HIDE DEF phi
  <2>1. /\ IsSequence(new.args) /\ Len(new.args) = Len(phi.args) - 1
    BY <1>4 DEF Drop
  <2>2. /\ DOMAIN new.args = 1 .. Len(new.args) /\ Len(new.args) \in Nat
        /\ DOMAIN phi.args = 1 .. Len(phi.args) /\ Len(phi.args) \in Nat
    BY <1>1, <2>1 DEF IsSequence
  <2>3. q \in DOMAIN phi.args
    BY <1>1, <1>3
  <2> QED BY <2>1, <2>2, <2>3
<1>6. \A k \in 1 .. m : new.args[k] = IF k < q THEN phi.args[k] ELSE phi.args[k + 1]
  BY <1>4 DEF Drop
<1> HIDE DEF m, n
<1>7. ASSUME NEW k \in DOMAIN phi.from, phi.from[k] # b
      PROVE  phi.args[k] \in Range(new.args)
  <2>1. k \in 1 .. n /\ k # q
    BY <1>1, <1>5, <1>7
  <2>2. CASE k < q
    <3>1. k \in 1 .. m /\ new.args[k] = phi.args[k]
      BY <1>5, <1>6, <2>1, <2>2
    <3> QED
      BY <1>5, <3>1 DEF Range
  <2>3. CASE ~(k < q)
    <3>1. k - 1 \in 1 .. m /\ ~(k - 1 < q) /\ (k - 1) + 1 = k
      BY <1>5, <2>1, <2>3
    <3>2. new.args[k - 1] = phi.args[k]
      BY <1>6, <3>1
    <3> QED
      BY <1>5, <3>1, <3>2 DEF Range
  <2> QED
    BY <2>2, <2>3
<1>8. ASSUME NEW v \in Range(new.args)
      PROVE  \E k \in DOMAIN phi.from : phi.from[k] # b /\ phi.args[k] = v
  <2>1. PICK l \in 1 .. m : new.args[l] = v
    BY <1>5 DEF Range
  <2> DEFINE k == IF l < q THEN l ELSE l + 1
  <2>2. k \in 1 .. n /\ k # q /\ phi.args[k] = v
    BY <1>5, <1>6, <2>1
  <2> HIDE DEF k
  <2>3. k \in DOMAIN phi.from
    BY <1>1, <1>5, <2>2
  <2>4. phi.from[k] # b
    BY <2>2, <2>3, OneEntry
  <2> QED
    BY <2>2, <2>3, <2>4
<1>9. IsFiniteSet(vals)
  <2>1. 1 \in Int /\ m \in Int
    BY <1>5
  <2>2. IsFiniteSet(1 .. m)
    BY <2>1, FS_Interval
  <2> DEFINE f == [k \in 1 .. m |-> new.args[k]]
             R == Range(new.args)
  <2>3. f \in Surjection(1 .. m, R)
    BY <1>5 DEF Surjection, Range
  <2> HIDE DEF f
  <2>4. IsFiniteSet(R)
    <3> HIDE DEF R
    <3> QED
      BY <2>2, <2>3, FS_Surjection
  <2> QED
    BY <2>4, FS_Subset
<1>10. \A v \in vals : v = w
  <2> SUFFICES ASSUME NEW v \in vals PROVE v = w
    OBVIOUS
  <2>1. Cardinality(vals) \in Nat
    BY <1>9, FS_CardinalityType
  <2>2. Cardinality(vals) # 0
    BY <1>9, FewUses
  <2>3. Cardinality(vals) = 1
    BY <2>1, <2>2
  <2>4. w \in vals
    OBVIOUS
  <2> QED
    <3>1. \A x, y \in vals : x = y
      BY <1>9, <2>3, FewUses
    <3> QED BY <2>4, <3>1
<1>11. w # phi.def
  <2>1. phi.def \in Defs(g)
    <3>1. phi.def # NoValue /\ 1 \in DOMAIN g.code[s] /\ s \in g.blocks
      BY <1>1
    <3> QED BY <3>1 DEF Defs
  <2>2. vals # {} => w \in vals
    OBVIOUS
  <2> QED
    BY <1>1, <2>1, <2>2
<1>12. \A k \in DOMAIN phi.from : phi.from[k] # b => phi.args[k] \in {w, phi.def}
  BY <1>7, <1>10
<1>13. w = Poison \/ \E k \in DOMAIN phi.from : phi.from[k] # b /\ phi.args[k] = w
  <2>1. vals # {} => w \in Range(new.args)
    OBVIOUS
  <2> QED
    BY <1>8, <2>1
<1> QED
  BY <1>11, <1>12, <1>13 DEF Collapses

\* Whatever removePredecessor does is one of the three.
LEMMA ForgetPredecessorForgets ==
  ASSUME NEW g, NEW h, NEW b, NEW s, Erased(g, h, b, s), g.blocks \subseteq DOMAIN g.code,
         h.code = ForgetPredecessor(g.code, s, b)
  PROVE  \E o, q, x, w : Forgets(g, h, b, s, o, q, x, w)
<1> DEFINE phi == g.code[s][1]
           k == SelectInSeq(phi.from, LAMBDA c : c = b)
           new == Shortened(phi, k)
           vals == Range(new.args) \ {phi.def}
           w == IF vals = {} THEN Poison ELSE CHOOSE v \in vals : TRUE
           cd == [g.code EXCEPT ![s] = Tail(g.code[s])]
<1>1. /\ Sound(g) /\ Leaves(g, b, s) /\ WellFormed(g) /\ PhisMatchEdges(g)
      /\ s \in g.blocks /\ b \in g.blocks /\ g.succ[b] = <<s>>
  BY DEF Erased, Sound, Leaves, Verified
<1>2. ForgetPredecessor(g.code, s, b)
        = IF ~IsPhi(phi) \/ k = 0 THEN g.code
          ELSE IF Cardinality(vals) > 1 THEN [g.code EXCEPT ![s] = [g.code[s] EXCEPT ![1] = new]]
          ELSE ReplaceAllUses(cd, phi.def, w)
  BY DEF ForgetPredecessor, Shortened
<1>3. IsPhi(phi) => k \in DOMAIN phi.from /\ phi.from[k] = b
  <2> SUFFICES ASSUME IsPhi(phi) PROVE k \in DOMAIN phi.from /\ phi.from[k] = b
    OBVIOUS
  <2>1. 1 \in DOMAIN g.code[s] /\ IsSequence(phi.from)
    BY <1>1, LeavesFacts
  <2>2. s \in Range(g.succ[b])
    BY <1>1 DEF Range
  <2>3. \E n \in DOMAIN phi.from : phi.from[n] = b
    BY <1>1, <2>1, <2>2, EntryForEdge
  <2> HIDE DEF phi
  <2> QED
    BY <2>1, <2>3, Selected
<1>4. IsPhi(phi) => k # 0
  <2>1. IsPhi(phi) => IsSequence(phi.from)
    BY <1>1, LeavesFacts
  <2> QED
    BY <1>3, <2>1 DEF IsSequence
<1> HIDE DEF k, new, vals, w
<1>5. CASE ~IsPhi(phi)
  <2>1. h.code = g.code
    BY <1>2, <1>5
  <2>2. Forgets(g, h, b, s, 0, 0, Poison, Poison)
    BY <1>5, <2>1, NoPhiToForget
  <2> QED
    BY <2>2
<1>6. CASE IsPhi(phi) /\ Cardinality(vals) > 1
  <2>1. h.code = [g.code EXCEPT ![s] = [g.code[s] EXCEPT ![1] = Shortened(phi, k)]]
    BY <1>2, <1>4, <1>6 DEF new
  <2>2. Forgets(g, h, b, s, 0, k, Poison, Poison)
    BY <1>3, <1>6, <2>1, PhiLosesEntry
  <2> QED
    BY <2>2
<1>7. CASE IsPhi(phi) /\ ~(Cardinality(vals) > 1)
  <2>1. h.code = ReplaceAllUses(cd, phi.def, w)
    BY <1>2, <1>4, <1>7
  <2>2. Collapses(g, b, s, w)
    BY <1>1, <1>3, <1>7, LeftWithOne DEF w, vals, new
  <2>3. Forgets(g, h, b, s, 1, 0, phi.def, w)
    BY <2>1, <2>2, PhiGoes
  <2> QED
    BY <2>3
<1> QED
  BY <1>5, <1>6, <1>7
-----------------------------------------------------------------------------
(* DeleteDeadBlock keeps the function valid.                               *)

Deletes(g, h, b, r, s) ==
  /\ Sound(g) /\ Gone(g, b, r, s) /\ g.blocks \subseteq DOMAIN g.code
  /\ IsRecord(h) /\ h.entry = g.entry /\ h.blocks = g.blocks \ {b} /\ h.succ = g.succ
  /\ h.code = PoisonDefs(ForgetPredecessor(g.code, s, b), b)

Between(g, b, s) ==
  [entry |-> g.entry, blocks |-> g.blocks, code |-> ForgetPredecessor(g.code, s, b), succ |-> g.succ]

LEMMA BetweenIsErased ==
  ASSUME NEW g, NEW h, NEW b, NEW r, NEW s, Deletes(g, h, b, r, s)
  PROVE  /\ Erased(g, Between(g, b, s), b, s) /\ DOMAIN Between(g, b, s).code = DOMAIN g.code
         /\ h.code = PoisonDefs(Between(g, b, s).code, b)
         /\ Between(g, b, s).blocks = g.blocks /\ Between(g, b, s).succ = g.succ
         /\ Between(g, b, s).entry = g.entry
         /\ \E o, q, x, w : Forgets(g, Between(g, b, s), b, s, o, q, x, w)
<1> DEFINE m == Between(g, b, s)
<1>1. /\ m.entry = g.entry /\ m.blocks = g.blocks /\ m.succ = g.succ
      /\ m.code = ForgetPredecessor(g.code, s, b)
      /\ m = [entry |-> m.entry, blocks |-> m.blocks, code |-> m.code, succ |-> m.succ]
  BY DEF Between
<1> HIDE DEF m
<1>2. Erased(g, m, b, s)
  BY <1>1 DEF Deletes, Erased, Gone, Sound, IsRecord
<1>3. DOMAIN m.code = DOMAIN g.code
  <2>1. DOMAIN ForgetPredecessor(g.code, s, b) = DOMAIN g.code
    BY Zenon DEF ForgetPredecessor, ReplaceAllUses
  <2> QED
    BY <1>1, <2>1
<1>4. \E o, q, x, w : Forgets(g, m, b, s, o, q, x, w)
  BY <1>1, <1>2, ForgetPredecessorForgets DEF Deletes
<1> QED
  BY <1>1, <1>2, <1>3, <1>4 DEF m, Deletes

LEMMA DeletesErases ==
  ASSUME NEW g, NEW h, NEW b, NEW r, NEW s, Deletes(g, h, b, r, s),
         NEW o, NEW q, NEW x, NEW w, Forgets(g, Between(g, b, s), b, s, o, q, x, w)
  PROVE  Erases(Between(g, b, s), h, b)
<1> DEFINE m == Between(g, b, s)
<1>1. /\ Erased(g, m, b, s) /\ DOMAIN m.code = DOMAIN g.code /\ h.code = PoisonDefs(m.code, b)
      /\ m.blocks = g.blocks /\ m.succ = g.succ /\ m.entry = g.entry
      /\ Forgets(g, m, b, s, o, q, x, w)
  BY BetweenIsErased
<1> HIDE DEF m
<1>2. /\ Sound(g) /\ Leaves(g, b, s) /\ EdgesStayInside(g) /\ Poison \notin Defs(g)
      /\ b \in g.blocks /\ ReadOnTheWayOut(g, b) /\ g.blocks \subseteq DOMAIN g.code
      /\ b # g.entry /\ \A c \in g.blocks : b \notin Range(g.succ[c])
  BY DEF Deletes, Gone, Sound, Verified, Leaves
<1>3. /\ ControlFlowGraph(m) /\ IsRecord(m) /\ WellFormed(m) /\ SingleAssignment(m)
      /\ Defs(m) \subseteq Defs(g) /\ PhisComeFirst(m) /\ DefsDominateUses(m) /\ PoisonFree(m)
      /\ PhisMatchBut(m, b)
  <2>1. ControlFlowGraph(m)
    BY <1>1, ForgetsGraph
  <2>2. WellFormed(m)
    BY <1>1, ForgetsForm
  <2>3. SingleAssignment(m) /\ Defs(m) \subseteq Defs(g)
    BY <1>1, ForgetsDefs
  <2>4. PhisComeFirst(m)
    BY <1>1, ForgetsOrder
  <2>5. DefsDominateUses(m)
    BY <1>1, ForgetsDominates
  <2>6. PoisonFree(m)
    BY <1>1, ForgetsPoison
  <2>7. PhisMatchBut(m, b)
    BY <1>1, ForgetsPhis
  <2> QED
    BY <1>1, <2>1, <2>2, <2>3, <2>4, <2>5, <2>6, <2>7 DEF Erased
<1>4. EdgesStayInside(m)
  BY <1>1, <1>2 DEF EdgesStayInside
<1>5. ReadOnTheWayOut(m, b)
  <2>1. x # w /\ w # NoValue => ~DefinedIn(g, b, w)
    BY <1>1, NotOfTheErasedBlock
  <2> QED
    BY <1>1, <1>2, <2>1, StillOnTheWayOut
<1>6. ASSUME NEW c \in h.blocks
      PROVE  /\ IsSequence(h.code[c]) /\ Len(h.code[c]) = Len(m.code[c])
             /\ \A i \in DOMAIN h.code[c] :
                  PoisonedInstruction(h.code[c][i], m.code[c][i], ValuesOf(m, b))
  <2>1. c \in m.blocks /\ c \in DOMAIN m.code
    BY <1>1, <1>2 DEF Deletes
  <2>2. IsSequence(m.code[c]) /\ \A i \in DOMAIN m.code[c] : IsInstruction(m.code[c][i])
    BY <1>3, <2>1, WellFormedCode
  <2>3. \A i \in DOMAIN m.code[c] :
          LET J == m.code[c][i] IN
          /\ J = [op |-> J.op, def |-> J.def, args |-> J.args, from |-> J.from]
          /\ IsSequence(J.args)
    BY <2>2 DEF IsInstruction
  <2> QED
    BY <1>1, <2>1, <2>2, <2>3, PoisonedIs
<1>7. /\ IsRecord(h) /\ h.entry = m.entry /\ h.blocks = m.blocks \ {b} /\ h.succ = m.succ
  BY <1>1 DEF Deletes
<1>8. Erases(m, h, b)
  BY <1>1, <1>2, <1>3, <1>4, <1>5, <1>6, <1>7 DEF Erases
<1> QED
  BY <1>8 DEF m

LEMMA DeletingKeepsSound ==
  ASSUME NEW g, NEW h, NEW b, NEW r, NEW s, Deletes(g, h, b, r, s)
  PROVE  /\ Sound(h)
         /\ \A a, p, t : Gone(g, a, p, t) /\ a # b /\ p # b => Gone(h, a, p, t)
<1> DEFINE m == Between(g, b, s)
<1>1. PICK o, q, x, w : Forgets(g, m, b, s, o, q, x, w)
  BY BetweenIsErased
<1>2. Erases(m, h, b)
  BY <1>1, DeletesErases
<1> HIDE DEF m
<1>3. Sound(h)
  BY <1>2, ErasesSound
<1>4. ASSUME NEW a, NEW p, NEW t, Gone(g, a, p, t), a # b, p # b
      PROVE  Gone(h, a, p, t)
  <2>1. Gone(m, a, p, t)
    BY <1>1, <1>4, ForgetsOthers
  <2> QED
    BY <1>2, <1>4, <2>1, ErasesOthers
<1> QED
  BY <1>3, <1>4
-----------------------------------------------------------------------------
(* What the search for a duplicate finds out.                              *)

\* No PHI of one block reads the operands of a PHI of the other.
TellApart(g, b1, b2) ==
  \A i \in DOMAIN g.code[b1], j \in DOMAIN g.code[b2] :
    IsPhi(g.code[b1][i]) /\ IsPhi(g.code[b2][j]) => g.code[b1][i].args # g.code[b2][j].args

Finds(g, b1, b2, s) ==
  /\ Sound(g) /\ b1 \in g.blocks /\ b2 \in g.blocks /\ s \in g.blocks
  /\ g.succ[b1] = <<s>> /\ g.succ[b2] = <<s>>
  /\ MayBeErased(g, b1) /\ (\E dead : b2 \in Duplicates(g, b1, dead))
  /\ TellApart(g, b1, b2)

LEMMA FindsFacts ==
  ASSUME NEW g, NEW b1, NEW b2, NEW s, Finds(g, b1, b2, s)
  PROVE  /\ b1 # g.entry /\ b2 # g.entry /\ b1 # b2
         /\ g.succ[b1][1] = s
         /\ IsUnconditional(g.code[b1][Len(g.code[b1])])
         /\ IsUnconditional(g.code[b2][Len(g.code[b2])])
         /\ Len(Body(g.code[b1])) = Len(Body(g.code[b2]))
         /\ PhiAgrees(g, b1, b2) /\ Lockstep(g, b1, b2)
<1>1. PICK dead : b2 \in Duplicates(g, b1, dead)
  BY DEF Finds
<1>2. MayBeErased(g, b1) /\ g.succ[b1] = <<s>>
  BY DEF Finds
<1>3. /\ b2 # g.entry /\ IsUnconditional(Term(g, b2)) /\ b2 # b1
      /\ Len(Body(g.code[b1])) = Len(Body(g.code[b2])) /\ PhiAgrees(g, b1, b2) /\ Lockstep(g, b1, b2)
  BY <1>1 DEF Duplicates
<1>4. b1 # g.entry /\ IsUnconditional(Term(g, b1))
  BY <1>2 DEF MayBeErased
<1> QED
  BY <1>2, <1>3, <1>4 DEF Term, Last

\* The walk compares every position.
LEMMA EveryPosition ==
  ASSUME NEW f, NEW b1, NEW b2, Len(Body(f.code[b1])) = Len(Body(f.code[b2])), Lockstep(f, b1, b2),
         NEW i \in 1 .. Len(Body(f.code[b1]))
  PROVE  CanMergeInstructions(f, b1, Body(f.code[b1])[i], b2, Body(f.code[b2])[i])
<1> DEFINE s == Body(f.code[b1])
           t == Body(f.code[b2])
           n == Len(s)
<1>1. n \in Nat
  BY SMT
<1>2. Min({Len(s), Len(t)}) = n
  BY DEF Min
<1>3. n - i \in 0 .. n - 1 /\ n - (n - i) = i
  BY <1>1
<1>4. CanMergeInstructions(f, b1, s[n - (n - i)], b2, t[Len(t) - (n - i)])
  BY <1>2, <1>3 DEF Lockstep
<1> QED
  BY <1>3, <1>4

\* The positions of a block in front of its terminator.
Before(g, b) == {i \in DOMAIN g.code[b] : i # Len(g.code[b]) /\ NotDebug(g.code[b][i])}

LEMMA BeforeIs ==
  ASSUME NEW n \in Nat, NEW i
  PROVE  i \in 1 .. n /\ i # n <=> i \in 1 .. n - 1
OBVIOUS

LEMMA BodyIs ==
  ASSUME NEW g, WellFormed(g), NEW b \in g.blocks
  PROVE  /\ \A k \in 1 .. Len(Body(g.code[b])) : \E i \in Before(g, b) : Body(g.code[b])[k] = g.code[b][i]
         /\ \A i \in Before(g, b) : \E k \in 1 .. Len(Body(g.code[b])) : Body(g.code[b])[k] = g.code[b][i]
<1> DEFINE n == Len(g.code[b])
           w == Body(g.code[b])
<1>1. /\ IsSequence(g.code[b]) /\ g.code[b] # <<>> /\ DOMAIN g.code[b] = 1 .. n /\ n \in Nat
  BY WellFormedCode
<1>2. Lists(g.code[b], n - 1, w)
  BY <1>1, BodyLists DEF IsSequence
<1> HIDE DEF n, w
<1>3. \A i : i \in Before(g, b) <=> i \in 1 .. n - 1 /\ NotDebug(g.code[b][i])
  <2>1. \A i : i \in DOMAIN g.code[b] /\ i # n <=> i \in 1 .. n - 1
    BY <1>1, BeforeIs
  <2>2. \A i : i \in Before(g, b) <=> i \in DOMAIN g.code[b] /\ i # n /\ NotDebug(g.code[b][i])
    BY DEF Before, n
  <2> QED
    BY <2>1, <2>2
<1>4. /\ \A k \in 1 .. Len(w) : \E i \in Before(g, b) : w[k] = g.code[b][i]
      /\ \A i \in Before(g, b) : \E k \in 1 .. Len(w) : w[k] = g.code[b][i]
  BY <1>2, <1>3 DEF Lists
<1> QED
  BY <1>4 DEF w

\* Every instruction of one block has its like in the other.
LEMMA Counterpart ==
  ASSUME NEW g, NEW b1, NEW b2, NEW s, Finds(g, b1, b2, s)
  PROVE  /\ \A i \in Before(g, b1) : \E j \in Before(g, b2) :
              CanMergeInstructions(g, b1, g.code[b1][i], b2, g.code[b2][j])
         /\ \A j \in Before(g, b2) : \E i \in Before(g, b1) :
              CanMergeInstructions(g, b1, g.code[b1][i], b2, g.code[b2][j])
<1> DEFINE w1 == Body(g.code[b1])
           w2 == Body(g.code[b2])
<1>1. WellFormed(g) /\ b1 \in g.blocks /\ b2 \in g.blocks
  BY DEF Finds, Sound
<1>2. /\ \A k \in 1 .. Len(w1) : \E i \in Before(g, b1) : w1[k] = g.code[b1][i]
      /\ \A i \in Before(g, b1) : \E k \in 1 .. Len(w1) : w1[k] = g.code[b1][i]
  BY <1>1, BodyIs
<1>3. /\ \A k \in 1 .. Len(w2) : \E i \in Before(g, b2) : w2[k] = g.code[b2][i]
      /\ \A i \in Before(g, b2) : \E k \in 1 .. Len(w2) : w2[k] = g.code[b2][i]
  BY <1>1, BodyIs
<1>4. Len(w1) = Len(w2) /\ Lockstep(g, b1, b2)
  BY FindsFacts
<1>5. \A k \in 1 .. Len(w1) : CanMergeInstructions(g, b1, w1[k], b2, w2[k])
  BY <1>4, EveryPosition
<1> HIDE DEF w1, w2
<1>6. ASSUME NEW i \in Before(g, b1)
      PROVE  \E j \in Before(g, b2) : CanMergeInstructions(g, b1, g.code[b1][i], b2, g.code[b2][j])
  <2>1. PICK k \in 1 .. Len(w1) : w1[k] = g.code[b1][i]
    BY <1>2
  <2>2. PICK j \in Before(g, b2) : w2[k] = g.code[b2][j]
    BY <1>3, <1>4, <2>1
  <2> QED
    BY <1>5, <2>1, <2>2
<1>7. ASSUME NEW j \in Before(g, b2)
      PROVE  \E i \in Before(g, b1) : CanMergeInstructions(g, b1, g.code[b1][i], b2, g.code[b2][j])
  <2>1. PICK k \in 1 .. Len(w2) : w2[k] = g.code[b2][j]
    BY <1>3
  <2>2. PICK i \in Before(g, b1) : w1[k] = g.code[b1][i]
    BY <1>2, <1>4, <2>1
  <2> QED
    BY <1>4, <1>5, <2>1, <2>2
<1> QED
  BY <1>6, <1>7

\* What defines a value or is a PHI stands in front of the terminator.
LEMMA DefiningIsBefore ==
  ASSUME NEW g, WellFormed(g), NEW b \in g.blocks, IsUnconditional(g.code[b][Len(g.code[b])]),
         NEW i \in DOMAIN g.code[b], g.code[b][i].def # NoValue
  PROVE  i \in Before(g, b)
<1>1. /\ ~NotDebug(g.code[b][i]) \/ IsUnconditional(g.code[b][i]) => g.code[b][i].def = NoValue
  BY DEF WellFormed
<1>2. i # Len(g.code[b])
  BY <1>1
<1> QED
  BY <1>1, <1>2 DEF Before

LEMMA FindsNoPhi ==
  ASSUME NEW g, NEW b1, NEW b2, NEW s, Finds(g, b1, b2, s)
  PROVE  NoPhi(g, b1) /\ NoPhi(g, b2)
<1>1. /\ WellFormed(g) /\ b1 \in g.blocks /\ b2 \in g.blocks /\ TellApart(g, b1, b2)
  BY DEF Finds, Sound
<1>2. /\ IsUnconditional(g.code[b1][Len(g.code[b1])]) /\ IsUnconditional(g.code[b2][Len(g.code[b2])])
  BY FindsFacts
<1>3. ASSUME NEW i \in Before(g, b1), NEW j \in Before(g, b2),
             CanMergeInstructions(g, b1, g.code[b1][i], b2, g.code[b2][j])
      PROVE  ~IsPhi(g.code[b1][i]) /\ ~IsPhi(g.code[b2][j])
  <2>1. g.code[b1][i].op = g.code[b2][j].op /\ g.code[b1][i].args = g.code[b2][j].args
    BY <1>3 DEF CanMergeInstructions
  <2>2. i \in DOMAIN g.code[b1] /\ j \in DOMAIN g.code[b2]
    BY DEF Before
  <2> QED
    BY <1>1, <2>1, <2>2 DEF TellApart, IsPhi
<1>4. \A b \in g.blocks : \A i \in DOMAIN g.code[b] : IsPhi(g.code[b][i]) => g.code[b][i].def # NoValue
  BY <1>1 DEF WellFormed
<1>5. ASSUME NEW i \in DOMAIN g.code[b1], IsPhi(g.code[b1][i]) PROVE FALSE
  <2>1. i \in Before(g, b1)
    BY <1>1, <1>2, <1>4, <1>5, DefiningIsBefore
  <2> QED
    BY <1>3, <1>5, <2>1, Counterpart
<1>6. ASSUME NEW i \in DOMAIN g.code[b2], IsPhi(g.code[b2][i]) PROVE FALSE
  <2>1. i \in Before(g, b2)
    BY <1>1, <1>2, <1>4, <1>6, DefiningIsBefore
  <2> QED
    BY <1>3, <1>6, <2>1, Counterpart
<1> QED
  BY <1>5, <1>6 DEF NoPhi

\* PHIs come first, so one that is not followed by another is the only one.
LEMMA AtMostOne ==
  ASSUME NEW c, IsSequence(c), \A i \in 2 .. Len(c) : IsPhi(c[i]) => IsPhi(c[i - 1]),
         ~(Len(c) > 1 /\ IsPhi(c[1]) /\ IsPhi(c[2]))
  PROVE  \A i \in DOMAIN c : IsPhi(c[i]) => i = 1
<1> DEFINE m == Len(c)
           T == {n \in Nat : n + 2 <= m => ~IsPhi(c[n + 2])}
<1>1. m \in Nat /\ DOMAIN c = 1 .. m
  BY DEF IsSequence
<1>2. \A i \in 2 .. m : IsPhi(c[i]) => IsPhi(c[i - 1])
  OBVIOUS
<1>3. m > 1 => ~(IsPhi(c[1]) /\ IsPhi(c[2]))
  OBVIOUS
<1> HIDE DEF m
<1>4. 0 \in T
  <2>1. 2 <= m => (IsPhi(c[2]) => IsPhi(c[1]))
    <3>1. 2 <= m => 2 \in 2 .. m
      BY <1>1
    <3>2. 2 - 1 = 1
      OBVIOUS
    <3> QED
      BY <1>2, <3>1, <3>2
  <2>2. 2 <= m => m > 1
    BY <1>1
  <2> QED
    BY <1>3, <2>1, <2>2
<1>5. ASSUME NEW n \in Nat, n \in T PROVE n + 1 \in T
  <2>1. (n + 1) + 2 <= m => (n + 1) + 2 \in 2 .. m /\ n + 2 <= m /\ ((n + 1) + 2) - 1 = n + 2
    BY <1>1
  <2>2. (n + 1) + 2 <= m => (IsPhi(c[(n + 1) + 2]) => IsPhi(c[n + 2]))
    BY <1>2, <2>1
  <2> QED
    BY <1>5, <2>1, <2>2
<1>6. Nat \subseteq T
  <2> HIDE DEF T
  <2> QED
    BY <1>4, <1>5, Induction
<1>7. ASSUME NEW i \in DOMAIN c, IsPhi(c[i]), i # 1 PROVE FALSE
  <2>1. i - 2 \in Nat /\ (i - 2) + 2 = i /\ i <= m
    BY <1>1, <1>7
  <2>2. i - 2 \in T
    BY <1>6, <2>1
  <2> QED
    BY <1>7, <2>1, <2>2
<1> QED
  BY <1>7

LEMMA FindsOnePhi ==
  ASSUME NEW g, NEW b1, NEW b2, NEW s, Finds(g, b1, b2, s)
  PROVE  OnePhi(g, s)
<1>1. /\ WellFormed(g) /\ PhisComeFirst(g) /\ s \in g.blocks /\ MayBeErased(g, b1) /\ g.succ[b1][1] = s
  BY FindsFacts DEF Finds, Sound, Verified
<1>2. /\ IsSequence(g.code[s])
      /\ \A i \in 2 .. Len(g.code[s]) : IsPhi(g.code[s][i]) => IsPhi(g.code[s][i - 1])
  BY <1>1 DEF WellFormed, PhisComeFirst
<1>3. ~(Len(g.code[s]) > 1 /\ IsPhi(g.code[s][1]) /\ IsPhi(g.code[s][2]))
  BY <1>1 DEF MayBeErased, SuccCode
<1> QED
  BY <1>2, <1>3, AtMostOne DEF OnePhi
-----------------------------------------------------------------------------
(* What MergeBB finds out is what merging needs.                           *)

\* A value that canRemoveInst lets go is read once, on the way out.
LEMMA LetGo ==
  ASSUME NEW g, Sound(g), NEW b \in g.blocks, NEW s \in g.blocks, g.succ[b] = <<s>>,
         NEW i \in DOMAIN g.code[b], g.code[b][i].def # NoValue,
         \/ Cardinality(Uses(g, g.code[b][i].def)) = 0
         \/ /\ Cardinality(Uses(g, g.code[b][i].def)) = 1
            /\ CanRemoveInst(g, b, g.code[b][i])
  PROVE  /\ \A u, w \in Uses(g, g.code[b][i].def) : u = w
         /\ \A u \in Uses(g, g.code[b][i].def) :
              \/ u[1] = b
              \/ IsPhi(g.code[u[1]][u[2]]) /\ g.code[u[1]][u[2]].from[u[3]] = b
<1> DEFINE v == g.code[b][i].def
           U == Uses(g, v)
<1>1. IsFiniteSet(U)
  BY UsesFinite DEF Sound, ControlFlowGraph
<1>2. CASE Cardinality(U) = 0
  BY <1>1, <1>2, FewUses
<1>3. CASE Cardinality(U) = 1 /\ CanRemoveInst(g, b, g.code[b][i])
  <2>1. \A u, w \in U : u = w
    BY <1>1, <1>3, FewUses
  <2>2. PICK u \in U :
          \/ u[1] = b
          \/ /\ IsPhi(g.code[u[1]][u[2]]) /\ u[1] = g.succ[b][1]
             /\ IncomingValue(g.code[u[1]][u[2]], b) = v
    BY <1>3 DEF CanRemoveInst
  <2>3. ASSUME u[1] # b
        PROVE  IsPhi(g.code[u[1]][u[2]]) /\ g.code[u[1]][u[2]].from[u[3]] = b
    <3>1. PICK c, j, k : u = <<c, j, k>> /\ UseAt(g, v, c, j, k)
      BY UsesAre
    <3>2. /\ c = s /\ s \in Range(g.succ[b]) /\ j \in DOMAIN g.code[c] /\ c \in g.blocks
          /\ IsPhi(g.code[c][j]) /\ IncomingValue(g.code[c][j], b) = v
          /\ NotDebug(g.code[c][j])
      BY <2>2, <2>3, <3>1 DEF UseAt, Range
    <3>3. PhisMatchEdges(g) /\ WellFormed(g)
      BY DEF Sound, Verified
    <3>4. /\ \E n \in DOMAIN g.code[c][j].from : g.code[c][j].from[n] = b
          /\ DOMAIN g.code[c][j].from = DOMAIN g.code[c][j].args
      BY <3>2, <3>3, EntryForEdge
    <3>5. IsSequence(g.code[c][j].from)
      BY <3>2, <3>3 DEF WellFormed
    <3>6. PICK n \in DOMAIN g.code[c][j].from :
            g.code[c][j].from[n] = b /\ IncomingValue(g.code[c][j], b) = g.code[c][j].args[n]
      BY <3>4, <3>5, IncomingIs
    <3>7. UseAt(g, v, c, j, n)
      BY <3>2, <3>4, <3>6 DEF UseAt
    <3>8. <<c, j, n>> \in U
      BY <3>7, UseIsUse
    <3>9. <<c, j, n>> = <<c, j, k>>
      BY <2>1, <3>1, <3>8
    <3>10. n = k
      BY <3>9
    <3> QED
      BY <3>1, <3>2, <3>6, <3>10
  <2>4. \A w \in U : w = u
    BY <2>1
  <2> QED
    BY <2>1, <2>3, <2>4
<1> QED
  BY <1>2, <1>3

LEMMA FindsReads ==
  ASSUME NEW g, NEW b1, NEW b2, NEW s, Finds(g, b1, b2, s)
  PROVE  /\ ReadOnTheWayOut(g, b1) /\ ReadOnce(g, b1)
         /\ ReadOnTheWayOut(g, b2) /\ ReadOnce(g, b2)
<1>1. /\ Sound(g) /\ WellFormed(g) /\ b1 \in g.blocks /\ b2 \in g.blocks /\ s \in g.blocks
      /\ g.succ[b1] = <<s>> /\ g.succ[b2] = <<s>>
  BY DEF Finds, Sound
<1>2. /\ IsUnconditional(g.code[b1][Len(g.code[b1])]) /\ IsUnconditional(g.code[b2][Len(g.code[b2])])
  BY FindsFacts
<1>3. ASSUME NEW i \in DOMAIN g.code[b1], g.code[b1][i].def # NoValue
      PROVE  /\ \A u, w \in Uses(g, g.code[b1][i].def) : u = w
             /\ \A u \in Uses(g, g.code[b1][i].def) :
                  \/ u[1] = b1
                  \/ IsPhi(g.code[u[1]][u[2]]) /\ g.code[u[1]][u[2]].from[u[3]] = b1
  <2>1. i \in Before(g, b1)
    BY <1>1, <1>2, <1>3, DefiningIsBefore
  <2>2. PICK j \in Before(g, b2) : CanMergeInstructions(g, b1, g.code[b1][i], b2, g.code[b2][j])
    BY <2>1, Counterpart
  <2>3. \/ Cardinality(Uses(g, g.code[b1][i].def)) = 0
        \/ /\ Cardinality(Uses(g, g.code[b1][i].def)) = 1
           /\ CanRemoveInst(g, b1, g.code[b1][i])
    BY <2>2 DEF CanMergeInstructions
  <2> QED
    BY <1>1, <1>3, <2>3, LetGo
<1>4. ASSUME NEW j \in DOMAIN g.code[b2], g.code[b2][j].def # NoValue
      PROVE  /\ \A u, w \in Uses(g, g.code[b2][j].def) : u = w
             /\ \A u \in Uses(g, g.code[b2][j].def) :
                  \/ u[1] = b2
                  \/ IsPhi(g.code[u[1]][u[2]]) /\ g.code[u[1]][u[2]].from[u[3]] = b2
  <2>1. j \in Before(g, b2)
    BY <1>1, <1>2, <1>4, DefiningIsBefore
  <2>2. PICK i \in Before(g, b1) : CanMergeInstructions(g, b1, g.code[b1][i], b2, g.code[b2][j])
    BY <2>1, Counterpart
  <2>3. \/ Cardinality(Uses(g, g.code[b2][j].def)) = 0
        \/ /\ Cardinality(Uses(g, g.code[b2][j].def)) = 1
           /\ CanRemoveInst(g, b2, g.code[b2][j])
    BY <2>2 DEF CanMergeInstructions
  <2> QED
    BY <1>1, <1>4, <2>3, LetGo
<1> QED
  BY <1>3, <1>4 DEF ReadOnTheWayOut, ReadOnce

\* The non-terminators of b2 have their like in b1, and the branch reads nothing.
LEMMA FindsOperands ==
  ASSUME NEW g, NEW b1, NEW b2, NEW s, Finds(g, b1, b2, s),
         NEW j \in DOMAIN g.code[b2], NotDebug(g.code[b2][j])
  PROVE  \E i \in DOMAIN g.code[b1] : NotDebug(g.code[b1][i]) /\ g.code[b1][i].args = g.code[b2][j].args
<1>1. /\ WellFormed(g) /\ b1 \in g.blocks /\ b2 \in g.blocks
  BY DEF Finds, Sound
<1>2. /\ IsUnconditional(g.code[b1][Len(g.code[b1])]) /\ IsUnconditional(g.code[b2][Len(g.code[b2])])
  BY FindsFacts
<1>3. CASE j = Len(g.code[b2])
  <2>1. Len(g.code[b1]) \in DOMAIN g.code[b1]
    <3> DEFINE m == Len(g.code[b1])
    <3>1. DOMAIN g.code[b1] = 1 .. m /\ m \in Nat /\ 1 \in DOMAIN g.code[b1]
      BY <1>1, WellFormedCode
    <3> HIDE DEF m
    <3>2. m \in DOMAIN g.code[b1]
      BY <3>1
    <3> QED
      BY <3>2 DEF m
  <2>2. g.code[b1][Len(g.code[b1])].args = <<>> /\ g.code[b2][j].args = <<>>
    BY <1>1, <1>2, <1>3, <2>1 DEF WellFormed
  <2>3. NotDebug(g.code[b1][Len(g.code[b1])])
    BY <1>2 DEF IsUnconditional, NotDebug
  <2> QED
    BY <2>1, <2>2, <2>3
<1>4. CASE j # Len(g.code[b2])
  <2>1. j \in Before(g, b2)
    BY <1>4 DEF Before
  <2>2. PICK i \in Before(g, b1) : CanMergeInstructions(g, b1, g.code[b1][i], b2, g.code[b2][j])
    BY <2>1, Counterpart
  <2> QED
    BY <2>2 DEF Before, CanMergeInstructions
<1> QED
  BY <1>3, <1>4

\* The PHI of the successor takes the same from both, or a value of its own from each.
LEMMA FindsPhi ==
  ASSUME NEW g, NEW b1, NEW b2, NEW s, Finds(g, b1, b2, s), IsPhi(g.code[s][1]),
         NEW k \in DOMAIN g.code[s][1].from, g.code[s][1].from[k] = b1,
         NEW m \in DOMAIN g.code[s][1].from, g.code[s][1].from[m] = b2
  PROVE  \/ g.code[s][1].args[k] = g.code[s][1].args[m]
         \/ DefinedIn(g, b1, g.code[s][1].args[k]) /\ DefinedIn(g, b2, g.code[s][1].args[m])
<1> DEFINE phi == g.code[s][1]
<1>1. /\ WellFormed(g) /\ PhisMatchEdges(g) /\ s \in g.blocks /\ g.succ[b1][1] = s /\ PhiAgrees(g, b1, b2)
  BY FindsFacts DEF Finds, Sound, Verified
<1>2. 1 \in DOMAIN g.code[s]
  BY <1>1, WellFormedCode
<1>3. IsSequence(phi.from) /\ \A n, l \in DOMAIN phi.from : phi.from[n] = phi.from[l] => phi.args[n] = phi.args[l]
  BY <1>1, <1>2 DEF WellFormed, PhisMatchEdges
<1>4. IncomingValue(phi, b1) = phi.args[k]
  <2>1. PICK n \in DOMAIN phi.from : phi.from[n] = b1 /\ IncomingValue(phi, b1) = phi.args[n]
    BY <1>3, IncomingIs
  <2> QED
    BY <1>3, <2>1
<1>5. IncomingValue(phi, b2) = phi.args[m]
  <2>1. PICK n \in DOMAIN phi.from : phi.from[n] = b2 /\ IncomingValue(phi, b2) = phi.args[n]
    BY <1>3, IncomingIs
  <2> QED
    BY <1>3, <2>1
<1> QED
  BY <1>1, <1>4, <1>5 DEF PhiAgrees, SuccCode

\* It never takes a value of b1 from both.
LEMMA MergedAgree ==
  ASSUME NEW g, NEW b1, NEW b2, NEW s, Finds(g, b1, b2, s), IsPhi(g.code[s][1]),
         NEW k \in DOMAIN g.code[s][1].from, g.code[s][1].from[k] = b1,
         NEW m \in DOMAIN g.code[s][1].from, g.code[s][1].from[m] = b2,
         DefinedIn(g, b1, g.code[s][1].args[k])
  PROVE  DefinedIn(g, b2, g.code[s][1].args[m])
<1> DEFINE phi == g.code[s][1]
           v == phi.args[k]
<1>1. /\ WellFormed(g) /\ PhisMatchEdges(g) /\ s \in g.blocks /\ b1 \in g.blocks /\ b2 \in g.blocks /\ b1 # b2
  BY FindsFacts DEF Finds, Sound, Verified
<1> SUFFICES ASSUME phi.args[k] = phi.args[m] PROVE DefinedIn(g, b2, v)
  BY FindsPhi
<1>2. CASE v = NoValue
  <2>1. IsUnconditional(g.code[b2][Len(g.code[b2])])
    BY FindsFacts
  <2>2. Len(g.code[b2]) \in DOMAIN g.code[b2]
    <3> DEFINE n == Len(g.code[b2])
    <3>1. DOMAIN g.code[b2] = 1 .. n /\ n \in Nat /\ 1 \in DOMAIN g.code[b2]
      BY <1>1, WellFormedCode
    <3> HIDE DEF n
    <3>2. n \in DOMAIN g.code[b2]
      BY <3>1
    <3> QED
      BY <3>2 DEF n
  <2>3. g.code[b2][Len(g.code[b2])].def = NoValue
    BY <1>1, <2>1, <2>2 DEF WellFormed
  <2> QED
    BY <1>2, <2>2, <2>3 DEF DefinedIn
<1>3. CASE v # NoValue
  <2>1. 1 \in DOMAIN g.code[s]
    BY <1>1, WellFormedCode
  <2>2. DOMAIN phi.from = DOMAIN phi.args
    BY <1>1, <2>1, EntryForEdge
  <2>3. NotDebug(phi)
    BY DEF IsPhi, NotDebug
  <2>4. UseAt(g, v, s, 1, k) /\ UseAt(g, v, s, 1, m)
    BY <1>1, <2>1, <2>2, <2>3 DEF UseAt
  <2>5. <<s, 1, k>> \in Uses(g, v) /\ <<s, 1, m>> \in Uses(g, v)
    BY <1>3, <2>4, UseIsUse
  <2>6. ReadOnce(g, b1)
    BY FindsReads
  <2>7. PICK i \in DOMAIN g.code[b1] : g.code[b1][i].def = v
    BY DEF DefinedIn
  <2>8. <<s, 1, k>> = <<s, 1, m>>
    BY <1>3, <2>5, <2>6, <2>7 DEF ReadOnce
  <2>9. k = m
    BY <2>8
  <2> QED
    BY <1>1, <2>9
<1> QED
  BY <1>2, <1>3

\* An invoke does not lead to a block that may be erased.
LEMMA FindsNoInvoke ==
  ASSUME NEW g, NEW b1, NEW b2, NEW s, Finds(g, b1, b2, s), NEW a \in g.blocks,
         NEW i \in DOMAIN g.code[a], g.code[a][i].op = "invoke"
  PROVE  b1 \notin Range(g.succ[a])
<1>1. WellFormed(g) /\ MayBeErased(g, b1)
  BY DEF Finds, Sound
<1>2. Term(g, a).op = "invoke"
  BY <1>1 DEF WellFormed, Term, Last
<1> SUFFICES ASSUME a \in Preds(g, b1) PROVE FALSE
  BY DEF Preds
<1>3. IsBranch(Term(g, a)) \/ Term(g, a).op = "switch"
  BY <1>1 DEF MayBeErased
<1> QED
  BY <1>2, <1>3 DEF IsBranch

LEMMA FindsAlike ==
  ASSUME NEW g, NEW b1, NEW b2, NEW s, Finds(g, b1, b2, s)
  PROVE  Alike(g, b1, b2, s)
<1>1. NoPhi(g, b1) /\ NoPhi(g, b2)
  BY FindsNoPhi
<1>2. OnePhi(g, s)
  BY FindsOnePhi
<1>3. ReadOnTheWayOut(g, b1) /\ ReadOnce(g, b1) /\ ReadOnce(g, b2)
  BY FindsReads
<1>4. \A j \in DOMAIN g.code[b2] : NotDebug(g.code[b2][j]) =>
        \E i \in DOMAIN g.code[b1] : NotDebug(g.code[b1][i]) /\ g.code[b1][i].args = g.code[b2][j].args
  BY FindsOperands
<1>5. \A k, m \in DOMAIN g.code[s][1].from :
        /\ IsPhi(g.code[s][1]) /\ g.code[s][1].from[k] = b1 /\ g.code[s][1].from[m] = b2
        => \/ g.code[s][1].args[k] = g.code[s][1].args[m]
           \/ DefinedIn(g, b2, g.code[s][1].args[m])
  BY FindsPhi
<1> QED
  BY <1>1, <1>2, <1>3, <1>4, <1>5 DEF Alike
-----------------------------------------------------------------------------
(* updateBranchTargets keeps the function valid.                           *)

Merges(g, h, b1, b2, s) ==
  /\ Finds(g, b1, b2, s)
  /\ IsRecord(h) /\ h.entry = g.entry /\ h.blocks = g.blocks /\ h.code = g.code
  /\ h.succ = UpdateBranchTargets(g, b1, b2)

Instead(b1, b2, c) == IF c = b1 THEN b2 ELSE c

LEMMA UpdatedTargets ==
  ASSUME NEW g, NEW h, NEW b1, NEW b2, NEW s, Merges(g, h, b1, b2, s), NEW c \in g.blocks
  PROVE  /\ IsSequence(g.succ[c]) /\ IsSequence(h.succ[c]) /\ Len(h.succ[c]) = Len(g.succ[c])
         /\ DOMAIN h.succ[c] = DOMAIN g.succ[c]
         /\ \A n \in DOMAIN g.succ[c] : h.succ[c][n] = Instead(b1, b2, g.succ[c][n])
<1>1. IsSequence(g.succ[c]) /\ c \in DOMAIN g.succ
  BY DEF Merges, Finds, Sound, WellFormed, IsRecord
<1>2. h.succ[c] = IF c \in Preds(g, b1) THEN ReplaceAll(g.succ[c], b1, b2) ELSE g.succ[c]
  BY <1>1 DEF Merges, UpdateBranchTargets
<1>3. CASE c \in Preds(g, b1)
  <2> DEFINE S == Range(g.succ[c]) \cup {b2}
             t == g.succ[c]
  <2>1. t \in Seq(S) /\ b2 \in S
    <3>1. t \in Seq(Range(t)) /\ Range(t) \subseteq S
      BY <1>1 DEF IsSequence
    <3> HIDE DEF S, t
    <3>2. t \in Seq(S)
      BY <3>1
    <3> QED
      BY <3>2 DEF S
  <2> HIDE DEF S
  <2>2. /\ ReplaceAll(t, b1, b2) \in Seq(S) /\ Len(ReplaceAll(t, b1, b2)) = Len(t)
        /\ \A i \in DOMAIN t : ReplaceAll(t, b1, b2)[i] = IF t[i] = b1 THEN b2 ELSE t[i]
    BY <2>1, ReplaceAllTargets
  <2>3. h.succ[c] = ReplaceAll(t, b1, b2)
    BY <1>2, <1>3
  <2>4. h.succ[c] \in Seq(Range(h.succ[c]))
    BY <2>2, <2>3, SeqOfRange DEF Range
  <2>5. DOMAIN h.succ[c] = DOMAIN t
    BY <2>1, <2>2, <2>3
  <2> QED
    BY <1>1, <2>2, <2>3, <2>4, <2>5 DEF IsSequence, Instead
<1>4. CASE c \notin Preds(g, b1)
  <2>1. b1 \notin Range(g.succ[c])
    BY <1>4 DEF Preds
  <2>2. \A n \in DOMAIN g.succ[c] : g.succ[c][n] # b1
    BY <2>1 DEF Range
  <2> QED
    BY <1>1, <1>2, <1>4, <2>2 DEF Instead
<1> QED
  BY <1>3, <1>4

\* No edge leads to b1 any more.
LEMMA NoneLeft ==
  ASSUME NEW g, NEW h, NEW b1, NEW b2, NEW s, Merges(g, h, b1, b2, s), NEW c \in g.blocks
  PROVE  /\ b1 \notin Range(h.succ[c])
         /\ \A a \in Range(h.succ[c]) : a = b2 \/ a \in Range(g.succ[c])
<1>1. b1 # b2
  BY FindsFacts DEF Merges
<1>2. /\ DOMAIN h.succ[c] = DOMAIN g.succ[c]
      /\ \A n \in DOMAIN g.succ[c] : h.succ[c][n] = Instead(b1, b2, g.succ[c][n])
  BY UpdatedTargets
<1> QED
  BY <1>1, <1>2 DEF Instead, Range

LEMMA MergesMerging ==
  ASSUME NEW g, NEW h, NEW b1, NEW b2, NEW s, Merges(g, h, b1, b2, s)
  PROVE  Merging(g, h, b1, b2, s)
<1>1. /\ Finds(g, b1, b2, s) /\ Sound(g) /\ ControlFlowGraph(g)
      /\ b1 \in g.blocks /\ b2 \in g.blocks /\ s \in g.blocks
      /\ g.succ[b1] = <<s>> /\ g.succ[b2] = <<s>>
      /\ IsRecord(h) /\ h.entry = g.entry /\ h.blocks = g.blocks /\ h.code = g.code
  BY DEF Merges, Finds, Sound
<1>2. b1 # g.entry /\ b2 # g.entry /\ b1 # b2
  BY <1>1, FindsFacts
<1>3. ControlFlowGraph(h)
  <2>1. \A c \in g.blocks : Range(h.succ[c]) \subseteq g.blocks
    BY <1>1, NoneLeft DEF ControlFlowGraph
  <2> QED
    BY <1>1, <2>1 DEF ControlFlowGraph
<1>4. \A c \in g.blocks :
        /\ IsSequence(g.succ[c]) /\ IsSequence(h.succ[c]) /\ Len(h.succ[c]) = Len(g.succ[c])
        /\ \A n \in DOMAIN g.succ[c] : h.succ[c][n] = IF g.succ[c][n] = b1 THEN b2 ELSE g.succ[c][n]
  BY UpdatedTargets DEF Instead
<1>5. Retargeted(g, h, b1, b2, s)
  BY <1>1, <1>2, <1>3, <1>4 DEF Retargeted
<1>6. Alike(g, b1, b2, s)
  BY <1>1, FindsAlike
<1>7. \A a \in g.blocks : \A i \in DOMAIN g.code[a] :
        g.code[a][i].op = "invoke" => b1 \notin Range(g.succ[a])
  BY <1>1, FindsNoInvoke
<1> QED
  BY <1>1, <1>5, <1>6, <1>7 DEF Merging, Sound

LEMMA SameUses ==
  ASSUME NEW g, NEW h, h.blocks = g.blocks, h.code = g.code, NEW v
  PROVE  Uses(h, v) = Uses(g, v)
BY DEF Uses, UsesIn

LEMMA MergingKeepsSound ==
  ASSUME NEW g, NEW h, NEW b1, NEW b2, NEW s, Merges(g, h, b1, b2, s), Uses(g, Poison) = {}
  PROVE  Sound(h)
<1>1. /\ Sound(g) /\ IsRecord(h) /\ h.blocks = g.blocks /\ h.code = g.code
  BY DEF Merges, Finds
<1>2. Merging(g, h, b1, b2, s)
  BY MergesMerging
<1>3. Verified(h) /\ WellFormed(h) /\ SingleAssignment(h)
  BY <1>2, MergingKeepsValid
<1>4. ControlFlowGraph(h)
  BY <1>2 DEF Merging, Retargeted
<1>5. PoisonFree(h)
  BY <1>1, SameUses DEF PoisonFree
<1>6. Poison \notin Defs(h)
  BY <1>1 DEF Sound, Defs
<1> QED
  BY <1>1, <1>3, <1>4, <1>5, <1>6 DEF Sound
-----------------------------------------------------------------------------
(* The blocks that wait to be erased.                                      *)

LEMMA OnlyTarget ==
  ASSUME NEW g, NEW h, NEW b1, NEW b2, NEW s, Merges(g, h, b1, b2, s), NEW c \in g.blocks,
         NEW t, g.succ[c] = <<t>>
  PROVE  h.succ[c] = <<Instead(b1, b2, t)>>
<1> DEFINE z == h.succ[c]
           y == Instead(b1, b2, t)
<1>1. /\ IsSequence(z) /\ Len(z) = Len(g.succ[c]) /\ DOMAIN z = DOMAIN g.succ[c]
      /\ \A n \in DOMAIN g.succ[c] : z[n] = Instead(b1, b2, g.succ[c][n])
  BY UpdatedTargets
<1> HIDE DEF z
<1>2. z[1] = y /\ Len(z) = 1 /\ z \in Seq(Range(z))
  BY <1>1 DEF IsSequence
<1> HIDE DEF y
<1>3. z = <<y>>
  BY <1>2
<1> QED
  BY <1>3 DEF z, y

LEMMA SameReading ==
  ASSUME NEW g, NEW h, h.blocks = g.blocks, h.code = g.code, NEW b
  PROVE  /\ NoPhi(g, b) => NoPhi(h, b)
         /\ OnePhi(g, b) => OnePhi(h, b)
         /\ ReadOnTheWayOut(g, b) => ReadOnTheWayOut(h, b)
         /\ \A v : DefinedIn(h, b, v) <=> DefinedIn(g, b, v)
<1>1. \A v : Uses(h, v) = Uses(g, v)
  BY SameUses
<1>2. \A c : h.code[c] = g.code[c]
  OBVIOUS
<1> QED
  BY <1>1, <1>2 DEF NoPhi, OnePhi, ReadOnTheWayOut, DefinedIn

LEMMA NoPhiOnePhi ==
  ASSUME NEW g, NEW b, NoPhi(g, b)
  PROVE  OnePhi(g, b)
BY DEF NoPhi, OnePhi

\* A PHI that is not there tells nothing.
LEMMA NoPhiAgrees ==
  ASSUME NEW g, NEW b, NEW r, NEW s, WellFormed(g), s \in g.blocks, NoPhi(g, s)
  PROVE  OwnAgree(g, b, r, s)
<1>1. ~IsPhi(g.code[s][1])
  BY WellFormedCode DEF NoPhi
<1> QED
  BY <1>1 DEF OwnAgree

\* The block just merged waits for its erasure.
LEMMA NowGone ==
  ASSUME NEW g, NEW h, NEW b1, NEW b2, NEW s, Merges(g, h, b1, b2, s), WellFormed(h)
  PROVE  Gone(h, b1, b2, Instead(b1, b2, s))
<1> DEFINE t == Instead(b1, b2, s)
<1>1. /\ Finds(g, b1, b2, s) /\ b1 \in g.blocks /\ b2 \in g.blocks /\ s \in g.blocks
      /\ g.succ[b1] = <<s>> /\ g.succ[b2] = <<s>>
      /\ h.entry = g.entry /\ h.blocks = g.blocks /\ h.code = g.code
  BY DEF Merges, Finds
<1>2. b1 # g.entry /\ b1 # b2
  BY <1>1, FindsFacts
<1>3. h.succ[b1] = <<t>> /\ h.succ[b2] = <<t>>
  BY <1>1, OnlyTarget
<1>4. /\ NoPhi(g, b1) /\ NoPhi(g, b2) /\ OnePhi(g, s) /\ ReadOnTheWayOut(g, b1)
  BY <1>1, FindsNoPhi, FindsOnePhi, FindsReads
<1>5. /\ NoPhi(h, b1) /\ NoPhi(h, b2) /\ OnePhi(h, s) /\ ReadOnTheWayOut(h, b1)
  BY <1>1, <1>4, SameReading
<1>6. t \in h.blocks /\ OnePhi(h, t)
  BY <1>1, <1>5, NoPhiOnePhi DEF Instead
<1>7. \A c \in h.blocks : b1 \notin Range(h.succ[c])
  BY <1>1, NoneLeft
<1>8. Leaves(h, b1, t)
  BY <1>1, <1>2, <1>3, <1>5, <1>6, <1>7 DEF Leaves
<1>9. OwnAgree(h, b1, b2, t)
  <2>1. CASE s = b1
    <3>1. t = b2
      BY <2>1 DEF Instead
    <3> QED
      BY <1>1, <1>5, <3>1, NoPhiAgrees
  <2>2. CASE s # b1
    <3>1. t = s
      BY <2>2 DEF Instead
    <3>2. ASSUME NEW k \in DOMAIN g.code[s][1].from, NEW m \in DOMAIN g.code[s][1].from,
                 IsPhi(g.code[s][1]), g.code[s][1].from[k] = b1, g.code[s][1].from[m] = b2,
                 DefinedIn(h, b1, g.code[s][1].args[k])
          PROVE  DefinedIn(h, b2, g.code[s][1].args[m])
      <4>1. DefinedIn(g, b1, g.code[s][1].args[k])
        BY <1>1, <3>2, SameReading
      <4>2. DefinedIn(g, b2, g.code[s][1].args[m])
        BY <1>1, <3>2, <4>1, MergedAgree
      <4> QED
        BY <1>1, <4>2, SameReading
    <3>3. h.code[s] = g.code[s]
      BY <1>1
    <3>4. OwnAgree(h, b1, b2, s)
      BY <3>2, <3>3 DEF OwnAgree
    <3> QED
      BY <3>1, <3>4
  <2> QED
    BY <2>1, <2>2
<1> HIDE DEF t
<1>10. Gone(h, b1, b2, t)
  BY <1>1, <1>2, <1>3, <1>5, <1>8, <1>9 DEF Gone
<1> QED
  BY <1>10 DEF t

\* Those merged before wait on; if b1 stood for one of them, b2 does now.
LEMMA StillGone ==
  ASSUME NEW g, NEW h, NEW b1, NEW b2, NEW s, Merges(g, h, b1, b2, s), WellFormed(h),
         NEW a, NEW r, NEW t, Gone(g, a, r, t), a # b1, a # b2
  PROVE  Gone(h, a, Instead(b1, b2, r), Instead(b1, b2, t))
<1> DEFINE y == Instead(b1, b2, r)
           z == Instead(b1, b2, t)
<1>1. /\ Finds(g, b1, b2, s) /\ b1 \in g.blocks /\ b2 \in g.blocks /\ s \in g.blocks
      /\ g.succ[b1] = <<s>> /\ g.succ[b2] = <<s>> /\ WellFormed(g) /\ PhisMatchEdges(g)
      /\ h.entry = g.entry /\ h.blocks = g.blocks /\ h.code = g.code
  BY DEF Merges, Finds, Sound, Verified
<1>2. b1 # g.entry /\ b1 # b2
  BY <1>1, FindsFacts
<1>3. /\ Leaves(g, a, t) /\ r \in g.blocks \ {a} /\ g.succ[r] = <<t>> /\ NoPhi(g, r) /\ OwnAgree(g, a, r, t)
      /\ a \in g.blocks \ {g.entry} /\ t \in g.blocks /\ g.succ[a] = <<t>>
      /\ \A c \in g.blocks : a \notin Range(g.succ[c])
      /\ NoPhi(g, a) /\ ReadOnTheWayOut(g, a) /\ OnePhi(g, t)
  BY DEF Gone, Leaves
<1>4. NoPhi(g, b1) /\ NoPhi(g, b2)
  BY <1>1, FindsNoPhi
<1>5. y \in h.blocks \ {a} /\ z \in h.blocks
  BY <1>1, <1>3 DEF Instead
<1>6. h.succ[a] = <<z>>
  BY <1>1, <1>3, OnlyTarget
<1>7. h.succ[y] = <<z>>
  <2>1. CASE r = b1
    <3>1. t = s /\ y = b2
      <4>1. <<t>> = <<s>>
        BY <1>1, <1>3, <2>1
      <4> QED
        BY <2>1, <4>1 DEF Instead
    <3> QED
      BY <1>1, <3>1, OnlyTarget
  <2>2. CASE r # b1
    <3>1. y = r
      BY <2>2 DEF Instead
    <3> QED
      BY <1>1, <1>3, <3>1, OnlyTarget
  <2> QED
    BY <2>1, <2>2
<1>8. NoPhi(h, a) /\ ReadOnTheWayOut(h, a)
  BY <1>1, <1>3, SameReading
<1>9. NoPhi(h, y)
  <2>1. NoPhi(g, y)
    BY <1>3, <1>4 DEF Instead
  <2> QED
    BY <1>1, <2>1, SameReading
<1>10. OnePhi(h, z)
  <2>1. OnePhi(g, z)
    BY <1>3, <1>4, NoPhiOnePhi DEF Instead
  <2> QED
    BY <1>1, <2>1, SameReading
<1>11. \A c \in h.blocks : a \notin Range(h.succ[c])
  BY <1>1, <1>3, NoneLeft
<1>12. OwnAgree(h, a, y, z)
  <2>1. CASE t = b1
    <3>1. z = b2
      BY <2>1 DEF Instead
    <3>2. NoPhi(h, b2)
      BY <1>1, <1>4, SameReading
    <3> QED
      BY <1>1, <3>1, <3>2, NoPhiAgrees
  <2>2. CASE t # b1
    <3>1. z = t
      BY <2>2 DEF Instead
    <3>2. ASSUME NEW k \in DOMAIN g.code[t][1].from, NEW m \in DOMAIN g.code[t][1].from,
                 IsPhi(g.code[t][1]), g.code[t][1].from[k] = a, g.code[t][1].from[m] = y,
                 g.code[t][1].args[k] # NoValue, DefinedIn(h, a, g.code[t][1].args[k])
          PROVE  DefinedIn(h, y, g.code[t][1].args[m])
      <4>1. DefinedIn(g, a, g.code[t][1].args[k])
        BY <1>1, <3>2, SameReading
      <4>2. CASE r # b1
        <5>1. y = r
          BY <4>2 DEF Instead
        <5>2. DefinedIn(g, r, g.code[t][1].args[m])
          BY <1>3, <3>2, <4>1, <5>1 DEF OwnAgree
        <5> QED
          BY <1>1, <5>1, <5>2, SameReading
      <4>3. CASE r = b1
        <5>1. t = s /\ y = b2
          <6>1. <<t>> = <<s>>
            BY <1>1, <1>3, <4>3
          <6> QED
            BY <4>3, <6>1 DEF Instead
        <5>2. s \in Range(g.succ[b1]) /\ 1 \in DOMAIN g.code[s]
          BY <1>1, WellFormedCode DEF Range
        <5>3. PICK n \in DOMAIN g.code[s][1].from : g.code[s][1].from[n] = b1
          BY <1>1, <3>2, <5>1, <5>2, EntryForEdge
        <5>4. DefinedIn(g, b1, g.code[s][1].args[n])
          BY <1>3, <3>2, <4>1, <4>3, <5>1, <5>3 DEF OwnAgree
        <5>5. DefinedIn(g, b2, g.code[s][1].args[m])
          BY <1>1, <3>2, <5>1, <5>3, <5>4, MergedAgree
        <5> QED
          BY <1>1, <5>1, <5>5, SameReading
      <4> QED
        BY <4>2, <4>3
    <3>3. h.code[t] = g.code[t]
      BY <1>1
    <3>4. OwnAgree(h, a, y, t)
      BY <3>2, <3>3 DEF OwnAgree
    <3> QED
      BY <3>1, <3>4
  <2> QED
    BY <2>1, <2>2
<1>13. Leaves(h, a, z)
  BY <1>1, <1>3, <1>5, <1>6, <1>8, <1>10, <1>11 DEF Leaves
<1> HIDE DEF y, z
<1>14. Gone(h, a, y, z)
  BY <1>5, <1>7, <1>9, <1>12, <1>13 DEF Gone
<1> QED
  BY <1>14 DEF y, z
-----------------------------------------------------------------------------
(* The function stays valid through the pass.                              *)

\* IndInv follows blocks and edges; on top of it, the function is sound, and
\* each merged block that still exists can go: no edge leads to it, its values
\* are read on its way out only, and the block that stands for it takes its place
\* in the PHI of their common successor.
WaitToBeErased == \A b \in deleteList \cap blocks : Gone(F, b, rep[b], succ[b][1])

SoundInv == IndInv /\ Sound(F) /\ WaitToBeErased

LEMMA FieldsOfF ==
  /\ F.entry = F0.entry /\ F.blocks = blocks /\ F.code = code /\ F.succ = succ
  /\ F = [entry |-> F.entry, blocks |-> F.blocks, code |-> F.code, succ |-> F.succ]
BY DEF F

LEMMA InputIsSound ==
  ASSUME NEW f \in Functions
  PROVE  Sound(f)
<1>1. f = [entry |-> f.entry, blocks |-> f.blocks, code |-> f.code, succ |-> f.succ]
  BY FunctionsAreWellTyped
<1>2. f.blocks \subseteq Block /\ f.succ \in [Block -> Seq(Block)]
  BY FunctionsAreWellTyped
<1>3. IsRecord(f)
  BY <1>1, <1>2 DEF IsRecord
<1>4. /\ ControlFlowGraph(f) /\ WellFormed(f) /\ SingleAssignment(f) /\ Verified(f)
      /\ Poison \notin Defs(f) /\ Uses(f, Poison) = {}
  BY FunctionsAreVerified
<1>5. PoisonFree(f)
  BY <1>4 DEF PoisonFree
<1> QED
  BY <1>3, <1>4, <1>5 DEF Sound

LEMMA InitSound == Init => SoundInv
<1> SUFFICES ASSUME Init PROVE SoundInv
  OBVIOUS
<1>1. IndInv
  BY InitIndInv
<1>2. F0 \in Functions /\ blocks = F0.blocks /\ code = F0.code /\ succ = F0.succ /\ deleteList = {}
  BY DEF Init
<1>3. F0 = [entry |-> F0.entry, blocks |-> F0.blocks, code |-> F0.code, succ |-> F0.succ]
  BY <1>2, FunctionsAreWellTyped
<1>4. F = F0
  BY <1>2, <1>3 DEF F
<1>5. Sound(F)
  BY <1>2, <1>4, InputIsSound
<1>6. WaitToBeErased
  BY <1>2 DEF WaitToBeErased
<1> QED
  BY <1>1, <1>5, <1>6 DEF SoundInv

\* Where the pass merges, the lemmas on merging apply.
LEMMA MergeFinds ==
  ASSUME PhisTellApart(Functions), SoundInv, NEW b1 \in Block, b1 \in unvisited, MayBeErased(F, b1),
         NEW b2 \in Duplicates(F, b1, deleteList)
  PROVE  /\ Finds(F, b1, b2, succ[b1][1]) /\ Uses(F, Poison) = {}
         /\ blocks = F0.blocks /\ code = F0.code /\ b1 \notin deleteList /\ b2 \notin deleteList
<1> DEFINE s == succ[b1][1]
<1>1. /\ IndInv /\ Sound(F) /\ F0 \in Functions /\ TypeOK
  BY DEF SoundInv, IndInv
<1>2. blocks = F0.blocks /\ code = F0.code /\ b1 \in F0.blocks /\ b1 \notin deleteList
  BY <1>1 DEF IndInv, ErasedLast, TypeOK
<1>3. /\ F.entry = F0.entry /\ F.blocks = blocks /\ F.code = code /\ F.succ = succ
  BY FieldsOfF
<1>4. /\ b2 \in F0.blocks /\ b2 # F0.entry /\ IsUnconditional(Term(F, b2)) /\ b2 \notin deleteList
      /\ b2 # b1 /\ b2 \in Preds(F, s) /\ s \in Range(succ[b2])
  BY <1>2, <1>3 DEF Duplicates, Preds
<1>5. b1 # F0.entry /\ IsUnconditional(Term(F, b1))
  BY <1>3 DEF MayBeErased
<1>6. IsUnconditional(Term(F0, b1)) /\ IsUnconditional(Term(F0, b2))
  BY <1>2, <1>3, <1>4, <1>5 DEF Term
<1>7. F0.succ \in [Block -> Seq(Block)] /\ F0.blocks \subseteq Block /\ succ \in [Block -> Seq(Block)]
  BY <1>1, FunctionsAreWellTyped DEF TypeOK
<1>8. Len(F0.succ[b1]) = 1 /\ Len(F0.succ[b2]) = 1
  BY <1>1, <1>2, <1>4, <1>6, FunctionsAreWellTyped
<1>9. Len(succ[b1]) = 1 /\ Len(succ[b2]) = 1
  BY <1>1, <1>2, <1>4, <1>8 DEF IndInv, EdgesMapped
<1>10. succ[b1] \in Seq(Block) /\ succ[b2] \in Seq(Block)
  BY <1>2, <1>4, <1>7
<1>11. succ[b1] = <<s>> /\ succ[b2] = <<s>>
  <2>1. succ[b1] = <<succ[b1][1]>> /\ succ[b2] = <<succ[b2][1]>>
    BY <1>9, <1>10
  <2>2. succ[b2][1] = s
    BY <1>4, <1>9, <1>10 DEF Range
  <2> QED
    BY <2>1, <2>2
<1>12. s \in blocks
  <2>1. s \in Range(succ[b1])
    BY <1>9, <1>10 DEF Range
  <2> QED
    BY <1>1, <1>2, <1>3, <2>1 DEF Sound, ControlFlowGraph
<1>13. TellApart(F, b1, b2)
  BY <1>1, <1>2, <1>3, <1>4, <1>5, <1>6 DEF PhisTellApart, TellApart
<1>14. Uses(F, Poison) = {}
  <2>1. Uses(F0, Poison) = {}
    BY <1>1, FunctionsAreVerified
  <2> QED
    BY <1>2, <1>3, <2>1, SameUses
<1>15. Finds(F, b1, b2, s)
  BY <1>1, <1>2, <1>3, <1>4, <1>11, <1>12, <1>13 DEF Finds
<1> QED
  BY <1>2, <1>4, <1>14, <1>15

LEMMA MergeSound ==
  ASSUME PhisTellApart(Functions), SoundInv, NEW b1 \in Block, Merge(b1)
  PROVE  SoundInv'
<1>1. PICK b2 \in Duplicates(F, b1, deleteList) :
        /\ succ' = UpdateBranchTargets(F, b1, b2)
        /\ rep' = [b \in Block |-> IF rep[b] = b1 THEN b2 ELSE rep[b]]
  BY DEF Merge
<1>2. /\ b1 \in unvisited /\ MayBeErased(F, b1) /\ deleteList' = deleteList \cup {b1}
      /\ F0' = F0 /\ blocks' = blocks /\ code' = code
  BY DEF Merge
<1> DEFINE g == F
           h == [entry |-> F0.entry, blocks |-> blocks, code |-> code, succ |-> succ']
           s == succ[b1][1]
<1>3. /\ Finds(g, b1, b2, s) /\ Uses(g, Poison) = {}
      /\ blocks = F0.blocks /\ b1 \notin deleteList /\ b2 \notin deleteList
  BY <1>1, <1>2, MergeFinds
<1>4. F' = h
  BY <1>2 DEF F
<1>5. /\ g.entry = F0.entry /\ g.blocks = blocks /\ g.code = code /\ g.succ = succ
  BY FieldsOfF
<1>6. /\ h.entry = F0.entry /\ h.blocks = blocks /\ h.code = code /\ h.succ = succ'
      /\ h = [entry |-> h.entry, blocks |-> h.blocks, code |-> h.code, succ |-> h.succ]
  OBVIOUS
<1>7. IndInv /\ IndInv' /\ WaitToBeErased
  BY MergeIndInv DEF SoundInv
<1>8. blocks \subseteq F0.blocks /\ F0.blocks \subseteq Block /\ DOMAIN succ' = Block /\ rep \in [Block -> Block]
  <2>1. TypeOK /\ TypeOK' /\ F0 \in Functions
    BY <1>7 DEF IndInv
  <2> QED
    BY <2>1, FunctionsAreWellTyped DEF TypeOK
<1> HIDE DEF h
<1>9. IsRecord(h)
  BY <1>6, <1>8 DEF IsRecord
<1>10. Merges(g, h, b1, b2, s)
  BY <1>1, <1>3, <1>5, <1>6, <1>9 DEF Merges
<1>11. Sound(h)
  BY <1>3, <1>10, MergingKeepsSound
<1>12. WellFormed(h)
  BY <1>11 DEF Sound
<1>13. ASSUME NEW a \in deleteList', a \in blocks
       PROVE  Gone(h, a, rep'[a], h.succ[a][1])
  <2>1. \A r, t : Gone(h, a, r, t) => h.succ[a][1] = t
    BY DEF Gone, Leaves
  <2>2. CASE a = b1
    <3>1. Gone(h, b1, b2, Instead(b1, b2, s))
      BY <1>10, <1>12, NowGone
    <3>2. rep[b1] = b1
      <4>1. b1 \in F0.blocks /\ b1 \notin deleteList
        BY <1>3, <1>8, <1>13, <2>2
      <4>2. RepIsRetained
        BY <1>7 DEF IndInv
      <4> QED
        BY <4>1, <4>2 DEF RepIsRetained
    <3>3. rep'[b1] = b2
      BY <1>1, <3>2
    <3> QED
      BY <2>1, <2>2, <3>1, <3>3
  <2>3. CASE a # b1
    <3>1. a \in deleteList /\ a # b2
      BY <1>2, <1>3, <2>3
    <3>2. Gone(g, a, rep[a], succ[a][1])
      BY <1>7, <1>13, <3>1 DEF WaitToBeErased
    <3>3. Gone(h, a, Instead(b1, b2, rep[a]), Instead(b1, b2, succ[a][1]))
      BY <1>10, <1>12, <2>3, <3>1, <3>2, StillGone
    <3>4. rep'[a] = Instead(b1, b2, rep[a])
      BY <1>1, <1>8, <1>13 DEF Instead
    <3> QED
      BY <2>1, <3>3, <3>4
  <2> QED
    BY <2>2, <2>3
<1>14. WaitToBeErased'
  BY <1>2, <1>4, <1>6, <1>13 DEF WaitToBeErased
<1> QED
  BY <1>4, <1>7, <1>11, <1>14 DEF SoundInv

LEMMA DeleteDeadBlockSound ==
  ASSUME SoundInv, NEW b \in Block, DeleteDeadBlock(b)
  PROVE  SoundInv'
<1>1. /\ b \in deleteList /\ b \in blocks /\ blocks' = blocks \ {b}
      /\ code' = PoisonDefs(ForgetPredecessor(code, succ[b][1], b), b)
      /\ F0' = F0 /\ succ' = succ /\ deleteList' = deleteList /\ rep' = rep
  BY DEF DeleteDeadBlock
<1> DEFINE g == F
           h == [entry |-> F0.entry, blocks |-> blocks', code |-> code', succ |-> succ]
           s == succ[b][1]
<1>2. F' = h
  BY <1>1 DEF F
<1>3. /\ g.entry = F0.entry /\ g.blocks = blocks /\ g.code = code /\ g.succ = succ
  BY FieldsOfF
<1>4. /\ h.entry = F0.entry /\ h.blocks = blocks' /\ h.code = code' /\ h.succ = succ
      /\ h = [entry |-> h.entry, blocks |-> h.blocks, code |-> h.code, succ |-> h.succ]
  OBVIOUS
<1>5. IndInv /\ IndInv' /\ WaitToBeErased /\ Sound(g)
  BY DeleteDeadBlockIndInv DEF SoundInv
<1>6. /\ blocks \subseteq F0.blocks /\ F0.blocks \subseteq Block /\ DOMAIN succ = Block /\ DOMAIN code = Block
  <2>1. TypeOK /\ F0 \in Functions
    BY <1>5 DEF IndInv
  <2> QED
    BY <2>1, FunctionsAreWellTyped DEF TypeOK
<1> HIDE DEF h
<1>7. IsRecord(h)
  BY <1>1, <1>4, <1>6 DEF IsRecord
<1>8. Gone(g, b, rep[b], s)
  BY <1>1, <1>5 DEF WaitToBeErased
<1>9. Deletes(g, h, b, rep[b], s)
  BY <1>1, <1>3, <1>4, <1>5, <1>6, <1>7, <1>8 DEF Deletes
<1>10. /\ Sound(h)
       /\ \A a, p, t : Gone(g, a, p, t) /\ a # b /\ p # b => Gone(h, a, p, t)
  BY <1>9, DeletingKeepsSound
<1>11. ASSUME NEW a \in deleteList, a \in blocks, a # b
       PROVE  Gone(h, a, rep[a], succ[a][1])
  <2>1. Gone(g, a, rep[a], succ[a][1])
    BY <1>5, <1>11 DEF WaitToBeErased
  <2>2. rep[a] # b
    BY <1>1, <1>5, <1>6, <1>11 DEF IndInv, RepIsRetained
  <2> QED
    BY <1>10, <1>11, <2>1, <2>2
<1>12. WaitToBeErased'
  BY <1>1, <1>2, <1>11 DEF WaitToBeErased
<1> QED
  BY <1>2, <1>5, <1>10, <1>12 DEF SoundInv

LEMMA NextSound ==
  ASSUME PhisTellApart(Functions), SoundInv, [Next]_vars
  PROVE  SoundInv'
<1>1. IndInv'
  BY NextIndInv DEF SoundInv
<1>2. ASSUME NEW b \in Block, Merge(b) PROVE SoundInv'
  BY <1>2, MergeSound
<1>3. ASSUME NEW b \in Block, Retain(b) PROVE SoundInv'
  <2>1. UNCHANGED <<F0, blocks, code, succ, deleteList, changed, rep>>
    BY <1>3 DEF Retain
  <2>2. F' = F
    BY <2>1 DEF F
  <2> QED
    BY <1>1, <2>1, <2>2 DEF SoundInv, WaitToBeErased
<1>4. ASSUME NEW b \in Block, DeleteDeadBlock(b) PROVE SoundInv'
  BY <1>4, DeleteDeadBlockSound
<1>5. CASE UNCHANGED vars
  <2>1. F' = F
    BY <1>5 DEF F, vars
  <2> QED
    BY <1>1, <1>5, <2>1 DEF SoundInv, WaitToBeErased, vars
<1> QED
  BY <1>2, <1>3, <1>4, <1>5 DEF Next, Returned

\* Unless PHIs of two blocks read the same operands, the function is sound at
\* every point of the pass.
THEOREM SoundThroughout ==
  ASSUME PhisTellApart(Functions)
  PROVE  Spec => []SoundInv
<1>1. Init => SoundInv
  BY InitSound
<1>2. SoundInv /\ [Next]_vars => SoundInv'
  BY NextSound
<1> QED
  BY <1>1, <1>2, PTL DEF Spec

\* Merging and erasing keep the IR valid, in whatever order blocks are visited
\* and erased: PHIs have one entry per incoming edge and every definition
\* dominates its uses.
THEOREM IRStaysValid ==
  ASSUME PhisTellApart(Functions)
  PROVE  Spec => []ValidIR
<1>1. SoundInv => ValidIR
  BY DEF SoundInv, Sound, ValidIR
<1> QED
  BY <1>1, SoundThroughout, PTL

\* canRemoveInst lets no value go that was still needed: no instruction that can
\* run reads a value whose definition was erased.
THEOREM NothingIsPoisoned ==
  ASSUME PhisTellApart(Functions)
  PROVE  Spec => []NothingPoisoned
<1>1. SoundInv => NothingPoisoned
  BY DEF SoundInv, Sound, NothingPoisoned
<1> QED
  BY <1>1, SoundThroughout, PTL
=============================================================================
