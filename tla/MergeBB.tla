------------------------------- MODULE MergeBB -------------------------------
(***************************************************************************)
(* The merge-bb pass (lib/MergeBB.cpp): it visits the blocks of a function *)
(* one by one, re-points the edges of a block to a sibling that computes   *)
(* the same thing, and erases the blocks that lost their edges at the end. *)
(*                                                                         *)
(* One behaviour is one call of MergeBB::run.  The order in which blocks   *)
(* are visited is the layout of the function, the order in which siblings  *)
(* are tried is the use-list order of the successor, and the order in      *)
(* which blocks are erased is the bucket order of a pointer set; each is   *)
(* left open here, so every layout and allocation is covered.              *)
(***************************************************************************)
EXTENDS IRSemantics

CONSTANTS
  Block,        \* the names blocks can have
  Functions     \* the functions the pass may be run on

\* Well-formed input: instructions only for the function's blocks, edges that
\* stay inside it and never return to the entry, one target for a plain br.
ASSUME FunctionsAreWellTyped ==
  \A f \in Functions :
    /\ f = [entry |-> f.entry, blocks |-> f.blocks, code |-> f.code, succ |-> f.succ]
    /\ f.blocks \subseteq Block /\ f.entry \in f.blocks
    /\ DOMAIN f.code = Block
    /\ f.succ \in [Block -> Seq(Block)]
    /\ \A b \in f.blocks : \A n \in DOMAIN f.succ[b] : f.succ[b][n] \in f.blocks \ {f.entry}
    /\ \A b \in f.blocks : IsUnconditional(Term(f, b)) => Len(f.succ[b]) = 1

\* The functions handed to the pass are ones the IR verifier accepts; nothing
\* was erased from them yet.
ASSUME FunctionsAreVerified ==
  \A f \in Functions :
    /\ ControlFlowGraph(f) /\ WellFormed(f) /\ SingleAssignment(f) /\ Verified(f)
    /\ Poison \notin Defs(f) /\ Uses(f, Poison) = {}

VARIABLES
  F0,           \* the function as the pass received it (history)
  blocks,       \* the blocks the function holds now
  code,         \* their instructions
  succ,         \* the successor operands of their terminators
  unvisited,    \* blocks the loop of run has not reached
  deleteList,   \* DeleteList
  changed,      \* Changed
  rep           \* history: the block that now runs in place of each block

vars == <<F0, blocks, code, succ, unvisited, deleteList, changed, rep>>

\* The function in its current state.
F == [entry |-> F0.entry, blocks |-> blocks, code |-> code, succ |-> succ]
-----------------------------------------------------------------------------
(* Matching two instructions.                                              *)

\* The only use of s, an instruction of b, dies with b or is the entry of b
\* in a PHI of b's successor.
CanRemoveInst(f, b, s) ==
  \E u \in Uses(f, s.def) :
    LET user == f.code[u[1]][u[2]] IN
    \/ u[1] = b
    \/ /\ IsPhi(user)
       /\ u[1] = f.succ[b][1]
       /\ IncomingValue(user, b) = s.def

\* Mutant: the checks of the use counts are lost.
CanMergeUsed(f, b1, s, b2, t) == s.op = t.op /\ s.args = t.args

\* Mutant: the operands are not compared.
CanMergeAnyOperands(f, b1, s, b2, t) ==
  LET n == Cardinality(Uses(f, s.def)) IN
  /\ s.op = t.op
  /\ Cardinality(Uses(f, t.def)) = n
  /\ n = 0 \/ (n = 1 /\ CanRemoveInst(f, b1, s) /\ CanRemoveInst(f, b2, t))

\* Mutant: isSameOperationAs is not asked.
CanMergeAnyOperation(f, b1, s, b2, t) ==
  LET n == Cardinality(Uses(f, s.def)) IN
  /\ Cardinality(Uses(f, t.def)) = n
  /\ n = 0 \/ (n = 1 /\ CanRemoveInst(f, b1, s) /\ CanRemoveInst(f, b2, t))
  /\ s.args = t.args

\* Instruction s of b1 can stand for instruction t of b2.
CanMergeInstructions(f, b1, s, b2, t) ==
  LET n == Cardinality(Uses(f, s.def)) IN
  /\ s.op = t.op
  /\ Cardinality(Uses(f, t.def)) = n
  /\ n = 0 \/ (n = 1 /\ CanRemoveInst(f, b1, s) /\ CanRemoveInst(f, b2, t))
  /\ s.args = t.args

\* What the lockstep iterator walks over: no debug intrinsic, no terminator.
Body(code_b) ==
  LET upTo[n \in 0 .. Len(code_b) - 1] ==
        IF n = 0 THEN <<>>
        ELSE IF NotDebug(code_b[n]) THEN Append(upTo[n - 1], code_b[n]) ELSE upTo[n - 1]
  IN  upTo[Len(code_b) - 1]

\* Both blocks are walked backwards until one of them is used up.
Lockstep(f, b1, b2) ==
  LET s == Body(f.code[b1])
      t == Body(f.code[b2])
  IN  \A d \in 0 .. Min({Len(s), Len(t)}) - 1 :
        CanMergeInstructions(f, b1, s[Len(s) - d], b2, t[Len(t) - d])
-----------------------------------------------------------------------------
(* Choosing the blocks.                                                    *)

\* The instructions of BBSucc, the block that b branches to.
SuccCode(f, b) == f.code[f.succ[b][1]]

\* Mutant: a single PHI in the successor is already too much.
MayBeErasedWithoutPhi(f, b1) ==
  /\ b1 # f.entry
  /\ IsUnconditional(Term(f, b1))
  /\ \A p \in Preds(f, b1) : IsBranch(Term(f, p)) \/ Term(f, p).op = "switch"
  /\ ~IsPhi(SuccCode(f, b1)[1])

MayBeErased(f, b1) ==
  /\ b1 # f.entry
  /\ IsUnconditional(Term(f, b1))
  /\ \A p \in Preds(f, b1) : IsBranch(Term(f, p)) \/ Term(f, p).op = "switch"
  /\ LET next == SuccCode(f, b1) IN ~(Len(next) > 1 /\ IsPhi(next[1]) /\ IsPhi(next[2]))

DefinedIn(f, b, v) == \E i \in DOMAIN f.code[b] : f.code[b][i].def = v

\* Mutant: two values from elsewhere pass for similar.
PhiAgreesOnOrigin(f, b1, b2) ==
  LET phi == SuccCode(f, b1)[1] IN
  IsPhi(phi) =>
    (DefinedIn(f, b1, IncomingValue(phi, b1)) <=> DefinedIn(f, b2, IncomingValue(phi, b2)))

\* The PHI of the common successor, if there is one, does not tell b1 from b2.
PhiAgrees(f, b1, b2) ==
  LET phi == SuccCode(f, b1)[1]
      v1  == IncomingValue(phi, b1)
      v2  == IncomingValue(phi, b2)
  IN  IsPhi(phi) => v1 = v2 \/ (DefinedIn(f, b1, v1) /\ DefinedIn(f, b2, v2))

\* Mutant: the instruction counts are not compared.
DuplicatesOfAnyLength(f, b1, dead) ==
  {b2 \in Preds(f, f.succ[b1][1]) :
     /\ b2 # f.entry
     /\ IsUnconditional(Term(f, b2))
     /\ b2 \notin dead
     /\ b2 # b1
     /\ PhiAgrees(f, b1, b2)
     /\ Lockstep(f, b1, b2)}

\* The siblings that b1 can be merged into.  The loop over the predecessors
\* of b2 (its continue belongs to that inner loop) rejects nothing.
Duplicates(f, b1, dead) ==
  {b2 \in Preds(f, f.succ[b1][1]) :
     /\ b2 # f.entry
     /\ IsUnconditional(Term(f, b2))
     /\ b2 \notin dead
     /\ b2 # b1
     /\ Len(Body(f.code[b1])) = Len(Body(f.code[b2]))
     /\ PhiAgrees(f, b1, b2)
     /\ Lockstep(f, b1, b2)}

\* Mutant: only the first operand that names the block is replaced.
UpdateFirstTarget(f, bbToErase, bbToRetain) ==
  [p \in DOMAIN f.succ |->
     IF p \in Preds(f, bbToErase)
     THEN ReplaceAt(f.succ[p], SelectInSeq(f.succ[p], LAMBDA t : t = bbToErase), bbToRetain)
     ELSE f.succ[p]]

UpdateBranchTargets(f, bbToErase, bbToRetain) ==
  [p \in DOMAIN f.succ |->
     IF p \in Preds(f, bbToErase)
     THEN ReplaceAll(f.succ[p], bbToErase, bbToRetain)
     ELSE f.succ[p]]
-----------------------------------------------------------------------------
(* DeleteDeadBlock, LLVM's own.                                            *)

\* BasicBlock::removePredecessor: the PHI of s forgets its entry for p, and
\* a PHI left with one distinct value is replaced by it.  The successor of
\* a merged block holds at most one PHI.
ForgetPredecessor(cd, s, p) ==
  LET phi == cd[s][1]
      k   == SelectInSeq(phi.from, LAMBDA c : c = p)
      new == [phi EXCEPT !.args = RemoveAt(@, k), !.from = RemoveAt(@, k)]
      vals == Range(new.args) \ {phi.def}
  IN  IF ~IsPhi(phi) \/ k = 0 THEN cd
      ELSE IF Cardinality(vals) > 1 THEN [cd EXCEPT ![s][1] = new]
      ELSE ReplaceAllUses([cd EXCEPT ![s] = Tail(@)], phi.def,
                          IF vals = {} THEN Poison ELSE CHOOSE v \in vals : TRUE)

\* Uses that outlive the instructions of an erased block read poison.
PoisonDefs(cd, b) ==
  LET defs == {cd[b][i].def : i \in DOMAIN cd[b]} \ {NoValue}
  IN  [c \in DOMAIN cd |->
         [i \in DOMAIN cd[c] |->
            [cd[c][i] EXCEPT !.args =
               [k \in DOMAIN @ |-> IF @[k] \in defs THEN Poison ELSE @[k]]]]]
-----------------------------------------------------------------------------
(* The pass.                                                               *)

Init ==
  /\ F0 \in Functions
  /\ blocks = F0.blocks
  /\ code = F0.code
  /\ succ = F0.succ
  /\ unvisited = F0.blocks
  /\ deleteList = {}
  /\ changed = FALSE
  /\ rep = [b \in Block |-> b]

\* Mutant: the edges of the retained block are the ones re-pointed.
MergeSwapped(b1) ==
  /\ b1 \in unvisited
  /\ MayBeErased(F, b1)
  /\ \E b2 \in Duplicates(F, b1, deleteList) :
       /\ succ' = UpdateBranchTargets(F, b2, b1)
       /\ rep' = [b \in Block |-> IF rep[b] = b1 THEN b2 ELSE rep[b]]
  /\ deleteList' = deleteList \cup {b1}
  /\ unvisited' = unvisited \ {b1}
  /\ changed' = TRUE
  /\ UNCHANGED <<F0, blocks, code>>

\* Mutant: the retained block is the one put on DeleteList.
MergeDeletesRetained(b1) ==
  /\ b1 \in unvisited
  /\ MayBeErased(F, b1)
  /\ \E b2 \in Duplicates(F, b1, deleteList) :
       /\ succ' = UpdateBranchTargets(F, b1, b2)
       /\ rep' = [b \in Block |-> IF rep[b] = b1 THEN b2 ELSE rep[b]]
       /\ deleteList' = deleteList \cup {b2}
  /\ unvisited' = unvisited \ {b1}
  /\ changed' = TRUE
  /\ UNCHANGED <<F0, blocks, code>>

\* mergeDuplicatedBlock finds a duplicate of b1 and returns true.
Merge(b1) ==
  /\ b1 \in unvisited
  /\ MayBeErased(F, b1)
  /\ \E b2 \in Duplicates(F, b1, deleteList) :
       /\ succ' = UpdateBranchTargets(F, b1, b2)
       /\ rep' = [b \in Block |-> IF rep[b] = b1 THEN b2 ELSE rep[b]]
  /\ deleteList' = deleteList \cup {b1}
  /\ unvisited' = unvisited \ {b1}
  /\ changed' = TRUE
  /\ UNCHANGED <<F0, blocks, code>>

\* Mutant: Changed is assigned, not accumulated.
RetainResetsChanged(b1) ==
  /\ b1 \in unvisited
  /\ MayBeErased(F, b1) => Duplicates(F, b1, deleteList) = {}
  /\ unvisited' = unvisited \ {b1}
  /\ changed' = FALSE
  /\ UNCHANGED <<F0, blocks, code, succ, deleteList, rep>>

\* mergeDuplicatedBlock returns false.
Retain(b1) ==
  /\ b1 \in unvisited
  /\ MayBeErased(F, b1) => Duplicates(F, b1, deleteList) = {}
  /\ unvisited' = unvisited \ {b1}
  /\ UNCHANGED <<F0, blocks, code, succ, deleteList, changed, rep>>

DeleteDeadBlock(b) ==
  /\ unvisited = {}
  /\ b \in deleteList \cap blocks
  /\ code' = PoisonDefs(ForgetPredecessor(code, succ[b][1], b), b)
  /\ blocks' = blocks \ {b}
  /\ UNCHANGED <<F0, succ, unvisited, deleteList, changed, rep>>

Done == unvisited = {} /\ deleteList \cap blocks = {}

Returned == Done /\ UNCHANGED vars

Next ==
  \/ \E b \in Block : Merge(b) \/ Retain(b) \/ DeleteDeadBlock(b)
  \/ Returned

Spec == Init /\ [][Next]_vars /\ WF_vars(Next)
-----------------------------------------------------------------------------
(* Properties.                                                             *)

\* The variables range over what their comments say, and the deletion phase
\* starts only after the last visit.
TypeOK ==
  /\ blocks \subseteq F0.blocks
  /\ DOMAIN code = Block
  /\ succ \in [Block -> Seq(Block)]
  /\ unvisited \subseteq F0.blocks
  /\ deleteList \subseteq F0.blocks \ unvisited
  /\ changed \in BOOLEAN
  /\ rep \in [Block -> Block]

\* Whatever the order of visits, merges and deletions, the IR stays valid:
\* PHIs have an entry for each incoming edge and definitions dominate uses.
ValidIR == Verified(F)

\* No value that canRemoveInst let go was still needed: erasing the merged
\* blocks leaves nothing that can run and reads one of their values.
NothingPoisoned == PoisonFree(F)

\* No two blocks that end in a plain br have PHIs with the same operands.
\* Nothing in mergeDuplicatedBlock looks at the incoming blocks of a PHI that it
\* compares, so the theorems on ValidIR and NothingPoisoned assume this much of
\* the functions; run phi_siblings shows what happens without it.
PhisTellApart(functions) ==
  \A f \in functions : \A b, c \in f.blocks \ {f.entry} :
    /\ b # c /\ IsUnconditional(Term(f, b)) /\ IsUnconditional(Term(f, c))
    => \A i \in DOMAIN f.code[b], j \in DOMAIN f.code[c] :
         IsPhi(f.code[b][i]) /\ IsPhi(f.code[c][j]) => f.code[b][i].args # f.code[c][j].args

\* At every point of the pass the function does what it did on entry.
SameBehaviour == SameObservations(F0, F, 6)

\* Each edge of a live block leads to the block that now stands for its
\* original target, through any chain of merges, and never to a merged one.
EdgesFollowRep ==
  \A b \in blocks :
    /\ Len(succ[b]) = Len(F0.succ[b])
    /\ \A n \in DOMAIN succ[b] :
         /\ succ[b][n] = rep[F0.succ[b][n]]
         /\ succ[b][n] \in blocks \ deleteList

\* In the function the pass received, a merged block and the block that now
\* stands for it, possibly several merges later, held the same instructions,
\* ended in the same kind of terminator and led to the same place.
SameInstructions(s, t) ==
  /\ Len(s) = Len(t)
  /\ \A i \in 1 .. Len(s) : s[i].op = t[i].op /\ s[i].args = t[i].args

SameExit(f, r, b, c) ==
  /\ Term(f, b).op = Term(f, c).op
  /\ Len(f.succ[b]) = Len(f.succ[c])
  /\ \A n \in 1 .. Len(f.succ[b]) : r[f.succ[b][n]] = r[f.succ[c][n]]

MergedBlocksAreEqual ==
  \A b \in F0.blocks :
    /\ SameInstructions(Body(F0.code[b]), Body(F0.code[rep[b]]))
    /\ SameExit(F0, rep, b, rep[b])

\* run reports PreservedAnalyses::all() only for a function it left alone.
PreservedMeansUntouched == (Done /\ ~changed) => F = F0

\* updateBranchTargets moved at least one edge: the assertion in
\* mergeDuplicatedBlock, "No branch target was updated".
SomeTargetUpdated ==
  [][\A b \in Block : b \in deleteList' \ deleteList => succ' # succ]_vars
=============================================================================
