------------------------------- MODULE Pipeline -------------------------------
(***************************************************************************)
(* duplicate-bb followed by merge-bb, the pair that the documentation      *)
(* presents as a pass and its undoing: the function that the first returns *)
(* is the one the second receives.                                         *)
(***************************************************************************)
EXTENDS IRSemantics

CONSTANTS
  Functions, IntegerValues, Inputs, GlobalValues, NewBlock(_, _), NewValue(_, _),
  Block       \* the blocks of the functions and those made of them

VARIABLES
  F0, f, worklist, riv, selected, targets, reMapper, bb, at, thenVMap, elseVMap, toRemove,
  merging,    \* the second pass has begun
  received,   \* the function it received, its F0
  blocks, code, succ, unvisited, deleteList, changed, rep

dupVars == <<F0, f, worklist, riv, selected, targets, reMapper, bb, at, thenVMap, elseVMap, toRemove>>
mergeVars == <<received, blocks, code, succ, unvisited, deleteList, changed, rep>>
vars == <<dupVars, merging, mergeVars>>

Duplicating == INSTANCE DuplicateBB
Merging == INSTANCE MergeBB WITH F0 <- received

Init ==
  /\ Duplicating!Init
  /\ merging = FALSE
  /\ received = f
  /\ blocks = {} /\ code = <<>> /\ succ = <<>>
  /\ unvisited = {} /\ deleteList = {} /\ changed = FALSE /\ rep = <<>>

Duplicate ==
  /\ ~merging
  /\ \/ Duplicating!Analyse
     \/ Duplicating!FindBBsToDuplicate
     \/ \E b \in f.blocks : Duplicating!Split(b)
     \/ Duplicating!CloneVoid
     \/ Duplicating!CloneValue
     \/ Duplicating!Purge
  /\ UNCHANGED <<merging, mergeVars>>

\* The first pass returns, and the second starts as MergeBB's Init says.
HandOver ==
  /\ Duplicating!Done /\ ~merging
  /\ merging' = TRUE
  /\ received' = f
  /\ blocks' = f.blocks /\ code' = f.code /\ succ' = f.succ
  /\ unvisited' = f.blocks /\ deleteList' = {} /\ changed' = FALSE
  /\ rep' = [b \in Block |-> b]
  /\ UNCHANGED dupVars

Merge ==
  /\ merging
  /\ \E b \in received.blocks : Merging!Merge(b) \/ Merging!Retain(b) \/ Merging!DeleteDeadBlock(b)
  /\ UNCHANGED <<merging, dupVars>>

Done == merging /\ Merging!Done

Returned == Done /\ UNCHANGED vars

Next == Duplicate \/ HandOver \/ Merge \/ Returned

Spec == Init /\ [][Next]_vars
-----------------------------------------------------------------------------
(* Properties.                                                             *)

\* What the function computes survives both passes, and what they leave is
\* valid: the claim that DuplicateBB_MergeBB_exec.ll tests on one program.
SameBehaviour ==
  Done => /\ SameObservations(F0, Merging!F, 4)
          /\ Verified(Merging!F)

\* The blocks of the function that were duplicated.
Duplicated == {b \in F0.blocks : Duplicating!Then(b) \in received.blocks}

BothClonesLeft(b) == {Duplicating!Then(b), Duplicating!Else(b)} \subseteq blocks

\* At most one instruction of the block has a value, and none reads it.
Simple(b) ==
  LET body == SelectSeq(Front(F0.code[b]), LAMBDA i : ~IsPhi(i))
      values == SelectSeq(body, LAMBDA i : i.def # NoValue)
  IN  /\ Len(values) <= 1
      /\ \A i \in DOMAIN body : \A j \in DOMAIN values :
           values[j].def \notin Range(body[i].args)

\* The clones of a simple block are merged, in any order of the visits and
\* whatever was merged before.
SimpleClonesAreMerged == Done => \A b \in Duplicated : Simple(b) => ~BothClonesLeft(b)
=============================================================================
