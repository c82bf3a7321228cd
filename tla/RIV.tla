--------------------------------- MODULE RIV ---------------------------------
(***************************************************************************)
(* The reachable-integer-values analysis (lib/RIV.cpp): for every block,   *)
(* the integer values that are visible in it.  The analysis walks the      *)
(* dominator tree depth first with an explicit stack and hands what is     *)
(* visible in a node, and what the node defines, to its children.          *)
(*                                                                         *)
(* One behaviour is one call of buildRIV; one Visit is one round of its    *)
(* loop.  The order of the children of a tree node is LLVM's business and  *)
(* is left open.                                                           *)
(***************************************************************************)
EXTENDS IR

CONSTANTS
  Functions,       \* the functions the analysis may be run on
  IntegerValues,   \* the values of integer type
  Inputs           \* the arguments of the function and the global variables

VARIABLES
  f,           \* the function under analysis
  worklist,    \* BBsToProcess
  riv          \* ResultMap: the blocks seen so far and their values

vars == <<f, worklist, riv>>
-----------------------------------------------------------------------------
(* The dominator tree, which DominatorTreeAnalysis provides.               *)

StrictDominators(g, b) == {a \in Reachable(g) \ {b} : Dominates(g, a, b)}

\* b's immediate dominator is p: the nearest of its strict dominators.
Children(g, p) ==
  {b \in Reachable(g) : /\ p \in StrictDominators(g, b)
                        /\ StrictDominators(g, b) = StrictDominators(g, p) \cup {p}}

\* The orders in which the elements of S may be listed.
Listings(S) == {s \in [1 .. Cardinality(S) -> S] : Range(s) = S}
-----------------------------------------------------------------------------
(* The analysis.                                                           *)

\* Mutant: the type of the instruction is not asked.
DefinedOfAnyType(g, b) == {g.code[b][i].def : i \in DOMAIN g.code[b]} \ {NoValue}

\* STEP 1: DefinedValuesMap.
DefinedValues(g, b) == {g.code[b][i].def : i \in DOMAIN g.code[b]} \cap IntegerValues

\* Functions are control-flow graphs, and each integer has one definition.
ASSUME FunctionsAssumption ==
  \A g \in Functions :
    /\ ControlFlowGraph(g)
    /\ \A a, b \in g.blocks :
         a # b => DefinedValues(g, a) \cap DefinedValues(g, b) = {}

\* STEP 2: what is visible in the entry block.
EntryValues == Inputs \cap IntegerValues

Init ==
  /\ f \in Functions
  /\ worklist = <<f.entry>>
  /\ riv = [b \in {f.entry} |-> EntryValues]

\* Mutant: what is visible in the parent is not handed on.
HandDownOwnOnly(parent) ==
  [b \in DOMAIN riv \cup Children(f, parent) |->
     IF b \in Children(f, parent)
     THEN (IF b \in DOMAIN riv THEN riv[b] ELSE {}) \cup DefinedValues(f, parent)
     ELSE riv[b]]

\* Mutant: the child's own values are taken for the parent's.
HandDownChildren(parent) ==
  [b \in DOMAIN riv \cup Children(f, parent) |->
     IF b \in Children(f, parent)
     THEN (IF b \in DOMAIN riv THEN riv[b] ELSE {}) \cup DefinedValues(f, b) \cup riv[parent]
     ELSE riv[b]]

\* What a round of the loop writes to ResultMap.
HandDown(parent) ==
  [b \in DOMAIN riv \cup Children(f, parent) |->
     IF b \in Children(f, parent)
     THEN (IF b \in DOMAIN riv THEN riv[b] ELSE {})
             \cup DefinedValues(f, parent) \cup riv[parent]
     ELSE riv[b]]

\* Mutant: the walk follows the control-flow graph.
VisitSuccessors ==
  /\ worklist # <<>>
  /\ LET parent == Last(worklist) IN
     /\ riv' = HandDown(parent)
     /\ \E order \in Listings(Range(f.succ[parent])) :
          worklist' = Front(worklist) \o order
  /\ UNCHANGED f

\* Mutant: a node leaves the stack only when it has children.
VisitKeepsLeaf ==
  /\ worklist # <<>>
  /\ LET parent == Last(worklist) IN
     /\ riv' = HandDown(parent)
     /\ \E order \in Listings(Children(f, parent)) :
          worklist' = IF order = <<>> THEN worklist ELSE Front(worklist) \o order
  /\ UNCHANGED f

\* STEP 3: one node of the tree leaves the stack, its children enter it.
Visit ==
  /\ worklist # <<>>
  /\ LET parent == Last(worklist) IN
     /\ riv' = HandDown(parent)
     /\ \E order \in Listings(Children(f, parent)) :
          worklist' = Front(worklist) \o order
  /\ UNCHANGED f

Done == worklist = <<>>

Returned == Done /\ UNCHANGED vars

Next == Visit \/ Returned

Spec == Init /\ [][Next]_vars /\ WF_vars(Visit)
-----------------------------------------------------------------------------
(* Properties.                                                             *)

\* Every block on the stack has its entry in the map, and entries hold
\* integer values of this function.
TypeOK ==
  /\ Range(worklist) \subseteq DOMAIN riv
  /\ DOMAIN riv \subseteq f.blocks
  /\ \A b \in DOMAIN riv : riv[b] \subseteq IntegerValues

\* From the moment a block gets its entry, the entry is final: the inputs and
\* all that the strict dominators of the block define, and nothing else.
EntriesAreFinal ==
  \A b \in DOMAIN riv :
    riv[b] = EntryValues \cup UNION {DefinedValues(f, a) : a \in StrictDominators(f, b)}

\* No block is on the stack twice, and the children of a stacked block have
\* not been seen: the walk handles each block once, from one parent only.
EachBlockOnce ==
  /\ IsInjective(worklist)
  /\ \A b \in Range(worklist) : Children(f, b) \cap DOMAIN riv = {}

\* The values defined on every path from the entry to the start of block b,
\* as the greatest solution of the forward data-flow equations.
OnEveryPath(g) ==
  LET all == EntryValues \cup UNION {DefinedValues(g, b) : b \in g.blocks}
      in[n \in 0 .. Cardinality(g.blocks)] ==
        IF n = 0 THEN [b \in Reachable(g) |-> IF b = g.entry THEN EntryValues ELSE all]
        ELSE LET before == in[n - 1]
                 after(p) == before[p] \cup DefinedValues(g, p)
             IN  [b \in DOMAIN before |->
                    {v \in before[b] :
                       \A p \in Preds(g, b) \cap DOMAIN before : v \in after(p)}]
  IN  in[Cardinality(g.blocks)]

\* The result of the analysis is exactly what is defined on every path, for
\* the reachable blocks, and has no entry for an unreachable one.
ResultIsWhatEveryPathDefines == Done => riv = OnEveryPath(f)

\* The walk ends.
Termination == <>Done
=============================================================================
