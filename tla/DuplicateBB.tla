----------------------------- MODULE DuplicateBB -----------------------------
(***************************************************************************)
(* The duplicate-bb pass (lib/DuplicateBB.cpp).  It asks for the reachable *)
(* integer values, picks one of them for each block at random, and then    *)
(* splits every block that got one in four: a head with a branch on the    *)
(* value being zero, two clones of the body, and a tail that merges what   *)
(* the clones compute.                                                     *)
(*                                                                         *)
(* One behaviour is one call of DuplicateBB::run, the analysis included.   *)
(* CloneInstruction is one round of the loop of cloneBB: it rewrites the   *)
(* tail while it walks it.  The order in which blocks are cloned, which is *)
(* their layout order, is left open.                                       *)
(***************************************************************************)
EXTENDS IRSemantics

CONSTANTS
  Functions,       \* the functions the pass may be run on
  IntegerValues,   \* their values of integer type
  Inputs,          \* their arguments, and the global variables
  GlobalValues,    \* the global variables
  NewBlock(_, _),  \* the block made of a block for a part
  NewValue(_, _)   \* the value made of a value for a part

VARIABLES
  F0,              \* the function as the pass received it (history)
  f,               \* the function now
  worklist, riv,   \* the state of the analysis
  selected,        \* findBBsToDuplicate has returned
  targets,         \* Targets: the blocks still to be cloned, with their values
  reMapper,        \* ReMapper
  bb,              \* the block being cloned, or NoBlock
  at,              \* the position of IIT in its tail
  thenVMap, elseVMap,   \* ThenVMap, ElseVMap
  toRemove         \* ToRemove: positions in the tail

vars == <<F0, f, worklist, riv, selected, targets, reMapper, bb, at, thenVMap, elseVMap, toRemove>>

Analysis == INSTANCE RIV

Then(b) == NewBlock(b, "then")
Else(b) == NewBlock(b, "else")
TailOf(b) == NewBlock(b, "tail")
Parts == {"then", "else", "tail"}

NoMap == [v \in {} |-> v]
Lookup(map, v) == IF v \in DOMAIN map THEN map[v] ELSE v
Entered(map, v, w) == [u \in {v} \cup DOMAIN map |-> IF u = v THEN w ELSE map[u]]

\* BasicBlock::getFirstNonPHIIt
FirstNonPhi(code_c) == SelectInSeq(code_c, LAMBDA i : ~IsPhi(i))

\* A function as LLVM holds it.
IsFunction(g) ==
  /\ g = [entry |-> g.entry, blocks |-> g.blocks, code |-> g.code, succ |-> g.succ]
  /\ DOMAIN g.code = g.blocks /\ DOMAIN g.succ = g.blocks
  /\ WellFormed(g)

\* Each value has one definition, which is no input; what is read is an input
\* or defined.
InSSA(g) ==
  /\ SingleAssignment(g)
  /\ Defs(g) \cap Inputs = {}
  /\ \A b \in g.blocks : \A i \in DOMAIN g.code[b] :
       Range(g.code[b][i].args) \subseteq Inputs \cup Defs(g)

\* The functions handed to the pass are ones the IR verifier accepts.
ASSUME FunctionsAssumption ==
  \A g \in Functions : ControlFlowGraph(g) /\ IsFunction(g) /\ InSSA(g) /\ Verified(g)

\* What the pass makes is new, and made once.
ASSUME NamesAssumption ==
  /\ NoValue \notin Inputs \cup IntegerValues
  /\ \A g \in Functions :
       /\ \A b, c \in g.blocks : \A p, q \in Parts :
            /\ NewBlock(b, p) \notin g.blocks \cup {NoBlock}
            /\ NewBlock(b, p) = NewBlock(c, q) => b = c /\ p = q
       /\ \A v, w \in Defs(g) \cup g.blocks : \A p, q \in {"then", "else", "phi", "cond"} :
            /\ NewValue(v, p) \notin Inputs \cup Defs(g) \cup {NoValue}
            /\ NewValue(v, p) = NewValue(w, q) => v = w /\ p = q
-----------------------------------------------------------------------------
(* Choosing the blocks.                                                    *)

IsLandingPad(b) == f.code[b][FirstNonPhi(f.code[b])].op = "landingpad"

\* FAM.getResult<RIV>
Analyse ==
  /\ Analysis!Visit
  /\ UNCHANGED <<F0, selected, targets, reMapper, bb, at, thenVMap, elseVMap, toRemove>>

\* Blocks without reachable values: the unreachable ones have no entry at all.
HasReachableValues(b) == b \in DOMAIN riv /\ riv[b] # {}

FindBBsToDuplicate ==
  /\ Analysis!Done /\ ~selected
  /\ LET candidates == {b \in f.blocks : ~IsLandingPad(b) /\ HasReachableValues(b)} IN
     \E pick \in [candidates -> IntegerValues] :
       /\ \A b \in candidates : pick[b] \in riv[b]
       /\ targets' = [b \in {c \in candidates : pick[c] \notin GlobalValues} |-> pick[b]]
  /\ selected' = TRUE
  /\ UNCHANGED <<F0, f, worklist, riv, reMapper, bb, at, thenVMap, elseVMap, toRemove>>
-----------------------------------------------------------------------------
(* Cloning a block.                                                        *)

\* The incoming blocks of the PHIs of a block, after its edge moved.
MoveIncoming(code_c, old, new) ==
  [i \in DOMAIN code_c |-> [code_c[i] EXCEPT !.from = ReplaceAll(@, old, new)]]

IsNull(b, v) == [op |-> "isnull", def |-> NewValue(b, "cond"), args |-> <<v>>, from |-> <<>>]
IfNull(b) == [op |-> "condbr", def |-> NoValue, args |-> <<NewValue(b, "cond")>>, from |-> <<>>]
Jump == [op |-> "br", def |-> NoValue, args |-> <<>>, from |-> <<>>]

\* SplitBlockAndInsertIfThenElse in front of BBHead, on the context value v.
SplitOn(b, v) ==
  LET moved == [c \in f.blocks |-> MoveIncoming(f.code[c], b, TailOf(b))]
      bbHead == FirstNonPhi(f.code[b])
      blocks == f.blocks \cup {Then(b), Else(b), TailOf(b)}
  IN  [entry  |-> f.entry,
       blocks |-> blocks,
       code   |-> [c \in blocks |->
                     CASE c = b -> SubSeq(moved[b], 1, bbHead - 1) \o <<IsNull(b, v), IfNull(b)>>
                       [] c = TailOf(b) -> SubSeq(moved[b], bbHead, Len(moved[b]))
                       [] c \in {Then(b), Else(b)} -> <<Jump>>
                       [] OTHER -> moved[c]],
       succ   |-> [c \in blocks |->
                     CASE c = b -> <<Then(b), Else(b)>>
                       [] c = TailOf(b) -> f.succ[b]
                       [] c \in {Then(b), Else(b)} -> <<TailOf(b)>>
                       [] OTHER -> f.succ[c]]]

\* The first part of cloneBB, up to its loop.
Split(b) ==
  /\ selected /\ bb = NoBlock
  /\ b \in DOMAIN targets
  /\ f' = SplitOn(b, Lookup(reMapper, targets[b]))
  /\ targets' = [c \in DOMAIN targets \ {b} |-> targets[c]]
  /\ bb' = b /\ at' = 1
  /\ thenVMap' = NoMap /\ elseVMap' = NoMap /\ toRemove' = {}
  /\ UNCHANGED <<F0, worklist, riv, selected, reMapper>>

Instr == f.code[TailOf(bb)][at]
AtTerminator == at = Len(f.code[TailOf(bb)])

\* Mutant: the operands of the clone are not remapped.
CloneOfUnmapped(i, part, map) ==
  [i EXCEPT !.def = IF @ = NoValue THEN NoValue ELSE NewValue(@, part)]

\* A clone of an instruction for a part, its operands remapped.
CloneOf(i, part, map) ==
  [i EXCEPT !.def = IF @ = NoValue THEN NoValue ELSE NewValue(@, part),
            !.args = [k \in DOMAIN @ |-> Lookup(map, @[k])]]

ThenClone == CloneOf(Instr, "then", thenVMap)
ElseClone == CloneOf(Instr, "else", elseVMap)

InsertBeforeTerminator(code_c, i) == Front(code_c) \o <<i, Last(code_c)>>

\* The code with the two clones in their blocks.
WithClones ==
  [f.code EXCEPT ![Then(bb)] = InsertBeforeTerminator(@, ThenClone),
                 ![Else(bb)] = InsertBeforeTerminator(@, ElseClone)]

\* An instruction that produces nothing: it is cloned, and removed later.
CloneVoid ==
  /\ bb # NoBlock /\ ~AtTerminator
  /\ Instr.def = NoValue
  /\ f' = [f EXCEPT !.code = WithClones]
  /\ toRemove' = toRemove \cup {at}
  /\ at' = at + 1
  /\ UNCHANGED <<F0, worklist, riv, selected, targets, reMapper, bb, thenVMap, elseVMap>>

\* Mutant: the clones are entered for each other's blocks.
SwappedPhi ==
  [op |-> "phi", def |-> NewValue(Instr.def, "phi"),
   args |-> <<ThenClone.def, ElseClone.def>>, from |-> <<Else(bb), Then(bb)>>]

\* The PHI that takes the place of an instruction in the tail.
MergingPhi ==
  [op |-> "phi", def |-> NewValue(Instr.def, "phi"),
   args |-> <<ThenClone.def, ElseClone.def>>, from |-> <<Then(bb), Else(bb)>>]

\* map[old] = clone, after the uses of old were replaced by new: the keys of a
\* ValueMap follow such a replacement.
Follow(map, old, new, clone) == Entered(map, new, clone)

\* Mutant: the PHI is not entered in ReMapper.
EnterUnmapped(old, phi) ==
  /\ thenVMap' = Follow(thenVMap, old, phi, ThenClone.def)
  /\ elseVMap' = Follow(elseVMap, old, phi, ElseClone.def)
  /\ UNCHANGED reMapper

\* Mutant: both clones are entered in ThenVMap.
EnterInThenOnly(old, phi) ==
  /\ thenVMap' = Follow(thenVMap, old, phi, ElseClone.def)
  /\ reMapper' = Entered(reMapper, old, phi)
  /\ UNCHANGED elseVMap

\* ThenVMap, ElseVMap and ReMapper, which is keyed by the old value, after
\* an instruction was cloned and replaced.
Enter(old, phi) ==
  /\ thenVMap' = Follow(thenVMap, old, phi, ThenClone.def)
  /\ elseVMap' = Follow(elseVMap, old, phi, ElseClone.def)
  /\ reMapper' = Entered(reMapper, old, phi)

\* An instruction with a value: it is cloned and replaced by a PHI, which
\* takes over its uses, those further down the tail included.
CloneValue ==
  /\ bb # NoBlock /\ ~AtTerminator
  /\ Instr.def # NoValue
  /\ f' = [f EXCEPT !.code =
             [ReplaceAllUses(WithClones, Instr.def, MergingPhi.def)
                EXCEPT ![TailOf(bb)][at] = MergingPhi]]
  /\ Enter(Instr.def, MergingPhi.def)
  /\ at' = at + 1
  /\ UNCHANGED <<F0, worklist, riv, selected, targets, bb, toRemove>>

\* s without some positions: its k-th element is the one at the k-th that is kept.
Without(s, positions) ==
  LET kept == DOMAIN s \ positions
  IN  [k \in 1 .. Cardinality(kept) |->
         s[CHOOSE i \in kept : Cardinality({j \in kept : j <= i}) = k]]

\* The terminator stays (its operands are PHIs already, which TailVMap maps
\* to themselves), and what is in ToRemove leaves the tail.
Purge ==
  /\ bb # NoBlock /\ AtTerminator
  /\ f' = [f EXCEPT !.code[TailOf(bb)] = Without(@, toRemove)]
  /\ bb' = NoBlock
  /\ UNCHANGED <<F0, worklist, riv, selected, targets, reMapper, at, thenVMap, elseVMap, toRemove>>
-----------------------------------------------------------------------------
Init ==
  /\ Analysis!Init
  /\ F0 = f
  /\ selected = FALSE
  /\ targets = NoMap /\ reMapper = NoMap
  /\ bb = NoBlock /\ at = 1
  /\ thenVMap = NoMap /\ elseVMap = NoMap /\ toRemove = {}

Done == selected /\ targets = NoMap /\ bb = NoBlock

Returned == Done /\ UNCHANGED vars

Next ==
  \/ Analyse \/ FindBBsToDuplicate \/ (\E b \in f.blocks : Split(b))
  \/ CloneVoid \/ CloneValue \/ Purge
  \/ Returned

Spec == Init /\ [][Next]_vars
-----------------------------------------------------------------------------
(* Properties.                                                             *)

\* The targets are blocks of the function received that were not split yet,
\* and the iterator is in the tail.
TypeOK ==
  /\ DOMAIN targets \subseteq F0.blocks
  /\ \A b \in DOMAIN targets : TailOf(b) \notin f.blocks
  /\ bb # NoBlock => at \in 1 .. Len(f.code[TailOf(bb)])
  /\ DOMAIN thenVMap = DOMAIN elseVMap
  /\ DOMAIN f.code = f.blocks /\ DOMAIN f.succ = f.blocks

\* The value that will decide between the clones of a block is, whatever was
\* cloned before, an input or a value that exists and is available there.
ContextIsAvailable ==
  \A b \in DOMAIN targets :
    LET v == Lookup(reMapper, targets[b]) IN
    \/ v \in Inputs
    \/ \E a \in f.blocks : \E i \in DOMAIN f.code[a] :
         f.code[a][i].def = v /\ a # b /\ AvailableIn(f, a, i, b)

\* Between two blocks the IR is valid, and every operand is defined: no clone
\* reads a value of the tail or of the other clone, and nothing reads an
\* instruction that was replaced.
ValidIR ==
  bb = NoBlock =>
    /\ Verified(f)
    /\ \A b \in f.blocks : \A i \in DOMAIN f.code[b] :
         Range(f.code[b][i].args) \subseteq Inputs \cup Defs(f)

\* "F - BEFORE (equivalence) F - AFTER": whichever clone a run goes through,
\* the function does what it did.
SameBehaviour == bb = NoBlock => SameObservations(F0, f, 5)
=============================================================================
