--------------------------------- MODULE IR ---------------------------------
(***************************************************************************)
(* The slice of the LLVM IR that the control-flow passes of llvm-tutor     *)
(* look at.  It lives outside src/ (it is LLVM's own data structure), so   *)
(* it is modelled from the way the passes use it.                          *)
(*                                                                         *)
(* A function f is a record:                                               *)
(*   f.entry   its entry block;                                            *)
(*   f.blocks  the blocks it holds (erased blocks leave this set);         *)
(*   f.code    the instructions of each block, PHIs first, the terminator  *)
(*             last; an instruction has an op, the value def it defines    *)
(*             (NoValue for a void one), its operands args and, when it is *)
(*             a PHI, the incoming block from[k] of each args[k];          *)
(*   f.succ    the successor operands of each block's terminator.          *)
(* Blocks and values are names; equal names mean the same llvm::Value.     *)
(***************************************************************************)
EXTENDS Naturals, FiniteSets, SequencesExt

NoValue == "void"     \* the def of an instruction that produces nothing
Poison == "poison"    \* what LLVM leaves where an erased value was used

Term(f, b) == Last(f.code[b])
IsBranch(i) == i.op \in {"br", "condbr"}          \* isa<BranchInst>
IsUnconditional(i) == i.op = "br"
NotDebug(i) == i.op # "dbg"
IsPhi(i) == i.op = "phi"

IsSequence(s) == s \in Seq(Range(s))

\* The values that instructions of f define.
Defs(f) == (UNION {{f.code[b][i].def : i \in DOMAIN f.code[b]} : b \in f.blocks}) \ {NoValue}

Preds(f, b) == {p \in f.blocks : b \in Range(f.succ[p])}

\* The operand slots that hold v, counted one by one: user block, index of
\* the user in it, operand number.  Debug intrinsics refer to values through
\* metadata, which is not a use.
UsesIn(f, b, v) ==
  UNION { {<<b, i, k>> : k \in {n \in DOMAIN f.code[b][i].args :
                                   f.code[b][i].args[n] = v}}
          : i \in {j \in DOMAIN f.code[b] : NotDebug(f.code[b][j])} }

Uses(f, v) == IF v = NoValue THEN {} ELSE UNION {UsesIn(f, b, v) : b \in f.blocks}

\* PHINode::getIncomingValueForBlock
IncomingValue(phi, b) == phi.args[SelectInSeq(phi.from, LAMBDA c : c = b)]

\* Value::replaceAllUsesWith, on the code of a function
ReplaceAllUses(code, v, w) ==
  [b \in DOMAIN code |->
     [i \in DOMAIN code[b] |-> [code[b][i] EXCEPT !.args = ReplaceAll(@, v, w)]]]

(***************************************************************************)
(* What the IR verifier asks of a function after a pass: the entry has no  *)
(* predecessor, PHIs come first and have one entry per incoming edge, and  *)
(* a definition dominates its uses.                                        *)
(***************************************************************************)
\* The blocks reachable from the entry along paths that avoid block a.
ReachableAvoiding(f, a) ==
  LET within[n \in 0 .. Cardinality(f.blocks)] ==
        IF n = 0 THEN {f.entry} \ {a}
        ELSE LET closer == within[n - 1]
             IN  closer \cup ((UNION {Range(f.succ[b]) : b \in closer}) \ {a})
  IN  within[Cardinality(f.blocks)]

NoBlock == "none"

Reachable(f) == ReachableAvoiding(f, NoBlock)

\* a dominates b: no path from the entry reaches b without passing a.
Dominates(f, a, b) == a = b \/ b \notin ReachableAvoiding(f, a)

\* What every function body is: finitely many blocks, the entry and the ends of
\* all edges among them.
ControlFlowGraph(f) ==
  /\ IsFiniteSet(f.blocks) /\ NoBlock \notin f.blocks
  /\ f.entry \in f.blocks
  /\ \A b \in f.blocks : Range(f.succ[b]) \subseteq f.blocks

\* Blocks are lists of instructions, and end in one that is no PHI.  A PHI
\* has a value, and a block for each operand; an invoke ends its block, which
\* goes on or unwinds; br and debug intrinsics define nothing, and br reads nothing.
WellFormed(f) ==
  \A b \in f.blocks :
    /\ IsSequence(f.code[b]) /\ IsSequence(f.succ[b])
    /\ f.code[b] # <<>> /\ ~IsPhi(Last(f.code[b]))
    /\ \A i \in DOMAIN f.code[b] :
         LET c == f.code[b][i] IN
         /\ c = [op |-> c.op, def |-> c.def, args |-> c.args, from |-> c.from]
         /\ IsSequence(c.args) /\ IsSequence(c.from)
         /\ IsPhi(c) => Len(c.from) = Len(c.args) /\ c.def # NoValue
         /\ c.op = "invoke" => i = Len(f.code[b]) /\ Len(f.succ[b]) = 2
         /\ ~NotDebug(c) \/ IsUnconditional(c) => c.def = NoValue
         /\ IsUnconditional(c) => c.args = <<>>

\* Each value has one definition.
SingleAssignment(f) ==
  \A a, b \in f.blocks : \A i \in DOMAIN f.code[a], j \in DOMAIN f.code[b] :
    f.code[a][i].def = f.code[b][j].def /\ f.code[a][i].def # NoValue => a = b /\ i = j

EdgesBetween(f, p, b) == Cardinality({n \in DOMAIN f.succ[p] : f.succ[p][n] = b})

PhisMatchEdges(f) ==
  \A b \in f.blocks : \A i \in DOMAIN f.code[b] : IsPhi(f.code[b][i]) =>
    LET phi == f.code[b][i] IN
    /\ Range(phi.from) \subseteq f.blocks
    /\ \A p \in f.blocks :
         Cardinality({k \in DOMAIN phi.from : phi.from[k] = p}) = EdgesBetween(f, p, b)
    /\ \A k, m \in DOMAIN phi.from : phi.from[k] = phi.from[m] => phi.args[k] = phi.args[m]

\* Definition <<a, i>> is available in all of block b.  What an invoke returns
\* is there only when every path to b takes its first, the normal, edge.
AvailableIn(f, a, i, b) ==
  /\ Dominates(f, a, b)
  /\ f.code[a][i].op = "invoke" => b \notin Reachable([f EXCEPT !.succ[a] = Tail(@)])

\* Definition <<a, i>> is there on the edges from a to b: what an invoke returns
\* is there when it goes on to b, and does not unwind to b as well.
OnEdge(f, a, i, b) ==
  f.code[a][i].op = "invoke" => f.succ[a][1] = b /\ f.succ[a][2] # b

\* Definition <<a, i>> is available where operand k of instruction <<b, j>>
\* is read: a PHI reads its operand at the end of the incoming block.
DefReachesUse(f, a, i, b, j, k) ==
  LET user == f.code[b][j] IN
  IF IsPhi(user)
  THEN LET p == user.from[k] IN
       p \in Reachable(f) => IF a = p THEN OnEdge(f, a, i, b) ELSE AvailableIn(f, a, i, p)
  ELSE IF a = b THEN i < j ELSE AvailableIn(f, a, i, b)

DefsDominateUses(f) ==
  \A a \in f.blocks : \A i \in {n \in DOMAIN f.code[a] : f.code[a][n].def # NoValue} :
    \A u \in Uses(f, f.code[a][i].def) :
      u[1] \in Reachable(f) => DefReachesUse(f, a, i, u[1], u[2], u[3])

PhisComeFirst(f) ==
  \A b \in f.blocks : \A i \in 2 .. Len(f.code[b]) :
    IsPhi(f.code[b][i]) => IsPhi(f.code[b][i - 1])

EdgesStayInside(f) ==
  \A b \in f.blocks : Range(f.succ[b]) \subseteq f.blocks \ {f.entry}

Verified(f) ==
  /\ f.entry \in f.blocks
  /\ EdgesStayInside(f)
  /\ PhisComeFirst(f)
  /\ PhisMatchEdges(f)
  /\ DefsDominateUses(f)

\* No instruction that can run reads a value whose definition was erased; a PHI
\* does not read what it has for a block that cannot be reached.
PoisonFree(f) ==
  \A u \in Uses(f, Poison) : u[1] \in Reachable(f) =>
    LET user == f.code[u[1]][u[2]] IN IsPhi(user) /\ user.from[u[3]] \notin Reachable(f)
=============================================================================
