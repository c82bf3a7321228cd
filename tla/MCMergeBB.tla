------------------------------ MODULE MCMergeBB ------------------------------
(***************************************************************************)
(* The functions the merge-bb pass is run on.                              *)
(***************************************************************************)
EXTENDS MergeBB, MCIR

(***************************************************************************)
(* Siblings: E branches to A, B and C, which all branch to J.  J has no    *)
(* PHI, one, or two; the PHI reads a value of the sibling or an argument.  *)
(***************************************************************************)
Bodies(b) == <<
  <<>>,
  <<Add(b, "1", "x")>>,
  <<Add(b, "1", "y")>>,
  <<Store("x")>>,
  <<Call(b, "1", "x")>>,
  <<Dbg, Add(b, "1", "x")>>,
  <<Add(b, "1", "x"), Store(b \o "1")>>,
  <<Add(b, "1", "x"), Store("x")>>,
  <<Add(b, "1", "x"), Dbg, Add(b, "2", "x")>> >>

\* What a PHI of J may read on the edge from b with this body.
Incoming(body) == {"x", "y"} \cup ({body[i].def : i \in DOMAIN body} \ {NoValue})

JoinOf(a, b, c, count) ==
  IF count = 0 THEN <<Ret("x")>>
  ELSE IF count = 1 THEN <<Phi("p", <<a, b, c>>, <<"A", "B", "C">>), Ret("p")>>
  ELSE <<Phi("p", <<a, b, c>>, <<"A", "B", "C">>),
         Phi("q", <<"x", "y", "x">>, <<"A", "B", "C">>), Store("q"), Ret("p")>>

SiblingFunction(bodies, in, count) ==
  Function(MCBlock,
    [E |-> <<Switch("x")>>, A |-> Append(bodies[1], Br), B |-> Append(bodies[2], Br),
     C |-> Append(bodies[3], Br), J |-> JoinOf(in[1], in[2], in[3], count)],
    [E |-> <<"A", "B", "C">>, A |-> <<"J">>, B |-> <<"J">>, C |-> <<"J">>, J |-> <<>>])

\* Each pair of bodies once: A and B are tried in either order.  The third
\* sibling does nothing, or adds.
Siblings ==
  UNION { UNION { {SiblingFunction(<<a, b, c>>, in, count) :
                      in \in Incoming(a) \X Incoming(b) \X Incoming(c), count \in 0 .. 2}
                  : a \in {Bodies("A")[i] : i \in 1 .. j}, b \in {Bodies("B")[j]},
                    c \in {Bodies("C")[k] : k \in 1 .. 2}}
          : j \in DOMAIN Bodies("B")}

(***************************************************************************)
(* AnyCfg: every control-flow graph of the entry and three more blocks.    *)
(***************************************************************************)
StoringBodies == {[b \in Targets |-> IF b \in stores THEN <<Store("x")>> ELSE <<>>] :
                    stores \in {{}, {"C"}, {"A", "B"}}}

AnyCfg == CfgFunctions({ <<<<CondBr("y")>>, <<"A", "B">>>> }, StoringBodies)
AnyCfgWithUnreachable == CfgFunctions({ <<<<Br>>, <<"A">>>> }, StoringBodies)

(***************************************************************************)
(* Loops: A leads to J, J leads to B or out of the loop, and B leads back  *)
(* to J.  A dominates the loop, so its value may be read anywhere in it.   *)
(***************************************************************************)
LoopFunction(bodyA, bodyB, extra, inA, inB, out) ==
  Function(MCBlock,
    [E |-> <<Br>>,
     A |-> Append(bodyA, Br),
     B |-> bodyB \o extra \o <<Br>>,
     J |-> <<Phi("p", <<inA, inB>>, <<"A", "B">>), CondBr("p")>>,
     C |-> <<Ret(out)>>],
    [E |-> <<"A">>, A |-> <<"J">>, B |-> <<"J">>, J |-> <<"B", "C">>, C |-> <<>>])

LoopBodies(b) == {<<>>, <<Add(b, "1", "x")>>, <<Call(b, "1", "x")>>, <<Store("x")>>}

Loops ==
  UNION { {LoopFunction(a, b, extra, inA, inB, out) :
             extra \in {<<>>} \cup {<<Store(v)>> : v \in Incoming(a) \ {"y"}},
             inA \in Incoming(a),
             inB \in {"p"} \cup Incoming(b) \cup Incoming(a),
             out \in {"p"} \cup Incoming(a)}
          : a \in LoopBodies("A"), b \in LoopBodies("B")}

(***************************************************************************)
(* PhiSiblings: A and B hold a PHI each, as in loop-closed SSA form.       *)
(***************************************************************************)
PhiSiblings ==
  {Function(MCBlock,
     [E |-> <<Switch("x")>>, C |-> <<CondBr("y")>>,
      A |-> <<Phi("A1", <<"x", v>>, <<"E", "C">>), Br>>,
      B |-> <<Phi("B1", <<"x", "y">>, <<"E", "C">>), Br>>,
      J |-> <<Phi("p", <<"A1", "B1">>, <<"A", "B">>), Ret("p")>>],
     [E |-> <<"A", "B", "C">>, C |-> <<"A", "B">>, A |-> <<"J">>, B |-> <<"J">>, J |-> <<>>])
   : v \in {"x", "y"}}

\* IndirectSiblings: B is reached by a branch and by C's indirectbr.
IndirectSiblings ==
  {Function(MCBlock,
     [E |-> <<Switch("x")>>, C |-> <<Instr("indirectbr", NoValue, <<"y">>)>>,
      A |-> Append(body, Br), B |-> Append(body, Br), J |-> <<Ret("x")>>],
     [E |-> <<"A", "B", "C">>, C |-> <<"B">>, A |-> <<"J">>, B |-> <<"J">>, J |-> <<>>])
   : body \in {<<>>, <<Store("x")>>}}

\* UnreachablePhi: nothing leads to A, B and J, and J's PHI is its own operand
\* on both edges.
UnreachablePhi ==
  {Function(MCBlock,
     [E |-> <<Br>>, A |-> <<Br>>, B |-> <<Br>>,
      J |-> <<Phi("p", <<"p", "p">>, <<"A", "B">>), Br>>,
      C |-> <<Phi("q", <<"x", "p">>, <<"E", "J">>), Ret("q")>>],
     [E |-> <<"C">>, A |-> <<"J">>, B |-> <<"J">>, J |-> <<"C">>, C |-> <<>>])}

\* What the passing run is about.
Functions0 == Siblings \cup AnyCfg \cup Loops \cup IndirectSiblings \cup UnreachablePhi

\* The hypothesis of the theorems on ValidIR and NothingPoisoned holds here.
ASSUME Functions0TellsApart == PhisTellApart(Functions0)
=============================================================================
