---------------------------- MODULE MCDuplicateBB ----------------------------
(***************************************************************************)
(* The functions the duplicate-bb pass is run on.  x is an integer         *)
(* argument, y a float one, and g an integer global variable.              *)
(***************************************************************************)
EXTENDS DuplicateBB

IR0 == INSTANCE MCIR

MCInputs == {"x", "y", "g"}
MCGlobalValues == {"g"}
MCIntegerValues == {"x", "g", "E1", "A1", "A2", "B1", "J1", "p"}
MCNewBlock(b, part) == b \o "." \o part
MCNewValue(v, part) == v \o "." \o part

Function(cd, sc) == [entry |-> "E", blocks |-> DOMAIN cd, code |-> cd, succ |-> sc]

\* What A and the entry may do; a value of A is an integer, a void call, or
\* the float "A3".
BodiesOfE == {<<>>, <<IR0!Add("E", "1", "x")>>}
BodiesOfA == {
  <<>>,
  <<IR0!Store("y")>>,
  <<IR0!Add("A", "1", "x"), IR0!Store("A1"), IR0!Add("A", "2", "A1")>>,
  <<IR0!Dbg, IR0!Call("A", "1", "y"), IR0!Call("A", "3", "A1")>> }

LastOf(body) == LET d == {body[i].def : i \in DOMAIN body} \ {NoValue}
                IN  {"x"} \cup d

\* E, A and a J that reads values of both.
Chains ==
  UNION { {Function([E |-> Append(e, IR0!Br), A |-> Append(a, IR0!Br),
                     J |-> <<IR0!Add("J", "1", u), IR0!Store("J1"), IR0!Ret(v)>>],
                    [E |-> <<"A">>, A |-> <<"J">>, J |-> <<>>]) :
             u \in LastOf(a), v \in LastOf(e)}
          : e \in BodiesOfE, a \in BodiesOfA}

\* E branches to A or around it to J, whose PHI reads a value of A.
Diamonds ==
  UNION { {Function([E |-> Append(e, IR0!CondBr(u)), A |-> Append(a, IR0!Br),
                     J |-> <<IR0!Phi("p", <<u, v>>, <<"E", "A">>), IR0!Store("p"), IR0!Ret("p")>>],
                    [E |-> <<"A", "J">>, A |-> <<"J">>, J |-> <<>>]) :
             u \in LastOf(e), v \in LastOf(a)}
          : e \in BodiesOfE, a \in BodiesOfA}

\* A is a loop on itself, with a PHI.
Loops ==
  UNION { {Function([E |-> Append(e, IR0!Br),
                     A |-> <<IR0!Phi("p", <<"x", v>>, <<"E", "A">>)>> \o a \o <<IR0!CondBr("p")>>,
                     J |-> <<IR0!Store("p"), IR0!Ret(v)>>],
                    [E |-> <<"A">>, A |-> <<"A", "J">>, J |-> <<>>]) :
             v \in {"p"} \cup LastOf(a)}
          : e \in BodiesOfE, a \in BodiesOfA}

\* A loop that leaves the entry unused values in J, an unreachable block B,
\* and a switch with two edges to one block.
Switches ==
  { Function([E |-> <<IR0!Switch("x")>>, A |-> <<IR0!Store("y"), IR0!Br>>,
              B |-> <<IR0!Add("B", "1", "x"), IR0!Br>>,
              J |-> <<IR0!Phi("p", js, <<"E", "E", "A", "B">>), IR0!Ret("p")>>],
             [E |-> <<"A", "J", "J">>, A |-> <<"J">>, B |-> <<"J">>, J |-> <<>>])
    : js \in {<<"x", "x", "y", "B1">>, <<"y", "y", "x", "x">>} }

\* What E's invoke returns, a float, is read by a PHI where it continues, J,
\* and by nothing behind its landing pad, B.
Landings ==
  { Function([E |-> <<IR0!Add("E", "1", "x"), IR0!Instr("invoke", "E2", <<v>>)>>,
              B |-> <<IR0!Instr("landingpad", "lp", <<>>), IR0!Store("lp"), IR0!Br>>,
              J |-> <<IR0!Phi("f", <<"E2", "y">>, <<"E", "B">>), IR0!Store("f"), IR0!Ret("E1")>>],
             [E |-> <<"J", "B">>, B |-> <<"J">>, J |-> <<>>]) : v \in {"x", "E1"} }

Functions0 == Chains \cup Diamonds \cup Loops \cup Switches \cup Landings

\* E invokes; A is where it continues, B its landing pad, and J is behind B.
Invokes ==
  { Function([E |-> <<IR0!Instr("invoke", "E1", <<"x">>)>>,
              A |-> <<IR0!Store("E1"), IR0!Ret("E1")>>,
              B |-> <<IR0!Instr("landingpad", "lp", <<>>), IR0!Store("lp"), IR0!Br>>,
              J |-> <<IR0!Call("J", "1", "x"), IR0!Ret("J1")>>],
             [E |-> <<"A", "B">>, A |-> <<>>, B |-> <<"J">>, J |-> <<>>]) }
=============================================================================
