------------------------------ MODULE MCPipeline ------------------------------
(***************************************************************************)
(* Small functions for both passes, one after the other.  The blocks A and *)
(* B are siblings in front of J, so that the second pass also finds tails  *)
(* and blocks of the function itself to merge.                             *)
(***************************************************************************)
EXTENDS Pipeline

IR0 == INSTANCE MCIR

MCInputs == {"x", "y", "g"}
MCGlobalValues == {"g"}
MCIntegerValues == {"g", "E1"}
MCNewBlock(b, part) == b \o "." \o part
MCNewValue(v, part) == v \o "." \o part
MCBlock == {"E", "A", "B", "J"}
             \cup {b \o "." \o part : b \in {"E", "A", "B", "J"}, part \in {"then", "else", "tail"}}

Function(cd, sc) == [entry |-> "E", blocks |-> DOMAIN cd, code |-> cd, succ |-> sc]

\* The entry has no integer but the global, and is not duplicated; the other
\* blocks choose between the global and the entry's value.
Entry(exit) == <<IR0!Call("E", "1", "y"), exit>>

Lines(bodies) ==
  { Function([E |-> Entry(IR0!Br), A |-> Append(a, IR0!Ret(v))],
             [E |-> <<"A">>, A |-> <<>>])
    : a \in bodies, v \in {"x", "E1"} }

SimpleBodies == {
  <<>>,
  <<IR0!Store("y")>>,
  <<IR0!Add("A", "1", "x")>>,
  <<IR0!Store("x"), IR0!Dbg, IR0!Call("A", "1", "y")>> }
ChainedBodies == {<<IR0!Add("A", "1", "x"), IR0!Add("A", "2", "A1")>>}

Forks ==
  { Function([E |-> Entry(IR0!CondBr("y")), A |-> <<IR0!Store("x"), IR0!Br>>,
              B |-> Append(b, IR0!Br), J |-> <<IR0!Ret("x")>>],
             [E |-> <<"A", "B">>, A |-> <<"J">>, B |-> <<"J">>, J |-> <<>>])
    : b \in {<<IR0!Store("x")>>, <<IR0!Call("B", "1", "x")>>} }

Functions0 == Lines(SimpleBodies \cup ChainedBodies) \cup Forks

\* The functions handed to the passes are ones the IR verifier accepts.
ASSUME FunctionsAreVerified == \A g \in Functions : Verified(g)
=============================================================================
