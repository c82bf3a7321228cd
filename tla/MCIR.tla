-------------------------------- MODULE MCIR --------------------------------
(***************************************************************************)
(* Building blocks for the small functions the models are run on.  "x" and *)
(* "y" are arguments of the function, "A1" is the first value defined in   *)
(* block A, "p" and "q" are PHIs.                                          *)
(***************************************************************************)
EXTENDS IR

Instr(op, def, args) == [op |-> op, def |-> def, args |-> args, from |-> <<>>]
Phi(def, args, from) == [op |-> "phi", def |-> def, args |-> args, from |-> from]

Store(v) == Instr("store", NoValue, <<v>>)
Add(b, n, v) == Instr("add", b \o n, <<v, v>>)
Call(b, n, v) == Instr("call", b \o n, <<v>>)
Dbg == Instr("dbg", NoValue, <<"x">>)
Br == Instr("br", NoValue, <<>>)
CondBr(v) == Instr("condbr", NoValue, <<v>>)
Switch(v) == Instr("switch", NoValue, <<v>>)
Ret(v) == Instr("ret", NoValue, <<v>>)

MCBlock == {"E", "A", "B", "C", "J"}

\* A function over MCBlock from the code and successors of some of its blocks.
Function(live, cd, sc) ==
  [entry  |-> "E",
   blocks |-> live,
   code   |-> [b \in MCBlock |-> IF b \in live THEN cd[b] ELSE <<Br>>],
   succ   |-> [b \in MCBlock |-> IF b \in live THEN sc[b] ELSE <<>>]]

(***************************************************************************)
(* Control-flow graphs of the entry and three more blocks, with loops,     *)
(* self-loops and unreachable blocks, without PHIs.                        *)
(***************************************************************************)
Targets == {"A", "B", "C"}

Exits == {<<Br, <<t>>>> : t \in Targets}
         \cup {<<CondBr("x"), <<t, u>>>> : t \in {"A", "B"}, u \in Targets}
         \cup {<<Ret("x"), <<>>>>}

\* first holds the code and the targets of the entry, bodies the instructions
\* of the other blocks in front of their terminators.
CfgFunction(first, exits, bodies) ==
  Function({"E"} \cup Targets,
    [b \in {"E"} \cup Targets |->
       IF b = "E" THEN first[1] ELSE Append(bodies[b], exits[b][1])],
    [b \in {"E"} \cup Targets |-> IF b = "E" THEN first[2] ELSE exits[b][2]])

CfgFunctions(firsts, bodies) ==
  {CfgFunction(first, exits, body) :
     first \in firsts, exits \in [Targets -> Exits], body \in bodies}
=============================================================================
