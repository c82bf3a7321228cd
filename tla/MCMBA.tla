-------------------------------- MODULE MCMBA --------------------------------
(***************************************************************************)
(* Small functions for MBA: two blocks, the first of up to two             *)
(* instructions, the second of one.  Between them they have 4, 8 and       *)
(* 16-bit operations and one that is not on integers, equal operands,      *)
(* constant operands (which the builder folds), and results that the next  *)
(* instruction, or the next block, uses.                                   *)
(***************************************************************************)
EXTENDS MBA, Bitwise

V(name) == <<name, 0>>
I(def, op, width, args) == [def |-> V(def), op |-> op, width |-> width, args |-> args]

\* Instructions that define d and read the 8-bit value x (or the 16-bit w).
Instructions(d, x) ==
  {I(d, op, 8, args) : op \in {"add", "sub"},
                       args \in {<<x, V("b")>>, <<V("a"), x>>, <<x, x>>, <<x, Const(200)>>,
                                 <<Const(77), x>>, <<Const(250), Const(9)>>}}
  \cup {I(d, "mul", 8, <<x, V("b")>>)}
  \cup {I(d, op, 16, <<V("w"), Const(1)>>) : op \in {"add", "sub"}}
  \cup {I(d, op, 0, <<x, x>>) : op \in {"add", "sub"}}
  \cup {I(d, op, 4, <<V("n"), Const(3)>>) : op \in {"add", "sub"}}

First  == {<<>>} \cup {<<i>> : i \in Instructions("x", V("a"))}
Second == {I("y", op, 8, args) : op \in {"add", "sub", "xor"},
                                 args \in {<<V("a"), V("b")>>, <<V("b"), Const(1)>>}}
Third  == {I("z", op, 8, args) : op \in {"add", "sub", "mul"},
                                 args \in {<<V("a"), V("y")>>, <<V("y"), V("y")>>}}

MCFunctions ==
  {<<s \o <<i>>, <<j>> >> : s \in First, i \in Second, j \in Third}
    \cup {<<s, s2>> : s \in First, s2 \in {<<>>} \cup {<<i>> : i \in Second}}
    \cup {<< <<i, k>> >> : i \in {I("x", "add", 8, <<V("a"), V("b")>>),
                                  I("x", "sub", 8, <<V("a"), V("b")>>)},
                           k \in Instructions("y", V("x"))}

InputNames == {V("a"), V("b"), V("w"), V("n")}

MCInputs ==
  {[v \in InputNames |->
      CASE v = V("a") -> p[1] [] v = V("b") -> p[2]
        [] v = V("w") -> 257 * p[1] [] v = V("n") -> p[2] % 16]
     : p \in {0, 1, 127, 128, 255} \X {0, 2, 129, 255}}

\* The bitwise operators of MBA are those of the community module.
ASSUME BitwiseAgree ==
  \A a, b \in 0 .. 255 : Xor8(a, b) = a ^^ b /\ And8(a, b) = a & b
=============================================================================
