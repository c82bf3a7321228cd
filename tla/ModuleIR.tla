------------------------------- MODULE ModuleIR -------------------------------
(***************************************************************************)
(* An llvm::Module as the passes see it that only add instructions to it,  *)
(* or count what is in it.  It lives outside src/ and is modelled from the *)
(* way those passes use it.                                                *)
(*                                                                         *)
(* The module is a list of function names, in the order in which a walk of *)
(* the module meets them, and the code of each name: a sequence of basic   *)
(* blocks, the entry first, empty for a declaration (and for a name the    *)
(* module does not hold).  A block is a sequence of instructions that ends *)
(* with its terminator, a record                                           *)
(*   op    the name of the opcode;                                         *)
(*   def   the value it defines, NoValue for a void instruction;           *)
(*   args  its operands;                                                   *)
(*   fn    the function a call calls directly, Indirect for a call through *)
(*         a pointer; of a load or store of CounterFor_<f>, that f;        *)
(*   to    the blocks a terminator may go to;                              *)
(*   pred  the predicate of an fcmp;                                       *)
(*   by    the pass that put it there, or "user".                          *)
(* A value has a name and a type; equal values are the same llvm::Value.   *)
(***************************************************************************)
EXTENDS Naturals, FiniteSets, SequencesExt, TLC

Value(name, ty) == [name |-> name, ty |-> ty]
NoValue == Value(<<>>, "void")
Argument(x, ty) == Value(<<"arg", x>>, ty)
Constant(c, ty) == Value(<<"const", c>>, ty)

Indirect == ""

Instr(op, def, args, fn, to, pred, by) ==
  [op |-> op, def |-> def, args |-> args, fn |-> fn, to |-> to, pred |-> pred, by |-> by]

Plain(op, def, args, by) == Instr(op, def, args, Indirect, {}, {}, by)
Call(fn, args, by) == Instr("call", NoValue, args, fn, {}, {}, by)
Terminator(op, to) == Instr(op, NoValue, <<>>, Indirect, to, {}, "user")

\* The blocks of a function one after the other: instructions(Func).
Instructions(body) == FlattenSeq(body)

\* The instructions that occur in a body.
InstructionSet(body) == UNION {Range(body[b]) : b \in DOMAIN body}

\* Blocks, and something in each of them.
IsBody(body) == body \in Seq(Seq(InstructionSet(body)) \ {<<>>})

\* isa<CallBase>
IsCall(i) == i.op \in {"call", "invoke"}

\* CallBase::getCalledFunction is not null.
IsDirectCall(i) == IsCall(i) /\ i.fn # Indirect

\* The list of functions after Module::getOrInsertFunction: a declaration is
\* appended when the name is new.
GetOrInsert(names, f) == IF f \in Range(names) THEN names ELSE Append(names, f)

\* A body with instructions at the first insertion point of its entry.
AtEntry(body, is) == [body EXCEPT ![1] = is \o @]

\* A body with instructions in front of each return.
BeforeReturns(body, is) ==
  [b \in DOMAIN body |->
     IF Last(body[b]).op = "ret" THEN Front(body[b]) \o is \o <<Last(body[b])>> ELSE body[b]]

\* A block, a body, with the instruction that defines v replaced by others.
ReplacingIn(block, v, is) ==
  FlattenSeq([k \in DOMAIN block |-> IF block[k].def = v THEN is ELSE <<block[k]>>])

Replacing(body, v, is) == [b \in DOMAIN body |-> ReplacingIn(body[b], v, is)]
-----------------------------------------------------------------------------
(* What the IR verifier asks of a body, and the ways through it.           *)

\* The blocks passed on the ways from the entry, up to a number of blocks.
Ways(body, depth) ==
  LET from[n \in 1 .. depth] ==
        IF n = 1 THEN {<<1>>}
        ELSE from[n - 1] \cup
             UNION { {Append(w, t) : t \in Last(body[Last(w)]).to} : w \in from[n - 1] }
  IN  from[depth]

\* The instructions executed on a way.
Trace(body, way) == FlattenSeq([k \in DOMAIN way |-> body[way[k]]])

Returning(body, way) == Last(body[Last(way)]).op = "ret"

Bits(ty) == CASE ty \in {"double", "i64"} -> 64
              [] ty \in {"float", "i32"} -> 32
              [] OTHER -> 1

WellTyped(i) ==
  /\ i.op \in {"fsub", "fcmp", "and"} => i.args[1].ty = i.args[2].ty
  /\ i.op \in {"fsub", "and"} => i.def.ty = i.args[1].ty
  /\ i.op = "bitcast" => Bits(i.def.ty) = Bits(i.args[1].ty)

IsOperandFrom(trace, k, v) ==
  v.name[1] \in {"arg", "const"} \/ \E j \in 1 .. k - 1 : trace[j].def = v

\* Blocks end with their only terminator, none goes to the entry, operands
\* have the types the operation asks for, a value is defined once, and on
\* every way before it is used.
VerifiedBody(body, depth) ==
  LET terminators == {"br", "invoke", "ret", "resume", "unreachable"}
      all == Instructions(body)
      defs == {k \in DOMAIN all : all[k].def # NoValue}
  IN  /\ \A b \in DOMAIN body : \A k \in DOMAIN body[b] :
           /\ (body[b][k].op \in terminators) <=> (k = Len(body[b]))
           /\ 1 \notin body[b][k].to
      /\ \A k \in DOMAIN all : WellTyped(all[k])
      /\ \A j, k \in defs : all[j].def = all[k].def => j = k
      /\ \A w \in Ways(body, depth) :
           LET t == Trace(body, w)
           IN  \A k \in DOMAIN t : \A v \in Range(t[k].args) : IsOperandFrom(t, k, v)
=============================================================================
