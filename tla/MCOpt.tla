-------------------------------- MODULE MCOpt --------------------------------
(***************************************************************************)
(* Small modules for opt.                                                  *)
(***************************************************************************)
EXTENDS Opt

MCFunctionNames == {"main", "f", "ext", "printf", LogFunction, Wrapper}

X == Argument("x", "double")
Y == Argument("y", "double")
N == Argument("n", "i32")

FCmpOf(c, pred, a, b) == Instr("fcmp", Value(<<"user", c>>, "i1"), <<a, b>>, Indirect, {}, pred, "user")
FSubOf(c, a, b) == Plain("fsub", Value(<<"user", c>>, "double"), <<a, b>>, "user")
Invoke(fn, to) == Instr("invoke", NoValue, <<>>, fn, to, {}, "user")
UserCall(fn) == Call(fn, <<>>, "user")

Bodies(bodies) == [g \in MCFunctionNames |-> IF g \in DOMAIN bodies THEN bodies[g] ELSE <<>>]
Parameters(params) == [g \in MCFunctionNames |-> IF g \in DOMAIN params THEN params[g] ELSE <<>>]

\* main has two returns, a loop, direct and indirect calls and a call of a
\* declared function; f calls itself and may not return.
Looping ==
  [names |-> <<"ext", "main", "f">>,
   code |-> Bodies(
     [main |-> << <<FSubOf("d", X, Y), FCmpOf("c", OEQ, X, Y), UserCall("f"), UserCall("f"),
                    Terminator("br", {2, 3})>>,
                  <<UserCall("ext"), Terminator("ret", {})>>,
                  <<UserCall(Indirect), Terminator("br", {3, 4})>>,
                  <<FCmpOf("e", OLT, X, Y), Terminator("ret", {})>> >>,
      f |-> << <<FCmpOf("c", UNE, X, Y), Terminator("br", {2, 3})>>,
               <<Terminator("ret", {})>>,
               <<UserCall("f"), Terminator("unreachable", {})>> >>]),
   params |-> Parameters([main |-> <<N, X, Y>>, f |-> <<X, Y>>]),
   optnone |-> {},
   doubles |-> {X, Y}]

\* main invokes and unwinds, f is optnone, and the program has a function of
\* the name that log-return calls.
Unwinding ==
  [names |-> <<LogFunction, "f", "printf", "main">>,
   code |-> Bodies(
     [main |-> << <<FCmpOf("c", ONE, X, Y), FSubOf("d", X, Y), FCmpOf("e", UEQ, Value(<<"user", "d">>, "double"), X),
                    Invoke("f", {2, 3})>>,
                  <<UserCall("printf"), Terminator("ret", {})>>,
                  <<Terminator("resume", {})>> >>,
      f |-> << <<FCmpOf("c", OEQ, X, Y), UserCall("printf"), Terminator("ret", {})>> >>,
      log_function_return |-> << <<Terminator("br", {2})>>, <<Terminator("ret", {})>> >>]),
   params |-> Parameters([main |-> <<X, Y>>, f |-> <<X, Y>>]),
   optnone |-> {"f"},
   doubles |-> {X, Y}]

\* Declarations only.
Declared ==
  [names |-> <<"main", "ext">>, code |-> Bodies([main |-> <<>>]), params |-> Parameters([main |-> <<>>]),
   optnone |-> {}, doubles |-> {X, Y}]

MCPrograms == {Looping, Unwinding, Declared}

\* A comparison of floats, which only the second run is given.
Z == Argument("z", "float")
Floating ==
  [Looping EXCEPT !.code = Bodies([main |-> << <<FCmpOf("c", OEQ, Z, Z), Terminator("ret", {})>> >>]),
                  !.doubles = {}]
FloatPrograms == {Floating}

\* The pipelines of function passes, each pass beside one that it matters to.
MCFunctionPipelines ==
  { <<"print<opcode-counter>", "log-return", "print<opcode-counter>">>,
    <<"print<find-fcmp-eq>", "convert-fcmp-eq", "print<opcode-counter>">>,
    <<"hello-world", "convert-fcmp-eq">>,
    <<"simplify">>,
    <<"log-return">> }
=============================================================================
