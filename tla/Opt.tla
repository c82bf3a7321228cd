---------------------------------- MODULE Opt ----------------------------------
(***************************************************************************)
(* The passes of llvm-tutor that instrument a module or count what is in   *)
(* it, run by opt in any order: dynamic-cc, inject-func-call and           *)
(* print<static-cc> on the module, and pipelines of function passes        *)
(* (hello-world, log-return, print<opcode-counter>, print<find-fcmp-eq>,   *)
(* convert-fcmp-eq) that LLVM runs function by function.  Between them     *)
(* stand LLVM's analysis managers: a result is computed when it is first   *)
(* asked for, and kept until a pass reports that it preserves nothing.     *)
(*                                                                         *)
(* simplify stands for a pass of LLVM's own that erases code.              *)
(***************************************************************************)
EXTENDS FCmp

CONSTANTS
  FunctionNames,      \* the names of functions, those the passes add included
  Programs,           \* the modules opt may be given
  FunctionPipelines,  \* the function pipelines in use: sequences of passes
  MaxPasses,          \* bound on the passes and pipelines run on a module
  NoResult            \* an analysis result that is not cached

\* Ways of at most this many blocks are followed, which is once round a loop.
Depth == 5

\* The values of a program have names of their own; a pass that makes a value
\* makes a new one.
IsProgramValue(v) == v = Value(<<"user", v.name[2]>>, v.ty)

\* A body that the IR verifier accepts, with nothing in it from a pass.
IsProgramBody(body) ==
  /\ IsBody(body)
  /\ \A i \in InstructionSet(body) :
       /\ i = Instr(i.op, i.def, i.args, i.fn, i.to, i.pred, "user")
       /\ i.def = NoValue \/ IsProgramValue(i.def)
       /\ i.op = "fcmp" => i.def # NoValue
       /\ IsDirectCall(i) => i.fn \in FunctionNames
       /\ i.op = "ret" => i.to = {}
       /\ i.to \subseteq DOMAIN body
  /\ body # <<>> => VerifiedBody(body, Depth)

\* The modules are well formed and hold no function by the name of the
\* wrapper; a pipeline has a pass.
ASSUME OptAssumption ==
  /\ {"printf", "printf_wrapper", "log_function_return"} \subseteq FunctionNames
  /\ IsFiniteSet(FunctionNames)
  /\ \A p \in Programs :
       /\ p = [names |-> p.names, code |-> p.code, params |-> p.params,
               optnone |-> p.optnone, doubles |-> p.doubles]
       /\ p.names \in Seq(FunctionNames)
       /\ \A i, j \in DOMAIN p.names : p.names[i] = p.names[j] => i = j
       /\ DOMAIN p.code = FunctionNames
       /\ \A f \in FunctionNames :
            /\ p.code[f] # <<>> => f \in Range(p.names)
            /\ IsProgramBody(p.code[f])
       /\ p.code["printf_wrapper"] = <<>>
  /\ \A passes \in FunctionPipelines : passes \in Seq(STRING) /\ passes # <<>>
  /\ MaxPasses \in Nat

VARIABLES
  tool,       \* "opt", or "static" for the stand-alone counter
  source,     \* the module as given, but for what simplify erased of it
  names,      \* its functions, in the order of the module
  code,       \* the body of each function
  dtors,      \* the functions registered to run at exit
  statics,    \* cached result of static-cc
  opcodes,    \* cached results of opcode-counter, per function
  fcmps,      \* cached results of find-fcmp-eq, per function
  callers,    \* CallerResult, the caller map of the whole process
  at,         \* where the walk of a function pipeline stands
  done,       \* the number of passes and pipelines run
  erased      \* history: simplify has erased something

irVars == <<names, code, dtors>>
functionCaches == <<opcodes, fcmps>>
caches == <<statics, opcodes, fcmps>>
vars == <<tool, source, irVars, caches, callers, at, done, erased>>

LogFunction == "log_function_return"
Wrapper == "printf_wrapper"

NoWalk == [passes |-> <<>>, fn |-> 0, pos |-> 0, kept |-> TRUE]
Walking == at # NoWalk

Defined(f) == code[f] # <<>>
Definitions == {f \in FunctionNames : Defined(f)}

\* A program: its functions in order, their bodies, their parameters, and
\* those marked optnone.
Init ==
  /\ tool \in {"opt", "static"}
  /\ source \in Programs
  /\ names = source.names
  /\ code = source.code
  /\ dtors = <<>>
  /\ statics = NoResult
  /\ opcodes = [f \in FunctionNames |-> NoResult]
  /\ fcmps = [f \in FunctionNames |-> NoResult]
  /\ callers = [f \in FunctionNames |-> {}]
  /\ at = NoWalk
  /\ done = 0
  /\ erased = FALSE
-----------------------------------------------------------------------------
(* The pass manager of the module, and its analysis results.               *)

\* The next pass of the module pipeline starts.
NextPass ==
  /\ tool = "opt"
  /\ ~Walking
  /\ done < MaxPasses
  /\ done' = done + 1

\* PreservedAnalyses::all() of a module pass
KeepAll == UNCHANGED caches

\* PreservedAnalyses::none() of a module pass
InvalidateAll ==
  /\ statics' = NoResult
  /\ opcodes' = [f \in FunctionNames |-> NoResult]
  /\ fcmps' = [f \in FunctionNames |-> NoResult]

\* MAM.getResult and FAM.getResult
GetResult(cached, computed) == IF cached # NoResult THEN cached ELSE computed
-----------------------------------------------------------------------------
(* dynamic-cc                                                              *)

Loaded(f, body) == Value(<<"load", f, ToString(Len(body[1]))>>, "i32")
Added(f, body) == Value(<<"add", f, ToString(Len(body[1]))>>, "i32")

CounterAccess(op, def, args, f) == Instr(op, def, args, f, {}, {}, "dynamic-cc")

Increment(f, body) ==
  << CounterAccess("load", Loaded(f, body), <<>>, f),
     Plain("add", Added(f, body), <<Constant("1", "i32"), Loaded(f, body)>>, "dynamic-cc"),
     CounterAccess("store", NoValue, <<Added(f, body)>>, f) >>

\* Mutant: calls are counted when they return.
CountedAtReturn(f) == BeforeReturns(code[f], Increment(f, code[f]))

\* The counter of f goes up at the entry of f.
Counted(f) == AtEntry(code[f], Increment(f, code[f]))

\* The line of the report on f.
ReportLine(f, body) ==
  LET count == Value(<<"count", f, ToString(Len(body))>>, "i32")
  IN  << CounterAccess("load", count, <<>>, f),
         Call("printf", <<Constant("ResultFormatStrIR", "ptr"), Constant(f, "ptr"), count>>, "dynamic-cc") >>

\* The block that prints the report on the functions of the module that are
\* instrumented; body is the wrapper without it.
EnterBlock(body) ==
  <<Call("printf", <<Constant("ResultHeaderStrIR", "ptr")>>, "dynamic-cc")>>
  \o FlattenSeq([k \in DOMAIN names |-> IF Defined(names[k]) THEN ReportLine(names[k], body) ELSE <<>>])
  \o <<Instr("ret", NoValue, <<>>, Indirect, {}, {}, "dynamic-cc")>>

\* runOnModule finds a function to instrument.  A wrapper that exists gets
\* another block, and is registered again.
DynamicCC ==
  LET counted == [f \in FunctionNames |-> IF Defined(f) THEN Counted(f) ELSE code[f]]
  IN  /\ NextPass
      /\ Definitions # {}
      /\ names' = GetOrInsert(GetOrInsert(names, "printf"), Wrapper)
      /\ code' = [counted EXCEPT ![Wrapper] = Append(@, EnterBlock(code[Wrapper]))]
      /\ dtors' = Append(dtors, Wrapper)
      /\ InvalidateAll
      /\ UNCHANGED <<tool, source, callers, at, erased>>

\* It finds none, and returns before it has changed anything.
DynamicCCFindsNothing ==
  /\ NextPass
  /\ Definitions = {}
  /\ KeepAll
  /\ UNCHANGED <<tool, source, irVars, callers, at, erased>>
-----------------------------------------------------------------------------
(* inject-func-call                                                        *)

FirstArgIfInt(f) ==
  LET ps == source.params[f]
  IN  IF ps # <<>> /\ ps[1].ty = "i32" THEN ps[1] ELSE Constant("0", "i32")

Hello(f) ==
  Call("printf", <<Constant("PrintfFormatStr", "ptr"), Constant(f, "ptr"),
                   Constant(ToString(Len(source.params[f])), "i32")>>, "inject-func-call")

Goodbye(f) ==
  Call("printf", <<Constant("HomeWorkFormatStr", "ptr"), Constant(f, "ptr"), FirstArgIfInt(f)>>,
       "inject-func-call")

\* Mutant: only the first return of a function is logged.
LoggingFirstReturn(f, body) ==
  LET returns == {b \in DOMAIN body : Last(body[b]).op = "ret"}
      logged == BeforeReturns(body, <<Goodbye(f)>>)
  IN  [b \in DOMAIN body |-> IF \A c \in returns : b <= c THEN logged[b] ELSE body[b]]

LoggingReturn(f, body) == BeforeReturns(body, <<Goodbye(f)>>)

\* runOnModule, which declares printf before it looks for a function.
InjectFuncCall ==
  /\ NextPass
  /\ Definitions # {}
  /\ names' = GetOrInsert(names, "printf")
  /\ code' = [f \in FunctionNames |->
                IF Defined(f) THEN LoggingReturn(f, AtEntry(code[f], <<Hello(f)>>)) ELSE code[f]]
  /\ InvalidateAll
  /\ UNCHANGED <<tool, source, dtors, callers, at, erased>>

\* Without a function the module has changed all the same, and the pass
\* reports that everything is preserved.
InjectOnlyTheDeclaration ==
  /\ NextPass
  /\ Definitions = {}
  /\ names' = GetOrInsert(names, "printf")
  /\ KeepAll
  /\ UNCHANGED <<tool, source, code, dtors, callers, at, erased>>
-----------------------------------------------------------------------------
(* static-cc and its printer                                               *)

\* A map in which the key has the value, whether it was there or not.
Put(map, key, value) == [k \in DOMAIN map \cup {key} |-> IF k = key THEN value ELSE map[k]]

\* Mutant: a key is inserted with one already counted.
CountFromOne(counts, key) == Put(counts, key, IF key \in DOMAIN counts THEN counts[key] + 1 ELSE 2)

\* One more of a key in a map of counts, which starts without keys.
CountOne(counts, key) == Put(counts, key, IF key \in DOMAIN counts THEN counts[key] + 1 ELSE 1)

NoCounts == [key \in {} |-> 0]

CountAll(keys) == FoldLeft(CountOne, NoCounts, keys)

\* The functions called directly, in the order of the calls.
Callees(is) == FlattenSeq([k \in DOMAIN is |-> IF IsDirectCall(is[k]) THEN <<is[k].fn>> ELSE <<>>])

\* All instructions of a module; the order of its functions does not matter
\* to what is counted.
ModuleInstructions(cd) ==
  LET fs == SetToSeq(FunctionNames) IN FlattenSeq([k \in DOMAIN fs |-> Instructions(cd[fs[k]])])

StaticCounts(cd) == CountAll(Callees(ModuleInstructions(cd)))

CallsDirectly(cd, f, g) ==
  \E b \in DOMAIN cd[f] : \E k \in DOMAIN cd[f][b] : IsDirectCall(cd[f][b][k]) /\ cd[f][b][k].fn = g

CallersOf(cd, g) == {f \in FunctionNames : CallsDirectly(cd, f, g)}

\* Mutant: the caller is noted where the callee is first inserted.
FirstCallersAdded ==
  [g \in FunctionNames |->
     IF callers[g] # {} \/ CallersOf(code, g) = {} THEN callers[g]
     ELSE {CHOOSE f \in CallersOf(code, g) : TRUE}]

CallersAdded == [g \in FunctionNames |-> callers[g] \cup CallersOf(code, g)]

\* The analysis runs when its result is not cached; then it also adds to the
\* caller map.
RequestStaticCC ==
  /\ statics' = GetResult(statics, StaticCounts(code))
  /\ callers' = IF statics # NoResult THEN callers ELSE CallersAdded
  /\ UNCHANGED <<tool, source, irVars, opcodes, fcmps, at, erased>>

PrintStaticCC ==
  /\ NextPass
  /\ RequestStaticCC

\* The stand-alone tool: an analysis manager of its own, one pass, the end.
CountStaticCalls ==
  /\ tool = "static"
  /\ done = 0 /\ ~Walking
  /\ done' = MaxPasses
  /\ RequestStaticCC
-----------------------------------------------------------------------------
(* LLVM's walk of the module with a pipeline of function passes.  The list *)
(* of functions may grow while it is walked.                               *)

StartPipeline(passes) ==
  /\ NextPass
  /\ at' = [passes |-> passes, fn |-> 1, pos |-> 1, kept |-> TRUE]
  /\ UNCHANGED <<tool, source, irVars, caches, callers, erased>>

AtFunction(f) == Walking /\ at.fn <= Len(names) /\ names[at.fn] = f

\* Pass p is next, and f is the function it is run on.
Running(p, f) == AtFunction(f) /\ Defined(f) /\ at.passes[at.pos] = p

\* The pass returns, having preserved the analyses of the module or not.
Advance(preserved) ==
  at' = [at EXCEPT !.fn = IF at.pos < Len(at.passes) THEN @ ELSE @ + 1,
                   !.pos = IF @ < Len(at.passes) THEN @ + 1 ELSE 1,
                   !.kept = @ /\ preserved]

\* PreservedAnalyses::none() of a pass on f
Invalidate(f) ==
  /\ opcodes' = [opcodes EXCEPT ![f] = NoResult]
  /\ fcmps' = [fcmps EXCEPT ![f] = NoResult]
  /\ UNCHANGED statics

\* The pass reports PreservedAnalyses::all().
PreservesAll == Advance(TRUE) /\ UNCHANGED caches

PreservesNone(f) == Advance(FALSE) /\ Invalidate(f)

PassOverDeclaration(f) ==
  /\ AtFunction(f)
  /\ ~Defined(f)
  /\ at' = [at EXCEPT !.fn = @ + 1]
  /\ UNCHANGED <<tool, source, irVars, caches, callers, done, erased>>

EndPipeline ==
  /\ Walking
  /\ at.fn > Len(names)
  /\ statics' = IF at.kept THEN statics ELSE NoResult
  /\ at' = NoWalk
  /\ UNCHANGED <<tool, source, irVars, functionCaches, callers, done, erased>>

\* A pass that does not say it is required is not run on an optnone function.
SkipOptnone(f) ==
  /\ f \in source.optnone
  /\ Running("print<find-fcmp-eq>", f) \/ Running("simplify", f)
  /\ PreservesAll
  /\ UNCHANGED <<tool, source, irVars, callers, done, erased>>
-----------------------------------------------------------------------------
(* The function passes                                                     *)

HelloWorld(f) ==
  /\ Running("hello-world", f)
  /\ PreservesAll
  /\ UNCHANGED <<tool, source, irVars, callers, done, erased>>

\* Mutant: a declaration for each function that is logged.
DeclaredAgain == Append(names, LogFunction)

WithLogFunction == GetOrInsert(names, LogFunction)

\* Mutant: the pass reports that it preserves everything.
LogReturnPreservesAll(f) == PreservesAll

LogReturnPreserves(f) == PreservesNone(f)

LogReturn(f) ==
  /\ Running("log-return", f)
  /\ f # LogFunction
  /\ names' = WithLogFunction
  /\ code' = [code EXCEPT ![f] =
       BeforeReturns(@, <<Call(LogFunction, <<Constant("Returning from " \o f, "ptr")>>, "log-return")>>)]
  /\ LogReturnPreserves(f)
  /\ UNCHANGED <<tool, source, dtors, callers, done, erased>>

\* The function that logs is not logged.
LogReturnSkips(f) ==
  /\ Running("log-return", f)
  /\ f = LogFunction
  /\ PreservesAll
  /\ UNCHANGED <<tool, source, irVars, callers, done, erased>>

Opcodes(is) == [k \in DOMAIN is |-> is[k].op]

OpcodeCounts(body) == CountAll(Opcodes(Instructions(body)))

PrintOpcodes(f) ==
  /\ Running("print<opcode-counter>", f)
  /\ opcodes' = [opcodes EXCEPT ![f] = GetResult(@, OpcodeCounts(code[f]))]
  /\ Advance(TRUE)
  /\ UNCHANGED <<tool, source, irVars, statics, fcmps, callers, done, erased>>

Comparisons(f) == GetResult(fcmps[f], FindFCmpEq(code[f]))

PrintFCmpEq(f) ==
  /\ f \notin source.optnone
  /\ Running("print<find-fcmp-eq>", f)
  /\ fcmps' = [fcmps EXCEPT ![f] = Comparisons(f)]
  /\ Advance(TRUE)
  /\ UNCHANGED <<tool, source, irVars, statics, opcodes, callers, done, erased>>

\* There is a comparison to convert: f is not optnone, and the list has one
\* that still is an equality.
Converts(f) ==
  /\ f \notin source.optnone
  /\ \E k \in DOMAIN Comparisons(f) : IsEquality(Pointee(code[f], Comparisons(f)[k]))

\* Every comparison of the list in turn; the list is the cached one, and the
\* pass is done with it when it is dropped.
ConvertFCmpEq(f) ==
  /\ Running("convert-fcmp-eq", f)
  /\ Converts(f)
  /\ code' = [code EXCEPT ![f] = FoldLeft(ConvertFCmpEqInstruction, @, Comparisons(f))]
  /\ PreservesNone(f)
  /\ UNCHANGED <<tool, source, names, dtors, callers, done, erased>>

\* Modified stays false; the list has been asked for all the same.
ConvertNothing(f) ==
  /\ Running("convert-fcmp-eq", f)
  /\ ~Converts(f)
  /\ fcmps' = [fcmps EXCEPT ![f] = Comparisons(f)]
  /\ Advance(TRUE)
  /\ UNCHANGED <<tool, source, irVars, statics, opcodes, callers, done, erased>>

\* The places of block b whose call or comparison can be erased, which leaves
\* a valid body.
Erasable(f, b) ==
  {k \in DOMAIN code[f][b] :
     LET i == code[f][b][k]
     IN  /\ i.by = "user"
         /\ i.op \in {"call", "fcmp"}
         /\ i.def # NoValue => \A j \in InstructionSet(code[f]) : i.def \notin Range(j.args)}

\* The place among the program's instructions of a block.
PlaceInProgram(block, k) == Cardinality({j \in 1 .. k : block[j].by = "user"})

\* A pass of LLVM's erases one instruction of the program.
Simplify(f) ==
  /\ f \notin source.optnone
  /\ Running("simplify", f)
  /\ \E b \in DOMAIN code[f] : \E k \in Erasable(f, b) :
       /\ code' = [code EXCEPT ![f][b] = RemoveAt(@, k)]
       /\ source' = [source EXCEPT !.code[f][b] = RemoveAt(@, PlaceInProgram(code[f][b], k))]
  /\ erased' = TRUE
  /\ PreservesNone(f)
  /\ UNCHANGED <<tool, names, dtors, callers, done>>

SimplifyNothing(f) ==
  /\ f \notin source.optnone
  /\ Running("simplify", f)
  /\ PreservesAll
  /\ UNCHANGED <<tool, source, irVars, callers, done, erased>>

\* opt has run its pipeline and writes the module.
Finished == done = MaxPasses /\ ~Walking /\ UNCHANGED vars

ModulePass ==
  \/ DynamicCC \/ DynamicCCFindsNothing
  \/ InjectFuncCall \/ InjectOnlyTheDeclaration
  \/ PrintStaticCC \/ CountStaticCalls
  \/ \E passes \in FunctionPipelines : StartPipeline(passes)

FunctionPass(f) ==
  \/ PassOverDeclaration(f) \/ SkipOptnone(f)
  \/ HelloWorld(f) \/ LogReturn(f) \/ LogReturnSkips(f)
  \/ PrintOpcodes(f) \/ PrintFCmpEq(f)
  \/ ConvertFCmpEq(f) \/ ConvertNothing(f)
  \/ Simplify(f) \/ SimplifyNothing(f)

Next == ModulePass \/ (\E f \in FunctionNames : FunctionPass(f)) \/ EndPipeline \/ Finished

Spec == Init /\ [][Next]_vars
-----------------------------------------------------------------------------
(* Properties.                                                             *)

\* The variables range over what their comments say: the list of functions
\* holds no name twice, and every function that has a body.
TypeOK ==
  /\ names \in Seq(FunctionNames)
  /\ \A i, j \in DOMAIN names : names[i] = names[j] => i = j
  /\ DOMAIN code = FunctionNames
  /\ \A f \in FunctionNames : Defined(f) => f \in Range(names)
  /\ dtors \in Seq({Wrapper})
  /\ DOMAIN opcodes = FunctionNames
  /\ DOMAIN fcmps = FunctionNames
  /\ callers \in [FunctionNames -> SUBSET FunctionNames]
  /\ at \in [passes : FunctionPipelines \cup {<<>>}, fn : Nat, pos : Nat, kept : BOOLEAN]
  /\ Walking => at.fn \in 1 .. Len(names) + 1 /\ at.pos \in DOMAIN at.passes
  /\ done \in 0 .. MaxPasses
  /\ erased \in BOOLEAN

\* A result of static-cc that a module pass would be given.
StaticsCached == statics # NoResult /\ (Walking => at.kept)

\* No pass is ever given an analysis result about code that has changed
\* since: what a pass reports as preserved, it has not touched.  The result
\* of a module analysis may be out of date while a pipeline of function
\* passes is under way, where nothing can ask for it.
CachedResultsAreCurrent ==
  /\ StaticsCached => statics = StaticCounts(code)
  /\ \A f \in FunctionNames :
       /\ opcodes[f] # NoResult => opcodes[f] = OpcodeCounts(code[f])
       /\ fcmps[f] # NoResult => fcmps[f] = FindFCmpEq(code[f])

\* The places of a body whose instruction passes a test.
Places(body, Test(_)) ==
  UNION { {<<b, k>> : k \in {j \in DOMAIN body[b] : Test(body[b][j])}} : b \in DOMAIN body }

\* What is printed is right: a callee has a line if it is called directly,
\* with the number of the call sites, and an opcode if it is used, with the
\* number of its uses, however many passes the module has been through.
CountsAreRight ==
  /\ StaticsCached =>
       LET sites(g) == UNION { {f} \X Places(code[f], LAMBDA i : IsDirectCall(i) /\ i.fn = g)
                               : f \in FunctionNames }
       IN  /\ DOMAIN statics = {g \in FunctionNames : sites(g) # {}}
           /\ \A g \in DOMAIN statics : statics[g] = Cardinality(sites(g))
  /\ \A f \in FunctionNames : opcodes[f] # NoResult =>
       /\ DOMAIN opcodes[f] = {i.op : i \in Range(Instructions(code[f]))}
       /\ \A op \in DOMAIN opcodes[f] :
            opcodes[f][op] = Cardinality(Places(code[f], LAMBDA i : i.op = op))

\* The caller map, which nothing ever resets, names every caller of every
\* callee whenever the counts that are printed with it are up to date; and
\* nobody else, as long as no code is erased.
CallersAreExact ==
  StaticsCached => \A g \in FunctionNames :
    IF erased THEN CallersOf(code, g) \subseteq callers[g] ELSE CallersOf(code, g) = callers[g]

\* The functions of the program that have a body, and the ways through one of
\* them that end: at a return, or where the program dies or unwinds.
ProgramFunctions == {f \in FunctionNames : source.code[f] # <<>>}

EndedWays(f) == {w \in Ways(code[f], Depth) : Last(code[f][Last(w)]).to = {}}

\* Whatever passes have run and in whatever order, the IR verifier accepts
\* every body.
ValidIR == \A f \in Definitions : VerifiedBody(code[f], Depth)

IsHello(i) == i.by = "inject-func-call" /\ i.args[1].name[2] = "PrintfFormatStr"
IsGoodbye(i) == i.by = "inject-func-call" /\ i.args[1].name[2] = "HomeWorkFormatStr"
IsLogged(i) == i.by = "log-return"

\* What loggingReturn adds to the hello that the header of the file, the
\* documentation and the test of inject-func-call expect and nothing else.
\* A call that returns says goodbye as often as it said hello, on every way
\* through the function, the hellos before anything the program does and the
\* goodbyes after it, with the name of that function; a call that does not
\* return says no goodbye; and log-return logs each return equally often.
EveryReturnIsLogged ==
  \A f \in ProgramFunctions :
    LET logs(w) == LET t == Trace(code[f], w) IN Cardinality({k \in DOMAIN t : IsLogged(t[k])})
        returns == {w \in EndedWays(f) : Returning(code[f], w)}
    IN  /\ \A v, w \in returns : logs(v) = logs(w)
        /\ \A w \in EndedWays(f) :
             LET t == Trace(code[f], w)
                 hellos == {k \in DOMAIN t : IsHello(t[k])}
                 goodbyes == {k \in DOMAIN t : IsGoodbye(t[k])}
                 own == {k \in DOMAIN t : t[k].by = "user" /\ t[k].op # "ret"}
             IN  /\ Cardinality(goodbyes) = IF w \in returns THEN Cardinality(hellos) ELSE 0
                 /\ w \notin returns => logs(w) = 0
                 /\ \A k \in own : (\A j \in hellos : j < k) /\ (\A j \in goodbyes : k < j)
                 /\ \A k \in hellos \cup goodbyes : t[k].args[2] = Constant(f, "ptr")

\* One instruction of the counting code: the counters are memory, the other
\* values are registers.
CountStep(m, i) ==
  IF i.by # "dynamic-cc" THEN m
  ELSE CASE i.op = "load"  -> [m EXCEPT !.reg = Put(@, i.def, m.mem[i.fn])]
         [] i.op = "add"   -> [m EXCEPT !.reg = Put(@, i.def, m.reg[i.args[2]] + 1)]
         [] i.op = "store" -> [m EXCEPT !.mem[i.fn] = m.reg[i.args[1]]]
         [] OTHER          -> m

NothingCounted == [mem |-> [f \in FunctionNames |-> 0], reg |-> [v \in {NoValue} |-> 0]]

\* What one run of f along a way leaves in the counters.
CountedAlong(f, w) == FoldLeft(CountStep, NothingCounted, Trace(code[f], w)).mem

IsLineOn(i, f) == i.op = "call" /\ i.by = "dynamic-cc" /\ Len(i.args) = 3 /\ i.args[2] = Constant(f, "ptr")

\* The lines on f that the registered destructors print: each runs its
\* function from the first block.
LinesOn(f) ==
  IF dtors = <<>> THEN 0
  ELSE LET block == code[Wrapper][1]
       IN  Len(dtors) * Cardinality({k \in DOMAIN block : IsLineOn(block[k], f)})

\* A call of f counts itself the same number of times on every way through f,
\* those that do not return included, and counts nothing else; and there are
\* as many lines on f in the report.  One line for one run of dynamic-cc,
\* that is; a second run doubles the counts and prints each line twice.
ReportedAsCounted ==
  \A f \in ProgramFunctions : \A w \in EndedWays(f) :
    CountedAlong(f, w) = [NothingCounted.mem EXCEPT ![f] = LinesOn(f)]

\* An equality that may be converted, or a comparison with epsilon, which is
\* what it is converted to.
MayConvert(i) == i.op = "fcmp" /\ (i.pred \in Equalities \/ EpsilonValue \in Range(i.args))

\* What every pass keeps of an instruction: all of it, but a conversion gives
\* an equality other operands and another predicate.
Kept(i) == IF MayConvert(i) THEN [i EXCEPT !.args = <<>>, !.pred = {}] ELSE i

\* The code of the program: a converted comparison is still the program's.
Own(block) ==
  FlattenSeq([k \in DOMAIN block |-> IF block[k].by = "user" THEN <<Kept(block[k])>> ELSE <<>>])

\* Passes that add code leave the program's instructions where they are and
\* as they are: none is lost, moved or made anew, none reads another operand,
\* and the only ones that change at all are equalities that are converted.
ProgramIsKept ==
  \A f \in ProgramFunctions :
    /\ DOMAIN code[f] = DOMAIN source.code[f]
    /\ \A b \in DOMAIN code[f] : Own(code[f][b]) = Own(source.code[f][b])

\* Between passes, an equality of the program that has been converted gives
\* the opposite answer on exactly those pairs, and on all others, NaN and the
\* two zeros included, the answer it gave before; what has not been converted
\* always gives its answer.
ComparisonsAgree ==
  ~Walking => \A f \in ProgramFunctions : \A b \in DOMAIN source.code[f] :
    LET comparisons == {i \in Range(source.code[f][b]) : i.op = "fcmp"}
        converted == {i \in comparisons : Pointee(code[f], i.def).pred # i.pred}
        now == SelectSeq(code[f][b], OnDoubles)
    IN  comparisons # {} => \A env \in [source.doubles -> Doubles] :
          LET before == Evaluate(source.code[f][b], env)
              after == Evaluate(now, env)
          IN  \A i \in comparisons :
                (after[i.def] # before[i.def]) <=>
                  /\ i \in converted
                  /\ Confused(i.pred, ReadDouble(before, i.args[1]), ReadDouble(before, i.args[2]))
=============================================================================
