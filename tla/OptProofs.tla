------------------------------ MODULE OptProofs ------------------------------
(***************************************************************************)
(* What holds of opt and its passes for every module, every pipeline and   *)
(* every number of passes: the variables keep their types, no pass is      *)
(* given an analysis result about code that has changed since, what is     *)
(* printed are the counts of the code, the caller map names every caller   *)
(* and, until code is erased, nobody else, the instructions of the         *)
(* program stay where they are, every return takes leave as often as the   *)
(* call was greeted, and the report prints as many lines on a function as  *)
(* a call of it counts.                                                    *)
(***************************************************************************)
EXTENDS Opt, FCmpProofs

\* The list of functions stays a list without repetitions when a name is
\* looked up or inserted, and loses nothing.
LEMMA GetOrInsertList ==
  ASSUME NEW ns \in Seq(FunctionNames), NEW f \in FunctionNames,
         \A i, j \in DOMAIN ns : ns[i] = ns[j] => i = j
  PROVE  LET r == GetOrInsert(ns, f)
         IN  /\ r \in Seq(FunctionNames)
             /\ \A i, j \in DOMAIN r : r[i] = r[j] => i = j
             /\ Range(ns) \subseteq Range(r)
             /\ f \in Range(r)
             /\ Len(ns) <= Len(r)
  <1>1. CASE f \in Range(ns)
    BY <1>1 DEF GetOrInsert
  <1>2. CASE f \notin Range(ns)
    <2>1. GetOrInsert(ns, f) = Append(ns, f)
      BY <1>2 DEF GetOrInsert
    <2>2. \A i \in DOMAIN ns : ns[i] # f
      BY <1>2 DEF Range
    <2>3. /\ Append(ns, f)[Len(ns) + 1] = f /\ Len(ns) + 1 \in DOMAIN Append(ns, f)
          /\ \A i \in DOMAIN ns : i \in DOMAIN Append(ns, f) /\ Append(ns, f)[i] = ns[i]
      OBVIOUS
    <2>4. f \in Range(Append(ns, f))
      BY <2>3, Zenon DEF Range
    <2>5. Range(ns) \subseteq Range(Append(ns, f))
      BY <2>3, Zenon DEF Range
    <2>. QED  BY <2>1, <2>2, <2>4, <2>5
  <1>. QED  BY <1>1, <1>2
-----------------------------------------------------------------------------
(* Types.                                                                  *)

LEMMA PipelinesHavePasses ==
  ASSUME NEW ps \in FunctionPipelines
  PROVE  /\ ps \in Seq(STRING) /\ ps # <<>>
         /\ Len(ps) \in Nat \ {0}
         /\ DOMAIN ps = 1 .. Len(ps)
  BY OptAssumption DEF OptAssumption

\* The part of TypeOK about the list of functions and the place in it.
WalkTyped ==
  /\ at \in [passes : FunctionPipelines \cup {<<>>}, fn : Nat, pos : Nat, kept : BOOLEAN]
  /\ Walking => at.fn \in 1 .. Len(names) + 1 /\ at.pos \in DOMAIN at.passes

\* A walk that passes on to the next pass or function stays in the pipeline
\* and in the list, which may have grown.
LEMMA AdvanceStaysInList ==
  ASSUME TypeOK, NEW f \in FunctionNames, AtFunction(f),
         NEW preserved \in BOOLEAN, Advance(preserved),
         names' \in Seq(FunctionNames), Len(names) <= Len(names')
  PROVE  WalkTyped'
  <1>1. /\ at \in [passes : FunctionPipelines \cup {<<>>}, fn : Nat, pos : Nat, kept : BOOLEAN]
        /\ at.fn \in 1 .. Len(names) /\ at.pos \in DOMAIN at.passes
        /\ names \in Seq(FunctionNames)
    BY DEF TypeOK, AtFunction
  <1>2. at.passes \in FunctionPipelines
    BY <1>1
  <1>3. at.passes \in Seq(STRING) /\ Len(at.passes) \in Nat \ {0} /\ DOMAIN at.passes = 1 .. Len(at.passes)
    BY <1>2, PipelinesHavePasses
  <1>4. at' = [passes |-> at.passes,
               fn |-> IF at.pos < Len(at.passes) THEN at.fn ELSE at.fn + 1,
               pos |-> IF at.pos < Len(at.passes) THEN at.pos + 1 ELSE 1,
               kept |-> at.kept /\ preserved]
    BY <1>1 DEF Advance
  <1>5. at' \in [passes : FunctionPipelines \cup {<<>>}, fn : Nat, pos : Nat, kept : BOOLEAN]
    BY <1>1, <1>2, <1>3, <1>4
  <1>6. at'.fn \in 1 .. Len(names') + 1
    BY <1>1, <1>4
  <1>7. at'.pos \in DOMAIN at'.passes
    BY <1>1, <1>3, <1>4
  <1>. QED  BY <1>5, <1>6, <1>7 DEF WalkTyped

\* The list of functions of a pass that inserts printf.
LEMMA WithPrintf ==
  ASSUME TypeOK
  PROVE  LET r == GetOrInsert(names, "printf")
         IN  /\ r \in Seq(FunctionNames)
             /\ \A i, j \in DOMAIN r : r[i] = r[j] => i = j
             /\ Range(names) \subseteq Range(r)
             /\ Len(names) <= Len(r)
  BY GetOrInsertList, OptAssumption DEF OptAssumption, TypeOK

LEMMA TypeInit == Init => TypeOK
  <1>. SUFFICES ASSUME Init PROVE TypeOK
    OBVIOUS
  <1>1. names \in Seq(FunctionNames) /\ \A i, j \in DOMAIN names : names[i] = names[j] => i = j
    BY OptAssumption DEF OptAssumption, Init
  <1>2. DOMAIN code = FunctionNames /\ \A f \in FunctionNames : Defined(f) => f \in Range(names)
    BY OptAssumption DEF OptAssumption, Init, Defined
  <1>3. dtors \in Seq({Wrapper})
    BY DEF Init
  <1>4. DOMAIN opcodes = FunctionNames /\ DOMAIN fcmps = FunctionNames
    BY DEF Init
  <1>5. callers \in [FunctionNames -> SUBSET FunctionNames]
    BY DEF Init
  <1>6. at = NoWalk /\ ~Walking
    BY DEF Init, Walking
  <1>7. at \in [passes : FunctionPipelines \cup {<<>>}, fn : Nat, pos : Nat, kept : BOOLEAN]
    BY <1>6 DEF NoWalk
  <1>8. done \in 0 .. MaxPasses
    BY OptAssumption DEF OptAssumption, Init
  <1>9. erased \in BOOLEAN
    BY DEF Init
  <1>. QED  BY <1>1, <1>2, <1>3, <1>4, <1>5, <1>6, <1>7, <1>8, <1>9 DEF TypeOK

\* What every pass on the module leaves as it is: no walk is under way.
LEMMA NextPassTyped ==
  ASSUME TypeOK, NextPass
  PROVE  done' \in 0 .. MaxPasses /\ ~Walking
  BY OptAssumption DEF OptAssumption, TypeOK, NextPass

\* No walk before a step that does not start one, none behind it.
LEMMA NoWalkStays ==
  ASSUME TypeOK, ~Walking, UNCHANGED at
  PROVE  WalkTyped'
  BY DEF TypeOK, WalkTyped, Walking

LEMMA TypeModulePass ==
  ASSUME TypeOK, ModulePass
  PROVE  TypeOK'
  <1>1. CASE DynamicCC
    <2>. DEFINE printfed == GetOrInsert(names, "printf")
    <2>1. /\ printfed \in Seq(FunctionNames)
          /\ \A i, j \in DOMAIN printfed : printfed[i] = printfed[j] => i = j
          /\ Range(names) \subseteq Range(printfed)
      BY WithPrintf
    <2>2. names' = GetOrInsert(printfed, Wrapper) /\ Wrapper \in FunctionNames
      BY <1>1, OptAssumption DEF OptAssumption, DynamicCC, Wrapper
    <2>3. /\ names' \in Seq(FunctionNames)
          /\ \A i, j \in DOMAIN names' : names'[i] = names'[j] => i = j
          /\ Range(names) \subseteq Range(names')
          /\ Wrapper \in Range(names')
      <3>. HIDE DEF printfed
      <3>. QED  BY <2>1, <2>2, GetOrInsertList
    <2>4. DOMAIN code' = FunctionNames
      BY <1>1 DEF DynamicCC
    <2>5. \A f \in FunctionNames \ {Wrapper} : ~Defined(f) => code'[f] = <<>>
      BY <1>1, <2>4 DEF DynamicCC, Defined
    <2>6. \A f \in FunctionNames : code'[f] # <<>> => f \in Range(names')
      BY <2>2, <2>3, <2>5 DEF TypeOK, Defined
    <2>7. dtors' \in Seq({Wrapper})
      BY <1>1 DEF DynamicCC, TypeOK
    <2>8. /\ DOMAIN opcodes' = FunctionNames /\ DOMAIN fcmps' = FunctionNames
          /\ UNCHANGED <<callers, at, erased>>
      BY <1>1 DEF DynamicCC, InvalidateAll
    <2>9. done' \in 0 .. MaxPasses /\ WalkTyped'
      BY <1>1, <2>8, NextPassTyped, NoWalkStays DEF DynamicCC
    <2>. QED  BY <2>3, <2>4, <2>6, <2>7, <2>8, <2>9 DEF TypeOK, WalkTyped, Defined
  <1>2. CASE DynamicCCFindsNothing
    <2>1. UNCHANGED <<tool, source, irVars, caches, callers, at, erased>>
      BY <1>2 DEF DynamicCCFindsNothing, KeepAll
    <2>2. done' \in 0 .. MaxPasses
      BY <1>2, NextPassTyped DEF DynamicCCFindsNothing
    <2>. QED  BY <2>1, <2>2 DEF TypeOK, irVars, caches, Walking, Defined
  <1>3. CASE InjectFuncCall
    <2>1. /\ names' \in Seq(FunctionNames)
          /\ \A i, j \in DOMAIN names' : names'[i] = names'[j] => i = j
          /\ Range(names) \subseteq Range(names')
      BY <1>3, WithPrintf DEF InjectFuncCall
    <2>2. DOMAIN code' = FunctionNames
      BY <1>3 DEF InjectFuncCall
    <2>3. \A f \in FunctionNames : ~Defined(f) => code'[f] = <<>>
      BY <1>3 DEF InjectFuncCall, Defined
    <2>4. \A f \in FunctionNames : code'[f] # <<>> => f \in Range(names')
      BY <2>1, <2>3 DEF TypeOK, Defined
    <2>5. /\ DOMAIN opcodes' = FunctionNames /\ DOMAIN fcmps' = FunctionNames
          /\ UNCHANGED <<dtors, callers, at, erased>>
      BY <1>3 DEF InjectFuncCall, InvalidateAll
    <2>6. done' \in 0 .. MaxPasses /\ WalkTyped'
      BY <1>3, <2>5, NextPassTyped, NoWalkStays DEF InjectFuncCall
    <2>. QED  BY <2>1, <2>2, <2>4, <2>5, <2>6 DEF TypeOK, WalkTyped, Defined
  <1>4. CASE InjectOnlyTheDeclaration
    <2>1. /\ names' \in Seq(FunctionNames)
          /\ \A i, j \in DOMAIN names' : names'[i] = names'[j] => i = j
          /\ Range(names) \subseteq Range(names')
      BY <1>4, WithPrintf DEF InjectOnlyTheDeclaration
    <2>2. UNCHANGED <<code, dtors, caches, callers, at, erased>>
      BY <1>4 DEF InjectOnlyTheDeclaration, KeepAll
    <2>3. done' \in 0 .. MaxPasses /\ WalkTyped'
      BY <1>4, <2>2, NextPassTyped, NoWalkStays DEF InjectOnlyTheDeclaration
    <2>. QED  BY <2>1, <2>2, <2>3 DEF TypeOK, WalkTyped, caches, Defined
  <1>5. ASSUME RequestStaticCC, done' \in 0 .. MaxPasses
        PROVE  TypeOK'
    <2>1. UNCHANGED <<tool, source, irVars, opcodes, fcmps, at, erased>>
      BY <1>5 DEF RequestStaticCC
    <2>2. CallersAdded \in [FunctionNames -> SUBSET FunctionNames]
      BY DEF TypeOK, CallersAdded, CallersOf
    <2>3. callers' \in [FunctionNames -> SUBSET FunctionNames]
      BY <1>5, <2>2 DEF RequestStaticCC, TypeOK
    <2>. QED  BY <1>5, <2>1, <2>3 DEF TypeOK, irVars, Walking, Defined
  <1>6. CASE PrintStaticCC
    BY <1>5, <1>6, NextPassTyped DEF PrintStaticCC
  <1>7. CASE CountStaticCalls
    BY <1>5, <1>7, OptAssumption DEF OptAssumption, CountStaticCalls
  <1>8. ASSUME NEW passes \in FunctionPipelines, StartPipeline(passes)
        PROVE  TypeOK'
    <2>1. at' = [passes |-> passes, fn |-> 1, pos |-> 1, kept |-> TRUE]
          /\ UNCHANGED <<tool, source, irVars, caches, callers, erased>>
      BY <1>8 DEF StartPipeline
    <2>2. Len(passes) \in Nat \ {0} /\ DOMAIN passes = 1 .. Len(passes)
      BY PipelinesHavePasses
    <2>3. WalkTyped'
      BY <2>1, <2>2 DEF WalkTyped, TypeOK, irVars
    <2>4. done' \in 0 .. MaxPasses
      BY <1>8, NextPassTyped DEF StartPipeline
    <2>. QED  BY <2>1, <2>3, <2>4 DEF TypeOK, WalkTyped, irVars, caches, Defined
  <1>. QED  BY <1>1, <1>2, <1>3, <1>4, <1>6, <1>7, <1>8 DEF ModulePass

LEMMA TypeFunctionPass ==
  ASSUME TypeOK, NEW f \in FunctionNames, FunctionPass(f)
  PROVE  TypeOK'
  <1>1. ASSUME NEW p \in BOOLEAN, Advance(p), AtFunction(f),
               UNCHANGED <<irVars, callers, done, erased>>,
               DOMAIN opcodes' = FunctionNames, DOMAIN fcmps' = FunctionNames
        PROVE  TypeOK'
    <2>1. WalkTyped'
      BY <1>1, AdvanceStaysInList DEF TypeOK, irVars
    <2>. QED  BY <1>1, <2>1 DEF TypeOK, WalkTyped, irVars, Defined
  <1>2. ASSUME PreservesAll, AtFunction(f), UNCHANGED <<irVars, callers, done, erased>>
        PROVE  TypeOK'
    <2>1. DOMAIN opcodes' = FunctionNames /\ DOMAIN fcmps' = FunctionNames /\ Advance(TRUE)
      BY <1>2 DEF PreservesAll, caches, TypeOK
    <2>. QED  BY <1>1, <1>2, <2>1
  <1>3. ASSUME PreservesNone(f), AtFunction(f), Defined(f), UNCHANGED <<dtors, callers, done>>, erased' \in BOOLEAN,
               DOMAIN code' = FunctionNames, \A g \in FunctionNames \ {f} : code'[g] = code[g],
               names' \in Seq(FunctionNames), \A i, j \in DOMAIN names' : names'[i] = names'[j] => i = j,
               Range(names) \subseteq Range(names'), Len(names) <= Len(names')
        PROVE  TypeOK'
    <2>1. Advance(FALSE) /\ DOMAIN opcodes' = FunctionNames /\ DOMAIN fcmps' = FunctionNames
      BY <1>3 DEF PreservesNone, Invalidate, TypeOK
    <2>2. WalkTyped'
      BY <1>3, <2>1, AdvanceStaysInList
    <2>3. \A g \in FunctionNames : code'[g] # <<>> => g \in Range(names')
      BY <1>3 DEF TypeOK, Defined
    <2>. QED  BY <1>3, <2>1, <2>2, <2>3 DEF TypeOK, WalkTyped, Defined
  <1>4. CASE PassOverDeclaration(f)
    <2>1. /\ AtFunction(f) /\ at' = [at EXCEPT !.fn = @ + 1]
          /\ UNCHANGED <<tool, source, irVars, caches, callers, done, erased>>
      BY <1>4 DEF PassOverDeclaration
    <2>2. at.fn \in 1 .. Len(names) /\ Len(names) \in Nat /\ at.pos \in DOMAIN at.passes
      BY <2>1 DEF TypeOK, AtFunction
    <2>3. WalkTyped'
      BY <2>1, <2>2 DEF TypeOK, WalkTyped, irVars
    <2>. QED  BY <2>1, <2>3 DEF TypeOK, WalkTyped, irVars, caches, Defined
  <1>5. CASE SkipOptnone(f)
    BY <1>2, <1>5 DEF SkipOptnone, Running
  <1>6. CASE HelloWorld(f)
    BY <1>2, <1>6 DEF HelloWorld, Running
  <1>7. CASE LogReturn(f)
    <2>1. /\ names' \in Seq(FunctionNames)
          /\ \A i, j \in DOMAIN names' : names'[i] = names'[j] => i = j
          /\ Range(names) \subseteq Range(names')
          /\ Len(names) <= Len(names')
      BY <1>7, GetOrInsertList, OptAssumption DEF LogReturn, WithLogFunction, LogFunction, TypeOK
    <2>2. DOMAIN code' = FunctionNames /\ \A g \in FunctionNames \ {f} : code'[g] = code[g]
      BY <1>7 DEF LogReturn, TypeOK
    <2>3. PreservesNone(f) /\ AtFunction(f) /\ Defined(f) /\ UNCHANGED <<dtors, callers, done, erased>>
      BY <1>7 DEF LogReturn, LogReturnPreserves, Running
    <2>4. erased' \in BOOLEAN
      BY <2>3 DEF TypeOK
    <2>. QED  BY <1>3, <2>1, <2>2, <2>3, <2>4
  <1>8. CASE LogReturnSkips(f)
    BY <1>2, <1>8 DEF LogReturnSkips, Running
  <1>9. CASE PrintOpcodes(f)
    <2>1. DOMAIN opcodes' = FunctionNames /\ DOMAIN fcmps' = FunctionNames
      BY <1>9 DEF PrintOpcodes, TypeOK
    <2>. QED  BY <1>1, <1>9, <2>1 DEF PrintOpcodes, Running
  <1>10. CASE PrintFCmpEq(f)
    <2>1. DOMAIN opcodes' = FunctionNames /\ DOMAIN fcmps' = FunctionNames
      BY <1>10 DEF PrintFCmpEq, TypeOK
    <2>. QED  BY <1>1, <1>10, <2>1 DEF PrintFCmpEq, Running
  <1>11. CASE ConvertFCmpEq(f)
    <2>1. DOMAIN code' = FunctionNames /\ \A g \in FunctionNames \ {f} : code'[g] = code[g]
      BY <1>11 DEF ConvertFCmpEq, TypeOK
    <2>2. PreservesNone(f) /\ AtFunction(f) /\ Defined(f) /\ UNCHANGED <<names, dtors, callers, done, erased>>
      BY <1>11 DEF ConvertFCmpEq, Running
    <2>. QED  BY <1>3, <2>1, <2>2 DEF TypeOK
  <1>12. CASE ConvertNothing(f)
    <2>1. DOMAIN opcodes' = FunctionNames /\ DOMAIN fcmps' = FunctionNames
      BY <1>12 DEF ConvertNothing, TypeOK
    <2>. QED  BY <1>1, <1>12, <2>1 DEF ConvertNothing, Running
  <1>13. CASE Simplify(f)
    <2>1. DOMAIN code' = FunctionNames /\ \A g \in FunctionNames \ {f} : code'[g] = code[g]
      BY <1>13 DEF Simplify, TypeOK
    <2>2. PreservesNone(f) /\ AtFunction(f) /\ Defined(f) /\ UNCHANGED <<names, dtors, callers, done>>
      BY <1>13 DEF Simplify, Running
    <2>3. erased' \in BOOLEAN
      BY <1>13 DEF Simplify
    <2>. QED  BY <1>3, <2>1, <2>2, <2>3 DEF TypeOK
  <1>14. CASE SimplifyNothing(f)
    BY <1>2, <1>14 DEF SimplifyNothing, Running
  <1>. QED
    BY <1>4, <1>5, <1>6, <1>7, <1>8, <1>9, <1>10, <1>11, <1>12, <1>13, <1>14 DEF FunctionPass

LEMMA TypeStep == TypeOK /\ [Next]_vars => TypeOK'
  <1>. SUFFICES ASSUME TypeOK, [Next]_vars PROVE TypeOK'
    OBVIOUS
  <1>1. CASE ModulePass
    BY <1>1, TypeModulePass
  <1>2. ASSUME NEW f \in FunctionNames, FunctionPass(f) PROVE TypeOK'
    BY <1>2, TypeFunctionPass
  <1>3. CASE EndPipeline
    <2>1. at' = NoWalk /\ UNCHANGED <<tool, source, irVars, functionCaches, callers, done, erased>>
      BY <1>3 DEF EndPipeline
    <2>2. WalkTyped'
      BY <2>1 DEF WalkTyped, Walking, NoWalk
    <2>. QED  BY <2>1, <2>2 DEF TypeOK, WalkTyped, irVars, functionCaches, Defined
  <1>4. CASE UNCHANGED vars
    BY <1>4 DEF TypeOK, vars, irVars, caches, Walking, Defined
  <1>. QED  BY <1>1, <1>2, <1>3, <1>4 DEF Next, Finished

\* The variables keep their types, whatever passes are run on whatever module.
THEOREM TypeCorrect == Spec => []TypeOK
  BY TypeInit, TypeStep, PTL DEF Spec
-----------------------------------------------------------------------------
(* Cached results.                                                         *)

\* The function analyses kept for f describe f.
FunctionCacheCurrent(f) ==
  /\ opcodes[f] # NoResult => opcodes[f] = OpcodeCounts(code[f])
  /\ fcmps[f] # NoResult => fcmps[f] = FindFCmpEq(code[f])

\* A pass that is asked for nothing and keeps the code as it is.
LEMMA CachesUntouched ==
  ASSUME CachedResultsAreCurrent, UNCHANGED <<code, caches>>, StaticsCached' => StaticsCached
  PROVE  CachedResultsAreCurrent'
  BY DEF CachedResultsAreCurrent, caches

\* A pass that drops every result may change any code.
LEMMA CachesDropped ==
  ASSUME InvalidateAll
  PROVE  CachedResultsAreCurrent'
  BY DEF InvalidateAll, CachedResultsAreCurrent, StaticsCached

\* A walk keeps the results about the module only if it did so before.
LEMMA AdvanceKeeps ==
  ASSUME TypeOK, Walking, UNCHANGED statics, Advance(TRUE)
  PROVE  StaticsCached' => StaticsCached
  <1>1. at \in [passes : FunctionPipelines \cup {<<>>}, fn : Nat, pos : Nat, kept : BOOLEAN]
    BY DEF TypeOK
  <1>2. at'.kept = at.kept
    BY <1>1 DEF Advance
  <1>3. at' = NoWalk => at'.kept
    BY DEF NoWalk
  <1>. QED  BY <1>2, <1>3 DEF StaticsCached, Walking

\* and not behind a pass that preserves nothing.
LEMMA AdvanceDrops ==
  ASSUME TypeOK, Advance(FALSE)
  PROVE  ~StaticsCached'
  <1>1. at \in [passes : FunctionPipelines \cup {<<>>}, fn : Nat, pos : Nat, kept : BOOLEAN]
    BY DEF TypeOK
  <1>2. at'.kept = FALSE
    BY <1>1 DEF Advance
  <1>3. at' # NoWalk
    BY <1>2 DEF NoWalk
  <1>. QED  BY <1>2, <1>3 DEF StaticsCached, Walking

LEMMA CachesInit == Init => CachedResultsAreCurrent
  BY DEF Init, CachedResultsAreCurrent, StaticsCached

LEMMA CachesModulePass ==
  ASSUME TypeOK, CachedResultsAreCurrent, ModulePass
  PROVE  CachedResultsAreCurrent'
  <1>1. CASE DynamicCC
    BY <1>1, CachesDropped DEF DynamicCC
  <1>2. CASE DynamicCCFindsNothing
    BY <1>2, CachesUntouched DEF DynamicCCFindsNothing, KeepAll, irVars, caches, StaticsCached, Walking
  <1>3. CASE InjectFuncCall
    BY <1>3, CachesDropped DEF InjectFuncCall
  <1>4. CASE InjectOnlyTheDeclaration
    BY <1>4, CachesUntouched DEF InjectOnlyTheDeclaration, KeepAll, caches, StaticsCached, Walking
  <1>5. ASSUME RequestStaticCC, ~Walking
        PROVE  CachedResultsAreCurrent'
    <2>1. UNCHANGED <<code, opcodes, fcmps>> /\ statics' = GetResult(statics, StaticCounts(code))
      BY <1>5 DEF RequestStaticCC, irVars
    <2>2. statics # NoResult => statics = StaticCounts(code)
      BY <1>5 DEF CachedResultsAreCurrent, StaticsCached
    <2>3. statics' = StaticCounts(code)
      BY <2>1, <2>2 DEF GetResult
    <2>. QED  BY <2>1, <2>3 DEF CachedResultsAreCurrent
  <1>6. CASE PrintStaticCC
    BY <1>5, <1>6 DEF PrintStaticCC, NextPass
  <1>7. CASE CountStaticCalls
    BY <1>5, <1>7 DEF CountStaticCalls
  <1>8. ASSUME NEW passes \in FunctionPipelines, StartPipeline(passes)
        PROVE  CachedResultsAreCurrent'
    BY <1>8, CachesUntouched DEF StartPipeline, NextPass, irVars, caches, StaticsCached
  <1>. QED  BY <1>1, <1>2, <1>3, <1>4, <1>6, <1>7, <1>8 DEF ModulePass

LEMMA CachesFunctionPass ==
  ASSUME TypeOK, CachedResultsAreCurrent, NEW f \in FunctionNames, FunctionPass(f)
  PROVE  CachedResultsAreCurrent'
  <1>1. ASSUME PreservesAll, AtFunction(f), UNCHANGED code
        PROVE  CachedResultsAreCurrent'
    BY <1>1, AdvanceKeeps, CachesUntouched DEF PreservesAll, caches, AtFunction
  <1>2. ASSUME PreservesNone(f), \A g \in FunctionNames \ {f} : code'[g] = code[g]
        PROVE  CachedResultsAreCurrent'
    <2>1. ~StaticsCached'
      BY <1>2, AdvanceDrops DEF PreservesNone
    <2>2. /\ opcodes' = [opcodes EXCEPT ![f] = NoResult]
          /\ fcmps' = [fcmps EXCEPT ![f] = NoResult]
      BY <1>2 DEF PreservesNone, Invalidate
    <2>3. ASSUME NEW g \in FunctionNames PROVE FunctionCacheCurrent(g)'
      <3>1. CASE g = f
        BY <2>2, <3>1 DEF FunctionCacheCurrent, TypeOK
      <3>2. CASE g # f
        BY <1>2, <2>2, <3>2 DEF FunctionCacheCurrent, TypeOK, CachedResultsAreCurrent
      <3>. QED  BY <3>1, <3>2
    <2>. QED  BY <2>1, <2>3 DEF CachedResultsAreCurrent, FunctionCacheCurrent
  <1>3. ASSUME AtFunction(f), Advance(TRUE), UNCHANGED <<code, statics>>,
               \/ opcodes' = [opcodes EXCEPT ![f] = GetResult(@, OpcodeCounts(code[f]))] /\ UNCHANGED fcmps
               \/ fcmps' = [fcmps EXCEPT ![f] = Comparisons(f)] /\ UNCHANGED opcodes
        PROVE  CachedResultsAreCurrent'
    <2>1. StaticsCached' => StaticsCached
      BY <1>3, AdvanceKeeps DEF AtFunction
    <2>2. GetResult(opcodes[f], OpcodeCounts(code[f])) = OpcodeCounts(code[f])
      BY DEF GetResult, CachedResultsAreCurrent
    <2>3. Comparisons(f) = FindFCmpEq(code[f])
      BY DEF Comparisons, GetResult, CachedResultsAreCurrent
    <2>4. ASSUME NEW g \in FunctionNames PROVE FunctionCacheCurrent(g)'
      BY <1>3, <2>2, <2>3 DEF FunctionCacheCurrent, CachedResultsAreCurrent, TypeOK
    <2>. QED  BY <1>3, <2>1, <2>4 DEF CachedResultsAreCurrent, FunctionCacheCurrent
  <1>4. CASE PassOverDeclaration(f)
    <2>1. /\ at' = [at EXCEPT !.fn = @ + 1] /\ UNCHANGED <<code, caches>>
          /\ Walking
      BY <1>4 DEF PassOverDeclaration, AtFunction, irVars
    <2>2. at \in [passes : FunctionPipelines \cup {<<>>}, fn : Nat, pos : Nat, kept : BOOLEAN]
      BY DEF TypeOK
    <2>3. at'.kept = at.kept /\ (at' = NoWalk => at'.kept)
      BY <2>1, <2>2 DEF NoWalk
    <2>4. StaticsCached' => StaticsCached
      BY <2>1, <2>3 DEF StaticsCached, Walking, caches
    <2>. QED  BY <2>1, <2>4, CachesUntouched
  <1>5. CASE SkipOptnone(f)
    BY <1>1, <1>5 DEF SkipOptnone, Running, irVars
  <1>6. CASE HelloWorld(f)
    BY <1>1, <1>6 DEF HelloWorld, Running, irVars
  <1>7. CASE LogReturn(f)
    <2>1. \A g \in FunctionNames \ {f} : code'[g] = code[g]
      BY <1>7 DEF LogReturn, TypeOK
    <2>. QED  BY <1>2, <1>7, <2>1 DEF LogReturn, LogReturnPreserves
  <1>8. CASE LogReturnSkips(f)
    BY <1>1, <1>8 DEF LogReturnSkips, Running, irVars
  <1>9. CASE PrintOpcodes(f)
    BY <1>3, <1>9 DEF PrintOpcodes, Running, irVars
  <1>10. CASE PrintFCmpEq(f)
    BY <1>3, <1>10 DEF PrintFCmpEq, Running, irVars
  <1>11. CASE ConvertFCmpEq(f)
    <2>1. \A g \in FunctionNames \ {f} : code'[g] = code[g]
      BY <1>11 DEF ConvertFCmpEq, TypeOK
    <2>. QED  BY <1>2, <1>11, <2>1 DEF ConvertFCmpEq
  <1>12. CASE ConvertNothing(f)
    BY <1>3, <1>12 DEF ConvertNothing, Running, irVars
  <1>13. CASE Simplify(f)
    <2>1. \A g \in FunctionNames \ {f} : code'[g] = code[g]
      BY <1>13 DEF Simplify, TypeOK
    <2>. QED  BY <1>2, <1>13, <2>1 DEF Simplify
  <1>14. CASE SimplifyNothing(f)
    BY <1>1, <1>14 DEF SimplifyNothing, Running, irVars
  <1>. QED
    BY <1>4, <1>5, <1>6, <1>7, <1>8, <1>9, <1>10, <1>11, <1>12, <1>13, <1>14 DEF FunctionPass

LEMMA CachesStep == TypeOK /\ CachedResultsAreCurrent /\ [Next]_vars => CachedResultsAreCurrent'
  <1>. SUFFICES ASSUME TypeOK, CachedResultsAreCurrent, [Next]_vars PROVE CachedResultsAreCurrent'
    OBVIOUS
  <1>1. CASE ModulePass
    BY <1>1, CachesModulePass
  <1>2. ASSUME NEW f \in FunctionNames, FunctionPass(f) PROVE CachedResultsAreCurrent'
    BY <1>2, CachesFunctionPass
  <1>3. CASE EndPipeline
    <2>1. /\ UNCHANGED <<code, opcodes, fcmps>>
          /\ statics' = IF at.kept THEN statics ELSE NoResult
      BY <1>3 DEF EndPipeline, irVars, functionCaches
    <2>2. StaticsCached' => StaticsCached /\ statics' = statics
      BY <2>1 DEF StaticsCached
    <2>. QED  BY <2>1, <2>2 DEF CachedResultsAreCurrent
  <1>4. CASE UNCHANGED vars
    BY <1>4, CachesUntouched DEF vars, irVars, caches, StaticsCached, Walking
  <1>. QED  BY <1>1, <1>2, <1>3, <1>4 DEF Next, Finished

\* No pass is ever given an analysis result about code that has changed.
THEOREM CachesAreCurrent == Spec => []CachedResultsAreCurrent
  BY TypeInit, TypeStep, CachesInit, CachesStep, PTL DEF Spec
-----------------------------------------------------------------------------
(* The caller map.                                                         *)

\* When the counts that go with it are up to date, the map names every caller.
CallersAreNamed ==
  StaticsCached => \A g \in FunctionNames : CallersOf(code, g) \subseteq callers[g]

LEMMA CallersUntouched ==
  ASSUME CallersAreNamed, UNCHANGED <<code, callers>>, StaticsCached' => StaticsCached
  PROVE  CallersAreNamed'
  BY DEF CallersAreNamed, CallersOf, CallsDirectly

LEMMA CallersModulePass ==
  ASSUME TypeOK, CallersAreNamed, ModulePass
  PROVE  CallersAreNamed'
  <1>1. ASSUME InvalidateAll PROVE CallersAreNamed'
    BY <1>1 DEF InvalidateAll, CallersAreNamed, StaticsCached
  <1>2. CASE DynamicCC
    BY <1>1, <1>2 DEF DynamicCC
  <1>3. CASE DynamicCCFindsNothing
    BY <1>3, CallersUntouched DEF DynamicCCFindsNothing, KeepAll, irVars, caches, StaticsCached, Walking
  <1>4. CASE InjectFuncCall
    BY <1>1, <1>4 DEF InjectFuncCall
  <1>5. CASE InjectOnlyTheDeclaration
    BY <1>5, CallersUntouched DEF InjectOnlyTheDeclaration, KeepAll, caches, StaticsCached, Walking
  <1>6. ASSUME RequestStaticCC, ~Walking PROVE CallersAreNamed'
    <2>1. UNCHANGED <<code, at>>
      BY <1>6 DEF RequestStaticCC, irVars
    <2>2. CASE statics # NoResult
      <3>1. UNCHANGED callers /\ StaticsCached
        BY <1>6, <2>2 DEF RequestStaticCC, StaticsCached
      <3>. QED  BY <2>1, <3>1, CallersUntouched
    <2>3. CASE statics = NoResult
      <3>1. callers' = [g \in FunctionNames |-> callers[g] \cup CallersOf(code, g)]
        BY <1>6, <2>3 DEF RequestStaticCC, CallersAdded
      <3>2. \A g \in FunctionNames : CallersOf(code, g)' = CallersOf(code, g)
        BY <2>1 DEF CallersOf, CallsDirectly
      <3>. QED  BY <3>1, <3>2 DEF CallersAreNamed
    <2>. QED  BY <2>2, <2>3
  <1>7. CASE PrintStaticCC
    BY <1>6, <1>7 DEF PrintStaticCC, NextPass
  <1>8. CASE CountStaticCalls
    BY <1>6, <1>8 DEF CountStaticCalls
  <1>9. ASSUME NEW passes \in FunctionPipelines, StartPipeline(passes)
        PROVE  CallersAreNamed'
    BY <1>9, CallersUntouched DEF StartPipeline, NextPass, irVars, caches, StaticsCached
  <1>. QED  BY <1>2, <1>3, <1>4, <1>5, <1>7, <1>8, <1>9 DEF ModulePass

LEMMA CallersFunctionPass ==
  ASSUME TypeOK, CallersAreNamed, NEW f \in FunctionNames, FunctionPass(f)
  PROVE  CallersAreNamed'
  <1>1. ASSUME Advance(TRUE), AtFunction(f), UNCHANGED <<code, callers, statics>>
        PROVE  CallersAreNamed'
    BY <1>1, AdvanceKeeps, CallersUntouched DEF AtFunction
  <1>2. ASSUME PreservesNone(f)
        PROVE  CallersAreNamed'
    BY <1>2, AdvanceDrops DEF PreservesNone, CallersAreNamed
  <1>3. CASE PassOverDeclaration(f)
    <2>1. /\ at' = [at EXCEPT !.fn = @ + 1] /\ UNCHANGED <<code, callers, statics>>
          /\ Walking
      BY <1>3 DEF PassOverDeclaration, AtFunction, irVars, caches
    <2>2. at \in [passes : FunctionPipelines \cup {<<>>}, fn : Nat, pos : Nat, kept : BOOLEAN]
      BY DEF TypeOK
    <2>3. at'.kept = at.kept /\ (at' = NoWalk => at'.kept)
      BY <2>1, <2>2 DEF NoWalk
    <2>4. StaticsCached' => StaticsCached
      BY <2>1, <2>3 DEF StaticsCached, Walking
    <2>. QED  BY <2>1, <2>4, CallersUntouched
  <1>4. CASE SkipOptnone(f)
    BY <1>1, <1>4 DEF SkipOptnone, Running, PreservesAll, irVars, caches
  <1>5. CASE HelloWorld(f)
    BY <1>1, <1>5 DEF HelloWorld, Running, PreservesAll, irVars, caches
  <1>6. CASE LogReturn(f) \/ ConvertFCmpEq(f) \/ Simplify(f)
    BY <1>2, <1>6 DEF LogReturn, LogReturnPreserves, ConvertFCmpEq, Simplify
  <1>7. CASE LogReturnSkips(f)
    BY <1>1, <1>7 DEF LogReturnSkips, Running, PreservesAll, irVars, caches
  <1>8. CASE PrintOpcodes(f)
    BY <1>1, <1>8 DEF PrintOpcodes, Running, irVars
  <1>9. CASE PrintFCmpEq(f)
    BY <1>1, <1>9 DEF PrintFCmpEq, Running, irVars
  <1>10. CASE ConvertNothing(f)
    BY <1>1, <1>10 DEF ConvertNothing, Running, irVars
  <1>11. CASE SimplifyNothing(f)
    BY <1>1, <1>11 DEF SimplifyNothing, Running, PreservesAll, irVars, caches
  <1>. QED
    BY <1>3, <1>4, <1>5, <1>6, <1>7, <1>8, <1>9, <1>10, <1>11 DEF FunctionPass

LEMMA CallersStep == TypeOK /\ CallersAreNamed /\ [Next]_vars => CallersAreNamed'
  <1>. SUFFICES ASSUME TypeOK, CallersAreNamed, [Next]_vars PROVE CallersAreNamed'
    OBVIOUS
  <1>1. CASE ModulePass
    BY <1>1, CallersModulePass
  <1>2. ASSUME NEW f \in FunctionNames, FunctionPass(f) PROVE CallersAreNamed'
    BY <1>2, CallersFunctionPass
  <1>3. CASE EndPipeline
    <2>1. /\ UNCHANGED <<code, callers>>
          /\ statics' = IF at.kept THEN statics ELSE NoResult
      BY <1>3 DEF EndPipeline, irVars
    <2>2. StaticsCached' => StaticsCached
      BY <2>1 DEF StaticsCached
    <2>. QED  BY <2>1, <2>2, CallersUntouched
  <1>4. CASE UNCHANGED vars
    BY <1>4, CallersUntouched DEF vars, irVars, caches, StaticsCached, Walking
  <1>. QED  BY <1>1, <1>2, <1>3, <1>4 DEF Next, Finished

\* The caller map of the process, which no run resets, misses no caller when
\* it is printed, however often the module changed.
THEOREM CallersNamed == Spec => []CallersAreNamed
  <1>1. Init => CallersAreNamed
    BY DEF Init, CallersAreNamed, StaticsCached
  <1>. QED  BY <1>1, TypeInit, TypeStep, CallersStep, PTL DEF Spec

-----------------------------------------------------------------------------
(* Maps of counts, as they are filled from a list.                         *)

\* c holds the counts of the keys, up to each of them.
IsCounting(c, keys) ==
  /\ DOMAIN c = 0 .. Len(keys)
  /\ c[0] = NoCounts
  /\ \A n \in 1 .. Len(keys) : c[n] = CountOne(c[n - 1], keys[n])

CountsOf(keys, N, g) ==
  g = [s \in SUBSET (1 .. N) |-> IF s = {} THEN NoCounts ELSE CountOne(g[s \ {Max(s)}], keys[Max(s)])]

\* Counting a list key by key is a chain of maps.
LEMMA CountsExist ==
  ASSUME NEW keys
  PROVE  \A N \in Nat : \E g : CountsOf(keys, N, g)
  <1>. DEFINE D == {N \in Nat : \E g : CountsOf(keys, N, g)}
  <1>1. 0 \in D
    <2>. DEFINE g == [s \in SUBSET (1 .. 0) |-> NoCounts]
    <2>1. \A s \in SUBSET (1 .. 0) : s = {}
      OBVIOUS
    <2>2. CountsOf(keys, 0, g)
      BY <2>1 DEF CountsOf
    <2>. QED  BY <2>2
  <1>2. ASSUME NEW N \in Nat, N \in D PROVE N + 1 \in D
    <2>1. PICK g : CountsOf(keys, N, g)
      BY <1>2
    <2>. DEFINE Below == SUBSET (1 .. N)
                All == SUBSET (1 .. N + 1)
                h == [s \in All |-> IF N + 1 \in s THEN CountOne(g[s \ {N + 1}], keys[N + 1]) ELSE g[s]]
    <2>2. ASSUME NEW s \in All
          PROVE  h[s] = IF s = {} THEN NoCounts ELSE CountOne(h[s \ {Max(s)}], keys[Max(s)])
      <3>1. CASE N + 1 \in s
        <4>1. Max(s) = N + 1
          BY <3>1, MaxOf
        <4>2. s \ {N + 1} \in All /\ N + 1 \notin s \ {N + 1}
          OBVIOUS
        <4>3. h[s \ {N + 1}] = g[s \ {N + 1}]
          BY <4>2
        <4>. QED  BY <3>1, <4>1, <4>3
      <3>2. CASE N + 1 \notin s
        <4>1. s \in Below
          BY <3>2
        <4>2. g[s] = IF s = {} THEN NoCounts ELSE CountOne(g[s \ {Max(s)}], keys[Max(s)])
          BY <2>1, <4>1, Zenon DEF CountsOf
        <4>3. s \ {Max(s)} \in All /\ N + 1 \notin s \ {Max(s)}
          BY <3>2
        <4>4. h[s] = g[s] /\ h[s \ {Max(s)}] = g[s \ {Max(s)}]
          BY <3>2, <4>3
        <4>. HIDE DEF h
        <4>. QED  BY <4>2, <4>4
      <3>. QED  BY <3>1, <3>2
    <2>3. CountsOf(keys, N + 1, h)
      BY <2>2, Zenon DEF CountsOf
    <2>. QED  BY <2>3
  <1>. HIDE DEF D
  <1>3. Nat \subseteq D
    BY <1>1, <1>2, Induction
  <1>. QED  BY <1>3 DEF D

\* The fold that counts is the end of such a chain.
LEMMA CountingExists ==
  ASSUME NEW S, NEW keys \in Seq(S)
  PROVE  \E c : IsCounting(c, keys) /\ CountAll(keys) = c[Len(keys)]
  <1>. DEFINE N == Len(keys)
              f == CHOOSE g : CountsOf(keys, N, g)
  <1>1. N \in Nat /\ DOMAIN keys = 1 .. N
    OBVIOUS
  <1>2. CountsOf(keys, N, f)
    BY <1>1, CountsExist
  <1>3. CountAll(keys) = f[1 .. N]
    BY <1>1 DEF CountAll, FoldLeft, MapThenFoldSet, CountsOf
  <1>. HIDE DEF f
  <1>. DEFINE c == [n \in 0 .. N |-> f[1 .. n]]
  <1>4. c[0] = NoCounts
    <2>1. 1 .. 0 = {} /\ 1 .. 0 \in SUBSET (1 .. N)
      OBVIOUS
    <2>. QED  BY <1>1, <1>2, <2>1 DEF CountsOf
  <1>5. ASSUME NEW n \in 1 .. N PROVE c[n] = CountOne(c[n - 1], keys[n])
    <2>1. 1 .. n \in SUBSET (1 .. N) /\ 1 .. n # {} /\ (1 .. n) \ {n} = 1 .. n - 1 /\ Max(1 .. n) = n
      BY <1>1, FirstNumbers
    <2>3. f[1 .. n] = CountOne(f[1 .. n - 1], keys[n])
      BY <1>2, <2>1 DEF CountsOf
    <2>4. c[n] = f[1 .. n] /\ c[n - 1] = f[1 .. n - 1]
      BY <1>1
    <2>. QED  BY <2>3, <2>4
  <1>. HIDE DEF f
  <1>6. IsCounting(c, keys)
    BY <1>4, <1>5 DEF IsCounting
  <1>7. CountAll(keys) = c[N]
    BY <1>1, <1>3
  <1>. QED  BY <1>6, <1>7

SeenAt(keys, n, key) == {m \in 1 .. n : keys[m] = key}

\* m counts the first n keys of a list.
CountsFirst(keys, n, m) ==
  /\ DOMAIN m = {keys[k] : k \in 1 .. n}
  /\ \A key \in DOMAIN m : m[key] = Cardinality(SeenAt(keys, n, key))

\* The map of one key more, from the map before it.
LEMMA CountOneMore ==
  ASSUME NEW keys, NEW n \in Nat, NEW m, CountsFirst(keys, n, m)
  PROVE  CountsFirst(keys, n + 1, CountOne(m, keys[n + 1]))
  <1>. DEFINE x == keys[n + 1]
  <1>1. 1 .. n + 1 = (1 .. n) \cup {n + 1}
    OBVIOUS
  <1>2. {keys[k] : k \in 1 .. n + 1} = {keys[k] : k \in 1 .. n} \cup {x}
    BY <1>1
  <1>3. ASSUME NEW key
        PROVE  SeenAt(keys, n + 1, key) = IF key = x THEN SeenAt(keys, n, key) \cup {n + 1} ELSE SeenAt(keys, n, key)
    BY <1>1 DEF SeenAt
  <1>4. /\ IsFiniteSet(SeenAt(keys, n, x)) /\ n + 1 \notin SeenAt(keys, n, x)
        /\ Cardinality(SeenAt(keys, n, x) \cup {n + 1}) = Cardinality(SeenAt(keys, n, x)) + 1
    <2>1. IsFiniteSet(1 .. n) /\ SeenAt(keys, n, x) \in SUBSET (1 .. n) /\ n + 1 \notin SeenAt(keys, n, x)
      BY FS_Interval DEF SeenAt
    <2>. QED  BY <2>1, FS_Subset, FS_AddElement
  <1>. HIDE DEF x
  <1>5. CASE x \in DOMAIN m
    <2>1. CountOne(m, x) = Put(m, x, m[x] + 1)
      BY <1>5 DEF CountOne
    <2>2. CountsFirst(keys, n + 1, Put(m, x, m[x] + 1))
      BY <1>2, <1>3, <1>4, <1>5 DEF CountsFirst, Put
    <2>. QED  BY <2>1, <2>2 DEF x
  <1>6. CASE x \notin DOMAIN m
    <2>1. CountOne(m, x) = Put(m, x, 1)
      BY <1>6 DEF CountOne
    <2>2. SeenAt(keys, n, x) = {}
      BY <1>6 DEF SeenAt, CountsFirst
    <2>3. Cardinality(SeenAt(keys, n + 1, x)) = 1
      BY <1>3, <1>4, <2>2, FS_EmptySet
    <2>4. \A key \in DOMAIN m : key # x
      BY <1>6
    <2>5. CountsFirst(keys, n + 1, Put(m, x, 1))
      BY <1>2, <1>3, <2>3, <2>4 DEF CountsFirst, Put
    <2>. QED  BY <2>1, <2>5 DEF x
  <1>. QED  BY <1>5, <1>6

\* A map of counts has the keys of the list, and how often each is in it.
LEMMA CountAllRight ==
  ASSUME NEW S, NEW keys \in Seq(S)
  PROVE  /\ DOMAIN CountAll(keys) = Range(keys)
         /\ \A key \in Range(keys) : CountAll(keys)[key] = Count(keys, {key})
  <1>. DEFINE N == Len(keys)
  <1>0. N \in Nat /\ DOMAIN keys = 1 .. N
    OBVIOUS
  <1>1. PICK c : IsCounting(c, keys) /\ CountAll(keys) = c[N]
    BY CountingExists
  <1>. DEFINE D == {n \in Nat : n <= N => CountsFirst(keys, n, c[n])}
  <1>2. 0 \in D
    <2>1. c[0] = NoCounts /\ DOMAIN NoCounts = {} /\ {keys[k] : k \in 1 .. 0} = {}
      BY <1>1 DEF IsCounting, NoCounts
    <2>. QED  BY <2>1 DEF CountsFirst
  <1>3. ASSUME NEW n \in Nat, n \in D PROVE n + 1 \in D
    <2>. SUFFICES ASSUME n + 1 <= N PROVE CountsFirst(keys, n + 1, c[n + 1])
      OBVIOUS
    <2>1. c[n + 1] = CountOne(c[n], keys[n + 1])
      <3>1. n + 1 \in 1 .. N /\ (n + 1) - 1 = n
        BY <1>0
      <3>. QED  BY <1>1, <3>1 DEF IsCounting
    <2>2. CountsFirst(keys, n, c[n])
      BY <1>0, <1>3
    <2>. QED  BY <2>1, <2>2, CountOneMore
  <1>. HIDE DEF D
  <1>4. Nat \subseteq D
    BY <1>2, <1>3, Induction
  <1>5. CountsFirst(keys, N, CountAll(keys))
    BY <1>0, <1>1, <1>4 DEF D
  <1>6. Range(keys) = {keys[k] : k \in 1 .. N}
    BY <1>0 DEF Range
  <1>7. ASSUME NEW key PROVE Cardinality(SeenAt(keys, N, key)) = Count(keys, {key})
    BY <1>0 DEF PlacesIn, SeenAt, Count
  <1>. QED  BY <1>5, <1>6, <1>7 DEF CountsFirst

-----------------------------------------------------------------------------
(* What holds of every body, whatever passes it has been through.          *)

Terminators == {"br", "invoke", "ret", "resume", "unreachable"}

\* What is known of every instruction, by whichever pass.
Known(i) ==
  /\ IsInstr(i)
  /\ IsDirectCall(i) => i.fn \in FunctionNames
  /\ i.by = "user" => i.def = NoValue \/ IsProgramValue(i.def)
  /\ i.by # "user" => i.op # "fcmp" /\ (i.def = NoValue \/ Len(i.def.name) = 3)
  /\ i.op = "fcmp" => i.def # NoValue

Distinct(S) == \A i, j \in S : i.op = "fcmp" /\ i.def = j.def => i = j

Sound(S) == (\A i \in S : Known(i)) /\ Distinct(S)

Ended(body) == \A b \in DOMAIN body : Last(body[b]).op \in Terminators

\* A body whose blocks end with terminators, and whose comparisons are the
\* program's, each with a value of its own.
FormedBody(body) == IsBody(body) /\ Sound(InstructionSet(body)) /\ Ended(body)

\* What shows a body to be formed.
LEMMA FormedIntro ==
  ASSUME NEW S, Sound(S), NEW body \in BodiesOver(S), Ended(body)
  PROVE  FormedBody(body)
  BY OverIsBody DEF FormedBody, Sound, Distinct

\* What is known of a formed body.
LEMMA FormedElim ==
  ASSUME NEW body, FormedBody(body)
  PROVE  /\ body \in BodiesOver(InstructionSet(body))
         /\ Sound(InstructionSet(body)) /\ Ended(body)
  BY BodyIsOver DEF FormedBody

\* How long the names of values are: two for the program, three for a pass.
LEMMA NameLengths ==
  /\ Len(NoValue.name) = 0
  /\ \A v : IsProgramValue(v) => Len(v.name) = 2
  /\ \A v : IsProgramValue(v) => v # NoValue /\ \A part, ty : Len(MadeFor(v, part, ty).name) = 3
  <1>1. Len(NoValue.name) = 0
    BY DEF NoValue, Value
  <1>2. ASSUME NEW v, IsProgramValue(v)
        PROVE  Len(v.name) = 2 /\ v # NoValue /\ \A part, ty : Len(MadeFor(v, part, ty).name) = 3
    <2>1. PICK x : v.name = <<"user", x>>
      BY <1>2 DEF IsProgramValue, Value
    <2>2. Len(v.name) = 2 /\ v # NoValue
      BY <1>1, <2>1
    <2>3. ASSUME NEW part, NEW ty PROVE Len(MadeFor(v, part, ty).name) = 3
      <3>1. <<"user", x>> \in Seq({"user", x, part}) /\ <<part>> \in Seq({"user", x, part})
        OBVIOUS
      <3>2. Len(<<"user", x>> \o <<part>>) = Len(<<"user", x>>) + Len(<<part>>)
        BY <3>1, ConcatProperties
      <3>3. MadeFor(v, part, ty).name = <<"user", x>> \o <<part>>
        BY <2>1 DEF MadeFor, Value
      <3>. QED  BY <3>2, <3>3
    <2>. QED  BY <2>2, <2>3
  <1>. QED  BY <1>1, <1>2

\* What a pass adds leaves the comparisons distinct.
AddedBy(X) == \A i \in X : Known(i) /\ i.by # "user"

\* Instructions added by a pass to sound ones leave them sound.
LEMMA SoundGrows ==
  ASSUME NEW S, Sound(S), NEW X, AddedBy(X)
  PROVE  Sound(S \cup X)
  <1>1. ASSUME NEW i \in S \cup X, NEW j \in S \cup X, i.op = "fcmp", i.def = j.def PROVE i = j
    <2>1. Known(i) /\ Known(j)
      BY DEF Sound, AddedBy
    <2>2. i.by = "user" /\ IsProgramValue(i.def)
      BY <1>1, <2>1 DEF Known
    <2>3. Len(j.def.name) = 2
      BY <1>1, <2>2, NameLengths
    <2>4. j.by = "user"
      BY <2>1, <2>3, NameLengths DEF Known
    <2>5. i \in S /\ j \in S
      BY <2>2, <2>4 DEF AddedBy
    <2>. QED  BY <1>1, <2>5 DEF Sound, Distinct
  <1>. QED  BY <1>1 DEF Sound, Distinct, AddedBy

\* Sound instructions are ones whose comparisons can be converted.
LEMMA SoundKnowsComparisons ==
  ASSUME NEW S, Sound(S)
  PROVE  ComparisonsKnown(S)
  <1>1. ASSUME NEW i \in S, NEW j \in S, i.op = "fcmp", j.op = "fcmp", NEW part, NEW ty
        PROVE  MadeFor(i.def, part, ty) # j.def
    <2>1. IsProgramValue(i.def) /\ IsProgramValue(j.def)
      BY <1>1 DEF Sound, Known
    <2>2. Len(MadeFor(i.def, part, ty).name) = 3 /\ Len(j.def.name) = 2
      BY <2>1, NameLengths
    <2>. QED  BY <2>2
  <1>. QED  BY <1>1 DEF ComparisonsKnown, Sound, Known, Distinct

\* Converting comparisons leaves the instructions sound.
LEMMA SoundConverted ==
  ASSUME NEW S, Sound(S), NEW T, NEW D,
         \A j \in T : \E i \in S : j \in Range(Conversion(S, D)[i])
  PROVE  Sound(T)
  <1>1. ASSUME NEW i \in S, NEW j \in Range(Conversion(S, D)[i])
        PROVE  /\ Known(j)
               /\ j.op = "fcmp" => j.def = i.def /\ i.op = "fcmp"
               /\ j.def = i.def \/ Len(j.def.name) = 3
    <2>1. Known(i) /\ IsInstr(i)
      BY DEF Sound, Known
    <2>2. CASE IsEquality(i) /\ i.def \in D
      <3>1. j \in Range(Converted(i))
        BY <2>2, Zenon DEF Conversion
      <3>2. MadeFrom(i, j) \/ TheSameBut(i, j)
        BY <2>1, <3>1, ConvertedBlock
      <3>3. i.op = "fcmp" /\ i.by = "user" /\ IsProgramValue(i.def)
        BY <2>1, <2>2 DEF Known, IsEquality
      <3>4. CASE TheSameBut(i, j)
        BY <2>1, <3>3, <3>4 DEF TheSameBut, Known, IsDirectCall, IsCall
      <3>5. CASE MadeFrom(i, j)
        <4>1. Len(j.def.name) = 3
          BY <3>3, <3>5, NameLengths DEF MadeFrom
        <4>. QED  BY <3>5, <4>1 DEF MadeFrom, Known, IsDirectCall, IsCall
      <3>. QED  BY <3>2, <3>4, <3>5
    <2>3. CASE ~(IsEquality(i) /\ i.def \in D)
      <3>1. Conversion(S, D)[i] = <<i>>
        BY <2>3, Zenon DEF Conversion
      <3>2. Range(<<i>>) = {i}
        BY DEF Range
      <3>3. j = i
        BY <3>1, <3>2, Zenon
      <3>. QED  BY <2>1, <3>3
    <2>. QED  BY <2>2, <2>3
  <1>2. ASSUME NEW j \in T, NEW h \in T, j.op = "fcmp", j.def = h.def PROVE j = h
    <2>1. PICK p \in S : j \in Range(Conversion(S, D)[p])
      OBVIOUS
    <2>2. PICK q \in S : h \in Range(Conversion(S, D)[q])
      OBVIOUS
    <2>3. j.def = p.def /\ p.op = "fcmp" /\ Known(p)
      BY <1>1, <1>2, <2>1 DEF Sound
    <2>4. Len(p.def.name) = 2
      BY <2>3, NameLengths DEF Known
    <2>5. h.def = q.def
      <3>1. h.def = q.def \/ Len(h.def.name) = 3
        BY <1>1, <2>2
      <3>2. h.def = p.def
        BY <1>2, <2>3
      <3>. QED  BY <2>4, <3>1, <3>2
    <2>6. p = q
      BY <1>2, <2>3, <2>5 DEF Sound, Distinct
    <2>7. ComparisonsKnown(S)
      BY SoundKnowsComparisons
    <2>8. CASE IsEquality(p) /\ p.def \in D
      <3>1. PICK a, b, c, d, e :
               /\ Converted(p) = <<a, b, c, d, e>>
               /\ MadeFrom(p, a) /\ MadeFrom(p, b) /\ MadeFrom(p, c) /\ MadeFrom(p, d)
               /\ TheSameBut(p, e)
        BY <2>7, ConvertedIs DEF ComparisonsKnown
      <3>2. Range(<<a, b, c, d, e>>) = {a, b, c, d, e}
        BY DEF Range
      <3>3. Conversion(S, D)[p] = Converted(p)
        BY <2>8, Zenon DEF Conversion
      <3>4. j \in {a, b, c, d, e} /\ h \in {a, b, c, d, e}
        BY <2>1, <2>2, <2>6, <3>1, <3>2, <3>3, Zenon
      <3>5. ASSUME NEW g, MadeFrom(p, g) PROVE g.def # p.def
        BY <2>3, <2>7, <3>5 DEF MadeFrom, ComparisonsKnown
      <3>6. a.def # p.def /\ b.def # p.def /\ c.def # p.def /\ d.def # p.def
        BY <3>1, <3>5
      <3>7. j = e /\ h = e
        BY <1>2, <2>3, <3>4, <3>6
      <3>. QED  BY <3>7
    <2>9. CASE ~(IsEquality(p) /\ p.def \in D)
      <3>1. Conversion(S, D)[p] = <<p>>
        BY <2>9, Zenon DEF Conversion
      <3>2. Range(<<p>>) = {p}
        BY DEF Range
      <3>3. j = p /\ h = p
        BY <2>1, <2>2, <2>6, <3>1, <3>2, Zenon
      <3>. QED  BY <3>3
    <2>. QED  BY <2>8, <2>9
  <1>3. \A j \in T : Known(j)
    BY <1>1
  <1>. QED  BY <1>2, <1>3 DEF Sound, Distinct

\* A body that the verifier accepts is formed.
LEMMA ProgramBodyFormed ==
  ASSUME NEW body, IsProgramBody(body)
  PROVE  FormedBody(body)
  <1>. DEFINE S == InstructionSet(body)
              all == Instructions(body)
  <1>1. IsBody(body) /\ body \in BodiesOver(S)
    BY BodyIsOver DEF IsProgramBody
  <1>2. \A i \in S : Known(i)
    <2>. SUFFICES ASSUME NEW i \in S PROVE Known(i)
      OBVIOUS
    <2>1. i = Instr(i.op, i.def, i.args, i.fn, i.to, i.pred, "user")
      BY DEF IsProgramBody
    <2>2. IsInstr(i) /\ i.by = "user"
      BY <2>1 DEF Instr, IsInstr
    <2>. QED  BY <2>2 DEF IsProgramBody, Known
  <1>3. ASSUME NEW b \in DOMAIN body PROVE VerifiedBody(body, Depth) /\ body[b] \in BlocksOver(S)
    <2>1. body # <<>>
      BY <1>3
    <2>. QED  BY <1>1, <1>3, <2>1, BodyFacts DEF IsProgramBody
  <1>4. ASSUME NEW b \in DOMAIN body PROVE Last(body[b]).op \in Terminators
    <2>1. Len(body[b]) \in DOMAIN body[b]
      BY <1>3, <1>4, BlockFacts
    <2>2. body[b][Len(body[b])].op \in Terminators
      BY <1>3, <1>4, <2>1, Zenon DEF VerifiedBody, Terminators
    <2>. QED  BY <2>2 DEF Last
  <1>5. ASSUME NEW i \in S, NEW j \in S, i.op = "fcmp", i.def = j.def PROVE i = j
    <2>1. body \in Seq(Seq(S))
      BY <1>1 DEF BodiesOver, BlocksOver
    <2>2. \A x \in S : \E n \in DOMAIN body : x \in Range(body[n])
      BY DEF InstructionSet
    <2>3. \A x \in S : x \in Range(all)
      BY <2>1, <2>2, FlattenRange DEF Instructions
    <2>4. PICK m \in DOMAIN all : all[m] = i
      BY <2>3 DEF Range
    <2>5. PICK n \in DOMAIN all : all[n] = j
      BY <2>3 DEF Range
    <2>6. i.def # NoValue
      BY <1>5, <1>2 DEF Known
    <2>7. VerifiedBody(body, Depth)
      <3>1. \E b \in DOMAIN body : i \in Range(body[b])
        BY <2>2
      <3>. QED  BY <1>3, <3>1
    <2>8. \A x, y \in {k \in DOMAIN all : all[k].def # NoValue} : all[x].def = all[y].def => x = y
      BY <2>7, Zenon DEF VerifiedBody
    <2>. QED  BY <1>5, <2>4, <2>5, <2>6, <2>8
  <1>. QED  BY <1>1, <1>2, <1>4, <1>5 DEF FormedBody, Sound, Distinct, Ended

FormedBodies == \A f \in FunctionNames : FormedBody(code[f])

\* The bodies of the program are formed.
LEMMA FormedInit == Init => FormedBodies
  BY ProgramBodyFormed, OptAssumption DEF OptAssumption, Init, FormedBodies

\* A block over some instructions is one over more.
LEMMA BlocksGrow ==
  ASSUME NEW S, NEW T, S \subseteq T
  PROVE  Seq(S) \subseteq Seq(T) /\ BlocksOver(S) \subseteq BlocksOver(T)
  BY DEF BlocksOver

\* A body over some instructions is one over more.
LEMMA BodiesGrow ==
  ASSUME NEW S, NEW T, S \subseteq T, NEW body \in BodiesOver(S)
  PROVE  body \in BodiesOver(T)
  <1>1. \A b \in DOMAIN body : body[b] \in BlocksOver(T)
    BY BodyFacts, BlocksGrow
  <1>2. body = [b \in DOMAIN body |-> body[b]]
    BY DEF BodiesOver
  <1>. QED  BY <1>1, <1>2, BlocksReplaced

\* A body that is prefixed, and one with something before its returns.
LEMMA FormedPrefixed ==
  ASSUME NEW body, FormedBody(body), body # <<>>, NEW X, AddedBy(X), NEW is \in Seq(X)
  PROVE  /\ FormedBody(AtEntry(body, is)) /\ AtEntry(body, is) # <<>>
         /\ DOMAIN AtEntry(body, is) = DOMAIN body
  <1>. DEFINE S == InstructionSet(body) \cup X
  <1>1. body \in BodiesOver(S) /\ is \in Seq(S)
    BY FormedElim, BodiesGrow, BlocksGrow
  <1>2. Sound(S)
    BY FormedElim, SoundGrows
  <1>3. Ended(AtEntry(body, is))
    <2>. HIDE DEF S
    <2>. QED  BY <1>1, AtEntryOver, FormedElim DEF Ended
  <1>4. FormedBody(AtEntry(body, is))
    <2>. HIDE DEF S
    <2>. QED  BY <1>1, <1>2, <1>3, AtEntryOver, FormedIntro
  <1>5. DOMAIN AtEntry(body, is) = DOMAIN body
    <2>. HIDE DEF S
    <2>. QED  BY <1>1, AtEntryOver
  <1>6. AtEntry(body, is) # <<>>
    BY <1>1, <1>5, BodyFacts DEF BodiesOver
  <1>. QED  BY <1>4, <1>5, <1>6

\* A call in front of each return leaves a body formed.
LEMMA FormedBeforeReturns ==
  ASSUME NEW body, FormedBody(body), NEW X, AddedBy(X), NEW is \in Seq(X)
  PROVE  /\ FormedBody(BeforeReturns(body, is))
         /\ DOMAIN BeforeReturns(body, is) = DOMAIN body
  <1>. DEFINE S == InstructionSet(body) \cup X
  <1>1. body \in BodiesOver(S) /\ is \in Seq(S)
    BY FormedElim, BodiesGrow, BlocksGrow
  <1>2. Sound(S)
    BY FormedElim, SoundGrows
  <1>. HIDE DEF S
  <1>3. Ended(BeforeReturns(body, is))
    BY <1>1, BeforeReturnsOver, FormedElim DEF Ended
  <1>4. FormedBody(BeforeReturns(body, is))
    BY <1>1, <1>2, <1>3, BeforeReturnsOver, FormedIntro
  <1>. QED  BY <1>1, <1>4, BeforeReturnsOver

\* So does another block behind the last.
LEMMA FormedAppended ==
  ASSUME NEW body, FormedBody(body), NEW X, AddedBy(X), NEW block \in BlocksOver(X),
         Last(block).op \in Terminators
  PROVE  FormedBody(Append(body, block))
  <1>. DEFINE S == InstructionSet(body) \cup X
              new == Append(body, block)
  <1>1. body \in BodiesOver(S) /\ block \in BlocksOver(S)
    BY FormedElim, BodiesGrow, BlocksGrow
  <1>2. Sound(S)
    BY FormedElim, SoundGrows
  <1>. HIDE DEF S
  <1>3. new \in BodiesOver(S)
    BY <1>1 DEF BodiesOver
  <1>4. ASSUME NEW b \in DOMAIN new PROVE Last(new[b]).op \in Terminators
    <2>1. CASE b \in DOMAIN body
      BY <1>1, <2>1, FormedElim DEF Ended, BodiesOver
    <2>2. CASE b \notin DOMAIN body
      BY <1>1, <1>4, <2>2 DEF BodiesOver
    <2>. QED  BY <2>1, <2>2
  <1>. QED  BY <1>2, <1>3, <1>4, FormedIntro DEF Ended

\* So does the loss of an instruction that is no terminator.
LEMMA FormedErased ==
  ASSUME NEW body, FormedBody(body), NEW b \in DOMAIN body, NEW k \in DOMAIN body[b],
         body[b][k].op \notin Terminators
  PROVE  FormedBody([body EXCEPT ![b] = RemoveAt(@, k)])
  <1>. DEFINE S == InstructionSet(body)
              new == [body EXCEPT ![b] = RemoveAt(@, k)]
  <1>1. body \in BodiesOver(S) /\ Sound(S) /\ Ended(body)
    BY FormedElim
  <1>. HIDE DEF S
  <1>2. body[b] \in BlocksOver(S)
    BY <1>1, BodyFacts
  <1>3. k \in 1 .. Len(body[b]) - 1
    <2>1. k # Len(body[b])
      BY <1>1 DEF Ended, Last
    <2>. QED  BY <1>2, <2>1, BlockFacts
  <1>4. RemoveAt(body[b], k) \in BlocksOver(S) /\ Last(RemoveAt(body[b], k)) = Last(body[b])
    BY <1>2, <1>3, RemovedOver
  <1>5. DOMAIN new = DOMAIN body /\ new[b] = RemoveAt(body[b], k)
        /\ \A c \in DOMAIN body \ {b} : new[c] = body[c]
    OBVIOUS
  <1>6. new = [c \in DOMAIN body |-> new[c]]
    OBVIOUS
  <1>7. \A c \in DOMAIN body : body[c] \in BlocksOver(S)
    BY <1>1, BodyFacts
  <1>. HIDE DEF new
  <1>8. \A c \in DOMAIN body : new[c] \in BlocksOver(S) /\ Last(new[c]) = Last(body[c])
    BY <1>4, <1>5, <1>7
  <1>9. new \in BodiesOver(S)
    BY <1>1, <1>5, <1>6, <1>8, BlocksReplaced
  <1>10. FormedBody(new)
    BY <1>1, <1>5, <1>8, <1>9, FormedIntro DEF Ended
  <1>. QED  BY <1>10 DEF new

\* So does convert-fcmp-eq, which replaces the comparisons in place.
LEMMA FormedConverted ==
  ASSUME NEW body, FormedBody(body)
  PROVE  LET M == Conversion(InstructionSet(body), Range(FindFCmpEq(body)))
             new == FoldLeft(ConvertFCmpEqInstruction, body, FindFCmpEq(body))
         IN  /\ new = MapBlocks(M, body)
             /\ FormedBody(new)
             /\ DOMAIN new = DOMAIN body
  <1>. DEFINE S == InstructionSet(body)
              D == Range(FindFCmpEq(body))
              M == Conversion(S, D)
              new == FoldLeft(ConvertFCmpEqInstruction, body, FindFCmpEq(body))
              T == InstructionSet(MapBlocks(M, body))
  <1>1. body \in BodiesOver(S) /\ Sound(S) /\ Ended(body)
    BY FormedElim
  <1>2. ComparisonsKnown(S)
    BY <1>1, SoundKnowsComparisons
  <1>3. new = MapBlocks(M, body)
    BY <1>1, <1>2, ConvertsEach
  <1>. HIDE DEF S, D, M
  <1>4. M \in [S -> BlocksOver(WithConverted(S))]
    BY <1>2, ConversionType DEF M
  <1>5. /\ MapBlocks(M, body) \in BodiesOver(WithConverted(S))
        /\ DOMAIN MapBlocks(M, body) = DOMAIN body
        /\ \A b \in DOMAIN body : Last(MapBlocks(M, body)[b]) = Last(M[Last(body[b])])
        /\ \A y : y \in T <=> \E x \in InstructionSet(body) : y \in Range(M[x])
    BY <1>1, <1>4, MapBlocksOver
  <1>6. InstructionSet(body) = S
    BY DEF S
  <1>. HIDE DEF T
  <1>7. \A y : y \in T <=> \E x \in S : y \in Range(Conversion(S, D)[x])
    BY <1>5, <1>6 DEF M
  <1>8. Sound(T)
    BY <1>1, <1>7, SoundConverted
  <1>9. MapBlocks(M, body) \in BodiesOver(T)
    <2>1. IsBody(MapBlocks(M, body))
      BY <1>5, OverIsBody
    <2>. QED  BY <2>1, BodyIsOver DEF T
  <1>10. ASSUME NEW b \in DOMAIN body PROVE Last(MapBlocks(M, body)[b]).op \in Terminators
    <2>. DEFINE i == Last(body[b])
    <2>1. i \in S /\ i.op \in Terminators /\ IsInstr(i)
      <3>1. body[b] \in BlocksOver(S)
        BY <1>1, BodyFacts
      <3>. QED  BY <1>1, <1>2, <3>1, BlockFacts DEF Ended, ComparisonsKnown
    <2>2. i.op # "fcmp"
      BY <2>1 DEF Terminators
    <2>. HIDE DEF i
    <2>3. M[i] = <<i>>
      BY <2>1, <2>2, Zenon DEF M, Conversion, IsEquality
    <2>4. Last(<<i>>) = i
      BY DEF Last
    <2>5. Last(M[i]) = i
      BY <2>3, <2>4, Zenon
    <2>. QED  BY <1>5, <2>1, <2>5 DEF i
  <1>11. FormedBody(MapBlocks(M, body))
    <2>1. DOMAIN MapBlocks(M, body) = DOMAIN body
      BY <1>5
    <2>2. Ended(MapBlocks(M, body))
      BY <1>10, <2>1 DEF Ended
    <2>. QED  BY <1>8, <1>9, <2>2, FormedIntro
  <1>. HIDE DEF new
  <1>12. new = MapBlocks(M, body) /\ FormedBody(new) /\ DOMAIN new = DOMAIN body
    BY <1>3, <1>5, <1>11
  <1>. QED  BY <1>12 DEF new, M, D, S

-----------------------------------------------------------------------------
(* The counts are those of the code.                                       *)

\* The places of a body that hold an instruction of P.
PlacesOf(body, P) == UNION { {<<b, k>> : k \in PlacesIn(body[b], P)} : b \in DOMAIN body }

\* The places of a test in a body are as many as are counted in its instructions.
LEMMA PlacesCounted ==
  ASSUME NEW S, NEW body \in BodiesOver(S), NEW P
  PROVE  IsFiniteSet(PlacesOf(body, P)) /\ Cardinality(PlacesOf(body, P)) = Count(Instructions(body), P)
  <1>. DEFINE W == [b \in DOMAIN body |-> {<<b, k>> : k \in PlacesIn(body[b], P)}]
              all == UNION {W[b] : b \in DOMAIN body}
  <1>1. body \in Seq(Seq(S)) /\ \A b \in DOMAIN body : body[b] \in Seq(S)
    BY BodyFacts DEF BodiesOver, BlocksOver
  <1>2. \A b \in DOMAIN body : W[b] = {<<b, k>> : k \in PlacesIn(body[b], P)}
    OBVIOUS
  <1>. HIDE DEF W
  <1>3. ASSUME NEW b \in DOMAIN body
        PROVE  IsFiniteSet(W[b]) /\ Cardinality(W[b]) = Count(body[b], P)
    <2>. DEFINE ks == PlacesIn(body[b], P)
                at2 == [k \in ks |-> <<b, k>>]
    <2>1. IsFiniteSet(ks) /\ Cardinality(ks) = Count(body[b], P)
      BY <1>1, PlacesFinite DEF Count
    <2>2. W[b] = {<<b, k>> : k \in ks}
      BY <1>2
    <2>. HIDE DEF ks
    <2>3. at2 \in Bijection(ks, W[b])
      <3>1. at2 \in [ks -> W[b]]
        BY <2>2
      <3>2. \A k \in ks : at2[k] = <<b, k>>
        OBVIOUS
      <3>3. \A j, k \in ks : at2[j] = at2[k] => j = k
        BY <3>2
      <3>4. \A w \in W[b] : \E k \in ks : at2[k] = w
        BY <2>2, <3>2
      <3>5. DOMAIN at2 = ks
        OBVIOUS
      <3>. HIDE DEF at2
      <3>. QED  BY <3>1, <3>3, <3>4, <3>5 DEF Bijection, Injection, Surjection, IsInjective
    <2>4. ExistsBijection(ks, W[b])
      BY <2>3, Zenon DEF ExistsBijection
    <2>. QED  BY <2>1, <2>4, FS_Bijection
  <1>4. ASSUME NEW m \in DOMAIN body, NEW n \in DOMAIN body, m # n PROVE W[m] \cap W[n] = {}
    BY <1>2, <1>4
  <1>5. IsFiniteSet(all) /\ Cardinality(all) = Count(FlattenSeq(body), P)
    <2>. HIDE DEF Count
    <2>. QED  BY <1>1, <1>3, <1>4, CountByParts
  <1>6. all = PlacesOf(body, P)
    BY <1>2 DEF PlacesOf
  <1>. QED  BY <1>5, <1>6 DEF Instructions

\* A finite set listed: each of its elements, once.
LEMMA Listed ==
  ASSUME NEW S, IsFiniteSet(S)
  PROVE  /\ SetToSeq(S) \in Seq(S)
         /\ \A j, k \in DOMAIN SetToSeq(S) : SetToSeq(S)[j] = SetToSeq(S)[k] => j = k
         /\ Range(SetToSeq(S)) = S
  <1>. DEFINE n == Cardinality(S)
  <1>1. n \in Nat /\ ExistsBijection(1 .. n, S)
    BY FS_CardinalityType
  <1>. HIDE DEF n
  <1>2. \E f \in [1 .. n -> S] : IsInjective(f)
    BY <1>1 DEF ExistsBijection, Bijection, Injection
  <1>3. SetToSeq(S) \in [1 .. n -> S] /\ IsInjective(SetToSeq(S))
    BY <1>2, Zenon DEF SetToSeq, n
  <1>4. SetToSeq(S) \in Injection(1 .. n, S)
    BY <1>3, Zenon DEF Injection
  <1>5. IsFiniteSet(1 .. n) /\ Cardinality(1 .. n) = n
    BY <1>1, FS_Interval
  <1>6. SetToSeq(S) \in Surjection(1 .. n, S)
    BY <1>4, <1>5, FS_Injection DEF n
  <1>7. SetToSeq(S) \in Seq(S)
    BY <1>1, <1>3
  <1>8. \A x \in S : \E k \in 1 .. n : SetToSeq(S)[k] = x
    BY <1>6, Zenon DEF Surjection
  <1>9. Range(SetToSeq(S)) = S
    <2>1. DOMAIN SetToSeq(S) = 1 .. n
      BY <1>3
    <2>. QED  BY <1>3, <1>8, <2>1 DEF Range
  <1>. QED  BY <1>3, <1>7, <1>9 DEF IsInjective

\* All instructions of the module.
CodeInstructions == UNION {InstructionSet(code[f]) : f \in FunctionNames}

\* Every body is made of the instructions of the code.
LEMMA CodeOver ==
  ASSUME FormedBodies, NEW f \in FunctionNames
  PROVE  code[f] \in BodiesOver(CodeInstructions)
  <1>1. code[f] \in BodiesOver(InstructionSet(code[f]))
    BY FormedElim DEF FormedBodies
  <1>. QED  BY <1>1, BodiesGrow DEF CodeInstructions

\* What opcode-counter finds is right.
LEMMA OpcodesRight ==
  ASSUME NEW body, FormedBody(body)
  PROVE  /\ DOMAIN OpcodeCounts(body) = {i.op : i \in Range(Instructions(body))}
         /\ \A op \in DOMAIN OpcodeCounts(body) :
              OpcodeCounts(body)[op] = Cardinality(Places(body, LAMBDA i : i.op = op))
  <1>. DEFINE S == InstructionSet(body)
              is == Instructions(body)
              ops == Opcodes(is)
  <1>1. body \in BodiesOver(S)
    BY FormedElim
  <1>2. is \in Seq(S) /\ Range(is) = S
    BY <1>1, InstructionsHold
  <1>3. ops \in Seq({i.op : i \in S}) /\ DOMAIN ops = DOMAIN is /\ \A k \in DOMAIN is : ops[k] = is[k].op
    <2>. HIDE DEF is, S
    <2>1. \A k \in 1 .. Len(is) : is[k] \in S
      BY <1>2
    <2>. QED  BY <1>2, <2>1 DEF Opcodes
  <1>4. DOMAIN CountAll(ops) = Range(ops) /\ \A op \in Range(ops) : CountAll(ops)[op] = Count(ops, {op})
    <2>. HIDE DEF ops
    <2>. QED  BY <1>3, CountAllRight
  <1>5. Range(ops) = {i.op : i \in Range(is)}
    <2>. HIDE DEF ops, is
    <2>. QED  BY <1>3 DEF Range
  <1>6. ASSUME NEW op
        PROVE  Count(ops, {op}) = Cardinality(UNION { {<<b, k>> : k \in {j \in DOMAIN body[b] : body[b][j].op = op}}
                                                       : b \in DOMAIN body })
    <2>. DEFINE P == {i \in S : i.op = op}
    <2>1. Count(is, P) = Cardinality(PlacesOf(body, P))
      BY <1>1, PlacesCounted
    <2>2. PlacesIn(ops, {op}) = PlacesIn(is, P)
      <3>1. \A k \in DOMAIN is : is[k] \in S
        BY <1>2
      <3>. HIDE DEF ops, is, S
      <3>. QED  BY <1>3, <3>1 DEF PlacesIn
    <2>3. \A b \in DOMAIN body : PlacesIn(body[b], P) = {j \in DOMAIN body[b] : body[b][j].op = op}
      BY DEF PlacesIn, InstructionSet, Range
    <2>4. PlacesOf(body, P) = UNION { {<<b, k>> : k \in {j \in DOMAIN body[b] : body[b][j].op = op}}
                                       : b \in DOMAIN body }
      <3>. HIDE DEF P
      <3>. QED  BY <2>3 DEF PlacesOf
    <2>. QED  BY <2>1, <2>2, <2>4 DEF Count
  <1>7. OpcodeCounts(body) = CountAll(ops)
    BY DEF OpcodeCounts
  <1>. HIDE DEF ops, is
  <1>8. ASSUME NEW op \in DOMAIN OpcodeCounts(body)
        PROVE  OpcodeCounts(body)[op] = Cardinality(UNION { {<<b, k>> : k \in {j \in DOMAIN body[b] : body[b][j].op = op}}
                                                       : b \in DOMAIN body })
    <2>1. OpcodeCounts(body)[op] = Count(ops, {op})
      BY <1>4, <1>7, <1>8
    <2>. QED  BY <1>6, <2>1
  <1>9. DOMAIN OpcodeCounts(body) = {i.op : i \in Range(is)}
    BY <1>4, <1>5, <1>7
  <1>. QED  BY <1>8, <1>9 DEF Places, is

\* What static-cc finds is right.
Direct(S, g) == {i \in S : IsDirectCall(i) /\ i.fn = g}

CallSites(g) == UNION { {f} \X PlacesOf(code[f], Direct(CodeInstructions, g)) : f \in FunctionNames }

\* The call sites of a callee are as many as its name is in the list of callees.
LEMMA SitesCounted ==
  ASSUME FormedBodies, NEW g
  PROVE  /\ IsFiniteSet(CallSites(g))
         /\ Cardinality(CallSites(g)) = Count(ModuleInstructions(code), Direct(CodeInstructions, g))
  <1>. DEFINE S == CodeInstructions
              P == Direct(S, g)
              fs == SetToSeq(FunctionNames)
              parts == [k \in DOMAIN fs |-> Instructions(code[fs[k]])]
              W == [k \in DOMAIN fs |-> {fs[k]} \X PlacesOf(code[fs[k]], P)]
              all == UNION {W[k] : k \in DOMAIN parts}
  <1>1. /\ fs \in Seq(FunctionNames) /\ Range(fs) = FunctionNames
        /\ \A j, k \in DOMAIN fs : fs[j] = fs[k] => j = k
    BY Listed, OptAssumption DEF OptAssumption
  <1>. HIDE DEF fs, P, S
  <1>2. \A f \in FunctionNames : Instructions(code[f]) \in Seq(S)
    BY CodeOver, InstructionsHold DEF S
  <1>3. DOMAIN parts = DOMAIN fs /\ \A k \in DOMAIN fs : parts[k] = Instructions(code[fs[k]])
    OBVIOUS
  <1>4. \A k \in DOMAIN fs : fs[k] \in FunctionNames
    BY <1>1
  <1>5. parts \in Seq(Seq(S))
    <2>1. \A k \in DOMAIN fs : Instructions(code[fs[k]]) \in Seq(S)
      BY <1>2, <1>4
    <2>2. Len(fs) \in Nat /\ DOMAIN fs = 1 .. Len(fs)
      BY <1>1
    <2>. QED  BY <2>1, <2>2
  <1>6. \A k \in DOMAIN fs : W[k] = {fs[k]} \X PlacesOf(code[fs[k]], P)
    OBVIOUS
  <1>. HIDE DEF parts, W
  <1>7. ASSUME NEW k \in DOMAIN parts
        PROVE  IsFiniteSet(W[k]) /\ Cardinality(W[k]) = Count(parts[k], P)
    <2>. DEFINE pl == PlacesOf(code[fs[k]], P)
    <2>1. fs[k] \in FunctionNames /\ parts[k] = Instructions(code[fs[k]]) /\ W[k] = {fs[k]} \X pl
      BY <1>3, <1>4, <1>6
    <2>2. code[fs[k]] \in BodiesOver(S)
      BY <2>1, CodeOver DEF S
    <2>. HIDE DEF pl
    <2>3. IsFiniteSet(pl) /\ Cardinality(pl) = Count(parts[k], P)
      BY <2>1, <2>2, PlacesCounted DEF pl
    <2>4. IsFiniteSet({fs[k]}) /\ Cardinality({fs[k]}) = 1
      BY FS_Singleton
    <2>5. IsFiniteSet(W[k]) /\ Cardinality(W[k]) = 1 * Cardinality(pl)
      BY <2>1, <2>3, <2>4, FS_Product
    <2>6. Cardinality(pl) \in Nat
      BY <2>3, FS_CardinalityType
    <2>. QED  BY <2>3, <2>5, <2>6
  <1>8. ASSUME NEW j \in DOMAIN parts, NEW k \in DOMAIN parts, j # k PROVE W[j] \cap W[k] = {}
    <2>1. fs[j] # fs[k]
      BY <1>1, <1>3, <1>8
    <2>. QED  BY <1>3, <1>6, <2>1
  <1>9. IsFiniteSet(all) /\ Cardinality(all) = Count(FlattenSeq(parts), P)
    BY <1>5, <1>7, <1>8, CountByParts
  <1>10. all = CallSites(g)
    <2>1. \A f \in FunctionNames : \E k \in DOMAIN fs : fs[k] = f
      BY <1>1 DEF Range
    <2>. QED  BY <1>3, <1>4, <1>6, <2>1 DEF CallSites, P, S
  <1>. QED  BY <1>9, <1>10 DEF ModuleInstructions, parts, fs, P, S

\* What static-cc computes are the numbers of call sites.
LEMMA StaticsRight ==
  ASSUME FormedBodies
  PROVE  /\ DOMAIN StaticCounts(code) = {g \in FunctionNames : CallSites(g) # {}}
         /\ \A g \in DOMAIN StaticCounts(code) : StaticCounts(code)[g] = Cardinality(CallSites(g))
  <1>. DEFINE S == CodeInstructions
              is == ModuleInstructions(code)
              M == [i \in S |-> IF IsDirectCall(i) THEN <<i.fn>> ELSE <<>>]
              fs == SetToSeq(FunctionNames)
              parts == [k \in DOMAIN fs |-> Instructions(code[fs[k]])]
  <1>1. is \in Seq(S)
    <2>1. fs \in Seq(FunctionNames)
      BY Listed, OptAssumption DEF OptAssumption
    <2>2. \A f \in FunctionNames : Instructions(code[f]) \in Seq(S)
      BY CodeOver, InstructionsHold
    <2>. HIDE DEF fs, S
    <2>3. parts \in Seq(Seq(S))
      BY <2>1, <2>2
    <2>. HIDE DEF parts
    <2>4. FlattenSeq(parts) \in Seq(S)
      BY <2>3, FlattenType
    <2>. QED  BY <2>4 DEF ModuleInstructions, parts, fs
  <1>2. \A i \in S : IsDirectCall(i) => i.fn \in FunctionNames
    BY FormedElim DEF FormedBodies, CodeInstructions, Sound, Known
  <1>. HIDE DEF S
  <1>3. M \in [S -> Seq(FunctionNames)]
    BY <1>2
  <1>4. Callees(is) = FlatMap(M, is)
    <2>1. [k \in DOMAIN is |-> IF IsDirectCall(is[k]) THEN <<is[k].fn>> ELSE <<>>]
            = [k \in DOMAIN is |-> M[is[k]]]
      <3>1. \A k \in DOMAIN is : is[k] \in S
        BY <1>1
      <3>. HIDE DEF is
      <3>2. \A k \in DOMAIN is : M[is[k]] = IF IsDirectCall(is[k]) THEN <<is[k].fn>> ELSE <<>>
        BY <3>1
      <3>. QED  BY <3>2, Zenon
    <2>. QED  BY <2>1, Zenon DEF Callees, FlatMap
  <1>. HIDE DEF is
  <1>5. Callees(is) \in Seq(FunctionNames)
    <2>. HIDE DEF M
    <2>1. FlatMap(M, is) \in Seq(FunctionNames)
      BY <1>1, <1>3, FlatMapType
    <2>. QED  BY <1>4, <2>1
  <1>6. /\ DOMAIN StaticCounts(code) = Range(Callees(is))
        /\ \A g \in Range(Callees(is)) : StaticCounts(code)[g] = Count(Callees(is), {g})
    BY <1>5, CountAllRight DEF StaticCounts, is
  <1>7. ASSUME NEW g
        PROVE  Count(Callees(is), {g}) = Count(is, Direct(S, g))
    <2>. DEFINE P == Direct(S, g)
    <2>1. ASSUME NEW i \in S PROVE Count(M[i], {g}) = IF i \in P THEN 1 ELSE 0
      <3>1. CASE IsDirectCall(i)
        <4>1. M[i] = <<i.fn>>
          BY <3>1, Zenon
        <4>2. Count(<<i.fn>>, {g}) = IF i.fn \in {g} THEN 1 ELSE 0
          BY <1>2, <3>1, CountOfOne
        <4>. QED  BY <3>1, <4>1, <4>2 DEF Direct
      <3>2. CASE ~IsDirectCall(i)
        <4>1. M[i] = <<>>
          BY <3>2, Zenon
        <4>. QED  BY <3>2, <4>1, CountEmpty DEF Direct
      <3>. QED  BY <3>1, <3>2
    <2>. DEFINE Q == {g}
    <2>2. \A i \in S : Count(M[i], Q) = IF i \in P THEN 1 ELSE 0
      BY <2>1
    <2>. HIDE DEF M, P, Q
    <2>3. \A s \in Seq(S) : Count(FlatMap(M, s), Q) = Count(s, P)
      BY <1>3, <2>2, CountFlatMap
    <2>. QED  BY <1>1, <1>4, <2>3 DEF P, Q
  <1>8. ASSUME NEW g PROVE Count(is, Direct(S, g)) = Cardinality(CallSites(g)) /\ IsFiniteSet(CallSites(g))
    BY SitesCounted DEF S, is
  <1>9. ASSUME NEW g PROVE g \in Range(Callees(is)) <=> Count(Callees(is), {g}) # 0
    <2>1. IsFiniteSet(PlacesIn(Callees(is), {g}))
      BY <1>5, PlacesFinite
    <2>2. Count(Callees(is), {g}) = 0 <=> PlacesIn(Callees(is), {g}) = {}
      BY <2>1, FS_EmptySet DEF Count
    <2>3. g \in Range(Callees(is)) <=> PlacesIn(Callees(is), {g}) # {}
      BY DEF Range, PlacesIn
    <2>. QED  BY <2>2, <2>3
  <1>10. ASSUME NEW g PROVE g \in Range(Callees(is)) <=> CallSites(g) # {}
    BY <1>7, <1>8, <1>9, FS_EmptySet
  <1>11. \A g \in Range(Callees(is)) : g \in FunctionNames
    BY <1>5 DEF Range
  <1>. QED  BY <1>6, <1>7, <1>8, <1>10, <1>11

\* What the counts of a program are.
LEMMA CountsOfCurrent ==
  ASSUME CachedResultsAreCurrent, FormedBodies
  PROVE  CountsAreRight
  <1>1. ASSUME StaticsCached
        PROVE  LET sites(g) == UNION { {f} \X Places(code[f], LAMBDA i : IsDirectCall(i) /\ i.fn = g)
                               : f \in FunctionNames }
               IN  /\ DOMAIN statics = {g \in FunctionNames : sites(g) # {}}
                   /\ \A g \in DOMAIN statics : statics[g] = Cardinality(sites(g))
    <2>. DEFINE sites(g) == UNION { {f} \X UNION { {<<b, k>> : k \in {j \in DOMAIN code[f][b] :
                                             IsDirectCall(code[f][b][j]) /\ code[f][b][j].fn = g}}
                                       : b \in DOMAIN code[f] }
                               : f \in FunctionNames }
    <2>1. ASSUME NEW g PROVE CallSites(g) = sites(g)
      <3>. DEFINE P == Direct(CodeInstructions, g)
      <3>1. \A f \in FunctionNames : \A b \in DOMAIN code[f] : \A j \in DOMAIN code[f][b] :
              code[f][b][j] \in CodeInstructions
        BY DEF CodeInstructions, InstructionSet, Range
      <3>2. \A f \in FunctionNames : \A b \in DOMAIN code[f] :
              PlacesIn(code[f][b], P) = {j \in DOMAIN code[f][b] : IsDirectCall(code[f][b][j]) /\ code[f][b][j].fn = g}
        <4>. HIDE DEF CodeInstructions
        <4>. QED  BY <3>1 DEF PlacesIn, Direct
      <3>. HIDE DEF P
      <3>3. \A f \in FunctionNames :
              PlacesOf(code[f], P) = UNION { {<<b, k>> : k \in {j \in DOMAIN code[f][b] :
                                             IsDirectCall(code[f][b][j]) /\ code[f][b][j].fn = g}}
                                       : b \in DOMAIN code[f] }
        BY <3>2 DEF PlacesOf
      <3>. QED  BY <3>3 DEF CallSites, P
    <2>2. statics = StaticCounts(code)
      BY <1>1 DEF CachedResultsAreCurrent
    <2>. HIDE DEF sites
    <2>3. /\ DOMAIN statics = {g \in FunctionNames : sites(g) # {}}
          /\ \A g \in DOMAIN statics : statics[g] = Cardinality(sites(g))
      BY <2>1, <2>2, StaticsRight
    <2>. QED  BY <2>3 DEF sites, Places
  <1>2. ASSUME NEW f \in FunctionNames, opcodes[f] # NoResult
        PROVE  /\ DOMAIN opcodes[f] = {i.op : i \in Range(Instructions(code[f]))}
               /\ \A op \in DOMAIN opcodes[f] :
                    opcodes[f][op] = Cardinality(Places(code[f], LAMBDA i : i.op = op))
    <2>1. opcodes[f] = OpcodeCounts(code[f])
      BY <1>2 DEF CachedResultsAreCurrent
    <2>2. FormedBody(code[f])
      BY DEF FormedBodies
    <2>. QED  BY <2>1, <2>2, OpcodesRight DEF Places
  <1>. QED  BY <1>1, <1>2 DEF CountsAreRight, Places

-----------------------------------------------------------------------------
(* What a step does to the code.                                           *)

\* What a step may do to the code of a function.
Greeted(f) == Defined(f) /\ code'[f] = LoggingReturn(f, AtEntry(code[f], <<Hello(f)>>))
Tallied(f) == Defined(f) /\ f # Wrapper /\ code'[f] = Counted(f)
Reports(f) == /\ f = Wrapper
              /\ code'[f] = Append(IF Defined(f) THEN Counted(f) ELSE code[f], EnterBlock(code[f]))
LogCall(f) == Call(LogFunction, <<Constant("Returning from " \o f, "ptr")>>, "log-return")
ReturnLogged(f) == Defined(f) /\ code'[f] = BeforeReturns(code[f], <<LogCall(f)>>)
Rewritten(f) == code'[f] = FoldLeft(ConvertFCmpEqInstruction, code[f], FindFCmpEq(code[f]))
Shortened(f) ==
  \E b \in DOMAIN code[f] : \E k \in Erasable(f, b) :
    /\ code'[f] = [code[f] EXCEPT ![b] = RemoveAt(@, k)]
    /\ source' = [source EXCEPT !.code[f][b] = RemoveAt(@, PlaceInProgram(code[f][b], k))]


CodeChange ==
  \/ /\ UNCHANGED <<code, source, dtors, erased>>
  \/ /\ \A f \in FunctionNames : IF Defined(f) THEN Greeted(f) ELSE code'[f] = code[f]
     /\ UNCHANGED <<source, dtors, erased>>
  \/ /\ \A f \in FunctionNames \ {Wrapper} : IF Defined(f) THEN Tallied(f) ELSE code'[f] = code[f]
     /\ Reports(Wrapper)
     /\ dtors' = Append(dtors, Wrapper)
     /\ UNCHANGED <<source, erased>>
  \/ /\ \E f \in FunctionNames : /\ ReturnLogged(f) \/ Rewritten(f)
                                 /\ \A g \in FunctionNames \ {f} : code'[g] = code[g]
     /\ UNCHANGED <<source, dtors, erased>>
  \/ /\ \E f \in FunctionNames : /\ Shortened(f)
                                 /\ \A g \in FunctionNames \ {f} : code'[g] = code[g]
     /\ erased'
     /\ UNCHANGED dtors

\* Every step changes the code in one of these ways, or not at all.
LEMMA CodeSteps ==
  ASSUME TypeOK, CachedResultsAreCurrent, [Next]_vars
  PROVE  CodeChange
  <1>1. CASE UNCHANGED <<code, source, dtors, erased>>
    BY <1>1 DEF CodeChange
  <1>2. CASE DynamicCC
    <2>. DEFINE counted == [f \in FunctionNames |-> IF Defined(f) THEN Counted(f) ELSE code[f]]
    <2>1. /\ code' = [counted EXCEPT ![Wrapper] = Append(@, EnterBlock(code[Wrapper]))]
          /\ dtors' = Append(dtors, Wrapper) /\ UNCHANGED <<source, erased>>
      BY <1>2 DEF DynamicCC
    <2>2. Wrapper \in FunctionNames
      BY OptAssumption DEF OptAssumption, Wrapper
    <2>3. \A f \in FunctionNames : counted[f] = IF Defined(f) THEN Counted(f) ELSE code[f]
      OBVIOUS
    <2>4. DOMAIN counted = FunctionNames
      OBVIOUS
    <2>. HIDE DEF counted
    <2>5. \A f \in FunctionNames \ {Wrapper} : code'[f] = counted[f]
      BY <2>1, <2>4
    <2>6. code'[Wrapper] = Append(counted[Wrapper], EnterBlock(code[Wrapper]))
      BY <2>1, <2>2, <2>4
    <2>7. \A f \in FunctionNames \ {Wrapper} : IF Defined(f) THEN Tallied(f) ELSE code'[f] = code[f]
      BY <2>3, <2>5 DEF Tallied
    <2>8. Reports(Wrapper)
      BY <2>2, <2>3, <2>6 DEF Reports
    <2>. QED  BY <2>1, <2>7, <2>8, Zenon DEF CodeChange
  <1>3. CASE InjectFuncCall
    <2>1. \A f \in FunctionNames :
            code'[f] = IF Defined(f) THEN LoggingReturn(f, AtEntry(code[f], <<Hello(f)>>)) ELSE code[f]
      BY <1>3 DEF InjectFuncCall
    <2>2. UNCHANGED <<source, dtors, erased>>
      BY <1>3 DEF InjectFuncCall
    <2>3. \A f \in FunctionNames : IF Defined(f) THEN Greeted(f) ELSE code'[f] = code[f]
      BY <2>1, Zenon DEF Greeted
    <2>. QED  BY <2>2, <2>3, Zenon DEF CodeChange
  <1>4. ASSUME NEW f \in FunctionNames, LogReturn(f) PROVE CodeChange
    <2>1. code' = [code EXCEPT ![f] = BeforeReturns(@, <<LogCall(f)>>)] /\ UNCHANGED <<source, dtors, erased>>
      BY <1>4, Zenon DEF LogReturn, LogCall
    <2>2. ReturnLogged(f) /\ \A g \in FunctionNames \ {f} : code'[g] = code[g]
      BY <1>4, <2>1 DEF ReturnLogged, TypeOK, LogReturn, Running
    <2>. QED  BY <2>1, <2>2, Zenon DEF CodeChange
  <1>5. ASSUME NEW f \in FunctionNames, ConvertFCmpEq(f) PROVE CodeChange
    <2>1. code' = [code EXCEPT ![f] = FoldLeft(ConvertFCmpEqInstruction, @, Comparisons(f))]
          /\ UNCHANGED <<source, dtors, erased>>
      BY <1>5, Zenon DEF ConvertFCmpEq
    <2>2. Comparisons(f) = FindFCmpEq(code[f])
      BY DEF Comparisons, GetResult, CachedResultsAreCurrent
    <2>3. code' = [code EXCEPT ![f] = FoldLeft(ConvertFCmpEqInstruction, code[f], FindFCmpEq(code[f]))]
      BY <2>1, <2>2, Zenon
    <2>. DEFINE new == FoldLeft(ConvertFCmpEqInstruction, code[f], FindFCmpEq(code[f]))
    <2>4. code'[f] = new /\ \A g \in FunctionNames \ {f} : code'[g] = code[g]
      <3>1. code' = [code EXCEPT ![f] = new]
        BY <2>3
      <3>. HIDE DEF new
      <3>. QED  BY <3>1 DEF TypeOK
    <2>5. Rewritten(f)
      BY <2>4, Zenon DEF Rewritten
    <2>. QED  BY <2>1, <2>4, <2>5, Zenon DEF CodeChange
  <1>6. ASSUME NEW f \in FunctionNames, Simplify(f) PROVE CodeChange
    <2>1. PICK b \in DOMAIN code[f] : \E k \in Erasable(f, b) :
            /\ code' = [code EXCEPT ![f][b] = RemoveAt(@, k)]
            /\ source' = [source EXCEPT !.code[f][b] = RemoveAt(@, PlaceInProgram(code[f][b], k))]
      BY <1>6 DEF Simplify
    <2>2. PICK k \in Erasable(f, b) :
            /\ code' = [code EXCEPT ![f][b] = RemoveAt(@, k)]
            /\ source' = [source EXCEPT !.code[f][b] = RemoveAt(@, PlaceInProgram(code[f][b], k))]
      BY <2>1
    <2>. DEFINE gone == RemoveAt(code[f][b], k)
    <2>3. code' = [code EXCEPT ![f][b] = gone]
      BY <2>2
    <2>. HIDE DEF gone
    <2>4. code'[f] = [code[f] EXCEPT ![b] = gone] /\ \A g \in FunctionNames \ {f} : code'[g] = code[g]
      BY <2>3 DEF TypeOK
    <2>5. Shortened(f)
      BY <2>2, <2>4, Zenon DEF Shortened, gone
    <2>6. erased' /\ UNCHANGED dtors
      BY <1>6 DEF Simplify
    <2>. QED  BY <2>4, <2>5, <2>6, Zenon DEF CodeChange
  <1>7. CASE ModulePass
    <2>1. CASE DynamicCCFindsNothing
      BY <1>1, <2>1 DEF DynamicCCFindsNothing, irVars
    <2>2. CASE InjectOnlyTheDeclaration
      BY <1>1, <2>2 DEF InjectOnlyTheDeclaration
    <2>3. CASE PrintStaticCC \/ CountStaticCalls
      BY <1>1, <2>3 DEF PrintStaticCC, CountStaticCalls, RequestStaticCC, irVars
    <2>4. ASSUME NEW passes \in FunctionPipelines, StartPipeline(passes) PROVE CodeChange
      BY <1>1, <2>4 DEF StartPipeline, irVars
    <2>. QED  BY <1>2, <1>3, <1>7, <2>1, <2>2, <2>3, <2>4 DEF ModulePass
  <1>8. ASSUME NEW f \in FunctionNames, FunctionPass(f) PROVE CodeChange
    <2>1. CASE PassOverDeclaration(f) \/ SkipOptnone(f) \/ HelloWorld(f) \/ LogReturnSkips(f)
      BY <1>1, <2>1 DEF PassOverDeclaration, SkipOptnone, HelloWorld, LogReturnSkips, irVars
    <2>2. CASE PrintOpcodes(f) \/ PrintFCmpEq(f) \/ ConvertNothing(f) \/ SimplifyNothing(f)
      BY <1>1, <2>2 DEF PrintOpcodes, PrintFCmpEq, ConvertNothing, SimplifyNothing, irVars
    <2>. QED  BY <1>4, <1>5, <1>6, <1>8, <2>1, <2>2 DEF FunctionPass
  <1>9. CASE EndPipeline \/ UNCHANGED vars
    BY <1>1, <1>9 DEF EndPipeline, vars, irVars
  <1>. QED  BY <1>7, <1>8, <1>9 DEF Next, Finished

\* What the passes add.
LEMMA AddedInstructions ==
  ASSUME NEW f \in FunctionNames
  PROVE  /\ AddedBy({Hello(f)}) /\ AddedBy({Goodbye(f)}) /\ AddedBy({LogCall(f)})
         /\ \A body : AddedBy(Range(Increment(f, body)))
         /\ \A body : AddedBy(Range(ReportLine(f, body)))
  <1>0. {"printf", "log_function_return"} \subseteq FunctionNames
    BY OptAssumption DEF OptAssumption
  <1>1. AddedBy({Hello(f)})
    BY <1>0 DEF AddedBy, Hello, Call, Instr, Known, IsInstr
  <1>2. AddedBy({Goodbye(f)})
    BY <1>0 DEF AddedBy, Goodbye, Call, Instr, Known, IsInstr
  <1>3. AddedBy({LogCall(f)})
    <2>1. ASSUME NEW args PROVE AddedBy({Call("log_function_return", args, "log-return")})
      BY <1>0 DEF AddedBy, Call, Instr, Known, IsInstr
    <2>. QED  BY <2>1, Zenon DEF LogCall, LogFunction
  <1>4. ASSUME NEW body PROVE AddedBy(Range(Increment(f, body)))
    <2>. DEFINE l == Increment(f, body)[1]
                a == Increment(f, body)[2]
                s == Increment(f, body)[3]
    <2>1. Range(Increment(f, body)) = {l, a, s}
      BY DEF Increment, Range
    <2>2. Known(l) /\ l.by # "user"
      BY DEF Increment, CounterAccess, Loaded, Value, Instr, Known, IsInstr, IsDirectCall, IsCall
    <2>3. Known(a) /\ a.by # "user"
      BY DEF Increment, Plain, Added, Value, Instr, Known, IsInstr, IsDirectCall, IsCall
    <2>4. Known(s) /\ s.by # "user"
      BY DEF Increment, CounterAccess, Instr, Known, IsInstr, IsDirectCall, IsCall
    <2>. QED  BY <2>1, <2>2, <2>3, <2>4 DEF AddedBy
  <1>5. ASSUME NEW body PROVE AddedBy(Range(ReportLine(f, body)))
    <2>. DEFINE l == ReportLine(f, body)[1]
                c == ReportLine(f, body)[2]
    <2>1. Range(ReportLine(f, body)) = {l, c}
      BY DEF ReportLine, Range
    <2>2. Known(l) /\ l.by # "user"
      BY DEF ReportLine, CounterAccess, Value, Instr, Known, IsInstr, IsDirectCall, IsCall
    <2>3. Known(c) /\ c.by # "user"
      BY <1>0 DEF ReportLine, Call, Instr, Known, IsInstr
    <2>. QED  BY <2>1, <2>2, <2>3 DEF AddedBy
  <1>. QED  BY <1>1, <1>2, <1>3, <1>4, <1>5

\* The parts of the block that prints the report.
Header == Call("printf", <<Constant("ResultHeaderStrIR", "ptr")>>, "dynamic-cc")
Ending == Instr("ret", NoValue, <<>>, Indirect, {}, {}, "dynamic-cc")
LinesMap(body) == [f \in FunctionNames |-> IF Defined(f) THEN ReportLine(f, body) ELSE <<>>]
Reported(body) == {Header, Ending} \cup UNION {Range(ReportLine(f, body)) : f \in FunctionNames}

\* The block that prints the report is its header, the lines, and a return.
LEMMA EnterBlockIs ==
  ASSUME TypeOK, NEW body
  PROVE  /\ LinesMap(body) \in [FunctionNames -> Seq(Reported(body))]
         /\ FlatMap(LinesMap(body), names) \in Seq(Reported(body))
         /\ EnterBlock(body) = <<Header>> \o FlatMap(LinesMap(body), names) \o <<Ending>>
         /\ AddedBy(Reported(body))
  <1>. DEFINE X == Reported(body)
              M == LinesMap(body)
  <1>0. names \in Seq(FunctionNames)
    BY DEF TypeOK
  <1>1. \A f \in FunctionNames : Range(ReportLine(f, body)) \subseteq X
    BY DEF Reported
  <1>2. ASSUME NEW f \in FunctionNames PROVE ReportLine(f, body) \in Seq(X)
    <2>. DEFINE l == ReportLine(f, body)[1]
                c == ReportLine(f, body)[2]
    <2>1. ReportLine(f, body) = <<l, c>>
      BY DEF ReportLine
    <2>2. l \in X /\ c \in X
      <3>1. Range(ReportLine(f, body)) = {l, c}
        BY DEF ReportLine, Range
      <3>. QED  BY <1>1, <3>1
    <2>. HIDE DEF l, c, X
    <2>. QED  BY <2>1, <2>2
  <1>. HIDE DEF X
  <1>3. M \in [FunctionNames -> Seq(X)]
    BY <1>2 DEF LinesMap
  <1>4. FlatMap(M, names) \in Seq(X)
    <2>. HIDE DEF M
    <2>. QED  BY <1>0, <1>3, FlatMapType
  <1>5. [k \in DOMAIN names |-> IF Defined(names[k]) THEN ReportLine(names[k], body) ELSE <<>>]
          = [k \in DOMAIN names |-> M[names[k]]]
    <2>1. \A k \in DOMAIN names : M[names[k]] = IF Defined(names[k]) THEN ReportLine(names[k], body) ELSE <<>>
      <3>1. \A k \in DOMAIN names : names[k] \in FunctionNames
        BY <1>0
      <3>. QED  BY <3>1, Zenon DEF LinesMap
    <2>. QED  BY <2>1, Zenon
  <1>6. EnterBlock(body) = <<Header>> \o FlatMap(M, names) \o <<Ending>>
    BY <1>5, Zenon DEF EnterBlock, FlatMap, Header, Ending
  <1>7. AddedBy(X)
    <2>1. Known(Header) /\ Header.by # "user"
      BY OptAssumption DEF OptAssumption, Header, Call, Instr, Known, IsInstr
    <2>2. Known(Ending) /\ Ending.by # "user"
      BY DEF Ending, Instr, Known, IsInstr, IsDirectCall, IsCall
    <2>. QED  BY <2>1, <2>2, AddedInstructions DEF AddedBy, X, Reported
  <1>. QED  BY <1>3, <1>4, <1>6, <1>7 DEF X

\* It is a block, and it returns.
LEMMA EnterBlockFormed ==
  ASSUME TypeOK, NEW body
  PROVE  /\ EnterBlock(body) \in BlocksOver(Reported(body))
         /\ Last(EnterBlock(body)) = Ending
         /\ Ending.op = "ret" /\ Ending.by = "dynamic-cc" /\ Ending.to = {}
  <1>. DEFINE X == Reported(body)
              lines == FlatMap(LinesMap(body), names)
              first == <<Header>> \o lines
  <1>1. lines \in Seq(X) /\ EnterBlock(body) = first \o <<Ending>>
    BY EnterBlockIs
  <1>2. Header \in X /\ Ending \in X
    BY DEF Reported
  <1>. HIDE DEF X, lines
  <1>3. first \in Seq(X)
    BY <1>1, <1>2
  <1>4. <<Ending>> \in BlocksOver(X) /\ Last(<<Ending>>) = Ending
    BY <1>2 DEF BlocksOver, Last
  <1>. HIDE DEF first
  <1>5. EndsAs(X, first, <<Ending>>)
    BY <1>3, <1>4, Prefixed
  <1>6. first \o <<Ending>> \in BlocksOver(X) /\ Last(first \o <<Ending>>) = Ending
    BY <1>4, <1>5, Zenon DEF EndsAs
  <1>7. Ending.op = "ret" /\ Ending.by = "dynamic-cc" /\ Ending.to = {}
    BY DEF Ending, Instr
  <1>. QED  BY <1>1, <1>6, <1>7 DEF X

\* Every change of the code leaves the bodies formed.
LEMMA FormedChange ==
  ASSUME TypeOK, FormedBodies, CodeChange
  PROVE  FormedBodies'
  <1>1. ASSUME NEW f \in FunctionNames PROVE FormedBody(code[f])
    BY DEF FormedBodies
  <1>2. ASSUME NEW f \in FunctionNames, Greeted(f) PROVE FormedBody(code'[f])
    <2>. DEFINE mid == AtEntry(code[f], <<Hello(f)>>)
    <2>1. AddedBy({Hello(f)}) /\ AddedBy({Goodbye(f)})
      BY AddedInstructions
    <2>2. <<Hello(f)>> \in Seq({Hello(f)}) /\ <<Goodbye(f)>> \in Seq({Goodbye(f)})
      OBVIOUS
    <2>3. FormedBody(mid)
      BY <1>1, <1>2, <2>1, <2>2, FormedPrefixed DEF Greeted, Defined
    <2>4. FormedBody(BeforeReturns(mid, <<Goodbye(f)>>))
      <3>. HIDE DEF mid
      <3>. QED  BY <2>1, <2>2, <2>3, FormedBeforeReturns
    <2>. QED  BY <1>2, <2>4 DEF Greeted, LoggingReturn
  <1>3. ASSUME NEW f \in FunctionNames, Defined(f) PROVE FormedBody(Counted(f))
    <2>. DEFINE is == Increment(f, code[f])
    <2>1. AddedBy(Range(is))
      BY AddedInstructions
    <2>2. is \in Seq(Range(is))
      BY DEF Increment, Range
    <2>. HIDE DEF is
    <2>3. FormedBody(AtEntry(code[f], is))
      BY <1>1, <1>3, <2>1, <2>2, FormedPrefixed DEF Defined
    <2>. QED  BY <2>3 DEF Counted, is
  <1>4. ASSUME Reports(Wrapper) PROVE FormedBody(code'[Wrapper])
    <2>1. Wrapper \in FunctionNames
      BY OptAssumption DEF OptAssumption, Wrapper
    <2>2. PICK body : body = code[Wrapper]
      OBVIOUS
    <2>3. PICK old : old = (IF Defined(Wrapper) THEN Counted(Wrapper) ELSE code[Wrapper])
      OBVIOUS
    <2>4. FormedBody(old)
      BY <1>1, <1>3, <2>1, <2>3
    <2>5. code'[Wrapper] = Append(old, EnterBlock(body))
      BY <1>4, <2>2, <2>3 DEF Reports
    <2>6. EnterBlock(body) \in BlocksOver(Reported(body)) /\ AddedBy(Reported(body))
          /\ Last(EnterBlock(body)).op \in Terminators
      BY EnterBlockIs, EnterBlockFormed DEF Terminators
    <2>. QED  BY <2>4, <2>5, <2>6, FormedAppended
  <1>5. ASSUME NEW f \in FunctionNames, ReturnLogged(f) PROVE FormedBody(code'[f])
    <2>1. PICK i : i = LogCall(f)
      OBVIOUS
    <2>2. AddedBy({i})
      BY <2>1, AddedInstructions, Zenon
    <2>3. <<i>> \in Seq({i})
      OBVIOUS
    <2>4. code'[f] = BeforeReturns(code[f], <<i>>)
      BY <1>5, <2>1, Zenon DEF ReturnLogged
    <2>. QED  BY <1>1, <2>2, <2>3, <2>4, FormedBeforeReturns
  <1>6. ASSUME NEW f \in FunctionNames, Rewritten(f) PROVE FormedBody(code'[f])
    BY <1>1, <1>6, FormedConverted DEF Rewritten
  <1>7. ASSUME NEW f \in FunctionNames, Shortened(f) PROVE FormedBody(code'[f])
    <2>1. PICK b \in DOMAIN code[f] : \E k \in Erasable(f, b) : code'[f] = [code[f] EXCEPT ![b] = RemoveAt(@, k)]
      BY <1>7 DEF Shortened
    <2>2. PICK k \in Erasable(f, b) : code'[f] = [code[f] EXCEPT ![b] = RemoveAt(@, k)]
      BY <2>1
    <2>3. k \in DOMAIN code[f][b] /\ code[f][b][k].op \notin Terminators
      BY DEF Erasable, Terminators
    <2>4. FormedBody([code[f] EXCEPT ![b] = RemoveAt(@, k)])
      BY <1>1, <2>1, <2>3, FormedErased
    <2>. QED  BY <2>2, <2>4
  <1>. SUFFICES ASSUME NEW f \in FunctionNames PROVE FormedBody(code'[f])
    BY DEF FormedBodies
  <1>8. Tallied(f) => Defined(f) /\ code'[f] = Counted(f)
    BY DEF Tallied
  <1>9. \/ code'[f] = code[f] \/ Greeted(f) \/ Tallied(f) \/ (f = Wrapper /\ Reports(Wrapper))
        \/ ReturnLogged(f) \/ Rewritten(f) \/ Shortened(f)
    BY DEF CodeChange
  <1>. QED  BY <1>1, <1>2, <1>3, <1>4, <1>5, <1>6, <1>7, <1>8, <1>9

FormedInv == TypeOK /\ CachedResultsAreCurrent /\ FormedBodies

\* Bodies are formed, and cached results current, at any time.
LEMMA FormedSpec == Spec => []FormedInv
  <1>1. Init => FormedInv
    BY TypeInit, CachesInit, FormedInit DEF FormedInv
  <1>2. FormedInv /\ [Next]_vars => FormedInv'
    <2>1. FormedInv /\ [Next]_vars => TypeOK' /\ CachedResultsAreCurrent'
      BY TypeStep, CachesStep DEF FormedInv
    <2>2. FormedInv /\ [Next]_vars => FormedBodies'
      BY CodeSteps, FormedChange DEF FormedInv
    <2>. QED  BY <2>1, <2>2 DEF FormedInv
  <1>. QED  BY <1>1, <1>2, PTL DEF Spec

\* What static-cc and opcode-counter have cached, and print, is right: a callee
\* has the number of its call sites in the code as it then is, an opcode the
\* number of its uses.
THEOREM CountsRight == Spec => []CountsAreRight
  <1>1. FormedInv => CountsAreRight
    BY CountsOfCurrent DEF FormedInv
  <1>. QED  BY <1>1, FormedSpec, PTL

-----------------------------------------------------------------------------
(* The caller map names nobody who does not call.                          *)

\* A block is a list and its last instruction, between which a pass may put
\* instructions if that returns.
EndsWith(block, p, x) == block = p \o <<x>>
ReturnsAfter(new, p, is, x) == new = IF x.op = "ret" THEN (p \o is) \o <<x>> ELSE p \o <<x>>

\* What a call in front of the return makes of one block.
LEMMA BlockBeforeReturn ==
  ASSUME NEW S, NEW body \in BodiesOver(S), NEW is, NEW b \in DOMAIN body
  PROVE  \E p \in Seq(S) : \E x \in S :
            /\ EndsWith(body[b], p, x) /\ x = Last(body[b])
            /\ ReturnsAfter(BeforeReturns(body, is)[b], p, is, x)
  <1>. DEFINE p == Front(body[b])
              x == Last(body[b])
  <1>1. body[b] \in BlocksOver(S)
    BY BodyFacts
  <1>2. p \in Seq(S) /\ x \in S /\ body[b] = Append(p, x)
    BY <1>1, FrontAndLast, BlockFacts
  <1>3. Append(p, x) = p \o <<x>>
    <2>. HIDE DEF p, x
    <2>. QED  BY <1>2, AppendProperties, ConcatProperties
  <1>4. EndsWith(body[b], p, x)
    BY <1>2, <1>3, Zenon DEF EndsWith
  <1>5. BeforeReturns(body, is)[b] = IF x.op = "ret" THEN (p \o is) \o <<x>> ELSE body[b]
    BY Zenon DEF BeforeReturns
  <1>6. ReturnsAfter(BeforeReturns(body, is)[b], p, is, x)
    BY <1>4, <1>5, Zenon DEF ReturnsAfter, EndsWith
  <1>. QED  BY <1>2, <1>4, <1>6

\* The calls of a body are calls of another.
KeepsCalls(old, new) ==
  \A i \in InstructionSet(old) : \E j \in InstructionSet(new) : j.op = i.op /\ j.fn = i.fn

\* Instructions added at the entry leave the others.
LEMMA AtEntryKeeps ==
  ASSUME NEW S, NEW body \in BodiesOver(S), body # <<>>, NEW is \in Seq(S)
  PROVE  InstructionSet(body) \subseteq InstructionSet(AtEntry(body, is))
  <1>. DEFINE new == AtEntry(body, is)
  <1>1. /\ DOMAIN new = DOMAIN body /\ new[1] = is \o body[1]
        /\ \A b \in DOMAIN body \ {1} : new[b] = body[b]
    BY AtEntryOver
  <1>2. \A b \in DOMAIN body : body[b] \in Seq(S)
    BY BodyFacts DEF BlocksOver
  <1>. HIDE DEF new
  <1>3. ASSUME NEW b \in DOMAIN body, NEW i \in Range(body[b]) PROVE i \in Range(new[b])
    <2>1. CASE b = 1
      <3>1. \A y : y \in Range(is \o body[1]) <=> y \in Range(is) \/ y \in Range(body[1])
        BY <1>2, <2>1, RangeRunTogether
      <3>. QED  BY <1>1, <1>3, <2>1, <3>1
    <2>2. CASE b # 1
      BY <1>1, <1>3, <2>2
    <2>. QED  BY <2>1, <2>2
  <1>. QED  BY <1>1, <1>3 DEF InstructionSet, new

\* Instructions added in front of returns leave the others.
LEMMA BeforeReturnsKeeps ==
  ASSUME NEW S, NEW body \in BodiesOver(S), NEW is \in Seq(S)
  PROVE  InstructionSet(body) \subseteq InstructionSet(BeforeReturns(body, is))
  <1>. DEFINE new == BeforeReturns(body, is)
  <1>1. DOMAIN new = DOMAIN body
    BY BeforeReturnsOver
  <1>2. ASSUME NEW b \in DOMAIN body, NEW i \in Range(body[b]) PROVE i \in Range(new[b])
    <2>1. PICK p \in Seq(S), x \in S : EndsWith(body[b], p, x) /\ ReturnsAfter(new[b], p, is, x)
      BY BlockBeforeReturn
    <2>2. \A y : y \in Range(p \o <<x>>) <=> y \in Range(p) \/ y \in Range(<<x>>)
      <3>1. <<x>> \in Seq(S)
        OBVIOUS
      <3>. QED  BY <3>1, RangeRunTogether
    <2>3. \A y : y \in Range(p \o is) <=> y \in Range(p) \/ y \in Range(is)
      BY RangeRunTogether
    <2>4. \A y : y \in Range((p \o is) \o <<x>>) <=> y \in Range(p \o is) \/ y \in Range(<<x>>)
      <3>1. p \o is \in Seq(S) /\ <<x>> \in Seq(S)
        OBVIOUS
      <3>. QED  BY <3>1, RangeRunTogether
    <2>5. i \in Range(p) \/ i \in Range(<<x>>)
      BY <1>2, <2>1, <2>2, Zenon DEF EndsWith
    <2>6. i \in Range((p \o is) \o <<x>>) /\ i \in Range(p \o <<x>>)
      BY <2>2, <2>3, <2>4, <2>5, Zenon
    <2>7. new[b] = (p \o is) \o <<x>> \/ new[b] = p \o <<x>>
      BY <2>1, Zenon DEF ReturnsAfter
    <2>. QED  BY <2>6, <2>7, Zenon
  <1>. QED  BY <1>1, <1>2 DEF InstructionSet

\* A block added leaves the others.
LEMMA AppendKeeps ==
  ASSUME NEW S, NEW body \in BodiesOver(S), NEW block \in BlocksOver(S)
  PROVE  InstructionSet(body) \subseteq InstructionSet(Append(body, block))
  <1>1. \A b \in DOMAIN body : b \in DOMAIN Append(body, block) /\ Append(body, block)[b] = body[b]
    BY DEF BodiesOver
  <1>. QED  BY <1>1 DEF InstructionSet

\* convert-fcmp-eq loses no call.
LEMMA ConvertedKeeps ==
  ASSUME NEW body, FormedBody(body)
  PROVE  KeepsCalls(body, FoldLeft(ConvertFCmpEqInstruction, body, FindFCmpEq(body)))
  <1>. DEFINE S == InstructionSet(body)
              D == Range(FindFCmpEq(body))
              M == Conversion(S, D)
              new == FoldLeft(ConvertFCmpEqInstruction, body, FindFCmpEq(body))
  <1>1. body \in BodiesOver(S) /\ Sound(S) /\ new = MapBlocks(M, body)
    BY FormedElim, FormedConverted
  <1>2. ComparisonsKnown(S)
    BY <1>1, SoundKnowsComparisons
  <1>. HIDE DEF S, D, M, new
  <1>3. M \in [S -> BlocksOver(WithConverted(S))]
    BY <1>2, ConversionType DEF M
  <1>4. \A y : y \in InstructionSet(MapBlocks(M, body)) <=> \E x \in InstructionSet(body) : y \in Range(M[x])
    BY <1>1, <1>3, MapBlocksOver
  <1>5. ASSUME NEW i \in S PROVE \E j \in Range(M[i]) : j.op = i.op /\ j.fn = i.fn
    <2>1. CASE IsEquality(i) /\ i.def \in D
      <3>1. M[i] = Converted(i)
        BY <2>1, Zenon DEF M, Conversion
      <3>2. PICK j \in Range(Converted(i)) : TheSameBut(i, j)
        BY <1>2, ConvertedBlock DEF ComparisonsKnown
      <3>. QED  BY <3>1, <3>2, Zenon DEF TheSameBut
    <2>2. CASE ~(IsEquality(i) /\ i.def \in D)
      <3>1. M[i] = <<i>>
        BY <2>2, Zenon DEF M, Conversion
      <3>2. i \in Range(<<i>>)
        BY DEF Range
      <3>. QED  BY <3>1, <3>2, Zenon
    <2>. QED  BY <2>1, <2>2
  <1>. QED  BY <1>1, <1>4, <1>5 DEF KeepsCalls, S, new

\* No change of the code but simplify's loses a call.
LEMMA ChangeKeepsCalls ==
  ASSUME TypeOK, FormedBodies, CodeChange, ~erased', NEW f \in FunctionNames
  PROVE  KeepsCalls(code[f], code'[f])
  <1>. DEFINE S == InstructionSet(code[f])
  <1>1. FormedBody(code[f]) /\ code[f] \in BodiesOver(S)
    BY FormedElim DEF FormedBodies
  <1>2. ASSUME NEW T, S \subseteq T PROVE code[f] \in BodiesOver(T)
    BY <1>1, <1>2, BodiesGrow
  <1>3. ASSUME NEW new, S \subseteq InstructionSet(new) PROVE KeepsCalls(code[f], new)
    BY <1>3 DEF KeepsCalls
  <1>. HIDE DEF S
  <1>4. CASE Greeted(f)
    <2>. DEFINE mid == AtEntry(code[f], <<Hello(f)>>)
                T == S \cup {Hello(f), Goodbye(f)}
    <2>1. code[f] \in BodiesOver(T) /\ code[f] # <<>>
      BY <1>2, <1>4 DEF Greeted, Defined
    <2>2. <<Hello(f)>> \in Seq(T) /\ <<Goodbye(f)>> \in Seq(T)
      OBVIOUS
    <2>. HIDE DEF T
    <2>3. mid \in BodiesOver(T) /\ S \subseteq InstructionSet(mid)
      BY <2>1, <2>2, AtEntryOver, AtEntryKeeps DEF S
    <2>. HIDE DEF mid
    <2>4. InstructionSet(mid) \subseteq InstructionSet(BeforeReturns(mid, <<Goodbye(f)>>))
      BY <2>2, <2>3, BeforeReturnsKeeps
    <2>5. code'[f] = BeforeReturns(mid, <<Goodbye(f)>>)
      BY <1>4 DEF Greeted, LoggingReturn, mid
    <2>. QED  BY <1>3, <2>3, <2>4, <2>5
  <1>5. ASSUME Defined(f)
        PROVE  /\ S \subseteq InstructionSet(Counted(f))
               /\ \E T : Counted(f) \in BodiesOver(T)
    <2>. DEFINE is == Increment(f, code[f])
                T == S \cup Range(is)
    <2>1. code[f] \in BodiesOver(T) /\ code[f] # <<>>
      BY <1>2, <1>5 DEF Defined
    <2>2. is \in Seq(Range(is))
      BY DEF Increment, Range
    <2>3. is \in Seq(T)
      <3>. HIDE DEF is
      <3>1. Seq(Range(is)) \subseteq Seq(T)
        BY BlocksGrow
      <3>. QED  BY <2>2, <3>1
    <2>. HIDE DEF T, is
    <2>4. S \subseteq InstructionSet(AtEntry(code[f], is)) /\ AtEntry(code[f], is) \in BodiesOver(T)
      BY <2>1, <2>3, AtEntryKeeps, AtEntryOver DEF S
    <2>5. Counted(f) = AtEntry(code[f], is)
      BY DEF Counted, is
    <2>. QED  BY <2>4, <2>5
  <1>6. CASE Tallied(f)
    BY <1>3, <1>5, <1>6 DEF Tallied
  <1>7. CASE f = Wrapper /\ Reports(Wrapper)
    <2>1. PICK old : old = (IF Defined(f) THEN Counted(f) ELSE code[f])
      OBVIOUS
    <2>2. PICK block : block = EnterBlock(code[f])
      OBVIOUS
    <2>3. code'[f] = Append(old, block)
      BY <1>7, <2>1, <2>2 DEF Reports
    <2>4. PICK T : old \in BodiesOver(T)
      BY <1>1, <1>5, <2>1
    <2>5. S \subseteq InstructionSet(old)
      BY <1>5, <2>1 DEF S
    <2>6. block \in BlocksOver(Reported(code[f]))
      BY <2>2, EnterBlockFormed
    <2>. DEFINE U == T \cup Reported(code[f])
    <2>7. old \in BodiesOver(U) /\ block \in BlocksOver(U)
      BY <2>4, <2>6, BodiesGrow, BlocksGrow
    <2>. HIDE DEF U
    <2>8. InstructionSet(old) \subseteq InstructionSet(Append(old, block))
      BY <2>7, AppendKeeps
    <2>. QED  BY <1>3, <2>3, <2>5, <2>8
  <1>8. CASE ReturnLogged(f)
    <2>1. PICK i : i = LogCall(f)
      OBVIOUS
    <2>2. code'[f] = BeforeReturns(code[f], <<i>>)
      BY <1>8, <2>1, Zenon DEF ReturnLogged
    <2>. DEFINE T == S \cup {i}
    <2>3. code[f] \in BodiesOver(T) /\ <<i>> \in Seq(T)
      BY <1>2
    <2>. HIDE DEF T
    <2>4. S \subseteq InstructionSet(BeforeReturns(code[f], <<i>>))
      BY <2>3, BeforeReturnsKeeps DEF S
    <2>. QED  BY <1>3, <2>2, <2>4
  <1>9. CASE Rewritten(f)
    BY <1>1, <1>9, ConvertedKeeps, Zenon DEF Rewritten
  <1>10. CASE code'[f] = code[f]
    BY <1>3, <1>10 DEF S
  <1>11. \/ code'[f] = code[f] \/ Greeted(f) \/ Tallied(f) \/ (f = Wrapper /\ Reports(Wrapper))
         \/ ReturnLogged(f) \/ Rewritten(f)
    BY DEF CodeChange
  <1>. QED  BY <1>4, <1>6, <1>7, <1>8, <1>9, <1>10, <1>11

\* Until something is erased, the map names nobody who does not call.
CallersAreCallers == ~erased => \A g \in FunctionNames : callers[g] \subseteq CallersOf(code, g)

\* A function calls another if one of its instructions does.
LEMMA CallsAreInstructions ==
  ASSUME NEW cd, NEW f, NEW g
  PROVE  CallsDirectly(cd, f, g) <=> \E i \in InstructionSet(cd[f]) : IsDirectCall(i) /\ i.fn = g
  BY DEF CallsDirectly, InstructionSet, Range

\* Who has called a function goes on calling it, unless code is erased.
LEMMA CallersStay ==
  ASSUME TypeOK, FormedBodies, CodeChange, ~erased', NEW g
  PROVE  CallersOf(code, g) \subseteq CallersOf(code', g)
  <1>. SUFFICES ASSUME NEW f \in FunctionNames, CallsDirectly(code, f, g)
                PROVE  CallsDirectly(code', f, g)
    BY DEF CallersOf
  <1>1. PICK i \in InstructionSet(code[f]) : IsDirectCall(i) /\ i.fn = g
    BY CallsAreInstructions
  <1>2. PICK j \in InstructionSet(code'[f]) : j.op = i.op /\ j.fn = i.fn
    BY ChangeKeepsCalls DEF KeepsCalls
  <1>3. IsDirectCall(j) /\ j.fn = g
    BY <1>1, <1>2 DEF IsDirectCall, IsCall
  <1>. QED  BY <1>2, <1>3, CallsAreInstructions

\* Only static-cc changes the map.
LEMMA MapChange ==
  ASSUME [Next]_vars
  PROVE  UNCHANGED callers \/ callers' = CallersAdded
  <1>1. CASE ModulePass
    <2>1. CASE PrintStaticCC \/ CountStaticCalls
      BY <2>1 DEF PrintStaticCC, CountStaticCalls, RequestStaticCC, irVars
    <2>2. CASE DynamicCC \/ DynamicCCFindsNothing \/ InjectFuncCall \/ InjectOnlyTheDeclaration
      BY <2>2 DEF DynamicCC, DynamicCCFindsNothing, InjectFuncCall, InjectOnlyTheDeclaration
    <2>3. ASSUME NEW passes \in FunctionPipelines, StartPipeline(passes) PROVE UNCHANGED callers
      BY <2>3 DEF StartPipeline
    <2>. QED  BY <1>1, <2>1, <2>2, <2>3 DEF ModulePass
  <1>2. ASSUME NEW f \in FunctionNames, FunctionPass(f) PROVE UNCHANGED callers
    <2>1. CASE PassOverDeclaration(f) \/ SkipOptnone(f) \/ HelloWorld(f) \/ LogReturnSkips(f)
      BY <2>1 DEF PassOverDeclaration, SkipOptnone, HelloWorld, LogReturnSkips
    <2>2. CASE PrintOpcodes(f) \/ PrintFCmpEq(f) \/ ConvertNothing(f) \/ SimplifyNothing(f)
      BY <2>2 DEF PrintOpcodes, PrintFCmpEq, ConvertNothing, SimplifyNothing
    <2>3. CASE LogReturn(f) \/ ConvertFCmpEq(f) \/ Simplify(f)
      BY <2>3 DEF LogReturn, ConvertFCmpEq, Simplify
    <2>. QED  BY <1>2, <2>1, <2>2, <2>3 DEF FunctionPass
  <1>3. CASE EndPipeline \/ UNCHANGED vars
    BY <1>3 DEF EndPipeline, vars
  <1>. QED  BY <1>1, <1>2, <1>3 DEF Next, Finished

\* That something has been erased is not forgotten.
LEMMA ErasedStays ==
  ASSUME CodeChange, erased
  PROVE  erased'
  BY DEF CodeChange

\* No step puts anybody on the map who does not call.
LEMMA CallersExactStep ==
  ASSUME FormedInv, CallersAreCallers, [Next]_vars
  PROVE  CallersAreCallers'
  <1>1. CodeChange /\ TypeOK /\ FormedBodies
    BY CodeSteps DEF FormedInv
  <1>. SUFFICES ASSUME ~erased', NEW g \in FunctionNames
                PROVE  callers'[g] \subseteq CallersOf(code', g)
    BY DEF CallersAreCallers, CallersOf, CallsDirectly
  <1>2. callers[g] \subseteq CallersOf(code, g)
    BY <1>1, ErasedStays DEF CallersAreCallers
  <1>3. CallersOf(code, g) \subseteq CallersOf(code', g)
    BY <1>1, CallersStay
  <1>4. CASE UNCHANGED callers
    BY <1>2, <1>3, <1>4
  <1>5. CASE callers' = CallersAdded
    BY <1>2, <1>3, <1>5 DEF CallersAdded
  <1>. QED  BY <1>4, <1>5, MapChange

\* Nobody else, that is.
THEOREM CallersExact == Spec => []CallersAreExact
  <1>1. Init => CallersAreCallers
    BY DEF Init, CallersAreCallers
  <1>2. FormedInv /\ CallersAreCallers /\ [Next]_vars => CallersAreCallers'
    BY CallersExactStep
  <1>3. FormedInv /\ CallersAreNamed /\ CallersAreCallers => CallersAreExact
    BY DEF FormedInv, TypeOK, CallersAreNamed, CallersAreCallers, CallersAreExact
  <1>. QED  BY <1>1, <1>2, <1>3, FormedSpec, CallersNamed, PTL DEF Spec

-----------------------------------------------------------------------------
(* The program's instructions stay where they are.                         *)

\* Lists run together of parts as long are run together of the same parts.
LEMMA PartsApart ==
  ASSUME NEW S, NEW a \in Seq(S), NEW b \in Seq(S), NEW c \in Seq(S), NEW d \in Seq(S),
         Len(a) = Len(c), a \o b = c \o d
  PROVE  a = c /\ b = d
  <1>1. /\ Len(a) \in Nat /\ Len(b) \in Nat /\ Len(d) \in Nat
        /\ Len(a \o b) = Len(a) + Len(b) /\ Len(c \o d) = Len(c) + Len(d)
    BY ConcatProperties
  <1>2. Len(b) = Len(d)
    BY <1>1
  <1>3. ASSUME NEW k \in 1 .. Len(a) PROVE a[k] = c[k]
    <2>1. (a \o b)[k] = a[k] /\ (c \o d)[k] = c[k]
      BY <1>1
    <2>. QED  BY <2>1
  <1>4. ASSUME NEW k \in 1 .. Len(b) PROVE b[k] = d[k]
    <2>. DEFINE j == Len(a) + k
    <2>1. j \in 1 .. Len(a) + Len(b) /\ ~(j <= Len(a)) /\ j - Len(a) = k
      BY <1>1
    <2>. HIDE DEF j
    <2>2. (a \o b)[j] = b[j - Len(a)]
      BY <2>1, ConcatProperties
    <2>3. (c \o d)[j] = d[j - Len(c)]
      <3>1. j \in 1 .. Len(c) + Len(d) /\ ~(j <= Len(c))
        BY <1>2, <2>1
      <3>. QED  BY <3>1, ConcatProperties
    <2>. QED  BY <2>1, <2>2, <2>3
  <1>5. a = c
    BY <1>3, SeqEqual
  <1>. QED  BY <1>2, <1>4, <1>5, SeqEqual

\* What is kept of the instructions of the program.
KeptOf(S) == {Kept(i) : i \in S}
OwnMap(S) == [i \in S |-> IF i.by = "user" THEN <<Kept(i)>> ELSE <<>>]
UserOnly(S) == {i \in S : i.by = "user"}

\* The instructions of the program are kept with their names.
LEMMA OwnMapType ==
  ASSUME NEW S
  PROVE  OwnMap(S) \in [S -> Seq(KeptOf(S))]
  <1>1. \A i \in S : <<Kept(i)>> \in Seq(KeptOf(S)) /\ <<>> \in Seq(KeptOf(S))
    BY DEF KeptOf
  <1>. QED  BY <1>1 DEF OwnMap

\* What is the program's in a block is a flat map of the block.
LEMMA OwnIs ==
  ASSUME NEW S, NEW block \in Seq(S)
  PROVE  Own(block) = FlatMap(OwnMap(S), block)
  <1>1. \A k \in DOMAIN block : block[k] \in S
    OBVIOUS
  <1>2. \A k \in DOMAIN block : OwnMap(S)[block[k]]
          = IF block[k].by = "user"
            THEN <<Kept(block[k])>>
            ELSE <<>>
    BY <1>1, Zenon DEF OwnMap
  <1>3. [k \in DOMAIN block |->
           IF block[k].by = "user"
           THEN <<Kept(block[k])>>
           ELSE <<>>]
          = [k \in DOMAIN block |-> OwnMap(S)[block[k]]]
    BY <1>2, Zenon
  <1>. QED  BY <1>3, Zenon DEF Own, FlatMap

\* It is a list of what is kept of the block's instructions.
LEMMA OwnType ==
  ASSUME NEW S, NEW block \in Seq(S)
  PROVE  Own(block) \in Seq(KeptOf(S))
  BY OwnMapType, OwnIs, FlatMapType

OwnOfBoth(a, b) == Own(a \o b) = Own(a) \o Own(b)

\* What is the program's in two lists is what is in each, in order.
LEMMA OwnConcat ==
  ASSUME NEW S, NEW a \in Seq(S), NEW b \in Seq(S)
  PROVE  OwnOfBoth(a, b)
  <1>1. Distributes(OwnMap(S), a, b)
    BY OwnMapType, FlatMapConcat
  <1>2. a \o b \in Seq(S)
    OBVIOUS
  <1>3. Own(a \o b) = FlatMap(OwnMap(S), a \o b) /\ Own(a) = FlatMap(OwnMap(S), a) /\ Own(b) = FlatMap(OwnMap(S), b)
    BY <1>2, OwnIs
  <1>. QED  BY <1>1, <1>3, Zenon DEF Distributes, OwnOfBoth

\* There is nothing of it in nothing.
LEMMA OwnEmpty == Own(<<>>) = <<>>
  <1>1. <<>> \in Seq({})
    OBVIOUS
  <1>. QED  BY <1>1, OwnIs, FlatMapEmpty

\* One instruction is the program's or not.
LEMMA OwnOne ==
  ASSUME NEW x
  PROVE  Own(<<x>>) = IF x.by = "user" THEN <<Kept(x)>> ELSE <<>>
  <1>1. <<x>> \in Seq({x}) /\ x \in {x}
    OBVIOUS
  <1>2. FlatMap(OwnMap({x}), <<x>>) = OwnMap({x})[x]
    BY <1>1, OwnMapType, FlatMapOne
  <1>3. OwnMap({x})[x] = IF x.by = "user" THEN <<Kept(x)>> ELSE <<>>
    BY <1>1, Zenon DEF OwnMap
  <1>4. Own(<<x>>) = FlatMap(OwnMap({x}), <<x>>)
    BY <1>1, OwnIs
  <1>. QED  BY <1>2, <1>3, <1>4, Zenon

\* There is nothing of the program's in what a pass adds.
LEMMA OwnNone ==
  ASSUME NEW S, NEW is \in Seq(S), \A i \in Range(is) : i.by # "user"
  PROVE  Own(is) = <<>>
  <1>1. Own(is) = FlatMap(OwnMap(S), is) /\ Own(is) \in Seq(KeptOf(S))
    BY OwnIs, OwnType
  <1>2. \A y : y \in Range(FlatMap(OwnMap(S), is)) <=> \E x \in Range(is) : y \in Range(OwnMap(S)[x])
    BY OwnMapType, FlatMapRange
  <1>3. ASSUME NEW x \in Range(is) PROVE Range(OwnMap(S)[x]) = {}
    <2>1. x \in S
      BY DEF Range
    <2>2. OwnMap(S)[x] = <<>>
      BY <2>1, Zenon DEF OwnMap
    <2>. QED  BY <2>2 DEF Range
  <1>4. Range(Own(is)) = {}
    BY <1>1, <1>2, <1>3
  <1>5. ASSUME NEW T, NEW s \in Seq(T), Range(s) = {} PROVE s = <<>>
    <2>1. \A k \in DOMAIN s : s[k] \in Range(s)
      BY DEF Range
    <2>2. DOMAIN s = {} /\ DOMAIN s = 1 .. Len(s) /\ Len(s) \in Nat
      <3>1. DOMAIN s = {}
        BY <1>5, <2>1, Zenon
      <3>2. DOMAIN s = 1 .. Len(s) /\ Len(s) \in Nat
        OBVIOUS
      <3>. QED  BY <3>1, <3>2
    <2>3. Len(s) = 0
      BY <2>2
    <2>. QED  BY <2>3
  <1>. QED  BY <1>1, <1>4, <1>5

\* As long as the program's instructions are many.
LEMMA OwnLength ==
  ASSUME NEW S
  PROVE  \A s \in Seq(S) : Len(Own(s)) = Count(s, UserOnly(S))
  <1>. DEFINE U == UserOnly(S)
              Holds(s) == Len(Own(s)) = Count(s, U)
              D == {s \in Seq(S) : Holds(s)}
  <1>1. <<>> \in D
    BY OwnEmpty, CountEmpty
  <1>2. ASSUME NEW s \in Seq(S), NEW x \in S, s \in D PROVE Append(s, x) \in D
    <2>1. <<x>> \in Seq(S) /\ Append(s, x) = s \o <<x>> /\ Append(s, x) \in Seq(S)
      BY AppendProperties, ConcatProperties
    <2>2. OwnOfBoth(s, <<x>>)
      BY <2>1, OwnConcat
    <2>3. Own(Append(s, x)) = Own(s) \o Own(<<x>>)
      BY <2>1, <2>2, Zenon DEF OwnOfBoth
    <2>4. Own(s) \in Seq(KeptOf(S)) /\ Own(<<x>>) \in Seq(KeptOf(S))
      BY <2>1, OwnType
    <2>5. Len(Own(Append(s, x))) = Len(Own(s)) + Len(Own(<<x>>))
      BY <2>3, <2>4, ConcatProperties
    <2>6. Len(Own(<<x>>)) = IF x \in U THEN 1 ELSE 0
      <3>1. CASE x.by = "user"
        <4>1. Own(<<x>>) = <<Kept(x)>> /\ x \in U
          BY <3>1, OwnOne, Zenon DEF UserOnly
        <4>2. Len(<<Kept(x)>>) = 1
          OBVIOUS
        <4>. HIDE DEF U
        <4>. QED  BY <4>1, <4>2
      <3>2. CASE x.by # "user"
        <4>1. Own(<<x>>) = <<>> /\ x \notin U
          BY <3>2, OwnOne, Zenon DEF UserOnly
        <4>. HIDE DEF U
        <4>. QED  BY <4>1
      <3>. QED  BY <3>1, <3>2
    <2>7. Count(Append(s, x), U) = IF x \in U THEN Count(s, U) + 1 ELSE Count(s, U)
      BY CountAppend
    <2>8. Count(s, U) \in Nat
      BY PlacesFinite
    <2>9. Holds(s)
      BY <1>2
    <2>10. Holds(Append(s, x))
      <3>. HIDE DEF D, U
      <3>. QED  BY <2>5, <2>6, <2>7, <2>8, <2>9
    <2>. QED  BY <2>1, <2>10
  <1>. HIDE DEF D
  <1>3. Seq(S) \subseteq D
    BY <1>1, <1>2, ListInduction
  <1>. QED  BY <1>3 DEF D

\* The program's instructions stay in each block.
KeepsOwn(old, new) == DOMAIN new = DOMAIN old /\ \A b \in DOMAIN old : Own(new[b]) = Own(old[b])

\* What holds nothing of the program's may be added on either side.
LEMMA NothingAdded ==
  ASSUME NEW S, NEW a \in Seq(S), NEW b \in Seq(S)
  PROVE  /\ Own(a) = <<>> => Own(a \o b) = Own(b)
         /\ Own(b) = <<>> => Own(a \o b) = Own(a)
  <1>1. OwnOfBoth(a, b)
    BY OwnConcat
  <1>2. Own(a \o b) = Own(a) \o Own(b)
    BY <1>1, Zenon DEF OwnOfBoth
  <1>3. Own(a) \in Seq(KeptOf(S)) /\ Own(b) \in Seq(KeptOf(S))
    BY OwnType
  <1>4. ASSUME NEW T, NEW s \in Seq(T) PROVE <<>> \o s = s /\ s \o <<>> = s
    BY ConcatEmptySeq
  <1>. QED  BY <1>2, <1>3, <1>4

\* The entry keeps the program's instructions behind what is added.
LEMMA OwnAtEntry ==
  ASSUME NEW S, NEW body \in BodiesOver(S), body # <<>>, NEW is \in Seq(S), \A i \in Range(is) : i.by # "user"
  PROVE  KeepsOwn(body, AtEntry(body, is))
  <1>. DEFINE new == AtEntry(body, is)
  <1>1. /\ DOMAIN new = DOMAIN body /\ new[1] = is \o body[1]
        /\ \A b \in DOMAIN body \ {1} : new[b] = body[b]
    BY AtEntryOver
  <1>. HIDE DEF new
  <1>2. Own(is) = <<>>
    BY OwnNone
  <1>3. 1 \in DOMAIN body => body[1] \in Seq(S)
    BY BodyFacts DEF BlocksOver
  <1>4. 1 \in DOMAIN body => Own(is \o body[1]) = Own(body[1])
    BY <1>2, <1>3, NothingAdded
  <1>. QED  BY <1>1, <1>4 DEF KeepsOwn, new

\* A block that returns keeps them in front of what is added.
LEMMA OwnBeforeReturns ==
  ASSUME NEW S, NEW body \in BodiesOver(S), NEW is \in Seq(S), \A i \in Range(is) : i.by # "user"
  PROVE  KeepsOwn(body, BeforeReturns(body, is))
  <1>. DEFINE new == BeforeReturns(body, is)
  <1>1. DOMAIN new = DOMAIN body
    BY BeforeReturnsOver
  <1>2. Own(is) = <<>>
    BY OwnNone
  <1>3. ASSUME NEW b \in DOMAIN body PROVE Own(new[b]) = Own(body[b])
    <2>1. PICK p \in Seq(S), x \in S : EndsWith(body[b], p, x) /\ ReturnsAfter(new[b], p, is, x)
      BY BlockBeforeReturn
    <2>. DEFINE last == <<x>>
    <2>2. last \in Seq(S) /\ p \o is \in Seq(S)
      OBVIOUS
    <2>. HIDE DEF last
    <2>3. Own(p \o is) = Own(p)
      BY <1>2, NothingAdded
    <2>4. OwnOfBoth(p \o is, last) /\ OwnOfBoth(p, last)
      BY <2>2, OwnConcat
    <2>5. Own((p \o is) \o last) = Own(p \o last)
      BY <2>3, <2>4, Zenon DEF OwnOfBoth
    <2>6. new[b] = (p \o is) \o last \/ new[b] = p \o last
      BY <2>1, Zenon DEF ReturnsAfter, last
    <2>7. body[b] = p \o last
      BY <2>1, Zenon DEF EndsWith, last
    <2>. QED  BY <2>5, <2>6, <2>7, Zenon
  <1>. QED  BY <1>1, <1>3 DEF KeepsOwn

\* A converted equality is a comparison with epsilon, and keeps the rest.
LEMMA KeptConverted ==
  ASSUME NEW i, IsInstr(i), IsEquality(i)
  PROVE  Kept(Converted(i)[5]) = Kept(i)
  <1>. DEFINE dbl == MadeFor(i.def, "dbl", "double")
              e == [i EXCEPT !.pred = CmpPred[@], !.args = <<dbl, EpsilonValue>>]
              blank == [i EXCEPT !.args = <<>>, !.pred = {}]
  <1>1. Converted(i)[5] = e
    BY DEF Converted
  <1>. HIDE DEF dbl
  <1>2. e.op = i.op /\ e.args = <<dbl, EpsilonValue>>
    BY DEF IsInstr, Instr
  <1>3. [e EXCEPT !.args = <<>>, !.pred = {}] = blank
    BY DEF IsInstr, Instr
  <1>. HIDE DEF e, blank
  <1>4. EpsilonValue \in Range(e.args)
    <2>1. 2 \in DOMAIN <<dbl, EpsilonValue>> /\ <<dbl, EpsilonValue>>[2] = EpsilonValue
      OBVIOUS
    <2>. QED  BY <1>2, <2>1, Zenon DEF Range
  <1>5. MayConvert(e) /\ MayConvert(i)
    BY <1>2, <1>4, Zenon DEF MayConvert, IsEquality
  <1>6. Kept(e) = [e EXCEPT !.args = <<>>, !.pred = {}]
    BY <1>5, Zenon DEF Kept
  <1>7. Kept(i) = blank
    BY <1>5, Zenon DEF Kept, blank
  <1>. QED  BY <1>1, <1>3, <1>6, <1>7, Zenon

\* A converted comparison is the program's; what is made for it is not.
LEMMA OwnConvertedOne ==
  ASSUME NEW i, IsInstr(i), IsEquality(i), NEW T, Converted(i) \in Seq(T)
  PROVE  FlatMap(OwnMap(T), Converted(i)) = IF i.by = "user" THEN <<Kept(i)>> ELSE <<>>
  <1>1. PICK a, b, c, d, e :
           /\ Converted(i) = <<a, b, c, d, e>>
           /\ MadeFrom(i, a) /\ MadeFrom(i, b) /\ MadeFrom(i, c) /\ MadeFrom(i, d)
           /\ TheSameBut(i, e)
    BY ConvertedIs
  <1>. DEFINE made == <<a, b, c, d>>
              last == <<e>>
              U == {a, b, c, d, e}
  <1>2. made \in Seq(U) /\ last \in Seq(U) /\ <<a, b, c, d, e>> = made \o last
    OBVIOUS
  <1>3. Own(made) = <<>>
    <2>1. Range(made) = {a, b, c, d}
      BY DEF Range
    <2>2. \A x \in Range(made) : x.by # "user"
      BY <1>1, <2>1 DEF MadeFrom
    <2>. HIDE DEF made, U
    <2>. QED  BY <1>2, <2>2, OwnNone
  <1>4. Own(last) = IF i.by = "user" THEN <<Kept(i)>> ELSE <<>>
    <2>1. e.by = i.by /\ Kept(e) = Kept(i)
      <3>1. e = Converted(i)[5] /\ e.by = i.by
        BY <1>1 DEF TheSameBut
      <3>. QED  BY <3>1, KeptConverted, Zenon
    <2>. QED  BY <2>1, OwnOne
  <1>5. Own(made \o last) = Own(last)
    <2>. HIDE DEF made, last, U
    <2>. QED  BY <1>2, <1>3, NothingAdded
  <1>6. Own(Converted(i)) = FlatMap(OwnMap(T), Converted(i))
    BY OwnIs
  <1>. QED  BY <1>1, <1>2, <1>4, <1>5, <1>6, Zenon

\* convert-fcmp-eq leaves them where they are.
LEMMA OwnConverted ==
  ASSUME NEW body, FormedBody(body)
  PROVE  KeepsOwn(body, FoldLeft(ConvertFCmpEqInstruction, body, FindFCmpEq(body)))
  <1>. DEFINE S == InstructionSet(body)
              D == Range(FindFCmpEq(body))
              M == Conversion(S, D)
              T == WithConverted(S)
              new == FoldLeft(ConvertFCmpEqInstruction, body, FindFCmpEq(body))
  <1>1. body \in BodiesOver(S) /\ Sound(S) /\ new = MapBlocks(M, body) /\ DOMAIN new = DOMAIN body
    BY FormedElim, FormedConverted
  <1>2. ComparisonsKnown(S)
    BY <1>1, SoundKnowsComparisons
  <1>3. S \subseteq T /\ \A i \in S : IsInstr(i)
    BY <1>2 DEF WithConverted, ComparisonsKnown
  <1>. HIDE DEF S, D, T, new
  <1>4. M \in [S -> BlocksOver(T)]
    BY <1>2, ConversionType DEF T
  <1>5. M \in [S -> Seq(T)]
    BY <1>4 DEF BlocksOver
  <1>6. ASSUME NEW i \in S PROVE FlatMap(OwnMap(T), M[i]) = OwnMap(T)[i]
    <2>1. OwnMap(T)[i] = IF i.by = "user" THEN <<Kept(i)>> ELSE <<>>
      BY <1>3, Zenon DEF OwnMap
    <2>2. CASE IsEquality(i) /\ i.def \in D
      <3>1. M[i] = Converted(i)
        BY <2>2, Zenon DEF Conversion
      <3>2. Converted(i) \in Seq(T)
        BY <1>5, <3>1
      <3>3. FlatMap(OwnMap(T), Converted(i)) = IF i.by = "user" THEN <<Kept(i)>> ELSE <<>>
        BY <1>3, <2>2, <3>2, OwnConvertedOne
      <3>. QED  BY <2>1, <3>1, <3>3, Zenon
    <2>3. CASE ~(IsEquality(i) /\ i.def \in D)
      <3>1. M[i] = <<i>>
        BY <2>3, Zenon DEF Conversion
      <3>2. i \in T
        BY <1>3
      <3>3. FlatMap(OwnMap(T), <<i>>) = OwnMap(T)[i]
        BY <3>2, OwnMapType, FlatMapOne
      <3>. QED  BY <3>1, <3>3, Zenon
    <2>. QED  BY <2>2, <2>3
  <1>. HIDE DEF M
  <1>7. ASSUME NEW b \in DOMAIN body PROVE Own(new[b]) = Own(body[b])
    <2>1. body[b] \in Seq(S)
      BY <1>1, BodyFacts DEF BlocksOver
    <2>2. new[b] = FlatMap(M, body[b])
      BY <1>1, Zenon DEF MapBlocks
    <2>3. FlatMap(M, body[b]) \in Seq(T)
      BY <1>5, <2>1, FlatMapType
    <2>4. Own(new[b]) = FlatMap(OwnMap(T), FlatMap(M, body[b]))
      BY <2>2, <2>3, OwnIs
    <2>. DEFINE K == [i \in S |-> OwnMap(T)[i]]
    <2>5. K \in [S -> Seq(KeptOf(T))] /\ \A i \in S : K[i] = OwnMap(T)[i]
      BY <1>3, OwnMapType
    <2>. HIDE DEF K
    <2>6. \A i \in S : FlatMap(OwnMap(T), M[i]) = K[i]
      BY <1>6, <2>5
    <2>7. Composed(S, M, OwnMap(T), K)
      BY <1>5, <2>5, <2>6, OwnMapType, FlatMapsCompose
    <2>8. FlatMap(OwnMap(T), FlatMap(M, body[b])) = FlatMap(K, body[b])
      BY <2>1, <2>7 DEF Composed
    <2>9. K = OwnMap(S)
      <3>1. \A i \in S : OwnMap(T)[i] = IF i.by = "user" THEN <<Kept(i)>> ELSE <<>>
        BY <1>3, Zenon DEF OwnMap
      <3>. QED  BY <3>1, Zenon DEF K, OwnMap
    <2>10. Own(body[b]) = FlatMap(OwnMap(S), body[b])
      BY <2>1, OwnIs
    <2>. QED  BY <2>4, <2>8, <2>9, <2>10, Zenon
  <1>. QED  BY <1>1, <1>7 DEF KeepsOwn, new

\* One element more makes a list longer by one, whatever follows.
LEMMA OneMore ==
  ASSUME NEW W, NEW a \in Seq(W), NEW x \in W, NEW c \in Seq(W)
  PROVE  /\ a \o <<x>> \in Seq(W) /\ Len(a \o <<x>>) = Len(a) + 1
         /\ Len((a \o <<x>>) \o c) = Len(a) + 1 + Len(c)
  <1>1. <<x>> \in Seq(W) /\ Len(<<x>>) = 1
    OBVIOUS
  <1>2. PICK one : one = <<x>>
    OBVIOUS
  <1>3. one \in Seq(W) /\ Len(one) = 1
    BY <1>1, <1>2
  <1>4. PICK ax : ax = a \o one
    OBVIOUS
  <1>5. ax \in Seq(W) /\ Len(ax) = Len(a) + Len(one)
    BY <1>3, <1>4, ConcatProperties, Zenon
  <1>6. Len(ax \o c) = Len(ax) + Len(c)
    BY <1>5, ConcatProperties, Zenon
  <1>. QED  BY <1>2, <1>3, <1>4, <1>5, <1>6

OwnParts(block, s, x, t) == Own(block) = (Own(s) \o <<Kept(x)>>) \o Own(t)

\* The program's instructions in a block, around one of them.
LEMMA OwnAround ==
  ASSUME NEW S, NEW s \in Seq(S), NEW x \in S, x.by = "user", NEW t \in Seq(S),
         NEW block, block = Append(s, x) \o t
  PROVE  OwnParts(block, s, x, t)
  <1>. DEFINE one == <<x>>
              sx == s \o one
  <1>1. one \in Seq(S) /\ Append(s, x) = sx /\ sx \in Seq(S)
    BY AppendProperties, ConcatProperties
  <1>2. Own(one) = <<Kept(x)>>
    BY OwnOne, Zenon
  <1>. HIDE DEF one
  <1>3. OwnOfBoth(s, one)
    BY <1>1, OwnConcat
  <1>4. Own(sx) = Own(s) \o <<Kept(x)>>
    BY <1>2, <1>3, Zenon DEF OwnOfBoth
  <1>. HIDE DEF sx
  <1>5. OwnOfBoth(sx, t)
    BY <1>1, OwnConcat
  <1>. QED  BY <1>1, <1>4, <1>5, Zenon DEF OwnOfBoth, OwnParts

\* All of the program's own instructions are kept.
LEMMA OwnOfOwn ==
  ASSUME NEW T, \A x \in T : x.by = "user", NEW given \in Seq(T)
  PROVE  Len(Own(given)) = Len(given)
  <1>1. Len(Own(given)) = Count(given, UserOnly(T))
    BY OwnLength
  <1>2. UserOnly(T) = T
    BY DEF UserOnly
  <1>3. PlacesIn(given, T) = 1 .. Len(given)
    BY DEF PlacesIn
  <1>4. Cardinality(1 .. Len(given)) = Len(given)
    <2>1. Len(given) \in Nat
      OBVIOUS
    <2>2. \A n \in Nat : Cardinality(1 .. n) = n
      BY FS_Interval
    <2>. QED  BY <2>1, <2>2, Zenon
  <1>. QED  BY <1>1, <1>2, <1>3, <1>4 DEF Count

\* Where an instruction is among the program's.
LEMMA PlaceIs ==
  ASSUME NEW S, NEW block \in Seq(S), NEW k \in 1 .. Len(block), block[k].by = "user",
         NEW s \in Seq(S), NEW t \in Seq(S), CutIn(block, k, s, t)
  PROVE  PlaceInProgram(block, k) = Len(Own(s)) + 1
  <1>. DEFINE x == block[k]
              sx == Append(s, x)
              U == UserOnly(S)
  <1>1. /\ sx \in Seq(S) /\ Len(sx) = k /\ k \in Nat /\ block = sx \o t
        /\ x \in S
    BY AppendProperties DEF CutIn
  <1>2. x \in U
    BY <1>1 DEF UserOnly
  <1>3. Count(sx, U) = Count(s, U) + 1
    BY <1>1, <1>2, CountAppend
  <1>4. Count(s, U) = Len(Own(s))
    BY OwnLength
  <1>. HIDE DEF sx, x
  <1>5. \A j \in 1 .. k : block[j] = sx[j] /\ block[j] \in S
    BY <1>1, ConcatProperties
  <1>6. DOMAIN sx = 1 .. k
    BY <1>1
  <1>7. {j \in 1 .. k : block[j].by = "user"} = PlacesIn(sx, U)
    BY <1>5, <1>6 DEF PlacesIn, UserOnly
  <1>8. PlaceInProgram(block, k) = Count(sx, U)
    BY <1>7, Zenon DEF PlaceInProgram, Count
  <1>. QED  BY <1>3, <1>4, <1>8

\* What is erased of a block and of the program it comes from is the same.
LEMMA OwnErased ==
  ASSUME NEW S, NEW block \in Seq(S), NEW k \in 1 .. Len(block), block[k].by = "user",
         NEW T, \A x \in T : x.by = "user", NEW given \in Seq(T), Own(given) = Own(block),
         NEW n, n = PlaceInProgram(block, k)
  PROVE  /\ n \in 1 .. Len(given) /\ RemoveAt(given, n) \in Seq(T)
         /\ Own(RemoveAt(given, n)) = Own(RemoveAt(block, k))
  <1>. DEFINE W == KeptOf(S \cup T)
  <1>0. ASSUME NEW s, s \in Seq(S) \/ s \in Seq(T)
        PROVE  s \in Seq(S \cup T) /\ Own(s) \in Seq(W) /\ Len(Own(s)) \in Nat
    <2>1. s \in Seq(S \cup T)
      BY <1>0
    <2>2. Own(s) \in Seq(W)
      BY <2>1, OwnType
    <2>. QED  BY <2>1, <2>2
  <1>1. PICK s, t \in Seq(S) : CutIn(block, k, s, t)
    BY CutAt
  <1>2. block[k] \in S /\ OwnParts(block, s, block[k], t)
    <2>1. block[k] \in S
      OBVIOUS
    <2>. QED  BY <1>1, <2>1, OwnAround DEF CutIn
  <1>3. n = Len(Own(s)) + 1
    BY <1>1, PlaceIs
  <1>4. Len(given) = Len(Own(block))
    BY OwnOfOwn
  <1>5. Kept(block[k]) \in W
    BY <1>2 DEF KeptOf
  <1>. HIDE DEF W
  <1>6. /\ Own(s) \in Seq(W) /\ Own(t) \in Seq(W)
        /\ Len(Own(s)) \in Nat /\ Len(Own(t)) \in Nat
    BY <1>0
  <1>8. Len(Own(block)) = Len(Own(s)) + 1 + Len(Own(t))
    BY <1>2, <1>5, <1>6, OneMore DEF OwnParts
  <1>9. n \in 1 .. Len(given)
    BY <1>3, <1>4, <1>6, <1>8
  <1>10. PICK p, q \in Seq(T) : CutIn(given, n, p, q)
    BY <1>9, CutAt
  <1>11. RemoveAt(given, n) \in Seq(T)
    BY <1>9, CutAt
  <1>12. given[n] \in T /\ given[n].by = "user"
    BY <1>9
  <1>13. OwnParts(given, p, given[n], q)
    BY <1>10, <1>12, OwnAround DEF CutIn
  <1>14. Kept(given[n]) \in W
    BY <1>12 DEF KeptOf, W
  <1>15. Own(p) \in Seq(W) /\ Own(q) \in Seq(W)
    BY <1>0
  <1>16. Len(Own(p)) = Len(Own(s))
    <2>1. Len(Own(p)) = Len(p)
      BY OwnOfOwn
    <2>2. Len(p) = n - 1
      BY <1>10 DEF CutIn
    <2>. QED  BY <1>3, <1>6, <2>1, <2>2
  <1>17. Own(p) = Own(s) /\ Own(q) = Own(t)
    <2>. DEFINE a == Own(p)
                b == <<Kept(given[n])>>
                c == Own(q)
                d == Own(s)
                e == <<Kept(block[k])>>
                f == Own(t)
    <2>1. (a \o b) \o c = (d \o e) \o f
      BY <1>2, <1>13, Zenon DEF OwnParts
    <2>2. /\ a \in Seq(W) /\ b \in Seq(W) /\ c \in Seq(W) /\ d \in Seq(W) /\ e \in Seq(W) /\ f \in Seq(W)
          /\ Len(a) = Len(d)
      BY <1>5, <1>6, <1>14, <1>15, <1>16
    <2>3. a \o b \in Seq(W) /\ d \o e \in Seq(W) /\ Len(a \o b) = Len(d \o e)
      BY <1>5, <1>6, <1>14, <1>15, <1>16, OneMore
    <2>. HIDE DEF a, b, c, d, e, f
    <2>4. a \o b = d \o e /\ c = f
      BY <2>1, <2>2, <2>3, PartsApart
    <2>5. a = d
      BY <2>2, <2>4, PartsApart
    <2>. QED  BY <2>4, <2>5 DEF a, c, d, f
  <1>18. OwnOfBoth(s, t) /\ OwnOfBoth(p, q)
    BY OwnConcat
  <1>19. RemoveAt(block, k) = s \o t /\ RemoveAt(given, n) = p \o q
    BY <1>1, <1>10 DEF CutIn
  <1>20. Own(RemoveAt(given, n)) = Own(RemoveAt(block, k))
    BY <1>17, <1>18, <1>19, Zenon DEF OwnOfBoth
  <1>. QED  BY <1>9, <1>11, <1>20

Instrumented(f) == code'[f] = code[f] \/ Greeted(f) \/ Tallied(f) \/ ReturnLogged(f) \/ Rewritten(f)
Erasure == \E f \in FunctionNames : Shortened(f) /\ \A g \in FunctionNames \ {f} : code'[g] = code[g]

\* A step erases an instruction, or adds to the code that it changes.
LEMMA ErasedOrInstrumented ==
  ASSUME CodeChange
  PROVE  Erasure \/ (UNCHANGED source /\ \A f \in FunctionNames \ {Wrapper} : Instrumented(f))
  <1>1. ASSUME NEW f \in FunctionNames, ReturnLogged(f) \/ Rewritten(f),
               \A g \in FunctionNames \ {f} : code'[g] = code[g]
        PROVE  \A g \in FunctionNames : Instrumented(g)
    BY <1>1 DEF Instrumented
  <1>. QED  BY <1>1 DEF CodeChange, Erasure, Instrumented

\* A body to which a pass has added without a change of what is the program's.
LEMMA InstrumentedKeepsOwn ==
  ASSUME FormedBodies, NEW f \in FunctionNames, Instrumented(f)
  PROVE  KeepsOwn(code[f], code'[f])
  <1>. DEFINE S == InstructionSet(code[f])
  <1>1. FormedBody(code[f]) /\ code[f] \in BodiesOver(S)
    BY FormedElim DEF FormedBodies
  <1>2. ASSUME NEW T, S \subseteq T PROVE code[f] \in BodiesOver(T)
    BY <1>1, <1>2, BodiesGrow
  <1>. HIDE DEF S
  <1>3. ASSUME NEW i PROVE Range(<<i>>) = {i}
    BY DEF Range
  <1>4. CASE Greeted(f)
    <2>. DEFINE mid == AtEntry(code[f], <<Hello(f)>>)
                T == S \cup {Hello(f), Goodbye(f)}
    <2>1. code[f] \in BodiesOver(T) /\ code[f] # <<>>
      BY <1>2, <1>4 DEF Greeted, Defined
    <2>2. <<Hello(f)>> \in Seq(T) /\ <<Goodbye(f)>> \in Seq(T)
      OBVIOUS
    <2>3. /\ \A i \in Range(<<Hello(f)>>) : i.by # "user"
          /\ \A i \in Range(<<Goodbye(f)>>) : i.by # "user"
      BY <1>3, AddedInstructions DEF AddedBy
    <2>. HIDE DEF T
    <2>4. mid \in BodiesOver(T) /\ KeepsOwn(code[f], mid)
      BY <2>1, <2>2, <2>3, AtEntryOver, OwnAtEntry
    <2>. HIDE DEF mid
    <2>5. KeepsOwn(mid, BeforeReturns(mid, <<Goodbye(f)>>))
      BY <2>2, <2>3, <2>4, OwnBeforeReturns
    <2>6. code'[f] = BeforeReturns(mid, <<Goodbye(f)>>)
      BY <1>4 DEF Greeted, LoggingReturn, mid
    <2>. QED  BY <2>4, <2>5, <2>6, Zenon DEF KeepsOwn
  <1>5. CASE Tallied(f)
    <2>. DEFINE is == Increment(f, code[f])
                T == S \cup Range(is)
    <2>1. code[f] \in BodiesOver(T) /\ code[f] # <<>>
      BY <1>2, <1>5 DEF Tallied, Defined
    <2>2. is \in Seq(Range(is))
      BY DEF Increment, Range
    <2>3. \A i \in Range(is) : i.by # "user"
      BY AddedInstructions DEF AddedBy
    <2>4. is \in Seq(T)
      <3>. HIDE DEF is
      <3>1. Seq(Range(is)) \subseteq Seq(T)
        BY BlocksGrow
      <3>. QED  BY <2>2, <3>1
    <2>. HIDE DEF T, is
    <2>5. KeepsOwn(code[f], AtEntry(code[f], is))
      BY <2>1, <2>3, <2>4, OwnAtEntry
    <2>6. code'[f] = AtEntry(code[f], is)
      BY <1>5 DEF Tallied, Counted, is
    <2>. QED  BY <2>5, <2>6
  <1>6. CASE ReturnLogged(f)
    <2>1. PICK i : i = LogCall(f)
      OBVIOUS
    <2>2. code'[f] = BeforeReturns(code[f], <<i>>)
      BY <1>6, <2>1, Zenon DEF ReturnLogged
    <2>. DEFINE T == S \cup {i}
    <2>3. code[f] \in BodiesOver(T) /\ <<i>> \in Seq(T)
      BY <1>2
    <2>4. \A j \in Range(<<i>>) : j.by # "user"
      <3>1. AddedBy({i})
        BY <2>1, AddedInstructions, Zenon
      <3>. QED  BY <1>3, <3>1 DEF AddedBy
    <2>. HIDE DEF T
    <2>. QED  BY <2>2, <2>3, <2>4, OwnBeforeReturns
  <1>7. CASE Rewritten(f)
    BY <1>1, <1>7, OwnConverted, Zenon DEF Rewritten
  <1>8. CASE code'[f] = code[f]
    BY <1>8 DEF KeepsOwn
  <1>. QED  BY <1>4, <1>5, <1>6, <1>7, <1>8 DEF Instrumented

\* The program as it is compared with: its code and nobody else's.
IsSourceBlock(block) == block \in Seq(Range(block)) /\ \A i \in Range(block) : i.by = "user"

SourceKept ==
  /\ source = [names |-> source.names, code |-> source.code, params |-> source.params,
               optnone |-> source.optnone, doubles |-> source.doubles]
  /\ DOMAIN source.code = FunctionNames
  /\ source.code[Wrapper] = <<>>
  /\ \A f \in FunctionNames : \A b \in DOMAIN source.code[f] : IsSourceBlock(source.code[f][b])

\* The program given is its own, and the code is the program.
LEMMA KeptInit == Init => SourceKept /\ ProgramIsKept
  <1>. SUFFICES ASSUME Init PROVE SourceKept /\ ProgramIsKept
    OBVIOUS
  <1>1. source \in Programs /\ code = source.code
    BY DEF Init
  <1>2. ProgramIsKept
    BY <1>1 DEF ProgramIsKept
  <1>3. /\ source = [names |-> source.names, code |-> source.code, params |-> source.params,
                     optnone |-> source.optnone, doubles |-> source.doubles]
        /\ DOMAIN source.code = FunctionNames
        /\ source.code[Wrapper] = <<>>
        /\ \A f \in FunctionNames : IsProgramBody(source.code[f])
    BY <1>1, OptAssumption, Zenon DEF OptAssumption, Wrapper
  <1>4. ASSUME NEW f \in FunctionNames, NEW b \in DOMAIN source.code[f] PROVE IsSourceBlock(source.code[f][b])
    <2>. DEFINE body == source.code[f]
    <2>1. body \in BodiesOver(InstructionSet(body))
      BY <1>3, BodyIsOver DEF IsProgramBody
    <2>2. body[b] \in Seq(InstructionSet(body)) /\ Range(body[b]) \subseteq InstructionSet(body)
      BY <1>4, <2>1, BodyFacts DEF BlocksOver, InstructionSet
    <2>3. \A i \in InstructionSet(body) : i.by = "user"
      <3>1. IsProgramBody(body)
        BY <1>3
      <3>2. \A i \in InstructionSet(body) : i = Instr(i.op, i.def, i.args, i.fn, i.to, i.pred, "user")
        BY <3>1, Zenon DEF IsProgramBody
      <3>. QED  BY <3>2 DEF Instr
    <2>4. ASSUME NEW T, NEW s \in Seq(T) PROVE s \in Seq(Range(s))
      BY DEF Range
    <2>. QED  BY <2>2, <2>3, <2>4 DEF IsSourceBlock
  <1>. QED  BY <1>2, <1>3, <1>4 DEF SourceKept

\* Erasing an instruction of the program changes one block of it.
LEMMA SourceFields ==
  ASSUME SourceKept, NEW f \in FunctionNames, NEW b, NEW new,
         source' = [source EXCEPT !.code[f][b] = new]
  PROVE  /\ source' = [names |-> source'.names, code |-> source'.code, params |-> source'.params,
                       optnone |-> source'.optnone, doubles |-> source'.doubles]
         /\ DOMAIN source'.code = FunctionNames
         /\ \A g \in FunctionNames \ {f} : source'.code[g] = source.code[g]
         /\ source'.code[f] = [source.code[f] EXCEPT ![b] = new]
  BY DEF SourceKept

\* Every step leaves the program's instructions where they are.
LEMMA KeptStep ==
  ASSUME TypeOK, FormedBodies, CodeChange, SourceKept, ProgramIsKept
  PROVE  SourceKept' /\ ProgramIsKept'
  <1>1. CASE UNCHANGED source /\ \A f \in FunctionNames \ {Wrapper} : Instrumented(f)
    <2>1. SourceKept'
      BY <1>1 DEF SourceKept
    <2>2. ASSUME NEW f \in FunctionNames, source'.code[f] # <<>>
          PROVE  /\ DOMAIN code'[f] = DOMAIN source'.code[f]
                 /\ \A b \in DOMAIN code'[f] : Own(code'[f][b]) = Own(source'.code[f][b])
      <3>1. f \in ProgramFunctions /\ f \in FunctionNames \ {Wrapper} /\ source'.code[f] = source.code[f]
        BY <1>1, <2>2 DEF SourceKept, ProgramFunctions
      <3>2. KeepsOwn(code[f], code'[f])
        BY <1>1, <3>1, InstrumentedKeepsOwn
      <3>3. /\ DOMAIN code[f] = DOMAIN source.code[f]
            /\ \A b \in DOMAIN code[f] : Own(code[f][b]) = Own(source.code[f][b])
        BY <3>1 DEF ProgramIsKept
      <3>. QED  BY <3>1, <3>2, <3>3, Zenon DEF KeepsOwn
    <2>. QED  BY <2>1, <2>2 DEF ProgramIsKept, ProgramFunctions
  <1>2. CASE Erasure
    <2>1. PICK f \in FunctionNames : Shortened(f) /\ \A g \in FunctionNames \ {f} : code'[g] = code[g]
      BY <1>2 DEF Erasure
    <2>20. PICK b \in DOMAIN code[f] : \E k \in Erasable(f, b) :
            /\ code'[f] = [code[f] EXCEPT ![b] = RemoveAt(@, k)]
            /\ source' = [source EXCEPT !.code[f][b] = RemoveAt(@, PlaceInProgram(code[f][b], k))]
      BY <2>1 DEF Shortened
    <2>2. PICK k \in Erasable(f, b) :
            /\ code'[f] = [code[f] EXCEPT ![b] = RemoveAt(@, k)]
            /\ source' = [source EXCEPT !.code[f][b] = RemoveAt(@, PlaceInProgram(code[f][b], k))]
      BY <2>20
    <2>3. PICK block : block = code[f][b]
      OBVIOUS
    <2>4. PICK given : given = source.code[f][b]
      OBVIOUS
    <2>5. PICK n : n = PlaceInProgram(block, k)
      OBVIOUS
    <2>6. PICK less : less = RemoveAt(block, k)
      OBVIOUS
    <2>7. PICK left : left = RemoveAt(given, n)
      OBVIOUS
    <2>8. code'[f] = [code[f] EXCEPT ![b] = less]
      BY <2>2, <2>3, <2>6
    <2>9. source' = [source EXCEPT !.code[f][b] = left]
      BY <2>2, <2>3, <2>4, <2>5, <2>7
    <2>10. /\ source' = [names |-> source'.names, code |-> source'.code, params |-> source'.params,
                         optnone |-> source'.optnone, doubles |-> source'.doubles]
           /\ DOMAIN source'.code = FunctionNames
           /\ \A g \in FunctionNames \ {f} : source'.code[g] = source.code[g]
           /\ source'.code[f] = [source.code[f] EXCEPT ![b] = left]
      BY <2>9, SourceFields
    <2>11. ASSUME f \in ProgramFunctions
           PROVE  /\ b \in DOMAIN source.code[f] /\ DOMAIN source.code[f] = DOMAIN code[f]
                  /\ IsSourceBlock(left) /\ Own(left) = Own(less)
      <3>1. b \in DOMAIN source.code[f] /\ DOMAIN source.code[f] = DOMAIN code[f] /\ Own(given) = Own(block)
        BY <2>3, <2>4, <2>11 DEF ProgramIsKept
      <3>2. IsSourceBlock(given)
        BY <2>4, <3>1 DEF SourceKept
      <3>3. block \in Seq(InstructionSet(code[f]))
        BY <2>3, FormedElim, BodyFacts DEF FormedBodies, BlocksOver
      <3>4. k \in DOMAIN block /\ block[k].by = "user"
        BY <2>2, <2>3 DEF Erasable
      <3>5. k \in 1 .. Len(block)
        BY <3>3, <3>4
      <3>6. /\ left \in Seq(Range(given))
            /\ Own(left) = Own(less)
        BY <2>5, <2>6, <2>7, <3>1, <3>2, <3>3, <3>4, <3>5, OwnErased DEF IsSourceBlock
      <3>7. left \in Seq(Range(left)) /\ Range(left) \subseteq Range(given)
        BY <3>6 DEF Range
      <3>. QED  BY <3>1, <3>2, <3>6, <3>7 DEF IsSourceBlock
    <2>12. ASSUME f \notin ProgramFunctions PROVE source.code[f] = <<>> /\ source'.code[f] = <<>>
      <3>1. source.code[f] = <<>>
        BY <2>12 DEF ProgramFunctions
      <3>. QED  BY <2>10, <3>1
    <2>13. SourceKept'
      <3>1. source'.code[Wrapper] = <<>>
        <4>1. CASE f = Wrapper
          BY <2>12, <4>1 DEF SourceKept, ProgramFunctions
        <4>2. CASE f # Wrapper
          BY <2>10, <4>2, OptAssumption DEF SourceKept, OptAssumption, Wrapper
        <4>. QED  BY <4>1, <4>2
      <3>2. ASSUME NEW g \in FunctionNames, NEW c \in DOMAIN source'.code[g]
            PROVE  IsSourceBlock(source'.code[g][c])
        <4>1. CASE g # f
          BY <2>10, <3>2, <4>1 DEF SourceKept
        <4>2. CASE g = f
          <5>1. f \in ProgramFunctions /\ c \in DOMAIN source.code[f]
            BY <2>10, <2>12, <3>2, <4>2
          <5>2. source'.code[f][c] = IF c = b THEN left ELSE source.code[f][c]
            BY <2>10, <5>1
          <5>3. IsSourceBlock(source.code[f][c])
            BY <5>1 DEF SourceKept
          <5>. QED  BY <2>11, <4>2, <5>1, <5>2, <5>3
        <4>. QED  BY <4>1, <4>2
      <3>. QED  BY <2>10, <3>1, <3>2 DEF SourceKept
    <2>14. ASSUME NEW g \in FunctionNames, source'.code[g] # <<>>
           PROVE  /\ DOMAIN code'[g] = DOMAIN source'.code[g]
                  /\ \A c \in DOMAIN code'[g] : Own(code'[g][c]) = Own(source'.code[g][c])
      <3>1. CASE g # f
        BY <2>1, <2>10, <2>14, <3>1 DEF ProgramIsKept, ProgramFunctions
      <3>2. CASE g = f
        <4>1. f \in ProgramFunctions
          BY <2>12, <2>14, <3>2
        <4>2. /\ DOMAIN code[f] = DOMAIN source.code[f]
              /\ \A c \in DOMAIN code[f] : Own(code[f][c]) = Own(source.code[f][c])
          BY <4>1 DEF ProgramIsKept
        <4>3. DOMAIN code'[f] = DOMAIN code[f] /\ DOMAIN source'.code[f] = DOMAIN source.code[f]
          BY <2>8, <2>10
        <4>4. \A c \in DOMAIN code[f] : /\ code'[f][c] = IF c = b THEN less ELSE code[f][c]
                                        /\ source'.code[f][c] = IF c = b THEN left ELSE source.code[f][c]
          BY <2>8, <2>10, <4>2
        <4>. QED  BY <2>11, <3>2, <4>1, <4>2, <4>3, <4>4
      <3>. QED  BY <3>1, <3>2
    <2>. QED  BY <2>13, <2>14 DEF ProgramIsKept, ProgramFunctions
  <1>. QED  BY <1>1, <1>2, ErasedOrInstrumented

\* The instrumentation leaves the program's instructions where they are.
THEOREM ProgramKept == Spec => []ProgramIsKept
  <1>1. Init => SourceKept /\ ProgramIsKept
    BY KeptInit
  <1>2. FormedInv /\ SourceKept /\ ProgramIsKept /\ [Next]_vars => SourceKept' /\ ProgramIsKept'
    <2>. SUFFICES ASSUME FormedInv, SourceKept, ProgramIsKept, [Next]_vars PROVE SourceKept' /\ ProgramIsKept'
      OBVIOUS
    <2>1. TypeOK /\ FormedBodies /\ CodeChange
      BY CodeSteps DEF FormedInv
    <2>. QED  BY <2>1, KeptStep
  <1>. QED  BY <1>1, <1>2, FormedSpec, PTL DEF Spec

-----------------------------------------------------------------------------
(* Every return is logged.                                                 *)

\* What logging tells apart: hellos, the program's own, goodbyes, and what
\* log-return logs.
KindNames == {"hello", "own", "goodbye", "log"}

\* Nothing of the program's before a hello, or behind a goodbye.
InOrder(v) ==
  \A j, k \in DOMAIN v : j < k => /\ ~(v[j] = "own" /\ v[k] = "hello")
                                  /\ ~(v[j] = "goodbye" /\ v[k] = "own")

Fits(s, t) ==
  /\ "own" \in Range(s) => "hello" \notin Range(t)
  /\ "goodbye" \in Range(s) => "own" \notin Range(t)

\* Two lists are in order together if each is, and they fit.
LEMMA OrderTogether ==
  ASSUME NEW S, NEW s \in Seq(S), NEW t \in Seq(S)
  PROVE  InOrder(s \o t) <=> InOrder(s) /\ InOrder(t) /\ Fits(s, t)
  <1>. DEFINE n == Len(s)
              v == s \o t
  <1>1. /\ n \in Nat /\ Len(t) \in Nat /\ DOMAIN s = 1 .. n /\ DOMAIN t = 1 .. Len(t)
        /\ DOMAIN v = 1 .. n + Len(t)
    OBVIOUS
  <1>2. \A k \in DOMAIN s : k \in DOMAIN v /\ v[k] = s[k]
    BY <1>1
  <1>3. \A k \in DOMAIN t : n + k \in DOMAIN v /\ v[n + k] = t[k]
    BY <1>1
  <1>4. \A k \in DOMAIN v : k \in DOMAIN s \/ (k > n /\ k - n \in DOMAIN t /\ v[k] = t[k - n])
    BY <1>1, <1>3
  <1>. HIDE DEF v
  <1>5. ASSUME InOrder(v) PROVE InOrder(s) /\ InOrder(t) /\ Fits(s, t)
    <2>1. InOrder(s)
      BY <1>2, <1>5 DEF InOrder
    <2>2. ASSUME NEW j \in DOMAIN t, NEW k \in DOMAIN t, j < k
          PROVE  ~(t[j] = "own" /\ t[k] = "hello") /\ ~(t[j] = "goodbye" /\ t[k] = "own")
      <3>1. n + j \in DOMAIN v /\ n + k \in DOMAIN v /\ v[n + j] = t[j] /\ v[n + k] = t[k]
        BY <1>3
      <3>2. n + j < n + k
        BY <1>1, <2>2
      <3>. QED  BY <1>5, <3>1, <3>2 DEF InOrder
    <2>3. ASSUME NEW j \in DOMAIN s, NEW k \in DOMAIN t
          PROVE  ~(s[j] = "own" /\ t[k] = "hello") /\ ~(s[j] = "goodbye" /\ t[k] = "own")
      <3>1. j \in DOMAIN v /\ n + k \in DOMAIN v /\ v[j] = s[j] /\ v[n + k] = t[k]
        BY <1>2, <1>3
      <3>2. j < n + k
        BY <1>1
      <3>. QED  BY <1>5, <3>1, <3>2 DEF InOrder
    <2>. QED  BY <2>1, <2>2, <2>3 DEF InOrder, Fits, Range
  <1>6. ASSUME InOrder(s), InOrder(t), Fits(s, t),
               NEW j \in DOMAIN v, NEW k \in DOMAIN v, j < k
        PROVE  ~(v[j] = "own" /\ v[k] = "hello") /\ ~(v[j] = "goodbye" /\ v[k] = "own")
    <2>1. CASE k \in DOMAIN s
      <3>1. j \in DOMAIN s
        BY <1>1, <1>4, <1>6, <2>1
      <3>. QED  BY <1>2, <1>6, <2>1, <3>1 DEF InOrder
    <2>2. CASE k \notin DOMAIN s
      <3>1. k > n /\ k - n \in DOMAIN t /\ v[k] = t[k - n]
        BY <1>4, <2>2
      <3>2. CASE j \in DOMAIN s
        <4>1. v[j] \in Range(s) /\ v[k] \in Range(t)
          BY <1>2, <3>1, <3>2 DEF Range
        <4>. QED  BY <1>6, <4>1 DEF Fits
      <3>3. CASE j \notin DOMAIN s
        <4>1. j > n /\ j - n \in DOMAIN t /\ v[j] = t[j - n]
          BY <1>4, <3>3
        <4>2. j - n < k - n
          BY <1>1, <1>6, <3>1, <4>1
        <4>. QED  BY <1>6, <3>1, <4>1, <4>2 DEF InOrder
      <3>. QED  BY <3>2, <3>3
    <2>. QED  BY <2>1, <2>2
  <1>7. InOrder(s) /\ InOrder(t) /\ Fits(s, t) => InOrder(v)
    BY <1>6 DEF InOrder
  <1>. QED  BY <1>5, <1>7 DEF v

\* A list of kinds in order, with so many hellos, goodbyes and logs.
Parted(v, h, g, l) ==
  /\ v \in Seq(KindNames) /\ InOrder(v)
  /\ Count(v, {"hello"}) = h /\ Count(v, {"goodbye"}) = g /\ Count(v, {"log"}) = l

\* What is counted no time is not there.
LEMMA NoneCounted ==
  ASSUME NEW S, NEW s \in Seq(S), NEW x
  PROVE  Count(s, {x}) = 0 <=> x \notin Range(s)
  <1>1. ASSUME x \notin Range(s) PROVE Count(s, {x}) = 0
    BY <1>1, CountNone
  <1>2. ASSUME x \in Range(s) PROVE Count(s, {x}) # 0
    <2>1. PlacesIn(s, {x}) # {} /\ IsFiniteSet(PlacesIn(s, {x}))
      BY <1>2, PlacesFinite DEF PlacesIn, Range
    <2>. QED  BY <2>1, FS_EmptySet DEF Count
  <1>. QED  BY <1>1, <1>2

\* Two such lists together.
LEMMA PartsTogether ==
  ASSUME NEW s, NEW h, NEW g, NEW l, Parted(s, h, g, l),
         NEW t, NEW i, NEW j, NEW k, Parted(t, i, j, k),
         i = 0 \/ "own" \notin Range(s), g = 0 \/ "own" \notin Range(t)
  PROVE  Parted(s \o t, h + i, g + j, l + k)
  <1>1. s \in Seq(KindNames) /\ t \in Seq(KindNames)
    BY DEF Parted
  <1>2. Fits(s, t)
    BY <1>1, NoneCounted DEF Parted, Fits
  <1>3. InOrder(s \o t)
    BY <1>1, <1>2, OrderTogether DEF Parted
  <1>4. s \o t \in Seq(KindNames)
    BY <1>1, ConcatProperties
  <1>5. \A P : Count(s \o t, P) = Count(s, P) + Count(t, P)
    BY <1>1, CountConcat
  <1>. QED  BY <1>3, <1>4, <1>5 DEF Parted

\* Such a list that has lost something of the program's.
LEMMA PartsWithout ==
  ASSUME NEW p \in Seq(KindNames), NEW q \in Seq(KindNames), NEW h, NEW g, NEW l,
         Parted((p \o <<"own">>) \o q, h, g, l)
  PROVE  Parted(p \o q, h, g, l)
  <1>. DEFINE one == <<"own">>
              po == p \o one
  <1>1. one \in Seq(KindNames) /\ Range(one) = {"own"} /\ \A P : Count(one, P) = IF "own" \in P THEN 1 ELSE 0
    <2>1. "own" \in KindNames
      BY DEF KindNames
    <2>. QED  BY <2>1, CountOfOne DEF Range
  <1>. HIDE DEF one
  <1>2. po \in Seq(KindNames) /\ \A x : x \in Range(po) <=> x \in Range(p) \/ x \in Range(one)
    BY <1>1, ConcatProperties, RangeRunTogether
  <1>3. \A P : Count(po, P) = Count(p, P) + Count(one, P)
    BY <1>1, CountConcat
  <1>4. InOrder(po) => InOrder(p)
    BY <1>1, OrderTogether
  <1>. HIDE DEF po
  <1>5. Parted(po \o q, h, g, l)
    BY DEF po, one
  <1>6. InOrder(po) /\ InOrder(q) /\ Fits(po, q)
    BY <1>2, <1>5, OrderTogether DEF Parted
  <1>7. InOrder(p \o q)
    <2>1. Fits(p, q)
      BY <1>2, <1>6 DEF Fits
    <2>. QED  BY <1>4, <1>6, <2>1, OrderTogether
  <1>8. \A P : Count(po \o q, P) = Count(po, P) + Count(q, P) /\ Count(p \o q, P) = Count(p, P) + Count(q, P)
    BY <1>2, CountConcat
  <1>9. ASSUME NEW x, x # "own" PROVE Count(p \o q, {x}) = Count(po \o q, {x})
    <2>1. Count(one, {x}) = 0
      BY <1>1, <1>9
    <2>2. Count(p, {x}) \in Nat /\ Count(q, {x}) \in Nat
      BY PlacesFinite
    <2>. QED  BY <1>3, <1>8, <2>1, <2>2
  <1>10. p \o q \in Seq(KindNames)
    BY ConcatProperties
  <1>. QED  BY <1>5, <1>7, <1>9, <1>10 DEF Parted

\* What an instruction is for logging; what neither logs nor is the program's
\* does not matter, nor does the return itself.
Kind(i) ==
  IF i.by = "user" THEN (IF i.op # "ret" THEN <<"own">> ELSE <<>>)
  ELSE IF IsHello(i) THEN <<"hello">>
  ELSE IF IsGoodbye(i) THEN <<"goodbye">>
  ELSE IF IsLogged(i) THEN <<"log">>
  ELSE <<>>

KindMap(S) == [i \in S |-> Kind(i)]

\* The shape of a list of instructions.
Shape(is) == FlattenSeq([k \in DOMAIN is |-> Kind(is[k])])

\* The kind of an instruction is the name of one, or none.
LEMMA KindType ==
  ASSUME NEW i
  PROVE  Kind(i) \in {<<>>, <<"hello">>, <<"own">>, <<"goodbye">>, <<"log">>} /\ Kind(i) \in Seq(KindNames)
  <1>1. /\ <<>> \in Seq(KindNames) /\ <<"hello">> \in Seq(KindNames) /\ <<"own">> \in Seq(KindNames)
        /\ <<"goodbye">> \in Seq(KindNames) /\ <<"log">> \in Seq(KindNames)
    BY DEF KindNames
  <1>2. Kind(i) = <<>> \/ Kind(i) = <<"hello">> \/ Kind(i) = <<"own">> \/ Kind(i) = <<"goodbye">> \/ Kind(i) = <<"log">>
    BY Zenon DEF Kind
  <1>. QED  BY <1>1, <1>2, Zenon

\* So are the kinds of a set of instructions.
LEMMA KindMapType ==
  ASSUME NEW S
  PROVE  KindMap(S) \in [S -> Seq(KindNames)] /\ \A i \in S : KindMap(S)[i] = Kind(i)
  BY KindType DEF KindMap

\* A shape is a flat map.
LEMMA ShapeIs ==
  ASSUME NEW S, NEW is \in Seq(S)
  PROVE  Shape(is) = FlatMap(KindMap(S), is) /\ Shape(is) \in Seq(KindNames)
  <1>1. \A k \in DOMAIN is : KindMap(S)[is[k]] = Kind(is[k])
    <2>1. \A k \in DOMAIN is : is[k] \in S
      OBVIOUS
    <2>. QED  BY <2>1, KindMapType
  <1>2. [k \in DOMAIN is |-> Kind(is[k])] = [k \in DOMAIN is |-> KindMap(S)[is[k]]]
    BY <1>1, Zenon
  <1>3. Shape(is) = FlatMap(KindMap(S), is)
    BY <1>2, Zenon DEF Shape, FlatMap
  <1>. QED  BY <1>3, KindMapType, FlatMapType

ShapeOfBoth(a, b) == Shape(a \o b) = Shape(a) \o Shape(b)

\* The shape of two lists together is that of each, in order.
LEMMA ShapeConcat ==
  ASSUME NEW S, NEW a \in Seq(S), NEW b \in Seq(S)
  PROVE  ShapeOfBoth(a, b)
  <1>1. Distributes(KindMap(S), a, b)
    BY KindMapType, FlatMapConcat
  <1>2. a \o b \in Seq(S)
    OBVIOUS
  <1>3. /\ Shape(a \o b) = FlatMap(KindMap(S), a \o b)
        /\ Shape(a) = FlatMap(KindMap(S), a) /\ Shape(b) = FlatMap(KindMap(S), b)
    BY <1>2, ShapeIs
  <1>. QED  BY <1>1, <1>3, Zenon DEF Distributes, ShapeOfBoth

\* The shape of one instruction is its kind.
LEMMA ShapeOne ==
  ASSUME NEW x
  PROVE  Shape(<<x>>) = Kind(x)
  <1>1. <<x>> \in Seq({x}) /\ x \in {x}
    OBVIOUS
  <1>2. FlatMap(KindMap({x}), <<x>>) = KindMap({x})[x]
    BY <1>1, KindMapType, FlatMapOne
  <1>. QED  BY <1>1, <1>2, KindMapType, ShapeIs, Zenon

\* A kind is in a shape if an instruction of the list has it.
LEMMA InShape ==
  ASSUME NEW S, NEW is \in Seq(S), NEW q
  PROVE  q \in Range(Shape(is)) <=> \E i \in Range(is) : Kind(i) = <<q>>
  <1>1. \A y : y \in Range(FlatMap(KindMap(S), is)) <=> \E x \in Range(is) : y \in Range(KindMap(S)[x])
    BY KindMapType, FlatMapRange
  <1>2. ASSUME NEW i \in Range(is) PROVE q \in Range(KindMap(S)[i]) <=> Kind(i) = <<q>>
    <2>1. KindMap(S)[i] = Kind(i)
      BY KindMapType DEF Range
    <2>2. Range(<<>>) = {} /\ \A x : Range(<<x>>) = {x}
      BY DEF Range
    <2>3. \A x, y : <<x>> = <<y>> <=> x = y
      OBVIOUS
    <2>4. \A x : <<x>> # <<>>
      OBVIOUS
    <2>5. Kind(i) = <<>> \/ \E x : Kind(i) = <<x>>
      BY KindType
    <2>. QED  BY <2>1, <2>2, <2>3, <2>4, <2>5
  <1>. QED  BY <1>1, <1>2, ShapeIs

\* The same of counts in a flat map, with names for what is asked and given.
Selects(S, M, P, Q) == \A x \in S : Count(M[x], Q) = IF x \in P THEN 1 ELSE 0
CountsAlike(S, M, P, Q) == \A s \in Seq(S) : Count(FlatMap(M, s), Q) = Count(s, P)

\* Lists of which each holds one of Q if it stands for one of P.
LEMMA CountsOfMap ==
  ASSUME NEW S, NEW T, NEW M \in [S -> Seq(T)], NEW P, NEW Q, Selects(S, M, P, Q)
  PROVE  CountsAlike(S, M, P, Q)
  <1>1. \A x \in S : Count(M[x], Q) = IF x \in P THEN 1 ELSE 0
    BY DEF Selects
  <1>2. \A s \in Seq(S) : Count(FlatMap(M, s), Q) = Count(s, P)
    BY <1>1, CountFlatMap
  <1>. QED  BY <1>2 DEF CountsAlike

\* As many of a kind as there are instructions that have it.
LEMMA ShapeCounts ==
  ASSUME NEW S, NEW q
  PROVE  \A s \in Seq(S) : Count(Shape(s), {q}) = Count(s, {i \in S : Kind(i) = <<q>>})
  <1>. DEFINE P == {i \in S : Kind(i) = <<q>>}
              M == KindMap(S)
  <1>1. ASSUME NEW i \in S PROVE Count(M[i], {q}) = IF i \in P THEN 1 ELSE 0
    <2>1. M[i] = Kind(i)
      BY KindMapType
    <2>2. CASE Kind(i) = <<>>
      <3>1. i \notin P
        BY <2>2
      <3>. QED  BY <2>1, <2>2, <3>1, CountEmpty
    <2>3. ASSUME NEW x, Kind(i) = <<x>> PROVE Count(M[i], {q}) = IF i \in P THEN 1 ELSE 0
      <3>1. Count(<<x>>, {q}) = IF x \in {q} THEN 1 ELSE 0
        <4>1. x \in {x}
          OBVIOUS
        <4>. QED  BY <4>1, CountOfOne
      <3>2. i \in P <=> x = q
        BY <2>3
      <3>. QED  BY <2>1, <2>3, <3>1, <3>2
    <2>4. Kind(i) = <<>> \/ \E x : Kind(i) = <<x>>
      BY KindType
    <2>. QED  BY <2>2, <2>3, <2>4
  <1>. HIDE DEF P, M
  <1>2. M \in [S -> Seq(KindNames)]
    BY KindMapType DEF M
  <1>3. \A s \in Seq(S) : Count(FlatMap(M, s), {q}) = Count(s, P)
    <2>1. PICK T, Q : T = KindNames /\ Q = {q}
      OBVIOUS
    <2>2. M \in [S -> Seq(T)] /\ Selects(S, M, P, Q)
      BY <1>1, <1>2, <2>1 DEF Selects
    <2>3. CountsAlike(S, M, P, Q)
      BY <2>2, CountsOfMap, Zenon
    <2>. QED  BY <2>1, <2>3 DEF CountsAlike
  <1>4. \A s \in Seq(S) : Shape(s) = FlatMap(M, s)
    BY ShapeIs DEF M
  <1>. QED  BY <1>3, <1>4 DEF P

\* How logging has changed a body: h hellos at its entry, g goodbyes and l
\* logs in front of each return, and the program's in between.
IsShaped(body, h, g, l) ==
  \A b \in DOMAIN body :
    LET returns == Last(body[b]).op = "ret"
    IN  Parted(Shape(body[b]), IF b = 1 THEN h ELSE 0, IF returns THEN g ELSE 0, IF returns THEN l ELSE 0)

\* What is added at the entry: some hellos, or nothing that matters.
LEMMA ShapedAtEntry ==
  ASSUME NEW S, NEW body \in BodiesOver(S), body # <<>>, NEW is \in Seq(S),
         NEW n \in Nat, Parted(Shape(is), n, 0, 0), "own" \notin Range(Shape(is)),
         NEW h \in Nat, NEW g \in Nat, NEW l \in Nat, IsShaped(body, h, g, l)
  PROVE  IsShaped(AtEntry(body, is), n + h, g, l)
  <1>. DEFINE new == AtEntry(body, is)
  <1>1. /\ DOMAIN new = DOMAIN body
        /\ new[1] = is \o body[1]
        /\ \A b \in DOMAIN body \ {1} : new[b] = body[b]
        /\ \A b \in DOMAIN body : Last(new[b]) = Last(body[b])
    BY AtEntryOver
  <1>2. \A b \in DOMAIN body : body[b] \in Seq(S)
    BY BodyFacts, BlockFacts
  <1>. HIDE DEF new
  <1>3. ASSUME NEW b \in DOMAIN body, NEW i, NEW j, NEW k, j \in Nat, k \in Nat,
               Parted(Shape(body[b]), i, j, k), b = 1, i = h
        PROVE  Parted(Shape(new[b]), n + h, j, k)
    <2>1. ShapeOfBoth(is, body[1])
      BY <1>2, <1>3, ShapeConcat
    <2>2. Shape(new[b]) = Shape(is) \o Shape(body[b])
      BY <1>1, <1>3, <2>1, Zenon DEF ShapeOfBoth
    <2>3. Parted(Shape(is) \o Shape(body[b]), n + h, 0 + j, 0 + k)
      BY <1>3, PartsTogether
    <2>4. 0 + j = j /\ 0 + k = k
      BY <1>3
    <2>. QED  BY <2>2, <2>3, <2>4
  <1>4. ASSUME NEW b \in DOMAIN new
        PROVE  LET returns == Last(new[b]).op = "ret"
               IN  Parted(Shape(new[b]), IF b = 1 THEN n + h ELSE 0, IF returns THEN g ELSE 0,
                          IF returns THEN l ELSE 0)
    <2>1. b \in DOMAIN body /\ Last(new[b]) = Last(body[b])
      BY <1>1, <1>4
    <2>2. PICK i, j, k : /\ i = IF b = 1 THEN h ELSE 0
                         /\ j = IF Last(body[b]).op = "ret" THEN g ELSE 0
                         /\ k = IF Last(body[b]).op = "ret" THEN l ELSE 0
      OBVIOUS
    <2>3. Parted(Shape(body[b]), i, j, k) /\ j \in Nat /\ k \in Nat
      BY <2>1, <2>2 DEF IsShaped
    <2>4. CASE b = 1
      <3>1. Parted(Shape(new[b]), n + h, j, k)
        BY <1>3, <2>1, <2>2, <2>3, <2>4
      <3>. QED  BY <2>1, <2>2, <2>4, <3>1
    <2>5. CASE b # 1
      <3>1. new[b] = body[b]
        BY <1>1, <2>1, <2>5
      <3>. QED  BY <2>1, <2>2, <2>3, <2>5, <3>1
    <2>. QED  BY <2>4, <2>5
  <1>. QED  BY <1>4 DEF IsShaped, new

\* A return does not matter to logging.
ReturnsAreReturns(S) == \A i \in S : i.op = "ret" => Kind(i) = <<>>

\* What is added in front of returns: goodbyes and logs.
LEMMA ShapedBeforeReturns ==
  ASSUME NEW S, ReturnsAreReturns(S), NEW body \in BodiesOver(S), NEW is \in Seq(S),
         NEW m \in Nat, NEW n \in Nat, Parted(Shape(is), 0, m, n), "own" \notin Range(Shape(is)),
         NEW h \in Nat, NEW g \in Nat, NEW l \in Nat, IsShaped(body, h, g, l)
  PROVE  IsShaped(BeforeReturns(body, is), h, g + m, l + n)
  <1>. DEFINE new == BeforeReturns(body, is)
  <1>1. DOMAIN new = DOMAIN body /\ \A b \in DOMAIN body : Last(new[b]) = Last(body[b])
    BY BeforeReturnsOver
  <1>2. ASSUME NEW b \in DOMAIN body
        PROVE  \E p \in Seq(S) : \E x \in S :
                 /\ EndsWith(body[b], p, x) /\ x = Last(body[b])
                 /\ ReturnsAfter(new[b], p, is, x)
    BY BlockBeforeReturn
  <1>. HIDE DEF new
  <1>3. ASSUME NEW b \in DOMAIN new
        PROVE  LET returns == Last(new[b]).op = "ret"
               IN  Parted(Shape(new[b]), IF b = 1 THEN h ELSE 0, IF returns THEN g + m ELSE 0,
                          IF returns THEN l + n ELSE 0)
    <2>1. b \in DOMAIN body /\ Last(new[b]) = Last(body[b])
      BY <1>1, <1>3
    <2>2. PICK i : i = IF b = 1 THEN h ELSE 0
      OBVIOUS
    <2>3. i \in Nat
      BY <2>2
    <2>4. PICK p \in Seq(S) : \E x \in S :
             /\ EndsWith(body[b], p, x) /\ x = Last(body[b])
             /\ ReturnsAfter(new[b], p, is, x)
      BY <1>2, <2>1
    <2>5. PICK x \in S : /\ EndsWith(body[b], p, x) /\ x = Last(body[b])
                         /\ ReturnsAfter(new[b], p, is, x)
      BY <2>4
    <2>6. CASE x.op = "ret"
      <3>1. Parted(Shape(body[b]), i, g, l)
        BY <2>1, <2>2, <2>5, <2>6 DEF IsShaped
      <3>2. body[b] = p \o <<x>> /\ new[b] = (p \o is) \o <<x>>
        BY <2>5, <2>6, Zenon DEF EndsWith, ReturnsAfter
      <3>3. /\ <<x>> \in Seq(S) /\ p \o is \in Seq(S)
        OBVIOUS
      <3>4. Shape(<<x>>) = <<>>
        BY <2>6, ShapeOne DEF ReturnsAreReturns
      <3>5. ShapeOfBoth(p, <<x>>) /\ ShapeOfBoth(p \o is, <<x>>) /\ ShapeOfBoth(p, is)
        BY <3>3, ShapeConcat
      <3>6. Shape(p) \in Seq(KindNames) /\ Shape(is) \in Seq(KindNames)
        BY ShapeIs
      <3>7. \A s \in Seq(KindNames) : s \o <<>> = s
        OBVIOUS
      <3>8. Shape(body[b]) = Shape(p)
        BY <3>2, <3>4, <3>5, <3>6, <3>7, Zenon DEF ShapeOfBoth
      <3>9. Shape(p) \o Shape(is) \in Seq(KindNames)
        BY <3>6, ConcatProperties
      <3>10. Shape(new[b]) = Shape(p) \o Shape(is)
        BY <3>2, <3>4, <3>5, <3>7, <3>9, Zenon DEF ShapeOfBoth
      <3>11. Parted(Shape(p), i, g, l)
        BY <3>1, <3>8
      <3>12. Parted(Shape(p) \o Shape(is), i + 0, g + m, l + n)
        BY <3>11, PartsTogether
      <3>13. i + 0 = i
        BY <2>3
      <3>14. Parted(Shape(new[b]), i, g + m, l + n)
        BY <3>10, <3>12, <3>13
      <3>. QED  BY <2>1, <2>2, <2>5, <2>6, <3>14
    <2>7. CASE x.op # "ret"
      <3>1. Parted(Shape(body[b]), i, 0, 0)
        BY <2>1, <2>2, <2>5, <2>7 DEF IsShaped
      <3>2. new[b] = body[b]
        BY <2>5, <2>7, Zenon DEF EndsWith, ReturnsAfter
      <3>. QED  BY <2>1, <2>2, <2>5, <2>7, <3>1, <3>2
    <2>. QED  BY <2>6, <2>7
  <1>. QED  BY <1>3 DEF IsShaped, new

\* A body whose blocks have the shapes of another's, and end as those do.
LEMMA ShapedAlike ==
  ASSUME NEW body, NEW new, DOMAIN new = DOMAIN body,
         \A b \in DOMAIN body : Shape(new[b]) = Shape(body[b]) /\ Last(new[b]).op = Last(body[b]).op,
         NEW h, NEW g, NEW l, IsShaped(body, h, g, l)
  PROVE  IsShaped(new, h, g, l)
  BY DEF IsShaped

\* A body that has lost an instruction of the program, no terminator.
LEMMA ShapedErased ==
  ASSUME NEW body, FormedBody(body), NEW b \in DOMAIN body, NEW k \in DOMAIN body[b],
         body[b][k].op \notin Terminators, body[b][k].by = "user",
         NEW h, NEW g, NEW l, IsShaped(body, h, g, l)
  PROVE  IsShaped([body EXCEPT ![b] = RemoveAt(@, k)], h, g, l)
  <1>. DEFINE S == InstructionSet(body)
  <1>1. body \in BodiesOver(S) /\ Ended(body)
    BY FormedElim
  <1>. HIDE DEF S
  <1>2. PICK block \in BlocksOver(S) : block = body[b]
    BY <1>1, BodyFacts
  <1>3. PICK less : less = RemoveAt(block, k)
    OBVIOUS
  <1>. DEFINE new == [body EXCEPT ![b] = less]
  <1>4. DOMAIN new = DOMAIN body /\ new[b] = less /\ \A c \in DOMAIN body \ {b} : new[c] = body[c]
    OBVIOUS
  <1>5. block \in Seq(S) /\ Len(block) \in Nat \ {0} /\ k \in 1 .. Len(block)
    BY <1>2, BlockFacts
  <1>6. Last(less) = Last(block)
    <2>1. block[Len(block)].op \in Terminators
      BY <1>1, <1>2 DEF Ended, Last
    <2>2. k \in 1 .. Len(block) - 1
      BY <1>2, <1>5, <2>1
    <2>. QED  BY <1>3, <2>2, RemovedOver
  <1>7. ASSUME NEW i, NEW j, NEW n, Parted(Shape(block), i, j, n)
        PROVE  Parted(Shape(less), i, j, n)
    <2>1. PICK p \in Seq(S) : \E q \in Seq(S) : CutIn(block, k, p, q)
      BY <1>5, CutAt
    <2>2. PICK q \in Seq(S) : CutIn(block, k, p, q)
      BY <2>1
    <2>3. PICK x \in S : x = block[k]
      BY <1>5
    <2>4. block = Append(p, x) \o q /\ less = p \o q
      BY <1>3, <2>2, <2>3, Zenon DEF CutIn
    <2>5. /\ <<x>> \in Seq(S) /\ Append(p, x) = p \o <<x>> /\ Append(p, x) \in Seq(S)
      BY AppendProperties, ConcatProperties
    <2>6. ShapeOfBoth(p, <<x>>) /\ ShapeOfBoth(Append(p, x), q) /\ ShapeOfBoth(p, q)
      BY <2>5, ShapeConcat
    <2>7. Shape(<<x>>) = <<"own">>
      <3>1. x.by = "user" /\ x.op # "ret"
        BY <1>2, <2>3 DEF Terminators
      <3>. QED  BY <3>1, ShapeOne, Zenon DEF Kind
    <2>8. Shape(block) = (Shape(p) \o <<"own">>) \o Shape(q) /\ Shape(less) = Shape(p) \o Shape(q)
      BY <2>4, <2>5, <2>6, <2>7, Zenon DEF ShapeOfBoth
    <2>9. Shape(p) \in Seq(KindNames) /\ Shape(q) \in Seq(KindNames)
      BY ShapeIs
    <2>10. Parted((Shape(p) \o <<"own">>) \o Shape(q), i, j, n)
      BY <1>7, <2>8
    <2>. QED  BY <2>8, <2>9, <2>10, PartsWithout
  <1>8. [body EXCEPT ![b] = RemoveAt(@, k)] = new
    BY <1>2, <1>3, Zenon
  <1>. HIDE DEF new
  <1>9. IsShaped(new, h, g, l)
    <2>1. ASSUME NEW c \in DOMAIN new
          PROVE  LET returns == Last(new[c]).op = "ret"
                 IN  Parted(Shape(new[c]), IF c = 1 THEN h ELSE 0, IF returns THEN g ELSE 0,
                            IF returns THEN l ELSE 0)
      <3>1. PICK i, j, n : /\ i = IF c = 1 THEN h ELSE 0
                           /\ j = IF Last(body[c]).op = "ret" THEN g ELSE 0
                           /\ n = IF Last(body[c]).op = "ret" THEN l ELSE 0
        OBVIOUS
      <3>2. Parted(Shape(body[c]), i, j, n)
        BY <1>4, <2>1, <3>1 DEF IsShaped
      <3>3. Parted(Shape(new[c]), i, j, n) /\ Last(new[c]) = Last(body[c])
        <4>1. CASE c = b
          BY <1>2, <1>4, <1>6, <1>7, <3>2, <4>1
        <4>2. CASE c # b
          BY <1>4, <2>1, <3>2, <4>2
        <4>. QED  BY <4>1, <4>2
      <3>. QED  BY <3>1, <3>3
    <2>. QED  BY <2>1 DEF IsShaped
  <1>. QED  BY <1>8, <1>9

\* A list in which no instruction matters.
LEMMA ShapeNone ==
  ASSUME NEW S, NEW is \in Seq(S), \A i \in Range(is) : Kind(i) = <<>>
  PROVE  Shape(is) = <<>>
  <1>1. Shape(is) \in Seq(KindNames)
    BY ShapeIs
  <1>2. \A q : <<q>> # <<>>
    OBVIOUS
  <1>3. \A q : q \notin Range(Shape(is))
    BY <1>2, InShape
  <1>4. PICK v \in Seq(KindNames) : v = Shape(is)
    BY <1>1
  <1>5. v = <<>>
    <2>1. 1 \notin DOMAIN v
      BY <1>3, <1>4 DEF Range
    <2>. QED  BY <2>1
  <1>. QED  BY <1>4, <1>5

\* Where an equality of the program is converted, one of the program's stays.
LEMMA ShapeConvertedOne ==
  ASSUME NEW i, Known(i), IsEquality(i)
  PROVE  Kind(i) = <<"own">> /\ Shape(Converted(i)) = <<"own">>
  <1>1. i.by = "user" /\ i.op = "fcmp" /\ IsInstr(i)
    BY DEF Known, IsEquality
  <1>2. PICK a, b, c, d, e :
           /\ Converted(i) = <<a, b, c, d, e>>
           /\ MadeFrom(i, a) /\ MadeFrom(i, b) /\ MadeFrom(i, c) /\ MadeFrom(i, d)
           /\ TheSameBut(i, e)
    BY <1>1, ConvertedIs
  <1>3. \A x : x.by = "user" /\ x.op = "fcmp" => Kind(x) = <<"own">>
    BY DEF Kind
  <1>. DEFINE made == <<a, b, c, d>>
              last == <<e>>
              U == {a, b, c, d, e}
  <1>4. made \in Seq(U) /\ last \in Seq(U) /\ <<a, b, c, d, e>> = made \o last
    OBVIOUS
  <1>5. Shape(made) = <<>>
    <2>1. Range(made) = {a, b, c, d}
      BY DEF Range
    <2>2. \A x \in Range(made) : x.by = "convert-fcmp-eq"
      BY <1>2, <2>1 DEF MadeFrom
    <2>3. \A x \in Range(made) : Kind(x) = <<>>
      BY <2>2 DEF Kind, IsHello, IsGoodbye, IsLogged
    <2>. HIDE DEF made, U
    <2>. QED  BY <1>4, <2>3, ShapeNone
  <1>6. Shape(last) = <<"own">>
    <2>1. e.by = "user" /\ e.op = "fcmp"
      BY <1>1, <1>2 DEF TheSameBut
    <2>. QED  BY <1>3, <2>1, ShapeOne
  <1>. HIDE DEF made, last, U
  <1>7. Shape(made \o last) = Shape(made) \o Shape(last)
    <2>1. ShapeOfBoth(made, last)
      BY <1>4, ShapeConcat
    <2>. QED  BY <2>1, Zenon DEF ShapeOfBoth
  <1>8. <<>> \o <<"own">> = <<"own">>
    OBVIOUS
  <1>. QED  BY <1>1, <1>2, <1>3, <1>4, <1>5, <1>6, <1>7, <1>8, Zenon

\* convert-fcmp-eq leaves the shape of every block, and its end.
LEMMA ShapedConverted ==
  ASSUME NEW body, FormedBody(body), NEW h, NEW g, NEW l, IsShaped(body, h, g, l)
  PROVE  IsShaped(FoldLeft(ConvertFCmpEqInstruction, body, FindFCmpEq(body)), h, g, l)
  <1>. DEFINE S == InstructionSet(body)
              D == Range(FindFCmpEq(body))
              M == Conversion(S, D)
              T == WithConverted(S)
              new == FoldLeft(ConvertFCmpEqInstruction, body, FindFCmpEq(body))
  <1>1. /\ body \in BodiesOver(S) /\ Sound(S) /\ Ended(body)
        /\ new = MapBlocks(M, body) /\ DOMAIN new = DOMAIN body
    BY FormedElim, FormedConverted
  <1>2. ComparisonsKnown(S) /\ \A i \in S : Known(i)
    BY <1>1, SoundKnowsComparisons DEF Sound
  <1>. HIDE DEF S, D, T, new
  <1>3. M \in [S -> BlocksOver(T)]
    BY <1>2, ConversionType DEF T
  <1>4. M \in [S -> Seq(T)]
    BY <1>3 DEF BlocksOver
  <1>5. ASSUME NEW i \in S PROVE FlatMap(KindMap(T), M[i]) = KindMap(S)[i]
    <2>1. KindMap(S)[i] = Kind(i)
      BY KindMapType
    <2>2. Shape(M[i]) = FlatMap(KindMap(T), M[i])
      BY <1>4, ShapeIs
    <2>3. CASE IsEquality(i) /\ i.def \in D
      <3>1. M[i] = Converted(i)
        BY <2>3, Zenon DEF Conversion
      <3>2. Kind(i) = <<"own">> /\ Shape(Converted(i)) = <<"own">>
        BY <1>2, <2>3, ShapeConvertedOne
      <3>. QED  BY <2>1, <2>2, <3>1, <3>2, Zenon
    <2>4. CASE ~(IsEquality(i) /\ i.def \in D)
      <3>1. M[i] = <<i>>
        BY <2>4, Zenon DEF Conversion
      <3>2. Shape(<<i>>) = Kind(i)
        BY ShapeOne
      <3>. QED  BY <2>1, <2>2, <3>1, <3>2, Zenon
    <2>. QED  BY <2>3, <2>4
  <1>6. ASSUME NEW i \in S, i.op \in Terminators PROVE M[i] = <<i>>
    <2>1. ~IsEquality(i)
      BY <1>6 DEF Terminators, IsEquality
    <2>. QED  BY <2>1, Zenon DEF Conversion
  <1>. HIDE DEF M
  <1>7. Composed(S, M, KindMap(T), KindMap(S))
    <2>1. KindMap(T) \in [T -> Seq(KindNames)] /\ KindMap(S) \in [S -> Seq(KindNames)]
      BY KindMapType
    <2>2. PICK U, N, K : /\ U = KindNames /\ N = KindMap(T) /\ K = KindMap(S)
                         /\ N \in [T -> Seq(U)] /\ K \in [S -> Seq(U)]
      BY <2>1
    <2>3. \A x \in S : FlatMap(N, M[x]) = K[x]
      BY <1>5, <2>2
    <2>4. Composed(S, M, N, K)
      BY <1>4, <2>2, <2>3, FlatMapsCompose
    <2>. QED  BY <2>2, <2>4
  <1>8. ASSUME NEW b \in DOMAIN body
        PROVE  Shape(new[b]) = Shape(body[b]) /\ Last(new[b]).op = Last(body[b]).op
    <2>1. body[b] \in Seq(S) /\ Last(body[b]) \in S
      BY <1>1, BodyFacts, BlockFacts
    <2>2. /\ new[b] = FlatMap(M, body[b])
          /\ Last(new[b]) = Last(M[Last(body[b])])
      BY <1>1, <1>3, MapBlocksOver
    <2>3. Shape(new[b]) = FlatMap(KindMap(T), FlatMap(M, body[b]))
      <3>0. FlatMap(M, body[b]) \in Seq(T)
        BY <1>4, <2>1, FlatMapType
      <3>1. new[b] \in Seq(T)
        BY <2>2, <3>0
      <3>2. Shape(new[b]) = FlatMap(KindMap(T), new[b])
        BY <3>1, ShapeIs
      <3>. QED  BY <2>2, <3>2
    <2>4. Shape(body[b]) = FlatMap(KindMap(S), body[b])
      BY <2>1, ShapeIs
    <2>5. Shape(new[b]) = Shape(body[b])
      BY <1>7, <2>1, <2>3, <2>4, Zenon DEF Composed
    <2>6. Last(new[b]) = Last(body[b])
      <3>1. M[Last(body[b])] = <<Last(body[b])>>
        BY <1>1, <1>6, <2>1 DEF Ended
      <3>2. \A x : Last(<<x>>) = x
        BY DEF Last
      <3>. QED  BY <2>2, <3>1, <3>2
    <2>. QED  BY <2>5, <2>6
  <1>9. IsShaped(new, h, g, l)
    BY <1>1, <1>8, ShapedAlike
  <1>. QED  BY <1>9 DEF new

\* An instruction of f, whose blocks are numbered by D: no way leads back to
\* the entry, a return is where a way ends, and a greeting names f.
Placed(f, i, D) ==
  /\ 1 \notin i.to /\ i.to \subseteq D
  /\ i.op = "ret" => i.to = {} /\ Kind(i) = <<>>
  /\ IsHello(i) \/ IsGoodbye(i) => i.args[2] = Constant(f, "ptr")

AllPlaced(f, S, D) == \A i \in S : Placed(f, i, D)

\* A body of f as logging leaves it.
IsLoggedBody(f, body, h, g, l) ==
  AllPlaced(f, InstructionSet(body), DOMAIN body) /\ IsShaped(body, h, g, l)

\* The lists that passes add.
LEMMA OnePart ==
  ASSUME NEW q \in KindNames
  PROVE  Parted(<<q>>, IF q = "hello" THEN 1 ELSE 0, IF q = "goodbye" THEN 1 ELSE 0, IF q = "log" THEN 1 ELSE 0)
  <1>1. <<q>> \in Seq(KindNames)
    OBVIOUS
  <1>2. InOrder(<<q>>)
    BY DEF InOrder
  <1>3. \A x : Count(<<q>>, {x}) = IF q \in {x} THEN 1 ELSE 0
    BY CountOfOne
  <1>. QED  BY <1>1, <1>2, <1>3 DEF Parted

\* The empty list has no parts.
LEMMA NoParts == Parted(<<>>, 0, 0, 0)
  <1>1. <<>> \in Seq(KindNames) /\ InOrder(<<>>)
    BY DEF InOrder
  <1>. QED  BY <1>1, CountEmpty DEF Parted

\* What the passes add, to logging.
LEMMA AddedKinds ==
  ASSUME NEW f \in FunctionNames
  PROVE  /\ Kind(Hello(f)) = <<"hello">> /\ Kind(Goodbye(f)) = <<"goodbye">> /\ Kind(LogCall(f)) = <<"log">>
         /\ \A body : \A i \in Range(Increment(f, body)) : Kind(i) = <<>>
         /\ \A D : AllPlaced(f, {Hello(f), Goodbye(f), LogCall(f)}, D)
         /\ \A body, D : AllPlaced(f, Range(Increment(f, body)), D)
  <1>1. PICK i : i = Hello(f)
    OBVIOUS
  <1>2. PICK j : j = Goodbye(f)
    OBVIOUS
  <1>3. PICK k : k = LogCall(f)
    OBVIOUS
  <1>4. /\ i.by = "inject-func-call" /\ i.op = "call" /\ i.to = {}
        /\ i.args[1].name[2] = "PrintfFormatStr" /\ i.args[2] = Constant(f, "ptr")
    BY <1>1 DEF Hello, Call, Instr, Constant, Value
  <1>5. /\ j.by = "inject-func-call" /\ j.op = "call" /\ j.to = {}
        /\ j.args[1].name[2] = "HomeWorkFormatStr" /\ j.args[2] = Constant(f, "ptr")
    BY <1>2 DEF Goodbye, Call, Instr, Constant, Value
  <1>6. k.by = "log-return" /\ k.op = "call" /\ k.to = {}
    BY <1>3 DEF LogCall, Call, Instr
  <1>7. Kind(i) = <<"hello">> /\ \A D : Placed(f, i, D)
    BY <1>4 DEF Kind, IsHello, Placed
  <1>8. Kind(j) = <<"goodbye">> /\ \A D : Placed(f, j, D)
    BY <1>5 DEF Kind, IsHello, IsGoodbye, Placed
  <1>9. Kind(k) = <<"log">> /\ \A D : Placed(f, k, D)
    BY <1>6 DEF Kind, IsHello, IsGoodbye, IsLogged, Placed
  <1>10. ASSUME NEW body, NEW x \in Range(Increment(f, body))
         PROVE  Kind(x) = <<>> /\ \A D : Placed(f, x, D)
    <2>1. x.by = "dynamic-cc" /\ x.op \in {"load", "add", "store"} /\ x.to = {}
      BY <1>10 DEF Increment, CounterAccess, Plain, Instr, Range
    <2>. QED  BY <2>1 DEF Kind, IsHello, IsGoodbye, IsLogged, Placed
  <1>. QED  BY <1>1, <1>2, <1>3, <1>7, <1>8, <1>9, <1>10, Zenon DEF AllPlaced

\* A body of the same blocks, with instructions of another and some more.
LEMMA PlacedGrows ==
  ASSUME NEW f, NEW body, AllPlaced(f, InstructionSet(body), DOMAIN body),
         NEW X, \A D : AllPlaced(f, X, D),
         NEW new \in BodiesOver(InstructionSet(body) \cup X), DOMAIN new = DOMAIN body
  PROVE  AllPlaced(f, InstructionSet(new), DOMAIN new)
  <1>1. InstructionSet(new) \subseteq InstructionSet(body) \cup X
    BY OverIsBody
  <1>. QED  BY <1>1 DEF AllPlaced

\* The entry of f with what a pass has added to it.
LEMMA LoggedAtEntry ==
  ASSUME NEW f, NEW body, FormedBody(body), body # <<>>, NEW X, \A D : AllPlaced(f, X, D), NEW is \in Seq(X),
         NEW n \in Nat, Parted(Shape(is), n, 0, 0), "own" \notin Range(Shape(is)),
         NEW h \in Nat, NEW g \in Nat, NEW l \in Nat, IsLoggedBody(f, body, h, g, l)
  PROVE  IsLoggedBody(f, AtEntry(body, is), n + h, g, l)
  <1>. DEFINE S == InstructionSet(body) \cup X
              new == AtEntry(body, is)
  <1>1. body \in BodiesOver(S) /\ is \in Seq(S)
    <2>1. body \in BodiesOver(InstructionSet(body))
      BY FormedElim
    <2>. QED  BY <2>1, BodiesGrow, BlocksGrow
  <1>2. new \in BodiesOver(S) /\ DOMAIN new = DOMAIN body
    <2>. HIDE DEF S
    <2>. QED  BY <1>1, AtEntryOver
  <1>3. AllPlaced(f, InstructionSet(new), DOMAIN new)
    <2>. HIDE DEF new
    <2>. QED  BY <1>2, PlacedGrows DEF IsLoggedBody
  <1>. HIDE DEF S
  <1>4. IsShaped(new, n + h, g, l)
    BY <1>1, ShapedAtEntry DEF IsLoggedBody
  <1>. QED  BY <1>3, <1>4 DEF IsLoggedBody

\* The returns of f with what a pass has added in front of them.
LEMMA LoggedBeforeReturns ==
  ASSUME NEW f, NEW body, FormedBody(body), NEW X, \A D : AllPlaced(f, X, D), NEW is \in Seq(X),
         NEW m \in Nat, NEW n \in Nat, Parted(Shape(is), 0, m, n), "own" \notin Range(Shape(is)),
         NEW h \in Nat, NEW g \in Nat, NEW l \in Nat, IsLoggedBody(f, body, h, g, l)
  PROVE  IsLoggedBody(f, BeforeReturns(body, is), h, g + m, l + n)
  <1>. DEFINE S == InstructionSet(body) \cup X
              new == BeforeReturns(body, is)
  <1>1. body \in BodiesOver(S) /\ is \in Seq(S)
    <2>1. body \in BodiesOver(InstructionSet(body))
      BY FormedElim
    <2>. QED  BY <2>1, BodiesGrow, BlocksGrow
  <1>2. ReturnsAreReturns(S)
    BY DEF IsLoggedBody, AllPlaced, Placed, ReturnsAreReturns
  <1>3. new \in BodiesOver(S) /\ DOMAIN new = DOMAIN body
    <2>. HIDE DEF S
    <2>. QED  BY <1>1, BeforeReturnsOver
  <1>4. AllPlaced(f, InstructionSet(new), DOMAIN new)
    <2>. HIDE DEF new
    <2>. QED  BY <1>3, PlacedGrows DEF IsLoggedBody
  <1>. HIDE DEF S
  <1>5. IsShaped(new, h, g + m, l + n)
    BY <1>1, <1>2, ShapedBeforeReturns DEF IsLoggedBody
  <1>. QED  BY <1>4, <1>5 DEF IsLoggedBody

\* f with its comparisons converted.
LEMMA LoggedConverted ==
  ASSUME NEW f, NEW body, FormedBody(body), NEW h, NEW g, NEW l, IsLoggedBody(f, body, h, g, l)
  PROVE  IsLoggedBody(f, FoldLeft(ConvertFCmpEqInstruction, body, FindFCmpEq(body)), h, g, l)
  <1>. DEFINE S == InstructionSet(body)
              D == Range(FindFCmpEq(body))
              M == Conversion(S, D)
              new == FoldLeft(ConvertFCmpEqInstruction, body, FindFCmpEq(body))
  <1>1. /\ body \in BodiesOver(S) /\ Sound(S)
        /\ new = MapBlocks(M, body) /\ DOMAIN new = DOMAIN body
    BY FormedElim, FormedConverted
  <1>2. ComparisonsKnown(S) /\ \A i \in S : Known(i)
    BY <1>1, SoundKnowsComparisons DEF Sound
  <1>3. AllPlaced(f, S, DOMAIN body) /\ IsShaped(body, h, g, l)
    BY DEF IsLoggedBody
  <1>4. IsShaped(new, h, g, l)
    BY <1>3, ShapedConverted
  <1>. HIDE DEF S, D, new
  <1>5. M \in [S -> BlocksOver(WithConverted(S))]
    BY <1>2, ConversionType
  <1>6. ASSUME NEW i \in S, NEW j \in Range(M[i]) PROVE Placed(f, j, DOMAIN body)
    <2>1. CASE IsEquality(i) /\ i.def \in D
      <3>1. M[i] = Converted(i)
        BY <2>1, Zenon DEF Conversion
      <3>2. MadeFrom(i, j) \/ TheSameBut(i, j)
        BY <1>2, <1>6, <3>1, ConvertedBlock DEF ComparisonsKnown
      <3>3. i.by = "user" /\ i.op = "fcmp" /\ Placed(f, i, DOMAIN body)
        BY <1>2, <1>3, <2>1 DEF Known, IsEquality, AllPlaced
      <3>4. CASE MadeFrom(i, j)
        BY <3>4 DEF MadeFrom, Placed, IsHello, IsGoodbye
      <3>5. CASE TheSameBut(i, j)
        <4>1. j.by = "user" /\ j.op = "fcmp" /\ j.to = i.to
          BY <3>3, <3>5 DEF TheSameBut
        <4>. QED  BY <3>3, <4>1 DEF Placed, IsHello, IsGoodbye
      <3>. QED  BY <3>2, <3>4, <3>5
    <2>2. CASE ~(IsEquality(i) /\ i.def \in D)
      <3>1. M[i] = <<i>>
        BY <2>2, Zenon DEF Conversion
      <3>2. j = i
        BY <1>6, <3>1 DEF Range
      <3>. QED  BY <1>3, <3>2 DEF AllPlaced
    <2>. QED  BY <2>1, <2>2
  <1>. HIDE DEF M
  <1>7. \A y : y \in InstructionSet(MapBlocks(M, body)) => \E x \in InstructionSet(body) : y \in Range(M[x])
    BY <1>1, <1>5, MapBlocksOver
  <1>8. AllPlaced(f, InstructionSet(new), DOMAIN new)
    BY <1>1, <1>6, <1>7 DEF S, AllPlaced
  <1>9. IsLoggedBody(f, new, h, g, l)
    BY <1>4, <1>8 DEF IsLoggedBody
  <1>. QED  BY <1>9 DEF new

\* f with an instruction erased.
LEMMA LoggedErased ==
  ASSUME NEW f, NEW body, FormedBody(body), NEW b \in DOMAIN body, NEW k \in DOMAIN body[b],
         body[b][k].op \notin Terminators, body[b][k].by = "user",
         NEW h, NEW g, NEW l, IsLoggedBody(f, body, h, g, l)
  PROVE  IsLoggedBody(f, [body EXCEPT ![b] = RemoveAt(@, k)], h, g, l)
  <1>. DEFINE S == InstructionSet(body)
  <1>1. body \in BodiesOver(S) /\ Ended(body)
    BY FormedElim
  <1>2. IsShaped(body, h, g, l) /\ AllPlaced(f, S, DOMAIN body)
    BY DEF IsLoggedBody
  <1>. HIDE DEF S
  <1>3. PICK block \in BlocksOver(S) : block = body[b]
    BY <1>1, BodyFacts
  <1>4. PICK less : less = RemoveAt(block, k)
    OBVIOUS
  <1>. DEFINE new == [body EXCEPT ![b] = less]
  <1>5. new = [body EXCEPT ![b] = RemoveAt(@, k)]
    BY <1>3, <1>4, Zenon
  <1>6. DOMAIN new = DOMAIN body /\ new[b] = less /\ \A c \in DOMAIN body \ {b} : new[c] = body[c]
    OBVIOUS
  <1>12. new = [c \in DOMAIN body |-> new[c]]
    OBVIOUS
  <1>7. IsShaped(new, h, g, l)
    BY <1>2, <1>5, ShapedErased
  <1>. HIDE DEF new
  <1>8. less \in BlocksOver(S)
    <2>1. Len(block) \in Nat \ {0} /\ k \in 1 .. Len(block)
      BY <1>3, BlockFacts
    <2>2. block[Len(block)].op \in Terminators
      BY <1>1, <1>3 DEF Ended, Last
    <2>3. k \in 1 .. Len(block) - 1
      BY <1>3, <2>1, <2>2
    <2>. QED  BY <1>4, <2>3, RemovedOver
  <1>9. new \in BodiesOver(S)
    <2>1. \A c \in DOMAIN body : new[c] \in BlocksOver(S)
      BY <1>1, <1>6, <1>8, BodyFacts
    <2>2. DOMAIN new = DOMAIN body
      BY <1>6
    <2>. QED  BY <1>1, <1>12, <2>1, <2>2, BlocksReplaced
  <1>10. AllPlaced(f, InstructionSet(new), DOMAIN new)
    BY <1>2, <1>6, <1>9, OverIsBody DEF AllPlaced
  <1>11. IsLoggedBody(f, new, h, g, l)
    BY <1>7, <1>10 DEF IsLoggedBody
  <1>. QED  BY <1>5, <1>11

\* Every function of the program has been greeted as often at its entry as at
\* its returns.
LoggedBodies ==
  \A f \in FunctionNames \ {Wrapper} : \E h, l \in Nat : IsLoggedBody(f, code[f], h, h, l)

\* A body of the program is not logged.
LEMMA ProgramBodyUnlogged ==
  ASSUME NEW f, NEW body, IsProgramBody(body)
  PROVE  IsLoggedBody(f, body, 0, 0, 0)
  <1>. DEFINE S == InstructionSet(body)
  <1>1. /\ \A i \in S : i = Instr(i.op, i.def, i.args, i.fn, i.to, i.pred, "user")
        /\ \A i \in S : (i.op = "ret" => i.to = {}) /\ i.to \subseteq DOMAIN body
    BY DEF IsProgramBody
  <1>2. body \in BodiesOver(S)
    BY BodyIsOver DEF IsProgramBody
  <1>3. \A i \in S : i.by = "user"
    BY <1>1 DEF Instr
  <1>4. ASSUME NEW i \in S PROVE 1 \notin i.to
    <2>1. PICK b \in DOMAIN body : \E k \in DOMAIN body[b] : i = body[b][k]
      BY DEF InstructionSet, Range
    <2>2. PICK k \in DOMAIN body[b] : i = body[b][k]
      BY <2>1
    <2>3. body # <<>>
      BY <2>1
    <2>4. \A c \in DOMAIN body : \A n \in DOMAIN body[c] : 1 \notin body[c][n].to
      BY <2>3 DEF IsProgramBody, VerifiedBody
    <2>. QED  BY <2>2, <2>4
  <1>5. AllPlaced(f, S, DOMAIN body)
    BY <1>1, <1>3, <1>4 DEF AllPlaced, Placed, Kind, IsHello, IsGoodbye
  <1>6. ASSUME NEW b \in DOMAIN body PROVE Parted(Shape(body[b]), 0, 0, 0)
    <2>. HIDE DEF S
    <2>1. body[b] \in Seq(S)
      BY <1>2, BodyFacts, BlockFacts
    <2>2. PICK v \in Seq(KindNames) : v = Shape(body[b])
      BY <2>1, ShapeIs
    <2>3. \A q \in Range(v) : q = "own"
      <3>1. \A i \in Range(body[b]) : i \in S
        BY <2>1 DEF Range
      <3>2. \A i \in S : Kind(i) = <<"own">> \/ Kind(i) = <<>>
        BY <1>3, Zenon DEF Kind
      <3>3. \A q : <<q>> # <<>> /\ (<<q>> = <<"own">> => q = "own")
        OBVIOUS
      <3>4. \A q : q \in Range(v) => \E i \in Range(body[b]) : Kind(i) = <<q>>
        BY <2>1, <2>2, InShape
      <3>. QED  BY <3>1, <3>2, <3>3, <3>4
    <2>4. \A k \in DOMAIN v : v[k] = "own"
      BY <2>3 DEF Range
    <2>5. InOrder(v)
      BY <2>4 DEF InOrder
    <2>6. \A x : x # "own" => Count(v, {x}) = 0
      BY <2>3, NoneCounted
    <2>. QED  BY <2>2, <2>5, <2>6 DEF Parted
  <1>7. IsShaped(body, 0, 0, 0)
    BY <1>6 DEF IsShaped
  <1>. QED  BY <1>5, <1>7 DEF IsLoggedBody

\* Nothing is logged at first.
LEMMA LoggedInit == Init => LoggedBodies
  <1>. SUFFICES ASSUME Init, NEW f \in FunctionNames \ {Wrapper}
                PROVE  \E h, l \in Nat : IsLoggedBody(f, code[f], h, h, l)
    BY DEF LoggedBodies
  <1>1. source \in Programs /\ code = source.code
    BY DEF Init
  <1>2. IsProgramBody(code[f])
    BY <1>1, OptAssumption DEF OptAssumption
  <1>. QED  BY <1>2, ProgramBodyUnlogged

\* What a pass has added to a function keeps it so.
LEMMA InstrumentedStaysLogged ==
  ASSUME FormedBodies, NEW f \in FunctionNames, Instrumented(f),
         NEW h \in Nat, NEW l \in Nat, IsLoggedBody(f, code[f], h, h, l)
  PROVE  \E i, j \in Nat : IsLoggedBody(f, code'[f], i, i, j)
  <1>1. PICK body : body = code[f]
    OBVIOUS
  <1>2. FormedBody(body) /\ IsLoggedBody(f, body, h, h, l)
    BY <1>1 DEF FormedBodies
  <1>3. PICK hello, goodbye, log : hello = Hello(f) /\ goodbye = Goodbye(f) /\ log = LogCall(f)
    OBVIOUS
  <1>4. /\ Shape(<<hello>>) = <<"hello">> /\ Shape(<<goodbye>>) = <<"goodbye">> /\ Shape(<<log>>) = <<"log">>
        /\ \A D : AllPlaced(f, {hello, goodbye, log}, D)
    BY <1>3, AddedKinds, ShapeOne
  <1>5. /\ Parted(<<"hello">>, 1, 0, 0) /\ Parted(<<"goodbye">>, 0, 1, 0) /\ Parted(<<"log">>, 0, 0, 1)
        /\ \A q : Range(<<q>>) = {q}
    <2>1. "hello" \in KindNames /\ "goodbye" \in KindNames /\ "log" \in KindNames
      BY DEF KindNames
    <2>. QED  BY <2>1, OnePart DEF Range
  <1>. DEFINE X == {hello, goodbye, log}
  <1>6. <<hello>> \in Seq(X) /\ <<goodbye>> \in Seq(X) /\ <<log>> \in Seq(X)
    OBVIOUS
  <1>7. \A i \in X : i = Hello(f) \/ i = Goodbye(f) \/ i = LogCall(f)
    BY <1>3
  <1>8. AddedBy(X)
    BY <1>7, AddedInstructions DEF AddedBy
  <1>9. Parted(Shape(<<hello>>), 1, 0, 0) /\ "own" \notin Range(Shape(<<hello>>))
    BY <1>4, <1>5
  <1>10. Parted(Shape(<<goodbye>>), 0, 1, 0) /\ "own" \notin Range(Shape(<<goodbye>>))
    BY <1>4, <1>5
  <1>11. Parted(Shape(<<log>>), 0, 0, 1) /\ "own" \notin Range(Shape(<<log>>))
    BY <1>4, <1>5
  <1>12. \A D : AllPlaced(f, X, D)
    BY <1>4
  <1>. HIDE DEF X
  <1>13. CASE Greeted(f)
    <2>1. PICK mid : mid = AtEntry(body, <<hello>>)
      OBVIOUS
    <2>2. body # <<>> /\ code'[f] = BeforeReturns(mid, <<goodbye>>)
      BY <1>1, <1>3, <1>13, <2>1, Zenon DEF Greeted, Defined, LoggingReturn
    <2>3. FormedBody(mid)
      BY <1>2, <1>6, <1>8, <2>1, <2>2, FormedPrefixed
    <2>4. IsLoggedBody(f, mid, 1 + h, h, l)
      BY <1>2, <1>6, <1>9, <1>12, <2>1, <2>2, LoggedAtEntry
    <2>5. IsLoggedBody(f, code'[f], 1 + h, h + 1, l + 0)
      <3>1. 1 \in Nat /\ 0 \in Nat /\ 1 + h \in Nat
        OBVIOUS
      <3>2. IsLoggedBody(f, BeforeReturns(mid, <<goodbye>>), 1 + h, h + 1, l + 0)
        BY <1>6, <1>10, <1>12, <2>3, <2>4, <3>1, LoggedBeforeReturns
      <3>. QED  BY <2>2, <3>2
    <2>6. 1 + h = h + 1 /\ l + 0 = l /\ h + 1 \in Nat
      OBVIOUS
    <2>. QED  BY <2>5, <2>6
  <1>14. CASE Tallied(f)
    <2>1. PICK is : is = Increment(f, body)
      OBVIOUS
    <2>2. body # <<>> /\ code'[f] = AtEntry(body, is)
      BY <1>1, <1>14, <2>1, Zenon DEF Tallied, Defined, Counted
    <2>3. is \in Seq(Range(is)) /\ \A D : AllPlaced(f, Range(is), D)
      <3>1. is \in Seq(Range(is))
        BY <2>1 DEF Increment, Range
      <3>2. \A D : AllPlaced(f, Range(is), D)
        BY <2>1, AddedKinds, Zenon
      <3>. QED  BY <3>1, <3>2
    <2>4. Shape(is) = <<>>
      <3>1. \A i \in Range(is) : Kind(i) = <<>>
        BY <2>1, AddedKinds
      <3>. QED  BY <2>3, <3>1, ShapeNone
    <2>5. Parted(Shape(is), 0, 0, 0) /\ "own" \notin Range(Shape(is))
      BY <2>4, NoParts DEF Range
    <2>6. IsLoggedBody(f, AtEntry(body, is), 0 + h, h, l)
      BY <1>2, <2>2, <2>3, <2>5, LoggedAtEntry
    <2>7. 0 + h = h
      OBVIOUS
    <2>. QED  BY <2>2, <2>6, <2>7
  <1>15. CASE ReturnLogged(f)
    <2>1. code'[f] = BeforeReturns(body, <<log>>)
      BY <1>1, <1>3, <1>15, Zenon DEF ReturnLogged
    <2>2. IsLoggedBody(f, code'[f], h, h + 0, l + 1)
      BY <1>2, <1>6, <1>11, <1>12, <2>1, LoggedBeforeReturns
    <2>3. h + 0 = h /\ l + 1 \in Nat
      OBVIOUS
    <2>. QED  BY <2>2, <2>3
  <1>16. CASE Rewritten(f)
    BY <1>1, <1>2, <1>16, LoggedConverted, Zenon DEF Rewritten
  <1>17. CASE code'[f] = code[f]
    BY <1>1, <1>2, <1>17
  <1>. QED  BY <1>13, <1>14, <1>15, <1>16, <1>17 DEF Instrumented

\* Every step keeps all functions but the wrapper so.
LEMMA LoggedStep ==
  ASSUME FormedBodies, CodeChange, LoggedBodies
  PROVE  LoggedBodies'
  <1>. SUFFICES ASSUME NEW f \in FunctionNames \ {Wrapper}
                PROVE  \E i, j \in Nat : IsLoggedBody(f, code'[f], i, i, j)
    BY DEF LoggedBodies
  <1>1. PICK h \in Nat, l \in Nat : IsLoggedBody(f, code[f], h, h, l)
    BY DEF LoggedBodies
  <1>2. CASE Instrumented(f)
    BY <1>1, <1>2, InstrumentedStaysLogged
  <1>3. CASE code'[f] = code[f]
    BY <1>1, <1>3
  <1>4. CASE Shortened(f)
    <2>1. PICK b \in DOMAIN code[f] : \E k \in Erasable(f, b) : code'[f] = [code[f] EXCEPT ![b] = RemoveAt(@, k)]
      BY <1>4 DEF Shortened
    <2>2. PICK k \in Erasable(f, b) : code'[f] = [code[f] EXCEPT ![b] = RemoveAt(@, k)]
      BY <2>1
    <2>3. k \in DOMAIN code[f][b] /\ code[f][b][k].op \notin Terminators /\ code[f][b][k].by = "user"
      BY DEF Erasable, Terminators
    <2>4. FormedBody(code[f])
      BY DEF FormedBodies
    <2>5. IsLoggedBody(f, [code[f] EXCEPT ![b] = RemoveAt(@, k)], h, h, l)
      BY <1>1, <2>1, <2>3, <2>4, LoggedErased
    <2>. QED  BY <2>2, <2>5
  <1>5. Instrumented(f) \/ code'[f] = code[f] \/ Shortened(f)
    BY ErasedOrInstrumented DEF Erasure
  <1>. QED  BY <1>2, <1>3, <1>4, <1>5

\* The ways, and those that are one block longer.
Further(body, W) == W \cup UNION { {Append(w, t) : t \in Last(body[Last(w)]).to} : w \in W }

\* g holds the ways of each length.
WaysUpTo(body, N, g) ==
  g = [n \in 1 .. N |->
        IF n = 1 THEN {<<1>>}
        ELSE g[n - 1] \cup
             UNION { {Append(w, t) : t \in Last(body[Last(w)]).to} : w \in g[n - 1] }]

\* There are such ways.
LEMMA WaysExist ==
  ASSUME NEW body
  PROVE  \A N \in Nat : \E g : WaysUpTo(body, N, g)
  <1>. DEFINE D == {N \in Nat : \E g : WaysUpTo(body, N, g)}
  <1>1. 0 \in D
    <2>. DEFINE g == [n \in 1 .. 0 |-> {}]
    <2>1. \A n : n \notin 1 .. 0
      OBVIOUS
    <2>2. WaysUpTo(body, 0, g)
      BY <2>1 DEF WaysUpTo
    <2>. QED  BY <2>2
  <1>2. ASSUME NEW N \in Nat, N \in D PROVE N + 1 \in D
    <2>1. PICK g : WaysUpTo(body, N, g)
      BY <1>2
    <2>. DEFINE h == [n \in 1 .. N + 1 |-> IF n = 1 THEN {<<1>>} ELSE Further(body, g[n - 1])]
    <2>2. ASSUME NEW n \in 1 .. N PROVE h[n] = g[n]
      <3>1. g[n] = IF n = 1 THEN {<<1>>} ELSE Further(body, g[n - 1])
        BY <2>1, Zenon DEF WaysUpTo, Further
      <3>2. n \in 1 .. N + 1
        OBVIOUS
      <3>3. h[n] = IF n = 1 THEN {<<1>>} ELSE Further(body, g[n - 1])
        BY <3>2, Zenon
      <3>. QED  BY <3>1, <3>3
    <2>3. ASSUME NEW n \in 1 .. N + 1
          PROVE  h[n] = IF n = 1 THEN {<<1>>} ELSE Further(body, h[n - 1])
      <3>1. h[n] = IF n = 1 THEN {<<1>>} ELSE Further(body, g[n - 1])
        BY Zenon
      <3>2. n # 1 => n - 1 \in 1 .. N
        OBVIOUS
      <3>. HIDE DEF h
      <3>. QED  BY <2>2, <3>1, <3>2
    <2>4. h = [n \in 1 .. N + 1 |-> IF n = 1 THEN {<<1>>} ELSE Further(body, h[n - 1])]
      <3>1. DOMAIN h = 1 .. N + 1 /\ h = [n \in 1 .. N + 1 |-> h[n]]
        OBVIOUS
      <3>. HIDE DEF h
      <3>. QED  BY <2>3, <3>1, Zenon
    <2>. HIDE DEF h
    <2>5. WaysUpTo(body, N + 1, h)
      BY <2>4, Zenon DEF WaysUpTo, Further
    <2>. QED  BY <2>5
  <1>. HIDE DEF D
  <1>3. Nat \subseteq D
    BY <1>1, <1>2, Induction
  <1>. QED  BY <1>3 DEF D

\* A set that has the entry, and with a way every further one, has all ways.
LEMMA WaysInduction ==
  ASSUME NEW body, NEW D, << 1 >> \in D,
         \A w \in D : \A t \in Last(body[Last(w)]).to : Append(w, t) \in D,
         NEW N \in Nat \ {0}
  PROVE  Ways(body, N) \subseteq D
  <1>. DEFINE f == CHOOSE g : WaysUpTo(body, N, g)
  <1>1. WaysUpTo(body, N, f)
    BY WaysExist
  <1>2. Ways(body, N) = f[N]
    BY Zenon DEF Ways, WaysUpTo
  <1>. HIDE DEF f
  <1>3. ASSUME NEW n \in 1 .. N
        PROVE  f[n] = IF n = 1 THEN {<<1>>} ELSE Further(body, f[n - 1])
    BY <1>1, Zenon DEF WaysUpTo, Further
  <1>4. ASSUME NEW W, W \subseteq D PROVE Further(body, W) \subseteq D
    <2>. SUFFICES ASSUME NEW x \in Further(body, W) PROVE x \in D
      OBVIOUS
    <2>1. x \in W \/ \E w \in W : x \in {Append(w, t) : t \in Last(body[Last(w)]).to}
      BY Zenon DEF Further
    <2>2. ASSUME NEW w \in W, x \in {Append(w, t) : t \in Last(body[Last(w)]).to} PROVE x \in D
      <3>1. PICK t \in Last(body[Last(w)]).to : x = Append(w, t)
        BY <2>2, Zenon
      <3>2. w \in D
        BY <1>4
      <3>. QED  BY <3>1, <3>2, Zenon
    <2>. QED  BY <1>4, <2>1, <2>2
  <1>. DEFINE P == {n \in Nat : n \in 1 .. N => f[n] \subseteq D}
  <1>5. 0 \in P
    OBVIOUS
  <1>6. ASSUME NEW n \in Nat, n \in P PROVE n + 1 \in P
    <2>. SUFFICES ASSUME n + 1 \in 1 .. N PROVE f[n + 1] \subseteq D
      OBVIOUS
    <2>1. CASE n = 0
      <3>1. f[1] = {<<1>>}
        BY <1>3, <2>1
      <3>. QED  BY <2>1, <3>1
    <2>2. CASE n # 0
      <3>1. n \in 1 .. N /\ n + 1 # 1 /\ (n + 1) - 1 = n
        BY <2>2
      <3>2. f[n + 1] = Further(body, f[n])
        BY <1>3, <3>1
      <3>3. f[n] \subseteq D
        BY <1>6, <3>1
      <3>. QED  BY <1>4, <3>2, <3>3
    <2>. QED  BY <2>1, <2>2
  <1>. HIDE DEF P
  <1>7. Nat \subseteq P
    BY <1>5, <1>6, Induction
  <1>8. N \in P /\ N \in 1 .. N
    BY <1>7
  <1>. QED  BY <1>2, <1>8 DEF P

\* What is executed on a way is logged as the code is.
IsLoggedWay(body, w, h, l) ==
  LET returns == Returning(body, w)
  IN  Parted(Shape(Trace(body, w)), h, IF returns THEN h ELSE 0, IF returns THEN l ELSE 0)

\* A body maps its blocks to lists.
LEMMA BodyIsMap ==
  ASSUME NEW S, NEW body \in BodiesOver(S)
  PROVE  body \in [DOMAIN body -> Seq(S)]
  <1>1. body \in [1 .. Len(body) -> BlocksOver(S)] /\ BlocksOver(S) \subseteq Seq(S)
    BY DEF BodiesOver, BlocksOver
  <1>. QED  BY <1>1

WaysOf(body) == Seq(DOMAIN body) \ {<<>>}

\* A way through a function greets once at the entry, if at all, and takes
\* leave where it returns.
LEMMA WaysAreLogged ==
  ASSUME NEW f, NEW S, NEW body \in BodiesOver(S), S = InstructionSet(body), body # <<>>,
         NEW h \in Nat, NEW l \in Nat, IsLoggedBody(f, body, h, h, l), NEW N \in Nat \ {0}
  PROVE  \A w \in Ways(body, N) : w \in WaysOf(body) /\ IsLoggedWay(body, w, h, l)
  <1>. DEFINE D == {w \in WaysOf(body) : IsLoggedWay(body, w, h, l)}
  <1>1. 1 \in DOMAIN body /\ \A b \in DOMAIN body : body[b] \in Seq(S) /\ Last(body[b]) \in S
    <2>1. 1 \in DOMAIN body
      BY BodyFacts
    <2>. QED  BY <2>1, BodyFacts, BlockFacts
  <1>2. body \in [DOMAIN body -> Seq(S)]
    BY BodyIsMap
  <1>3. AllPlaced(f, S, DOMAIN body) /\ IsShaped(body, h, h, l)
    BY DEF IsLoggedBody
  <1>4. \A w : Trace(body, w) = FlatMap(body, w)
    BY DEF Trace, FlatMap
  <1>5. ASSUME NEW b \in DOMAIN body
        PROVE  LET returns == Last(body[b]).op = "ret"
               IN  Parted(Shape(body[b]), IF b = 1 THEN h ELSE 0, IF returns THEN h ELSE 0,
                          IF returns THEN l ELSE 0)
    BY <1>3 DEF IsShaped
  <1>6. <<1>> \in D
    <2>1. <<1>> \in WaysOf(body) /\ Last(<<1>>) = 1
      BY <1>1 DEF WaysOf, Last
    <2>2. Trace(body, <<1>>) = body[1]
      BY <1>1, <1>2, <1>4, FlatMapOne
    <2>3. IsLoggedWay(body, <<1>>, h, l)
      BY <1>1, <1>5, <2>1, <2>2 DEF IsLoggedWay, Returning
    <2>. QED  BY <2>1, <2>3
  <1>7. ASSUME NEW w \in D, NEW t \in Last(body[Last(w)]).to PROVE Append(w, t) \in D
    <2>1. w \in Seq(DOMAIN body) /\ w # <<>> /\ IsLoggedWay(body, w, h, l)
      BY DEF WaysOf
    <2>2. Last(w) \in DOMAIN body
      BY <2>1 DEF Last
    <2>3. Placed(f, Last(body[Last(w)]), DOMAIN body)
      BY <1>1, <1>3, <2>2 DEF AllPlaced
    <2>4. t \in DOMAIN body /\ t # 1 /\ ~Returning(body, w)
      BY <1>7, <2>3 DEF Placed, Returning
    <2>5. Append(w, t) \in WaysOf(body) /\ Last(Append(w, t)) = t
      BY <2>1, <2>4 DEF WaysOf, Last
    <2>6. Trace(body, Append(w, t)) = Trace(body, w) \o body[t]
      <3>1. Grows(body, w, t)
        BY <1>2, <2>1, <2>4, FlatMapGrows, Zenon
      <3>. QED  BY <1>4, <3>1, Zenon DEF Grows
    <2>7. Trace(body, w) \in Seq(S)
      BY <1>2, <1>4, <2>1, FlatMapType
    <2>8. Shape(Trace(body, Append(w, t))) = Shape(Trace(body, w)) \o Shape(body[t])
      <3>1. ShapeOfBoth(Trace(body, w), body[t])
        BY <1>1, <2>4, <2>7, ShapeConcat
      <3>. QED  BY <2>6, <3>1, Zenon DEF ShapeOfBoth
    <2>9. Parted(Shape(Trace(body, w)), h, 0, 0)
      BY <2>1, <2>4 DEF IsLoggedWay
    <2>10. PICK i, j : /\ i = IF Last(body[t]).op = "ret" THEN h ELSE 0
                       /\ j = IF Last(body[t]).op = "ret" THEN l ELSE 0
      OBVIOUS
    <2>11. i \in Nat /\ j \in Nat
      BY <2>10
    <2>12. Parted(Shape(body[t]), 0, i, j)
      BY <1>5, <2>4, <2>10
    <2>13. Parted(Shape(Trace(body, w)) \o Shape(body[t]), h + 0, 0 + i, 0 + j)
      BY <2>9, <2>12, PartsTogether
    <2>14. h + 0 = h /\ 0 + i = i /\ 0 + j = j
      BY <2>11
    <2>15. Parted(Shape(Trace(body, Append(w, t))), h, i, j)
      BY <2>8, <2>13, <2>14
    <2>16. IsLoggedWay(body, Append(w, t), h, l)
      BY <2>5, <2>10, <2>15 DEF IsLoggedWay, Returning
    <2>. QED  BY <2>5, <2>16
  <1>. HIDE DEF D
  <1>8. Ways(body, N) \subseteq D
    BY <1>6, <1>7, WaysInduction
  <1>. QED  BY <1>8 DEF D

\* The instructions of a kind.
OfKind(S, q) == {i \in S : Kind(i) = <<q>>}

\* What the kinds are: each instruction has the one that its maker and, of a
\* greeting, its format tell.
LEMMA KindIs ==
  ASSUME NEW i
  PROVE  /\ IsHello(i) <=> Kind(i) = <<"hello">>
         /\ IsGoodbye(i) <=> Kind(i) = <<"goodbye">>
         /\ IsLogged(i) <=> Kind(i) = <<"log">>
         /\ (i.by = "user" /\ i.op # "ret") <=> Kind(i) = <<"own">>
  <1>1. \A q : <<q>> # <<>>
    OBVIOUS
  <1>2. \A q, r : <<q>> = <<r>> => q = r
    OBVIOUS
  <1>3. PICK a : a = i.args[1].name[2]
    OBVIOUS
  <1>4. /\ IsHello(i) <=> i.by = "inject-func-call" /\ a = "PrintfFormatStr"
        /\ IsGoodbye(i) <=> i.by = "inject-func-call" /\ a = "HomeWorkFormatStr"
        /\ IsLogged(i) <=> i.by = "log-return"
    BY <1>3 DEF IsHello, IsGoodbye, IsLogged
  <1>5. Kind(i) = IF i.by = "user" THEN (IF i.op # "ret" THEN <<"own">> ELSE <<>>)
                  ELSE IF IsHello(i) THEN <<"hello">>
                  ELSE IF IsGoodbye(i) THEN <<"goodbye">>
                  ELSE IF IsLogged(i) THEN <<"log">>
                  ELSE <<>>
    BY Zenon DEF Kind
  <1>. QED  BY <1>1, <1>2, <1>4, <1>5

\* The order of a shape is that of the instructions.
LEMMA ShapeOrder ==
  ASSUME NEW S, NEW t \in Seq(S), InOrder(Shape(t)), NEW j \in DOMAIN t, NEW k \in DOMAIN t, j < k
  PROVE  /\ ~(Kind(t[j]) = <<"own">> /\ Kind(t[k]) = <<"hello">>)
         /\ ~(Kind(t[j]) = <<"goodbye">> /\ Kind(t[k]) = <<"own">>)
  <1>1. j \in 1 .. Len(t) /\ k \in 1 .. Len(t) /\ Len(t) \in Nat
    OBVIOUS
  <1>2. PICK p \in Seq(S) : \E r \in Seq(S) : CutIn(t, j, p, r)
    BY <1>1, CutAt
  <1>3. PICK r \in Seq(S) : CutIn(t, j, p, r)
    BY <1>2
  <1>4. PICK x \in S : x = t[j]
    BY <1>1
  <1>5. Len(p) = j - 1 /\ t = Append(p, x) \o r
    BY <1>3, <1>4, Zenon DEF CutIn
  <1>14. Append(p, x) \in Seq(S)
    BY AppendProperties
  <1>6. PICK a \in Seq(S) : a = Append(p, x)
    BY <1>14
  <1>7. Len(a) = j /\ x \in Range(a)
    BY <1>1, <1>5, <1>6 DEF Range
  <1>8. t = a \o r
    BY <1>5, <1>6
  <1>9. t[k] \in Range(r)
    <2>1. t[k] = r[k - j] /\ k - j \in DOMAIN r
      BY <1>1, <1>7, <1>8
    <2>. QED  BY <2>1 DEF Range
  <1>10. Shape(a) \in Seq(KindNames) /\ Shape(r) \in Seq(KindNames)
    BY ShapeIs
  <1>11. Fits(Shape(a), Shape(r))
    <2>1. ShapeOfBoth(a, r)
      BY ShapeConcat
    <2>2. InOrder(Shape(a) \o Shape(r))
      BY <1>8, <2>1 DEF ShapeOfBoth
    <2>. QED  BY <1>10, <2>2, OrderTogether
  <1>12. \A q : Kind(t[j]) = <<q>> => q \in Range(Shape(a))
    BY <1>4, <1>7, InShape
  <1>13. \A q : Kind(t[k]) = <<q>> => q \in Range(Shape(r))
    BY <1>9, InShape
  <1>. QED  BY <1>11, <1>12, <1>13 DEF Fits

\* The places of a kind on a way are as many as its shape has of them.
LEMMA PlacesOfKind ==
  ASSUME NEW S, NEW t \in Seq(S), NEW q, NEW K, K \subseteq DOMAIN t,
         \A k \in DOMAIN t : k \in K <=> Kind(t[k]) = <<q>>
  PROVE  Cardinality(K) = Count(Shape(t), {q})
  <1>1. Count(Shape(t), {q}) = Count(t, OfKind(S, q))
    BY ShapeCounts, Zenon DEF OfKind
  <1>2. K = PlacesIn(t, OfKind(S, q))
    BY DEF PlacesIn, OfKind
  <1>. QED  BY <1>1, <1>2 DEF Count

\* The function of a program still has a body.
GivenDefined == \A f \in ProgramFunctions : Defined(f)

\* At first its body is the given one.
LEMMA GivenInit == Init => GivenDefined
  BY DEF Init, GivenDefined, ProgramFunctions, Defined

\* No step takes it away.
LEMMA GivenStep ==
  ASSUME FormedBodies, CodeChange, SourceKept, GivenDefined
  PROVE  GivenDefined'
  <1>. SUFFICES ASSUME NEW f \in FunctionNames, source'.code[f] # <<>> PROVE code'[f] # <<>>
    BY DEF GivenDefined, ProgramFunctions, Defined
  <1>1. ASSUME source.code[f] # <<>> PROVE code[f] # <<>> /\ f # Wrapper
    BY <1>1 DEF GivenDefined, ProgramFunctions, Defined, SourceKept
  <1>2. CASE UNCHANGED source /\ \A g \in FunctionNames \ {Wrapper} : Instrumented(g)
    <2>1. code[f] # <<>> /\ Instrumented(f)
      BY <1>1, <1>2
    <2>2. DOMAIN code'[f] = DOMAIN code[f]
      BY <2>1, InstrumentedKeepsOwn DEF KeepsOwn
    <2>3. FormedBody(code[f])
      BY DEF FormedBodies
    <2>4. 1 \in DOMAIN code[f]
      <3>1. code[f] \in BodiesOver(InstructionSet(code[f]))
        BY <2>3, FormedElim
      <3>2. PICK body \in BodiesOver(InstructionSet(code[f])) : body = code[f]
        BY <3>1
      <3>3. body # <<>>
        BY <2>1, <3>2
      <3>4. 1 \in DOMAIN body
        BY <3>3 DEF BodiesOver
      <3>. QED  BY <3>2, <3>4
    <2>. QED  BY <2>2, <2>4
  <1>3. CASE Erasure
    <2>1. PICK g \in FunctionNames : Shortened(g) /\ \A e \in FunctionNames \ {g} : code'[e] = code[e]
      BY <1>3 DEF Erasure
    <2>2. PICK b \in DOMAIN code[g] : \E k \in Erasable(g, b) :
            /\ code'[g] = [code[g] EXCEPT ![b] = RemoveAt(@, k)]
            /\ source' = [source EXCEPT !.code[g][b] = RemoveAt(@, PlaceInProgram(code[g][b], k))]
      BY <2>1 DEF Shortened
    <2>3. PICK k \in Erasable(g, b) :
            /\ code'[g] = [code[g] EXCEPT ![b] = RemoveAt(@, k)]
            /\ source' = [source EXCEPT !.code[g][b] = RemoveAt(@, PlaceInProgram(code[g][b], k))]
      BY <2>2
    <2>4. PICK new : new = RemoveAt(source.code[g][b], PlaceInProgram(code[g][b], k))
      OBVIOUS
    <2>5. source' = [source EXCEPT !.code[g][b] = new]
      BY <2>3, <2>4, Zenon
    <2>6. \A e \in FunctionNames \ {g} : source'.code[e] = source.code[e]
      BY <2>5, SourceFields
    <2>7. CASE f = g
      <3>1. b \in DOMAIN code'[f]
        BY <2>3, <2>7
      <3>. QED  BY <3>1
    <2>8. CASE f # g
      BY <1>1, <2>1, <2>6, <2>8
    <2>. QED  BY <2>7, <2>8
  <1>. QED  BY <1>2, <1>3, ErasedOrInstrumented

\* What is logged on a way that ends.
LEMMA WayIsLogged ==
  ASSUME NEW f, NEW S, NEW t \in Seq(S), \A i \in S : IsHello(i) \/ IsGoodbye(i) => i.args[2] = Constant(f, "ptr"),
         NEW h, NEW g, NEW l, Parted(Shape(t), h, g, l)
  PROVE  LET hellos == {k \in DOMAIN t : IsHello(t[k])}
             goodbyes == {k \in DOMAIN t : IsGoodbye(t[k])}
             own == {k \in DOMAIN t : t[k].by = "user" /\ t[k].op # "ret"}
         IN  /\ Cardinality(hellos) = h /\ Cardinality(goodbyes) = g
             /\ Cardinality({k \in DOMAIN t : IsLogged(t[k])}) = l
             /\ \A k \in own : (\A j \in hellos : j < k) /\ (\A j \in goodbyes : k < j)
             /\ \A k \in hellos \cup goodbyes : t[k].args[2] = Constant(f, "ptr")
  <1>. DEFINE hellos == {k \in DOMAIN t : IsHello(t[k])}
              goodbyes == {k \in DOMAIN t : IsGoodbye(t[k])}
              logs == {k \in DOMAIN t : IsLogged(t[k])}
              own == {k \in DOMAIN t : t[k].by = "user" /\ t[k].op # "ret"}
  <1>1. \A k \in DOMAIN t : /\ k \in hellos <=> Kind(t[k]) = <<"hello">>
                            /\ k \in goodbyes <=> Kind(t[k]) = <<"goodbye">>
                            /\ k \in logs <=> Kind(t[k]) = <<"log">>
                            /\ k \in own <=> Kind(t[k]) = <<"own">>
    BY KindIs
  <1>2. hellos \subseteq DOMAIN t /\ goodbyes \subseteq DOMAIN t /\ logs \subseteq DOMAIN t /\ own \subseteq DOMAIN t
    OBVIOUS
  <1>3. \A k \in DOMAIN t : t[k] \in S
    OBVIOUS
  <1>4. \A k \in hellos \cup goodbyes : t[k].args[2] = Constant(f, "ptr")
    BY <1>3
  <1>. HIDE DEF hellos, goodbyes, logs, own
  <1>5. Cardinality(hellos) = h
    BY <1>1, <1>2, PlacesOfKind DEF Parted
  <1>6. Cardinality(goodbyes) = g
    BY <1>1, <1>2, PlacesOfKind DEF Parted
  <1>7. Cardinality(logs) = l
    BY <1>1, <1>2, PlacesOfKind DEF Parted
  <1>8. \A q, r : <<q>> = <<r>> => q = r
    OBVIOUS
  <1>9. ASSUME NEW k \in own, NEW j \in hellos PROVE j < k
    <2>1. j \in DOMAIN t /\ k \in DOMAIN t /\ Kind(t[j]) = <<"hello">> /\ Kind(t[k]) = <<"own">> /\ j # k
      BY <1>1, <1>2, <1>8
    <2>2. ~(k < j)
      BY <2>1, ShapeOrder DEF Parted
    <2>3. j \in Nat /\ k \in Nat
      BY <2>1
    <2>. QED  BY <2>1, <2>2, <2>3
  <1>10. ASSUME NEW k \in own, NEW j \in goodbyes PROVE k < j
    <2>1. j \in DOMAIN t /\ k \in DOMAIN t /\ Kind(t[j]) = <<"goodbye">> /\ Kind(t[k]) = <<"own">> /\ j # k
      BY <1>1, <1>2, <1>8
    <2>2. ~(j < k)
      BY <2>1, ShapeOrder DEF Parted
    <2>3. j \in Nat /\ k \in Nat
      BY <2>1
    <2>. QED  BY <2>1, <2>2, <2>3
  <1>11. \A k \in own : (\A j \in hellos : j < k) /\ (\A j \in goodbyes : k < j)
    BY <1>9, <1>10
  <1>. QED  BY <1>4, <1>5, <1>6, <1>7, <1>11, Zenon DEF hellos, goodbyes, logs, own

\* Where all bodies are logged so, every return is logged.
LEMMA LoggedReturns ==
  ASSUME FormedBodies, SourceKept, LoggedBodies, GivenDefined
  PROVE  EveryReturnIsLogged
  <1>. SUFFICES ASSUME NEW f \in ProgramFunctions
                PROVE  LET logs(w) == LET t == Trace(code[f], w) IN Cardinality({k \in DOMAIN t : IsLogged(t[k])})
                           returns == {w \in EndedWays(f) : Returning(code[f], w)}
                       IN  /\ \A v, w \in returns : logs(v) = logs(w)
                           /\ \A w \in EndedWays(f) :
                                LET t == Trace(code[f], w)
                                    hellos == {k \in DOMAIN t : IsHello(t[k])}
                                    goodbyes == {k \in DOMAIN t : IsGoodbye(t[k])}
                                    own == {k \in DOMAIN t : t[k].by = "user" /\ t[k].op # "ret"}
                                IN  /\ Cardinality(goodbyes) = IF w \in returns THEN Cardinality(hellos) ELSE 0
                                    /\ w \notin returns => logs(w) = 0
                                    /\ \A k \in own : (\A j \in hellos : j < k) /\ (\A j \in goodbyes : k < j)
                                    /\ \A k \in hellos \cup goodbyes : t[k].args[2] = Constant(f, "ptr")
    BY Zenon DEF EveryReturnIsLogged
  <1>1. f \in FunctionNames \ {Wrapper} /\ code[f] # <<>>
    BY DEF ProgramFunctions, SourceKept, GivenDefined, Defined
  <1>2. PICK h \in Nat, l \in Nat : IsLoggedBody(f, code[f], h, h, l)
    BY <1>1 DEF LoggedBodies
  <1>. DEFINE S == InstructionSet(code[f])
  <1>3. code[f] \in BodiesOver(S)
    BY <1>1, FormedElim DEF FormedBodies
  <1>4. AllPlaced(f, S, DOMAIN code[f])
    BY <1>2 DEF IsLoggedBody
  <1>5. \A i \in S : IsHello(i) \/ IsGoodbye(i) => i.args[2] = Constant(f, "ptr")
    BY <1>4 DEF AllPlaced, Placed
  <1>6. ASSUME NEW w \in EndedWays(f)
        PROVE  /\ Trace(code[f], w) \in Seq(S)
               /\ IsLoggedWay(code[f], w, h, l)
    <2>1. w \in Ways(code[f], Depth) /\ Depth \in Nat \ {0}
      BY DEF EndedWays, Depth
    <2>2. w \in WaysOf(code[f]) /\ IsLoggedWay(code[f], w, h, l)
      BY <1>1, <1>2, <1>3, <2>1, WaysAreLogged
    <2>3. Trace(code[f], w) \in Seq(S)
      <3>. HIDE DEF S
      <3>1. code[f] \in [DOMAIN code[f] -> Seq(S)]
        BY <1>3, BodyIsMap
      <3>2. FlatMap(code[f], w) \in Seq(S)
        BY <2>2, <3>1, FlatMapType DEF WaysOf
      <3>. QED  BY <3>2 DEF Trace, FlatMap
    <2>. QED  BY <2>2, <2>3
  <1>. HIDE DEF S
  <1>7. ASSUME NEW w \in EndedWays(f)
        PROVE  LET t == Trace(code[f], w)
                   hellos == {k \in DOMAIN t : IsHello(t[k])}
                   goodbyes == {k \in DOMAIN t : IsGoodbye(t[k])}
                   own == {k \in DOMAIN t : t[k].by = "user" /\ t[k].op # "ret"}
                   returns == Returning(code[f], w)
               IN  /\ Cardinality(hellos) = h /\ Cardinality(goodbyes) = IF returns THEN h ELSE 0
                   /\ Cardinality({k \in DOMAIN t : IsLogged(t[k])}) = IF returns THEN l ELSE 0
                   /\ \A k \in own : (\A j \in hellos : j < k) /\ (\A j \in goodbyes : k < j)
                   /\ \A k \in hellos \cup goodbyes : t[k].args[2] = Constant(f, "ptr")
    <2>1. PICK t \in Seq(S) : t = Trace(code[f], w)
      BY <1>6
    <2>2. PICK g, n : g = (IF Returning(code[f], w) THEN h ELSE 0) /\ n = (IF Returning(code[f], w) THEN l ELSE 0)
      OBVIOUS
    <2>3. Parted(Shape(t), h, g, n)
      BY <1>6, <2>1, <2>2, Zenon DEF IsLoggedWay
    <2>. QED  BY <1>5, <2>1, <2>2, <2>3, WayIsLogged, Zenon
  <1>. QED  BY <1>7, Zenon

\* Every way through a function of the program that returns says goodbye as
\* often as hello, the hellos in front of what the program does and the
\* goodbyes behind, and is logged as often as any other; and one that does not
\* return takes no leave.
THEOREM ReturnsLogged == Spec => []EveryReturnIsLogged
  <1>1. Init => SourceKept /\ ProgramIsKept /\ LoggedBodies /\ GivenDefined
    BY KeptInit, LoggedInit, GivenInit
  <1>2. FormedInv /\ SourceKept /\ ProgramIsKept /\ LoggedBodies /\ GivenDefined /\ [Next]_vars
        => SourceKept' /\ ProgramIsKept' /\ LoggedBodies' /\ GivenDefined'
    <2>. SUFFICES ASSUME FormedInv, SourceKept, ProgramIsKept, LoggedBodies, GivenDefined, [Next]_vars
                  PROVE  SourceKept' /\ ProgramIsKept' /\ LoggedBodies' /\ GivenDefined'
      OBVIOUS
    <2>1. TypeOK /\ FormedBodies /\ CodeChange
      BY CodeSteps DEF FormedInv
    <2>2. SourceKept' /\ ProgramIsKept'
      BY <2>1, KeptStep
    <2>3. LoggedBodies'
      BY <2>1, LoggedStep
    <2>4. GivenDefined'
      BY <2>1, GivenStep
    <2>. QED  BY <2>2, <2>3, <2>4
  <1>3. FormedInv /\ SourceKept /\ LoggedBodies /\ GivenDefined => EveryReturnIsLogged
    BY LoggedReturns DEF FormedInv
  <1>. QED  BY <1>1, <1>2, <1>3, FormedSpec, PTL DEF Spec

-----------------------------------------------------------------------------
(* The report prints what calls have counted.                              *)

\* What dynamic-cc has put in a list of instructions.
CounterMap(S) == [i \in S |-> IF i.by = "dynamic-cc" THEN <<i>> ELSE <<>>]
CounterCode(is) == FlattenSeq([k \in DOMAIN is |-> IF is[k].by = "dynamic-cc" THEN <<is[k]>> ELSE <<>>])

\* It is a flat map of the list.
LEMMA CounterIs ==
  ASSUME NEW S
  PROVE  /\ CounterMap(S) \in [S -> Seq(S)]
         /\ \A is \in Seq(S) : CounterCode(is) = FlatMap(CounterMap(S), is) /\ CounterCode(is) \in Seq(S)
  <1>1. CounterMap(S) \in [S -> Seq(S)]
    <2>1. \A i \in S : <<i>> \in Seq(S) /\ <<>> \in Seq(S)
      OBVIOUS
    <2>. QED  BY <2>1 DEF CounterMap
  <1>2. ASSUME NEW is \in Seq(S)
        PROVE  CounterCode(is) = FlatMap(CounterMap(S), is) /\ CounterCode(is) \in Seq(S)
    <2>1. \A k \in DOMAIN is : is[k] \in S
      OBVIOUS
    <2>2. \A k \in DOMAIN is : CounterMap(S)[is[k]] = IF is[k].by = "dynamic-cc" THEN <<is[k]>> ELSE <<>>
      BY <2>1, Zenon DEF CounterMap
    <2>3. [k \in DOMAIN is |-> IF is[k].by = "dynamic-cc" THEN <<is[k]>> ELSE <<>>]
            = [k \in DOMAIN is |-> CounterMap(S)[is[k]]]
      BY <2>2, Zenon
    <2>4. CounterCode(is) = FlatMap(CounterMap(S), is)
      BY <2>3, Zenon DEF CounterCode, FlatMap
    <2>. QED  BY <1>1, <2>4, FlatMapType
  <1>. QED  BY <1>1, <1>2

CountersOfBoth(a, b) == CounterCode(a \o b) = CounterCode(a) \o CounterCode(b)

\* What it has put in two lists is what is in each, in order.
LEMMA CounterConcat ==
  ASSUME NEW S, NEW a \in Seq(S), NEW b \in Seq(S)
  PROVE  CountersOfBoth(a, b)
  <1>1. Distributes(CounterMap(S), a, b)
    BY CounterIs, FlatMapConcat
  <1>2. a \o b \in Seq(S)
    OBVIOUS
  <1>3. /\ CounterCode(a \o b) = FlatMap(CounterMap(S), a \o b)
        /\ CounterCode(a) = FlatMap(CounterMap(S), a) /\ CounterCode(b) = FlatMap(CounterMap(S), b)
    BY <1>2, CounterIs
  <1>. QED  BY <1>1, <1>3, Zenon DEF Distributes, CountersOfBoth

\* One instruction is its or not.
LEMMA CounterOne ==
  ASSUME NEW x
  PROVE  CounterCode(<<x>>) = IF x.by = "dynamic-cc" THEN <<x>> ELSE <<>>
  <1>1. <<x>> \in Seq({x}) /\ x \in {x}
    OBVIOUS
  <1>2. FlatMap(CounterMap({x}), <<x>>) = CounterMap({x})[x]
    BY <1>1, CounterIs, FlatMapOne
  <1>3. CounterMap({x})[x] = IF x.by = "dynamic-cc" THEN <<x>> ELSE <<>>
    BY <1>1, Zenon DEF CounterMap
  <1>. QED  BY <1>1, <1>2, <1>3, CounterIs, Zenon

\* There is nothing of it in what another pass adds.
LEMMA CounterNone ==
  ASSUME NEW S, NEW is \in Seq(S), \A i \in Range(is) : i.by # "dynamic-cc"
  PROVE  CounterCode(is) = <<>>
  <1>1. /\ CounterMap(S) \in [S -> Seq(S)] /\ CounterCode(is) = FlatMap(CounterMap(S), is)
        /\ CounterCode(is) \in Seq(S)
    BY CounterIs
  <1>2. \A i \in Range(is) : i \in S
    BY DEF Range
  <1>3. \A i \in Range(is) : CounterMap(S)[i] = <<>>
    BY <1>2, Zenon DEF CounterMap
  <1>4. \A y : y \in Range(FlatMap(CounterMap(S), is)) <=> \E x \in Range(is) : y \in Range(CounterMap(S)[x])
    BY <1>1, FlatMapRange
  <1>5. Range(<<>>) = {}
    BY DEF Range
  <1>6. \A y : y \notin Range(CounterCode(is))
    BY <1>1, <1>3, <1>4, <1>5
  <1>7. PICK v \in Seq(S) : v = CounterCode(is)
    BY <1>1
  <1>8. 1 \notin DOMAIN v
    BY <1>6, <1>7 DEF Range
  <1>9. v = <<>>
    BY <1>8
  <1>. QED  BY <1>7, <1>9

\* There is nothing else in what it adds itself.
LEMMA CounterAll ==
  ASSUME NEW S, NEW is \in Seq(S), \A i \in Range(is) : i.by = "dynamic-cc"
  PROVE  CounterCode(is) = is
  <1>1. /\ CounterMap(S) \in [S -> Seq(S)] /\ CounterCode(is) = FlatMap(CounterMap(S), is)
    BY CounterIs
  <1>2. \A i \in Range(is) : i \in S
    BY DEF Range
  <1>3. \A i \in Range(is) : CounterMap(S)[i] = <<i>>
    BY <1>2, Zenon DEF CounterMap
  <1>. QED  BY <1>1, <1>3, FlatMapKeeps

\* Its instructions stay in each block.
KeepsCounters(old, new) == DOMAIN new = DOMAIN old /\ \A b \in DOMAIN old : CounterCode(new[b]) = CounterCode(old[b])

CountersInFront(old, is, new) ==
  /\ DOMAIN new = DOMAIN old
  /\ CounterCode(new[1]) = CounterCode(is) \o CounterCode(old[1])
  /\ \A b \in DOMAIN old \ {1} : CounterCode(new[b]) = CounterCode(old[b])

\* What is added at the entry.
LEMMA CountersAtEntry ==
  ASSUME NEW S, NEW body \in BodiesOver(S), body # <<>>, NEW is \in Seq(S)
  PROVE  CountersInFront(body, is, AtEntry(body, is))
  <1>. DEFINE new == AtEntry(body, is)
  <1>1. /\ DOMAIN new = DOMAIN body /\ new[1] = is \o body[1]
        /\ \A b \in DOMAIN body \ {1} : new[b] = body[b]
    BY AtEntryOver
  <1>2. 1 \in DOMAIN body
    BY DEF BodiesOver
  <1>3. body[1] \in Seq(S)
    BY <1>2, BodyFacts, BlockFacts
  <1>4. CountersOfBoth(is, body[1])
    BY <1>3, CounterConcat
  <1>. HIDE DEF new
  <1>5. CounterCode(new[1]) = CounterCode(is) \o CounterCode(body[1])
    BY <1>1, <1>4, Zenon DEF CountersOfBoth
  <1>6. CountersInFront(body, is, new)
    BY <1>1, <1>5 DEF CountersInFront
  <1>. QED  BY <1>6 DEF new

\* Another pass leaves the counters where they are, at the entry.
LEMMA CountersKeptAtEntry ==
  ASSUME NEW S, NEW body \in BodiesOver(S), body # <<>>, NEW is \in Seq(S), \A i \in Range(is) : i.by # "dynamic-cc"
  PROVE  KeepsCounters(body, AtEntry(body, is))
  <1>. DEFINE new == AtEntry(body, is)
  <1>1. /\ DOMAIN new = DOMAIN body
        /\ CounterCode(new[1]) = CounterCode(is) \o CounterCode(body[1])
        /\ \A b \in DOMAIN body \ {1} : CounterCode(new[b]) = CounterCode(body[b])
    BY CountersAtEntry, Zenon DEF CountersInFront
  <1>2. CounterCode(is) = <<>>
    BY CounterNone
  <1>3. 1 \in DOMAIN body
    BY DEF BodiesOver
  <1>4. CounterCode(body[1]) \in Seq(S)
    BY <1>3, BodyFacts, BlockFacts, CounterIs
  <1>5. <<>> \o CounterCode(body[1]) = CounterCode(body[1])
    BY <1>4
  <1>. HIDE DEF new
  <1>6. KeepsCounters(body, new)
    BY <1>1, <1>2, <1>5 DEF KeepsCounters
  <1>. QED  BY <1>6 DEF new

\* and in front of returns.
LEMMA CountersBeforeReturns ==
  ASSUME NEW S, NEW body \in BodiesOver(S), NEW is \in Seq(S), \A i \in Range(is) : i.by # "dynamic-cc"
  PROVE  KeepsCounters(body, BeforeReturns(body, is))
  <1>. DEFINE new == BeforeReturns(body, is)
  <1>1. DOMAIN new = DOMAIN body
    BY BeforeReturnsOver
  <1>2. CounterCode(is) = <<>>
    BY CounterNone
  <1>3. ASSUME NEW b \in DOMAIN body PROVE CounterCode(new[b]) = CounterCode(body[b])
    <2>1. PICK p \in Seq(S) : \E x \in S :
             /\ EndsWith(body[b], p, x) /\ x = Last(body[b])
             /\ ReturnsAfter(new[b], p, is, x)
      BY BlockBeforeReturn
    <2>2. PICK x \in S : EndsWith(body[b], p, x) /\ ReturnsAfter(new[b], p, is, x)
      BY <2>1
    <2>. HIDE DEF new
    <2>3. CASE x.op = "ret"
      <3>1. body[b] = p \o <<x>> /\ new[b] = (p \o is) \o <<x>>
        BY <2>2, <2>3, Zenon DEF EndsWith, ReturnsAfter
      <3>2. /\ <<x>> \in Seq(S) /\ p \o is \in Seq(S)
        OBVIOUS
      <3>3. CountersOfBoth(p, <<x>>) /\ CountersOfBoth(p \o is, <<x>>) /\ CountersOfBoth(p, is)
        BY <3>2, CounterConcat
      <3>4. CounterCode(p) \in Seq(S)
        BY CounterIs
      <3>5. CounterCode(p) \o <<>> = CounterCode(p)
        BY <3>4
      <3>. QED  BY <1>2, <3>1, <3>3, <3>5, Zenon DEF CountersOfBoth
    <2>4. CASE x.op # "ret"
      BY <2>2, <2>4, Zenon DEF EndsWith, ReturnsAfter
    <2>. QED  BY <2>3, <2>4
  <1>. QED  BY <1>1, <1>3 DEF KeepsCounters

\* simplify erases the program's instructions and no others.
LEMMA CountersErased ==
  ASSUME NEW body, FormedBody(body), NEW b \in DOMAIN body, NEW k \in DOMAIN body[b], body[b][k].by = "user"
  PROVE  KeepsCounters(body, [body EXCEPT ![b] = RemoveAt(@, k)])
  <1>. DEFINE S == InstructionSet(body)
  <1>1. body \in BodiesOver(S)
    BY FormedElim
  <1>. HIDE DEF S
  <1>2. PICK block \in Seq(S) : block = body[b]
    BY <1>1, BodyFacts, BlockFacts
  <1>3. PICK less : less = RemoveAt(block, k)
    OBVIOUS
  <1>4. [body EXCEPT ![b] = RemoveAt(@, k)] = [body EXCEPT ![b] = less]
    BY <1>2, <1>3, Zenon
  <1>5. k \in 1 .. Len(block)
    BY <1>2
  <1>6. CounterCode(less) = CounterCode(block)
    <2>1. PICK p \in Seq(S) : \E q \in Seq(S) : CutIn(block, k, p, q)
      BY <1>5, CutAt
    <2>2. PICK q \in Seq(S) : CutIn(block, k, p, q)
      BY <2>1
    <2>3. PICK x \in S : x = block[k]
      BY <1>5
    <2>4. block = Append(p, x) \o q /\ less = p \o q
      BY <1>3, <2>2, <2>3, Zenon DEF CutIn
    <2>5. /\ <<x>> \in Seq(S) /\ Append(p, x) = p \o <<x>> /\ Append(p, x) \in Seq(S)
      BY AppendProperties, ConcatProperties
    <2>6. CountersOfBoth(p, <<x>>) /\ CountersOfBoth(Append(p, x), q) /\ CountersOfBoth(p, q)
      BY <2>5, CounterConcat
    <2>7. CounterCode(<<x>>) = <<>>
      <3>1. x.by # "dynamic-cc"
        BY <1>2, <2>3
      <3>. QED  BY <3>1, CounterOne, Zenon
    <2>8. CounterCode(p) \in Seq(S)
      BY CounterIs
    <2>9. CounterCode(p) \o <<>> = CounterCode(p)
      BY <2>8
    <2>. QED  BY <2>4, <2>5, <2>6, <2>7, <2>9, Zenon DEF CountersOfBoth
  <1>7. KeepsCounters(body, [body EXCEPT ![b] = less])
    BY <1>2, <1>6 DEF KeepsCounters
  <1>. QED  BY <1>4, <1>7

\* convert-fcmp-eq leaves the counters where they are.
LEMMA CountersConverted ==
  ASSUME NEW body, FormedBody(body)
  PROVE  KeepsCounters(body, FoldLeft(ConvertFCmpEqInstruction, body, FindFCmpEq(body)))
  <1>. DEFINE S == InstructionSet(body)
              D == Range(FindFCmpEq(body))
              M == Conversion(S, D)
              T == WithConverted(S)
              new == FoldLeft(ConvertFCmpEqInstruction, body, FindFCmpEq(body))
  <1>1. body \in BodiesOver(S) /\ Sound(S) /\ new = MapBlocks(M, body) /\ DOMAIN new = DOMAIN body
    BY FormedElim, FormedConverted
  <1>2. ComparisonsKnown(S) /\ \A i \in S : Known(i)
    BY <1>1, SoundKnowsComparisons DEF Sound
  <1>. HIDE DEF S, D, T, new
  <1>3. M \in [S -> BlocksOver(T)]
    BY <1>2, ConversionType DEF T
  <1>4. M \in [S -> Seq(T)]
    BY <1>3 DEF BlocksOver
  <1>5. ASSUME NEW i \in S PROVE FlatMap(CounterMap(T), M[i]) = CounterMap(S)[i]
    <2>1. CounterMap(S)[i] = IF i.by = "dynamic-cc" THEN <<i>> ELSE <<>>
      BY Zenon DEF CounterMap
    <2>2. CounterCode(M[i]) = FlatMap(CounterMap(T), M[i])
      BY <1>4, CounterIs
    <2>3. CASE IsEquality(i) /\ i.def \in D
      <3>1. M[i] = Converted(i)
        BY <2>3, Zenon DEF Conversion
      <3>2. i.by = "user" /\ IsInstr(i)
        BY <1>2, <2>3 DEF Known, IsEquality
      <3>3. \A j \in Range(M[i]) : MadeFrom(i, j) \/ TheSameBut(i, j)
        BY <3>1, <3>2, ConvertedBlock
      <3>4. \A j \in Range(M[i]) : j.by # "dynamic-cc"
        BY <3>2, <3>3 DEF MadeFrom, TheSameBut
      <3>5. CounterCode(M[i]) = <<>>
        <4>1. M[i] \in Seq(T)
          BY <1>4
        <4>. HIDE DEF M
        <4>. QED  BY <3>4, <4>1, CounterNone
      <3>. QED  BY <2>1, <2>2, <3>2, <3>5
    <2>4. CASE ~(IsEquality(i) /\ i.def \in D)
      <3>1. M[i] = <<i>>
        BY <2>4, Zenon DEF Conversion
      <3>2. CounterCode(<<i>>) = IF i.by = "dynamic-cc" THEN <<i>> ELSE <<>>
        BY CounterOne
      <3>. QED  BY <2>1, <2>2, <3>1, <3>2, Zenon
    <2>. QED  BY <2>3, <2>4
  <1>. HIDE DEF M
  <1>6. Composed(S, M, CounterMap(T), CounterMap(S))
    <2>1. /\ CounterMap(T) \in [T -> Seq(T)] /\ CounterMap(S) \in [S -> Seq(S)]
          /\ S \subseteq T
      BY CounterIs DEF WithConverted, T
    <2>2. CounterMap(S) \in [S -> Seq(T)]
      <3>1. Seq(S) \subseteq Seq(T)
        BY <2>1, BlocksGrow
      <3>. QED  BY <2>1, <3>1
    <2>3. PICK N, K : /\ N = CounterMap(T) /\ K = CounterMap(S)
                      /\ N \in [T -> Seq(T)] /\ K \in [S -> Seq(T)]
      BY <2>1, <2>2
    <2>4. \A x \in S : FlatMap(N, M[x]) = K[x]
      BY <1>5, <2>3
    <2>5. Composed(S, M, N, K)
      BY <1>4, <2>3, <2>4, FlatMapsCompose
    <2>. QED  BY <2>3, <2>5
  <1>7. ASSUME NEW b \in DOMAIN body PROVE CounterCode(new[b]) = CounterCode(body[b])
    <2>1. body[b] \in Seq(S)
      BY <1>1, BodyFacts, BlockFacts
    <2>2. new[b] = FlatMap(M, body[b])
      BY <1>1, <1>3, MapBlocksOver
    <2>3. CounterCode(new[b]) = FlatMap(CounterMap(T), FlatMap(M, body[b]))
      <3>1. FlatMap(M, body[b]) \in Seq(T)
        BY <1>4, <2>1, FlatMapType
      <3>2. new[b] \in Seq(T)
        BY <2>2, <3>1
      <3>3. CounterCode(new[b]) = FlatMap(CounterMap(T), new[b])
        BY <3>2, CounterIs
      <3>. QED  BY <2>2, <3>3
    <2>4. CounterCode(body[b]) = FlatMap(CounterMap(S), body[b])
      BY <2>1, CounterIs
    <2>. QED  BY <1>6, <2>1, <2>3, <2>4, Zenon DEF Composed
  <1>8. KeepsCounters(body, new)
    BY <1>1, <1>7 DEF KeepsCounters
  <1>. QED  BY <1>8 DEF new

\* A body that a pass other than dynamic-cc has changed, or none.
Otherwise(f) == code'[f] = code[f] \/ Greeted(f) \/ ReturnLogged(f) \/ Rewritten(f) \/ Shortened(f)

\* It keeps the counters.
LEMMA OthersKeepCounters ==
  ASSUME FormedBodies, NEW f \in FunctionNames, Otherwise(f)
  PROVE  KeepsCounters(code[f], code'[f])
  <1>1. PICK body : body = code[f]
    OBVIOUS
  <1>2. FormedBody(body)
    BY <1>1 DEF FormedBodies
  <1>3. PICK hello, goodbye, log : hello = Hello(f) /\ goodbye = Goodbye(f) /\ log = LogCall(f)
    OBVIOUS
  <1>4. hello.by # "dynamic-cc" /\ goodbye.by # "dynamic-cc" /\ log.by # "dynamic-cc"
    BY <1>3 DEF Hello, Goodbye, LogCall, Call, Instr
  <1>5. \A x : Range(<<x>>) = {x}
    BY DEF Range
  <1>13. /\ \A i \in Range(<<hello>>) : i.by # "dynamic-cc"
         /\ \A i \in Range(<<goodbye>>) : i.by # "dynamic-cc"
         /\ \A i \in Range(<<log>>) : i.by # "dynamic-cc"
    BY <1>4, <1>5
  <1>. DEFINE S == InstructionSet(body) \cup {hello, goodbye, log}
  <1>6. <<hello>> \in Seq(S) /\ <<goodbye>> \in Seq(S) /\ <<log>> \in Seq(S)
    OBVIOUS
  <1>7. body \in BodiesOver(S)
    BY <1>2, FormedElim, BodiesGrow
  <1>. HIDE DEF S
  <1>8. CASE Greeted(f)
    <2>1. PICK mid : mid = AtEntry(body, <<hello>>)
      OBVIOUS
    <2>2. body # <<>> /\ code'[f] = BeforeReturns(mid, <<goodbye>>)
      BY <1>1, <1>3, <1>8, <2>1, Zenon DEF Greeted, Defined, LoggingReturn
    <2>3. mid \in BodiesOver(S)
      BY <1>6, <1>7, <2>1, <2>2, AtEntryOver
    <2>4. KeepsCounters(body, mid)
      BY <1>6, <1>7, <1>13, <2>1, <2>2, CountersKeptAtEntry
    <2>5. KeepsCounters(mid, code'[f])
      BY <1>6, <1>13, <2>2, <2>3, CountersBeforeReturns
    <2>. QED  BY <1>1, <2>4, <2>5 DEF KeepsCounters
  <1>9. CASE ReturnLogged(f)
    <2>1. code'[f] = BeforeReturns(body, <<log>>)
      BY <1>1, <1>3, <1>9, Zenon DEF ReturnLogged
    <2>. QED  BY <1>1, <1>6, <1>7, <1>13, <2>1, CountersBeforeReturns
  <1>10. CASE Rewritten(f)
    BY <1>1, <1>2, <1>10, CountersConverted, Zenon DEF Rewritten
  <1>11. CASE Shortened(f)
    <2>1. PICK b \in DOMAIN body : \E k \in Erasable(f, b) : code'[f] = [body EXCEPT ![b] = RemoveAt(@, k)]
      BY <1>1, <1>11 DEF Shortened
    <2>2. PICK k \in Erasable(f, b) : code'[f] = [body EXCEPT ![b] = RemoveAt(@, k)]
      BY <2>1
    <2>3. k \in DOMAIN body[b] /\ body[b][k].by = "user"
      BY <1>1 DEF Erasable
    <2>4. KeepsCounters(body, [body EXCEPT ![b] = RemoveAt(@, k)])
      BY <1>2, <2>1, <2>3, CountersErased
    <2>. QED  BY <1>1, <2>2, <2>4
  <1>12. CASE code'[f] = code[f]
    BY <1>12 DEF KeepsCounters
  <1>. QED  BY <1>8, <1>9, <1>10, <1>11, <1>12 DEF Otherwise

\* dynamic-cc adds a load, an addition and a store at the entry.
LEMMA CountedAddsTriple ==
  ASSUME FormedBodies, NEW f \in FunctionNames, Defined(f)
  PROVE  LET body == code[f]
             new == Counted(f)
         IN  /\ DOMAIN new = DOMAIN body
             /\ CounterCode(new[1]) = Increment(f, body) \o CounterCode(body[1])
             /\ \A b \in DOMAIN body \ {1} : CounterCode(new[b]) = CounterCode(body[b])
  <1>1. PICK body : body = code[f]
    OBVIOUS
  <1>2. FormedBody(body) /\ body # <<>>
    BY <1>1 DEF FormedBodies, Defined
  <1>3. PICK is : is = Increment(f, body)
    OBVIOUS
  <1>4. \A i \in Range(is) : i.by = "dynamic-cc"
    BY <1>3 DEF Increment, CounterAccess, Plain, Instr, Range
  <1>5. is \in Seq(Range(is))
    BY <1>3 DEF Increment, Range
  <1>. DEFINE S == InstructionSet(body) \cup Range(is)
  <1>6. body \in BodiesOver(S) /\ is \in Seq(S)
    <2>1. body \in BodiesOver(InstructionSet(body))
      BY <1>2, FormedElim
    <2>. QED  BY <1>5, <2>1, BodiesGrow, BlocksGrow
  <1>. HIDE DEF S
  <1>7. CounterCode(is) = is
    BY <1>4, <1>6, CounterAll
  <1>8. PICK new : new = AtEntry(body, is)
    OBVIOUS
  <1>9. /\ DOMAIN new = DOMAIN body
        /\ CounterCode(new[1]) = CounterCode(is) \o CounterCode(body[1])
        /\ \A b \in DOMAIN body \ {1} : CounterCode(new[b]) = CounterCode(body[b])
    <2>1. CountersInFront(body, is, AtEntry(body, is))
      BY <1>2, <1>6, CountersAtEntry
    <2>. QED  BY <1>8, <2>1, Zenon DEF CountersInFront
  <1>10. Counted(f) = new
    BY <1>1, <1>3, <1>8, Zenon DEF Counted
  <1>. QED  BY <1>1, <1>3, <1>7, <1>9, <1>10, Zenon

\* What instructions leave of a state of the counters.
Run(m, is) == FoldLeft(CountStep, m, is)

\* c holds the states, after each of the instructions.
IsRun(c, m, is) ==
  /\ DOMAIN c = 0 .. Len(is)
  /\ c[0] = m
  /\ \A n \in 1 .. Len(is) : c[n] = CountStep(c[n - 1], is[n])

StatesOf(m, is, N, g) ==
  g = [s \in SUBSET (1 .. N) |-> IF s = {} THEN m ELSE CountStep(g[s \ {Max(s)}], is[Max(s)])]

\* Instructions executed one by one are a chain of states.
LEMMA StatesExist ==
  ASSUME NEW m, NEW is
  PROVE  \A N \in Nat : \E g : StatesOf(m, is, N, g)
  <1>. DEFINE D == {N \in Nat : \E g : StatesOf(m, is, N, g)}
  <1>1. 0 \in D
    <2>. DEFINE g == [s \in SUBSET (1 .. 0) |-> m]
    <2>1. \A s \in SUBSET (1 .. 0) : s = {}
      OBVIOUS
    <2>2. StatesOf(m, is, 0, g)
      BY <2>1 DEF StatesOf
    <2>. QED  BY <2>2
  <1>2. ASSUME NEW N \in Nat, N \in D PROVE N + 1 \in D
    <2>1. PICK g : StatesOf(m, is, N, g)
      BY <1>2
    <2>. DEFINE Below == SUBSET (1 .. N)
                All == SUBSET (1 .. N + 1)
                h == [s \in All |-> IF N + 1 \in s THEN CountStep(g[s \ {N + 1}], is[N + 1]) ELSE g[s]]
    <2>2. ASSUME NEW s \in All
          PROVE  h[s] = IF s = {} THEN m ELSE CountStep(h[s \ {Max(s)}], is[Max(s)])
      <3>1. CASE N + 1 \in s
        <4>1. Max(s) = N + 1
          BY <3>1, MaxOf
        <4>2. s \ {N + 1} \in All /\ N + 1 \notin s \ {N + 1}
          OBVIOUS
        <4>3. h[s \ {N + 1}] = g[s \ {N + 1}]
          BY <4>2
        <4>. QED  BY <3>1, <4>1, <4>3
      <3>2. CASE N + 1 \notin s
        <4>1. s \in Below
          BY <3>2
        <4>2. g[s] = IF s = {} THEN m ELSE CountStep(g[s \ {Max(s)}], is[Max(s)])
          BY <2>1, <4>1, Zenon DEF StatesOf
        <4>3. s \ {Max(s)} \in All /\ N + 1 \notin s \ {Max(s)}
          BY <3>2
        <4>4. h[s] = g[s] /\ h[s \ {Max(s)}] = g[s \ {Max(s)}]
          BY <3>2, <4>3
        <4>. HIDE DEF h
        <4>. QED  BY <4>2, <4>4
      <3>. QED  BY <3>1, <3>2
    <2>3. StatesOf(m, is, N + 1, h)
      BY <2>2, Zenon DEF StatesOf
    <2>. QED  BY <2>3
  <1>. HIDE DEF D
  <1>3. Nat \subseteq D
    BY <1>1, <1>2, Induction
  <1>. QED  BY <1>3 DEF D

\* The fold is the end of such a chain.
LEMMA RunExists ==
  ASSUME NEW S, NEW is \in Seq(S), NEW m
  PROVE  \E c : IsRun(c, m, is) /\ Run(m, is) = c[Len(is)]
  <1>. DEFINE N == Len(is)
              f == CHOOSE g : StatesOf(m, is, N, g)
  <1>1. N \in Nat /\ DOMAIN is = 1 .. N
    OBVIOUS
  <1>2. StatesOf(m, is, N, f)
    BY <1>1, StatesExist
  <1>3. Run(m, is) = f[1 .. N]
    BY <1>1 DEF Run, FoldLeft, MapThenFoldSet, StatesOf
  <1>. HIDE DEF f
  <1>. DEFINE c == [n \in 0 .. N |-> f[1 .. n]]
  <1>4. c[0] = m
    <2>1. 1 .. 0 = {} /\ 1 .. 0 \in SUBSET (1 .. N)
      OBVIOUS
    <2>. QED  BY <1>1, <1>2, <2>1 DEF StatesOf
  <1>5. ASSUME NEW n \in 1 .. N PROVE c[n] = CountStep(c[n - 1], is[n])
    <2>1. 1 .. n \in SUBSET (1 .. N) /\ 1 .. n # {} /\ (1 .. n) \ {n} = 1 .. n - 1 /\ Max(1 .. n) = n
      BY <1>1, FirstNumbers
    <2>3. f[1 .. n] = CountStep(f[1 .. n - 1], is[n])
      BY <1>2, <2>1 DEF StatesOf
    <2>4. c[n] = f[1 .. n] /\ c[n - 1] = f[1 .. n - 1]
      BY <1>1
    <2>. QED  BY <2>3, <2>4
  <1>. HIDE DEF f
  <1>6. IsRun(c, m, is)
    BY <1>4, <1>5 DEF IsRun
  <1>7. Run(m, is) = c[N]
    BY <1>1, <1>3
  <1>. QED  BY <1>6, <1>7

\* There is one such chain, and it is that of a longer list up to there.
LEMMA RunIsOne ==
  ASSUME NEW m, NEW is, NEW js, NEW c, IsRun(c, m, is), NEW d, IsRun(d, m, js),
         Len(is) \in Nat, Len(js) \in Nat, Len(is) <= Len(js), \A n \in 1 .. Len(is) : is[n] = js[n]
  PROVE  \A n \in 0 .. Len(is) : c[n] = d[n]
  <1>. DEFINE D == {n \in Nat : n \in 0 .. Len(is) => c[n] = d[n]}
  <1>1. 0 \in D
    BY DEF IsRun
  <1>2. ASSUME NEW n \in Nat, n \in D PROVE n + 1 \in D
    <2>. SUFFICES ASSUME n + 1 \in 0 .. Len(is) PROVE c[n + 1] = d[n + 1]
      OBVIOUS
    <2>1. n \in 0 .. Len(is) /\ n + 1 \in 1 .. Len(is) /\ n + 1 \in 1 .. Len(js) /\ (n + 1) - 1 = n
      OBVIOUS
    <2>2. c[n] = d[n]
      BY <1>2, <2>1
    <2>3. c[n + 1] = CountStep(c[n], is[n + 1]) /\ d[n + 1] = CountStep(d[n], js[n + 1])
      BY <2>1 DEF IsRun
    <2>. QED  BY <2>1, <2>2, <2>3
  <1>. HIDE DEF D
  <1>3. Nat \subseteq D
    BY <1>1, <1>2, Induction
  <1>. QED  BY <1>3 DEF D

\* Nothing executed.
LEMMA RunEmpty ==
  ASSUME NEW m
  PROVE  Run(m, <<>>) = m
  <1>1. <<>> \in Seq({}) /\ Len(<<>>) = 0
    OBVIOUS
  <1>2. PICK c : IsRun(c, m, <<>>) /\ Run(m, <<>>) = c[Len(<<>>)]
    BY <1>1, RunExists
  <1>. QED  BY <1>1, <1>2 DEF IsRun

RunsOneMore(m, s, x) == Run(m, Append(s, x)) = CountStep(Run(m, s), x)

\* One instruction more.
LEMMA RunAppend ==
  ASSUME NEW S, NEW s \in Seq(S), NEW x \in S, NEW m
  PROVE  RunsOneMore(m, s, x)
  <1>1. /\ Append(s, x) \in Seq(S) /\ Len(Append(s, x)) = Len(s) + 1 /\ Len(s) \in Nat
        /\ \A n \in 1 .. Len(s) : Append(s, x)[n] = s[n]
        /\ Append(s, x)[Len(s) + 1] = x
    BY AppendProperties
  <1>2. PICK t \in Seq(S) : t = Append(s, x)
    BY <1>1
  <1>3. PICK c : IsRun(c, m, s) /\ Run(m, s) = c[Len(s)]
    BY RunExists
  <1>4. PICK d : IsRun(d, m, t) /\ Run(m, t) = d[Len(t)]
    BY RunExists
  <1>5. Len(t) = Len(s) + 1 /\ t[Len(s) + 1] = x /\ \A n \in 1 .. Len(s) : s[n] = t[n]
    BY <1>1, <1>2
  <1>6. c[Len(s)] = d[Len(s)]
    BY <1>1, <1>3, <1>4, <1>5, RunIsOne
  <1>7. d[Len(s) + 1] = CountStep(d[Len(s)], x)
    <2>1. Len(s) + 1 \in 1 .. Len(t) /\ (Len(s) + 1) - 1 = Len(s)
      BY <1>1, <1>5
    <2>. QED  BY <1>4, <1>5, <2>1 DEF IsRun
  <1>8. Run(m, t) = CountStep(Run(m, s), x)
    BY <1>3, <1>4, <1>5, <1>6, <1>7
  <1>. QED  BY <1>2, <1>8 DEF RunsOneMore

RunsBoth(m, a, b) == Run(m, a \o b) = Run(Run(m, a), b)

\* One list after another.
LEMMA RunConcat ==
  ASSUME NEW S, NEW a \in Seq(S), NEW m
  PROVE  \A b \in Seq(S) : RunsBoth(m, a, b)
  <1>. DEFINE D == {b \in Seq(S) : RunsBoth(m, a, b)}
  <1>1. <<>> \in D
    <2>1. a \o <<>> = a /\ <<>> \in Seq(S)
      OBVIOUS
    <2>. QED  BY <2>1, RunEmpty DEF RunsBoth
  <1>2. ASSUME NEW s \in Seq(S), NEW x \in S, s \in D PROVE Append(s, x) \in D
    <2>1. Append(s, x) \in Seq(S)
      BY AppendProperties
    <2>2. a \o s \in Seq(S)
      OBVIOUS
    <2>3. a \o Append(s, x) = Append(a \o s, x)
      OBVIOUS
    <2>4. RunsOneMore(m, a \o s, x) /\ RunsOneMore(Run(m, a), s, x) /\ RunsBoth(m, a, s)
      BY <1>2, <2>2, RunAppend
    <2>5. Run(m, a \o Append(s, x)) = Run(Run(m, a), Append(s, x))
      BY <2>3, <2>4, Zenon DEF RunsOneMore, RunsBoth
    <2>. QED  BY <2>1, <2>5 DEF RunsBoth
  <1>. HIDE DEF D
  <1>3. Seq(S) \subseteq D
    BY <1>1, <1>2, ListInduction
  <1>. QED  BY <1>3 DEF D

RunsCounters(m, is) == Run(m, is) = Run(m, CounterCode(is))

\* Only what dynamic-cc has put there moves the counters.
LEMMA RunCounters ==
  ASSUME NEW S, NEW m
  PROVE  \A is \in Seq(S) : RunsCounters(m, is)
  <1>. DEFINE D == {is \in Seq(S) : RunsCounters(m, is)}
  <1>1. <<>> \in D
    <2>1. CounterCode(<<>>) = <<>>
      <3>1. <<>> \in Seq({}) /\ \A i \in Range(<<>>) : i.by # "dynamic-cc"
        BY DEF Range
      <3>. QED  BY <3>1, CounterNone
    <2>. QED  BY <2>1 DEF RunsCounters
  <1>2. ASSUME NEW s \in Seq(S), NEW x \in S, s \in D PROVE Append(s, x) \in D
    <2>1. Append(s, x) \in Seq(S) /\ Append(s, x) = s \o <<x>> /\ <<x>> \in Seq(S)
      BY AppendProperties, ConcatProperties
    <2>2. CounterCode(s) \in Seq(S)
      BY CounterIs
    <2>3. PICK t \in Seq(S) : t = CounterCode(s)
      BY <2>2
    <2>4. CounterCode(Append(s, x)) = t \o CounterCode(<<x>>)
      <3>1. CountersOfBoth(s, <<x>>)
        BY <2>1, CounterConcat
      <3>. QED  BY <2>1, <2>3, <3>1, Zenon DEF CountersOfBoth
    <2>5. Run(m, Append(s, x)) = CountStep(Run(m, t), x)
      <3>1. RunsOneMore(m, s, x)
        BY RunAppend
      <3>. QED  BY <1>2, <2>3, <3>1, Zenon DEF RunsOneMore, RunsCounters
    <2>6. CASE x.by = "dynamic-cc"
      <3>1. CounterCode(<<x>>) = <<x>>
        BY <2>6, CounterOne
      <3>2. t \o <<x>> = Append(t, x)
        OBVIOUS
      <3>3. RunsOneMore(m, t, x)
        BY RunAppend
      <3>4. Run(m, CounterCode(Append(s, x))) = CountStep(Run(m, t), x)
        BY <2>4, <3>1, <3>2, <3>3, Zenon DEF RunsOneMore
      <3>. QED  BY <2>1, <2>5, <3>4 DEF RunsCounters
    <2>7. CASE x.by # "dynamic-cc"
      <3>1. CounterCode(<<x>>) = <<>>
        BY <2>7, CounterOne
      <3>2. t \o <<>> = t
        OBVIOUS
      <3>3. CountStep(Run(m, t), x) = Run(m, t)
        BY <2>7 DEF CountStep
      <3>. QED  BY <2>1, <2>4, <2>5, <3>1, <3>2, <3>3 DEF RunsCounters
    <2>. QED  BY <2>6, <2>7
  <1>. HIDE DEF D
  <1>3. Seq(S) \subseteq D
    BY <1>1, <1>2, ListInduction
  <1>. QED  BY <1>3 DEF D

\* A state of the counters, of which each is a number.
IsMachine(m) == m = [mem |-> m.mem, reg |-> m.reg] /\ m.mem \in [FunctionNames -> Nat]

\* Instructions that add n to the counter of f, and change no other.
Adds(is, f, n) ==
  \A m : IsMachine(m) => LET r == Run(m, is)
                         IN  IsMachine(r) /\ r.mem = [m.mem EXCEPT ![f] = @ + n]

\* None add nothing.
LEMMA NoneAdds ==
  ASSUME NEW f
  PROVE  Adds(<<>>, f, 0)
  <1>. SUFFICES ASSUME NEW m, IsMachine(m) PROVE m.mem = [m.mem EXCEPT ![f] = @ + 0]
    BY RunEmpty DEF Adds
  <1>. QED  BY DEF IsMachine

\* One list and another add the sum.
LEMMA AddsBoth ==
  ASSUME NEW S, NEW a \in Seq(S), NEW b \in Seq(S), NEW f \in FunctionNames, NEW i \in Nat, NEW j \in Nat,
         Adds(a, f, i), Adds(b, f, j)
  PROVE  Adds(a \o b, f, i + j)
  <1>. SUFFICES ASSUME NEW m, IsMachine(m)
                PROVE  LET r == Run(m, a \o b)
                       IN  IsMachine(r) /\ r.mem = [m.mem EXCEPT ![f] = @ + (i + j)]
    BY DEF Adds
  <1>1. PICK q : q = Run(m, a)
    OBVIOUS
  <1>2. PICK r : r = Run(q, b)
    OBVIOUS
  <1>3. Run(m, a \o b) = r
    <2>1. RunsBoth(m, a, b)
      BY RunConcat
    <2>. QED  BY <1>1, <1>2, <2>1, Zenon DEF RunsBoth
  <1>4. IsMachine(q) /\ q.mem = [m.mem EXCEPT ![f] = @ + i]
    BY <1>1 DEF Adds
  <1>5. IsMachine(r) /\ r.mem = [q.mem EXCEPT ![f] = @ + j]
    BY <1>2, <1>4 DEF Adds
  <1>6. r.mem = [m.mem EXCEPT ![f] = @ + (i + j)]
    <2>1. PICK u, v, w : u = m.mem /\ v = q.mem /\ w = r.mem
      OBVIOUS
    <2>2. u \in [FunctionNames -> Nat] /\ v = [u EXCEPT ![f] = @ + i] /\ w = [v EXCEPT ![f] = @ + j]
      BY <1>4, <1>5, <2>1 DEF IsMachine
    <2>3. u[f] \in Nat /\ v[f] = u[f] + i /\ (u[f] + i) + j = u[f] + (i + j)
      BY <2>2
    <2>4. \A g \in FunctionNames : w[g] = IF g = f THEN u[f] + (i + j) ELSE u[g]
      BY <2>2, <2>3
    <2>5. w = [u EXCEPT ![f] = @ + (i + j)]
      BY <2>2, <2>4
    <2>. QED  BY <2>1, <2>5
  <1>. QED  BY <1>3, <1>5, <1>6

\* The load, the addition and the store add one, whatever the state.
LEMMA TripleAdds ==
  ASSUME NEW f \in FunctionNames, NEW body
  PROVE  Adds(Increment(f, body), f, 1)
  <1>. SUFFICES ASSUME NEW m, IsMachine(m)
                PROVE  LET r == Run(m, Increment(f, body))
                       IN  IsMachine(r) /\ r.mem = [m.mem EXCEPT ![f] = @ + 1]
    BY DEF Adds
  <1>1. PICK v, w : v = Loaded(f, body) /\ w = Added(f, body)
    OBVIOUS
  <1>2. PICK x, y, z : /\ x = CounterAccess("load", v, <<>>, f)
                       /\ y = Plain("add", w, <<Constant("1", "i32"), v>>, "dynamic-cc")
                       /\ z = CounterAccess("store", NoValue, <<w>>, f)
    OBVIOUS
  <1>3. Increment(f, body) = <<x, y, z>>
    BY <1>1, <1>2 DEF Increment
  <1>4. /\ x.by = "dynamic-cc" /\ x.op = "load" /\ x.def = v /\ x.fn = f
        /\ y.by = "dynamic-cc" /\ y.op = "add" /\ y.def = w /\ y.args[2] = v
        /\ z.by = "dynamic-cc" /\ z.op = "store" /\ z.fn = f /\ z.args[1] = w
    BY <1>2 DEF CounterAccess, Plain, Instr
  <1>. DEFINE S == {x, y, z}
  <1>5. Run(m, <<x, y, z>>) = CountStep(CountStep(CountStep(m, x), y), z)
    <2>1. PICK is : is = <<x, y, z>>
      OBVIOUS
    <2>2. is \in Seq(S) /\ Len(is) = 3 /\ is[1] = x /\ is[2] = y /\ is[3] = z
      BY <2>1
    <2>. HIDE DEF S
    <2>3. PICK c : IsRun(c, m, is) /\ Run(m, is) = c[3]
      BY <2>2, RunExists
    <2>4. c[0] = m /\ c[1] = CountStep(c[0], x) /\ c[2] = CountStep(c[1], y) /\ c[3] = CountStep(c[2], z)
      <3>1. 1 \in 1 .. 3 /\ 2 \in 1 .. 3 /\ 3 \in 1 .. 3 /\ 1 - 1 = 0 /\ 2 - 1 = 1 /\ 3 - 1 = 2
        OBVIOUS
      <3>. QED  BY <2>2, <2>3, <3>1 DEF IsRun
    <2>. QED  BY <2>1, <2>3, <2>4
  <1>6. \A map, key, value : Put(map, key, value)[key] = value
    BY DEF Put
  <1>7. PICK R : R = Put(m.reg, v, m.mem[f])
    OBVIOUS
  <1>8. CountStep(m, x) = [mem |-> m.mem, reg |-> R]
    <2>1. CountStep(m, x) = [m EXCEPT !.reg = Put(@, x.def, m.mem[x.fn])]
      BY <1>4 DEF CountStep
    <2>2. [m EXCEPT !.reg = Put(@, x.def, m.mem[x.fn])] = [m EXCEPT !.reg = R]
      BY <1>4, <1>7, Zenon
    <2>3. [m EXCEPT !.reg = R] = [mem |-> m.mem, reg |-> R]
      BY DEF IsMachine
    <2>. QED  BY <2>1, <2>2, <2>3
  <1>9. PICK n : n = [mem |-> m.mem, reg |-> R]
    OBVIOUS
  <1>10. R[v] = m.mem[f]
    BY <1>6, <1>7
  <1>11. PICK Q : Q = Put(R, w, R[v] + 1)
    OBVIOUS
  <1>12. CountStep(n, y) = [mem |-> m.mem, reg |-> Q]
    <2>1. CountStep(n, y) = [n EXCEPT !.reg = Put(@, y.def, n.reg[y.args[2]] + 1)]
      BY <1>4 DEF CountStep
    <2>2. n.reg = R /\ n.mem = m.mem
      BY <1>9
    <2>3. [n EXCEPT !.reg = Put(@, y.def, n.reg[y.args[2]] + 1)] = [n EXCEPT !.reg = Q]
      BY <1>4, <1>11, <2>2, Zenon
    <2>4. [n EXCEPT !.reg = Q] = [mem |-> m.mem, reg |-> Q]
      BY <1>9
    <2>. QED  BY <2>1, <2>3, <2>4
  <1>13. PICK o : o = [mem |-> m.mem, reg |-> Q]
    OBVIOUS
  <1>14. Q[w] = m.mem[f] + 1
    BY <1>6, <1>10, <1>11
  <1>15. CountStep(o, z) = [mem |-> [m.mem EXCEPT ![f] = m.mem[f] + 1], reg |-> Q]
    <2>1. CountStep(o, z) = [o EXCEPT !.mem[z.fn] = o.reg[z.args[1]]]
      BY <1>4 DEF CountStep
    <2>2. o.reg = Q /\ o.mem = m.mem
      BY <1>13
    <2>3. o.reg[z.args[1]] = m.mem[f] + 1
      BY <1>4, <1>14, <2>2
    <2>4. [o EXCEPT !.mem[z.fn] = o.reg[z.args[1]]] = [o EXCEPT !.mem[f] = m.mem[f] + 1]
      BY <1>4, <2>3
    <2>5. [o EXCEPT !.mem[f] = m.mem[f] + 1] = [mem |-> [m.mem EXCEPT ![f] = m.mem[f] + 1], reg |-> Q]
      BY <1>13
    <2>. QED  BY <2>1, <2>4, <2>5
  <1>16. Run(m, Increment(f, body)) = [mem |-> [m.mem EXCEPT ![f] = m.mem[f] + 1], reg |-> Q]
    BY <1>3, <1>5, <1>8, <1>9, <1>12, <1>13, <1>15
  <1>17. PICK r : r = Run(m, Increment(f, body))
    OBVIOUS
  <1>18. r.mem = [m.mem EXCEPT ![f] = m.mem[f] + 1] /\ r.reg = Q /\ r = [mem |-> r.mem, reg |-> r.reg]
    BY <1>16, <1>17
  <1>19. m.mem \in [FunctionNames -> Nat]
    BY DEF IsMachine
  <1>20. r.mem \in [FunctionNames -> Nat] /\ r.mem = [m.mem EXCEPT ![f] = @ + 1]
    <2>1. PICK u : u = m.mem
      OBVIOUS
    <2>2. u \in [FunctionNames -> Nat] /\ r.mem = [u EXCEPT ![f] = u[f] + 1]
      BY <1>18, <1>19, <2>1
    <2>3. r.mem \in [FunctionNames -> Nat] /\ r.mem = [u EXCEPT ![f] = @ + 1]
      BY <2>2
    <2>. QED  BY <2>1, <2>3
  <1>. QED  BY <1>17, <1>18, <1>20 DEF IsMachine

\* The lines on f that instructions print.
Lines(is, f) == Cardinality({k \in DOMAIN is : IsLineOn(is[k], f)})
LinesAmong(S, f) == {i \in S : IsLineOn(i, f)}

\* They are the instructions of a set.
LEMMA LinesCounted ==
  ASSUME NEW S, NEW is \in Seq(S), NEW f
  PROVE  Lines(is, f) = Count(is, LinesAmong(S, f))
  <1>1. \A k \in DOMAIN is : is[k] \in S
    OBVIOUS
  <1>2. {k \in DOMAIN is : IsLineOn(is[k], f)} = PlacesIn(is, LinesAmong(S, f))
    BY <1>1, Zenon DEF PlacesIn, LinesAmong
  <1>. QED  BY <1>2, Zenon DEF Lines, Count

LinesOfBoth(a, b, f) == Lines(a \o b, f) = Lines(a, f) + Lines(b, f)

\* Two lists print the lines of each.
LEMMA LinesConcat ==
  ASSUME NEW S, NEW a \in Seq(S), NEW b \in Seq(S), NEW f
  PROVE  LinesOfBoth(a, b, f)
  <1>1. PICK P : P = LinesAmong(S, f)
    OBVIOUS
  <1>2. a \o b \in Seq(S)
    OBVIOUS
  <1>3. Lines(a, f) = Count(a, P) /\ Lines(b, f) = Count(b, P) /\ Lines(a \o b, f) = Count(a \o b, P)
    BY <1>1, <1>2, LinesCounted
  <1>4. Count(a \o b, P) = Count(a, P) + Count(b, P)
    BY CountConcat
  <1>. QED  BY <1>3, <1>4 DEF LinesOfBoth

\* All that prints a line is put there by dynamic-cc.
LEMMA LinesOfCounters ==
  ASSUME NEW S, NEW is \in Seq(S), NEW f
  PROVE  Lines(CounterCode(is), f) = Lines(is, f)
  <1>1. PICK P : P = LinesAmong(S, f)
    OBVIOUS
  <1>2. \A x \in P : x \in S /\ x.by = "dynamic-cc"
    BY <1>1, Zenon DEF LinesAmong, IsLineOn
  <1>3. CounterMap(S) \in [S -> Seq(S)] /\ CounterCode(is) = FlatMap(CounterMap(S), is) /\ CounterCode(is) \in Seq(S)
    BY CounterIs
  <1>4. Selects(S, CounterMap(S), P, P)
    <2>1. ASSUME NEW x \in S PROVE Count(CounterMap(S)[x], P) = IF x \in P THEN 1 ELSE 0
      <3>1. CounterMap(S)[x] = IF x.by = "dynamic-cc" THEN <<x>> ELSE <<>>
        BY Zenon DEF CounterMap
      <3>2. Count(<<x>>, P) = IF x \in P THEN 1 ELSE 0
        BY CountOfOne
      <3>3. Count(<<>>, P) = 0
        BY CountEmpty
      <3>. QED  BY <1>2, <3>1, <3>2, <3>3
    <2>. QED  BY <2>1, Zenon DEF Selects
  <1>5. CountsAlike(S, CounterMap(S), P, P)
    BY <1>3, <1>4, CountsOfMap
  <1>6. Count(CounterCode(is), P) = Count(is, P)
    BY <1>3, <1>5, Zenon DEF CountsAlike
  <1>. QED  BY <1>1, <1>3, <1>6, LinesCounted

\* Nothing printed.
LEMMA LinesNone ==
  ASSUME NEW S, NEW is \in Seq(S), NEW f, \A i \in Range(is) : ~IsLineOn(i, f)
  PROVE  Lines(is, f) = 0
  <1>1. \A i \in Range(is) : i \notin LinesAmong(S, f)
    BY DEF LinesAmong
  <1>. QED  BY <1>1, LinesCounted, CountNone

\* A report line on g is one on g only.
LEMMA ReportLineIs ==
  ASSUME NEW g, NEW body, NEW f
  PROVE  /\ ReportLine(g, body) \in Seq(Range(ReportLine(g, body)))
         /\ Lines(ReportLine(g, body), f) = IF g = f THEN 1 ELSE 0
  <1>1. PICK x, y : ReportLine(g, body) = <<x, y>> /\ ~IsLineOn(x, f) /\ (IsLineOn(y, f) <=> g = f)
    <2>1. PICK count : count = Value(<<"count", g, ToString(Len(body))>>, "i32")
      OBVIOUS
    <2>2. PICK x, y : /\ x = CounterAccess("load", count, <<>>, g)
                      /\ y = Call("printf", <<Constant("ResultFormatStrIR", "ptr"), Constant(g, "ptr"), count>>, "dynamic-cc")
      OBVIOUS
    <2>3. ReportLine(g, body) = <<x, y>>
      BY <2>1, <2>2 DEF ReportLine
    <2>4. x.op = "load" /\ y.op = "call" /\ y.by = "dynamic-cc" /\ Len(y.args) = 3 /\ y.args[2] = Constant(g, "ptr")
      BY <2>2 DEF CounterAccess, Call, Instr
    <2>5. Constant(g, "ptr") = Constant(f, "ptr") <=> g = f
      BY DEF Constant, Value
    <2>. QED  BY <2>3, <2>4, <2>5 DEF IsLineOn
  <1>2. PICK is : is = <<x, y>>
    OBVIOUS
  <1>3. is \in Seq({x, y}) /\ Range(is) = {x, y}
    BY <1>2 DEF Range
  <1>4. {k \in DOMAIN is : IsLineOn(is[k], f)} = IF g = f THEN {2} ELSE {}
    <2>1. DOMAIN is = {1, 2} /\ is[1] = x /\ is[2] = y
      BY <1>2
    <2>. QED  BY <1>1, <2>1
  <1>5. Lines(is, f) = IF g = f THEN 1 ELSE 0
    BY <1>4, FS_Singleton, FS_EmptySet DEF Lines
  <1>. QED  BY <1>1, <1>2, <1>3, <1>5

\* The report has a line on each function that is instrumented.
LEMMA EnterBlockLines ==
  ASSUME TypeOK, NEW body, NEW f \in FunctionNames, Defined(f)
  PROVE  Lines(EnterBlock(body), f) = 1
  <1>1. PICK T, M, lines : /\ T = Reported(body) /\ M = LinesMap(body) /\ lines = FlatMap(M, names)
    OBVIOUS
  <1>2. M \in [FunctionNames -> Seq(T)] /\ lines \in Seq(T) /\ EnterBlock(body) = <<Header>> \o lines \o <<Ending>>
    BY <1>1, EnterBlockIs
  <1>3. names \in Seq(FunctionNames) /\ (\A i, j \in DOMAIN names : names[i] = names[j] => i = j) /\ f \in Range(names)
    BY DEF TypeOK
  <1>4. PICK P : P = LinesAmong(T, f)
    OBVIOUS
  <1>5. Selects(FunctionNames, M, {f}, P)
    <2>1. ASSUME NEW g \in FunctionNames PROVE Count(M[g], P) = IF g \in {f} THEN 1 ELSE 0
      <3>1. M[g] = IF Defined(g) THEN ReportLine(g, body) ELSE <<>>
        BY <1>1, Zenon DEF LinesMap
      <3>2. M[g] \in Seq(T)
        BY <1>2
      <3>3. Count(M[g], P) = Lines(M[g], f)
        BY <1>4, <3>2, LinesCounted
      <3>4. CASE Defined(g)
        BY <3>1, <3>3, <3>4, ReportLineIs
      <3>5. CASE ~Defined(g)
        <4>1. Count(<<>>, P) = 0
          BY CountEmpty
        <4>. QED  BY <3>1, <3>5, <4>1
      <3>. QED  BY <3>4, <3>5
    <2>. QED  BY <2>1, Zenon DEF Selects
  <1>6. CountsAlike(FunctionNames, M, {f}, P)
    BY <1>2, <1>5, CountsOfMap
  <1>7. Count(lines, P) = Count(names, {f})
    BY <1>1, <1>3, <1>6, Zenon DEF CountsAlike
  <1>8. Count(names, {f}) = 1
    <2>1. PICK k \in DOMAIN names : names[k] = f
      BY <1>3 DEF Range
    <2>2. PlacesIn(names, {f}) = {k}
      BY <1>3, <2>1 DEF PlacesIn
    <2>. QED  BY <2>2, FS_Singleton DEF Count
  <1>9. Lines(lines, f) = 1
    BY <1>2, <1>4, <1>7, <1>8, LinesCounted
  <1>10. <<Header>> \in Seq(T) /\ <<Ending>> \in Seq(T)
    BY <1>1 DEF Reported
  <1>11. Lines(<<Header>>, f) = 0 /\ Lines(<<Ending>>, f) = 0
    <2>1. ~IsLineOn(Header, f) /\ ~IsLineOn(Ending, f)
      BY DEF Header, Ending, Call, Instr, IsLineOn
    <2>2. \A i \in Range(<<Header>>) : ~IsLineOn(i, f)
      BY <2>1 DEF Range
    <2>3. \A i \in Range(<<Ending>>) : ~IsLineOn(i, f)
      BY <2>1 DEF Range
    <2>. QED  BY <1>10, <2>2, <2>3, LinesNone
  <1>12. LinesOfBoth(<<Header>> \o lines, <<Ending>>, f) /\ LinesOfBoth(<<Header>>, lines, f)
    <2>1. <<Header>> \o lines \in Seq(T)
      BY <1>2, <1>10
    <2>. QED  BY <1>2, <1>10, <2>1, LinesConcat
  <1>13. Lines(EnterBlock(body), f) = (0 + 1) + 0
    BY <1>2, <1>9, <1>11, <1>12, Zenon DEF LinesOfBoth
  <1>. QED  BY <1>13

\* The counting code of f adds n to the counter of f, at the entry of body.
Tallies(f, body, n) ==
  /\ Adds(CounterCode(body[1]), f, n)
  /\ \A b \in DOMAIN body \ {1} : CounterCode(body[b]) = <<>>

\* A call adds one to its counter for each run of dynamic-cc.
TalliedBodies == \A f \in ProgramFunctions : Tallies(f, code[f], Len(dtors))

\* Once dynamic-cc has run, the report is where the destructors start, with
\* one line on each function.
Reporter ==
  IF dtors = <<>> THEN code[Wrapper] = <<>>
  ELSE code[Wrapper] # <<>> /\ \A f \in ProgramFunctions : Lines(code[Wrapper][1], f) = 1

\* A body with the same counting code adds the same.
LEMMA TalliesKept ==
  ASSUME NEW f, NEW old, NEW new, NEW n, KeepsCounters(old, new), 1 \in DOMAIN old, Tallies(f, old, n)
  PROVE  Tallies(f, new, n)
  <1>1. CounterCode(new[1]) = CounterCode(old[1]) /\ DOMAIN new = DOMAIN old
    BY DEF KeepsCounters
  <1>2. \A b \in DOMAIN new \ {1} : CounterCode(new[b]) = <<>>
    BY DEF KeepsCounters, Tallies
  <1>. QED  BY <1>1, <1>2 DEF Tallies

\* A body that is there has an entry.
LEMMA HasEntry ==
  ASSUME NEW body, FormedBody(body), body # <<>>
  PROVE  1 \in DOMAIN body
  <1>1. PICK old \in BodiesOver(InstructionSet(body)) : old = body
    BY FormedElim
  <1>2. 1 \in DOMAIN old
    BY <1>1 DEF BodiesOver
  <1>. QED  BY <1>1, <1>2

\* The code of a program counts nothing.
LEMMA ProgramTallies ==
  ASSUME NEW f, NEW body, IsProgramBody(body), body # <<>>
  PROVE  Tallies(f, body, 0)
  <1>1. FormedBody(body)
    BY ProgramBodyFormed
  <1>2. \A i \in InstructionSet(body) : i.by = "user"
    BY DEF IsProgramBody, Instr
  <1>. DEFINE S == InstructionSet(body)
  <1>3. \A b \in DOMAIN body : body[b] \in Seq(S)
    BY <1>1, FormedElim, BodyFacts, BlockFacts
  <1>4. \A b \in DOMAIN body : \A i \in Range(body[b]) : i \in S
    BY DEF InstructionSet
  <1>. HIDE DEF S
  <1>5. ASSUME NEW b \in DOMAIN body PROVE CounterCode(body[b]) = <<>>
    <2>1. body[b] \in Seq(S) /\ \A i \in Range(body[b]) : i.by # "dynamic-cc"
      BY <1>2, <1>3, <1>4 DEF S
    <2>. QED  BY <2>1, CounterNone
  <1>6. 1 \in DOMAIN body
    BY <1>1, HasEntry
  <1>7. CounterCode(body[1]) = <<>>
    BY <1>5, <1>6
  <1>. QED  BY <1>5, <1>7, NoneAdds DEF Tallies

\* At first nothing counts, and nothing is reported.
LEMMA TalliesInit == Init => TalliedBodies /\ Reporter
  <1>. SUFFICES ASSUME Init PROVE TalliedBodies /\ Reporter
    OBVIOUS
  <1>1. /\ source \in Programs /\ code = source.code /\ dtors = <<>>
    BY DEF Init
  <1>2. Reporter
    BY <1>1, OptAssumption DEF Reporter, Wrapper
  <1>3. ASSUME NEW f \in ProgramFunctions PROVE Tallies(f, code[f], Len(dtors))
    <2>1. IsProgramBody(code[f]) /\ code[f] # <<>> /\ Len(dtors) = 0
      BY <1>1, OptAssumption DEF ProgramFunctions
    <2>. QED  BY <2>1, ProgramTallies
  <1>. QED  BY <1>2, <1>3 DEF TalliedBodies

\* dynamic-cc instruments every function, and any other step none.
Tallying ==
  /\ \A f \in FunctionNames \ {Wrapper} : Defined(f) => code'[f] = Counted(f)
  /\ Reports(Wrapper)
  /\ dtors' = Append(dtors, Wrapper)
  /\ UNCHANGED source

\* Each step is one or the other.
LEMMA TallyingOrNot ==
  ASSUME CodeChange
  PROVE  Tallying \/ (UNCHANGED dtors /\ \A f \in FunctionNames : Otherwise(f))
  <1>1. CASE UNCHANGED <<code, source, dtors, erased>>
    BY <1>1 DEF Otherwise
  <1>2. CASE /\ \A f \in FunctionNames : IF Defined(f) THEN Greeted(f) ELSE code'[f] = code[f]
             /\ UNCHANGED <<source, dtors, erased>>
    BY <1>2 DEF Otherwise
  <1>3. CASE /\ \A f \in FunctionNames \ {Wrapper} : IF Defined(f) THEN Tallied(f) ELSE code'[f] = code[f]
             /\ Reports(Wrapper)
             /\ dtors' = Append(dtors, Wrapper)
             /\ UNCHANGED <<source, erased>>
    BY <1>3 DEF Tallying, Tallied
  <1>4. CASE /\ \E f \in FunctionNames : /\ ReturnLogged(f) \/ Rewritten(f)
                                         /\ \A g \in FunctionNames \ {f} : code'[g] = code[g]
             /\ UNCHANGED <<source, dtors, erased>>
    BY <1>4 DEF Otherwise
  <1>5. CASE /\ \E f \in FunctionNames : /\ Shortened(f)
                                         /\ \A g \in FunctionNames \ {f} : code'[g] = code[g]
             /\ erased'
             /\ UNCHANGED dtors
    BY <1>5 DEF Otherwise
  <1>. QED  BY <1>1, <1>2, <1>3, <1>4, <1>5 DEF CodeChange

\* A function of the program is one before, and is not the wrapper.
LEMMA GivenBefore ==
  ASSUME CodeChange, SourceKept, NEW f \in FunctionNames, source'.code[f] # <<>>
  PROVE  f \in ProgramFunctions /\ f # Wrapper
  <1>1. CASE UNCHANGED source
    BY <1>1 DEF ProgramFunctions, SourceKept
  <1>2. CASE Erasure
    <2>1. PICK g \in FunctionNames : Shortened(g)
      BY <1>2 DEF Erasure
    <2>2. PICK b, new : source' = [source EXCEPT !.code[g][b] = new]
      BY <2>1, Zenon DEF Shortened
    <2>3. /\ \A e \in FunctionNames \ {g} : source'.code[e] = source.code[e]
          /\ source'.code[g] = [source.code[g] EXCEPT ![b] = new]
      BY <2>2, SourceFields
    <2>4. source.code[f] # <<>>
      <3>1. CASE f # g
        BY <2>3, <3>1
      <3>2. CASE f = g /\ source.code[g] = <<>>
        <4>1. [<<>> EXCEPT ![b] = new] = <<>>
          OBVIOUS
        <4>. QED  BY <2>3, <3>2, <4>1
      <3>. QED  BY <3>1, <3>2
    <2>. QED  BY <2>4 DEF ProgramFunctions, SourceKept
  <1>. QED  BY <1>1, <1>2, ErasedOrInstrumented

\* One run of dynamic-cc more, and a call adds one more.
LEMMA TalliedOnce ==
  ASSUME FormedBodies, NEW f \in FunctionNames, Defined(f), NEW n \in Nat, Tallies(f, code[f], n)
  PROVE  Tallies(f, Counted(f), 1 + n)
  <1>1. PICK body, new, is : body = code[f] /\ new = Counted(f) /\ is = Increment(f, body)
    OBVIOUS
  <1>2. /\ DOMAIN new = DOMAIN body
        /\ CounterCode(new[1]) = is \o CounterCode(body[1])
        /\ \A b \in DOMAIN body \ {1} : CounterCode(new[b]) = CounterCode(body[b])
    BY <1>1, CountedAddsTriple
  <1>3. FormedBody(body) /\ body # <<>>
    BY <1>1 DEF FormedBodies, Defined
  <1>4. Adds(CounterCode(body[1]), f, n) /\ \A b \in DOMAIN body \ {1} : CounterCode(body[b]) = <<>>
    BY <1>1 DEF Tallies
  <1>5. Adds(is, f, 1)
    BY <1>1, TripleAdds
  <1>6. is \in Seq(Range(is))
    BY <1>1 DEF Increment, Range
  <1>. DEFINE S == InstructionSet(body) \cup Range(is)
  <1>7. is \in Seq(S) /\ CounterCode(body[1]) \in Seq(S)
    <2>1. body[1] \in Seq(InstructionSet(body))
      BY <1>3, HasEntry, FormedElim, BodyFacts, BlockFacts
    <2>2. CounterCode(body[1]) \in Seq(InstructionSet(body))
      BY <2>1, CounterIs
    <2>. QED  BY <1>6, <2>2, BlocksGrow
  <1>. HIDE DEF S
  <1>8. Adds(is \o CounterCode(body[1]), f, 1 + n)
    BY <1>4, <1>5, <1>7, AddsBoth
  <1>9. Tallies(f, new, 1 + n)
    BY <1>2, <1>4, <1>8 DEF Tallies
  <1>. QED  BY <1>1, <1>9

\* It takes no line from the report and adds none.
LEMMA ReporterTallied ==
  ASSUME FormedBodies, NEW f, Defined(Wrapper), Wrapper \in FunctionNames
  PROVE  Lines(Counted(Wrapper)[1], f) = Lines(code[Wrapper][1], f)
  <1>1. PICK body, new, is : body = code[Wrapper] /\ new = Counted(Wrapper) /\ is = Increment(Wrapper, body)
    OBVIOUS
  <1>2. new = AtEntry(body, is)
    BY <1>1, Zenon DEF Counted
  <1>3. FormedBody(body) /\ body # <<>>
    BY <1>1 DEF FormedBodies, Defined
  <1>4. is \in Seq(Range(is))
    BY <1>1 DEF Increment, Range
  <1>. DEFINE S == InstructionSet(body) \cup Range(is)
  <1>5. body \in BodiesOver(S) /\ is \in Seq(S)
    BY <1>3, <1>4, FormedElim, BodiesGrow, BlocksGrow
  <1>. HIDE DEF S
  <1>6. new[1] = is \o body[1] /\ body[1] \in Seq(S)
    <2>1. new[1] = is \o body[1]
      BY <1>2, <1>3, <1>5, AtEntryOver
    <2>2. body[1] \in Seq(S)
      BY <1>3, <1>5, HasEntry, BodyFacts, BlockFacts
    <2>. QED  BY <2>1, <2>2
  <1>7. Lines(is, f) = 0
    <2>1. \A i \in Range(is) : ~IsLineOn(i, f)
      BY <1>1 DEF Increment, CounterAccess, Plain, Instr, IsLineOn, Range
    <2>. QED  BY <1>5, <2>1, LinesNone
  <1>8. LinesOfBoth(is, body[1], f)
    BY <1>5, <1>6, LinesConcat
  <1>9. Lines(body[1], f) \in Nat
    BY <1>6, LinesCounted, PlacesFinite
  <1>. QED  BY <1>1, <1>6, <1>7, <1>8, <1>9 DEF LinesOfBoth

\* Another pass keeps the lines of the first block.
LEMMA ReporterKept ==
  ASSUME NEW old, FormedBody(old), old # <<>>, NEW new, FormedBody(new), KeepsCounters(old, new), NEW f
  PROVE  new # <<>> /\ Lines(new[1], f) = Lines(old[1], f)
  <1>1. 1 \in DOMAIN old /\ 1 \in DOMAIN new
    BY HasEntry DEF KeepsCounters
  <1>2. old[1] \in Seq(InstructionSet(old)) /\ new[1] \in Seq(InstructionSet(new))
    BY <1>1, FormedElim, BodyFacts, BlockFacts
  <1>3. Lines(CounterCode(old[1]), f) = Lines(old[1], f) /\ Lines(CounterCode(new[1]), f) = Lines(new[1], f)
    BY <1>2, LinesOfCounters
  <1>4. CounterCode(new[1]) = CounterCode(old[1])
    BY <1>1 DEF KeepsCounters
  <1>5. new # <<>>
    BY <1>1
  <1>. QED  BY <1>3, <1>4, <1>5

\* Every step keeps what calls add in step with the registrations.
LEMMA TalliedStep ==
  ASSUME TypeOK, FormedBodies, CodeChange, SourceKept, GivenDefined, TalliedBodies
  PROVE  TalliedBodies'
  <1>. SUFFICES ASSUME NEW f \in FunctionNames, source'.code[f] # <<>>
                PROVE  Tallies(f, code'[f], Len(dtors'))
    BY DEF TalliedBodies, ProgramFunctions
  <1>1. f \in ProgramFunctions /\ f # Wrapper
    BY GivenBefore
  <1>2. Defined(f) /\ Tallies(f, code[f], Len(dtors)) /\ FormedBody(code[f])
    BY <1>1 DEF GivenDefined, TalliedBodies, FormedBodies
  <1>3. CASE UNCHANGED dtors /\ Otherwise(f)
    <2>1. KeepsCounters(code[f], code'[f])
      BY <1>3, OthersKeepCounters
    <2>2. 1 \in DOMAIN code[f]
      BY <1>2, HasEntry DEF Defined
    <2>. QED  BY <1>2, <1>3, <2>1, <2>2, TalliesKept
  <1>4. CASE Tallying
    <2>1. code'[f] = Counted(f)
      BY <1>1, <1>2, <1>4 DEF Tallying
    <2>2. Len(dtors') = 1 + Len(dtors) /\ Len(dtors) \in Nat
      <3>1. dtors \in Seq({Wrapper}) /\ dtors' = Append(dtors, Wrapper)
        BY <1>4 DEF Tallying, TypeOK
      <3>. QED  BY <3>1
    <2>. QED  BY <1>2, <2>1, <2>2, TalliedOnce
  <1>. QED  BY <1>3, <1>4, TallyingOrNot

\* Every step keeps the report.
LEMMA ReporterStep ==
  ASSUME TypeOK, FormedBodies, CodeChange, SourceKept, GivenDefined, Reporter
  PROVE  Reporter'
  <1>1. Wrapper \in FunctionNames /\ dtors \in Seq({Wrapper})
    BY OptAssumption DEF Wrapper, TypeOK
  <1>2. FormedBody(code[Wrapper]) /\ FormedBody(code'[Wrapper])
    <2>1. FormedBodies'
      BY FormedChange
    <2>. QED  BY <1>1, <2>1 DEF FormedBodies
  <1>3. \A f \in ProgramFunctions' : f \in ProgramFunctions /\ f \in FunctionNames
    BY GivenBefore DEF ProgramFunctions
  <1>4. CASE UNCHANGED dtors /\ Otherwise(Wrapper)
    <2>1. KeepsCounters(code[Wrapper], code'[Wrapper])
      BY <1>1, <1>4, OthersKeepCounters
    <2>2. CASE dtors = <<>>
      <3>1. PICK new \in BodiesOver(InstructionSet(code'[Wrapper])) : new = code'[Wrapper]
        BY <1>2, FormedElim
      <3>2. DOMAIN new = {}
        BY <2>1, <2>2, <3>1 DEF Reporter, KeepsCounters
      <3>3. new = <<>>
        BY <3>2 DEF BodiesOver
      <3>. QED  BY <1>4, <2>2, <3>1, <3>3 DEF Reporter
    <2>3. CASE dtors # <<>>
      <3>1. code[Wrapper] # <<>> /\ \A f \in ProgramFunctions : Lines(code[Wrapper][1], f) = 1
        BY <2>3 DEF Reporter
      <3>2. \A f : code'[Wrapper] # <<>> /\ Lines(code'[Wrapper][1], f) = Lines(code[Wrapper][1], f)
        BY <1>2, <2>1, <3>1, ReporterKept
      <3>. QED  BY <1>3, <1>4, <2>3, <3>1, <3>2 DEF Reporter
    <2>. QED  BY <2>2, <2>3
  <1>5. CASE Tallying
    <2>1. dtors' # <<>>
      BY <1>1, <1>5 DEF Tallying
    <2>2. PICK block : block = EnterBlock(code[Wrapper])
      OBVIOUS
    <2>3. code'[Wrapper] = Append(IF Defined(Wrapper) THEN Counted(Wrapper) ELSE code[Wrapper], block)
      BY <1>5, <2>2, Zenon DEF Tallying, Reports
    <2>4. \A f \in ProgramFunctions : f \in FunctionNames /\ Defined(f)
      BY DEF GivenDefined, ProgramFunctions
    <2>5. CASE dtors = <<>>
      <3>1. code[Wrapper] = <<>>
        BY <2>5 DEF Reporter
      <3>2. code'[Wrapper] = <<block>>
        BY <2>3, <3>1 DEF Defined
      <3>3. code'[Wrapper] # <<>> /\ code'[Wrapper][1] = block
        BY <3>2
      <3>4. \A f \in ProgramFunctions : Lines(block, f) = 1
        BY <2>2, <2>4, EnterBlockLines
      <3>. QED  BY <1>3, <2>1, <3>3, <3>4 DEF Reporter
    <2>6. CASE dtors # <<>>
      <3>1. Defined(Wrapper) /\ \A f \in ProgramFunctions : Lines(code[Wrapper][1], f) = 1
        BY <2>6 DEF Reporter, Defined
      <3>2. PICK new : new = Counted(Wrapper)
        OBVIOUS
      <3>3. code'[Wrapper] = Append(new, block)
        BY <2>3, <3>1, <3>2, Zenon
      <3>4. new \in Seq(Range(new)) /\ 1 \in DOMAIN new
        <4>1. PICK body, is : body = code[Wrapper] /\ is = Increment(Wrapper, body)
          OBVIOUS
        <4>2. is \in Seq(Range(is)) /\ AddedBy(Range(is))
          <5>1. is \in Seq(Range(is))
            BY <4>1 DEF Increment, Range
          <5>2. AddedBy(Range(Increment(Wrapper, body)))
            BY <1>1, AddedInstructions
          <5>. QED  BY <4>1, <5>1, <5>2
        <4>3. FormedBody(AtEntry(body, is)) /\ AtEntry(body, is) # <<>>
          BY <1>2, <3>1, <4>1, <4>2, FormedPrefixed DEF Defined
        <4>4. FormedBody(new) /\ new # <<>>
          BY <3>2, <4>1, <4>3, Zenon DEF Counted
        <4>5. new \in Seq(BlocksOver(InstructionSet(new)))
          BY <4>4, FormedElim DEF BodiesOver
        <4>. QED  BY <4>4, <4>5, HasEntry DEF Range
      <3>5. code'[Wrapper] # <<>> /\ code'[Wrapper][1] = new[1]
        <4>1. PICK body \in Seq(Range(new)) : body = new
          BY <3>4
        <4>2. Len(body) \in Nat /\ 1 \in 1 .. Len(body)
          BY <3>4, <4>1
        <4>3. Append(body, block)[1] = body[1] /\ Append(body, block) # <<>>
          BY <4>2
        <4>. QED  BY <3>3, <4>1, <4>3
      <3>6. \A f : Lines(new[1], f) = Lines(code[Wrapper][1], f)
        BY <1>1, <3>1, <3>2, ReporterTallied
      <3>. QED  BY <1>3, <2>1, <3>1, <3>5, <3>6 DEF Reporter
    <2>. QED  BY <2>5, <2>6
  <1>. QED  BY <1>1, <1>4, <1>5, TallyingOrNot

\* What is counted on a way is what the entry counts.
IsTalliedWay(body, w) == CounterCode(Trace(body, w)) = CounterCode(body[1])

\* No way comes back to the entry, and no other block counts.
LEMMA WaysAreTallied ==
  ASSUME NEW f, NEW S, NEW body \in BodiesOver(S), S = InstructionSet(body), body # <<>>,
         AllPlaced(f, S, DOMAIN body),
         \A b \in DOMAIN body \ {1} : CounterCode(body[b]) = <<>>, NEW N \in Nat \ {0}
  PROVE  \A w \in Ways(body, N) : w \in WaysOf(body) /\ IsTalliedWay(body, w)
  <1>. DEFINE D == {w \in WaysOf(body) : IsTalliedWay(body, w)}
  <1>1. 1 \in DOMAIN body /\ \A b \in DOMAIN body : body[b] \in Seq(S) /\ Last(body[b]) \in S
    <2>1. 1 \in DOMAIN body
      BY BodyFacts
    <2>. QED  BY <2>1, BodyFacts, BlockFacts
  <1>2. body \in [DOMAIN body -> Seq(S)]
    BY BodyIsMap
  <1>4. \A w : Trace(body, w) = FlatMap(body, w)
    BY DEF Trace, FlatMap
  <1>6. << 1 >> \in D
    <2>1. << 1 >> \in WaysOf(body)
      BY <1>1 DEF WaysOf
    <2>2. Trace(body, << 1 >>) = body[1]
      BY <1>1, <1>2, <1>4, FlatMapOne
    <2>. QED  BY <2>1, <2>2 DEF IsTalliedWay
  <1>7. ASSUME NEW w \in D, NEW t \in Last(body[Last(w)]).to PROVE Append(w, t) \in D
    <2>1. w \in Seq(DOMAIN body) /\ w # <<>> /\ IsTalliedWay(body, w)
      BY DEF WaysOf
    <2>2. Last(w) \in DOMAIN body
      BY <2>1 DEF Last
    <2>3. Placed(f, Last(body[Last(w)]), DOMAIN body)
      BY <1>1, <2>2 DEF AllPlaced
    <2>4. t \in DOMAIN body /\ t # 1
      BY <1>7, <2>3 DEF Placed
    <2>5. Append(w, t) \in WaysOf(body)
      BY <2>1, <2>4 DEF WaysOf
    <2>6. Trace(body, Append(w, t)) = Trace(body, w) \o body[t]
      <3>1. Grows(body, w, t)
        BY <1>2, <2>1, <2>4, FlatMapGrows, Zenon
      <3>. QED  BY <1>4, <3>1, Zenon DEF Grows
    <2>7. Trace(body, w) \in Seq(S)
      <3>1. FlatMap(body, w) \in Seq(S)
        BY <1>2, <2>1, FlatMapType
      <3>. QED  BY <1>4, <3>1, Zenon
    <2>8. CounterCode(Trace(body, Append(w, t))) = CounterCode(Trace(body, w)) \o CounterCode(body[t])
      <3>1. CountersOfBoth(Trace(body, w), body[t])
        BY <1>1, <2>4, <2>7, CounterConcat
      <3>. QED  BY <2>6, <3>1, Zenon DEF CountersOfBoth
    <2>9. CounterCode(body[t]) = <<>> /\ CounterCode(Trace(body, w)) = CounterCode(body[1])
      BY <2>1, <2>4 DEF IsTalliedWay
    <2>10. CounterCode(body[1]) \o <<>> = CounterCode(body[1])
      <3>1. CounterCode(body[1]) \in Seq(S)
        BY <1>1, CounterIs
      <3>. QED  BY <3>1
    <2>11. IsTalliedWay(body, Append(w, t))
      BY <2>8, <2>9, <2>10 DEF IsTalliedWay
    <2>. QED  BY <2>5, <2>11
  <1>. HIDE DEF D
  <1>8. Ways(body, N) \subseteq D
    BY <1>6, <1>7, WaysInduction
  <1>. QED  BY <1>8 DEF D

\* The report has as many lines on a function as dynamic-cc has been run.
LEMMA LinesOfReporter ==
  ASSUME TypeOK, Reporter, NEW f \in ProgramFunctions
  PROVE  LinesOn(f) = Len(dtors) /\ Len(dtors) \in Nat
  <1>1. Len(dtors) \in Nat /\ (dtors = <<>> => Len(dtors) = 0)
    BY DEF TypeOK
  <1>2. CASE dtors = <<>>
    BY <1>1, <1>2 DEF LinesOn
  <1>3. CASE dtors # <<>>
    <2>1. Lines(code[Wrapper][1], f) = 1
      BY <1>3 DEF Reporter
    <2>2. LinesOn(f) = Len(dtors) * Lines(code[Wrapper][1], f)
      BY <1>3, Zenon DEF LinesOn, Lines
    <2>. QED  BY <1>1, <2>1, <2>2
  <1>. QED  BY <1>2, <1>3

\* What the report prints is what a call has counted.
LEMMA TalliedReports ==
  ASSUME TypeOK, FormedBodies, SourceKept, LoggedBodies, GivenDefined, TalliedBodies, Reporter
  PROVE  ReportedAsCounted
  <1>. SUFFICES ASSUME NEW f \in ProgramFunctions, NEW w \in EndedWays(f)
                PROVE  CountedAlong(f, w) = [NothingCounted.mem EXCEPT ![f] = LinesOn(f)]
    BY DEF ReportedAsCounted
  <1>1. f \in FunctionNames \ {Wrapper} /\ code[f] # <<>>
    BY DEF ProgramFunctions, SourceKept, GivenDefined, Defined
  <1>2. PICK h \in Nat, l \in Nat : IsLoggedBody(f, code[f], h, h, l)
    BY <1>1 DEF LoggedBodies
  <1>. DEFINE S == InstructionSet(code[f])
  <1>3. code[f] \in BodiesOver(S)
    BY <1>1, FormedElim DEF FormedBodies
  <1>4. AllPlaced(f, S, DOMAIN code[f])
    BY <1>2 DEF IsLoggedBody
  <1>5. Adds(CounterCode(code[f][1]), f, Len(dtors)) /\ \A b \in DOMAIN code[f] \ {1} : CounterCode(code[f][b]) = <<>>
    BY DEF TalliedBodies, Tallies
  <1>6. w \in Ways(code[f], Depth) /\ Depth \in Nat \ {0}
    BY DEF EndedWays, Depth
  <1>7. w \in WaysOf(code[f]) /\ IsTalliedWay(code[f], w)
    BY <1>1, <1>3, <1>4, <1>5, <1>6, WaysAreTallied
  <1>8. Trace(code[f], w) \in Seq(S)
    <2>. HIDE DEF S
    <2>1. code[f] \in [DOMAIN code[f] -> Seq(S)]
      BY <1>3, BodyIsMap
    <2>2. FlatMap(code[f], w) \in Seq(S)
      BY <1>7, <2>1, FlatMapType DEF WaysOf
    <2>. QED  BY <2>2 DEF Trace, FlatMap
  <1>. HIDE DEF S
  <1>9. PICK m : m = NothingCounted
    OBVIOUS
  <1>10. IsMachine(m) /\ m.mem = [g \in FunctionNames |-> 0]
    BY <1>9 DEF NothingCounted, IsMachine
  <1>11. Run(m, Trace(code[f], w)) = Run(m, CounterCode(code[f][1]))
    <2>1. RunsCounters(m, Trace(code[f], w))
      BY <1>8, RunCounters
    <2>. QED  BY <1>7, <2>1, Zenon DEF RunsCounters, IsTalliedWay
  <1>12. Run(m, CounterCode(code[f][1])).mem = [m.mem EXCEPT ![f] = @ + Len(dtors)]
    BY <1>5, <1>10 DEF Adds
  <1>13. LinesOn(f) = Len(dtors) /\ Len(dtors) \in Nat
    BY LinesOfReporter
  <1>14. [m.mem EXCEPT ![f] = @ + Len(dtors)] = [m.mem EXCEPT ![f] = LinesOn(f)]
    <2>1. m.mem[f] + Len(dtors) = LinesOn(f)
      BY <1>1, <1>10, <1>13
    <2>. QED  BY <2>1, Zenon
  <1>15. CountedAlong(f, w) = Run(m, Trace(code[f], w)).mem
    BY <1>9, Zenon DEF CountedAlong, Run
  <1>. QED  BY <1>9, <1>11, <1>12, <1>14, <1>15

\* On every way through a function of the program that ends, returning or not,
\* a call adds one to the counter of that function for each run of dynamic-cc
\* there was, and to no other counter; and so many are the lines on the
\* function in the report.
THEOREM ReportsCounts == Spec => []ReportedAsCounted
  <1>1. Init => SourceKept /\ ProgramIsKept /\ LoggedBodies /\ GivenDefined /\ TalliedBodies /\ Reporter
    BY KeptInit, LoggedInit, GivenInit, TalliesInit
  <1>2. FormedInv /\ SourceKept /\ ProgramIsKept /\ LoggedBodies /\ GivenDefined /\ TalliedBodies /\ Reporter /\ [Next]_vars
        => SourceKept' /\ ProgramIsKept' /\ LoggedBodies' /\ GivenDefined' /\ TalliedBodies' /\ Reporter'
    <2>. SUFFICES ASSUME FormedInv, SourceKept, ProgramIsKept, LoggedBodies, GivenDefined, TalliedBodies, Reporter,
                         [Next]_vars
                  PROVE  SourceKept' /\ ProgramIsKept' /\ LoggedBodies' /\ GivenDefined' /\ TalliedBodies' /\ Reporter'
      OBVIOUS
    <2>1. TypeOK /\ FormedBodies /\ CodeChange
      BY CodeSteps DEF FormedInv
    <2>2. SourceKept' /\ ProgramIsKept'
      BY <2>1, KeptStep
    <2>3. LoggedBodies' /\ GivenDefined'
      BY <2>1, LoggedStep, GivenStep
    <2>4. TalliedBodies' /\ Reporter'
      BY <2>1, TalliedStep, ReporterStep
    <2>. QED  BY <2>2, <2>3, <2>4
  <1>3. FormedInv /\ SourceKept /\ LoggedBodies /\ GivenDefined /\ TalliedBodies /\ Reporter => ReportedAsCounted
    BY TalliedReports DEF FormedInv
  <1>. QED  BY <1>1, <1>2, <1>3, FormedSpec, PTL DEF Spec
=============================================================================
