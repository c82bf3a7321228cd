# A formal model of llvm-tutor

llvm-tutor is a collection of out-of-tree LLVM passes for the new pass manager.
Each pass is a few dozen lines of C++ over LLVM's own data structures; the
difficulty is not in the code's length but in rewriting a graph while walking
it, in what may be forgotten about a value before it is erased, in what a cached
analysis result still means, and in what an instrumented program does when it
runs. This directory models those parts in TLA+, checks them with TLC on
exhaustively enumerated small inputs, and proves the most important facts with
TLAPS for every input.

Run one model with `tlc -workers 2 -config RIV.cfg MCRIV.tla`, check one module
of proofs with `tlapm RIVProofs.tla`; `PROJECT.json` lists all runs, the code
each definition stands for, the findings and the hazards.

## The system

| part | state it keeps | operations |
|---|---|---|
| `merge-bb` (lib/MergeBB.cpp) | the function, `DeleteList`, `Changed` | visit a block, match it with a sibling, re-point its edges, erase merged blocks |
| `riv` (lib/RIV.cpp) | `BBsToProcess`, `DefinedValuesMap`, `ResultMap` | pop a dominator-tree node, hand its values to its children |
| `duplicate-bb` (lib/DuplicateBB.cpp) | the function, `ReMapper`, `DuplicateBBCount`, a random generator | choose (block, value) pairs from `riv`, split a block in four, clone its body, put PHIs in the tail |
| `dynamic-cc` (lib/DynamicCallCounter.cpp) | the module; at run time, one i32 per function | inject a load, add and store per function, build `printf_wrapper`, register it as a destructor |
| `inject-func-call` (lib/InjectFuncCall.cpp), `LogReturn` (HelloWorld/HelloWorld.cpp) | the module | insert a `printf` call per function, or per return |
| `static-cc` (lib/StaticCallCounter.cpp), tools/StaticMain.cpp | the counts; a caller map global to the process | count direct calls per callee |
| `opcode-counter` (lib/OpcodeCounter.cpp) | the counts | count instruction names |
| `find-fcmp-eq`, `convert-fcmp-eq` (lib/FindFCmpEq.cpp, lib/ConvertFCmpEq.cpp) | a cached list of instruction pointers; the function | list equality comparisons of floats, rewrite each as a comparison of the absolute difference with epsilon |
| `mba-add`, `mba-sub` (lib/MBAAdd.cpp, lib/MBASub.cpp) | the function and an iterator in it | replace an instruction under the iterator by an equal expression |
| HelloWorld | none | prints |

**Interaction.** The parts never call one another. They meet through the IR,
which one pass leaves and the next one reads, and through the analysis manager:
`duplicate-bb` asks it for `riv`, `riv` for the dominator tree,
`convert-fcmp-eq` for `find-fcmp-eq`, and every pass answers with a
`PreservedAnalyses` that decides which cached results survive. The
documentation also pairs `duplicate-bb` with `merge-bb`, which is written to
undo it.

**What is hard.** No pass has threads, messages or timeouts, and nothing is
persisted. The hard part is order: blocks merged while others wait to be
visited, erasures in the order of a hash set, instructions replaced under an
iterator, analysis results that describe a function that has changed since.
The exception is the instrumented program of `dynamic-cc`, which has threads,
signal handlers, an exit path that races with them and a counter that wraps.

**What makes each part correct.**

- `merge-bb`: the function behaves as before; only equal blocks are merged;
  edges lead to live blocks; no erased value is read; the IR stays valid;
  "all preserved" is reported only for an untouched function.
- `riv`: the result has, for each reachable block, exactly the inputs and the
  integer values that every path to the block defines; each block is handled
  once; the walk ends.
- `duplicate-bb`: both clones compute what the block computed; the PHIs select
  the value of the clone that ran; the condition dominates the branch.
- `dynamic-cc`: the report is the number of calls of each function.
- `mba-*`: every value is kept; no instruction is missed or rewritten twice.
- `inject-func-call`, `LogReturn`: each call that returns is logged on every
  path, one that does not is not, and a change that matters is reported. (The
  documentation of `inject-func-call` promises a line at the entry only; see the findings.)
- `static-cc`, `opcode-counter`: the counts are those of the code as it is; the
  callers shown beside them are the callers.
- `convert-fcmp-eq`: the list it walks still describes the function; the IR
  stays valid; the comparison keeps its answer wherever rounding is not at stake.

## Modules

| module | models |
|---|---|
| `IR` | the slice of LLVM IR the control-flow passes look at: blocks, instructions, successors, PHIs, uses, dominance, what the verifier checks |
| `IRSemantics` | what a function does as an observer sees it, and the comparison of two functions side by side |
| `MergeBB` | the `merge-bb` pass: `Merge` and `Retain` (one visit of the loop of `run` with all of `mergeDuplicatedBlock`), `DeleteDeadBlock` |
| `RIV` | `buildRIV`: `Visit` is one round of its loop |
| `DuplicateBB` | the `duplicate-bb` pass, the analysis it asks for included: `Analyse`, `FindBBsToDuplicate`, `Split`, and `CloneVoid`, `CloneValue`, `Purge` (the rounds of the loop of `cloneBB`) |
| `Pipeline` | `duplicate-bb` followed by `merge-bb`, composed of the two modules and `HandOver` |
| `MBA` | `mba-add` and `mba-sub`: `Skip`, `Substitute`, `NextBlock` are the ways round the two nested loops |
| `Tally` | abstract: what `dynamic-cc` promises of a program |
| `CallCounter` | the instrumented program running: `Load` and `Store` of the injected code, `Call`/`Return`/`Exit`/`Abort` of the program around it, `ReportLine` and `End` of `printf_wrapper` |
| `ModuleIR` | the slice of LLVM IR that the other passes look at: a module as a list of functions with their blocks, instructions with typed operands, the verifier |
| `FCmp` | `find-fcmp-eq`, the conversion of one comparison, and doubles: subtraction, comparison, the sign mask |
| `Opt` | `opt` and the `static` tool: `dynamic-cc`, `inject-func-call`, `print<static-cc>`, pipelines of `hello-world`, `log-return`, `print<opcode-counter>`, `print<find-fcmp-eq>`, `convert-fcmp-eq`, the analyses behind them and the analysis managers between them |
| `MCIR`, `MCMergeBB`, `MCRIV`, `MCDuplicateBB`, `MCPipeline`, `MCMBA`, `MCOpt` | the small functions and modules the models are run on |
| `IRProofs`, `MergeBBProofs`, `RIVProofs`, `DuplicateBBProofs`, `MBAProofs`, `CallCounterProofs`, `OptProofs`, `FCmpProofs` | theorems |

Where a module holds a definition marked `Mutant:`, it is a faulty variant of
the definition that follows it, used to show that a property notices the fault.

**`IR`.** A function is a record of its blocks, their instructions and the
successor operands of their terminators. A value is a name: an instruction
that uses "A1" uses the value whose definition is "A1", so replacing all uses
is a substitution. Uses are counted operand by operand, as LLVM's use lists
are, and not through debug intrinsics. LLVM is outside the repository; `IR` is
written from the calls the passes make. A PHI reads its operand at the end of the
incoming block, so what it has for a block that cannot be reached is not read:
`DefReachesUse` and `PoisonFree` let such an entry be anything, as LLVM's verifier
does. What an invoke returns may be read on its normal edge (`OnEdge`).

**`MergeBB`.** `F0` is the function received and `blocks`, `code`, `succ` the
function now; `deleteList` and `changed` are the locals of `run`. `rep` is a
history variable: the block that runs in place of each original block. The
layout of the function, the use-list order in which siblings are tried and the
bucket order in which `DeleteList` is emptied are nondeterministic, so each
result holds for all of them. One visit is one action: nothing else runs
between the match and the update of the edges. `CanRemoveInst` is translated
although the comparison of use counts and the PHI check reject what it rejects
on every reachable block the runs contain; it looks redundant in the code too.

**`RIV`.** `worklist` is `BBsToProcess`, `riv` is `ResultMap`. The values of
each block (`DefinedValuesMap`) are a function of the input and not a variable.
The order of a node's children is left open.

**`DuplicateBB`.** `f` is the function as it changes, `F0` as it was received;
`worklist` and `riv` belong to the instance of `RIV` that the pass runs first,
on the same `f`. `targets`, `reMapper`, `thenVMap`, `elseVMap` and `toRemove`
are the locals of the code; `bb` and `at` are the block being cloned and the
iterator in its tail. The random choice is a nondeterministic one. The blocks
are cloned in any order, of which the layout of a function is one. A made block
or value is named by what it was made of, by operators that the configuration
supplies. The block is split in front of its first instruction that is no PHI.
`FunctionsAssumption` says what LLVM hands to a pass: lists of instructions in SSA
form that the verifier accepts, where a PHI has a block for each operand and an invoke
ends its block. `Follow` is how LLVM's ValueMap behaves when a key is replaced by
another value: the code depends on it, because an instruction is replaced by
its PHI before the later instructions of the tail are remapped. `SameBehaviour`
compares with the original through either clone, so it does not matter which
way the condition goes; only a branch on an erased value is observed. Which
`PreservedAnalyses` the pass returns (all if there was no target, DuplicateBB.cpp:266) is
not modelled: nothing is cached across it here.

**`Pipeline`.** The passes run one after the other on one function; the blocks
that `duplicate-bb` adds are blocks like any other to `merge-bb`.

**`MBA`.** An inserted value is named by the instruction it was inserted for and
its position, so that a clash or a second rewriting shows. C++ does not fix
which operand of `e0 + e1` is built first, and both orders are outcomes. A constant
operand folds exactly where `IRBuilder` folds it. A function's blocks run in their
layout order, and an operand is a constant, an input or defined before. Integers have their width:
the arithmetic is modulo `2^w`, and bitwise operators are built by doubling the
width, which is also what makes the identity provable.

**`CallCounter`.** The program is open: any thread may call any function. A
call puts an activation on the thread's stack, which has to load the counter
and store the increment before its body runs; a handler may be put on top of
any activation, and the others only on top of a body. `Exit` may be taken by a
thread in a body; from then on that thread runs `printf_wrapper` and the others
go on until the process ends. `Abort` may end the process at any time before.
`calls` and `overlapped` are history variables. A line of the report is the counter:
that an i32 is passed for `%lu` (DynamicCallCounter.cpp:153), and what is then printed of
the upper half, is left out. `Tally` has no load and no
store: it counts in one step, and reports `tally % Wrap`.

**`ModuleIR`.** A module is the list of its functions' names, in the order a walk
meets them, and a body for each name: blocks of instructions, the entry first.
An instruction names its opcode, the typed values it defines and reads, the
function it calls, and the pass it comes from. `VerifiedBody` is what LLVM's
verifier asks of a body, with "defined before it is used" read along every way
from the entry, so that no dominator tree is needed.

**`FCmp`.** A double is its bits, with far fewer magnitudes than 2^63: a sign bit,
the magnitudes in units of the spacing below 1, infinity, NaN. Epsilon is more
than one unit, as 2^-52 is more than the spacing of small doubles. A predicate
is the set of relations (unordered, less, greater, equal) it is true of, which
is LLVM's encoding. `Converted` is the five instructions in place of one, built
where the builder stands; the comparison itself is kept and changed.

**`Opt`.** `names`, `code` and `dtors` are the module; `source` is the module as
received. `statics`, `opcodes` and `fcmps` are the cached results of the three
analyses, and `callers` is `CallerResult`, a global of the process. A module pass
is one action. A pipeline of function passes is a walk, as LLVM does it:
function by function, every pass of the pipeline on one function before the
next, over a list that `log-return` appends to while it is walked; each
`FunctionPass` action is one pass on one function, and `at` is where the walk
stands. A pass that returns `PreservedAnalyses::none()` drops the results of its
function at once and those of the module when the walk ends. A pass without
`isRequired` is not run on an `optnone` function; `convert-fcmp-eq` is, and looks
for the attribute itself, after it has asked for the list. `simplify` stands for
a pass of LLVM's own that erases an unused comparison or a call: without one,
nothing in the system makes a cached pointer dangle or a caller disappear. The
globals that hold strings and counters are named by the operand that reads
them; two globals of one name are one global. The lines of the report are in
the order of the module, where the code has the order of a hash map.

`CallCounter` takes from `Opt` what `ReportedAsCounted` says: a call adds the
same number to the counter of its own function, whatever way it takes, and that
number is one after one run of `dynamic-cc`. A second run counts each call twice
and prints each line twice, in agreement.

## Runs

| run | input space and bounds | shows |
|---|---|---|
| `merge` | three siblings with a common successor: every pair of nine bodies for two of them and two for the third, zero to two PHIs that read a value of the sibling or an argument; every graph of the entry and three more blocks, with loops and self-loops, and three distributions of stores; siblings on both sides of a loop header, with values read anywhere in the loop; a sibling reached by an indirect branch; unreachable siblings whose PHI reads itself | only equal blocks merge, through any chain of merges; IR valid, no erased value read; behaviour kept; what is reported preserved was not touched |
| `unreachable` | the graphs of `merge` with an entry that leaves blocks unreachable | **violation**: the assertion that an edge was updated |
| `phi_siblings` | two siblings with a PHI each | **violation**: the retained PHI has no entry for a new predecessor |
| `riv` | every graph of the entry and three more blocks; two entries; integer and other values | entries exact and final, one visit per block, result equal to the data-flow solution, termination |
| `duplicate` | chains, diamonds and loops of three blocks, four bodies, PHIs, a switch with a double edge and an unreachable block, an invoke of a float with a landing pad; integer, float and global inputs; every choice and order | conditions available, IR valid, behaviour kept through either clone |
| `duplicate_invoke` | an invoke with a landing pad and a block behind it | **violation**: the invoke's result decides a branch where it does not exist |
| `pipeline` | straight lines and forks of two to four blocks | both passes keep the behaviour; simple clones are merged again |
| `cc_single` | one thread, two functions, four calls of each, counters modulo 3 | the program implements `Tally`; a report begun is completed |
| `cc_threads` | two threads, two functions, one of them a handler, three calls of each, counters modulo 3 | a call is lost only where updates overlap; no counter runs ahead |
| `mba` | two blocks of up to two and one instructions, 4/8/16-bit and non-integer operations, shared, chained and constant operands; 20 inputs | values kept, each target rewritten once, termination |
| `opt` | three modules: loops, recursion, two returns, direct and indirect calls; an invoke that unwinds, an `optnone` function, a defined `log_function_return`; declarations only; every sequence of three passes or pipelines (five pipelines of one to three function passes); doubles of four bits | cached results, counts and callers right, IR valid, calls counted and returns logged on every way, the program's instructions in place, comparisons answered as before but for the pairs in `Confused` |
| `fcmp_float` | a comparison of two floats | **violation**: the converted code is not well typed |

**Why the bounds are enough.** `merge-bb` compares two blocks at a time through
one common successor, so a third sibling (or fourth block) is what it takes to
have a chain, a block retained and then merged itself, and a sibling already on
`DeleteList`. `SameBehaviour` runs both functions along every sequence of branch
outcomes that visits each block at least once and goes round a loop.
`duplicate-bb` treats one block at a time; blocks meet through `ReMapper` and
the values they read of each other, which takes a block, one it dominates and
one behind a join. Three
counter values and four calls make a counter wrap; two threads and a handler
give each kind of overlap (thread and thread, thread and its own handler). One
instruction in front of, one inside and one behind a rewritten instruction, and
one in the next block, are all the iterator of an `mba` pass can get wrong. The
20 inputs hold zero, the sign bit, all ones and a mix; the identities are proved
for all of them. Three passes (`MaxPasses`) are a pass, one that changes what it left, and
the first again; the analysis results are only asked for, changed under and
asked for again. Ways of five blocks (`Depth`) go round the loop once, twice
round is the same blocks. Eight magnitudes (`SignBit`) hold zero, a difference below, at and
above an epsilon of two units, an overflow, infinity and NaN, each with either
sign; the comparison is proved for any number.

**Findings.** Five disagreements between the code and a text of the repository
are quoted in `PROJECT.json`. Four have a run that violates what the text says:
(1) `merge-bb` merges an
unreachable duplicate and fails its assertion at MergeBB.cpp:256; (2) siblings
that start with equal PHIs are merged into IR the verifier rejects; (3)
`duplicate-bb` may branch on the result of an invoke behind its unwind edge;
(4) `convert-fcmp-eq` turns a comparison of anything but scalar doubles into IR
the verifier rejects (ConvertFCmpEq.cpp:112). The inputs of the passing runs
leave (2), (3) and (4) out. `merge` does have unreachable duplicates, and shows that the
IR and the behaviour survive their merge where assertions are off; it does not check
`SomeTargetUpdated`.

The fifth: (5) `inject-func-call` prints a "Returning from" line at every return
(`loggingReturn`, InjectFuncCall.cpp:47-81), of which its header
(InjectFuncCall.cpp:7-22), README.md:346 and the test of its output know
nothing. test/inject_func_call_exec.ll:10-12 (like README.md:369-382) wants the hello of
`foo` followed at once by the hello of `bar`; `foo` returns before `bar` is entered, so its
goodbye stands between the two, and the test cannot pass on this code.
`EveryReturnIsLogged` does not say that the documented output is what is printed: it says
of the code as it is that every way that returns has as many goodbyes as hellos, which
is more than one line per call and so what the test does not allow.

Five more texts say more than the code does, without a run of their own.

- DynamicCallCounter.cpp:16 has the counter incremented "every time F executes".
  Under threads the load, add and store of two calls may overlap, and one is
  lost; `cc_threads` and a theorem say that nothing else is.
- The report of `dynamic-cc` is headed "#N DIRECT CALLS" (DynamicCallCounter.cpp:165);
  the counter is in the callee, and counts calls through pointers and from
  outside the module as well.
- DuplicateBB.cpp:39 calls the function before and after the pass equivalent.
  The injected branch tests any reachable integer without a freeze
  (DuplicateBB.cpp:159): where that integer is poison and the function never
  looked at it, the branch is undefined behaviour. The semantics here has no
  operation whose result is poison.
- The check announced at MergeBB.cpp:208 rejects nothing, since its `continue`
  belongs to the inner loop; `merge` includes a block so retained and finds its
  behaviour kept.
- `merge-bb` does not undo `duplicate-bb` on a block with two values, as
  README.md:775 says it does: the tail has a PHI per value, and `merge-bb` stops
  at two. `SimpleClonesAreMerged` says when it does.

**Fairness.** `MergeBB`, `RIV` and `MBA` assume weak fairness of the step of a
sequential loop, which runs until it returns; only `Termination` of `RIV` and
`MBA` uses it. `DuplicateBB`, `Pipeline` and `Opt` state none: their properties are
safety. `CallCounter` assumes it of the steps of `printf_wrapper`
only: the destructor waits for nothing, while no assumption is made about the
program's own threads. An abort is possible at any time and also ends the process.

## Proofs

The theorems hold for every value of the constants; their assumptions are the
ASSUMEs of the modelled module, which TLC evaluates in every run.

- **`MergeBBProofs`** proves `TypeOK`, `EdgesFollowRep`, `MergedBlocksAreEqual`
  and `PreservedMeansUntouched`, and under one hypothesis more `ValidIR` and
  `NothingPoisoned`. Assumed: the input function is well typed
  (`FunctionsAreWellTyped`) and one the verifier accepts (`FunctionsAreVerified`).
  `EdgesFollowRep` is not inductive: a merge into a
  block needs that block to be its own representative and not to be deleted, and
  equality of merged blocks needs the exits of the two to be equal *up to*
  representatives, because successors may have been merged since. `IndInv` adds
  these. `LockstepComparesAll` proves that walking two blocks backwards side by
  side, with equal counts, compares every instruction that is not debug information.

  For `ValidIR` the function is followed through both phases (`SoundInv`): it is
  `Sound`, and each merged block that still exists is `Gone`: no edge leads to it, its
  values are read in it or by a PHI on the edge that leaves it, and where that PHI
  takes a value of its own from it, it takes one of its own from the block that stands for it.
  *A merge*: what `canMergeInstructions`, the check of the PHI and the guards
  of `mergeDuplicatedBlock` find out (`FindsAlike`) is enough for the graph with the
  edges of b1 led to b2: paths of the new graph are paths of the old one, but for
  those that now come to b2 (`RetargetedReach`), and there every operand is one that b1 read
  too, so it was available on both ways. *An erasure*: the PHI forgets an entry, and
  a PHI left with one value gives way to it (`ForgetPredecessorForgets`). That the value
  dominates what the PHI dominated is where the dominance of `IRProofs` is needed:
  each way to the PHI's block first comes there over an edge that brings
  the value (`BroughtIsAvailable`). That it is not a value of another block about to
  be erased is what the last part of `Gone` is for (`NotOfAMergedBlock`).
  The hypothesis is `PhisTellApart`: two blocks that end in a plain branch have no
  PHIs with the same operands. It leaves out what `phi_siblings` shows to go
  wrong, and the functions of `merge` satisfy it, which TLC evaluates.
- **`IRProofs`** proves what the others need of control-flow graphs: an induction
  principle and one for iterated functions, both over sets instead of operators;
  that `ReachableAvoiding`, computed in as many rounds as there are blocks, is
  the least set that holds the entry and is closed under edges (the rounds grow
  until they stop, and a strictly growing chain outgrows the blocks); and from
  it that dominance is transitive, antisymmetric, and a chain above each block.
  So the blocks that dominate another form a tree, which is proved and not assumed.
- **`RIVProofs`** proves `TypeOK`, `EntriesAreFinal`, `EachBlockOnce` and
  `ResultIsWhatEveryPathDefines` for any control-flow graphs
  (`FunctionsAssumption`). The invariant ties the stack to the map: the map holds
  the root and the children of popped nodes, stacked nodes are distinct and
  unexpanded, and an entry is what the strict dominators of its block define. What is
  computed from dominators is then shown to be the greatest solution of the
  data-flow equations that `ResultIsWhatEveryPathDefines` compares it with: a
  value defined on every path has its block on every path.
- **`DuplicateBBProofs`** proves that the function has, at any time, a closed
  form (`FunctionHasClosedForm`): given which blocks were split, how far the
  iterator came in the one being cloned, which value decides in each head, and
  what is in `ReMapper`, every instruction of every block is determined by the
  function received. `ClosedForm` is inductive, because the two rewritings of the
  whole function, of incoming blocks by a split and of operands by a replacement,
  map the closed form of each block to its closed form (`MovedTail`, `RewrittenTail`
  and their siblings); they do because made names are new and made once
  (`NamesAssumption`). The keys of `ThenVMap` and `ElseVMap` are PHIs and not the
  instructions cloned: it is what makes operands of clones
  come out right (`MadeClone`). `TypeOK` and `ContextIsAvailable` are read off it:
  what a block of the function received dominates is still dominated by
  the place where its values are now (`DominanceIsKept`), and the analysis
  gives a block only values of its dominators. So is `ValidIR`: each instruction is of
  one of six kinds (it stands where it was, is a clone, a PHI that merges two clones, a test,
  the branch on it, or the jump of a clone), and what defines its operands follows
  from its kind. That the definition comes first is carried over
  from the function received: reachability by `ReachableParts`, dominance between parts of
  different blocks by `DominanceIsKept`, the four parts of one block
  among themselves by `HeadDominatesParts`, and an invoke, whose value is there only on its normal
  edge, by `AvailabilityIsKept`. `ContextIsAvailable` and `ValidIR` are proved for functions
  in which no invoke returns an integer; without that the first is false, as
  `duplicate_invoke` shows, and the test injected would read a value not yet there.
- **`CallCounterProofs`** proves `TypeOK`, `OnlyOverlapsLoseCalls` and
  `NeverOvercounts` for any number of threads, functions and handlers, and that with
  one thread and no handlers the program implements `Tally`, by a step-by-step
  simulation. The first invariant says that at most one activation of a function
  without overlaps is between its load and its store, and that the register it
  holds is current; without the second half a store could write anything. The
  second (`CountInv`) says that a counter, and the register of each activation
  about to store, is behind the calls by at least the activations that have not stored.
- **`MBAProofs`** proves the identities: `x ^ y` and twice `x & y` sum to `x + y`
  by doubling from one bit to eight, and the polynomial `39`, `23`, `151`,
  `111` undoes itself modulo 256; `(a + ~b) + 1 = a - b` modulo any `m`. With them
  it proves every safety property of the pass: `TypeOK`, `EachTargetOnce`,
  `PreservedUntouched`, and **`SameValues`**: whatever the inputs, every source
  instruction has the value it had, in any function of any number of blocks.
  Assumed (`FunctionsAssumption`): instructions define distinct values, each reads
  constants, inputs and values defined before it, and operands have the
  type of the instruction, which is SSA and what the verifier checks; the inputs fit
  their types. The invariant (`Laid`, `Progress`) cuts each block in
  consecutive segments, one per source instruction, rewritten exactly when the
  iterator has passed it. `SameValues` is then a simulation of two runs: after
  any number of source instructions, the rewritten function agrees on all the values
  the source function has computed (`Agrees`), one segment at a time.
- **`OptProofs`** proves, for any modules, any pipelines and any number of passes,
  `TypeOK`, `CachedResultsAreCurrent`, `CountsAreRight`, `CallersAreExact`,
  `ProgramIsKept`, `EveryReturnIsLogged` and `ReportedAsCounted`. Assumed (`OptAssumption`): a module lists each function once,
  holds no body of a `printf_wrapper`, its bodies are ones the verifier accepts,
  and nothing in it comes from a pass (`IsProgramBody`). The
  typing invariant needs that the walk stays within a list that grows; that the
  caches are current needs, of each action, that what it keeps is a function of
  what it leaves alone: a result of the module may be stale during a walk, but then
  `at.kept` is false and the end of the walk drops it.

  The others are about what passes do to bodies, and rest on `FormedBodies`:
  whatever has run, each body is a list of blocks that end with a terminator,
  each direct call is of a function of the module, and each comparison is the program's and
  defines a value of its own. The last is what `convert-fcmp-eq` needs to find what
  it converts, and what it makes keeps it, since made values have names of three
  parts and the program's of two. `CodeSteps` reduces every step to one of five changes
  of the code. *The counts*: a map that is filled key by key holds each key's number of
  occurrences (`CountAllRight`), which for a list of callees is the number of call
  sites (`StaticsRight`), whatever order the module is walked in. *The caller map*: no
  pass loses a call but one that erases code (`ChangeKeepsCalls`), so who has
  been noted as a caller still is one (`CallersAreCallers`). *The program's
  instructions*: a conversion leaves all of an equality but its operands and predicate,
  and every other instruction whole (`Kept`, `KeptConverted`);
  what is the program's in a block is a flat map of the block, which
  distributes over everything passes insert; for an erasure, the place in
  the program is the count of the program's instructions up to the place in the code
  (`PlaceIs`, `OwnErased`), and the invariant adds that the program compared
  with stays all its own (`SourceKept`). *Hellos, goodbyes and log lines* along a way:
  the invariant `LoggedBodies` says of each function but the wrapper that its body has
  a shape, with numbers `h` and `l`: `h` hellos in front of the first block, then nothing of the
  two passes but `h` goodbyes and `l` lines in front of each return, and terminators only at the
  ends of blocks. No branch leads back to the first block, so a way through a body of that shape,
  however long, has it too (`WaysInduction`, `WaysAreLogged`), and `EveryReturnIsLogged` is what the
  shape of a list of instructions says of its counts and places (`WayIsLogged`).
  *The counters*: what a list of instructions does to them is what its part from
  dynamic-cc does (`RunCounters`), and lists run one after the other (`RunConcat`), so the invariant
  can speak of effects: the counting code at the entry of a function adds, in any state of the
  counters, as many as there are registrations (`TalliedBodies`), no other block holds any, and the
  block the destructors start at has one line on each function of the program (`Reporter`). That a
  triple adds one in any state (`TripleAdds`) is why the names of its registers do not matter.
- **`FCmpProofs`** proves `DifferenceDecides`: with any number of magnitudes and any
  threshold, the comparison of the absolute difference has the answer of the
  equality unless the pair is in `Confused`. It is by cases on the operands: a NaN, two
  infinities, one, none; the last by the sign and size of the difference. And it
  proves `ConvertsEach`: converting the comparisons of the list one after the other,
  each in the body the last conversion left, is the same as replacing every one of them
  at once. For this it has the lemmas on lists that `OptProofs` uses too: flattening,
  flat maps and counts, over an empty list, one element more, and two lists.

**Only model-checked.** Liveness (`Termination`, `ReportCompletes`), which needs
ENABLED; `SameBehaviour`, a comparison of two runs that `IRSemantics` folds over
instructions and branch outcomes; what is checked of `Pipeline`; of `Opt`, `ValidIR` (the names the model gives to
the values a pass makes are new only up to a number of passes), and that the converted
code computes the comparison of `DifferenceDecides` (`ComparisonsAgree`).

## Not modelled, and the plan

Statistics, debug output, the layout of what printers print, plugin
registration, the build, packaging, the registration script and tests change no
state of the system and are left out. `Opt` leaves out musttail calls, in front
of whose return nothing may be inserted, and modules that define a function or
global by a name the passes make up (`printf`, `printf_wrapper`, `CounterFor_*`):
on those the code asserts or redefines what it finds. That the counters, format
strings and messages are globals with the right initializers is not modelled.

What is left are proofs about values computed along whole runs: that a rewritten function
computes what the original did (`SameBehaviour`, `ComparisonsAgree`).
