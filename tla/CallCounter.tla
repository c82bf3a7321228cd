----------------------------- MODULE CallCounter -----------------------------
(***************************************************************************)
(* A program instrumented by the dynamic-cc pass (lib/                     *)
(* DynamicCallCounter.cpp) while it runs: the load, add and store that the *)
(* pass puts in front of every function it finds a body for, and the       *)
(* printf_wrapper it registers as a destructor of the module.              *)
(*                                                                         *)
(* The program itself is open: its threads call and return as they please. *)
(* The counter of a function is an ordinary i32 in memory, so each load    *)
(* and each store of it is a step of its own; the add happens in a         *)
(* register.  A signal handler may run between any two steps of a thread.  *)
(***************************************************************************)
EXTENDS Integers, SequencesExt

CONSTANTS
  Thread,      \* the threads of the program
  Function,    \* the functions with a body in the instrumented module
  Handler,     \* those of them installed as signal handlers
  Wrap,        \* the number of values of an i32
  MaxCalls     \* bound on the calls of each function

ASSUME ProgramAssumption ==
  /\ Handler \subseteq Function
  /\ Wrap \in Nat \ {0}
  /\ MaxCalls \in Nat

VARIABLES
  counter,     \* the globals CounterFor_<f>
  stack,       \* the activations of each thread, the running one last
  phase,       \* "running", "exiting" while the destructor runs, "ended"
  leaver,      \* the thread that runs the destructor, once there is one
  report,      \* the lines printf_wrapper has printed
  calls,       \* history: the calls of each function
  overlapped   \* history: functions called while an update was under way

vars == <<counter, stack, phase, leaver, report, calls, overlapped>>

\* An activation: its function, the next step of it, the loaded value.
Activations == [fn : Function, at : {"load", "store", "body"}, reg : 0 .. Wrap - 1]
Activation(f, at, reg) == [fn |-> f, at |-> at, reg |-> reg]

Running(t) == stack[t] # <<>> /\ phase # "ended" /\ t \notin leaver
Top(t) == Last(stack[t])
SetTop(t, a) == [stack EXCEPT ![t] = Append(Front(@), a)]

\* Some activation of f has not stored its increment yet.
Updating(f) ==
  \E t \in Thread : \E i \in DOMAIN stack[t] : stack[t][i].fn = f /\ stack[t][i].at # "body"
-----------------------------------------------------------------------------
\* The counters are defined with initialiser 0.
Init ==
  /\ counter = [f \in Function |-> 0]
  /\ stack = [t \in Thread |-> <<>>]
  /\ phase = "running"
  /\ leaver = {}
  /\ report = [f \in {} |-> 0]
  /\ calls = [f \in Function |-> 0]
  /\ overlapped = {}

\* Thread t starts in f, calls f from a body, or is interrupted by handler f.
Call(t, f) ==
  /\ phase # "ended" /\ t \notin leaver
  /\ calls[f] < MaxCalls
  /\ stack[t] # <<>> => (Top(t).at = "body" \/ f \in Handler)
  /\ stack' = [stack EXCEPT ![t] = Append(@, Activation(f, "load", 0))]
  /\ calls' = [calls EXCEPT ![f] = @ + 1]
  /\ overlapped' = IF Updating(f) THEN overlapped \cup {f} ELSE overlapped
  /\ UNCHANGED <<counter, phase, leaver, report>>

Load(t) ==
  /\ Running(t) /\ Top(t).at = "load"
  /\ stack' = SetTop(t, Activation(Top(t).fn, "store", counter[Top(t).fn]))
  /\ UNCHANGED <<counter, phase, leaver, report, calls, overlapped>>

\* Mutant: the increment is lost.
StoreLoaded(t) ==
  /\ Running(t) /\ Top(t).at = "store"
  /\ counter' = [counter EXCEPT ![Top(t).fn] = Top(t).reg]
  /\ stack' = SetTop(t, Activation(Top(t).fn, "body", 0))
  /\ UNCHANGED <<phase, leaver, report, calls, overlapped>>

\* Mutant: the increment was injected twice, as by a second run of the pass.
StoreTwice(t) ==
  /\ Running(t) /\ Top(t).at = "store"
  /\ counter' = [counter EXCEPT ![Top(t).fn] = (Top(t).reg + 2) % Wrap]
  /\ stack' = SetTop(t, Activation(Top(t).fn, "body", 0))
  /\ UNCHANGED <<phase, leaver, report, calls, overlapped>>

\* Mutant: the counter stops at its largest value.
StoreSaturated(t) ==
  /\ Running(t) /\ Top(t).at = "store"
  /\ counter' = [counter EXCEPT ![Top(t).fn] = IF Top(t).reg = Wrap - 1 THEN @ ELSE Top(t).reg + 1]
  /\ stack' = SetTop(t, Activation(Top(t).fn, "body", 0))
  /\ UNCHANGED <<phase, leaver, report, calls, overlapped>>

\* Mutant: the counter does not wrap.
StoreUnwrapped(t) ==
  /\ Running(t) /\ Top(t).at = "store"
  /\ counter' = [counter EXCEPT ![Top(t).fn] = Top(t).reg + 1]
  /\ stack' = SetTop(t, Activation(Top(t).fn, "body", 0))
  /\ UNCHANGED <<phase, leaver, report, calls, overlapped>>

\* The add, and the store of its result.
Store(t) ==
  /\ Running(t) /\ Top(t).at = "store"
  /\ counter' = [counter EXCEPT ![Top(t).fn] = (Top(t).reg + 1) % Wrap]
  /\ stack' = SetTop(t, Activation(Top(t).fn, "body", 0))
  /\ UNCHANGED <<phase, leaver, report, calls, overlapped>>

Return(t) ==
  /\ Running(t) /\ Top(t).at = "body"
  /\ stack' = [stack EXCEPT ![t] = Front(@)]
  /\ UNCHANGED <<counter, phase, leaver, report, calls, overlapped>>

\* Thread t calls exit, from a body, or main has returned; the destructors
\* run on t while the other threads go on.
Exit(t) ==
  /\ phase = "running"
  /\ stack[t] # <<>> => Top(t).at = "body"
  /\ phase' = "exiting"
  /\ leaver' = {t}
  /\ UNCHANGED <<counter, stack, report, calls, overlapped>>

\* Mutant: functions that were never called get no line.
ReportCalled(f) ==
  /\ phase = "exiting"
  /\ f \notin DOMAIN report
  /\ counter[f] # 0
  /\ report' = [g \in DOMAIN report \cup {f} |-> IF g = f THEN counter[f] ELSE report[g]]
  /\ UNCHANGED <<counter, stack, phase, leaver, calls, overlapped>>

\* printf_wrapper loads one counter and prints its line; the order of the
\* lines is that of a hash table.
ReportLine(f) ==
  /\ phase = "exiting"
  /\ f \notin DOMAIN report
  /\ report' = [g \in DOMAIN report \cup {f} |-> IF g = f THEN counter[f] ELSE report[g]]
  /\ UNCHANGED <<counter, stack, phase, leaver, calls, overlapped>>

\* printf_wrapper returns and the process is gone.
End ==
  /\ phase = "exiting"
  /\ DOMAIN report = Function
  /\ phase' = "ended"
  /\ UNCHANGED <<counter, stack, leaver, report, calls, overlapped>>

\* The process is killed, or a thread calls abort: no destructor runs.
Abort ==
  /\ phase # "ended"
  /\ phase' = "ended"
  /\ UNCHANGED <<counter, stack, leaver, report, calls, overlapped>>

Ended == phase = "ended" /\ UNCHANGED vars

Next ==
  \/ \E t \in Thread : Load(t) \/ Store(t) \/ Return(t) \/ Exit(t)
  \/ \E t \in Thread, f \in Function : Call(t, f)
  \/ \E f \in Function : ReportLine(f)
  \/ End \/ Abort \/ Ended

\* The destructor is not blocked by anything: its steps go on to the end.
Spec == Init /\ [][Next]_vars /\ WF_vars(End \/ \E f \in Function : ReportLine(f))
-----------------------------------------------------------------------------
\* The variables range over what their comments say.
TypeOK ==
  /\ counter \in [Function -> 0 .. Wrap - 1]
  /\ stack \in [Thread -> Seq(Activations)]
  /\ phase \in {"running", "exiting", "ended"}
  /\ leaver \subseteq Thread
  /\ DOMAIN report \subseteq Function
  /\ \A f \in DOMAIN report : report[f] \in 0 .. Wrap - 1
  /\ calls \in [Function -> Nat]
  /\ overlapped \subseteq Function

\* a and b are equal modulo the range of a counter.
Congruent(a, b) == a % Wrap = b % Wrap

\* Threads, recursion and handlers alone lose nothing: as long as no call of
\* f began while another call of f was between its load and its store, the
\* counter has seen every call of f but the one that is updating it.
OnlyOverlapsLoseCalls ==
  \A f \in Function \ overlapped :
    Congruent(calls[f], IF Updating(f) THEN counter[f] + 1 ELSE counter[f])

\* No interleaving, overlapped or not, makes a counter exceed its calls.
NeverOvercounts == \A f \in Function : counter[f] <= calls[f]

\* A report, once begun, is completed, unless the process is killed first.
ReportCompletes == (phase = "exiting") ~> (phase = "ended")

\* In a program with one thread and no handler, the report is what was
\* promised: the load, the add and the store look like one step.
Promise == INSTANCE Tally WITH tally <- calls, closed <- phase # "running"

ImplementsTally == Promise!Spec
=============================================================================
