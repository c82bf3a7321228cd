-------------------------------- MODULE Tally --------------------------------
(***************************************************************************)
(* What the dynamic-cc pass promises of an instrumented program: it counts *)
(* the calls of every function it defines and, when the program exits,     *)
(* reports each count once, modulo the range of an i32.                    *)
(***************************************************************************)
EXTENDS Naturals

CONSTANTS
  Function,   \* the functions defined in the module
  Wrap        \* the number of values a counter can hold, 2^32

VARIABLES
  tally,      \* the calls of each function so far
  closed,     \* no more calls are counted
  report      \* the counts printed so far

vars == <<tally, closed, report>>

Init ==
  /\ tally = [f \in Function |-> 0]
  /\ closed = FALSE
  /\ report = [f \in {} |-> 0]

Call(f) ==
  /\ ~closed
  /\ tally' = [tally EXCEPT ![f] = @ + 1]
  /\ UNCHANGED <<closed, report>>

Close ==
  /\ closed' = TRUE
  /\ UNCHANGED <<tally, report>>

ReportLine(f) ==
  /\ closed
  /\ f \notin DOMAIN report
  /\ report' = [g \in DOMAIN report \cup {f} |->
                  IF g = f THEN tally[f] % Wrap ELSE report[g]]
  /\ UNCHANGED <<tally, closed>>

Next == Close \/ \E f \in Function : Call(f) \/ ReportLine(f)

Spec == Init /\ [][Next]_vars
=============================================================================
