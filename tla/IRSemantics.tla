----------------------------- MODULE IRSemantics -----------------------------
(***************************************************************************)
(* What a function computes, as far as an observer of its run can tell:    *)
(* the side effects in order, the conditions it branches on, and what it   *)
(* returns, with every value written as the term that computes it from the *)
(* arguments.  Two functions are compared by running them side by side     *)
(* along every sequence of branch outcomes of a bounded length.            *)
(*                                                                         *)
(* duplicate-bb puts branches of its own into a function.  They are not    *)
(* observed, whichever way they go; but a branch on poison is undefined    *)
(* behaviour, and that is.                                                 *)
(***************************************************************************)
EXTENDS IR, TLC

\* A run in progress: the block it is at, the block it came from, the terms
\* of the values computed so far, and what has been observed.
Start(f) == [at |-> f.entry, from |-> NoBlock, env |-> [v \in {NoValue} |-> <<v>>], out |-> <<>>]

Halted(m) == m.at = NoBlock

\* A name that no instruction defined yet is an argument or a constant.
Read(env, v) == IF v \in DOMAIN env THEN env[v] ELSE <<v>>

Effects == {"store", "call", "invoke"}
Observed == Effects \cup {"condbr", "switch", "indirectbr", "ret"}

\* The last two instructions of a block that branches on one of its own values
\* being null, as duplicate-bb leaves it.
Injected(f, b) ==
  LET c == f.code[b] IN Len(c) > 1 /\ Term(f, b).op = "condbr" /\ c[Len(c) - 1].op = "isnull"

\* What an instruction with this term adds to the observations.
Seen(i, term) ==
  IF i.op = "condbr" /\ term[2][1] = "isnull"
  THEN IF term[2][2] = <<Poison>> THEN <<<<"undefined">>>> ELSE <<>>
  ELSE IF i.op \in Observed THEN <<term>> ELSE <<>>

\* One instruction of a block entered from m.from with environment m.env.
Execute(m, acc, i) ==
  LET vals  == [k \in DOMAIN i.args |-> Read(acc.env, i.args[k])]
      term  == <<i.op>> \o vals
      out   == acc.out \o Seen(i, term)
      value == IF IsPhi(i)
               THEN IF m.from \in Range(i.from)
                    THEN Read(m.env, IncomingValue(i, m.from))
                    ELSE <<Poison>>
               ELSE IF i.op \in Effects THEN <<i.op, out>> ELSE term
  IN  [env |-> IF i.def = NoValue THEN acc.env ELSE (i.def :> value) @@ acc.env,
       out |-> out]

\* Run the block m is at, then take successor n of its terminator.
Step(f, m, n) ==
  IF Halted(m) THEN m
  ELSE LET here == FoldLeft(LAMBDA acc, i : Execute(m, acc, i),
                            [env |-> m.env, out |-> m.out], f.code[m.at])
       IN [at   |-> IF n \in DOMAIN f.succ[m.at] THEN f.succ[m.at][n] ELSE NoBlock,
           from |-> m.at, env |-> here.env, out |-> here.out]

\* The same for a block that may have been duplicated: its head, the clone on
\* one arm of the branch, and its tail.
StepThrough(f, m, n, arm) ==
  IF ~Halted(m) /\ Injected(f, m.at) THEN Step(f, Step(f, Step(f, m, arm), 1), n)
  ELSE Step(f, m, n)

Arms(f, m) == IF ~Halted(m) /\ Injected(f, m.at) THEN {1, 2} ELSE {1}

Outcomes(f, m) ==
  IF Halted(m) \/ f.succ[m.at] = <<>> THEN {1} ELSE DOMAIN f.succ[m.at]

\* f and g side by side for n blocks of f, along every sequence of outcomes
\* of f and, in g, through either clone of each block.
SideBySide(f, g, depth) ==
  LET runs[n \in 0 .. depth] ==
        IF n = 0 THEN {<<Start(f), Start(g)>>}
        ELSE UNION { {<<Step(f, r[1], o), StepThrough(g, r[2], o, arm)>> :
                         o \in Outcomes(f, r[1]), arm \in Arms(g, r[2])}
                     : r \in runs[n - 1] }
  IN  runs[depth]

SameObservations(f, g, depth) ==
  \A r \in SideBySide(f, g, depth) :
    /\ r[1].out = r[2].out
    /\ Halted(r[1]) = Halted(r[2])
=============================================================================
