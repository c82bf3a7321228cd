------------------------------ MODULE IRProofs ------------------------------
(***************************************************************************)
(* Reachability and dominance, for every control-flow graph: what the      *)
(* recursive definitions of module IR compute, and the order that          *)
(* dominance is.  The proofs about the passes build on these facts.        *)
(***************************************************************************)
EXTENDS IR, FiniteSetTheorems, TLAPS

-----------------------------------------------------------------------------
(* Induction and iteration.                                                *)

\* Induction over the elements of a set; it follows from the well-foundedness
\* of the intervals 0 .. n under inclusion.
LEMMA Induction ==
  ASSUME NEW S, 0 \in S, \A n \in Nat : n \in S => n + 1 \in S
  PROVE  Nat \subseteq S
<1> SUFFICES ASSUME Nat \ S # {} PROVE FALSE
  OBVIOUS
<1> DEFINE T == {0 .. n : n \in Nat \ S}
<1>1. T # {} /\ T \subseteq FiniteSubsetsOf(Nat)
  <2>1. \A n \in Nat : IsFiniteSet(0 .. n)
    BY FS_Interval
  <2> QED
    BY <2>1 DEF FiniteSubsetsOf
<1> HIDE DEF T
<1>2. IsWellFoundedOn(StrictSubsetOrdering(Nat), FiniteSubsetsOf(Nat))
  BY FS_StrictSubsetOrderingWellFounded
<1>3. PICK x \in T : \A y \in T : <<y, x>> \notin StrictSubsetOrdering(Nat)
  BY <1>1, <1>2, WFMin
<1>4. PICK n \in Nat \ S : x = 0 .. n
  BY <1>3 DEF T
<1>5. n # 0 /\ n - 1 \in Nat
  BY <1>4
<1>6. n - 1 \notin S
  BY <1>4, <1>5
<1>7. 0 .. n - 1 \in T
  BY <1>5, <1>6 DEF T
<1>8. <<0 .. n - 1, x>> \in StrictSubsetOrdering(Nat)
  <2>1. 0 .. n - 1 \subseteq 0 .. n /\ n \in 0 .. n /\ n \notin 0 .. n - 1
    BY <1>4, <1>5
  <2>2. (0 .. n - 1) \in SUBSET Nat /\ 0 .. n \in SUBSET Nat /\ 0 .. n - 1 # 0 .. n
    BY <2>1
  <2> QED
    BY <1>4, <2>1, <2>2 DEF StrictSubsetOrdering
<1> QED
  BY <1>3, <1>7, <1>8

\* w lists what N applications of G make of d.
Iterates(G, d, N, w) == w = [n \in 0 .. N |-> IF n = 0 THEN d ELSE G[w[n - 1]]]

LEMMA IteratesOneByOne ==
  ASSUME NEW D, NEW G \in [D -> D], NEW d \in D, NEW N \in Nat,
         NEW w \in [0 .. N -> D], Iterates(G, d, N, w)
  PROVE  w[0] = d /\ \A n \in 1 .. N : w[n] = G[w[n - 1]]
<1> DEFINE e == [n \in 0 .. N |-> IF n = 0 THEN d ELSE G[w[n - 1]]]
<1>1. e[0] = d /\ \A n \in 1 .. N : e[n] = G[w[n - 1]]
  OBVIOUS
<1>2. w = e
  BY DEF Iterates
<1> QED
  BY <1>1, <1>2

\* A function may be iterated any number of times.
LEMMA Iteration ==
  ASSUME NEW D, NEW G \in [D -> D], NEW d \in D, NEW N \in Nat
  PROVE  \E w \in [0 .. N -> D] : Iterates(G, d, N, w)
<1> DEFINE S == {k \in Nat : \E w \in [0 .. k -> D] : Iterates(G, d, k, w)}
<1>1. 0 \in S
  <2> DEFINE w == [n \in 0 .. 0 |-> d]
  <2>1. w \in [0 .. 0 -> D] /\ Iterates(G, d, 0, w)
    BY DEF Iterates
  <2> QED
    BY <2>1
<1>2. ASSUME NEW k \in Nat, k \in S PROVE k + 1 \in S
  <2>1. PICK w \in [0 .. k -> D] : Iterates(G, d, k, w)
    BY <1>2
  <2>2. w[0] = d /\ \A n \in 1 .. k : w[n] = G[w[n - 1]]
    BY <2>1, IteratesOneByOne
  <2> DEFINE v == [n \in 0 .. k + 1 |-> IF n = k + 1 THEN G[w[k]] ELSE w[n]]
  <2>3. v \in [0 .. k + 1 -> D]
    OBVIOUS
  <2>4. ASSUME NEW n \in 0 .. k + 1 PROVE v[n] = IF n = 0 THEN d ELSE G[v[n - 1]]
    BY <2>2
  <2>5. Iterates(G, d, k + 1, v)
    BY <2>4 DEF Iterates
  <2> HIDE DEF v
  <2> QED
    BY <2>3, <2>5
<1> HIDE DEF S
<1>3. N \in S
  BY <1>1, <1>2, Induction
<1> QED
  BY <1>3 DEF S

\* A growing chain of subsets of a finite set does not grow longer than the
\* set is large.
LEMMA ChainStops ==
  ASSUME NEW B, IsFiniteSet(B), NEW G \in [SUBSET B -> SUBSET B],
         \A X \in SUBSET B : X \subseteq G[X],
         NEW w \in [0 .. Cardinality(B) -> SUBSET B],
         \A n \in 1 .. Cardinality(B) : w[n] = G[w[n - 1]],
         w[0] # {} \/ G[w[0]] = w[0]
  PROVE  G[w[Cardinality(B)]] = w[Cardinality(B)]
<1> DEFINE N == Cardinality(B)
           S == {n \in Nat : n \in 0 .. N => (G[w[n]] = w[n] \/ Cardinality(w[n]) > n)}
<1>1. N \in Nat
  BY FS_CardinalityType
<1>2. \A X \in SUBSET B : IsFiniteSet(X) /\ Cardinality(X) \in Nat /\ Cardinality(X) <= N
  BY FS_Subset, FS_CardinalityType
<1>3. 0 \in S
  <2>1. w[0] \in SUBSET B
    BY <1>1
  <2>2. w[0] # {} => Cardinality(w[0]) > 0
    BY <1>2, <2>1, FS_EmptySet
  <2> QED
    BY <2>2
<1>4. ASSUME NEW n \in Nat, n \in S PROVE n + 1 \in S
  <2> SUFFICES ASSUME n + 1 \in 0 .. N
               PROVE  G[w[n + 1]] = w[n + 1] \/ Cardinality(w[n + 1]) > n + 1
    OBVIOUS
  <2>1. n \in 0 .. N /\ w[n] \in SUBSET B /\ w[n + 1] \in SUBSET B /\ w[n + 1] = G[w[n]]
    BY <1>1
  <2>2. CASE G[w[n]] = w[n]
    BY <2>1, <2>2
  <2>3. CASE G[w[n]] # w[n]
    <3>1. Cardinality(w[n]) > n
      BY <1>4, <2>1, <2>3
    <3>2. Cardinality(w[n]) < Cardinality(w[n + 1])
      BY <1>2, <2>1, <2>3, FS_Subset
    <3> QED
      BY <1>2, <2>1, <3>1, <3>2
  <2> QED
    BY <2>2, <2>3
<1>5. N \in S
  <2> HIDE DEF S
  <2> QED
    BY <1>1, <1>3, <1>4, Induction
<1>6. w[N] \in SUBSET B
  BY <1>1
<1> QED
  BY <1>1, <1>2, <1>5, <1>6
-----------------------------------------------------------------------------
(* Reachability.                                                           *)

\* What one more round of the search adds to X.
Closer(g, a, X) == X \cup ((UNION {Range(g.succ[b]) : b \in X}) \ {a})

\* w lists what the search has found after each round.
Rounds(g, a, w) ==
  w = [n \in 0 .. Cardinality(g.blocks) |->
         IF n = 0 THEN {g.entry} \ {a} ELSE Closer(g, a, w[n - 1])]

LEMMA RoundByRound ==
  ASSUME NEW g, NEW a, NEW w, Rounds(g, a, w), Cardinality(g.blocks) \in Nat
  PROVE  /\ w[0] = {g.entry} \ {a}
         /\ \A n \in 1 .. Cardinality(g.blocks) : w[n] = Closer(g, a, w[n - 1])
<1> DEFINE N == Cardinality(g.blocks)
           e == [n \in 0 .. N |-> IF n = 0 THEN {g.entry} \ {a} ELSE Closer(g, a, w[n - 1])]
<1>1. w = e
  BY DEF Rounds
<1> HIDE DEF N
<1>2. e[0] = {g.entry} \ {a} /\ \A n \in 1 .. N : e[n] = Closer(g, a, w[n - 1])
  BY DEF N
<1> QED
  BY <1>1, <1>2 DEF N

\* X is closed under the edges that do not lead to a.
Closed(g, a, X) == \A b \in X : Range(g.succ[b]) \subseteq X \cup {a}

LEMMA CloserStaysInside ==
  ASSUME NEW g, ControlFlowGraph(g), NEW a, NEW X \in SUBSET g.blocks
  PROVE  X \subseteq Closer(g, a, X) /\ Closer(g, a, X) \in SUBSET g.blocks
BY DEF ControlFlowGraph, Closer

\* The recursive definition has a solution, and ReachableAvoiding is its end.
LEMMA ReachableIsLastRound ==
  ASSUME NEW g, ControlFlowGraph(g), NEW a
  PROVE  \E w \in [0 .. Cardinality(g.blocks) -> SUBSET g.blocks] :
           Rounds(g, a, w) /\ ReachableAvoiding(g, a) = w[Cardinality(g.blocks)]
<1> DEFINE N == Cardinality(g.blocks)
           D == SUBSET g.blocks
           G == [X \in D |-> Closer(g, a, X)]
           u == CHOOSE w : Rounds(g, a, w)
<1>1. N \in Nat /\ {g.entry} \ {a} \in D
  BY FS_CardinalityType DEF ControlFlowGraph
<1>2. G \in [D -> D]
  BY CloserStaysInside
<1>3. \E w : Rounds(g, a, w)
  <2> HIDE DEF N, D, G, u
  <2> DEFINE d == {g.entry} \ {a}
  <2>1. PICK w \in [0 .. N -> D] : Iterates(G, d, N, w)
    BY <1>1, <1>2, Iteration
  <2>2. ASSUME NEW n \in 1 .. N PROVE G[w[n - 1]] = Closer(g, a, w[n - 1])
    <3>1. w[n - 1] \in D
      BY <1>1
    <3> QED
      BY <3>1 DEF G
  <2>3. ASSUME NEW n \in 0 .. N
        PROVE  (IF n = 0 THEN {g.entry} \ {a} ELSE G[w[n - 1]])
                 = IF n = 0 THEN {g.entry} \ {a} ELSE Closer(g, a, w[n - 1])
    BY <1>1, <2>2
  <2>4. w = [n \in 0 .. N |-> IF n = 0 THEN {g.entry} \ {a} ELSE Closer(g, a, w[n - 1])]
    BY <2>1, <2>3 DEF Iterates
  <2> QED
    BY <2>4 DEF Rounds, N
<1>4. Rounds(g, a, u)
  BY <1>3
<1>5. ReachableAvoiding(g, a) = u[N]
  BY DEF ReachableAvoiding, Rounds, Closer
<1> HIDE DEF u
<1>6. DOMAIN u = 0 .. N /\ u = [n \in 0 .. N |-> u[n]]
  BY <1>4 DEF Rounds
<1>7. \A n \in Nat : n \in 0 .. N => u[n] \in D
  <2> DEFINE S == {n \in Nat : n \in 0 .. N => u[n] \in D}
  <2>1. 0 \in S
    BY <1>1, <1>4, RoundByRound
  <2>2. ASSUME NEW n \in Nat, n \in S PROVE n + 1 \in S
    <3> SUFFICES ASSUME n + 1 \in 0 .. N PROVE u[n + 1] \in D
      OBVIOUS
    <3>1. n \in 0 .. N /\ u[n + 1] = Closer(g, a, u[n])
      BY <1>1, <1>4, RoundByRound
    <3> QED
      BY <2>2, <3>1, CloserStaysInside
  <2> HIDE DEF S
  <2>3. Nat \subseteq S
    BY <2>1, <2>2, Induction
  <2> QED
    BY <2>3 DEF S
<1>8. u \in [0 .. N -> D]
  BY <1>1, <1>6, <1>7
<1> QED
  BY <1>4, <1>5, <1>8

\* What the recursion computes: the least set of blocks that holds the entry
\* and the ends of the edges out of it, with a left out.
THEOREM ReachableIsLeast ==
  ASSUME NEW g, ControlFlowGraph(g), NEW a
  PROVE  /\ ReachableAvoiding(g, a) \subseteq g.blocks \ {a}
         /\ g.entry # a => g.entry \in ReachableAvoiding(g, a)
         /\ Closed(g, a, ReachableAvoiding(g, a))
         /\ \A X : /\ g.entry # a => g.entry \in X
                   /\ Closed(g, a, X)
                   => ReachableAvoiding(g, a) \subseteq X
<1> DEFINE N == Cardinality(g.blocks)
           D == SUBSET g.blocks
           G == [X \in D |-> Closer(g, a, X)]
           R == ReachableAvoiding(g, a)
<1>1. PICK w \in [0 .. N -> D] : Rounds(g, a, w) /\ R = w[N]
  BY ReachableIsLastRound
<1>2. N \in Nat /\ IsFiniteSet(g.blocks)
  BY FS_CardinalityType DEF ControlFlowGraph
<1>3. w[0] = {g.entry} \ {a} /\ \A n \in 1 .. N : w[n] = Closer(g, a, w[n - 1])
  BY <1>1, <1>2, RoundByRound
<1>4. G \in [D -> D] /\ \A X \in D : X \subseteq G[X]
  BY CloserStaysInside
<1>5. \A n \in 1 .. N : w[n] = G[w[n - 1]]
  <2> TAKE n \in 1 .. N
  <2>1. w[n - 1] \in D
    BY <1>2
  <2> QED
    BY <1>3, <2>1
<1>6. w[0] # {} \/ G[w[0]] = w[0]
  <2>1. w[0] \in D
    BY <1>2
  <2>2. w[0] = {} => Closer(g, a, w[0]) = {}
    BY DEF Closer
  <2> QED
    BY <2>1, <2>2
<1>7. Closer(g, a, R) = R
  <2>1. G[w[N]] = w[N]
    <3> HIDE DEF G, D, N
    <3> QED
      BY <1>2, <1>4, <1>5, <1>6, ChainStops DEF D, N
  <2>2. w[N] \in D
    BY <1>2
  <2> QED
    BY <1>1, <2>1, <2>2
<1>8. ASSUME NEW X, g.entry # a => g.entry \in X, Closed(g, a, X)
      PROVE  R \subseteq X
  <2> DEFINE S == {n \in Nat : n \in 0 .. N => w[n] \subseteq X \ {a}}
  <2>1. 0 \in S
    BY <1>3, <1>8
  <2>2. ASSUME NEW n \in Nat, n \in S PROVE n + 1 \in S
    <3> SUFFICES ASSUME n + 1 \in 0 .. N PROVE w[n + 1] \subseteq X \ {a}
      OBVIOUS
    <3>1. n \in 0 .. N /\ w[n + 1] = Closer(g, a, w[n])
      BY <1>2, <1>3
    <3> QED
      BY <1>8, <2>2, <3>1 DEF Closer, Closed
  <2> HIDE DEF S
  <2>3. N \in S
    BY <1>2, <2>1, <2>2, Induction
  <2> QED
    BY <1>1, <1>2, <2>3 DEF S
<1>9. ASSUME NEW n \in 0 .. N PROVE w[0] \subseteq w[n] /\ a \notin w[n]
  <2> DEFINE S == {k \in Nat : k \in 0 .. N => w[0] \subseteq w[k] /\ a \notin w[k]}
  <2>1. 0 \in S
    BY <1>3
  <2>2. ASSUME NEW k \in Nat, k \in S PROVE k + 1 \in S
    <3> SUFFICES ASSUME k + 1 \in 0 .. N PROVE w[0] \subseteq w[k + 1] /\ a \notin w[k + 1]
      OBVIOUS
    <3>1. k \in 0 .. N /\ w[k + 1] = Closer(g, a, w[k])
      BY <1>2, <1>3
    <3> QED
      BY <2>2, <3>1 DEF Closer
  <2> HIDE DEF S
  <2>3. n \in S
    BY <2>1, <2>2, Induction
  <2> QED
    BY <2>3 DEF S
<1>10. w[N] \in D /\ N \in 0 .. N
  BY <1>2
<1>11. R \subseteq g.blocks \ {a} /\ (g.entry # a => g.entry \in R)
  BY <1>1, <1>3, <1>9, <1>10
<1>12. Closed(g, a, R)
  BY <1>7 DEF Closer, Closed
<1> HIDE DEF R
<1> QED
  BY <1>8, <1>11, <1>12 DEF R
-----------------------------------------------------------------------------
(* Dominance.                                                              *)

LEMMA ReachableIsClosed ==
  ASSUME NEW g, ControlFlowGraph(g)
  PROVE  /\ Reachable(g) \subseteq g.blocks
         /\ g.entry \in Reachable(g)
         /\ \A b \in Reachable(g) : Range(g.succ[b]) \subseteq Reachable(g)
<1>1. g.entry # NoBlock /\ NoBlock \notin g.blocks
  BY DEF ControlFlowGraph
<1>2. /\ Reachable(g) \subseteq g.blocks
      /\ g.entry \in Reachable(g)
      /\ Closed(g, NoBlock, Reachable(g))
  BY <1>1, ReachableIsLeast DEF Reachable
<1> QED
  BY <1>1, <1>2 DEF Closed, ControlFlowGraph

\* A set of blocks that holds the entry and does not end holds what is reachable.
LEMMA ClosedHoldsReachable ==
  ASSUME NEW g, ControlFlowGraph(g), NEW X, g.entry \in X,
         \A b \in X \cap Reachable(g) : Range(g.succ[b]) \subseteq X
  PROVE  Reachable(g) \subseteq X
<1>1. g.entry \in X \cap Reachable(g) /\ Closed(g, NoBlock, X \cap Reachable(g))
  BY ReachableIsClosed DEF Closed
<1>2. ReachableAvoiding(g, NoBlock) \subseteq X \cap Reachable(g)
  BY <1>1, ReachableIsLeast
<1> QED
  BY <1>2 DEF Reachable

LEMMA ReachableShrinks ==
  ASSUME NEW g, ControlFlowGraph(g), NEW a
  PROVE  ReachableAvoiding(g, a) \subseteq Reachable(g)
<1>1. g.entry \in Reachable(g) /\ Closed(g, a, Reachable(g))
  BY ReachableIsClosed DEF Closed
<1> QED
  BY <1>1, ReachableIsLeast

\* What is reached without b is reached without the blocks b dominates.
LEMMA DominatorsShadow ==
  ASSUME NEW g, ControlFlowGraph(g), NEW a, NEW b, a # b, b \notin ReachableAvoiding(g, a)
  PROVE  ReachableAvoiding(g, a) \subseteq ReachableAvoiding(g, b)
<1> DEFINE A == ReachableAvoiding(g, a)
           B == ReachableAvoiding(g, b)
<1>1. /\ g.entry # a => g.entry \in A
      /\ g.entry # b => g.entry \in B
      /\ Closed(g, a, A) /\ Closed(g, b, B)
  BY ReachableIsLeast
<1>2. g.entry # a => g.entry \in A \cap B
  BY <1>1
<1>3. Closed(g, a, A \cap B)
  BY <1>1 DEF Closed
<1>4. A \subseteq A \cap B
  BY <1>2, <1>3, ReachableIsLeast
<1> QED
  BY <1>4

\* Dominance is transitive,
THEOREM DominanceIsTransitive ==
  ASSUME NEW g, ControlFlowGraph(g), NEW a, NEW b, NEW c,
         Dominates(g, a, b), Dominates(g, b, c)
  PROVE  Dominates(g, a, c)
BY DominatorsShadow DEF Dominates

\* no two reachable blocks dominate each other,
THEOREM DominanceIsAntisymmetric ==
  ASSUME NEW g, ControlFlowGraph(g), NEW a \in Reachable(g), NEW b \in Reachable(g),
         Dominates(g, a, b), Dominates(g, b, a)
  PROVE  a = b
<1> SUFFICES ASSUME a # b PROVE FALSE
  OBVIOUS
<1> DEFINE A == ReachableAvoiding(g, a)
<1>1. b \notin A /\ a \notin A /\ A = ReachableAvoiding(g, b)
  BY DominatorsShadow, ReachableIsLeast DEF Dominates
<1>2. g.entry \in A /\ Closed(g, a, A) /\ Closed(g, b, A)
  BY <1>1, ReachableIsLeast
<1>3. \A x \in A : Range(g.succ[x]) \subseteq A
  BY <1>1, <1>2 DEF Closed
<1>4. Reachable(g) \subseteq A
  BY <1>2, <1>3, ClosedHoldsReachable
<1> QED
  BY <1>1, <1>4

\* the dominators of a reachable block dominate one another,
THEOREM DominatorsFormAChain ==
  ASSUME NEW g, ControlFlowGraph(g), NEW b \in Reachable(g), NEW a, NEW c,
         Dominates(g, a, b), Dominates(g, c, b)
  PROVE  Dominates(g, a, c) \/ Dominates(g, c, a)
<1> SUFFICES ASSUME ~Dominates(g, a, c), ~Dominates(g, c, a) PROVE FALSE
  OBVIOUS
<1> DEFINE A == ReachableAvoiding(g, a)
           C == ReachableAvoiding(g, c)
<1>1. a # c /\ c \in A /\ a \in C /\ b \notin A \cup C
  BY DEF Dominates
<1>2. g.entry \in A \cup C /\ Closed(g, a, A) /\ Closed(g, c, C)
  BY <1>1, ReachableIsLeast
<1>3. \A x \in A \cup C : Range(g.succ[x]) \subseteq A \cup C
  BY <1>1, <1>2 DEF Closed
<1>4. Reachable(g) \subseteq A \cup C
  BY <1>2, <1>3, ClosedHoldsReachable
<1> QED
  BY <1>1, <1>4

\* and the entry dominates every block.
LEMMA EntryDominates ==
  ASSUME NEW g, ControlFlowGraph(g), NEW b
  PROVE  Dominates(g, g.entry, b)
<1>1. Closed(g, g.entry, {})
  BY DEF Closed
<1>2. ReachableAvoiding(g, g.entry) = {}
  BY <1>1, ReachableIsLeast
<1> QED
  BY <1>2 DEF Dominates

LEMMA OnlyEntryDominatesEntry ==
  ASSUME NEW g, ControlFlowGraph(g), NEW a, Dominates(g, a, g.entry)
  PROVE  a = g.entry
BY ReachableIsLeast DEF Dominates

\* A dominator of a block dominates its reachable predecessors or is one.
LEMMA DominatorOfPredecessor ==
  ASSUME NEW g, ControlFlowGraph(g), NEW b, NEW p \in Reachable(g), b \in Range(g.succ[p]),
         NEW a, a # b, Dominates(g, a, b)
  PROVE  Dominates(g, a, p)
BY ReachableIsLeast DEF Dominates, Closed
=============================================================================
