------------------------------ MODULE RIVProofs ------------------------------
(***************************************************************************)
(* Proofs about the reachable-integer-values analysis, for every set of    *)
(* control-flow graphs: what the analysis returns is what is defined on    *)
(* every path.  That dominance makes a tree is proved, not assumed.        *)
(***************************************************************************)
EXTENDS RIV, IRProofs, SequenceTheorems

\* The part of the tree not walked yet hangs below the stack: a block that is
\* stacked, or has not been seen, has no child in the map.
SeenFromAbove ==
  \A p \in f.blocks :
    p \in Range(worklist) \/ p \notin DOMAIN riv => Children(f, p) \cap DOMAIN riv = {}

\* The part walked already hangs together: it holds the root, and the children
\* of each block that has left the stack.
WalkedFromRoot ==
  /\ f.entry \in DOMAIN riv /\ DOMAIN riv \subseteq Reachable(f)
  /\ \A p \in DOMAIN riv \ Range(worklist) : Children(f, p) \subseteq DOMAIN riv

IndInv ==
  /\ f \in Functions
  /\ worklist \in Seq(f.blocks)
  /\ riv = [b \in DOMAIN riv |-> riv[b]]
  /\ TypeOK
  /\ EntriesAreFinal
  /\ IsInjective(worklist)
  /\ SeenFromAbove
  /\ WalkedFromRoot
-----------------------------------------------------------------------------
(* The dominator tree.                                                     *)

LEMMA DominatorsAreReachable ==
  ASSUME NEW g, ControlFlowGraph(g), NEW b
  PROVE  /\ StrictDominators(g, b) \subseteq Reachable(g) \ {b}
         /\ IsFiniteSet(StrictDominators(g, b))
<1>1. StrictDominators(g, b) \subseteq Reachable(g) \ {b}
  BY DEF StrictDominators
<1>2. StrictDominators(g, b) \in SUBSET g.blocks /\ IsFiniteSet(g.blocks)
  BY <1>1, ReachableIsClosed DEF ControlFlowGraph
<1> QED
  BY <1>1, <1>2, FS_Subset

\* The dominators of a dominator are dominators, and it is not among them.
LEMMA StrictDominatorsNest ==
  ASSUME NEW g, ControlFlowGraph(g), NEW b \in Reachable(g), NEW p \in StrictDominators(g, b)
  PROVE  StrictDominators(g, p) \cup {p} \subseteq StrictDominators(g, b)
<1> SUFFICES ASSUME NEW a \in StrictDominators(g, p) PROVE a \in StrictDominators(g, b)
  OBVIOUS
<1>1. /\ a \in Reachable(g) /\ a # p /\ Dominates(g, a, p)
      /\ p \in Reachable(g) /\ p # b /\ Dominates(g, p, b)
  BY DEF StrictDominators
<1>2. Dominates(g, a, b)
  BY <1>1, DominanceIsTransitive
<1>3. a # b
  BY <1>1, DominanceIsAntisymmetric
<1> QED
  BY <1>1, <1>2, <1>3 DEF StrictDominators

\* Every reachable block but the entry has a nearest strict dominator.
LEMMA EveryBlockHasAParent ==
  ASSUME NEW g, ControlFlowGraph(g), NEW b \in Reachable(g) \ {g.entry}
  PROVE  \E p \in StrictDominators(g, b) : b \in Children(g, p)
<1> DEFINE SD(x) == StrictDominators(g, x)
           T == {SD(b) \ SD(x) : x \in SD(b)}
<1>1. SD(b) # {}
  BY EntryDominates, ReachableIsClosed DEF StrictDominators
<1>2. T # {} /\ T \subseteq FiniteSubsetsOf(g.blocks)
  <2>1. ASSUME NEW x \in SD(b) PROVE SD(b) \ SD(x) \in FiniteSubsetsOf(g.blocks)
    <3>1. SD(b) \subseteq g.blocks /\ IsFiniteSet(SD(b))
      BY DominatorsAreReachable, ReachableIsClosed
    <3>2. IsFiniteSet(SD(b) \ SD(x))
      BY <3>1, FS_Subset
    <3> QED
      BY <3>1, <3>2 DEF FiniteSubsetsOf
  <2> QED
    BY <1>1, <2>1
<1> HIDE DEF T
<1>3. IsWellFoundedOn(StrictSubsetOrdering(g.blocks), FiniteSubsetsOf(g.blocks))
  BY FS_StrictSubsetOrderingWellFounded
<1>4. PICK t \in T : \A y \in T : <<y, t>> \notin StrictSubsetOrdering(g.blocks)
  BY <1>2, <1>3, WFMin
<1>5. PICK p \in SD(b) : t = SD(b) \ SD(p)
  BY <1>4 DEF T
<1>6. SD(p) \cup {p} \subseteq SD(b)
  BY <1>5, StrictDominatorsNest
<1>7. ASSUME NEW a \in SD(b), a # p PROVE a \in SD(p)
  <2> SUFFICES ASSUME a \notin SD(p) PROVE FALSE
    OBVIOUS
  <2>1. /\ a \in Reachable(g) /\ Dominates(g, a, b)
        /\ p \in Reachable(g) /\ Dominates(g, p, b)
    BY <1>5 DEF StrictDominators
  <2>2. Dominates(g, p, a)
    BY <1>7, <2>1, DominatorsFormAChain DEF StrictDominators
  <2>3. p \in SD(a)
    BY <1>7, <2>1, <2>2 DEF StrictDominators
  <2>4. SD(p) \cup {p} \subseteq SD(a)
    BY <2>1, <2>3, StrictDominatorsNest
  <2>5. p \notin SD(p)
    BY DEF StrictDominators
  <2>6. SD(b) \ SD(a) \in T
    BY DEF T
  <2>7. /\ SD(b) \ SD(a) \subseteq t /\ SD(b) \ SD(a) # t
        /\ SD(b) \ SD(a) \in SUBSET g.blocks /\ t \in SUBSET g.blocks
    BY <1>2, <1>5, <2>4, <2>5, <2>6, <1>4 DEF FiniteSubsetsOf
  <2> QED
    BY <1>4, <2>6, <2>7 DEF StrictSubsetOrdering
<1> QED
  BY <1>5, <1>6, <1>7 DEF Children

\* The root has no dominator, a child is dominated by its parent and the
\* parent's dominators, a node has one parent.
LEMMA DominatorTrees ==
  \A g \in Functions :
    /\ g.entry \in g.blocks /\ IsFiniteSet(g.blocks)
    /\ StrictDominators(g, g.entry) = {}
    /\ \A p \in g.blocks :
         /\ Children(g, p) \subseteq g.blocks \ {p, g.entry}
         /\ \A b \in Children(g, p) :
              StrictDominators(g, b) = StrictDominators(g, p) \cup {p}
         /\ \A q \in g.blocks \ {p} : Children(g, p) \cap Children(g, q) = {}
<1> TAKE g \in Functions
<1>1. ControlFlowGraph(g)
  BY FunctionsAssumption
<1>2. StrictDominators(g, g.entry) = {}
  BY <1>1, OnlyEntryDominatesEntry DEF StrictDominators
<1>3. ASSUME NEW p \in g.blocks, NEW b \in Children(g, p)
      PROVE  /\ b \in g.blocks \ {p, g.entry} /\ p \in StrictDominators(g, b)
             /\ b \in Reachable(g)
             /\ StrictDominators(g, b) = StrictDominators(g, p) \cup {p}
  <2>1. b \in Reachable(g) /\ p \in StrictDominators(g, b)
    BY DEF Children
  <2> QED
    BY <1>1, <1>2, <2>1, ReachableIsClosed DEF Children, StrictDominators
<1>4. ASSUME NEW p \in g.blocks, NEW q \in g.blocks \ {p}, NEW b \in Children(g, p) \cap Children(g, q)
      PROVE  FALSE
  <2>1. p \in StrictDominators(g, q) /\ q \in StrictDominators(g, p)
    BY <1>3, <1>4
  <2> QED
    BY <1>1, <2>1, DominanceIsAntisymmetric DEF StrictDominators
<1> QED
  BY <1>1, <1>2, <1>3, <1>4 DEF ControlFlowGraph
-----------------------------------------------------------------------------
(* The data-flow equations, and their greatest solution.                   *)

AllValues(g) == EntryValues \cup UNION {DefinedValues(g, b) : b \in g.blocks}

\* What the equations start from, and one round of solving them.
Guess(g) == [b \in Reachable(g) |-> IF b = g.entry THEN EntryValues ELSE AllValues(g)]

Refined(g, before) ==
  [b \in DOMAIN before |->
     {v \in before[b] :
        \A p \in Preds(g, b) \cap DOMAIN before : v \in before[p] \cup DefinedValues(g, p)}]

\* in lists the guesses after each round.
Solves(g, in) ==
  in = [n \in 0 .. Cardinality(g.blocks) |-> IF n = 0 THEN Guess(g) ELSE Refined(g, in[n - 1])]

LEMMA RoundsOfSolving ==
  ASSUME NEW g, NEW in, Solves(g, in), Cardinality(g.blocks) \in Nat
  PROVE  /\ in[0] = Guess(g)
         /\ \A n \in 1 .. Cardinality(g.blocks) : in[n] = Refined(g, in[n - 1])
<1> DEFINE N == Cardinality(g.blocks)
           e == [n \in 0 .. N |-> IF n = 0 THEN Guess(g) ELSE Refined(g, in[n - 1])]
<1>1. in = e
  BY DEF Solves
<1> HIDE DEF N
<1>2. e[0] = Guess(g) /\ \A n \in 1 .. N : e[n] = Refined(g, in[n - 1])
  BY DEF N
<1> QED
  BY <1>1, <1>2 DEF N

Guesses(g) == [Reachable(g) -> SUBSET AllValues(g)]

LEMMA RefinedIsAGuess ==
  ASSUME NEW g, NEW before \in Guesses(g)
  PROVE  /\ Refined(g, before) \in Guesses(g)
         /\ \A b \in Reachable(g) :
              Refined(g, before)[b] =
                {v \in before[b] : \A p \in Preds(g, b) \cap Reachable(g) :
                                     v \in before[p] \cup DefinedValues(g, p)}
<1>1. DOMAIN before = Reachable(g)
  BY DEF Guesses
<1>2. \A b \in Reachable(g) : before[b] \subseteq AllValues(g)
  BY DEF Guesses
<1> QED
  BY <1>1, <1>2 DEF Refined, Guesses

LEMMA EveryPathIsLastRound ==
  ASSUME NEW g, ControlFlowGraph(g)
  PROVE  \E in \in [0 .. Cardinality(g.blocks) -> Guesses(g)] :
           Solves(g, in) /\ OnEveryPath(g) = in[Cardinality(g.blocks)]
<1> DEFINE N == Cardinality(g.blocks)
           D == Guesses(g)
           G == [X \in D |-> Refined(g, X)]
           d == Guess(g)
           u == CHOOSE in : Solves(g, in)
<1>1. N \in Nat
  BY FS_CardinalityType DEF ControlFlowGraph
<1>2. d \in D
  BY DEF Guess, Guesses, AllValues
<1>3. G \in [D -> D]
  BY RefinedIsAGuess
<1>4. \E in : Solves(g, in)
  <2> HIDE DEF N, D, G, d, u
  <2>1. PICK w \in [0 .. N -> D] : Iterates(G, d, N, w)
    BY <1>1, <1>2, <1>3, Iteration
  <2>2. ASSUME NEW n \in 1 .. N PROVE G[w[n - 1]] = Refined(g, w[n - 1])
    <3>1. w[n - 1] \in D
      BY <1>1
    <3> QED
      BY <3>1 DEF G
  <2>3. ASSUME NEW n \in 0 .. N
        PROVE  (IF n = 0 THEN d ELSE G[w[n - 1]]) = IF n = 0 THEN d ELSE Refined(g, w[n - 1])
    BY <1>1, <2>2
  <2>4. w = [n \in 0 .. N |-> IF n = 0 THEN d ELSE Refined(g, w[n - 1])]
    BY <2>1, <2>3 DEF Iterates
  <2> QED
    BY <2>4 DEF Solves, N, d
<1>5. Solves(g, u)
  BY <1>4
<1>6. OnEveryPath(g) = u[N]
  BY DEF OnEveryPath, Solves, Guess, Refined, AllValues
<1> HIDE DEF u
<1>7. DOMAIN u = 0 .. N /\ u = [n \in 0 .. N |-> u[n]]
  BY <1>5 DEF Solves
<1>8. \A n \in Nat : n \in 0 .. N => u[n] \in D
  <2> DEFINE S == {n \in Nat : n \in 0 .. N => u[n] \in D}
  <2>1. 0 \in S
    BY <1>1, <1>2, <1>5, RoundsOfSolving
  <2>2. ASSUME NEW n \in Nat, n \in S PROVE n + 1 \in S
    <3> SUFFICES ASSUME n + 1 \in 0 .. N PROVE u[n + 1] \in D
      OBVIOUS
    <3>1. n \in 0 .. N /\ u[n + 1] = Refined(g, u[n])
      BY <1>1, <1>5, RoundsOfSolving
    <3> QED
      BY <2>2, <3>1, RefinedIsAGuess
  <2> HIDE DEF S
  <2>3. Nat \subseteq S
    BY <2>1, <2>2, Induction
  <2> QED
    BY <2>3 DEF S
<1>9. u \in [0 .. N -> D]
  BY <1>1, <1>7, <1>8
<1> QED
  BY <1>5, <1>6, <1>9

FromDominators(g, b) ==
  EntryValues \cup UNION {DefinedValues(g, a) : a \in StrictDominators(g, b)}

\* What a dominator defines is defined on every path.
LEMMA DominatorsAreOnEveryPath ==
  ASSUME NEW g, ControlFlowGraph(g),
         NEW in \in [0 .. Cardinality(g.blocks) -> Guesses(g)], Solves(g, in),
         NEW n \in 0 .. Cardinality(g.blocks), NEW b \in Reachable(g)
  PROVE  FromDominators(g, b) \subseteq in[n][b]
<1> DEFINE N == Cardinality(g.blocks)
           R == Reachable(g)
           S == {k \in Nat : k \in 0 .. N => \A c \in R : FromDominators(g, c) \subseteq in[k][c]}
<1>1. N \in Nat /\ R \subseteq g.blocks
  BY FS_CardinalityType, ReachableIsClosed DEF ControlFlowGraph
<1>2. 0 \in S
  <2> SUFFICES ASSUME NEW c \in R PROVE FromDominators(g, c) \subseteq in[0][c]
    OBVIOUS
  <2>1. in[0] = Guess(g)
    BY <1>1, RoundsOfSolving
  <2>2. CASE c = g.entry
    <3>1. StrictDominators(g, c) = {}
      BY <2>2, OnlyEntryDominatesEntry DEF StrictDominators
    <3> QED
      BY <2>1, <2>2, <3>1 DEF FromDominators, Guess
  <2>3. CASE c # g.entry
    <3>1. FromDominators(g, c) \subseteq AllValues(g)
      BY <1>1, DominatorsAreReachable DEF FromDominators, AllValues
    <3> QED
      BY <2>1, <2>3, <3>1 DEF Guess
  <2> QED
    BY <2>2, <2>3
<1>3. ASSUME NEW k \in Nat, k \in S PROVE k + 1 \in S
  <2> SUFFICES ASSUME k + 1 \in 0 .. N, NEW c \in R, NEW v \in FromDominators(g, c)
               PROVE  v \in in[k + 1][c]
    OBVIOUS
  <2>1. k \in 0 .. N /\ in[k] \in Guesses(g) /\ in[k + 1] = Refined(g, in[k])
    BY <1>1, RoundsOfSolving
  <2>2. \A x \in R : FromDominators(g, x) \subseteq in[k][x]
    BY <1>3, <2>1
  <2>3. ASSUME NEW p \in Preds(g, c) \cap R PROVE v \in in[k][p] \cup DefinedValues(g, p)
    <3>1. CASE v \in EntryValues
      BY <2>2, <3>1 DEF FromDominators
    <3>2. CASE v \notin EntryValues
      <4>1. PICK a \in StrictDominators(g, c) : v \in DefinedValues(g, a)
        BY <3>2 DEF FromDominators
      <4>2. a # c /\ Dominates(g, a, c) /\ a \in R /\ c \in Range(g.succ[p])
        BY DEF StrictDominators, Preds
      <4>3. Dominates(g, a, p)
        BY <4>2, DominatorOfPredecessor
      <4>4. a = p \/ a \in StrictDominators(g, p)
        BY <4>2, <4>3 DEF StrictDominators
      <4> QED
        BY <2>2, <4>1, <4>4 DEF FromDominators
    <3> QED
      BY <3>1, <3>2
  <2> HIDE DEF R
  <2> QED
    BY <2>1, <2>2, <2>3, RefinedIsAGuess DEF R
<1> HIDE DEF S
<1>4. Nat \subseteq S
  BY <1>2, <1>3, Induction
<1> QED
  BY <1>1, <1>4 DEF S

\* The blocks some path reaches without passing a definition of v, given those
\* in X that are known to be such.
Lacking(g, v, X) ==
  X \cup {b \in Reachable(g) : \E p \in Preds(g, b) \cap X : v \notin DefinedValues(g, p)}

\* After the last round, no such block is missing.
LEMMA LackingIsComplete ==
  ASSUME NEW g, ControlFlowGraph(g),
         NEW in \in [0 .. Cardinality(g.blocks) -> Guesses(g)], Solves(g, in),
         NEW v, v \notin EntryValues
  PROVE  LET X == {b \in Reachable(g) : v \notin in[Cardinality(g.blocks)][b]} IN
         g.entry \in X /\ Lacking(g, v, X) = X
<1> DEFINE N == Cardinality(g.blocks)
           R == Reachable(g)
           B == g.blocks
           G == [X \in SUBSET B |-> Lacking(g, v, X)]
           w == [n \in 0 .. N |-> {b \in R : v \notin in[n][b]}]
<1>1. N \in Nat /\ IsFiniteSet(B) /\ R \subseteq B /\ g.entry \in R
  BY FS_CardinalityType, ReachableIsClosed DEF ControlFlowGraph
<1>2. w \in [0 .. N -> SUBSET B]
  BY <1>1
<1>3. G \in [SUBSET B -> SUBSET B] /\ \A X \in SUBSET B : X \subseteq G[X]
  BY <1>1 DEF Lacking
<1>4. ASSUME NEW n \in 1 .. N PROVE w[n] = Lacking(g, v, w[n - 1])
  <2>1. /\ n - 1 \in 0 .. N /\ in[n - 1] \in Guesses(g)
        /\ in[n] = Refined(g, in[n - 1])
    BY <1>1, RoundsOfSolving
  <2>2. \A b \in R : in[n][b] = {x \in in[n - 1][b] : \A p \in Preds(g, b) \cap R :
                                    x \in in[n - 1][p] \cup DefinedValues(g, p)}
    BY <2>1, RefinedIsAGuess
  <2>3. w[n] = {b \in R : v \notin in[n][b]} /\ w[n - 1] = {b \in R : v \notin in[n - 1][b]}
    BY <1>1, <2>1
  <2> HIDE DEF w
  <2>4. ASSUME NEW b \in R PROVE b \in w[n] <=> b \in Lacking(g, v, w[n - 1])
    BY <2>2, <2>3, <2>4 DEF Lacking
  <2>5. Lacking(g, v, w[n - 1]) \subseteq R
    BY <2>3 DEF Lacking
  <2> QED
    BY <2>3, <2>4, <2>5
<1>5. w[0] = {g.entry} \/ g.entry \in w[0]
  <2>1. in[0] = Guess(g)
    BY <1>1, RoundsOfSolving
  <2> QED
    BY <1>1, <2>1 DEF Guess
<1> HIDE DEF w
<1>6. \A n \in 1 .. N : w[n] = G[w[n - 1]]
  <2> TAKE n \in 1 .. N
  <2>1. w[n - 1] \in SUBSET B
    BY <1>1, <1>2
  <2> QED
    BY <1>4, <2>1
<1>7. G[w[N]] = w[N]
  <2> HIDE DEF G, B
  <2>1. /\ w \in [0 .. Cardinality(B) -> SUBSET B]
        /\ \A n \in 1 .. Cardinality(B) : w[n] = G[w[n - 1]]
    BY <1>2, <1>6 DEF N, B
  <2>2. w[0] # {}
    BY <1>5
  <2>3. G[w[Cardinality(B)]] = w[Cardinality(B)]
    BY <1>1, <1>3, <2>1, <2>2, ChainStops
  <2> QED
    BY <2>3 DEF N, B
<1>8. w[N] \in SUBSET B
  BY <1>1, <1>2
<1>9. Lacking(g, v, w[N]) = w[N]
  BY <1>7, <1>8
<1>10. g.entry \in w[N]
  <2> DEFINE S == {n \in Nat : n \in 0 .. N => g.entry \in w[n]}
  <2>1. 0 \in S
    BY <1>5
  <2>2. ASSUME NEW n \in Nat, n \in S PROVE n + 1 \in S
    <3> SUFFICES ASSUME n + 1 \in 0 .. N PROVE g.entry \in w[n + 1]
      OBVIOUS
    <3>1. n \in 0 .. N /\ w[n + 1] = Lacking(g, v, w[n])
      BY <1>1, <1>4
    <3> QED
      BY <2>2, <3>1 DEF Lacking
  <2> HIDE DEF S
  <2>3. N \in S
    BY <1>1, <2>1, <2>2, Induction
  <2> QED
    BY <1>1, <2>3 DEF S
<1>11. w[N] = {b \in R : v \notin in[N][b]}
  BY <1>1 DEF w
<1> QED
  BY <1>9, <1>10, <1>11

\* What is defined on every path is an input, or a dominator defines it.
LEMMA EveryPathHasADominator ==
  ASSUME NEW g \in Functions,
         NEW in \in [0 .. Cardinality(g.blocks) -> Guesses(g)], Solves(g, in),
         NEW b \in Reachable(g), NEW v \in in[Cardinality(g.blocks)][b]
  PROVE  v \in FromDominators(g, b)
<1> SUFFICES ASSUME v \notin EntryValues PROVE v \in FromDominators(g, b)
  BY DEF FromDominators
<1> DEFINE N == Cardinality(g.blocks)
           R == Reachable(g)
           X == {x \in R : v \notin in[N][x]}
<1>1. /\ ControlFlowGraph(g) /\ N \in Nat
      /\ \A c, d \in g.blocks : c # d => DefinedValues(g, c) \cap DefinedValues(g, d) = {}
  BY FunctionsAssumption, FS_CardinalityType DEF ControlFlowGraph
<1>2. v \in AllValues(g)
  <2>1. in[N] \in Guesses(g)
    BY <1>1
  <2> QED
    BY <2>1 DEF Guesses
<1>3. PICK d \in g.blocks : v \in DefinedValues(g, d)
  BY <1>2 DEF AllValues
<1>4. g.entry \in X /\ Lacking(g, v, X) = X /\ b \notin X /\ X \subseteq R
  BY <1>1, LackingIsComplete
<1> HIDE DEF X
<1>5. \A x \in X : v \notin DefinedValues(g, x) => Range(g.succ[x]) \subseteq X
  <2> SUFFICES ASSUME NEW x \in X, v \notin DefinedValues(g, x), NEW c \in Range(g.succ[x])
               PROVE  c \in X
    OBVIOUS
  <2>1. c \in R /\ x \in Preds(g, c)
    BY <1>1, <1>4, ReachableIsClosed DEF Preds
  <2> QED
    BY <1>4, <2>1 DEF Lacking
<1>6. \A x \in X : x # d => Range(g.succ[x]) \subseteq X
  BY <1>1, <1>3, <1>4, <1>5, ReachableIsClosed
<1>7. d \in X
  <2> SUFFICES ASSUME d \notin X PROVE FALSE
    OBVIOUS
  <2>1. R \subseteq X
    BY <1>1, <1>4, <1>6, ClosedHoldsReachable
  <2> QED
    BY <1>4, <2>1
<1>8. Dominates(g, d, b)
  <2>1. Closed(g, d, X \ {d})
    BY <1>6 DEF Closed
  <2>2. ReachableAvoiding(g, d) \subseteq X \ {d}
    BY <1>1, <1>4, <2>1, ReachableIsLeast
  <2> QED
    BY <1>4, <2>2 DEF Dominates
<1>9. d \in StrictDominators(g, b)
  BY <1>4, <1>7, <1>8 DEF StrictDominators
<1> QED
  BY <1>3, <1>9 DEF FromDominators

\* The solution of the data-flow equations, read off the dominator tree.
THEOREM EveryPathIsDominance ==
  ASSUME NEW g \in Functions
  PROVE  OnEveryPath(g) = [b \in Reachable(g) |-> FromDominators(g, b)]
<1> DEFINE N == Cardinality(g.blocks)
<1>1. ControlFlowGraph(g) /\ N \in Nat
  BY FunctionsAssumption, FS_CardinalityType DEF ControlFlowGraph
<1>2. PICK in \in [0 .. N -> Guesses(g)] : Solves(g, in) /\ OnEveryPath(g) = in[N]
  BY <1>1, EveryPathIsLastRound
<1>3. in[N] \in Guesses(g)
  BY <1>1
<1>4. ASSUME NEW b \in Reachable(g) PROVE in[N][b] = FromDominators(g, b)
  <2>1. N \in 0 .. N
    BY <1>1
  <2>2. FromDominators(g, b) \subseteq in[N][b]
    BY <1>1, <1>2, <2>1, DominatorsAreOnEveryPath
  <2>3. in[N][b] \subseteq FromDominators(g, b)
    BY <1>2, EveryPathHasADominator
  <2> QED
    BY <2>2, <2>3
<1> QED
  BY <1>2, <1>3, <1>4 DEF Guesses
-----------------------------------------------------------------------------
(* Sequences.                                                              *)

\* A listing of a finite set is an injective sequence of its elements.
LEMMA ListingsAreSequences ==
  ASSUME NEW S, IsFiniteSet(S), NEW s \in Listings(S)
  PROVE  s \in Seq(S) /\ Range(s) = S /\ IsInjective(s)
<1>1. Cardinality(S) \in Nat
  BY FS_CardinalityType
<1>2. s \in [1 .. Cardinality(S) -> S] /\ Range(s) = S
  BY DEF Listings
<1>3. s \in Seq(S)
  BY <1>1, <1>2
<1>4. IsInjective(s)
  <2>1. IsFiniteSet(1 .. Cardinality(S)) /\ Cardinality(1 .. Cardinality(S)) = Cardinality(S)
    BY <1>1, FS_Interval
  <2>2. s \in Surjection(1 .. Cardinality(S), S)
    BY <1>2 DEF Surjection, Range
  <2>3. s \in Injection(1 .. Cardinality(S), S)
    BY <2>1, <2>2, FS_SurjSameCardinalityImpliesInj
  <2> QED
    BY <2>3 DEF Injection, IsInjective
<1> QED
  BY <1>2, <1>3, <1>4

LEMMA SingletonSequence ==
  ASSUME NEW S, NEW x \in S
  PROVE  <<x>> \in Seq(S)
  OBVIOUS

\* What is left of an injective stack without its top.
LEMMA FrontOfStack ==
  ASSUME NEW S, NEW w \in Seq(S), w # <<>>, IsInjective(w)
  PROVE  /\ Front(w) \in Seq(S) /\ IsInjective(Front(w))
         /\ Last(w) \in Range(w)
         /\ Range(Front(w)) = Range(w) \ {Last(w)}
<1> DEFINE n == Len(w)
<1>1. n \in Nat \ {0} /\ DOMAIN w = 1 .. n /\ n - 1 \in Nat
  BY EmptySeq, LenProperties
<1>2. /\ Front(w) \in Seq(S)
      /\ DOMAIN Front(w) = 1 .. n - 1
      /\ \A i \in 1 .. n - 1 : Front(w)[i] = w[i]
  BY <1>1 DEF Front
<1>3. Last(w) = w[n] /\ n \in DOMAIN w
  BY <1>1 DEF Last
<1>4. \A i, j \in 1 .. n : w[i] = w[j] => i = j
  BY <1>1 DEF IsInjective
<1>5. IsInjective(Front(w))
  BY <1>1, <1>2, <1>4 DEF IsInjective
<1>6. Range(Front(w)) = Range(w) \ {Last(w)}
  <2>1. ASSUME NEW x \in Range(Front(w)) PROVE x \in Range(w) \ {Last(w)}
    <3>1. PICK i \in 1 .. n - 1 : x = w[i]
      BY <1>2 DEF Range
    <3> HIDE DEF n
    <3>2. i \in 1 .. n /\ i # n
      BY <1>1
    <3> QED
      BY <1>1, <1>3, <1>4, <3>1, <3>2 DEF Range
  <2>2. ASSUME NEW x \in Range(w) \ {Last(w)} PROVE x \in Range(Front(w))
    <3>1. PICK i \in 1 .. n : x = w[i]
      BY <1>1 DEF Range
    <3>2. i \in 1 .. n - 1
      BY <1>1, <1>3, <3>1
    <3> QED
      BY <1>2, <3>1, <3>2 DEF Range
  <2> QED
    BY <2>1, <2>2
<1> QED
  BY <1>2, <1>3, <1>5, <1>6 DEF Range

\* Two injective sequences without a common element make an injective one.
LEMMA ConcatInjective ==
  ASSUME NEW S, NEW v \in Seq(S), NEW w \in Seq(S), IsInjective(v), IsInjective(w),
         Range(v) \cap Range(w) = {}
  PROVE  /\ v \o w \in Seq(S) /\ IsInjective(v \o w)
         /\ Range(v \o w) = Range(v) \cup Range(w)
<1> DEFINE m == Len(v)
           n == Len(w)
<1>1. /\ m \in Nat /\ DOMAIN v = 1 .. m
      /\ n \in Nat /\ DOMAIN w = 1 .. n
  BY LenProperties
<1>2. /\ v \o w \in Seq(S)
      /\ DOMAIN (v \o w) = 1 .. m + n
      /\ \A i \in 1 .. m + n : (v \o w)[i] = IF i <= m THEN v[i] ELSE w[i - m]
  BY <1>1, ConcatProperties
<1>3. \A i \in 1 .. m, j \in 1 .. n : v[i] # w[j]
  BY <1>1 DEF Range
<1>4. ASSUME NEW i \in 1 .. m + n, NEW j \in 1 .. m + n, (v \o w)[i] = (v \o w)[j]
      PROVE  i = j
  <2>1. CASE i <= m /\ j <= m
    <3>1. i \in 1 .. m /\ j \in 1 .. m /\ v[i] = v[j]
      BY <1>1, <1>2, <1>4, <2>1
    <3> QED
      BY <1>1, <3>1 DEF IsInjective
  <2>2. CASE i > m /\ j > m
    <3>1. i - m \in 1 .. n /\ j - m \in 1 .. n /\ w[i - m] = w[j - m]
      BY <1>1, <1>2, <1>4, <2>2
    <3>2. i - m = j - m
      BY <1>1, <3>1 DEF IsInjective
    <3> QED
      BY <1>1, <3>2
  <2>3. CASE i <= m /\ j > m
    <3>1. i \in 1 .. m /\ j - m \in 1 .. n /\ v[i] = w[j - m]
      BY <1>1, <1>2, <1>4, <2>3
    <3> QED
      BY <1>3, <3>1
  <2>4. CASE i > m /\ j <= m
    <3>1. i - m \in 1 .. n /\ j \in 1 .. m /\ w[i - m] = v[j]
      BY <1>1, <1>2, <1>4, <2>4
    <3> QED
      BY <1>3, <3>1
  <2> QED
    BY <1>1, <2>1, <2>2, <2>3, <2>4
<1>5. Range(v \o w) = Range(v) \cup Range(w)
  <2>1. ASSUME NEW x \in Range(v \o w) PROVE x \in Range(v) \cup Range(w)
    <3>1. PICK i \in 1 .. m + n : x = (v \o w)[i]
      BY <1>2 DEF Range
    <3>2. i \in 1 .. m \/ i - m \in 1 .. n
      BY <1>1
    <3> QED
      BY <1>1, <1>2, <3>1, <3>2 DEF Range
  <2>2. ASSUME NEW x \in Range(v) PROVE x \in Range(v \o w)
    <3>1. PICK i \in 1 .. m : x = v[i]
      BY <1>1 DEF Range
    <3>2. i \in 1 .. m + n /\ (v \o w)[i] = v[i]
      BY <1>1, <1>2
    <3> QED
      BY <1>2, <3>1, <3>2 DEF Range
  <2>3. ASSUME NEW x \in Range(w) PROVE x \in Range(v \o w)
    <3>1. PICK i \in 1 .. n : x = w[i]
      BY <1>1 DEF Range
    <3>2. i + m \in 1 .. m + n /\ (v \o w)[i + m] = w[i]
      BY <1>1, <1>2
    <3> QED
      BY <1>2, <3>1, <3>2 DEF Range
  <2> QED
    BY <2>1, <2>2, <2>3
<1> QED
  BY <1>2, <1>4, <1>5 DEF IsInjective
-----------------------------------------------------------------------------
(* The invariance proof.                                                   *)

LEMMA InitIndInv ==
  ASSUME Init
  PROVE  IndInv
<1>1. /\ f \in Functions /\ f.entry \in f.blocks
      /\ worklist = <<f.entry>> /\ Range(worklist) = {f.entry}
      /\ riv = [b \in {f.entry} |-> EntryValues]
  BY DominatorTrees DEF Init, Range
<1>2. StrictDominators(f, f.entry) = {}
  BY <1>1, DominatorTrees
<1>3. TypeOK
  BY <1>1 DEF TypeOK, EntryValues
<1>4. EntriesAreFinal
  BY <1>1, <1>2 DEF EntriesAreFinal
<1>5. SeenFromAbove
  BY <1>1, DominatorTrees DEF SeenFromAbove
<1>6. IsInjective(worklist)
  BY <1>1 DEF IsInjective
<1>7. worklist \in Seq(f.blocks)
  BY <1>1, SingletonSequence
<1>8. riv = [b \in DOMAIN riv |-> riv[b]]
  BY <1>1
<1>9. WalkedFromRoot
  BY <1>1, ReachableIsClosed, FunctionsAssumption DEF WalkedFromRoot
<1> QED
  BY <1>1, <1>3, <1>4, <1>5, <1>6, <1>7, <1>8, <1>9 DEF IndInv

LEMMA VisitIndInv ==
  ASSUME IndInv, Visit
  PROVE  IndInv'
<1> DEFINE parent == Last(worklist)
           kids == Children(f, parent)
<1>1. /\ f' = f /\ f \in Functions /\ worklist # <<>>
      /\ riv' = HandDown(parent)
  BY DEF Visit, IndInv
<1>2. PICK order \in Listings(kids) : worklist' = Front(worklist) \o order
  BY DEF Visit
<1>3. /\ worklist \in Seq(f.blocks) /\ IsInjective(worklist)
      /\ Range(worklist) \subseteq DOMAIN riv /\ DOMAIN riv \subseteq f.blocks
      /\ \A b \in DOMAIN riv : riv[b] \subseteq IntegerValues
  BY DEF IndInv, TypeOK
<1>4. /\ Front(worklist) \in Seq(f.blocks) /\ IsInjective(Front(worklist))
      /\ parent \in Range(worklist)
      /\ Range(Front(worklist)) = Range(worklist) \ {parent}
  BY <1>1, <1>3, FrontOfStack
<1>5. /\ parent \in f.blocks /\ parent \in DOMAIN riv
      /\ kids \subseteq f.blocks \ {parent, f.entry}
      /\ kids \cap DOMAIN riv = {}
  BY <1>1, <1>3, <1>4, DominatorTrees DEF IndInv, SeenFromAbove
<1>6. order \in Seq(kids) /\ Range(order) = kids /\ IsInjective(order)
  <2>1. IsFiniteSet(kids)
    BY <1>1, <1>5, DominatorTrees, FS_Subset
  <2> QED
    BY <2>1, ListingsAreSequences
<1>7. order \in Seq(f.blocks)
  BY <1>5, <1>6, SeqMonotonic
<1>8. Range(Front(worklist)) \cap Range(order) = {}
  BY <1>3, <1>4, <1>5, <1>6
<1>9. /\ worklist' \in Seq(f.blocks) /\ IsInjective(worklist')
      /\ Range(worklist') = (Range(worklist) \ {parent}) \cup kids
  BY <1>2, <1>4, <1>6, <1>7, <1>8, ConcatInjective
<1>10. /\ DOMAIN riv' = DOMAIN riv \cup kids
       /\ \A b \in DOMAIN riv : riv'[b] = riv[b]
       /\ \A b \in kids : riv'[b] = DefinedValues(f, parent) \cup riv[parent]
  BY <1>1, <1>5 DEF HandDown
<1>11. TypeOK'
  <2>1. Range(worklist') \subseteq DOMAIN riv'
    BY <1>3, <1>9, <1>10
  <2>2. \A b \in DOMAIN riv' : riv'[b] \subseteq IntegerValues
    BY <1>3, <1>5, <1>10 DEF DefinedValues
  <2> QED
    BY <1>1, <1>3, <1>5, <1>10, <2>1, <2>2 DEF TypeOK
<1>12. EntriesAreFinal'
  <2> SUFFICES ASSUME NEW b \in DOMAIN riv'
               PROVE  riv'[b] = EntryValues \cup
                        UNION {DefinedValues(f, a) : a \in StrictDominators(f, b)}
    BY <1>1 DEF EntriesAreFinal
  <2>1. CASE b \in DOMAIN riv
    BY <1>10, <2>1 DEF IndInv, EntriesAreFinal
  <2>2. CASE b \in kids
    <3>1. StrictDominators(f, b) = StrictDominators(f, parent) \cup {parent}
      BY <1>1, <1>5, <2>2, DominatorTrees
    <3>2. riv[parent] = EntryValues \cup
            UNION {DefinedValues(f, a) : a \in StrictDominators(f, parent)}
      BY <1>5 DEF IndInv, EntriesAreFinal
    <3>3. riv'[b] = DefinedValues(f, parent) \cup riv[parent]
      BY <1>10, <2>2
    <3> QED
      BY <3>1, <3>2, <3>3
  <2> QED
    BY <1>10, <2>1, <2>2
<1>13. SeenFromAbove'
  <2> SUFFICES ASSUME NEW p \in f.blocks,
                      p \in Range(worklist') \/ p \notin DOMAIN riv'
               PROVE  Children(f, p) \cap DOMAIN riv' = {}
    BY <1>1 DEF SeenFromAbove
  <2>1. p # parent
    BY <1>5, <1>9, <1>10
  <2>2. Children(f, p) \cap kids = {}
    BY <1>1, <1>5, <2>1, DominatorTrees
  <2>3. p \in Range(worklist) \/ p \notin DOMAIN riv
    BY <1>5, <1>9, <1>10
  <2>4. Children(f, p) \cap DOMAIN riv = {}
    BY <2>3 DEF IndInv, SeenFromAbove
  <2> QED
    BY <1>10, <2>2, <2>4
<1>14. riv' = [b \in DOMAIN riv' |-> riv'[b]]
  BY <1>1 DEF HandDown
<1>15. WalkedFromRoot'
  <2>1. kids \subseteq Reachable(f)
    BY DEF Children
  <2>2. ASSUME NEW p \in DOMAIN riv' \ Range(worklist') PROVE Children(f, p) \subseteq DOMAIN riv'
    <3>1. p = parent \/ p \in DOMAIN riv \ Range(worklist)
      BY <1>9, <1>10
    <3> QED
      BY <1>10, <3>1 DEF IndInv, WalkedFromRoot
  <2> QED
    BY <1>1, <1>10, <2>1, <2>2 DEF IndInv, WalkedFromRoot
<1> QED
  BY <1>1, <1>9, <1>11, <1>12, <1>13, <1>14, <1>15 DEF IndInv

LEMMA NextIndInv == IndInv /\ [Next]_vars => IndInv'
<1>1. IndInv /\ Visit => IndInv'
  BY VisitIndInv
<1>2. IndInv /\ UNCHANGED vars => IndInv'
  BY DEF vars, IndInv, TypeOK, EntriesAreFinal, SeenFromAbove, WalkedFromRoot
<1> QED
  BY <1>1, <1>2 DEF Next, Returned

THEOREM Invariance == Spec => []IndInv
  BY InitIndInv, NextIndInv, PTL DEF Spec
-----------------------------------------------------------------------------
(* What follows.                                                           *)

\* Blocks enter the map before they enter the stack, and only integer values
\* are recorded.
THEOREM TypeCorrect == Spec => []TypeOK
<1>1. IndInv => TypeOK
  BY DEF IndInv
<1> QED
  BY <1>1, Invariance, PTL

\* As soon as a block has an entry in the map, the entry holds exactly the
\* inputs and what the strict dominators of the block define.
THEOREM EntriesAreExact == Spec => []EntriesAreFinal
<1>1. IndInv => EntriesAreFinal
  BY DEF IndInv
<1> QED
  BY <1>1, Invariance, PTL

\* Each block is stacked once and its children are seen from it alone.
THEOREM BlocksAreVisitedOnce == Spec => []EachBlockOnce
<1>1. IndInv => EachBlockOnce
  BY DEF IndInv, EachBlockOnce, SeenFromAbove, TypeOK
<1> QED
  BY <1>1, Invariance, PTL

\* The walk passes every reachable block: the tree spans them.
LEMMA WalkSpans ==
  ASSUME IndInv, Done
  PROVE  DOMAIN riv = Reachable(f)
<1>1. ControlFlowGraph(f) /\ f.entry \in DOMAIN riv /\ DOMAIN riv \subseteq Reachable(f)
  BY FunctionsAssumption DEF IndInv, WalkedFromRoot
<1>2. \A p \in DOMAIN riv : Children(f, p) \subseteq DOMAIN riv
  BY DEF IndInv, WalkedFromRoot, Done, Range
<1> SUFFICES ASSUME Reachable(f) \ DOMAIN riv # {} PROVE FALSE
  BY <1>1
<1> DEFINE T == {StrictDominators(f, b) : b \in Reachable(f) \ DOMAIN riv}
<1>3. T # {} /\ T \subseteq FiniteSubsetsOf(f.blocks)
  <2>1. \A b \in Reachable(f) : StrictDominators(f, b) \in FiniteSubsetsOf(f.blocks)
    BY <1>1, DominatorsAreReachable, ReachableIsClosed DEF FiniteSubsetsOf
  <2> QED
    BY <2>1
<1> HIDE DEF T
<1>4. IsWellFoundedOn(StrictSubsetOrdering(f.blocks), FiniteSubsetsOf(f.blocks))
  BY FS_StrictSubsetOrderingWellFounded
<1>5. PICK t \in T : \A y \in T : <<y, t>> \notin StrictSubsetOrdering(f.blocks)
  BY <1>3, <1>4, WFMin
<1>6. PICK b \in Reachable(f) \ DOMAIN riv : t = StrictDominators(f, b)
  BY <1>5 DEF T
<1>7. PICK p \in StrictDominators(f, b) : b \in Children(f, p)
  BY <1>1, <1>6, EveryBlockHasAParent
<1>8. p \in Reachable(f) /\ p \notin StrictDominators(f, p)
  BY DEF StrictDominators
<1>9. p \notin DOMAIN riv
  BY <1>2, <1>6, <1>7
<1>10. StrictDominators(f, p) \in T
  BY <1>8, <1>9 DEF T
<1>11. StrictDominators(f, p) \subseteq t /\ StrictDominators(f, p) # t
  BY <1>1, <1>6, <1>8, StrictDominatorsNest
<1>12. <<StrictDominators(f, p), t>> \in StrictSubsetOrdering(f.blocks)
  BY <1>3, <1>5, <1>10, <1>11 DEF StrictSubsetOrdering, FiniteSubsetsOf
<1> QED
  BY <1>5, <1>10, <1>12

\* What the analysis returns, for every function: an entry for each reachable
\* block and no other, holding exactly the integers that are defined on every
\* path to the block.
THEOREM ResultIsExact == Spec => []ResultIsWhatEveryPathDefines
<1>1. ASSUME IndInv PROVE ResultIsWhatEveryPathDefines
  <2> SUFFICES ASSUME Done PROVE riv = OnEveryPath(f)
    BY DEF ResultIsWhatEveryPathDefines
  <2>1. f \in Functions /\ riv = [b \in DOMAIN riv |-> riv[b]] /\ DOMAIN riv = Reachable(f)
    BY <1>1, WalkSpans DEF IndInv
  <2>2. \A b \in Reachable(f) : riv[b] = FromDominators(f, b)
    BY <1>1, <2>1 DEF IndInv, EntriesAreFinal, FromDominators
  <2> QED
    BY <2>1, <2>2, EveryPathIsDominance
<1> QED
  BY <1>1, Invariance, PTL
=============================================================================
