-------------------------- MODULE CallCounterProofs --------------------------
(***************************************************************************)
(* Proofs about the instrumented program, for every number of threads,     *)
(* functions, handlers and calls and every width of the counters.          *)
(***************************************************************************)
EXTENDS CallCounter, SequenceTheorems, FiniteSetTheorems, TLAPS

\* Activation i of thread t is a call of f that has not stored its increment.
Pending(st, t, i, f) == i \in DOMAIN st[t] /\ st[t][i].fn = f /\ st[t][i].at # "body"

\* At most one activation of f is updating the counter,
OneUpdate(st, f) ==
  \A t, u \in Thread : \A i, j \in Nat : Pending(st, t, i, f) /\ Pending(st, u, j, f) => t = u /\ i = j

\* and what it has loaded is still what the counter holds.
RegisterFresh(st, c, f) ==
  \A t \in Thread : \A i \in Nat :
    Pending(st, t, i, f) /\ st[t][i].at = "store" => st[t][i].reg = c[f]

IndInv ==
  /\ TypeOK
  /\ \A f \in Function \ overlapped : OneUpdate(stack, f) /\ RegisterFresh(stack, counter, f)
  /\ OnlyOverlapsLoseCalls
-----------------------------------------------------------------------------
(* Arithmetic modulo the range of a counter.                               *)

LEMMA DivisionIsExact ==
  ASSUME NEW w \in Nat \ {0}, NEW n \in Nat
  PROVE  /\ n \div w \in Nat
         /\ n % w \in 0 .. w - 1
         /\ n = w * (n \div w) + (n % w)
OBVIOUS

LEMMA RemainderIsUnique ==
  ASSUME NEW w \in Nat \ {0}, NEW q \in Nat, NEW r \in 0 .. w - 1
  PROVE  (w * q + r) % w = r
OBVIOUS

LEMMA SmallRemainder ==
  ASSUME NEW w \in Nat \ {0}, NEW r \in 0 .. w - 1
  PROVE  r % w = r
OBVIOUS

LEMMA RemainderOfSuccessor ==
  ASSUME NEW w \in Nat \ {0}, NEW n \in Nat
  PROVE  (n + 1) % w = ((n % w) + 1) % w
<1> DEFINE q == n \div w
           r == n % w
<1>1. q \in Nat /\ r \in 0 .. w - 1 /\ n = w * q + r
  BY DivisionIsExact
<1> HIDE DEF q, r
<1>2. CASE r + 1 < w
  <2>1. r + 1 \in 0 .. w - 1 /\ n + 1 = w * q + (r + 1)
    BY <1>1, <1>2
  <2>2. (n + 1) % w = r + 1 /\ (r + 1) % w = r + 1
    BY <1>1, <2>1, RemainderIsUnique, SmallRemainder
  <2> QED BY <2>2 DEF r
<1>3. CASE r + 1 = w
  <2>1. n + 1 = w * (q + 1) + 0 /\ w = w * 1 + 0
    BY <1>1, <1>3
  <2>2. (w * (q + 1) + 0) % w = 0 /\ (w * 1 + 0) % w = 0
    BY <1>1, RemainderIsUnique
  <2> QED BY <1>3, <2>1, <2>2 DEF r
<1> QED BY <1>1, <1>2, <1>3

LEMMA CongruentSuccessors ==
  ASSUME NEW a \in Nat, NEW b \in Nat, Congruent(a, b)
  PROVE  Congruent(a + 1, b + 1)
BY RemainderOfSuccessor, ProgramAssumption DEF Congruent

LEMMA CongruentWrapped ==
  ASSUME NEW a \in Nat, NEW b \in Nat, Congruent(a, b)
  PROVE  Congruent(a, b % Wrap)
<1>1. b % Wrap \in 0 .. Wrap - 1
  BY DivisionIsExact, ProgramAssumption
<1>2. (b % Wrap) % Wrap = b % Wrap
  BY <1>1, SmallRemainder, ProgramAssumption
<1> QED BY <1>2 DEF Congruent
-----------------------------------------------------------------------------
(* Stacks.                                                                 *)

LEMMA Push ==
  ASSUME NEW A, NEW s \in Seq(A), NEW a \in A
  PROVE  /\ Append(s, a) \in Seq(A)
         /\ DOMAIN Append(s, a) = DOMAIN s \cup {Len(s) + 1}
         /\ Append(s, a)[Len(s) + 1] = a
         /\ \A i \in DOMAIN s : Append(s, a)[i] = s[i]
OBVIOUS

LEMMA Pop ==
  ASSUME NEW A, NEW s \in Seq(A), s # <<>>
  PROVE  /\ Front(s) \in Seq(A)
         /\ Len(s) \in DOMAIN s /\ Len(s) \in Nat /\ Last(s) = s[Len(s)]
         /\ Len(Front(s)) + 1 = Len(s)
         /\ DOMAIN Front(s) = DOMAIN s \ {Len(s)}
         /\ \A i \in DOMAIN s \ {Len(s)} : Front(s)[i] = s[i]
<1> DEFINE n == Len(s)
<1>1. n \in Nat \ {0} /\ DOMAIN s = 1 .. n /\ n - 1 \in Nat
  BY EmptySeq, LenProperties
<1>2. /\ Front(s) \in Seq(A)
      /\ Len(Front(s)) = n - 1
      /\ DOMAIN Front(s) = 1 .. n - 1
      /\ \A i \in 1 .. n - 1 : Front(s)[i] = s[i]
  BY <1>1 DEF Front
<1>3. Last(s) = s[n]
  BY <1>1 DEF Last
<1> HIDE DEF n
<1>4. 1 .. n - 1 = (1 .. n) \ {n}
  BY <1>1
<1> QED BY <1>1, <1>2, <1>3, <1>4 DEF n

LEMMA ReplaceTop ==
  ASSUME NEW A, NEW s \in Seq(A), s # <<>>, NEW a \in A
  PROVE  /\ Append(Front(s), a) \in Seq(A)
         /\ DOMAIN Append(Front(s), a) = DOMAIN s
         /\ Append(Front(s), a)[Len(s)] = a
         /\ \A i \in DOMAIN s \ {Len(s)} : Append(Front(s), a)[i] = s[i]
<1>1. /\ Front(s) \in Seq(A) /\ Len(Front(s)) + 1 = Len(s)
      /\ Len(s) \in DOMAIN s
      /\ DOMAIN Front(s) = DOMAIN s \ {Len(s)}
      /\ \A i \in DOMAIN s \ {Len(s)} : Front(s)[i] = s[i]
  BY Pop
<1> QED BY <1>1, Push

(* What a step does to the activations under way.                          *)

Pushed(st, t, a) == [st EXCEPT ![t] = Append(@, a)]
Replaced(st, t, a) == [st EXCEPT ![t] = Append(Front(@), a)]
Popped(st, t) == [st EXCEPT ![t] = Front(@)]

\* st2 is st with activation a put at place n of thread t,
AfterPush(st, st2, t, a, n) ==
  /\ st2[t][n] = a
  /\ \A u \in Thread, i \in Nat, f \in Function :
       /\ Pending(st, u, i, f) => Pending(st2, u, i, f) /\ st2[u][i] = st[u][i]
       /\ Pending(st2, u, i, f) => Pending(st, u, i, f) \/ (u = t /\ i = n /\ f = a.fn)
       /\ a.at # "body" /\ f = a.fn => Pending(st2, t, n, f)

\* or with a in the place of the activation that was there.
AfterReplace(st, st2, t, a, n) ==
  /\ st2[t][n] = a
  /\ \A f \in Function : Pending(st2, t, n, f) <=> (a.fn = f /\ a.at # "body")
  /\ \A u \in Thread, i \in Nat, f \in Function : (u # t \/ i # n) =>
       /\ Pending(st2, u, i, f) <=> Pending(st, u, i, f)
       /\ Pending(st, u, i, f) => st2[u][i] = st[u][i]

LEMMA PendingAfterPush ==
  ASSUME NEW st \in [Thread -> Seq(Activations)], NEW t \in Thread, NEW a \in Activations,
         NEW st2, st2 = Pushed(st, t, a)
  PROVE  /\ st2 \in [Thread -> Seq(Activations)]
         /\ Len(st[t]) + 1 \in Nat
         /\ AfterPush(st, st2, t, a, Len(st[t]) + 1)
<1>1. /\ st[t] \in Seq(Activations) /\ Len(st[t]) \in Nat /\ DOMAIN st[t] = 1 .. Len(st[t])
  BY LenProperties
<1>2. /\ Append(st[t], a) \in Seq(Activations)
      /\ DOMAIN Append(st[t], a) = DOMAIN st[t] \cup {Len(st[t]) + 1}
      /\ Append(st[t], a)[Len(st[t]) + 1] = a
      /\ \A i \in DOMAIN st[t] : Append(st[t], a)[i] = st[t][i]
  BY <1>1, Push
<1>3. /\ st2[t] = Append(st[t], a)
      /\ \A u \in Thread \ {t} : st2[u] = st[u]
  BY DEF Pushed
<1>4. st2 \in [Thread -> Seq(Activations)]
  BY <1>2 DEF Pushed
<1>5. ASSUME NEW u \in Thread, NEW i \in Nat, NEW f \in Function
      PROVE  /\ Pending(st, u, i, f) => Pending(st2, u, i, f) /\ st2[u][i] = st[u][i]
             /\ Pending(st2, u, i, f) =>
                  Pending(st, u, i, f) \/ (u = t /\ i = Len(st[t]) + 1 /\ f = a.fn)
  <2>1. CASE u = t
    BY <1>2, <1>3, <2>1 DEF Pending
  <2>2. CASE u # t
    BY <1>3, <2>2 DEF Pending
  <2> QED BY <2>1, <2>2
<1>6. ASSUME a.at # "body" PROVE Pending(st2, t, Len(st[t]) + 1, a.fn)
  BY <1>2, <1>3, <1>6 DEF Pending
<1>7. Len(st[t]) + 1 \in Nat /\ st2[t][Len(st[t]) + 1] = a
  BY <1>1, <1>2, <1>3
<1> QED BY <1>4, <1>5, <1>6, <1>7 DEF AfterPush

LEMMA PendingAfterReplace ==
  ASSUME NEW st \in [Thread -> Seq(Activations)], NEW t \in Thread, NEW a \in Activations, st[t] # <<>>,
         NEW st2, st2 = Replaced(st, t, a)
  PROVE  /\ st2 \in [Thread -> Seq(Activations)]
         /\ Len(st[t]) \in Nat
         /\ AfterReplace(st, st2, t, a, Len(st[t]))
<1>1. /\ st[t] \in Seq(Activations) /\ Len(st[t]) \in Nat /\ Len(st[t]) \in DOMAIN st[t]
  BY Pop
<1>2. /\ Append(Front(st[t]), a) \in Seq(Activations)
      /\ DOMAIN Append(Front(st[t]), a) = DOMAIN st[t]
      /\ Append(Front(st[t]), a)[Len(st[t])] = a
      /\ \A i \in DOMAIN st[t] \ {Len(st[t])} : Append(Front(st[t]), a)[i] = st[t][i]
  BY <1>1, ReplaceTop
<1>3. /\ st2[t] = Append(Front(st[t]), a)
      /\ \A u \in Thread \ {t} : st2[u] = st[u]
  BY DEF Replaced
<1>4. st2 \in [Thread -> Seq(Activations)]
  BY <1>2 DEF Replaced
<1> QED BY <1>1, <1>2, <1>3, <1>4 DEF Pending, AfterReplace

LEMMA PendingAfterPop ==
  ASSUME NEW st \in [Thread -> Seq(Activations)], NEW t \in Thread, st[t] # <<>>, Last(st[t]).at = "body",
         NEW st2, st2 = Popped(st, t)
  PROVE  /\ st2 \in [Thread -> Seq(Activations)]
         /\ \A u \in Thread, i \in Nat, f \in Function :
              /\ Pending(st2, u, i, f) <=> Pending(st, u, i, f)
              /\ Pending(st, u, i, f) => st2[u][i] = st[u][i]
<1>1. /\ st[t] \in Seq(Activations) /\ Last(st[t]) = st[t][Len(st[t])]
      /\ Front(st[t]) \in Seq(Activations)
      /\ DOMAIN Front(st[t]) = DOMAIN st[t] \ {Len(st[t])}
      /\ \A i \in DOMAIN st[t] \ {Len(st[t])} : Front(st[t])[i] = st[t][i]
  BY Pop
<1>2. /\ st2[t] = Front(st[t])
      /\ \A u \in Thread \ {t} : st2[u] = st[u]
  BY DEF Popped
<1>3. st2 \in [Thread -> Seq(Activations)]
  BY <1>1 DEF Popped
<1> QED BY <1>1, <1>2, <1>3 DEF Pending

LEMMA UpdatingIsPending ==
  ASSUME NEW st \in [Thread -> Seq(Activations)], NEW f \in Function
  PROVE  (\E t \in Thread : \E i \in DOMAIN st[t] : st[t][i].fn = f /\ st[t][i].at # "body")
           <=> \E t \in Thread, i \in Nat : Pending(st, t, i, f)
<1>1. \A t \in Thread : DOMAIN st[t] \subseteq Nat
  BY LenProperties
<1> QED BY <1>1 DEF Pending

-----------------------------------------------------------------------------
(* The invariant holds initially and every step keeps it.                  *)

LEMMA InitIndInv == Init => IndInv
<1> SUFFICES ASSUME Init PROVE IndInv
  OBVIOUS
<1>1. TypeOK
  <2>1. <<>> \in Seq(Activations)
    OBVIOUS
  <2> QED BY <2>1, ProgramAssumption DEF Init, TypeOK
<1>2. \A t \in Thread : DOMAIN stack[t] = {}
  BY DEF Init
<1> QED BY <1>1, <1>2 DEF Init, IndInv, OneUpdate, RegisterFresh, Pending,
                          OnlyOverlapsLoseCalls, Updating, Congruent

LEMMA CallIndInv ==
  ASSUME IndInv, NEW t \in Thread, NEW g \in Function, Call(t, g)
  PROVE  IndInv'
<1> DEFINE a == Activation(g, "load", 0)
           n == Len(stack[t]) + 1
<1>1. a \in Activations /\ a.fn = g /\ a.at = "load"
  BY ProgramAssumption DEF Activation, Activations
<1>2. stack \in [Thread -> Seq(Activations)]
  BY DEF IndInv, TypeOK
<1>3. stack' = Pushed(stack, t, a)
  BY DEF Call, Pushed
<1> HIDE DEF a
<1>4. /\ stack' \in [Thread -> Seq(Activations)] /\ n \in Nat
      /\ AfterPush(stack, stack', t, a, n)
  BY <1>1, <1>2, <1>3, PendingAfterPush
<1> HIDE DEF n
<1>5. TypeOK'
  <2>1. /\ counter' = counter /\ phase' = phase /\ leaver' = leaver /\ report' = report
        /\ calls' = [calls EXCEPT ![g] = @ + 1]
        /\ overlapped' \in {overlapped, overlapped \cup {g}}
    BY DEF Call
  <2>2. /\ stack' \in [Thread -> Seq(Activations)]
        /\ calls' \in [Function -> Nat]
    BY <1>4, <2>1 DEF IndInv, TypeOK
  <2> QED BY <2>1, <2>2 DEF IndInv, TypeOK
<1>6. \A f \in Function :
        /\ Updating(f) <=> \E u \in Thread, i \in Nat : Pending(stack, u, i, f)
        /\ Updating(f)' <=> \E u \in Thread, i \in Nat : Pending(stack', u, i, f)
  BY <1>2, <1>4, UpdatingIsPending DEF Updating
<1> SUFFICES ASSUME NEW f \in Function, f \notin overlapped'
             PROVE  /\ OneUpdate(stack', f) /\ RegisterFresh(stack', counter', f)
                    /\ Congruent(calls[f], IF Updating(f) THEN counter[f] + 1 ELSE counter[f])'
  BY <1>5 DEF IndInv, OnlyOverlapsLoseCalls
<1>7. /\ f \notin overlapped
      /\ OneUpdate(stack, f) /\ RegisterFresh(stack, counter, f)
      /\ Congruent(calls[f], IF Updating(f) THEN counter[f] + 1 ELSE counter[f])
  BY DEF Call, IndInv, OnlyOverlapsLoseCalls
<1>8. counter' = counter
  BY DEF Call
<1>9. CASE f # g
  <2>1. \A u \in Thread, i \in Nat :
          /\ Pending(stack', u, i, f) <=> Pending(stack, u, i, f)
          /\ Pending(stack, u, i, f) => stack'[u][i] = stack[u][i]
    BY <1>1, <1>4, <1>9 DEF AfterPush
  <2>2. OneUpdate(stack', f)
    BY <1>7, <2>1 DEF OneUpdate
  <2>3. RegisterFresh(stack', counter', f)
    BY <1>7, <1>8, <2>1 DEF RegisterFresh
  <2>4. calls'[f] = calls[f]
    BY <1>9 DEF Call, IndInv, TypeOK
  <2>5. Updating(f)' <=> Updating(f)
    <3>1. (\E u \in Thread, i \in Nat : Pending(stack', u, i, f))
            <=> \E u \in Thread, i \in Nat : Pending(stack, u, i, f)
      BY <2>1
    <3> QED BY <1>6, <3>1
  <2> QED BY <1>7, <1>8, <2>2, <2>3, <2>4, <2>5 DEF Congruent
<1>10. CASE f = g
  <2>1. ~Updating(f)
    BY <1>10 DEF Call
  <2>2. \A u \in Thread, i \in Nat : Pending(stack', u, i, f) <=> u = t /\ i = n
    BY <1>1, <1>4, <1>6, <1>10, <2>1 DEF AfterPush
  <2>3. OneUpdate(stack', f) /\ RegisterFresh(stack', counter', f)
    BY <1>1, <1>4, <2>2 DEF OneUpdate, RegisterFresh, AfterPush
  <2>4. Updating(f)' /\ calls'[f] = calls[f] + 1
    BY <1>4, <1>6, <1>10, <2>2 DEF Call, IndInv, TypeOK
  <2>5. Congruent(calls[f] + 1, counter[f] + 1)
    <3>1. calls[f] \in Nat /\ counter[f] \in Nat
      BY ProgramAssumption DEF IndInv, TypeOK
    <3> QED BY <1>7, <2>1, <3>1, CongruentSuccessors
  <2> QED BY <1>8, <2>3, <2>4, <2>5 DEF Congruent
<1> QED BY <1>9, <1>10

LEMMA LoadIndInv ==
  ASSUME IndInv, NEW t \in Thread, Load(t)
  PROVE  IndInv'
<1> DEFINE h == Top(t).fn
           a == Activation(h, "store", counter[h])
           n == Len(stack[t])
<1>1. stack \in [Thread -> Seq(Activations)] /\ stack[t] # <<>>
  BY DEF IndInv, TypeOK, Load, Running
<1>2. n \in DOMAIN stack[t] /\ Top(t) = stack[t][n] /\ Top(t) \in Activations
  <2>1. n \in DOMAIN stack[t] /\ Last(stack[t]) = stack[t][n]
    BY <1>1, Pop
  <2> QED BY <1>1, <2>1 DEF Top
<1>3. /\ h \in Function /\ a \in Activations
      /\ a.fn = h /\ a.at = "store" /\ a.reg = counter[h]
  BY <1>2 DEF IndInv, TypeOK, Activation, Activations
<1>4. stack' = Replaced(stack, t, a)
  BY DEF Load, SetTop, Replaced
<1> HIDE DEF a
<1> HIDE DEF h
<1>5. /\ stack' \in [Thread -> Seq(Activations)] /\ n \in Nat
      /\ AfterReplace(stack, stack', t, a, n)
  BY <1>1, <1>3, <1>4, PendingAfterReplace
<1>6. stack'[t][n] = a
  BY <1>5 DEF AfterReplace
<1>7. \A f \in Function : Pending(stack, t, n, f) <=> h = f
  BY <1>2 DEF Load, Pending, h
<1> HIDE DEF n
<1>8. \A u \in Thread, i \in Nat, f \in Function : Pending(stack', u, i, f) <=> Pending(stack, u, i, f)
  <2> SUFFICES ASSUME NEW u \in Thread, NEW i \in Nat, NEW f \in Function
               PROVE  Pending(stack', u, i, f) <=> Pending(stack, u, i, f)
    OBVIOUS
  <2>1. CASE u # t \/ i # n
    BY <1>5, <2>1 DEF AfterReplace
  <2>2. CASE u = t /\ i = n
    <3>1. Pending(stack', t, n, f) <=> h = f
      BY <1>3, <1>5 DEF AfterReplace
    <3> QED BY <1>7, <2>2, <3>1
  <2> QED BY <2>1, <2>2
<1>9. counter' = counter /\ calls' = calls /\ overlapped' = overlapped
  BY DEF Load
<1>10. TypeOK'
  BY <1>5, <1>9 DEF IndInv, TypeOK, Load
<1>11. \A f \in Function : Updating(f)' <=> Updating(f)
  <2>1. \A f \in Function :
          /\ Updating(f) <=> \E u \in Thread, i \in Nat : Pending(stack, u, i, f)
          /\ Updating(f)' <=> \E u \in Thread, i \in Nat : Pending(stack', u, i, f)
    BY <1>1, <1>5, UpdatingIsPending DEF Updating
  <2> QED BY <1>8, <2>1
<1>12. ASSUME NEW f \in Function \ overlapped
       PROVE  OneUpdate(stack', f) /\ RegisterFresh(stack', counter', f)
  BY <1>3, <1>5, <1>6, <1>8, <1>9 DEF IndInv, AfterReplace, OneUpdate, RegisterFresh
<1>13. OnlyOverlapsLoseCalls'
  BY <1>9, <1>11 DEF IndInv, OnlyOverlapsLoseCalls, Congruent
<1> QED BY <1>9, <1>10, <1>12, <1>13 DEF IndInv

LEMMA StoreIndInv ==
  ASSUME IndInv, NEW t \in Thread, Store(t)
  PROVE  IndInv'
<1> DEFINE h == Top(t).fn
           r == Top(t).reg
           a == Activation(h, "body", 0)
           n == Len(stack[t])
<1>1. stack \in [Thread -> Seq(Activations)] /\ stack[t] # <<>>
  BY DEF IndInv, TypeOK, Store, Running
<1>2. n \in DOMAIN stack[t] /\ Top(t) = stack[t][n] /\ Top(t) \in Activations
  <2>1. n \in DOMAIN stack[t] /\ Last(stack[t]) = stack[t][n]
    BY <1>1, Pop
  <2> QED BY <1>1, <2>1 DEF Top
<1>3. h \in Function /\ r \in 0 .. Wrap - 1 /\ a \in Activations /\ a.at = "body"
  BY <1>2, ProgramAssumption DEF Activation, Activations
<1>4. stack' = Replaced(stack, t, a)
  BY DEF Store, SetTop, Replaced
<1> HIDE DEF a
<1>5. /\ stack' \in [Thread -> Seq(Activations)] /\ n \in Nat
      /\ AfterReplace(stack, stack', t, a, n)
  BY <1>1, <1>3, <1>4, PendingAfterReplace
<1>6. /\ \A f \in Function : Pending(stack, t, n, f) <=> h = f
      /\ stack[t][n].at = "store" /\ stack[t][n].reg = r
  BY <1>2 DEF Store, Pending
<1>7. /\ counter' = [counter EXCEPT ![h] = (r + 1) % Wrap]
      /\ calls' = calls /\ overlapped' = overlapped
  BY DEF Store
<1> HIDE DEF n, h, r
<1>8. /\ (r + 1) % Wrap \in 0 .. Wrap - 1
      /\ counter' \in [Function -> 0 .. Wrap - 1]
      /\ counter'[h] = (r + 1) % Wrap
      /\ \A f \in Function \ {h} : counter'[f] = counter[f]
  <2>1. r + 1 \in Nat
    BY <1>3, ProgramAssumption
  <2>2. (r + 1) % Wrap \in 0 .. Wrap - 1
    BY <2>1, ProgramAssumption, DivisionIsExact
  <2> QED BY <1>3, <1>7, <2>2 DEF IndInv, TypeOK
<1>9. TypeOK'
  BY <1>5, <1>7, <1>8 DEF IndInv, TypeOK, Store
<1>10. \A f \in Function :
         /\ Updating(f) <=> \E u \in Thread, i \in Nat : Pending(stack, u, i, f)
         /\ Updating(f)' <=> \E u \in Thread, i \in Nat : Pending(stack', u, i, f)
  BY <1>1, <1>5, UpdatingIsPending DEF Updating
<1>11. ASSUME NEW f \in Function \ overlapped
       PROVE  /\ OneUpdate(stack', f) /\ RegisterFresh(stack', counter', f)
              /\ Congruent(calls[f], IF Updating(f) THEN counter[f] + 1 ELSE counter[f])'
  <2>1. /\ OneUpdate(stack, f) /\ RegisterFresh(stack, counter, f)
        /\ Congruent(calls[f], IF Updating(f) THEN counter[f] + 1 ELSE counter[f])
    BY DEF IndInv, OnlyOverlapsLoseCalls
  <2>2. CASE f = h
    <3>1. /\ Updating(f) /\ r = counter[f]
          /\ \A u \in Thread, i \in Nat : Pending(stack, u, i, f) => u = t /\ i = n
      BY <1>5, <1>6, <1>10, <2>1, <2>2 DEF AfterReplace, OneUpdate, RegisterFresh
    <3>2. \A u \in Thread, i \in Nat : ~Pending(stack', u, i, f)
      BY <1>3, <1>5, <3>1 DEF AfterReplace
    <3>3. ~Updating(f)' /\ OneUpdate(stack', f) /\ RegisterFresh(stack', counter', f)
      BY <1>10, <3>2 DEF OneUpdate, RegisterFresh
    <3>4. Congruent(calls[f], (r + 1) % Wrap)
      <4>1. calls[f] \in Nat /\ r + 1 \in Nat
        BY <1>3, ProgramAssumption DEF IndInv, TypeOK
      <4> QED BY <2>1, <3>1, <4>1, CongruentWrapped
    <3> QED BY <1>7, <1>8, <2>2, <3>3, <3>4 DEF Congruent
  <2>3. CASE f # h
    <3>1. \A u \in Thread, i \in Nat :
            /\ Pending(stack', u, i, f) <=> Pending(stack, u, i, f)
            /\ Pending(stack, u, i, f) => stack'[u][i] = stack[u][i]
      BY <1>3, <1>5, <1>6, <2>3 DEF AfterReplace
    <3>2. OneUpdate(stack', f) /\ RegisterFresh(stack', counter', f)
      BY <1>8, <2>1, <2>3, <3>1 DEF OneUpdate, RegisterFresh
    <3> QED BY <1>7, <1>8, <1>10, <2>1, <2>3, <3>1, <3>2 DEF Congruent
  <2> QED BY <2>2, <2>3
<1> QED BY <1>7, <1>9, <1>11 DEF IndInv, OnlyOverlapsLoseCalls

LEMMA ReturnIndInv ==
  ASSUME IndInv, NEW t \in Thread, Return(t)
  PROVE  IndInv'
<1>1. /\ stack \in [Thread -> Seq(Activations)] /\ stack[t] # <<>>
      /\ Last(stack[t]).at = "body"
      /\ stack' = Popped(stack, t)
  BY DEF IndInv, TypeOK, Return, Running, Top, Popped
<1>2. /\ stack' \in [Thread -> Seq(Activations)]
      /\ \A u \in Thread, i \in Nat, f \in Function :
           /\ Pending(stack', u, i, f) <=> Pending(stack, u, i, f)
           /\ Pending(stack, u, i, f) => stack'[u][i] = stack[u][i]
  BY <1>1, PendingAfterPop
<1>3. counter' = counter /\ calls' = calls /\ overlapped' = overlapped
  BY DEF Return
<1>4. TypeOK'
  BY <1>2, <1>3 DEF IndInv, TypeOK, Return
<1>5. \A f \in Function : Updating(f)' <=> Updating(f)
  <2>1. \A f \in Function :
          /\ Updating(f) <=> \E u \in Thread, i \in Nat : Pending(stack, u, i, f)
          /\ Updating(f)' <=> \E u \in Thread, i \in Nat : Pending(stack', u, i, f)
    BY <1>1, <1>2, UpdatingIsPending DEF Updating
  <2> QED BY <1>2, <2>1
<1>6. ASSUME NEW f \in Function \ overlapped
      PROVE  OneUpdate(stack', f) /\ RegisterFresh(stack', counter', f)
  BY <1>2, <1>3 DEF IndInv, OneUpdate, RegisterFresh
<1>7. OnlyOverlapsLoseCalls'
  BY <1>3, <1>5 DEF IndInv, OnlyOverlapsLoseCalls, Congruent
<1> QED BY <1>3, <1>4, <1>6, <1>7 DEF IndInv

\* The steps of the exit and of the report leave counters and stacks alone.
LEMMA OtherIndInv ==
  ASSUME IndInv,
         \/ \E t \in Thread : Exit(t)
         \/ \E f \in Function : ReportLine(f)
         \/ End \/ Abort \/ UNCHANGED vars
  PROVE  IndInv'
<1>1. /\ counter' = counter /\ stack' = stack
      /\ calls' = calls /\ overlapped' = overlapped
  BY DEF Exit, ReportLine, End, Abort, vars
<1>2. /\ phase' \in {"running", "exiting", "ended"}
      /\ leaver' \subseteq Thread
  BY DEF IndInv, TypeOK, Exit, ReportLine, End, Abort, vars
<1>3. /\ DOMAIN report' \subseteq Function
      /\ \A f \in DOMAIN report' : report'[f] \in 0 .. Wrap - 1
  <2>1. CASE \E f \in Function : ReportLine(f)
    BY <2>1 DEF ReportLine, IndInv, TypeOK
  <2>2. CASE report' = report
    BY <2>2 DEF IndInv, TypeOK
  <2> QED BY <2>1, <2>2 DEF Exit, End, Abort, vars
<1> QED BY <1>1, <1>2, <1>3 DEF IndInv, TypeOK, OnlyOverlapsLoseCalls, Updating, Congruent

LEMMA NextIndInv == IndInv /\ [Next]_vars => IndInv'
BY CallIndInv, LoadIndInv, StoreIndInv, ReturnIndInv, OtherIndInv DEF Next, Ended
-----------------------------------------------------------------------------
THEOREM Invariance == Spec => []IndInv
BY InitIndInv, NextIndInv, PTL DEF Spec

\* The variables keep their types, whatever the threads do.
THEOREM TypeCorrect == Spec => []TypeOK
<1>1. IndInv => TypeOK
  BY DEF IndInv
<1> QED BY Invariance, <1>1, PTL

\* For every program: a counter is wrong only if a call of its function began
\* while another one was between the load and the store of its increment.
THEOREM OverlapsAreTheOnlyLoss == Spec => []OnlyOverlapsLoseCalls
<1>1. IndInv => OnlyOverlapsLoseCalls
  BY DEF IndInv
<1> QED BY Invariance, <1>1, PTL
-----------------------------------------------------------------------------
(* No interleaving makes a counter exceed its calls.                       *)

\* The activations of f whose increments are still to be stored.
PendingOf(st, f) == {x \in Thread \X Nat : Pending(st, x[1], x[2], f)}

\* Every one of them is a call the counter has not seen; and whatever a store
\* writes, it takes its own activation out of them.
Bounded(st, c, n, f) ==
  /\ IsFiniteSet(PendingOf(st, f))
  /\ c[f] + Cardinality(PendingOf(st, f)) <= n[f]
  /\ \A x \in PendingOf(st, f) :
       st[x[1]][x[2]].at = "store" => st[x[1]][x[2]].reg + Cardinality(PendingOf(st, f)) <= n[f]

CountInv == IndInv /\ \A f \in Function : Bounded(stack, counter, calls, f)

\* The activations under way are the same, and so is what they have loaded.
LEMMA BoundedUnchanged ==
  ASSUME NEW st, NEW st2, NEW c, NEW c2, NEW n, NEW n2, NEW f \in Function, Bounded(st, c, n, f),
         \A u \in Thread, i \in Nat :
           /\ Pending(st2, u, i, f) <=> Pending(st, u, i, f)
           /\ Pending(st, u, i, f) => st2[u][i] = st[u][i],
         c2[f] = c[f], n2[f] = n[f]
  PROVE  Bounded(st2, c2, n2, f)
<1>1. PendingOf(st2, f) = PendingOf(st, f)
  BY DEF PendingOf
<1>2. \A x \in PendingOf(st, f) : st2[x[1]][x[2]] = st[x[1]][x[2]]
  BY DEF PendingOf
<1> QED BY <1>1, <1>2 DEF Bounded

LEMMA InitCountInv == Init => CountInv
<1> SUFFICES ASSUME Init PROVE \A f \in Function : Bounded(stack, counter, calls, f)
  BY InitIndInv DEF CountInv
<1> TAKE f \in Function
<1>1. PendingOf(stack, f) = {}
  BY DEF Init, PendingOf, Pending
<1>2. counter[f] = 0 /\ calls[f] = 0
  BY DEF Init
<1> QED BY <1>1, <1>2, FS_EmptySet DEF Bounded

LEMMA CallCountInv ==
  ASSUME CountInv, NEW t \in Thread, NEW g \in Function, Call(t, g)
  PROVE  CountInv'
<1> DEFINE a == Activation(g, "load", 0)
           n == Len(stack[t]) + 1
<1>1. IndInv /\ IndInv'
  BY CallIndInv DEF CountInv
<1>2. a \in Activations /\ a.fn = g /\ a.at = "load"
  BY ProgramAssumption DEF Activation, Activations
<1>3. stack \in [Thread -> Seq(Activations)] /\ stack' = Pushed(stack, t, a)
  BY <1>1 DEF Call, Pushed, IndInv, TypeOK
<1> HIDE DEF a
<1>4. n \in Nat /\ n \notin DOMAIN stack[t] /\ AfterPush(stack, stack', t, a, n)
  <2>1. stack[t] \in Seq(Activations) /\ n \notin DOMAIN stack[t]
    BY <1>3, LenProperties
  <2> QED BY <1>2, <1>3, <2>1, PendingAfterPush
<1> HIDE DEF n
<1>5. counter' = counter /\ calls' = [calls EXCEPT ![g] = @ + 1] /\ calls \in [Function -> Nat]
  BY <1>1 DEF Call, IndInv, TypeOK
<1> SUFFICES ASSUME NEW f \in Function PROVE Bounded(stack', counter', calls', f)
  BY <1>1 DEF CountInv
<1>6. Bounded(stack, counter, calls, f)
  BY DEF CountInv
<1>7. CASE f # g
  <2>1. \A u \in Thread, i \in Nat :
          /\ Pending(stack', u, i, f) <=> Pending(stack, u, i, f)
          /\ Pending(stack, u, i, f) => stack'[u][i] = stack[u][i]
    BY <1>2, <1>4, <1>7 DEF AfterPush
  <2>2. counter'[f] = counter[f] /\ calls'[f] = calls[f]
    BY <1>5, <1>7
  <2> QED BY <1>6, <2>1, <2>2, BoundedUnchanged
<1>8. CASE f = g
  <2> DEFINE P == PendingOf(stack, f)
             Q == PendingOf(stack', f)
  <2>1. Q = P \cup {<<t, n>>} /\ <<t, n>> \notin P
    BY <1>2, <1>4, <1>8 DEF AfterPush, PendingOf, Pending
  <2>2. IsFiniteSet(P) /\ Cardinality(P) \in Nat /\ calls[f] \in Nat /\ counter[f] \in Nat
    BY <1>1, <1>6, FS_CardinalityType, ProgramAssumption DEF Bounded, IndInv, TypeOK
  <2> HIDE DEF P, Q
  <2>3. IsFiniteSet(Q) /\ Cardinality(Q) = Cardinality(P) + 1
    BY <2>1, <2>2, FS_AddElement
  <2>4. calls'[f] = calls[f] + 1
    BY <1>5, <1>8
  <2>5. ASSUME NEW x \in Q, stack'[x[1]][x[2]].at = "store"
        PROVE  x \in P /\ stack'[x[1]][x[2]] = stack[x[1]][x[2]]
               /\ stack[x[1]][x[2]].reg \in Nat
    <3>1. x \in P /\ stack'[x[1]][x[2]] = stack[x[1]][x[2]]
      BY <1>2, <1>4, <2>1, <2>5 DEF AfterPush, PendingOf, P
    <3>2. stack[x[1]][x[2]] \in Activations
      BY <1>3, <3>1 DEF PendingOf, Pending, P
    <3> QED BY <3>1, <3>2, ProgramAssumption DEF Activations
  <2>6. counter'[f] + Cardinality(Q) <= calls'[f]
    BY <1>5, <1>6, <2>2, <2>3, <2>4 DEF Bounded, P
  <2>7. \A x \in Q : stack'[x[1]][x[2]].at = "store" =>
                       stack'[x[1]][x[2]].reg + Cardinality(Q) <= calls'[f]
    BY <1>6, <2>2, <2>3, <2>4, <2>5 DEF Bounded, P
  <2> QED BY <2>3, <2>6, <2>7 DEF Bounded, Q
<1> QED BY <1>7, <1>8

LEMMA LoadCountInv ==
  ASSUME CountInv, NEW t \in Thread, Load(t)
  PROVE  CountInv'
<1> DEFINE h == Top(t).fn
           a == Activation(h, "store", counter[h])
           n == Len(stack[t])
<1>1. IndInv /\ IndInv'
  BY LoadIndInv DEF CountInv
<1>2. stack \in [Thread -> Seq(Activations)] /\ stack[t] # <<>>
  BY <1>1 DEF IndInv, TypeOK, Load, Running
<1>3. n \in DOMAIN stack[t] /\ Top(t) = stack[t][n] /\ Top(t) \in Activations
  <2>1. n \in DOMAIN stack[t] /\ Last(stack[t]) = stack[t][n]
    BY <1>2, Pop
  <2> QED BY <1>2, <2>1 DEF Top
<1>4. /\ h \in Function /\ a \in Activations
      /\ a.fn = h /\ a.at = "store" /\ a.reg = counter[h]
  BY <1>1, <1>3 DEF IndInv, TypeOK, Activation, Activations
<1>5. stack' = Replaced(stack, t, a)
  BY DEF Load, SetTop, Replaced
<1>6. \A f \in Function : Pending(stack, t, n, f) <=> h = f
  BY <1>3 DEF Load, Pending, h
<1> HIDE DEF a, h
<1>7. n \in Nat /\ AfterReplace(stack, stack', t, a, n)
  BY <1>2, <1>4, <1>5, PendingAfterReplace
<1> HIDE DEF n
<1>8. counter' = counter /\ calls' = calls
  BY DEF Load
<1> SUFFICES ASSUME NEW f \in Function PROVE Bounded(stack', counter', calls', f)
  BY <1>1 DEF CountInv
<1>9. Bounded(stack, counter, calls, f)
  BY DEF CountInv
<1>10. PendingOf(stack', f) = PendingOf(stack, f)
  BY <1>4, <1>6, <1>7 DEF AfterReplace, PendingOf
<1>11. ASSUME NEW x \in PendingOf(stack, f)
       PROVE  \/ stack'[x[1]][x[2]] = stack[x[1]][x[2]]
              \/ stack'[x[1]][x[2]].reg = counter[f]
  <2>1. CASE x = <<t, n>>
    BY <1>4, <1>6, <1>7, <2>1 DEF AfterReplace, PendingOf
  <2>2. CASE x # <<t, n>>
    BY <1>7, <2>2 DEF AfterReplace, PendingOf
  <2> QED BY <2>1, <2>2
<1> QED BY <1>8, <1>9, <1>10, <1>11 DEF Bounded

LEMMA StoreCountInv ==
  ASSUME CountInv, NEW t \in Thread, Store(t)
  PROVE  CountInv'
<1> DEFINE h == Top(t).fn
           r == Top(t).reg
           a == Activation(h, "body", 0)
           n == Len(stack[t])
<1>1. IndInv /\ IndInv'
  BY StoreIndInv DEF CountInv
<1>2. stack \in [Thread -> Seq(Activations)] /\ stack[t] # <<>>
  BY <1>1 DEF IndInv, TypeOK, Store, Running
<1>3. n \in DOMAIN stack[t] /\ Top(t) = stack[t][n] /\ Top(t) \in Activations
  <2>1. n \in DOMAIN stack[t] /\ Last(stack[t]) = stack[t][n]
    BY <1>2, Pop
  <2> QED BY <1>2, <2>1 DEF Top
<1>4. h \in Function /\ r \in 0 .. Wrap - 1 /\ a \in Activations /\ a.at = "body"
  BY <1>3, ProgramAssumption DEF Activation, Activations
<1>5. stack' = Replaced(stack, t, a)
  BY DEF Store, SetTop, Replaced
<1>6. /\ \A f \in Function : Pending(stack, t, n, f) <=> h = f
      /\ stack[t][n].at = "store" /\ stack[t][n].reg = r
  BY <1>3 DEF Store, Pending
<1> HIDE DEF a
<1>7. n \in Nat /\ AfterReplace(stack, stack', t, a, n)
  BY <1>2, <1>4, <1>5, PendingAfterReplace
<1>8. counter' = [counter EXCEPT ![h] = (r + 1) % Wrap] /\ calls' = calls
      /\ counter \in [Function -> 0 .. Wrap - 1] /\ calls \in [Function -> Nat]
  BY <1>1 DEF Store, IndInv, TypeOK
<1> HIDE DEF n, h, r
<1> SUFFICES ASSUME NEW f \in Function PROVE Bounded(stack', counter', calls', f)
  BY <1>1 DEF CountInv
<1>9. Bounded(stack, counter, calls, f)
  BY DEF CountInv
<1>10. CASE f # h
  <2>1. \A u \in Thread, i \in Nat :
          /\ Pending(stack', u, i, f) <=> Pending(stack, u, i, f)
          /\ Pending(stack, u, i, f) => stack'[u][i] = stack[u][i]
    BY <1>4, <1>6, <1>7, <1>10 DEF AfterReplace
  <2>2. counter'[f] = counter[f] /\ calls'[f] = calls[f]
    BY <1>8, <1>10
  <2> QED BY <1>9, <2>1, <2>2, BoundedUnchanged
<1>11. CASE f = h
  <2> DEFINE P == PendingOf(stack, f)
             Q == PendingOf(stack', f)
  <2>1. Q = P \ {<<t, n>>} /\ <<t, n>> \in P
    BY <1>4, <1>6, <1>7, <1>11 DEF AfterReplace, PendingOf
  <2>2. IsFiniteSet(P) /\ Cardinality(P) \in Nat /\ calls[f] \in Nat
    BY <1>8, <1>9, FS_CardinalityType DEF Bounded
  <2>3. IsFiniteSet(Q) /\ Cardinality(Q) = Cardinality(P) - 1
    BY <2>1, <2>2, FS_RemoveElement
  <2>4. r + Cardinality(P) <= calls[f]
    BY <1>6, <1>9, <2>1 DEF Bounded
  <2>5. counter'[f] \in Nat /\ counter'[f] <= r + 1
    <3>1. counter'[f] = (r + 1) % Wrap /\ r + 1 \in 0 .. Wrap
      BY <1>4, <1>8, <1>11, ProgramAssumption
    <3>2. CASE r + 1 < Wrap
      BY <1>4, <3>1, <3>2, SmallRemainder, ProgramAssumption
    <3>3. CASE r + 1 = Wrap
      <4>1. Wrap = Wrap * 1 + 0 /\ 0 \in 0 .. Wrap - 1
        BY ProgramAssumption
      <4>2. (Wrap * 1 + 0) % Wrap = 0
        BY <4>1, RemainderIsUnique, ProgramAssumption
      <4> QED BY <1>4, <3>1, <3>3, <4>1, <4>2, ProgramAssumption
    <3> QED BY <3>1, <3>2, <3>3, ProgramAssumption
  <2>6. ASSUME NEW x \in Q
        PROVE  /\ x \in P /\ stack'[x[1]][x[2]] = stack[x[1]][x[2]]
               /\ stack[x[1]][x[2]].reg \in Nat
    <3>1. x \in P /\ stack'[x[1]][x[2]] = stack[x[1]][x[2]]
      BY <1>7, <2>1 DEF AfterReplace, PendingOf
    <3>2. stack[x[1]][x[2]] \in Activations
      BY <1>2, <3>1 DEF PendingOf, Pending
    <3> QED BY <3>1, <3>2, ProgramAssumption DEF Activations
  <2> HIDE DEF P, Q
  <2>7. counter'[f] + Cardinality(Q) <= calls'[f]
    BY <1>4, <1>8, <2>2, <2>3, <2>4, <2>5, ProgramAssumption
  <2>8. \A x \in Q : stack'[x[1]][x[2]].at = "store" =>
                       stack'[x[1]][x[2]].reg + Cardinality(Q) <= calls'[f]
    BY <1>8, <1>9, <2>2, <2>3, <2>6 DEF Bounded, P
  <2> QED BY <2>3, <2>7, <2>8 DEF Bounded, Q
<1> QED BY <1>10, <1>11

LEMMA OtherCountInv ==
  ASSUME CountInv,
         \/ \E t \in Thread : Return(t) \/ Exit(t)
         \/ \E f \in Function : ReportLine(f)
         \/ End \/ Abort \/ UNCHANGED vars
  PROVE  CountInv'
<1>1. IndInv /\ IndInv'
  BY ReturnIndInv, OtherIndInv DEF CountInv
<1>2. counter' = counter /\ calls' = calls
  BY DEF Return, Exit, ReportLine, End, Abort, vars
<1>3. \A u \in Thread, i \in Nat, f \in Function :
        /\ Pending(stack', u, i, f) <=> Pending(stack, u, i, f)
        /\ Pending(stack, u, i, f) => stack'[u][i] = stack[u][i]
  <2>1. ASSUME NEW t \in Thread, Return(t)
        PROVE  /\ stack \in [Thread -> Seq(Activations)] /\ stack[t] # <<>>
               /\ Last(stack[t]).at = "body" /\ stack' = Popped(stack, t)
    BY <1>1, <2>1 DEF IndInv, TypeOK, Return, Running, Top, Popped
  <2>2. CASE \E t \in Thread : Return(t)
    BY <2>1, <2>2, PendingAfterPop
  <2>3. CASE stack' = stack
    BY <2>3
  <2> QED BY <2>2, <2>3 DEF Exit, ReportLine, End, Abort, vars
<1> QED BY <1>1, <1>2, <1>3, BoundedUnchanged DEF CountInv

\* For every program and every schedule: a counter may miss calls, but never
\* counts one that was not made, nor one twice.
THEOREM CountersNeverExceedCalls == Spec => []NeverOvercounts
<1>1. CountInv /\ [Next]_vars => CountInv'
  BY CallCountInv, LoadCountInv, StoreCountInv, OtherCountInv DEF Next, Ended
<1>2. ASSUME CountInv PROVE NeverOvercounts
  <2> SUFFICES ASSUME NEW f \in Function PROVE counter[f] <= calls[f]
    BY DEF NeverOvercounts
  <2>1. /\ counter[f] + Cardinality(PendingOf(stack, f)) <= calls[f]
        /\ Cardinality(PendingOf(stack, f)) \in Nat
    BY <1>2, FS_CardinalityType DEF CountInv, Bounded
  <2>2. counter[f] \in Nat /\ calls[f] \in Nat
    BY <1>2, ProgramAssumption DEF CountInv, IndInv, TypeOK
  <2> QED BY <2>1, <2>2
<1> QED BY InitCountInv, <1>1, <1>2, PTL DEF Spec
-----------------------------------------------------------------------------
(* A program with one thread and without signal handlers.                  *)

AllInBody(t) == \A i \in DOMAIN stack[t] : stack[t][i].at = "body"

\* Only the running activation can be updating a counter, and not during exit.
SingleInv(m) ==
  /\ IndInv
  /\ \A i \in DOMAIN stack[m] \ {Len(stack[m])} : stack[m][i].at = "body"
  /\ overlapped = {}
  /\ phase = "exiting" => leaver = {m} /\ AllInBody(m)

LEMMA TopInBody ==
  ASSUME NEW m \in Thread, SingleInv(m), stack[m] # <<>> => Top(m).at = "body"
  PROVE  AllInBody(m)
<1>1. stack[m] \in Seq(Activations)
  BY DEF SingleInv, IndInv, TypeOK
<1>2. CASE stack[m] = <<>>
  BY <1>2 DEF AllInBody
<1>3. CASE stack[m] # <<>>
  <2>1. Top(m) = stack[m][Len(stack[m])]
    BY <1>1, <1>3, Pop DEF Top
  <2> QED BY <1>3, <2>1 DEF AllInBody, SingleInv
<1> QED BY <1>2, <1>3

LEMMA BodiesDoNotUpdate ==
  ASSUME NEW m, Thread = {m}, AllInBody(m), NEW f \in Function
  PROVE  ~Updating(f)
BY DEF AllInBody, Updating

LEMMA InitSingleInv ==
  ASSUME NEW m, Thread = {m}
  PROVE  Init => SingleInv(m)
BY InitIndInv DEF Init, SingleInv

LEMMA CallSingleInv ==
  ASSUME NEW m, Thread = {m}, Handler = {}, SingleInv(m), NEW f \in Function, Call(m, f)
  PROVE  SingleInv(m)' /\ phase = "running"
<1>1. IndInv'
  BY CallIndInv DEF SingleInv
<1>2. phase = "running" /\ phase' = phase
  BY DEF Call, SingleInv, IndInv, TypeOK
<1>3. AllInBody(m)
  BY TopInBody DEF Call
<1>4. overlapped' = {}
  BY <1>3, BodiesDoNotUpdate DEF Call, SingleInv
<1>5. \A i \in DOMAIN stack'[m] \ {Len(stack'[m])} : stack'[m][i].at = "body"
  <2> DEFINE a == Activation(f, "load", 0)
  <2>1. stack[m] \in Seq(Activations) /\ stack'[m] = Append(stack[m], a) /\ a \in Activations
    BY ProgramAssumption DEF Call, SingleInv, IndInv, TypeOK, Activation, Activations
  <2> HIDE DEF a
  <2>2. /\ DOMAIN stack'[m] = DOMAIN stack[m] \cup {Len(stack[m]) + 1}
        /\ Len(stack'[m]) = Len(stack[m]) + 1
        /\ \A i \in DOMAIN stack[m] : stack'[m][i] = stack[m][i]
    BY <2>1, Push, AppendProperties
  <2> QED BY <1>3, <2>2 DEF AllInBody
<1> QED BY <1>1, <1>2, <1>4, <1>5 DEF SingleInv

\* Load and Store replace the running activation.
LEMMA ReplaceSingleInv ==
  ASSUME NEW m, Thread = {m}, SingleInv(m), Load(m) \/ Store(m)
  PROVE  SingleInv(m)'
<1>1. IndInv'
  BY LoadIndInv, StoreIndInv DEF SingleInv
<1>2. overlapped' = overlapped /\ phase' = phase /\ phase # "exiting"
  BY DEF Load, Store, Running, SingleInv
<1>3. PICK a : stack' = SetTop(m, a)
  BY DEF Load, Store
<1>4. stack[m] \in Seq(Activations) /\ stack[m] # <<>>
  BY DEF Load, Store, Running, SingleInv, IndInv, TypeOK
<1>5. stack'[m] = Append(Front(stack[m]), a)
  BY <1>3 DEF SetTop, SingleInv, IndInv, TypeOK
<1>6. stack[m] \in Seq(Activations \cup {a})
  BY <1>4
<1>7. /\ DOMAIN stack'[m] = DOMAIN stack[m] /\ Len(stack'[m]) = Len(stack[m])
      /\ \A i \in DOMAIN stack[m] \ {Len(stack[m])} : stack'[m][i] = stack[m][i]
  <2>1. /\ Front(stack[m]) \in Seq(Activations \cup {a})
        /\ Len(Front(stack[m])) + 1 = Len(stack[m])
    BY <1>4, <1>6, Pop
  <2>2. Len(stack'[m]) = Len(stack[m])
    BY <1>5, <2>1, AppendProperties
  <2> QED BY <1>4, <1>5, <1>6, <2>2, ReplaceTop
<1> QED BY <1>1, <1>2, <1>7 DEF SingleInv

LEMMA ReturnSingleInv ==
  ASSUME NEW m, Thread = {m}, SingleInv(m), Return(m)
  PROVE  SingleInv(m)'
<1>1. IndInv'
  BY ReturnIndInv DEF SingleInv
<1>2. overlapped' = overlapped /\ phase' = phase /\ phase # "exiting"
  BY DEF Return, Running, SingleInv
<1>3. stack[m] \in Seq(Activations) /\ stack[m] # <<>> /\ stack'[m] = Front(stack[m])
  BY DEF Return, Running, SingleInv, IndInv, TypeOK
<1>4. /\ DOMAIN Front(stack[m]) = DOMAIN stack[m] \ {Len(stack[m])}
      /\ \A i \in DOMAIN stack[m] \ {Len(stack[m])} : Front(stack[m])[i] = stack[m][i]
  BY <1>3, Pop
<1> QED BY <1>1, <1>2, <1>3, <1>4 DEF SingleInv

LEMMA OtherSingleInv ==
  ASSUME NEW m, Thread = {m}, SingleInv(m),
         \/ Exit(m)
         \/ \E f \in Function : ReportLine(f)
         \/ End \/ Abort \/ UNCHANGED vars
  PROVE  SingleInv(m)'
<1>1. IndInv'
  BY OtherIndInv DEF SingleInv
<1>2. stack' = stack /\ overlapped' = overlapped
  BY DEF Exit, ReportLine, End, Abort, vars
<1>3. phase' = "exiting" => leaver' = {m} /\ AllInBody(m)'
  <2>1. CASE Exit(m)
    BY <2>1, TopInBody DEF Exit, AllInBody
  <2>2. CASE (\E f \in Function : ReportLine(f)) \/ End \/ Abort \/ UNCHANGED vars
    BY <1>2, <2>2 DEF ReportLine, End, Abort, vars, SingleInv, AllInBody
  <2> QED BY <2>1, <2>2
<1> QED BY <1>1, <1>2, <1>3 DEF SingleInv

LEMMA NextSingleInv ==
  ASSUME NEW m, Thread = {m}, Handler = {}
  PROVE  SingleInv(m) /\ [Next]_vars => SingleInv(m)'
BY CallSingleInv, ReplaceSingleInv, ReturnSingleInv, OtherSingleInv DEF Next, Ended

\* A line of the report is the number of calls, modulo the counter's range.
LEMMA ReportLineIsPromised ==
  ASSUME NEW m, Thread = {m}, SingleInv(m), NEW f \in Function, ReportLine(f)
  PROVE  Promise!ReportLine(f)
<1>1. phase = "exiting" /\ ~Updating(f)
  BY BodiesDoNotUpdate DEF ReportLine, SingleInv
<1>2. Congruent(calls[f], counter[f]) /\ counter[f] \in 0 .. Wrap - 1
  BY <1>1 DEF SingleInv, IndInv, OnlyOverlapsLoseCalls, TypeOK
<1>3. counter[f] = calls[f] % Wrap
  BY <1>2, SmallRemainder, ProgramAssumption DEF Congruent
<1> QED BY <1>1, <1>3 DEF ReportLine, Promise!ReportLine

LEMMA StepsArePromised ==
  ASSUME NEW m, Thread = {m}, Handler = {}, SingleInv(m), [Next]_vars
  PROVE  [Promise!Next]_(Promise!vars)
<1>1. ASSUME NEW f \in Function, Call(m, f) PROVE Promise!Call(f)
  BY <1>1, CallSingleInv DEF Call, Promise!Call
<1>2. CASE Load(m) \/ Store(m) \/ Return(m) \/ UNCHANGED vars
  BY <1>2 DEF Load, Store, Return, vars, Promise!vars
<1>3. CASE Exit(m) \/ Abort
  BY <1>3 DEF Exit, Abort, Promise!Close, Promise!Next
<1>4. CASE End
  BY <1>4 DEF End, Promise!vars
<1>5. ASSUME NEW f \in Function, ReportLine(f) PROVE Promise!ReportLine(f)
  BY <1>5, ReportLineIsPromised
<1> QED BY <1>1, <1>2, <1>3, <1>4, <1>5 DEF Next, Ended, Promise!Next

\* With one thread and no handlers the instrumented program does what the
\* pass promises: every call is counted, and the report tells how many.
THEOREM OneThreadImplementsTally ==
  ASSUME NEW CONSTANT m, Thread = {m}, Handler = {}
  PROVE  Spec => ImplementsTally
<1>1. Init => Promise!Init
  BY DEF Init, Promise!Init
<1>2. Init => SingleInv(m)
  BY InitSingleInv
<1>3. SingleInv(m) /\ [Next]_vars => SingleInv(m)' /\ [Promise!Next]_(Promise!vars)
  BY NextSingleInv, StepsArePromised
<1> QED BY <1>1, <1>2, <1>3, PTL DEF Spec, ImplementsTally, Promise!Spec
=============================================================================
