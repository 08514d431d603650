---------------------------- MODULE SummaryProofs ----------------------------
(***************************************************************************)
(* The determinisation and its static analyses are right, for every very   *)
(* weak alternating automaton and words of every length: a summary is the  *)
(* run of that automaton on the mirrored word, the diagonal solves its     *)
(* equations, only the realizable cells are consulted, and the states      *)
(* conflictWitness projects away do not matter.                            *)
(*                                                                         *)
(* SummaryInv carries it: the function a summary holds for a state depends *)
(* on the state's support alone, and those of the symbol-determined states *)
(* on nothing but the last symbol.  That the run of an automaton whose     *)
(* goto turns the head back is well defined is RunTablesAgree: by pebble   *)
(* from right to left, then by rank, then by head.                         *)
(***************************************************************************)
EXTENDS SummaryAutomaton, WordLemmas, FiniteSetTheorems

Rounds(a) == 1..Len(a.order)

-----------------------------------------------------------------------------
(***************************************************************************)
(* Closures.                                                               *)
(***************************************************************************)

LEMMA OrderFacts ==
    ASSUME NEW a, WellFormed(a)
    PROVE  /\ Len(a.order) \in Nat /\ DOMAIN a.order = Rounds(a)
           /\ \A k \in Rounds(a) : a.order[k] \in States(a)
           /\ \A q \in States(a) : \E k \in Rounds(a) : a.order[k] = q
           /\ \A j, k \in Rounds(a) : a.order[j] = a.order[k] => j = k
  BY DEF WellFormed, Rounds, States

LEMMA StatesAreFinite ==
    ASSUME NEW a, WellFormed(a)
    PROVE  IsFiniteSet(States(a)) /\ Cardinality(States(a)) \in Nat
           /\ Cardinality(States(a)) <= Len(a.order)
<1> DEFINE n == Len(a.order)
           f == [k \in 1..n |-> a.order[k]]
<1>1. n \in Nat /\ States(a) = {a.order[k] : k \in 1..n}
  BY DEF WellFormed, States
<1>2. IsFiniteSet(1..n) /\ Cardinality(1..n) = n
  <2>1. 1 \in Int /\ n \in Int /\ (IF 1 > n THEN 0 ELSE n - 1 + 1) = n
    BY <1>1
  <2> QED
    BY <2>1, FS_Interval
<1> HIDE DEF n
<1>3. f \in Surjection(1..n, States(a))
  BY <1>1 DEF Surjection
<1> HIDE DEF f
<1>4. IsFiniteSet(States(a)) /\ Cardinality(States(a)) <= Cardinality(1..n)
  BY <1>2, <1>3, FS_Surjection
<1> QED
  BY <1>2, <1>4, FS_CardinalityType DEF n

\* One round of a closure.
Grown(next, before) == before \cup UNION {next[q] : q \in before}

LEMMA ClosureRounds ==
    ASSUME NEW a, WellFormed(a), NEW next \in [States(a) -> SUBSET States(a)],
           NEW seeds \in SUBSET States(a)
    PROVE  \E r \in [0..Len(a.order) -> SUBSET States(a)] :
                /\ r[0] = seeds
                /\ \A k \in Rounds(a) : r[k] = Grown(next, r[k - 1])
                /\ Closure(a, next, seeds) = r[Len(a.order)]
<1> DEFINE n == Len(a.order)
           X == SUBSET States(a)
           Body(f) == [k \in 0..n |->
                        IF k = 0 THEN seeds
                        ELSE LET before == f[k - 1] IN before \cup UNION {next[q] : q \in before}]
           Rows(f) == [k \in 0..n |-> IF k = 0 THEN seeds ELSE Grown(next, f[k - 1])]
           round == CHOOSE f : f = Body(f)
           h == [e \in X \X (1..n) |-> Grown(next, e[1])]
<1>1. n \in Nat
  BY DEF WellFormed
<1>2. IsTable(h, X, 1..n) /\ \A x \in X, k \in 1..n : Follow(h, x, k) = Grown(next, x)
  BY DEF Grown, IsTable, Follow
<1>3. \A f : Body(f) = Rows(f)
  BY Zenon DEF Grown
<1>4. Closure(a, next, seeds) = round[n]
  BY Zenon DEF Closure
<1> HIDE DEF h, Body
<1>5. PICK r \in [0..n -> X] : r[0] = seeds /\ \A k \in 1..n : r[k] = Follow(h, r[k - 1], k)
  <2>1. seeds \in X
    OBVIOUS
  <2> HIDE DEF n, X
  <2>2. \E r \in [0..n -> X] : IsRounds(r, h, seeds, n)
    BY <1>1, <1>2, <2>1, RoundsExist, Zenon
  <2> QED
    BY <2>2 DEF IsRounds
<1>6. \A k \in 1..n : r[k] = Grown(next, r[k - 1])
  <2>1. \A k \in 1..n : r[k - 1] \in X
    <3> HIDE DEF n, X
    <3>1. \A k \in 1..n : k - 1 \in 0..n
      BY <1>1
    <3> QED
      BY <1>5, <3>1
  <2> QED
    BY <1>2, <1>5, <2>1
<1>7. r = Rows(r)
  <2>1. \A k \in 0..n : r[k] = IF k = 0 THEN seeds ELSE Grown(next, r[k - 1])
    BY <1>1, <1>5, <1>6
  <2> QED
    BY <1>5, <2>1
<1>8. round = Rows(round)
  <2> HIDE DEF Rows
  <2>1. \E f : f = Body(f)
    BY <1>3, <1>7, Zenon
  <2>2. round = Body(round)
    BY <2>1, Zenon
  <2> QED
    BY <1>3, <2>2, Zenon
<1> HIDE DEF round, Rows, X
<1>9. round[0] = seeds /\ \A k \in 1..n : round[k] = Grown(next, round[k - 1])
  <2>1. \A k \in 0..n : round[k] = IF k = 0 THEN seeds ELSE Grown(next, round[k - 1])
    BY <1>8 DEF Rows
  <2> QED
    BY <1>1, <2>1
<1>10. round[n] = r[n]
  <2> HIDE DEF n
  <2>1. \A k \in 0..n : round[k] = r[k]
    <3>1. \A k \in 1..n : round[k - 1] = r[k - 1] => round[k] = r[k]
      BY <1>6, <1>9
    <3>2. round[0] = r[0]
      BY <1>5, <1>9
    <3> QED
      BY <1>1, <3>1, <3>2, RoundsAgree, ZenonT(40)
  <2> QED
    BY <1>1, <2>1
<1> QED
  BY <1>4, <1>5, <1>6, <1>10 DEF Rounds, X

ClosedUnder(C, next) == \A q \in C : next[q] \subseteq C

\* As many rounds as there are states are enough: until nothing is added, every
\* round adds a state.
LEMMA ClosureIsClosed ==
    ASSUME NEW a, WellFormed(a), NEW next \in [States(a) -> SUBSET States(a)],
           NEW seeds \in SUBSET States(a)
    PROVE  /\ Closure(a, next, seeds) \in SUBSET States(a)
           /\ seeds \subseteq Closure(a, next, seeds)
           /\ ClosedUnder(Closure(a, next, seeds), next)
<1> DEFINE n == Len(a.order)
<1>1. n \in Nat
  BY DEF WellFormed
<1>2. PICK r \in [0..n -> SUBSET States(a)] :
        /\ r[0] = seeds
        /\ \A k \in 1..n : r[k] = Grown(next, r[k - 1])
        /\ Closure(a, next, seeds) = r[n]
  BY ClosureRounds DEF Rounds
<1> HIDE DEF n
<1> DEFINE Fine(k) == seeds \subseteq r[k] /\ (ClosedUnder(r[k], next) \/ k + 1 <= Cardinality(r[k]))
           Good == {k \in Nat : k <= n => Fine(k)}
<1>3. \A k \in 0..n : IsFiniteSet(r[k]) /\ Cardinality(r[k]) \in Nat /\ Cardinality(r[k]) <= Cardinality(States(a))
  BY <1>2, StatesAreFinite, FS_Subset, FS_CardinalityType
<1>4. 0 \in Good
  <2>1. CASE seeds = {}
    BY <1>2, <2>1 DEF ClosedUnder
  <2>2. CASE seeds # {}
    <3>1. 0 \in 0..n
      BY <1>1
    <3>2. IsFiniteSet(seeds) /\ Cardinality(seeds) \in Nat
      BY <1>2, <1>3, <3>1
    <3>3. Cardinality(seeds) # 0
      BY <2>2, <3>2, FS_EmptySet
    <3>4. 0 + 1 <= Cardinality(r[0])
      BY <1>2, <3>2, <3>3
    <3> QED
      BY <1>2, <3>4
  <2> QED
    BY <2>1, <2>2
<1>5. ASSUME NEW k \in Nat, k \in Good
      PROVE  k + 1 \in Good
  <2> SUFFICES ASSUME k + 1 <= n
               PROVE  Fine(k + 1)
    OBVIOUS
  <2>1. k + 1 \in 1..n /\ (k + 1) - 1 = k /\ k \in 0..n /\ k + 1 \in 0..n /\ k <= n
    BY <1>1
  <2>2. Fine(k)
    BY <1>5, <2>1
  <2>3. r[k + 1] = Grown(next, r[k])
    BY <1>2, <2>1
  <2>4. r[k] \subseteq r[k + 1]
    BY <2>3 DEF Grown
  <2>5. seeds \subseteq r[k + 1]
    BY <2>2, <2>4
  <2>6. CASE ClosedUnder(r[k], next)
    <3>1. r[k + 1] = r[k]
      BY <2>3, <2>6 DEF Grown, ClosedUnder
    <3> QED
      BY <2>2, <2>6, <3>1
  <2>7. CASE ~ClosedUnder(r[k], next)
    <3>1. PICK q \in r[k] : ~(next[q] \subseteq r[k])
      BY <2>7 DEF ClosedUnder
    <3>2. PICK p \in next[q] : p \notin r[k]
      BY <3>1
    <3>3. p \in r[k + 1]
      BY <2>3, <3>2 DEF Grown
    <3>4. r[k] \cup {p} \subseteq r[k + 1]
      BY <2>4, <3>3
    <3>5. Cardinality(r[k] \cup {p}) = Cardinality(r[k]) + 1
      BY <1>3, <2>1, <3>2, FS_AddElement
    <3>6. Cardinality(r[k] \cup {p}) <= Cardinality(r[k + 1])
      BY <1>3, <2>1, <3>4, FS_Subset
    <3>7. k + 1 <= Cardinality(r[k])
      BY <2>2, <2>7
    <3>8. (k + 1) + 1 <= Cardinality(r[k + 1])
      <4>1. Cardinality(r[k]) \in Nat /\ Cardinality(r[k + 1]) \in Nat
        BY <1>3, <2>1
      <4> QED
        BY <3>5, <3>6, <3>7, <4>1
    <3> QED
      BY <2>5, <3>8
  <2> QED
    BY <2>6, <2>7
<1> HIDE DEF Good
<1>6. n \in Good
  BY <1>1, <1>4, <1>5, NumbersFollow
<1>7. Fine(n)
  BY <1>1, <1>6 DEF Good
<1>8. ~(n + 1 <= Cardinality(r[n]))
  <2>1. Cardinality(r[n]) \in Nat /\ Cardinality(r[n]) <= Cardinality(States(a))
    BY <1>1, <1>3
  <2>2. Cardinality(States(a)) \in Nat /\ Cardinality(States(a)) <= n
    BY StatesAreFinite DEF n
  <2> QED
    BY <1>1, <2>1, <2>2
<1>9. r[n] \in SUBSET States(a)
  BY <1>1, <1>2
<1> QED
  BY <1>2, <1>7, <1>8, <1>9

\* And they are the least ones.
LEMMA ClosureIsLeast ==
    ASSUME NEW a, WellFormed(a), NEW next \in [States(a) -> SUBSET States(a)],
           NEW seeds \in SUBSET States(a),
           NEW C, seeds \subseteq C, ClosedUnder(C, next)
    PROVE  Closure(a, next, seeds) \subseteq C
<1> DEFINE n == Len(a.order)
<1>1. n \in Nat
  BY DEF WellFormed
<1>2. PICK r \in [0..n -> SUBSET States(a)] :
        /\ r[0] = seeds
        /\ \A k \in 1..n : r[k] = Grown(next, r[k - 1])
        /\ Closure(a, next, seeds) = r[n]
  BY ClosureRounds DEF Rounds
<1> HIDE DEF n
<1> DEFINE Good == {k \in Nat : k <= n => r[k] \subseteq C}
<1>3. 0 \in Good
  BY <1>2
<1>4. ASSUME NEW k \in Nat, k \in Good
      PROVE  k + 1 \in Good
  <2> SUFFICES ASSUME k + 1 <= n
               PROVE  r[k + 1] \subseteq C
    OBVIOUS
  <2>1. k + 1 \in 1..n /\ (k + 1) - 1 = k /\ k <= n
    BY <1>1
  <2>2. r[k + 1] = Grown(next, r[k]) /\ r[k] \subseteq C
    BY <1>2, <1>4, <2>1
  <2> QED
    BY <2>2 DEF Grown, ClosedUnder
<1> HIDE DEF Good
<1>5. n \in Good
  BY <1>1, <1>3, <1>4, NumbersFollow
<1> QED
  BY <1>1, <1>2, <1>5 DEF Good

-----------------------------------------------------------------------------
(***************************************************************************)
(* The computations in rank order.                                         *)
(***************************************************************************)

\* One state of the diagonal.
Solve(a, s, lower, k) ==
    IF lower \cap GotoSupport(a) \in s[a.order[k]] THEN lower \cup {a.order[k]} ELSE lower


LEMMA DiagonalRounds ==
    ASSUME NEW a, WellFormed(a), NEW s
    PROVE  \E r \in [0..Len(a.order) -> SUBSET States(a)] :
                /\ r[0] = {}
                /\ \A k \in Rounds(a) : r[k] = Solve(a, s, r[k - 1], k)
                /\ Diagonal(a, s) = r[Len(a.order)]
<1> DEFINE n == Len(a.order)
           X == SUBSET States(a)
           Body(f) == [k \in 0..n |->
                        IF k = 0 THEN {}
                        ELSE LET q == a.order[k]
                                 lower == f[k - 1]
                             IN  IF lower \cap GotoSupport(a) \in s[q] THEN lower \cup {q} ELSE lower]
           Rows(f) == [k \in 0..n |-> IF k = 0 THEN {} ELSE Solve(a, s, f[k - 1], k)]
           solved == CHOOSE f : f = Body(f)
           h == [e \in X \X (1..n) |-> Solve(a, s, e[1], e[2])]
<1>1. n \in Nat
  BY DEF WellFormed
<1>2. IsTable(h, X, 1..n) /\ \A y \in X, k \in 1..n : Follow(h, y, k) = Solve(a, s, y, k)
  <2>1. \A y \in X, k \in 1..n : Solve(a, s, y, k) \in X
    BY OrderFacts DEF Rounds, Solve
  <2> QED
    BY <2>1 DEF IsTable, Follow
<1>3. \A f : Body(f) = Rows(f)
  BY Zenon DEF Solve
<1>4. Diagonal(a, s) = solved[n]
  BY Zenon DEF Diagonal
<1> HIDE DEF h, Body
<1>5. PICK r \in [0..n -> X] : r[0] = {} /\ \A k \in 1..n : r[k] = Follow(h, r[k - 1], k)
  <2>1. {} \in X
    OBVIOUS
  <2> HIDE DEF n, X
  <2>2. \E r \in [0..n -> X] : IsRounds(r, h, {}, n)
    BY <1>1, <1>2, <2>1, RoundsExist, Zenon
  <2> QED
    BY <2>2 DEF IsRounds
<1>6. \A k \in 1..n : r[k] = Solve(a, s, r[k - 1], k)
  <2>1. \A k \in 1..n : r[k - 1] \in X
    <3> HIDE DEF n, X
    <3>1. \A k \in 1..n : k - 1 \in 0..n
      BY <1>1
    <3> QED
      BY <1>5, <3>1
  <2> QED
    BY <1>2, <1>5, <2>1
<1>7. r = Rows(r)
  <2> HIDE DEF n, X
  <2>1. \A k \in 0..n : k = 0 \/ (k \in 1..n /\ k # 0)
    BY <1>1
  <2>2. \A k \in 0..n : r[k] = IF k = 0 THEN {} ELSE Solve(a, s, r[k - 1], k)
    BY <1>5, <1>6, <2>1, Zenon
  <2> QED
    BY <1>5, <2>2
<1>8. solved = Rows(solved)
  <2> HIDE DEF Rows
  <2>1. \E f : f = Body(f)
    BY <1>3, <1>7, Zenon
  <2>2. solved = Body(solved)
    BY <2>1, Zenon
  <2> QED
    BY <1>3, <2>2, Zenon
<1> HIDE DEF solved, Rows, X
<1>9. solved[0] = {} /\ \A k \in 1..n : solved[k] = Solve(a, s, solved[k - 1], k)
  <2> HIDE DEF n
  <2>1. \A k \in 0..n : solved[k] = IF k = 0 THEN {} ELSE Solve(a, s, solved[k - 1], k)
    BY <1>8 DEF Rows
  <2>2. 0 \in 0..n /\ \A k \in 1..n : k \in 0..n /\ k # 0
    BY <1>1
  <2> QED
    BY <2>1, <2>2, Zenon
<1>10. solved[n] = r[n]
  <2> HIDE DEF n
  <2>1. \A k \in 0..n : solved[k] = r[k]
    <3>1. \A k \in 1..n : solved[k - 1] = r[k - 1] => solved[k] = r[k]
      BY <1>6, <1>9
    <3>2. solved[0] = r[0]
      BY <1>5, <1>9
    <3> QED
      BY <1>1, <3>1, <3>2, RoundsAgree, ZenonT(40)
  <2> QED
    BY <1>1, <2>1
<1> QED
  BY <1>4, <1>5, <1>6, <1>10 DEF Rounds, X

\* One round of symbolDeterminedStates.
Stays(a, q, D) == \A x \in a.transition[q].atoms : x.action = "goto" /\ x.state \in D

Thinned(a, before) == {q \in before : Stays(a, q, before)}


LEMMA SymbolDeterminedRounds ==
    ASSUME NEW a, WellFormed(a)
    PROVE  \E r \in [0..Len(a.order) -> SUBSET States(a)] :
                /\ r[0] = States(a)
                /\ \A k \in Rounds(a) : r[k] = Thinned(a, r[k - 1])
                /\ SymbolDetermined(a) = r[Len(a.order)]
<1> DEFINE n == Len(a.order)
           X == SUBSET States(a)
           Body(f) == [k \in 0..n |->
                        IF k = 0 THEN States(a)
                        ELSE LET before == f[k - 1] IN {q \in before : Stays(a, q, before)}]
           Rows(f) == [k \in 0..n |-> IF k = 0 THEN States(a) ELSE Thinned(a, f[k - 1])]
           solved == CHOOSE f : f = Body(f)
           h == [e \in X \X (1..n) |-> Thinned(a, e[1])]
<1>1. n \in Nat
  BY DEF WellFormed
<1>2. IsTable(h, X, 1..n) /\ \A y \in X, k \in 1..n : Follow(h, y, k) = Thinned(a, y)
  <2>1. \A y \in X, k \in 1..n : Thinned(a, y) \in X
    BY OrderFacts DEF Rounds, Thinned
  <2> QED
    BY <2>1 DEF IsTable, Follow
<1>3. \A f : Body(f) = Rows(f)
  BY Zenon DEF Thinned
<1>4. SymbolDetermined(a) = solved[n]
  BY Zenon DEF SymbolDetermined, Stays
<1> HIDE DEF h, Body
<1>5. PICK r \in [0..n -> X] : r[0] = States(a) /\ \A k \in 1..n : r[k] = Follow(h, r[k - 1], k)
  <2>1. States(a) \in X
    OBVIOUS
  <2> HIDE DEF n, X
  <2>2. \E r \in [0..n -> X] : IsRounds(r, h, States(a), n)
    BY <1>1, <1>2, <2>1, RoundsExist, Zenon
  <2> QED
    BY <2>2 DEF IsRounds
<1>6. \A k \in 1..n : r[k] = Thinned(a, r[k - 1])
  <2>1. \A k \in 1..n : r[k - 1] \in X
    <3> HIDE DEF n, X
    <3>1. \A k \in 1..n : k - 1 \in 0..n
      BY <1>1
    <3> QED
      BY <1>5, <3>1
  <2> QED
    BY <1>2, <1>5, <2>1
<1>7. r = Rows(r)
  <2> HIDE DEF n, X
  <2>1. \A k \in 0..n : k = 0 \/ (k \in 1..n /\ k # 0)
    BY <1>1
  <2>2. \A k \in 0..n : r[k] = IF k = 0 THEN States(a) ELSE Thinned(a, r[k - 1])
    BY <1>5, <1>6, <2>1, Zenon
  <2> QED
    BY <1>5, <2>2
<1>8. solved = Rows(solved)
  <2> HIDE DEF Rows
  <2>1. \E f : f = Body(f)
    BY <1>3, <1>7, Zenon
  <2>2. solved = Body(solved)
    BY <2>1, Zenon
  <2> QED
    BY <1>3, <2>2, Zenon
<1> HIDE DEF solved, Rows, X
<1>9. solved[0] = States(a) /\ \A k \in 1..n : solved[k] = Thinned(a, solved[k - 1])
  <2> HIDE DEF n
  <2>1. \A k \in 0..n : solved[k] = IF k = 0 THEN States(a) ELSE Thinned(a, solved[k - 1])
    BY <1>8 DEF Rows
  <2>2. 0 \in 0..n /\ \A k \in 1..n : k \in 0..n /\ k # 0
    BY <1>1
  <2> QED
    BY <2>1, <2>2, Zenon
<1>10. solved[n] = r[n]
  <2> HIDE DEF n
  <2>1. \A k \in 0..n : solved[k] = r[k]
    <3>1. \A k \in 1..n : solved[k - 1] = r[k - 1] => solved[k] = r[k]
      BY <1>6, <1>9
    <3>2. solved[0] = r[0]
      BY <1>5, <1>9
    <3> QED
      BY <1>1, <3>1, <3>2, RoundsAgree, ZenonT(40)
  <2> QED
    BY <1>1, <2>1
<1> QED
  BY <1>4, <1>5, <1>6, <1>10 DEF Rounds, X

\* One state of symbolDeterminedValue.
HereHolds(a, symbol, lower, q) ==
    /\ q \in SymbolDetermined(a)
    /\ \E c \in a.transition[q].clauses :
        symbol \in c.letters /\ \A x \in c.atoms : x.state \in lower

Unfold(a, symbol, lower, k) ==
    IF HereHolds(a, symbol, lower, a.order[k]) THEN lower \cup {a.order[k]} ELSE lower


LEMMA ValueRounds ==
    ASSUME NEW a, WellFormed(a), NEW symbol
    PROVE  \E r \in [0..Len(a.order) -> SUBSET States(a)] :
                /\ r[0] = {}
                /\ \A k \in Rounds(a) : r[k] = Unfold(a, symbol, r[k - 1], k)
                /\ SymbolDeterminedValues(a, symbol) = r[Len(a.order)]
<1> DEFINE n == Len(a.order)
           X == SUBSET States(a)
           Body(f) == [k \in 0..n |->
                        IF k = 0 THEN {}
                        ELSE LET q == a.order[k]
                                 lower == f[k - 1]
                                 here == HereHolds(a, symbol, lower, q)
                             IN  IF here THEN lower \cup {q} ELSE lower]
           Rows(f) == [k \in 0..n |-> IF k = 0 THEN {} ELSE Unfold(a, symbol, f[k - 1], k)]
           solved == CHOOSE f : f = Body(f)
           h == [e \in X \X (1..n) |-> Unfold(a, symbol, e[1], e[2])]
<1>1. n \in Nat
  BY DEF WellFormed
<1>2. IsTable(h, X, 1..n) /\ \A y \in X, k \in 1..n : Follow(h, y, k) = Unfold(a, symbol, y, k)
  <2>1. \A y \in X, k \in 1..n : Unfold(a, symbol, y, k) \in X
    BY OrderFacts DEF Rounds, Unfold
  <2> QED
    BY <2>1 DEF IsTable, Follow
<1>3. \A f : Body(f) = Rows(f)
  BY Zenon DEF Unfold
<1>4. SymbolDeterminedValues(a, symbol) = solved[n]
  BY Zenon DEF SymbolDeterminedValues, HereHolds
<1> HIDE DEF h, Body
<1>5. PICK r \in [0..n -> X] : r[0] = {} /\ \A k \in 1..n : r[k] = Follow(h, r[k - 1], k)
  <2>1. {} \in X
    OBVIOUS
  <2> HIDE DEF n, X
  <2>2. \E r \in [0..n -> X] : IsRounds(r, h, {}, n)
    BY <1>1, <1>2, <2>1, RoundsExist, Zenon
  <2> QED
    BY <2>2 DEF IsRounds
<1>6. \A k \in 1..n : r[k] = Unfold(a, symbol, r[k - 1], k)
  <2>1. \A k \in 1..n : r[k - 1] \in X
    <3> HIDE DEF n, X
    <3>1. \A k \in 1..n : k - 1 \in 0..n
      BY <1>1
    <3> QED
      BY <1>5, <3>1
  <2> QED
    BY <1>2, <1>5, <2>1
<1>7. r = Rows(r)
  <2> HIDE DEF n, X
  <2>1. \A k \in 0..n : k = 0 \/ (k \in 1..n /\ k # 0)
    BY <1>1
  <2>2. \A k \in 0..n : r[k] = IF k = 0 THEN {} ELSE Unfold(a, symbol, r[k - 1], k)
    BY <1>5, <1>6, <2>1, Zenon
  <2> QED
    BY <1>5, <2>2
<1>8. solved = Rows(solved)
  <2> HIDE DEF Rows
  <2>1. \E f : f = Body(f)
    BY <1>3, <1>7, Zenon
  <2>2. solved = Body(solved)
    BY <2>1, Zenon
  <2> QED
    BY <1>3, <2>2, Zenon
<1> HIDE DEF solved, Rows, X
<1>9. solved[0] = {} /\ \A k \in 1..n : solved[k] = Unfold(a, symbol, solved[k - 1], k)
  <2> HIDE DEF n
  <2>1. \A k \in 0..n : solved[k] = IF k = 0 THEN {} ELSE Unfold(a, symbol, solved[k - 1], k)
    BY <1>8 DEF Rows
  <2>2. 0 \in 0..n /\ \A k \in 1..n : k \in 0..n /\ k # 0
    BY <1>1
  <2> QED
    BY <2>1, <2>2, Zenon
<1>10. solved[n] = r[n]
  <2> HIDE DEF n
  <2>1. \A k \in 0..n : solved[k] = r[k]
    <3>1. \A k \in 1..n : solved[k - 1] = r[k - 1] => solved[k] = r[k]
      BY <1>6, <1>9
    <3>2. solved[0] = r[0]
      BY <1>5, <1>9
    <3> QED
      BY <1>1, <3>1, <3>2, RoundsAgree, ZenonT(40)
  <2> QED
    BY <1>1, <2>1
<1> QED
  BY <1>4, <1>5, <1>6, <1>10 DEF Rounds, X

-----------------------------------------------------------------------------
(***************************************************************************)
(* Supports and relevant states.                                           *)
(***************************************************************************)

LeaveTargets(a) == [r \in States(a) |-> Targets(a, r, "leave")]

Successors(a) == [q \in States(a) |-> {x.state : x \in a.transition[q].atoms}]

LEMMA TargetsAreStates ==
    ASSUME NEW a, WellFormed(a)
    PROVE  /\ \A q \in States(a) : \A action : Targets(a, q, action) \in SUBSET States(a)
           /\ GotoSupport(a) \in SUBSET States(a)
           /\ LeaveTargets(a) \in [States(a) -> SUBSET States(a)]
           /\ Successors(a) \in [States(a) -> SUBSET States(a)]
<1>1. \A q \in States(a) : \A action : Targets(a, q, action) \in SUBSET States(a)
  BY DEF WellFormed, Targets
<1>2. Successors(a) \in [States(a) -> SUBSET States(a)]
  BY DEF WellFormed, Successors
<1> QED
  BY <1>1, <1>2 DEF GotoSupport, LeaveTargets

LEMMA SupportFacts ==
    ASSUME NEW a, WellFormed(a), NEW q \in States(a)
    PROVE  /\ Support(a, q) \subseteq GotoSupport(a)
           /\ Targets(a, q, "goto") \subseteq Support(a, q)
           /\ \A r \in Targets(a, q, "leave") : Support(a, r) \subseteq Support(a, q)
<1> DEFINE C(r) == Closure(a, LeaveTargets(a), {r})
<1>1. \A r \in States(a) : Support(a, r) = UNION {Targets(a, p, "goto") : p \in C(r)}
  BY DEF Support, LeaveTargets
<1>2. LeaveTargets(a) \in [States(a) -> SUBSET States(a)]
  BY TargetsAreStates
<1>3. \A r \in States(a) : C(r) \in SUBSET States(a) /\ r \in C(r) /\ ClosedUnder(C(r), LeaveTargets(a))
  <2> TAKE r \in States(a)
  <2>1. {r} \in SUBSET States(a)
    OBVIOUS
  <2> QED
    BY <1>2, <2>1, ClosureIsClosed
<1>4. \A r \in Targets(a, q, "leave") : r \in States(a) /\ r \in C(q)
  <2>1. LeaveTargets(a)[q] \subseteq C(q) /\ LeaveTargets(a)[q] = Targets(a, q, "leave")
    BY <1>3 DEF ClosedUnder, LeaveTargets
  <2> QED
    BY <1>3, <2>1
<1>5. ASSUME NEW r \in Targets(a, q, "leave")
      PROVE  C(r) \subseteq C(q)
  <2>1. {r} \in SUBSET States(a) /\ {r} \subseteq C(q) /\ ClosedUnder(C(q), LeaveTargets(a))
    BY <1>3, <1>4
  <2> QED
    BY <1>2, <2>1, ClosureIsLeast
<1> HIDE DEF C
<1>6. Support(a, q) \subseteq GotoSupport(a)
  BY <1>1, <1>3 DEF GotoSupport
<1>7. Targets(a, q, "goto") \subseteq Support(a, q)
  BY <1>1, <1>3
<1>8. \A r \in Targets(a, q, "leave") : Support(a, r) \subseteq Support(a, q)
  BY <1>1, <1>4, <1>5
<1> QED
  BY <1>6, <1>7, <1>8

LEMMA RelevantFacts ==
    ASSUME NEW a, WellFormed(a)
    PROVE  /\ Relevant(a) \in SUBSET States(a)
           /\ a.initial \in Relevant(a)
           /\ \A q \in Relevant(a) : \A x \in a.transition[q].atoms : x.state \in Relevant(a)
           /\ \A q \in Relevant(a) : Support(a, q) \subseteq Relevant(a)
<1> DEFINE R == Relevant(a)
<1>1. R = Closure(a, Successors(a), {a.initial})
  BY DEF Relevant, Successors
<1>2. {a.initial} \in SUBSET States(a)
  BY DEF WellFormed
<1>3. R \in SUBSET States(a) /\ a.initial \in R /\ ClosedUnder(R, Successors(a))
  BY <1>1, <1>2, TargetsAreStates, ClosureIsClosed
<1> HIDE DEF R
<1>4. \A q \in R : \A x \in a.transition[q].atoms : x.state \in R
  BY <1>3 DEF ClosedUnder, Successors
<1>5. \A q \in R : \A action : Targets(a, q, action) \subseteq R
  BY <1>4 DEF Targets
<1>6. ASSUME NEW q \in R
      PROVE  Support(a, q) \subseteq R
  <2>1. ClosedUnder(R, LeaveTargets(a))
    BY <1>3, <1>5 DEF ClosedUnder, LeaveTargets
  <2>2. {q} \in SUBSET States(a) /\ {q} \subseteq R
    BY <1>3
  <2>3. Closure(a, LeaveTargets(a), {q}) \subseteq R
    BY <2>1, <2>2, TargetsAreStates, ClosureIsLeast
  <2> QED
    BY <1>5, <2>3 DEF Support, LeaveTargets
<1> QED
  BY <1>3, <1>4, <1>6 DEF R

-----------------------------------------------------------------------------
(***************************************************************************)
(* Solving in rank order.                                                  *)
(***************************************************************************)

\* r builds a set of states by deciding them one after the other.
RankRounds(a, r) ==
    /\ r \in [0..Len(a.order) -> SUBSET States(a)]
    /\ r[0] = {}
    /\ \A k \in Rounds(a) : r[k] = r[k - 1] \/ r[k] = r[k - 1] \cup {a.order[k]}

\* A state is decided in its own round, once and for all.
LEMMA DecidedInItsRound ==
    ASSUME NEW a, WellFormed(a), NEW r, RankRounds(a, r)
    PROVE  \A j \in Rounds(a), k \in 0..Len(a.order) :
                a.order[j] \in r[k] <=> j <= k /\ a.order[j] \in r[j]
<1> DEFINE n == Len(a.order)
           Fine(k) == \A j \in 1..n : a.order[j] \in r[k] <=> j <= k /\ a.order[j] \in r[j]
           Good == {k \in Nat : k <= n => Fine(k)}
<1>1. n \in Nat
  BY DEF WellFormed
<1>2. /\ r[0] = {}
      /\ \A k \in 1..n : r[k] = r[k - 1] \/ r[k] = r[k - 1] \cup {a.order[k]}
      /\ \A j, k \in 1..n : a.order[j] = a.order[k] => j = k
  BY OrderFacts DEF RankRounds, Rounds
<1> HIDE DEF n
<1>3. 0 \in Good
  BY <1>2
<1>4. ASSUME NEW k \in Nat, k \in Good
      PROVE  k + 1 \in Good
  <2> SUFFICES ASSUME k + 1 <= n, NEW j \in 1..n
               PROVE  a.order[j] \in r[k + 1] <=> j <= k + 1 /\ a.order[j] \in r[j]
    OBVIOUS
  <2>1. k + 1 \in 1..n /\ (k + 1) - 1 = k /\ k <= n
    BY <1>1
  <2>2. a.order[j] \in r[k] <=> j <= k /\ a.order[j] \in r[j]
    BY <1>4, <2>1
  <2>3. r[k + 1] = r[k] \/ r[k + 1] = r[k] \cup {a.order[k + 1]}
    BY <1>2, <2>1
  <2>4. CASE j = k + 1
    BY <2>4
  <2>5. CASE j # k + 1
    <3>1. a.order[j] \in r[k + 1] <=> a.order[j] \in r[k]
      BY <1>2, <2>1, <2>3, <2>5
    <3>2. j <= k + 1 <=> j <= k
      BY <2>5
    <3> QED
      BY <2>2, <3>1, <3>2
  <2> QED
    BY <2>4, <2>5
<1> HIDE DEF Good
<1>5. \A k \in 0..n : k \in Good
  BY <1>3, <1>4, NumbersFollow
<1> QED
  BY <1>1, <1>5 DEF Good, n, Rounds

\* So a state whose dependencies come earlier sees them as they end up.
LEMMA EarlierIsFinal ==
    ASSUME NEW a, WellFormed(a), NEW r, RankRounds(a, r), NEW k \in Rounds(a),
           NEW S, \A g \in S : \E j \in 1..(k - 1) : a.order[j] = g
    PROVE  /\ \A g \in S : g \in r[k - 1] <=> g \in r[Len(a.order)]
           /\ a.order[k] \notin r[k - 1]
           /\ a.order[k] \in r[k] <=> a.order[k] \in r[Len(a.order)]
<1> DEFINE n == Len(a.order)
<1>1. n \in Nat /\ k \in 1..n
  BY DEF WellFormed, Rounds
<1>2. \A j \in 1..n, i \in 0..n : a.order[j] \in r[i] <=> j <= i /\ a.order[j] \in r[j]
  BY DecidedInItsRound DEF Rounds
<1> HIDE DEF n
<1>3. ASSUME NEW g \in S
      PROVE  g \in r[k - 1] <=> g \in r[n]
  <2>1. PICK j \in 1..(k - 1) : a.order[j] = g
    OBVIOUS
  <2>2. j \in 1..n /\ k - 1 \in 0..n /\ n \in 0..n /\ j <= k - 1 /\ j <= n
    BY <1>1
  <2>3. a.order[j] \in r[k - 1] <=> a.order[j] \in r[j]
    BY <1>2, <2>2
  <2>4. a.order[j] \in r[n] <=> a.order[j] \in r[j]
    BY <1>2, <2>2
  <2> QED
    BY <2>1, <2>3, <2>4
<1>4. a.order[k] \notin r[k - 1]
  <2>1. k - 1 \in 0..n /\ ~(k <= k - 1)
    BY <1>1
  <2> QED
    BY <1>1, <1>2, <2>1
<1>5. a.order[k] \in r[k] <=> a.order[k] \in r[n]
  <2>1. n \in 0..n /\ k <= n
    BY <1>1
  <2> QED
    BY <1>1, <1>2, <2>1
<1> QED
  BY <1>3, <1>4, <1>5 DEF n

-----------------------------------------------------------------------------
(***************************************************************************)
(* Summaries of the support.                                               *)
(***************************************************************************)

GotoValuations(a) == SUBSET GotoSupport(a)

\* The function of a state looks at the state's support alone.
DependsOnSupport(a, s) ==
    \A q \in States(a) : \A u, v \in GotoValuations(a) :
        u \cap Support(a, q) = v \cap Support(a, q) => (u \in s[q] <=> v \in s[q])

LEMMA InitialDependsOnSupport ==
    ASSUME NEW a, WellFormed(a)
    PROVE  DependsOnSupport(a, InitialSummary(a))
  BY DEF DependsOnSupport, InitialSummary, GotoValuations

\* What membership in a successor function means.
SomeClause(a, s, symbol, q, v) ==
    \E c \in a.transition[q].clauses :
        symbol \in c.letters /\ \A x \in c.atoms : AtomHolds(x, Diagonal(a, s), s, v)

LEMMA TransitionMembers ==
    ASSUME NEW a, NEW s, NEW symbol, NEW q \in States(a), NEW v \in GotoValuations(a)
    PROVE  v \in Transition(a, s, symbol)[q] <=> SomeClause(a, s, symbol, q, v)
  BY Zenon DEF Transition, SomeClause, GotoValuations

LEMMA TransitionDependsOnSupport ==
    ASSUME NEW a, WellFormed(a), NEW s, DependsOnSupport(a, s), NEW symbol
    PROVE  DependsOnSupport(a, Transition(a, s, symbol))
<1> DEFINE prior == Diagonal(a, s)
<1> SUFFICES ASSUME NEW q \in States(a), NEW u \in GotoValuations(a), NEW v \in GotoValuations(a),
                    u \cap Support(a, q) = v \cap Support(a, q)
             PROVE  u \in Transition(a, s, symbol)[q] <=> v \in Transition(a, s, symbol)[q]
  BY DEF DependsOnSupport
<1> HIDE DEF prior
<1>1. ASSUME NEW x \in a.transition[q].atoms
      PROVE  AtomHolds(x, prior, s, u) <=> AtomHolds(x, prior, s, v)
  <2>1. x.state \in States(a) /\ x.action \in {"goto", "leave", "carry"}
    BY DEF WellFormed
  <2>2. CASE x.action = "carry"
    BY <2>2 DEF AtomHolds
  <2>3. CASE x.action = "leave"
    <3>1. x.state \in Targets(a, q, "leave")
      BY <2>3 DEF Targets
    <3>2. Support(a, x.state) \subseteq Support(a, q)
      BY <3>1, SupportFacts
    <3>3. u \cap Support(a, x.state) = v \cap Support(a, x.state)
      BY <3>2
    <3>4. u \in s[x.state] <=> v \in s[x.state]
      BY <2>1, <3>3 DEF DependsOnSupport
    <3> QED
      BY <2>3, <3>4 DEF AtomHolds
  <2>4. CASE x.action = "goto"
    <3>1. x.state \in Targets(a, q, "goto")
      BY <2>4 DEF Targets
    <3>2. x.state \in Support(a, q)
      BY <3>1, SupportFacts
    <3>3. x.state \in u <=> x.state \in v
      BY <3>2
    <3> QED
      BY <2>4, <3>3 DEF AtomHolds
  <2> QED
    BY <2>1, <2>2, <2>3, <2>4
<1>2. \A c \in a.transition[q].clauses : c.atoms \subseteq a.transition[q].atoms
  BY DEF WellFormed
<1>3. SomeClause(a, s, symbol, q, u) <=> SomeClause(a, s, symbol, q, v)
  BY <1>1, <1>2 DEF SomeClause, prior
<1> QED
  BY <1>3, TransitionMembers

\* Under a very weak order the diagonal solves its equations.
LEMMA DiagonalSolves ==
    ASSUME NEW a, WellFormed(a), VeryWeak(a), NEW s, DependsOnSupport(a, s)
    PROVE  /\ Diagonal(a, s) \in SUBSET States(a)
           /\ \A q \in States(a) :
                q \in Diagonal(a, s) <=> Diagonal(a, s) \cap GotoSupport(a) \in s[q]
<1> DEFINE n == Len(a.order)
           V == Diagonal(a, s)
<1>1. n \in Nat
  BY DEF WellFormed
<1>2. PICK r \in [0..n -> SUBSET States(a)] :
        r[0] = {} /\ (\A k \in Rounds(a) : r[k] = Solve(a, s, r[k - 1], k)) /\ V = r[n]
  BY DiagonalRounds
<1>3. RankRounds(a, r)
  BY <1>2 DEF RankRounds, Solve
<1>4. V \in SUBSET States(a)
  BY <1>1, <1>2
<1> HIDE DEF V
<1>5. ASSUME NEW k \in Rounds(a)
      PROVE  a.order[k] \in V <=> V \cap GotoSupport(a) \in s[a.order[k]]
  <2> DEFINE q == a.order[k]
             S == Support(a, q)
             u == r[k - 1] \cap GotoSupport(a)
             v == V \cap GotoSupport(a)
  <2>1. q \in States(a) /\ S \subseteq GotoSupport(a)
    BY OrderFacts, SupportFacts
  <2>2. \A g \in S : \E j \in 1..(k - 1) : a.order[j] = g
    BY OrderFacts DEF VeryWeak
  <2>3. /\ \A g \in S : g \in r[k - 1] <=> g \in r[n]
        /\ q \notin r[k - 1]
        /\ q \in r[k] <=> q \in r[n]
    <3> HIDE DEF S
    <3> QED
      BY <1>3, <2>2, EarlierIsFinal
  <2>4. u \cap S = v \cap S
    BY <1>2, <2>1, <2>3
  <2>5. u \in s[q] <=> v \in s[q]
    BY <2>1, <2>4 DEF DependsOnSupport, GotoValuations
  <2>6. q \in r[k] <=> u \in s[q]
    BY <1>2, <2>3 DEF Solve
  <2> QED
    BY <1>2, <2>3, <2>5, <2>6
<1>6. \A q \in States(a) : q \in V <=> V \cap GotoSupport(a) \in s[q]
  <2> TAKE q \in States(a)
  <2>1. PICK k \in Rounds(a) : a.order[k] = q
    BY OrderFacts
  <2> QED
    BY <1>5, <2>1
<1> QED
  BY <1>4, <1>6 DEF V

-----------------------------------------------------------------------------
(***************************************************************************)
(* The symbol-determined states.                                           *)
(***************************************************************************)

\* A goto into an earlier state, when the order is very weak.
LEMMA GotoIsEarlier ==
    ASSUME NEW a, WellFormed(a), VeryWeak(a), NEW k \in Rounds(a),
           NEW x \in a.transition[a.order[k]].atoms, x.action = "goto"
    PROVE  /\ x.state \in GotoSupport(a)
           /\ \E j \in 1..(k - 1) : a.order[j] = x.state
<1>1. a.order[k] \in States(a) /\ k \in DOMAIN a.order
  BY OrderFacts
<1>2. x.state \in Targets(a, a.order[k], "goto")
  BY DEF Targets
<1>3. x.state \in Support(a, a.order[k]) /\ x.state \in GotoSupport(a)
  BY <1>1, <1>2, SupportFacts
<1> QED
  BY <1>1, <1>3 DEF VeryWeak

\* The states are thinned out once, in rank order: as many rounds as there are
\* states reach the greatest fixpoint.
LEMMA SymbolDeterminedIsClosed ==
    ASSUME NEW a, WellFormed(a), VeryWeak(a)
    PROVE  /\ SymbolDetermined(a) \in SUBSET States(a)
           /\ \A q \in SymbolDetermined(a) : Stays(a, q, SymbolDetermined(a))
<1> DEFINE n == Len(a.order)
           D == SymbolDetermined(a)
<1>1. n \in Nat /\ Rounds(a) = 1..n
  BY DEF WellFormed, Rounds
<1>2. PICK r \in [0..n -> SUBSET States(a)] :
        r[0] = States(a) /\ (\A k \in 1..n : r[k] = Thinned(a, r[k - 1])) /\ D = r[n]
  BY SymbolDeterminedRounds DEF Rounds
<1> HIDE DEF n, D
<1>3. \A k \in 0..n : \A j \in 0..k : r[k] \subseteq r[j]
  <2> DEFINE Shrinks(k) == \A j \in 0..k : r[k] \subseteq r[j]
             Good == {k \in Nat : k <= n => Shrinks(k)}
  <2>1. 0 \in Good
    OBVIOUS
  <2>2. ASSUME NEW k \in Nat, k \in Good
        PROVE  k + 1 \in Good
    <3> SUFFICES ASSUME k + 1 <= n
                 PROVE  Shrinks(k + 1)
      OBVIOUS
    <3>1. k + 1 \in 1..n /\ (k + 1) - 1 = k /\ k <= n /\ 0..(k + 1) = (0..k) \cup {k + 1}
      BY <1>1
    <3>2. r[k + 1] \subseteq r[k]
      BY <1>2, <3>1 DEF Thinned
    <3> QED
      BY <2>2, <3>1, <3>2
  <2> HIDE DEF Good
  <2>3. \A k \in 0..n : k \in Good
    BY <2>1, <2>2, NumbersFollow
  <2> QED
    BY <1>1, <2>3 DEF Good
\* A state and its targets that are in after the state's own round stay in.
<1>4. ASSUME NEW D1, NEW j \in 1..n, a.order[j] \in r[j],
             \A i \in 1..(j - 1) : a.order[i] \in r[i] => a.order[i] \in D1
      PROVE  Stays(a, a.order[j], D1)
  <2>1. j \in Rounds(a) /\ j - 1 \in 0..n
    BY <1>1
  <2>2. Stays(a, a.order[j], r[j - 1])
    BY <1>2, <1>4, <2>1 DEF Thinned
  <2>3. ASSUME NEW x \in a.transition[a.order[j]].atoms
        PROVE  x.action = "goto" /\ x.state \in D1
    <3>1. x.action = "goto" /\ x.state \in r[j - 1]
      BY <2>2 DEF Stays
    <3>2. PICK i \in 1..(j - 1) : a.order[i] = x.state
      BY <2>1, <3>1, GotoIsEarlier
    <3>3. i \in 0..(j - 1)
      OBVIOUS
    <3>4. r[j - 1] \subseteq r[i]
      BY <1>3, <2>1, <3>3
    <3> QED
      BY <1>4, <3>1, <3>2, <3>4
  <2> QED
    BY <2>3 DEF Stays
<1> DEFINE Settled(k) == \A j \in 1..k : a.order[j] \in r[j] => a.order[j] \in r[k]
<1>5. Settled(n)
  <2> DEFINE Good == {k \in Nat : k <= n => Settled(k)}
  <2>1. 0 \in Good
    OBVIOUS
  <2>2. ASSUME NEW k \in Nat, k \in Good
        PROVE  k + 1 \in Good
    <3> SUFFICES ASSUME k + 1 <= n
                 PROVE  Settled(k + 1)
      OBVIOUS
    <3>1. k + 1 \in 1..n /\ (k + 1) - 1 = k /\ k <= n /\ 1..(k + 1) = (1..k) \cup {k + 1}
      BY <1>1
    <3>2. Settled(k)
      BY <2>2, <3>1
    <3>3. ASSUME NEW j \in 1..k, a.order[j] \in r[j]
          PROVE  a.order[j] \in r[k + 1]
      <4>1. j \in 1..n /\ \A i \in 1..(j - 1) : i \in 1..k
        BY <1>1
      <4>2. Stays(a, a.order[j], r[k])
        BY <1>4, <3>2, <3>3, <4>1
      <4> QED
        BY <1>2, <3>1, <3>2, <3>3, <4>2 DEF Thinned
    <3> QED
      BY <3>1, <3>3
  <2> HIDE DEF Good
  <2>3. n \in Good
    BY <1>1, <2>1, <2>2, NumbersFollow
  <2> QED
    BY <1>1, <2>3 DEF Good
<1>6. D \in SUBSET States(a)
  BY <1>1, <1>2
<1>7. ASSUME NEW q \in D
      PROVE  Stays(a, q, D)
  <2>1. PICK j \in 1..n : a.order[j] = q
    BY <1>1, <1>6, OrderFacts
  <2>2. j \in 0..n /\ n \in 0..n /\ \A i \in 1..(j - 1) : i \in 1..n
    BY <1>1
  <2>3. a.order[j] \in r[j]
    BY <1>2, <1>3, <2>1, <2>2
  <2>4. \A i \in 1..(j - 1) : a.order[i] \in r[i] => a.order[i] \in D
    BY <1>2, <1>5, <2>2
  <2> QED
    BY <1>4, <2>1, <2>3, <2>4
<1> QED
  BY <1>6, <1>7 DEF D

\* symbolDeterminedValue solves the equations of the states it is about.
LEMMA ValuesSolve ==
    ASSUME NEW a, WellFormed(a), VeryWeak(a), NEW symbol
    PROVE  /\ SymbolDeterminedValues(a, symbol) \subseteq SymbolDetermined(a)
           /\ \A q \in States(a) :
                q \in SymbolDeterminedValues(a, symbol)
                    <=> HereHolds(a, symbol, SymbolDeterminedValues(a, symbol), q)
<1> DEFINE n == Len(a.order)
           W == SymbolDeterminedValues(a, symbol)
<1>1. n \in Nat
  BY DEF WellFormed
<1>2. PICK r \in [0..n -> SUBSET States(a)] :
        r[0] = {} /\ (\A k \in Rounds(a) : r[k] = Unfold(a, symbol, r[k - 1], k)) /\ W = r[n]
  BY ValueRounds
<1>3. RankRounds(a, r)
  BY <1>2 DEF RankRounds, Unfold
<1>4. W \in SUBSET States(a)
  BY <1>1, <1>2
<1> HIDE DEF W
<1>5. ASSUME NEW k \in Rounds(a)
      PROVE  a.order[k] \in W <=> HereHolds(a, symbol, W, a.order[k])
  <2> DEFINE q == a.order[k]
             S == {x.state : x \in {y \in a.transition[q].atoms : y.action = "goto"}}
  <2>1. q \in States(a)
    BY OrderFacts
  <2>2. \A g \in S : \E j \in 1..(k - 1) : a.order[j] = g
    BY GotoIsEarlier
  <2>3. /\ \A g \in S : g \in r[k - 1] <=> g \in r[n]
        /\ q \notin r[k - 1]
        /\ q \in r[k] <=> q \in r[n]
    <3> HIDE DEF S
    <3> QED
      BY <1>3, <2>2, EarlierIsFinal
  <2>4. q \in r[k] <=> HereHolds(a, symbol, r[k - 1], q)
    BY <1>2, <2>3 DEF Unfold
  <2>5. HereHolds(a, symbol, r[k - 1], q) <=> HereHolds(a, symbol, W, q)
    <3>1. CASE q \in SymbolDetermined(a)
      <4>1. \A x \in a.transition[q].atoms : x.state \in S
        BY <3>1, SymbolDeterminedIsClosed DEF Stays
      <4>2. \A c \in a.transition[q].clauses : \A x \in c.atoms : x.state \in S
        BY <2>1, <4>1 DEF WellFormed
      <4> HIDE DEF S, q
      <4>3. \A c \in a.transition[q].clauses : \A x \in c.atoms :
                x.state \in r[k - 1] <=> x.state \in W
        BY <1>2, <2>3, <4>2
      <4> QED
        BY <4>3 DEF HereHolds
    <3>2. CASE q \notin SymbolDetermined(a)
      BY <3>2 DEF HereHolds
    <3> QED
      BY <3>1, <3>2
  <2> QED
    BY <1>2, <2>3, <2>4, <2>5
<1>6. ASSUME NEW q \in States(a)
      PROVE  q \in W <=> HereHolds(a, symbol, W, q)
  <2>1. PICK k \in Rounds(a) : a.order[k] = q
    BY OrderFacts
  <2> QED
    BY <1>5, <2>1
<1>7. W \subseteq SymbolDetermined(a)
  BY <1>4, <1>6 DEF HereHolds
<1> QED
  BY <1>6, <1>7 DEF W

\* The equations of the symbol-determined states have one solution.
LEMMA ValuesAreUnique ==
    ASSUME NEW a, WellFormed(a), VeryWeak(a), NEW symbol, NEW V, NEW W,
           \A q \in SymbolDetermined(a) : q \in V <=> HereHolds(a, symbol, V, q),
           \A q \in SymbolDetermined(a) : q \in W <=> HereHolds(a, symbol, W, q)
    PROVE  V \cap SymbolDetermined(a) = W \cap SymbolDetermined(a)
<1> DEFINE n == Len(a.order)
           D == SymbolDetermined(a)
           Good == {k \in Nat : \A j \in Rounds(a) :
                        j <= k /\ a.order[j] \in D => (a.order[j] \in V <=> a.order[j] \in W)}
<1>1. n \in Nat
  BY DEF WellFormed
<1>2. D \in SUBSET States(a) /\ \A q \in D : Stays(a, q, D)
  BY SymbolDeterminedIsClosed
<1> HIDE DEF D
<1>3. 0 \in Good
  BY <1>1 DEF Rounds
<1>4. ASSUME NEW k \in Nat, k \in Good
      PROVE  k + 1 \in Good
  <2> SUFFICES ASSUME NEW j \in Rounds(a), j = k + 1, a.order[j] \in D
               PROVE  a.order[j] \in V <=> a.order[j] \in W
    <3>1. \A j \in Rounds(a) : j <= k + 1 <=> j <= k \/ j = k + 1
      BY <1>1 DEF Rounds
    <3> QED
      BY <1>4, <3>1
  <2>1. ASSUME NEW x \in a.transition[a.order[j]].atoms
        PROVE  x.state \in V <=> x.state \in W
    <3>1. x.action = "goto" /\ x.state \in D
      BY <1>2 DEF Stays
    <3>2. PICK i \in 1..(j - 1) : a.order[i] = x.state
      BY <3>1, GotoIsEarlier
    <3>3. i \in Rounds(a) /\ i <= k
      BY <1>1 DEF Rounds
    <3> QED
      BY <1>4, <3>1, <3>2, <3>3
  <2>2. \A c \in a.transition[a.order[j]].clauses : \A x \in c.atoms : x \in a.transition[a.order[j]].atoms
    BY <1>2 DEF WellFormed
  <2>3. HereHolds(a, symbol, V, a.order[j]) <=> HereHolds(a, symbol, W, a.order[j])
    BY <2>1, <2>2 DEF HereHolds
  <2> QED
    BY <2>3 DEF D
<1>5. ASSUME NEW q \in D
      PROVE  q \in V <=> q \in W
  <2>1. PICK k \in Rounds(a) : a.order[k] = q
    BY <1>2, OrderFacts
  <2>2. k \in Nat /\ k <= k
    BY <1>1, <2>1 DEF Rounds
  <2> HIDE DEF Good
  <2>3. k \in Good
    BY <1>3, <1>4, <2>2, NumbersFollow
  <2> QED
    BY <2>1, <2>2, <2>3 DEF Good
<1> QED
  BY <1>5 DEF D

-----------------------------------------------------------------------------
(***************************************************************************)
(* The run of the alternating automaton.                                   *)
(***************************************************************************)

\* What the value at a configuration is made of.
ValueAt(a, w, f, x) ==
    IF x[3] = Len(w) THEN x[1] \in a.final
    ELSE \E c \in a.transition[x[1]].clauses :
            w[x[3] + 1] \in c.letters /\ \A atom \in c.atoms : f[Move(x, atom)]

IsRunTable(a, w, f) == \A x \in Configurations(a, w) : f[x] <=> ValueAt(a, w, f, x)

SameAt(f, g, q, p, h) == f[<<q, p, h>>] <=> g[<<q, p, h>>]

\* The two tables agree while the pebble is at p.
AgreeAt(a, w, f, g, p) == \A q \in States(a) : \A h \in p..Len(w) : SameAt(f, g, q, p, h)

LEMMA MoveFacts ==
    ASSUME NEW q, NEW p, NEW h, NEW atom
    PROVE  /\ atom.action = "goto" => Move(<<q, p, h>>, atom) = <<atom.state, p, p>>
           /\ atom.action = "leave" => Move(<<q, p, h>>, atom) = <<atom.state, p, h + 1>>
           /\ atom.action = "carry" => Move(<<q, p, h>>, atom) = <<atom.state, h + 1, h + 1>>
  BY DEF Move

LEMMA ConfigurationFacts ==
    ASSUME NEW a, NEW w, Len(w) \in Nat, NEW q \in States(a),
           NEW p \in 0..Len(w), NEW h \in p..Len(w)
    PROVE  <<q, p, h>> \in Configurations(a, w)
<1>1. h \in 0..Len(w) /\ p <= h
  OBVIOUS
<1> QED
  BY <1>1 DEF Configurations

LEMMA RunTableAt ==
    ASSUME NEW a, NEW w, Len(w) \in Nat, NEW f, IsRunTable(a, w, f), NEW q \in States(a),
           NEW p \in 0..Len(w), NEW h \in p..Len(w)
    PROVE  /\ h = Len(w) => (f[<<q, p, h>>] <=> q \in a.final)
           /\ h # Len(w) =>
                (f[<<q, p, h>>] <=> \E c \in a.transition[q].clauses :
                    w[h + 1] \in c.letters /\ \A atom \in c.atoms : f[Move(<<q, p, h>>, atom)])
<1> DEFINE x == <<q, p, h>>
<1>1. x \in Configurations(a, w)
  BY ConfigurationFacts
<1>2. f[x] <=> ValueAt(a, w, f, x)
  BY <1>1 DEF IsRunTable
<1>3. x[1] = q /\ x[3] = h
  OBVIOUS
<1> QED
  BY <1>2, <1>3 DEF ValueAt

\* With the values at the goto states settled, and those of the pebbles further
\* right, the values of a state follow from right to left.
LEMMA SettledStatesAgree ==
    ASSUME NEW a, WellFormed(a), NEW w, Len(w) \in Nat,
           NEW f, IsRunTable(a, w, f), NEW g, IsRunTable(a, w, g),
           NEW p \in 0..Len(w), \A k \in (p + 1)..Len(w) : AgreeAt(a, w, f, g, k),
           NEW T, \A s \in T : SameAt(f, g, s, p, p)
    PROVE  \A q \in States(a) : Support(a, q) \subseteq T =>
                \A h \in p..Len(w) : SameAt(f, g, q, p, h)
<1> DEFINE n == Len(w)
           Fine(q, h) == Support(a, q) \subseteq T => SameAt(f, g, q, p, h)
           Good == {e \in Nat : \A q \in States(a) : \A h \in p..n : n - h < e => Fine(q, h)}
<1>1. n \in Nat /\ p \in 0..n
  OBVIOUS
<1>2. 0 \in Good
  BY <1>1
<1>3. ASSUME NEW e \in Nat, e \in Good
      PROVE  e + 1 \in Good
  <2> SUFFICES ASSUME NEW q \in States(a), NEW h \in p..n, n - h < e + 1, Support(a, q) \subseteq T
               PROVE  SameAt(f, g, q, p, h)
    OBVIOUS
  <2>1. CASE h = n
    <3>1. (f[<<q, p, h>>] <=> q \in a.final) /\ (g[<<q, p, h>>] <=> q \in a.final)
      BY <2>1, RunTableAt
    <3> QED
      BY <3>1 DEF SameAt
  <2>2. CASE h # n
    <3>1. h + 1 \in p..n /\ h + 1 \in (p + 1)..n /\ n - (h + 1) < e /\ h + 1 \in (h + 1)..n
      BY <1>1, <2>2
    <3>2. ASSUME NEW atom \in a.transition[q].atoms
          PROVE  f[Move(<<q, p, h>>, atom)] <=> g[Move(<<q, p, h>>, atom)]
      <4>1. atom.state \in States(a) /\ atom.action \in {"goto", "leave", "carry"}
        BY DEF WellFormed
      <4>2. CASE atom.action = "goto"
        <5>1. atom.state \in Targets(a, q, "goto")
          BY <4>2 DEF Targets
        <5>2. atom.state \in T
          BY <5>1, SupportFacts
        <5>3. SameAt(f, g, atom.state, p, p)
          BY <5>2
        <5>4. Move(<<q, p, h>>, atom) = <<atom.state, p, p>>
          BY <4>2, MoveFacts
        <5> QED
          BY <5>3, <5>4 DEF SameAt
      <4>3. CASE atom.action = "leave"
        <5>1. atom.state \in Targets(a, q, "leave")
          BY <4>3 DEF Targets
        <5>2. Support(a, atom.state) \subseteq T
          BY <5>1, SupportFacts
        <5>3. SameAt(f, g, atom.state, p, h + 1)
          BY <1>3, <3>1, <4>1, <5>2
        <5>4. Move(<<q, p, h>>, atom) = <<atom.state, p, h + 1>>
          BY <4>3, MoveFacts
        <5> QED
          BY <5>3, <5>4 DEF SameAt
      <4>4. CASE atom.action = "carry"
        <5>1. AgreeAt(a, w, f, g, h + 1)
          BY <3>1
        <5>2. SameAt(f, g, atom.state, h + 1, h + 1)
          BY <3>1, <4>1, <5>1 DEF AgreeAt
        <5>3. Move(<<q, p, h>>, atom) = <<atom.state, h + 1, h + 1>>
          BY <4>4, MoveFacts
        <5> QED
          BY <5>2, <5>3 DEF SameAt
      <4> QED
        BY <4>1, <4>2, <4>3, <4>4
    <3>3. \A c \in a.transition[q].clauses : \A atom \in c.atoms : atom \in a.transition[q].atoms
      BY DEF WellFormed
    <3> DEFINE Alive(t) == \E c \in a.transition[q].clauses :
                    w[h + 1] \in c.letters /\ \A atom \in c.atoms : t[Move(<<q, p, h>>, atom)]
    <3>4. Alive(f) <=> Alive(g)
      BY <3>2, <3>3
    <3>5. (f[<<q, p, h>>] <=> Alive(f)) /\ (g[<<q, p, h>>] <=> Alive(g))
      BY <2>2, RunTableAt
    <3> HIDE DEF Alive
    <3> QED
      BY <3>4, <3>5 DEF SameAt
  <2> QED
    BY <2>1, <2>2
<1> HIDE DEF Good
<1>4. n + 1 \in Good
  BY <1>1, <1>2, <1>3, NumbersFollow
<1>5. \A h \in p..n : n - h < n + 1
  BY <1>1
<1> QED
  BY <1>4, <1>5 DEF Good

\* With the pebble in place, state after state in rank order.
LEMMA PebblesAgree ==
    ASSUME NEW a, WellFormed(a), VeryWeak(a), NEW w, Len(w) \in Nat,
           NEW f, IsRunTable(a, w, f), NEW g, IsRunTable(a, w, g),
           NEW p \in 0..Len(w), \A k \in (p + 1)..Len(w) : AgreeAt(a, w, f, g, k)
    PROVE  AgreeAt(a, w, f, g, p)
<1> DEFINE m == Len(a.order)
           T(k) == {a.order[j] : j \in 1..k}
           Good == {k \in Nat : k <= m => \A s \in T(k) : SameAt(f, g, s, p, p)}
<1>1. m \in Nat /\ Rounds(a) = 1..m
  BY DEF WellFormed, Rounds
<1>2. States(a) = T(m) /\ \A k \in 1..m : a.order[k] \in States(a)
  BY <1>1, OrderFacts
<1>3. ASSUME NEW k \in 1..m, NEW s \in Support(a, a.order[k])
      PROVE  s \in T(k - 1)
  <2>1. k \in DOMAIN a.order
    BY <1>1, OrderFacts
  <2>2. PICK j \in 1..(k - 1) : a.order[j] = s
    BY <2>1 DEF VeryWeak
  <2> QED
    BY <2>2
<1>4. p \in p..Len(w)
  OBVIOUS
<1> HIDE DEF m
<1>5. 0 \in Good
  OBVIOUS
<1>6. ASSUME NEW k \in Nat, k \in Good
      PROVE  k + 1 \in Good
  <2> SUFFICES ASSUME k + 1 <= m
               PROVE  \A s \in T(k + 1) : SameAt(f, g, s, p, p)
    OBVIOUS
  <2>1. k + 1 \in 1..m /\ (k + 1) - 1 = k /\ k <= m
    BY <1>1
  <2>2. T(k + 1) = T(k) \cup {a.order[k + 1]}
    <3>1. 1..(k + 1) = (1..k) \cup {k + 1}
      OBVIOUS
    <3> QED
      BY <3>1
  <2>3. \A s \in T(k) : SameAt(f, g, s, p, p)
    BY <1>6, <2>1
  <2>4. a.order[k + 1] \in States(a) /\ Support(a, a.order[k + 1]) \subseteq T(k)
    BY <1>2, <1>3, <2>1
  <2> HIDE DEF T
  <2>5. SameAt(f, g, a.order[k + 1], p, p)
    BY <1>4, <2>3, <2>4, SettledStatesAgree
  <2> QED
    BY <2>2, <2>3, <2>5
<1> HIDE DEF Good
<1>7. m \in Good
  BY <1>1, <1>5, <1>6, NumbersFollow
<1>8. \A s \in States(a) : SameAt(f, g, s, p, p)
  BY <1>1, <1>2, <1>7 DEF Good
<1>9. \A q \in States(a) : Support(a, q) \subseteq States(a)
  BY SupportFacts, TargetsAreStates
<1> QED
  BY <1>8, <1>9, SettledStatesAgree DEF AgreeAt

\* So a very weak automaton has one run on a word.
LEMMA RunTablesAgree ==
    ASSUME NEW a, WellFormed(a), VeryWeak(a), NEW w, Len(w) \in Nat,
           NEW f, IsRunTable(a, w, f), NEW g, IsRunTable(a, w, g)
    PROVE  \A p \in 0..Len(w) : AgreeAt(a, w, f, g, p)
<1> DEFINE n == Len(w)
           Good == {d \in Nat : \A p \in 0..n : n - p < d => AgreeAt(a, w, f, g, p)}
<1>1. 0 \in Good
  OBVIOUS
<1>2. ASSUME NEW d \in Nat, d \in Good
      PROVE  d + 1 \in Good
  <2> SUFFICES ASSUME NEW p \in 0..n, n - p < d + 1
               PROVE  AgreeAt(a, w, f, g, p)
    OBVIOUS
  <2>1. \A k \in (p + 1)..n : k \in 0..n /\ n - k < d
    OBVIOUS
  <2>2. \A k \in (p + 1)..n : AgreeAt(a, w, f, g, k)
    BY <1>2, <2>1
  <2> QED
    BY <2>2, PebblesAgree
<1> HIDE DEF Good
<1>3. n + 1 \in Good
  BY <1>1, <1>2, NumbersFollow
<1>4. \A p \in 0..n : n - p < n + 1
  OBVIOUS
<1> QED
  BY <1>3, <1>4 DEF Good

-----------------------------------------------------------------------------
(***************************************************************************)
(* The determinisation computes that run.                                  *)
(***************************************************************************)

\* H holds the summaries before each symbol of w and after the last.
IsReading(a, w, H) ==
    /\ Len(w) \in Nat
    /\ H[1] = InitialSummary(a)
    /\ \A k \in 1..Len(w) : H[k + 1] = Transition(a, H[k], w[k])
    /\ \A k \in 1..(Len(w) + 1) : DependsOnSupport(a, H[k])

MirrorOf(w) == [k \in 1..Len(w) |-> w[Len(w) + 1 - k]]

\* What the diagonal after k symbols is to the functions.
ValuationAfter(a, H, k) == Diagonal(a, H[k + 1]) \cap GotoSupport(a)

\* The run that the summaries hold: a head with k symbols of the mirrored word
\* left reads the summary after k symbols, and the pebble says whose diagonal
\* it is asked at.
SummaryTable(a, w, H) ==
    [x \in Configurations(a, w) |-> ValuationAfter(a, H, Len(w) - x[2]) \in H[Len(w) - x[3] + 1][x[1]]]

LEMMA SummaryTableAt ==
    ASSUME NEW a, NEW w, Len(w) \in Nat, NEW H, NEW q \in States(a),
           NEW p \in 0..Len(w), NEW h \in p..Len(w)
    PROVE  SummaryTable(a, w, H)[<<q, p, h>>]
                <=> ValuationAfter(a, H, Len(w) - p) \in H[Len(w) - h + 1][q]
<1>1. <<q, p, h>> \in Configurations(a, w)
  BY ConfigurationFacts
<1> QED
  BY <1>1 DEF SummaryTable

\* Carry, leave and goto are what a run does with them.
LEMMA SummariesRun ==
    ASSUME NEW a, WellFormed(a), VeryWeak(a), NEW w, NEW H, IsReading(a, w, H),
           NEW q \in States(a), NEW p \in 0..Len(w), NEW h \in p..Len(w), h # Len(w),
           NEW atom \in a.transition[q].atoms
    PROVE  AtomHolds(atom, Diagonal(a, H[Len(w) - h]), H[Len(w) - h], ValuationAfter(a, H, Len(w) - p))
                <=> SummaryTable(a, w, H)[Move(<<q, p, h>>, atom)]
<1> DEFINE n == Len(w)
           k == n - h
           v == ValuationAfter(a, H, n - p)
           t == SummaryTable(a, w, H)
<1>1. n \in Nat
  BY DEF IsReading
<1>2. /\ k \in 1..(n + 1) /\ n - p + 1 \in 1..(n + 1)
      /\ h + 1 \in p..n /\ h + 1 \in 0..n /\ h + 1 \in (h + 1)..n /\ p \in p..n
      /\ n - (h + 1) + 1 = k /\ n - (h + 1) = k - 1 /\ (k - 1) + 1 = k
  BY <1>1
<1>3. atom.state \in States(a) /\ atom.action \in {"goto", "leave", "carry"}
  BY DEF WellFormed
<1>4. \A i \in 1..(n + 1) : \A s \in States(a) :
        s \in Diagonal(a, H[i]) <=> Diagonal(a, H[i]) \cap GotoSupport(a) \in H[i][s]
  BY DiagonalSolves DEF IsReading
<1> HIDE DEF n, k
<1>5. CASE atom.action = "goto"
  <2>1. atom.state \in GotoSupport(a)
    <3>1. atom.state \in Targets(a, q, "goto")
      BY <1>5 DEF Targets
    <3> QED
      BY <3>1 DEF GotoSupport
  <2>2. atom.state \in v <=> atom.state \in Diagonal(a, H[n - p + 1])
    BY <2>1 DEF ValuationAfter
  <2>3. atom.state \in v <=> v \in H[n - p + 1][atom.state]
    BY <1>2, <1>3, <1>4, <2>2 DEF ValuationAfter
  <2>4. t[<<atom.state, p, p>>] <=> v \in H[n - p + 1][atom.state]
    BY <1>1, <1>2, <1>3, SummaryTableAt DEF n
  <2>5. Move(<<q, p, h>>, atom) = <<atom.state, p, p>>
    BY <1>5, MoveFacts
  <2> QED
    BY <1>5, <2>3, <2>4, <2>5 DEF AtomHolds, n, k
<1>6. CASE atom.action = "leave"
  <2>1. t[<<atom.state, p, h + 1>>] <=> v \in H[n - (h + 1) + 1][atom.state]
    BY <1>1, <1>2, <1>3, SummaryTableAt DEF n
  <2>2. Move(<<q, p, h>>, atom) = <<atom.state, p, h + 1>>
    BY <1>6, MoveFacts
  <2> QED
    BY <1>2, <1>6, <2>1, <2>2 DEF AtomHolds, n, k
<1>7. CASE atom.action = "carry"
  <2>1. t[<<atom.state, h + 1, h + 1>>] <=> ValuationAfter(a, H, n - (h + 1)) \in H[n - (h + 1) + 1][atom.state]
    BY <1>1, <1>2, <1>3, SummaryTableAt DEF n
  <2>2. ValuationAfter(a, H, n - (h + 1)) = Diagonal(a, H[k]) \cap GotoSupport(a)
    BY <1>2 DEF ValuationAfter
  <2>3. t[<<atom.state, h + 1, h + 1>>] <=> atom.state \in Diagonal(a, H[k])
    BY <1>2, <1>3, <1>4, <2>1, <2>2
  <2>4. Move(<<q, p, h>>, atom) = <<atom.state, h + 1, h + 1>>
    BY <1>7, MoveFacts
  <2> QED
    BY <1>7, <2>3, <2>4 DEF AtomHolds, n, k
<1> QED
  BY <1>3, <1>5, <1>6, <1>7

LEMMA SummaryTableIsRun ==
    ASSUME NEW a, WellFormed(a), VeryWeak(a), NEW w, NEW H, IsReading(a, w, H)
    PROVE  IsRunTable(a, MirrorOf(w), SummaryTable(a, w, H))
<1> DEFINE n == Len(w)
           u == MirrorOf(w)
           t == SummaryTable(a, w, H)
<1>1. n \in Nat /\ Len(u) = n /\ \A k \in 1..n : u[k] = w[n + 1 - k]
  BY DEF IsReading, MirrorOf
<1>2. SUFFICES ASSUME NEW q \in States(a), NEW p \in 0..n, NEW h \in 0..n, p <= h
               PROVE  t[<<q, p, h>>] <=> ValueAt(a, u, t, <<q, p, h>>)
  BY <1>1 DEF IsRunTable, Configurations
<1> DEFINE v == ValuationAfter(a, H, n - p)
<1>3. h \in p..n
  BY <1>1, <1>2
<1>4. t[<<q, p, h>>] <=> v \in H[n - h + 1][q]
  BY <1>1, <1>3, SummaryTableAt
<1>5. v \in GotoValuations(a)
  BY DEF ValuationAfter, GotoValuations
<1>6. CASE h = n
  <2>1. n - h + 1 = 1
    BY <1>1, <1>6
  <2>2. H[n - h + 1] = InitialSummary(a)
    BY <2>1 DEF IsReading
  <2>3. v \in H[n - h + 1][q] <=> q \in a.final
    BY <1>5, <2>2 DEF InitialSummary, GotoValuations
  <2>4. ValueAt(a, u, t, <<q, p, h>>) <=> q \in a.final
    BY <1>1, <1>6 DEF ValueAt
  <2> QED
    BY <1>4, <2>3, <2>4
<1>7. CASE h # n
  <2> DEFINE k == n - h
             Alive == \E c \in a.transition[q].clauses :
                        w[k] \in c.letters /\ \A atom \in c.atoms : t[Move(<<q, p, h>>, atom)]
  <2>1. k \in 1..n /\ n + 1 - (h + 1) = k /\ h + 1 \in 1..n
    BY <1>1, <1>2, <1>7
  <2>2. H[k + 1] = Transition(a, H[k], w[k])
    BY <2>1 DEF IsReading
  <2>3. v \in H[k + 1][q] <=> SomeClause(a, H[k], w[k], q, v)
    BY <1>5, <2>2, TransitionMembers
  <2>4. \A atom \in a.transition[q].atoms :
            AtomHolds(atom, Diagonal(a, H[k]), H[k], v) <=> t[Move(<<q, p, h>>, atom)]
    BY <1>3, <1>7, SummariesRun
  <2>5. \A c \in a.transition[q].clauses : \A atom \in c.atoms : atom \in a.transition[q].atoms
    BY DEF WellFormed
  <2> HIDE DEF k, v, t
  <2>6. SomeClause(a, H[k], w[k], q, v) <=> Alive
    BY <2>4, <2>5 DEF SomeClause
  <2> HIDE DEF u
  <2>7. u[h + 1] = w[k]
    BY <1>1, <2>1
  <2>8. ValueAt(a, u, t, <<q, p, h>>) <=> Alive
    BY <1>1, <1>7, <2>7 DEF ValueAt
  <2> HIDE DEF Alive
  <2> QED
    BY <1>4, <2>3, <2>6, <2>8 DEF k
<1> QED
  BY <1>6, <1>7

\* The value of Pvwaa.accepts' run, for every pebble and head.
LEMMA RunIsSummary ==
    ASSUME NEW a, WellFormed(a), VeryWeak(a), NEW w, NEW H, IsReading(a, w, H),
           NEW q \in States(a), NEW p \in 0..Len(w), NEW h \in p..Len(w)
    PROVE  PvwaaRun(a, MirrorOf(w), q, p, h)
                <=> ValuationAfter(a, H, Len(w) - p) \in H[Len(w) - h + 1][q]
<1> DEFINE u == MirrorOf(w)
           C == Configurations(a, u)
           Body(f) == [x \in C |->
                        IF x[3] = Len(u) THEN x[1] \in a.final
                        ELSE \E c \in a.transition[x[1]].clauses :
                                u[x[3] + 1] \in c.letters /\ \A atom \in c.atoms : f[Move(x, atom)]]
           Rows(f) == [x \in C |-> ValueAt(a, u, f, x)]
           run == CHOOSE f : f = Body(f)
           t == SummaryTable(a, w, H)
<1>1. Len(w) \in Nat /\ Len(u) = Len(w)
  BY DEF IsReading, MirrorOf
<1>2. C = Configurations(a, w)
  BY <1>1 DEF Configurations
<1>3. \A f : Body(f) = Rows(f)
  BY Zenon DEF ValueAt
<1>4. PvwaaRun(a, u, q, p, h) = run[<<q, p, h>>]
  BY Zenon DEF PvwaaRun
<1>5. IsRunTable(a, u, t)
  BY SummaryTableIsRun
<1> HIDE DEF u, Body
<1>6. t = Rows(t)
  <2>1. \A x \in C : t[x] = ValueAt(a, u, t, x)
    <3>1. \A x \in C : t[x] <=> ValueAt(a, u, t, x)
      BY <1>5 DEF IsRunTable
    <3>2. \A x \in C : t[x] \in BOOLEAN
      BY <1>2 DEF SummaryTable
    <3>3. ASSUME NEW x \in C
          PROVE  ValueAt(a, u, t, x) \in BOOLEAN
      <4> DEFINE Here == x[1] \in a.final
                 Alive == \E c \in a.transition[x[1]].clauses :
                    u[x[3] + 1] \in c.letters /\ \A atom \in c.atoms : t[Move(x, atom)]
      <4>1. ValueAt(a, u, t, x) = IF x[3] = Len(u) THEN Here ELSE Alive
        BY Zenon DEF ValueAt
      <4>2. Here \in BOOLEAN /\ Alive \in BOOLEAN
        OBVIOUS
      <4> HIDE DEF Here, Alive
      <4> QED
        BY <4>1, <4>2
    <3> QED
      BY <3>1, <3>2, <3>3
  <2>2. t = [x \in C |-> t[x]]
    BY <1>2 DEF SummaryTable
  <2> HIDE DEF t, C
  <2> QED
    BY <2>1, <2>2
<1>7. run = Rows(run)
  <2> HIDE DEF Rows, t
  <2>1. \E f : f = Body(f)
    BY <1>3, <1>6, Zenon
  <2>2. run = Body(run)
    BY <2>1, Zenon
  <2> QED
    BY <1>3, <2>2, Zenon
<1> HIDE DEF run, t
<1>8. IsRunTable(a, u, run)
  <2>1. \A x \in C : run[x] = ValueAt(a, u, run, x)
    BY <1>7
  <2> QED
    BY <2>1 DEF IsRunTable
<1>9. AgreeAt(a, u, run, t, p)
  BY <1>1, <1>5, <1>8, RunTablesAgree
<1>10. run[<<q, p, h>>] <=> t[<<q, p, h>>]
  BY <1>1, <1>9 DEF AgreeAt, SameAt
<1>11. t[<<q, p, h>>] <=> ValuationAfter(a, H, Len(w) - p) \in H[Len(w) - h + 1][q]
  BY <1>1, SummaryTableAt DEF t
<1> QED
  BY <1>4, <1>10, <1>11 DEF u

-----------------------------------------------------------------------------
(***************************************************************************)
(* The inductive invariant.                                                *)
(***************************************************************************)

\* The last symbol read was this one, as far as the symbol-determined states
\* can tell.
LastWas(a, s, symbol) ==
    \A q \in SymbolDetermined(a) : \A v \in GotoValuations(a) :
        v \in s[q] <=> \E c \in a.transition[q].clauses :
                            symbol \in c.letters /\ \A x \in c.atoms : x.state \in v

SummaryInv ==
    /\ summary \in [States(pv) -> SUBSET GotoValuations(pv)]
    /\ DependsOnSupport(pv, summary)
    /\ summary = InitialSummary(pv) \/ \E symbol \in Alphabet : LastWas(pv, summary, symbol)

Summaries(a) == [States(a) -> SUBSET GotoValuations(a)]

\* The history is that of the word, and ends in the summary.
HistoryInv ==
    /\ word \in Seq(Alphabet) /\ history \in Seq(Summaries(pv))
    /\ Len(history) = Len(word) + 1
    /\ summary = history[Len(word) + 1]
    /\ IsReading(pv, word, history)

IInv == WellFormed(pv) /\ VeryWeak(pv) /\ SummaryInv /\ HistoryInv

LEMMA ReadingGrows ==
    ASSUME NEW a, NEW w \in Seq(Alphabet), NEW H \in Seq(Summaries(a)), Len(H) = Len(w) + 1,
           IsReading(a, w, H), NEW symbol \in Alphabet,
           NEW t \in Summaries(a), t = Transition(a, H[Len(w) + 1], symbol), DependsOnSupport(a, t)
    PROVE  /\ Append(w, symbol) \in Seq(Alphabet) /\ Append(H, t) \in Seq(Summaries(a))
           /\ Len(Append(w, symbol)) = Len(w) + 1 /\ Len(Append(H, t)) = Len(w) + 2
           /\ Append(H, t)[Len(w) + 2] = t
           /\ IsReading(a, Append(w, symbol), Append(H, t))
<1> DEFINE n == Len(w)
           v == Append(w, symbol)
           G == Append(H, t)
<1>1. n \in Nat /\ Len(v) = n + 1 /\ Len(G) = n + 2 /\ v \in Seq(Alphabet) /\ G \in Seq(Summaries(a))
  OBVIOUS
<1>2. \A k \in 1..n : v[k] = w[k]
  OBVIOUS
<1>3. v[n + 1] = symbol
  OBVIOUS
<1>4. \A k \in 1..(n + 1) : G[k] = H[k]
  OBVIOUS
<1>5. G[n + 2] = t
  OBVIOUS
<1>6. /\ H[1] = InitialSummary(a)
      /\ \A k \in 1..n : H[k + 1] = Transition(a, H[k], w[k])
      /\ \A k \in 1..(n + 1) : DependsOnSupport(a, H[k])
      /\ t = Transition(a, H[n + 1], symbol)
  BY DEF IsReading
<1> HIDE DEF n, v, G
<1>7. G[1] = InitialSummary(a)
  BY <1>1, <1>4, <1>6
<1>8. ASSUME NEW k \in 1..(n + 1)
      PROVE  G[k + 1] = Transition(a, G[k], v[k])
  <2>1. CASE k = n + 1
    <3>1. k + 1 = n + 2
      BY <1>1, <2>1
    <3> QED
      BY <1>3, <1>4, <1>5, <1>6, <2>1, <3>1
  <2>2. CASE k # n + 1
    <3>1. k \in 1..n /\ k + 1 \in 1..(n + 1)
      BY <1>1, <2>2
    <3> QED
      BY <1>2, <1>4, <1>6, <3>1
  <2> QED
    BY <2>1, <2>2
<1>9. ASSUME NEW k \in 1..(n + 2)
      PROVE  DependsOnSupport(a, G[k])
  <2>1. k \in 1..(n + 1) \/ k = n + 2
    BY <1>1
  <2> QED
    BY <1>4, <1>5, <1>6, <2>1
<1>10. Len(v) + 1 = n + 2
  BY <1>1
<1>11. IsReading(a, v, G)
  BY <1>1, <1>7, <1>8, <1>9, <1>10 DEF IsReading
<1> QED
  BY <1>1, <1>5, <1>11 DEF n, v, G

LEMMA TransitionRemembers ==
    ASSUME NEW a, WellFormed(a), VeryWeak(a), NEW s, NEW symbol
    PROVE  LastWas(a, Transition(a, s, symbol), symbol)
<1> SUFFICES ASSUME NEW q \in SymbolDetermined(a), NEW v \in GotoValuations(a)
             PROVE  v \in Transition(a, s, symbol)[q]
                        <=> \E c \in a.transition[q].clauses :
                                symbol \in c.letters /\ \A x \in c.atoms : x.state \in v
  BY DEF LastWas
<1>1. q \in States(a) /\ Stays(a, q, SymbolDetermined(a))
  BY SymbolDeterminedIsClosed
<1>2. \A c \in a.transition[q].clauses : \A x \in c.atoms : x.action = "goto"
  BY <1>1 DEF WellFormed, Stays
<1>3. \A c \in a.transition[q].clauses : \A x \in c.atoms :
        AtomHolds(x, Diagonal(a, s), s, v) <=> x.state \in v
  BY <1>2 DEF AtomHolds
<1>4. SomeClause(a, s, symbol, q, v)
        <=> \E c \in a.transition[q].clauses :
                symbol \in c.letters /\ \A x \in c.atoms : x.state \in v
  BY <1>3 DEF SomeClause
<1> QED
  BY <1>1, <1>4, TransitionMembers

LEMMA InvInit == SummaryInit => IInv
<1> SUFFICES ASSUME SummaryInit PROVE IInv
  OBVIOUS
<1> DEFINE first == InitialSummary(pv)
<1>1. /\ WellFormed(pv) /\ VeryWeak(pv)
      /\ word = << >> /\ summary = first /\ history = <<first>>
  BY DEF SummaryInit, Unread
<1>2. first \in Summaries(pv)
  BY DEF InitialSummary, GotoValuations, Summaries
<1>3. DependsOnSupport(pv, first)
  BY <1>1, InitialDependsOnSupport
<1>4. SummaryInv
  BY <1>1, <1>2, <1>3 DEF SummaryInv, Summaries
<1> HIDE DEF first
<1>5. /\ word \in Seq(Alphabet) /\ history \in Seq(Summaries(pv))
      /\ Len(word) = 0 /\ Len(history) = 1 /\ history[1] = first
  BY <1>1, <1>2
<1>6. IsReading(pv, word, history)
  <2>1. \A k \in 1..1 : DependsOnSupport(pv, history[k])
    BY <1>3, <1>5
  <2> QED
    BY <1>5, <2>1 DEF IsReading, first
<1>7. HistoryInv
  BY <1>1, <1>5, <1>6 DEF HistoryInv
<1> QED
  BY <1>1, <1>4, <1>7 DEF IInv

LEMMA InvStep == IInv /\ [SummaryNext]_summaryVars => IInv'
<1> SUFFICES ASSUME IInv, [SummaryNext]_summaryVars PROVE IInv'
  OBVIOUS
<1>1. ASSUME NEW symbol \in Alphabet, Read(symbol)
      PROVE  IInv'
  <2>1. /\ pv' = pv /\ summary' = Transition(pv, summary, symbol)
        /\ word' = Append(word, symbol) /\ history' = Append(history, summary')
    BY <1>1 DEF Read
  <2>2. PICK a, s, w, H : a = pv /\ s = summary /\ w = word /\ H = history
    OBVIOUS
  <2>3. WellFormed(a) /\ VeryWeak(a) /\ DependsOnSupport(a, s)
    BY <2>2 DEF IInv, SummaryInv
  <2>4. /\ w \in Seq(Alphabet) /\ H \in Seq(Summaries(a)) /\ Len(H) = Len(w) + 1
        /\ s = H[Len(w) + 1] /\ IsReading(a, w, H)
    BY <2>2 DEF IInv, HistoryInv
  <2>5. PICK t : t = Transition(a, s, symbol)
    OBVIOUS
  <2>6. t \in Summaries(a)
    BY <2>5 DEF Transition, GotoValuations, Summaries
  <2>7. DependsOnSupport(a, t)
    BY <2>3, <2>5, TransitionDependsOnSupport
  <2>8. LastWas(a, t, symbol)
    BY <2>3, <2>5, TransitionRemembers
  <2>9. PICK v, G : v = Append(w, symbol) /\ G = Append(H, t)
    OBVIOUS
  <2>10. /\ v \in Seq(Alphabet) /\ G \in Seq(Summaries(a))
         /\ Len(v) = Len(w) + 1 /\ Len(G) = Len(w) + 2 /\ G[Len(w) + 2] = t
         /\ IsReading(a, v, G)
    BY <2>4, <2>5, <2>6, <2>7, <2>9, ReadingGrows
  <2>11. Len(G) = Len(v) + 1 /\ t = G[Len(v) + 1]
    <3>1. Len(w) \in Nat /\ (Len(w) + 1) + 1 = Len(w) + 2
      BY <2>4
    <3> QED
      BY <2>10, <3>1
  <2>12. pv' = a /\ summary' = t /\ word' = v /\ history' = G
    BY <2>1, <2>2, <2>5, <2>9
  <2>13. (WellFormed(pv) /\ VeryWeak(pv))' /\ SummaryInv'
    BY <2>3, <2>6, <2>7, <2>8, <2>12 DEF SummaryInv, Summaries
  <2>14. HistoryInv'
    BY <2>10, <2>11, <2>12 DEF HistoryInv
  <2> QED
    BY <2>13, <2>14 DEF IInv
<1>2. CASE UNCHANGED summaryVars
  BY <1>2 DEF summaryVars, IInv, SummaryInv, HistoryInv
<1> QED
  BY <1>1, <1>2 DEF SummaryNext

LEMMA SummaryInvHolds == SummarySpec => []IInv
  BY InvInit, InvStep, PTL DEF SummarySpec

-----------------------------------------------------------------------------
(***************************************************************************)
(* The theorems.                                                           *)
(***************************************************************************)

\* The diagonal solves the equation of every state, at every summary reached
\* and for every very weak automaton: the claim of the comment in diagonal
\* (BooleanAutomaton.scala:250-252).
THEOREM DiagonalIsAlwaysFixpoint == SummarySpec => []DiagonalIsFixpoint
<1>1. IInv => DiagonalIsFixpoint
  BY DiagonalSolves DEF IInv, SummaryInv, DiagonalIsFixpoint
<1> QED
  BY <1>1, SummaryInvHolds, PTL

\* The diagonal of a reachable summary shows one of the pinned vectors on the
\* symbol-determined states.
LEMMA DiagonalIsPinned ==
    ASSUME IInv
    PROVE  \E p \in PinnedVectors(pv) :
                Diagonal(pv, summary) \cap SymbolDetermined(pv) = p \cap SymbolDetermined(pv)
<1> DEFINE V == Diagonal(pv, summary)
           D == SymbolDetermined(pv)
<1>1. WellFormed(pv) /\ VeryWeak(pv) /\ DependsOnSupport(pv, summary)
  BY DEF IInv, SummaryInv
<1>2. V \in SUBSET States(pv) /\ \A q \in States(pv) : q \in V <=> V \cap GotoSupport(pv) \in summary[q]
  BY <1>1, DiagonalSolves
<1>3. D \in SUBSET States(pv) /\ \A q \in D : Stays(pv, q, D)
  BY <1>1, SymbolDeterminedIsClosed
<1> HIDE DEF V, D
<1>4. CASE summary = InitialSummary(pv)
  <2>1. V \cap D = pv.final \cap D
    BY <1>2, <1>3, <1>4 DEF InitialSummary
  <2>2. pv.final \cap D \in PinnedVectors(pv)
    BY DEF PinnedVectors, D
  <2>3. (pv.final \cap D) \cap D = pv.final \cap D
    OBVIOUS
  <2> QED
    BY <2>1, <2>2, <2>3 DEF V, D
<1>5. ASSUME NEW symbol \in Alphabet, LastWas(pv, summary, symbol)
      PROVE  \E p \in PinnedVectors(pv) : V \cap D = p \cap D
  <2> DEFINE W == SymbolDeterminedValues(pv, symbol)
  <2>1. W \subseteq D /\ \A q \in D : q \in W <=> HereHolds(pv, symbol, W, q)
    BY <1>1, <1>3, ValuesSolve DEF D
  <2> HIDE DEF W
  <2>2. ASSUME NEW q \in D
        PROVE  q \in V <=> HereHolds(pv, symbol, V, q)
    <3> DEFINE v == V \cap GotoSupport(pv)
    <3>1. q \in States(pv) /\ v \in GotoValuations(pv)
      BY <1>3 DEF GotoValuations
    <3>2. q \in V <=> \E c \in pv.transition[q].clauses :
                symbol \in c.letters /\ \A x \in c.atoms : x.state \in v
      BY <1>2, <1>5, <3>1 DEF LastWas, D
    <3>3. \A x \in pv.transition[q].atoms : x.state \in GotoSupport(pv)
      <4>1. \A x \in pv.transition[q].atoms : x.state \in Targets(pv, q, "goto")
        BY <1>3 DEF Stays, Targets
      <4> QED
        BY <3>1, <4>1 DEF GotoSupport
    <3>4. \A c \in pv.transition[q].clauses : \A x \in c.atoms : x.state \in v <=> x.state \in V
      BY <1>1, <3>1, <3>3 DEF WellFormed
    <3> HIDE DEF v
    <3>5. q \in V <=> \E c \in pv.transition[q].clauses :
                symbol \in c.letters /\ \A x \in c.atoms : x.state \in V
      BY <3>2, <3>4
    <3> QED
      BY <3>5 DEF HereHolds, D
  <2>3. V \cap D = W \cap D
    BY <1>1, <2>1, <2>2, ValuesAreUnique DEF D
  <2>4. W \in PinnedVectors(pv)
    BY DEF PinnedVectors, W
  <2> QED
    BY <2>3, <2>4
<1> QED
  BY <1>4, <1>5 DEF IInv, SummaryInv, V, D

\* Only the cells that realizableAbstractions lists are ever consulted, for
\* every very weak automaton and words of every length: restricting the
\* registers of the AIG to them loses nothing.
THEOREM DiagonalsAreAlwaysRealizable == SummarySpec => []DiagonalsAreRealizable
<1>1. ASSUME IInv
      PROVE  DiagonalsAreRealizable
  <2> SUFFICES ASSUME NEW q \in States(pv)
               PROVE  Diagonal(pv, summary) \cap Support(pv, q) \in Realizable(pv, q)
    BY DEF DiagonalsAreRealizable
  <2> DEFINE V == Diagonal(pv, summary)
             D == SymbolDetermined(pv)
             S == Support(pv, q)
  <2>1. PICK p \in PinnedVectors(pv) : V \cap D = p \cap D
    BY <1>1, DiagonalIsPinned
  <2>2. PICK f : f = V \cap (S \ D)
    OBVIOUS
  <2> HIDE DEF V, D, S
  <2>3. f \in SUBSET (S \ D)
    BY <2>2
  <2>4. \A g : g \in V \cap S <=> g \in (p \cap (S \cap D)) \cup f
    BY <2>1, <2>2
  <2>5. V \cap S = (p \cap (S \cap D)) \cup f
    BY <2>4
  <2>6. Realizable(pv, q) = {(y \cap (S \cap D)) \cup e : y \in PinnedVectors(pv), e \in SUBSET (S \ D)}
    BY DEF Realizable, D, S
  <2>7. V \cap S \in Realizable(pv, q)
    BY <2>1, <2>3, <2>5, <2>6
  <2> QED
    BY <2>7 DEF V, S
<1> QED
  BY <1>1, SummaryInvHolds, PTL

\* The diagonals of two summaries that agree on the relevant states agree
\* there.
LEMMA RelevantDiagonal ==
    ASSUME NEW a, WellFormed(a), NEW s, DependsOnSupport(a, s),
           NEW t, \A q \in Relevant(a) : t[q] = s[q]
    PROVE  Diagonal(a, t) \cap Relevant(a) = Diagonal(a, s) \cap Relevant(a)
<1> DEFINE n == Len(a.order)
           R == Relevant(a)
<1>1. n \in Nat
  BY DEF WellFormed
<1>2. PICK r \in [0..n -> SUBSET States(a)] :
        r[0] = {} /\ (\A k \in 1..n : r[k] = Solve(a, s, r[k - 1], k)) /\ Diagonal(a, s) = r[n]
  BY DiagonalRounds DEF Rounds
<1>3. PICK p \in [0..n -> SUBSET States(a)] :
        p[0] = {} /\ (\A k \in 1..n : p[k] = Solve(a, t, p[k - 1], k)) /\ Diagonal(a, t) = p[n]
  BY DiagonalRounds DEF Rounds
<1>4. \A k \in 1..n : a.order[k] \in States(a)
  BY OrderFacts DEF Rounds
<1>5. R \in SUBSET States(a) /\ \A q \in R : Support(a, q) \subseteq R
  BY RelevantFacts
<1>6. \A q \in R : t[q] = s[q]
  OBVIOUS
<1> HIDE DEF n, R
<1> DEFINE Good == {k \in Nat : k <= n => p[k] \cap R = r[k] \cap R}
<1>7. 0 \in Good
  BY <1>2, <1>3
<1>8. ASSUME NEW k \in Nat, k \in Good
      PROVE  k + 1 \in Good
  <2> SUFFICES ASSUME k + 1 <= n
               PROVE  p[k + 1] \cap R = r[k + 1] \cap R
    OBVIOUS
  <2>1. k + 1 \in 1..n /\ (k + 1) - 1 = k /\ k <= n
    BY <1>1
  <2> DEFINE q == a.order[k + 1]
             u == r[k] \cap GotoSupport(a)
             v == p[k] \cap GotoSupport(a)
  <2>2. p[k] \cap R = r[k] \cap R
    BY <1>8, <2>1
  <2>3. r[k + 1] = (IF u \in s[q] THEN r[k] \cup {q} ELSE r[k])
    BY <1>2, <2>1 DEF Solve
  <2>4. p[k + 1] = (IF v \in t[q] THEN p[k] \cup {q} ELSE p[k])
    BY <1>3, <2>1 DEF Solve
  <2>5. CASE q \in R
    <3>1. u \cap Support(a, q) = v \cap Support(a, q)
      BY <1>5, <2>2, <2>5
    <3>2. q \in States(a) /\ u \in GotoValuations(a) /\ v \in GotoValuations(a)
      BY <1>4, <2>1 DEF GotoValuations
    <3>3. u \in s[q] <=> v \in s[q]
      <4> HIDE DEF u, v, q
      <4> QED
        BY <3>1, <3>2 DEF DependsOnSupport
    <3>4. t[q] = s[q]
      BY <1>6, <2>5
    <3> HIDE DEF u, v, q
    <3> QED
      BY <2>2, <2>3, <2>4, <3>3, <3>4
  <2>6. CASE q \notin R
    <3> HIDE DEF u, v, q
    <3> QED
      BY <2>2, <2>3, <2>4, <2>6
  <2> QED
    BY <2>5, <2>6
<1> HIDE DEF Good
<1>9. n \in Good
  BY <1>1, <1>7, <1>8, NumbersFollow
<1> QED
  BY <1>1, <1>2, <1>3, <1>9 DEF Good, R

LEMMA RelevantTransition ==
    ASSUME NEW a, WellFormed(a), NEW s, DependsOnSupport(a, s),
           NEW t, \A q \in Relevant(a) : t[q] = s[q],
           NEW symbol, NEW q \in Relevant(a)
    PROVE  Transition(a, t, symbol)[q] = Transition(a, s, symbol)[q]
<1>1. q \in States(a) /\ \A x \in a.transition[q].atoms : x.state \in Relevant(a)
  BY RelevantFacts
<1>2. Diagonal(a, t) \cap Relevant(a) = Diagonal(a, s) \cap Relevant(a)
  BY RelevantDiagonal
<1>3. \A c \in a.transition[q].clauses : \A x \in c.atoms :
        x.state \in Relevant(a) /\ x.action \in {"goto", "leave", "carry"}
  BY <1>1 DEF WellFormed
<1>4. ASSUME NEW v \in GotoValuations(a)
      PROVE  SomeClause(a, t, symbol, q, v) <=> SomeClause(a, s, symbol, q, v)
  <2>1. ASSUME NEW c \in a.transition[q].clauses, NEW x \in c.atoms
        PROVE  AtomHolds(x, Diagonal(a, t), t, v) <=> AtomHolds(x, Diagonal(a, s), s, v)
    <3>1. x.state \in Diagonal(a, t) <=> x.state \in Diagonal(a, s)
      BY <1>2, <1>3
    <3>2. t[x.state] = s[x.state]
      BY <1>3
    <3> QED
      BY <1>3, <3>1, <3>2 DEF AtomHolds
  <2> QED
    BY <2>1 DEF SomeClause
<1>5. \A v \in GotoValuations(a) :
        v \in Transition(a, t, symbol)[q] <=> v \in Transition(a, s, symbol)[q]
  BY <1>1, <1>4, TransitionMembers
<1>6. /\ Transition(a, t, symbol)[q] \subseteq GotoValuations(a)
      /\ Transition(a, s, symbol)[q] \subseteq GotoValuations(a)
  BY <1>1 DEF Transition, GotoValuations
<1> QED
  BY <1>5, <1>6

\* What conflictWitness keeps of a summary: the nodes of the relevant states.
Projection(a, s) == [q \in Relevant(a) |-> s[q]]

\* Whatever has the projection of a summary accepts when the summary does, and
\* its successors have the projections of the summary's.
ProjectionDecides ==
    \A t : Projection(pv, t) = Projection(pv, summary) =>
        /\ AcceptsNow(pv, t) <=> AcceptsNow(pv, summary)
        /\ \A symbol \in Alphabet :
            Projection(pv, Transition(pv, t, symbol)) = Projection(pv, Transition(pv, summary, symbol))

\* The projection that conflictWitness takes of a summary is a bisimulation,
\* which is what ConflictSearch assumes of its key, for every very weak
\* automaton.
THEOREM ProjectionIsBisimulation == SummarySpec => []ProjectionDecides
<1>1. ASSUME IInv
      PROVE  ProjectionDecides
  <2>1. WellFormed(pv) /\ DependsOnSupport(pv, summary)
    BY <1>1 DEF IInv, SummaryInv
  <2>2. Relevant(pv) \in SUBSET States(pv) /\ pv.initial \in Relevant(pv)
    BY <2>1, RelevantFacts
  <2>3. ASSUME NEW t, Projection(pv, t) = Projection(pv, summary)
        PROVE  /\ AcceptsNow(pv, t) <=> AcceptsNow(pv, summary)
               /\ \A symbol \in Alphabet :
                    Projection(pv, Transition(pv, t, symbol))
                        = Projection(pv, Transition(pv, summary, symbol))
    <3>1. \A q \in Relevant(pv) : t[q] = summary[q]
      <4>1. \A q \in Relevant(pv) :
                t[q] = Projection(pv, t)[q] /\ summary[q] = Projection(pv, summary)[q]
        BY DEF Projection
      <4> QED
        BY <2>3, <4>1
    <3>2. Diagonal(pv, t) \cap Relevant(pv) = Diagonal(pv, summary) \cap Relevant(pv)
      BY <2>1, <3>1, RelevantDiagonal
    <3>3. AcceptsNow(pv, t) <=> AcceptsNow(pv, summary)
      BY <2>2, <3>2 DEF AcceptsNow
    <3>4. \A symbol \in Alphabet : \A q \in Relevant(pv) :
            Transition(pv, t, symbol)[q] = Transition(pv, summary, symbol)[q]
      BY <2>1, <3>1, RelevantTransition
    <3> QED
      BY <3>3, <3>4 DEF Projection
  <2> QED
    BY <2>3 DEF ProjectionDecides
<1> QED
  BY <1>1, SummaryInvHolds, PTL

\* So filling the irrelevant states with any one function changes neither
\* acceptance nor the relevant part of any successor.
THEOREM IrrelevantStatesNeverMatter == SummarySpec => []IrrelevantStatesDoNotMatter
<1>1. ASSUME IInv, ProjectionDecides
      PROVE  IrrelevantStatesDoNotMatter
  <2>1. Relevant(pv) \in SUBSET States(pv)
    BY <1>1, RelevantFacts DEF IInv
  <2>2. ASSUME NEW other, NEW t, t = [q \in States(pv) |-> IF q \in Relevant(pv) THEN summary[q] ELSE other]
        PROVE  /\ AcceptsNow(pv, t) <=> AcceptsNow(pv, summary)
               /\ \A symbol \in Alphabet : \A q \in Relevant(pv) :
                    Transition(pv, t, symbol)[q] = Transition(pv, summary, symbol)[q]
    <3>1. Projection(pv, t) = Projection(pv, summary)
      BY <2>1, <2>2 DEF Projection
    <3>2. /\ AcceptsNow(pv, t) <=> AcceptsNow(pv, summary)
          /\ \A symbol \in Alphabet :
                Projection(pv, Transition(pv, t, symbol)) = Projection(pv, Transition(pv, summary, symbol))
      BY <1>1, <3>1 DEF ProjectionDecides
    <3>3. ASSUME NEW symbol \in Alphabet, NEW q \in Relevant(pv)
          PROVE  Transition(pv, t, symbol)[q] = Transition(pv, summary, symbol)[q]
      <4>1. /\ Projection(pv, Transition(pv, t, symbol))[q] = Transition(pv, t, symbol)[q]
            /\ Projection(pv, Transition(pv, summary, symbol))[q] = Transition(pv, summary, symbol)[q]
        BY DEF Projection
      <4> QED
        BY <3>2, <4>1
    <3> QED
      BY <3>2, <3>3
  <2> QED
    BY <2>2 DEF IrrelevantStatesDoNotMatter
<1> QED
  BY <1>1, SummaryInvHolds, ProjectionIsBisimulation, PTL

\* What VerifierPipeline checks of compiled formulas, for every very weak
\* automaton and words of every length: a summary's functions at today's
\* diagonal are the values of the alternating automaton's run on the mirrored
\* word.
THEOREM SummaryIsAlwaysTheRun == SummarySpec => []SummaryIsTheRun
<1>1. ASSUME IInv
      PROVE  SummaryIsTheRun
  <2>1. WellFormed(pv) /\ VeryWeak(pv) /\ IsReading(pv, word, history) /\ Len(word) \in Nat
        /\ summary = history[Len(word) + 1]
    BY <1>1 DEF IInv, HistoryInv
  <2>2. Mirrored = MirrorOf(word)
    BY DEF Mirrored, MirrorOf
  <2>3. ASSUME NEW n \in 0..Len(word), NEW q \in States(pv)
        PROVE  Diagonal(pv, summary) \cap GotoSupport(pv) \in history[n + 1][q]
                    <=> PvwaaRun(pv, Mirrored, q, 0, Len(word) - n)
    <3>1. /\ 0 \in 0..Len(word) /\ Len(word) - n \in 0..Len(word)
          /\ Len(word) - (Len(word) - n) = n /\ Len(word) - 0 = Len(word)
      BY <2>1
    <3>2. PvwaaRun(pv, MirrorOf(word), q, 0, Len(word) - n)
            <=> ValuationAfter(pv, history, Len(word) - 0) \in history[Len(word) - (Len(word) - n) + 1][q]
      BY <2>1, <3>1, RunIsSummary
    <3>3. ValuationAfter(pv, history, Len(word)) = Diagonal(pv, summary) \cap GotoSupport(pv)
      BY <2>1 DEF ValuationAfter
    <3> QED
      BY <2>2, <3>1, <3>2, <3>3
  <2> QED
    BY <2>3 DEF SummaryIsTheRun
<1> QED
  BY <1>1, SummaryInvHolds, PTL

\* The determinisation is right: the Boolean automaton accepts a word exactly
\* when the alternating automaton accepts its mirror image.
AcceptsTheMirror == AcceptsNow(pv, summary) <=> PvwaaAccepts(pv, Mirrored)

\* For every very weak automaton and words of every length.
THEOREM DeterminisationCorrect == SummarySpec => []AcceptsTheMirror
<1>1. ASSUME IInv, SummaryIsTheRun
      PROVE  AcceptsTheMirror
  <2>1. /\ WellFormed(pv) /\ VeryWeak(pv) /\ DependsOnSupport(pv, summary) /\ Len(word) \in Nat
        /\ summary = history[Len(word) + 1]
    BY <1>1 DEF IInv, SummaryInv, HistoryInv
  <2>2. pv.initial \in States(pv)
    BY <2>1 DEF WellFormed
  <2>3. Len(word) \in 0..Len(word) /\ Len(word) - Len(word) = 0
    BY <2>1
  <2>4. Diagonal(pv, summary) \cap GotoSupport(pv) \in summary[pv.initial]
            <=> PvwaaRun(pv, Mirrored, pv.initial, 0, 0)
    BY <1>1, <2>1, <2>2, <2>3 DEF SummaryIsTheRun
  <2>5. AcceptsNow(pv, summary) <=> Diagonal(pv, summary) \cap GotoSupport(pv) \in summary[pv.initial]
    BY <2>1, <2>2, DiagonalSolves DEF AcceptsNow
  <2> QED
    BY <2>4, <2>5 DEF AcceptsTheMirror, PvwaaAccepts
<1> QED
  BY <1>1, SummaryInvHolds, SummaryIsAlwaysTheRun, PTL

=============================================================================
