------------------------------ MODULE WordLemmas ------------------------------
(***************************************************************************)
(* Lemmas that the proofs about words share: least numbers and induction   *)
(* (as facts about sets, which the provers can use), and the state that a  *)
(* transition table leads to along a word.                                 *)
(***************************************************************************)
EXTENDS Integers, Sequences, SequenceTheorems, WellFoundedInduction, TLAPS

\* A nonempty set of natural numbers has a least element.
LEMMA LeastNumber ==
    ASSUME NEW T, T \subseteq Nat, T # {}
    PROVE  \E n \in T : \A m \in T : n <= m
<1>1. IsWellFoundedOn(OpToRel(<, Nat), Nat)
    BY NatLessThanWellFounded
<1>2. PICK n \in T : \A m \in T : ~ (<<m, n>> \in OpToRel(<, Nat))
    BY <1>1, WFMin
<1>3. \A m \in T : ~(m < n)
    BY <1>2 DEF OpToRel
<1> QED BY <1>3

\* A set that holds 0 and, with a number, its successor, holds all of them.
LEMMA NumbersFollow ==
    ASSUME NEW S, 0 \in S, \A n \in Nat : n \in S => n + 1 \in S
    PROVE  Nat \subseteq S
<1> SUFFICES ASSUME Nat \ S # {} PROVE FALSE
    OBVIOUS
<1>1. PICK n \in Nat \ S : \A m \in Nat \ S : n <= m
    BY LeastNumber
<1>2. n # 0 /\ n - 1 \in Nat /\ n - 1 \in S
    BY <1>1
<1> QED BY <1>1, <1>2

-----------------------------------------------------------------------------
\* Where the table D leads from a state with a letter, and from x along w.

Follow(D, q, a) == D[<<q, a>>]

RunFrom(D, x, w) ==
    LET step[n \in 0..Len(w)] == IF n = 0 THEN x ELSE D[step[n - 1], w[n]]
    IN  step[Len(w)]

\* D leads from a state in X with a letter in A to a state in X.
IsTable(D, X, A) == \A q \in X, a \in A : Follow(D, q, a) \in X

\* r holds the states along w.
IsRun(r, D, x, w) ==
    /\ r[0] = x
    /\ \A n \in 1..Len(w) : r[n] = Follow(D, r[n - 1], w[n])

\* Two runs along one word end in one state.
LEMMA RunsAgree ==
    ASSUME NEW D, NEW x, NEW w, Len(w) \in Nat, NEW q, NEW r,
           IsRun(q, D, x, w), IsRun(r, D, x, w)
    PROVE  \A n \in 0..Len(w) : q[n] = r[n]
<1> DEFINE Same == {n \in Nat : n <= Len(w) => q[n] = r[n]}
<1>1. 0 \in Same
    BY DEF IsRun
<1>2. ASSUME NEW n \in Nat, n \in Same
      PROVE  n + 1 \in Same
    <2> SUFFICES ASSUME n + 1 <= Len(w) PROVE q[n + 1] = r[n + 1]
        OBVIOUS
    <2>1. n + 1 \in 1..Len(w) /\ (n + 1) - 1 = n /\ q[n] = r[n]
        BY <1>2
    <2>2. q[n + 1] = Follow(D, q[(n + 1) - 1], w[n + 1]) /\ r[n + 1] = Follow(D, r[(n + 1) - 1], w[n + 1])
        BY <2>1 DEF IsRun
    <2> QED BY <2>1, <2>2
<1> HIDE DEF Same
<1>3. Nat \subseteq Same
    BY <1>1, <1>2, NumbersFollow
<1> QED BY <1>3 DEF Same

\* A table that is defined on all states and letters has a run along each word.
LEMMA RunExists ==
    ASSUME NEW X, NEW A, NEW D, IsTable(D, X, A), NEW x \in X, NEW w \in Seq(A)
    PROVE  \E r \in [0..Len(w) -> X] : IsRun(r, D, x, w)
<1> DEFINE Upto(r, m) == r[0] = x /\ \A k \in 1..m : r[k] = Follow(D, r[k - 1], w[k])
           Good == {m \in Nat : m <= Len(w) => \E r \in [0..m -> X] : Upto(r, m)}
<1>0. Len(w) \in Nat /\ \A k \in 1..Len(w) : w[k] \in A
    OBVIOUS
<1>1. 0 \in Good
    <2>1. [k \in 0..0 |-> x] \in [0..0 -> X] /\ Upto([k \in 0..0 |-> x], 0)
        OBVIOUS
    <2> QED BY <2>1
<1>2. ASSUME NEW m \in Nat, m \in Good
      PROVE  m + 1 \in Good
    <2> SUFFICES ASSUME m + 1 <= Len(w)
                 PROVE  \E r \in [0..(m + 1) -> X] : Upto(r, m + 1)
        OBVIOUS
    <2>1. PICK r \in [0..m -> X] : Upto(r, m)
        BY <1>0, <1>2
    <2> DEFINE v == Follow(D, r[m], w[m + 1])
               g == [k \in 0..(m + 1) |-> IF k = m + 1 THEN v ELSE r[k]]
    <2>2. v \in X
        BY <1>0, <2>1 DEF IsTable
    <2>3. g \in [0..(m + 1) -> X]
        BY <2>2
    <2>4. \A k \in 0..m : g[k] = r[k]
        OBVIOUS
    <2>5. g[m + 1] = v
        OBVIOUS
    <2> HIDE DEF g, v
    <2>6. ASSUME NEW k \in 1..(m + 1) PROVE g[k] = Follow(D, g[k - 1], w[k])
        <3>1. CASE k = m + 1
            <4>1. k - 1 = m /\ g[m] = r[m]
                BY <2>4, <3>1
            <4> QED BY <2>5, <3>1, <4>1 DEF v
        <3>2. CASE k # m + 1
            <4>1. k \in 1..m /\ k - 1 \in 0..m /\ k \in 0..m
                BY <3>2
            <4> QED BY <2>1, <2>4, <4>1
        <3> QED BY <3>1, <3>2
    <2> QED BY <2>1, <2>3, <2>4, <2>6
<1> HIDE DEF Good
<1>3. Len(w) \in Good
    BY <1>0, <1>1, <1>2, NumbersFollow
<1>4. PICK r \in [0..Len(w) -> X] : Upto(r, Len(w))
    BY <1>0, <1>3 DEF Good
<1> QED BY <1>4 DEF IsRun

\* What RunFrom computes is the end of each run.
LEMMA RunFromEnd ==
    ASSUME NEW X, NEW A, NEW D, IsTable(D, X, A), NEW x \in X, NEW w \in Seq(A),
           NEW r, IsRun(r, D, x, w)
    PROVE  RunFrom(D, x, w) = r[Len(w)]
<1>0. Len(w) \in Nat
    OBVIOUS
<1> DEFINE Body(f) == [n \in 0..Len(w) |-> IF n = 0 THEN x ELSE D[f[n - 1], w[n]]]
           Pairs(f) == [n \in 0..Len(w) |-> IF n = 0 THEN x ELSE Follow(D, f[n - 1], w[n])]
           step == CHOOSE f : f = Body(f)
<1>1. \A f : Body(f) = Pairs(f)
    BY Zenon DEF Follow
<1>2. PICK g \in [0..Len(w) -> X] : IsRun(g, D, x, w)
    BY RunExists
<1>3. g = Pairs(g)
    <2>1. \A n \in 0..Len(w) : g[n] = Pairs(g)[n]
        BY <1>0, <1>2 DEF IsRun
    <2>2. g = [n \in 0..Len(w) |-> g[n]] /\ Pairs(g) = [n \in 0..Len(w) |-> Pairs(g)[n]]
        OBVIOUS
    <2> HIDE DEF Pairs
    <2> QED BY <2>1, <2>2
<1>4. step = Pairs(step)
    <2> HIDE DEF Body, Pairs
    <2>1. \E f : f = Body(f)
        BY <1>1, <1>3, Zenon
    <2>2. step = Body(step)
        BY <2>1, Zenon
    <2> QED BY <1>1, <2>2, Zenon
<1>5. RunFrom(D, x, w) = step[Len(w)]
    BY Zenon DEF RunFrom
<1> HIDE DEF step
<1> HIDE DEF Body
<1>6. IsRun(step, D, x, w)
    <2>1. \A n \in 0..Len(w) : step[n] = IF n = 0 THEN x ELSE Follow(D, step[n - 1], w[n])
        BY <1>4
    <2> HIDE DEF Pairs
    <2>2. step[0] = x
        BY <1>0, <2>1
    <2>3. \A n \in 1..Len(w) : step[n] = Follow(D, step[n - 1], w[n])
        BY <1>0, <2>1
    <2> QED BY <2>2, <2>3 DEF IsRun
<1>7. step[Len(w)] = r[Len(w)]
    BY <1>0, <1>6, RunsAgree
<1> QED BY <1>5, <1>7

\* It is a state.
LEMMA RunFromType ==
    ASSUME NEW X, NEW A, NEW D, IsTable(D, X, A), NEW x \in X, NEW w \in Seq(A)
    PROVE  RunFrom(D, x, w) \in X
<1>1. PICK r \in [0..Len(w) -> X] : IsRun(r, D, x, w)
    BY RunExists
<1>2. RunFrom(D, x, w) = r[Len(w)]
    BY <1>1, RunFromEnd
<1> QED BY <1>2

\* The states along w hold those along its beginnings.
LEMMA RunFromEmpty ==
    ASSUME NEW X, NEW A, NEW D, IsTable(D, X, A), NEW x \in X
    PROVE  RunFrom(D, x, << >>) = x
<1>1. << >> \in Seq(A) /\ Len(<< >>) = 0
    OBVIOUS
<1>2. PICK r \in [0..Len(<< >>) -> X] : IsRun(r, D, x, << >>)
    BY <1>1, RunExists
<1>3. RunFrom(D, x, << >>) = r[Len(<< >>)]
    BY <1>1, <1>2, RunFromEnd
<1> QED BY <1>1, <1>2, <1>3 DEF IsRun

LEMMA RunFromAppend ==
    ASSUME NEW X, NEW A, NEW D, IsTable(D, X, A), NEW x \in X, NEW w \in Seq(A), NEW a \in A
    PROVE  RunFrom(D, x, Append(w, a)) = Follow(D, RunFrom(D, x, w), a)
<1> DEFINE v == Append(w, a)
<1>1. /\ v \in Seq(A) /\ Len(w) \in Nat /\ Len(v) = Len(w) + 1 /\ v[Len(v)] = a
      /\ \A k \in 1..Len(w) : v[k] = w[k]
    OBVIOUS
<1> HIDE DEF v
<1>2. PICK r \in [0..Len(v) -> X] : IsRun(r, D, x, v)
    BY <1>1, RunExists
<1>3. IsRun(r, D, x, w)
    <2>1. ASSUME NEW k \in 1..Len(w) PROVE r[k] = Follow(D, r[k - 1], w[k])
        <3>1. k \in 1..Len(v) /\ v[k] = w[k]
            BY <1>1
        <3>2. r[k] = Follow(D, r[k - 1], v[k])
            BY <1>2, <3>1 DEF IsRun
        <3> QED BY <3>1, <3>2
    <2> QED BY <1>2, <2>1 DEF IsRun
<1>4. RunFrom(D, x, v) = r[Len(v)] /\ RunFrom(D, x, w) = r[Len(w)]
    BY <1>1, <1>2, <1>3, RunFromEnd
<1>5. r[Len(v)] = Follow(D, r[Len(v) - 1], v[Len(v)])
    BY <1>1, <1>2 DEF IsRun
<1>6. Len(v) - 1 = Len(w)
    BY <1>1
<1> QED BY <1>1, <1>4, <1>5, <1>6 DEF v

LEMMA RunFromPrepend ==
    ASSUME NEW X, NEW A, NEW D, IsTable(D, X, A), NEW x \in X, NEW w \in Seq(A), NEW a \in A
    PROVE  RunFrom(D, x, <<a>> \o w) = RunFrom(D, Follow(D, x, a), w)
<1> DEFINE v == <<a>> \o w
<1>1. /\ v \in Seq(A) /\ Len(w) \in Nat /\ Len(v) = Len(w) + 1 /\ v[1] = a
      /\ \A k \in 1..Len(w) : v[k + 1] = w[k]
    OBVIOUS
<1> HIDE DEF v
<1>2. PICK r \in [0..Len(v) -> X] : IsRun(r, D, x, v)
    BY <1>1, RunExists
<1> DEFINE q == [n \in 0..Len(w) |-> r[n + 1]]
<1>3. q[0] = Follow(D, x, a) /\ q[0] \in X /\ q[Len(w)] = r[Len(v)]
    <2>1. r[1] = Follow(D, r[1 - 1], v[1]) /\ r[0] = x
        BY <1>1, <1>2 DEF IsRun
    <2>2. q[0] = r[1] /\ 1 - 1 = 0 /\ q[Len(w)] = r[Len(w) + 1]
        BY <1>1
    <2> HIDE DEF q
    <2> QED BY <1>1, <2>1, <2>2
<1>4. IsRun(q, D, Follow(D, x, a), w)
    <2>1. ASSUME NEW k \in 1..Len(w) PROVE q[k] = Follow(D, q[k - 1], w[k])
        <3>1. k + 1 \in 1..Len(v) /\ v[k + 1] = w[k] /\ (k + 1) - 1 = k
              /\ q[k] = r[k + 1] /\ q[k - 1] = r[k]
            BY <1>1
        <3>2. r[k + 1] = Follow(D, r[(k + 1) - 1], v[k + 1])
            BY <1>2, <3>1 DEF IsRun
        <3> HIDE DEF q
        <3> QED BY <3>1, <3>2
    <2> HIDE DEF q
    <2> QED BY <1>3, <2>1 DEF IsRun
<1> HIDE DEF q
<1>5. Follow(D, x, a) \in X
    BY DEF IsTable
<1>6. RunFrom(D, Follow(D, x, a), w) = q[Len(w)]
    BY <1>4, <1>5, RunFromEnd
<1>7. RunFrom(D, x, v) = r[Len(v)]
    BY <1>1, <1>2, RunFromEnd
<1> QED BY <1>3, <1>6, <1>7 DEF v

\* A map that commutes with two tables takes the runs of one to the runs of the other.
LEMMA RunFromImage ==
    ASSUME NEW X, NEW Y, NEW A, NEW D, NEW E, IsTable(D, X, A), IsTable(E, Y, A),
           NEW h \in [X -> Y],
           \A q \in X, a \in A : Follow(E, h[q], a) = h[Follow(D, q, a)],
           NEW x \in X, NEW w \in Seq(A)
    PROVE  RunFrom(E, h[x], w) = h[RunFrom(D, x, w)]
<1>1. PICK r \in [0..Len(w) -> X] : IsRun(r, D, x, w)
    BY RunExists
<1> DEFINE g == [n \in 0..Len(w) |-> h[r[n]]]
<1>2. Len(w) \in Nat /\ \A n \in 1..Len(w) : n \in 0..Len(w) /\ n - 1 \in 0..Len(w) /\ w[n] \in A
    OBVIOUS
<1>3. g[0] = h[x] /\ g[Len(w)] = h[r[Len(w)]]
    <2>1. 0 \in 0..Len(w) /\ Len(w) \in 0..Len(w) /\ r[0] = x
        BY <1>1, <1>2 DEF IsRun
    <2> QED BY <2>1
<1>4. ASSUME NEW n \in 1..Len(w)
      PROVE  g[n] = Follow(E, g[n - 1], w[n])
    <2>1. r[n] = Follow(D, r[n - 1], w[n]) /\ r[n - 1] \in X
        BY <1>1, <1>2 DEF IsRun
    <2>2. g[n] = h[r[n]] /\ g[n - 1] = h[r[n - 1]]
        BY <1>2
    <2> QED BY <1>2, <2>1, <2>2
<1> HIDE DEF g
<1>5. IsRun(g, E, h[x], w)
    BY <1>3, <1>4 DEF IsRun
<1>6. RunFrom(E, h[x], w) = g[Len(w)]
    BY <1>5, RunFromEnd
<1>7. RunFrom(D, x, w) = r[Len(w)]
    BY <1>1, RunFromEnd
<1> QED BY <1>3, <1>6, <1>7

-----------------------------------------------------------------------------
\* Rounds: what a definition by recursion on 0..n computes.

\* r holds the results of n rounds of the step h, which knows the round.
IsRounds(r, h, x, n) ==
    /\ r[0] = x
    /\ \A k \in 1..n : r[k] = Follow(h, r[k - 1], k)

\* A step that takes X to X can be taken n times.
LEMMA RoundsExist ==
    ASSUME NEW n \in Nat, NEW X, NEW h, IsTable(h, X, 1..n), NEW x \in X
    PROVE  \E r \in [0..n -> X] : IsRounds(r, h, x, n)
<1> DEFINE w == [k \in 1..n |-> k]
<1>1. w \in Seq(1..n) /\ Len(w) = n /\ \A k \in 1..n : w[k] = k
    OBVIOUS
<1> HIDE DEF w
<1>3. PICK r \in [0..Len(w) -> X] : IsRun(r, h, x, w)
    BY <1>1, RunExists
<1>4. r[0] = x /\ \A k \in 1..n : r[k] = Follow(h, r[k - 1], k)
    BY <1>1, <1>3 DEF IsRun
<1> QED BY <1>1, <1>3, <1>4 DEF IsRounds

\* Two ways of taking n rounds that agree on each agree on all.
LEMMA RoundsAgree ==
    ASSUME NEW n \in Nat, NEW f, NEW r, f[0] = r[0],
           \A k \in 1..n : f[k - 1] = r[k - 1] => f[k] = r[k]
    PROVE  \A k \in 0..n : f[k] = r[k]
<1> DEFINE Same == {k \in Nat : k <= n => f[k] = r[k]}
<1>1. 0 \in Same
    OBVIOUS
<1>2. ASSUME NEW k \in Nat, k \in Same
      PROVE  k + 1 \in Same
    <2>1. SUFFICES ASSUME k + 1 <= n PROVE f[k + 1] = r[k + 1]
        OBVIOUS
    <2>2. k + 1 \in 1..n /\ (k + 1) - 1 = k /\ f[k] = r[k]
        BY <1>2, <2>1
    <2> QED BY <2>2
<1> HIDE DEF Same
<1>3. Nat \subseteq Same
    BY <1>1, <1>2, NumbersFollow
<1> QED BY <1>3 DEF Same

-----------------------------------------------------------------------------
\* Recursion over data that has a size: what holds of everything that is
\* smaller holds of everything.
LEMMA MeasureInduction ==
    ASSUME NEW X, NEW m \in [X -> Nat], NEW S,
           \A x \in X : (\A y \in X : m[y] < m[x] => y \in S) => x \in S
    PROVE  X \subseteq S
<1> SUFFICES ASSUME X \ S # {} PROVE FALSE
    OBVIOUS
<1> DEFINE T == {m[x] : x \in X \ S}
<1>1. T \subseteq Nat /\ T # {}
    OBVIOUS
<1>2. PICK n \in T : \A k \in T : n <= k
    BY <1>1, LeastNumber
<1>3. PICK x \in X \ S : m[x] = n
    BY <1>2
<1>4. \A y \in X : m[y] < m[x] => y \in S
    <2>1. SUFFICES ASSUME NEW y \in X, m[y] < m[x], y \notin S PROVE FALSE
        OBVIOUS
    <2>2. m[y] \in T /\ m[y] \in Nat /\ m[x] \in Nat
        BY <2>1
    <2>3. n <= m[y]
        BY <1>2, <2>2
    <2> QED BY <1>3, <2>1, <2>2, <2>3
<1> QED BY <1>3, <1>4

\* A recursive definition that looks at smaller arguments alone has a
\* solution: B is its body, as a function of the function being defined.
SettledBelow(B, X, m, e, n) == \A x \in X : m[x] < n => e[x] = B[e][x]

Descends(B, X, V, m) ==
    /\ m \in [X -> Nat] /\ B \in [[X -> V] -> [X -> V]]
    /\ \A e, d \in [X -> V] : \A x \in X :
            (\A y \in X : m[y] < m[x] => e[y] = d[y]) => B[e][x] = B[d][x]

LEMMA RecursionExists ==
    ASSUME NEW X, NEW V, NEW m, NEW B, Descends(B, X, V, m), [X -> V] # {}
    PROVE  \E e \in [X -> V] : e = B[e]
<1> PICK any \in [X -> V] : TRUE
    OBVIOUS
<1> USE DEF Descends
<1> DEFINE Good == {n \in Nat : \E e \in [X -> V] : SettledBelow(B, X, m, e, n)}
<1>1. 0 \in Good
    <2>1. \A x \in X : ~(m[x] < 0)
        OBVIOUS
    <2> QED BY <2>1 DEF SettledBelow
<1>2. ASSUME NEW n \in Nat, n \in Good PROVE n + 1 \in Good
    <2>1. PICK e \in [X -> V] : SettledBelow(B, X, m, e, n)
        BY <1>2
    <2>2. B[e] \in [X -> V]
        OBVIOUS
    <2>3. ASSUME NEW x \in X, m[x] < n + 1 PROVE B[e][x] = B[B[e]][x]
        <3>1. \A y \in X : m[y] < m[x] => e[y] = B[e][y]
            <4>1. \A y \in X : m[y] < m[x] => m[y] < n
                BY <2>3
            <4> QED BY <2>1, <4>1 DEF SettledBelow
        <3> QED BY <2>2, <3>1
    <2>4. SettledBelow(B, X, m, B[e], n + 1)
        BY <2>3 DEF SettledBelow
    <2> QED BY <2>2, <2>4
<1>3. \A n \in Nat : \E e \in [X -> V] : SettledBelow(B, X, m, e, n)
    <2> HIDE DEF Good
    <2>1. Nat \subseteq Good
        BY <1>1, <1>2, NumbersFollow
    <2> QED BY <2>1 DEF Good
<1>4. ASSUME NEW e \in [X -> V], NEW d \in [X -> V], NEW k \in Nat, NEW n \in Nat,
             SettledBelow(B, X, m, e, k), SettledBelow(B, X, m, d, n)
      PROVE  \A x \in X : m[x] < k /\ m[x] < n => e[x] = d[x]
    <2> DEFINE Same == {x \in X : m[x] < k /\ m[x] < n => e[x] = d[x]}
    <2>1. ASSUME NEW x \in X, \A y \in X : m[y] < m[x] => y \in Same PROVE x \in Same
        <3>1. SUFFICES ASSUME m[x] < k, m[x] < n PROVE e[x] = d[x]
            OBVIOUS
        <3>2. \A y \in X : m[y] < m[x] => e[y] = d[y]
            <4>1. \A y \in X : m[y] < m[x] => m[y] < k /\ m[y] < n
                BY <3>1
            <4> QED BY <2>1, <4>1
        <3>3. B[e][x] = B[d][x]
            BY <3>2
        <3> QED BY <1>4, <3>1, <3>3 DEF SettledBelow
    <2> HIDE DEF Same
    <2>2. X \subseteq Same
        BY <2>1, MeasureInduction
    <2> QED BY <2>2 DEF Same
<1> DEFINE E(n) == CHOOSE e \in [X -> V] : SettledBelow(B, X, m, e, n)
           f == [x \in X |-> E(m[x] + 1)[x]]
<1>5. \A n \in Nat : E(n) \in [X -> V] /\ SettledBelow(B, X, m, E(n), n)
    BY <1>3
<1> HIDE DEF E
<1>6. f \in [X -> V]
    BY <1>5
<1>7. ASSUME NEW x \in X PROVE f[x] = B[f][x]
    <2> DEFINE k == m[x] + 1
    <2>1. k \in Nat /\ m[x] < k /\ E(k) \in [X -> V] /\ SettledBelow(B, X, m, E(k), k)
        BY <1>5
    <2>2. f[x] = E(k)[x] /\ E(k)[x] = B[E(k)][x]
        BY <2>1 DEF SettledBelow
    <2>3. ASSUME NEW y \in X, m[y] < m[x] PROVE E(k)[y] = f[y]
        <3>1. m[y] + 1 \in Nat /\ m[y] < m[y] + 1 /\ m[y] < k
            BY <2>3
        <3>2. E(m[y] + 1) \in [X -> V] /\ SettledBelow(B, X, m, E(m[y] + 1), m[y] + 1)
            BY <1>5, <3>1
        <3> HIDE DEF k
        <3>3. E(m[y] + 1)[y] = E(k)[y]
            BY <1>4, <2>1, <3>1, <3>2
        <3> QED BY <3>3
    <2> HIDE DEF k, f
    <2>4. B[E(k)][x] = B[f][x]
        BY <1>6, <2>1, <2>3
    <2> QED BY <2>2, <2>4
<1>8. f = B[f]
    <2> HIDE DEF f
    <2>1. B[f] \in [X -> V]
        BY <1>6
    <2> QED BY <1>6, <1>7, <2>1
<1> QED BY <1>6, <1>8

=============================================================================
