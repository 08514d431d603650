----------------------------- MODULE LearningProofs -----------------------------
(***************************************************************************)
(* Proofs about what is trained and how: the data sets (Datasets), the     *)
(* study that trains a cell per job (UhatStudy), and the trainers it runs  *)
(* (Training).                                                             *)
(***************************************************************************)
EXTENDS Datasets, Training, UhatStudy, WordLemmas, FiniteSetTheorems

-----------------------------------------------------------------------------
(***************************************************************************)
(* How data sets are put together (Datasets), for every task that          *)
(* resolve makes, every number of words and words of every length:         *)
(* the samplers build what they mean to build, and a paired task fills its *)
(* buckets in one attempt.                                                 *)
(*                                                                         *)
(* The first part goes through the samplers of uhat/tasks.py one by one,   *)
(* and says of each what letters its words have and what the task's        *)
(* predicate makes of them; the second is the loop of balanced_sample,     *)
(* whose buckets fill in turn.                                             *)
(***************************************************************************)

-----------------------------------------------------------------------------
\* The family of a task, and the cases it selects.

Families == DOMAIN Figure2

\* No two families share a name.
LEMMA FamiliesAreNames ==
    \A f, g \in Families : Figure2[f] = Figure2[g] => f = g
  BY DEF Families, Figure2

\* A task of the paper's figure is labelled by its family.
LEMMA FigureTasks ==
    ASSUME NEW task, NEW f \in Families, task.family = Figure2[f], NEW w
    PROVE  Label(task, w) = FamilyLabel(task, w)
<1>1. task.family \notin TwoLetterTasks \cup ThreeLetterTasks \cup ToSet(Tomita)
  BY DEF Families, Figure2, TwoLetterTasks, ThreeLetterTasks, ToSet, Tomita
<1> QED
  BY <1>1 DEF Label

\* The greater of two numbers.
LEMMA MaxOfTwo ==
    ASSUME NEW a \in Nat, NEW b \in Nat
    PROVE  Max({a, b}) \in Nat /\ a <= Max({a, b}) /\ b <= Max({a, b})
<1>1. \E x \in {a, b} : \A y \in {a, b} : x >= y
  OBVIOUS
<1>2. Max({a, b}) \in {a, b} /\ \A y \in {a, b} : Max({a, b}) >= y
  BY <1>1, Zenon DEF Max
<1> QED
  BY <1>2

\* A drawn length is at least what the construction needs.
LEMMA RoomIsEnough ==
    ASSUME NEW lo \in Nat, NEW hi \in Nat, NEW least \in Nat, NEW n \in Room(lo, hi, least)
    PROVE  n \in Nat /\ least <= n
  BY MaxOfTwo DEF Room

\* The words of the random part of a construction.
LEMMA LongWords ==
    ASSUME NEW task, NEW lo \in Nat, NEW hi \in Nat, NEW least \in Nat, NEW w \in Long(task, lo, hi, least)
    PROVE  \E n \in Nat : /\ least <= n /\ Len(w) = n
                         /\ DOMAIN w = 1..n /\ \A p \in 1..n : w[p] \in ToSet(task.alphabet)
<1>1. PICK n \in Room(lo, hi, least) : w \in [1..n -> ToSet(task.alphabet)]
  BY DEF Long, WordsOf
<1>2. n \in Nat /\ least <= n
  BY RoomIsEnough
<1>3. Len(w) = n
  BY <1>1, <1>2
<1> QED
  BY <1>1, <1>2, <1>3

\* A function over 1..n has length n.
LEMMA LengthOfAWord ==
    ASSUME NEW n \in Nat, NEW w, w = [q \in 1..n |-> w[q]]
    PROVE  Len(w) = n
  OBVIOUS

\* A word with a letter written over.
Over(w, p, x) == [w EXCEPT ![p] = x]

\* It differs at that place only.
LEMMA Overwritten ==
    ASSUME NEW n \in Nat, NEW w, DOMAIN w = 1..n, NEW p \in 1..n, NEW x, NEW v,
           v = Over(w, p, x)
    PROVE  /\ DOMAIN v = 1..n /\ Len(v) = n
           /\ v[p] = x
           /\ \A q \in 1..n : q # p => v[q] = w[q]
<1>1. v = [q \in 1..n |-> IF q = p THEN x ELSE w[q]]
  BY DEF Over
<1>2. v = [q \in 1..n |-> v[q]]
  BY <1>1
<1>3. DOMAIN v = 1..n
  BY <1>1
<1> QED
  BY <1>1, <1>2, <1>3, LengthOfAWord

-----------------------------------------------------------------------------
\* y: the letter k places before the last.

\* The predicate of y.
LEMMA YLabel ==
    ASSUME NEW task, task.family = Figure2["y"], NEW w
    PROVE  Label(task, w) = (Len(w) > task.parameter /\ w[Len(w) - task.parameter] = "a")
<1>1. Label(task, w) = FamilyLabel(task, w)
  BY FigureTasks DEF Families, Figure2
<1> QED
  BY <1>1 DEF FamilyLabel, Figure2

\* The words the sampler of y draws.
LEMMA YDraws ==
    ASSUME NEW task, task.family = Figure2["y"], NEW lo, NEW hi
    PROVE  /\ Positive(task, lo, hi) = {Over(w, Len(w) - task.parameter, "a") :
                                            w \in Long(task, lo, hi, task.parameter + 1)}
           /\ Negative(task, lo, hi) = {Over(w, Len(w) - task.parameter, "b") :
                                            w \in Long(task, lo, hi, task.parameter + 1)}
  BY DEF Positive, Negative, Figure2, Over

\* Positives of y are in the language, negatives are not.
LEMMA YWords ==
    ASSUME NEW task, Resolved(task), task.family = Figure2["y"], NEW lo \in Nat, NEW hi \in Nat
    PROVE  /\ \A w \in Positive(task, lo, hi) : Label(task, w) = TRUE
           /\ \A w \in Negative(task, lo, hi) : Label(task, w) = FALSE
<1> DEFINE k == task.parameter
<1>1. k \in Nat
  BY DEF Resolved
<1>2. ASSUME NEW w \in Long(task, lo, hi, k + 1), NEW x, NEW v, v = Over(w, Len(w) - k, x)
      PROVE  Len(v) > k /\ v[Len(v) - k] = x
  <2>1. PICK n \in Nat : k + 1 <= n /\ Len(w) = n /\ DOMAIN w = 1..n
    BY <1>1, LongWords
  <2> DEFINE p == n - k
  <2>2. p \in 1..n
    BY <1>1, <2>1
  <2>3. v = Over(w, p, x)
    BY <1>2, <2>1
  <2> HIDE DEF p
  <2>4. Len(v) = n /\ v[p] = x
    BY <2>1, <2>2, <2>3, Overwritten
  <2>5. n > k
    BY <1>1, <2>1
  <2> QED
    BY <2>4, <2>5 DEF p
<1> HIDE DEF k
<1>3. ASSUME NEW v \in Positive(task, lo, hi)
      PROVE  Label(task, v) = TRUE
  <2>1. PICK w \in Long(task, lo, hi, k + 1) : v = Over(w, Len(w) - k, "a")
    BY YDraws DEF k
  <2>2. Len(v) > k /\ v[Len(v) - k] = "a"
    BY <1>2, <2>1
  <2> QED
    BY <2>2, YLabel DEF k
<1>4. ASSUME NEW v \in Negative(task, lo, hi)
      PROVE  Label(task, v) = FALSE
  <2>1. PICK w \in Long(task, lo, hi, k + 1) : v = Over(w, Len(w) - k, "b")
    BY YDraws DEF k
  <2>2. v[Len(v) - k] = "b"
    BY <1>2, <2>1
  <2> QED
    BY <2>2, YLabel DEF k
<1> QED
  BY <1>3, <1>4

-----------------------------------------------------------------------------
\* no2a: no two a's at distance k, the last position aside.

NoTwoAs(w, k, n) == ~\E right \in (k + 1)..(n - 1) : w[right] = "a" /\ w[right - k] = "a"

\* The predicate of no2a.
LEMMA No2aLabel ==
    ASSUME NEW task, task.family = Figure2["no2a"], NEW w
    PROVE  Label(task, w) = NoTwoAs(w, task.parameter, Len(w))
<1>1. Label(task, w) = FamilyLabel(task, w)
  BY FigureTasks DEF Families, Figure2
<1> QED
  BY <1>1 DEF FamilyLabel, Figure2, NoTwoAs

\* The words the sampler of no2a draws.
LEMMA No2aDraws ==
    ASSUME NEW task, task.family = Figure2["no2a"], NEW lo, NEW hi
    PROVE  /\ Positive(task, lo, hi) =
                UNION {{Over(Block("b", n), p, "a") : p \in 1..n} : n \in Room(lo, hi, task.parameter + 2)}
           /\ Negative(task, lo, hi) =
                UNION {{Over(Over(w, p, "a"), p + task.parameter, "a") :
                            p \in 1..(Len(w) - task.parameter - 1)} :
                        w \in Long(task, lo, hi, task.parameter + 2)}
  BY DEF Positive, Negative, Figure2, Over, ForbiddenPair

\* Positives of no2a are in the language, negatives are not.
LEMMA No2aWords ==
    ASSUME NEW task, Resolved(task), task.family = Figure2["no2a"], NEW lo \in Nat, NEW hi \in Nat
    PROVE  /\ \A w \in Positive(task, lo, hi) : Label(task, w) = TRUE
           /\ \A w \in Negative(task, lo, hi) : Label(task, w) = FALSE
<1> DEFINE k == task.parameter
<1>1. k \in Nat /\ k > 0 /\ k + 2 \in Nat
  BY DEF Resolved, Range, Figure2
<1> HIDE DEF k
<1>2. ASSUME NEW v \in Positive(task, lo, hi)
      PROVE  Label(task, v) = TRUE
  <2>0. PICK n \in Room(lo, hi, k + 2) : \E p \in 1..n : v = Over(Block("b", n), p, "a")
    BY No2aDraws DEF k
  <2>1. PICK p \in 1..n : v = Over(Block("b", n), p, "a")
    BY <2>0
  <2>2. n \in Nat
    BY <1>1, RoomIsEnough
  <2>3. DOMAIN Block("b", n) = 1..n /\ \A q \in 1..n : Block("b", n)[q] = "b"
    BY DEF Block
  <2>4. Len(v) = n /\ \A q \in 1..n : q # p => v[q] = "b"
    BY <2>1, <2>2, <2>3, Overwritten
  <2>5. NoTwoAs(v, k, n)
    <3> SUFFICES ASSUME NEW right \in (k + 1)..(n - 1), v[right] = "a", v[right - k] = "a"
                 PROVE  FALSE
      BY DEF NoTwoAs
    <3>1. right \in 1..n /\ right - k \in 1..n /\ right # right - k
      BY <1>1, <2>2
    <3> QED
      BY <2>4, <3>1
  <2> QED
    BY <2>4, <2>5, No2aLabel DEF k
<1>3. ASSUME NEW v \in Negative(task, lo, hi)
      PROVE  Label(task, v) = FALSE
  <2>1. PICK w \in Long(task, lo, hi, k + 2) :
            \E p \in 1..(Len(w) - k - 1) : v = Over(Over(w, p, "a"), p + k, "a")
    BY No2aDraws DEF k
  <2>2. PICK n \in Nat : k + 2 <= n /\ Len(w) = n /\ DOMAIN w = 1..n
    <3>1. k + 2 \in Nat
      BY <1>1
    <3>2. \E n \in Nat : /\ k + 2 <= n /\ Len(w) = n
                         /\ DOMAIN w = 1..n /\ \A p \in 1..n : w[p] \in ToSet(task.alphabet)
      BY <3>1, LongWords, Zenon
    <3> QED
      BY <3>2, Zenon
  <2>3. PICK p \in 1..(n - k - 1) : v = Over(Over(w, p, "a"), p + k, "a")
    BY <2>1, <2>2
  <2> DEFINE q == p + k
             u == Over(w, p, "a")
  <2>4. p \in 1..n /\ q \in 1..n /\ q # p /\ q \in (k + 1)..(n - 1) /\ q - k = p
    BY <1>1, <2>2
  <2>5. v = Over(u, q, "a")
    BY <2>3
  <2> HIDE DEF q, u
  <2>6. DOMAIN u = 1..n /\ u[p] = "a"
    BY <2>2, <2>4, Overwritten DEF u
  <2>7. Len(v) = n /\ v[q] = "a" /\ v[p] = "a"
    BY <2>4, <2>5, <2>6, Overwritten
  <2>8. ~NoTwoAs(v, k, n)
    BY <2>4, <2>7 DEF NoTwoAs
  <2> QED
    BY <2>7, <2>8, No2aLabel DEF k, NoTwoAs
<1> QED
  BY <1>2, <1>3

-----------------------------------------------------------------------------
\* slb: the last letter occurs before.

SeenBefore(w, n) == \E p \in 1..(n - 1) : w[p] = w[n]

\* The predicate of slb.
LEMMA SlbLabel ==
    ASSUME NEW task, task.family = Figure2["slb"], NEW w
    PROVE  Label(task, w) = SeenBefore(w, Len(w))
<1>1. Label(task, w) = FamilyLabel(task, w)
  BY FigureTasks DEF Families, Figure2
<1> QED
  BY <1>1 DEF FamilyLabel, Figure2, SeenBefore

\* The words the sampler of slb draws.
LEMMA SlbDraws ==
    ASSUME NEW task, task.family = Figure2["slb"], NEW lo, NEW hi
    PROVE  /\ Positive(task, lo, hi) =
                UNION {{Over(w, p, w[Len(w)]) : p \in 1..(Len(w) - 1)} : w \in Long(task, lo, hi, 2)}
           /\ Negative(task, lo, hi) =
                UNION {{Append(Block(other, n - 1), final) :
                            other \in ToSet(task.alphabet) \ {final}, n \in Room(lo, hi, 2)} :
                        final \in ToSet(task.alphabet)}
  BY DEF Positive, Negative, Figure2, Over

\* Positives of slb are in the language, negatives are not.
LEMMA SlbWords ==
    ASSUME NEW task, Resolved(task), task.family = Figure2["slb"], NEW lo \in Nat, NEW hi \in Nat
    PROVE  /\ \A w \in Positive(task, lo, hi) : Label(task, w) = TRUE
           /\ \A w \in Negative(task, lo, hi) : Label(task, w) = FALSE
<1>1. ASSUME NEW v \in Positive(task, lo, hi)
      PROVE  Label(task, v) = TRUE
  <2>1. PICK w \in Long(task, lo, hi, 2) : \E p \in 1..(Len(w) - 1) : v = Over(w, p, w[Len(w)])
    BY SlbDraws
  <2>2. PICK n \in Nat : 2 <= n /\ Len(w) = n /\ DOMAIN w = 1..n
    BY LongWords
  <2>3. PICK p \in 1..(n - 1) : v = Over(w, p, w[n])
    BY <2>1, <2>2
  <2>4. p \in 1..n /\ n \in 1..n /\ n # p
    BY <2>2
  <2>5. Len(v) = n /\ v[p] = w[n] /\ v[n] = w[n]
    BY <2>2, <2>3, <2>4, Overwritten
  <2> QED
    BY <2>5, SlbLabel DEF SeenBefore
<1>2. ASSUME NEW v \in Negative(task, lo, hi)
      PROVE  Label(task, v) = FALSE
  <2>0. PICK n \in Room(lo, hi, 2) :
            \E final, other : other # final /\ v = Append(Block(other, n - 1), final)
    BY SlbDraws
  <2>1. PICK final, other : other # final /\ v = Append(Block(other, n - 1), final)
    BY <2>0
  <2>2. n \in Nat /\ 2 <= n
    BY RoomIsEnough
  <2>3. Len(v) = n /\ v[n] = final /\ \A p \in 1..(n - 1) : v[p] = other
    BY <2>1, <2>2 DEF Block
  <2> QED
    BY <2>1, <2>3, SlbLabel DEF SeenBefore
<1> QED
  BY <1>1, <1>2

-----------------------------------------------------------------------------
\* mono_word: the last letter is above all others.

\* The p-th letter has rank p.
LEMMA RankOfALetter ==
    ASSUME NEW task, Resolved(task), task.family = Figure2["mono_word"], NEW p \in 1..task.parameter
    PROVE  task.alphabet[p] \in ToSet(task.alphabet) /\ Rank(task, task.alphabet[p]) = p
<1> DEFINE letters == task.alphabet
           I == {i \in 1..Len(letters) : letters[i] = letters[p]}
<1>1. /\ Len(letters) = task.parameter /\ DOMAIN letters = 1..Len(letters) /\ Len(letters) \in Nat
      /\ \A i, j \in DOMAIN letters : letters[i] = letters[j] => i = j
  BY DEF Resolved, Figure2
<1>2. I = {p}
  BY <1>1
<1>3. Min(I) = p
  <2>1. \E x \in I : \A y \in I : x =< y
    BY <1>2
  <2>2. Min(I) \in I
    BY <2>1, Zenon DEF Min
  <2> QED
    BY <1>2, <2>2
<1>4. Rank(task, letters[p]) = IF I # {} THEN Min(I) ELSE 0
  BY DEF Rank, SelectInSeq
<1> QED
  BY <1>1, <1>2, <1>3, <1>4 DEF ToSet

LastIsTop(task, w, n) == n > 0 /\ \A p \in 1..(n - 1) : Rank(task, w[p]) < Rank(task, w[n])

\* The predicate of mono_word.
LEMMA MonoLabel ==
    ASSUME NEW task, task.family = Figure2["mono_word"], NEW w
    PROVE  Label(task, w) = LastIsTop(task, w, Len(w))
<1>1. Label(task, w) = FamilyLabel(task, w)
  BY FigureTasks DEF Families, Figure2
<1> QED
  BY <1>1 DEF FamilyLabel, Figure2, LastIsTop

\* The words the sampler of mono_word draws.
LEMMA MonoDraws ==
    ASSUME NEW task, task.family = Figure2["mono_word"], NEW lo, NEW hi
    PROVE  /\ Positive(task, lo, hi) =
                {w \in Long(task, lo, hi, 2) :
                    \E top \in 2..task.parameter :
                        /\ w[Len(w)] = task.alphabet[top]
                        /\ \A p \in 1..(Len(w) - 1) :
                                w[p] \in ToSet(SubSeq(task.alphabet, 1, top - 1))}
           /\ Negative(task, lo, hi) =
                UNION {{Over(w, p, task.alphabet[above]) :
                            p \in 1..(Len(w) - 1), above \in Rank(task, w[Len(w)])..task.parameter} :
                        w \in Long(task, lo, hi, 2)}
  BY DEF Positive, Negative, Figure2, Over

\* What a positive word of mono_word looks like.
LEMMA MonoPositives ==
    ASSUME NEW task, task.family = Figure2["mono_word"], NEW lo, NEW hi, NEW w \in Positive(task, lo, hi)
    PROVE  \E top \in 2..task.parameter :
                /\ w[Len(w)] = task.alphabet[top]
                /\ \A p \in 1..(Len(w) - 1) : w[p] \in ToSet(SubSeq(task.alphabet, 1, top - 1))
<1> DEFINE Shape(u) ==
        \E top \in 2..task.parameter :
            /\ u[Len(u)] = task.alphabet[top]
            /\ \A p \in 1..(Len(u) - 1) : u[p] \in ToSet(SubSeq(task.alphabet, 1, top - 1))
<1>1. Positive(task, lo, hi) = {u \in Long(task, lo, hi, 2) : Shape(u)}
  BY DEF Positive, Figure2
<1>2. Shape(w)
  <2> HIDE DEF Shape
  <2> QED
    BY <1>1
<1> QED
  BY <1>2

\* Positives of mono_word are in the language, negatives are not.
LEMMA MonoWords ==
    ASSUME NEW task, Resolved(task), task.family = Figure2["mono_word"], NEW lo \in Nat, NEW hi \in Nat
    PROVE  /\ \A w \in Positive(task, lo, hi) : Label(task, w) = TRUE
           /\ \A w \in Negative(task, lo, hi) : Label(task, w) = FALSE
<1> DEFINE k == task.parameter
           letters == task.alphabet
<1>1. k \in Nat /\ Len(letters) = k /\ DOMAIN letters = 1..k /\ letters \in Seq(ToSet(letters))
  BY DEF Resolved, Figure2
<1>2. \A p \in 1..k : Rank(task, letters[p]) = p
  BY RankOfALetter
<1>3. \A x \in ToSet(letters) : Rank(task, x) \in 1..k
  BY <1>1, <1>2 DEF ToSet
<1> HIDE DEF k, letters
<1>4. ASSUME NEW v \in Positive(task, lo, hi)
      PROVE  Label(task, v) = TRUE
  <2>0. v \in Long(task, lo, hi, 2)
    BY MonoDraws
  <2>1. PICK n \in Nat : 2 <= n /\ Len(v) = n /\ DOMAIN v = 1..n
    BY <2>0, LongWords
  <2>2. PICK top \in 2..k :
            /\ v[n] = letters[top]
            /\ \A p \in 1..(n - 1) : v[p] \in ToSet(SubSeq(letters, 1, top - 1))
    <3>1. \E top \in 2..task.parameter :
            /\ v[Len(v)] = task.alphabet[top]
            /\ \A p \in 1..(Len(v) - 1) : v[p] \in ToSet(SubSeq(task.alphabet, 1, top - 1))
      BY MonoPositives
    <3>2. \E top \in 2..k :
            /\ v[Len(v)] = letters[top]
            /\ \A p \in 1..(Len(v) - 1) : v[p] \in ToSet(SubSeq(letters, 1, top - 1))
      BY <3>1, Zenon DEF k, letters
    <3> QED
      BY <2>1, <3>2
  <2>3. ASSUME NEW p \in 1..(n - 1)
        PROVE  Rank(task, v[p]) < top
    <3>1. /\ DOMAIN SubSeq(letters, 1, top - 1) = 1..(top - 1)
          /\ \A i \in 1..(top - 1) : SubSeq(letters, 1, top - 1)[i] = letters[i]
      BY <1>1
    <3>2. PICK i \in 1..(top - 1) : v[p] = letters[i]
      BY <2>2, <3>1 DEF ToSet
    <3>3. i \in 1..k /\ i < top
      BY <1>1
    <3> QED
      BY <1>2, <3>2, <3>3
  <2>4. Rank(task, v[n]) = top
    BY <1>1, <1>2, <2>2
  <2>5. n > 0 /\ \A p \in 1..(n - 1) : Rank(task, v[p]) < Rank(task, v[n])
    BY <2>1, <2>3, <2>4
  <2>6. LastIsTop(task, v, Len(v)) = TRUE
    BY <2>1, <2>5 DEF LastIsTop
  <2> QED
    BY <2>6, MonoLabel
<1>5. ASSUME NEW v \in Negative(task, lo, hi)
      PROVE  Label(task, v) = FALSE
  <2>1. PICK w \in Long(task, lo, hi, 2) :
            \E p \in 1..(Len(w) - 1), above \in Rank(task, w[Len(w)])..k : v = Over(w, p, letters[above])
    BY MonoDraws DEF k, letters
  <2>2. PICK n \in Nat : /\ 2 <= n /\ Len(w) = n
                         /\ DOMAIN w = 1..n /\ \A p \in 1..n : w[p] \in ToSet(letters)
    BY LongWords DEF letters
  <2>3. PICK p \in 1..(n - 1), above \in Rank(task, w[n])..k : v = Over(w, p, letters[above])
    BY <2>1, <2>2
  <2>4. p \in 1..n /\ n \in 1..n /\ n # p
    BY <2>2
  <2>5. Len(v) = n /\ v[p] = letters[above] /\ v[n] = w[n]
    BY <2>2, <2>3, <2>4, Overwritten
  <2>6. Rank(task, w[n]) \in 1..k
    BY <1>3, <2>2, <2>4
  <2>7. above \in 1..k /\ above >= Rank(task, w[n])
    BY <1>1, <2>6
  <2>8. Rank(task, v[p]) = above
    BY <1>2, <2>5, <2>7
  <2>9. ~(Rank(task, v[p]) < Rank(task, v[n]))
    BY <2>5, <2>6, <2>7, <2>8
  <2> QED
    BY <2>5, <2>9, MonoLabel DEF LastIsTop
<1> QED
  BY <1>4, <1>5

-----------------------------------------------------------------------------
\* since: only the last letter since some marker.

SinceMarker(w, n) ==
    \E p \in 1..(n - 1) : w[p] = "marker" /\ \A q \in (p + 1)..(n - 1) : w[q] = w[n]

\* The predicate of since.
LEMMA SinceLabel ==
    ASSUME NEW task, task.family = Figure2["since"], NEW w
    PROVE  Label(task, w) = SinceMarker(w, Len(w))
<1>1. Label(task, w) = FamilyLabel(task, w)
  BY FigureTasks DEF Families, Figure2
<1> QED
  BY <1>1 DEF FamilyLabel, Figure2, SinceMarker

Since(w, p, final) == SubSeq(w, 1, p - 1) \o <<"marker">> \o Block(final, Len(w) - p)

\* The words the sampler of since draws.
LEMMA SinceDraws ==
    ASSUME NEW task, task.family = Figure2["since"], NEW lo, NEW hi
    PROVE  /\ Positive(task, lo, hi) =
                UNION {{Since(w, p, final) :
                            p \in 1..(Len(w) - 1), final \in ToSet(Tail(task.alphabet))} :
                        w \in Long(task, lo, hi, 2)}
           /\ Negative(task, lo, hi) =
                {w \in Long(task, lo, hi, 2) : Occurrences(w, "marker") = {}}
  BY DEF Positive, Negative, Figure2, Since

\* Two words put together, letter by letter.
LEMMA Joined ==
    ASSUME NEW S, NEW u \in Seq(S), NEW w \in Seq(S)
    PROVE  /\ u \o w \in Seq(S) /\ Len(u \o w) = Len(u) + Len(w)
           /\ \A q \in 1..Len(u) : (u \o w)[q] = u[q]
           /\ \A q \in (Len(u) + 1)..(Len(u) + Len(w)) : (u \o w)[q] = w[q - Len(u)]
  OBVIOUS

\* x is made of the first l letters of u and the first m of w.
IsJoin(x, u, l, w, m) ==
    /\ Len(x) = l + m
    /\ \A q \in 1..(l + m) :
            \/ q <= l /\ q \in 1..l /\ x[q] = u[q]
            \/ ~(q <= l) /\ q - l \in 1..m /\ x[q] = w[q - l]

\* The same as one predicate.
LEMMA JoinedAt ==
    ASSUME NEW S, NEW u \in Seq(S), NEW w \in Seq(S)
    PROVE  u \o w \in Seq(S) /\ IsJoin(u \o w, u, Len(u), w, Len(w))
<1> DEFINE l == Len(u)
           m == Len(w)
           x == u \o w
<1>1. l \in Nat /\ m \in Nat
  OBVIOUS
<1>2. /\ x \in Seq(S) /\ Len(x) = l + m
      /\ \A q \in 1..l : x[q] = u[q]
      /\ \A q \in (l + 1)..(l + m) : x[q] = w[q - l]
  BY Joined
<1> HIDE DEF l, m, x
<1>3. ASSUME NEW q \in 1..(l + m)
      PROVE  \/ q <= l /\ q \in 1..l
             \/ ~(q <= l) /\ q \in (l + 1)..(l + m) /\ q - l \in 1..m
  <2>1. CASE q <= l
    BY <1>1, <2>1
  <2>2. CASE ~(q <= l)
    <3>1. q \in Int /\ q >= l + 1 /\ q <= l + m
      BY <1>1, <2>2
    <3>2. q - l \in 1..m
      BY <1>1, <3>1
    <3> QED
      BY <1>1, <2>2, <3>1, <3>2
  <2> QED
    BY <2>1, <2>2
<1>4. ASSUME NEW q \in 1..(l + m)
      PROVE  \/ q <= l /\ q \in 1..l /\ x[q] = u[q]
             \/ ~(q <= l) /\ q - l \in 1..m /\ x[q] = w[q - l]
  <2>1. \/ q <= l /\ q \in 1..l
        \/ ~(q <= l) /\ q \in (l + 1)..(l + m) /\ q - l \in 1..m
    BY <1>3
  <2> QED
    BY <1>2, <2>1
<1>5. IsJoin(x, u, l, w, m)
  BY <1>2, <1>4 DEF IsJoin
<1> QED
  BY <1>2, <1>5 DEF l, m, x

\* A marker followed by one letter only.
LEMMA MarkerThenBlock ==
    ASSUME NEW S, NEW u \in Seq(S), NEW m \in Nat, m > 0, NEW final, NEW v,
           v = u \o <<"marker">> \o Block(final, m)
    PROVE  SinceMarker(v, Len(v))
<1> DEFINE T == S \cup {"marker", final}
           p == Len(u) + 1
<1>1. u \in Seq(T) /\ <<"marker">> \in Seq(T) /\ Len(u) \in Nat
  OBVIOUS
<1>2. Block(final, m) \in Seq(T) /\ Len(Block(final, m)) = m /\ \A q \in 1..m : Block(final, m)[q] = final
  BY DEF Block
<1>3. /\ u \o <<"marker">> \in Seq(T) /\ Len(u \o <<"marker">>) = p
      /\ (u \o <<"marker">>)[p] = "marker"
  BY <1>1
<1> HIDE DEF T
<1>4. /\ Len(v) = p + m
      /\ v[p] = "marker"
      /\ \A q \in (p + 1)..(p + m) : v[q] = final
  <2> DEFINE h == u \o <<"marker">>
             b == Block(final, m)
  <2>1. h \in Seq(T) /\ b \in Seq(T) /\ Len(h) = p /\ Len(b) = m /\ v = h \o b
    BY <1>2, <1>3
  <2>2. h[p] = "marker" /\ p \in Nat /\ p > 0 /\ \A q \in 1..m : b[q] = final
    BY <1>1, <1>2, <1>3
  <2> HIDE DEF h, b, p
  <2>3. /\ Len(h \o b) = Len(h) + Len(b)
        /\ \A q \in 1..Len(h) : (h \o b)[q] = h[q]
        /\ \A q \in (Len(h) + 1)..(Len(h) + Len(b)) : (h \o b)[q] = b[q - Len(h)]
    BY <2>1, Joined
  <2>4. p \in 1..p /\ \A q \in (p + 1)..(p + m) : q - p \in 1..m
    BY <2>2
  <2> QED
    BY <2>1, <2>2, <2>3, <2>4
<1>5. p \in 1..(p + m - 1) /\ p + m \in (p + 1)..(p + m)
  BY <1>1
<1> QED
  BY <1>4, <1>5 DEF SinceMarker

\* Positives of since are in the language, negatives are not.
LEMMA SinceWords ==
    ASSUME NEW task, Resolved(task), task.family = Figure2["since"], NEW lo \in Nat, NEW hi \in Nat
    PROVE  /\ \A w \in Positive(task, lo, hi) : Label(task, w) = TRUE
           /\ \A w \in Negative(task, lo, hi) : Label(task, w) = FALSE
<1>1. ASSUME NEW v \in Positive(task, lo, hi)
      PROVE  Label(task, v) = TRUE
  <2>1. PICK w \in Long(task, lo, hi, 2) :
            \E p \in 1..(Len(w) - 1), final \in ToSet(Tail(task.alphabet)) :
                v = Since(w, p, final)
    BY SinceDraws
  <2>2. PICK n \in Nat : /\ 2 <= n /\ Len(w) = n
                         /\ DOMAIN w = 1..n /\ \A p \in 1..n : w[p] \in ToSet(task.alphabet)
    BY LongWords
  <2>3. PICK p \in 1..(n - 1), final \in ToSet(Tail(task.alphabet)) :
            v = SubSeq(w, 1, p - 1) \o <<"marker">> \o Block(final, n - p)
    BY <2>1, <2>2 DEF Since
  <2>4. SubSeq(w, 1, p - 1) \in Seq(ToSet(task.alphabet))
    BY <2>2
  <2>5. n - p \in Nat /\ n - p > 0
    BY <2>2
  <2>6. SinceMarker(v, Len(v)) = TRUE
    BY <2>3, <2>4, <2>5, MarkerThenBlock DEF SinceMarker
  <2> QED
    BY <2>6, SinceLabel
<1>2. ASSUME NEW v \in Negative(task, lo, hi)
      PROVE  Label(task, v) = FALSE
  <2>1. v \in Long(task, lo, hi, 2) /\ Occurrences(v, "marker") = {}
    BY SinceDraws
  <2>2. PICK n \in Nat : 2 <= n /\ Len(v) = n /\ DOMAIN v = 1..n
    BY <2>1, LongWords
  <2>3. \A p \in 1..(n - 1) : v[p] # "marker"
    BY <2>1, <2>2 DEF Occurrences
  <2>4. SinceMarker(v, Len(v)) = FALSE
    BY <2>2, <2>3 DEF SinceMarker
  <2> QED
    BY <2>4, SinceLabel
<1> QED
  BY <1>1, <1>2

-----------------------------------------------------------------------------
\* marks: at least k markers.

\* The predicate of marks.
LEMMA MarksLabel ==
    ASSUME NEW task, task.family = Figure2["marks"], NEW w
    PROVE  Label(task, w) = (Cardinality(Occurrences(w, "m")) >= task.parameter)
<1>1. Label(task, w) = FamilyLabel(task, w)
  BY FigureTasks DEF Families, Figure2
<1> QED
  BY <1>1 DEF FamilyLabel, Figure2

\* The words the sampler of marks draws.
LEMMA MarksDraws ==
    ASSUME NEW task, task.family = Figure2["marks"], NEW lo, NEW hi
    PROVE  /\ Positive(task, lo, hi) =
                {w \in Long(task, lo, hi, task.parameter + 1) :
                    Cardinality(Occurrences(w, "m")) = task.parameter}
           /\ Negative(task, lo, hi) =
                {w \in Long(task, lo, hi, task.parameter + 1) :
                    Cardinality(Occurrences(w, "m")) < task.parameter}
  BY DEF Positive, Negative, Figure2

\* The occurrences of a letter in a word are finitely many.
LEMMA OccurrencesAreFinite ==
    ASSUME NEW n \in Nat, NEW w, DOMAIN w = 1..n, NEW x
    PROVE  IsFiniteSet(Occurrences(w, x)) /\ Cardinality(Occurrences(w, x)) \in Nat
<1>1. IsFiniteSet(1..n)
  BY FS_Interval
<1>2. Occurrences(w, x) \subseteq 1..n
  BY DEF Occurrences
<1>3. IsFiniteSet(Occurrences(w, x))
  BY <1>1, <1>2, FS_Subset
<1> QED
  BY <1>3, FS_CardinalityType

\* Positives of marks are in the language, negatives are not.
LEMMA MarksWords ==
    ASSUME NEW task, Resolved(task), task.family = Figure2["marks"], NEW lo \in Nat, NEW hi \in Nat
    PROVE  /\ \A w \in Positive(task, lo, hi) : Label(task, w) = TRUE
           /\ \A w \in Negative(task, lo, hi) : Label(task, w) = FALSE
<1> DEFINE k == task.parameter
           marks(w) == Cardinality(Occurrences(w, "m"))
<1>1. k \in Nat /\ k + 1 \in Nat
  BY DEF Resolved
<1>2. ASSUME NEW v \in Long(task, lo, hi, k + 1)
      PROVE  marks(v) \in Nat
  <2>1. PICK n \in Nat : DOMAIN v = 1..n
    BY <1>1, LongWords
  <2> QED
    BY <2>1, OccurrencesAreFinite
<1>3. \A v \in Positive(task, lo, hi) : marks(v) = k
  BY MarksDraws
<1>4. \A v \in Negative(task, lo, hi) : v \in Long(task, lo, hi, k + 1) /\ marks(v) < k
  BY MarksDraws
<1>5. ASSUME NEW v \in Positive(task, lo, hi)
      PROVE  Label(task, v) = TRUE
  <2>1. (marks(v) >= k) = TRUE
    BY <1>1, <1>3
  <2> QED
    BY <2>1, MarksLabel
<1>6. ASSUME NEW v \in Negative(task, lo, hi)
      PROVE  Label(task, v) = FALSE
  <2>1. marks(v) \in Nat /\ marks(v) < k
    BY <1>2, <1>4
  <2>2. (marks(v) >= k) = FALSE
    BY <1>1, <2>1
  <2> QED
    BY <2>2, MarksLabel
<1> QED
  BY <1>5, <1>6

-----------------------------------------------------------------------------
\* same: the letter before the last marker that has k - 1 before it and is not
\* the last position, and the last letter.

\* The predicate of same.
LEMMA SameLabels ==
    ASSUME NEW task, task.family = Figure2["same"], NEW w
    PROVE  Label(task, w) = SameLabel(task.parameter, w)
<1>1. Label(task, w) = FamilyLabel(task, w)
  BY FigureTasks DEF Families, Figure2
<1> QED
  BY <1>1 DEF FamilyLabel, Figure2

\* The words the sampler of same draws.
LEMMA SameDraws ==
    ASSUME NEW task, task.family = Figure2["same"], NEW lo, NEW hi
    PROVE  /\ Positive(task, lo, hi) =
                {Over(Over(w, Len(w) - 1, "m"), Len(w) - 2, w[Len(w)]) :
                    w \in Marked(task.parameter, lo, hi)}
           /\ Negative(task, lo, hi) = Marked(task.parameter, lo, hi)
  BY DEF Positive, Negative, Figure2, Over

\* The words that the sampler of same begins with, letter by letter.
LEMMA MarkedWords ==
    ASSUME NEW k \in Nat, k > 0, NEW lo \in Nat, NEW hi \in Nat, NEW w \in Marked(k, lo, hi)
    PROVE  \E n \in Nat :
                /\ k + 3 <= n /\ Len(w) = n /\ DOMAIN w = 1..n
                /\ \A q \in 1..(k - 1) : w[q] = "m"
                /\ \A q \in k..n : w[q] \in {"a", "b"}
<1>1. PICK n \in Room(lo, hi, k + 3) :
        \E rest \in [1..(n - k + 1) -> {"a", "b"}] : w = Block("m", k - 1) \o rest
  BY DEF Marked
<1>2. PICK rest \in [1..(n - k + 1) -> {"a", "b"}] : w = Block("m", k - 1) \o rest
  BY <1>1
<1>3. n \in Nat /\ k + 3 <= n
  BY RoomIsEnough
<1> DEFINE T == {"a", "b", "m"}
           b == Block("m", k - 1)
<1>4. b \in Seq(T) /\ Len(b) = k - 1 /\ \A q \in 1..(k - 1) : b[q] = "m"
  BY DEF Block
<1>5. rest \in Seq(T) /\ Len(rest) = n - k + 1 /\ \A q \in 1..(n - k + 1) : rest[q] \in {"a", "b"}
  BY <1>3
<1> HIDE DEF T, b
<1>6. /\ b \o rest \in Seq(T) /\ Len(b \o rest) = Len(b) + Len(rest)
      /\ \A q \in 1..Len(b) : (b \o rest)[q] = b[q]
      /\ \A q \in (Len(b) + 1)..(Len(b) + Len(rest)) : (b \o rest)[q] = rest[q - Len(b)]
  BY <1>4, <1>5, Joined
<1>7. w = b \o rest
  BY <1>2 DEF b
<1>8. Len(w) = n /\ DOMAIN w = 1..n
  <2>1. w \in Seq(T) /\ Len(w) = (k - 1) + (n - k + 1)
    BY <1>4, <1>5, <1>6, <1>7
  <2>2. Len(w) = n
    BY <1>3, <2>1
  <2> QED
    BY <2>1, <2>2
<1>9. \A q \in k..n : q \in (Len(b) + 1)..(Len(b) + Len(rest)) /\ q - Len(b) \in 1..(n - k + 1)
  BY <1>3, <1>4, <1>5
<1>10. \A q \in k..n : w[q] \in {"a", "b"}
  BY <1>5, <1>6, <1>7, <1>9
<1>11. \A q \in 1..(k - 1) : w[q] = "m"
  BY <1>4, <1>6, <1>7
<1> QED
  BY <1>3, <1>8, <1>10, <1>11

\* Fewer than k of the first k - 1 places; with one more place, k.
LEMMA MarkersUpTo ==
    ASSUME NEW k \in Nat, k > 0
    PROVE  /\ IsFiniteSet(1..(k - 1)) /\ Cardinality(1..(k - 1)) = k - 1
           /\ \A S \in SUBSET (1..(k - 1)) : Cardinality(S) \in Nat /\ Cardinality(S) < k
           /\ \A p : p \notin 1..(k - 1) => Cardinality((1..(k - 1)) \cup {p}) = k
<1>1. 1 \in Int /\ k - 1 \in Int /\ (IF 1 > k - 1 THEN 0 ELSE k - 1 - 1 + 1) = k - 1
  OBVIOUS
<1>2. IsFiniteSet(1..(k - 1)) /\ Cardinality(1..(k - 1)) = k - 1
  BY <1>1, FS_Interval
<1>3. \A S \in SUBSET (1..(k - 1)) : IsFiniteSet(S) /\ Cardinality(S) <= k - 1
  BY <1>2, FS_Subset
<1>4. \A S \in SUBSET (1..(k - 1)) : Cardinality(S) \in Nat
  BY <1>3, FS_CardinalityType
<1>5. \A p : p \notin 1..(k - 1) => Cardinality((1..(k - 1)) \cup {p}) = k - 1 + 1
  BY <1>2, FS_AddElement
<1> QED
  BY <1>2, <1>3, <1>4, <1>5

\* Positives of same are in the language, negatives are not.
LEMMA SameWords ==
    ASSUME NEW task, Resolved(task), task.family = Figure2["same"], NEW lo \in Nat, NEW hi \in Nat
    PROVE  /\ \A w \in Positive(task, lo, hi) : Label(task, w) = TRUE
           /\ \A w \in Negative(task, lo, hi) : Label(task, w) = FALSE
<1> DEFINE k == task.parameter
<1>1. k \in Nat /\ k > 0
  BY DEF Resolved, Range, Figure2
<1> HIDE DEF k
<1>2. ASSUME NEW v \in Positive(task, lo, hi)
      PROVE  Label(task, v) = TRUE
  <2>1. PICK w \in Marked(k, lo, hi) : v = Over(Over(w, Len(w) - 1, "m"), Len(w) - 2, w[Len(w)])
    BY SameDraws DEF k
  <2>2. PICK n \in Nat :
            /\ k + 3 <= n /\ Len(w) = n /\ DOMAIN w = 1..n
            /\ \A q \in 1..(k - 1) : w[q] = "m"
            /\ \A q \in k..n : w[q] \in {"a", "b"}
    BY <1>1, MarkedWords
  <2> DEFINE last == n - 1
             prior == n - 2
             u == Over(w, last, "m")
  <2>3. /\ last \in 1..n /\ prior \in 1..n /\ n \in 1..n
        /\ last # n /\ prior # n /\ last # prior /\ last - 1 = prior
        /\ last > 1 /\ last < n /\ last \notin 1..(k - 1)
        /\ last <= last
        /\ \A q \in 1..(k - 1) : q \in 1..n /\ q # last /\ q # prior /\ q <= last
        /\ \A q \in 1..n : q < n => q <= last
        /\ \A q \in 1..n : q \in 1..(k - 1) \/ q \in k..n
    BY <1>1, <2>2
  <2>4. v = Over(u, prior, w[n])
    BY <2>1, <2>2
  <2> HIDE DEF last, prior, u
  <2>5. DOMAIN u = 1..n /\ u[last] = "m" /\ \A q \in 1..n : q # last => u[q] = w[q]
    BY <2>2, <2>3, Overwritten DEF u
  <2>6. /\ DOMAIN v = 1..n /\ Len(v) = n /\ v[prior] = w[n]
        /\ \A q \in 1..n : q # prior => v[q] = u[q]
    BY <2>3, <2>4, <2>5, Overwritten
  <2>7. w[n] \in {"a", "b"} /\ v[n] = w[n] /\ v[last] = "m"
    BY <1>1, <2>2, <2>3, <2>5, <2>6
  <2>8. Occurrences(v, "m") = (1..(k - 1)) \cup {last}
    <3>1. \A q \in 1..n : v[q] = "m" <=> q \in 1..(k - 1) \/ q = last
      BY <2>2, <2>3, <2>5, <2>6, <2>7
    <3> QED
      BY <2>3, <2>6, <3>1 DEF Occurrences
  <2>9. {q \in Occurrences(v, "m") : q <= last} = (1..(k - 1)) \cup {last}
    BY <2>3, <2>8
  <2>10. Cardinality({q \in Occurrences(v, "m") : q <= last}) = k
    BY <1>1, <2>3, <2>9, MarkersUpTo
  <2>11. last \in Qualifying(k, v) /\ \A q \in Qualifying(k, v) : q \in 1..n /\ q <= last
    <3>1. last \in Qualifying(k, v)
      BY <1>1, <2>3, <2>6, <2>8, <2>10 DEF Qualifying
    <3> QED
      BY <2>3, <2>6, <3>1 DEF Qualifying, Occurrences
  <2>12. Max(Qualifying(k, v)) = last
    <3>1. \E x \in Qualifying(k, v) : \A y \in Qualifying(k, v) : x >= y
      BY <2>3, <2>11
    <3>2. /\ Max(Qualifying(k, v)) \in Qualifying(k, v)
          /\ \A y \in Qualifying(k, v) : Max(Qualifying(k, v)) >= y
      BY <3>1, Zenon DEF Max
    <3>3. \A m \in 1..n : m <= last /\ m >= last => m = last
      BY <2>3
    <3> QED
      BY <2>11, <3>2, <3>3
  <2>13. SameLabel(k, v) = TRUE
    BY <2>3, <2>6, <2>7, <2>11, <2>12 DEF SameLabel
  <2> QED
    BY <2>13, SameLabels DEF k
<1>3. ASSUME NEW v \in Negative(task, lo, hi)
      PROVE  Label(task, v) = FALSE
  <2>1. v \in Marked(k, lo, hi)
    BY SameDraws DEF k
  <2>2. PICK n \in Nat :
            /\ k + 3 <= n /\ Len(v) = n /\ DOMAIN v = 1..n
            /\ \A q \in 1..(k - 1) : v[q] = "m"
            /\ \A q \in k..n : v[q] \in {"a", "b"}
    BY <1>1, <2>1, MarkedWords
  <2>3. Occurrences(v, "m") \subseteq 1..(k - 1)
    BY <1>1, <2>2 DEF Occurrences
  <2>4. Qualifying(k, v) = {}
    <3>1. ASSUME NEW p
          PROVE  ~(Cardinality({q \in Occurrences(v, "m") : q <= p}) >= k)
      <4>1. {q \in Occurrences(v, "m") : q <= p} \in SUBSET (1..(k - 1))
        BY <2>3
      <4> QED
        BY <1>1, <4>1, MarkersUpTo
    <3> QED
      BY <3>1 DEF Qualifying
  <2>5. SameLabel(k, v) = FALSE
    BY <2>4 DEF SameLabel
  <2> QED
    BY <2>5, SameLabels DEF k
<1> QED
  BY <1>2, <1>3

-----------------------------------------------------------------------------
\* The constructions of tomita_1, tomita_2, tomita_4 and tomita_7.

\* They are labelled by the predicate of their name.
LEMMA TomitaLabel ==
    ASSUME NEW task, task.family \in Mutated, NEW w
    PROVE  Label(task, w) = StaticLabel(task.family, w)
  BY DEF Label, Mutated, Tomita, ToSet

\* A block of ones has no zero.
LEMMA Tomita1Words ==
    ASSUME NEW task, task.family = "tomita_1", NEW n \in Nat, NEW w \in MakePositive("tomita_1", n)
    PROVE  Label(task, w) = TRUE
<1>1. w = Block("1", n)
  BY DEF MakePositive
<1>2. Occurrences(w, "0") = {}
  BY <1>1 DEF Occurrences, Block
<1>3. (Cardinality(Occurrences(w, "0")) = 0) = TRUE
  BY <1>2, FS_EmptySet
<1>4. Label(task, w) = StaticLabel("tomita_1", w)
  BY TomitaLabel DEF Mutated
<1>5. StaticLabel("tomita_1", w) = (Cardinality(Occurrences(w, "0")) = 0)
  BY DEF StaticLabel
<1> QED
  BY <1>3, <1>4, <1>5

\* (10)^k is one of the words tomita_2 lists, up to k = 63.
LEMMA Tomita2Words ==
    ASSUME NEW task, task.family = "tomita_2", NEW n \in 0..127, NEW w \in MakePositive("tomita_2", n)
    PROVE  Label(task, w) = TRUE
<1> DEFINE Alternating(k) == [p \in 1..(2 * k) |-> IF p % 2 = 1 THEN "1" ELSE "0"]
           half == Max({1, n \div 2})
<1>1. w = Alternating(half)
  BY DEF MakePositive
<1>2. half \in 1..63
  <2>1. n \div 2 \in 0..63
    OBVIOUS
  <2>2. 1 <= half /\ half \in Nat /\ half \in {1, n \div 2}
    <3>1. 1 \in Nat /\ n \div 2 \in Nat
      BY <2>1
    <3>2. half \in Nat /\ 1 <= half
      BY <3>1, MaxOfTwo
    <3>3. \E x \in {1, n \div 2} : \A y \in {1, n \div 2} : x >= y
      BY <2>1
    <3>4. half \in {1, n \div 2}
      BY <3>3, Zenon DEF Max
    <3> QED
      BY <3>2, <3>4
  <2> HIDE DEF half
  <2> QED
    BY <2>1, <2>2
<1>3. Label(task, w) = StaticLabel("tomita_2", w)
  BY TomitaLabel DEF Mutated
<1>5. StaticLabel("tomita_2", w) = (\E k \in 1..63 : w = Alternating(k))
  BY DEF StaticLabel
<1> HIDE DEF Alternating, half
<1>4. (\E k \in 1..63 : w = Alternating(k)) = TRUE
  BY <1>1, <1>2
<1> QED
  BY <1>3, <1>4, <1>5

\* The words of a^c b^(d - c) a^(e - d) b^(n - e), letter by letter.
LEMMA FourBlockLetters ==
    ASSUME NEW n \in Nat, NEW w \in FourBlocks(n)
    PROVE  \E c, d, e \in 0..n :
                /\ c <= d /\ d <= e /\ Len(w) = n
                /\ \A q \in 1..n : w[q] = IF q <= c \/ (d < q /\ q <= e) THEN "0" ELSE "1"
<1>1. PICK cut \in [1..3 -> 0..n] :
        /\ cut[1] <= cut[2] /\ cut[2] <= cut[3]
        /\ w = Block("0", cut[1]) \o Block("1", cut[2] - cut[1]) \o Block("0", cut[3] - cut[2])
                    \o Block("1", n - cut[3])
  BY DEF FourBlocks
<1>2. PICK c, d, e \in 0..n : c = cut[1] /\ d = cut[2] /\ e = cut[3]
  BY <1>1
<1>3. PICK l, m, o \in Nat :
        /\ l = d - c /\ d = c + l
        /\ m = e - d /\ e = d + m
        /\ o = n - e /\ n = e + o
  <2>1. c <= d /\ d <= e /\ e <= n
    BY <1>1, <1>2
  <2>2. d - c \in Nat /\ e - d \in Nat /\ n - e \in Nat
    BY <2>1
  <2>3. d = c + (d - c) /\ e = d + (e - d) /\ n = e + (n - e)
    OBVIOUS
  <2> QED
    BY <2>2, <2>3
<1> DEFINE T == {"0", "1"}
           z1 == Block("0", c)
           o1 == Block("1", l)
           z2 == Block("0", m)
           o2 == Block("1", o)
<1>4. w = ((z1 \o o1) \o z2) \o o2
  BY <1>1, <1>2, <1>3
<1>5. \A k \in Nat, x \in T :
        Block(x, k) \in Seq(T) /\ Len(Block(x, k)) = k /\ \A q \in 1..k : Block(x, k)[q] = x
  BY DEF Block
<1>6. c \in Nat /\ d \in Nat /\ e \in Nat /\ c <= d /\ d <= e
  BY <1>3
<1>7. /\ z1 \in Seq(T) /\ Len(z1) = c /\ \A q \in 1..c : z1[q] = "0"
      /\ o1 \in Seq(T) /\ Len(o1) = l /\ \A q \in 1..l : o1[q] = "1"
      /\ z2 \in Seq(T) /\ Len(z2) = m /\ \A q \in 1..m : z2[q] = "0"
      /\ o2 \in Seq(T) /\ Len(o2) = o /\ \A q \in 1..o : o2[q] = "1"
  <2>1. "0" \in T /\ "1" \in T
    OBVIOUS
  <2> HIDE DEF T
  <2> QED
    BY <1>5, <1>6, <2>1
<1> HIDE DEF T, z1, o1, z2, o2
<1> DEFINE a == z1 \o o1
           b == a \o z2
<1>8. /\ a \in Seq(T) /\ Len(a) = d
      /\ \A q \in 1..d : a[q] = IF q <= c THEN "0" ELSE "1"
  <2>1. a \in Seq(T) /\ IsJoin(a, z1, c, o1, l)
    BY <1>7, JoinedAt
  <2> HIDE DEF a
  <2> QED
    BY <1>3, <1>7, <2>1 DEF IsJoin
<1>9. /\ b \in Seq(T) /\ Len(b) = e
      /\ \A q \in 1..e : b[q] = IF q <= c \/ d < q THEN "0" ELSE "1"
  <2> HIDE DEF a
  <2>1. b \in Seq(T) /\ IsJoin(b, a, d, z2, m)
    BY <1>7, <1>8, JoinedAt
  <2> HIDE DEF b
  <2>2. Len(b) = e
    BY <1>3, <2>1 DEF IsJoin
  <2>3. ASSUME NEW q \in 1..e
        PROVE  b[q] = IF q <= c \/ d < q THEN "0" ELSE "1"
    <3>1. q \in 1..(d + m) /\ q \in Int
      BY <1>3, <1>6
    <3>2. \/ q <= d /\ q \in 1..d /\ b[q] = a[q]
          \/ ~(q <= d) /\ q - d \in 1..m /\ b[q] = z2[q - d]
      BY <2>1, <3>1 DEF IsJoin
    <3>3. CASE q <= d
      <4>1. b[q] = IF q <= c THEN "0" ELSE "1"
        BY <1>8, <3>2, <3>3
      <4> QED
        BY <1>6, <3>1, <3>3, <4>1
    <3>4. CASE ~(q <= d)
      <4>1. b[q] = "0"
        BY <1>7, <3>2, <3>4
      <4> QED
        BY <1>6, <3>1, <3>4, <4>1
    <3> QED
      BY <3>3, <3>4
  <2> QED
    BY <2>1, <2>2, <2>3
<1>10. /\ Len(w) = n
       /\ \A q \in 1..n : w[q] = IF q <= c \/ (d < q /\ q <= e) THEN "0" ELSE "1"
  <2>1. w = b \o o2
    BY <1>4 DEF a, b
  <2> HIDE DEF b
  <2>2. IsJoin(w, b, e, o2, o)
    BY <1>7, <1>9, <2>1, JoinedAt
  <2>3. Len(w) = n
    BY <1>3, <2>2 DEF IsJoin
  <2>4. ASSUME NEW q \in 1..n
        PROVE  w[q] = IF q <= c \/ (d < q /\ q <= e) THEN "0" ELSE "1"
    <3>1. q \in 1..(e + o) /\ q \in Int
      BY <1>3, <1>6
    <3>2. \/ q <= e /\ q \in 1..e /\ w[q] = b[q]
          \/ ~(q <= e) /\ q - e \in 1..o /\ w[q] = o2[q - e]
      BY <2>2, <3>1 DEF IsJoin
    <3>3. CASE q <= e
      <4>1. w[q] = IF q <= c \/ d < q THEN "0" ELSE "1"
        BY <1>9, <3>2, <3>3
      <4> QED
        BY <3>3, <4>1
    <3>4. CASE ~(q <= e)
      <4>1. w[q] = "1"
        BY <1>7, <3>2, <3>4
      <4> QED
        BY <1>6, <3>1, <3>4, <4>1
    <3> QED
      BY <3>3, <3>4
  <2> QED
    BY <2>3, <2>4
<1> QED
  BY <1>6, <1>10

\* Where a pattern of two letters stands, the word has them.
LEMMA PlacesOfTwo ==
    ASSUME NEW n \in Nat, NEW w, Len(w) = n, NEW x, NEW y, NEW p \in Places(w, <<x, y>>)
    PROVE  p \in 0..(n - 2) /\ w[p + 1] = x /\ w[p + 2] = y
<1>1. Len(<<x, y>>) = 2 /\ <<x, y>>[1] = x /\ <<x, y>>[2] = y
  OBVIOUS
<1>2. p \in 0..(n - 2) /\ SubSeq(w, p + 1, p + 2) = <<x, y>>
  BY <1>1 DEF Places
<1>3. /\ SubSeq(w, p + 1, p + 2) = [i \in 1..((p + 2) - (p + 1) + 1) |-> w[p + 1 + i - 1]]
      /\ (p + 2) - (p + 1) + 1 = 2
  BY <1>2
<1>4. /\ SubSeq(w, p + 1, p + 2)[1] = w[p + 1 + 1 - 1] /\ p + 1 + 1 - 1 = p + 1
      /\ SubSeq(w, p + 1, p + 2)[2] = w[p + 1 + 2 - 1] /\ p + 1 + 2 - 1 = p + 2
  BY <1>2, <1>3
<1> QED
  BY <1>1, <1>2, <1>4

\* 0*1*0*1* has one place for 10 at most.
LEMMA Tomita7Words ==
    ASSUME NEW task, task.family = "tomita_7", NEW n \in Nat, NEW w \in MakePositive("tomita_7", n)
    PROVE  Label(task, w) = TRUE
<1>1. w \in FourBlocks(n)
  BY DEF MakePositive
<1>2. PICK c, d, e \in 0..n :
        /\ c <= d /\ d <= e /\ Len(w) = n
        /\ \A q \in 1..n : w[q] = IF q <= c \/ (d < q /\ q <= e) THEN "0" ELSE "1"
  BY <1>1, FourBlockLetters
<1>3. Places(w, <<"1", "0">>) \subseteq {d - 1}
  <2> SUFFICES ASSUME NEW p \in Places(w, <<"1", "0">>)
               PROVE  p = d - 1
    OBVIOUS
  <2>1. p \in 0..(n - 2) /\ w[p + 1] = "1" /\ w[p + 2] = "0"
    BY <1>2, PlacesOfTwo
  <2>2. p + 1 \in 1..n /\ p + 2 \in 1..n
    BY <2>1
  <2>3. ~(p + 1 <= c \/ (d < p + 1 /\ p + 1 <= e)) /\ (p + 2 <= c \/ (d < p + 2 /\ p + 2 <= e))
    BY <1>2, <2>1, <2>2
  <2> QED
    BY <2>1, <2>3
<1>4. (Cardinality(Places(w, <<"1", "0">>)) <= 1) = TRUE
  <2>1. IsFiniteSet({d - 1}) /\ Cardinality({d - 1}) = 1
    BY FS_Singleton
  <2> QED
    BY <1>3, <2>1, FS_Subset
<1>5. Label(task, w) = StaticLabel("tomita_7", w)
  BY TomitaLabel DEF Mutated
<1>6. StaticLabel("tomita_7", w) = (Cardinality(Places(w, <<"1", "0">>)) <= 1)
  BY DEF StaticLabel
<1> QED
  BY <1>4, <1>5, <1>6

\* Words without three zeros in a row, the empty word or ending in a one.
ThreeZeros(u, p) == u[p] = "0" /\ u[p + 1] = "0" /\ u[p + 2] = "0"
Spaced == {u \in Seq({"0", "1"}) :
                /\ \A p \in 1..(Len(u) - 2) : ~ThreeZeros(u, p)
                /\ Len(u) > 0 => u[Len(u)] = "1"}

Group(z) == Append(Block("0", z), "1")

\* Zeros, then a one.
LEMMA GroupLetters ==
    ASSUME NEW z \in Nat
    PROVE  /\ Group(z) \in Seq({"0", "1"}) /\ Len(Group(z)) = z + 1
           /\ \A q \in 1..z : Group(z)[q] = "0"
           /\ Group(z)[z + 1] = "1"
<1> DEFINE b == Block("0", z)
<1>1. b \in Seq({"0", "1"}) /\ Len(b) = z /\ \A q \in 1..z : b[q] = "0"
  BY DEF Block
<1> HIDE DEF b
<1>2. "1" \in {"0", "1"}
  OBVIOUS
<1>3. /\ Append(b, "1") \in Seq({"0", "1"}) /\ Len(Append(b, "1")) = z + 1
      /\ \A q \in 1..z : Append(b, "1")[q] = b[q]
      /\ Append(b, "1")[z + 1] = "1"
  BY <1>1, <1>2
<1> QED
  BY <1>1, <1>3 DEF b, Group

\* A group of at most two zeros and a one brings no third zero.
LEMMA GroupsStaySpaced ==
    ASSUME NEW u \in Spaced, NEW z \in 0..2
    PROVE  u \o Group(z) \in Spaced /\ Len(u \o Group(z)) = Len(u) + z + 1
<1> DEFINE l == Len(u)
           g == Group(z)
           m == z + 1
           x == u \o g
<1>1. /\ u \in Seq({"0", "1"}) /\ l \in Nat
      /\ \A p \in 1..(l - 2) : ~ThreeZeros(u, p)
      /\ l > 0 => u[l] = "1"
  BY DEF Spaced
<1>2. g \in Seq({"0", "1"}) /\ Len(g) = m /\ g[m] = "1" /\ m \in 1..3
  BY GroupLetters
<1>3. x \in Seq({"0", "1"}) /\ IsJoin(x, u, l, g, m)
  BY <1>1, <1>2, JoinedAt
<1> HIDE DEF x, g, l
<1>4. Len(x) = l + m /\ x[l + m] = "1"
  <2>1. l + m \in 1..(l + m) /\ ~(l + m <= l) /\ (l + m) - l = m
    BY <1>1, <1>2
  <2> QED
    BY <1>2, <1>3, <2>1 DEF IsJoin
<1>5. l > 0 => x[l] = "1"
  <2>1. l > 0 => l \in 1..(l + m) /\ l <= l
    BY <1>1, <1>2
  <2> QED
    BY <1>1, <1>3, <2>1 DEF IsJoin
<1>6. ASSUME NEW p \in 1..(Len(x) - 2)
      PROVE  ~ThreeZeros(x, p)
  <2>1. p \in Nat /\ p >= 1 /\ p + 2 <= l + m
    BY <1>1, <1>2, <1>4
  <2>2. CASE p + 2 <= l
    <3>1. /\ p \in 1..(l + m) /\ p + 1 \in 1..(l + m) /\ p + 2 \in 1..(l + m)
          /\ p <= l /\ p + 1 <= l /\ p + 2 <= l /\ p \in 1..(l - 2)
      BY <1>1, <1>2, <2>1, <2>2
    <3>2. x[p] = u[p] /\ x[p + 1] = u[p + 1] /\ x[p + 2] = u[p + 2]
      BY <1>3, <3>1 DEF IsJoin
    <3> QED
      BY <1>1, <3>1, <3>2 DEF ThreeZeros
  <2>3. CASE p = l \/ p + 1 = l
    <3>1. l > 0 /\ (x[p] = "1" \/ x[p + 1] = "1")
      BY <1>1, <1>5, <2>1, <2>3
    <3> QED
      BY <3>1 DEF ThreeZeros
  <2>4. CASE p > l
    <3>1. p + 2 = l + m
      BY <1>1, <1>2, <2>1, <2>4
    <3> QED
      BY <1>4, <3>1 DEF ThreeZeros
  <2> QED
    BY <1>1, <2>1, <2>2, <2>3, <2>4
<1>7. x \in Spaced
  BY <1>3, <1>4, <1>6 DEF Spaced
<1> QED
  BY <1>4, <1>7 DEF x, g, l, m

\* Groups put together have no three zeros in a row, and one letter each at least.
LEMMA FlattenedGroups ==
    ASSUME NEW n \in Nat \ {0}, NEW s, Len(s) = n, \A k \in 1..n : \E z \in 0..2 : s[k] = Group(z)
    PROVE  FlattenSeq(s) \in Spaced /\ Len(FlattenSeq(s)) >= n
<1> DEFINE Body(f) == [i \in 1..Len(s) |-> IF i = 1 THEN s[i] ELSE f[i - 1] \o s[i]]
           flatten == CHOOSE f : f = Body(f)
           h == [c \in Spaced \X (1..n) |-> c[1] \o s[c[2]]]
<1>1. \A u \in Spaced, k \in 1..n : Follow(h, u, k) = u \o s[k] /\ u \o s[k] \in Spaced
  <2> SUFFICES ASSUME NEW u \in Spaced, NEW k \in 1..n
               PROVE  Follow(h, u, k) = u \o s[k] /\ u \o s[k] \in Spaced
    OBVIOUS
  <2>1. PICK z \in 0..2 : s[k] = Group(z)
    OBVIOUS
  <2>2. u \o Group(z) \in Spaced
    BY GroupsStaySpaced
  <2>3. <<u, k>> \in Spaced \X (1..n) /\ <<u, k>>[1] = u /\ <<u, k>>[2] = k
    OBVIOUS
  <2>4. h[<<u, k>>] = u \o s[k]
    BY <2>3
  <2> QED
    BY <2>1, <2>2, <2>4 DEF Follow
<1>2. << >> \in Spaced
  BY DEF Spaced
<1>3. IsTable(h, Spaced, 1..n)
  <2> HIDE DEF h
  <2> QED
    BY <1>1 DEF IsTable
<1> HIDE DEF h
<1>4. PICK r \in [0..n -> Spaced] : IsRounds(r, h, << >>, n)
  BY <1>2, <1>3, RoundsExist
<1>5. r[0] = << >> /\ \A k \in 1..n : k - 1 \in 0..n /\ r[k] = r[k - 1] \o s[k]
  <2>1. r[0] = << >> /\ \A k \in 1..n : r[k] = Follow(h, r[k - 1], k)
    BY <1>4 DEF IsRounds
  <2>2. \A k \in 1..n : k - 1 \in 0..n /\ r[k - 1] \in Spaced
    OBVIOUS
  <2> QED
    BY <1>1, <2>1, <2>2
<1> DEFINE g == [i \in 1..n |-> r[i]]
<1>6. g = Body(g)
  <2>1. ASSUME NEW i \in 1..n
        PROVE  g[i] = IF i = 1 THEN s[i] ELSE g[i - 1] \o s[i]
    <3>1. CASE i = 1
      <4>1. PICK z \in 0..2 : s[i] = Group(z)
        OBVIOUS
      <4>2. s[i] \in Seq({"0", "1"})
        BY <4>1, GroupLetters
      <4>3. << >> \o s[i] = s[i]
        BY <4>2
      <4>4. r[i] = r[i - 1] \o s[i]
        BY <1>5
      <4>5. i - 1 = 0 /\ r[i - 1] = << >>
        BY <1>5, <3>1
      <4> QED
        BY <3>1, <4>3, <4>4, <4>5
    <3>2. CASE i # 1
      <4>1. i - 1 \in 1..n
        BY <3>2
      <4> QED
        BY <1>5, <3>2, <4>1
    <3> QED
      BY <3>1, <3>2
  <2> QED
    BY <2>1
<1>7. flatten = Body(flatten)
  <2> HIDE DEF Body, g
  <2> QED
    BY <1>6, Zenon
<1>8. FlattenSeq(s) = flatten[n]
  <2>1. FlattenSeq(s) = IF Len(s) = 0 THEN s ELSE flatten[Len(s)]
    BY Zenon DEF FlattenSeq
  <2> HIDE DEF flatten
  <2> QED
    BY <2>1
<1> HIDE DEF flatten
<1>9. \A i \in 1..n : flatten[i] = IF i = 1 THEN s[i] ELSE flatten[i - 1] \o s[i]
  BY <1>7
<1> HIDE DEF Body
<1> DEFINE Grown == {k \in Nat : k + 1 <= n => flatten[k + 1] = r[k + 1] /\ Len(r[k + 1]) >= k + 1}
<1>10. \A k \in 1..n : Len(r[k]) >= Len(r[k - 1]) + 1 /\ Len(r[k - 1]) \in Nat /\ Len(r[k]) \in Nat
  <2> SUFFICES ASSUME NEW k \in 1..n
               PROVE  Len(r[k]) >= Len(r[k - 1]) + 1 /\ Len(r[k - 1]) \in Nat /\ Len(r[k]) \in Nat
    OBVIOUS
  <2>1. PICK z \in 0..2 : s[k] = Group(z)
    OBVIOUS
  <2>2. r[k - 1] \in Spaced /\ r[k] = r[k - 1] \o Group(z)
    BY <1>5, <2>1
  <2>3. Len(r[k - 1]) \in Nat
    BY <2>2 DEF Spaced
  <2>4. Len(r[k]) = Len(r[k - 1]) + z + 1
    BY <2>2, GroupsStaySpaced
  <2> QED
    BY <2>3, <2>4
<1>11. 0 \in Grown
  <2>1. 1 \in 1..n /\ 1 - 1 = 0 /\ Len(r[0]) = 0
    BY <1>5
  <2>2. flatten[1] = s[1] /\ r[1] = s[1]
    <3>1. g[1] = r[1] /\ g[1] = s[1]
      BY <1>6, <2>1 DEF Body
    <3> QED
      BY <1>9, <2>1, <3>1
  <2>3. Len(r[1]) >= 1
    BY <1>10, <2>1
  <2> QED
    BY <2>2, <2>3
<1>12. ASSUME NEW k \in Nat, k \in Grown
       PROVE  k + 1 \in Grown
  <2> SUFFICES ASSUME (k + 1) + 1 <= n
               PROVE  flatten[(k + 1) + 1] = r[(k + 1) + 1] /\ Len(r[(k + 1) + 1]) >= (k + 1) + 1
    OBVIOUS
  <2>1. /\ (k + 1) + 1 \in 1..n /\ (k + 1) + 1 # 1 /\ ((k + 1) + 1) - 1 = k + 1
        /\ flatten[k + 1] = r[k + 1] /\ Len(r[k + 1]) >= k + 1
    BY <1>12
  <2>2. flatten[(k + 1) + 1] = flatten[k + 1] \o s[(k + 1) + 1]
    BY <1>9, <2>1
  <2>3. r[(k + 1) + 1] = r[k + 1] \o s[(k + 1) + 1]
    BY <1>5, <2>1
  <2>4. flatten[(k + 1) + 1] = r[(k + 1) + 1]
    BY <2>1, <2>2, <2>3
  <2>5. /\ Len(r[(k + 1) + 1]) >= Len(r[k + 1]) + 1
        /\ Len(r[k + 1]) \in Nat /\ Len(r[(k + 1) + 1]) \in Nat
    BY <1>10, <2>1
  <2>6. Len(r[(k + 1) + 1]) >= (k + 1) + 1
    BY <2>1, <2>5
  <2> QED
    BY <2>4, <2>6
<1> HIDE DEF Grown
<1>13. Nat \subseteq Grown
  BY <1>11, <1>12, NumbersFollow
<1>14. n - 1 \in Nat /\ (n - 1) + 1 = n /\ n \in 0..n
  OBVIOUS
<1>15. flatten[n] = r[n] /\ Len(r[n]) >= n
  BY <1>13, <1>14 DEF Grown
<1> QED
  BY <1>4, <1>8, <1>14, <1>15

\* Where a pattern of three equal letters stands, the word has them.
LEMMA PlacesOfThree ==
    ASSUME NEW n \in Nat, NEW w, Len(w) = n, NEW x, NEW p \in Places(w, <<x, x, x>>)
    PROVE  p \in 0..(n - 3) /\ w[p + 1] = x /\ w[p + 2] = x /\ w[p + 3] = x
<1>1. Len(<<x, x, x>>) = 3 /\ <<x, x, x>>[1] = x /\ <<x, x, x>>[2] = x /\ <<x, x, x>>[3] = x
  OBVIOUS
<1>2. p \in 0..(n - 3) /\ SubSeq(w, p + 1, p + 3) = <<x, x, x>>
  BY <1>1 DEF Places
<1>3. /\ SubSeq(w, p + 1, p + 3) = [i \in 1..((p + 3) - (p + 1) + 1) |-> w[p + 1 + i - 1]]
      /\ (p + 3) - (p + 1) + 1 = 3
  BY <1>2
<1>4. /\ SubSeq(w, p + 1, p + 3)[1] = w[p + 1 + 1 - 1] /\ p + 1 + 1 - 1 = p + 1
      /\ SubSeq(w, p + 1, p + 3)[2] = w[p + 1 + 2 - 1] /\ p + 1 + 2 - 1 = p + 2
      /\ SubSeq(w, p + 1, p + 3)[3] = w[p + 1 + 3 - 1] /\ p + 1 + 3 - 1 = p + 3
  BY <1>2, <1>3
<1> QED
  BY <1>1, <1>2, <1>4

\* What NoThreeZeros cuts from such groups has none either.
LEMMA Tomita4Words ==
    ASSUME NEW task, task.family = "tomita_4", NEW n \in Nat, NEW w \in MakePositive("tomita_4", n)
    PROVE  Label(task, w) = TRUE
<1>1. w \in NoThreeZeros(n)
  BY DEF MakePositive
<1>2. PICK zeros \in [1..n -> 0..2] :
        w = SubSeq(FlattenSeq([k \in 1..n |-> Group(zeros[k])]), 1, n)
  BY <1>1 DEF NoThreeZeros, Group
<1> DEFINE s == [k \in 1..n |-> Group(zeros[k])]
           f == FlattenSeq(s)
<1>3. Len(s) = n
  OBVIOUS
<1>4. Places(w, <<"0", "0", "0">>) = {}
  <2>1. CASE n = 0
    <3>1. w = SubSeq(f, 1, 0)
      BY <1>2, <2>1
    <3> HIDE DEF f
    <3>2. Len(w) = 0
      BY <3>1
    <3> QED
      BY <3>2, PlacesOfThree
  <2>2. CASE n # 0
    <3>1. \A k \in 1..n : \E z \in 0..2 : s[k] = Group(z)
      OBVIOUS
    <3> HIDE DEF s
    <3>2. f \in Spaced /\ Len(f) >= n
      BY <1>3, <2>2, <3>1, FlattenedGroups
    <3>3. w = SubSeq(f, 1, n)
      BY <1>2 DEF s
    <3> HIDE DEF f
    <3>4. f \in Seq({"0", "1"}) /\ Len(f) \in Nat /\ \A p \in 1..(Len(f) - 2) : ~ThreeZeros(f, p)
      BY <3>2 DEF Spaced
    <3>5. Len(w) = n /\ \A q \in 1..n : w[q] = f[q]
      BY <3>2, <3>3, <3>4
    <3> SUFFICES ASSUME NEW p \in Places(w, <<"0", "0", "0">>)
                 PROVE  FALSE
      OBVIOUS
    <3>6. p \in 0..(n - 3) /\ w[p + 1] = "0" /\ w[p + 2] = "0" /\ w[p + 3] = "0"
      BY <3>5, PlacesOfThree
    <3>7. /\ p + 1 \in 1..(Len(f) - 2) /\ (p + 1) + 1 = p + 2 /\ (p + 1) + 2 = p + 3
          /\ p + 1 \in 1..n /\ p + 2 \in 1..n /\ p + 3 \in 1..n
      BY <3>2, <3>4, <3>6
    <3>8. ThreeZeros(f, p + 1)
      BY <3>5, <3>6, <3>7 DEF ThreeZeros
    <3> QED
      BY <3>4, <3>7, <3>8
  <2> QED
    BY <2>1, <2>2
<1>5. (~Factor(w, <<"0", "0", "0">>)) = TRUE
  BY <1>4 DEF Factor
<1>6. Label(task, w) = StaticLabel("tomita_4", w)
  BY TomitaLabel DEF Mutated
<1>7. StaticLabel("tomita_4", w) = (~Factor(w, <<"0", "0", "0">>))
  BY DEF StaticLabel
<1> QED
  BY <1>5, <1>6, <1>7

-----------------------------------------------------------------------------
\* What a sampler draws.

Aimed(task, d) == d.intent # "any" => Label(task, d.word) = (d.intent = "positive")

Intent(turn) == IF turn % 2 = 0 THEN "positive" ELSE "negative"

\* Every paired task but lms, which draws again on a wrong label.
LEMMA PairedWords ==
    ASSUME NEW task, Resolved(task), task.family \in Paired, NEW lo \in Nat, NEW hi \in Nat,
           task.family # Figure2["lms"]
    PROVE  /\ \A w \in Positive(task, lo, hi) : Label(task, w) = TRUE
           /\ \A w \in Negative(task, lo, hi) : Label(task, w) = FALSE
<1>1. \/ task.family = Figure2["y"] \/ task.family = Figure2["no2a"] \/ task.family = Figure2["slb"]
      \/ task.family = Figure2["mono_word"] \/ task.family = Figure2["since"]
      \/ task.family = Figure2["marks"] \/ task.family = Figure2["same"]
  BY DEF Paired
<1> QED
  BY <1>1, YWords, No2aWords, SlbWords, MonoWords, SinceWords, MarksWords, SameWords

DotFamilies == {"dot_depth", Figure2["dot"]}

\* No task has two samplers.
LEMMA SamplersAreApart ==
    /\ Paired \cap Mutated = {}
    /\ "equal_blocks" \notin Paired \cup Mutated \cup DotFamilies
    /\ DotFamilies \cap (Paired \cup Mutated) = {}
  BY DEF Paired, Mutated, Figure2, DotFamilies

Unaimed(words) == {[word |-> w, intent |-> "any"] : w \in words}
Constructed(words) == {[word |-> w, intent |-> "positive"] : w \in words}

\* The sampler of a task.
LEMMA Samplers ==
    ASSUME NEW task, NEW turn, NEW lo, NEW hi
    PROVE  LET positives == UNION {MakePositive(task.family, n) : n \in lo..hi}
           IN  /\ task.family \in Paired => Draws(task, turn, lo, hi) = PairedDraws(task, turn, lo, hi)
               /\ task.family \in Mutated =>
                    Draws(task, turn, lo, hi) =
                        Constructed(positives) \cup Unaimed(UNION {Edits(w, task.alphabet) : w \in positives})
               /\ task.family \notin Paired \cup Mutated =>
                    \E words : Draws(task, turn, lo, hi) = Unaimed(words)
<1> DEFINE positives == UNION {MakePositive(task.family, n) : n \in lo..hi}
           edited == UNION {Edits(w, task.alphabet) : w \in positives}
           paired == PairedDraws(task, turn, lo, hi)
           blocks == EqualBlocks(task.alphabet, lo, hi)
           dots == BlockWords(2 * task.parameter + 2, task.alphabet, lo, hi)
           others == SampleWords(task.alphabet, lo, hi)
<1>1. Draws(task, turn, lo, hi) =
        CASE task.family \in Paired -> paired
          [] task.family \in Mutated -> Constructed(positives) \cup Unaimed(edited)
          [] task.family = "equal_blocks" -> Unaimed(blocks)
          [] task.family \in DotFamilies -> Unaimed(dots)
          [] OTHER -> Unaimed(others)
  BY Zenon DEF Draws, Constructed, Unaimed, DotFamilies
<1> HIDE DEF paired, positives, edited, blocks, dots, others
<1>2. task.family \in Paired => Draws(task, turn, lo, hi) = paired
  BY <1>1, SamplersAreApart
<1>3. task.family \in Mutated => Draws(task, turn, lo, hi) = Constructed(positives) \cup Unaimed(edited)
  BY <1>1, SamplersAreApart
<1>4. task.family \notin Paired \cup Mutated =>
        \/ Draws(task, turn, lo, hi) = Unaimed(blocks)
        \/ Draws(task, turn, lo, hi) = Unaimed(dots)
        \/ Draws(task, turn, lo, hi) = Unaimed(others)
  BY <1>1, SamplersAreApart
<1> QED
  BY <1>2, <1>3, <1>4, Zenon DEF paired, positives, edited

\* Even draws of a paired task are in the language, odd ones are not.
LEMMA PairedDrawsAreAimed ==
    ASSUME NEW task, Resolved(task), task.family \in Paired, NEW lo \in Nat, NEW hi \in Nat,
           NEW turn \in Nat, NEW d \in Draws(task, turn, lo, hi)
    PROVE  d.intent = Intent(turn) /\ Label(task, d.word) = (turn % 2 = 0)
<1> DEFINE words == IF Intent(turn) = "positive" THEN Positive(task, lo, hi) ELSE Negative(task, lo, hi)
           Survives(w) == task.family = Figure2["lms"] => Label(task, w) = (Intent(turn) = "positive")
<1>1. Draws(task, turn, lo, hi) = PairedDraws(task, turn, lo, hi)
  BY Samplers
<1>2. PairedDraws(task, turn, lo, hi) =
        {[word |-> w, intent |-> Intent(turn)] : w \in {v \in words : Survives(v)}}
  BY Zenon DEF PairedDraws, Intent
<1>3. (Intent(turn) = "positive") = (turn % 2 = 0)
  BY DEF Intent
<1> HIDE DEF words, Survives
<1>4. PICK w \in words : Survives(w) /\ d = [word |-> w, intent |-> Intent(turn)]
  BY <1>1, <1>2
<1>5. d.word = w /\ d.intent = Intent(turn)
  BY <1>4
<1>6. CASE task.family = Figure2["lms"]
  BY <1>3, <1>4, <1>5, <1>6 DEF Survives
<1>7. CASE task.family # Figure2["lms"]
  <2>1. CASE turn % 2 = 0
    <3>1. w \in Positive(task, lo, hi)
      BY <1>3, <1>4, <2>1 DEF words
    <3>2. Label(task, w) = TRUE
      BY <1>7, <3>1, PairedWords
    <3> QED
      BY <1>5, <2>1, <3>2
  <2>2. CASE turn % 2 # 0
    <3>1. w \in Negative(task, lo, hi)
      BY <1>3, <1>4, <2>2 DEF words
    <3>2. Label(task, w) = FALSE
      BY <1>7, <3>1, PairedWords
    <3> QED
      BY <1>5, <2>2, <3>2
  <2> QED
    BY <2>1, <2>2
<1> QED
  BY <1>6, <1>7

\* What make_positive builds is in the language.
LEMMA ConstructedWords ==
    ASSUME NEW task, task.family \in Mutated, NEW n \in Nat, task.family = "tomita_2" => n <= 127,
           NEW w \in MakePositive(task.family, n)
    PROVE  Label(task, w) = TRUE
<1>1. \/ task.family = "tomita_1" \/ task.family = "tomita_2"
      \/ task.family = "tomita_4" \/ task.family = "tomita_7"
  BY DEF Mutated
<1>2. task.family = "tomita_2" => n \in 0..127
  OBVIOUS
<1> QED
  BY <1>1, <1>2, Tomita1Words, Tomita2Words, Tomita4Words, Tomita7Words

\* What a draw was meant to be is what its label says.
LEMMA DrawsAreAimed ==
    ASSUME NEW task, Resolved(task), NEW lo \in Nat, NEW hi \in Nat,
           task.family = "tomita_2" => hi <= 127,
           NEW turn \in Nat, NEW d \in Draws(task, turn, lo, hi)
    PROVE  Aimed(task, d)
<1> DEFINE positives == UNION {MakePositive(task.family, n) : n \in lo..hi}
           edited == UNION {Edits(w, task.alphabet) : w \in positives}
<1>1. CASE task.family \in Paired
  <2>1. d.intent = Intent(turn) /\ Label(task, d.word) = (turn % 2 = 0)
    BY <1>1, PairedDrawsAreAimed
  <2> QED
    BY <2>1 DEF Aimed, Intent
<1>2. CASE task.family \in Mutated
  <2>1. Draws(task, turn, lo, hi) = Constructed(positives) \cup Unaimed(edited)
    BY <1>2, Samplers, Zenon
  <2> HIDE DEF edited, positives
  <2>2. \/ d.intent = "any"
        \/ \E w \in positives : d = [word |-> w, intent |-> "positive"]
    BY <2>1 DEF Constructed, Unaimed
  <2>3. CASE \E w \in positives : d = [word |-> w, intent |-> "positive"]
    <3>1. d.word \in positives /\ d.intent = "positive"
      BY <2>3
    <3>2. PICK n \in lo..hi : d.word \in MakePositive(task.family, n)
      BY <3>1 DEF positives
    <3>3. n \in Nat /\ (task.family = "tomita_2" => n <= 127)
      OBVIOUS
    <3>4. Label(task, d.word) = TRUE
      BY <1>2, <3>2, <3>3, ConstructedWords
    <3> QED
      BY <3>1, <3>4 DEF Aimed
  <2> QED
    BY <2>2, <2>3 DEF Aimed
<1>3. CASE task.family \notin Paired \cup Mutated
  <2>1. \E words : Draws(task, turn, lo, hi) = Unaimed(words)
    BY <1>3, Samplers, Zenon
  <2> QED
    BY <2>1 DEF Aimed, Unaimed
<1> QED
  BY <1>1, <1>2, <1>3

-----------------------------------------------------------------------------
\* The loop.

IsList(s) == s \in Seq(ToSet(s))

\* What a bucket that holds at most so many words keeps of n.
AtMost(most, n) == IF n < most THEN n ELSE most

\* In a paired task the two buckets fill in turn, and at the last word they
\* are full.
BucketsFillInTurn ==
    call.task.family \in Paired =>
        /\ attempt = 1
        /\ Len(buckets[TRUE]) = AtMost(Wanted, (index + 1) \div 2)
        /\ Len(buckets[FALSE]) = AtMost(Wanted, index \div 2)

DataShape ==
    /\ call \in Calls
    /\ set \in Nat \ {0} /\ attempt \in Nat \ {0}
    /\ index \in 0..call.count
    /\ DOMAIN buckets = BOOLEAN
    /\ \A label \in BOOLEAN : IsList(buckets[label])
    /\ IsList(sets)

DataInv == DataShape /\ ConstructedForItsLabel /\ BucketsFillInTurn /\ PairedSetsAreBalanced

\* A list with one more element.
LEMMA Appended ==
    ASSUME NEW s, IsList(s), NEW x
    PROVE  /\ IsList(Append(s, x)) /\ Len(s) \in Nat /\ Len(Append(s, x)) = Len(s) + 1
           /\ DOMAIN Append(s, x) = 1..(Len(s) + 1) /\ DOMAIN s = 1..Len(s)
           /\ \A k \in 1..Len(s) : Append(s, x)[k] = s[k]
           /\ Append(s, x)[Len(s) + 1] = x
<1> DEFINE T == ToSet(s) \cup {x}
           a == Append(s, x)
<1>1. s \in Seq(T) /\ x \in T
  <2>1. s \in Seq(ToSet(s)) /\ ToSet(s) \subseteq T
    BY DEF IsList
  <2> HIDE DEF T
  <2>2. s \in Seq(T)
    BY <2>1
  <2> QED
    BY <2>2 DEF T
<1> HIDE DEF T
<1>2. /\ a \in Seq(T) /\ Len(s) \in Nat /\ Len(a) = Len(s) + 1
      /\ DOMAIN a = 1..(Len(s) + 1) /\ DOMAIN s = 1..Len(s)
      /\ \A k \in 1..Len(s) : a[k] = s[k]
      /\ a[Len(s) + 1] = x
  BY <1>1
<1> HIDE DEF a
<1>3. IsList(a)
  <2>1. \A k \in 1..Len(a) : a[k] \in ToSet(a)
    BY <1>2 DEF ToSet
  <2> QED
    BY <1>2, <2>1 DEF IsList
<1> QED
  BY <1>2, <1>3 DEF a

\* What a call asks for.
LEMMA CallTypes ==
    ASSUME DataShape, Drawing
    PROVE  /\ Resolved(call.task) /\ call.count \in Nat /\ Wanted \in Nat
           /\ Bounds[1] \in Nat /\ Bounds[2] \in Nat
           /\ call.task.family = "tomita_2" => Bounds[2] <= 127
<1>1. IsCall(call) /\ set \in Nat \ {0}
  BY CallsAssumption DEF DataShape
<1>2. /\ Resolved(call.task) /\ call.count \in Nat /\ call.ranges \in Seq(Nat \X Nat)
      /\ call.task.family = "tomita_2" => \A k \in DOMAIN call.ranges : call.ranges[k][2] <= 127
  BY <1>1 DEF IsCall
<1>3. set \in DOMAIN call.ranges /\ Bounds \in Nat \X Nat
  BY <1>1, <1>2 DEF Drawing, Bounds
<1>4. Wanted \in Nat
  BY <1>2 DEF Wanted
<1> QED
  BY <1>2, <1>3, <1>4 DEF Bounds

\* The list that each bucket begins as.
LEMMA EmptyList ==
    IsList(<< >>) /\ Len(<< >>) = 0 /\ DOMAIN << >> = {}
  BY DEF IsList

\* The invariant holds in the beginning.
LEMMA DataInitially ==
    DataInit => DataInv
<1> SUFFICES ASSUME DataInit
             PROVE  DataInv
  OBVIOUS
<1>1. IsCall(call) /\ call \in Calls
  BY CallsAssumption DEF DataInit
<1>2. call.count \in Nat /\ Wanted \in Nat
  BY <1>1 DEF IsCall, Wanted
<1>3. index = 0 /\ attempt = 1 /\ \A label \in BOOLEAN : buckets[label] = << >>
  BY DEF DataInit, NoBuckets
<1>4. DataShape
  BY <1>1, <1>2, <1>3, EmptyList DEF DataInit, DataShape, NoBuckets
<1>5. BucketsFillInTurn
  <2>1. Len(buckets[TRUE]) = 0 /\ Len(buckets[FALSE]) = 0
    BY <1>3, EmptyList
  <2>2. (0 + 1) \div 2 = 0 /\ 0 \div 2 = 0 /\ AtMost(Wanted, 0) = 0
    BY <1>2 DEF AtMost
  <2> QED
    BY <1>3, <2>1, <2>2 DEF BucketsFillInTurn
<1>6. ConstructedForItsLabel /\ PairedSetsAreBalanced
  BY EmptyList DEF DataInit, Nothing, ConstructedForItsLabel, PairedSetsAreBalanced
<1> QED
  BY <1>4, <1>5, <1>6 DEF DataInv

\* A word drawn: its label is the intended one, and it is its bucket's turn.
LEMMA OneWord ==
    ASSUME DataInv, DrawWord
    PROVE  DataInv'
<1> DEFINE task == call.task
           word == drawn'.word
           label == drawn'.label
<1>1. /\ Drawing /\ index < call.count /\ index' = index + 1
      /\ call' = call /\ set' = set /\ attempt' = attempt /\ sets' = sets /\ failed' = failed
  BY DEF DrawWord
<1>2. DataShape
  BY DEF DataInv
<1>3. /\ Resolved(task) /\ call.count \in Nat /\ Wanted \in Nat
      /\ Bounds[1] \in Nat /\ Bounds[2] \in Nat
      /\ task.family = "tomita_2" => Bounds[2] <= 127
  BY <1>1, <1>2, CallTypes
<1>4. index \in Nat
  BY <1>2, <1>3 DEF DataShape
<1>5. PICK d \in Draws(task, index, Bounds[1], Bounds[2]) :
        /\ drawn' = [word |-> d.word, intent |-> d.intent, label |-> Label(task, d.word)]
        /\ buckets' = IF Len(buckets[Label(task, d.word)]) < Wanted
                      THEN [buckets EXCEPT ![Label(task, d.word)] =
                                Append(buckets[Label(task, d.word)], d.word)]
                      ELSE buckets
  BY DEF DrawWord
<1>6. /\ word = d.word /\ drawn'.intent = d.intent /\ label = Label(task, d.word)
      /\ buckets' = IF Len(buckets[label]) < Wanted
                    THEN [buckets EXCEPT ![label] = Append(buckets[label], d.word)]
                    ELSE buckets
  BY <1>5
<1>7. ConstructedForItsLabel'
  <2>1. Aimed(task, d)
    BY <1>3, <1>4, DrawsAreAimed
  <2> QED
    BY <1>1, <1>6, <2>1 DEF Aimed, ConstructedForItsLabel
<1> HIDE DEF label
<1>8. /\ DOMAIN buckets' = BOOLEAN
      /\ \A b \in BOOLEAN : buckets'[b] = IF b = label /\ Len(buckets[b]) < Wanted
                                          THEN Append(buckets[b], d.word) ELSE buckets[b]
  BY <1>2, <1>6 DEF DataShape
<1>9. DataShape'
  <2>1. ASSUME NEW b \in BOOLEAN
        PROVE  IsList(buckets'[b])
    <3>1. IsList(buckets[b])
      BY <1>2 DEF DataShape
    <3>2. IsList(Append(buckets[b], d.word))
      BY <3>1, Appended
    <3> QED
      BY <1>8, <3>1, <3>2
  <2>2. index' \in 0..call'.count
    BY <1>1, <1>3, <1>4
  <2> QED
    BY <1>1, <1>2, <1>8, <2>1, <2>2 DEF DataShape
<1>10. BucketsFillInTurn'
  <2> SUFFICES ASSUME task.family \in Paired
               PROVE  /\ attempt = 1
                      /\ Len(buckets'[TRUE]) = AtMost(Wanted, (index' + 1) \div 2)
                      /\ Len(buckets'[FALSE]) = AtMost(Wanted, index' \div 2)
    <3>1. Wanted' = Wanted
      BY <1>1 DEF Wanted
    <3> QED
      BY <1>1, <3>1 DEF BucketsFillInTurn
  <2>1. /\ attempt = 1
        /\ Len(buckets[TRUE]) = AtMost(Wanted, (index + 1) \div 2)
        /\ Len(buckets[FALSE]) = AtMost(Wanted, index \div 2)
    BY DEF DataInv, BucketsFillInTurn
  <2>2. label = (index % 2 = 0)
    BY <1>3, <1>4, <1>6, PairedDrawsAreAimed
  <2>3. \A b \in BOOLEAN : Len(Append(buckets[b], d.word)) = Len(buckets[b]) + 1
    BY <1>2, Appended DEF DataShape
  <2> DEFINE j == index \div 2
  <2>5. CASE index % 2 = 0
    <3>1. label = TRUE
      BY <2>2, <2>5
    <3>2. j \in Nat /\ (index + 1) \div 2 = j /\ (index' + 1) \div 2 = j + 1 /\ index' \div 2 = j
      BY <1>1, <1>4, <2>5
    <3>3. /\ Len(buckets'[TRUE]) = IF Len(buckets[TRUE]) < Wanted THEN Len(buckets[TRUE]) + 1
                                   ELSE Len(buckets[TRUE])
          /\ Len(buckets'[FALSE]) = Len(buckets[FALSE])
      BY <1>8, <2>3, <3>1
    <3> HIDE DEF j
    <3>4. index \div 2 = j
      BY DEF j
    <3> DEFINE t == Len(buckets[TRUE])
    <3>5. t = AtMost(Wanted, j) /\ Len(buckets'[TRUE]) = IF t < Wanted THEN t + 1 ELSE t
      BY <2>1, <3>2, <3>3
    <3> HIDE DEF t
    <3>6. Len(buckets'[TRUE]) = AtMost(Wanted, j + 1)
      BY <1>3, <3>2, <3>5 DEF AtMost
    <3> QED
      BY <2>1, <3>2, <3>3, <3>4, <3>6
  <2>6. CASE index % 2 # 0
    <3>1. label = FALSE
      BY <2>2, <2>6
    <3>2. j \in Nat /\ (index + 1) \div 2 = j + 1 /\ (index' + 1) \div 2 = j + 1 /\ index' \div 2 = j + 1
      BY <1>1, <1>4, <2>6
    <3>3. /\ Len(buckets'[FALSE]) = IF Len(buckets[FALSE]) < Wanted THEN Len(buckets[FALSE]) + 1
                                    ELSE Len(buckets[FALSE])
          /\ Len(buckets'[TRUE]) = Len(buckets[TRUE])
      BY <1>8, <2>3, <3>1
    <3>4. index \div 2 = j
      OBVIOUS
    <3> HIDE DEF j
    <3> QED
      BY <1>1, <1>3, <2>1, <3>2, <3>3, <3>4 DEF AtMost
  <2> QED
    BY <2>5, <2>6
<1>11. PairedSetsAreBalanced'
  BY <1>1 DEF DataInv, PairedSetsAreBalanced
<1> QED
  BY <1>7, <1>9, <1>10, <1>11 DEF DataInv

\* At the last word of a paired task both buckets are full.
LEMMA FullAtTheEnd ==
    ASSUME DataInv, Drawing, index = call.count, call.task.family \in Paired
    PROVE  /\ Full /\ attempt = 1
           /\ Len(buckets[TRUE]) = Wanted /\ Len(buckets[FALSE]) = Wanted
<1>1. call.count \in Nat /\ Wanted \in Nat /\ Wanted = call.count \div 2
  BY CallTypes DEF DataInv, Wanted
<1>2. /\ attempt = 1
      /\ Len(buckets[TRUE]) = AtMost(Wanted, (index + 1) \div 2)
      /\ Len(buckets[FALSE]) = AtMost(Wanted, index \div 2)
  BY DEF DataInv, BucketsFillInTurn
<1>3. (index + 1) \div 2 >= Wanted /\ index \div 2 = Wanted /\ (index + 1) \div 2 \in Nat
  BY <1>1
<1>4. Len(buckets[TRUE]) = Wanted /\ Len(buckets[FALSE]) = Wanted
  BY <1>1, <1>2, <1>3 DEF AtMost
<1>5. ASSUME NEW label \in BOOLEAN
      PROVE  Len(buckets[label]) >= Wanted
  <2>1. Len(buckets[label]) = Wanted
    BY <1>4
  <2> QED
    BY <1>1, <2>1
<1> QED
  BY <1>2, <1>4, <1>5 DEF Full

\* Only a task that is not paired needs another attempt.
LEMMA AnotherAttempt ==
    ASSUME DataInv, DrawAgain
    PROVE  DataInv'
<1>1. /\ Drawing /\ index = call.count /\ ~Full
      /\ attempt' = attempt + 1 /\ index' = 0 /\ drawn' = Nothing
      /\ call' = call /\ set' = set /\ buckets' = buckets /\ sets' = sets
  BY DEF DrawAgain
<1>2. call.task.family \notin Paired
  BY <1>1, FullAtTheEnd
<1>3. DataShape'
  <2>1. call.count \in Nat
    BY <1>1, CallTypes DEF DataInv
  <2> QED
    BY <1>1, <2>1 DEF DataInv, DataShape
<1>4. BucketsFillInTurn'
  BY <1>1, <1>2 DEF BucketsFillInTurn
<1>5. ConstructedForItsLabel'
  BY <1>1 DEF ConstructedForItsLabel, Nothing
<1>6. PairedSetsAreBalanced'
  BY <1>1 DEF DataInv, PairedSetsAreBalanced
<1> QED
  BY <1>3, <1>4, <1>5, <1>6 DEF DataInv

\* A finished set of a paired task is half and half.
LEMMA OneSet ==
    ASSUME DataInv, FinishSet
    PROVE  DataInv'
<1> DEFINE entry == [positives |-> buckets[TRUE], negatives |-> buckets[FALSE], attempts |-> attempt]
<1>1. /\ Drawing /\ index = call.count
      /\ sets' = Append(sets, entry) /\ set' = set + 1 /\ attempt' = 1 /\ index' = 0
      /\ buckets' = NoBuckets /\ drawn' = Nothing /\ call' = call
  BY DEF FinishSet
<1>2. entry.positives = buckets[TRUE] /\ entry.negatives = buckets[FALSE] /\ entry.attempts = attempt
  OBVIOUS
<1> HIDE DEF entry
<1>3. call.count \in Nat /\ Wanted \in Nat /\ Wanted = call.count \div 2
  BY <1>1, CallTypes DEF DataInv, Wanted
<1>4. DOMAIN buckets' = BOOLEAN /\ \A label \in BOOLEAN : buckets'[label] = << >>
  BY <1>1 DEF NoBuckets
<1>5. /\ IsList(sets') /\ Len(sets) \in Nat
      /\ DOMAIN sets' = 1..(Len(sets) + 1) /\ DOMAIN sets = 1..Len(sets)
      /\ \A k \in 1..Len(sets) : sets'[k] = sets[k]
      /\ sets'[Len(sets) + 1] = entry
  BY <1>1, Appended DEF DataInv, DataShape
<1>6. DataShape'
  BY <1>1, <1>3, <1>4, <1>5, EmptyList DEF DataInv, DataShape
<1>7. BucketsFillInTurn'
  <2>1. Wanted' = Wanted
    BY <1>1 DEF Wanted
  <2>2. Len(buckets'[TRUE]) = 0 /\ Len(buckets'[FALSE]) = 0
    BY <1>4, EmptyList
  <2>3. (0 + 1) \div 2 = 0 /\ 0 \div 2 = 0 /\ AtMost(Wanted, 0) = 0
    BY <1>3 DEF AtMost
  <2> QED
    BY <1>1, <2>1, <2>2, <2>3 DEF BucketsFillInTurn
<1>8. ConstructedForItsLabel'
  BY <1>1 DEF ConstructedForItsLabel, Nothing
<1>9. PairedSetsAreBalanced'
  <2> SUFFICES ASSUME call.task.family \in Paired, NEW k \in DOMAIN sets'
               PROVE  /\ sets'[k].attempts = 1
                      /\ Len(sets'[k].positives) = call.count \div 2
                      /\ Len(sets'[k].negatives) = call.count \div 2
    BY <1>1 DEF PairedSetsAreBalanced
  <2>1. CASE k \in 1..Len(sets)
    BY <1>5, <2>1 DEF DataInv, PairedSetsAreBalanced
  <2>2. CASE k = Len(sets) + 1
    <3>1. attempt = 1 /\ Len(buckets[TRUE]) = Wanted /\ Len(buckets[FALSE]) = Wanted
      BY <1>1, FullAtTheEnd
    <3> QED
      BY <1>2, <1>3, <1>5, <2>2, <3>1
  <2> QED
    BY <1>5, <2>1, <2>2
<1> QED
  BY <1>6, <1>7, <1>8, <1>9 DEF DataInv

\* A sampler that raises, and stuttering, change nothing.
LEMMA NothingDrawn ==
    ASSUME DataInv, DrawFails \/ UNCHANGED dataVars
    PROVE  DataInv'
<1>1. /\ call' = call /\ set' = set /\ attempt' = attempt /\ index' = index
      /\ buckets' = buckets /\ drawn' = drawn /\ sets' = sets
  BY DEF DrawFails, dataVars
<1> QED
  BY <1>1 DEF DataInv, DataShape, ConstructedForItsLabel, BucketsFillInTurn,
                  PairedSetsAreBalanced, AtMost, Wanted

\* The inductive invariant of the loop: what was drawn last has the label it
\* was made for, and the buckets of a paired task fill in turn.
THEOREM DataInvariant == DataSpec => []DataInv
<1>1. DataInit => DataInv
  BY DataInitially
<1>2. DataInv /\ [DataNext]_dataVars => DataInv'
  BY OneWord, AnotherAttempt, OneSet, NothingDrawn DEF DataNext
<1> QED
  BY <1>1, <1>2, PTL DEF DataSpec

\* A word that is built to be in the language, or just outside it, gets the label
\* it was built for, for every task that resolve makes and words of every length.
THEOREM WordsAreAlwaysAimed == DataSpec => []ConstructedForItsLabel
<1>1. DataInv => ConstructedForItsLabel
  BY DEF DataInv
<1> QED
  BY <1>1, DataInvariant, PTL

\* A finished set of a paired task is half and half after one attempt, for every
\* count and all lengths.
THEOREM PairedSetsAreAlwaysBalanced == DataSpec => []PairedSetsAreBalanced
<1>1. DataInv => PairedSetsAreBalanced
  BY DEF DataInv
<1> QED
  BY <1>1, DataInvariant, PTL

-----------------------------------------------------------------------------
(***************************************************************************)
(* The study: what its scripts report, for every grid of cells, every set  *)
(* of languages and every result that training can have, while jobs are    *)
(* killed and submitted again.                                             *)
(*                                                                         *)
(* The argument is that a file exists only of a cell that was trained, and *)
(* that a trained cell keeps its result: whatever a script has read of a   *)
(* cell stays true.                                                        *)
(***************************************************************************)


Trained(c) == result[c] \in Results

FileStates == {"absent", "partial", "whole"}

CellType == [task : Tasks, spec : BOOLEAN, layers : Nat, heads : Nat, terms : Nat]
Verdicts == {"yes", "no", "unknown", "missing", "unasked"}
RowType == [equal : Verdicts, empty : Verdicts, specEmpty : Verdicts,
            status : {"none", "ok", "unsolved", "degenerate"}, agrees : {"none", "true", "false"}]
ToolType == [name : {"none", "verify", "emptiness", "certify", "select"},
             state : {"idle", "running", "crashed", "failed", "succeeded"},
             read : SUBSET Cells, todo : SUBSET Cells,
             rows : SUBSET [cell : CellType, row : RowType]]

StudyTypeOK ==
    /\ facts \in [Tasks -> FactType]
    /\ result \in [Cells -> Results \cup {Untrained}]
    /\ job \in [Cells -> {"waiting", "program", "record", "done"}]
    /\ program \in [Cells -> FileStates]
    /\ record \in [Cells -> FileStates]
    /\ collector \in [dir : BOOLEAN, todo : SUBSET Cells, rows : SUBSET Cells, running : BOOLEAN]
    /\ csv \in [BOOLEAN -> SUBSET Cells]
    /\ picks \in [read : SUBSET Cells, chosen : SUBSET Cells]
    /\ tool \in ToolType

\* A cell that has a file, or a job that is past its training, was trained.
FilesAreTrained ==
    \A c \in Cells :
        job[c] # "waiting" \/ program[c] # "absent" \/ record[c] # "absent" => Trained(c)

\* The rows of a table are of its directory, and of trained cells.
TablesAreTrained ==
    /\ \A c \in collector.todo \cup collector.rows : Trained(c) /\ c.spec = collector.dir
    /\ \A dir \in BOOLEAN : \A c \in csv[dir] : Trained(c) /\ c.spec = dir
    /\ \A c \in picks.read : Trained(c)
    /\ \A c \in tool.read : Trained(c)
    /\ picks.chosen \subseteq picks.read

\* A row that says something is about a cell that was trained.
RowsAreTrained ==
    \A r \in tool.rows :
        \/ r.row.equal \in {"yes", "no"} \/ r.row.empty \in {"yes", "no"} \/ r.row.agrees # "none"
        => r.cell \in Cells /\ Trained(r.cell)

\* Scripts ask about trained cells; those that start from the records of the
\* specifications' runs, about these.
ToolIsReady ==
    \A c \in tool.todo : Trained(c) /\ (tool.name \in {"certify", "select"} => c.spec = TRUE)

\* Of each language that the rows read solve on one source, best picks a row.
PicksCover ==
    \A c \in picks.read :
        /\ Solved(c) /\ ~facts[c.task].skewed[c.spec]
        /\ \A d \in picks.read : d.task = c.task => d.spec = c.spec
        => \E d \in picks.chosen : d.task = c.task

\* uhat_verify.py has proved, or will ask about, each language that its table
\* solves on one source.
Promised(c) ==
    /\ Solved(c) /\ facts[c.task].hasSpec /\ ~facts[c.task].skewed[c.spec]
    /\ \A d \in tool.read : d.task = c.task => d.spec = c.spec

VerifyGoesThrough ==
    tool.name = "verify" /\ tool.state \in {"running", "succeeded"} =>
        /\ \A c \in tool.read : Promised(c) =>
            \/ \E d \in tool.todo : d.task = c.task
            \/ \E r \in tool.rows : r.cell.task = c.task
        /\ tool.state = "succeeded" => tool.todo = {} /\ \A r \in tool.rows : r.row.equal = "yes"

StudyInv ==
    /\ StudyTypeOK
    /\ FilesAreTrained
    /\ TablesAreTrained
    /\ RowsAreTrained
    /\ ToolIsReady
    /\ PicksTransfer
    /\ PicksCover
    /\ VerdictsAreTrue
    /\ AgreementIsEarned
    /\ VerifyGoesThrough

-----------------------------------------------------------------------------
\* Sizes and ranks, compared lexicographically.

\* Tuples of numbers are compared in a well-founded order: of any cells that
\* have such a tuple each, none is below some cell.
LEMMA SmallestExists ==
    ASSUME NEW S, S # {}, NEW n \in Nat, NEW of \in [S -> [1..n -> Nat]]
    PROVE  \E c \in S : \A d \in S : ~LexLess(of[d], of[c])
<1> DEFINE Less == OpToRel(<, Nat)
           Tuples == {of[c] : c \in S}
<1>1. IsWellFoundedOn(LexProductOrdering(Less, Nat, n), [1..n -> Nat])
    BY NatLessThanWellFounded, WFLexProductOrdering
<1>2. Tuples \subseteq [1..n -> Nat] /\ Tuples # {}
    OBVIOUS
<1>3. PICK x \in Tuples : \A y \in Tuples : ~(<<y, x>> \in LexProductOrdering(Less, Nat, n))
    BY <1>1, <1>2, WFMin
<1>4. ASSUME NEW a \in [1..n -> Nat], NEW b \in [1..n -> Nat], LexLess(a, b)
      PROVE  <<a, b>> \in LexProductOrdering(Less, Nat, n)
    <2>1. PICK k \in 1..n : a[k] < b[k] /\ \A earlier \in 1..(k - 1) : a[earlier] = b[earlier]
        BY <1>4 DEF LexLess
    <2>2. a[k] \in Nat /\ b[k] \in Nat
        OBVIOUS
    <2>3. <<a[k], b[k]>> \in Less
        BY <2>1, <2>2 DEF OpToRel
    <2> HIDE DEF Less
    <2> QED BY <2>1, <2>3 DEF LexProductOrdering
<1> HIDE DEF Less
<1>5. PICK c \in S : x = of[c]
    BY <1>3
<1>6. ASSUME NEW d \in S, LexLess(of[d], of[c]) PROVE FALSE
    BY <1>2, <1>3, <1>4, <1>5, <1>6
<1> QED BY <1>6

\* If no two of them compare equal, that one is below all others.
LEMMA LeastExists ==
    ASSUME NEW S, S # {}, NEW n \in Nat, NEW of \in [S -> [1..n -> Nat]],
           \A c, d \in S : of[c] = of[d] => c = d
    PROVE  \E c \in S : \A d \in S \ {c} : LexLess(of[c], of[d])
<1>1. PICK c \in S : \A d \in S : ~LexLess(of[d], of[c])
    BY SmallestExists
<1>2. ASSUME NEW d \in S \ {c} PROVE LexLess(of[c], of[d])
    <2>1. of[c] \in [1..n -> Nat] /\ of[d] \in [1..n -> Nat] /\ of[c] # of[d]
        OBVIOUS
    <2> DEFINE Differ == {k \in 1..n : of[c][k] # of[d][k]}
    <2>2. Differ # {} /\ Differ \subseteq Nat
        <3>1. of[c] = [k \in 1..n |-> of[c][k]] /\ of[d] = [k \in 1..n |-> of[d][k]]
            BY <2>1
        <3>2. PICK k \in 1..n : of[c][k] # of[d][k]
            BY <2>1, <3>1
        <3>3. k \in Differ
            BY <3>2
        <3>4. Differ \subseteq Nat
            OBVIOUS
        <3> QED BY <3>3, <3>4
    <2>3. PICK k \in Differ : \A m \in Differ : k <= m
        BY <2>2, LeastNumber
    <2>4. \A m \in 1..(k - 1) : of[c][m] = of[d][m]
        BY <2>3
    <2>5. k \in 1..n /\ of[c][k] \in Nat /\ of[d][k] \in Nat /\ of[c][k] # of[d][k]
        BY <2>1, <2>3
    <2>6. ~(of[d][k] < of[c][k])
        BY <1>1, <2>1, <2>4, <2>5 DEF LexLess
    <2>7. of[c][k] < of[d][k]
        <3>1. \A x, y \in Nat : ~(y < x) /\ x # y => x < y
            OBVIOUS
        <3> QED BY <2>5, <2>6, <3>1, Zenon
    <2> QED BY <2>1, <2>4, <2>5, <2>7 DEF LexLess
<1> QED BY <1>2

-----------------------------------------------------------------------------
\* What does not change.

LEMMA CellTypes ==
    \A c \in Cells : /\ c.task \in Tasks /\ c.spec \in BOOLEAN
                     /\ c.layers \in Nat /\ c.heads \in Nat /\ c.terms \in Nat
BY CellsAssumption

LEMMA ResultTypes ==
    \A r \in Results : /\ r.same \in BOOLEAN /\ r.empty \in BOOLEAN
                       /\ r.train \in 0..Exact /\ r.test \in 0..Exact /\ r.ops \in Nat
BY ResultsAssumption DEF ResultType

\* Untrained is no result.
LEMMA UntrainedIsNone == Untrained \notin Results
BY ResultsAssumption, ResultTypes DEF Untrained

\* A trained cell keeps its result, a language its facts.
LEMMA ResultsStay ==
    ASSUME StudyTypeOK, [StudyNext]_studyVars
    PROVE  /\ facts' = facts
           /\ \A c \in Cells : Trained(c) => result'[c] = result[c] /\ Trained(c)'
<1>1. ASSUME NEW c \in Cells, TrainCell(c)
      PROVE  facts' = facts /\ \A d \in Cells : Trained(d) => result'[d] = result[d]
    BY <1>1, UntrainedIsNone DEF TrainCell, Trained, StudyTypeOK
<1>2. CASE ~\E c \in Cells : TrainCell(c)
    <2>1. facts' = facts /\ result' = result
        BY <1>2 DEF StudyNext, studyVars, jobVars, WriteProgram, WriteRecord, Resubmit,
            BeginCollect, ReadRecord, EndCollect, ChooseBest, LaunchVerify, LaunchVerifyPicks,
            LaunchEmptiness, LaunchEmptinessUnfiltered, LaunchCertify, LaunchSelect, Launch,
            CheckNext, EndCheck
    <2> QED BY <2>1 DEF Trained
<1> QED BY <1>1, <1>2 DEF Trained

\* So what was said of trained cells is still true.
LEMMA SaidStaysTrue ==
    ASSUME StudyInv, [StudyNext]_studyVars, UNCHANGED tool
    PROVE  /\ RowsAreTrained' /\ ToolIsReady'
           /\ VerdictsAreTrue' /\ AgreementIsEarned' /\ VerifyGoesThrough'
<1>1. facts' = facts /\ \A c \in Cells : Trained(c) => result'[c] = result[c] /\ Trained(c)'
    BY ResultsStay DEF StudyInv
<1>2. RowsAreTrained'
    BY <1>1 DEF StudyInv, RowsAreTrained
<1>3. VerdictsAreTrue'
    BY <1>1 DEF StudyInv, RowsAreTrained, VerdictsAreTrue
<1>4. AgreementIsEarned'
    BY <1>1 DEF StudyInv, RowsAreTrained, AgreementIsEarned
<1>5. VerifyGoesThrough'
    BY <1>1 DEF StudyInv, StudyTypeOK, ToolType, TablesAreTrained, VerifyGoesThrough, Promised, Solved
<1>6. ToolIsReady'
    BY <1>1 DEF StudyInv, StudyTypeOK, ToolType, ToolIsReady
<1> QED BY <1>2, <1>3, <1>4, <1>5, <1>6

LEMMA PicksStayGood ==
    ASSUME StudyInv, [StudyNext]_studyVars, UNCHANGED picks
    PROVE  PicksTransfer' /\ PicksCover'
<1>1. facts' = facts /\ \A c \in Cells : Trained(c) => result'[c] = result[c] /\ Trained(c)'
    BY ResultsStay DEF StudyInv
<1>2. ASSUME NEW c \in picks.read
      PROVE  result'[c] = result[c] /\ Solved(c)' = Solved(c) /\ Size(c)' = Size(c)
    BY <1>1, <1>2 DEF StudyInv, StudyTypeOK, TablesAreTrained, Solved, Size
<1>3. picks.chosen \subseteq picks.read
    BY DEF StudyInv, TablesAreTrained
<1>4. PicksTransfer'
    BY <1>1, <1>2, <1>3 DEF StudyInv, PicksTransfer
<1>5. PicksCover'
    BY <1>1, <1>2, <1>3 DEF StudyInv, PicksCover
<1> QED BY <1>4, <1>5

-----------------------------------------------------------------------------
\* The steps.

LEMMA InvInit == StudyInit => StudyInv
<1> SUFFICES ASSUME StudyInit PROVE StudyInv
    OBVIOUS
<1>1. StudyTypeOK
    <2>1. facts \in [Tasks -> FactType]
        BY LanguagesAssumption DEF StudyInit
    <2> QED BY <2>1 DEF StudyInit, StudyTypeOK, ToolType, FileStates, Idle, NoTool
<1>2. FilesAreTrained /\ TablesAreTrained /\ RowsAreTrained
    BY DEF StudyInit, FilesAreTrained, TablesAreTrained, RowsAreTrained, Idle, NoTool
<1>3. PicksTransfer /\ PicksCover /\ ToolIsReady
    BY DEF StudyInit, PicksTransfer, PicksCover, ToolIsReady, NoTool
<1>4. VerdictsAreTrue /\ AgreementIsEarned /\ VerifyGoesThrough
    BY DEF StudyInit, VerdictsAreTrue, AgreementIsEarned, VerifyGoesThrough, NoTool
<1> QED BY <1>1, <1>2, <1>3, <1>4 DEF StudyInv

\* A job writes its files after its training.
JobStep(c) == TrainCell(c) \/ WriteProgram(c) \/ WriteRecord(c) \/ Resubmit(c)

LEMMA JobKeepsInv ==
    ASSUME StudyInv, NEW c \in Cells, JobStep(c)
    PROVE  StudyInv'
<1>1. [StudyNext]_studyVars
    BY DEF JobStep, StudyNext
<1>2. UNCHANGED <<facts, collector, csv, picks, tool>>
    BY DEF JobStep, TrainCell, WriteProgram, WriteRecord, Resubmit
<1>3. facts' = facts /\ \A d \in Cells : Trained(d) => result'[d] = result[d] /\ Trained(d)'
    BY <1>1, ResultsStay DEF StudyInv
<1>4. StudyTypeOK'
    BY <1>2 DEF JobStep, TrainCell, WriteProgram, WriteRecord, Resubmit, StudyInv, StudyTypeOK, FileStates
<1>5. FilesAreTrained'
    <2>1. CASE TrainCell(c)
        <3>1. Trained(c)'
            BY <2>1 DEF TrainCell, Trained, StudyInv, StudyTypeOK
        <3>2. \A d \in Cells \ {c} : job'[d] = job[d] /\ program'[d] = program[d] /\ record'[d] = record[d]
            BY <2>1 DEF TrainCell, StudyInv, StudyTypeOK
        <3> QED BY <1>3, <3>1, <3>2 DEF StudyInv, FilesAreTrained
    <2>2. CASE WriteProgram(c) \/ WriteRecord(c) \/ Resubmit(c)
        <3>1. Trained(c)
            BY <2>2 DEF WriteProgram, WriteRecord, Resubmit, StudyInv, FilesAreTrained
        <3>2. \A d \in Cells \ {c} : job'[d] = job[d] /\ program'[d] = program[d] /\ record'[d] = record[d]
            BY <2>2 DEF WriteProgram, WriteRecord, Resubmit, StudyInv, StudyTypeOK
        <3> QED BY <1>3, <3>1, <3>2 DEF StudyInv, FilesAreTrained
    <2> QED BY <2>1, <2>2 DEF JobStep
<1>6. TablesAreTrained'
    BY <1>2, <1>3 DEF StudyInv, StudyTypeOK, ToolType, TablesAreTrained
<1> QED BY <1>1, <1>2, <1>4, <1>5, <1>6, SaidStaysTrue, PicksStayGood DEF StudyInv

\* Of a table the rows are cells with a record.
CollectStep == (\E dir \in BOOLEAN : BeginCollect(dir)) \/ ReadRecord \/ EndCollect

LEMMA CollectKeepsInv ==
    ASSUME StudyInv, CollectStep
    PROVE  StudyInv'
<1>1. [StudyNext]_studyVars
    BY DEF CollectStep, StudyNext
<1>2. UNCHANGED <<facts, jobVars, picks, tool>>
    BY DEF CollectStep, BeginCollect, ReadRecord, EndCollect
<1>3. \A d \in Cells : Trained(d)' = Trained(d)
    BY <1>2 DEF Trained, jobVars
<1>4. FilesAreTrained'
    BY <1>2, <1>3 DEF StudyInv, FilesAreTrained, jobVars
<1>5. ASSUME NEW dir \in BOOLEAN, BeginCollect(dir)
      PROVE  StudyTypeOK' /\ TablesAreTrained'
    <2>1. collector' = [dir |-> dir, todo |-> {c \in Cells : c.spec = dir /\ record[c] # "absent"},
                        rows |-> {}, running |-> TRUE] /\ csv' = csv
        BY <1>5 DEF BeginCollect
    <2>2. StudyTypeOK'
        BY <1>2, <2>1 DEF StudyInv, StudyTypeOK, jobVars
    <2>3. TablesAreTrained'
        BY <1>2, <1>3, <2>1 DEF StudyInv, StudyTypeOK, ToolType, FilesAreTrained, TablesAreTrained
    <2> QED BY <2>2, <2>3
<1>6. ASSUME ReadRecord PROVE StudyTypeOK' /\ TablesAreTrained'
    <2> DEFINE c == First(collector.todo)
    <2>1. c \in collector.todo
        BY <1>6 DEF ReadRecord, First
    <2>2. /\ collector' = [collector EXCEPT !.todo = @ \ {c},
                            !.rows = IF record[c] = "whole" THEN @ \cup {c} ELSE @]
          /\ csv' = csv
        BY <1>6 DEF ReadRecord
    <2> HIDE DEF c
    <2>3. StudyTypeOK'
        BY <1>2, <2>1, <2>2 DEF StudyInv, StudyTypeOK, jobVars
    <2>4. collector'.todo \cup collector'.rows \subseteq collector.todo \cup collector.rows
          /\ collector'.dir = collector.dir
        BY <2>1, <2>2 DEF StudyInv, StudyTypeOK
    <2>5. TablesAreTrained'
        BY <1>2, <1>3, <2>2, <2>4 DEF StudyInv, StudyTypeOK, ToolType, TablesAreTrained
    <2> QED BY <2>3, <2>5
<1>7. ASSUME EndCollect PROVE StudyTypeOK' /\ TablesAreTrained'
    <2>1. /\ csv' = IF collector.rows = {} THEN csv ELSE [csv EXCEPT ![collector.dir] = collector.rows]
          /\ collector' = Idle
        BY <1>7 DEF EndCollect
    <2>2. StudyTypeOK'
        BY <1>2, <2>1 DEF StudyInv, StudyTypeOK, jobVars, Idle
    <2>3. TablesAreTrained'
        <3>1. \A d \in BOOLEAN : csv'[d] = csv[d] \/ (d = collector.dir /\ csv'[d] = collector.rows)
            BY <2>1 DEF StudyInv, StudyTypeOK
        <3>2. collector'.todo = {} /\ collector'.rows = {}
            BY <2>1 DEF Idle
        <3> QED BY <1>2, <1>3, <3>1, <3>2 DEF StudyInv, StudyTypeOK, ToolType, TablesAreTrained
    <2> QED BY <2>2, <2>3
<1>8. StudyTypeOK' /\ TablesAreTrained'
    BY <1>5, <1>6, <1>7 DEF CollectStep
<1> QED BY <1>1, <1>2, <1>4, <1>8, SaidStaysTrue, PicksStayGood DEF StudyInv

\* What best picks is among the rows it reads, and fit to be compared.
LEMMA SmallestIsSmallest ==
    ASSUME StudyTypeOK, NEW S, S \subseteq Cells, S # {}, \A c \in S : Trained(c)
    PROVE  Smallest(S) \in S /\ \A d \in S : ~LexLess(Size(d), Size(Smallest(S)))
<1> DEFINE of == [c \in S |-> Size(c)]
<1>1. of \in [S -> [1..4 -> Nat]]
    <2>1. ASSUME NEW c \in S PROVE Size(c) \in [1..4 -> Nat]
        <3>1. c.layers \in Nat /\ c.heads \in Nat /\ c.terms \in Nat /\ result[c].ops \in Nat
            BY CellTypes, ResultTypes DEF Trained
        <3> QED BY <3>1 DEF Size
    <2> QED BY <2>1
<1>2. \A c \in S : of[c] = Size(c)
    OBVIOUS
<1> HIDE DEF of
<1>3. \E c \in S : \A d \in S : ~LexLess(of[d], of[c])
    BY <1>1, SmallestExists
<1>4. \E c \in S : \A d \in S : ~LexLess(Size(d), Size(c))
    BY <1>2, <1>3
<1> QED BY <1>4, Zenon DEF Smallest

LEMMA ChooseKeepsInv ==
    ASSUME StudyInv, ChooseBest
    PROVE  StudyInv'
<1>1. [StudyNext]_studyVars
    BY DEF StudyNext
<1>2. UNCHANGED <<facts, jobVars, collector, csv, tool>>
    BY DEF ChooseBest
<1>3. \A d \in Cells : Trained(d)' = Trained(d)
    BY <1>2 DEF Trained, jobVars
<1>4. FilesAreTrained'
    BY <1>2, <1>3 DEF StudyInv, FilesAreTrained, jobVars
<1>5. PICK rows : /\ picks' = [read |-> rows, chosen |-> Chosen(rows)]
                  /\ \E dirs \in SUBSET BOOLEAN : rows = UNION {csv[d] : d \in dirs}
    BY DEF ChooseBest
<1>6. rows \subseteq Cells /\ \A c \in rows : Trained(c)
    BY <1>5 DEF StudyInv, StudyTypeOK, ToolType, TablesAreTrained
<1>7. ASSUME NEW c \in Chosen(rows)
      PROVE  /\ c \in rows /\ Solved(c) /\ ~facts[c.task].skewed[c.spec]
             /\ \A d \in rows : d.task = c.task =>
                    /\ d.spec => c.spec
                    /\ d.spec = c.spec /\ Solved(d) => ~LexLess(Size(d), Size(c))
    <2>1. PICK t \in Tasks : /\ ~Inconclusive(Candidates(t, rows))
                             /\ \E d \in Candidates(t, rows) : Solved(d)
                             /\ c = Smallest({d \in Candidates(t, rows) : Solved(d)})
        BY DEF Chosen
    <2> DEFINE S == {d \in Candidates(t, rows) : Solved(d)}
    <2>2. Candidates(t, rows) \subseteq {d \in rows : d.task = t}
        BY DEF Candidates
    <2>3. S \subseteq Cells /\ S # {} /\ \A d \in S : Trained(d)
        BY <1>6, <2>1, <2>2
    <2>4. c \in S /\ \A d \in S : ~LexLess(Size(d), Size(c))
        BY <2>1, <2>3, SmallestIsSmallest DEF StudyInv
    <2>5. c.task = t /\ c \in rows /\ Solved(c) /\ c \in Candidates(t, rows)
        BY <2>2, <2>4
    <2>6. ~facts[c.task].skewed[c.spec]
        BY <2>1, <2>5 DEF Inconclusive
    <2>7. ASSUME NEW d \in rows, d.task = c.task
          PROVE  (d.spec => c.spec) /\ (d.spec = c.spec => d \in Candidates(t, rows))
        <3>1. d.spec \in BOOLEAN /\ c.spec \in BOOLEAN
            BY <1>6, <2>5, CellTypes
        <3> QED BY <2>5, <2>7, <3>1 DEF Candidates
    <2> QED BY <2>4, <2>5, <2>6, <2>7
<1>8. StudyTypeOK' /\ TablesAreTrained'
    <2>1. Chosen(rows) \subseteq rows
        BY <1>7
    <2>2. picks'.read = rows /\ picks'.chosen = Chosen(rows)
        BY <1>5
    <2>3. StudyTypeOK'
        BY <1>2, <1>5, <1>6, <2>1 DEF StudyInv, StudyTypeOK, jobVars
    <2>4. TablesAreTrained'
        BY <1>2, <1>3, <1>6, <2>1, <2>2 DEF StudyInv, StudyTypeOK, ToolType, TablesAreTrained
    <2> QED BY <2>3, <2>4
<1>9. PicksTransfer'
    <2>1. result' = result /\ facts' = facts /\ picks'.read = rows /\ picks'.chosen = Chosen(rows)
        BY <1>2, <1>5 DEF jobVars
    <2>2. \A d : Solved(d)' = Solved(d) /\ Size(d)' = Size(d)
        BY <2>1 DEF Solved, Size
    <2> QED BY <1>7, <2>1, <2>2 DEF PicksTransfer, Solved
<1>10. PicksCover'
    <2>1. result' = result /\ facts' = facts /\ picks'.read = rows /\ picks'.chosen = Chosen(rows)
        BY <1>2, <1>5 DEF jobVars
    <2>2. \A d : Solved(d)' = Solved(d)
        BY <2>1 DEF Solved
    <2>3. ASSUME NEW c \in rows, Solved(c), ~facts[c.task].skewed[c.spec],
                 \A d \in rows : d.task = c.task => d.spec = c.spec
          PROVE  \E d \in Chosen(rows) : d.task = c.task
        <3> DEFINE t == c.task
                   S == {d \in Candidates(t, rows) : Solved(d)}
        <3>1. t \in Tasks /\ c.spec \in BOOLEAN
            BY <1>6, CellTypes
        <3>2. Candidates(t, rows) \subseteq {d \in rows : d.task = t} /\ c \in Candidates(t, rows)
            BY <2>3, <3>1 DEF Candidates
        <3>3. ~Inconclusive(Candidates(t, rows))
            BY <2>3, <3>2 DEF Inconclusive
        <3>4. Smallest(S) \in Chosen(rows)
            BY <2>3, <3>1, <3>2, <3>3 DEF Chosen
        <3>5. Smallest(S) \in S
            BY <1>6, <2>3, <3>2, SmallestIsSmallest DEF StudyInv
        <3> QED BY <3>2, <3>4, <3>5
    <2> QED BY <2>1, <2>2, <2>3 DEF PicksCover
<1> QED BY <1>1, <1>2, <1>4, <1>8, <1>9, <1>10, SaidStaysTrue DEF StudyInv

-----------------------------------------------------------------------------
\* The checking scripts.

\* The row that uhat_verify.py takes of a language is one of its solved rows:
\* in one directory no two of a language have one architecture.
LEMMA FewestAreRows ==
    ASSUME StudyTypeOK, NEW S, S \subseteq Cells, \A c \in S : Trained(c) /\ c.spec = TRUE
    PROVE  /\ FewestOperations(S) \subseteq S
           /\ \A c \in S : Solved(c) /\ facts[c.task].hasSpec =>
                \E d \in FewestOperations(S) : d.task = c.task
<1> DEFINE solved(t) == {c \in S : c.task = t /\ Solved(c) /\ facts[t].hasSpec}
           fewest(t) == CHOOSE c \in solved(t) : \A d \in solved(t) \ {c} : LexLess(VerifyRank(c), VerifyRank(d))
<1>1. ASSUME NEW t \in Tasks, solved(t) # {} PROVE fewest(t) \in solved(t)
    <2> DEFINE of == [c \in solved(t) |-> VerifyRank(c)]
    <2>1. of \in [solved(t) -> [1..4 -> Nat]]
        <3>1. ASSUME NEW c \in solved(t) PROVE VerifyRank(c) \in [1..4 -> Nat]
            <4>1. c.layers \in Nat /\ c.heads \in Nat /\ c.terms \in Nat /\ result[c].ops \in Nat
                BY CellTypes, ResultTypes DEF Trained
            <4> QED BY <4>1 DEF VerifyRank
        <3> QED BY <3>1
    <2>2. ASSUME NEW c \in solved(t), NEW d \in solved(t), of[c] = of[d] PROVE c = d
        <3>1. VerifyRank(c) = VerifyRank(d)
            BY <2>2
        <3>2. c.layers = d.layers /\ c.heads = d.heads /\ c.terms = d.terms
            BY <3>1 DEF VerifyRank
        <3>3. c.task = d.task /\ c.spec = d.spec /\ c \in Cells /\ d \in Cells
            OBVIOUS
        <3> QED BY <3>2, <3>3, CellsAssumption
    <2>3. \A c \in solved(t) : of[c] = VerifyRank(c)
        OBVIOUS
    <2> HIDE DEF of, solved
    <2>4. \E c \in solved(t) : \A d \in solved(t) \ {c} : LexLess(of[c], of[d])
        BY <1>1, <2>1, <2>2, LeastExists
    <2>5. \E c \in solved(t) : \A d \in solved(t) \ {c} : LexLess(VerifyRank(c), VerifyRank(d))
        BY <2>3, <2>4
    <2> QED BY <2>5
<1>2. FewestOperations(S) = {fewest(t) : t \in {u \in Tasks : solved(u) # {}}}
    BY Zenon DEF FewestOperations
<1> HIDE DEF fewest
<1>3. FewestOperations(S) \subseteq S
    BY <1>1, <1>2
<1>4. ASSUME NEW c \in S, Solved(c), facts[c.task].hasSpec
      PROVE  \E d \in FewestOperations(S) : d.task = c.task
    <2>1. c \in solved(c.task) /\ c.task \in Tasks
        BY <1>4, CellTypes
    <2>2. fewest(c.task) \in solved(c.task)
        BY <1>1, <2>1
    <2>3. fewest(c.task) \in FewestOperations(S)
        BY <1>2, <2>1
    <2> QED BY <2>2, <2>3
<1> QED BY <1>3, <1>4

\* The row that uhat_select_verify.py takes is one of those it was given.
LEMMA SelectedIsGiven ==
    ASSUME StudyTypeOK, NEW S, S # {}, S \subseteq Cells, \A c \in S : Trained(c) /\ c.spec = TRUE,
           NEW t, \A c \in S : c.task = t
    PROVE  SelectOne(S) \in S
<1>0. \A c \in S : /\ c.layers \in Nat /\ c.heads \in Nat /\ c.terms \in Nat
                   /\ result[c].train \in 0..Exact /\ result[c].test \in 0..Exact /\ Exact \in Nat
    BY CellTypes, ResultTypes, ResultsAssumption DEF Trained
<1>a. ASSUME NEW c \in S, NEW d \in S, c.layers = d.layers, c.heads = d.heads, c.terms = d.terms
      PROVE  c = d
    <2>1. c.task = d.task /\ c.spec = d.spec /\ c \in Cells /\ d \in Cells
        OBVIOUS
    <2> QED BY <1>a, <2>1, CellsAssumption
<1> DEFINE exact == {c \in S : Solved(c)}
<1>1. CASE exact # {}
    <2> DEFINE Arch(c) == <<c.layers, c.heads, c.terms>>
               of == [c \in exact |-> Arch(c)]
    <2>1. of \in [exact -> [1..3 -> Nat]]
        BY <1>0
    <2>2. \A c \in exact : of[c] = Arch(c)
        OBVIOUS
    <2>3. ASSUME NEW c \in exact, NEW d \in exact, of[c] = of[d] PROVE c = d
        <3>1. Arch(c) = Arch(d)
            BY <2>3
        <3>2. c.layers = d.layers /\ c.heads = d.heads /\ c.terms = d.terms
            BY <3>1
        <3> QED BY <1>a, <3>2
    <2> HIDE DEF of, exact
    <2>4. \E c \in exact : \A d \in exact \ {c} : LexLess(of[c], of[d])
        <3>1. 3 \in Nat /\ exact # {} /\ \A c, d \in exact : of[c] = of[d] => c = d
            BY <1>1, <2>3
        <3> QED BY <2>1, <3>1, LeastExists, Zenon
    <2>5. \E c \in exact : \A d \in exact \ {c} : LexLess(Arch(c), Arch(d))
        BY <2>2, <2>4
    <2>6. SelectOne(S) \in exact
        BY <1>1, <2>5, Zenon DEF SelectOne, exact
    <2> QED BY <2>6 DEF exact
<1>2. CASE exact = {}
    <2> DEFINE Missing(c) == <<Exact - result[c].train, Exact - result[c].test, c.layers, c.heads, c.terms>>
               of == [c \in S |-> Missing(c)]
    <2>1. of \in [S -> [1..5 -> Nat]]
        BY <1>0
    <2>2. \A c \in S : of[c] = Missing(c)
        OBVIOUS
    <2>3. ASSUME NEW c \in S, NEW d \in S, of[c] = of[d] PROVE c = d
        <3>1. Missing(c) = Missing(d)
            BY <2>3
        <3>2. c.layers = d.layers /\ c.heads = d.heads /\ c.terms = d.terms
            BY <3>1
        <3> QED BY <1>a, <3>2
    <2> HIDE DEF of
    <2>4. \E c \in S : \A d \in S \ {c} : LexLess(of[c], of[d])
        <3>1. 5 \in Nat /\ S # {} /\ \A c, d \in S : of[c] = of[d] => c = d
            BY <2>3
        <3> QED BY <2>1, <3>1, LeastExists, Zenon
    <2>5. ASSUME NEW c \in S, NEW d \in S, LexLess(Missing(c), Missing(d))
          PROVE  LexLess(Closeness(c), Closeness(d))
        <3>1. PICK k \in 1..5 : /\ Missing(c)[k] < Missing(d)[k]
                                /\ \A e \in 1..(k - 1) : Missing(c)[e] = Missing(d)[e]
            BY <2>5 DEF LexLess
        <3>2. \A e \in 1..5 : /\ Missing(c)[e] < Missing(d)[e] => Closeness(c)[e] < Closeness(d)[e]
                              /\ Missing(c)[e] = Missing(d)[e] => Closeness(c)[e] = Closeness(d)[e]
            BY <1>0 DEF Closeness
        <3>3. DOMAIN Closeness(c) = 1..5
            BY DEF Closeness
        <3> HIDE DEF Missing
        <3> QED BY <3>1, <3>2, <3>3 DEF LexLess
    <2>6. \E c \in S : \A d \in S \ {c} : LexLess(Closeness(c), Closeness(d))
        BY <2>2, <2>4, <2>5
    <2>7. SelectOne(S) = CHOOSE c \in S : \A d \in S \ {c} : LexLess(Closeness(c), Closeness(d))
        BY <1>2, Zenon DEF SelectOne
    <2> QED BY <2>6, <2>7
<1> QED BY <1>1, <1>2

\* A script starts with rows of trained cells, and if it is to verify them,
\* with one of each language that they solve.
LEMMA LaunchKeepsInv ==
    ASSUME StudyInv, NEW name, NEW rows, NEW todo,
           [StudyNext]_studyVars, Launch(name, rows, todo),
           name \in {"verify", "emptiness", "certify", "select"},
           rows \subseteq Cells, \A c \in rows : Trained(c), todo \subseteq rows,
           name \in {"certify", "select"} => \A c \in todo : c.spec = TRUE,
           name = "verify" =>
                \A c \in rows :
                    /\ Solved(c) /\ facts[c.task].hasSpec /\ ~facts[c.task].skewed[c.spec]
                    /\ \A d \in rows : d.task = c.task => d.spec = c.spec
                    => \E d \in todo : d.task = c.task
    PROVE  StudyInv'
<1>0. tool' = [name |-> name, read |-> rows, todo |-> todo, rows |-> {},
               state |-> IF todo = {} THEN "failed" ELSE "running"]
    BY DEF Launch
<1>1. /\ tool'.name = name /\ tool'.read = rows /\ tool'.todo = todo /\ tool'.rows = {}
      /\ tool'.state = (IF todo = {} THEN "failed" ELSE "running")
      /\ UNCHANGED <<facts, jobVars, collector, csv, picks>>
    BY <1>0 DEF Launch
<1>2. result' = result /\ \A d : Trained(d)' = Trained(d) /\ Solved(d)' = Solved(d)
    BY <1>1 DEF Trained, Solved, jobVars
<1>3. StudyTypeOK' /\ FilesAreTrained'
    BY <1>0, <1>1, <1>2 DEF StudyInv, StudyTypeOK, ToolType, FilesAreTrained, jobVars
<1>4. TablesAreTrained'
    BY <1>1, <1>2 DEF StudyInv, TablesAreTrained
<1>5. ToolIsReady'
    BY <1>1, <1>2 DEF ToolIsReady
<1>6. RowsAreTrained' /\ VerdictsAreTrue' /\ AgreementIsEarned'
    BY <1>1 DEF RowsAreTrained, VerdictsAreTrue, AgreementIsEarned
<1>7. VerifyGoesThrough'
    BY <1>1, <1>2 DEF VerifyGoesThrough, Promised
<1>8. PicksTransfer' /\ PicksCover'
    BY <1>1, PicksStayGood
<1> QED BY <1>3, <1>4, <1>5, <1>6, <1>7, <1>8 DEF StudyInv

LEMMA VerifyLaunchKeepsInv ==
    ASSUME StudyInv, LaunchVerify \/ LaunchVerifyPicks
    PROVE  StudyInv'
<1>0. [StudyNext]_studyVars
    BY DEF StudyNext
<1>1. CASE LaunchVerify
    <2> DEFINE rows == csv[TRUE]
               todo == FewestOperations(rows)
    <2>1. rows \subseteq Cells /\ \A c \in rows : Trained(c) /\ c.spec = TRUE
        BY DEF StudyInv, StudyTypeOK, ToolType, TablesAreTrained
    <2>2. /\ todo \subseteq rows
          /\ \A c \in rows : Solved(c) /\ facts[c.task].hasSpec => \E d \in todo : d.task = c.task
        BY <2>1, FewestAreRows DEF StudyInv
    <2>3. Launch("verify", rows, todo)
        BY <1>1 DEF LaunchVerify
    <2> HIDE DEF rows, todo
    <2> QED BY <1>0, <2>1, <2>2, <2>3, LaunchKeepsInv
<1>2. CASE LaunchVerifyPicks
    <2> DEFINE rows == picks.read
               todo == {c \in picks.chosen : facts[c.task].hasSpec}
    <2>1. rows \subseteq Cells /\ (\A c \in rows : Trained(c)) /\ todo \subseteq rows
        BY DEF StudyInv, StudyTypeOK, ToolType, TablesAreTrained
    <2>2. ASSUME NEW c \in rows, Solved(c), facts[c.task].hasSpec, ~facts[c.task].skewed[c.spec],
                 \A d \in rows : d.task = c.task => d.spec = c.spec
          PROVE  \E d \in todo : d.task = c.task
        BY <2>2 DEF StudyInv, PicksCover
    <2>3. Launch("verify", rows, todo)
        BY <1>2 DEF LaunchVerifyPicks
    <2> HIDE DEF rows, todo
    <2> QED BY <1>0, <2>1, <2>2, <2>3, LaunchKeepsInv
<1> QED BY <1>1, <1>2

LEMMA OtherLaunchKeepsInv ==
    ASSUME StudyInv, LaunchEmptiness \/ LaunchEmptinessUnfiltered \/ LaunchCertify \/ LaunchSelect
    PROVE  StudyInv'
<1>0. [StudyNext]_studyVars
    BY DEF StudyNext
<1>1. CASE LaunchEmptiness
    <2>1. /\ picks.read \subseteq Cells /\ picks.chosen \subseteq picks.read
          /\ \A c \in picks.read : Trained(c)
        BY DEF StudyInv, StudyTypeOK, ToolType, TablesAreTrained
    <2>2. Launch("emptiness", picks.read, picks.chosen)
        BY <1>1 DEF LaunchEmptiness
    <2> QED BY <1>0, <2>1, <2>2, LaunchKeepsInv
<1>2. CASE LaunchEmptinessUnfiltered
    <2>1. csv[FALSE] \subseteq Cells /\ \A c \in csv[FALSE] : Trained(c)
        BY DEF StudyInv, StudyTypeOK, ToolType, TablesAreTrained
    <2>2. Launch("emptiness", csv[FALSE], csv[FALSE])
        BY <1>2 DEF LaunchEmptinessUnfiltered
    <2> QED BY <1>0, <2>1, <2>2, LaunchKeepsInv
<1>3. Recorded \subseteq Cells /\ \A c \in Recorded : Trained(c) /\ c.spec = TRUE
    BY CellTypes DEF Recorded, StudyInv, FilesAreTrained
<1>4. CASE LaunchCertify
    <2>1. Launch("certify", Recorded, Recorded)
        BY <1>4 DEF LaunchCertify
    <2> QED BY <1>0, <1>3, <2>1, LaunchKeepsInv
<1>5. CASE LaunchSelect
    <2> DEFINE of(t) == {c \in Recorded : c.task = t}
               todo == {SelectOne(of(t)) : t \in {c.task : c \in Recorded}}
    <2>1. ASSUME NEW c \in Recorded PROVE SelectOne(of(c.task)) \in of(c.task)
        <3> DEFINE S == of(c.task)
                   t == c.task
        <3>1. S # {} /\ S \subseteq Cells /\ (\A d \in S : Trained(d) /\ d.spec = TRUE)
              /\ \A d \in S : d.task = t
            BY <1>3, <2>1
        <3> HIDE DEF S, t
        <3>2. SelectOne(S) \in S
            BY <3>1, SelectedIsGiven DEF StudyInv
        <3> QED BY <3>2 DEF S, t
    <2>2. Launch("select", Recorded, todo)
        BY <1>5 DEF LaunchSelect
    <2>3. todo \subseteq Recorded
        BY <2>1
    <2> HIDE DEF todo
    <2> QED BY <1>0, <1>3, <2>2, <2>3, LaunchKeepsInv
<1> QED BY <1>1, <1>2, <1>4, <1>5

\* What is read off the verifier's output is an answer that it gave.
LEMMA ReadingIsTheAnswer ==
    ASSUME NEW file, NEW truth \in BOOLEAN, NEW answer \in Answers(file, truth)
    PROVE  /\ Reading(answer) \in {"yes", "no", "unknown"}
           /\ Reading(answer) = "yes" => truth
           /\ Reading(answer) = "no" => ~truth
<1>1. answer \in {"crash", "timeout"} \/ answer = (IF truth THEN "yes" ELSE "no")
    BY DEF Answers
<1>2. CASE answer \in {"crash", "timeout"}
    <2>1. Phrases(answer) = {}
        BY <1>2 DEF Phrases
    <2> QED BY <2>1 DEF Reading
<1>3. CASE answer = "yes" /\ truth
    <2>1. Phrases(answer) = {"PROVED"}
        BY <1>3 DEF Phrases
    <2>2. Reading(answer) = "yes"
        BY <2>1 DEF Reading
    <2> QED BY <1>3, <2>2
<1>4. CASE answer = "no" /\ ~truth
    <2>1. Phrases(answer) = {"PROVED", "NOT PROVED"}
        BY <1>4 DEF Phrases
    <2>2. "NOT PROVED" \in Phrases(answer)
        BY <2>1
    <2>3. Reading(answer) = "no"
        BY <2>2, Zenon DEF Reading
    <2> QED BY <1>4, <2>3
<1> QED BY <1>1, <1>2, <1>3, <1>4

\* So is what is read off the whole sentence about two languages.
LEMMA ReadingEquivalenceIsTheAnswer ==
    ASSUME NEW file, NEW truth \in BOOLEAN, NEW answer \in Answers(file, truth)
    PROVE  /\ ReadingEquivalence(answer) \in {"yes", "no", "unknown"}
           /\ ReadingEquivalence(answer) = "yes" => truth
           /\ ReadingEquivalence(answer) = "no" => ~truth
<1> DEFINE sentence == "the languages are equivalent"
           phrases == EquivalencePhrases(answer)
<1>1. answer \in {"crash", "timeout"} \/ answer = (IF truth THEN "yes" ELSE "no")
    BY DEF Answers
<1>2. CASE answer \in {"crash", "timeout"}
    <2>1. Phrases(answer) = {} /\ answer # "yes"
        BY <1>2 DEF Phrases
    <2>2. phrases = {}
        BY <2>1 DEF EquivalencePhrases
    <2> QED BY <2>2 DEF ReadingEquivalence
<1>3. CASE answer = "yes" /\ truth
    <2>1. sentence \in phrases
        BY <1>3 DEF EquivalencePhrases
    <2> QED BY <1>3, <2>1 DEF ReadingEquivalence
<1>4. CASE answer = "no" /\ ~truth
    <2>1. phrases = {"PROVED", "NOT PROVED"}
        BY <1>4 DEF EquivalencePhrases, Phrases
    <2>2. sentence \notin phrases
        BY <2>1
    <2> QED BY <1>4, <2>2 DEF ReadingEquivalence
<1> QED BY <1>1, <1>2, <1>3, <1>4

\* The programs that are asked about are of the row's language.
LEMMA LocatedCell ==
    ASSUME StudyInv, NEW c \in Cells
    PROVE  /\ Located(c) \in CellType /\ Located(c).task = c.task
           /\ c.spec = TRUE => Located(c) = c
           /\ Exists(program, c) \/ Exists(record, c) => Located(c) \in Cells /\ Trained(Located(c))
<1>1. c \in CellType
    BY CellsAssumption DEF CellType
<1>2. /\ Located(c).task = c.task /\ Located(c) \in CellType
      /\ c.spec = TRUE => Located(c) = c
    BY <1>1 DEF Located, CellType
<1>3. Exists(program, c) \/ Exists(record, c) => Located(c) \in Cells /\ Trained(Located(c))
    BY DEF Exists, StudyInv, FilesAreTrained
<1> QED BY <1>2, <1>3

\* One more row, which says of its cell what is true.
LEMMA AddKeepsInv ==
    ASSUME StudyInv, [StudyNext]_studyVars, NEW c \in tool.todo, NEW row \in RowType,
           UNCHANGED <<facts, jobVars, collector, csv, picks>>, tool.state = "running", Add(c, row),
           row.equal \in {"yes", "no"} \/ row.empty \in {"yes", "no"} \/ row.agrees # "none"
                => Located(c) \in Cells /\ Trained(Located(c)),
           row.equal = "yes" => result[Located(c)].same,
           row.equal = "no" => ~result[Located(c)].same,
           row.empty = "yes" => result[Located(c)].empty,
           row.empty = "no" => ~result[Located(c)].empty,
           row.agrees # "none" =>
                /\ ~facts[Located(c).task].skewed[Located(c).spec]
                /\ Solved(Located(c))
                /\ row.agrees = "true" => result[Located(c)].empty = facts[Located(c).task].empty
    PROVE  StudyInv'
<1> DEFINE new == [cell |-> Located(c), row |-> row]
<1>1. c \in Cells /\ tool \in ToolType
    BY DEF StudyInv, StudyTypeOK, ToolType
<1>2. tool' = [tool EXCEPT !.todo = @ \ {c}, !.rows = @ \cup {new}]
    BY DEF Add
<1>3. new \in [cell : CellType, row : RowType] /\ new.cell = Located(c) /\ new.row = row
    BY <1>1, LocatedCell
<1> HIDE DEF new
<1>4. /\ tool'.name = tool.name /\ tool'.read = tool.read /\ tool'.todo = tool.todo \ {c}
      /\ tool'.rows = tool.rows \cup {new} /\ tool'.state = "running"
    BY <1>1, <1>2 DEF ToolType
<1>5. tool' \in ToolType
    BY <1>1, <1>2, <1>3 DEF ToolType
<1>6. result' = result /\ \A d : Trained(d)' = Trained(d) /\ Solved(d)' = Solved(d)
    BY DEF Trained, Solved, jobVars
<1>7. StudyTypeOK' /\ FilesAreTrained'
    BY <1>5, <1>6 DEF StudyInv, StudyTypeOK, FilesAreTrained, jobVars
<1>8. TablesAreTrained' /\ ToolIsReady'
    BY <1>4, <1>6 DEF StudyInv, TablesAreTrained, ToolIsReady
<1>9. RowsAreTrained'
    BY <1>3, <1>4, <1>6 DEF StudyInv, RowsAreTrained
<1>10. VerdictsAreTrue'
    BY <1>3, <1>4, <1>6 DEF StudyInv, VerdictsAreTrue
<1>11. AgreementIsEarned'
    BY <1>3, <1>4, <1>6 DEF StudyInv, AgreementIsEarned, Solved
<1>12. VerifyGoesThrough'
    <2>1. new.cell.task = c.task
        BY <1>1, <1>3, LocatedCell
    <2> QED BY <1>4, <1>6, <2>1 DEF StudyInv, VerifyGoesThrough, Promised
<1>13. PicksTransfer' /\ PicksCover'
    BY PicksStayGood
<1> QED BY <1>7, <1>8, <1>9, <1>10, <1>11, <1>12, <1>13 DEF StudyInv

\* Passing over a row, or losing all of them, says nothing; uhat_verify.py
\* does neither.
LEMMA DropKeepsInv ==
    ASSUME StudyInv, [StudyNext]_studyVars, NEW c, PassOver(c) \/ Crash, tool.name # "verify",
           UNCHANGED <<facts, jobVars, collector, csv, picks>>
    PROVE  StudyInv'
<1>1. tool \in ToolType
    BY DEF StudyInv, StudyTypeOK
<1>2. /\ tool'.name = tool.name /\ tool'.read = tool.read /\ tool'.todo \subseteq tool.todo
      /\ tool'.rows \subseteq tool.rows /\ tool' \in ToolType
    BY <1>1 DEF PassOver, Crash, ToolType
<1>3. result' = result /\ \A d : Trained(d)' = Trained(d)
    BY DEF Trained, jobVars
<1>4. StudyTypeOK' /\ FilesAreTrained'
    BY <1>2, <1>3 DEF StudyInv, StudyTypeOK, FilesAreTrained, jobVars
<1>5. TablesAreTrained' /\ ToolIsReady' /\ RowsAreTrained'
    BY <1>2, <1>3 DEF StudyInv, TablesAreTrained, ToolIsReady, RowsAreTrained
<1>6. VerdictsAreTrue' /\ AgreementIsEarned' /\ VerifyGoesThrough'
    BY <1>2, <1>3 DEF StudyInv, VerdictsAreTrue, AgreementIsEarned, VerifyGoesThrough
<1>7. PicksTransfer' /\ PicksCover'
    BY PicksStayGood
<1> QED BY <1>4, <1>5, <1>6, <1>7 DEF StudyInv

LEMMA CheckKeepsInv ==
    ASSUME StudyInv, CheckNext
    PROVE  StudyInv'
<1>0. [StudyNext]_studyVars
    BY DEF StudyNext
<1>a. First(tool.todo) \in tool.todo
    BY DEF CheckNext, First
<1>1. PICK c \in tool.todo :
      /\ tool.state = "running"
      /\ UNCHANGED <<facts, jobVars, collector, csv, picks>>
      /\ \/ VerifyMissing(c) \/ VerifyOne(c)
         \/ EmptinessMissing(c) \/ EmptinessOne(c) \/ MalformedRecord(c)
         \/ CertifyOne(c) \/ SelectVerifyOne(c)
    BY <1>a DEF CheckNext
<1>2. /\ c \in Cells /\ Trained(c)
      /\ tool.name \in {"certify", "select"} => c.spec = TRUE
    BY <1>1 DEF StudyInv, StudyTypeOK, ToolType, ToolIsReady
<1>3. /\ Located(c).task = c.task
      /\ tool.name \in {"certify", "select"} => Located(c) = c
      /\ Exists(program, c) \/ Exists(record, c) => Located(c) \in Cells /\ Trained(Located(c))
    BY <1>2, LocatedCell
<1>4. NoRow \in RowType /\ NoRow.equal = "unasked" /\ NoRow.empty = "unasked" /\ NoRow.agrees = "none"
    BY DEF NoRow, RowType, Verdicts
<1>5. ASSUME NEW d \in Cells, Trained(d)
      PROVE  result[d].same \in BOOLEAN /\ result[d].empty \in BOOLEAN
    BY <1>5, ResultTypes DEF Trained
<1>6. CASE VerifyMissing(c)
    <2> DEFINE row == [NoRow EXCEPT !.equal = "missing"]
    <2>1. row \in RowType /\ row.equal = "missing" /\ row.empty = "unasked" /\ row.agrees = "none"
        BY <1>4 DEF RowType, Verdicts
    <2>2. Add(c, row)
        BY <1>6 DEF VerifyMissing
    <2> HIDE DEF row
    <2> QED BY <1>0, <1>1, <2>1, <2>2, AddKeepsInv
<1>7. CASE VerifyOne(c)
    <2>1. PICK answer \in AskEqual(Located(c)) : Add(c, [NoRow EXCEPT !.equal = Reading(answer)])
        BY <1>7 DEF VerifyOne
    <2>2. Located(c) \in Cells /\ Trained(Located(c))
        BY <1>3, <1>7 DEF VerifyOne
    <2>3. /\ Reading(answer) \in {"yes", "no", "unknown"}
          /\ Reading(answer) = "yes" => result[Located(c)].same
          /\ Reading(answer) = "no" => ~result[Located(c)].same
        BY <1>5, <2>2, ReadingIsTheAnswer DEF AskEqual
    <2> DEFINE row == [NoRow EXCEPT !.equal = Reading(answer)]
    <2>4. row \in RowType /\ row.equal = Reading(answer) /\ row.empty = "unasked" /\ row.agrees = "none"
        BY <1>4, <2>3 DEF RowType, Verdicts
    <2> HIDE DEF row
    <2>5. Add(c, row)
        BY <2>1 DEF row
    <2> QED BY <1>0, <1>1, <2>2, <2>3, <2>4, <2>5, AddKeepsInv
<1>8. CASE EmptinessMissing(c)
    BY <1>0, <1>1, <1>8, DropKeepsInv DEF EmptinessMissing
<1>9. CASE EmptinessOne(c)
    <2>1. PICK learned \in AskEmpty(Located(c)), spec \in Answers("whole", facts[c.task].empty) :
                Add(c, EmptinessRow(Located(c), learned, spec))
        BY <1>9 DEF EmptinessOne
    <2>2. Located(c) \in Cells /\ Trained(Located(c))
        BY <1>3, <1>9 DEF EmptinessOne
    <2>3. /\ Reading(learned) \in {"yes", "no", "unknown"}
          /\ Reading(learned) = "yes" => result[Located(c)].empty
          /\ Reading(learned) = "no" => ~result[Located(c)].empty
        BY <1>5, <2>2, ReadingIsTheAnswer DEF AskEmpty
    <2>4. facts[c.task].empty \in BOOLEAN
        BY <1>2, CellTypes DEF StudyInv, StudyTypeOK, FactType
    <2>5. /\ Reading(spec) \in {"yes", "no", "unknown"}
          /\ Reading(spec) = "yes" => facts[c.task].empty
          /\ Reading(spec) = "no" => ~facts[c.task].empty
        BY <2>4, ReadingIsTheAnswer
    <2> DEFINE specEmpty == IF facts[c.task].hasSpec THEN Reading(spec) ELSE "unknown"
               agrees == IF Classify(Located(c)) # "ok" \/ "unknown" \in {Reading(learned), specEmpty}
                         THEN "none" ELSE IF Reading(learned) = specEmpty THEN "true" ELSE "false"
               row == EmptinessRow(Located(c), learned, spec)
    <2>6. row = [NoRow EXCEPT !.empty = Reading(learned), !.specEmpty = specEmpty,
                    !.status = Classify(Located(c)), !.agrees = agrees]
        BY <1>3 DEF EmptinessRow
    <2>7. Classify(Located(c)) \in {"ok", "unsolved", "degenerate"}
        BY DEF Classify
    <2>8. specEmpty \in {"yes", "no", "unknown"} /\ agrees \in {"none", "true", "false"}
        BY <2>5
    <2>9. /\ row \in RowType /\ row.equal = "unasked" /\ row.empty = Reading(learned)
          /\ row.agrees = agrees
        <3> HIDE DEF specEmpty, agrees, row
        <3> QED BY <1>4, <2>3, <2>6, <2>7, <2>8 DEF RowType, Verdicts
    <2>10. agrees # "none" =>
                /\ ~facts[Located(c).task].skewed[Located(c).spec]
                /\ Solved(Located(c))
                /\ agrees = "true" => result[Located(c)].empty = facts[Located(c).task].empty
        <3>1. ASSUME agrees # "none"
              PROVE  /\ Classify(Located(c)) = "ok"
                     /\ Reading(learned) \in {"yes", "no"} /\ specEmpty \in {"yes", "no"}
                     /\ specEmpty = Reading(spec)
                     /\ agrees = "true" => Reading(learned) = specEmpty
            BY <2>3, <2>5, <3>1
        <3>2. Classify(Located(c)) = "ok" =>
                ~facts[Located(c).task].skewed[Located(c).spec] /\ Solved(Located(c))
            BY DEF Classify
        <3>3. result[Located(c)].empty \in BOOLEAN
            BY <1>5, <2>2
        <3> HIDE DEF specEmpty, agrees
        <3> QED BY <1>3, <2>3, <2>4, <2>5, <3>1, <3>2, <3>3
    <2> HIDE DEF row, agrees
    <2>11. Add(c, row)
        BY <2>1 DEF row
    <2> QED BY <1>0, <1>1, <2>2, <2>3, <2>9, <2>10, <2>11, AddKeepsInv
<1>10. CASE MalformedRecord(c)
    BY <1>0, <1>1, <1>10, DropKeepsInv DEF MalformedRecord
<1>11. ASSUME NEW equal \in AskEqual(c), NEW empty \in AskEmpty(c),
              tool.name \in {"certify", "select"},
              Add(c, [NoRow EXCEPT !.equal = ReadingEquivalence(equal), !.empty = Reading(empty)])
       PROVE  StudyInv'
    <2>1. /\ ReadingEquivalence(equal) \in {"yes", "no", "unknown"}
          /\ ReadingEquivalence(equal) = "yes" => result[c].same
          /\ ReadingEquivalence(equal) = "no" => ~result[c].same
        BY <1>2, <1>5, ReadingEquivalenceIsTheAnswer DEF AskEqual
    <2>2. /\ Reading(empty) \in {"yes", "no", "unknown"}
          /\ Reading(empty) = "yes" => result[c].empty
          /\ Reading(empty) = "no" => ~result[c].empty
        BY <1>2, <1>5, ReadingIsTheAnswer DEF AskEmpty
    <2> DEFINE row == [NoRow EXCEPT !.equal = ReadingEquivalence(equal), !.empty = Reading(empty)]
    <2>3. row \in RowType /\ row.equal = ReadingEquivalence(equal) /\ row.empty = Reading(empty) /\ row.agrees = "none"
        BY <1>4, <2>1, <2>2 DEF RowType, Verdicts
    <2> HIDE DEF row
    <2>4. Add(c, row)
        BY <1>11 DEF row
    <2>5. Located(c) = c
        BY <1>3, <1>11
    <2> QED BY <1>0, <1>1, <1>2, <2>1, <2>2, <2>3, <2>4, <2>5, AddKeepsInv
<1>12. CASE CertifyOne(c)
    <2>1. PICK equal \in AskEqual(c), empty \in AskEmpty(c) :
            IF "timeout" \in {equal, empty} THEN Crash
            ELSE Add(c, [NoRow EXCEPT !.equal = ReadingEquivalence(equal), !.empty = Reading(empty)])
        BY <1>12 DEF CertifyOne
    <2>2. tool.name = "certify"
        BY <1>12 DEF CertifyOne
    <2>3. CASE Crash
        BY <1>0, <1>1, <2>2, <2>3, DropKeepsInv
    <2>4. CASE Add(c, [NoRow EXCEPT !.equal = ReadingEquivalence(equal), !.empty = Reading(empty)])
        BY <1>11, <2>2, <2>4
    <2> QED BY <2>1, <2>3, <2>4
<1>13. CASE SelectVerifyOne(c)
    BY <1>11, <1>13 DEF SelectVerifyOne
<1> QED BY <1>1, <1>6, <1>7, <1>8, <1>9, <1>10, <1>12, <1>13

\* uhat_verify.py ends well only if it has nothing to complain about.
LEMMA EndCheckKeepsInv ==
    ASSUME StudyInv, EndCheck
    PROVE  StudyInv'
<1>0. [StudyNext]_studyVars
    BY DEF StudyNext
<1>1. /\ tool.state = "running" /\ tool.todo = {}
      /\ tool' = [tool EXCEPT !.state =
                    IF tool.name = "verify" /\ Failures # {} THEN "failed" ELSE "succeeded"]
      /\ UNCHANGED <<facts, jobVars, collector, csv, picks>>
    BY DEF EndCheck
<1>2. tool \in ToolType
    BY DEF StudyInv, StudyTypeOK
<1>3. /\ tool' \in ToolType /\ tool'.name = tool.name /\ tool'.read = tool.read
      /\ tool'.todo = tool.todo /\ tool'.rows = tool.rows
      /\ tool'.state = IF tool.name = "verify" /\ Failures # {} THEN "failed" ELSE "succeeded"
    BY <1>1, <1>2 DEF ToolType
<1>4. result' = result /\ \A d : Trained(d)' = Trained(d) /\ Solved(d)' = Solved(d)
    BY <1>1 DEF Trained, Solved, jobVars
<1>5. StudyTypeOK' /\ FilesAreTrained'
    BY <1>1, <1>3, <1>4 DEF StudyInv, StudyTypeOK, FilesAreTrained, jobVars
<1>6. TablesAreTrained' /\ ToolIsReady' /\ RowsAreTrained'
    BY <1>1, <1>3, <1>4 DEF StudyInv, TablesAreTrained, ToolIsReady, RowsAreTrained
<1>7. VerdictsAreTrue' /\ AgreementIsEarned'
    BY <1>1, <1>3, <1>4 DEF StudyInv, VerdictsAreTrue, AgreementIsEarned
<1>8. VerifyGoesThrough'
    BY <1>1, <1>3, <1>4 DEF StudyInv, VerifyGoesThrough, Promised, Failures
<1>9. PicksTransfer' /\ PicksCover'
    BY <1>0, <1>1, PicksStayGood
<1> QED BY <1>5, <1>6, <1>7, <1>8, <1>9 DEF StudyInv

\* StudyInv holds in every state of the study.
THEOREM StudyInvariant == StudySpec => []StudyInv
<1>1. StudyInit => StudyInv
    BY InvInit
<1>2. StudyInv /\ [StudyNext]_studyVars => StudyInv'
    <2> SUFFICES ASSUME StudyInv, [StudyNext]_studyVars PROVE StudyInv'
        OBVIOUS
    <2>1. CASE \E c \in Cells : TrainCell(c) \/ WriteProgram(c) \/ WriteRecord(c) \/ Resubmit(c)
        BY <2>1, JobKeepsInv DEF JobStep
    <2>2. CASE (\E dir \in BOOLEAN : BeginCollect(dir)) \/ ReadRecord \/ EndCollect
        BY <2>2, CollectKeepsInv DEF CollectStep
    <2>3. CASE ChooseBest
        BY <2>3, ChooseKeepsInv
    <2>4. CASE LaunchVerify \/ LaunchVerifyPicks
        BY <2>4, VerifyLaunchKeepsInv
    <2>5. CASE LaunchEmptiness \/ LaunchEmptinessUnfiltered \/ LaunchCertify \/ LaunchSelect
        BY <2>5, OtherLaunchKeepsInv
    <2>6. CASE CheckNext
        BY <2>6, CheckKeepsInv
    <2>7. CASE EndCheck
        BY <2>7, EndCheckKeepsInv
    <2>8. CASE UNCHANGED studyVars
        <3>1. UNCHANGED <<facts, result, job, program, record, collector, csv, picks, tool>>
            BY <2>8 DEF studyVars, jobVars
        <3>2. StudyTypeOK' /\ FilesAreTrained' /\ TablesAreTrained'
            BY <3>1 DEF StudyInv, StudyTypeOK, FilesAreTrained, TablesAreTrained, Trained
        <3> QED BY <3>1, <3>2, SaidStaysTrue, PicksStayGood DEF StudyInv
    <2> QED BY <2>1, <2>2, <2>3, <2>4, <2>5, <2>6, <2>7, <2>8 DEF StudyNext
<1> QED BY <1>1, <1>2, PTL DEF StudySpec

-----------------------------------------------------------------------------
\* The properties of the study.

\* A configuration chosen on one source does not transfer to the other: what
\* uhat_sweep.py best picks is exact, from a conclusive test set, against the
\* specification where any row is, and the smallest of its source.
THEOREM PicksAreTransferable == StudySpec => []PicksTransfer
<1>1. StudyInv => PicksTransfer
    BY DEF StudyInv
<1> QED BY <1>1, StudyInvariant, PTL

\* Files that are being written, crashes and timeouts never become a verdict of
\* a checking script, and a verdict is right about both programs.
THEOREM VerdictsAreAlwaysTrue == StudySpec => []VerdictsAreTrue
<1>1. StudyInv => VerdictsAreTrue
    BY DEF StudyInv
<1> QED BY <1>1, StudyInvariant, PTL

\* uhat_emptiness.py counts agreement only of exact programs on conclusive
\* test sets, and counts it right.
THEOREM AgreementIsAlwaysEarned == StudySpec => []AgreementIsEarned
<1>1. StudyInv => AgreementIsEarned
    BY DEF StudyInv
<1> QED BY <1>1, StudyInvariant, PTL

\* uhat_verify.py exits with 0 only after a proof for each language that its
\* table solves.
THEOREM SuccessAlwaysMeansProved == StudySpec => []SuccessMeansProved
<1>1. ASSUME StudyInv PROVE SuccessMeansProved
    <2> SUFFICES ASSUME tool.name = "verify", tool.state = "succeeded",
                        NEW c \in tool.read, Promised(c)
                 PROVE  \E r \in tool.rows :
                            r.cell.task = c.task /\ r.row.equal = "yes" /\ result[r.cell].same
        BY DEF SuccessMeansProved, Promised
    <2>1. PICK r \in tool.rows : r.cell.task = c.task /\ r.row.equal = "yes"
        BY <1>1 DEF StudyInv, VerifyGoesThrough
    <2> QED BY <1>1, <2>1 DEF StudyInv, VerdictsAreTrue
<1> QED BY <1>1, StudyInvariant, PTL

-----------------------------------------------------------------------------
(***************************************************************************)
(* The trainers: whatever an optimiser does to the parameters, the Boolean *)
(* trainer never returns less than its soft phase had reached, and both    *)
(* return the best of their restarts.                                      *)
(*                                                                         *)
(* TrainInv says what train_once holds between two steps: the soft model   *)
(* is the current one until a hard step is taken, and from then on the     *)
(* kept model scores at least as much.                                     *)
(***************************************************************************)


USE DEF None

Kept == [accuracy : 0..Perfect, model : Params]

TrainTypeOK ==
    /\ schedule \in Schedules
    /\ phase \in {"restart", "step", "done"}
    /\ restart \in 0..schedule.restarts
    /\ step \in 0..schedule.steps
    /\ model \in Params
    /\ softModel \in Params
    /\ loss \in Losses
    /\ kept \in Kept \cup {None}
    /\ best \in fits \cup {None}
    /\ fits \subseteq Fit

\* What is kept scores what it says, and the soft model is not forgotten.
KeptIsGood ==
    /\ kept # None => kept.accuracy = Accuracy[kept.model]
    /\ phase = "step" /\ step <= schedule.hardStart => softModel = model
    /\ phase = "step" /\ schedule.kind = "boolean" /\ step > schedule.hardStart =>
            kept.accuracy >= Accuracy[softModel]

FitsAreGood ==
    /\ \A fit \in fits : fit.accuracy = Accuracy[fit.model]
    /\ NeverWorseThanSoft

BestIsBest ==
    /\ \A fit \in fits :
        /\ best.accuracy >= fit.accuracy
        /\ schedule.kind = "boolean" /\ best.accuracy = fit.accuracy => best.loss <= fit.loss
    /\ best = None => fits = {} /\ restart = 0
    /\ phase = "step" => restart < schedule.restarts
    /\ phase = "done" => restart > 0 /\ (best.accuracy = Perfect \/ restart = schedule.restarts)

TrainInv == TrainTypeOK /\ KeptIsGood /\ FitsAreGood /\ BestIsBest

\* The fit a restart returns, from what is kept: a fit of the right type, as
\* good as the model it holds and as the last and the kept one.
LEMMA ReturnedIsGood ==
    ASSUME TrainTypeOK, KeptIsGood
    PROVE  /\ Returned \in Fit
           /\ Returned.accuracy = Accuracy[Returned.model]
           /\ Returned.accuracy >= Accuracy[model]
           /\ Returned.accuracy >= kept.accuracy
           /\ Returned.soft = softModel
<1> DEFINE final == IF kept.accuracy > Accuracy[model] THEN kept.model ELSE model
<1>1. Accuracy[model] \in 0..Perfect /\ Perfect \in Nat
    BY AccuracyAssumption, PerfectAssumption DEF TrainTypeOK
<1>2. kept = None => kept.accuracy = -1
    OBVIOUS
<1>3. kept # None => kept \in Kept
    BY DEF TrainTypeOK
<1>4. final \in Params /\ Accuracy[final] >= Accuracy[model] /\ Accuracy[final] >= kept.accuracy
    <2>1. CASE kept.accuracy > Accuracy[model]
        <3>1. kept # None
            BY <1>1, <1>2, <2>1
        <3>2. kept.model \in Params /\ kept.accuracy = Accuracy[kept.model]
            BY <1>3, <3>1 DEF KeptIsGood, Kept
        <3>3. final = kept.model
            BY <2>1
        <3>4. Accuracy[kept.model] \in 0..Perfect
            BY <3>2, AccuracyAssumption
        <3> QED BY <1>1, <2>1, <3>2, <3>3, <3>4
    <2>2. CASE ~(kept.accuracy > Accuracy[model])
        <3>1. final = model /\ kept.accuracy \in Int
            BY <1>2, <1>3, <2>2 DEF Kept
        <3> QED BY <1>1, <2>2, <3>1 DEF TrainTypeOK
    <2> QED BY <2>1, <2>2
<1>5. Accuracy[final] \in 0..Perfect
    BY <1>4, AccuracyAssumption
<1>6. loss \in Losses /\ softModel \in Params /\ restart \in Nat
    <2>1. schedule.restarts \in Nat
        BY SchedulesAssumption DEF TrainTypeOK, ScheduleType
    <2> QED BY <2>1 DEF TrainTypeOK
<1>7. Returned = [accuracy |-> Accuracy[final], model |-> final, loss |-> loss,
                  soft |-> softModel, seed |-> restart]
    BY DEF Returned
<1> HIDE DEF final
<1> QED BY <1>4, <1>5, <1>6, <1>7 DEF Fit

\* The first state has no fit yet.
LEMMA TrainInvInit == TrainInit => TrainInv
<1> SUFFICES ASSUME TrainInit PROVE TrainInv
    OBVIOUS
<1>1. schedule.restarts \in Nat \ {0} /\ schedule.steps \in Nat /\ schedule.hardStart \in Nat
    BY SchedulesAssumption DEF TrainInit, ScheduleType
<1> QED BY <1>1 DEF TrainInit, TrainInv, TrainTypeOK, KeptIsGood, FitsAreGood, BestIsBest, NeverWorseThanSoft

\* Every step of a trainer keeps the invariant.
LEMMA TrainInvStep == TrainInv /\ [TrainNext]_trainVars => TrainInv'
<1> SUFFICES ASSUME TrainInv, [TrainNext]_trainVars PROVE TrainInv'
    OBVIOUS
<1> USE DEF TrainInv
<1>0. /\ schedule.restarts \in Nat \ {0} /\ schedule.steps \in Nat /\ schedule.hardStart \in Nat
      /\ schedule.hardStart <= schedule.steps
    BY SchedulesAssumption DEF TrainTypeOK, ScheduleType
<1>a. step \in Int /\ restart \in Int
    BY <1>0 DEF TrainTypeOK
<1>1. CASE BeginRestart
    <2>1. TrainTypeOK'
        BY <1>0, <1>1 DEF BeginRestart, TrainTypeOK
    <2>2. KeptIsGood'
        BY <1>0, <1>1 DEF BeginRestart, KeptIsGood
    <2>3. FitsAreGood' /\ BestIsBest'
        BY <1>1 DEF BeginRestart, FitsAreGood, BestIsBest, NeverWorseThanSoft
    <2> QED BY <2>1, <2>2, <2>3
<1>2. CASE SoftStep
    <2>1. TrainTypeOK'
        BY <1>0, <1>2 DEF SoftStep, Training, TrainTypeOK
    <2>2. KeptIsGood'
        BY <1>0, <1>a, <1>2 DEF SoftStep, Training, Hard, KeptIsGood
    <2>3. FitsAreGood' /\ BestIsBest'
        BY <1>2 DEF SoftStep, FitsAreGood, BestIsBest, NeverWorseThanSoft
    <2> QED BY <2>1, <2>2, <2>3
<1>3. CASE HardStep
    <2>1. model' \in Params /\ loss' \in Losses /\ step' = step + 1 /\ step < schedule.steps
          /\ schedule' = schedule /\ softModel' = softModel /\ phase' = "step"
        BY <1>3 DEF HardStep, Training, TrainTypeOK
    <2>2. Accuracy[model] \in 0..Perfect /\ Accuracy[softModel] \in 0..Perfect /\ Perfect \in Nat
        BY AccuracyAssumption, PerfectAssumption DEF TrainTypeOK
    <2>3. kept' \in Kept \cup {None}
        BY <1>3, <2>2 DEF HardStep, TrainTypeOK, Kept
    <2>4. TrainTypeOK'
        BY <1>0, <1>3, <2>1, <2>3 DEF HardStep, Training, TrainTypeOK
    <2>5. kept' # None => kept'.accuracy = Accuracy[kept'.model]
        BY <1>3 DEF HardStep, KeptIsGood
    <2>6. ASSUME schedule.kind = "boolean" PROVE kept'.accuracy >= Accuracy[softModel]
        <3>1. kept.accuracy \in Int
            BY <2>2 DEF TrainTypeOK, Kept
        <3>2. kept'.accuracy >= kept.accuracy
            BY <1>3, <2>2, <3>1 DEF HardStep
        <3>3. kept'.accuracy \in Int
            BY <2>2, <2>3 DEF Kept
        <3>4. CASE step > schedule.hardStart
            BY <1>3, <2>2, <2>6, <3>1, <3>2, <3>3, <3>4 DEF HardStep, Training, KeptIsGood
        <3>5. CASE step = schedule.hardStart
            <4>1. softModel = model /\ Considered
                BY <1>0, <1>3, <2>6, <3>5 DEF HardStep, Training, KeptIsGood, Considered
            <4> QED BY <1>3, <2>2, <3>1, <4>1 DEF HardStep
        <3> QED BY <1>0, <1>a, <1>3, <3>4, <3>5 DEF HardStep, Hard
    <2>7. KeptIsGood'
        BY <1>0, <1>a, <1>3, <2>1, <2>5, <2>6 DEF HardStep, Hard, KeptIsGood
    <2>8. FitsAreGood' /\ BestIsBest'
        BY <1>3 DEF HardStep, FitsAreGood, BestIsBest, NeverWorseThanSoft
    <2> QED BY <2>4, <2>7, <2>8
<1>4. CASE FinishRestart
    <2> DEFINE new == Returned
    <2>1. /\ new \in Fit /\ new.accuracy = Accuracy[new.model]
          /\ new.accuracy >= Accuracy[model] /\ new.accuracy >= kept.accuracy
          /\ new.soft = softModel
        BY ReturnedIsGood
    <2> HIDE DEF new
    <2>2. /\ fits' = fits \cup {new} /\ restart' = restart + 1 /\ schedule' = schedule
          /\ best' = IF Improves(new) THEN new ELSE best
          /\ phase = "step" /\ step = schedule.steps
          /\ phase' = IF Stops(best', restart') THEN "done" ELSE "restart"
          /\ UNCHANGED <<schedule, step, model, loss, kept, softModel>>
        BY <1>4 DEF FinishRestart, new
    <2>3. restart < schedule.restarts
        BY <2>2 DEF BestIsBest
    <2>4. best = None \/ best \in Fit
        BY DEF TrainTypeOK
    <2>5. \A fit \in Fit : fit.accuracy \in 0..Perfect /\ fit.loss \in Int
        BY LossesAssumption DEF Fit
    <2>6. Perfect \in Nat /\ new.accuracy \in Nat /\ best.accuracy \in Int
        BY <2>1, <2>4, <2>5, PerfectAssumption
    <2>7. TrainTypeOK'
        BY <1>0, <1>a, <2>1, <2>2, <2>3 DEF TrainTypeOK
    <2>8. KeptIsGood'
        BY <2>2 DEF KeptIsGood
    <2>9. FitsAreGood'
        <3>1. \A fit \in fits' : fit.accuracy = Accuracy[fit.model]
            BY <2>1, <2>2 DEF FitsAreGood
        <3>2. ASSUME schedule.kind = "boolean", schedule.hardStart < schedule.steps
              PROVE  \A fit \in fits' : fit.accuracy >= Accuracy[fit.soft]
            <4>1. kept.accuracy >= Accuracy[softModel]
                BY <1>0, <2>2, <3>2 DEF KeptIsGood
            <4>2. kept.accuracy \in Int /\ Accuracy[softModel] \in Int
                BY AccuracyAssumption, PerfectAssumption DEF TrainTypeOK, Kept
            <4>3. new.accuracy >= Accuracy[new.soft]
                BY <2>1, <2>6, <4>1, <4>2
            <4> QED BY <2>2, <3>2, <4>3 DEF FitsAreGood, NeverWorseThanSoft
        <3> QED BY <2>2, <3>1, <3>2 DEF FitsAreGood, NeverWorseThanSoft
    <2>10. best' # None /\ best' \in Fit /\ best'.accuracy >= new.accuracy
           /\ (schedule.kind = "boolean" /\ best'.accuracy = new.accuracy => best'.loss <= new.loss)
        <3>1. best = None => Improves(new)
            BY <2>6 DEF Improves
        <3>2. new # None
            BY <2>6
        <3>3. CASE Improves(new)
            BY <2>1, <2>2, <2>5, <2>6, <3>2, <3>3
        <3>4. CASE ~Improves(new)
            <4>1. best # None /\ best \in Fit /\ best' = best
                BY <2>2, <2>4, <3>1, <3>4
            <4>2. best.loss \in Int /\ new.loss \in Int
                BY <2>1, <2>5, <4>1
            <4> QED BY <2>6, <3>4, <4>1, <4>2 DEF Improves
        <3> QED BY <3>3, <3>4
    <2>11. ASSUME NEW fit \in fits
           PROVE  /\ best'.accuracy >= fit.accuracy
                  /\ schedule.kind = "boolean" /\ best'.accuracy = fit.accuracy => best'.loss <= fit.loss
        <3>1. fit \in Fit /\ fit.accuracy \in Int /\ fit.loss \in Int
            BY <2>5 DEF TrainTypeOK
        <3>2. best # None /\ best \in Fit /\ best.loss \in Int /\ new.loss \in Int
            BY <2>1, <2>4, <2>5 DEF BestIsBest
        <3>3. best.accuracy >= fit.accuracy
              /\ (schedule.kind = "boolean" /\ best.accuracy = fit.accuracy => best.loss <= fit.loss)
            BY DEF BestIsBest
        <3>4. CASE Improves(new)
            BY <2>2, <2>6, <3>1, <3>2, <3>3, <3>4 DEF Improves
        <3>5. CASE ~Improves(new)
            BY <2>2, <3>3, <3>5
        <3> QED BY <3>4, <3>5
    <2>12. BestIsBest'
        <3>1. \A fit \in fits' :
                /\ best'.accuracy >= fit.accuracy
                /\ schedule'.kind = "boolean" /\ best'.accuracy = fit.accuracy => best'.loss <= fit.loss
            BY <2>2, <2>10, <2>11
        <3>2. phase' = "done" => restart' > 0 /\ (best'.accuracy = Perfect \/ restart' = schedule'.restarts)
            BY <1>0, <1>a, <2>2, <2>7 DEF Stops, TrainTypeOK
        <3>3. phase' # "step"
            BY <2>2
        <3> QED BY <2>10, <3>1, <3>2, <3>3 DEF BestIsBest
    <2> QED BY <2>7, <2>8, <2>9, <2>12
<1>5. CASE UNCHANGED trainVars
    BY <1>5 DEF trainVars, TrainTypeOK, KeptIsGood, FitsAreGood, BestIsBest, NeverWorseThanSoft
<1> QED BY <1>1, <1>2, <1>3, <1>4, <1>5 DEF TrainNext

\* The invariant of the trainers holds throughout, for every assignment of
\* accuracies to parameters.
THEOREM TrainInvHolds == TrainSpec => []TrainInv
<1> QED BY TrainInvInit, TrainInvStep, PTL DEF TrainSpec

\* Training the hard model as well is never worse than reading the program off
\* the soft phase's last model.
THEOREM HardPhaseNeverHurts == TrainSpec => []NeverWorseThanSoft
<1>1. TrainInv => NeverWorseThanSoft
    BY DEF TrainInv, FitsAreGood
<1> QED BY <1>1, TrainInvHolds, PTL

\* The fit returned is the best of the restarts, and honest about its accuracy.
THEOREM BestIsReturned == TrainSpec => []BestOfAllRestarts
<1>1. TrainInv => BestOfAllRestarts
    <2> SUFFICES ASSUME TrainInv PROVE BestOfAllRestarts
        OBVIOUS
    <2>1. restart > 0 /\ restart \in Int => best # None
        BY DEF TrainInv, BestIsBest
    <2>2. restart \in Int
        BY SchedulesAssumption DEF TrainInv, TrainTypeOK, ScheduleType
    <2>3. phase = "done" => best \in fits
        BY <2>1, <2>2 DEF TrainInv, TrainTypeOK, BestIsBest
    <2> QED BY <2>3 DEF TrainInv, BestIsBest, FitsAreGood, BestOfAllRestarts
<1> QED BY <1>1, TrainInvHolds, PTL

=================================================================================
