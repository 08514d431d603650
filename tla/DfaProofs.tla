------------------------------- MODULE DfaProofs -------------------------------
(***************************************************************************)
(* Proofs about the two algorithms on the automata that an exploration     *)
(* builds: minimize (Minimize), and the search for a conflict that does    *)
(* not build one to its end (ConflictSearch).                              *)
(***************************************************************************)
EXTENDS Minimize, ConflictSearch, WordLemmas, FiniteSetTheorems, TLAPS

-----------------------------------------------------------------------------
(***************************************************************************)
(* minimize is right, for every complete DFA of every size.                *)
(***************************************************************************)

\* The DFA of an exploration that ran to its end.
Complete ==
    /\ ~table.truncated
    /\ table.stateCount \in Nat \ {0}
    /\ table.next \in [States \X table.alphabet -> States]
    /\ table.accepting \in SUBSET States
    /\ table.initial \in States

Labels(label) == {label[s] : s \in States}

\* Where a label first occurs, and the labels before it.
Occurrences(label, s) == {k \in DOMAIN order : label[order[k]] = label[s]}

Earlier(label, s) == {label[order[k]] : k \in 1..(Min(Occurrences(label, s)) - 1)}

-----------------------------------------------------------------------------

LEMMA InputIsComplete ==
    ASSUME table \in Inputs, ~table.truncated
    PROVE  Complete
<1>1. PICK shape \in Shapes : table \in Dfas(shape[1], shape[2]) \cup TruncatedDfas(shape[1], shape[2])
  BY DEF Inputs
<1>2. table \notin TruncatedDfas(shape[1], shape[2])
  BY DEF TruncatedDfas
<1>3. table \in Dfas(shape[1], shape[2])
  BY <1>1, <1>2
<1>4. shape[1] \in Nat \ {0}
  BY ShapesAssumption
<1>5. /\ table.stateCount = shape[1] /\ table.alphabet = 1..shape[2]
      /\ table.next \in [Numbers(shape[1]) \X (1..shape[2]) -> Numbers(shape[1])]
      /\ table.accepting \in SUBSET Numbers(shape[1])
      /\ table.initial \in Numbers(shape[1])
  BY <1>3 DEF Dfas
<1> QED
  BY <1>4, <1>5 DEF Complete, States

LEMMA MinIsLeast ==
    ASSUME NEW S \in SUBSET Nat, S # {}
    PROVE  Min(S) \in S /\ \A m \in S : Min(S) <= m
<1>1. \E n \in S : \A m \in S : n <= m
  BY LeastNumber
<1> QED
  BY <1>1 DEF Min

\* The order holds every state, the initial one first.
LEMMA OrderCovers ==
    ASSUME Complete
    PROVE  /\ DOMAIN order = 1..table.stateCount
           /\ order[1] = table.initial
           /\ \A k \in 1..table.stateCount : order[k] \in States
           /\ \A s \in States : \E k \in 1..table.stateCount : order[k] = s
<1> DEFINE n == table.stateCount
           i == table.initial
<1>1. n \in Nat \ {0} /\ States = 0..(n - 1) /\ i \in 0..(n - 1)
  BY DEF Complete, States, Numbers
<1>2. /\ DOMAIN order = 1..n
      /\ \A k \in 1..n : order[k] = IF k = 1 THEN i ELSE IF k - 2 < i THEN k - 2 ELSE k - 1
  BY DEF order
<1> HIDE DEF n, i
<1>3. 1 \in 1..n
  BY <1>1
<1>4. ASSUME NEW k \in 1..n
      PROVE  order[k] \in 0..(n - 1)
  <2>1. CASE k = 1
    BY <1>1, <1>2, <2>1
  <2>2. CASE k # 1 /\ k - 2 < i
    BY <1>1, <1>2, <2>2
  <2>3. CASE k # 1 /\ ~(k - 2 < i)
    BY <1>1, <1>2, <2>3
  <2> QED
    BY <2>1, <2>2, <2>3
<1>5. ASSUME NEW s \in 0..(n - 1)
      PROVE  \E k \in 1..n : order[k] = s
  <2>1. CASE s = i
    BY <1>2, <1>3, <2>1
  <2>2. CASE s < i
    <3>1. s + 2 \in 1..n /\ s + 2 # 1 /\ (s + 2) - 2 = s
      BY <1>1, <2>2
    <3> QED
      BY <1>2, <2>2, <3>1
  <2>3. CASE s > i
    <3>1. s + 1 \in 1..n /\ s + 1 # 1 /\ ~((s + 1) - 2 < i) /\ (s + 1) - 1 = s
      BY <1>1, <2>3
    <3> QED
      BY <1>2, <3>1
  <2>4. s = i \/ s < i \/ s > i
    BY <1>1
  <2> QED
    BY <2>1, <2>2, <2>3, <2>4
<1> QED
  BY <1>1, <1>2, <1>3, <1>4, <1>5 DEF n, i

\* The states and the labels are finitely many.
LEMMA LabelsAreFinite ==
    ASSUME Complete, NEW label
    PROVE  /\ IsFiniteSet(States) /\ Cardinality(States) = table.stateCount
           /\ IsFiniteSet(Labels(label))
           /\ Cardinality(Labels(label)) \in Nat
           /\ Cardinality(Labels(label)) <= table.stateCount
<1>1. table.stateCount \in Nat \ {0} /\ States = 0..(table.stateCount - 1)
  BY DEF Complete, States, Numbers
<1>2. IsFiniteSet(States) /\ Cardinality(States) = table.stateCount
  <2> DEFINE m == table.stateCount - 1
  <2>1. m \in Int /\ ~(0 > m) /\ m - 0 + 1 = table.stateCount
    BY <1>1
  <2> HIDE DEF m
  <2>2. IsFiniteSet(0..m) /\ Cardinality(0..m) = m - 0 + 1
    BY <2>1, FS_Interval
  <2> QED
    BY <1>1, <2>1, <2>2 DEF m
<1> DEFINE f == [s \in States |-> label[s]]
<1>3. f \in Surjection(States, Labels(label))
  <2>1. f \in [States -> Labels(label)]
    BY DEF Labels
  <2>2. \A t \in Labels(label) : \E s \in States : f[s] = t
    BY DEF Labels
  <2> QED
    BY <2>1, <2>2 DEF Surjection
<1> HIDE DEF f
<1>4. IsFiniteSet(Labels(label)) /\ Cardinality(Labels(label)) <= Cardinality(States)
  BY <1>2, <1>3, FS_Surjection
<1> QED
  BY <1>2, <1>4, FS_CardinalityType

\* A label is not among those that occur before it.
LEMMA EarlierFacts ==
    ASSUME Complete, NEW label, NEW s \in States
    PROVE  /\ Min(Occurrences(label, s)) \in 1..table.stateCount
           /\ label[order[Min(Occurrences(label, s))]] = label[s]
           /\ Earlier(label, s) \subseteq Labels(label)
           /\ label[s] \notin Earlier(label, s)
<1> DEFINE O == Occurrences(label, s)
           n == table.stateCount
<1>1. /\ DOMAIN order = 1..n /\ n \in Nat
      /\ \A k \in 1..n : order[k] \in States
      /\ \E k \in 1..n : order[k] = s
  BY OrderCovers DEF Complete
<1>2. O \in SUBSET Nat /\ O # {} /\ O \subseteq 1..n
  BY <1>1 DEF Occurrences
<1>3. Min(O) \in O /\ \A m \in O : Min(O) <= m
  BY <1>2, MinIsLeast
<1>4. Min(O) \in 1..n /\ label[order[Min(O)]] = label[s]
  BY <1>2, <1>3 DEF Occurrences
<1> DEFINE first == Min(O)
<1>5. first \in 1..n /\ \A k \in 1..n : label[order[k]] = label[s] => first <= k
  BY <1>1, <1>3, <1>4 DEF Occurrences
<1> HIDE DEF first, O
<1>6. \A k \in 1..(first - 1) : k \in 1..n /\ ~(first <= k)
  BY <1>1, <1>5
<1>7. Earlier(label, s) = {label[order[k]] : k \in 1..(first - 1)}
  BY DEF Earlier, first, O
<1>8. Earlier(label, s) \subseteq Labels(label)
  BY <1>1, <1>6, <1>7 DEF Labels
<1>9. label[s] \notin Earlier(label, s)
  BY <1>5, <1>6, <1>7
<1> QED
  BY <1>4, <1>8, <1>9 DEF O

\* What renumber owes to its caller: equal labels and only these get equal
\* numbers, the numbers are those below the count of labels, and the initial
\* state gets 0.
LEMMA RenumberFacts ==
    ASSUME Complete, NEW label
    PROVE  /\ Renumber(label) \in [States -> Nat]
           /\ \A s, t \in States : Renumber(label)[s] = Renumber(label)[t] <=> label[s] = label[t]
           /\ \A s \in States : Renumber(label)[s] < LabelCount(label)
           /\ Renumber(label)[table.initial] = 0
<1> DEFINE R == Renumber(label)
<1>1. R = [s \in States |-> Cardinality(Earlier(label, s))]
  BY DEF Renumber, Earlier, Occurrences
<1>2. ASSUME NEW s \in States
      PROVE  /\ IsFiniteSet(Earlier(label, s)) /\ Cardinality(Earlier(label, s)) \in Nat
             /\ Cardinality(Earlier(label, s) \cup {label[s]}) = Cardinality(Earlier(label, s)) + 1
  <2>1. IsFiniteSet(Earlier(label, s))
    BY EarlierFacts, LabelsAreFinite, FS_Subset
  <2> QED
    BY <2>1, EarlierFacts, FS_CardinalityType, FS_AddElement
<1>3. \A s \in States : R[s] = Cardinality(Earlier(label, s))
  BY <1>1
<1>4. R \in [States -> Nat]
  BY <1>1, <1>2
<1> HIDE DEF R
<1>5. ASSUME NEW s \in States, NEW t \in States, label[s] = label[t]
      PROVE  R[s] = R[t]
  <2>1. Occurrences(label, s) = Occurrences(label, t)
    BY <1>5 DEF Occurrences
  <2>2. Earlier(label, s) = Earlier(label, t)
    BY <2>1 DEF Earlier
  <2> QED
    BY <1>3, <2>2
<1>6. ASSUME NEW s \in States, NEW t \in States,
             Min(Occurrences(label, s)) < Min(Occurrences(label, t))
      PROVE  R[s] < R[t]
  <2> DEFINE f == Min(Occurrences(label, s))
             g == Min(Occurrences(label, t))
  <2>1. f \in Nat \ {0} /\ g \in Nat \ {0} /\ f < g /\ label[order[f]] = label[s]
    BY <1>6, EarlierFacts
  <2> HIDE DEF f, g
  <2>2. f \in 1..(g - 1) /\ \A k \in 1..(f - 1) : k \in 1..(g - 1)
    BY <2>1
  <2>3. Earlier(label, s) = {label[order[k]] : k \in 1..(f - 1)}
    BY DEF Earlier, f
  <2>4. Earlier(label, t) = {label[order[k]] : k \in 1..(g - 1)}
    BY DEF Earlier, g
  <2>5. Earlier(label, s) \cup {label[s]} \subseteq Earlier(label, t)
    BY <2>1, <2>2, <2>3, <2>4
  <2>6. Cardinality(Earlier(label, s) \cup {label[s]}) <= Cardinality(Earlier(label, t))
    BY <1>2, <2>5, FS_Subset
  <2>7. \A l, m \in Nat : l + 1 <= m => l < m
    OBVIOUS
  <2>8. Cardinality(Earlier(label, s)) < Cardinality(Earlier(label, t))
    BY <1>2, <2>6, <2>7
  <2> QED
    BY <1>3, <2>8
<1>7. ASSUME NEW s \in States, NEW t \in States, R[s] = R[t]
      PROVE  label[s] = label[t]
  <2> DEFINE f == Min(Occurrences(label, s))
             g == Min(Occurrences(label, t))
  <2>1. f \in Nat /\ g \in Nat /\ label[order[f]] = label[s] /\ label[order[g]] = label[t]
    BY EarlierFacts
  <2>2. ~(f < g) /\ ~(g < f)
    <3>1. R[s] \in Nat /\ ~(R[s] < R[t]) /\ ~(R[t] < R[s])
      BY <1>4, <1>7
    <3> QED
      BY <1>6, <3>1
  <2> HIDE DEF f, g
  <2>3. f = g
    BY <2>1, <2>2
  <2> QED
    BY <2>1, <2>3
<1>8. ASSUME NEW s \in States
      PROVE  R[s] < LabelCount(label)
  <2>1. Earlier(label, s) \cup {label[s]} \subseteq Labels(label)
    BY EarlierFacts DEF Labels
  <2>2. Cardinality(Earlier(label, s) \cup {label[s]}) <= Cardinality(Labels(label))
    BY <2>1, LabelsAreFinite, FS_Subset
  <2>3. \A l, m \in Nat : l + 1 <= m => l < m
    OBVIOUS
  <2>4. Cardinality(Earlier(label, s)) < Cardinality(Labels(label))
    BY <1>2, <2>2, <2>3, LabelsAreFinite
  <2> QED
    BY <1>3, <2>4 DEF LabelCount, Labels
<1>9. R[table.initial] = 0
  <2> DEFINE i == table.initial
             O == Occurrences(label, i)
  <2>1. i \in States /\ table.stateCount \in Nat \ {0}
    BY DEF Complete
  <2>2. 1 \in O /\ O \in SUBSET Nat /\ \A k \in O : 1 <= k
    BY <2>1, OrderCovers DEF Occurrences
  <2>3. Min(O) \in O /\ Min(O) <= 1
    BY <2>2, MinIsLeast
  <2> HIDE DEF O
  <2>4. Min(O) = 1
    <3>1. \A m \in Nat : 1 <= m /\ m <= 1 => m = 1
      OBVIOUS
    <3>2. Min(O) \in Nat /\ 1 <= Min(O)
      BY <2>2, <2>3, Zenon
    <3> QED
      BY <2>3, <3>1, <3>2, Zenon
  <2>5. Earlier(label, i) = {}
    BY <2>4 DEF Earlier, O
  <2> QED
    BY <1>3, <2>1, <2>5, FS_EmptySet
<1> QED
  BY <1>4, <1>5, <1>7, <1>8, <1>9 DEF R

\* The numbers of renumber are all those below the count of labels.
LEMMA RenumberIsOnto ==
    ASSUME Complete, NEW label
    PROVE  /\ LabelCount(label) \in Nat \ {0} /\ LabelCount(label) <= table.stateCount
           /\ Cardinality({Renumber(label)[s] : s \in States}) = LabelCount(label)
           /\ \A b \in Numbers(LabelCount(label)) : \E s \in States : Renumber(label)[s] = b
<1> DEFINE R == Renumber(label)
           B == {R[s] : s \in States}
           L == Labels(label)
           c == LabelCount(label)
<1>1. /\ IsFiniteSet(L) /\ c = Cardinality(L) /\ c \in Nat /\ c <= table.stateCount
      /\ IsFiniteSet(B) /\ Cardinality(B) \in Nat
  BY LabelsAreFinite DEF LabelCount, Labels
<1>2. /\ R \in [States -> Nat]
      /\ \A s, t \in States : R[s] = R[t] <=> label[s] = label[t]
      /\ \A s \in States : R[s] < c
  BY RenumberFacts
<1> HIDE DEF R, c
<1> DEFINE f == [b \in B |-> label[CHOOSE s \in States : R[s] = b]]
<1>3. ASSUME NEW s \in States
      PROVE  f[R[s]] = label[s] /\ R[s] \in B
  <2> DEFINE t == CHOOSE t \in States : R[t] = R[s]
  <2>1. t \in States /\ R[t] = R[s]
    OBVIOUS
  <2>2. R[s] \in B
    OBVIOUS
  <2> QED
    BY <1>2, <2>1, <2>2
<1>4. f \in [B -> L]
  BY <1>3 DEF Labels
<1> HIDE DEF f
<1>5. f \in Surjection(B, L) /\ f \in Injection(B, L)
  <2>1. \A l \in L : \E b \in B : f[b] = l
    BY <1>3 DEF Labels
  <2>2. \A a, b \in B : f[a] = f[b] => a = b
    BY <1>2, <1>3
  <2>3. DOMAIN f = B
    BY <1>4
  <2> QED
    BY <1>4, <2>1, <2>2, <2>3 DEF Surjection, Injection, IsInjective
<1>6. Cardinality(B) = Cardinality(L)
  BY <1>1, <1>5, FS_Injection
<1>7. B = Numbers(c)
  <2>1. B \subseteq Numbers(c)
    <3>1. \A l, m \in Nat : l < m => l \in 0..(m - 1)
      OBVIOUS
    <3>2. \A s \in States : R[s] \in 0..(c - 1)
      BY <1>1, <1>2, <3>1
    <3> QED
      BY <3>2 DEF Numbers
  <2>2. IsFiniteSet(0..(c - 1)) /\ Cardinality(0..(c - 1)) = c
    <3>1. 0 \in Int /\ c - 1 \in Int /\ (IF 0 > c - 1 THEN 0 ELSE (c - 1) - 0 + 1) = c
      BY <1>1
    <3> QED
      BY <3>1, FS_Interval
  <2> QED
    BY <1>1, <1>6, <2>1, <2>2, FS_Subset DEF Numbers
<1>8. c # 0
  <2>1. label[table.initial] \in L
    BY DEF Labels, Complete
  <2>2. L # {}
    BY <2>1
  <2> QED
    BY <1>1, <2>2, FS_EmptySet
<1> QED
  BY <1>1, <1>6, <1>7, <1>8 DEF R, c

-----------------------------------------------------------------------------
(***************************************************************************)
(* Words.                                                                  *)
(***************************************************************************)

LEMMA RecognisedIsRunFrom ==
    \A d, q, w : Recognised(d, q, w) <=> RunFrom(d.next, q, w) \in d.accepting
  BY DEF Recognised, RunFrom

LEMMA WordsAreSequences ==
    \A n \in Nat : \A w : w \in WordsUpTo(n) <=> w \in Seq(table.alphabet) /\ Len(w) <= n
<1> SUFFICES ASSUME NEW n \in Nat, NEW w
             PROVE  w \in WordsUpTo(n) <=> w \in Seq(table.alphabet) /\ Len(w) <= n
  OBVIOUS
<1>1. ASSUME w \in WordsUpTo(n)
      PROVE  w \in Seq(table.alphabet) /\ Len(w) <= n
  <2>1. PICK k \in 0..n : w \in [1..k -> table.alphabet]
    BY <1>1 DEF WordsUpTo
  <2> QED
    BY <2>1
<1>2. ASSUME w \in Seq(table.alphabet), Len(w) <= n
      PROVE  w \in WordsUpTo(n)
  <2>1. Len(w) \in 0..n /\ w \in [1..Len(w) -> table.alphabet]
    BY <1>2
  <2> QED
    BY <2>1 DEF WordsUpTo
<1> QED
  BY <1>1, <1>2

\* Words are told from the states they start in by reading the table.
LEMMA TableRuns ==
    ASSUME Complete
    PROVE  /\ \A s \in States, a \in table.alphabet :
                table.next[s, a] = Follow(table.next, s, a) /\ Follow(table.next, s, a) \in States
           /\ IsTable(table.next, States, table.alphabet)
<1>1. \A s, a : table.next[s, a] = Follow(table.next, s, a)
  BY Zenon DEF Follow
<1>2. \A s \in States, a \in table.alphabet : Follow(table.next, s, a) \in States
  BY DEF Complete, Follow
<1> QED
  BY <1>1, <1>2, Zenon DEF IsTable

\* Alike, on words as sequences.
AlikeWords(s, t, n) ==
    \A w \in Seq(table.alphabet) :
        Len(w) <= n =>
            (RunFrom(table.next, s, w) \in table.accepting
                <=> RunFrom(table.next, t, w) \in table.accepting)

LEMMA AlikeIsAlikeWords ==
    ASSUME NEW n \in Nat, NEW s, NEW t
    PROVE  Alike(s, t, n) <=> AlikeWords(s, t, n)
<1>1. Alike(s, t, n) <=> \A w : w \in WordsUpTo(n) => (Recognised(table, s, w) <=> Recognised(table, t, w))
  BY DEF Alike
<1>2. AlikeWords(s, t, n) <=> \A w : w \in Seq(table.alphabet) /\ Len(w) <= n =>
            (RunFrom(table.next, s, w) \in table.accepting
                <=> RunFrom(table.next, t, w) \in table.accepting)
  BY DEF AlikeWords
<1> QED
  BY <1>1, <1>2, WordsAreSequences, RecognisedIsRunFrom, Zenon

LEMMA AlikeAtOnce ==
    ASSUME Complete, NEW s \in States, NEW t \in States
    PROVE  Alike(s, t, 0) <=> (s \in table.accepting <=> t \in table.accepting)
<1>1. RunFrom(table.next, s, << >>) = s /\ RunFrom(table.next, t, << >>) = t
  BY TableRuns, RunFromEmpty
<1>2. \A w \in Seq(table.alphabet) : Len(w) <= 0 <=> w = << >>
  OBVIOUS
<1>3. << >> \in Seq(table.alphabet)
  OBVIOUS
<1>4. AlikeWords(s, t, 0) <=> (s \in table.accepting <=> t \in table.accepting)
  BY <1>1, <1>2, <1>3, Zenon DEF AlikeWords
<1> QED
  BY <1>4, AlikeIsAlikeWords

LEMMA PrependedWord ==
    ASSUME NEW A, NEW a \in A, NEW n \in Nat
    PROVE  \A w \in Seq(A) : Len(w) <= n => <<a>> \o w \in Seq(A) /\ Len(<<a>> \o w) <= n + 1
  OBVIOUS

\* One symbol more: alike so far, and led to states alike so far.
LEMMA AlikeNext ==
    ASSUME Complete, NEW s \in States, NEW t \in States, NEW n \in Nat
    PROVE  Alike(s, t, n + 1) <=>
                /\ Alike(s, t, n)
                /\ \A a \in table.alphabet :
                    Alike(Follow(table.next, s, a), Follow(table.next, t, a), n)
<1>1. \A q \in States, a \in table.alphabet, w \in Seq(table.alphabet) :
        RunFrom(table.next, q, <<a>> \o w) = RunFrom(table.next, Follow(table.next, q, a), w)
  <2> SUFFICES ASSUME NEW q \in States, NEW a \in table.alphabet, NEW w \in Seq(table.alphabet)
               PROVE  RunFrom(table.next, q, <<a>> \o w) = RunFrom(table.next, Follow(table.next, q, a), w)
    OBVIOUS
  <2>1. IsTable(table.next, States, table.alphabet)
    BY TableRuns
  <2> QED
    BY <2>1, RunFromPrepend
<1>2. ASSUME AlikeWords(s, t, n + 1)
      PROVE  AlikeWords(s, t, n)
  <2>1. \A w \in Seq(table.alphabet) : Len(w) <= n => Len(w) <= n + 1
    OBVIOUS
  <2> QED
    BY <1>2, <2>1 DEF AlikeWords
<1>3. ASSUME AlikeWords(s, t, n + 1), NEW a \in table.alphabet
      PROVE  AlikeWords(Follow(table.next, s, a), Follow(table.next, t, a), n)
  <2>1. \A w \in Seq(table.alphabet) :
            Len(w) <= n => <<a>> \o w \in Seq(table.alphabet) /\ Len(<<a>> \o w) <= n + 1
    BY PrependedWord
  <2> QED
    BY <1>1, <1>3, <2>1, Zenon DEF AlikeWords
<1>4. ASSUME AlikeWords(s, t, n),
             \A a \in table.alphabet : AlikeWords(Follow(table.next, s, a), Follow(table.next, t, a), n),
             NEW w \in Seq(table.alphabet), Len(w) <= n + 1
      PROVE  RunFrom(table.next, s, w) \in table.accepting
                <=> RunFrom(table.next, t, w) \in table.accepting
  <2>1. CASE w = << >>
    <3>1. Len(<< >>) <= n /\ << >> \in Seq(table.alphabet)
      OBVIOUS
    <3> QED
      BY <1>4, <2>1, <3>1, Zenon DEF AlikeWords
  <2>2. CASE w # << >>
    <3>1. /\ Head(w) \in table.alphabet /\ Tail(w) \in Seq(table.alphabet)
          /\ w = <<Head(w)>> \o Tail(w) /\ Len(Tail(w)) <= n
      BY <1>4, <2>2
    <3> DEFINE a == Head(w)
               v == Tail(w)
    <3>2. AlikeWords(Follow(table.next, s, a), Follow(table.next, t, a), n)
      BY <1>4, <3>1, Zenon
    <3>3. RunFrom(table.next, Follow(table.next, s, a), v) \in table.accepting
            <=> RunFrom(table.next, Follow(table.next, t, a), v) \in table.accepting
      BY <3>1, <3>2, Zenon DEF AlikeWords
    <3>4. /\ RunFrom(table.next, s, <<a>> \o v) = RunFrom(table.next, Follow(table.next, s, a), v)
          /\ RunFrom(table.next, t, <<a>> \o v) = RunFrom(table.next, Follow(table.next, t, a), v)
      BY <1>1, <3>1, Zenon
    <3> QED
      BY <3>1, <3>3, <3>4, Zenon
  <2> QED
    BY <2>1, <2>2
<1>5. AlikeWords(s, t, n + 1) <=>
                /\ AlikeWords(s, t, n)
                /\ \A a \in table.alphabet :
                    AlikeWords(Follow(table.next, s, a), Follow(table.next, t, a), n)
  BY <1>2, <1>3, <1>4, Zenon DEF AlikeWords
<1>6. n + 1 \in Nat
  OBVIOUS
<1> QED
  BY <1>5, <1>6, AlikeIsAlikeWords, Zenon

LEMMA AlikeAccepts ==
    ASSUME Complete, NEW s \in States, NEW t \in States, NEW n \in Nat, Alike(s, t, n)
    PROVE  s \in table.accepting <=> t \in table.accepting
<1>1. \A w \in Seq(table.alphabet) : Len(w) <= 0 => Len(w) <= n
  OBVIOUS
<1>2. AlikeWords(s, t, 0)
  BY <1>1, AlikeIsAlikeWords DEF AlikeWords
<1> QED
  BY <1>2, AlikeIsAlikeWords, AlikeAtOnce

-----------------------------------------------------------------------------
(***************************************************************************)
(* The invariant.                                                          *)
(***************************************************************************)

\* f numbers blocks 0..c-1, none of them empty, the initial state's being 0.
Blocks(f, c) ==
    /\ f \in [States -> Nat]
    /\ c \in Nat \ {0}
    /\ c <= table.stateCount
    /\ f[table.initial] = 0
    /\ \A s \in States : f[s] \in Numbers(c)
    /\ \A b \in Numbers(c) : \E s \in States : f[s] = b
    /\ Cardinality({f[s] : s \in States}) = c

\* No block is split by what its states are led to.
Stable(f) ==
    \A s, t \in States :
        f[s] = f[t] =>
            \A a \in table.alphabet : f[Follow(table.next, s, a)] = f[Follow(table.next, t, a)]

\* The blocks are those of Moore's round n.
MooreBlocks(f, n) == \A s, t \in States : f[s] = f[t] <=> Alike(s, t, n)

\* The quotient walks over the blocks as the table walks over the states.
Image ==
    /\ quotient.stateCount = blockCount
    /\ quotient.initial = 0
    /\ \A s \in States, a \in table.alphabet :
        Follow(quotient.next, blockOf[s], a) = blockOf[Follow(table.next, s, a)]
    /\ \A s \in States : blockOf[s] \in quotient.accepting <=> s \in table.accepting

Refining == progress \in {"refine", "quotient", "done"}

MooreInv ==
    /\ table \in Inputs
    /\ round \in Nat
    /\ progress = "split" => round = 0
    /\ Refining =>
        /\ Complete
        /\ Blocks(blockOf, blockCount)
        /\ MooreBlocks(blockOf, round)
    /\ progress = "refine" => round + 1 <= blockCount
    /\ progress \in {"quotient", "done"} => round <= blockCount /\ Stable(blockOf)
    /\ progress = "done" => Image

-----------------------------------------------------------------------------

LEMMA RenumberGivesBlocks ==
    ASSUME Complete, NEW label
    PROVE  Blocks(Renumber(label), LabelCount(label))
<1> DEFINE R == Renumber(label)
           c == LabelCount(label)
<1>1. /\ R \in [States -> Nat]
      /\ \A s \in States : R[s] < c
      /\ R[table.initial] = 0
  BY RenumberFacts
<1>2. /\ c \in Nat \ {0} /\ c <= table.stateCount
      /\ Cardinality({R[s] : s \in States}) = c
      /\ \A b \in Numbers(c) : \E s \in States : R[s] = b
  BY RenumberIsOnto
<1> HIDE DEF R, c
<1>3. \A s \in States : R[s] \in Numbers(c)
  <2>1. \A l, m \in Nat : l < m => l \in 0..(m - 1)
    OBVIOUS
  <2>2. \A s \in States : R[s] \in Nat
    BY <1>1
  <2> QED
    BY <1>1, <1>2, <2>1, <2>2 DEF Numbers
<1> QED
  BY <1>1, <1>2, <1>3 DEF Blocks, R, c

\* The first partition.
LEMMA AcceptingIsRoundZero ==
    ASSUME Complete
    PROVE  MooreBlocks(Renumber(Accepting), 0)
<1> SUFFICES ASSUME NEW s \in States, NEW t \in States
             PROVE  Renumber(Accepting)[s] = Renumber(Accepting)[t] <=> Alike(s, t, 0)
  BY DEF MooreBlocks
<1>1. Renumber(Accepting)[s] = Renumber(Accepting)[t] <=> Accepting[s] = Accepting[t]
  BY RenumberFacts
<1>2. Accepting[s] = Accepting[t] <=> (s \in table.accepting <=> t \in table.accepting)
  <2>1. Accepting[s] = (s \in table.accepting) /\ Accepting[t] = (t \in table.accepting)
    BY Zenon DEF Accepting
  <2> QED
    BY <2>1
<1> QED
  BY <1>1, <1>2, AlikeAtOnce

LEMMA SignatureFacts ==
    ASSUME Complete, NEW s \in States, NEW t \in States
    PROVE  Signature[s] = Signature[t] <=>
                /\ blockOf[s] = blockOf[t]
                /\ \A a \in table.alphabet :
                    blockOf[Follow(table.next, s, a)] = blockOf[Follow(table.next, t, a)]
<1> DEFINE F(q) == [a \in table.alphabet |-> blockOf[table.next[q, a]]]
           G(q) == [a \in table.alphabet |-> blockOf[Follow(table.next, q, a)]]
<1>1. \A q : F(q) = G(q)
  BY Zenon DEF Follow
<1>2. Signature[s] = <<blockOf[s], F(s)>> /\ Signature[t] = <<blockOf[t], F(t)>>
  BY Zenon DEF Signature
<1> HIDE DEF F
<1>3. Signature[s] = <<blockOf[s], G(s)>> /\ Signature[t] = <<blockOf[t], G(t)>>
  BY <1>1, <1>2, Zenon
<1>4. G(s) = G(t) <=> \A a \in table.alphabet :
                        blockOf[Follow(table.next, s, a)] = blockOf[Follow(table.next, t, a)]
  <2>1. ASSUME G(s) = G(t), NEW a \in table.alphabet
        PROVE  blockOf[Follow(table.next, s, a)] = blockOf[Follow(table.next, t, a)]
    <3>1. G(s)[a] = G(t)[a]
      BY <2>1
    <3> QED
      BY <3>1
  <2> QED
    BY <2>1
<1> HIDE DEF G
<1> QED
  BY <1>3, <1>4

\* One refinement is one round of Moore's.
LEMMA SignatureIsNextRound ==
    ASSUME Complete, NEW n \in Nat, MooreBlocks(blockOf, n)
    PROVE  MooreBlocks(Renumber(Signature), n + 1)
<1> SUFFICES ASSUME NEW s \in States, NEW t \in States
             PROVE  Renumber(Signature)[s] = Renumber(Signature)[t] <=> Alike(s, t, n + 1)
  BY DEF MooreBlocks
<1>1. Renumber(Signature)[s] = Renumber(Signature)[t] <=> Signature[s] = Signature[t]
  BY RenumberFacts
<1>2. \A a \in table.alphabet :
        blockOf[Follow(table.next, s, a)] = blockOf[Follow(table.next, t, a)]
            <=> Alike(Follow(table.next, s, a), Follow(table.next, t, a), n)
  BY TableRuns DEF MooreBlocks
<1>3. blockOf[s] = blockOf[t] <=> Alike(s, t, n)
  BY DEF MooreBlocks
<1>4. Signature[s] = Signature[t] <=>
        /\ blockOf[s] = blockOf[t]
        /\ \A a \in table.alphabet :
            blockOf[Follow(table.next, s, a)] = blockOf[Follow(table.next, t, a)]
  BY SignatureFacts
<1>5. Alike(s, t, n + 1) <=>
        /\ Alike(s, t, n)
        /\ \A a \in table.alphabet :
            Alike(Follow(table.next, s, a), Follow(table.next, t, a), n)
  BY AlikeNext
<1> QED
  BY <1>1, <1>2, <1>3, <1>4, <1>5

\* A refinement never merges blocks, and one that leaves their number as it was
\* leaves the blocks as they were.
LEMMA CountDecides ==
    ASSUME Complete, Blocks(blockOf, blockCount)
    PROVE  /\ LabelCount(Signature) \in Nat /\ blockCount <= LabelCount(Signature)
           /\ LabelCount(Signature) = blockCount =>
                \A s, t \in States : blockOf[s] = blockOf[t] => Signature[s] = Signature[t]
<1> DEFINE L == Labels(Signature)
           B == {blockOf[s] : s \in States}
           f == [l \in L |-> l[1]]
<1>1. IsFiniteSet(L) /\ Cardinality(L) = LabelCount(Signature) /\ Cardinality(L) \in Nat
  BY LabelsAreFinite DEF LabelCount, Labels
<1>2. \A s \in States : Signature[s] \in L /\ Signature[s][1] = blockOf[s]
  BY DEF Labels, Signature
<1>3. \A l \in L : \E s \in States : l = Signature[s]
  BY DEF Labels
<1> HIDE DEF L
<1>4. \A s \in States : f[Signature[s]] = blockOf[s]
  BY <1>2
<1>5. f \in Surjection(L, B)
  <2>1. f \in [L -> B]
    BY <1>2, <1>3
  <2>2. \A b \in B : \E l \in L : f[l] = b
    BY <1>2, <1>4
  <2> QED
    BY <2>1, <2>2 DEF Surjection
<1> HIDE DEF f
<1>6. Cardinality(B) = blockCount
  BY DEF Blocks
<1> HIDE DEF B
<1>7. Cardinality(B) <= Cardinality(L) /\ (Cardinality(B) = Cardinality(L) <=> f \in Injection(L, B))
  BY <1>1, <1>5, FS_Surjection
<1>8. ASSUME f \in Injection(L, B), NEW s \in States, NEW t \in States, blockOf[s] = blockOf[t]
      PROVE  Signature[s] = Signature[t]
  <2>1. f \in [L -> B] /\ \A k, l \in DOMAIN f : f[k] = f[l] => k = l
    BY <1>8 DEF Injection, IsInjective
  <2>2. DOMAIN f = L
    BY <2>1
  <2> QED
    BY <1>2, <1>4, <1>8, <2>1, <2>2
<1> QED
  BY <1>1, <1>6, <1>7, <1>8

\* A refinement that leaves the number of blocks as it was ends on a partition
\* no symbol splits.
LEMMA SameCountIsStable ==
    ASSUME Complete, Blocks(blockOf, blockCount), LabelCount(Signature) = blockCount
    PROVE  Stable(Renumber(Signature))
<1> SUFFICES ASSUME NEW s \in States, NEW t \in States,
                    Renumber(Signature)[s] = Renumber(Signature)[t],
                    NEW a \in table.alphabet
             PROVE  Renumber(Signature)[Follow(table.next, s, a)]
                        = Renumber(Signature)[Follow(table.next, t, a)]
  BY DEF Stable
<1> DEFINE p == Follow(table.next, s, a)
           q == Follow(table.next, t, a)
<1>1. Signature[s] = Signature[t]
  BY RenumberFacts
<1>2. blockOf[p] = blockOf[q]
  BY <1>1, SignatureFacts
<1>3. p \in States /\ q \in States
  BY TableRuns
<1> HIDE DEF p, q
<1>4. Signature[p] = Signature[q]
  BY <1>2, <1>3, CountDecides
<1>5. Renumber(Signature)[p] = Renumber(Signature)[q]
  BY <1>3, <1>4, RenumberFacts
<1> QED
  BY <1>5 DEF p, q

\* What is said of the blocks stays true while the table does.
LEMMA TableStays ==
    ASSUME table' = table, NEW f, NEW c, NEW n
    PROVE  /\ Complete' <=> Complete
           /\ Blocks(f, c)' <=> Blocks(f, c)
           /\ MooreBlocks(f, n)' <=> MooreBlocks(f, n)
           /\ Stable(f)' <=> Stable(f)
<1>1. States' = States
  BY DEF States
<1>2. Complete' <=> Complete
  BY <1>1 DEF Complete
<1>3. Blocks(f, c)' <=> Blocks(f, c)
  BY <1>1 DEF Blocks
<1>4. \A s, t : Alike(s, t, n)' <=> Alike(s, t, n)
  BY DEF Alike, WordsUpTo
<1>5. MooreBlocks(f, n)' <=> MooreBlocks(f, n)
  BY <1>1, <1>4 DEF MooreBlocks
<1>6. Stable(f)' <=> Stable(f)
  BY <1>1 DEF Stable
<1> QED
  BY <1>2, <1>3, <1>5, <1>6

LEMMA RepresentativeFacts ==
    ASSUME Complete, Blocks(blockOf, blockCount), NEW b \in Numbers(blockCount)
    PROVE  Representative(b) \in States /\ blockOf[Representative(b)] = b
<1> DEFINE S == {s \in States : blockOf[s] = b}
<1>1. S \in SUBSET Nat
  BY DEF States, Numbers, Complete
<1>2. S # {}
  BY DEF Blocks
<1>3. Min(S) \in S
  BY <1>1, <1>2, MinIsLeast
<1> QED
  BY <1>3 DEF Representative

-----------------------------------------------------------------------------
(***************************************************************************)
(* The invariant holds.                                                    *)
(***************************************************************************)

LEMMA MooreInitial == MinimizeInit => MooreInv
  BY DEF MinimizeInit, MooreInv, Refining

LEMMA RefuseKeeps == MooreInv /\ Refuse => MooreInv'
  BY DEF MooreInv, Refuse, Refining

LEMMA SplitKeeps == MooreInv /\ SplitByAcceptance => MooreInv'
<1> SUFFICES ASSUME MooreInv, SplitByAcceptance
             PROVE  MooreInv'
  OBVIOUS
<1> DEFINE f == Renumber(Accepting)
           c == LabelCount(Accepting)
<1>1. /\ table \in Inputs /\ ~table.truncated /\ round = 0
      /\ table' = table /\ progress' = "refine" /\ round' = 0
      /\ blockOf' = f /\ blockCount' = c
  BY DEF MooreInv, SplitByAcceptance
<1>2. Complete
  BY <1>1, InputIsComplete
<1>3. Blocks(f, c) /\ MooreBlocks(f, 0)
  BY <1>2, RenumberGivesBlocks, AcceptingIsRoundZero
<1>4. c \in Nat \ {0}
  BY <1>3 DEF Blocks
<1> HIDE DEF f, c
<1>5. PICK g, d : g = f /\ d = c
  OBVIOUS
<1>6. Complete' /\ Blocks(g, d)' /\ MooreBlocks(g, 0)'
  BY <1>1, <1>2, <1>3, <1>5, TableStays
<1>7. Blocks(blockOf, blockCount)' /\ MooreBlocks(blockOf, round)'
  BY <1>1, <1>5, <1>6
<1>8. 0 + 1 <= c
  BY <1>4
<1> QED
  BY <1>1, <1>6, <1>7, <1>8 DEF MooreInv, Refining

LEMMA RefineKeeps == MooreInv /\ Refine => MooreInv'
<1> SUFFICES ASSUME MooreInv, Refine
             PROVE  MooreInv'
  OBVIOUS
<1> DEFINE f == Renumber(Signature)
           c == LabelCount(Signature)
<1>1. /\ table \in Inputs /\ Complete
      /\ Blocks(blockOf, blockCount) /\ MooreBlocks(blockOf, round)
      /\ round \in Nat /\ round + 1 <= blockCount /\ blockCount \in Nat
  BY DEF MooreInv, Refine, Refining, Blocks
<1>2. /\ table' = table /\ round' = round + 1
      /\ blockOf' = f /\ blockCount' = c
      /\ progress' = IF c = blockCount THEN "quotient" ELSE "refine"
  BY DEF Refine
<1>3. Blocks(f, c) /\ MooreBlocks(f, round + 1) /\ c \in Nat /\ blockCount <= c
  BY <1>1, RenumberGivesBlocks, SignatureIsNextRound, CountDecides
<1>4. c = blockCount => Stable(f)
  BY <1>1, SameCountIsStable
<1> HIDE DEF f, c
<1>5. PICK g, d, n : g = f /\ d = c /\ n = round + 1
  OBVIOUS
<1>6. Complete' /\ Blocks(g, d)' /\ MooreBlocks(g, n)' /\ (d = blockCount => Stable(g)')
  <2>1. Blocks(g, d) /\ MooreBlocks(g, n) /\ (d = blockCount => Stable(g))
    BY <1>3, <1>4, <1>5
  <2>2. /\ Complete' <=> Complete
        /\ Blocks(g, d)' <=> Blocks(g, d)
        /\ MooreBlocks(g, n)' <=> MooreBlocks(g, n)
        /\ Stable(g)' <=> Stable(g)
    BY <1>2, TableStays
  <2> QED
    BY <1>1, <2>1, <2>2
<1>7. /\ Blocks(blockOf, blockCount)' /\ MooreBlocks(blockOf, round)'
      /\ c = blockCount => Stable(blockOf)'
  BY <1>2, <1>5, <1>6
<1>8. IF c = blockCount THEN round + 1 <= c ELSE (round + 1) + 1 <= c
  BY <1>1, <1>3
<1>9. round + 1 \in Nat
  BY <1>1
<1> QED
  BY <1>1, <1>2, <1>6, <1>7, <1>8, <1>9 DEF MooreInv, Refining

LEMMA BuildQuotientKeeps == MooreInv /\ BuildQuotient => MooreInv'
<1> SUFFICES ASSUME MooreInv, BuildQuotient
             PROVE  MooreInv'
  OBVIOUS
<1>1. /\ Complete /\ Blocks(blockOf, blockCount) /\ MooreBlocks(blockOf, round)
      /\ Stable(blockOf) /\ round \in Nat
  BY DEF MooreInv, BuildQuotient, Refining
<1>2. /\ table' = table /\ blockOf' = blockOf /\ blockCount' = blockCount /\ round' = round
      /\ progress = "quotient" /\ progress' = "done"
  BY DEF BuildQuotient
<1>3. /\ quotient'.stateCount = blockCount
      /\ quotient'.initial = blockOf[table.initial]
      /\ quotient'.next = [e \in Numbers(blockCount) \X table.alphabet |->
                                blockOf[table.next[Representative(e[1]), e[2]]]]
      /\ quotient'.accepting = {b \in Numbers(blockCount) : Representative(b) \in table.accepting}
  BY DEF BuildQuotient
<1>4. /\ \A s \in States : /\ blockOf[s] \in Numbers(blockCount)
                           /\ Representative(blockOf[s]) \in States
                           /\ blockOf[Representative(blockOf[s])] = blockOf[s]
      /\ blockOf[table.initial] = 0
  BY <1>1, RepresentativeFacts DEF Blocks
<1>5. ASSUME NEW s \in States, NEW a \in table.alphabet
      PROVE  Follow(quotient'.next, blockOf[s], a) = blockOf[Follow(table.next, s, a)]
  <2> DEFINE r == Representative(blockOf[s])
             e == <<blockOf[s], a>>
  <2>1. r \in States /\ blockOf[r] = blockOf[s] /\ blockOf[s] \in Numbers(blockCount)
    BY <1>4
  <2>2. e \in Numbers(blockCount) \X table.alphabet /\ e[1] = blockOf[s] /\ e[2] = a
    BY <2>1
  <2>3. quotient'.next[e] = blockOf[table.next[Representative(e[1]), e[2]]]
    BY <1>3, <2>2
  <2>4. quotient'.next[e] = blockOf[table.next[r, a]]
    BY <2>2, <2>3, Zenon
  <2>5. blockOf[Follow(table.next, r, a)] = blockOf[Follow(table.next, s, a)]
    BY <1>1, <2>1 DEF Stable
  <2>6. table.next[r, a] = Follow(table.next, r, a)
    BY Zenon DEF Follow
  <2> QED
    BY <2>4, <2>5, <2>6, Zenon DEF Follow
<1>6. ASSUME NEW s \in States
      PROVE  blockOf[s] \in quotient'.accepting <=> s \in table.accepting
  <2> DEFINE r == Representative(blockOf[s])
  <2>1. r \in States /\ blockOf[r] = blockOf[s] /\ blockOf[s] \in Numbers(blockCount)
    BY <1>4
  <2>2. blockOf[s] \in quotient'.accepting <=> r \in table.accepting
    BY <1>3, <2>1
  <2> HIDE DEF r
  <2>3. Alike(r, s, round)
    BY <1>1, <2>1 DEF MooreBlocks
  <2> QED
    BY <1>1, <2>1, <2>2, <2>3, AlikeAccepts
<1>7. Image'
  <2>1. States' = States
    BY <1>2 DEF States
  <2> QED
    BY <1>2, <1>3, <1>4, <1>5, <1>6, <2>1 DEF Image
<1>8. PICK g, d, n : g = blockOf /\ d = blockCount /\ n = round
  OBVIOUS
<1>9. Complete' /\ Blocks(g, d)' /\ MooreBlocks(g, n)' /\ Stable(g)'
  BY <1>1, <1>2, <1>8, TableStays
<1>10. Blocks(blockOf, blockCount)' /\ MooreBlocks(blockOf, round)' /\ Stable(blockOf)'
  BY <1>2, <1>8, <1>9
<1>11. table' \in Inputs /\ round' \in Nat /\ round' <= blockCount'
  BY <1>2 DEF MooreInv
<1> QED
  BY <1>2, <1>7, <1>9, <1>10, <1>11 DEF MooreInv, Refining

LEMMA StutterKeeps == MooreInv /\ UNCHANGED minimizeVars => MooreInv'
<1> SUFFICES ASSUME MooreInv, UNCHANGED minimizeVars
             PROVE  MooreInv'
  OBVIOUS
<1>1. /\ table' = table /\ progress' = progress /\ blockOf' = blockOf
      /\ blockCount' = blockCount /\ round' = round /\ quotient' = quotient
  BY DEF minimizeVars
<1>2. PICK g, d, n : g = blockOf /\ d = blockCount /\ n = round
  OBVIOUS
<1>3. /\ Complete' <=> Complete
      /\ Blocks(blockOf, blockCount)' <=> Blocks(blockOf, blockCount)
      /\ MooreBlocks(blockOf, round)' <=> MooreBlocks(blockOf, round)
      /\ Stable(blockOf)' <=> Stable(blockOf)
  <2>1. /\ Complete' <=> Complete
        /\ Blocks(g, d)' <=> Blocks(g, d)
        /\ MooreBlocks(g, n)' <=> MooreBlocks(g, n)
        /\ Stable(g)' <=> Stable(g)
    BY <1>1, TableStays
  <2> QED
    BY <1>1, <1>2, <2>1
<1>4. Image' <=> Image
  <2>1. States' = States
    BY <1>1 DEF States
  <2> QED
    BY <1>1, <2>1 DEF Image
<1> QED
  BY <1>1, <1>3, <1>4 DEF MooreInv, Refining

LEMMA MooreInvHolds == MinimizeSpec => []MooreInv
<1>1. MooreInv /\ [MinimizeNext]_minimizeVars => MooreInv'
  BY RefuseKeeps, SplitKeeps, RefineKeeps, BuildQuotientKeeps, StutterKeeps DEF MinimizeNext
<1> QED
  BY MooreInitial, <1>1, PTL DEF MinimizeSpec

\* After r rounds two states share a block exactly when no word of length at
\* most r tells them apart: BooleanAutomaton.minimize is Moore's refinement,
\* on a DFA of any size.
THEOREM BlocksAreAlwaysMooreClasses == MinimizeSpec => []BlocksAreMooreClasses
<1>1. MooreInv => BlocksAreMooreClasses
  BY DEF MooreInv, Refining, MooreBlocks, BlocksAreMooreClasses
<1> QED
  BY <1>1, MooreInvHolds, PTL

-----------------------------------------------------------------------------
(***************************************************************************)
(* The result.                                                             *)
(***************************************************************************)

\* The quotient is a table over the blocks.
LEMMA QuotientIsTable ==
    ASSUME Complete, Blocks(blockOf, blockCount), Image
    PROVE  IsTable(quotient.next, Numbers(blockCount), table.alphabet)
<1> SUFFICES ASSUME NEW b \in Numbers(blockCount), NEW a \in table.alphabet
             PROVE  Follow(quotient.next, b, a) \in Numbers(blockCount)
  BY Zenon DEF IsTable
<1>1. PICK s \in States : blockOf[s] = b
  BY DEF Blocks
<1>2. Follow(quotient.next, b, a) = blockOf[Follow(table.next, s, a)]
  BY <1>1 DEF Image
<1>3. Follow(table.next, s, a) \in States
  BY TableRuns
<1> QED
  BY <1>2, <1>3 DEF Blocks

\* A block accepts the words its states accept.
LEMMA BlockAccepts ==
    ASSUME Complete, Blocks(blockOf, blockCount), Image,
           NEW s \in States, NEW w \in Seq(table.alphabet)
    PROVE  Recognised(quotient, blockOf[s], w) <=> Recognised(table, s, w)
<1> DEFINE C == Numbers(blockCount)
<1>1. blockOf \in [States -> C]
  BY DEF Blocks
<1>2. IsTable(table.next, States, table.alphabet) /\ IsTable(quotient.next, C, table.alphabet)
  BY TableRuns, QuotientIsTable
<1>3. \A q \in States, a \in table.alphabet :
        Follow(quotient.next, blockOf[q], a) = blockOf[Follow(table.next, q, a)]
  BY DEF Image
<1> HIDE DEF C
<1>4. RunFrom(quotient.next, blockOf[s], w) = blockOf[RunFrom(table.next, s, w)]
  BY <1>1, <1>2, <1>3, RunFromImage
<1>5. RunFrom(table.next, s, w) \in States
  BY <1>2, RunFromType
<1>6. blockOf[RunFrom(table.next, s, w)] \in quotient.accepting
        <=> RunFrom(table.next, s, w) \in table.accepting
  BY <1>5 DEF Image
<1> QED
  BY <1>4, <1>6, RecognisedIsRunFrom, Zenon

\* The loop stops on the number of blocks alone, and what it returns accepts
\* the words the input accepts, has no two states that accept the same ones,
\* and starts in number 0, for a DFA of any size.  The separating words are no
\* longer than the input has states.
THEOREM QuotientIsAlwaysMinimal == MinimizeSpec => []QuotientIsMinimalAndEquivalent
<1>1. MooreInv => QuotientIsMinimalAndEquivalent
  <2> SUFFICES ASSUME MooreInv, progress = "done"
               PROVE  /\ quotient.initial = 0
                      /\ \A w \in WordsUpTo(Enough) :
                            Recognised(quotient, 0, w) <=> Recognised(table, table.initial, w)
                      /\ \A b, c \in Numbers(quotient.stateCount) :
                            b # c => \E w \in WordsUpTo(Enough) :
                                        Recognised(quotient, b, w) # Recognised(quotient, c, w)
    BY DEF QuotientIsMinimalAndEquivalent
  <2>1. /\ Complete /\ Blocks(blockOf, blockCount) /\ MooreBlocks(blockOf, round) /\ Image
        /\ round \in Nat /\ round <= blockCount
    BY DEF MooreInv, Refining
  <2>2. /\ quotient.initial = 0 /\ quotient.stateCount = blockCount
    BY <2>1 DEF Image
  <2>3. /\ table.stateCount \in Nat /\ blockCount \in Nat /\ blockCount <= table.stateCount
        /\ table.initial \in States /\ blockOf[table.initial] = 0
        /\ \A b \in Numbers(blockCount) : \E s \in States : blockOf[s] = b
    BY <2>1 DEF Complete, Blocks
  <2>4. round <= table.stateCount
    BY <2>1, <2>3
  <2>5. \A w \in WordsUpTo(Enough) : w \in Seq(table.alphabet)
    BY <2>3, WordsAreSequences DEF Enough
  <2>6. \A s \in States, w \in WordsUpTo(Enough) :
            Recognised(quotient, blockOf[s], w) <=> Recognised(table, s, w)
    BY <2>1, <2>5, BlockAccepts
  <2>7. ASSUME NEW b \in Numbers(blockCount), NEW c \in Numbers(blockCount), b # c
        PROVE  \E w \in WordsUpTo(Enough) : Recognised(quotient, b, w) # Recognised(quotient, c, w)
    <3>1. PICK s \in States, t \in States : blockOf[s] = b /\ blockOf[t] = c
      BY <2>3
    <3>2. ~Alike(s, t, round)
      BY <2>1, <2>7, <3>1 DEF MooreBlocks
    <3>3. PICK w \in WordsUpTo(round) : ~(Recognised(table, s, w) <=> Recognised(table, t, w))
      BY <3>2 DEF Alike
    <3>4. w \in WordsUpTo(Enough)
      <4>1. w \in Seq(table.alphabet) /\ Len(w) <= round
        BY <2>1, WordsAreSequences
      <4>2. Len(w) <= table.stateCount
        BY <2>1, <2>3, <2>4, <4>1
      <4> QED
        BY <2>3, <4>1, <4>2, WordsAreSequences DEF Enough
    <3>5. ~(Recognised(quotient, b, w) <=> Recognised(quotient, c, w))
      BY <2>6, <3>1, <3>3, <3>4
    <3>6. Recognised(quotient, b, w) # Recognised(quotient, c, w)
      BY <3>5, Zenon
    <3> QED
      BY <3>4, <3>6
  <2> QED
    BY <2>2, <2>3, <2>6, <2>7
<1> QED
  BY <1>1, MooreInvHolds, PTL

-----------------------------------------------------------------------------
(***************************************************************************)
(* The conflict search, for every automaton, every projection that is a    *)
(* bisimulation, and every budget.                                         *)
(*                                                                         *)
(* The hard part is the soundness of PROVED.  A successor is pruned when   *)
(* its projection is dead or on the stack, and neither means by itself     *)
(* that nothing accepting lies beyond: a dead summary may lead back into   *)
(* an ancestor that is still being explored.  The invariant ConflictInv    *)
(* therefore speaks of the dead and the stack together: every symbol that  *)
(* has been tried, from a dead summary or from a frame, leads to a         *)
(* rejecting summary whose projection is dead or on the stack.  When the   *)
(* stack is empty, the dead are closed under delta.                        *)
(***************************************************************************)

Live == ~found /\ ~truncated

Covered(s, a) ==
    /\ delta[s, a] \notin final
    /\ key[delta[s, a]] \in dead \cup onStack

SearchedAutomaton ==
    /\ Bisimulation(key)
    /\ delta \in [Summaries \X Symbols -> Summaries]
    /\ key \in [Summaries -> Summaries]

StackKeys ==
    /\ \A i \in 1..Len(stack) : key[stack[i].summary] \in onStack
    /\ \A k \in onStack : \E i \in 1..Len(stack) : k = key[stack[i].summary]

Distinct ==
    \A i, j \in 1..Len(stack) : key[stack[i].summary] = key[stack[j].summary] => i = j

Rejecting == \A i \in 1..Len(stack) : stack[i].summary \notin final

Path ==
    /\ stack # << >> => stack[1].summary = Start
    /\ \A i \in 1..(Len(stack) - 1) :
        /\ stack[i].sym \in Symbols
        /\ delta[stack[i].summary, stack[i].sym] = stack[i + 1].summary

StackInv == StackKeys /\ Distinct /\ Rejecting /\ Path

Tried ==
    \A i \in 1..Len(stack), a \in Symbols :
        a < stack[i].sym => Covered(stack[i].summary, a)

Outcome ==
    /\ verdict # "pending" => stack = << >>
    /\ (verdict = "pending" /\ stack = << >>) => (Live /\ dead = {})
    /\ verdict = "PROVED" => (Live /\ key[Start] \in dead)

ConflictInv ==
    /\ TypeOK
    /\ SearchedAutomaton
    /\ StackInv
    /\ Live => DeadIsCovered /\ Tried
    /\ Outcome

-----------------------------------------------------------------------------

LEMMA SymbolsAreNumbers == \A a \in Symbols : a \in Nat \ {0}
  BY AlphabetAssumption DEF Symbols

\* Trying the next symbol changes one number of the last frame.
LEMMA NextSymbolFacts ==
    ASSUME NEW frames \in Seq(Frames), frames # << >>
    PROVE  /\ NextSymbol(frames) \in Seq(Frames)
           /\ Len(NextSymbol(frames)) = Len(frames)
           /\ \A i \in 1..(Len(frames) - 1) : NextSymbol(frames)[i] = frames[i]
           /\ \A i \in 1..Len(frames) : NextSymbol(frames)[i].summary = frames[i].summary
           /\ NextSymbol(frames)[Len(frames)].sym = frames[Len(frames)].sym + 1
<1> DEFINE n == Len(frames)
           bumped == NextSymbol(frames)
<1>1. n \in Nat \ {0} /\ \A i \in 1..n : frames[i] \in Frames
  OBVIOUS
<1>2. frames[n].summary \in Summaries /\ frames[n].sym \in Nat \ {0}
  BY <1>1 DEF Frames
<1> DEFINE last == [frames[n] EXCEPT !.sym = frames[n].sym + 1]
<1>3. last \in Frames /\ last.summary = frames[n].summary /\ last.sym = frames[n].sym + 1
  BY <1>1, <1>2 DEF Frames
<1>4. bumped = [frames EXCEPT ![n] = last]
  BY DEF NextSymbol
<1> HIDE DEF last, bumped
<1>5. bumped \in Seq(Frames) /\ Len(bumped) = n
  BY <1>1, <1>3, <1>4
<1>6. bumped[n] = last /\ \A i \in 1..n : i # n => bumped[i] = frames[i]
  BY <1>1, <1>3, <1>4
<1> QED
  BY <1>1, <1>3, <1>5, <1>6 DEF bumped

\* Equal projections agree on what each symbol leads to.
LEMMA CoveredByProjection ==
    ASSUME SearchedAutomaton, NEW s \in Summaries, NEW t \in Summaries, key[s] = key[t],
           NEW a \in Symbols, Covered(s, a)
    PROVE  Covered(t, a)
<1>1. delta[s, a] \in Summaries /\ delta[t, a] \in Summaries
  BY DEF SearchedAutomaton
<1>2. key[delta[s, a]] = key[delta[t, a]]
  BY DEF SearchedAutomaton, Bisimulation
<1>3. delta[s, a] \in final <=> delta[t, a] \in final
  BY <1>1, <1>2 DEF SearchedAutomaton, Bisimulation
<1> QED
  BY <1>2, <1>3 DEF Covered

LEMMA InitConflictInv == ConflictInit => ConflictInv
<1> SUFFICES ASSUME ConflictInit
             PROVE  ConflictInv
  OBVIOUS
<1>1. TypeOK /\ SearchedAutomaton
  <2>1. stack \in Seq(Frames) /\ word \in Seq(Symbols)
    BY DEF ConflictInit
  <2>2. TypeOK
    BY <2>1 DEF ConflictInit, TypeOK
  <2>3. SearchedAutomaton
    BY DEF ConflictInit, SearchedAutomaton
  <2> QED
    BY <2>2, <2>3
<1>2. stack = << >> /\ onStack = {} /\ dead = {} /\ Live /\ verdict = "pending"
  BY DEF ConflictInit, Live
<1>3. StackInv /\ Tried /\ Outcome
  BY <1>2 DEF StackInv, StackKeys, Distinct, Rejecting, Path, Tried, Outcome
<1>4. DeadIsCovered
  BY <1>2 DEF DeadIsCovered
<1> QED
  BY <1>1, <1>3, <1>4 DEF ConflictInv

-----------------------------------------------------------------------------
(***************************************************************************)
(* The steps.                                                              *)
(***************************************************************************)

LEMMA SameInputs ==
    ASSUME SearchedAutomaton, delta' = delta, final' = final, key' = key
    PROVE  SearchedAutomaton'
<1>1. ASSUME NEW s \in Summaries, NEW t \in Summaries, key'[s] = key'[t]
      PROVE  /\ s \in final' <=> t \in final'
             /\ \A a \in Symbols : key'[delta'[s, a]] = key'[delta'[t, a]]
  BY <1>1 DEF SearchedAutomaton, Bisimulation
<1>2. Bisimulation(key)'
  BY <1>1 DEF Bisimulation
<1> QED
  BY <1>2 DEF SearchedAutomaton

\* The call on top and the summary it is looking at.
LEMMA TopFacts ==
    ASSUME ConflictInv, stack # << >>
    PROVE  /\ Len(stack) \in Nat \ {0}
           /\ stack \in Seq(Frames)
           /\ Top = stack[Len(stack)] /\ Top \in Frames
           /\ Top.summary \in Summaries /\ Top.sym \in Nat
           /\ verdict = "pending"
<1>1. stack \in Seq(Frames) /\ verdict = "pending"
  BY DEF ConflictInv, TypeOK, Outcome
<1>2. Len(stack) \in Nat \ {0} /\ stack[Len(stack)] \in Frames
  BY <1>1
<1> QED
  BY <1>1, <1>2 DEF Top, Frames

LEMMA TryingFacts ==
    ASSUME ConflictInv, Trying
    PROVE  Live /\ Top.sym \in Symbols /\ Successor \in Summaries /\ DeadIsCovered /\ Tried
<1>1. Live /\ Top.sym \in Symbols /\ stack # << >>
  BY DEF Trying, Live
<1>2. Successor \in Summaries
  BY <1>1, TopFacts DEF Successor, ConflictInv, SearchedAutomaton
<1> QED
  BY <1>1, <1>2 DEF ConflictInv

\* A step that leaves the stack alone and ends the exploration, or the call.
LEMMA QuietStep ==
    ASSUME ConflictInv, UNCHANGED <<inputVars, stack, onStack, dead>>,
           TypeOK', Live' => Live, Outcome'
    PROVE  ConflictInv'
<1>1. /\ delta' = delta /\ final' = final /\ key' = key
      /\ stack' = stack /\ onStack' = onStack /\ dead' = dead
  BY DEF inputVars
<1>2. SearchedAutomaton' /\ StackInv'
  <2>1. SearchedAutomaton'
    BY <1>1, SameInputs DEF ConflictInv
  <2>2. StackKeys'
    BY <1>1 DEF ConflictInv, StackInv, StackKeys
  <2>3. Distinct'
    BY <1>1 DEF ConflictInv, StackInv, Distinct
  <2>4. Rejecting'
    BY <1>1 DEF ConflictInv, StackInv, Rejecting
  <2>5. Path'
    BY <1>1 DEF ConflictInv, StackInv, Path
  <2> QED
    BY <2>1, <2>2, <2>3, <2>4, <2>5 DEF StackInv
<1>3. ASSUME Live'
      PROVE  DeadIsCovered' /\ Tried'
  <2>1. DeadIsCovered /\ Tried /\ Live
    BY <1>3 DEF ConflictInv
  <2>2. Tried'
    BY <1>1, <2>1 DEF Tried, Covered
  <2>3. DeadIsCovered'
    BY <1>1, <2>1 DEF DeadIsCovered, Live
  <2> QED
    BY <2>2, <2>3
<1> QED
  BY <1>2, <1>3 DEF ConflictInv

LEMMA AcceptInitialStep == ConflictInv /\ AcceptInitial => ConflictInv'
<1> SUFFICES ASSUME ConflictInv, AcceptInitial
             PROVE  ConflictInv'
  OBVIOUS
<1>1. UNCHANGED <<inputVars, stack, onStack, dead>>
  BY DEF AcceptInitial
<1>2. TypeOK'
  BY <1>1 DEF AcceptInitial, inputVars, ConflictInv, TypeOK
<1>3. Live' => Live
  BY DEF AcceptInitial, Live
<1>4. Outcome'
  BY DEF AcceptInitial, Idle, Outcome
<1> QED
  BY <1>1, <1>2, <1>3, <1>4, QuietStep

LEMMA HitFinalStep == ConflictInv /\ HitFinal => ConflictInv'
<1> SUFFICES ASSUME ConflictInv, HitFinal
             PROVE  ConflictInv'
  OBVIOUS
<1>1. UNCHANGED <<inputVars, stack, onStack, dead>> /\ Trying
  BY DEF HitFinal
<1>2. stack # << >> /\ Top.sym \in Symbols /\ verdict = "pending"
  BY <1>1, TryingFacts, TopFacts DEF Trying
<1>3. TypeOK'
  <2>1. word' \in Seq(Symbols)
    BY <1>2 DEF HitFinal
  <2> QED
    BY <1>1, <2>1 DEF HitFinal, inputVars, ConflictInv, TypeOK
<1>4. ~Live'
  BY DEF HitFinal, Live
<1>5. Outcome'
  BY <1>2, <1>4 DEF HitFinal, Outcome
<1> QED
  BY <1>1, <1>3, <1>4, <1>5, QuietStep

LEMMA OverBudgetStep == ConflictInv /\ OverBudget => ConflictInv'
<1> SUFFICES ASSUME ConflictInv, OverBudget
             PROVE  ConflictInv'
  OBVIOUS
<1>1. UNCHANGED <<inputVars, stack, onStack, dead>> /\ Trying
  BY DEF OverBudget
<1>2. stack # << >> /\ verdict = "pending"
  BY <1>1, TopFacts DEF Trying
<1>3. TypeOK'
  BY <1>1 DEF OverBudget, inputVars, ConflictInv, TypeOK
<1>4. ~Live'
  BY DEF OverBudget, Live
<1>5. Outcome'
  BY <1>2, <1>4 DEF OverBudget, Outcome
<1> QED
  BY <1>1, <1>3, <1>4, <1>5, QuietStep

LEMMA StutterStep == ConflictInv /\ UNCHANGED conflictVars => ConflictInv'
<1> SUFFICES ASSUME ConflictInv, UNCHANGED conflictVars
             PROVE  ConflictInv'
  OBVIOUS
<1>1. /\ UNCHANGED <<inputVars, stack, onStack, dead>>
      /\ UNCHANGED <<visited, truncated, found, word, verdict>>
  BY DEF conflictVars, inputVars
<1>2. TypeOK' /\ Outcome' /\ (Live' => Live)
  BY <1>1 DEF inputVars, ConflictInv, TypeOK, Outcome, Live
<1> QED
  BY <1>1, <1>2, QuietStep

LEMMA ExploreInitialStep == ConflictInv /\ ExploreInitial => ConflictInv'
<1> SUFFICES ASSUME ConflictInv, ExploreInitial
             PROVE  ConflictInv'
  OBVIOUS
<1>1. /\ stack' = <<Frame(Start)>> /\ onStack' = {key[Start]} /\ Start \notin final
      /\ delta' = delta /\ final' = final /\ key' = key /\ maxStates' = maxStates
      /\ UNCHANGED <<dead, visited, truncated, found, word, verdict>>
      /\ verdict = "pending" /\ stack = << >>
  BY DEF ExploreInitial, Idle, inputVars
<1>2. dead = {}
  BY <1>1 DEF ConflictInv, Outcome
<1>3. Frame(Start) \in Frames /\ Frame(Start).summary = Start /\ Frame(Start).sym = 1
  BY StartAssumption DEF Frame, Frames
<1>4. /\ Len(stack') = 1 /\ stack'[1] = Frame(Start) /\ stack' # << >>
      /\ stack' \in Seq(Frames)
  BY <1>1, <1>3
<1>5. key[Start] \in Summaries
  BY StartAssumption DEF ConflictInv, SearchedAutomaton
<1>6. TypeOK'
  BY <1>1, <1>4, <1>5 DEF ConflictInv, TypeOK
<1>7. SearchedAutomaton'
  BY <1>1, SameInputs DEF ConflictInv
<1>8. StackInv'
  BY <1>1, <1>3, <1>4 DEF StackInv, StackKeys, Distinct, Rejecting, Path
<1>9. Tried'
  <2>1. \A a \in Symbols : ~(a < 1)
    BY SymbolsAreNumbers
  <2> QED
    BY <1>3, <1>4, <2>1 DEF Tried
<1>10. DeadIsCovered'
  BY <1>1, <1>2 DEF DeadIsCovered
<1>11. Outcome'
  BY <1>1, <1>4 DEF Outcome
<1> QED
  BY <1>6, <1>7, <1>8, <1>9, <1>10, <1>11 DEF ConflictInv

LEMMA PruneStep == ConflictInv /\ Prune => ConflictInv'
<1> SUFFICES ASSUME ConflictInv, Prune
             PROVE  ConflictInv'
  OBVIOUS
<1> DEFINE n == Len(stack)
<1>1. /\ delta' = delta /\ final' = final /\ key' = key /\ maxStates' = maxStates
      /\ UNCHANGED <<dead, onStack, visited, truncated, found, word, verdict>>
      /\ stack' = NextSymbol(stack)
      /\ Trying /\ stack # << >>
  BY DEF Prune, inputVars, Trying
<1>2. Covered(Top.summary, Top.sym)
  BY DEF Prune, Successor, Covered
<1>3. /\ n \in Nat \ {0} /\ stack \in Seq(Frames) /\ Top = stack[n]
      /\ Top.sym \in Symbols /\ Top.sym \in Nat /\ verdict = "pending" /\ Live
      /\ DeadIsCovered /\ Tried
  BY <1>1, TopFacts, TryingFacts
<1>4. /\ stack' \in Seq(Frames)
      /\ Len(stack') = n
      /\ \A i \in 1..(n - 1) : stack'[i] = stack[i]
      /\ \A i \in 1..n : stack'[i].summary = stack[i].summary
      /\ stack'[n].sym = stack[n].sym + 1
  BY <1>1, <1>3, NextSymbolFacts
<1> HIDE DEF n
<1>5. TypeOK'
  BY <1>1, <1>4 DEF ConflictInv, TypeOK
<1>6. SearchedAutomaton'
  BY <1>1, SameInputs DEF ConflictInv
<1>7. StackInv'
  <2>1. StackKeys'
    BY <1>1, <1>4 DEF ConflictInv, StackInv, StackKeys, n
  <2>2. Distinct'
    BY <1>1, <1>4 DEF ConflictInv, StackInv, Distinct, n
  <2>3. Rejecting'
    BY <1>1, <1>4 DEF ConflictInv, StackInv, Rejecting, n
  <2>4. Path'
    <3>1. stack'[1].summary = Start
      <4>1. stack[1].summary = Start
        BY <1>1 DEF ConflictInv, StackInv, Path
      <4>2. 1 \in 1..n
        BY <1>3
      <4> QED
        BY <1>4, <4>1, <4>2
    <3>2. ASSUME NEW i \in 1..(Len(stack') - 1)
          PROVE  /\ stack'[i].sym \in Symbols
                 /\ delta'[stack'[i].summary, stack'[i].sym] = stack'[i + 1].summary
      <4>1. i \in 1..(n - 1) /\ i + 1 \in 1..n
        BY <1>3, <1>4
      <4>2. /\ stack[i].sym \in Symbols
            /\ delta[stack[i].summary, stack[i].sym] = stack[i + 1].summary
        BY <4>1 DEF ConflictInv, StackInv, Path, n
      <4> QED
        BY <1>1, <1>4, <4>1, <4>2
    <3> QED
      BY <3>1, <3>2 DEF Path
  <2> QED
    BY <2>1, <2>2, <2>3, <2>4 DEF StackInv
<1>8. DeadIsCovered'
  BY <1>1, <1>3 DEF DeadIsCovered, Live
<1>9. Tried'
  <2> SUFFICES ASSUME NEW i \in 1..Len(stack'), NEW a \in Symbols, a < stack'[i].sym
               PROVE  /\ delta'[stack'[i].summary, a] \notin final'
                      /\ key'[delta'[stack'[i].summary, a]] \in dead' \cup onStack'
    BY DEF Tried, Covered
  <2>1. Covered(stack[i].summary, a)
    <3>1. CASE i \in 1..(n - 1)
      <4>1. i \in 1..Len(stack) /\ a < stack[i].sym
        BY <1>3, <1>4, <3>1 DEF n
      <4> QED
        BY <1>3, <4>1 DEF Tried
    <3>2. CASE i = n
      <4>1. a = stack[n].sym \/ a < stack[n].sym
        BY <1>3, <1>4, <3>2, SymbolsAreNumbers
      <4>2. CASE a = stack[n].sym
        BY <1>2, <1>3, <3>2, <4>2
      <4>3. CASE a < stack[n].sym
        BY <1>3, <1>4, <3>2, <4>3 DEF Tried, n
      <4> QED
        BY <4>1, <4>2, <4>3
    <3> QED
      BY <1>3, <1>4, <3>1, <3>2
  <2>2. stack'[i].summary = stack[i].summary
    BY <1>4
  <2> QED
    BY <1>1, <2>1, <2>2 DEF Covered
<1>10. Outcome'
  <2>1. stack' # << >>
    BY <1>3, <1>4
  <2> QED
    BY <1>1, <1>3, <2>1 DEF Outcome
<1> QED
  BY <1>5, <1>6, <1>7, <1>8, <1>9, <1>10 DEF ConflictInv

LEMMA DescendStep == ConflictInv /\ Descend => ConflictInv'
<1> SUFFICES ASSUME ConflictInv, Descend
             PROVE  ConflictInv'
  OBVIOUS
<1> DEFINE n == Len(stack)
           next == Successor
<1>1. /\ delta' = delta /\ final' = final /\ key' = key /\ maxStates' = maxStates
      /\ UNCHANGED <<dead, truncated, found, word, verdict>>
      /\ visited' = visited + 1
      /\ stack' = Append(stack, Frame(next))
      /\ onStack' = onStack \cup {key[next]}
      /\ next \notin final /\ key[next] \notin onStack
      /\ Trying /\ stack # << >>
  BY DEF Descend, inputVars, Trying
<1>2. /\ n \in Nat \ {0} /\ stack \in Seq(Frames) /\ Top = stack[n]
      /\ Top.sym \in Symbols /\ next \in Summaries /\ verdict = "pending" /\ Live
      /\ DeadIsCovered /\ Tried
  BY <1>1, TopFacts, TryingFacts
<1>3. delta[stack[n].summary, stack[n].sym] = next
  BY <1>2 DEF Successor
<1>4. Frame(next) \in Frames /\ Frame(next).summary = next /\ Frame(next).sym = 1
  BY <1>2 DEF Frame, Frames
<1> HIDE DEF n, next
<1>5. /\ stack' \in Seq(Frames)
      /\ Len(stack') = n + 1
      /\ \A i \in 1..n : stack'[i] = stack[i]
      /\ stack'[n + 1].summary = next
      /\ stack'[n + 1].sym = 1
  BY <1>1, <1>2, <1>4 DEF n
<1>6. TypeOK'
  <2>1. key[next] \in Summaries
    BY <1>2 DEF ConflictInv, SearchedAutomaton
  <2>2. onStack' \in SUBSET Summaries
    BY <1>1, <2>1 DEF ConflictInv, TypeOK
  <2>3. visited' \in Nat
    <3>1. visited \in Nat
      BY DEF ConflictInv, TypeOK
    <3> QED
      BY <1>1, <3>1
  <2> QED
    BY <1>1, <1>5, <2>2, <2>3 DEF ConflictInv, TypeOK
<1>7. SearchedAutomaton'
  BY <1>1, SameInputs DEF ConflictInv
<1>8. StackInv'
  <2>1. StackKeys /\ Distinct /\ Rejecting /\ Path
    BY DEF ConflictInv, StackInv
  <2>2. StackKeys'
    <3>1. \A i \in 1..(n + 1) : key[stack'[i].summary] \in onStack \cup {key[next]}
      <4> SUFFICES ASSUME NEW i \in 1..(n + 1)
                   PROVE  key[stack'[i].summary] \in onStack \cup {key[next]}
        OBVIOUS
      <4>1. CASE i = n + 1
        BY <1>5, <4>1
      <4>2. CASE i \in 1..n
        BY <1>5, <2>1, <4>2 DEF StackKeys, n
      <4> QED
        BY <1>2, <4>1, <4>2
    <3>2. ASSUME NEW k \in onStack \cup {key[next]}
          PROVE  \E i \in 1..(n + 1) : k = key[stack'[i].summary]
      <4>1. CASE k = key[next]
        BY <1>2, <1>5, <4>1
      <4>2. CASE k \in onStack
        <5>1. PICK i \in 1..n : k = key[stack[i].summary]
          BY <2>1, <4>2 DEF StackKeys, n
        <5>2. i \in 1..(n + 1) /\ stack'[i] = stack[i]
          BY <1>2, <1>5, <5>1
        <5> QED
          BY <5>1, <5>2
      <4> QED
        BY <4>1, <4>2
    <3> QED
      BY <1>1, <1>5, <3>1, <3>2 DEF StackKeys
  <2>3. Distinct'
    <3> SUFFICES ASSUME NEW i \in 1..(n + 1), NEW j \in 1..(n + 1),
                        key[stack'[i].summary] = key[stack'[j].summary]
                 PROVE  i = j
      BY <1>1, <1>5 DEF Distinct
    <3>1. \A m \in 1..n : key[stack'[m].summary] # key[next] /\ stack'[m] = stack[m]
      BY <1>1, <1>5, <2>1 DEF StackKeys, n
    <3>2. CASE i \in 1..n /\ j \in 1..n
      BY <2>1, <3>1, <3>2 DEF Distinct, n
    <3>3. CASE i = n + 1 \/ j = n + 1
      BY <1>2, <1>5, <3>1, <3>3
    <3> QED
      BY <1>2, <3>2, <3>3
  <2>4. Rejecting'
    <3> SUFFICES ASSUME NEW i \in 1..(n + 1)
                 PROVE  stack'[i].summary \notin final
      BY <1>1, <1>5 DEF Rejecting
    <3>1. CASE i \in 1..n
      BY <1>5, <2>1, <3>1 DEF Rejecting, n
    <3>2. CASE i = n + 1
      BY <1>1, <1>5, <3>2
    <3> QED
      BY <1>2, <3>1, <3>2
  <2>5. Path'
    <3>1. stack'[1].summary = Start
      <4>1. stack[1].summary = Start
        BY <1>1, <2>1 DEF Path
      <4>2. 1 \in 1..n
        BY <1>2
      <4> QED
        BY <1>5, <4>1, <4>2
    <3>2. ASSUME NEW i \in 1..n
          PROVE  /\ stack'[i].sym \in Symbols
                 /\ delta[stack'[i].summary, stack'[i].sym] = stack'[i + 1].summary
      <4>1. CASE i = n
        <5>1. stack'[i] = stack[n] /\ stack[n].sym \in Symbols
          BY <1>2, <1>5, <4>1
        <5>2. stack'[i + 1].summary = next
          BY <1>5, <4>1
        <5> QED
          BY <1>3, <5>1, <5>2
      <4>2. CASE i \in 1..(n - 1)
        <5>1. i \in 1..n /\ i + 1 \in 1..n
          BY <1>2, <4>2
        <5>2. /\ stack[i].sym \in Symbols
              /\ delta[stack[i].summary, stack[i].sym] = stack[i + 1].summary
          BY <2>1, <4>2 DEF Path, n
        <5> QED
          BY <1>5, <5>1, <5>2
      <4>3. i = n \/ i \in 1..(n - 1)
        BY <1>2
      <4> QED
        BY <4>1, <4>2, <4>3
    <3>3. Len(stack') - 1 = n
      BY <1>2, <1>5
    <3> QED
      BY <1>1, <3>1, <3>2, <3>3 DEF Path
  <2> QED
    BY <2>2, <2>3, <2>4, <2>5 DEF StackInv
<1>9. ASSUME NEW s, NEW a, Covered(s, a)
      PROVE  /\ delta'[s, a] \notin final'
             /\ key'[delta'[s, a]] \in dead' \cup onStack'
  BY <1>1, <1>9 DEF Covered
<1>10. DeadIsCovered'
  BY <1>1, <1>2, <1>9 DEF DeadIsCovered, Live, Covered
<1>11. Tried'
  <2> SUFFICES ASSUME NEW i \in 1..(n + 1), NEW a \in Symbols, a < stack'[i].sym
               PROVE  /\ delta'[stack'[i].summary, a] \notin final'
                      /\ key'[delta'[stack'[i].summary, a]] \in dead' \cup onStack'
    BY <1>5 DEF Tried, Covered
  <2>1. i # n + 1
    BY <1>5, SymbolsAreNumbers
  <2>2. i \in 1..n /\ stack'[i] = stack[i]
    BY <1>2, <1>5, <2>1
  <2>3. Covered(stack[i].summary, a)
    BY <1>2, <2>2 DEF Tried, n
  <2> QED
    BY <1>9, <2>2, <2>3
<1>12. Outcome'
  <2>1. stack' # << >>
    BY <1>2, <1>5
  <2> QED
    BY <1>1, <1>2, <2>1 DEF Outcome
<1> QED
  BY <1>6, <1>7, <1>8, <1>10, <1>11, <1>12 DEF ConflictInv

\* What a call that is about to return without having found or given up knows:
\* every symbol has been tried from its summary, hence from all like it.
LEMMA LeavingFacts ==
    ASSUME ConflictInv, Leaving, Live
    PROVE  /\ dead' = dead \cup {key[Top.summary]}
           /\ dead \cup onStack \subseteq dead' \cup onStack'
           /\ \A s \in Summaries : key[s] \in dead' =>
                \A a \in Symbols : Covered(s, a)
<1> DEFINE n == Len(stack)
<1>1. /\ stack # << >> /\ Top.sym > AlphabetSize
      /\ onStack' = onStack \ {key[Top.summary]}
      /\ dead' = dead \cup {key[Top.summary]}
  BY DEF Leaving, Live
<1>2. /\ n \in Nat \ {0} /\ Top = stack[n] /\ Top.summary \in Summaries /\ Top.sym \in Nat
  BY <1>1, TopFacts
<1> HIDE DEF n
<1>3. \A a \in Symbols : Covered(Top.summary, a)
  <2>1. \A a \in Symbols : a < Top.sym
    BY <1>1, <1>2, AlphabetAssumption DEF Symbols
  <2>2. n \in 1..Len(stack)
    BY <1>2 DEF n
  <2> QED
    BY <1>2, <2>1, <2>2 DEF ConflictInv, Tried
<1>4. ASSUME NEW s \in Summaries, key[s] \in dead', NEW a \in Symbols
      PROVE  Covered(s, a)
  <2>1. CASE key[s] \in dead
    BY <2>1 DEF ConflictInv, DeadIsCovered, Live, Covered
  <2>2. CASE key[s] = key[Top.summary]
    BY <1>2, <1>3, <2>2, CoveredByProjection DEF ConflictInv
  <2> QED
    BY <1>1, <1>4, <2>1, <2>2
<1> QED
  BY <1>1, <1>4

LEMMA ReturnToCallerStep == ConflictInv /\ ReturnToCaller => ConflictInv'
<1> SUFFICES ASSUME ConflictInv, ReturnToCaller
             PROVE  ConflictInv'
  OBVIOUS
<1> DEFINE n == Len(stack)
           m == n - 1
<1>1. /\ delta' = delta /\ final' = final /\ key' = key /\ maxStates' = maxStates
      /\ UNCHANGED <<visited, truncated, found, verdict>>
      /\ stack' = NextSymbol(Callers)
      /\ onStack' = onStack \ {key[Top.summary]}
      /\ Leaving /\ stack # << >> /\ n > 1
  BY DEF ReturnToCaller, Leaving, inputVars
<1>2. /\ n \in Nat \ {0} /\ stack \in Seq(Frames) /\ Top = stack[n]
      /\ Top.summary \in Summaries /\ verdict = "pending"
  BY <1>1, TopFacts
<1>3. m \in Nat \ {0} /\ m + 1 = n /\ m \in 1..n /\ n \in 1..n
  BY <1>1, <1>2
<1>4. /\ Callers \in Seq(Frames) /\ Len(Callers) = m
      /\ \A i \in 1..m : Callers[i] = stack[i]
  BY <1>2, <1>3 DEF Callers
<1> HIDE DEF n, m
<1>5. Callers # << >>
  BY <1>3, <1>4
<1>6. /\ stack' \in Seq(Frames)
      /\ Len(stack') = m
      /\ \A i \in 1..(m - 1) : stack'[i] = stack[i]
      /\ \A i \in 1..m : stack'[i].summary = stack[i].summary
      /\ stack'[m].sym = stack[m].sym + 1
  <2>1. \A i \in 1..(m - 1) : stack'[i] = Callers[i]
    BY <1>1, <1>4, <1>5, NextSymbolFacts
  <2>2. \A i \in 1..m : stack'[i].summary = Callers[i].summary
    BY <1>1, <1>4, <1>5, NextSymbolFacts
  <2>3. stack'[m].sym = Callers[m].sym + 1
    BY <1>1, <1>4, <1>5, NextSymbolFacts
  <2>4. stack' \in Seq(Frames) /\ Len(stack') = m
    BY <1>1, <1>4, <1>5, NextSymbolFacts
  <2> QED
    BY <1>3, <1>4, <2>1, <2>2, <2>3, <2>4
<1>7. \A i \in 1..m : i \in 1..n /\ i # n
  BY <1>3
<1>8. StackKeys /\ Distinct /\ Rejecting /\ Path
  BY DEF ConflictInv, StackInv
<1>9. /\ stack[m].sym \in Symbols /\ stack[n].summary \notin final
      /\ delta[stack[m].summary, stack[m].sym] = stack[n].summary
  <2>1. m \in 1..(n - 1)
    BY <1>3
  <2>2. /\ stack[m].sym \in Symbols
        /\ delta[stack[m].summary, stack[m].sym] = stack[m + 1].summary
    BY <1>8, <2>1 DEF Path, n
  <2> QED
    BY <1>3, <1>8, <2>2 DEF Rejecting, n
<1>10. TypeOK'
  <2>1. word' \in Seq(Symbols)
    <3>1. word \in Seq(Symbols)
      BY DEF ConflictInv, TypeOK
    <3>2. Callers[Len(Callers)].sym \in Symbols
      <4>1. m \in 1..m
        BY <1>3
      <4>2. Len(Callers) = m /\ Callers[m] = stack[m]
        BY <1>4, <4>1
      <4> QED
        BY <1>9, <4>2
    <3> QED
      BY <3>1, <3>2 DEF ReturnToCaller
  <2>2. dead' \in SUBSET Summaries
    <3>1. key[Top.summary] \in Summaries
      BY <1>2 DEF ConflictInv, SearchedAutomaton
    <3> QED
      BY <1>1, <3>1 DEF Leaving, ConflictInv, TypeOK
  <2>3. onStack' \in SUBSET Summaries
    BY <1>1 DEF ConflictInv, TypeOK
  <2> QED
    BY <1>1, <1>6, <2>1, <2>2, <2>3 DEF ConflictInv, TypeOK
<1>11. SearchedAutomaton'
  BY <1>1, SameInputs DEF ConflictInv
<1>12. StackInv'
  <2>1. StackKeys'
    <3>1. ASSUME NEW i \in 1..m
          PROVE  key[stack'[i].summary] \in onStack'
      <4>1. key[stack[i].summary] \in onStack /\ key[stack[i].summary] # key[stack[n].summary]
        BY <1>3, <1>7, <1>8 DEF StackKeys, Distinct, n
      <4> QED
        BY <1>1, <1>2, <1>6, <4>1
    <3>2. ASSUME NEW k \in onStack'
          PROVE  \E i \in 1..m : k = key[stack'[i].summary]
      <4>1. k \in onStack /\ k # key[stack[n].summary]
        BY <1>1, <1>2
      <4>2. PICK i \in 1..n : k = key[stack[i].summary]
        BY <1>8, <4>1 DEF StackKeys, n
      <4>3. i \in 1..m
        BY <1>3, <4>1, <4>2
      <4> QED
        BY <1>6, <4>2, <4>3
    <3> QED
      BY <1>1, <1>6, <3>1, <3>2 DEF StackKeys
  <2>2. Distinct'
    BY <1>1, <1>6, <1>7, <1>8 DEF Distinct, n
  <2>3. Rejecting'
    BY <1>1, <1>6, <1>7, <1>8 DEF Rejecting, n
  <2>4. Path'
    <3>1. stack'[1].summary = Start
      <4>1. 1 \in 1..m
        BY <1>3
      <4> QED
        BY <1>1, <1>6, <1>8, <4>1 DEF Path
    <3>2. ASSUME NEW i \in 1..(m - 1)
          PROVE  /\ stack'[i].sym \in Symbols
                 /\ delta[stack'[i].summary, stack'[i].sym] = stack'[i + 1].summary
      <4>1. i \in 1..(n - 1) /\ i + 1 \in 1..m
        BY <1>3
      <4>2. /\ stack[i].sym \in Symbols
            /\ delta[stack[i].summary, stack[i].sym] = stack[i + 1].summary
        BY <1>8, <4>1 DEF Path, n
      <4> QED
        BY <1>6, <4>1, <4>2
    <3> QED
      BY <1>1, <1>6, <3>1, <3>2 DEF Path
  <2> QED
    BY <2>1, <2>2, <2>3, <2>4 DEF StackInv
<1>13. ASSUME Live'
       PROVE  DeadIsCovered' /\ Tried'
  <2>1. Live
    BY <1>1, <1>13 DEF Live
  <2>2. /\ dead' = dead \cup {key[Top.summary]}
        /\ dead \cup onStack \subseteq dead' \cup onStack'
        /\ \A s \in Summaries : key[s] \in dead' => \A a \in Symbols : Covered(s, a)
    BY <1>1, <2>1, LeavingFacts
  <2>3. ASSUME NEW s, NEW a, Covered(s, a)
        PROVE  /\ delta'[s, a] \notin final'
               /\ key'[delta'[s, a]] \in dead' \cup onStack'
    BY <1>1, <2>2, <2>3 DEF Covered
  <2>4. DeadIsCovered'
    BY <1>1, <2>2, <2>3 DEF DeadIsCovered
  <2>5. Tried'
    <3> SUFFICES ASSUME NEW i \in 1..m, NEW a \in Symbols, a < stack'[i].sym
                 PROVE  /\ delta'[stack'[i].summary, a] \notin final'
                        /\ key'[delta'[stack'[i].summary, a]] \in dead' \cup onStack'
      BY <1>6 DEF Tried, Covered
    <3>1. i \in 1..n /\ stack'[i].summary = stack[i].summary
      BY <1>6, <1>7
    <3>2. CASE a < stack[i].sym
      <4>1. Covered(stack[i].summary, a)
        BY <2>1, <3>1, <3>2 DEF ConflictInv, Tried, n
      <4> QED
        BY <2>3, <3>1, <4>1
    <3>3. CASE i = m /\ a = stack[m].sym
      <4>1. delta[stack[i].summary, a] = Top.summary
        BY <1>2, <1>9, <3>3
      <4>2. Top.summary \notin final /\ key[Top.summary] \in dead'
        BY <1>2, <1>9, <2>2
      <4> QED
        BY <1>1, <3>1, <4>1, <4>2
    <3>4. a < stack[i].sym \/ (i = m /\ a = stack[m].sym)
      <4>1. CASE i = m
        <5>1. a < stack[m].sym + 1 /\ a \in Nat /\ stack[m].sym \in Nat
          BY <1>6, <1>9, <4>1, SymbolsAreNumbers
        <5> QED
          BY <4>1, <5>1
      <4>2. CASE i \in 1..(m - 1)
        BY <1>6, <4>2
      <4>3. i = m \/ i \in 1..(m - 1)
        BY <1>3
      <4> QED
        BY <4>1, <4>2, <4>3
    <3> QED
      BY <3>2, <3>3, <3>4
  <2> QED
    BY <2>4, <2>5
<1>14. Outcome'
  <2>1. stack' # << >>
    BY <1>3, <1>6
  <2> QED
    BY <1>1, <1>2, <2>1 DEF Outcome
<1> QED
  BY <1>10, <1>11, <1>12, <1>13, <1>14 DEF ConflictInv

\* The outermost call leaves no frame behind.
LEMMA EmptySeqFacts ==
  ASSUME NEW S
  PROVE  << >> \in Seq(S) /\ Len(<< >>) = 0 /\ 1..Len(<< >>) = {} /\ 1..(Len(<< >>) - 1) = {}
<1>1. << >> \in Seq(S) /\ Len(<< >>) = 0
  OBVIOUS
<1>2. 1..0 = {} /\ 1..(0 - 1) = {}
  OBVIOUS
<1> QED
  BY <1>1, <1>2

LEMMA ConcludeStep == ConflictInv /\ Conclude => ConflictInv'
<1> SUFFICES ASSUME ConflictInv, Conclude
             PROVE  ConflictInv'
  OBVIOUS
<1>1. /\ delta' = delta /\ final' = final /\ key' = key /\ maxStates' = maxStates
      /\ UNCHANGED <<visited, truncated, found, word>>
      /\ stack' = << >> /\ Len(stack) = 1 /\ stack # << >>
      /\ onStack' = onStack \ {key[Top.summary]}
      /\ verdict' = IF truncated THEN "UNKNOWN" ELSE IF found THEN "NOT PROVED" ELSE "PROVED"
      /\ Leaving
  BY DEF Conclude, Leaving, inputVars
<1>2. Top = stack[1] /\ Top.summary = Start
  BY <1>1 DEF Top, ConflictInv, StackInv, Path
<1>3. onStack' = {}
  <2>1. \A k \in onStack : \E i \in 1..1 : k = key[stack[i].summary]
    BY <1>1 DEF ConflictInv, StackInv, StackKeys
  <2>2. \A i \in 1..1 : i = 1
    OBVIOUS
  <2> QED
    BY <1>1, <1>2, <2>1, <2>2
<1>3a. Len(stack') = 0 /\ 1..Len(stack') = {} /\ 1..(Len(stack') - 1) = {}
  BY <1>1, EmptySeqFacts
<1>4. TypeOK'
  <2>1. key[Top.summary] \in Summaries
    BY <1>2, StartAssumption DEF ConflictInv, SearchedAutomaton
  <2>2. dead' \in SUBSET Summaries
    BY <2>1 DEF Conclude, Leaving, ConflictInv, TypeOK
  <2>3. stack' \in Seq(Frames)
    BY <1>1, EmptySeqFacts
  <2> QED
    BY <1>1, <1>3, <2>2, <2>3 DEF ConflictInv, TypeOK
<1>5. SearchedAutomaton'
  BY <1>1, SameInputs DEF ConflictInv
<1>6. StackInv'
  <2>1. StackKeys'
    BY <1>3, <1>3a DEF StackKeys
  <2>2. Distinct' /\ Rejecting'
    BY <1>3a DEF Distinct, Rejecting
  <2>3. Path'
    BY <1>1, <1>3a DEF Path
  <2> QED
    BY <2>1, <2>2, <2>3 DEF StackInv
<1>7. ASSUME Live'
      PROVE  DeadIsCovered' /\ Tried'
  <2>1. Live
    BY <1>1, <1>7 DEF Live
  <2>2. /\ dead \cup onStack \subseteq dead' \cup onStack'
        /\ \A s \in Summaries : key[s] \in dead' => \A a \in Symbols : Covered(s, a)
    BY <1>1, <2>1, LeavingFacts
  <2>3. DeadIsCovered'
    BY <1>1, <2>2 DEF DeadIsCovered, Covered
  <2>4. Tried'
    BY <1>3a DEF Tried
  <2> QED
    BY <2>3, <2>4
<1>8. Outcome'
  <2>1. verdict' = "PROVED" => Live' /\ key'[Start] \in dead'
    <3>1. verdict' = "PROVED" => Live /\ Live'
      BY <1>1 DEF Live
    <3>2. Live => key[Start] \in dead'
      BY <1>1, <1>2, LeavingFacts
    <3> QED
      BY <1>1, <3>1, <3>2
  <2>2. verdict' # "pending"
    BY <1>1
  <2> QED
    BY <1>1, <2>1, <2>2 DEF Outcome
<1> QED
  BY <1>4, <1>5, <1>6, <1>7, <1>8 DEF ConflictInv

-----------------------------------------------------------------------------

\* ConflictInv is inductive.
THEOREM ConflictInvHolds == ConflictSpec => []ConflictInv
<1>1. ConflictInv /\ [ConflictNext]_conflictVars => ConflictInv'
  BY AcceptInitialStep, ExploreInitialStep, HitFinalStep, PruneStep, OverBudgetStep,
     DescendStep, ReturnToCallerStep, ConcludeStep, StutterStep DEF ConflictNext
<1> QED
  BY <1>1, InitConflictInv, PTL DEF ConflictSpec

\* The variables keep their types.
THEOREM ConflictTypeCorrect == ConflictSpec => []TypeOK
<1>1. ConflictInv => TypeOK
  BY DEF ConflictInv
<1> QED
  BY <1>1, ConflictInvHolds, PTL

\* While the search runs, whatever a dead summary leads to is rejecting, and
\* dead or still being explored.
THEOREM DeadCovered == ConflictSpec => []DeadIsCovered
<1>1. ConflictInv => DeadIsCovered
  BY DEF ConflictInv, DeadIsCovered, Live
<1> QED
  BY <1>1, ConflictInvHolds, PTL

\* Pruning on projections, inside cycles too, never hides an accepted word:
\* when the search reports PROVED, no nonempty word is accepted.
THEOREM ProvedSound == ConflictSpec => []ProvedIsSound
<1>1. ConflictInv => ProvedIsSound
  <2> SUFFICES ASSUME ConflictInv, verdict = "PROVED"
               PROVE  ReachableFrom(Successors(Start)) \cap final = {}
    BY DEF ProvedIsSound, NonemptyAccepted
  <2> DEFINE C == {s \in Summaries : key[s] \in dead /\ s \notin final}
  <2>1. Live /\ key[Start] \in dead /\ stack = << >>
    BY DEF ConflictInv, Outcome
  <2>2. onStack = {}
    BY <2>1 DEF ConflictInv, StackInv, StackKeys
  <2>3. ASSUME NEW s \in Summaries, key[s] \in dead, NEW a \in Symbols
        PROVE  delta[s, a] \in C
    <3>1. delta[s, a] \notin final /\ key[delta[s, a]] \in dead
      BY <2>1, <2>2, <2>3 DEF ConflictInv, DeadIsCovered, Live
    <3>2. delta[s, a] \in Summaries
      BY DEF ConflictInv, SearchedAutomaton
    <3> QED
      BY <3>1, <3>2
  <2>4. Successors(Start) \subseteq C
    BY <2>1, <2>3, StartAssumption DEF Successors
  <2>5. Closed(C)
    BY <2>3 DEF Closed
  <2>6. ReachableFrom(Successors(Start)) \subseteq C
    BY <2>4, <2>5 DEF ReachableFrom
  <2> QED
    BY <2>6
<1> QED
  BY <1>1, ConflictInvHolds, PTL

\* Once a word has been found the calls only return: nothing is discovered,
\* nothing becomes dead, and the word is not given up.
THEOREM FoundUnwinds == ConflictSpec => FoundOnlyUnwinds
<1> DEFINE Unwinds == /\ UNCHANGED <<visited, dead, truncated, found>>
                      /\ Len(stack') < Len(stack)
<1>1. ASSUME ConflictInv, ConflictNext, found
      PROVE  Unwinds
  <2>1. ~Idle
    BY <1>1 DEF Idle, ConflictInv, Outcome, Live
  <2>2. ReturnToCaller \/ Conclude
    BY <1>1, <2>1 DEF ConflictNext, AcceptInitial, ExploreInitial, HitFinal, Prune,
                      OverBudget, Descend, Trying
  <2>3. dead' = dead
    BY <1>1, <2>2 DEF ReturnToCaller, Conclude, Leaving
  <2>4. CASE ReturnToCaller
    <3>1. stack \in Seq(Frames) /\ Len(stack) \in Nat /\ Len(stack) > 1
      <4>1. stack \in Seq(Frames)
        BY <1>1 DEF ConflictInv, TypeOK
      <4>2. Len(stack) > 1
        BY <2>4 DEF ReturnToCaller
      <4> QED
        BY <4>1, <4>2
    <3>2. Callers \in Seq(Frames) /\ Len(Callers) = Len(stack) - 1
      BY <3>1 DEF Callers
    <3>3. Callers # << >>
      BY <3>1, <3>2
    <3>4. Len(NextSymbol(Callers)) = Len(Callers)
      BY <3>2, <3>3, NextSymbolFacts
    <3>5. /\ stack' = NextSymbol(Callers)
          /\ visited' = visited /\ truncated' = truncated /\ found' = found
      BY <2>4 DEF ReturnToCaller
    <3> QED
      BY <2>3, <3>1, <3>2, <3>4, <3>5
  <2>5. CASE Conclude
    <3>1. Len(stack') = 0 /\ Len(stack) = 1
      BY <2>5, EmptySeqFacts DEF Conclude
    <3>2. visited' = visited /\ truncated' = truncated /\ found' = found
      BY <2>5 DEF Conclude
    <3> QED
      BY <2>3, <3>1, <3>2
  <2> QED
    BY <2>2, <2>4, <2>5
<1>2. ConflictInv /\ [ConflictNext]_conflictVars => [found => Unwinds]_conflictVars
  BY <1>1
<1> QED
  BY <1>2, ConflictInvHolds, PTL DEF ConflictSpec, FoundOnlyUnwinds

-----------------------------------------------------------------------------
(***************************************************************************)
(* ConflictSearch implements EmptinessCheck: every step of the search      *)
(* leaves the verdict alone or is the one answer that EmptinessCheck       *)
(* allows, for every automaton, projection and budget.  (That an answer    *)
(* comes is liveness and is checked by TLC, as KeepsPromise.)              *)
(*                                                                         *)
(* ConflictInv says why PROVED is right.  That NOT PROVED is right needs   *)
(* that the calls in progress stand on reachable summaries, which          *)
(* PromiseInv adds.                                                        *)
(***************************************************************************)

Reach == ReachableFrom({Start})

OnReachable == \A i \in 1..Len(stack) : stack[i].summary \in Reach

PromiseInv ==
    /\ OnReachable
    /\ found => CountedAsAccepted
    /\ verdict = "PROVED" => Start \notin final

ProvedIsRight == verdict = "PROVED" => ~CountedAsAccepted

-----------------------------------------------------------------------------

\* The initial summary is reachable, and so are the successors of what is.
LEMMA ReachIsClosed ==
    ASSUME SearchedAutomaton
    PROVE  /\ Start \in Reach
           /\ \A s \in Reach, a \in Symbols : delta[s, a] \in Reach
<1>1. Start \in Reach
  BY StartAssumption DEF Reach, ReachableFrom
<1>2. ASSUME NEW s \in Reach, NEW a \in Symbols
      PROVE  delta[s, a] \in Reach
  <2>1. s \in Summaries /\ delta[s, a] \in Summaries
    BY <1>2 DEF SearchedAutomaton, Reach, ReachableFrom
  <2>2. ASSUME NEW C \in SUBSET Summaries, {Start} \subseteq C, Closed(C)
        PROVE  delta[s, a] \in C
    <3>1. s \in C
      BY <2>2 DEF Reach, ReachableFrom
    <3> QED
      BY <2>2, <3>1 DEF Closed
  <2> QED
    BY <2>1, <2>2 DEF Reach, ReachableFrom
<1> QED
  BY <1>1, <1>2

\* What is reachable, and whether something accepting is, never changes.
LEMMA InputsStay ==
    ASSUME ConflictNext \/ UNCHANGED conflictVars
    PROVE  /\ delta' = delta /\ final' = final
           /\ Reach' = Reach
           /\ CountedAsAccepted' = CountedAsAccepted
<1>1. delta' = delta /\ final' = final
  <2>1. CASE UNCHANGED conflictVars
    BY <2>1 DEF conflictVars
  <2>2. CASE AcceptInitial \/ ExploreInitial \/ HitFinal \/ Prune
    BY <2>2 DEF AcceptInitial, ExploreInitial, HitFinal, Prune, inputVars
  <2>3. CASE OverBudget \/ Descend \/ ReturnToCaller \/ Conclude
    BY <2>3 DEF OverBudget, Descend, ReturnToCaller, Conclude, inputVars
  <2> QED
    BY <2>1, <2>2, <2>3 DEF ConflictNext
<1>2. Reach' = Reach
  BY <1>1 DEF Reach, ReachableFrom, Closed
<1> QED
  BY <1>1, <1>2 DEF CountedAsAccepted, Reach

LEMMA InitPromiseInv == ConflictInit => PromiseInv
<1> SUFFICES ASSUME ConflictInit
             PROVE  PromiseInv
  OBVIOUS
<1>1. 1..Len(stack) = {} /\ ~found /\ verdict # "PROVED"
  BY EmptySeqFacts DEF ConflictInit
<1> QED
  BY <1>1 DEF PromiseInv, OnReachable

\* The frames: a step leaves their summaries, drops the last one, or adds one
\* that the last one leads to.
LEMMA OnReachableStep ==
    ASSUME ConflictInv, OnReachable, ConflictNext
    PROVE  OnReachable'
<1>0. stack \in Seq(Frames)
  BY DEF ConflictInv, TypeOK
<1>1. /\ Reach' = Reach
      /\ Start \in Reach /\ \A s \in Reach, a \in Symbols : delta[s, a] \in Reach
  BY InputsStay, ReachIsClosed DEF ConflictInv
<1>2. CASE AcceptInitial \/ HitFinal \/ OverBudget
  <2>1. stack' = stack
    BY <1>2 DEF AcceptInitial, HitFinal, OverBudget
  <2> QED
    BY <1>1, <2>1 DEF OnReachable
<1>3. CASE ExploreInitial
  <2>1. stack' = <<Frame(Start)>> /\ Frame(Start).summary = Start
    BY <1>3 DEF ExploreInitial, Frame
  <2>2. Len(stack') = 1 /\ stack'[1].summary = Start
    BY <2>1
  <2>3. \A i \in 1..1 : i = 1
    OBVIOUS
  <2> QED
    BY <1>1, <2>2, <2>3 DEF OnReachable
<1>4. CASE Prune
  <2>1. stack' = NextSymbol(stack) /\ stack # << >>
    BY <1>4 DEF Prune, Trying
  <2>2. /\ Len(stack') = Len(stack)
        /\ \A i \in 1..Len(stack) : stack'[i].summary = stack[i].summary
    BY <1>0, <2>1, NextSymbolFacts
  <2> QED
    BY <1>1, <2>2 DEF OnReachable
<1>5. CASE Descend
  <2> DEFINE n == Len(stack)
  <2>1. stack' = Append(stack, Frame(Successor)) /\ Trying
    BY <1>5 DEF Descend
  <2>2. /\ stack # << >> /\ Top.sym \in Symbols /\ Successor \in Summaries
        /\ n \in Nat \ {0} /\ Top = stack[n]
    BY <2>1, TryingFacts, TopFacts DEF Trying
  <2>3. Frame(Successor) \in Frames /\ Frame(Successor).summary = Successor
    BY <2>2 DEF Frame, Frames
  <2>4. /\ Len(stack') = n + 1
        /\ \A i \in 1..n : stack'[i] = stack[i]
        /\ stack'[n + 1] = Frame(Successor)
    BY <1>0, <2>1, <2>3
  <2> HIDE DEF n
  <2>5. n \in 1..n /\ \A i \in 1..(n + 1) : i \in 1..n \/ i = n + 1
    BY <2>2
  <2>6. Successor \in Reach
    BY <1>1, <2>2, <2>5 DEF OnReachable, Successor, n
  <2>7. \A i \in 1..n : stack'[i].summary \in Reach
    BY <2>4 DEF OnReachable, n
  <2>8. stack'[n + 1].summary \in Reach
    BY <2>3, <2>4, <2>6
  <2> QED
    BY <1>1, <2>4, <2>5, <2>7, <2>8 DEF OnReachable
<1>6. CASE ReturnToCaller
  <2> DEFINE n == Len(stack)
  <2>1. stack' = NextSymbol(Callers) /\ n > 1 /\ n \in Nat
    BY <1>0, <1>6 DEF ReturnToCaller
  <2>2. /\ Callers \in Seq(Frames) /\ Len(Callers) = n - 1
        /\ \A i \in 1..(n - 1) : Callers[i] = stack[i]
    BY <1>0, <2>1 DEF Callers
  <2>3. Callers # << >>
    BY <2>1, <2>2
  <2>4. /\ Len(stack') = n - 1
        /\ \A i \in 1..(n - 1) : stack'[i].summary = Callers[i].summary
    BY <2>1, <2>2, <2>3, NextSymbolFacts
  <2>5. \A i \in 1..(n - 1) : i \in 1..n
    BY <2>1
  <2> QED
    BY <1>1, <2>2, <2>4, <2>5 DEF OnReachable
<1>7. CASE Conclude
  <2>1. 1..Len(stack') = {}
    BY <1>7, EmptySeqFacts DEF Conclude
  <2> QED
    BY <2>1 DEF OnReachable
<1> QED
  BY <1>2, <1>3, <1>4, <1>5, <1>6, <1>7 DEF ConflictNext

\* A call in progress means that the initial summary was found to reject.
LEMMA StartRejects ==
    ASSUME ConflictInv, stack # << >>
    PROVE  Start \notin final
<1>0. 1 \in 1..Len(stack)
  <2>1. Len(stack) \in Nat \ {0}
    BY TopFacts
  <2> QED
    BY <2>1
<1>1. stack[1].summary = Start /\ 1 \in 1..Len(stack)
  BY <1>0 DEF ConflictInv, StackInv, Path
<1> QED
  BY <1>1 DEF ConflictInv, StackInv, Rejecting

LEMMA PromiseInvStep ==
    ASSUME ConflictInv, PromiseInv, ConflictNext
    PROVE  PromiseInv'
<1>1. OnReachable' /\ CountedAsAccepted' = CountedAsAccepted /\ final' = final
  BY OnReachableStep, InputsStay DEF PromiseInv
<1>2. found' => CountedAsAccepted
  <2>1. CASE HitFinal
    <3>1. /\ Successor \in final /\ stack # << >> /\ Top.sym \in Symbols
          /\ Top = stack[Len(stack)] /\ Len(stack) \in Nat \ {0}
      BY <2>1, TopFacts DEF HitFinal, Trying
    <3>2. Top.summary \in Reach
      BY <3>1 DEF PromiseInv, OnReachable
    <3>3. Successor \in Reach
      BY <3>1, <3>2, ReachIsClosed DEF Successor, ConflictInv
    <3> QED
      BY <3>1, <3>3 DEF CountedAsAccepted, Reach
  <2>2. CASE ~HitFinal
    <3>1. found' = found
      BY <2>2 DEF ConflictNext, AcceptInitial, ExploreInitial, Prune, OverBudget,
                  Descend, ReturnToCaller, Conclude
    <3> QED
      BY <3>1 DEF PromiseInv
  <2> QED
    BY <2>1, <2>2
<1>3. verdict' = "PROVED" => Start \notin final
  <2>1. CASE Conclude
    <3>1. stack # << >>
      BY <2>1 DEF Conclude, Leaving
    <3> QED
      BY <3>1, StartRejects
  <2>2. CASE ~Conclude
    <3>1. verdict' = verdict \/ verdict' = "NOT PROVED"
      BY <2>2 DEF ConflictNext, AcceptInitial, ExploreInitial, HitFinal, Prune,
                  OverBudget, Descend, ReturnToCaller
    <3> QED
      BY <3>1 DEF PromiseInv
  <2> QED
    BY <2>1, <2>2
<1> QED
  BY <1>1, <1>2, <1>3 DEF PromiseInv

\* PROVED: the dead summaries that reject are closed and hold the initial one.
LEMMA ProvedMeansNone == ConflictInv /\ PromiseInv => ProvedIsRight
<1> SUFFICES ASSUME ConflictInv, PromiseInv, verdict = "PROVED"
             PROVE  ~CountedAsAccepted
  BY DEF ProvedIsRight
<1> DEFINE C == {s \in Summaries : key[s] \in dead /\ s \notin final}
<1>1. Live /\ key[Start] \in dead /\ stack = << >> /\ Start \notin final
  BY DEF ConflictInv, Outcome, PromiseInv
<1>2. onStack = {}
  BY <1>1 DEF ConflictInv, StackInv, StackKeys
<1>3. ASSUME NEW s \in Summaries, key[s] \in dead, NEW a \in Symbols
      PROVE  delta[s, a] \in C
  <2>1. delta[s, a] \notin final /\ key[delta[s, a]] \in dead
    BY <1>1, <1>2, <1>3 DEF ConflictInv, DeadIsCovered, Live
  <2>2. delta[s, a] \in Summaries
    BY DEF ConflictInv, SearchedAutomaton
  <2> QED
    BY <2>1, <2>2
<1>4. {Start} \subseteq C /\ Closed(C)
  BY <1>1, <1>3, StartAssumption DEF Closed
<1>5. Reach \subseteq C
  BY <1>4 DEF Reach, ReachableFrom
<1> QED
  BY <1>5 DEF CountedAsAccepted, Reach

\* A step that changes the verdict is an Answer of EmptinessCheck.
LEMMA StepAnswers ==
    ASSUME ConflictInv, PromiseInv, ConflictNext, PromiseInv', ProvedIsRight'
    PROVE  Promise!Answer \/ UNCHANGED Promise!checkVars
<1>1. CountedAsAccepted' = CountedAsAccepted
  BY InputsStay
<1>2. CASE AcceptInitial
  <2>1. verdict = "pending" /\ verdict' = "NOT PROVED" /\ Start \in final
    BY <1>2 DEF AcceptInitial, Idle
  <2>2. CountedAsAccepted
    BY <2>1, ReachIsClosed DEF ConflictInv, CountedAsAccepted, Reach
  <2> QED
    BY <1>1, <2>1, <2>2 DEF Promise!Answer
<1>3. CASE Conclude
  <2>1. /\ verdict = "pending"
        /\ verdict' = IF truncated THEN "UNKNOWN" ELSE IF found THEN "NOT PROVED" ELSE "PROVED"
    BY <1>3, TopFacts DEF Conclude, Leaving
  <2>2. CASE truncated
    BY <1>1, <2>1, <2>2 DEF Promise!Answer
  <2>3. CASE ~truncated /\ found
    BY <1>1, <2>1, <2>3 DEF Promise!Answer, PromiseInv
  <2>4. CASE ~truncated /\ ~found
    <3>1. verdict' = "PROVED"
      BY <2>1, <2>4
    <3>2. ~CountedAsAccepted'
      BY <3>1 DEF ProvedIsRight
    <3> QED
      BY <1>1, <2>1, <3>1, <3>2 DEF Promise!Answer
  <2> QED
    BY <2>2, <2>3, <2>4
<1>4. CASE ~AcceptInitial /\ ~Conclude
  <2>1. verdict' = verdict
    BY <1>4 DEF ConflictNext, ExploreInitial, HitFinal, Prune, OverBudget, Descend, ReturnToCaller
  <2> QED
    BY <1>1, <2>1 DEF Promise!checkVars
<1> QED
  BY <1>2, <1>3, <1>4

-----------------------------------------------------------------------------

\* Calls stand on reachable summaries, and a found word is a reachable one.
THEOREM PromiseInvHolds == ConflictSpec => []PromiseInv
<1>1. UNCHANGED conflictVars /\ PromiseInv => PromiseInv'
  <2> SUFFICES ASSUME UNCHANGED conflictVars, PromiseInv
               PROVE  PromiseInv'
    OBVIOUS
  <2>1. stack' = stack /\ found' = found /\ verdict' = verdict /\ final' = final
    BY DEF conflictVars
  <2>2. Reach' = Reach /\ CountedAsAccepted' = CountedAsAccepted
    BY InputsStay
  <2> QED
    BY <2>1, <2>2 DEF PromiseInv, OnReachable
<1>2. ConflictInv /\ PromiseInv /\ [ConflictNext]_conflictVars => PromiseInv'
  BY <1>1, PromiseInvStep
<1> QED
  BY <1>2, InitPromiseInv, ConflictInvHolds, PTL DEF ConflictSpec

\* --run-native-conflict implements EmptinessCheck, up to liveness: it starts
\* without an answer, gives at most one, and that one is UNKNOWN or right about
\* the words it counts, whatever the automaton, the projection and the budget.
THEOREM ConflictRefines ==
    ConflictSpec => Promise!CheckInit /\ [][Promise!Answer]_(Promise!checkVars)
<1>1. ConflictInit => Promise!CheckInit
  BY DEF ConflictInit, Promise!CheckInit, CountedAsAccepted
<1>2. ConflictInv /\ PromiseInv => ProvedIsRight
  BY ProvedMeansNone
<1>3. ASSUME ConflictInv, PromiseInv, [ConflictNext]_conflictVars, PromiseInv', ProvedIsRight'
      PROVE  [Promise!Answer]_(Promise!checkVars)
  <2>1. CASE ConflictNext
    BY <1>3, <2>1, StepAnswers
  <2>2. CASE UNCHANGED conflictVars
    <3>1. verdict' = verdict /\ CountedAsAccepted' = CountedAsAccepted
      BY <2>2, InputsStay DEF conflictVars
    <3> QED
      BY <3>1 DEF Promise!checkVars
  <2> QED
    BY <1>3, <2>1, <2>2
<1> QED
  BY <1>1, <1>2, <1>3, ConflictInvHolds, PromiseInvHolds, PTL DEF ConflictSpec

-----------------------------------------------------------------------------
(***************************************************************************)
(* UNKNOWN is honest.  The projections in dead and on the stack belong to  *)
(* reachable summaries, and while the search lives there is one of them    *)
(* for every state counted in visited and one for the initial state; when  *)
(* a search ends, what its calls drop from onStack they put into dead.  So *)
(* a successor with yet another projection is one more than the budget     *)
(* allows.                                                                 *)
(***************************************************************************)

Projections == {key[s] : s \in Reach}

BudgetInv ==
    /\ dead \cup onStack \subseteq Projections
    /\ verdict = "pending" /\ stack = << >> => visited = 0
    /\ Live /\ stack # << >> => Cardinality(dead \cup onStack) = visited + 1
    /\ truncated => visited >= maxStates /\ Cardinality(Projections) > maxStates + 1

LEMMA ProjectionsAreFinite ==
    ASSUME ConflictInv
    PROVE  /\ IsFiniteSet(Projections) /\ Cardinality(Projections) \in Nat
           /\ \A D \in SUBSET Projections :
                /\ IsFiniteSet(D)
                /\ Cardinality(D) \in Nat /\ Cardinality(D) <= Cardinality(Projections)
<1>1. Projections \subseteq Summaries
  BY DEF ConflictInv, SearchedAutomaton, Projections, Reach, ReachableFrom
<1>2. IsFiniteSet(Projections)
  BY <1>1, SummariesAssumption, FS_Subset
<1>3. \A D \in SUBSET Projections : IsFiniteSet(D) /\ Cardinality(D) <= Cardinality(Projections)
  BY <1>2, FS_Subset
<1> QED
  BY <1>2, <1>3, FS_CardinalityType

\* A successor about to be looked at is reachable; one with a new projection
\* makes one projection more.
LEMMA NewProjection ==
    ASSUME ConflictInv, PromiseInv, BudgetInv, Trying,
           key[Successor] \notin dead \cup onStack
    PROVE  /\ key[Successor] \in Projections
           /\ Cardinality(dead \cup onStack \cup {key[Successor]}) = visited + 2
           /\ visited + 2 <= Cardinality(Projections)
<1> DEFINE D == dead \cup onStack
           k == key[Successor]
<1>1. /\ stack # << >> /\ Top.sym \in Symbols /\ Live
      /\ Top = stack[Len(stack)] /\ Len(stack) \in Nat \ {0}
  BY TopFacts DEF Trying, Live
<1>2. Top.summary \in Reach
  <2>1. \A n \in Nat \ {0} : n \in 1..n
    OBVIOUS
  <2> QED
    BY <1>1, <2>1 DEF PromiseInv, OnReachable
<1>3. k \in Projections
  BY <1>1, <1>2, ReachIsClosed DEF Successor, ConflictInv, Projections
<1>4. IsFiniteSet(D) /\ Cardinality(D) = visited + 1
  BY <1>1, ProjectionsAreFinite DEF BudgetInv
<1>5. Cardinality(D \cup {k}) = Cardinality(D) + 1
  BY <1>4, FS_AddElement
<1>6. D \cup {k} \in SUBSET Projections
  BY <1>3 DEF BudgetInv
<1>7. Cardinality(D \cup {k}) <= Cardinality(Projections)
  BY <1>6, ProjectionsAreFinite
<1>8. visited \in Nat
  BY DEF ConflictInv, TypeOK
<1>9. Cardinality(D \cup {k}) = visited + 2
  <2>1. \A n \in Nat : (n + 1) + 1 = n + 2
    OBVIOUS
  <2> QED
    BY <1>4, <1>5, <1>8, <2>1, Zenon
<1> QED
  BY <1>3, <1>7, <1>9, Zenon

LEMMA BudgetInvStep ==
    ASSUME ConflictInv, PromiseInv, BudgetInv, ConflictNext
    PROVE  BudgetInv'
<1>1. /\ key' = key /\ maxStates' = maxStates /\ Reach' = Reach
  <2>1. key' = key /\ maxStates' = maxStates
    BY DEF ConflictNext, AcceptInitial, ExploreInitial, HitFinal, Prune, OverBudget, Descend,
           ReturnToCaller, Conclude, inputVars
  <2> QED
    BY <2>1, InputsStay
<1>2. Projections' = Projections
  BY <1>1 DEF Projections
<1>3. visited \in Nat /\ maxStates \in Int
  BY BudgetAssumption DEF ConflictInv, TypeOK
<1>4. CASE AcceptInitial
  BY <1>1, <1>2, <1>4 DEF AcceptInitial, Idle, inputVars, BudgetInv, Live
<1>5. CASE ExploreInitial
  <2>1. /\ stack' = <<Frame(Start)>> /\ onStack' = {key[Start]} /\ dead' = dead
        /\ visited' = visited /\ truncated' = truncated
        /\ verdict = "pending" /\ stack = << >>
    BY <1>5 DEF ExploreInitial, Idle
  <2>2. dead = {} /\ visited = 0 /\ ~truncated
    BY <2>1 DEF ConflictInv, Outcome, BudgetInv, Live
  <2>3. dead' \cup onStack' = {key[Start]} /\ key[Start] \in Projections
    BY <2>1, <2>2, ReachIsClosed DEF ConflictInv, Projections
  <2>4. Cardinality({key[Start]}) = 0 + 1
    <3>1. Cardinality({key[Start]}) = 1
      BY FS_Singleton, Zenon
    <3> QED
      BY <3>1
  <2>5. stack' # << >>
    BY <2>1
  <2>6. dead' \cup onStack' \subseteq Projections' /\ Cardinality(dead' \cup onStack') = visited' + 1
    BY <1>2, <2>1, <2>2, <2>3, <2>4
  <2> QED
    BY <2>1, <2>2, <2>5, <2>6 DEF BudgetInv
<1>6. CASE HitFinal
  BY <1>1, <1>2, <1>6 DEF HitFinal, Trying, BudgetInv, Live
<1>7. CASE Prune
  <2>1. /\ stack \in Seq(Frames) /\ stack # << >> /\ stack' = NextSymbol(stack)
        /\ onStack' = onStack /\ dead' = dead /\ visited' = visited /\ truncated' = truncated
        /\ found' = found
    BY <1>7 DEF Prune, Trying, ConflictInv, TypeOK
  <2>2. stack' # << >>
    <3>1. Len(stack) # 0
      BY <2>1
    <3> QED
      BY <2>1, <3>1, NextSymbolFacts, EmptySeqFacts
  <2> QED
    BY <1>1, <1>2, <2>1, <2>2 DEF BudgetInv, Live
<1>8. CASE OverBudget
  <2>1. /\ Trying /\ key[Successor] \notin dead \cup onStack /\ visited >= maxStates
        /\ stack' = stack /\ onStack' = onStack /\ dead' = dead /\ visited' = visited
        /\ truncated' /\ verdict' = verdict
    BY <1>8 DEF OverBudget
  <2>2. visited + 2 <= Cardinality(Projections) /\ Cardinality(Projections) \in Nat
    BY <2>1, NewProjection, ProjectionsAreFinite
  <2>3. \A m \in Nat, n \in Int, c \in Nat : m >= n /\ m + 2 <= c => c > n + 1
    OBVIOUS
  <2>4. Cardinality(Projections) > maxStates + 1
    BY <1>3, <2>1, <2>2, <2>3
  <2> QED
    BY <1>1, <1>2, <2>1, <2>4 DEF BudgetInv, Live
<1>9. CASE Descend
  <2>1. /\ Trying /\ key[Successor] \notin dead \cup onStack
        /\ onStack' = onStack \cup {key[Successor]} /\ dead' = dead /\ visited' = visited + 1
        /\ truncated' = truncated /\ verdict' = verdict /\ ~truncated
    BY <1>9 DEF Descend, Trying
  <2>2. /\ dead' \cup onStack' = dead \cup onStack \cup {key[Successor]}
        /\ dead' \cup onStack' \subseteq Projections
    BY <2>1, NewProjection DEF BudgetInv
  <2>3. Cardinality(dead' \cup onStack') = visited + 2
    BY <2>1, <2>2, NewProjection
  <2>4. \A m \in Nat : (m + 1) + 1 = m + 2
    OBVIOUS
  <2>5. Cardinality(dead' \cup onStack') = visited' + 1
    BY <1>3, <2>1, <2>3, <2>4, Zenon
  <2>6. stack' # << >>
    <3>1. stack \in Seq(Frames) /\ stack' = Append(stack, Frame(Successor))
      BY <1>9 DEF Descend, ConflictInv, TypeOK
    <3> QED
      BY <3>1
  <2> QED
    BY <1>1, <1>2, <2>1, <2>2, <2>5, <2>6 DEF BudgetInv
<1>10. CASE ReturnToCaller \/ Conclude
  <2>1. /\ Leaving /\ visited' = visited /\ truncated' = truncated /\ found' = found
        /\ stack # << >>
        /\ verdict' # "pending" \/ stack' # << >>
    <3>1. CASE Conclude
      BY <3>1 DEF Conclude, Leaving
    <3>2. CASE ReturnToCaller
      <4>1. stack \in Seq(Frames) /\ Len(stack) > 1 /\ stack' = NextSymbol(Callers)
        BY <3>2 DEF ReturnToCaller, ConflictInv, TypeOK
      <4>2. Callers \in Seq(Frames) /\ Len(Callers) = Len(stack) - 1 /\ Len(stack) \in Nat
        BY <4>1 DEF Callers
      <4>3. Callers # << >>
        BY <4>1, <4>2
      <4>4. Len(stack') = Len(Callers)
        BY <4>1, <4>2, <4>3, NextSymbolFacts
      <4>5. stack' # << >>
        <5>1. Len(Callers) # 0
          BY <4>1, <4>2
        <5> QED
          BY <4>4, <5>1, EmptySeqFacts
      <4> QED
        BY <3>2, <4>5 DEF ReturnToCaller, Leaving
    <3> QED
      BY <1>10, <3>1, <3>2
  <2>2. key[Top.summary] \in onStack
    BY <2>1, TopFacts DEF ConflictInv, StackInv, StackKeys
  <2>3. dead' \cup onStack' \subseteq dead \cup onStack
    BY <2>1, <2>2 DEF Leaving
  <2>4. Live => dead' \cup onStack' = dead \cup onStack
    BY <2>1, <2>2 DEF Leaving, Live
  <2> QED
    BY <1>1, <1>2, <2>1, <2>3, <2>4 DEF BudgetInv, Live
<1> QED
  BY <1>4, <1>5, <1>6, <1>7, <1>8, <1>9, <1>10 DEF ConflictNext

\* UNKNOWN is honest: when the search has given up, more projections than the
\* budget are reachable besides the initial one, whatever the automaton.
THEOREM ConflictTruncationCorrect == ConflictSpec => []TruncationJustified
<1>1. ConflictInit => BudgetInv
  BY EmptySeqFacts DEF ConflictInit, BudgetInv, Live
<1>2. UNCHANGED conflictVars /\ BudgetInv => BudgetInv'
  <2> SUFFICES ASSUME UNCHANGED conflictVars, BudgetInv
               PROVE  BudgetInv'
    OBVIOUS
  <2>1. /\ key' = key /\ dead' = dead /\ onStack' = onStack /\ stack' = stack
        /\ verdict' = verdict /\ visited' = visited /\ found' = found
        /\ truncated' = truncated /\ maxStates' = maxStates
    BY DEF conflictVars
  <2>2. Projections' = Projections
    BY <2>1, InputsStay DEF Projections
  <2> QED
    BY <2>1, <2>2 DEF BudgetInv, Live
<1>3. ConflictInv /\ PromiseInv /\ BudgetInv /\ [ConflictNext]_conflictVars => BudgetInv'
  BY <1>2, BudgetInvStep
<1>4. BudgetInv => TruncationJustified
  BY DEF BudgetInv, TruncationJustified, Projections, Reach
<1> QED
  BY <1>1, <1>3, <1>4, ConflictInvHolds, PromiseInvHolds, PTL DEF ConflictSpec

-----------------------------------------------------------------------------
(***************************************************************************)
(* The word reported is a counterexample.  explore returns the part of it  *)
(* that starts at its own summary, and each caller puts in front of it the *)
(* symbol it was trying, which leads to the summary of the call returned   *)
(* from (Path).                                                            *)
(***************************************************************************)

WordInv ==
    /\ stack = << >> /\ verdict = "pending" => word = << >>
    /\ found /\ stack # << >> => RunFrom(delta, stack[Len(stack)].summary, word) \in final
    /\ truncated => ~found
    /\ verdict = "NOT PROVED" => RunFrom(delta, Start, word) \in final

WordIsAccepted == verdict = "NOT PROVED" => Run(word) \in final

LEMMA RunIsRunFrom == \A w : Run(w) = RunFrom(delta, Start, w)
  BY DEF Run, RunFrom

\* The steps of a run over the summaries.
LEMMA RunsOverSummaries ==
    ASSUME SearchedAutomaton
    PROVE  /\ \A s \in Summaries, a \in Symbols :
                delta[s, a] = Follow(delta, s, a) /\ Follow(delta, s, a) \in Summaries
           /\ \A s \in Summaries : RunFrom(delta, s, << >>) = s
           /\ \A s \in Summaries, a \in Symbols, w \in Seq(Symbols) :
                RunFrom(delta, s, <<a>> \o w) = RunFrom(delta, Follow(delta, s, a), w)
<1>1. \A s, a : delta[s, a] = Follow(delta, s, a)
  BY Zenon DEF Follow
<1>2. \A s \in Summaries, a \in Symbols : delta[s, a] \in Summaries
  BY DEF SearchedAutomaton
<1>3. IsTable(delta, Summaries, Symbols)
  BY <1>1, <1>2, Zenon DEF IsTable
<1>4. \A s \in Summaries : RunFrom(delta, s, << >>) = s
  BY <1>3, RunFromEmpty
<1>5. ASSUME NEW s \in Summaries, NEW a \in Symbols, NEW w \in Seq(Symbols)
      PROVE  RunFrom(delta, s, <<a>> \o w) = RunFrom(delta, Follow(delta, s, a), w)
  BY <1>3, RunFromPrepend
<1> QED
  BY <1>1, <1>2, <1>4, <1>5, Zenon

LEMMA WordInvStep ==
    ASSUME ConflictInv, WordInv, ConflictNext
    PROVE  WordInv'
<1>0. /\ stack \in Seq(Frames) /\ word \in Seq(Symbols) /\ SearchedAutomaton
      /\ \A i \in 1..Len(stack) : stack[i].summary \in Summaries
      /\ delta' = delta /\ final' = final
  <2>1. stack \in Seq(Frames) /\ word \in Seq(Symbols) /\ SearchedAutomaton
    BY DEF ConflictInv, TypeOK
  <2>2. \A i \in 1..Len(stack) : stack[i] \in Frames
    BY <2>1
  <2> QED
    BY <2>1, <2>2, InputsStay DEF Frames
<1>1. \A s \in Summaries, a \in Symbols :
        delta[s, a] = Follow(delta, s, a) /\ Follow(delta, s, a) \in Summaries
  BY <1>0, RunsOverSummaries
<1>2. /\ \A s \in Summaries : RunFrom(delta, s, << >>) = s
      /\ \A s \in Summaries, a \in Symbols, w \in Seq(Symbols) :
            RunFrom(delta, s, <<a>> \o w) = RunFrom(delta, Follow(delta, s, a), w)
  BY <1>0, RunsOverSummaries
<1>3. CASE AcceptInitial
  <2>1. /\ word = << >> /\ stack' = stack /\ stack = << >> /\ word' = word /\ Start \in final
        /\ found' = found /\ truncated' = truncated /\ verdict' = "NOT PROVED"
    BY <1>3 DEF AcceptInitial, Idle, WordInv
  <2> QED
    BY <1>0, <1>2, <2>1, StartAssumption DEF WordInv
<1>4. CASE ExploreInitial
  <2>1. /\ ~found /\ found' = found /\ truncated' = truncated /\ stack' # << >>
        /\ verdict' = verdict /\ verdict = "pending"
    <3>1. stack' = <<Frame(Start)>> /\ verdict = "pending" /\ stack = << >>
      BY <1>4 DEF ExploreInitial, Idle
    <3> QED
      BY <1>4, <3>1 DEF ExploreInitial, ConflictInv, Outcome, Live
  <2> QED
    BY <2>1 DEF WordInv
<1>5. CASE HitFinal
  <2>1. /\ stack' = stack /\ stack # << >> /\ word' = <<Top.sym>> /\ Successor \in final
        /\ truncated' = truncated /\ ~truncated /\ verdict' = verdict /\ verdict = "pending"
        /\ Top = stack[Len(stack)] /\ Top.sym \in Symbols /\ Len(stack) \in 1..Len(stack)
    BY <1>5, TopFacts DEF HitFinal, Trying
  <2> DEFINE s == Top.summary
             a == Top.sym
  <2>2. s \in Summaries /\ a \in Symbols /\ Follow(delta, s, a) = Successor
    BY <1>0, <1>1, <2>1 DEF Successor
  <2>3. <<a>> \o << >> = <<a>> /\ << >> \in Seq(Symbols)
    BY <2>2
  <2>4. Follow(delta, s, a) \in Summaries
    BY <1>1, <2>2, Zenon
  <2>5. RunFrom(delta, s, <<a>> \o << >>) = RunFrom(delta, Follow(delta, s, a), << >>)
    BY <1>2, <2>2, <2>3, Zenon
  <2>6. RunFrom(delta, s, <<a>>) \in final
    BY <1>2, <2>1, <2>2, <2>3, <2>4, <2>5
  <2> QED
    BY <1>0, <2>1, <2>6 DEF WordInv
<1>6. CASE Prune \/ OverBudget \/ Descend
  <2>1. ~found /\ found' = found /\ stack # << >> /\ verdict' = verdict /\ verdict = "pending"
    BY <1>6, TopFacts DEF Prune, OverBudget, Descend, Trying
  <2>2. stack' # << >>
    <3>1. Frame(Successor) \in Frames /\ Len(stack) \in Nat
      BY <1>0, <1>6, TryingFacts DEF Prune, OverBudget, Descend, Trying, Frame, Frames
    <3>2. Len(stack) # 0
      BY <1>0, <2>1
    <3>3. CASE Prune
      BY <1>0, <2>1, <3>2, <3>3, NextSymbolFacts, EmptySeqFacts DEF Prune
    <3>4. CASE OverBudget
      BY <2>1, <3>4 DEF OverBudget
    <3>5. CASE Descend
      <4>1. stack' = Append(stack, Frame(Successor))
        BY <3>5 DEF Descend
      <4> QED
        BY <1>0, <4>1
    <3> QED
      BY <1>6, <3>3, <3>4, <3>5
  <2> QED
    BY <2>1, <2>2 DEF WordInv
<1>7. CASE ReturnToCaller
  <2> DEFINE n == Len(stack)
  <2>1. /\ stack' = NextSymbol(Callers) /\ n > 1 /\ n \in Nat /\ stack # << >>
        /\ word' = IF found THEN <<Callers[Len(Callers)].sym>> \o word ELSE word
        /\ truncated' = truncated /\ found' = found /\ verdict' = verdict
    BY <1>0, <1>7 DEF ReturnToCaller, Leaving
  <2>2. /\ Callers \in Seq(Frames) /\ Len(Callers) = n - 1
        /\ \A i \in 1..(n - 1) : Callers[i] = stack[i]
    BY <1>0, <2>1 DEF Callers
  <2>3. Callers # << >> /\ n - 1 \in 1..(n - 1) /\ n - 1 \in 1..n /\ n \in 1..n /\ (n - 1) + 1 = n
    BY <2>1, <2>2
  <2>4. Len(stack') = n - 1 /\ stack'[n - 1].summary = stack[n - 1].summary
    <3>1. Len(stack') = Len(Callers) /\ \A i \in 1..Len(Callers) : stack'[i].summary = Callers[i].summary
      BY <2>1, <2>2, <2>3, NextSymbolFacts
    <3> QED
      BY <2>2, <2>3, <3>1
  <2>5. verdict = "pending"
    BY <2>1, TopFacts
  <2>6. stack' # << >>
    <3>1. \A m : m \in 1..m => m # 0
      OBVIOUS
    <3> QED
      BY <2>3, <2>4, <3>1, EmptySeqFacts
  <2> DEFINE s == stack[n - 1].summary
             a == stack[n - 1].sym
  <2>7. s \in Summaries /\ a \in Symbols /\ Follow(delta, s, a) = stack[n].summary
    <3>1. s \in Summaries
      BY <1>0, <2>3
    <3>2. a \in Symbols /\ delta[s, a] = stack[n].summary
      BY <2>3 DEF ConflictInv, StackInv, Path
    <3> QED
      BY <1>1, <3>1, <3>2
  <2>8. found => RunFrom(delta, s, <<a>> \o word) \in final
    <3>1. RunFrom(delta, s, <<a>> \o word) = RunFrom(delta, Follow(delta, s, a), word)
      BY <1>0, <1>2, <2>7, Zenon
    <3> QED
      BY <2>1, <2>7, <3>1 DEF WordInv
  <2>9. found => word' = <<a>> \o word
    BY <2>1, <2>2, <2>3
  <2> QED
    BY <1>0, <2>1, <2>4, <2>5, <2>6, <2>8, <2>9 DEF WordInv
<1>8. CASE Conclude
  <2>1. /\ stack' = << >> /\ Len(stack) = 1 /\ stack # << >> /\ word' = word
        /\ truncated' = truncated /\ found' = found
        /\ verdict' = IF truncated THEN "UNKNOWN" ELSE IF found THEN "NOT PROVED" ELSE "PROVED"
    BY <1>8 DEF Conclude, Leaving
  <2>2. stack[Len(stack)].summary = Start
    BY <2>1 DEF ConflictInv, StackInv, Path
  <2> QED
    BY <1>0, <2>1, <2>2 DEF WordInv
<1> QED
  BY <1>3, <1>4, <1>5, <1>6, <1>7, <1>8 DEF ConflictNext

\* NOT PROVED comes with a word the automaton accepts: the symbols collected
\* while the calls of explore return, in the order in which they were descended.
THEOREM ConflictWordIsAccepted == ConflictSpec => []WordIsAccepted
<1>1. ConflictInit => WordInv
  BY DEF ConflictInit, WordInv
<1>2. UNCHANGED conflictVars /\ WordInv => WordInv'
  <2> SUFFICES ASSUME UNCHANGED conflictVars, WordInv
               PROVE  WordInv'
    OBVIOUS
  <2>1. /\ delta' = delta /\ final' = final /\ stack' = stack /\ word' = word
        /\ verdict' = verdict /\ found' = found /\ truncated' = truncated
    BY DEF conflictVars
  <2> QED
    BY <2>1 DEF WordInv
<1>3. ConflictInv /\ WordInv /\ [ConflictNext]_conflictVars => WordInv'
  BY <1>2, WordInvStep
<1>4. WordInv => WordIsAccepted
  BY RunIsRunFrom DEF WordInv, WordIsAccepted
<1> QED
  BY <1>1, <1>3, <1>4, ConflictInvHolds, PTL DEF ConflictSpec

================================================================================
