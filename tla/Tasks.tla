---------------------------------- MODULE Tasks ----------------------------------
(***************************************************************************)
(* The target languages of the trainers and the words they are trained and *)
(* tested on (uhat/tasks.py): predicates, samplers, length plans.          *)
(*                                                                         *)
(* A task is its family, its parameter and its alphabet.  A sampler is the *)
(* set of words one draw may return, each with what it was constructed to  *)
(* be: "positive", "negative", or "any" when no label is intended.         *)
(***************************************************************************)
EXTENDS Integers, Sequences, FiniteSets, SequencesExt, FiniteSetsExt, TLC

Figure2 ==
    [dot |-> "figure2_dot", y |-> "figure2_y", no2a |-> "figure2_no2a", slb |-> "figure2_slb",
     mono_word |-> "figure2_mono_word", since |-> "figure2_since", marks |-> "figure2_marks",
     same |-> "figure2_same", lms |-> "figure2_lms"]

Letters(sigma) == SubSeq(<<"a", "b", "c", "d">>, 1, sigma)
Ranked(sigma) == [index \in 1..sigma |-> "s" \o ToString(index - 1)]

Task(family, parameter, alphabet) ==
    [family |-> family, parameter |-> parameter, alphabet |-> alphabet]

TwoLetterTasks == {"ends_ab", "contains_ab", "contains_aba", "first_a", "last_a",
                   "a_star_b_star", "a_before_b", "parity_a", "equal_blocks",
                   "first_equals_last", "starts_ab", "first_a_before_first_b"}
ThreeLetterTasks == {"c_after_ab", "contains_abc", "no_c_before_first_b"}
Tomita == <<"tomita_1", "tomita_2", "tomita_3", "tomita_4", "tomita_5", "tomita_6", "tomita_7">>

\* The families of _figure2_task and the alphabet each builds.
Figure2Alphabet(family, parameter) ==
    CASE family \in {"dot", "y", "no2a"} -> Letters(2)
      [] family \in {"slb", "mono_word"} -> Ranked(parameter)
      [] family = "since" -> <<"marker">> \o Ranked(parameter)
      [] family = "marks" -> <<"a", "m">>
      [] family = "same" -> <<"a", "b", "m">>
      [] family = "lms" -> <<"b0", "b1", "sep">>

Axis(family) ==
    CASE family \in {"slb", "mono_word", "since"} -> "sigma"
      [] family = "lms" -> "n"
      [] OTHER -> "k"

\* resolve: the task of a name, or family "KeyError".
Resolve(family, axis, parameter, sigma) ==
    LET Unknown == Task("KeyError", 0, <<>>)
    IN  CASE family \in TwoLetterTasks -> Task(family, 0, Letters(2))
          [] family \in ThreeLetterTasks -> Task(family, 0, Letters(3))
          [] family \in ToSet(Tomita) -> Task(family, 0, <<"0", "1">>)
          [] family = "dot_depth" ->
                IF parameter < 1 \/ sigma < 2 THEN Unknown
                ELSE Task(family, parameter, Letters(sigma))
          [] OTHER -> IF axis # Axis(family) \/ parameter < 1 THEN Unknown
                      ELSE Task(Figure2[family], parameter, Figure2Alphabet(family, parameter))

\* What the alphabets of the tasks that resolve makes have in common.
Resolved(task) ==
    LET k == task.parameter
        letters == task.alphabet
        Is(family) == task.family = Figure2[family]
        Distinct == \A p, q \in DOMAIN letters : letters[p] = letters[q] => p = q
    IN  /\ k \in Nat
        /\ letters \in Seq(ToSet(letters)) /\ letters # <<>>
        /\ task.family \in ToSet(Tomita) => letters = <<"0", "1">>
        /\ task.family \in Range(Figure2) => k > 0
        /\ Is("y") \/ Is("no2a") => letters = <<"a", "b">>
        /\ Is("slb") \/ Is("mono_word") => Distinct /\ Len(letters) = k
        /\ Is("since") => Distinct /\ Len(letters) = k + 1 /\ letters[1] = "marker"
        /\ Is("marks") => letters = <<"a", "m">>

-----------------------------------------------------------------------------
\* Predicates.

Block(symbol, length) == [p \in 1..length |-> symbol]
Occurrences(word, symbol) == {p \in DOMAIN word : word[p] = symbol}
Places(word, pattern) ==
    {p \in 0..(Len(word) - Len(pattern)) : SubSeq(word, p + 1, p + Len(pattern)) = pattern}
Factor(word, pattern) == Places(word, pattern) # {}
FirstIndex(word, symbol) == Min({p - 1 : p \in Occurrences(word, symbol)} \cup {Len(word)})

\* Maximal runs, each a symbol and its length.
Runs(word) ==
    FoldLeft(LAMBDA runs, symbol :
                IF runs # <<>> /\ Last(runs)[1] = symbol
                THEN [runs EXCEPT ![Len(runs)][2] = @ + 1]
                ELSE Append(runs, <<symbol, 1>>),
             <<>>, word)

Tomita3(word) ==
    LET runs == Runs(word)
    IN  \A p \in 1..(Len(runs) - 1) :
            ~ /\ runs[p][1] = "1" /\ runs[p][2] % 2 = 1
              /\ runs[p + 1][1] = "0" /\ runs[p + 1][2] % 2 = 1

\* The next symbol wanted advances over the word and never goes back.
ContainsSubsequence(word, pattern) ==
    FoldLeft(LAMBDA found, symbol :
                IF found < Len(pattern) /\ pattern[found + 1] = symbol THEN found + 1 ELSE found,
             0, word) = Len(pattern)

DotDepthPattern(k, alphabet) == [p \in 1..k |-> alphabet[((p - 1) % Len(alphabet)) + 1]]

StaticLabel(family, w) ==
    LET n == Len(w)
        As == Cardinality(Occurrences(w, "a"))
        Zeros == Cardinality(Occurrences(w, "0"))
        Ones == Cardinality(Occurrences(w, "1"))
    IN  CASE family = "ends_ab" -> IsSuffix(<<"a", "b">>, w)
          [] family = "contains_ab" -> Factor(w, <<"a", "b">>)
          [] family = "contains_aba" -> Factor(w, <<"a", "b", "a">>)
          [] family = "contains_abc" -> Factor(w, <<"a", "b", "c">>)
          [] family = "first_a" -> n > 0 /\ w[1] = "a"
          [] family = "last_a" -> n > 0 /\ w[n] = "a"
          [] family = "a_star_b_star" -> ~Factor(w, <<"b", "a">>)
          [] family = "a_before_b" -> \E p, q \in 1..n : p < q /\ w[p] = "a" /\ w[q] = "b"
          [] family = "c_after_ab" ->
                \E p \in 1..n : w[p] = "c" /\ Factor(SubSeq(w, 1, p - 1), <<"a", "b">>)
          [] family = "parity_a" -> As % 2 = 0
          [] family = "equal_blocks" -> \E k \in 1..63 : w = Block("a", k) \o Block("b", k)
          [] family = "first_equals_last" -> n > 0 /\ w[1] = w[n]
          [] family = "starts_ab" -> IsPrefix(<<"a", "b">>, w)
          [] family = "first_a_before_first_b" ->
                As > 0 /\ Occurrences(w, "b") # {} /\ FirstIndex(w, "a") < FirstIndex(w, "b")
          [] family = "no_c_before_first_b" ->
                Occurrences(SubSeq(w, 1, FirstIndex(w, "b")), "c") = {}
          [] family = "tomita_1" -> Zeros = 0
          [] family = "tomita_2" -> \E k \in 1..63 : w = [p \in 1..(2 * k) |-> IF p % 2 = 1 THEN "1" ELSE "0"]
          [] family = "tomita_3" -> Tomita3(w)
          [] family = "tomita_4" -> ~Factor(w, <<"0", "0", "0">>)
          [] family = "tomita_5" -> Zeros % 2 = 0 /\ Ones % 2 = 0
          [] family = "tomita_6" -> (Ones - Zeros) % 3 = 0
          [] family = "tomita_7" -> Cardinality(Places(w, <<"1", "0">>)) <= 1

Rank(task, symbol) == SelectInSeq(task.alphabet, LAMBDA letter : letter = symbol)

\* The blocks `sep b_0 b_1 ... b_n` of a word, or none.
LmsBlocks(n, word) ==
    LET width == n + 2
        chunks == [c \in 1..(Len(word) \div width) |-> SubSeq(word, (c - 1) * width + 1, c * width)]
        broken == \/ word = <<>> \/ Len(word) % width # 0
                  \/ \E c \in DOMAIN chunks : Occurrences(chunks[c], "sep") # {1}
    IN  IF broken THEN <<>> ELSE chunks

LmsLabel(n, word) ==
    LET chunks == LmsBlocks(n, word)
        Inputs(c) == SubSeq(chunks[c], 3, n + 2)
    IN  /\ chunks # <<>>
        /\ \A c, d \in DOMAIN chunks : Inputs(c) = Inputs(d) => chunks[c][2] = chunks[d][2]

\* The marker positions from the k-th on, the last position excluded.
Qualifying(k, word) ==
    {p \in Occurrences(word, "m") :
        p < Len(word) /\ Cardinality({q \in Occurrences(word, "m") : q <= p}) >= k}

SameLabel(k, w) ==
    LET qualifying == Qualifying(k, w)
    IN  /\ qualifying # {} /\ Max(qualifying) > 1
        /\ w[Max(qualifying) - 1] = w[Len(w)]

FamilyLabel(task, w) ==
    LET n == Len(w)
        k == task.parameter
        Is(family) == task.family = Figure2[family]
    IN  CASE task.family \in {"dot_depth", Figure2["dot"]} ->
                ContainsSubsequence(w, DotDepthPattern(k, task.alphabet))
          [] Is("y") -> n > k /\ w[n - k] = "a"
          [] Is("no2a") -> ~\E right \in (k + 1)..(n - 1) : w[right] = "a" /\ w[right - k] = "a"
          [] Is("slb") -> \E p \in 1..(n - 1) : w[p] = w[n]
          [] Is("mono_word") -> n > 0 /\ \A p \in 1..(n - 1) : Rank(task, w[p]) < Rank(task, w[n])
          [] Is("since") -> \E p \in 1..(n - 1) : w[p] = "marker" /\ \A q \in (p + 1)..(n - 1) : w[q] = w[n]
          [] Is("marks") -> Cardinality(Occurrences(w, "m")) >= k
          [] Is("same") -> SameLabel(k, w)
          [] Is("lms") -> LmsLabel(k, w)

Label(task, word) ==
    IF task.family \in TwoLetterTasks \cup ThreeLetterTasks \cup ToSet(Tomita)
    THEN StaticLabel(task.family, word)
    ELSE FamilyLabel(task, word)

-----------------------------------------------------------------------------
\* Words without an intended label.

WordsOf(alphabet, length) == [1..length -> ToSet(alphabet)]
EnumerateWords(alphabet, upto) == UNION {WordsOf(alphabet, n) : n \in 0..upto}
SampleWords(alphabet, lo, hi) == UNION {WordsOf(alphabet, n) : n \in lo..hi}

\* a^i b^j with j equal to i or one or two away.
EqualBlocks(alphabet, lo, hi) ==
    LET AtLeastOne(n) == Max({1, n})
        Halves == {AtLeastOne(n \div 2) : n \in lo..hi}
    IN  {Block(alphabet[1], half) \o Block(alphabet[2], AtLeastOne(half + shift)) :
            half \in Halves, shift \in -2..2}

\* A random composition of the length into runs of different letters.
BlockWords(maxBlocks, alphabet, lo, hi) ==
    {word \in SampleWords(alphabet, lo, hi) : Len(Runs(word)) <= Max({1, maxBlocks})}

-----------------------------------------------------------------------------
\* Constructed positives and their near-misses.

NoThreeZeros(length) ==
    {SubSeq(FlattenSeq([g \in 1..length |-> Append(Block("0", zeros[g]), "1")]), 1, length) :
        zeros \in [1..length -> 0..2]}

FourBlocks(length) ==
    {Block("0", cut[1]) \o Block("1", cut[2] - cut[1]) \o Block("0", cut[3] - cut[2])
            \o Block("1", length - cut[3]) :
        cut \in {c \in [1..3 -> 0..length] : c[1] <= c[2] /\ c[2] <= c[3]}}

MakePositive(family, length) ==
    CASE family = "tomita_1" -> {Block("1", length)}
      [] family = "tomita_2" ->
            {[p \in 1..(2 * Max({1, length \div 2})) |-> IF p % 2 = 1 THEN "1" ELSE "0"]}
      [] family = "tomita_4" -> NoThreeZeros(length)
      [] family = "tomita_7" -> FourBlocks(length)

Mutated == {"tomita_1", "tomita_2", "tomita_4", "tomita_7"}

\* One symbol flipped, inserted or deleted; a single symbol is not deleted.
Edits(word, alphabet) ==
    ({ReplaceAt(word, p, s) : p \in DOMAIN word, s \in ToSet(alphabet)} \ {word})
        \cup {InsertAt(word, p, s) : p \in DOMAIN word, s \in ToSet(alphabet)}
        \cup {IF Len(word) > 1 THEN RemoveAt(word, p) ELSE word : p \in DOMAIN word}

-----------------------------------------------------------------------------
\* The paired samplers of the Figure 2 tasks.

Paired == {Figure2[f] : f \in {"y", "no2a", "slb", "mono_word", "since", "marks", "same", "lms"}}

\* lo..hi, but at least the length the construction needs.
Room(lo, hi, least) == Max({lo, least})..Max({hi, least})

Long(task, lo, hi, least) == UNION {WordsOf(task.alphabet, n) : n \in Room(lo, hi, least)}

LmsPositive(n, lo, hi) ==
    LET inputs == [1..n -> {"b0", "b1"}]
        Width == n + 2
        Wordings(count, output) ==
            {FlattenSeq([c \in 1..count |-> <<"sep", output[chosen[c]]>> \o chosen[c]]) :
                chosen \in [1..count -> inputs]}
    IN  UNION {Wordings(count, output) :
                count \in Max({1, lo \div Width})..Max({1, hi \div Width}),
                output \in [inputs -> {"b0", "b1"}]}

\* Block d takes the inputs of block c and the other output.
LmsConflicts(n, lo, hi) ==
    LET width == n + 2
        Flip(b) == IF b = "b0" THEN "b1" ELSE "b0"
        Copy(chunks, c, d) ==
            [chunks EXCEPT ![d] = [chunks[c] EXCEPT ![2] = Flip(@)]]
        Conflicting(chunks) ==
            UNION {{FlattenSeq(Copy(chunks, c, d)) : d \in (DOMAIN chunks) \ {c}} :
                    c \in DOMAIN chunks}
    IN  UNION {Conflicting(LmsBlocks(n, word)) :
                word \in LmsPositive(n, Max({lo, 2 * width}), Max({hi, 2 * width}))}

LmsNegative(n, lo, hi) ==
    LmsConflicts(n, lo, hi)
        \cup UNION {Edits(word, <<"b0", "b1", "sep">>) : word \in LmsPositive(n, lo, hi)}

\* The words w of a length at least k + 3 whose first k - 1 letters are
\* markers and whose other letters are not.
Marked(k, lo, hi) ==
    UNION {{Block("m", k - 1) \o rest : rest \in [1..(n - k + 1) -> {"a", "b"}]} :
            n \in Room(lo, hi, k + 3)}

Positive(task, lo, hi) ==
    LET k == task.parameter
        Is(family) == task.family = Figure2[family]
    IN  CASE Is("y") -> {[w EXCEPT ![Len(w) - k] = "a"] : w \in Long(task, lo, hi, k + 1)}
          [] Is("no2a") -> UNION {{[Block("b", n) EXCEPT ![p] = "a"] : p \in 1..n} :
                                n \in Room(lo, hi, k + 2)}
          [] Is("slb") -> UNION {{[w EXCEPT ![p] = w[Len(w)]] : p \in 1..(Len(w) - 1)} :
                                w \in Long(task, lo, hi, 2)}
          [] Is("mono_word") ->
                {w \in Long(task, lo, hi, 2) :
                    \E top \in 2..k : /\ w[Len(w)] = task.alphabet[top]
                                      /\ \A p \in 1..(Len(w) - 1) :
                                            w[p] \in ToSet(SubSeq(task.alphabet, 1, top - 1))}
          [] Is("since") ->
                UNION {{SubSeq(w, 1, p - 1) \o <<"marker">> \o Block(final, Len(w) - p) :
                            p \in 1..(Len(w) - 1), final \in ToSet(Tail(task.alphabet))} :
                        w \in Long(task, lo, hi, 2)}
          [] Is("marks") -> {w \in Long(task, lo, hi, k + 1) : Cardinality(Occurrences(w, "m")) = k}
          [] Is("same") -> {[w EXCEPT ![Len(w) - 1] = "m", ![Len(w) - 2] = w[Len(w)]] :
                                w \in Marked(k, lo, hi)}
          [] Is("lms") -> LmsPositive(k, lo, hi)

\* Mutant: the second a may be put on the last position, which no2a ignores.
ForbiddenPair_AtTheEnd(k, w) ==
    {[w EXCEPT ![p] = "a", ![p + k] = "a"] : p \in 1..(Len(w) - k)}

\* Two a's at distance k, the second before the last position.
ForbiddenPair(k, w) ==
    {[w EXCEPT ![p] = "a", ![p + k] = "a"] : p \in 1..(Len(w) - k - 1)}

Negative(task, lo, hi) ==
    LET k == task.parameter
        Is(family) == task.family = Figure2[family]
    IN  CASE Is("y") -> {[w EXCEPT ![Len(w) - k] = "b"] : w \in Long(task, lo, hi, k + 1)}
          [] Is("no2a") -> UNION {ForbiddenPair(k, w) : w \in Long(task, lo, hi, k + 2)}
          [] Is("slb") ->
                UNION {{Append(Block(other, n - 1), final) :
                            other \in ToSet(task.alphabet) \ {final}, n \in Room(lo, hi, 2)} :
                        final \in ToSet(task.alphabet)}
          [] Is("mono_word") ->
                UNION {{[w EXCEPT ![p] = task.alphabet[above]] :
                            p \in 1..(Len(w) - 1), above \in Rank(task, w[Len(w)])..k} :
                        w \in Long(task, lo, hi, 2)}
          [] Is("since") -> {w \in Long(task, lo, hi, 2) : Occurrences(w, "marker") = {}}
          [] Is("marks") -> {w \in Long(task, lo, hi, k + 1) : Cardinality(Occurrences(w, "m")) < k}
          [] Is("same") -> Marked(k, lo, hi)
          [] Is("lms") -> LmsNegative(k, lo, hi)

\* Even draws of a paired sampler are positives, odd ones negatives; lms draws
\* again until the label is the intended one.
PairedDraws(task, index, lo, hi) ==
    LET intent == IF index % 2 = 0 THEN "positive" ELSE "negative"
        words == IF intent = "positive" THEN Positive(task, lo, hi) ELSE Negative(task, lo, hi)
        Kept(word) == task.family = Figure2["lms"] => Label(task, word) = (intent = "positive")
    IN  {[word |-> word, intent |-> intent] : word \in {w \in words : Kept(w)}}

\* What the task's sampler may return as its index-th word.
Draws(task, index, lo, hi) ==
    LET Unaimed(words) == {[word |-> word, intent |-> "any"] : word \in words}
        positives == UNION {MakePositive(task.family, n) : n \in lo..hi}
    IN  CASE task.family \in Paired -> PairedDraws(task, index, lo, hi)
          [] task.family \in Mutated ->
                {[word |-> word, intent |-> "positive"] : word \in positives}
                    \cup Unaimed(UNION {Edits(word, task.alphabet) : word \in positives})
          [] task.family = "equal_blocks" -> Unaimed(EqualBlocks(task.alphabet, lo, hi))
          [] task.family \in {"dot_depth", Figure2["dot"]} ->
                Unaimed(BlockWords(2 * task.parameter + 2, task.alphabet, lo, hi))
          [] OTHER -> Unaimed(SampleWords(task.alphabet, lo, hi))

-----------------------------------------------------------------------------
\* Length plans.

Planned(upto, train, test) == [upto |-> upto, train |-> train, test |-> test]

\* A task's own plan, or what datasets falls back to.
Lengths(task, default) ==
    LET k == task.parameter
        Is(family) == task.family = Figure2[family]
        Upto(most) == Min({most, k})
    IN  CASE task.family \in ToSet(Tomita) -> Planned(8, <<1, 16>>, <<17, 40>>)
          [] task.family = "dot_depth" ->
                Planned(Min({7, Max({4, 2 * k})}), <<k, 4 * k + 4>>, <<4 * k + 5, 10 * k + 10>>)
          [] Is("dot") -> Planned(Min({6, Max({3, k})}), <<k, 4 * k + 4>>, <<4 * k + 5, 8 * k + 8>>)
          [] Is("y") -> Planned(Upto(6), <<k + 1, 3 * k + 6>>, <<3 * k + 7, 6 * k + 12>>)
          [] Is("no2a") -> Planned(Upto(5), <<k + 2, 3 * k + 8>>, <<3 * k + 9, 6 * k + 16>>)
          [] Is("slb") \/ Is("mono_word") -> Planned(IF k <= 4 THEN 3 ELSE 2, <<2, 16>>, <<17, 40>>)
          [] Is("since") -> Planned(IF k <= 3 THEN 3 ELSE 2, <<2, 16>>, <<17, 40>>)
          [] Is("marks") -> Planned(Upto(6), <<k + 1, 3 * k + 8>>, <<3 * k + 9, 6 * k + 16>>)
          [] Is("same") -> Planned(Upto(5), <<k + 3, 3 * k + 10>>, <<3 * k + 11, 6 * k + 20>>)
          [] Is("lms") -> Planned(3, <<k + 2, 4 * (k + 2)>>, <<5 * (k + 2), 8 * (k + 2)>>)
          [] OTHER -> default

=============================================================================
