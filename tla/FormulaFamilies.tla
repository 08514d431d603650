----------------------------- MODULE FormulaFamilies -----------------------------
(***************************************************************************)
(* The benchmark families of the formula generator                         *)
(* (ltl2_generator/families/core.py and literature.py) and the benchmark   *)
(* record (benchmark.py).  A benchmark is either a formula or a recogniser *)
(* that is no formula's; absent is the value of the field that is missing. *)
(***************************************************************************)
EXTENDS PastDfa

absent == [op |-> "absent"]

\* The caps that hold unless a family says otherwise are the build's.
Benchmark(id, alphabet, formula) ==
    [id |-> id, alphabet |-> alphabet, formula |-> formula, dfa |-> absent,
     starFree |-> TRUE, capped |-> FALSE]

Control(id, alphabet, dfa) ==
    [id |-> id, alphabet |-> alphabet, formula |-> absent, dfa |-> dfa,
     starFree |-> FALSE, capped |-> FALSE]

Named(family, k) == family \o ToString(k)
Is(symbol) == Letter("1", symbol)

\* Mutant: one Y more.
Ago_OneMore(f, k) == FoldLeft(LAMBDA g, n : Yst("1", AtJ(g)), f, [n \in 1..(k + 1) |-> n])

\* f nested k times below Y.
Ago(f, k) == FoldLeft(LAMBDA g, n : Yst("1", AtJ(g)), f, [n \in 1..k |-> n])

\* The last link, and under every earlier one that the rest came before.
Chain(links) ==
    FoldLeft(LAMBDA below, link : and1(<<link, Once("1", AtJ(below))>>), links[1], Tail(links))

DotDepth(k, alphabet) ==
    LET prefix == Chain([p \in 1..k |-> Is(alphabet[((p - 1) % Len(alphabet)) + 1])])
    IN  Benchmark(Named("dot_depth", k), alphabet, or1(<<prefix, Once("1", AtJ(prefix))>>))

YDepth(k) == Benchmark(Named("y_depth", k), Letters(2), Ago(Is("a"), k))

NoTwoA(k) ==
    Benchmark(Named("no_two_a", k), Letters(2),
              Hist("1", AtJ(not1(and1(<<Is("a"), Ago(Is("a"), k)>>)))))

\* Anchor and witness satisfy the same unary formula of the sequence.
Both(f) == andb(<<AtI(f), AtJ(f)>>)
SameMask(alphabet) == orb([p \in DOMAIN alphabet |-> Both(Is(alphabet[p]))])

\* The witness's letter comes before the anchor's.
SmallerMask(alphabet) ==
    LET Pairs(t) == [s \in 1..(t - 1) |-> andb(<<AtI(Is(alphabet[t])), AtJ(Is(alphabet[s]))>>)]
    IN  orb(FlattenSeq([t \in DOMAIN alphabet |-> Pairs(t)]))

SameLetterBefore(n) ==
    Benchmark(Named("same_letter_before", n), Letters(n), Once("1", SameMask(Letters(n))))
PrevRepeats(n) ==
    Benchmark(Named("prev_repeats", n), Letters(n), Yst("1", SameMask(Letters(n))))
MonotonePast(n) ==
    Benchmark(Named("monotone_past", n), Letters(n), Hist("1", SmallerMask(Letters(n))))
SinceSameLetter(n) ==
    Benchmark(Named("since_same_letter", n), <<"marker">> \o Letters(n),
              Since("1", SameMask(Letters(n)), AtJ(Is("marker"))))

\* The number of a's modulo m is zero.
Modulo(m) ==
    Control(Named("modulo", m), Letters(2),
            DfaForRecognizer(Letters(2), {1}, [q \in 1..m |-> <<(q % m) + 1, q>>]))

-----------------------------------------------------------------------------
\* The families of the literature; a letter is a sequence of width bits.

BitAlphabet(width) == Listed([1..width -> {0, 1}])
BitOf(index) == Bit("1", index)

\* Anchor and witness carry the same value of a proposition.
Agree(index) ==
    orb(<<Both(BitOf(index)), andb(<<AtI(not1(BitOf(index))), AtJ(not1(BitOf(index)))>>)>>)

MarkeyAgreement(n) ==
    LET antecedent == andb([k \in 1..n |-> Agree(k)])
    IN  [Benchmark(Named("markey_agreement", n), BitAlphabet(n + 1),
                   Hist("1", orb(<<notb(antecedent), Agree(0)>>)))
            EXCEPT !.capped = n >= 2]

\* Here and at every earlier position, the head has the chain before it.
Preceded(head, chain) ==
    LET good == or1(<<not1(head), Once("1", AtJ(chain))>>)
    IN  and1(<<good, Hist("1", AtJ(good))>>)

GastinOddouxChain(n) ==
    [Benchmark(Named("gastin_oddoux_chain", n), BitAlphabet(n),
               Preceded(BitOf(0), Chain([k \in 1..(n - 1) |-> BitOf(n - k)])))
        EXCEPT !.capped = n >= 4]

GastinOddouxDepth(k) ==
    LET Link(index) == Is(Letters(2)[(index % 2) + 1])
    IN  [Benchmark(Named("gastin_oddoux_depth", k), Letters(2),
                   Preceded(Link(0), Chain([index \in 1..k |-> Link(k + 1 - index)])))
            EXCEPT !.capped = k >= 10]

=============================================================================
