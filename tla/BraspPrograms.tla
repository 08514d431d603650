----------------------------- MODULE BraspPrograms -----------------------------
(***************************************************************************)
(* Programs as study material: their attention depth, padding a program to *)
(* a depth without changing its language (uhat/pad.py, uhat/programs.py),  *)
(* and the steps by which a random program is drawn                        *)
(* (uhat/random_programs.py).                                              *)
(***************************************************************************)
EXTENDS Brasp
LOCAL INSTANCE SequencesExt
LOCAL INSTANCE FiniteSetsExt

CONSTANTS
    Terms,      \* _random_dnf: the most clauses of a drawn DNF
    Literals,   \* _random_dnf: the most literals of a clause before its witness
    Palette     \* bound: the names the generator picks from, by how many are defined

ASSUME DrawAssumption == Terms \in Nat \ {0} /\ Literals \in Nat \ {0}

-----------------------------------------------------------------------------
\* Shape of a program.

\* The number of attention operations on the longest chain below each name.
DepthTable(program) ==
    LET Below(depth, s) == {depth[name] : name \in SubprogramReferences(s) \cap DOMAIN depth}
        Step(depth, s) ==
            (s.name :> Max(Below(depth, s) \cup {0}) + IF s.kind = "attention" THEN 1 ELSE 0)
                @@ depth
    IN  FoldLeft(Step, <<>>, program.subprograms)

AttentionDepth(program) == DepthTable(program)[program.output]

-----------------------------------------------------------------------------
\* Padding.

Fresh(existing, stem) ==
    IF stem \notin existing THEN stem
    ELSE LET Numbered(index) == stem \o "_" \o ToString(index)
         IN  Numbered(Min({index \in 1..(Cardinality(existing) + 1) : Numbered(index) \notin existing}))

\* The name of the first bos subprogram, or "" when the program has none.
BosName(program) ==
    LET found == SelectSeq(program.subprograms, LAMBDA s : s.kind = "bos")
    IN  IF found = <<>> THEN "" ELSE found[1].name

\* Mutant: the value is read at BOS instead of at the query.
PadStep_AtWitness(program, step, bos) ==
    LET name == Fresh(Names(program), "pad_" \o ToString(step))
        pad == Attention(name, "rightmost", Ref(bos, "j"), Ref(program.output, "j"))
    IN  [program EXCEPT !.subprograms = Append(@, pad), !.output = name]

\* One padding operation: attend to BOS, the only match, and read the previous
\* output back at the query.
PadStep(program, step, bos) ==
    LET name == Fresh(Names(program), "pad_" \o ToString(step))
        pad == Attention(name, "rightmost", Ref(bos, "j"), Ref(program.output, "i"))
    IN  [program EXCEPT !.subprograms = Append(@, pad), !.output = name]

WithBos(program) ==
    IF BosName(program) # "" THEN program
    ELSE [program EXCEPT !.subprograms = <<Bos(Fresh(Names(program), "is_bos"))>> \o @]

\* Defined for targets of at least the current depth; the code raises below it.
PadProgram(program, target) ==
    LET base == WithBos(program)
        missing == target - AttentionDepth(program)
    IN  IF missing = 0 THEN program
        ELSE FoldLeft(LAMBDA padded, step : PadStep(padded, step, BosName(base)),
                      base, [step \in 1..missing |-> step])

-----------------------------------------------------------------------------
\* Drawing a random program.

\* A drawn literal over names, read at one of the sides.
RandomLiterals(names, sides) ==
    LET read == {Ref(name, at) : name \in names \cap Palette[Cardinality(names)], at \in sides}
    IN  read \cup {Not(reference) : reference \in read}

Side(literal) == IF literal.op = "not" THEN literal.arg.at ELSE literal.at

\* A clause, completed with a literal at the witness when one is required and
\* none was drawn.
RandomClauses(names, predicate, requireWitness) ==
    LET sides == IF predicate THEN {"i", "j"} ELSE {"i"}
        drawn == UNION {[1..n -> RandomLiterals(names, sides)] : n \in 1..Literals}
        Reads(clause) == \E k \in DOMAIN clause : Side(clause[k]) = "j"
    IN  IF ~requireWitness THEN {Conjunction(clause) : clause \in drawn}
        ELSE {Conjunction(clause) : clause \in {c \in drawn : Reads(c)}}
             \cup {Conjunction(Append(clause, witness)) :
                        clause \in {c \in drawn : ~Reads(c)},
                        witness \in RandomLiterals(names, {"j"})}

RandomDnf(names, predicate, requireWitness) ==
    LET clauses == RandomClauses(names, predicate, requireWitness)
    IN  {Disjunction(chosen) : chosen \in UNION {[1..n -> clauses] : n \in 1..Terms}}

\* is_bos and one indicator per symbol, before anything is drawn.
BaseSubprograms(alphabet) ==
    <<Bos("is_bos")>> \o [k \in DOMAIN alphabet |-> Symbol("is_" \o alphabet[k], alphabet[k])]

\* The operations a plan of attentions and Boolean nodes can be shuffled into;
\* the last one is always an attention.
Plans(attentionOps, booleanOps) ==
    {Append(order, "attention") :
        order \in {o \in [1..(attentionOps + booleanOps) -> {"attention", "boolean"}] :
                        Quantify(DOMAIN o, LAMBDA k : o[k] = "boolean") = booleanOps}}

\* One operation of the plan over the names drawn so far.
RandomOperations(kind, name, names) ==
    IF kind = "attention"
    THEN {Attention(name, direction, score, value) :
            direction \in {"rightmost", "leftmost"},
            score \in RandomDnf(names, TRUE, FALSE),
            value \in RandomDnf(names, TRUE, TRUE)}
    ELSE {BoolNode(name, expr) : expr \in RandomDnf(names, FALSE, FALSE)}

\* The output reads the last attention, alone or in conjunction with a DNF.
RandomOutputs(lastAttention, names) ==
    {BoolNode("accept", expr) :
        expr \in {Ref(lastAttention, "i")}
                    \cup {Conjunction(<<Ref(lastAttention, "i"), dnf>>) :
                            dnf \in RandomDnf(names, FALSE, FALSE)}}

=============================================================================
