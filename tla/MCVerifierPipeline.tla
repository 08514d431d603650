-------------------------- MODULE MCVerifierPipeline --------------------------
(***************************************************************************)
(* TLC instances of the compilers from formulas, in their two parts: the   *)
(* pipeline to the Boolean automaton, and the study tool's circuits.  A    *)
(* behaviour is one of the two; the other stands still.                    *)
(*                                                                         *)
(* The pipeline's formulas are built on two letter definitions over a      *)
(* three-letter alphabet (so that a letter no formula mentions exists):    *)
(* one temporal definition with every pair of operands from a set of       *)
(* masks, and above it an output that uses it at the anchor, at the        *)
(* witness, negated, or nested in a Boolean combination.                   *)
(*                                                                         *)
(* The circuits' have every operator with operands that consult letters,   *)
(* BOS and other operators at the anchor, read directly, at the witness,   *)
(* or above one another; two letters, three (so that a code means none),   *)
(* or one.                                                                 *)
(***************************************************************************)
EXTENDS VerifierPipeline, CircuitStudy, TLC

VARIABLE part

MCAlphabet == {"a", "b", "c"}

Qa(at) == Ref("Qa", at)
Qb(at) == Ref("Qb", at)
P(at) == Ref("P", at)

Dag(logic, names, definition, output) ==
    [logic |-> logic, names |-> names, definition |-> definition, output |-> output]

LetterDefinitions == [n \in {"Qa", "Qb"} |-> Letter({IF n = "Qa" THEN "a" ELSE "b"}, "i")]

With(f, name, body) == [n \in DOMAIN f \cup {name} |-> IF n = name THEN body ELSE f[n]]

\* Operands of the inner operator: constants, anchor and witness references.
Masks == {Const(TRUE), Qa("i"), Not(Qb("j")), Or(<<Not(Qa("i")), Qb("j")>>)}

Inner == {Binary("since", l, r) : l \in Masks, r \in Masks}
            \cup {Unary(op, m) : op \in PastUnary, m \in {Qa("j"), Or(<<Not(Qa("i")), Qb("j")>>)}}

\* Outputs over the inner operator P.
Outer == {
    P("i"),
    Not(P("i")),
    Binary("since", Not(Qa("j")), And(<<P("j"), Qb("i")>>)),
    Binary("since", P("i"), Qa("j")),
    And(<<Qb("i"), Not(Binary("since", P("i"), Qa("j")))>>),
    Or(<<P("i"), Unary("previous", Not(P("j")))>>),
    Unary("historically", Or(<<P("j"), Qb("i")>>)) }

PastDags ==
    {Dag("past", <<"Qa", "Qb", "P", "out">>, With(With(LetterDefinitions, "P", inner), "out", outer), Ref("out", "i")) :
        inner \in Inner, outer \in Outer}

\* Boundary tests: BOS in a past formula, and outputs that are no reference.
BoundaryDags ==
    {Dag("past", <<"Qa", "Qb", "P">>, With(LetterDefinitions, "P", inner), output) :
        inner \in { Unary("previous", Ref("Qb", "j")), And(<<Bos("i"), Not(Qa("i"))>>), Not(Bos("i")),
                    Or(<<Bos("i"), Unary("once", Qb("j"))>>), Const(TRUE) },
        output \in {P("i"), Not(P("i")), Unary("once", P("j")), And(<<Not(P("i")), Not(Qa("i"))>>),
                    Binary("since", Not(P("j")), Or(<<P("j"), Qa("i")>>))} }

MCDags == PastDags \cup BoundaryDags

\* What CompilerProofs assumes of the inputs.
ASSUME InputsCompile == \A d \in MCDags : Compilable(d)

\* What SummaryProofs assumes of the automaton (SummaryInit), and CompilerProofs
\* proves of every DAG that compiles.
ASSUME CompiledIsVeryWeak ==
    \A d \in MCDags : WellFormed(CompiledAutomaton(d)) /\ VeryWeak(CompiledAutomaton(d))

\* A .ltl file whose definitions come in another order than they depend on
\* each other: LtlText.parse takes the lines as they are.
ReorderedDags ==
    {[d EXCEPT !.names = <<"out", "P", "Qa", "Qb">>] : d \in PastDags}

\* A .ltl file that tests BOS in a strict-future formula.
FutureBosDags ==
    {Dag("future", <<"Qa", "Qb", "P">>, With(LetterDefinitions, "P", inner), P("i")) :
        inner \in {Bos("i"), Or(<<Bos("i"), Qb("i")>>), And(<<Not(Bos("i")), Qa("i")>>)}}

-----------------------------------------------------------------------------
\* The inputs of the study tool.

X(at) == Ref("x", at)
Lower(at) == Ref("p", at)
Upper(at) == Ref("q", at)

Source(alphabet, p, q, output) ==
    [logic |-> "past", alphabet |-> alphabet,
     definition |-> ("x" :> Letter({"a"}, "i")) @@ ("p" :> p) @@ ("q" :> q), output |-> output]

\* Operands that consult the anchor: a letter by its name or as an atom, and
\* the boundary.
StudyMasks == {
    And(<<X("i"), Not(X("j"))>>),
    Or(<<Not(X("i")), Letter({"b"}, "j")>>),
    Not(And(<<Letter({"b"}, "i"), X("j")>>)),
    Or(<<Bos("i"), Not(Bos("j"))>>) }

StudyInner == {Unary(op, m) : op \in PastUnary, m \in StudyMasks}
            \cup {Binary("since", l, r) : l \in StudyMasks, r \in StudyMasks}

\* Above p: a temporal coordinate, with and without a static one.
Above == {
    Not(Lower("i")),
    Unary("historically", Or(<<Lower("j"), X("i")>>)),
    Binary("since", Or(<<X("i"), Lower("i")>>), And(<<Not(Lower("i")), Not(X("j"))>>)) }

Outputs == {Upper("i"), Unary("previous", And(<<Upper("j"), Not(Upper("i"))>>))}

OneLetter == {Source(<<"a">>, p, Const(TRUE), And(<<Lower("i"), Or(<<Const(FALSE), Upper("i")>>)>>)) :
                p \in {Unary(op, X("j")) : op \in PastUnary}}

\* No declared alphabet: the letters are those named.
Undeclared == {Source(<<>>, p, Letter({"b"}, "i"), And(<<Lower("i"), Not(Upper("i"))>>)) :
                p \in {Unary("once", m) : m \in StudyMasks}}

\* A definition that has the name of a case; it is used.
Taken == LET d == Source(<<"a", "b">>, Unary("once", And(<<X("i"), X("j")>>)), Lower("i"), Upper("i"))
         IN  [d EXCEPT !.definition = @ @@ ("__ltl_case_0" :> Not(Lower("i"))),
                       !.output = And(<<Lower("i"), Not(Ref("__ltl_case_0", "i"))>>)]

\* Four coordinates that letters decide, too many for the full cover, and
\* four that they do not, too many for either.
StaticFour == Source(<<"a", "b">>,
    Unary("once", And(<<X("i"), Bos("i"), Letter({"b"}, "i"), Letter({"a"}, "i"), X("j")>>)), Lower("i"), Upper("i"))
TemporalFour ==
    LET d == Source(<<"a", "b">>, Unary("once", X("j")), Unary("previous", Not(Lower("j"))),
                 Binary("since", And(<<Lower("i"), Upper("i"), Not(Ref("r", "i"))>>), Or(<<Ref("s", "i"), X("j")>>)))
    IN  [d EXCEPT !.definition = @ @@ ("r" :> Unary("once", Bos("j"))) @@ ("s" :> Unary("historically", Lower("j")))]
Large == {StaticFour, TemporalFour}

\* EOS in a past formula, a witness outside an operand, a future operator, no
\* letters.
OutOfPlace == {
    Source(<<"a", "b">>, Unary("once", Eos("j")), Lower("i"), Upper("i")),
    Source(<<"a", "b">>, X("j"), Lower("i"), Upper("i")),
    Source(<<"a", "b">>, Unary("next", X("j")), Lower("i"), Upper("i")),
    [logic |-> "past", alphabet |-> <<>>, definition |-> ("x" :> Const(TRUE)), output |-> Unary("once", X("j"))] }

PastInputs ==
    {Source(<<"a", "b">>, p, q, o) : p \in StudyInner, q \in Above, o \in Outputs}
        \cup {Source(<<"a", "b", "c">>, p, q, Upper("i")) : p \in {Unary(op, m) : op \in PastUnary, m \in StudyMasks}, q \in Above}
        \cup OneLetter \cup Undeclared \cup {Taken} \cup Large \cup OutOfPlace

\* Future formulas: mirrored, BOS becomes an EOS that is refused.
FutureInputs == {MirrorDag(Source(<<"a", "b">>, Binary("since", l, r), q, Upper("i"))) :
                    l \in StudyMasks, r \in {And(<<X("i"), Not(X("j"))>>)}, q \in Above}
    \cup {[MirrorDag(Source(<<"a", "b">>, Lower("i"), Lower("i"), Upper("i"))) EXCEPT !.definition["p"] = Bos("i")]}

MCInputs == PastInputs \cup FutureInputs

-----------------------------------------------------------------------------

\* What stands still is as small as there is: its invariants are evaluated in
\* every state of the other part.
Smallest == Dag("past", <<"Qa", "Qb", "P">>, With(LetterDefinitions, "P", Const(TRUE)), P("i"))
SomeDag == CHOOSE d \in Dags : Smallest \in Dags => d = Smallest
SomeInput == CHOOSE d \in Inputs : TRUE

CompilersInit ==
    /\ part \in {"pipeline", "circuit"}
    /\ part # "pipeline" => dag = SomeDag
    /\ part # "circuit" => input = SomeInput /\ route = "direct-support"
    /\ PipelineInit /\ StudyInit

RunPipeline == part = "pipeline" /\ PipelineNext /\ UNCHANGED <<part, studyVars>>
RunCircuit == part = "circuit" /\ StudyNext /\ UNCHANGED <<part, pipelineVars>>

CompilersNext == RunPipeline \/ RunCircuit

CompilersSpec == CompilersInit /\ [][CompilersNext]_<<part, pipelineVars, studyVars>>

=============================================================================
