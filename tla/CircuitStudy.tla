------------------------------ MODULE CircuitStudy ------------------------------
(***************************************************************************)
(* The study tool's routes from a formula to a summary circuit             *)
(* (CircuitStudy.run): directly, or through SharedOneVariableLtl, each     *)
(* with the full cover or the realizable one; and the circuit at work.     *)
(***************************************************************************)
EXTENDS DirectSummary
LOCAL INSTANCE SequencesExt

CONSTANTS
    Inputs,     \* DAGs with their declared alphabets, <<>> when none is
    MaxCodes    \* bound: codes a circuit is given

VARIABLES
    input, route,
    stage,      \* "eliminate", "encode", "circuit", "failed"
    past,       \* the input as a strict-past formula
    form,       \* what the circuit is made of
    codes       \* what the circuit has read

studyVars == <<input, route, stage, past, form, codes, circuitVars>>

Routes == {"direct-support", "direct-realizable", "one-variable-shared", "one-variable-realizable"}
Shared == {"one-variable-shared", "one-variable-realizable"}
RealizableCover(r) == r \in {"direct-realizable", "one-variable-realizable"}

\* A future formula becomes a past one, about reverse words.
ToPast(dag) == IF dag.logic = "past" THEN dag ELSE MirrorDag(dag)

StudyInit ==
    /\ input \in Inputs
    /\ route \in Routes
    /\ stage = IF route \in Shared THEN "eliminate" ELSE "encode"
    /\ past = ToPast(input)
    /\ form = past
    /\ codes = <<>>
    /\ CircuitInit

\* TranslationTooLarge, or AigerError.
Fails(dag, reduce) == Refused(dag) \/ OverBudget(dag, reduce)

Eliminate ==
    /\ stage = "eliminate"
    /\ ~Fails(past, RealizableCover(route))
    /\ form' = SharedForm(past, RealizableCover(route))
    /\ stage' = "encode"
    /\ UNCHANGED <<input, route, past, codes, circuitVars>>

EliminationFails ==
    /\ stage = "eliminate"
    /\ Fails(past, RealizableCover(route))
    /\ stage' = "failed"
    /\ UNCHANGED <<input, route, past, form, codes, circuitVars>>

\* The circuit of an eliminated formula is made with the full cover, and
\* required to have one register for each operator.
Reduce == route = "direct-realizable"
NotEncoded == Fails(form, Reduce) \/ (route \in Shared /\ QueryDependent(form))

Encode ==
    /\ stage = "encode"
    /\ ~NotEncoded
    /\ Generate(form, Reduce)
    /\ stage' = "circuit"
    /\ UNCHANGED <<input, route, past, form, codes>>

EncodingFails ==
    /\ stage = "encode"
    /\ NotEncoded
    /\ stage' = "failed"
    /\ UNCHANGED <<input, route, past, form, codes, circuitVars>>

ReadCode(code) ==
    /\ Len(codes) < MaxCodes
    /\ Tick(form, code)
    /\ codes' = Append(codes, code)
    /\ UNCHANGED <<input, route, stage, past, form>>

StudyNext ==
    \/ Eliminate \/ EliminationFails \/ Encode \/ EncodingFails
    \/ stage = "circuit" /\ \E code \in Codes(form) : ReadCode(code)

StudySpec == StudyInit /\ [][StudyNext]_studyVars

-----------------------------------------------------------------------------
\* Properties.

\* The circuit answers at every symbol whether the input holds of what has
\* been read (of its reverse, when the input is a future formula), on all four
\* routes, and nothing is accepted once a code of no letter has been read.
CircuitIsTheFormula ==
    codes # <<>> =>
        LET letters == Letters(past)
            word == [k \in DOMAIN codes |-> letters[codes[k] + 1]]
        IN  bad <=> /\ \A k \in DOMAIN codes : codes[k] < Len(letters)
                    /\ Evaluate(input, IF input.logic = "past" THEN word ELSE Reverse(word))

\* The elimination never makes a formula that the circuit generator turns down
\* (an operand that still consults its anchor, more cases than the budget
\* allowed for, a witness out of place): a route through it fails only where
\* the direct route with the same cover fails.
RoutesFailAlike ==
    stage = "failed" => Fails(past, RealizableCover(route))

=============================================================================
