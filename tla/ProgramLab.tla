------------------------------- MODULE ProgramLab -------------------------------
(***************************************************************************)
(* Where the Python side gets its programs from and what it does to them   *)
(* before the verifier reads them.  A program is drawn at random           *)
(* (random_programs.py), taken from the catalogue of uhat_identify.py,     *)
(* read off a trained Boolean transformer (model.py, extract.py) or built  *)
(* from the activation classes of a real-valued one (real_model.py,        *)
(* real_extract.py); it may be padded to a depth (pad.py); it is rendered  *)
(* to a .brasp text and parsed again (brasp.py).  language remembers the   *)
(* words the source accepted.                                              *)
(*                                                                         *)
(* An optimiser step is any change of one gate (Boolean model) or of one   *)
(* table entry (real model).                                               *)
(***************************************************************************)
EXTENDS BraspPrograms, Catalogue, FiniteSets
LOCAL INSTANCE SequencesExt

CONSTANTS
    Alphabet,       \* the letters, a sequence
    MaxLength,      \* bound: words up to this length tell languages apart
    AttentionOps,   \* bound: attentions of a plan before its last one
    BooleanOps,     \* bound: Boolean nodes of a plan
    BooleanModels,  \* initialisations of the Boolean transformer
    Features,       \* bound: the features whose gates training changes
    GateSteps,      \* bound: gates changed by training
    RealModels,     \* initialisations of the real transformer
    Vectors,        \* bound: distinct activation vectors
    TableSteps,     \* bound: table entries changed by training
    ClassCap,       \* the most class combinations a layer may have
    MaxPadding      \* bound: operations added by padding

Boolean == INSTANCE BooleanUhat
Real == INSTANCE RealUhat

VARIABLES source, stage, plan, model, steps, program, depth, text, language

vars == <<source, stage, plan, model, steps, program, depth, text, language>>

Words == UNION {[1..n -> {Alphabet[k] : k \in DOMAIN Alphabet}] : n \in 0..MaxLength}
NonEmpty(words) == words \ {<<>>}
LanguageOf(p) == {w \in Words : Accepts(p, w)}

NoModel == [alphabet |-> <<>>]
NoProgram == Program(<<>>, "none", <<>>)

-----------------------------------------------------------------------------

InitRandom ==
    /\ source = "random"
    /\ stage = "drawing"
    /\ plan \in Plans(AttentionOps, BooleanOps)
    /\ model = NoModel
    /\ program = Program(BaseSubprograms(Alphabet), "none", Alphabet)

InitTrained ==
    /\ \/ source = "boolean" /\ model \in BooleanModels
       \/ source = "real" /\ model \in RealModels
    /\ stage = "training"
    /\ plan = <<>>
    /\ program = NoProgram

\* One entry of the catalogue, which is kept as the plan.
InitCatalogue ==
    /\ source = "catalogue"
    /\ stage = "program"
    /\ \E entry \in Entries(Alphabet) :
            plan = <<entry>> /\ program = CatalogueProgram(entry, Alphabet)
    /\ model = NoModel

Init ==
    /\ InitRandom \/ InitTrained \/ InitCatalogue
    /\ steps = 0
    /\ depth = 0
    /\ text = <<>>
    /\ language = IF stage = "program" THEN LanguageOf(program) ELSE {}

-----------------------------------------------------------------------------
\* Drawing a program.

OperationName == "n" \o ToString(AttentionOps + BooleanOps + 1 - Len(plan))

DrawOperation ==
    /\ stage = "drawing" /\ plan # <<>>
    /\ \E s \in RandomOperations(Head(plan), OperationName, Names(program)) :
            program' = [program EXCEPT !.subprograms = Append(@, s)]
    /\ plan' = Tail(plan)
    /\ UNCHANGED <<source, stage, model, steps, depth, text, language>>

\* The last operation drawn is the last attention: every plan ends with one.
DrawOutput ==
    /\ stage = "drawing" /\ plan = <<>>
    /\ \E s \in RandomOutputs(Last(program.subprograms).name, Names(program)) :
            program' = [program EXCEPT !.subprograms = Append(@, s), !.output = "accept"]
    /\ stage' = "program"
    /\ language' = LanguageOf(program')
    /\ UNCHANGED <<source, plan, model, steps, depth, text>>

-----------------------------------------------------------------------------
\* Training a model and reading a program off it.

Train(max, updated) ==
    /\ stage = "training" /\ steps < max
    /\ model' = updated
    /\ steps' = steps + 1
    /\ UNCHANGED <<source, stage, plan, program, depth, text, language>>

\* The features of a layer whose gates may change.
Turnable(layer) ==
    LET visible == Boolean!VisibleNames(model, layer)
    IN  {f \in DOMAIN visible : visible[f] \in Features}

TurnHeadGate ==
    /\ source = "boolean"
    /\ \E l \in DOMAIN model.layers, part \in {"score", "value"}, side \in {"i", "j"}, gate \in 0..2 :
       \E h \in DOMAIN model.layers[l], f \in Turnable(l), t \in DOMAIN model.output :
            Train(GateSteps, [model EXCEPT !.layers[l][h][part][t][side][f] = gate])

TurnOutputGate ==
    /\ source = "boolean"
    /\ \E t \in DOMAIN model.output, f \in Turnable(Len(model.layers) + 1), gate \in 0..2 :
            Train(GateSteps, [model EXCEPT !.output[t]["i"][f] = gate])

ExtractProgram ==
    /\ source = "boolean" /\ stage = "training"
    /\ program' = Boolean!Extract(model)
    /\ language' = {w \in Words : Boolean!ModelAccepts(model, w)}
    /\ stage' = "program"
    /\ UNCHANGED <<source, plan, model, steps, depth, text>>

ChangeScore ==
    /\ source = "real"
    /\ \E l \in DOMAIN model.layers :
       \E h \in DOMAIN model.layers[l].heads :
       \E pair \in DOMAIN model.layers[l].heads[h].score, value \in 0..2 :
            Train(TableSteps, [model EXCEPT !.layers[l].heads[h].score[pair] = value])

ChangeActivation ==
    /\ source = "real"
    /\ \E l \in DOMAIN model.layers, vector \in 1..Vectors :
       \E key \in DOMAIN model.layers[l].apply :
            Train(TableSteps, [model EXCEPT !.layers[l].apply[key] = vector])

BuildProgram ==
    /\ source = "real" /\ stage = "training"
    /\ ~Real!ExceedsCap(model, ClassCap)
    /\ program' = Real!BuildProgram(model)
    /\ language' = {w \in Words : Real!RealAccepts(model, w)}
    /\ stage' = "program"
    /\ UNCHANGED <<source, plan, model, steps, depth, text>>

\* ExtractionError: the run ends without a program.
RefuseToBuild ==
    /\ source = "real" /\ stage = "training"
    /\ Real!ExceedsCap(model, ClassCap)
    /\ stage' = "refused"
    /\ UNCHANGED <<source, plan, model, steps, program, depth, text, language>>

-----------------------------------------------------------------------------
\* Padding, writing and reading.

Pad ==
    /\ stage = "program"
    /\ depth' \in AttentionDepth(program)..(AttentionDepth(program) + MaxPadding)
    /\ program' = PadProgram(program, depth')
    /\ stage' = "padded"
    /\ UNCHANGED <<source, plan, model, steps, text, language>>

Write ==
    /\ stage \in {"program", "padded"}
    /\ text' = Render(program)
    /\ stage' = "written"
    /\ UNCHANGED <<source, plan, model, steps, program, depth, language>>

Read ==
    /\ stage = "written"
    /\ program' = Parse(text)
    /\ text' = <<>>
    /\ stage' = "read"
    /\ UNCHANGED <<source, plan, model, steps, depth, language>>

Next ==
    \/ DrawOperation \/ DrawOutput
    \/ TurnHeadGate \/ TurnOutputGate \/ ExtractProgram
    \/ ChangeScore \/ ChangeActivation \/ BuildProgram \/ RefuseToBuild
    \/ Pad \/ Write \/ Read

Spec == Init /\ [][Next]_vars

-----------------------------------------------------------------------------
\* Properties.

Has(s) == stage = s

\* Extraction is a read-off: the program of a hardened Boolean model accepts
\* exactly the words the model accepts, the empty word included
\* (extract.verify_equivalence finds no disagreement).
ExtractionIsExact ==
    Has("program") /\ source = "boolean" => Boolean!VerifyEquivalence(model, program, Words) = {}

\* The cascade of score levels, bit codes and transition tables computes what
\* the real model computes: unique hard attention with exact tie-breaking.
ClassTablesAreExact ==
    Has("program") /\ source = "real" => LanguageOf(program) = language

\* Padding reaches the depth it was asked for and changes no answer on a
\* nonempty word.
PaddingOnlyDeepens ==
    Has("padded") =>
        /\ AttentionDepth(program) = depth
        /\ NonEmpty(LanguageOf(program)) = NonEmpty(language)

\* parse is the inverse of render on every program the project writes.
ReadBackIsWhatWasWritten ==
    [][Has("written") /\ stage' = "read" => program' = program]_vars

=============================================================================
