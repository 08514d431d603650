------------------------------- MODULE SolverRun -------------------------------
(***************************************************************************)
(* One instance handed to one outside solver, as measure does it in        *)
(* nusmv_baseline.py and ltlf_solver_baseline.py, and the replay of its    *)
(* witness (aalta_baseline.verify): eliminate the second variable and      *)
(* export, encode, solve, classify the output, decode the model into a     *)
(* word of the source language.                                            *)
(*                                                                         *)
(* A solver is taken at its word: an answer it gives is right about the    *)
(* formula it was given, and its model is any satisfying trace.  It may    *)
(* also be killed, crash, run out of memory or exhaust its bound.          *)
(***************************************************************************)
EXTENDS LtlfExport, TwoLtlToOneVariable
LOCAL INSTANCE SequencesExt
LOCAL INSTANCE FiniteSetsExt

CONSTANTS
    Sources,    \* past DAGs with their alphabets
    Solvers,    \* "bdd" and "bmc" are the engines of NuSMV
    MaxLetters  \* bound: the words told apart have up to so many letters

VARIABLES
    source, solver,
    phase,      \* "export", "encode", "solve", "classify", "replay", "done"
    text,       \* what the export printed
    given,      \* the formula as the solver understands it
    output,     \* what it printed: code, lines, model
    record

runVars == <<source, solver, phase, text, given, output, record>>

NuSmv == {"bdd", "bmc"}
NoFormula == Tree("none", <<>>)
Silence == [code |-> "ok", lines |-> {}, model |-> <<>>]
NoWitness == <<"none">>
NoRecord == [status |-> "none", witness |-> NoWitness, accepted |-> "none"]

Letters(s) == {s.alphabet[k] : k \in DOMAIN s.alphabet}
SourceWords(s) == UNION {[1..n -> Letters(s)] : n \in 1..MaxLetters}
Language(s) == {w \in SourceWords(s) : Evaluate(s, w)}

Names(s) == PropositionNames(s.alphabet)
NameSet(s) == {Names(s)[k] : k \in DOMAIN s.alphabet}

\* The valuations that a trace of the exported text can be made of.
Propositions(tokens, s) ==
    NameSet(s) \cup IF Contains(tokens, BosMarker) THEN {BosMarker} ELSE {}
Traces(tokens, s) == UNION {[1..n -> SUBSET Propositions(tokens, s)] : n \in 1..(MaxLetters + 1)}

RunInit ==
    /\ source \in Sources
    /\ solver \in Solvers
    /\ phase = "export"
    /\ text = <<>>
    /\ given = NoFormula
    /\ output = Silence
    /\ record = NoRecord

End(status) ==
    /\ record' = [record EXCEPT !.status = status]
    /\ phase' = "done"

\* check_propositions, and the reserved names of nusmv_baseline.py.
Refused == NameSet(source) \cap ((UnaryOps \cup {"U", "R"}) \ {"!"}) # {}
Reserved == NameSet(source) \cap {"true", "false", BosMarker} # {}

RefuseAlphabet ==
    /\ phase = "export"
    /\ Refused \/ (solver \in NuSmv /\ Reserved)
    /\ End("refused")
    /\ UNCHANGED <<source, solver, text, given, output>>

\* What --one-variable --ltlf prints: the text, or what is wrong.
OneVariableText(s) ==
    IF CaseSplitTooLarge(s) THEN <<"case split">>
    ELSE IF FormTooLarge(s) THEN <<"too many nodes">>
    ELSE ExportText(ToFuture(OneVariableForm(s)))

\* A process that is killed, or that the heap or something else stops.
Stopped == {<<"timeout">>, <<"outofmemory">>, <<"exception">>}
NoText == Stopped \cup {<<"case split">>, <<"too many nodes">>, <<"refused">>}

\* classify_export, by the words of the message.
ExportStatus(printed) ==
    CASE printed = <<"timeout">> -> "timeout"
      [] printed \in {<<"case split">>, <<"outofmemory">>} -> "size_limit"
      [] OTHER -> "error"

ExportOne ==
    /\ phase = "export"
    /\ ~Refused /\ ~(solver \in NuSmv /\ Reserved)
    /\ text' \in {OneVariableText(source)} \cup Stopped
    /\ IF text' \in NoText THEN End(ExportStatus(text'))
       ELSE phase' = "encode" /\ UNCHANGED record
    /\ UNCHANGED <<source, solver, given, output>>

Encode ==
    /\ phase = "encode"
    /\ given' = IF solver \in NuSmv THEN ToSmv(text)
                ELSE Understood(Translate(text, solver), solver)
    /\ phase' = "solve"
    /\ UNCHANGED <<source, solver, text, output, record>>

\* The budget was used up by the export.
EncodeTooLate ==
    /\ phase = "encode"
    /\ End("timeout")
    /\ UNCHANGED <<source, solver, text, given, output>>

\* The models of the formula, as the solver prints them.
Models ==
    IF solver \in NuSmv
    THEN {word \in UNION {WordsOf(t, SmvNames(text)) : t \in Traces(text, source)} :
            HoldsForEver(given, word)}
    ELSE {t \in Traces(text, source) : HoldsOn(given, t)}

SatLine == CASE solver \in NuSmv -> "false" [] solver \in {"lisa", "lydia"} -> "nonempty" [] OTHER -> "sat"
UnsatLine == CASE solver \in NuSmv -> "true" [] solver \in {"lisa", "lydia"} -> "empty" [] OTHER -> "unsat"

\* NuSMV prints the variables that changed since the previous state.
Printed(word) ==
    LET All(k) == [v \in UNION {word[m] : m \in DOMAIN word} |-> v \in word[k]]
    IN  [k \in DOMAIN word |->
            IF k = 1 THEN All(1)
            ELSE [v \in {u \in DOMAIN All(k) : All(k)[u] # All(k - 1)[u]} |-> v \in word[k]]]

SolverAnswers ==
    /\ phase = "solve"
    /\ LET models == Models
       IN  \/ /\ models # {}
              /\ \E m \in models :
                    output' = [Silence EXCEPT !.lines = {SatLine},
                                              !.model = IF solver \in NuSmv THEN Printed(m) ELSE m]
           \/ /\ models = {} /\ solver # "bmc"
              /\ output' = [Silence EXCEPT !.lines = {UnsatLine}]
    /\ phase' = "classify"
    /\ UNCHANGED <<source, solver, text, given, record>>

SolverGivesUp ==
    /\ phase = "solve"
    /\ \/ output' = [Silence EXCEPT !.code = "killed"]
       \/ output' = [Silence EXCEPT !.code = "failed"]
       \/ output' = [Silence EXCEPT !.code = "failed", !.lines = {"out of memory"}]
       \/ solver = "bmc" /\ output' = [Silence EXCEPT !.lines = {"no counterexample found with bound"}]
    /\ phase' = "classify"
    /\ UNCHANGED <<source, solver, text, given, record>>

-----------------------------------------------------------------------------
\* Reading the output.

\* Mutant: what bounded model checking does not find does not exist.
NuSmvStatus_BoundIsProof(o, engine) ==
    IF "false" \in o.lines THEN "nonempty"
    ELSE IF "true" \in o.lines /\ engine = "bdd" THEN "empty"
    ELSE IF engine = "bmc" /\ "no counterexample found with bound" \in o.lines THEN "empty"
    ELSE "unknown"

\* classify of nusmv_baseline.py on a run that ended by itself: the formula is
\* the negation of the specification that was checked.
NuSmvStatus(o, engine) ==
    IF "false" \in o.lines THEN "nonempty"
    ELSE IF "true" \in o.lines /\ engine = "bdd" THEN "empty"
    ELSE IF engine = "bmc" /\ "no counterexample found with bound" \in o.lines THEN "bound_limit"
    ELSE "unknown"

\* classify_solver on a run that ended by itself.
AnswerStatus(o) ==
    IF {"unsat", "empty"} \cap o.lines # {} THEN "empty"
    ELSE IF {"sat", "nonempty"} \cap o.lines # {} THEN "nonempty" ELSE "unknown"

\* The exit code of LTL2SAT says nothing.
Status(o, engine) ==
    CASE o.code = "killed" -> "timeout"
      [] o.code = "failed" /\ engine # "ltl2sat" ->
            IF "out of memory" \in o.lines THEN "size_limit" ELSE "error"
      [] OTHER -> IF engine \in NuSmv THEN NuSmvStatus(o, engine) ELSE AnswerStatus(o)

\* The letters whose propositions are true.
Present(valuation, names) == {source.alphabet[k] : k \in {m \in DOMAIN source.alphabet : names[m] \in valuation}}

\* One letter at each position up to the symbol-free sentinel, read backwards.
SourceWord(valuations, names) ==
    LET ends == {k \in DOMAIN valuations : Cardinality(Present(valuations[k], names)) # 1}
        letters == IF ends = {} THEN Len(valuations) ELSE Min(ends) - 1
    IN  IF ends # {} /\ Present(valuations[letters + 1], names) # {} THEN NoWitness
        ELSE Reverse([k \in 1..letters |-> CHOOSE x \in Present(valuations[k], names) : TRUE])

\* witness: the states are put together from what changed; those before the
\* sentinel have to be active.
SmvWitness(blocks) ==
    LET names == SmvNames(text)
        States == FoldLeft(LAMBDA seen, block :
                        Append(seen, block @@ IF seen = <<>> THEN <<>> ELSE seen[Len(seen)]),
                        <<>>, blocks)
        True(k) == {v \in DOMAIN States[k] : States[k][v]}
        prefix == {k \in DOMAIN States : \A m \in 1..k : "active" \in True(m)}
        word == SourceWord([k \in 1..Cardinality(prefix) |-> True(k)],
                           [k \in DOMAIN source.alphabet |-> names[Names(source)[k]]])
    IN  IF Len(word) < Cardinality(prefix) /\ word # <<>> THEN word ELSE NoWitness

\* parse_witness of Aalta and BLACK; the other solvers print no model.
Witness ==
    CASE solver \in NuSmv -> SmvWitness(output.model)
      [] solver \in {"aalta", "black"} -> SourceWord(output.model, Names(source))
      [] OTHER -> NoWitness

ClassifyOutput ==
    /\ phase = "classify"
    /\ LET status == Status(output, solver)
       IN  record' = [record EXCEPT !.status = status,
                                    !.witness = IF status = "nonempty" THEN Witness ELSE @]
    /\ phase' = IF record'.witness \in {NoWitness, <<>>} \/ solver \in NuSmv THEN "done" ELSE "replay"
    /\ UNCHANGED <<source, solver, text, given, output>>

\* verify: the compiler is asked about the word; a timeout or an error, of
\* both routes, leaves the question open.
VerifyWitness ==
    /\ phase = "replay"
    /\ \E answer \in {"none", IF Evaluate(source, record.witness) THEN "true" ELSE "false"} :
            record' = [record EXCEPT !.accepted = answer]
    /\ phase' = "done"
    /\ UNCHANGED <<source, solver, text, given, output>>

RunNext ==
    \/ RefuseAlphabet \/ ExportOne \/ Encode \/ EncodeTooLate
    \/ SolverAnswers \/ SolverGivesUp \/ ClassifyOutput \/ VerifyWitness

RunSpec == RunInit /\ [][RunNext]_runVars

-----------------------------------------------------------------------------
\* Properties.

\* Eliminating the second variable changes what is true nowhere: at every
\* position of every word the output, and each definition that is kept, hold
\* where they held before.  Every route but the PVWAA's rests on this, so
\* that their agreement says nothing of it (OneVariableConsistency.scala).
EliminationKeepsMeaning ==
    phase = "encode" =>
        LET form == OneVariableForm(source)
            Agree(f, g) ==
                \A w \in SourceWords(source) \cup {<<>>} : \A k \in 0..Len(w) :
                    Eval(form, f, w, k, k) = Eval(source, g, w, k, k)
        IN  /\ Agree(form.output, source.output)
            /\ \A n \in DOMAIN form.definition : Agree(form.definition[n], source.definition[n])

\* A word w is the trace of its reverse and one symbol-free position: whatever
\* a solver is given, of one variable or eliminated, holds on exactly the
\* traces that are such words of the source language, in its own reading of
\* next and of the end of a trace.
EncodingKeepsTraces ==
    phase = "solve" =>
        \A t \in Traces(text, source) :
            LET word == SourceWord(t, Names(source))
                encodes == /\ Present(t[Len(t)], Names(source)) = {}
                           /\ \A k \in 1..(Len(t) - 1) : Cardinality(Present(t[k], Names(source))) = 1
                           /\ BosMarker \in Propositions(text, source) =>
                                \A k \in DOMAIN t : BosMarker \in t[k] <=> k = 1
                           /\ Len(t) > 1 /\ Evaluate(source, word)
            IN  IF solver \in NuSmv
                THEN \A w \in WordsOf(t, SmvNames(text)) : HoldsForEver(given, w) <=> encodes
                ELSE HoldsOn(given, t) <=> encodes

\* A verdict on the formula is one on the source language: a bound that is
\* exhausted, a crash or a silent solver never makes it empty.  And for every
\* model a solver may print, what is read off it backwards, up to its
\* sentinel, is a nonempty word of that language.
AnswersAreTheLanguages ==
    /\ record.status = "empty" => Language(source) = {}
    /\ record.status = "nonempty" => Language(source) # {}
    /\ record.witness # NoWitness =>
        record.witness # <<>> /\ Evaluate(source, record.witness) /\ record.accepted # "false"

=============================================================================
