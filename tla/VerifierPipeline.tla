--------------------------- MODULE VerifierPipeline ---------------------------
(***************************************************************************)
(* The compiler's main line, composed: a 2LTL DAG is mirrored to strict    *)
(* future (TwoLtl), compiled to an alternating automaton that recognises   *)
(* the reverse words (Pvwaa), and determinised into the reverse Boolean    *)
(* automaton that reads the original word (SummaryAutomaton).              *)
(***************************************************************************)
EXTENDS Pvwaa, SummaryAutomaton

CONSTANT Dags    \* the input formulas considered

VARIABLE dag    \* the input

\* The automata that the inputs compile to.
CompiledAutomaton(d) == FromFuture2ltl(ToFuture(d))

pipelineVars == <<dag, pv, word, summary, history>>

PipelineInit ==
    /\ dag \in Dags
    /\ pv = CompiledAutomaton(dag)
    /\ Unread

PipelineNext == SummaryNext /\ UNCHANGED dag

PipelineSpec == PipelineInit /\ [][PipelineNext]_pipelineVars

-----------------------------------------------------------------------------

\* The alternating automaton accepts exactly the words of its future formula.
AutomatonAcceptsFormula ==
    PvwaaAccepts(pv, Mirrored) <=> Evaluate(ToFuture(dag), Mirrored)

\* End to end: the Boolean automaton, reading the word forwards, answers what
\* the input formula says of it.
VerdictIsTheFormula ==
    AcceptsNow(pv, summary) <=>
        Evaluate(dag, IF dag.logic = "future" THEN Reverse(word) ELSE word)

=============================================================================
