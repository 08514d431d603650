------------------------------- MODULE MCAutomata -------------------------------
(* The two ways a DFA comes about and is made small: the corpus builder in
   Python (Corpus, with small members of every family, built up to twice) and
   BooleanAutomaton.minimize in Scala (Minimize: every DFA of three states
   over two symbols, of four over one, a chain, so that the refinement needs
   several rounds, and the small ones).  A behaviour is one of the two; the
   other stands still. *)
EXTENDS Corpus, Minimize

VARIABLE part

MCBenchmarks ==
    <<DotDepth(1, Letters(2)), DotDepth(2, Letters(2)), DotDepth(3, Letters(2)),
      GastinOddouxChain(2), GastinOddouxDepth(1), GastinOddouxDepth(3), GastinOddouxDepth(10),
      MarkeyAgreement(1), MarkeyAgreement(2), Modulo(2), Modulo(3),
      YDepth(1), YDepth(2), NoTwoA(1), NoTwoA(2),
      SameLetterBefore(2), PrevRepeats(2), MonotonePast(2), SinceSameLetter(2)>>

Figure2Task(family, k, alphabet) == Task(Figure2[family], k, alphabet)

MCTaskOf ==
    [id \in {Named("dot_depth", k) : k \in 1..3} |->
        Figure2Task("dot", CHOOSE k \in 1..3 : id = Named("dot_depth", k), Letters(2))]
    @@ [id \in {Named("y_depth", k) : k \in 1..2} |->
        Figure2Task("y", CHOOSE k \in 1..2 : id = Named("y_depth", k), Letters(2))]
    @@ [id \in {Named("no_two_a", k) : k \in 1..2} |->
        Figure2Task("no2a", CHOOSE k \in 1..2 : id = Named("no_two_a", k), Letters(2))]
    @@ (Named("same_letter_before", 2) :> Figure2Task("slb", 2, Letters(2)))
    @@ (Named("monotone_past", 2) :> Figure2Task("mono_word", 2, Letters(2)))
    @@ (Named("since_same_letter", 2) :> Figure2Task("since", 2, <<"marker">> \o Letters(2)))
    @@ (Named("modulo", 2) :> Task("parity_a", 0, Letters(2)))

-----------------------------------------------------------------------------

MCShapes == {<<1, 2>>, <<2, 1>>, <<3, 2>>, <<4, 1>>}

SomeTable == CHOOSE t \in Inputs : TRUE

AutomataInit ==
    /\ part \in {"corpus", "minimize"}
    /\ CorpusInit /\ MinimizeInit
    /\ part # "corpus" => cap = CHOOSE c \in StateCaps : TRUE
    /\ part # "minimize" => table = SomeTable

BuildCorpus == part = "corpus" /\ CorpusNext /\ UNCHANGED <<part, minimizeVars>>
MinimizeTable == part = "minimize" /\ MinimizeNext /\ UNCHANGED <<part, corpusVars>>

AutomataNext == BuildCorpus \/ MinimizeTable

AutomataSpec == AutomataInit /\ [][AutomataNext]_<<part, corpusVars, minimizeVars>>

=============================================================================
