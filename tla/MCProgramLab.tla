------------------------------ MODULE MCProgramLab ------------------------------
(* Small sources for ProgramLab over a two-letter alphabet. *)
EXTENDS ProgramLab

MCAlphabet == <<"a", "b">>
MCPalette == 3 :> {"is_a"} @@ 4 :> {"n0"} @@ 5 :> {"n1"} @@ 6 :> {"n2", "is_a"}
MCFeatures == {"is_a", "h1_1", "h1_2", "h2_1"}

\* Two layers of one head, whose output reads the upper head, ...
TwoLayers ==
    [Boolean!NewModel(MCAlphabet, 2, 1, 1, <<"rightmost", "leftmost">>)
        EXCEPT !.output[1]["i"][5] = Boolean!POSITIVE]

\* ... and one layer of a rightmost and a leftmost head with two terms each,
\* whose second terms are recruited and whose output is their disjunction.
TwoHeads ==
    [Boolean!NewModel(MCAlphabet, 1, 2, 2, <<"rightmost", "leftmost">>)
        EXCEPT !.output[1]["i"][4] = Boolean!POSITIVE,
               !.output[2]["i"][5] = Boolean!POSITIVE,
               !.layers[1][1].score[2]["j"][2] = Boolean!NEGATIVE,
               !.layers[1][2].score[2]["j"][1] = Boolean!NEGATIVE,
               !.layers[1][1].value[2]["j"][3] = Boolean!POSITIVE,
               !.layers[1][2].value[2]["i"][2] = Boolean!POSITIVE]

MCBooleanModels == {TwoLayers, TwoHeads}

\* A real layer of the given heads, over scores that tie for some pairs: the
\* query is kept where the last head sees nothing or vector 1.
RealLayer(directions) ==
    [heads |-> [h \in DOMAIN directions |->
        [direction |-> directions[h],
         score |-> [pair \in (1..Vectors) \X (1..Vectors) |-> (pair[1] * pair[2] + h) % 3]]],
     apply |-> [key \in (1..Vectors) \X [1..Len(directions) -> 0..Vectors] |->
                    IF key[2][Len(directions)] <= 1 THEN key[1] ELSE key[2][1] + 1 - (key[2][1] \div 2)]]

RealModel(embedding, layers) ==
    [alphabet |-> MCAlphabet, embedding |-> embedding, layers |-> layers, accepting |-> {1, 3}]

MCRealModels ==
    {RealModel(<<1, 2, 3>>, <<RealLayer(<<"leftmost">>)>>),
     RealModel(<<1, 2, 3>>, <<RealLayer(<<"rightmost", "leftmost">>)>>),   \* exceeds the cap
     RealModel(<<1, 2, 2>>, <<RealLayer(<<"rightmost", "leftmost">>)>>),
     RealModel(<<2, 2, 1>>, <<RealLayer(<<"leftmost">>), RealLayer(<<"rightmost">>)>>)}

=============================================================================
