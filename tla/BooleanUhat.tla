------------------------------ MODULE BooleanUhat ------------------------------
(***************************************************************************)
(* The trainable Boolean transformer once its gates are one-hot            *)
(* (uhat/model.py with hard=True) and the B-RASP program read off it       *)
(* (uhat/extract.py).                                                      *)
(*                                                                         *)
(* A predicate is a sequence of terms; a term gives, for each side it      *)
(* reads, a gate per live feature.  A batch is one word: every row of the  *)
(* tensors is independent.  A 0/1 activation is membership of the position *)
(* in the feature's column.  The clamp of the attention products leaves    *)
(* every position but the selected one a weight of at most _EPS, whose sum *)
(* binarise rounds away; the hard forward pass is therefore Boolean.       *)
(***************************************************************************)
EXTENDS Brasp
LOCAL INSTANCE SequencesExt

IGNORE == 0
POSITIVE == 1
NEGATIVE == 2

SymbolFeatureName(symbol) == "is_" \o symbol
HeadName(layer, head) == "h" \o ToString(layer) \o "_" \o ToString(head)

\* The directions are cycled over the heads of a layer.
HeadDirection(directions, head) == directions[((head - 1) % Len(directions)) + 1]

BaseNames(alphabet) == <<"is_bos">> \o [k \in DOMAIN alphabet |-> SymbolFeatureName(alphabet[k])]

LayerNames(model, layer) ==
    [head \in DOMAIN model.layers[layer] |-> HeadName(layer, head)]

\* The features live below a layer; below layer Len(layers) + 1, all of them.
VisibleNames(model, layer) ==
    BaseNames(model.alphabet) \o FlattenSeq([l \in 1..(layer - 1) |-> LayerNames(model, l)])

-----------------------------------------------------------------------------
\* A fresh predicate omits every feature.

EmptyDnf(features, terms, sides) ==
    [term \in 1..terms |-> [side \in sides |-> [f \in 1..features |-> IGNORE]]]

\* The model before any gate is recruited.
NewModel(alphabet, layers, heads, terms, directions) ==
    LET base == Len(alphabet) + 1
        Head_(width, head) ==
            [direction |-> HeadDirection(directions, head),
             score |-> EmptyDnf(width, terms, {"i", "j"}),
             value |-> EmptyDnf(width, terms, {"i", "j"})]
    IN  [alphabet |-> alphabet,
         layers |-> [l \in 1..layers |->
                        [h \in 1..heads |-> Head_(base + (l - 1) * heads, h)]],
         output |-> EmptyDnf(base + layers * heads, terms, {"i"})]

-----------------------------------------------------------------------------
\* The hard forward pass.

Literal(gate, value) ==
    CASE gate = IGNORE -> TRUE [] gate = POSITIVE -> value [] gate = NEGATIVE -> ~value

SideTerm(gates, x, position) == \A f \in DOMAIN gates : Literal(gates[f], position \in x[f])

ForwardQuery(dnf, x, i) == \E t \in DOMAIN dnf : SideTerm(dnf[t]["i"], x, i)

ForwardPair(dnf, x, i, j) ==
    \E t \in DOMAIN dnf : SideTerm(dnf[t]["i"], x, i) /\ SideTerm(dnf[t]["j"], x, j)

\* The strict-past positions whose score holds, and the one that keeps weight 1:
\* the product over the positions after it (rightmost) or before it (leftmost)
\* of 1 - score is 1 only when none of them matches.
HeadOutput(head, x, i) ==
    LET matches == {j \in 0..(i - 1) : ForwardPair(head.score, x, i, j)}
        Alone(j) == IF head.direction = "rightmost" THEN \A k \in matches : k <= j
                    ELSE \A k \in matches : k >= j
    IN  \E j \in matches : Alone(j) /\ ForwardPair(head.value, x, i, j)

\* encode: token 0 is BOS, token 1 + index a symbol.
Encode(word, alphabet) ==
    [p \in 0..Len(word) |-> IF p = 0 THEN 0 ELSE CHOOSE k \in DOMAIN alphabet : alphabet[k] = word[p]]

BaseFeatures(tokens, alphabet) ==
    <<{0}>> \o [k \in DOMAIN alphabet |-> {p \in DOMAIN tokens : tokens[p] = k}]

\* Every activation, and the acceptance read at the last position.
Forward(model, word) ==
    FoldLeft(LAMBDA x, heads :
                x \o [h \in DOMAIN heads |-> {p \in 0..Len(word) : HeadOutput(heads[h], x, p)}],
             BaseFeatures(Encode(word, model.alphabet), model.alphabet),
             model.layers)

ModelAccepts(model, word) == ForwardQuery(model.output, Forward(model, word), Len(word))

-----------------------------------------------------------------------------
\* Extraction.

\* _dnf_expression: one conjunction per term, its literals by side and feature.
DnfExpression(dnf, names, sides) ==
    LET LiteralsOf(gates, at) ==
            FoldLeft(LAMBDA literals, f :
                        CASE gates[f] = IGNORE -> literals
                          [] gates[f] = POSITIVE -> Append(literals, Ref(names[f], at))
                          [] gates[f] = NEGATIVE -> Append(literals, Not(Ref(names[f], at))),
                     <<>>, [f \in DOMAIN gates |-> f])
        Term(t) == Conjunction(FlattenSeq([s \in DOMAIN sides |-> LiteralsOf(dnf[t][sides[s]], sides[s])]))
    IN  Disjunction([t \in DOMAIN dnf |-> Term(t)])

\* Drop the heads the output does not depend on, keeping the base nodes.
PruneAttentions(program) ==
    LET kept == Names(Prune(program))
    IN  [program EXCEPT !.subprograms =
            SelectSeq(@, LAMBDA s : s.kind \in {"bos", "symbol"} \/ s.name \in kept)]

\* Mutant: every head becomes a rightmost attention.
ExtractHead_Rightmost(model, layer, k) ==
    LET head == model.layers[layer][k]
        visible == VisibleNames(model, layer)
    IN  Attention(HeadName(layer, k), "rightmost",
                  DnfExpression(head.score, visible, <<"i", "j">>),
                  DnfExpression(head.value, visible, <<"i", "j">>))

ExtractHead(model, layer, k) ==
    LET head == model.layers[layer][k]
        visible == VisibleNames(model, layer)
    IN  Attention(HeadName(layer, k), head.direction,
                  DnfExpression(head.score, visible, <<"i", "j">>),
                  DnfExpression(head.value, visible, <<"i", "j">>))

Extract(model) ==
    LET base == <<Bos("is_bos")>>
                \o [k \in DOMAIN model.alphabet |->
                        Symbol(SymbolFeatureName(model.alphabet[k]), model.alphabet[k])]
        heads == FlattenSeq([l \in DOMAIN model.layers |->
                                [k \in DOMAIN model.layers[l] |-> ExtractHead(model, l, k)]])
        accept == BoolNode("accept",
                           DnfExpression(model.output,
                                         VisibleNames(model, Len(model.layers) + 1), <<"i">>))
    IN  PruneAttentions(Program(Append(base \o heads, accept), "accept", model.alphabet))

\* The words the hardened model and the program disagree on.
VerifyEquivalence(model, program, words) ==
    {word \in words : ModelAccepts(model, word) # Accepts(program, word)}

=============================================================================
