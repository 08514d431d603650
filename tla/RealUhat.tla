-------------------------------- MODULE RealUhat --------------------------------
(***************************************************************************)
(* The real-valued hard-attention transformer (uhat/real_model.py) and the *)
(* program of its activation classes (uhat/real_extract.py).               *)
(*                                                                         *)
(* A vector is a number of 1..Vectors that tells vectors apart; 0 stands   *)
(* for the missing attention term of BOS.  What a layer computes with its  *)
(* weights is a table: apply gives the vector produced from the query's    *)
(* and one witness vector per head, score the bilinear score of a pair,    *)
(* accepting the vectors whose logit is positive.  Arithmetic is exact.    *)
(***************************************************************************)
EXTENDS Brasp
LOCAL INSTANCE SequencesExt
LOCAL INSTANCE FiniteSetsExt

NoVector == 0
NoClass == -1

-----------------------------------------------------------------------------
\* The model.

\* The witness C picks: the best score, the first or the last of those tied.
Chosen(head, x, i) ==
    LET best == {j \in 0..(i - 1) : \A k \in 0..(i - 1) :
                    head.score[x[i], x[j]] >= head.score[x[i], x[k]]}
    IN  IF head.direction = "leftmost" THEN Min(best) ELSE Max(best)

\* BOS has no witness and contributes no attention term.
Attended(head, x, i) == IF i = 0 THEN NoVector ELSE x[Chosen(head, x, i)]

Layer(layer, x) ==
    [i \in DOMAIN x |->
        layer.apply[x[i], [h \in DOMAIN layer.heads |-> Attended(layer.heads[h], x, i)]]]

Embedded(model, word) ==
    [p \in 0..Len(word) |->
        model.embedding[IF p = 0 THEN 1
                        ELSE 1 + CHOOSE k \in DOMAIN model.alphabet : model.alphabet[k] = word[p]]]

Activations(model, word) ==
    FoldLeft(LAMBDA x, layer : Layer(layer, x), Embedded(model, word), model.layers)

RealAccepts(model, word) == Activations(model, word)[Len(word)] \in model.accepting

-----------------------------------------------------------------------------
\* Activation classes.

\* Distinct vectors, each at its first place.
Dedupe(vectors) ==
    FoldLeft(LAMBDA kept, v : IF v \in ToSet(kept) THEN kept ELSE Append(kept, v), <<>>, vectors)

\* Classes are numbered from 0.
IndexOf(vector, table) == SelectInSeq(table, LAMBDA v : v = vector) - 1

\* The choices of one class or none per head, in the order recurse makes them.
RECURSIVE WitnessChoices(_, _)
WitnessChoices(heads, classes) ==
    IF heads = 0 THEN <<<<>>>>
    ELSE LET options == <<NoClass>> \o [k \in 1..classes |-> k - 1]
             shorter == WitnessChoices(heads - 1, classes)
         IN  FlattenSeq([s \in DOMAIN shorter |->
                [o \in DOMAIN options |-> Append(shorter[s], options[o])]])

Combinations(layer, previous) == Len(previous) * (Len(previous) + 1) ^ Len(layer.heads)

\* Every activation the layer can produce from the previous layer's classes:
\* the query varies fastest.
CloseLayer(layer, previous) ==
    LET choices == WitnessChoices(Len(layer.heads), Len(previous))
        keys == FlattenSeq([c \in DOMAIN choices |->
                    [q \in DOMAIN previous |-> <<q - 1, choices[c]>>]])
        VectorOf(class) == IF class = NoClass THEN NoVector ELSE previous[class + 1]
        produced == [k \in DOMAIN keys |->
                        layer.apply[previous[keys[k][1] + 1],
                                    [h \in DOMAIN layer.heads |-> VectorOf(keys[k][2][h])]]]
        values == Dedupe(produced)
    IN  [values |-> values, keys |-> keys,
         class |-> [k \in DOMAIN keys |-> IndexOf(produced[k], values)]]

\* Mutant: the levels are sorted the wrong way round.
ScoreLevels_WorstFirst(head, values, query) ==
    LET Score(w) == head.score[values[query + 1], values[w + 1]]
        classes == [k \in DOMAIN values |-> k - 1]
        levels == SetToSortSeq({Score(w) : w \in ToSet(classes)}, LAMBDA a, b : a < b)
    IN  [l \in DOMAIN levels |-> SelectSeq(classes, LAMBDA w : Score(w) = levels[l])]

\* The witness classes of one query class grouped by score, best first.
ScoreLevels(head, values, query) ==
    LET Score(w) == head.score[values[query + 1], values[w + 1]]
        classes == [k \in DOMAIN values |-> k - 1]
        levels == SetToSortSeq({Score(w) : w \in ToSet(classes)}, LAMBDA a, b : a > b)
    IN  [l \in DOMAIN levels |-> SelectSeq(classes, LAMBDA w : Score(w) = levels[l])]

-----------------------------------------------------------------------------
\* The program.

Bits(count) == CHOOSE width \in 1..count : /\ 2 ^ width >= count /\ 2 ^ width >= 2
                                           /\ width = 1 \/ 2 ^ (width - 1) < count

BitName(prefix, bit) == prefix \o "_b" \o ToString(bit)
HasBit(index, bit) == (index \div 2 ^ bit) % 2 = 1

\* A class's binary code as a conjunction of bit literals.
ClassMatch(prefix, index, width, at) ==
    Conjunction([b \in 1..width |->
        LET reference == Ref(BitName(prefix, b - 1), at)
        IN  IF HasBit(index, b - 1) THEN reference ELSE Not(reference)])

HeadTag(depth, head) == "L" \o ToString(depth) \o "h" \o ToString(head)
LevelName(tag, word, level) == tag \o "_" \o word \o ToString(level)

\* Layer 0: one bit node per bit, off the symbol indicators.
BaseBits(model, values) ==
    LET tokenName == <<"is_bos">> \o [k \in DOMAIN model.alphabet |-> "is_" \o model.alphabet[k]]
        tokens == [t \in DOMAIN tokenName |-> t]
        Members(bit) == SelectSeq(tokens, LAMBDA t : HasBit(IndexOf(model.embedding[t], values), bit))
        Node(bit) == BoolNode(BitName("L0", bit),
                        Disjunction([m \in DOMAIN Members(bit) |-> Ref(tokenName[Members(bit)[m]], "i")]))
    IN  [b \in 1..Bits(Len(values)) |-> Node(b - 1)]

\* Some pair of a query class and one of its witnesses at this level.
LevelPredicate(groups, level, prefix, width) ==
    LET Term(q) == Conjunction(<<ClassMatch(prefix, q - 1, width, "i"),
                                 Disjunction([w \in DOMAIN groups[q][level] |->
                                    ClassMatch(prefix, groups[q][level][w], width, "j")])>>)
        reaching == SelectSeq([q \in DOMAIN groups |-> q], LAMBDA q : level <= Len(groups[q]))
    IN  Disjunction([k \in DOMAIN reaching |-> Term(reaching[k])])

LevelCount(groups) == Max({Len(groups[q]) : q \in DOMAIN groups})

HitName(tag, level) == LevelName(tag, "hit", level - 1)
FirstName(tag, level) == LevelName(tag, "first", level - 1)
SelectName(tag, level, bit) == BitName(LevelName(tag, "lvl", level - 1), bit)

\* A level: whether it hits, and the bits of what it selects.
LevelNodes(head, tag, level, predicate, prefix, width) ==
    <<Attention(HitName(tag, level), "rightmost", predicate, Const(TRUE))>>
    \o [b \in 1..width |-> Attention(SelectName(tag, level, b - 1), head.direction, predicate,
                                     Ref(BitName(prefix, b - 1), "j"))]

\* The levels that do not hit.
Missed(tag, levels) == [l \in 1..levels |-> Not(Ref(HitName(tag, l), "i"))]

FirstNode(tag, level) ==
    BoolNode(FirstName(tag, level),
             Conjunction(<<Ref(HitName(tag, level), "i")>> \o Missed(tag, level - 1)))

SelectedBit(tag, levels, bit) ==
    BoolNode(BitName(tag, bit), Disjunction([l \in 1..levels |->
        Conjunction(<<Ref(FirstName(tag, l), "i"), Ref(SelectName(tag, l, bit), "i")>>)]))

\* A head: its levels, then the first level that hits, the bits of its
\* selection, and "no witness".
HeadNodes(head, tag, groups, levels, prefix, width) ==
    FlattenSeq([l \in 1..levels |->
        LevelNodes(head, tag, l, LevelPredicate(groups, l, prefix, width), prefix, width)])
    \o [l \in 1..levels |-> FirstNode(tag, l)]
    \o [b \in 1..width |-> SelectedBit(tag, levels, b - 1)]
    \o <<BoolNode(tag \o "_none", Conjunction(Missed(tag, levels)))>>

\* This layer's class bits, from the transition table.
ClassBits(table, tags, prefix, width, next) ==
    LET Witness(tag, class) ==
            IF class = NoClass THEN <<Ref(tag \o "_none", "i")>>
            ELSE <<Not(Ref(tag \o "_none", "i")), ClassMatch(tag, class, width, "i")>>
        Term(k) == Conjunction(<<ClassMatch(prefix, table.keys[k][1], width, "i")>>
                        \o FlattenSeq([h \in DOMAIN tags |-> Witness(tags[h], table.keys[k][2][h])]))
        keys == [k \in DOMAIN table.keys |-> k]
        Setting(bit) == SelectSeq(keys, LAMBDA k : HasBit(table.class[k], bit))
    IN  [b \in 1..Bits(Len(table.values)) |->
            BoolNode(BitName(next, b - 1),
                     Disjunction([c \in DOMAIN Setting(b - 1) |-> Term(Setting(b - 1)[c])]))]

HeadTags(layer, depth) == [h \in DOMAIN layer.heads |-> HeadTag(depth, h - 1)]

\* The heads of a layer that reads the given values.
LayerHeads(layer, tags, values, prefix) ==
    LET Groups(head) == [q \in DOMAIN values |-> ScoreLevels(head, values, q - 1)]
        Nodes(head, tag, groups) ==
            HeadNodes(head, tag, groups, LevelCount(groups), prefix, Bits(Len(values)))
    IN  FlattenSeq([h \in DOMAIN tags |->
            Nodes(layer.heads[h], tags[h], Groups(layer.heads[h]))])

\* One layer, whose table is given, on top of the nodes built so far.
Extended(built, layer, table, tags, next) ==
    [nodes |-> built.nodes
                \o LayerHeads(layer, tags, built.values, built.prefix)
                \o ClassBits(table, tags, built.prefix, Bits(Len(built.values)), next),
     values |-> table.values, prefix |-> next, depth |-> built.depth + 1]

ExtendByLayer(built, layer) ==
    Extended(built, layer, CloseLayer(layer, built.values), HeadTags(layer, built.depth),
             "L" \o ToString(built.depth + 1))

\* close_layer refuses a layer whose combinations exceed the cap.
ExceedsCap(model, cap) ==
    LET Below(l) == FoldLeft(LAMBDA values, layer : CloseLayer(layer, values).values,
                             Dedupe(model.embedding), SubSeq(model.layers, 1, l - 1))
    IN  \E l \in DOMAIN model.layers : Combinations(model.layers[l], Below(l)) > cap

\* Before the first layer: the indicators and the bits of the embeddings.
Base(model, values) ==
    [nodes |-> <<Bos("is_bos")>>
                \o [k \in DOMAIN model.alphabet |->
                        Symbol("is_" \o model.alphabet[k], model.alphabet[k])]
                \o BaseBits(model, values),
     values |-> values, prefix |-> "L0", depth |-> 0]

\* After the last one: does the class read at the end accept?
WithOutput(built, model) ==
    LET accepting == SelectSeq([c \in DOMAIN built.values |-> c],
                               LAMBDA c : built.values[c] \in model.accepting)
        accept == Disjunction([k \in DOMAIN accepting |->
                    ClassMatch(built.prefix, accepting[k] - 1, Bits(Len(built.values)), "i")])
    IN  Program(Append(built.nodes, BoolNode("accept", accept)), "accept", model.alphabet)

BuildProgram(model) ==
    WithOutput(FoldLeft(ExtendByLayer, Base(model, Dedupe(model.embedding)), model.layers), model)

=============================================================================
