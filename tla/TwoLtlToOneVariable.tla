-------------------------- MODULE TwoLtlToOneVariable --------------------------
(***************************************************************************)
(* The elimination of the second variable that --one-variable asks for     *)
(* (TwoLtlToOneVariable.scala): an operator whose operands consult the     *)
(* anchor becomes a disjunction over the truth values of the definitions   *)
(* they consult, each value pinned outside the operator; then what is      *)
(* consulted at the anchor is inlined.                                     *)
(*                                                                         *)
(* Only definitions are split, and only references count as consulting the *)
(* anchor: an operator of the output formula keeps its anchor, inlined     *)
(* into the operand, and so does an atom at i.                             *)
(***************************************************************************)
EXTENDS TwoLtl
LOCAL INSTANCE SequencesExt
LOCAL INSTANCE FiniteSetsExt

CONSTANT NodeCap    \* bound: nodes of one case split, and of the result

ASSUME NodeCapAssumption == NodeCap \in Nat \ {0}

\* anchorReferences, of an operand.
AnchorReferences(names, operand) ==
    LET anchored[g \in Predicates(names)] ==
            IF IsReference(g, "i") THEN {g.name}
            ELSE UNION {anchored[h] : h \in ToSet(Arguments(g))}
    IN  anchored[operand]

\* substitute.
Substituted(names, operand, valuation) ==
    LET substituted[g \in Predicates(names)] ==
            IF IsReference(g, "i") /\ g.name \in DOMAIN valuation THEN Const(valuation[g.name])
            ELSE MapArguments(g, LAMBDA h : substituted[h])
    IN  substituted[operand]

\* size: the nodes of a formula, its references counted as leaves.
NodesOf(names, f) ==
    LET nodes[g \in DagFormulas(names)] == FoldLeft(LAMBDA n, h : n + nodes[h], 1, Arguments(g))
    IN  nodes[f]

\* What the operands of an operator consult at the anchor.
Consulted(names, f) == UNION {AnchorReferences(names, h) : h \in ToSet(Arguments(f))}

\* The size of a case split, estimated before it is made.
SplitEstimate(names, f) ==
    LET n == Cardinality(Consulted(names, f)) IN 2^n * (n + 1 + NodesOf(names, f))

Guard(n, value) == IF value THEN Ref(n, "i") ELSE Not(Ref(n, "i"))

\* Mutant: only what is true is pinned.
Guards_OnlyTrue(consulted, valuation) ==
    FoldSet(LAMBDA n, guards : Append(guards, Guard(n, TRUE)), <<>>, {n \in consulted : valuation[n]})

Guards(consulted, valuation) ==
    FoldSet(LAMBDA n, guards : Append(guards, Guard(n, valuation[n])), <<>>, consulted)

\* split.  The order of the guards and of the cases, that of a set and of the
\* bits of a counter, is left open.
Split(names, f) ==
    LET consulted == Consulted(names, f)
        Case(valuation) ==
            And(Append(Guards(consulted, valuation),
                       MapArguments(f, LAMBDA h : Substituted(names, h, valuation))))
    IN  IF consulted = {} THEN f
        ELSE Or(FoldSet(LAMBDA valuation, cases : Append(cases, Case(valuation)),
                        <<>>, [consulted -> BOOLEAN]))

\* translateBody.
TranslateBody(names, body) ==
    LET translated[g \in DagFormulas(names)] ==
            IF IsTemporal(g) THEN Split(names, g) ELSE MapArguments(g, LAMBDA h : translated[h])
    IN  translated[body]

\* The operators translateBody comes to.
Operators(names, body) ==
    LET found[g \in DagFormulas(names)] ==
            IF IsTemporal(g) THEN {g} ELSE UNION {found[h] : h \in ToSet(Arguments(g))}
    IN  found[body]

\* TranslationTooLarge, thrown by split.
CaseSplitTooLarge(dag) ==
    LET names == DOMAIN dag.definition
    IN  \E n \in names : \E f \in Operators(names, dag.definition[n]) :
            Consulted(names, f) # {} /\ SplitEstimate(names, f) > NodeCap

\* inlineIn, of a DAG whose definitions have been translated: what is meant
\* at the anchor is inlined; what is meant at the witness is not.
Inlined(dag, f) ==
    LET inlined[g \in DagFormulas(DOMAIN dag.definition)] ==
            IF IsReference(g, "i") THEN inlined[dag.definition[g.name]]
            ELSE MapArguments(g, LAMBDA h : inlined[h])
    IN  inlined[f]

\* witnessReferences: the definitions reached through references at j.
WitnessReferences(dag, f) ==
    LET reached[g \in DagFormulas(DOMAIN dag.definition)] ==
            IF IsReference(g, "j") THEN {g.name} \cup reached[Inlined(dag, dag.definition[g.name])]
            ELSE UNION {reached[h] : h \in ToSet(Arguments(g))}
    IN  reached[f]

\* translate: those definitions, the output, everything else inlined.
OneVariableForm(dag) ==
    LET names == DOMAIN dag.definition
        translated == [dag EXCEPT !.definition = [n \in names |-> TranslateBody(names, @[n])]]
        output == Inlined(translated, dag.output)
    IN  [dag EXCEPT !.output = output,
                    !.definition = [n \in WitnessReferences(translated, output) |->
                                        Inlined(translated, translated.definition[n])]]

\* TranslationTooLarge, thrown by translate.
FormTooLarge(dag) == NodesOf(DOMAIN dag.definition, OneVariableForm(dag).output) > NodeCap

=============================================================================
