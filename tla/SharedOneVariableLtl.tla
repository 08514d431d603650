------------------------- MODULE SharedOneVariableLtl -------------------------
(***************************************************************************)
(* The other elimination of the second variable (SharedOneVariableLtl),    *)
(* which inlines nothing: an operator becomes a disjunction over the       *)
(* values of what its operands consult at the anchor, its coordinates, and *)
(* the operator specialised to each of these cases is a definition of its  *)
(* own.  References and atoms are coordinates alike.  The realizable cover *)
(* takes from the static ones, those a letter decides, only the patterns   *)
(* that BOS and the letters give them.                                     *)
(*                                                                         *)
(* DirectSummary finds coordinates and covers in the same way.  The order  *)
(* of cases and operands is left open.                                     *)
(***************************************************************************)
EXTENDS TwoLtl
LOCAL INSTANCE TLC
LOCAL INSTANCE SequencesExt
LOCAL INSTANCE FiniteSetsExt

CONSTANT CellBudget    \* cases times letters: 500000 in the source

ASSUME CellBudgetAssumption == CellBudget \in Nat \ {0}

\* A set as the operands of a connective, in some order.
Listed(set) == FoldSet(LAMBDA x, list : Append(list, x), <<>>, set)

Names(dag) == DOMAIN dag.definition

\* The definitions that visit comes to.
Reached(dag) ==
    LET reached[g \in DagFormulas(Names(dag))] ==
            IF g.op = "ref" THEN {g.name} \cup reached[dag.definition[g.name]]
            ELSE UNION {reached[h] : h \in ToSet(Arguments(g))}
    IN  reached[dag.output]

Visited(dag) == {dag.output} \cup {dag.definition[n] : n \in Reached(dag)}

\* The subformulas of a formula that satisfy Test, none within another.
Outermost(names, f, Test(_)) ==
    LET found[g \in DagFormulas(names)] ==
            IF Test(g) THEN {g} ELSE UNION {found[h] : h \in ToSet(Arguments(g))}
    IN  found[f]

\* What the circuit has a row for, and a case split is made of.
Rows(dag) == UNION {Outermost(Names(dag), f, IsTemporal) : f \in Visited(dag)}

\* The declared letters and those a symbol atom names; a bit atom matches
\* declared letters only.
Letters(dag) ==
    LET IsAtom(g) == g.op = "atom"
        named == UNION {a.letters : a \in UNION {Outermost(Names(dag), f, IsAtom) : f \in Visited(dag)}}
    IN  dag.alphabet \o Listed(named \ ToSet(dag.alphabet))

\* What visit refuses: future operators, EOS, and a witness outside an operand.
Misplaced(names, f) ==
    LET misplaced[x \in DagFormulas(names) \X BOOLEAN] ==
            LET g == x[1]
                inside == x[2] \/ IsTemporal(g)
            IN  \/ g.op \in FutureUnary \cup {"until"}
                \/ g.op = "atom" /\ g.kind = "eos"
                \/ g.op \in {"atom", "ref"} /\ g.at = "j" /\ ~inside
                \/ \E h \in ToSet(Arguments(g)) : misplaced[<<h, inside>>]
    IN  misplaced[<<f, FALSE>>]

Refused(dag) ==
    \/ dag.logic # "past"
    \/ \E f \in Visited(dag) : Misplaced(Names(dag), f)
    \/ Letters(dag) = <<>>

-----------------------------------------------------------------------------
\* Coordinates and their cover.

AtAnchor(g) == g.op \in {"ref", "atom"} /\ g.at = "i"

\* keys, of all operands.
Coordinates(names, f) == UNION {Outermost(names, h, AtAnchor) : h \in ToSet(Arguments(f))}

IsStatic(dag, f) ==
    LET static[g \in DagFormulas(Names(dag))] ==
            /\ ~IsTemporal(g)
            /\ g.op = "ref" => static[dag.definition[g.name]]
            /\ \A h \in ToSet(Arguments(g)) : static[h]
    IN  static[f]

Boundary == ""    \* instead of a letter: position 0, before all letters

\* atSymbol and atBoundaryOrStatic: what a letter or the boundary makes of f.
\* No position is before the boundary.
AtSymbol(dag, f, letter) ==
    LET holds[g \in DagFormulas(Names(dag))] ==
            CASE g.op = "const" -> g.value
              [] g.op = "atom" -> IF g.kind = "bos" THEN letter = Boundary ELSE SymbolMatches(g, letter)
              [] g.op = "ref" -> holds[dag.definition[g.name]]
              [] g.op = "not" -> ~holds[g.arg]
              [] g.op = "and" -> \A k \in DOMAIN g.args : holds[g.args[k]]
              [] g.op = "or" -> \E k \in DOMAIN g.args : holds[g.args[k]]
              [] OTHER -> g.op = "historically"
    IN  holds[f]

Patterns(dag, static) ==
    {[k \in static |-> AtSymbol(dag, k, s)] : s \in ToSet(Letters(dag)) \cup {Boundary}}

\* The cases of an operator: with reduce only the static patterns that occur.
Assignments(dag, reduce, f) ==
    LET keys == Coordinates(Names(dag), f)
        static == {k \in keys : reduce /\ IsStatic(dag, k)}
    IN  {[k \in keys |-> IF k \in static THEN p[k] ELSE free[k]] :
            p \in Patterns(dag, static), free \in [keys \ static -> BOOLEAN]}

OverBudget(dag, reduce) ==
    Len(Letters(dag)) *
        MapThenSumSet(LAMBDA f : Cardinality(Assignments(dag, reduce, f)), Rows(dag)) > CellBudget

-----------------------------------------------------------------------------
\* The translation.

\* neg.
Negated(f) ==
    CASE f.op = "const" -> Const(~f.value)
      [] f.op = "not" -> f.arg
      [] OTHER -> Not(f)

\* combine.
Combined(op, fs) ==
    LET neutral == Const(op = "and")
        absorbing == Const(op # "and")
        kept == fs \ {neutral}
    IN  IF absorbing \in fs THEN absorbing
        ELSE IF kept = {} THEN neutral
        ELSE IF Cardinality(kept) = 1 THEN CHOOSE f \in kept : TRUE
        ELSE [op |-> op, args |-> Listed(kept)]

\* The connectives of a formula, and what becomes of its leaves and operators.
Rebuilt(names, f, Becomes(_)) ==
    LET rebuilt[g \in DagFormulas(names)] ==
            CASE g.op = "not" -> Negated(rebuilt[g.arg])
              [] g.op \in {"and", "or"} -> Combined(g.op, {rebuilt[h] : h \in ToSet(g.args)})
              [] OTHER -> Becomes(g)
    IN  rebuilt[f]

\* Mutant: an atom keeps its anchor.
Specialised_References(names, f, assignment) ==
    MapArguments(f, LAMBDA h : Rebuilt(names, h, LAMBDA g :
        IF IsReference(g, "i") THEN Const(assignment[g]) ELSE g))

\* substitute, in every operand: the operator in one of its cases.
Specialised(names, f, assignment) ==
    MapArguments(f, LAMBDA h : Rebuilt(names, h, LAMBDA g :
        IF AtAnchor(g) THEN Const(assignment[g]) ELSE g))

\* name: one definition for each specialised operator, of a name the DAG does
\* not have.
CaseName(k) == "__ltl_case_" \o ToString(k)
CaseNames(names, cases) ==
    LET free == {k \in 0..(Cardinality(cases) + Cardinality(names)) : CaseName(k) \notin names}
        order == Listed(cases)
        Before(k) == Cardinality({m \in free : m < k})
    IN  [c \in cases |->
            CaseName(CHOOSE k \in free : Before(k) < Len(order) /\ order[Before(k) + 1] = c)]

\* translate.
SharedForm(dag, reduce) ==
    LET names == Names(dag)
        caseName == CaseNames(names, UNION {{Specialised(names, f, a) : a \in Assignments(dag, reduce, f)} :
                                                f \in Rows(dag)})
        InCase(f, a) ==
            Combined("and", {IF a[k] THEN k ELSE Not(k) : k \in DOMAIN a}
                                \cup {Ref(caseName[Specialised(names, f, a)], "i")})
        Translated(f) ==
            Rebuilt(names, f, LAMBDA g :
                IF IsTemporal(g) THEN Combined("or", {InCase(g, a) : a \in Assignments(dag, reduce, g)})
                ELSE g)
        cases == DOMAIN caseName
        Body(n) == IF n \in names THEN Translated(dag.definition[n])
                   ELSE CHOOSE c \in cases : caseName[c] = n
    IN  [dag EXCEPT !.alphabet = Letters(dag),
                    !.output = Translated(@),
                    !.definition = [n \in Reached(dag) \cup {caseName[c] : c \in cases} |-> Body(n)]]

=============================================================================
