--------------------------------- MODULE Pvwaa ---------------------------------
(***************************************************************************)
(* Pvwaa.fromFuture2ltl: the compilation of a strict-future 2LTL DAG into  *)
(* a pebble very weak alternating automaton (AlternatingAutomaton).        *)
(*                                                                         *)
(* A state is the formula it stands for (a reference to a definition, or   *)
(* an Until nested in one) with a polarity.  A positive transition formula *)
(* is kept as the set of its alternatives: a clause holds of a letter and  *)
(* needs all of its atoms.  The atoms the source sees when it walks the    *)
(* formula (for goto support, leave targets, relevant states) are kept     *)
(* beside the clauses, because simplification can lose some.               *)
(***************************************************************************)
EXTENDS TwoLtl, AlternatingAutomaton, SequencesExt

State(formula, dual) == [formula |-> formula, dual |-> dual]
\* Mutant: a reference loses its polarity.
NamedState_Positive(name, dual) == State(Ref(name, "i"), FALSE)
NamedState(name, dual) == State(Ref(name, "i"), dual)

\* PositiveFormula, and its constructors; the operands of a connective are a
\* sequence.
Positive(clauses, atoms) == [clauses |-> clauses, atoms |-> atoms]
Clause(letters, atoms) == [letters |-> letters, atoms |-> atoms]

PositiveConstant(value) == Positive(IF value THEN {Clause(Alphabet, {})} ELSE {}, {})
SymbolTest(atom, dual) ==
    Positive({Clause({a \in Alphabet : SymbolMatches(atom, a) # dual}, {})}, {})
TransitionAtom(state, action) ==
    LET atom == [state |-> state, action |-> action]
    IN  Positive({Clause(Alphabet, {atom})}, {atom})

AllAtoms(operands) == UNION {operands[k].atoms : k \in DOMAIN operands}
AllClauses(operands) == UNION {operands[k].clauses : k \in DOMAIN operands}
\* The ways to take a clause of every operand.
ClauseChoices(operands) ==
    {c \in [DOMAIN operands -> AllClauses(operands)] :
        \A k \in DOMAIN operands : c[k] \in operands[k].clauses}
Joint(operands, c) ==
    Clause({a \in Alphabet : \A k \in DOMAIN operands : a \in c[k].letters},
           UNION {c[k].atoms : k \in DOMAIN operands})
PositiveAnd(operands) == Positive({Joint(operands, c) : c \in ClauseChoices(operands)}, AllAtoms(operands))
PositiveOr(operands) == Positive(AllClauses(operands), AllAtoms(operands))

\* The connective of a Boolean combination, swapped under negation.
Combine(op, dual, operands) ==
    IF (op = "and") # dual THEN PositiveAnd(operands) ELSE PositiveOr(operands)

-----------------------------------------------------------------------------

\* X f = false U f, F f = true U f, G f = not F not f.
DesugarStep(desugar, f) ==
    CASE f.op = "not" -> Not(desugar[f.arg])
      [] f.op \in {"and", "or"} -> [f EXCEPT !.args = [k \in DOMAIN f.args |-> desugar[f.args[k]]]]
      [] f.op = "until" -> Binary("until", desugar[f.left], desugar[f.right])
      [] f.op = "next" -> Binary("until", Const(FALSE), desugar[f.arg])
      [] f.op = "eventually" -> Binary("until", Const(TRUE), desugar[f.arg])
      [] f.op = "always" -> Not(Binary("until", Const(TRUE), Not(desugar[f.arg])))
      [] OTHER -> f

DesugarFuture(names, f) ==
    LET desugar[g \in Formulas(names, MaxHeight)] == DesugarStep(desugar, g)
    IN  desugar[f]

OutputName == "__output__"

\* The definitions that get states: those of the DAG, desugared, and the
\* output unless it refers to one of them.
Desugared(dag) ==
    LET named == dag.output.op = "ref"
        names == IF named THEN dag.names ELSE Append(dag.names, OutputName)
        Source(n) == IF n = OutputName THEN dag.output ELSE dag.definition[n]
    IN  [logic |-> dag.logic,
         names |-> names,
         definition |-> [n \in Range(names) |-> DesugarFuture(DOMAIN dag.definition, Source(n))],
         output |-> IF named THEN dag.output ELSE Ref(OutputName, "i")]

\* What fromFuture2ltl does not refuse: until operands that are Boolean
\* combinations of references, and everything else at the anchor.
Operands(names, height) == Combinations(Constants \cup Refs(names, Places), height)
BodyLeaves(names, kinds, unary, binary, height) ==
    Constants \cup Atoms(kinds, {"i"}) \cup Refs(names, {"i"})
        \cup Temporal(unary, binary, Operands(names, height))
Bodies(names, kinds, unary, binary, height) ==
    Combinations(BodyLeaves(names, kinds, unary, binary, height), height)
Accepted(logic, names) ==
    IF logic = "past" THEN Bodies(names, {"letter", "bos"}, PastUnary, {"since"}, MaxHeight)
                      ELSE Bodies(names, {"letter", "eos"}, FutureUnary, {"until"}, MaxHeight)
Compiled(names) == Bodies(names, Kinds, {}, {"until"}, MaxHeight + 1)

\* A DAG that compiles: every definition is over the names before it, the
\* positional atoms are those of its logic, and no name is OutputName.
Compilable(dag) ==
    /\ dag = [logic |-> dag.logic, names |-> dag.names, definition |-> dag.definition, output |-> dag.output]
    /\ dag.logic \in {"past", "future"}
    /\ dag.names \in Seq(STRING) /\ OutputName \notin Range(dag.names)
    /\ \A j, k \in DOMAIN dag.names : dag.names[j] = dag.names[k] => j = k
    /\ DOMAIN dag.definition = Range(dag.names)
    /\ \A k \in DOMAIN dag.names :
            dag.definition[dag.names[k]] \in Accepted(dag.logic, {dag.names[j] : j \in 1..(k - 1)})
    /\ dag.output \in Accepted(dag.logic, Range(dag.names))

-----------------------------------------------------------------------------

\* What predicate and topAt do with the connectives: push the negations down to
\* the leaves, whose positive formulas are given.
PushStep(pushed, leaf, f, dual) ==
    CASE f.op = "not" -> pushed[<<f.arg, ~dual>>]
      [] f.op \in {"and", "or"} ->
            Combine(f.op, dual, [k \in DOMAIN f.args |-> pushed[<<f.args[k], dual>>]])
      [] OTHER -> leaf[<<f, dual>>]

Pushed(leaves, leaf, f, dual) ==
    LET pushed[x \in Combinations(leaves, MaxHeight + 1) \X BOOLEAN] == PushStep(pushed, leaf, x[1], x[2])
    IN  pushed[<<f, dual>>]

\* An Until operand: the anchor's references are read at the pebble and the
\* witness's one step to the right.
PredicateLeaf(f, dual) ==
    IF f.op = "const" THEN PositiveConstant(f.value # dual)
                      ELSE TransitionAtom(NamedState(f.name, dual), IF f.at = "i" THEN "goto" ELSE "carry")

Predicate(names, f, dual) ==
    LET leaves == Constants \cup Refs(names, Places)
        leaf == [x \in leaves \X BOOLEAN |-> PredicateLeaf(x[1], x[2])]
    IN  Pushed(leaves, leaf, f, dual)

\* An Until, looping back to its owner.
UntilAt(names, f, dual, owner) ==
    LET left == Predicate(names, f.left, dual)
        right == Predicate(names, f.right, dual)
        loop == TransitionAtom(owner, "leave")
    IN  IF dual THEN PositiveAnd(<<right, PositiveOr(<<left, loop>>)>>)
                ELSE PositiveOr(<<right, PositiveAnd(<<left, loop>>)>>)

\* topAt below the root: a nested Until loops to a state of its own.
TopLeaf(names, f, dual) ==
    CASE f.op = "const" -> PositiveConstant(f.value # dual)
      [] f.op = "atom" -> SymbolTest(f, dual)
      [] f.op = "ref" -> TransitionAtom(NamedState(f.name, dual), "goto")
      [] f.op = "until" -> UntilAt(names, f, dual, State(f, dual))

TopAt(names, f, dual) ==
    LET leaves == BodyLeaves(names, Kinds, {}, {"until"}, MaxHeight + 1)
        leaf == [x \in leaves \X BOOLEAN |-> TopLeaf(names, x[1], x[2])]
    IN  Pushed(leaves, leaf, f, dual)

\* top: an Until that is the whole body loops back to the body's own state.
Top(names, f, dual, current) ==
    IF f.op = "until" THEN UntilAt(names, f, dual, current) ELSE TopAt(names, f, dual)

\* finalOf: the value of a body on the EOS boundary.
FinalStep(dag, final, f, dual) ==
    CASE f.op = "const" -> f.value # dual
      [] f.op = "atom" -> (f.kind = "eos") # dual
      [] f.op = "ref" -> final[<<dag.definition[f.name], dual>>]
      [] f.op = "not" -> final[<<f.arg, ~dual>>]
      [] f.op \in {"and", "or"} ->
            IF (f.op = "and") # dual THEN \A k \in DOMAIN f.args : final[<<f.args[k], dual>>]
                                     ELSE \E k \in DOMAIN f.args : final[<<f.args[k], dual>>]
      [] f.op = "until" -> dual

FinalOf(dag, f, dual) ==
    LET final[x \in Compiled(DOMAIN dag.definition) \X BOOLEAN] == FinalStep(dag, final, x[1], x[2])
    IN  final[<<f, dual>>]

-----------------------------------------------------------------------------

Body(dag, q) == IF q.formula.op = "ref" THEN dag.definition[q.formula.name] ELSE q.formula
TransitionOf(dag, q) == Top(DOMAIN dag.definition, Body(dag, q), q.dual, q)

\* The Until operators that got a state of their own (nestedNames).
NestedIn(dag) ==
    LET named == {NamedState(n, dual) : n \in DOMAIN dag.definition, dual \in BOOLEAN}
    IN  {f \in {x.state.formula : x \in UNION {TransitionOf(dag, q).atoms : q \in named}} : f.op = "until"}

\* Rank order: the definitions as the DAG lists them, then the nested operators.
RankOrder(dag) ==
    LET bodies == [k \in DOMAIN dag.names |-> Ref(dag.names[k], "i")] \o SetToSeq(NestedIn(dag))
    IN  [k \in 1..(2 * Len(bodies)) |-> State(bodies[(k + 1) \div 2], k % 2 = 0)]

AutomatonOf(dag) ==
    LET order == RankOrder(dag)
    IN  [order |-> order,
         transition |-> [q \in Range(order) |-> TransitionOf(dag, q)],
         initial |-> NamedState(dag.output.name, FALSE),
         final |-> {q \in Range(order) : FinalOf(dag, Body(dag, q), q.dual)}]

FromFuture2ltl(dag) == AutomatonOf(Desugared(dag))

================================================================================
