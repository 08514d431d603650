--------------------------------- MODULE PastDfa ---------------------------------
(***************************************************************************)
(* The generator's automata (ltl2_generator/dfa.py): past formulas to      *)
(* DFAs, canonical minimisation, transition monoids, aperiodicity; and the *)
(* DFA of a language that is only given as a predicate                     *)
(* (scripts/uhat_dfa.py).                                                  *)
(*                                                                         *)
(* States are numbered from 1 and 1 is initial.  transitions[q][k] is the  *)
(* successor of state q under the k-th letter.                             *)
(***************************************************************************)
EXTENDS PastFormulas, Tasks, FiniteSets

DFA(alphabet, accepting, transitions, complete) ==
    [alphabet |-> alphabet, accepting |-> accepting,
     transitions |-> transitions, complete |-> complete]

StateCount(dfa) == Len(dfa.transitions)
LetterIndex(alphabet, symbol) == SelectInSeq(alphabet, LAMBDA letter : letter = symbol)
Step(dfa, state, symbol) == dfa.transitions[state][LetterIndex(dfa.alphabet, symbol)]
Accepted(dfa, word) ==
    FoldLeft(LAMBDA state, symbol : Step(dfa, state, symbol), 1, word) \in dfa.accepting

-----------------------------------------------------------------------------
\* compile_dfa.  A state is whether a letter was read, and of each subformula
\* whether it holds at the last position.

\* The subformulas in postorder, each with the numbers of its children.
Indexed(formula) ==
    LET nodes == Subformulas(formula)
        Number(node) == SelectInSeq(nodes, LAMBDA other : other = node)
        Entry(node) ==
            [atom |-> node, op |-> node.op,
             of |-> FoldLeft(LAMBDA all, child : Append(all, Number(child)), <<>>, Children(node))]
    IN  FoldLeft(LAMBDA all, node : Append(all, Entry(node)), <<>>, nodes)

\* Mutant: P counts the present position as its own past.
HoldsNext_PastIsReflexive(entry, now, prev, symbol, first) ==
    LET k == Len(now) + 1
        Now(c) == now[entry.of[c]]
        Before(c) == prev[entry.of[c]]
    IN  CASE entry.op \in Atoms -> AtomHolds(entry.atom, <<symbol>>, 1) /\ (entry.op = "bos" => first)
          [] entry.op = "not" -> ~Now(1)
          [] entry.op = "and" -> Now(1) /\ Now(2)
          [] entry.op = "Y" -> ~first /\ Before(1)
          [] entry.op = "P" -> Now(1) \/ (~first /\ prev[k])
          [] entry.op = "H" -> first \/ (Before(1) /\ prev[k])
          [] entry.op = "S" -> ~first /\ (Before(2) \/ (Before(1) /\ prev[k]))

\* The value of the next subformula: now has those of its children, prev all
\* values at the position before.
HoldsNext(entry, now, prev, symbol, first) ==
    LET k == Len(now) + 1
        Now(c) == now[entry.of[c]]
        Before(c) == prev[entry.of[c]]
    IN  CASE entry.op \in Atoms -> AtomHolds(entry.atom, <<symbol>>, 1) /\ (entry.op = "bos" => first)
          [] entry.op = "not" -> ~Now(1)
          [] entry.op = "and" -> Now(1) /\ Now(2)
          [] entry.op = "Y" -> ~first /\ Before(1)
          [] entry.op = "P" -> ~first /\ (Before(1) \/ prev[k])
          [] entry.op = "H" -> first \/ (Before(1) /\ prev[k])
          [] entry.op = "S" -> ~first /\ (Before(2) \/ (Before(1) /\ prev[k]))

RECURSIVE ValuesFrom(_, _, _, _)
ValuesFrom(now, nodes, state, symbol) ==
    IF Len(now) = Len(nodes) THEN now
    ELSE LET entry == nodes[Len(now) + 1]
         IN  ValuesFrom(Append(now, HoldsNext(entry, now, state.values, symbol, ~state.read)),
                        nodes, state, symbol)

NextValues(nodes, state, symbol) ==
    [read |-> TRUE, values |-> ValuesFrom(<<>>, nodes, state, symbol)]

RECURSIVE Explore(_, _, _, _, _)
\* States are dequeued in the order of their numbers; rows are those of the
\* dequeued ones.  A new state above the cap leaves the machine incomplete.
Explore(nodes, alphabet, cap, states, rows) ==
    LET Accepting(count) == {q \in 1..count : states[q].read /\ states[q].values[Len(nodes)]}
        targets == FoldLeft(LAMBDA all, s : Append(all, NextValues(nodes, states[Len(rows) + 1], s)),
                            <<>>, alphabet)
        found == FoldLeft(LAMBDA all, t : IF t \in ToSet(all) THEN all ELSE Append(all, t), states, targets)
        row == FoldLeft(LAMBDA all, t : Append(all, SelectInSeq(found, LAMBDA s : s = t)), <<>>, targets)
    IN  IF Len(rows) = Len(states) THEN DFA(alphabet, Accepting(Len(rows)), rows, TRUE)
        ELSE IF Len(found) > cap THEN DFA(alphabet, Accepting(Len(rows)), rows, FALSE)
        ELSE Explore(nodes, alphabet, cap, found, Append(rows, row))

CompileDfa(formula, alphabet, cap) ==
    Explore(Indexed(formula), alphabet, cap, <<[read |-> FALSE, values |-> <<>>]>>, <<>>)

-----------------------------------------------------------------------------
\* minimize.

BlockOf(blocks, state) == CHOOSE block \in blocks : state \in block

Successors(dfa, blocks, state) ==
    [k \in DOMAIN dfa.alphabet |-> BlockOf(blocks, dfa.transitions[state][k])]

RECURSIVE Refined(_, _)
Refined(dfa, blocks) ==
    LET pieces == {{q \in BlockOf(blocks, p) : Successors(dfa, blocks, q) = Successors(dfa, blocks, p)} :
                    p \in 1..StateCount(dfa)}
    IN  IF pieces = blocks THEN blocks ELSE Refined(dfa, pieces)

RECURSIVE Discovered(_, _, _, _)
\* The blocks in the order a breadth-first walk meets them.
Discovered(dfa, blocks, order, walked) ==
    IF walked = Len(order) THEN order
    ELSE LET exemplar == CHOOSE q \in order[walked + 1] : TRUE
             targets == Successors(dfa, blocks, exemplar)
             met == FoldLeft(LAMBDA all, b : IF b \in ToSet(all) THEN all ELSE Append(all, b), order, targets)
         IN  Discovered(dfa, blocks, met, walked + 1)

Canonical(dfa, blocks) == Discovered(dfa, blocks, <<BlockOf(blocks, 1)>>, 0)

MinimizeDfa(dfa) ==
    LET all == 1..StateCount(dfa)
        blocks == Refined(dfa, {dfa.accepting, all \ dfa.accepting} \ {{}})
        order == Canonical(dfa, blocks)
        Number(block) == SelectInSeq(order, LAMBDA b : b = block)
        Row(block) ==
            LET targets == Successors(dfa, blocks, CHOOSE q \in block : TRUE)
            IN  [k \in DOMAIN dfa.alphabet |-> Number(targets[k])]
    IN  IF ~dfa.complete THEN dfa
        ELSE DFA(dfa.alphabet,
                 {b \in DOMAIN order : order[b] \cap dfa.accepting # {}},
                 [b \in DOMAIN order |-> Row(order[b])], TRUE)

-----------------------------------------------------------------------------
\* transition_monoid and is_aperiodic.

Then(left, right) == [q \in DOMAIN left |-> right[left[q]]]

Generators(dfa) ==
    {[q \in 1..StateCount(dfa) |-> dfa.transitions[q][k]] : k \in DOMAIN dfa.alphabet}

RECURSIVE Closed(_, _, _, _)
Closed(generators, monoid, frontier, cap) ==
    LET new == {Then(left, right) : left \in frontier, right \in generators} \ monoid
    IN  IF new = {} \/ Cardinality(monoid) > cap THEN monoid
        ELSE Closed(generators, monoid \cup new, new, cap)

\* More than cap elements mean that the closure was given up with OverflowError.
TransitionMonoid(dfa, cap) ==
    LET identity == [q \in 1..StateCount(dfa) |-> q]
    IN  IF ~dfa.complete THEN {} ELSE Closed(Generators(dfa), {identity}, {identity}, cap)

RECURSIVE Power(_, _)
Power(element, k) == IF k = 1 THEN element ELSE Then(Power(element, k - 1), element)

\* Mutant: the powers are compared once only.
IsAperiodic_OnePower(dfa, monoid) ==
    \A element \in monoid : Power(element, 1) = Power(element, 2)

\* Some power of every element repeats at once.
IsAperiodic(dfa, monoid) ==
    \A element \in monoid :
        \E k \in 1..StateCount(dfa) : Power(element, k) = Power(element, k + 1)

\* dfa_for_recognizer.
DfaForRecognizer(alphabet, accepting, transitions) ==
    MinimizeDfa(DFA(alphabet, accepting, transitions, TRUE))

-----------------------------------------------------------------------------
\* dfa_from_predicate: a state is the answers on the suffixes up to a length.
\* A language is its alphabet and a formula, a task, or a set of words.

Recognizes(language, word) ==
    CASE language.by = "formula" -> Accepts(language.of, word)
      [] language.by = "task" -> Label(language.of, word)
      [] language.by = "words" -> word \in language.of

Residual(language, prefix, upto) ==
    {s \in EnumerateWords(language.alphabet, upto) : Recognizes(language, prefix \o s)}

RECURSIVE Probe(_, _, _, _, _)
Probe(language, upto, cap, prefixes, rows) ==
    LET Key(prefix) == Residual(language, prefix, upto)
        Keys(all) == [q \in DOMAIN all |-> Key(all[q])]
        prefix == prefixes[Len(rows) + 1]
        nexts == [k \in DOMAIN language.alphabet |-> Append(prefix, language.alphabet[k])]
        found == FoldLeft(LAMBDA all, p : IF Key(p) \in ToSet(Keys(all)) THEN all ELSE Append(all, p),
                          prefixes, nexts)
        keys == Keys(found)
        row == [k \in DOMAIN nexts |-> SelectInSeq(keys, LAMBDA key : key = Key(nexts[k]))]
        accepting == {q \in DOMAIN prefixes : Recognizes(language, prefixes[q])}
    IN  IF Len(rows) = Len(prefixes)
        THEN DFA(language.alphabet, accepting, rows, TRUE)
        ELSE IF Len(found) > cap THEN DFA(language.alphabet, {}, <<>>, FALSE)
        ELSE Probe(language, upto, cap, found, Append(rows, row))

DfaFromPredicate(language, upto, cap) == MinimizeDfa(Probe(language, upto, cap, <<<<>>>>, <<>>))

=============================================================================
