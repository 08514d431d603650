--------------------------- MODULE SummaryAutomaton ---------------------------
(***************************************************************************)
(* The reverse Boolean automaton of BooleanAutomaton.scala: it reads a     *)
(* word left to right and keeps, for every state q of the alternating      *)
(* automaton, a Boolean function of the values of the goto states.         *)
(*                                                                         *)
(* A function (the source's ROBDD node) is the set of the goto valuations  *)
(* that satisfy it, a valuation being the set of goto states that are      *)
(* true; two nodes of one BDD manager are equal exactly when these sets    *)
(* are.  The alternating automaton pv never changes; module Pvwaa compiles *)
(* such automata.                                                          *)
(***************************************************************************)
EXTENDS AlternatingAutomaton

CONSTANT MaxWord    \* bound on the words read

ASSUME MaxWordAssumption == MaxWord \in Nat

VARIABLES
    pv,        \* automaton.source
    word,      \* the symbols consumed so far
    summary,   \* the current BooleanSummary
    history    \* the summaries before each symbol and now, for the properties

summaryVars == <<pv, word, summary, history>>

Targets(a, q, action) == {x.state : x \in {y \in a.transition[q].atoms : y.action = action}}

\* gotoSupportOf: every state some goto leads to.
GotoSupport(a) == UNION {Targets(a, q, "goto") : q \in States(a)}

\* The closure of a set of states under a successor map, by as many rounds as
\* there are states.
Closure(a, next, seeds) ==
    LET round[k \in 0..Len(a.order)] ==
            IF k = 0 THEN seeds
            ELSE LET before == round[k - 1] IN before \cup UNION {next[q] : q \in before}
    IN  round[Len(a.order)]

-----------------------------------------------------------------------------

\* Mutant: highest rank first.
Diagonal_HighestFirst(a, s) ==
    LET n == Len(a.order)
        solved[k \in 0..n] ==
            IF k = 0 THEN {}
            ELSE LET q == a.order[n + 1 - k]
                     lower == solved[k - 1]
                 IN  IF lower \cap GotoSupport(a) \in s[q] THEN lower \cup {q} ELSE lower
    IN  solved[n]

\* diagonal: the states that hold, solved in rank order; a goto state not yet
\* solved counts as false.
Diagonal(a, s) ==
    LET solved[k \in 0..Len(a.order)] ==
            IF k = 0 THEN {}
            ELSE LET q == a.order[k]
                     lower == solved[k - 1]
                 IN  IF lower \cap GotoSupport(a) \in s[q] THEN lower \cup {q} ELSE lower
    IN  solved[Len(a.order)]

AcceptsNow(a, s) == a.initial \in Diagonal(a, s)

\* Mutant: carry is treated like goto.
AtomHolds_CarryAsGoto(atom, prior, s, valuation) ==
    IF atom.action = "leave" THEN valuation \in s[atom.state] ELSE atom.state \in valuation

\* The value of one atom in the function being built: carry reads the diagonal
\* of the summary left behind, leave reuses that summary's function, goto is
\* the variable itself.
AtomHolds(atom, prior, s, valuation) ==
    CASE atom.action = "carry" -> atom.state \in prior
      [] atom.action = "leave" -> valuation \in s[atom.state]
      [] atom.action = "goto" -> atom.state \in valuation

\* transition: the summary after one more symbol.
Transition(a, s, symbol) ==
    LET prior == Diagonal(a, s)
    IN  [q \in States(a) |->
            {v \in SUBSET GotoSupport(a) :
                \E c \in a.transition[q].clauses :
                    symbol \in c.letters /\ \A atom \in c.atoms : AtomHolds(atom, prior, s, v)}]

\* Mutant: no state holds of the empty word.
InitialSummary_Empty(a) == [q \in States(a) |-> {}]

\* fromForwardPvwaa: constants, read off the final states.
InitialSummary(a) ==
    [q \in States(a) |-> IF q \in a.final THEN SUBSET GotoSupport(a) ELSE {}]

\* Nothing has been read.
Unread ==
    /\ word = << >>
    /\ summary = InitialSummary(pv)
    /\ history = <<InitialSummary(pv)>>

Read(symbol) ==
    /\ Len(word) < MaxWord
    /\ word' = Append(word, symbol)
    /\ summary' = Transition(pv, summary, symbol)
    /\ history' = Append(history, summary')
    /\ UNCHANGED pv

SummaryNext == \E symbol \in Alphabet : Read(symbol)

-----------------------------------------------------------------------------
(***************************************************************************)
(* The static analyses that the backends use to cut the summary down.      *)
(***************************************************************************)

\* supportOf: a state's own goto targets and those of every state that leave
\* leads to from it, directly or not.
Support(a, q) ==
    LET leave == [r \in States(a) |-> Targets(a, r, "leave")]
    IN  UNION {Targets(a, r, "goto") : r \in Closure(a, leave, {q})}

\* Mutant: carry is not followed.
Relevant_NoCarry(a) ==
    LET successors == [q \in States(a) |-> Targets(a, q, "goto") \cup Targets(a, q, "leave")]
    IN  Closure(a, successors, {a.initial})

\* relevantStates: what the initial state can ever depend on.
Relevant(a) ==
    LET successors == [q \in States(a) |-> {x.state : x \in a.transition[q].atoms}]
    IN  Closure(a, successors, {a.initial})

\* symbolDeterminedStates: the greatest set of states whose formulas contain
\* no carry and no leave, and goto only into the set.
SymbolDetermined(a) ==
    LET Stays(q, D) == \A x \in a.transition[q].atoms : x.action = "goto" /\ x.state \in D
        round[k \in 0..Len(a.order)] ==
            IF k = 0 THEN States(a)
            ELSE LET before == round[k - 1] IN {q \in before : Stays(q, before)}
    IN  round[Len(a.order)]

\* symbolDeterminedValue for every state at once: unfold the goto atoms, in
\* rank order, under one symbol.
SymbolDeterminedValues(a, symbol) ==
    LET held[k \in 0..Len(a.order)] ==
            IF k = 0 THEN {}
            ELSE LET q == a.order[k]
                     lower == held[k - 1]
                     here == /\ q \in SymbolDetermined(a)
                             /\ \E c \in a.transition[q].clauses :
                                    symbol \in c.letters /\ \A x \in c.atoms : x.state \in lower
                 IN  IF here THEN lower \cup {q} ELSE lower
    IN  held[Len(a.order)]

\* Mutant: the vector of the initial summary is forgotten.
PinnedVectors_LettersOnly(a) == {SymbolDeterminedValues(a, symbol) : symbol \in Alphabet}

\* realizableAbstractions: on the symbol-determined part of the support only
\* the vectors of the letters and of the initial summary; free elsewhere.
PinnedVectors(a) ==
    {SymbolDeterminedValues(a, symbol) : symbol \in Alphabet}
        \cup {a.final \cap SymbolDetermined(a)}

Realizable(a, q) ==
    LET pinned == Support(a, q) \cap SymbolDetermined(a)
        free == Support(a, q) \ SymbolDetermined(a)
    IN  {(p \cap pinned) \cup f : p \in PinnedVectors(a), f \in SUBSET free}

-----------------------------------------------------------------------------

\* What the compilation gives: every state once, in rank order, and clauses
\* over the atoms of the formula.
WellFormed(a) ==
    /\ DOMAIN a.order = 1..Len(a.order) /\ Len(a.order) \in Nat
    /\ \A j, k \in DOMAIN a.order : a.order[j] = a.order[k] => j = k
    /\ a.initial \in States(a)
    /\ a.final \subseteq States(a)
    /\ \A q \in States(a) :
        /\ \A x \in a.transition[q].atoms :
            x.state \in States(a) /\ x.action \in {"goto", "leave", "carry"}
        /\ \A c \in a.transition[q].clauses : c.atoms \subseteq a.transition[q].atoms

\* The order is a very weak one: the goto states that a state's value can
\* depend on come before it.
VeryWeak(a) ==
    \A k \in DOMAIN a.order : \A g \in Support(a, a.order[k]) :
        \E j \in 1..(k - 1) : a.order[j] = g

-----------------------------------------------------------------------------

\* The behaviours over one automaton of this kind.
SummaryInit == WellFormed(pv) /\ VeryWeak(pv) /\ Unread

SummarySpec == SummaryInit /\ [][SummaryNext]_summaryVars

-----------------------------------------------------------------------------

\* The comment in diagonal, BooleanAutomaton.scala:250-252: "By very weakness,
\* this evaluation can inspect only strictly lower-ranked goto states", so the
\* result solves V(q) = S(q, V|G) for every state.
DiagonalIsFixpoint ==
    LET V == Diagonal(pv, summary)
    IN  \A q \in States(pv) : q \in V <=> V \cap GotoSupport(pv) \in summary[q]

\* The cells Aiger gives a register cover every consultation of a summary: the
\* restriction of each diagonal to a state's support is realizable.
DiagonalsAreRealizable ==
    \A q \in States(pv) : Diagonal(pv, summary) \cap Support(pv, q) \in Realizable(pv, q)

\* conflictWitness's projection is a bisimulation: whatever the irrelevant
\* states held instead, acceptance and the relevant part of every successor
\* would be the same.
IrrelevantStatesDoNotMatter ==
    LET relevant == Relevant(pv)
        After(s, symbol) == LET t == Transition(pv, s, symbol) IN [q \in relevant |-> t[q]]
        next == [symbol \in Alphabet |-> After(summary, symbol)]
        Functions == {{}, SUBSET GotoSupport(pv)}
                        \cup {{v \in SUBSET GotoSupport(pv) : g \in v} : g \in GotoSupport(pv)}
    IN  relevant # States(pv) =>
            \A other \in Functions :
                LET altered == [q \in States(pv) |-> IF q \in relevant THEN summary[q] ELSE other]
                IN  /\ AcceptsNow(pv, altered) <=> AcceptsNow(pv, summary)
                    /\ \A symbol \in Alphabet : After(altered, symbol) = next[symbol]

\* The word as the alternating automaton reads it.
Mirrored == [k \in 1..Len(word) |-> word[Len(word) + 1 - k]]

\* The invariant of the determinisation: the function a summary held after n
\* symbols, applied to today's diagonal, is the value of the run whose head
\* has n symbols of the mirrored word left while its pebble sits at today's
\* end.  Carry, leave and goto all lean on it.
SummaryIsTheRun ==
    LET V == Diagonal(pv, summary) \cap GotoSupport(pv)
    IN  \A n \in 0..Len(word) : \A q \in States(pv) :
            V \in history[n + 1][q] <=> PvwaaRun(pv, Mirrored, q, 0, Len(word) - n)

=============================================================================
