--------------------------- MODULE ConflictSearch ---------------------------
(***************************************************************************)
(* BooleanAutomaton.conflictWitness, the translator's                      *)
(* --run-native-conflict: one depth-first walk over the summaries that     *)
(* stops at the first accepting one.  It remembers summaries not by        *)
(* identity but by their projection onto the relevant states: key[s] names *)
(* the projection of s by one of the summaries that have it.  The source's *)
(* argument for that is that equal projections are bisimilar, which        *)
(* SummaryAutomaton checks of the real projection; here every projection   *)
(* with that property is tried, together with every automaton.             *)
(*                                                                         *)
(* One call of explore is one frame of the stack, one turn of its loop is  *)
(* one step.                                                               *)
(***************************************************************************)
EXTENDS Integers, Sequences, FiniteSets

CONSTANTS
    Summaries,       \* the Boolean summaries
    Start,           \* automaton.initial
    AlphabetSize,    \* alphabet.length; a symbol is its position in the list
    Budgets          \* the values of maxStates considered

ASSUME SummariesAssumption == IsFiniteSet(Summaries)  \* Boolean functions of the states
ASSUME StartAssumption == Start \in Summaries
ASSUME AlphabetAssumption == AlphabetSize \in Nat
ASSUME BudgetAssumption == Budgets \subseteq Int  \* --native-max-states takes any integer

Symbols == 1..AlphabetSize

VARIABLES
    delta,       \* transition(automaton, _, _)
    final,       \* the summaries that isFinal accepts
    key,         \* the projection
    maxStates,   \* the budget
    stack,       \* the calls of explore in progress: [summary, sym]
    dead,        \* projections of finished calls
    onStack,     \* projections of the calls in progress
    visited,     \* summaries discovered besides the initial one
    truncated,
    found,       \* is the call on top returning Some(word)?
    word,        \* the word it returns
    verdict

inputVars == <<delta, final, key, maxStates>>
conflictVars == <<delta, final, key, maxStates, stack, dead, onStack, visited,
                  truncated, found, word, verdict>>

Bisimulation(k) ==
    \A s, t \in Summaries : k[s] = k[t] =>
        /\ s \in final <=> t \in final
        /\ \A a \in Symbols : k[delta[s, a]] = k[delta[t, a]]

Frame(s) == [summary |-> s, sym |-> 1]

Frames == [summary : Summaries, sym : Nat \ {0}]

TypeOK ==
    /\ delta \in [Summaries \X Symbols -> Summaries]
    /\ final \in SUBSET Summaries
    /\ key \in [Summaries -> Summaries]
    /\ maxStates \in Budgets
    /\ stack \in Seq(Frames)
    /\ dead \in SUBSET Summaries
    /\ onStack \in SUBSET Summaries
    /\ visited \in Nat
    /\ truncated \in BOOLEAN
    /\ found \in BOOLEAN
    /\ word \in Seq(Symbols)
    /\ verdict \in {"pending", "PROVED", "NOT PROVED", "UNKNOWN"}

ConflictInit ==
    /\ delta \in [Summaries \X Symbols -> Summaries]
    /\ final \in SUBSET Summaries
    /\ key \in [Summaries -> Summaries]
    /\ \A s \in Summaries : key[key[s]] = key[s]
    /\ Bisimulation(key)
    /\ maxStates \in Budgets
    /\ stack = << >>
    /\ dead = {}
    /\ onStack = {}
    /\ visited = 0
    /\ truncated = FALSE
    /\ found = FALSE
    /\ word = << >>
    /\ verdict = "pending"

Idle == verdict = "pending" /\ stack = << >>

\* isFinal(automaton.initial): Some(Nil) without any search.
AcceptInitial ==
    /\ Idle
    /\ Start \in final
    /\ verdict' = "NOT PROVED"
    /\ UNCHANGED <<inputVars, stack, dead, onStack, visited, truncated, found, word>>

\* explore(automaton.initial)
ExploreInitial ==
    /\ Idle
    /\ Start \notin final
    /\ stack' = <<Frame(Start)>>
    /\ onStack' = {key[Start]}
    /\ UNCHANGED <<inputVars, dead, visited, truncated, found, word, verdict>>

Top == stack[Len(stack)]

Trying ==
    /\ stack # << >>
    /\ ~found
    /\ ~truncated
    /\ Top.sym \in Symbols

Successor == delta[Top.summary, Top.sym]

\* The innermost of these calls goes on to its next symbol.
NextSymbol(frames) == [frames EXCEPT ![Len(frames)].sym = @ + 1]

HitFinal ==
    /\ Trying
    /\ Successor \in final
    /\ found' = TRUE
    /\ word' = <<Top.sym>>
    /\ UNCHANGED <<inputVars, stack, dead, onStack, visited, truncated, verdict>>

\* An equal projection is already finished, or is an ancestor.
Prune ==
    /\ Trying
    /\ Successor \notin final
    /\ key[Successor] \in dead \cup onStack
    /\ stack' = NextSymbol(stack)
    /\ UNCHANGED <<inputVars, dead, onStack, visited, truncated, found, word, verdict>>

\* Mutant: the budget is tested before the projection is looked up.
OverBudget_BeforePrune ==
    /\ Trying
    /\ Successor \notin final
    /\ visited >= maxStates
    /\ truncated' = TRUE
    /\ UNCHANGED <<inputVars, stack, dead, onStack, visited, found, word, verdict>>

OverBudget ==
    /\ Trying
    /\ Successor \notin final
    /\ key[Successor] \notin dead \cup onStack
    /\ visited >= maxStates
    /\ truncated' = TRUE
    /\ UNCHANGED <<inputVars, stack, dead, onStack, visited, found, word, verdict>>

\* explore(next); the caller's sym stays put until the call returns.
Descend ==
    /\ Trying
    /\ Successor \notin final
    /\ key[Successor] \notin dead \cup onStack
    /\ visited < maxStates
    /\ visited' = visited + 1
    /\ stack' = Append(stack, Frame(Successor))
    /\ onStack' = onStack \cup {key[Successor]}
    /\ UNCHANGED <<inputVars, dead, truncated, found, word, verdict>>

\* Mutant: the last symbol is left out.
Leaving_Early ==
    /\ stack # << >>
    /\ found \/ truncated \/ Top.sym >= AlphabetSize
    /\ onStack' = onStack \ {key[Top.summary]}
    /\ dead' = IF found \/ truncated THEN dead ELSE dead \cup {key[Top.summary]}

\* The loop has ended: explore leaves its key in dead unless the search found
\* a word or gave up.
Leaving ==
    /\ stack # << >>
    /\ found \/ truncated \/ Top.sym > AlphabetSize
    /\ onStack' = onStack \ {key[Top.summary]}
    /\ dead' = IF found \/ truncated THEN dead ELSE dead \cup {key[Top.summary]}

Callers == SubSeq(stack, 1, Len(stack) - 1)

\* Return to the calling frame, which puts its symbol in front of the word.
ReturnToCaller ==
    /\ Leaving
    /\ Len(stack) > 1
    /\ stack' = NextSymbol(Callers)
    /\ word' = IF found THEN <<Callers[Len(Callers)].sym>> \o word ELSE word
    /\ UNCHANGED <<inputVars, visited, truncated, found, verdict>>

\* Mutant: no word is taken for a proof, also when the search gave up.
Conclude_IgnoreTruncated ==
    /\ Leaving
    /\ Len(stack) = 1
    /\ stack' = << >>
    /\ verdict' = IF found THEN "NOT PROVED" ELSE "PROVED"
    /\ UNCHANGED <<inputVars, visited, truncated, found, word>>

\* The outermost call returns; conflictSummary renders the verdict.
Conclude ==
    /\ Leaving
    /\ Len(stack) = 1
    /\ stack' = << >>
    /\ verdict' = IF truncated THEN "UNKNOWN" ELSE IF found THEN "NOT PROVED" ELSE "PROVED"
    /\ UNCHANGED <<inputVars, visited, truncated, found, word>>

ConflictNext ==
    \/ AcceptInitial \/ ExploreInitial
    \/ HitFinal \/ Prune \/ OverBudget \/ Descend
    \/ ReturnToCaller \/ Conclude

ConflictSpec == ConflictInit /\ [][ConflictNext]_conflictVars /\ WF_conflictVars(ConflictNext)

-----------------------------------------------------------------------------

(***************************************************************************)
(* References: closed sets of summaries, and what they say of the words.   *)
(***************************************************************************)
Closed(C) == \A s \in C, a \in Symbols : delta[s, a] \in C

ReachableFrom(Seeds) ==
    {s \in Summaries :
        \A C \in SUBSET Summaries : (Seeds \subseteq C /\ Closed(C)) => s \in C}

Successors(s) == {delta[s, a] : a \in Symbols}

NonemptyAccepted == ReachableFrom(Successors(Start)) \cap final # {}

Run(w) ==
    LET step[n \in 0..Len(w)] ==
            IF n = 0 THEN Start ELSE delta[step[n - 1], w[n]]
    IN  step[Len(w)]

\* A summary can be forgotten (its projection is in dead) only when nothing
\* accepting is one step away and every step from it stays within what is
\* dead or still being explored: whatever a pruned cycle could have reached
\* is left to an ancestor that has not finished.
DeadIsCovered ==
    (~found /\ ~truncated) =>
        \A s \in Summaries : key[s] \in dead =>
            \A a \in Symbols :
                /\ delta[s, a] \notin final
                /\ key[delta[s, a]] \in dead \cup onStack

\* PROVED is sound although cycles are pruned before they are understood: no
\* nonempty word is accepted.
ProvedIsSound ==
    verdict = "PROVED" => ~NonemptyAccepted

\* UNKNOWN is honest: more projections than the budget are reachable besides
\* the initial one.
TruncationJustified ==
    truncated =>
        /\ visited >= maxStates
        /\ Cardinality({key[s] : s \in ReachableFrom({Start})}) > maxStates + 1

\* Translator.scala:257-258: "The empty word is reported but excluded from
\* the verdict"; so NOT PROVED needs a nonempty accepted word.
EmptyWordExcluded ==
    verdict = "NOT PROVED" => NonemptyAccepted

\* Once a word is found the walk only unwinds: nothing new is discovered.
FoundOnlyUnwinds ==
    [][found => /\ UNCHANGED <<visited, dead, truncated, found>>
                /\ Len(stack') < Len(stack)]_conflictVars

\* The promise of EmptinessCheck, which includes that one answer comes and
\* stays, with what --run-native-conflict takes for an
\* accepted word: the empty word counts.  Where the initial summary rejects,
\* these are exactly the nonempty accepted words.
CountedAsAccepted == ReachableFrom({Start}) \cap final # {}

Promise == INSTANCE EmptinessCheck WITH accepted <- CountedAsAccepted
KeepsPromise == Promise!CheckSpec

=============================================================================
