--------------------------- MODULE ReachableSearch ---------------------------
(***************************************************************************)
(* BooleanAutomaton.reachable: the breadth-first exploration of the        *)
(* Boolean summaries reachable from the initial one, which materialises a  *)
(* finite DFA or gives up ("truncated") when its state budget runs out.    *)
(*                                                                         *)
(* A summary is an opaque value here and one call of                       *)
(* BooleanAutomaton.transition is one application of delta (module         *)
(* SummaryAutomaton opens both up).  delta and final are chosen in the     *)
(* initial state and never change, so a run of TLC covers every automaton  *)
(* over Summaries.  The alphabet is the list the source iterates: a symbol *)
(* is its position, 1..AlphabetSize.                                       *)
(***************************************************************************)
EXTENDS Integers, Sequences

CONSTANTS
    Summaries,      \* the Boolean summaries
    Start,          \* automaton.initial
    NoSummary,      \* "no state is being expanded"
    AlphabetSize,   \* alphabet.length
    Budgets         \* the values of maxStates considered

ASSUME StartAssumption == Start \in Summaries
ASSUME NoSummaryAssumption == NoSummary \notin Summaries
ASSUME AlphabetAssumption == AlphabetSize \in Nat
ASSUME BudgetAssumption == Budgets \subseteq Int  \* --native-max-states takes any integer

Symbols == 1..AlphabetSize

NoId == -1

VARIABLES
    delta,         \* transition(automaton, _, _)
    final,         \* the summaries whose diagonal accepts
    maxStates,     \* the budget
    phase,         \* "explore", then "explored"
    idOf,          \* ids: the summary's number, or NoId
    idCount,       \* ids.size
    queue,         \* summaries numbered and not yet dequeued
    current,       \* the summary being expanded
    sym,           \* next symbol of current to try
    transitions,   \* the table, as a set of <<from, symbol, to>>
    truncated,
    accepting      \* ids of accepting states, filled in at the end

inputVars == <<delta, final, maxStates>>
searchVars == <<phase, idOf, idCount, queue, current, sym, transitions,
                truncated, accepting>>
reachVars == <<delta, final, maxStates, phase, idOf, idCount, queue, current,
               sym, transitions, truncated, accepting>>

Known == {s \in Summaries : idOf[s] # NoId}

(***************************************************************************)
(* The reference: the reachable summaries are the least set that contains  *)
(* a seed and is closed under delta.                                       *)
(***************************************************************************)
Closed(C) == \A s \in C, a \in Symbols : delta[s, a] \in C

ReachableFrom(Seeds) ==
    {s \in Summaries :
        \A C \in SUBSET Summaries : (Seeds \subseteq C /\ Closed(C)) => s \in C}

Reachable == ReachableFrom({Start})

\* Where a word of length at least one can lead.
ReachableByNonempty == ReachableFrom({delta[Start, a] : a \in Symbols})

-----------------------------------------------------------------------------

TypeOK ==
    /\ delta \in [Summaries \X Symbols -> Summaries]
    /\ final \in SUBSET Summaries
    /\ maxStates \in Budgets
    /\ phase \in {"explore", "explored"}
    /\ idOf \in [Summaries -> Nat \cup {NoId}]
    /\ idCount \in Nat
    /\ queue \in Seq(Summaries)
    /\ current \in Summaries \cup {NoSummary}
    /\ sym \in Nat
    /\ transitions \in SUBSET (Nat \X Symbols \X Nat)
    /\ truncated \in BOOLEAN
    /\ accepting \in SUBSET Nat

ReachInit ==
    /\ delta \in [Summaries \X Symbols -> Summaries]
    /\ final \in SUBSET Summaries
    /\ maxStates \in Budgets
    /\ phase = "explore"
    /\ idOf = [s \in Summaries |-> IF s = Start THEN 0 ELSE NoId]
    /\ idCount = 1
    /\ queue = <<Start>>
    /\ current = NoSummary
    /\ sym = 1
    /\ transitions = {}
    /\ truncated = FALSE
    /\ accepting = {}

\* The outer loop's head: take the oldest unexpanded summary.
Dequeue ==
    /\ phase = "explore"
    /\ ~truncated
    /\ current = NoSummary
    /\ queue # << >>
    /\ current' = Head(queue)
    /\ queue' = Tail(queue)
    /\ sym' = 1
    /\ UNCHANGED <<inputVars, phase, idOf, idCount, transitions, truncated, accepting>>

Expanding ==
    /\ phase = "explore"
    /\ ~truncated
    /\ current # NoSummary
    /\ sym \in Symbols

Edge(target) == <<idOf[current], sym, target>>

\* Mutant: an edge to a numbered summary is not recorded.
KnownSuccessor_NoEdge ==
    /\ Expanding
    /\ idOf[delta[current, sym]] # NoId
    /\ sym' = sym + 1
    /\ UNCHANGED <<inputVars, phase, idOf, idCount, queue, current, transitions, truncated, accepting>>

\* The successor already has a number.
KnownSuccessor ==
    /\ Expanding
    /\ idOf[delta[current, sym]] # NoId
    /\ transitions' = transitions \cup {Edge(idOf[delta[current, sym]])}
    /\ sym' = sym + 1
    /\ UNCHANGED <<inputVars, phase, idOf, idCount, queue, current, truncated, accepting>>

\* Within the budget: a summary gets a number, its edge is recorded.
Number(id, newQueue) ==
    /\ idCount < maxStates
    /\ idOf' = [idOf EXCEPT ![delta[current, sym]] = id]
    /\ idCount' = idCount + 1
    /\ transitions' = transitions \cup {Edge(id)}
    /\ queue' = newQueue
    /\ sym' = sym + 1
    /\ UNCHANGED <<inputVars, phase, current, truncated, accepting>>

\* A new summary: number it and enqueue it.
NewSuccessor ==
    /\ Expanding
    /\ idOf[delta[current, sym]] = NoId
    /\ Number(idCount, Append(queue, delta[current, sym]))

\* Mutant: the budget is tested before the lookup.
Truncate_BeforeLookup ==
    /\ Expanding
    /\ idCount >= maxStates
    /\ truncated' = TRUE
    /\ UNCHANGED <<inputVars, phase, idOf, idCount, queue, current, sym, transitions, accepting>>

\* A new summary over the budget: give up, with this edge missing.
Truncate ==
    /\ Expanding
    /\ idOf[delta[current, sym]] = NoId
    /\ idCount >= maxStates
    /\ truncated' = TRUE
    /\ UNCHANGED <<inputVars, phase, idOf, idCount, queue, current, sym, transitions, accepting>>

\* Every symbol of current has been tried.
FinishState ==
    /\ phase = "explore"
    /\ ~truncated
    /\ current # NoSummary
    /\ sym > AlphabetSize
    /\ current' = NoSummary
    /\ UNCHANGED <<inputVars, phase, idOf, idCount, queue, sym, transitions, truncated, accepting>>

\* Both loops have stopped: classify the states, unless the table is partial.
FinishExploring ==
    /\ phase = "explore"
    /\ truncated \/ (current = NoSummary /\ queue = << >>)
    /\ phase' = "explored"
    /\ accepting' = IF truncated THEN {} ELSE {idOf[s] : s \in final \cap Known}
    /\ UNCHANGED <<inputVars, idOf, idCount, queue, current, sym, transitions, truncated>>

ExploreStep ==
    \/ Dequeue \/ KnownSuccessor \/ NewSuccessor
    \/ Truncate \/ FinishState \/ FinishExploring

ReachSpec == ReachInit /\ [][ExploreStep]_reachVars /\ WF_reachVars(ExploreStep)

-----------------------------------------------------------------------------

\* The numbers handed out are 0..idCount-1, each to one summary, and the
\* initial summary keeps 0: toDot, minimize and generateSafetyFromDfa all
\* index by these numbers, the last one without reading dfa.initial at all.
NumberingIsBijective ==
    /\ idOf[Start] = 0
    /\ \A s \in Known : idOf[s] < idCount
    /\ \A s, t \in Known : idOf[s] = idOf[t] => s = t
    /\ \A i \in 0..(idCount - 1) : \E s \in Known : idOf[s] = i

EdgeOf(s, a) == <<idOf[s], a, idOf[delta[s, a]]>>

\* When the exploration ends without truncation the DFA is the whole truth:
\* its states are exactly the reachable summaries, its edges are exactly those
\* of delta between them, and the accepting ids are the final ones.
ExplorationExact ==
    (phase = "explored" /\ ~truncated) =>
        /\ Known = Reachable
        /\ \A e \in transitions : \E s \in Known, a \in Symbols : e = EdgeOf(s, a)
        /\ \A s \in Known, a \in Symbols : EdgeOf(s, a) \in transitions
        /\ accepting = {idOf[s] : s \in final \cap Reachable}

\* Truncation means what UNKNOWN tells the user, "raise the budget": there
\* really are more reachable summaries than maxStates, and the table that is
\* left behind claims no accepting state.
TruncationJustified ==
    (phase = "explored" /\ truncated) =>
        /\ Known # Reachable
        /\ idCount >= maxStates
        /\ accepting = {}

\* The queue is always the tail of the numbering, in order: every numbered
\* summary is expanded once, oldest first, whatever successors it shares with
\* others.
QueueIsFrontier ==
    (phase = "explore" /\ ~truncated) =>
        /\ \A i \in 1..Len(queue) : idOf[queue[i]] = idCount - Len(queue) + i - 1
        /\ current # NoSummary => idOf[current] = idCount - Len(queue) - 1

\* What was numbered or recorded is never renumbered or withdrawn.
NumbersAreStable ==
    [][/\ \A s \in Known : idOf'[s] = idOf[s]
       /\ transitions \subseteq transitions'
       /\ (truncated => truncated')]_reachVars

=============================================================================
