----------------------------- MODULE NativeCheck -----------------------------
(***************************************************************************)
(* The translator's --run-native: BooleanAutomaton.reachable builds the    *)
(* DFA, Translator.nativeSummary runs BooleanAutomaton.witness over it (a  *)
(* second breadth-first search, over state numbers) and renderVerdict      *)
(* turns the result into PROVED, NOT PROVED or UNKNOWN.                    *)
(***************************************************************************)
EXTENDS ReachableSearch

NoState == -1
VARIABLES
    stage,      \* "explore", "witness", "trace", "done"
    parent,     \* parent(state) = <<previous, symbol>>
    visited,    \* states the witness search has seen
    wqueue,     \* its queue
    wstate,     \* the state being expanded
    wsym,       \* its next symbol
    target,     \* the accepting state found
    tail,       \* where the walk back along parent stands
    witness,    \* the symbols collected by that walk
    verdict

witnessVars == <<stage, parent, visited, wqueue, wstate, wsym, target, tail, witness, verdict>>
nativeVars == <<delta, final, maxStates, phase, idOf, idCount, queue, current,
                sym, transitions, truncated, accepting, stage, parent, visited,
                wqueue, wstate, wsym, target, tail, witness, verdict>>

dfaInitial == 0

NativeInit ==
    /\ ReachInit
    /\ stage = "explore"
    /\ parent = << >>
    /\ visited = {dfaInitial}
    /\ wqueue = <<dfaInitial>>
    /\ wstate = NoState
    /\ wsym = 1
    /\ target = NoState
    /\ tail = NoState
    /\ witness = << >>
    /\ verdict = "pending"

Explore ==
    /\ stage = "explore"
    /\ ExploreStep
    /\ UNCHANGED witnessVars

\* Mutant: a truncated DFA is searched like any other.
BeginWitness_Truncated ==
    /\ stage = "explore"
    /\ phase = "explored"
    /\ stage' = "witness"
    /\ UNCHANGED <<inputVars, searchVars, parent, visited, wqueue, wstate, wsym, target, tail, witness, verdict>>

\* nativeSummary: a truncated DFA is not searched at all.
BeginWitness ==
    /\ stage = "explore"
    /\ phase = "explored"
    /\ stage' = IF truncated THEN "done" ELSE "witness"
    /\ verdict' = IF truncated THEN "UNKNOWN" ELSE verdict
    /\ UNCHANGED <<inputVars, searchVars, parent, visited, wqueue, wstate, wsym, target, tail, witness>>

Searching == stage = "witness" /\ target = NoState

WitnessDequeue ==
    /\ Searching
    /\ wstate = NoState
    /\ wqueue # << >>
    /\ wstate' = Head(wqueue)
    /\ wqueue' = Tail(wqueue)
    /\ wsym' = 1
    /\ UNCHANGED <<inputVars, searchVars, stage, parent, visited, target, tail, witness, verdict>>

\* dfa.transitions.get((state, symbol))
Targets(state, symbol) == {i \in 0..(idCount - 1) : <<state, symbol, i>> \in transitions}

\* An edge to a state already seen, or no edge: nothing to do.
WitnessSkip ==
    /\ Searching
    /\ wstate # NoState
    /\ wsym \in Symbols
    /\ Targets(wstate, wsym) \subseteq visited
    /\ wsym' = wsym + 1
    /\ UNCHANGED <<inputVars, searchVars, stage, parent, visited, wqueue, wstate, target, tail, witness, verdict>>

\* Mutant: a state is expanded as soon as it is seen.
WitnessVisit_DepthFirst ==
    /\ Searching
    /\ wstate # NoState
    /\ wsym \in Symbols
    /\ \E next \in Targets(wstate, wsym) \ visited :
        /\ visited' = visited \cup {next}
        /\ parent' = [i \in DOMAIN parent \cup {next} |->
                        IF i = next THEN <<wstate, wsym>> ELSE parent[i]]
        /\ \/ next \in accepting /\ target' = next /\ UNCHANGED <<wqueue, wstate, wsym>>
           \/ /\ next \notin accepting
              /\ wqueue' = <<wstate>> \o wqueue
              /\ wstate' = next
              /\ wsym' = 1
              /\ UNCHANGED target
    /\ UNCHANGED <<inputVars, searchVars, stage, tail, witness, verdict>>

\* An edge to an unseen state: remember how it was reached; stop if accepting.
WitnessVisit ==
    /\ Searching
    /\ wstate # NoState
    /\ wsym \in Symbols
    /\ \E next \in Targets(wstate, wsym) \ visited :
        /\ visited' = visited \cup {next}
        /\ parent' = [i \in DOMAIN parent \cup {next} |->
                        IF i = next THEN <<wstate, wsym>> ELSE parent[i]]
        /\ \/ next \in accepting /\ target' = next /\ UNCHANGED wqueue
           \/ next \notin accepting /\ wqueue' = Append(wqueue, next) /\ UNCHANGED target
    /\ wsym' = wsym + 1
    /\ UNCHANGED <<inputVars, searchVars, stage, wstate, tail, witness, verdict>>

WitnessNextState ==
    /\ Searching
    /\ wstate # NoState
    /\ wsym > AlphabetSize
    /\ wstate' = NoState
    /\ wsym' = 1
    /\ UNCHANGED <<inputVars, searchVars, stage, parent, visited, wqueue, target, tail, witness, verdict>>

\* The search is over; with a target, walk back along parent first.
WitnessFound ==
    /\ stage = "witness"
    /\ target # NoState
    /\ stage' = "trace"
    /\ tail' = target
    /\ UNCHANGED <<inputVars, searchVars, parent, visited, wqueue, wstate, wsym, target, witness, verdict>>

WitnessNone ==
    /\ Searching
    /\ wstate = NoState
    /\ wqueue = << >>
    /\ stage' = "done"
    /\ verdict' = "PROVED"
    /\ UNCHANGED <<inputVars, searchVars, parent, visited, wqueue, wstate, wsym, target, tail, witness>>

TraceBack ==
    /\ stage = "trace"
    /\ tail # dfaInitial
    /\ tail' = parent[tail][1]
    /\ witness' = <<parent[tail][2]>> \o witness
    /\ UNCHANGED <<inputVars, searchVars, stage, parent, visited, wqueue, wstate, wsym, target, verdict>>

TraceDone ==
    /\ stage = "trace"
    /\ tail = dfaInitial
    /\ stage' = "done"
    /\ verdict' = "NOT PROVED"
    /\ UNCHANGED <<inputVars, searchVars, parent, visited, wqueue, wstate, wsym, target, tail, witness>>

NativeNext ==
    \/ Explore \/ BeginWitness
    \/ WitnessDequeue \/ WitnessSkip \/ WitnessVisit \/ WitnessNextState
    \/ WitnessFound \/ WitnessNone \/ TraceBack \/ TraceDone

NativeSpec == NativeInit /\ [][NativeNext]_nativeVars /\ WF_nativeVars(NativeNext)

-----------------------------------------------------------------------------

\* The reference: the summary a word leads to, and the language of nonempty words.
Run(word) ==
    LET step[n \in 0..Len(word)] ==
            IF n = 0 THEN Start ELSE delta[step[n - 1], word[n]]
    IN  step[Len(word)]

WordsUpTo(n) == UNION {[1..k -> Symbols] : k \in 1..n}

NonemptyAccepted == ReachableByNonempty \cap final # {}

\* A NOT PROVED comes with a nonempty word that the automaton accepts, and no
\* shorter nonempty word ends in an accepting state other than the initial one
\* (which witness never reports).
WitnessIsShortestCounterexample ==
    verdict = "NOT PROVED" =>
        /\ witness # << >>
        /\ Run(witness) \in final
        /\ \A w \in WordsUpTo(Len(witness) - 1) : Run(w) \notin final \ {Start}

\* Translator.scala:238-240: the witness is None "when no nonempty bad prefix
\* was found - either because none exists, or (when truncated)" because the
\* search gave up; so a PROVED means that none exists.
ProvedMeansEmpty ==
    verdict = "PROVED" => ~NonemptyAccepted

\* The promise of EmptinessCheck, which includes that one answer comes and
\* stays, with what --run-native takes for an accepted
\* word: one that ends in an accepting summary other than the initial one.
\* Where the initial summary rejects, these are exactly the accepted words.
CountedAsAccepted == (ReachableByNonempty \cap final) \ {Start} # {}

Promise == INSTANCE EmptinessCheck WITH accepted <- CountedAsAccepted
KeepsPromise == Promise!CheckSpec

=============================================================================
