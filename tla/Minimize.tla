------------------------------- MODULE Minimize -------------------------------
(***************************************************************************)
(* BooleanAutomaton.minimize: Moore's partition refinement on the DFA that *)
(* reachable built.  The blocks are renumbered in every round by first     *)
(* occurrence, and the loop stops on the number of blocks alone.           *)
(***************************************************************************)
EXTENDS Integers, Sequences, FiniteSets, FiniteSetsExt

CONSTANT Shapes  \* the pairs <<stateCount, alphabet size>> considered

ASSUME ShapesAssumption == Shapes \subseteq (Nat \ {0}) \X Nat

VARIABLES
    table,         \* the input: [stateCount, alphabet, next, accepting, initial, truncated]
    progress,       \* "split", "refine", "quotient", "done", or "refused" (PVWAAError)
    blockOf,     \* state -> block
    blockCount,
    round,       \* refinement rounds made
    quotient     \* the DFA returned

minimizeVars == <<table, progress, blockOf, blockCount, round, quotient>>

Numbers(n) == 0..(n - 1)

Dfas(n, k) ==
    [stateCount : {n}, alphabet : {1..k}, next : [Numbers(n) \X (1..k) -> Numbers(n)],
     accepting : SUBSET Numbers(n), initial : Numbers(n), truncated : {FALSE}]

\* A truncated exploration: the edge the search gave up on, and all that were
\* to come after it, are missing, and nothing is marked accepting.
TruncatedDfas(n, k) ==
    [stateCount : {n}, alphabet : {1..k}, next : {[e \in {} |-> 0]},
     accepting : {{}}, initial : {0}, truncated : {TRUE}]

Inputs == UNION {Dfas(s[1], s[2]) \cup TruncatedDfas(s[1], s[2]) : s \in Shapes}

States == Numbers(table.stateCount)

\* Mutant: the states as they are numbered.
order_ByNumber == [k \in 1..table.stateCount |-> k - 1]

\* The initial state first, then the others in order.
order ==
    LET Others(k) == IF k - 2 < table.initial THEN k - 2 ELSE k - 1
    IN  [k \in 1..table.stateCount |-> IF k = 1 THEN table.initial ELSE Others(k)]

\* renumber: a label's number is how many other labels occur before it.
Renumber(label) ==
    LET First(s) == Min({k \in DOMAIN order : label[order[k]] = label[s]})
    IN  [s \in States |-> Cardinality({label[order[k]] : k \in 1..(First(s) - 1)})]

LabelCount(label) == Cardinality({label[s] : s \in States})

\* Mutant: acceptance is not looked at.
Accepting_Ignored == [s \in States |-> FALSE]

Accepting == [s \in States |-> s \in table.accepting]

Signature == [s \in States |-> <<blockOf[s], [a \in table.alphabet |-> blockOf[table.next[s, a]]]>>]

-----------------------------------------------------------------------------

MinimizeInit ==
    /\ table \in Inputs
    /\ progress = "split"
    /\ blockOf = [s \in {} |-> 0]
    /\ blockCount = 0
    /\ round = 0
    /\ quotient = << >>

Refuse ==
    /\ progress = "split"
    /\ table.truncated
    /\ progress' = "refused"
    /\ UNCHANGED <<table, blockOf, blockCount, round, quotient>>

SplitByAcceptance ==
    /\ progress = "split"
    /\ ~table.truncated
    /\ progress' = "refine"
    /\ blockOf' = Renumber(Accepting)
    /\ blockCount' = LabelCount(Accepting)
    /\ UNCHANGED <<table, round, quotient>>

Refine ==
    /\ progress = "refine"
    /\ blockOf' = Renumber(Signature)
    /\ blockCount' = LabelCount(Signature)
    /\ round' = round + 1
    /\ progress' = IF blockCount' = blockCount THEN "quotient" ELSE "refine"
    /\ UNCHANGED <<table, quotient>>

\* The first state of each block, in state order, stands for the block.
Representative(block) == Min({s \in States : blockOf[s] = block})

BuildQuotient ==
    /\ progress = "quotient"
    /\ progress' = "done"
    /\ quotient' =
        [stateCount |-> blockCount,
         alphabet |-> table.alphabet,
         next |-> [e \in Numbers(blockCount) \X table.alphabet |->
                    blockOf[table.next[Representative(e[1]), e[2]]]],
         accepting |-> {b \in Numbers(blockCount) : Representative(b) \in table.accepting},
         initial |-> blockOf[table.initial],
         truncated |-> FALSE]
    /\ UNCHANGED <<table, blockOf, blockCount, round>>

MinimizeNext == Refuse \/ SplitByAcceptance \/ Refine \/ BuildQuotient

MinimizeSpec == MinimizeInit /\ [][MinimizeNext]_minimizeVars

-----------------------------------------------------------------------------

(***************************************************************************)
(* The reference: acceptance of words, by running the table.               *)
(***************************************************************************)
Recognised(d, from, w) ==
    LET state[n \in 0..Len(w)] == IF n = 0 THEN from ELSE d.next[state[n - 1], w[n]]
    IN  state[Len(w)] \in d.accepting

WordsUpTo(n) == UNION {[1..k -> table.alphabet] : k \in 0..n}

Alike(s, t, n) == \A w \in WordsUpTo(n) : Recognised(table, s, w) <=> Recognised(table, t, w)

\* Long enough to tell any two distinguishable states apart.
Enough == table.stateCount

\* After r rounds two states share a block exactly when no word of length at
\* most r separates them: no refinement round splits states that accept the
\* same suffixes, or misses a separation that is due.
BlocksAreMooreClasses ==
    progress \in {"refine", "quotient", "done"} =>
        \A s, t \in States : blockOf[s] = blockOf[t] <=> Alike(s, t, round)

\* The loop stops on the number of blocks alone, and the partition is stable
\* all the same: the result accepts the same words, any two of its states
\* differ on one, and its initial state is number 0, where
\* Aiger.generateSafetyFromDfa starts without reading the initial field.
QuotientIsMinimalAndEquivalent ==
    progress = "done" =>
        /\ quotient.initial = 0
        /\ \A w \in WordsUpTo(Enough) :
            Recognised(quotient, 0, w) <=> Recognised(table, table.initial, w)
        /\ \A b, c \in Numbers(quotient.stateCount) :
            b # c => \E w \in WordsUpTo(Enough) : Recognised(quotient, b, w) # Recognised(quotient, c, w)

=============================================================================
