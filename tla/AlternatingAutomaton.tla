------------------------- MODULE AlternatingAutomaton -------------------------
(***************************************************************************)
(* A pebble very weak alternating automaton (ForwardPVWAA) and its run on  *)
(* a word, Pvwaa.accepts.                                                  *)
(*                                                                         *)
(* An automaton is a record: order (its states in rank order), transition  *)
(* (clauses and atoms per state), initial and final.  A clause holds of    *)
(* the letters it lists and needs all of its atoms; atoms are those of the *)
(* whole transition formula.                                               *)
(***************************************************************************)
EXTENDS Integers, Sequences

CONSTANT Alphabet

States(a) == {a.order[k] : k \in DOMAIN a.order}

\* A configuration of a run: state, pebble and head, the pebble never right of
\* the head.
Configurations(a, word) ==
    {x \in States(a) \X (0..Len(word)) \X (0..Len(word)) : x[2] <= x[3]}

\* goto returns the head to the pebble, leave advances the head, carry takes
\* the pebble one step right of the head along.
Move(x, atom) ==
    CASE atom.action = "goto" -> <<atom.state, x[2], x[2]>>
      [] atom.action = "leave" -> <<atom.state, x[2], x[3] + 1>>
      [] atom.action = "carry" -> <<atom.state, x[3] + 1, x[3] + 1>>

\* Pvwaa.accepts' run.
PvwaaRun(a, word, state, pebble, head) ==
    LET run[x \in Configurations(a, word)] ==
            IF x[3] = Len(word) THEN x[1] \in a.final
            ELSE \E c \in a.transition[x[1]].clauses :
                    word[x[3] + 1] \in c.letters /\ \A atom \in c.atoms : run[Move(x, atom)]
    IN  run[<<state, pebble, head>>]

PvwaaAccepts(a, word) == PvwaaRun(a, word, a.initial, 0, 0)

=============================================================================
