----------------------------- MODULE NativeProofs -----------------------------
(***************************************************************************)
(* Proofs about the exploration of the reachable summaries                 *)
(* (ReachableSearch) and about the verdict that --run-native draws from it *)
(* (NativeCheck), for every automaton, alphabet and budget; the set of     *)
(* summaries may even be infinite.                                         *)
(***************************************************************************)
EXTENDS NativeCheck, WordLemmas

-----------------------------------------------------------------------------
(***************************************************************************)
(* The exploration.                                                        *)
(*                                                                         *)
(* ExplorationExact is not inductive: it says nothing until the search is  *)
(* over.  SearchInv says what every intermediate state owes to it: what is *)
(* numbered is reachable, every edge of the table is an edge of delta, and *)
(* a numbered summary is waiting in the queue, or being expanded (its      *)
(* edges below sym are in the table), or expanded (all of them are).       *)
(***************************************************************************)

Queued(s) == \E i \in 1..Len(queue) : queue[i] = s

\* The edge of s on a is in the table, and its target is numbered.
Recorded(s, a) ==
    /\ delta[s, a] \in Known
    /\ <<idOf[s], a, idOf[delta[s, a]]>> \in transitions

Expanded(s) == \A a \in Symbols : Recorded(s, a)

Numbering ==
    /\ idOf[Start] = 0
    /\ \A s \in Known : idOf[s] < idCount
    /\ \A s, t \in Known : idOf[s] = idOf[t] => s = t
    /\ \A i \in 0..(idCount - 1) : \E s \in Known : idOf[s] = i

Frontier ==
    /\ \A i \in 1..Len(queue) : queue[i] \in Known
    /\ current # NoSummary =>
        /\ current \in Known
        /\ \A a \in Symbols : a < sym => Recorded(current, a)
    /\ \A s \in Known : Queued(s) \/ s = current \/ Expanded(s)

EdgesAreReal ==
    \A e \in transitions : \E s \in Known, a \in Symbols :
        delta[s, a] \in Known /\ e = <<idOf[s], a, idOf[delta[s, a]]>>

Conclusion ==
    /\ phase = "explore" => accepting = {}
    /\ truncated =>
        /\ idCount >= maxStates
        /\ accepting = {}
        /\ \E s \in Known, a \in Symbols : delta[s, a] \notin Known
    /\ (phase = "explored" /\ ~truncated) =>
        /\ queue = << >>
        /\ current = NoSummary
        /\ accepting = {idOf[s] : s \in final \cap Known}

SearchInv ==
    /\ TypeOK
    /\ Numbering
    /\ Known \subseteq Reachable
    /\ Frontier
    /\ EdgesAreReal
    /\ Conclusion

-----------------------------------------------------------------------------

LEMMA SymbolsAreNumbers == \A a \in Symbols : a \in Nat
  BY AlphabetAssumption DEF Symbols

\* The initial summary is reachable, and so are the successors of what is.
LEMMA ReachableIsClosed ==
    ASSUME TypeOK
    PROVE  /\ Start \in Reachable
           /\ \A s \in Reachable, a \in Symbols : delta[s, a] \in Reachable
<1>1. Start \in Reachable
  BY StartAssumption DEF Reachable, ReachableFrom
<1>2. ASSUME NEW s \in Reachable, NEW a \in Symbols
      PROVE  delta[s, a] \in Reachable
  <2>1. s \in Summaries /\ delta[s, a] \in Summaries
    BY <1>2 DEF TypeOK, Reachable, ReachableFrom
  <2>2. ASSUME NEW C \in SUBSET Summaries, Start \in C, Closed(C)
        PROVE  delta[s, a] \in C
    <3>1. s \in C
      BY <2>2 DEF Reachable, ReachableFrom
    <3> QED
      BY <2>2, <3>1 DEF Closed
  <2> QED
    BY <2>1, <2>2 DEF Reachable, ReachableFrom
<1> QED
  BY <1>1, <1>2

\* Reachable is below every closed set that contains the initial summary.
LEMMA ReachableIsLeast ==
    ASSUME NEW C \in SUBSET Summaries, Start \in C, Closed(C)
    PROVE  Reachable \subseteq C
  BY DEF Reachable, ReachableFrom

LEMMA InitSearchInv == ReachInit => SearchInv
<1> SUFFICES ASSUME ReachInit
             PROVE  SearchInv
  OBVIOUS
<1>1. TypeOK
  <2>1. idOf \in [Summaries -> Nat \cup {NoId}]
    BY DEF ReachInit
  <2>2. queue \in Seq(Summaries)
    BY StartAssumption DEF ReachInit
  <2> QED
    BY <2>1, <2>2 DEF ReachInit, TypeOK
<1>2. Known = {Start} /\ idOf[Start] = 0
  <2>1. \A s \in Summaries : idOf[s] = IF s = Start THEN 0 ELSE NoId
    BY DEF ReachInit
  <2>2. NoId # 0
    BY DEF NoId
  <2> QED
    BY <2>1, <2>2, StartAssumption DEF Known
<1>3. Numbering
  BY <1>2 DEF ReachInit, Numbering
<1>4. Known \subseteq Reachable
  BY <1>1, <1>2, ReachableIsClosed
<1>5. Frontier
  BY <1>2 DEF ReachInit, Frontier, Queued
<1>6. EdgesAreReal /\ Conclusion
  BY DEF ReachInit, EdgesAreReal, Conclusion
<1> QED
  BY <1>1, <1>3, <1>4, <1>5, <1>6 DEF SearchInv

-----------------------------------------------------------------------------
(***************************************************************************)
(* The steps.                                                              *)
(***************************************************************************)

LEMMA ReachableStays == delta' = delta => Reachable' = Reachable
  BY DEF Reachable, ReachableFrom, Closed

\* The parts that depend only on the numbering and the input.
LEMMA SameNumbering ==
    ASSUME SearchInv, UNCHANGED <<inputVars, idOf, idCount>>
    PROVE  /\ Known' = Known
           /\ Numbering'
           /\ Known' \subseteq Reachable'
<1>1. Known' = Known
  BY DEF Known
<1>2. Numbering'
  BY <1>1 DEF SearchInv, Numbering
<1>3. Known' \subseteq Reachable'
  BY <1>1, ReachableStays DEF SearchInv, inputVars
<1> QED
  BY <1>1, <1>2, <1>3

\* When the edges stay too, what is recorded stays recorded.
LEMMA SameTable ==
    ASSUME SearchInv, UNCHANGED <<inputVars, idOf, idCount, transitions>>
    PROVE  /\ EdgesAreReal'
           /\ \A s \in Known, a \in Symbols : Recorded(s, a)' <=> Recorded(s, a)
<1>1. Known' = Known /\ delta' = delta /\ idOf' = idOf /\ transitions' = transitions
  BY SameNumbering DEF inputVars
<1>2. EdgesAreReal'
  <2> SUFFICES ASSUME NEW e \in transitions'
               PROVE  \E s \in Known', a \in Symbols :
                        delta'[s, a] \in Known' /\ e = <<idOf'[s], a, idOf'[delta'[s, a]]>>
    BY DEF EdgesAreReal
  <2>1. PICK s \in Known, a \in Symbols :
            delta[s, a] \in Known /\ e = <<idOf[s], a, idOf[delta[s, a]]>>
    BY <1>1 DEF SearchInv, EdgesAreReal
  <2> QED
    BY <1>1, <2>1
<1>3. \A s \in Known, a \in Symbols : Recorded(s, a)' <=> Recorded(s, a)
  BY <1>1 DEF Recorded
<1> QED
  BY <1>2, <1>3

LEMMA DequeueStep == SearchInv /\ Dequeue => SearchInv'
<1> SUFFICES ASSUME SearchInv, Dequeue
             PROVE  SearchInv'
  OBVIOUS
<1>1. UNCHANGED <<inputVars, idOf, idCount, transitions>>
  BY DEF Dequeue
<1>2. queue \in Seq(Summaries) /\ queue # << >>
  BY DEF SearchInv, TypeOK, Dequeue
<1>3. /\ current' = queue[1]
      /\ queue' \in Seq(Summaries)
      /\ Len(queue') = Len(queue) - 1
      /\ \A i \in 1..Len(queue') : queue'[i] = queue[i + 1]
      /\ Len(queue) \in Nat \ {0}
  BY <1>2 DEF Dequeue
<1>4. TypeOK'
  <2>1. current' \in Summaries
    BY <1>2, <1>3
  <2> QED
    BY <1>1, <1>3, <2>1 DEF SearchInv, TypeOK, Dequeue, inputVars
<1>5. Known' = Known /\ Numbering' /\ Known' \subseteq Reachable'
  BY <1>1, SameNumbering
<1>6. EdgesAreReal' /\ \A s \in Known, a \in Symbols : Recorded(s, a)' <=> Recorded(s, a)
  BY <1>1, SameTable
<1>7. Frontier'
  <2>1. \A i \in 1..Len(queue') : queue'[i] \in Known'
    BY <1>3, <1>5 DEF SearchInv, Frontier
  <2>2. current' \in Known' /\ sym' = 1
    BY <1>3, <1>5 DEF SearchInv, Frontier, Dequeue
  <2>3. ASSUME NEW s \in Known'
        PROVE  Queued(s)' \/ s = current' \/ Expanded(s)'
    <3>1. s # current
      BY <1>5, <2>3, NoSummaryAssumption DEF Dequeue, Known
    <3>2. CASE Queued(s)
      <4>1. PICK i \in 1..Len(queue) : queue[i] = s
        BY <3>2 DEF Queued
      <4>2. CASE i = 1
        BY <1>3, <4>1, <4>2
      <4>3. CASE i # 1
        <5>1. i - 1 \in 1..Len(queue') /\ queue'[i - 1] = s
          BY <1>3, <4>1, <4>3
        <5> QED
          BY <5>1 DEF Queued
      <4> QED
        BY <4>2, <4>3
    <3>3. CASE Expanded(s)
      BY <1>1, <1>5, <1>6, <3>3 DEF Expanded, Symbols
    <3> QED
      BY <1>5, <3>1, <3>2, <3>3 DEF SearchInv, Frontier
  <2> QED
    BY <2>1, <2>2, <2>3, AlphabetAssumption DEF Frontier, Symbols
<1>8. Conclusion'
  BY <1>5 DEF SearchInv, Conclusion, Dequeue, inputVars
<1> QED
  BY <1>4, <1>5, <1>6, <1>7, <1>8 DEF SearchInv

\* Growing the table or the numbering keeps what is recorded.
LEMMA RecordedStays ==
    ASSUME delta' = delta,
           transitions \subseteq transitions',
           \A s \in Known : s \in Known' /\ idOf'[s] = idOf[s],
           NEW s \in Known, NEW a \in Symbols, Recorded(s, a)
    PROVE  Recorded(s, a)'
<1>1. delta[s, a] \in Known /\ <<idOf[s], a, idOf[delta[s, a]]>> \in transitions
  BY DEF Recorded
<1>2. delta'[s, a] \in Known' /\ idOf'[delta'[s, a]] = idOf[delta[s, a]] /\ idOf'[s] = idOf[s]
  BY <1>1
<1> QED
  BY <1>1, <1>2 DEF Recorded

\* What an expansion step finds: the summary being expanded and its successor.
LEMMA ExpandingFacts ==
    ASSUME SearchInv, Expanding
    PROVE  /\ current \in Known
           /\ current \in Summaries
           /\ idOf[current] \in Nat
           /\ sym \in Symbols
           /\ delta[current, sym] \in Summaries
           /\ delta[current, sym] \in Reachable
<1>1. current \in Known /\ sym \in Symbols
  BY DEF SearchInv, Frontier, Expanding
<1>2. current \in Summaries /\ idOf[current] \in Nat
  BY <1>1 DEF SearchInv, TypeOK, Known
<1>3. delta[current, sym] \in Summaries
  BY <1>1, <1>2 DEF SearchInv, TypeOK
<1>4. delta[current, sym] \in Reachable
  BY <1>1, ReachableIsClosed DEF SearchInv
<1> QED
  BY <1>1, <1>2, <1>3, <1>4

LEMMA KnownSuccessorStep == SearchInv /\ KnownSuccessor => SearchInv'
<1> SUFFICES ASSUME SearchInv, KnownSuccessor
             PROVE  SearchInv'
  OBVIOUS
<1> DEFINE next == delta[current, sym]
           edge == <<idOf[current], sym, idOf[next]>>
<1>1. /\ Expanding
      /\ UNCHANGED <<inputVars, idOf, idCount>>
      /\ UNCHANGED <<queue, current, phase, truncated, accepting>>
      /\ transitions' = transitions \cup {edge}
      /\ sym' = sym + 1
      /\ idOf[next] # NoId
  BY DEF KnownSuccessor, Edge
<1>2. /\ current \in Known /\ current \in Summaries /\ idOf[current] \in Nat
      /\ sym \in Symbols /\ next \in Summaries
  BY <1>1, ExpandingFacts
<1>3. next \in Known /\ idOf[next] \in Nat
  BY <1>1, <1>2 DEF Known, SearchInv, TypeOK
<1>4. Known' = Known /\ Numbering' /\ Known' \subseteq Reachable'
  BY <1>1, SameNumbering
<1>5. delta' = delta /\ idOf' = idOf
  BY <1>1 DEF inputVars
<1>6. TypeOK'
  <2>1. edge \in Nat \X Symbols \X Nat
    BY <1>2, <1>3
  <2>2. transitions' \in SUBSET (Nat \X Symbols \X Nat)
    BY <1>1, <2>1 DEF SearchInv, TypeOK
  <2>3. sym' \in Nat
    <3>1. sym \in Nat
      BY DEF SearchInv, TypeOK
    <3>2. sym' = sym + 1
      BY DEF KnownSuccessor
    <3> QED
      BY <3>1, <3>2
  <2> HIDE DEF edge, next
  <2> QED
    BY <1>1, <2>2, <2>3 DEF SearchInv, TypeOK, inputVars
<1>7. ASSUME NEW s \in Known, NEW a \in Symbols, Recorded(s, a)
      PROVE  Recorded(s, a)'
  <2>1. /\ transitions \subseteq transitions'
        /\ \A t \in Known : t \in Known' /\ idOf'[t] = idOf[t]
    BY <1>1, <1>4, <1>5
  <2> QED
    BY <1>5, <1>7, <2>1, RecordedStays
<1>8. ASSUME NEW s, NEW a, s = current, a = sym
      PROVE  Recorded(s, a)'
  <2>1. delta'[s, a] = next /\ next \in Known' /\ edge \in transitions'
    BY <1>1, <1>3, <1>4, <1>5, <1>8
  <2>2. <<idOf'[s], a, idOf'[next]>> = edge
    BY <1>5, <1>8
  <2> QED
    BY <2>1, <2>2 DEF Recorded
<1>9. EdgesAreReal'
  <2> SUFFICES ASSUME NEW e \in transitions'
               PROVE  \E s \in Known, a \in Symbols :
                        delta[s, a] \in Known /\ e = <<idOf[s], a, idOf[delta[s, a]]>>
    BY <1>4, <1>5 DEF EdgesAreReal
  <2>1. CASE e \in transitions
    BY <2>1 DEF SearchInv, EdgesAreReal
  <2>2. CASE e = edge
    BY <1>2, <1>3, <2>2
  <2> QED
    BY <1>1, <2>1, <2>2
<1>10. Frontier'
  <2>1. \A i \in 1..Len(queue') : queue'[i] \in Known'
    BY <1>1, <1>4 DEF SearchInv, Frontier
  <2>2. ASSUME NEW a \in Symbols, a < sym'
        PROVE  Recorded(current, a)'
    <3>1. ASSUME a = sym
          PROVE  Recorded(current, a)'
      BY <1>1, <1>8, <3>1
    <3>2. ASSUME a < sym
          PROVE  Recorded(current, a)'
      <4>1. Recorded(current, a)
        BY <1>1, <3>2 DEF SearchInv, Frontier, Expanding
      <4> QED
        BY <1>1, <1>2, <1>7, <4>1
    <3>3. sym' = sym + 1
      BY <1>1
    <3>4. sym \in Nat /\ a \in Nat
      BY <1>2, SymbolsAreNumbers
    <3>5. a = sym \/ a < sym
      BY <2>2, <3>3, <3>4
    <3> QED
      BY <3>1, <3>2, <3>5
  <2>3. ASSUME NEW s \in Known'
        PROVE  Queued(s)' \/ s = current' \/ Expanded(s)'
    <3>1. CASE Queued(s)
      BY <1>1, <3>1 DEF Queued
    <3>2. CASE Expanded(s)
      BY <1>4, <1>7, <3>2 DEF Expanded
    <3> QED
      BY <1>1, <1>4, <3>1, <3>2 DEF SearchInv, Frontier
  <2> QED
    BY <1>1, <1>2, <1>4, <2>1, <2>2, <2>3 DEF Frontier
<1>11. Conclusion'
  BY <1>1, <1>4 DEF SearchInv, Conclusion, Expanding, inputVars
<1> QED
  BY <1>4, <1>6, <1>9, <1>10, <1>11 DEF SearchInv

LEMMA NewSuccessorStep == SearchInv /\ NewSuccessor => SearchInv'
<1> SUFFICES ASSUME SearchInv, NewSuccessor
             PROVE  SearchInv'
  OBVIOUS
<1> DEFINE next == delta[current, sym]
           edge == <<idOf[current], sym, idCount>>
<1>1. /\ Expanding
      /\ UNCHANGED <<inputVars, phase, current, truncated, accepting>>
      /\ idOf' = [idOf EXCEPT ![next] = idCount]
      /\ idCount' = idCount + 1
      /\ transitions' = transitions \cup {edge}
      /\ queue' = Append(queue, next)
      /\ sym' = sym + 1
      /\ idOf[next] = NoId
  BY DEF NewSuccessor, Number, Edge
<1>2. /\ current \in Known /\ current \in Summaries /\ idOf[current] \in Nat
      /\ sym \in Symbols /\ next \in Summaries /\ next \in Reachable
  BY <1>1, ExpandingFacts
<1>3. delta' = delta
  BY <1>1 DEF inputVars
<1>4. /\ idOf \in [Summaries -> Nat \cup {NoId}]
      /\ idCount \in Nat
      /\ queue \in Seq(Summaries)
      /\ sym \in Nat
  BY DEF SearchInv, TypeOK
<1> HIDE DEF next, edge
<1>5. idOf'[next] = idCount /\ \A s \in Summaries : s # next => idOf'[s] = idOf[s]
  BY <1>1, <1>2, <1>4
<1>6. idCount # NoId
  BY <1>4 DEF NoId
<1>7. next \notin Known /\ Known' = Known \cup {next}
  BY <1>1, <1>2, <1>5, <1>6 DEF Known
<1>8. \A s \in Known : s \in Known' /\ s \in Summaries /\ idOf'[s] = idOf[s]
  BY <1>5, <1>7 DEF Known
<1>9. /\ queue' \in Seq(Summaries)
      /\ Len(queue') = Len(queue) + 1
      /\ \A i \in 1..Len(queue) : queue'[i] = queue[i]
      /\ queue'[Len(queue) + 1] = next
      /\ Len(queue) \in Nat
  BY <1>1, <1>2, <1>4
<1>10. TypeOK'
  <2>1. edge \in Nat \X Symbols \X Nat
    BY <1>2, <1>4 DEF edge
  <2>2. transitions' \in SUBSET (Nat \X Symbols \X Nat)
    BY <1>1, <2>1 DEF SearchInv, TypeOK
  <2>3. idOf' \in [Summaries -> Nat \cup {NoId}]
    BY <1>1, <1>2, <1>4
  <2>4. idCount' \in Nat /\ sym' \in Nat
    BY <1>1, <1>4
  <2> QED
    BY <1>1, <1>9, <2>2, <2>3, <2>4 DEF SearchInv, TypeOK, inputVars
<1>11. Numbering'
  <2>1. idOf'[Start] = 0
    <3>1. Start \in Known /\ idOf[Start] = 0
      BY StartAssumption DEF SearchInv, Numbering, Known, NoId
    <3> QED
      BY <1>8, <3>1
  <2>2. \A s \in Known' : idOf'[s] < idCount'
    <3>1. \A s \in Known : idOf[s] < idCount /\ idOf[s] \in Nat
      BY <1>4 DEF SearchInv, Numbering, Known
    <3> QED
      BY <1>1, <1>4, <1>5, <1>7, <1>8, <3>1
  <2>3. ASSUME NEW s \in Known', NEW t \in Known', idOf'[s] = idOf'[t]
        PROVE  s = t
    <3>1. \A u \in Known : idOf[u] < idCount /\ idOf[u] \in Nat
      BY <1>4 DEF SearchInv, Numbering, Known
    <3>2. \A u \in Known : idOf'[u] # idCount
      BY <1>4, <1>8, <3>1
    <3>3. CASE s = next \/ t = next
      BY <1>5, <1>7, <2>3, <3>2, <3>3
    <3>4. CASE s \in Known /\ t \in Known
      BY <1>8, <2>3, <3>4 DEF SearchInv, Numbering
    <3> QED
      BY <1>7, <3>3, <3>4
  <2>4. ASSUME NEW i \in 0..(idCount' - 1)
        PROVE  \E s \in Known' : idOf'[s] = i
    <3>1. i = idCount \/ i \in 0..(idCount - 1)
      BY <1>1, <1>4
    <3>2. CASE i = idCount
      BY <1>5, <1>7, <3>2
    <3>3. CASE i \in 0..(idCount - 1)
      BY <1>8, <3>3 DEF SearchInv, Numbering
    <3> QED
      BY <3>1, <3>2, <3>3
  <2> QED
    BY <2>1, <2>2, <2>3, <2>4 DEF Numbering
<1>12. Known' \subseteq Reachable'
  BY <1>2, <1>3, <1>7, ReachableStays DEF SearchInv
<1>13. ASSUME NEW s \in Known, NEW a \in Symbols, Recorded(s, a)
       PROVE  Recorded(s, a)'
  <2>1. transitions \subseteq transitions'
    BY <1>1
  <2> QED
    BY <1>3, <1>8, <1>13, <2>1, RecordedStays
<1>14. next = delta[current, sym] /\ edge = <<idOf[current], sym, idCount>>
  BY DEF next, edge
<1>15. ASSUME NEW s, NEW a, s = current, a = sym
       PROVE  Recorded(s, a)'
  <2>1. delta'[s, a] = next /\ next \in Known' /\ edge \in transitions'
    BY <1>1, <1>3, <1>7, <1>14, <1>15
  <2>2. <<idOf'[s], a, idOf'[next]>> = edge
    BY <1>2, <1>5, <1>8, <1>14, <1>15
  <2> QED
    BY <2>1, <2>2 DEF Recorded
<1>16. EdgesAreReal'
  <2> SUFFICES ASSUME NEW e \in transitions'
               PROVE  \E s \in Known', a \in Symbols :
                        delta[s, a] \in Known' /\ e = <<idOf'[s], a, idOf'[delta[s, a]]>>
    BY <1>3 DEF EdgesAreReal
  <2>1. CASE e \in transitions
    <3>1. PICK s \in Known, a \in Symbols :
              delta[s, a] \in Known /\ e = <<idOf[s], a, idOf[delta[s, a]]>>
      BY <2>1 DEF SearchInv, EdgesAreReal
    <3> QED
      BY <1>8, <3>1
  <2>2. CASE e = edge
    <3>1. next = delta[current, sym] /\ next \in Known' /\ current \in Known'
      BY <1>2, <1>7, <1>14
    <3>2. e = <<idOf'[current], sym, idOf'[next]>>
      BY <1>2, <1>5, <1>8, <1>14, <2>2
    <3> QED
      BY <1>2, <3>1, <3>2
  <2> QED
    BY <1>1, <2>1, <2>2
<1>17. Frontier'
  <2>1. \A i \in 1..Len(queue') : queue'[i] \in Known'
    <3>1. ASSUME NEW i \in 1..Len(queue')
          PROVE  queue'[i] \in Known'
      <4>1. CASE i = Len(queue) + 1
        BY <1>7, <1>9, <4>1
      <4>2. CASE i \in 1..Len(queue)
        BY <1>8, <1>9, <4>2 DEF SearchInv, Frontier
      <4> QED
        BY <1>9, <4>1, <4>2
    <3> QED
      BY <3>1
  <2>2. ASSUME NEW a \in Symbols, a < sym'
        PROVE  Recorded(current, a)'
    <3>1. ASSUME a = sym
          PROVE  Recorded(current, a)'
      BY <1>1, <1>15, <3>1
    <3>2. ASSUME a < sym
          PROVE  Recorded(current, a)'
      <4>1. Recorded(current, a)
        BY <1>1, <3>2 DEF SearchInv, Frontier, Expanding
      <4> QED
        BY <1>1, <1>2, <1>13, <4>1
    <3>3. sym' = sym + 1
      BY <1>1
    <3>4. sym \in Nat /\ a \in Nat
      BY <1>2, SymbolsAreNumbers
    <3>5. a = sym \/ a < sym
      BY <2>2, <3>3, <3>4
    <3> QED
      BY <3>1, <3>2, <3>5
  <2>3. ASSUME NEW s \in Known'
        PROVE  Queued(s)' \/ s = current' \/ Expanded(s)'
    <3>1. CASE s = next
      <4>1. Len(queue) + 1 \in 1..Len(queue')
        BY <1>9
      <4> QED
        BY <1>9, <3>1, <4>1 DEF Queued
    <3>2. CASE s \in Known /\ Queued(s)
      <4>1. PICK i \in 1..Len(queue) : queue[i] = s
        BY <3>2 DEF Queued
      <4>2. i \in 1..Len(queue') /\ queue'[i] = s
        BY <1>9, <4>1
      <4> QED
        BY <4>2 DEF Queued
    <3>3. CASE s \in Known /\ Expanded(s)
      BY <1>13, <3>3 DEF Expanded
    <3> QED
      BY <1>1, <1>7, <3>1, <3>2, <3>3 DEF SearchInv, Frontier
  <2>4. current' \in Known'
    BY <1>1, <1>2, <1>7
  <2> QED
    BY <1>1, <2>1, <2>2, <2>3, <2>4 DEF Frontier
<1>18. Conclusion'
  BY <1>1 DEF SearchInv, Conclusion, Expanding, inputVars
<1> QED
  BY <1>10, <1>11, <1>12, <1>16, <1>17, <1>18 DEF SearchInv

LEMMA TruncateStep == SearchInv /\ Truncate => SearchInv'
<1> SUFFICES ASSUME SearchInv, Truncate
             PROVE  SearchInv'
  OBVIOUS
<1>1. /\ Expanding
      /\ UNCHANGED <<inputVars, idOf, idCount, transitions>>
      /\ UNCHANGED <<phase, queue, current, sym, accepting>>
      /\ truncated' = TRUE
      /\ idOf[delta[current, sym]] = NoId
      /\ idCount >= maxStates
  BY DEF Truncate
<1>2. TypeOK'
  BY <1>1 DEF SearchInv, TypeOK, inputVars
<1>3. Known' = Known /\ Numbering' /\ Known' \subseteq Reachable'
  BY <1>1, SameNumbering
<1>4. EdgesAreReal' /\ \A s \in Known, a \in Symbols : Recorded(s, a)' <=> Recorded(s, a)
  BY <1>1, SameTable
<1>5. Frontier'
  BY <1>1, <1>3, <1>4 DEF SearchInv, Frontier, Queued, Expanded
<1>6. Conclusion'
  <2>1. current \in Known /\ sym \in Symbols
    BY <1>1, ExpandingFacts
  <2>2. delta[current, sym] \notin Known /\ delta' = delta /\ maxStates' = maxStates
    BY <1>1 DEF Known, inputVars
  <2>3. \E s \in Known', a \in Symbols : delta'[s, a] \notin Known'
    BY <1>3, <2>1, <2>2
  <2>4. accepting' = {} /\ idCount' >= maxStates'
    BY <1>1, <2>2 DEF SearchInv, Conclusion, Expanding
  <2> QED
    BY <1>1, <2>3, <2>4 DEF Conclusion, Expanding
<1> QED
  BY <1>2, <1>3, <1>4, <1>5, <1>6 DEF SearchInv

LEMMA FinishStateStep == SearchInv /\ FinishState => SearchInv'
<1> SUFFICES ASSUME SearchInv, FinishState
             PROVE  SearchInv'
  OBVIOUS
<1>1. /\ UNCHANGED <<inputVars, idOf, idCount, transitions>>
      /\ UNCHANGED <<phase, queue, sym, truncated, accepting>>
      /\ current' = NoSummary /\ current # NoSummary
      /\ sym > AlphabetSize
      /\ phase = "explore" /\ ~truncated
  BY DEF FinishState
<1>2. TypeOK'
  BY <1>1 DEF SearchInv, TypeOK, inputVars
<1>3. Known' = Known /\ Numbering' /\ Known' \subseteq Reachable'
  BY <1>1, SameNumbering
<1>4. EdgesAreReal' /\ \A s \in Known, a \in Symbols : Recorded(s, a)' <=> Recorded(s, a)
  BY <1>1, SameTable
<1>5. Frontier'
  <2>1. Expanded(current)
    <3>1. \A a \in Symbols : a < sym
      BY <1>1, AlphabetAssumption DEF SearchInv, TypeOK, Symbols
    <3> QED
      BY <1>1, <3>1 DEF SearchInv, Frontier, Expanded
  <2>2. ASSUME NEW s \in Known'
        PROVE  Queued(s)' \/ s = current' \/ Expanded(s)'
    <3>1. CASE Queued(s)
      BY <1>1, <3>1 DEF Queued
    <3>2. CASE Expanded(s) \/ s = current
      BY <1>3, <1>4, <2>1, <3>2 DEF Expanded
    <3> QED
      BY <1>3, <3>1, <3>2 DEF SearchInv, Frontier
  <2> QED
    BY <1>1, <1>3, <2>2 DEF SearchInv, Frontier
<1>6. Conclusion'
  BY <1>1, <1>3 DEF SearchInv, Conclusion, inputVars
<1> QED
  BY <1>2, <1>3, <1>4, <1>5, <1>6 DEF SearchInv

LEMMA FinishExploringStep == SearchInv /\ FinishExploring => SearchInv'
<1> SUFFICES ASSUME SearchInv, FinishExploring
             PROVE  SearchInv'
  OBVIOUS
<1>1. /\ UNCHANGED <<inputVars, idOf, idCount, transitions>>
      /\ UNCHANGED <<queue, current, sym, truncated>>
      /\ phase = "explore" /\ phase' = "explored"
      /\ truncated \/ (current = NoSummary /\ queue = << >>)
      /\ accepting' = IF truncated THEN {} ELSE {idOf[s] : s \in final \cap Known}
  BY DEF FinishExploring
<1>2. TypeOK'
  <2>1. \A s \in Known : idOf[s] \in Nat
    BY DEF SearchInv, TypeOK, Known
  <2>2. accepting' \in SUBSET Nat
    BY <1>1, <2>1
  <2> QED
    BY <1>1, <2>2 DEF SearchInv, TypeOK, inputVars
<1>3. Known' = Known /\ Numbering' /\ Known' \subseteq Reachable'
  BY <1>1, SameNumbering
<1>4. EdgesAreReal' /\ \A s \in Known, a \in Symbols : Recorded(s, a)' <=> Recorded(s, a)
  BY <1>1, SameTable
<1>5. Frontier'
  BY <1>1, <1>3, <1>4 DEF SearchInv, Frontier, Queued, Expanded
<1>6. Conclusion'
  <2>1. delta' = delta /\ maxStates' = maxStates /\ final' = final
    BY <1>1 DEF inputVars
  <2>2. CASE truncated
    BY <1>1, <1>3, <2>1, <2>2 DEF SearchInv, Conclusion
  <2>3. CASE ~truncated
    BY <1>1, <1>3, <2>1, <2>3 DEF SearchInv, Conclusion
  <2> QED
    BY <2>2, <2>3
<1> QED
  BY <1>2, <1>3, <1>4, <1>5, <1>6 DEF SearchInv

LEMMA StutterStep == SearchInv /\ UNCHANGED reachVars => SearchInv'
<1> SUFFICES ASSUME SearchInv, UNCHANGED reachVars
             PROVE  SearchInv'
  OBVIOUS
<1>1. /\ UNCHANGED <<inputVars, idOf, idCount, transitions>>
      /\ UNCHANGED <<phase, queue, current, sym, truncated, accepting>>
  BY DEF reachVars, inputVars
<1>2. Known' = Known /\ Numbering' /\ Known' \subseteq Reachable'
  BY <1>1, SameNumbering
<1>3. EdgesAreReal' /\ \A s \in Known, a \in Symbols : Recorded(s, a)' <=> Recorded(s, a)
  BY <1>1, SameTable
<1>4. TypeOK'
  BY <1>1 DEF SearchInv, TypeOK, inputVars
<1>5. Frontier'
  BY <1>1, <1>2, <1>3 DEF SearchInv, Frontier, Queued, Expanded
<1>6. Conclusion'
  BY <1>1, <1>2 DEF SearchInv, Conclusion, inputVars
<1> QED
  BY <1>2, <1>3, <1>4, <1>5, <1>6 DEF SearchInv

LEMMA SearchInvStep == SearchInv /\ [ExploreStep]_reachVars => SearchInv'
  BY DequeueStep, KnownSuccessorStep, NewSuccessorStep, TruncateStep, FinishStateStep,
     FinishExploringStep, StutterStep DEF ExploreStep

\* SearchInv is inductive.
THEOREM SearchInvHolds == ReachSpec => []SearchInv
  BY InitSearchInv, SearchInvStep, PTL DEF ReachSpec

\* The variables keep their types, whatever the automaton and the budget.
THEOREM TypeCorrect == ReachSpec => []TypeOK
<1>1. SearchInv => TypeOK
  BY DEF SearchInv
<1> QED
  BY <1>1, SearchInvHolds, PTL

\* The numbers of the states are 0..idCount-1, without gaps or repetitions,
\* and the initial summary has 0.
THEOREM NumberingCorrect == ReachSpec => []NumberingIsBijective
<1>1. SearchInv => NumberingIsBijective
  BY DEF SearchInv, Numbering, NumberingIsBijective
<1> QED
  BY <1>1, SearchInvHolds, PTL

LEMMA ExactWhenDone == SearchInv => ExplorationExact
<1> SUFFICES ASSUME SearchInv, phase = "explored", ~truncated
             PROVE  /\ Known = Reachable
                    /\ \A e \in transitions : \E s \in Known, a \in Symbols : e = EdgeOf(s, a)
                    /\ \A s \in Known, a \in Symbols : EdgeOf(s, a) \in transitions
                    /\ accepting = {idOf[s] : s \in final \cap Reachable}
  BY DEF ExplorationExact
<1>1. queue = << >> /\ current = NoSummary /\ accepting = {idOf[s] : s \in final \cap Known}
  BY DEF SearchInv, Conclusion
<1>2. ASSUME NEW s \in Known
      PROVE  Expanded(s)
  <2>1. ~Queued(s)
    BY <1>1 DEF Queued
  <2>2. s # current
    BY <1>1, NoSummaryAssumption DEF Known
  <2> QED
    BY <2>1, <2>2 DEF SearchInv, Frontier
<1>3. Closed(Known)
  BY <1>2 DEF Expanded, Recorded, Closed
<1>4. Start \in Known /\ Known \in SUBSET Summaries
  BY StartAssumption DEF SearchInv, Numbering, Known, NoId
<1>5. Known = Reachable
  BY <1>3, <1>4, ReachableIsLeast DEF SearchInv
<1>6. \A e \in transitions : \E s \in Known, a \in Symbols : e = EdgeOf(s, a)
  BY DEF SearchInv, EdgesAreReal, EdgeOf
<1>7. \A s \in Known, a \in Symbols : EdgeOf(s, a) \in transitions
  BY <1>2 DEF Expanded, Recorded, EdgeOf
<1> QED
  BY <1>1, <1>5, <1>6, <1>7

\* An exploration that ends without giving up has numbered the reachable
\* summaries, all of them and no other, with every edge and exactly the
\* accepting states: PROVED and NOT PROVED rest on this table.
THEOREM ExplorationCorrect == ReachSpec => []ExplorationExact
  BY ExactWhenDone, SearchInvHolds, PTL

\* A search that gave up left a reachable summary without a number.
LEMMA TruncatedForCause == SearchInv => TruncationJustified
<1> SUFFICES ASSUME SearchInv, truncated
             PROVE  Known # Reachable /\ idCount >= maxStates /\ accepting = {}
  BY DEF TruncationJustified
<1>1. PICK s \in Known, a \in Symbols : delta[s, a] \notin Known
  BY DEF SearchInv, Conclusion
<1>2. delta[s, a] \in Reachable
  BY <1>1, ReachableIsClosed DEF SearchInv
<1> QED
  BY <1>1, <1>2 DEF SearchInv, Conclusion

\* A truncation is never spurious: a reachable summary is missing, the budget
\* is used up, and no state is classified.
THEOREM TruncationCorrect == ReachSpec => []TruncationJustified
  BY TruncatedForCause, SearchInvHolds, PTL

\* No step renumbers a summary, removes an edge or takes a truncation back.
THEOREM NumbersStable == ReachSpec => NumbersAreStable
<1> DEFINE Stable == /\ \A s \in Known : idOf'[s] = idOf[s]
                     /\ transitions \subseteq transitions'
                     /\ truncated => truncated'
<1>1. SearchInv /\ [ExploreStep]_reachVars => [Stable]_reachVars
  <2> SUFFICES ASSUME SearchInv, ExploreStep
               PROVE  Stable
    OBVIOUS
  <2>1. CASE Dequeue
    BY <2>1 DEF Dequeue
  <2>2. CASE KnownSuccessor
    BY <2>2 DEF KnownSuccessor
  <2>3. CASE NewSuccessor
    <3>1. idOf[delta[current, sym]] = NoId /\ idOf' = [idOf EXCEPT ![delta[current, sym]] = idCount]
      BY <2>3 DEF NewSuccessor, Number
    <3>2. \A s \in Known : idOf'[s] = idOf[s]
      BY <3>1 DEF Known, SearchInv, TypeOK
    <3> QED
      BY <2>3, <3>2 DEF NewSuccessor, Number
  <2>4. CASE Truncate
    BY <2>4 DEF Truncate
  <2>5. CASE FinishState
    BY <2>5 DEF FinishState
  <2>6. CASE FinishExploring
    BY <2>6 DEF FinishExploring
  <2> QED
    BY <2>1, <2>2, <2>3, <2>4, <2>5, <2>6 DEF ExploreStep
<1> QED
  BY <1>1, SearchInvHolds, PTL DEF ReachSpec, NumbersAreStable

-----------------------------------------------------------------------------
(***************************************************************************)
(* The order of the queue.  Between two symbols the summary being expanded *)
(* is the one numbered just before the head of the queue.                  *)
(***************************************************************************)

Ordered ==
    /\ \A i \in 1..Len(queue) : idOf[queue[i]] = idCount - Len(queue) + i - 1
    /\ current # NoSummary => idOf[current] = idCount - Len(queue) - 1

LEMMA InitOrdered == ReachInit => Ordered
<1> SUFFICES ASSUME ReachInit
             PROVE  Ordered
  OBVIOUS
<1>1. idOf[Start] = 0 /\ idCount = 1 /\ queue = <<Start>> /\ current = NoSummary
  BY StartAssumption DEF ReachInit
<1> QED
  BY <1>1 DEF Ordered

LEMMA OrderedStep ==
    ASSUME SearchInv, Ordered, [ExploreStep]_reachVars
    PROVE  Ordered'
<1>1. CASE UNCHANGED <<idOf, idCount, queue>> /\ (current' = current \/ current' = NoSummary)
  BY <1>1 DEF Ordered
<1>2. CASE Dequeue
  <2>1. queue \in Seq(Summaries) /\ queue # << >> /\ idCount \in Nat
    BY <1>2 DEF SearchInv, TypeOK, Dequeue
  <2>2. /\ current' = queue[1]
        /\ Len(queue') = Len(queue) - 1
        /\ \A i \in 1..Len(queue') : queue'[i] = queue[i + 1]
        /\ Len(queue) \in Nat \ {0}
    BY <1>2, <2>1 DEF Dequeue
  <2>3. idOf' = idOf /\ idCount' = idCount
    BY <1>2 DEF Dequeue
  <2>4. idOf'[current'] = idCount' - Len(queue') - 1
    <3>1. idOf[queue[1]] = idCount - Len(queue) + 1 - 1
      BY <2>2 DEF Ordered
    <3> QED
      BY <2>1, <2>2, <2>3, <3>1
  <2>5. ASSUME NEW i \in 1..Len(queue')
        PROVE  idOf'[queue'[i]] = idCount' - Len(queue') + i - 1
    <3>1. i + 1 \in 1..Len(queue) /\ queue'[i] = queue[i + 1]
      BY <2>2
    <3>2. idOf[queue[i + 1]] = idCount - Len(queue) + (i + 1) - 1
      BY <3>1 DEF Ordered
    <3> QED
      BY <2>1, <2>2, <2>3, <3>1, <3>2
  <2> QED
    BY <2>4, <2>5 DEF Ordered
<1>3. CASE NewSuccessor
  <2> DEFINE next == delta[current, sym]
  <2>1. /\ queue \in Seq(Summaries) /\ idCount \in Nat
        /\ idOf \in [Summaries -> Nat \cup {NoId}]
    BY DEF SearchInv, TypeOK
  <2>2. next \in Summaries /\ current \in Known
    BY <1>3, ExpandingFacts DEF NewSuccessor, Number
  <2>3. /\ queue' = Append(queue, next) /\ current' = current
        /\ idOf' = [idOf EXCEPT ![next] = idCount] /\ idCount' = idCount + 1
        /\ idOf[next] = NoId
    BY <1>3 DEF NewSuccessor, Number
  <2> HIDE DEF next
  <2>4. idOf'[next] = idCount /\ \A s \in Known : idOf'[s] = idOf[s]
    BY <2>1, <2>2, <2>3 DEF Known
  <2>5. /\ Len(queue') = Len(queue) + 1
        /\ \A i \in 1..Len(queue) : queue'[i] = queue[i]
        /\ queue'[Len(queue) + 1] = next
        /\ Len(queue) \in Nat
    BY <2>1, <2>2, <2>3
  <2>6. current # NoSummary => idOf'[current'] = idCount' - Len(queue') - 1
    BY <2>1, <2>2, <2>3, <2>4, <2>5 DEF Ordered
  <2>7. ASSUME NEW i \in 1..Len(queue')
        PROVE  idOf'[queue'[i]] = idCount' - Len(queue') + i - 1
    <3>1. CASE i = Len(queue) + 1
      BY <2>1, <2>3, <2>4, <2>5, <3>1
    <3>2. CASE i \in 1..Len(queue)
      <4>1. queue[i] \in Known /\ idOf[queue[i]] = idCount - Len(queue) + i - 1
        BY <3>2 DEF SearchInv, Frontier, Ordered
      <4> QED
        BY <2>1, <2>3, <2>4, <2>5, <3>2, <4>1
    <3> QED
      BY <2>5, <3>1, <3>2
  <2> QED
    BY <2>3, <2>6, <2>7 DEF Ordered
<1> QED
  BY <1>1, <1>2, <1>3 DEF ExploreStep, KnownSuccessor, Truncate, FinishState, FinishExploring, reachVars

\* Summaries are expanded in the order in which they were numbered: the
\* search is breadth-first.
THEOREM QueueOrdered == ReachSpec => []QueueIsFrontier
<1>1. SearchInv /\ Ordered /\ [ExploreStep]_reachVars => Ordered'
  BY OrderedStep
<1>2. Ordered => QueueIsFrontier
  BY DEF Ordered, QueueIsFrontier
<1> QED
  BY <1>1, <1>2, InitOrdered, SearchInvHolds, PTL DEF ReachSpec

-----------------------------------------------------------------------------
(***************************************************************************)
(* The verdict: NativeCheck implements EmptinessCheck, that is, the one    *)
(* verdict given is UNKNOWN or right about the words it counts (that it    *)
(* comes is liveness and is checked by TLC, as KeepsPromise), and a NOT    *)
(* PROVED carries a shortest counterexample.                               *)
(*                                                                         *)
(* NativeInv adds to SearchInv what the second search owes to the table it *)
(* walks over: a visited state is waiting in its queue, or being expanded  *)
(* (its edges below wsym lead to visited states), or expanded, and no      *)
(* visited state but the initial one is accepting until a target is found. *)
(* WitnessInv adds the levels of the breadth-first search, which no        *)
(* variable holds: the distances d of the visited states from the initial  *)
(* one.                                                                    *)
(***************************************************************************)

Waiting(i) == \E k \in 1..Len(wqueue) : wqueue[k] = i

Followed(i, a) == Targets(i, a) \subseteq visited

WitnessTypes ==
    /\ visited \subseteq Nat
    /\ wqueue \in Seq(Nat)
    /\ wstate \in Nat \cup {NoState}
    /\ wsym \in Nat
    /\ target \in Nat \cup {NoState}

NotBegun ==
    stage = "explore" =>
        /\ visited = {dfaInitial}
        /\ wqueue = <<dfaInitial>>
        /\ wstate = NoState
        /\ target = NoState

SearchFront ==
    /\ dfaInitial \in visited
    /\ \A i \in visited : i \in accepting => i = dfaInitial
    /\ wstate # NoState => \A a \in Symbols : a < wsym => Followed(wstate, a)
    /\ \A i \in visited : Waiting(i) \/ i = wstate \/ \A a \in Symbols : Followed(i, a)

TargetCounts == target # NoState => target \in accepting /\ target # dfaInitial

Stages ==
    /\ stage # "explore" => phase = "explored"
    /\ stage \in {"witness", "trace"} => ~truncated
    /\ stage = "trace" => target # NoState
    /\ stage # "done" => verdict = "pending"
    /\ verdict = "PROVED" =>
        /\ phase = "explored" /\ ~truncated
        /\ target = NoState /\ wstate = NoState /\ wqueue = << >>
    /\ verdict = "NOT PROVED" => phase = "explored" /\ ~truncated /\ target # NoState

NativeInv ==
    /\ SearchInv
    /\ WitnessTypes
    /\ NotBegun
    /\ target = NoState => SearchFront
    /\ TargetCounts
    /\ Stages

-----------------------------------------------------------------------------
(***************************************************************************)
(* About the table and about words.                                        *)
(***************************************************************************)

\* A state has at most one successor on a symbol.
LEMMA TableIsDeterministic ==
    ASSUME SearchInv, NEW i, NEW a, NEW j \in Targets(i, a), NEW k \in Targets(i, a)
    PROVE  j = k
<1>1. <<i, a, j>> \in transitions /\ <<i, a, k>> \in transitions
  BY DEF Targets
<1>2. PICK s \in Known, b \in Symbols : <<i, a, j>> = <<idOf[s], b, idOf[delta[s, b]]>>
  BY <1>1 DEF SearchInv, EdgesAreReal
<1>3. PICK t \in Known, c \in Symbols : <<i, a, k>> = <<idOf[t], c, idOf[delta[t, c]]>>
  BY <1>1 DEF SearchInv, EdgesAreReal
<1>4. s = t /\ b = c
  BY <1>2, <1>3 DEF SearchInv, Numbering
<1> QED
  BY <1>2, <1>3, <1>4

\* A reachable summary other than the initial one is reached by a nonempty word.
LEMMA ReachableOtherwise ==
    ASSUME TypeOK
    PROVE  /\ ReachableByNonempty \subseteq Reachable
           /\ \A s \in Reachable : s # Start => s \in ReachableByNonempty
<1> DEFINE Seeds == {delta[Start, a] : a \in Symbols}
           R == ReachableByNonempty
<1>1. R \subseteq Reachable
  <2>1. ASSUME NEW C \in SUBSET Summaries, {Start} \subseteq C, Closed(C)
        PROVE  R \subseteq C
    <3>1. Seeds \subseteq C
      BY <2>1 DEF Closed
    <3> QED
      BY <2>1, <3>1 DEF ReachableByNonempty, ReachableFrom
  <2>2. R \subseteq Summaries
    BY DEF ReachableByNonempty, ReachableFrom
  <2> QED
    BY <2>1, <2>2 DEF Reachable, ReachableFrom
<1>2. Seeds \subseteq R
  <2>1. Seeds \subseteq Summaries
    BY StartAssumption DEF TypeOK
  <2> QED
    BY <2>1 DEF ReachableByNonempty, ReachableFrom
<1>3. Closed(R)
  <2> SUFFICES ASSUME NEW s \in R, NEW a \in Symbols
               PROVE  delta[s, a] \in R
    BY DEF Closed
  <2>1. s \in Summaries /\ delta[s, a] \in Summaries
    BY DEF TypeOK, ReachableByNonempty, ReachableFrom
  <2>2. ASSUME NEW C \in SUBSET Summaries, Seeds \subseteq C, Closed(C)
        PROVE  delta[s, a] \in C
    <3>1. s \in C
      BY <2>2 DEF ReachableByNonempty, ReachableFrom
    <3> QED
      BY <2>2, <3>1 DEF Closed
  <2> QED
    BY <2>1, <2>2 DEF ReachableByNonempty, ReachableFrom
<1>4. Reachable \subseteq R \cup {Start}
  <2>1. R \cup {Start} \in SUBSET Summaries
    BY StartAssumption DEF ReachableByNonempty, ReachableFrom
  <2>2. Closed(R \cup {Start})
    BY <1>2, <1>3 DEF Closed
  <2> QED
    BY <2>1, <2>2, ReachableIsLeast
<1> QED
  BY <1>1, <1>4

\* A target is the number of a summary that counts.
LEMMA TargetMeansAccepted ==
    ASSUME SearchInv, TargetCounts, phase = "explored", ~truncated, target # NoState
    PROVE  CountedAsAccepted
<1>1. accepting = {idOf[s] : s \in final \cap Reachable} /\ Known = Reachable
  BY ExactWhenDone DEF ExplorationExact
<1>2. PICK s \in final \cap Reachable : idOf[s] = target
  BY <1>1 DEF TargetCounts
<1>3. s # Start
  BY <1>2 DEF TargetCounts, SearchInv, Numbering, dfaInitial
<1>4. s \in ReachableByNonempty
  BY <1>2, <1>3, ReachableOtherwise DEF SearchInv
<1> QED
  BY <1>2, <1>3, <1>4 DEF CountedAsAccepted

\* When the search has run dry, the visited states are all there are.
LEMMA ProvedMeansNone ==
    ASSUME NativeInv, verdict = "PROVED"
    PROVE  ~CountedAsAccepted
<1>1. /\ phase = "explored" /\ ~truncated
      /\ target = NoState /\ wstate = NoState /\ wqueue = << >>
  BY DEF NativeInv, Stages
<1>2. SearchInv /\ SearchFront /\ visited \subseteq Nat
  BY <1>1 DEF NativeInv, WitnessTypes
<1>3. /\ Known = Reachable
      /\ \A s \in Known, a \in Symbols : EdgeOf(s, a) \in transitions
      /\ accepting = {idOf[s] : s \in final \cap Reachable}
  BY <1>1, <1>2, ExactWhenDone DEF ExplorationExact
<1>4. \A i \in visited, a \in Symbols : Followed(i, a)
  <2>1. 1..Len(wqueue) = {}
    BY <1>1
  <2> QED
    BY <1>1, <1>2, <2>1 DEF SearchFront, Waiting, NoState
<1> DEFINE C == {s \in Known : idOf[s] \in visited}
<1>5. Start \in C
  BY <1>2, StartAssumption DEF SearchInv, Numbering, Known, NoId, SearchFront, dfaInitial
<1>6. Closed(C)
  <2> SUFFICES ASSUME NEW s \in C, NEW a \in Symbols
               PROVE  delta[s, a] \in C
    BY DEF Closed
  <2>1. delta[s, a] \in Known
    BY <1>2, <1>3, ReachableIsClosed DEF SearchInv
  <2>2. idOf[delta[s, a]] \in 0..(idCount - 1)
    <3>1. idOf[delta[s, a]] \in Nat /\ idCount \in Nat
      BY <1>2, <2>1 DEF SearchInv, TypeOK, Known
    <3>2. idOf[delta[s, a]] < idCount
      BY <1>2, <2>1 DEF SearchInv, Numbering
    <3>3. \A m, n \in Nat : m < n => m \in 0..(n - 1)
      OBVIOUS
    <3> QED
      BY <3>1, <3>2, <3>3
  <2>3. idOf[delta[s, a]] \in Targets(idOf[s], a)
    BY <1>3, <2>2 DEF Targets, EdgeOf
  <2>4. Followed(idOf[s], a)
    BY <1>4
  <2> QED
    BY <2>1, <2>3, <2>4 DEF Followed
<1>7. Reachable \subseteq C
  BY <1>5, <1>6, ReachableIsLeast DEF Known
<1>8. ASSUME NEW s \in ReachableByNonempty \cap final
      PROVE  s = Start
  <2>1. s \in Reachable
    BY <1>2, ReachableOtherwise DEF SearchInv
  <2>2. idOf[s] \in visited /\ idOf[s] \in accepting
    BY <1>3, <1>7, <2>1
  <2>3. idOf[s] = idOf[Start]
    BY <1>2, <2>2 DEF SearchFront, SearchInv, Numbering, dfaInitial
  <2> QED
    BY <1>2, <1>3, <1>5, <2>1, <2>3 DEF SearchInv, Numbering
<1> QED
  BY <1>8 DEF CountedAsAccepted

-----------------------------------------------------------------------------
(***************************************************************************)
(* The steps.                                                              *)
(***************************************************************************)

LEMMA InitNativeInv == NativeInit => NativeInv
<1> SUFFICES ASSUME NativeInit
             PROVE  NativeInv
  OBVIOUS
<1>1. SearchInv /\ accepting = {} /\ phase = "explore"
  BY InitSearchInv DEF NativeInit, ReachInit
<1>2. /\ stage = "explore" /\ visited = {dfaInitial} /\ wqueue = <<dfaInitial>>
      /\ wstate = NoState /\ wsym = 1 /\ target = NoState /\ verdict = "pending"
  BY DEF NativeInit
<1>3. 1 \in 1..Len(wqueue) /\ wqueue[1] = dfaInitial /\ wqueue \in Seq(Nat)
  BY <1>2 DEF dfaInitial
<1>4. WitnessTypes
  BY <1>2, <1>3 DEF WitnessTypes, dfaInitial
<1>5. SearchFront
  BY <1>1, <1>2, <1>3 DEF SearchFront, Waiting
<1> QED
  BY <1>1, <1>2, <1>4, <1>5 DEF NativeInv, NotBegun, TargetCounts, Stages

\* A step of the second search or after it leaves the table alone.
LEMMA TableStays ==
    ASSUME SearchInv, UNCHANGED <<inputVars, searchVars>>
    PROVE  /\ SearchInv'
           /\ phase' = phase /\ truncated' = truncated /\ accepting' = accepting
           /\ \A i, a : Targets(i, a)' = Targets(i, a)
<1>1. UNCHANGED reachVars
  BY DEF inputVars, searchVars, reachVars
<1>2. SearchInv'
  BY <1>1, StutterStep
<1>3. \A i, a : Targets(i, a)' = Targets(i, a)
  BY DEF searchVars, Targets
<1> QED
  BY <1>2, <1>3 DEF searchVars

LEMMA ExplorePreserves == NativeInv /\ Explore => NativeInv'
<1> SUFFICES ASSUME NativeInv, Explore
             PROVE  NativeInv'
  OBVIOUS
<1>1. /\ stage = "explore" /\ stage' = stage /\ visited' = visited /\ wqueue' = wqueue
      /\ wstate' = wstate /\ wsym' = wsym /\ target' = target /\ verdict' = verdict
  BY DEF Explore, witnessVars
<1>2. SearchInv'
  BY SearchInvStep DEF NativeInv, Explore
<1>3. /\ visited = {dfaInitial} /\ wqueue = <<dfaInitial>>
      /\ wstate = NoState /\ target = NoState /\ verdict = "pending"
  BY <1>1 DEF NativeInv, NotBegun, Stages
<1>4. WitnessTypes'
  BY <1>1 DEF NativeInv, WitnessTypes
<1>5. SearchFront'
  <2>1. 1 \in 1..Len(wqueue') /\ wqueue'[1] = dfaInitial
    BY <1>1, <1>3 DEF dfaInitial
  <2> QED
    BY <1>1, <1>3, <2>1 DEF SearchFront, Waiting
<1> QED
  BY <1>1, <1>2, <1>3, <1>4, <1>5 DEF NativeInv, NotBegun, TargetCounts, Stages

\* A step that only turns the page.
LEMMA QuietStep ==
    ASSUME NativeInv, UNCHANGED <<inputVars, searchVars, visited, wqueue, wstate, wsym, target>>,
           stage' # "explore", Stages'
    PROVE  NativeInv'
<1>1. /\ SearchInv'
      /\ phase' = phase /\ truncated' = truncated /\ accepting' = accepting
      /\ \A i, a : Targets(i, a)' = Targets(i, a)
  BY TableStays DEF NativeInv
<1>2. /\ visited' = visited /\ wqueue' = wqueue
      /\ wstate' = wstate /\ wsym' = wsym /\ target' = target
  OBVIOUS
<1>3. WitnessTypes' /\ TargetCounts'
  BY <1>1, <1>2 DEF NativeInv, WitnessTypes, TargetCounts
<1>4. SearchFront => SearchFront'
  BY <1>1, <1>2 DEF SearchFront, Waiting, Followed
<1> QED
  BY <1>1, <1>2, <1>3, <1>4 DEF NativeInv, NotBegun

LEMMA BeginWitnessPreserves == NativeInv /\ BeginWitness => NativeInv'
<1> SUFFICES ASSUME NativeInv, BeginWitness
             PROVE  NativeInv'
  OBVIOUS
<1>1. /\ UNCHANGED <<inputVars, searchVars, visited, wqueue, wstate, wsym, target>>
      /\ phase' = phase /\ truncated' = truncated
  BY DEF BeginWitness, searchVars
<1>2. /\ stage' = IF truncated THEN "done" ELSE "witness"
      /\ verdict' = IF truncated THEN "UNKNOWN" ELSE verdict
      /\ phase = "explored" /\ verdict = "pending"
  BY DEF BeginWitness, NativeInv, Stages
<1>3. Stages'
  BY <1>1, <1>2 DEF Stages
<1> QED
  BY <1>1, <1>2, <1>3, QuietStep

LEMMA EndingPreserves ==
    NativeInv /\ (WitnessFound \/ WitnessNone \/ TraceBack \/ TraceDone) => NativeInv'
<1> SUFFICES ASSUME NativeInv, WitnessFound \/ WitnessNone \/ TraceBack \/ TraceDone
             PROVE  NativeInv'
  OBVIOUS
<1>1. /\ UNCHANGED <<inputVars, searchVars, visited, wqueue, wstate, wsym, target>>
      /\ phase' = phase /\ truncated' = truncated
      /\ wqueue' = wqueue /\ wstate' = wstate /\ target' = target
  BY DEF WitnessFound, WitnessNone, TraceBack, TraceDone, searchVars
<1>2. stage \in {"witness", "trace"} /\ phase = "explored" /\ ~truncated /\ verdict = "pending"
  BY DEF WitnessFound, WitnessNone, TraceBack, TraceDone, Searching, NativeInv, Stages
<1>3. stage' # "explore" /\ Stages'
  <2>1. CASE WitnessFound \/ TraceBack
    BY <1>1, <1>2, <2>1 DEF WitnessFound, TraceBack, NativeInv, Stages
  <2>2. CASE WitnessNone
    BY <1>1, <1>2, <2>2 DEF WitnessNone, Searching, Stages
  <2>3. CASE TraceDone
    BY <1>1, <1>2, <2>3 DEF TraceDone, NativeInv, Stages
  <2> QED
    BY <2>1, <2>2, <2>3
<1> QED
  BY <1>1, <1>3, QuietStep

LEMMA WitnessDequeuePreserves == NativeInv /\ WitnessDequeue => NativeInv'
<1> SUFFICES ASSUME NativeInv, WitnessDequeue
             PROVE  NativeInv'
  OBVIOUS
<1>1. /\ UNCHANGED <<inputVars, searchVars>> /\ visited' = visited /\ target' = target
      /\ stage' = stage /\ verdict' = verdict /\ wsym' = 1
      /\ stage = "witness" /\ target = NoState /\ wstate = NoState
  BY DEF WitnessDequeue, Searching
<1>2. /\ SearchInv'
      /\ phase' = phase /\ truncated' = truncated /\ accepting' = accepting
      /\ \A i, a : Targets(i, a)' = Targets(i, a)
  BY <1>1, TableStays DEF NativeInv
<1>3. wqueue \in Seq(Nat) /\ wqueue # << >>
  BY DEF NativeInv, WitnessTypes, WitnessDequeue
<1>4. /\ wstate' = wqueue[1] /\ wstate' \in Nat
      /\ wqueue' \in Seq(Nat)
      /\ Len(wqueue') = Len(wqueue) - 1
      /\ \A k \in 1..Len(wqueue') : wqueue'[k] = wqueue[k + 1]
      /\ Len(wqueue) \in Nat \ {0}
  BY <1>3 DEF WitnessDequeue
<1>5. WitnessTypes' /\ TargetCounts'
  BY <1>1, <1>4 DEF NativeInv, WitnessTypes, TargetCounts
<1>6. NotBegun' /\ Stages'
  BY <1>1, <1>2 DEF NativeInv, NotBegun, Stages
<1>7. SearchFront'
  <2>1. SearchFront
    BY <1>1 DEF NativeInv
  <2>2. dfaInitial \in visited' /\ \A i \in visited' : i \in accepting' => i = dfaInitial
    BY <1>1, <1>2, <2>1 DEF SearchFront
  <2>3. ~\E a \in Symbols : a < wsym'
    BY <1>1, AlphabetAssumption DEF Symbols
  <2>4. ASSUME NEW i \in visited', ~\A a \in Symbols : Followed(i, a)'
        PROVE  Waiting(i)' \/ i = wstate'
    <3>1. Waiting(i) \/ i = wstate
      BY <1>1, <1>2, <2>1, <2>4 DEF SearchFront, Followed
    <3>2. i # wstate
      BY <1>1, <2>4 DEF NativeInv, WitnessTypes, NoState
    <3>3. PICK k \in 1..Len(wqueue) : wqueue[k] = i
      BY <3>1, <3>2 DEF Waiting
    <3>4. CASE k = 1
      BY <1>4, <3>3, <3>4
    <3>5. CASE k # 1
      <4>1. k - 1 \in 1..Len(wqueue') /\ wqueue'[k - 1] = i
        BY <1>4, <3>3, <3>5
      <4> QED
        BY <4>1 DEF Waiting
    <3> QED
      BY <3>4, <3>5
  <2> QED
    BY <2>2, <2>3, <2>4 DEF SearchFront
<1> QED
  BY <1>2, <1>5, <1>6, <1>7 DEF NativeInv

LEMMA WitnessSkipPreserves == NativeInv /\ WitnessSkip => NativeInv'
<1> SUFFICES ASSUME NativeInv, WitnessSkip
             PROVE  NativeInv'
  OBVIOUS
<1>1. /\ UNCHANGED <<inputVars, searchVars>> /\ visited' = visited /\ wqueue' = wqueue
      /\ wstate' = wstate /\ target' = target /\ stage' = stage /\ verdict' = verdict
      /\ stage = "witness" /\ target = NoState
      /\ wsym \in Symbols /\ wsym' = wsym + 1 /\ Followed(wstate, wsym)
  BY DEF WitnessSkip, Searching, Followed
<1>2. /\ SearchInv'
      /\ phase' = phase /\ truncated' = truncated /\ accepting' = accepting
      /\ \A i, a : Targets(i, a)' = Targets(i, a)
  BY <1>1, TableStays DEF NativeInv
<1>3. \A a \in Symbols : a < wsym' => a < wsym \/ a = wsym
  BY <1>1, SymbolsAreNumbers
<1>4. wsym' \in Nat
  BY <1>1, SymbolsAreNumbers
<1>5. WitnessTypes' /\ TargetCounts'
  BY <1>1, <1>4 DEF NativeInv, WitnessTypes, TargetCounts
<1>6. NotBegun' /\ Stages'
  BY <1>1, <1>2 DEF NativeInv, NotBegun, Stages
<1>7. SearchFront'
  <2>1. SearchFront
    BY <1>1 DEF NativeInv
  <2>2. \A i, a : Followed(i, a)' <=> Followed(i, a)
    BY <1>1, <1>2 DEF Followed
  <2>3. wstate' # NoState => \A a \in Symbols : a < wsym' => Followed(wstate', a)
    BY <1>1, <1>3, <2>1 DEF SearchFront
  <2> QED
    BY <1>1, <1>2, <2>1, <2>2, <2>3 DEF SearchFront, Waiting
<1> QED
  BY <1>2, <1>5, <1>6, <1>7 DEF NativeInv

LEMMA WitnessNextStatePreserves == NativeInv /\ WitnessNextState => NativeInv'
<1> SUFFICES ASSUME NativeInv, WitnessNextState
             PROVE  NativeInv'
  OBVIOUS
<1>1. /\ UNCHANGED <<inputVars, searchVars>> /\ visited' = visited /\ wqueue' = wqueue
      /\ wstate # NoState /\ wstate' = NoState /\ target' = target
      /\ stage' = stage /\ verdict' = verdict /\ wsym' = 1
      /\ stage = "witness" /\ target = NoState /\ wsym > AlphabetSize
  BY DEF WitnessNextState, Searching
<1>2. /\ SearchInv'
      /\ phase' = phase /\ truncated' = truncated /\ accepting' = accepting
      /\ \A i, a : Targets(i, a)' = Targets(i, a)
  BY <1>1, TableStays DEF NativeInv
<1>3. \A a \in Symbols : a < wsym
  BY <1>1, AlphabetAssumption DEF NativeInv, WitnessTypes, Symbols
<1>4. WitnessTypes' /\ TargetCounts'
  BY <1>1 DEF NativeInv, WitnessTypes, TargetCounts
<1>5. NotBegun' /\ Stages'
  BY <1>1, <1>2 DEF NativeInv, NotBegun, Stages
<1>6. SearchFront'
  <2>1. SearchFront
    BY <1>1 DEF NativeInv
  <2>2. \A i, a : Followed(i, a)' <=> Followed(i, a)
    BY <1>1, <1>2 DEF Followed
  <2>3. \A i \in visited : Waiting(i) \/ \A a \in Symbols : Followed(i, a)
    BY <1>1, <1>3, <2>1 DEF SearchFront
  <2> QED
    BY <1>1, <1>2, <2>1, <2>2, <2>3 DEF SearchFront, Waiting
<1> QED
  BY <1>2, <1>4, <1>5, <1>6 DEF NativeInv

LEMMA WitnessVisitPreserves == NativeInv /\ WitnessVisit => NativeInv'
<1> SUFFICES ASSUME NativeInv, WitnessVisit
             PROVE  NativeInv'
  OBVIOUS
<1>1. /\ UNCHANGED <<inputVars, searchVars>>
      /\ wstate' = wstate /\ stage' = stage /\ verdict' = verdict
      /\ stage = "witness" /\ target = NoState /\ wstate # NoState
      /\ wsym \in Symbols /\ wsym' = wsym + 1
  BY DEF WitnessVisit, Searching
<1>2. /\ SearchInv'
      /\ phase' = phase /\ truncated' = truncated /\ accepting' = accepting
      /\ \A i, a : Targets(i, a)' = Targets(i, a)
  BY <1>1, TableStays DEF NativeInv
<1>3. PICK next \in Targets(wstate, wsym) \ visited :
        /\ visited' = visited \cup {next}
        /\ \/ next \in accepting /\ target' = next /\ wqueue' = wqueue
           \/ next \notin accepting /\ wqueue' = Append(wqueue, next) /\ target' = target
  BY DEF WitnessVisit
<1>4. next \in Nat /\ next # NoState
  <2>1. \A m : m \in 0..(idCount - 1) => m \in Nat /\ m # -1
    OBVIOUS
  <2> QED
    BY <2>1 DEF Targets, NoState
<1>5. /\ SearchFront /\ WitnessTypes /\ next # dfaInitial
      /\ \A a \in Symbols : a < wsym' => a < wsym \/ a = wsym
      /\ wsym' \in Nat
  BY <1>1, <1>3, SymbolsAreNumbers DEF NativeInv, SearchFront
<1>6. wqueue \in Seq(Nat)
  BY <1>5 DEF WitnessTypes
<1>7. \A k \in Targets(wstate, wsym) : k = next
  BY <1>3, TableIsDeterministic DEF NativeInv
<1>8. /\ \A i, a : Followed(i, a) => Followed(i, a)'
      /\ \A i, a : Targets(i, a) \subseteq visited' => Followed(i, a)'
  BY <1>2, <1>3 DEF Followed
<1>9. NotBegun' /\ Stages'
  BY <1>1, <1>2 DEF NativeInv, NotBegun, Stages
<1>10. CASE next \in accepting
  <2>1. target' = next /\ wqueue' = wqueue
    BY <1>3, <1>10
  <2>2. WitnessTypes'
    BY <1>1, <1>3, <1>4, <1>5, <2>1 DEF WitnessTypes
  <2> QED
    BY <1>2, <1>4, <1>5, <1>9, <1>10, <2>1, <2>2 DEF NativeInv, TargetCounts
<1>11. CASE next \notin accepting
  <2>1. wqueue' = Append(wqueue, next) /\ target' = NoState
    BY <1>1, <1>3, <1>11
  <2>2. /\ wqueue' \in Seq(Nat)
        /\ \A k \in 1..Len(wqueue) : k \in 1..Len(wqueue') /\ wqueue'[k] = wqueue[k]
        /\ Len(wqueue') \in 1..Len(wqueue') /\ wqueue'[Len(wqueue')] = next
    BY <1>4, <1>6, <2>1
  <2>3. WitnessTypes'
    BY <1>1, <1>3, <1>4, <1>5, <2>1, <2>2 DEF WitnessTypes
  <2>4. Waiting(next)' /\ \A i : Waiting(i) => Waiting(i)'
    BY <2>2 DEF Waiting
  <2>5. SearchFront'
    <3>1. dfaInitial \in visited' /\ \A i \in visited' : i \in accepting' => i = dfaInitial
      BY <1>2, <1>3, <1>5, <1>11 DEF SearchFront
    <3>2. ASSUME NEW a \in Symbols, a < wsym'
          PROVE  Targets(wstate', a) \subseteq visited'
      <4>1. CASE a < wsym
        BY <1>1, <1>3, <1>5, <4>1 DEF SearchFront, Followed
      <4>2. CASE a = wsym
        BY <1>1, <1>3, <1>7, <4>2
      <4> QED
        BY <1>5, <3>2, <4>1, <4>2
    <3>3. ASSUME NEW i \in visited'
          PROVE  Waiting(i)' \/ i = wstate \/ \A a \in Symbols : Followed(i, a)'
      BY <1>3, <1>5, <1>8, <2>4 DEF SearchFront
    <3> QED
      BY <1>1, <1>8, <3>1, <3>2, <3>3 DEF SearchFront
  <2> QED
    BY <1>2, <1>9, <2>1, <2>3, <2>5 DEF NativeInv, TargetCounts
<1> QED
  BY <1>10, <1>11

LEMMA StutterPreserves == NativeInv /\ UNCHANGED nativeVars => NativeInv'
<1> SUFFICES ASSUME NativeInv, UNCHANGED nativeVars
             PROVE  NativeInv'
  OBVIOUS
<1>1. /\ UNCHANGED <<inputVars, searchVars>>
      /\ visited' = visited /\ wqueue' = wqueue /\ wstate' = wstate /\ wsym' = wsym
      /\ target' = target /\ stage' = stage /\ verdict' = verdict
  BY DEF nativeVars, inputVars, searchVars
<1>2. /\ SearchInv'
      /\ phase' = phase /\ truncated' = truncated /\ accepting' = accepting
      /\ \A i, a : Targets(i, a)' = Targets(i, a)
  BY <1>1, TableStays DEF NativeInv
<1>3. WitnessTypes' /\ TargetCounts' /\ NotBegun' /\ Stages'
  BY <1>1, <1>2 DEF NativeInv, WitnessTypes, TargetCounts, NotBegun, Stages
<1>4. SearchFront => SearchFront'
  BY <1>1, <1>2 DEF SearchFront, Waiting, Followed
<1> QED
  BY <1>1, <1>2, <1>3, <1>4 DEF NativeInv

-----------------------------------------------------------------------------

\* NativeInv is inductive.
THEOREM NativeInvHolds == NativeSpec => []NativeInv
<1>1. NativeInv /\ [NativeNext]_nativeVars => NativeInv'
  BY ExplorePreserves, BeginWitnessPreserves, WitnessDequeuePreserves, WitnessSkipPreserves,
     WitnessVisitPreserves, WitnessNextStatePreserves, EndingPreserves, StutterPreserves
     DEF NativeNext
<1> QED
  BY <1>1, InitNativeInv, PTL DEF NativeSpec

\* Within --run-native too, an exploration that ends without giving up is exact.
THEOREM NativeExplorationExact == NativeSpec => []ExplorationExact
<1>1. NativeInv => ExplorationExact
  BY ExactWhenDone DEF NativeInv
<1> QED
  BY <1>1, NativeInvHolds, PTL

\* Within --run-native too, a search that gives up had cause to: the budget is
\* spent and a reachable summary has no number.
THEOREM NativeTruncationCorrect == NativeSpec => []TruncationJustified
<1>1. NativeInv => TruncationJustified
  BY TruncatedForCause DEF NativeInv
<1> QED
  BY <1>1, NativeInvHolds, PTL

ProvedIsRight == verdict = "PROVED" => ~CountedAsAccepted
NotProvedIsRight == verdict = "NOT PROVED" => CountedAsAccepted

LEMMA VerdictsAreRight == NativeInv => ProvedIsRight /\ NotProvedIsRight
<1> SUFFICES ASSUME NativeInv
             PROVE  ProvedIsRight /\ NotProvedIsRight
  OBVIOUS
<1>1. ProvedIsRight
  BY ProvedMeansNone DEF ProvedIsRight
<1>2. NotProvedIsRight
  BY TargetMeansAccepted DEF NotProvedIsRight, NativeInv, Stages
<1> QED
  BY <1>1, <1>2

\* Whether a word counts as accepted is fixed by the input.
LEMMA InputStays ==
    ASSUME NativeNext \/ UNCHANGED nativeVars
    PROVE  CountedAsAccepted' = CountedAsAccepted
<1>1. delta' = delta /\ final' = final
  <2>1. CASE UNCHANGED nativeVars
    BY <2>1 DEF nativeVars
  <2>2. CASE Explore
    BY <2>2 DEF Explore, ExploreStep, Dequeue, KnownSuccessor, NewSuccessor, Number, Truncate,
                FinishState, FinishExploring, inputVars
  <2>3. CASE BeginWitness \/ WitnessDequeue \/ WitnessSkip \/ WitnessVisit \/ WitnessNextState
    BY <2>3 DEF BeginWitness, WitnessDequeue, WitnessSkip, WitnessVisit, WitnessNextState, inputVars
  <2>4. CASE WitnessFound \/ WitnessNone \/ TraceBack \/ TraceDone
    BY <2>4 DEF WitnessFound, WitnessNone, TraceBack, TraceDone, inputVars
  <2> QED
    BY <2>1, <2>2, <2>3, <2>4 DEF NativeNext
<1> QED
  BY <1>1 DEF CountedAsAccepted, ReachableByNonempty, ReachableFrom, Closed

\* A step that changes the verdict is an Answer of EmptinessCheck.
LEMMA StepAnswers ==
    ASSUME NativeInv, NativeNext, ProvedIsRight', NotProvedIsRight'
    PROVE  Promise!Answer \/ UNCHANGED Promise!checkVars
<1>1. CountedAsAccepted' = CountedAsAccepted
  BY InputStays
<1>2. CASE verdict' = verdict
  BY <1>1, <1>2 DEF Promise!checkVars
<1>3. CASE verdict' # verdict
  <2>1. /\ verdict = "pending"
        /\ verdict' \in {"UNKNOWN", "PROVED", "NOT PROVED"}
    BY <1>3 DEF NativeNext, Explore, witnessVars, BeginWitness, WitnessDequeue, WitnessSkip,
                WitnessVisit, WitnessNextState, WitnessFound, WitnessNone, TraceBack, TraceDone,
                Searching, NativeInv, Stages
  <2>2. CASE verdict' = "UNKNOWN"
    BY <1>1, <2>1, <2>2 DEF Promise!Answer
  <2>3. CASE verdict' = "PROVED"
    BY <1>1, <2>1, <2>3 DEF Promise!Answer, ProvedIsRight
  <2>4. CASE verdict' = "NOT PROVED"
    BY <1>1, <2>1, <2>4 DEF Promise!Answer, NotProvedIsRight
  <2> QED
    BY <2>1, <2>2, <2>3, <2>4
<1> QED
  BY <1>2, <1>3

\* --run-native implements EmptinessCheck, up to liveness: it starts without an
\* answer, gives at most one, and that one is UNKNOWN or right about the words
\* it counts, whatever the automaton and the budget.
THEOREM NativeRefines ==
    NativeSpec => Promise!CheckInit /\ [][Promise!Answer]_(Promise!checkVars)
<1>1. NativeInit => Promise!CheckInit
  BY DEF NativeInit, Promise!CheckInit, CountedAsAccepted
<1>2. NativeInv => ProvedIsRight /\ NotProvedIsRight
  BY VerdictsAreRight
<1>3. ASSUME NativeInv, [NativeNext]_nativeVars, ProvedIsRight', NotProvedIsRight'
      PROVE  [Promise!Answer]_(Promise!checkVars)
  <2>1. CASE NativeNext
    BY <1>3, <2>1, StepAnswers
  <2>2. CASE UNCHANGED nativeVars
    <3>1. verdict' = verdict /\ CountedAsAccepted' = CountedAsAccepted
      BY <2>2, InputStays DEF nativeVars
    <3> QED
      BY <3>1 DEF Promise!checkVars
  <2> QED
    BY <1>3, <2>1, <2>2
<1> QED
  BY <1>1, <1>2, <1>3, NativeInvHolds, PTL DEF NativeSpec

-----------------------------------------------------------------------------
(***************************************************************************)
(* A NOT PROVED carries a shortest counterexample.                         *)
(***************************************************************************)

\* i was reached over an edge from a state one level below.
ReachedBelow(d, i) ==
    /\ i \in DOMAIN parent
    /\ \E p \in visited, a \in Symbols :
        /\ parent[i] = <<p, a>>
        /\ i \in Targets(p, a)
        /\ d[i] = d[p] + 1

\* Every word of at most n symbols leads to a visited state of a level up to n.
WordsReach(d, n) ==
    \A w \in Seq(Symbols) :
        Len(w) <= n =>
            /\ idOf[RunFrom(delta, Start, w)] \in visited
            /\ d[idOf[RunFrom(delta, Start, w)]] <= n

\* The search is at level n: the queue holds states of this level and then of
\* the next one.
AtLevel(d, n) ==
    /\ \A i \in visited : d[i] <= n + 1
    /\ \A k \in 1..Len(wqueue) : wqueue[k] \in visited /\ n <= d[wqueue[k]]
    /\ \A j, k \in 1..Len(wqueue) : j <= k => d[wqueue[j]] <= d[wqueue[k]]
    /\ wstate # NoState => wstate \in visited /\ d[wstate] = n
    /\ WordsReach(d, n)

\* No word shorter than the level of the target counts as accepted.
NoneShorter(d) ==
    \A w \in Seq(Symbols) :
        Len(w) < d[target] => RunFrom(delta, Start, w) \notin final \ {Start}

\* The symbols collected lead from where the walk stands to a final summary.
OnTrace(d) ==
    /\ tail \in visited
    /\ witness \in Seq(Symbols)
    /\ \E s \in Known : idOf[s] = tail /\ RunFrom(delta, s, witness) \in final
    /\ Len(witness) + d[tail] = d[target]

Levels(d) ==
    /\ d[dfaInitial] = 0
    /\ \A i \in visited : i = dfaInitial \/ ReachedBelow(d, i)
    /\ target = NoState => \E n \in Nat : AtLevel(d, n)
    /\ target # NoState => target \in visited /\ NoneShorter(d)
    /\ stage = "trace" \/ verdict = "NOT PROVED" => OnTrace(d)
    /\ verdict = "NOT PROVED" => tail = dfaInitial

WitnessInv ==
    /\ stage \in {"explore", "witness"} => witness = << >>
    /\ stage # "explore" /\ ~truncated => \E d \in [Nat -> Nat] : Levels(d)

-----------------------------------------------------------------------------

\* Counting, and the words of symbols.
LEMMA Counting ==
    /\ \A m \in Nat : m + 1 # 0 /\ m + 1 \in Nat
    /\ \A l, m \in Nat : (l + 1) + m = l + (m + 1)
    /\ \A l \in Nat : \A m \in 1..(l - 1) : m \in Nat /\ m < l
    /\ \A m \in Nat : \A k \in 1..(m + 1) : k \in 1..m \/ k = m + 1
  OBVIOUS

LEMMA WordsOfSymbols ==
    /\ \A v \in Seq(Symbols) : Len(v) \in Nat /\ Len(v) + 0 = Len(v)
    /\ \A m \in Nat : \A v \in [1..m -> Symbols] : v \in Seq(Symbols) /\ Len(v) = m
  OBVIOUS

LEMMA Appending ==
    \A q \in Seq(Nat), x \in Nat :
        /\ Len(q) \in Nat /\ Len(Append(q, x)) = Len(q) + 1
        /\ \A k \in 1..Len(q) : Append(q, x)[k] = q[k]
        /\ Append(q, x)[Len(q) + 1] = x
  OBVIOUS

LEMMA RunIsRunFrom == \A w : Run(w) = RunFrom(delta, Start, w)
  BY DEF Run, RunFrom

\* Once the table is complete, words lead along it.
LEMMA TableOfKnown ==
    ASSUME SearchInv, phase = "explored", ~truncated
    PROVE  /\ IsTable(delta, Known, Symbols)
           /\ Start \in Known
           /\ idOf[Start] = dfaInitial
           /\ \A s \in Known, a \in Symbols : idOf[Follow(delta, s, a)] \in Targets(idOf[s], a)
           /\ \A s \in Known : idOf[s] \in accepting <=> s \in final
<1>1. /\ Known = Reachable
      /\ \A s \in Known, a \in Symbols : EdgeOf(s, a) \in transitions
      /\ accepting = {idOf[s] : s \in final \cap Known}
  BY ExactWhenDone DEF ExplorationExact
<1>2. \A s \in Known, a \in Symbols : delta[s, a] \in Known
  BY <1>1, ReachableIsClosed DEF SearchInv
<1>3. \A s, a : delta[s, a] = Follow(delta, s, a)
  BY Zenon DEF Follow
<1>4. IsTable(delta, Known, Symbols)
  BY <1>2, <1>3, Zenon DEF IsTable
<1>5. Start \in Known /\ idOf[Start] = dfaInitial
  BY StartAssumption DEF SearchInv, Numbering, Known, NoId, dfaInitial
<1>6. ASSUME NEW s \in Known, NEW a \in Symbols
      PROVE  idOf[Follow(delta, s, a)] \in Targets(idOf[s], a)
  <2> DEFINE t == Follow(delta, s, a)
  <2>1. t \in Known
    BY <1>4 DEF IsTable
  <2>2. <<idOf[s], a, idOf[t]>> \in transitions
    BY <1>1, <1>3, Zenon DEF EdgeOf
  <2> HIDE DEF t
  <2>3. idOf[t] \in 0..(idCount - 1)
    <3>1. idOf[t] \in Nat /\ idCount \in Nat
      BY <2>1 DEF SearchInv, TypeOK, Known
    <3>2. idOf[t] < idCount
      BY <2>1 DEF SearchInv, Numbering
    <3>3. \A m, n \in Nat : m < n => m \in 0..(n - 1)
      OBVIOUS
    <3> QED
      BY <3>1, <3>2, <3>3
  <2>4. t = Follow(delta, s, a)
    BY DEF t
  <2> QED
    BY <2>2, <2>3, <2>4, Zenon DEF Targets
<1>7. \A s \in Known : idOf[s] \in accepting <=> s \in final
  BY <1>1 DEF SearchInv, Numbering
<1> QED
  BY <1>4, <1>5, <1>6, <1>7

\* The words of length at most n lead to visited states: none of them is accepted.
LEMMA NoneAmongVisited ==
    ASSUME SearchInv, phase = "explored", ~truncated, SearchFront,
           NEW d, NEW n \in Nat, WordsReach(d, n)
    PROVE  \A w \in Seq(Symbols) :
                Len(w) <= n => RunFrom(delta, Start, w) \notin final \ {Start}
<1> SUFFICES ASSUME NEW w \in Seq(Symbols), Len(w) <= n,
                    RunFrom(delta, Start, w) \in final \ {Start}
             PROVE  FALSE
  OBVIOUS
<1> DEFINE s == RunFrom(delta, Start, w)
<1>2. idOf[s] \in visited
  BY DEF WordsReach
<1>3. s \in Known
  BY TableOfKnown, RunFromType
<1>4. idOf[s] = dfaInitial
  BY <1>2, <1>3, TableOfKnown DEF SearchFront
<1>5. s = Start
  BY <1>3, <1>4, TableOfKnown DEF SearchInv, Numbering
<1> QED
  BY <1>5

\* When all the states of level n have been expanded, the words of n + 1 symbols
\* lead to visited states as well.
LEMMA NextLevel ==
    ASSUME SearchInv, phase = "explored", ~truncated, SearchFront,
           NEW d \in [Nat -> Nat], NEW n \in Nat, AtLevel(d, n), WitnessTypes,
           wstate = NoState, \A k \in 1..Len(wqueue) : d[wqueue[k]] = n + 1
    PROVE  WordsReach(d, n + 1)
<1> SUFFICES ASSUME NEW w \in Seq(Symbols), Len(w) <= n + 1
             PROVE  /\ idOf[RunFrom(delta, Start, w)] \in visited
                    /\ d[idOf[RunFrom(delta, Start, w)]] <= n + 1
  BY DEF WordsReach
<1> DEFINE x == idOf[RunFrom(delta, Start, w)]
<1>0. \A i \in visited : i \in Nat /\ d[i] \in Nat
  BY DEF WitnessTypes
<1>1. SUFFICES x \in visited
  BY <1>1 DEF AtLevel
<1>2. CASE Len(w) <= n
  BY <1>2 DEF AtLevel, WordsReach
<1>3. CASE ~(Len(w) <= n)
  <2>1. Len(w) = n + 1
    <3>1. Len(w) \in Nat
      OBVIOUS
    <3> QED
      BY <3>1, <1>3
  <2>2. PICK v \in Seq(Symbols), a \in Symbols : w = Append(v, a) /\ Len(v) = n
    <3>1. w # << >>
      BY <2>1
    <3>2. PICK v \in Seq(Symbols), a \in Symbols : w = Append(v, a)
      BY <3>1, SequenceEmptyOrAppend
    <3>3. Len(v) \in Nat /\ Len(w) = Len(v) + 1
      BY <3>2
    <3>4. \A l, m \in Nat : l + 1 = m + 1 => l = m
      OBVIOUS
    <3>5. Len(v) = n
      BY <2>1, <3>3, <3>4
    <3> QED
      BY <3>2, <3>5, Zenon
  <2> DEFINE s == RunFrom(delta, Start, v)
  <2>3. s \in Known /\ RunFrom(delta, Start, w) = Follow(delta, s, a)
    BY <2>2, TableOfKnown, RunFromType, RunFromAppend
  <2>4. idOf[s] \in visited /\ d[idOf[s]] <= n
    <3>1. Len(v) <= n
      BY <2>2
    <3> QED
      BY <3>1 DEF AtLevel, WordsReach
  <2>5. ~Waiting(idOf[s])
    <3>1. \A m \in Nat : ~(m + 1 <= m)
      OBVIOUS
    <3> QED
      BY <2>4, <3>1 DEF Waiting
  <2>6. idOf[s] # wstate
    <3>1. visited \subseteq Nat /\ NoState \notin Nat
      BY DEF WitnessTypes, NoState
    <3> QED
      BY <2>4, <3>1
  <2>7. Targets(idOf[s], a) \subseteq visited
    BY <2>4, <2>5, <2>6 DEF SearchFront, Followed
  <2> QED
    BY <2>3, <2>7, TableOfKnown
<1> QED
  BY <1>2, <1>3

-----------------------------------------------------------------------------
(***************************************************************************)
(* The steps preserve WitnessInv.                                          *)
(***************************************************************************)

\* Nothing that was found out changes while the visited states stay.
LEMMA FindingsStay ==
    ASSUME UNCHANGED <<inputVars, searchVars>>, visited' = visited, parent' = parent,
           target' = target
    PROVE  /\ \A d, i : ReachedBelow(d, i)' <=> ReachedBelow(d, i)
           /\ \A d, n : WordsReach(d, n)' <=> WordsReach(d, n)
           /\ \A d : NoneShorter(d)' <=> NoneShorter(d)
<1>1. delta' = delta /\ final' = final /\ idOf' = idOf /\ transitions' = transitions /\ idCount' = idCount
  BY DEF inputVars, searchVars
<1>2. \A i, a : Targets(i, a)' = Targets(i, a)
  BY <1>1 DEF Targets
<1>3. \A d, i : ReachedBelow(d, i)' <=> ReachedBelow(d, i)
  BY <1>2 DEF ReachedBelow
<1>4. \A d, n : WordsReach(d, n)' <=> WordsReach(d, n)
  BY <1>1 DEF WordsReach
<1>5. \A d : NoneShorter(d)' <=> NoneShorter(d)
  BY <1>1 DEF NoneShorter
<1> QED
  BY <1>3, <1>4, <1>5

LEMMA BeginIsLevelled ==
    ASSUME NativeInv, WitnessInv, BeginWitness
    PROVE  WitnessInv'
<1>1. /\ UNCHANGED <<inputVars, searchVars>> /\ visited' = visited /\ wqueue' = wqueue
      /\ wstate' = wstate /\ target' = target /\ tail' = tail /\ witness' = witness
      /\ parent' = parent /\ truncated' = truncated
      /\ stage = "explore" /\ phase = "explored"
  BY DEF BeginWitness, searchVars
<1>2. /\ visited = {dfaInitial} /\ wqueue = <<dfaInitial>> /\ wstate = NoState
      /\ target = NoState /\ verdict = "pending" /\ witness = << >>
  BY <1>1 DEF NativeInv, NotBegun, Stages, WitnessInv
<1>3. ASSUME ~truncated
      PROVE  \E d \in [Nat -> Nat] : Levels(d)'
  <2>1. stage' = "witness" /\ verdict' = "pending"
    BY <1>2, <1>3 DEF BeginWitness
  <2> DEFINE z == [k \in Nat |-> 0]
  <2>2. z \in [Nat -> Nat] /\ \A k \in Nat : z[k] = 0
    OBVIOUS
  <2> HIDE DEF z
  <2>3. dfaInitial \in Nat /\ z[dfaInitial] = 0
    BY <2>2 DEF dfaInitial
  <2>4. WordsReach(z, 0)
    <3> SUFFICES ASSUME NEW w \in Seq(Symbols), Len(w) <= 0
                 PROVE  idOf[RunFrom(delta, Start, w)] = dfaInitial
      BY <1>2, <2>3 DEF WordsReach
    <3>1. w = << >>
      OBVIOUS
    <3> QED
      BY <1>1, <1>3, <3>1, TableOfKnown, RunFromEmpty DEF NativeInv
  <2>5. WordsReach(z, 0)'
    BY <1>1, <2>4, FindingsStay
  <2>6. AtLevel(z, 0)'
    <3>1. \A k \in 1..Len(wqueue) : wqueue[k] = dfaInitial
      BY <1>2
    <3> QED
      BY <1>1, <1>2, <2>3, <2>5, <3>1 DEF AtLevel
  <2> QED
    BY <1>1, <1>2, <2>1, <2>2, <2>3, <2>6 DEF Levels
<1>4. CASE truncated
  BY <1>1, <1>2, <1>4 DEF BeginWitness, WitnessInv
<1>5. CASE ~truncated
  BY <1>1, <1>2, <1>3, <1>5 DEF WitnessInv
<1> QED
  BY <1>4, <1>5

\* What the steps of the search itself have in common.
LEMMA SearchingFacts ==
    ASSUME NativeInv, WitnessInv, Searching
    PROVE  /\ stage = "witness" /\ target = NoState /\ verdict = "pending" /\ witness = << >>
           /\ phase = "explored" /\ ~truncated
           /\ SearchInv /\ WitnessTypes /\ SearchFront
           /\ \E d \in [Nat -> Nat] : Levels(d)
<1>1. stage = "witness" /\ target = NoState
  BY DEF Searching
<1>2. /\ phase = "explored" /\ ~truncated /\ verdict = "pending"
      /\ SearchInv /\ WitnessTypes /\ SearchFront
  BY <1>1 DEF NativeInv, Stages
<1> QED
  BY <1>1, <1>2 DEF WitnessInv

\* A step that leaves the visited states and the target alone and stays at its level.
LEMMA SameLevels ==
    ASSUME NativeInv, WitnessInv, Searching,
           UNCHANGED <<inputVars, searchVars>>, visited' = visited, parent' = parent,
           target' = target, stage' = stage, verdict' = verdict, witness' = witness,
           \A d \in [Nat -> Nat], n \in Nat : AtLevel(d, n) => \E m \in Nat : AtLevel(d, m)'
    PROVE  WitnessInv'
<1>1. /\ stage = "witness" /\ target = NoState /\ verdict = "pending" /\ witness = << >>
      /\ ~truncated
  BY SearchingFacts
<1>2. PICK d \in [Nat -> Nat] : Levels(d)
  BY SearchingFacts
<1>3. PICK n \in Nat : AtLevel(d, n)
  BY <1>1, <1>2 DEF Levels
<1>4. \E m \in Nat : AtLevel(d, m)'
  BY <1>3
<1>5. \A i \in visited' : i = dfaInitial \/ ReachedBelow(d, i)'
  BY <1>2, FindingsStay DEF Levels
<1>6. Levels(d)'
  BY <1>1, <1>2, <1>4, <1>5 DEF Levels
<1> QED
  BY <1>1, <1>6 DEF WitnessInv

LEMMA SkipStaysLevelled ==
    ASSUME NativeInv, WitnessInv, WitnessSkip \/ WitnessNextState
    PROVE  WitnessInv'
<1>1. /\ UNCHANGED <<inputVars, searchVars>> /\ visited' = visited /\ wqueue' = wqueue
      /\ parent' = parent /\ target' = target /\ stage' = stage /\ verdict' = verdict
      /\ witness' = witness /\ Searching
      /\ wstate' = wstate \/ wstate' = NoState
  BY DEF WitnessSkip, WitnessNextState
<1>2. ASSUME NEW d \in [Nat -> Nat], NEW n \in Nat, AtLevel(d, n)
      PROVE  AtLevel(d, n)'
  <2>1. WordsReach(d, n)'
    BY <1>1, <1>2, FindingsStay DEF AtLevel
  <2> QED
    BY <1>1, <1>2, <2>1 DEF AtLevel
<1> QED
  BY <1>1, <1>2, SameLevels

LEMMA DequeueStaysLevelled ==
    ASSUME NativeInv, WitnessInv, WitnessDequeue
    PROVE  WitnessInv'
<1>1. /\ UNCHANGED <<inputVars, searchVars>> /\ visited' = visited
      /\ parent' = parent /\ target' = target /\ stage' = stage /\ verdict' = verdict
      /\ witness' = witness /\ Searching /\ wstate = NoState
  BY DEF WitnessDequeue
<1>2. /\ SearchInv /\ WitnessTypes /\ SearchFront /\ phase = "explored" /\ ~truncated
  BY <1>1, SearchingFacts
<1>3. /\ wqueue \in Seq(Nat) /\ wqueue # << >>
      /\ wstate' = wqueue[1] /\ wstate' \in Nat
      /\ Len(wqueue') = Len(wqueue) - 1
      /\ Len(wqueue) \in Nat \ {0} /\ 1 \in 1..Len(wqueue)
      /\ \A k \in 1..Len(wqueue') : wqueue'[k] = wqueue[k + 1] /\ k + 1 \in 1..Len(wqueue)
  <2>1. wqueue \in Seq(Nat) /\ wqueue # << >>
    BY <1>2 DEF WitnessTypes, WitnessDequeue
  <2> QED
    BY <2>1 DEF WitnessDequeue
<1>4. ASSUME NEW d \in [Nat -> Nat], NEW n \in Nat, AtLevel(d, n)
      PROVE  \E m \in Nat : AtLevel(d, m)'
  <2> DEFINE At(m) == /\ \A i \in visited : d[i] <= m + 1
                      /\ \A k \in 1..Len(wqueue) : wqueue[k] \in visited /\ m <= d[wqueue[k]]
                      /\ d[wqueue[1]] = m
                      /\ WordsReach(d, m)
  <2>1. \A j, k \in 1..Len(wqueue) : j <= k => d[wqueue[j]] <= d[wqueue[k]]
    BY <1>4 DEF AtLevel
  <2>2. ASSUME NEW m \in Nat, At(m)
        PROVE  AtLevel(d, m)'
    <3>1. WordsReach(d, m)'
      BY <1>1, <2>2, FindingsStay
    <3>2. \A k \in 1..Len(wqueue') : wqueue'[k] \in visited' /\ m <= d[wqueue'[k]]
      BY <1>1, <1>3, <2>2
    <3>3. \A j, k \in 1..Len(wqueue') : j <= k => d[wqueue'[j]] <= d[wqueue'[k]]
      <4> SUFFICES ASSUME NEW j \in 1..Len(wqueue'), NEW k \in 1..Len(wqueue'), j <= k
                   PROVE  d[wqueue'[j]] <= d[wqueue'[k]]
        OBVIOUS
      <4>1. j + 1 <= k + 1
        OBVIOUS
      <4> QED
        BY <1>3, <2>1, <4>1
    <3>4. wstate' \in visited' /\ d[wstate'] = m
      BY <1>1, <1>3, <2>2
    <3> QED
      BY <1>1, <2>2, <3>1, <3>2, <3>3, <3>4 DEF AtLevel
  <2>3. d[wqueue[1]] \in Nat /\ n <= d[wqueue[1]] /\ d[wqueue[1]] <= n + 1
    BY <1>3, <1>4 DEF AtLevel
  <2>4. CASE d[wqueue[1]] = n
    <3>1. At(n)
      BY <1>4, <2>4 DEF AtLevel
    <3> QED
      BY <2>2, <3>1
  <2>5. CASE d[wqueue[1]] = n + 1
    <3>1. \A k \in 1..Len(wqueue) : d[wqueue[k]] = n + 1
      <4> SUFFICES ASSUME NEW k \in 1..Len(wqueue)
                   PROVE  d[wqueue[k]] = n + 1
        OBVIOUS
      <4>1. 1 <= k
        OBVIOUS
      <4>2. wqueue[k] \in visited /\ wqueue[k] \in Nat
        BY <1>2, <1>4 DEF AtLevel, WitnessTypes
      <4>3. n + 1 <= d[wqueue[k]]
        BY <1>3, <2>1, <2>5, <4>1
      <4>4. d[wqueue[k]] <= n + 1 /\ d[wqueue[k]] \in Nat
        <5>1. d[wqueue[k]] <= n + 1
          BY <1>4, <4>2, Zenon DEF AtLevel
        <5> QED
          BY <4>2, <5>1
      <4>5. \A l, m \in Nat : l <= m /\ m <= l => m = l
        OBVIOUS
      <4> QED
        BY <4>3, <4>4, <4>5, Counting, Zenon
    <3>2. WordsReach(d, n + 1)
      BY <1>1, <1>2, <1>4, <3>1, NextLevel
    <3>3. \A i \in visited : d[i] <= (n + 1) + 1
      <4>1. \A i \in visited : i \in Nat /\ d[i] \in Nat /\ d[i] <= n + 1
        BY <1>2, <1>4 DEF AtLevel, WitnessTypes
      <4> QED
        BY <4>1
    <3>4. \A k \in 1..Len(wqueue) : wqueue[k] \in visited
      BY <1>4 DEF AtLevel
    <3>5. At(n + 1)
      BY <2>5, <3>1, <3>2, <3>3, <3>4
    <3>6. n + 1 \in Nat
      OBVIOUS
    <3> HIDE DEF At
    <3> QED
      BY <2>2, <3>5, <3>6, Zenon
  <2>6. d[wqueue[1]] = n \/ d[wqueue[1]] = n + 1
    BY <2>3
  <2> QED
    BY <2>4, <2>5, <2>6
<1> QED
  BY <1>1, <1>4, SameLevels

LEMMA VisitStaysLevelled ==
    ASSUME NativeInv, WitnessInv, WitnessVisit
    PROVE  WitnessInv'
<1>1. /\ UNCHANGED <<inputVars, searchVars>> /\ truncated' = truncated
      /\ wstate' = wstate /\ stage' = stage /\ verdict' = verdict
      /\ witness' = witness /\ Searching /\ wstate # NoState /\ wsym \in Symbols
  BY DEF WitnessVisit, searchVars
<1>2. /\ stage = "witness" /\ target = NoState /\ verdict = "pending" /\ witness = << >>
      /\ SearchInv /\ WitnessTypes /\ SearchFront /\ phase = "explored" /\ ~truncated
  BY <1>1, SearchingFacts
<1>3. PICK next \in Targets(wstate, wsym) \ visited :
        /\ visited' = visited \cup {next}
        /\ parent' = [i \in DOMAIN parent \cup {next} |->
                        IF i = next THEN <<wstate, wsym>> ELSE parent[i]]
        /\ \/ target' = next /\ wqueue' = wqueue
           \/ wqueue' = Append(wqueue, next) /\ target' = target
  BY DEF WitnessVisit
<1>4. next \in Nat /\ next # NoState
  <2>1. \A m : m \in 0..(idCount - 1) => m \in Nat /\ m # -1
    OBVIOUS
  <2> QED
    BY <2>1 DEF Targets, NoState
<1>5. PICK c \in [Nat -> Nat] : Levels(c)
  BY <1>1, SearchingFacts
<1>6. PICK n \in Nat : AtLevel(c, n)
  BY <1>2, <1>5 DEF Levels
<1>7. PICK d \in [Nat -> Nat] : d[next] = n + 1 /\ \A i \in Nat : i # next => d[i] = c[i]
  <2> DEFINE e == [i \in Nat |-> IF i = next THEN n + 1 ELSE c[i]]
  <2>1. e \in [Nat -> Nat] /\ e[next] = n + 1 /\ \A i \in Nat : i # next => e[i] = c[i]
    BY <1>4
  <2> QED
    BY <2>1
<1>8. \A i \in visited : i \in Nat /\ i # next /\ d[i] = c[i]
  BY <1>2, <1>3, <1>7 DEF WitnessTypes
<1>9. /\ wstate \in visited /\ d[wstate] = n
      /\ \A i \in visited' : d[i] <= n + 1
      /\ \A k \in 1..Len(wqueue) : wqueue[k] \in visited /\ n <= d[wqueue[k]]
      /\ \A j, k \in 1..Len(wqueue) : j <= k => d[wqueue[j]] <= d[wqueue[k]]
  <2>1. wstate \in visited /\ d[wstate] = n
    BY <1>1, <1>6, <1>8 DEF AtLevel
  <2>2. \A i \in visited' : d[i] <= n + 1
    <3>1. \A i \in visited : d[i] <= n + 1
      BY <1>6, <1>8 DEF AtLevel
    <3>2. n + 1 <= n + 1
      OBVIOUS
    <3> QED
      BY <1>3, <1>7, <3>1, <3>2
  <2>3. \A k \in 1..Len(wqueue) : wqueue[k] \in visited /\ n <= d[wqueue[k]]
    BY <1>6, <1>8 DEF AtLevel
  <2>4. \A j, k \in 1..Len(wqueue) : j <= k => d[wqueue[j]] <= d[wqueue[k]]
    BY <1>6, <1>8, <2>3 DEF AtLevel
  <2> QED
    BY <2>1, <2>2, <2>3, <2>4
<1>10. WordsReach(d, n)
  BY <1>6, <1>8 DEF AtLevel, WordsReach
<1>11. /\ delta' = delta /\ final' = final /\ idOf' = idOf
       /\ \A i, a : Targets(i, a)' = Targets(i, a)
  BY <1>1, <1>2, TableStays DEF inputVars, searchVars
<1>12. d[dfaInitial] = 0
  <2>1. dfaInitial \in visited
    BY <1>2 DEF SearchFront
  <2> QED
    BY <1>5, <1>8, <2>1 DEF Levels
<1>13. ASSUME NEW i \in visited'
       PROVE  i = dfaInitial \/ ReachedBelow(d, i)'
  <2>1. CASE i = next
    <3>1. PICK p \in visited, a \in Symbols : p = wstate /\ a = wsym
      BY <1>1, <1>9
    <3>2. i \in DOMAIN parent' /\ parent'[i] = <<p, a>>
      BY <1>3, <2>1, <3>1
    <3>3. p \in visited' /\ i \in Targets(p, a)
      BY <1>3, <2>1, <3>1
    <3>4. i \in Targets(p, a)'
      BY <1>11, <3>3, Zenon
    <3>5. d[i] = d[p] + 1
      BY <1>7, <1>9, <2>1, <3>1
    <3> QED
      BY <3>2, <3>3, <3>4, <3>5 DEF ReachedBelow
  <2>2. CASE i # next /\ i # dfaInitial
    <3>1. i \in visited /\ ReachedBelow(c, i)
      BY <1>3, <1>5, <2>2 DEF Levels
    <3>2. PICK p \in visited, a \in Symbols :
            parent[i] = <<p, a>> /\ i \in Targets(p, a) /\ c[i] = c[p] + 1
      BY <3>1 DEF ReachedBelow
    <3>3. i \in DOMAIN parent' /\ parent'[i] = <<p, a>>
      BY <1>3, <2>2, <3>1, <3>2 DEF ReachedBelow
    <3>4. p \in visited' /\ i \in Targets(p, a)' /\ d[i] = d[p] + 1
      BY <1>3, <1>8, <1>11, <3>1, <3>2
    <3> QED
      BY <3>3, <3>4 DEF ReachedBelow
  <2> QED
    BY <2>1, <2>2
<1>14. CASE target' = next /\ wqueue' = wqueue
  <2>1. \A w \in Seq(Symbols) :
            Len(w) <= n => RunFrom(delta, Start, w) \notin final \ {Start}
    BY <1>2, <1>10, NoneAmongVisited
  <2>2. d[target'] = n + 1 /\ \A w \in Seq(Symbols) : Len(w) < n + 1 => Len(w) <= n
    BY <1>7, <1>14
  <2>3. NoneShorter(d)'
    BY <1>11, <2>1, <2>2 DEF NoneShorter
  <2>4. Levels(d)'
    BY <1>1, <1>2, <1>3, <1>4, <1>12, <1>13, <1>14, <2>3 DEF Levels
  <2> QED
    BY <1>1, <1>2, <2>4 DEF WitnessInv
<1>15. CASE wqueue' = Append(wqueue, next) /\ target' = target
  <2>1. wqueue \in Seq(Nat)
    BY <1>2 DEF WitnessTypes
  <2>2. /\ Len(wqueue) \in Nat /\ Len(wqueue') = Len(wqueue) + 1
        /\ \A k \in 1..Len(wqueue) : wqueue'[k] = wqueue[k]
        /\ wqueue'[Len(wqueue) + 1] = next
    BY <1>4, <1>15, <2>1, Appending, Zenon
  <2>3. \A k \in 1..Len(wqueue') : k \in 1..Len(wqueue) \/ (k = Len(wqueue) + 1 /\ wqueue'[k] = next)
    BY <2>2, Counting, Zenon
  <2>4. \A k \in 1..Len(wqueue') : wqueue'[k] \in visited' /\ n <= d[wqueue'[k]]
    BY <1>3, <1>7, <1>9, <2>2, <2>3
  <2>5. ASSUME NEW j \in 1..Len(wqueue'), NEW k \in 1..Len(wqueue'), j <= k
        PROVE  d[wqueue'[j]] <= d[wqueue'[k]]
    <3>1. CASE k \in 1..Len(wqueue)
      <4>1. j \in 1..Len(wqueue)
        BY <2>2, <2>5, <3>1
      <4> QED
        BY <1>9, <2>2, <2>5, <3>1, <4>1
    <3>2. CASE wqueue'[k] = next
      BY <1>7, <1>9, <2>4, <3>2
    <3> QED
      BY <2>3, <3>1, <3>2
  <2>6. WordsReach(d, n)'
    BY <1>3, <1>10, <1>11 DEF WordsReach
  <2>7. AtLevel(d, n)'
    BY <1>1, <1>3, <1>9, <2>4, <2>5, <2>6 DEF AtLevel
  <2>8. Levels(d)'
    BY <1>1, <1>2, <1>12, <1>13, <1>15, <2>7 DEF Levels
  <2> QED
    BY <1>1, <1>2, <2>8 DEF WitnessInv
<1> QED
  BY <1>3, <1>14, <1>15

\* Outside the search, the levels stay as they are.
LEMMA LevelsStay ==
    ASSUME UNCHANGED <<inputVars, searchVars>>, visited' = visited, parent' = parent,
           target' = target, NEW d, Levels(d), target # NoState,
           stage' = "trace" \/ verdict' = "NOT PROVED" => OnTrace(d)',
           verdict' = "NOT PROVED" => tail' = dfaInitial
    PROVE  Levels(d)'
<1>1. \A i \in visited' : i = dfaInitial \/ ReachedBelow(d, i)'
  BY FindingsStay DEF Levels
<1>2. target' \in visited' /\ NoneShorter(d)'
  BY FindingsStay DEF Levels
<1> QED
  BY <1>1, <1>2 DEF Levels

LEMMA FoundStaysLevelled ==
    ASSUME NativeInv, WitnessInv, WitnessFound
    PROVE  WitnessInv'
<1>1. /\ UNCHANGED <<inputVars, searchVars>> /\ visited' = visited /\ parent' = parent
      /\ target' = target /\ verdict' = verdict /\ witness' = witness
      /\ stage = "witness" /\ stage' = "trace" /\ target # NoState /\ tail' = target
      /\ idOf' = idOf /\ delta' = delta /\ final' = final /\ Known' = Known
  BY DEF WitnessFound, searchVars, inputVars, Known
<1>2. /\ phase = "explored" /\ ~truncated /\ verdict = "pending" /\ SearchInv
      /\ target \in accepting /\ witness = << >>
  BY <1>1 DEF NativeInv, Stages, TargetCounts, WitnessInv
<1>3. PICK d \in [Nat -> Nat] : Levels(d)
  BY <1>1, <1>2 DEF WitnessInv
<1>4. OnTrace(d)'
  <2>1. PICK s \in Known : idOf[s] = target /\ s \in final
    BY <1>2, ExactWhenDone DEF ExplorationExact
  <2>2. RunFrom(delta, s, << >>) = s
    BY <1>2, TableOfKnown, RunFromEmpty
  <2>3. target \in visited
    BY <1>1, <1>3 DEF Levels
  <2>4. << >> \in Seq(Symbols) /\ Len(<< >>) = 0 /\ d[target] \in Nat
    BY <1>1, <2>3 DEF NativeInv, WitnessTypes
  <2>5. Len(witness') + d[tail'] = d[target']
    BY <1>1, <1>2, <2>4
  <2> QED
    BY <1>1, <1>2, <2>1, <2>2, <2>3, <2>4, <2>5 DEF OnTrace
<1>5. Levels(d)'
  BY <1>1, <1>2, <1>3, <1>4, LevelsStay
<1> QED
  BY <1>1, <1>5 DEF WitnessInv

LEMMA TraceStaysLevelled ==
    ASSUME NativeInv, WitnessInv, TraceBack
    PROVE  WitnessInv'
<1>1. /\ UNCHANGED <<inputVars, searchVars>> /\ visited' = visited /\ parent' = parent
      /\ target' = target /\ verdict' = verdict
      /\ stage = "trace" /\ stage' = "trace" /\ tail # dfaInitial
      /\ tail' = parent[tail][1] /\ witness' = <<parent[tail][2]>> \o witness
      /\ idOf' = idOf /\ delta' = delta /\ final' = final /\ Known' = Known
  BY DEF TraceBack, searchVars, inputVars, Known
<1>2. /\ phase = "explored" /\ ~truncated /\ verdict = "pending" /\ SearchInv
      /\ target # NoState /\ visited \subseteq Nat
  BY <1>1 DEF NativeInv, Stages, WitnessTypes
<1>3. PICK d \in [Nat -> Nat] : Levels(d)
  BY <1>1, <1>2 DEF WitnessInv
<1>4. OnTrace(d)
  BY <1>1, <1>3 DEF Levels
<1>5. PICK p \in visited, a \in Symbols :
        parent[tail] = <<p, a>> /\ tail \in Targets(p, a) /\ d[tail] = d[p] + 1
  BY <1>1, <1>3, <1>4 DEF Levels, OnTrace, ReachedBelow
<1>6. tail' = p /\ witness' = <<a>> \o witness
  BY <1>1, <1>5
<1>7. PICK s \in Known : idOf[s] = tail /\ RunFrom(delta, s, witness) \in final
  BY <1>4 DEF OnTrace
<1>8. PICK t \in Known, b \in Symbols : <<p, a, tail>> = <<idOf[t], b, idOf[delta[t, b]]>>
  BY <1>2, <1>5 DEF Targets, SearchInv, EdgesAreReal
<1>9. idOf[t] = p /\ Follow(delta, t, a) \in Known /\ idOf[Follow(delta, t, a)] = tail
  <2>1. p = idOf[t] /\ a = b /\ tail = idOf[delta[t, b]]
    BY <1>8
  <2>2. delta[t, b] = Follow(delta, t, b)
    BY Zenon DEF Follow
  <2>3. Follow(delta, t, a) \in Known
    BY <1>2, TableOfKnown DEF IsTable
  <2> QED
    BY <2>1, <2>2, <2>3, Zenon
<1>10. Follow(delta, t, a) = s
  BY <1>2, <1>7, <1>9 DEF SearchInv, Numbering
<1>11. witness \in Seq(Symbols) /\ Len(witness) + d[tail] = d[target]
  BY <1>4 DEF OnTrace
<1>12. RunFrom(delta, t, <<a>> \o witness) \in final
  BY <1>2, <1>7, <1>10, <1>11, TableOfKnown, RunFromPrepend
<1>13. OnTrace(d)'
  <2>1. witness' \in Seq(Symbols) /\ Len(witness') = Len(witness) + 1 /\ Len(witness) \in Nat
    BY <1>6, <1>11
  <2>2. d[p] \in Nat /\ d[target] \in Nat
    BY <1>2, <1>3 DEF Levels
  <2>3. Len(witness') + d[tail'] = d[target']
    <3>1. (Len(witness) + 1) + d[p] = Len(witness) + (d[p] + 1)
      BY <2>1, <2>2, Counting, Zenon
    <3>2. d[tail'] = d[p] /\ d[target'] = d[target]
      BY <1>1, <1>6, Zenon
    <3>3. Len(witness) + (d[p] + 1) = d[target]
      BY <1>5, <1>11, Zenon
    <3> QED
      BY <2>1, <3>1, <3>2, <3>3, Zenon
  <2>4. Known' = Known /\ t \in Known' /\ idOf'[t] = tail' /\ RunFrom(delta', t, witness') \in final'
    BY <1>1, <1>6, <1>9, <1>12
  <2> QED
    BY <1>1, <1>6, <2>1, <2>3, <2>4 DEF OnTrace
<1>14. Levels(d)'
  BY <1>1, <1>2, <1>3, <1>13, LevelsStay
<1> QED
  BY <1>1, <1>14 DEF WitnessInv

LEMMA EndStaysLevelled ==
    ASSUME NativeInv, WitnessInv, TraceDone \/ WitnessNone \/ UNCHANGED nativeVars
    PROVE  WitnessInv'
<1>1. /\ UNCHANGED <<inputVars, searchVars>> /\ visited' = visited /\ parent' = parent
      /\ target' = target /\ tail' = tail /\ witness' = witness /\ truncated' = truncated
      /\ idOf' = idOf /\ delta' = delta /\ final' = final /\ Known' = Known
  BY DEF TraceDone, WitnessNone, nativeVars, searchVars, inputVars, Known
<1>2. \A d : OnTrace(d)' <=> OnTrace(d)
  BY <1>1 DEF OnTrace
<1>3. CASE TraceDone
  <2>1. stage = "trace" /\ stage' = "done" /\ tail = dfaInitial
    BY <1>3 DEF TraceDone
  <2>2. ~truncated /\ target # NoState
    BY <2>1 DEF NativeInv, Stages
  <2>3. PICK d \in [Nat -> Nat] : Levels(d)
    BY <2>1, <2>2 DEF WitnessInv
  <2>4. OnTrace(d)
    BY <2>1, <2>3 DEF Levels
  <2>5. Levels(d)'
    BY <1>1, <1>2, <2>1, <2>2, <2>3, <2>4, LevelsStay
  <2> QED
    BY <2>1, <2>5 DEF WitnessInv
<1>4. CASE WitnessNone
  <2>1. /\ stage' = "done" /\ verdict' = "PROVED" /\ Searching
        /\ wqueue' = wqueue /\ wstate' = wstate
    BY <1>4 DEF WitnessNone
  <2>2. target = NoState /\ ~truncated
    BY <2>1, SearchingFacts
  <2>3. PICK d \in [Nat -> Nat] : Levels(d)
    BY <2>1, SearchingFacts
  <2>4. PICK n \in Nat : AtLevel(d, n)
    BY <2>2, <2>3 DEF Levels
  <2>5. AtLevel(d, n)'
    BY <1>1, <2>1, <2>4, FindingsStay DEF AtLevel
  <2>6. \A i \in visited' : i = dfaInitial \/ ReachedBelow(d, i)'
    BY <1>1, <2>3, FindingsStay DEF Levels
  <2>7. Levels(d)'
    BY <1>1, <2>1, <2>2, <2>3, <2>5, <2>6 DEF Levels
  <2> QED
    BY <2>1, <2>7 DEF WitnessInv
<1>5. CASE UNCHANGED nativeVars
  <2>1. stage' = stage /\ verdict' = verdict /\ wqueue' = wqueue /\ wstate' = wstate
    BY <1>5 DEF nativeVars
  <2>2. ASSUME NEW d \in [Nat -> Nat], Levels(d)
        PROVE  Levels(d)'
    <3>1. \A n : AtLevel(d, n) => AtLevel(d, n)'
      BY <1>1, <2>1, FindingsStay DEF AtLevel
    <3>2. \A i \in visited' : i = dfaInitial \/ ReachedBelow(d, i)'
      BY <1>1, <2>2, FindingsStay DEF Levels
    <3>3. target' # NoState => target' \in visited' /\ NoneShorter(d)'
      BY <1>1, <2>2, FindingsStay DEF Levels
    <3> QED
      BY <1>1, <1>2, <2>1, <2>2, <3>1, <3>2, <3>3 DEF Levels
  <2> QED
    BY <1>1, <2>1, <2>2 DEF WitnessInv
<1> QED
  BY <1>3, <1>4, <1>5

\* The witness invariant holds throughout.
LEMMA WitnessInvHolds == NativeSpec => []WitnessInv
<1>1. NativeInit => WitnessInv
  BY DEF NativeInit, WitnessInv
<1>2. NativeInv /\ WitnessInv /\ Explore => WitnessInv'
  BY DEF Explore, witnessVars, WitnessInv
<1>3. NativeInv /\ WitnessInv /\ [NativeNext]_nativeVars => WitnessInv'
  BY <1>2, BeginIsLevelled, DequeueStaysLevelled, SkipStaysLevelled, VisitStaysLevelled,
     FoundStaysLevelled, TraceStaysLevelled, EndStaysLevelled DEF NativeNext
<1> QED
  BY <1>1, <1>3, NativeInvHolds, PTL DEF NativeSpec

LEMMA ShortestWhenNotProved ==
    ASSUME NativeInv, WitnessInv
    PROVE  WitnessIsShortestCounterexample
<1> SUFFICES ASSUME verdict = "NOT PROVED"
             PROVE  /\ witness # << >>
                    /\ Run(witness) \in final
                    /\ \A w \in WordsUpTo(Len(witness) - 1) : Run(w) \notin final \ {Start}
  BY DEF WitnessIsShortestCounterexample
<1>1. /\ stage # "explore" /\ phase = "explored" /\ ~truncated
      /\ target # NoState /\ target # dfaInitial /\ SearchInv
  BY DEF NativeInv, Stages, TargetCounts
<1>2. PICK d \in [Nat -> Nat] : Levels(d)
  BY <1>1 DEF WitnessInv
<1>3. /\ d[dfaInitial] = 0 /\ tail = dfaInitial
      /\ target \in visited /\ ReachedBelow(d, target) /\ NoneShorter(d)
      /\ OnTrace(d)
  BY <1>1, <1>2 DEF Levels
<1>4. witness \in Seq(Symbols) /\ Len(witness) \in Nat /\ Len(witness) = d[target]
  <2>1. witness \in Seq(Symbols) /\ Len(witness) + d[dfaInitial] = d[target]
    BY <1>3 DEF OnTrace
  <2> QED
    BY <1>3, <2>1, WordsOfSymbols, Zenon
<1>5. witness # << >>
  <2>1. PICK p \in visited : d[target] = d[p] + 1
    BY <1>3 DEF ReachedBelow
  <2>2. d[p] \in Nat
    BY DEF NativeInv, WitnessTypes
  <2>3. Len(<< >>) = 0
    OBVIOUS
  <2> QED
    BY <1>4, <2>1, <2>2, <2>3, Counting, Zenon
<1>6. Run(witness) \in final
  <2>1. PICK s \in Known : idOf[s] = dfaInitial /\ RunFrom(delta, s, witness) \in final
    BY <1>3 DEF OnTrace
  <2>2. s = Start
    BY <1>1, <2>1, TableOfKnown DEF SearchInv, Numbering
  <2> QED
    BY <2>1, <2>2, RunIsRunFrom
<1>7. ASSUME NEW w \in WordsUpTo(Len(witness) - 1)
      PROVE  Run(w) \notin final \ {Start}
  <2>1. PICK k \in 1..(Len(witness) - 1) : w \in [1..k -> Symbols]
    BY DEF WordsUpTo
  <2>2. w \in Seq(Symbols) /\ Len(w) < d[target]
    BY <1>4, <2>1, Counting, WordsOfSymbols, Zenon
  <2> QED
    BY <1>3, <2>2, RunIsRunFrom DEF NoneShorter
<1> QED
  BY <1>5, <1>6, <1>7

\* A NOT PROVED comes with a nonempty word the automaton accepts, and no shorter
\* word ends in an accepting summary other than the initial one, whatever the
\* automaton, the alphabet and the budget.
THEOREM WitnessIsShortest == NativeSpec => []WitnessIsShortestCounterexample
  BY ShortestWhenNotProved, NativeInvHolds, WitnessInvHolds, PTL

=============================================================================
