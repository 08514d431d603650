--------------------------- MODULE CompilerProofs -----------------------------
(***************************************************************************)
(* The compiler is right, end to end, for every DAG that compiles and      *)
(* every word: the alternating automaton of fromFuture2ltl is well formed  *)
(* and very weak, it accepts the words of its future formula, and the      *)
(* reverse Boolean automaton made of it answers what the input formula     *)
(* says.                                                                   *)
(*                                                                         *)
(* A transition formula says what its body says as long as its atoms do    *)
(* (PredicateIsPositive, TopAtIsPositive, UntilAtIsPositive).  That the    *)
(* atoms do is an induction along three orders: the pebble, from the end   *)
(* of the word to the left (carry); the names, in the order of the DAG     *)
(* (goto); and the head, from the end of the word to the pebble (leave).   *)
(* finalOf is the base of the last one: the value on the EOS boundary.     *)
(***************************************************************************)
EXTENDS FormulaProofs

-----------------------------------------------------------------------------
(***************************************************************************)
(* Positive formulas, and what they say under a letter when some of the    *)
(* atoms hold.                                                             *)
(***************************************************************************)

\* The positive formulas over some atoms, as the constructors build them.
PositiveOver(A) ==
    {p \in [clauses : SUBSET [letters : SUBSET Alphabet, atoms : SUBSET A], atoms : SUBSET A] :
        IsFiniteSet(p.atoms) /\ \A c \in p.clauses : c.atoms \subseteq p.atoms}

\* A positive formula under a letter, when the atoms in T hold.
Sat(p, letter, T) == \E c \in p.clauses : letter \in c.letters /\ c.atoms \subseteq T

\* What the constructor Positive builds.
LEMMA PositiveType ==
    ASSUME NEW A, NEW cs, cs \subseteq [letters : SUBSET Alphabet, atoms : SUBSET A],
           NEW as, as \subseteq A, IsFiniteSet(as), \A c \in cs : c.atoms \subseteq as
    PROVE  Positive(cs, as) \in PositiveOver(A)
BY DEF Positive, PositiveOver

\* A constant says itself,
LEMMA ConstantIsPositive ==
    ASSUME NEW A, NEW b \in BOOLEAN
    PROVE  /\ PositiveConstant(b) \in PositiveOver(A)
           /\ \A l \in Alphabet : \A T : Sat(PositiveConstant(b), l, T) <=> b
<1> DEFINE cs == IF b THEN {Clause(Alphabet, {})} ELSE {}
<1>1. PositiveConstant(b) = Positive(cs, {})
    BY DEF PositiveConstant
<1>2. Clause(Alphabet, {}) = [letters |-> Alphabet, atoms |-> {}]
    BY DEF Clause
<1>3. cs \subseteq [letters : SUBSET Alphabet, atoms : SUBSET A] /\ \A c \in cs : c.atoms \subseteq {}
    BY <1>2
<1>4. IsFiniteSet({})
    BY FS_EmptySet
<1>5. PositiveConstant(b) \in PositiveOver(A)
    <2> HIDE DEF cs
    <2> QED BY <1>1, <1>3, <1>4, PositiveType
<1>6. ASSUME NEW l \in Alphabet, NEW T PROVE Sat(PositiveConstant(b), l, T) <=> b
    <2>1. PositiveConstant(b).clauses = cs
        BY <1>1 DEF Positive
    <2>2. b => cs = {[letters |-> Alphabet, atoms |-> {}]}
        BY <1>2
    <2>3. ~b => cs = {}
        OBVIOUS
    <2> HIDE DEF cs
    <2> QED BY <2>1, <2>2, <2>3 DEF Sat
<1> QED BY <1>5, <1>6

\* a test says whether the letter passes it,
LEMMA TestIsPositive ==
    ASSUME NEW A, NEW atom, NEW dual \in BOOLEAN
    PROVE  /\ SymbolTest(atom, dual) \in PositiveOver(A)
           /\ \A l \in Alphabet : \A T : Sat(SymbolTest(atom, dual), l, T) <=> (SymbolMatches(atom, l) # dual)
<1> DEFINE L == {a \in Alphabet : SymbolMatches(atom, a) # dual}
           cs == {Clause(L, {})}
<1>1. SymbolTest(atom, dual) = Positive(cs, {})
    BY DEF SymbolTest
<1> HIDE DEF L
<1>2. Clause(L, {}) = [letters |-> L, atoms |-> {}] /\ L \subseteq Alphabet
    BY DEF Clause, L
<1>3. cs \subseteq [letters : SUBSET Alphabet, atoms : SUBSET A] /\ \A c \in cs : c.atoms \subseteq {}
    BY <1>2
<1>4. IsFiniteSet({})
    BY FS_EmptySet
<1>5. SymbolTest(atom, dual) \in PositiveOver(A)
    <2> HIDE DEF cs
    <2> QED BY <1>1, <1>3, <1>4, PositiveType
<1>6. ASSUME NEW l \in Alphabet, NEW T
      PROVE  Sat(SymbolTest(atom, dual), l, T) <=> (SymbolMatches(atom, l) # dual)
    <2>1. SymbolTest(atom, dual).clauses = {[letters |-> L, atoms |-> {}]}
        BY <1>1, <1>2 DEF Positive
    <2>2. Sat(SymbolTest(atom, dual), l, T) <=> l \in L
        BY <2>1 DEF Sat
    <2> QED BY <2>2 DEF L
<1> QED BY <1>5, <1>6

\* and an atom whether it holds.
LEMMA AtomIsPositive ==
    ASSUME NEW A, NEW s, NEW action, [state |-> s, action |-> action] \in A
    PROVE  /\ TransitionAtom(s, action) \in PositiveOver(A)
           /\ TransitionAtom(s, action).atoms = {[state |-> s, action |-> action]}
           /\ \A l \in Alphabet : \A T :
                Sat(TransitionAtom(s, action), l, T) <=> [state |-> s, action |-> action] \in T
<1> DEFINE x == [state |-> s, action |-> action]
           cs == {Clause(Alphabet, {x})}
<1>1. TransitionAtom(s, action) = Positive(cs, {x})
    BY DEF TransitionAtom
<1> HIDE DEF x
<1>2. Clause(Alphabet, {x}) = [letters |-> Alphabet, atoms |-> {x}] /\ x \in A
    BY DEF Clause, x
<1>3. cs \subseteq [letters : SUBSET Alphabet, atoms : SUBSET A] /\ \A c \in cs : c.atoms \subseteq {x}
    BY <1>2
<1>4. IsFiniteSet({x}) /\ {x} \subseteq A
    BY <1>2, FS_Singleton
<1>5. TransitionAtom(s, action) \in PositiveOver(A)
    <2> HIDE DEF cs
    <2> QED BY <1>1, <1>3, <1>4, PositiveType
<1>6. TransitionAtom(s, action).clauses = {[letters |-> Alphabet, atoms |-> {x}]} /\ TransitionAtom(s, action).atoms = {x}
    BY <1>1, <1>2 DEF Positive
<1>7. ASSUME NEW l \in Alphabet, NEW T PROVE Sat(TransitionAtom(s, action), l, T) <=> x \in T
    BY <1>6 DEF Sat
<1> QED BY <1>5, <1>6, <1>7 DEF x

\* A sequence of positive formulas and the connectives over it.
LEMMA AtomsOfMany ==
    ASSUME NEW A, NEW D, IsFiniteSet(D), NEW ops, DOMAIN ops = D, \A k \in D : ops[k] \in PositiveOver(A)
    PROVE  /\ AllAtoms(ops) \subseteq A /\ IsFiniteSet(AllAtoms(ops))
           /\ \A k \in D : ops[k].atoms \subseteq AllAtoms(ops)
<1> DEFINE S == {ops[k].atoms : k \in D}
           f == [k \in D |-> ops[k].atoms]
<1>1. f \in Surjection(D, S)
    BY DEF Surjection
<1>2. IsFiniteSet(S)
    BY <1>1, FS_Surjection
<1>3. \A s \in S : IsFiniteSet(s) /\ s \subseteq A
    BY DEF PositiveOver
<1>4. AllAtoms(ops) = UNION S
    BY DEF AllAtoms
<1>5. IsFiniteSet(UNION S)
    <2> HIDE DEF S
    <2> QED BY <1>2, <1>3, FS_UNION
<1> QED BY <1>3, <1>4, <1>5

\* A disjunction holds when one of its operands does,
LEMMA OrIsPositive ==
    ASSUME NEW A, NEW D, IsFiniteSet(D), NEW ops, DOMAIN ops = D, \A k \in D : ops[k] \in PositiveOver(A)
    PROVE  /\ PositiveOr(ops) \in PositiveOver(A) /\ PositiveOr(ops).atoms = AllAtoms(ops)
           /\ \A l, T : Sat(PositiveOr(ops), l, T) <=> \E k \in D : Sat(ops[k], l, T)
<1>1. PositiveOr(ops) = Positive(AllClauses(ops), AllAtoms(ops))
    BY DEF PositiveOr
<1>2. \A c : c \in AllClauses(ops) <=> \E k \in D : c \in ops[k].clauses
    BY DEF AllClauses
<1>3. AllClauses(ops) \subseteq [letters : SUBSET Alphabet, atoms : SUBSET A]
    BY <1>2 DEF PositiveOver
<1>4. \A c \in AllClauses(ops) : c.atoms \subseteq AllAtoms(ops)
    BY <1>2, AtomsOfMany DEF PositiveOver
<1>5. PositiveOr(ops) \in PositiveOver(A)
    BY <1>1, <1>3, <1>4, AtomsOfMany, PositiveType
<1>6. PositiveOr(ops).clauses = AllClauses(ops) /\ PositiveOr(ops).atoms = AllAtoms(ops)
    BY <1>1 DEF Positive
<1>7. \A l, T : Sat(PositiveOr(ops), l, T) <=> \E k \in D : Sat(ops[k], l, T)
    BY <1>2, <1>6 DEF Sat
<1> QED BY <1>5, <1>6, <1>7

\* a conjunction when all of them do,
LEMMA AndIsPositive ==
    ASSUME NEW A, NEW D, IsFiniteSet(D), NEW ops, DOMAIN ops = D, \A k \in D : ops[k] \in PositiveOver(A)
    PROVE  /\ PositiveAnd(ops) \in PositiveOver(A) /\ PositiveAnd(ops).atoms = AllAtoms(ops)
           /\ \A l \in Alphabet : \A T : Sat(PositiveAnd(ops), l, T) <=> \A k \in D : Sat(ops[k], l, T)
<1> DEFINE Js == {Joint(ops, c) : c \in ClauseChoices(ops)}
<1>1. PositiveAnd(ops) = Positive(Js, AllAtoms(ops))
    BY DEF PositiveAnd
<1>2. ASSUME NEW c \in ClauseChoices(ops)
      PROVE  /\ \A k \in D : c[k] \in ops[k].clauses
             /\ Joint(ops, c).letters = {a \in Alphabet : \A k \in D : a \in c[k].letters}
             /\ Joint(ops, c).atoms = UNION {c[k].atoms : k \in D}
             /\ Joint(ops, c).atoms \subseteq AllAtoms(ops)
             /\ Joint(ops, c) \in [letters : SUBSET Alphabet, atoms : SUBSET A]
    <2> DEFINE L == {a \in Alphabet : \A k \in D : a \in c[k].letters}
               U == UNION {c[k].atoms : k \in D}
    <2>1. \A k \in D : c[k] \in ops[k].clauses
        BY DEF ClauseChoices
    <2>2. Joint(ops, c) = [letters |-> L, atoms |-> U]
        BY DEF Joint, Clause
    <2>3. L \in SUBSET Alphabet
        OBVIOUS
    <2>4. U \subseteq AllAtoms(ops)
        <3>1. \A k \in D : c[k].atoms \subseteq ops[k].atoms
            BY <2>1 DEF PositiveOver
        <3> QED BY <3>1, AtomsOfMany
    <2>5. U \in SUBSET A
        BY <2>4, AtomsOfMany
    <2> HIDE DEF L, U
    <2>6. Joint(ops, c) \in [letters : SUBSET Alphabet, atoms : SUBSET A] /\ Joint(ops, c).letters = L /\ Joint(ops, c).atoms = U
        BY <2>2, <2>3, <2>5
    <2> QED BY <2>1, <2>4, <2>6 DEF L, U
<1>3. Js \subseteq [letters : SUBSET Alphabet, atoms : SUBSET A] /\ \A c \in Js : c.atoms \subseteq AllAtoms(ops)
    BY <1>2
<1>4. PositiveAnd(ops) \in PositiveOver(A)
    <2> HIDE DEF Js
    <2> QED BY <1>1, <1>3, AtomsOfMany, PositiveType
<1>5. PositiveAnd(ops).clauses = Js /\ PositiveAnd(ops).atoms = AllAtoms(ops)
    BY <1>1 DEF Positive
<1>6. ASSUME NEW l \in Alphabet, NEW T, Sat(PositiveAnd(ops), l, T) PROVE \A k \in D : Sat(ops[k], l, T)
    <2>1. PICK c \in ClauseChoices(ops) : l \in Joint(ops, c).letters /\ Joint(ops, c).atoms \subseteq T
        BY <1>5, <1>6 DEF Sat
    <2>2. \A k \in D : c[k] \in ops[k].clauses /\ l \in c[k].letters /\ c[k].atoms \subseteq T
        BY <1>2, <2>1
    <2> QED BY <2>2 DEF Sat
<1>7. ASSUME NEW l \in Alphabet, NEW T, \A k \in D : Sat(ops[k], l, T) PROVE Sat(PositiveAnd(ops), l, T)
    <2> DEFINE P(k, x) == x \in ops[k].clauses /\ l \in x.letters /\ x.atoms \subseteq T
               c == [k \in D |-> CHOOSE x : P(k, x)]
    <2>1. \A k \in D : P(k, c[k])
        <3>1. \A k \in D : \E x : P(k, x)
            BY <1>7 DEF Sat
        <3> QED BY <3>1
    <2> HIDE DEF c
    <2>2. c = [k \in D |-> c[k]]
        BY DEF c
    <2>3. \A k \in D : c[k] \in AllClauses(ops)
        BY <2>1 DEF AllClauses
    <2>4. c \in [D -> AllClauses(ops)]
        BY <2>2, <2>3
    <2>5. c \in ClauseChoices(ops)
        BY <2>1, <2>4 DEF ClauseChoices
    <2>6. l \in Joint(ops, c).letters /\ Joint(ops, c).atoms \subseteq T
        BY <1>2, <2>1, <2>5
    <2>7. Joint(ops, c) \in PositiveAnd(ops).clauses
        BY <1>5, <2>5
    <2> QED BY <2>6, <2>7 DEF Sat
<1> QED BY <1>4, <1>5, <1>6, <1>7

\* and Combine is the one or the other.
LEMMA CombineIsPositive ==
    ASSUME NEW A, NEW D, IsFiniteSet(D), NEW ops, DOMAIN ops = D, \A k \in D : ops[k] \in PositiveOver(A),
           NEW op \in {"and", "or"}, NEW dual \in BOOLEAN
    PROVE  /\ Combine(op, dual, ops) \in PositiveOver(A) /\ Combine(op, dual, ops).atoms = AllAtoms(ops)
           /\ \A k \in D : ops[k].atoms \subseteq AllAtoms(ops)
           /\ (op = "and") # dual => \A l \in Alphabet : \A T : Sat(Combine(op, dual, ops), l, T) <=> \A k \in D : Sat(ops[k], l, T)
           /\ ~((op = "and") # dual) => \A l \in Alphabet : \A T : Sat(Combine(op, dual, ops), l, T) <=> \E k \in D : Sat(ops[k], l, T)
<1>1. CASE (op = "and") # dual
    <2>1. Combine(op, dual, ops) = PositiveAnd(ops)
        BY <1>1 DEF Combine
    <2> QED BY <1>1, <2>1, AndIsPositive, AtomsOfMany
<1>2. CASE ~((op = "and") # dual)
    <2>1. Combine(op, dual, ops) = PositiveOr(ops)
        BY <1>2 DEF Combine
    <2> QED BY <1>2, <2>1, OrIsPositive, AtomsOfMany
<1> QED BY <1>1, <1>2

-----------------------------------------------------------------------------
(***************************************************************************)
(* Pushing negations to the leaves gives positive formulas that say what   *)
(* the formula, or its negation, says.                                     *)
(***************************************************************************)

\* Formulas that are no connectives.
Plain(leaves) == \A f \in leaves : f.op \notin {"not", "and", "or"}

\* What pushing the negations down to the leaves gives.
IsPushed(t, leaves, leaf) ==
    \A f \in Combinations(leaves, MaxHeight + 1), dual \in BOOLEAN :
        t[<<f, dual>>] = PushStep(t, leaf, f, dual)

\* PushStep, arm by arm.
LEMMA PushNot ==
    ASSUME NEW t, NEW leaf, NEW f, f.op = "not", NEW dual
    PROVE  PushStep(t, leaf, f, dual) = t[<<f.arg, ~dual>>]
BY DEF PushStep

\* The arm of conjunctions and disjunctions.
LEMMA PushMany ==
    ASSUME NEW t, NEW leaf, NEW f, f.op \in {"and", "or"}, NEW dual
    PROVE  PushStep(t, leaf, f, dual) = Combine(f.op, dual, [k \in DOMAIN f.args |-> t[<<f.args[k], dual>>]])
BY DEF PushStep

\* The arm of leaves.
LEMMA PushLeaf ==
    ASSUME NEW t, NEW leaf, NEW f, f.op \notin {"not", "and", "or"}, NEW dual
    PROVE  PushStep(t, leaf, f, dual) = leaf[<<f, dual>>]
BY DEF PushStep

\* A step looks at the operands alone.
LEMMA PushDepends ==
    ASSUME NEW leaves, Plain(leaves), NEW leaf, NEW S, NEW f, f \in leaves \/ f \in Connectives(S),
           NEW t, NEW u, \A g \in Parts(f), d \in BOOLEAN : f \notin leaves => t[<<g, d>>] = u[<<g, d>>],
           NEW dual \in BOOLEAN
    PROVE  PushStep(t, leaf, f, dual) = PushStep(u, leaf, f, dual)
<1>1. CASE f \in leaves
    <2>1. f.op \notin {"not", "and", "or"}
        BY <1>1 DEF Plain
    <2>2. PushStep(t, leaf, f, dual) = leaf[<<f, dual>>] /\ PushStep(u, leaf, f, dual) = leaf[<<f, dual>>]
        BY <2>1, PushLeaf
    <2> QED BY <2>2
<1>2. CASE f \notin leaves
    <2>1. \A g \in Parts(f) : t[<<g, dual>>] = u[<<g, dual>>] /\ t[<<g, ~dual>>] = u[<<g, ~dual>>]
        BY <1>2
    <2>2. CASE f.op = "not"
        <3>1. Parts(f) = {f.arg}
            BY <2>2 DEF Parts
        <3> QED BY <2>1, <2>2, <3>1, PushNot
    <2>3. CASE f.op \in {"and", "or"}
        <3>1. Parts(f) = {f.args[k] : k \in DOMAIN f.args}
            BY <2>3 DEF Parts
        <3>2. [k \in DOMAIN f.args |-> t[<<f.args[k], dual>>]] = [k \in DOMAIN f.args |-> u[<<f.args[k], dual>>]]
            BY <2>1, <3>1
        <3>3. /\ PushStep(t, leaf, f, dual) = Combine(f.op, dual, [k \in DOMAIN f.args |-> t[<<f.args[k], dual>>]])
              /\ PushStep(u, leaf, f, dual) = Combine(f.op, dual, [k \in DOMAIN f.args |-> u[<<f.args[k], dual>>]])
            BY <2>3, PushMany
        <3> QED BY <3>2, <3>3
    <2> QED BY <1>2, <2>2, <2>3, ConnectiveShapes
<1> QED BY <1>1, <1>2

\* So pushing is defined on every combination, layer by layer.
LEMMA PushExists ==
    ASSUME NEW leaves, Plain(leaves), NEW leaf
    PROVE  \E t : /\ t = [x \in Combinations(leaves, MaxHeight + 1) \X BOOLEAN |-> t[x]]
                  /\ IsPushed(t, leaves, leaf)
<1> DEFINE h == MaxHeight + 1
           C == Combinations(leaves, h)
           X == C \X BOOLEAN
<1>1. h \in Nat
    BY MaxHeightAssumption
<1>2. PICK m \in [C -> 0..h] :
                \A f \in C : f \in leaves \/ (/\ f \in Connectives(C)
                                              /\ \A g \in Parts(f) : g \in C /\ m[g] < m[f])
    BY <1>1, CombinationSizes
<1> DEFINE Good == {n \in Nat : \E t : /\ t = [x \in X |-> t[x]]
                                       /\ \A f \in C, d \in BOOLEAN :
                                            m[f] < n => t[<<f, d>>] = PushStep(t, leaf, f, d)}
<1> HIDE DEF h, C
<1>3. 0 \in Good
    <2> DEFINE t == [x \in X |-> x]
    <2>1. t = [x \in X |-> t[x]]
        OBVIOUS
    <2>2. \A f \in C : ~(m[f] < 0)
        BY <1>1, <1>2
    <2> QED BY <2>1, <2>2
<1>4. ASSUME NEW n \in Nat, n \in Good PROVE n + 1 \in Good
    <2>1. PICK t : /\ t = [x \in X |-> t[x]]
                   /\ \A f \in C, d \in BOOLEAN : m[f] < n => t[<<f, d>>] = PushStep(t, leaf, f, d)
        BY <1>4
    <2> DEFINE u == [x \in X |-> PushStep(t, leaf, x[1], x[2])]
    <2>2. ASSUME NEW f \in C, NEW d \in BOOLEAN, m[f] < n + 1 PROVE u[<<f, d>>] = PushStep(u, leaf, f, d)
        <3>1. \A g \in Parts(f), c \in BOOLEAN : f \notin leaves => t[<<g, c>>] = u[<<g, c>>]
            <4> SUFFICES ASSUME NEW g \in Parts(f), NEW c \in BOOLEAN, f \notin leaves
                         PROVE  t[<<g, c>>] = u[<<g, c>>]
                OBVIOUS
            <4>1. g \in C /\ m[g] < n
                BY <1>1, <1>2, <2>2
            <4>2. u[<<g, c>>] = PushStep(t, leaf, g, c)
                BY <4>1
            <4> QED BY <2>1, <4>1, <4>2
        <3>2. u[<<f, d>>] = PushStep(t, leaf, f, d)
            OBVIOUS
        <3> HIDE DEF u
        <3>3. f \in leaves \/ f \in Connectives(C)
            BY <1>2
        <3>4. PushStep(t, leaf, f, d) = PushStep(u, leaf, f, d)
            BY <3>1, <3>3, PushDepends
        <3> QED BY <3>2, <3>4
    <2>3. u = [x \in X |-> u[x]]
        OBVIOUS
    <2> HIDE DEF u, X
    <2> QED BY <2>2, <2>3
<1>5. h + 1 \in Nat /\ \A k \in 0..h : k < h + 1
    BY <1>1
<1>6. h + 1 \in Good
    <2> HIDE DEF Good
    <2> QED BY <1>3, <1>4, <1>5, NumbersFollow
<1>7. PICK t : /\ t = [x \in X |-> t[x]]
               /\ \A f \in C, d \in BOOLEAN : m[f] < h + 1 => t[<<f, d>>] = PushStep(t, leaf, f, d)
    BY <1>6
<1>8. IsPushed(t, leaves, leaf)
    <2> SUFFICES ASSUME NEW f \in C, NEW d \in BOOLEAN PROVE t[<<f, d>>] = PushStep(t, leaf, f, d)
        BY DEF C, h, IsPushed
    <2>1. m[f] < h + 1
        BY <1>2, <1>5
    <2> QED BY <1>7, <2>1
<1> QED BY <1>7, <1>8 DEF C, h

\* Pushed reads such a table.
LEMMA PushedIs ==
    ASSUME NEW leaves, Plain(leaves), NEW leaf
    PROVE  \E t : /\ \A f, dual : Pushed(leaves, leaf, f, dual) = t[<<f, dual>>]
                  /\ IsPushed(t, leaves, leaf)
<1>0. PICK s : /\ s = [x \in Combinations(leaves, MaxHeight + 1) \X BOOLEAN |-> s[x]]
               /\ IsPushed(s, leaves, leaf)
    BY PushExists
<1> DEFINE Whole(t) == [x \in Combinations(leaves, MaxHeight + 1) \X BOOLEAN |-> PushStep(t, leaf, x[1], x[2])]
           t == CHOOSE t : t = Whole(t)
<1>1. \A f, dual : Pushed(leaves, leaf, f, dual) = t[<<f, dual>>]
    BY Zenon DEF Pushed
<1>2. s = Whole(s)
    <2> DEFINE X == Combinations(leaves, MaxHeight + 1) \X BOOLEAN
    <2>1. \A x \in X : s[x] = PushStep(s, leaf, x[1], x[2])
        <3> SUFFICES ASSUME NEW f \in Combinations(leaves, MaxHeight + 1), NEW d \in BOOLEAN
                     PROVE  s[<<f, d>>] = PushStep(s, leaf, f, d)
            OBVIOUS
        <3> QED BY <1>0 DEF IsPushed
    <2> HIDE DEF X
    <2>2. s = [x \in X |-> PushStep(s, leaf, x[1], x[2])]
        BY <1>0, <2>1 DEF X
    <2> QED BY <2>2 DEF X
<1>3. t = Whole(t)
    BY <1>2
<1> HIDE DEF t
<1>4. IsPushed(t, leaves, leaf)
    BY <1>3 DEF IsPushed
<1> QED BY <1>1, <1>4

\* What pushing gives is positive when the leaves' formulas are.
LEMMA PushedType ==
    ASSUME NEW leaves, Plain(leaves), NEW leaf, NEW t, IsPushed(t, leaves, leaf), NEW A,
           \A f \in leaves, dual \in BOOLEAN : leaf[<<f, dual>>] \in PositiveOver(A)
    PROVE  \A f \in Combinations(leaves, MaxHeight + 1), dual \in BOOLEAN : t[<<f, dual>>] \in PositiveOver(A)
<1> DEFINE h == MaxHeight + 1
           C(n) == Combinations(leaves, n)
           S == {f \in C(h) : \A dual \in BOOLEAN : t[<<f, dual>>] \in PositiveOver(A)}
<1>1. h \in Nat
    BY MaxHeightAssumption
<1>2. ASSUME NEW n \in 0..h PROVE C(n) \subseteq C(h)
    BY <1>1, CombinationsGrow
<1>3. leaves \subseteq S
    <2> SUFFICES ASSUME NEW f \in leaves, NEW dual \in BOOLEAN PROVE f \in C(h) /\ t[<<f, dual>>] \in PositiveOver(A)
        OBVIOUS
    <2>1. f \in C(h)
        BY <1>1, <1>2, CombinationsZero
    <2>2. t[<<f, dual>>] = leaf[<<f, dual>>]
        BY <2>1, PushLeaf DEF IsPushed, Plain
    <2> QED BY <2>1, <2>2
<1>4. ASSUME NEW n \in 0..(h - 1), C(n) \subseteq S PROVE Connectives(C(n)) \subseteq S
    <2> SUFFICES ASSUME NEW f \in Connectives(C(n)), NEW dual \in BOOLEAN
                 PROVE  f \in C(h) /\ t[<<f, dual>>] \in PositiveOver(A)
        OBVIOUS
    <2>1. f \in C(h)
        <3>1. f \in C(n + 1)
            BY <1>1, CombinationsNext DEF Wider
        <3>2. n + 1 \in 0..h
            BY <1>1
        <3> QED BY <1>2, <3>1, <3>2
    <2>2. t[<<f, dual>>] = PushStep(t, leaf, f, dual)
        BY <2>1 DEF IsPushed
    <2>3. CASE f.op = "not" /\ f.arg \in C(n)
        <3>1. PushStep(t, leaf, f, dual) = t[<<f.arg, ~dual>>]
            BY <2>3, PushNot
        <3>2. \A d \in BOOLEAN : t[<<f.arg, d>>] \in PositiveOver(A)
            BY <1>4, <2>3
        <3>3. t[<<f.arg, ~dual>>] \in PositiveOver(A)
            BY <3>2
        <3> QED BY <2>1, <2>2, <3>1, <3>3
    <2>4. CASE f.op \in {"and", "or"} /\ f.args \in Seq(C(n))
        <3> DEFINE D == DOMAIN f.args
                   ops == [k \in D |-> t[<<f.args[k], dual>>]]
        <3>1. IsFiniteSet(D)
            <4>1. D = 1..Len(f.args) /\ Len(f.args) \in Nat
                BY <2>4
            <4> QED BY <4>1, FS_Interval
        <3>2. \A k \in D : ops[k] \in PositiveOver(A)
            <4>1. \A k \in D : f.args[k] \in C(n)
                BY <2>4
            <4> QED BY <1>4, <4>1
        <3>3. DOMAIN ops = D
            OBVIOUS
        <3>4. t[<<f, dual>>] = Combine(f.op, dual, ops)
            BY <2>2, <2>4, PushMany
        <3> HIDE DEF D, ops
        <3> QED BY <2>1, <2>4, <3>1, <3>2, <3>3, <3>4, CombineIsPositive
    <2> QED BY <2>3, <2>4, ConnectiveShapes
<1>5. \A n \in 0..h : C(n) \subseteq S
    <2> HIDE DEF S, h
    <2> QED BY <1>1, <1>3, <1>4, CombinationsWithin
<1>6. h \in 0..h
    BY <1>1
<1>7. C(h) \subseteq S
    <2> HIDE DEF S, h
    <2> QED BY <1>5, <1>6
<1> QED BY <1>7

\* A truth value for every formula that respects the connectives.
Respects(b, S) ==
    \A f \in S : /\ f.op = "not" => (b[f] <=> ~b[f.arg])
                 /\ f.op = "and" => (b[f] <=> \A k \in DOMAIN f.args : b[f.args[k]])
                 /\ f.op = "or" => (b[f] <=> \E k \in DOMAIN f.args : b[f.args[k]])

\* The positive formula p says what b says of f, up to the polarity, if all of
\* p's atoms are in W.
Says(p, l, T, W, b, f, dual) == p.atoms \subseteq W => (Sat(p, l, T) <=> (b[f] <=> ~dual))

\* The operands of f say what b says of them.
OperandsSay(A, D, ops, f, dual, l, T, W, b) ==
    /\ IsFiniteSet(D) /\ DOMAIN ops = D /\ \A k \in D : ops[k] \in PositiveOver(A)
    /\ f.op \in {"and", "or"} /\ DOMAIN f.args = D /\ dual \in BOOLEAN /\ l \in Alphabet
    /\ Respects(b, {f})
    /\ \A k \in D : Says(ops[k], l, T, W, b, f.args[k], dual)

\* A connective says what its operands make of it,
LEMMA CombineSays ==
    ASSUME NEW A, NEW D, NEW ops, NEW f, NEW dual, NEW l, NEW T, NEW W, NEW b,
           OperandsSay(A, D, ops, f, dual, l, T, W, b)
    PROVE  Says(Combine(f.op, dual, ops), l, T, W, b, f, dual)
<1> USE DEF OperandsSay
<1> DEFINE p == Combine(f.op, dual, ops)
<1> SUFFICES ASSUME p.atoms \subseteq W PROVE Sat(p, l, T) <=> (b[f] <=> ~dual)
    BY DEF Says
<1>1. /\ p.atoms = AllAtoms(ops)
      /\ \A k \in D : ops[k].atoms \subseteq AllAtoms(ops)
      /\ (f.op = "and") # dual => (Sat(p, l, T) <=> \A k \in D : Sat(ops[k], l, T))
      /\ ~((f.op = "and") # dual) => (Sat(p, l, T) <=> \E k \in D : Sat(ops[k], l, T))
    BY CombineIsPositive
<1>2. \A k \in D : Sat(ops[k], l, T) <=> (b[f.args[k]] <=> ~dual)
    BY <1>1 DEF Says
<1>3. /\ f.op = "and" => (b[f] <=> \A k \in D : b[f.args[k]])
      /\ f.op = "or" => (b[f] <=> \E k \in D : b[f.args[k]])
    BY DEF Respects
<1> HIDE DEF p
<1>4. CASE dual = TRUE
    <2>1. \A k \in D : Sat(ops[k], l, T) <=> ~b[f.args[k]]
        BY <1>2, <1>4
    <2>2. f.op = "and" => (Sat(p, l, T) <=> \E k \in D : Sat(ops[k], l, T))
        BY <1>1, <1>4
    <2>3. f.op = "or" => (Sat(p, l, T) <=> \A k \in D : Sat(ops[k], l, T))
        BY <1>1, <1>4
    <2> QED BY <1>3, <1>4, <2>1, <2>2, <2>3
<1>5. CASE dual = FALSE
    <2>1. \A k \in D : Sat(ops[k], l, T) <=> b[f.args[k]]
        BY <1>2, <1>5
    <2>2. f.op = "and" => (Sat(p, l, T) <=> \A k \in D : Sat(ops[k], l, T))
        BY <1>1, <1>5
    <2>3. f.op = "or" => (Sat(p, l, T) <=> \E k \in D : Sat(ops[k], l, T))
        BY <1>1, <1>5
    <2> QED BY <1>3, <1>5, <2>1, <2>2, <2>3
<1> QED BY <1>4, <1>5

\* and so a combination says what its leaves make of it.
LEMMA PushedSays ==
    ASSUME NEW leaves, Plain(leaves), NEW leaf, NEW t, IsPushed(t, leaves, leaf), NEW A,
           \A f \in leaves, dual \in BOOLEAN : leaf[<<f, dual>>] \in PositiveOver(A),
           NEW l \in Alphabet, NEW T, NEW W, NEW b, Respects(b, Combinations(leaves, MaxHeight + 1)),
           \A f \in leaves, dual \in BOOLEAN : Says(leaf[<<f, dual>>], l, T, W, b, f, dual)
    PROVE  \A f \in Combinations(leaves, MaxHeight + 1), dual \in BOOLEAN : Says(t[<<f, dual>>], l, T, W, b, f, dual)
<1> DEFINE h == MaxHeight + 1
           C(n) == Combinations(leaves, n)
           S == {f \in C(h) : \A dual \in BOOLEAN : Says(t[<<f, dual>>], l, T, W, b, f, dual)}
<1>1. h \in Nat
    BY MaxHeightAssumption
<1>2. ASSUME NEW n \in 0..h PROVE C(n) \subseteq C(h)
    BY <1>1, CombinationsGrow
<1>3. leaves \subseteq S
    <2> SUFFICES ASSUME NEW f \in leaves, NEW dual \in BOOLEAN
                 PROVE  f \in C(h) /\ Says(t[<<f, dual>>], l, T, W, b, f, dual)
        OBVIOUS
    <2>1. f \in C(h)
        BY <1>1, <1>2, CombinationsZero
    <2>2. t[<<f, dual>>] = leaf[<<f, dual>>]
        BY <2>1, PushLeaf DEF IsPushed, Plain
    <2> QED BY <2>1, <2>2
<1>4. ASSUME NEW n \in 0..(h - 1), C(n) \subseteq S PROVE Connectives(C(n)) \subseteq S
    <2> SUFFICES ASSUME NEW f \in Connectives(C(n)), NEW dual \in BOOLEAN
                 PROVE  f \in C(h) /\ Says(t[<<f, dual>>], l, T, W, b, f, dual)
        OBVIOUS
    <2>1. f \in C(h)
        <3>1. f \in C(n + 1)
            BY <1>1, CombinationsNext DEF Wider
        <3>2. n + 1 \in 0..h
            BY <1>1
        <3> QED BY <1>2, <3>1, <3>2
    <2>2. t[<<f, dual>>] = PushStep(t, leaf, f, dual)
        BY <2>1 DEF IsPushed
    <2>3. CASE f.op = "not" /\ f.arg \in C(n)
        <3>1. b[f] <=> ~b[f.arg]
            BY <2>1, <2>3 DEF Respects
        <3>2. t[<<f, dual>>] = t[<<f.arg, ~dual>>]
            BY <2>2, <2>3, PushNot
        <3>3. Says(t[<<f.arg, ~dual>>], l, T, W, b, f.arg, ~dual)
            BY <1>4, <2>3
        <3> QED BY <2>1, <3>1, <3>2, <3>3 DEF Says
    <2>4. CASE f.op \in {"and", "or"} /\ f.args \in Seq(C(n))
        <3> DEFINE D == DOMAIN f.args
                   ops == [k \in D |-> t[<<f.args[k], dual>>]]
        <3>1. IsFiniteSet(D)
            <4>1. D = 1..Len(f.args) /\ Len(f.args) \in Nat
                BY <2>4
            <4> HIDE DEF D
            <4>2. IsFiniteSet(1..Len(f.args))
                BY <4>1, FS_Interval
            <4> QED BY <4>1, <4>2
        <3>2. \A k \in D : f.args[k] \in C(n)
            BY <2>4
        <3>3. \A k \in D : ops[k] \in PositiveOver(A)
            <4>1. \A k \in D : f.args[k] \in C(h)
                BY <1>4, <3>2
            <4>2. \A g \in C(h) : t[<<g, dual>>] \in PositiveOver(A)
                BY PushedType
            <4> QED BY <4>1, <4>2
        <3>4. DOMAIN ops = D
            OBVIOUS
        <3>5. t[<<f, dual>>] = Combine(f.op, dual, ops)
            BY <2>2, <2>4, PushMany
        <3>6. \A k \in D : Says(ops[k], l, T, W, b, f.args[k], dual)
            BY <1>4, <3>2
        <3>7. Respects(b, {f})
            BY <2>1 DEF Respects
        <3>8. DOMAIN f.args = D
            OBVIOUS
        <3> HIDE DEF D, ops
        <3>9. OperandsSay(A, D, ops, f, dual, l, T, W, b)
            BY <2>4, <3>1, <3>3, <3>4, <3>6, <3>7, <3>8 DEF OperandsSay
        <3>10. Says(Combine(f.op, dual, ops), l, T, W, b, f, dual)
            BY <3>9, CombineSays
        <3> QED BY <2>1, <3>5, <3>10
    <2> QED BY <2>3, <2>4, ConnectiveShapes
<1>5. \A n \in 0..h : C(n) \subseteq S
    <2> HIDE DEF S, h
    <2> QED BY <1>1, <1>3, <1>4, CombinationsWithin
<1>6. h \in 0..h
    BY <1>1
<1>7. C(h) \subseteq S
    <2> HIDE DEF S, h
    <2> QED BY <1>5, <1>6
<1> QED BY <1>7

\* What a truth table says of the combinations of some leaves.
LEMMA TruthRespects ==
    ASSUME NEW dg, NEW w, NEW e, IsTruth(dg, w, e), NEW leaves, Plain(leaves),
           Combinations(leaves, MaxHeight + 1) \subseteq FormulasOf(dg),
           NEW i \in Positions(w), NEW j \in Positions(w)
    PROVE  Respects([g \in Combinations(leaves, MaxHeight + 1) |-> e[<<g, i, j>>]],
                    Combinations(leaves, MaxHeight + 1))
<1> DEFINE C == Combinations(leaves, MaxHeight + 1)
           b == [g \in C |-> e[<<g, i, j>>]]
<1>1. MaxHeight + 1 \in Nat
    BY MaxHeightAssumption
<1> SUFFICES ASSUME NEW f \in C
             PROVE  /\ f.op = "not" => (b[f] <=> ~b[f.arg])
                    /\ f.op = "and" => (b[f] <=> \A k \in DOMAIN f.args : b[f.args[k]])
                    /\ f.op = "or" => (b[f] <=> \E k \in DOMAIN f.args : b[f.args[k]])
    BY DEF Respects
<1>2. \/ f \in leaves
      \/ f.op = "not" /\ f.arg \in C
      \/ f.op \in {"and", "or"} /\ f.args \in Seq(C)
    BY <1>1, CombinationShapes
<1>3. b[f] = e[<<f, i, j>>] /\ e[<<f, i, j>>] = Meaning(dg, w, e, f, i, j)
    <2>1. f \in FormulasOf(dg)
        OBVIOUS
    <2> QED BY <2>1, TruthOf
<1>4. CASE f.op = "not"
    <2>1. f.arg \in C
        BY <1>2, <1>4 DEF Plain
    <2>2. Meaning(dg, w, e, f, i, j) <=> ~e[<<f.arg, i, j>>]
        BY <1>4, MeaningNot
    <2> QED BY <1>3, <1>4, <2>1, <2>2
<1>5. CASE f.op \in {"and", "or"}
    <2>1. f.args \in Seq(C)
        BY <1>2, <1>5 DEF Plain
    <2>2. \A k \in DOMAIN f.args : b[f.args[k]] = e[<<f.args[k], i, j>>]
        BY <2>1
    <2>3. f.op = "and" => (Meaning(dg, w, e, f, i, j) <=> \A k \in DOMAIN f.args : e[<<f.args[k], i, j>>])
        BY MeaningAnd
    <2>4. f.op = "or" => (Meaning(dg, w, e, f, i, j) <=> \E k \in DOMAIN f.args : e[<<f.args[k], i, j>>])
        BY MeaningOr
    <2> HIDE DEF b
    <2> QED BY <1>3, <1>5, <2>2, <2>3, <2>4
<1> QED BY <1>4, <1>5

-----------------------------------------------------------------------------
(***************************************************************************)
(* predicate: an operand, with the pebble placed and the head one further. *)
(***************************************************************************)

\* The atoms of transition formulas.
NamedAtom(name, dual, action) == [state |-> NamedState(name, dual), action |-> action]
LoopAtom(q) == [state |-> q, action |-> "leave"]
ToNames(names) == {NamedAtom(m, d, a) : m \in names, d \in BOOLEAN, a \in {"goto", "carry"}}

\* What an operand consists of.
OperandLeaves(names) == Constants \cup Refs(names, Places)

\* What a leaf of an operand looks like.
LEMMA OperandLeafShapes ==
    ASSUME NEW names
    PROVE  /\ Plain(OperandLeaves(names))
           /\ Combinations(OperandLeaves(names), MaxHeight + 1) = Operands(names, MaxHeight + 1)
           /\ \A f \in OperandLeaves(names) :
                \/ f.op = "const" /\ f.value \in BOOLEAN
                \/ f.op = "ref" /\ f.name \in names /\ f.at \in Places
<1>1. \A f \in OperandLeaves(names) :
                \/ f.op = "const" /\ f.value \in BOOLEAN
                \/ f.op = "ref" /\ f.name \in names /\ f.at \in Places
    BY DEF OperandLeaves, Constants, Refs
<1>2. Plain(OperandLeaves(names))
    BY <1>1 DEF Plain
<1> QED BY <1>1, <1>2 DEF OperandLeaves, Operands

\* A table pushed over some leaves is one pushed over fewer.
LEMMA PushedNarrow ==
    ASSUME NEW leaves, NEW fewer, fewer \subseteq leaves, NEW leaf, NEW t, IsPushed(t, leaves, leaf)
    PROVE  IsPushed(t, fewer, leaf)
<1>1. MaxHeight + 1 \in Nat /\ MaxHeight + 1 <= MaxHeight + 1
    BY MaxHeightAssumption
<1>2. Combinations(fewer, MaxHeight + 1) \subseteq Combinations(leaves, MaxHeight + 1)
    BY <1>1, CombinationsGrow
<1> QED BY <1>2 DEF IsPushed

\* The table of predicate.
LEMMA PredicateIs ==
    ASSUME NEW names, NEW fewer, fewer \subseteq names
    PROVE  \E t, leaf : /\ \A f, dual : Predicate(names, f, dual) = t[<<f, dual>>]
                        /\ IsPushed(t, OperandLeaves(fewer), leaf)
                        /\ \A f \in OperandLeaves(fewer), dual \in BOOLEAN :
                                leaf[<<f, dual>>] = PredicateLeaf(f, dual)
<1> DEFINE L == OperandLeaves(names)
           leaf == [x \in L \X BOOLEAN |-> PredicateLeaf(x[1], x[2])]
<1>1. \A f, dual : Predicate(names, f, dual) = Pushed(L, leaf, f, dual)
    BY DEF Predicate, OperandLeaves
<1>2. OperandLeaves(fewer) \subseteq L
    BY DEF OperandLeaves, Refs
<1>3. \A f \in OperandLeaves(fewer), dual \in BOOLEAN : leaf[<<f, dual>>] = PredicateLeaf(f, dual)
    <2> SUFFICES ASSUME NEW f \in OperandLeaves(fewer), NEW dual \in BOOLEAN
                 PROVE  leaf[<<f, dual>>] = PredicateLeaf(f, dual)
        OBVIOUS
    <2>1. <<f, dual>> \in L \X BOOLEAN
        BY <1>2
    <2> QED BY <2>1
<1> HIDE DEF L, leaf
<1>4. Plain(L)
    BY OperandLeafShapes DEF L
<1>5. PICK t : /\ \A f, dual : Pushed(L, leaf, f, dual) = t[<<f, dual>>]
               /\ IsPushed(t, L, leaf)
    BY <1>4, PushedIs
<1>6. IsPushed(t, OperandLeaves(fewer), leaf)
    BY <1>2, <1>5, PushedNarrow
<1> QED BY <1>1, <1>3, <1>5, <1>6

\* What the atoms to the names before say, with the pebble at p and the next
\* position v.
Reads(T, W, dg, e, w, names, p, v) ==
    \A m \in names, dual \in BOOLEAN, j \in Positions(w) :
        /\ NamedAtom(m, dual, "goto") \in W =>
                (NamedAtom(m, dual, "goto") \in T <=> (e[<<dg.definition[m], p, j>>] <=> ~dual))
        /\ NamedAtom(m, dual, "carry") \in W =>
                (NamedAtom(m, dual, "carry") \in T <=> (e[<<dg.definition[m], v, j>>] <=> ~dual))

\* predicate, on a leaf,
LEMMA PredicateLeafIsPositive ==
    ASSUME NEW names, NEW f \in OperandLeaves(names), NEW dual \in BOOLEAN
    PROVE  /\ PredicateLeaf(f, dual) \in PositiveOver(ToNames(names))
           /\ \A l \in Alphabet : \A T, W, dg, e, w, p, v :
                /\ p \in Positions(w) /\ v \in Positions(w) /\ IsTruth(dg, w, e) /\ f \in FormulasOf(dg)
                /\ Reads(T, W, dg, e, w, names, p, v)
                /\ PredicateLeaf(f, dual).atoms \subseteq W
                => (Sat(PredicateLeaf(f, dual), l, T) <=> (e[<<f, p, v>>] <=> ~dual))
<1>1. CASE f.op = "const"
    <2>1. f.value \in BOOLEAN
        BY <1>1, OperandLeafShapes
    <2> DEFINE b == f.value # dual
    <2>2. PredicateLeaf(f, dual) = PositiveConstant(b)
        BY <1>1 DEF PredicateLeaf
    <2>3. b \in BOOLEAN
        OBVIOUS
    <2>4. /\ PositiveConstant(b) \in PositiveOver(ToNames(names))
          /\ \A l \in Alphabet : \A T : Sat(PositiveConstant(b), l, T) <=> b
        <3> HIDE DEF b
        <3> QED BY <2>3, ConstantIsPositive
    <2>5. ASSUME NEW dg, NEW e, NEW w, NEW p, NEW v,
                 p \in Positions(w) /\ v \in Positions(w) /\ IsTruth(dg, w, e) /\ f \in FormulasOf(dg)
          PROVE  b <=> (e[<<f, p, v>>] <=> ~dual)
        <3>1. e[<<f, p, v>>] = f.value
            BY <1>1, <2>5, TruthOf, MeaningConst
        <3> QED BY <2>1, <3>1
    <2> HIDE DEF b
    <2> QED BY <2>2, <2>4, <2>5
<1>2. CASE f.op = "ref" /\ f.name \in names /\ f.at \in Places
    <2> DEFINE a == IF f.at = "i" THEN "goto" ELSE "carry"
               s == NamedState(f.name, dual)
               x == NamedAtom(f.name, dual, a)
    <2>1. PredicateLeaf(f, dual) = TransitionAtom(s, a)
        BY <1>2 DEF PredicateLeaf
    <2>2. x \in ToNames(names) /\ x = [state |-> s, action |-> a]
        BY <1>2 DEF ToNames, NamedAtom
    <2>3. /\ TransitionAtom(s, a) \in PositiveOver(ToNames(names)) /\ TransitionAtom(s, a).atoms = {x}
          /\ \A l \in Alphabet : \A T : Sat(TransitionAtom(s, a), l, T) <=> x \in T
        <3> HIDE DEF x, s, a
        <3> QED BY <2>2, AtomIsPositive
    <2>4. ASSUME NEW T, NEW W, NEW dg, NEW e, NEW w, NEW p, NEW v,
                 p \in Positions(w) /\ v \in Positions(w) /\ IsTruth(dg, w, e) /\ f \in FormulasOf(dg),
                 Reads(T, W, dg, e, w, names, p, v), x \in W
          PROVE  x \in T <=> (e[<<f, p, v>>] <=> ~dual)
        <3> DEFINE d == dg.definition[f.name]
        <3>1. e[<<f, p, v>>] = e[<<d, Place(f.at, p, v), v>>]
            BY <1>2, <2>4, TruthOf, MeaningRef
        <3>2. CASE f.at = "i"
            <4>1. x = NamedAtom(f.name, dual, "goto") /\ Place(f.at, p, v) = p
                BY <3>2 DEF Place
            <4> HIDE DEF x, d
            <4> QED BY <1>2, <2>4, <3>1, <4>1 DEF Reads, d
        <3>3. CASE f.at # "i"
            <4>1. x = NamedAtom(f.name, dual, "carry") /\ Place(f.at, p, v) = v
                BY <3>3 DEF Place
            <4> HIDE DEF x, d
            <4> QED BY <1>2, <2>4, <3>1, <4>1 DEF Reads, d
        <3> QED BY <3>2, <3>3
    <2> HIDE DEF x, s, a
    <2> QED BY <2>1, <2>3, <2>4
<1> QED BY <1>1, <1>2, OperandLeafShapes

\* predicate gives the operand's value at the pebble and the next position.
LEMMA PredicateIsPositive ==
    ASSUME NEW names, NEW fewer, fewer \subseteq names,
           NEW f \in Operands(fewer, MaxHeight + 1), NEW dual \in BOOLEAN
    PROVE  /\ Predicate(names, f, dual) \in PositiveOver(ToNames(fewer))
           /\ \A l \in Alphabet : \A T, W, dg, e, w, p, v :
                /\ p \in Positions(w) /\ v \in Positions(w) /\ IsTruth(dg, w, e)
                /\ fewer \subseteq DOMAIN dg.definition
                /\ Reads(T, W, dg, e, w, fewer, p, v)
                /\ Predicate(names, f, dual).atoms \subseteq W
                => (Sat(Predicate(names, f, dual), l, T) <=> (e[<<f, p, v>>] <=> ~dual))
<1> DEFINE L == OperandLeaves(fewer)
           C == Combinations(L, MaxHeight + 1)
<1>1. PICK t, leaf : /\ \A g, d : Predicate(names, g, d) = t[<<g, d>>]
                     /\ IsPushed(t, L, leaf)
                     /\ \A g \in L, d \in BOOLEAN : leaf[<<g, d>>] = PredicateLeaf(g, d)
    BY PredicateIs
<1>2. Plain(L) /\ f \in C
    BY OperandLeafShapes
<1>3. \A g \in L, d \in BOOLEAN : leaf[<<g, d>>] \in PositiveOver(ToNames(fewer))
    <2> SUFFICES ASSUME NEW g \in L, NEW d \in BOOLEAN PROVE leaf[<<g, d>>] \in PositiveOver(ToNames(fewer))
        OBVIOUS
    <2>1. PredicateLeaf(g, d) \in PositiveOver(ToNames(fewer))
        BY PredicateLeafIsPositive
    <2> QED BY <1>1, <2>1
<1>4. t[<<f, dual>>] \in PositiveOver(ToNames(fewer))
    <2> HIDE DEF L
    <2> QED BY <1>1, <1>2, <1>3, PushedType
<1>5. ASSUME NEW l \in Alphabet, NEW T, NEW W, NEW dg, NEW e, NEW w, NEW p, NEW v,
             p \in Positions(w) /\ v \in Positions(w) /\ IsTruth(dg, w, e) /\ fewer \subseteq DOMAIN dg.definition,
             Reads(T, W, dg, e, w, fewer, p, v),
             t[<<f, dual>>].atoms \subseteq W
      PROVE  Sat(t[<<f, dual>>], l, T) <=> (e[<<f, p, v>>] <=> ~dual)
    <2> DEFINE b == [g \in C |-> e[<<g, p, v>>]]
    <2>1. C \subseteq FormulasOf(dg) /\ L \subseteq C
        <3>1. MaxHeight + 1 \in Nat /\ MaxHeight + 1 <= MaxHeight + 1 /\ 0 <= MaxHeight + 1
            BY MaxHeightAssumption
        <3>2. C \subseteq Formulas(fewer, MaxHeight + 1)
            BY <3>1, OperandLeafShapes, OperandsIn
        <3>3. Formulas(fewer, MaxHeight + 1) \subseteq FormulasOf(dg)
            BY <1>5, <3>1, FormulasGrow DEF FormulasOf
        <3>4. L = Combinations(L, 0)
            BY CombinationsZero
        <3>5. Combinations(L, 0) \subseteq C
            BY <3>1, CombinationsGrow
        <3> QED BY <3>2, <3>3, <3>4, <3>5
    <2>2. Respects(b, C)
        <3> HIDE DEF L
        <3> QED BY <1>2, <1>5, <2>1, TruthRespects
    <2>3. \A g \in L, d \in BOOLEAN : Says(leaf[<<g, d>>], l, T, W, b, g, d)
        <3> SUFFICES ASSUME NEW g \in L, NEW d \in BOOLEAN, PredicateLeaf(g, d).atoms \subseteq W
                     PROVE  Sat(PredicateLeaf(g, d), l, T) <=> (b[g] <=> ~d)
            BY <1>1 DEF Says
        <3>1. b[g] = e[<<g, p, v>>] /\ g \in FormulasOf(dg)
            BY <2>1
        <3>2. Sat(PredicateLeaf(g, d), l, T) <=> (e[<<g, p, v>>] <=> ~d)
            BY <1>5, <3>1, PredicateLeafIsPositive
        <3> QED BY <3>1, <3>2
    <2>4. b[f] = e[<<f, p, v>>]
        BY <1>2
    <2> HIDE DEF L, b
    <2>5. Says(t[<<f, dual>>], l, T, W, b, f, dual)
        BY <1>1, <1>2, <1>3, <2>2, <2>3, PushedSays
    <2> QED BY <1>5, <2>4, <2>5 DEF Says
<1> QED BY <1>1, <1>4, <1>5

\* More atoms only add positive formulas.
LEMMA PositiveGrow ==
    ASSUME NEW A, NEW B, A \subseteq B
    PROVE  PositiveOver(A) \subseteq PositiveOver(B)
BY DEF PositiveOver

\* A choice between two, and both of two.
LEMMA PairIsPositive ==
    ASSUME NEW A, NEW p \in PositiveOver(A), NEW q \in PositiveOver(A)
    PROVE  /\ PositiveOr(<<p, q>>) \in PositiveOver(A) /\ PositiveOr(<<p, q>>).atoms = p.atoms \cup q.atoms
           /\ PositiveAnd(<<p, q>>) \in PositiveOver(A) /\ PositiveAnd(<<p, q>>).atoms = p.atoms \cup q.atoms
           /\ \A l \in Alphabet : \A T :
                /\ Sat(PositiveOr(<<p, q>>), l, T) <=> (Sat(p, l, T) \/ Sat(q, l, T))
                /\ Sat(PositiveAnd(<<p, q>>), l, T) <=> (Sat(p, l, T) /\ Sat(q, l, T))
<1> DEFINE ops == <<p, q>>
           D == 1..2
<1>1. DOMAIN ops = D /\ D = {1, 2} /\ ops[1] = p /\ ops[2] = q
    OBVIOUS
<1>2. IsFiniteSet(D) /\ \A k \in D : ops[k] \in PositiveOver(A)
    <2>1. IsFiniteSet({1, 2})
        <3>1. IsFiniteSet({1} \cup {2})
            BY FS_Singleton, FS_Union
        <3>2. {1} \cup {2} = {1, 2}
            OBVIOUS
        <3> QED BY <3>1, <3>2
    <2>2. \A k \in {1, 2} : ops[k] \in PositiveOver(A)
        BY <1>1
    <2> QED BY <1>1, <2>1, <2>2
<1>3. AllAtoms(ops) = p.atoms \cup q.atoms
    <2>1. AllAtoms(ops) = UNION {ops[k].atoms : k \in {1, 2}}
        BY <1>1 DEF AllAtoms
    <2> HIDE DEF ops
    <2> QED BY <1>1, <2>1
<1> HIDE DEF ops, D
<1>4. /\ PositiveOr(ops) \in PositiveOver(A) /\ PositiveOr(ops).atoms = AllAtoms(ops)
      /\ \A l, T : Sat(PositiveOr(ops), l, T) <=> \E k \in D : Sat(ops[k], l, T)
    BY <1>1, <1>2, OrIsPositive
<1>5. /\ PositiveAnd(ops) \in PositiveOver(A) /\ PositiveAnd(ops).atoms = AllAtoms(ops)
      /\ \A l \in Alphabet : \A T : Sat(PositiveAnd(ops), l, T) <=> \A k \in D : Sat(ops[k], l, T)
    BY <1>1, <1>2, AndIsPositive
<1>6. \A l, T : /\ (\E k \in D : Sat(ops[k], l, T)) <=> (Sat(p, l, T) \/ Sat(q, l, T))
                /\ (\A k \in D : Sat(ops[k], l, T)) <=> (Sat(p, l, T) /\ Sat(q, l, T))
    BY <1>1
<1> QED BY <1>3, <1>4, <1>5, <1>6 DEF ops

-----------------------------------------------------------------------------
(***************************************************************************)
(* An Until as a loop of its state.                                        *)
(***************************************************************************)

\* An Until with the pebble at p, seen from h.
UntilFrom(e, u, p, h, n) ==
    \E v \in (h + 1)..n : e[<<u.right, p, v>>] /\ \A b \in (h + 1)..(v - 1) : e[<<u.left, p, b>>]

\* An Until unfolds at the next position.
LEMMA UntilSteps ==
    ASSUME NEW e, NEW u, NEW p, NEW n \in Nat, NEW h \in 0..n
    PROVE  /\ h = n => ~UntilFrom(e, u, p, h, n)
           /\ h < n => (UntilFrom(e, u, p, h, n)
                            <=> \/ e[<<u.right, p, h + 1>>]
                                \/ e[<<u.left, p, h + 1>>] /\ UntilFrom(e, u, p, h + 1, n))
<1> DEFINE R(v) == e[<<u.right, p, v>>]
           L(v) == e[<<u.left, p, v>>]
<1>1. h = n => ~UntilFrom(e, u, p, h, n)
    <2>1. h = n => (h + 1)..n = {}
        OBVIOUS
    <2> QED BY <2>1 DEF UntilFrom
<1>2. ASSUME h < n, R(h + 1) PROVE UntilFrom(e, u, p, h, n)
    <2>1. h + 1 \in (h + 1)..n /\ \A b \in (h + 1)..((h + 1) - 1) : FALSE
        BY <1>2
    <2> QED BY <1>2, <2>1 DEF UntilFrom
<1>3. ASSUME h < n, L(h + 1), UntilFrom(e, u, p, h + 1, n) PROVE UntilFrom(e, u, p, h, n)
    <2>1. PICK v \in ((h + 1) + 1)..n : R(v) /\ \A b \in ((h + 1) + 1)..(v - 1) : L(b)
        BY <1>3 DEF UntilFrom
    <2>2. v \in (h + 1)..n /\ \A b \in (h + 1)..(v - 1) : b = h + 1 \/ b \in ((h + 1) + 1)..(v - 1)
        OBVIOUS
    <2>3. \A b \in (h + 1)..(v - 1) : L(b)
        BY <1>3, <2>1, <2>2
    <2> QED BY <2>1, <2>2, <2>3 DEF UntilFrom
<1>4. ASSUME h < n, UntilFrom(e, u, p, h, n), ~R(h + 1) PROVE L(h + 1) /\ UntilFrom(e, u, p, h + 1, n)
    <2>1. PICK v \in (h + 1)..n : R(v) /\ \A b \in (h + 1)..(v - 1) : L(b)
        BY <1>4 DEF UntilFrom
    <2>2. v # h + 1
        BY <1>4, <2>1
    <2>3. v \in ((h + 1) + 1)..n /\ h + 1 \in (h + 1)..(v - 1) /\ \A b \in ((h + 1) + 1)..(v - 1) : b \in (h + 1)..(v - 1)
        BY <2>2
    <2>4. L(h + 1) /\ \A b \in ((h + 1) + 1)..(v - 1) : L(b)
        BY <2>1, <2>3
    <2> QED BY <2>1, <2>3, <2>4 DEF UntilFrom
<1> QED BY <1>1, <1>2, <1>3, <1>4

\* The Untils over some names.
UntilsOver(names) == Temporal({}, {"until"}, Operands(names, MaxHeight + 1))

\* What an Until looks like.
LEMMA UntilShape ==
    ASSUME NEW names, NEW u \in UntilsOver(names)
    PROVE  /\ u.op = "until" /\ u = Binary("until", u.left, u.right)
           /\ u.left \in Operands(names, MaxHeight + 1) /\ u.right \in Operands(names, MaxHeight + 1)
BY DEF UntilsOver, Temporal, Binary

\* What an automaton reads with its pebble at p and its head at h.
Scene(T, W, dg, e, w, names, p, h) ==
    /\ IsTruth(dg, w, e) /\ dg.logic = "future" /\ Len(w) \in Nat
    /\ p \in Positions(w) /\ h \in Positions(w) /\ h < Len(w) /\ w[h + 1] \in Alphabet
    /\ names \subseteq DOMAIN dg.definition
    /\ Reads(T, W, dg, e, w, names, p, h + 1)

\* The loop says what the Until says from v.
LoopReads(T, W, e, owner, u, dual, p, v, n) ==
    LoopAtom(owner) \in W => (LoopAtom(owner) \in T <=> (UntilFrom(e, u, p, v, n) <=> ~dual))

\* The positive formula t of an Until says what the Until says from the head.
SaysUntil(t, fewer, u, dual, owner) ==
    /\ t \in PositiveOver(ToNames(fewer) \cup {LoopAtom(owner)})
    /\ \A T, W, dg, e, w, p, h :
        /\ Scene(T, W, dg, e, w, fewer, p, h)
        /\ LoopReads(T, W, e, owner, u, dual, p, h + 1, Len(w))
        /\ t.atoms \subseteq W
        => (Sat(t, w[h + 1], T) <=> (UntilFrom(e, u, p, h, Len(w)) <=> ~dual))

\* The transition formula of an Until is its unfolding.
LEMMA UntilAtIsPositive ==
    ASSUME NEW names, NEW fewer, fewer \subseteq names, NEW u \in UntilsOver(fewer), NEW dual \in BOOLEAN,
           NEW owner
    PROVE  SaysUntil(UntilAt(names, u, dual, owner), fewer, u, dual, owner)
<1> DEFINE A == ToNames(fewer) \cup {LoopAtom(owner)}
           L == Predicate(names, u.left, dual)
           R == Predicate(names, u.right, dual)
           X == TransitionAtom(owner, "leave")
           U == UntilAt(names, u, dual, owner)
<1>1. u.left \in Operands(fewer, MaxHeight + 1) /\ u.right \in Operands(fewer, MaxHeight + 1)
    BY UntilShape
<1>2. U = IF dual THEN PositiveAnd(<<R, PositiveOr(<<L, X>>)>>) ELSE PositiveOr(<<R, PositiveAnd(<<L, X>>)>>)
    BY DEF UntilAt
<1>3. L \in PositiveOver(A) /\ R \in PositiveOver(A)
    <2>1. L \in PositiveOver(ToNames(fewer)) /\ R \in PositiveOver(ToNames(fewer))
        BY <1>1, PredicateIsPositive
    <2>2. ToNames(fewer) \subseteq A
        OBVIOUS
    <2> HIDE DEF A
    <2> QED BY <2>1, <2>2, PositiveGrow
<1>4. /\ X \in PositiveOver(A) /\ X.atoms = {LoopAtom(owner)}
      /\ \A l \in Alphabet : \A T : Sat(X, l, T) <=> LoopAtom(owner) \in T
    <2>1. [state |-> owner, action |-> "leave"] = LoopAtom(owner) /\ LoopAtom(owner) \in A
        BY DEF LoopAtom
    <2> HIDE DEF A
    <2> QED BY <2>1, AtomIsPositive
<1>5. ASSUME NEW T, NEW W, NEW dg, NEW e, NEW w, NEW p, NEW h, Scene(T, W, dg, e, w, fewer, p, h),
             L.atoms \subseteq W, R.atoms \subseteq W
      PROVE  /\ Sat(L, w[h + 1], T) <=> (e[<<u.left, p, h + 1>>] <=> ~dual)
             /\ Sat(R, w[h + 1], T) <=> (e[<<u.right, p, h + 1>>] <=> ~dual)
    <2> DEFINE l == w[h + 1]
               v == h + 1
    <2>1. /\ p \in Positions(w) /\ v \in Positions(w) /\ IsTruth(dg, w, e) /\ l \in Alphabet
          /\ fewer \subseteq DOMAIN dg.definition /\ Reads(T, W, dg, e, w, fewer, p, v)
        BY <1>5 DEF Scene, Positions
    <2> HIDE DEF l, v
    <2>2. Sat(L, l, T) <=> (e[<<u.left, p, v>>] <=> ~dual)
        BY <1>1, <1>5, <2>1, PredicateIsPositive
    <2>3. Sat(R, l, T) <=> (e[<<u.right, p, v>>] <=> ~dual)
        BY <1>1, <1>5, <2>1, PredicateIsPositive
    <2> QED BY <2>2, <2>3 DEF l, v
<1>6. ASSUME NEW T, NEW W, NEW dg, NEW e, NEW w, NEW p, NEW h, Scene(T, W, dg, e, w, fewer, p, h)
      PROVE  /\ w[h + 1] \in Alphabet
             /\ UntilFrom(e, u, p, h, Len(w))
                    <=> \/ e[<<u.right, p, h + 1>>]
                        \/ e[<<u.left, p, h + 1>>] /\ UntilFrom(e, u, p, h + 1, Len(w))
    BY <1>6, UntilSteps DEF Scene, Positions
<1> HIDE DEF L, R, X, U, A
<1>7. CASE dual
    <2> DEFINE V == PositiveOr(<<L, X>>)
    <2>1. /\ V \in PositiveOver(A) /\ V.atoms = L.atoms \cup X.atoms
          /\ \A l \in Alphabet : \A T : Sat(V, l, T) <=> (Sat(L, l, T) \/ Sat(X, l, T))
        BY <1>3, <1>4, PairIsPositive
    <2> HIDE DEF V
    <2>2. U = PositiveAnd(<<R, V>>)
        BY <1>2, <1>7 DEF V
    <2>3. /\ U \in PositiveOver(A) /\ U.atoms = R.atoms \cup V.atoms
          /\ \A l \in Alphabet : \A T : Sat(U, l, T) <=> (Sat(R, l, T) /\ Sat(V, l, T))
        BY <1>3, <2>1, <2>2, PairIsPositive
    <2>4. ASSUME NEW T, NEW W, NEW dg, NEW e, NEW w, NEW p, NEW h, Scene(T, W, dg, e, w, fewer, p, h),
                 LoopReads(T, W, e, owner, u, dual, p, h + 1, Len(w)), U.atoms \subseteq W
          PROVE  Sat(U, w[h + 1], T) <=> (UntilFrom(e, u, p, h, Len(w)) <=> ~dual)
        <3>1. L.atoms \subseteq W /\ R.atoms \subseteq W /\ LoopAtom(owner) \in W
            BY <1>4, <2>1, <2>3, <2>4
        <3>2. Sat(X, w[h + 1], T) <=> ~UntilFrom(e, u, p, h + 1, Len(w))
            BY <1>4, <1>6, <1>7, <2>4, <3>1 DEF LoopReads
        <3>3. Sat(L, w[h + 1], T) <=> ~e[<<u.left, p, h + 1>>]
            BY <1>5, <1>7, <2>4, <3>1
        <3>4. Sat(R, w[h + 1], T) <=> ~e[<<u.right, p, h + 1>>]
            BY <1>5, <1>7, <2>4, <3>1
        <3>5. Sat(U, w[h + 1], T) <=> (Sat(R, w[h + 1], T) /\ (Sat(L, w[h + 1], T) \/ Sat(X, w[h + 1], T)))
            BY <1>6, <2>1, <2>3, <2>4
        <3> QED BY <1>6, <1>7, <2>4, <3>2, <3>3, <3>4, <3>5
    <2> QED BY <2>3, <2>4 DEF U, A, SaysUntil
<1>8. CASE ~dual
    <2> DEFINE V == PositiveAnd(<<L, X>>)
    <2>1. /\ V \in PositiveOver(A) /\ V.atoms = L.atoms \cup X.atoms
          /\ \A l \in Alphabet : \A T : Sat(V, l, T) <=> (Sat(L, l, T) /\ Sat(X, l, T))
        BY <1>3, <1>4, PairIsPositive
    <2> HIDE DEF V
    <2>2. U = PositiveOr(<<R, V>>)
        BY <1>2, <1>8 DEF V
    <2>3. /\ U \in PositiveOver(A) /\ U.atoms = R.atoms \cup V.atoms
          /\ \A l \in Alphabet : \A T : Sat(U, l, T) <=> (Sat(R, l, T) \/ Sat(V, l, T))
        BY <1>3, <2>1, <2>2, PairIsPositive
    <2>4. ASSUME NEW T, NEW W, NEW dg, NEW e, NEW w, NEW p, NEW h, Scene(T, W, dg, e, w, fewer, p, h),
                 LoopReads(T, W, e, owner, u, dual, p, h + 1, Len(w)), U.atoms \subseteq W
          PROVE  Sat(U, w[h + 1], T) <=> (UntilFrom(e, u, p, h, Len(w)) <=> ~dual)
        <3>1. L.atoms \subseteq W /\ R.atoms \subseteq W /\ LoopAtom(owner) \in W
            BY <1>4, <2>1, <2>3, <2>4
        <3>2. Sat(X, w[h + 1], T) <=> UntilFrom(e, u, p, h + 1, Len(w))
            BY <1>4, <1>6, <1>8, <2>4, <3>1 DEF LoopReads
        <3>3. Sat(L, w[h + 1], T) <=> e[<<u.left, p, h + 1>>]
            BY <1>5, <1>8, <2>4, <3>1
        <3>4. Sat(R, w[h + 1], T) <=> e[<<u.right, p, h + 1>>]
            BY <1>5, <1>8, <2>4, <3>1
        <3>5. Sat(U, w[h + 1], T) <=> (Sat(R, w[h + 1], T) \/ (Sat(L, w[h + 1], T) /\ Sat(X, w[h + 1], T)))
            BY <1>6, <2>1, <2>3, <2>4
        <3> QED BY <1>6, <1>8, <2>4, <3>2, <3>3, <3>4, <3>5
    <2> QED BY <2>3, <2>4 DEF U, A, SaysUntil
<1> QED BY <1>7, <1>8

-----------------------------------------------------------------------------
(***************************************************************************)
(* topAt: a whole body, with the head at the pebble.                       *)
(***************************************************************************)

\* The bodies over some names, their leaves, and the loops they can enter.
BodyOver(names) == Bodies(names, {"letter", "eos"}, {}, {"until"}, MaxHeight + 1)
BodyLeavesOver(names) == BodyLeaves(names, {"letter", "eos"}, {}, {"until"}, MaxHeight + 1)
LoopsOver(names) == {LoopAtom(State(u, d)) : u \in UntilsOver(names), d \in BOOLEAN}
Loops(T, W, e, names, p, n) ==
    \A u \in UntilsOver(names), dual \in BOOLEAN : LoopReads(T, W, e, State(u, dual), u, dual, p, p + 1, n)

\* What a leaf of a body looks like.
LEMMA BodyLeafShapes ==
    ASSUME NEW names
    PROVE  /\ Plain(BodyLeavesOver(names))
           /\ Combinations(BodyLeavesOver(names), MaxHeight + 1) = BodyOver(names)
           /\ \A f \in BodyLeavesOver(names) :
                \/ f.op = "const" /\ f.value \in BOOLEAN
                \/ f.op = "atom" /\ f.kind \in {"letter", "eos"} /\ f.at = "i"
                \/ f.op = "ref" /\ f.name \in names /\ f.at = "i"
                \/ f.op = "until" /\ f \in UntilsOver(names)
<1>1. \A f \in BodyLeavesOver(names) : f \in Anchored(names, {"letter", "eos"}) \/ f \in UntilsOver(names)
    BY DEF BodyLeavesOver, BodyLeaves, UntilsOver, Anchored
<1>2. \A f \in Anchored(names, {"letter", "eos"}) :
                \/ f.op = "const" /\ f.value \in BOOLEAN
                \/ f.op = "atom" /\ f.kind \in {"letter", "eos"} /\ f.at = "i"
                \/ f.op = "ref" /\ f.name \in names /\ f.at = "i"
    BY DEF Anchored, Constants, Atoms, Refs
<1>3. \A f \in UntilsOver(names) : f.op = "until"
    BY UntilShape
<1>4. \A f \in BodyLeavesOver(names) :
                \/ f.op = "const" /\ f.value \in BOOLEAN
                \/ f.op = "atom" /\ f.kind \in {"letter", "eos"} /\ f.at = "i"
                \/ f.op = "ref" /\ f.name \in names /\ f.at = "i"
                \/ f.op = "until" /\ f \in UntilsOver(names)
    BY <1>1, <1>2, <1>3
<1>5. Plain(BodyLeavesOver(names))
    BY <1>4 DEF Plain
<1> QED BY <1>4, <1>5, BodiesAre DEF BodyOver, BodyLeavesOver

\* Bodies are combinations of such leaves.
LEMMA BodiesOverIn ==
    ASSUME NEW names, NEW dg, names \subseteq DOMAIN dg.definition
    PROVE  /\ BodyOver(names) \subseteq FormulasOf(dg) /\ BodyLeavesOver(names) \subseteq BodyOver(names)
           /\ UntilsOver(names) \subseteq BodyLeavesOver(names)
<1>1. MaxHeight + 1 \in Nat /\ MaxHeight + 1 <= MaxHeight + 1 /\ 0 <= MaxHeight + 1
    BY MaxHeightAssumption
<1>2. BodyOver(names) \subseteq Formulas(names, MaxHeight + 1)
    <2>1. {"letter", "eos"} \in SUBSET Kinds /\ {} \in SUBSET (PastUnary \cup FutureUnary)
          /\ {"until"} \in SUBSET {"since", "until"}
        BY DEF Kinds
    <2> QED BY <1>1, <2>1, BodiesIn DEF BodyOver
<1>3. Formulas(names, MaxHeight + 1) \subseteq FormulasOf(dg)
    BY <1>1, FormulasGrow DEF FormulasOf
<1>4. BodyLeavesOver(names) \subseteq BodyOver(names)
    <2> DEFINE L == BodyLeavesOver(names)
    <2> HIDE DEF L
    <2>1. Combinations(L, 0) \subseteq Combinations(L, MaxHeight + 1)
        BY <1>1, CombinationsGrow
    <2>2. L \subseteq Combinations(L, MaxHeight + 1)
        BY <2>1, CombinationsZero
    <2> QED BY <2>2, BodyLeafShapes DEF L
<1>5. UntilsOver(names) \subseteq BodyLeavesOver(names)
    BY DEF BodyLeavesOver, BodyLeaves, UntilsOver
<1> QED BY <1>2, <1>3, <1>4, <1>5

\* An Until in a body starts where the pebble is.
LEMMA UntilIsFromThePebble ==
    ASSUME NEW dg, NEW w, NEW e, IsTruth(dg, w, e), NEW u \in FormulasOf(dg), u.op = "until",
           NEW p \in Positions(w), NEW j \in Positions(w)
    PROVE  e[<<u, p, j>>] <=> UntilFrom(e, u, p, p, Len(w))
<1>1. e[<<u, p, j>>] = Meaning(dg, w, e, u, p, j)
    BY TruthOf
<1>2. Meaning(dg, w, e, u, p, j) <=> UntilFrom(e, u, p, p, Len(w))
    BY MeaningUntil DEF UntilFrom
<1> QED BY <1>1, <1>2

\* What a leaf of a body says when the head is at the pebble.
LEMMA TopLeafIsPositive ==
    ASSUME NEW names, NEW fewer, fewer \subseteq names, NEW f \in BodyLeavesOver(fewer), NEW dual \in BOOLEAN
    PROVE  /\ TopLeaf(names, f, dual) \in PositiveOver(ToNames(fewer) \cup LoopsOver(fewer))
           /\ \A T, W, dg, e, w, p, j :
                /\ Scene(T, W, dg, e, w, fewer, p, p) /\ Loops(T, W, e, fewer, p, Len(w))
                /\ j \in Positions(w)
                /\ TopLeaf(names, f, dual).atoms \subseteq W
                => (Sat(TopLeaf(names, f, dual), w[p + 1], T) <=> (e[<<f, p, j>>] <=> ~dual))
<1> DEFINE A == ToNames(fewer) \cup LoopsOver(fewer)
<1>1. ASSUME NEW T, NEW W, NEW dg, NEW e, NEW w, NEW p, Scene(T, W, dg, e, w, fewer, p, p),
             NEW j \in Positions(w)
      PROVE  /\ e[<<f, p, j>>] = Meaning(dg, w, e, f, p, j)
             /\ w[p + 1] \in Alphabet /\ p \in Positions(w) /\ p \in 0..(Len(w) - 1) /\ p # Len(w)
             /\ IsTruth(dg, w, e) /\ f \in FormulasOf(dg) /\ dg.logic = "future"
    <2>1. f \in FormulasOf(dg)
        BY <1>1, BodiesOverIn DEF Scene
    <2>2. p \in 0..(Len(w) - 1) /\ p # Len(w)
        BY <1>1 DEF Scene, Positions
    <2> QED BY <1>1, <2>1, <2>2, TruthOf DEF Scene
<1>2. CASE f.op = "const" /\ f.value \in BOOLEAN
    <2> DEFINE b == f.value # dual
    <2>1. TopLeaf(names, f, dual) = PositiveConstant(b)
        BY <1>2 DEF TopLeaf
    <2>2. b \in BOOLEAN
        OBVIOUS
    <2>3. /\ PositiveConstant(b) \in PositiveOver(A)
          /\ \A l \in Alphabet : \A T : Sat(PositiveConstant(b), l, T) <=> b
        <3> HIDE DEF b, A
        <3> QED BY <2>2, ConstantIsPositive
    <2>4. ASSUME NEW T, NEW W, NEW dg, NEW e, NEW w, NEW p, NEW j,
                 Scene(T, W, dg, e, w, fewer, p, p), j \in Positions(w)
          PROVE  /\ w[p + 1] \in Alphabet
                 /\ b <=> (e[<<f, p, j>>] <=> ~dual)
        <3>1. e[<<f, p, j>>] = f.value
            BY <1>1, <1>2, <2>4, MeaningConst
        <3> QED BY <1>1, <1>2, <2>4, <3>1
    <2> HIDE DEF b
    <2> QED BY <2>1, <2>3, <2>4
<1>3. CASE f.op = "atom" /\ f.kind \in {"letter", "eos"} /\ f.at = "i"
    <2> DEFINE x == SymbolTest(f, dual)
    <2>1. TopLeaf(names, f, dual) = x
        BY <1>3 DEF TopLeaf
    <2>2. /\ x \in PositiveOver(A)
          /\ \A l \in Alphabet : \A T : Sat(x, l, T) <=> (SymbolMatches(f, l) # dual)
        <3> HIDE DEF A
        <3> QED BY TestIsPositive
    <2>3. ASSUME NEW T, NEW W, NEW dg, NEW e, NEW w, NEW p, NEW j,
                 Scene(T, W, dg, e, w, fewer, p, p), j \in Positions(w)
          PROVE  /\ w[p + 1] \in Alphabet
                 /\ e[<<f, p, j>>] <=> SymbolMatches(f, w[p + 1])
        <3>1. Place(f.at, p, j) = p
            BY <1>3 DEF Place
        <3>2. e[<<f, p, j>>] = AtomValue("future", f, w, p)
            BY <1>1, <1>3, <2>3, <3>1, MeaningAtom
        <3>3. ASSUME f.kind = "eos" PROVE ~AtomValue("future", f, w, p)
            <4>1. AtomValue("future", f, w, p) <=> p = Len(w)
                BY <3>3 DEF AtomValue
            <4> QED BY <1>1, <2>3, <4>1
        <3>4. f.kind = "letter" => (AtomValue("future", f, w, p) <=> SymbolMatches(f, w[p + 1]))
            BY <1>1, <2>3 DEF AtomValue
        <3>5. f.kind = "eos" => ~SymbolMatches(f, w[p + 1])
            BY DEF SymbolMatches
        <3> QED BY <1>1, <1>3, <2>3, <3>2, <3>3, <3>4, <3>5
    <2>4. \A l : SymbolMatches(f, l) \in BOOLEAN
        BY DEF SymbolMatches
    <2> HIDE DEF x
    <2> QED BY <2>1, <2>2, <2>3, <2>4
<1>4. CASE f.op = "ref" /\ f.name \in fewer /\ f.at = "i"
    <2> DEFINE s == NamedState(f.name, dual)
               x == NamedAtom(f.name, dual, "goto")
               t == TransitionAtom(s, "goto")
    <2>1. TopLeaf(names, f, dual) = t
        BY <1>4 DEF TopLeaf
    <2>2. x \in A /\ x = [state |-> s, action |-> "goto"]
        BY <1>4 DEF ToNames, NamedAtom
    <2>3. /\ t \in PositiveOver(A) /\ t.atoms = {x}
          /\ \A l \in Alphabet : \A T : Sat(t, l, T) <=> x \in T
        <3> HIDE DEF x, s, A
        <3> QED BY <2>2, AtomIsPositive
    <2>4. ASSUME NEW T, NEW W, NEW dg, NEW e, NEW w, NEW p, NEW j,
                 Scene(T, W, dg, e, w, fewer, p, p), j \in Positions(w), x \in W
          PROVE  /\ w[p + 1] \in Alphabet
                 /\ x \in T <=> (e[<<f, p, j>>] <=> ~dual)
        <3> DEFINE d == dg.definition[f.name]
        <3>1. Place(f.at, p, j) = p
            BY <1>4 DEF Place
        <3>2. e[<<f, p, j>>] = e[<<d, p, j>>]
            BY <1>1, <1>4, <2>4, <3>1, MeaningRef
        <3>3. x \in T <=> (e[<<d, p, j>>] <=> ~dual)
            <4> HIDE DEF d
            <4> QED BY <1>4, <2>4 DEF Scene, Reads, d
        <3> QED BY <1>1, <2>4, <3>2, <3>3
    <2> HIDE DEF x, t, s
    <2> QED BY <2>1, <2>3, <2>4
<1>5. CASE f.op = "until" /\ f \in UntilsOver(fewer)
    <2> DEFINE q == State(f, dual)
               t == UntilAt(names, f, dual, q)
    <2>1. TopLeaf(names, f, dual) = t
        BY <1>5 DEF TopLeaf
    <2>2. ToNames(fewer) \cup {LoopAtom(q)} \subseteq A
        BY <1>5 DEF LoopsOver
    <2> HIDE DEF q
    <2>3. SaysUntil(t, fewer, f, dual, q)
        BY <1>5, UntilAtIsPositive
    <2>4. t \in PositiveOver(A)
        <3> HIDE DEF A, t
        <3> QED BY <2>2, <2>3, PositiveGrow DEF SaysUntil
    <2>5. ASSUME NEW T, NEW W, NEW dg, NEW e, NEW w, NEW p, NEW j,
                 Scene(T, W, dg, e, w, fewer, p, p), j \in Positions(w), Loops(T, W, e, fewer, p, Len(w)),
                 t.atoms \subseteq W
          PROVE  Sat(t, w[p + 1], T) <=> (e[<<f, p, j>>] <=> ~dual)
        <3>1. LoopReads(T, W, e, q, f, dual, p, p + 1, Len(w))
            BY <1>5, <2>5 DEF Loops, q
        <3>2. Sat(t, w[p + 1], T) <=> (UntilFrom(e, f, p, p, Len(w)) <=> ~dual)
            <4> HIDE DEF t
            <4> QED BY <2>3, <2>5, <3>1 DEF SaysUntil
        <3>3. e[<<f, p, j>>] <=> UntilFrom(e, f, p, p, Len(w))
            BY <1>1, <1>5, <2>5, UntilIsFromThePebble
        <3> QED BY <3>2, <3>3
    <2> HIDE DEF t
    <2> QED BY <2>1, <2>4, <2>5
<1> QED BY <1>2, <1>3, <1>4, <1>5, BodyLeafShapes

\* The table of topAt.
LEMMA TopAtIs ==
    ASSUME NEW names, NEW fewer, fewer \subseteq names
    PROVE  \E t, leaf : /\ \A f, dual : TopAt(names, f, dual) = t[<<f, dual>>]
                        /\ IsPushed(t, BodyLeavesOver(fewer), leaf)
                        /\ \A f \in BodyLeavesOver(fewer), dual \in BOOLEAN :
                                leaf[<<f, dual>>] = TopLeaf(names, f, dual)
<1> DEFINE L == BodyLeaves(names, Kinds, {}, {"until"}, MaxHeight + 1)
           leaf == [x \in L \X BOOLEAN |-> TopLeaf(names, x[1], x[2])]
<1>1. \A f, dual : TopAt(names, f, dual) = Pushed(L, leaf, f, dual)
    BY DEF TopAt
<1>2. BodyLeavesOver(fewer) \subseteq L
    <2>1. MaxHeight + 1 \in Nat /\ MaxHeight + 1 <= MaxHeight + 1
        BY MaxHeightAssumption
    <2>2. Operands(fewer, MaxHeight + 1) \subseteq Operands(names, MaxHeight + 1)
        BY <2>1, OperandsGrow
    <2>3. Temporal({}, {"until"}, Operands(fewer, MaxHeight + 1)) \subseteq Temporal({}, {"until"}, Operands(names, MaxHeight + 1))
        BY <2>2 DEF Temporal
    <2>4. Atoms({"letter", "eos"}, {"i"}) \subseteq Atoms(Kinds, {"i"}) /\ Refs(fewer, {"i"}) \subseteq Refs(names, {"i"})
        BY DEF Atoms, Kinds, Refs
    <2> QED BY <2>3, <2>4 DEF BodyLeavesOver, BodyLeaves
<1>3. \A f \in BodyLeavesOver(fewer), dual \in BOOLEAN : leaf[<<f, dual>>] = TopLeaf(names, f, dual)
    <2> SUFFICES ASSUME NEW f \in BodyLeavesOver(fewer), NEW dual \in BOOLEAN
                 PROVE  leaf[<<f, dual>>] = TopLeaf(names, f, dual)
        OBVIOUS
    <2>1. <<f, dual>> \in L \X BOOLEAN
        BY <1>2
    <2> QED BY <2>1
<1>4. Plain(L)
    <2>1. \A f \in L : f.op \in {"const", "atom", "ref", "until"}
        BY DEF BodyLeaves, Constants, Atoms, Refs, Temporal
    <2> QED BY <2>1 DEF Plain
<1> HIDE DEF L, leaf
<1>5. PICK t : /\ \A f, dual : Pushed(L, leaf, f, dual) = t[<<f, dual>>]
               /\ IsPushed(t, L, leaf)
    BY <1>4, PushedIs
<1>6. IsPushed(t, BodyLeavesOver(fewer), leaf)
    BY <1>2, <1>5, PushedNarrow
<1> QED BY <1>1, <1>3, <1>5, <1>6

\* topAt gives the body's value.
SaysBody(t, fewer, f, dual) ==
    /\ t \in PositiveOver(ToNames(fewer) \cup LoopsOver(fewer))
    /\ \A T, W, dg, e, w, p, j :
        /\ Scene(T, W, dg, e, w, fewer, p, p) /\ Loops(T, W, e, fewer, p, Len(w))
        /\ j \in Positions(w)
        /\ t.atoms \subseteq W
        => (Sat(t, w[p + 1], T) <=> (e[<<f, p, j>>] <=> ~dual))

\* topAt gives the value of every body, and of its negation.
LEMMA TopAtIsPositive ==
    ASSUME NEW names, NEW fewer, fewer \subseteq names, NEW f \in BodyOver(fewer), NEW dual \in BOOLEAN
    PROVE  SaysBody(TopAt(names, f, dual), fewer, f, dual)
<1> DEFINE A == ToNames(fewer) \cup LoopsOver(fewer)
           L == BodyLeavesOver(fewer)
           C == Combinations(L, MaxHeight + 1)
<1>1. PICK t, leaf : /\ \A g, d : TopAt(names, g, d) = t[<<g, d>>]
                     /\ IsPushed(t, L, leaf)
                     /\ \A g \in L, d \in BOOLEAN : leaf[<<g, d>>] = TopLeaf(names, g, d)
    BY TopAtIs
<1>2. Plain(L) /\ f \in C /\ C = BodyOver(fewer)
    BY BodyLeafShapes
<1>3. \A g \in L, d \in BOOLEAN : leaf[<<g, d>>] \in PositiveOver(A)
    <2> SUFFICES ASSUME NEW g \in L, NEW d \in BOOLEAN PROVE leaf[<<g, d>>] \in PositiveOver(A)
        OBVIOUS
    <2>1. TopLeaf(names, g, d) \in PositiveOver(A)
        BY TopLeafIsPositive
    <2> QED BY <1>1, <2>1
<1>4. t[<<f, dual>>] \in PositiveOver(A)
    <2> HIDE DEF L, A
    <2> QED BY <1>1, <1>2, <1>3, PushedType
<1>5. ASSUME NEW T, NEW W, NEW dg, NEW e, NEW w, NEW p, NEW j,
             Scene(T, W, dg, e, w, fewer, p, p), Loops(T, W, e, fewer, p, Len(w)), j \in Positions(w),
             t[<<f, dual>>].atoms \subseteq W
      PROVE  Sat(t[<<f, dual>>], w[p + 1], T) <=> (e[<<f, p, j>>] <=> ~dual)
    <2> DEFINE b == [g \in C |-> e[<<g, p, j>>]]
               l == w[p + 1]
    <2>1. C \subseteq FormulasOf(dg) /\ L \subseteq C
        BY <1>2, <1>5, BodiesOverIn DEF Scene
    <2>2. l \in Alphabet /\ IsTruth(dg, w, e) /\ p \in Positions(w)
        BY <1>5 DEF Scene
    <2>3. Respects(b, C)
        <3> HIDE DEF L
        <3> QED BY <1>2, <1>5, <2>1, <2>2, TruthRespects
    <2>4. \A g \in L, d \in BOOLEAN : Says(leaf[<<g, d>>], l, T, W, b, g, d)
        <3> SUFFICES ASSUME NEW g \in L, NEW d \in BOOLEAN, TopLeaf(names, g, d).atoms \subseteq W
                     PROVE  Sat(TopLeaf(names, g, d), l, T) <=> (b[g] <=> ~d)
            BY <1>1 DEF Says
        <3>1. b[g] = e[<<g, p, j>>]
            BY <2>1
        <3>2. Sat(TopLeaf(names, g, d), l, T) <=> (e[<<g, p, j>>] <=> ~d)
            BY <1>5, TopLeafIsPositive
        <3> QED BY <3>1, <3>2
    <2>5. b[f] = e[<<f, p, j>>]
        BY <1>2
    <2> HIDE DEF L, b, l, A
    <2>6. Says(t[<<f, dual>>], l, T, W, b, f, dual)
        BY <1>1, <1>2, <1>3, <2>2, <2>3, <2>4, PushedSays
    <2> QED BY <1>5, <2>5, <2>6 DEF Says, l
<1> QED BY <1>1, <1>4, <1>5 DEF SaysBody

-----------------------------------------------------------------------------
(***************************************************************************)
(* The transition formulas of the two sorts of states.                     *)
(***************************************************************************)

\* The definitions of a desugared DAG, and the names they are over.
LEMMA DesugaredShape ==
    ASSUME NEW dd, IsDesugared(dd)
    PROVE  /\ Len(dd.names) \in Nat /\ DOMAIN dd.names = 1..Len(dd.names) /\ dd.logic = "future"
           /\ \A j, k \in 1..Len(dd.names) : dd.names[j] = dd.names[k] => j = k
           /\ \A k \in 1..Len(dd.names) : /\ dd.names[k] \in DOMAIN dd.definition
                                          /\ Before(dd, k) \subseteq DOMAIN dd.definition
                                          /\ dd.definition[dd.names[k]] \in BodyOver(Before(dd, k))
           /\ \A m \in DOMAIN dd.definition : \E k \in 1..Len(dd.names) : m = dd.names[k]
           /\ \A k \in 1..Len(dd.names) : \A m \in Before(dd, k) : \E j \in 1..(k - 1) : m = dd.names[j]
           /\ dd.output.name \in DOMAIN dd.definition
<1>1. Len(dd.names) \in Nat /\ (Len(dd.names) + 1) - 1 = Len(dd.names)
    BY DEF IsDesugared
<1>2. DOMAIN dd.definition = {dd.names[j] : j \in 1..Len(dd.names)}
    BY <1>1 DEF IsDesugared, Before
<1>3. \A k \in 1..Len(dd.names) : Before(dd, k) \subseteq DOMAIN dd.definition
    BY <1>1, <1>2 DEF Before
<1> QED BY <1>1, <1>2, <1>3 DEF IsDesugared, BodyOver, Before

\* The transition formula of a definition's state.
LEMMA NamedTransition ==
    ASSUME NEW dd, IsDesugared(dd), NEW k \in 1..Len(dd.names), NEW dual \in BOOLEAN,
           NEW q, q = NamedState(dd.names[k], dual), NEW f, f = dd.definition[dd.names[k]]
    PROVE  /\ Body(dd, q) = f /\ f \in BodyOver(Before(dd, k)) /\ q.dual = dual
           /\ f.op = "until" => /\ f \in UntilsOver(Before(dd, k))
                                /\ SaysUntil(TransitionOf(dd, q), Before(dd, k), f, dual, q)
           /\ f.op # "until" => SaysBody(TransitionOf(dd, q), Before(dd, k), f, dual)
<1> DEFINE N == DOMAIN dd.definition
           B == Before(dd, k)
           t == TransitionOf(dd, q)
<1>1. f \in BodyOver(B) /\ B \subseteq N
    BY DesugaredShape
<1>2. q.formula = Ref(dd.names[k], "i") /\ q.dual = dual
    BY DEF NamedState, State
<1>3. Body(dd, q) = f
    BY <1>2 DEF Body, Ref
<1>4. t = Top(N, f, dual, q)
    BY <1>2, <1>3 DEF TransitionOf
<1> HIDE DEF B, N
<1>5. ASSUME f.op = "until" PROVE f \in UntilsOver(B) /\ SaysUntil(t, B, f, dual, q)
    <2>1. f \in UntilsOver(B)
        <3> DEFINE X == {"letter", "eos"}
                   S == {"until"}
                   E == {}
                   h == MaxHeight + 1
        <3>1. /\ h \in Nat /\ E \in SUBSET (PastUnary \cup FutureUnary) /\ S \in SUBSET {"since", "until"}
              /\ f \in Bodies(B, X, E, S, h)
            BY <1>1, MaxHeightAssumption DEF BodyOver
        <3>2. f.op \notin {"const", "atom", "ref", "not", "and", "or"} \cup E
            BY <1>5
        <3> HIDE DEF X, S, E, h
        <3>3. f = Binary(f.op, f.left, f.right) /\ f.left \in Operands(B, h) /\ f.right \in Operands(B, h)
            BY <3>1, <3>2, BodyShapes
        <3> QED BY <1>5, <3>3 DEF UntilsOver, Temporal, Binary, h
    <2>2. t = UntilAt(N, f, dual, q)
        BY <1>4, <1>5 DEF Top
    <2> QED BY <1>1, <2>1, <2>2, UntilAtIsPositive
<1>6. ASSUME f.op # "until" PROVE SaysBody(t, B, f, dual)
    <2>1. t = TopAt(N, f, dual)
        BY <1>4, <1>6 DEF Top
    <2> QED BY <1>1, <2>1, TopAtIsPositive
<1> QED BY <1>1, <1>2, <1>3, <1>5, <1>6 DEF B

\* The transition formula of a nested Until's state.
LEMMA NestedTransition ==
    ASSUME NEW dd, IsDesugared(dd), NEW B, B \subseteq DOMAIN dd.definition, NEW u \in UntilsOver(B),
           NEW dual \in BOOLEAN, NEW q, q = State(u, dual)
    PROVE  /\ Body(dd, q) = u /\ q.dual = dual /\ u.op = "until"
           /\ SaysUntil(TransitionOf(dd, q), B, u, dual, q)
<1>1. u.op = "until"
    BY UntilShape
<1>2. q.formula = u /\ q.dual = dual
    BY DEF State
<1>3. Body(dd, q) = u
    BY <1>1, <1>2 DEF Body
<1>4. TransitionOf(dd, q) = UntilAt(DOMAIN dd.definition, u, dual, q)
    BY <1>1, <1>2, <1>3 DEF TransitionOf, Top
<1> QED BY <1>1, <1>2, <1>3, <1>4, UntilAtIsPositive

\* Where an atom leads.
LEMMA AtomShapes ==
    ASSUME NEW names
    PROVE  /\ \A x \in ToNames(names) :
                /\ x.action \in {"goto", "carry"} /\ x.state.formula.op = "ref"
                /\ \E m \in names, d \in BOOLEAN : x.state = NamedState(m, d)
           /\ \A q : LoopAtom(q).action = "leave" /\ LoopAtom(q).state = q
           /\ \A x \in LoopsOver(names) :
                /\ x.action = "leave"
                /\ \E u \in UntilsOver(names), d \in BOOLEAN : x.state = State(u, d) /\ x.state.formula = u /\ u.op = "until"
<1>1. ASSUME NEW x \in ToNames(names)
      PROVE  /\ x.action \in {"goto", "carry"} /\ x.state.formula.op = "ref"
             /\ \E m \in names, d \in BOOLEAN : x.state = NamedState(m, d)
    <2>1. PICK m \in names, d \in BOOLEAN, a \in {"goto", "carry"} : x = NamedAtom(m, d, a)
        BY DEF ToNames
    <2>2. x.action = a /\ x.state = NamedState(m, d) /\ NamedState(m, d).formula.op = "ref"
        BY <2>1 DEF NamedAtom, NamedState, State, Ref
    <2> QED BY <2>1, <2>2
<1>2. \A q : LoopAtom(q).action = "leave" /\ LoopAtom(q).state = q
    BY DEF LoopAtom
<1>3. ASSUME NEW x \in LoopsOver(names)
      PROVE  /\ x.action = "leave"
             /\ \E u \in UntilsOver(names), d \in BOOLEAN : x.state = State(u, d) /\ x.state.formula = u /\ u.op = "until"
    <2>1. PICK u \in UntilsOver(names), d \in BOOLEAN : x = LoopAtom(State(u, d))
        BY DEF LoopsOver
    <2>2. State(u, d).formula = u /\ u.op = "until"
        BY UntilShape DEF State
    <2> QED BY <1>2, <2>1, <2>2
<1> QED BY <1>1, <1>2, <1>3

-----------------------------------------------------------------------------
(***************************************************************************)
(* The states are finitely many, and RankOrder lists each of them once.    *)
(***************************************************************************)

\* The states of definitions, finitely many.
NamedStates(dd) == {NamedState(m, d) : m \in DOMAIN dd.definition, d \in BOOLEAN}

\* They are finitely many.
LEMMA NamedStatesAre ==
    ASSUME NEW dd, IsDesugared(dd)
    PROVE  /\ IsFiniteSet(NamedStates(dd))
           /\ \A q \in NamedStates(dd) : \E k \in 1..Len(dd.names), dual \in BOOLEAN :
                q = NamedState(dd.names[k], dual) /\ q.dual = dual
           /\ \A q \in NamedStates(dd) : q.formula.op = "ref"
<1> DEFINE K == Len(dd.names)
           S == (1..K) \X BOOLEAN
           f == [x \in S |-> NamedState(dd.names[x[1]], x[2])]
<1>1. /\ K \in Nat /\ \A k \in 1..K : dd.names[k] \in DOMAIN dd.definition
      /\ \A m \in DOMAIN dd.definition : \E k \in 1..K : m = dd.names[k]
    BY DesugaredShape
<1>2. IsFiniteSet(S)
    <2>1. IsFiniteSet(1..K)
        BY <1>1, FS_Interval
    <2>2. IsFiniteSet(BOOLEAN)
        <3>1. IsFiniteSet({TRUE} \cup {FALSE})
            BY FS_Singleton, FS_Union
        <3>2. {TRUE} \cup {FALSE} = BOOLEAN
            OBVIOUS
        <3> QED BY <3>1, <3>2
    <2> QED BY <2>1, <2>2, FS_Product
<1>3. ASSUME NEW q \in NamedStates(dd)
      PROVE  \E k \in 1..K, dual \in BOOLEAN : q = NamedState(dd.names[k], dual)
    BY <1>1 DEF NamedStates
<1>4. f \in Surjection(S, NamedStates(dd))
    <2>1. \A x \in S : f[x] \in NamedStates(dd)
        <3> SUFFICES ASSUME NEW k \in 1..K, NEW d \in BOOLEAN PROVE NamedState(dd.names[k], d) \in NamedStates(dd)
            OBVIOUS
        <3> QED BY <1>1 DEF NamedStates
    <2>2. \A q \in NamedStates(dd) : \E x \in S : f[x] = q
        <3> SUFFICES ASSUME NEW q \in NamedStates(dd) PROVE \E x \in S : f[x] = q
            OBVIOUS
        <3>1. PICK k \in 1..K, dual \in BOOLEAN : q = NamedState(dd.names[k], dual)
            BY <1>3
        <3>2. <<k, dual>> \in S /\ f[<<k, dual>>] = q
            BY <3>1
        <3> QED BY <3>2
    <2> QED BY <2>1, <2>2 DEF Surjection
<1>5. IsFiniteSet(NamedStates(dd))
    BY <1>2, <1>4, FS_Surjection
<1>6. \A m, d : NamedState(m, d).dual = d /\ NamedState(m, d).formula.op = "ref"
    BY DEF NamedState, State, Ref
<1> QED BY <1>3, <1>5, <1>6

\* The nested Untils are finitely many, each over the names of a definition.
LEMMA NestedAre ==
    ASSUME NEW dd, IsDesugared(dd)
    PROVE  /\ IsFiniteSet(NestedIn(dd))
           /\ \A u \in NestedIn(dd) :
                u.op = "until" /\ \E k \in 1..Len(dd.names) : u \in UntilsOver(Before(dd, k))
           /\ \A q \in NamedStates(dd) : \A x \in TransitionOf(dd, q).atoms :
                x.state.formula.op = "until" => x.state.formula \in NestedIn(dd)
<1> DEFINE Q == NamedStates(dd)
           A == UNION {TransitionOf(dd, q).atoms : q \in Q}
           F == {x.state.formula : x \in A}
<1>1. NestedIn(dd) = {f \in F : f.op = "until"}
    BY DEF NestedIn, NamedStates
<1>2. ASSUME NEW q \in Q
      PROVE  \E k \in 1..Len(dd.names) :
                /\ IsFiniteSet(TransitionOf(dd, q).atoms)
                /\ \A x \in TransitionOf(dd, q).atoms :
                        x.state.formula.op = "until" => x.state.formula \in UntilsOver(Before(dd, k))
    <2>1. PICK k \in 1..Len(dd.names), dual \in BOOLEAN : q = NamedState(dd.names[k], dual)
        BY NamedStatesAre
    <2> DEFINE f == dd.definition[dd.names[k]]
               B == Before(dd, k)
               t == TransitionOf(dd, q)
    <2>2. q.formula.op = "ref"
        BY NamedStatesAre
    <2> HIDE DEF Q
    <2>3. CASE f.op = "until"
        <3>1. SaysUntil(t, B, f, dual, q)
            BY <2>1, <2>3, NamedTransition
        <3> HIDE DEF t, B
        <3>2. IsFiniteSet(t.atoms) /\ t.atoms \subseteq ToNames(B) \cup {LoopAtom(q)}
            BY <3>1 DEF SaysUntil, PositiveOver
        <3>3. \A x \in t.atoms : x.state.formula.op = "ref"
            BY <2>2, <3>2, AtomShapes
        <3> QED BY <3>2, <3>3 DEF t, B
    <2>4. CASE f.op # "until"
        <3>1. SaysBody(t, B, f, dual)
            BY <2>1, <2>4, NamedTransition
        <3> HIDE DEF t, B
        <3>2. IsFiniteSet(t.atoms) /\ t.atoms \subseteq ToNames(B) \cup LoopsOver(B)
            BY <3>1 DEF SaysBody, PositiveOver
        <3>3. \A x \in t.atoms : x.state.formula.op = "ref" \/ x.state.formula \in UntilsOver(B)
            BY <3>2, AtomShapes
        <3> QED BY <3>2, <3>3 DEF t, B
    <2> QED BY <2>3, <2>4
<1>3. IsFiniteSet(A)
    <2> DEFINE g == [q \in Q |-> TransitionOf(dd, q).atoms]
               S == {TransitionOf(dd, q).atoms : q \in Q}
    <2>1. g \in Surjection(Q, S)
        BY DEF Surjection
    <2>2. IsFiniteSet(Q)
        BY NamedStatesAre
    <2>3. IsFiniteSet(S)
        <3> HIDE DEF S, g, Q
        <3> QED BY <2>1, <2>2, FS_Surjection
    <2>4. \A s \in S : IsFiniteSet(s)
        BY <1>2
    <2> HIDE DEF S
    <2> QED BY <2>3, <2>4, FS_UNION DEF S
<1> HIDE DEF A
<1>4. IsFiniteSet(F)
    <2> DEFINE g == [x \in A |-> x.state.formula]
    <2>1. g \in Surjection(A, F)
        BY DEF Surjection
    <2> HIDE DEF g, F
    <2> QED BY <1>3, <2>1, FS_Surjection
<1>5. IsFiniteSet(NestedIn(dd))
    <2> HIDE DEF F
    <2> QED BY <1>1, <1>4, FS_Subset
<1>6. \A u \in NestedIn(dd) : u.op = "until" /\ \E k \in 1..Len(dd.names) : u \in UntilsOver(Before(dd, k))
    BY <1>1, <1>2 DEF A
<1>7. \A q \in Q : \A x \in TransitionOf(dd, q).atoms :
                x.state.formula.op = "until" => x.state.formula \in NestedIn(dd)
    BY <1>1 DEF A
<1> QED BY <1>5, <1>6, <1>7

\* SetToSeq lists a finite set, every element once.
LEMMA SetToSeqLists ==
    ASSUME NEW S, IsFiniteSet(S)
    PROVE  /\ SetToSeq(S) \in Seq(S)
           /\ \A s \in S : \E k \in 1..Len(SetToSeq(S)) : SetToSeq(S)[k] = s
           /\ \A j, k \in 1..Len(SetToSeq(S)) : SetToSeq(S)[j] = SetToSeq(S)[k] => j = k
<1> DEFINE n == Cardinality(S)
           q == SetToSeq(S)
<1>1. n \in Nat /\ ExistsBijection(1..n, S)
    BY FS_CardinalityType
<1>2. q = CHOOSE f \in [1..n -> S] : IsInjective(f)
    BY DEF SetToSeq
<1>3. \E f \in [1..n -> S] : IsInjective(f)
    BY <1>1 DEF ExistsBijection, Bijection, Injection
<1> HIDE DEF q, n
<1>4. q \in [1..n -> S] /\ IsInjective(q)
    BY <1>2, <1>3
<1>5. IsFiniteSet(1..n) /\ Cardinality(1..n) = n
    <2>1. 1 \in Int /\ n \in Int /\ (IF 1 > n THEN 0 ELSE n - 1 + 1) = n
        BY <1>1
    <2> QED BY <2>1, FS_Interval
<1>6. q \in Surjection(1..n, S)
    <2>1. q \in Injection(1..n, S)
        BY <1>4 DEF Injection
    <2>2. Cardinality(1..n) = Cardinality(S)
        BY <1>5 DEF n
    <2> QED BY <2>1, <2>2, FS_Injection
<1>7. q \in Seq(S) /\ Len(q) = n
    BY <1>1, <1>4
<1>8. \A s \in S : \E k \in 1..n : q[k] = s
    BY <1>6 DEF Surjection
<1>9. \A j, k \in 1..n : q[j] = q[k] => j = k
    BY <1>4 DEF IsInjective
<1> QED BY <1>7, <1>8, <1>9 DEF q

\* Positions of a list of pairs.
LEMMA Halves ==
    /\ \A m \in Nat \ {0} : /\ ((2 * m - 1) + 1) \div 2 = m /\ (2 * m - 1) % 2 = 1
                            /\ (2 * m + 1) \div 2 = m /\ (2 * m) % 2 = 0
    /\ \A n \in Nat : \A k \in 1..(2 * n) : \E m \in 1..n : k = 2 * m - 1 \/ k = 2 * m
<1>1. ASSUME NEW m \in Nat \ {0}
      PROVE  /\ ((2 * m - 1) + 1) \div 2 = m /\ (2 * m - 1) % 2 = 1
             /\ (2 * m + 1) \div 2 = m /\ (2 * m) % 2 = 0
    OBVIOUS
<1>2. ASSUME NEW n \in Nat, NEW k \in 1..(2 * n)
      PROVE  \E m \in 1..n : k = 2 * m - 1 \/ k = 2 * m
    <2> DEFINE m == (k + 1) \div 2
    <2>1. m \in 1..n /\ (k = 2 * m - 1 \/ k = 2 * m)
        OBVIOUS
    <2> QED BY <2>1
<1> QED BY <1>1, <1>2

\* Concatenation, place by place.
LEMMA ConcatIs ==
    ASSUME NEW S, NEW r \in Seq(S), NEW s \in Seq(S)
    PROVE  /\ Len(r) \in Nat /\ Len(s) \in Nat /\ Len(r \o s) = Len(r) + Len(s)
           /\ \A k \in 1..Len(r) : (r \o s)[k] = r[k]
           /\ \A k \in (Len(r) + 1)..(Len(r) + Len(s)) : (r \o s)[k] = s[k - Len(r)]
OBVIOUS

\* The formulas of the states in rank order.
RankedBodies(dd, b) ==
    /\ Len(b) \in Nat /\ Len(dd.names) <= Len(b)
    /\ \A k \in 1..Len(dd.names) : b[k] = Ref(dd.names[k], "i")
    /\ \A k \in (Len(dd.names) + 1)..Len(b) : b[k] \in NestedIn(dd)
    /\ \A u \in NestedIn(dd) : \E k \in (Len(dd.names) + 1)..Len(b) : b[k] = u
    /\ \A j, k \in 1..Len(b) : b[j] = b[k] => j = k
    /\ RankOrder(dd) = [k \in 1..(2 * Len(b)) |-> State(b[(k + 1) \div 2], k % 2 = 0)]

\* They are where the rank says.
LEMMA BodiesAreRanked ==
    ASSUME NEW dd, IsDesugared(dd)
    PROVE  \E b : RankedBodies(dd, b)
<1> DEFINE K == Len(dd.names)
           r == [k \in DOMAIN dd.names |-> Ref(dd.names[k], "i")]
           s == SetToSeq(NestedIn(dd))
           b == r \o s
<1>1. RankOrder(dd) = [k \in 1..(2 * Len(b)) |-> State(b[(k + 1) \div 2], k % 2 = 0)]
    BY DEF RankOrder
<1>2. K \in Nat /\ DOMAIN dd.names = 1..K /\ \A j, k \in 1..K : dd.names[j] = dd.names[k] => j = k
    BY DEF IsDesugared
<1>3. /\ s \in Seq(NestedIn(dd))
      /\ \A u \in NestedIn(dd) : \E k \in 1..Len(s) : s[k] = u
      /\ \A j, k \in 1..Len(s) : s[j] = s[k] => j = k
    BY NestedAre, SetToSeqLists
<1>4. \A u \in NestedIn(dd) : u.op = "until"
    BY NestedAre
<1> HIDE DEF s, K
<1>5. /\ Len(r) = K /\ r \in Seq({Ref(dd.names[k], "i") : k \in 1..K})
      /\ \A k \in 1..K : r[k] = Ref(dd.names[k], "i") /\ r[k].op = "ref" /\ r[k].name = dd.names[k]
    BY <1>2 DEF Ref
<1> HIDE DEF r
<1>6. /\ Len(s) \in Nat /\ Len(b) = K + Len(s) /\ Len(b) \in Nat /\ K <= Len(b)
      /\ \A k \in 1..K : b[k] = r[k]
      /\ \A k \in (K + 1)..Len(b) : b[k] = s[k - K] /\ k - K \in 1..Len(s)
      /\ \A k \in 1..Len(s) : b[K + k] = s[k] /\ K + k \in (K + 1)..Len(b) /\ (K + k) - K = k
    <2> DEFINE S == {Ref(dd.names[k], "i") : k \in 1..K} \cup NestedIn(dd)
    <2>1. r \in Seq(S) /\ s \in Seq(S)
        <3>1. {Ref(dd.names[k], "i") : k \in 1..K} \subseteq S /\ NestedIn(dd) \subseteq S
            OBVIOUS
        <3> HIDE DEF S
        <3> QED BY <1>3, <1>5, <3>1
    <2> HIDE DEF S
    <2>2. /\ Len(s) \in Nat /\ Len(b) = K + Len(s)
          /\ \A k \in 1..K : b[k] = r[k]
          /\ \A k \in (K + 1)..(K + Len(s)) : b[k] = s[k - K]
        <3>1. Len(r) = K
            BY <1>5
        <3>2. /\ Len(r) \in Nat /\ Len(s) \in Nat /\ Len(b) = Len(r) + Len(s)
              /\ \A k \in 1..Len(r) : b[k] = r[k]
              /\ \A k \in (Len(r) + 1)..(Len(r) + Len(s)) : b[k] = s[k - Len(r)]
            BY <2>1, ConcatIs
        <3> HIDE DEF b
        <3> QED BY <3>1, <3>2
    <2> HIDE DEF b
    <2>3. /\ \A k \in (K + 1)..(K + Len(s)) : k - K \in 1..Len(s)
          /\ \A k \in 1..Len(s) : K + k \in (K + 1)..(K + Len(s)) /\ (K + k) - K = k
        BY <1>2, <2>2
    <2>4. Len(b) \in Nat /\ K <= Len(b)
        BY <1>2, <2>2
    <2>5. \A k \in 1..Len(s) : b[K + k] = s[k]
        BY <2>2, <2>3
    <2> QED BY <2>2, <2>3, <2>4, <2>5
<1> HIDE DEF b
<1>7. \A k \in (K + 1)..Len(b) : b[k] \in NestedIn(dd)
    <2>1. \A k \in 1..Len(s) : s[k] \in NestedIn(dd)
        BY <1>3
    <2> QED BY <1>6, <2>1
<1>8. \A u \in NestedIn(dd) : \E k \in (K + 1)..Len(b) : b[k] = u
    <2> SUFFICES ASSUME NEW u \in NestedIn(dd) PROVE \E k \in (K + 1)..Len(b) : b[k] = u
        OBVIOUS
    <2>1. PICK k \in 1..Len(s) : s[k] = u
        BY <1>3
    <2>2. K + k \in (K + 1)..Len(b) /\ b[K + k] = u
        BY <1>6, <2>1
    <2> QED BY <2>2
<1>9. ASSUME NEW j \in 1..Len(b), NEW k \in 1..Len(b), b[j] = b[k]
      PROVE  j = k
    <2>1. (j \in 1..K \/ j \in (K + 1)..Len(b)) /\ (k \in 1..K \/ k \in (K + 1)..Len(b))
        BY <1>2, <1>6
    <2>2. CASE j \in 1..K /\ k \in 1..K
        BY <1>2, <1>5, <1>6, <1>9, <2>2
    <2>3. CASE j \in (K + 1)..Len(b) /\ k \in (K + 1)..Len(b)
        <3>1. j - K = k - K
            BY <1>3, <1>6, <1>9, <2>3
        <3> QED BY <1>2, <1>6, <3>1
    <2>4. CASE j \in 1..K /\ k \in (K + 1)..Len(b)
        <3>1. b[j].op = "ref" /\ b[k].op = "until"
            BY <1>4, <1>5, <1>6, <1>7, <2>4
        <3> QED BY <1>9, <3>1
    <2>5. CASE k \in 1..K /\ j \in (K + 1)..Len(b)
        <3>1. b[k].op = "ref" /\ b[j].op = "until"
            BY <1>4, <1>5, <1>6, <1>7, <2>5
        <3> QED BY <1>9, <3>1
    <2> QED BY <2>1, <2>2, <2>3, <2>4, <2>5
<1>10. \A k \in 1..K : b[k] = Ref(dd.names[k], "i")
    BY <1>5, <1>6
<1> QED BY <1>1, <1>6, <1>7, <1>8, <1>9, <1>10 DEF RankedBodies, K

-----------------------------------------------------------------------------
(***************************************************************************)
(* The states of a definition come after those of the definitions that it  *)
(* uses: the automaton is well formed and very weak.                       *)
(***************************************************************************)

\* The states of nested Untils.
NestedStates(dd) == {State(u, d) : u \in NestedIn(dd), d \in BOOLEAN}

\* The states of one definition, and of the Untils that can be nested in it.
At(dd, k, q) ==
    /\ k \in 1..Len(dd.names)
    /\ \/ \E d \in BOOLEAN : q = NamedState(dd.names[k], d)
       \/ q \in NestedStates(dd) /\ q.formula \in UntilsOver(Before(dd, k))

\* Every state is of some definition.
LEMMA StatesHavePlaces ==
    ASSUME NEW dd, IsDesugared(dd), NEW q \in NamedStates(dd) \cup NestedStates(dd)
    PROVE  \E k \in 1..Len(dd.names) : At(dd, k, q)
<1>1. CASE q \in NamedStates(dd)
    BY <1>1, NamedStatesAre DEF At
<1>2. CASE q \in NestedStates(dd)
    <2>1. PICK u \in NestedIn(dd), d \in BOOLEAN : q = State(u, d)
        BY <1>2 DEF NestedStates
    <2>2. q.formula = u
        BY <2>1 DEF State
    <2> QED BY <1>2, <2>1, <2>2, NestedAre DEF At
<1> QED BY <1>1, <1>2

\* What the atoms of a state's transition formula lead to.
LEMMA CompiledAtoms ==
    ASSUME NEW dd, IsDesugared(dd), NEW k \in 1..Len(dd.names), NEW q, At(dd, k, q)
    PROVE  /\ \A x \in TransitionOf(dd, q).atoms :
                \/ x \in ToNames(Before(dd, k))
                \/ /\ x.action = "leave"
                   /\ \/ x.state = q
                      \/ x.state \in NestedStates(dd) /\ x.state.formula \in UntilsOver(Before(dd, k))
           /\ \A c \in TransitionOf(dd, q).clauses : c.atoms \subseteq TransitionOf(dd, q).atoms
<1> DEFINE B == Before(dd, k)
           t == TransitionOf(dd, q)
<1>1. B \subseteq DOMAIN dd.definition /\ dd.names[k] \in DOMAIN dd.definition
    BY DesugaredShape
<1> HIDE DEF B, t
<1>2. CASE \E d \in BOOLEAN : q = NamedState(dd.names[k], d)
    <2>1. PICK d \in BOOLEAN : q = NamedState(dd.names[k], d)
        BY <1>2
    <2>2. q \in NamedStates(dd)
        BY <1>1, <2>1 DEF NamedStates
    <2>3. CASE dd.definition[dd.names[k]].op = "until"
        <3>1. PICK f : SaysUntil(t, B, f, d, q)
            BY <2>1, <2>3, NamedTransition DEF t, B
        <3>2. t \in PositiveOver(ToNames(B) \cup {LoopAtom(q)})
            BY <3>1 DEF SaysUntil
        <3>3. t.atoms \subseteq ToNames(B) \cup {LoopAtom(q)} /\ \A c \in t.clauses : c.atoms \subseteq t.atoms
            BY <3>2 DEF PositiveOver
        <3> QED BY <3>3, AtomShapes DEF t, B
    <2>4. CASE dd.definition[dd.names[k]].op # "until"
        <3>1. PICK f : SaysBody(t, B, f, d)
            BY <2>1, <2>4, NamedTransition DEF t, B
        <3>2. t \in PositiveOver(ToNames(B) \cup LoopsOver(B))
            BY <3>1 DEF SaysBody
        <3>3. t.atoms \subseteq ToNames(B) \cup LoopsOver(B) /\ \A c \in t.clauses : c.atoms \subseteq t.atoms
            BY <3>2 DEF PositiveOver
        <3>4. ASSUME NEW x \in t.atoms, x \in LoopsOver(B)
              PROVE  /\ x.action = "leave" /\ x.state \in NestedStates(dd)
                     /\ x.state.formula \in UntilsOver(B)
            <4>1. PICK u \in UntilsOver(B), c \in BOOLEAN :
                        x.state = State(u, c) /\ x.state.formula = u /\ u.op = "until" /\ x.action = "leave"
                BY <3>4, AtomShapes
            <4>2. u \in NestedIn(dd)
                BY <2>2, <4>1, NestedAre DEF t
            <4> QED BY <4>1, <4>2 DEF NestedStates
        <3> QED BY <3>3, <3>4 DEF t, B
    <2> QED BY <2>3, <2>4
<1>3. CASE q \in NestedStates(dd) /\ q.formula \in UntilsOver(B)
    <2>1. PICK u \in NestedIn(dd), d \in BOOLEAN : q = State(u, d)
        BY <1>3 DEF NestedStates
    <2>2. u \in UntilsOver(B)
        BY <1>3, <2>1 DEF State
    <2>3. SaysUntil(t, B, u, d, q)
        BY <1>1, <2>1, <2>2, NestedTransition DEF t, B
    <2>4. t \in PositiveOver(ToNames(B) \cup {LoopAtom(q)})
        BY <2>3 DEF SaysUntil
    <2>5. t.atoms \subseteq ToNames(B) \cup {LoopAtom(q)} /\ \A c \in t.clauses : c.atoms \subseteq t.atoms
        BY <2>4 DEF PositiveOver
    <2> QED BY <2>5, AtomShapes DEF t, B
<1> QED BY <1>2, <1>3 DEF At, B

\* The order of the compiled automaton: every state once, the definitions' as
\* the DAG lists them, then those of the nested Untils.
LEMMA CompiledOrder ==
    ASSUME NEW dd, IsDesugared(dd), NEW o, o = RankOrder(dd)
    PROVE  /\ Len(o) \in Nat /\ DOMAIN o = 1..Len(o)
           /\ \A j, k \in 1..Len(o) : o[j] = o[k] => j = k
           /\ {o[k] : k \in 1..Len(o)} = NamedStates(dd) \cup NestedStates(dd)
           /\ \A k \in 1..Len(o) : \A i \in 1..Len(dd.names) : At(dd, i, o[k]) =>
                \A m \in Before(dd, i), d \in BOOLEAN : \E j \in 1..(k - 1) : o[j] = NamedState(m, d)
<1> DEFINE K == Len(dd.names)
<1>1. PICK b : RankedBodies(dd, b)
    BY BodiesAreRanked
<1> DEFINE n == Len(b)
<1>2. /\ n \in Nat /\ K \in Nat /\ K <= n
      /\ o = [k \in 1..(2 * n) |-> State(b[(k + 1) \div 2], k % 2 = 0)]
      /\ \A k \in 1..K : b[k] = Ref(dd.names[k], "i")
      /\ \A k \in (K + 1)..n : b[k] \in NestedIn(dd)
      /\ \A u \in NestedIn(dd) : \E k \in (K + 1)..n : b[k] = u
      /\ \A j, k \in 1..n : b[j] = b[k] => j = k
    BY <1>1, DesugaredShape DEF RankedBodies
<1> HIDE DEF K, n
<1>3. 2 * n \in Nat /\ Len(o) = 2 * n /\ DOMAIN o = 1..(2 * n)
    <2>1. 2 * n \in Nat
        BY <1>2
    <2> HIDE DEF State
    <2> QED BY <1>2, <2>1
<1>4. \A m \in 1..n : /\ 2 * m - 1 \in 1..(2 * n) /\ 2 * m \in 1..(2 * n)
                      /\ o[2 * m - 1] = State(b[m], FALSE) /\ o[2 * m] = State(b[m], TRUE)
    <2> SUFFICES ASSUME NEW m \in 1..n
                 PROVE  /\ 2 * m - 1 \in 1..(2 * n) /\ 2 * m \in 1..(2 * n)
                        /\ o[2 * m - 1] = State(b[m], FALSE) /\ o[2 * m] = State(b[m], TRUE)
        OBVIOUS
    <2>1. /\ 2 * m - 1 \in 1..(2 * n) /\ 2 * m \in 1..(2 * n)
          /\ ((2 * m - 1) + 1) \div 2 = m /\ (2 * m - 1) % 2 = 1
          /\ (2 * m + 1) \div 2 = m /\ (2 * m) % 2 = 0
        BY <1>2
    <2>2. o[2 * m - 1] = State(b[((2 * m - 1) + 1) \div 2], (2 * m - 1) % 2 = 0)
        BY <1>2, <2>1
    <2>3. o[2 * m] = State(b[(2 * m + 1) \div 2], (2 * m) % 2 = 0)
        BY <1>2, <2>1
    <2>4. ((2 * m - 1) % 2 = 0) = FALSE /\ ((2 * m) % 2 = 0) = TRUE
        BY <2>1
    <2> QED BY <2>1, <2>2, <2>3, <2>4
<1>5. \A k \in 1..(2 * n) : \E m \in 1..n, d \in BOOLEAN :
            /\ o[k] = State(b[m], d)
            /\ k = IF d THEN 2 * m ELSE 2 * m - 1
    <2> SUFFICES ASSUME NEW k \in 1..(2 * n)
                 PROVE  \E m \in 1..n, d \in BOOLEAN : /\ o[k] = State(b[m], d)
                                                       /\ k = IF d THEN 2 * m ELSE 2 * m - 1
        OBVIOUS
    <2>1. PICK m \in 1..n : k = 2 * m - 1 \/ k = 2 * m
        BY <1>2, Halves
    <2>2. CASE k = 2 * m - 1
        BY <1>4, <2>2
    <2>3. CASE k = 2 * m
        BY <1>4, <2>3
    <2> QED BY <2>1, <2>2, <2>3
<1>6. \A f, g : \A c, d \in BOOLEAN : State(f, c) = State(g, d) => f = g /\ (c <=> d)
    BY DEF State
<1>7. ASSUME NEW j \in 1..(2 * n), NEW k \in 1..(2 * n), o[j] = o[k] PROVE j = k
    <2>1. PICK l \in 1..n, c \in BOOLEAN : o[j] = State(b[l], c) /\ j = IF c THEN 2 * l ELSE 2 * l - 1
        BY <1>5
    <2>2. PICK m \in 1..n, d \in BOOLEAN : o[k] = State(b[m], d) /\ k = IF d THEN 2 * m ELSE 2 * m - 1
        BY <1>5
    <2>3. b[l] = b[m] /\ (c <=> d)
        <3>1. State(b[l], c) = State(b[m], d)
            BY <1>7, <2>1, <2>2
        <3> QED BY <1>6, <3>1
    <2>4. l = m
        BY <1>2, <2>3
    <2> QED BY <2>1, <2>2, <2>3, <2>4
<1>8. \A m \in 1..n, d \in BOOLEAN : State(b[m], d) \in {o[k] : k \in 1..(2 * n)}
    BY <1>4
<1>9. {o[k] : k \in 1..(2 * n)} = NamedStates(dd) \cup NestedStates(dd)
    <2>1. ASSUME NEW k \in 1..(2 * n) PROVE o[k] \in NamedStates(dd) \cup NestedStates(dd)
        <3>1. PICK m \in 1..n, d \in BOOLEAN : o[k] = State(b[m], d)
            BY <1>5
        <3>2. CASE m \in 1..K
            <4>1. o[k] = NamedState(dd.names[m], d) /\ dd.names[m] \in DOMAIN dd.definition
                BY <1>2, <3>1, <3>2, DesugaredShape DEF NamedState, K
            <4> QED BY <4>1 DEF NamedStates
        <3>3. CASE m \in (K + 1)..n
            BY <1>2, <3>1, <3>3 DEF NestedStates
        <3> QED BY <1>2, <3>2, <3>3
    <2>2. ASSUME NEW q \in NamedStates(dd) PROVE q \in {o[k] : k \in 1..(2 * n)}
        <3>1. PICK m \in 1..K, d \in BOOLEAN : q = NamedState(dd.names[m], d)
            BY NamedStatesAre DEF K
        <3>2. m \in 1..n /\ q = State(b[m], d)
            BY <1>2, <3>1 DEF NamedState
        <3> QED BY <1>8, <3>2
    <2>3. ASSUME NEW q \in NestedStates(dd) PROVE q \in {o[k] : k \in 1..(2 * n)}
        <3>1. PICK u \in NestedIn(dd), d \in BOOLEAN : q = State(u, d)
            BY DEF NestedStates
        <3>2. PICK m \in (K + 1)..n : b[m] = u
            BY <1>2
        <3>3. m \in 1..n
            BY <1>2
        <3> QED BY <1>8, <3>1, <3>2, <3>3
    <2> QED BY <2>1, <2>2, <2>3
<1>10. ASSUME NEW k \in 1..(2 * n), NEW i \in 1..K, At(dd, i, o[k]), NEW m \in Before(dd, i), NEW d \in BOOLEAN
       PROVE  \E j \in 1..(k - 1) : o[j] = NamedState(m, d)
    <2>1. PICK j \in 1..(i - 1) : m = dd.names[j]
        BY DesugaredShape DEF K
    <2>2. PICK l \in 1..n, c \in BOOLEAN : o[k] = State(b[l], c) /\ k = IF c THEN 2 * l ELSE 2 * l - 1
        BY <1>5
    <2>3. i <= l
        <3>1. CASE l \in (K + 1)..n
            BY <1>2, <3>1
        <3>2. CASE l \in 1..K
            <4>1. o[k].formula = Ref(dd.names[l], "i") /\ o[k].formula.op = "ref"
                BY <1>2, <2>2, <3>2 DEF State, Ref
            <4>2. ~(o[k].formula \in UntilsOver(Before(dd, i)))
                BY <4>1, UntilShape
            <4>3. PICK a \in BOOLEAN : o[k] = NamedState(dd.names[i], a)
                BY <1>10, <4>2 DEF At
            <4>4. Ref(dd.names[i], "i") = Ref(dd.names[l], "i")
                BY <4>1, <4>3 DEF NamedState, State
            <4>5. i \in 1..n
                BY <1>2
            <4>6. b[i] = Ref(dd.names[i], "i") /\ b[l] = Ref(dd.names[l], "i")
                BY <1>2, <3>2
            <4>7. b[i] = b[l]
                BY <4>4, <4>6
            <4> QED BY <1>2, <4>5, <4>7
        <3> QED BY <1>2, <3>1, <3>2
    <2>4. j \in 1..n /\ j < l /\ b[j] = Ref(m, "i")
        BY <1>2, <2>1, <2>3
    <2>5. /\ 2 * j - 1 \in 1..(2 * n) /\ 2 * j \in 1..(2 * n)
          /\ o[2 * j - 1] = NamedState(m, FALSE) /\ o[2 * j] = NamedState(m, TRUE)
        BY <1>4, <2>4 DEF NamedState
    <2>6. 2 * j - 1 \in 1..(k - 1) /\ 2 * j \in 1..(k - 1)
        BY <2>2, <2>4, <2>5
    <2> QED BY <2>5, <2>6
<1> QED BY <1>3, <1>7, <1>9, <1>10 DEF K

\* What AutomatonOf consists of.
LEMMA CompiledShape ==
    ASSUME NEW dd, IsDesugared(dd), NEW a, a = AutomatonOf(dd)
    PROVE  /\ States(a) = NamedStates(dd) \cup NestedStates(dd)
           /\ a.order = RankOrder(dd)
           /\ \A q \in States(a) : a.transition[q] = TransitionOf(dd, q)
           /\ a.initial = NamedState(dd.output.name, FALSE) /\ a.initial \in States(a)
           /\ a.final \subseteq States(a)
           /\ \A q \in States(a) : q \in a.final <=> FinalOf(dd, Body(dd, q), q.dual)
<1> DEFINE o == RankOrder(dd)
<1>1. /\ a.order = o
      /\ a.transition = [q \in Range(o) |-> TransitionOf(dd, q)]
      /\ a.initial = NamedState(dd.output.name, FALSE)
      /\ a.final = {q \in Range(o) : FinalOf(dd, Body(dd, q), q.dual)}
    BY DEF AutomatonOf
<1> HIDE DEF o
<1>2. Len(o) \in Nat /\ DOMAIN o = 1..Len(o) /\ {o[k] : k \in 1..Len(o)} = NamedStates(dd) \cup NestedStates(dd)
    BY CompiledOrder DEF o
<1>3. States(a) = NamedStates(dd) \cup NestedStates(dd)
    BY <1>1, <1>2 DEF States
<1>4. Range(o) = States(a)
    BY <1>1 DEF Range, States
<1>5. a.initial \in States(a)
    <2>1. dd.output.name \in DOMAIN dd.definition /\ FALSE \in BOOLEAN
        BY DesugaredShape
    <2>2. NamedState(dd.output.name, FALSE) \in NamedStates(dd)
        <3>1. \A m \in DOMAIN dd.definition, d \in BOOLEAN : NamedState(m, d) \in NamedStates(dd)
            BY DEF NamedStates
        <3> QED BY <2>1, <3>1
    <2> QED BY <1>1, <1>3, <2>2
<1> QED BY <1>1, <1>3, <1>4, <1>5 DEF o

\* The automaton of fromFuture2ltl is well formed: its transitions lead to
\* states of its own, and its rank order lists every state once.
THEOREM CompiledIsWellFormed ==
    ASSUME NEW dd, IsDesugared(dd)
    PROVE  WellFormed(AutomatonOf(dd))
<1> DEFINE a == AutomatonOf(dd)
           o == a.order
<1>1. /\ States(a) = NamedStates(dd) \cup NestedStates(dd) /\ o = RankOrder(dd)
      /\ \A q \in States(a) : a.transition[q] = TransitionOf(dd, q)
      /\ a.initial \in States(a) /\ a.final \subseteq States(a)
    BY CompiledShape
<1> HIDE DEF a, o
<1>2. /\ Len(o) \in Nat /\ DOMAIN o = 1..Len(o)
      /\ \A j, k \in 1..Len(o) : o[j] = o[k] => j = k
    BY <1>1, CompiledOrder
<1>3. ASSUME NEW q \in States(a)
      PROVE  /\ \A x \in a.transition[q].atoms : x.state \in States(a) /\ x.action \in {"goto", "leave", "carry"}
             /\ \A c \in a.transition[q].clauses : c.atoms \subseteq a.transition[q].atoms
    <2>1. PICK k \in 1..Len(dd.names) : At(dd, k, q)
        BY <1>1, StatesHavePlaces
    <2>2. /\ \A x \in TransitionOf(dd, q).atoms :
                \/ x \in ToNames(Before(dd, k))
                \/ x.action = "leave" /\ (x.state = q \/ x.state \in NestedStates(dd))
          /\ \A c \in TransitionOf(dd, q).clauses : c.atoms \subseteq TransitionOf(dd, q).atoms
        BY <2>1, CompiledAtoms
    <2>3. \A x \in ToNames(Before(dd, k)) : x.state \in NamedStates(dd) /\ x.action \in {"goto", "carry"}
        BY AtomShapes, DesugaredShape DEF NamedStates
    <2> QED BY <1>1, <2>2, <2>3
<1> QED BY <1>1, <1>2, <1>3 DEF WellFormed, a, o

\* A state's value can depend, with the pebble where it is, on the definitions
\* before its own only.
LEMMA CompiledSupport ==
    ASSUME NEW dd, IsDesugared(dd), NEW a, a = AutomatonOf(dd), WellFormed(a), NEW q \in States(a),
           NEW k \in 1..Len(dd.names), At(dd, k, q)
    PROVE  \A g \in Support(a, q) : \E m \in Before(dd, k), d \in BOOLEAN : g = NamedState(m, d)
<1> DEFINE leave == LeaveTargets(a)
           C == {q} \cup {r \in NestedStates(dd) : r.formula \in UntilsOver(Before(dd, k))}
<1>1. /\ States(a) = NamedStates(dd) \cup NestedStates(dd)
      /\ \A r \in States(a) : a.transition[r] = TransitionOf(dd, r)
    BY CompiledShape
<1>2. leave \in [States(a) -> SUBSET States(a)] /\ \A r \in States(a) : leave[r] = Targets(a, r, "leave")
    BY TargetsAreStates DEF LeaveTargets
<1>3. Support(a, q) = UNION {Targets(a, r, "goto") : r \in Closure(a, leave, {q})}
    BY DEF Support, LeaveTargets
<1> HIDE DEF leave
<1>4. \A r \in C : r \in States(a) /\ At(dd, k, r)
    BY <1>1 DEF At
<1>5. ASSUME NEW r \in C, NEW x \in a.transition[r].atoms
      PROVE  \/ x \in ToNames(Before(dd, k))
             \/ x.action = "leave" /\ x.state \in C
    <2>1. \/ x \in ToNames(Before(dd, k))
          \/ /\ x.action = "leave"
             /\ \/ x.state = r
                \/ x.state \in NestedStates(dd) /\ x.state.formula \in UntilsOver(Before(dd, k))
        BY <1>1, <1>4, CompiledAtoms
    <2> QED BY <2>1
<1>6. \A x \in ToNames(Before(dd, k)) :
            /\ x.action # "leave"
            /\ \E m \in Before(dd, k), d \in BOOLEAN : x.state = NamedState(m, d)
    BY AtomShapes
<1>7. \A r \in C : leave[r] \subseteq C
    BY <1>2, <1>4, <1>5, <1>6 DEF Targets
<1>8. Closure(a, leave, {q}) \subseteq C
    <2>1. {q} \in SUBSET States(a) /\ {q} \subseteq C
        OBVIOUS
    <2> HIDE DEF C
    <2> QED BY <1>2, <1>7, <2>1, ClosureIsLeast DEF ClosedUnder
<1>9. ASSUME NEW r \in C, NEW g \in Targets(a, r, "goto")
      PROVE  \E m \in Before(dd, k), d \in BOOLEAN : g = NamedState(m, d)
    <2>1. PICK x \in a.transition[r].atoms : x.action = "goto" /\ g = x.state
        BY DEF Targets
    <2>2. x \in ToNames(Before(dd, k))
        BY <1>5, <2>1
    <2> QED BY <1>6, <2>1, <2>2
<1> HIDE DEF C
<1> SUFFICES ASSUME NEW g \in Support(a, q)
             PROVE  \E m \in Before(dd, k), d \in BOOLEAN : g = NamedState(m, d)
    OBVIOUS
<1>10. PICK r \in C : g \in Targets(a, r, "goto")
    BY <1>3, <1>8
<1> QED BY <1>9, <1>10

\* It is very weak, as RankOrder means it to be: what the value of a state can
\* depend on, with the pebble where it is, comes before it in the rank order.
THEOREM CompiledIsVeryWeak ==
    ASSUME NEW dd, IsDesugared(dd)
    PROVE  VeryWeak(AutomatonOf(dd))
<1> DEFINE a == AutomatonOf(dd)
           o == a.order
<1>1. /\ States(a) = NamedStates(dd) \cup NestedStates(dd) /\ o = RankOrder(dd)
    BY CompiledShape
<1>2. WellFormed(a)
    BY CompiledIsWellFormed
<1> SUFFICES ASSUME NEW k \in DOMAIN o, NEW g \in Support(a, o[k])
             PROVE  \E j \in 1..(k - 1) : o[j] = g
    BY DEF VeryWeak
<1> HIDE DEF a, o
<1>3. o[k] \in States(a) /\ k \in 1..Len(o)
    BY <1>2 DEF WellFormed, States, o
<1>4. PICK i \in 1..Len(dd.names) : At(dd, i, o[k])
    BY <1>1, <1>3, StatesHavePlaces
<1>5. PICK m \in Before(dd, i), d \in BOOLEAN : g = NamedState(m, d)
    BY <1>2, <1>3, <1>4, CompiledSupport DEF a
<1>6. \A n \in Before(dd, i), c \in BOOLEAN : \E j \in 1..(k - 1) : o[j] = NamedState(n, c)
    BY <1>1, <1>3, <1>4, CompiledOrder
<1> QED BY <1>5, <1>6

-----------------------------------------------------------------------------
(***************************************************************************)
(* finalOf is the value of a body on the EOS boundary.                     *)
(***************************************************************************)

\* finalOf, arm by arm.
LEMMA FinalConst ==
    ASSUME NEW dd, NEW t, NEW f, f.op = "const", NEW dual
    PROVE  FinalStep(dd, t, f, dual) = (f.value # dual)
BY DEF FinalStep
LEMMA FinalAtom ==
    ASSUME NEW dd, NEW t, NEW f, f.op = "atom", NEW dual
    PROVE  FinalStep(dd, t, f, dual) = ((f.kind = "eos") # dual)
BY DEF FinalStep
LEMMA FinalRef ==
    ASSUME NEW dd, NEW t, NEW f, f.op = "ref", NEW dual
    PROVE  FinalStep(dd, t, f, dual) = t[<<dd.definition[f.name], dual>>]
BY DEF FinalStep
LEMMA FinalUntil ==
    ASSUME NEW dd, NEW t, NEW f, f.op = "until", NEW dual
    PROVE  FinalStep(dd, t, f, dual) = dual
BY DEF FinalStep

\* The bodies that finalOf walks.
BodiesOf(dd, kinds) == Bodies(DOMAIN dd.definition, kinds, {}, {"until"}, MaxHeight + 1)

\* They are combinations of constants, atoms, references and Untils.
LEMMA BodiesOfShape ==
    ASSUME NEW dd, NEW kinds, NEW f \in BodiesOf(dd, kinds)
    PROVE  \/ f.op = "const" /\ f.value \in BOOLEAN
           \/ f.op = "atom" /\ f.kind \in kinds /\ f.at = "i"
           \/ f.op = "ref" /\ f.name \in DOMAIN dd.definition /\ f.at = "i"
           \/ f.op = "not" /\ f.arg \in BodiesOf(dd, kinds)
           \/ f.op \in {"and", "or"} /\ f.args \in Seq(BodiesOf(dd, kinds))
           \/ f.op = "until"
<1> DEFINE N == DOMAIN dd.definition
           E == {}
           U == {"until"}
           h == MaxHeight + 1
<1>1. h \in Nat /\ E \in SUBSET (PastUnary \cup FutureUnary) /\ U \in SUBSET {"since", "until"}
    BY MaxHeightAssumption
<1>2. BodiesOf(dd, kinds) = Bodies(N, kinds, E, U, h)
    BY DEF BodiesOf
<1>3. U = {"until"} /\ E = {}
    OBVIOUS
<1> HIDE DEF N, E, U, h
<1>4. \/ f \in Anchored(N, kinds) /\ f.op \in {"const", "atom", "ref"}
      \/ f.op = "not" /\ f.arg \in BodiesOf(dd, kinds)
      \/ f.op \in {"and", "or"} /\ f.args \in Seq(BodiesOf(dd, kinds))
      \/ f.op \in U
      \/ f.op \in E
    BY <1>1, <1>2, BodyShapes
<1>5. f \in Anchored(N, kinds) => \/ f.op = "const" /\ f.value \in BOOLEAN
                                  \/ f.op = "atom" /\ f.kind \in kinds /\ f.at = "i"
                                  \/ f.op = "ref" /\ f.name \in N /\ f.at = "i"
    BY DEF Anchored, Constants, Atoms, Refs
<1> QED BY <1>3, <1>4, <1>5 DEF N

\* What t says of the end of the word.
SaysEnd(t, e, n, j, f) ==
    \A d \in BOOLEAN : t[<<f, d>>] \in BOOLEAN /\ (t[<<f, d>>] <=> (e[<<f, n, j>>] <=> ~d))

\* finalOf keeps to the end of the word when its table does below.
LEMMA FinalMeans ==
    ASSUME NEW dd, IsDesugared(dd), NEW w, Len(w) \in Nat, NEW e, IsTruth(dd, w, e),
           NEW kinds \in SUBSET Kinds, "bos" \in kinds => Len(w) # 0, NEW t,
           NEW j \in Positions(w),
           NEW f \in BodiesOf(dd, kinds), BodiesOf(dd, kinds) \subseteq FormulasOf(dd),
           \A g \in Parts(f) : f.op # "until" => SaysEnd(t, e, Len(w), j, g),
           f.op = "ref" => SaysEnd(t, e, Len(w), j, dd.definition[f.name]),
           NEW dual \in BOOLEAN
    PROVE  /\ FinalStep(dd, t, f, dual) \in BOOLEAN
           /\ FinalStep(dd, t, f, dual) <=> (e[<<f, Len(w), j>>] <=> ~dual)
<1> DEFINE n == Len(w)
           v == FinalStep(dd, t, f, dual)
<1>1. n \in Nat /\ n \in Positions(w)
    BY DEF Positions
<1>2. e[<<f, n, j>>] = Meaning(dd, w, e, f, n, j)
    BY <1>1, TruthOf
<1>3. CASE f.op = "const" /\ f.value \in BOOLEAN
    <2>1. Meaning(dd, w, e, f, n, j) <=> f.value
        BY <1>3, MeaningConst
    <2>2. v = (f.value # dual)
        BY <1>3, FinalConst
    <2> QED BY <1>2, <1>3, <2>1, <2>2
<1>4. CASE f.op = "atom" /\ f.kind \in kinds /\ f.at = "i"
    <2>1. Meaning(dd, w, e, f, n, j) <=> AtomValue(dd.logic, f, w, n)
        BY <1>4, MeaningAtom DEF Place
    <2>2. AtomValue(dd.logic, f, w, n) <=> f.kind = "eos"
        <3>1. dd.logic = "future"
            BY DEF IsDesugared
        <3>2. CASE f.kind = "eos"
            BY <3>2 DEF AtomValue
        <3>3. CASE f.kind = "bos"
            BY <1>1, <1>4, <3>3 DEF AtomValue
        <3>4. CASE f.kind = "letter"
            <4>1. ~(n \in 0..(Len(w) - 1))
                BY <1>1
            <4> QED BY <3>1, <3>4, <4>1 DEF AtomValue
        <3> QED BY <1>4, <3>2, <3>3, <3>4 DEF Kinds
    <2>3. v = ((f.kind = "eos") # dual)
        BY <1>4, FinalAtom
    <2> QED BY <1>2, <2>1, <2>2, <2>3
<1>5. CASE f.op = "ref" /\ f.at = "i"
    <2>1. Meaning(dd, w, e, f, n, j) <=> e[<<dd.definition[f.name], n, j>>]
        BY <1>5, MeaningRef DEF Place
    <2>2. v = t[<<dd.definition[f.name], dual>>]
        BY <1>5, FinalRef
    <2>3. /\ t[<<dd.definition[f.name], dual>>] \in BOOLEAN
          /\ t[<<dd.definition[f.name], dual>>] <=> (e[<<dd.definition[f.name], n, j>>] <=> ~dual)
        BY <1>5 DEF SaysEnd
    <2> HIDE DEF n, v
    <2> QED BY <1>2, <2>1, <2>2, <2>3 DEF n, v
<1>6. CASE f.op = "not"
    <2>1. Meaning(dd, w, e, f, n, j) <=> ~e[<<f.arg, n, j>>]
        BY <1>6, MeaningNot
    <2>2. v = t[<<f.arg, ~dual>>]
        BY <1>6 DEF FinalStep
    <2>3. f.arg \in Parts(f)
        BY <1>6 DEF Parts
    <2>5. t[<<f.arg, ~dual>>] \in BOOLEAN /\ (t[<<f.arg, ~dual>>] <=> (e[<<f.arg, n, j>>] <=> ~~dual))
        BY <1>6, <2>3 DEF SaysEnd
    <2> HIDE DEF n, v
    <2> QED BY <1>2, <2>1, <2>2, <2>5 DEF n, v
<1>7. CASE f.op \in {"and", "or"}
    <2>1. \A k \in DOMAIN f.args : SaysEnd(t, e, n, j, f.args[k])
        BY <1>7 DEF Parts
    <2>2. \A k \in DOMAIN f.args : t[<<f.args[k], dual>>] <=> (e[<<f.args[k], n, j>>] <=> ~dual)
        BY <2>1 DEF SaysEnd
    <2>3. /\ f.op = "and" => (Meaning(dd, w, e, f, n, j) <=> \A k \in DOMAIN f.args : e[<<f.args[k], n, j>>])
          /\ f.op = "or" => (Meaning(dd, w, e, f, n, j) <=> \E k \in DOMAIN f.args : e[<<f.args[k], n, j>>])
        <3> HIDE DEF n
        <3> QED BY MeaningAnd, MeaningOr
    <2>4. CASE (f.op = "and") # dual
        <3>1. v = \A k \in DOMAIN f.args : t[<<f.args[k], dual>>]
            BY <1>7, <2>4 DEF FinalStep
        <3>2. v <=> \A k \in DOMAIN f.args : (e[<<f.args[k], n, j>>] <=> ~dual)
            BY <2>2, <3>1
        <3>3. v \in BOOLEAN
            BY <3>1
        <3> HIDE DEF n, v
        <3>4. v <=> (Meaning(dd, w, e, f, n, j) <=> ~dual)
            <4>1. CASE f.op = "and" /\ ~dual
                BY <2>3, <3>2, <4>1
            <4>2. CASE f.op = "or" /\ dual
                BY <2>3, <3>2, <4>2
            <4> QED BY <1>7, <2>4, <4>1, <4>2
        <3> QED BY <1>2, <3>3, <3>4 DEF n, v
    <2>5. CASE ~((f.op = "and") # dual)
        <3>1. v = \E k \in DOMAIN f.args : t[<<f.args[k], dual>>]
            BY <1>7, <2>5 DEF FinalStep
        <3>2. v <=> \E k \in DOMAIN f.args : (e[<<f.args[k], n, j>>] <=> ~dual)
            BY <2>2, <3>1
        <3>3. v \in BOOLEAN
            BY <3>1
        <3> HIDE DEF n, v
        <3>4. v <=> (Meaning(dd, w, e, f, n, j) <=> ~dual)
            <4>1. CASE f.op = "or" /\ ~dual
                BY <2>3, <3>2, <4>1
            <4>2. CASE f.op = "and" /\ dual
                BY <2>3, <3>2, <4>2
            <4> QED BY <1>7, <2>5, <4>1, <4>2
        <3> QED BY <1>2, <3>3, <3>4 DEF n, v
    <2> QED BY <2>4, <2>5
<1>8. CASE f.op = "until"
    <2>1. ~Meaning(dd, w, e, f, n, j)
        <3>1. \A x \in (n + 1)..n : FALSE
            BY <1>1
        <3> QED BY <1>8, <3>1, MeaningUntil
    <2>2. v = dual
        BY <1>8, FinalUntil
    <2> QED BY <1>2, <2>1, <2>2
<1> QED BY <1>3, <1>4, <1>5, <1>6, <1>7, <1>8, BodiesOfShape

\* Bodies that finalOf meets are formulas of the DAG.
LEMMA BodiesOfIn ==
    ASSUME NEW dd, IsDesugared(dd)
    PROVE  /\ \A kinds \in SUBSET Kinds : BodiesOf(dd, kinds) \subseteq FormulasOf(dd)
           /\ BodiesOf(dd, {"letter", "eos"}) = BodyOver(DOMAIN dd.definition)
           /\ BodiesOf(dd, Kinds) = Compiled(DOMAIN dd.definition)
           /\ BodiesOf(dd, {"letter", "eos"}) \subseteq BodiesOf(dd, Kinds)
           /\ \A m \in DOMAIN dd.definition : dd.definition[m] \in BodiesOf(dd, {"letter", "eos"})
<1> DEFINE N == DOMAIN dd.definition
           E == {}
           U == {"until"}
           h == MaxHeight + 1
           X == {"letter", "eos"}
<1>1. h \in Nat /\ h <= h /\ E \in SUBSET (PastUnary \cup FutureUnary) /\ U \in SUBSET {"since", "until"}
    BY MaxHeightAssumption
<1>2. /\ \A kinds : BodiesOf(dd, kinds) = Bodies(N, kinds, E, U, h)
      /\ \A names : BodyOver(names) = Bodies(names, X, E, U, h)
      /\ Compiled(N) = Bodies(N, Kinds, E, U, h)
      /\ FormulasOf(dd) = Formulas(N, h)
    BY DEF BodiesOf, BodyOver, Compiled, FormulasOf
<1>3. X \subseteq Kinds
    BY DEF Kinds
<1> HIDE DEF E, U, h, X
<1>4. \A kinds \in SUBSET Kinds : BodiesOf(dd, kinds) \subseteq FormulasOf(dd)
    BY <1>1, <1>2, BodiesIn
<1>5. BodiesOf(dd, X) \subseteq BodiesOf(dd, Kinds)
    <2> DEFINE L == BodyLeaves(N, X, E, U, h)
               M == BodyLeaves(N, Kinds, E, U, h)
    <2>1. L \subseteq M
        BY <1>3 DEF BodyLeaves, Atoms
    <2> HIDE DEF L, M
    <2>2. Combinations(L, h) \subseteq Combinations(M, h)
        BY <1>1, <2>1, CombinationsGrow
    <2> QED BY <1>2, <2>2, BodiesAre DEF L, M
<1>6. ASSUME NEW m \in N PROVE dd.definition[m] \in BodiesOf(dd, X)
    <2>1. PICK k \in 1..Len(dd.names) : m = dd.names[k]
        BY DesugaredShape
    <2>2. dd.definition[m] \in BodyOver(Before(dd, k)) /\ Before(dd, k) \subseteq N
        BY <2>1, DesugaredShape
    <2> HIDE DEF N
    <2>3. BodyOver(Before(dd, k)) \subseteq BodyOver(N)
        BY <1>1, <1>2, <2>2, BodiesGrow
    <2> QED BY <1>2, <2>2, <2>3
<1> QED BY <1>2, <1>4, <1>5, <1>6 DEF X

\* finalOf is the value on the EOS boundary.
LEMMA FinalIs ==
    ASSUME NEW dd, IsDesugared(dd), NEW w, Len(w) \in Nat, NEW e, IsTruth(dd, w, e)
    PROVE  \A f \in BodyOver(DOMAIN dd.definition), dual \in BOOLEAN, j \in Positions(w) :
                FinalOf(dd, f, dual) <=> (e[<<f, Len(w), j>>] <=> ~dual)
<1> DEFINE C == BodiesOf(dd, Kinds)
           O == BodiesOf(dd, {"letter", "eos"})
           X == C \X BOOLEAN
           Whole(t) == [x \in Compiled(DOMAIN dd.definition) \X BOOLEAN |-> FinalStep(dd, t, x[1], x[2])]
           t == CHOOSE t : t = Whole(t)
<1>1. \A f, dual : FinalOf(dd, f, dual) = t[<<f, dual>>]
    BY Zenon DEF FinalOf
<1>2. /\ C \subseteq FormulasOf(dd) /\ O \subseteq FormulasOf(dd) /\ O \subseteq C
      /\ O = BodyOver(DOMAIN dd.definition) /\ C = Compiled(DOMAIN dd.definition)
      /\ \A m \in DOMAIN dd.definition : dd.definition[m] \in O
    BY BodiesOfIn DEF Kinds
<1>3. \E s : s = Whole(s)
    <2> DEFINE u == <<dd>>
    <2>1. Len(u) = 1 /\ Len(u) \in Nat /\ 1 \in Positions(u)
        BY DEF Positions
    <2> HIDE DEF u
    <2>2. PICK d : IsTruth(dd, u, d)
        BY <2>1, DesugaredOrdered, EvalIsTruth DEF IsDesugared
    <2> DEFINE s == [x \in X |-> d[<<x[1], 1, 1>>] <=> ~x[2]]
    <2>3. \A f \in C : SaysEnd(s, d, 1, 1, f)
        BY DEF SaysEnd
    <2>4. ASSUME NEW f \in C, NEW dual \in BOOLEAN
          PROVE  s[<<f, dual>>] = FinalStep(dd, s, f, dual)
        <3>1. s[<<f, dual>>] \in BOOLEAN /\ (s[<<f, dual>>] <=> (d[<<f, 1, 1>>] <=> ~dual))
            BY <2>3 DEF SaysEnd
        <3> HIDE DEF s, C
        <3>2. \A g \in Parts(f) : f.op # "until" => SaysEnd(s, d, 1, 1, g)
            <4>1. \A g \in Parts(f) : f.op # "until" => g \in C
                <5>1. f.op = "not" => Parts(f) = {f.arg}
                    BY DEF Parts
                <5>2. f.op \in {"and", "or"} => Parts(f) = {f.args[k] : k \in DOMAIN f.args}
                    BY DEF Parts
                <5>3. f.op \in {"const", "atom", "ref"} => Parts(f) = {}
                    BY PartsOfLeaves
                <5>4. \/ f.op \in {"const", "atom", "ref", "until"}
                      \/ f.op = "not" /\ f.arg \in C
                      \/ f.op \in {"and", "or"} /\ f.args \in Seq(C)
                    BY BodiesOfShape DEF C
                <5> QED BY <5>1, <5>2, <5>3, <5>4
            <4> QED BY <2>3, <4>1
        <3>3. f.op = "ref" => SaysEnd(s, d, 1, 1, dd.definition[f.name])
            <4>1. f.op = "ref" => f.name \in DOMAIN dd.definition
                BY BodiesOfShape DEF C
            <4> QED BY <1>2, <2>3, <4>1
        <3>4. /\ FinalStep(dd, s, f, dual) \in BOOLEAN
              /\ FinalStep(dd, s, f, dual) <=> (d[<<f, 1, 1>>] <=> ~dual)
            <4>1. Kinds \in SUBSET Kinds /\ f \in BodiesOf(dd, Kinds) /\ BodiesOf(dd, Kinds) \subseteq FormulasOf(dd)
                  /\ Len(u) # 0
                BY <1>2, <2>1 DEF C
            <4>2. \A g \in Parts(f) : f.op # "until" => SaysEnd(s, d, Len(u), 1, g)
                BY <2>1, <3>2
            <4>3. f.op = "ref" => SaysEnd(s, d, Len(u), 1, dd.definition[f.name])
                BY <2>1, <3>3
            <4> DEFINE K == Kinds
            <4>4. K \in SUBSET Kinds /\ f \in BodiesOf(dd, K) /\ BodiesOf(dd, K) \subseteq FormulasOf(dd)
                BY <4>1
            <4> HIDE DEF K
            <4>5. /\ FinalStep(dd, s, f, dual) \in BOOLEAN
                  /\ FinalStep(dd, s, f, dual) <=> (d[<<f, Len(u), 1>>] <=> ~dual)
                <5>1. Len(u) \in Nat /\ 1 \in Positions(u) /\ ("bos" \in K => Len(u) # 0)
                    BY <2>1
                <5> QED BY <2>2, <4>2, <4>3, <4>4, <5>1, FinalMeans
            <4> QED BY <2>1, <4>5
        <3> QED BY <3>1, <3>4
    <2>5. s = Whole(s)
        <3> HIDE DEF C
        <3>1. \A x \in X : s[x] = FinalStep(dd, s, x[1], x[2])
            <4> SUFFICES ASSUME NEW f \in C, NEW dual \in BOOLEAN
                         PROVE  s[<<f, dual>>] = FinalStep(dd, s, f, dual)
                OBVIOUS
            <4> QED BY <2>4
        <3>2. s = [x \in X |-> s[x]]
            OBVIOUS
        <3> HIDE DEF s, X
        <3>3. s = [x \in X |-> FinalStep(dd, s, x[1], x[2])]
            BY <3>1, <3>2
        <3> QED BY <1>2, <3>3 DEF X
    <2> QED BY <2>5
<1>4. t = Whole(t)
    BY <1>3
<1> HIDE DEF t
<1>5. \A f \in C, dual \in BOOLEAN : t[<<f, dual>>] = FinalStep(dd, t, f, dual)
    BY <1>2, <1>4
<1>6. PICK m \in [FormulasOf(dd) -> Nat] :
            \A f \in FormulasOf(dd) :
                /\ \A g \in Parts(f) : g \in FormulasOf(dd) /\ m[g] < m[f]
                /\ f.op = "ref" => /\ dd.definition[f.name] \in FormulasOf(dd)
                                   /\ m[dd.definition[f.name]] < m[f]
    <2>1. MaxHeight + 1 \in Nat /\ Ordered(dd, MaxHeight + 1)
        BY MaxHeightAssumption, DesugaredOrdered
    <2> QED BY <2>1, DagSizes DEF FormulasOf
<1> HIDE DEF C, O, X, Whole
<1>7. ASSUME NEW j \in Positions(w)
      PROVE  \A f \in O : SaysEnd(t, e, Len(w), j, f)
    <2> DEFINE S == {f \in FormulasOf(dd) : f \in O => SaysEnd(t, e, Len(w), j, f)}
    <2>1. ASSUME NEW f \in FormulasOf(dd), \A g \in FormulasOf(dd) : m[g] < m[f] => g \in S
          PROVE  f \in S
        <3> SUFFICES ASSUME f \in O PROVE SaysEnd(t, e, Len(w), j, f)
            OBVIOUS
        <3>1. \/ f.op \in {"const", "atom", "ref", "until"}
              \/ f.op = "not" /\ f.arg \in O
              \/ f.op \in {"and", "or"} /\ f.args \in Seq(O)
            BY BodiesOfShape DEF O
        <3>2. \A g \in Parts(f) : f.op # "until" => g \in O
            <4>1. f.op = "not" => Parts(f) = {f.arg}
                BY DEF Parts
            <4>2. f.op \in {"and", "or"} => Parts(f) = {f.args[k] : k \in DOMAIN f.args}
                BY DEF Parts
            <4>3. f.op \in {"const", "atom", "ref"} => Parts(f) = {}
                BY PartsOfLeaves
            <4> QED BY <3>1, <4>1, <4>2, <4>3
        <3>3. \A g \in Parts(f) : f.op # "until" => SaysEnd(t, e, Len(w), j, g)
            BY <1>6, <2>1, <3>2
        <3>4. f.op = "ref" => SaysEnd(t, e, Len(w), j, dd.definition[f.name])
            <4>1. f.op = "ref" => f.name \in DOMAIN dd.definition
                BY BodiesOfShape DEF O
            <4> QED BY <1>2, <1>6, <2>1, <4>1
        <3> HIDE DEF S
        <3>5. ASSUME NEW dual \in BOOLEAN
              PROVE  /\ FinalStep(dd, t, f, dual) \in BOOLEAN
                     /\ FinalStep(dd, t, f, dual) <=> (e[<<f, Len(w), j>>] <=> ~dual)
            <4> DEFINE K == {"letter", "eos"}
            <4>1. K \in SUBSET Kinds /\ "bos" \notin K /\ f \in BodiesOf(dd, K)
                  /\ BodiesOf(dd, K) \subseteq FormulasOf(dd)
                BY <1>2 DEF O, Kinds
            <4> HIDE DEF K
            <4> QED BY <3>3, <3>4, <4>1, FinalMeans
        <3>6. f \in C
            BY <1>2
        <3> QED BY <1>5, <3>5, <3>6 DEF SaysEnd
    <2> HIDE DEF S
    <2>2. FormulasOf(dd) \subseteq S
        BY <1>6, <2>1, MeasureInduction
    <2> QED BY <1>2, <2>2 DEF S
<1> QED BY <1>1, <1>2, <1>7 DEF SaysEnd

-----------------------------------------------------------------------------
(***************************************************************************)
(* A run of the compiled automaton: every state says at every              *)
(* configuration what its formula says there.                              *)
(***************************************************************************)

\* A run of the compiled automaton on a word, and what the formulas say of it.
Running(dd, w, e, r) ==
    /\ IsDesugared(dd) /\ Len(w) \in Nat /\ \A k \in 1..Len(w) : w[k] \in Alphabet
    /\ IsTruth(dd, w, e) /\ IsRunTable(AutomatonOf(dd), w, r)

\* The states of m, with pebble and head at p, say what m's definition says.
Right(dd, w, e, r, m, p) ==
    \A d \in BOOLEAN, j \in Positions(w) :
        r[<<NamedState(m, d), p, p>>] <=> (e[<<dd.definition[m], p, j>>] <=> ~d)

\* So do those of every name, with the pebble further right.
RightAfter(dd, w, e, r, p) ==
    \A v \in (p + 1)..Len(w), m \in DOMAIN dd.definition : Right(dd, w, e, r, m, v)

\* The atoms of a transition formula that hold at a configuration.
Holding(r, t, q, p, h) == {x \in t.atoms : r[Move(<<q, p, h>>, x)]}

\* A run has the value of its transition formula.
LEMMA RunIsSat ==
    ASSUME NEW dd, NEW w, NEW e, NEW r, Running(dd, w, e, r), NEW q \in States(AutomatonOf(dd)),
           NEW p \in Positions(w), NEW h \in p..Len(w)
    PROVE  /\ h = Len(w) => (r[<<q, p, h>>] <=> FinalOf(dd, Body(dd, q), q.dual))
           /\ h # Len(w) => (r[<<q, p, h>>]
                    <=> Sat(TransitionOf(dd, q), w[h + 1], Holding(r, TransitionOf(dd, q), q, p, h)))
<1> DEFINE a == AutomatonOf(dd)
           t == TransitionOf(dd, q)
<1>1. /\ Len(w) \in Nat /\ IsRunTable(a, w, r) /\ q \in States(a) /\ p \in 0..Len(w) /\ h \in p..Len(w)
      /\ IsDesugared(dd)
    BY DEF Running, Positions
<1>2. a.transition[q] = t /\ (q \in a.final <=> FinalOf(dd, Body(dd, q), q.dual))
    BY <1>1, CompiledShape
<1>3. \A c \in t.clauses : c.atoms \subseteq t.atoms
    BY <1>1, <1>2, CompiledIsWellFormed DEF WellFormed
<1> HIDE DEF a, t
<1>4. /\ h = Len(w) => (r[<<q, p, h>>] <=> q \in a.final)
      /\ h # Len(w) => (r[<<q, p, h>>] <=> \E c \in t.clauses :
                    w[h + 1] \in c.letters /\ \A x \in c.atoms : r[Move(<<q, p, h>>, x)])
    BY <1>1, <1>2, RunTableAt
<1>5. \A c \in t.clauses : (\A x \in c.atoms : r[Move(<<q, p, h>>, x)]) <=> c.atoms \subseteq Holding(r, t, q, p, h)
    BY <1>3 DEF Holding
<1> QED BY <1>2, <1>4, <1>5 DEF Sat, t

\* The atoms to names read what the definitions say.
LEMMA ReadsHold ==
    ASSUME NEW dd, NEW w, NEW e, NEW r, Running(dd, w, e, r), NEW q, NEW t, NEW B,
           B \subseteq DOMAIN dd.definition,
           NEW p \in Positions(w), NEW h \in p..Len(w), h # Len(w),
           \A m \in B : Right(dd, w, e, r, m, p), RightAfter(dd, w, e, r, p)
    PROVE  Scene(Holding(r, t, q, p, h), t.atoms, dd, e, w, B, p, h)
<1> DEFINE T == Holding(r, t, q, p, h)
           W == t.atoms
<1>1. /\ IsTruth(dd, w, e) /\ dd.logic = "future" /\ Len(w) \in Nat
      /\ h \in Positions(w) /\ h < Len(w) /\ h + 1 \in 1..Len(w) /\ w[h + 1] \in Alphabet
      /\ h + 1 \in (p + 1)..Len(w)
    BY DEF Running, Positions, IsDesugared
<1>2. ASSUME NEW m \in B, NEW d \in BOOLEAN, NEW j \in Positions(w)
      PROVE  /\ NamedAtom(m, d, "goto") \in W =>
                    (NamedAtom(m, d, "goto") \in T <=> (e[<<dd.definition[m], p, j>>] <=> ~d))
             /\ NamedAtom(m, d, "carry") \in W =>
                    (NamedAtom(m, d, "carry") \in T <=> (e[<<dd.definition[m], h + 1, j>>] <=> ~d))
    <2>1. \A c : NamedAtom(m, d, c).action = c /\ NamedAtom(m, d, c).state = NamedState(m, d)
        BY DEF NamedAtom
    <2>2. Move(<<q, p, h>>, NamedAtom(m, d, "goto")) = <<NamedState(m, d), p, p>>
        BY <2>1, MoveFacts
    <2>3. Move(<<q, p, h>>, NamedAtom(m, d, "carry")) = <<NamedState(m, d), h + 1, h + 1>>
        BY <2>1, MoveFacts
    <2>4. r[<<NamedState(m, d), p, p>>] <=> (e[<<dd.definition[m], p, j>>] <=> ~d)
        BY DEF Right
    <2>5. r[<<NamedState(m, d), h + 1, h + 1>>] <=> (e[<<dd.definition[m], h + 1, j>>] <=> ~d)
        BY <1>1 DEF Right, RightAfter
    <2>6. NamedAtom(m, d, "goto") \in W => (NamedAtom(m, d, "goto") \in T <=> r[<<NamedState(m, d), p, p>>])
        BY <2>2 DEF Holding
    <2>7. NamedAtom(m, d, "carry") \in W => (NamedAtom(m, d, "carry") \in T <=> r[<<NamedState(m, d), h + 1, h + 1>>])
        BY <2>3 DEF Holding
    <2> HIDE DEF T, W
    <2> QED BY <2>4, <2>5, <2>6, <2>7
<1>3. Reads(T, W, dd, e, w, B, p, h + 1)
    <2> HIDE DEF T, W
    <2> QED BY <1>2 DEF Reads
<1> QED BY <1>1, <1>3 DEF Scene

\* A loop reads what its Until says one step further right.
LEMMA LoopHolds ==
    ASSUME NEW r, NEW t, NEW q, NEW p, NEW h, NEW owner, NEW e, NEW u, NEW dual, NEW n,
           LoopAtom(owner) \in t.atoms =>
                (r[<<owner, p, h + 1>>] <=> (UntilFrom(e, u, p, h + 1, n) <=> ~dual))
    PROVE  LoopReads(Holding(r, t, q, p, h), t.atoms, e, owner, u, dual, p, h + 1, n)
<1>1. LoopAtom(owner).action = "leave" /\ LoopAtom(owner).state = owner
    BY DEF LoopAtom
<1>2. Move(<<q, p, h>>, LoopAtom(owner)) = <<owner, p, h + 1>>
    BY <1>1, MoveFacts
<1>3. LoopAtom(owner) \in t.atoms => (LoopAtom(owner) \in Holding(r, t, q, p, h) <=> r[<<owner, p, h + 1>>])
    BY <1>2 DEF Holding
<1> QED BY <1>3 DEF LoopReads

\* The state of an Until says, from every head, what the Until says from there.
LEMMA UntilStatesAreRight ==
    ASSUME NEW dd, NEW w, NEW e, NEW r, Running(dd, w, e, r), NEW q \in States(AutomatonOf(dd)),
           NEW B, B \subseteq DOMAIN dd.definition, NEW u \in UntilsOver(B), NEW dual \in BOOLEAN,
           Body(dd, q) = u, q.dual = dual, SaysUntil(TransitionOf(dd, q), B, u, dual, q),
           NEW p \in Positions(w), \A m \in B : Right(dd, w, e, r, m, p), RightAfter(dd, w, e, r, p)
    PROVE  \A h \in p..Len(w) : r[<<q, p, h>>] <=> (UntilFrom(e, u, p, h, Len(w)) <=> ~dual)
<1> DEFINE n == Len(w)
           t == TransitionOf(dd, q)
           Good == {k \in Nat : \A h \in p..n : n - h < k =>
                        (r[<<q, p, h>>] <=> (UntilFrom(e, u, p, h, n) <=> ~dual))}
<1>1. n \in Nat /\ p \in 0..n /\ IsDesugared(dd) /\ IsTruth(dd, w, e)
    BY DEF Running, Positions
<1>2. FinalOf(dd, u, dual) <=> dual
    <2>1. u \in BodyOver(DOMAIN dd.definition) /\ u.op = "until" /\ u \in FormulasOf(dd)
        <3>1. UntilsOver(B) \subseteq UntilsOver(DOMAIN dd.definition)
            <4>1. MaxHeight + 1 \in Nat /\ MaxHeight + 1 <= MaxHeight + 1
                BY MaxHeightAssumption
            <4>2. Operands(B, MaxHeight + 1) \subseteq Operands(DOMAIN dd.definition, MaxHeight + 1)
                BY <4>1, OperandsGrow
            <4> QED BY <4>2 DEF UntilsOver, Temporal
        <3> QED BY <3>1, BodiesOverIn, UntilShape
    <2>2. n \in Positions(w)
        BY <1>1 DEF Positions
    <2>3. FinalOf(dd, u, dual) <=> (e[<<u, n, n>>] <=> ~dual)
        BY <1>1, <2>1, <2>2, FinalIs
    <2>4. e[<<u, n, n>>] <=> UntilFrom(e, u, n, n, n)
        BY <1>1, <2>1, <2>2, UntilIsFromThePebble
    <2>5. ~UntilFrom(e, u, n, n, n)
        <3>1. n \in 0..n
            BY <1>1
        <3> QED BY <1>1, <3>1, UntilSteps
    <2> QED BY <2>3, <2>4, <2>5
<1> HIDE DEF n, t
<1>3. ASSUME NEW h \in p..n, h = n
      PROVE  r[<<q, p, h>>] <=> (UntilFrom(e, u, p, h, n) <=> ~dual)
    <2>1. r[<<q, p, h>>] <=> dual
        BY <1>2, <1>3, RunIsSat DEF n
    <2>2. ~UntilFrom(e, u, p, h, n)
        <3>1. h \in 0..n
            BY <1>1
        <3> QED BY <1>1, <1>3, <3>1, UntilSteps
    <2> QED BY <2>1, <2>2
<1>4. ASSUME NEW h \in p..n, h # n, r[<<q, p, h + 1>>] <=> (UntilFrom(e, u, p, h + 1, n) <=> ~dual)
      PROVE  r[<<q, p, h>>] <=> (UntilFrom(e, u, p, h, n) <=> ~dual)
    <2> DEFINE T == Holding(r, t, q, p, h)
    <2>1. Scene(T, t.atoms, dd, e, w, B, p, h)
        BY <1>4, ReadsHold DEF n
    <2>2. LoopReads(T, t.atoms, e, q, u, dual, p, h + 1, n)
        BY <1>4, LoopHolds
    <2>3. r[<<q, p, h>>] <=> Sat(t, w[h + 1], T)
        BY <1>4, RunIsSat DEF n, t
    <2> HIDE DEF T
    <2>4. Sat(t, w[h + 1], T) <=> (UntilFrom(e, u, p, h, n) <=> ~dual)
        BY <2>1, <2>2 DEF SaysUntil, t, n
    <2> QED BY <2>3, <2>4
<1>5. 0 \in Good
    BY <1>1
<1>6. ASSUME NEW k \in Nat, k \in Good PROVE k + 1 \in Good
    <2> SUFFICES ASSUME NEW h \in p..n, n - h < k + 1
                 PROVE  r[<<q, p, h>>] <=> (UntilFrom(e, u, p, h, n) <=> ~dual)
        OBVIOUS
    <2>1. CASE h = n
        BY <1>3, <2>1
    <2>2. CASE h # n
        <3>1. h + 1 \in p..n /\ n - (h + 1) < k
            BY <1>1, <2>2
        <3>2. r[<<q, p, h + 1>>] <=> (UntilFrom(e, u, p, h + 1, n) <=> ~dual)
            BY <1>6, <3>1
        <3> QED BY <1>4, <2>2, <3>2
    <2> QED BY <2>1, <2>2
<1> HIDE DEF Good
<1>7. n + 1 \in Good
    BY <1>1, <1>5, <1>6, NumbersFollow
<1>8. \A h \in p..n : n - h < n + 1
    BY <1>1
<1> QED BY <1>7, <1>8 DEF Good, n

\* The states of a nested Until, one step right of the pebble.
LEMMA NestedStatesAreRight ==
    ASSUME NEW dd, NEW w, NEW e, NEW r, Running(dd, w, e, r),
           NEW B, B \subseteq DOMAIN dd.definition,
           NEW p \in Positions(w), \A m \in B : Right(dd, w, e, r, m, p), RightAfter(dd, w, e, r, p),
           NEW u \in UntilsOver(B), u \in NestedIn(dd), NEW dual \in BOOLEAN
    PROVE  \A h \in p..Len(w) :
                r[<<State(u, dual), p, h>>] <=> (UntilFrom(e, u, p, h, Len(w)) <=> ~dual)
<1> DEFINE q == State(u, dual)
<1>1. IsDesugared(dd)
    BY DEF Running
<1>2. q \in States(AutomatonOf(dd))
    <2>1. q \in NestedStates(dd)
        BY DEF NestedStates
    <2> QED BY <1>1, <2>1, CompiledShape
<1>3. Body(dd, q) = u /\ q.dual = dual /\ SaysUntil(TransitionOf(dd, q), B, u, dual, q)
    BY <1>1, NestedTransition
<1> HIDE DEF q
<1>4. \A h \in p..Len(w) : r[<<q, p, h>>] <=> (UntilFrom(e, u, p, h, Len(w)) <=> ~dual)
    BY <1>2, <1>3, UntilStatesAreRight
<1> QED BY <1>4 DEF q

\* A definition's states say what it says, if those of the names before do.
LEMMA NamedStatesAreRight ==
    ASSUME NEW dd, NEW w, NEW e, NEW r, Running(dd, w, e, r), NEW k \in 1..Len(dd.names),
           NEW p \in Positions(w), \A m \in Before(dd, k) : Right(dd, w, e, r, m, p),
           RightAfter(dd, w, e, r, p)
    PROVE  Right(dd, w, e, r, dd.names[k], p)
<1> DEFINE name == dd.names[k]
           f == dd.definition[name]
           B == Before(dd, k)
           n == Len(w)
<1> SUFFICES ASSUME NEW d \in BOOLEAN, NEW j \in Positions(w)
             PROVE  r[<<NamedState(name, d), p, p>>] <=> (e[<<f, p, j>>] <=> ~d)
    BY DEF Right
<1> DEFINE q == NamedState(name, d)
           t == TransitionOf(dd, q)
<1>1. /\ IsDesugared(dd) /\ IsTruth(dd, w, e) /\ n \in Nat /\ p \in 0..n /\ p \in p..n
    BY DEF Running, Positions
<1>2. /\ Body(dd, q) = f /\ f \in BodyOver(B) /\ q.dual = d
      /\ f.op = "until" => f \in UntilsOver(B) /\ SaysUntil(t, B, f, d, q)
      /\ f.op # "until" => SaysBody(t, B, f, d)
    BY <1>1, NamedTransition
<1>3. B \subseteq DOMAIN dd.definition /\ name \in DOMAIN dd.definition
    BY <1>1, DesugaredShape
<1>4. q \in States(AutomatonOf(dd)) /\ q \in NamedStates(dd)
    <2>1. q \in NamedStates(dd)
        BY <1>3 DEF NamedStates
    <2> QED BY <1>1, <2>1, CompiledShape
<1>5. f \in FormulasOf(dd) /\ f \in BodyOver(DOMAIN dd.definition)
    <2>1. f \in FormulasOf(dd)
        BY <1>2, <1>3, BodiesOverIn
    <2>2. f \in BodyOver(DOMAIN dd.definition)
        BY <1>1, <1>3, BodiesOfIn
    <2> QED BY <2>1, <2>2
<1>6. \A m \in B : Right(dd, w, e, r, m, p)
    OBVIOUS
<1> HIDE DEF name, f, B, q, t, n
<1>7. CASE f.op = "until"
    <2>1. \A h \in p..n : r[<<q, p, h>>] <=> (UntilFrom(e, f, p, h, n) <=> ~d)
        BY <1>2, <1>3, <1>4, <1>6, <1>7, UntilStatesAreRight DEF n, t
    <2>2. e[<<f, p, j>>] <=> UntilFrom(e, f, p, p, n)
        BY <1>1, <1>5, <1>7, UntilIsFromThePebble DEF n
    <2> QED BY <1>1, <2>1, <2>2 DEF q
<1>8. CASE f.op # "until" /\ p = n
    <2>1. r[<<q, p, p>>] <=> FinalOf(dd, f, d)
        BY <1>1, <1>2, <1>4, <1>8, RunIsSat DEF n
    <2>2. FinalOf(dd, f, d) <=> (e[<<f, n, j>>] <=> ~d)
        BY <1>1, <1>5, FinalIs DEF n
    <2> QED BY <1>8, <2>1, <2>2 DEF q
<1>9. CASE f.op # "until" /\ p # n
    <2> DEFINE T == Holding(r, t, q, p, p)
    <2>1. Scene(T, t.atoms, dd, e, w, B, p, p)
        BY <1>1, <1>3, <1>6, <1>9, ReadsHold DEF n
    <2>2. ASSUME NEW u \in UntilsOver(B), NEW c \in BOOLEAN
          PROVE  LoopReads(T, t.atoms, e, State(u, c), u, c, p, p + 1, n)
        <3>1. ASSUME LoopAtom(State(u, c)) \in t.atoms
              PROVE  r[<<State(u, c), p, p + 1>>] <=> (UntilFrom(e, u, p, p + 1, n) <=> ~c)
            <4>1. u \in NestedIn(dd)
                <5>1. LoopAtom(State(u, c)).state.formula = u /\ u.op = "until"
                    BY UntilShape DEF LoopAtom, State
                <5> QED BY <1>1, <1>4, <3>1, <5>1, NestedAre DEF t
            <4>2. p + 1 \in p..n
                BY <1>1, <1>9
            <4> QED BY <1>3, <1>6, <4>1, <4>2, NestedStatesAreRight DEF n
        <3> HIDE DEF T
        <3> QED BY <3>1, LoopHolds DEF T
    <2>3. Loops(T, t.atoms, e, B, p, n)
        BY <2>2 DEF Loops
    <2>4. r[<<q, p, p>>] <=> Sat(t, w[p + 1], T)
        BY <1>1, <1>4, <1>9, RunIsSat DEF n, t
    <2> HIDE DEF T
    <2>5. Sat(t, w[p + 1], T) <=> (e[<<f, p, j>>] <=> ~d)
        BY <1>2, <1>9, <2>1, <2>3 DEF SaysBody, n
    <2> QED BY <2>4, <2>5 DEF q
<1> QED BY <1>7, <1>8, <1>9 DEF q

\* All definitions, with the pebble at p.
LEMMA PebbleIsRight ==
    ASSUME NEW dd, NEW w, NEW e, NEW r, Running(dd, w, e, r),
           NEW p \in Positions(w), RightAfter(dd, w, e, r, p)
    PROVE  \A m \in DOMAIN dd.definition : Right(dd, w, e, r, m, p)
<1> DEFINE K == Len(dd.names)
           Good == {i \in Nat : \A k \in 1..K : k <= i => Right(dd, w, e, r, dd.names[k], p)}
<1>1. IsDesugared(dd) /\ K \in Nat
    BY DEF Running, IsDesugared
<1>2. 0 \in Good
    BY <1>1
<1>3. ASSUME NEW i \in Nat, i \in Good PROVE i + 1 \in Good
    <2> SUFFICES ASSUME NEW k \in 1..K, k <= i + 1 PROVE Right(dd, w, e, r, dd.names[k], p)
        OBVIOUS
    <2>1. \A m \in Before(dd, k) : Right(dd, w, e, r, m, p)
        <3> SUFFICES ASSUME NEW j \in 1..(k - 1) PROVE Right(dd, w, e, r, dd.names[j], p)
            BY DEF Before
        <3>1. j \in 1..K /\ j <= i
            BY <1>1
        <3> QED BY <1>3, <3>1
    <2> QED BY <2>1, NamedStatesAreRight
<1> HIDE DEF Good
<1>4. K \in Good
    BY <1>1, <1>2, <1>3, NumbersFollow
<1>5. \A k \in 1..K : Right(dd, w, e, r, dd.names[k], p)
    BY <1>1, <1>4 DEF Good
<1> QED BY <1>1, <1>5, DesugaredShape

\* So the run reads off the value of every definition, wherever the pebble is.
LEMMA RunsAreRight ==
    ASSUME NEW dd, NEW w, NEW e, NEW r, Running(dd, w, e, r)
    PROVE  \A p \in Positions(w), m \in DOMAIN dd.definition : Right(dd, w, e, r, m, p)
<1> DEFINE n == Len(w)
           Good == {i \in Nat : \A p \in 0..n : n - p < i =>
                        \A m \in DOMAIN dd.definition : Right(dd, w, e, r, m, p)}
<1>1. n \in Nat /\ Positions(w) = 0..n
    BY DEF Running, Positions
<1>2. 0 \in Good
    BY <1>1
<1>3. ASSUME NEW i \in Nat, i \in Good PROVE i + 1 \in Good
    <2> SUFFICES ASSUME NEW p \in 0..n, n - p < i + 1
                 PROVE  \A m \in DOMAIN dd.definition : Right(dd, w, e, r, m, p)
        OBVIOUS
    <2>1. \A v \in (p + 1)..n : v \in 0..n /\ n - v < i
        BY <1>1
    <2>2. RightAfter(dd, w, e, r, p)
        BY <1>3, <2>1 DEF RightAfter
    <2> QED BY <1>1, <2>2, PebbleIsRight
<1> HIDE DEF Good
<1>4. n + 1 \in Good
    BY <1>1, <1>2, <1>3, NumbersFollow
<1>5. \A p \in 0..n : n - p < n + 1
    BY <1>1
<1> QED BY <1>1, <1>4, <1>5 DEF Good

\* The automaton that fromFuture2ltl compiles from a future DAG accepts the
\* words that satisfy the DAG: so says every table that meets the conditions of
\* a run, from the initial state with pebble and head at the first position.
THEOREM CompiledRunIsFormula ==
    ASSUME NEW fd, Compilable(fd), fd.logic = "future", NEW a, a = FromFuture2ltl(fd),
           NEW w, Len(w) \in Nat, \A k \in 1..Len(w) : w[k] \in Alphabet,
           NEW r, IsRunTable(a, w, r)
    PROVE  r[<<a.initial, 0, 0>>] <=> Evaluate(fd, w)
<1> DEFINE dd == Desugared(fd)
<1>1. /\ IsDesugared(dd)
      /\ Evaluate(fd, w) <=> Eval(dd, dd.definition[dd.output.name], w, 0, 0)
    BY DesugarEvaluates
<1>2. a = AutomatonOf(dd)
    BY DEF FromFuture2ltl
<1> HIDE DEF dd
<1>3. PICK e : /\ IsTruth(dd, w, e)
               /\ \A f, i, j : Eval(dd, f, w, i, j) = e[<<f, i, j>>]
    BY <1>1, DesugaredOrdered, EvalIsTruth DEF IsDesugared
<1>4. Running(dd, w, e, r)
    BY <1>1, <1>2, <1>3 DEF Running
<1>5. 0 \in Positions(w) /\ dd.output.name \in DOMAIN dd.definition
    BY <1>1 DEF Positions, IsDesugared
<1>6. Right(dd, w, e, r, dd.output.name, 0)
    BY <1>4, <1>5, RunsAreRight
<1>7. r[<<NamedState(dd.output.name, FALSE), 0, 0>>] <=> e[<<dd.definition[dd.output.name], 0, 0>>]
    <2>1. \A d \in BOOLEAN : r[<<NamedState(dd.output.name, d), 0, 0>>] <=> (e[<<dd.definition[dd.output.name], 0, 0>>] <=> ~d)
        BY <1>5, <1>6 DEF Right
    <2> QED BY <2>1
<1>8. a.initial = NamedState(dd.output.name, FALSE)
    BY <1>1, <1>2, CompiledShape
<1> QED BY <1>1, <1>3, <1>7, <1>8

-----------------------------------------------------------------------------
(***************************************************************************)
(* The pipeline: for inputs that compile it is a determinisation of a well *)
(* formed, very weak automaton, and its verdict is the formula.            *)
(***************************************************************************)

\* The inputs considered are DAGs that compile.
CompilableInputs == \A d \in Dags : Compilable(d)

\* ToFuture gives a future DAG that compiles.
LEMMA FutureCompiles ==
    ASSUME NEW d, Compilable(d)
    PROVE  Compilable(ToFuture(d)) /\ ToFuture(d).logic = "future"
<1>1. d.logic \in {"past", "future"}
    BY DEF Compilable
<1>2. CASE d.logic = "future"
    BY <1>2 DEF ToFuture
<1>3. CASE d.logic = "past"
    BY <1>3, MirrorEvaluates DEF ToFuture
<1> QED BY <1>1, <1>2, <1>3

\* Every automaton that compilation gives, of past and of future DAGs, is one
\* that the determinisation is right for: well formed, and very weak in its
\* rank order.
THEOREM CompilationIsVeryWeak ==
    ASSUME NEW d, Compilable(d)
    PROVE  WellFormed(CompiledAutomaton(d)) /\ VeryWeak(CompiledAutomaton(d))
<1>1. Compilable(ToFuture(d)) /\ ToFuture(d).logic = "future"
    BY FutureCompiles
<1>2. IsDesugared(Desugared(ToFuture(d)))
    BY <1>1, DesugarEvaluates
<1> QED BY <1>2, CompiledIsWellFormed, CompiledIsVeryWeak DEF CompiledAutomaton, FromFuture2ltl

\* So the pipeline implements the determinisation (SummarySpec) of such an
\* automaton: everything proved of SummarySpec holds of the compiler.
THEOREM PipelineDeterminises ==
    ASSUME CompilableInputs
    PROVE  PipelineSpec => SummarySpec
<1>1. PipelineInit => SummaryInit
    BY CompilationIsVeryWeak DEF CompilableInputs, PipelineInit, SummaryInit
<1>2. [PipelineNext]_pipelineVars => [SummaryNext]_summaryVars
    BY DEF PipelineNext, pipelineVars, summaryVars
<1> QED BY <1>1, <1>2, PTL DEF PipelineSpec, SummarySpec

\* The automaton stays the compiled one.
Compiling == dag \in Dags /\ pv = CompiledAutomaton(dag)

\* No step changes the input or its automaton.
LEMMA StaysCompiled == PipelineSpec => []Compiling
<1>1. PipelineInit => Compiling
    BY DEF PipelineInit, Compiling
<1>2. Compiling /\ [PipelineNext]_pipelineVars => Compiling'
    BY DEF Compiling, PipelineNext, SummaryNext, Read, pipelineVars
<1> QED BY <1>1, <1>2, PTL DEF PipelineSpec

\* The alternating automaton accepts exactly the words of the future formula.
LEMMA CompilerAccepts ==
    ASSUME CompilableInputs, IInv, Compiling
    PROVE  AutomatonAcceptsFormula
<1> DEFINE u == MirrorOf(word)
           t == SummaryTable(pv, word, history)
           fd == ToFuture(dag)
<1>1. /\ WellFormed(pv) /\ VeryWeak(pv) /\ IsReading(pv, word, history) /\ word \in Seq(Alphabet)
      /\ Compilable(dag) /\ pv = FromFuture2ltl(fd)
    BY DEF IInv, HistoryInv, Compiling, CompilableInputs, CompiledAutomaton
<1>2. /\ Len(word) \in Nat /\ Len(u) = Len(word) /\ Len(u) \in Nat /\ \A k \in 1..Len(u) : u[k] \in Alphabet
    <2>1. Len(word) \in Nat /\ Len(u) = Len(word)
        BY <1>1 DEF MirrorOf
    <2>2. \A k \in 1..Len(word) : u[k] = word[Len(word) + 1 - k] /\ Len(word) + 1 - k \in 1..Len(word)
        BY <2>1 DEF MirrorOf
    <2> QED BY <1>1, <2>1, <2>2
<1>3. Mirrored = u
    BY DEF Mirrored, MirrorOf
<1>4. Compilable(fd) /\ fd.logic = "future"
    BY <1>1, FutureCompiles
<1>5. IsRunTable(pv, u, t)
    BY <1>1, SummaryTableIsRun
<1> HIDE DEF u, t, fd
<1>6. t[<<pv.initial, 0, 0>>] <=> Evaluate(fd, u)
    BY <1>1, <1>2, <1>4, <1>5, CompiledRunIsFormula
<1>7. pv.initial \in States(pv) /\ 0 \in 0..Len(word)
    BY <1>1, <1>2 DEF WellFormed
<1>8. PvwaaRun(pv, u, pv.initial, 0, 0) <=> t[<<pv.initial, 0, 0>>]
    BY <1>1, <1>2, <1>7, RunIsSummary, SummaryTableAt DEF u, t
<1> QED BY <1>3, <1>6, <1>8 DEF AutomatonAcceptsFormula, PvwaaAccepts, fd

\* The alternating automaton accepts exactly the words of the future formula,
\* of every prefix read: AutomatonAcceptsFormula is invariant.
THEOREM CompilerCorrect ==
    ASSUME CompilableInputs
    PROVE  PipelineSpec => []AutomatonAcceptsFormula
<1>1. IInv /\ Compiling => AutomatonAcceptsFormula
    BY CompilerAccepts
<1> QED BY <1>1, PipelineDeterminises, SummaryInvHolds, StaysCompiled, PTL

\* Reading the word forwards, the reverse Boolean automaton answers what the
\* input formula says of it, past or future: VerdictIsTheFormula is invariant.
THEOREM PipelineCorrect ==
    ASSUME CompilableInputs
    PROVE  PipelineSpec => []VerdictIsTheFormula
<1>1. ASSUME IInv, Compiling, AutomatonAcceptsFormula, AcceptsTheMirror
      PROVE  VerdictIsTheFormula
    <2>1. word \in Seq(Alphabet) /\ Compilable(dag) /\ dag.logic \in {"past", "future"}
        BY <1>1 DEF IInv, HistoryInv, Compiling, CompilableInputs, Compilable
    <2>2. AcceptsNow(pv, summary) <=> Evaluate(ToFuture(dag), Mirrored)
        BY <1>1 DEF AutomatonAcceptsFormula, AcceptsTheMirror
    <2>3. CASE dag.logic = "future"
        <3>1. Reverse(word) = Mirrored
            <4>1. \A k \in 1..Len(word) : (Len(word) - k) + 1 = Len(word) + 1 - k
                BY <2>1
            <4> QED BY <4>1 DEF Reverse, Mirrored
        <3> QED BY <2>2, <2>3, <3>1 DEF ToFuture, VerdictIsTheFormula
    <2>4. CASE dag.logic = "past"
        <3>1. IsReverse(Mirrored, word)
            BY <2>1 DEF IsReverse, Mirrored
        <3>2. Evaluate(dag, word) <=> Evaluate(MirrorDag(dag), Mirrored)
            BY <2>1, <2>4, <3>1, MirrorEvaluates
        <3> QED BY <2>2, <2>4, <3>2 DEF ToFuture, VerdictIsTheFormula
    <2> QED BY <2>1, <2>3, <2>4
<1>2. IInv /\ Compiling /\ AutomatonAcceptsFormula /\ AcceptsTheMirror => VerdictIsTheFormula
    BY <1>1
<1> QED BY <1>2, PipelineDeterminises, SummaryInvHolds, DeterminisationCorrect, StaysCompiled, CompilerCorrect, PTL

===============================================================================
