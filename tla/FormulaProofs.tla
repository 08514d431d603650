---------------------------- MODULE FormulaProofs -----------------------------
(***************************************************************************)
(* What 2LTL formulas say, and what the two rewritings of the front end    *)
(* keep of it: mirroring a past DAG (TwoLtl) and desugaring a future DAG   *)
(* (Pvwaa), for every DAG, every word and any height of the formulas.      *)
(*                                                                         *)
(* The formulas of a DAG are built in layers, and their sizes order them   *)
(* so that operands come before the operators over them and a definition   *)
(* before the references to it.  Eval therefore has a table of truth       *)
(* values (EvalIsTruth), and what remains is equational: a rewriting keeps *)
(* the meaning of every formula that it meets, by induction along the      *)
(* sizes of the formulas met.                                              *)
(***************************************************************************)
EXTENDS VerifierPipeline, SummaryProofs

-----------------------------------------------------------------------------
(***************************************************************************)
(* The layers of formulas: combinations of leaves up to some height.       *)
(***************************************************************************)

\* A round of Combinations.
Wider(fs) == fs \cup Connectives(fs)

\* The sets that Combinations goes through.
IsTower(c, leaves, h) ==
    /\ c = [n \in 0..h |-> c[n]]
    /\ c[0] = leaves
    /\ \A n \in 1..h : c[n] = Wider(c[n - 1])

\* The sets of the layers are defined up to any height ...
LEMMA TowerExists ==
    ASSUME NEW leaves, NEW h \in Nat
    PROVE  \E c : IsTower(c, leaves, h)
<1> DEFINE Good == {n \in Nat : \E c : IsTower(c, leaves, n)}
<1>1. 0 \in Good
    <2> DEFINE c == [n \in 0..0 |-> leaves]
    <2>1. c[0] = leaves /\ c = [n \in 0..0 |-> c[n]] /\ 1..0 = {}
        OBVIOUS
    <2> QED BY <2>1 DEF IsTower
<1>2. ASSUME NEW n \in Nat, n \in Good PROVE n + 1 \in Good
    <2>1. PICK b : IsTower(b, leaves, n)
        BY <1>2
    <2> DEFINE c == [k \in 0..(n + 1) |-> IF k = n + 1 THEN Wider(b[n]) ELSE b[k]]
    <2>2. c = [k \in 0..(n + 1) |-> c[k]] /\ c[n + 1] = Wider(b[n]) /\ \A k \in 0..n : c[k] = b[k]
        OBVIOUS
    <2> HIDE DEF c
    <2>3. c[0] = leaves
        BY <2>1, <2>2 DEF IsTower
    <2>4. \A k \in 1..(n + 1) : c[k] = Wider(c[k - 1])
        <3> TAKE k \in 1..(n + 1)
        <3>1. CASE k = n + 1
            <4>1. k - 1 = n /\ n \in 0..n
                BY <3>1
            <4> QED BY <2>2, <3>1, <4>1
        <3>2. CASE k # n + 1
            <4>1. k \in 1..n /\ k \in 0..n /\ k - 1 \in 0..n
                BY <3>2
            <4> QED BY <2>1, <2>2, <4>1 DEF IsTower
        <3> QED BY <3>1, <3>2
    <2>5. IsTower(c, leaves, n + 1)
        BY <2>2, <2>3, <2>4 DEF IsTower
    <2> QED BY <2>5
<1> HIDE DEF Good
<1>3. Nat \subseteq Good
    BY <1>1, <1>2, NumbersFollow
<1> QED BY <1>3 DEF Good

\* ... in one way only ...
LEMMA TowersAgree ==
    ASSUME NEW leaves, NEW h \in Nat, NEW k \in Nat, NEW b, NEW c,
           IsTower(b, leaves, h), IsTower(c, leaves, k), h <= k
    PROVE  \A n \in 0..h : b[n] = c[n]
<1>1. b[0] = c[0]
    BY DEF IsTower
<1>2. \A n \in 1..h : b[n - 1] = c[n - 1] => b[n] = c[n]
    <2>1. \A n \in 1..h : n \in 1..k
        OBVIOUS
    <2> QED BY <2>1 DEF IsTower
<1> QED BY <1>1, <1>2, RoundsAgree, ZenonT(40)

\* ... and Combinations is the last of them.
LEMMA CombinationsTower ==
    ASSUME NEW leaves, NEW h \in Nat, NEW c, IsTower(c, leaves, h)
    PROVE  Combinations(leaves, h) = c[h]
<1> DEFINE Whole(f) == [n \in 0..h |->
                        IF n = 0 THEN leaves ELSE LET below == f[n - 1] IN below \cup Connectives(below)]
           Rows(f) == [n \in 0..h |-> IF n = 0 THEN leaves ELSE Wider(f[n - 1])]
           upto == CHOOSE f : f = Whole(f)
<1>1. \A f : Whole(f) = Rows(f)
    BY Zenon DEF Wider
<1>2. Combinations(leaves, h) = upto[h]
    BY Zenon DEF Combinations
<1>3. c = Rows(c)
    <2>1. \A n \in 0..h : c[n] = IF n = 0 THEN leaves ELSE Wider(c[n - 1])
        <3>1. \A n \in 0..h : n = 0 \/ n \in 1..h
            OBVIOUS
        <3>2. c[0] = leaves /\ \A n \in 1..h : c[n] = Wider(c[n - 1])
            BY DEF IsTower
        <3> QED BY <3>1, <3>2
    <2>2. c = [n \in 0..h |-> c[n]]
        BY DEF IsTower
    <2> QED BY <2>1, <2>2
<1> HIDE DEF Body
<1>4. upto = Rows(upto)
    <2> HIDE DEF Rows
    <2>1. \E f : f = Whole(f)
        BY <1>1, <1>3, Zenon
    <2>2. upto = Whole(upto)
        BY <2>1, Zenon
    <2> QED BY <1>1, <2>2, Zenon
<1> HIDE DEF upto
<1>5. IsTower(upto, leaves, h)
    <2>1. upto = [n \in 0..h |-> upto[n]]
        BY <1>4
    <2>2. \A n \in 0..h : upto[n] = IF n = 0 THEN leaves ELSE Wider(upto[n - 1])
        <3> HIDE DEF Rows
        <3>1. \A n \in 0..h : upto[n] = Rows(upto)[n]
            BY <1>4
        <3> QED BY <3>1 DEF Rows
    <2>3. upto[0] = leaves
        BY <2>2
    <2>4. \A n \in 1..h : upto[n] = Wider(upto[n - 1])
        <3>1. \A n \in 1..h : n \in 0..h /\ n # 0
            OBVIOUS
        <3> QED BY <2>2, <3>1
    <2> QED BY <2>1, <2>3, <2>4 DEF IsTower
<1>6. upto[h] = c[h]
    BY <1>5, TowersAgree
<1> QED BY <1>2, <1>6

\* Combinations of height zero are the leaves,
LEMMA CombinationsZero == ASSUME NEW leaves PROVE Combinations(leaves, 0) = leaves
<1>1. PICK c : IsTower(c, leaves, 0)
    BY TowerExists
<1> QED BY <1>1, CombinationsTower DEF IsTower

\* and every layer adds the connectives over the one before.
LEMMA CombinationsNext ==
    ASSUME NEW leaves, NEW h \in Nat
    PROVE  Combinations(leaves, h + 1) = Wider(Combinations(leaves, h))
<1>1. PICK b : IsTower(b, leaves, h)
    BY TowerExists
<1>2. PICK c : IsTower(c, leaves, h + 1)
    BY TowerExists
<1>3. b[h] = c[h]
    BY <1>1, <1>2, TowersAgree
<1>4. c[h + 1] = Wider(c[h])
    <2>1. h + 1 \in 1..(h + 1) /\ (h + 1) - 1 = h
        OBVIOUS
    <2> QED BY <1>2, <2>1 DEF IsTower
<1> QED BY <1>1, <1>2, <1>3, <1>4, CombinationsTower

\* What holds of the leaves, and of a set's connectives if of the set, holds
\* of all combinations.
LEMMA CombinationsWithin ==
    ASSUME NEW leaves, NEW S, NEW h \in Nat, leaves \subseteq S,
           \A n \in 0..(h - 1) : Combinations(leaves, n) \subseteq S
                                    => Connectives(Combinations(leaves, n)) \subseteq S
    PROVE  \A n \in 0..h : Combinations(leaves, n) \subseteq S
<1> DEFINE Good == {n \in Nat : n <= h => Combinations(leaves, n) \subseteq S}
<1>1. 0 \in Good
    BY CombinationsZero
<1>2. ASSUME NEW n \in Nat, n \in Good PROVE n + 1 \in Good
    <2>1. SUFFICES ASSUME n + 1 <= h PROVE Combinations(leaves, n + 1) \subseteq S
        OBVIOUS
    <2>2. n \in 0..(h - 1) /\ Combinations(leaves, n) \subseteq S
        BY <1>2, <2>1
    <2>3. Combinations(leaves, n + 1) = Combinations(leaves, n) \cup Connectives(Combinations(leaves, n))
        BY CombinationsNext DEF Wider
    <2> QED BY <2>2, <2>3
<1> HIDE DEF Good
<1>3. Nat \subseteq Good
    BY <1>1, <1>2, NumbersFollow
<1> QED BY <1>3 DEF Good

\* More formulas have more connectives over them.
LEMMA ConnectivesGrow ==
    ASSUME NEW A, NEW B, A \subseteq B
    PROVE  Connectives(A) \subseteq Connectives(B)
<1>1. Seq(A) \subseteq Seq(B)
    OBVIOUS
<1> QED BY <1>1 DEF Connectives

\* More leaves and more height only add.
LEMMA CombinationsGrow ==
    ASSUME NEW A, NEW B, A \subseteq B, NEW h \in Nat, NEW k \in Nat, h <= k
    PROVE  Combinations(A, h) \subseteq Combinations(B, k)
<1>1. ASSUME NEW leaves PROVE \A m \in Nat : \A n \in Nat :
            Combinations(leaves, n) \subseteq Combinations(leaves, n + m)
    <2> DEFINE Good == {m \in Nat : \A n \in Nat : Combinations(leaves, n) \subseteq Combinations(leaves, n + m)}
    <2>1. 0 \in Good
        OBVIOUS
    <2>2. ASSUME NEW m \in Nat, m \in Good PROVE m + 1 \in Good
        <3>1. ASSUME NEW n \in Nat PROVE Combinations(leaves, n) \subseteq Combinations(leaves, n + (m + 1))
            <4>1. n + m \in Nat /\ n + (m + 1) = (n + m) + 1
                OBVIOUS
            <4>2. Combinations(leaves, (n + m) + 1) = Wider(Combinations(leaves, n + m))
                BY <4>1, CombinationsNext
            <4>3. Combinations(leaves, n) \subseteq Combinations(leaves, n + m)
                BY <2>2
            <4> QED BY <4>1, <4>2, <4>3 DEF Wider
        <3> QED BY <3>1
    <2> HIDE DEF Good
    <2>3. Nat \subseteq Good
        BY <2>1, <2>2, NumbersFollow
    <2> QED BY <2>3 DEF Good
<1>2. Combinations(A, h) \subseteq Combinations(B, h)
    <2> DEFINE Good == {n \in Nat : Combinations(A, n) \subseteq Combinations(B, n)}
    <2>1. 0 \in Good
        BY CombinationsZero
    <2>2. ASSUME NEW n \in Nat, n \in Good PROVE n + 1 \in Good
        <3>1. Connectives(Combinations(A, n)) \subseteq Connectives(Combinations(B, n))
            BY <2>2, ConnectivesGrow
        <3> QED BY <2>2, <3>1, CombinationsNext DEF Wider
    <2> HIDE DEF Good
    <2>3. Nat \subseteq Good
        BY <2>1, <2>2, NumbersFollow
    <2> QED BY <2>3 DEF Good
<1>3. h + (k - h) = k /\ k - h \in Nat
    OBVIOUS
<1>4. Combinations(B, h) \subseteq Combinations(B, k)
    BY <1>1, <1>3
<1> QED BY <1>2, <1>4

-----------------------------------------------------------------------------
(***************************************************************************)
(* The shapes of formulas, and sizes by which their parts come first.      *)
(***************************************************************************)

\* The formulas right below a formula.
Parts(f) ==
    IF f.op \in {"and", "or"} THEN {f.args[k] : k \in DOMAIN f.args}
    ELSE IF f.op \in {"since", "until"} THEN {f.left, f.right}
    ELSE IF f.op \in {"not"} \cup PastUnary \cup FutureUnary THEN {f.arg}
    ELSE {}

\* Leaves have no parts.
LEMMA PartsOfLeaves ==
    ASSUME NEW f, f.op \in {"const", "atom", "ref"}
    PROVE  Parts(f) = {}
BY DEF Parts, PastUnary, FutureUnary

\* What a connective looks like.
LEMMA ConnectiveShapes ==
    ASSUME NEW S, NEW f \in Connectives(S)
    PROVE  /\ Parts(f) \subseteq S
           /\ \/ f.op = "not" /\ f = Not(f.arg) /\ f.arg \in S
              \/ f.op \in {"and", "or"} /\ f = [op |-> f.op, args |-> f.args] /\ f.args \in Seq(S)
<1>1. CASE f \in [op : {"not"}, arg : S]
    <2>1. f.op = "not" /\ f.arg \in S /\ f = [op |-> "not", arg |-> f.arg]
        BY <1>1
    <2>2. Parts(f) = {f.arg}
        BY <2>1 DEF Parts
    <2> QED BY <2>1, <2>2 DEF Not
<1>2. CASE f \in [op : {"and", "or"}, args : Seq(S)]
    <2>1. f.op \in {"and", "or"} /\ f.args \in Seq(S) /\ f = [op |-> f.op, args |-> f.args]
        BY <1>2
    <2>2. Parts(f) = {f.args[k] : k \in DOMAIN f.args}
        BY <2>1 DEF Parts
    <2>3. \A k \in DOMAIN f.args : f.args[k] \in S
        BY <2>1
    <2> QED BY <2>1, <2>2, <2>3
<1> QED BY <1>1, <1>2 DEF Connectives

\* What a temporal formula looks like.
LEMMA TemporalShapes ==
    ASSUME NEW S, NEW U \in SUBSET (PastUnary \cup FutureUnary), NEW B \in SUBSET {"since", "until"},
           NEW f \in Temporal(U, B, S)
    PROVE  /\ Parts(f) \subseteq S
           /\ \/ f.op \in U /\ f = Unary(f.op, f.arg) /\ f.arg \in S
              \/ f.op \in B /\ f = Binary(f.op, f.left, f.right) /\ f.left \in S /\ f.right \in S
<1>1. CASE f \in [op : U, arg : S]
    <2>1. f.op \in U /\ f.arg \in S /\ f = [op |-> f.op, arg |-> f.arg]
        BY <1>1
    <2>2. Parts(f) = {f.arg}
        BY <2>1 DEF Parts, PastUnary, FutureUnary
    <2> QED BY <2>1, <2>2 DEF Unary
<1>2. CASE f \in [op : B, left : S, right : S]
    <2>1. f.op \in B /\ f.left \in S /\ f.right \in S /\ f = [op |-> f.op, left |-> f.left, right |-> f.right]
        BY <1>2
    <2>2. Parts(f) = {f.left, f.right}
        BY <2>1 DEF Parts
    <2> QED BY <2>1, <2>2 DEF Binary
<1> QED BY <1>1, <1>2 DEF Temporal

\* The height at which a combination first appears: its parts come earlier.
LEMMA CombinationSizes ==
    ASSUME NEW leaves, NEW h \in Nat
    PROVE  \E m \in [Combinations(leaves, h) -> 0..h] :
                \A f \in Combinations(leaves, h) :
                    f \in leaves \/ (/\ f \in Connectives(Combinations(leaves, h))
                                     /\ \A g \in Parts(f) : g \in Combinations(leaves, h) /\ m[g] < m[f])
<1> DEFINE C(n) == Combinations(leaves, n)
           First(f) == CHOOSE n \in 0..h : f \in C(n) /\ \A k \in 0..h : f \in C(k) => n <= k
           m == [f \in C(h) |-> First(f)]
<1>1. ASSUME NEW f \in C(h) PROVE First(f) \in 0..h /\ f \in C(First(f)) /\ \A k \in 0..h : f \in C(k) => First(f) <= k
    <2> DEFINE T == {n \in 0..h : f \in C(n)}
    <2>1. T \subseteq Nat /\ T # {}
        <3>1. h \in T
            OBVIOUS
        <3> QED BY <3>1
    <2>2. PICK n \in T : \A k \in T : n <= k
        BY <2>1, LeastNumber
    <2> QED BY <2>2
<1> HIDE DEF First
<1>2. m \in [C(h) -> 0..h]
    BY <1>1
<1>3. \A n \in 0..h : C(n) \subseteq C(h)
    BY CombinationsGrow
<1>4. ASSUME NEW f \in C(h), f \notin leaves
      PROVE  f \in Connectives(C(h)) /\ \A g \in Parts(f) : g \in C(h) /\ m[g] < m[f]
    <2>1. First(f) # 0
        BY <1>1, <1>4, CombinationsZero
    <2> DEFINE n == First(f) - 1
    <2>2. n \in 0..h /\ n \in Nat /\ First(f) = n + 1
        BY <1>1, <2>1
    <2>3. C(n + 1) = C(n) \cup Connectives(C(n))
        BY <2>2, CombinationsNext DEF Wider
    <2>4. f \notin C(n)
        BY <1>1, <2>2
    <2>5. f \in Connectives(C(n))
        BY <1>1, <2>2, <2>3, <2>4
    <2>6. f \in Connectives(C(h))
        BY <1>3, <2>2, <2>5, ConnectivesGrow
    <2>7. Parts(f) \subseteq C(n)
        BY <2>5, ConnectiveShapes
    <2>8. \A g \in Parts(f) : g \in C(h) /\ First(g) <= n
        BY <1>1, <1>3, <2>2, <2>7
    <2>9. \A g \in Parts(f) : m[g] = First(g) /\ First(g) \in 0..h
        BY <1>1, <2>8
    <2> HIDE DEF n
    <2> QED BY <1>1, <2>2, <2>6, <2>8, <2>9
<1> QED BY <1>2, <1>4

\* The temporal formulas of a formula set.
TemporalOver(names, h) ==
    Temporal(PastUnary \cup FutureUnary, {"since", "until"}, Combinations(Leaves(names), h))

\* Formulas are the combinations of the leaves and the temporal formulas.
LEMMA FormulasAre ==
    ASSUME NEW names, NEW h
    PROVE  Formulas(names, h) = Combinations(Leaves(names) \cup TemporalOver(names, h), h)
BY DEF Formulas, TemporalOver

\* What a leaf looks like.
LEMMA LeafShapes ==
    ASSUME NEW names, NEW f \in Leaves(names)
    PROVE  \/ f.op = "const" /\ f = Const(f.value) /\ f.value \in BOOLEAN
           \/ /\ f.op = "atom" /\ f.kind \in Kinds /\ f.at \in Places /\ f.letters \in SUBSET STRING
              /\ f = [op |-> "atom", kind |-> f.kind, letters |-> f.letters, at |-> f.at]
           \/ f.op = "ref" /\ f = Ref(f.name, f.at) /\ f.name \in names /\ f.at \in Places
BY DEF Leaves, Constants, Atoms, Refs, Const, Ref

\* The operands of a temporal formula are formulas.
LEMMA OperandsAreFormulas ==
    ASSUME NEW names, NEW h \in Nat
    PROVE  Combinations(Leaves(names), h) \subseteq Formulas(names, h)
<1> DEFINE A == Leaves(names)
           B == Leaves(names) \cup TemporalOver(names, h)
<1>1. A \subseteq B /\ h <= h
    OBVIOUS
<1>2. Formulas(names, h) = Combinations(B, h)
    BY FormulasAre
<1> HIDE DEF A, B
<1>3. Combinations(A, h) \subseteq Combinations(B, h)
    BY <1>1, CombinationsGrow
<1> QED BY <1>2, <1>3 DEF A

\* A formula of a formula set: its parts are in the set.
LEMMA FormulaShapes ==
    ASSUME NEW names, NEW h \in Nat, NEW f \in Formulas(names, h)
    PROVE  /\ Parts(f) \subseteq Formulas(names, h)
           /\ f \in Leaves(names) \/ f \in Connectives(Formulas(names, h)) \/ f \in TemporalOver(names, h)
<1>1. Combinations(Leaves(names), h) \subseteq Formulas(names, h)
    BY OperandsAreFormulas
<1>2. f \in Leaves(names) \/ f \in TemporalOver(names, h) \/ f \in Connectives(Formulas(names, h))
    BY FormulasAre, CombinationSizes
<1>3. CASE f \in Leaves(names)
    <2>1. f.op \in {"const", "atom", "ref"}
        BY <1>3, LeafShapes
    <2> QED BY <1>2, <2>1, PartsOfLeaves
<1>4. CASE f \in Connectives(Formulas(names, h))
    BY <1>2, <1>4, ConnectiveShapes
<1>5. CASE f \in TemporalOver(names, h)
    <2>1. Parts(f) \subseteq Combinations(Leaves(names), h)
        BY <1>5, TemporalShapes DEF TemporalOver
    <2> QED BY <1>1, <1>2, <2>1
<1> QED BY <1>2, <1>3, <1>4, <1>5

\* Every formula has a size above those of its parts.
LEMMA FormulaSizes ==
    ASSUME NEW names, NEW h \in Nat
    PROVE  \E m \in [Formulas(names, h) -> 0..(2 * h + 1)] :
                \A f \in Formulas(names, h) : \A g \in Parts(f) :
                    g \in Formulas(names, h) /\ m[g] < m[f]
<1> DEFINE M == Combinations(Leaves(names), h)
           F == Formulas(names, h)
<1>1. PICK a \in [M -> 0..h] : \A f \in M :
            f \in Leaves(names) \/ (f \in Connectives(M) /\ \A g \in Parts(f) : g \in M /\ a[g] < a[f])
    BY CombinationSizes
<1>2. PICK b \in [F -> 0..h] : \A f \in F :
            f \in Leaves(names) \cup TemporalOver(names, h)
                \/ (f \in Connectives(F) /\ \A g \in Parts(f) : g \in F /\ b[g] < b[f])
    BY CombinationSizes, FormulasAre
<1>3. M \subseteq F
    BY OperandsAreFormulas
<1> DEFINE m == [f \in F |-> IF f \in M THEN a[f] ELSE h + 1 + b[f]]
<1>4. m \in [F -> 0..(2 * h + 1)]
    BY <1>1, <1>2
<1>5. ASSUME NEW f \in F, NEW g \in Parts(f) PROVE g \in F /\ m[g] < m[f]
    <2>1. f \notin Leaves(names)
        BY <1>5, LeafShapes, PartsOfLeaves
    <2>2. g \in F
        BY <1>5, FormulaShapes
    <2>3. CASE f \in M
        <3>1. g \in M /\ a[g] < a[f]
            BY <1>1, <1>5, <2>1, <2>3
        <3> QED BY <1>3, <2>3, <3>1
    <2>4. CASE f \notin M
        <3>1. m[f] = h + 1 + b[f] /\ b[f] \in 0..h
            BY <1>2, <2>4
        <3>2. CASE g \in M
            <4>1. m[g] \in 0..h
                BY <1>1, <2>2, <3>2
            <4> QED BY <2>2, <3>1, <4>1
        <3>3. CASE g \notin M
            <4>1. m[g] = h + 1 + b[g] /\ b[g] \in 0..h
                BY <1>2, <2>2, <3>3
            <4>2. f \notin TemporalOver(names, h)
                <5>1. f \in TemporalOver(names, h) => Parts(f) \subseteq M
                    BY TemporalShapes DEF TemporalOver
                <5> QED BY <1>5, <3>3, <5>1
            <4>3. b[g] < b[f]
                BY <1>2, <1>5, <2>1, <4>2
            <4> QED BY <2>2, <3>1, <4>1, <4>3
        <3> QED BY <3>2, <3>3
    <2> QED BY <2>3, <2>4
<1> QED BY <1>4, <1>5

\* More names and more height only add.
LEMMA FormulasGrow ==
    ASSUME NEW A, NEW B, A \subseteq B, NEW h \in Nat, NEW k \in Nat, h <= k
    PROVE  Formulas(A, h) \subseteq Formulas(B, k)
<1>1. Leaves(A) \subseteq Leaves(B)
    BY DEF Leaves, Refs
<1>2. Combinations(Leaves(A), h) \subseteq Combinations(Leaves(B), k)
    BY <1>1, CombinationsGrow
<1>3. TemporalOver(A, h) \subseteq TemporalOver(B, k)
    BY <1>2 DEF TemporalOver, Temporal
<1> QED BY <1>1, <1>3, FormulasAre, CombinationsGrow

-----------------------------------------------------------------------------
(***************************************************************************)
(* The DAG: definitions come before the references to them.                *)
(***************************************************************************)

\* The names before the k-th one.
Before(dg, k) == {dg.names[j] : j \in 1..(k - 1)}

\* A DAG whose definitions are over the names before them.
Ordered(dg, h) ==
    /\ Len(dg.names) \in Nat
    /\ DOMAIN dg.definition = Before(dg, Len(dg.names) + 1)
    /\ \A k \in 1..Len(dg.names) : dg.definition[dg.names[k]] \in Formulas(Before(dg, k), h)

\* Pairs of numbers, the first one weighing more.
LEMMA LexicographicallyLess ==
    ASSUME NEW a \in Nat, NEW b \in Nat, NEW z \in Nat, NEW s \in 0..z, NEW t \in 0..z,
           a < b \/ (a = b /\ s < t)
    PROVE  a * (z + 1) + s < b * (z + 1) + t
<1>1. CASE a = b /\ s < t
    <2>1. a * (z + 1) = b * (z + 1) /\ a * (z + 1) \in Nat
        BY <1>1
    <2> DEFINE p == a * (z + 1)
    <2> HIDE DEF p
    <2>2. p \in Nat => p + s < p + t
        BY <1>1
    <2> QED BY <2>1, <2>2 DEF p
<1>2. CASE a < b
    <2>1. PICK d \in Nat : b = a + 1 + d
        <3>1. b - a - 1 \in Nat /\ b = a + 1 + (b - a - 1)
            BY <1>2
        <3> QED BY <3>1
    <2>2. b * (z + 1) = a * (z + 1) + (z + 1) + d * (z + 1)
        BY <2>1
    <2>3. a * (z + 1) \in Nat /\ d * (z + 1) \in Nat
        OBVIOUS
    <2> DEFINE p == a * (z + 1)
               e == d * (z + 1)
    <2> HIDE DEF p, e
    <2>4. p \in Nat /\ e \in Nat => p + s < p + (z + 1) + e + t
        OBVIOUS
    <2> QED BY <2>2, <2>3, <2>4 DEF p, e
<1> QED BY <1>1, <1>2

\* Operands are smaller than their formula, and definitions than the
\* references to them.
LEMMA DagSizes ==
    ASSUME NEW dg, NEW h \in Nat, Ordered(dg, h)
    PROVE  \E m \in [Formulas(DOMAIN dg.definition, h) -> Nat] :
                \A f \in Formulas(DOMAIN dg.definition, h) :
                    /\ \A g \in Parts(f) : g \in Formulas(DOMAIN dg.definition, h) /\ m[g] < m[f]
                    /\ f.op = "ref" => /\ dg.definition[f.name] \in Formulas(DOMAIN dg.definition, h)
                                       /\ m[dg.definition[f.name]] < m[f]
<1> DEFINE K == Len(dg.names)
           N == DOMAIN dg.definition
           F == Formulas(N, h)
           Upto(k) == Formulas(Before(dg, k), h)
           z == 2 * h + 1
<1>1. K \in Nat /\ N = Before(dg, K + 1) /\ z \in Nat
    BY DEF Ordered
<1>2. \A j, k \in 1..(K + 1) : j <= k => Upto(j) \subseteq Upto(k)
    <2>1. ASSUME NEW j \in 1..(K + 1), NEW k \in 1..(K + 1), j <= k PROVE Upto(j) \subseteq Upto(k)
        <3>1. Before(dg, j) \subseteq Before(dg, k)
            BY <2>1, <1>1 DEF Before
        <3>2. h <= h
            OBVIOUS
        <3> QED BY <3>1, <3>2, FormulasGrow
    <2> QED BY <2>1
<1>3. PICK s \in [F -> 0..z] : \A f \in F : \A g \in Parts(f) : g \in F /\ s[g] < s[f]
    BY FormulaSizes
<1> DEFINE Level(f) == CHOOSE k \in 1..(K + 1) : f \in Upto(k) /\ \A j \in 1..(K + 1) : f \in Upto(j) => k <= j
<1>4. ASSUME NEW f \in F
      PROVE  Level(f) \in 1..(K + 1) /\ f \in Upto(Level(f)) /\ \A j \in 1..(K + 1) : f \in Upto(j) => Level(f) <= j
    <2> DEFINE T == {k \in 1..(K + 1) : f \in Upto(k)}
    <2>1. T \subseteq Nat /\ T # {}
        <3>1. K + 1 \in T
            BY <1>1
        <3> QED BY <1>1, <3>1
    <2>2. PICK k \in T : \A j \in T : k <= j
        BY <2>1, LeastNumber
    <2> QED BY <2>2
<1> DEFINE m == [f \in F |-> Level(f) * (z + 1) + s[f]]
<1> HIDE DEF Level
<1>5. m \in [F -> Nat]
    <2>1. \A f \in F : Level(f) * (z + 1) + s[f] \in Nat
        <3> TAKE f \in F
        <3>1. Level(f) \in Nat /\ s[f] \in Nat
            BY <1>1, <1>3, <1>4
        <3>2. Level(f) * (z + 1) \in Nat
            BY <1>1, <3>1
        <3> QED BY <3>1, <3>2
    <2> QED BY <2>1
<1>6. ASSUME NEW f \in F, NEW g \in F, Level(g) < Level(f) \/ (Level(g) = Level(f) /\ s[g] < s[f])
      PROVE  m[g] < m[f]
    <2>1. Level(f) \in Nat /\ Level(g) \in Nat /\ s[f] \in 0..z /\ s[g] \in 0..z
        BY <1>1, <1>3, <1>4
    <2> HIDE DEF z, F
    <2>2. Level(g) * (z + 1) + s[g] < Level(f) * (z + 1) + s[f]
        BY <1>1, <1>6, <2>1, LexicographicallyLess
    <2> QED BY <2>2
<1>7. ASSUME NEW f \in F, NEW g \in Parts(f) PROVE g \in F /\ m[g] < m[f]
    <2>1. g \in F /\ s[g] < s[f]
        BY <1>3
    <2>2. g \in Upto(Level(f))
        BY <1>4, FormulaShapes
    <2>3. Level(g) <= Level(f)
        BY <1>4, <2>1, <2>2
    <2>4. Level(g) \in Nat /\ Level(f) \in Nat
        BY <1>1, <1>4, <2>1
    <2> HIDE DEF m, F, Upto, z
    <2>5. Level(g) < Level(f) \/ Level(g) = Level(f)
        BY <2>3, <2>4
    <2> QED BY <1>6, <2>1, <2>5
<1>8. ASSUME NEW f \in F, f.op = "ref"
      PROVE  dg.definition[f.name] \in F /\ m[dg.definition[f.name]] < m[f]
    <2> DEFINE k == Level(f)
               d == dg.definition[f.name]
    <2>1. k \in 1..(K + 1) /\ f \in Upto(k)
        BY <1>4
    <2>2. f \in Leaves(Before(dg, k))
        <3>1. \/ f \in Leaves(Before(dg, k)) \/ f \in Connectives(Upto(k))
              \/ f \in TemporalOver(Before(dg, k), h)
            BY <2>1, FormulaShapes
        <3>2. f \notin Connectives(Upto(k))
            BY <1>8, ConnectiveShapes
        <3>3. f \notin TemporalOver(Before(dg, k), h)
            <4>1. f \in TemporalOver(Before(dg, k), h) => f.op \in PastUnary \cup FutureUnary \cup {"since", "until"}
                BY TemporalShapes DEF TemporalOver
            <4> QED BY <1>8, <4>1 DEF PastUnary, FutureUnary
        <3> QED BY <3>1, <3>2, <3>3
    <2>3. f.name \in Before(dg, k)
        BY <1>8, <2>2, LeafShapes
    <2>4. PICK j \in 1..(k - 1) : f.name = dg.names[j]
        BY <2>3 DEF Before
    <2>5. j \in 1..K /\ j \in 1..(K + 1) /\ j < k
        BY <1>1, <2>1, <2>4
    <2>6. d \in Upto(j)
        BY <2>4, <2>5 DEF Ordered
    <2>7. d \in F
        <3>1. K + 1 \in 1..(K + 1) /\ j <= K + 1
            BY <1>1, <2>5
        <3>2. Upto(j) \subseteq Upto(K + 1)
            BY <1>2, <2>5, <3>1
        <3> QED BY <1>1, <2>6, <3>2
    <2>8. Level(d) <= j
        BY <1>4, <2>5, <2>6, <2>7
    <2>9. Level(d) < Level(f)
        <3>1. Level(d) \in Int /\ k \in Int /\ j \in Int
            BY <1>1, <1>4, <2>1, <2>5, <2>7
        <3> QED BY <2>5, <2>8, <3>1
    <2> HIDE DEF m, F, Upto, d
    <2>10. m[d] < m[f]
        BY <1>6, <2>7, <2>9
    <2> QED BY <2>7, <2>10 DEF d
<1> HIDE DEF m
<1> QED BY <1>5, <1>7, <1>8

-----------------------------------------------------------------------------
(***************************************************************************)
(* Eval has a table, which satisfies the equations of Meaning.             *)
(***************************************************************************)

\* The value of a variable of a formula.
Place(at, i, j) == IF at = "i" THEN i ELSE j

\* What a formula says, operator by operator.
LEMMA MeaningConst ==
    ASSUME NEW dg, NEW w, NEW e, NEW f, NEW i, NEW j, f.op = "const"
    PROVE  Meaning(dg, w, e, f, i, j) = f.value
BY DEF Meaning

LEMMA MeaningAtom ==
    ASSUME NEW dg, NEW w, NEW e, NEW f, NEW i, NEW j, f.op = "atom"
    PROVE  Meaning(dg, w, e, f, i, j) = AtomValue(dg.logic, f, w, Place(f.at, i, j))
BY DEF Meaning, Place

LEMMA MeaningRef ==
    ASSUME NEW dg, NEW w, NEW e, NEW f, NEW i, NEW j, f.op = "ref"
    PROVE  Meaning(dg, w, e, f, i, j) = e[<<dg.definition[f.name], Place(f.at, i, j), j>>]
BY DEF Meaning, Place

LEMMA MeaningNot ==
    ASSUME NEW dg, NEW w, NEW e, NEW f, NEW i, NEW j, f.op = "not"
    PROVE  Meaning(dg, w, e, f, i, j) <=> (~e[<<f.arg, i, j>>])
BY DEF Meaning

LEMMA MeaningAnd ==
    ASSUME NEW dg, NEW w, NEW e, NEW f, NEW i, NEW j, f.op = "and"
    PROVE  Meaning(dg, w, e, f, i, j) <=> \A k \in DOMAIN f.args : e[<<f.args[k], i, j>>]
BY DEF Meaning

LEMMA MeaningOr ==
    ASSUME NEW dg, NEW w, NEW e, NEW f, NEW i, NEW j, f.op = "or"
    PROVE  Meaning(dg, w, e, f, i, j) <=> \E k \in DOMAIN f.args : e[<<f.args[k], i, j>>]
BY DEF Meaning

LEMMA MeaningPrevious ==
    ASSUME NEW dg, NEW w, NEW e, NEW f, NEW i, NEW j, f.op = "previous"
    PROVE  Meaning(dg, w, e, f, i, j) <=> (i > 0 /\ e[<<f.arg, i, i - 1>>])
BY DEF Meaning

LEMMA MeaningOnce ==
    ASSUME NEW dg, NEW w, NEW e, NEW f, NEW i, NEW j, f.op = "once"
    PROVE  Meaning(dg, w, e, f, i, j) <=> \E v \in 0..(i - 1) : e[<<f.arg, i, v>>]
BY DEF Meaning

LEMMA MeaningHistorically ==
    ASSUME NEW dg, NEW w, NEW e, NEW f, NEW i, NEW j, f.op = "historically"
    PROVE  Meaning(dg, w, e, f, i, j) <=> \A v \in 0..(i - 1) : e[<<f.arg, i, v>>]
BY DEF Meaning

LEMMA MeaningSince ==
    ASSUME NEW dg, NEW w, NEW e, NEW f, NEW i, NEW j, f.op = "since"
    PROVE  Meaning(dg, w, e, f, i, j) <=> \E v \in 0..(i - 1) :
                e[<<f.right, i, v>>] /\ \A b \in (v + 1)..(i - 1) : e[<<f.left, i, b>>]
BY DEF Meaning

LEMMA MeaningNext ==
    ASSUME NEW dg, NEW w, NEW e, NEW f, NEW i, NEW j, f.op = "next"
    PROVE  Meaning(dg, w, e, f, i, j) <=> (i < Len(w) /\ e[<<f.arg, i, i + 1>>])
BY DEF Meaning

LEMMA MeaningEventually ==
    ASSUME NEW dg, NEW w, NEW e, NEW f, NEW i, NEW j, f.op = "eventually"
    PROVE  Meaning(dg, w, e, f, i, j) <=> \E v \in (i + 1)..Len(w) : e[<<f.arg, i, v>>]
BY DEF Meaning

LEMMA MeaningAlways ==
    ASSUME NEW dg, NEW w, NEW e, NEW f, NEW i, NEW j, f.op = "always"
    PROVE  Meaning(dg, w, e, f, i, j) <=> \A v \in (i + 1)..Len(w) : e[<<f.arg, i, v>>]
BY DEF Meaning

LEMMA MeaningUntil ==
    ASSUME NEW dg, NEW w, NEW e, NEW f, NEW i, NEW j, f.op = "until"
    PROVE  Meaning(dg, w, e, f, i, j) <=> \E v \in (i + 1)..Len(w) :
                e[<<f.right, i, v>>] /\ \A b \in (i + 1)..(v - 1) : e[<<f.left, i, b>>]
BY DEF Meaning

\* The formulas over the definitions of a DAG, and the positions of a word.
FormulasOf(dg) == Formulas(DOMAIN dg.definition, MaxHeight + 1)
Positions(w) == 0..Len(w)

\* A valuation is a formula and the positions of its two variables.
LEMMA ValuationsAre ==
    ASSUME NEW dg, NEW w
    PROVE  /\ \A f, i, j : <<f, i, j>> \in Valuations(dg, w)
                                <=> f \in FormulasOf(dg) /\ i \in Positions(w) /\ j \in Positions(w)
           /\ \A x \in Valuations(dg, w) :
                /\ x = <<x[1], x[2], x[3]>>
                /\ x[1] \in FormulasOf(dg) /\ x[2] \in Positions(w) /\ x[3] \in Positions(w)
BY DEF Valuations, FormulasOf, Positions

\* The operator decides which parts a formula has.
LEMMA OperatorOf ==
    ASSUME NEW names, NEW h \in Nat, NEW f \in Formulas(names, h)
    PROVE  \/ f.op \in {"const", "atom", "ref"} /\ f \in Leaves(names)
           \/ f.op \in {"not", "and", "or"} /\ f \in Connectives(Formulas(names, h))
           \/ f.op \in PastUnary \cup FutureUnary \cup {"since", "until"} /\ f \in TemporalOver(names, h)
<1>1. f \in Leaves(names) => f.op \in {"const", "atom", "ref"}
    BY LeafShapes
<1>2. f \in Connectives(Formulas(names, h)) => f.op \in {"not", "and", "or"}
    BY ConnectiveShapes
<1>3. f \in TemporalOver(names, h) => f.op \in PastUnary \cup FutureUnary \cup {"since", "until"}
    BY TemporalShapes DEF TemporalOver
<1> QED BY <1>1, <1>2, <1>3, FormulaShapes

\* What can be said of a formula, case by case of its operator.
LEMMA OperatorCases ==
    ASSUME NEW names, NEW h \in Nat, NEW f \in Formulas(names, h)
    PROVE  \/ f.op \in {"const", "atom", "ref"} /\ Parts(f) = {}
           \/ f.op = "not" /\ f = Not(f.arg) /\ Parts(f) = {f.arg}
           \/ /\ f.op \in {"and", "or"} /\ f = [op |-> f.op, args |-> f.args]
              /\ f.args \in Seq(Formulas(names, h)) /\ Parts(f) = {f.args[k] : k \in DOMAIN f.args}
           \/ /\ f.op \in PastUnary \cup FutureUnary /\ f = Unary(f.op, f.arg) /\ Parts(f) = {f.arg}
           \/ /\ f.op \in {"since", "until"} /\ f = Binary(f.op, f.left, f.right)
              /\ Parts(f) = {f.left, f.right}
<1>1. CASE f.op \in {"const", "atom", "ref"}
    BY <1>1, PartsOfLeaves
<1>2. CASE f.op \in {"not", "and", "or"} /\ f \in Connectives(Formulas(names, h))
    <2>1. f.op = "not" => Parts(f) = {f.arg}
        BY DEF Parts
    <2>2. f.op \in {"and", "or"} => Parts(f) = {f.args[k] : k \in DOMAIN f.args}
        BY DEF Parts
    <2> QED BY <1>2, <2>1, <2>2, ConnectiveShapes
<1>3. CASE f.op \in PastUnary \cup FutureUnary \cup {"since", "until"} /\ f \in TemporalOver(names, h)
    <2>1. \/ f.op \in PastUnary \cup FutureUnary /\ f = Unary(f.op, f.arg)
          \/ f.op \in {"since", "until"} /\ f = Binary(f.op, f.left, f.right)
        BY <1>3, TemporalShapes DEF TemporalOver
    <2>2. f.op \in PastUnary \cup FutureUnary => Parts(f) = {f.arg}
        BY DEF Parts, PastUnary, FutureUnary
    <2>3. f.op \in {"since", "until"} => Parts(f) = {f.left, f.right}
        BY DEF Parts
    <2> QED BY <2>1, <2>2, <2>3
<1> QED BY <1>1, <1>2, <1>3, OperatorOf

\* An atom is true or false at a position.
LEMMA AtomValueIsBoolean ==
    ASSUME NEW logic \in {"past", "future"}, NEW atom, atom.kind \in Kinds, NEW w, NEW p
    PROVE  AtomValue(logic, atom, w, p) \in BOOLEAN
<1>1. CASE atom.kind = "bos"
    BY <1>1 DEF AtomValue
<1>2. CASE atom.kind = "eos"
    BY <1>2 DEF AtomValue
<1>3. CASE atom.kind = "letter"
    <2>1. CASE logic = "past"
        BY <1>3, <2>1 DEF AtomValue
    <2>2. CASE logic = "future"
        BY <1>3, <2>2 DEF AtomValue
    <2> QED BY <2>1, <2>2
<1> QED BY <1>1, <1>2, <1>3 DEF Kinds

\* Two ways of evaluating agree on a formula.
Agree(e, d, g, w) == \A u, v \in Positions(w) : e[<<g, u, v>>] <=> d[<<g, u, v>>]

\* A table has a truth value for a formula everywhere.
Decided(e, g, w) == \A u, v \in Positions(w) : e[<<g, u, v>>] \in BOOLEAN

\* A formula is true or false when its parts are ...
LEMMA MeaningType ==
    ASSUME NEW dg, dg.logic \in {"past", "future"}, NEW w, Len(w) \in Nat, NEW e,
           NEW f \in FormulasOf(dg), NEW i \in Positions(w), NEW j \in Positions(w),
           f.op = "ref" => Decided(e, dg.definition[f.name], w)
    PROVE  Meaning(dg, w, e, f, i, j) \in BOOLEAN
<1>1. MaxHeight + 1 \in Nat
    BY MaxHeightAssumption
<1>2. f \in Leaves(DOMAIN dg.definition) \/ f.op \notin {"const", "atom", "ref"}
    BY <1>1, OperatorOf DEF FormulasOf, PastUnary, FutureUnary
<1>3. CASE f.op = "const"
    <2>1. f.value \in BOOLEAN
        BY <1>2, <1>3, LeafShapes
    <2> QED BY <1>3, <2>1, MeaningConst
<1>4. CASE f.op = "atom"
    <2>1. f.kind \in Kinds
        BY <1>2, <1>4, LeafShapes
    <2>2. AtomValue(dg.logic, f, w, Place(f.at, i, j)) \in BOOLEAN
        BY <2>1, AtomValueIsBoolean
    <2> QED BY <1>4, <2>2, MeaningAtom
<1>5. CASE f.op = "ref"
    <2>1. Place(f.at, i, j) \in Positions(w)
        BY DEF Place
    <2>2. e[<<dg.definition[f.name], Place(f.at, i, j), j>>] \in BOOLEAN
        BY <1>5, <2>1 DEF Decided
    <2> QED BY <1>5, <2>2, MeaningRef
<1>6. CASE f.op \in {"not", "and", "or"} \cup PastUnary \cup FutureUnary \cup {"since", "until"}
    <2>1. f.op = "not" => Meaning(dg, w, e, f, i, j) \in BOOLEAN
        BY DEF Meaning
    <2>2. f.op = "and" => Meaning(dg, w, e, f, i, j) \in BOOLEAN
        BY DEF Meaning
    <2>3. f.op = "or" => Meaning(dg, w, e, f, i, j) \in BOOLEAN
        BY DEF Meaning
    <2>4. f.op = "previous" => Meaning(dg, w, e, f, i, j) \in BOOLEAN
        BY DEF Meaning
    <2>5. f.op = "next" => Meaning(dg, w, e, f, i, j) \in BOOLEAN
        BY DEF Meaning
    <2>6. f.op = "once" => Meaning(dg, w, e, f, i, j) \in BOOLEAN
        BY DEF Meaning
    <2>7. f.op = "historically" => Meaning(dg, w, e, f, i, j) \in BOOLEAN
        BY DEF Meaning
    <2>8. f.op = "eventually" => Meaning(dg, w, e, f, i, j) \in BOOLEAN
        BY DEF Meaning
    <2>9. f.op = "always" => Meaning(dg, w, e, f, i, j) \in BOOLEAN
        BY DEF Meaning
    <2>10. f.op = "since" => Meaning(dg, w, e, f, i, j) \in BOOLEAN
        BY DEF Meaning
    <2>11. f.op = "until" => Meaning(dg, w, e, f, i, j) \in BOOLEAN
        BY DEF Meaning
    <2> QED BY <1>6, <2>1, <2>2, <2>3, <2>4, <2>5, <2>6, <2>7, <2>8, <2>9, <2>10, <2>11 DEF PastUnary, FutureUnary
<1> QED BY <1>1, <1>3, <1>4, <1>5, <1>6, OperatorOf DEF FormulasOf

\* ... and what it says depends on what its parts say.
LEMMA MeaningDepends ==
    ASSUME NEW dg, NEW w, Len(w) \in Nat, NEW e, NEW d,
           NEW f \in FormulasOf(dg), NEW i \in Positions(w), NEW j \in Positions(w),
           \A g \in Parts(f) : Agree(e, d, g, w),
           f.op = "ref" => Agree(e, d, dg.definition[f.name], w)
    PROVE  Meaning(dg, w, e, f, i, j) <=> Meaning(dg, w, d, f, i, j)
<1>1. MaxHeight + 1 \in Nat
    BY MaxHeightAssumption
<1>2. CASE f.op \in {"const", "atom"}
    BY <1>2, MeaningConst, MeaningAtom
<1>3. CASE f.op = "ref"
    <2>1. Place(f.at, i, j) \in Positions(w)
        BY DEF Place
    <2>2. (e[<<dg.definition[f.name], Place(f.at, i, j), j>>] <=> d[<<dg.definition[f.name], Place(f.at, i, j), j>>])
        BY <1>3, <2>1 DEF Agree
    <2> QED BY <1>3, <2>2, MeaningRef
<1>4. CASE f.op = "not" /\ Parts(f) = {f.arg}
    <2>1. (e[<<f.arg, i, j>>] <=> d[<<f.arg, i, j>>])
        BY <1>4 DEF Agree
    <2> QED BY <1>4, <2>1, MeaningNot
<1>5. CASE f.op \in {"and", "or"} /\ Parts(f) = {f.args[k] : k \in DOMAIN f.args}
    <2>1. \A k \in DOMAIN f.args : (e[<<f.args[k], i, j>>] <=> d[<<f.args[k], i, j>>])
        BY <1>5 DEF Agree
    <2>2. CASE f.op = "and"
        BY <2>1, <2>2, MeaningAnd
    <2>3. CASE f.op = "or"
        BY <2>1, <2>3, MeaningOr
    <2> QED BY <1>5, <2>2, <2>3
<1>6. CASE f.op \in PastUnary \cup FutureUnary /\ Parts(f) = {f.arg}
    <2>1. \A v \in Positions(w) : (e[<<f.arg, i, v>>] <=> d[<<f.arg, i, v>>])
        BY <1>6 DEF Agree
    <2>2. \A v \in 0..(i - 1) : (e[<<f.arg, i, v>>] <=> d[<<f.arg, i, v>>])
        BY <2>1 DEF Positions
    <2>3. \A v \in (i + 1)..Len(w) : (e[<<f.arg, i, v>>] <=> d[<<f.arg, i, v>>])
        BY <2>1 DEF Positions
    <2>4. CASE f.op = "previous"
        <3>1. i > 0 => (e[<<f.arg, i, i - 1>>] <=> d[<<f.arg, i, i - 1>>])
            BY <2>1 DEF Positions
        <3> QED BY <2>4, <3>1, MeaningPrevious
    <2>5. CASE f.op = "next"
        <3>1. i < Len(w) => (e[<<f.arg, i, i + 1>>] <=> d[<<f.arg, i, i + 1>>])
            BY <2>1 DEF Positions
        <3> QED BY <2>5, <3>1, MeaningNext
    <2>6. CASE f.op = "once"
        BY <2>2, <2>6, MeaningOnce
    <2>7. CASE f.op = "historically"
        BY <2>2, <2>7, MeaningHistorically
    <2>8. CASE f.op = "eventually"
        BY <2>3, <2>8, MeaningEventually
    <2>9. CASE f.op = "always"
        BY <2>3, <2>9, MeaningAlways
    <2> QED BY <1>6, <2>4, <2>5, <2>6, <2>7, <2>8, <2>9 DEF PastUnary, FutureUnary
<1>7. CASE f.op \in {"since", "until"} /\ Parts(f) = {f.left, f.right}
    <2>1. \A v \in Positions(w) : (e[<<f.left, i, v>>] <=> d[<<f.left, i, v>>]) /\ (e[<<f.right, i, v>>] <=> d[<<f.right, i, v>>])
        BY <1>7 DEF Agree
    <2>2. CASE f.op = "since"
        <3>1. i - 1 \in Int /\ \A v \in 0..(i - 1) : v \in Positions(w) /\ \A b \in (v + 1)..(i - 1) : b \in Positions(w)
            BY DEF Positions
        <3> QED BY <2>1, <2>2, <3>1, MeaningSince
    <2>3. CASE f.op = "until"
        <3>1. \A v \in (i + 1)..Len(w) : v \in Positions(w) /\ \A b \in (i + 1)..(v - 1) : b \in Positions(w)
            BY DEF Positions
        <3> QED BY <2>1, <2>3, <3>1, MeaningUntil
    <2> QED BY <1>7, <2>2, <2>3
<1>8. \/ f.op \in {"const", "atom", "ref"}
      \/ f.op = "not" /\ Parts(f) = {f.arg}
      \/ f.op \in {"and", "or"} /\ Parts(f) = {f.args[k] : k \in DOMAIN f.args}
      \/ f.op \in PastUnary \cup FutureUnary /\ Parts(f) = {f.arg}
      \/ f.op \in {"since", "until"} /\ Parts(f) = {f.left, f.right}
    BY <1>1, OperatorCases DEF FormulasOf
<1> QED BY <1>2, <1>3, <1>4, <1>5, <1>6, <1>7, <1>8

\* A table of what every formula says at every valuation of the two variables.
IsTruth(dg, w, e) ==
    /\ e \in [Valuations(dg, w) -> BOOLEAN]
    /\ \A f \in FormulasOf(dg) : \A i, j \in Positions(w) :
            e[<<f, i, j>>] = Meaning(dg, w, e, f, i, j)

\* Eval (Ltl.scala) is defined on every formula of a DAG, and satisfies the
\* equation of every operator: its recursion ends, because operands are
\* smaller and definitions are over the names before theirs.
THEOREM EvalIsTruth ==
    ASSUME NEW dg, Ordered(dg, MaxHeight + 1), dg.logic \in {"past", "future"},
           NEW w, Len(w) \in Nat
    PROVE  \E e : /\ IsTruth(dg, w, e)
                  /\ \A f, i, j : Eval(dg, f, w, i, j) = e[<<f, i, j>>]
<1> DEFINE X == Valuations(dg, w)
           h == MaxHeight + 1
           T == [X -> BOOLEAN]
           B == [e \in T |-> [x \in X |-> Meaning(dg, w, e, x[1], x[2], x[3])]]
<1>1. h \in Nat
    BY MaxHeightAssumption
<1>2. PICK m \in [FormulasOf(dg) -> Nat] :
                \A f \in FormulasOf(dg) :
                    /\ \A g \in Parts(f) : g \in FormulasOf(dg) /\ m[g] < m[f]
                    /\ f.op = "ref" => /\ dg.definition[f.name] \in FormulasOf(dg)
                                       /\ m[dg.definition[f.name]] < m[f]
    <2> HIDE DEF h
    <2>1. Ordered(dg, h)
        BY DEF h
    <2> QED BY <1>1, <2>1, DagSizes DEF FormulasOf, h
<1> DEFINE size == [x \in X |-> m[x[1]]]
<1>3. size \in [X -> Nat]
    BY ValuationsAre
<1>4. ASSUME NEW e, NEW x \in X, \A y \in X : size[y] < size[x] => e[y] \in BOOLEAN
      PROVE  Meaning(dg, w, e, x[1], x[2], x[3]) \in BOOLEAN
    <2> DEFINE f == x[1]
    <2>1. f \in FormulasOf(dg) /\ x[2] \in Positions(w) /\ x[3] \in Positions(w)
        BY ValuationsAre
    <2>2. ASSUME f.op = "ref", NEW u \in Positions(w), NEW v \in Positions(w)
          PROVE  e[<<dg.definition[f.name], u, v>>] \in BOOLEAN
        <3>1. <<dg.definition[f.name], u, v>> \in X
            BY <1>2, <2>1, <2>2, ValuationsAre
        <3>2. size[<<dg.definition[f.name], u, v>>] < size[x]
            BY <1>2, <2>1, <2>2, <3>1
        <3> QED BY <1>4, <3>1, <3>2
    <2> HIDE DEF f, size, X
    <2>3. f.op = "ref" => Decided(e, dg.definition[f.name], w)
        BY <2>2 DEF Decided
    <2>4. Meaning(dg, w, e, f, x[2], x[3]) \in BOOLEAN
        BY <2>1, <2>3, MeaningType
    <2> QED BY <2>4 DEF f
<1>5. ASSUME NEW e, NEW d, NEW x \in X, \A y \in X : size[y] < size[x] => e[y] = d[y]
      PROVE  Meaning(dg, w, e, x[1], x[2], x[3]) <=> Meaning(dg, w, d, x[1], x[2], x[3])
    <2> DEFINE f == x[1]
    <2>1. f \in FormulasOf(dg) /\ x[2] \in Positions(w) /\ x[3] \in Positions(w)
        BY ValuationsAre
    <2>2. ASSUME NEW g \in FormulasOf(dg), m[g] < m[f] PROVE Agree(e, d, g, w)
        <3> SUFFICES ASSUME NEW u \in Positions(w), NEW v \in Positions(w)
                     PROVE  e[<<g, u, v>>] <=> d[<<g, u, v>>]
            BY DEF Agree
        <3>1. <<g, u, v>> \in X
            BY ValuationsAre
        <3>2. size[<<g, u, v>>] = m[g] /\ size[x] = m[f]
            BY <3>1
        <3> QED BY <1>5, <2>2, <3>1, <3>2
    <2>3. \A g \in Parts(f) : Agree(e, d, g, w)
        BY <1>2, <2>1, <2>2
    <2>4. f.op = "ref" => Agree(e, d, dg.definition[f.name], w)
        BY <1>2, <2>1, <2>2
    <2> HIDE DEF f, size, X
    <2>5. Meaning(dg, w, e, f, x[2], x[3]) <=> Meaning(dg, w, d, f, x[2], x[3])
        BY <2>1, <2>3, <2>4, MeaningDepends
    <2> QED BY <2>5 DEF f
<1>6. B \in [T -> T]
    <2> SUFFICES ASSUME NEW e \in T, NEW x \in X PROVE Meaning(dg, w, e, x[1], x[2], x[3]) \in BOOLEAN
        OBVIOUS
    <2> QED BY <1>4
<1>7. \A e, d \in T : \A x \in X :
            (\A y \in X : size[y] < size[x] => e[y] = d[y]) => B[e][x] = B[d][x]
    <2> SUFFICES ASSUME NEW e \in T, NEW d \in T, NEW x \in X,
                        \A y \in X : size[y] < size[x] => e[y] = d[y]
                 PROVE  B[e][x] = B[d][x]
        OBVIOUS
    <2>1. B[e][x] <=> B[d][x]
        <3>1. Meaning(dg, w, e, x[1], x[2], x[3]) <=> Meaning(dg, w, d, x[1], x[2], x[3])
            BY <1>5
        <3>2. B[e][x] = Meaning(dg, w, e, x[1], x[2], x[3]) /\ B[d][x] = Meaning(dg, w, d, x[1], x[2], x[3])
            OBVIOUS
        <3> QED BY <3>1, <3>2
    <2>2. B[e][x] \in BOOLEAN /\ B[d][x] \in BOOLEAN
        <3> HIDE DEF B
        <3> QED BY <1>6
    <2> QED BY <2>1, <2>2
<1>8. \E e : e = [x \in X |-> Meaning(dg, w, e, x[1], x[2], x[3])]
    <2>1. T # {}
        <3>1. [x \in X |-> FALSE] \in T
            OBVIOUS
        <3> QED BY <3>1
    <2>2. Descends(B, X, BOOLEAN, size)
        <3> HIDE DEF B, size, X
        <3> QED BY <1>3, <1>6, <1>7 DEF Descends
    <2>3. \E e \in T : e = B[e]
        <3> HIDE DEF B, size, X
        <3> QED BY <2>1, <2>2, RecursionExists
    <2> QED BY <2>3
<1> DEFINE Table == CHOOSE e : e = [x \in X |-> Meaning(dg, w, e, x[1], x[2], x[3])]
<1>9. Table = [x \in X |-> Meaning(dg, w, Table, x[1], x[2], x[3])]
    BY <1>8
<1>10. \A f, i, j : Eval(dg, f, w, i, j) = Table[<<f, i, j>>]
    BY Zenon DEF Eval
<1> HIDE DEF Table
<1>11. Table \in [X -> BOOLEAN]
    <2> DEFINE S == {x \in X : Table[x] \in BOOLEAN}
    <2>1. \A x \in X : (\A y \in X : size[y] < size[x] => y \in S) => x \in S
        <3> SUFFICES ASSUME NEW x \in X, \A y \in X : size[y] < size[x] => Table[y] \in BOOLEAN
                     PROVE  Table[x] \in BOOLEAN
            OBVIOUS
        <3>1. Table[x] = Meaning(dg, w, Table, x[1], x[2], x[3])
            BY <1>9
        <3> HIDE DEF size, X
        <3> QED BY <1>4, <3>1
    <2>2. X \subseteq S
        <3> HIDE DEF S, size, X
        <3> QED BY <1>3, <2>1, MeasureInduction
    <2>3. \A x \in X : Table[x] \in BOOLEAN
        BY <2>2
    <2> HIDE DEF X
    <2> QED BY <1>9, <2>3
<1>12. ASSUME NEW f \in FormulasOf(dg), NEW i \in Positions(w), NEW j \in Positions(w)
       PROVE  Table[<<f, i, j>>] = Meaning(dg, w, Table, f, i, j)
    <2>1. <<f, i, j>> \in X
        BY ValuationsAre
    <2> HIDE DEF X
    <2> QED BY <1>9, <2>1
<1>13. IsTruth(dg, w, Table)
    BY <1>11, <1>12 DEF IsTruth
<1> QED BY <1>10, <1>13

-----------------------------------------------------------------------------
(***************************************************************************)
(* The two rewritings have tables as well, over all formulas.              *)
(***************************************************************************)

\* One step of a rewriting of formulas, when t is what becomes of the operands.
RewriteStep(mirroring, t, f) == IF mirroring THEN MirrorStep(t, f) ELSE DesugarStep(t, f)

\* What MirrorStep makes of a formula, operator by operator.
LEMMA MirrorArms ==
    ASSUME NEW t, NEW f
    PROVE  /\ f.op \in {"const", "ref"} => MirrorStep(t, f) = f
           /\ f.op = "atom" => MirrorStep(t, f) = [f EXCEPT !.kind = Dual(@)]
           /\ f.op = "not" => MirrorStep(t, f) = Not(t[f.arg])
           /\ f.op \in {"and", "or"} =>
                MirrorStep(t, f) = [f EXCEPT !.args = [k \in DOMAIN f.args |-> t[f.args[k]]]]
           /\ f.op \in PastUnary \cup FutureUnary => MirrorStep(t, f) = Unary(Dual(f.op), t[f.arg])
           /\ f.op \in {"since", "until"} => MirrorStep(t, f) = Binary(Dual(f.op), t[f.left], t[f.right])
<1>1. f.op \in {"const", "ref"} => MirrorStep(t, f) = f
    BY DEF MirrorStep, PastUnary, FutureUnary
<1>2. f.op = "atom" => MirrorStep(t, f) = [f EXCEPT !.kind = Dual(@)]
    BY DEF MirrorStep, PastUnary, FutureUnary
<1>3. f.op = "not" => MirrorStep(t, f) = Not(t[f.arg])
    BY DEF MirrorStep, PastUnary, FutureUnary
<1>4. f.op \in {"and", "or"} =>
                MirrorStep(t, f) = [f EXCEPT !.args = [k \in DOMAIN f.args |-> t[f.args[k]]]]
    BY DEF MirrorStep, PastUnary, FutureUnary
<1>5. f.op \in PastUnary \cup FutureUnary => MirrorStep(t, f) = Unary(Dual(f.op), t[f.arg])
    BY DEF MirrorStep, PastUnary, FutureUnary
<1>6. f.op \in {"since", "until"} => MirrorStep(t, f) = Binary(Dual(f.op), t[f.left], t[f.right])
    BY DEF MirrorStep, PastUnary, FutureUnary
<1> QED BY <1>1, <1>2, <1>3, <1>4, <1>5, <1>6

\* The same for DesugarStep.
LEMMA DesugarSame ==
    ASSUME NEW t, NEW f, f.op \in {"const", "atom", "ref", "since"} \cup PastUnary
    PROVE  DesugarStep(t, f) = f
BY DEF DesugarStep, PastUnary

LEMMA DesugarNot ==
    ASSUME NEW t, NEW f, f.op = "not"
    PROVE  DesugarStep(t, f) = Not(t[f.arg])
BY DEF DesugarStep

LEMMA DesugarMany ==
    ASSUME NEW t, NEW f, f.op \in {"and", "or"}
    PROVE  DesugarStep(t, f) = [f EXCEPT !.args = [k \in DOMAIN f.args |-> t[f.args[k]]]]
BY DEF DesugarStep

LEMMA DesugarUntil ==
    ASSUME NEW t, NEW f, f.op = "until"
    PROVE  DesugarStep(t, f) = Binary("until", t[f.left], t[f.right])
BY DEF DesugarStep

LEMMA DesugarNext ==
    ASSUME NEW t, NEW f, f.op = "next"
    PROVE  DesugarStep(t, f) = Binary("until", Const(FALSE), t[f.arg])
BY DEF DesugarStep

LEMMA DesugarEventually ==
    ASSUME NEW t, NEW f, f.op = "eventually"
    PROVE  DesugarStep(t, f) = Binary("until", Const(TRUE), t[f.arg])
BY DEF DesugarStep

LEMMA DesugarAlways ==
    ASSUME NEW t, NEW f, f.op = "always"
    PROVE  DesugarStep(t, f) = Not(Binary("until", Const(TRUE), Not(t[f.arg])))
BY DEF DesugarStep

\* A step looks at the operands alone.
LEMMA RewriteDepends ==
    ASSUME NEW mirroring \in BOOLEAN, NEW names, NEW h \in Nat, NEW f \in Formulas(names, h),
           NEW t, NEW u, \A g \in Parts(f) : t[g] = u[g]
    PROVE  RewriteStep(mirroring, t, f) = RewriteStep(mirroring, u, f)
<1>1. CASE f.op \in {"const", "atom", "ref"}
    <2>1. MirrorStep(t, f) = MirrorStep(u, f)
        BY <1>1, MirrorArms
    <2>2. DesugarStep(t, f) = DesugarStep(u, f)
        BY <1>1, DesugarSame
    <2> QED BY <2>1, <2>2 DEF RewriteStep
<1>2. CASE f.op = "not" /\ Parts(f) = {f.arg}
    <2>1. MirrorStep(t, f) = MirrorStep(u, f)
        BY <1>2, MirrorArms
    <2>2. DesugarStep(t, f) = DesugarStep(u, f)
        BY <1>2, DesugarNot
    <2> QED BY <2>1, <2>2 DEF RewriteStep
<1>3. CASE f.op \in {"and", "or"} /\ Parts(f) = {f.args[k] : k \in DOMAIN f.args}
    <2>1. [k \in DOMAIN f.args |-> t[f.args[k]]] = [k \in DOMAIN f.args |-> u[f.args[k]]]
        BY <1>3
    <2>2. MirrorStep(t, f) = MirrorStep(u, f)
        BY <1>3, <2>1, MirrorArms
    <2>3. DesugarStep(t, f) = DesugarStep(u, f)
        BY <1>3, <2>1, DesugarMany
    <2> QED BY <2>2, <2>3 DEF RewriteStep
<1>4. CASE f.op \in PastUnary \cup FutureUnary /\ Parts(f) = {f.arg}
    <2>1. MirrorStep(t, f) = MirrorStep(u, f)
        BY <1>4, MirrorArms
    <2>2. f.op \in PastUnary => DesugarStep(t, f) = DesugarStep(u, f)
        BY DesugarSame
    <2>3. t[f.arg] = u[f.arg]
        BY <1>4
    <2>4. f.op = "next" => DesugarStep(t, f) = DesugarStep(u, f)
        BY <2>3, DesugarNext
    <2>5. f.op = "eventually" => DesugarStep(t, f) = DesugarStep(u, f)
        BY <2>3, DesugarEventually
    <2>6. f.op = "always" => DesugarStep(t, f) = DesugarStep(u, f)
        BY <2>3, DesugarAlways
    <2> QED BY <1>4, <2>1, <2>2, <2>4, <2>5, <2>6 DEF RewriteStep, FutureUnary
<1>5. CASE f.op \in {"since", "until"} /\ Parts(f) = {f.left, f.right}
    <2>1. MirrorStep(t, f) = MirrorStep(u, f)
        BY <1>5, MirrorArms
    <2>2. f.op = "since" => DesugarStep(t, f) = DesugarStep(u, f)
        BY DesugarSame
    <2>3. f.op = "until" => DesugarStep(t, f) = DesugarStep(u, f)
        BY <1>5, DesugarUntil
    <2> QED BY <1>5, <2>1, <2>2, <2>3 DEF RewriteStep
<1> QED BY <1>1, <1>2, <1>3, <1>4, <1>5, OperatorCases

\* So a rewriting is defined on every formula: layer by layer of the operands.
LEMMA RewriteExists ==
    ASSUME NEW mirroring \in BOOLEAN, NEW names
    PROVE  \E t : t = [f \in Formulas(names, MaxHeight) |-> RewriteStep(mirroring, t, f)]
<1> DEFINE X == Formulas(names, MaxHeight)
           z == 2 * MaxHeight + 1
<1>1. PICK m \in [X -> 0..z] : \A f \in X : \A g \in Parts(f) : g \in X /\ m[g] < m[f]
    BY MaxHeightAssumption, FormulaSizes
<1> DEFINE Good == {n \in Nat : \E t : /\ t = [f \in X |-> t[f]]
                                       /\ \A f \in X : m[f] < n => t[f] = RewriteStep(mirroring, t, f)}
<1>2. 0 \in Good
    <2> DEFINE t == [f \in X |-> f]
    <2>1. t = [f \in X |-> t[f]] /\ \A f \in X : ~(m[f] < 0)
        BY MaxHeightAssumption
    <2> QED BY <2>1
<1>3. ASSUME NEW n \in Nat, n \in Good PROVE n + 1 \in Good
    <2>1. PICK t : /\ t = [f \in X |-> t[f]]
                   /\ \A f \in X : m[f] < n => t[f] = RewriteStep(mirroring, t, f)
        BY <1>3
    <2> DEFINE u == [f \in X |-> RewriteStep(mirroring, t, f)]
    <2>2. ASSUME NEW f \in X, m[f] < n + 1 PROVE u[f] = RewriteStep(mirroring, u, f)
        <3>1. \A g \in Parts(f) : t[g] = u[g]
            <4> SUFFICES ASSUME NEW g \in Parts(f) PROVE t[g] = u[g]
                OBVIOUS
            <4>1. g \in X /\ m[g] < n
                BY <1>1, <2>2
            <4> QED BY <2>1, <4>1
        <3> HIDE DEF u
        <3>2. RewriteStep(mirroring, t, f) = RewriteStep(mirroring, u, f)
            BY <3>1, MaxHeightAssumption, RewriteDepends
        <3> QED BY <3>2 DEF u
    <2>3. u = [f \in X |-> u[f]]
        OBVIOUS
    <2> HIDE DEF u, X
    <2> QED BY <2>2, <2>3
<1>4. z + 1 \in Nat /\ \A k \in 0..z : k < z + 1
    BY MaxHeightAssumption
<1>5. z + 1 \in Good
    <2> HIDE DEF Good, z
    <2> QED BY <1>2, <1>3, <1>4, NumbersFollow
<1>6. PICK t : /\ t = [f \in X |-> t[f]]
               /\ \A f \in X : m[f] < z + 1 => t[f] = RewriteStep(mirroring, t, f)
    BY <1>5
<1>7. \A f \in X : t[f] = RewriteStep(mirroring, t, f)
    <2> HIDE DEF X, z
    <2> QED BY <1>1, <1>4, <1>6
<1> HIDE DEF X
<1>8. t = [f \in X |-> RewriteStep(mirroring, t, f)]
    BY <1>6, <1>7
<1> QED BY <1>8 DEF X

\* Mirror reads such a table, and so does DesugarFuture.
LEMMA MirrorIs ==
    ASSUME NEW names
    PROVE  \E t : /\ \A f : Mirror(names, f) = t[f]
                  /\ \A f \in Formulas(names, MaxHeight) : t[f] = MirrorStep(t, f)
<1> DEFINE Whole(t) == [f \in Formulas(names, MaxHeight) |-> MirrorStep(t, f)]
           t == CHOOSE t : t = Whole(t)
<1>1. \A f : Mirror(names, f) = t[f]
    BY Zenon DEF Mirror
<1>2. \E s : s = Whole(s)
    <2>1. PICK s : s = [f \in Formulas(names, MaxHeight) |-> RewriteStep(TRUE, s, f)]
        BY RewriteExists
    <2>2. \A f \in Formulas(names, MaxHeight) : s[f] = MirrorStep(s, f)
        BY <2>1 DEF RewriteStep
    <2>3. s = Whole(s)
        BY <2>1, <2>2
    <2> QED BY <2>3
<1>3. t = Whole(t)
    BY <1>2
<1> HIDE DEF t
<1> QED BY <1>1, <1>3

\* The table of DesugarFuture.
LEMMA DesugarIs ==
    ASSUME NEW names
    PROVE  \E t : /\ \A f : DesugarFuture(names, f) = t[f]
                  /\ \A f \in Formulas(names, MaxHeight) : t[f] = DesugarStep(t, f)
<1> DEFINE Whole(t) == [f \in Formulas(names, MaxHeight) |-> DesugarStep(t, f)]
           t == CHOOSE t : t = Whole(t)
<1>1. \A f : DesugarFuture(names, f) = t[f]
    BY Zenon DEF DesugarFuture
<1>2. \E s : s = Whole(s)
    <2>1. PICK s : s = [f \in Formulas(names, MaxHeight) |-> RewriteStep(FALSE, s, f)]
        BY RewriteExists
    <2>2. \A f \in Formulas(names, MaxHeight) : s[f] = DesugarStep(s, f)
        BY <2>1 DEF RewriteStep
    <2>3. s = Whole(s)
        BY <2>1, <2>2
    <2> QED BY <2>3
<1>3. t = Whole(t)
    BY <1>2
<1> HIDE DEF t
<1> QED BY <1>1, <1>3

\* t keeps the connectives of the formulas in S.
Homomorphic(t, S) ==
    \A f \in S : /\ f.op = "not" => t[f] = Not(t[f.arg])
                 /\ f.op \in {"and", "or"} => t[f] = [f EXCEPT !.args = [k \in DOMAIN f.args |-> t[f.args[k]]]]

\* A map that keeps the connectives takes combinations to combinations.
LEMMA CombinationsMap ==
    ASSUME NEW A, NEW B, NEW h \in Nat, NEW t, \A f \in A : t[f] \in B,
           Homomorphic(t, Combinations(A, h))
    PROVE  \A f \in Combinations(A, h) : t[f] \in Combinations(B, h)
<1> DEFINE Good == {n \in Nat : n <= h => \A f \in Combinations(A, n) : t[f] \in Combinations(B, n)}
<1>1. 0 \in Good
    BY CombinationsZero
<1>2. ASSUME NEW n \in Nat, n \in Good PROVE n + 1 \in Good
    <2> SUFFICES ASSUME n + 1 <= h, NEW f \in Combinations(A, n + 1) PROVE t[f] \in Combinations(B, n + 1)
        OBVIOUS
    <2>1. \A g \in Combinations(A, n) : t[g] \in Combinations(B, n)
        BY <1>2
    <2>2. Combinations(A, n + 1) = Wider(Combinations(A, n)) /\ Combinations(B, n + 1) = Wider(Combinations(B, n))
        BY CombinationsNext
    <2>3. f \in Combinations(A, h)
        BY CombinationsGrow
    <2>4. CASE f \in Combinations(A, n)
        BY <2>1, <2>2, <2>4 DEF Wider
    <2>5. CASE f \in Connectives(Combinations(A, n))
        <3> DEFINE P == Combinations(A, n)
                   Q == Combinations(B, n)
        <3>1. CASE f.op = "not" /\ f.arg \in P
            <4>1. t[f] = Not(t[f.arg]) /\ t[f.arg] \in Q
                BY <2>1, <2>3, <3>1 DEF Homomorphic
            <4> HIDE DEF Q
            <4>2. t[f] \in Connectives(Q)
                BY <4>1 DEF Not, Connectives
            <4> QED BY <2>2, <4>2 DEF Wider, Q
        <3>2. CASE f.op \in {"and", "or"} /\ f = [op |-> f.op, args |-> f.args] /\ f.args \in Seq(P)
            <4> DEFINE s == [k \in DOMAIN f.args |-> t[f.args[k]]]
            <4>1. t[f] = [f EXCEPT !.args = s]
                BY <2>3, <3>2 DEF Homomorphic
            <4>2. s \in Seq(Q)
                <5>1. DOMAIN f.args = 1..Len(f.args) /\ Len(f.args) \in Nat /\ \A k \in 1..Len(f.args) : f.args[k] \in P
                    BY <3>2
                <5>2. \A k \in 1..Len(f.args) : s[k] \in Q
                    BY <2>1, <5>1
                <5>3. s \in [1..Len(f.args) -> Q]
                    BY <5>1, <5>2
                <5> HIDE DEF s, Q
                <5> QED BY <5>1, <5>3
            <4> HIDE DEF s, Q
            <4>3. t[f] = [op |-> f.op, args |-> s]
                BY <3>2, <4>1
            <4>4. t[f] \in Connectives(Q)
                BY <3>2, <4>2, <4>3 DEF Connectives
            <4> QED BY <2>2, <4>4 DEF Wider, Q
        <3> HIDE DEF P
        <3>3. \/ f.op = "not" /\ f.arg \in P
              \/ f.op \in {"and", "or"} /\ f = [op |-> f.op, args |-> f.args] /\ f.args \in Seq(P)
            BY <2>5, ConnectiveShapes DEF P
        <3> QED BY <3>1, <3>2, <3>3
    <2> QED BY <2>2, <2>4, <2>5 DEF Wider
<1>3. h \in Good
    <2> HIDE DEF Good
    <2>1. Nat \subseteq Good
        BY <1>1, <1>2, NumbersFollow
    <2> QED BY <2>1
<1>4. h <= h
    OBVIOUS
<1> QED BY <1>3, <1>4

\* One more connective below is one more above.
LEMMA CombinationsNest ==
    ASSUME NEW A, NEW h \in Nat
    PROVE  Combinations(Wider(A), h) = Combinations(A, h + 1)
<1> DEFINE Good == {n \in Nat : Combinations(Wider(A), n) = Combinations(A, n + 1)}
<1>1. 0 \in Good
    BY CombinationsZero, CombinationsNext
<1>2. ASSUME NEW n \in Nat, n \in Good PROVE n + 1 \in Good
    BY <1>2, CombinationsNext
<1> HIDE DEF Good
<1>3. Nat \subseteq Good
    BY <1>1, <1>2, NumbersFollow
<1> QED BY <1>3 DEF Good

\* A combination is a leaf, or a connective over combinations.
LEMMA CombinationShapes ==
    ASSUME NEW A, NEW h \in Nat, NEW f \in Combinations(A, h)
    PROVE  \/ f \in A
           \/ f.op = "not" /\ f = Not(f.arg) /\ f.arg \in Combinations(A, h)
           \/ /\ f.op \in {"and", "or"} /\ f = [op |-> f.op, args |-> f.args]
              /\ f.args \in Seq(Combinations(A, h))
<1>1. f \in A \/ f \in Connectives(Combinations(A, h))
    BY CombinationSizes
<1> QED BY <1>1, ConnectiveShapes

-----------------------------------------------------------------------------
(***************************************************************************)
(* The bodies that a definition can have.                                  *)
(***************************************************************************)

\* What a body consists of, but for its connectives.
Anchored(names, kinds) == Constants \cup Atoms(kinds, {"i"}) \cup Refs(names, {"i"})

\* A body is a combination of anchored leaves and temporal formulas.
LEMMA BodiesAre ==
    ASSUME NEW names, NEW kinds, NEW unary, NEW binary, NEW h
    PROVE  Bodies(names, kinds, unary, binary, h) = Combinations(BodyLeaves(names, kinds, unary, binary, h), h)
BY DEF Bodies

\* What an operand of a temporal formula consists of.
LEMMA OperandShapes ==
    ASSUME NEW names, NEW h \in Nat, NEW f \in Operands(names, h)
    PROVE  \/ f.op = "const" /\ f = Const(f.value) /\ f.value \in BOOLEAN
           \/ f.op = "ref" /\ f = Ref(f.name, f.at) /\ f.name \in names /\ f.at \in Places
           \/ f.op = "not" /\ f = Not(f.arg) /\ f.arg \in Operands(names, h)
           \/ /\ f.op \in {"and", "or"} /\ f = [op |-> f.op, args |-> f.args]
              /\ f.args \in Seq(Operands(names, h))
<1>1. CASE f \in Constants \cup Refs(names, Places)
    BY <1>1 DEF Constants, Refs, Const, Ref
<1> QED BY <1>1, CombinationShapes DEF Operands

\* What an anchored leaf looks like.
LEMMA AnchoredShapes ==
    ASSUME NEW names, NEW kinds, NEW f \in Anchored(names, kinds)
    PROVE  \/ f.op = "const" /\ f = Const(f.value) /\ f.value \in BOOLEAN
           \/ /\ f.op = "atom" /\ f.kind \in kinds /\ f.at = "i" /\ f.letters \in SUBSET STRING
              /\ f = [op |-> "atom", kind |-> f.kind, letters |-> f.letters, at |-> "i"]
           \/ f.op = "ref" /\ f = Ref(f.name, "i") /\ f.name \in names
BY DEF Anchored, Constants, Atoms, Refs, Const, Ref

\* What a body consists of.
LEMMA BodyShapes ==
    ASSUME NEW names, NEW kinds, NEW unary \in SUBSET (PastUnary \cup FutureUnary),
           NEW binary \in SUBSET {"since", "until"}, NEW h \in Nat,
           NEW f \in Bodies(names, kinds, unary, binary, h)
    PROVE  \/ f \in Anchored(names, kinds) /\ f.op \in {"const", "atom", "ref"}
           \/ f.op = "not" /\ f = Not(f.arg) /\ f.arg \in Bodies(names, kinds, unary, binary, h)
           \/ /\ f.op \in {"and", "or"} /\ f = [op |-> f.op, args |-> f.args]
              /\ f.args \in Seq(Bodies(names, kinds, unary, binary, h))
           \/ f.op \in unary /\ f = Unary(f.op, f.arg) /\ f.arg \in Operands(names, h)
           \/ /\ f.op \in binary /\ f = Binary(f.op, f.left, f.right)
              /\ f.left \in Operands(names, h) /\ f.right \in Operands(names, h)
<1> DEFINE L == BodyLeaves(names, kinds, unary, binary, h)
           C == Bodies(names, kinds, unary, binary, h)
<1>1. C = Combinations(L, h)
    BY BodiesAre
<1>2. CASE f \in Anchored(names, kinds)
    BY <1>2, AnchoredShapes
<1>3. CASE f \in Temporal(unary, binary, Operands(names, h))
    BY <1>3, TemporalShapes
<1>4. CASE f \in L
    BY <1>2, <1>3, <1>4 DEF BodyLeaves, Anchored
<1> HIDE DEF L
<1> QED BY <1>1, <1>4, CombinationShapes

\* More names and more height only add operands,
LEMMA OperandsGrow ==
    ASSUME NEW A, NEW B, A \subseteq B, NEW h \in Nat, NEW k \in Nat, h <= k
    PROVE  Operands(A, h) \subseteq Operands(B, k)
<1>1. Constants \cup Refs(A, Places) \subseteq Constants \cup Refs(B, Places)
    BY DEF Refs
<1> QED BY <1>1, CombinationsGrow DEF Operands

\* and bodies.
LEMMA BodiesGrow ==
    ASSUME NEW A, NEW B, A \subseteq B, NEW kinds, NEW unary, NEW binary,
           NEW h \in Nat, NEW k \in Nat, h <= k
    PROVE  Bodies(A, kinds, unary, binary, h) \subseteq Bodies(B, kinds, unary, binary, k)
<1> DEFINE L(s, n) == BodyLeaves(s, kinds, unary, binary, n)
<1>1. Anchored(A, kinds) \subseteq Anchored(B, kinds)
    BY DEF Anchored, Refs
<1>2. Operands(A, h) \subseteq Operands(B, k)
    BY OperandsGrow
<1>3. Temporal(unary, binary, Operands(A, h)) \subseteq Temporal(unary, binary, Operands(B, k))
    BY <1>2 DEF Temporal
<1>4. L(A, h) \subseteq L(B, k)
    BY <1>1, <1>3 DEF BodyLeaves, Anchored
<1> HIDE DEF L
<1>5. Combinations(L(A, h), h) \subseteq Combinations(L(B, k), k)
    BY <1>4, CombinationsGrow
<1> QED BY <1>5, BodiesAre DEF L

\* Operands are formulas,
LEMMA OperandsIn ==
    ASSUME NEW names, NEW h \in Nat
    PROVE  Operands(names, h) \subseteq Formulas(names, h)
<1>1. Constants \cup Refs(names, Places) \subseteq Leaves(names)
    BY DEF Leaves
<1>2. h <= h
    OBVIOUS
<1>3. Operands(names, h) \subseteq Combinations(Leaves(names), h)
    BY <1>1, <1>2, CombinationsGrow DEF Operands
<1> QED BY <1>3, OperandsAreFormulas

\* and so are bodies.
LEMMA BodiesIn ==
    ASSUME NEW names, NEW kinds \in SUBSET Kinds, NEW unary \in SUBSET (PastUnary \cup FutureUnary),
           NEW binary \in SUBSET {"since", "until"}, NEW h \in Nat
    PROVE  Bodies(names, kinds, unary, binary, h) \subseteq Formulas(names, h)
<1> DEFINE L == BodyLeaves(names, kinds, unary, binary, h)
           M == Leaves(names) \cup TemporalOver(names, h)
<1>1. Anchored(names, kinds) \subseteq Leaves(names)
    BY DEF Anchored, Leaves, Atoms, Refs, Places
<1>2. Operands(names, h) \subseteq Combinations(Leaves(names), h)
    <2>1. Constants \cup Refs(names, Places) \subseteq Leaves(names) /\ h <= h
        BY DEF Leaves
    <2> QED BY <2>1, CombinationsGrow DEF Operands
<1>3. Temporal(unary, binary, Operands(names, h)) \subseteq TemporalOver(names, h)
    BY <1>2 DEF Temporal, TemporalOver
<1>4. L \subseteq M /\ h <= h
    BY <1>1, <1>3 DEF BodyLeaves, Anchored
<1> HIDE DEF L, M
<1>5. Combinations(L, h) \subseteq Combinations(M, h)
    BY <1>4, CombinationsGrow
<1> QED BY <1>5, BodiesAre, FormulasAre DEF L, M

-----------------------------------------------------------------------------
(***************************************************************************)
(* What the rewritings make of bodies.                                     *)
(***************************************************************************)

\* The tables of the two rewritings.
IsMirror(t, names) == \A f \in Formulas(names, MaxHeight) : t[f] = MirrorStep(t, f)
IsDesugar(t, names) == \A f \in Formulas(names, MaxHeight) : t[f] = DesugarStep(t, f)

\* What a DAG that compiles may say is a formula.
LEMMA AcceptedIn ==
    ASSUME NEW names
    PROVE  /\ Accepted("past", names) \subseteq Formulas(names, MaxHeight)
           /\ Accepted("future", names) \subseteq Formulas(names, MaxHeight)
           /\ Operands(names, MaxHeight) \subseteq Formulas(names, MaxHeight)
<1>1. {"letter", "bos"} \in SUBSET Kinds /\ {"letter", "eos"} \in SUBSET Kinds
    BY DEF Kinds
<1>2. /\ Bodies(names, {"letter", "bos"}, PastUnary, {"since"}, MaxHeight) \subseteq Formulas(names, MaxHeight)
      /\ Bodies(names, {"letter", "eos"}, FutureUnary, {"until"}, MaxHeight) \subseteq Formulas(names, MaxHeight)
    BY <1>1, MaxHeightAssumption, BodiesIn
<1> QED BY <1>2, MaxHeightAssumption, OperandsIn DEF Accepted

\* More names only add to it.
LEMMA AcceptedGrow ==
    ASSUME NEW A, NEW B, A \subseteq B, NEW logic
    PROVE  Accepted(logic, A) \subseteq Accepted(logic, B)
<1>1. MaxHeight <= MaxHeight
    BY MaxHeightAssumption
<1> QED BY <1>1, MaxHeightAssumption, BodiesGrow DEF Accepted

\* Mirroring takes the past formulas that compile to future ones.
LEMMA MirrorTypes ==
    ASSUME NEW N, NEW t, IsMirror(t, N), NEW names, names \subseteq N
    PROVE  /\ \A f \in Operands(names, MaxHeight) : t[f] \in Operands(names, MaxHeight)
           /\ \A f \in Accepted("past", names) : t[f] \in Accepted("future", names)
<1> DEFINE h == MaxHeight
           O == Operands(names, h)
           P == BodyLeaves(names, {"letter", "bos"}, PastUnary, {"since"}, h)
           F == BodyLeaves(names, {"letter", "eos"}, FutureUnary, {"until"}, h)
<1>1. h \in Nat /\ h <= h
    BY MaxHeightAssumption
<1>2. Formulas(names, h) \subseteq Formulas(N, h)
    BY <1>1, FormulasGrow
<1>3. O \subseteq Formulas(N, h) /\ Accepted("past", names) \subseteq Formulas(N, h)
    BY <1>2, AcceptedIn
<1>4. \A S : S \subseteq Formulas(N, h) => Homomorphic(t, S)
    <2> SUFFICES ASSUME NEW S, S \subseteq Formulas(N, h), NEW f \in S
                 PROVE  /\ f.op = "not" => t[f] = Not(t[f.arg])
                        /\ f.op \in {"and", "or"} => t[f] = [f EXCEPT !.args = [k \in DOMAIN f.args |-> t[f.args[k]]]]
        BY Zenon DEF Homomorphic
    <2>1. t[f] = MirrorStep(t, f)
        BY DEF IsMirror
    <2> QED BY <2>1, MirrorArms
<1>5. ASSUME NEW f \in O PROVE t[f] \in O
    <2> DEFINE A == Constants \cup Refs(names, Places)
    <2>1. O = Combinations(A, h)
        BY DEF Operands
    <2>2. A \subseteq O
        BY <1>1, <2>1, CombinationsGrow, CombinationsZero
    <2>3. \A g \in A : g.op \in {"const", "ref"}
        BY DEF Constants, Refs
    <2>4. \A g \in A : t[g] = g
        BY <1>3, <2>2, <2>3, MirrorArms DEF IsMirror
    <2> HIDE DEF A
    <2>5. \A g \in A : t[g] \in A
        BY <2>4
    <2>6. Homomorphic(t, Combinations(A, h))
        BY <1>3, <1>4, <2>1
    <2> HIDE DEF O, h
    <2> QED BY <1>1, <2>1, <2>5, <2>6, CombinationsMap
<1>6. Accepted("past", names) = Combinations(P, h) /\ Accepted("future", names) = Combinations(F, h)
    BY BodiesAre DEF Accepted
<1>7. ASSUME NEW f \in P PROVE t[f] \in F
    <2>1. f \in Combinations(P, h)
        <3> HIDE DEF P, h
        <3> QED BY <1>1, CombinationsGrow, CombinationsZero
    <2>2. t[f] = MirrorStep(t, f)
        BY <1>3, <1>6, <2>1 DEF IsMirror
    <2>3. CASE f \in Constants \cup Refs(names, {"i"})
        <3>1. f.op \in {"const", "ref"}
            BY <2>3 DEF Constants, Refs
        <3>2. t[f] = f
            BY <2>2, <3>1, MirrorArms
        <3> QED BY <2>3, <3>2 DEF BodyLeaves, Anchored
    <2>4. CASE f \in Atoms({"letter", "bos"}, {"i"})
        <3>1. f.op = "atom" /\ t[f] = [f EXCEPT !.kind = Dual(f.kind)]
            BY <2>2, <2>4, MirrorArms DEF Atoms
        <3>2. Dual(f.kind) \in {"letter", "eos"}
            BY <2>4 DEF Atoms, Dual
        <3>3. t[f] \in Atoms({"letter", "eos"}, {"i"})
            BY <2>4, <3>1, <3>2 DEF Atoms
        <3> QED BY <3>3 DEF BodyLeaves, Anchored
    <2>5. CASE f \in [op : PastUnary, arg : O]
        <3>1. f.op \in PastUnary /\ f.arg \in O
            BY <2>5
        <3>2. t[f] = Unary(Dual(f.op), t[f.arg])
            BY <2>2, <3>1, MirrorArms
        <3>3. Dual(f.op) \in FutureUnary
            BY <3>1 DEF Dual, PastUnary, FutureUnary
        <3>4. t[f.arg] \in O
            BY <1>5, <3>1
        <3>5. t[f] \in [op : FutureUnary, arg : O]
            <4> HIDE DEF O
            <4> QED BY <3>2, <3>3, <3>4 DEF Unary
        <3> QED BY <3>5 DEF BodyLeaves, Anchored, Temporal
    <2>6. CASE f \in [op : {"since"}, left : O, right : O]
        <3>1. f.op = "since" /\ f.left \in O /\ f.right \in O
            BY <2>6
        <3>2. t[f] = Binary(Dual(f.op), t[f.left], t[f.right])
            BY <2>2, <3>1, MirrorArms
        <3>3. Dual(f.op) = "until"
            BY <3>1 DEF Dual
        <3>4. t[f.left] \in O /\ t[f.right] \in O
            BY <1>5, <3>1
        <3>5. t[f] \in [op : {"until"}, left : O, right : O]
            <4> HIDE DEF O
            <4> QED BY <3>2, <3>3, <3>4 DEF Binary
        <3> QED BY <3>5 DEF BodyLeaves, Anchored, Temporal
    <2> QED BY <2>3, <2>4, <2>5, <2>6 DEF BodyLeaves, Anchored, Temporal
<1>8. Homomorphic(t, Combinations(P, h))
    BY <1>3, <1>4, <1>6
<1>9. \A f \in Combinations(P, h) : t[f] \in Combinations(F, h)
    <2> HIDE DEF P, F, h
    <2> QED BY <1>1, <1>7, <1>8, CombinationsMap
<1> QED BY <1>5, <1>6, <1>9

\* Desugaring leaves of the future operators the until alone.
LEMMA DesugarTypes ==
    ASSUME NEW N, NEW t, IsDesugar(t, N), NEW names, names \subseteq N
    PROVE  /\ \A f \in Operands(names, MaxHeight) : t[f] \in Operands(names, MaxHeight)
           /\ \A f \in Accepted("future", names) :
                t[f] \in Bodies(names, {"letter", "eos"}, {}, {"until"}, MaxHeight + 1)
<1> DEFINE h == MaxHeight
           O == Operands(names, h)
           Q == Operands(names, h + 1)
           F == BodyLeaves(names, {"letter", "eos"}, FutureUnary, {"until"}, h)
           G == BodyLeaves(names, {"letter", "eos"}, {}, {"until"}, h + 1)
<1>1. h \in Nat /\ h <= h /\ h + 1 \in Nat /\ h <= h + 1 /\ 0 <= h + 1 /\ 0 <= h
    BY MaxHeightAssumption
<1>2. Formulas(names, h) \subseteq Formulas(N, h)
    BY <1>1, FormulasGrow
<1>3. O \subseteq Formulas(N, h) /\ Accepted("future", names) \subseteq Formulas(N, h)
    BY <1>2, AcceptedIn
<1>4. \A S : S \subseteq Formulas(N, h) => Homomorphic(t, S)
    <2> SUFFICES ASSUME NEW S, S \subseteq Formulas(N, h), NEW f \in S
                 PROVE  /\ f.op = "not" => t[f] = Not(t[f.arg])
                        /\ f.op \in {"and", "or"} => t[f] = [f EXCEPT !.args = [k \in DOMAIN f.args |-> t[f.args[k]]]]
        BY Zenon DEF Homomorphic
    <2>1. t[f] = DesugarStep(t, f)
        BY DEF IsDesugar
    <2> QED BY <2>1, DesugarNot, DesugarMany
<1>5. ASSUME NEW f \in O PROVE t[f] \in O
    <2> DEFINE A == Constants \cup Refs(names, Places)
    <2>1. O = Combinations(A, h)
        BY DEF Operands
    <2>2. A \subseteq O
        BY <1>1, <2>1, CombinationsGrow, CombinationsZero
    <2>3. \A g \in A : g.op \in {"const", "ref"}
        BY DEF Constants, Refs
    <2>4. \A g \in A : t[g] = g
        BY <1>3, <2>2, <2>3, DesugarSame DEF IsDesugar
    <2> HIDE DEF A
    <2>5. \A g \in A : t[g] \in A
        BY <2>4
    <2>6. Homomorphic(t, Combinations(A, h))
        BY <1>3, <1>4, <2>1
    <2> HIDE DEF O, h
    <2> QED BY <1>1, <2>1, <2>5, <2>6, CombinationsMap
<1>6. O \subseteq Q
    <2> HIDE DEF h
    <2> QED BY <1>1, OperandsGrow
<1>7. Const(FALSE) \in Q /\ Const(TRUE) \in Q /\ \A g \in O : Not(g) \in Q
    <2> DEFINE A == Constants \cup Refs(names, Places)
    <2>1. O = Combinations(A, h) /\ Q = Combinations(A, h + 1)
        BY DEF Operands
    <2>2. A \subseteq Q
        <3> HIDE DEF A, h
        <3> QED BY <1>1, <2>1, CombinationsGrow, CombinationsZero
    <2>3. Q = Wider(O)
        <3> HIDE DEF A, h
        <3> QED BY <1>1, <2>1, CombinationsNext
    <2>4. Const(FALSE) \in A /\ Const(TRUE) \in A
        BY DEF Constants, Const
    <2>5. \A g \in O : Not(g) \in Connectives(O)
        BY DEF Not, Connectives
    <2> QED BY <2>2, <2>3, <2>4, <2>5 DEF Wider
<1>8. Accepted("future", names) = Combinations(F, h)
    BY BodiesAre DEF Accepted
<1>9. \A l, r \in Q : Binary("until", l, r) \in G
    <2> HIDE DEF Q
    <2>1. \A l, r \in Q : Binary("until", l, r) \in [op : {"until"}, left : Q, right : Q]
        BY DEF Binary
    <2> QED BY <2>1 DEF BodyLeaves, Anchored, Temporal, Q
<1>10. ASSUME NEW f \in F PROVE t[f] \in Wider(G)
    <2>1. f \in Combinations(F, h)
        <3> HIDE DEF F, h
        <3> QED BY <1>1, CombinationsGrow, CombinationsZero
    <2>2. t[f] = DesugarStep(t, f)
        BY <1>3, <1>8, <2>1 DEF IsDesugar
    <2>3. CASE f \in Anchored(names, {"letter", "eos"})
        <3>1. f.op \in {"const", "atom", "ref"}
            BY <2>3, AnchoredShapes
        <3>2. t[f] = f
            BY <2>2, <3>1, DesugarSame
        <3> QED BY <2>3, <3>2 DEF BodyLeaves, Anchored, Wider
    <2>4. CASE f \in [op : FutureUnary, arg : O]
        <3>1. f.op \in FutureUnary /\ f.arg \in O
            BY <2>4
        <3>2. t[f.arg] \in O /\ t[f.arg] \in Q /\ Not(t[f.arg]) \in Q
            BY <1>5, <1>6, <1>7, <3>1
        <3> HIDE DEF G, Q, O
        <3>3. CASE f.op = "next"
            BY <1>7, <1>9, <2>2, <3>2, <3>3, DesugarNext DEF Wider
        <3>4. CASE f.op = "eventually"
            BY <1>7, <1>9, <2>2, <3>2, <3>4, DesugarEventually DEF Wider
        <3>5. CASE f.op = "always"
            <4> DEFINE g == Binary("until", Const(TRUE), Not(t[f.arg]))
            <4>1. t[f] = Not(g)
                BY <2>2, <3>5, DesugarAlways
            <4>2. g \in G
                BY <1>7, <1>9, <3>2
            <4> HIDE DEF g
            <4>3. t[f] \in Connectives(G)
                BY <4>1, <4>2 DEF Not, Connectives
            <4> QED BY <4>3 DEF Wider
        <3> QED BY <3>1, <3>3, <3>4, <3>5 DEF FutureUnary
    <2>5. CASE f \in [op : {"until"}, left : O, right : O]
        <3>1. f.op = "until" /\ f.left \in O /\ f.right \in O
            BY <2>5
        <3>2. t[f] = Binary("until", t[f.left], t[f.right])
            BY <2>2, <3>1, DesugarUntil
        <3>3. t[f.left] \in Q /\ t[f.right] \in Q
            BY <1>5, <1>6, <3>1
        <3> HIDE DEF G, Q, O
        <3> QED BY <1>9, <3>2, <3>3 DEF Wider
    <2> QED BY <2>3, <2>4, <2>5 DEF BodyLeaves, Anchored, Temporal
<1>11. Homomorphic(t, Combinations(F, h))
    BY <1>3, <1>4, <1>8
<1>12. \A f \in Combinations(F, h) : t[f] \in Combinations(Wider(G), h)
    <2> HIDE DEF F, G, h
    <2> QED BY <1>1, <1>10, <1>11, CombinationsMap
<1>13. Combinations(Wider(G), h) = Bodies(names, {"letter", "eos"}, {}, {"until"}, h + 1)
    <2>1. Combinations(Wider(G), h) = Combinations(G, h + 1)
        <3> HIDE DEF G, h
        <3> QED BY <1>1, CombinationsNest
    <2> QED BY <2>1, BodiesAre
<1> QED BY <1>5, <1>8, <1>12, <1>13

\* The shape of a DAG that compiles.
LEMMA CompilableShape ==
    ASSUME NEW dg, Compilable(dg)
    PROVE  /\ Ordered(dg, MaxHeight) /\ Ordered(dg, MaxHeight + 1)
           /\ dg.logic \in {"past", "future"} /\ DOMAIN dg.definition = Range(dg.names)
           /\ DOMAIN dg.names = 1..Len(dg.names) /\ Len(dg.names) \in Nat
           /\ Range(dg.names) = Before(dg, Len(dg.names) + 1)
           /\ \A n \in Range(dg.names) : dg.definition[n] \in Accepted(dg.logic, Range(dg.names))
           /\ \A k \in 1..Len(dg.names) : dg.definition[dg.names[k]] \in Accepted(dg.logic, Before(dg, k))
           /\ dg.output \in Accepted(dg.logic, Range(dg.names))
<1> DEFINE K == Len(dg.names)
<1>1. DOMAIN dg.names = 1..K /\ K \in Nat
    BY DEF Compilable
<1>2. Range(dg.names) = Before(dg, K + 1)
    <2>1. Range(dg.names) = {dg.names[k] : k \in DOMAIN dg.names}
        BY DEF Range
    <2>2. (K + 1) - 1 = K
        BY <1>1
    <2> QED BY <1>1, <2>1, <2>2 DEF Before
<1>3. \A k \in 1..K : Before(dg, k) \subseteq Range(dg.names)
    BY <1>1, <1>2 DEF Before
<1>4. \A k \in 1..K : dg.definition[dg.names[k]] \in Accepted(dg.logic, Before(dg, k))
    BY <1>1 DEF Compilable, Before
<1>5. \A n \in Range(dg.names) : dg.definition[n] \in Accepted(dg.logic, Range(dg.names))
    <2> SUFFICES ASSUME NEW k \in 1..K
                 PROVE  dg.definition[dg.names[k]] \in Accepted(dg.logic, Range(dg.names))
        BY <1>1 DEF Range
    <2> QED BY <1>3, <1>4, AcceptedGrow
<1>6. MaxHeight \in Nat /\ MaxHeight + 1 \in Nat /\ MaxHeight <= MaxHeight + 1
    BY MaxHeightAssumption
<1>7. \A k \in 1..K : dg.definition[dg.names[k]] \in Formulas(Before(dg, k), MaxHeight)
    <2> SUFFICES ASSUME NEW k \in 1..K
                 PROVE  dg.definition[dg.names[k]] \in Formulas(Before(dg, k), MaxHeight)
        OBVIOUS
    <2>1. dg.logic \in {"past", "future"}
        BY DEF Compilable
    <2> QED BY <1>4, <2>1, AcceptedIn
<1>8. \A k \in 1..K : Formulas(Before(dg, k), MaxHeight) \subseteq Formulas(Before(dg, k), MaxHeight + 1)
    BY <1>6, FormulasGrow
<1>9. DOMAIN dg.definition = Range(dg.names)
    BY DEF Compilable
<1>10. Ordered(dg, MaxHeight) /\ Ordered(dg, MaxHeight + 1)
    BY <1>1, <1>2, <1>7, <1>8, <1>9 DEF Ordered
<1> QED BY <1>1, <1>2, <1>4, <1>5, <1>9, <1>10 DEF Compilable

-----------------------------------------------------------------------------
(***************************************************************************)
(* Mirroring keeps the meaning, on the reversed word.                      *)
(***************************************************************************)

\* The table of a DAG, of a formula and of its operator.
LEMMA TruthOf ==
    ASSUME NEW dg, NEW w, NEW e, IsTruth(dg, w, e), NEW f \in FormulasOf(dg),
           NEW i \in Positions(w), NEW j \in Positions(w)
    PROVE  e[<<f, i, j>>] = Meaning(dg, w, e, f, i, j)
BY DEF IsTruth

\* f says of w what g says of the reversed word.
Reflects(e, d, f, g, n) == \A i, j \in 0..n : e[<<f, i, j>>] <=> d[<<g, n - i, n - j>>]

\* Reflection, read at the mirrored positions.
LEMMA ReflectedBelow ==
    ASSUME NEW n \in Nat, NEW e, NEW d, NEW f, NEW g, Reflects(e, d, f, g, n), NEW i \in 0..n
    PROVE  /\ \A v \in 0..n : e[<<f, i, v>>] <=> d[<<g, n - i, n - v>>]
           /\ \A v \in 0..n : d[<<g, n - i, v>>] <=> e[<<f, i, n - v>>]
<1>1. \A v \in 0..n : n - v \in 0..n /\ n - (n - v) = v
    OBVIOUS
<1> QED BY <1>1 DEF Reflects

\* A position before the variable is one after its mirror image;
LEMMA MirrorPreviousMeans ==
    ASSUME NEW n \in Nat, NEW e, NEW d, NEW f, NEW g, Reflects(e, d, f, g, n), NEW i \in 0..n
    PROVE  (i > 0 /\ e[<<f, i, i - 1>>]) <=> (n - i < n /\ d[<<g, n - i, (n - i) + 1>>])
<1>1. i > 0 => i - 1 \in 0..n /\ n - (i - 1) = (n - i) + 1
    OBVIOUS
<1>2. i > 0 => (e[<<f, i, i - 1>>] <=> d[<<g, n - i, (n - i) + 1>>])
    BY <1>1, ReflectedBelow
<1> QED BY <1>2

\* so are the positions of once and historically,
LEMMA MirrorRangeMeans ==
    ASSUME NEW n \in Nat, NEW e, NEW d, NEW f, NEW g, Reflects(e, d, f, g, n), NEW i \in 0..n
    PROVE  /\ (\E v \in 0..(i - 1) : e[<<f, i, v>>]) <=> (\E v \in ((n - i) + 1)..n : d[<<g, n - i, v>>])
           /\ (\A v \in 0..(i - 1) : e[<<f, i, v>>]) <=> (\A v \in ((n - i) + 1)..n : d[<<g, n - i, v>>])
<1>1. \A v \in 0..(i - 1) : v \in 0..n /\ n - v \in ((n - i) + 1)..n
    OBVIOUS
<1>2. \A v \in ((n - i) + 1)..n : v \in 0..n /\ n - v \in 0..(i - 1)
    OBVIOUS
<1>3. \A v \in 0..(i - 1) : e[<<f, i, v>>] <=> d[<<g, n - i, n - v>>]
    BY <1>1, ReflectedBelow
<1>4. \A v \in ((n - i) + 1)..n : d[<<g, n - i, v>>] <=> e[<<f, i, n - v>>]
    BY <1>2, ReflectedBelow
<1> QED BY <1>1, <1>2, <1>3, <1>4

\* and the two ranges of a since.
LEMMA MirrorSinceMeans ==
    ASSUME NEW n \in Nat, NEW e, NEW d, NEW l, NEW r, NEW l2, NEW r2,
           Reflects(e, d, l, l2, n), Reflects(e, d, r, r2, n), NEW i \in 0..n
    PROVE  (\E v \in 0..(i - 1) : e[<<r, i, v>>] /\ \A b \in (v + 1)..(i - 1) : e[<<l, i, b>>])
              <=> (\E v \in ((n - i) + 1)..n : d[<<r2, n - i, v>>]
                        /\ \A b \in ((n - i) + 1)..(v - 1) : d[<<l2, n - i, b>>])
<1>1. ASSUME NEW v \in 0..(i - 1), e[<<r, i, v>>], \A b \in (v + 1)..(i - 1) : e[<<l, i, b>>]
      PROVE  \E u \in ((n - i) + 1)..n : d[<<r2, n - i, u>>]
                        /\ \A b \in ((n - i) + 1)..(u - 1) : d[<<l2, n - i, b>>]
    <2>1. n - v \in ((n - i) + 1)..n /\ v \in 0..n
        OBVIOUS
    <2>2. d[<<r2, n - i, n - v>>]
        BY <1>1, <2>1, ReflectedBelow
    <2>3. ASSUME NEW b \in ((n - i) + 1)..((n - v) - 1) PROVE d[<<l2, n - i, b>>]
        <3>1. b \in 0..n /\ n - b \in (v + 1)..(i - 1)
            OBVIOUS
        <3> QED BY <1>1, <3>1, ReflectedBelow
    <2> QED BY <2>1, <2>2, <2>3
<1>2. ASSUME NEW v \in ((n - i) + 1)..n, d[<<r2, n - i, v>>],
             \A b \in ((n - i) + 1)..(v - 1) : d[<<l2, n - i, b>>]
      PROVE  \E u \in 0..(i - 1) : e[<<r, i, u>>] /\ \A b \in (u + 1)..(i - 1) : e[<<l, i, b>>]
    <2>1. n - v \in 0..(i - 1) /\ v \in 0..n
        OBVIOUS
    <2>2. e[<<r, i, n - v>>]
        BY <1>2, <2>1, ReflectedBelow
    <2>3. ASSUME NEW b \in ((n - v) + 1)..(i - 1) PROVE e[<<l, i, b>>]
        <3>1. b \in 0..n /\ n - b \in ((n - i) + 1)..(v - 1)
            OBVIOUS
        <3> QED BY <1>2, <3>1, ReflectedBelow
    <2> QED BY <2>1, <2>2, <2>3
<1> QED BY <1>1, <1>2

\* A past DAG and the future DAG it is mirrored to, on a word and its reverse.
MirrorPair(fd, md, w, rw, e, d, t) ==
    /\ Compilable(fd) /\ fd.logic = "past" /\ md.logic = "future"
    /\ DOMAIN md.definition = DOMAIN fd.definition
    /\ \A n \in DOMAIN fd.definition : md.definition[n] = t[fd.definition[n]]
    /\ IsMirror(t, DOMAIN fd.definition)
    /\ Len(w) \in Nat /\ Len(rw) = Len(w) /\ \A k \in 1..Len(w) : rw[k] = w[Len(w) + 1 - k]
    /\ IsTruth(fd, w, e) /\ IsTruth(md, rw, d)

\* The formulas that fromFuture2ltl and mirrorTC meet in a DAG of this logic.
Met(logic, names) == Accepted(logic, names) \cup Operands(names, MaxHeight)

\* They are formulas, and so are their parts that are met.
LEMMA MetIn ==
    ASSUME NEW dg, Compilable(dg), NEW f \in Met(dg.logic, DOMAIN dg.definition)
    PROVE  /\ f \in Formulas(DOMAIN dg.definition, MaxHeight) /\ f \in FormulasOf(dg)
           /\ \A g \in Parts(f) : g \in Met(dg.logic, DOMAIN dg.definition)
           /\ f.op = "ref" => /\ f.name \in DOMAIN dg.definition
                              /\ dg.definition[f.name] \in Met(dg.logic, DOMAIN dg.definition)
           /\ dg.logic = "past" => f.op \in {"const", "atom", "ref", "not", "and", "or", "since"} \cup PastUnary
           /\ dg.logic = "future" => f.op \in {"const", "atom", "ref", "not", "and", "or", "until"} \cup FutureUnary
           /\ f.op = "atom" => /\ f.at = "i"
                               /\ dg.logic = "past" => f.kind \in {"letter", "bos"}
                               /\ dg.logic = "future" => f.kind \in {"letter", "eos"}
           /\ f.op = "ref" => f = Ref(f.name, f.at)
<1> DEFINE N == DOMAIN dg.definition
           O == Operands(N, MaxHeight)
<1>1. dg.logic \in {"past", "future"} /\ MaxHeight \in Nat /\ MaxHeight + 1 \in Nat /\ MaxHeight <= MaxHeight + 1
    BY MaxHeightAssumption DEF Compilable
<1>2. f \in Formulas(N, MaxHeight)
    BY <1>1, AcceptedIn DEF Met
<1>3. f \in FormulasOf(dg)
    <2>1. Formulas(N, MaxHeight) \subseteq Formulas(N, MaxHeight + 1)
        BY <1>1, FormulasGrow
    <2> QED BY <1>2, <2>1 DEF FormulasOf
<1>4. f.op = "ref" => f.name \in N
    <2>1. CASE f.op = "ref"
        <3>1. f \in Leaves(N)
            BY <1>1, <1>2, <2>1, OperatorOf DEF PastUnary, FutureUnary
        <3> QED BY <2>1, <3>1, LeafShapes
    <2> QED BY <2>1
<1>5. \A m \in N : dg.definition[m] \in Met(dg.logic, N)
    BY CompilableShape DEF Met
<1>6. CASE f \in O
    <2>1. \/ f.op \in {"const", "ref"} /\ Parts(f) = {}
          \/ f.op = "not" /\ Parts(f) = {f.arg} /\ f.arg \in O
          \/ /\ f.op \in {"and", "or"} /\ Parts(f) = {f.args[k] : k \in DOMAIN f.args}
             /\ f.args \in Seq(O)
        <3> HIDE DEF O
        <3>1. f.op \in {"const", "ref"} => Parts(f) = {}
            BY PartsOfLeaves
        <3>2. f.op = "not" => Parts(f) = {f.arg}
            BY DEF Parts
        <3>3. f.op \in {"and", "or"} => Parts(f) = {f.args[k] : k \in DOMAIN f.args}
            BY DEF Parts
        <3> QED BY <1>1, <1>6, <3>1, <3>2, <3>3, OperandShapes DEF O
    <2>2. \A g \in Parts(f) : g \in O
        <3> HIDE DEF O
        <3>1. f.op \in {"and", "or"} => \A k \in DOMAIN f.args : f.args[k] \in O
            BY <2>1
        <3> QED BY <2>1, <3>1
    <2>3. f.op = "ref" => f = Ref(f.name, f.at)
        BY <1>1, <1>6, OperandShapes
    <2> QED BY <1>2, <1>3, <1>4, <1>5, <2>1, <2>2, <2>3 DEF Met
<1>7. ASSUME NEW kinds, NEW unary \in SUBSET (PastUnary \cup FutureUnary), NEW binary \in SUBSET {"since", "until"},
             f \in Bodies(N, kinds, unary, binary, MaxHeight)
      PROVE  /\ \A g \in Parts(f) : g \in Bodies(N, kinds, unary, binary, MaxHeight) \cup O
             /\ f.op \in {"const", "atom", "ref", "not", "and", "or"} \cup unary \cup binary
             /\ f.op = "atom" => f.at = "i" /\ f.kind \in kinds
             /\ f.op = "ref" => f = Ref(f.name, f.at)
    <2> DEFINE B == Bodies(N, kinds, unary, binary, MaxHeight)
    <2>1. CASE f \in Anchored(N, kinds) /\ f.op \in {"const", "atom", "ref"}
        <3>1. Parts(f) = {}
            BY <2>1, PartsOfLeaves
        <3>2. f.op = "atom" => f.at = "i" /\ f.kind \in kinds
            BY <2>1, AnchoredShapes
        <3>3. f.op = "ref" => f = Ref(f.name, f.at)
            BY <2>1, AnchoredShapes DEF Ref
        <3> QED BY <2>1, <3>1, <3>2, <3>3
    <2>2. CASE f.op = "not" /\ f.arg \in B
        BY <2>2 DEF Parts
    <2>3. CASE f.op \in {"and", "or"} /\ f.args \in Seq(B)
        <3>1. \A k \in DOMAIN f.args : f.args[k] \in B
            BY <2>3
        <3> QED BY <2>3, <3>1 DEF Parts
    <2>4. CASE f.op \in unary /\ f.arg \in O
        <3>1. Parts(f) = {f.arg} /\ f.op \notin {"atom", "ref"}
            BY <2>4 DEF Parts, PastUnary, FutureUnary
        <3> QED BY <2>4, <3>1
    <2>5. CASE f.op \in binary /\ f.left \in O /\ f.right \in O
        <3>1. Parts(f) = {f.left, f.right} /\ f.op \notin {"atom", "ref"}
            BY <2>5 DEF Parts
        <3> QED BY <2>5, <3>1
    <2> HIDE DEF B
    <2> QED BY <1>1, <1>7, <2>1, <2>2, <2>3, <2>4, <2>5, BodyShapes DEF B
<1>8. CASE f \in Accepted("past", N) /\ dg.logic = "past"
    <2> DEFINE B == Bodies(N, {"letter", "bos"}, PastUnary, {"since"}, MaxHeight)
    <2>1. Accepted("past", N) = B
        BY DEF Accepted
    <2>2. /\ \A g \in Parts(f) : g \in B \cup O
          /\ f.op \in {"const", "atom", "ref", "not", "and", "or"} \cup PastUnary \cup {"since"}
          /\ f.op = "atom" => f.at = "i" /\ f.kind \in {"letter", "bos"}
          /\ f.op = "ref" => f = Ref(f.name, f.at)
        BY <1>7, <1>8, <2>1
    <2> HIDE DEF B
    <2> QED BY <1>2, <1>3, <1>4, <1>5, <1>8, <2>1, <2>2 DEF Met
<1>9. CASE f \in Accepted("future", N) /\ dg.logic = "future"
    <2> DEFINE B == Bodies(N, {"letter", "eos"}, FutureUnary, {"until"}, MaxHeight)
    <2>1. Accepted("future", N) = B
        BY DEF Accepted
    <2>2. /\ \A g \in Parts(f) : g \in B \cup O
          /\ f.op \in {"const", "atom", "ref", "not", "and", "or"} \cup FutureUnary \cup {"until"}
          /\ f.op = "atom" => f.at = "i" /\ f.kind \in {"letter", "eos"}
          /\ f.op = "ref" => f = Ref(f.name, f.at)
        BY <1>7, <1>9, <2>1
    <2> HIDE DEF B
    <2> QED BY <1>2, <1>3, <1>4, <1>5, <1>9, <2>1, <2>2 DEF Met
<1> QED BY <1>1, <1>6, <1>8, <1>9 DEF Met

\* Their mirror images are formulas of the mirrored DAG.
LEMMA MirroredIn ==
    ASSUME NEW fd, NEW md, NEW w, NEW rw, NEW e, NEW d, NEW t, MirrorPair(fd, md, w, rw, e, d, t),
           NEW f \in Met("past", DOMAIN fd.definition)
    PROVE  /\ f \in FormulasOf(fd) /\ t[f] \in FormulasOf(md)
           /\ t[f] = MirrorStep(t, f)
<1> DEFINE N == DOMAIN fd.definition
<1>1. f \in FormulasOf(fd) /\ f \in Formulas(N, MaxHeight)
    BY MetIn DEF MirrorPair
<1>2. t[f] \in Accepted("future", N) \cup Operands(N, MaxHeight)
    BY MirrorTypes DEF MirrorPair, Met
<1>3. t[f] \in Formulas(N, MaxHeight)
    BY <1>2, AcceptedIn
<1>4. MaxHeight \in Nat /\ MaxHeight + 1 \in Nat /\ MaxHeight <= MaxHeight + 1
    BY MaxHeightAssumption
<1>5. Formulas(N, MaxHeight) \subseteq Formulas(N, MaxHeight + 1)
    BY <1>4, FormulasGrow
<1>6. t[f] \in FormulasOf(md)
    BY <1>3, <1>5 DEF MirrorPair, FormulasOf
<1> QED BY <1>1, <1>6 DEF MirrorPair, IsMirror

\* An atom of the past DAG, and its mirror image.
LEMMA MirrorAtomMeans ==
    ASSUME NEW n \in Nat, NEW w, NEW rw, Len(w) = n, Len(rw) = n, \A k \in 1..n : rw[k] = w[n + 1 - k],
           NEW f, f.op = "atom", f.kind \in {"letter", "bos"}, NEW g, g = [f EXCEPT !.kind = Dual(f.kind)],
           f = [op |-> "atom", kind |-> f.kind, letters |-> f.letters, at |-> f.at],
           NEW p \in 0..n
    PROVE  AtomValue("past", f, w, p) <=> AtomValue("future", g, rw, n - p)
<1>1. g.letters = f.letters /\ g.kind = Dual(f.kind)
    OBVIOUS
<1>2. CASE f.kind = "bos"
    <2>1. g.kind = "eos"
        BY <1>1, <1>2 DEF Dual
    <2>2. AtomValue("past", f, w, p) <=> p = 0
        BY <1>2 DEF AtomValue
    <2>3. AtomValue("future", g, rw, n - p) <=> n - p = n
        BY <2>1 DEF AtomValue
    <2> QED BY <2>2, <2>3
<1>3. CASE f.kind = "letter"
    <2>1. g.kind = "letter"
        BY <1>1, <1>3 DEF Dual
    <2>2. AtomValue("past", f, w, p) <=> p \in 1..n /\ w[p] \in f.letters
        BY <1>3 DEF AtomValue, SymbolMatches
    <2>3. AtomValue("future", g, rw, n - p) <=> n - p \in 0..(n - 1) /\ rw[(n - p) + 1] \in f.letters
        BY <1>1, <2>1 DEF AtomValue, SymbolMatches
    <2>4. p \in 1..n => rw[(n - p) + 1] = w[p]
        <3>1. p \in 1..n => (n - p) + 1 \in 1..n /\ n + 1 - ((n - p) + 1) = p
            OBVIOUS
        <3> QED BY <3>1
    <2>5. p \in 1..n <=> n - p \in 0..(n - 1)
        OBVIOUS
    <2> QED BY <2>2, <2>3, <2>4, <2>5
<1> QED BY <1>2, <1>3

\* A formula is reflected when its operands are.
LEMMA MirrorMeans ==
    ASSUME NEW fd, NEW md, NEW w, NEW rw, NEW e, NEW d, NEW t, MirrorPair(fd, md, w, rw, e, d, t),
           NEW f \in Met("past", DOMAIN fd.definition),
           \A g \in Parts(f) : Reflects(e, d, g, t[g], Len(w)),
           f.op = "ref" => Reflects(e, d, fd.definition[f.name], md.definition[f.name], Len(w))
    PROVE  Reflects(e, d, f, t[f], Len(w))
<1> DEFINE n == Len(w)
           g == t[f]
<1>1. n \in Nat /\ Len(rw) = n /\ Positions(w) = 0..n /\ Positions(rw) = 0..n
    BY DEF MirrorPair, Positions
<1> SUFFICES ASSUME NEW i \in 0..n, NEW j \in 0..n
             PROVE  e[<<f, i, j>>] <=> d[<<g, n - i, n - j>>]
    BY DEF Reflects
<1> DEFINE a == n - i
           b == n - j
<1>2. a \in 0..n /\ b \in 0..n
    BY <1>1
<1>3. f \in FormulasOf(fd) /\ g \in FormulasOf(md) /\ g = MirrorStep(t, f)
    BY MirroredIn
<1>4. e[<<f, i, j>>] = Meaning(fd, w, e, f, i, j) /\ d[<<g, a, b>>] = Meaning(md, rw, d, g, a, b)
    <2>1. IsTruth(fd, w, e) /\ IsTruth(md, rw, d)
        BY DEF MirrorPair
    <2>2. i \in Positions(w) /\ j \in Positions(w) /\ a \in Positions(rw) /\ b \in Positions(rw)
        BY <1>1, <1>2
    <2> HIDE DEF a, b, g
    <2>3. e[<<f, i, j>>] = Meaning(fd, w, e, f, i, j)
        BY <1>3, <2>1, <2>2, TruthOf
    <2>4. d[<<g, a, b>>] = Meaning(md, rw, d, g, a, b)
        BY <1>3, <2>1, <2>2, TruthOf
    <2> QED BY <2>3, <2>4
<1>5. f.op \in {"const", "atom", "ref", "not", "and", "or", "since"} \cup PastUnary
    BY MetIn DEF MirrorPair
<1>6. Meaning(fd, w, e, f, i, j) <=> Meaning(md, rw, d, g, a, b)
    <2> HIDE DEF g
    <2>1. CASE f.op = "const"
        <3>1. g = f
            BY <1>3, <2>1, MirrorArms
        <3> QED BY <2>1, <3>1, MeaningConst
    <2>2. CASE f.op = "atom"
        <3>1. f.at = "i" /\ f.kind \in {"letter", "bos"}
            BY <2>2, MetIn DEF MirrorPair
        <3>2. g = [f EXCEPT !.kind = Dual(f.kind)]
            BY <1>3, <2>2, MirrorArms
        <3>3. f = [op |-> "atom", kind |-> f.kind, letters |-> f.letters, at |-> f.at]
            <4>1. f \in Formulas(DOMAIN fd.definition, MaxHeight)
                BY MetIn DEF MirrorPair
            <4>2. f \in Leaves(DOMAIN fd.definition)
                BY <2>2, <4>1, MaxHeightAssumption, OperatorOf DEF PastUnary, FutureUnary
            <4> QED BY <2>2, <4>2, LeafShapes
        <3>4. g.op = "atom" /\ g.at = "i"
            BY <2>2, <3>1, <3>2, <3>3
        <3>5. Place(f.at, i, j) = i /\ Place(g.at, a, b) = a
            BY <3>1, <3>4 DEF Place
        <3>6. Meaning(fd, w, e, f, i, j) = AtomValue("past", f, w, i)
            BY <2>2, <3>5, MeaningAtom DEF MirrorPair
        <3>7. Meaning(md, rw, d, g, a, b) = AtomValue("future", g, rw, a)
            BY <3>4, <3>5, MeaningAtom DEF MirrorPair
        <3>8. AtomValue("past", f, w, i) <=> AtomValue("future", g, rw, n - i)
            BY <1>1, <2>2, <3>1, <3>2, <3>3, MirrorAtomMeans DEF MirrorPair
        <3> QED BY <3>6, <3>7, <3>8
    <2>3. CASE f.op = "ref"
        <3>1. g = f
            BY <1>3, <2>3, MirrorArms
        <3> DEFINE x == fd.definition[f.name]
                   y == md.definition[f.name]
        <3>2. Reflects(e, d, x, y, n)
            BY <2>3
        <3>3. Place(f.at, i, j) \in 0..n /\ Place(f.at, a, b) = n - Place(f.at, i, j)
            BY DEF Place
        <3>4. e[<<x, Place(f.at, i, j), j>>] <=> d[<<y, Place(f.at, a, b), b>>]
            BY <3>2, <3>3 DEF Reflects
        <3>5. Meaning(fd, w, e, f, i, j) = e[<<x, Place(f.at, i, j), j>>]
            BY <2>3, MeaningRef
        <3>6. Meaning(md, rw, d, g, a, b) = d[<<y, Place(f.at, a, b), b>>]
            BY <2>3, <3>1, MeaningRef
        <3> QED BY <3>4, <3>5, <3>6
    <2>4. CASE f.op = "not"
        <3>1. Reflects(e, d, f.arg, t[f.arg], n)
            BY <2>4 DEF Parts
        <3>2. g.op = "not" /\ g.arg = t[f.arg]
            BY <1>3, <2>4, MirrorArms DEF Not
        <3>3. e[<<f.arg, i, j>>] <=> d[<<g.arg, a, b>>]
            BY <3>1, <3>2 DEF Reflects
        <3> QED BY <2>4, <3>2, <3>3, MeaningNot
    <2>5. CASE f.op \in {"and", "or"}
        <3>1. \A k \in DOMAIN f.args : Reflects(e, d, f.args[k], t[f.args[k]], n)
            BY <2>5 DEF Parts
        <3>2. g.op = f.op /\ DOMAIN g.args = DOMAIN f.args /\ \A k \in DOMAIN f.args : g.args[k] = t[f.args[k]]
            <4>1. g = [f EXCEPT !.args = [k \in DOMAIN f.args |-> t[f.args[k]]]]
                BY <1>3, <2>5, MirrorArms
            <4>2. f = [op |-> f.op, args |-> f.args]
                BY <1>3, <2>5, MaxHeightAssumption, OperatorCases DEF FormulasOf, PastUnary, FutureUnary
            <4> QED BY <4>1, <4>2
        <3>3. \A k \in DOMAIN f.args : e[<<f.args[k], i, j>>] <=> d[<<g.args[k], a, b>>]
            BY <3>1, <3>2 DEF Reflects
        <3>4. CASE f.op = "and"
            BY <3>2, <3>3, <3>4, MeaningAnd
        <3>5. CASE f.op = "or"
            <4>1. Meaning(fd, w, e, f, i, j) <=> \E k \in DOMAIN f.args : e[<<f.args[k], i, j>>]
                BY <3>5, MeaningOr
            <4>2. Meaning(md, rw, d, g, a, b) <=> \E k \in DOMAIN g.args : d[<<g.args[k], a, b>>]
                BY <3>2, <3>5, MeaningOr
            <4> QED BY <3>2, <3>3, <4>1, <4>2
        <3> QED BY <2>5, <3>4, <3>5
    <2>6. CASE f.op \in PastUnary
        <3>1. Reflects(e, d, f.arg, t[f.arg], n)
            BY <2>6 DEF Parts, PastUnary
        <3>2. g.op = Dual(f.op) /\ g.arg = t[f.arg]
            BY <1>3, <2>6, MirrorArms DEF Unary
        <3>3. CASE f.op = "previous"
            <4>1. g.op = "next"
                BY <3>2, <3>3 DEF Dual
            <4>2. (i > 0 /\ e[<<f.arg, i, i - 1>>]) <=> (a < n /\ d[<<g.arg, a, a + 1>>])
                BY <1>1, <3>1, <3>2, MirrorPreviousMeans
            <4>3. Meaning(fd, w, e, f, i, j) <=> (i > 0 /\ e[<<f.arg, i, i - 1>>])
                BY <3>3, MeaningPrevious
            <4>4. Meaning(md, rw, d, g, a, b) <=> (a < n /\ d[<<g.arg, a, a + 1>>])
                BY <1>1, <4>1, MeaningNext
            <4> HIDE DEF a, b, n
            <4> QED BY <4>2, <4>3, <4>4
        <3>4. CASE f.op = "once"
            <4>1. g.op = "eventually"
                BY <3>2, <3>4 DEF Dual
            <4>2. (\E v \in 0..(i - 1) : e[<<f.arg, i, v>>]) <=> (\E v \in (a + 1)..n : d[<<g.arg, a, v>>])
                <5> DEFINE x == f.arg
                           y == g.arg
                <5>1. n \in Nat /\ Reflects(e, d, x, y, n)
                    BY <1>1, <3>1, <3>2
                <5> HIDE DEF x, y, n
                <5>2. (\E v \in 0..(i - 1) : e[<<x, i, v>>]) <=> (\E v \in (a + 1)..n : d[<<y, a, v>>])
                    BY <5>1, MirrorRangeMeans
                <5> QED BY <5>2 DEF x, y
            <4>3. Meaning(fd, w, e, f, i, j) <=> (\E v \in 0..(i - 1) : e[<<f.arg, i, v>>])
                BY <3>4, MeaningOnce
            <4>4. Meaning(md, rw, d, g, a, b) <=> (\E v \in (a + 1)..n : d[<<g.arg, a, v>>])
                BY <1>1, <4>1, MeaningEventually
            <4> HIDE DEF a, b, n
            <4> QED BY <4>2, <4>3, <4>4
        <3>5. CASE f.op = "historically"
            <4>1. g.op = "always"
                BY <3>2, <3>5 DEF Dual
            <4>2. (\A v \in 0..(i - 1) : e[<<f.arg, i, v>>]) <=> (\A v \in (a + 1)..n : d[<<g.arg, a, v>>])
                BY <1>1, <3>1, <3>2, MirrorRangeMeans
            <4>3. Meaning(fd, w, e, f, i, j) <=> (\A v \in 0..(i - 1) : e[<<f.arg, i, v>>])
                BY <3>5, MeaningHistorically
            <4>4. Meaning(md, rw, d, g, a, b) <=> (\A v \in (a + 1)..n : d[<<g.arg, a, v>>])
                BY <1>1, <4>1, MeaningAlways
            <4> HIDE DEF a, b, n
            <4> QED BY <4>2, <4>3, <4>4
        <3> QED BY <2>6, <3>3, <3>4, <3>5 DEF PastUnary
    <2>7. CASE f.op = "since"
        <3>1. Reflects(e, d, f.left, t[f.left], n) /\ Reflects(e, d, f.right, t[f.right], n)
            BY <2>7 DEF Parts
        <3>2. g.op = "until" /\ g.left = t[f.left] /\ g.right = t[f.right]
            BY <1>3, <2>7, MirrorArms DEF Binary, Dual
        <3>3. (\E v \in 0..(i - 1) : e[<<f.right, i, v>>] /\ \A c \in (v + 1)..(i - 1) : e[<<f.left, i, c>>])
                  <=> (\E v \in (a + 1)..n : d[<<g.right, a, v>>] /\ \A c \in (a + 1)..(v - 1) : d[<<g.left, a, c>>])
            <4> DEFINE x == f.left
                       y == g.left
                       u == f.right
                       z == g.right
            <4>1. n \in Nat /\ Reflects(e, d, x, y, n) /\ Reflects(e, d, u, z, n)
                BY <1>1, <3>1, <3>2
            <4> HIDE DEF x, y, u, z, n
            <4>2. (\E v \in 0..(i - 1) : e[<<u, i, v>>] /\ \A c \in (v + 1)..(i - 1) : e[<<x, i, c>>])
                  <=> (\E v \in (a + 1)..n : d[<<z, a, v>>] /\ \A c \in (a + 1)..(v - 1) : d[<<y, a, c>>])
                BY <4>1, MirrorSinceMeans
            <4> QED BY <4>2 DEF x, y, u, z
        <3>4. Meaning(fd, w, e, f, i, j)
                <=> (\E v \in 0..(i - 1) : e[<<f.right, i, v>>] /\ \A c \in (v + 1)..(i - 1) : e[<<f.left, i, c>>])
            BY <2>7, MeaningSince
        <3>5. Meaning(md, rw, d, g, a, b)
                <=> (\E v \in (a + 1)..n : d[<<g.right, a, v>>] /\ \A c \in (a + 1)..(v - 1) : d[<<g.left, a, c>>])
            BY <1>1, <3>2, MeaningUntil
        <3> HIDE DEF a, b, n
        <3> QED BY <3>3, <3>4, <3>5
    <2> QED BY <1>5, <2>1, <2>2, <2>3, <2>4, <2>5, <2>6, <2>7
<1> QED BY <1>4, <1>6

\* So all of them are: mirroring and reversing the word change nothing.
LEMMA MirrorKeepsMeaning ==
    ASSUME NEW fd, NEW md, NEW w, NEW rw, NEW e, NEW d, NEW t, MirrorPair(fd, md, w, rw, e, d, t)
    PROVE  \A f \in Met("past", DOMAIN fd.definition) : Reflects(e, d, f, t[f], Len(w))
<1> DEFINE N == DOMAIN fd.definition
           X == Met("past", N)
           S == {f \in X : Reflects(e, d, f, t[f], Len(w))}
<1>1. PICK m0 \in [Formulas(N, MaxHeight) -> Nat] :
                \A f \in Formulas(N, MaxHeight) :
                    /\ \A g \in Parts(f) : g \in Formulas(N, MaxHeight) /\ m0[g] < m0[f]
                    /\ f.op = "ref" => /\ fd.definition[f.name] \in Formulas(N, MaxHeight)
                                       /\ m0[fd.definition[f.name]] < m0[f]
    BY MaxHeightAssumption, CompilableShape, DagSizes DEF MirrorPair
<1>2. \A f \in X : /\ f \in Formulas(N, MaxHeight)
                   /\ \A g \in Parts(f) : g \in X
                   /\ f.op = "ref" => f.name \in N /\ fd.definition[f.name] \in X
    BY MetIn DEF MirrorPair
<1> DEFINE m == [f \in X |-> m0[f]]
<1>3. m \in [X -> Nat]
    BY <1>1, <1>2
<1>4. ASSUME NEW f \in X, \A g \in X : m[g] < m[f] => g \in S PROVE f \in S
    <2>1. \A g \in Parts(f) : g \in X /\ m[g] < m[f]
        BY <1>1, <1>2
    <2>2. \A g \in Parts(f) : Reflects(e, d, g, t[g], Len(w))
        BY <1>4, <2>1
    <2>3. f.op = "ref" => fd.definition[f.name] \in X /\ m[fd.definition[f.name]] < m[f]
        BY <1>1, <1>2
    <2>4. f.op = "ref" => Reflects(e, d, fd.definition[f.name], md.definition[f.name], Len(w))
        BY <1>2, <1>4, <2>3 DEF MirrorPair
    <2>5. Reflects(e, d, f, t[f], Len(w))
        BY <2>2, <2>4, MirrorMeans
    <2> QED BY <2>5
<1>5. X \subseteq S
    <2> HIDE DEF X, S, m
    <2> QED BY <1>3, <1>4, MeasureInduction
<1> QED BY <1>5

-----------------------------------------------------------------------------
(***************************************************************************)
(* Desugaring keeps the meaning, on the same word.                         *)
(***************************************************************************)

\* A future DAG and its desugared form, on one word.
DesugarPair(fd, dd, w, e, d, t) ==
    /\ Compilable(fd) /\ fd.logic = "future" /\ dd.logic = "future"
    /\ DOMAIN fd.definition \subseteq DOMAIN dd.definition
    /\ \A n \in DOMAIN fd.definition : dd.definition[n] = t[fd.definition[n]]
    /\ IsDesugar(t, DOMAIN fd.definition)
    /\ Len(w) \in Nat
    /\ IsTruth(fd, w, e) /\ IsTruth(dd, w, d)

\* f and g say the same, each of its own DAG.
Alike(e, d, f, g, n) == \A i, j \in 0..n : e[<<f, i, j>>] <=> d[<<g, i, j>>]

\* The formulas met are formulas of both DAGs.
LEMMA DesugaredIn ==
    ASSUME NEW fd, NEW dd, NEW w, NEW e, NEW d, NEW t, DesugarPair(fd, dd, w, e, d, t),
           NEW f \in Met("future", DOMAIN fd.definition)
    PROVE  /\ f \in FormulasOf(fd) /\ t[f] \in FormulasOf(dd)
           /\ \A g \in FormulasOf(dd) : \A p \in Parts(g) : p \in FormulasOf(dd)
           /\ t[f] = DesugarStep(t, f)
<1> DEFINE N == DOMAIN fd.definition
           h == MaxHeight + 1
<1>1. f \in FormulasOf(fd) /\ f \in Formulas(N, MaxHeight)
    BY MetIn DEF DesugarPair
<1>2. t[f] \in Bodies(N, {"letter", "eos"}, {}, {"until"}, h) \cup Operands(N, MaxHeight)
    BY DesugarTypes DEF DesugarPair, Met
<1>3. MaxHeight \in Nat /\ h \in Nat /\ MaxHeight <= h /\ h <= h
    BY MaxHeightAssumption
<1>4. Bodies(N, {"letter", "eos"}, {}, {"until"}, h) \subseteq Formulas(N, h)
    <2>1. {"letter", "eos"} \in SUBSET Kinds /\ {} \in SUBSET (PastUnary \cup FutureUnary)
        BY DEF Kinds
    <2> HIDE DEF h
    <2> QED BY <1>3, <2>1, BodiesIn
<1>5. Operands(N, MaxHeight) \subseteq Formulas(N, h)
    <2>1. Formulas(N, MaxHeight) \subseteq Formulas(N, h)
        <3> HIDE DEF h
        <3> QED BY <1>3, FormulasGrow
    <2> QED BY <1>3, <2>1, OperandsIn
<1>6. Formulas(N, h) \subseteq FormulasOf(dd)
    <2> HIDE DEF h
    <2>1. Formulas(N, h) \subseteq Formulas(DOMAIN dd.definition, h)
        BY <1>3, FormulasGrow DEF DesugarPair
    <2> QED BY <2>1 DEF FormulasOf, h
<1>7. \A g \in FormulasOf(dd) : \A p \in Parts(g) : p \in FormulasOf(dd)
    BY <1>3, FormulaShapes DEF FormulasOf
<1> QED BY <1>1, <1>2, <1>4, <1>5, <1>6, <1>7 DEF DesugarPair, IsDesugar

\* What the until operators that desugaring adds say.
LEMMA AddedUntil ==
    ASSUME NEW dd, NEW w, Len(w) \in Nat, NEW d, IsTruth(dd, w, d), NEW c \in BOOLEAN, NEW x,
           Binary("until", Const(c), x) \in FormulasOf(dd), Const(c) \in FormulasOf(dd),
           NEW i \in 0..Len(w), NEW j \in 0..Len(w)
    PROVE  d[<<Binary("until", Const(c), x), i, j>>]
                <=> \E v \in (i + 1)..Len(w) : d[<<x, i, v>>] /\ (c \/ v = i + 1)
<1> DEFINE g == Binary("until", Const(c), x)
           n == Len(w)
<1>1. \A b \in 0..n : d[<<Const(c), i, b>>] = c
    <2> SUFFICES ASSUME NEW b \in 0..n PROVE d[<<Const(c), i, b>>] = c
        OBVIOUS
    <2>1. d[<<Const(c), i, b>>] = Meaning(dd, w, d, Const(c), i, b)
        BY TruthOf DEF Positions
    <2>2. Const(c).op = "const" /\ Const(c).value = c
        BY DEF Const
    <2> QED BY <2>1, <2>2, MeaningConst
<1>2. d[<<g, i, j>>] = Meaning(dd, w, d, g, i, j)
    BY TruthOf DEF Positions
<1>3. g.op = "until" /\ g.left = Const(c) /\ g.right = x
    BY DEF Binary
<1>4. Meaning(dd, w, d, g, i, j) <=> \E v \in (i + 1)..n :
                d[<<x, i, v>>] /\ \A b \in (i + 1)..(v - 1) : d[<<Const(c), i, b>>]
    <2> HIDE DEF g
    <2> QED BY <1>3, MeaningUntil
<1>5. ASSUME NEW v \in (i + 1)..n
      PROVE  (\A b \in (i + 1)..(v - 1) : d[<<Const(c), i, b>>]) <=> (c \/ v = i + 1)
    <2>1. \A b \in (i + 1)..(v - 1) : b \in 0..n
        OBVIOUS
    <2>2. v # i + 1 => i + 1 \in (i + 1)..(v - 1)
        OBVIOUS
    <2>3. v = i + 1 => (i + 1)..(v - 1) = {}
        OBVIOUS
    <2> QED BY <1>1, <2>1, <2>2, <2>3
<1> HIDE DEF g
<1> QED BY <1>2, <1>4, <1>5 DEF g

\* A formula keeps its meaning when its operands do.
LEMMA DesugarMeans ==
    ASSUME NEW fd, NEW dd, NEW w, NEW e, NEW d, NEW t, DesugarPair(fd, dd, w, e, d, t),
           NEW f \in Met("future", DOMAIN fd.definition),
           \A g \in Parts(f) : Alike(e, d, g, t[g], Len(w)),
           f.op = "ref" => Alike(e, d, fd.definition[f.name], dd.definition[f.name], Len(w))
    PROVE  Alike(e, d, f, t[f], Len(w))
<1> DEFINE n == Len(w)
           g == t[f]
<1>1. n \in Nat /\ Positions(w) = 0..n
    BY DEF DesugarPair, Positions
<1> SUFFICES ASSUME NEW i \in 0..n, NEW j \in 0..n
             PROVE  e[<<f, i, j>>] <=> d[<<g, i, j>>]
    BY DEF Alike
<1>2. i \in Positions(w) /\ j \in Positions(w) /\ IsTruth(fd, w, e) /\ IsTruth(dd, w, d)
    BY <1>1 DEF DesugarPair
<1>3. /\ f \in FormulasOf(fd) /\ g \in FormulasOf(dd) /\ g = DesugarStep(t, f)
      /\ \A x \in FormulasOf(dd) : \A p \in Parts(x) : p \in FormulasOf(dd)
    BY DesugaredIn
<1>4. e[<<f, i, j>>] = Meaning(fd, w, e, f, i, j) /\ d[<<g, i, j>>] = Meaning(dd, w, d, g, i, j)
    <2> HIDE DEF g
    <2> QED BY <1>2, <1>3, TruthOf
<1>5. f.op \in {"const", "atom", "ref", "not", "and", "or", "until"} \cup FutureUnary
    BY MetIn DEF DesugarPair
<1> HIDE DEF g
<1>6. CASE f.op = "const"
    <2>1. g = f
        BY <1>3, <1>6, DesugarSame
    <2> QED BY <1>4, <1>6, <2>1, MeaningConst
<1>7. CASE f.op = "atom"
    <2>1. g = f
        BY <1>3, <1>7, DesugarSame
    <2>2. fd.logic = dd.logic
        BY DEF DesugarPair
    <2> QED BY <1>4, <1>7, <2>1, <2>2, MeaningAtom
<1>8. CASE f.op = "ref"
    <2>1. g = f
        BY <1>3, <1>8, DesugarSame
    <2> DEFINE x == fd.definition[f.name]
               y == dd.definition[f.name]
               p == Place(f.at, i, j)
    <2>2. Alike(e, d, x, y, n) /\ p \in 0..n
        BY <1>8 DEF Place
    <2>3. Meaning(fd, w, e, f, i, j) = e[<<x, p, j>>] /\ Meaning(dd, w, d, g, i, j) = d[<<y, p, j>>]
        BY <1>8, <2>1, MeaningRef
    <2> HIDE DEF x, y, p, n
    <2>4. e[<<x, p, j>>] <=> d[<<y, p, j>>]
        BY <2>2 DEF Alike
    <2> QED BY <1>4, <2>3, <2>4
<1>9. CASE f.op = "not"
    <2>1. Alike(e, d, f.arg, t[f.arg], n)
        BY <1>9 DEF Parts
    <2>2. g.op = "not" /\ g.arg = t[f.arg]
        BY <1>3, <1>9, DesugarNot DEF Not
    <2>3. e[<<f.arg, i, j>>] <=> d[<<g.arg, i, j>>]
        BY <2>1, <2>2 DEF Alike
    <2> QED BY <1>4, <1>9, <2>2, <2>3, MeaningNot
<1>10. CASE f.op \in {"and", "or"}
    <2>1. \A k \in DOMAIN f.args : Alike(e, d, f.args[k], t[f.args[k]], n)
        BY <1>10 DEF Parts
    <2>2. g.op = f.op /\ DOMAIN g.args = DOMAIN f.args /\ \A k \in DOMAIN f.args : g.args[k] = t[f.args[k]]
        <3>1. g = [f EXCEPT !.args = [k \in DOMAIN f.args |-> t[f.args[k]]]]
            BY <1>3, <1>10, DesugarMany
        <3>2. f = [op |-> f.op, args |-> f.args]
            BY <1>3, <1>10, MaxHeightAssumption, OperatorCases DEF FormulasOf, PastUnary, FutureUnary
        <3> QED BY <3>1, <3>2
    <2>3. \A k \in DOMAIN f.args : e[<<f.args[k], i, j>>] <=> d[<<g.args[k], i, j>>]
        BY <2>1, <2>2 DEF Alike
    <2>4. CASE f.op = "and"
        <3>1. Meaning(fd, w, e, f, i, j) <=> \A k \in DOMAIN f.args : e[<<f.args[k], i, j>>]
            BY <2>4, MeaningAnd
        <3>2. Meaning(dd, w, d, g, i, j) <=> \A k \in DOMAIN g.args : d[<<g.args[k], i, j>>]
            BY <2>2, <2>4, MeaningAnd
        <3> QED BY <1>4, <2>2, <2>3, <3>1, <3>2
    <2>5. CASE f.op = "or"
        <3>1. Meaning(fd, w, e, f, i, j) <=> \E k \in DOMAIN f.args : e[<<f.args[k], i, j>>]
            BY <2>5, MeaningOr
        <3>2. Meaning(dd, w, d, g, i, j) <=> \E k \in DOMAIN g.args : d[<<g.args[k], i, j>>]
            BY <2>2, <2>5, MeaningOr
        <3> QED BY <1>4, <2>2, <2>3, <3>1, <3>2
    <2> QED BY <1>10, <2>4, <2>5
<1>11. CASE f.op \in FutureUnary
    <2> DEFINE x == f.arg
               y == t[f.arg]
    <2>1. Alike(e, d, x, y, n)
        BY <1>11 DEF Parts, FutureUnary
    <2>2. \A v \in 0..n : e[<<x, i, v>>] <=> d[<<y, i, v>>]
        BY <2>1 DEF Alike
    <2>3. ASSUME NEW c \in BOOLEAN, NEW z, Binary("until", Const(c), z) \in FormulasOf(dd)
          PROVE  /\ z \in FormulasOf(dd)
                 /\ \A u \in 0..n : d[<<Binary("until", Const(c), z), i, u>>]
                        <=> \E v \in (i + 1)..n : d[<<z, i, v>>] /\ (c \/ v = i + 1)
        <3>1. Parts(Binary("until", Const(c), z)) = {Const(c), z}
            BY DEF Parts, Binary
        <3>2. Const(c) \in FormulasOf(dd) /\ z \in FormulasOf(dd)
            BY <1>3, <2>3, <3>1
        <3> QED BY <1>1, <1>2, <2>3, <3>2, AddedUntil
    <2>4. CASE f.op = "next"
        <3>1. g = Binary("until", Const(FALSE), y)
            BY <1>3, <2>4, DesugarNext
        <3>2. d[<<g, i, j>>] <=> \E v \in (i + 1)..n : d[<<y, i, v>>] /\ v = i + 1
            BY <1>3, <2>3, <3>1
        <3>3. Meaning(fd, w, e, f, i, j) <=> (i < n /\ e[<<x, i, i + 1>>])
            BY <2>4, MeaningNext
        <3>4. i < n <=> i + 1 \in (i + 1)..n
            BY <1>1
        <3>5. i < n => i + 1 \in 0..n
            BY <1>1
        <3> HIDE DEF x, y, n
        <3> QED BY <1>4, <2>2, <3>2, <3>3, <3>4, <3>5
    <2>5. CASE f.op = "eventually"
        <3>1. g = Binary("until", Const(TRUE), y)
            BY <1>3, <2>5, DesugarEventually
        <3>2. d[<<g, i, j>>] <=> \E v \in (i + 1)..n : d[<<y, i, v>>]
            BY <1>3, <2>3, <3>1
        <3>3. Meaning(fd, w, e, f, i, j) <=> \E v \in (i + 1)..n : e[<<x, i, v>>]
            BY <2>5, MeaningEventually
        <3>4. \A v \in (i + 1)..n : v \in 0..n
            BY <1>1
        <3> HIDE DEF x, y, n
        <3> QED BY <1>4, <2>2, <3>2, <3>3, <3>4
    <2>6. CASE f.op = "always"
        <3> DEFINE u == Binary("until", Const(TRUE), Not(y))
        <3>1. g = Not(u)
            BY <1>3, <2>6, DesugarAlways
        <3>2. u \in FormulasOf(dd)
            <4>1. Parts(g) = {u}
                <5> HIDE DEF u
                <5> QED BY <3>1 DEF Parts, Not
            <4> QED BY <1>3, <4>1
        <3>3. Not(y) \in FormulasOf(dd) /\ (d[<<u, i, j>>] <=> \E v \in (i + 1)..n : d[<<Not(y), i, v>>])
            BY <2>3, <3>2
        <3>4. d[<<g, i, j>>] <=> ~d[<<u, i, j>>]
            <4>1. g.op = "not" /\ g.arg = u
                BY <3>1 DEF Not
            <4> HIDE DEF u
            <4> QED BY <1>4, <4>1, MeaningNot
        <3>5. \A v \in 0..n : d[<<Not(y), i, v>>] <=> ~d[<<y, i, v>>]
            <4> SUFFICES ASSUME NEW v \in 0..n PROVE d[<<Not(y), i, v>>] <=> ~d[<<y, i, v>>]
                OBVIOUS
            <4>1. d[<<Not(y), i, v>>] = Meaning(dd, w, d, Not(y), i, v)
                BY <1>1, <1>2, <3>3, TruthOf
            <4>2. Not(y).op = "not" /\ Not(y).arg = y
                BY DEF Not
            <4> QED BY <4>1, <4>2, MeaningNot
        <3>6. Meaning(fd, w, e, f, i, j) <=> \A v \in (i + 1)..n : e[<<x, i, v>>]
            BY <2>6, MeaningAlways
        <3>7. \A v \in (i + 1)..n : v \in 0..n
            BY <1>1
        <3> HIDE DEF x, y, n, u
        <3> QED BY <1>4, <2>2, <3>3, <3>4, <3>5, <3>6, <3>7
    <2> QED BY <1>11, <2>4, <2>5, <2>6 DEF FutureUnary
<1>12. CASE f.op = "until"
    <2> DEFINE x == f.left
               y == t[f.left]
               u == f.right
               z == t[f.right]
    <2>1. Alike(e, d, x, y, n) /\ Alike(e, d, u, z, n)
        BY <1>12 DEF Parts
    <2>2. g.op = "until" /\ g.left = y /\ g.right = z
        BY <1>3, <1>12, DesugarUntil DEF Binary
    <2>3. Meaning(fd, w, e, f, i, j)
            <=> \E v \in (i + 1)..n : e[<<u, i, v>>] /\ \A b \in (i + 1)..(v - 1) : e[<<x, i, b>>]
        BY <1>12, MeaningUntil
    <2>4. Meaning(dd, w, d, g, i, j)
            <=> \E v \in (i + 1)..n : d[<<z, i, v>>] /\ \A b \in (i + 1)..(v - 1) : d[<<y, i, b>>]
        BY <2>2, MeaningUntil
    <2>5. \A v \in (i + 1)..n : v \in 0..n /\ \A b \in (i + 1)..(v - 1) : b \in 0..n
        BY <1>1
    <2>6. \A v \in 0..n : (e[<<x, i, v>>] <=> d[<<y, i, v>>]) /\ (e[<<u, i, v>>] <=> d[<<z, i, v>>])
        BY <2>1 DEF Alike
    <2> HIDE DEF x, y, u, z, n
    <2> QED BY <1>4, <2>3, <2>4, <2>5, <2>6
<1> QED BY <1>5, <1>6, <1>7, <1>8, <1>9, <1>10, <1>11, <1>12

\* So all of them do: desugaring changes nothing.
LEMMA DesugarKeepsMeaning ==
    ASSUME NEW fd, NEW dd, NEW w, NEW e, NEW d, NEW t, DesugarPair(fd, dd, w, e, d, t)
    PROVE  \A f \in Met("future", DOMAIN fd.definition) : Alike(e, d, f, t[f], Len(w))
<1> DEFINE N == DOMAIN fd.definition
           X == Met("future", N)
           S == {f \in X : Alike(e, d, f, t[f], Len(w))}
<1>1. PICK m0 \in [Formulas(N, MaxHeight) -> Nat] :
                \A f \in Formulas(N, MaxHeight) :
                    /\ \A g \in Parts(f) : g \in Formulas(N, MaxHeight) /\ m0[g] < m0[f]
                    /\ f.op = "ref" => /\ fd.definition[f.name] \in Formulas(N, MaxHeight)
                                       /\ m0[fd.definition[f.name]] < m0[f]
    BY MaxHeightAssumption, CompilableShape, DagSizes DEF DesugarPair
<1>2. \A f \in X : /\ f \in Formulas(N, MaxHeight)
                   /\ \A g \in Parts(f) : g \in X
                   /\ f.op = "ref" => f.name \in N /\ fd.definition[f.name] \in X
    BY MetIn DEF DesugarPair
<1> DEFINE m == [f \in X |-> m0[f]]
<1>3. m \in [X -> Nat]
    BY <1>1, <1>2
<1>4. ASSUME NEW f \in X, \A g \in X : m[g] < m[f] => g \in S PROVE f \in S
    <2>1. \A g \in Parts(f) : g \in X /\ m[g] < m[f]
        BY <1>1, <1>2
    <2>2. \A g \in Parts(f) : Alike(e, d, g, t[g], Len(w))
        BY <1>4, <2>1
    <2>3. f.op = "ref" => fd.definition[f.name] \in X /\ m[fd.definition[f.name]] < m[f]
        BY <1>1, <1>2
    <2>4. f.op = "ref" => Alike(e, d, fd.definition[f.name], dd.definition[f.name], Len(w))
        BY <1>2, <1>4, <2>3 DEF DesugarPair
    <2>5. Alike(e, d, f, t[f], Len(w))
        BY <2>2, <2>4, DesugarMeans
    <2> QED BY <2>5
<1>5. X \subseteq S
    <2> HIDE DEF X, S, m
    <2> QED BY <1>3, <1>4, MeasureInduction
<1> QED BY <1>5

-----------------------------------------------------------------------------
(***************************************************************************)
(* So the two steps of the front end are right.                            *)
(***************************************************************************)

\* rw is the word w read backwards.
IsReverse(rw, w) == Len(w) \in Nat /\ Len(rw) = Len(w) /\ \A k \in 1..Len(w) : rw[k] = w[Len(w) + 1 - k]

\* Mirroring a past DAG gives a future DAG that compiles.
LEMMA MirrorCompiles ==
    ASSUME NEW dg, Compilable(dg), dg.logic = "past",
           NEW t, \A f : Mirror(DOMAIN dg.definition, f) = t[f], IsMirror(t, DOMAIN dg.definition)
    PROVE  /\ Compilable(MirrorDag(dg)) /\ MirrorDag(dg).logic = "future"
           /\ DOMAIN MirrorDag(dg).definition = DOMAIN dg.definition
           /\ \A n \in DOMAIN dg.definition : MirrorDag(dg).definition[n] = t[dg.definition[n]]
           /\ MirrorDag(dg).output = t[dg.output]
<1> DEFINE N == DOMAIN dg.definition
           md == MirrorDag(dg)
           D == [n \in N |-> t[dg.definition[n]]]
<1>1. md = [logic |-> "future", names |-> dg.names, definition |-> D, output |-> t[dg.output]]
    <2>1. dg = [logic |-> dg.logic, names |-> dg.names, definition |-> dg.definition, output |-> dg.output]
        BY DEF Compilable
    <2>2. md = [dg EXCEPT !.logic = "future", !.definition = [n \in N |-> Mirror(N, dg.definition[n])],
                          !.output = Mirror(N, dg.output)]
        BY DEF MirrorDag
    <2>3. [n \in N |-> Mirror(N, dg.definition[n])] = D /\ Mirror(N, dg.output) = t[dg.output]
        OBVIOUS
    <2> HIDE DEF D, md
    <2> QED BY <2>1, <2>2, <2>3
<1>2. N = Range(dg.names) /\ dg.output \in Accepted("past", N)
    BY CompilableShape
<1>3. \A k \in DOMAIN dg.names : Before(dg, k) \subseteq N /\ dg.names[k] \in N
    <2> SUFFICES ASSUME NEW k \in 1..Len(dg.names) PROVE Before(dg, k) \subseteq N /\ dg.names[k] \in N
        BY CompilableShape
    <2>1. N = {dg.names[j] : j \in 1..Len(dg.names)} /\ Len(dg.names) \in Nat
        BY <1>2, CompilableShape DEF Range
    <2> QED BY <2>1 DEF Before
<1>4. t[dg.output] \in Accepted("future", N)
    BY <1>2, MirrorTypes
<1>5. \A k \in DOMAIN dg.names : /\ dg.names[k] \in N
                                   /\ t[dg.definition[dg.names[k]]] \in Accepted("future", Before(dg, k))
    <2> HIDE DEF N, D, md
    <2> SUFFICES ASSUME NEW k \in DOMAIN dg.names
                 PROVE  t[dg.definition[dg.names[k]]] \in Accepted("future", Before(dg, k))
        BY Zenon, <1>3
    <2>1. dg.definition[dg.names[k]] \in Accepted("past", Before(dg, k))
        BY CompilableShape
    <2> QED BY <1>1, <1>3, <2>1, MirrorTypes DEF N
<1>6. dg.names \in Seq(STRING) /\ OutputName \notin Range(dg.names) /\ \A j, k \in DOMAIN dg.names : dg.names[j] = dg.names[k] => j = k
    BY DEF Compilable
<1> HIDE DEF md
<1>7. md.logic = "future" /\ md.names = dg.names /\ md.definition = D /\ md.output = t[dg.output]
    BY <1>1
<1>8. DOMAIN D = N /\ \A n \in N : D[n] = t[dg.definition[n]]
    OBVIOUS
<1> HIDE DEF D, N
<1>9. \A k \in DOMAIN md.names : md.definition[md.names[k]] \in Accepted("future", {md.names[j] : j \in 1..(k - 1)})
    BY <1>5, <1>7, <1>8 DEF Before
<1>10. Compilable(md)
    BY <1>1, <1>2, <1>4, <1>6, <1>7, <1>8, <1>9 DEF Compilable
<1> QED BY <1>7, <1>8, <1>10 DEF md, N

\* Mirroring a past DAG that compiles gives a future DAG that compiles, and
\* one that holds of the reversed word exactly when the past DAG holds of the
\* word: what Ltl.scala promises of mirror.
THEOREM MirrorEvaluates ==
    ASSUME NEW dg, Compilable(dg), dg.logic = "past"
    PROVE  /\ Compilable(MirrorDag(dg)) /\ MirrorDag(dg).logic = "future"
           /\ \A w, rw : IsReverse(rw, w) => (Evaluate(dg, w) <=> Evaluate(MirrorDag(dg), rw))
<1> DEFINE N == DOMAIN dg.definition
           md == MirrorDag(dg)
<1>1. PICK t : (\A f : Mirror(N, f) = t[f]) /\ IsMirror(t, N)
    BY MirrorIs DEF IsMirror
<1>2. /\ Compilable(md) /\ md.logic = "future" /\ DOMAIN md.definition = N
      /\ \A n \in N : md.definition[n] = t[dg.definition[n]]
      /\ md.output = t[dg.output]
    BY <1>1, MirrorCompiles
<1> HIDE DEF md
<1>3. ASSUME NEW w, NEW rw, IsReverse(rw, w)
      PROVE  Evaluate(dg, w) <=> Evaluate(md, rw)
    <2> DEFINE n == Len(w)
    <2>1. n \in Nat /\ Len(rw) = n /\ \A k \in 1..n : rw[k] = w[n + 1 - k]
        BY <1>3 DEF IsReverse
    <2>2. PICK e : IsTruth(dg, w, e) /\ \A f, i, j : Eval(dg, f, w, i, j) = e[<<f, i, j>>]
        BY <2>1, CompilableShape, EvalIsTruth
    <2>3. PICK d : IsTruth(md, rw, d) /\ \A f, i, j : Eval(md, f, rw, i, j) = d[<<f, i, j>>]
        BY <1>2, <2>1, CompilableShape, EvalIsTruth
    <2>4. MirrorPair(dg, md, w, rw, e, d, t)
        BY <1>1, <1>2, <2>1, <2>2, <2>3 DEF MirrorPair
    <2>5. dg.output \in Met("past", N)
        BY CompilableShape DEF Met
    <2>6. Reflects(e, d, dg.output, md.output, n)
        BY <1>2, <2>4, <2>5, MirrorKeepsMeaning
    <2>7. e[<<dg.output, n, n>>] <=> d[<<md.output, n - n, n - n>>]
        <3>1. n \in 0..n
            BY <2>1
        <3> QED BY <2>6, <3>1 DEF Reflects
    <2>8. n - n = 0
        BY <2>1
    <2>9. Evaluate(dg, w) = e[<<dg.output, n, n>>]
        BY <2>2 DEF Evaluate
    <2>10. Evaluate(md, rw) = d[<<md.output, 0, 0>>]
        BY <1>2, <2>3 DEF Evaluate
    <2> QED BY <2>7, <2>8, <2>9, <2>10
<1> QED BY <1>2, <1>3 DEF md

\* What AutomatonOf compiles: desugared definitions and a named output.
IsDesugared(dd) ==
    /\ dd.logic = "future"
    /\ Len(dd.names) \in Nat /\ DOMAIN dd.names = 1..Len(dd.names)
    /\ \A j, k \in 1..Len(dd.names) : dd.names[j] = dd.names[k] => j = k
    /\ DOMAIN dd.definition = Before(dd, Len(dd.names) + 1)
    /\ \A k \in 1..Len(dd.names) :
            dd.definition[dd.names[k]] \in Bodies(Before(dd, k), {"letter", "eos"}, {}, {"until"}, MaxHeight + 1)
    /\ dd.output.name \in DOMAIN dd.definition

\* Its definitions are over the names before them.
LEMMA DesugaredOrdered ==
    ASSUME NEW dd, IsDesugared(dd)
    PROVE  Ordered(dd, MaxHeight + 1)
<1>1. {"letter", "eos"} \in SUBSET Kinds /\ {} \in SUBSET (PastUnary \cup FutureUnary) /\ MaxHeight + 1 \in Nat
    BY MaxHeightAssumption DEF Kinds
<1>2. \A k \in 1..Len(dd.names) : dd.definition[dd.names[k]] \in Formulas(Before(dd, k), MaxHeight + 1)
    BY <1>1, BodiesIn DEF IsDesugared
<1> QED BY <1>2 DEF Ordered, IsDesugared

\* desugarFuture gives until-only definitions with a named output, whose value
\* at the first position is that of the DAG it is given.
THEOREM DesugarEvaluates ==
    ASSUME NEW fd, Compilable(fd), fd.logic = "future"
    PROVE  /\ IsDesugared(Desugared(fd))
           /\ \A w : Len(w) \in Nat =>
                (Evaluate(fd, w) <=> LET dd == Desugared(fd) IN Eval(dd, dd.definition[dd.output.name], w, 0, 0))
<1> DEFINE N == DOMAIN fd.definition
           K == Len(fd.names)
           named == fd.output.op = "ref"
           ns == IF named THEN fd.names ELSE Append(fd.names, OutputName)
           src(n) == IF n = OutputName THEN fd.output ELSE fd.definition[n]
           dd == Desugared(fd)
           h == MaxHeight + 1
           B(names) == Bodies(names, {"letter", "eos"}, {}, {"until"}, h)
<1>1. PICK t : (\A f : DesugarFuture(N, f) = t[f]) /\ IsDesugar(t, N)
    BY DesugarIs DEF IsDesugar
<1>2. /\ fd.names \in Seq(STRING) /\ OutputName \notin Range(fd.names)
      /\ \A j, k \in DOMAIN fd.names : fd.names[j] = fd.names[k] => j = k
    BY DEF Compilable
<1>3. /\ N = Range(fd.names) /\ DOMAIN fd.names = 1..K /\ K \in Nat /\ Range(fd.names) = Before(fd, K + 1)
      /\ \A n \in N : fd.definition[n] \in Accepted("future", N)
      /\ \A k \in 1..K : fd.definition[fd.names[k]] \in Accepted("future", Before(fd, k))
      /\ fd.output \in Accepted("future", N)
    BY CompilableShape
<1>4. /\ dd.logic = "future" /\ dd.names = ns
      /\ dd.definition = [n \in Range(ns) |-> DesugarFuture(N, src(n))]
      /\ dd.output = IF named THEN fd.output ELSE Ref(OutputName, "i")
    BY DEF Desugared
<1> HIDE DEF dd
<1>5. /\ \A k \in 1..K : ns[k] = fd.names[k]
      /\ named => Len(ns) = K /\ DOMAIN ns = 1..K
      /\ ~named => Len(ns) = K + 1 /\ DOMAIN ns = 1..(K + 1) /\ ns[K + 1] = OutputName
    BY <1>2, <1>3
<1> HIDE DEF ns
<1>6. \A k \in 1..(K + 1) : Before(dd, k) = Before(fd, k)
    <2> SUFFICES ASSUME NEW k \in 1..(K + 1) PROVE Before(dd, k) = Before(fd, k)
        OBVIOUS
    <2>1. \A j \in 1..(k - 1) : dd.names[j] = fd.names[j]
        BY <1>3, <1>4, <1>5
    <2> QED BY <2>1 DEF Before
<1>7. N \subseteq Range(ns) /\ (~named => OutputName \in Range(ns)) /\ Range(ns) \subseteq N \cup {OutputName}
    <2>1. \A k \in 1..K : ns[k] \in Range(ns) /\ fd.names[k] \in N
        BY <1>3, <1>5 DEF Range
    <2>2. N \subseteq Range(ns)
        BY <1>3, <1>5, <2>1 DEF Range
    <2>3. \A k \in DOMAIN ns : ns[k] \in N \cup {OutputName}
        BY <1>3, <1>5, <2>1
    <2> QED BY <1>3, <1>5, <2>2, <2>3 DEF Range
<1>8. \A n \in N : dd.definition[n] = t[fd.definition[n]]
    BY <1>1, <1>2, <1>3, <1>4, <1>7
<1>9. ~named => dd.definition[OutputName] = t[fd.output]
    BY <1>1, <1>4, <1>7
<1>10. \A k \in 1..K : t[fd.definition[fd.names[k]]] \in B(Before(dd, k))
    <2> SUFFICES ASSUME NEW k \in 1..K PROVE t[fd.definition[fd.names[k]]] \in B(Before(fd, k))
        BY <1>3, <1>6
    <2>1. Before(fd, k) \subseteq N
        BY <1>3 DEF Before
    <2> QED BY <1>1, <1>3, <2>1, DesugarTypes
<1>11. t[fd.output] \in B(N)
    BY <1>1, <1>3, DesugarTypes
<1>12. named => fd.output = Ref(fd.output.name, "i") /\ fd.output.name \in N
    <2> SUFFICES ASSUME named PROVE fd.output = Ref(fd.output.name, "i") /\ fd.output.name \in N
        OBVIOUS
    <2>1. fd.output \in Bodies(N, {"letter", "eos"}, FutureUnary, {"until"}, MaxHeight)
        BY <1>3 DEF Accepted
    <2>2. fd.output \in Anchored(N, {"letter", "eos"})
        <3>1. FutureUnary \in SUBSET (PastUnary \cup FutureUnary) /\ "ref" \notin FutureUnary
            BY DEF FutureUnary
        <3>2. fd.output.op = "ref" /\ {"until"} \in SUBSET {"since", "until"} /\ MaxHeight \in Nat
            BY MaxHeightAssumption
        <3> DEFINE F == FutureUnary
                   U == {"until"}
                   L == {"letter", "eos"}
                   f == fd.output
                   A == Bodies(N, L, F, U, MaxHeight)
        <3>3. f \in A /\ F \in SUBSET (PastUnary \cup FutureUnary) /\ "ref" \notin F
            BY <2>1, <3>1
        <3> HIDE DEF F, L, f, N
        <3>4. \/ f \in Anchored(N, L) /\ f.op \in {"const", "atom", "ref"}
              \/ f.op = "not"
              \/ f.op \in {"and", "or"}
              \/ f.op \in F
              \/ f.op \in U
            BY <3>2, <3>3, BodyShapes
        <3>5. f.op = "ref"
            BY <3>2 DEF f
        <3>6. f \in Anchored(N, L)
            BY <3>3, <3>4, <3>5
        <3> QED BY <3>6 DEF f, L
    <2> QED BY <2>2, AnchoredShapes
<1>13. \A k \in 1..Len(ns) : dd.definition[ns[k]] \in B(Before(dd, k))
    <2> SUFFICES ASSUME NEW k \in 1..Len(ns) PROVE dd.definition[ns[k]] \in B(Before(dd, k))
        OBVIOUS
    <2>1. CASE k \in 1..K
        <3>1. fd.names[k] \in N
            BY <1>3, <2>1 DEF Range
        <3> QED BY <1>5, <1>8, <1>10, <2>1, <3>1
    <2>2. CASE k \notin 1..K
        <3>1. ~named /\ k = K + 1
            BY <1>3, <1>5, <2>2
        <3>2. Before(dd, k) = N
            BY <1>3, <1>6, <3>1
        <3> QED BY <1>5, <1>9, <1>11, <3>1, <3>2
    <2> QED BY <2>1, <2>2
<1>14. \A j, k \in 1..Len(ns) : ns[j] = ns[k] => j = k
    <2>1. \A k \in 1..K : fd.names[k] # OutputName
        BY <1>2, <1>3 DEF Range
    <2>2. \A j, k \in 1..K : ns[j] = ns[k] => j = k
        BY <1>2, <1>3, <1>5
    <2>3. \A k \in 1..Len(ns) : k \notin 1..K => k = K + 1 /\ ns[k] = OutputName
        BY <1>3, <1>5
    <2>4. \A k \in 1..K : ns[k] # OutputName
        BY <1>5, <2>1
    <2> HIDE DEF ns
    <2> QED BY <2>2, <2>3, <2>4
<1>15. DOMAIN dd.definition = Before(dd, Len(ns) + 1)
    <2>1. DOMAIN dd.definition = {ns[k] : k \in DOMAIN ns}
        BY <1>4 DEF Range
    <2>2. DOMAIN ns = 1..Len(ns) /\ Len(ns) \in Nat
        BY <1>3, <1>5
    <2>3. (Len(ns) + 1) - 1 = Len(ns)
        BY <2>2
    <2> QED BY <1>4, <2>1, <2>2, <2>3 DEF Before
<1>16. dd.output.name \in DOMAIN dd.definition
    BY <1>4, <1>7, <1>12 DEF Ref
<1>17. IsDesugared(dd)
    <2>1. DOMAIN ns = 1..Len(ns) /\ Len(ns) \in Nat
        BY <1>3, <1>5
    <2> QED BY <1>4, <1>13, <1>14, <1>15, <1>16, <2>1 DEF IsDesugared
<1>18. ASSUME NEW w, Len(w) \in Nat
       PROVE  Evaluate(fd, w) <=> Eval(dd, dd.definition[dd.output.name], w, 0, 0)
    <2>1. PICK e : IsTruth(fd, w, e) /\ \A f, i, j : Eval(fd, f, w, i, j) = e[<<f, i, j>>]
        BY <1>18, CompilableShape, EvalIsTruth
    <2>2. PICK d : IsTruth(dd, w, d) /\ \A f, i, j : Eval(dd, f, w, i, j) = d[<<f, i, j>>]
        BY <1>4, <1>17, <1>18, DesugaredOrdered, EvalIsTruth
    <2>3. DesugarPair(fd, dd, w, e, d, t)
        BY <1>1, <1>4, <1>7, <1>8, <1>18, <2>1, <2>2 DEF DesugarPair
    <2>4. \A f \in Met("future", N) : Alike(e, d, f, t[f], Len(w))
        BY <2>3, DesugarKeepsMeaning
    <2>5. 0 \in 0..Len(w) /\ Len(w) \in Nat
        BY <1>18
    <2>6. \A f \in Met("future", N) : e[<<f, 0, 0>>] <=> d[<<t[f], 0, 0>>]
        BY <2>4, <2>5 DEF Alike
    <2>7. Evaluate(fd, w) = e[<<fd.output, 0, 0>>]
        BY <2>1 DEF Evaluate
    <2>8. CASE named
        <3> DEFINE m == fd.output.name
        <3>1. m \in N /\ fd.output = Ref(m, "i") /\ fd.definition[m] \in Met("future", N)
            BY <1>3, <1>12, <2>8 DEF Met
        <3>2. fd.output \in FormulasOf(fd)
            BY <1>3, MetIn DEF Met
        <3>3. e[<<fd.output, 0, 0>>] = Meaning(fd, w, e, fd.output, 0, 0)
            BY <2>1, <2>5, <3>2, TruthOf DEF Positions
        <3>4. Meaning(fd, w, e, fd.output, 0, 0) = e[<<fd.definition[m], 0, 0>>]
            <4>1. Place(fd.output.at, 0, 0) = 0
                BY DEF Place
            <4> QED BY <2>8, <4>1, MeaningRef
        <3>5. dd.definition[dd.output.name] = t[fd.definition[m]]
            BY <1>4, <1>8, <2>8, <3>1
        <3> DEFINE x == fd.definition[m]
        <3>6. e[<<x, 0, 0>>] <=> d[<<t[x], 0, 0>>]
            BY <2>6, <3>1
        <3>7. Evaluate(fd, w) = e[<<x, 0, 0>>]
            BY <2>7, <3>3, <3>4
        <3>8. Eval(dd, dd.definition[dd.output.name], w, 0, 0) = d[<<t[x], 0, 0>>]
            BY <2>2, <3>5
        <3> QED BY <3>6, <3>7, <3>8
    <2>9. CASE ~named
        <3>1. dd.definition[dd.output.name] = t[fd.output]
            BY <1>4, <1>9, <2>9 DEF Ref
        <3>2. fd.output \in Met("future", N)
            BY <1>3 DEF Met
        <3> DEFINE x == fd.output
        <3>3. e[<<x, 0, 0>>] <=> d[<<t[x], 0, 0>>]
            BY <2>6, <3>2
        <3>4. Eval(dd, dd.definition[dd.output.name], w, 0, 0) = d[<<t[x], 0, 0>>]
            BY <2>2, <3>1
        <3> QED BY <2>7, <3>3, <3>4
    <2> QED BY <2>8, <2>9
<1> QED BY <1>17, <1>18 DEF dd

===============================================================================
