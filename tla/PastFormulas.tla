------------------------------ MODULE PastFormulas ------------------------------
(***************************************************************************)
(* The Python formula generator's syntax (ltl2_generator/ast.py, pltl.py), *)
(* its evaluators (eval.py, pltl.py) and the elimination of the anchor     *)
(* variable (eliminate.py).                                                *)
(*                                                                         *)
(* A formula is a record of a sort and an op: sort "1" for the unary       *)
(* formulas of two-variable strict past LTL, "b" for its masks over anchor *)
(* i and witness j, "p" for one-variable past LTL.  Positions are 1..|w|;  *)
(* there is no position for BOS.  A symbol tested by Bit is a sequence of  *)
(* bits.                                                                   *)
(***************************************************************************)
EXTENDS Integers, Sequences, TLC
LOCAL INSTANCE SequencesExt
LOCAL INSTANCE FiniteSetsExt

Top(sort) == [sort |-> sort, op |-> "top"]
Bot(sort) == [sort |-> sort, op |-> "bot"]
BOS(sort) == [sort |-> sort, op |-> "bos"]
Letter(sort, symbol) == [sort |-> sort, op |-> "letter", symbol |-> symbol]
Bit(sort, index) == [sort |-> sort, op |-> "bit", index |-> index]
Not(sort, arg) == [sort |-> sort, op |-> "not", arg |-> arg]
And(sort, left, right) == [sort |-> sort, op |-> "and", left |-> left, right |-> right]
AtI(arg) == [sort |-> "b", op |-> "ati", arg |-> arg]
AtJ(arg) == [sort |-> "b", op |-> "atj", arg |-> arg]
Yst(sort, arg) == [sort |-> sort, op |-> "Y", arg |-> arg]
Once(sort, arg) == [sort |-> sort, op |-> "P", arg |-> arg]
Hist(sort, arg) == [sort |-> sort, op |-> "H", arg |-> arg]
Since(sort, left, right) == [sort |-> sort, op |-> "S", left |-> left, right |-> right]

Temporal == {"Y", "P", "H", "S"}

Children(f) ==
    CASE f.op \in {"not", "ati", "atj", "Y", "P", "H"} -> <<f.arg>>
      [] f.op \in {"and", "or", "S"} -> <<f.left, f.right>>
      [] OTHER -> <<>>

-----------------------------------------------------------------------------
\* The simplifying constructors; each of the three sorts has its own copy.

Negation(arg) ==
    CASE arg.op = "top" -> Bot(arg.sort)
      [] arg.op = "bot" -> Top(arg.sort)
      [] arg.op = "not" -> arg.arg
      [] OTHER -> Not(arg.sort, arg)

Conjunction(sort, args) ==
    LET flat == SelectSeq(args, LAMBDA f : f.op # "top")
    IN  CASE \E k \in DOMAIN args : args[k].op = "bot" -> Bot(sort)
          [] flat = <<>> -> Top(sort)
          [] OTHER -> FoldLeft(LAMBDA all, f : And(sort, all, f), flat[1], Tail(flat))

Disjunction(sort, args) ==
    Negation(Conjunction(sort, [k \in DOMAIN args |-> Negation(args[k])]))

not1(arg) == Negation(arg)
and1(args) == Conjunction("1", args)
or1(args) == Disjunction("1", args)
notb(arg) == Negation(arg)
andb(args) == Conjunction("b", args)
orb(args) == Disjunction("b", args)
pnot(arg) == Negation(arg)
pand(args) == Conjunction("p", args)
por(args) == Disjunction("p", args)

-----------------------------------------------------------------------------
\* Measures.

RECURSIVE Size(_), Subformulas(_)
Size(f) == 1 + FoldLeft(LAMBDA sum, child : sum + Size(child), 0, Children(f))

\* Postorder; equal nodes appear once.
Subformulas(f) ==
    LET Join(seen, g) == seen \o SelectSeq(Subformulas(g), LAMBDA h : h \notin ToSet(seen))
        below == FoldLeft(Join, <<>>, Children(f))
    IN  Append(below, f)

RECURSIVE HasSide(_, _), Depth(_, _)
\* _has_i, _has_j: some descendant, inner masks included, is read at the side.
HasSide(f, side) ==
    f.op = side \/ \E k \in DOMAIN Children(f) : HasSide(Children(f)[k], side)

\* The most operators of ops on a path: temporal_depth, and y_depth for {"Y"}.
Depth(f, ops) ==
    LET Deeper(most, child) == IF Depth(child, ops) > most THEN Depth(child, ops) ELSE most
    IN  FoldLeft(Deeper, 0, Children(f)) + IF f.op \in ops THEN 1 ELSE 0

-----------------------------------------------------------------------------
\* Evaluation.

AtomHolds(f, w, i) ==
    CASE f.op = "top" -> TRUE
      [] f.op = "bot" -> FALSE
      [] f.op = "bos" -> i = 1
      [] f.op = "letter" -> w[i] = f.symbol
      [] f.op = "bit" -> w[i][f.index + 1] = 1

Atoms == {"top", "bot", "bos", "letter", "bit"}

RECURSIVE Eval1(_, _, _), Eval2(_, _, _, _), EvalP(_, _, _)

Eval1(f, w, i) ==
    CASE f.op \in Atoms -> AtomHolds(f, w, i)
      [] f.op = "not" -> ~Eval1(f.arg, w, i)
      [] f.op = "and" -> Eval1(f.left, w, i) /\ Eval1(f.right, w, i)
      [] f.op = "Y" -> i > 1 /\ Eval2(f.arg, w, i, i - 1)
      [] f.op = "P" -> \E j \in 1..(i - 1) : Eval2(f.arg, w, i, j)
      [] f.op = "H" -> \A j \in 1..(i - 1) : Eval2(f.arg, w, i, j)
      [] f.op = "S" -> \E j \in 1..(i - 1) :
                            /\ Eval2(f.right, w, i, j)
                            /\ \A k \in (j + 1)..(i - 1) : Eval2(f.left, w, i, k)

Eval2(f, w, i, j) ==
    CASE f.op \in {"top", "bot"} -> AtomHolds(f, w, i)
      [] f.op = "not" -> ~Eval2(f.arg, w, i, j)
      [] f.op = "and" -> Eval2(f.left, w, i, j) /\ Eval2(f.right, w, i, j)
      [] f.op = "or" -> Eval2(f.left, w, i, j) \/ Eval2(f.right, w, i, j)
      [] f.op = "ati" -> Eval1(f.arg, w, i)
      [] f.op = "atj" -> Eval1(f.arg, w, j)

EvalP(f, w, i) ==
    CASE f.op \in Atoms -> AtomHolds(f, w, i)
      [] f.op = "not" -> ~EvalP(f.arg, w, i)
      [] f.op = "and" -> EvalP(f.left, w, i) /\ EvalP(f.right, w, i)
      [] f.op = "Y" -> i > 1 /\ EvalP(f.arg, w, i - 1)
      [] f.op = "P" -> \E j \in 1..(i - 1) : EvalP(f.arg, w, j)
      [] f.op = "H" -> \A j \in 1..(i - 1) : EvalP(f.arg, w, j)
      [] f.op = "S" -> \E j \in 1..(i - 1) :
                            /\ EvalP(f.right, w, j)
                            /\ \A k \in (j + 1)..(i - 1) : EvalP(f.left, w, k)

Accepts(f, w) == w # <<>> /\ Eval1(f, w, Len(w))

-----------------------------------------------------------------------------
\* Elimination of the anchor, operator by operator.

\* The members of a set in some order.
Listed(S) == FoldSet(LAMBDA x, all : Append(all, x), <<>>, S)

RECURSIVE INodes(_)
\* The unary formulas a mask reads at the anchor.
INodes(mask) ==
    CASE mask.op = "ati" -> {mask.arg}
      [] mask.op = "not" -> INodes(mask.arg)
      [] mask.op \in {"and", "or"} -> INodes(mask.left) \cup INodes(mask.right)
      [] OTHER -> {}

AllLetters(nodes) == nodes # {} /\ \A f \in nodes : f.op = "letter"

\* The types of an anchor: the consistent sets of nodes that hold there.  At
\* most one letter of several holds.
Types(nodes) ==
    IF AllLetters(nodes) THEN {{}} \cup {{f} : f \in nodes} ELSE SUBSET nodes

RECURSIVE U(_), Substitute(_, _)

\* The mask at the witness once the anchor has the type.
Substitute(mask, type) ==
    CASE mask.op = "top" -> Top("p")
      [] mask.op = "bot" -> Bot("p")
      [] mask.op = "not" -> pnot(Substitute(mask.arg, type))
      [] mask.op = "and" -> pand(<<Substitute(mask.left, type), Substitute(mask.right, type)>>)
      [] mask.op = "or" -> por(<<Substitute(mask.left, type), Substitute(mask.right, type)>>)
      [] mask.op = "ati" -> IF mask.arg \in type THEN Top("p") ELSE Bot("p")
      [] mask.op = "atj" -> U(mask.arg)

\* That the anchor has the type; a letter that holds settles the others.
TypeGuard(nodes, type) ==
    LET order == Listed(nodes)
    IN  IF AllLetters(nodes) /\ type # {} THEN U(CHOOSE f \in type : TRUE)
        ELSE pand([k \in DOMAIN order |-> IF order[k] \in type THEN U(order[k]) ELSE pnot(U(order[k]))])

U(f) ==
    LET nodes == UNION {INodes(m) : m \in ToSet(Children(f))}
        types == Listed(Types(nodes))
        Body(type) ==
            CASE f.op = "Y" -> Yst("p", Substitute(f.arg, type))
              [] f.op = "P" -> Once("p", Substitute(f.arg, type))
              [] f.op = "H" -> Hist("p", Substitute(f.arg, type))
              [] f.op = "S" -> Since("p", Substitute(f.left, type), Substitute(f.right, type))
    IN  CASE f.op \in Atoms -> [f EXCEPT !.sort = "p"]
          [] f.op = "not" -> pnot(U(f.arg))
          [] f.op = "and" -> pand(<<U(f.left), U(f.right)>>)
          [] f.op \in Temporal ->
                por([k \in DOMAIN types |-> pand(<<TypeGuard(nodes, types[k]), Body(types[k])>>)])

Eliminate(f) == U(f)

=============================================================================
