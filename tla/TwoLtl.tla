-------------------------------- MODULE TwoLtl --------------------------------
(***************************************************************************)
(* Strict two-variable LTL over finite words: the formulas and DAGs of     *)
(* Ltl.scala, their evaluation, and the exchange of past and future by     *)
(* word reversal (Ltl.mirrorDag).                                          *)
(*                                                                         *)
(* A formula is a record tagged by op.  A SymbolAtom and a BitAtom are     *)
(* both an atom of kind "letter" carrying the set of letters it matches.   *)
(* Every temporal operator has anchor i and witness j, the only pairing    *)
(* the parser and the compilers produce, and no temporal operator stands   *)
(* in an operand of another one: whoever takes a DAG refuses that          *)
(* (Pvwaa.predicate, LtlfExport).  A DAG is a sequence of named            *)
(* definitions and an output formula.                                      *)
(***************************************************************************)
EXTENDS Integers, Sequences

CONSTANT MaxHeight    \* bound on the Boolean operators above one another

ASSUME MaxHeightAssumption == MaxHeight \in Nat

Const(value) == [op |-> "const", value |-> value]
Letter(letters, at) == [op |-> "atom", kind |-> "letter", letters |-> letters, at |-> at]
Bos(at) == [op |-> "atom", kind |-> "bos", letters |-> {}, at |-> at]
Eos(at) == [op |-> "atom", kind |-> "eos", letters |-> {}, at |-> at]
Ref(name, at) == [op |-> "ref", name |-> name, at |-> at]
Not(f) == [op |-> "not", arg |-> f]
And(fs) == [op |-> "and", args |-> fs]
Or(fs) == [op |-> "or", args |-> fs]
Unary(op, f) == [op |-> op, arg |-> f]
Binary(op, l, r) == [op |-> op, left |-> l, right |-> r]

PastUnary == {"previous", "once", "historically"}
FutureUnary == {"next", "eventually", "always"}
Places == {"i", "j"}
Kinds == {"letter", "bos", "eos"}

\* The shapes of Formula.
Constants == [op : {"const"}, value : BOOLEAN]
Atoms(kinds, places) == [op : {"atom"}, kind : kinds, letters : SUBSET STRING, at : places]
Refs(names, places) == [op : {"ref"}, name : names, at : places]
Connectives(fs) == [op : {"not"}, arg : fs] \cup [op : {"and", "or"}, args : Seq(fs)]
Temporal(unary, binary, fs) == [op : unary, arg : fs] \cup [op : binary, left : fs, right : fs]

\* Boolean combinations, with at most height connectives above one another.
Combinations(leaves, height) ==
    LET upto[n \in 0..height] ==
            IF n = 0 THEN leaves ELSE LET below == upto[n - 1] IN below \cup Connectives(below)
    IN  upto[height]

\* The formulas over some names.
Leaves(names) == Constants \cup Atoms(Kinds, Places) \cup Refs(names, Places)
Formulas(names, height) ==
    Combinations(Leaves(names) \cup Temporal(PastUnary \cup FutureUnary, {"since", "until"},
                                             Combinations(Leaves(names), height)), height)

-----------------------------------------------------------------------------

\* symbolMatches: positional atoms match no letter.
SymbolMatches(atom, letter) == atom.kind = "letter" /\ letter \in atom.letters

\* Positions of a past formula are 0..|w| with BOS at 0, letters at 1..|w|;
\* those of a future formula are 0..|w| with letters at 0..|w|-1, EOS at |w|.
AtomValue(logic, atom, word, position) ==
    CASE atom.kind = "bos" -> position = 0
      [] atom.kind = "eos" -> position = Len(word)
      [] atom.kind = "letter" /\ logic = "past" ->
            position \in 1..Len(word) /\ SymbolMatches(atom, word[position])
      [] atom.kind = "letter" /\ logic = "future" ->
            position \in 0..(Len(word) - 1) /\ SymbolMatches(atom, word[position + 1])

\* What f says with the anchor at i and the witness at j, when eval is what
\* its operands and the definitions say.
Meaning(dag, word, eval, f, i, j) ==
    LET At(v) == IF v = "i" THEN i ELSE j
        Holds(g, w) == eval[<<g, i, w>>]
        Past == 0..(i - 1)
        Future == (i + 1)..Len(word)
    IN  CASE f.op = "const" -> f.value
          [] f.op = "atom" -> AtomValue(dag.logic, f, word, At(f.at))
          [] f.op = "ref" -> eval[<<dag.definition[f.name], At(f.at), j>>]
          [] f.op = "not" -> ~Holds(f.arg, j)
          [] f.op = "and" -> \A k \in DOMAIN f.args : Holds(f.args[k], j)
          [] f.op = "or" -> \E k \in DOMAIN f.args : Holds(f.args[k], j)
          [] f.op = "previous" -> i > 0 /\ Holds(f.arg, i - 1)
          [] f.op = "once" -> \E w \in Past : Holds(f.arg, w)
          [] f.op = "historically" -> \A w \in Past : Holds(f.arg, w)
          [] f.op = "since" ->
                \E w \in Past : Holds(f.right, w) /\ \A b \in (w + 1)..(i - 1) : Holds(f.left, b)
          [] f.op = "next" -> i < Len(word) /\ Holds(f.arg, i + 1)
          [] f.op = "eventually" -> \E w \in Future : Holds(f.arg, w)
          [] f.op = "always" -> \A w \in Future : Holds(f.arg, w)
          [] f.op = "until" ->
                \E w \in Future : Holds(f.right, w) /\ \A b \in (i + 1)..(w - 1) : Holds(f.left, b)

\* A formula under a valuation of the two variables.  One more than MaxHeight,
\* for what desugaring adds.
Valuations(dag, word) ==
    Formulas(DOMAIN dag.definition, MaxHeight + 1) \X (0..Len(word)) \X (0..Len(word))

\* evaluateFormula with the anchor at i and the witness at j.
Eval(dag, f, word, i, j) ==
    LET eval[x \in Valuations(dag, word)] == Meaning(dag, word, eval, x[1], x[2], x[3])
    IN  eval[<<f, i, j>>]

\* evaluate: a past sentence at |w|, a future sentence at 0.
Evaluate(dag, word) ==
    LET anchor == IF dag.logic = "past" THEN Len(word) ELSE 0
    IN  Eval(dag, dag.output, word, anchor, anchor)

-----------------------------------------------------------------------------

Dual(op) ==
    CASE op = "previous" -> "next" [] op = "next" -> "previous"
      [] op = "once" -> "eventually" [] op = "eventually" -> "once"
      [] op = "historically" -> "always" [] op = "always" -> "historically"
      [] op = "since" -> "until" [] op = "until" -> "since"
      [] op = "bos" -> "eos" [] op = "eos" -> "bos" [] op = "letter" -> "letter"

\* mirrorTC, when mirror is what becomes of the operands.
MirrorStep(mirror, f) ==
    CASE f.op \in {"const", "ref"} -> f
      [] f.op = "atom" -> [f EXCEPT !.kind = Dual(@)]
      [] f.op = "not" -> Not(mirror[f.arg])
      [] f.op \in {"and", "or"} -> [f EXCEPT !.args = [k \in DOMAIN f.args |-> mirror[f.args[k]]]]
      [] f.op \in PastUnary \cup FutureUnary -> Unary(Dual(f.op), mirror[f.arg])
      [] f.op \in {"since", "until"} -> Binary(Dual(f.op), mirror[f.left], mirror[f.right])

Mirror(names, f) ==
    LET mirror[g \in Formulas(names, MaxHeight)] == MirrorStep(mirror, g)
    IN  mirror[f]

\* mirrorDag and mirrorToPast differ only in which logic they start from.
MirrorDag(dag) ==
    LET names == DOMAIN dag.definition
    IN  [dag EXCEPT !.logic = IF @ = "past" THEN "future" ELSE "past",
                    !.definition = [n \in names |-> Mirror(names, dag.definition[n])],
                    !.output = Mirror(names, @)]

\* Translator.toFuture: mirror only what is not a future DAG already.
ToFuture(dag) == IF dag.logic = "future" THEN dag ELSE MirrorDag(dag)

-----------------------------------------------------------------------------
\* Formulas taken apart.

Unaries == PastUnary \cup FutureUnary
Binaries == {"since", "until"}
IsTemporal(f) == f.op \in Unaries \cup Binaries

\* operandsOf, and the operands of the connectives.
Arguments(f) ==
    CASE f.op \in Unaries \cup {"not"} -> <<f.arg>>
      [] f.op \in Binaries -> <<f.left, f.right>>
      [] f.op \in {"and", "or"} -> f.args
      [] OTHER -> <<>>

\* mapOperands, and the same for the connectives.
MapArguments(f, Becomes(_)) ==
    CASE f.op \in Unaries \cup {"not"} -> [f EXCEPT !.arg = Becomes(@)]
      [] f.op \in Binaries -> [f EXCEPT !.left = Becomes(@), !.right = Becomes(@)]
      [] f.op \in {"and", "or"} -> [f EXCEPT !.args = [k \in DOMAIN @ |-> Becomes(@[k])]]
      [] OTHER -> f

IsReference(f, at) == f.op = "ref" /\ f.at = at

\* The formulas whose definitions are among some names.
DagFormulas(names) == Formulas(names, MaxHeight)
Predicates(names) == Combinations(Leaves(names), MaxHeight)

=============================================================================
