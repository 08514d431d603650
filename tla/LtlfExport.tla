------------------------------- MODULE LtlfExport -------------------------------
(***************************************************************************)
(* From a one-variable DAG to the solvers that decide it: the flat LTLf    *)
(* text of LtlfExport.scala, the shunting-yard parser and the NuSMV model  *)
(* of nusmv_baseline.py, the spelling of each solver in                    *)
(* ltlf_solver_baseline.py, and what a trace makes of a formula.           *)
(*                                                                         *)
(* A text is a sequence of tokens, without white space.  A parsed formula  *)
(* is a tree of records op, args; a proposition is a leaf.  A trace is a   *)
(* sequence of sets of propositions.                                       *)
(***************************************************************************)
EXTENDS TwoLtl, TLC
LOCAL INSTANCE SequencesExt
LOCAL INSTANCE FiniteSetsExt

CONSTANT Identifiers    \* the letters that can be written as they are

Joined(parts, separator) ==
    FoldLeft(LAMBDA text, part : IF text = <<>> THEN part ELSE text \o <<separator>> \o part,
             <<>>, parts)
Enclosed(tokens) == <<"(">> \o tokens \o <<")">>
Denied(tokens) == <<"!">> \o Enclosed(tokens)

-----------------------------------------------------------------------------
\* The export.

\* A letter stands for itself, or for its place; should two letters meet in
\* one name, all of them stand for their places.
PropositionNames(alphabet) ==
    LET positional == [k \in DOMAIN alphabet |-> "sym" \o ToString(k - 1)]
        preferred == [k \in DOMAIN alphabet |->
                        IF alphabet[k] \in Identifiers THEN alphabet[k] ELSE positional[k]]
    IN  IF IsInjective(preferred) THEN preferred ELSE positional

\* conjoin and disjoin.
Gathered(parts, separator, unit) ==
    CASE parts = <<>> -> <<unit>>
      [] Len(parts) = 1 -> parts[1]
      [] OTHER -> Enclosed(Joined(parts, separator))

Alive == <<"X">> \o Enclosed(<<"true">>)
AtEnd == Denied(Alive)
BosMarker == "bos_marker"

\* Exactly one symbol at every position but the last, none there, and at
\* least two positions.
AlphabetConstraint(names, usesBos) ==
    LET pairs == FlattenSeq([k \in DOMAIN names |->
                    [d \in 1..(Len(names) - k) |-> Denied(<<names[k], "&", names[k + d]>>)]])
        some == Gathered([k \in DOMAIN names |-> <<names[k]>>], "|", "false")
        none == Gathered([k \in DOMAIN names |-> Denied(<<names[k]>>)], "&", "true")
        Globally(guard, body) == <<"G">> \o Enclosed(Enclosed(guard) \o <<"->">> \o body)
        marker == <<BosMarker, "&", "X">> \o Enclosed(<<"G">> \o Enclosed(Denied(<<BosMarker>>)))
    IN  Gathered(<<Alive, Globally(Alive, Gathered(<<some>> \o pairs, "&", "true")), Globally(AtEnd, none)>>
                    \o IF usesBos THEN <<marker>> ELSE <<>>, "&", "true")

RECURSIVE OneVariable(_, _)
\* Is every atom, reference and operator at the current position's variable?
OneVariable(f, here) ==
    CASE f.op = "const" -> TRUE
      [] f.op \in {"atom", "ref"} -> f.at = here
      [] f.op = "not" -> OneVariable(f.arg, here)
      [] f.op \in {"and", "or"} -> \A k \in DOMAIN f.args : OneVariable(f.args[k], here)
      [] f.op \in FutureUnary -> here = "i" /\ OneVariable(f.arg, "j")
      [] f.op = "until" -> here = "i" /\ OneVariable(f.left, "j") /\ OneVariable(f.right, "j")

RECURSIVE RenderFormula(_, _, _)
\* Strict operators start after the current position: a strong next, and a
\* weak one before "always".
RenderFormula(dag, f, names) ==
    LET Text(g) == RenderFormula(dag, g, names)
        Parts == [k \in DOMAIN f.args |-> Text(f.args[k])]
        Spelled(letters) == Gathered(
            FlattenSeq([k \in DOMAIN dag.alphabet |->
                            IF dag.alphabet[k] \in letters THEN <<<<names[k]>>>> ELSE <<>>]), "|", "false")
    IN  CASE f.op = "const" -> <<IF f.value THEN "true" ELSE "false">>
          [] f.op = "atom" /\ f.kind = "letter" -> Spelled(f.letters)
          [] f.op = "atom" /\ f.kind = "eos" -> AtEnd
          [] f.op = "atom" /\ f.kind = "bos" -> <<BosMarker>>
          [] f.op = "ref" -> Text(dag.definition[f.name])
          [] f.op = "not" -> Denied(Text(f.arg))
          [] f.op = "and" -> IF f.args = <<>> THEN <<"true">> ELSE Enclosed(Joined(Parts, "&"))
          [] f.op = "or" -> IF f.args = <<>> THEN <<"false">> ELSE Enclosed(Joined(Parts, "|"))
          [] f.op = "next" -> <<"X">> \o Enclosed(Text(f.arg))
          [] f.op = "eventually" -> <<"X">> \o Enclosed(<<"F">> \o Enclosed(Text(f.arg)))
          [] f.op = "always" -> <<"N">> \o Enclosed(<<"G">> \o Enclosed(Text(f.arg)))
          [] f.op = "until" ->
                <<"X">> \o Enclosed(Enclosed(Text(f.left)) \o <<"U">> \o Enclosed(Text(f.right)))

\* render; "refused" stands for the exception.
ExportText(dag) ==
    LET names == PropositionNames(dag.alphabet)
        body == RenderFormula(dag, dag.output, names)
        exportable == /\ dag.logic = "future"
                      /\ OneVariable(dag.output, "i")
                      /\ \A n \in DOMAIN dag.definition : OneVariable(dag.definition[n], "i")
    IN  IF exportable
        THEN Gathered(<<AlphabetConstraint(names, Contains(body, BosMarker)), body>>, "&", "true")
        ELSE <<"refused">>

-----------------------------------------------------------------------------
\* The parser: operands and operators on two stacks.

UnaryOps == {"!", "X", "N", "F", "G"}
Precedence == ("->" :> 1) @@ ("|" :> 2) @@ ("&" :> 3) @@ ("U" :> 4) @@ ("R" :> 4)
BinaryOps == DOMAIN Precedence

Tree(op, args) == [op |-> op, args |-> args]
Malformed(stacks) == [stacks EXCEPT !.ok = FALSE]

\* Reduce the operator on top.
ReduceTop(stacks) ==
    LET op == stacks.operators[Len(stacks.operators)]
        below == Len(stacks.values) - IF op \in UnaryOps THEN 1 ELSE 2
    IN  IF below < 0 THEN Malformed(stacks)
        ELSE [stacks EXCEPT
                !.operators = Front(@),
                !.values = Append(SubSeq(@, 1, below), Tree(op, SubSeq(@, below + 1, Len(@))))]

RECURSIVE ReduceWhile(_, _)
ReduceWhile(stacks, binds) ==
    IF stacks.ok /\ stacks.operators # <<>> /\ stacks.operators[Len(stacks.operators)] \in binds
    THEN ReduceWhile(ReduceTop(stacks), binds)
    ELSE stacks

\* The operators that bind what precedes the token before the token does.
Binding(token) ==
    UnaryOps \cup {op \in BinaryOps :
        \/ Precedence[op] > Precedence[token]
        \/ Precedence[op] = Precedence[token] /\ token \notin {"->", "U", "R"}}

Shift(stacks, token) ==
    LET closed == ReduceWhile(stacks, UnaryOps \cup BinaryOps)
        reduced == ReduceWhile(stacks, Binding(token))
    IN  CASE stacks.expecting /\ token \in UnaryOps \cup {"("} ->
                [stacks EXCEPT !.operators = Append(@, token)]
          [] stacks.expecting /\ token \in BinaryOps \cup {")"} -> Malformed(stacks)
          [] stacks.expecting /\ token \notin UnaryOps \cup BinaryOps \cup {"(", ")"} ->
                [stacks EXCEPT !.values = Append(@, Tree(token, <<>>)), !.expecting = FALSE]
          [] ~stacks.expecting /\ token = ")" ->
                IF closed.operators = <<>> THEN Malformed(closed)
                ELSE [closed EXCEPT !.operators = Front(@)]
          [] ~stacks.expecting /\ token \in BinaryOps ->
                [reduced EXCEPT !.operators = Append(@, token), !.expecting = TRUE]
          [] OTHER -> Malformed(stacks)

\* parse: a tree, or the leaf "malformed" for a ValueError.
ParseText(tokens) ==
    LET start == [values |-> <<>>, operators |-> <<>>, expecting |-> TRUE, ok |-> TRUE]
        read == FoldLeft(LAMBDA s, token : IF s.ok THEN Shift(s, token) ELSE s, start, tokens)
        end == ReduceWhile(read, UnaryOps \cup BinaryOps)
    IN  IF read.ok /\ ~read.expecting /\ end.operators = <<>> /\ Len(end.values) = 1
        THEN end.values[1] ELSE Tree("malformed", <<>>)

-----------------------------------------------------------------------------
\* The encodings.

\* The p<k> a proposition becomes: in the order in which they first appear.
SmvNames(tokens) ==
    LET leaves == SelectSeq(tokens, LAMBDA t : t \notin UnaryOps \cup BinaryOps \cup {"(", ")", "true", "false"})
        FirstAt(p) == Min({k \in DOMAIN leaves : leaves[k] = p})
        Rank(p) == Cardinality({q \in ToSet(leaves) : FirstAt(q) < FirstAt(p)})
    IN  [p \in ToSet(leaves) |-> "p" \o ToString(Rank(p))]

Active == Tree("active", <<>>)
Inactive == Tree("!", <<Active>>)

RECURSIVE Relativised_StrongNext(_, _), Relativised(_, _)
\* Mutant: the weak next asks for a next position.
Relativised_StrongNext(tree, names) ==
    LET arg(k) == Relativised_StrongNext(tree.args[k], names)
        WhileActive(f) == Tree("|", <<Inactive, f>>)
        AndActive(f) == Tree("&", <<Active, f>>)
    IN  CASE tree.args = <<>> -> IF tree.op \in DOMAIN names THEN Tree(names[tree.op], <<>>) ELSE tree
          [] tree.op \in {"X", "N"} -> Tree("X", <<AndActive(arg(1))>>)
          [] tree.op = "F" -> Tree("F", <<AndActive(arg(1))>>)
          [] tree.op = "G" -> Tree("G", <<WhileActive(arg(1))>>)
          [] tree.op = "U" -> Tree("U", <<arg(1), AndActive(arg(2))>>)
          [] tree.op = "R" -> Tree("V", <<arg(1), WhileActive(arg(2))>>)
          [] OTHER -> [tree EXCEPT !.args = [k \in DOMAIN tree.args |-> arg(k)]]

\* Every temporal operator confined to the active prefix.
Relativised(tree, names) ==
    LET arg(k) == Relativised(tree.args[k], names)
        WhileActive(f) == Tree("|", <<Inactive, f>>)
        AndActive(f) == Tree("&", <<Active, f>>)
    IN  CASE tree.args = <<>> -> IF tree.op \in DOMAIN names THEN Tree(names[tree.op], <<>>) ELSE tree
          [] tree.op = "X" -> Tree("X", <<AndActive(arg(1))>>)
          [] tree.op = "N" -> Tree("X", <<WhileActive(arg(1))>>)
          [] tree.op = "F" -> Tree("F", <<AndActive(arg(1))>>)
          [] tree.op = "G" -> Tree("G", <<WhileActive(arg(1))>>)
          [] tree.op = "U" -> Tree("U", <<arg(1), AndActive(arg(2))>>)
          [] tree.op = "R" -> Tree("V", <<arg(1), WhileActive(arg(2))>>)
          [] OTHER -> [tree EXCEPT !.args = [k \in DOMAIN tree.args |-> arg(k)]]

\* The formula whose negation is the LTLSPEC: false there means nonempty.
ToSmv(tokens) ==
    Tree("&", <<Tree("F", <<Inactive>>), Relativised(ParseText(tokens), SmvNames(tokens))>>)

Spelling(solver) ==
    CASE solver = "black" -> ("N" :> "wX") @@ ("true" :> "True") @@ ("false" :> "False")
      [] solver \in {"lisa", "lydia"} -> ("X" :> "X[!]") @@ ("N" :> "X")
      [] solver \in {"aalta", "ltl2sat"} -> <<>>

Translate(tokens, solver) ==
    [k \in DOMAIN tokens |->
        IF tokens[k] \in DOMAIN Spelling(solver) THEN Spelling(solver)[tokens[k]] ELSE tokens[k]]

\* How a solver reads its own language: BLACK has wX, and a plain X is weak
\* in Lisa and Lydia, as in Spot.
Dialect(solver) ==
    CASE solver = "black" -> ("wX" :> "N") @@ ("True" :> "true") @@ ("False" :> "false")
      [] solver \in {"lisa", "lydia"} -> ("X[!]" :> "X") @@ ("X" :> "N")
      [] solver \in {"aalta", "ltl2sat"} -> <<>>

Understood(tokens, solver) ==
    ParseText([k \in DOMAIN tokens |->
        IF tokens[k] \in DOMAIN Dialect(solver) THEN Dialect(solver)[tokens[k]] ELSE tokens[k]])

-----------------------------------------------------------------------------
\* What a trace makes of a formula: the positions where it holds.  A finite
\* trace ends at its last position; an infinite word repeats it for ever.

RECURSIVE Holding(_, _, _)
Holding(tree, trace, infinite) ==
    LET n == Len(trace)
        arg(k) == Holding(tree.args[k], trace, infinite)
        Next(weak, held) == {p \in 1..n : IF p < n THEN p + 1 \in held
                                          ELSE IF infinite THEN n \in held ELSE weak}
    IN  CASE tree.op = "true" -> 1..n
          [] tree.op = "false" -> {}
          [] tree.op = "!" -> (1..n) \ arg(1)
          [] tree.op = "&" -> arg(1) \cap arg(2)
          [] tree.op = "|" -> arg(1) \cup arg(2)
          [] tree.op = "->" -> ((1..n) \ arg(1)) \cup arg(2)
          [] tree.op = "X" -> Next(FALSE, arg(1))
          [] tree.op = "N" -> Next(TRUE, arg(1))
          [] tree.op = "F" -> LET held == arg(1) IN {p \in 1..n : (p..n) \cap held # {}}
          [] tree.op = "G" -> LET held == arg(1) IN {p \in 1..n : p..n \subseteq held}
          [] tree.op = "U" -> LET left == arg(1) right == arg(2)
                              IN  {p \in 1..n : \E q \in (p..n) \cap right : p..(q - 1) \subseteq left}
          [] tree.op \in {"R", "V"} ->
                LET left == arg(1) right == arg(2)
                IN  {p \in 1..n : \A q \in p..n : q \in right \/ (p..(q - 1)) \cap left # {}}
          [] OTHER -> {p \in 1..n : tree.op \in trace[p]}

HoldsOn(tree, trace) == 1 \in Holding(tree, trace, FALSE)

\* The infinite words that have the trace as their active prefix; the
\* propositions of the tail are free.  Bound: the tail repeats one valuation.
WordsOf(trace, names) ==
    LET Renamed(valuation) == {names[p] : p \in valuation}
    IN  {[k \in 1..(Len(trace) + 1) |->
            IF k <= Len(trace) THEN Renamed(trace[k]) \cup {"active"} ELSE Renamed(tail)] :
                tail \in {{}, DOMAIN names}}

HoldsForEver(tree, word) == 1 \in Holding(tree, word, TRUE)

=============================================================================
