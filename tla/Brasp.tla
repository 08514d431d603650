--------------------------------- MODULE Brasp ---------------------------------
(***************************************************************************)
(* B-RASP as the Python side writes, reads, prunes and evaluates it        *)
(* (uhat/brasp.py).                                                        *)
(*                                                                         *)
(* An expression and a subprogram are records tagged by op and kind; a     *)
(* name is the identifier the code builds for it.  A text is a sequence of *)
(* lines, a line a sequence of tokens: white space, comments and quoting   *)
(* are left out.  A column of truth values over positions 0..|w| is the    *)
(* set of positions where it is true; position 0 is BOS.                   *)
(***************************************************************************)
EXTENDS Integers, Sequences, TLC
LOCAL INSTANCE SequencesExt
LOCAL INSTANCE FiniteSetsExt

Const(value) == [op |-> "const", value |-> value]
Ref(name, at) == [op |-> "ref", name |-> name, at |-> at]
Not(arg) == [op |-> "not", arg |-> arg]
And(args) == [op |-> "and", args |-> args]
Or(args) == [op |-> "or", args |-> args]

Bos(name) == [kind |-> "bos", name |-> name]
Symbol(name, symbol) == [kind |-> "symbol", name |-> name, symbol |-> symbol]
BoolNode(name, expr) == [kind |-> "bool", name |-> name, expr |-> expr]
Attention(name, direction, score, value) ==
    [kind |-> "attention", name |-> name, direction |-> direction,
     score |-> score, value |-> value]
Program(subprograms, output, alphabet) ==
    [subprograms |-> subprograms, output |-> output, alphabet |-> alphabet]

Names(program) == {program.subprograms[k].name : k \in DOMAIN program.subprograms}

-----------------------------------------------------------------------------
\* The folding constructors.

\* The operands in order, one level of an inner node of the same kind spliced
\* in, constants dropped, and each kept once.
Flattened(operands, kind) ==
    LET Parts(e) == IF e.op = "const" THEN <<>> ELSE IF e.op = kind THEN e.args ELSE <<e>>
        AddNew(seen, e) == IF e \in ToSet(seen) THEN seen ELSE Append(seen, e)
    IN  FoldLeft(AddNew, <<>>, FlattenSeq([k \in DOMAIN operands |-> Parts(operands[k])]))

Fold(operands, kind, unit) ==
    LET unique == Flattened(operands, kind)
    IN  IF Const(~unit) \in ToSet(operands) THEN Const(~unit)
        ELSE CASE Len(unique) = 0 -> Const(unit)
               [] Len(unique) = 1 -> unique[1]
               [] OTHER -> [op |-> kind, args |-> unique]

\* A conjunction that holds a literal and its negation is false.
Conjunction(operands) ==
    LET unique == ToSet(Flattened(operands, "and"))
    IN  IF \E e \in unique : Not(e) \in unique THEN Const(FALSE)
        ELSE Fold(operands, "and", TRUE)

Disjunction(operands) == Fold(operands, "or", FALSE)

-----------------------------------------------------------------------------
\* References and pruning.

RECURSIVE References(_)
References(e) ==
    CASE e.op = "const" -> {}
      [] e.op = "ref" -> {e.name}
      [] e.op = "not" -> References(e.arg)
      [] OTHER -> UNION {References(e.args[k]) : k \in DOMAIN e.args}

SubprogramReferences(s) ==
    CASE s.kind = "bool" -> References(s.expr)
      [] s.kind = "attention" -> References(s.score) \cup References(s.value)
      [] OTHER -> {}

\* by_name: a later definition of a name replaces an earlier one.
ByName(program) ==
    [name \in Names(program) |->
        SelectLastInSubSeq(program.subprograms, 1, Len(program.subprograms),
                           LAMBDA s : s.name = name)]

RECURSIVE Live(_, _, _)
\* The worklist of prune: every name the frontier reaches.
Live(program, live, frontier) ==
    IF frontier = {} THEN live
    ELSE LET current == CHOOSE name \in frontier : TRUE
             subprogram == program.subprograms[ByName(program)[current]]
             new == SubprogramReferences(subprogram) \ live
         IN  Live(program, live \cup new, (frontier \ {current}) \cup new)

Prune(program) ==
    LET live == Live(program, {program.output}, {program.output})
    IN  [program EXCEPT !.subprograms = SelectSeq(@, LAMBDA s : s.name \in live)]

-----------------------------------------------------------------------------
\* Rendering.

Precedence(e) == CASE e.op = "or" -> 0 [] e.op = "and" -> 1 [] e.op = "not" -> 2 [] OTHER -> 3

Joined(parts, separator) ==
    FoldLeft(LAMBDA text, part : IF text = <<>> THEN part ELSE text \o <<separator>> \o part,
             <<>>, parts)

RECURSIVE RenderExpr(_, _, _)
RenderExpr(e, predicate, min) ==
    LET Args(below) == [k \in DOMAIN e.args |-> RenderExpr(e.args[k], predicate, below)]
        body == CASE e.op = "const" -> <<IF e.value THEN "true" ELSE "false">>
                  [] e.op = "ref" -> IF predicate THEN <<e.name, "@", e.at>> ELSE <<e.name>>
                  [] e.op = "not" -> <<"!">> \o RenderExpr(e.arg, predicate, 2)
                  [] e.op = "and" -> Joined(Args(2), "&")
                  [] e.op = "or" -> Joined(Args(1), "|")
    IN  IF Precedence(e) < min THEN <<"(">> \o body \o <<")">> ELSE body

RenderSubprogram(s) ==
    <<s.name, "=">> \o
    CASE s.kind = "bos" -> <<"bos">>
      [] s.kind = "symbol" -> <<"symbol", s.symbol>>
      [] s.kind = "bool" -> RenderExpr(s.expr, FALSE, 0)
      [] s.kind = "attention" ->
            <<s.direction, "(">> \o RenderExpr(s.score, TRUE, 0) \o <<",">>
                \o RenderExpr(s.value, TRUE, 0) \o <<")">>

Render(program) ==
    <<<<"alphabet">> \o program.alphabet>>
        \o [k \in DOMAIN program.subprograms |-> RenderSubprogram(program.subprograms[k])]
        \o <<<<"output", program.output>>>>

-----------------------------------------------------------------------------
\* Parsing, by recursive descent.  A parser answers the expression and the
\* rest of the line; a failure leaves the token "error", which no parser takes,
\* so that the line ends with unexpected trailing text.

Failure == [expr |-> Const(FALSE), rest |-> <<"error">>]
Starts(tokens, token) == tokens # <<>> /\ Head(tokens) = token
Punctuation == {"(", ")", ",", "!", "&", "|", "@", "=", "error"}

Splice(operands, operand, kind) ==
    IF operand.op = kind THEN operands \o operand.args ELSE Append(operands, operand)

NaryNode(operands, kind) ==
    IF Len(operands) = 1 THEN operands[1] ELSE [op |-> kind, args |-> operands]

\* Mutant: a side is read but every name is taken at the query.
ParseReference_AtQuery(tokens, predicate) ==
    LET name == Head(tokens)
        after == Tail(tokens)
    IN  CASE name = "true" -> [expr |-> Const(TRUE), rest |-> after]
          [] name = "false" -> [expr |-> Const(FALSE), rest |-> after]
          [] name \notin {"true", "false"} /\ ~Starts(after, "@") ->
                [expr |-> Ref(name, "i"), rest |-> after]
          [] OTHER ->
                IF predicate /\ Len(after) > 1 /\ after[2] \in {"i", "j"}
                THEN [expr |-> Ref(name, "i"), rest |-> Tail(Tail(after))]
                ELSE Failure

ParseReference(tokens, predicate) ==
    LET name == Head(tokens)
        after == Tail(tokens)
    IN  CASE name = "true" -> [expr |-> Const(TRUE), rest |-> after]
          [] name = "false" -> [expr |-> Const(FALSE), rest |-> after]
          [] name \notin {"true", "false"} /\ ~Starts(after, "@") ->
                [expr |-> Ref(name, "i"), rest |-> after]
          [] OTHER ->
                IF predicate /\ Len(after) > 1 /\ after[2] \in {"i", "j"}
                THEN [expr |-> Ref(name, after[2]), rest |-> Tail(Tail(after))]
                ELSE Failure

RECURSIVE ParseChain(_, _, _, _), ParseOperand(_, _, _)

\* One or more operands of an "or" or an "and" node, joined by its separator.
ParseChain(kind, operands, tokens, predicate) ==
    LET next == ParseOperand(kind, tokens, predicate)
        all == Splice(operands, next.expr, kind)
    IN  IF Starts(next.rest, IF kind = "or" THEN "|" ELSE "&")
        THEN ParseChain(kind, all, Tail(next.rest), predicate)
        ELSE [expr |-> NaryNode(all, kind), rest |-> next.rest]

\* _and below an "or"; _not and _atom below an "and".
ParseOperand(kind, tokens, predicate) ==
    CASE kind = "or" -> ParseChain("and", <<>>, tokens, predicate)
      [] kind = "and" /\ tokens = <<>> -> Failure
      [] kind = "and" /\ Starts(tokens, "!") ->
            LET inner == ParseOperand("and", Tail(tokens), predicate)
            IN  [inner EXCEPT !.expr = Not(inner.expr)]
      [] kind = "and" /\ Starts(tokens, "(") ->
            LET inner == ParseChain("or", <<>>, Tail(tokens), predicate)
            IN  IF Starts(inner.rest, ")") THEN [inner EXCEPT !.rest = Tail(inner.rest)]
                ELSE Failure
      [] OTHER ->
            IF Head(tokens) \in Punctuation THEN Failure ELSE ParseReference(tokens, predicate)

ParseExpr(tokens, predicate) == ParseChain("or", <<>>, tokens, predicate)

\* A definition: the subprogram, or "error" when the line does not parse to
\* its end.
Definition(name, tokens) ==
    LET leading == IF tokens = <<>> THEN "error" ELSE Head(tokens)
        body == Tail(tokens)
        score == ParseExpr(Tail(body), TRUE)
        value == ParseExpr(Tail(score.rest), TRUE)
        whole == ParseExpr(tokens, FALSE)
        Unless(bad, s) == IF bad THEN [kind |-> "error", name |-> name] ELSE s
    IN  CASE leading = "bos" -> Unless(body # <<>>, Bos(name))
          [] leading = "symbol" -> Unless(Len(body) # 1, Symbol(name, body[1]))
          [] leading = "const" ->
                Unless(body \notin {<<"true">>, <<"false">>}, BoolNode(name, Const(body = <<"true">>)))
          [] leading \in {"rightmost", "leftmost"} ->
                Unless(\/ ~Starts(body, "(")
                       \/ ~Starts(score.rest, ",")
                       \/ value.rest # <<")">>,
                       Attention(name, leading, score.expr, value.expr))
          [] OTHER -> Unless(whole.rest # <<>>, BoolNode(name, whole.expr))

\* _parse: the program, or "error" for a text it refuses.
Parse(lines) ==
    LET Declares(word) == SelectSeq(lines, LAMBDA line : Starts(line, word))
        definitions == SelectSeq(lines, LAMBDA line : Head(line) \notin {"alphabet", "output"})
        subprograms == [k \in DOMAIN definitions |->
                            Definition(definitions[k][1], SubSeq(definitions[k], 3, Len(definitions[k])))]
        alphabet == Declares("alphabet")
        output == Declares("output")
        refused == \/ Len(alphabet) # 1
                   \/ Len(output) > 1
                   \/ definitions = <<>>
                   \/ \E k \in DOMAIN output : Len(output[k]) # 2
                   \/ \E k \in DOMAIN definitions : ~Starts(Tail(definitions[k]), "=")
                   \/ \E k \in DOMAIN subprograms : subprograms[k].kind = "error"
    IN  IF refused THEN Program(<<>>, "error", <<>>)
        ELSE Program(subprograms,
                     IF output = <<>> THEN Last(subprograms).name ELSE output[1][2],
                     Tail(alphabet[1]))

-----------------------------------------------------------------------------
\* The reference evaluator.

RECURSIVE EvalExpr(_, _, _, _)
EvalExpr(e, values, query, witness) ==
    CASE e.op = "const" -> e.value
      [] e.op = "ref" -> (IF e.at = "i" THEN query ELSE witness) \in values[e.name]
      [] e.op = "not" -> ~EvalExpr(e.arg, values, query, witness)
      [] e.op = "and" -> \A k \in DOMAIN e.args : EvalExpr(e.args[k], values, query, witness)
      [] e.op = "or" -> \E k \in DOMAIN e.args : EvalExpr(e.args[k], values, query, witness)

\* Attention looks at the strict past only, and answers false when its score
\* matches nothing there.
Attends(s, values, query) ==
    LET candidates == {w \in 0..(query - 1) : EvalExpr(s.score, values, query, w)}
    IN  /\ candidates # {}
        /\ EvalExpr(s.value, values, query,
                    IF s.direction = "rightmost" THEN Max(candidates) ELSE Min(candidates))

Column(s, values, word) ==
    CASE s.kind = "bos" -> {0}
      [] s.kind = "symbol" -> {p \in 1..Len(word) : word[p] = s.symbol}
      [] s.kind = "bool" -> {p \in 0..Len(word) : EvalExpr(s.expr, values, p, p)}
      [] s.kind = "attention" -> {p \in 0..Len(word) : Attends(s, values, p)}

Evaluate(program, word) ==
    FoldLeft(LAMBDA values, s : (s.name :> Column(s, values, word)) @@ values,
             <<>>, program.subprograms)

Accepts(program, word) == Len(word) \in Evaluate(program, word)[program.output]

=============================================================================
