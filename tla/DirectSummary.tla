----------------------------- MODULE DirectSummary -----------------------------
(***************************************************************************)
(* The summary circuit of a strict-past DAG (DirectSummary.generate), read *)
(* as what it computes.  Each temporal operator has a register for each    *)
(* case of its coordinates, which holds the operator's fold over all       *)
(* positions read so far, the boundary included.  At a symbol the formula  *)
(* reads the registers as they were; then they take the symbol in.         *)
(*                                                                         *)
(* Symbols are codes of a fixed number of bits.  A code of no letter can   *)
(* be given too; the circuit then accepts nothing for ever.                *)
(***************************************************************************)
EXTENDS SharedOneVariableLtl
LOCAL INSTANCE SequencesExt
LOCAL INSTANCE FiniteSetsExt

VARIABLES
    registers,    \* <<operator, assignment>> -> the fold
    invalid,      \* a code of no letter has been read
    bad           \* the output at the last code

circuitVars == <<registers, invalid, bad>>

CircuitInit ==
    /\ registers = <<>>    \* none
    /\ invalid = FALSE
    /\ bad = FALSE

\* maxSupport: is any register for a case of its own?
QueryDependent(dag) == \E f \in Rows(dag) : Coordinates(Names(dag), f) # {}

Cells(dag, reduce) == UNION {{f} \X Assignments(dag, reduce, f) : f \in Rows(dag)}

\* predicate: an operand in a case, where witness is what a leaf says here.
Holds(names, operand, assignment, Witness(_)) ==
    LET holds[g \in Predicates(names)] ==
            CASE g.op = "const" -> g.value
              [] AtAnchor(g) -> assignment[g]
              [] g.op = "not" -> ~holds[g.arg]
              [] g.op = "and" -> \A k \in DOMAIN g.args : holds[g.args[k]]
              [] g.op = "or" -> \E k \in DOMAIN g.args : holds[g.args[k]]
              [] OTHER -> Witness([g EXCEPT !.at = "i"])
    IN  holds[operand]

\* update: a fold takes one more position in.
Update(names, f, assignment, old, Witness(_)) ==
    LET Here(operand) == Holds(names, operand, assignment, Witness)
    IN  CASE f.op = "previous" -> Here(f.arg)
          [] f.op = "once" -> old \/ Here(f.arg)
          [] f.op = "historically" -> old /\ Here(f.arg)
          [] f.op = "since" -> Here(f.right) \/ (Here(f.left) /\ old)

\* Mutant: the latches start as the fold of nothing.
Reset_Empty(dag, cell) == cell[1].op = "historically"

\* resets: the fold of the boundary alone.
Reset(dag, cell) ==
    Update(Names(dag), cell[1], cell[2], cell[1].op = "historically",
           LAMBDA g : AtSymbol(dag, g, Boundary))

Generate(dag, reduce) ==
    /\ registers' = [c \in Cells(dag, reduce) |-> Reset(dag, c)]
    /\ UNCHANGED <<invalid, bad>>

\* The codes of the input bits; those from Len(Letters) on mean nothing.
Width(dag) == CHOOSE w \in 1..Len(Letters(dag)) :
                2^w >= Len(Letters(dag)) /\ (w = 1 \/ 2^(w - 1) < Len(Letters(dag)))
Codes(dag) == 0..(2^Width(dag) - 1)
IsLetter(dag, code) == code < Len(Letters(dag))

\* eval: the value of a formula at this code.  An operator looks its
\* coordinates up among the cases that have a register; finding none is false.
Now(dag, f, code) ==
    LET now[g \in DagFormulas(Names(dag))] ==
            CASE g.op = "const" -> g.value
              [] g.op = "atom" -> IsLetter(dag, code) /\ SymbolMatches(g, Letters(dag)[code + 1])
              [] g.op = "ref" -> now[dag.definition[g.name]]
              [] g.op = "not" -> ~now[g.arg]
              [] g.op = "and" -> \A k \in DOMAIN g.args : now[g.args[k]]
              [] g.op = "or" -> \E k \in DOMAIN g.args : now[g.args[k]]
              [] OTHER -> \E c \in DOMAIN registers :
                            c[1] = g /\ registers[c] /\ \A k \in DOMAIN c[2] : now[k] = c[2][k]
    IN  now[f]

\* One clock tick of the circuit of a DAG.
Tick(dag, code) ==
    LET badCode == invalid \/ ~IsLetter(dag, code)
    IN  /\ bad' = (Now(dag, dag.output, code) /\ ~badCode)
        /\ registers' = [c \in DOMAIN registers |->
                Update(Names(dag), c[1], c[2], registers[c], LAMBDA g : Now(dag, g, code))]
        /\ invalid' = badCode

=============================================================================
