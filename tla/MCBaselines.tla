------------------------------ MODULE MCBaselines ------------------------------
(* The comparison with other solvers, in its two parts: the batch runner
   (BatchRunner: two cases of one family around one of another, a reference
   for the first, two configurations, one or two repetitions, and input files
   that may change once) and one instance on its way through a solver
   (SolverRun: small past formulas over two letters, and over letters that
   have to be renamed, of one variable and of two, for every solver).  A behaviour is one of the two; the
   other stands still. *)
EXTENDS BatchRunner, SolverRun

VARIABLE part

MCCases == <<"f10", "g10", "f20">>
MCFamily == [c \in {"f10", "g10", "f20"} |-> IF c = "g10" THEN "g" ELSE "f"]
MCReference == [c \in {"f10"} |-> "empty"]
MCSettings == {"900s", "60s"}
MCRepetitions == {1, 2}
MCOutcomes == {"empty", "nonempty", "timeout"}

-----------------------------------------------------------------------------

MCIdentifiers == {"a", "b", "X", "sym1"}
MCSolvers == {"bdd", "bmc", "aalta", "black", "ltl2sat", "lisa", "lydia"}

X(at) == Ref("x", at)
Y(at) == Ref("y", at)

Source(alphabet, definition, out) ==
    [logic |-> "past", alphabet |-> alphabet,
     definition |-> ("x" :> Letter({alphabet[1]}, "i")) @@ ("y" :> Letter({alphabet[2]}, "i"))
                        @@ ("f" :> definition),
     output |-> out]

Definitions == {
    Unary("once", X("j")),
    Unary("previous", Not(Y("j"))),
    Unary("historically", Or(<<X("j"), Bos("j")>>)),
    Binary("since", X("j"), Y("j")),
    Binary("since", X("j"), Bos("j")),
    And(<<X("i"), Not(X("i"))>>) }

\* Operands that consult the anchor.
TwoVariable == {
    Unary("once", And(<<X("i"), Y("j")>>)),
    Unary("previous", Or(<<Not(X("i")), X("j")>>)),
    Unary("historically", Or(<<Not(And(<<X("i"), Y("j")>>)), Const(FALSE)>>)),
    Binary("since", Not(And(<<X("i"), Y("j")>>)), And(<<X("i"), Y("j")>>)),
    Binary("since", Or(<<X("i"), Y("j")>>), And(<<Y("i"), X("j")>>)),
    Not(Unary("once", And(<<Y("i"), Y("j")>>))) }

\* f, of two variables, consulted at the anchor by the operator of g.
Above(f, g) ==
    [Source(<<"a", "b">>, f, Ref("g", "i")) EXCEPT !.definition = @ @@ ("g" :> g)]

Outputs == {
    Ref("f", "i"),
    And(<<Y("i"), Not(Ref("f", "i"))>>),
    Unary("previous", Or(<<Ref("f", "j"), Y("j")>>)),
    And(<<Unary("historically", Ref("f", "j")), Const(TRUE)>>) }

MCSources ==
    {Source(<<"a", "b">>, d, o) : d \in Definitions, o \in Outputs}
        \cup {Source(<<"{", "b">>, d, Ref("f", "i")) : d \in Definitions}
        \cup {Source(<<"sym1", "{">>, d, Ref("f", "i")) : d \in Definitions}
        \cup {Source(<<"a", "X">>, Unary("once", X("j")), Ref("f", "i")),
              \* the last letter is the end of the source word
              Source(<<"a", "b">>, Unary("once", Eos("j")), Or(<<Ref("f", "i"), Eos("i")>>)),
              \* an atom at the anchor is not eliminated
              Source(<<"a", "b">>, Unary("once", And(<<Letter({"a"}, "i"), Y("j")>>)), Ref("f", "i")),
              \* nor is the anchor of the output's own operator
              Source(<<"a", "b">>, Unary("once", X("j")), Unary("once", And(<<X("i"), Y("j")>>))),
              \* too large a result
              Source(<<"a", "b">>, Binary("since", Or(<<X("i"), Y("j")>>), And(<<Y("i"), X("j")>>)),
                     And(<<Ref("f", "i"), Or(<<Ref("f", "i"), Y("i")>>)>>))}
        \cup {Source(<<"a", "b">>, d, o) : d \in TwoVariable, o \in Outputs}
        \cup {Source(<<"{", "b">>, d, Ref("f", "i")) : d \in TwoVariable}
        \cup {Above(f, Unary("once", And(<<Ref("f", "i"), Y("j")>>))) : f \in TwoVariable}
        \cup {Above(f, Binary("since", Not(Ref("f", "j")), And(<<Ref("f", "j"), X("i")>>))) : f \in TwoVariable}
        \* too large a case split, over x, y and f
        \cup {Above(f, Unary("once", And(<<X("i"), Y("i"), Ref("f", "i")>>))) : f \in Definitions}

-----------------------------------------------------------------------------

SomeSource == CHOOSE s \in Sources : TRUE

BaselinesInit ==
    /\ part \in {"batch", "solver"}
    /\ BatchInit /\ RunInit
    /\ part # "batch" =>
        /\ setting = CHOOSE s \in Settings : TRUE
        /\ repetitions = CHOOSE n \in Repetitions : TRUE
    /\ part # "solver" =>
        /\ source = SomeSource
        /\ solver = CHOOSE s \in Solvers : TRUE

RunBatch == part = "batch" /\ BatchNext /\ UNCHANGED <<part, runVars>>
RunSolver == part = "solver" /\ RunNext /\ UNCHANGED <<part, batchVars>>

BaselinesNext == RunBatch \/ RunSolver

\* The runner is a process of its own: unless it is killed, it goes on.
BaselinesSpec ==
    /\ BaselinesInit /\ [][BaselinesNext]_<<part, batchVars, runVars>>
    /\ WF_batchVars(part = "batch" /\ RunnerStep /\ UNCHANGED <<part, runVars>>)

=============================================================================
