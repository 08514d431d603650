---------------------------------- MODULE Corpus ----------------------------------
(***************************************************************************)
(* The corpus builder (ltl2_generator/build.py, with Benchmark.dfa and     *)
(* Benchmark.record of benchmark.py): clear the directory, then for each   *)
(* benchmark in the order of their ids eliminate the anchor, compile,      *)
(* minimise, measure, compare the verdict with the expected one and write  *)
(* its files; at last write the three summary files.                       *)
(*                                                                         *)
(* A builder may die between any two writes or removals and be started     *)
(* again, with other caps, over what the dead one left.  A file is written *)
(* or removed in one step; of its contents the directory keeps the number  *)
(* of the build that wrote it.                                             *)
(***************************************************************************)
EXTENDS FormulaFamilies

CONSTANTS
    Benchmarks,     \* the sequence of the registered benchmarks, by id
    StateCaps,      \* bound: the values of --state-cap
    FormulaCap,     \* pltl_compile_cap
    FamilyCap,      \* the state and monoid cap of a family with caps of its own
    MonoidCap,      \* the monoid cap of the others
    Builds          \* bound: how often the builder is started

ASSUME IdsAssumption ==
    \A m, n \in DOMAIN Benchmarks : Benchmarks[m].id = Benchmarks[n].id => m = n

ASSUME CapsAssumption ==
    /\ StateCaps \subseteq Nat \ {0}
    /\ {FormulaCap, FamilyCap, MonoidCap, Builds} \subseteq Nat \ {0}

VARIABLES
    build,          \* the number of the build, and whether it is running
    cap,            \* its state cap
    position,       \* the benchmark it is at
    stage,          \* what is to be done with it
    formula, dfa,   \* what the stages made of it
    records,        \* the records of the benchmarks before
    disk            \* the directory: the files there are, and who wrote them

corpusVars == <<build, cap, position, stage, formula, dfa, records, disk>>

\* A file is named by its directory and the place of its benchmark (ids are
\* distinct); the three summaries stand at the top.
DfaFile(n) == <<"dfa/", n>>
LtlFile(n) == <<"ltl/", n>>
Records == <<"./", 1>>
Index == <<"./", 2>>
Manifest == <<"./", 3>>

Write(file) == disk' = (file :> build) @@ disk

Unfinished(alphabet) == DFA(alphabet, {}, <<>>, FALSE)

Current == Benchmarks[position]

\* A family with caps of its own takes the smaller cap.
Fits(limit) == IF Current.capped THEN Min({limit, FamilyCap}) ELSE limit

CorpusInit ==
    /\ build = 0 /\ stage = "dead"
    /\ cap \in StateCaps
    /\ position = 1
    /\ formula = absent /\ dfa = absent
    /\ records = <<>>
    /\ disk = <<>>

\* The tree is there or it is not; shutil.rmtree takes it away entry by entry.
StartBuild ==
    /\ stage = "dead" /\ build < Builds
    /\ build' = build + 1
    /\ cap' \in StateCaps
    /\ position' = 1 /\ stage' = "./"
    /\ formula' = absent /\ dfa' = absent
    /\ records' = <<>>
    /\ UNCHANGED disk

\* Is a file the next that rmtree comes to in its directory?  Bound: the files
\* of dfa/ and ltl/ are listed by their ids, the entries of the top in any
\* order.
NextListed(file) ==
    file[1] = "./" \/ \A other \in DOMAIN disk : other[1] = file[1] => file[2] <= other[2]

\* A directory that was entered is emptied before the next entry of the top.
RemoveFile ==
    /\ stage \in {"./", "dfa/", "ltl/"}
    /\ \E file \in DOMAIN disk :
        /\ stage \in {"./", file[1]} /\ NextListed(file)
        /\ disk' = Restrict(disk, DOMAIN disk \ {file})
        /\ stage' = IF \E other \in DOMAIN disk' : other[1] = file[1] THEN file[1] ELSE "./"
    /\ UNCHANGED <<build, cap, position, formula, dfa, records>>

\* Mutant: the directories are emptied, the summaries beside them are kept.
MakeDirectories_KeepsSummaries ==
    /\ stage = "./" /\ \A file \in DOMAIN disk : file[1] = "./"
    /\ stage' = "make"
    /\ UNCHANGED <<build, cap, position, formula, dfa, records, disk>>

\* Nothing is left: dfa/ and ltl/ are made anew.
MakeDirectories ==
    /\ stage = "./" /\ DOMAIN disk = {}
    /\ stage' = "make"
    /\ UNCHANGED <<build, cap, position, formula, dfa, records, disk>>

\* A benchmark with a recogniser has its DFA; the others are eliminated first.
TakeRecognizer ==
    /\ stage = "make" /\ Current.formula = absent
    /\ dfa' = Current.dfa
    /\ stage' = "measure"
    /\ UNCHANGED <<build, cap, position, formula, records, disk>>

EliminateAnchor ==
    /\ stage = "make" /\ Current.formula # absent
    /\ formula' = Eliminate(Current.formula)
    /\ stage' = "compile"
    /\ UNCHANGED <<build, cap, position, dfa, records, disk>>

\* An eliminated formula that is too large is not compiled.
SkipCompilation ==
    /\ stage = "compile" /\ Size(formula) > FormulaCap
    /\ dfa' = Unfinished(Current.alphabet)
    /\ stage' = "measure"
    /\ UNCHANGED <<build, cap, position, formula, records, disk>>

Compile ==
    /\ stage = "compile" /\ Size(formula) <= FormulaCap
    /\ dfa' = MinimizeDfa(CompileDfa(formula, Current.alphabet, Fits(cap)))
    /\ stage' = "measure"
    /\ UNCHANGED <<build, cap, position, formula, records, disk>>

Timeout == "none"

\* The monoid, its closure given up above the cap, and the aperiodicity.
Measure ==
    LET limit == IF Current.capped THEN FamilyCap ELSE MonoidCap
        monoid == TransitionMonoid(dfa, limit)
        Verdict == IF ~dfa.complete \/ Cardinality(monoid) > limit THEN Timeout
                   ELSE IF IsAperiodic(dfa, monoid) THEN "aperiodic" ELSE "counting"
        mismatch == Verdict # Timeout /\ (Verdict = "aperiodic") # Current.starFree
    IN  /\ stage = "measure"
        /\ stage' = IF mismatch THEN "raised" ELSE "dfa"
        /\ records' = IF mismatch THEN records
                      ELSE Append(records, [id |-> Current.id, complete |-> dfa.complete, verdict |-> Verdict])
        /\ UNCHANGED <<build, cap, position, formula, dfa, disk>>

\* Only a complete DFA is written.
WriteDfa ==
    /\ stage = "dfa"
    /\ IF dfa.complete THEN Write(DfaFile(position)) ELSE UNCHANGED disk
    /\ stage' = "ltl"
    /\ UNCHANGED <<build, cap, position, formula, dfa, records>>

WriteLtl ==
    /\ stage = "ltl"
    /\ IF Current.formula # absent THEN Write(LtlFile(position)) ELSE UNCHANGED disk
    /\ formula' = absent /\ dfa' = absent
    /\ IF position < Len(Benchmarks)
       THEN position' = position + 1 /\ stage' = "make"
       ELSE UNCHANGED position /\ stage' = "records"
    /\ UNCHANGED <<build, cap, records>>

WriteRecords ==
    /\ stage = "records"
    /\ Write(Records)
    /\ stage' = "index"
    /\ UNCHANGED <<build, cap, position, formula, dfa, records>>

WriteIndex ==
    /\ stage = "index"
    /\ Write(Index)
    /\ stage' = "manifest"
    /\ UNCHANGED <<build, cap, position, formula, dfa, records>>

WriteManifest ==
    /\ stage = "manifest"
    /\ Write(Manifest)
    /\ stage' = "done"
    /\ UNCHANGED <<build, cap, position, formula, dfa, records>>

\* The process is killed; what it holds is lost, what it wrote stays.
Die ==
    /\ stage # "dead"
    /\ stage' = "dead"
    /\ formula' = absent /\ dfa' = absent
    /\ position' = 1
    /\ records' = <<>>
    /\ UNCHANGED <<build, cap, disk>>

CorpusNext ==
    \/ StartBuild \/ RemoveFile \/ MakeDirectories \/ TakeRecognizer \/ EliminateAnchor \/ SkipCompilation \/ Compile
    \/ Measure \/ WriteDfa \/ WriteLtl \/ WriteRecords \/ WriteIndex \/ WriteManifest \/ Die

CorpusSpec == CorpusInit /\ [][CorpusNext]_corpusVars

-----------------------------------------------------------------------------
\* Properties.

CONSTANTS
    TaskOf,     \* the training task of a benchmark, or none: a function of ids
    WordBound,  \* bound: the length of the words languages are compared on
    SuffixBound \* bound: the suffixes that tell the states apart

Short(alphabet) == EnumerateWords(alphabet, WordBound) \ {<<>>}
LanguageOf(benchmark) ==
    [alphabet |-> benchmark.alphabet, by |-> "formula", of |-> benchmark.formula]
Measured == stage = "measure" /\ dfa.complete

\* Eliminating the anchor, compiling the result one letter at a time and
\* minimising give the very automaton, numbers of states included, that
\* dfa_from_predicate finds by asking the evaluator of the two-variable
\* formula: the corpus files and the study's DFAs can be compared as they are.
CompiledIsTheLanguagesDfa ==
    Measured /\ Current.formula # absent =>
        dfa = DfaFromPredicate(LanguageOf(Current), SuffixBound, 400)

\* A formula of the corpus and the trainers' task of the same name
\* (ltl2_generator/families and uhat/tasks.py, written twice) are the same
\* language of non-empty words.
FormulaIsTheTask ==
    Measured /\ Current.id \in DOMAIN TaskOf =>
        \A w \in Short(Current.alphabet) : Accepted(dfa, w) = Label(TaskOf[Current.id], w)

\* A word that permutes some states in a cycle, which a star-free language
\* does not have.
HasCounter(machine) ==
    \E u \in EnumerateWords(machine.alphabet, SuffixBound), q \in 1..StateCount(machine) :
        LET Reach(state) == FoldLeft(LAMBDA s, symbol : Step(machine, s, symbol), state, u)
            Times[n \in 0..StateCount(machine)] == IF n = 0 THEN q ELSE Reach(Times[n - 1])
        IN  Reach(q) # q /\ \E n \in 2..StateCount(machine) : Times[n] = q

\* The verdict on a benchmark is that its automaton has no counter, and the
\* expectation of the families never makes the builder raise.
VerdictIsCounterFreeness ==
    /\ stage # "raised"
    /\ stage = "dfa" /\ Last(records).verdict # Timeout =>
            (Last(records).verdict = "aperiodic") = ~HasCounter(dfa)

\* What is left of a build never stands beside what another one wrote,
\* wherever builds and their clearing died, and a build that ends left the
\* whole of itself: the DFA of each benchmark that compiled under its caps, the
\* formula of each that has one, and the summaries.  A manifest alone says no
\* such thing: a clearing that died may have left it beside removed files.
BuildsNeverMix ==
    /\ \A f, g \in DOMAIN disk : disk[f] = disk[g]
    /\ stage = "done" =>
        /\ \A f \in DOMAIN disk : disk[f] = build
        /\ Len(records) = Len(Benchmarks)
        /\ DOMAIN disk =
            {DfaFile(n) : n \in {n \in DOMAIN records : records[n].complete}}
            \cup {LtlFile(n) : n \in {n \in DOMAIN records : Benchmarks[n].formula # absent}}
            \cup {Records, Index, Manifest}

=============================================================================
