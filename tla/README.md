# A verification development for the B-RASP / 2LTL verifier

The repository compiles a Boolean B-RASP program or a strict two-variable LTL
formula (2LTL) to an automaton and decides whether it accepts some nonempty
word (Scala).  Around that verifier it trains hard-attention transformers, reads
programs off them and has them verified (`uhat`, Python), generates a corpus
of formulas with their automata (`ltl2_generator`), and compares itself with
other solvers (`scripts`).  This directory holds TLA+ modules
that model these parts, TLC configurations that check them on small instances,
and proofs that TLAPS checks for all instances.

Paths below are relative to the repository.  `BA` is
`src/main/scala/boolean_automaton/BooleanAutomaton.scala`, `T` is
`src/main/scala/translator/Translator.scala`.

## 1. Inventory

The verifier (Scala):

| Component | State | Operations | Hard behaviour | What makes it correct |
|---|---|---|---|---|
| Two-variable LTL (`ltl/Ltl.scala`) | none; formulas and DAGs | `evaluate`, `mirror`, `mirrorDag` | anchor/witness bookkeeping, exchange of past and future | mirroring reverses the language |
| PVWAA (`pvwaa/Pvwaa.scala`) | none; the automaton | `fromFuture2ltl`, `accepts` | where a nested Until loops to, duals, the value at EOS | accepts the words of its formula |
| Reverse Boolean automaton (`BA`) | the summary, one function per state | `transition`, `diagonal`, `accepts`, `relevantStates`, `realizableAbstractions` | rank order, functions of different ages, static cuts | the summary is the table of all runs; cuts lose nothing |
| Reachable search (`BA` `reachable`) | `ids`, queue, table, `truncated` | dequeue, number, record, give up, classify | budget, partial tables | exact or given up for a reason |
| Native verdict (`BA` `witness`, `T` `nativeSummary`) | parents, visited, queue | search, walk back, verdict | the initial state is special | sound verdict, shortest counterexample |
| Conflict search (`BA` `conflictWitness`) | recursion stack, `dead`, `onStack`, `visited`, `truncated` | descend, prune, return | pruning inside unfinished cycles, equal projections | sound verdict |
| Minimisation (`BA` `minimize`) | blocks | split, refine, quotient | stop test by count, numbering | minimal, equivalent, initial block 0 |
| LTLf export (`ltlf/LtlfExport.scala`) | none | `propositionNames`, `render` | letters that are no identifiers, the trace alphabet, the end of a trace | traces of the text are reversed words |
| Two-variable elimination (`ltl/TwoLtlToOneVariable.scala`, `ltl/SharedOneVariableLtl.scala`) | none | `translate`, in two ways | what is meant at the anchor and what at the witness, caps | every kept formula means what it meant |
| Direct summary circuits (`aiger/DirectSummary.scala`, `tools/CircuitStudy.scala`) | one register for each case of an operator, the invalid-code latch | build, tick | registers read before they take a symbol in, the boundary, which cases exist | the output is the formula's value at every symbol |
| AIGER encoder, BDD manager, ABC, inclusion, B-RASP in Scala, LTLf/LTLp front ends, text formats | latches, node tables, processes | | size limits, memo keys, unexpected output | section 7 |

The learning study (Python):

| Component | State | Operations | Hard behaviour | What makes it correct |
|---|---|---|---|---|
| B-RASP in Python (`uhat/brasp.py`, `programs.py`, `pad.py`, `random_programs.py`) | programs | `evaluate`, `prune`, `render`, `parse`, `pad_program`, drawing | names, BOS, precedence, dead code | a text means the program it was written from |
| Boolean transformer (`uhat/model.py`, `extract.py`) | gates | the hard forward pass, `extract` | which of several best positions a head takes; simplification | the program accepts what the model accepts |
| Real transformer (`uhat/real_model.py`, `real_extract.py`) | weights | forward pass, activation classes, score levels, `build_program` | ties, caps, codes of classes that are not used | the same |
| Identification (`scripts/uhat_identify.py`) | none | the catalogue of named programs | boundaries of short words | a program means its name |
| Tasks and data sets (`uhat/tasks.py`) | buckets, attempts | predicates, samplers, `balanced_sample`, `datasets` | constructions with an index one off, rare classes, empty choices | words are in the class they were built for; sets are balanced |
| Trainers (`uhat/train.py`, `real_train.py`) | model, kept model, best fit | soft and hard steps, restarts | a model looked at before the step that changes it; two criteria | hard training never loses, the best restart is returned |
| Study scripts (`scripts/uhat_sweep.py`, `uhat_verify.py`, `uhat_emptiness.py`, `uhat_certify.py`, `uhat_select_verify.py`) | program, record and table files | jobs, `collect`, `best`, four scripts that ask the verifier | jobs killed or submitted again while readers run; two sources of one language | verdicts are true, success means proved |

The corpus and the baselines (Python):

| Component | State | Operations | Hard behaviour | What makes it correct |
|---|---|---|---|---|
| Formula generator (`ltl2_generator/`) | the corpus directory | families, `eliminate`, compile to DFA, `minimize`, aperiodicity, `build` | caps, a build that dies | automata of the languages, one build's files in a directory |
| NuSMV batch runner (`scripts/nusmv_baseline.py`, `run_nusmv_figure3.py`) | record file, `.tmp` file, `failed`, records | resume, replay, skip, measure, checkpoint, exit | kills, changed inputs, repetitions that disagree | records of one configuration, never overwritten by others |
| Solver baselines (`scripts/nusmv_baseline.py`, `aalta_baseline.py`, `ltlf_solver_baseline.py`) | one instance on its way | eliminate, export, encode, solve, classify, decode, replay | finite traces in an engine of infinite ones, strong and weak next, bounds, silent solvers | a verdict is about the source language |

Interaction.  The verifier is one process with one worker thread
(`T.main` starts it for its stack size); its stages call each other in a line:
text to DAG, `toFuture`, `fromFuture2ltl`, `fromForwardPvwaa`, a decision
procedure, `renderVerdict`.  The Python programs talk to each other and to the
verifier through files and through the text other processes print: a training
job writes a program and then a record, `collect` makes a table of the
records, `best` picks from tables, the checking scripts hand programs to the
verifier and look for phrases in its output; the baseline scripts
export a formula, hand it to a solver and look for phrases in its
output.  Concurrency is between those processes, the operating system that
kills them, and whoever submits a job again or edits an input.  Elsewhere the
hazards are those of searches that are cut short, of values read at a different time
than they were computed, of numberings other stages rely on silently, and
of one language being written down several times (as a formula, a predicate, a
sampler, a program, a name).

`PROJECT.json` lists the hazards at their lines, with the properties that would
catch them.

## 2. Modules

| Module | Models | Composes |
|---|---|---|
| `EmptinessCheck` | what every decision procedure promises: one verdict, right or UNKNOWN | |
| `ReachableSearch` | `BA.reachable` | |
| `NativeCheck` | `--run-native`: `reachable`, `nativeSummary`, `witness`, verdict | `ReachableSearch`; implements `EmptinessCheck` |
| `ConflictSearch` | `--run-native-conflict`: `conflictWitness`, `conflictSummary` | implements `EmptinessCheck` |
| `TwoLtl` | 2LTL formulas, which of them there are up to a height, evaluation, mirroring, their operands | |
| `AlternatingAutomaton` | the pebble very weak alternating automaton: states, ranks, moves, `accepts` | |
| `Pvwaa` | `fromFuture2ltl`, and the DAGs it does not refuse | `TwoLtl`, `AlternatingAutomaton` |
| `SummaryAutomaton` | the reverse Boolean automaton and its static analyses | `AlternatingAutomaton` |
| `VerifierPipeline` | the compiler's main line, formula to automaton | `Pvwaa`, `SummaryAutomaton` |
| `TwoLtlToOneVariable` | the elimination behind `--one-variable`: case split, inlining, what is kept, caps | `TwoLtl` |
| `SharedOneVariableLtl` | the elimination that names its cases and inlines nothing; coordinates and their covers | `TwoLtl` |
| `DirectSummary` | the summary circuit of a past formula, as what it computes | `SharedOneVariableLtl` |
| `CircuitStudy` | the four routes from a formula to such a circuit, and the circuit at work | `DirectSummary` |
| `Minimize` | `BA.minimize` | |
| `Brasp` | B-RASP programs as `uhat/brasp.py` writes, reads, prunes and evaluates them | |
| `BraspPrograms` | attention depth, padding, the steps of drawing a random program | `Brasp` |
| `BooleanUhat` | the hardened Boolean transformer, `extract` | `Brasp` |
| `RealUhat` | the real transformer over exact numbers, `real_extract` | `Brasp` |
| `Catalogue` | the reference programs of `uhat_identify.py` | `Brasp` |
| `ProgramLab` | where programs come from (drawn, catalogued, extracted, built), padding, writing, reading | the five above |
| `Tasks` | predicates, samplers and length plans of all training tasks | |
| `Datasets` | `balanced_sample`, `datasets` | `Tasks` |
| `Training` | `fit_best` and `train_once` of both trainers | |
| `UhatStudy` | jobs, `collect`, `best`, the checking scripts | |
| `PastFormulas` | the generator's formulas, their evaluators, `eliminate` | |
| `PastDfa` | compilation to DFAs, minimisation, monoid, aperiodicity; `uhat_dfa.dfa_from_predicate` | `PastFormulas`, `Tasks` |
| `FormulaFamilies` | the families of `families/core.py` and `literature.py` | `PastDfa` |
| `Corpus` | `ltl2_generator/build.py` | `FormulaFamilies` |
| `LtlfExport` | the flat LTLf text, each solver's spelling of it, the NuSMV model, what a trace makes of them | `TwoLtl` |
| `SolverRun` | one instance handed to one solver, and the replay of its witness | `LtlfExport`, `TwoLtlToOneVariable` |
| `BatchRunner` | the record loop of `nusmv_baseline.py` | |
| `NativeProofs` | theorems: the exploration; the verdict of `--run-native` and its counterexample | `ReachableSearch`, `NativeCheck` |
| `DfaProofs` | theorems: minimisation; the conflict search, its verdict, its counterexample | `Minimize`, `ConflictSearch` |
| `SummaryProofs` | theorems: the determinisation and its static analyses | `SummaryAutomaton` |
| `FormulaProofs` | theorems: what formulas say; mirroring and desugaring | `VerifierPipeline`, `SummaryProofs` |
| `CompilerProofs` | theorems: the compiled automaton, and the compiler end to end | `FormulaProofs` |
| `BatchProofs` | theorems: the record file of the batch runner | `BatchRunner` |
| `LearningProofs` | theorems: the samplers, and how a set is put together; the study scripts; the trainers | `Datasets`, `UhatStudy`, `Training` |
| `WordLemmas` | lemmas on words, least numbers, recursive tables, rounds of a closure, and injective sequences | |
| `MC*` | TLC instances | |

Proofs stand in modules of their own.  The automaton (`AlternatingAutomaton`) is a
module apart from the compiler (`Pvwaa`): what `SummaryProofs` proves of the
determinisation it proves of every very weak automaton, and `CompilerProofs`
shows that the compiler makes no other.

Four instances hold several specifications side by side: `MCVerifierPipeline`
(`VerifierPipeline`, `CircuitStudy`), `MCAutomata` (`Corpus`,
`Minimize`), `MCBaselines` (`BatchRunner`, `SolverRun`) and `MCLearning`
(`Datasets`, `Training`, `UhatStudy`).  They share no variable.  A variable
`part`, chosen initially, says which of them a behaviour is about; the others
stand still in one fixed state.  A run then is the union of the parts'
behaviours rather than their product, and no property compares parts.

### Correspondence to the code

**ReachableSearch.**  A summary is a model value and one `transition` is one
application of `delta`.  `delta` and `final` are variables that are chosen in
`ReachInit` and never change: one TLC run covers all automata.  `idOf`/`idCount`
are `ids`/`ids.size`, `transitions` the table as a set of edges, `current` and
`sym` the two loop positions.  Each turn of the inner loop is `KnownSuccessor`,
`NewSuccessor` or `Truncate`; `Dequeue`, `FinishState` and `FinishExploring` are
the loop heads and the classification after them.  The order of the source is
kept: lookup first, budget second, numbering before the edge.

**NativeCheck.**  `BeginWitness` is `nativeSummary`'s test of `truncated`,
`Witness*` the second breadth-first search over state numbers, `TraceBack` the
walk along the parents.  `BA.witness` marks the initial state visited and
never reports it; that is kept.

**ConflictSearch.**  The recursion of `explore` is a stack of frames with the
symbol each call is trying.  `key` is the projection onto the relevant states;
TLC tries every idempotent map that is a bisimulation, and
`IrrelevantStatesDoNotMatter` in the pipeline shows that the real projection is
one.  `Leaving` is the code after the loop (`onStack -= key`, then `dead += key`
unless a word was found or the search gave up), joined with what the caller does
with the result.

**TwoLtl, AlternatingAutomaton, Pvwaa.**  Formulas are records.  The two kinds of letter atoms
(symbols and bit tests) are both a set of letters.  The source recurses over formulas; here
each of its recursions is a function on the formulas over the DAG's names with at most
`MaxHeight` Boolean operators above one another (one more after desugaring), and one step of
it an operator (`Meaning`, `MirrorStep`, `DesugarStep`, `PushStep`, `FinalStep`) that is
given what becomes of the operands.  `Predicate` and `TopAt` differ in their leaves alone,
so they share `PushStep`.  `Compilable` collects what `fromFuture2ltl` refuses or misreads:
temporal operators in an operand of another, a witness outside an operand, definitions
that refer forwards or to themselves, `BOS` in a future DAG and `EOS` in a past one.  A transition formula is kept
in disjunctive form: a set of clauses, each a set of letters with a set of goto,
leave and carry atoms, which is what evaluating it needs.  State names of the
source are pairs of a formula and a polarity.  `accepts` is a memoised search over
configurations; `PvwaaRun` is the table it fills, a function over the
configurations, defined by recursion along the moves.

**SummaryAutomaton.**  A BDD is the set of valuations that satisfy it, a
valuation the set of goto states that are true.  `history` keeps the summaries
before each symbol; it is there for `SummaryIsTheRun` only.

**Minimize.**  One action per round; `Renumber` numbers labels by first
occurrence in `order`, as `renumber` does.

**Brasp, BraspPrograms.**  Expressions and subprograms are records, a text is a
sequence of lines of tokens.  A column of truth values is the set of positions
where it is true, position 0 being BOS.  Drawing a program is one action per
operation of a plan (`random_programs.py` fixes the kinds of operations first);
everything it draws with `rng` is an `\E`.

**BooleanUhat, RealUhat.**  A gate is IGNORE, POSITIVE or NEGATIVE.  The soft
weights that `_EPS` leaves to unselected positions cannot survive `binarise`,
so the hard pass is Boolean.  In the real model a vector is a number that tells
vectors apart, a layer a table of scores and of the vectors it produces: all the
extraction may depend on is which vectors are equal and which scores are higher.
In `ProgramLab`, an optimiser step is any change of a gate or of a table entry.

**Tasks, Datasets.**  A sampler is the set of words one draw can return, each
with what the construction intends (`positive`, `negative`, `any`).  One action
of `Datasets` is one draw with its label and its bucket; `DrawFails` is the
exception of an empty `choice`.

**Training.**  A model is its parameters, of which only the accuracy of the
hardened readout matters; a step of the optimiser leads anywhere.  `HardStep`
looks at the model before it moves, as the source does.  `softModel` and `fits`
are history variables that exist for the properties.

**UhatStudy.**  A file is absent, partial or whole.  A training job is
`TrainCell`, `WriteProgram`, `WriteRecord`, with `Resubmit` (a kill at a time
limit, a second submission) between any two.  `collect` reads one record per step, so
jobs interleave with it.  Each checking script is a `Launch` and one step per
item; `Phrases` and `EquivalencePhrases` are the words the verifier's output contains,
`Reading` the order in which the scripts look for them in an answer about emptiness or
inclusion, and `ReadingEquivalence` the other order, of `uhat_certify.py` and
`uhat_select_verify.py`, which look for the word of an equivalence first.  Seeds are fixed in the code, so a cell
trained again gives the same program.

**PastFormulas, PastDfa, FormulaFamilies, Corpus.**  Formulas are records as
in the dataclasses.  `CompileDfa` explores as the source does, to a cap, and
`MinimizeDfa` numbers states by breadth-first search.  `Corpus` has one action per
stage of a benchmark and per file written.  The directory is cleared as `shutil.rmtree` does
it, entry by entry: `StartBuild` only begins, `RemoveFile` takes one file away,
`MakeDirectories` finds nothing left.  The entries of the top come in any order, those of `dfa/` and `ltl/` in
the order of their ids.  `Die` may come between any two steps, in the middle of the clearing as well; a
file that `write_text` writes, or `unlink` removes, is written or removed in one step.

**TwoLtlToOneVariable.**  `Split` is the case split of one operator, `TranslateBody`
makes it in every definition, `Inlined` replaces references at the anchor by what they refer to and
leaves those at the witness, `OneVariableForm` keeps the definitions that a witness refers to.
The two caps are one constant, `NodeCap`.  What the source does is kept where it is less than one
might expect: the output is not split, and atoms at the anchor are not.

**SharedOneVariableLtl, DirectSummary, CircuitStudy.**  `Coordinates` are what the operands of an
operator consult at the anchor, `Assignments` the cases for which there is a definition or a register:
all values, or (the realizable cover) for coordinates that a letter decides only the patterns of `Patterns`.
`SharedForm` makes a definition of each case, `CaseNames` gives it a name that is not taken.  A
circuit is its registers: `Reset` is the fold of the boundary alone, `Now` what the gates compute
from the code and the registers, `Update` how a register takes a position in.  An operator whose
coordinates match no case is false, as in the circuit.  A tick reads all registers before it
changes any.  In `CircuitStudy`, `Eliminate` and `Encode` are the two stages of a route, each with the
action of its failure.

**LtlfExport, SolverRun.**  `ExportOne` is the command `--one-variable --ltlf`: the elimination, the mirror
image and the text, or the message on which it ends.  A text is a sequence of tokens.  `Understood` is the
solver's own reading of what it is given, external but for the spelling the scripts
choose.  `ToSmv` confines each operator to the prefix where `active` holds.  A solver
answers correctly about the formula it is given or not at all (killed, crashed, out
of memory, bound exhausted); its model is any model.

**BatchRunner.**  `Start` is a process being started with arguments of the
user's choice, `disk` and `temp` are what a kill leaves behind, everything else
is memory.  One case is `RefuseToResume`, `Replay`, `Skip` or `BeginMeasure`,
then `Repeat`, `WriteTemp`, `Replace`.  `Kill` may come between any two steps.
`Kill` and `EditInput` are the environment and marked external.

## 3. What the runs check

| Run | Instance | Shows |
|---|---|---|
| `native` | 3 summaries, 2 symbols, budgets 0, 2, 3: all 729 transition functions times 8 acceptance sets | The table of an exploration that ends is the automaton, giving up is justified, counterexamples are accepted and shortest, a verdict comes, is final, and is right for the words it counts (`KeepsPromise`). |
| `native_empty_word` | the same | a violation, see section 6 |
| `conflict` | the same with every bisimilar projection, budgets 0, 1, 3 | `dead` hides nothing that an ancestor will not find, PROVED is sound, UNKNOWN is justified, a verdict comes and is right for the words it counts (`KeepsPromise`). |
| `conflict_empty_word` | the same | a violation, see section 6 |
| `pipeline` | automata: 179 DAGs over 3 letters, words up to length 3; circuits: 231 DAGs over one, two or three letters, four routes, three codes | The alternating automaton, the meaning of the summary and the verdict agree with the formula; diagonals are fixpoints, realizable cells cover all consultations, the irrelevant states do not matter.  A circuit's output is the formula's value at every prefix, on all four routes, and a route through it fails only where the direct one does. |
| `forward_reference`, `future_bos` | DAGs with definitions in another order; BOS in a future DAG | violations, see section 6 |
| `programs` | two letters, words up to length 3; all plans of one Boolean node and two attentions; a Boolean model of two layers and one of two heads with two terms, two gates changed; real models of three vectors, one entry changed; the catalogue; padding by one | What is read off a model is the model, padding only deepens, and every program comes back from its text unchanged. |
| `automata` | 19 benchmarks of all families, two state caps, three builds, a death anywhere, in the clearing of the directory as well; every table of 3 states and 2 symbols, of 4 states and 1 symbol, and smaller | Formula, eliminated formula, compiled DFA and the trainers' predicate are one language, the aperiodicity verdict is right, the files of two builds never stand side by side; the verifier's own minimisation is Moore's. |
| `baselines` | batch: 3 cases in 2 families, 2 settings, 1 or 2 repetitions, 2 contents of inputs, 2 processes, kills anywhere; solver: 89 past DAGs, of one variable and of two, times 7 solvers, words up to length 2 | The record file is one run under one setting, skips are justified, results are kept, exit code 0 means complete, a process ends; the elimination keeps what each formula says at every position, every encoding holds on the traces of source words, every answer and witness is about the source language. |
| `batch_resume` | the batch of `baselines`, inputs that do not change | a violation, see section 6 |
| `learning` | data: every task that a name makes (the eight paired ones, the mutated ones, Figure 2's, `dot_depth`, `equal_blocks`), sets of two or three words, two attempts; training: 3 models, 7 schedules, 2 restarts; study: 3 cells of a language with and without a specification, one resubmission | Words are of the class they were built for; hard training never loses and the best restart is returned; picks stay within a source, verdicts read off text are true, success means proved. |

### Bounds, and why they are enough to be interesting

* Three summaries and two symbols give cycles, self-loops, joins, an accepting
  summary behind a pruned cycle, unreachable summaries, and budgets that are
  too small by one, exact and generous.  The proofs of section 5 remove the bound
  for the properties they cover.
* The DAGs that `MCVerifierPipeline` compiles to automata take one temporal definition with every
  pair of operands from a set of masks (constants, a reference at the anchor, a
  negated one at the witness, a disjunction of both), and use it at the anchor,
  negated, inside another operator, and nested in Boolean combinations, with a
  letter that no formula mentions.  That reaches goto, leave and carry in both
  polarities.  Words of length 3 are needed for an Until nested in another one to
  see a position that is neither the pebble nor an end.
* Programs of two attentions with a Boolean node between or after them give a
  score that reads another attention, a name that is used twice, one that is never
  used (pruning), and every kind of mask and default.  Three positions and BOS tell
  a leftmost witness from a rightmost one and from the default.
* Two layers of one head, and one layer of two heads with two terms each, give
  attention to attention, conjunctions within a term and disjunctions across
  terms.  Two changed gates suffice to make a head constant, to make two literals
  clash, and to leave a head unused.
* Three vectors and scores 0..2 give ties within a level, two levels and three, a
  class that is never reached and one that only BOS has; `ClassCap` 40 is
  reached by some tables, so that `RefuseToBuild` happens.
* The benchmarks contain a family whose eliminated formula is too large
  (`FormulaCap`), one whose automaton passes the lower state cap, one whose monoid
  passes its cap, and the counters.  Three builds are what a mixture takes: one that
  finishes, one that dies while it clears what the first left, and one that goes on from there.
* The sources of `SolverRun` use every past operator, BOS and EOS, letters that are
  identifiers, letters that have to be renamed, a renamed letter that clashes with an
  existing one, and a letter that is a temporal operator, which is refused.  Six more
  definitions consult the anchor in each operator, under negation and in both operands; another
  operator stands above them, at the anchor or at the witness.  An output of two variables and an
  atom at the anchor are what the exporter turns down after the elimination.  `NodeCap` is 60 nodes
  instead of the source's 500000: the splits over one and two definitions fit, one over three does not, and neither
  does one output that uses a split twice.
  Words of two letters have a first, a last and, with the sentinel, a position
  after the end.
* Those that it makes circuits of put every operator over coordinates that are a reference, an atom and
  the boundary, and a second operator above with the first as a coordinate of its own, alone and beside a
  static one.  Three letters leave a code that means none; one letter, no
  declared alphabet, a definition that has the name of a case, and formulas the source refuses are
  there once or more.  `CellBudget` is 31 instead of 500000, so that four static coordinates are too many for the
  full cover and not for the realizable one, and four temporal ones for both.  With three
  codes a register is read that has taken the boundary and two symbols in.
* Sets of two or three words make odd and even counts; two attempts make a set
  that is filled at once, at the second attempt, or never.
* The schedules put the beginning of the hard phase at the first step, in the
  middle and at the end, with logged steps that miss it; two restarts are what a
  comparison needs.
* Three cells are two sizes of one source and one of the other; one
  resubmission, allowed to the largest cell, is a reader that meets a new program next to
  an old record, or a partial one.  A table is made once per directory and one
  checking script is watched, because scripts do not read each other's output.
* Two process starts suffice for a resumed run; a third would only repeat what
  the second can do, since a process reads nothing but the record file.
* `MaxHeight` is 7: the formulas that are compiled need 3 (`InputsCompile` would fail below
  it), an elimination nests connectives and needs the rest.  Functions on formulas are evaluated
  where they are applied, so a larger bound would change nothing.
* Counters are bounded by constants of their modules alone: `MaxWord`, `Contents`,
  `MaxStarts`, `MaxLength`, `GateSteps`, `TableSteps`, `MaxPadding`, `Builds`,
  `Attempts`, `MaxKills`, `MaxLetters`, `MaxCodes`, `WordBound`, `SuffixBound`.

### Deadlock

Deadlock checking is switched off in every configuration: each modelled program
terminates (a verdict is printed, the call returns, the processes are used up,
the program is read back), and a terminated program has no step.  That they do
not stop earlier is what `KeepsPromise` (the fairness of `EmptinessCheck`
included) and `RunEnds` say for the programs that answer, `SuccessMeansComplete` and
`BuildsNeverMix` for what is left on disk.

## 4. Fairness

The two searches run on one thread that nobody suspends, so weak fairness
of the whole next-state relation is justified: the program takes its next step.
No fairness is assumed between alternatives.  In `BaselinesSpec` weak fairness
covers the batch process's own steps (`RunnerStep`) alone; neither `Start`, nor
`EditInput`, nor `Kill` is fair, so a process may or may not be killed or restarted.  A
repetition is taken to end, since the engine is run under a time limit
(`measure` passes one to the subprocess).  The other specifications state no
fairness: a training job may never finish, a script may never be started, and
nothing that is checked of them says that something will happen.

## 5. What is proved

TLAPS checks the theorems below for every value of the constants.  Each strengthened
invariant was checked by TLC on an instance before it was proved.  The assumptions
are the named ones of the modules:

* `ReachableSearch`, `ConflictSearch`: the initial summary is a summary,
  `NoSummary` is none, the alphabet size is a natural number, budgets are integers;
  for `ConflictSearch` there are finitely many summaries (`SummariesAssumption`: they
  are Boolean functions of the states), which only `ConflictTruncationCorrect` uses.
* `Datasets`: a call asks for a task with what `resolve` gives its tasks (`Resolved`: the letters
  of a task of Figure 2 are distinct and as many as its parameter says, and so on), a number of
  words and lengths (`CallsAssumption`), and there is an attempt.  Words of `tomita_2` have at most 127
  letters, because `tasks.py` writes that language down as the set of its words (10)^k up to k = 63;
  the longest any plan asks for is 40.
* `Training`: an accuracy is a number of `0..Perfect`, there are models and losses,
  the hard phase begins within the steps.
* `UhatStudy`: the grid has cells, and cells, languages and results have the fields
  the scripts use (`CellsAssumption`, `LanguagesAssumption`, `ResultsAssumption`).
* `BatchRunner`: no case is listed twice, a case is measured at least once, and the
  outcomes of a measurement are none of the marks the runner makes itself
  (`CasesAssumption`, `RepetitionsAssumption`, `OutcomesAssumption`).
* `Minimize`: an automaton has a state (`ShapesAssumption`).
* `SummarySpec` starts from any automaton that is `WellFormed` and `VeryWeak`.  These
  are the two facts the code relies on without testing them: no state is listed twice
  and transitions lead to listed states; the goto states that a state's value can depend
  on (its support) all come before it.  `CompilationIsVeryWeak` proves both of every
  automaton that the compiler makes.
* `TwoLtl`: `MaxHeight` is a natural number.  The theorems hold for every value of it, so
  for formulas of any height.
* The last three theorems of `CompilerProofs` assume `CompilableInputs`: each input is a DAG that
  `Compilable` describes.  The front ends write definitions before their uses and test
  boundaries in their own direction only; what a hand-written file can do instead is in section 6
  (`forward_reference`, `future_bos`), where the theorems' conclusions fail.  TLC evaluates the
  assumption for the DAGs of the run (`InputsCompile`).

**NativeProofs, the exploration.**  `ExplorationExact` says nothing before the search is
over and is not inductive.  `SearchInv` adds what each intermediate state owes:
numbers are a bijection onto `0..idCount-1` (`Numbering`); all that is numbered
is reachable; each numbered summary is queued, being expanded with its edges
below `sym` recorded, or fully expanded (`Frontier`); every edge in the table is
one of `delta` (`EdgesAreReal`); what `truncated` and `explored` mean
(`Conclusion`).  When the queue is empty, `Frontier` makes the numbered
summaries a closed set that contains the initial one, and reachability is the
least such set.  From it follow `NumberingCorrect`, `ExplorationCorrect`,
`TruncationCorrect` (a missing successor of a reachable summary is reachable and
not numbered), `NumbersStable`; `QueueOrdered` adds the order of the queue.

**NativeProofs, the verdict.**  `NativeRefines` is the safety part of `KeepsPromise`: each step of the
backend is the one `Answer` of `EmptinessCheck` or leaves its variables alone,
with `accepted` mapped to the backend's `CountedAsAccepted`.  PROVED needs the
second search to miss nothing.  `NativeInv` adds to `SearchInv` that a visited state
is waiting in the queue, being expanded with its edges below `wsym` followed, or
expanded, and that none of them but the initial one accepts until a target is found.
When the queue is empty the visited states are closed under the table, the table is
the automaton (`ExactWhenDone`), and an accepting summary other than the initial
one would have been visited.  NOT PROVED needs only that a target is accepting.

`WitnessIsShortest` says that the counterexample is accepted and that no shorter nonempty word
ends in an accepting summary other than the initial one; accepted words that end in the
initial summary, which `witness` never reports, may be shorter.  No variable holds the level
of a state, so `WitnessInv` says that levels exist: there is a function from the visited
states to the numbers that is 0 at the initial one, grows by one along the recorded parents,
does not decrease along the queue and spans at most two values there, and no
edge that has been followed leads more than one level up.  Every word of length n then
leads to a state of level at most n (`LeastNumber` gives the induction), and walking
back along the parents spells a word as long as its level.

**DfaProofs, the conflict search.**  Neither `dead` nor `onStack` is closed under `delta`
by itself while the search runs, so `ProvedIsSound` needs the two together:
`ConflictInv` says that each symbol that has been tried, from a dead summary or
from a frame, leads to a rejecting summary whose projection is dead or on the
stack, that frames have distinct projections, and that the frames are a path from
the initial summary.  That the projection is a bisimulation carries this from one
summary to all with its projection (`CoveredByProjection`).  When the outermost
call returns, the stack is empty and the dead summaries are a closed set of
rejecting ones that contains the initial summary; `ProvedSound` follows since
reachability is the least closed set.  `DeadCovered`, `ConflictTypeCorrect` and
`FoundUnwinds` follow as well.  `ConflictRefines` is the refinement of
`EmptinessCheck`; that NOT PROVED is right needs the frames to stand on reachable
summaries (`PromiseInv`).  `ConflictTruncationCorrect` (UNKNOWN means that more
distinct projections are reachable than the budget allows) counts: `BudgetInv`
says that `visited` is the number of projections that are dead or on the stack, the
initial one not counted.
`ConflictWordIsAccepted` says that the word returned leads to an accepting summary:
`WordInv` relates the letters gathered while the calls return to the frames that are left.

**SummaryProofs.**  The summary after a word is the table of all runs of the
alternating automaton on the mirrored word (`SummaryIsAlwaysTheRun`), and what the
verifier asks of it is what the alternating automaton answers
(`DeterminisationCorrect`).  The run is not obviously well defined: a goto turns the
head back to the pebble, so the recursion goes neither down the word nor up.
`RunTablesAgree` shows that it has one solution, by pebble from right to left, then by
rank, then by head, which is where `VeryWeak` is needed.  `HistoryInv` says
that `history` is what `Consume` makes of the word; a symbol prepended to the mirrored
word adds one pebble position, and the values at the others are not changed by it
(`SummaryInvHolds` carries this through the step).  The static analyses follow
from `SummaryInv`: the function held for a state depends on no goto state outside
the state's support, and for a state determined by the symbol it is the function
made from the last symbol.  From these, the diagonal is a fixpoint of its equations
although it is solved in one pass (`DiagonalIsAlwaysFixpoint`), no valuation outside the realizable
ones is ever consulted (`DiagonalsAreAlwaysRealizable`), and whatever agrees with
a summary on the relevant states accepts when the summary does and is led by each symbol
to what agrees with its successor (`ProjectionIsBisimulation`), which is what
`ConflictSearch` assumes of its `key`; `IrrelevantStatesNeverMatter` is the instance of
it that the run checks.

**FormulaProofs.**  The set of formulas is built in rounds, and tlapm must be shown that functions
on it exist before anything can be said of their values.  `DagSizes` gives each formula of a DAG a
number above those of its operands and, for a reference, of the definition it
refers to: sizes are compared by the place of the definition first and by height second.
`EvalIsTruth` then says that `Eval` is defined and satisfies the equation of every
operator, and from there on a formula's value is a table `e` with `IsTruth(dag, w, e)`.  The two
rewritings have tables as well (`RewriteExists`, layer by layer).  `MirrorKeepsMeaning`
says that a formula at (i, j) of a word and its mirror image at (n - i, n - j) of the
reversed word have one value, and `DesugarKeepsMeaning` that a formula and its desugared form
do; both are by least counterexample along the sizes, with one step per operator
(`MirrorMeans`, `DesugarMeans`).  `MirrorEvaluates` and `DesugarEvaluates` are what
they mean for whole DAGs; both also say that the result is a DAG of the next stage.

**CompilerProofs.**  `CompiledRunIsFormula` is the compiler's correctness: any table that meets
the conditions of a run of `fromFuture2ltl`'s automaton has, at the initial state, the value of the
formula.  Its parts:
a positive formula is said to be right for a formula and a polarity when it has the formula's value
under every letter *provided* that the atoms it mentions have the right ones (`Says`), and
pushing negations to the leaves keeps this (`PushedSays`).  So `predicate`, the loop of an Until and
`topAt` are right in this sense (`PredicateIsPositive`, `UntilAtIsPositive`,
`TopAtIsPositive`).  That the atoms are right is an induction along the order in which the
automaton can move: carry moves the pebble to the right (`RunsAreRight`, from the end of the word
back), goto leads to a definition before the state's own (`PebbleIsRight`), leave moves the head to the
right and stays in the loop (`UntilStatesAreRight`), and at the end of the word the value is
`finalOf`'s (`FinalIs`).  In particular a nested Until needs a state of its own: the loop
must come back to the Until alone.
`CompilationIsVeryWeak` is about the order of the states: a state of the k-th definition, or of an Until nested in
it, reaches by leave itself or such an Until, and by goto only definitions before the k-th
(`CompiledAtoms`, `CompiledSupport`), and those come first in `RankOrder` (`CompiledOrder`).
So the pipeline implements `SummarySpec` (`PipelineDeterminises`) and all of `SummaryProofs` holds of
it.  `CompilerCorrect` and `PipelineCorrect` are the two properties of the run `pipeline` that speak of
formulas, for every set of DAGs that compile and words of every length; the second combines
`DeterminisationCorrect`, `CompilerCorrect` and, for past DAGs, `MirrorEvaluates`.

**DfaProofs, minimisation.**  `BlocksAreAlwaysMooreClasses` says of each round r that the blocks are
the classes of states that accept the same words up to length r.  `MooreInv` adds that
the numbers of the blocks are `0..blockCount - 1` with none left out, and that rounds and blocks grow
together (`round + 1 <= blockCount`): a refinement with as many blocks as before is the same
partition, so the comparison by count is a sound stop test and it succeeds within as many
rounds as there are states.  `QuotientIsAlwaysMinimal` follows: the quotient accepts
what the table accepts, and any two of its states are told apart by a word no longer than
the number of states.

**BatchProofs.**  `BatchInv` rests on one predicate, of being a run of the manifest up to some
case (`IsRunOfCases`), which holds of the file, of the records in memory and of those
the process found.  `MemoryInv` adds that what the process found is kept in its own list with the
result that was found, that `failed` is the set of families with a failure in that list, and
that the file is the list or follows it by one record.  From
it follow `DiskIsAlwaysOneRun`, `SkipsAreAlwaysJustified`, `ResumingKeepsResults`
(an action property) and `SuccessIsComplete`.

**LearningProofs, the data sets.**  A sampler and the predicate of its task are two descriptions of one
language, written independently; the label always comes from the predicate, so a
construction that is off by one goes unnoticed.  For each sampler the proofs say what letters its
words have, place by place, and what the predicate makes of them: for seven of the eight paired
tasks a positive is in the language and a negative is not (`YWords` to `SameWords`; the eighth,
`lms`, draws again until the label is right), and for the four mutated ones
the words that edits start from are (`Tomita1Words` to `Tomita4Words`; that no three zeros meet
where two groups are joined, or where the last one is cut, is `GroupsStaySpaced`).
`WordsAreAlwaysAimed` is this for the loop.  `BucketsFillInTurn`, the other half of `DataInv`, gives the
size of both buckets after each word of the first attempt, so both are full at the last word whether
the count is even or odd (`PairedSetsAreAlwaysBalanced`, which is proved and in no run).

**LearningProofs, the study and the trainers.**  For the study, `StudyInv` says that a file exists only of a
cell that was trained, that a trained cell keeps its result, and that whatever a
script has read of a cell is of a trained one; that best picks a row of each language
its table solves on one source (`PicksCover`); and that `uhat_verify.py` has proved, or will
ask about, each language it promised (`VerifyGoesThrough`).  `PicksAreTransferable`,
`VerdictsAreAlwaysTrue`, `AgreementIsAlwaysEarned` (in no run) and `SuccessAlwaysMeansProved` follow.
For the trainers, `NeverWorseThanSoft` speaks of finished restarts only.
`TrainInv` says why it will hold: in the hard phase of a Boolean restart either
the soft phase's last model is still there, not moved since, or a hard
model at least as accurate is kept, because the first hard step looks at the model
before it moves it.  With it go that a kept model has the accuracy it is kept
for, that a finished fit has the accuracy of its model, and that the best fit is
one of the fits and none of them beats it, in accuracy first and for the Boolean
trainer in loss second.  `HardPhaseNeverHurts` and `BestIsReturned` follow.

**Facts only proved, not checked by a run.**  That numbers are dense and stable
(`NumberingCorrect`, `NumbersStable`), that the queue is in the order of discovery
(`QueueOrdered`), that calls only return once a word is found (`FoundUnwinds`), that
the conflict search's word is accepted (`ConflictWordIsAccepted`), the equation of the two acceptances
(`DeterminisationCorrect`), that the projection is a bisimulation (`ProjectionIsBisimulation`), that mirroring and
desugaring keep the meaning (`MirrorEvaluates`, `DesugarEvaluates`) and the types (`TypeCorrect`, `ConflictTypeCorrect`) hold
for every instance, so the runs are spent on other questions.

**What the proofs changed in the model.**  The order in which the checking scripts
look for phrases (`Reading`, `ReadingEquivalence`) and the two classifiers of `SolverRun` were CASE
expressions with overlapping guards, of which TLA+ chooses one without saying
which; they are IF chains now, in the source's order.  `SkipsAreJustified` was
strengthened to say of every record whether it is a skip, in both directions.  `PvwaaRun` was a
RECURSIVE operator and is a recursive function; `Closure` takes its successor map
as a function.  `TwoLtl` and `Pvwaa` were written with RECURSIVE operators, which the prover cannot
reason about; they are recursive functions over the formulas up to a height now, which made
explicit what a formula is (`Formulas`) and which DAGs compile (`Compilable`).

**Model-checked only.**  Liveness (`RunEnds`, and that an answer comes, the
fairness part of `KeepsPromise`), which is beyond TLAPS here.  What rests on the
recursive structure of B-RASP programs and of the generator's formulas: all of `programs`, the corpus part of
`automata`, and the solver part of `baselines`; the modules concerned declare RECURSIVE operators, from
which the prover has no way to reason.  The two eliminations and the circuits, which are written with
functions on formulas and could be proved about as `CompilerProofs` does it.  As `TwoLtl` and `Pvwaa` show, they could be
written as functions, at the price of saying what the set of programs is.  Induction over words,
numbers and sizes has no obstacle, since a least
counterexample can be taken instead (`LeastNumber`, `NumbersFollow`).  That
`resolve` makes only tasks that are `Resolved` is evaluated by TLC for the calls of `learning`; the
names of ranked letters are strings computed from numbers, of which the prover knows nothing.

## 6. Disagreements found

* `native_empty_word`: `T.nativeSummary` searches also when the initial summary
  is accepting, although `BA.witness` is documented as meaningful only when it
  is not (BA:476).  It marks the initial state visited, so an automaton whose only
  accepting state is the initial one, reachable again by a nonempty word, is
  PROVED.  `KeepsPromise` says exactly what the answer does mean in that case:
  accepted words that end in the initial summary are not counted.
* `conflict_empty_word`: `conflictWitness` answers `Some(Nil)` for an accepting
  initial summary, which is rendered NOT PROVED, while T:257-258 says that the
  empty word is reported but excluded from the verdict.  So the two native
  backends may disagree on one input.
* `forward_reference`: ranks are the order of the definitions as the file lists
  them, `LtlText.parse` does not sort them, and `diagonal` solves in rank order;
  BA:250-252 claims that only lower ranks are consulted.
* `future_bos`: a `BOS` atom in a strict-future DAG compiles to a test that never
  holds, while `Ltl.atomValue` makes it true at position 0.
* `batch_resume`: a resumed run rewrites the record file from its first case on;
  a kill or refusal before the replay is complete drops the remaining records.

Smaller observations, which the model repeats and the properties leave room for:

* `TwoLtlToOneVariable.translate` splits definitions only.  An output that is itself an operator with two
  variables, which `LtlText.parse` takes (`output := EXPR`) and `Pvwaa` compiles, comes out as it went in,
  and `--one-variable --ltlf` ends in the advice to use `--one-variable` (`LtlfExport.scala:215-216`);
  `SharedOneVariableLtl` does split it.
* `uhat_identify.py:71`: the catalogue's `first_is_x` rejects the one-letter word x,
  at whose only position neither of its disjuncts can hold.
* `uhat/train.py`: when the kept hard model is returned, the loss that decides between equally
  accurate restarts is that of the last step, not of the model returned.
* `uhat/tasks.py`: `figure2_mono_word` and its relatives raise on an alphabet of one
  letter, which `resolve` accepts (`DrawFails`).
* `uhat_verify.py` on a table without picks takes rows of either source but looks
  for the program in one directory; `SuccessMeansProved` therefore speaks of
  languages all of whose rows have one source.
* BA:596-598 says that `conflictWitness` counts like `reachable`, whose initial
  state "doesn't count": in `reachable` it does (BA:459 compares `ids.size`).
  BA:548-550 says that `dead` holds summaries proven hopeless; a summary that leads
  back into an unfinished ancestor is put there too, and `DeadIsCovered` is what
  does hold.

## 7. Not modelled, and why

* BDD manager (`bdd/Bdd.scala`): `SummaryAutomaton` takes a BDD to be the set of its
  valuations; unique table, memo tables and node limit are not there, and so
  neither are the translator's error paths when the limit is hit.
* AIGER encoder of PVWAAs (`aiger/Aiger.scala`) and ABC: the facts about realizable cells and block 0 that the
  encoder leans on are checked; its latches and gates and ABC's output are not.  Of the circuits of
  `DirectSummary` the literals, shared gates and bytes are left out.
  `--run-auto`'s tiers, exit codes and artifacts belong to the same gap.
* B-RASP in Scala, inclusion, LTLf and LTLp front ends:
  further compilers onto the same DAGs.  The Scala evaluator repeats the Python one
  that `Brasp` models.  (`Eliminate` of `PastFormulas` is the generator's own
  elimination; the verifier's two are `TwoLtlToOneVariable` and `SharedOneVariableLtl`.)
* Text formats and JSON of the verifier: sequential string code with round-trip
  tests in the repository.
* The soft forward passes, gradients, surrogate losses and floating-point
  arithmetic: what training can do to the parameters is left open entirely.
* In modelled files: `iid_split`, `population_upto` and the enumerated part of a training set
  (`tasks.py`); `sample_languages`, `sample_diverse`, `canonical_dfa` and
  `program_task` (`random_programs.py`, `programs.py`); `run_deep` and
  `describe` (`brasp.py`); bit atoms and the size cap of `LtlfExport.scala`;
  the numerical columns of the study's tables and the replay on the jar; the
  record loops of the Aalta and LTLf scripts, which do not resume.
* That a program of the catalogue means its name: `programs` checks that the catalogue's programs
  survive writing and reading, no more.
* Plots and the remaining study scripts (`plot_exp_scaling.py`,
  `ltl_scaling_study.py`, `markey_fair_ltl.py`, `uhat_figure2_study.py`,
  `uhat_identify.py`'s search over the verifier, other batch runners):
  measurement, tables and drawings without a state that lasts.
* The JVM's stack, which `main` raises and which no finite model says anything about.

Worth doing next: `Brasp` written with functions on programs, so that extraction and padding
can be proved about as the compiler is; a `BddManager` with the error
paths of `runStages`; the tiers of `--run-auto` implementing `EmptinessCheck`.

## 8. Running

In this directory, with TLC and TLAPS installed:

    tlc -workers 2 -config MCNativeCheck.cfg MCNativeCheck
    tlapm NativeProofs.tla

Each `.cfg` belongs to the MC module that `PROJECT.json` names for it.  The
operators with a comment that starts with "Mutant" are deliberate mistakes, listed
in `PROJECT.json` under "mutants" with the property that exposes each.
