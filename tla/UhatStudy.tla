-------------------------------- MODULE UhatStudy --------------------------------
(***************************************************************************)
(* The study around the trainers, as the scripts run it: a Slurm array of  *)
(* jobs, one per cell of a grid, each of which ends by writing its program *)
(* and then its record (train.main); uhat_sweep.py collect and best;       *)
(* uhat_verify.py, uhat_emptiness.py, uhat_certify.py and                  *)
(* uhat_select_verify.py, which run the verifier on the programs.          *)
(*                                                                         *)
(* A job may be killed and submitted again while the readers run.  Seeds   *)
(* are fixed, so that a cell trained again gives the same result.  The     *)
(* built-in tasks and the .brasp specifications are trained into           *)
(* directories of their own: one language, two samplers and test sets.     *)
(*                                                                         *)
(* A file is absent, partial (opened, not yet written) or whole.  An       *)
(* accuracy is 0..Exact.                                                   *)
(***************************************************************************)
EXTENDS Integers, FiniteSets

CONSTANTS
    Cells,      \* the grid: task, spec (against a .brasp file?), layers, heads, terms
    Languages,  \* task -> possible facts: hasSpec, empty, skewed (spec -> BOOLEAN)
    Results,    \* what training can give: same, empty, train, test, ops
    Exact,
    MaxKills,   \* bound: jobs killed, or submitted again
    Unlucky     \* bound: the cells this happens to

VARIABLES
    facts,      \* task -> the facts of its language
    result,     \* cell -> what training it gives, Untrained before
    job,        \* cell -> "waiting", "program", "record" (being written), "done"
    program, record,    \* cell -> its two files
    kills,
    collector,  \* the running collect, Idle if none
    csv,        \* spec -> the rows of that directory's table
    picks,      \* the rows best read and those it chose
    tool        \* the checking script

jobVars == <<result, job, program, record, kills>>
studyVars == <<facts, jobVars, collector, csv, picks, tool>>

Tasks == {c.task : c \in Cells}

FactType == [hasSpec : BOOLEAN, empty : BOOLEAN, skewed : [BOOLEAN -> BOOLEAN]]
ResultType == [same : BOOLEAN, empty : BOOLEAN, train : 0..Exact, test : 0..Exact, ops : Nat]

ASSUME CellsAssumption ==
    Cells \subseteq [task : Tasks, spec : BOOLEAN, layers : Nat, heads : Nat, terms : Nat]
ASSUME LanguagesAssumption == \A t \in Tasks : Languages[t] \subseteq FactType
ASSUME ResultsAssumption == Results \subseteq ResultType /\ Exact \in Nat

Untrained == [train |-> -1]
Idle == [dir |-> FALSE, todo |-> {}, rows |-> {}, running |-> FALSE]
NoTool == [name |-> "none", state |-> "idle", read |-> {}, todo |-> {}, rows |-> {}]

\* What a language and a training result can have to do with each other: the
\* right program scores 1.0 and is empty when the language is; an empty program
\* of an empty language is right.
Possible(task, r) ==
    /\ r.same => r.train = Exact /\ r.test = Exact /\ r.empty = facts[task].empty
    /\ r.empty /\ facts[task].empty => r.same

StudyInit ==
    /\ facts \in {f \in [Tasks -> UNION {Languages[t] : t \in Tasks}] :
                    \A t \in Tasks : f[t] \in Languages[t]}
    /\ result = [c \in Cells |-> Untrained]
    /\ job = [c \in Cells |-> "waiting"]
    /\ program = [c \in Cells |-> "absent"]
    /\ record = [c \in Cells |-> "absent"]
    /\ kills = 0
    /\ collector = Idle
    /\ csv = [dir \in BOOLEAN |-> {}]
    /\ picks = [read |-> {}, chosen |-> {}]
    /\ tool = NoTool

\* Files and rows are taken in a fixed order, that of their names.
First(cells) == CHOOSE c \in cells : TRUE

\* Bound: what one checking script answers is looked at, and nothing after it.
Before == tool.state = "idle"
Watched == tool.state \in {"idle", "running"}

-----------------------------------------------------------------------------
\* Training jobs.

TrainCell(c) ==
    /\ Watched /\ job[c] = "waiting"
    /\ c.spec => facts[c.task].hasSpec
    /\ IF result[c] = Untrained
       THEN \E r \in Results : Possible(c.task, r) /\ result' = [result EXCEPT ![c] = r]
       ELSE UNCHANGED result
    /\ program' = [program EXCEPT ![c] = "partial"]
    /\ job' = [job EXCEPT ![c] = "program"]
    /\ UNCHANGED <<facts, record, kills, collector, csv, picks, tool>>

WriteProgram(c) ==
    /\ Watched /\ job[c] = "program"
    /\ program' = [program EXCEPT ![c] = "whole"]
    /\ record' = [record EXCEPT ![c] = "partial"]
    /\ job' = [job EXCEPT ![c] = "record"]
    /\ UNCHANGED <<facts, result, kills, collector, csv, picks, tool>>

WriteRecord(c) ==
    /\ Watched /\ job[c] = "record"
    /\ record' = [record EXCEPT ![c] = "whole"]
    /\ job' = [job EXCEPT ![c] = "done"]
    /\ UNCHANGED <<facts, result, program, kills, collector, csv, picks, tool>>

\* Killed at its time limit, or done and submitted once more.
Resubmit(c) ==
    /\ Watched /\ job[c] # "waiting"
    /\ c \in Unlucky
    /\ kills < MaxKills
    /\ kills' = kills + 1
    /\ job' = [job EXCEPT ![c] = "waiting"]
    /\ UNCHANGED <<facts, result, program, record, collector, csv, picks, tool>>

-----------------------------------------------------------------------------
\* uhat_sweep.py collect: list the records, read them one by one, skip the
\* malformed ones, replace the table.  Bound: a table is made once.

BeginCollect(dir) ==
    /\ Before /\ ~collector.running /\ csv[dir] = {}
    /\ collector' = [dir |-> dir, todo |-> {c \in Cells : c.spec = dir /\ record[c] # "absent"},
                     rows |-> {}, running |-> TRUE]
    /\ UNCHANGED <<facts, jobVars, csv, picks, tool>>

ReadRecord ==
    /\ Before /\ collector.running /\ collector.todo # {}
    /\ LET c == First(collector.todo)
       IN  collector' = [collector EXCEPT
                !.todo = @ \ {c},
                !.rows = IF record[c] = "whole" THEN @ \cup {c} ELSE @]
    /\ UNCHANGED <<facts, jobVars, csv, picks, tool>>

EndCollect ==
    /\ Before /\ collector.running /\ collector.todo = {}
    /\ csv' = IF collector.rows = {} THEN csv ELSE [csv EXCEPT ![collector.dir] = collector.rows]
    /\ collector' = Idle
    /\ UNCHANGED <<facts, jobVars, picks, tool>>

-----------------------------------------------------------------------------
\* uhat_sweep.py best.  Bound: it runs once.

LexLess(a, b) ==
    \E k \in DOMAIN a : a[k] < b[k] /\ \A earlier \in 1..(k - 1) : a[earlier] = b[earlier]

Size(c) == <<c.layers, c.heads, c.terms, result[c].ops>>

\* The first of the smallest.
Smallest(cells) == CHOOSE c \in cells : \A d \in cells : ~LexLess(Size(d), Size(c))

\* Exact on the training words and on the longer ones.
Solved(c) == result[c].test = Exact /\ result[c].train = Exact

\* Mutant: the rows of both sources compete.
Candidates_Mixed(task, rows) == {c \in rows : c.task = task}

\* Where a language has rows trained against its specification, only those.
Candidates(task, rows) ==
    LET all == {c \in rows : c.task = task}
        fromSpec == {c \in all : c.spec}
    IN  IF fromSpec # {} THEN fromSpec ELSE all

\* The positive rate of the test set is outside of 0.05..0.95.
Inconclusive(cells) == \E c \in cells : facts[c.task].skewed[c.spec]

Chosen(rows) ==
    {Smallest({c \in Candidates(t, rows) : Solved(c)}) :
        t \in {u \in Tasks : /\ ~Inconclusive(Candidates(u, rows))
                             /\ \E c \in Candidates(u, rows) : Solved(c)}}

ChooseBest ==
    /\ Before
    /\ \E dirs \in SUBSET BOOLEAN :
        LET rows == UNION {csv[d] : d \in dirs}
        IN  /\ rows # {} /\ picks.read = {}
            /\ picks' = [read |-> rows, chosen |-> Chosen(rows)]
    /\ UNCHANGED <<facts, jobVars, collector, csv, tool>>

-----------------------------------------------------------------------------
\* The checking scripts.  Programs and records are found by task and
\* architecture in the directory of the specifications' runs.

Located(c) == [c EXCEPT !.spec = TRUE]
Exists(file, c) == Located(c) \in Cells /\ file[Located(c)] # "absent"

\* uhat_verify.py on a sweep's table: the solved row with the fewest operations.
VerifyRank(c) == <<result[c].ops, c.layers, c.heads, c.terms>>
FewestOperations(rows) ==
    LET solved(t) == {c \in rows : c.task = t /\ Solved(c) /\ facts[t].hasSpec}
    IN  {CHOOSE c \in solved(t) : \A d \in solved(t) \ {c} : LexLess(VerifyRank(c), VerifyRank(d)) :
            t \in {u \in Tasks : solved(u) # {}}}

\* uhat_select_verify.py: an exact fit, or else the one that comes closest.
Closeness(c) == <<-result[c].train, -result[c].test, c.layers, c.heads, c.terms>>
SelectOne(cells) ==
    LET exact == {c \in cells : Solved(c)}
    IN  IF exact # {} THEN CHOOSE c \in exact : \A d \in exact \ {c} :
                                LexLess(<<c.layers, c.heads, c.terms>>, <<d.layers, d.heads, d.terms>>)
        ELSE CHOOSE c \in cells : \A d \in cells \ {c} : LexLess(Closeness(c), Closeness(d))

Recorded == {c \in Cells : c.spec /\ record[c] # "absent"}

Launch(name, rows, todo) ==
    /\ Before
    /\ tool' = [name |-> name, read |-> rows, todo |-> todo, rows |-> {},
                state |-> IF todo = {} THEN "failed" ELSE "running"]
    /\ UNCHANGED <<facts, jobVars, collector, csv, picks>>

LaunchVerify ==
    /\ csv[TRUE] # {}
    /\ Launch("verify", csv[TRUE], FewestOperations(csv[TRUE]))

\* A picks file names no accuracies; a language without a specification file
\* is left out.
LaunchVerifyPicks ==
    /\ picks.read # {}
    /\ Launch("verify", picks.read, {c \in picks.chosen : facts[c.task].hasSpec})

LaunchEmptiness == picks.chosen # {} /\ Launch("emptiness", picks.read, picks.chosen)

\* The table that is given may be any, also one that nobody has filtered.
LaunchEmptinessUnfiltered ==
    csv[FALSE] # {} /\ Launch("emptiness", csv[FALSE], csv[FALSE])

LaunchCertify == Recorded # {} /\ Launch("certify", Recorded, Recorded)

LaunchSelect ==
    /\ Recorded # {} /\ \A c \in Recorded : record[c] = "whole"
    /\ Launch("select", Recorded, {SelectOne({c \in Recorded : c.task = t}) :
                                    t \in {c.task : c \in Recorded}})

\* What the verifier may answer to a question whose answer is yes or no, and
\* the phrases its output then holds: NOT PROVED holds PROVED.
Answers(file, truth) ==
    {"crash", "timeout"} \cup IF file = "whole" THEN {IF truth THEN "yes" ELSE "no"} ELSE {}
Phrases(answer) ==
    CASE answer = "yes" -> {"PROVED"} [] answer = "no" -> {"PROVED", "NOT PROVED"} [] OTHER -> {}

AskEqual(c) == Answers(program[c], result[c].same)
AskEmpty(c) == Answers(program[c], result[c].empty)

\* Mutant: the phrase that is looked for first is part of the other.
Reading_ShortestFirst(answer) ==
    IF "PROVED" \in Phrases(answer) THEN "yes"
    ELSE IF "NOT PROVED" \in Phrases(answer) THEN "no" ELSE "unknown"

Reading(answer) ==
    IF "NOT PROVED" \in Phrases(answer) THEN "no"
    ELSE IF "PROVED" \in Phrases(answer) THEN "yes" ELSE "unknown"

\* Two scripts look for the whole sentence that answers yes to the question
\* whether two programs are equivalent, uhat_certify.py before NOT PROVED.
EquivalencePhrases(answer) ==
    Phrases(answer) \cup IF answer = "yes" THEN {"the languages are equivalent"} ELSE {}

ReadingEquivalence(answer) ==
    IF "the languages are equivalent" \in EquivalencePhrases(answer) THEN "yes"
    ELSE IF "NOT PROVED" \in EquivalencePhrases(answer) THEN "no" ELSE "unknown"

\* May a row carry evidence?
Classify(c) ==
    IF facts[c.task].skewed[c.spec] THEN "degenerate"
    ELSE IF Solved(c) THEN "ok" ELSE "unsolved"

NoRow == [equal |-> "unasked", empty |-> "unasked", specEmpty |-> "unasked",
          status |-> "none", agrees |-> "none"]

\* The row of an emptiness check: both programs are asked, and the answers
\* compared when the row may carry evidence.
EmptinessRow(c, learned, spec) ==
    LET empty == Reading(learned)
        specEmpty == IF facts[c.task].hasSpec THEN Reading(spec) ELSE "unknown"
    IN  [NoRow EXCEPT !.empty = empty, !.specEmpty = specEmpty, !.status = Classify(c),
            !.agrees = IF Classify(c) # "ok" \/ "unknown" \in {empty, specEmpty} THEN "none"
                       ELSE IF empty = specEmpty THEN "true" ELSE "false"]

Add(c, row) ==
    tool' = [tool EXCEPT !.todo = @ \ {c}, !.rows = @ \cup {[cell |-> Located(c), row |-> row]}]
PassOver(c) == tool' = [tool EXCEPT !.todo = @ \ {c}]
Crash == tool' = [tool EXCEPT !.state = "crashed", !.rows = {}]

\* One item of each script.
VerifyMissing(c) ==
    /\ tool.name = "verify" /\ ~Exists(program, c)
    /\ Add(c, [NoRow EXCEPT !.equal = "missing"])

VerifyOne(c) ==
    /\ tool.name = "verify" /\ Exists(program, c)
    /\ \E answer \in AskEqual(Located(c)) : Add(c, [NoRow EXCEPT !.equal = Reading(answer)])

EmptinessMissing(c) ==
    /\ tool.name = "emptiness" /\ ~(Exists(program, c) /\ Exists(record, c))
    /\ PassOver(c)

EmptinessOne(c) ==
    /\ tool.name = "emptiness" /\ Exists(program, c) /\ record[Located(c)] = "whole"
    /\ \E learned \in AskEmpty(Located(c)), spec \in Answers("whole", facts[c.task].empty) :
            Add(c, EmptinessRow(Located(c), learned, spec))

\* json.loads raises on a record that is being written.
MalformedRecord(c) ==
    /\ tool.name \in {"emptiness", "certify"}
    /\ Exists(program, c) /\ Exists(record, c) /\ record[Located(c)] = "partial"
    /\ Crash

\* A timeout is not caught: the rows so far are lost with it.
CertifyOne(c) ==
    /\ tool.name = "certify" /\ record[c] = "whole"
    /\ \E equal \in AskEqual(c), empty \in AskEmpty(c) :
            IF "timeout" \in {equal, empty} THEN Crash
            ELSE Add(c, [NoRow EXCEPT !.equal = ReadingEquivalence(equal), !.empty = Reading(empty)])

SelectVerifyOne(c) ==
    /\ tool.name = "select"
    /\ \E equal \in AskEqual(c), empty \in AskEmpty(c) :
            Add(c, [NoRow EXCEPT !.equal = ReadingEquivalence(equal), !.empty = Reading(empty)])

CheckNext ==
    /\ tool.state = "running" /\ tool.todo # {}
    /\ LET c == First(tool.todo)
       IN  \/ VerifyMissing(c) \/ VerifyOne(c)
           \/ EmptinessMissing(c) \/ EmptinessOne(c) \/ MalformedRecord(c)
           \/ CertifyOne(c) \/ SelectVerifyOne(c)
    /\ UNCHANGED <<facts, jobVars, collector, csv, picks>>

\* Mutant: programs that are missing do not count as errors.
Failures_DifferentOnly == {r \in tool.rows : r.row.equal = "no"}

\* Rows that make uhat_verify.py fail.
Failures == {r \in tool.rows : r.row.equal # "yes"}

EndCheck ==
    /\ tool.state = "running" /\ tool.todo = {}
    /\ tool' = [tool EXCEPT !.state =
                    IF tool.name = "verify" /\ Failures # {} THEN "failed" ELSE "succeeded"]
    /\ UNCHANGED <<facts, jobVars, collector, csv, picks>>

StudyNext ==
    \/ \E c \in Cells : \/ TrainCell(c) \/ WriteProgram(c)
                        \/ WriteRecord(c) \/ Resubmit(c)
    \/ \E dir \in BOOLEAN : BeginCollect(dir)
    \/ ReadRecord \/ EndCollect \/ ChooseBest
    \/ LaunchVerify \/ LaunchVerifyPicks
    \/ LaunchEmptiness \/ LaunchEmptinessUnfiltered \/ LaunchCertify \/ LaunchSelect
    \/ CheckNext \/ EndCheck

StudySpec == StudyInit /\ [][StudyNext]_studyVars

-----------------------------------------------------------------------------
\* Properties.

\* A configuration chosen on one source does not transfer to the other: what
\* best picks for a language is exact, comes from a conclusive test set, is
\* trained against the specification if any row read is, and nothing smaller
\* of the same source is exact.
PicksTransfer ==
    \A c \in picks.chosen :
        /\ result[c].train = Exact /\ result[c].test = Exact
        /\ ~facts[c.task].skewed[c.spec]
        /\ \A d \in picks.read :
            d.task = c.task =>
                /\ d.spec => c.spec
                /\ d.spec = c.spec /\ Solved(d) => ~LexLess(Size(d), Size(c))

\* Whatever a script reads off the verifier's output, a file that is being
\* written again, a crash or a timeout never becomes a verdict, and a verdict
\* is right about the two programs.
VerdictsAreTrue ==
    \A r \in tool.rows :
        /\ r.row.equal = "yes" => result[r.cell].same
        /\ r.row.equal = "no" => ~result[r.cell].same
        /\ r.row.empty = "yes" => result[r.cell].empty
        /\ r.row.empty = "no" => ~result[r.cell].empty

\* uhat_emptiness.py: agreement is counted only where it was earned, on a
\* test set of both classes by a program exact on all words it was tried on.
AgreementIsEarned ==
    \A r \in tool.rows : r.row.agrees # "none" =>
        /\ ~facts[r.cell.task].skewed[r.cell.spec]
        /\ result[r.cell].train = Exact /\ result[r.cell].test = Exact
        /\ r.row.agrees = "true" => result[r.cell].empty = facts[r.cell.task].empty

\* uhat_verify.py exits with 0 only if each of the languages that the table
\* solves, and that have a specification, has been proved to be learned.
SuccessMeansProved ==
    tool.name = "verify" /\ tool.state = "succeeded" =>
        \A c \in tool.read :
            Solved(c) /\ facts[c.task].hasSpec /\ ~facts[c.task].skewed[c.spec]
                /\ (\A d \in tool.read : d.task = c.task => d.spec = c.spec) =>
                \E r \in tool.rows : r.cell.task = c.task /\ r.row.equal = "yes" /\ result[r.cell].same

=============================================================================
