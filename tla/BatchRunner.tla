------------------------------ MODULE BatchRunner ------------------------------
(***************************************************************************)
(* scripts/nusmv_baseline.py: one engine's batch over an ordered list of   *)
(* instances, as run_nusmv_figure3.py starts and restarts it.  After every *)
(* case the whole record list is written to a temporary file that then     *)
(* replaces the record file; the process may be killed between any two     *)
(* steps and started again, with --resume or from scratch.                 *)
(*                                                                         *)
(* What the operating system keeps is disk and temp; the rest is the       *)
(* memory of the running process, or of the last one when none runs.       *)
(***************************************************************************)
EXTENDS Integers, Sequences, SequencesExt

CONSTANTS
    Cases,         \* the manifest's inputs, in order
    Family,        \* case -> family (the task's name up to "__")
    Reference,     \* some cases -> "empty" or "nonempty"
    SkipAfterFailure,
    Settings,      \* engine, timeout and bound, as one value
    Repetitions,   \* the values of --repetitions considered
    Outcomes,      \* what one repetition can end in
    Contents,      \* bound: an input file has contents 1..Contents
    MaxStarts      \* bound on the processes started

ASSUME CasesAssumption == Cases \in Seq(DOMAIN Family) /\ IsInjective(Cases)
ASSUME RepetitionsAssumption == Repetitions \subseteq Nat \ {0}
ASSUME OutcomesAssumption == Outcomes \cap {"unfinished", "inconsistent", "skipped"} = {}

Decided == {"empty", "nonempty"}
Absent == << >>  \* no file: a record file that exists has a record

VARIABLES
    content,      \* case -> contents of its input file (its sha256)
    disk,         \* the record file, a sequence of records, or Absent
    temp,         \* the .tmp file beside it
    process,      \* "idle", "case", "measure", "write", "replace", "exiting"
    exit,         \* how the last process ended
    starts,
    setting, repetitions,
    resumed,      \* was the process started with --resume?
    previous,     \* the records it found then
    records, failed, samples

files == <<content, disk, temp>>
arguments == <<starts, setting, repetitions, resumed, previous>>
memory == <<records, failed, samples>>
batchVars == <<content, disk, temp, process, exit, starts, setting, repetitions,
               resumed, previous, records, failed, samples>>

CaseSet == Range(Cases)

CasesOf(list) == {list[i].case : i \in DOMAIN list}

BatchInit ==
    /\ content = [c \in CaseSet |-> 1]
    /\ disk = Absent
    /\ temp = Absent
    /\ process = "idle"
    /\ exit = "none"
    /\ starts = 0
    /\ setting \in Settings
    /\ repetitions \in Repetitions
    /\ resumed = FALSE
    /\ previous = {}
    /\ records = << >>
    /\ failed = {}
    /\ samples = << >>

\* A new process, by the user's choice of arguments.
Start ==
    /\ process = "idle"
    /\ starts < MaxStarts
    /\ starts' = starts + 1
    /\ setting' \in Settings
    /\ repetitions' \in Repetitions
    /\ resumed' \in BOOLEAN
    /\ previous' = IF resumed' THEN Range(disk) ELSE {}
    /\ records' = << >>
    /\ failed' = {}
    /\ samples' = << >>
    /\ process' = "case"
    /\ exit' = "none"
    /\ UNCHANGED files

\* Between two runs an input is generated anew.
EditInput ==
    /\ process = "idle"
    /\ starts \in 1..(MaxStarts - 1)
    /\ \E c \in CaseSet :
        /\ content[c] < Contents
        /\ content' = [content EXCEPT ![c] = @ + 1]
    /\ UNCHANGED <<disk, temp, process, exit, arguments, memory>>

case == Cases[Len(records) + 1]

AtCase == process = "case" /\ Len(records) < Len(Cases)

Previously == {r \in previous : r.case = case}

\* Mutant: the configuration may have changed.
Matches_AnySetting(r) == r.content = content[r.case]

Matches(r) == r.setting = setting /\ r.content = content[r.case]

\* The comparison with the reference is made anew whenever a record is kept.
Agreement(status) ==
    IF case \notin DOMAIN Reference \/ status \notin Decided THEN "unchecked"
    ELSE IF status = Reference[case] THEN "agrees" ELSE "differs"

Keep(record) ==
    /\ records' = Append(records, [record EXCEPT !.agreement = Agreement(record.status)])
    /\ failed' = IF record.status \in {"timeout", "size_limit"} THEN failed \cup {Family[case]} ELSE failed
    /\ process' = "write"
    /\ UNCHANGED <<files, exit, arguments>>

NewRecord(status, tries) ==
    [case |-> case, status |-> status, samples |-> tries, setting |-> setting,
     content |-> content[case], agreement |-> "unchecked"]

\* parser.error: the configuration or the input is not the recorded one.
RefuseToResume ==
    /\ AtCase
    /\ \E r \in Previously : ~Matches(r)
    /\ process' = "idle"
    /\ exit' = "refused"
    /\ UNCHANGED <<files, arguments, memory>>

\* Mutant: a replayed failure does not count for the cases after it.
Replay_ForgetsFailure ==
    /\ AtCase
    /\ \E r \in Previously :
        /\ Matches(r)
        /\ records' = Append(records, [r EXCEPT !.agreement = Agreement(r.status)])
    /\ process' = "write"
    /\ UNCHANGED <<files, exit, arguments, failed, samples>>

Replay ==
    /\ AtCase
    /\ \E r \in Previously : Matches(r) /\ Keep(r)
    /\ UNCHANGED samples

MaySkip == SkipAfterFailure /\ Family[case] \in failed

Skip ==
    /\ AtCase
    /\ Previously = {}
    /\ MaySkip
    /\ Keep(NewRecord("skipped", << >>))
    /\ UNCHANGED samples

\* Mutant: a record of another configuration or input is measured again.
BeginMeasure_Mismatch ==
    /\ AtCase
    /\ ~\E r \in Previously : Matches(r)
    /\ ~MaySkip
    /\ process' = "measure"
    /\ samples' = << >>
    /\ UNCHANGED <<files, exit, arguments, records, failed>>

BeginMeasure ==
    /\ AtCase
    /\ Previously = {}
    /\ ~MaySkip
    /\ process' = "measure"
    /\ samples' = << >>
    /\ UNCHANGED <<files, exit, arguments, records, failed>>

\* One repetition: export and solve.  The loop stops at the first repetition
\* that does not decide, or that contradicts an earlier one.
Verdict(tries) ==
    IF Last(tries) \notin Decided THEN Last(tries)
    ELSE IF \E i \in DOMAIN tries : tries[i] # Last(tries) THEN "inconsistent"
    ELSE IF Len(tries) < repetitions THEN "unfinished" ELSE Last(tries)

Repeat ==
    /\ process = "measure"
    /\ \E outcome \in Outcomes :
        LET tries == Append(samples, outcome)
        IN  /\ samples' = tries
            /\ IF Verdict(tries) = "unfinished"
               THEN UNCHANGED <<files, process, exit, arguments, records, failed>>
               ELSE Keep(NewRecord(Verdict(tries), tries))

WriteTemp ==
    /\ process = "write"
    /\ temp' = records
    /\ process' = "replace"
    /\ UNCHANGED <<content, disk, exit, arguments, memory>>

\* checkpoint.replace(args.out), then the stop on a reference mismatch.
Replace ==
    /\ process = "replace"
    /\ disk' = temp
    /\ temp' = Absent
    /\ process' = IF Last(records).agreement = "differs" THEN "exiting" ELSE "case"
    /\ UNCHANGED <<content, exit, arguments, memory>>

\* Mutant: a contradicted reference is not a failure.
Unsound_ErrorsOnly(r) == r.status \in {"error", "inconsistent"}

Unsound(r) == r.agreement = "differs" \/ r.status \in {"error", "inconsistent"}

\* Mutant: the stop on a mismatch is left out.
Finish_CompleteOnly ==
    /\ process = "case" /\ Len(records) = Len(Cases)
    /\ process' = "idle"
    /\ exit' = IF \E i \in DOMAIN records : Unsound(records[i]) THEN "failure" ELSE "success"
    /\ UNCHANGED <<files, arguments, memory>>

Finish ==
    /\ process = "exiting" \/ (process = "case" /\ Len(records) = Len(Cases))
    /\ process' = "idle"
    /\ exit' = IF \E i \in DOMAIN records : Unsound(records[i]) THEN "failure" ELSE "success"
    /\ UNCHANGED <<files, arguments, memory>>

\* The process is killed.
Kill ==
    /\ process # "idle"
    /\ process' = "idle"
    /\ exit' = "killed"
    /\ UNCHANGED <<files, arguments, memory>>

RunnerStep ==
    \/ RefuseToResume \/ Replay \/ Skip \/ BeginMeasure \/ Repeat
    \/ WriteTemp \/ Replace \/ Finish

BatchNext == Start \/ EditInput \/ RunnerStep \/ Kill

BatchSpec == BatchInit /\ [][BatchNext]_batchVars /\ WF_batchVars(RunnerStep)

-----------------------------------------------------------------------------

\* Whatever was killed when, the record file is a run of the manifest from its
\* first case on, measured under one configuration, and only its last record
\* may contradict the reference.
DiskIsOneRun ==
    \A i \in DOMAIN disk :
        /\ disk[i].case = Cases[i]
        /\ disk[i].setting = disk[1].setting
        /\ disk[i].agreement = "differs" => i = Len(disk)

\* A case is skipped exactly when that was asked for and a smaller case of its
\* family ran out of time or memory, also when the failure was recorded by an
\* earlier process.
SkipsAreJustified ==
    \A i \in DOMAIN disk :
        disk[i].status = "skipped" <=>
            /\ SkipAfterFailure
            /\ \E j \in 1..(i - 1) :
                /\ disk[j].status \in {"timeout", "size_limit"}
                /\ Family[disk[j].case] = Family[disk[i].case]

\* Resuming never measures again what it found: a case that the process found
\* recorded is on disk, if at all, with the result that was found, and
\* measured on the contents that were found.
ResumeKeepsResults ==
    \A r \in previous : \A i \in DOMAIN disk :
        disk[i].case = r.case =>
            /\ disk[i].status = r.status
            /\ disk[i].samples = r.samples
            /\ disk[i].content = r.content

\* Exit code 0 means that every case has a record on disk, that none is an
\* error or contradicts the reference, and that a verdict rests on agreeing
\* repetitions, as many as some process was asked for.
SuccessMeansComplete ==
    exit = "success" =>
        /\ CasesOf(disk) = CaseSet
        /\ \A i \in DOMAIN disk :
            /\ ~Unsound(disk[i])
            /\ disk[i].status \in Decided =>
                /\ Len(disk[i].samples) \in Repetitions
                /\ Range(disk[i].samples) = {disk[i].status}

\* run_nusmv_figure3.py:100 names the policy of a resumed run "retain
\* completed records; new count applies to remaining cases": when the process
\* is over, the cases it found recorded are recorded still.
ResumeRetainsCompleted ==
    (process = "idle" /\ resumed) => {r.case : r \in previous} \subseteq CasesOf(disk)

\* A started process ends.
RunEnds == (process # "idle") ~> (process = "idle")

=============================================================================
