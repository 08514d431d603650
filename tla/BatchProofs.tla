------------------------------ MODULE BatchProofs ------------------------------
(***************************************************************************)
(* The batch runner keeps its promises about the record file, for every    *)
(* list of cases, every outcome and any number of processes, killed and    *)
(* started again at any point.                                             *)
(*                                                                         *)
(* The argument is that one predicate, of being a run of the manifest up   *)
(* to some case, holds of the three lists of records there are: of the     *)
(* file, of the list in memory, and of the list that the process found.    *)
(***************************************************************************)
EXTENDS BatchRunner, TLAPS

Failing == {"timeout", "size_limit"}
Statuses == Outcomes \cup {"skipped", "inconsistent"}

RecordType ==
    [case : CaseSet, status : Statuses, samples : Seq(Outcomes), setting : Settings,
     content : Nat, agreement : {"unchecked", "agrees", "differs"}]

\* The three properties of a list of records, each of one of its places.
InOrder(list, i) == list[i].case = Cases[i] /\ list[i].setting = list[1].setting

FailedBefore(list, i) ==
    \E j \in 1..(i - 1) :
        list[j].status \in Failing /\ Family[list[j].case] = Family[list[i].case]

SkippedRightly(list, i) ==
    list[i].status = "skipped" <=> SkipAfterFailure /\ FailedBefore(list, i)

Measured(record) ==
    record.status \in Decided =>
        Len(record.samples) \in Repetitions /\ Range(record.samples) = {record.status}

\* A run of the manifest, as far as it came.
IsRunOfCases(list) ==
    /\ list \in Seq(RecordType)
    /\ Len(list) <= Len(Cases)
    /\ \A i \in 1..Len(list) : InOrder(list, i) /\ SkippedRightly(list, i) /\ Measured(list[i])

\* Only the last record may contradict the reference.
AgreesUpTo(list, n) == \A i \in 1..Len(list) : list[i].agreement = "differs" => i > n

\* What the process found is in the list with the result that was found.
Keeps(list, found) ==
    \A r \in found : \A i \in 1..Len(list) :
        list[i].case = r.case =>
            list[i].status = r.status /\ list[i].samples = r.samples /\ list[i].content = r.content

BatchTypeOK ==
    /\ content \in [CaseSet -> Nat]
    /\ setting \in Settings /\ repetitions \in Repetitions /\ samples \in Seq(Outcomes)
    /\ process \in {"idle", "case", "measure", "write", "replace", "exiting"}

PreviousIsARun == \E list : IsRunOfCases(list) /\ previous = Range(list)

DiskInv == IsRunOfCases(disk) /\ AgreesUpTo(disk, Len(disk) - 1) /\ Keeps(disk, previous)

\* While a process runs: its list is a run under its own configuration, it
\* knows the families that failed, and the file follows one step behind.
MemoryInv ==
    process # "idle" =>
        /\ exit # "success"
        /\ IsRunOfCases(records) /\ Keeps(records, previous)
        /\ \A i \in 1..Len(records) : records[i].setting = setting
        /\ \A family : family \in failed <=>
                \E i \in 1..Len(records) : records[i].status \in Failing /\ Family[records[i].case] = family
        /\ process \in {"case", "measure"} =>
            /\ AgreesUpTo(records, Len(records))
            /\ Len(records) > 0 => disk = records
        /\ process \in {"write", "replace", "exiting"} =>
            /\ AgreesUpTo(records, Len(records) - 1)
            /\ Len(records) > 0
        /\ process = "replace" => temp = records
        /\ process = "exiting" => disk = records /\ Last(records).agreement = "differs"
        /\ process = "measure" =>
            /\ Len(records) < Len(Cases) /\ Previously = {} /\ ~MaySkip
            /\ Len(samples) < repetitions

BatchInv == BatchTypeOK /\ PreviousIsARun /\ DiskInv /\ MemoryInv /\ SuccessMeansComplete

-----------------------------------------------------------------------------
\* Runs of the manifest.

LEMMA CasesAreDistinct ==
    /\ Len(Cases) \in Nat /\ DOMAIN Cases = 1..Len(Cases)
    /\ \A i \in 1..Len(Cases) : Cases[i] \in CaseSet
    /\ \A i, j \in 1..Len(Cases) : Cases[i] = Cases[j] => i = j
    /\ \A c \in CaseSet : \E i \in 1..Len(Cases) : c = Cases[i]
<1>1. Cases \in Seq(DOMAIN Family)
    BY CasesAssumption
<1>2. Len(Cases) \in Nat /\ DOMAIN Cases = 1..Len(Cases)
    BY <1>1
<1>3. \A i, j \in 1..Len(Cases) : Cases[i] = Cases[j] => i = j
    BY <1>2, CasesAssumption DEF IsInjective
<1>4. CaseSet = {Cases[i] : i \in 1..Len(Cases)}
    BY <1>2 DEF CaseSet, Range
<1> QED BY <1>2, <1>3, <1>4

\* A place of a run, and what is known of it.
LEMMA RunPlaces ==
    ASSUME NEW list, IsRunOfCases(list)
    PROVE  /\ Len(list) \in 0..Len(Cases) /\ DOMAIN list = 1..Len(list)
           /\ \A i \in 1..Len(list) : list[i] \in RecordType /\ list[i].case = Cases[i]
           /\ Range(list) = {list[i] : i \in 1..Len(list)}
           /\ CasesOf(list) = {list[i].case : i \in 1..Len(list)}
BY CasesAreDistinct DEF IsRunOfCases, InOrder, Range, CasesOf

LEMMA EmptyIsRun == IsRunOfCases(<< >>) /\ Range(<< >>) = {}
BY CasesAreDistinct DEF IsRunOfCases, Range

\* One more record of the next case continues a run.
LEMMA AppendIsRun ==
    ASSUME NEW list, IsRunOfCases(list), Len(list) < Len(Cases),
           NEW record \in RecordType, record.case = Cases[Len(list) + 1],
           \A i \in 1..Len(list) : list[i].setting = record.setting,
           record.status = "skipped" <=>
                /\ SkipAfterFailure
                /\ \E j \in 1..Len(list) :
                    list[j].status \in Failing /\ Family[list[j].case] = Family[record.case],
           Measured(record)
    PROVE  IsRunOfCases(Append(list, record))
<1> DEFINE longer == Append(list, record)
           n == Len(list)
<1>1. n \in Nat /\ list \in Seq(RecordType) /\ Len(Cases) \in Nat
    BY CasesAreDistinct DEF IsRunOfCases
<1>2. /\ longer \in Seq(RecordType) /\ Len(longer) = n + 1
      /\ longer[n + 1] = record /\ \A i \in 1..n : longer[i] = list[i]
    BY <1>1
<1> HIDE DEF longer
<1>3. ASSUME NEW i \in 1..n PROVE InOrder(longer, i) /\ SkippedRightly(longer, i) /\ Measured(longer[i])
    <2>1. /\ longer[i] = list[i] /\ longer[1] = list[1]
          /\ \A j \in 1..(i - 1) : longer[j] = list[j]
        BY <1>1, <1>2
    <2>2. InOrder(list, i) /\ SkippedRightly(list, i) /\ Measured(list[i])
        BY DEF IsRunOfCases
    <2> QED BY <2>1, <2>2 DEF InOrder, SkippedRightly, FailedBefore
<1>4. InOrder(longer, n + 1)
    BY <1>1, <1>2 DEF InOrder
<1>5. SkippedRightly(longer, n + 1)
    <2>1. FailedBefore(longer, n + 1) <=>
            \E j \in 1..n : list[j].status \in Failing /\ Family[list[j].case] = Family[record.case]
        BY <1>1, <1>2 DEF FailedBefore
    <2> QED BY <1>2, <2>1 DEF SkippedRightly
<1>6. Measured(longer[n + 1])
    BY <1>2
<1>7. \A i \in 1..(n + 1) : i \in 1..n \/ i = n + 1
    BY <1>1
<1>8. \A i \in 1..(n + 1) :
        InOrder(longer, i) /\ SkippedRightly(longer, i) /\ Measured(longer[i])
    BY <1>3, <1>4, <1>5, <1>6, <1>7, Zenon
<1>9. Len(longer) <= Len(Cases)
    BY <1>1, <1>2
<1>10. longer \in Seq(RecordType) /\ \A i \in 1..Len(longer) :
            InOrder(longer, i) /\ SkippedRightly(longer, i) /\ Measured(longer[i])
    BY <1>2, <1>8, Zenon
<1> QED BY <1>9, <1>10, Zenon DEF IsRunOfCases, longer

-----------------------------------------------------------------------------
\* The steps.

LEMMA BatchInvInit == BatchInit => BatchInv
<1> SUFFICES ASSUME BatchInit PROVE BatchInv
    OBVIOUS
<1>1. BatchTypeOK
    BY DEF BatchInit, BatchTypeOK
<1>2. PreviousIsARun
    BY EmptyIsRun DEF BatchInit, PreviousIsARun
<1>3. DiskInv
    BY EmptyIsRun DEF BatchInit, DiskInv, Absent, AgreesUpTo, Keeps
<1>4. MemoryInv /\ SuccessMeansComplete
    BY DEF BatchInit, MemoryInv, SuccessMeansComplete
<1> QED BY <1>1, <1>2, <1>3, <1>4 DEF BatchInv

\* What a new process finds is a run, and has nothing else yet.
LEMMA StartKeepsInv ==
    ASSUME BatchInv, Start
    PROVE  BatchInv'
<1>1. /\ setting' \in Settings /\ repetitions' \in Repetitions
      /\ previous' = Range(disk) \/ previous' = {}
      /\ records' = << >> /\ failed' = {} /\ samples' = << >>
      /\ process' = "case" /\ exit' = "none" /\ UNCHANGED <<content, disk, temp>>
    BY DEF Start, files
<1>2. IsRunOfCases(disk)
    BY DEF BatchInv, DiskInv
<1>3. BatchTypeOK'
    BY <1>1 DEF BatchInv, BatchTypeOK
<1>4. PreviousIsARun'
    BY <1>1, <1>2, EmptyIsRun DEF PreviousIsARun, IsRunOfCases, InOrder, SkippedRightly, FailedBefore, Measured
<1>5. DiskInv'
    <2>1. Keeps(disk, previous')
        <3> SUFFICES ASSUME NEW r \in Range(disk), NEW i \in 1..Len(disk), disk[i].case = r.case
                     PROVE  r = disk[i]
            BY <1>1 DEF Keeps
        <3>1. PICK j \in 1..Len(disk) : r = disk[j]
            BY <1>2, RunPlaces
        <3>2. Cases[i] = Cases[j] /\ i \in 1..Len(Cases) /\ j \in 1..Len(Cases)
            BY <1>2, <3>1, RunPlaces
        <3> QED BY <3>1, <3>2, CasesAreDistinct
    <2> QED BY <1>1, <2>1 DEF BatchInv, DiskInv, IsRunOfCases, InOrder, SkippedRightly, FailedBefore,
                AgreesUpTo, Keeps, Measured
<1>6. MemoryInv'
    BY <1>1, EmptyIsRun DEF MemoryInv, AgreesUpTo, Keeps
<1>7. SuccessMeansComplete'
    BY <1>1 DEF SuccessMeansComplete
<1> QED BY <1>3, <1>4, <1>5, <1>6, <1>7 DEF BatchInv

LEMMA EditKeepsInv ==
    ASSUME BatchInv, EditInput
    PROVE  BatchInv'
<1>1. PICK c \in CaseSet : content' = [content EXCEPT ![c] = @ + 1]
    BY DEF EditInput
<1>2. /\ UNCHANGED <<disk, temp, process, exit, starts, setting, repetitions, resumed, previous,
                     records, failed, samples>>
      /\ process = "idle"
    BY DEF EditInput, arguments, memory
<1>3. BatchTypeOK'
    BY <1>1, <1>2 DEF BatchInv, BatchTypeOK
<1>4. PreviousIsARun' /\ DiskInv'
    BY <1>2 DEF BatchInv, PreviousIsARun, DiskInv, AgreesUpTo, Keeps
<1>5. MemoryInv' /\ SuccessMeansComplete'
    BY <1>2 DEF BatchInv, MemoryInv, SuccessMeansComplete, Unsound
<1> QED BY <1>3, <1>4, <1>5 DEF BatchInv

\* A process that ends keeps the files as they are.
LEMMA EndKeepsInv ==
    ASSUME BatchInv, process' = "idle", UNCHANGED <<files, arguments, memory>>,
           SuccessMeansComplete'
    PROVE  BatchInv'
<1>1. UNCHANGED <<content, disk, temp, setting, repetitions, previous, records, failed, samples>>
    BY DEF files, arguments, memory
<1>2. BatchTypeOK'
    BY <1>1 DEF BatchInv, BatchTypeOK
<1>3. PreviousIsARun' /\ DiskInv'
    BY <1>1 DEF BatchInv, PreviousIsARun, DiskInv, AgreesUpTo, Keeps
<1>4. MemoryInv'
    BY DEF MemoryInv
<1> QED BY <1>2, <1>3, <1>4 DEF BatchInv

\* A run is complete and sound when the process says so.
LEMMA FinishKeepsInv ==
    ASSUME BatchInv, Finish
    PROVE  BatchInv'
<1>1. /\ process = "exiting" \/ (process = "case" /\ Len(records) = Len(Cases))
      /\ process' = "idle" /\ UNCHANGED <<files, arguments, memory>>
      /\ exit' = IF \E i \in DOMAIN records : Unsound(records[i]) THEN "failure" ELSE "success"
    BY DEF Finish
<1>2. IsRunOfCases(records) /\ IsRunOfCases(disk)
    BY <1>1 DEF BatchInv, DiskInv, MemoryInv
<1>3. ASSUME exit' = "success"
      PROVE  CasesOf(disk) = CaseSet /\ \A i \in 1..Len(disk) : ~Unsound(disk[i]) /\ Measured(disk[i])
    <2>1. \A i \in 1..Len(records) : ~Unsound(records[i])
        BY <1>1, <1>2, <1>3, RunPlaces
    <2>2. process # "exiting"
        <3> SUFFICES ASSUME process = "exiting" PROVE FALSE
            OBVIOUS
        <3>1. Len(records) > 0 /\ records[Len(records)].agreement = "differs"
            BY DEF BatchInv, MemoryInv, Last
        <3>2. Len(records) \in 1..Len(records)
            BY <1>2, <3>1, RunPlaces, CasesAreDistinct
        <3> QED BY <2>1, <3>1, <3>2 DEF Unsound
    <2>3. process = "case" /\ Len(records) = Len(Cases)
        BY <1>1, <2>2
    <2>4. disk = records
        <3>1. CASE Len(Cases) = 0
            <4>1. Len(disk) = 0 /\ Len(records) = 0
                BY <1>2, <2>3, <3>1, RunPlaces
            <4>2. disk \in Seq(RecordType) /\ records \in Seq(RecordType)
                BY <1>2 DEF IsRunOfCases
            <4> QED BY <4>1, <4>2
        <3>2. CASE Len(Cases) # 0
            BY <2>3, <3>2, CasesAreDistinct DEF BatchInv, MemoryInv
        <3> QED BY <3>1, <3>2
    <2>5. CasesOf(disk) = CaseSet
        <3>1. CasesOf(disk) = {disk[i].case : i \in 1..Len(disk)}
            BY <1>2, RunPlaces
        <3>2. Len(disk) = Len(Cases) /\ \A i \in 1..Len(Cases) : disk[i].case = Cases[i]
            BY <1>2, <2>3, <2>4, RunPlaces
        <3> QED BY <3>1, <3>2, CasesAreDistinct
    <2>6. \A i \in 1..Len(disk) : Measured(disk[i])
        BY <1>2 DEF IsRunOfCases
    <2> QED BY <2>1, <2>4, <2>5, <2>6
<1>4. SuccessMeansComplete'
    <2>1. disk' = disk /\ DOMAIN disk = 1..Len(disk)
        BY <1>1, <1>2, RunPlaces DEF files
    <2> QED BY <1>3, <2>1 DEF SuccessMeansComplete, Measured, Unsound, CasesOf
<1> QED BY <1>1, <1>4, EndKeepsInv

\* Keeping a record of the next case: one that was found, or a new one of a
\* case of which nothing was found.
LEMMA KeepKeepsInv ==
    ASSUME BatchInv, NEW kept \in RecordType, Keep(kept), process \in {"case", "measure"},
           Len(records) < Len(Cases), kept.case = case, kept.setting = setting,
           kept.status = "skipped" <=> MaySkip, Measured(kept),
           \A r \in Previously :
                kept.status = r.status /\ kept.samples = r.samples /\ kept.content = r.content,
           samples' \in Seq(Outcomes)
    PROVE  BatchInv'
<1> DEFINE record == [kept EXCEPT !.agreement = Agreement(kept.status)]
           n == Len(records)
<1>1. /\ records' = Append(records, record) /\ process' = "write"
      /\ failed' = IF kept.status \in Failing THEN failed \cup {Family[case]} ELSE failed
      /\ UNCHANGED <<content, disk, temp, exit, setting, repetitions, previous>>
    BY DEF Keep, files, arguments, Failing
<1>2. /\ record \in RecordType /\ record.case = case /\ record.setting = setting
      /\ record.status = kept.status /\ record.samples = kept.samples /\ record.content = kept.content
    BY DEF RecordType, Agreement
<1>3. Measured(record)
    BY <1>2 DEF Measured
<1> HIDE DEF record
<1>4. /\ IsRunOfCases(records) /\ Keeps(records, previous) /\ exit # "success"
      /\ \A i \in 1..n : records[i].setting = setting
      /\ \A family : family \in failed <=>
            \E i \in 1..n : records[i].status \in Failing /\ Family[records[i].case] = family
      /\ AgreesUpTo(records, n)
    BY DEF BatchInv, MemoryInv
<1>5. n \in Nat /\ records \in Seq(RecordType) /\ case = Cases[n + 1]
    BY <1>4, RunPlaces, CasesAreDistinct DEF case, IsRunOfCases
<1>6. /\ Len(records') = n + 1 /\ records'[n + 1] = record
      /\ \A i \in 1..n : records'[i] = records[i]
      /\ \A i \in 1..(n + 1) : i \in 1..n \/ i = n + 1
    BY <1>1, <1>2, <1>5
<1>7. IsRunOfCases(records')
    <2>1. record.status = "skipped" <=>
            /\ SkipAfterFailure
            /\ \E j \in 1..n : records[j].status \in Failing /\ Family[records[j].case] = Family[record.case]
        BY <1>2, <1>4 DEF MaySkip
    <2> QED BY <1>1, <1>2, <1>3, <1>4, <1>5, <2>1, AppendIsRun
<1>8. Keeps(records', previous)
    <2> SUFFICES ASSUME NEW r \in previous, NEW i \in 1..(n + 1), records'[i].case = r.case
                 PROVE  /\ records'[i].status = r.status /\ records'[i].samples = r.samples
                        /\ records'[i].content = r.content
        BY <1>6 DEF Keeps
    <2>1. CASE i \in 1..n
        BY <1>4, <1>6, <2>1 DEF Keeps
    <2>2. CASE i = n + 1
        BY <1>2, <1>6, <2>2 DEF Previously
    <2> QED BY <1>6, <2>1, <2>2
<1>9. \A family : family \in failed' <=>
        \E i \in 1..(n + 1) : records'[i].status \in Failing /\ Family[records'[i].case] = family
    <2>1. n + 1 \in 1..(n + 1) /\ \A i \in 1..n : i \in 1..(n + 1)
        BY <1>5
    <2> QED BY <1>1, <1>2, <1>4, <1>6, <2>1
<1>10. \A i \in 1..(n + 1) : records'[i].setting = setting
    BY <1>2, <1>4, <1>6
<1>11. AgreesUpTo(records', n)
    BY <1>4, <1>5, <1>6 DEF AgreesUpTo
<1>12. BatchTypeOK'
    BY <1>1 DEF BatchInv, BatchTypeOK
<1>13. PreviousIsARun' /\ DiskInv' /\ SuccessMeansComplete'
    BY <1>1, <1>4 DEF BatchInv, PreviousIsARun, DiskInv, AgreesUpTo, Keeps, SuccessMeansComplete
<1>14. MemoryInv'
    <2>1. n + 1 > 0 /\ n + 1 - 1 = n
        BY <1>5
    <2> QED BY <1>1, <1>4, <1>6, <1>7, <1>8, <1>9, <1>10, <1>11, <2>1 DEF MemoryInv
<1> QED BY <1>12, <1>13, <1>14 DEF BatchInv

\* The record that was found of a case fits the run: the cases before it were
\* found too, with the same results.
LEMMA ReplayKeepsInv ==
    ASSUME BatchInv, Replay
    PROVE  BatchInv'
<1> DEFINE n == Len(records) + 1
<1>1. PICK r \in Previously : Matches(r) /\ Keep(r)
    BY DEF Replay
<1>2. /\ process = "case" /\ Len(records) < Len(Cases) /\ samples' = samples
      /\ r \in previous /\ r.case = case /\ r.setting = setting
    BY <1>1 DEF Replay, AtCase, Previously, Matches
<1>3. /\ IsRunOfCases(records) /\ Keeps(records, previous)
      /\ \A family : family \in failed <=>
            \E i \in 1..Len(records) : records[i].status \in Failing /\ Family[records[i].case] = family
    BY <1>2 DEF BatchInv, MemoryInv
<1>4. PICK list : IsRunOfCases(list) /\ previous = Range(list)
    BY DEF BatchInv, PreviousIsARun
<1>5. Len(list) \in 0..Len(Cases) /\ Len(records) \in Nat /\ Len(Cases) \in Nat
      /\ n \in 1..Len(Cases) /\ case = Cases[n]
    BY <1>2, <1>3, <1>4, RunPlaces, CasesAreDistinct DEF case
<1>6. n \in 1..Len(list) /\ r = list[n]
    <2>1. PICK i \in 1..Len(list) : r = list[i]
        BY <1>2, <1>4, RunPlaces
    <2>2. i \in 1..Len(Cases) /\ Cases[i] = Cases[n]
        BY <1>2, <1>4, <1>5, <2>1, RunPlaces
    <2>3. i = n
        BY <1>5, <2>2, CasesAreDistinct
    <2> QED BY <2>1, <2>3
<1>7. ASSUME NEW j \in 1..(n - 1)
      PROVE  /\ j \in 1..Len(records) /\ j \in 1..Len(list)
             /\ records[j].case = list[j].case /\ records[j].status = list[j].status
    <2>1. j \in 1..Len(records) /\ j \in 1..Len(list)
        BY <1>5, <1>6
    <2>2. records[j].case = Cases[j] /\ list[j].case = Cases[j] /\ list[j] \in previous
        BY <1>3, <1>4, <2>1, RunPlaces
    <2> QED BY <1>3, <2>1, <2>2 DEF Keeps
<1>8. r.status = "skipped" <=> MaySkip
    <2>1. SkippedRightly(list, n)
        BY <1>4, <1>6 DEF IsRunOfCases
    <2>2. FailedBefore(list, n) <=>
            \E j \in 1..Len(records) : records[j].status \in Failing /\ Family[records[j].case] = Family[case]
        <3>1. n - 1 = Len(records)
            BY <1>5
        <3> QED BY <1>2, <1>6, <1>7, <3>1 DEF FailedBefore
    <2>3. FailedBefore(list, n) <=> Family[case] \in failed
        BY <1>3, <2>2
    <2> QED BY <1>6, <2>1, <2>3 DEF SkippedRightly, MaySkip
<1>9. r \in RecordType /\ Measured(r)
    BY <1>4, <1>6, RunPlaces DEF IsRunOfCases
<1>10. ASSUME NEW q \in Previously PROVE q = r
    <2>1. q \in previous /\ q.case = case
        BY DEF Previously
    <2>2. PICK i \in 1..Len(list) : q = list[i]
        BY <1>4, <2>1, RunPlaces
    <2>3. i \in 1..Len(Cases) /\ Cases[i] = Cases[n]
        BY <1>4, <1>5, <2>1, <2>2, RunPlaces
    <2>4. i = n
        BY <1>5, <2>3, CasesAreDistinct
    <2> QED BY <1>6, <2>2, <2>4
<1>11. samples' \in Seq(Outcomes)
    BY <1>2 DEF BatchInv, BatchTypeOK
<1> QED BY <1>1, <1>2, <1>8, <1>9, <1>10, <1>11, KeepKeepsInv

\* A new record of the next case is well formed.
LEMMA NewRecordIsTyped ==
    ASSUME BatchInv, process \in {"case", "measure"}, Len(records) < Len(Cases),
           NEW status \in Statuses, NEW tries \in Seq(Outcomes)
    PROVE  LET kept == NewRecord(status, tries)
           IN  /\ kept \in RecordType /\ kept.case = case /\ kept.setting = setting
               /\ kept.status = status /\ kept.samples = tries
<1>1. IsRunOfCases(records)
    BY DEF BatchInv, MemoryInv
<1>2. Len(records) + 1 \in 1..Len(Cases)
    BY <1>1, RunPlaces, CasesAreDistinct
<1>3. case \in CaseSet
    BY <1>2, CasesAreDistinct DEF case
<1>4. content[case] \in Nat /\ setting \in Settings
    BY <1>3 DEF BatchInv, BatchTypeOK
<1> QED BY <1>3, <1>4 DEF NewRecord, RecordType

LEMMA SkipKeepsInv ==
    ASSUME BatchInv, Skip
    PROVE  BatchInv'
<1> DEFINE kept == NewRecord("skipped", << >>)
<1>1. /\ process = "case" /\ Len(records) < Len(Cases) /\ Previously = {} /\ MaySkip
      /\ Keep(kept) /\ samples' = samples
    BY DEF Skip, AtCase
<1>2. "skipped" \in Statuses /\ << >> \in Seq(Outcomes)
    BY DEF Statuses
<1>3. /\ kept \in RecordType /\ kept.case = case /\ kept.setting = setting
      /\ kept.status = "skipped"
    BY <1>1, <1>2, NewRecordIsTyped
<1>4. Measured(kept)
    BY <1>3 DEF Measured, Decided
<1>5. samples' \in Seq(Outcomes)
    BY <1>1 DEF BatchInv, BatchTypeOK
<1> HIDE DEF kept
<1> QED BY <1>1, <1>3, <1>4, <1>5, KeepKeepsInv

LEMMA BeginMeasureKeepsInv ==
    ASSUME BatchInv, BeginMeasure
    PROVE  BatchInv'
<1>1. /\ process = "case" /\ Len(records) < Len(Cases) /\ Previously = {} /\ ~MaySkip
      /\ process' = "measure" /\ samples' = << >>
      /\ UNCHANGED <<content, disk, temp, exit, setting, repetitions, previous, records, failed>>
    BY DEF BeginMeasure, AtCase, files, arguments
<1>2. Len(samples') < repetitions'
    <2>1. repetitions \in Nat \ {0}
        BY RepetitionsAssumption DEF BatchInv, BatchTypeOK
    <2> QED BY <1>1, <2>1
<1>3. BatchTypeOK'
    BY <1>1 DEF BatchInv, BatchTypeOK
<1>4. PreviousIsARun' /\ DiskInv' /\ SuccessMeansComplete'
    BY <1>1 DEF BatchInv, PreviousIsARun, DiskInv, MemoryInv, AgreesUpTo, Keeps, SuccessMeansComplete
<1>5. MemoryInv'
    BY <1>1, <1>2 DEF BatchInv, MemoryInv, AgreesUpTo, Keeps, Previously, MaySkip, case
<1> QED BY <1>3, <1>4, <1>5 DEF BatchInv

\* What the repetitions of a case come to.
LEMMA VerdictIsMeasured ==
    ASSUME NEW tries \in Seq(Outcomes), Len(tries) > 0, Len(tries) <= repetitions,
           repetitions \in Repetitions
    PROVE  \/ Verdict(tries) = "unfinished" /\ Len(tries) < repetitions
           \/ /\ Verdict(tries) # "unfinished"
              /\ Verdict(tries) \in Statuses \ {"skipped"}
              /\ Verdict(tries) \in Decided =>
                    Len(tries) = repetitions /\ Range(tries) = {Verdict(tries)}
<1>1. /\ Len(tries) \in Nat /\ DOMAIN tries = 1..Len(tries) /\ Len(tries) \in 1..Len(tries)
      /\ Last(tries) = tries[Len(tries)] /\ Last(tries) \in Outcomes
      /\ Range(tries) = {tries[i] : i \in 1..Len(tries)}
    BY DEF Last, Range
<1>2. Last(tries) \notin {"unfinished", "inconsistent", "skipped"}
    BY <1>1, OutcomesAssumption
<1>3. repetitions \in Nat
    BY RepetitionsAssumption
<1>4. CASE Last(tries) \notin Decided
    BY <1>1, <1>2, <1>4 DEF Verdict, Statuses
<1>5. CASE Last(tries) \in Decided /\ \E i \in DOMAIN tries : tries[i] # Last(tries)
    <2>1. Verdict(tries) = "inconsistent"
        BY <1>5 DEF Verdict
    <2> QED BY <2>1 DEF Statuses, Decided
<1>6. CASE Last(tries) \in Decided /\ \A i \in DOMAIN tries : tries[i] = Last(tries)
    <2>1. Verdict(tries) = IF Len(tries) < repetitions THEN "unfinished" ELSE Last(tries)
        BY <1>6 DEF Verdict
    <2>2. Range(tries) = {Last(tries)}
        BY <1>1, <1>6
    <2>3. CASE Len(tries) < repetitions
        BY <2>1, <2>3
    <2>4. CASE Len(tries) = repetitions
        <3>1. Verdict(tries) = Last(tries)
            BY <1>3, <2>1, <2>4
        <3>2. Verdict(tries) # "unfinished" /\ Verdict(tries) \in Statuses \ {"skipped"}
            BY <1>1, <1>2, <3>1, Zenon DEF Statuses
        <3>3. Range(tries) = {Verdict(tries)}
            BY <2>2, <3>1
        <3>4. Verdict(tries) \in Decided => Len(tries) = repetitions /\ Range(tries) = {Verdict(tries)}
            BY <2>4, <3>3, Zenon
        <3> QED BY <3>2, <3>4, Zenon
    <2>5. Len(tries) < repetitions \/ Len(tries) = repetitions
        <3>1. \A m, n \in Nat : m <= n => m < n \/ m = n
            OBVIOUS
        <3> QED BY <1>1, <1>3, <3>1, Zenon
    <2> QED BY <2>3, <2>4, <2>5
<1> QED BY <1>4, <1>5, <1>6

LEMMA RepeatKeepsInv ==
    ASSUME BatchInv, Repeat
    PROVE  BatchInv'
<1>1. PICK outcome \in Outcomes :
        LET tries == Append(samples, outcome)
        IN  /\ samples' = tries
            /\ IF Verdict(tries) = "unfinished"
               THEN UNCHANGED <<files, process, exit, arguments, records, failed>>
               ELSE Keep(NewRecord(Verdict(tries), tries))
    BY DEF Repeat
<1> DEFINE tries == Append(samples, outcome)
<1>2. /\ process = "measure" /\ Len(records) < Len(Cases) /\ Previously = {} /\ ~MaySkip
      /\ Len(samples) < repetitions /\ samples \in Seq(Outcomes)
      /\ repetitions \in Repetitions /\ repetitions \in Nat
    BY RepetitionsAssumption DEF BatchInv, BatchTypeOK, MemoryInv, Repeat
<1>3. tries \in Seq(Outcomes) /\ Len(tries) > 0 /\ Len(tries) <= repetitions
    BY <1>2
<1>4. /\ samples' = tries
      /\ Verdict(tries) = "unfinished" =>
            UNCHANGED <<files, process, exit, arguments, records, failed>>
      /\ Verdict(tries) # "unfinished" => Keep(NewRecord(Verdict(tries), tries))
    BY <1>1
<1> HIDE DEF tries
<1>5. \/ Verdict(tries) = "unfinished" /\ Len(tries) < repetitions
      \/ /\ Verdict(tries) # "unfinished"
         /\ Verdict(tries) \in Statuses \ {"skipped"}
         /\ Verdict(tries) \in Decided =>
                Len(tries) = repetitions /\ Range(tries) = {Verdict(tries)}
    BY <1>2, <1>3, VerdictIsMeasured
<1>6. CASE Verdict(tries) = "unfinished"
    <2>1. UNCHANGED <<content, disk, temp, process, exit, setting, repetitions, previous, records, failed>>
        BY <1>4, <1>6 DEF files, arguments
    <2>2. BatchTypeOK'
        BY <1>3, <1>4, <2>1 DEF BatchInv, BatchTypeOK
    <2>3. PreviousIsARun' /\ DiskInv' /\ SuccessMeansComplete'
        BY <2>1 DEF BatchInv, PreviousIsARun, DiskInv, AgreesUpTo, Keeps, SuccessMeansComplete
    <2>4. MemoryInv'
        BY <1>2, <1>4, <1>5, <1>6, <2>1 DEF BatchInv, MemoryInv, AgreesUpTo, Keeps, Previously, MaySkip, case
    <2> QED BY <2>2, <2>3, <2>4 DEF BatchInv
<1>7. CASE Verdict(tries) # "unfinished"
    <2> DEFINE kept == NewRecord(Verdict(tries), tries)
    <2>1. Verdict(tries) \in Statuses /\ Verdict(tries) # "skipped" /\ Keep(kept)
        BY <1>4, <1>5, <1>7
    <2>2. /\ kept \in RecordType /\ kept.case = case /\ kept.setting = setting
          /\ kept.status = Verdict(tries) /\ kept.samples = tries
        BY <1>2, <1>3, <2>1, NewRecordIsTyped
    <2> HIDE DEF kept
    <2>3. Measured(kept)
        BY <1>2, <1>5, <1>7, <2>2 DEF Measured
    <2>4. samples' \in Seq(Outcomes)
        BY <1>3, <1>4
    <2> QED BY <1>2, <2>1, <2>2, <2>3, <2>4, KeepKeepsInv
<1> QED BY <1>6, <1>7

\* The file follows the list in memory, in one step.
LEMMA WriteKeepsInv ==
    ASSUME BatchInv, WriteTemp
    PROVE  BatchInv'
<1>1. /\ process = "write" /\ temp' = records /\ process' = "replace"
      /\ UNCHANGED <<content, disk, exit, setting, repetitions, previous, records, failed, samples>>
    BY DEF WriteTemp, arguments, memory
<1>2. BatchTypeOK'
    BY <1>1 DEF BatchInv, BatchTypeOK
<1>3. PreviousIsARun' /\ DiskInv' /\ SuccessMeansComplete'
    BY <1>1 DEF BatchInv, PreviousIsARun, DiskInv, AgreesUpTo, Keeps, SuccessMeansComplete
<1>4. MemoryInv'
    BY <1>1 DEF BatchInv, MemoryInv, AgreesUpTo, Keeps
<1> QED BY <1>2, <1>3, <1>4 DEF BatchInv

LEMMA ReplaceKeepsInv ==
    ASSUME BatchInv, Replace
    PROVE  BatchInv'
<1>1. /\ process = "replace" /\ disk' = records /\ temp' = Absent
      /\ process' = IF Last(records).agreement = "differs" THEN "exiting" ELSE "case"
      /\ UNCHANGED <<content, exit, setting, repetitions, previous, records, failed, samples>>
    BY DEF BatchInv, MemoryInv, Replace, arguments, memory
<1>2. /\ IsRunOfCases(records) /\ Keeps(records, previous) /\ Len(records) > 0
      /\ AgreesUpTo(records, Len(records) - 1) /\ exit # "success"
    BY <1>1 DEF BatchInv, MemoryInv
<1>3. BatchTypeOK'
    BY <1>1 DEF BatchInv, BatchTypeOK
<1>4. PreviousIsARun' /\ DiskInv' /\ SuccessMeansComplete'
    BY <1>1, <1>2 DEF BatchInv, PreviousIsARun, DiskInv, AgreesUpTo, Keeps, SuccessMeansComplete
<1>5. process' = "case" => AgreesUpTo(records, Len(records))
    <2>1. Len(records) \in Nat
        BY <1>2, RunPlaces
    <2> QED BY <1>1, <1>2, <2>1 DEF AgreesUpTo, Last
<1>6. MemoryInv'
    BY <1>1, <1>2, <1>5 DEF BatchInv, MemoryInv, AgreesUpTo, Keeps
<1> QED BY <1>3, <1>4, <1>6 DEF BatchInv

\* BatchInv holds in every state, whatever was killed when.
THEOREM BatchInvariant == BatchSpec => []BatchInv
<1>1. BatchInit => BatchInv
    BY BatchInvInit
<1>2. BatchInv /\ [BatchNext]_batchVars => BatchInv'
    <2> SUFFICES ASSUME BatchInv, [BatchNext]_batchVars PROVE BatchInv'
        OBVIOUS
    <2>1. CASE Start
        BY <2>1, StartKeepsInv
    <2>2. CASE EditInput
        BY <2>2, EditKeepsInv
    <2>3. CASE RefuseToResume
        <3>1. /\ process' = "idle" /\ exit' = "refused" /\ UNCHANGED <<files, arguments, memory>>
            BY <2>3 DEF RefuseToResume
        <3> QED BY <3>1, EndKeepsInv DEF SuccessMeansComplete
    <2>4. CASE Kill
        <3>1. /\ process' = "idle" /\ exit' = "killed" /\ UNCHANGED <<files, arguments, memory>>
            BY <2>4 DEF Kill
        <3> QED BY <3>1, EndKeepsInv DEF SuccessMeansComplete
    <2>5. CASE Replay
        BY <2>5, ReplayKeepsInv
    <2>6. CASE Skip
        BY <2>6, SkipKeepsInv
    <2>7. CASE BeginMeasure
        BY <2>7, BeginMeasureKeepsInv
    <2>8. CASE Repeat
        BY <2>8, RepeatKeepsInv
    <2>9. CASE WriteTemp
        BY <2>9, WriteKeepsInv
    <2>10. CASE Replace
        BY <2>10, ReplaceKeepsInv
    <2>11. CASE Finish
        BY <2>11, FinishKeepsInv
    <2>12. CASE UNCHANGED batchVars
        <3>1. UNCHANGED <<content, disk, temp, process, exit, starts, setting, repetitions,
                          resumed, previous, records, failed, samples>>
            BY <2>12 DEF batchVars
        <3>2. BatchTypeOK' /\ PreviousIsARun' /\ DiskInv' /\ SuccessMeansComplete'
            BY <3>1 DEF BatchInv, BatchTypeOK, PreviousIsARun, DiskInv, AgreesUpTo, Keeps, SuccessMeansComplete
        <3>3. MemoryInv'
            BY <3>1 DEF BatchInv, MemoryInv, AgreesUpTo, Keeps, Previously, MaySkip, case
        <3> QED BY <3>2, <3>3 DEF BatchInv
    <2> QED BY <2>1, <2>2, <2>3, <2>4, <2>5, <2>6, <2>7, <2>8, <2>9, <2>10, <2>11, <2>12
            DEF BatchNext, RunnerStep
<1> QED BY <1>1, <1>2, PTL DEF BatchSpec

-----------------------------------------------------------------------------
\* The properties of the record file.

\* The record file is at all times a run of the manifest from its first case
\* on, under one configuration, and only its last record contradicts.
THEOREM DiskIsAlwaysOneRun == BatchSpec => []DiskIsOneRun
<1>1. ASSUME BatchInv PROVE DiskIsOneRun
    <2>1. IsRunOfCases(disk) /\ AgreesUpTo(disk, Len(disk) - 1)
        BY <1>1 DEF BatchInv, DiskInv
    <2>2. Len(disk) \in Nat /\ DOMAIN disk = 1..Len(disk)
        BY <2>1, RunPlaces
    <2>3. \A i \in 1..Len(disk) : InOrder(disk, i)
        BY <2>1 DEF IsRunOfCases
    <2>4. \A i \in 1..Len(disk) : disk[i].agreement = "differs" => i = Len(disk)
        <3>1. \A i \in 1..Len(disk) : i > Len(disk) - 1 => i = Len(disk)
            <4>1. \A n \in Nat : \A i \in 1..n : i > n - 1 => i = n
                OBVIOUS
            <4> QED BY <2>2, <4>1, Zenon
        <3> QED BY <2>1, <3>1, Zenon DEF AgreesUpTo
    <2> QED BY <2>2, <2>3, <2>4 DEF DiskIsOneRun, InOrder
<1> QED BY <1>1, BatchInvariant, PTL

\* A case is skipped if and only if a smaller one of its family failed, across
\* any number of killed and resumed processes.
THEOREM SkipsAreAlwaysJustified == BatchSpec => []SkipsAreJustified
<1>1. ASSUME BatchInv PROVE SkipsAreJustified
    <2>1. IsRunOfCases(disk) /\ DOMAIN disk = 1..Len(disk)
        BY <1>1, RunPlaces DEF BatchInv, DiskInv
    <2>2. \A i \in 1..Len(disk) : SkippedRightly(disk, i)
        BY <2>1 DEF IsRunOfCases
    <2> QED BY <2>1, <2>2 DEF SkipsAreJustified, SkippedRightly, FailedBefore, Failing
<1> QED BY <1>1, BatchInvariant, PTL

\* A resumed process never changes the result of a case that it found.
THEOREM ResumingKeepsResults == BatchSpec => []ResumeKeepsResults
<1>1. ASSUME BatchInv PROVE ResumeKeepsResults
    <2>1. Keeps(disk, previous) /\ DOMAIN disk = 1..Len(disk)
        BY <1>1, RunPlaces DEF BatchInv, DiskInv
    <2> QED BY <2>1 DEF ResumeKeepsResults, Keeps
<1> QED BY <1>1, BatchInvariant, PTL

\* Exit code 0 means a complete record file, without errors and contradictions.
THEOREM SuccessIsComplete == BatchSpec => []SuccessMeansComplete
<1>1. BatchInv => SuccessMeansComplete
    BY DEF BatchInv
<1> QED BY <1>1, BatchInvariant, PTL

=============================================================================
