------------------------------- MODULE MCLearning -------------------------------
(* The way of a language through the learning study, in three parts that
   share files only: the data a trainer draws (Datasets), the training of
   one cell (Training), and the grid of cells with the scripts that read it
   (UhatStudy).  A behaviour is one of the three; the others stand still. *)
EXTENDS Datasets, Training, UhatStudy, TLC

VARIABLE part

-----------------------------------------------------------------------------
\* Calls of the samplers at small lengths, and datasets on a planned task.

OfFamily(family) == Resolve(family, "", 0, 0)
OnAxis(family, parameter) == Resolve(family, Axis(family), parameter, 2)

PairedFamilies == {"y", "no2a", "slb", "mono_word", "since", "marks", "same"}

SampleCalls ==
    {SampleCall(OnAxis(family, k), 2, <<k + 1, k + 3>>) : family \in PairedFamilies, k \in 1..2}
    \cup {SampleCall(OnAxis("y", 1), 3, <<1, 2>>)}
    \cup {SampleCall(OnAxis("lms", 1), 2, <<3, 6>>)}
    \cup {SampleCall(OnAxis("dot", k), 2, <<k, k + 2>>) : k \in 1..2}
    \cup {SampleCall(Resolve("dot_depth", "k", k, 2), 2, <<k, k + 2>>) : k \in 1..2}
    \cup {SampleCall(OfFamily("equal_blocks"), 2, <<1, 4>>)}
    \cup {SampleCall(OfFamily(Tomita[k]), 2, <<1, 4>>) : k \in 1..7}

\* Tasks without a plan of their own, over short ranges.
DatasetsCalls ==
    {DatasetsCall(OfFamily(family), 2, Planned(1, <<2, 2>>, <<3, 3>>)) :
        family \in TwoLetterTasks \ {"equal_blocks"}}
    \cup {DatasetsCall(OfFamily(family), 2, Planned(1, <<1, 1>>, <<2, 2>>)) :
            family \in ThreeLetterTasks}

MCCalls == SampleCalls \cup DatasetsCalls

-----------------------------------------------------------------------------
\* Three models, and schedules in which the phases begin and end everywhere.

MCParams == {"poor", "fair", "exact"}
MCAccuracy == "poor" :> 0 @@ "fair" :> 1 @@ "exact" :> 2
Plan(kind, steps, hardStart, logEvery, fullBatch, legacy) ==
    [kind |-> kind, steps |-> steps, hardStart |-> hardStart, logEvery |-> logEvery,
     fullBatch |-> fullBatch, legacy |-> legacy, restarts |-> 2]
MCSchedules ==
    {Plan("boolean", 4, 1, 2, full, legacy) : full \in BOOLEAN, legacy \in BOOLEAN}
    \cup {Plan("boolean", 2, h, 3, FALSE, FALSE) : h \in {0, 2}}
    \cup {Plan("real", 3, 1, 1, TRUE, FALSE)}

-----------------------------------------------------------------------------
\* Three cells of one language: without a specification, and two sizes with.

Cell(spec, layers) == [task |-> "t", spec |-> spec, layers |-> layers, heads |-> 1, terms |-> 1]
MCCells == {Cell(FALSE, 1), Cell(TRUE, 1), Cell(TRUE, 2)}
MCUnlucky == {Cell(TRUE, 2)}
Facts(hasSpec, empty, builtin, fromSpec) ==
    [hasSpec |-> hasSpec, empty |-> empty, skewed |-> FALSE :> builtin @@ TRUE :> fromSpec]
MCLanguages == "t" :> {Facts(TRUE, FALSE, FALSE, FALSE), Facts(TRUE, TRUE, FALSE, TRUE),
                       Facts(FALSE, FALSE, FALSE, FALSE)}
Result(same, empty, train, test, ops) ==
    [same |-> same, empty |-> empty, train |-> train, test |-> test, ops |-> ops]
MCResults == {Result(TRUE, FALSE, 1, 1, 2), Result(TRUE, TRUE, 1, 1, 1), Result(FALSE, FALSE, 1, 1, 1),
              Result(FALSE, TRUE, 0, 1, 1)}

-----------------------------------------------------------------------------

SomeCall == CHOOSE c \in Calls : TRUE

LearningInit ==
    /\ part \in {"data", "training", "study"}
    /\ DataInit /\ TrainInit /\ StudyInit
    /\ part # "data" => call = SomeCall
    /\ part # "training" =>
        /\ schedule = CHOOSE s \in Schedules : TRUE
        /\ model = CHOOSE m \in Params : TRUE
        /\ loss = CHOOSE l \in Losses : TRUE
    /\ part # "study" => facts["t"] = CHOOSE f \in Languages["t"] : TRUE

TakeData == part = "data" /\ DataNext /\ UNCHANGED <<part, trainVars, studyVars>>
TakeTraining == part = "training" /\ TrainNext /\ UNCHANGED <<part, dataVars, studyVars>>
TakeStudy == part = "study" /\ StudyNext /\ UNCHANGED <<part, dataVars, trainVars>>

LearningNext == TakeData \/ TakeTraining \/ TakeStudy

LearningSpec == LearningInit /\ [][LearningNext]_<<part, dataVars, trainVars, studyVars>>

=============================================================================
