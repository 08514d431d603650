-------------------------------- MODULE Datasets --------------------------------
(***************************************************************************)
(* How a training and a test set are put together (uhat/tasks.py,          *)
(* balanced_sample and datasets): up to Attempts times the sampler draws   *)
(* count words, each goes into the bucket of its label unless that bucket  *)
(* is full, and the loop ends early once both buckets are.                 *)
(*                                                                         *)
(* A call names the task, the number of words per set, the length words    *)
(* are enumerated to, and the length ranges of the sets in turn: training, *)
(* then test.  Shuffles are left out; which word comes when is open anyway.*)
(***************************************************************************)
EXTENDS Tasks

CONSTANTS
    Calls,      \* bound: the calls, and the sizes and lengths they ask for
    Attempts    \* balanced_sample's attempts

ASSUME AttemptsAssumption == Attempts \in Nat \ {0}

\* A call asks for a task that resolve makes, and for lengths from lo to hi.
\* No call asks for longer words of tomita_2, which tasks.py writes down as the
\* set of its words (10)^k up to k = 63.
IsCall(c) ==
    /\ Resolved(c.task)
    /\ c.count \in Nat
    /\ c.ranges \in Seq(Nat \X Nat)
    /\ c.task.family = "tomita_2" => \A k \in DOMAIN c.ranges : c.ranges[k][2] <= 127

ASSUME CallsAssumption == \A c \in Calls : IsCall(c)

VARIABLES
    call,       \* the call being served
    set,        \* the number of the set being drawn; one more when done
    attempt, index,
    buckets,    \* the words kept so far, by label
    drawn,      \* the last word drawn, what it was meant to be, its label
    sets,       \* the finished sets
    failed      \* the sampler had nothing to choose from

dataVars == <<call, set, attempt, index, buckets, drawn, sets, failed>>

NoBuckets == [label \in BOOLEAN |-> <<>>]
Nothing == [word |-> <<>>, intent |-> "any", label |-> FALSE]

\* A call of balanced_sample alone, and one of datasets.
SampleCall(task, count, range) ==
    [task |-> task, count |-> count, upto |-> -1, ranges |-> <<range>>]

DatasetsCall(task, count, default) ==
    LET plan == Lengths(task, default)
    IN  [task |-> task, count |-> count, upto |-> plan.upto, ranges |-> <<plan.train, plan.test>>]

Wanted == call.count \div 2
Bounds == call.ranges[set]
Drawing == set <= Len(call.ranges) /\ ~failed
Full == \A label \in BOOLEAN : Len(buckets[label]) >= Wanted

DataInit ==
    /\ call \in Calls
    /\ set = 1 /\ attempt = 1 /\ index = 0
    /\ buckets = NoBuckets
    /\ drawn = Nothing
    /\ sets = <<>>
    /\ failed = FALSE

\* One word drawn, labelled and put into its bucket.
DrawWord ==
    /\ Drawing /\ index < call.count
    /\ \E d \in Draws(call.task, index, Bounds[1], Bounds[2]) :
        LET label == Label(call.task, d.word)
        IN  /\ drawn' = [word |-> d.word, intent |-> d.intent, label |-> label]
            /\ buckets' = IF Len(buckets[label]) < Wanted
                          THEN [buckets EXCEPT ![label] = Append(@, d.word)]
                          ELSE buckets
    /\ index' = index + 1
    /\ UNCHANGED <<call, set, attempt, sets, failed>>

\* An empty choice raises inside the sampler.
DrawFails ==
    /\ Drawing /\ index < call.count
    /\ Draws(call.task, index, Bounds[1], Bounds[2]) = {}
    /\ failed' = TRUE
    /\ UNCHANGED <<call, set, attempt, index, buckets, drawn, sets>>

DrawAgain ==
    /\ Drawing /\ index = call.count
    /\ ~Full /\ attempt < Attempts
    /\ attempt' = attempt + 1
    /\ index' = 0
    /\ drawn' = Nothing
    /\ UNCHANGED <<call, set, buckets, sets, failed>>

FinishSet ==
    /\ Drawing /\ index = call.count
    /\ Full \/ attempt = Attempts
    /\ sets' = Append(sets, [positives |-> buckets[TRUE], negatives |-> buckets[FALSE],
                             attempts |-> attempt])
    /\ set' = set + 1
    /\ attempt' = 1
    /\ index' = 0
    /\ buckets' = NoBuckets
    /\ drawn' = Nothing
    /\ UNCHANGED <<call, failed>>

DataNext == DrawWord \/ DrawFails \/ DrawAgain \/ FinishSet

DataSpec == DataInit /\ [][DataNext]_dataVars

-----------------------------------------------------------------------------
\* Properties.

\* A word that is built to be in the language is in it, and one that is built
\* to be just outside is outside.  The label is always computed from the
\* predicate, so that a construction with an index one off goes unnoticed: it
\* only unbalances the set.
ConstructedForItsLabel ==
    drawn.intent # "any" => drawn.label = (drawn.intent = "positive")

\* A paired sampler fills both buckets in its first attempt.
PairedSetsAreBalanced ==
    call.task.family \in Paired =>
        \A k \in DOMAIN sets :
            /\ sets[k].attempts = 1
            /\ Len(sets[k].positives) = call.count \div 2
            /\ Len(sets[k].negatives) = call.count \div 2

=============================================================================
