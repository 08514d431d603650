-------------------------------- MODULE Training --------------------------------
(***************************************************************************)
(* The two trainers: fit_best and train_once of uhat/train.py for the      *)
(* Boolean model, and the restart loop and train_once of                   *)
(* uhat/real_train.py for the real-valued one.                             *)
(*                                                                         *)
(* A model is its parameters; all that matters of them is the accuracy of  *)
(* their hardened readout on the training words, in units of 1 / Perfect.  *)
(* An optimiser step moves to any parameters and leaves any loss.          *)
(*                                                                         *)
(* Boolean training keeps the best hard model it has seen, looked at       *)
(* before the step that changes it: at every hard step when the batch is   *)
(* all the words, else at the first one and at every logged one.           *)
(***************************************************************************)
EXTENDS Integers

CONSTANTS
    Params,     \* the parameters of a model
    Perfect,    \* the accuracy 1.0
    Accuracy,   \* parameters -> accuracy of the hardened readout
    Losses,
    Schedules   \* kind "boolean" or "real", steps, hardStart, logEvery,
                \* fullBatch, legacy (hard_loss = "legacy"), restarts

ASSUME PerfectAssumption == Perfect \in Nat /\ Perfect > 0
ASSUME AccuracyAssumption == Accuracy \in [Params -> 0..Perfect]
ASSUME ParamsAssumption == Params # {}
ASSUME LossesAssumption == Losses \subseteq Int /\ Losses # {}

ScheduleType ==
    [kind : {"boolean", "real"}, steps : Nat \ {0}, hardStart : Nat, logEvery : Nat \ {0},
     fullBatch : BOOLEAN, legacy : BOOLEAN, restarts : Nat \ {0}]

\* int(steps * (1 - hard_fraction)) never exceeds steps.
ASSUME SchedulesAssumption ==
    /\ Schedules \subseteq ScheduleType
    /\ \A s \in Schedules : s.hardStart <= s.steps

None == [accuracy |-> -1]

VARIABLES
    schedule,
    phase,      \* "restart", "step" or "done"
    restart,    \* restarts completed
    step, model, loss,
    kept,       \* best_state: the best hard model considered, or none
    softModel,  \* the model the soft phase ended with (history)
    best,       \* the best fit so far
    fits        \* every fit returned (history)

trainVars == <<schedule, phase, restart, step, model, loss, kept, softModel, best, fits>>

Fit == [accuracy : 0..Perfect, model : Params, loss : Losses, soft : Params, seed : Nat]

TrainInit ==
    /\ schedule \in Schedules
    /\ phase = "restart"
    /\ restart = 0
    /\ step = 0
    /\ model \in Params /\ softModel = model
    /\ loss \in Losses
    /\ kept = None
    /\ best = None
    /\ fits = {}

\* A new seed: fresh parameters, a fresh optimiser, nothing kept.
BeginRestart ==
    /\ phase = "restart"
    /\ restart < schedule.restarts
    /\ model' \in Params
    /\ softModel' = model'
    /\ step' = 0
    /\ kept' = None
    /\ phase' = "step"
    /\ UNCHANGED <<schedule, restart, loss, best, fits>>

Training == phase = "step" /\ step < schedule.steps
Hard == step >= schedule.hardStart

SoftStep ==
    /\ Training /\ ~Hard
    /\ model' \in Params
    /\ softModel' = model'
    /\ loss' \in Losses
    /\ step' = step + 1
    /\ UNCHANGED <<schedule, phase, restart, kept, best, fits>>

\* Mutant: the hard model is looked at on the logged steps only.
Considered_WhenLogged ==
    schedule.kind = "boolean" /\ (schedule.fullBatch \/ step % schedule.logEvery = 0)

\* Is the current hard model a candidate for best_state at this step?
Considered ==
    /\ schedule.kind = "boolean"
    /\ \/ schedule.fullBatch
       \/ step = schedule.hardStart
       \/ step % schedule.logEvery = 0

\* The plain clamp of the legacy loss has no gradient: nothing moves.
HardStep ==
    /\ Training /\ Hard
    /\ kept' = IF Considered /\ Accuracy[model] > kept.accuracy
               THEN [accuracy |-> Accuracy[model], model |-> model]
               ELSE kept
    /\ IF schedule.kind = "boolean" /\ schedule.legacy
       THEN model' = model
       ELSE model' \in Params
    /\ loss' \in Losses
    /\ step' = step + 1
    /\ UNCHANGED <<schedule, phase, restart, softModel, best, fits>>

\* What train_once returns: the last model, or the kept one if that is better.
\* The loss is that of the last step in either case.
Returned ==
    LET final == IF kept.accuracy > Accuracy[model] THEN kept.model ELSE model
    IN  [accuracy |-> Accuracy[final], model |-> final, loss |-> loss,
         soft |-> softModel, seed |-> restart]

\* Mutant: the loss decides before the accuracy does.
Improves_ByLoss(fit) ==
    \/ best = None
    \/ fit.loss < best.loss
    \/ fit.loss = best.loss /\ fit.accuracy > best.accuracy

\* The Boolean trainer breaks ties by the loss, the real one keeps the first.
Improves(fit) ==
    \/ fit.accuracy > best.accuracy
    \/ /\ schedule.kind = "boolean"
       /\ fit.accuracy = best.accuracy /\ fit.loss < best.loss

Stops(fit, done) == fit.accuracy = Perfect \/ done = schedule.restarts

FinishRestart ==
    /\ phase = "step" /\ step = schedule.steps
    /\ fits' = fits \cup {Returned}
    /\ best' = IF Improves(Returned) THEN Returned ELSE best
    /\ restart' = restart + 1
    /\ phase' = IF Stops(best', restart') THEN "done" ELSE "restart"
    /\ UNCHANGED <<schedule, step, model, loss, kept, softModel>>

TrainNext == BeginRestart \/ SoftStep \/ HardStep \/ FinishRestart

TrainSpec == TrainInit /\ [][TrainNext]_trainVars

-----------------------------------------------------------------------------
\* Properties.

\* What train_once says of its hard phase: "the result is never worse than
\* not training hard" (train.py:116-118).  The fit of a Boolean restart with a
\* hard phase scores at least what the soft phase's last model scored.
NeverWorseThanSoft ==
    schedule.kind = "boolean" /\ schedule.hardStart < schedule.steps =>
        \A fit \in fits : fit.accuracy >= Accuracy[fit.soft]

\* The fit that is returned is the best of all restarts, its accuracy is the
\* accuracy of the model returned with it, and a restart was left out only
\* because the fit is perfect.
BestOfAllRestarts ==
    /\ \A fit \in fits :
        /\ best.accuracy >= fit.accuracy
        /\ schedule.kind = "boolean" /\ best.accuracy = fit.accuracy => best.loss <= fit.loss
    /\ phase = "done" =>
        /\ best \in fits
        /\ best.accuracy = Accuracy[best.model]
        /\ best.accuracy = Perfect \/ restart = schedule.restarts

=============================================================================
