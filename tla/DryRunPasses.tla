---------------------------- MODULE DryRunPasses ----------------------------
(***************************************************************************)
(* The two records of DryRun (waldoctl/dry_run_state.py) and the host's    *)
(* passes that fill them.  An edit that re-plans bumps the revision; a     *)
(* pass computes the record of the program as it was when it was launched  *)
(* and may end after any number of further edits.                          *)
(*                                                                         *)
(* The passes are host code, taken from how DryRun describes them; what    *)
(* the library itself does is predicted_current.                           *)
(***************************************************************************)
EXTENDS Integers, FiniteSets

CONSTANTS
    Programs,       \* what a program may consist of
    EmptyProgram,   \* what it consists of at first
    NoRecord,       \* None
    MaxRevision,    \* bound on edits
    MaxPasses       \* bound on the passes that run at once

ASSUME DryRunAssumption ==
    /\ {MaxRevision, MaxPasses} \subseteq Nat
    /\ EmptyProgram \in Programs /\ NoRecord \notin Programs

VARIABLES
    program,              \* the source that is planned
    revision,
    passes,               \* the passes that run
    commanded, commanded_revision,
    predicted, predicted_revision

dryRunVars == <<program, revision, passes, commanded, commanded_revision,
                predicted, predicted_revision>>

DryRunInit ==
    /\ program = EmptyProgram
    /\ revision = 0 /\ passes = {}
    /\ commanded = NoRecord /\ commanded_revision = -1
    /\ predicted = NoRecord /\ predicted_revision = -1

Replan(source) ==
    /\ revision < MaxRevision
    /\ program' = source /\ revision' = revision + 1
    /\ UNCHANGED <<passes, commanded, commanded_revision, predicted, predicted_revision>>

(* A pass carries the revision it was launched for. *)
LaunchPass(kind) ==
    /\ Cardinality(passes) < MaxPasses
    /\ passes' = passes \cup {[kind |-> kind, of |-> program, revision |-> revision]}
    /\ UNCHANGED <<program, revision, commanded, commanded_revision,
                   predicted, predicted_revision>>

(* The record is the program it was computed from; it lands only against   *)
(* the revision of its pass.                                               *)
LandPass(pass) ==
    /\ passes' = passes \ {pass}
    /\ IF pass.revision # revision
       THEN UNCHANGED <<commanded, commanded_revision, predicted, predicted_revision>>
       ELSE IF pass.kind = "plan"
       THEN /\ commanded' = pass.of /\ commanded_revision' = pass.revision
            /\ UNCHANGED <<predicted, predicted_revision>>
       ELSE /\ predicted' = pass.of /\ predicted_revision' = pass.revision
            /\ UNCHANGED <<commanded, commanded_revision>>
    /\ UNCHANGED <<program, revision>>

DryRunNext ==
    \/ \E source \in Programs : Replan(source)
    \/ \E kind \in {"plan", "simulate"} : LaunchPass(kind)
    \/ \E pass \in passes : LandPass(pass)

DryRunSpec == DryRunInit /\ [][DryRunNext]_dryRunVars

-----------------------------------------------------------------------------
(* Fault: the prediction is current if it is of the newest revision. *)
PredictedCurrentNewest == IF predicted_revision # revision THEN NoRecord ELSE predicted

(* predicted_current *)
PredictedCurrent ==
    IF predicted = NoRecord \/ predicted_revision # commanded_revision THEN NoRecord
    ELSE predicted

(* "The predicted record iff it answers the commanded one on screen": what *)
(* is compared row by row is always the run and the plan of one program,   *)
(* in whichever order the passes of several edits end; and once both       *)
(* records of the newest edit have landed, they are compared.              *)
PredictionAnswersPlan ==
    /\ PredictedCurrent # NoRecord => PredictedCurrent = commanded
    /\ commanded_revision = revision /\ predicted_revision = revision
        => PredictedCurrent = program
=============================================================================
