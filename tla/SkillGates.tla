----------------------------- MODULE SkillGates -----------------------------
(***************************************************************************)
(* What a client is asked before a program or a skill uses it: is_dry_run  *)
(* (dry_run.py), and the check of a skill's requirements (skills.py).  A   *)
(* client is that of a backend, live or for previews, behind any number of *)
(* wrappers that forward attributes: preview wrappers, and the guards of   *)
(* skills.                                                                 *)
(*                                                                         *)
(* The backend's client is [of, features, bound]: "live" or "preview", the *)
(* has_* flags of its robot (NoRobot if it names none), and whether a tool *)
(* is selected.  A wrapper is "wrapper", or a guard: "open", "closed" or   *)
(* "cancelled".  A client is the sequence of these, the backend's first.   *)
(***************************************************************************)
EXTENDS Naturals, SequencesExt, FiniteSets

CONSTANT NoRobot

Features == {"force_torque", "freedrive", "collision_checking"}

(* The public members of DryRunClient, in order. *)
Protocol == <<"robot", "tool", "program_length", "home", "move_j", "move_l", "delay",
              "checkpoint", "wait_command", "angles", "pose", "flush", "plan", "simulate">>
PreviewOnly == {"program_length", "flush", "plan", "simulate"}

(* getattr on the backend's client: a value, or what is raised. *)
BaseAttr(base, name) ==
    IF base.of = "live" /\ name \in PreviewOnly THEN "AttributeError"
    ELSE IF name = "tool" /\ ~base.bound THEN "RuntimeError"
    ELSE "value"

(* ... and on the client: the outermost guard that is not open answers     *)
(* (_Guard.__getattr__, _Execution.check).                                 *)
Attr(client, name) ==
    LET shut == {k \in 2..Len(client) : client[k] \in {"closed", "cancelled"}}
        outermost == CHOOSE k \in shut : \A j \in shut : j <= k
    IN  IF shut = {} THEN BaseAttr(client[1], name)
        ELSE IF client[outermost] = "cancelled" THEN "CancelledError"
        ELSE "RuntimeError"

(* Fault: a member that cannot answer yet counts as missing. *)
IsDryRunStrict(client) ==
    IF \A k \in DOMAIN Protocol : Attr(client, Protocol[k]) = "value" THEN "yes" ELSE "no"

(* is_dry_run: "no" at the first member that is not there; a               *)
(* cancellation is not handled.                                            *)
IsDryRun(client) ==
    LET answers(name) == Attr(client, name) \in {"AttributeError", "CancelledError"}
        first == SelectInSeq(Protocol, answers)
    IN  IF first = 0 THEN "yes"
        ELSE IF Attr(client, Protocol[first]) = "AttributeError" THEN "no"
        ELSE "cancelled"

(* Fault: a client that names no backend is trusted. *)
MissingFromNamed(required, robot) == IF robot = NoRobot THEN {} ELSE required \ robot

(* Requires.missing_from *)
MissingFrom(required, robot) == IF robot = NoRobot THEN required ELSE required \ robot

(* client.robot *)
RobotOf(client) == client[1].features

(* Skill.async_call, up to the skill's body; RuntimeApi is the version of  *)
(* skills that this waldoctl provides.  Only a guard as the outermost      *)
(* layer makes the call a nested one, which checks its execution first.    *)
RuntimeApi == 1
Admission(client, required, api) ==
    IF Len(client) > 1 /\ Last(client) \in {"closed", "cancelled"}
    THEN IF Last(client) = "closed" THEN "SkillError" ELSE "CancelledError"
    ELSE IF api # RuntimeApi THEN "IncompatibleSkill"
    ELSE IF Attr(client, "robot") # "value" THEN Attr(client, "robot")
    ELSE IF MissingFrom(required, RobotOf(client)) # {} THEN "MissingCapability"
    ELSE "runs"
=============================================================================
