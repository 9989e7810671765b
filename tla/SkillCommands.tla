--------------------------- MODULE SkillCommands ---------------------------
(***************************************************************************)
(* Skills on the arm: the executions of SkillLifecycle send their commands *)
(* through one client (waldoctl/client.py) to the controller, whose queue  *)
(* the client's wrapper follows by the command table.  An operation that   *)
(* is inside the client may send its command at any later time; a command  *)
(* or a reply may be lost, the arm may refuse, and somebody else may       *)
(* command the arm too.  The requests of all arrive in the order they were *)
(* sent; streams, which never queue, are left out.                         *)
(*                                                                         *)
(* The controller and the wrapper are not part of waldoctl: what they do   *)
(* is what RobotClient asks of them.                                       *)
(***************************************************************************)
EXTENDS SkillLifecycle, CommandTable, SequencesExt

CONSTANTS
    Calls,         \* the methods of RobotClient that are called
    Own,           \* the name of a command of the backend
    OwnMarkers,    \* how the backend may want to mark it
    Root, Host,    \* the sender of a stop request; somebody else
    MaxRequests,   \* bound: requests under way
    MaxIndex       \* bound: commands that were queued

ASSUME CommandsAssumption ==
    /\ {MaxRequests, MaxIndex} \subseteq Nat
    /\ Root \notin Users /\ Host \notin Executions
    /\ Calls \subseteq DOMAIN RobotClient /\ Own \notin DOMAIN RobotClient
    /\ \A m \in OwnMarkers : m.cancels \in BOOLEAN /\ m.mints \in {"default", "yes", "no"}

VARIABLES
    own,       \* how the backend marked its own command
    link,      \* the requests on their way, and whether their sender waits
    commands,  \* by index: the sender, and "queued", "completed" or "cancelled"
    told,      \* the indices that the client returned
    view,      \* the indices that the wrapper takes for pending
    silent,    \* history: discarded by a call whose reply the wrapper missed
    stopped,   \* the executions whose stop request was confirmed
    late       \* history: the users that were inside the client, their
               \* command not sent, when the arm was asked to stop

commandVars == <<own, link, commands, told, view, silent, stopped, late>>
tableVars == <<own, commands, told, view, silent, stopped>>

Awaited(from) == \E k \in DOMAIN link : link[k].from = from /\ link[k].awaited
Unawaited(from) ==
    [k \in DOMAIN link |->
        [link[k] EXCEPT !.awaited = @ /\ link[k].from # from]]

(* The MRO of a backend's client: it overrides the methods without markers *)
(* and adds a command.                                                     *)
ClientMro ==
    <<[name \in Calls \cup {Own} |-> IF name = Own THEN own ELSE Unmarked], RobotClient>>

CommandsInit ==
    /\ Init
    /\ own \in {m \in OwnMarkers : MarkerAccepted(m)}
    /\ link = <<>> /\ commands = <<>>
    /\ told = {} /\ view = {} /\ silent = {} /\ stopped = {}
    /\ late = [e \in Executions |-> {}]

-----------------------------------------------------------------------------
(* What a controller does with a call: RobotClient's return codes and      *)
(* Completion, and CommandKind for a backend's own command.                *)

Queues(name) ==
    \/ name \in {"move_j", "move_l", "move_c", "move_s", "move_p", "home", "select_tool",
                 "set_tcp_offset", "set_tcp_transform", "estimate_payload", "write_io",
                 "tool_action", "checkpoint", "delay"}
    \/ name = Own /\ own.kind \in {"motion", "queued"}
Indexed(name) ==
    Queues(name) /\ name # "estimate_payload" /\ (name = Own => own.mints # "no")
Discards(name) ==
    \/ name \in {"stop", "estop", "teleport", "reset_state"}
    \/ name = Own /\ own.cancels

Pending == {i \in DOMAIN commands : commands[i].state = "queued"}

(* The queue after a call that was accepted. *)
Handled(request) ==
    IF Discards(request.name)
    THEN [i \in DOMAIN commands |->
            [commands[i] EXCEPT !.state = IF i \in Pending THEN "cancelled" ELSE @]]
    ELSE IF Queues(request.name)
    THEN Append(commands, [from |-> request.from, state |-> "queued"])
    ELSE commands

(* The value of the call; a code is 1. *)
Value(name) == IF Indexed(name) THEN Len(commands) + 1 ELSE 1

(* What the wrapper makes of it: it follows the table.                     *)
Followed(name) ==
    LET spec == IF name \in Unclassified(ClientMro) THEN Unmarked ELSE Table(ClientMro)[name]
    IN  (IF spec.cancels THEN {} ELSE view)
            \cup (IF MintsIndex(spec) THEN {Value(name)} ELSE {})

-----------------------------------------------------------------------------
(* Fault: nothing is asked of the execution when an operation begins. *)
OperateUnchecked(e, u) ==
    /\ status[e] # "idle" /\ u \notin using[e]
    /\ using' = [using EXCEPT ![e] = @ \cup {u}]
    /\ UNCHANGED <<status, sealed, answer, commandVars>>

(* An operation of the guarded client begins. *)
Operate(e, u) == u \notin using[e] /\ BeginUse(e, u) /\ UNCHANGED commandVars

(* It sends its command ... *)
Send(e, u) ==
    /\ u \in using[e] /\ ~Awaited(<<e, u>>)
    /\ Len(link) < MaxRequests
    /\ \E name \in Calls \cup {Own} :
        link' = Append(link, [from |-> <<e, u>>, name |-> name, awaited |-> TRUE])
    /\ UNCHANGED <<lifecycleVars, tableVars, late>>

(* ... and may be cancelled while it waits for the reply. *)
Abandon(e, u) ==
    /\ EndUse(e, u)
    /\ link' = Unawaited(<<e, u>>)
    /\ UNCHANGED <<tableVars, late>>

(* Somebody else commands the arm. *)
Intervene ==
    /\ Len(link) < MaxRequests
    /\ \E name \in Calls :
        link' = Append(link, [from |-> <<Host, Root>>, name |-> name, awaited |-> FALSE])
    /\ UNCHANGED <<lifecycleVars, tableVars, late>>

(* Whoever waits for the reply ends its operation; a stop request is       *)
(* answered in Settle.                                                     *)
EndOf(request) ==
    IF request.awaited /\ request.from[2] \in Users
    THEN EndUse(request.from[1], request.from[2])
    ELSE UNCHANGED lifecycleVars

(* The controller handles the oldest request, which it may refuse, and     *)
(* answers it.                                                             *)
Deliver ==
    /\ link # <<>>
    /\ link' = Tail(link)
    /\ \E accepted, replied \in BOOLEAN :
        LET request == Head(link)
            heard == accepted /\ replied /\ request.awaited
        IN  /\ ~Queues(request.name) \/ Len(commands) < MaxIndex
            /\ EndOf(request)
            /\ commands' = IF accepted THEN Handled(request) ELSE commands
            /\ told' = told \cup (IF heard /\ Indexed(request.name)
                                  THEN {Value(request.name)} ELSE {})
            /\ view' = IF heard THEN Followed(request.name) ELSE view
            /\ silent' = silent \cup (IF accepted /\ ~heard /\ Discards(request.name)
                                      THEN Pending ELSE {})
            /\ stopped' = stopped \cup (IF heard /\ request.from[2] = Root
                                        THEN {request.from[1]} ELSE {})
    /\ UNCHANGED <<own, late>>

Lose ==
    /\ link # <<>>
    /\ link' = Tail(link)
    /\ EndOf(Head(link))
    /\ UNCHANGED <<tableVars, late>>

(* The oldest command is done. *)
Complete ==
    /\ Pending # {}
    /\ commands' = [commands EXCEPT ![Min(Pending)].state = "completed"]
    /\ UNCHANGED <<lifecycleVars, own, link, told, view, silent, stopped, late>>

(* wait_command returned or raised: the wrapper knows of the end.          *)
Resolve(i) ==
    /\ i \in DOMAIN commands \ Pending
    /\ view' = view \ {i}
    /\ UNCHANGED <<lifecycleVars, own, link, commands, told, silent, stopped, late>>

Stopping(e) ==
    /\ late' = [late EXCEPT ![e] = {u \in using[e] : ~Awaited(<<e, u>>)}]
    /\ link' = Append(link, [from |-> <<e, Root>>, name |-> "stop", awaited |-> TRUE])
    /\ UNCHANGED tableVars

Begin(e) ==
    /\ Start(e)
    /\ IF status'[e] = "stopping" THEN Stopping(e) ELSE UNCHANGED commandVars

(* The cancelled root asks the arm to stop, ... *)
AskStop(e) == RequestStop(e) /\ Stopping(e)

(* ... and takes a reply in time for a confirmation. *)
Settle(e) ==
    /\ Answer(e)
    /\ answer'[e] = "confirmed" => e \in stopped
    /\ link' = Unawaited(<<e, Root>>)
    /\ UNCHANGED <<tableVars, late>>

CommandsNext ==
    \/ \E e \in Executions :
        \/ Begin(e) \/ AskStop(e) \/ Settle(e)
        \/ (Seal(e) \/ End(e) \/ Report(e)) /\ UNCHANGED commandVars
        \/ \E u \in Users : Operate(e, u) \/ Send(e, u) \/ Abandon(e, u)
    \/ Intervene \/ Deliver \/ Lose \/ Complete
    \/ \E i \in view : Resolve(i)

CommandsSpec == CommandsInit /\ [][CommandsNext]_<<lifecycleVars, commandVars>>

-----------------------------------------------------------------------------
(* Once a cancelled skill reports its stop as confirmed, nothing it asked  *)
(* for moves the arm or is still on its way, except what an operation      *)
(* sends that was inside the client already, its command not sent, when    *)
(* the arm was asked to stop: the guard cannot call that one back.         *)
AtRest(e) ==
    LET excused(from) == from[1] = e => from[2] \in late[e] \cup {Root}
    IN  /\ \A k \in DOMAIN link : excused(link[k].from)
        /\ \A i \in Pending : excused(commands[i].from)

ArmAtRest ==
    \A e \in Executions : status[e] = "cancelled" /\ answer[e] = "confirmed" => AtRest(e)

(* "Every wrapper around a client has to agree" on what a call did: the    *)
(* wrapper that follows the table takes an index for pending only if the   *)
(* controller returned it, misses none that is pending, and keeps none     *)
(* that was discarded, except by a call whose reply it did not get.        *)
PreviewAgrees ==
    /\ view \subseteq told
    /\ told \cap Pending \subseteq view
    /\ \A i \in view : commands[i].state = "cancelled" => i \in silent
=============================================================================
