---------------------------- MODULE CommandTable ----------------------------
(***************************************************************************)
(* waldoctl/commands.py: what kind of thing each method of RobotClient is, *)
(* as data that the wrappers around a client share.  A class is a function *)
(* from the names of its methods to the markers they carry, an object's    *)
(* class the sequence of the classes of its MRO.                           *)
(***************************************************************************)
EXTENDS Naturals, FiniteSetsExt

Queueing == {"motion", "queued"}

Marker(kind) == [kind |-> kind, move_type |-> "none", cancels |-> FALSE, mints |-> "default"]
Move(shape) == [Marker("motion") EXCEPT !.move_type = shape]
Unindexed(marker) == [marker EXCEPT !.mints = "no"]
Cancelling(kind) == [Marker(kind) EXCEPT !.cancels = TRUE]

(* A method that carries none. *)
Unmarked == Marker("none")

(* Fault: anything may claim to return an index. *)
MarkerAcceptedAny(m) ==
    /\ (m.kind = "motion") <=> (m.move_type # "none")
    /\ m.cancels => m.kind \in {"control", "system"}

(* What command(...) takes without a ValueError. *)
MarkerAccepted(m) ==
    /\ (m.kind = "motion") <=> (m.move_type # "none")
    /\ m.cancels => m.kind \in {"control", "system"}
    /\ m.mints = "yes" => m.kind \in Queueing

MintsIndex(m) == m.mints = "yes" \/ (m.mints = "default" /\ m.kind \in Queueing)

-----------------------------------------------------------------------------
(* RobotClient, in the order of its file. *)

Connection == [
    close |-> Marker("sync"), ping |-> Marker("query"), wait_ready |-> Marker("sync"),
    stream_status |-> Marker("observation"), stream_status_shared |-> Marker("observation")]

Moves == [
    move_j |-> Move("joints"), move_l |-> Move("cartesian"), home |-> Marker("queued"),
    move_c |-> Move("smooth_arc")]
Splines == [move_s |-> Move("smooth_spline"), move_p |-> Move("cartesian")]

Stream == Unindexed(Move("jog"))
Streams == [servo_j |-> Stream, servo_l |-> Stream, jog_j |-> Stream, jog_l |-> Stream]

Waits == [
    wait_motion |-> Marker("sync"), wait_command |-> Marker("sync"),
    wait_status |-> Marker("observation"), wait_checkpoint |-> Marker("sync")]

Controls == [
    set_execution_speed |-> Marker("control"), pause |-> Marker("control"),
    resume |-> Marker("control"), execution_speed |-> Marker("query"),
    stop |-> Cancelling("control"), estop |-> Cancelling("control")]

System == [
    reset |-> Marker("system"), loop_stats |-> Marker("query"),
    set_status_rate |-> Marker("system"), status_rate |-> Marker("query"),
    simulator |-> Marker("system"), is_simulator |-> Marker("query"),
    teleport |-> Cancelling("system")]
World == [
    freedrive |-> Marker("system"), is_freedrive |-> Marker("observation"),
    set_shapes |-> Marker("system"), shapes |-> Marker("query")]

Readings == [
    angles |-> Marker("query"), pose |-> Marker("query"), joint_speeds |-> Marker("query"),
    io |-> Marker("observation"), status |-> Marker("observation"), queue |-> Marker("query")]
Reports == [
    tools |-> Marker("query"), activity |-> Marker("query"), reachable |-> Marker("query"),
    error |-> Marker("query"), profile |-> Marker("query"), tcp_speed |-> Marker("query")]

Setup == [
    connect_hardware |-> Marker("system"), select_profile |-> Marker("system"),
    select_tool |-> Marker("queued"), set_tcp_offset |-> Marker("queued"),
    tcp_offset |-> Marker("query"), set_tcp_transform |-> Marker("queued"),
    tcp_transform |-> Marker("query")]

Payload == [
    set_payload |-> Marker("system"), estimate_payload |-> Unindexed(Move("joints")),
    payload |-> Marker("query")]

Tool == [
    write_io |-> Marker("queued"), tool_action |-> Marker("queued"),
    reset_state |-> Cancelling("system"), checkpoint |-> Marker("queued"),
    delay |-> Marker("queued")]

Sections == {Connection, Moves, Splines, Streams, Waits, Controls, System, World, Readings,
             Reports, Setup, Payload, Tool}

RobotClient ==
    [name \in UNION {DOMAIN section : section \in Sections} |->
        LET section == CHOOSE s \in Sections : name \in DOMAIN s IN section[name]]

-----------------------------------------------------------------------------
Methods(mro) == UNION {DOMAIN mro[k] : k \in DOMAIN mro}

(* Fault: the marker of the method that is called, and no other. *)
SpecOfNearest(mro, name) ==
    mro[Min({k \in DOMAIN mro : name \in DOMAIN mro[k]})][name]

(* _spec: the marker on the nearest definition in the MRO that has one. *)
SpecOf(mro, name) ==
    LET marked == {k \in DOMAIN mro : name \in DOMAIN mro[k] /\ mro[k][name] # Unmarked}
    IN  IF marked = {} THEN Unmarked ELSE mro[Min(marked)][name]

(* command_table, of the public methods. *)
Table(mro) ==
    [name \in {n \in Methods(mro) : SpecOf(mro, n) # Unmarked} |-> SpecOf(mro, name)]

(* unclassified *)
Unclassified(mro) == {name \in Methods(mro) : SpecOf(mro, name) = Unmarked}
=============================================================================
