----------------------------- MODULE SyncTools -----------------------------
(***************************************************************************)
(* waldoctl/sync_tools.py: the synchronous stand-ins of asynchronous tools *)
(* (classes of tools.py), made by threads that share the table of wrapper  *)
(* classes.                                                                *)
(***************************************************************************)
EXTENDS Naturals, SequencesExt

CONSTANTS
    Threads,
    Backends,     \* the tools' classes of backends: their MRO and their members
    NoWrapper,
    MaxWrappers   \* bound: wrapper classes made

VARIABLES
    wrappers,     \* _WRAPPERS
    registered,   \* which wrapper is registered with which class
    making,       \* by thread: the tool's class, the wrapper, the classes to register it with
    made,         \* how many wrapper classes were made
    handles       \* the synchronous tools that were handed out

syncVars == <<wrappers, registered, making, made, handles>>

-----------------------------------------------------------------------------
(* The tools of waldoctl: what is async def, and what is not.              *)

ToolReadings == {
    "key", "display_name", "tool_type", "tcp_origin", "tcp_rpy", "activation_type",
    "description", "meshes", "motions", "variants", "action_l_labels", "action_l_icons",
    "action_l_mode", "adjust_step", "adjust_labels", "adjust_icons", "action_r_labels",
    "action_r_icons", "action_r_mode", "channel_descriptors", "camera_spec",
    "runtime_settings", "effective_camera_device"}
ToolSpec ==
    [name \in ToolReadings \cup {"status", "action_l", "action_r"} |->
        IF name \in ToolReadings THEN "own" ELSE "async"]
GripperTool == [
    gripper_type |-> "own", set_position |-> "async", calibrate |-> "async",
    is_open |-> "own", action_l |-> "async", open |-> "async", close |-> "async"]
PneumaticGripperTool == [gripper_type |-> "own", io_port |-> "own"]
ElectricGripperTool == [
    gripper_type |-> "own", position_range |-> "own", speed_range |-> "own",
    current_range |-> "own", set_position |-> "async", open |-> "async", close |-> "async",
    stop |-> "async", release |-> "async"]

Mro == [
    ToolSpec |-> <<"ToolSpec">>,
    GripperTool |-> <<"GripperTool", "ToolSpec">>,
    PneumaticGripperTool |-> <<"PneumaticGripperTool", "GripperTool", "ToolSpec">>,
    ElectricGripperTool |-> <<"ElectricGripperTool", "GripperTool", "ToolSpec">>]

Body(cls) ==
    CASE cls = "ToolSpec" -> ToolSpec
      [] cls = "GripperTool" -> GripperTool
      [] cls = "PneumaticGripperTool" -> PneumaticGripperTool
      [] cls = "ElectricGripperTool" -> ElectricGripperTool
      [] OTHER -> Backends[cls].body

MroOf(cls) == IF cls \in DOMAIN Mro THEN Mro[cls] ELSE Backends[cls].mro

Classes == DOMAIN Mro \cup DOMAIN Backends

(* A tool's class is a ToolSpec, and has the bases of its bases.           *)
ASSUME SyncAssumption ==
    /\ NoWrapper \notin Nat /\ DOMAIN Backends \cap DOMAIN Mro = {}
    /\ \A cls \in DOMAIN Backends :
        /\ MroOf(cls) \in Seq(Classes)
        /\ Contains(MroOf(cls), cls) /\ Contains(MroOf(cls), "ToolSpec")
        /\ \A base \in ToSet(MroOf(cls)) : ToSet(MroOf(base)) \subseteq ToSet(MroOf(cls))

Members(cls) == UNION {DOMAIN Body(c) : c \in ToSet(MroOf(cls))}
Member(cls, name) ==
    LET declares(c) == name \in DOMAIN Body(c)
    IN  Body(MroOf(cls)[SelectInSeq(MroOf(cls), declares)])[name]

-----------------------------------------------------------------------------
(* The typed wrappers: the verbs that each runs, the attributes it reads. *)

SyncMro == [
    SyncTool |-> {"SyncTool"},
    SyncGripperTool |-> {"SyncGripperTool", "SyncTool"},
    SyncPneumaticGripperTool |-> {"SyncPneumaticGripperTool", "SyncGripperTool", "SyncTool"},
    SyncElectricGripperTool |-> {"SyncElectricGripperTool", "SyncGripperTool", "SyncTool"}]

(* SyncTool *)
ToolVerbs == {"status", "action_l", "action_r"}
ToolAttributes == {"key", "display_name", "tool_type", "tcp_origin", "tcp_rpy"}

(* The typed grippers. *)
Verbs == [
    SyncTool |-> ToolVerbs,
    SyncGripperTool |-> {"set_position", "open", "close", "calibrate"},
    SyncPneumaticGripperTool |-> {},
    SyncElectricGripperTool |-> {"set_position", "open", "close", "stop", "release"}]
Attributes == [
    SyncTool |-> ToolAttributes,
    SyncGripperTool |-> {"gripper_type"},
    SyncPneumaticGripperTool |-> {"io_port"},
    SyncElectricGripperTool |-> {"position_range", "speed_range", "current_range"}]

(* _TYPED, in the order in which it is searched. *)
Typed == <<
    <<"ElectricGripperTool", "SyncElectricGripperTool">>,
    <<"PneumaticGripperTool", "SyncPneumaticGripperTool">>,
    <<"GripperTool", "SyncGripperTool">>,
    <<"ToolSpec", "SyncTool">> >>

TypedFor(cls) ==
    LET fits(entry) == Contains(MroOf(cls), entry[1])
    IN  Typed[SelectInSeq(Typed, fits)][2]

(* Fault: what no typed wrapper declares is the tool's own. *)
ForwardAsIs(cls, name) == "own"

(* SyncTool.__getattr__: a coroutine method is run. *)
Forward(cls, name) == IF Member(cls, name) = "async" THEN "runs" ELSE "own"

(* What a caller of the synchronous tool gets. *)
Access(cls, name) ==
    LET declared == SyncMro[TypedFor(cls)]
    IN  IF \E s \in declared : name \in Verbs[s] THEN "runs"
        ELSE IF \E s \in declared : name \in Attributes[s] THEN "own"
        ELSE Forward(cls, name)

-----------------------------------------------------------------------------
Idle == [cls |-> "none", wrapper |-> NoWrapper, left |-> <<>>]

SyncInit ==
    /\ wrappers = [cls \in DOMAIN Backends |-> NoWrapper]
    /\ registered = {} /\ made = 0 /\ handles = {}
    /\ making = [t \in Threads |-> Idle]

HandOut(cls, wrapper) == handles' = handles \cup {[cls |-> cls, wrapper |-> wrapper]}

(* Fault: a wrapper can be found as soon as it is made. *)
LookUpEarly(t, cls) ==
    /\ making[t] = Idle
    /\ IF wrappers[cls] # NoWrapper
       THEN HandOut(cls, wrappers[cls]) /\ UNCHANGED <<wrappers, making, made>>
       ELSE /\ made < MaxWrappers
            /\ made' = made + 1
            /\ making' = [making EXCEPT ![t] =
                    [cls |-> cls, wrapper |-> made', left |-> MroOf(cls)]]
            /\ wrappers' = [wrappers EXCEPT ![cls] = made']
            /\ UNCHANGED handles
    /\ UNCHANGED registered

(* make_sync_tool, _wrapper_for: the wrapper class of the tool's class is  *)
(* found, or a new one is made, ...                                        *)
LookUp(t, cls) ==
    /\ making[t] = Idle
    /\ IF wrappers[cls] # NoWrapper
       THEN HandOut(cls, wrappers[cls]) /\ UNCHANGED <<making, made>>
       ELSE /\ made < MaxWrappers
            /\ made' = made + 1
            /\ making' = [making EXCEPT ![t] =
                    [cls |-> cls, wrapper |-> made', left |-> MroOf(cls)]]
            /\ UNCHANGED handles
    /\ UNCHANGED <<wrappers, registered>>

(* ... registered with the classes of the tool, one by one, ... *)
RegisterWith(t) ==
    /\ making[t].left # <<>>
    /\ registered' = registered \cup {<<Head(making[t].left), making[t].wrapper>>}
    /\ making' = [making EXCEPT ![t].left = Tail(@)]
    /\ UNCHANGED <<wrappers, made, handles>>

(* ... and kept for the next tool of that class. *)
Keep(t) ==
    /\ making[t] # Idle /\ making[t].left = <<>>
    /\ wrappers' = [wrappers EXCEPT ![making[t].cls] = making[t].wrapper]
    /\ HandOut(making[t].cls, making[t].wrapper)
    /\ making' = [making EXCEPT ![t] = Idle]
    /\ UNCHANGED <<registered, made>>

SyncNext ==
    \E t \in Threads :
        \/ \E cls \in DOMAIN Backends : LookUp(t, cls)
        \/ RegisterWith(t) \/ Keep(t)

SyncSpec == SyncInit /\ [][SyncNext]_syncVars

-----------------------------------------------------------------------------
(* A class has its registered classes and those of its subclasses.         *)
IsInstance(wrapper, cls) ==
    \E sub \in Classes : <<sub, wrapper>> \in registered /\ Contains(MroOf(sub), cls)

(* Whichever threads ask for synchronous tools, "isinstance(sync, X)       *)
(* answers as it does for the tool wrapped", the stand-in has the typed    *)
(* verbs of every class of waldoctl that the tool is an instance of, and   *)
(* what is async def in the tool "can never come back un-awaited", also if *)
(* only the backend declares it.                                           *)
SyncStandsIn ==
    \A handle \in handles :
        /\ \A cls \in Classes :
            IsInstance(handle.wrapper, cls) <=> Contains(MroOf(handle.cls), cls)
        /\ \A entry \in ToSet(Typed) :
            Contains(MroOf(handle.cls), entry[1])
                => entry[2] \in SyncMro[TypedFor(handle.cls)]
        /\ \A name \in Members(handle.cls) :
            Access(handle.cls, name) = "runs" <=> Member(handle.cls, name) = "async"
=============================================================================
