---------------------------- MODULE ShapeWorlds ----------------------------
(***************************************************************************)
(* Shapes, attachments and worlds (waldoctl/shapes.py, waldoctl/world.py): *)
(* a client reads the controller's world, declares shapes attached to the  *)
(* flange with the context (epoch) of that readback, applies shapes, saves *)
(* a world to a file and loads it again, perhaps in another session, while *)
(* the controller's context may change under it at any time.               *)
(*                                                                         *)
(* A shape is its name and what decides over its attachment.  Kind,        *)
(* dimensions, margin and pose are numbers that are checked and passed on; *)
(* installation shapes are part of every world alike.  The controller is   *)
(* external: set_shapes and shapes of client.py, as they are described.    *)
(***************************************************************************)
EXTENDS Integers, FiniteSets

CONSTANTS
    ShapeNames,
    Partners,       \* names in collision reports; a shape's is its own name
    NoAttachment,   \* attachment=None
    MaxContext,     \* bound on the changes of context
    MaxShapes       \* bound on the shapes of a layer

ASSUME WorldAssumption == MaxContext \in Nat \ {0} /\ MaxShapes \in Nat

VARIABLES
    context,   \* the controller's attachment context; 0 if it has none
    applied,   \* its program layer
    world,     \* the ShapeWorld that the client holds
    readIn,    \* the context that world was read from, 0 for a file's
    drafts,    \* the shapes that the client prepares
    file       \* the dict of a saved world

worldVars == <<context, applied, world, readIn, drafts, file>>

-----------------------------------------------------------------------------
Epochs == 0..MaxContext

Attachments == [epoch : Epochs, allowed_contacts : SUBSET Partners]

Shapes ==
    [name : ShapeNames, collision : BOOLEAN, physics : BOOLEAN,
     attachment : Attachments \cup {NoAttachment}]

Attached(shape) == shape.attachment # NoAttachment

(* What the constructors of Shape and of Attachment let pass. *)
Constructible(shape) ==
    /\ shape.physics => shape.collision
    /\ Attached(shape) =>
        /\ shape.attachment.epoch > 0
        /\ shape.collision /\ ~shape.physics
        /\ shape.name \notin shape.attachment.allowed_contacts

(* ShapeWorld.attachments_valid *)
AttachmentsValid(w) ==
    \A shape \in w.program : Attached(shape) => shape.attachment.epoch = w.attachment_epoch

(* Fault: the file remembers the context. *)
WorldToDictWhole(w) == w

(* world_to_dict of a world, and world_from_dict of it: the context is     *)
(* not written, and reads as the default.                                  *)
WorldToDict(w) == [w EXCEPT !.attachment_epoch = 0]

WorldFromDict(data) == data

-----------------------------------------------------------------------------
WorldInit ==
    /\ context \in {0, 1} /\ applied = {}
    /\ world = [program |-> {}, attachment_epoch |-> 0] /\ readIn = 0
    /\ drafts = {} /\ file = WorldToDict(world)

(* A shape takes the place of the one of its name. *)
Drafted(shape) == {s \in drafts : s.name # shape.name} \cup {shape}

Construct(shape) ==
    /\ Constructible(shape) /\ ~Attached(shape)
    /\ Cardinality(Drafted(shape)) <= MaxShapes
    /\ drafts' = Drafted(shape)
    /\ UNCHANGED <<context, applied, world, readIn, file>>

(* Shape.attach with the epoch of the world that the client holds. *)
Attach(shape, contacts) ==
    LET attached == [shape EXCEPT !.attachment =
                        [epoch |-> world.attachment_epoch, allowed_contacts |-> contacts]]
    IN  /\ Constructible(attached)
        /\ drafts' = Drafted(attached)
        /\ UNCHANGED <<context, applied, world, readIn, file>>

(* Shape.detach *)
Detach(shape) ==
    /\ Attached(shape)
    /\ drafts' = Drafted([shape EXCEPT !.attachment = NoAttachment])
    /\ UNCHANGED <<context, applied, world, readIn, file>>

(* The client goes on from the shapes of the world it holds. *)
TakeOver ==
    /\ drafts' = world.program
    /\ UNCHANGED <<context, applied, world, readIn, file>>

(* RobotClient.set_shapes *)
SetShapes ==
    /\ applied' = drafts
    /\ UNCHANGED <<context, world, readIn, drafts, file>>

(* RobotClient.shapes *)
ReadShapes ==
    /\ world' = [program |-> applied, attachment_epoch |-> context] /\ readIn' = context
    /\ UNCHANGED <<context, applied, drafts, file>>

(* Another session, reference, source or tool. *)
ChangeContext ==
    /\ context \in 1..(MaxContext - 1)
    /\ context' = context + 1
    /\ UNCHANGED <<applied, world, readIn, drafts, file>>

SaveWorld ==
    /\ file' = WorldToDict(world)
    /\ UNCHANGED <<context, applied, world, readIn, drafts>>

LoadWorld ==
    /\ world' = WorldFromDict(file) /\ readIn' = 0
    /\ UNCHANGED <<context, applied, drafts, file>>

WorldNext ==
    \/ \E shape \in Shapes : Construct(shape)
    \/ \E shape \in drafts :
        \/ \E contacts \in SUBSET Partners : Attach(shape, contacts)
        \/ Detach(shape)
    \/ TakeOver \/ SetShapes \/ ReadShapes \/ ChangeContext \/ SaveWorld \/ LoadWorld

WorldSpec == WorldInit /\ [][WorldNext]_worldVars

-----------------------------------------------------------------------------
(* attachments_valid answers for the context the world was read from and   *)
(* for no other: attachments declared before a change of context, and all  *)
(* that come out of a file ("Persisted world files never constitute a      *)
(* fresh context readback"), are refused, and so is an attachment in a     *)
(* world of a controller that has no context.                              *)
StaleAttachmentsRefused ==
    AttachmentsValid(world) =>
        \A shape \in world.program :
            Attached(shape) => readIn # 0 /\ shape.attachment.epoch = readIn
=============================================================================
