----------------------------- MODULE CellSetup -----------------------------
(***************************************************************************)
(* waldoctl/setup.py and camera.py: the setup of a cell, edited one        *)
(* snapshot at a time, and the camera calibrations that are only good for  *)
(* the setup, the tool and the device they were measured with.             *)
(*                                                                         *)
(* Snapshots are immutable: an edit makes a new one or raises, so the      *)
(* variable setup is the host's reference to the latest.  Rigid transforms *)
(* are the elements of a group; the parameters, signals and TCP records of *)
(* a snapshot refer to nothing and are left out.                           *)
(***************************************************************************)
EXTENDS Naturals, FiniteSets, Functions

CONSTANTS
    Transforms,     \* the rigid transforms
    Identity,       \* of Transforms
    Compose(_, _),  \* matrix product
    Inverted(_),     \* np.linalg.inv
    Refused,        \* a ValueError instead of a transform
    FrameNames, PoseNames, CameraNames,  \* names in use, reserved ones too
    WRF, TCP,       \* the two reserved frame names that poses may use
    Edits,          \* bound: the transforms that frames and poses are given
    Mounts,         \* bound: the camera poses that calibrations solve
    MaxEntries,     \* bound: poses and calibrations at a time
    Devices,        \* camera id, image size and backend, as one binding
    Tools           \* the tool bindings: a tool, its variant and its TCP

ASSUME GroupAssumption ==
    /\ Identity \in Transforms
    /\ Refused \notin Transforms
    /\ \A a, b \in Transforms : Compose(a, b) \in Transforms
    /\ \A a \in Transforms :
        /\ Inverted(a) \in Transforms
        /\ Compose(Identity, a) = a /\ Compose(a, Identity) = a
        /\ Compose(Inverted(a), a) = Identity /\ Compose(a, Inverted(a)) = Identity
    /\ \A a, b, c \in Transforms : Compose(Compose(a, b), c) = Compose(a, Compose(b, c))

ASSUME NameAssumption ==
    /\ WRF # TCP
    /\ WRF \notin FrameNames
    /\ Edits \subseteq Transforms
    /\ Mounts \subseteq Transforms
    /\ MaxEntries \in Nat
    /\ Tools \subseteq [key : {t.key : t \in Tools}, values : Transforms]

VARIABLES
    setup,    \* the SetupSnapshot: its frames, poses and cameras
    tool,     \* the tool binding that is active on the robot
    device,   \* the camera that is plugged in
    solving,  \* the calibrations being solved: what they were measured with
    taught,   \* history: where a pose was taught, and its frame's transform then
    measured  \* history: for a stored calibration, where the camera was

vars == <<setup, tool, device, solving, taught, measured>>

-----------------------------------------------------------------------------
(* SetupSnapshot: resolution.                                              *)

Frame == [values : Transforms, parent : FrameNames \cup {WRF}]
Pose == [values : Transforms, frame : FrameNames \cup {WRF}]

(* The product of what was not refused. *)
Product(a, b) == IF {a, b} \subseteq Transforms THEN Compose(a, b) ELSE Refused

(* Fault: a frame's own transform is applied in its parent's place.        *)
FrameMatrixInsideOut(frames, name) ==
    LET up[unvisited \in SUBSET DOMAIN frames] ==
            [n \in FrameNames \cup {WRF, TCP} |->
                IF n = WRF THEN Identity
                ELSE IF n \notin unvisited THEN Refused
                ELSE Product(frames[n].values, up[unvisited \ {n}][frames[n].parent])]
    IN  up[DOMAIN frames][name]

(* frame_matrix: from name up to WRF, the parent's transform to the left.  *)
(* A frame met again, and one that does not exist, are refused.            *)
FrameMatrix(frames, name) ==
    LET up[unvisited \in SUBSET DOMAIN frames] ==
            [n \in FrameNames \cup {WRF, TCP} |->
                IF n = WRF THEN Identity
                ELSE IF n \notin unvisited THEN Refused
                ELSE Product(up[unvisited \ {n}][frames[n].parent], frames[n].values)]
    IN  up[DOMAIN frames][name]

(* resolve, for a stored pose. *)
Resolve(s, name) ==
    LET pose == s.poses[name] IN Product(FrameMatrix(s.frames, pose.frame), pose.values)

(* Fault: the frame is put in front as it is. *)
RelativePoseForward(s, world, frame) == Product(FrameMatrix(s.frames, frame), world)

(* relative_pose *)
RelativePose(s, world, frame) ==
    LET matrix == FrameMatrix(s.frames, frame)
    IN  IF matrix \in Transforms THEN Compose(Inverted(matrix), world) ELSE Refused

(* Fault: the tool cameras' frame may be given a static meaning. *)
AcceptedReserved(s) ==
    /\ \A f \in DOMAIN s.frames : FrameMatrix(s.frames, f) \in Transforms
    /\ \A p \in DOMAIN s.poses : FrameMatrix(s.frames, s.poses[p].frame) \in Transforms

(* Fault: only the frames that some pose uses are walked. *)
AcceptedLazily(s) ==
    /\ DOMAIN s.frames \cap {WRF, TCP} = {}
    /\ \A p \in DOMAIN s.poses : FrameMatrix(s.frames, s.poses[p].frame) \in Transforms

(* SetupSnapshot.__post_init__, which every edit goes through. *)
Accepted(s) ==
    /\ DOMAIN s.frames \cap {WRF, TCP} = {}
    /\ \A f \in DOMAIN s.frames : FrameMatrix(s.frames, f) \in Transforms
    /\ \A p \in DOMAIN s.poses : FrameMatrix(s.frames, s.poses[p].frame) \in Transforms

-----------------------------------------------------------------------------
(* CameraCalibration.  A tool camera's pose is relative to the TCP and it  *)
(* keeps the tool binding; a fixed camera's pose is relative to a frame    *)
(* and it keeps that frame's transform, reference_wrf.                     *)

ToolCamera == [mount : {"tool"}, device : Devices, pose : Transforms, tool : Tools]
FixedCamera == [mount : {"fixed"}, device : Devices, pose : Transforms,
                frame : FrameNames \cup {WRF}, reference : Transforms]
CameraCalibration == ToolCamera \cup FixedCamera

(* Fault: the tool's TCP is not compared. *)
ValidateKeyOnly(camera, s, dev, t) ==
    /\ dev = camera.device
    /\ camera.mount = "tool" => t.key = camera.tool.key
    /\ camera.mount = "fixed" => FrameMatrix(s.frames, camera.frame) = camera.reference

(* Fault: any edit of the setup makes the calibration stale. *)
ValidateAnyEdit(camera, s, dev, t) ==
    /\ dev = camera.device
    /\ camera.mount = "tool" => t = camera.tool
    /\ camera.mount = "fixed" =>
        /\ FrameMatrix(s.frames, camera.frame) = camera.reference
        /\ DOMAIN s.frames \subseteq {camera.frame}

(* validate: device, tool and variant, TCP transform or reference frame.   *)
Validate(camera, s, dev, t) ==
    /\ dev = camera.device
    /\ camera.mount = "tool" => t.key = camera.tool.key /\ t.values = camera.tool.values
    /\ camera.mount = "fixed" => FrameMatrix(s.frames, camera.frame) = camera.reference

(* world_pose: parent @ pose, once validated. *)
WorldPose(camera, s, dev, t, tcpPose) ==
    IF ~Validate(camera, s, dev, t) THEN Refused
    ELSE IF camera.mount = "tool" THEN Compose(tcpPose, camera.pose)
    ELSE Product(FrameMatrix(s.frames, camera.frame), camera.pose)

-----------------------------------------------------------------------------
Store(f, name, value) == [n \in DOMAIN f \cup {name} |-> IF n = name THEN value ELSE f[n]]
Drop(f, name) == Restrict(f, DOMAIN f \ {name})
Nothing == [n \in {} |-> n]

RoomFor(new) ==
    Cardinality(DOMAIN setup.poses) + Cardinality(DOMAIN setup.cameras)
        + Cardinality(solving) + new <= MaxEntries

Init ==
    /\ setup = [frames |-> Nothing, poses |-> Nothing, cameras |-> Nothing]
    /\ tool \in Tools
    /\ device \in Devices
    /\ solving = {}
    /\ taught = Nothing
    /\ measured = Nothing

(* An edit ends in the constructor: a snapshot that it refuses is never    *)
(* the host's.                                                             *)
Edit(s) == Accepted(s) /\ setup' = s

(* with_frame; a pose that stood still in its frame moves with it. *)
WithFrame(name, frame) ==
    /\ Edit([setup EXCEPT !.frames = Store(@, name, frame)])
    /\ UNCHANGED <<tool, device, solving, taught, measured>>

(* with_pose, given its values directly: it was taught nowhere. *)
WithPose(name, pose) ==
    /\ RoomFor(IF name \in DOMAIN setup.poses THEN 0 ELSE 1)
    /\ Edit([setup EXCEPT !.poses = Store(@, name, pose)])
    /\ taught' = Drop(taught, name)
    /\ UNCHANGED <<tool, device, solving, measured>>

(* The host stores the pose it observes: with_pose of relative_pose.       *)
Teach(name, world, frame) ==
    LET values == RelativePose(setup, world, frame)
    IN  /\ values \in Transforms
        /\ RoomFor(IF name \in DOMAIN setup.poses THEN 0 ELSE 1)
        /\ Edit([setup EXCEPT !.poses = Store(@, name, [values |-> values, frame |-> frame])])
        /\ taught' = Store(taught, name,
                [at |-> world, frame |-> FrameMatrix(setup.frames, frame)])
        /\ UNCHANGED <<tool, device, solving, measured>>

(* without("frames", name), which decodes what is left: from_dict.         *)
WithoutFrame(name) ==
    /\ name \in DOMAIN setup.frames
    /\ Edit([setup EXCEPT !.frames = Drop(@, name)])
    /\ UNCHANGED <<tool, device, solving, taught, measured>>

(* without("poses", name) *)
WithoutPose(name) ==
    /\ name \in DOMAIN setup.poses
    /\ Edit([setup EXCEPT !.poses = Drop(@, name)])
    /\ taught' = Drop(taught, name)
    /\ UNCHANGED <<tool, device, solving, measured>>

(* The host measures a camera on the tool: its pose relative to the TCP.   *)
(* where: its place on the flange, whatever tool is mounted.               *)
MeasureOnTool(name, pose) ==
    /\ RoomFor(1)
    /\ solving' = solving \cup {[name |-> name, where |-> Compose(tool.values, pose), camera |->
            [mount |-> "tool", device |-> device, pose |-> pose, tool |-> tool]]}
    /\ UNCHANGED <<setup, tool, device, taught, measured>>

(* The host measures a fixed camera against a frame of the setup of now.   *)
MeasureFixed(name, pose, frame) ==
    LET reference == FrameMatrix(setup.frames, frame)
    IN  /\ reference \in Transforms
        /\ RoomFor(1)
        /\ solving' = solving \cup {[name |-> name, where |-> Compose(reference, pose), camera |->
                [mount |-> "fixed", device |-> device, pose |-> pose,
                 frame |-> frame, reference |-> reference]]}
        /\ UNCHANGED <<setup, tool, device, taught, measured>>

(* with_camera, when the solution is there: the setup may be another by now. *)
WithCamera(job) ==
    /\ job \in solving
    /\ Edit([setup EXCEPT !.cameras = Store(@, job.name, job.camera)])
    /\ measured' = Store(measured, job.name, job.where)
    /\ solving' = solving \ {job}
    /\ UNCHANGED <<tool, device, taught>>

(* without("cameras", name) *)
WithoutCamera(name) ==
    /\ name \in DOMAIN setup.cameras
    /\ Edit([setup EXCEPT !.cameras = Drop(@, name)])
    /\ measured' = Drop(measured, name)
    /\ UNCHANGED <<tool, device, solving, taught>>

(* The operator mounts another tool or variant, or applies another TCP.    *)
ChangeTool(t) ==
    /\ t # tool
    /\ tool' = t
    /\ UNCHANGED <<setup, device, solving, taught, measured>>

(* Another camera, resolution or backend. *)
ChangeDevice(d) ==
    /\ d # device
    /\ device' = d
    /\ UNCHANGED <<setup, tool, solving, taught, measured>>

Next ==
    \/ \E name \in FrameNames :
        \/ \E values \in Edits, parent \in FrameNames \cup {WRF} :
            WithFrame(name, [values |-> values, parent |-> parent])
        \/ WithoutFrame(name)
    \/ \E name \in PoseNames :
        \/ \E values \in Edits, frame \in FrameNames \cup {WRF} :
            \/ WithPose(name, [values |-> values, frame |-> frame])
            \/ Teach(name, values, frame)
        \/ WithoutPose(name)
    \/ \E name \in CameraNames, pose \in Mounts :
        \/ MeasureOnTool(name, pose)
        \/ \E frame \in FrameNames \cup {WRF} : MeasureFixed(name, pose, frame)
    \/ \E job \in solving : WithCamera(job)
    \/ \E name \in CameraNames : WithoutCamera(name)
    \/ \E t \in Tools : ChangeTool(t)
    \/ \E d \in Devices : ChangeDevice(d)

Spec == Init /\ [][Next]_vars
-----------------------------------------------------------------------------
(* f maps some of the names to values of S. *)
IsMapping(f, names, S) == DOMAIN f \subseteq names /\ f \in [DOMAIN f -> S]

TypeOK ==
    /\ setup = [frames |-> setup.frames, poses |-> setup.poses, cameras |-> setup.cameras]
    /\ IsMapping(setup.frames, FrameNames \ {WRF, TCP}, Frame)
    /\ IsMapping(setup.poses, PoseNames, Pose)
    /\ IsMapping(setup.cameras, CameraNames, CameraCalibration)
    /\ tool \in Tools
    /\ device \in Devices
    /\ solving \subseteq [name : CameraNames, where : Transforms, camera : CameraCalibration]
    /\ IsMapping(taught, DOMAIN setup.poses, [at : Transforms, frame : Transforms])
    /\ measured \in [DOMAIN setup.cameras -> Transforms]

(* Whatever the order of edits, removals and decodings, the frames are a   *)
(* forest rooted at WRF and every pose hangs on it: no set of frames holds *)
(* all the parents of its members (docs/setup.md: "Missing references,     *)
(* frame cycles ... and removal of a referenced frame are refused").       *)
FramesRooted ==
    LET frames == setup.frames
        known == DOMAIN frames \cup {WRF}
    IN  /\ \A f \in DOMAIN frames : frames[f].parent \in known
        /\ \A p \in DOMAIN setup.poses : setup.poses[p].frame \in known
        /\ \A F \in SUBSET DOMAIN frames :
            F # {} => \E f \in F : frames[f].parent \notin F

(* A taught pose stays where it was taught, until its frame is moved: then *)
(* it has moved by just what the frame has (relative_pose, resolve).       *)
TaughtPosesFollow ==
    \A p \in DOMAIN taught :
        LET now == FrameMatrix(setup.frames, setup.poses[p].frame)
            move == Product(now, Inverted(taught[p].frame))
        IN  Resolve(setup, p) = Product(move, taught[p].at)

(* The frames that hang on f, f among them. *)
Below(frames, f) ==
    {n \in DOMAIN frames : \A F \in SUBSET DOMAIN frames :
        f \in F /\ (\A c \in DOMAIN frames : frames[c].parent \in F => c \in F) => n \in F}

(* s becomes t by another transform of frame f, its parent staying.        *)
Moved(s, t, f) ==
    /\ f \in DOMAIN s.frames \cap DOMAIN t.frames
    /\ s.frames[f].parent = t.frames[f].parent
    /\ t = [s EXCEPT !.frames[f] = t.frames[f]]

(* docs/setup.md: "Editing a frame updates the resolution of every         *)
(* descendant".  Moving a frame moves all that hangs on it as one rigid    *)
(* body, and nothing else.                                                 *)
FramesMoveRigidly ==
    [][\A f \in FrameNames : Moved(setup, setup', f) =>
        LET poses == DOMAIN setup.poses
            carried == {p \in poses : setup.poses[p].frame \in Below(setup.frames, f)}
            between(s, p, q) == Compose(Inverted(Resolve(s, p)), Resolve(s, q))
        IN  /\ \A p \in poses \ carried : Resolve(setup', p) = Resolve(setup, p)
            /\ \A p, q \in carried : between(setup', p, q) = between(setup, p, q)]_vars

(* world_pose never misplaces a camera: if it answers for the device, the  *)
(* tool and the setup of now, the camera is where it was measured, on the  *)
(* flange or in the cell, wherever the flange is.                          *)
CamerasWhereMeasured ==
    \A c \in DOMAIN setup.cameras, flange \in Transforms :
        LET camera == setup.cameras[c]
            answer == WorldPose(camera, setup, device, tool, Compose(flange, tool.values))
        IN  answer # Refused =>
                answer = IF camera.mount = "tool" THEN Compose(flange, measured[c])
                         ELSE measured[c]

Usable(camera) == Validate(camera, setup, device, tool)

(* validate: "Refuse changed acquisition, robot or relevant setup          *)
(* bindings".  An edit of a frame that the camera does not hang on, or of  *)
(* anything else, leaves its calibration usable.                           *)
UnrelatedEditsKeepCameras ==
    [][\A c \in DOMAIN setup.cameras \cap DOMAIN setup'.cameras :
        LET camera == setup.cameras[c]
            above == {f \in DOMAIN setup.frames : camera.mount = "fixed" /\
                        camera.frame \in Below(setup.frames, f)}
        IN  /\ setup'.cameras[c] = camera
            /\ UNCHANGED <<tool, device>>
            /\ \A f \in above : f \in DOMAIN setup'.frames /\ setup'.frames[f] = setup.frames[f]
            => (Usable(camera) => Usable(camera)')]_vars

(* docs/setup.md: "Missing references ... and removal of a referenced      *)
(* frame are refused", for the frames that cameras refer to.               *)
CameraFramesKept ==
    \A c \in DOMAIN setup.cameras : setup.cameras[c].mount = "fixed" =>
        setup.cameras[c].frame \in DOMAIN setup.frames \cup {WRF}
=============================================================================
