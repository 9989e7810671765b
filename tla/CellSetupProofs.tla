-------------------------- MODULE CellSetupProofs --------------------------
(***************************************************************************)
(* Machine-checked facts about CellSetup, for any group of transforms and  *)
(* any number of frames, poses and cameras.  In the first part             *)
(* frame_matrix is any function of frames and a name; in the second, its   *)
(* recursion is unfolded.                                                  *)
(***************************************************************************)
EXTENDS CellSetup, FoldLemmas

-----------------------------------------------------------------------------
(* Mappings, and the two edits of one. *)

LEMMA StoreKeeps ==
    ASSUME NEW N, NEW S, NEW f, IsMapping(f, N, S), NEW name \in N, NEW value \in S
    PROVE  IsMapping(Store(f, name, value), N, S)
BY DEF IsMapping, Store

LEMMA StoreDomain ==
    ASSUME NEW f, NEW name, NEW value
    PROVE  DOMAIN Store(f, name, value) = DOMAIN f \cup {name}
BY DEF Store

LEMMA StoreValue ==
    ASSUME NEW f, NEW name, NEW value, NEW n \in DOMAIN f \cup {name}
    PROVE  Store(f, name, value)[n] = IF n = name THEN value ELSE f[n]
BY DEF Store

LEMMA DropKeeps ==
    ASSUME NEW N, NEW S, NEW f, IsMapping(f, N, S), NEW name
    PROVE  IsMapping(Drop(f, name), N, S)
BY DEF IsMapping, Drop, Restrict

LEMMA DropDomain ==
    ASSUME NEW f, NEW name
    PROVE  DOMAIN Drop(f, name) = DOMAIN f \ {name}
BY DEF Drop, Restrict

LEMMA DropValue ==
    ASSUME NEW f, NEW name, NEW n \in DOMAIN f \ {name}
    PROVE  Drop(f, name)[n] = f[n]
BY DEF Drop, Restrict

-----------------------------------------------------------------------------
(* The inductive invariant: what a taught pose and a calibration are made  *)
(* of.  Frames may be edited at will, they are compared only when used.    *)

(* Where the camera is: on the flange, or in the cell. *)
Place(camera) ==
    IF camera.mount = "tool" THEN Compose(camera.tool.values, camera.pose)
    ELSE Compose(camera.reference, camera.pose)

TaughtInv ==
    \A p \in DOMAIN taught :
        setup.poses[p].values = Compose(Inverted(taught[p].frame), taught[p].at)

MeasuredInv ==
    /\ \A c \in DOMAIN measured : measured[c] = Place(setup.cameras[c])
    /\ \A job \in solving : job.where = Place(job.camera)

SetupInv == TypeOK /\ TaughtInv /\ MeasuredInv

(* The group laws, and a product that may be refused. *)
LEMMA Associative ==
    ASSUME NEW a \in Transforms, NEW b \in Transforms, NEW c \in Transforms
    PROVE  Compose(Compose(a, b), c) = Compose(a, Compose(b, c))
BY GroupAssumption

LEMMA ProductOf ==
    ASSUME NEW a, NEW b
    PROVE  Product(a, b) = IF a \in Transforms /\ b \in Transforms THEN Compose(a, b)
                           ELSE Refused
BY DEF Product

(* What was refused stays refused, to the left of any product.             *)
LEMMA ProductAssociates ==
    ASSUME NEW a, NEW b \in Transforms, NEW c \in Transforms
    PROVE  Product(a, Compose(b, c)) = Product(Product(a, b), c)
<1>1. CASE a \in Transforms
  <2>1. /\ Compose(b, c) \in Transforms /\ Compose(a, b) \in Transforms
        /\ Compose(Compose(a, b), c) = Compose(a, Compose(b, c))
    BY <1>1, GroupAssumption
  <2> QED
    BY <1>1, <2>1, ProductOf
<1>2. CASE a \notin Transforms
  BY <1>2, ProductOf, GroupAssumption
<1> QED
  BY <1>1, <1>2

LEMMA ToolIsTyped ==
    ASSUME NEW t \in Tools
    PROVE  t.values \in Transforms
BY NameAssumption

(* Nothing is stored, nothing is being solved. *)
LEMMA InitInv == Init => SetupInv
<1> SUFFICES ASSUME Init PROVE SetupInv
  OBVIOUS
<1>1. /\ DOMAIN Nothing = {}
      /\ Nothing \in [{} -> Transforms]
      /\ \A N, S : IsMapping(Nothing, N, S)
  BY DEF Nothing, IsMapping
<1> HIDE DEF Nothing
<1> QED
  BY <1>1 DEF Init, SetupInv, TypeOK, TaughtInv, MeasuredInv

-----------------------------------------------------------------------------
(* One lemma per kind of step. *)

(* Frames come and go: poses and calibrations keep what they are made of.  *)
LEMMA FramesStep ==
    ASSUME SetupInv, NEW frames, IsMapping(frames, FrameNames \ {WRF, TCP}, Frame),
           setup' = [setup EXCEPT !.frames = frames],
           UNCHANGED <<tool, device, solving, taught, measured>>
    PROVE  SetupInv'
<1>1. /\ setup'.frames = frames /\ setup'.poses = setup.poses
      /\ setup'.cameras = setup.cameras
      /\ setup' = [frames |-> setup'.frames, poses |-> setup'.poses, cameras |-> setup'.cameras]
  BY DEF SetupInv, TypeOK
<1>2. TypeOK'
  BY <1>1 DEF SetupInv, TypeOK, IsMapping
<1>3. TaughtInv' /\ MeasuredInv'
  BY <1>1 DEF SetupInv, TaughtInv, MeasuredInv
<1> QED
  BY <1>2, <1>3 DEF SetupInv

LEMMA WithFrameStep ==
    ASSUME SetupInv, NEW name \in FrameNames, NEW values \in Edits,
           NEW parent \in FrameNames \cup {WRF},
           WithFrame(name, [values |-> values, parent |-> parent])
    PROVE  SetupInv'
<1> DEFINE frame == [values |-> values, parent |-> parent]
           frames == Store(setup.frames, name, frame)
<1>1. /\ setup' = [setup EXCEPT !.frames = frames] /\ setup'.frames = frames
      /\ DOMAIN frames \cap {WRF, TCP} = {}
  BY DEF WithFrame, Edit, Accepted, SetupInv, TypeOK
<1>2. IsMapping(frames, FrameNames, Frame)
  <2>1. frame \in Frame /\ IsMapping(setup.frames, FrameNames, Frame)
    BY NameAssumption DEF Frame, SetupInv, TypeOK, IsMapping
  <2> HIDE DEF frame
  <2> QED
    BY <2>1, StoreKeeps
<1>3. IsMapping(frames, FrameNames \ {WRF, TCP}, Frame)
  <2> HIDE DEF frames
  <2> QED
    BY <1>1, <1>2 DEF IsMapping
<1> HIDE DEF frames
<1> QED
  BY <1>1, <1>3, FramesStep DEF WithFrame

LEMMA WithoutFrameStep ==
    ASSUME SetupInv, NEW name, WithoutFrame(name)
    PROVE  SetupInv'
<1> DEFINE frames == Drop(setup.frames, name)
<1>1. IsMapping(frames, FrameNames \ {WRF, TCP}, Frame)
  BY DropKeeps DEF SetupInv, TypeOK
<1>2. setup' = [setup EXCEPT !.frames = frames]
  BY DEF WithoutFrame, Edit
<1> HIDE DEF frames
<1> QED
  BY <1>1, <1>2, FramesStep DEF WithoutFrame

(* A pose is stored, and with it what is known of where it was taught.     *)
LEMMA PosesStep ==
    ASSUME SetupInv, NEW poses, IsMapping(poses, PoseNames, Pose),
           setup' = [setup EXCEPT !.poses = poses],
           IsMapping(taught', DOMAIN poses, [at : Transforms, frame : Transforms]),
           \A p \in DOMAIN taught' :
               poses[p].values = Compose(Inverted(taught'[p].frame), taught'[p].at),
           UNCHANGED <<tool, device, solving, measured>>
    PROVE  SetupInv'
<1>1. /\ setup'.frames = setup.frames /\ setup'.poses = poses
      /\ setup'.cameras = setup.cameras
      /\ setup' = [frames |-> setup'.frames, poses |-> setup'.poses, cameras |-> setup'.cameras]
  BY DEF SetupInv, TypeOK
<1>2. TypeOK'
  BY <1>1 DEF SetupInv, TypeOK, IsMapping
<1>3. TaughtInv' /\ MeasuredInv'
  BY <1>1 DEF SetupInv, TaughtInv, MeasuredInv
<1> QED
  BY <1>2, <1>3 DEF SetupInv

LEMMA WithPoseStep ==
    ASSUME SetupInv, NEW name \in PoseNames, NEW values \in Edits,
           NEW frame \in FrameNames \cup {WRF},
           WithPose(name, [values |-> values, frame |-> frame])
    PROVE  SetupInv'
<1> DEFINE pose == [values |-> values, frame |-> frame]
           poses == Store(setup.poses, name, pose)
           Seen == [at : Transforms, frame : Transforms]
<1>1. pose \in Pose
  BY NameAssumption DEF Pose
<1>2. IsMapping(setup.poses, PoseNames, Pose) /\ IsMapping(taught, DOMAIN setup.poses, Seen)
  BY DEF SetupInv, TypeOK
<1>3. setup' = [setup EXCEPT !.poses = poses] /\ taught' = Drop(taught, name)
  BY DEF WithPose, Edit
<1> HIDE DEF pose, Seen
<1>4. IsMapping(poses, PoseNames, Pose)
  BY <1>1, <1>2, StoreKeeps
<1>5. DOMAIN poses = DOMAIN setup.poses \cup {name}
  BY StoreDomain
<1>6. \A n \in DOMAIN setup.poses \ {name} : poses[n] = setup.poses[n]
  BY StoreValue
<1>7. IsMapping(taught', DOMAIN setup.poses, Seen)
  BY <1>2, <1>3, DropKeeps
<1>8. DOMAIN taught' = DOMAIN taught \ {name}
  BY <1>3, DropDomain
<1>9. \A n \in DOMAIN taught \ {name} : taught'[n] = taught[n]
  BY <1>3, DropValue
<1> HIDE DEF poses
<1>10. IsMapping(taught', DOMAIN poses, Seen)
  BY <1>5, <1>7 DEF IsMapping
<1>11. \A p \in DOMAIN taught' :
          poses[p].values = Compose(Inverted(taught'[p].frame), taught'[p].at)
  BY <1>2, <1>6, <1>8, <1>9 DEF IsMapping, SetupInv, TaughtInv
<1> QED
  BY <1>3, <1>4, <1>10, <1>11, PosesStep DEF WithPose, Seen

LEMMA TeachStep ==
    ASSUME SetupInv, NEW name \in PoseNames, NEW world \in Edits,
           NEW frame \in FrameNames \cup {WRF}, Teach(name, world, frame)
    PROVE  SetupInv'
<1> DEFINE matrix == FrameMatrix(setup.frames, frame)
           values == RelativePose(setup, world, frame)
           pose == [values |-> values, frame |-> frame]
           poses == Store(setup.poses, name, pose)
           seen == [at |-> world, frame |-> matrix]
           Seen == [at : Transforms, frame : Transforms]
<1>1. /\ values \in Transforms
      /\ setup' = [setup EXCEPT !.poses = poses]
      /\ taught' = Store(taught, name, seen)
      /\ UNCHANGED <<tool, device, solving, measured>>
  BY DEF Teach, Edit
<1>2. matrix \in Transforms /\ values = Compose(Inverted(matrix), world)
  BY <1>1, GroupAssumption DEF RelativePose
<1>3. pose \in Pose /\ seen \in Seen
  BY <1>1, <1>2, NameAssumption DEF Pose
<1>4. pose.values = Compose(Inverted(seen.frame), seen.at)
  BY <1>2
<1>5. IsMapping(setup.poses, PoseNames, Pose) /\ IsMapping(taught, DOMAIN setup.poses, Seen)
  BY DEF SetupInv, TypeOK
<1> HIDE DEF pose, seen, Seen
<1>6. IsMapping(poses, PoseNames, Pose)
  BY <1>3, <1>5, StoreKeeps
<1>7. DOMAIN poses = DOMAIN setup.poses \cup {name}
  BY StoreDomain
<1>8. \A n \in DOMAIN poses : poses[n] = IF n = name THEN pose ELSE setup.poses[n]
  BY <1>7, StoreValue
<1> HIDE DEF poses
<1>9. IsMapping(taught, DOMAIN poses, Seen) /\ name \in DOMAIN poses
  BY <1>5, <1>7 DEF IsMapping
<1>10. IsMapping(taught', DOMAIN poses, Seen)
  BY <1>1, <1>3, <1>9, StoreKeeps
<1>11. DOMAIN taught' = DOMAIN taught \cup {name}
  BY <1>1, StoreDomain
<1>12. \A n \in DOMAIN taught' : taught'[n] = IF n = name THEN seen ELSE taught[n]
  BY <1>1, <1>11, StoreValue
<1>13. \A p \in DOMAIN taught' :
          poses[p].values = Compose(Inverted(taught'[p].frame), taught'[p].at)
  <2> TAKE p \in DOMAIN taught'
  <2>1. poses[p] = IF p = name THEN pose ELSE setup.poses[p]
    BY <1>8, <1>10 DEF IsMapping
  <2>2. p # name => p \in DOMAIN taught
    BY <1>11
  <2> QED
    BY <1>4, <1>12, <2>1, <2>2 DEF SetupInv, TaughtInv
<1> QED
  BY <1>1, <1>6, <1>10, <1>13, PosesStep DEF Seen

LEMMA WithoutPoseStep ==
    ASSUME SetupInv, NEW name, WithoutPose(name)
    PROVE  SetupInv'
<1> DEFINE poses == Drop(setup.poses, name)
           Seen == [at : Transforms, frame : Transforms]
<1>1. IsMapping(setup.poses, PoseNames, Pose) /\ IsMapping(taught, DOMAIN setup.poses, Seen)
  BY DEF SetupInv, TypeOK
<1>2. setup' = [setup EXCEPT !.poses = poses] /\ taught' = Drop(taught, name)
  BY DEF WithoutPose, Edit
<1> HIDE DEF Seen
<1>3. IsMapping(poses, PoseNames, Pose)
  BY <1>1, DropKeeps
<1>4. DOMAIN poses = DOMAIN setup.poses \ {name}
  BY DropDomain
<1>5. \A n \in DOMAIN setup.poses \ {name} : poses[n] = setup.poses[n]
  BY DropValue
<1>6. IsMapping(taught', DOMAIN setup.poses, Seen)
  BY <1>1, <1>2, DropKeeps
<1>7. DOMAIN taught' = DOMAIN taught \ {name}
  BY <1>2, DropDomain
<1>8. \A n \in DOMAIN taught \ {name} : taught'[n] = taught[n]
  BY <1>2, DropValue
<1> HIDE DEF poses
<1>9. IsMapping(taught', DOMAIN poses, Seen)
  BY <1>4, <1>6, <1>7 DEF IsMapping
<1>10. \A p \in DOMAIN taught' :
          poses[p].values = Compose(Inverted(taught'[p].frame), taught'[p].at)
  BY <1>1, <1>5, <1>7, <1>8 DEF IsMapping, SetupInv, TaughtInv
<1> QED
  BY <1>2, <1>3, <1>9, <1>10, PosesStep DEF WithoutPose, Seen

(* A calibration is stored or removed, and with it where it was measured.  *)
LEMMA CamerasStep ==
    ASSUME SetupInv, NEW cameras, IsMapping(cameras, CameraNames, CameraCalibration),
           setup' = [setup EXCEPT !.cameras = cameras],
           measured' \in [DOMAIN cameras -> Transforms],
           \A c \in DOMAIN cameras : measured'[c] = Place(cameras[c]),
           solving' \subseteq solving,
           UNCHANGED <<tool, device, taught>>
    PROVE  SetupInv'
<1>1. /\ setup'.frames = setup.frames /\ setup'.poses = setup.poses
      /\ setup'.cameras = cameras
      /\ setup' = [frames |-> setup'.frames, poses |-> setup'.poses, cameras |-> setup'.cameras]
  BY DEF SetupInv, TypeOK
<1>2. TypeOK'
  BY <1>1 DEF SetupInv, TypeOK, IsMapping
<1>3. TaughtInv' /\ MeasuredInv'
  BY <1>1, <1>2 DEF SetupInv, TypeOK, TaughtInv, MeasuredInv
<1> QED
  BY <1>2, <1>3 DEF SetupInv

LEMMA WithCameraStep ==
    ASSUME SetupInv, NEW job, WithCamera(job)
    PROVE  SetupInv'
<1> DEFINE cameras == Store(setup.cameras, job.name, job.camera)
<1>1. /\ job.name \in CameraNames /\ job.camera \in CameraCalibration
      /\ job.where \in Transforms /\ job.where = Place(job.camera)
  BY DEF WithCamera, SetupInv, TypeOK, MeasuredInv
<1>2. /\ setup' = [setup EXCEPT !.cameras = cameras]
      /\ measured' = Store(measured, job.name, job.where)
      /\ solving' \subseteq solving
  BY DEF WithCamera, Edit
<1>3. /\ IsMapping(setup.cameras, CameraNames, CameraCalibration)
      /\ IsMapping(measured, CameraNames, Transforms)
      /\ DOMAIN measured = DOMAIN setup.cameras
  BY DEF SetupInv, TypeOK, IsMapping
<1>4. IsMapping(cameras, CameraNames, CameraCalibration)
  BY <1>1, <1>3, StoreKeeps
<1>5. DOMAIN cameras = DOMAIN setup.cameras \cup {job.name}
  BY StoreDomain
<1>6. \A c \in DOMAIN cameras :
         cameras[c] = IF c = job.name THEN job.camera ELSE setup.cameras[c]
  BY <1>5, StoreValue
<1>7. IsMapping(measured', CameraNames, Transforms)
  BY <1>1, <1>2, <1>3, StoreKeeps
<1>8. DOMAIN measured' = DOMAIN measured \cup {job.name}
  BY <1>2, StoreDomain
<1>9. \A c \in DOMAIN measured' :
         measured'[c] = IF c = job.name THEN job.where ELSE measured[c]
  BY <1>2, <1>8, StoreValue
<1> HIDE DEF cameras
<1>10. measured' \in [DOMAIN cameras -> Transforms]
  BY <1>3, <1>5, <1>7, <1>8 DEF IsMapping
<1>11. \A c \in DOMAIN cameras : measured'[c] = Place(cameras[c])
  <2> TAKE c \in DOMAIN cameras
  <2>1. c # job.name => c \in DOMAIN measured /\ measured[c] = Place(setup.cameras[c])
    BY <1>3, <1>5 DEF SetupInv, MeasuredInv
  <2>2. c \in DOMAIN measured'
    BY <1>3, <1>5, <1>8
  <2> QED
    BY <1>1, <1>6, <1>9, <2>1, <2>2
<1> QED
  BY <1>2, <1>4, <1>10, <1>11, CamerasStep DEF WithCamera

LEMMA WithoutCameraStep ==
    ASSUME SetupInv, NEW name, WithoutCamera(name)
    PROVE  SetupInv'
<1> DEFINE cameras == Drop(setup.cameras, name)
<1>1. /\ setup' = [setup EXCEPT !.cameras = cameras]
      /\ measured' = Drop(measured, name)
  BY DEF WithoutCamera, Edit
<1>2. /\ IsMapping(setup.cameras, CameraNames, CameraCalibration)
      /\ IsMapping(measured, CameraNames, Transforms)
      /\ DOMAIN measured = DOMAIN setup.cameras
  BY DEF SetupInv, TypeOK, IsMapping
<1>3. IsMapping(cameras, CameraNames, CameraCalibration)
  BY <1>2, DropKeeps
<1>4. DOMAIN cameras = DOMAIN setup.cameras \ {name}
  BY DropDomain
<1>5. \A c \in DOMAIN cameras : cameras[c] = setup.cameras[c]
  BY <1>4, DropValue
<1>6. IsMapping(measured', CameraNames, Transforms)
  BY <1>1, <1>2, DropKeeps
<1>7. DOMAIN measured' = DOMAIN measured \ {name}
  BY <1>1, DropDomain
<1>8. \A c \in DOMAIN measured' : measured'[c] = measured[c]
  BY <1>1, <1>7, DropValue
<1> HIDE DEF cameras
<1>9. measured' \in [DOMAIN cameras -> Transforms]
  BY <1>2, <1>4, <1>6, <1>7 DEF IsMapping
<1>10. \A c \in DOMAIN cameras : measured'[c] = Place(cameras[c])
  BY <1>2, <1>4, <1>5, <1>7, <1>8 DEF SetupInv, MeasuredInv
<1> QED
  BY <1>1, <1>3, <1>9, <1>10, CamerasStep DEF WithoutCamera

(* A calibration is being solved, of a camera that is where it is.         *)
LEMMA MeasureStep ==
    ASSUME SetupInv, NEW job,
           job \in [name : CameraNames, where : Transforms, camera : CameraCalibration],
           job.where = Place(job.camera), solving' = solving \cup {job},
           UNCHANGED <<setup, tool, device, taught, measured>>
    PROVE  SetupInv'
<1>1. TypeOK'
  BY DEF SetupInv, TypeOK
<1>2. TaughtInv' /\ MeasuredInv'
  BY DEF SetupInv, TaughtInv, MeasuredInv
<1> QED
  BY <1>1, <1>2 DEF SetupInv

LEMMA MeasureOnToolStep ==
    ASSUME SetupInv, NEW name \in CameraNames, NEW pose \in Mounts, MeasureOnTool(name, pose)
    PROVE  SetupInv'
<1> DEFINE camera == [mount |-> "tool", device |-> device, pose |-> pose, tool |-> tool]
           job == [name |-> name, where |-> Compose(tool.values, pose), camera |-> camera]
<1>1. tool \in Tools /\ tool.values \in Transforms /\ pose \in Transforms
  BY ToolIsTyped, NameAssumption DEF SetupInv, TypeOK
<1>2. camera \in CameraCalibration
  BY <1>1 DEF CameraCalibration, ToolCamera, SetupInv, TypeOK
<1>3. Compose(tool.values, pose) \in Transforms
  BY <1>1, GroupAssumption
<1>4. job.where = Place(job.camera)
  BY DEF Place
<1>5. solving' = solving \cup {job}
  BY DEF MeasureOnTool
<1> HIDE DEF camera
<1>6. job \in [name : CameraNames, where : Transforms, camera : CameraCalibration]
  BY <1>2, <1>3
<1> HIDE DEF job
<1> QED
  BY <1>4, <1>5, <1>6, MeasureStep DEF MeasureOnTool

LEMMA MeasureFixedStep ==
    ASSUME SetupInv, NEW name \in CameraNames, NEW pose \in Mounts,
           NEW frame \in FrameNames \cup {WRF}, MeasureFixed(name, pose, frame)
    PROVE  SetupInv'
<1> DEFINE reference == FrameMatrix(setup.frames, frame)
           camera == [mount |-> "fixed", device |-> device, pose |-> pose,
                      frame |-> frame, reference |-> reference]
           job == [name |-> name, where |-> Compose(reference, pose), camera |-> camera]
<1>1. reference \in Transforms /\ pose \in Transforms
  BY NameAssumption DEF MeasureFixed
<1>2. solving' = solving \cup {job}
  BY DEF MeasureFixed
<1> HIDE DEF reference
<1>3. camera \in CameraCalibration
  BY <1>1 DEF CameraCalibration, FixedCamera, SetupInv, TypeOK
<1>4. Compose(reference, pose) \in Transforms
  BY <1>1, GroupAssumption
<1>5. job.where = Place(job.camera)
  BY DEF Place
<1> HIDE DEF camera
<1>6. job \in [name : CameraNames, where : Transforms, camera : CameraCalibration]
  BY <1>3, <1>4
<1> HIDE DEF job
<1> QED
  BY <1>2, <1>5, <1>6, MeasureStep DEF MeasureFixed

LEMMA SetupStep == SetupInv /\ [Next]_vars => SetupInv'
<1> SUFFICES ASSUME SetupInv, [Next]_vars PROVE SetupInv'
  OBVIOUS
<1>1. CASE \E name \in FrameNames :
              \/ \E values \in Edits, parent \in FrameNames \cup {WRF} :
                    WithFrame(name, [values |-> values, parent |-> parent])
              \/ WithoutFrame(name)
  BY <1>1, WithFrameStep, WithoutFrameStep
<1>2. CASE \E name \in PoseNames :
              \/ \E values \in Edits, frame \in FrameNames \cup {WRF} :
                    \/ WithPose(name, [values |-> values, frame |-> frame])
                    \/ Teach(name, values, frame)
              \/ WithoutPose(name)
  BY <1>2, WithPoseStep, TeachStep, WithoutPoseStep
<1>3. CASE \E name \in CameraNames, pose \in Mounts :
              \/ MeasureOnTool(name, pose)
              \/ \E frame \in FrameNames \cup {WRF} : MeasureFixed(name, pose, frame)
  BY <1>3, MeasureOnToolStep, MeasureFixedStep
<1>4. CASE \E job \in solving : WithCamera(job)
  BY <1>4, WithCameraStep
<1>5. CASE \E name \in CameraNames : WithoutCamera(name)
  BY <1>5, WithoutCameraStep
<1>6. CASE \/ \E t \in Tools : ChangeTool(t)
           \/ \E d \in Devices : ChangeDevice(d)
           \/ UNCHANGED vars
  BY <1>6 DEF ChangeTool, ChangeDevice, vars, SetupInv, TypeOK, TaughtInv, MeasuredInv
<1> QED
  BY <1>1, <1>2, <1>3, <1>4, <1>5, <1>6 DEF Next

-----------------------------------------------------------------------------
(* The invariant holds of every behaviour. *)
LEMMA SetupInvariant == Spec => []SetupInv
BY InitInv, SetupStep, PTL DEF Spec

(* Every variable keeps its type: a calibration is only ever stored whole, *)
(* and no frame gets a reserved name.                                      *)
THEOREM TypeCorrect == Spec => []TypeOK
<1>1. SetupInv => TypeOK
  BY DEF SetupInv
<1> QED
  BY <1>1, SetupInvariant, PTL

(* A taught pose stays where it was taught until its frame moves, and then *)
(* moves by what the frame has (resolve undoes relative_pose).             *)
THEOREM TaughtStay == Spec => []TaughtPosesFollow
<1>1. SetupInv => TaughtPosesFollow
  <2> SUFFICES ASSUME SetupInv, NEW p \in DOMAIN taught
               PROVE  LET now == FrameMatrix(setup.frames, setup.poses[p].frame)
                      IN  Resolve(setup, p)
                            = Product(Product(now, Inverted(taught[p].frame)), taught[p].at)
    BY DEF TaughtPosesFollow
  <2> DEFINE now == FrameMatrix(setup.frames, setup.poses[p].frame)
             back == Inverted(taught[p].frame)
             at == taught[p].at
  <2>1. back \in Transforms /\ at \in Transforms
    BY GroupAssumption DEF SetupInv, TypeOK, IsMapping
  <2>2. setup.poses[p].values = Compose(back, at)
    BY DEF SetupInv, TaughtInv
  <2>3. Resolve(setup, p) = Product(now, Compose(back, at))
    BY <2>2 DEF Resolve
  <2> HIDE DEF now, back, at
  <2>4. Product(now, Compose(back, at)) = Product(Product(now, back), at)
    BY <2>1, ProductAssociates
  <2> QED
    BY <2>3, <2>4 DEF now, back, at
<1> QED
  BY <1>1, SetupInvariant, PTL

(* world_pose never misplaces a camera, whatever happened to the frames,   *)
(* the tool and the device between measuring and use.                      *)
THEOREM CamerasTruthful == Spec => []CamerasWhereMeasured
<1>1. SetupInv => CamerasWhereMeasured
  <2> SUFFICES ASSUME SetupInv, NEW c \in DOMAIN setup.cameras, NEW flange \in Transforms,
                      WorldPose(setup.cameras[c], setup, device, tool,
                                Compose(flange, tool.values)) # Refused
               PROVE  WorldPose(setup.cameras[c], setup, device, tool,
                                Compose(flange, tool.values))
                        = IF setup.cameras[c].mount = "tool"
                          THEN Compose(flange, measured[c]) ELSE measured[c]
    BY DEF CamerasWhereMeasured
  <2> DEFINE camera == setup.cameras[c]
  <2>1. camera \in CameraCalibration /\ measured[c] = Place(camera)
    BY DEF SetupInv, TypeOK, MeasuredInv, IsMapping
  <2>2. Validate(camera, setup, device, tool)
    BY DEF WorldPose
  <2>3. tool.values \in Transforms
    BY ToolIsTyped DEF SetupInv, TypeOK
  <2> HIDE DEF camera
  <2>4. CASE camera.mount = "tool"
    <3>1. camera.pose \in Transforms /\ tool.values = camera.tool.values
      BY <2>1, <2>2, <2>4 DEF Validate, CameraCalibration, ToolCamera, FixedCamera
    <3>2. measured[c] = Compose(tool.values, camera.pose)
      BY <2>1, <2>4, <3>1 DEF Place
    <3>3. WorldPose(camera, setup, device, tool, Compose(flange, tool.values))
            = Compose(Compose(flange, tool.values), camera.pose)
      BY <2>2, <2>4 DEF WorldPose
    <3>4. Compose(Compose(flange, tool.values), camera.pose)
            = Compose(flange, Compose(tool.values, camera.pose))
      BY <2>3, <3>1, Associative
    <3> QED
      BY <2>4, <3>2, <3>3, <3>4 DEF camera
  <2>5. CASE camera.mount # "tool"
    <3>1. /\ camera.pose \in Transforms /\ camera.reference \in Transforms
          /\ FrameMatrix(setup.frames, camera.frame) = camera.reference
      BY <2>1, <2>2, <2>5 DEF Validate, CameraCalibration, ToolCamera, FixedCamera
    <3>2. measured[c] = Compose(camera.reference, camera.pose)
      BY <2>1, <2>5 DEF Place
    <3>3. WorldPose(camera, setup, device, tool, Compose(flange, tool.values))
            = Product(camera.reference, camera.pose)
      BY <2>2, <2>5, <3>1 DEF WorldPose
    <3> QED
      BY <2>5, <3>1, <3>2, <3>3 DEF Product, camera
  <2> QED
    BY <2>4, <2>5
<1> QED
  BY <1>1, SetupInvariant, PTL

-----------------------------------------------------------------------------
(* What frame_matrix computes: the walk to WRF, unfolded once and for all. *)

(* One step of the walk, from the frame n. *)
Stride(frames, up, unvisited) ==
    [n \in FrameNames \cup {WRF, TCP} |->
        IF n = WRF THEN Identity
        ELSE IF n \notin unvisited THEN Refused
        ELSE Product(up[unvisited \ {n}][frames[n].parent], frames[n].values)]

Small(frames, k) == {u \in SUBSET DOMAIN frames : Cardinality(u) <= k}
Walks(frames, sets, up) == up = [u \in sets |-> Stride(frames, up, u)]

(* The recursion is one: it can be unfolded as often as there are frames.  *)
LEMMA WalksExist ==
    ASSUME NEW frames, IsFiniteSet(DOMAIN frames), NEW k \in Nat
    PROVE  \E up : Walks(frames, Small(frames, k), up)
<1> DEFINE Bad == {j \in Nat : ~\E up : Walks(frames, Small(frames, j), up)}
<1> SUFFICES ASSUME Bad # {} PROVE FALSE
  OBVIOUS
<1>1. PICK j \in Bad : \A i \in Bad : j <= i
  <2>1. Bad \subseteq Nat
    OBVIOUS
  <2> HIDE DEF Bad
  <2> QED
    BY <2>1, LeastNumber
<1>2. \A u \in SUBSET DOMAIN frames : IsFiniteSet(u) /\ Cardinality(u) \in Nat
  BY FS_Subset, FS_CardinalityType
<1>3. PICK g : \A u \in Small(frames, j) : \A n \in u :
        u \ {n} \in Small(frames, j) /\ g[u \ {n}] = Stride(frames, g, u \ {n})
  <2>1. CASE j = 0
    <3>1. \A u \in Small(frames, j) : u = {}
      BY <1>2, <2>1, FS_EmptySet DEF Small
    <3> QED
      BY <3>1
  <2>2. CASE j # 0
    <3>1. j - 1 \in Nat /\ j - 1 \notin Bad
      BY <1>1, <2>2
    <3>2. PICK g : Walks(frames, Small(frames, j - 1), g)
      BY <3>1
    <3>3. ASSUME NEW u \in Small(frames, j), NEW n \in u
          PROVE  u \ {n} \in Small(frames, j) /\ u \ {n} \in Small(frames, j - 1)
      <4>1. Cardinality(u \ {n}) = Cardinality(u) - 1
        BY <1>2, FS_RemoveElement DEF Small
      <4> QED
        BY <1>2, <4>1 DEF Small
    <3>4. \A w \in Small(frames, j - 1) : g[w] = Stride(frames, g, w)
      BY <3>2 DEF Walks
    <3> QED
      BY <3>3, <3>4
  <2> QED
    BY <2>1, <2>2
<1> DEFINE h == [u \in Small(frames, j) |-> Stride(frames, g, u)]
<1>4. ASSUME NEW u \in Small(frames, j) PROVE Stride(frames, h, u) = Stride(frames, g, u)
  <2>1. \A n \in u : h[u \ {n}] = g[u \ {n}]
    BY <1>3
  <2> HIDE DEF h
  <2> QED
    BY <2>1 DEF Stride
<1>5. Walks(frames, Small(frames, j), h)
  <2>1. h = [u \in Small(frames, j) |-> Stride(frames, h, u)]
    BY <1>4
  <2> HIDE DEF h
  <2> QED
    BY <2>1 DEF Walks
<1> QED
  BY <1>1, <1>5

(* So frame_matrix is the walk over all frames. *)
LEMMA FrameMatrixUnfolds ==
    ASSUME NEW frames, IsFiniteSet(DOMAIN frames)
    PROVE  \E up :
            /\ \A name : FrameMatrix(frames, name) = up[DOMAIN frames][name]
            /\ \A u \in SUBSET DOMAIN frames : \A n \in FrameNames \cup {WRF, TCP} :
                up[u][n] = IF n = WRF THEN Identity
                           ELSE IF n \notin u THEN Refused
                           ELSE Product(up[u \ {n}][frames[n].parent], frames[n].values)
<1> DEFINE Q(up) == Walks(frames, SUBSET DOMAIN frames, up)
           W == CHOOSE up : Q(up)
<1>1. Small(frames, Cardinality(DOMAIN frames)) = SUBSET DOMAIN frames
  BY FS_Subset DEF Small
<1>2. \E up : Q(up)
  <2>1. PICK k \in Nat : k = Cardinality(DOMAIN frames)
    BY FS_CardinalityType
  <2>2. \E up : Walks(frames, Small(frames, k), up)
    BY WalksExist
  <2> QED
    BY <1>1, <2>1, <2>2
<1>3. Q(W)
  <2> HIDE DEF Q
  <2> QED
    BY <1>2
<1>4. ASSUME NEW name PROVE FrameMatrix(frames, name) = W[DOMAIN frames][name]
  <2> DEFINE body(up) == [unvisited \in SUBSET DOMAIN frames |->
        [n \in FrameNames \cup {WRF, TCP} |->
            IF n = WRF THEN Identity
            ELSE IF n \notin unvisited THEN Refused
            ELSE Product(up[unvisited \ {n}][frames[n].parent], frames[n].values)]]
  <2>1. FrameMatrix(frames, name) = (CHOOSE up : up = body(up))[DOMAIN frames][name]
    BY Zenon DEF FrameMatrix
  <2>2. ASSUME NEW up PROVE Q(up) <=> up = body(up)
    BY Zenon DEF Walks, Stride
  <2> HIDE DEF body, Q
  <2>3. (CHOOSE up : up = body(up)) = CHOOSE up : Q(up)
    BY <2>2, Zenon
  <2> QED
    BY <2>1, <2>3
<1>5. \A u \in SUBSET DOMAIN frames : W[u] = Stride(frames, W, u)
  <2> HIDE DEF W
  <2> QED
    BY <1>3 DEF Walks
<1> HIDE DEF W
<1>6. ASSUME NEW u \in SUBSET DOMAIN frames, NEW n \in FrameNames \cup {WRF, TCP}
      PROVE  W[u][n] = IF n = WRF THEN Identity
                       ELSE IF n \notin u THEN Refused
                       ELSE Product(W[u \ {n}][frames[n].parent], frames[n].values)
  BY <1>5 DEF Stride
<1>7. \A u \in SUBSET DOMAIN frames : \A n \in FrameNames \cup {WRF, TCP} :
        W[u][n] = IF n = WRF THEN Identity
                  ELSE IF n \notin u THEN Refused
                  ELSE Product(W[u \ {n}][frames[n].parent], frames[n].values)
  BY <1>6
<1> DEFINE walk(up) ==
        /\ \A name : FrameMatrix(frames, name) = up[DOMAIN frames][name]
        /\ \A u \in SUBSET DOMAIN frames : \A n \in FrameNames \cup {WRF, TCP} :
            up[u][n] = IF n = WRF THEN Identity
                       ELSE IF n \notin u THEN Refused
                       ELSE Product(up[u \ {n}][frames[n].parent], frames[n].values)
<1>8. walk(W)
  BY <1>4, <1>7
<1>9. \E up : walk(up)
  <2> HIDE DEF walk
  <2> QED
    BY <1>8
<1> QED
  BY <1>9

-----------------------------------------------------------------------------
(* Frames as a snapshot that was accepted has them. *)
Placed(frames) ==
    /\ IsMapping(frames, FrameNames \ {WRF, TCP}, Frame)
    /\ IsFiniteSet(DOMAIN frames)
    /\ \A f \in DOMAIN frames : FrameMatrix(frames, f) \in Transforms

(* No set of them holds the parents of all its members. *)
Rooted(frames) ==
    /\ \A f \in DOMAIN frames : frames[f].parent \in DOMAIN frames \cup {WRF}
    /\ \A F \in SUBSET DOMAIN frames : F # {} => \E f \in F : frames[f].parent \notin F

(* Their transforms and parents. *)
LEMMA PlacedTypes ==
    ASSUME NEW frames, Placed(frames)
    PROVE  /\ DOMAIN frames \subseteq FrameNames /\ WRF \notin DOMAIN frames
           /\ \A f \in DOMAIN frames :
                frames[f].values \in Transforms /\ frames[f].parent \in FrameNames \cup {WRF}
BY DEF Placed, IsMapping, Frame

(* The walk from any frame ends, so no frames go in circles. *)
LEMMA FramesAreRooted ==
    ASSUME NEW frames, Placed(frames) PROVE Rooted(frames)
<1> DEFINE D == DOMAIN frames
<1>1. PICK up :
        /\ \A name : FrameMatrix(frames, name) = up[D][name]
        /\ \A u \in SUBSET D : \A n \in FrameNames \cup {WRF, TCP} :
            up[u][n] = IF n = WRF THEN Identity
                       ELSE IF n \notin u THEN Refused
                       ELSE Product(up[u \ {n}][frames[n].parent], frames[n].values)
  BY FrameMatrixUnfolds DEF Placed
<1>2. D \subseteq FrameNames /\ WRF \notin D /\ IsFiniteSet(D)
  BY PlacedTypes DEF Placed
<1>3. ASSUME NEW f \in D PROVE frames[f].parent \in D \cup {WRF}
  <2>1. up[D][f] \in Transforms /\ frames[f].parent \in FrameNames \cup {WRF}
    BY <1>1, PlacedTypes DEF Placed
  <2>2. up[D][f] = Product(up[D \ {f}][frames[f].parent], frames[f].values)
    BY <1>1, <1>2
  <2>3. up[D \ {f}][frames[f].parent] # Refused
    BY <2>1, <2>2, ProductOf, GroupAssumption
  <2>4. frames[f].parent \notin D \ {f} /\ frames[f].parent # WRF
            => up[D \ {f}][frames[f].parent] = Refused
    BY <1>1, <2>1
  <2> QED
    BY <2>3, <2>4
<1>4. ASSUME NEW F \in SUBSET D, F # {}, \A f \in F : frames[f].parent \in F PROVE FALSE
  <2> DEFINE Bad == {u \in SUBSET D : \E n \in F : up[u][n] # Refused}
  <2>1. Bad # {}
    <3>1. PICK f \in F : TRUE
      BY <1>4
    <3>2. up[D][f] # Refused
      BY <1>1, GroupAssumption DEF Placed
    <3> QED
      BY <3>2
  <2>2. PICK u \in Bad : \A w \in Bad : w \subseteq u => w = u
    <3>1. Bad \subseteq SUBSET D
      OBVIOUS
    <3> HIDE DEF Bad
    <3> QED
      BY <1>2, <2>1, <3>1, SmallestSubset
  <2>3. PICK n \in F : up[u][n] # Refused
    BY <2>2
  <2>4. n \in u /\ up[u][n] = Product(up[u \ {n}][frames[n].parent], frames[n].values)
    BY <1>1, <1>2, <2>3
  <2>5. up[u \ {n}][frames[n].parent] = Refused
    <3>1. u \ {n} \notin Bad
      BY <2>2, <2>4
    <3> QED
      BY <1>4, <3>1
  <2> QED
    BY <2>3, <2>4, <2>5, ProductOf, GroupAssumption
<1> QED
  BY <1>3, <1>4 DEF Rooted

(* What is reached by a short walk is reached by a longer one.             *)
LEMMA FrameOnParent ==
    ASSUME NEW frames, Placed(frames)
    PROVE  /\ FrameMatrix(frames, WRF) = Identity
           /\ \A f \in DOMAIN frames :
                /\ FrameMatrix(frames, frames[f].parent) \in Transforms
                /\ FrameMatrix(frames, f)
                    = Compose(FrameMatrix(frames, frames[f].parent), frames[f].values)
           /\ \A f \in (FrameNames \cup {TCP}) \ (DOMAIN frames \cup {WRF}) :
                FrameMatrix(frames, f) = Refused
<1> DEFINE D == DOMAIN frames
           parent(f) == frames[f].parent
<1>1. PICK up :
        /\ \A name : FrameMatrix(frames, name) = up[D][name]
        /\ \A u \in SUBSET D : \A n \in FrameNames \cup {WRF, TCP} :
            up[u][n] = IF n = WRF THEN Identity
                       ELSE IF n \notin u THEN Refused
                       ELSE Product(up[u \ {n}][frames[n].parent], frames[n].values)
  BY FrameMatrixUnfolds DEF Placed
<1>2. D \subseteq FrameNames /\ WRF \notin D /\ IsFiniteSet(D)
  BY PlacedTypes DEF Placed
<1>3. \A f \in D : parent(f) \in D \cup {WRF} /\ frames[f].values \in Transforms
  BY FramesAreRooted, PlacedTypes DEF Rooted
<1> HIDE DEF parent
<1>4. \A u \in SUBSET D : /\ up[u][WRF] = Identity
                          /\ \A n \in FrameNames \cup {TCP} : n \notin u /\ n # WRF => up[u][n] = Refused
  BY <1>1
<1>5. \A u \in SUBSET D : \A n \in u : up[u][n] = Product(up[u \ {n}][parent(n)], frames[n].values)
  BY <1>1, <1>2 DEF parent
<1>6. ASSUME NEW u \in SUBSET D, NEW w \in SUBSET D, u \subseteq w, NEW n \in D \cup {WRF},
             up[u][n] \in Transforms
      PROVE  up[w][n] = up[u][n]
  <2> DEFINE Bad == {v \in SUBSET D : \E x \in SUBSET D, m \in D \cup {WRF} :
                        v \subseteq x /\ up[v][m] \in Transforms /\ up[x][m] # up[v][m]}
  <2> SUFFICES ASSUME Bad # {} PROVE FALSE
    BY <1>6
  <2>1. PICK v \in Bad : \A x \in Bad : x \subseteq v => x = v
    <3>1. Bad \subseteq SUBSET D
      OBVIOUS
    <3> HIDE DEF Bad
    <3> QED
      BY <1>2, <3>1, SmallestSubset
  <2>2. PICK x \in SUBSET D, m \in D \cup {WRF} :
            v \subseteq x /\ up[v][m] \in Transforms /\ up[x][m] # up[v][m]
    BY <2>1
  <2>3. m \in v /\ m \in x /\ v \in SUBSET D
    BY <1>2, <1>4, <2>1, <2>2, GroupAssumption
  <2>4. /\ up[v][m] = Product(up[v \ {m}][parent(m)], frames[m].values)
        /\ up[x][m] = Product(up[x \ {m}][parent(m)], frames[m].values)
    BY <1>5, <2>3
  <2>5. up[v \ {m}][parent(m)] \in Transforms
    BY <2>2, <2>4, ProductOf, GroupAssumption
  <2>6. v \ {m} \notin Bad /\ v \ {m} \in SUBSET D /\ x \ {m} \in SUBSET D /\ v \ {m} \subseteq x \ {m}
    BY <2>1, <2>2, <2>3
  <2>7. up[x \ {m}][parent(m)] = up[v \ {m}][parent(m)]
    BY <1>3, <2>3, <2>5, <2>6
  <2> QED
    BY <2>2, <2>4, <2>7
<1>7. ASSUME NEW f \in D
      PROVE  /\ up[D][parent(f)] \in Transforms
             /\ up[D][f] = Compose(up[D][parent(f)], frames[f].values)
  <2>1. up[D][f] \in Transforms /\ up[D][f] = Product(up[D \ {f}][parent(f)], frames[f].values)
    BY <1>1, <1>5 DEF Placed
  <2>2. up[D \ {f}][parent(f)] \in Transforms
    BY <2>1, ProductOf, GroupAssumption
  <2>3. up[D][parent(f)] = up[D \ {f}][parent(f)]
    BY <1>3, <1>6, <2>2
  <2> QED
    BY <1>3, <2>1, <2>2, <2>3, ProductOf
<1> QED
  BY <1>1, <1>4, <1>7 DEF parent

-----------------------------------------------------------------------------
(* A frame that the walk reaches WRF from is one there is. *)
LEMMA KnownFrame ==
    ASSUME NEW frames, Placed(frames), NEW n \in FrameNames \cup {WRF},
           FrameMatrix(frames, n) \in Transforms
    PROVE  n \in DOMAIN frames \cup {WRF}
<1>1. Refused \notin Transforms
  BY GroupAssumption
<1> QED
  BY <1>1, FrameOnParent

(* What hangs on a frame. *)
LEMMA BelowIsClosed ==
    ASSUME NEW frames, NEW f \in DOMAIN frames
    PROVE  /\ f \in Below(frames, f) /\ Below(frames, f) \subseteq DOMAIN frames
           /\ \A n \in DOMAIN frames : frames[n].parent \in Below(frames, f) => n \in Below(frames, f)
BY DEF Below

(* Only the frame itself hangs on it without its parent.                   *)
LEMMA BelowByParent ==
    ASSUME NEW frames, NEW f \in DOMAIN frames, NEW n \in Below(frames, f), n # f
    PROVE  frames[n].parent \in Below(frames, f)
<1> SUFFICES ASSUME frames[n].parent \notin Below(frames, f) PROVE FALSE
  OBVIOUS
<1> DEFINE others == Below(frames, f) \ {n}
<1>1. /\ others \in SUBSET DOMAIN frames /\ f \in others
      /\ \A c \in DOMAIN frames : frames[c].parent \in others => c \in others
  BY BelowIsClosed
<1>2. n \notin others
  OBVIOUS
<1> HIDE DEF others
<1> QED
  BY <1>1, <1>2 DEF Below

(* A frame is where it was if all the frames above it are as they were.    *)
LEMMA SameAbove ==
    ASSUME NEW frames, NEW edited, Placed(frames), Placed(edited),
           NEW n \in DOMAIN frames \cup {WRF},
           \A f \in DOMAIN frames : n \in Below(frames, f) =>
                f \in DOMAIN edited /\ edited[f] = frames[f]
    PROVE  FrameMatrix(edited, n) = FrameMatrix(frames, n)
<1> DEFINE above == {f \in DOMAIN frames : n \in Below(frames, f)}
           Bad == {f \in above : FrameMatrix(edited, f) # FrameMatrix(frames, f)}
<1>1. FrameMatrix(edited, WRF) = FrameMatrix(frames, WRF)
  BY FrameOnParent
<1>2. n \in above \cup {WRF}
  BY BelowIsClosed
<1>3. Bad = {}
  <2> SUFFICES ASSUME Bad # {} PROVE FALSE
    OBVIOUS
  <2>1. PICK f \in Bad : frames[f].parent \notin Bad
    BY FramesAreRooted DEF Rooted
  <2>2. frames[f].parent \in above \cup {WRF}
    <3>1. frames[f].parent \in DOMAIN frames \cup {WRF}
      BY FramesAreRooted DEF Rooted
    <3>2. ASSUME frames[f].parent \in DOMAIN frames PROVE n \in Below(frames, frames[f].parent)
      BY <3>2 DEF Below
    <3> QED
      BY <3>1, <3>2
  <2>3. FrameMatrix(edited, frames[f].parent) = FrameMatrix(frames, frames[f].parent)
    BY <1>1, <2>1, <2>2
  <2>4. FrameMatrix(edited, f) = FrameMatrix(frames, f)
    BY <2>3, FrameOnParent
  <2> QED
    BY <2>4
<1> QED
  BY <1>1, <1>2, <1>3

(* Moving a frame moves what hangs on it by one transform, nothing else.   *)
LEMMA MovesAsOne ==
    ASSUME NEW frames, NEW edited, Placed(frames), Placed(edited), NEW f \in DOMAIN frames,
           DOMAIN edited = DOMAIN frames, edited[f].parent = frames[f].parent,
           \A n \in DOMAIN frames : n # f => edited[n] = frames[n]
    PROVE  /\ \A n \in (DOMAIN frames \cup {WRF}) \ Below(frames, f) :
                FrameMatrix(edited, n) = FrameMatrix(frames, n)
           /\ \E move \in Transforms : \A n \in Below(frames, f) :
                FrameMatrix(edited, n) = Compose(move, FrameMatrix(frames, n))
<1> DEFINE before(n) == FrameMatrix(frames, n)
           after(n) == FrameMatrix(edited, n)
           parent(n) == frames[n].parent
<1>1. /\ before(WRF) = Identity /\ after(WRF) = Identity
      /\ \A n \in DOMAIN frames :
            /\ before(n) \in Transforms /\ before(parent(n)) \in Transforms
            /\ after(n) \in Transforms /\ after(parent(n)) \in Transforms
            /\ before(n) = Compose(before(parent(n)), frames[n].values)
            /\ n # f => after(n) = Compose(after(parent(n)), frames[n].values)
  <2>1. \A n \in DOMAIN frames : edited[n].parent = parent(n)
    OBVIOUS
  <2> QED
    BY <2>1, FrameOnParent DEF Placed
<1>2. /\ \A n \in DOMAIN frames : parent(n) \in DOMAIN frames \cup {WRF}
      /\ \A F \in SUBSET DOMAIN frames : F # {} => \E n \in F : parent(n) \notin F
  BY FramesAreRooted DEF Rooted
<1>3. \A n \in DOMAIN frames : frames[n].values \in Transforms
  BY PlacedTypes
<1>4. /\ f \in Below(frames, f) /\ Below(frames, f) \subseteq DOMAIN frames
      /\ \A n \in DOMAIN frames : parent(n) \in Below(frames, f) => n \in Below(frames, f)
      /\ \A n \in Below(frames, f) : n # f => parent(n) \in Below(frames, f)
  BY BelowIsClosed, BelowByParent
<1> HIDE DEF before, after, parent
<1>5. ASSUME NEW n \in (DOMAIN frames \cup {WRF}) \ Below(frames, f) PROVE after(n) = before(n)
  <2> DEFINE Bad == {m \in DOMAIN frames \ Below(frames, f) : after(m) # before(m)}
  <2> SUFFICES ASSUME Bad # {} PROVE FALSE
    BY <1>1
  <2>1. PICK m \in Bad : parent(m) \notin Bad
    BY <1>2
  <2>2. after(parent(m)) = before(parent(m))
    BY <1>1, <1>2, <1>4, <2>1
  <2> QED
    BY <1>1, <1>4, <2>1, <2>2
<1>6. PICK move \in Transforms : move = Compose(after(f), Inverted(before(f)))
  BY <1>1, GroupAssumption
<1>7. ASSUME NEW n \in Below(frames, f) PROVE after(n) = Compose(move, before(n))
  <2> DEFINE Bad == {m \in Below(frames, f) : after(m) # Compose(move, before(m))}
  <2> SUFFICES ASSUME Bad # {} PROVE FALSE
    OBVIOUS
  <2>1. PICK m \in Bad : parent(m) \notin Bad
    BY <1>2, <1>4
  <2>2. CASE m = f
    <3>1. Compose(move, before(f)) = Compose(after(f), Compose(Inverted(before(f)), before(f)))
      BY <1>1, <1>6, GroupAssumption, Associative
    <3>2. Compose(move, before(f)) = after(f)
      BY <1>1, <3>1, GroupAssumption
    <3> QED
      BY <2>1, <2>2, <3>2
  <2>3. CASE m # f
    <3>1. after(parent(m)) = Compose(move, before(parent(m)))
      BY <1>4, <2>1, <2>3
    <3>2. after(m) = Compose(Compose(move, before(parent(m))), frames[m].values)
      BY <1>1, <1>4, <2>3, <3>1
    <3>3. after(m) = Compose(move, before(m))
      BY <1>1, <1>3, <1>4, <1>6, <3>2, Associative
    <3> QED
      BY <2>1, <3>3
  <2> QED
    BY <2>2, <2>3
<1> QED
  BY <1>5, <1>7 DEF before, after

-----------------------------------------------------------------------------
(* The host's snapshot is one that was accepted, with finitely many        *)
(* frames: every edit ends in the constructor.                             *)
TreeInv == SetupInv /\ Accepted(setup) /\ IsFiniteSet(DOMAIN setup.frames)

(* What the constructor accepts is placed, its poses too. *)
LEMMA AcceptedPlaced ==
    ASSUME NEW s, Accepted(s), IsFiniteSet(DOMAIN s.frames),
           IsMapping(s.frames, FrameNames \ {WRF, TCP}, Frame), IsMapping(s.poses, PoseNames, Pose)
    PROVE  /\ Placed(s.frames)
           /\ \A p \in DOMAIN s.poses :
                /\ s.poses[p].frame \in DOMAIN s.frames \cup {WRF}
                /\ s.poses[p].values \in Transforms
                /\ FrameMatrix(s.frames, s.poses[p].frame) \in Transforms
<1>1. Placed(s.frames)
  BY DEF Accepted, Placed
<1>2. ASSUME NEW p \in DOMAIN s.poses
      PROVE  /\ s.poses[p].frame \in FrameNames \cup {WRF}
             /\ s.poses[p].values \in Transforms
             /\ FrameMatrix(s.frames, s.poses[p].frame) \in Transforms
  BY DEF IsMapping, Pose, Accepted
<1>3. ASSUME NEW p \in DOMAIN s.poses PROVE s.poses[p].frame \in DOMAIN s.frames \cup {WRF}
  BY <1>1, <1>2, KnownFrame
<1> QED
  BY <1>1, <1>2, <1>3

(* So is what the host has. *)
LEMMA TreePlaced ==
    ASSUME TreeInv
    PROVE  /\ Placed(setup.frames)
           /\ \A p \in DOMAIN setup.poses :
                /\ setup.poses[p].frame \in DOMAIN setup.frames \cup {WRF}
                /\ setup.poses[p].values \in Transforms
                /\ FrameMatrix(setup.frames, setup.poses[p].frame) \in Transforms
BY AcceptedPlaced DEF TreeInv, SetupInv, TypeOK

(* An edit of frames adds or removes one. *)
LEMMA TreeStep == TreeInv /\ [Next]_vars => TreeInv'
<1> SUFFICES ASSUME TreeInv, [Next]_vars PROVE TreeInv'
  OBVIOUS
<1> USE DEF TreeInv
<1>1. SetupInv'
  BY SetupStep
<1>2. ASSUME NEW s, Edit(s), IsFiniteSet(DOMAIN s.frames) PROVE TreeInv'
  BY <1>1, <1>2 DEF Edit
<1>3. ASSUME UNCHANGED setup PROVE TreeInv'
  BY <1>1, <1>3 DEF Accepted
<1>4. ASSUME NEW x PROVE /\ [setup EXCEPT !.poses = x].frames = setup.frames
                         /\ [setup EXCEPT !.cameras = x].frames = setup.frames
                         /\ [setup EXCEPT !.frames = x].frames = x
  BY DEF SetupInv, TypeOK
<1>5. ASSUME NEW name, NEW frame, WithFrame(name, frame) PROVE TreeInv'
  <2>1. IsFiniteSet(DOMAIN Store(setup.frames, name, frame))
    <3>1. DOMAIN Store(setup.frames, name, frame) = DOMAIN setup.frames \cup {name}
      BY StoreDomain
    <3> QED
      BY <3>1, FS_AddElement
  <2> QED
    BY <1>2, <1>4, <1>5, <2>1 DEF WithFrame
<1>6. ASSUME NEW name, WithoutFrame(name) PROVE TreeInv'
  <2>1. IsFiniteSet(DOMAIN Drop(setup.frames, name))
    <3>1. DOMAIN Drop(setup.frames, name) = DOMAIN setup.frames \ {name}
      BY DropDomain
    <3> QED
      BY <3>1, FS_RemoveElement
  <2> QED
    BY <1>2, <1>4, <1>6, <2>1 DEF WithoutFrame
<1>7. ASSUME NEW name, NEW pose, WithPose(name, pose) PROVE TreeInv'
  BY <1>2, <1>4, <1>7 DEF WithPose
<1>8. ASSUME NEW name, NEW at, NEW frame, Teach(name, at, frame) PROVE TreeInv'
  BY <1>2, <1>4, <1>8 DEF Teach
<1>9. ASSUME NEW name, WithoutPose(name) PROVE TreeInv'
  BY <1>2, <1>4, <1>9 DEF WithoutPose
<1>10. ASSUME NEW job, WithCamera(job) PROVE TreeInv'
  BY <1>2, <1>4, <1>10 DEF WithCamera
<1>11. ASSUME NEW name, WithoutCamera(name) PROVE TreeInv'
  BY <1>2, <1>4, <1>11 DEF WithoutCamera
<1>12. CASE \/ \E name \in CameraNames, pose \in Mounts :
                \/ MeasureOnTool(name, pose)
                \/ \E frame \in FrameNames \cup {WRF} : MeasureFixed(name, pose, frame)
            \/ \E t \in Tools : ChangeTool(t)
            \/ \E d \in Devices : ChangeDevice(d)
            \/ UNCHANGED vars
  BY <1>3, <1>12 DEF MeasureOnTool, MeasureFixed, ChangeTool, ChangeDevice, vars
<1> QED
  BY <1>5, <1>6, <1>7, <1>8, <1>9, <1>10, <1>11, <1>12 DEF Next

(* The invariant holds of every behaviour. *)
LEMMA TreeInvariant == Spec => []TreeInv
<1>1. Init => TreeInv
  <2> SUFFICES ASSUME Init PROVE TreeInv
    OBVIOUS
  <2>1. DOMAIN Nothing = {} /\ IsFiniteSet({})
    BY FS_EmptySet DEF Nothing
  <2>2. setup.frames = Nothing /\ setup.poses = Nothing
    BY DEF Init
  <2> HIDE DEF Nothing
  <2> QED
    BY <2>1, <2>2, InitInv DEF TreeInv, Accepted
<1> QED
  BY <1>1, TreeStep, PTL DEF Spec

(* Whatever the order of edits, removals and decodings, the frames are a   *)
(* forest rooted at WRF and every pose hangs on it, for any frames and any *)
(* group (SetupSnapshot.__post_init__, frame_matrix).                      *)
THEOREM FramesStayRooted == Spec => []FramesRooted
<1>1. TreeInv => FramesRooted
  BY TreePlaced, FramesAreRooted DEF FramesRooted, Rooted
<1> QED
  BY <1>1, TreeInvariant, PTL

(* An edit of a frame that a camera does not hang on leaves its            *)
(* calibration usable (CameraCalibration.validate).                        *)
THEOREM CamerasKept == Spec => UnrelatedEditsKeepCameras
<1> DEFINE Kept ==
        \A c \in DOMAIN setup.cameras \cap DOMAIN setup'.cameras :
            LET camera == setup.cameras[c]
                above == {f \in DOMAIN setup.frames : camera.mount = "fixed" /\
                            camera.frame \in Below(setup.frames, f)}
            IN  /\ setup'.cameras[c] = camera
                /\ UNCHANGED <<tool, device>>
                /\ \A f \in above : f \in DOMAIN setup'.frames /\ setup'.frames[f] = setup.frames[f]
                => (Usable(camera) => Usable(camera)')
<1>1. TreeInv /\ TreeInv' => Kept
  <2> SUFFICES ASSUME TreeInv, TreeInv', NEW c \in DOMAIN setup.cameras \cap DOMAIN setup'.cameras,
                      setup'.cameras[c] = setup.cameras[c], UNCHANGED <<tool, device>>,
                      \A f \in {g \in DOMAIN setup.frames : setup.cameras[c].mount = "fixed" /\
                                    setup.cameras[c].frame \in Below(setup.frames, g)} :
                        f \in DOMAIN setup'.frames /\ setup'.frames[f] = setup.frames[f],
                      Usable(setup.cameras[c])
               PROVE  Usable(setup.cameras[c])'
    BY Zenon DEF Kept
  <2>1. Placed(setup.frames) /\ Placed(setup'.frames)
    BY AcceptedPlaced DEF TreeInv, SetupInv, TypeOK
  <2>2. CASE setup.cameras[c].mount = "fixed"
    <3> DEFINE n == setup.cameras[c].frame
    <3>1. setup.cameras[c] \in CameraCalibration
      BY DEF TreeInv, SetupInv, TypeOK, IsMapping
    <3>2. n \in FrameNames \cup {WRF} /\ FrameMatrix(setup.frames, n) \in Transforms
      BY <2>2, <3>1 DEF Usable, Validate, CameraCalibration, FixedCamera, ToolCamera
    <3>3. n \in DOMAIN setup.frames \cup {WRF}
      BY <2>1, <3>2, KnownFrame
    <3>4. FrameMatrix(setup'.frames, n) = FrameMatrix(setup.frames, n)
      BY <2>1, <2>2, <3>3, SameAbove
    <3> QED
      BY <2>2, <3>4 DEF Usable, Validate
  <2>3. CASE setup.cameras[c].mount # "fixed"
    BY <2>3 DEF Usable, Validate
  <2> QED
    BY <2>2, <2>3
<1>2. TreeInv /\ TreeInv' => [Kept]_vars
  BY <1>1
<1> QED
  BY <1>2, TreeInvariant, PTL DEF UnrelatedEditsKeepCameras

(* A transform in front of two others changes nothing between them.        *)
LEMMA BetweenStays ==
    ASSUME NEW m \in Transforms, NEW a \in Transforms, NEW b \in Transforms
    PROVE  Compose(Inverted(Compose(m, a)), Compose(m, b)) = Compose(Inverted(a), b)
<1> DEFINE ma == Compose(m, a)
           x == Inverted(ma)
           y == Compose(x, m)
<1>1. ma \in Transforms /\ x \in Transforms /\ y \in Transforms /\ Inverted(a) \in Transforms
  BY GroupAssumption
<1>2. Compose(y, a) = Identity
  <2>1. Compose(y, a) = Compose(x, ma)
    BY <1>1, Associative
  <2>2. Compose(x, ma) = Identity
    BY <1>1, GroupAssumption
  <2> QED
    BY <2>1, <2>2
<1>3. Compose(x, Compose(m, b)) = Compose(y, b)
  BY <1>1, Associative
<1> HIDE DEF y, x, ma
<1>4. y = Inverted(a)
  <2>1. Compose(Compose(y, a), Inverted(a)) = Compose(y, Compose(a, Inverted(a)))
    BY <1>1, Associative
  <2>2. Compose(a, Inverted(a)) = Identity /\ Compose(y, Identity) = y
        /\ Compose(Identity, Inverted(a)) = Inverted(a)
    BY <1>1, GroupAssumption
  <2> QED
    BY <1>2, <2>1, <2>2
<1> QED
  BY <1>3, <1>4 DEF x, ma

(* Moving a frame moves all poses that hang on it as one rigid body, and   *)
(* no other, for any frames and any group (resolve, frame_matrix).         *)
THEOREM FramesMove == Spec => FramesMoveRigidly
<1> DEFINE Rigid ==
        \A f \in FrameNames : Moved(setup, setup', f) =>
            LET poses == DOMAIN setup.poses
                carried == {p \in poses : setup.poses[p].frame \in Below(setup.frames, f)}
                between(s, p, q) == Compose(Inverted(Resolve(s, p)), Resolve(s, q))
            IN  /\ \A p \in poses \ carried : Resolve(setup', p) = Resolve(setup, p)
                /\ \A p, q \in carried : between(setup', p, q) = between(setup, p, q)
<1>1. TreeInv /\ TreeInv' => Rigid
  <2> SUFFICES ASSUME TreeInv, TreeInv', NEW f \in FrameNames, Moved(setup, setup', f)
               PROVE  LET poses == DOMAIN setup.poses
                          carried == {p \in poses : setup.poses[p].frame \in Below(setup.frames, f)}
                          between(s, p, q) == Compose(Inverted(Resolve(s, p)), Resolve(s, q))
                      IN  /\ \A p \in poses \ carried : Resolve(setup', p) = Resolve(setup, p)
                          /\ \A p, q \in carried : between(setup', p, q) = between(setup, p, q)
    BY Zenon DEF Rigid
  <2>1. Placed(setup.frames) /\ Placed(setup'.frames)
    BY AcceptedPlaced DEF TreeInv, SetupInv, TypeOK
  <2>2. /\ f \in DOMAIN setup.frames /\ DOMAIN setup'.frames = DOMAIN setup.frames
        /\ setup'.frames[f].parent = setup.frames[f].parent
        /\ \A n \in DOMAIN setup.frames : n # f => setup'.frames[n] = setup.frames[n]
        /\ setup'.poses = setup.poses
    BY DEF Moved, TreeInv, SetupInv, TypeOK
  <2>3. /\ \A n \in (DOMAIN setup.frames \cup {WRF}) \ Below(setup.frames, f) :
            FrameMatrix(setup'.frames, n) = FrameMatrix(setup.frames, n)
        /\ \E move \in Transforms : \A n \in Below(setup.frames, f) :
            FrameMatrix(setup'.frames, n) = Compose(move, FrameMatrix(setup.frames, n))
    BY <2>1, <2>2, MovesAsOne
  <2>4. PICK move \in Transforms : \A n \in Below(setup.frames, f) :
            FrameMatrix(setup'.frames, n) = Compose(move, FrameMatrix(setup.frames, n))
    BY <2>3
  <2>5. \A p \in DOMAIN setup.poses :
            /\ setup.poses[p].frame \in DOMAIN setup.frames \cup {WRF}
            /\ setup.poses[p].values \in Transforms
            /\ FrameMatrix(setup.frames, setup.poses[p].frame) \in Transforms
    BY TreePlaced
  <2>6. ASSUME NEW p \in DOMAIN setup.poses, setup.poses[p].frame \notin Below(setup.frames, f)
        PROVE  Resolve(setup', p) = Resolve(setup, p)
    BY <2>2, <2>3, <2>5, <2>6 DEF Resolve
  <2>7. ASSUME NEW p \in DOMAIN setup.poses, setup.poses[p].frame \in Below(setup.frames, f)
        PROVE  /\ Resolve(setup, p) \in Transforms
               /\ Resolve(setup', p) = Compose(move, Resolve(setup, p))
    <3> DEFINE matrix == FrameMatrix(setup.frames, setup.poses[p].frame)
               values == setup.poses[p].values
    <3>1. matrix \in Transforms /\ values \in Transforms
      BY <2>5
    <3>2. Resolve(setup, p) = Product(matrix, values)
      BY DEF Resolve
    <3>3. Resolve(setup', p) = Product(Compose(move, matrix), values)
      BY <2>2, <2>4, <2>7 DEF Resolve
    <3> HIDE DEF matrix, values
    <3>4. Compose(move, matrix) \in Transforms /\ Compose(matrix, values) \in Transforms
      BY <3>1, GroupAssumption
    <3> QED
      BY <3>1, <3>2, <3>3, <3>4, ProductOf, Associative
  <2>8. ASSUME NEW p \in DOMAIN setup.poses, setup.poses[p].frame \in Below(setup.frames, f),
               NEW q \in DOMAIN setup.poses, setup.poses[q].frame \in Below(setup.frames, f)
        PROVE  Compose(Inverted(Resolve(setup', p)), Resolve(setup', q))
                = Compose(Inverted(Resolve(setup, p)), Resolve(setup, q))
    BY <2>7, <2>8, BetweenStays
  <2> QED
    BY <2>6, <2>8
<1>2. TreeInv /\ TreeInv' => [Rigid]_vars
  BY <1>1
<1> QED
  BY <1>2, TreeInvariant, PTL DEF FramesMoveRigidly
=============================================================================
