---------------------------- MODULE EulerPoses ----------------------------
(***************************************************************************)
(* The rotations of waldoctl/setup.py (_matrix, Pose.from_matrix) and of   *)
(* waldoctl/shapes.py (pose_matrix), for angles of whole quarter turns:    *)
(* sines and cosines are 0, 1 and -1, and every pose with a pitch of       *)
(* +-90 degrees, where roll and yaw turn about the same axis, is one.      *)
(***************************************************************************)
EXTENDS Integers

Quarters == {-1, 0, 1, 2}
Axes == 1..3

Sin(q) == CASE q = 1 -> 1 [] q = -1 -> -1 [] OTHER -> 0
Cos(q) == CASE q = 0 -> 1 [] q = 2 -> -1 [] OTHER -> 0

(* The angle whose sine and cosine these are; 0 if both are (atan2).       *)
Atan2(s, c) == CASE s = 1 -> 1 [] s = -1 -> -1 [] c = -1 -> 2 [] OTHER -> 0

Turn(roll, pitch, yaw) == [roll |-> roll, pitch |-> pitch, yaw |-> yaw]
Turns == [roll : Quarters, pitch : Quarters, yaw : Quarters]

Mul(a, b) ==
    [i \in Axes |-> [j \in Axes |->
        a[i][1] * b[1][j] + a[i][2] * b[2][j] + a[i][3] * b[3][j]]]

RotX(q) == <<<<1, 0, 0>>, <<0, Cos(q), -Sin(q)>>, <<0, Sin(q), Cos(q)>>>>
RotY(q) == <<<<Cos(q), 0, Sin(q)>>, <<0, 1, 0>>, <<-Sin(q), 0, Cos(q)>>>>
RotZ(q) == <<<<Cos(q), -Sin(q), 0>>, <<Sin(q), Cos(q), 0>>, <<0, 0, 1>>>>

(* _matrix: about the axes as they turn, X first: rx @ ry @ rz.            *)
Rotation(t) == Mul(Mul(RotX(t.roll), RotY(t.pitch)), RotZ(t.yaw))

(* Fault: the ordinary case is taken for every rotation. *)
FromMatrixRegular(m) ==
    Turn(Atan2(-m[2][3], m[3][3]),
         Atan2(m[1][3], IF m[1][1] = 0 /\ m[1][2] = 0 THEN 0 ELSE 1),
         Atan2(-m[1][2], m[1][1]))

(* Pose.from_matrix; horizontal is the length of (m[1][1], m[1][2]).       *)
FromMatrix(m) ==
    IF m[1][1] = 0 /\ m[1][2] = 0
    THEN Turn(Atan2(m[3][2], m[2][2]), Atan2(m[1][3], 0), 0)
    ELSE Turn(Atan2(-m[2][3], m[3][3]), Atan2(m[1][3], 1), Atan2(-m[1][2], m[1][1]))

(* shapes.pose_matrix, written out; about the axes of the world.           *)
PoseMatrix(t) ==
    LET sx == Sin(t.roll)  cx == Cos(t.roll)
        sy == Sin(t.pitch) cy == Cos(t.pitch)
        sz == Sin(t.yaw)   cz == Cos(t.yaw)
    IN  <<<<cz * cy, cz * sy * sx - sz * cx, cz * sy * cx + sz * sx>>,
          <<sz * cy, sz * sy * sx + cz * cx, sz * sy * cx - cz * sx>>,
          <<-sy, cy * sx, cy * cx>>>>
=============================================================================
