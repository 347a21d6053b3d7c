--------------------------- MODULE MCPoseChannel ---------------------------
(* PoseChannel on every short feed of three poses: one from this machine   *)
(* and two from another, of which one leans and holds the first rotation   *)
(* and the other turns and holds the first position.                       *)
EXTENDS PoseChannel

Pose(remote, rot, pos) ==
  [c \in Cells |-> IF c = "remote" THEN remote
                   ELSE IF c \in {"yaw", "pitch", "roll"} THEN rot ELSE pos]

Poses == {Pose(0, 1, 1), Pose(1, 1, 2), Pose(1, 2, 1)}

=============================================================================
