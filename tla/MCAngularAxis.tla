---------------------------- MODULE MCAngularAxis ----------------------------
(* AngularAxis on angles around the seam, either side of zero, and of a     *)
(* tracker that counts a turn and more.                                     *)
EXTENDS AngularAxis

SeamSamples == {-539, -361, -200, -181, -180, -179, -90, -1, 0, 1, 45, 90, 179, 180,
                181, 350, 360, 450, 541}

=============================================================================
