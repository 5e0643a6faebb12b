---------------------------- MODULE MCFrameSender ----------------------------
(* Two viewers, a picture that needs no scaling and one that does, three   *)
(* frame intervals and two sizes of the profile.                           *)
EXTENDS FrameSender, TLC

CONSTANTS s1, s2

MCBest == [width |-> 960, height |-> 540, interval |-> 16]
MCFloor == [width |-> 704, height |-> 416, interval |-> 32]
MCStride == [width |-> 256, height |-> 124, interval |-> 16]
MCSources == {[width |-> 384, height |-> 224], [width |-> 1920, height |-> 1080]}

Symmetry == Permutations(Sessions)
=============================================================================
