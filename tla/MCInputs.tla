------------------------------ MODULE MCInputs -------------------------------
(* One slot for a viewer and a phone. The inputs press buttons of both     *)
(* bytes, among them the ones the two ends number differently.              *)
EXTENDS Inputs, TLC

CONSTANTS v, p

MCBitmaps ==
    (v :> <<{0, 4, 9, 12, 15}, {1, 2, 6, 8, 13}, {3, 5, 7, 10, 11, 14}>>)
    @@ (p :> <<{4, 5}, {}>>)
=============================================================================
