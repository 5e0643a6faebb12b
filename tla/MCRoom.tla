------------------------------- MODULE MCRoom -------------------------------
(* A room in which one viewer reconnects and one phone plays: the sessions *)
(* are interchangeable, the two clients are not.                           *)
EXTENDS Room, TLC

SessionSymmetry == Permutations(Sessions)
=============================================================================
