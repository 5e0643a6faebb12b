----------------------------- MODULE MCRegistry -----------------------------
(* Three workers, two spellings of one game, another game and a blank name. *)
EXTENDS Registry

CONSTANTS b1, w1, w2, w3, pong, pongCaps, tetris, blank

MCWorkers == {w1, w2, w3}
MCNames == {pong, pongCaps, tetris, blank}
MCBlank == {blank}
MCSame == [g \in MCNames |-> IF g = pongCaps THEN pong ELSE g]
WorkerSymmetry == Permutations(MCWorkers)
=============================================================================
