--------------------------- MODULE MCSignalServer ---------------------------
(* Small instances of SignalServer for TLC. Without game names and player  *)
(* counts only sessions and pairing are exercised; the instance for the    *)
(* games list has a browser that hosts nothing.                            *)
EXTENDS SignalServer, TLC

CONSTANTS s1, s2, p1, w1, w2, c1, pong, blank

NoNames == {}
NoGames == [g \in {} |-> g]

MCNames == {pong, blank}
MCBlank == {blank}
MCSame == [g \in MCNames |-> g]

BothScreens == {s1, s2}
ScreenSymmetry == Permutations(BothScreens)
=============================================================================
