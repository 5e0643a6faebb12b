---------------------------- MODULE MCControllers ----------------------------
(* Small instance of Controllers for TLC: two screens, two phones, two     *)
(* workers, one code more than there are screens.                          *)
EXTENDS Controllers, TLC

CONSTANTS s1, s2, p1, p2, w1, w2, c1, c2, c3

MCScreens == {s1, s2}
MCPhones == {p1, p2}
MCWorkers == {w1, w2}
MCCodes == {c1, c2, c3}

Symmetry ==
    Permutations(MCScreens) \cup Permutations(MCPhones)
        \cup Permutations(MCWorkers) \cup Permutations(MCCodes)
=============================================================================
