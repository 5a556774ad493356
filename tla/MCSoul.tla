-------------------------------- MODULE MCSoul --------------------------------
(* Soul on a small instance: two turns alive, one pattern key, and dreams shorter *)
(* than the queue.                                                                *)
EXTENDS Soul, TLC

CONSTANTS k1, t1, t2
MCKeys == {k1}
MCTurnIds == {t1, t2}

\* The ids of turns are interchangeable.
TurnSymmetry == Permutations(MCTurnIds)

=============================================================================
