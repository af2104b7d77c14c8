---------------------------- MODULE MCRunAttempts ----------------------------
EXTENDS RunAttempts, TLC

CONSTANTS e1, e2, k1, i1, h1, h2, h3

(* The experiments are interchangeable, and the ID of a request with a key *)
(* is not used: one choice of them stands for all.                         *)
MCInit == /\ Init
          /\ ask[h1].experiment = e1
          /\ \A h \in Handlers : ask[h].key # NoKey =>
                                   ask[h].id = IF h = h1 THEN i1 ELSE k1

MCSpec == MCInit /\ [][Next]_vars /\ Fairness

MCSymmetry == Permutations(Handlers)
=============================================================================
