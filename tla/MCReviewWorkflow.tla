--------------------------- MODULE MCReviewWorkflow ---------------------------
EXTENDS ReviewWorkflow, TLC

CONSTANTS ann, bob, eve, r1, r2, q1, q2, q3, t1, t2, t3

MCSymmetry == Permutations(Requests) \cup Permutations(Tokens)
=============================================================================
