---------------------------- MODULE MCReviewClient ----------------------------
EXTENDS ReviewClient

CONSTANTS w1, w2, w3
=============================================================================
