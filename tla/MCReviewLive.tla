----------------------------- MODULE MCReviewLive -----------------------------
EXTENDS ReviewLive, TLC

CONSTANTS ann, bob, eve
=============================================================================
