--------------------------- MODULE MCDownstreamRpc ---------------------------
EXTENDS DownstreamRpc, TLC

CONSTANTS e1, e2, e3, k1, h1, h2

MCBehavior == e1 :> "healthy" @@ e2 :> "unavailable" @@ e3 :> "malformed"

HandlerSymmetry == Permutations(Handlers)
=============================================================================
