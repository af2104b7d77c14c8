SPECIFICATION Spec
CONSTANTS
  e1 = e1
  e2 = e2
  k1 = k1
  h1 = h1
  h2 = h2
  e3 = e3
  NoKey = NoKey
  Experiments = {e1, e2, e3}
  Keys = {k1}
  Handlers = {h1, h2}
  Behavior <- MCBehavior
  MaxLives = 2
SYMMETRY HandlerSymmetry
INVARIANTS
  OncePerLife
  ReceiptsFit
