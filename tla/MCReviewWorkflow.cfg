CONSTANTS
  ann = ann
  bob = bob
  eve = eve
  r1 = r1
  r2 = r2
  q1 = q1
  q2 = q2
  q3 = q3
  t1 = t1
  t2 = t2
  t3 = t3
  Researchers = {ann, bob}
  Reviewers = {eve}
  Tokens = {t1, t2}
  Capacity = 1
  Runs = {r1}
  Requests = {q1, q2, q3}
  MaxRestarts = 1
SPECIFICATION Spec
INVARIANTS
  OneWinner
  NothingTakenBack
PROPERTIES
  KeepsPromise
SYMMETRY MCSymmetry
CHECK_DEADLOCK FALSE
