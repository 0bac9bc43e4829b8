SPECIFICATION Spec
CONSTANTS
  Actors = {1, 2}
  Workers = {w1, w2}
  Clients = {c1}
  NoThread = NoThread
  Strategy = "RestartForOne"
  Rank <- ListOrder
  MaxRestarts = 1
  Capacity = 1
  Uses = {"send", "crash"}
  MaxGen = 3
  MaxOps = 3
  MaxSends = 0
SYMMETRY ThreadSymmetry
INVARIANTS
  PendingAccounting
