SPECIFICATION Spec
CONSTANTS
  Actors = {1, 2}
  Workers = {w1, w2}
  Clients = {c1}
  NoThread = NoThread
  Strategy = "AllForOne"
  Rank <- ListOrder
  MaxRestarts = 1
  Capacity = 2
  Uses = {"send", "ask", "crash"}
  MaxGen = 3
  MaxOps = 3
  MaxSends = 0
INVARIANT
  MutualExclusion
