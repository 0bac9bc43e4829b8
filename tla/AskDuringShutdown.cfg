SPECIFICATION Spec
CONSTANTS
  Actors = {1}
  Workers = {w1, w2}
  Clients = {c1, c2}
  NoThread = NoThread
  Strategy = "OneForOne"
  Rank <- ListOrder
  MaxRestarts = 1
  Capacity = 2
  Uses = {"send", "ask", "shutdown"}
  MaxGen = 2
  MaxOps = 2
  MaxSends = 0
INVARIANT
  ShutdownDrains
