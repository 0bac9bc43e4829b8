SPECIFICATION Spec
CONSTANTS
  Actors = {1}
  Workers = {w1, w2}
  Clients = {c1, c2}
  NoThread = NoThread
  Strategy = "OneForOne"
  Rank <- ListOrder
  MaxRestarts = 1
  Capacity = 1
  Uses = {"send", "ask", "stop", "finish", "crash", "initfails", "resolve"}
  MaxGen = 2
  MaxOps = 2
  MaxSends = 0
SYMMETRY ThreadSymmetry
INVARIANTS
  TypeOK
  SingleAccess
  AccessInv
  FreshState
  NoPanic
  NoReuse
  NoLostWakeup
  PendingAccounting
PROPERTIES
  SenderOrder
