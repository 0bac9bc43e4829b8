SPECIFICATION FairSpec
CONSTANTS
  Actors = {1}
  Workers = {w1, w2}
  Clients = {c1}
  NoThread = NoThread
  Strategy = "OneForOne"
  Rank <- ListOrder
  MaxRestarts = 1
  Capacity = 2
  Uses = {"send", "ask", "stop", "crash"}
  MaxGen = 2
  MaxOps = 2
  MaxSends = 0
PROPERTIES
  MailHandled
  StopServed
