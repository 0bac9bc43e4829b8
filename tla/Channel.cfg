SPECIFICATION FairSpec
CONSTANTS
  s1 = s1
  s2 = s2
  r1 = r1
  r2 = r2
  p1 = p1
  Senders = {s1, s2}
  Receivers = {r1, r2}
  Pollers = {p1}
  Fleets = {{s1, s2, r1, r2}, {s1, r1, p1}}
  Capacities = {0, 1}
  WakeCap = 2
  DrainMax = 64
  MaxItems = 2
  NoThread = NoThread
INVARIANTS TypeOK NoOversleptReceiver ParkedIsWoken
PROPERTIES RefinesFifo CloseEndsRecv ItemsReachReceivers
\* A program whose threads have made all their calls stops.
CHECK_DEADLOCK FALSE
