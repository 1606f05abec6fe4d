CONSTANTS
  Pusher = {p1, p2, p3, p4}
  Shifter = {s1, s2}
  Cap = 2
  SameTurn = FALSE
SPECIFICATION FairSpec
CHECK_DEADLOCK FALSE
INVARIANTS Fifo NoLostWakeup
PROPERTY PushEnds
