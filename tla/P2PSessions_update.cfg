CONSTANTS
  t1 = t1
  t2 = t2
  t3 = t3
  NoThread = NoThread
  Thread = {t1, t2}
  Handle = {0, 1}
  P2P_SESSION_MAX = 1
  HEARTBEATS = 2
SPECIFICATION FairSpec
PROPERTY GoneIsClosed
PROPERTY AbandonedUpdateEnds
