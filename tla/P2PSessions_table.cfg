CONSTANTS
  t1 = t1
  t2 = t2
  t3 = t3
  NoThread = NoThread
  Thread = {t1, t2, t3}
  Handle = {0, 1}
  P2P_SESSION_MAX = 2
  HEARTBEATS = 1
SPECIFICATION Spec
INVARIANT TypeOK
INVARIANT EntriesAreServed
INVARIANT ServedHasEntry
SYMMETRY Alike
