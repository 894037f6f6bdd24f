CONSTANTS
  MAXEVENT = 5
  MAXTMPEVENT = 2
  MAXEVENTFILES = 2
  KillAt = {"idle", "notify", "file", "boot"}
  RebootAt = {"idle"}
  MaxEvent = 15
SPECIFICATION Spec
INVARIANTS TypeOK KeptOnDisk RecentIsNewest FilesHaveTheirTurn
PROPERTY ImplementsHistory
