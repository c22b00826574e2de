CONSTANTS
  MAX_PROCESSES = 4
  MAX_FILE_DESCRIPTORS = 5
  MAX_SYSTEM_OPEN_FILES = 7
  Solved = {"sysClose", "sysFree", "sysKill"}
  Inodes = {11}
SPECIFICATION Spec
INVARIANTS TypeOK OwnersAlive DescriptorsOwned EntriesReachable ParentReady NeverFault
PROPERTIES LockLostByOwner DeadStayDead
