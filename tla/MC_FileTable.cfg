CONSTANTS
  MAX_PROCESSES = 3
  MAX_FILE_DESCRIPTORS = 5
  MAX_SYSTEM_OPEN_FILES = 7
  Solved = {"sysClose"}
  Inodes = {11}
SPECIFICATION StepsSpec
INVARIANTS StepsTypeOK LockExclusive
PROPERTIES ImplementsFileLock StepsImplementCalls CallsReturn
