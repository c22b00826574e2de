CONSTANTS
  MAX_PROCESSES = 4
  MAX_FILE_DESCRIPTORS = 4
  MAX_SYSTEM_OPEN_FILES = 6
  Solved = {"sysClose", "sysFree", "sysKill", "sysSwitch", "scheduler"}
  Inodes = {11}
SPECIFICATION Spec
INVARIANTS OwnersAlive OneRunning
PROPERTIES ImplementsOpenFiles ResumedHasRegisters
