CONSTANTS
  MAX_PROCESSES = 2
  MAX_FILE_DESCRIPTORS = 5
  MAX_SYSTEM_OPEN_FILES = 7
  Solved = {"sysClose"}
  Inodes = {11, 12}
SPECIFICATION Spec
PROPERTY LockMarksItsEntry
