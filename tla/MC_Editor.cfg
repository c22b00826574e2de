CONSTANTS
  MAX_PROCESSES = 2
  MAX_FILE_DESCRIPTORS = 5
  MAX_SYSTEM_OPEN_FILES = 6
  Solved = {"sysClose", "sysFree", "sysSwitch"}
  PAGES = 3
  Names = {"a", "b"}
  FirstName = "a"
  MaxFiles = 2
SPECIFICATION Spec
INVARIANTS TypeOK SlotsOfTheirStorer InsertGoesWhereShown EntryNamesItsFile
