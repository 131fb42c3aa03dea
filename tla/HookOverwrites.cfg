\* One process of any command, no kill, a user who may create the files.
CONSTANTS
  Proc = {"p"}
  MaxRuns = 1
  MaxKills = 0
  MaxEdits = 1
SPECIFICATION FairSpec
PROPERTY HookNeverOverwritten
CHECK_DEADLOCK FALSE
