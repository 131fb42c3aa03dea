\* Two processes of any two commands, each run twice; one kill, one edit.
CONSTANTS
  Proc = {"p", "q"}
  MaxRuns = 2
  MaxKills = 1
  MaxEdits = 1
SPECIFICATION FairSpec
INVARIANTS TypeOK ConfigWhole OnceEach OkMeansInstalled
PROPERTIES UserLinesKept RetrySucceeds
CHECK_DEADLOCK FALSE
