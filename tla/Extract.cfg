\* Two files: any program in any language, and one of a few others.
CONSTANTS
  Folded <- MCFolded
  Depth = 6
  Path = {1, 2}
  Source <- MCSource
  None = None
SPECIFICATION MCSpec
INVARIANTS AllOrNothing Connected OwnersUnique OrderFree
CHECK_DEADLOCK FALSE
