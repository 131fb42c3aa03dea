\* A watch, an editor, an extract and the services, with crashes and faults.
CONSTANTS
  Path <- TwoFiles
  Label <- Names
  Content <- AllTexts
  Texts <- TextsOf
  Unreadable <- NotText
  Decl <- Declares
  Ref <- Relates
  ArcPair <- ArcsOnly
  None = None
  Truncated = Truncated
  Mixed = Mixed
  MaxPending = 2
  MaxEdits = 2
  MaxFaults = 1
  MaxCrashes = 1
SPECIFICATION FairSpec
INVARIANTS TypeOK MirrorsKnowTheRest
PROPERTIES Settles ArcsSettle Rests
CHECK_DEADLOCK FALSE
