\* One update process that may be killed, an editor that changes texts.
CONSTANTS
  Path <- TwoFiles
  Label <- Names
  Content <- AllTexts
  Texts <- TextsOf
  None = None
  Truncated = Truncated
  Mixed = Mixed
  Decl <- DeclSeparate
  Ref <- RefSeparate
  Proc = {u1}
  EditKinds = {"modify", "create"}
  EditorReverts = FALSE
  EditsInFullBuild = FALSE
  MaxEdits = 3
  MaxCrashes = 1
SPECIFICATION FairSpec
INVARIANTS TypeOK NoOpMeansCurrent IncrementalEqualsFull OutputsAgreeOrPending
PROPERTY Converges
