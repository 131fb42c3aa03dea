\* One process, never killed, an edit while a full build reads.
CONSTANTS
  Path <- TwoFiles
  Label <- Names
  Content <- AllTexts
  Texts <- TextsOf
  None = None
  Truncated = Truncated
  Mixed = Mixed
  Decl <- DeclSeparate
  Ref <- RefSeparate
  Proc = {u1}
  EditKinds = {"modify"}
  EditorReverts = FALSE
  EditsInFullBuild = TRUE
  MaxEdits = 1
  MaxCrashes = 0
SPECIFICATION Spec
INVARIANT StalenessVisible
