\* One process, never killed, no edit while a full build reads.
CONSTANTS
  Path <- TwoFiles
  Label <- Names
  Content <- AllTexts
  Texts <- FewTexts
  None = None
  Truncated = Truncated
  Mixed = Mixed
  Decl <- DeclRenamed
  Ref <- RefRenamed
  Proc = {u1}
  EditKinds = {"modify"}
  EditorReverts = FALSE
  EditsInFullBuild = FALSE
  MaxEdits = 1
  MaxCrashes = 0
SPECIFICATION Spec
INVARIANT IncrementalEqualsFull
