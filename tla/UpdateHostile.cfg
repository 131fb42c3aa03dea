\* Two update processes at once, a label that both files may declare, failing reads.
CONSTANTS
  Path <- TwoFiles
  Label <- Names
  Content <- AllTexts
  Texts <- FewTexts
  None = None
  Truncated = Truncated
  Mixed = Mixed
  Decl <- DeclShared
  Ref <- RefShared
  Proc = {u1, u2}
  EditKinds = {"modify", "delete"}
  EditorReverts = FALSE
  EditsInFullBuild = FALSE
  MaxEdits = 2
  MaxCrashes = 0
SPECIFICATION Spec
INVARIANTS ArtifactsWellFormed NodesJustified FaithfulInsideFiles StalenessVisible
SYMMETRY ProcSymmetry
