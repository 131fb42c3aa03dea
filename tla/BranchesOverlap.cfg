\* Is every node in one community of the merged graph?
CONSTANTS
  Path <- TwoFiles
  Label <- Names
  Content <- AllTexts
  Texts <- TextsOf
  None = None
  Decl <- DeclOf
  Ref <- RefOf
  Cluster <- Components
  MaxCommits = 4
SPECIFICATION Spec
INVARIANT CommunitiesDisjoint
CHECK_DEADLOCK FALSE
