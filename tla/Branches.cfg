\* Two branches that commit, merge and fast-forward in any order.
CONSTANTS
  Path <- TwoFiles
  Label <- Names
  Content <- AllTexts
  Texts <- TextsOf
  None = None
  Decl <- DeclShared
  Ref <- RefShared
  Cluster <- Components
  MaxCommits = 4
SPECIFICATION Spec
INVARIANTS TypeOK FileWellFormed FilesFollowSources
CHECK_DEADLOCK FALSE
