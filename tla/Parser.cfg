SPECIFICATION Spec
CHECK_DEADLOCK FALSE
CONSTANTS
  Name <- MCName
  Letter <- MCLetter
  MaxIdentifier = 4
  File <- MCFile
  Content <- MCContent
  Sessions <- MCSessions
  Meaning <- MCMeaning
  Fused <- MCFused
  EndInComment <- MCEndInComment
INVARIANTS TypeOK ParsedIsAst FilesClosedOnce LeftoversOnlyAfterFailure ProgramsAreRead LinesDrift
PROPERTIES Finishes
