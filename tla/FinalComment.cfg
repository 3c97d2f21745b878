SPECIFICATION Spec
CHECK_DEADLOCK FALSE
CONSTANTS
  Name <- MCName
  Letter <- MCLetter
  MaxIdentifier = 4
  File <- MCFile
  Content <- MCContent
  Sessions <- FineSessions
  Meaning <- MCMeaning
  Fused <- MCFused
  EndInComment <- MCEndInComment
INVARIANTS CommentsAreIgnored
