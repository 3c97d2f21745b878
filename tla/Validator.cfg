SPECIFICATION Spec
CONSTANTS
    Name = {"a", "b", "c", "u", "v", "x", "z", "f", "g", "h", "main"}
    Programs <- AllPrograms
    MaxRounds = 2
CHECK_DEADLOCK FALSE
INVARIANTS TypeOK VerdictIsStatic RevalidationAgrees LiteralsKeepFamily FramesOwnScopes NamesResolveLexically
PROPERTIES FixedLiteralsKeepTheirType Termination
