SPECIFICATION Spec
CONSTANTS
    Compiler = {"first", "second", "other", "ir"}
    File <- BuildFiles
    Job <- Builds
CHECK_DEADLOCK FALSE
INVARIANTS TypeOK NoStaleOutput OutputsStay
PROPERTIES ExitCodeTellsProduct OnlyOwnFiles Termination
