SPECIFICATION Spec
CONSTANTS
    Name = {"main", "f"}
    Programs <- CallsLater
CHECK_DEADLOCK FALSE
INVARIANT AcceptedProgramsCompile
