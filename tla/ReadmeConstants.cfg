SPECIFICATION Spec
CONSTANTS
    Name = {"x", "a", "f"}
    Programs <- TimesTen
CHECK_DEADLOCK FALSE
INVARIANT AcceptedProgramsCompile
