SPECIFICATION Spec
CONSTANTS
    Name = {"x", "b", "f"}
    Programs <- Shadowing
CHECK_DEADLOCK FALSE
INVARIANT NamesKeepTheirMeaning
