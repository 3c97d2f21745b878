SPECIFICATION Spec
CONSTANTS
    Name = {"b", "f"}
    Programs <- AssignsNegative
CHECK_DEADLOCK FALSE
INVARIANT StoresFit
