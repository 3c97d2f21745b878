SPECIFICATION Spec
CONSTANTS
    Name = {"a", "b", "f", "g", "h", "v", "x", "main"}
    Programs <- AllPrograms
CHECK_DEADLOCK FALSE
INVARIANTS TypeOK AssignedLiteralsFit SuccessIsSound GeneratorResolves OnlyNamesFail FailuresExplained BlocksAreClosed PlainProgramsCompile
PROPERTIES Termination
