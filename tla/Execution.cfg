SPECIFICATION ExecutionSpec
CONSTANTS
    Name = {"a", "b", "c", "f"}
    Programs <- ExecutedPrograms
    Bits <- MCBits
    Numeral <- MCNumeral
CHECK_DEADLOCK FALSE
INVARIANTS ContentsHaveTheirTypes UndefinedIsExplained ResultsWrapAround
