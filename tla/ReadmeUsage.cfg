SPECIFICATION Spec
CONSTANTS
    Compiler = {"object", "binary"}
    File <- ReadmeFiles
    Job <- ReadmeUsage
CHECK_DEADLOCK FALSE
INVARIANT OutputsSurvive
