SPECIFICATION Spec
CONSTANTS
    Election = {"k8s"}
    MaxRuns = 1
    MaxChanges = 2
    Prompt = TRUE
    Overlap = TRUE
    Signals = TRUE
CHECK_DEADLOCK FALSE
INVARIANTS NoPanic
