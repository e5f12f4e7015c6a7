SPECIFICATION FairSpec
CONSTANTS
    Election = {"raft", "k8s", "singleton"}
    MaxRuns = 3
    MaxChanges = 6
    Prompt = TRUE
    Overlap = FALSE
    Signals = TRUE
CHECK_DEADLOCK FALSE
INVARIANTS TypeOK NoPanic LoopsMatchRunning  ExitsDown
PROPERTIES StopBlocks FollowsLeadership KeepsTerms ExitsCleanly
