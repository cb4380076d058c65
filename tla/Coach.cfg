SPECIFICATION Spec
CONSTANTS
    Questions = {q1, q2}
    Uploads = {v1, v2}
    Replays = {v1, v2}
    NoReplay = NoReplay
    MaxRole = 3
    CompressAt = 2
    KeepRecent = 1
    MaxSummary = 2
    TTL = 2
    MaxAnswer = 1
    MaxJobs = 1
    Vision = TRUE
    MaxRestarts = 1
SYMMETRY Symmetry
INVARIANTS
    TypeOK
    NothingSkipped
    OneConversation
    JobsLeaveNothing
CHECK_DEADLOCK FALSE
