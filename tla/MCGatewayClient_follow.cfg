CONSTANTS
    None = None
    Sims = {"s1", "s2"}
    RecordedSims = {"r1"}
    Sessions = {"planner", "runner"}
    ChatAgents = {"planner"}
    LiveMessages <- MCLiveMessages
    Recordings <- ShortRecordings
    MaxRuns = 2
SPECIFICATION MCSpec
INVARIANTS WireFollowsSubscription OneReplay
PROPERTIES WireAndReplayAreKept
CHECK_DEADLOCK FALSE
