CONSTANTS
    None = None
    Sims = {"s1", "s2"}
    RecordedSims = {"r1"}
    Sessions = {"planner", "runner"}
    ChatAgents = {"planner"}
    LiveMessages <- MCLiveMessages
    Recordings <- RaceRecordings
    MaxRuns = 2
SPECIFICATION MCSpec
PROPERTIES TicksReachTheChat
CHECK_DEADLOCK FALSE
