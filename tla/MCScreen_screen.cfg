CONSTANTS
    None = None
    Tools = {prepare, route}
    Failing = prepare
    Speakers = {s1}
    MaxItems = 4
    MaxCalls = 2
    MaxTimers = 1
    LastCount = 4
    Tabs = {agent, organizer, log}
    Agent = agent
    Guids = {g1}
    MaxLeaving = 2
    MaxSpawns = 4
    d3 = d3
    d5 = d5
    d7 = d7
    Memory = memory
    Failure = failure
    Keys = {"0", "5", "7", "d", "r", "l"}
    AutoDemo = "1"
    Scales = {50}
    MaxStarts = 2
    Toggles = {"entertainment"}
    MaxTurns = 2
    Agents = {p1, p2}
    MaxRuns = 2
SPECIFICATION Spec
INVARIANTS CallsResolve PendingTabIsServed ScreenFollowsDemo MenuIsTrue SurfaceIsRead
CHECK_DEADLOCK FALSE
