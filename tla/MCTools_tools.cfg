CONSTANTS
    Dumps <- MCDumps
    None = None
    Absent = Absent
    TickInterval = 10
    Interval = 6
    CountdownLead = 3
    Scales = {1, 2}
    MaxRows = 3
    Spacings = {4, 24}
    Shown = {c1, c2}
    Odd = {c2}
    MaxWire = 1
    MaxButtons = 1
    MaxResets = 2
    MaxDrops = 1
    MaxEntries = 3
    EvictionBatch = 2
    MaxAppended = 5
    Types = {t1}
    Simulations = {x1}
    Unknown = "zzz"
    MaxIds = 3
    MaxTicks = 2
    Roads <- MCStreets
    Nodes <- MCNodes
    Edges <- MCEdges
    Named = {1}
    Paths <- MCPaths
    Radius = 2
    Moves = {0, 5, 15}
    Starts = {0}
    StopLine = 5
    Green = 1
    Yellow = 1
    RedGap = 1
    MaxCars = 1
    MaxAdds = 1
SPECIFICATION MCSpec
INVARIANTS ReplayKeepsTime PageIsTrue TwinIsTrue RoadsAreKept MapsAreWhole
PROPERTIES ToolsComeToAnEnd 
CHECK_DEADLOCK FALSE
