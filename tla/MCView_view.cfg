CONSTANTS
    None = None
    Guids = {r1, r2}
    Goal = 2
    Speeds = {0, 1}
    MaxGen = 3
    MaxLoads = 5
    MaxWaits = 2
    MaxMoves = 5
    s1 = s1
    s2 = s2
    Segments = {s1, s2}
    MaskId <- MCMaskId
    Routes <- MCRoutes
    MaxImports = 2
    MaxRemovals = 1
    MaxRaces = 2
    Counts = {0, 2}
    Steps = {4, 23}
SPECIFICATION Spec
INVARIANTS FieldIsCurrent ControlsComeBack NumberShown CourseIsWhole SceneryIsTrue EndsOnce
CHECK_DEADLOCK FALSE
SYMMETRY Symmetry
