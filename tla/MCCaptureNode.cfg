SPECIFICATION Spec
CONSTANTS
    Nodes = {n1, n2, n3}
    Cameras = {c1, c2}
    NumStreams = 2
    MaxBuffers = 2
    Planes <- MCPlanes
    Formats <- MCFormats
    Targets = {"", "jpeg"}
    Width = 2
    Height = 2
    OtherSize <- MCOtherSize
    Padding = 1
    NDebug = FALSE
    None = None
SYMMETRY Symmetry
INVARIANTS
    TypeOK
    StartedNodeStreams
    CookiesResolve
    RunningHasNode
    OwnHandlerOnly
    MessageMatches
