SPECIFICATION Spec
CONSTANTS
    KernelGauss <- MCKernelGauss
    Brightness = {0, 255}
    Counts = {2, 8}
    SizeBits = 4
    NumRays = 3
    EnterThreshold = 100
    ExitThreshold = 100
    MinWidth2 = 3
    MaxWidth2 = 5
    Width = 8
    Height = 2
    Centres <- MCCentres
    Directions <- MCDirections
    None = None
INVARIANTS
    TypeOK
    FilterIsResponse
    RangesConfirmed
    ClipExact
