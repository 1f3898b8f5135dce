SPECIFICATION Spec
CONSTANTS
    s1 = s1
    s2 = s2
    Spawners = {s1, s2}
    NameOf <- Names
    MaxAttempts = 2
INVARIANTS
    TypeOK
    ExitCodeTrue
    TwinsHaveRaced
