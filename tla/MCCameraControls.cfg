SPECIFICATION FairSpec
CONSTANTS
    c1 = c1
    c2 = c2
    v1 = v1
    v2 = v2
    Unset = Unset
    Controls <- TwoControls
    Values <- TwoValues
    Batches <- UniformBatches
    Requests = {1, 2}
    SeqMod = 4
INVARIANTS
    TypeOK
    NumberCoversControls
    BatchesNotTorn
PROPERTIES
    SettingsConverge
