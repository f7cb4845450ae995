SPECIFICATION Spec
CONSTANTS
    MaxCount = 3
    MapInputs <- SomeMaps
    ProfileInputs <- SomeProfiles
    Binding <- SomeBinding
    Regions <- SomeRegions
    Sources <- SomeSources
    Disagreeing <- SomeDisagree
    MapChoices <- SomeChoices
    MaxProfiles = 3
    Requests <- SomeRequests
INVARIANTS
    TypeOK
    CollisionsRejected
    MeaningAgrees
    RegionsSound
    CompleteIsAll
PROPERTY Implements
