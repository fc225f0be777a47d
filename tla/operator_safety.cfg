CONSTANTS
    Replicas <- OneReplica
    Messages <- TwoMessages
    Images <- PinnedAndTagged
    ImmutableImages <- Pinned
    Scenarios <- SafetyScenarios
    MaxCount = 0
SPECIFICATION Safety
INVARIANTS
    TypeOK
    ConditionsCoherent
PROPERTIES
    ForeignChildUntouched
    OwnerNeverRegresses
    StatusDescribesItsGeneration
CHECK_DEADLOCK FALSE
