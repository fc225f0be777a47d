CONSTANTS
    Replicas <- OneReplica
    Messages <- TwoMessages
    Images <- Releases
    ImmutableImages <- Releases
    Scenarios <- OneEdit
    MaxCount = 0
    OldImage = "v1"
    NewImage = "v2"
    MaxOverlap = 3
SPECIFICATION HandoverSpec
INVARIANTS
    ConditionsCoherent
PROPERTIES
    HandoverConverges
CHECK_DEADLOCK FALSE
