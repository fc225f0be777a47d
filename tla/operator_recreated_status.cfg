CONSTANTS
    Replicas <- OneReplica
    Messages <- TwoMessages
    Images <- Pinned
    ImmutableImages <- Pinned
    Scenarios <- AnotherSpec
    MaxCount = 0
SPECIFICATION Safety
PROPERTIES
    GenerationTellsCurrentStatus
CHECK_DEADLOCK FALSE
