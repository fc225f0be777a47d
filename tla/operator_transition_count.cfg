CONSTANTS
    Replicas <- OneReplica
    Messages <- TwoMessages
    Images <- Pinned
    ImmutableImages <- Pinned
    Scenarios <- Creation
    MaxCount = 2
SPECIFICATION Safety
PROPERTIES
    CountsOnlyPersistedTransitions
CHECK_DEADLOCK FALSE
