CONSTANTS
    Replicas <- OneReplica
    Messages <- TwoMessages
    Images <- Pinned
    ImmutableImages <- Pinned
    Scenarios <- ForegroundDeletion
    MaxCount = 0
SPECIFICATION Spec
PROPERTIES
    ForegroundDeletionEnds
CHECK_DEADLOCK FALSE
