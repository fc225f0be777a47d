CONSTANTS
    Replicas <- OneReplica
    Messages <- TwoMessages
    Images <- PinnedAndTagged
    ImmutableImages <- Pinned
    Scenarios <- LivenessScenarios
    MaxCount = 0
SPECIFICATION Spec
PROPERTIES
    EventuallyConverged
    EventuallyQuiet
    ChildrenGoWithIt
CHECK_DEADLOCK FALSE
