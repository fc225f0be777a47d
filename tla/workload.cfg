CONSTANTS
    MinimumTokenLength = 2
    Replicas <- TwoReplicas
    Messages <- Plain
    Spelling <- PlainSpelling
    Images <- OneRelease
    ImmutableImages <- OneRelease
    Scenarios <- Disturbances
    MaxCount = 0
SPECIFICATION WorkloadSpec
PROPERTIES
    EventuallyServes
CHECK_DEADLOCK FALSE
