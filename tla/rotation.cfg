SPECIFICATION Spec
CONSTANTS
    MinimumTokenLength = 2
    Pods <- TwoPods
    Secrets <- TokenFiles
    MaxRotations = 3
    MaxCrashes = 2
INVARIANT
    RotationTakesEffect
PROPERTIES
    KeepsServing
    RotationEnds
CHECK_DEADLOCK FALSE
