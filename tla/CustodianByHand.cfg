SPECIFICATION Spec
CONSTANTS
    Content = {"c1", "c2"}
    Sanitizable = {"c1"}
    MaxWindow = 1
    MaxFailures = 2
    MaxTamper = 2
INVARIANT
    DisposedMeansGone
CHECK_DEADLOCK FALSE
