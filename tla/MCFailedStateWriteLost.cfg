CONSTANTS
    ServerNames <- MCServerNames
    InputName <- MCInputName
    NoName <- MCNoName
    MaxErrors = 0
    MaxIgnoredErrors = 1
    MaxEdits = 1
SPECIFICATION Spec
\* A controller with an empty work queue and an unchanging world stops.
CHECK_DEADLOCK FALSE
INVARIANTS
    QuiescentRunningConsistent
