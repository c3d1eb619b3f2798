CONSTANTS
    ServerNames <- MCServerNames
    InputName <- MCInputName
    NoName <- MCNoName
    MaxErrors = 0
    MaxIgnoredErrors = 0
    MaxEdits = 2
SPECIFICATION Spec
\* A controller with an empty work queue and an unchanging world stops.
CHECK_DEADLOCK FALSE
INVARIANTS
    AllBridgesRegistered
