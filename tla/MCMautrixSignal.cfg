\* The mautrix-signal controller against an abstract Synapse.
CONSTANTS
    ServerNames <- MCServerNames
    NoName <- MCNoName
    InputDomain <- MCInputDomain
    MaxErrors = 1
    MaxEdits = 2
SPECIFICATION Spec
INVARIANTS TypeOK QuiescentBridgeConsistent
PROPERTIES BridgeEventuallyQuiescent 
\* A converged controller waits for events that may never come: deadlock
\* is the normal end of a behaviour here.
CHECK_DEADLOCK FALSE
