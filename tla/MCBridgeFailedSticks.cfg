\* The mautrix-signal controller against an abstract Synapse.
CONSTANTS
    ServerNames <- MCServerNames
    NoName <- MCNoName
    InputDomain <- MCInputDomain
    MaxErrors = 0
    MaxEdits = 1
SPECIFICATION Spec
INVARIANTS FailedStateCleared
\* A converged controller waits for events that may never come: deadlock
\* is the normal end of a behaviour here.
CHECK_DEADLOCK FALSE
