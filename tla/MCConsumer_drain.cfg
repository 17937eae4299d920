\* Three messages of two priorities, a drain, a signal, one failed call.
SPECIFICATION ConsumerSpec
CONSTANTS
    Priorities = {0, 1}
    MaxMessages = 3
    MaxErrors = 1
    Signals = TRUE
CHECK_DEADLOCK FALSE
INVARIANT
    ConsumerTypeOK
PROPERTIES
    DrainEmptiesQueue
    StartedInTheEnd
    DrainEndsUnlessIdle
