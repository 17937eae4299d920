\* A drain without a signal.
SPECIFICATION ConsumerSpec
CONSTANTS
    Priorities = {0}
    MaxMessages = 2
    MaxErrors = 0
    Signals = FALSE
CHECK_DEADLOCK FALSE
INVARIANT
    DrainFinishesWork
