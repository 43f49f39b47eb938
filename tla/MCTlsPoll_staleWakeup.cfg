CONSTANTS
    Waiters = {w1}
    Flushers = {f1}
    Fds = {d1}
    Control = Control
    MaxPending = 2
SPECIFICATION FairSpec
PROPERTY WaitClearsWakeup
