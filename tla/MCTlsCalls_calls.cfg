CONSTANTS
    Callers = {c1, c2, c3}
    Pthreads = {p1, p2, p3}
    Creation = {TRUE, FALSE}
    Waiters = {w1, w2}
    Flushers = {f1, f2}
    Fds = {d1}
    Control = Control
    MaxPending = 2
    Producers = {t1, t2, t3}
    Values = {1, 2}
    Capacity = 3
    Sorted = TRUE
SPECIFICATION CallsSpec
INVARIANT NoLostWakeup
INVARIANT InOrder
INVARIANT ConsumerWakes
INVARIANT ClosingWakes
PROPERTY WaitMeansOver
PROPERTY ExitReturns
PROPERTY FlushEndsWait
CHECK_DEADLOCK FALSE
