------------------------------ MODULE TlsPoll ------------------------------
(***************************************************************************)
(* Tls::Poll: a poll(2) that another thread can end with setFlushing(true).*)
(* The atomic counters are read and written one at a time; the control     *)
(* socket holds the wake bytes.  A waiter watches descriptors between two  *)
(* waits; a flusher calls setFlushing.                                     *)
(***************************************************************************)
EXTENDS Integers, Sequences, FiniteSets

CONSTANTS
    Waiters,    \* threads that call addFd, removeFd and wait
    Flushers,   \* threads that call setFlushing
    Fds,        \* descriptors to watch
    Control,    \* mControlReadFd
    MaxPending  \* bound on mControlPending: setFlushing(true) is not called beyond it

ASSUME FdsAssumption == Control \notin Fds
ASSUME ThreadsAssumption ==
    IsFiniteSet(Waiters) /\ IsFiniteSet(Flushers) /\ Waiters \cap Flushers = {}
ASSUME PendingAssumption == MaxPending \in Nat

VARIABLES
    table,      \* mFds[0..mFdsCnt-1], the control descriptor first
    flushing,   \* mFlushing
    waiting,    \* mWaiting
    pending,    \* mControlPending
    bytes,      \* external: unread bytes of the control socket
    ready,      \* external: the descriptors with an event
    pc,         \* pc[t]: where a thread is in wait or setFlushing
    seen,       \* seen[w]: oldwaiting
    result      \* result[w]: how w's last wait ended

wakeVars  == <<flushing, pending, bytes>>
waitVars  == <<waiting, seen, result>>
vars == <<table, wakeVars, waitVars, ready, pc>>

Threads    == Waiters \cup Flushers
WaitPCs    == {"idle", "loaded", "counted", "polling", "polled", "leaving"}
FlushPCs   == {"idle", "stored", "raise"}
Results    == {"none", "active", "timeout", "flushed", "refused"}
Watched    == {table[i] : i \in 1..Len(table)}

TypeOK ==
    /\ table \in Seq(Fds \cup {Control})
    /\ flushing \in BOOLEAN
    /\ waiting \in 0..Cardinality(Waiters)
    /\ pending \in 0..(MaxPending + Cardinality(Flushers))
    /\ bytes \in 0..1
    /\ ready \in SUBSET Fds
    /\ \A w \in Waiters : pc[w] \in WaitPCs
    /\ \A f \in Flushers : pc[f] \in FlushPCs
    /\ seen \in [Waiters -> 0..Cardinality(Waiters)]
    /\ result \in [Waiters -> Results]

Init ==
    /\ table = <<Control>>
    /\ flushing = FALSE /\ waiting = 0 /\ pending = 0
    /\ bytes = 0 /\ ready = {}
    /\ pc = [t \in Threads |-> "idle"]
    /\ seen = [w \in Waiters |-> 0]
    /\ result = [w \in Waiters |-> "none"]

Goto(t, next) == pc' = [pc EXCEPT ![t] = next]
End(w, how)   == result' = [result EXCEPT ![w] = how]

-----------------------------------------------------------------------------
(* The descriptor table. *)

AddFd(w, fd) ==
    /\ pc[w] = "idle"
    /\ fd \notin Watched
    /\ table' = Append(table, fd)
    /\ UNCHANGED <<wakeVars, waitVars, ready, pc>>

\* The memmove (one byte, at offsets scaled twice) touches no entry of a table of
\* up to eight after the first; the count is reduced, so the last entry goes.
RemoveFd(w, fd) ==
    /\ pc[w] = "idle"
    /\ fd \in Watched
    /\ table' = SubSeq(table, 1, Len(table) - 1)
    /\ UNCHANGED <<wakeVars, waitVars, ready, pc>>

-----------------------------------------------------------------------------
(* wait *)

WaitLoad(w) ==
    /\ pc[w] = "idle"
    /\ seen' = [seen EXCEPT ![w] = waiting]
    /\ Goto(w, "loaded")
    /\ UNCHANGED <<table, wakeVars, waiting, result, ready>>

\* fetch_add, and the test of the value loaded before.
WaitCount(w) ==
    /\ pc[w] = "loaded"
    /\ waiting' = waiting + 1
    /\ \/ seen[w] > 0 /\ Goto(w, "leaving") /\ End(w, "refused")
       \/ seen[w] = 0 /\ Goto(w, "counted") /\ UNCHANGED result
    /\ UNCHANGED <<table, wakeVars, seen, ready>>

\* Mutant: wait goes to poll without looking at mFlushing.
WaitCheck_Skip(w) ==
    /\ pc[w] = "counted"
    /\ Goto(w, "polling")
    /\ UNCHANGED <<table, wakeVars, waitVars, ready>>

WaitCheck(w) ==
    /\ pc[w] = "counted"
    /\ \/ flushing /\ Goto(w, "leaving") /\ End(w, "flushed")
       \/ ~flushing /\ Goto(w, "polling") /\ UNCHANGED result
    /\ UNCHANGED <<table, wakeVars, waiting, seen, ready>>

\* poll returns because a descriptor of the table has an event.
PollActive(w) ==
    /\ pc[w] = "polling"
    /\ bytes > 0 \/ ready \cap Watched # {}
    /\ Goto(w, "polled") /\ End(w, "active")
    /\ UNCHANGED <<table, wakeVars, waiting, seen, ready>>

\* poll times out (waits with a time-out only).
PollTimeout(w) ==
    /\ pc[w] = "polling"
    /\ bytes = 0 /\ ready \cap Watched = {}
    /\ Goto(w, "polled") /\ End(w, "timeout")
    /\ UNCHANGED <<table, wakeVars, waiting, seen, ready>>

PollRecheck(w) ==
    /\ pc[w] = "polled"
    /\ Goto(w, "leaving")
    /\ \/ flushing /\ End(w, "flushed")
       \/ ~flushing /\ UNCHANGED result
    /\ UNCHANGED <<table, wakeVars, waiting, seen, ready>>

WaitLeave(w) ==
    /\ pc[w] = "leaving"
    /\ waiting' = waiting - 1
    /\ Goto(w, "idle")
    /\ UNCHANGED <<table, wakeVars, seen, result, ready>>

-----------------------------------------------------------------------------
(* setFlushing *)

SetFlushing(f, on) ==
    /\ pc[f] = "idle"
    /\ on => pending < MaxPending
    /\ flushing' = on
    /\ Goto(f, IF on THEN "stored" ELSE "idle")
    /\ UNCHANGED <<table, pending, bytes, waitVars, ready>>

\* mFlushing and mWaiting are loaded after the store.
FlushCheck(f) ==
    /\ pc[f] = "stored"
    /\ Goto(f, IF flushing /\ waiting > 0 THEN "raise" ELSE "idle")
    /\ UNCHANGED <<table, wakeVars, waitVars, ready>>

\* Mutant: the first raise is only counted.
RaiseWakeup_NoByte(f) ==
    /\ pc[f] = "raise"
    /\ bytes' = IF pending = 1 THEN bytes + 1 ELSE bytes
    /\ pending' = pending + 1
    /\ Goto(f, "idle")
    /\ UNCHANGED <<table, flushing, waitVars, ready>>

\* raiseWakeup, under mMutex: one byte while nothing is pending.  Nothing in
\* the code calls releaseWakeup or releaseAllWakeup.
RaiseWakeup(f) ==
    /\ pc[f] = "raise"
    /\ bytes' = IF pending = 0 THEN bytes + 1 ELSE bytes
    /\ pending' = pending + 1
    /\ Goto(f, "idle")
    /\ UNCHANGED <<table, flushing, waitVars, ready>>

\* External: descriptors get and lose events.
FdEvent ==
    /\ ready' \in SUBSET Fds
    /\ ready' # ready
    /\ UNCHANGED <<table, wakeVars, waitVars, pc>>

-----------------------------------------------------------------------------
WaitStep(w) ==
    \/ WaitLoad(w) \/ WaitCount(w) \/ WaitCheck(w)
    \/ PollActive(w) \/ PollTimeout(w) \/ PollRecheck(w) \/ WaitLeave(w)

FlushStep(f) == FlushCheck(f) \/ RaiseWakeup(f)

Next ==
    \/ \E w \in Waiters, fd \in Fds : AddFd(w, fd) \/ RemoveFd(w, fd)
    \/ \E w \in Waiters : WaitStep(w)
    \/ \E f \in Flushers, on \in BOOLEAN : SetFlushing(f, on)
    \/ \E f \in Flushers : FlushStep(f)
    \/ FdEvent

Spec == Init /\ [][Next]_vars

\* A thread inside a call goes on, poll(2) returns when it can, and every
\* waiter is a loop that waits again.  A time-out is not assumed: wait(-1).
Fairness ==
    /\ \A w \in Waiters :
          /\ WF_vars(WaitLoad(w)) /\ WF_vars(WaitCount(w)) /\ WF_vars(WaitCheck(w))
          /\ WF_vars(PollActive(w)) /\ WF_vars(PollRecheck(w)) /\ WF_vars(WaitLeave(w))
    /\ \A f \in Flushers : WF_vars(FlushStep(f))

FairSpec == Spec /\ Fairness

-----------------------------------------------------------------------------
(* Properties. *)

\* mWaiting counts the threads inside wait, whichever way they leave it.
CountIsExact ==
    waiting = Cardinality({w \in Waiters :
                  pc[w] \in {"counted", "polling", "polled", "leaving"}})

\* No lost wake-up: a waiter blocked in poll while the poll flushes has a byte to
\* read, or a flusher is still on its way to write it.
NoLostWakeup ==
    \A w \in Waiters :
        pc[w] = "polling" /\ flushing =>
            bytes > 0 \/ \E f \in Flushers : pc[f] \in {"stored", "raise"}

\* setFlushing(true) ends a wait that has no time-out, unless the flushing is
\* called off.
FlushEndsWait ==
    \A w \in Waiters : (pc[w] = "polling" /\ flushing) ~> (pc[w] # "polling" \/ ~flushing)

(* What comments of the code say and the code does not do. *)

\* "When we stop the flushing operation we don't clear the wakeup fd here, this
\* will happen in the _wait() thread": once nobody flushes any more, the waits
\* clear the byte.
WaitClearsWakeup ==
    <>[](~flushing /\ \A f \in Flushers : pc[f] = "idle") => []<>(bytes = 0)
=============================================================================
