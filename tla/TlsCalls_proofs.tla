-------------------------- MODULE TlsCalls_proofs --------------------------
(***************************************************************************)
(* What holds of the poll, the thread and the queue of tools/, for any     *)
(* number of threads, any capacity and any elements; and so of the         *)
(* behaviours of MCTlsCalls, each of which is one of each class.           *)
(***************************************************************************)
EXTENDS MCTlsCalls, FiniteSetTheorems, SequenceTheorems, WellFoundedInduction, TLAPS

-----------------------------------------------------------------------------
(* Tls::Poll: mWaiting is exact and no wake-up is lost. *)

Inside(w)  == pc[w] \in {"counted", "polling", "polled", "leaving"}
Raising    == {f \in Flushers : pc[f] \in {"stored", "raise"}}

\* The wake byte is there as long as a wake-up is pending, one per flusher that
\* is on its way may still come, and what mWaiting counts is what there is.
PcInv   == pc \in [Threads -> WaitPCs \cup FlushPCs]
ByteInv == bytes = IF pending = 0 THEN 0 ELSE 1
RoomInv == pending + Cardinality(Raising) <= MaxPending + Cardinality(Flushers)
PollIInv == TypeOK /\ PcInv /\ CountIsExact /\ ByteInv /\ RoomInv /\ NoLostWakeup

-----------------------------------------------------------------------------
\* A thread enters or leaves a finite set of threads.
LEMMA Enters ==
  ASSUME NEW S, NEW T, NEW x, IsFiniteSet(S), x \notin S, T = S \cup {x}
  PROVE  IsFiniteSet(T) /\ Cardinality(T) = Cardinality(S) + 1 /\ Cardinality(S) \in Nat
  BY FS_AddElement, FS_CardinalityType

LEMMA Leaves ==
  ASSUME NEW S, NEW T, NEW x, IsFiniteSet(S), x \in S, T = S \ {x}
  PROVE  IsFiniteSet(T) /\ Cardinality(T) = Cardinality(S) - 1 /\ Cardinality(S) \in Nat \ {0}
  <1>1. IsFiniteSet(T) /\ Cardinality(T) = Cardinality(S) - 1 /\ Cardinality(T) \in Nat
    BY FS_RemoveElement, FS_CardinalityType
  <1>2. Cardinality(S) \in Nat  BY FS_CardinalityType
  <1> QED  BY <1>1, <1>2

\* The sets the counters count are finite, and no larger than the threads.
LEMMA Sizes ==
  /\ IsFiniteSet({w \in Waiters : Inside(w)}) /\ IsFiniteSet(Raising)
  /\ Cardinality(Waiters) \in Nat /\ Cardinality(Flushers) \in Nat
  /\ Cardinality({w \in Waiters : Inside(w)}) \in 0..Cardinality(Waiters)
  /\ Cardinality(Raising) \in 0..Cardinality(Flushers)
  <1>1. {w \in Waiters : Inside(w)} \subseteq Waiters /\ Raising \subseteq Flushers
    BY DEF Raising
  <1> QED  BY <1>1, FS_Subset, FS_CardinalityType, ThreadsAssumption

LEMMA PollInitIInv == Init => PollIInv
  <1> SUFFICES ASSUME Init PROVE PollIInv  OBVIOUS
  <1>1. {w \in Waiters : pc[w] \in {"counted", "polling", "polled", "leaving"}} = {} /\ Raising = {}
    BY DEF Init, Raising, Threads
  <1>2. CountIsExact  BY <1>1, FS_EmptySet DEF Init, CountIsExact
  <1>3. RoomInv  BY <1>1, FS_EmptySet, Sizes, PendingAssumption DEF Init, RoomInv
  <1>4. TypeOK
    <2>1. table \in Seq(Fds \cup {Control})  BY DEF Init
    <2>2. seen \in [Waiters -> 0..Cardinality(Waiters)] /\ result \in [Waiters -> Results]
      BY Sizes DEF Init, Results
    <2>3. waiting \in 0..Cardinality(Waiters) /\ pending \in 0..(MaxPending + Cardinality(Flushers))
      BY Sizes, PendingAssumption DEF Init
    <2>4. \A w \in Waiters : pc[w] \in WaitPCs  BY DEF Init, WaitPCs, Threads
    <2>5. \A f \in Flushers : pc[f] \in FlushPCs  BY DEF Init, FlushPCs, Threads
    <2>6. flushing \in BOOLEAN /\ ready \in SUBSET Fds  BY Zenon DEF Init
    <2>7. bytes \in 0..1
      <3>1. bytes = 0  BY DEF Init
      <3> QED  BY <3>1
    <2> QED  BY <2>1, <2>2, <2>3, <2>4, <2>5, <2>6, <2>7 DEF TypeOK
  <1>5. PcInv /\ ByteInv /\ NoLostWakeup
    BY DEF Init, PcInv, ByteInv, NoLostWakeup, Threads, WaitPCs, FlushPCs
  <1> QED  BY <1>2, <1>3, <1>4, <1>5 DEF PollIInv

-----------------------------------------------------------------------------
\* A step of a waiter w: what it takes to show that PollIInv holds after it.
\* Only its own place changes, and mWaiting with it.
LEMMA WaiterIInv ==
  ASSUME PollIInv, NEW w \in Waiters, WaitStep(w)
  PROVE  PollIInv'
  <1> DEFINE In == {v \in Waiters : Inside(v)}
  <1> USE DEF PollIInv
  <1>1. w \notin Flushers /\ \A f \in Flushers : pc'[f] = pc[f]
    BY ThreadsAssumption DEF WaitStep, WaitLoad, WaitCount, WaitCheck, PollActive, PollTimeout,
       PollRecheck, WaitLeave, Goto, PcInv, Threads
  <1>2. \A v \in Waiters \ {w} : pc'[v] = pc[v]
    BY DEF WaitStep, WaitLoad, WaitCount, WaitCheck, PollActive, PollTimeout,
       PollRecheck, WaitLeave, Goto, PcInv, Threads
  <1>3. UNCHANGED wakeVars /\ UNCHANGED table /\ UNCHANGED ready
    BY DEF WaitStep, WaitLoad, WaitCount, WaitCheck, PollActive, PollTimeout, PollRecheck, WaitLeave
  <1>4. pc'[w] \in WaitPCs /\ PcInv'
    BY DEF WaitStep, WaitLoad, WaitCount, WaitCheck, PollActive, PollTimeout,
       PollRecheck, WaitLeave, Goto, PcInv, Threads, WaitPCs
  <1>5. Raising' = Raising  BY <1>1 DEF Raising
  <1>6. ByteInv' /\ RoomInv'  BY <1>3, <1>5 DEF ByteInv, RoomInv, wakeVars
  <1>7. waiting = Cardinality(In) /\ IsFiniteSet(In)  BY Sizes DEF CountIsExact, Inside
  <1>8. CountIsExact'
    <2>1. CASE WaitCount(w)
      <3>1. w \notin In /\ Inside(w)'  BY <2>1 DEF WaitCount, Goto, PcInv, Threads, Inside
      <3>2. In' = In \cup {w}  BY <1>2, <3>1 DEF Inside
      <3> QED  BY <3>1, <3>2, <1>7, <2>1, Enters DEF WaitCount, CountIsExact, Inside
    <2>2. CASE WaitLeave(w)
      <3>1. w \in In /\ ~Inside(w)'  BY <2>2 DEF WaitLeave, Goto, PcInv, Threads, Inside
      <3>2. In' = In \ {w}  BY <1>2, <3>1 DEF Inside
      <3> QED  BY <3>1, <3>2, <1>7, <2>2, Leaves DEF WaitLeave, CountIsExact, Inside
    <2>3. CASE WaitLoad(w) \/ WaitCheck(w) \/ PollActive(w) \/ PollTimeout(w) \/ PollRecheck(w)
      <3>1. Inside(w)' <=> Inside(w)
        BY <2>3 DEF WaitLoad, WaitCheck, PollActive, PollTimeout, PollRecheck, Goto, PcInv,
           Threads, Inside
      <3>2. In' = In  BY <1>2, <3>1 DEF Inside
      <3>3. waiting' = waiting
        BY <2>3 DEF WaitLoad, WaitCheck, PollActive, PollTimeout, PollRecheck, waitVars
      <3> QED  BY <3>2, <3>3, <1>7 DEF CountIsExact, Inside
    <2> QED  BY <2>1, <2>2, <2>3 DEF WaitStep
  <1>9. waiting' \in 0..Cardinality(Waiters)
    <2>1. In' \subseteq Waiters  OBVIOUS
    <2>2. Cardinality(In') \in 0..Cardinality(Waiters)
      BY <2>1, FS_Subset, FS_CardinalityType, ThreadsAssumption
    <2> QED  BY <2>2, <1>8 DEF CountIsExact, Inside
  <1>10. TypeOK'
    <2>1. seen' \in [Waiters -> 0..Cardinality(Waiters)] /\ result' \in [Waiters -> Results]
      BY DEF WaitStep, WaitLoad, WaitCount, WaitCheck, PollActive, PollTimeout,
         PollRecheck, WaitLeave, End, TypeOK, Results
    <2> QED  BY <2>1, <1>1, <1>2, <1>3, <1>4, <1>9 DEF TypeOK, wakeVars
  <1>11. NoLostWakeup'
    <2> SUFFICES ASSUME NEW v \in Waiters, pc'[v] = "polling", flushing'
                 PROVE  (bytes > 0 \/ \E f \in Flushers : pc[f] \in {"stored", "raise"})'
      BY DEF NoLostWakeup
    <2>1. pc[v] = "polling"
      BY <1>2, <1>3 DEF WaitStep, WaitLoad, WaitCount, WaitCheck, PollActive, PollTimeout,
         PollRecheck, WaitLeave, Goto, PcInv, Threads, wakeVars
    <2> QED  BY <2>1, <1>1, <1>3 DEF NoLostWakeup, wakeVars
  <1> QED  BY <1>4, <1>6, <1>8, <1>10, <1>11

\* A step of a flusher.  A waiter in poll makes mWaiting positive: the flusher
\* that finds it zero leaves nobody behind.
LEMMA FlusherIInv ==
  ASSUME PollIInv, NEW f \in Flushers,
         FlushStep(f) \/ \E on \in BOOLEAN : SetFlushing(f, on)
  PROVE  PollIInv'
  <1> USE DEF PollIInv
  <1>1. \A w \in Waiters : pc'[w] = pc[w]
    BY ThreadsAssumption DEF FlushStep, FlushCheck, RaiseWakeup, SetFlushing, Goto, PcInv, Threads
  <1>2. \A g \in Flushers \ {f} : pc'[g] = pc[g]
    BY DEF FlushStep, FlushCheck, RaiseWakeup, SetFlushing, Goto, PcInv, Threads
  <1>3. UNCHANGED <<table, waitVars, ready>>
    BY DEF FlushStep, FlushCheck, RaiseWakeup, SetFlushing
  <1>4. pc'[f] \in FlushPCs /\ PcInv'
    BY DEF FlushStep, FlushCheck, RaiseWakeup, SetFlushing, Goto, PcInv, Threads, FlushPCs
  <1>5. CountIsExact'  BY <1>1, <1>3 DEF CountIsExact, waitVars
  <1>6. pending \in Nat /\ ByteInv'
    BY DEF TypeOK, FlushStep, FlushCheck, RaiseWakeup, SetFlushing, wakeVars, ByteInv
  <1>7. RoomInv' /\ pending' \in 0..(MaxPending + Cardinality(Flushers))
    <2>0. IsFiniteSet(Raising) /\ Cardinality(Raising) \in 0..Cardinality(Flushers)
          /\ Cardinality(Flushers) \in Nat
      BY Sizes
    <2>1. CASE \E on \in BOOLEAN : SetFlushing(f, on)
      <3> PICK on \in BOOLEAN : SetFlushing(f, on)  BY <2>1
      <3>1. f \notin Raising /\ pending' = pending  BY DEF SetFlushing, Raising
      <3>2. CASE on
        <4>1. Raising' = Raising \cup {f}  BY <1>2, <3>2 DEF SetFlushing, Goto, PcInv, Threads,
                                        Raising
        <4>2. Raising' \subseteq Flushers  BY DEF Raising
        <4>3. Cardinality(Raising') <= Cardinality(Flushers) /\ Cardinality(Raising') \in Nat
          BY <4>2, FS_Subset, FS_CardinalityType, ThreadsAssumption
        <4>4. pending < MaxPending  BY <3>2 DEF SetFlushing
        <4> QED  BY <4>3, <4>4, <3>1, <1>6, <2>0, PendingAssumption DEF RoomInv
      <3>3. CASE ~on
        <4>1. Raising' = Raising  BY <1>2, <3>1, <3>3 DEF SetFlushing, Goto, PcInv, Threads, Raising
        <4> QED  BY <4>1, <3>1 DEF RoomInv, TypeOK
      <3> QED  BY <3>2, <3>3
    <2>2. CASE FlushCheck(f)
      <3>1. pending' = pending /\ f \in Raising  BY <2>2 DEF FlushCheck, wakeVars, Raising
      <3>2. Raising' = Raising \/ Raising' = Raising \ {f}
        BY <1>2, <2>2 DEF FlushCheck, Goto, PcInv, Threads, Raising
      <3>3. Cardinality(Raising') <= Cardinality(Raising) /\ Cardinality(Raising') \in Nat
        BY <3>1, <3>2, <2>0, Leaves
      <3> QED  BY <3>1, <3>3, <2>0, <1>6, PendingAssumption DEF RoomInv
    <2>3. CASE RaiseWakeup(f)
      <3>1. pending' = pending + 1 /\ f \in Raising  BY <2>3 DEF RaiseWakeup, Raising
      <3>2. Raising' = Raising \ {f}
        BY <1>2, <2>3 DEF RaiseWakeup, Goto, PcInv, Threads, Raising
      <3>3. Cardinality(Raising') = Cardinality(Raising) - 1 /\ Cardinality(Raising) \in Nat \ {0}
        BY <3>1, <3>2, <2>0, Leaves
      <3> QED  BY <3>1, <3>3, <2>0, <1>6, PendingAssumption DEF RoomInv
    <2> QED  BY <2>1, <2>2, <2>3 DEF FlushStep
  <1>8. bytes' \in 0..1 /\ flushing' \in BOOLEAN
    BY <1>6 DEF ByteInv, TypeOK, FlushStep, FlushCheck, RaiseWakeup, SetFlushing, wakeVars
  <1>9. TypeOK'  BY <1>1, <1>2, <1>3, <1>4, <1>7, <1>8 DEF TypeOK, waitVars
  <1>10. NoLostWakeup'
    <2> SUFFICES ASSUME NEW w \in Waiters, pc'[w] = "polling", flushing'
                 PROVE  (bytes > 0 \/ \E g \in Flushers : pc[g] \in {"stored", "raise"})'
      BY DEF NoLostWakeup
    <2>1. pc[w] = "polling"  BY <1>1
    <2>2. CASE \E on \in BOOLEAN : SetFlushing(f, on)
      BY <2>2 DEF SetFlushing, Goto, PcInv, Threads
    <2>3. CASE RaiseWakeup(f)
      BY <2>3, <1>6 DEF RaiseWakeup, ByteInv, TypeOK
    <2>4. CASE FlushCheck(f)
      <3>1. w \in {v \in Waiters : Inside(v)}  BY <2>1 DEF Inside
      <3>2. waiting # 0  BY <3>1, Sizes, FS_EmptySet DEF CountIsExact, Inside
      <3>3. waiting > 0  BY <3>2 DEF TypeOK
      <3>4. flushing  BY <2>4 DEF FlushCheck, wakeVars
      <3>5. pc'[f] = "raise"  BY <3>3, <3>4, <2>4 DEF FlushCheck, Goto, PcInv, Threads
      <3> QED  BY <3>5
    <2> QED  BY <2>2, <2>3, <2>4 DEF FlushStep
  <1> QED  BY <1>4, <1>5, <1>6, <1>7, <1>9, <1>10

\* The table changes between two waits and with it nothing else; descriptors
\* get and lose events at any time.
LEMMA TableIInv ==
  ASSUME PollIInv, FdEvent \/ \E w \in Waiters, fd \in Fds : AddFd(w, fd) \/ RemoveFd(w, fd)
  PROVE  PollIInv'
  <1> USE DEF PollIInv
  <1>1. UNCHANGED <<wakeVars, waitVars, pc>>
    BY DEF FdEvent, AddFd, RemoveFd
  <1>2. ready' \in SUBSET Fds  BY DEF FdEvent, AddFd, RemoveFd, TypeOK
  <1>3. table' \in Seq(Fds \cup {Control})
    <2>1. CASE FdEvent  BY <2>1 DEF FdEvent, TypeOK
    <2>2. ASSUME NEW w \in Waiters, NEW fd \in Fds, AddFd(w, fd)
          PROVE  table' \in Seq(Fds \cup {Control})
      BY <2>2 DEF AddFd, TypeOK
    <2>3. ASSUME NEW w \in Waiters, NEW fd \in Fds, RemoveFd(w, fd)
          PROVE  table' \in Seq(Fds \cup {Control})
      BY <2>3, SubSeqProperties, LenProperties, ElementOfSeq DEF RemoveFd, TypeOK
    <2> QED  BY <2>1, <2>2, <2>3
  <1>4. TypeOK'  BY <1>1, <1>2, <1>3 DEF TypeOK, wakeVars, waitVars
  <1>5. PcInv' /\ CountIsExact' /\ ByteInv' /\ RoomInv' /\ NoLostWakeup'
    BY <1>1 DEF PcInv, CountIsExact, ByteInv, RoomInv, Raising, NoLostWakeup, wakeVars, waitVars
  <1> QED  BY <1>4, <1>5

LEMMA PollNextIInv == PollIInv /\ [Next]_vars => PollIInv'
  <1>1. ASSUME PollIInv, UNCHANGED vars PROVE PollIInv'
    BY <1>1 DEF vars, wakeVars, waitVars, PollIInv, TypeOK, PcInv, CountIsExact, ByteInv, RoomInv,
       Raising, NoLostWakeup
  <1> QED  BY <1>1, WaiterIInv, FlusherIInv, TableIInv DEF Next

THEOREM PollInvariance == Spec => []PollIInv
  BY PollInitIInv, PollNextIInv, PTL DEF Spec

\* Every field keeps its type; the control socket holds one byte at most, and
\* the pending wake-ups stay within what the callers of setFlushing allow.
THEOREM PollTypeCorrect == Spec => []TypeOK
  <1>1. PollIInv => TypeOK  BY DEF PollIInv
  <1> QED  BY <1>1, PollInvariance, PTL

\* mWaiting is the number of threads inside wait.
THEOREM WaitingIsExact == Spec => []CountIsExact
  <1>1. PollIInv => CountIsExact  BY DEF PollIInv
  <1> QED  BY <1>1, PollInvariance, PTL

\* A waiter in poll while the poll flushes has a byte to read or one to come.
THEOREM WakeupIsNotLost == Spec => []NoLostWakeup
  <1>1. PollIInv => NoLostWakeup  BY DEF PollIInv
  <1> QED  BY <1>1, PollInvariance, PTL

-----------------------------------------------------------------------------
(* Tls::Thread: one body at a time, no waiter forgotten, and no wait over  *)
(* before the body is.                                                     *)

\* The three invariants carry each other: that mRunning is false only without
\* a body makes the waiter's test right, that a body is alone makes its last
\* section the end of all of them.
ThreadIInv == Thread!TypeOK /\ Thread!OneBody /\ Thread!NobodyForgotten

LEMMA ThreadInitIInv == Thread!Init => ThreadIInv
  BY DEF Thread!Init, ThreadIInv, Thread!TypeOK, Thread!OneBody, Thread!NobodyForgotten,
     Thread!Alive, Thread!BodyPCs, Thread!CallerPCs

\* What run, exit requests and waits do.
LEMMA ThreadCallerIInv ==
  ASSUME ThreadIInv,
         NEW c \in Callers,
         \/ \E p \in Pthreads, created \in Creation : Thread!Run(c, p, created)
         \/ Thread!RequestExit(c) \/ Thread!RequestExitAndWait(c) \/ Thread!Join(c) \/ Thread!Wake(c)
  PROVE  ThreadIInv'
  <1> USE DEF ThreadIInv, Thread!TypeOK, Thread!BodyPCs, Thread!CallerPCs
  <1>1. CASE \E p \in Pthreads, created \in Creation : Thread!Run(c, p, created)
    <2> PICK p \in Pthreads, created \in Creation : Thread!Run(c, p, created)  BY <1>1
    <2>1. Thread!Alive = {}  BY DEF Thread!OneBody, Thread!Run
    <2>2. Thread!TypeOK'  BY DEF Thread!Run, Thread!Broadcast
    <2>3. Thread!OneBody'
      <3>1. CASE created
        <4>1. Thread!Alive' = {p}  BY <2>1, <3>1 DEF Thread!Run, Thread!Alive
        <4>2. running'  BY <3>1 DEF Thread!Run
        <4> QED  BY <4>1, <4>2 DEF Thread!OneBody
      <3>2. CASE ~created
        <4>1. Thread!Alive' = {} /\ ~running'  BY <2>1, <3>2 DEF Thread!Run, Thread!Alive
        <4> QED  BY <4>1 DEF Thread!OneBody
      <3> QED  BY <3>1, <3>2
    <2>4. Thread!NobodyForgotten'  BY DEF Thread!Run, Thread!Broadcast, Thread!NobodyForgotten
    <2> QED  BY <2>2, <2>3, <2>4
  <1>2. CASE Thread!RequestExit(c)
    BY <1>2 DEF Thread!RequestExit, Thread!OneBody, Thread!Alive, Thread!NobodyForgotten
  <1>3. CASE Thread!RequestExitAndWait(c)
    BY <1>3 DEF Thread!RequestExitAndWait, Thread!OneBody, Thread!Alive, Thread!NobodyForgotten
  <1>4. CASE Thread!Join(c)
    BY <1>4 DEF Thread!Join, Thread!OneBody, Thread!Alive, Thread!NobodyForgotten
  <1>5. CASE Thread!Wake(c)
    BY <1>5 DEF Thread!Wake, Thread!OneBody, Thread!Alive, Thread!NobodyForgotten
  <1> QED  BY <1>1, <1>2, <1>3, <1>4, <1>5

\* What a pthread does.
LEMMA ThreadBodyIInv ==
  ASSUME ThreadIInv, NEW p \in Pthreads, Thread!BodyStep(p)
  PROVE  ThreadIInv'
  <1> USE DEF ThreadIInv, Thread!TypeOK, Thread!BodyPCs, Thread!CallerPCs, Thread!At
  <1>1. ASSUME Thread!Begin(p) \/ Thread!LoopReturns(p) \/ Thread!LoopAgain(p)
        PROVE  ThreadIInv'
    <2>1. Thread!Alive' = Thread!Alive /\ p \in Thread!Alive
      BY <1>1 DEF Thread!Begin, Thread!LoopReturns, Thread!LoopAgain, Thread!Alive
    <2>2. running  BY <2>1 DEF Thread!OneBody
    <2>3. Thread!TypeOK'  BY <1>1 DEF Thread!Begin, Thread!LoopReturns, Thread!LoopAgain
    <2>4. running' /\ caller' = caller /\ woken' = woken
      BY <1>1, <2>2 DEF Thread!Begin, Thread!LoopReturns, Thread!LoopAgain
    <2> QED  BY <2>1, <2>3, <2>4 DEF Thread!OneBody, Thread!NobodyForgotten
  <1>2. CASE Thread!Finish(p)
    <2>1. Thread!Alive = {p}  BY <1>2 DEF Thread!Finish, Thread!Alive, Thread!OneBody
    <2>2. Thread!Alive' = {}  BY <1>2, <2>1 DEF Thread!Finish, Thread!Alive
    <2>3. Thread!TypeOK'  BY <1>2 DEF Thread!Finish, Thread!Broadcast
    <2>4. ~running' /\ Thread!NobodyForgotten'  BY <1>2 DEF Thread!Finish, Thread!Broadcast,
                                        Thread!NobodyForgotten
    <2> QED  BY <2>2, <2>3, <2>4 DEF Thread!OneBody
  <1> QED  BY <1>1, <1>2 DEF Thread!BodyStep

LEMMA ThreadNextIInv == ThreadIInv /\ [Thread!Next]_Thread!vars => ThreadIInv'
  <1>1. ASSUME ThreadIInv, UNCHANGED Thread!vars PROVE ThreadIInv'
    BY <1>1 DEF Thread!vars, ThreadIInv, Thread!TypeOK, Thread!OneBody, Thread!NobodyForgotten,
       Thread!Alive
  <1> QED  BY <1>1, ThreadCallerIInv, ThreadBodyIInv DEF Thread!Next

THEOREM ThreadInvariance == Thread!Spec => []ThreadIInv
  BY ThreadInitIInv, ThreadNextIInv, PTL DEF Thread!Spec

\* Every field keeps its type, and only a waiting caller is listed as woken.
THEOREM ThreadTypeCorrect == Thread!Spec => []Thread!TypeOK
  <1>1. ThreadIInv => Thread!TypeOK  BY DEF ThreadIInv
  <1> QED  BY <1>1, ThreadInvariance, PTL

\* One pthread at most executes the object's code, and mRunning tells.
THEOREM OneBodyAtATime == Thread!Spec => []Thread!OneBody
  <1>1. ThreadIInv => Thread!OneBody  BY DEF ThreadIInv
  <1> QED  BY <1>1, ThreadInvariance, PTL

\* A caller that waits for a thread that is over has been woken.
THEOREM WaitersAreWoken == Thread!Spec => []Thread!NobodyForgotten
  <1>1. ThreadIInv => Thread!NobodyForgotten  BY DEF ThreadIInv
  <1> QED  BY <1>1, ThreadInvariance, PTL

\* requestExitAndWait and join return only when no pthread is in the object.
THEOREM WaitEndsAfterBody == Thread!Spec => Thread!WaitMeansOver
  <1> DEFINE Step == \A c \in Callers : caller[c] # "idle" /\ caller'[c] = "idle" => Thread!Alive = {}
  <1>1. ASSUME ThreadIInv, [Thread!Next]_Thread!vars PROVE [Step]_Thread!vars
    <2> SUFFICES ASSUME Thread!Next, NEW c \in Callers, caller[c] # "idle", caller'[c] = "idle"
                 PROVE  Thread!Alive = {}
      BY <1>1 DEF Step
    <2>1. ASSUME NEW d \in Callers, Thread!Wake(d) PROVE Thread!Alive = {}
      BY <1>1, <2>1 DEF Thread!Wake, ThreadIInv, Thread!TypeOK, Thread!OneBody
    <2>2. ASSUME NEW d \in Callers, Thread!RequestExitAndWait(d) PROVE FALSE
      BY <1>1, <2>2 DEF Thread!RequestExitAndWait, ThreadIInv, Thread!TypeOK
    <2>3. ASSUME NEW d \in Callers, Thread!Join(d) PROVE FALSE
      BY <1>1, <2>3 DEF Thread!Join, ThreadIInv, Thread!TypeOK
    <2>4. caller' # caller  OBVIOUS
    <2> QED  BY <2>1, <2>2, <2>3, <2>4
             DEF Thread!Next, Thread!Run, Thread!RequestExit, Thread!BodyStep, Thread!Begin,
                Thread!LoopReturns, Thread!LoopAgain, Thread!Finish
  <1> QED  BY <1>1, ThreadInvariance, PTL DEF Thread!Spec, Thread!WaitMeansOver

-----------------------------------------------------------------------------
(* Tls::Queue: the list is sorted, a consumer sleeps only while every      *)
(* element is accounted for, and nobody sleeps in a closed queue.          *)

QueueIInv == Queue!TypeOK /\ Queue!InOrder /\ Queue!ConsumerWakes /\ Queue!ClosingWakes

\* A set of natural numbers has a least one.
LEMMA LeastNumber ==
  ASSUME NEW T, T \subseteq Nat, T # {}
  PROVE  \E k \in T : \A j \in T : k <= j
  <1> DEFINE Less == {ss \in Nat \X Nat : ss[1] < ss[2]}
  <1>1. IsWellFoundedOn(Less, Nat)
    BY NatLessThanWellFounded, Zenon DEF OpToRel
  <1>2. PICK k \in T : \A j \in T : <<j, k>> \notin Less
    BY <1>1, WFMin, Zenon
  <1>3. ASSUME NEW j \in T PROVE k <= j
    <2>1. <<j, k>> \in Nat \X Nat /\ ~(j < k)  BY <1>2
    <2> QED  BY <2>1
  <1> QED  BY <1>3

\* What an insertion after n elements makes of a sequence.
LEMMA InsertProperties ==
  ASSUME NEW s \in Seq(Values), NEW n \in 0..Len(s), NEW v \in Values
  PROVE  /\ Queue!Insert(s, n, v) \in Seq(Values)
         /\ Len(Queue!Insert(s, n, v)) = Len(s) + 1
         /\ \A i \in 1..(Len(s) + 1) :
               Queue!Insert(s, n, v)[i] = IF i <= n THEN s[i] ELSE IF i = n + 1 THEN v ELSE s[i - 1]
  <1> DEFINE front == SubSeq(s, 1, n)  back == SubSeq(s, n + 1, Len(s))
  <1>1. Len(s) \in Nat /\ \A i \in 1..Len(s) : s[i] \in Values  BY ElementOfSeq, LenProperties
  <1>2. front \in Seq(Values) /\ Len(front) = n /\ \A i \in 1..n : front[i] = s[i]
    BY <1>1, SubSeqProperties
  <1>3. back \in Seq(Values) /\ Len(back) = Len(s) - n /\ \A i \in 1..(Len(s) - n) : back[i] = s[n + i]
    BY <1>1, SubSeqProperties
  <1> HIDE DEF front, back
  <1>4. /\ front \o <<v>> \in Seq(Values) /\ Len(front \o <<v>>) = n + 1
        /\ \A i \in 1..(n + 1) : (front \o <<v>>)[i] = IF i <= n THEN s[i] ELSE v
    BY <1>1, <1>2, ConcatProperties
  <1>5. /\ (front \o <<v>>) \o back \in Seq(Values)
        /\ Len((front \o <<v>>) \o back) = Len(s) + 1
        /\ \A i \in 1..(Len(s) + 1) :
              ((front \o <<v>>) \o back)[i] =
                 IF i <= n + 1 THEN (front \o <<v>>)[i] ELSE back[i - (n + 1)]
    <2> DEFINE a == front \o <<v>>
    <2>1. a \in Seq(Values) /\ Len(a) = n + 1
      BY <1>4
    <2> HIDE DEF a
    <2>2. /\ a \o back \in Seq(Values) /\ Len(a \o back) = Len(a) + Len(back)
          /\ \A i \in 1..(Len(a) + Len(back)) :
                (a \o back)[i] = IF i <= Len(a) THEN a[i] ELSE back[i - Len(a)]
      BY <2>1, <1>3, ConcatProperties
    <2>3. Len(a) + Len(back) = Len(s) + 1
      BY <2>1, <1>1, <1>3
    <2> QED  BY <2>1, <2>2, <2>3 DEF a
  <1>6. Queue!Insert(s, n, v) = (front \o <<v>>) \o back  BY DEF Queue!Insert, front, back
  <1> DEFINE whole == Queue!Insert(s, n, v)
  <1> HIDE DEF whole
  <1>7. ASSUME NEW i \in 1..(Len(s) + 1)
        PROVE  whole[i] = IF i <= n THEN s[i] ELSE IF i = n + 1 THEN v ELSE s[i - 1]
    <2>1. CASE i <= n + 1  BY <1>1, <1>4, <1>5, <1>6, <2>1 DEF whole
    <2>2. CASE i > n + 1
      <3>1. i - (n + 1) \in 1..(Len(s) - n)  BY <1>1, <2>2
      <3>2. back[i - (n + 1)] = s[n + (i - (n + 1))]  BY <1>3, <3>1
      <3>3. n + (i - (n + 1)) = i - 1  BY <1>1
      <3> QED  BY <1>1, <1>5, <1>6, <2>2, <3>2, <3>3 DEF whole
    <2> QED  BY <1>1, <2>1, <2>2
  <1> QED  BY <1>5, <1>6, <1>7 DEF whole

\* The search of push finds a place between a smaller and a larger neighbour.
LEMMA PositionProperties ==
  ASSUME Queue!TypeOK, NEW v \in Values
  PROVE  /\ Queue!Position(v) \in 0..Len(list)
         /\ Sorted /\ Queue!Position(v) > 0 => list[Queue!Position(v)] <= v
         /\ Sorted /\ Queue!Position(v) < Len(list) => v <= list[Queue!Position(v) + 1]
  <1> DEFINE Between(n) == list[n] <= v /\ v <= list[n + 1]
             Stops(n)   == n = Len(list) \/ Between(n)
             Fits(n)    == Stops(n) /\ \A m \in 1..(n - 1) : ~Between(m)
  <1>1. Len(list) \in Nat /\ v \in Int /\ \A i \in 1..Len(list) : list[i] \in Int
    BY QueueAssumption, ElementOfSeq, LenProperties DEF Queue!TypeOK
  <1>2. CASE ~Sorted  BY <1>1, <1>2 DEF Queue!Position
  <1>3. CASE list = <<>> \/ list[1] >= v
    <2>1. Queue!Position(v) \in {0, Len(list)} /\ (Sorted => Queue!Position(v) = 0)
      BY <1>3 DEF Queue!Position
    <2> QED  BY <2>1, <1>1, <1>3
  <1>4. CASE Sorted /\ ~(list = <<>> \/ list[1] >= v)
    <2>1. Len(list) > 0 /\ list[1] < v
      <3>1. list # <<>> /\ ~(list[1] >= v) /\ list \in Seq(Values)  BY <1>4 DEF Queue!TypeOK
      <3>2. Len(list) # 0  BY <3>1, EmptySeq
      <3> QED  BY <3>1, <3>2, <1>1
    <2>2. \E n \in 1..Len(list) : Fits(n)
      <3> DEFINE T == {n \in 1..Len(list) : Stops(n)}
      <3>1. Len(list) \in T  BY <2>1, <1>1
      <3>2. PICK n \in T : \A m \in T : n <= m
        <4>1. T \subseteq Nat /\ T # {}  BY <3>1
        <4> HIDE DEF T
        <4> QED  BY <4>1, LeastNumber
      <3>3. \A m \in 1..(n - 1) : ~Between(m)
        <4> SUFFICES ASSUME NEW m \in 1..(n - 1), Between(m) PROVE FALSE  OBVIOUS
        <4>1. m \in T  BY <1>1
        <4> QED  BY <4>1, <3>2
      <3> QED  BY <3>3
    <2>3. Queue!Position(v) = CHOOSE n \in 1..Len(list) : Fits(n)
      BY <1>4 DEF Queue!Position
    <2> DEFINE n == Queue!Position(v)
    <2>4. n \in 1..Len(list) /\ Fits(n)
      <3> HIDE DEF Fits
      <3> QED  BY <2>2, <2>3
    <2>5. list[n] <= v
      <3>1. CASE n < Len(list)  BY <2>4, <3>1, <1>1
      <3>2. CASE n = Len(list) /\ v < list[Len(list)]
        <4> DEFINE T == {k \in 1..Len(list) : v < list[k]}
        <4>1. Len(list) \in T  BY <3>2, <2>1, <1>1
        <4>2. PICK k \in T : \A j \in T : k <= j
          <5>1. T \subseteq Nat /\ T # {}  BY <4>1
          <5> HIDE DEF T
          <5> QED  BY <5>1, LeastNumber
        <4>3. k # 1  BY <2>1, <1>1
        <4>4. k - 1 \in 1..(n - 1) /\ k - 1 \notin T  BY <4>2, <4>3, <3>2
        <4>5. list[k - 1] <= v /\ v <= list[k]  BY <4>4, <1>1
        <4> QED  BY <4>4, <4>5, <2>4
      <3> QED  BY <3>1, <3>2, <2>4, <1>1
    <2>6. n < Len(list) => v <= list[n + 1]  BY <2>4
    <2> QED  BY <2>4, <2>5, <2>6
  <1> QED  BY <1>2, <1>3, <1>4

\* An element added to the list leaves it as sorted as it was, a place shorter.
LEMMA AddKeepsOrder ==
  ASSUME Queue!TypeOK, Queue!InOrder, ~Queue!Full, NEW v \in Values, Queue!Add(v)
  PROVE  /\ list' \in Seq(Values) /\ Len(list') = Len(list) + 1 /\ Len(list') <= Capacity
         /\ Queue!InOrder'
  <1> DEFINE n == Queue!Position(v)
  <1>1. Len(list) \in Nat /\ \A i \in 1..Len(list) : list[i] \in Int
    BY QueueAssumption, ElementOfSeq, LenProperties DEF Queue!TypeOK
  <1>2. n \in 0..Len(list)  BY PositionProperties
  <1>3. list \in Seq(Values) /\ list' = Queue!Insert(list, n, v)  BY DEF Queue!TypeOK, Queue!Add
  <1> HIDE DEF n
  <1>4. /\ list' \in Seq(Values) /\ Len(list') = Len(list) + 1
        /\ \A i \in 1..(Len(list) + 1) :
              list'[i] = IF i <= n THEN list[i] ELSE IF i = n + 1 THEN v ELSE list[i - 1]
    <2> DEFINE whole == Queue!Insert(list, n, v)
    <2>1. /\ whole \in Seq(Values) /\ Len(whole) = Len(list) + 1
          /\ \A i \in 1..(Len(list) + 1) :
                whole[i] = IF i <= n THEN list[i] ELSE IF i = n + 1 THEN v ELSE list[i - 1]
      BY <1>2, <1>3, InsertProperties
    <2> HIDE DEF whole
    <2> QED  BY <1>3, <2>1 DEF whole
  <1>5. Len(list') <= Capacity
    BY <1>1, <1>4, QueueAssumption DEF Queue!TypeOK, Queue!Full
  <1>6. Queue!InOrder'
    <2> SUFFICES ASSUME Sorted, NEW i \in 1..Len(list) PROVE list'[i] <= list'[i + 1]
      BY <1>1, <1>4 DEF Queue!InOrder
    <2>1. v \in Int  BY QueueAssumption
    <2>2. (n > 0 => list[n] <= v) /\ (n < Len(list) => v <= list[n + 1])
      BY PositionProperties DEF n
    <2>3. i < Len(list) => list[i] <= list[i + 1]  BY <1>1 DEF Queue!InOrder
    <2>4. i > 1 => list[i - 1] <= list[i]  BY <1>1 DEF Queue!InOrder
    <2> QED  BY <1>1, <1>2, <1>4, <2>1, <2>2, <2>3, <2>4
  <1> QED  BY <1>4, <1>5, <1>6

\* The head taken from the list leaves the rest as it was.
LEMMA TakeKeepsOrder ==
  ASSUME Queue!TypeOK, Queue!InOrder, list # <<>>, Queue!TakeHead
  PROVE  /\ list' \in Seq(Values) /\ Len(list') = Len(list) - 1 /\ Len(list) \in Nat \ {0}
         /\ Queue!InOrder'
  <1>1. list \in Seq(Values) /\ list' = Tail(list)  BY DEF Queue!TypeOK, Queue!TakeHead
  <1>2. /\ list' \in Seq(Values) /\ Len(list') = Len(list) - 1
        /\ \A i \in 1..Len(list') : list'[i] = list[i + 1]
    BY <1>1, HeadTailProperties
  <1>3. Len(list) \in Nat \ {0}  BY <1>1, EmptySeq, LenProperties
  <1>4. Queue!InOrder'
    <2> SUFFICES ASSUME Sorted, NEW i \in 1..(Len(list') - 1) PROVE list'[i] <= list'[i + 1]
      BY DEF Queue!InOrder
    <2>1. list[i + 1] <= list[i + 2]  BY <1>2, <1>3 DEF Queue!InOrder
    <2> QED  BY <1>2, <1>3, <2>1
  <1> QED  BY <1>2, <1>3, <1>4

-----------------------------------------------------------------------------
\* The instance counts as the library does.
LEMMA SameCardinality == \A S : Queue!Cardinality(S) = Cardinality(S)
  BY Zenon DEF Queue!Cardinality, Queue!IsFiniteSet, Cardinality, IsFiniteSet

\* The callers in a wait, blocked or on their way, are finitely many.
LEMMA WaitersFinite ==
  ASSUME NEW wait
  PROVE  /\ IsFiniteSet(Queue!Coming(wait)) /\ Cardinality(Queue!Coming(wait)) \in Nat
  <1>1. Queue!Coming(wait) \subseteq Producers  BY DEF Queue!Coming, Queue!Waiting
  <1> QED  BY <1>1, FS_Subset, FS_CardinalityType, QueueAssumption

\* Nothing came into the list and no consumer's place changed.
LEMMA ConsumersLeft ==
  ASSUME Queue!ConsumerWakes, Len(list) \in Nat, Len(list') \in 0..Len(list),
         Queue!Waiting("get")' = Queue!Waiting("get"),
         Queue!Coming("get")' = Queue!Coming("get")
  PROVE  Queue!ConsumerWakes'
  <1>1. Queue!Blocked("get")' = Queue!Blocked("get")
    BY DEF Queue!Blocked, Queue!Coming
  <1> QED  BY <1>1, WaitersFinite, SameCardinality DEF Queue!ConsumerWakes

\* One element came, and one blocked consumer, if there was any, was signalled.
LEMMA ConsumerSignalled ==
  ASSUME Queue!ConsumerWakes, Len(list) \in Nat, Len(list') = Len(list) + 1,
         NEW others, others \cap Queue!Waiting("get") = Queue!Coming("get"),
         Queue!Waiting("get")' = Queue!Waiting("get"),
         Queue!Signal("get", others)
  PROVE  Queue!ConsumerWakes'
  <1>1. CASE Queue!Blocked("get") = {} /\ signalled' = others
    <2>1. Queue!Blocked("get")' = {}  BY <1>1 DEF Queue!Blocked, Queue!Coming
    <2> QED  BY <2>1 DEF Queue!ConsumerWakes
  <1>2. CASE \E t \in Queue!Blocked("get") : signalled' = others \cup {t}
    <2> PICK t \in Queue!Blocked("get") : signalled' = others \cup {t}  BY <1>2
    <2>1. t \notin Queue!Coming("get")  BY DEF Queue!Blocked, Queue!Coming
    <2>2. Queue!Coming("get")' = Queue!Coming("get") \cup {t}
      BY DEF Queue!Blocked, Queue!Coming
    <2>3. Cardinality(Queue!Coming("get")') = Cardinality(Queue!Coming("get")) + 1
      BY <2>1, <2>2, WaitersFinite, Enters
    <2>4. Len(list) <= Cardinality(Queue!Coming("get"))  BY SameCardinality DEF Queue!ConsumerWakes
    <2> QED  BY <2>3, <2>4, WaitersFinite, SameCardinality DEF Queue!ConsumerWakes
  <1> QED  BY <1>1, <1>2 DEF Queue!Signal

\* Whoever was signalled, no one fell asleep and no one stopped to notify.
LEMMA NobodyBlocks ==
  ASSUME Queue!ClosingWakes, allowed' = allowed,
         Queue!Blocked("get")' \subseteq Queue!Blocked("get"),
         Queue!Blocked("put")' \subseteq Queue!Blocked("put"),
         \A t \in Producers : queuePc[t] = "notify" => queuePc'[t] = "notify"
  PROVE  Queue!ClosingWakes'
  BY DEF Queue!ClosingWakes

LEMMA QueueInitIInv == Queue!Init => QueueIInv
  <1> SUFFICES ASSUME Queue!Init PROVE QueueIInv  OBVIOUS
  <1> USE DEF Queue!Init
  <1>1. list \in Seq(Values) /\ Len(list) = 0  BY EmptySeq
  <1>2. Queue!TypeOK
    <2>1. (CHOOSE v \in Values : TRUE) \in Values  BY QueueAssumption
    <2>2. allowed \in BOOLEAN  OBVIOUS
    <2> QED  BY <1>1, <2>1, <2>2, QueueAssumption DEF Queue!TypeOK
  <1>3. Queue!InOrder  BY <1>1 DEF Queue!InOrder
  <1>4. Queue!ConsumerWakes /\ Queue!ClosingWakes
    BY DEF Queue!ConsumerWakes, Queue!ClosingWakes, Queue!Blocked, Queue!Waiting
  <1> QED  BY <1>2, <1>3, <1>4 DEF QueueIInv

\* An idle caller that pushes or pops, or a flush: only the list and the
\* signals change.
LEMMA IdleIInv ==
  ASSUME QueueIInv, NEW t \in Producers,
         (\E v \in Values : Queue!Push(t, v)) \/ Queue!Pop(t) \/ Queue!Flush(t)
  PROVE  QueueIInv'
  <1> USE DEF QueueIInv
  <1>1. UNCHANGED <<allowed, queuePc, item>>
    BY DEF Queue!Push, Queue!Pop, Queue!Flush
  <1>2. \A wait : Queue!Waiting(wait)' = Queue!Waiting(wait)  BY <1>1 DEF Queue!Waiting
  <1>3. list \in Seq(Values) /\ Len(list) \in Nat /\ signalled \subseteq Queue!Waiting("get") \cup Queue!Waiting("put")
    BY LenProperties DEF Queue!TypeOK
  <1>4. Queue!Waiting("get") \cap Queue!Waiting("put") = {}  BY DEF Queue!Waiting
  <1>5. /\ signalled \subseteq signalled'
        /\ signalled' \subseteq Queue!Waiting("get") \cup Queue!Waiting("put")
    BY <1>3 DEF Queue!Push, Queue!Pop, Queue!Flush, Queue!Signal, Queue!Blocked
  <1>6. Queue!ClosingWakes'  BY <1>1, <1>2, <1>5, NobodyBlocks DEF Queue!Blocked
  <1> DEFINE Kept == /\ list' \in Seq(Values) /\ Len(list') <= Capacity
                     /\ Queue!InOrder' /\ Queue!ConsumerWakes'
  <1>7. Kept
    <2>1. ASSUME NEW v \in Values, Queue!Push(t, v) PROVE Kept
      <3>1. ~Queue!Full /\ Queue!Add(v) /\ Queue!Signal("get", signalled)  BY <2>1 DEF Queue!Push
      <3>2. /\ list' \in Seq(Values) /\ Len(list') = Len(list) + 1 /\ Len(list') <= Capacity
            /\ Queue!InOrder'
        BY <3>1, AddKeepsOrder
      <3>3. Queue!ConsumerWakes'
        <4>1. signalled \cap Queue!Waiting("get") = Queue!Coming("get")  BY DEF Queue!Coming
        <4> QED  BY <1>2, <1>3, <3>1, <3>2, <4>1, ConsumerSignalled
      <3> QED  BY <3>2, <3>3
    <2>2. CASE Queue!Pop(t)
      <3>1. list # <<>> /\ Queue!TakeHead /\ Queue!Signal("put", signalled)  BY <2>2 DEF Queue!Pop
      <3>2. /\ list' \in Seq(Values) /\ Len(list') = Len(list) - 1 /\ Len(list) \in Nat \ {0}
            /\ Queue!InOrder'
        BY <3>1, TakeKeepsOrder
      <3>3. Queue!ConsumerWakes'
        <4>1. Queue!Coming("get")' = Queue!Coming("get")
          BY <1>2, <1>4, <3>1 DEF Queue!Signal, Queue!Coming, Queue!Blocked
        <4> QED  BY <1>2, <1>3, <3>2, <4>1, ConsumersLeft
      <3> QED  BY <3>2, <3>3, QueueAssumption DEF Queue!TypeOK
    <2>3. CASE Queue!Flush(t)
      <3>1. list' = <<>> /\ Len(list') = 0 /\ signalled' = signalled  BY <2>3,
                                        EmptySeq DEF Queue!Flush
      <3>2. Queue!ConsumerWakes'
        <4>1. Queue!Coming("get")' = Queue!Coming("get")  BY <1>2, <3>1 DEF Queue!Coming
        <4> QED  BY <1>2, <1>3, <3>1, <4>1, ConsumersLeft
      <3> QED  BY <3>1, <3>2, EmptySeq, QueueAssumption DEF Queue!InOrder
    <2> QED  BY <2>1, <2>2, <2>3
  <1>8. Queue!TypeOK'  BY <1>1, <1>2, <1>5, <1>7 DEF Queue!TypeOK
  <1> QED  BY <1>6, <1>7, <1>8

\* An idle caller begins to wait, for an element while there is none.
LEMMA WaitIInv ==
  ASSUME QueueIInv, NEW t \in Producers,
         (\E v \in Values : Queue!PushWait(t, v)) \/ Queue!PopWait(t)
  PROVE  QueueIInv'
  <1> USE DEF QueueIInv
  <1>1. UNCHANGED <<list, allowed, signalled>> /\ allowed /\ queuePc[t] = "idle"
    BY DEF Queue!PushWait, Queue!PopWait
  <1>2. Queue!TypeOK'
    <2>1. queuePc' \in [Producers -> {"idle", "get", "put", "notify"}] /\ item' \in [Producers -> Values]
      BY DEF Queue!PushWait, Queue!PopWait, Queue!Goto, Queue!TypeOK
    <2>2. \A u \in signalled : queuePc'[u] = queuePc[u]
      BY <1>1 DEF Queue!PushWait, Queue!PopWait, Queue!Goto, Queue!TypeOK, Queue!Waiting
    <2> QED  BY <1>1, <2>1, <2>2 DEF Queue!TypeOK, Queue!Waiting
  <1>3. Queue!InOrder' /\ Queue!ClosingWakes'  BY <1>1 DEF Queue!InOrder, Queue!ClosingWakes
  <1>4. Queue!ConsumerWakes'
    <2>0. Len(list) \in Nat  BY LenProperties DEF Queue!TypeOK
    <2>1. CASE \E v \in Values : Queue!PushWait(t, v)
      <3>1. Queue!Waiting("get")' = Queue!Waiting("get")
        BY <1>1, <2>1 DEF Queue!PushWait, Queue!Goto, Queue!TypeOK, Queue!Waiting
      <3>2. Queue!Coming("get")' = Queue!Coming("get")  BY <1>1, <3>1 DEF Queue!Coming
      <3> QED  BY <1>1, <2>0, <3>1, <3>2, ConsumersLeft
    <2>2. CASE Queue!PopWait(t)
      <3>1. Len(list') = 0  BY <2>2, EmptySeq DEF Queue!PopWait
      <3>2. Cardinality(Queue!Coming("get")') \in Nat
        <4>1. Queue!Coming("get")' \subseteq Producers  BY DEF Queue!Coming, Queue!Waiting
        <4> QED  BY <4>1, FS_Subset, FS_CardinalityType, QueueAssumption
      <3> QED  BY <3>1, <3>2, SameCardinality DEF Queue!ConsumerWakes
    <2> QED  BY <2>1, <2>2
  <1> QED  BY <1>2, <1>3, <1>4

\* The flag is changed, and later its waiters are notified.
LEMMA AllowedIInv ==
  ASSUME QueueIInv, NEW t \in Producers,
         (\E on \in BOOLEAN : Queue!SetAllowed(t, on)) \/ Queue!Notify(t)
  PROVE  QueueIInv'
  <1> USE DEF QueueIInv
  <1>1. list' = list /\ item' = item /\ allowed' \in BOOLEAN
    BY DEF Queue!SetAllowed, Queue!Notify, Queue!TypeOK
  <1>2. \A wait \in {"get", "put"} : Queue!Waiting(wait)' = Queue!Waiting(wait)
    BY DEF Queue!SetAllowed, Queue!Notify, Queue!Goto, Queue!TypeOK, Queue!Waiting
  <1>3. queuePc' \in [Producers -> {"idle", "get", "put", "notify"}]
    BY DEF Queue!SetAllowed, Queue!Notify, Queue!Goto, Queue!TypeOK
  <1>4. \/ signalled' = signalled
        \/ signalled' = Queue!Waiting("get") \cup Queue!Waiting("put")
    BY DEF Queue!SetAllowed, Queue!Notify
  <1>5. Queue!TypeOK'  BY <1>1, <1>2, <1>3, <1>4 DEF Queue!TypeOK
  <1>6. Queue!InOrder'  BY <1>1 DEF Queue!InOrder
  <1>7. Queue!ConsumerWakes'
    <2>1. CASE signalled' = signalled
      <3>1. Queue!Coming("get")' = Queue!Coming("get")  BY <1>2, <2>1 DEF Queue!Coming
      <3>2. Len(list) \in Nat  BY LenProperties DEF Queue!TypeOK
      <3> QED  BY <1>1, <1>2, <3>1, <3>2, ConsumersLeft
    <2>2. CASE signalled' = Queue!Waiting("get") \cup Queue!Waiting("put")
      <3>1. Queue!Blocked("get")' = {}  BY <1>2, <2>2 DEF Queue!Blocked
      <3> QED  BY <3>1 DEF Queue!ConsumerWakes
    <2> QED  BY <1>4, <2>1, <2>2
  <1>8. Queue!ClosingWakes'
    <2>1. ASSUME NEW on \in BOOLEAN, Queue!SetAllowed(t, on) PROVE Queue!ClosingWakes'
      <3>1. queuePc'[t] = "notify"  BY <2>1 DEF Queue!SetAllowed, Queue!Goto, Queue!TypeOK
      <3> QED  BY <3>1 DEF Queue!ClosingWakes
    <2>2. CASE Queue!Notify(t) /\ ~allowed
      <3>1. Queue!Blocked("get")' = {} /\ Queue!Blocked("put")' = {}
        BY <1>2, <2>2 DEF Queue!Notify, Queue!Blocked
      <3> QED  BY <3>1 DEF Queue!ClosingWakes
    <2>3. CASE Queue!Notify(t) /\ allowed
      BY <2>3 DEF Queue!Notify, Queue!ClosingWakes
    <2> QED  BY <2>1, <2>2, <2>3
  <1> QED  BY <1>5, <1>6, <1>7, <1>8

\* A producer on its way: it finds the list full and blocks again, or the queue
\* closed and leaves, or room and pushes.
LEMMA PushResumeIInv ==
  ASSUME QueueIInv, NEW t \in Producers, Queue!PushResume(t)
  PROVE  QueueIInv'
  <1> USE DEF QueueIInv
  <1>1. /\ allowed' = allowed /\ item' = item /\ t \in signalled /\ queuePc[t] = "put"
        /\ queuePc' \in [Producers -> {"idle", "get", "put", "notify"}]
        /\ \A u \in Producers \ {t} : queuePc'[u] = queuePc[u]
        /\ queuePc'[t] \in {"idle", "put"}
    BY DEF Queue!PushResume, Queue!Coming, Queue!Waiting, Queue!Goto, Queue!TypeOK
  <1>2. /\ Queue!Waiting("get")' = Queue!Waiting("get")
        /\ Queue!Waiting("put")' \subseteq Queue!Waiting("put")
        /\ Queue!Waiting("put") \subseteq Queue!Waiting("put")' \cup {t}
        /\ t \notin Queue!Waiting("get")
    BY <1>1 DEF Queue!Waiting
  <1>3. Len(list) \in Nat /\ list \in Seq(Values)  BY LenProperties DEF Queue!TypeOK
  <1>4. (signalled \ {t}) \cap Queue!Waiting("get") = Queue!Coming("get")
    BY <1>2 DEF Queue!Coming
  <1> DEFINE Blocks == /\ Queue!Full /\ allowed /\ signalled' = signalled \ {t}
                       /\ UNCHANGED <<list, queuePc>>
             GivesUp == /\ ~allowed /\ queuePc'[t] = "idle"
                        /\ signalled' = signalled \ {t} /\ list' = list
             Pushes == /\ ~Queue!Full /\ allowed /\ queuePc'[t] = "idle"
                       /\ Queue!Add(item[t]) /\ Queue!Signal("get", signalled \ {t})
  <1>5. Blocks \/ GivesUp \/ Pushes
    BY DEF Queue!PushResume, Queue!Goto, Queue!TypeOK
  <1>6. /\ signalled \ {t} \subseteq signalled'
        /\ signalled' \subseteq (Queue!Waiting("get") \cup Queue!Waiting("put")) \ {t}
    BY <1>2, <1>5 DEF Queue!TypeOK, Queue!Signal, Queue!Blocked
  <1>7. /\ list' \in Seq(Values) /\ Len(list') <= Capacity /\ Queue!InOrder'
        /\ Queue!ConsumerWakes'
    <2>1. CASE Blocks \/ GivesUp
      <3>1. list' = list /\ Queue!Coming("get")' = Queue!Coming("get")
        BY <1>2, <1>4, <2>1 DEF Queue!Coming
      <3>2. Queue!ConsumerWakes'  BY <1>2, <1>3, <3>1, ConsumersLeft
      <3> QED  BY <3>1, <3>2 DEF Queue!TypeOK, Queue!InOrder
    <2>2. CASE Pushes
      <3>1. item[t] \in Values  BY DEF Queue!TypeOK
      <3>2. /\ list' \in Seq(Values) /\ Len(list') = Len(list) + 1 /\ Len(list') <= Capacity
            /\ Queue!InOrder'
        BY <2>2, <3>1, AddKeepsOrder
      <3>3. Queue!ConsumerWakes'  BY <1>2, <1>3, <1>4, <2>2, <3>2, ConsumerSignalled
      <3> QED  BY <3>2, <3>3
    <2> QED  BY <1>5, <2>1, <2>2
  <1>8. Queue!TypeOK'  BY <1>1, <1>2, <1>6, <1>7 DEF Queue!TypeOK
  <1>9. Queue!ClosingWakes'
    <2>1. CASE allowed  BY <1>1, <2>1 DEF Queue!ClosingWakes
    <2>2. CASE ~allowed
      <3>1. t \notin Queue!Waiting("put")'  BY <1>5, <2>2 DEF Queue!Waiting
      <3>2. /\ Queue!Blocked("get")' \subseteq Queue!Blocked("get")
            /\ Queue!Blocked("put")' \subseteq Queue!Blocked("put")
        BY <1>2, <1>6, <3>1 DEF Queue!Blocked
      <3> QED  BY <1>1, <3>2, NobodyBlocks
    <2> QED  BY <2>1, <2>2
  <1> QED  BY <1>7, <1>8, <1>9

\* A consumer on its way: it finds nothing and blocks again or leaves, or takes
\* the head.
LEMMA PopResumeIInv ==
  ASSUME QueueIInv, NEW t \in Producers, Queue!PopResume(t)
  PROVE  QueueIInv'
  <1> USE DEF QueueIInv
  <1>1. /\ allowed' = allowed /\ item' = item /\ t \in Queue!Coming("get")
        /\ queuePc[t] = "get" /\ t \in signalled
        /\ queuePc' \in [Producers -> {"idle", "get", "put", "notify"}]
        /\ \A u \in Producers \ {t} : queuePc'[u] = queuePc[u]
        /\ queuePc'[t] \in {"idle", "get"}
    BY DEF Queue!PopResume, Queue!Coming, Queue!Waiting, Queue!Goto, Queue!TypeOK
  <1>2. /\ Queue!Waiting("put")' = Queue!Waiting("put")
        /\ Queue!Waiting("get")' \subseteq Queue!Waiting("get")
        /\ Queue!Waiting("get") \subseteq Queue!Waiting("get")' \cup {t}
        /\ t \notin Queue!Waiting("put")
    BY <1>1 DEF Queue!Waiting
  <1>3. Len(list) \in Nat /\ list \in Seq(Values)  BY LenProperties DEF Queue!TypeOK
  <1> DEFINE Blocks == /\ list = <<>> /\ allowed /\ signalled' = signalled \ {t}
                       /\ UNCHANGED <<list, queuePc>>
             Gives  == /\ list = <<>> /\ ~allowed /\ queuePc'[t] = "idle"
                       /\ signalled' = signalled \ {t} /\ list' = list
             Takes  == /\ list # <<>> /\ queuePc'[t] = "idle"
                       /\ Queue!TakeHead /\ Queue!Signal("put", signalled \ {t})
  <1>4. Blocks \/ Gives \/ Takes
    BY DEF Queue!PopResume, Queue!Goto, Queue!TypeOK
  <1>5. /\ signalled \ {t} \subseteq signalled'
        /\ signalled' \subseteq (Queue!Waiting("get") \cup Queue!Waiting("put")) \ {t}
        /\ signalled' \cap Queue!Waiting("get") = (signalled \ {t}) \cap Queue!Waiting("get")
    BY <1>2, <1>4 DEF Queue!TypeOK, Queue!Signal, Queue!Blocked, Queue!Waiting
  <1>6. Queue!Coming("get")' = Queue!Coming("get") \ {t}
    BY <1>2, <1>5 DEF Queue!Coming
  <1>7. /\ Cardinality(Queue!Coming("get")') = Cardinality(Queue!Coming("get")) - 1
        /\ Cardinality(Queue!Coming("get")) \in Nat \ {0}
    BY <1>1, <1>6, WaitersFinite, Leaves
  <1>8. /\ list' \in Seq(Values) /\ Len(list') <= Capacity /\ Queue!InOrder'
        /\ Queue!ConsumerWakes'
    <2>1. CASE Blocks \/ Gives
      <3>1. list' = list /\ Len(list) = 0  BY <2>1, EmptySeq
      <3>2. Queue!ConsumerWakes'  BY <1>7, <3>1, SameCardinality DEF Queue!ConsumerWakes
      <3> QED  BY <1>3, <3>1, <3>2 DEF Queue!TypeOK, Queue!InOrder
    <2>2. CASE Takes
      <3>1. /\ list' \in Seq(Values) /\ Len(list') = Len(list) - 1 /\ Len(list) \in Nat \ {0}
            /\ Queue!InOrder'
        BY <2>2, TakeKeepsOrder
      <3>2. Queue!ConsumerWakes'
        <4>1. Queue!Blocked("get")' \subseteq Queue!Blocked("get")
          BY <1>2, <1>4, <1>5, <2>2 DEF Queue!Blocked, Queue!Waiting
        <4> QED  BY <1>3, <1>7, <3>1, <4>1, SameCardinality DEF Queue!ConsumerWakes
      <3> QED  BY <3>1, <3>2, QueueAssumption DEF Queue!TypeOK
    <2> QED  BY <1>4, <2>1, <2>2
  <1>9. Queue!TypeOK'  BY <1>1, <1>2, <1>5, <1>8 DEF Queue!TypeOK
  <1>10. Queue!ClosingWakes'
    <2>1. CASE allowed  BY <1>1, <2>1 DEF Queue!ClosingWakes
    <2>2. CASE ~allowed
      <3>1. t \notin Queue!Waiting("get")'  BY <1>4, <2>2 DEF Queue!Waiting
      <3>2. /\ Queue!Blocked("get")' \subseteq Queue!Blocked("get")
            /\ Queue!Blocked("put")' \subseteq Queue!Blocked("put")
        BY <1>2, <1>5, <3>1 DEF Queue!Blocked
      <3> QED  BY <1>1, <3>2, NobodyBlocks
    <2> QED  BY <2>1, <2>2
  <1> QED  BY <1>8, <1>9, <1>10

LEMMA QueueNextIInv == QueueIInv /\ [Queue!Next]_Queue!vars => QueueIInv'
  <1>1. ASSUME QueueIInv, UNCHANGED Queue!vars PROVE QueueIInv'
    <2>1. UNCHANGED <<list, allowed, queuePc, item, signalled>>  BY <1>1 DEF Queue!vars
    <2> QED  BY <1>1, <2>1 DEF QueueIInv, Queue!TypeOK, Queue!InOrder, Queue!ConsumerWakes,
                 Queue!ClosingWakes, Queue!Blocked, Queue!Coming, Queue!Waiting
  <1> QED  BY <1>1, IdleIInv, WaitIInv, AllowedIInv, PushResumeIInv, PopResumeIInv DEF Queue!Next

THEOREM QueueInvariance == Queue!Spec => []QueueIInv
  BY QueueInitIInv, QueueNextIInv, PTL DEF Queue!Spec

\* Every field keeps its type, the list within the capacity.
THEOREM QueueTypeCorrect == Queue!Spec => []Queue!TypeOK
  <1>1. QueueIInv => Queue!TypeOK  BY DEF QueueIInv
  <1> QED  BY <1>1, QueueInvariance, PTL

-----------------------------------------------------------------------------
(* The behaviours of MCTlsCalls. *)

\* A behaviour of the composition is one of each class, most of them idle.
THEOREM CallsAreBehaviours == CallsSpec => Spec /\ Thread!Spec /\ Queue!Spec
  <1>1. CallsInit => Init /\ Thread!Init /\ Queue!Init  BY DEF CallsInit
  <1>2. [CallsNext]_allVars => [Next]_vars /\ [Thread!Next]_Thread!vars /\ [Queue!Next]_Queue!vars
    BY DEF CallsNext, allVars, threadVars, queueVars, Thread!vars, Queue!vars
  <1> QED  BY <1>1, <1>2, PTL DEF CallsSpec, Spec, Thread!Spec, Queue!Spec

\* However a sorted queue is filled and emptied, it stays in order.
THEOREM QueueStaysInOrder == CallsSpec => []InOrder
  <1>1. QueueIInv => InOrder  BY DEF QueueIInv, InOrder
  <1> QED  BY <1>1, CallsAreBehaviours, QueueInvariance, PTL

\* A consumer sleeps only while as many are on their way as there are elements.
THEOREM OneSignalIsEnough == CallsSpec => []ConsumerWakes
  <1>1. QueueIInv => ConsumerWakes  BY DEF QueueIInv, ConsumerWakes
  <1> QED  BY <1>1, CallsAreBehaviours, QueueInvariance, PTL

\* In a closed queue nobody sleeps whom no notification will reach.
THEOREM ClosedQueueWakes == CallsSpec => []ClosingWakes
  <1>1. QueueIInv => ClosingWakes  BY DEF QueueIInv, ClosingWakes
  <1> QED  BY <1>1, CallsAreBehaviours, QueueInvariance, PTL

\* requestExitAndWait and join return only when the body is over.
THEOREM WaitsEndAfterBody == CallsSpec => WaitMeansOver
  BY CallsAreBehaviours, WaitEndsAfterBody, PTL DEF WaitMeansOver
=============================================================================
