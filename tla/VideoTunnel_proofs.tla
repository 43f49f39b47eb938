------------------------- MODULE VideoTunnel_proofs -------------------------
(***************************************************************************)
(* VideoTunnelImpl keeps its safety properties for every pool of buffers,  *)
(* every bound on the frame count and every set of faults.                 *)
(***************************************************************************)
EXTENDS VideoTunnel, FiniteSetTheorems, TLAPS

\* A call is in displayFrame exactly while it has a buffer to record, a thread
\* runs only once started, and it has a buffer from the dequeue to the release.
StepInv ==
    /\ phase = "insert" <=> inserting # NoBuffer
    /\ thread # "none" => started
    /\ thread \in {"fence", "lookup", "release"} => got \in Buffers

\* The counter is never behind the map: disconnect leaves it ahead.
CountInv ==
    /\ IsFiniteSet(map)
    /\ Cardinality(map) <= count
    /\ phase = "insert" => count < MaxCount

\* What is recorded, or taken out of the map by the thread, was reported.
ReportInv == \A b \in map \cup ReleaseSet : fate[b] = "displayed"

\* What the thread is busy with and the driver has all the same was queued again.
TwiceInv == thread \in {"fence", "lookup", "release"} /\ got \in consumer => got \in twice

\* The thread saw no frame: those there are now were recorded since.
LateInv == thread = "expired" => map \subseteq late

IInv == TypeOK /\ HeldOnce /\ StepInv /\ CountInv /\ ReportInv /\ TwiceInv /\ LateInv

-----------------------------------------------------------------------------
\* The initial states satisfy the invariant.
LEMMA InitIInv == Init => IInv
<1> SUFFICES ASSUME Init PROVE IInv
  OBVIOUS
<1>1. TypeOK
  <2>1. count \in 0..MaxCount
    BY CountAssumption DEF Init
  <2>2. /\ holder \in [Buffers -> {"player", "plugin"}]
        /\ fate \in [Buffers -> {"none", "displayed", "dropped"}]
    BY DEF Init
  <2>3. /\ inserting \in Buffers \cup {NoBuffer} /\ got \in Buffers \cup {NoBuffer}
        /\ map \in SUBSET Buffers /\ consumer \in SUBSET Buffers
        /\ late \in SUBSET Buffers /\ twice \in SUBSET Buffers /\ orphan \in SUBSET Buffers
        /\ lost \in BOOLEAN
    BY DEF Init
  <2>4. /\ connected \in BOOLEAN /\ started \in BOOLEAN /\ underflow \in BOOLEAN
        /\ flushing \in BOOLEAN /\ cut \in BOOLEAN
    BY DEF Init
  <2> QED BY <2>1, <2>2, <2>3, <2>4 DEF Init, TypeOK, ThreadPCs
<1>2. InsertSet = {} /\ ReleaseSet = {}
  BY DEF Init, InsertSet, ReleaseSet
<1>3. HeldOnce /\ StepInv /\ ReportInv /\ TwiceInv /\ LateInv
  BY <1>2 DEF Init, HeldOnce, StepInv, ReportInv, TwiceInv, LateInv
<1>4. CountInv
  BY FS_EmptySet DEF Init, CountInv
<1> QED BY <1>1, <1>3, <1>4 DEF IInv

\* Every step of the plugin and of its thread preserves the invariant.
LEMMA NextIInv == IInv /\ [Next]_vars => IInv'
<1> SUFFICES ASSUME IInv, [Next]_vars PROVE IInv'
  OBVIOUS
<1> USE NoBufferAssumption, CountAssumption
<1> USE DEF IInv, HeldOnce, StepInv, ReportInv, TwiceInv, InsertSet, ReleaseSet,
            playerVars, mapVars, threadVars, reportVars, histVars
<1>1. CASE OpenWindow
  BY <1>1 DEF OpenWindow, TypeOK, CountInv, LateInv
<1>2. ASSUME NEW b \in Buffers, QueueFrame(b) PROVE IInv'
  <2>1. TypeOK'
    BY <1>2 DEF QueueFrame, StartThread, DriverTakes, TypeOK, ThreadPCs
  <2>2. b \notin map /\ b \notin ReleaseSet
    BY <1>2 DEF QueueFrame, TypeOK
  <2>3. /\ thread' # thread => thread = "none" /\ thread' = "top"
        /\ consumer' \subseteq consumer \cup {b}
        /\ twice \subseteq twice'
        /\ b = got => b \in twice'
    BY <1>2 DEF QueueFrame, StartThread, DriverTakes, TypeOK
  <2>4. HeldOnce'
    BY <1>2, <2>2, <2>3 DEF QueueFrame, TypeOK
  <2>5. StepInv' /\ TwiceInv'
    <3>1. phase' = "insert" /\ inserting' = b /\ b # NoBuffer /\ started' = TRUE /\ got' = got
      BY <1>2 DEF QueueFrame, StartThread
    <3>2. StepInv'
      BY <2>3, <3>1
    <3>3. ASSUME thread' \in {"fence", "lookup", "release"}, got' \in consumer'
          PROVE  got' \in twice'
      <4>1. thread = thread'
        BY <2>3, <3>3
      <4>2. got \in consumer \/ got = b
        BY <2>3, <3>1, <3>3
      <4> QED BY <2>3, <3>1, <3>3, <4>1, <4>2
    <3> QED BY <3>2, <3>3 DEF TwiceInv
  <2>6. CountInv' /\ LateInv'
    BY <1>2, <2>3 DEF QueueFrame, CountInv, LateInv
  <2>7. ReportInv'
    BY <1>2, <2>2, <2>3 DEF QueueFrame, TypeOK
  <2> QED BY <2>1, <2>4, <2>5, <2>6, <2>7
<1>3. CASE InsertFrame
  <2>1. inserting \in Buffers /\ inserting \notin map
    BY <1>3 DEF InsertFrame, TypeOK
  <2>2. CountInv' /\ count' \in 0..MaxCount
    <3>1. /\ IsFiniteSet(map \cup {inserting})
          /\ Cardinality(map \cup {inserting}) = Cardinality(map) + 1
      BY <2>1, FS_AddElement DEF CountInv
    <3>2. Cardinality(map) \in Nat
      BY FS_CardinalityType DEF CountInv
    <3> QED BY <1>3, <3>1, <3>2 DEF InsertFrame, CountInv, TypeOK
  <2>3. TypeOK'
    BY <1>3, <2>1, <2>2 DEF InsertFrame, TypeOK, ThreadPCs
  <2>4. HeldOnce' /\ StepInv' /\ ReportInv' /\ TwiceInv'
    BY <1>3, <2>1 DEF InsertFrame, TypeOK
  <2>5. LateInv'
    BY <1>3 DEF InsertFrame, LateInv
  <2> QED BY <2>2, <2>3, <2>4, <2>5
<1>4. CASE Flush
  <2>1. TypeOK'
    BY <1>4 DEF Flush, DropAll, TypeOK, ThreadPCs
  <2>2. HeldOnce' /\ StepInv' /\ ReportInv' /\ TwiceInv' /\ LateInv'
    BY <1>4 DEF Flush, DropAll, TypeOK, LateInv
  <2>3. CountInv'
    BY <1>4, FS_EmptySet DEF Flush, DropAll, CountInv
  <2> QED BY <2>1, <2>2, <2>3
<1>5. CASE CloseWindow \/ AskRunning \/ JoinThread
  <2>1. /\ phase # "insert" /\ phase' # "insert"
        /\ phase' \in {"asked", "joining", "joined"}
        /\ lost' \in BOOLEAN /\ started' \in BOOLEAN /\ flushing' \in BOOLEAN
        /\ thread # "none" => started' = started
        /\ UNCHANGED <<inserting, connected, mapVars, underflow, threadVars, consumer, reportVars,
                       late, twice, orphan>>
    BY <1>5 DEF CloseWindow, AskRunning, JoinThread, TypeOK
  <2>2. TypeOK'
    BY <2>1 DEF TypeOK, ThreadPCs
  <2>3. HeldOnce' /\ StepInv' /\ ReportInv'
    BY <2>1
  <2>4. CountInv' /\ TwiceInv' /\ LateInv'
    BY <2>1 DEF CountInv, LateInv
  <2> QED BY <2>2, <2>3, <2>4
<1>6. CASE Disconnect
  <2>1. TypeOK'
    BY <1>6 DEF Disconnect, DropAll, TypeOK, ThreadPCs
  <2>2. HeldOnce' /\ StepInv' /\ ReportInv' /\ TwiceInv' /\ LateInv'
    BY <1>6 DEF Disconnect, DropAll, TypeOK, LateInv
  <2>3. CountInv'
    BY <1>6, FS_EmptySet DEF Disconnect, DropAll, CountInv, TypeOK
  <2> QED BY <2>1, <2>2, <2>3
<1>7. CASE ThreadStop \/ ThreadTop \/ FindsSome \/ Underflow \/ DequeueNothing \/ ThreadEnds
  <2>1. /\ thread \notin {"none", "release"} /\ thread' \notin {"expired", "release"}
        /\ thread' \in ThreadPCs /\ underflow' \in BOOLEAN /\ late' \in SUBSET Buffers
        /\ thread' \notin {"fence", "lookup"}
        /\ UNCHANGED <<playerVars, mapVars, got, fence, cut, consumer, reportVars, twice, orphan, lost>>
    BY <1>7 DEF ThreadStop, ThreadTop, FindsSome, Underflow, DequeueNothing, ThreadEnds,
                TypeOK, ThreadPCs
  <2>2. TypeOK'
    BY <2>1 DEF TypeOK
  <2>3. HeldOnce' /\ StepInv' /\ ReportInv'
    BY <2>1
  <2>4. CountInv' /\ TwiceInv' /\ LateInv'
    BY <2>1 DEF CountInv, LateInv
  <2> QED BY <2>2, <2>3, <2>4
<1>8. CASE FindsNone
  <2>1. map = {}
    <3>1. Cardinality(map) \in Nat
      BY FS_CardinalityType DEF CountInv
    <3>2. Cardinality(map) = 0
      BY <1>8, <3>1 DEF FindsNone, CountInv, TypeOK
    <3> QED BY <3>2, FS_EmptySet DEF CountInv
  <2> QED
    BY <1>8, <2>1 DEF FindsNone, TypeOK, ThreadPCs, CountInv, LateInv
<1>9. ASSUME NEW b \in Buffers, Dequeue(b) PROVE IInv'
  <2>1. TypeOK'
    BY <1>9 DEF Dequeue, TypeOK, ThreadPCs
  <2>2. HeldOnce' /\ StepInv' /\ ReportInv'
    BY <1>9 DEF Dequeue, TypeOK
  <2>3. CountInv' /\ TwiceInv' /\ LateInv'
    BY <1>9 DEF Dequeue, CountInv, LateInv
  <2> QED BY <2>1, <2>2, <2>3
<1>10. CASE FenceSignals \/ WaitFence \/ WaitTimeout
  <2>1. TypeOK'
    BY <1>10 DEF FenceSignals, WaitFence, WaitTimeout, TypeOK, ThreadPCs
  <2>2. HeldOnce' /\ StepInv' /\ ReportInv'
    BY <1>10 DEF FenceSignals, WaitFence, WaitTimeout
  <2>3. CountInv' /\ TwiceInv' /\ LateInv'
    BY <1>10 DEF FenceSignals, WaitFence, WaitTimeout, CountInv, LateInv
  <2> QED BY <2>1, <2>2, <2>3
<1>11. CASE Lookup
  <2>1. CASE got \in map
    <3>1. CountInv' /\ count' \in 0..MaxCount
      <4>1. /\ IsFiniteSet(map \ {got})
            /\ Cardinality(map \ {got}) = Cardinality(map) - 1
            /\ Cardinality(map) \in Nat
            /\ Cardinality(map \ {got}) \in Nat
        BY <2>1, FS_RemoveElement, FS_CardinalityType DEF CountInv
      <4>2. map' = map \ {got} /\ count' = count - 1 /\ phase' = phase
        BY <1>11, <2>1 DEF Lookup
      <4>3. count \in 0..MaxCount /\ Cardinality(map) <= count
        BY DEF CountInv, TypeOK
      <4>4. Cardinality(map) >= 1
        BY <4>1
      <4>5. count' \in 0..MaxCount /\ Cardinality(map \ {got}) <= count'
        BY <4>1, <4>2, <4>3, <4>4
      <4>6. phase = "insert" => count' < MaxCount
        BY <4>2, <4>3 DEF CountInv
      <4> QED BY <4>1, <4>2, <4>5, <4>6 DEF CountInv
    <3>2. TypeOK'
      BY <1>11, <2>1, <3>1 DEF Lookup, TypeOK, ThreadPCs
    <3>3. HeldOnce' /\ StepInv' /\ ReportInv' /\ TwiceInv' /\ LateInv'
      BY <1>11, <2>1 DEF Lookup, TypeOK, LateInv
    <3> QED BY <3>1, <3>2, <3>3
  <2>2. CASE got \notin map
    <3>1. TypeOK'
      BY <1>11, <2>2 DEF Lookup, TypeOK, ThreadPCs
    <3>2. CountInv'
      BY <1>11, <2>2 DEF Lookup, CountInv
    <3>3. HeldOnce' /\ StepInv' /\ ReportInv' /\ TwiceInv' /\ LateInv'
      BY <1>11, <2>2 DEF Lookup, TypeOK, LateInv
    <3> QED BY <3>1, <3>2, <3>3
  <2> QED BY <2>1, <2>2
<1>12. CASE Release
  BY <1>12 DEF Release, TypeOK, ThreadPCs, CountInv, LateInv
<1>13. CASE UNCHANGED vars
  BY <1>13 DEF vars, TypeOK, CountInv, LateInv
<1> QED
  BY <1>1, <1>2, <1>3, <1>4, <1>5, <1>6, <1>7, <1>8, <1>9, <1>10, <1>11, <1>12, <1>13
     DEF Next, ThreadStep

\* The invariant holds in every state.
THEOREM Invariance == Spec => []IInv
  BY InitIInv, NextIInv, PTL DEF Spec

-----------------------------------------------------------------------------
\* Every variable keeps its type: in particular mQueueFrameCnt never goes below
\* zero, whatever the driver returns and whenever the player flushes.
THEOREM TypeCorrect == Spec => []TypeOK
<1>1. IInv => TypeOK
  BY DEF IInv
<1> QED BY <1>1, Invariance, PTL

\* A buffer the plugin holds is in one place: it will be released exactly once.
THEOREM HeldInOnePlace == Spec => []HeldOnce
<1>1. IInv => HeldOnce
  BY DEF IInv
<1> QED BY <1>1, Invariance, PTL

\* A buffer goes back after its displayed callback, even if the driver returns it before
\* displayFrame has recorded it, and not while the driver has it, unless the player
\* queued it again over a flush that the thread had taken it out before.
THEOREM ReleaseIsDue == Spec => ReleasedWhenDue
<1> DEFINE Due == \A b \in Buffers : holder[b] = "plugin" /\ holder'[b] = "player" =>
               /\ fate[b] = "displayed"
               /\ b \in consumer' => b \in twice
<1>1. IInv /\ [Next]_vars => [Due]_vars
  <2> SUFFICES ASSUME IInv, Next PROVE Due
    OBVIOUS
  <2> USE DEF IInv, TypeOK, ReportInv, ReleaseSet, playerVars, mapVars, threadVars, reportVars, histVars
  <2>1. ASSUME NEW b \in Buffers, QueueFrame(b) PROVE Due
    BY <2>1 DEF QueueFrame
  <2>2. CASE Flush \/ Disconnect
    BY <2>2 DEF Flush, Disconnect, DropAll
  <2>3. CASE Release
    BY <2>3 DEF Release, StepInv, TwiceInv
  <2>4. ASSUME UNCHANGED holder PROVE Due
    BY <2>4
  <2>5. CASE OpenWindow \/ InsertFrame \/ CloseWindow \/ AskRunning \/ JoinThread \/ FenceSignals
    BY <2>4, <2>5 DEF OpenWindow, InsertFrame, CloseWindow, AskRunning, JoinThread, FenceSignals
  <2>6. CASE ThreadStop \/ ThreadTop \/ FindsNone \/ FindsSome \/ Underflow \/ DequeueNothing
    BY <2>4, <2>6 DEF ThreadStop, ThreadTop, FindsNone, FindsSome, Underflow, DequeueNothing
  <2>7. CASE WaitFence \/ WaitTimeout \/ Lookup \/ ThreadEnds
    BY <2>4, <2>7 DEF WaitFence, WaitTimeout, Lookup, ThreadEnds
  <2>8. ASSUME NEW b \in Buffers, Dequeue(b) PROVE Due
    BY <2>4, <2>8 DEF Dequeue
  <2> QED
    BY <2>1, <2>2, <2>3, <2>5, <2>6, <2>7, <2>8 DEF Next, ThreadStep
<1> QED
  BY <1>1, Invariance, PTL DEF Spec, ReleasedWhenDue

\* The underflow message finds no recorded frame but those that displayFrame has
\* recorded since the thread looked at mQueueFrameCnt, however far the counter of a
\* former session is ahead.
THEOREM UnderflowMeansEmpty == Spec => UnderflowWasEmpty
<1>1. IInv /\ [Next]_vars => [~underflow /\ underflow' => map \subseteq late]_vars
  <2> SUFFICES ASSUME IInv, Next, ~underflow, underflow' PROVE map \subseteq late
    OBVIOUS
  <2> USE DEF IInv, TypeOK, playerVars, mapVars, threadVars, reportVars, histVars
  <2>1. CASE Underflow
    BY <2>1 DEF Underflow, LateInv
  <2>2. ASSUME NEW b \in Buffers, QueueFrame(b) \/ Dequeue(b) PROVE FALSE
    BY <2>2 DEF QueueFrame, Dequeue
  <2>3. CASE OpenWindow \/ InsertFrame \/ Flush \/ Disconnect \/ FenceSignals
    BY <2>3 DEF OpenWindow, InsertFrame, Flush, Disconnect, FenceSignals
  <2>4. CASE CloseWindow \/ AskRunning \/ JoinThread
    BY <2>4 DEF CloseWindow, AskRunning, JoinThread
  <2>5. CASE ThreadStop \/ ThreadTop \/ FindsNone \/ FindsSome \/ DequeueNothing \/ ThreadEnds
    BY <2>5 DEF ThreadStop, ThreadTop, FindsNone, FindsSome, DequeueNothing, ThreadEnds
  <2>6. CASE WaitFence \/ WaitTimeout \/ Lookup \/ Release
    BY <2>6 DEF WaitFence, WaitTimeout, Lookup, Release
  <2> QED
    BY <2>1, <2>2, <2>3, <2>4, <2>5, <2>6 DEF Next, ThreadStep
<1> QED
  BY <1>1, Invariance, PTL DEF Spec, UnderflowWasEmpty
=============================================================================
