-------------------------- MODULE WstClient_proofs --------------------------
(***************************************************************************)
(* The westeros plugin keeps the player's contract for every pool of       *)
(* buffers, every assignment of display times and every set of faults.     *)
(* What it reports of a frame is what the server did with it, if no two    *)
(* frames have the same display time, and for a drop and for pause if no   *)
(* answer overtakes displayFrame.  The stream hands on whole messages, and *)
(* loses only those that were cut, for every size of a read.               *)
(***************************************************************************)
EXTENDS MCWstClient, SequenceTheorems, FiniteSetTheorems, TLAPS

\* A frame in displayFrame or in mDisplayedFrameMap is unreported; one in
\* mRenderBuffersMap only has been reported, or the socket thread is about to.
\* What the thread is about to report is told by where it is.
FateInv ==
    /\ \A b \in SentSet \cup toDisplay : fate[b] = "none"
    /\ \A b \in rendering \ toDisplay :
          fate[b] # "none" \/ (thread = "show" /\ subject = b)
    /\ thread = "show" =>
          subject \in rendering \ toDisplay /\ fate[subject] = "none"
    /\ thread = "drop" => fate[subject] = "none"
    /\ thread = "give" => fate[subject] # "none"

IInv == TypeOK /\ HeldOnce /\ LoopsEnd /\ FateInv

-----------------------------------------------------------------------------
\* The releases of a sequence of buffers are a sequence of messages.
LEMMA ReleasesType ==
  ASSUME NEW s \in Seq(Buffers)
  PROVE  Releases(s) \in Seq(Events)
  <1>1. \A i \in 1..Len(s) : Released(s[i]) \in Events
    BY ElementOfSeq DEF Events
  <1>2. Len(s) \in Nat  BY LenProperties
  <1> QED  BY <1>1, <1>2, IsASeq DEF Releases

\* The messages and the server's queue keep their types.
LEMMA StreamType ==
  ASSUME IInv, Next
  PROVE  events' \in Seq(Events) /\ queue' \in Seq(Buffers)
  <1> USE DEF IInv, TypeOK
  <1>1. CASE UNCHANGED <<events, queue>>
    BY <1>1
  <1>2. CASE Open
    BY <1>2 DEF Open
  <1>3. ASSUME NEW b \in Buffers, SendFrame(b)
        PROVE  events' \in Seq(Events) /\ queue' \in Seq(Buffers)
    BY <1>3, AppendProperties DEF SendFrame
  <1>4. CASE ServerFlushes
    <2>1. <<>> \in Seq(Buffers)  OBVIOUS
    <2>2. queue' \in Seq(Buffers)  BY <1>4 DEF ServerFlushes
    <2>3. CASE shown' = shown
      <3>1. events' = events \o Releases(queue)  BY <1>4, <2>3 DEF ServerFlushes
      <3> QED  BY <2>2, <3>1, ReleasesType, ConcatProperties
    <2>4. CASE shown' # shown
      <3>1. shown \in Buffers  BY <1>4, <2>4 DEF ServerFlushes
      <3>2. <<shown>> \in Seq(Buffers)  BY <3>1
      <3>3. <<shown>> \o queue \in Seq(Buffers)  BY <3>2, ConcatProperties
      <3>4. events' = events \o Releases(<<shown>> \o queue)
        BY <1>4, <2>4 DEF ServerFlushes
      <3>5. Releases(<<shown>> \o queue) \in Seq(Events)  BY <3>3, ReleasesType
      <3> QED  BY <2>2, <3>4, <3>5, ConcatProperties
    <2> QED  BY <2>3, <2>4
  <1>5. CASE Handle
    <2>1. events # <<>> /\ events' = Tail(events) /\ queue' = queue
      BY <1>5 DEF Handle, BufferRelease, FrameStatus, Handles, serverVars
    <2> QED  BY <2>1, HeadTailProperties
  <1>6. CASE ServerShows
    <2> DEFINE b == Head(queue)
               given == IF shown = NoBuffer THEN <<>> ELSE <<shown>>
    <2>1. b \in Buffers /\ queue' \in Seq(Buffers)
      BY <1>6, HeadTailProperties DEF ServerShows, Served
    <2>2. given \in Seq(Buffers)
      <3>1. CASE shown = NoBuffer  BY <3>1
      <3>2. CASE shown # NoBuffer  BY <3>2
      <3> QED  BY <3>1, <3>2
    <2>3. <<Status(b)>> \in Seq(Events)
      <3>1. Status(b) \in Events  BY <2>1 DEF Events
      <3> QED  BY <3>1
    <2>4. Releases(given) \in Seq(Events)  BY <2>2, ReleasesType
    <2>5. events' = events \o <<Status(b)>> \o Releases(given)
      BY <1>6 DEF ServerShows
    <2>6. events \o <<Status(b)>> \in Seq(Events)  BY <2>3, ConcatProperties
    <2> HIDE DEF b, given
    <2> QED  BY <2>1, <2>4, <2>5, <2>6, ConcatProperties
  <1>7. CASE ServerDrops
    <2>1. Head(queue) \in Buffers /\ queue' \in Seq(Buffers)
      BY <1>7, HeadTailProperties DEF ServerDrops, Served
    <2>2. Released(Head(queue)) \in Events  BY <2>1 DEF Events
    <2> QED  BY <1>7, <2>1, <2>2, AppendProperties DEF ServerDrops
  <1> QED
    BY <1>1, <1>2, <1>3, <1>4, <1>5, <1>6, <1>7
    DEF Next, PlayerStep, ThreadStep, RefuseFrame, RecordFrame, Flush, Pause, PauseSends,
        Resume, Close, Disconnect, Report, EndBatch, ThreadStops, serverVars

LEMMA InitIInv == Init => IInv
  <1> SUFFICES ASSUME Init PROVE IInv  OBVIOUS
  <1>1. TypeOK
    <2>1. events \in Seq(Events) /\ queue \in Seq(Buffers)  BY DEF Init
    <2>2. holder \in [Buffers -> Contract!Holders] /\ fate \in [Buffers -> Contract!Fates]
      BY DEF Init, Contract!Holders, Contract!Fates
    <2>3. paused \in BOOLEAN  BY Zenon DEF Init
    <2> QED  BY <2>1, <2>2, <2>3 DEF Init, TypeOK, ThreadPCs, Reporting
  <1>2. HeldOnce  BY DEF Init, HeldOnce, SentSet, GivingSet
  <1>3. LoopsEnd  BY DEF Init, LoopsEnd
  <1>4. FateInv  BY DEF Init, FateInv, SentSet
  <1> QED  BY <1>1, <1>2, <1>3, <1>4 DEF IInv

\* What the player does.
LEMMA PlayerIInv ==
  ASSUME IInv, PlayerStep
  PROVE  IInv'
  <1> USE NoBufferAssumption
          DEF IInv, TypeOK, HeldOnce, LoopsEnd, FateInv, SentSet, GivingSet,
              ThreadPCs, Reporting, Contract!Holders, Contract!Fates
  <1>1. events' \in Seq(Events) /\ queue' \in Seq(Buffers)
    BY StreamType DEF Next
  <1>2. CASE Open
    <2>1. thread = "none" /\ sending = NoBuffer /\ subject = NoBuffer
      BY <1>2 DEF Open
    <2>2. paused' \in BOOLEAN  BY <1>2, Zenon DEF Open
    <2>3. TypeOK'  BY <1>1, <1>2, <2>1, <2>2 DEF Open, reportVars
    <2>4. HeldOnce' /\ LoopsEnd' /\ FateInv'  BY <1>2, <2>1 DEF Open, reportVars
    <2> QED  BY <2>3, <2>4
  <1>3. ASSUME NEW b \in Buffers, RefuseFrame(b)
        PROVE  IInv'
    <2>1. b \notin rendering /\ b \notin SentSet /\ b \notin GivingSet
      BY <1>3 DEF RefuseFrame
    <2>2. b # subject \/ thread \notin Reporting
      BY <1>3, <2>1 DEF RefuseFrame
    <2> QED  BY <1>1, <1>3, <2>1, <2>2 DEF RefuseFrame, mapVars, threadVars, serverVars
  <1>4. ASSUME NEW b \in Buffers, SendFrame(b)
        PROVE  IInv'
    <2>1. b \notin rendering /\ b \notin GivingSet
      BY <1>4 DEF SendFrame
    <2>2. b # subject \/ thread \notin Reporting
      BY <1>4, <2>1 DEF SendFrame
    <2> QED  BY <1>1, <1>4, <2>1, <2>2 DEF SendFrame, mapVars, threadVars
  <1>5. CASE RecordFrame
    BY <1>1, <1>5 DEF RecordFrame, threadVars, serverVars, reportVars
  <1>6. CASE Flush
    BY <1>1, <1>6 DEF Flush, ServerFlushes, threadVars
  <1>7. CASE Pause \/ PauseSends \/ Resume \/ Close
    BY <1>1, <1>7 DEF Pause, PauseSends, Resume, Close, mapVars, threadVars, serverVars, reportVars
  <1>8. CASE Disconnect
    BY <1>1, <1>8 DEF Disconnect, threadVars, serverVars
  <1> QED  BY <1>2, <1>3, <1>4, <1>5, <1>6, <1>7, <1>8 DEF PlayerStep

\* What the socket thread and the server do.
LEMMA ThreadIInv ==
  ASSUME IInv, ThreadStep \/ ServerShows \/ ServerDrops
  PROVE  IInv'
  <1> USE NoBufferAssumption
          DEF IInv, TypeOK, HeldOnce, LoopsEnd, FateInv, SentSet, GivingSet,
              ThreadPCs, Reporting, Contract!Holders, Contract!Fates
  <1>1. events' \in Seq(Events) /\ queue' \in Seq(Buffers)
    BY StreamType DEF Next
  <1>2. ASSUME NEW b \in Buffers, BufferRelease(b)
        PROVE  IInv'
    <2>1. thread \in {"batch", "wait"}  BY <1>2 DEF BufferRelease, Handles
    <2> QED  BY <1>1, <1>2, <2>1 DEF BufferRelease, Handles, mapVars, serverVars, reportVars
  <1>3. ASSUME NEW b \in Buffers, FrameStatus(DisplayTime[b])
        PROVE  IInv'
    <2>1. thread \in {"batch", "wait"}  BY <1>3 DEF FrameStatus, Handles
    <2> QED  BY <1>1, <1>3, <2>1 DEF FrameStatus, Handles, serverVars, reportVars
  <1>4. CASE Report
    BY <1>1, <1>4 DEF Report, mapVars, serverVars
  <1>5. CASE EndBatch \/ ThreadStops
    BY <1>1, <1>5 DEF EndBatch, ThreadStops, mapVars, serverVars, reportVars
  <1>6. CASE ServerShows
    <2>1. Head(queue) \in Buffers  BY <1>6, HeadTailProperties DEF ServerShows, Served
    <2> QED  BY <1>1, <1>6, <2>1 DEF ServerShows, mapVars, threadVars, reportVars
  <1>7. CASE ServerDrops
    BY <1>1, <1>7 DEF ServerDrops, mapVars, threadVars, reportVars
  <1> QED  BY <1>2, <1>3, <1>4, <1>5, <1>6, <1>7 DEF ThreadStep, Handle

LEMMA NextIInv == IInv /\ [Next]_vars => IInv'
  <1>1. ASSUME IInv, UNCHANGED vars PROVE IInv'
    BY <1>1 DEF vars, mapVars, threadVars, serverVars, reportVars, IInv, TypeOK, HeldOnce,
                LoopsEnd, FateInv, SentSet, GivingSet
  <1> QED  BY <1>1, PlayerIInv, ThreadIInv DEF Next

-----------------------------------------------------------------------------
\* The invariant holds in every behaviour.
THEOREM Invariance == Spec => []IInv
  BY InitIInv, NextIInv, PTL DEF Spec

\* Every variable keeps its type, the relations of phase and thread included:
\* no socket thread is left when closeWindow has returned.
THEOREM TypeCorrect == Spec => []TypeOK
  <1>1. IInv => TypeOK  BY DEF IInv
  <1> QED  BY <1>1, Invariance, PTL

\* Every buffer the plugin holds is in one place: nothing is lost or released
\* twice, whatever the server answers and when.
THEOREM HeldInOnePlace == Spec => []HeldOnce
  <1>1. IInv => HeldOnce  BY DEF IInv
  <1> QED  BY <1>1, Invariance, PTL

\* The loops of flush and closeWindow over mDisplayedFrameMap end.
THEOREM LoopsDoEnd == Spec => []LoopsEnd
  <1>1. IInv => LoopsEnd  BY DEF IInv
  <1> QED  BY <1>1, Invariance, PTL

-----------------------------------------------------------------------------
(* The plugin implements the contract. *)

\* What the player does moves each buffer along an edge of the contract.
LEMMA PlayerEdges ==
  ASSUME IInv, PlayerStep, NEW b \in Buffers
  PROVE  Contract!Edge(b)
  <1> USE DEF IInv, TypeOK, HeldOnce, LoopsEnd, FateInv, SentSet, GivingSet, Reporting
  <1>1. CASE Open \/ RecordFrame \/ Pause \/ PauseSends \/ Resume \/ Close
    BY <1>1 DEF Open, RecordFrame, Pause, PauseSends, Resume, Close, reportVars,
                Contract!Edge, Contract!Keep
  <1>2. ASSUME NEW c \in Buffers, RefuseFrame(c)
        PROVE  Contract!Edge(b)
    BY <1>2 DEF RefuseFrame, Contract!Edge, Contract!Refuse, Contract!Keep
  <1>3. ASSUME NEW c \in Buffers, SendFrame(c)
        PROVE  Contract!Edge(b)
    BY <1>3 DEF SendFrame, Contract!Edge, Contract!Accept, Contract!Keep
  <1>4. CASE Flush
    BY <1>4 DEF Flush, Contract!Edge, Contract!Drop, Contract!Keep
  <1>5. CASE Disconnect
    <2>1. holder[b] = "plugin" <=> b \in rendering
      BY <1>5 DEF Disconnect
    <2>2. CASE b \in toDisplay
      BY <1>5, <2>1, <2>2 DEF Disconnect, Contract!Edge, Contract!Discard
    <2>3. CASE b \in rendering \ toDisplay
      BY <1>5, <2>1, <2>3 DEF Disconnect, Contract!Edge, Contract!Release
    <2>4. CASE b \notin rendering
      BY <1>5, <2>4 DEF Disconnect, Contract!Edge, Contract!Keep
    <2> QED  BY <2>2, <2>3, <2>4
  <1> QED  BY <1>1, <1>2, <1>3, <1>4, <1>5 DEF PlayerStep

\* So does what the socket thread reports; the server calls nobody back.
LEMMA ThreadEdges ==
  ASSUME IInv, ThreadStep \/ ServerShows \/ ServerDrops, NEW b \in Buffers
  PROVE  Contract!Edge(b)
  <1> USE DEF IInv, TypeOK, HeldOnce, LoopsEnd, FateInv, SentSet, GivingSet, Reporting
  <1>1. CASE Handle \/ EndBatch \/ ThreadStops \/ ServerShows \/ ServerDrops
    BY <1>1 DEF Handle, BufferRelease, FrameStatus, EndBatch, ThreadStops, ServerShows,
                ServerDrops, reportVars, Contract!Edge, Contract!Keep
  <1>2. CASE Report
    <2>1. CASE b # subject
      BY <1>2, <2>1 DEF Report, Contract!Edge, Contract!Keep
    <2>2. CASE b = subject /\ thread = "show"
      <3>1. holder[b] = "plugin" /\ fate[b] = "none"  BY <2>2
      <3> QED  BY <1>2, <2>2, <3>1 DEF Report, Contract!Edge, Contract!Display
    <2>3. CASE b = subject /\ thread = "drop"
      <3>1. holder[b] = "plugin" /\ fate[b] = "none"  BY <2>3
      <3> QED  BY <1>2, <2>3, <3>1 DEF Report, Contract!Edge, Contract!Discard
    <2>4. CASE b = subject /\ thread = "give"
      <3>1. holder[b] = "plugin" /\ fate[b] # "none"  BY <2>4
      <3> QED  BY <1>2, <2>4, <3>1 DEF Report, Contract!Edge, Contract!Release
    <2> QED  BY <1>2, <2>1, <2>2, <2>3, <2>4 DEF Report
  <1> QED  BY <1>1, <1>2 DEF ThreadStep

\* Nothing but closeWindow's return makes the window closed.
LEMMA ClosedStep ==
  ASSUME IInv, Next, phase' = "closed", NEW b \in Buffers
  PROVE  holder'[b] = "player"
  <1> USE DEF IInv, TypeOK, HeldOnce, SentSet, GivingSet, Reporting
  <1>1. CASE phase # "closed"
    <2>1. Disconnect
      BY <1>1 DEF Next, PlayerStep, ThreadStep, Handle, Open, RefuseFrame, SendFrame, RecordFrame,
                  Flush, Pause, PauseSends, Resume, Close, BufferRelease, FrameStatus, Report,
                  EndBatch, ThreadStops, ServerShows, ServerDrops
    <2> QED  BY <2>1, NoBufferAssumption DEF Disconnect, Contract!Holders
  <1>2. CASE phase = "closed"
    BY <1>2 DEF Next, PlayerStep, ThreadStep, Handle, Open, RefuseFrame, SendFrame, RecordFrame,
                Flush, Pause, PauseSends, Resume, Close, Disconnect, BufferRelease, FrameStatus,
                Handles, Report, EndBatch, ThreadStops, ServerShows, ServerDrops, Served
  <1> QED  BY <1>1, <1>2

\* The westeros plugin keeps the contract of a render plugin, with refused
\* frames and answers that overtake the recording of their frame.
THEOREM WesterosKeepsContract == Spec => KeepsContract
  <1>1. Init => Contract!ContractInit
    BY DEF Init, Contract!ContractInit
  <1>2. ASSUME IInv, [Next]_vars
        PROVE  [Contract!ContractNext]_Contract!contractVars
    <2>1. CASE Next
      <3>1. holder' \in [Buffers -> Contract!Holders] /\ fate' \in [Buffers -> Contract!Fates]
        BY <1>2, NextIInv DEF IInv, TypeOK
      <3>2. \A b \in Buffers : Contract!Edge(b)
        BY <1>2, <2>1, PlayerEdges, ThreadEdges DEF Next
      <3>3. phase' = "closed" => \A b \in Buffers : holder'[b] = "player"
        BY <1>2, <2>1, ClosedStep
      <3> QED  BY <3>1, <3>2, <3>3 DEF Contract!ContractNext, Contract!Windows
    <2>2. CASE UNCHANGED vars
      BY <2>2 DEF vars, reportVars, Contract!contractVars
    <2> QED  BY <1>2, <2>1, <2>2
  <1> QED  BY <1>1, <1>2, Invariance, PTL DEF Spec, KeepsContract, Contract!ContractSpec

-----------------------------------------------------------------------------
(* The frames and the messages of the server. *)

\* Every frame has a display time of its own, and the server answers a frame only
\* when displayFrame has recorded it.
DistinctTimes == \A b, c \in Buffers : DisplayTime[b] = DisplayTime[c] => b = c
NoOvertaking  == "instant" \notin Faults

\* The frames the server has to show, those in messages that give them back, and
\* those in messages that tell of their display.
Waiting   == {queue[i] : i \in DOMAIN queue}
Returned  == {b \in Buffers : \E i \in DOMAIN events : events[i] = Released(b)}
Announced == {b \in Buffers : \E i \in DOMAIN events : events[i] = Status(b)}

\* A frame is once with the server or in a message that gives it back, and is recorded
\* or just being recorded.
AwayInv ==
    /\ \A i, j \in DOMAIN queue : queue[i] = queue[j] => i = j
    /\ shown \notin Waiting
    /\ \A i, j \in DOMAIN events, b \in Buffers :
          events[i] = Released(b) /\ events[j] = Released(b) => i = j
    /\ Returned \cap (Waiting \cup {shown}) = {}
    /\ (Returned \cup Waiting \cup {shown}) \ {NoBuffer} \subseteq SentSet \cup rendering

\* The frame of a status was shown, and is given back after it if it was given back.
StatusInv ==
    \A b \in Buffers, i \in DOMAIN events :
       events[i] = Status(b) =>
          /\ b \in wasShown
          /\ shown = b \/ \E j \in DOMAIN events : i < j /\ events[j] = Released(b)

ShownInv ==
    /\ thread = "show" => subject \in wasShown
    /\ DisplayedWasShown

StreamInv == IF phase = "closed" THEN rendering = {} ELSE AwayInv /\ StatusInv /\ ShownInv

\* Of a server that answers only recorded frames: a frame it has still to show was
\* not shown and is to be displayed, or just being recorded; one that was shown and is
\* to be displayed has its status on the way.
OrderInv ==
    /\ SentSet \subseteq Waiting /\ Waiting \subseteq toDisplay \cup SentSet
    /\ Waiting \cap wasShown = {}
    /\ toDisplay \cap wasShown \subseteq Announced
    /\ \A i, j \in DOMAIN events, b \in Buffers :
          events[i] = Status(b) /\ events[j] = Status(b) => i = j

\* The frames whose display, or drop, mReadyDisplayFrameCnt still counts.
Owed     == toDisplay \cup Announced
CountInv == ready >= Cardinality(Owed)

OrderlyInv == phase # "closed" => OrderInv /\ CountInv /\ DroppedWasNotShown

\* Messages that give back the buffers of r, after those of e.
LEMMA GivenBack ==
  ASSUME NEW e \in Seq(Events), NEW r \in Seq(Buffers), NEW f, f = e \o Releases(r)
  PROVE  /\ f \in Seq(Events)
         /\ \A i \in DOMAIN e : i \in DOMAIN f /\ f[i] = e[i]
         /\ \A i \in DOMAIN f, b \in Buffers : f[i] = Status(b) => i \in DOMAIN e /\ e[i] = Status(b)
         /\ \A i \in DOMAIN f, b \in Buffers : f[i] = Released(b) =>
               \/ i \in DOMAIN e /\ e[i] = Released(b)
               \/ i - Len(e) \in DOMAIN r /\ r[i - Len(e)] = b
         /\ \A k \in DOMAIN r : /\ Len(e) + k \in DOMAIN f /\ f[Len(e) + k] = Released(r[k])
                                 /\ \A i \in DOMAIN e : i < Len(e) + k
  <1>1. Releases(r) \in Seq(Events)
    BY ReleasesType
  <1>2. f \in Seq(Events) /\ Len(f) = Len(e) + Len(Releases(r))
        /\ \A i \in 1..Len(f) : f[i] = IF i <= Len(e) THEN e[i] ELSE Releases(r)[i - Len(e)]
    BY <1>1, ConcatProperties
  <1>3. Len(Releases(r)) = Len(r) /\ Len(r) \in Nat /\ Len(e) \in Nat
        /\ \A i \in 1..Len(r) : Releases(r)[i] = Released(r[i])
    <2>1. Len(r) \in Nat  BY LenProperties
    <2> QED  BY <2>1, LenProperties DEF Releases
  <1>4. DOMAIN e = 1..Len(e) /\ DOMAIN f = 1..Len(f) /\ DOMAIN r = 1..Len(r)
    BY <1>2, LenProperties
  <1>5. \A b, c : /\ Status(b) # Released(c)
                  /\ Released(b) = Released(c) => b = c
    BY DEF Status, Released
  <1>6. \A i \in DOMAIN e : i \in DOMAIN f /\ f[i] = e[i]
    BY <1>2, <1>3, <1>4
  <1>7. ASSUME NEW i \in DOMAIN f
        PROVE  \/ i \in DOMAIN e /\ f[i] = e[i]
               \/ i - Len(e) \in DOMAIN r /\ f[i] = Released(r[i - Len(e)])
    BY <1>2, <1>3, <1>4
  <1>8. \A k \in DOMAIN r : /\ Len(e) + k \in DOMAIN f /\ f[Len(e) + k] = Released(r[k])
                            /\ \A i \in DOMAIN e : i < Len(e) + k
    <2> SUFFICES ASSUME NEW k \in 1..Len(r)
                 PROVE /\ Len(e) + k \in DOMAIN f /\ f[Len(e) + k] = Released(r[k])
                                                 /\ \A i \in DOMAIN e : i < Len(e) + k
      BY <1>4
    <2>1. Len(e) + k \in 1..Len(f) /\ Len(e) + k > Len(e) /\ (Len(e) + k) - Len(e) = k
      BY <1>2, <1>3
    <2> QED  BY <1>2, <1>3, <1>4, <2>1
  <1>9. ASSUME NEW i \in DOMAIN f, NEW b \in Buffers, f[i] = Status(b)
        PROVE  i \in DOMAIN e /\ e[i] = Status(b)
    <2>1. i - Len(e) \in DOMAIN r => r[i - Len(e)] \in Buffers
      BY ElementOfSeq, <1>4
    <2> QED  BY <1>5, <1>7, <1>9, <2>1
  <1>10. ASSUME NEW i \in DOMAIN f, NEW b \in Buffers, f[i] = Released(b)
         PROVE  \/ i \in DOMAIN e /\ e[i] = Released(b)
                \/ i - Len(e) \in DOMAIN r /\ r[i - Len(e)] = b
    BY <1>5, <1>7, <1>10
  <1> QED  BY <1>2, <1>6, <1>8, <1>9, <1>10

\* One message, or frame, at the end of a sequence.
LEMMA OneMore ==
  ASSUME NEW S, NEW e \in Seq(S), NEW m \in S, NEW f, f = Append(e, m) \/ f = e \o <<m>>
  PROVE  /\ f \in Seq(S) /\ Len(f) = Len(e) + 1 /\ Len(e) \in Nat
         /\ DOMAIN e = 1..Len(e) /\ DOMAIN f = 1..(Len(e) + 1)
         /\ \A i \in DOMAIN e : f[i] = e[i]
         /\ f[Len(e) + 1] = m
  <1>1. f = Append(e, m)
    OBVIOUS
  <1> QED  BY <1>1, AppendProperties, LenProperties

\* One from its beginning.
LEMMA OneLess ==
  ASSUME NEW S, NEW e \in Seq(S), e # <<>>, NEW f, f = Tail(e)
  PROVE  /\ f \in Seq(S) /\ Head(e) = e[1] /\ Len(e) \in Nat /\ Len(e) > 0
         /\ DOMAIN e = 1..Len(e) /\ DOMAIN f = 1..(Len(e) - 1)
         /\ \A i \in DOMAIN f : f[i] = e[i + 1]
  BY HeadTailProperties, LenProperties

-----------------------------------------------------------------------------
\* A status is no release, and a release names its buffer.
LEMMA Times == \A b, c \in Buffers : /\ Status(b) # Released(c)
                                     /\ Released(b) = Released(c) => b = c
  BY DEF Status, Released

\* Whatever moves no frame and no message.
LEMMA StreamKept ==
  ASSUME IInv, StreamInv, UNCHANGED <<queue, shown, events>>,
         wasShown \subseteq wasShown', SentSet \cup rendering \subseteq SentSet' \cup rendering',
         thread' = "show" => (thread = "show" /\ subject' = subject) \/ subject' \in wasShown,
         \A b \in Buffers : holder'[b] = "plugin" /\ fate'[b] = "displayed" =>
            \/ holder[b] = "plugin" /\ fate[b] = "displayed"
            \/ b \in wasShown,
         phase # "closed", phase' # "closed"
  PROVE  StreamInv'
  <1>1. AwayInv'
    BY DEF StreamInv, AwayInv, Waiting, Returned, Released
  <1>2. StatusInv'
    BY DEF StreamInv, StatusInv, Status, Released
  <1>3. ShownInv'
    BY DEF StreamInv, ShownInv, DisplayedWasShown
  <1> QED  BY <1>1, <1>2, <1>3 DEF StreamInv

\* The server shows a frame, gives frames back, or both: some leave its queue, and
\* s, given back by the messages r, is what it had of them.
LEMMA StreamServed ==
  ASSUME DistinctTimes, IInv, StreamInv, phase # "closed",
          UNCHANGED <<phase, sending, rendering, thread, subject, holder>>,
         \A b \in Buffers : fate'[b] = "displayed" => fate[b] = "displayed",
         wasShown \subseteq wasShown',
         NEW e \in Seq(Events), NEW r \in Seq(Buffers), events' = e \o Releases(r),
         NEW gone, gone = {r[k] : k \in DOMAIN r},
         \A i \in DOMAIN events : i \in DOMAIN e /\ e[i] = events[i],
         \A i \in DOMAIN e \ DOMAIN events : \E b \in Buffers :
            /\ e[i] = Status(b) /\ b \in wasShown'
            /\ shown' = b \/ b \in gone,
         \A k, n \in DOMAIN r : r[k] = r[n] => k = n,
         \A i, j \in DOMAIN queue' : queue'[i] = queue'[j] => i = j,
         Waiting' \subseteq Waiting, shown' \notin Waiting', shown' \in Waiting \cup {shown,
         NoBuffer},
         gone \subseteq Waiting \cup {shown},
         gone \cap (Waiting' \cup {shown'}) = {}, shown \in {shown', NoBuffer} \cup gone
  PROVE  StreamInv'
  <1> DEFINE f == e \o Releases(r)
  <1>1. /\ f \in Seq(Events)
        /\ \A i \in DOMAIN e : i \in DOMAIN f /\ f[i] = e[i]
        /\ \A i \in DOMAIN f, b \in Buffers : f[i] = Status(b) => i \in DOMAIN e /\ e[i] = Status(b)
        /\ \A i \in DOMAIN f, b \in Buffers : f[i] = Released(b) =>
               \/ i \in DOMAIN e /\ e[i] = Released(b)
               \/ i - Len(e) \in DOMAIN r /\ r[i - Len(e)] = b
        /\ \A k \in DOMAIN r : /\ Len(e) + k \in DOMAIN f /\ f[Len(e) + k] = Released(r[k])
                                /\ \A i \in DOMAIN e : i < Len(e) + k
    BY GivenBack
  <1>2. events' = f  OBVIOUS
  <1> HIDE DEF f
  <1>3. AwayInv /\ StatusInv /\ ShownInv
    BY DEF StreamInv
  <1>4. \A i \in DOMAIN e, b \in Buffers : e[i] = Released(b) => i \in DOMAIN events /\ events[i] = Released(b)
    BY Times
  <1>5. \A i \in DOMAIN f : i \in Int
    BY <1>1, LenProperties
  <1>6. Len(e) \in Int  BY LenProperties
  <1>7. ASSUME NEW b \in Buffers, NEW i \in DOMAIN f, f[i] = Released(b)
        PROVE  \/ i \in DOMAIN events /\ events[i] = Released(b) /\ b \in Returned
                  /\ b \notin gone
               \/ i - Len(e) \in DOMAIN r /\ r[i - Len(e)] = b /\ b \notin Returned
    <2>1. i \in DOMAIN events /\ events[i] = Released(b) => b \in Returned
      BY DEF Returned
    <2>2. b \in Returned => b \notin gone
      BY <1>3 DEF AwayInv
    <2>3. i - Len(e) \in DOMAIN r /\ r[i - Len(e)] = b => b \in gone
      OBVIOUS
    <2> QED  BY <1>1, <1>4, <1>7, <2>1, <2>2, <2>3
  <1>8. ASSUME NEW i \in DOMAIN f, NEW j \in DOMAIN f, NEW b \in Buffers,
               f[i] = Released(b), f[j] = Released(b)
        PROVE  i = j
    <2>1. CASE b \in Returned
      BY <1>3, <1>7, <1>8, <2>1 DEF AwayInv
    <2>2. CASE b \notin Returned
      <3>1. i - Len(e) = j - Len(e)
        BY <1>7, <1>8, <2>2
      <3> QED  BY <1>5, <1>6, <3>1
    <2> QED  BY <2>1, <2>2
  <1>9. ASSUME NEW b \in gone, NEW i \in DOMAIN e
        PROVE  \E j \in DOMAIN f : i < j /\ f[j] = Released(b)
    BY <1>1
  <1>10. Returned' \subseteq Returned \cup gone
    BY <1>2, <1>7 DEF Returned, Released
  <1>11. AwayInv'
    <2>1. Returned' \cap (Waiting' \cup {shown'}) = {}
      BY <1>3, <1>10, NoBufferAssumption DEF AwayInv, Returned
    <2>2. (Returned' \cup Waiting' \cup {shown'}) \ {NoBuffer} \subseteq (Returned \cup Waiting \cup {shown}) \ {NoBuffer}
      BY <1>10
    <2>3. SentSet' = SentSet
      BY DEF SentSet
    <2>4. \A i, j \in DOMAIN events', b \in Buffers :
            events'[i] = Released(b) /\ events'[j] = Released(b) => i = j
      BY <1>2, <1>8
    <2> QED  BY <1>3, <2>1, <2>2, <2>3, <2>4 DEF AwayInv, Released
  <1>12. StatusInv'
    <2> SUFFICES ASSUME NEW b \in Buffers, NEW i \in DOMAIN f, f[i] = Status(b)
                 PROVE  /\ b \in wasShown'
                        /\ shown' = b \/ \E j \in DOMAIN f : i < j /\ f[j] = Released(b)
      BY <1>2 DEF StatusInv, Status, Released
    <2>1. i \in DOMAIN e /\ e[i] = Status(b)
      BY <1>1
    <2>2. CASE i \in DOMAIN events
      <3>1. events[i] = Status(b)
        BY <2>1, <2>2
      <3>2. b \in wasShown /\ (shown = b \/ \E j \in DOMAIN events : i < j /\ events[j] = Released(b))
        BY <1>3, <2>2, <3>1 DEF StatusInv
      <3>3. CASE shown = b
        <4>1. shown' = b \/ b \in gone
          BY <3>3, NoBufferAssumption
        <4> QED  BY <1>9, <2>1, <3>2, <4>1
      <3>4. CASE \E j \in DOMAIN events : i < j /\ events[j] = Released(b)
        BY <1>1, <3>2, <3>4
      <3> QED  BY <3>2, <3>3, <3>4
    <2>3. CASE i \notin DOMAIN events
      <3>1. PICK c \in Buffers : /\ e[i] = Status(c) /\ c \in wasShown'
                                 /\ shown' = c \/ c \in gone
        BY <2>1, <2>3
      <3>2. b = c
        BY <2>1, <3>1 DEF DistinctTimes, Status
      <3> QED  BY <1>9, <2>1, <3>1, <3>2
    <2> QED  BY <2>2, <2>3
  <1>13. ShownInv'
    BY <1>3 DEF ShownInv, DisplayedWasShown
  <1> QED  BY <1>11, <1>12, <1>13 DEF StreamInv

\* The server takes the next of its frames.
LEMMA QueueAdvances ==
  ASSUME IInv, AwayInv, queue # <<>>, queue' = Tail(queue)
  PROVE  /\ Head(queue) \in Buffers
         /\ Waiting = Waiting' \cup {Head(queue)} /\ Head(queue) \notin Waiting'
         /\ \A i, j \in DOMAIN queue' : queue'[i] = queue'[j] => i = j
  <1>1. queue \in Seq(Buffers)
    BY DEF IInv, TypeOK
  <1> DEFINE q == queue'
  <1>2. /\ Head(queue) = queue[1] /\ Len(queue) \in Nat /\ Len(queue) > 0
        /\ DOMAIN queue = 1..Len(queue) /\ DOMAIN q = 1..(Len(queue) - 1)
        /\ \A i \in DOMAIN q : q[i] = queue[i + 1]
    BY <1>1, OneLess
  <1>3. \A i, j \in DOMAIN queue : queue[i] = queue[j] => i = j
    BY DEF AwayInv
  <1>4. Waiting' = {q[i] : i \in DOMAIN q}
    BY DEF Waiting
  <1> HIDE DEF q
  <1>5. 1 \in DOMAIN queue /\ \A i \in DOMAIN q : i \in Int /\ i + 1 \in DOMAIN queue /\ i + 1 # 1
    BY <1>2
  <1>6. Head(queue) \in Buffers /\ Head(queue) \in Waiting
    BY <1>1, <1>2, <1>5, ElementOfSeq DEF Waiting
  <1>7. Head(queue) \notin Waiting'
    BY <1>2, <1>3, <1>4, <1>5
  <1>8. ASSUME NEW i \in DOMAIN q, NEW j \in DOMAIN q, q[i] = q[j] PROVE i = j
    <2>1. i + 1 = j + 1
      BY <1>2, <1>3, <1>5, <1>8
    <2> QED  BY <1>5, <2>1
  <1>9. ASSUME NEW k \in DOMAIN queue PROVE queue[k] = Head(queue) \/ queue[k] \in Waiting'
    <2>1. CASE k = 1
      BY <1>2, <2>1
    <2>2. CASE k # 1
      <3>1. k - 1 \in DOMAIN q /\ (k - 1) + 1 = k
        BY <1>2, <2>2
      <3> QED  BY <1>2, <1>4, <3>1
    <2> QED  BY <2>1, <2>2
  <1>10. Waiting' \subseteq Waiting
    BY <1>2, <1>4, <1>5 DEF Waiting
  <1>11. Waiting \subseteq Waiting' \cup {Head(queue)}
    BY <1>9 DEF Waiting
  <1> QED  BY <1>6, <1>7, <1>8, <1>10, <1>11 DEF q

\* A frame is sent to it.
LEMMA QueueGrows ==
  ASSUME queue \in Seq(Buffers), NEW b \in Buffers, queue' = Append(queue, b)
  PROVE  /\ Waiting' = Waiting \cup {b}
         /\ AwayInv /\ b \notin Waiting => \A i, j \in DOMAIN queue' : queue'[i] = queue'[j] => i = j
  <1> DEFINE q == queue'
  <1>1. /\ Len(queue) \in Nat /\ DOMAIN queue = 1..Len(queue) /\ DOMAIN q = 1..(Len(queue) + 1)
        /\ \A i \in DOMAIN queue : q[i] = queue[i]
        /\ q[Len(queue) + 1] = b
    BY OneMore
  <1>2. Waiting' = {q[i] : i \in DOMAIN q}
    BY DEF Waiting
  <1> HIDE DEF q
  <1>3. Waiting' = Waiting \cup {b}
    <2>1. \A i \in DOMAIN q : i \in DOMAIN queue \/ i = Len(queue) + 1
      BY <1>1
    <2>2. DOMAIN queue \subseteq DOMAIN q /\ Len(queue) + 1 \in DOMAIN q
      BY <1>1
    <2> QED  BY <1>1, <1>2, <2>1, <2>2 DEF Waiting
  <1>4. AwayInv /\ b \notin Waiting => \A i, j \in DOMAIN q : q[i] = q[j] => i = j
    BY <1>1 DEF AwayInv, Waiting
  <1> QED  BY <1>3, <1>4 DEF q

\* A frame given back alone.
LEMMA OneRelease ==
  ASSUME NEW b \in Buffers, events \in Seq(Events)
  PROVE  Append(events, Released(b)) = events \o Releases(<<b>>)
  <1> DEFINE given == <<b>>
  <1>1. Len(given) = 1 /\ given[1] = b
    OBVIOUS
  <1> HIDE DEF given
  <1>2. Releases(given) = [i \in 1..1 |-> Released(b)]
    BY <1>1 DEF Releases
  <1>3. [i \in 1..1 |-> Released(b)] = <<Released(b)>>
    OBVIOUS
  <1>4. Append(events, Released(b)) = events \o <<Released(b)>>
    OBVIOUS
  <1> QED  BY <1>2, <1>3, <1>4 DEF given

\* ServerShows, ServerDrops and Flush move frames from the server to the messages.
LEMMA StreamShows == ASSUME DistinctTimes, IInv, StreamInv, ServerShows PROVE StreamInv'
  <1> DEFINE b     == Head(queue)
             given == IF shown = NoBuffer THEN <<>> ELSE <<shown>>
             gone  == {given[k] : k \in DOMAIN given}
             e     == events \o <<Status(b)>>
  <1>1. /\ phase # "closed" /\ queue # <<>> /\ queue' = Tail(queue)
        /\ shown' = b /\ wasShown' = wasShown \cup {b}
        /\ events' = e \o Releases(given)
        /\ UNCHANGED <<phase, sending, rendering, thread, subject, holder, fate>>
    BY DEF ServerShows, Served, mapVars, threadVars, reportVars
  <1>2. AwayInv /\ events \in Seq(Events) /\ shown \in Buffers \cup {NoBuffer}
    BY <1>1 DEF StreamInv, IInv, TypeOK
  <1>3. /\ b \in Buffers /\ Waiting = Waiting' \cup {b} /\ b \notin Waiting'
        /\ \A i, j \in DOMAIN queue' : queue'[i] = queue'[j] => i = j
    BY <1>1, <1>2, QueueAdvances
  <1>4. /\ given \in Seq(Buffers) /\ gone = {shown} \ {NoBuffer}
        /\ \A k, n \in DOMAIN given : given[k] = given[n] => k = n
    <2>1. CASE shown = NoBuffer
      BY <2>1
    <2>2. CASE shown # NoBuffer
      <3>1. given = <<shown>> /\ shown \in Buffers
        BY <1>2, <2>2
      <3> QED  BY <2>2, <3>1
    <2> QED  BY <2>1, <2>2
  <1>5. /\ e \in Seq(Events)
        /\ \A i \in DOMAIN events : i \in DOMAIN e /\ e[i] = events[i]
        /\ \A i \in DOMAIN e \ DOMAIN events : e[i] = Status(b)
    <2>1. Status(b) \in Events
      BY <1>3 DEF Events
    <2>2. /\ e \in Seq(Events) /\ Len(events) \in Nat
          /\ DOMAIN events = 1..Len(events) /\ DOMAIN e = 1..(Len(events) + 1)
          /\ \A i \in DOMAIN events : e[i] = events[i]
          /\ e[Len(events) + 1] = Status(b)
      BY <1>2, <2>1, OneMore
    <2> QED  BY <2>2
  <1>6. shown \notin Waiting
    BY <1>2 DEF AwayInv
  <1>7. gone = {given[k] : k \in DOMAIN given}
    OBVIOUS
  <1> HIDE DEF b, given, e, gone
  <1>8. \A i \in DOMAIN e \ DOMAIN events : \E c \in Buffers :
            e[i] = Status(c) /\ c \in wasShown' /\ (shown' = c \/ c \in gone)
    BY <1>1, <1>3, <1>5
  <1>9. /\ Waiting' \subseteq Waiting /\ shown' \notin Waiting'
        /\ shown' \in Waiting \cup {shown, NoBuffer}
        /\ gone \subseteq Waiting \cup {shown} /\ gone \cap (Waiting' \cup {shown'}) = {}
        /\ shown \in {shown', NoBuffer} \cup gone
    BY <1>1, <1>3, <1>4, <1>6
  <1> QED  BY <1>1, <1>3, <1>4, <1>5, <1>7, <1>8, <1>9, StreamServed

LEMMA StreamDrops == ASSUME DistinctTimes, IInv, StreamInv, ServerDrops PROVE StreamInv'
  <1> DEFINE b     == Head(queue)
             given == <<b>>
             gone  == {given[k] : k \in DOMAIN given}
  <1>1. /\ phase # "closed" /\ queue # <<>> /\ queue' = Tail(queue)
        /\ events' = Append(events, Released(b))
        /\ UNCHANGED <<phase, sending, rendering, thread, subject, holder, fate, shown, wasShown>>
    BY DEF ServerDrops, Served, mapVars, threadVars, reportVars
  <1>2. AwayInv /\ events \in Seq(Events) /\ shown \in Buffers \cup {NoBuffer}
    BY <1>1 DEF StreamInv, IInv, TypeOK
  <1>3. /\ b \in Buffers /\ Waiting = Waiting' \cup {b} /\ b \notin Waiting'
        /\ \A i, j \in DOMAIN queue' : queue'[i] = queue'[j] => i = j
    BY <1>1, <1>2, QueueAdvances
  <1>4. /\ given \in Seq(Buffers) /\ gone = {b}
        /\ \A k, n \in DOMAIN given : given[k] = given[n] => k = n
    BY <1>3
  <1>5. events' = events \o Releases(given)
    BY <1>1, <1>2, <1>3, OneRelease
  <1>6. shown \notin Waiting
    BY <1>2 DEF AwayInv
  <1>7. gone = {given[k] : k \in DOMAIN given}
    OBVIOUS
  <1> HIDE DEF b, given, gone
  <1>8. /\ Waiting' \subseteq Waiting /\ shown' \notin Waiting'
        /\ shown' \in Waiting \cup {shown, NoBuffer}
        /\ gone \subseteq Waiting \cup {shown} /\ gone \cap (Waiting' \cup {shown'}) = {}
        /\ shown \in {shown', NoBuffer} \cup gone
    BY <1>1, <1>3, <1>4, <1>6
  <1> QED  BY <1>1, <1>2, <1>3, <1>4, <1>5, <1>7, <1>8, StreamServed

LEMMA StreamFlushed == ASSUME DistinctTimes, IInv, StreamInv, Flush PROVE StreamInv'
  <1> DEFINE given == IF shown' = shown THEN queue ELSE <<shown>> \o queue
             gone  == {given[k] : k \in DOMAIN given}
  <1>1. /\ phase = "open" /\ queue' = <<>> /\ shown' \in {shown, NoBuffer}
        /\ events' = events \o Releases(given)
        /\ UNCHANGED <<phase, sending, rendering, thread, subject, holder, wasShown>>
        /\ \A c \in Buffers : fate'[c] = "displayed" => fate[c] = "displayed"
    BY DEF Flush, ServerFlushes, threadVars, IInv, TypeOK
  <1>2. /\ AwayInv /\ events \in Seq(Events) /\ queue \in Seq(Buffers)
        /\ shown \in Buffers \cup {NoBuffer}
    BY <1>1 DEF StreamInv, IInv, TypeOK
  <1>3. Waiting' = {}
    BY <1>1 DEF Waiting
  <1>4. /\ DOMAIN queue = 1..Len(queue) /\ Len(queue) \in Nat
        /\ \A i, j \in DOMAIN queue : queue[i] = queue[j] => i = j
        /\ shown \notin Waiting
    BY <1>2, LenProperties DEF AwayInv
  <1>5. /\ given \in Seq(Buffers)
        /\ \A k, n \in DOMAIN given : given[k] = given[n] => k = n
        /\ gone = Waiting \cup ({shown} \ {shown'})
    <2>1. CASE shown' = shown
      BY <1>2, <1>4, <2>1 DEF Waiting
    <2>2. CASE shown' # shown
      <3>1. shown \in Buffers /\ shown' = NoBuffer
        BY <1>1, <1>2, <2>2
      <3>2. <<shown>> \in Seq(Buffers) /\ Len(<<shown>>) = 1 /\ <<shown>>[1] = shown
        BY <3>1
      <3>3. /\ given \in Seq(Buffers) /\ Len(given) = 1 + Len(queue)
            /\ \A k \in 1..Len(given) : given[k] = IF k <= 1 THEN <<shown>>[k] ELSE queue[k - 1]
        BY <1>2, <2>2, <3>2, ConcatProperties
      <3> HIDE DEF given
      <3>4. DOMAIN given = 1..(1 + Len(queue))
        BY <3>3, LenProperties
      <3>5. /\ 1 \in DOMAIN given /\ given[1] = shown
            /\ \A k \in DOMAIN given : k # 1 => k - 1 \in DOMAIN queue /\ given[k] = queue[k - 1]
            /\ \A k \in DOMAIN queue : k + 1 \in DOMAIN given /\ given[k + 1] = queue[k]
        BY <1>4, <3>2, <3>3, <3>4
      <3>6. \A k \in DOMAIN queue : queue[k] # shown
        BY <1>4 DEF Waiting
      <3>7. ASSUME NEW k \in DOMAIN given, NEW n \in DOMAIN given, given[k] = given[n] PROVE k = n
        <4>1. CASE k = 1 \/ n = 1
          BY <3>5, <3>6, <3>7, <4>1
        <4>2. CASE k # 1 /\ n # 1
          <5>1. k - 1 = n - 1
            BY <1>4, <3>5, <3>7, <4>2
          <5> QED  BY <3>4, <5>1
        <4> QED  BY <4>1, <4>2
      <3>8. gone = Waiting \cup {shown}
        BY <3>5 DEF Waiting
      <3> QED  BY <2>2, <3>3, <3>7, <3>8
    <2> QED  BY <2>1, <2>2
  <1>6. gone = {given[k] : k \in DOMAIN given}
    OBVIOUS
  <1>7. \A i, j \in DOMAIN queue' : queue'[i] = queue'[j] => i = j
    BY <1>1
  <1>8. /\ Waiting' \subseteq Waiting /\ shown' \notin Waiting'
        /\ shown' \in Waiting \cup {shown, NoBuffer}
        /\ gone \subseteq Waiting \cup {shown} /\ gone \cap (Waiting' \cup {shown'}) = {}
        /\ shown \in {shown', NoBuffer} \cup gone
    <2>1. NoBuffer \notin Waiting
      BY <1>2, ElementOfSeq, LenProperties, NoBufferAssumption DEF Waiting
    <2> HIDE DEF gone
    <2> QED  BY <1>1, <1>3, <1>4, <1>5, <2>1
  <1> HIDE DEF given, gone
  <1> QED  BY <1>1, <1>2, <1>5, <1>6, <1>7, <1>8, StreamServed

\* The socket thread takes the next message.
LEMMA EventTaken ==
  ASSUME IInv, AwayInv, StatusInv, events # <<>>, UNCHANGED <<queue, shown, wasShown>>, events' = Tail(events)
  PROVE  /\ StatusInv' /\ Returned' \subseteq Returned /\ Announced' \subseteq Announced
         /\ \A b \in Buffers : /\ Head(events) = Released(b) => b \in Returned \ Returned'
                               /\ Head(events) = Status(b) => b \in Announced
                               /\ b \in Announced \ Announced' => Head(events) = Status(b)
         /\ \A i, j \in DOMAIN events', b \in Buffers :
               events'[i] = Released(b) /\ events'[j] = Released(b) => i = j
         /\ \A i \in DOMAIN events' : i + 1 \in DOMAIN events /\ events'[i] = events[i + 1]
         /\ DOMAIN events \subseteq Nat /\ DOMAIN events' \subseteq Nat /\ 1 \in DOMAIN events
         /\ Head(events) = events[1]
  <1>1. events \in Seq(Events)
    BY DEF IInv, TypeOK
  <1> DEFINE f == events'
  <1>2. /\ Head(events) = events[1] /\ Len(events) \in Nat /\ Len(events) > 0
        /\ DOMAIN events = 1..Len(events) /\ DOMAIN f = 1..(Len(events) - 1)
        /\ \A i \in DOMAIN f : f[i] = events[i + 1]
    BY <1>1, OneLess
  <1>3. Returned' = {b \in Buffers : \E i \in DOMAIN f : f[i] = Released(b)}
    BY DEF Returned, Released
  <1>4. Announced' = {b \in Buffers : \E i \in DOMAIN f : f[i] = Status(b)}
    BY DEF Announced, Status
  <1>5. StatusInv' <=> \A b \in Buffers, i \in DOMAIN f :
                          f[i] = Status(b) =>
                             /\ b \in wasShown
                             /\ shown = b \/ \E j \in DOMAIN f : i < j /\ f[j] = Released(b)
    BY DEF StatusInv, Status, Released
  <1> HIDE DEF f
  <1>6. /\ 1 \in DOMAIN events /\ DOMAIN events \subseteq Nat /\ DOMAIN f \subseteq Nat
        /\ \A i \in DOMAIN f : i + 1 \in DOMAIN events /\ i + 1 # 1
        /\ \A k \in DOMAIN events : k # 1 => k - 1 \in DOMAIN f /\ (k - 1) + 1 = k /\ f[k - 1] = events[k]
    <2>1. ASSUME NEW k \in DOMAIN events, k # 1
          PROVE  k - 1 \in DOMAIN f /\ (k - 1) + 1 = k /\ f[k - 1] = events[k]
      <3>1. k - 1 \in DOMAIN f /\ (k - 1) + 1 = k
        BY <1>2, <2>1
      <3> QED  BY <1>2, <3>1
    <2> QED  BY <1>2, <2>1
  <1>7. \A i, j \in DOMAIN events, b \in Buffers : events[i] = Released(b) /\ events[j] = Released(b) => i = j
    BY DEF AwayInv
  <1>8. ASSUME NEW i \in DOMAIN f, NEW j \in DOMAIN f, NEW b \in Buffers, f[i] = Released(b), f[j] = Released(b)
        PROVE  i = j
    <2>1. i + 1 = j + 1
      BY <1>2, <1>6, <1>7, <1>8
    <2> QED  BY <1>6, <2>1
  <1>9. \A b \in Buffers : Head(events) = Released(b) => b \in Returned \ Returned'
    BY <1>2, <1>3, <1>6, <1>7 DEF Returned
  <1>10. Returned' \subseteq Returned /\ Announced' \subseteq Announced
    BY <1>2, <1>3, <1>4, <1>6 DEF Returned, Announced
  <1>11. \A b \in Buffers : /\ Head(events) = Status(b) => b \in Announced
                            /\ b \in Announced \ Announced' => Head(events) = Status(b)
    BY <1>2, <1>4, <1>6 DEF Announced
  <1>12. StatusInv'
    <2> SUFFICES ASSUME NEW b \in Buffers, NEW i \in DOMAIN f, f[i] = Status(b)
                 PROVE  /\ b \in wasShown
                        /\ shown = b \/ \E j \in DOMAIN f : i < j /\ f[j] = Released(b)
      BY <1>5
    <2>1. i + 1 \in DOMAIN events /\ events[i + 1] = Status(b)
      BY <1>2, <1>6
    <2>2. b \in wasShown /\ (shown = b \/ \E j \in DOMAIN events : i + 1 < j /\ events[j] = Released(b))
      BY <2>1 DEF StatusInv
    <2>3. ASSUME NEW j \in DOMAIN events, i + 1 < j, events[j] = Released(b)
          PROVE  j - 1 \in DOMAIN f /\ i < j - 1 /\ f[j - 1] = Released(b)
      BY <1>6, <2>3
    <2> QED  BY <2>2, <2>3
  <1> QED  BY <1>2, <1>6, <1>8, <1>9, <1>10, <1>11, <1>12 DEF f

\* The socket thread's events.
LEMMA StreamReleased ==
  ASSUME DistinctTimes, IInv, StreamInv, NEW b \in Buffers, BufferRelease(b)
  PROVE  StreamInv'
  <1>1. /\ events # <<>> /\ Head(events) = Released(b) /\ events' = Tail(events)
        /\ thread \in {"batch", "wait"}
        /\ UNCHANGED <<phase, sending, queue, shown, wasShown, holder, fate>>
        /\ rendering \ {b} \subseteq rendering' /\ thread' # "show"
    BY DEF BufferRelease, Handles, mapVars, serverVars, reportVars
  <1>2. phase # "closed"
    BY <1>1 DEF IInv, TypeOK
  <1>3. AwayInv /\ StatusInv /\ ShownInv
    BY <1>2 DEF StreamInv
  <1>4. StatusInv' /\ Returned' \subseteq Returned /\ b \in Returned \ Returned'
        /\ \A i, j \in DOMAIN events', c \in Buffers :
               events'[i] = Released(c) /\ events'[j] = Released(c) => i = j
    BY <1>1, <1>3, EventTaken
  <1>5. AwayInv'
    <2>1. Waiting' = Waiting /\ SentSet' = SentSet
      BY <1>1 DEF Waiting, SentSet
    <2>2. b \notin Waiting \cup {shown}
      BY <1>3, <1>4 DEF AwayInv
    <2>3. (Returned' \cup Waiting' \cup {shown'}) \ {NoBuffer} \subseteq SentSet' \cup rendering'
      BY <1>1, <1>3, <1>4, <2>1, <2>2 DEF AwayInv
    <2> QED  BY <1>1, <1>3, <1>4, <2>1, <2>3 DEF AwayInv, Released
  <1> QED  BY <1>1, <1>2, <1>3, <1>4, <1>5 DEF StreamInv, ShownInv, DisplayedWasShown

LEMMA StreamStatus ==
  ASSUME DistinctTimes, IInv, StreamInv, NEW b \in Buffers, FrameStatus(DisplayTime[b])
  PROVE  StreamInv'
  <1>1. /\ events # <<>> /\ Head(events) = Status(b) /\ events' = Tail(events)
        /\ thread \in {"batch", "wait"}
        /\ UNCHANGED <<phase, sending, rendering, queue, shown, wasShown, holder, fate>>
        /\ thread' = "show" => subject' \in toDisplay /\ DisplayTime[subject'] = DisplayTime[b]
    BY DEF FrameStatus, Handles, serverVars, reportVars, Status
  <1>2. phase # "closed"
    BY <1>1 DEF IInv, TypeOK
  <1>3. AwayInv /\ StatusInv /\ ShownInv
    BY <1>2 DEF StreamInv
  <1>4. StatusInv' /\ Returned' \subseteq Returned /\ 1 \in DOMAIN events /\ Head(events) = events[1]
        /\ \A i, j \in DOMAIN events', c \in Buffers :
               events'[i] = Released(c) /\ events'[j] = Released(c) => i = j
    BY <1>1, <1>3, EventTaken
  <1>5. AwayInv'
    <2>1. Waiting' = Waiting /\ SentSet' = SentSet
      BY <1>1 DEF Waiting, SentSet
    <2>3. (Returned' \cup Waiting' \cup {shown'}) \ {NoBuffer} \subseteq SentSet' \cup rendering'
      BY <1>1, <1>3, <1>4, <2>1 DEF AwayInv
    <2> QED  BY <1>1, <1>3, <1>4, <2>1, <2>3 DEF AwayInv, Released
  <1>6. thread' = "show" => subject' = b
    BY <1>1 DEF DistinctTimes, IInv, TypeOK
  <1>7. b \in wasShown
    BY <1>1, <1>3, <1>4 DEF StatusInv
  <1> QED  BY <1>1, <1>2, <1>3, <1>4, <1>5, <1>6, <1>7 DEF StreamInv, ShownInv, DisplayedWasShown

LEMMA StreamSends ==
  ASSUME DistinctTimes, IInv, StreamInv, NEW b \in Buffers, SendFrame(b)
  PROVE  StreamInv'
  <1>1. /\ phase = "open" /\ holder[b] = "player" /\ phase' = "record" /\ sending' = b
        /\ queue' = Append(queue, b) /\ wasShown' = wasShown \ {b}
        /\ UNCHANGED <<rendering, thread, subject, events, shown>>
        /\ \A c \in Buffers : holder'[c] = "plugin" /\ fate'[c] = "displayed" =>
              c # b /\ holder[c] = "plugin" /\ fate[c] = "displayed"
    BY DEF SendFrame, mapVars, threadVars, IInv, TypeOK
  <1>2. AwayInv /\ StatusInv /\ ShownInv /\ queue \in Seq(Buffers)
    BY <1>1 DEF StreamInv, IInv, TypeOK
  <1>3. SentSet = {} /\ SentSet' = {b} /\ b \notin rendering /\ (thread = "show" => subject # b)
    BY <1>1, NoBufferAssumption DEF SentSet, IInv, HeldOnce, FateInv
  <1>4. b \notin Returned \cup Waiting \cup {shown}
    BY <1>2, <1>3, NoBufferAssumption DEF AwayInv
  <1>7. Waiting' = Waiting \cup {b} /\ \A i, j \in DOMAIN queue' : queue'[i] = queue'[j] => i = j
    BY <1>1, <1>2, <1>4, QueueGrows
  <1>9. Returned' = Returned
    BY <1>1 DEF Returned, Released
  <1>10. AwayInv'
    <2>1. \A i, j \in DOMAIN events', c \in Buffers :
            events'[i] = Released(c) /\ events'[j] = Released(c) => i = j
      BY <1>1, <1>2 DEF AwayInv
    <2> QED  BY <1>1, <1>2, <1>3, <1>4, <1>7, <1>9, <2>1 DEF AwayInv, Released
  <1>11. StatusInv'
    <2>1. \A i \in DOMAIN events : events[i] # Status(b)
      BY <1>2, <1>4 DEF StatusInv, Returned
    <2> QED  BY <1>1, <1>2, <2>1 DEF StatusInv, Status, Released
  <1> QED  BY <1>1, <1>2, <1>3, <1>10, <1>11 DEF StreamInv, ShownInv, DisplayedWasShown

LEMMA StreamNext == DistinctTimes /\ IInv /\ StreamInv /\ [Next]_vars => StreamInv'
  <1> SUFFICES ASSUME DistinctTimes, IInv, StreamInv, [Next]_vars PROVE StreamInv'
    OBVIOUS
  <1>1. CASE Open
    <2>1. /\ rendering = {} /\ SentSet = {} /\ GivingSet = {} /\ phase' = "open" /\ thread' = "wait"
          /\ queue' = <<>> /\ events' = <<>> /\ shown' = NoBuffer /\ UNCHANGED <<holder, fate>>
      BY <1>1 DEF Open, StreamInv, SentSet, GivingSet, IInv, TypeOK, reportVars
    <2>2. \A b \in Buffers : holder[b] # "plugin"
      BY <2>1 DEF IInv, HeldOnce
    <2>3. Waiting' = {} /\ Returned' = {}
      BY <2>1 DEF Waiting, Returned
    <2>4. AwayInv' /\ StatusInv'
      BY <2>1, <2>3 DEF AwayInv, StatusInv
    <2> QED  BY <2>1, <2>2, <2>4 DEF StreamInv, ShownInv, DisplayedWasShown
  <1>2. CASE RecordFrame \/ Pause \/ PauseSends \/ Resume \/ Close
    BY <1>2, StreamKept
       DEF RecordFrame, Pause, PauseSends, Resume, Close, SentSet, mapVars, threadVars,
           serverVars, reportVars
  <1>3. CASE EndBatch \/ ThreadStops
    <2>1. phase # "closed"
      BY <1>3 DEF EndBatch, ThreadStops, IInv, TypeOK
    <2> QED  BY <1>3, <2>1, StreamKept DEF EndBatch, ThreadStops, SentSet, mapVars, serverVars,
                reportVars
  <1>4. CASE Report
    <2>1. phase # "closed" /\ thread' = "batch"
      BY <1>4 DEF Report, Reporting, IInv, TypeOK
    <2>2. thread = "show" => subject \in wasShown
      BY <2>1 DEF StreamInv, ShownInv
    <2>3. \A b \in Buffers : holder'[b] = "plugin" /\ fate'[b] = "displayed" =>
            (holder[b] = "plugin" /\ fate[b] = "displayed") \/ b \in wasShown
      <3>1. subject \in Buffers
        BY <1>4 DEF Report, IInv, TypeOK
      <3>2. holder \in [Buffers -> {"player", "plugin"}] /\ fate \in [Buffers -> {"none", "displayed", "dropped"}]
        BY DEF IInv, TypeOK, Contract!Holders, Contract!Fates
      <3> QED  BY <1>4, <2>2, <3>1, <3>2 DEF Report, Reporting
    <2> QED  BY <1>4, <2>1, <2>3, StreamKept DEF Report, SentSet, mapVars, serverVars
  <1>5. CASE Disconnect
    BY <1>5 DEF Disconnect, StreamInv
  <1>6. ASSUME NEW b \in Buffers, RefuseFrame(b) PROVE StreamInv'
    <2>1. \A c \in Buffers : holder'[c] = "plugin" /\ fate'[c] = "displayed" =>
            holder[c] = "plugin" /\ fate[c] = "displayed"
      BY <1>6 DEF RefuseFrame, IInv, TypeOK
    <2> QED  BY <1>6, <2>1, StreamKept DEF RefuseFrame, SentSet, mapVars, threadVars, serverVars
  <1>7. CASE UNCHANGED vars
    <2>1. CASE phase = "closed"
      BY <1>7, <2>1 DEF vars, mapVars, StreamInv
    <2>2. CASE phase # "closed"
      BY <1>7, <2>2, StreamKept DEF vars, SentSet, mapVars, threadVars, serverVars, reportVars
    <2> QED  BY <2>1, <2>2
  <1> QED  BY <1>1, <1>2, <1>3, <1>4, <1>5, <1>6, <1>7, StreamShows, StreamDrops, StreamFlushed,
              StreamReleased, StreamStatus, StreamSends DEF Next, PlayerStep, ThreadStep, Handle

\* With distinct display times, where a frame is and what the messages say of it
\* agree, whatever the server's answers overtake.
THEOREM StreamInvariance == DistinctTimes /\ Spec => [](IInv /\ StreamInv)
  <1> SUFFICES ASSUME DistinctTimes PROVE Spec => [](IInv /\ StreamInv)
    OBVIOUS
  <1>1. Init => StreamInv
    BY DEF Init, StreamInv
  <1>2. IInv /\ StreamInv /\ [Next]_vars => StreamInv'
    BY StreamNext
  <1> QED  BY <1>1, <1>2, InitIInv, NextIInv, PTL DEF Spec

\* A frame reported displayed (WST_STATUS) has been shown by the server since it was
\* submitted, over flush, closeWindow and the buffer's next use.
THEOREM DisplayIsTrue == DistinctTimes /\ Spec => []DisplayedWasShown
  <1> SUFFICES ASSUME DistinctTimes PROVE Spec => []DisplayedWasShown
    OBVIOUS
  <1>1. IInv /\ StreamInv => DisplayedWasShown
    <2>1. CASE phase = "closed"
      BY <2>1 DEF IInv, TypeOK, HeldOnce, StreamInv, SentSet, GivingSet, Reporting,
         DisplayedWasShown
    <2>2. CASE phase # "closed"
      BY <2>2 DEF StreamInv, ShownInv
    <2> QED  BY <2>1, <2>2
  <1> QED  BY <1>1, StreamInvariance, PTL

-----------------------------------------------------------------------------
(* A server that answers only recorded frames. *)

\* There are as many frames to count as buffers at most.
LEMMA OwedIsFinite ==
  ASSUME IInv
  PROVE  /\ IsFiniteSet(Owed) /\ Cardinality(Owed) \in Nat /\ ready \in Int
         /\ \A S \in SUBSET Owed : Cardinality(S) <= Cardinality(Owed) /\ Cardinality(S) \in Nat
         /\ \A x : /\ Cardinality(Owed \cup {x}) <= Cardinality(Owed) + 1
                   /\ x \in Owed => Cardinality(Owed \ {x}) = Cardinality(Owed) - 1
  <1>1. Owed \in SUBSET Buffers /\ ready \in Int
    BY DEF Owed, Announced, IInv, TypeOK
  <1>2. IsFiniteSet(Owed)
    BY <1>1, FS_Subset, BuffersAssumption
  <1> QED  BY <1>1, <1>2, FS_CardinalityType, FS_Subset, FS_AddElement, FS_RemoveElement

\* The count goes down only for a frame it counts.
LEMMA CountKept ==
  ASSUME IInv, CountInv, IInv',
         \/ ready' = ready /\ Owed' \subseteq Owed
         \/ ready' = ready + 1 /\ \E x : Owed' \subseteq Owed \cup {x}
         \/ ready' = ready - 1 /\ \E x \in Owed : Owed' \subseteq Owed \ {x}
  PROVE  CountInv'
  <1>1. /\ IsFiniteSet(Owed) /\ Cardinality(Owed) \in Nat /\ ready \in Int /\ Cardinality(Owed) <= ready
    BY OwedIsFinite DEF CountInv
  <1>2. ASSUME NEW S, IsFiniteSet(S), Owed' \subseteq S
        PROVE  Cardinality(Owed') <= Cardinality(S) /\ Cardinality(Owed') \in Nat /\ Cardinality(S) \in Nat
    BY <1>2, FS_Subset, FS_CardinalityType
  <1>3. CASE ready' = ready /\ Owed' \subseteq Owed
    BY <1>1, <1>2, <1>3 DEF CountInv
  <1>4. ASSUME NEW x, ready' = ready + 1, Owed' \subseteq Owed \cup {x} PROVE CountInv'
    <2>1. IsFiniteSet(Owed \cup {x}) /\ Cardinality(Owed \cup {x}) <= Cardinality(Owed) + 1
      BY <1>1, FS_AddElement
    <2> QED  BY <1>1, <1>2, <1>4, <2>1 DEF CountInv
  <1>5. ASSUME NEW x \in Owed, ready' = ready - 1, Owed' \subseteq Owed \ {x} PROVE CountInv'
    <2>1. IsFiniteSet(Owed \ {x}) /\ Cardinality(Owed \ {x}) = Cardinality(Owed) - 1
      BY <1>1, FS_RemoveElement
    <2> QED  BY <1>1, <1>2, <1>5, <2>1 DEF CountInv
  <1> QED  BY <1>3, <1>4, <1>5

\* Messages that give frames back announce nothing.
LEMMA AnnouncedBefore ==
  ASSUME NEW e \in Seq(Events), NEW r \in Seq(Buffers), events' = e \o Releases(r)
  PROVE  /\ Announced' = {b \in Buffers : \E i \in DOMAIN e : e[i] = Status(b)}
         /\ \A i \in DOMAIN events', b \in Buffers :
               events'[i] = Status(b) => i \in DOMAIN e /\ e[i] = Status(b)
  <1> DEFINE f == e \o Releases(r)
  <1>1. /\ f \in Seq(Events)
        /\ \A i \in DOMAIN e : i \in DOMAIN f /\ f[i] = e[i]
        /\ \A i \in DOMAIN f, b \in Buffers : f[i] = Status(b) => i \in DOMAIN e /\ e[i] = Status(b)
        /\ \A i \in DOMAIN f, b \in Buffers : f[i] = Released(b) =>
               \/ i \in DOMAIN e /\ e[i] = Released(b)
               \/ i - Len(e) \in DOMAIN r /\ r[i - Len(e)] = b
        /\ \A k \in DOMAIN r : /\ Len(e) + k \in DOMAIN f /\ f[Len(e) + k] = Released(r[k])
                                /\ \A i \in DOMAIN e : i < Len(e) + k
    BY GivenBack
  <1>2. events' = f  OBVIOUS
  <1> HIDE DEF f
  <1>3. Announced' = {b \in Buffers : \E i \in DOMAIN f : f[i] = Status(b)}
    BY <1>2 DEF Announced, Status
  <1> QED  BY <1>1, <1>2, <1>3

\* Whatever moves no frame and no message.
LEMMA OrderKept ==
  ASSUME IInv, IInv', OrderlyInv, phase # "closed", phase' # "closed",
         UNCHANGED <<toDisplay, ready, events, queue, wasShown>>, SentSet' = SentSet,
         thread' = "drop" => thread = "drop" /\ subject' = subject
  PROVE  OrderlyInv'
  <1>1. OrderInv /\ CountInv /\ DroppedWasNotShown
    BY DEF OrderlyInv
  <1>2. Waiting' = Waiting /\ Announced' = Announced
    BY DEF Waiting, Announced, Status
  <1>3. OrderInv'
    BY <1>1, <1>2 DEF OrderInv, Status
  <1>4. CountInv'
    <2>1. Owed' = Owed
      BY <1>2 DEF Owed
    <2> QED  BY <1>1, <2>1, CountKept
  <1>5. DroppedWasNotShown'
    BY <1>1 DEF DroppedWasNotShown
  <1> QED  BY <1>3, <1>4, <1>5 DEF OrderlyInv

LEMMA OrderRecord ==
  ASSUME IInv, IInv', OrderlyInv, RecordFrame
  PROVE  OrderlyInv'
  <1>1. /\ phase = "record" /\ phase' = "open" /\ toDisplay' = toDisplay \cup {sending}
        /\ ready' = ready + 1
        /\ UNCHANGED <<thread, subject, events, queue, wasShown>>
    BY DEF RecordFrame, threadVars, serverVars
  <1>2. OrderInv /\ CountInv /\ DroppedWasNotShown
    BY <1>1 DEF OrderlyInv
  <1>3. Waiting' = Waiting /\ Announced' = Announced /\ SentSet = {sending} /\ SentSet' = {}
    BY <1>1 DEF Waiting, Announced, Status, SentSet
  <1>4. OrderInv'
    BY <1>1, <1>2, <1>3 DEF OrderInv, Status
  <1>5. CountInv'
    <2>1. Owed' = Owed \cup {sending}
      BY <1>1, <1>3 DEF Owed
    <2> QED  BY <1>1, <1>2, <2>1, CountKept
  <1>6. DroppedWasNotShown'
    BY <1>1, <1>2 DEF DroppedWasNotShown
  <1> QED  BY <1>4, <1>5, <1>6 DEF OrderlyInv

LEMMA OrderSends ==
  ASSUME IInv, IInv', StreamInv, OrderlyInv, NEW b \in Buffers, SendFrame(b)
  PROVE  OrderlyInv'
  <1>1. /\ phase = "open" /\ phase' = "record" /\ sending' = b
        /\ queue' = Append(queue, b) /\ wasShown' = wasShown \ {b}
        /\ UNCHANGED <<toDisplay, ready, thread, subject, events>>
    BY DEF SendFrame, mapVars, threadVars
  <1>2. OrderInv /\ CountInv /\ DroppedWasNotShown /\ queue \in Seq(Buffers)
    BY <1>1 DEF OrderlyInv, IInv, TypeOK
  <1>3. Waiting' = Waiting \cup {b} /\ Announced' = Announced /\ SentSet = {} /\ SentSet' = {b}
    BY <1>1, <1>2, QueueGrows DEF Announced, Status, SentSet
  <1>4. OrderInv'
    BY <1>1, <1>2, <1>3 DEF OrderInv, Status
  <1>5. CountInv'
    <2>1. Owed' = Owed
      BY <1>1, <1>3 DEF Owed
    <2> QED  BY <1>1, <1>2, <2>1, CountKept
  <1>6. DroppedWasNotShown'
    BY <1>1, <1>2 DEF DroppedWasNotShown
  <1> QED  BY <1>4, <1>5, <1>6 DEF OrderlyInv

LEMMA OrderFlushed ==
  ASSUME IInv, IInv', OrderlyInv, Flush
  PROVE  OrderlyInv'
  <1> DEFINE given == IF shown' = shown THEN queue ELSE <<shown>> \o queue
  <1>1. /\ phase = "open" /\ phase' = "open" /\ toDisplay' = {} /\ queue' = <<>>
        /\ shown' \in {shown, NoBuffer} /\ events' = events \o Releases(given)
        /\ UNCHANGED <<ready, thread, subject, wasShown>>
    BY DEF Flush, ServerFlushes, threadVars
  <1>2. OrderInv /\ CountInv /\ DroppedWasNotShown
    BY <1>1 DEF OrderlyInv
  <1>3. queue \in Seq(Buffers) /\ shown \in Buffers \cup {NoBuffer} /\ events \in Seq(Events)
    BY DEF IInv, TypeOK
  <1>4. given \in Seq(Buffers)
    <2>1. CASE shown' = shown  BY <1>3, <2>1
    <2>2. CASE shown' # shown
      <3>1. shown \in Buffers  BY <1>1, <1>3, <2>2
      <3>2. <<shown>> \in Seq(Buffers)  BY <3>1
      <3> QED  BY <1>3, <2>2, <3>2, ConcatProperties
    <2> QED  BY <2>1, <2>2
  <1> HIDE DEF given
  <1>5. /\ Announced' = Announced
        /\ \A i \in DOMAIN events', b \in Buffers :
               events'[i] = Status(b) => i \in DOMAIN events /\ events[i] = Status(b)
    BY <1>1, <1>3, <1>4, AnnouncedBefore DEF Announced
  <1>6. Waiting' = {} /\ SentSet' = {}
    BY <1>1 DEF Waiting, SentSet
  <1>7. OrderInv'
    BY <1>1, <1>2, <1>5, <1>6 DEF OrderInv, Status
  <1>8. CountInv'
    <2>1. Owed' \subseteq Owed
      BY <1>1, <1>5 DEF Owed
    <2> QED  BY <1>1, <1>2, <2>1, CountKept
  <1>9. DroppedWasNotShown'
    BY <1>1, <1>2 DEF DroppedWasNotShown
  <1> QED  BY <1>7, <1>8, <1>9 DEF OrderlyInv

LEMMA OrderShows ==
  ASSUME DistinctTimes, NoOvertaking, IInv, IInv', StreamInv, OrderlyInv, ServerShows
  PROVE  OrderlyInv'
  <1> DEFINE b     == Head(queue)
             given == IF shown = NoBuffer THEN <<>> ELSE <<shown>>
             e     == events \o <<Status(b)>>
  <1>1. /\ phase # "closed" /\ queue # <<>> /\ queue' = Tail(queue) /\ b # sending
        /\ wasShown' = wasShown \cup {b}
        /\ events' = e \o Releases(given)
        /\ UNCHANGED <<phase, sending, toDisplay, ready, thread, subject>>
    BY DEF ServerShows, Served, mapVars, threadVars, NoOvertaking
  <1>2. /\ OrderInv /\ CountInv /\ DroppedWasNotShown /\ AwayInv /\ StatusInv
        /\ events \in Seq(Events) /\ shown \in Buffers \cup {NoBuffer}
    BY <1>1 DEF OrderlyInv, StreamInv, IInv, TypeOK
  <1>3. b \in Buffers /\ Waiting = Waiting' \cup {b} /\ b \notin Waiting'
    BY <1>1, <1>2, QueueAdvances
  <1>4. given \in Seq(Buffers)
    BY <1>2
  <1>5. /\ e \in Seq(Events) /\ Len(events) \in Nat
        /\ DOMAIN events = 1..Len(events) /\ DOMAIN e = 1..(Len(events) + 1)
        /\ \A i \in DOMAIN events : e[i] = events[i]
        /\ e[Len(events) + 1] = Status(b)
    <2>1. Status(b) \in Events
      BY <1>3 DEF Events
    <2> QED  BY <1>2, <2>1, OneMore
  <1> HIDE DEF b, given, e
  <1>6. \A i \in DOMAIN e : i \in DOMAIN events \/ i = Len(events) + 1
    BY <1>5
  <1>7. SentSet' = SentSet /\ b \notin SentSet /\ b \in toDisplay /\ b \notin wasShown
    BY <1>1, <1>2, <1>3 DEF OrderInv, SentSet
  <1>8. \A i \in DOMAIN events : events[i] # Status(b)
    BY <1>2, <1>3, <1>7 DEF StatusInv
  <1>9. /\ Announced' = {c \in Buffers : \E i \in DOMAIN e : e[i] = Status(c)}
        /\ \A i \in DOMAIN events', c \in Buffers :
               events'[i] = Status(c) => i \in DOMAIN e /\ e[i] = Status(c)
    BY <1>1, <1>4, <1>5, AnnouncedBefore
  <1>10. Announced \cup {b} \subseteq Announced'
    <2>1. DOMAIN events \subseteq DOMAIN e /\ Len(events) + 1 \in DOMAIN e
      BY <1>5
    <2> QED  BY <1>3, <1>5, <1>9, <2>1 DEF Announced
  <1>11. \A c \in Buffers : Status(c) = Status(b) => c = b
    BY <1>3 DEF DistinctTimes, Status
  <1>12. Announced' = Announced \cup {b}
    BY <1>3, <1>5, <1>6, <1>9, <1>10, <1>11 DEF Announced
  <1>13. ASSUME NEW i \in DOMAIN events', NEW j \in DOMAIN events', NEW c \in Buffers,
                events'[i] = Status(c), events'[j] = Status(c)
         PROVE  i = j
    <2>1. i \in DOMAIN e /\ e[i] = Status(c) /\ j \in DOMAIN e /\ e[j] = Status(c)
      BY <1>9, <1>13
    <2>2. CASE c = b
      BY <1>5, <1>6, <1>8, <2>1, <2>2
    <2>3. CASE c # b
      <3>1. i \in DOMAIN events /\ j \in DOMAIN events
        BY <1>5, <1>6, <1>11, <2>1, <2>3
      <3> QED  BY <1>2, <1>5, <2>1, <3>1 DEF OrderInv
    <2> QED  BY <2>2, <2>3
  <1>14. OrderInv'
    <2>1. \A i, j \in DOMAIN events', c \in Buffers : events'[i] = Status(c) /\ events'[j] = Status(c) => i = j
      BY <1>13
    <2> QED  BY <1>1, <1>2, <1>3, <1>7, <1>12, <2>1 DEF OrderInv, Status
  <1>15. CountInv'
    <2>1. Owed' = Owed
      BY <1>1, <1>7, <1>12 DEF Owed
    <2> QED  BY <1>1, <1>2, <2>1, CountKept
  <1>16. DroppedWasNotShown'
    <2>1. thread = "drop" => subject # b
      BY <1>7 DEF IInv, HeldOnce, LoopsEnd, GivingSet
    <2> QED  BY <1>1, <1>2, <2>1 DEF DroppedWasNotShown
  <1> QED  BY <1>1, <1>14, <1>15, <1>16 DEF OrderlyInv

LEMMA OrderDrops ==
  ASSUME NoOvertaking, IInv, IInv', StreamInv, OrderlyInv, ServerDrops
  PROVE  OrderlyInv'
  <1> DEFINE b == Head(queue)
  <1>1. /\ phase # "closed" /\ queue # <<>> /\ queue' = Tail(queue) /\ b # sending
        /\ events' = Append(events, Released(b))
        /\ UNCHANGED <<phase, sending, toDisplay, ready, thread, subject, wasShown>>
    BY DEF ServerDrops, Served, mapVars, threadVars, NoOvertaking
  <1>2. OrderInv /\ CountInv /\ DroppedWasNotShown /\ AwayInv /\ events \in Seq(Events)
    BY <1>1 DEF OrderlyInv, StreamInv, IInv, TypeOK
  <1>3. b \in Buffers /\ Waiting = Waiting' \cup {b} /\ b \notin Waiting'
    BY <1>1, <1>2, QueueAdvances
  <1> HIDE DEF b
  <1>4. events' = events \o Releases(<<b>>) /\ <<b>> \in Seq(Buffers)
    BY <1>1, <1>2, <1>3, OneRelease
  <1>5. /\ Announced' = Announced
        /\ \A i \in DOMAIN events', c \in Buffers :
               events'[i] = Status(c) => i \in DOMAIN events /\ events[i] = Status(c)
    BY <1>2, <1>4, AnnouncedBefore DEF Announced
  <1>6. SentSet' = SentSet /\ b \notin SentSet
    BY <1>1 DEF SentSet
  <1>7. OrderInv'
    BY <1>1, <1>2, <1>3, <1>5, <1>6 DEF OrderInv, Status
  <1>8. CountInv'
    <2>1. Owed' = Owed
      BY <1>1, <1>5 DEF Owed
    <2> QED  BY <1>1, <1>2, <2>1, CountKept
  <1>9. DroppedWasNotShown'
    BY <1>1, <1>2 DEF DroppedWasNotShown
  <1> QED  BY <1>1, <1>7, <1>8, <1>9 DEF OrderlyInv

LEMMA OrderReleased ==
  ASSUME IInv, IInv', StreamInv, OrderlyInv, NEW b \in Buffers, BufferRelease(b)
  PROVE  OrderlyInv'
  <1>1. /\ events # <<>> /\ Head(events) = Released(b) /\ events' = Tail(events)
        /\ thread \in {"batch", "wait"}
        /\ UNCHANGED <<phase, sending, queue, shown, wasShown>>
        /\ toDisplay' = toDisplay \ {b}
        /\ ready' = IF b \in toDisplay THEN ready - 1 ELSE ready
        /\ thread' = "drop" => subject' = b /\ b \in toDisplay
    BY DEF BufferRelease, Handles, mapVars, serverVars, IInv, LoopsEnd
  <1>2. phase # "closed"
    BY <1>1 DEF IInv, TypeOK
  <1>3. OrderInv /\ CountInv /\ DroppedWasNotShown /\ AwayInv /\ StatusInv
    BY <1>2 DEF OrderlyInv, StreamInv
  <1>4. /\ Announced' \subseteq Announced /\ b \in Returned
        /\ \A i \in DOMAIN events' : i + 1 \in DOMAIN events /\ events'[i] = events[i + 1]
        /\ DOMAIN events \subseteq Nat /\ DOMAIN events' \subseteq Nat /\ 1 \in DOMAIN events
        /\ Head(events) = events[1]
        /\ \A c \in Buffers : c \in Announced \ Announced' => Head(events) = Status(c)
    BY <1>1, <1>3, EventTaken
  <1>5. b \notin Waiting \cup {shown}
    BY <1>3, <1>4 DEF AwayInv
  <1>6. b \notin Announced
    <2> SUFFICES ASSUME NEW i \in DOMAIN events, events[i] = Status(b) PROVE FALSE
      BY DEF Announced
    <2>1. PICK j \in DOMAIN events : i < j /\ events[j] = Released(b)
      BY <1>3, <1>5 DEF StatusInv
    <2>2. j = 1
      BY <1>1, <1>3, <1>4, <2>1 DEF AwayInv
    <2>3. i = 0
      BY <1>4, <2>1, <2>2
    <2>4. 0 \notin DOMAIN events
      BY LenProperties DEF IInv, TypeOK
    <2> QED  BY <2>3, <2>4
  <1>7. Announced' = Announced
    BY <1>1, <1>4, Times DEF Announced
  <1>8. \A i, j \in DOMAIN events', c \in Buffers : events'[i] = Status(c) /\ events'[j] = Status(c) => i = j
    <2> SUFFICES ASSUME NEW i \in DOMAIN events', NEW j \in DOMAIN events', NEW c \in Buffers,
                        events'[i] = Status(c), events'[j] = Status(c)
                 PROVE  i = j
      OBVIOUS
    <2>1. i + 1 = j + 1
      BY <1>3, <1>4 DEF OrderInv
    <2> QED  BY <1>4, <2>1
  <1>9. OrderInv'
    <2>1. Waiting' = Waiting /\ SentSet' = SentSet
      BY <1>1 DEF Waiting, SentSet
    <2> QED  BY <1>1, <1>3, <1>5, <1>7, <1>8, <2>1 DEF OrderInv, Status
  <1>10. CountInv'
    <2>1. Owed' = Owed \ {b}
      BY <1>1, <1>6, <1>7 DEF Owed
    <2>2. b \in Owed <=> b \in toDisplay
      BY <1>6 DEF Owed
    <2> QED  BY <1>1, <1>3, <2>1, <2>2, CountKept
  <1>11. DroppedWasNotShown'
    BY <1>1, <1>3, <1>6 DEF DroppedWasNotShown, OrderInv
  <1> QED  BY <1>9, <1>10, <1>11 DEF OrderlyInv

LEMMA OrderStatus ==
  ASSUME DistinctTimes, IInv, IInv', StreamInv, OrderlyInv, NEW b \in Buffers, FrameStatus(DisplayTime[b])
  PROVE  OrderlyInv'
  <1>1. /\ events # <<>> /\ Head(events) = Status(b) /\ events' = Tail(events)
        /\ thread \in {"batch", "wait"}
        /\ UNCHANGED <<phase, sending, queue, shown, wasShown>>
        /\ ready' = ready - 1 /\ thread' # "drop"
    BY DEF FrameStatus, Handles, serverVars, Status
  <1>2. phase # "closed"
    BY <1>1 DEF IInv, TypeOK
  <1>3. OrderInv /\ CountInv /\ AwayInv /\ StatusInv
    BY <1>2 DEF OrderlyInv, StreamInv
  <1>4. /\ Announced' \subseteq Announced /\ b \in Announced
        /\ \A i \in DOMAIN events' : i + 1 \in DOMAIN events /\ events'[i] = events[i + 1]
        /\ DOMAIN events \subseteq Nat /\ DOMAIN events' \subseteq Nat /\ 1 \in DOMAIN events
        /\ Head(events) = events[1]
        /\ \A c \in Buffers : c \in Announced \ Announced' => Head(events) = Status(c)
    BY <1>1, <1>3, EventTaken
  <1>5. toDisplay' = toDisplay \ {b}
    <2>1. toDisplay \subseteq Buffers
      BY DEF IInv, TypeOK
    <2>2. \/ (\A c \in toDisplay : DisplayTime[c] # DisplayTime[b]) /\ toDisplay' = toDisplay
          \/ \E c \in toDisplay : DisplayTime[c] = DisplayTime[b] /\ toDisplay' = toDisplay \ {c}
      BY DEF FrameStatus
    <2> QED  BY <2>1, <2>2 DEF DistinctTimes
  <1>6. b \in wasShown
    BY <1>1, <1>3, <1>4 DEF StatusInv
  <1>7. \A i, j \in DOMAIN events', c \in Buffers : events'[i] = Status(c) /\ events'[j] = Status(c) => i = j
    <2> SUFFICES ASSUME NEW i \in DOMAIN events', NEW j \in DOMAIN events', NEW c \in Buffers,
                        events'[i] = Status(c), events'[j] = Status(c)
                 PROVE  i = j
      OBVIOUS
    <2>1. i + 1 = j + 1
      BY <1>3, <1>4 DEF OrderInv
    <2> QED  BY <1>4, <2>1
  <1>8. Announced' = Announced \ {b}
    <2>1. ASSUME NEW i \in DOMAIN events', events'[i] = Status(b) PROVE FALSE
      <3>1. i + 1 = 1
        BY <1>1, <1>3, <1>4, <2>1 DEF OrderInv
      <3>2. 0 \in DOMAIN events'
        BY <1>4, <3>1
      <3>3. events' \in Seq(Events)
        BY DEF IInv, TypeOK
      <3> QED  BY <3>2, <3>3, LenProperties
    <2>2. b \notin Announced'
      BY <2>1 DEF Announced, Status
    <2>3. \A c \in Buffers : Status(c) = Status(b) => c = b
      BY DEF DistinctTimes, Status
    <2>4. Announced \subseteq Buffers
      BY DEF Announced
    <2> QED  BY <1>1, <1>4, <2>2, <2>3, <2>4
  <1>9. OrderInv'
    <2>1. Waiting' = Waiting /\ SentSet' = SentSet
      BY <1>1 DEF Waiting, SentSet
    <2>2. b \notin Waiting
      BY <1>3, <1>6 DEF OrderInv
    <2> QED  BY <1>1, <1>3, <1>5, <1>7, <1>8, <2>1, <2>2 DEF OrderInv, Status
  <1>10. CountInv'
    <2>1. Owed' = Owed \ {b} /\ b \in Owed
      BY <1>4, <1>5, <1>8 DEF Owed
    <2> QED  BY <1>1, <1>3, <2>1, CountKept
  <1> QED  BY <1>1, <1>9, <1>10 DEF OrderlyInv, DroppedWasNotShown

LEMMA OrderOpens ==
  ASSUME IInv, IInv', StreamInv, Open
  PROVE  OrderlyInv'
  <1>1. /\ rendering = {} /\ toDisplay' = toDisplay /\ phase' = "open" /\ thread' = "wait" /\ ready' = 0
        /\ queue' = <<>> /\ events' = <<>>
    BY DEF Open, StreamInv
  <1>2. toDisplay' = {}
    BY <1>1 DEF IInv, LoopsEnd
  <1>3. Waiting' = {} /\ Announced' = {} /\ SentSet' = {}
    BY <1>1 DEF Waiting, Announced, SentSet
  <1>4. OrderInv'
    BY <1>1, <1>2, <1>3 DEF OrderInv
  <1>5. CountInv'
    <2>1. Owed' = {}
      BY <1>2, <1>3 DEF Owed
    <2> QED  BY <1>1, <2>1, FS_EmptySet DEF CountInv
  <1> QED  BY <1>1, <1>4, <1>5 DEF OrderlyInv, DroppedWasNotShown

LEMMA OrderNext ==
  DistinctTimes /\ NoOvertaking /\ IInv /\ StreamInv /\ OrderlyInv /\ [Next]_vars => OrderlyInv'
  <1> SUFFICES ASSUME DistinctTimes, NoOvertaking, IInv, StreamInv, OrderlyInv, [Next]_vars
               PROVE OrderlyInv'
    OBVIOUS
  <1>1. IInv'
    BY NextIInv
  <1>2. CASE Pause \/ PauseSends \/ Resume \/ Close
    BY <1>1, <1>2, OrderKept DEF Pause, PauseSends, Resume, Close, SentSet, mapVars, threadVars,
       serverVars
  <1>3. CASE EndBatch \/ ThreadStops \/ Report
    <2>1. phase # "closed"
      BY <1>3 DEF EndBatch, ThreadStops, Report, Reporting, IInv, TypeOK
    <2> QED  BY <1>1, <1>3, <2>1, OrderKept DEF EndBatch, ThreadStops, Report, SentSet, mapVars,
                serverVars
  <1>4. CASE Disconnect
    BY <1>4 DEF Disconnect, OrderlyInv
  <1>5. ASSUME NEW b \in Buffers, RefuseFrame(b) PROVE OrderlyInv'
    BY <1>1, <1>5, OrderKept DEF RefuseFrame, SentSet, mapVars, threadVars, serverVars
  <1>6. CASE UNCHANGED vars
    <2>1. CASE phase = "closed"
      BY <1>6, <2>1 DEF vars, OrderlyInv
    <2>2. CASE phase # "closed"
      BY <1>1, <1>6, <2>2, OrderKept DEF vars, SentSet, mapVars, threadVars, serverVars
    <2> QED  BY <2>1, <2>2
  <1> QED  BY <1>1, <1>2, <1>3, <1>4, <1>5, <1>6, OrderOpens, OrderRecord, OrderSends,
              OrderFlushed, OrderShows, OrderDrops, OrderReleased, OrderStatus
              DEF Next, PlayerStep, ThreadStep, Handle

\* When no answer overtakes displayFrame, mReadyDisplayFrameCnt counts at least the
\* frames that wait for their display and the displays not told yet.
THEOREM OrderInvariance == DistinctTimes /\ NoOvertaking /\ Spec => [](IInv /\ StreamInv /\ OrderlyInv)
  <1> SUFFICES ASSUME DistinctTimes, NoOvertaking PROVE Spec => [](IInv /\ StreamInv /\ OrderlyInv)
    OBVIOUS
  <1>1. Init => StreamInv /\ OrderlyInv
    BY DEF Init, StreamInv, OrderlyInv
  <1>2. IInv /\ StreamInv /\ [Next]_vars => StreamInv'
    BY StreamNext
  <1>3. IInv /\ StreamInv /\ OrderlyInv /\ [Next]_vars => OrderlyInv'
    BY OrderNext
  <1> QED  BY <1>1, <1>2, <1>3, InitIInv, NextIInv, PTL DEF Spec

\* A frame reported dropped on its release (WST_BUFFER_RELEASE) was not shown.
THEOREM DropIsTrue == DistinctTimes /\ NoOvertaking /\ Spec => []DroppedWasNotShown
  <1> SUFFICES ASSUME DistinctTimes, NoOvertaking PROVE Spec => []DroppedWasNotShown
    OBVIOUS
  <1>1. IInv /\ OrderlyInv => DroppedWasNotShown
    BY DEF OrderlyInv, IInv, TypeOK, DroppedWasNotShown
  <1> QED  BY <1>1, OrderInvariance, PTL

\* pause tells the server only when no recorded frame waits for its display.
THEOREM PauseIsLast == DistinctTimes /\ NoOvertaking /\ Spec => PauseAfterLastFrame
  <1> SUFFICES ASSUME DistinctTimes, NoOvertaking PROVE Spec => PauseAfterLastFrame
    OBVIOUS
  <1>1. ASSUME IInv, OrderlyInv, [Next]_vars, phase = "pausing", ~paused, paused' PROVE toDisplay = {}
    <2>1. PauseSends
      BY <1>1 DEF Next, PlayerStep, ThreadStep, Handle, Open, RefuseFrame, SendFrame, RecordFrame,
                  Flush, Pause, Resume, Close, Disconnect, BufferRelease, FrameStatus, Report,
                  EndBatch, ThreadStops, ServerShows, ServerDrops, serverVars, vars
    <2>2. ready = 0
      BY <1>1, <2>1 DEF PauseSends
    <2>3. IsFiniteSet(Owed) /\ Cardinality(Owed) \in Nat /\ Cardinality(Owed) <= 0
      BY <1>1, <2>2, OwedIsFinite DEF OrderlyInv, CountInv
    <2>4. Owed = {}
      BY <2>3, FS_EmptySet
    <2> QED  BY <2>4 DEF Owed
  <1>2. IInv /\ OrderlyInv /\ [Next]_vars => [phase = "pausing" /\ ~paused /\ paused' => toDisplay = {}]_vars
    BY <1>1
  <1> QED  BY <1>2, OrderInvariance, PTL DEF Spec, PauseAfterLastFrame

-----------------------------------------------------------------------------
(* The stream of messages, for a read of any size. *)

Units == UNION {{[kind |-> k, part |-> i] : i \in 1..Stream!Size[k]} : k \in DOMAIN Stream!Size}

\* The unit v comes after u in the stream.
Follows(u, v) ==
    IF u.part < Stream!Size[u.kind] THEN v = [kind |-> u.kind, part |-> u.part + 1]
                                    ELSE v.part = 1

\* A piece of the stream, which may begin and end within a message.
Piece(s) == s \in Seq(Units) /\ \A i \in 1..(Len(s) - 1) : Follows(s[i], s[i + 1])

EndsWhole(s) == s # <<>> => s[Len(s)].part = Stream!Size[s[Len(s)].kind]

\* What is read and what is not yet are pieces that fit together, and the server
\* has sent whole messages.
ReadInv ==
    /\ reader \in {"none", "wait", "read"}
    /\ Piece(buffer) /\ Piece(stream) /\ EndsWhole(stream)
    /\ buffer # <<>> =>
          /\ reader = "read"
          /\ IF stream = <<>> THEN EndsWhole(buffer)
                              ELSE Follows(buffer[Len(buffer)], stream[1])

\* What the plugin is told of is a message of the server's.
WholeMessage == got = <<>> \/ got = Stream!Message(Head(got).kind)

\* What a read ends without having handled is nothing, the rest of a message cut
\* before, or the beginning of one that is being cut; and one is cut only
\* by a read that leaves something.
OnlyOverrunsLose ==
    [][/\ Stream!EndRead => buffer = <<>> \/ Stream!Torn(buffer) \/ Stream!Torn(stream)
       /\ Stream!Torn(stream)' /\ ~Stream!Torn(stream) => reader = "wait" /\ Len(stream) > ReadSize
      ]_Stream!vars

LEMMA UnitsAre ==
  /\ \A u \in Units : /\ u.kind \in {"B", "R", "D", "U", "S", "Z"} /\ u.part \in 1..Stream!Size[u.kind]
                      /\ u = [kind |-> u.kind, part |-> u.part]
  /\ \A k \in {"B", "R", "D", "U", "S", "Z"} :
        /\ Stream!Size[k] \in 2..4
        /\ \A i \in 1..Stream!Size[k] : [kind |-> k, part |-> i] \in Units
  /\ DOMAIN Stream!Size = {"B", "R", "D", "U", "S", "Z"}
  <1>1. /\ DOMAIN Stream!Size = {"B", "R", "D", "U", "S", "Z"}
        /\ \A k \in {"B", "R", "D", "U", "S", "Z"} : Stream!Size[k] \in 2..4
    BY DEF Stream!Size
  <1>2. ASSUME NEW u \in Units
        PROVE  /\ u.kind \in {"B", "R", "D", "U", "S", "Z"} /\ u.part \in 1..Stream!Size[u.kind]
               /\ u = [kind |-> u.kind, part |-> u.part]
    <2>1. PICK k \in DOMAIN Stream!Size : u \in {[kind |-> k, part |-> i] : i \in 1..Stream!Size[k]}
      BY DEF Units
    <2>2. PICK i \in 1..Stream!Size[k] : u = [kind |-> k, part |-> i]
      BY <2>1
    <2> QED  BY <1>1, <2>1, <2>2
  <1>3. ASSUME NEW k \in DOMAIN Stream!Size, NEW i \in 1..Stream!Size[k]
        PROVE  [kind |-> k, part |-> i] \in Units
    <2>1. [kind |-> k, part |-> i] \in {[kind |-> k, part |-> j] : j \in 1..Stream!Size[k]}
      OBVIOUS
    <2> QED  BY <2>1 DEF Units
  <1> QED  BY <1>1, <1>2, <1>3

LEMMA MessageIsPiece ==
  ASSUME NEW k \in DOMAIN Stream!Size
  PROVE  /\ Piece(Stream!Message(k)) /\ EndsWhole(Stream!Message(k))
         /\ Len(Stream!Message(k)) = Stream!Size[k] /\ Stream!Message(k)[1].part = 1
  <1> DEFINE n == Stream!Size[k]
  <1>1. n \in 2..4 /\ \A i \in 1..n : [kind |-> k, part |-> i] \in Units
    BY UnitsAre
  <1>2. Stream!Message(k) = [i \in 1..n |-> [kind |-> k, part |-> i]]
    BY DEF Stream!Message
  <1> HIDE DEF n
  <1>3. Stream!Message(k) \in Seq(Units)
    BY <1>1, <1>2
  <1>4. Len(Stream!Message(k)) = n /\ Stream!Message(k) # <<>>
    BY <1>1, <1>2
  <1> QED  BY <1>1, <1>2, <1>3, <1>4 DEF Piece, EndsWhole, Follows, n

\* Cutting a piece gives two that fit together.
LEMMA CutPiece ==
  ASSUME NEW s, Piece(s), NEW n \in 0..Len(s)
  PROVE  LET b == SubSeq(s, 1, n)
             r == SubSeq(s, n + 1, Len(s))
         IN  /\ Piece(b) /\ Len(b) = n /\ \A i \in 1..n : b[i] = s[i]
             /\ Piece(r) /\ Len(r) = Len(s) - n /\ \A i \in 1..(Len(s) - n) : r[i] = s[n + i]
             /\ (n = 0 <=> b = <<>>) /\ (n = Len(s) <=> r = <<>>)
             /\ n \in 1..(Len(s) - 1) => Follows(b[n], r[1])
             /\ EndsWhole(s) => EndsWhole(r)
             /\ n = Len(s) => b = s
             /\ n = 0 => r = s
  <1> DEFINE b == SubSeq(s, 1, n)
             r == SubSeq(s, n + 1, Len(s))
  <1>1. s \in Seq(Units) /\ Len(s) \in Nat /\ n \in Nat /\ n <= Len(s)
    BY LenProperties DEF Piece
  <1>2. \A i \in 1..Len(s) : s[i] \in Units
    BY <1>1, ElementOfSeq
  <1>3. b \in Seq(Units) /\ Len(b) = n /\ \A i \in 1..n : b[i] = s[i]
    BY <1>1, <1>2, SubSeqProperties
  <1>4. /\ r \in Seq(Units) /\ Len(r) = Len(s) - n
        /\ \A i \in 1..(Len(s) - n) : r[i] = s[n + i]
    BY <1>1, <1>2, SubSeqProperties
  <1> HIDE DEF b, r
  <1>5. (n = 0 <=> b = <<>>) /\ (n = Len(s) <=> r = <<>>)
    BY <1>1, <1>3, <1>4, EmptySeq
  <1>6. Piece(b)
    BY <1>1, <1>3 DEF Piece
  <1>7. Piece(r)
    <2> SUFFICES ASSUME NEW i \in 1..(Len(r) - 1) PROVE Follows(r[i], r[i + 1])
      BY <1>4 DEF Piece
    <2>1. r[i] = s[n + i] /\ r[i + 1] = s[(n + i) + 1] /\ n + i \in 1..(Len(s) - 1)
      BY <1>1, <1>4
    <2> QED  BY <2>1 DEF Piece
  <1>8. n \in 1..(Len(s) - 1) => Follows(b[n], r[1])
    BY <1>1, <1>3, <1>4 DEF Piece
  <1>9. EndsWhole(s) => EndsWhole(r)
    BY <1>1, <1>4, <1>5 DEF EndsWhole
  <1>10. (n = Len(s) => b = s) /\ (n = 0 => r = s)
    BY <1>1, <1>3, <1>4, SeqEqual
  <1> QED  BY <1>3, <1>4, <1>5, <1>6, <1>7, <1>8, <1>9, <1>10 DEF b, r

\* A piece that begins with a message and is long enough has the whole of it.
LEMMA MessageIsThere ==
  ASSUME NEW s, Piece(s), s # <<>>, Head(s).part = 1, Stream!Size[Head(s).kind] <= Len(s)
  PROVE  /\ Stream!Size[Head(s).kind] \in 2..4
         /\ SubSeq(s, 1, Stream!Size[Head(s).kind]) = Stream!Message(Head(s).kind)
  <1> DEFINE k == Head(s).kind
             n == Stream!Size[k]
             b == SubSeq(s, 1, n)
             c == Stream!Message(k)
  <1>1. s \in Seq(Units) /\ Len(s) \in Nat /\ Head(s) = s[1] /\ Len(s) # 0
    BY LenProperties, EmptySeq DEF Piece
  <1>2. s[1] \in Units
    BY <1>1, ElementOfSeq
  <1>3. k \in DOMAIN Stream!Size /\ n \in 2..4 /\ n <= Len(s) /\ s[1] = [kind |-> k, part |-> 1]
    BY <1>1, <1>2, UnitsAre
  <1>4. b \in Seq(Units) /\ Len(b) = n /\ \A i \in 1..n : b[i] = s[i]
    BY <1>1, <1>3, CutPiece DEF Piece
  <1>5. c \in Seq(Units) /\ Len(c) = n /\ \A i \in 1..n : c[i] = [kind |-> k, part |-> i]
    BY <1>3, MessageIsPiece DEF Piece, Stream!Message
  <1> HIDE DEF n, b, c, k
  <1>6. ASSUME NEW i \in 1..(n - 1), s[i] = [kind |-> k, part |-> i]
        PROVE  s[i + 1] = [kind |-> k, part |-> i + 1]
    <2>1. Follows(s[i], s[i + 1])
      BY <1>1, <1>3 DEF Piece
    <2> QED  BY <2>1, <1>3, <1>6 DEF Follows, n
  <1>7. s[2] = [kind |-> k, part |-> 2]
    BY <1>3, <1>6
  <1>8. n >= 3 => s[3] = [kind |-> k, part |-> 3]
    BY <1>3, <1>6, <1>7
  <1>9. n = 4 => s[4] = [kind |-> k, part |-> 4]
    BY <1>3, <1>6, <1>8
  <1>10. \A i \in 1..n : s[i] = [kind |-> k, part |-> i]
    BY <1>3, <1>7, <1>8, <1>9
  <1>11. b = c
    BY <1>3, <1>4, <1>5, <1>10, SeqEqual
  <1> QED  BY <1>3, <1>11 DEF n, b, c, k

LEMMA ReadSends ==
  ASSUME ReadInv, NEW k \in DOMAIN Stream!Size, Stream!ServerSends(k)
  PROVE  ReadInv'
  <1> DEFINE c == Stream!Message(k)
  <1>1. /\ Piece(c) /\ EndsWhole(c) /\ Len(c) = Stream!Size[k] /\ c[1].part = 1
        /\ Len(c) \in 2..4 /\ c \in Seq(Units)
    BY MessageIsPiece, UnitsAre DEF Piece
  <1>2. stream' = stream \o c /\ buffer' = buffer /\ reader' = reader
    BY DEF Stream!ServerSends
  <1>3. /\ stream \in Seq(Units) /\ Len(stream) \in Nat /\ (stream = <<>> <=> Len(stream) = 0)
        /\ buffer \in Seq(Units) /\ Len(buffer) \in Nat /\ (buffer = <<>> <=> Len(buffer) = 0)
    BY LenProperties, EmptySeq DEF ReadInv, Piece
  <1> HIDE DEF c
  <1>4. /\ stream' \in Seq(Units) /\ Len(stream') = Len(stream) + Len(c) /\ stream' # <<>>
        /\ \A i \in 1..(Len(stream) + Len(c)) :
              stream'[i] = IF i <= Len(stream) THEN stream[i] ELSE c[i - Len(stream)]
    BY <1>1, <1>2, <1>3, ConcatProperties, EmptySeq
  <1>5. Piece(stream')
    <2> SUFFICES ASSUME NEW i \in 1..(Len(stream') - 1) PROVE Follows(stream'[i], stream'[i + 1])
      BY <1>4 DEF Piece
    <2>1. CASE i < Len(stream)
      <3>1. /\ i \in 1..(Len(stream) - 1) /\ i + 1 <= Len(stream)
            /\ i \in 1..(Len(stream) + Len(c)) /\ i + 1 \in 1..(Len(stream) + Len(c))
        BY <2>1, <1>1, <1>3, <1>4
      <3>2. stream'[i] = stream[i] /\ stream'[i + 1] = stream[i + 1]
        BY <3>1, <2>1, <1>4
      <3>3. Piece(stream)
        BY DEF ReadInv
      <3> QED  BY <3>1, <3>2, <3>3 DEF Piece
    <2>2. CASE i = Len(stream)
      <3>1. stream'[i] = stream[Len(stream)] /\ stream'[i + 1] = c[1] /\ stream # <<>>
        BY <2>2, <1>1, <1>3, <1>4
      <3>2. stream[Len(stream)].part = Stream!Size[stream[Len(stream)].kind]
        BY <3>1 DEF ReadInv, EndsWhole
      <3>3. stream[Len(stream)] \in Units
        BY <3>1, <1>3, ElementOfSeq
      <3>4. Stream!Size[stream[Len(stream)].kind] \in 2..4
        BY <3>3, UnitsAre
      <3> QED  BY <3>1, <3>2, <3>4, <1>1 DEF Follows
    <2>3. CASE i > Len(stream)
      <3>1. /\ stream'[i] = c[i - Len(stream)] /\ stream'[i + 1] = c[(i - Len(stream)) + 1]
            /\ i - Len(stream) \in 1..(Len(c) - 1)
        <4>1. /\ Len(c) \in Nat /\ i \in Nat /\ i <= Len(stream) + Len(c) - 1
              /\ i \in 1..(Len(stream) + Len(c)) /\ i + 1 \in 1..(Len(stream) + Len(c))
          BY <1>1, <1>3, <1>4
        <4>2. stream'[i] = c[i - Len(stream)] /\ stream'[i + 1] = c[(i + 1) - Len(stream)]
          BY <4>1, <2>3, <1>3, <1>4
        <4>3. (i + 1) - Len(stream) = (i - Len(stream)) + 1
          BY <4>1, <1>3
        <4> QED  BY <4>1, <4>2, <4>3, <2>3, <1>3
      <3>2. \A j \in 1..(Len(c) - 1) : Follows(c[j], c[j + 1])
        BY <1>1 DEF Piece
      <3>3. Follows(c[i - Len(stream)], c[(i - Len(stream)) + 1])
        BY <3>1, <3>2
      <3> QED  BY <3>1, <3>3
    <2> QED  BY <2>1, <2>2, <2>3, <1>1, <1>3, <1>4
  <1>6. EndsWhole(stream')
    <2>1. stream'[Len(stream')] = c[Len(c)]
      BY <1>1, <1>3, <1>4
    <2>2. c # <<>>
      BY <1>1, EmptySeq
    <2> QED  BY <2>1, <2>2, <1>1 DEF EndsWhole
  <1>7. buffer # <<>> => Follows(buffer[Len(buffer)], stream'[1])
    <2> SUFFICES ASSUME buffer # <<>> PROVE Follows(buffer[Len(buffer)], stream'[1])
      OBVIOUS
    <2>1. CASE stream = <<>>
      <3>1. stream'[1] = c[1]
        BY <2>1, <1>1, <1>3, <1>4
      <3>2. buffer[Len(buffer)].part = Stream!Size[buffer[Len(buffer)].kind]
        BY <2>1 DEF ReadInv, EndsWhole
      <3>3. buffer[Len(buffer)] \in Units
        BY <1>3, ElementOfSeq
      <3>4. Stream!Size[buffer[Len(buffer)].kind] \in 2..4
        BY <3>3, UnitsAre
      <3> QED  BY <3>1, <3>2, <3>4, <1>1 DEF Follows
    <2>2. CASE stream # <<>>
      <3>1. 1 \in 1..(Len(stream) + Len(c)) /\ 1 <= Len(stream)
        BY <2>2, <1>1, <1>3
      <3>2. stream'[1] = stream[1]
        BY <3>1, <1>4
      <3>3. Follows(buffer[Len(buffer)], stream[1])
        BY <2>2 DEF ReadInv
      <3> QED  BY <3>2, <3>3
    <2> QED  BY <2>1, <2>2
  <1> QED  BY <1>2, <1>4, <1>5, <1>6, <1>7 DEF ReadInv

LEMMA ReadReads ==
  ASSUME ReadInv, Stream!Read
  PROVE  /\ ReadInv'
         /\ Stream!Torn(stream)' => Len(stream) > ReadSize
  <1> DEFINE n == IF Len(stream) < ReadSize THEN Len(stream) ELSE ReadSize
  <1>1. stream \in Seq(Units) /\ Len(stream) \in Nat /\ (stream = <<>> <=> Len(stream) = 0)
    BY LenProperties, EmptySeq DEF ReadInv, Piece
  <1>2. n \in 0..Len(stream) /\ (n = Len(stream) \/ n = ReadSize)
    BY <1>1, ReadAssumption
  <1>3. /\ buffer' = SubSeq(stream, 1, n) /\ stream' = SubSeq(stream, n + 1, Len(stream))
        /\ reader' = "read"
    BY DEF Stream!Read
  <1> HIDE DEF n
  <1>4. /\ Piece(buffer') /\ Len(buffer') = n
        /\ Piece(stream') /\ (n = 0 <=> buffer' = <<>>) /\ (n = Len(stream) <=> stream' = <<>>)
        /\ n \in 1..(Len(stream) - 1) => Follows(buffer'[n], stream'[1])
        /\ EndsWhole(stream')
        /\ n = Len(stream) => buffer' = stream
    BY <1>2, <1>3, CutPiece DEF ReadInv
  <1>5. ReadInv'
    <2>1. stream' = <<>> => EndsWhole(buffer')
      BY <1>4 DEF ReadInv
    <2>2. buffer' # <<>> /\ stream' # <<>> => Follows(buffer'[Len(buffer')], stream'[1])
      BY <1>1, <1>2, <1>4
    <2> QED  BY <1>3, <1>4, <2>1, <2>2 DEF ReadInv
  <1>6. stream' # <<>> => Len(stream) > ReadSize
    BY <1>1, <1>2, <1>4, ReadAssumption
  <1> QED  BY <1>5, <1>6 DEF Stream!Torn

LEMMA ReadHandles ==
  ASSUME ReadInv, Stream!HandleMessage
  PROVE  ReadInv' /\ WholeMessage'
  <1> DEFINE k == Head(buffer).kind
             n == Stream!Size[k]
  <1>1. /\ reader = "read" /\ buffer # <<>> /\ Head(buffer).part = 1 /\ n <= Len(buffer)
        /\ stream' = stream /\ reader' = reader
    BY DEF Stream!HandleMessage, Stream!Complete, Stream!Begins
  <1>2. n \in 2..4 /\ SubSeq(buffer, 1, n) = Stream!Message(k)
    BY <1>1, MessageIsThere DEF ReadInv
  <1>3. Stream!Shorter(n, buffer) = n \/ n = Len(buffer)
    BY <1>1, <1>2, LenProperties DEF Stream!Shorter, ReadInv, Piece
  <1>4. Stream!Shorter(n, buffer) = n
    BY <1>3 DEF Stream!Shorter
  <1>5. got' = SubSeq(buffer, 1, n) /\ buffer' = SubSeq(buffer, n + 1, Len(buffer))
    BY <1>4 DEF Stream!HandleMessage
  <1>6. k \in DOMAIN Stream!Size
    <2>1. buffer \in Seq(Units) /\ Head(buffer) \in Units
      BY <1>1, HeadTailProperties DEF ReadInv, Piece
    <2> QED  BY <2>1, UnitsAre
  <1>7. Head(Stream!Message(k)).kind = k
    BY <1>2, <1>6, MessageIsPiece DEF Stream!Message
  <1>8. Piece(buffer) /\ Len(buffer) \in Nat
    BY LenProperties DEF ReadInv, Piece
  <1> HIDE DEF n, k
  <1>9. /\ Piece(buffer') /\ Len(buffer') = Len(buffer) - n
        /\ (n = Len(buffer) <=> buffer' = <<>>)
        /\ \A i \in 1..(Len(buffer) - n) : buffer'[i] = buffer[n + i]
        /\ EndsWhole(buffer) => EndsWhole(buffer')
    BY <1>1, <1>2, <1>5, <1>8, CutPiece
  <1>10. buffer' # <<>> => buffer'[Len(buffer')] = buffer[Len(buffer)]
    BY <1>1, <1>2, <1>8, <1>9
  <1>11. ReadInv'
    BY <1>1, <1>9, <1>10 DEF ReadInv
  <1> QED  BY <1>2, <1>5, <1>7, <1>11 DEF WholeMessage

\* Where a message begins that is not all there, the next units are in the socket.
LEMMA CutMessage ==
  ASSUME ReadInv, Stream!EndRead, buffer # <<>>, ~Stream!Torn(buffer)
  PROVE  Stream!Torn(stream)
  <1>1. Head(buffer).part = 1 /\ ~(Stream!Size[Head(buffer).kind] <= Len(buffer))
    BY DEF Stream!EndRead, Stream!Torn, Stream!Begins, Stream!Complete
  <1>2. /\ buffer \in Seq(Units) /\ Len(buffer) \in Nat /\ Len(buffer) # 0
        /\ Head(buffer) = buffer[1]
        /\ \A i \in 1..(Len(buffer) - 1) : Follows(buffer[i], buffer[i + 1])
    BY LenProperties, EmptySeq DEF ReadInv, Piece
  <1> DEFINE k == buffer[1].kind
             n == Stream!Size[k]
  <1>3. n \in 2..4 /\ buffer[1] = [kind |-> k, part |-> 1] /\ Len(buffer) < n
    BY <1>1, <1>2, ElementOfSeq, UnitsAre
  <1> HIDE DEF k, n
  <1>4. Len(buffer) \in 1..3 /\ n \in 2..4
    <2>1. \A l \in Nat, m \in 2..4 : l # 0 /\ l < m => l \in 1..3
      OBVIOUS
    <2>2. Len(buffer) \in Nat /\ Len(buffer) # 0
      BY <1>2
    <2> QED  BY <1>3, <2>1, <2>2
  <1>5. Len(buffer) >= 2 => buffer[2] = [kind |-> k, part |-> 2]
    <2> SUFFICES ASSUME Len(buffer) >= 2 PROVE buffer[2] = [kind |-> k, part |-> 2]
      OBVIOUS
    <2>1. Follows(buffer[1], buffer[1 + 1])
      BY <1>2
    <2> QED  BY <2>1, <1>3, <1>4 DEF Follows, n
  <1>6. Len(buffer) = 3 => buffer[3] = [kind |-> k, part |-> 3]
    <2> SUFFICES ASSUME Len(buffer) = 3 PROVE buffer[3] = [kind |-> k, part |-> 3]
      OBVIOUS
    <2>1. Follows(buffer[2], buffer[2 + 1])
      BY <1>2
    <2> QED  BY <2>1, <1>3, <1>4, <1>5 DEF Follows, n
  <1>7. buffer[Len(buffer)] = [kind |-> k, part |-> Len(buffer)]
    <2>1. CASE Len(buffer) = 1
      BY <2>1, <1>3
    <2>2. CASE Len(buffer) = 2
      BY <2>2, <1>5
    <2>3. CASE Len(buffer) = 3
      BY <2>3, <1>6
    <2> QED  BY <2>1, <2>2, <2>3, <1>4
  <1>8. stream # <<>> /\ Follows(buffer[Len(buffer)], stream[1])
    BY <1>3, <1>7 DEF ReadInv, EndsWhole, n
  <1>9. stream[1] = [kind |-> k, part |-> Len(buffer) + 1] /\ Head(stream) = stream[1]
    BY <1>3, <1>7, <1>8 DEF Follows, n
  <1> QED  BY <1>4, <1>8, <1>9 DEF Stream!Torn, Stream!Begins

\* Every step of the stream.
LEMMA ReadNext == ReadInv /\ WholeMessage /\ [Stream!Next]_Stream!vars => ReadInv' /\ WholeMessage'
  <1> SUFFICES ASSUME ReadInv, WholeMessage, [Stream!Next]_Stream!vars
               PROVE  ReadInv' /\ WholeMessage'
    OBVIOUS
  <1>1. CASE Stream!Connect
    BY <1>1, EmptySeq DEF Stream!Connect, ReadInv, WholeMessage, Piece, EndsWhole
  <1>2. CASE Stream!Disconnect
    BY <1>2, EmptySeq DEF Stream!Disconnect, ReadInv, WholeMessage, Piece, EndsWhole
  <1>3. CASE Stream!Read
    BY <1>3, ReadReads DEF Stream!Read, WholeMessage
  <1>4. CASE Stream!HandleMessage
    BY <1>4, ReadHandles
  <1>5. CASE Stream!EndRead
    BY <1>5, EmptySeq DEF Stream!EndRead, ReadInv, WholeMessage, Piece, EndsWhole
  <1>6. ASSUME NEW k \in DOMAIN Stream!Size, Stream!ServerSends(k) PROVE ReadInv' /\ WholeMessage'
    BY <1>6, ReadSends DEF Stream!ServerSends, WholeMessage
  <1>7. CASE UNCHANGED Stream!vars
    BY <1>7 DEF Stream!vars, ReadInv, WholeMessage, Piece, EndsWhole
  <1> QED  BY <1>1, <1>2, <1>3, <1>4, <1>5, <1>6, <1>7 DEF Stream!Next, Stream!ThreadStep

LEMMA ReadInit == Stream!Init => ReadInv /\ WholeMessage
  BY EmptySeq DEF Stream!Init, ReadInv, WholeMessage, Piece, EndsWhole

\* Nothing but whole messages reaches the plugin, however the reads cut the stream.
THEOREM MessagesAreWhole == Stream!Spec => [](ReadInv /\ WholeMessage)
  BY ReadInit, ReadNext, PTL DEF Stream!Spec

\* What a read throws away was cut, and messages are cut only when more waits
\* than one read takes: the safety half of what LossyChannel allows to be lost.
THEOREM LossesAreOverruns == Stream!Spec => OnlyOverrunsLose
  <1> DEFINE A == /\ Stream!EndRead =>
                       buffer = <<>> \/ Stream!Torn(buffer) \/ Stream!Torn(stream)
                  /\ Stream!Torn(stream)' /\ ~Stream!Torn(stream) =>
                       reader = "wait" /\ Len(stream) > ReadSize
  <1>1. ReadInv /\ [Stream!Next]_Stream!vars => [A]_Stream!vars
    <2> SUFFICES ASSUME ReadInv, Stream!Next PROVE A
      OBVIOUS
    <2>1. Stream!EndRead => buffer = <<>> \/ Stream!Torn(buffer) \/ Stream!Torn(stream)
      BY CutMessage
    <2>2. ASSUME Stream!Torn(stream)', ~Stream!Torn(stream)
          PROVE  reader = "wait" /\ Len(stream) > ReadSize
      <3>1. CASE Stream!Read
        BY <3>1, <2>2, ReadReads DEF Stream!Read
      <3>2. CASE Stream!Connect \/ Stream!Disconnect
        BY <3>2, <2>2 DEF Stream!Connect, Stream!Disconnect, Stream!Torn
      <3>3. CASE Stream!HandleMessage \/ Stream!EndRead
        BY <3>3, <2>2 DEF Stream!HandleMessage, Stream!EndRead, Stream!Torn, Stream!Begins
      <3>4. ASSUME NEW k \in DOMAIN Stream!Size, Stream!ServerSends(k) PROVE FALSE
        <4> DEFINE c == Stream!Message(k)
        <4>1. /\ c \in Seq(Units) /\ c[1].part = 1 /\ Len(c) \in 2..4
              /\ stream \in Seq(Units) /\ Len(stream) \in Nat /\ stream' = stream \o c
              /\ (stream = <<>> <=> Len(stream) = 0)
          BY <3>4, MessageIsPiece, UnitsAre, LenProperties, EmptySeq
             DEF Stream!ServerSends, ReadInv, Piece
        <4> HIDE DEF c
        <4>2. /\ stream' # <<>> /\ Head(stream') = stream'[1]
              /\ stream'[1] = IF stream = <<>> THEN c[1] ELSE stream[1]
              /\ stream # <<>> => Head(stream) = stream[1]
          BY <4>1, ConcatProperties, EmptySeq
        <4> QED  BY <4>1, <4>2, <2>2 DEF Stream!Torn, Stream!Begins
      <3> QED  BY <3>1, <3>2, <3>3, <3>4 DEF Stream!Next, Stream!ThreadStep
    <2> QED  BY <2>1, <2>2
  <1> HIDE DEF A
  <1>2. Stream!Spec => [][A]_Stream!vars
    BY <1>1, MessagesAreWhole, PTL DEF Stream!Spec
  <1> QED  BY <1>2 DEF A, OnlyOverrunsLose

-----------------------------------------------------------------------------
(* The behaviours of MCWstClient. *)

\* A behaviour of the composition is one of the frames and one of the messages
\* read, one of them idle.
THEOREM PartsAreBehaviours == PartsSpec => Spec /\ Stream!Spec
  <1>1. PartsInit => Init /\ Stream!Init
    BY DEF PartsInit
  <1>2. [PartsNext]_allVars => [Next]_vars /\ [Stream!Next]_Stream!vars
    BY DEF PartsNext, allVars, streamVars, Stream!vars
  <1> QED  BY <1>1, <1>2, PTL DEF PartsSpec, Spec, Stream!Spec

\* So the contract and what is reported hold with the fairness the code has, too.
THEOREM ReportsAreTrue ==
  DistinctTimes /\ NoOvertaking /\ PartsSpec =>
     KeepsContract /\ PauseAfterLastFrame /\ [](DisplayedWasShown /\ DroppedWasNotShown)
  <1> SUFFICES ASSUME DistinctTimes, NoOvertaking
               PROVE  PartsSpec => KeepsContract /\ PauseAfterLastFrame
                                     /\ [](DisplayedWasShown /\ DroppedWasNotShown)
    OBVIOUS
  <1>1. Spec => []DisplayedWasShown
    BY DisplayIsTrue
  <1>2. Spec => []DroppedWasNotShown
    BY DropIsTrue
  <1>3. Spec => PauseAfterLastFrame
    BY PauseIsLast
  <1> QED  BY <1>1, <1>2, <1>3, WesterosKeepsContract, PartsAreBehaviours, PTL
=============================================================================
