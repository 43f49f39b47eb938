------------------------- MODULE DrmPipeline_proofs -------------------------
(***************************************************************************)
(* The drm pipeline keeps its safety properties for every pool of buffers, *)
(* every delay and every outcome of the thread creation.                   *)
(***************************************************************************)
EXTENDS DrmPipeline, TLAPS

\* What relates the two threads, their queues and the reports.
ThreadInv ==
    /\ phase = "closed" =>
          /\ post = "none" /\ rec = "none" /\ onScreen = NoBuffer
          /\ postQueue = <<>> /\ recQueue = <<>>
    /\ phase = "stopRecycle" => post = "none" /\ postQueue = <<>>
    /\ post = "report" <=> posted # NoBuffer
    /\ rec = "fence" <=> fencing # NoBuffer
    /\ rec = "pop" => Len(recQueue) >= 2
    /\ posted # NoBuffer =>
          recQueue # <<>> /\ Newest(recQueue) = posted /\ fate[posted] = "none"
    /\ onScreen \in Buffers =>
          recQueue # <<>> /\ Newest(recQueue) = onScreen

\* A queued frame is unreported, a posted one displayed unless its report is
\* just being made.
FateInv ==
    /\ \A b \in Elements(postQueue) : fate[b] = "none"
    /\ \A b \in Elements(recQueue) : b = posted \/ fate[b] = "displayed"
    /\ fencing # NoBuffer => fate[fencing] = "displayed"

IInv == TypeOK /\ Ownership /\ ThreadInv /\ FateInv

-----------------------------------------------------------------------------
(* Sequences as queues. *)

\* An empty queue has no elements and no duplicates.
LEMMA EmptyQueue == Elements(<<>>) = {} /\ Distinct(<<>>)
  BY DEF Elements, Distinct

\* The newest element of a queue is one of its elements.
LEMMA NewestIsElement ==
  ASSUME NEW S, NEW s \in Seq(S), s # <<>>
  PROVE  Newest(s) \in Elements(s)
  BY DEF Newest, Elements

\* Elements of a queue over S are in S.
LEMMA ElementsInSet ==
  ASSUME NEW S, NEW s \in Seq(S)
  PROVE  Elements(s) \subseteq S
  BY DEF Elements

\* push
LEMMA PushQueue ==
  ASSUME NEW S, NEW s \in Seq(S), NEW e \in S
  PROVE  /\ Append(s, e) \in Seq(S)
         /\ Append(s, e) # <<>>
         /\ Len(Append(s, e)) = Len(s) + 1
         /\ Newest(Append(s, e)) = e
         /\ Elements(Append(s, e)) = Elements(s) \cup {e}
         /\ Distinct(s) /\ e \notin Elements(s) => Distinct(Append(s, e))
<1>1. /\ Append(s, e) \in Seq(S) /\ Append(s, e) # <<>>
      /\ Len(Append(s, e)) = Len(s) + 1 /\ Newest(Append(s, e)) = e
  BY DEF Newest
<1>2. \A i \in 1..Len(s) : Append(s, e)[i] = s[i]
  OBVIOUS
<1>3. Append(s, e)[Len(s) + 1] = e
  OBVIOUS
<1>4. Len(s) \in Nat
  OBVIOUS
<1>5. Elements(Append(s, e)) = Elements(s) \cup {e}
  BY <1>1, <1>2, <1>3, <1>4 DEF Elements
<1>6. ASSUME Distinct(s), e \notin Elements(s)
      PROVE  Distinct(Append(s, e))
  BY <1>1, <1>2, <1>3, <1>4, <1>6 DEF Elements, Distinct
<1> QED BY <1>1, <1>5, <1>6

\* pop
LEMMA PopQueue ==
  ASSUME NEW S, NEW s \in Seq(S), s # <<>>, Distinct(s)
  PROVE  /\ Tail(s) \in Seq(S)
         /\ Head(s) \in Elements(s)
         /\ Distinct(Tail(s))
         /\ Elements(Tail(s)) = Elements(s) \ {Head(s)}
         /\ Len(s) >= 2 => /\ Tail(s) # <<>>
                           /\ Newest(Tail(s)) = Newest(s)
<1>1. /\ Len(s) \in Nat /\ Len(s) > 0 /\ Head(s) = s[1]
      /\ Tail(s) \in Seq(S) /\ Len(Tail(s)) = Len(s) - 1
  OBVIOUS
<1>2. \A i \in 1..(Len(s) - 1) : Tail(s)[i] = s[i + 1]
  OBVIOUS
<1>3. Head(s) \in Elements(s)
  BY <1>1 DEF Elements
<1>4. Distinct(Tail(s))
  BY <1>1, <1>2 DEF Distinct
<1>5. Elements(Tail(s)) = Elements(s) \ {Head(s)}
  <2>1. ASSUME NEW x \in Elements(Tail(s)) PROVE x \in Elements(s) \ {Head(s)}
    <3>1. PICK i \in 1..(Len(s) - 1) : x = s[i + 1]
      BY <1>1, <1>2, <2>1 DEF Elements
    <3>2. i + 1 \in 1..Len(s) /\ i + 1 # 1 /\ 1 \in 1..Len(s)
      BY <1>1, <3>1
    <3> QED BY <1>1, <3>1, <3>2 DEF Elements, Distinct
  <2>2. ASSUME NEW x \in Elements(s) \ {Head(s)} PROVE x \in Elements(Tail(s))
    <3>1. PICK i \in 1..Len(s) : x = s[i] /\ i # 1
      BY <1>1, <2>2 DEF Elements
    <3>2. i - 1 \in 1..(Len(s) - 1) /\ Tail(s)[i - 1] = s[i]
      BY <1>1, <1>2, <3>1
    <3> QED BY <1>1, <3>1, <3>2 DEF Elements
  <2> QED BY <2>1, <2>2
<1>6. Len(s) >= 2 => Tail(s) # <<>> /\ Newest(Tail(s)) = Newest(s)
  <2> SUFFICES ASSUME Len(s) >= 2
               PROVE  Tail(s) # <<>> /\ Newest(Tail(s)) = Newest(s)
    OBVIOUS
  <2>1. Len(s) - 1 \in 1..(Len(s) - 1) /\ (Len(s) - 1) + 1 = Len(s)
    BY <1>1
  <2>2. Len(Tail(s)) # Len(<<>>)
    BY <1>1
  <2>3. Tail(s)[Len(s) - 1] = s[Len(s)]
    BY <1>2, <2>1
  <2> QED BY <1>1, <2>2, <2>3 DEF Newest
<1> QED BY <1>1, <1>3, <1>4, <1>5, <1>6

\* Taking the first n elements.
LEMMA TakeQueue ==
  ASSUME NEW S, NEW s \in Seq(S), NEW n \in 1..Len(s), Distinct(s)
  PROVE  LET t == SubSeq(s, n + 1, Len(s))
         IN  /\ t \in Seq(S)
             /\ Distinct(t)
             /\ Elements(t) = Elements(s) \ {s[i] : i \in 1..n}
             /\ {s[i] : i \in 1..n} \subseteq Elements(s)
             /\ {s[i] : i \in 1..(n - 1)} = {s[i] : i \in 1..n} \ {s[n]}
             /\ s[n] \in Elements(s)
<1> DEFINE t == SubSeq(s, n + 1, Len(s))
<1>1. Len(s) \in Nat /\ n \in Nat /\ n >= 1 /\ n <= Len(s)
  OBVIOUS
<1>2. t \in Seq(S) /\ Len(t) = Len(s) - n
  BY <1>1
<1>3. \A i \in 1..(Len(s) - n) : t[i] = s[n + i]
  BY <1>1
<1>4. Distinct(t)
  BY <1>1, <1>2, <1>3 DEF Distinct
<1>5. Elements(t) = Elements(s) \ {s[i] : i \in 1..n}
  <2>1. ASSUME NEW x \in Elements(t) PROVE x \in Elements(s) \ {s[i] : i \in 1..n}
    <3>1. PICK k \in 1..(Len(s) - n) : x = s[n + k]
      BY <1>2, <1>3, <2>1 DEF Elements
    <3>2. n + k \in 1..Len(s) /\ n + k \notin 1..n /\ 1..n \subseteq 1..Len(s)
      BY <1>1, <3>1
    <3> QED BY <3>1, <3>2 DEF Elements, Distinct
  <2>2. ASSUME NEW x \in Elements(s) \ {s[i] : i \in 1..n} PROVE x \in Elements(t)
    <3>1. PICK k \in 1..Len(s) : x = s[k] /\ k \notin 1..n
      BY <2>2 DEF Elements
    <3>2. k - n \in 1..(Len(s) - n) /\ t[k - n] = s[k]
      BY <1>1, <1>3, <3>1
    <3> QED BY <1>2, <3>1, <3>2 DEF Elements
  <2> QED BY <2>1, <2>2
<1>6. 1..n \subseteq 1..Len(s) /\ 1..(n - 1) = 1..n \ {n} /\ n \in 1..n
  BY <1>1
<1>7. {s[i] : i \in 1..n} \subseteq Elements(s) /\ s[n] \in Elements(s)
  BY <1>6 DEF Elements
<1>8. {s[i] : i \in 1..(n - 1)} = {s[i] : i \in 1..n} \ {s[n]}
  BY <1>6 DEF Distinct
<1> QED BY <1>2, <1>4, <1>5, <1>7, <1>8
-----------------------------------------------------------------------------
(* The invariant. *)

USE DEF Phases, PostPCs, RecPCs, Contract!Holders, Contract!Fates

LEMMA InitIInv == Init => IInv
<1> SUFFICES ASSUME Init PROVE IInv
  OBVIOUS
<1>1. TypeOK
  <2>1. 0 \in 0..MaxDelay
    BY DelayAssumption
  <2>2. <<>> \in Seq(Buffers)
    OBVIOUS
  <2> QED BY <2>1, <2>2 DEF Init, TypeOK
<1>2. Ownership
  BY EmptyQueue, BuffersAssumption DEF Init, Ownership
<1>3. ThreadInv
  BY BuffersAssumption DEF Init, ThreadInv
<1>4. FateInv
  BY EmptyQueue DEF Init, FateInv
<1> QED BY <1>1, <1>2, <1>3, <1>4 DEF IInv

LEMMA OpenWindowIInv == IInv /\ OpenWindow => IInv'
  BY BuffersAssumption, ThreadAssumption
  DEF IInv, TypeOK, Ownership, ThreadInv, FateInv, OpenWindow, reportVars

LEMMA DisplayFrameIInv ==
  ASSUME IInv, NEW b \in Buffers, DisplayFrame(b) PROVE IInv'
<1> DEFINE q == Append(postQueue, b)
<1>1. /\ q \in Seq(Buffers)
      /\ Elements(q) = Elements(postQueue) \cup {b}
      /\ Distinct(postQueue) /\ b \notin Elements(postQueue) => Distinct(q)
  BY PushQueue DEF IInv, TypeOK
<1>2. b # NoBuffer /\ b \notin Elements(postQueue) \cup Elements(recQueue) \cup {fencing}
  BY BuffersAssumption DEF IInv, Ownership, DisplayFrame
<1>3. b # posted
  <2>1. posted # NoBuffer => posted \in Elements(recQueue)
    BY NewestIsElement DEF IInv, TypeOK, ThreadInv
  <2> QED BY <1>2, <2>1
<1>4. postQueue' = q
  BY DEF DisplayFrame
<1> HIDE DEF q
<1>5. TypeOK'
  BY <1>1, <1>4 DEF IInv, TypeOK, DisplayFrame, playerVars, recVars
<1>6. Ownership'
  BY <1>1, <1>2, <1>4 DEF IInv, TypeOK, Ownership, DisplayFrame, recVars
<1>7. ThreadInv'
  BY <1>3, <1>4 DEF IInv, TypeOK, ThreadInv, DisplayFrame, playerVars, recVars
<1>8. FateInv'
  BY <1>1, <1>2, <1>4 DEF IInv, TypeOK, FateInv, DisplayFrame, recVars
<1> QED BY <1>5, <1>6, <1>7, <1>8 DEF IInv

\* What the elements of the queues are, in every state of the invariant.
LEMMA QueueFacts ==
  ASSUME IInv
  PROVE  /\ Elements(postQueue) \subseteq Buffers
         /\ Elements(recQueue) \subseteq Buffers
         /\ NoBuffer \notin Elements(postQueue) \cup Elements(recQueue)
         /\ posted # NoBuffer => posted \in Elements(recQueue)
         /\ onScreen \in Buffers => onScreen \in Elements(recQueue)
<1>1. postQueue \in Seq(Buffers) /\ recQueue \in Seq(Buffers)
  BY DEF IInv, TypeOK
<1>2. Elements(postQueue) \subseteq Buffers /\ Elements(recQueue) \subseteq Buffers
  BY <1>1, ElementsInSet
<1>3. recQueue # <<>> => Newest(recQueue) \in Elements(recQueue)
  BY <1>1, NewestIsElement
<1> QED BY <1>2, <1>3, BuffersAssumption DEF IInv, ThreadInv

LEMMA RefuseFrameIInv ==
  ASSUME IInv, NEW b \in Buffers, RefuseFrame(b) PROVE IInv'
<1>1. b \notin Elements(postQueue) \cup Elements(recQueue) \cup {fencing}
  BY DEF IInv, Ownership, RefuseFrame
<1>2. TypeOK'
  BY DEF IInv, TypeOK, RefuseFrame, GiveBack, playerVars, postVars, recVars
<1>3. Ownership'
  BY <1>1 DEF IInv, TypeOK, Ownership, RefuseFrame, GiveBack, postVars, recVars
<1>4. ThreadInv'
  BY <1>1, QueueFacts
  DEF IInv, TypeOK, ThreadInv, RefuseFrame, GiveBack, playerVars, postVars, recVars
<1>5. FateInv'
  BY <1>1, QueueFacts
  DEF IInv, TypeOK, FateInv, RefuseFrame, GiveBack, postVars, recVars
<1> QED BY <1>2, <1>3, <1>4, <1>5 DEF IInv

LEMMA FlushIInv == ASSUME IInv, Flush PROVE IInv'
<1>1. postQueue' = <<>> /\ Elements(postQueue') = {} /\ Distinct(postQueue')
  BY EmptyQueue DEF Flush
<1>2. TypeOK'
  BY DEF IInv, TypeOK, Flush, GiveBack, playerVars, recVars
<1>3. Ownership'
  BY <1>1, BuffersAssumption DEF IInv, TypeOK, Ownership, Flush, GiveBack, recVars
<1>4. ThreadInv'
  BY QueueFacts
  DEF IInv, TypeOK, Ownership, ThreadInv, Flush, GiveBack, playerVars, recVars
<1>5. FateInv'
  BY <1>1, QueueFacts
  DEF IInv, TypeOK, Ownership, FateInv, Flush, GiveBack, recVars
<1> QED BY <1>2, <1>3, <1>4, <1>5 DEF IInv

\* The calls that only set a flag of the player's or of the screen.
LEMMA FlagsIInv ==
  ASSUME IInv,
         \/ \E on \in BOOLEAN : SetPaused(on) \/ SetImmediate(on)
         \/ ShowBlackFrame
         \/ CloseWindow
  PROVE  IInv'
<1>1. UNCHANGED <<postVars, recVars, reportVars>>
  BY DEF SetPaused, SetImmediate, ShowBlackFrame, CloseWindow
<1>2. TypeOK'
  BY <1>1 DEF IInv, TypeOK, SetPaused, SetImmediate, ShowBlackFrame, CloseWindow,
              playerVars, postVars, recVars, reportVars
<1>3. Ownership'
  BY <1>1 DEF IInv, Ownership, postVars, recVars, reportVars
<1>4. ThreadInv'
  BY <1>1, BuffersAssumption
  DEF IInv, ThreadInv, SetPaused, SetImmediate, ShowBlackFrame, CloseWindow,
      playerVars, postVars, recVars, reportVars
<1>5. FateInv'
  BY <1>1 DEF IInv, FateInv, postVars, recVars, reportVars
<1> QED BY <1>2, <1>3, <1>4, <1>5 DEF IInv

LEMMA JoinPostIInv == ASSUME IInv, JoinPost PROVE IInv'
<1>1. postQueue' = <<>> /\ Elements(postQueue') = {} /\ Distinct(postQueue')
  BY EmptyQueue DEF JoinPost
<1>2. posted = NoBuffer
  BY DEF JoinPost, IInv, ThreadInv
<1>3. TypeOK'
  BY DEF IInv, TypeOK, JoinPost, GiveBack, recVars
<1>4. Ownership'
  BY <1>1, BuffersAssumption DEF IInv, TypeOK, Ownership, JoinPost, GiveBack, recVars
<1>5. ThreadInv'
  BY <1>1, <1>2 DEF IInv, ThreadInv, JoinPost, recVars
<1>6. FateInv'
  BY <1>1, <1>2, QueueFacts
  DEF IInv, TypeOK, Ownership, FateInv, JoinPost, GiveBack, recVars
<1> QED BY <1>3, <1>4, <1>5, <1>6 DEF IInv

LEMMA JoinRecycleIInv == ASSUME IInv, JoinRecycle PROVE IInv'
<1>1. recQueue' = <<>> /\ Elements(recQueue') = {} /\ Distinct(recQueue')
  BY EmptyQueue DEF JoinRecycle
<1>2. post = "none" /\ posted = NoBuffer /\ fencing = NoBuffer
  BY DEF JoinRecycle, IInv, ThreadInv
<1>3. TypeOK'
  <2>1. /\ holder' \in [Buffers -> Contract!Holders] /\ fate' \in [Buffers -> Contract!Fates]
    BY DEF IInv, TypeOK, JoinRecycle, GiveBack
  <2>2. recQueue' \in Seq(Buffers)
    BY <1>1
  <2> QED BY <2>1, <2>2 DEF IInv, TypeOK, JoinRecycle, postVars
<1>4. Ownership'
  BY <1>1, <1>2, BuffersAssumption
  DEF IInv, TypeOK, Ownership, JoinRecycle, GiveBack, postVars
<1>5. ThreadInv'
  BY <1>1, <1>2, BuffersAssumption DEF IInv, ThreadInv, JoinRecycle, postVars
<1>6. FateInv'
  BY <1>1, <1>2, QueueFacts
  DEF IInv, TypeOK, Ownership, FateInv, JoinRecycle, GiveBack, postVars
<1> QED BY <1>3, <1>4, <1>5, <1>6 DEF IInv

-----------------------------------------------------------------------------
(* The post thread. *)

LEMMA PostWaitIInv ==
  ASSUME IInv, PostTop \/ PostVBlank \/ PostVBlankError \/ PostIdle
  PROVE  IInv'
<1>1. UNCHANGED <<playerVars, postQueue, posted, recVars, reportVars, onScreen>>
  BY DEF PostTop, PostVBlank, PostVBlankError, PostIdle
<1>2. TypeOK'
  <2>1. due' \in [Buffers -> 0..MaxDelay]
    <3>1. due \in [Buffers -> 0..MaxDelay] /\ 0 \in 0..MaxDelay
      BY DelayAssumption DEF IInv, TypeOK
    <3>2. \A n \in 0..MaxDelay : n > 0 => n - 1 \in 0..MaxDelay
      BY DelayAssumption
    <3>3. \/ due' = due
          \/ due' = [b \in Buffers |-> IF due[b] > 0 THEN due[b] - 1 ELSE 0]
      BY DEF PostTop, PostVBlank, PostVBlankError, PostIdle
    <3> QED  BY <3>1, <3>2, <3>3
  <2> QED BY <1>1, <2>1
    DEF IInv, TypeOK, PostTop, PostVBlank, PostVBlankError, PostIdle,
        playerVars, recVars, reportVars
<1>3. Ownership'
  BY <1>1 DEF IInv, Ownership, recVars, reportVars
<1>4. ThreadInv'
  BY <1>1 DEF IInv, ThreadInv, PostTop, PostVBlank, PostVBlankError, PostIdle,
              playerVars, recVars, reportVars
<1>5. FateInv'
  BY <1>1 DEF IInv, FateInv, recVars, reportVars
<1> QED BY <1>2, <1>3, <1>4, <1>5 DEF IInv

LEMMA PostNewestIInv == ASSUME IInv, PostNewest PROVE IInv'
<1>1. PICK n \in 1..Len(postQueue) :
         /\ RecycleFrame(postQueue[n], {postQueue[i] : i \in 1..(n - 1)})
         /\ posted' = postQueue[n]
         /\ onScreen' = postQueue[n]
         /\ postQueue' = SubSeq(postQueue, n + 1, Len(postQueue))
  BY DEF PostNewest
<1> DEFINE b == postQueue[n]
           taken == {postQueue[i] : i \in 1..n}
           older == {postQueue[i] : i \in 1..(n - 1)}
<1>2. /\ postQueue' \in Seq(Buffers) /\ Distinct(postQueue')
      /\ Elements(postQueue') = Elements(postQueue) \ taken
      /\ taken \subseteq Elements(postQueue)
      /\ older = taken \ {b} /\ b \in Elements(postQueue)
  BY <1>1, TakeQueue DEF IInv, TypeOK, Ownership
<1>3. b \in taken
  <2>1. n \in 1..n
    OBVIOUS
  <2> QED BY <2>1
<1>4. phase # "stopRecycle" /\ phase # "closed" /\ posted = NoBuffer
  BY DEF IInv, ThreadInv, PostNewest
<1>5. /\ GiveBack(older, {})
      /\ recQueue' = Append(recQueue, b)
      /\ waitFence' = (waitFence \/ Len(recQueue) + 1 > 2)
      /\ UNCHANGED <<rec, fencing>>
  BY <1>1, <1>4 DEF RecycleFrame, RecycleStopped
<1>6. b \in Buffers /\ b \notin Elements(recQueue) /\ b # fencing /\ b # NoBuffer
  BY <1>2, QueueFacts DEF IInv, Ownership
<1>7. /\ recQueue' \in Seq(Buffers) /\ recQueue' # <<>>
      /\ Len(recQueue') = Len(recQueue) + 1
      /\ Newest(recQueue') = b
      /\ Elements(recQueue') = Elements(recQueue) \cup {b}
      /\ Distinct(recQueue')
  BY <1>5, <1>6, PushQueue DEF IInv, TypeOK, Ownership
<1>8. posted' = b /\ onScreen' = b /\ post' = "report"
  BY <1>1 DEF PostNewest
<1>9. UNCHANGED <<phase, paused, immediate, due>>
  BY DEF PostNewest, playerVars
<1>10. Len(recQueue) \in Nat
  BY DEF IInv, TypeOK
<1> HIDE DEF b, taken, older
<1>11. TypeOK'
  BY <1>2, <1>5, <1>6, <1>7, <1>8, <1>9 DEF IInv, TypeOK, GiveBack
<1>12. Ownership'
  BY <1>2, <1>3, <1>5, <1>6, <1>7, QueueFacts DEF IInv, TypeOK, Ownership, GiveBack
<1>13. ThreadInv'
  <2>1. fate'[b] = "none"
    BY <1>2, <1>5, <1>6 DEF IInv, TypeOK, FateInv, GiveBack
  <2> QED BY <1>4, <1>5, <1>6, <1>7, <1>8, <1>9, <1>10, <2>1
    DEF IInv, ThreadInv, PostNewest
<1>14. FateInv'
  BY <1>2, <1>4, <1>5, <1>6, <1>7, <1>8, QueueFacts
  DEF IInv, TypeOK, Ownership, FateInv, GiveBack
<1> QED BY <1>11, <1>12, <1>13, <1>14 DEF IInv

LEMMA PostErrorIInv == ASSUME IInv, PostError PROVE IInv'
<1>1. PICK n \in 1..Len(postQueue) :
         /\ GiveBack({postQueue[i] : i \in 1..n}, {})
         /\ postQueue' = SubSeq(postQueue, n + 1, Len(postQueue))
  BY DEF PostError
<1> DEFINE taken == {postQueue[i] : i \in 1..n}
<1>2. /\ postQueue' \in Seq(Buffers) /\ Distinct(postQueue')
      /\ Elements(postQueue') = Elements(postQueue) \ taken
      /\ taken \subseteq Elements(postQueue)
      /\ GiveBack(taken, {})
  BY <1>1, TakeQueue DEF IInv, TypeOK, Ownership
<1>3. phase # "stopRecycle" /\ phase # "closed" /\ posted = NoBuffer
  BY DEF IInv, ThreadInv, PostError
<1> HIDE DEF taken
<1>4. TypeOK'
  BY <1>2 DEF IInv, TypeOK, PostError, GiveBack, playerVars, recVars
<1>5. Ownership'
  BY <1>2, QueueFacts DEF IInv, TypeOK, Ownership, PostError, GiveBack, recVars
<1>6. ThreadInv'
  BY <1>3 DEF IInv, ThreadInv, PostError, playerVars, recVars
<1>7. FateInv'
  BY <1>2, <1>3, QueueFacts
  DEF IInv, TypeOK, Ownership, FateInv, PostError, GiveBack, recVars
<1> QED BY <1>4, <1>5, <1>6, <1>7 DEF IInv

LEMMA PostReportIInv == ASSUME IInv, PostReport PROVE IInv'
<1>1. posted # NoBuffer /\ posted \in Elements(recQueue) /\ posted \in Buffers
  BY QueueFacts DEF PostReport, IInv, TypeOK, ThreadInv
<1>2. TypeOK'
  BY <1>1 DEF IInv, TypeOK, PostReport, playerVars, recVars
<1>3. Ownership'
  BY DEF IInv, Ownership, PostReport, recVars
<1>4. ThreadInv'
  BY DEF IInv, ThreadInv, PostReport, playerVars, recVars
<1>5. FateInv'
  BY <1>1, QueueFacts DEF IInv, TypeOK, Ownership, FateInv, PostReport, recVars
<1> QED BY <1>2, <1>3, <1>4, <1>5 DEF IInv

-----------------------------------------------------------------------------
(* The recycle thread. *)

LEMMA RecycleTopIInv == ASSUME IInv, RecycleTop PROVE IInv'
<1>1. UNCHANGED <<playerVars, postVars, recQueue, fencing, waitFence, reportVars, onScreen>>
  BY DEF RecycleTop
<1>2. TypeOK'
  BY <1>1 DEF IInv, TypeOK, RecycleTop, playerVars, postVars, reportVars
<1>3. Ownership'
  BY <1>1 DEF IInv, Ownership, postVars, reportVars
<1>4. ThreadInv'
  BY <1>1 DEF IInv, ThreadInv, RecycleTop, playerVars, postVars, reportVars
<1>5. FateInv'
  BY <1>1 DEF IInv, FateInv, postVars, reportVars
<1> QED BY <1>2, <1>3, <1>4, <1>5 DEF IInv

LEMMA RecyclePopIInv == ASSUME IInv, RecyclePop PROVE IInv'
<1>1. Len(recQueue) >= 2 /\ recQueue # <<>> /\ fencing = NoBuffer
  BY DEF RecyclePop, IInv, ThreadInv
<1>2. recQueue' = Tail(recQueue) /\ fencing' = Head(recQueue)
  BY DEF RecyclePop
<1>3. /\ recQueue' \in Seq(Buffers) /\ recQueue' # <<>> /\ Distinct(recQueue')
      /\ Elements(recQueue') = Elements(recQueue) \ {fencing'}
      /\ fencing' \in Elements(recQueue)
      /\ Newest(recQueue') = Newest(recQueue)
  BY <1>1, <1>2, PopQueue DEF IInv, TypeOK, Ownership
<1>4. fencing' \in Buffers /\ fencing' # NoBuffer /\ fencing' # posted
  <2>1. Newest(recQueue') \in Elements(recQueue')
    BY <1>3, NewestIsElement
  <2>2. posted # NoBuffer => posted = Newest(recQueue)
    BY DEF IInv, ThreadInv
  <2> QED BY <1>3, <2>1, <2>2, QueueFacts
<1>5. UNCHANGED <<playerVars, postVars, waitFence, reportVars, onScreen>> /\ rec' = "fence"
  BY DEF RecyclePop
<1>6. TypeOK'
  BY <1>3, <1>4, <1>5 DEF IInv, TypeOK, playerVars, postVars, reportVars
<1>7. Ownership'
  BY <1>1, <1>3, <1>4, <1>5, BuffersAssumption
  DEF IInv, Ownership, postVars, reportVars
<1>8. ThreadInv'
  BY <1>1, <1>3, <1>4, <1>5
  DEF IInv, ThreadInv, RecyclePop, playerVars, postVars, reportVars
<1>9. FateInv'
  BY <1>3, <1>4, <1>5 DEF IInv, FateInv, postVars, reportVars
<1> QED BY <1>6, <1>7, <1>8, <1>9 DEF IInv

LEMMA ReleaseFencedIInv == ASSUME IInv, ReleaseFenced PROVE IInv'
<1>1. fencing # NoBuffer /\ fencing \in Buffers
  BY DEF ReleaseFenced, IInv, TypeOK, ThreadInv
<1>2. TypeOK'
  BY DEF IInv, TypeOK, ReleaseFenced, GiveBack, playerVars, postVars
<1>3. Ownership'
  BY <1>1, QueueFacts, BuffersAssumption
  DEF IInv, TypeOK, Ownership, ReleaseFenced, GiveBack, postVars
<1>4. ThreadInv'
  BY QueueFacts
  DEF IInv, TypeOK, ThreadInv, ReleaseFenced, GiveBack, playerVars, postVars
<1>5. FateInv'
  BY QueueFacts DEF IInv, TypeOK, FateInv, ReleaseFenced, GiveBack, postVars
<1> QED BY <1>2, <1>3, <1>4, <1>5 DEF IInv

-----------------------------------------------------------------------------
(* The theorems. *)

LEMMA NextIInv == IInv /\ [Next]_vars => IInv'
<1> SUFFICES ASSUME IInv, [Next]_vars PROVE IInv'
  OBVIOUS
<1>1. CASE PlayerStep
  <2>1. CASE OpenWindow
    BY <2>1, OpenWindowIInv
  <2>2. CASE \E b \in Buffers : DisplayFrame(b) \/ RefuseFrame(b)
    BY <2>2, DisplayFrameIInv, RefuseFrameIInv
  <2>3. CASE Flush
    BY <2>3, FlushIInv
  <2>4. CASE \/ \E on \in BOOLEAN : SetPaused(on) \/ SetImmediate(on)
             \/ ShowBlackFrame
             \/ CloseWindow
    BY <2>4, FlagsIInv
  <2>5. CASE JoinPost
    BY <2>5, JoinPostIInv
  <2>6. CASE JoinRecycle
    BY <2>6, JoinRecycleIInv
  <2> QED BY <1>1, <2>1, <2>2, <2>3, <2>4, <2>5, <2>6 DEF PlayerStep
<1>2. CASE PostStep
  BY <1>2, PostWaitIInv, PostNewestIInv, PostErrorIInv, PostReportIInv DEF PostStep
<1>3. CASE RecycleStep
  BY <1>3, RecycleTopIInv, RecyclePopIInv, ReleaseFencedIInv
  DEF RecycleStep, RecycleSignalled, RecycleFenceError
<1>4. CASE UNCHANGED vars
  BY <1>4 DEF vars, playerVars, postVars, recVars, reportVars,
              IInv, TypeOK, Ownership, ThreadInv, FateInv
<1> QED BY <1>1, <1>2, <1>3, <1>4 DEF Next

THEOREM Invariance == Spec => []IInv
  BY InitIInv, NextIInv, PTL DEF Spec

\* Every variable keeps its type.
THEOREM TypeCorrect == Spec => []TypeOK
<1>1. IInv => TypeOK
  BY DEF IInv
<1> QED BY <1>1, Invariance, PTL

\* No frame entity is leaked, released twice or owned by both threads.
THEOREM OwnershipHolds == Spec => []Ownership
<1>1. IInv => Ownership
  BY DEF IInv
<1> QED BY <1>1, Invariance, PTL

\* The displayed report never touches an entity the recycle thread has freed.
THEOREM NoUseAfterFree == Spec => []ReportedEntityIsAlive
<1>1. IInv => ReportedEntityIsAlive
  BY QueueFacts DEF IInv, ThreadInv, ReportedEntityIsAlive
<1> QED BY <1>1, Invariance, PTL

\* The buffer on the screen stays with the plugin, and nobody waits for its fence.
THEOREM ScreenIsHeld == Spec => []ScreenBufferHeld
<1>1. IInv => ScreenBufferHeld
  BY QueueFacts DEF IInv, Ownership, ScreenBufferHeld
<1> QED BY <1>1, Invariance, PTL

-----------------------------------------------------------------------------
(* The pipeline implements the contract. *)

\* A step that calls nobody back moves no buffer.
LEMMA SilentStep ==
  ASSUME UNCHANGED reportVars, NEW b \in Buffers PROVE Contract!Edge(b)
  BY DEF reportVars, Contract!Edge, Contract!Keep

\* Dropping unreported frames follows the contract.
LEMMA DropStep ==
  ASSUME IInv, NEW S \in SUBSET Elements(postQueue), GiveBack(S, {}), NEW b \in Buffers
  PROVE  Contract!Edge(b)
<1>1. CASE b \in S
  BY <1>1 DEF IInv, TypeOK, Ownership, FateInv, GiveBack, Contract!Edge, Contract!Discard
<1>2. CASE b \notin S
  BY <1>2 DEF GiveBack, Contract!Edge, Contract!Keep
<1> QED BY <1>1, <1>2

\* So does releasing displayed ones.
LEMMA ReleaseStep ==
  ASSUME IInv,
         NEW S \in SUBSET (Elements(recQueue) \cup ({fencing} \ {NoBuffer})),
         posted = NoBuffer \/ posted \notin S,
         GiveBack({}, S), NEW b \in Buffers
  PROVE  Contract!Edge(b)
<1>1. CASE b \in S
  <2>1. b # posted /\ holder[b] = "plugin" /\ fate[b] = "displayed"
    BY <1>1, BuffersAssumption DEF IInv, Ownership, FateInv
  <2> QED BY <1>1, <2>1
    DEF IInv, TypeOK, GiveBack, Contract!Edge, Contract!Release
<1>2. CASE b \notin S
  BY <1>2 DEF GiveBack, Contract!Edge, Contract!Keep
<1> QED BY <1>1, <1>2

LEMMA PlayerEdges ==
  ASSUME IInv, PlayerStep, NEW b \in Buffers PROVE Contract!Edge(b)
<1>1. CASE OpenWindow \/ ShowBlackFrame \/ CloseWindow
           \/ \E on \in BOOLEAN : SetPaused(on) \/ SetImmediate(on)
  BY <1>1, SilentStep DEF OpenWindow, ShowBlackFrame, CloseWindow, SetPaused, SetImmediate
<1>2. ASSUME NEW c \in Buffers, DisplayFrame(c) PROVE Contract!Edge(b)
  BY <1>2 DEF IInv, TypeOK, DisplayFrame, Contract!Edge, Contract!Accept, Contract!Keep
<1>3. ASSUME NEW c \in Buffers, RefuseFrame(c) PROVE Contract!Edge(b)
  BY <1>3 DEF IInv, TypeOK, RefuseFrame, GiveBack, Contract!Edge, Contract!Refuse, Contract!Keep
<1>4. CASE Flush \/ JoinPost
  BY <1>4, DropStep DEF Flush, JoinPost
<1>5. CASE JoinRecycle
  <2>1. posted = NoBuffer /\ GiveBack({}, Elements(recQueue))
    BY <1>5 DEF JoinRecycle, IInv, ThreadInv
  <2> QED BY <2>1, ReleaseStep
<1> QED BY <1>1, <1>2, <1>3, <1>4, <1>5 DEF PlayerStep

LEMMA PostEdges ==
  ASSUME IInv, PostStep, NEW b \in Buffers PROVE Contract!Edge(b)
<1>1. CASE PostTop \/ PostVBlank \/ PostVBlankError \/ PostIdle
  BY <1>1, SilentStep DEF PostTop, PostVBlank, PostVBlankError, PostIdle
<1>2. CASE PostNewest
  <2>1. PICK n \in 1..Len(postQueue) :
           RecycleFrame(postQueue[n], {postQueue[i] : i \in 1..(n - 1)})
    BY <1>2 DEF PostNewest
  <2>2. phase # "stopRecycle"
    BY <1>2 DEF IInv, ThreadInv, PostNewest
  <2>3. GiveBack({postQueue[i] : i \in 1..(n - 1)}, {})
    BY <2>1, <2>2 DEF RecycleFrame, RecycleStopped
  <2>4. {postQueue[i] : i \in 1..(n - 1)} \subseteq Elements(postQueue)
    BY TakeQueue DEF IInv, TypeOK, Ownership
  <2> QED BY <2>3, <2>4, DropStep
<1>3. CASE PostError
  <2>1. PICK n \in 1..Len(postQueue) : GiveBack({postQueue[i] : i \in 1..n}, {})
    BY <1>3 DEF PostError
  <2>2. {postQueue[i] : i \in 1..n} \subseteq Elements(postQueue)
    BY TakeQueue DEF IInv, TypeOK, Ownership
  <2> QED BY <2>1, <2>2, DropStep
<1>4. CASE PostReport
  <2>1. posted \in Buffers /\ posted \in Elements(recQueue) /\ fate[posted] = "none"
    BY <1>4, QueueFacts DEF PostReport, IInv, ThreadInv
  <2>2. holder[posted] = "plugin"
    BY <2>1 DEF IInv, Ownership
  <2> QED BY <1>4, <2>1, <2>2
    DEF IInv, TypeOK, PostReport, Contract!Edge, Contract!Display, Contract!Keep
<1> QED BY <1>1, <1>2, <1>3, <1>4 DEF PostStep

LEMMA RecycleEdges ==
  ASSUME IInv, RecycleStep, NEW b \in Buffers PROVE Contract!Edge(b)
<1>1. CASE RecycleTop \/ RecyclePop
  BY <1>1, SilentStep DEF RecycleTop, RecyclePop
<1>2. CASE ReleaseFenced
  <2>1. fencing # NoBuffer /\ fencing # posted /\ GiveBack({}, {fencing})
    BY <1>2, QueueFacts DEF ReleaseFenced, IInv, Ownership, ThreadInv
  <2> QED BY <2>1, ReleaseStep
<1> QED BY <1>1, <1>2 DEF RecycleStep, RecycleSignalled, RecycleFenceError

\* Every step of the pipeline is a step of the contract.
LEMMA NextRefines == ASSUME IInv, Next PROVE Contract!ContractNext
<1>1. IInv'
  BY NextIInv
<1>2. holder' \in [Buffers -> Contract!Holders] /\ fate' \in [Buffers -> Contract!Fates]
  BY <1>1 DEF IInv, TypeOK
<1>3. \A b \in Buffers : Contract!Edge(b)
  BY PlayerEdges, PostEdges, RecycleEdges DEF Next
<1>4. ASSUME phase' = "closed", NEW b \in Buffers PROVE holder'[b] = "player"
  <2>1. postQueue' = <<>> /\ recQueue' = <<>> /\ fencing' = NoBuffer
    BY <1>1, <1>4 DEF IInv, ThreadInv
  <2>2. Elements(postQueue') = {} /\ Elements(recQueue') = {} /\ b # fencing'
    BY <2>1, EmptyQueue, BuffersAssumption
  <2> QED BY <1>1, <2>2 DEF IInv, TypeOK, Ownership
<1> QED BY <1>2, <1>3, <1>4 DEF Contract!ContractNext, Contract!Windows

\* The drm pipeline keeps the contract of a render plugin: each buffer is
\* reported exactly once, released once and after its report, and none is kept
\* when closeWindow has returned.
THEOREM PipelineKeepsContract == Spec => KeepsContract
<1>1. Init => Contract!ContractInit
  BY DEF Init, Contract!ContractInit
<1>2. IInv /\ [Next]_vars => [Contract!ContractNext]_Contract!contractVars
  BY NextRefines
  DEF vars, playerVars, reportVars, Contract!contractVars
<1> QED BY <1>1, <1>2, Invariance, PTL DEF Spec, KeepsContract, Contract!ContractSpec
=============================================================================
