------------------------ MODULE WestonFrames_proofs ------------------------
(***************************************************************************)
(* For every pool of buffers with distinct pts: no frame of the weston     *)
(* plugin is in two places or given back twice, the post thread is held    *)
(* back only while a frame callback is owed and sends no frame before the  *)
(* last one is drawn, and closeDisplay loses only what was submitted again *)
(* in the middle of its release.  What the code does not ensure is in the  *)
(* histories: a release event that comes once more (repeated), and a flag  *)
(* passed over or reset because an output came or went (rushed).           *)
(***************************************************************************)
EXTENDS MCWestonFrames, TLAPS

\* What the code does not ensure: no two frames the player submits share a pts.
DistinctPts == \A b, c \in Buffers : Pts[b] = Pts[c] => b = c

\* Where the threads are, and what they hold there.
ThreadInv ==
    /\ poster \in {"off", "idle", "pop"} => cur = NoBuffer
    /\ poster \in {"find", "commit"} => cur # NoBuffer
    /\ phase \notin {"window", "ending"} => poster = "off"
    /\ dispatch \in {"release", "clear"} => event \in bound
    /\ phase = "closed" => dispatch = "off" /\ queue = <<>> /\ used = {} /\ bound = {} /\ lent = {}
    /\ phase = "closed" => \A b \in Buffers : callbacks[b] = 0

\* What is being released for the first time is committed and not used any more, and
\* no other committed buffer that has an mRenderBuffer is unused: no WaylandBuffer
\* deleted to make room is released by its destructor.
PlaceInv ==
    /\ dispatch = "release" /\ event \notin repeated => event \in Entries \ (used \cup lent)
    /\ \A b \in Entries \cap bound : b \in used \/ Releasing(b)
    /\ bound \subseteq made

\* What the plugin has is queued, with the post thread, committed or overtaken,
\* and a committed buffer without an mRenderBuffer was overtaken.
Overtaken == {b \in Buffers : fate[b] = "overtaken"}

LostInv ==
    /\ \A b \in Buffers : holder[b] = "plugin" => b \in Range(queue) \cup {cur} \cup Entries
    /\ Entries \subseteq bound \cup Overtaken
    /\ poster = "commit" => cur \in bound \cup Overtaken
    /\ \A b \in Overtaken : b \notin bound /\ (b \in Entries \/ (poster = "commit" /\ b = cur))

\* From the first tests to the commit nothing is owed.
PaceInv == ~direct /\ ~rushed =>
    /\ FramesPaced
    /\ poster \in {"pop", "scan", "take", "find", "commit"} => ~redrawing

\* A frame on its way to a commit has room for one more frame callback.
CallbackInv == \A b \in Buffers : b \in Range(queue) \cup {cur} => callbacks[b] < MaxCallbacks

IInv ==
    /\ TypeOK /\ HeldOnce /\ RedrawIsAwaited /\ DroppedGoesBack
    /\ ThreadInv /\ PlaceInv /\ LostInv /\ PaceInv /\ CallbackInv

-----------------------------------------------------------------------------
(* Queues. *)

\* push
LEMMA PushQueue ==
  ASSUME NEW S, NEW s \in Seq(S), NEW e \in S
  PROVE  /\ Append(s, e) \in Seq(S)
         /\ Range(Append(s, e)) = Range(s) \cup {e}
         /\ IsInjective(s) /\ e \notin Range(s) => IsInjective(Append(s, e))
  <1>1. /\ Append(s, e) \in Seq(S) /\ Len(Append(s, e)) = Len(s) + 1 /\ Len(s) \in Nat
        /\ DOMAIN s = 1..Len(s) /\ DOMAIN Append(s, e) = 1..(Len(s) + 1)
    OBVIOUS
  <1>2. /\ \A i \in 1..Len(s) : Append(s, e)[i] = s[i]
        /\ Append(s, e)[Len(s) + 1] = e
    OBVIOUS
  <1>3. Range(Append(s, e)) = Range(s) \cup {e}
    BY <1>1, <1>2 DEF Range
  <1>4. ASSUME IsInjective(s), e \notin Range(s)
        PROVE  IsInjective(Append(s, e))
    BY <1>1, <1>2, <1>4 DEF Range, IsInjective
  <1> QED  BY <1>1, <1>3, <1>4

\* pop
LEMMA PopQueue ==
  ASSUME NEW S, NEW s \in Seq(S), s # <<>>, IsInjective(s)
  PROVE  /\ Tail(s) \in Seq(S)
         /\ Head(s) \in Range(s) /\ Head(s) \in S
         /\ IsInjective(Tail(s))
         /\ Range(Tail(s)) = Range(s) \ {Head(s)}
  <1>1. /\ Len(s) \in Nat /\ Len(s) > 0 /\ Head(s) = s[1] /\ Head(s) \in S
        /\ Tail(s) \in Seq(S) /\ Len(Tail(s)) = Len(s) - 1
        /\ DOMAIN s = 1..Len(s) /\ DOMAIN Tail(s) = 1..(Len(s) - 1)
    OBVIOUS
  <1>2. \A i \in 1..(Len(s) - 1) : Tail(s)[i] = s[i + 1]
    OBVIOUS
  <1>3. Head(s) \in Range(s)
    BY <1>1 DEF Range
  <1>4. IsInjective(Tail(s))
    BY <1>1, <1>2 DEF IsInjective
  <1>5. ASSUME NEW x \in Range(Tail(s)) PROVE x \in Range(s) \ {Head(s)}
    <2>1. PICK i \in 1..(Len(s) - 1) : x = s[i + 1]
      BY <1>1, <1>2, <1>5 DEF Range
    <2>2. i + 1 \in 1..Len(s) /\ i + 1 # 1 /\ 1 \in 1..Len(s)
      BY <1>1, <2>1
    <2> QED  BY <1>1, <2>1, <2>2 DEF Range, IsInjective
  <1>6. ASSUME NEW x \in Range(s) \ {Head(s)} PROVE x \in Range(Tail(s))
    <2>1. PICK i \in 1..Len(s) : x = s[i] /\ i # 1
      BY <1>1, <1>6 DEF Range
    <2>2. i - 1 \in 1..(Len(s) - 1) /\ Tail(s)[i - 1] = s[i]
      BY <1>1, <1>2, <2>1
    <2> QED  BY <1>1, <2>1, <2>2 DEF Range
  <1> QED  BY <1>1, <1>3, <1>4, <1>5, <1>6

\* A queue's elements have its type, and an empty one has none.
LEMMA QueueType ==
  /\ \A s \in Seq(Buffers) : Range(s) \subseteq Buffers
  /\ Range(<<>>) = {} /\ IsInjective(<<>>) /\ <<>> \in Seq(Buffers)
  BY DEF Range, IsInjective

-----------------------------------------------------------------------------
(* mCommittedBufferMap, with distinct pts. *)

\* A buffer is committed exactly if its pts is a key.
LEMMA EntriesByPts ==
  ASSUME DistinctPts, TypeOK
  PROVE  /\ Entries \subseteq Buffers
         /\ \A b \in Buffers : b \in Entries <=> Pts[b] \in DOMAIN committed
  <1>1. \A p \in DOMAIN committed : committed[p] \in Buffers /\ Pts[committed[p]] = p
    BY DEF TypeOK
  <1>2. Entries = {committed[p] : p \in DOMAIN committed}
    BY DEF Entries, Range
  <1> QED  BY <1>1, <1>2 DEF DistinctPts

\* Erasing the keys of S takes S out.
LEMMA ErasedEntries ==
  ASSUME DistinctPts, TypeOK, NEW S \in SUBSET Buffers, NEW m,
         m = Restrict(committed, {p \in DOMAIN committed : \A b \in S : Pts[b] # p})
  PROVE  /\ m \in [DOMAIN m -> Buffers]
         /\ \A p \in DOMAIN m : Pts[m[p]] = p
         /\ Range(m) = Entries \ S
  <1> DEFINE D == {p \in DOMAIN committed : \A b \in S : Pts[b] # p}
  <1>1. \A p \in DOMAIN committed : committed[p] \in Buffers /\ Pts[committed[p]] = p
    BY DEF TypeOK
  <1>2. m = [p \in D |-> committed[p]]
    BY DEF Restrict
  <1>3. DOMAIN m = D /\ \A p \in D : m[p] = committed[p] /\ p \in DOMAIN committed
    BY <1>2
  <1>4. Range(m) = {committed[p] : p \in D} /\ Entries = {committed[p] : p \in DOMAIN committed}
    BY <1>3 DEF Range, Entries
  <1>5. Range(m) = Entries \ S
    <2>1. ASSUME NEW x \in Range(m) PROVE x \in Entries \ S
      <3>1. PICK p \in D : x = committed[p]  BY <1>4, <2>1
      <3> QED  BY <1>1, <1>3, <1>4, <3>1
    <2>2. ASSUME NEW x \in Entries \ S PROVE x \in Range(m)
      <3>1. PICK p \in DOMAIN committed : x = committed[p]  BY <1>4, <2>2
      <3>2. p \in D  BY <1>1, <2>2, <3>1 DEF DistinctPts
      <3> QED  BY <1>4, <3>1, <3>2
    <2> QED  BY <2>1, <2>2
  <1> QED  BY <1>1, <1>2, <1>3, <1>5

\* Erasing one key takes its buffer out, if there.
LEMMA WithoutEntries ==
  ASSUME DistinctPts, TypeOK, NEW b \in Buffers
  PROVE  /\ Without(Pts[b]) \in [DOMAIN Without(Pts[b]) -> Buffers]
         /\ \A p \in DOMAIN Without(Pts[b]) : Pts[Without(Pts[b])[p]] = p
         /\ Range(Without(Pts[b])) = Entries \ {b}
  <1>1. DOMAIN committed \ {Pts[b]} = {p \in DOMAIN committed : \A c \in {b} : Pts[c] # p}
    OBVIOUS
  <1>2. Without(Pts[b]) = Restrict(committed, {p \in DOMAIN committed : \A c \in {b} : Pts[c] # p})
    BY <1>1 DEF Without
  <1>3. {b} \in SUBSET Buffers
    OBVIOUS
  <1> QED  BY <1>2, <1>3, ErasedEntries

\* Inserting a buffer whose pts is no key adds it.
LEMMA InsertedEntries ==
  ASSUME DistinctPts, TypeOK, NEW b \in Buffers, b \notin Entries
  PROVE  /\ With(b) \in [DOMAIN With(b) -> Buffers]
         /\ \A p \in DOMAIN With(b) : Pts[With(b)[p]] = p
         /\ Range(With(b)) = Entries \cup {b}
  <1>1. \A p \in DOMAIN committed : committed[p] \in Buffers /\ Pts[committed[p]] = p
    BY DEF TypeOK
  <1>2. Pts[b] \notin DOMAIN committed
    BY EntriesByPts
  <1>3. /\ DOMAIN With(b) = DOMAIN committed \cup {Pts[b]}
        /\ With(b)[Pts[b]] = b
        /\ \A p \in DOMAIN committed : With(b)[p] = committed[p]
    BY <1>2 DEF With
  <1>4. With(b) = [p \in DOMAIN With(b) |-> With(b)[p]]
    BY DEF With
  <1>5. Range(With(b)) = Entries \cup {b}
    <2>1. ASSUME NEW x \in Range(With(b)) PROVE x \in Entries \cup {b}
      <3>1. PICK p \in DOMAIN With(b) : x = With(b)[p]  BY <2>1 DEF Range
      <3> QED  BY <1>3, <3>1 DEF Entries, Range
    <2>2. ASSUME NEW x \in Entries \cup {b} PROVE x \in Range(With(b))
      <3>1. CASE x = b  BY <1>3, <3>1 DEF Range
      <3>2. CASE x \in Entries
        <4>1. PICK p \in DOMAIN committed : x = committed[p]  BY <3>2 DEF Entries, Range
        <4> QED  BY <1>3, <4>1 DEF Range
      <3> QED  BY <2>2, <3>1, <3>2
    <2> QED  BY <2>1, <2>2
  <1> QED  BY <1>1, <1>3, <1>4, <1>5

-----------------------------------------------------------------------------
(* The steps. *)

\* The callbacks of a step that gives back only what the plugin has.
LEMMA CallbackFacts ==
  ASSUME TypeOK, NEW S, \A b \in Buffers : b \in S => holder[b] = "plugin", NEW T,
         NEW what \in {"none", "displayed", "dropped", "overtaken"}, Callbacks(S, T, what)
  PROVE  /\ holder' \in [Buffers -> {"player", "plugin", "twice"}]
         /\ fate' \in [Buffers -> {"none", "displayed", "dropped", "overtaken"}]
         /\ \A b \in Buffers :
               /\ holder'[b] = IF b \in S THEN "player" ELSE holder[b]
               /\ fate'[b] = IF holder'[b] # "plugin" THEN "none" ELSE IF b \in T THEN what ELSE fate[b]
  BY DEF TypeOK, Callbacks, Returned, Fates

\* A report gives nothing back.
LEMMA ReportFacts ==
  ASSUME TypeOK, NEW T, NEW what \in {"none", "displayed", "dropped", "overtaken"}, Report(T, what)
  PROVE  /\ holder' = holder
         /\ fate' \in [Buffers -> {"none", "displayed", "dropped", "overtaken"}]
         /\ \A b \in Buffers :
               fate'[b] = IF holder[b] # "plugin" THEN "none" ELSE IF b \in T THEN what ELSE fate[b]
  <1>1. Returned({}) = holder
    BY DEF TypeOK, Returned
  <1> QED  BY <1>1 DEF TypeOK, Report, Callbacks, Fates

LEMMA InitIInv == Init => IInv
  <1> SUFFICES ASSUME Init PROVE IInv  OBVIOUS
  <1> USE NoBufferAssumption, CallbackAssumption
  <1>1. queue = <<>> /\ Range(queue) = {} /\ IsInjective(queue)
    BY QueueType DEF Init, Constructed
  <1>2. Entries = {}
    BY DEF Init, Constructed, NoEntries, Entries, Range
  <1>3. TypeOK
    <2>1. /\ direct \in BOOLEAN /\ paused \in BOOLEAN /\ output \in BOOLEAN /\ redrawing \in BOOLEAN
          /\ rushed \in BOOLEAN
      BY Zenon DEF Init, Constructed
    <2>2. committed \in [DOMAIN committed -> Buffers] /\ \A p \in DOMAIN committed : FALSE
      BY DEF Init, Constructed, NoEntries
    <2>3. queue \in Seq(Buffers)  BY <1>1
    <2>4. callbacks \in [Buffers -> 0..MaxCallbacks]  BY DEF Init, Constructed
    <2>5. /\ holder \in [Buffers -> {"player", "plugin", "twice"}]
          /\ fate \in [Buffers -> {"none", "displayed", "dropped", "overtaken"}]
      BY DEF Init
    <2> QED  BY <2>1, <2>2, <2>3, <2>4, <2>5 DEF Init, Constructed, TypeOK
  <1>4. HeldOnce  BY <1>1, <1>2 DEF Init, Constructed, HeldOnce, Releasing
  <1>5. RedrawIsAwaited /\ DroppedGoesBack
    BY DEF Init, Constructed, RedrawIsAwaited, DroppedGoesBack
  <1>6. ThreadInv /\ PlaceInv /\ LostInv /\ PaceInv /\ CallbackInv
    BY <1>1, <1>2 DEF Init, Constructed, ThreadInv, PlaceInv, Releasing, LostInv, Overtaken, PaceInv,
       FramesPaced, CallbackInv
  <1> QED  BY <1>3, <1>4, <1>5, <1>6 DEF IInv

\* Steps that move no buffer.
LEMMA FlagsIInv ==
  ASSUME IInv,
         \/ OpenWindow \/ SetPaused \/ CloseWindow \/ PostThreadEnds \/ CloseDisplay
         \/ DispatchStops \/ PostStart \/ PostPeek \/ PostShow
         \/ OutputAdded \/ OutputReset \/ OutputRemoved \/ OutputChosen
  PROVE  IInv'
  <1> USE NoBufferAssumption
      DEF IInv, playerVars, posterVars, dispatchVars, displayVars, bufferVars, serverVars,
         reportVars, pastVars
  <1>1. /\ UNCHANGED <<direct, queue, cur, event, committed, bufferVars, serverVars, holder, fate,
                       repeated>>
        /\ Entries' = Entries /\ Range(queue)' = Range(queue)
        /\ IsInjective(queue)' = IsInjective(queue) /\ Overtaken' = Overtaken
        /\ dispatch' = dispatch \/ dispatch \notin {"release", "clear"}
        /\ dispatch' = dispatch \/ dispatch' \notin {"release", "clear"}
        /\ dispatch = "off" => dispatch' = "off"
        /\ (phase = "closed" <=> phase' = "closed")
    BY DEF OpenWindow, SetPaused, CloseWindow, PostThreadEnds, CloseDisplay, DispatchStops, PostStart,
           PostPeek, PostShow, OutputAdded, OutputReset, OutputRemoved, OutputChosen, PlayerIsFree,
           Entries, Overtaken, TypeOK
  <1>2. TypeOK'
    <2>1. /\ direct' \in BOOLEAN /\ paused' \in BOOLEAN /\ output' \in BOOLEAN /\ redrawing' \in BOOLEAN
          /\ rushed' \in BOOLEAN
      BY Zenon DEF TypeOK, OpenWindow, SetPaused, CloseWindow, PostThreadEnds, CloseDisplay,
                   DispatchStops, PostStart, PostPeek, PostShow, OutputAdded, OutputReset, OutputRemoved,
                   OutputChosen
    <2>2. /\ phase' \in {"closed", "open", "window", "ending", "closing"}
          /\ poster' \in {"off", "idle", "pop", "scan", "take", "find", "commit"}
          /\ dispatch' \in {"off", "idle", "release", "clear", "added", "removed"}
      BY DEF TypeOK, OpenWindow, SetPaused, CloseWindow, PostThreadEnds, CloseDisplay,
             DispatchStops, PostStart, PostPeek, PostShow, OutputAdded, OutputReset, OutputRemoved,
             OutputChosen
    <2> QED  BY <1>1, <2>1, <2>2 DEF TypeOK
  <1>3. Releasing(event)' = Releasing(event) /\ \A b \in Buffers : Releasing(b)' = Releasing(b)
    BY <1>1 DEF Releasing
  <1>4. HeldOnce'  BY <1>1, <1>3 DEF HeldOnce
  <1>5. RedrawIsAwaited'
    BY <1>1 DEF RedrawIsAwaited, TypeOK, OpenWindow, SetPaused, CloseWindow, PostThreadEnds,
                CloseDisplay, DispatchStops, PostStart, PostPeek, PostShow, OutputAdded, OutputReset,
                OutputRemoved, OutputChosen
  <1>6. DroppedGoesBack'  BY <1>1, <1>3 DEF DroppedGoesBack
  <1>7. ThreadInv'
    <2>1. /\ poster' \in {"off", "idle", "pop"} => cur = NoBuffer
          /\ poster' \in {"find", "commit"} => cur # NoBuffer
      BY DEF ThreadInv, TypeOK, OpenWindow, SetPaused, CloseWindow, PostThreadEnds,
             CloseDisplay, DispatchStops, PostStart, PostPeek, PostShow, OutputAdded, OutputReset,
             OutputRemoved, OutputChosen, PlayerIsFree
    <2>2. phase' \notin {"window", "ending"} => poster' = "off"
      BY DEF ThreadInv, TypeOK, OpenWindow, SetPaused, CloseWindow, PostThreadEnds,
             CloseDisplay, DispatchStops, PostStart, PostPeek, PostShow, OutputAdded, OutputReset,
             OutputRemoved, OutputChosen, PlayerIsFree
    <2> QED  BY <1>1, <2>1, <2>2 DEF ThreadInv
  <1>8. PlaceInv' /\ CallbackInv'
    <2>1. (dispatch' = "release" => dispatch = "release") /\ bound \subseteq Buffers
      BY <1>1 DEF TypeOK
    <2> QED  BY <1>1, <1>3, <2>1 DEF PlaceInv, CallbackInv
  <1>9. LostInv'
    <2>1. poster' = "commit" <=> poster = "commit"
      BY DEF OpenWindow, SetPaused, CloseWindow, PostThreadEnds, CloseDisplay, DispatchStops, PostStart,
             PostPeek, PostShow, OutputAdded, OutputReset, OutputRemoved, OutputChosen, ThreadInv
    <2> QED  BY <1>1, <2>1 DEF LostInv
  <1>10. PaceInv'
    <2>1. ~direct' /\ ~rushed' => ~direct /\ ~rushed /\ redrawing' = redrawing
      BY DEF OpenWindow, SetPaused, CloseWindow, PostThreadEnds, CloseDisplay, DispatchStops, PostStart,
             PostPeek, PostShow, OutputAdded, OutputReset, OutputRemoved, OutputChosen, TypeOK
    <2>2. ~direct' /\ ~rushed' /\ poster' \in {"pop", "scan", "take", "find", "commit"} => ~redrawing
      BY <2>1 DEF PaceInv, OpenWindow, SetPaused, CloseWindow, PostThreadEnds, CloseDisplay,
             DispatchStops, PostStart, PostPeek, PostShow, OutputAdded, OutputReset, OutputRemoved,
             OutputChosen
    <2> QED  BY <1>1, <2>1, <2>2 DEF PaceInv, FramesPaced
  <1> QED  BY <1>2, <1>4, <1>5, <1>6, <1>7, <1>8, <1>9, <1>10

\* openDisplay of a new plugin object.
LEMMA OpenDisplayIInv == ASSUME IInv, OpenDisplay PROVE IInv'
  <1> USE NoBufferAssumption
      DEF IInv, posterVars, bufferVars, serverVars
  <1>1. /\ queue = <<>> /\ cur = NoBuffer /\ poster = "off" /\ used = {} /\ lent = {} /\ bound = {}
        /\ UNCHANGED <<queue, posterVars, event, bufferVars, serverVars>>
        /\ Entries' = {} /\ committed' \in [DOMAIN committed' -> Buffers]
        /\ \A p \in DOMAIN committed' : FALSE
        /\ \A b \in Buffers : callbacks[b] = 0
    BY DEF OpenDisplay, ThreadInv, Entries, NoEntries, Range
  <1>2. Range(queue)' = {} /\ IsInjective(queue)'
    BY <1>1, QueueType
  <1>3. TypeOK'
    <2>1. /\ direct' \in BOOLEAN /\ paused' \in BOOLEAN /\ output' \in BOOLEAN /\ redrawing' \in BOOLEAN
          /\ rushed' \in BOOLEAN
      BY SetPtsAssumption, Zenon DEF OpenDisplay
    <2>2. /\ holder' \in [Buffers -> {"player", "plugin", "twice"}]
          /\ fate' \in [Buffers -> {"none", "displayed", "dropped", "overtaken"}]
      BY DEF OpenDisplay
    <2>3. phase' = "open" /\ dispatch' = "idle" /\ repeated' = {}
      BY DEF OpenDisplay
    <2> QED  BY <1>1, <2>1, <2>2, <2>3 DEF TypeOK
  <1>4. HeldOnce'
    BY <1>1, <1>2 DEF OpenDisplay, HeldOnce, Releasing
  <1>5. RedrawIsAwaited' /\ DroppedGoesBack' /\ ThreadInv'
    BY <1>1 DEF OpenDisplay, RedrawIsAwaited, DroppedGoesBack, ThreadInv
  <1>6. PlaceInv' /\ LostInv' /\ CallbackInv'
    BY <1>1, <1>2 DEF OpenDisplay, PlaceInv, Releasing, LostInv, Overtaken, CallbackInv
  <1>7. PaceInv'
    BY <1>1 DEF PaceInv, FramesPaced
  <1> QED  BY <1>3, <1>4, <1>5, <1>6, <1>7

\* displayFrame
LEMMA DisplayIInv ==
  ASSUME DistinctPts, IInv, NEW b \in Buffers, Display(b)
  PROVE  IInv'
  <1> USE NoBufferAssumption
      DEF IInv, playerVars, posterVars, dispatchVars, displayVars, pastVars
  <1>1. /\ holder[b] = "player" /\ b \notin Range(queue) \cup {cur} \cup Entries
        /\ b \notin repeated => b \notin used \cup lent
        /\ callbacks[b] < MaxCallbacks
    BY DEF Display, HeldOnce
  <1>2. b \notin repeated => ~Releasing(b)
    BY <1>1 DEF PlaceInv, Releasing
  <1>3. PICK D \in SUBSET Unused(b), S \in SUBSET Unused(b) :
           /\ Prepare(b, D, S)
           /\ lent' = lent \ D /\ repeats' = repeats \ D
           /\ holder' = [Returned(S) EXCEPT ![b] = "plugin"] /\ fate' = Fates(S, {}, "none")
    BY DEF Display
  <1>4. /\ D \subseteq Buffers /\ b \notin D /\ cur \notin D
        /\ \A c \in D : c \notin used /\ c # event
    BY DEF Unused, TypeOK
  <1>5. /\ committed' \in [DOMAIN committed' -> Buffers]
        /\ \A p \in DOMAIN committed' : Pts[committed'[p]] = p
        /\ Entries' = Entries
        /\ Returned(S) = holder
    <2>1. CASE D = {} /\ S = {} /\ committed' = committed
      BY <1>3, <2>1 DEF Entries, Returned, TypeOK
    <2>2. CASE D = {} /\ S = {} /\ committed' = Without(Pts[b])
      <3>1. Range(committed') = Entries \ {b}  BY <2>2, WithoutEntries
      <3>2. Entries' = Entries  BY <1>1, <3>1 DEF Entries
      <3> QED  BY <1>3, <2>2, <3>2, WithoutEntries DEF Returned, TypeOK
    <2>3. CASE Deleted(D, S)
      <3>1. S = {}
        <4>1. ASSUME NEW c \in S PROVE FALSE
          <5>1. c \in Buffers /\ c \in bound /\ c \in D /\ Pts[c] \in DOMAIN committed
            BY <1>4, <2>3, <4>1 DEF Deleted
          <5>2. c \in Entries  BY <5>1, EntriesByPts
          <5> QED  BY <1>4, <5>1, <5>2 DEF PlaceInv, Releasing
        <4> QED  BY <4>1
      <3>2. committed' = Restrict(committed, {p \in DOMAIN committed : \A c \in S : Pts[c] # p})
        BY <2>3 DEF Deleted
      <3>3. Range(committed') = Entries \ S  BY <3>1, <3>2, ErasedEntries
      <3>4. Entries' = Entries  BY <3>1, <3>3 DEF Entries
      <3>5. committed' \in [DOMAIN committed' -> Buffers] /\ \A p \in DOMAIN committed' : Pts[committed'[p]] = p
        <4>1. S \in SUBSET Buffers  BY <3>1
        <4> QED  BY <3>2, <4>1, ErasedEntries
      <3>6. Returned(S) = holder  BY <3>1 DEF Returned, TypeOK
      <3> QED  BY <1>3, <3>4, <3>5, <3>6
    <2> QED  BY <1>3, <2>1, <2>2, <2>3 DEF Prepare
  <1>6. /\ made' \subseteq Buffers /\ bound' \subseteq Buffers /\ fresh' \subseteq Buffers
        /\ bound' \subseteq made' /\ bound' \subseteq bound \cup {b} /\ bound \ D \subseteq bound'
        /\ b \in bound' => b \in bound \/ b \notin made
    BY <1>3 DEF Prepare, TypeOK, PlaceInv
  <1>7. /\ \/ Range(queue)' = Range(queue) \cup {b} /\ cur' = cur /\ poster' = poster
           \/ Range(queue)' = Range(queue) /\ cur = NoBuffer /\ cur' = b /\ poster = "off" /\ poster' = "find"
        /\ queue' \in Seq(Buffers) /\ IsInjective(queue)' /\ (direct => poster' = "find")
    <2>1. CASE direct
      <3>1. queue' = queue /\ cur' = b /\ poster' = "find" /\ poster = "off" /\ cur = NoBuffer
        BY <2>1 DEF Display, PlayerIsFree, ThreadInv
      <3> QED  BY <3>1 DEF TypeOK, HeldOnce
    <2>2. CASE ~direct
      <3>1. queue' = Append(queue, b) /\ cur' = cur /\ poster' = poster
        BY <2>2 DEF Display
      <3>2. queue \in Seq(Buffers) /\ IsInjective(queue) /\ b \notin Range(queue)
        BY <1>1 DEF TypeOK, HeldOnce
      <3> QED  BY <2>2, <3>1, <3>2, PushQueue
    <2> QED  BY <2>1, <2>2
  <1>8. /\ UNCHANGED <<playerVars, dispatchVars, displayVars, used, callbacks, screen, pastVars>>
        /\ phase = "window"
        /\ \A c \in Buffers : Releasing(c)' = Releasing(c)
    BY DEF Display, PlayerIsFree, Releasing
  <1>9. /\ holder' = [holder EXCEPT ![b] = "plugin"]
        /\ fate' \in [Buffers -> {"none", "displayed", "dropped", "overtaken"}]
        /\ \A c \in Buffers : fate'[c] = IF holder[c] # "plugin" THEN "none" ELSE fate[c]
    BY <1>3, <1>5 DEF Fates, TypeOK
  <1>10. TypeOK'
    <2>1. lent' \subseteq Buffers /\ repeats' \subseteq Buffers
      BY <1>3 DEF TypeOK
    <2>2. holder' \in [Buffers -> {"player", "plugin", "twice"}]
      BY <1>9 DEF TypeOK
    <2>3. /\ poster' \in {"off", "idle", "pop", "scan", "take", "find", "commit"}
          /\ cur' \in Buffers \cup {NoBuffer}
      BY <1>7 DEF TypeOK
    <2> QED  BY <1>5, <1>6, <1>7, <1>8, <1>9, <2>1, <2>2, <2>3 DEF TypeOK
  <1>11. HeldOnce'
    <2>1. lent' \subseteq lent  BY <1>3
    <2> QED  BY <1>1, <1>2, <1>5, <1>7, <1>8, <1>9, <2>1 DEF HeldOnce, TypeOK
  <1>12. RedrawIsAwaited' /\ DroppedGoesBack'
    BY <1>1, <1>8, <1>9 DEF RedrawIsAwaited, DroppedGoesBack
  <1>13. ThreadInv' /\ PlaceInv'
    <2>1. lent' \subseteq lent  BY <1>3
    <2>2. event \in bound => event \in bound'
      BY <1>4, <1>6
    <2>3. ThreadInv'  BY <1>1, <1>7, <1>8, <2>2 DEF ThreadInv
    <2> QED  BY <1>1, <1>5, <1>6, <1>8, <2>1, <2>3 DEF PlaceInv
  <1>14. LostInv'
    <2>1. \A c \in Entries \cap D : c \notin bound
      BY <1>4 DEF PlaceInv, Releasing
    <2>2. \A c \in Overtaken : c # b /\ holder[c] = "plugin"
      <3>1. \A c \in Overtaken : c \in Entries \cup {cur}  BY DEF LostInv
      <3> QED  BY <1>1, <3>1 DEF HeldOnce, TypeOK, Overtaken
    <2>3. Overtaken' = Overtaken
      BY <1>9, <2>2 DEF Overtaken
    <2>4. poster' = "commit" <=> poster = "commit"
      BY <1>7
    <2>5. poster = "commit" => cur' = cur /\ cur \in Buffers
      BY <1>7 DEF TypeOK, ThreadInv
    <2>6. \A c \in Buffers : holder'[c] = "plugin" => c \in Range(queue)' \cup {cur'} \cup Entries'
      BY <1>5, <1>7, <1>9 DEF LostInv, TypeOK
    <2>7. Entries' \subseteq bound' \cup Overtaken'
      BY <1>1, <1>5, <1>6, <2>1, <2>3 DEF LostInv
    <2>8. poster' = "commit" => cur' \in bound' \cup Overtaken'
      BY <1>4, <1>6, <2>3, <2>4, <2>5 DEF LostInv
    <2>9. \A c \in Overtaken' : c \notin bound' /\ (c \in Entries' \/ (poster' = "commit" /\ c = cur'))
      BY <1>5, <1>6, <2>2, <2>3, <2>4, <2>5 DEF LostInv
    <2> QED  BY <2>6, <2>7, <2>8, <2>9 DEF LostInv
  <1>15. CallbackInv'
    BY <1>1, <1>7, <1>8 DEF CallbackInv
  <1>16. PaceInv'
    <2>1. CASE direct  BY <1>8, <2>1 DEF PaceInv
    <2>2. CASE ~direct
      <3>1. poster' = poster  BY <2>2 DEF Display
      <3> QED  BY <1>8, <2>2, <3>1 DEF PaceInv, FramesPaced
    <2> QED  BY <2>1, <2>2
  <1> QED  BY <1>10, <1>11, <1>12, <1>13, <1>14, <1>15, <1>16

\* An overtaken buffer is still the plugin's.
LEMMA OvertakenFacts == ASSUME IInv PROVE \A b \in Overtaken : b \in Buffers /\ holder[b] = "plugin"
  <1>1. \A b \in Overtaken : b \in Buffers /\ b \in Entries \cup {cur}
    BY DEF IInv, LostInv, Overtaken
  <1> QED  BY <1>1 DEF IInv, HeldOnce, TypeOK

\* flush
LEMMA FlushIInv == ASSUME IInv, Flush PROVE IInv'
  <1> USE NoBufferAssumption
      DEF IInv, playerVars, posterVars, dispatchVars, displayVars, serverVars, pastVars
  <1>1. Range(queue) \subseteq Buffers /\ \A b \in Range(queue) : holder[b] = "plugin"
    BY QueueType DEF HeldOnce, TypeOK
  <1>2. /\ queue' \in Seq(Buffers) /\ queue' = <<>> /\ Range(queue)' = {} /\ IsInjective(queue)'
        /\ Entries' = Entries
        /\ UNCHANGED <<playerVars, posterVars, dispatchVars, displayVars, committed, made, bound, used,
                       serverVars, pastVars>>
        /\ phase = "window" /\ fresh' \subseteq Buffers
    BY QueueType DEF Flush, PlayerIsFree, Entries, TypeOK
  <1>3. Callbacks(Range(queue), Entries \cap bound, "displayed")
    BY DEF Flush
  <1>4. \A b \in Buffers : b \in Range(queue) => holder[b] = "plugin"
    BY <1>1
  <1>5. /\ holder' \in [Buffers -> {"player", "plugin", "twice"}]
        /\ fate' \in [Buffers -> {"none", "displayed", "dropped", "overtaken"}]
        /\ \A b \in Buffers :
              /\ holder'[b] = IF b \in Range(queue) THEN "player" ELSE holder[b]
              /\ fate'[b] = IF holder'[b] # "plugin" THEN "none"
                            ELSE IF b \in Entries \cap bound THEN "displayed" ELSE fate[b]
    <2> HIDE DEF IInv
    <2>1. TypeOK  BY DEF IInv
    <2> QED  BY <1>3, <1>4, <2>1 DEF TypeOK, Callbacks, Returned, Fates
  <1>6. TypeOK'
    BY <1>2, <1>5 DEF TypeOK
  <1>7. HeldOnce'
    BY <1>2, <1>5 DEF HeldOnce, Releasing
  <1>8. RedrawIsAwaited' /\ DroppedGoesBack'
    BY <1>2, <1>5 DEF RedrawIsAwaited, DroppedGoesBack, Releasing
  <1>9. ThreadInv' /\ PlaceInv' /\ CallbackInv' /\ PaceInv'
    BY <1>2 DEF ThreadInv, PlaceInv, Releasing, CallbackInv, PaceInv, FramesPaced
  <1>10. Overtaken' = Overtaken
    <2>1. ASSUME NEW b \in Buffers PROVE b \in Overtaken' <=> b \in Overtaken
      <3>1. CASE b \in Overtaken
        <4>1. b \notin Range(queue) /\ holder[b] = "plugin" /\ b \notin bound
          BY <3>1 DEF Overtaken, LostInv, HeldOnce, TypeOK
        <4> QED  BY <1>5, <3>1, <4>1 DEF Overtaken
      <3>2. CASE b \notin Overtaken
        BY <1>5, <3>2 DEF Overtaken
      <3> QED  BY <3>1, <3>2
    <2> QED  BY <2>1 DEF Overtaken
  <1>11. LostInv'
    BY <1>2, <1>5, <1>10 DEF LostInv
  <1> QED  BY <1>6, <1>7, <1>8, <1>9, <1>11

\* The end of closeDisplay.
LEMMA DisplayClosedIInv == ASSUME DistinctPts, IInv, DisplayClosed PROVE IInv'
  <1> USE NoBufferAssumption
      DEF IInv, posterVars, dispatchVars, displayVars, pastVars
  <1>1. PICK S \in SUBSET bound : Deleted(made, S) /\ GiveBack(S \cup Range(queue))
    BY DEF DisplayClosed
  <1>2. /\ committed' \in [DOMAIN committed' -> Buffers]
        /\ \A p \in DOMAIN committed' : Pts[committed'[p]] = p
        /\ Entries' = Entries \ S
    <2>1. S \in SUBSET Buffers  BY DEF TypeOK
    <2>2. committed' = Restrict(committed, {p \in DOMAIN committed : \A b \in S : Pts[b] # p})
      BY <1>1 DEF Deleted
    <2> QED  BY <2>1, <2>2, ErasedEntries DEF Entries
  <1>3. S = Entries \cap bound
    <2>1. \A b \in Buffers : b \in Entries <=> Pts[b] \in DOMAIN committed
      BY EntriesByPts
    <2>2. S \subseteq Buffers /\ bound \subseteq Buffers  BY DEF TypeOK
    <2>3. \A b \in S : b \in Entries  BY <1>1, <2>1, <2>2 DEF Deleted
    <2>4. \A b \in Entries \cap bound : b \in S  BY <1>1, <2>1, <2>2 DEF Deleted, DistinctPts,
                                        PlaceInv, Releasing
    <2> QED  BY <2>3, <2>4
  <1>4. Range(queue) \subseteq Buffers /\ \A b \in Buffers : b \in S \cup Range(queue) => holder[b] = "plugin"
    BY <1>3, QueueType DEF HeldOnce, TypeOK
  <1>5. /\ holder' \in [Buffers -> {"player", "plugin", "twice"}]
        /\ fate' \in [Buffers -> {"none", "displayed", "dropped", "overtaken"}]
        /\ \A b \in Buffers :
              /\ holder'[b] = IF b \in S \cup Range(queue) THEN "player" ELSE holder[b]
              /\ fate'[b] = IF holder'[b] # "plugin" THEN "none" ELSE fate[b]
    <2> HIDE DEF IInv
    <2>1. TypeOK  BY DEF IInv
    <2> QED  BY <1>1, <1>4, <2>1 DEF TypeOK, GiveBack, Callbacks, Returned, Fates
  <1>6. /\ queue' \in Seq(Buffers) /\ queue' = <<>> /\ Range(queue)' = {} /\ IsInjective(queue)'
        /\ UNCHANGED <<direct, paused, posterVars, dispatchVars, displayVars, pastVars>>
        /\ poster = "off" /\ cur = NoBuffer /\ dispatch = "off" /\ phase' = "closed"
        /\ made' = {} /\ bound' = {} /\ used' = {} /\ fresh' = {} /\ lent' = {} /\ repeats' = {}
        /\ callbacks' = [b \in Buffers |-> 0] /\ screen' = NoBuffer
    BY QueueType DEF DisplayClosed, ThreadInv
  <1>7. TypeOK'
    <2>1. callbacks' \in [Buffers -> 0..MaxCallbacks]  BY <1>6, CallbackAssumption
    <2> QED  BY <1>2, <1>5, <1>6, <2>1 DEF TypeOK
  <1>8. HeldOnce'  BY <1>2, <1>5, <1>6 DEF HeldOnce, Releasing
  <1>9. RedrawIsAwaited' /\ DroppedGoesBack'
    BY <1>5, <1>6 DEF RedrawIsAwaited, DroppedGoesBack, Releasing
  <1>10. ThreadInv' /\ CallbackInv'
    BY <1>6, CallbackAssumption DEF ThreadInv, CallbackInv
  <1>11. PlaceInv' /\ PaceInv'
    BY <1>6 DEF PlaceInv, PaceInv, FramesPaced
  <1>12. LostInv'
    <2>1. \A b \in Overtaken : b \notin S \cup Range(queue) /\ b \in Entries
      BY <1>3, <1>6 DEF LostInv, HeldOnce, Overtaken
    <2>2. Overtaken' = Overtaken
      BY <1>5, <2>1 DEF Overtaken, HeldOnce, TypeOK
    <2> QED  BY <1>2, <1>3, <1>5, <1>6, <2>1, <2>2 DEF LostInv
  <1> QED  BY <1>7, <1>8, <1>9, <1>10, <1>11, <1>12

\* What Pop takes, and leaves.
LEMMA PopFacts ==
  ASSUME IInv, Pop
  PROVE  /\ queue' \in Seq(Buffers) /\ IsInjective(queue)'
         /\ \/ queue = <<>> /\ cur' = NoBuffer /\ Range(queue)' = Range(queue)
            \/ queue # <<>> /\ cur' \in Range(queue) /\ cur' \in Buffers /\ Range(queue)' = Range(queue) \ {cur'}
  <1>1. queue \in Seq(Buffers) /\ IsInjective(queue)
    BY DEF IInv, TypeOK, HeldOnce
  <1>2. CASE queue = <<>>
    BY <1>1, <1>2 DEF Pop
  <1>3. CASE queue # <<>>
    <2>1. cur' = Head(queue) /\ queue' = Tail(queue)  BY <1>3 DEF Pop
    <2> QED  BY <1>1, <1>3, <2>1, PopQueue
  <1> QED  BY <1>2, <1>3

\* Without an output the head is taken at once.
LEMMA PostPopIInv == ASSUME IInv, PostPop PROVE IInv'
  <1> USE NoBufferAssumption
      DEF IInv, playerVars, dispatchVars, displayVars, bufferVars, serverVars, reportVars, pastVars
  <1>1. /\ UNCHANGED <<playerVars, dispatchVars, displayVars, committed, bufferVars, serverVars,
                       reportVars>>
        /\ Entries' = Entries /\ poster = "pop" /\ cur = NoBuffer /\ phase \in {"window", "ending"}
        /\ poster' = IF queue = <<>> THEN "idle" ELSE "find"
        /\ Overtaken' = Overtaken
    BY DEF PostPop, ThreadInv, Entries, Overtaken
  <1>2. /\ queue' \in Seq(Buffers) /\ IsInjective(queue)'
        /\ \/ queue = <<>> /\ cur' = NoBuffer /\ Range(queue)' = Range(queue)
           \/ queue # <<>> /\ cur' \in Range(queue) /\ cur' \in Buffers /\ Range(queue)' = Range(queue) \ {cur'}
    BY PopFacts DEF PostPop
  <1>3. TypeOK'  BY <1>1, <1>2 DEF TypeOK
  <1>4. HeldOnce'  BY <1>1, <1>2 DEF HeldOnce, Releasing
  <1>5. RedrawIsAwaited' /\ DroppedGoesBack' /\ ThreadInv' /\ PlaceInv'
    BY <1>1, <1>2 DEF RedrawIsAwaited, DroppedGoesBack, Releasing, ThreadInv, PlaceInv
  <1>6. LostInv' /\ CallbackInv'
    BY <1>1, <1>2 DEF LostInv, CallbackInv
  <1>7. PaceInv'
    BY <1>1 DEF PaceInv, FramesPaced
  <1> QED  BY <1>3, <1>4, <1>5, <1>6, <1>7

\* A step that drops and gives back the frame at hand, if there is one.
LEMMA DropCurFacts ==
  ASSUME IInv, DropCur
  PROVE  /\ holder' \in [Buffers -> {"player", "plugin", "twice"}]
         /\ fate' \in [Buffers -> {"none", "displayed", "dropped", "overtaken"}]
         /\ \A b \in Buffers :
               /\ holder'[b] = IF b = cur THEN "player" ELSE holder[b]
               /\ fate'[b] = IF holder'[b] # "plugin" THEN "none" ELSE fate[b]
  <1>1. \A b \in Buffers : b \in {cur} => holder[b] = "plugin"
    BY DEF IInv, TypeOK, HeldOnce
  <1>2. /\ holder' \in [Buffers -> {"player", "plugin", "twice"}]
        /\ fate' \in [Buffers -> {"none", "displayed", "dropped", "overtaken"}]
        /\ \A b \in Buffers :
              /\ holder'[b] = IF b \in {cur} THEN "player" ELSE holder[b]
              /\ fate'[b] = IF holder'[b] # "plugin" THEN "none"
                            ELSE IF b \in {cur} THEN "dropped" ELSE fate[b]
    BY <1>1, CallbackFacts DEF IInv, DropCur
  <1> QED  BY <1>2

\* Another expired frame is taken, the one before it dropped.
LEMMA PostTakeIInv == ASSUME IInv, PostTake PROVE IInv'
  <1> USE NoBufferAssumption
      DEF IInv, playerVars, dispatchVars, displayVars, bufferVars, serverVars, pastVars
  <1>1. /\ UNCHANGED <<playerVars, dispatchVars, displayVars, committed, bufferVars, serverVars,
                       pastVars>>
        /\ Entries' = Entries /\ poster = "take" /\ poster' = "scan" /\ phase \in {"window", "ending"}
    BY DEF PostTake, ThreadInv, Entries, TypeOK
  <1>2. /\ queue' \in Seq(Buffers) /\ IsInjective(queue)'
        /\ \/ queue = <<>> /\ cur' = NoBuffer /\ Range(queue)' = Range(queue)
           \/ queue # <<>> /\ cur' \in Range(queue) /\ cur' \in Buffers /\ Range(queue)' = Range(queue) \ {cur'}
    BY PopFacts DEF PostTake
  <1>3. /\ holder' \in [Buffers -> {"player", "plugin", "twice"}]
        /\ fate' \in [Buffers -> {"none", "displayed", "dropped", "overtaken"}]
        /\ \A b \in Buffers :
              /\ holder'[b] = IF b = cur THEN "player" ELSE holder[b]
              /\ fate'[b] = IF holder'[b] # "plugin" THEN "none" ELSE fate[b]
    BY DropCurFacts DEF PostTake
  <1>4. (cur \notin Range(queue) /\ cur \notin Entries) \/ cur = NoBuffer
    BY DEF HeldOnce, TypeOK
  <1>5. cur \notin Overtaken /\ Overtaken' = Overtaken
    <2>1. cur \notin Overtaken
      BY <1>1, <1>4 DEF LostInv, Overtaken
    <2> QED  BY <1>3, <2>1, OvertakenFacts DEF Overtaken, TypeOK
  <1>6. TypeOK'
    <2>1. cur' \in Buffers \cup {NoBuffer} /\ queue' \in Seq(Buffers)  BY <1>2
    <2>2. holder' \in [Buffers -> {"player", "plugin", "twice"}]  BY <1>3
    <2>3. fate' \in [Buffers -> {"none", "displayed", "dropped", "overtaken"}]  BY <1>3
    <2>4. /\ direct' \in BOOLEAN /\ paused' \in BOOLEAN /\ output' \in BOOLEAN /\ redrawing' \in BOOLEAN
          /\ rushed' \in BOOLEAN
      BY <1>1, Zenon DEF TypeOK
    <2> QED  BY <1>1, <2>1, <2>2, <2>3, <2>4 DEF TypeOK
  <1>7. HeldOnce'
    <2>1. Range(queue) \subseteq Buffers  BY QueueType DEF TypeOK
    <2>2. /\ cur \notin Range(queue) /\ (cur' \in Buffers => cur' # cur)
          /\ Range(queue)' \subseteq Range(queue) /\ cur' \notin Range(queue)'
          /\ \A b \in Buffers : b \in Range(queue)' \cup {cur'} => b \in Range(queue) /\ b # cur
      BY <1>2, <2>1 DEF HeldOnce
    <2>3. \A b \in Buffers : Releasing(b)' = Releasing(b)  BY <1>1 DEF Releasing
    <2> QED  BY <1>1, <1>2, <1>3, <2>2, <2>3 DEF HeldOnce
  <1>8. RedrawIsAwaited' /\ DroppedGoesBack'
    BY <1>1, <1>3 DEF RedrawIsAwaited, DroppedGoesBack, Releasing
  <1>9. ThreadInv' /\ PlaceInv'
    BY <1>1, <1>2 DEF ThreadInv, PlaceInv, Releasing
  <1>10. LostInv' /\ CallbackInv'
    BY <1>1, <1>2, <1>3, <1>4, <1>5 DEF LostInv, CallbackInv
  <1>11. PaceInv'
    BY <1>1 DEF PaceInv, FramesPaced
  <1> QED  BY <1>6, <1>7, <1>8, <1>9, <1>10, <1>11

\* findWaylandBuffer and constructWlBuffer
LEMMA ConstructIInv == ASSUME IInv, Construct PROVE IInv'
  <1> USE NoBufferAssumption
      DEF IInv, playerVars, dispatchVars, displayVars, serverVars, pastVars
  <1>1. /\ UNCHANGED <<playerVars, queue, dispatchVars, displayVars, committed, made, used, fresh,
                       serverVars, pastVars>>
        /\ Entries' = Entries /\ Range(queue)' = Range(queue)
        /\ IsInjective(queue)' = IsInjective(queue)
        /\ cur \in Buffers /\ poster = "find" /\ phase \in {"window", "ending"}
    BY DEF Construct, ThreadInv, TypeOK, Entries
  <1>2. cur \notin Entries /\ cur \notin Range(queue) /\ cur \notin Overtaken
    BY <1>1 DEF HeldOnce, LostInv
  <1>3. CASE cur \in made
    <2>1. /\ bound' = bound \cup {cur} /\ poster' = "commit" /\ UNCHANGED <<cur, holder, fate>>
          /\ Overtaken' = Overtaken
      BY <1>3 DEF Construct, Overtaken
    <2>2. PlaceInv'
      BY <1>1, <1>2, <1>3, <2>1 DEF PlaceInv, Releasing
    <2>3. TypeOK'  BY <1>1, <2>1 DEF TypeOK
    <2>4. HeldOnce' /\ RedrawIsAwaited' /\ DroppedGoesBack'
      BY <1>1, <2>1 DEF HeldOnce, Releasing, RedrawIsAwaited, DroppedGoesBack
    <2>5. ThreadInv' /\ CallbackInv'
      BY <1>1, <2>1 DEF ThreadInv, CallbackInv
    <2>6. LostInv'
      BY <1>1, <1>2, <2>1 DEF LostInv
    <2>7. PaceInv'
      BY <1>1, <2>1 DEF PaceInv, FramesPaced
    <2> QED  BY <2>2, <2>3, <2>4, <2>5, <2>6, <2>7
  <1>4. CASE cur \notin made
    <2>1. /\ DropCur /\ cur' = NoBuffer /\ poster' = (IF direct THEN "off" ELSE "idle") /\ bound' = bound
      BY <1>4 DEF Construct, Posted
    <2>2. /\ holder' \in [Buffers -> {"player", "plugin", "twice"}]
          /\ fate' \in [Buffers -> {"none", "displayed", "dropped", "overtaken"}]
          /\ \A b \in Buffers :
                /\ holder'[b] = IF b = cur THEN "player" ELSE holder[b]
                /\ fate'[b] = IF holder'[b] # "plugin" THEN "none" ELSE fate[b]
      BY <2>1, DropCurFacts
    <2>3. Overtaken' = Overtaken
      BY <1>2, <2>2, OvertakenFacts DEF Overtaken, TypeOK
    <2>4. TypeOK'  BY <1>1, <2>1, <2>2 DEF TypeOK
    <2>5. HeldOnce'  BY <1>1, <1>2, <2>1, <2>2, QueueType DEF HeldOnce, Releasing, TypeOK
    <2>6. RedrawIsAwaited' /\ DroppedGoesBack'
      BY <1>1, <2>2 DEF RedrawIsAwaited, DroppedGoesBack, Releasing
    <2>7. ThreadInv' /\ PlaceInv'
      BY <1>1, <2>1 DEF ThreadInv, PlaceInv, Releasing
    <2>8. LostInv' /\ CallbackInv'
      BY <1>1, <2>1, <2>2, <2>3 DEF LostInv, CallbackInv
    <2>9. PaceInv'
      BY <1>1, <2>1 DEF PaceInv, FramesPaced
    <2> QED  BY <2>4, <2>5, <2>6, <2>7, <2>8, <2>9
  <1> QED  BY <1>3, <1>4

\* The end of displayFrameBuffer: the frame is dropped for lack of an output, or
\* attached, unless weston still uses the buffer, and recorded.
LEMMA CommitIInv == ASSUME DistinctPts, IInv, Commit PROVE IInv'
  <1> USE NoBufferAssumption
      DEF IInv, playerVars, dispatchVars, pastVars
  <1>1. /\ UNCHANGED <<playerVars, queue, dispatchVars, output, made, bound, pastVars>>
        /\ Range(queue)' = Range(queue) /\ IsInjective(queue)' = IsInjective(queue)
        /\ cur \in Buffers /\ poster = "commit" /\ phase # "closed"
        /\ cur' = NoBuffer /\ poster' = (IF direct THEN "off" ELSE "idle")
        /\ (phase \notin {"window", "ending"} => direct)
    BY DEF Commit, Posted, ThreadInv, TypeOK
  <1>2. cur \notin Entries /\ cur \notin Range(queue) /\ holder[cur] = "plugin"
    BY <1>1 DEF HeldOnce, TypeOK
  <1>3. Range(queue) \subseteq Buffers
    BY QueueType DEF TypeOK
  <1>4. ThreadInv'
    BY <1>1 DEF ThreadInv
  <1>5. CASE ~output
    <2>1. DropCur /\ UNCHANGED <<committed, used, fresh, redrawing, serverVars>> /\ Entries' = Entries
      BY <1>5 DEF Commit, Entries
    <2>2. UNCHANGED <<callbacks, screen, lent, repeats>>
      BY <2>1 DEF serverVars
    <2>3. /\ holder' \in [Buffers -> {"player", "plugin", "twice"}]
          /\ fate' \in [Buffers -> {"none", "displayed", "dropped", "overtaken"}]
          /\ \A b \in Buffers :
                /\ holder'[b] = IF b = cur THEN "player" ELSE holder[b]
                /\ fate'[b] = IF holder'[b] # "plugin" THEN "none" ELSE fate[b]
      BY <2>1, DropCurFacts
    <2>4. TypeOK'
      <3>1. output' \in BOOLEAN /\ redrawing' \in BOOLEAN /\ direct' \in BOOLEAN /\ paused' \in BOOLEAN
            /\ rushed' \in BOOLEAN
        BY <1>1, <2>1, Zenon DEF TypeOK
      <3> QED  BY <1>1, <2>1, <2>2, <2>3, <3>1 DEF TypeOK
    <2>5. HeldOnce'  BY <1>1, <1>2, <1>3, <2>1, <2>2, <2>3 DEF HeldOnce, Releasing
    <2>6. RedrawIsAwaited' /\ DroppedGoesBack' /\ PlaceInv'
      BY <1>1, <2>1, <2>2, <2>3 DEF RedrawIsAwaited, DroppedGoesBack, Releasing, PlaceInv
    <2>7. Overtaken' = Overtaken \ {cur}
      BY <1>1, <2>3, OvertakenFacts DEF Overtaken, TypeOK
    <2>8. LostInv' /\ CallbackInv'
      BY <1>1, <1>2, <2>1, <2>2, <2>3, <2>7 DEF LostInv, CallbackInv
    <2>9. PaceInv'
      BY <1>1, <2>1, <2>2 DEF PaceInv, FramesPaced
    <2> QED  BY <1>4, <2>4, <2>5, <2>6, <2>8, <2>9
  <1>6. CASE output
    <2>1. /\ committed' = With(cur) /\ UNCHANGED <<holder, fate>> /\ Overtaken' = Overtaken
          /\ Attach
      BY <1>6 DEF Commit, Overtaken
    <2>2. \/ cur \in used /\ UNCHANGED <<used, fresh, redrawing, callbacks, screen, lent, repeats>>
          \/ /\ cur \notin used
             /\ callbacks' = [callbacks EXCEPT ![cur] = @ + 1] /\ redrawing' = TRUE /\ screen' = cur
             /\ used' = used \cup {cur} /\ fresh' = fresh \cup {cur}
             /\ lent' = lent \cup {cur} /\ repeats' = repeats
      BY <2>1 DEF Attach, serverVars
    <2>3. /\ committed' \in [DOMAIN committed' -> Buffers]
          /\ \A p \in DOMAIN committed' : Pts[committed'[p]] = p
          /\ Entries' = Entries \cup {cur}
      <3>1. Entries' = Range(With(cur))  BY <2>1 DEF Entries
      <3> QED  BY <1>1, <1>2, <2>1, <3>1, InsertedEntries
    <2>4. /\ callbacks[cur] < MaxCallbacks /\ callbacks \in [Buffers -> 0..MaxCallbacks]
          /\ MaxCallbacks \in Nat
      BY <1>1, CallbackAssumption DEF CallbackInv, TypeOK
    <2>5. /\ callbacks' \in [Buffers -> 0..MaxCallbacks]
          /\ \A b \in Buffers \ {cur} : callbacks'[b] = callbacks[b]
          /\ cur \notin used => callbacks'[cur] = callbacks[cur] + 1
      BY <1>1, <2>2, <2>4
    <2>6. TypeOK'
      <3>1. output' \in BOOLEAN /\ direct' \in BOOLEAN /\ paused' \in BOOLEAN /\ rushed' \in BOOLEAN
        BY <1>1, Zenon DEF TypeOK
      <3>2. redrawing' \in BOOLEAN
        BY <2>2, Zenon DEF TypeOK
      <3>3. used' \subseteq Buffers /\ fresh' \subseteq Buffers /\ lent' \subseteq Buffers
            /\ repeats' \subseteq Buffers /\ screen' \in Buffers \cup {NoBuffer}
        BY <1>1, <2>2 DEF TypeOK
      <3> QED  BY <1>1, <2>1, <2>3, <2>5, <3>1, <3>2, <3>3 DEF TypeOK
    <2>7. HeldOnce'
      <3>1. used' \subseteq used \cup {cur} /\ lent' \subseteq lent \cup {cur}
        BY <2>2
      <3>2. \A b \in Buffers : Releasing(b)' = Releasing(b)  BY <1>1 DEF Releasing
      <3> QED  BY <1>1, <1>2, <1>3, <2>1, <2>3, <3>1, <3>2 DEF HeldOnce
    <2>8. RedrawIsAwaited'
      <3>1. CASE cur \in used
        BY <1>1, <2>2, <3>1 DEF RedrawIsAwaited
      <3>2. CASE cur \notin used
        <4>1. callbacks'[cur] > 0  BY <1>1, <2>4, <2>5, <3>2
        <4> QED  BY <1>1, <4>1 DEF RedrawIsAwaited
      <3> QED  BY <3>1, <3>2
    <2>9. DroppedGoesBack'
      BY <1>1, <2>1 DEF DroppedGoesBack, Releasing
    <2>10. PlaceInv'
      <3>1. cur \in used' /\ used \subseteq used'  BY <2>2
      <3>2. dispatch = "release" /\ event \notin repeated => event # cur /\ event \in Buffers
        BY <1>2 DEF PlaceInv, ThreadInv, TypeOK
      <3>3. dispatch = "release" /\ event \notin repeated => event \notin used' \cup lent'
        BY <2>2, <3>2 DEF PlaceInv
      <3> QED  BY <1>1, <2>3, <3>1, <3>3 DEF PlaceInv, Releasing
    <2>11. LostInv'
      BY <1>1, <2>1, <2>3 DEF LostInv
    <2>12. CallbackInv'
      BY <1>1, <1>2, <1>3, <2>5 DEF CallbackInv
    <2>13. PaceInv'
      <3> SUFFICES ASSUME ~direct, ~rushed PROVE PaceInv'
        BY <1>1 DEF PaceInv
      <3>1. FramesPaced /\ ~redrawing
        BY <1>1 DEF PaceInv
      <3>2. \A b \in Buffers : callbacks[b] = 0
        BY <2>4, <3>1 DEF FramesPaced
      <3>3. FramesPaced'
        BY <1>1, <2>2, <2>5, <3>1, <3>2 DEF FramesPaced
      <3> QED  BY <1>1, <3>3 DEF PaceInv
    <2> QED  BY <1>4, <2>6, <2>7, <2>8, <2>9, <2>10, <2>11, <2>12, <2>13
  <1> QED  BY <1>5, <1>6

\* A release event, once or once more, or one that says the frame was dropped.
LEMMA StartReleaseIInv ==
  ASSUME IInv, NEW b \in Buffers, BufferRelease(b) \/ BufferReleaseAgain(b) \/ BufferDroped(b)
  PROVE  IInv'
  <1> USE NoBufferAssumption
      DEF IInv, playerVars, posterVars, dispatchVars, displayVars
  <1>1. /\ UNCHANGED <<playerVars, queue, posterVars, displayVars, committed, made, bound, fresh,
                       callbacks, screen, rushed, holder>>
        /\ Entries' = Entries /\ Range(queue)' = Range(queue)
        /\ IsInjective(queue)' = IsInjective(queue)
        /\ used' = used \ {b} /\ dispatch = "idle" /\ phase # "closed"
        /\ \/ b \in bound /\ dispatch' = "release" /\ event' = b
           \/ b \notin bound /\ UNCHANGED dispatchVars
    BY DEF BufferRelease, BufferReleaseAgain, BufferDroped, StartRelease, Report, Entries, ThreadInv,
           Callbacks, Returned, TypeOK
  <1>2. /\ lent' \subseteq lent /\ repeats' \subseteq repeats \cup {b}
        /\ repeated \subseteq repeated' /\ repeated' \subseteq Buffers
    BY DEF BufferRelease, BufferReleaseAgain, BufferDroped, TypeOK
  <1>3. b \in bound /\ b \notin repeated' => b \in lent /\ b \notin lent'
    BY DEF BufferRelease, BufferReleaseAgain, BufferDroped
  <1>4. /\ fate' \in [Buffers -> {"none", "displayed", "dropped", "overtaken"}]
        /\ \A c \in Buffers : \/ fate'[c] = fate[c]
                              \/ (fate'[c] = "none" /\ holder[c] # "plugin")
                              \/ (c = b /\ b \in bound /\ fate'[c] = "dropped")
    <2>1. CASE fate' = fate
      BY <2>1 DEF TypeOK
    <2>2. CASE Report({b} \cap bound, "dropped")
      <3> HIDE DEF IInv
      <3>1. TypeOK  BY DEF IInv
      <3> QED  BY <2>2, <3>1 DEF TypeOK, Report, Callbacks, Returned, Fates
    <2> QED  BY <2>1, <2>2 DEF BufferRelease, BufferReleaseAgain, BufferDroped
  <1>5. b \in bound /\ b \notin repeated' => b \in Entries /\ b \notin Range(queue) \cup {cur}
    BY <1>2, <1>3 DEF HeldOnce
  <1>6. TypeOK'
    <2>1. used' \subseteq Buffers /\ lent' \subseteq Buffers /\ repeats' \subseteq Buffers
          /\ event' \in Buffers \cup {NoBuffer}
          /\ dispatch' \in {"off", "idle", "release", "clear", "added", "removed"}
      BY <1>1, <1>2 DEF TypeOK
    <2>2. output' \in BOOLEAN /\ redrawing' \in BOOLEAN /\ direct' \in BOOLEAN /\ paused' \in BOOLEAN
            /\ rushed' \in BOOLEAN
      BY <1>1, Zenon DEF TypeOK
    <2> QED  BY <1>1, <1>2, <1>4, <2>1, <2>2 DEF TypeOK
  <1>7. HeldOnce'
    <2>1. \A c \in Buffers : Releasing(c)' => c = b /\ b \in bound
      BY <1>1 DEF Releasing
    <2> QED  BY <1>1, <1>2, <1>5, <2>1 DEF HeldOnce
  <1>8. DroppedGoesBack'
    <2>1. \A c \in Buffers : ~Releasing(c)  BY <1>1 DEF Releasing
    <2>2. b \in bound => Releasing(b)'  BY <1>1 DEF Releasing
    <2> QED  BY <1>2, <1>4, <2>1, <2>2 DEF DroppedGoesBack
  <1>9. RedrawIsAwaited' /\ ThreadInv' /\ CallbackInv'
    BY <1>1, <1>2 DEF RedrawIsAwaited, ThreadInv, CallbackInv
  <1>10. PlaceInv'
    <2>1. \A c \in Buffers : ~Releasing(c)  BY <1>1 DEF Releasing
    <2>2. dispatch' = "release" /\ event' \notin repeated' => event' \in Entries' \ (used' \cup lent')
      BY <1>1, <1>3, <1>5
    <2>3. \A c \in Entries' \cap bound' : c \in used' \/ Releasing(c)'
      BY <1>1, <2>1 DEF PlaceInv, Releasing, TypeOK
    <2> QED  BY <1>1, <2>2, <2>3 DEF PlaceInv
  <1>11. LostInv'
    <2>1. b \in bound => b \notin Overtaken  BY DEF LostInv
    <2>2. Overtaken' = Overtaken
      BY <1>4, <2>1, OvertakenFacts DEF Overtaken
    <2> QED  BY <1>1, <2>2 DEF LostInv
  <1>12. PaceInv'
    BY <1>1 DEF PaceInv, FramesPaced
  <1> QED  BY <1>6, <1>7, <1>8, <1>9, <1>10, <1>11, <1>12

\* handleBufferReleaseCallback: the buffer leaves the map, if it is in it, for the player.
LEMMA ReleaseCallbackIInv == ASSUME DistinctPts, IInv, ReleaseCallback PROVE IInv'
  <1> USE NoBufferAssumption
      DEF IInv, playerVars, posterVars, displayVars, bufferVars, serverVars, pastVars
  <1>1. /\ UNCHANGED <<playerVars, queue, posterVars, event, displayVars, bufferVars, serverVars, pastVars>>
        /\ Range(queue)' = Range(queue) /\ IsInjective(queue)' = IsInjective(queue)
        /\ dispatch = "release" /\ dispatch' = "clear" /\ phase # "closed"
    BY DEF ReleaseCallback, ThreadInv
  <1>2. event \in bound /\ event \in Buffers
    BY <1>1 DEF ThreadInv, TypeOK
  <1>3. Pts[event] \in DOMAIN committed <=> event \in Entries
    BY <1>2, EntriesByPts
  <1>4. /\ committed' \in [DOMAIN committed' -> Buffers]
        /\ \A p \in DOMAIN committed' : Pts[committed'[p]] = p
        /\ Entries' = Entries \ {event}
    <2>1. committed' = Without(Pts[event])  BY DEF ReleaseCallback
    <2> QED  BY <1>2, <2>1, WithoutEntries DEF Entries
  <1>5. \A c \in Buffers : c = event /\ event \in Entries =>
           holder[c] = "plugin" /\ c \notin Range(queue) \cup {cur}
    BY DEF HeldOnce, TypeOK
  <1>6. /\ holder' \in [Buffers -> {"player", "plugin", "twice"}]
        /\ fate' \in [Buffers -> {"none", "displayed", "dropped", "overtaken"}]
        /\ \A c \in Buffers :
              /\ holder'[c] = IF c = event /\ event \in Entries THEN "player" ELSE holder[c]
              /\ fate'[c] = IF holder'[c] # "plugin" THEN "none" ELSE fate[c]
    <2> HIDE DEF IInv
    <2>1. TypeOK  BY DEF IInv
    <2>2. \A c \in Buffers : c \in {c2 \in {event} : Pts[c2] \in DOMAIN committed} <=> c = event /\ event \in Entries
      BY <1>3
    <2>3. GiveBack({c \in {event} : Pts[c] \in DOMAIN committed})  BY DEF ReleaseCallback
    <2> DEFINE R == {c \in {event} : Pts[c] \in DOMAIN committed}
    <2>4. GiveBack(R) /\ \A c \in Buffers : c \in R <=> c = event /\ event \in Entries
      BY <2>2, <2>3
    <2> HIDE DEF R
    <2> QED  BY <1>5, <2>1, <2>4 DEF TypeOK, GiveBack, Callbacks, Returned, Fates
  <1>7. TypeOK'
    <2>1. output' \in BOOLEAN /\ redrawing' \in BOOLEAN /\ direct' \in BOOLEAN /\ paused' \in BOOLEAN
            /\ rushed' \in BOOLEAN
      BY <1>1, Zenon DEF TypeOK
    <2> QED  BY <1>1, <1>4, <1>6, <2>1 DEF TypeOK
  <1>8. event \in Entries /\ event \notin repeated => event \notin used \cup lent
    BY <1>1 DEF PlaceInv
  <1>9. event \notin Entries => event \in repeated
    BY <1>1 DEF PlaceInv
  <1>10. HeldOnce'
    BY <1>1, <1>4, <1>5, <1>6, <1>8 DEF HeldOnce, Releasing
  <1>11. DroppedGoesBack'
    BY <1>1, <1>6, <1>9 DEF DroppedGoesBack, Releasing
  <1>12. RedrawIsAwaited' /\ ThreadInv' /\ PlaceInv' /\ CallbackInv'
    BY <1>1, <1>4 DEF RedrawIsAwaited, ThreadInv, PlaceInv, Releasing, CallbackInv
  <1>13. LostInv'
    <2>1. event \notin Overtaken  BY <1>2 DEF LostInv
    <2>2. Overtaken' = Overtaken
      BY <1>6, <2>1, OvertakenFacts DEF Overtaken, TypeOK
    <2> QED  BY <1>1, <1>4, <1>6, <2>1, <2>2 DEF LostInv
  <1>14. PaceInv'
    BY <1>1 DEF PaceInv, FramesPaced
  <1> QED  BY <1>7, <1>10, <1>11, <1>12, <1>13, <1>14

\* The late reset of mRenderBuffer.
LEMMA ClearIInv == ASSUME IInv, ClearRenderBuffer PROVE IInv'
  <1> USE NoBufferAssumption
      DEF IInv, playerVars, posterVars, displayVars, serverVars, pastVars
  <1>1. /\ UNCHANGED <<playerVars, queue, posterVars, displayVars, committed, made, used, fresh,
                       serverVars, pastVars>>
        /\ Entries' = Entries /\ Range(queue)' = Range(queue)
        /\ IsInjective(queue)' = IsInjective(queue)
        /\ dispatch = "clear" /\ dispatch' = "idle" /\ event' = NoBuffer /\ phase # "closed"
        /\ bound' = bound \ {event}
    BY DEF ClearRenderBuffer, ThreadInv, Entries
  <1> DEFINE O == {event} \cap (Entries \cup {c \in {cur} : poster = "commit"})
  <1>2. /\ event \in Buffers
        /\ \A c \in Buffers : c \in O <=> c = event /\ (event \in Entries \/ (poster = "commit" /\ event = cur))
    BY <1>1 DEF ThreadInv, TypeOK
  <1>3. \A c \in Buffers : c \in O => holder[c] = "plugin"
    BY <1>2 DEF HeldOnce, TypeOK
  <1>4. /\ holder' = holder
        /\ fate' \in [Buffers -> {"none", "displayed", "dropped", "overtaken"}]
        /\ \A c \in Buffers :
              fate'[c] = IF holder[c] # "plugin" THEN "none" ELSE IF c \in O THEN "overtaken" ELSE fate[c]
    <2>1. Report(O, "overtaken")  BY DEF ClearRenderBuffer
    <2> HIDE DEF O, IInv
    <2>2. TypeOK  BY DEF IInv
    <2>3. Returned({}) = holder  BY <2>2 DEF TypeOK, Returned
    <2> QED  BY <2>1, <2>2, <2>3 DEF TypeOK, Report, Callbacks, Fates
  <1>5. TypeOK'
    <2>1. output' \in BOOLEAN /\ redrawing' \in BOOLEAN /\ direct' \in BOOLEAN /\ paused' \in BOOLEAN
            /\ rushed' \in BOOLEAN
      BY <1>1, Zenon DEF TypeOK
    <2> HIDE DEF O
    <2> QED  BY <1>1, <1>4, <2>1 DEF TypeOK
  <1>6. HeldOnce'
    BY <1>1, <1>4 DEF HeldOnce, Releasing
  <1>7. DroppedGoesBack'
    BY <1>1, <1>4 DEF DroppedGoesBack, Releasing
  <1>8. RedrawIsAwaited' /\ ThreadInv' /\ PlaceInv' /\ CallbackInv'
    BY <1>1 DEF RedrawIsAwaited, ThreadInv, PlaceInv, Releasing, CallbackInv
  <1>9. LostInv'
    <2>1. \A c \in Buffers : c \in Overtaken' <=> c \in Overtaken \/ c \in O
      BY <1>3, <1>4, OvertakenFacts DEF Overtaken
    <2>2. Overtaken' \subseteq Buffers /\ Entries \subseteq Buffers
      BY DEF Overtaken, TypeOK, Entries, Range
    <2>3. poster = "commit" => cur \in Buffers  BY DEF ThreadInv, TypeOK
    <2>4. Entries' \subseteq bound' \cup Overtaken'
      BY <1>1, <1>2, <2>1, <2>2 DEF LostInv
    <2>5. poster' = "commit" => cur' \in bound' \cup Overtaken'
      BY <1>1, <1>2, <2>1, <2>3 DEF LostInv
    <2>6. \A c \in Overtaken' : c \notin bound' /\ (c \in Entries' \/ (poster' = "commit" /\ c = cur'))
      BY <1>1, <1>2, <2>1, <2>2 DEF LostInv
    <2> QED  BY <1>1, <1>4, <2>4, <2>5, <2>6 DEF LostInv
  <1>10. PaceInv'
    BY <1>1 DEF PaceInv, FramesPaced
  <1> QED  BY <1>5, <1>6, <1>7, <1>8, <1>9, <1>10

\* frameDisplayedCallback
LEMMA FrameDisplayedIInv ==
  ASSUME IInv, NEW b \in Buffers, FrameDisplayed(b)
  PROVE  IInv'
  <1> USE NoBufferAssumption
      DEF IInv, playerVars, posterVars, dispatchVars
  <1>1. /\ UNCHANGED <<playerVars, queue, posterVars, dispatchVars, output, committed, made, bound,
                       used, screen, lent, repeats, repeated>>
        /\ Entries' = Entries /\ Range(queue)' = Range(queue)
        /\ IsInjective(queue)' = IsInjective(queue)
        /\ redrawing' = FALSE /\ fresh' = fresh \ {b} /\ dispatch = "idle"
        /\ callbacks[b] > 0 /\ callbacks' = [callbacks EXCEPT ![b] = @ - 1]
        /\ rushed' = (rushed /\ \E c \in Buffers : callbacks'[c] > 0)
    BY DEF FrameDisplayed, Entries
  <1>2. /\ callbacks \in [Buffers -> 0..MaxCallbacks] /\ MaxCallbacks \in Nat
        /\ callbacks' \in [Buffers -> 0..MaxCallbacks]
        /\ \A c \in Buffers : callbacks'[c] = IF c = b THEN callbacks[b] - 1 ELSE callbacks[c]
    BY <1>1, CallbackAssumption DEF TypeOK
  <1>3. /\ holder' = holder
        /\ fate' \in [Buffers -> {"none", "displayed", "dropped", "overtaken"}]
        /\ \A c \in Buffers :
              fate'[c] = IF holder[c] # "plugin" THEN "none"
                         ELSE IF c \in {b} \cap bound \cap fresh THEN "displayed" ELSE fate[c]
    <2> DEFINE O == {b} \cap bound \cap fresh
    <2>1. Report(O, "displayed")  BY DEF FrameDisplayed
    <2> HIDE DEF O, IInv
    <2>2. TypeOK  BY DEF IInv
    <2>3. Returned({}) = holder  BY <2>2 DEF TypeOK, Returned
    <2>4. /\ holder' = holder
          /\ fate' \in [Buffers -> {"none", "displayed", "dropped", "overtaken"}]
          /\ \A c \in Buffers :
                fate'[c] = IF holder[c] # "plugin" THEN "none" ELSE IF c \in O THEN "displayed" ELSE fate[c]
      BY <2>1, <2>2, <2>3 DEF TypeOK, Report, Callbacks, Fates
    <2> QED  BY <2>4 DEF O
  <1>4. TypeOK'
    <2>1. output' \in BOOLEAN /\ direct' \in BOOLEAN /\ paused' \in BOOLEAN
      BY <1>1, Zenon DEF TypeOK
    <2>2. redrawing' \in BOOLEAN /\ rushed' \in BOOLEAN
      BY <1>1, Zenon
    <2>3. fresh' \subseteq Buffers  BY <1>1 DEF TypeOK
    <2> QED  BY <1>1, <1>2, <1>3, <2>1, <2>2, <2>3 DEF TypeOK
  <1>5. HeldOnce'
    BY <1>1, <1>3 DEF HeldOnce, Releasing
  <1>6. DroppedGoesBack'
    BY <1>1, <1>3 DEF DroppedGoesBack, Releasing
  <1>7. CallbackInv'
    BY <1>1, <1>2 DEF CallbackInv
  <1>8. RedrawIsAwaited' /\ PlaceInv'
    BY <1>1 DEF RedrawIsAwaited, PlaceInv, Releasing
  <1>9. ThreadInv'
    BY <1>1, <1>2 DEF ThreadInv
  <1>10. LostInv'
    <2>1. Overtaken' = Overtaken
      BY <1>3, OvertakenFacts DEF Overtaken, LostInv
    <2> QED  BY <1>1, <1>3, <2>1 DEF LostInv
  <1>11. PaceInv'
    <2> SUFFICES ASSUME ~direct, ~rushed' PROVE PaceInv'
      BY <1>1 DEF PaceInv
    <2>1. \A c \in Buffers : callbacks'[c] = 0
      <3>1. CASE rushed
        <4>1. \A c \in Buffers : ~(callbacks'[c] > 0)
          BY <1>1, <3>1, Zenon
        <4>2. \A c \in Buffers : callbacks'[c] \in Nat
          BY <1>2
        <4> QED  BY <4>1, <4>2
      <3>2. CASE ~rushed
        <4>1. FramesPaced  BY <3>2 DEF PaceInv
        <4> QED  BY <1>1, <1>2, <3>2, <4>1 DEF FramesPaced
      <3> QED  BY <3>1, <3>2
    <2>2. FramesPaced'  BY <2>1 DEF FramesPaced
    <2> QED  BY <1>1, <2>2 DEF PaceInv
  <1> QED  BY <1>4, <1>5, <1>6, <1>7, <1>8, <1>9, <1>10, <1>11

LEMMA NextIInv == ASSUME DistinctPts PROVE IInv /\ [Next]_vars => IInv'
  <1> SUFFICES ASSUME IInv, [Next]_vars PROVE IInv'
    OBVIOUS
  <1>1. CASE Player
    BY <1>1, OpenDisplayIInv, FlagsIInv, FlushIInv, DisplayIInv DEF Player
  <1>2. CASE Closing
    BY <1>2, FlagsIInv, DisplayClosedIInv DEF Closing
  <1>3. CASE Poster
    BY <1>3, PostPopIInv, PostTakeIInv, FlagsIInv, ConstructIInv, CommitIInv DEF Poster
  <1>4. CASE Handler
    BY <1>4, ReleaseCallbackIInv, ClearIInv, FlagsIInv DEF Handler
  <1>5. CASE Weston
    BY <1>5, FlagsIInv, StartReleaseIInv, FrameDisplayedIInv DEF Weston
  <1>6. CASE UNCHANGED vars
    <2>1. /\ Entries' = Entries /\ Range(queue)' = Range(queue) /\ Overtaken' = Overtaken
          /\ IsInjective(queue)' = IsInjective(queue)
      BY <1>6 DEF vars, reportVars, Entries, Overtaken
    <2> QED
      BY <1>6, <2>1
         DEF vars, playerVars, posterVars, dispatchVars, displayVars, bufferVars, serverVars,
             pastVars, reportVars, IInv, TypeOK, HeldOnce, Releasing, RedrawIsAwaited, DroppedGoesBack,
             ThreadInv, PlaceInv, LostInv, PaceInv, FramesPaced, CallbackInv
  <1> QED  BY <1>1, <1>2, <1>3, <1>4, <1>5, <1>6 DEF Next

-----------------------------------------------------------------------------
\* The invariant holds in every behaviour.
THEOREM Invariance == ASSUME DistinctPts PROVE Spec => []IInv
  <1>1. IInv /\ [Next]_vars => IInv'  BY NextIInv
  <1> QED  BY <1>1, InitIInv, PTL DEF Spec

\* Every variable keeps its type.
THEOREM TypeCorrect == ASSUME DistinctPts PROVE Spec => []TypeOK
  <1>1. IInv => TypeOK  BY DEF IInv
  <1> QED  BY <1>1, Invariance, PTL

\* No frame is in two places or given back twice; weston uses none that the player has,
\* unless its release event came once more after the buffer was used again.
THEOREM HeldInOnePlace == ASSUME DistinctPts PROVE Spec => []HeldOnce
  <1>1. IInv => HeldOnce  BY DEF IInv
  <1> QED  BY <1>1, Invariance, PTL

\* The post thread is held back only while a frame callback is owed.
THEOREM RedrawCallbackComes == ASSUME DistinctPts PROVE Spec => []RedrawIsAwaited
  <1>1. IInv => RedrawIsAwaited  BY DEF IInv
  <1> QED  BY <1>1, Invariance, PTL

\* It sends no frame before the last one is drawn, but where an output came or went
\* meanwhile.
THEOREM PostThreadPaces == ASSUME DistinctPts PROVE Spec => []FramesPaced
  <1>1. IInv => FramesPaced  BY DEF IInv, PaceInv, FramesPaced
  <1> QED  BY <1>1, Invariance, PTL

\* A frame reported dropped is given back at once.
THEOREM DropGivesBack == ASSUME DistinctPts PROVE Spec => []DroppedGoesBack
  <1>1. IInv => DroppedGoesBack  BY DEF IInv
  <1> QED  BY <1>1, Invariance, PTL

\* closeDisplay loses only the buffers submitted again in the middle of their
\* release.
THEOREM CloseLosesOnlyOvertaken == ASSUME DistinctPts PROVE Spec => []ClosedGivesBack
  <1>1. IInv => ClosedGivesBack
    <2> SUFFICES ASSUME IInv, phase = "closed", NEW b \in Buffers, fate[b] # "overtaken"
                 PROVE  holder[b] = "player"
      BY DEF ClosedGivesBack
    <2>1. queue = <<>> /\ cur = NoBuffer /\ bound = {}
      BY DEF IInv, ThreadInv
    <2>2. b \notin Range(queue) \cup {cur} \cup Entries
      BY <2>1, QueueType, NoBufferAssumption DEF IInv, LostInv, Overtaken
    <2> QED  BY <2>2 DEF IInv, TypeOK, HeldOnce, LostInv
  <1> QED  BY <1>1, Invariance, PTL

-----------------------------------------------------------------------------
(* The making of a wl_buffer. *)

Making == {"sent", "waiting", "woken"}

DmaTypeOK ==
    /\ dmaPlayer \in Making \cup {"rest", "failing"} /\ result \in {Dma!NO_ERROR, -Dma!ETIMEDOUT}
    /\ objects \in 0..Tries /\ callback \in 0..objects
    /\ live \subseteq 1..objects /\ told \subseteq 1..objects /\ destroyed \subseteq 1..objects
    /\ wlBuffer \in [Dma!Objects -> {"NULL", "asking", "created"}]
    /\ answer \in [Dma!Objects -> {"none", "asked", "created", "failed"}]
    /\ \A d \in Dma!Objects : d > objects => wlBuffer[d] = "NULL"
    /\ \A d \in told : answer[d] \in {"created", "failed"}

\* The params live as long as the player is in constructWlBuffer, and a callback
\* is always in that of the object the player is making.
ParamsInv ==
    /\ params = IF dmaPlayer \in Making THEN {objects} ELSE {}
    /\ dmaPlayer # "rest" => objects \in live
    /\ callback # 0 => callback = objects /\ dmaPlayer \in Making /\ callback \in told

\* What mWlBuffer of the object being made says of the answer.
Stored == objects \in told /\ callback = 0

AskedInv ==
    /\ dmaPlayer = "sent" => wlBuffer[objects] # "asking"
    /\ dmaPlayer = "waiting" => wlBuffer[objects] = "asking"
    /\ dmaPlayer = "sent" /\ ~Stored => wlBuffer[objects] = "NULL"
    /\ dmaPlayer = "woken" /\ ~Stored => wlBuffer[objects] = "asking"
    /\ dmaPlayer \in Making /\ Stored /\ answer[objects] = "created" => wlBuffer[objects] = "created"
    /\ dmaPlayer = "failing" => objects \in told /\ answer[objects] = "failed"

\* Of the others, the wl_buffer that was created is kept or destroyed.
KeptInv ==
    \A d \in told : answer[d] = "created" /\ (d # objects \/ dmaPlayer = "rest") =>
        d \in destroyed \/ (d \in live /\ wlBuffer[d] = "created")

DmaIInv == DmaTypeOK /\ ParamsInv /\ AskedInv /\ KeptInv

LEMMA DmaInitIInv == Dma!Init => DmaIInv
  BY TriesAssumption DEF Dma!Init, DmaIInv, DmaTypeOK, ParamsInv, AskedInv, KeptInv, Making, Stored,
     Dma!Objects, Dma!NO_ERROR, Dma!ETIMEDOUT

\* The player, in constructWlBuffer and about it.
LEMMA ConstructDmaIInv == ASSUME DmaIInv, Dma!Construct PROVE DmaIInv'
  <1> USE TriesAssumption DEF DmaIInv, DmaTypeOK, ParamsInv, Making, Dma!Objects
  <1>1. /\ dmaPlayer = "rest" /\ params = {} /\ callback = 0 /\ objects < Tries
        /\ objects' = objects + 1 /\ objects' \in 1..Tries /\ objects' \notin told
        /\ wlBuffer[objects'] = "NULL"
        /\ UNCHANGED <<result, wlBuffer, callback, told, destroyed>>
    BY DEF Dma!Construct
  <1>2. \/ /\ dmaPlayer' = "sent" /\ live' = live \cup {objects'} /\ params' = params \cup {objects'}
           /\ answer' = [answer EXCEPT ![objects'] = "asked"]
        \/ UNCHANGED <<dmaPlayer, live, params, answer>>
    BY DEF Dma!Construct
  <1>3. \A d \in told : answer'[d] = answer[d]
    BY <1>1, <1>2
  <1>4. DmaTypeOK'
    <2>1. answer' \in [Dma!Objects -> {"none", "asked", "created", "failed"}]
      BY <1>1, <1>2
    <2>2. live' \subseteq 1..objects' /\ told' \subseteq 1..objects' /\ destroyed' \subseteq 1..objects'
      <3>1. 1..objects \subseteq 1..objects' /\ objects' \in 1..objects'
        BY <1>1
      <3>2. live \subseteq 1..objects /\ told \subseteq 1..objects /\ destroyed \subseteq 1..objects
        OBVIOUS
      <3>3. live' \subseteq live \cup {objects'} /\ told' = told /\ destroyed' = destroyed
        BY <1>1, <1>2
      <3> HIDE DEF DmaIInv, DmaTypeOK
      <3> QED  BY <3>1, <3>2, <3>3
    <2>3. dmaPlayer' \in Making \cup {"rest", "failing"} /\ callback' \in 0..objects'
      BY <1>1, <1>2
    <2> QED  BY <1>1, <1>3, <2>1, <2>2, <2>3
  <1>7. ParamsInv'
    BY <1>1, <1>2
  <1>5. AskedInv'
    BY <1>1, <1>2 DEF AskedInv, Stored
  <1>6. KeptInv'
    BY <1>1, <1>2, <1>3 DEF KeptInv
  <1> QED  BY <1>4, <1>5, <1>6, <1>7

LEMMA LockDmaIInv == ASSUME DmaIInv, Dma!Lock PROVE DmaIInv'
  BY TriesAssumption DEF Dma!Lock, Dma!Returns, DmaIInv, DmaTypeOK, ParamsInv, AskedInv, KeptInv,
     Making, Stored, Dma!Objects

LEMMA WaitEndsDmaIInv == ASSUME DmaIInv, Dma!WaitEnds PROVE DmaIInv'
  BY TriesAssumption DEF Dma!WaitEnds, DmaIInv, DmaTypeOK, ParamsInv, AskedInv, KeptInv,
     Making, Stored, Dma!Objects

\* No wait returns ERROR_TIMED_OUT: the player is not told of a time-out.
LEMMA WokenDmaIInv == ASSUME DmaIInv, Dma!Woken PROVE DmaIInv'
  <1>1. result # Dma!ERROR_TIMED_OUT
    BY DEF DmaIInv, DmaTypeOK, Dma!NO_ERROR, Dma!ETIMEDOUT, Dma!ERROR_TIMED_OUT, Dma!ERROR_UNKNOWN
  <1>2. CASE wlBuffer[objects] = "asking"
    BY <1>1, <1>2, TriesAssumption DEF Dma!Woken, DmaIInv, DmaTypeOK, ParamsInv, AskedInv, KeptInv,
       Making, Stored, Dma!Objects
  <1>3. CASE wlBuffer[objects] # "asking"
    BY <1>1, <1>3, TriesAssumption DEF Dma!Woken, Dma!Returns, DmaIInv, DmaTypeOK, ParamsInv,
       AskedInv, KeptInv, Making, Stored, Dma!Objects
  <1> QED  BY <1>2, <1>3

LEMMA DeleteDmaIInv == ASSUME DmaIInv, Dma!Delete PROVE DmaIInv'
  BY TriesAssumption DEF Dma!Delete, DmaIInv, DmaTypeOK, ParamsInv, AskedInv, KeptInv,
     Making, Stored, Dma!Objects

LEMMA DestroyDmaIInv == ASSUME DmaIInv, NEW d \in Dma!Objects, Dma!Destroy(d) PROVE DmaIInv'
  BY TriesAssumption DEF Dma!Destroy, DmaIInv, DmaTypeOK, ParamsInv, AskedInv, KeptInv,
     Making, Stored, Dma!Objects

\* The compositor and the dispatch thread.
LEMMA AnswerDmaIInv == ASSUME DmaIInv, NEW d \in Dma!Objects, Dma!Answer(d) PROVE DmaIInv'
  BY TriesAssumption DEF Dma!Answer, DmaIInv, DmaTypeOK, ParamsInv, AskedInv, KeptInv,
     Making, Stored, Dma!Objects

LEMMA DispatchDmaIInv == ASSUME DmaIInv, NEW d \in Dma!Objects, Dma!Dispatch(d) PROVE DmaIInv'
  BY TriesAssumption DEF Dma!Dispatch, DmaIInv, DmaTypeOK, ParamsInv, AskedInv, KeptInv,
     Making, Stored, Dma!Objects

LEMMA StoreDmaIInv == ASSUME DmaIInv, Dma!Store PROVE DmaIInv'
  BY TriesAssumption DEF Dma!Store, DmaIInv, DmaTypeOK, ParamsInv, AskedInv, KeptInv,
     Making, Stored, Dma!Objects

LEMMA DmaNextIInv == DmaIInv /\ [Dma!Next]_Dma!vars => DmaIInv'
  <1> SUFFICES ASSUME DmaIInv, [Dma!Next]_Dma!vars PROVE DmaIInv'
    OBVIOUS
  <1>1. CASE UNCHANGED Dma!vars
    BY <1>1 DEF Dma!vars, DmaIInv, DmaTypeOK, ParamsInv, AskedInv, KeptInv, Stored
  <1> QED  BY <1>1, ConstructDmaIInv, LockDmaIInv, WaitEndsDmaIInv, WokenDmaIInv, DeleteDmaIInv,
              DestroyDmaIInv, AnswerDmaIInv, DispatchDmaIInv, StoreDmaIInv
           DEF Dma!Next, Dma!Player, Dma!Events

\* The invariant holds whatever the order of answer, time-out and lock.
THEOREM DmaInvariance == Dma!Spec => []DmaIInv
  BY DmaInitIInv, DmaNextIInv, PTL DEF Dma!Spec

-----------------------------------------------------------------------------
(* The behaviours of MCWestonFrames. *)

\* A behaviour of the composition is one of each part, one of them idle.
THEOREM PartsAreBehaviours == PartsSpec => Spec /\ Dma!Spec
  <1>1. PartsInit => Init /\ Dma!Init  BY DEF PartsInit
  <1>2. [PartsNext]_allVars => [Next]_vars /\ [Dma!Next]_Dma!vars
    BY DEF PartsNext, allVars, dmaVars, Dma!vars
  <1> QED  BY <1>1, <1>2, PTL DEF PartsSpec, Spec, Dma!Spec

\* No answer comes to a deleted object, and no wl_buffer is lost.
THEOREM AnswersAlwaysLand == PartsSpec => []AnswersLand
  <1>1. DmaIInv => AnswersLand
    BY DEF DmaIInv, DmaTypeOK, ParamsInv, KeptInv, AnswersLand, Dma!AnswersLand, Making
  <1> QED  BY <1>1, PartsAreBehaviours, DmaInvariance, PTL
=============================================================================
