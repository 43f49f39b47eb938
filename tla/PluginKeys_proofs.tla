------------------------- MODULE PluginKeys_proofs -------------------------
(***************************************************************************)
(* What holds of the keys of the drm and the westeros plugin, for every    *)
(* set of rectangles, frame sizes and rates and both builds of the drm     *)
(* plugin; and so of the behaviours of MCPluginKeys.                       *)
(***************************************************************************)
EXTENDS MCPluginKeys, TLAPS

-----------------------------------------------------------------------------
(* The keys of the drm plugin. *)

\* The rectangle asked for is the one stored, also while no window is open.
DrmStoredInv ==
    /\ winRect = asked.rect
    /\ drmKeep = asked.keep
    /\ open /\ Freezen => freeze = drmKeep
    /\ crashed => Freezen /\ ~open

DrmIInv == Drm!TypeOK /\ Drm!MuteEndsWithSession /\ Drm!RectInEffect /\ DrmStoredInv

LEMMA DrmInitIInv == Drm!Init => DrmIInv
  <1> SUFFICES ASSUME Drm!Init PROVE DrmIInv
    OBVIOUS
  <1>1. /\ open \in BOOLEAN /\ isPip \in BOOLEAN /\ plane \in BOOLEAN /\ drmHide \in BOOLEAN
        /\ drmKeep \in BOOLEAN /\ drmImmediate \in BOOLEAN /\ freeze \in BOOLEAN /\ muted \in BOOLEAN
        /\ ~open /\ ~muted /\ ~drmImmediate /\ ~freeze /\ crashed = FALSE
    BY Zenon DEF Drm!Init
  <1>2. /\ winRect = NoRect /\ postRect = NoRect
        /\ asked \in [keep : BOOLEAN, rect : DrmRects \cup {NoRect}] /\ asked.rect = NoRect
        /\ drmKeep = asked.keep
    BY DEF Drm!Init
  <1> QED  BY <1>1, <1>2 DEF DrmIInv, Drm!TypeOK, Drm!MuteEndsWithSession, Drm!RectInEffect,
                               DrmStoredInv

LEMMA DrmNextIInv == DrmIInv /\ [Drm!Next]_Drm!vars => DrmIInv'
  <1> SUFFICES ASSUME DrmIInv, [Drm!Next]_Drm!vars PROVE DrmIInv'
    OBVIOUS
  <1> USE DEF DrmIInv, Drm!TypeOK, Drm!MuteEndsWithSession, Drm!RectInEffect, DrmStoredInv,
             Drm!pluginVars, Drm!sessionVars
  <1>1. ASSUME NEW on \in BOOLEAN, Drm!SetPip(on) \/ Drm!SetImmediate(on)
        PROVE  DrmIInv'
    BY <1>1 DEF Drm!SetPip, Drm!SetImmediate, Drm!Immediately
  <1>2. ASSUME NEW on \in BOOLEAN, Drm!SetHide(on)
        PROVE  DrmIInv'
    BY <1>2 DEF Drm!SetHide
  <1>3. ASSUME NEW on \in BOOLEAN, Drm!SetKeep(on)
        PROVE  DrmIInv'
    BY <1>3 DEF Drm!SetKeep
  <1>4. ASSUME NEW r \in DrmRects \cup {NoRect}, Drm!SetWindowSize(r)
        PROVE  DrmIInv'
    BY <1>4 DEF Drm!SetWindowSize
  <1>5. CASE Drm!OpenWindow /\ ~crashed
    BY <1>5 DEF Drm!OpenWindow
  <1>6. CASE Drm!OpenFails
    BY <1>6 DEF Drm!OpenFails
  <1>7. CASE Drm!CloseWindow
    BY <1>7 DEF Drm!CloseWindow
  <1>8. CASE UNCHANGED Drm!vars
    BY <1>8 DEF Drm!vars
  <1> QED  BY <1>1, <1>2, <1>3, <1>4, <1>5, <1>6, <1>7, <1>8 DEF Drm!Next

\* The invariant holds in every behaviour.
THEOREM DrmInvariance == Drm!Spec => []DrmIInv
  BY DrmInitIInv, DrmNextIInv, PTL DEF Drm!Spec

\* Every variable keeps its type; without a window there is no frame post.
THEOREM DrmTypeCorrect == Drm!Spec => []Drm!TypeOK
  <1>1. DrmIInv => Drm!TypeOK  BY DEF DrmIInv
  <1> QED  BY <1>1, DrmInvariance, PTL

\* A muted plane is always one that closeWindow will unmute.
THEOREM MuteIsTakenBack == Drm!Spec => []Drm!MuteEndsWithSession
  <1>1. DrmIInv => Drm!MuteEndsWithSession  BY DEF DrmIInv
  <1> QED  BY <1>1, DrmInvariance, PTL

\* Frames are posted with the rectangle set last.
THEOREM LastRectInEffect == Drm!Spec => []Drm!RectInEffect
  <1>1. DrmIInv => Drm!RectInEffect  BY DEF DrmIInv
  <1> QED  BY <1>1, DrmInvariance, PTL

\* The choice to keep the last frame is in effect, where the build supports it; and
\* making it without a window is the one call of these that ends the program there.
THEOREM KeepsLastFrame == Drm!Spec => []Drm!KeepInEffect
  <1>1. DrmIInv => Drm!KeepInEffect  BY DEF DrmIInv, DrmStoredInv, Drm!KeepInEffect
  <1> QED  BY <1>1, DrmInvariance, PTL

-----------------------------------------------------------------------------
(* The keys of the westeros plugin. *)

\* A rate the server was told, in a connection that is not yet a window either,
\* is the stored one; it was told nothing while there is no connection.
ServerInv ==
    /\ phase = "closed" => server = Forgotten
    /\ server.rate # Untold => server.rate = rate

\* What the player said is what is stored, but for an immediate output taken back.
SaidInv ==
    /\ said.hide = hide /\ said.keep = keep
    /\ said.immediate = TRUE /\ ~withdrawn => immediate

IInv == TypeOK /\ ServerUpToDate /\ CropNotHeldBack /\ ServerInv /\ SaidInv

ServerType == [pip : Setting, immediate : Setting, hide : Setting, keep : Setting,
               crop : Rects \cup {Untold}, rate : (Nat \X Nat) \cup {Untold}]

\* Whatever the server is told, it is told in its type.
LEMMA ToldType ==
  ASSUME server \in ServerType
  PROVE  /\ \A b \in Setting : Told("immediate", b) \in ServerType
         /\ \A q \in Nat \X Nat : Told("rate", q) \in ServerType
  BY DEF Told, ServerType

LEMMA OpeningType ==
  ASSUME TypeOK, server \in ServerType
  PROVE  Opening \in ServerType
  <1> DEFINE h == IF hide = Untold THEN server.hide ELSE hide
             k == IF keep = Untold THEN server.keep ELSE keep
  <1>1. h \in Setting /\ k \in Setting /\ immediate \in Setting
    BY DEF Setting, TypeOK, ServerType
  <1>2. Opening = [server EXCEPT !.immediate = immediate, !.hide = h, !.keep = k]
    BY Zenon DEF Opening
  <1> HIDE DEF h, k
  <1> QED  BY <1>1, <1>2 DEF ServerType

\* What is sent of a rectangle is a rectangle within the frame.
LEMMA CorrectedFits ==
  ASSUME NEW r \in Rects, NEW f \in [w : Nat, h : Nat], Usable(r, f)
  PROVE  /\ Corrected(r, f) \in Rects
         /\ Corrected(r, f).x + Corrected(r, f).w <= f.w
         /\ Corrected(r, f).y + Corrected(r, f).h <= f.h
  <1>1. Corrected(r, f) = [r EXCEPT !.w = Cut(r.x, r.w, f.w), !.h = Cut(r.y, r.h, f.h)]
    BY DEF Corrected
  <1>2. /\ Cut(r.x, r.w, f.w) \in Nat /\ r.x + Cut(r.x, r.w, f.w) <= f.w
        /\ Cut(r.y, r.h, f.h) \in Nat /\ r.y + Cut(r.y, r.h, f.h) <= f.h
    BY DEF Rects, Usable, Outside, Over, Cut
  <1> QED  BY <1>1, <1>2 DEF Rects

\* A rectangle that cannot be sent cannot be sent as corrected either.
LEMMA CorrectedWaits ==
  ASSUME NEW r \in Rects, NEW f \in [w : Nat, h : Nat], ~Usable(r, f)
  PROVE  Corrected(r, f) \in Rects /\ ~Usable(Corrected(r, f), f)
  <1> USE DEF Rects, Usable, Outside, Over, Cut
  <1>1. CASE f.w > 0 /\ f.h > 0 /\ ~Outside(r.x, r.w, f.w)
    <2>1. Corrected(r, f) = [r EXCEPT !.w = Cut(r.x, r.w, f.w)]
      BY <1>1 DEF Corrected
    <2> QED  BY <1>1, <2>1
  <1>2. CASE ~(f.w > 0 /\ f.h > 0 /\ ~Outside(r.x, r.w, f.w))
    <2>1. Corrected(r, f) = r
      BY <1>2 DEF Corrected
    <2> QED  BY <2>1
  <1> QED  BY <1>1, <1>2

LEMMA InitIInv == Init => IInv
  <1> SUFFICES ASSUME Init PROVE IInv
    OBVIOUS
  <1>1. TypeOK
    BY DEF Init, TypeOK, NoFrame, NoCrop, NoRate, Forgotten, Rects, Setting
  <1>2. ServerUpToDate /\ CropNotHeldBack /\ ServerInv /\ SaidInv
    BY UntoldAssumption DEF Init, ServerUpToDate, CropNotHeldBack, ServerInv, Forgotten, SaidInv
  <1> QED  BY <1>1, <1>2 DEF IInv

\* setCropFrameRect, from setValue or for the frame size.
LEMMA SendCropIInv ==
  ASSUME IInv, NEW r \in Rects, NEW f \in [w : Nat, h : Nat], frame' = f, SendCrop(r, f),
         UNCHANGED <<phase, flagVars, rateVars, saidVars>>
  PROVE  IInv'
  <1>1. Corrected(r, f) \in Rects /\ (~Usable(r, f) => ~Usable(Corrected(r, f), f))
    BY CorrectedFits, CorrectedWaits
  <1>2. TypeOK'
    BY <1>1 DEF IInv, TypeOK, SendCrop, sendCrop, Told, flagVars, rateVars, saidVars
  <1>3. CropNotHeldBack'
    BY <1>1 DEF CropNotHeldBack, SendCrop, Connected
  <1>4. ServerUpToDate' /\ ServerInv' /\ SaidInv'
    BY DEF IInv, TypeOK, ServerUpToDate, ServerInv, SaidInv, SendCrop, sendCrop, Told, Connected,
           flagVars, rateVars, saidVars
  <1> QED  BY <1>2, <1>3, <1>4 DEF IInv

LEMMA NextIInv == IInv /\ [Next]_vars => IInv'
  <1> SUFFICES ASSUME IInv, [Next]_vars PROVE IInv'
    OBVIOUS
  <1> USE DEF IInv, TypeOK, SaidInv, flagVars, rateVars, cropVars, saidVars
  <1>server. server \in ServerType
    BY DEF ServerType, Setting
  <1>0. UNCHANGED <<phase, cropSet, crop, frame>> => CropNotHeldBack'
    BY DEF CropNotHeldBack, Usable, Outside, Over
  <1>1. ASSUME NEW on \in BOOLEAN, SetPip(on) \/ SetImmediate(on)
        PROVE  IInv'
    <2>1. TypeOK'
      <3>1. TRUE \in Setting  BY DEF Setting
      <3>2. server' = server \/ server' = Told("immediate", TRUE)
        BY <1>1 DEF SetPip, SetImmediate, sendSession
      <3>3. Told("immediate", TRUE) \in ServerType
        BY <1>server, <3>1, ToldType
      <3>4. server' \in ServerType  BY <1>server, <3>2, <3>3
      <3>5. /\ UNCHANGED <<phase, hide, keep, frame, crop, cropSet, rate, rateChanged>>
            /\ pip' \in BOOLEAN /\ immediate' \in BOOLEAN /\ withdrawn' \in BOOLEAN
            /\ said' = said \/ said' = [said EXCEPT !.immediate = on]
        BY <1>1 DEF SetPip, SetImmediate
      <3>6. said' \in [hide : Setting, keep : Setting, immediate : Setting]
        BY <3>5 DEF Setting
      <3> QED  BY <3>4, <3>5, <3>6 DEF ServerType
    <2>2. CropNotHeldBack'
      BY <1>0, <1>1 DEF SetPip, SetImmediate
    <2>3. ServerUpToDate' /\ ServerInv' /\ SaidInv'
      BY <1>1 DEF SetPip, SetImmediate, sendSession, Told, Connected, ServerUpToDate, ServerInv
    <2> QED  BY <2>1, <2>2, <2>3
  <1>2. ASSUME NEW on \in BOOLEAN, SetHide(on) \/ SetKeep(on)
        PROVE  IInv'
    BY <1>2 DEF SetHide, SetKeep, sendHide, sendKeep, Told, Connected, ServerUpToDate,
                CropNotHeldBack, ServerInv, Setting
  <1>3. ASSUME NEW r \in Crops, SetCrop(r)
        PROVE  IInv'
    BY <1>3, SendCropIInv, CropsAssumption DEF SetCrop
  <1>4. ASSUME NEW f \in Frames, SetFrameSize(f)
        PROVE  IInv'
    <2>1. CASE cropSet
      BY <1>4, <2>1, SendCropIInv, FramesAssumption DEF SetFrameSize
    <2>2. CASE ~cropSet
      BY <1>4, <2>2, FramesAssumption DEF SetFrameSize, ServerUpToDate, CropNotHeldBack, ServerInv
    <2> QED  BY <2>1, <2>2
  <1>5. ASSUME NEW q \in Rates, SetRate(q)
        PROVE  IInv'
    <2>1. q \in Nat \X Nat /\ rate' \in Nat \X Nat
      BY <1>5, RatesAssumption DEF SetRate
    <2>2. TypeOK'
      <3>1. server' \in ServerType
        BY <1>5, <1>server, <2>1, ToldType DEF SetRate, sendRate
      <3> QED  BY <1>5, <2>1, <3>1 DEF SetRate, ServerType, Setting
    <2>3. CropNotHeldBack'
      BY <1>0, <1>5 DEF SetRate
    <2>4. ServerUpToDate' /\ ServerInv' /\ SaidInv'
      <3>1. \/ ~Connected /\ server' = server
            \/ Connected /\ server' = server /\ rate' = rate
            \/ Connected /\ server' = [server EXCEPT !.rate = rate']
        BY <1>5 DEF SetRate, sendRate, Told
      <3>2. UNCHANGED <<phase, immediate, hide, keep, saidVars>>  BY <1>5 DEF SetRate
      <3> QED  BY <3>1, <3>2 DEF Connected, Forgotten, ServerUpToDate, ServerInv
    <2> QED  BY <2>2, <2>3, <2>4
  <1>6. CASE OpenDisplay
    BY <1>6 DEF OpenDisplay, Forgotten, Setting, ServerUpToDate, CropNotHeldBack, ServerInv
  <1>7. CASE OpenWindow
    <2>1. cropSet => Corrected(crop, frame) \in Rects
      BY CorrectedFits, CorrectedWaits
    <2>2. cropSet /\ ~Usable(crop, frame) => ~Usable(Corrected(crop, frame), frame)
      BY CorrectedWaits
    <2>3. TypeOK'
      <3>1. Opening \in ServerType  BY <1>server, OpeningType
      <3>2. \/ server' = Opening
            \/ cropSet /\ server' = [Opening EXCEPT !.crop = Corrected(crop, frame)]
        BY <1>7 DEF OpenWindow
      <3>3. server' \in ServerType  BY <2>1, <3>1, <3>2 DEF ServerType
      <3> QED  BY <1>7, <2>1, <3>3 DEF OpenWindow, ServerType, Setting
    <2>4. CropNotHeldBack'
      BY <1>7, <2>2 DEF OpenWindow, CropNotHeldBack
    <2>5. ServerUpToDate' /\ ServerInv' /\ SaidInv'
      BY <1>7 DEF OpenWindow, Opening, ServerUpToDate, ServerInv
    <2> QED  BY <2>3, <2>4, <2>5
  <1>8. CASE DisplayFrame
    <2>1. TypeOK'
      <3>1. server' \in ServerType
        BY <1>8, <1>server, ToldType DEF DisplayFrame, sendRate
      <3> QED  BY <1>8, <3>1 DEF DisplayFrame, ServerType, Setting
    <2>2. CropNotHeldBack'
      BY <1>0, <1>8 DEF DisplayFrame
    <2>3. ServerUpToDate' /\ ServerInv' /\ SaidInv'
      BY <1>8 DEF DisplayFrame, sendRate, Told, Connected, ServerUpToDate, ServerInv
    <2> QED  BY <2>1, <2>2, <2>3
  <1>9. CASE CloseWindow
    <2>1. TypeOK'
      BY <1>9 DEF CloseWindow, Forgotten, Setting
    <2>2. ServerUpToDate' /\ CropNotHeldBack' /\ ServerInv'
      BY <1>9 DEF CloseWindow, Forgotten, ServerUpToDate, CropNotHeldBack, ServerInv
    <2>3. SaidInv'
      BY <1>9 DEF CloseWindow
    <2> QED  BY <2>1, <2>2, <2>3
  <1>10. CASE UNCHANGED vars
    BY <1>10 DEF vars, ServerUpToDate, CropNotHeldBack, ServerInv, Usable, Outside, Over
  <1> QED  BY <1>1, <1>2, <1>3, <1>4, <1>5, <1>6, <1>7, <1>8, <1>9, <1>10 DEF Next, SetValue

\* The invariant holds in every behaviour.
THEOREM Invariance == Spec => []IInv
  BY InitIInv, NextIInv, PTL DEF Spec

\* Every variable keeps its type: no rectangle is ever cut to a negative size.
THEOREM TypeCorrect == Spec => []TypeOK
  <1>1. IInv => TypeOK  BY DEF IInv
  <1> QED  BY <1>1, Invariance, PTL

\* The rectangle of one step is in the frame of that step.
LEMMA StepSendsFitting ==
  ASSUME IInv, [Next]_vars, server'.crop # server.crop, server'.crop # Untold
  PROVE  /\ server'.crop \in Rects
         /\ server'.crop.x + server'.crop.w <= frame'.w
         /\ server'.crop.y + server'.crop.h <= frame'.h
  <1> USE DEF IInv, TypeOK, flagVars, rateVars, cropVars
  <1>1. ASSUME NEW r \in Rects, NEW f \in [w : Nat, h : Nat], frame' = f, SendCrop(r, f)
        PROVE  Usable(r, f) /\ server'.crop = Corrected(r, f)
    BY <1>1 DEF SendCrop, sendCrop, Told
  <1>2. ASSUME NEW r \in Crops, SetCrop(r)
        PROVE  Usable(r, frame) /\ server'.crop = Corrected(r, frame) /\ frame' = frame
    BY <1>1, <1>2, CropsAssumption DEF SetCrop
  <1>3. ASSUME NEW f \in Frames, SetFrameSize(f)
        PROVE  Usable(crop, f) /\ server'.crop = Corrected(crop, f) /\ frame' = f
    BY <1>1, <1>3, FramesAssumption DEF SetFrameSize
  <1>4. CASE OpenWindow
    <2>1. Usable(crop, frame) /\ server'.crop = Corrected(crop, frame) /\ frame' = frame
      BY <1>4 DEF OpenWindow, Opening
    <2> QED  BY <2>1, CorrectedFits
  <1>5. ASSUME NEW on \in BOOLEAN, SetPip(on) \/ SetImmediate(on) \/ SetHide(on) \/ SetKeep(on)
        PROVE  FALSE
    BY <1>5 DEF SetPip, SetImmediate, SetHide, SetKeep, sendSession, sendHide, sendKeep, Told
  <1>6. ASSUME NEW q \in Rates, SetRate(q)
        PROVE  FALSE
    BY <1>6 DEF SetRate, sendRate, Told
  <1>7. ~(OpenDisplay \/ DisplayFrame \/ CloseWindow \/ UNCHANGED vars)
    BY DEF OpenDisplay, DisplayFrame, CloseWindow, vars, sendRate, Told, Forgotten
  <1> QED  BY <1>2, <1>3, <1>4, <1>5, <1>6, <1>7, CorrectedFits, CropsAssumption, FramesAssumption
           DEF Next, SetValue

-----------------------------------------------------------------------------
(* The behaviours of MCPluginKeys. *)

\* A behaviour of the composition is one of each plugin, one of them idle.
THEOREM KeysAreBehaviours == KeysSpec => Spec /\ Drm!Spec
  <1>1. KeysInit => Init /\ Drm!Init  BY DEF KeysInit
  <1>2. [KeysNext]_<<plugin, vars, drmVars>> => [Next]_vars /\ [Drm!Next]_Drm!vars
    BY DEF KeysNext, drmVars, Drm!vars, Drm!pluginVars, Drm!sessionVars
  <1> QED  BY <1>1, <1>2, PTL DEF KeysSpec, Spec, Drm!Spec

\* The mute of a session of the drm plugin never outlives it.
THEOREM MuteNeverOutlives == KeysSpec => []MuteEndsWithSession
  BY KeysAreBehaviours, MuteIsTakenBack, PTL DEF MuteEndsWithSession

\* Whatever was set in whatever session, the server of an open window was told,
\* but for the immediate output that a closeWindow has taken back.
THEOREM ServerIsUpToDate == Spec => []ServerUpToDate
  <1>1. IInv => ServerUpToDate  BY DEF IInv
  <1> QED  BY <1>1, Invariance, PTL

\* No crop waits in an open window that the server could be told.
THEOREM CropIsSent == Spec => []CropNotHeldBack
  <1>1. IInv => CropNotHeldBack  BY DEF IInv
  <1> QED  BY <1>1, Invariance, PTL

\* What the server is told to crop is a rectangle in the frame.
THEOREM CropFits == Spec => SentCropFits
  <1>1. IInv /\ [Next]_vars =>
          [server'.crop # server.crop /\ server'.crop # Untold =>
             /\ server'.crop.w >= 0 /\ server'.crop.h >= 0
             /\ server'.crop.x + server'.crop.w <= frame'.w
             /\ server'.crop.y + server'.crop.h <= frame'.h]_vars
    BY StepSendsFitting DEF Rects
  <1> QED  BY <1>1, Invariance, PTL DEF Spec, SentCropFits
=============================================================================
