------------------------------ MODULE WstKeys ------------------------------
(***************************************************************************)
(* The keys of the westeros plugin: what setValue stores, and what the     *)
(* video server is told of it.  The server forgets everything with the     *)
(* connection, which openDisplay makes and closeWindow ends, so what was   *)
(* set before must be told again.  The player makes one call at a time.    *)
(*                                                                         *)
(* A crop rectangle is a record of x, y, w, h; a frame size of w, h, zero  *)
(* until the player sets it.                                               *)
(***************************************************************************)
EXTENDS Integers

CONSTANTS
    Crops,      \* crop rectangles the player sets
    Frames,     \* frame sizes it sets
    Rates,      \* frame rates, as pairs of num and denom
    Untold      \* what a new connection has of a setting it was not told

Rects == [x : Nat, y : Nat, w : Nat, h : Nat]

ASSUME CropsAssumption  == Crops \subseteq Rects
ASSUME FramesAssumption == Frames \subseteq [w : Nat, h : Nat]
ASSUME RatesAssumption  == Rates \subseteq Nat \X Nat
ASSUME UntoldAssumption == Untold \notin BOOLEAN \cup Rects \cup (Nat \X Nat)

VARIABLES
    phase,      \* "closed", "display" (connected), "window"
    pip,        \* mIsVideoPip
    immediate,  \* mImmediatelyOutput
    hide,       \* mHideVideo.value, Untold while not isSet
    keep,       \* mKeepLastFrame.value, Untold while not isSet
    frame,      \* mFrameWidth and mFrameHeight of the wayland object
    crop,       \* mCropFrameRect
    cropSet,    \* mSetCropFrameRect: crop is still to be sent
    rate,       \* mFrameRateFractionNum and mFrameRateFractionDenom
    rateChanged,\* mFrameRateChanged
    server,     \* external: what the server was told on this connection
    said,       \* history: what the player last said of hide, keep and immediate
    withdrawn   \* history: closeWindow took the immediate output back that the player asked for

cropVars == <<frame, crop, cropSet>>
rateVars == <<rate, rateChanged>>
flagVars == <<pip, immediate, hide, keep>>
saidVars == <<said, withdrawn>>
vars == <<phase, flagVars, cropVars, rateVars, server, saidVars>>

Setting == BOOLEAN \cup {Untold}

NoFrame == [w |-> 0, h |-> 0]
NoCrop  == [x |-> 0, y |-> 0, w |-> 0, h |-> 0]
NoRate  == <<0, 0>>

Forgotten == [pip |-> Untold, immediate |-> Untold, hide |-> Untold, keep |-> Untold,
              crop |-> Untold, rate |-> Untold]

TypeOK ==
    /\ phase \in {"closed", "display", "window"}
    /\ pip \in BOOLEAN /\ immediate \in BOOLEAN
    /\ hide \in Setting /\ keep \in Setting
    /\ frame \in [w : Nat, h : Nat] /\ crop \in Rects /\ cropSet \in BOOLEAN
    /\ rate \in Nat \X Nat /\ rateChanged \in BOOLEAN
    /\ server \in [pip : Setting, immediate : Setting, hide : Setting, keep : Setting,
                   crop : Rects \cup {Untold}, rate : (Nat \X Nat) \cup {Untold}]
    /\ said \in [hide : Setting, keep : Setting, immediate : Setting] /\ withdrawn \in BOOLEAN

Init ==
    /\ phase = "closed"
    /\ pip = FALSE /\ immediate = FALSE /\ hide = Untold /\ keep = Untold
    /\ frame = NoFrame /\ crop = NoCrop /\ cropSet = FALSE
    /\ rate = NoRate /\ rateChanged = FALSE
    /\ server = Forgotten
    /\ said = [hide |-> Untold, keep |-> Untold, immediate |-> Untold] /\ withdrawn = FALSE

\* mWstClientSocket exists.
Connected == phase # "closed"

\* What the server was told after a message, if there is a socket to send it on.
Told(field, value) == IF Connected THEN [server EXCEPT ![field] = value] ELSE server

sendHide(on)      == Told("hide", on)
sendKeep(on)      == Told("keep", on)
sendSession(sync) == Told("immediate", sync)
sendRate(q)       == Told("rate", q)
sendCrop(r)       == Told("crop", r)

-----------------------------------------------------------------------------
(* The crop rectangle, setCropFrameRect. *)

Over(at, length, size)    == at + length > size
Outside(at, length, size) == Over(at, length, size) /\ at >= size
Cut(at, length, size)     == IF Over(at, length, size) THEN size - at ELSE length

\* Mutant: only the x side is checked.
Usable_WidthOnly(r, f) == f.w > 0 /\ f.h > 0 /\ ~Outside(r.x, r.w, f.w)

\* There is a frame size and the rectangle begins in the frame.
Usable(r, f) ==
    /\ f.w > 0 /\ f.h > 0
    /\ ~Outside(r.x, r.w, f.w) /\ ~Outside(r.y, r.h, f.h)

\* mCropFrameRect after a call: the width is cut before the height is looked at.
Corrected(r, f) ==
    CASE Usable(r, f) -> [r EXCEPT !.w = Cut(r.x, r.w, f.w), !.h = Cut(r.y, r.h, f.h)]
      [] ~Usable(r, f) /\ f.w > 0 /\ f.h > 0 /\ ~Outside(r.x, r.w, f.w)
                   -> [r EXCEPT !.w = Cut(r.x, r.w, f.w)]
      [] OTHER     -> r

\* setCropFrameRect, called with mCropFrameRect = r, mSetCropFrameRect and the
\* frame size f: the rectangle is sent, or waits for a frame size or a connection.
SendCrop(r, f) ==
    /\ crop' = Corrected(r, f)
    /\ cropSet' = ~(Usable(r, f) /\ Connected)
    /\ server' = IF Usable(r, f) THEN sendCrop(Corrected(r, f)) ELSE server

-----------------------------------------------------------------------------
(* setValue, one action per key. *)

SetPip(on) ==
    /\ pip' = on
    /\ UNCHANGED <<phase, immediate, hide, keep, cropVars, rateVars, server, saidVars>>

\* The server is not told when it is taken back.
SetImmediate(on) ==
    /\ immediate' = on
    /\ server' = IF on THEN sendSession(TRUE) ELSE server
    /\ said' = [said EXCEPT !.immediate = on] /\ withdrawn' = FALSE
    /\ UNCHANGED <<phase, pip, hide, keep, cropVars, rateVars>>

SetHide(on) ==
    /\ hide' = on
    /\ server' = sendHide(on)
    /\ said' = [said EXCEPT !.hide = on]
    /\ UNCHANGED <<phase, pip, immediate, keep, cropVars, rateVars, withdrawn>>

SetKeep(on) ==
    /\ keep' = on
    /\ server' = sendKeep(on)
    /\ said' = [said EXCEPT !.keep = on]
    /\ UNCHANGED <<phase, pip, immediate, hide, cropVars, rateVars, withdrawn>>

SetCrop(r) ==
    /\ SendCrop(r, frame)
    /\ UNCHANGED <<phase, flagVars, frame, rateVars, saidVars>>

\* Mutant: the frame size does not look for a crop that waits for it.
SetFrameSize_CropWaits(f) ==
    /\ frame' = f
    /\ UNCHANGED <<phase, flagVars, crop, cropSet, rateVars, server, saidVars>>

\* A crop set before the frame size is sent now.
SetFrameSize(f) ==
    /\ frame' = f
    /\ IF cropSet THEN SendCrop(crop, f) ELSE UNCHANGED <<crop, cropSet, server>>
    /\ UNCHANGED <<phase, flagVars, rateVars, saidVars>>

\* A denominator of zero is stored as one, and so never equal to what comes next.
SetRate(q) ==
    /\ rate' = IF q # rate THEN <<q[1], IF q[2] = 0 THEN 1 ELSE q[2]>> ELSE rate
    /\ rateChanged' = ((rateChanged \/ q # rate) /\ ~Connected)
    /\ server' = IF rateChanged \/ q # rate THEN sendRate(rate') ELSE server
    /\ UNCHANGED <<phase, flagVars, cropVars, saidVars>>

-----------------------------------------------------------------------------
(* Sessions. *)

\* openDisplay.  If there is no server it fails and nothing changes.
OpenDisplay ==
    /\ phase = "closed"
    /\ phase' = "display"
    /\ server' = [Forgotten EXCEPT !.pip = pip]
    /\ UNCHANGED <<flagVars, cropVars, rateVars, saidVars>>

\* Mutant: what was set in the session before is taken for known.
OpenWindow_NotAgain ==
    /\ phase = "display"
    /\ phase' = "window"
    /\ IF cropSet /\ Usable(crop, frame)
       THEN /\ crop' = Corrected(crop, frame) /\ cropSet' = FALSE
            /\ server' = [server EXCEPT !.immediate = immediate,
                                        !.crop = Corrected(crop, frame)]
       ELSE /\ server' = [server EXCEPT !.immediate = immediate]
            /\ UNCHANGED <<crop, cropSet>>
    /\ UNCHANGED <<flagVars, frame, rateVars, saidVars>>

\* What openWindow tells the server: the session, and what was ever set.
Opening == [server EXCEPT !.immediate = immediate,
                          !.hide = IF hide = Untold THEN @ ELSE hide,
                          !.keep = IF keep = Untold THEN @ ELSE keep]

\* A crop is sent only if it has not been sent, on whatever connection.
OpenWindow ==
    /\ phase = "display"
    /\ phase' = "window"
    /\ crop' = IF cropSet THEN Corrected(crop, frame) ELSE crop
    /\ cropSet' = (cropSet /\ ~Usable(crop, frame))
    /\ server' = IF cropSet /\ Usable(crop, frame)
                 THEN [Opening EXCEPT !.crop = Corrected(crop, frame)]
                 ELSE Opening
    /\ UNCHANGED <<flagVars, frame, rateVars, saidVars>>

\* displayFrame tells of a rate set while there was no connection.
DisplayFrame ==
    /\ phase = "window"
    /\ rateChanged' = FALSE
    /\ server' = IF rateChanged THEN sendRate(rate) ELSE server
    /\ UNCHANGED <<phase, flagVars, cropVars, rate, saidVars>>

\* closeWindow deletes the socket, and takes immediate output back.
CloseWindow ==
    /\ phase = "window"
    /\ phase' = "closed"
    /\ server' = Forgotten
    /\ immediate' = FALSE
    /\ withdrawn' = (withdrawn \/ immediate)
    /\ UNCHANGED <<pip, hide, keep, cropVars, rateVars, said>>

SetValue ==
    \/ \E on \in BOOLEAN : SetPip(on) \/ SetImmediate(on) \/ SetHide(on) \/ SetKeep(on)
    \/ \E r \in Crops : SetCrop(r)
    \/ \E f \in Frames : SetFrameSize(f)
    \/ \E q \in Rates : SetRate(q)

Next == SetValue \/ OpenDisplay \/ OpenWindow \/ DisplayFrame \/ CloseWindow

Spec == Init /\ [][Next]_vars

-----------------------------------------------------------------------------
(* Properties. *)

\* In an open window the server hides the video and keeps the last frame as the
\* player last said, in this session or before; it outputs immediately if the
\* player last asked for that, unless a closeWindow has taken it back since; and a
\* rate it was told is the one in force.
ServerUpToDate ==
    phase = "window" =>
        /\ said.hide # Untold => server.hide = said.hide
        /\ said.keep # Untold => server.keep = said.keep
        /\ said.immediate = TRUE /\ ~withdrawn => server.immediate = TRUE
        /\ server.rate # Untold => server.rate = rate

\* "if set crop property before set frame size,we set crop params now": in an open
\* window no crop waits that could be sent.
CropNotHeldBack == phase = "window" /\ cropSet => ~Usable(crop, frame)

\* "correct crop rect if needed": what the server is told to crop is a rectangle in
\* the frame it is told for.
SentCropFits ==
    [][server'.crop # server.crop /\ server'.crop # Untold =>
          /\ server'.crop.w >= 0 /\ server'.crop.h >= 0
          /\ server'.crop.x + server'.crop.w <= frame'.w
          /\ server'.crop.y + server'.crop.h <= frame'.h]_vars
=============================================================================
