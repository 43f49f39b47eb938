---------------------------- MODULE MCPluginKeys ----------------------------
(***************************************************************************)
(* DrmKeys and WstKeys for TLC.  A player loads one plugin, so a behaviour *)
(* is one of either module, the other's variables staying as they are.     *)
(***************************************************************************)
EXTENDS WstKeys

CONSTANTS DrmRects, NoRect, Freezen

VARIABLES
    plugin,     \* the plugin loaded: "drm" or "westeros"
    open, isPip, plane, drmHide, drmKeep, winRect, drmImmediate, postRect, freeze,
    muted, asked, crashed

drmVars == <<open, isPip, plane, drmHide, drmKeep, winRect, drmImmediate, postRect,
             freeze, muted, asked, crashed>>

Drm == INSTANCE DrmKeys WITH
           Rects <- DrmRects,
           hide <- drmHide, keep <- drmKeep, immediate <- drmImmediate

\* One rectangle overlaps a small frame on the right, one begins below it.
TwoCrops  == {[x |-> 1, y |-> 0, w |-> 2, h |-> 2], [x |-> 1, y |-> 3, w |-> 2, h |-> 1]}
TwoFrames == {[w |-> 2, h |-> 2], [w |-> 2, h |-> 4]}
TwoRates  == {<<1, 1>>, <<2, 0>>}

KeysInit == plugin \in {"drm", "westeros"} /\ Init /\ Drm!Init

KeysNext ==
    /\ UNCHANGED plugin
    /\ \/ plugin = "drm" /\ Drm!Next /\ UNCHANGED vars
       \/ plugin = "westeros" /\ Next /\ UNCHANGED drmVars

KeysSpec == KeysInit /\ [][KeysNext]_<<plugin, vars, drmVars>>

\* Of DrmKeys: the mute of a session never outlives it.
MuteEndsWithSession == Drm!MuteEndsWithSession
=============================================================================
