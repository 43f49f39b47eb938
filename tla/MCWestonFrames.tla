--------------------------- MODULE MCWestonFrames ---------------------------
(***************************************************************************)
(* WestonFrames and WestonDma for TLC.  The first has the making of a      *)
(* wl_buffer as one step, the second is that step: a behaviour is one of   *)
(* either, the other's variables staying as they are.                      *)
(***************************************************************************)
EXTENDS WestonFrames, Integers, TLC

CONSTANTS
    b1, b2,
    Tries       \* of WestonDma

ASSUME TriesAssumption == Tries \in Nat

VARIABLES
    part,       \* what a behaviour is about: "frames" or "making"
    dmaPlayer, result, objects, live, wlBuffer, params, callback, answer, told, destroyed

dmaVars == <<dmaPlayer, result, objects, live, wlBuffer, params, callback, answer, told, destroyed>>
allVars == <<part, vars, dmaVars>>

Dma == INSTANCE WestonDma WITH player <- dmaPlayer, made <- objects

OwnPts == (b1 :> 1) @@ (b2 :> 2)

PartsInit == part \in {"frames", "making"} /\ Init /\ Dma!Init

PartsNext ==
    /\ UNCHANGED part
    /\ \/ part = "frames" /\ Next /\ UNCHANGED dmaVars
       \/ part = "making" /\ Dma!Next /\ UNCHANGED vars
       \* All the wl_buffers there may be were made.
       \/ part = "making" /\ objects = Tries /\ dmaPlayer = "rest" /\ UNCHANGED <<vars, dmaVars>>

Step(A) == part = "frames" /\ A /\ UNCHANGED <<part, dmaVars>>

\* The fairness of WestonFrames.
PartsFairness ==
    /\ WF_allVars(Step(Poster)) /\ SF_allVars(Step(PostPeek))
    /\ WF_allVars(Step(Handler))
    /\ WF_allVars(Step(Closing)) /\ SF_allVars(Step(DispatchStops))
    /\ \A b \in Buffers : SF_allVars(Step(FrameDisplayed(b)))

PartsSpec == PartsInit /\ [][PartsNext]_allVars /\ PartsFairness

-----------------------------------------------------------------------------
\* Of WestonDma: no answer of the compositor comes to a deleted object, and no
\* wl_buffer it created is lost.
AnswersLand == Dma!AnswersLand
=============================================================================
