---------------------------- MODULE MCWstClient ----------------------------
(***************************************************************************)
(* WstClient and WstStream for TLC.  The first has the server's messages   *)
(* one by one, the second is how they are read from the socket: a          *)
(* behaviour is one of either, the other's variables staying as they are.  *)
(***************************************************************************)
EXTENDS WstClient, TLC

CONSTANTS
    b1, b2, b3,
    ReadSize, MaxStream     \* of WstStream

\* The buffer of a read has a size.
ASSUME ReadAssumption == ReadSize \in Nat

VARIABLES
    part,       \* what a behaviour is about: "frames" or "stream"
    reader, stream, buffer, got

streamVars == <<reader, stream, buffer, got>>
allVars == <<part, vars, streamVars>>

Stream == INSTANCE WstStream WITH thread <- reader

Two   == {b1, b2}
Three == {b1, b2, b3}

\* Every frame has its own display time.
OwnTimes == b1 :> 1 @@ b2 :> 2 @@ b3 :> 3
TwoTimes == b1 :> 1 @@ b2 :> 2

PartsInit == part \in {"frames", "stream"} /\ Init /\ Stream!Init

PartsNext ==
    /\ UNCHANGED part
    /\ \/ part = "frames" /\ Next /\ UNCHANGED streamVars
       \/ part = "stream" /\ Stream!Next /\ UNCHANGED vars

Frames(A)  == part = "frames" /\ A /\ UNCHANGED <<part, streamVars>>
Reading(A) == part = "stream" /\ A /\ UNCHANGED <<part, vars>>

\* With the fairness of WstClient and of WstStream.
PartsFairness ==
    /\ WF_allVars(Frames(ThreadStep)) /\ WF_allVars(Reading(Stream!ThreadStep))
    /\ WF_allVars(Frames(RecordFrame)) /\ WF_allVars(Frames(PauseSends))
    /\ WF_allVars(Frames(Disconnect))
    /\ WF_allVars(Frames(~paused /\ (ServerShows \/ ServerDrops)))

PartsSpec == PartsInit /\ [][PartsNext]_allVars /\ PartsFairness

-----------------------------------------------------------------------------
\* Of WstStream: the messages are handled whole and in order, and none is lost
\* unless more than one read takes have waited together.
ReadsMessages == Stream!ReadsMessages
=============================================================================
