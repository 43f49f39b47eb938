---------------------------- MODULE LossyChannel ----------------------------
(***************************************************************************)
(* What the client may count on of the messages the video server sends to  *)
(* it: they come whole and in the order they were sent, and none is lost   *)
(* as long as no more than Capacity of them, by size, wait together.  From *)
(* such a time until the reader has caught up, the oldest may be lost.     *)
(***************************************************************************)
EXTENDS Naturals, Sequences, SequencesExt

CONSTANTS
    Size,       \* Size[k]: of a message of kind k
    Capacity

VARIABLES
    pending,    \* the messages sent and neither handled nor lost
    got,        \* the last one handled, or "nothing"
    overrun     \* messages are being lost

vars == <<pending, got, overrun>>

Waiting == FoldLeft(LAMBDA n, k : n + Size[k], 0, pending)

Init == pending = <<>> /\ got = "nothing" /\ overrun = FALSE

Send(k) == pending' = Append(pending, k) /\ UNCHANGED <<got, overrun>>

Deliver ==
    /\ pending # <<>>
    /\ got' = Head(pending) /\ pending' = Tail(pending)
    /\ UNCHANGED overrun

Overrun == Waiting > Capacity /\ overrun' = TRUE /\ UNCHANGED <<pending, got>>

Lose ==
    /\ overrun
    /\ IsSuffix(pending', pending)
    /\ overrun' \in BOOLEAN
    /\ UNCHANGED got

\* The connection ends, or another begins.
Reset == pending' = <<>> /\ got' = "nothing" /\ overrun' = FALSE

Next == (\E k \in DOMAIN Size : Send(k)) \/ Deliver \/ Overrun \/ Lose \/ Reset

\* What waits does not wait for ever.
Moves == []<>(pending = <<>>) \/ []<><<Deliver \/ Lose>>_vars

ChannelSpec == Init /\ [][Next]_vars /\ Moves
=============================================================================
