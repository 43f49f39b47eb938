------------------------------ MODULE WstStream ------------------------------
(***************************************************************************)
(* How the messages of the video server reach the westeros plugin:         *)
(* processMessagesVideoClientConnection reads at most sizeof(mbody) bytes  *)
(* of a stream and handles the messages it finds in them.                  *)
(*                                                                         *)
(* Bytes are counted by four, which every message is a multiple of: the    *)
(* unit that begins with "VS", the length and the id, and units of data,   *)
(* taken never to begin with "VS".                                         *)
(***************************************************************************)
EXTENDS Naturals, Sequences

CONSTANTS
    ReadSize,   \* sizeof(mbody), 64 units
    MaxStream   \* bound on the units that wait in the socket

VARIABLES
    thread,     \* the socket thread: "none", in poll ("wait"), after recvmsg ("read")
    stream,     \* the units sent and not read yet
    buffer,     \* the units from m on, len of them
    got         \* the units of the last message handled

vars == <<thread, stream, buffer, got>>

\* The units of a message, by id.
Size == [B |-> 2, R |-> 2, D |-> 2, U |-> 3, S |-> 4, Z |-> 4]

Message(k) == [i \in 1..Size[k] |-> [kind |-> k, part |-> i]]
Begins(s)  == s # <<>> /\ Head(s).part = 1

TypeOK ==
    /\ thread \in {"none", "wait", "read"}
    /\ \A s \in {stream, buffer, got} : \A i \in DOMAIN s : s[i].part \in 1..Size[s[i].kind]
    /\ Len(stream) <= MaxStream /\ Len(buffer) <= ReadSize
    /\ buffer # <<>> => thread = "read"

Init == thread = "none" /\ stream = <<>> /\ buffer = <<>> /\ got = <<>>

-----------------------------------------------------------------------------
\* connectToSocket: another socket, and the thread.
Connect ==
    /\ thread = "none"
    /\ thread' = "wait"
    /\ stream' = <<>> /\ got' = <<>>
    /\ UNCHANGED buffer

\* disconnectFromSocket: the flushed poll ends the thread at its next wait.
Disconnect ==
    /\ thread = "wait"
    /\ thread' = "none"
    /\ stream' = <<>> /\ got' = <<>>
    /\ UNCHANGED buffer

\* External: the server sends a message.
ServerSends(k) ==
    /\ thread # "none"
    /\ Len(stream) + Size[k] <= MaxStream
    /\ stream' = stream \o Message(k)
    /\ UNCHANGED <<thread, buffer, got>>

\* Poll::wait and recvmsg.
Read ==
    /\ thread = "wait" /\ stream # <<>>
    /\ LET n == IF Len(stream) < ReadSize THEN Len(stream) ELSE ReadSize
       IN  /\ buffer' = SubSeq(stream, 1, n)
           /\ stream' = SubSeq(stream, n + 1, Len(stream))
    /\ thread' = "read"
    /\ UNCHANGED got

\* Mutant: a message is handled however much of it was read.
Complete_Any == Begins(buffer)

\* len >= mlen + 3, at a message's beginning.
Complete == Begins(buffer) /\ Size[Head(buffer).kind] <= Len(buffer)

Shorter(n, s) == IF n < Len(s) THEN n ELSE Len(s)

\* One case of the switch: the plugin is told of the message.
HandleMessage ==
    /\ thread = "read" /\ Complete
    /\ LET n == Shorter(Size[Head(buffer).kind], buffer)
       IN  got' = SubSeq(buffer, 1, n) /\ buffer' = SubSeq(buffer, n + 1, Len(buffer))
    /\ UNCHANGED <<thread, stream>>

\* len = 0: what is left of this read is not looked at, and threadLoop returns.
EndRead ==
    /\ thread = "read" /\ ~Complete
    /\ buffer' = <<>>
    /\ thread' = "wait"
    /\ UNCHANGED <<stream, got>>

-----------------------------------------------------------------------------
ThreadStep == Read \/ HandleMessage \/ EndRead

Next == Connect \/ Disconnect \/ ThreadStep \/ \E k \in DOMAIN Size : ServerSends(k)

Spec == Init /\ [][Next]_vars

\* The socket thread runs.
FairSpec == Spec /\ WF_vars(ThreadStep)

-----------------------------------------------------------------------------
(* Properties. *)

Kinds(s) == LET heads == SelectSeq(s, LAMBDA u : u.part = 1)
            IN  [i \in DOMAIN heads |-> heads[i].kind]

Whole(s) == IF s = <<>> THEN "nothing"
            ELSE IF s = Message(Head(s).kind) THEN Head(s).kind ELSE "a torn one"

Torn(s) == s # <<>> /\ ~Begins(s)

Channel == INSTANCE LossyChannel WITH
               Capacity <- ReadSize,
               pending  <- Kinds(buffer \o stream),
               got      <- Whole(got),
               overrun  <- Torn(buffer) \/ Torn(stream)

\* Messages are handled whole and in order.  One is lost only after more than
\* a read takes have waited together, and until a read has ended with a message:
\* the rest of the one that was cut makes the next read be thrown away.
ReadsMessages == Channel!ChannelSpec
=============================================================================
