----------------------------- MODULE WestonDma -----------------------------
(***************************************************************************)
(* The making of a wl_buffer (WaylandDmaBuffer::constructWlBuffer): the    *)
(* player asks the compositor and waits on a condition for the answer,     *)
(* which the dispatch thread brings.  A critical section of mMutex is one  *)
(* step; a callback that has begun but not yet locked is a state.          *)
(***************************************************************************)
EXTENDS Integers

CONSTANT Tries      \* bound on the WaylandDmaBuffers made, which are 1, 2, ...

VARIABLES
    player,     \* "rest", "sent", "waiting", "woken", or "failing" before the delete
    result,     \* what waitRelative returned
    made,       \* the number of the last WaylandDmaBuffer
    live,       \* those not deleted
    wlBuffer,   \* mWlBuffer of each: "NULL", "asking" (0xffffffff) or "created"
    params,     \* those whose zwp_linux_buffer_params there are
    callback,   \* the one whose callback the dispatch thread is in, 0 if none
    answer,     \* external: what the compositor answers: "none", "asked", "created", "failed"
    told,       \* external: those whose answer was dispatched
    destroyed   \* history: those whose wl_buffer was destroyed

vars == <<player, result, made, live, wlBuffer, params, callback, answer, told, destroyed>>

Objects == 1..Tries

\* ErrorCode.h.
NO_ERROR      == 0
ERROR_UNKNOWN == -2147483647 - 1

\* What pthread_cond_timedwait gives on Linux; waitRelative negates it.
ETIMEDOUT == 110

\* Mutant: a time-out is what waitRelative returns for one.
ERROR_TIMED_OUT_Errno == -ETIMEDOUT

ERROR_TIMED_OUT == ERROR_UNKNOWN + 5

Init ==
    /\ player = "rest" /\ result = NO_ERROR
    /\ made = 0 /\ live = {} /\ params = {}
    /\ wlBuffer = [d \in Objects |-> "NULL"]
    /\ callback = 0
    /\ answer = [d \in Objects |-> "none"] /\ told = {} /\ destroyed = {}

-----------------------------------------------------------------------------
\* constructWlBuffer up to its lock.  A format that is not known or a plane without
\* a descriptor is refused, and the object deleted.
Construct ==
    /\ player = "rest" /\ made < Tries
    /\ made' = made + 1
    /\ \/ /\ player' = "sent"
          /\ live' = live \cup {made'} /\ params' = params \cup {made'}
          /\ answer' = [answer EXCEPT ![made'] = "asked"]
       \/ UNCHANGED <<player, live, params, answer>>
    /\ UNCHANGED <<result, wlBuffer, callback, told, destroyed>>

\* The end of constructWlBuffer, with the wl_buffer w.
Returns(w) ==
    /\ wlBuffer' = [wlBuffer EXCEPT ![made] = w]
    /\ params' = params \ {made}
    /\ player' = IF w = "created" THEN "rest" ELSE "failing"

\* The lock: an answer that is there already is not waited for.
Lock ==
    /\ player = "sent"
    /\ IF wlBuffer[made] # "NULL" THEN Returns(wlBuffer[made])
       ELSE /\ wlBuffer' = [wlBuffer EXCEPT ![made] = "asking"]
            /\ player' = "waiting"
            /\ UNCHANGED params
    /\ UNCHANGED <<result, made, live, callback, answer, told, destroyed>>

\* waitRelative returns without a signal: after a second, or for no reason.
WaitEnds ==
    /\ player = "waiting"
    /\ player' = "woken"
    /\ result' \in {-ETIMEDOUT, NO_ERROR}
    /\ UNCHANGED <<made, live, wlBuffer, params, callback, answer, told, destroyed>>

\* The loop around the wait, with the mutex taken again.
Woken ==
    /\ player = "woken"
    /\ LET w == IF result = ERROR_TIMED_OUT THEN "NULL" ELSE wlBuffer[made]
       IN  IF w = "asking" THEN player' = "waiting" /\ UNCHANGED <<wlBuffer, params>>
           ELSE Returns(w)
    /\ UNCHANGED <<result, made, live, callback, answer, told, destroyed>>

\* WaylandBuffer::constructWlBuffer deletes what has no wl_buffer.
Delete ==
    /\ player = "failing"
    /\ live' = live \ {made}
    /\ player' = "rest"
    /\ UNCHANGED <<result, made, wlBuffer, params, callback, answer, told, destroyed>>

\* ~WaylandDmaBuffer, with its WaylandBuffer.
Destroy(d) ==
    /\ player = "rest" /\ d \in live
    /\ live' = live \ {d}
    /\ wlBuffer' = [wlBuffer EXCEPT ![d] = "NULL"]
    /\ destroyed' = IF wlBuffer[d] = "created" THEN destroyed \cup {d} ELSE destroyed
    /\ UNCHANGED <<player, result, made, params, callback, answer, told>>

-----------------------------------------------------------------------------
\* The compositor answers each request once.
Answer(d) ==
    /\ answer[d] = "asked"
    /\ \E a \in {"created", "failed"} : answer' = [answer EXCEPT ![d] = a]
    /\ UNCHANGED <<player, result, made, live, wlBuffer, params, callback, told, destroyed>>

\* The dispatch thread takes the event.  libwayland drops that of destroyed params.
Dispatch(d) ==
    /\ callback = 0
    /\ answer[d] \in {"created", "failed"} /\ d \in params \ told
    /\ callback' = d
    /\ told' = told \cup {d}
    /\ UNCHANGED <<player, result, made, live, wlBuffer, params, answer, destroyed>>

\* dmabufCreateSuccess and dmabufCreateFail, from their lock on.
Store ==
    /\ callback # 0
    /\ callback' = 0
    /\ wlBuffer' = [wlBuffer EXCEPT ![callback] = IF answer[callback] = "created" THEN "created" ELSE "NULL"]
    /\ IF player = "waiting" THEN player' = "woken" /\ result' = NO_ERROR
       ELSE UNCHANGED <<player, result>>
    /\ UNCHANGED <<made, live, params, answer, told, destroyed>>

-----------------------------------------------------------------------------
Player == Construct \/ Lock \/ WaitEnds \/ Woken \/ Delete \/ \E d \in Objects : Destroy(d)
Events == Store \/ \E d \in Objects : Dispatch(d)

Next == Player \/ Events \/ \E d \in Objects : Answer(d)

Spec == Init /\ [][Next]_vars

\* Assumed: both threads go on, a wait ends in a second, and the compositor answers.
FairSpec ==
    /\ Spec
    /\ WF_vars(Lock \/ WaitEnds \/ Woken \/ Delete)
    /\ WF_vars(Events)
    /\ WF_vars(\E d \in Objects : Answer(d))

-----------------------------------------------------------------------------
(* Properties. *)

\* No answer comes to a deleted object, and the wl_buffer of none is lost: once
\* the player goes on it is kept, or was destroyed.
AnswersLand ==
    /\ callback # 0 => callback \in live
    /\ player = "rest" =>
          \A d \in told : answer[d] = "created" /\ d # callback =>
              d \in destroyed \/ (d \in live /\ wlBuffer[d] = "created")

\* "try wait for 1000 ms": the player does not wait for ever, whatever the answer is.
WaitIsBounded == player # "rest" ~> player = "rest"
=============================================================================
