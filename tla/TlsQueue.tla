------------------------------ MODULE TlsQueue ------------------------------
(***************************************************************************)
(* Tls::Queue: a list under mMutex with a capacity, a switch for new data, *)
(* an optional order, and callers that wait on mCondGet or mCondPut.       *)
(* A step is a section under mMutex; a waiting caller is "get" or "put",   *)
(* and signalled from the signal that reaches it until it has the mutex.   *)
(***************************************************************************)
EXTENDS Integers, Sequences, FiniteSets

CONSTANTS
    Threads,    \* the callers
    Values,     \* the elements, by their key
    Capacity,   \* mCapability
    Sorted      \* mSort, in ascending order

VARIABLES
    list,       \* from mUsedFirstElement to mUsedLastElement
    allowed,    \* mAllowedNewData
    pc,         \* pc[t]: the wait t is in, or "notify" before setAllowedNewData's broadcasts
    item,       \* item[t]: what t waits to push
    signalled   \* the waiting callers a signal has reached

vars == <<list, allowed, pc, item, signalled>>

Waiting(wait) == {t \in Threads : pc[t] = wait}
Blocked(wait) == Waiting(wait) \ signalled
Coming(wait)  == Waiting(wait) \cap signalled

TypeOK ==
    /\ list \in Seq(Values)
    /\ Len(list) <= Capacity
    /\ allowed \in BOOLEAN
    /\ pc \in [Threads -> {"idle", "get", "put", "notify"}]
    /\ item \in [Threads -> Values]
    /\ signalled \in SUBSET (Waiting("get") \cup Waiting("put"))

Init ==
    /\ list = <<>> /\ allowed = TRUE
    /\ pc = [t \in Threads |-> "idle"]
    /\ item = [t \in Threads |-> CHOOSE v \in Values : TRUE]
    /\ signalled = {}

-----------------------------------------------------------------------------
Insert(s, n, v) == SubSeq(s, 1, n) \o <<v>> \o SubSeq(s, n + 1, Len(s))

\* Mutant: the search stops at the first smaller element.
Position_FirstSmaller(v) ==
    IF ~Sorted THEN Len(list)
    ELSE IF list = <<>> \/ list[1] >= v THEN 0
    ELSE 1

\* How many elements stay before v: none if the first is not smaller, else as
\* many as it takes to find v between two neighbours.
Position(v) ==
    IF ~Sorted THEN Len(list)
    ELSE IF list = <<>> \/ list[1] >= v THEN 0
    ELSE CHOOSE n \in 1..Len(list) :
            /\ n = Len(list) \/ (list[n] <= v /\ v <= list[n + 1])
            /\ \A m \in 1..(n - 1) : ~(list[m] <= v /\ v <= list[m + 1])

\* pthread_cond_signal: one blocked caller, if there is any, leaves the wait.
Signal(wait, others) ==
    \/ Blocked(wait) = {} /\ signalled' = others
    \/ \E t \in Blocked(wait) : signalled' = others \cup {t}

Add(v)    == list' = Insert(list, Position(v), v)
TakeHead  == list' = Tail(list)
Full      == Len(list) = Capacity
Goto(t, next) == pc' = [pc EXCEPT ![t] = next]

-----------------------------------------------------------------------------
\* Mutant: only the push into an empty list signals.
Push_SignalFirst(t, v) ==
    /\ pc[t] = "idle"
    /\ allowed /\ ~Full
    /\ Add(v)
    /\ \/ list = <<>> /\ Signal("get", signalled)
       \/ list # <<>> /\ UNCHANGED signalled
    /\ UNCHANGED <<allowed, pc, item>>

\* push and pushAndWait while there is room.
Push(t, v) ==
    /\ pc[t] = "idle"
    /\ allowed /\ ~Full
    /\ Add(v)
    /\ Signal("get", signalled)
    /\ UNCHANGED <<allowed, pc, item>>

\* pushAndWait on a full queue.
PushWait(t, v) ==
    /\ pc[t] = "idle"
    /\ allowed /\ Full
    /\ Goto(t, "put")
    /\ item' = [item EXCEPT ![t] = v]
    /\ UNCHANGED <<list, allowed, signalled>>

PushResume(t) ==
    /\ t \in Coming("put")
    /\ \/ /\ Full /\ allowed
          /\ signalled' = signalled \ {t}
          /\ UNCHANGED <<list, pc>>
       \/ /\ ~allowed
          /\ Goto(t, "idle")
          /\ signalled' = signalled \ {t}
          /\ UNCHANGED list
       \/ /\ ~Full /\ allowed
          /\ Goto(t, "idle")
          /\ Add(item[t])
          /\ Signal("get", signalled \ {t})
    /\ UNCHANGED <<allowed, item>>

\* pop and popAndWait while there is an element.
Pop(t) ==
    /\ pc[t] = "idle"
    /\ list # <<>>
    /\ TakeHead
    /\ Signal("put", signalled)
    /\ UNCHANGED <<allowed, pc, item>>

\* popAndWait on an empty queue.
PopWait(t) ==
    /\ pc[t] = "idle"
    /\ list = <<>> /\ allowed
    /\ Goto(t, "get")
    /\ UNCHANGED <<list, allowed, item, signalled>>

PopResume(t) ==
    /\ t \in Coming("get")
    /\ \/ /\ list = <<>> /\ allowed
          /\ signalled' = signalled \ {t}
          /\ UNCHANGED <<list, pc>>
       \/ /\ list = <<>> /\ ~allowed
          /\ Goto(t, "idle")
          /\ signalled' = signalled \ {t}
          /\ UNCHANGED list
       \/ /\ list # <<>>
          /\ Goto(t, "idle")
          /\ TakeHead
          /\ Signal("put", signalled \ {t})
    /\ UNCHANGED <<allowed, item>>

\* flush and flushAndCallback: no condition is signalled.
Flush(t) ==
    /\ pc[t] = "idle"
    /\ list # <<>>
    /\ list' = <<>>
    /\ UNCHANGED <<allowed, pc, item, signalled>>

\* setAllowedNewData: mMutex is released before the flag is read again.
SetAllowed(t, on) ==
    /\ pc[t] = "idle"
    /\ allowed' = on
    /\ Goto(t, "notify")
    /\ UNCHANGED <<list, item, signalled>>

\* Mutant: closing the queue wakes the consumers only.
Notify_GetOnly(t) ==
    /\ pc[t] = "notify"
    /\ Goto(t, "idle")
    /\ signalled' = IF allowed THEN signalled ELSE signalled \cup Waiting("get")
    /\ UNCHANGED <<list, allowed, item>>

Notify(t) ==
    /\ pc[t] = "notify"
    /\ Goto(t, "idle")
    /\ signalled' = IF allowed THEN signalled
                    ELSE Waiting("get") \cup Waiting("put")
    /\ UNCHANGED <<list, allowed, item>>

-----------------------------------------------------------------------------
Next ==
    \E t \in Threads :
        \/ \E v \in Values : Push(t, v) \/ PushWait(t, v)
        \/ PushResume(t)
        \/ Pop(t) \/ PopWait(t) \/ PopResume(t)
        \/ Flush(t)
        \/ \E on \in BOOLEAN : SetAllowed(t, on)
        \/ Notify(t)

Spec == Init /\ [][Next]_vars

-----------------------------------------------------------------------------
(* Properties. *)

\* However the list is filled and emptied it stays in order.
InOrder ==
    Sorted => \A i \in 1..(Len(list) - 1) : list[i] <= list[i + 1]

\* One signal per push is enough: a consumer sleeps only while every element is
\* accounted for by a consumer already on its way.
ConsumerWakes ==
    Blocked("get") # {} => Len(list) <= Cardinality(Coming("get"))

\* Nobody sleeps in a queue closed for new data, though the broadcasts follow
\* the change of the flag only after mMutex was released.
ClosingWakes ==
    ~allowed => \/ Blocked("get") \cup Blocked("put") = {}
                \/ \E t \in Threads : pc[t] = "notify"
=============================================================================
