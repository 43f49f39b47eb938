----------------------------- MODULE MCTlsCalls -----------------------------
(***************************************************************************)
(* TlsThread, TlsPoll and TlsQueue for TLC: the three classes of tools/    *)
(* that threads wait in.  None uses another, so a behaviour is one of one  *)
(* module, the others' variables staying as they are.                      *)
(***************************************************************************)
EXTENDS TlsPoll

CONSTANTS
    Callers, Pthreads, Creation,                \* of TlsThread
    Producers, Values, Capacity, Sorted         \* of TlsQueue

ASSUME QueueAssumption ==
    /\ IsFiniteSet(Producers) /\ Capacity \in Nat
    /\ Values \subseteq Int /\ Values # {}

VARIABLES
    tool,       \* the class a behaviour is about: "thread", "poll" or "queue"
    running, exitPending, body, caller, woken,
    list, allowed, queuePc, item, signalled

threadVars == <<running, exitPending, body, caller, woken>>
queueVars  == <<list, allowed, queuePc, item, signalled>>
allVars    == <<tool, vars, threadVars, queueVars>>

Thread == INSTANCE TlsThread
Queue  == INSTANCE TlsQueue WITH pc <- queuePc, Threads <- Producers

CallsInit == tool \in {"thread", "poll", "queue"} /\ Init /\ Thread!Init /\ Queue!Init

CallsNext ==
    /\ UNCHANGED tool
    /\ \/ tool = "thread" /\ Thread!Next /\ UNCHANGED <<vars, queueVars>>
       \/ tool = "poll" /\ Next /\ UNCHANGED <<threadVars, queueVars>>
       \/ tool = "queue" /\ Queue!Next /\ UNCHANGED <<vars, threadVars>>

ThreadStep(A) == tool = "thread" /\ A /\ UNCHANGED <<tool, vars, queueVars>>
PollStep(A)   == tool = "poll" /\ A /\ UNCHANGED <<tool, threadVars, queueVars>>

\* The fairness of TlsThread and of TlsPoll.
CallsFairness ==
    /\ \A p \in Pthreads : WF_allVars(ThreadStep(Thread!BodyStep(p)))
    /\ \A c \in Callers : WF_allVars(ThreadStep(Thread!Wake(c)))
    /\ \A w \in Waiters :
          /\ WF_allVars(PollStep(WaitLoad(w))) /\ WF_allVars(PollStep(WaitCount(w)))
          /\ WF_allVars(PollStep(WaitCheck(w))) /\ WF_allVars(PollStep(PollActive(w)))
          /\ WF_allVars(PollStep(PollRecheck(w))) /\ WF_allVars(PollStep(WaitLeave(w)))
    /\ \A f \in Flushers : WF_allVars(PollStep(FlushStep(f)))

CallsSpec == CallsInit /\ [][CallsNext]_allVars /\ CallsFairness

-----------------------------------------------------------------------------
\* Of TlsThread: whoever returns from a wait for the thread returns after its body.
WaitMeansOver == Thread!WaitMeansOver
\* Of TlsThread: requestExitAndWait returns, unless the object is run again.
ExitReturns == Thread!ExitReturns
\* Of TlsQueue: a sorted queue is in order.
InOrder == Queue!InOrder
\* Of TlsQueue: no consumer sleeps while there is an element nobody comes for.
ConsumerWakes == Queue!ConsumerWakes
\* Of TlsQueue: nobody sleeps in a queue closed for new data.
ClosingWakes == Queue!ClosingWakes
=============================================================================
