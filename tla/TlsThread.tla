----------------------------- MODULE TlsThread -----------------------------
(***************************************************************************)
(* Tls::Thread: one object, the callers of run, requestExit,               *)
(* requestExitAndWait and join, and the detached pthreads that run() makes.*)
(* A step is a section under mLock, or what a pthread does between two of  *)
(* them; a caller in a condition wait is "exitWait" or "joinWait", and     *)
(* "woken" once broadcast has reached it.                                  *)
(***************************************************************************)
EXTENDS Integers, FiniteSets

CONSTANTS
    Callers,    \* threads that use the object
    Pthreads,   \* pthreads it may create: a bound on run()
    Creation    \* the outcomes of pthread_create: TRUE is success

VARIABLES
    running,        \* mRunning
    exitPending,    \* mExitPending
    body,           \* body[p]: where pthread p is in _threadLoop
    caller,         \* caller[c]: the call c is in
    woken           \* the callers a broadcast has reached and that have not taken mLock yet

vars == <<running, exitPending, body, caller, woken>>

BodyPCs   == {"new", "ready", "loop", "test", "ending", "gone"}
CallerPCs == {"idle", "exitWait", "joinWait"}
\* The pthreads between pthread_create and the end of _threadLoop.
Alive     == {p \in Pthreads : body[p] \notin {"new", "gone"}}

TypeOK ==
    /\ running \in BOOLEAN
    /\ exitPending \in BOOLEAN
    /\ body \in [Pthreads -> BodyPCs]
    /\ caller \in [Callers -> CallerPCs]
    /\ woken \in SUBSET {c \in Callers : caller[c] # "idle"}

Init ==
    /\ running = FALSE /\ exitPending = FALSE
    /\ body = [p \in Pthreads |-> "new"]
    /\ caller = [c \in Callers |-> "idle"]
    /\ woken = {}

\* mCondition.broadcast
Broadcast == woken' = {c \in Callers : caller[c] # "idle"}

-----------------------------------------------------------------------------
(* The callers. *)

\* run; it returns -1 and changes nothing while the thread is running.
Run(c, p, created) ==
    /\ caller[c] = "idle"
    /\ ~running
    /\ body[p] = "new"
    /\ exitPending' = FALSE
    /\ \/ /\ created
          /\ running' = TRUE
          /\ body' = [body EXCEPT ![p] = "ready"]
          /\ UNCHANGED woken
       \/ /\ ~created
          /\ running' = FALSE
          /\ Broadcast
          /\ UNCHANGED body
    /\ UNCHANGED caller

RequestExit(c) ==
    /\ caller[c] = "idle"
    /\ exitPending' = TRUE
    /\ UNCHANGED <<running, body, caller, woken>>

\* requestExitAndWait from the lock to the condition wait or, if the thread is
\* not running, to its return.
RequestExitAndWait(c) ==
    /\ caller[c] = "idle"
    /\ exitPending' = running
    /\ caller' = [caller EXCEPT ![c] = IF running THEN "exitWait" ELSE "idle"]
    /\ UNCHANGED <<running, body, woken>>

Join(c) ==
    /\ caller[c] = "idle"
    /\ running
    /\ caller' = [caller EXCEPT ![c] = "joinWait"]
    /\ UNCHANGED <<running, exitPending, body, woken>>

\* Mutant: a woken caller does not look at mRunning again.
Wake_NoRecheck(c) ==
    /\ c \in woken
    /\ woken' = woken \ {c}
    /\ caller' = [caller EXCEPT ![c] = "idle"]
    /\ exitPending' = IF caller[c] = "exitWait" THEN FALSE ELSE exitPending
    /\ UNCHANGED <<running, body>>

\* The condition wait returns with mLock taken; the caller waits again while
\* the thread is running.
Wake(c) ==
    /\ c \in woken
    /\ woken' = woken \ {c}
    /\ \/ running /\ UNCHANGED <<caller, exitPending>>
       \/ /\ ~running
          /\ caller' = [caller EXCEPT ![c] = "idle"]
          /\ exitPending' = IF caller[c] = "exitWait" THEN FALSE ELSE exitPending
    /\ UNCHANGED <<running, body>>

-----------------------------------------------------------------------------
(* The pthreads. *)

At(p, next) == body' = [body EXCEPT ![p] = next]

\* _threadLoop up to its first look at mExitPending, readyToRun included.
Begin(p) ==
    /\ body[p] = "ready"
    /\ running' = TRUE
    /\ At(p, IF exitPending THEN "ending" ELSE "loop")
    /\ UNCHANGED <<exitPending, caller, woken>>

\* threadLoop returns, asking to be called again or not.
LoopReturns(p) ==
    /\ body[p] = "loop"
    /\ At(p, "test") \/ At(p, "ending")
    /\ UNCHANGED <<running, exitPending, caller, woken>>

\* Mutant: only threadLoop can end the loop.
LoopAgain_Ignore(p) ==
    /\ body[p] = "test"
    /\ At(p, "loop")
    /\ UNCHANGED <<running, exitPending, caller, woken>>

\* mExitPending and mRunning are read without mLock.
LoopAgain(p) ==
    /\ body[p] = "test"
    /\ At(p, IF exitPending \/ ~running THEN "ending" ELSE "loop")
    /\ UNCHANGED <<running, exitPending, caller, woken>>

\* readyToExit, and the last section under mLock.
Finish(p) ==
    /\ body[p] = "ending"
    /\ exitPending' = TRUE /\ running' = FALSE
    /\ At(p, "gone")
    /\ Broadcast
    /\ UNCHANGED caller

-----------------------------------------------------------------------------
BodyStep(p) ==
    Begin(p) \/ LoopReturns(p) \/ LoopAgain(p) \/ Finish(p)

Next ==
    \/ \E c \in Callers, p \in Pthreads, created \in Creation : Run(c, p, created)
    \/ \E c \in Callers : RequestExit(c) \/ RequestExitAndWait(c) \/ Join(c) \/ Wake(c)
    \/ \E p \in Pthreads : BodyStep(p)

Spec == Init /\ [][Next]_vars

\* The pthreads run, each threadLoop returns, perhaps always to be called
\* again, and a caller that was woken gets mLock.
FairSpec ==
    /\ Spec
    /\ \A p \in Pthreads : WF_vars(BodyStep(p))
    /\ \A c \in Callers : WF_vars(Wake(c))

-----------------------------------------------------------------------------
(* Properties. *)

\* However run, exits and ends interleave, one pthread at most executes the
\* object's code, and mRunning says whether there is one.
OneBody ==
    /\ \A p, q \in Alive : p = q
    /\ running <=> Alive # {}

\* A caller returns from its wait only when the object's code is left: what
\* stop() then flushes and deletes is used by nobody else.
WaitMeansOver ==
    [][\A c \in Callers : caller[c] # "idle" /\ caller'[c] = "idle" => Alive = {}]_vars

\* A waiting caller whose wake-up is lost would wait for a thread that is over.
NobodyForgotten ==
    \A c \in Callers : caller[c] # "idle" => running \/ c \in woken

\* "Call requestExit() and wait until this object's thread exits": the call
\* returns, even if the exit is asked for before the thread's first instruction,
\* unless another caller runs the object again before the waiter has mLock:
\* run withdraws the exit request, and the waiter waits for the new thread.
ExitReturns ==
    \A c \in Callers :
        (caller[c] = "exitWait" /\ exitPending) ~> (caller[c] = "idle" \/ ~exitPending)
=============================================================================
