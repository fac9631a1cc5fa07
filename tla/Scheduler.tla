----------------------------- MODULE Scheduler -----------------------------
(***************************************************************************)
(* The background jobs: the Scheduler of workers/scheduler.py and its use  *)
(* by the lifespan of main.py and by the standalone entry point.           *)
(*                                                                         *)
(* One asyncio task per job waits, runs and waits.  A cancellation reaches *)
(* a task at the await it stands at: in a wait it ends the loop; in a job  *)
(* it usually does, but the job may turn it into an exception of its own,  *)
(* which the loop logs like any other failure of a job.                    *)
(***************************************************************************)
CONSTANT Jobs     \* the enabled jobs

VARIABLES
    stopping,  \* the _stopping event
    task,      \* job -> where its task stands
    cancelled, \* tasks with a cancellation that has not reached them yet
    stop,      \* where stop() stands
    started    \* jobs whose task is in _tasks

vars == <<stopping, task, cancelled, stop, started>>

Alive == {"delay", "run", "wait"}

Init ==
    /\ stopping = FALSE
    /\ task = [j \in Jobs |-> "none"]
    /\ cancelled = {}
    /\ stop = "idle"
    /\ started = {}

-----------------------------------------------------------------------------

Goto(j, label) == task' = [task EXCEPT ![j] = label]

\* create_task for every enabled job; after a stop the loops start as well, and
\* find the event still set.
Start ==
    /\ stop # "gather" /\ started = {}
    /\ started' = Jobs
    /\ task' = [j \in Jobs |-> "delay"]
    /\ UNCHANGED <<stopping, cancelled, stop>>

\* The initial wait: the event ends the loop, the timeout begins the first run.
First(j) == Goto(j, IF stopping THEN "done" ELSE "run")

Delays(j) ==
    /\ task[j] = "delay" /\ j \notin cancelled
    /\ First(j)
    /\ UNCHANGED <<stopping, cancelled, stop, started>>

\* A job that returns and one that raises go on alike.
Returns(j) == Goto(j, "wait")

Runs(j) ==
    /\ task[j] = "run" /\ j \notin cancelled
    /\ Returns(j)
    /\ UNCHANGED <<stopping, cancelled, stop, started>>

\* Mutant: after the wait the loop begins again without a look at the event.
WaitsOn(j) == Goto(j, "run")

\* The wait between two runs, then the condition of the loop.
Again(j) == Goto(j, IF stopping THEN "done" ELSE "run")

Waits(j) ==
    /\ task[j] = "wait" /\ j \notin cancelled
    /\ Again(j)
    /\ UNCHANGED <<stopping, cancelled, stop, started>>

\* CancelledError at the await the task stands at.
IsCancelled(j) ==
    /\ j \in cancelled
    /\ cancelled' = cancelled \ {j}
    /\ Goto(j, "done") \/ (task[j] = "run" /\ Goto(j, "wait"))
    /\ UNCHANGED <<stopping, stop, started>>

\* stop(): the event, then a cancellation of every task that is not done.
Stop ==
    /\ stop = "idle" /\ started # {}
    /\ stopping' = TRUE
    /\ cancelled' = {j \in started : task[j] \in Alive}
    /\ stop' = "gather"
    /\ UNCHANGED <<task, started>>

\* ... and it awaits them all.
Stopped ==
    /\ stop = "gather" /\ \A j \in started : task[j] = "done"
    /\ started' = {}
    /\ stop' = "returned"
    /\ UNCHANGED <<stopping, task, cancelled>>

Step(j) == Delays(j) \/ Runs(j) \/ Waits(j) \/ IsCancelled(j)

Next == Start \/ Stop \/ Stopped \/ \E j \in Jobs : Step(j)

\* The event loop resumes every task whose await has come to an end, and a job
\* comes to an end: the purge and the anchor wait for the database alone.
Fairness == WF_vars(Stopped) /\ \A j \in Jobs : WF_vars(Step(j))

Spec == Init /\ [][Next]_vars /\ Fairness

-----------------------------------------------------------------------------
(***************************************************************************)
(* A stop ends: every loop ends, whatever it was doing when it was         *)
(* cancelled and even when its job swallows the cancellation, and stop()   *)
(* returns to the shutdown that waits for it.                              *)
(***************************************************************************)
StopEnds == (stop = "gather") ~> (stop = "returned")
=============================================================================
