------------------------------- MODULE Consumer -------------------------------
(***************************************************************************)
(* The consumer of every server process, from the start of the process to  *)
(* its end: polling, batches, the semaphore, and stop, which cancels what  *)
(* is under way.  EventPipeline shows what one delivery does to the        *)
(* database; here a delivery is committed, fails or is cut short.          *)
(***************************************************************************)
EXTENDS Naturals, FiniteSets

CONSTANTS
    Process,          \* server processes (uvicorn workers) that are given a queue to poll
    Message,          \* messages of the queue
    MaxMessages,      \* SQS_MAX_MESSAGES: the largest batch
    MaxConcurrency,   \* SQS_MAX_CONCURRENCY: the semaphore
    MaxStops,         \* bound: shutdowns in a behaviour
    MaxFaults         \* bound: errors of SQS or of handlers, and processes that die

ASSUME SettingsAssumption == MaxMessages \in Nat \ {0} /\ MaxConcurrency \in Nat \ {0}
ASSUME BoundsAssumption == MaxStops \in Nat /\ MaxFaults \in Nat

VARIABLES
    queue,      \* queue[m]: where the message is in SQS
    done,       \* messages whose processing has been committed
    loop,       \* loop[p]: what the lifespan and the poll loop of the process are doing
    task,       \* task[p][m]: the task of the process's batch for the message
    asked,      \* asked[p]: a receive runs on in its thread after its task was cancelled
    deletes,    \* deletions that run on in their threads
    stops,      \* shutdowns so far
    faults      \* faults so far

vars == <<queue, done, loop, task, asked, deletes, stops, faults>>

\* "cut": cancelled, its session not yet closed.
TaskState == {"none", "waiting", "working", "committed", "deleting", "cut"}
NoTasks == [m \in Message |-> "none"]

\* The tasks that use the database.
InSession == {"working", "cut"}

Init ==
    /\ queue = [m \in Message |-> "visible"]
    /\ done = {}
    /\ loop = [p \in Process |-> "down"]
    /\ task = [p \in Process |-> NoTasks]
    /\ asked = [p \in Process |-> FALSE]
    /\ deletes = {}
    /\ stops = 0
    /\ faults = 0

Enter(p, state) == loop' = [loop EXCEPT ![p] = state]
Turn(p, m, state) == task' = [task EXCEPT ![p][m] = state]
Err == faults < MaxFaults /\ faults' = faults + 1

Batches == {B \in SUBSET {m \in Message : queue[m] = "visible"} :
                B # {} /\ Cardinality(B) <= MaxMessages}
Hide(B) == queue' = [m \in Message |-> IF m \in B THEN "inflight" ELSE queue[m]]
Remove(m) == queue' = [queue EXCEPT ![m] = "deleted"]

-----------------------------------------------------------------------------
(* Slips.                                                                  *)

\* success set before the processing instead of after it.
FailDeliveryDeletes(p, m) ==
    /\ task[p][m] = "working"
    /\ Err
    /\ Turn(p, m, "deleting")
    /\ UNCHANGED <<queue, done, loop, asked, deletes, stops>>

\* _receive_messages without its try: the poll loop ends, the process stays.
ReceiveErrorEndsLoop(p) ==
    /\ loop[p] = "polling"
    /\ Err
    /\ Enter(p, "lost")
    /\ UNCHANGED <<queue, done, task, asked, deletes, stops>>

\* Tasks that are created and not gathered.
EndBatchAtOnce(p) ==
    /\ loop[p] = "handling"
    /\ Enter(p, "polling")
    /\ UNCHANGED <<queue, done, task, asked, deletes, stops, faults>>

\* stop without awaiting the task it has cancelled.
StoppedAtOnce(p) ==
    /\ loop[p] = "stopping"
    /\ Enter(p, "stopped")
    /\ UNCHANGED <<queue, done, task, asked, deletes, stops, faults>>

-----------------------------------------------------------------------------
(* The queue.                                                              *)

\* A message that is not deleted is visible again after its visibility timeout, also when
\* its task is still waiting for the semaphore.
VisibilityTimeout(m) ==
    /\ queue[m] = "inflight"
    /\ queue' = [queue EXCEPT ![m] = "visible"]
    /\ UNCHANGED <<done, loop, task, asked, deletes, stops, faults>>

-----------------------------------------------------------------------------
(* The life of a process.                                                  *)

\* lifespan: the database and Redis are opened, then the consumer starts to poll.
Start(p) ==
    /\ loop[p] = "down"
    /\ Enter(p, "polling")
    /\ UNCHANGED <<queue, done, task, asked, deletes, stops, faults>>

\* A task that is cancelled: one at work has to roll back and close its session, the others
\* end; the session of a committed one is closed and a deletion made without them.
Cancelled(state) == IF state \in InSession THEN "cut" ELSE "none"

\* stop: the poll task is cancelled, and with it its receive or all tasks of its batch.
Stop(p) ==
    /\ loop[p] \in {"polling", "handling"}
    /\ stops < MaxStops
    /\ stops' = stops + 1
    /\ Enter(p, "stopping")
    /\ asked' = [asked EXCEPT ![p] = @ \/ loop[p] = "polling"]
    /\ deletes' = deletes \cup {m \in Message : task[p][m] = "deleting"}
    /\ task' = [task EXCEPT ![p] = [m \in Message |-> Cancelled(@[m])]]
    /\ UNCHANGED <<queue, done, faults>>

\* A cancelled delivery closes its session; its commit may have been on its way.
Unwind(p, m) ==
    /\ task[p][m] = "cut"
    /\ Turn(p, m, "none")
    /\ done' \in {done, done \cup {m}}
    /\ UNCHANGED <<queue, loop, asked, deletes, stops, faults>>

\* stop returns when the poll task has ended, which waits for the tasks of its batch.
Stopped(p) ==
    /\ loop[p] = "stopping"
    /\ task[p] = NoTasks
    /\ Enter(p, "stopped")
    /\ UNCHANGED <<queue, done, task, asked, deletes, stops, faults>>

\* close_redis, close_db and the end of the process.
Close(p) ==
    /\ loop[p] = "stopped"
    /\ Enter(p, "down")
    /\ UNCHANGED <<queue, done, task, asked, deletes, stops, faults>>

\* The process dies; PostgreSQL and SQS still see to what they have been sent.
Die(p) ==
    /\ loop[p] # "down"
    /\ Err
    /\ Enter(p, "down")
    /\ task' = [task EXCEPT ![p] = NoTasks]
    /\ UNCHANGED <<queue, done, asked, deletes, stops>>

-----------------------------------------------------------------------------
(* The poll loop.                                                          *)

\* A batch; each of its messages gets a task.
Receive(p, B) ==
    /\ loop[p] = "polling"
    /\ B \in Batches
    /\ Hide(B)
    /\ Enter(p, "handling")
    /\ task' = [task EXCEPT ![p] = [m \in Message |-> IF m \in B THEN "waiting" ELSE @[m]]]
    /\ UNCHANGED <<done, asked, deletes, stops, faults>>

\* receive_message raises: no messages, and the loop goes on without its pause.
ReceiveError(p) ==
    /\ loop[p] = "polling"
    /\ Err
    /\ UNCHANGED <<queue, done, loop, task, asked, deletes, stops>>

\* The thread of a cancelled receive gets an answer that nobody reads.
ReceiveForNobody(p) ==
    /\ asked[p]
    /\ asked' = [asked EXCEPT ![p] = FALSE]
    /\ \E B \in Batches \cup {{}} : Hide(B)
    /\ UNCHANGED <<done, loop, task, deletes, stops, faults>>

\* gather returns when every task of the batch has ended, and the loop polls again.
EndBatch(p) ==
    /\ loop[p] = "handling"
    /\ task[p] = NoTasks
    /\ Enter(p, "polling")
    /\ UNCHANGED <<queue, done, task, asked, deletes, stops, faults>>

-----------------------------------------------------------------------------
(* A task.                                                                 *)

\* The semaphore lets the task in, and it opens its session.
Acquire(p, m) ==
    /\ task[p][m] = "waiting"
    /\ Cardinality({n \in Message : task[p][n] \notin {"none", "waiting"}}) < MaxConcurrency
    /\ Turn(p, m, "working")
    /\ UNCHANGED <<queue, done, loop, asked, deletes, stops, faults>>

\* process_raw_message commits, for the first time or again, and returns.
Commit(p, m) ==
    /\ task[p][m] = "working"
    /\ done' = done \cup {m}
    /\ Turn(p, m, "committed")
    /\ UNCHANGED <<queue, loop, asked, deletes, stops, faults>>

\* process_raw_message raises: logged, and the message stays.
FailDelivery(p, m) ==
    /\ task[p][m] = "working"
    /\ Err
    /\ Turn(p, m, "none")
    /\ UNCHANGED <<queue, done, loop, asked, deletes, stops>>

\* The session is closed, and a thread deletes the message.
BeginDelete(p, m) ==
    /\ task[p][m] = "committed"
    /\ Turn(p, m, "deleting")
    /\ UNCHANGED <<queue, done, loop, asked, deletes, stops, faults>>

DeleteMessage(p, m) ==
    /\ task[p][m] = "deleting"
    /\ Remove(m)
    /\ Turn(p, m, "none")
    /\ UNCHANGED <<done, loop, asked, deletes, stops, faults>>

\* An error of delete_message is logged.
DeleteError(p, m) ==
    /\ task[p][m] = "deleting"
    /\ Err
    /\ Turn(p, m, "none")
    /\ UNCHANGED <<queue, done, loop, asked, deletes, stops>>

\* A deletion whose task was cancelled ends, or is lost with the process.
DeleteForNobody(m) ==
    /\ m \in deletes
    /\ deletes' = deletes \ {m}
    /\ Remove(m) \/ UNCHANGED queue
    /\ UNCHANGED <<done, loop, task, asked, stops, faults>>

-----------------------------------------------------------------------------

Work(p) ==
    \E m \in Message :
        Acquire(p, m) \/ Commit(p, m) \/ BeginDelete(p, m) \/ DeleteMessage(p, m) \/ Unwind(p, m)
Fail(p) == \E m \in Message : FailDelivery(p, m) \/ DeleteError(p, m)
Live(p) == Start(p) \/ EndBatch(p) \/ Stopped(p) \/ Close(p)

Next ==
    \/ \E m \in Message : VisibilityTimeout(m) \/ DeleteForNobody(m)
    \/ \E p \in Process, B \in Batches : Receive(p, B)
    \/ \E p \in Process :
          Work(p) \/ Fail(p) \/ Live(p) \/ Stop(p) \/ Die(p) \/ ReceiveError(p)
              \/ ReceiveForNobody(p)

Spec == Init /\ [][Next]_vars

\* The event loop runs the tasks that can go on, a process that ended is started again, and
\* SQS hands out what is visible to those who poll.
Fairness ==
    /\ \A p \in Process : WF_vars(Work(p)) /\ WF_vars(Live(p))
    /\ \A m \in Message :
           /\ WF_vars(VisibilityTimeout(m))
           /\ SF_vars(\E p \in Process, B \in Batches : m \in B /\ Receive(p, B))

FairSpec == Spec /\ Fairness

-----------------------------------------------------------------------------
(* Properties.                                                             *)

TypeOK ==
    /\ queue \in [Message -> {"visible", "inflight", "deleted"}]
    /\ done \subseteq Message
    /\ loop \in [Process -> {"down", "polling", "handling", "stopping", "stopped"}]
    /\ task \in [Process -> [Message -> TaskState]]
    /\ asked \in [Process -> BOOLEAN]
    /\ deletes \subseteq Message
    /\ stops \in 0..MaxStops /\ faults \in 0..MaxFaults

\* A message is deleted only after its processing was committed, also when the task of the
\* deletion or of the delivery was cancelled in between.
DeletedIsDone == \A m \in Message : queue[m] = "deleted" => m \in done

\* When the database is closed, no delivery of the process still works with it.
NothingAfterClose ==
    \A p \in Process : loop[p] \in {"stopped", "down"} =>
        \A m \in Message : task[p][m] \notin InSession

\* A process does not take up a message again while it is at work on it, although the
\* message may long be visible again: it polls between batches only.
NoOverlap ==
    [][\A p \in Process, m \in Message : task[p][m] # "none" /\ task'[p][m] = "waiting" =>
          task[p][m] = "waiting" /\ loop'[p] = loop[p]]_vars

\* Every message is deleted in the end, also those that were received by a process which
\* was stopped or died with them, or by a receive that nobody waited for.
EventuallyDeleted == \A m \in Message : <>(queue[m] = "deleted")
=============================================================================
