--------------------------- MODULE EventPipeline ---------------------------
(***************************************************************************)
(* Event intake of ushnotice: SQS messages are received by the consumer's  *)
(* concurrent slots, recorded in PostgreSQL, routed through the            *)
(* idempotency guard to the registered handlers and deleted from the       *)
(* queue.  The module composes SQSConsumer._process_and_delete,            *)
(* MessageProcessor.process_raw_message, EventRouter.route and             *)
(* IdempotencyGuard, because what they promise together depends on where   *)
(* the one database session they share commits and rolls back.             *)
(*                                                                         *)
(* The database is READ COMMITTED.  The committed tables are `events' and  *)
(* `procs'; a delivery's uncommitted event_processings rows are its        *)
(* overlay `txn'.  Two PostgreSQL waits order deliveries of one event: the *)
(* row lock taken by UPDATE events (`rowLock') and the unique index on     *)
(* (event_id, handler_name), on which an INSERT waits for a concurrent     *)
(* transaction that holds the same key.                                    *)
(***************************************************************************)
EXTENDS Naturals

CONSTANTS
    Worker,      \* message slots: SQS_MAX_CONCURRENCY tasks of every uvicorn process
    Message,     \* messages of the SQS queue
    Event,       \* event_id values: the primary keys of the events table
    EventOf,     \* EventOf[m]: the event_id carried by m (its own row when m has none)
    Routable,    \* messages whose event type has handlers in the registry
    Unknown,     \* messages whose event type is not registered
    Rejected,    \* messages with malformed JSON or failing EventEnvelope validation
    NHandlers,   \* number of handlers registered for a routable type
    MaxFaults,   \* bound: handler failures, crashes and lost deletes in a behaviour
    None         \* "nobody": a free row lock, an idle slot

Handler == 1 .. NHandlers

ASSUME EventOfAssumption == EventOf \in [Message -> Event]
ASSUME KindAssumption ==
    /\ Message = Routable \cup Unknown \cup Rejected
    /\ Routable \cap Unknown = {}
    /\ Routable \cap Rejected = {}
    /\ Unknown \cap Rejected = {}
ASSUME NHandlersAssumption == NHandlers \in Nat \ {0}
ASSUME MaxFaultsAssumption == MaxFaults \in Nat
ASSUME NoneAssumption == None \notin Worker \cup Message

VARIABLES
    queue,     \* queue[m]: where the message is in SQS
    events,    \* events[e]: committed status of the events row ("NONE": no row)
    procs,     \* procs[e][h]: committed status of the event_processings row
    rowLock,   \* rowLock[e]: the slot whose transaction has updated events row e
    pc,        \* pc[w]: what slot w does next
    msg,       \* msg[w]: the message slot w is processing
    idx,       \* idx[w]: position in the handler list (route's loop)
    errs,      \* errs[w]: handler_errors is not empty
    txn,       \* txn[w][h]: status of a row written by w's open transaction
    runs,      \* runs[e][h]: times the handler's outside effects took place
    faults     \* faults so far

vars == <<queue, events, procs, rowLock, pc, msg, idx, errs, txn, runs, faults>>

QueueState  == {"visible", "inflight", "deleted"}
EventStatus == {"NONE", "RECEIVED", "PROCESSED", "INVALID", "FAILED"}
ProcStatus  == {"NONE", "PENDING", "PROCESSING", "COMPLETED", "FAILED", "SKIPPED"}
Conflicting == {"COMPLETED", "PROCESSING", "SKIPPED"}

\* Program counters of a delivery, in the order of the code.
RoutingPc == {"next", "claim", "run", "finish"}
Pc == {"idle", "parse", "insert", "reject", "route", "markfailed", "delete"} \cup RoutingPc

NoRows == [h \in Handler |-> "NONE"]

Ev(w) == EventOf[msg[w]]

\* What a SELECT of w's own session returns for the handler's row.
Seen(w, h) == IF txn[w][h] # "NONE" THEN txn[w][h] ELSE procs[Ev(w)][h]

\* Another open transaction has inserted (or updated) the row of (e, h).
HeldByOther(w, h) ==
    \E v \in Worker \ {w} : pc[v] # "idle" /\ Ev(v) = Ev(w) /\ txn[v][h] # "NONE"

Init ==
    /\ queue = [m \in Message |-> "visible"]
    /\ events = [e \in Event |-> "NONE"]
    /\ procs = [e \in Event |-> NoRows]
    /\ rowLock = [e \in Event |-> None]
    /\ pc = [w \in Worker |-> "idle"]
    /\ msg = [w \in Worker |-> None]
    /\ idx = [w \in Worker |-> 1]
    /\ errs = [w \in Worker |-> FALSE]
    /\ txn = [w \in Worker |-> NoRows]
    /\ runs = [e \in Event |-> [h \in Handler |-> 0]]
    /\ faults = 0

Goto(w, l) == pc' = [pc EXCEPT ![w] = l]

\* End of w's transaction, by commit or by rollback: its locks are released.
FreeLocks(w) == rowLock' = [e \in Event |-> IF rowLock[e] = w THEN None ELSE rowLock[e]]
DropOverlay(w) == txn' = [txn EXCEPT ![w] = NoRows]

\* The session is closed and the slot leaves _process_and_delete.
EndDelivery(w) ==
    /\ Goto(w, "idle")
    /\ msg' = [msg EXCEPT ![w] = None]
    /\ idx' = [idx EXCEPT ![w] = 1]
    /\ errs' = [errs EXCEPT ![w] = FALSE]

\* An exception leaves the delivery: rollback, and the message is not deleted.
AbortDelivery(w) == EndDelivery(w) /\ FreeLocks(w) /\ DropOverlay(w)

-----------------------------------------------------------------------------
(* Slips: what an action below would be after a plausible mistake in the   *)
(* code.  PROJECT.json names, for each property, the slip that breaks it.  *)

\* route handles the exception but forgets the rollback: guard.fail finds its row.
FailHandlerWithoutRollback(w) ==
    /\ pc[w] \in {"run", "finish"}
    /\ faults < MaxFaults
    /\ faults' = faults + 1
    /\ errs' = [errs EXCEPT ![w] = TRUE]
    /\ idx' = [idx EXCEPT ![w] = @ + 1]
    /\ txn' = [txn EXCEPT ![w][idx[w]] = "FAILED"]
    /\ Goto(w, "next")
    /\ UNCHANGED <<queue, events, procs, rowLock, msg, runs>>

\* A handler that swallows its own exception before doing anything.
FailHandlerSwallowed(w) ==
    /\ pc[w] \in {"run", "finish"}
    /\ faults < MaxFaults
    /\ faults' = faults + 1
    /\ txn' = [txn EXCEPT ![w][idx[w]] = "COMPLETED"]
    /\ idx' = [idx EXCEPT ![w] = @ + 1]
    /\ Goto(w, "next")
    /\ UNCHANGED <<queue, events, procs, rowLock, msg, errs, runs>>

\* event_processings without its unique constraint.
ClaimHandlerUnindexed(w) ==
    /\ pc[w] = "claim"
    /\ procs[Ev(w)][idx[w]] = "NONE"
    /\ txn' = [txn EXCEPT ![w][idx[w]] = "PROCESSING"]
    /\ Goto(w, "run")
    /\ UNCHANGED <<queue, events, procs, rowLock, msg, idx, errs, runs, faults>>

\* The INSERT written as an upsert.
ClaimHandlerUpsert(w) ==
    /\ pc[w] = "claim"
    /\ ~HeldByOther(w, idx[w])
    /\ txn' = [txn EXCEPT ![w][idx[w]] = "PROCESSING"]
    /\ Goto(w, "run")
    /\ UNCHANGED <<queue, events, procs, rowLock, msg, idx, errs, runs, faults>>

\* A commit after every handler instead of one at the end.
CompleteHandlerCommits(w) ==
    /\ pc[w] = "finish"
    /\ procs' = [procs EXCEPT ![Ev(w)][idx[w]] = "COMPLETED"]
    /\ idx' = [idx EXCEPT ![w] = @ + 1]
    /\ FreeLocks(w)
    /\ DropOverlay(w)
    /\ Goto(w, "next")
    /\ UNCHANGED <<queue, events, msg, errs, runs, faults>>

\* process_raw_message without the commit after route.
CommitProcessedForgotten(w) ==
    /\ pc[w] = "next"
    /\ idx[w] > NHandlers
    /\ ~errs[w]
    /\ FreeLocks(w)
    /\ DropOverlay(w)
    /\ Goto(w, "delete")
    /\ UNCHANGED <<queue, events, procs, msg, idx, errs, runs, faults>>

\* route without the second rollback, before mark_failed_by_id.
DiscardErrorsWithoutRollback(w) ==
    /\ pc[w] = "next"
    /\ idx[w] > NHandlers
    /\ errs[w]
    /\ Goto(w, "markfailed")
    /\ UNCHANGED <<queue, events, procs, rowLock, msg, idx, errs, txn, runs, faults>>

\* route records the failure but does not raise: the consumer deletes the message.
MarkFailedQuietly(w) ==
    /\ pc[w] = "markfailed"
    /\ rowLock[Ev(w)] = None
    /\ events' = [events EXCEPT ![Ev(w)] = "FAILED"]
    /\ Goto(w, "delete")
    /\ UNCHANGED <<queue, procs, rowLock, msg, idx, errs, txn, runs, faults>>

\* UnknownEventTypeError treated like any other exception.
AcceptUnknownRaises(w) ==
    /\ pc[w] = "route"
    /\ msg[w] \in Unknown
    /\ AbortDelivery(w)
    /\ UNCHANGED <<queue, events, procs, runs, faults>>

-----------------------------------------------------------------------------
(* The queue and the start of a delivery.                                  *)

\* receive_message hands a visible message to a free slot and hides it for
\* SQS_VISIBILITY_TIMEOUT seconds.
Receive(w, m) ==
    /\ pc[w] = "idle"
    /\ queue[m] = "visible"
    /\ queue' = [queue EXCEPT ![m] = "inflight"]
    /\ msg' = [msg EXCEPT ![w] = m]
    /\ Goto(w, "parse")
    /\ UNCHANGED <<events, procs, rowLock, idx, errs, txn, runs, faults>>

\* The visibility timeout of an undeleted message expires: whether its slot is
\* still at work, has failed or has died, SQS will deliver it again.
VisibilityTimeout(m) ==
    /\ queue[m] = "inflight"
    /\ queue' = [queue EXCEPT ![m] = "visible"]
    /\ UNCHANGED <<events, procs, rowLock, pc, msg, idx, errs, txn, runs, faults>>

\* EventRepository.create: the SELECT that looks for an existing row.
LookupEvent(w) ==
    /\ pc[w] = "parse"
    /\ \/ events[Ev(w)] = "NONE" /\ Goto(w, "insert")
       \/ events[Ev(w)] # "NONE" /\ msg[w] \in Rejected /\ Goto(w, "reject")
       \/ events[Ev(w)] # "NONE" /\ msg[w] \notin Rejected /\ Goto(w, "route")
    /\ UNCHANGED <<queue, events, procs, rowLock, msg, idx, errs, txn, runs, faults>>

\* EventRepository.create: the INSERT, committed at once.
InsertEvent(w) ==
    /\ pc[w] = "insert"
    /\ msg[w] \notin Rejected
    /\ events[Ev(w)] = "NONE"
    /\ events' = [events EXCEPT ![Ev(w)] = "RECEIVED"]
    /\ Goto(w, "route")
    /\ UNCHANGED <<queue, procs, rowLock, msg, idx, errs, txn, runs, faults>>

\* Malformed JSON or an invalid envelope: the row, inserted now or found by the SELECT
\* and then locked, is marked INVALID and committed; EventValidationError keeps the
\* message in the queue.
Reject(w) ==
    /\ msg[w] \in Rejected
    /\ \/ pc[w] = "insert" /\ events[Ev(w)] = "NONE"
       \/ pc[w] = "reject" /\ rowLock[Ev(w)] = None
    /\ events' = [events EXCEPT ![Ev(w)] = "INVALID"]
    /\ EndDelivery(w)
    /\ UNCHANGED <<queue, procs, rowLock, txn, runs, faults>>

\* Another delivery committed the row between the SELECT and the INSERT: the
\* IntegrityError leaves process_raw_message.
InsertEventConflict(w) ==
    /\ pc[w] = "insert"
    /\ events[Ev(w)] # "NONE"
    /\ AbortDelivery(w)
    /\ UNCHANGED <<queue, events, procs, runs, faults>>

\* No handler is registered: the event is marked PROCESSED so that it is not
\* retried for ever.
AcceptUnknown(w) ==
    /\ pc[w] = "route"
    /\ msg[w] \in Unknown
    /\ rowLock[Ev(w)] = None
    /\ events' = [events EXCEPT ![Ev(w)] = "PROCESSED"]
    /\ Goto(w, "delete")
    /\ UNCHANGED <<queue, procs, rowLock, msg, idx, errs, txn, runs, faults>>

-----------------------------------------------------------------------------
(* EventRouter.route                                                       *)

\* mark_processing: UPDATE events waits for, then holds, the row lock.  The
\* PROCESSING status itself is never committed and nobody reads it.
BeginRouting(w) ==
    /\ pc[w] = "route"
    /\ msg[w] \in Routable
    /\ rowLock[Ev(w)] = None
    /\ rowLock' = [rowLock EXCEPT ![Ev(w)] = w]
    /\ Goto(w, "next")
    /\ UNCHANGED <<queue, events, procs, msg, idx, errs, txn, runs, faults>>

\* IdempotencyGuard.acquire, the SELECT: a row that is completed, being
\* processed or skipped raises IdempotencyConflict, and the loop continues.
SkipHandler(w) ==
    /\ pc[w] = "next"
    /\ idx[w] <= NHandlers
    /\ Seen(w, idx[w]) \in Conflicting
    /\ idx' = [idx EXCEPT ![w] = @ + 1]
    /\ UNCHANGED <<queue, events, procs, rowLock, pc, msg, errs, txn, runs, faults>>

SelectHandler(w) ==
    /\ pc[w] = "next"
    /\ idx[w] <= NHandlers
    /\ Seen(w, idx[w]) \notin Conflicting
    /\ Goto(w, "claim")
    /\ UNCHANGED <<queue, events, procs, rowLock, msg, idx, errs, txn, runs, faults>>

\* IdempotencyGuard.acquire, the INSERT and the UPDATE to PROCESSING.  The unique
\* index makes it wait for every other transaction that holds the key.
ClaimHandler(w) ==
    /\ pc[w] = "claim"
    /\ ~HeldByOther(w, idx[w])
    /\ procs[Ev(w)][idx[w]] = "NONE"
    /\ txn' = [txn EXCEPT ![w][idx[w]] = "PROCESSING"]
    /\ Goto(w, "run")
    /\ UNCHANGED <<queue, events, procs, rowLock, msg, idx, errs, runs, faults>>

\* The key was committed after the SELECT: the INSERT raises IntegrityError, which
\* is not an IdempotencyConflict and leaves route; the processor rolls back.
ClaimConflict(w) ==
    /\ pc[w] = "claim"
    /\ ~HeldByOther(w, idx[w])
    /\ procs[Ev(w)][idx[w]] # "NONE"
    /\ AbortDelivery(w)
    /\ UNCHANGED <<queue, events, procs, runs, faults>>

\* The handler's effects outside the database (calls, notifications) happen.
RunHandler(w) ==
    /\ pc[w] = "run"
    /\ runs' = [runs EXCEPT ![Ev(w)][idx[w]] = @ + 1]
    /\ Goto(w, "finish")
    /\ UNCHANGED <<queue, events, procs, rowLock, msg, idx, errs, txn, faults>>

\* guard.complete, not yet committed.
CompleteHandler(w) ==
    /\ pc[w] = "finish"
    /\ txn' = [txn EXCEPT ![w][idx[w]] = "COMPLETED"]
    /\ idx' = [idx EXCEPT ![w] = @ + 1]
    /\ Goto(w, "next")
    /\ UNCHANGED <<queue, events, procs, rowLock, msg, errs, runs, faults>>

\* The handler raises, before or after its effects.  The rollback also erases the
\* rows of the handlers already done in this delivery and frees the row lock;
\* guard.fail then updates a row that no longer exists.  The loop goes on.
FailHandler(w) ==
    /\ pc[w] \in {"run", "finish"}
    /\ faults < MaxFaults
    /\ faults' = faults + 1
    /\ errs' = [errs EXCEPT ![w] = TRUE]
    /\ idx' = [idx EXCEPT ![w] = @ + 1]
    /\ FreeLocks(w)
    /\ DropOverlay(w)
    /\ Goto(w, "next")
    /\ UNCHANGED <<queue, events, procs, msg, runs>>

\* The loop ended without an error: mark_processed_by_id and the processor's commit.
CommitProcessed(w) ==
    /\ pc[w] = "next"
    /\ idx[w] > NHandlers
    /\ ~errs[w]
    /\ events' = [events EXCEPT ![Ev(w)] = "PROCESSED"]
    /\ procs' = [procs EXCEPT ![Ev(w)] = [h \in Handler |-> Seen(w, h)]]
    /\ FreeLocks(w)
    /\ DropOverlay(w)
    /\ Goto(w, "delete")
    /\ UNCHANGED <<queue, msg, idx, errs, runs, faults>>

\* The loop ended with errors: everything done since the last failure is rolled back.
DiscardErrors(w) ==
    /\ pc[w] = "next"
    /\ idx[w] > NHandlers
    /\ errs[w]
    /\ FreeLocks(w)
    /\ DropOverlay(w)
    /\ Goto(w, "markfailed")
    /\ UNCHANGED <<queue, events, procs, msg, idx, errs, runs, faults>>

\* mark_failed_by_id (waits for the row lock) and commit, then RuntimeError.
MarkFailed(w) ==
    /\ pc[w] = "markfailed"
    /\ rowLock[Ev(w)] = None
    /\ events' = [events EXCEPT ![Ev(w)] = "FAILED"]
    /\ EndDelivery(w)
    /\ UNCHANGED <<queue, procs, rowLock, txn, runs, faults>>

-----------------------------------------------------------------------------
(* The end of a delivery.                                                  *)

DeleteMessage(w) ==
    /\ pc[w] = "delete"
    /\ queue' = [queue EXCEPT ![msg[w]] = "deleted"]
    /\ EndDelivery(w)
    /\ UNCHANGED <<events, procs, rowLock, txn, runs, faults>>

\* delete_message fails, or the receipt handle is stale: logged only.
DeleteLost(w) ==
    /\ pc[w] = "delete"
    /\ faults < MaxFaults
    /\ faults' = faults + 1
    /\ EndDelivery(w)
    /\ UNCHANGED <<queue, events, procs, rowLock, txn, runs>>

\* The process dies, or stop() cancels the task: PostgreSQL rolls back.
Crash(w) ==
    /\ pc[w] # "idle"
    /\ faults < MaxFaults
    /\ faults' = faults + 1
    /\ AbortDelivery(w)
    /\ UNCHANGED <<queue, events, procs, runs>>

-----------------------------------------------------------------------------
Routing(w) ==
    \/ BeginRouting(w) \/ SkipHandler(w) \/ SelectHandler(w) \/ ClaimHandler(w)
    \/ ClaimConflict(w) \/ RunHandler(w) \/ CompleteHandler(w) \/ CommitProcessed(w)
    \/ DiscardErrors(w) \/ MarkFailed(w)

Intake(w) ==
    \/ Reject(w) \/ LookupEvent(w) \/ InsertEvent(w) \/ InsertEventConflict(w)
    \/ AcceptUnknown(w)

\* What a running slot does on its own.
Progress(w) == Intake(w) \/ Routing(w) \/ DeleteMessage(w)

Fault(w) == FailHandler(w) \/ DeleteLost(w) \/ Crash(w)

Next ==
    \/ \E w \in Worker, m \in Message : Receive(w, m)
    \/ \E m \in Message : VisibilityTimeout(m)
    \/ \E w \in Worker : Progress(w) \/ Fault(w)

Spec == Init /\ [][Next]_vars

\* The event loop runs every ready task, PostgreSQL grants a contended lock to a
\* waiter in turn, and SQS redelivers every message that is not deleted.
Fairness ==
    /\ \A w \in Worker : SF_vars(Progress(w))
    /\ \A m \in Message : WF_vars(VisibilityTimeout(m))
    /\ \A m \in Message : SF_vars(\E w \in Worker : Receive(w, m))

FairSpec == Spec /\ Fairness

-----------------------------------------------------------------------------
(* Properties                                                              *)

\* Every variable has its type; committed status PENDING, FAILED or SKIPPED is a
\* value of the column, which AllOrNothing shows is never reached.
TypeOK ==
    /\ queue \in [Message -> QueueState]
    /\ events \in [Event -> EventStatus]
    /\ procs \in [Event -> [Handler -> ProcStatus]]
    /\ rowLock \in [Event -> Worker \cup {None}]
    /\ pc \in [Worker -> Pc]
    /\ msg \in [Worker -> Message \cup {None}]
    /\ idx \in [Worker -> 1 .. NHandlers + 1]
    /\ errs \in [Worker -> BOOLEAN]
    /\ txn \in [Worker -> [Handler -> {"NONE", "PROCESSING", "COMPLETED"}]]
    /\ runs \in [Event -> [Handler -> Nat]]
    /\ faults \in 0 .. MaxFaults

Running(w, e, h) == pc[w] \in {"run", "finish"} /\ Ev(w) = e /\ idx[w] = h

\* Two deliveries never execute the same handler of the same event at the same time,
\* although a failing handler gives up the row lock in the middle of route's loop.
HandlerExclusion ==
    \A v, w \in Worker, e \in Event, h \in Handler :
        Running(v, e, h) /\ Running(w, e, h) => v = w

\* A message of a registered type leaves the queue only when every handler of its event
\* has run and its completion is committed: nothing is acknowledged and then lost.
AckedIsDone ==
    \A m \in Routable : queue[m] = "deleted" =>
        \A h \in Handler : procs[EventOf[m]][h] = "COMPLETED" /\ runs[EventOf[m]][h] > 0

\* The idempotency rows of an event are committed together and completed.  No committed
\* row is left in PROCESSING, which acquire would take for a conflict and so skip the
\* handler for good.
AllOrNothing ==
    \A e \in Event :
        \/ procs[e] = NoRows
        \/ \A h \in Handler : procs[e][h] = "COMPLETED"

\* A handler whose completion is committed does not run again, whatever is redelivered
\* and however deliveries interleave.
CompletedNeverReruns ==
    [][\A e \in Event, h \in Handler :
          procs[e][h] = "COMPLETED" => runs'[e][h] = runs[e][h]]_vars

\* Redelivery alone never repeats a handler: each extra execution is paid for by a
\* failed handler, a crash or a lost delete.
RerunsNeedFaults ==
    \A e \in Event, h \in Handler : runs[e][h] <= 1 + faults

\* Slot w is blocked in PostgreSQL by the open transaction of slot v.
WaitsFor(w, v) ==
    /\ w # v
    /\ \/ /\ pc[w] \in {"reject", "route", "markfailed"}
          /\ rowLock[Ev(w)] = v
       \/ /\ pc[w] = "claim"
          /\ pc[v] # "idle"
          /\ Ev(v) = Ev(w)
          /\ txn[v][idx[w]] # "NONE"

\* The two kinds of database wait never close a cycle: deliveries of one event that
\* hold index keys and deliveries that hold the row lock cannot deadlock.
NoWaitCycle ==
    \A S \in (SUBSET Worker) \ {{}} :
        \E w \in S : \A v \in S : ~WaitsFor(w, v)

\* Once faults have stopped, every message that can be routed is processed and deleted.
EventuallyAcked ==
    \A m \in Routable \cup Unknown : <>(queue[m] = "deleted")

\* The pipeline implements the ledger: an event is done when all its rows are committed
\* as completed.
Ledger == INSTANCE EventLedger WITH
    Message <- Routable,
    done <- {e \in Event : \A h \in Handler : procs[e][h] = "COMPLETED"},
    acked <- {m \in Routable : queue[m] = "deleted"}

\* Every step of the pipeline is a step of the ledger or none: handlers take effect only
\* while the event is not done, the event becomes done in one step after all of them
\* took effect, and only then are its messages deleted.
ImplementsLedger == Ledger!Spec

\* idempotency.py:4, "an event is processed at most once per handler, even if SQS
\* delivers the message multiple times".
AtMostOncePerHandler ==
    \A e \in Event, h \in Handler : runs[e][h] <= 1
=============================================================================
