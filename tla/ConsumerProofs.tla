--------------------------- MODULE ConsumerProofs ---------------------------
(***************************************************************************)
(* The safety properties of Consumer for every number of processes and     *)
(* messages and every size of batches and of the semaphore.                *)
(***************************************************************************)
EXTENDS Consumer, TLAPS

-----------------------------------------------------------------------------
(* The inductive invariant.                                                *)

\* A task that deletes, or a deletion without one, belongs to a committed message.
DoneOK ==
    /\ DeletedIsDone
    /\ \A p \in Process, m \in Message : task[p][m] \in {"committed", "deleting"} => m \in done
    /\ deletes \subseteq done

\* Tasks exist while a batch is handled, and while a stop waits for cancelled ones.
LoopOK ==
    /\ \A p \in Process : loop[p] \notin {"handling", "stopping"} => task[p] = NoTasks
    /\ \A p \in Process, m \in Message : loop[p] = "stopping" => task[p][m] \in {"none", "cut"}

IInv == TypeOK /\ DoneOK /\ LoopOK

\* Every step keeps the types.
LEMMA TypeNext ==
  ASSUME TypeOK, [Next]_vars
  PROVE  TypeOK'
  <1> USE DEF Enter, Turn, Err, Hide, Remove, NoTasks, TypeOK, TaskState, Cancelled
  <1>1. ASSUME NEW m \in Message, VisibilityTimeout(m) PROVE TypeOK'
    BY <1>1 DEF VisibilityTimeout
  <1>2. ASSUME NEW m \in Message, DeleteForNobody(m) PROVE TypeOK'
    BY <1>2 DEF DeleteForNobody
  <1>3. ASSUME NEW p \in Process, NEW B \in Batches, Receive(p, B) PROVE TypeOK'
    BY <1>3 DEF Receive
  <1>4. ASSUME NEW p \in Process, NEW m \in Message, Acquire(p, m) PROVE TypeOK'
    BY <1>4 DEF Acquire
  <1>5. ASSUME NEW p \in Process, NEW m \in Message, Commit(p, m) PROVE TypeOK'
    BY <1>5 DEF Commit
  <1>6. ASSUME NEW p \in Process, NEW m \in Message, BeginDelete(p, m) PROVE TypeOK'
    BY <1>6 DEF BeginDelete
  <1>7. ASSUME NEW p \in Process, NEW m \in Message, DeleteMessage(p, m) PROVE TypeOK'
    BY <1>7 DEF DeleteMessage
  <1>8. ASSUME NEW p \in Process, NEW m \in Message, Unwind(p, m) PROVE TypeOK'
    BY <1>8 DEF Unwind
  <1>9. ASSUME NEW p \in Process, NEW m \in Message, FailDelivery(p, m) PROVE TypeOK'
    BY <1>9, BoundsAssumption DEF FailDelivery
  <1>10. ASSUME NEW p \in Process, NEW m \in Message, DeleteError(p, m) PROVE TypeOK'
    BY <1>10, BoundsAssumption DEF DeleteError
  <1>11. ASSUME NEW p \in Process, Start(p) PROVE TypeOK'
    BY <1>11 DEF Start
  <1>12. ASSUME NEW p \in Process, EndBatch(p) PROVE TypeOK'
    BY <1>12 DEF EndBatch
  <1>13. ASSUME NEW p \in Process, Stopped(p) PROVE TypeOK'
    BY <1>13 DEF Stopped
  <1>14. ASSUME NEW p \in Process, Close(p) PROVE TypeOK'
    BY <1>14 DEF Close
  <1>15. ASSUME NEW p \in Process, Stop(p) PROVE TypeOK'
    BY <1>15, BoundsAssumption DEF Stop
  <1>16. ASSUME NEW p \in Process, Die(p) PROVE TypeOK'
    BY <1>16, BoundsAssumption DEF Die
  <1>17. ASSUME NEW p \in Process, ReceiveError(p) PROVE TypeOK'
    BY <1>17, BoundsAssumption DEF ReceiveError
  <1>18. ASSUME NEW p \in Process, ReceiveForNobody(p) PROVE TypeOK'
    BY <1>18 DEF ReceiveForNobody
  <1>19. CASE UNCHANGED vars
    BY <1>19 DEF vars
  <1> QED
    BY <1>1, <1>2, <1>3, <1>4, <1>5, <1>6, <1>7, <1>8, <1>9, <1>10, <1>11, <1>12, <1>13,
       <1>14, <1>15, <1>16, <1>17, <1>18, <1>19
       DEF Next, Work, Fail, Live

\* Every step keeps the deletions in order.
LEMMA DoneNext ==
  ASSUME TypeOK, DoneOK, [Next]_vars
  PROVE  DoneOK'
  <1> USE DEF Enter, Turn, Err, Hide, Remove, NoTasks, TypeOK, DoneOK, DeletedIsDone, Cancelled
  <1>1. ASSUME NEW m \in Message, VisibilityTimeout(m) PROVE DoneOK'
    BY <1>1 DEF VisibilityTimeout
  <1>2. ASSUME NEW m \in Message, DeleteForNobody(m) PROVE DoneOK'
    BY <1>2 DEF DeleteForNobody
  <1>3. ASSUME NEW p \in Process, NEW B \in Batches, Receive(p, B) PROVE DoneOK'
    BY <1>3 DEF Receive
  <1>4. ASSUME NEW p \in Process, NEW m \in Message, Acquire(p, m) PROVE DoneOK'
    BY <1>4 DEF Acquire
  <1>5. ASSUME NEW p \in Process, NEW m \in Message, Commit(p, m) PROVE DoneOK'
    BY <1>5 DEF Commit
  <1>6. ASSUME NEW p \in Process, NEW m \in Message, BeginDelete(p, m) PROVE DoneOK'
    BY <1>6 DEF BeginDelete
  <1>7. ASSUME NEW p \in Process, NEW m \in Message, DeleteMessage(p, m) PROVE DoneOK'
    BY <1>7 DEF DeleteMessage
  <1>8. ASSUME NEW p \in Process, NEW m \in Message, Unwind(p, m) PROVE DoneOK'
    BY <1>8 DEF Unwind
  <1>9. ASSUME NEW p \in Process, NEW m \in Message, FailDelivery(p, m) PROVE DoneOK'
    BY <1>9 DEF FailDelivery
  <1>10. ASSUME NEW p \in Process, NEW m \in Message, DeleteError(p, m) PROVE DoneOK'
    BY <1>10 DEF DeleteError
  <1>11. ASSUME NEW p \in Process, Start(p) PROVE DoneOK'
    BY <1>11 DEF Start
  <1>12. ASSUME NEW p \in Process, EndBatch(p) PROVE DoneOK'
    BY <1>12 DEF EndBatch
  <1>13. ASSUME NEW p \in Process, Stopped(p) PROVE DoneOK'
    BY <1>13 DEF Stopped
  <1>14. ASSUME NEW p \in Process, Close(p) PROVE DoneOK'
    BY <1>14 DEF Close
  <1>15. ASSUME NEW p \in Process, Stop(p) PROVE DoneOK'
    BY <1>15 DEF Stop
  <1>16. ASSUME NEW p \in Process, Die(p) PROVE DoneOK'
    BY <1>16 DEF Die
  <1>17. ASSUME NEW p \in Process, ReceiveError(p) PROVE DoneOK'
    BY <1>17 DEF ReceiveError
  <1>18. ASSUME NEW p \in Process, ReceiveForNobody(p) PROVE DoneOK'
    BY <1>18 DEF ReceiveForNobody
  <1>19. CASE UNCHANGED vars
    BY <1>19 DEF vars
  <1> QED
    BY <1>1, <1>2, <1>3, <1>4, <1>5, <1>6, <1>7, <1>8, <1>9, <1>10, <1>11, <1>12, <1>13,
       <1>14, <1>15, <1>16, <1>17, <1>18, <1>19
       DEF Next, Work, Fail, Live

\* Every step keeps the tasks within the batch.
LEMMA LoopNext ==
  ASSUME TypeOK, LoopOK, [Next]_vars
  PROVE  LoopOK'
  <1> USE DEF Enter, Turn, Err, Hide, Remove, NoTasks, TypeOK, TaskState, LoopOK, Cancelled,
          InSession
  <1>1. ASSUME NEW m \in Message, VisibilityTimeout(m) PROVE LoopOK'
    BY <1>1 DEF VisibilityTimeout
  <1>2. ASSUME NEW m \in Message, DeleteForNobody(m) PROVE LoopOK'
    BY <1>2 DEF DeleteForNobody
  <1>3. ASSUME NEW p \in Process, NEW B \in Batches, Receive(p, B) PROVE LoopOK'
    BY <1>3 DEF Receive
  <1>4. ASSUME NEW p \in Process, NEW m \in Message, Acquire(p, m) PROVE LoopOK'
    BY <1>4 DEF Acquire
  <1>5. ASSUME NEW p \in Process, NEW m \in Message, Commit(p, m) PROVE LoopOK'
    BY <1>5 DEF Commit
  <1>6. ASSUME NEW p \in Process, NEW m \in Message, BeginDelete(p, m) PROVE LoopOK'
    BY <1>6 DEF BeginDelete
  <1>7. ASSUME NEW p \in Process, NEW m \in Message, DeleteMessage(p, m) PROVE LoopOK'
    BY <1>7 DEF DeleteMessage
  <1>8. ASSUME NEW p \in Process, NEW m \in Message, Unwind(p, m) PROVE LoopOK'
    BY <1>8 DEF Unwind
  <1>9. ASSUME NEW p \in Process, NEW m \in Message, FailDelivery(p, m) PROVE LoopOK'
    BY <1>9 DEF FailDelivery
  <1>10. ASSUME NEW p \in Process, NEW m \in Message, DeleteError(p, m) PROVE LoopOK'
    BY <1>10 DEF DeleteError
  <1>11. ASSUME NEW p \in Process, Start(p) PROVE LoopOK'
    BY <1>11 DEF Start
  <1>12. ASSUME NEW p \in Process, EndBatch(p) PROVE LoopOK'
    BY <1>12 DEF EndBatch
  <1>13. ASSUME NEW p \in Process, Stopped(p) PROVE LoopOK'
    BY <1>13 DEF Stopped
  <1>14. ASSUME NEW p \in Process, Close(p) PROVE LoopOK'
    BY <1>14 DEF Close
  <1>15. ASSUME NEW p \in Process, Stop(p) PROVE LoopOK'
    BY <1>15 DEF Stop
  <1>16. ASSUME NEW p \in Process, Die(p) PROVE LoopOK'
    BY <1>16 DEF Die
  <1>17. ASSUME NEW p \in Process, ReceiveError(p) PROVE LoopOK'
    BY <1>17 DEF ReceiveError
  <1>18. ASSUME NEW p \in Process, ReceiveForNobody(p) PROVE LoopOK'
    BY <1>18 DEF ReceiveForNobody
  <1>19. CASE UNCHANGED vars
    BY <1>19 DEF vars
  <1> QED
    BY <1>1, <1>2, <1>3, <1>4, <1>5, <1>6, <1>7, <1>8, <1>9, <1>10, <1>11, <1>12, <1>13,
       <1>14, <1>15, <1>16, <1>17, <1>18, <1>19
       DEF Next, Work, Fail, Live

\* The step of NoOverlap.
TakenOnce ==
    \A p \in Process, m \in Message : task[p][m] # "none" /\ task'[p][m] = "waiting" =>
        task[p][m] = "waiting" /\ loop'[p] = loop[p]

\* A process that has tasks takes up no others.
LEMMA BatchNext ==
  ASSUME TypeOK, LoopOK, [Next]_vars
  PROVE  TakenOnce
  <1> USE DEF Enter, Turn, Err, Hide, Remove, NoTasks, TypeOK, LoopOK, Cancelled, TakenOnce
  <1>1. ASSUME NEW m \in Message, VisibilityTimeout(m) PROVE TakenOnce
    BY <1>1 DEF VisibilityTimeout
  <1>2. ASSUME NEW m \in Message, DeleteForNobody(m) PROVE TakenOnce
    BY <1>2 DEF DeleteForNobody
  <1>3. ASSUME NEW p \in Process, NEW B \in Batches, Receive(p, B) PROVE TakenOnce
    BY <1>3 DEF Receive
  <1>4. ASSUME NEW p \in Process, NEW m \in Message, Acquire(p, m) PROVE TakenOnce
    BY <1>4 DEF Acquire
  <1>5. ASSUME NEW p \in Process, NEW m \in Message, Commit(p, m) PROVE TakenOnce
    BY <1>5 DEF Commit
  <1>6. ASSUME NEW p \in Process, NEW m \in Message, BeginDelete(p, m) PROVE TakenOnce
    BY <1>6 DEF BeginDelete
  <1>7. ASSUME NEW p \in Process, NEW m \in Message, DeleteMessage(p, m) PROVE TakenOnce
    BY <1>7 DEF DeleteMessage
  <1>8. ASSUME NEW p \in Process, NEW m \in Message, Unwind(p, m) PROVE TakenOnce
    BY <1>8 DEF Unwind
  <1>9. ASSUME NEW p \in Process, NEW m \in Message, FailDelivery(p, m) PROVE TakenOnce
    BY <1>9 DEF FailDelivery
  <1>10. ASSUME NEW p \in Process, NEW m \in Message, DeleteError(p, m) PROVE TakenOnce
    BY <1>10 DEF DeleteError
  <1>11. ASSUME NEW p \in Process, Start(p) PROVE TakenOnce
    BY <1>11 DEF Start
  <1>12. ASSUME NEW p \in Process, EndBatch(p) PROVE TakenOnce
    BY <1>12 DEF EndBatch
  <1>13. ASSUME NEW p \in Process, Stopped(p) PROVE TakenOnce
    BY <1>13 DEF Stopped
  <1>14. ASSUME NEW p \in Process, Close(p) PROVE TakenOnce
    BY <1>14 DEF Close
  <1>15. ASSUME NEW p \in Process, Stop(p) PROVE TakenOnce
    BY <1>15 DEF Stop
  <1>16. ASSUME NEW p \in Process, Die(p) PROVE TakenOnce
    BY <1>16 DEF Die
  <1>17. ASSUME NEW p \in Process, ReceiveError(p) PROVE TakenOnce
    BY <1>17 DEF ReceiveError
  <1>18. ASSUME NEW p \in Process, ReceiveForNobody(p) PROVE TakenOnce
    BY <1>18 DEF ReceiveForNobody
  <1>19. CASE UNCHANGED vars
    BY <1>19 DEF vars
  <1> QED
    BY <1>1, <1>2, <1>3, <1>4, <1>5, <1>6, <1>7, <1>8, <1>9, <1>10, <1>11, <1>12, <1>13,
       <1>14, <1>15, <1>16, <1>17, <1>18, <1>19
       DEF Next, Work, Fail, Live

-----------------------------------------------------------------------------
(* The theorems.                                                           *)

\* The invariant holds at the start and is kept.
LEMMA Invariance == Spec => []IInv
  <1>1. Init => IInv
    BY BoundsAssumption DEF Init, IInv, TypeOK, DoneOK, LoopOK, DeletedIsDone, NoTasks, TaskState
  <1>2. IInv /\ [Next]_vars => IInv'
    BY TypeNext, DoneNext, LoopNext DEF IInv
  <1> QED
    BY <1>1, <1>2, PTL DEF Spec

\* Every variable keeps its type.
THEOREM TypeCorrect == Spec => []TypeOK
  <1>1. IInv => TypeOK
    BY DEF IInv
  <1> QED
    BY <1>1, Invariance, PTL

\* No message is deleted before its processing is committed, wherever a shutdown cuts.
THEOREM DeletedAfterCommit == Spec => []DeletedIsDone
  <1>1. IInv => DeletedIsDone
    BY DEF IInv, DoneOK
  <1> QED
    BY <1>1, Invariance, PTL

\* The lifespan closes the database when no delivery works with it any more.
THEOREM CleanClose == Spec => []NothingAfterClose
  <1>1. IInv => NothingAfterClose
    BY DEF IInv, LoopOK, NothingAfterClose, NoTasks, InSession
  <1> QED
    BY <1>1, Invariance, PTL

\* A process is never at work twice on one message.
THEOREM OneTaskPerMessage == Spec => NoOverlap
  <1>1. IInv /\ [Next]_vars => [TakenOnce]_vars
    BY BatchNext DEF IInv
  <1>2. [][TakenOnce]_vars => NoOverlap
    BY PTL DEF TakenOnce, NoOverlap
  <1> QED
    BY <1>1, <1>2, Invariance, PTL DEF Spec

=============================================================================
