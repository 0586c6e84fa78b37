------------------------ MODULE EventPipelineProofs ------------------------
(***************************************************************************)
(* Proofs about EventPipeline for every number of slots, messages, events, *)
(* handlers and faults.  The safety properties are not inductive as they   *)
(* stand; the inductive invariant IInv adds what each slot's position in   *)
(* the code says about its transaction, its locks and the committed rows.  *)
(***************************************************************************)
EXTENDS EventPipeline, Counting

Busy(w) == pc[w] # "idle"

\* A busy slot has a message, an idle one has none.  Inside the router the message is
\* routable and, at the guard or in a handler, idx is the position of a handler.
SlotOK ==
    \A w \in Worker :
        /\ Busy(w) <=> msg[w] \in Message
        /\ pc[w] \in RoutingPc \cup {"markfailed"} => msg[w] \in Routable
        /\ pc[w] \in {"claim", "run", "finish"} => idx[w] \in Handler
        /\ pc[w] \in {"parse", "insert", "route"} => idx[w] = 1 /\ ~errs[w]
        /\ pc[w] = "idle" => idx[w] = 1 /\ ~errs[w]

\* A transaction has rows only inside the router, and a row it has not completed is the
\* row of the handler being executed.
OverlayOK ==
    \A w \in Worker :
        /\ pc[w] \notin RoutingPc => txn[w] = NoRows
        /\ pc[w] \in {"run", "finish"} => txn[w][idx[w]] = "PROCESSING"
        /\ \A h \in Handler : txn[w][h] = "PROCESSING" =>
               pc[w] \in {"run", "finish"} /\ h = idx[w]

\* A delivery that has not failed yet holds the row lock of its event.
LockOK ==
    \A w \in Worker :
        pc[w] \in RoutingPc /\ ~errs[w] => rowLock[Ev(w)] = w

\* The unique index: the key of an uncommitted row belongs to one transaction, and no
\* committed row has it.
IndexOK ==
    /\ \A v, w \in Worker, h \in Handler :
           /\ v # w /\ Busy(v) /\ Busy(w) /\ Ev(v) = Ev(w)
           /\ txn[v][h] # "NONE"
           => txn[w][h] = "NONE"
    /\ \A w \in Worker, h \in Handler :
           Busy(w) /\ txn[w][h] # "NONE" => procs[Ev(w)][h] = "NONE"

\* In a delivery without errors, every handler passed is completed for its session.
ProgressOK ==
    \A w \in Worker : pc[w] \in RoutingPc /\ ~errs[w] =>
        \A h \in Handler : h < idx[w] => Seen(w, h) = "COMPLETED"

\* A completed row, committed or not, stands for an execution.
RunsOK ==
    /\ \A w \in Worker, h \in Handler :
           Busy(w) /\ txn[w][h] = "COMPLETED" => runs[Ev(w)][h] > 0
    /\ \A w \in Worker : pc[w] = "finish" => runs[Ev(w)][idx[w]] > 0
    /\ \A e \in Event, h \in Handler : procs[e][h] = "COMPLETED" => runs[e][h] > 0

\* A slot about to delete a routable message has committed its event.
DeleteOK ==
    \A w \in Worker : pc[w] = "delete" /\ msg[w] \in Routable =>
        \A h \in Handler : procs[Ev(w)][h] = "COMPLETED"

\* Types together with what they need of the program counters.
TypeInv == TypeOK /\ SlotOK

\* The inductive invariant.
IInv ==
    /\ TypeInv /\ OverlayOK /\ LockOK /\ IndexOK /\ ProgressOK /\ AllOrNothing
    /\ RunsOK /\ DeleteOK /\ AckedIsDone

-----------------------------------------------------------------------------
(* Types and program counters.                                             *)

\* The empty queue slots and tables have their types.
LEMMA TypeInit == Init => TypeInv
  BY NoneAssumption, NHandlersAssumption, MaxFaultsAssumption
  DEF Init, TypeInv, TypeOK, SlotOK, Busy, QueueState, EventStatus, ProcStatus, Pc,
      RoutingPc, NoRows, Handler

\* Every step of queue, slot and router keeps the types.
LEMMA TypeStep == TypeInv /\ [Next]_vars => TypeInv'
  <1> SUFFICES ASSUME TypeInv, [Next]_vars PROVE TypeInv'
    OBVIOUS
  <1> USE EventOfAssumption, KindAssumption, NHandlersAssumption, MaxFaultsAssumption,
          NoneAssumption
      DEF TypeInv, TypeOK, SlotOK, Busy, Ev, Handler, QueueState, EventStatus, ProcStatus,
          Pc, RoutingPc, Goto, EndDelivery, AbortDelivery, FreeLocks, DropOverlay, NoRows
  <1>1. ASSUME NEW w \in Worker, NEW m \in Message, Receive(w, m) PROVE TypeInv'
    BY <1>1 DEF Receive
  <1>2. ASSUME NEW m \in Message, VisibilityTimeout(m) PROVE TypeInv'
    BY <1>2 DEF VisibilityTimeout
  <1>3. ASSUME NEW w \in Worker, Reject(w) PROVE TypeInv'
    BY <1>3 DEF Reject
  <1>4. ASSUME NEW w \in Worker, LookupEvent(w) PROVE TypeInv'
    <2>1. PICK l \in {"insert", "reject", "route"} :
              /\ pc' = [pc EXCEPT ![w] = l]
              /\ l = "route" => msg[w] \notin Rejected
      BY <1>4 DEF LookupEvent
    <2>2. UNCHANGED <<queue, events, procs, rowLock, msg, idx, errs, txn, runs, faults>>
      BY <1>4 DEF LookupEvent
    <2>3. pc[w] = "parse"
      BY <1>4 DEF LookupEvent
    <2> QED
      BY <2>1, <2>2, <2>3
  <1>5. ASSUME NEW w \in Worker, InsertEvent(w) PROVE TypeInv'
    BY <1>5 DEF InsertEvent
  <1>6. ASSUME NEW w \in Worker, InsertEventConflict(w) PROVE TypeInv'
    BY <1>6 DEF InsertEventConflict
  <1>7. ASSUME NEW w \in Worker, AcceptUnknown(w) PROVE TypeInv'
    BY <1>7 DEF AcceptUnknown
  <1>8. ASSUME NEW w \in Worker, BeginRouting(w) PROVE TypeInv'
    BY <1>8 DEF BeginRouting
  <1>9. ASSUME NEW w \in Worker, SkipHandler(w) PROVE TypeInv'
    BY <1>9 DEF SkipHandler, Conflicting
  <1>10. ASSUME NEW w \in Worker, SelectHandler(w) PROVE TypeInv'
    BY <1>10 DEF SelectHandler, Conflicting
  <1>11. ASSUME NEW w \in Worker, ClaimHandler(w) PROVE TypeInv'
    BY <1>11 DEF ClaimHandler
  <1>12. ASSUME NEW w \in Worker, ClaimConflict(w) PROVE TypeInv'
    BY <1>12 DEF ClaimConflict
  <1>13. ASSUME NEW w \in Worker, RunHandler(w) PROVE TypeInv'
    BY <1>13 DEF RunHandler
  <1>14. ASSUME NEW w \in Worker, CompleteHandler(w) PROVE TypeInv'
    BY <1>14 DEF CompleteHandler
  <1>15. ASSUME NEW w \in Worker, FailHandler(w) PROVE TypeInv'
    BY <1>15 DEF FailHandler
  <1>16. ASSUME NEW w \in Worker, CommitProcessed(w) PROVE TypeInv'
    BY <1>16 DEF CommitProcessed, Seen
  <1>17. ASSUME NEW w \in Worker, DiscardErrors(w) PROVE TypeInv'
    BY <1>17 DEF DiscardErrors
  <1>18. ASSUME NEW w \in Worker, MarkFailed(w) PROVE TypeInv'
    BY <1>18 DEF MarkFailed
  <1>19. ASSUME NEW w \in Worker, DeleteMessage(w) PROVE TypeInv'
    BY <1>19 DEF DeleteMessage
  <1>20. ASSUME NEW w \in Worker, DeleteLost(w) PROVE TypeInv'
    BY <1>20 DEF DeleteLost
  <1>21. ASSUME NEW w \in Worker, Crash(w) PROVE TypeInv'
    BY <1>21 DEF Crash
  <1>22. CASE UNCHANGED vars
    BY <1>22 DEF vars
  <1> QED
    BY <1>1, <1>2, <1>3, <1>4, <1>5, <1>6, <1>7, <1>8, <1>9, <1>10, <1>11, <1>12,
       <1>13, <1>14, <1>15, <1>16, <1>17, <1>18, <1>19, <1>20, <1>21, <1>22
    DEF Next, Progress, Intake, Routing, Fault

-----------------------------------------------------------------------------
(* Transactions, locks and committed rows.                                 *)

\* Rows are written inside the router only, one unfinished row at a time.
LEMMA OverlayStep == TypeInv /\ OverlayOK /\ [Next]_vars => OverlayOK'
  <1> SUFFICES ASSUME TypeInv, OverlayOK, [Next]_vars PROVE OverlayOK'
    OBVIOUS
  <1> USE EventOfAssumption, KindAssumption, NHandlersAssumption, NoneAssumption
      DEF TypeInv, TypeOK, SlotOK, Busy, Ev, Handler, RoutingPc, NoRows, Goto,
          EndDelivery, AbortDelivery, FreeLocks, DropOverlay, Seen, OverlayOK
  <1>1. ASSUME NEW w \in Worker, NEW m \in Message, Receive(w, m) PROVE OverlayOK'
    BY <1>1 DEF Receive
  <1>2. ASSUME NEW m \in Message, VisibilityTimeout(m) PROVE OverlayOK'
    BY <1>2 DEF VisibilityTimeout
  <1>3. ASSUME NEW w \in Worker, Reject(w) PROVE OverlayOK'
    BY <1>3 DEF Reject
  <1>4. ASSUME NEW w \in Worker, LookupEvent(w) PROVE OverlayOK'
    BY <1>4 DEF LookupEvent
  <1>5. ASSUME NEW w \in Worker, InsertEvent(w) PROVE OverlayOK'
    BY <1>5 DEF InsertEvent
  <1>6. ASSUME NEW w \in Worker, InsertEventConflict(w) PROVE OverlayOK'
    BY <1>6 DEF InsertEventConflict
  <1>7. ASSUME NEW w \in Worker, AcceptUnknown(w) PROVE OverlayOK'
    BY <1>7 DEF AcceptUnknown
  <1>8. ASSUME NEW w \in Worker, BeginRouting(w) PROVE OverlayOK'
    BY <1>8 DEF BeginRouting
  <1>9. ASSUME NEW w \in Worker, SkipHandler(w) PROVE OverlayOK'
    BY <1>9 DEF SkipHandler
  <1>10. ASSUME NEW w \in Worker, SelectHandler(w) PROVE OverlayOK'
    BY <1>10 DEF SelectHandler
  <1>11. ASSUME NEW w \in Worker, ClaimHandler(w) PROVE OverlayOK'
    BY <1>11 DEF ClaimHandler
  <1>12. ASSUME NEW w \in Worker, ClaimConflict(w) PROVE OverlayOK'
    BY <1>12 DEF ClaimConflict
  <1>13. ASSUME NEW w \in Worker, RunHandler(w) PROVE OverlayOK'
    BY <1>13 DEF RunHandler
  <1>14. ASSUME NEW w \in Worker, CompleteHandler(w) PROVE OverlayOK'
    BY <1>14 DEF CompleteHandler
  <1>15. ASSUME NEW w \in Worker, FailHandler(w) PROVE OverlayOK'
    BY <1>15 DEF FailHandler
  <1>16. ASSUME NEW w \in Worker, CommitProcessed(w) PROVE OverlayOK'
    BY <1>16 DEF CommitProcessed
  <1>17. ASSUME NEW w \in Worker, DiscardErrors(w) PROVE OverlayOK'
    BY <1>17 DEF DiscardErrors
  <1>18. ASSUME NEW w \in Worker, MarkFailed(w) PROVE OverlayOK'
    BY <1>18 DEF MarkFailed
  <1>19. ASSUME NEW w \in Worker, DeleteMessage(w) PROVE OverlayOK'
    BY <1>19 DEF DeleteMessage
  <1>20. ASSUME NEW w \in Worker, DeleteLost(w) PROVE OverlayOK'
    BY <1>20 DEF DeleteLost
  <1>21. ASSUME NEW w \in Worker, Crash(w) PROVE OverlayOK'
    BY <1>21 DEF Crash
  <1>22. CASE UNCHANGED vars
    BY <1>22 DEF vars
  <1> QED
    BY <1>1, <1>2, <1>3, <1>4, <1>5, <1>6, <1>7, <1>8, <1>9, <1>10, <1>11,
       <1>12, <1>13, <1>14, <1>15, <1>16, <1>17, <1>18, <1>19, <1>20, <1>21,
       <1>22
    DEF Next, Progress, Intake, Routing, Fault

\* Only the holder releases the row lock, and it then has an error or leaves the router.
LEMMA LockStep == TypeInv /\ LockOK /\ [Next]_vars => LockOK'
  <1> SUFFICES ASSUME TypeInv, LockOK, [Next]_vars PROVE LockOK'
    OBVIOUS
  <1> USE EventOfAssumption, KindAssumption, NHandlersAssumption, NoneAssumption
      DEF TypeInv, TypeOK, SlotOK, Busy, Ev, Handler, RoutingPc, NoRows, Goto,
          EndDelivery, AbortDelivery, FreeLocks, DropOverlay, Seen, LockOK
  <1>1. ASSUME NEW w \in Worker, NEW m \in Message, Receive(w, m) PROVE LockOK'
    BY <1>1 DEF Receive
  <1>2. ASSUME NEW m \in Message, VisibilityTimeout(m) PROVE LockOK'
    BY <1>2 DEF VisibilityTimeout
  <1>3. ASSUME NEW w \in Worker, Reject(w) PROVE LockOK'
    BY <1>3 DEF Reject
  <1>4. ASSUME NEW w \in Worker, LookupEvent(w) PROVE LockOK'
    BY <1>4 DEF LookupEvent
  <1>5. ASSUME NEW w \in Worker, InsertEvent(w) PROVE LockOK'
    BY <1>5 DEF InsertEvent
  <1>6. ASSUME NEW w \in Worker, InsertEventConflict(w) PROVE LockOK'
    BY <1>6 DEF InsertEventConflict
  <1>7. ASSUME NEW w \in Worker, AcceptUnknown(w) PROVE LockOK'
    BY <1>7 DEF AcceptUnknown
  <1>8. ASSUME NEW w \in Worker, BeginRouting(w) PROVE LockOK'
    BY <1>8 DEF BeginRouting
  <1>9. ASSUME NEW w \in Worker, SkipHandler(w) PROVE LockOK'
    BY <1>9 DEF SkipHandler
  <1>10. ASSUME NEW w \in Worker, SelectHandler(w) PROVE LockOK'
    BY <1>10 DEF SelectHandler
  <1>11. ASSUME NEW w \in Worker, ClaimHandler(w) PROVE LockOK'
    BY <1>11 DEF ClaimHandler
  <1>12. ASSUME NEW w \in Worker, ClaimConflict(w) PROVE LockOK'
    BY <1>12 DEF ClaimConflict
  <1>13. ASSUME NEW w \in Worker, RunHandler(w) PROVE LockOK'
    BY <1>13 DEF RunHandler
  <1>14. ASSUME NEW w \in Worker, CompleteHandler(w) PROVE LockOK'
    BY <1>14 DEF CompleteHandler
  <1>15. ASSUME NEW w \in Worker, FailHandler(w) PROVE LockOK'
    BY <1>15 DEF FailHandler
  <1>16. ASSUME NEW w \in Worker, CommitProcessed(w) PROVE LockOK'
    BY <1>16 DEF CommitProcessed
  <1>17. ASSUME NEW w \in Worker, DiscardErrors(w) PROVE LockOK'
    BY <1>17 DEF DiscardErrors
  <1>18. ASSUME NEW w \in Worker, MarkFailed(w) PROVE LockOK'
    BY <1>18 DEF MarkFailed
  <1>19. ASSUME NEW w \in Worker, DeleteMessage(w) PROVE LockOK'
    BY <1>19 DEF DeleteMessage
  <1>20. ASSUME NEW w \in Worker, DeleteLost(w) PROVE LockOK'
    BY <1>20 DEF DeleteLost
  <1>21. ASSUME NEW w \in Worker, Crash(w) PROVE LockOK'
    BY <1>21 DEF Crash
  <1>22. CASE UNCHANGED vars
    BY <1>22 DEF vars
  <1> QED
    BY <1>1, <1>2, <1>3, <1>4, <1>5, <1>6, <1>7, <1>8, <1>9, <1>10, <1>11,
       <1>12, <1>13, <1>14, <1>15, <1>16, <1>17, <1>18, <1>19, <1>20, <1>21,
       <1>22
    DEF Next, Progress, Intake, Routing, Fault

\* The unique index keeps uncommitted keys apart from each other and from committed
\* rows.
LEMMA IndexStep == TypeInv /\ OverlayOK /\ LockOK /\ IndexOK /\ [Next]_vars => IndexOK'
  <1> SUFFICES ASSUME TypeInv, OverlayOK, LockOK, IndexOK, [Next]_vars PROVE IndexOK'
    OBVIOUS
  <1> USE EventOfAssumption, KindAssumption, NHandlersAssumption, NoneAssumption
      DEF TypeInv, TypeOK, SlotOK, Busy, Ev, Handler, RoutingPc, NoRows, Goto,
          EndDelivery, AbortDelivery, FreeLocks, DropOverlay, Seen, OverlayOK,
          LockOK, IndexOK, HeldByOther
  <1>1. ASSUME NEW w \in Worker, NEW m \in Message, Receive(w, m) PROVE IndexOK'
    BY <1>1, SMTT(30) DEF Receive
  <1>2. ASSUME NEW m \in Message, VisibilityTimeout(m) PROVE IndexOK'
    BY <1>2 DEF VisibilityTimeout
  <1>3. ASSUME NEW w \in Worker, Reject(w) PROVE IndexOK'
    BY <1>3 DEF Reject
  <1>4. ASSUME NEW w \in Worker, LookupEvent(w) PROVE IndexOK'
    BY <1>4 DEF LookupEvent
  <1>5. ASSUME NEW w \in Worker, InsertEvent(w) PROVE IndexOK'
    <2>1. /\ pc[w] = "insert" /\ pc' = [pc EXCEPT ![w] = "route"]
          /\ UNCHANGED <<procs, rowLock, msg, idx, errs, txn>>
      BY <1>5 DEF InsertEvent
    <2> QED
      BY <2>1
  <1>6. ASSUME NEW w \in Worker, InsertEventConflict(w) PROVE IndexOK'
    BY <1>6 DEF InsertEventConflict
  <1>7. ASSUME NEW w \in Worker, AcceptUnknown(w) PROVE IndexOK'
    BY <1>7 DEF AcceptUnknown
  <1>8. ASSUME NEW w \in Worker, BeginRouting(w) PROVE IndexOK'
    BY <1>8 DEF BeginRouting
  <1>9. ASSUME NEW w \in Worker, SkipHandler(w) PROVE IndexOK'
    BY <1>9 DEF SkipHandler
  <1>10. ASSUME NEW w \in Worker, SelectHandler(w) PROVE IndexOK'
    BY <1>10 DEF SelectHandler
  <1>11. ASSUME NEW w \in Worker, ClaimHandler(w) PROVE IndexOK'
    <2>1. /\ \A u \in Worker : Ev(u)' = Ev(u) /\ (Busy(u)' <=> Busy(u))
          /\ \A u \in Worker \ {w} : txn'[u] = txn[u]
          /\ \A h \in Handler : h # idx[w] => txn'[w][h] = txn[w][h]
          /\ procs' = procs
      BY <1>11 DEF ClaimHandler
    <2>2. /\ idx[w] \in Handler /\ Busy(w)
          /\ procs[Ev(w)][idx[w]] = "NONE"
          /\ \A u \in Worker \ {w} : Busy(u) /\ Ev(u) = Ev(w) => txn[u][idx[w]] = "NONE"
      BY <1>11 DEF ClaimHandler, HeldByOther
    <2> HIDE DEF TypeOK, SlotOK, OverlayOK, LockOK, Busy, Ev, Handler
    <2>3. ASSUME NEW u \in Worker, NEW v \in Worker, NEW h \in Handler, u # v,
                 Busy(u)', Busy(v)', (Ev(u) = Ev(v))', txn'[u][h] # "NONE"
          PROVE  txn'[v][h] = "NONE"
      <3>1. CASE u = w
        BY <2>1, <2>2, <2>3, <3>1
      <3>2. CASE v = w
        BY <2>1, <2>2, <2>3, <3>2
      <3>3. CASE u # w /\ v # w
        BY <2>1, <2>3, <3>3
      <3> QED
        BY <3>1, <3>2, <3>3
    <2>4. ASSUME NEW u \in Worker, NEW h \in Handler, Busy(u)', txn'[u][h] # "NONE"
          PROVE  (procs[Ev(u)][h] = "NONE")'
      <3>1. CASE u = w /\ h = idx[w]
        BY <2>1, <2>2, <3>1
      <3>2. CASE ~(u = w /\ h = idx[w])
        BY <2>1, <2>2, <2>4, <3>2
      <3> QED
        BY <3>1, <3>2
    <2> QED
      BY <2>3, <2>4
  <1>12. ASSUME NEW w \in Worker, ClaimConflict(w) PROVE IndexOK'
    BY <1>12 DEF ClaimConflict
  <1>13. ASSUME NEW w \in Worker, RunHandler(w) PROVE IndexOK'
    BY <1>13, SMTT(30) DEF RunHandler
  <1>14. ASSUME NEW w \in Worker, CompleteHandler(w) PROVE IndexOK'
    <2>1. /\ \A u \in Worker : Ev(u)' = Ev(u) /\ (Busy(u)' <=> Busy(u))
          /\ \A u \in Worker \ {w} : txn'[u] = txn[u]
          /\ \A h \in Handler : h # idx[w] => txn'[w][h] = txn[w][h]
          /\ procs' = procs
      BY <1>14 DEF CompleteHandler
    <2>2. /\ idx[w] \in Handler /\ Busy(w)
          /\ procs[Ev(w)][idx[w]] = "NONE"
          /\ \A u \in Worker \ {w} : Busy(u) /\ Ev(u) = Ev(w) => txn[u][idx[w]] = "NONE"
      BY <1>14 DEF CompleteHandler
    <2> HIDE DEF TypeOK, SlotOK, OverlayOK, LockOK, Busy, Ev, Handler
    <2>3. ASSUME NEW u \in Worker, NEW v \in Worker, NEW h \in Handler, u # v,
                 Busy(u)', Busy(v)', (Ev(u) = Ev(v))', txn'[u][h] # "NONE"
          PROVE  txn'[v][h] = "NONE"
      <3>1. CASE u = w
        BY <2>1, <2>2, <2>3, <3>1
      <3>2. CASE v = w
        BY <2>1, <2>2, <2>3, <3>2
      <3>3. CASE u # w /\ v # w
        BY <2>1, <2>3, <3>3
      <3> QED
        BY <3>1, <3>2, <3>3
    <2>4. ASSUME NEW u \in Worker, NEW h \in Handler, Busy(u)', txn'[u][h] # "NONE"
          PROVE  (procs[Ev(u)][h] = "NONE")'
      <3>1. CASE u = w /\ h = idx[w]
        BY <2>1, <2>2, <3>1
      <3>2. CASE ~(u = w /\ h = idx[w])
        BY <2>1, <2>2, <2>4, <3>2
      <3> QED
        BY <3>1, <3>2
    <2> QED
      BY <2>3, <2>4
  <1>15. ASSUME NEW w \in Worker, FailHandler(w) PROVE IndexOK'
    BY <1>15 DEF FailHandler
  <1>16. ASSUME NEW w \in Worker, CommitProcessed(w) PROVE IndexOK'
    BY <1>16 DEF CommitProcessed
  <1>17. ASSUME NEW w \in Worker, DiscardErrors(w) PROVE IndexOK'
    BY <1>17 DEF DiscardErrors
  <1>18. ASSUME NEW w \in Worker, MarkFailed(w) PROVE IndexOK'
    BY <1>18 DEF MarkFailed
  <1>19. ASSUME NEW w \in Worker, DeleteMessage(w) PROVE IndexOK'
    BY <1>19 DEF DeleteMessage
  <1>20. ASSUME NEW w \in Worker, DeleteLost(w) PROVE IndexOK'
    BY <1>20 DEF DeleteLost
  <1>21. ASSUME NEW w \in Worker, Crash(w) PROVE IndexOK'
    BY <1>21 DEF Crash
  <1>22. CASE UNCHANGED vars
    BY <1>22 DEF vars
  <1> QED
    BY <1>1, <1>2, <1>3, <1>4, <1>5, <1>6, <1>7, <1>8, <1>9, <1>10, <1>11,
       <1>12, <1>13, <1>14, <1>15, <1>16, <1>17, <1>18, <1>19, <1>20, <1>21,
       <1>22
    DEF Next, Progress, Intake, Routing, Fault

-----------------------------------------------------------------------------
(* Completion and acknowledgement.                                         *)

\* AllOrNothing leaves two values of a committed row.
LEMMA CommittedRowValues ==
  ASSUME AllOrNothing, NEW e \in Event, NEW h \in Handler
  PROVE  procs[e][h] \in {"NONE", "COMPLETED"}
  BY DEF AllOrNothing, NoRows

\* Between two handlers the session has no unfinished row.
LEMMA SessionRowValues ==
  ASSUME TypeOK, OverlayOK, NEW w \in Worker, pc[w] = "next", NEW h \in Handler
  PROVE  txn[w][h] \in {"NONE", "COMPLETED"}
  <1>1. txn[w][h] \in {"NONE", "PROCESSING", "COMPLETED"}
    BY DEF TypeOK
  <1>2. txn[w][h] # "PROCESSING"
    BY DEF OverlayOK
  <1> QED
    BY <1>1, <1>2

\* A delivery without errors has completed, or found completed, every handler it passed.
LEMMA ProgressStep ==
  TypeInv /\ OverlayOK /\ LockOK /\ IndexOK /\ AllOrNothing /\ ProgressOK /\
  [Next]_vars => ProgressOK'
  <1> SUFFICES ASSUME TypeInv, OverlayOK, LockOK, IndexOK, AllOrNothing, ProgressOK,
                      [Next]_vars
               PROVE  ProgressOK'
    OBVIOUS
  <1> USE EventOfAssumption, KindAssumption, NHandlersAssumption, NoneAssumption
      DEF TypeInv, TypeOK, SlotOK, Busy, Ev, Handler, RoutingPc, NoRows, Goto,
          EndDelivery, AbortDelivery, FreeLocks, DropOverlay, Seen, OverlayOK,
          LockOK, IndexOK, Conflicting, ProgressOK, AllOrNothing
  <1>1. ASSUME NEW w \in Worker, NEW m \in Message, Receive(w, m) PROVE ProgressOK'
    BY <1>1 DEF Receive
  <1>2. ASSUME NEW m \in Message, VisibilityTimeout(m) PROVE ProgressOK'
    BY <1>2 DEF VisibilityTimeout
  <1>3. ASSUME NEW w \in Worker, Reject(w) PROVE ProgressOK'
    BY <1>3 DEF Reject
  <1>4. ASSUME NEW w \in Worker, LookupEvent(w) PROVE ProgressOK'
    BY <1>4, SMTT(30) DEF LookupEvent
  <1>5. ASSUME NEW w \in Worker, InsertEvent(w) PROVE ProgressOK'
    BY <1>5 DEF InsertEvent
  <1>6. ASSUME NEW w \in Worker, InsertEventConflict(w) PROVE ProgressOK'
    BY <1>6 DEF InsertEventConflict
  <1>7. ASSUME NEW w \in Worker, AcceptUnknown(w) PROVE ProgressOK'
    BY <1>7 DEF AcceptUnknown
  <1>8. ASSUME NEW w \in Worker, BeginRouting(w) PROVE ProgressOK'
    BY <1>8 DEF BeginRouting
  <1>9. ASSUME NEW w \in Worker, SkipHandler(w) PROVE ProgressOK'
    <2>1. Seen(w, idx[w]) = "COMPLETED"
      <3>1. idx[w] \in Handler /\ Ev(w) \in Event /\ Seen(w, idx[w]) \in Conflicting
        BY <1>9 DEF SkipHandler
      <3>2. procs[Ev(w)][idx[w]] \in {"NONE", "COMPLETED"}
        BY <3>1, CommittedRowValues
      <3>3. txn[w][idx[w]] \in {"NONE", "COMPLETED"}
        BY <1>9, <3>1, SessionRowValues DEF SkipHandler
      <3> QED
        BY <3>1, <3>2, <3>3
    <2>2. /\ \A u \in Worker, h \in Handler : Seen(u, h)' = Seen(u, h)
          /\ \A u \in Worker \ {w} : idx'[u] = idx[u]
          /\ idx'[w] = idx[w] + 1 /\ idx[w] \in Nat
          /\ pc' = pc /\ errs' = errs
      BY <1>9 DEF SkipHandler
    <2>3. ASSUME NEW u \in Worker, pc'[u] \in RoutingPc, ~errs'[u],
                 NEW h \in Handler, h < idx'[u]
          PROVE  Seen(u, h)' = "COMPLETED"
      <3> HIDE DEF Seen, TypeOK, SlotOK
      <3>1. CASE u # w
        BY <2>2, <2>3, <3>1
      <3>2. CASE u = w
        BY <2>1, <2>2, <2>3, <3>2
      <3> QED
        BY <3>1, <3>2
    <2> QED
      BY <2>3
  <1>10. ASSUME NEW w \in Worker, SelectHandler(w) PROVE ProgressOK'
    BY <1>10 DEF SelectHandler
  <1>11. ASSUME NEW w \in Worker, ClaimHandler(w) PROVE ProgressOK'
    BY <1>11, SMTT(30) DEF ClaimHandler
  <1>12. ASSUME NEW w \in Worker, ClaimConflict(w) PROVE ProgressOK'
    BY <1>12 DEF ClaimConflict
  <1>13. ASSUME NEW w \in Worker, RunHandler(w) PROVE ProgressOK'
    BY <1>13, SMTT(30) DEF RunHandler
  <1>14. ASSUME NEW w \in Worker, CompleteHandler(w) PROVE ProgressOK'
    BY <1>14 DEF CompleteHandler
  <1>15. ASSUME NEW w \in Worker, FailHandler(w) PROVE ProgressOK'
    BY <1>15 DEF FailHandler
  <1>16. ASSUME NEW w \in Worker, CommitProcessed(w) PROVE ProgressOK'
    BY <1>16 DEF CommitProcessed
  <1>17. ASSUME NEW w \in Worker, DiscardErrors(w) PROVE ProgressOK'
    BY <1>17 DEF DiscardErrors
  <1>18. ASSUME NEW w \in Worker, MarkFailed(w) PROVE ProgressOK'
    BY <1>18 DEF MarkFailed
  <1>19. ASSUME NEW w \in Worker, DeleteMessage(w) PROVE ProgressOK'
    BY <1>19 DEF DeleteMessage
  <1>20. ASSUME NEW w \in Worker, DeleteLost(w) PROVE ProgressOK'
    BY <1>20 DEF DeleteLost
  <1>21. ASSUME NEW w \in Worker, Crash(w) PROVE ProgressOK'
    BY <1>21 DEF Crash
  <1>22. CASE UNCHANGED vars
    BY <1>22 DEF vars
  <1> QED
    BY <1>1, <1>2, <1>3, <1>4, <1>5, <1>6, <1>7, <1>8, <1>9, <1>10, <1>11,
       <1>12, <1>13, <1>14, <1>15, <1>16, <1>17, <1>18, <1>19, <1>20, <1>21,
       <1>22
    DEF Next, Progress, Intake, Routing, Fault

\* Committed idempotency rows change in the commit of a delivery and nowhere else.
LEMMA CommitsOnly ==
  [Next]_vars => procs' = procs \/ \E w \in Worker : CommitProcessed(w)
  BY DEF Next, vars, Progress, Intake, Routing, Fault, Receive, VisibilityTimeout,
         Reject, LookupEvent, InsertEvent, InsertEventConflict, AcceptUnknown,
         BeginRouting, SkipHandler, SelectHandler, ClaimHandler, ClaimConflict,
         RunHandler, CompleteHandler, FailHandler, DiscardErrors, MarkFailed,
         DeleteMessage, DeleteLost, Crash

\* The commit of a delivery completes every row of its event at once.
LEMMA AllOrNothingStep ==
  TypeInv /\ ProgressOK /\ AllOrNothing /\ [Next]_vars => AllOrNothing'
  <1> SUFFICES ASSUME TypeInv, ProgressOK, AllOrNothing, [Next]_vars
               PROVE  AllOrNothing'
    OBVIOUS
  <1>1. procs' = procs \/ \E w \in Worker : CommitProcessed(w)
    BY CommitsOnly
  <1>2. CASE procs' = procs
    BY <1>2 DEF AllOrNothing
  <1>3. ASSUME NEW w \in Worker, CommitProcessed(w) PROVE AllOrNothing'
    <2>1. \A h \in Handler : procs'[Ev(w)][h] = "COMPLETED"
      BY <1>3, EventOfAssumption, NHandlersAssumption
      DEF CommitProcessed, TypeInv, TypeOK, SlotOK, Busy, ProgressOK, Handler, RoutingPc, Ev
    <2>2. \A e \in Event : e # Ev(w) => procs'[e] = procs[e]
      BY <1>3 DEF CommitProcessed, TypeInv, TypeOK
    <2> QED
      BY <2>1, <2>2 DEF AllOrNothing
  <1> QED
    BY <1>1, <1>2, <1>3

\* A row is completed after the handler's effects.
LEMMA RunsStep == TypeInv /\ OverlayOK /\ ProgressOK /\ RunsOK /\ [Next]_vars => RunsOK'
  <1> SUFFICES ASSUME TypeInv, OverlayOK, ProgressOK, RunsOK, [Next]_vars PROVE RunsOK'
    OBVIOUS
  <1> USE EventOfAssumption, KindAssumption, NHandlersAssumption, NoneAssumption
      DEF TypeInv, TypeOK, SlotOK, Busy, Ev, Handler, RoutingPc, NoRows, Goto,
          EndDelivery, AbortDelivery, FreeLocks, DropOverlay, Seen, OverlayOK,
          LockOK, IndexOK, Conflicting, ProgressOK, RunsOK
  <1>1. ASSUME NEW w \in Worker, NEW m \in Message, Receive(w, m) PROVE RunsOK'
    BY <1>1 DEF Receive
  <1>2. ASSUME NEW m \in Message, VisibilityTimeout(m) PROVE RunsOK'
    BY <1>2 DEF VisibilityTimeout
  <1>3. ASSUME NEW w \in Worker, Reject(w) PROVE RunsOK'
    BY <1>3 DEF Reject
  <1>4. ASSUME NEW w \in Worker, LookupEvent(w) PROVE RunsOK'
    BY <1>4 DEF LookupEvent
  <1>5. ASSUME NEW w \in Worker, InsertEvent(w) PROVE RunsOK'
    BY <1>5 DEF InsertEvent
  <1>6. ASSUME NEW w \in Worker, InsertEventConflict(w) PROVE RunsOK'
    BY <1>6 DEF InsertEventConflict
  <1>7. ASSUME NEW w \in Worker, AcceptUnknown(w) PROVE RunsOK'
    BY <1>7 DEF AcceptUnknown
  <1>8. ASSUME NEW w \in Worker, BeginRouting(w) PROVE RunsOK'
    BY <1>8 DEF BeginRouting
  <1>9. ASSUME NEW w \in Worker, SkipHandler(w) PROVE RunsOK'
    BY <1>9, SMTT(30) DEF SkipHandler
  <1>10. ASSUME NEW w \in Worker, SelectHandler(w) PROVE RunsOK'
    BY <1>10 DEF SelectHandler
  <1>11. ASSUME NEW w \in Worker, ClaimHandler(w) PROVE RunsOK'
    BY <1>11 DEF ClaimHandler
  <1>12. ASSUME NEW w \in Worker, ClaimConflict(w) PROVE RunsOK'
    BY <1>12 DEF ClaimConflict
  <1>13. ASSUME NEW w \in Worker, RunHandler(w) PROVE RunsOK'
    BY <1>13 DEF RunHandler
  <1>14. ASSUME NEW w \in Worker, CompleteHandler(w) PROVE RunsOK'
    BY <1>14, SMTT(30) DEF CompleteHandler
  <1>15. ASSUME NEW w \in Worker, FailHandler(w) PROVE RunsOK'
    BY <1>15 DEF FailHandler
  <1>16. ASSUME NEW w \in Worker, CommitProcessed(w) PROVE RunsOK'
    BY <1>16 DEF CommitProcessed
  <1>17. ASSUME NEW w \in Worker, DiscardErrors(w) PROVE RunsOK'
    BY <1>17 DEF DiscardErrors
  <1>18. ASSUME NEW w \in Worker, MarkFailed(w) PROVE RunsOK'
    BY <1>18 DEF MarkFailed
  <1>19. ASSUME NEW w \in Worker, DeleteMessage(w) PROVE RunsOK'
    BY <1>19 DEF DeleteMessage
  <1>20. ASSUME NEW w \in Worker, DeleteLost(w) PROVE RunsOK'
    BY <1>20 DEF DeleteLost
  <1>21. ASSUME NEW w \in Worker, Crash(w) PROVE RunsOK'
    BY <1>21 DEF Crash
  <1>22. CASE UNCHANGED vars
    BY <1>22 DEF vars
  <1> QED
    BY <1>1, <1>2, <1>3, <1>4, <1>5, <1>6, <1>7, <1>8, <1>9, <1>10, <1>11,
       <1>12, <1>13, <1>14, <1>15, <1>16, <1>17, <1>18, <1>19, <1>20, <1>21,
       <1>22
    DEF Next, Progress, Intake, Routing, Fault

\* The message is deleted after the commit, and committed rows stay.
LEMMA DeleteStep ==
  TypeInv /\ OverlayOK /\ ProgressOK /\ AllOrNothing /\ DeleteOK /\ [Next]_vars =>
  DeleteOK'
  <1> SUFFICES ASSUME TypeInv, OverlayOK, ProgressOK, AllOrNothing, DeleteOK,
                      [Next]_vars
               PROVE  DeleteOK'
    OBVIOUS
  <1> USE EventOfAssumption, KindAssumption, NHandlersAssumption, NoneAssumption
      DEF TypeInv, TypeOK, SlotOK, Busy, Ev, Handler, RoutingPc, NoRows, Goto,
          EndDelivery, AbortDelivery, FreeLocks, DropOverlay, Seen, OverlayOK,
          LockOK, IndexOK, Conflicting, ProgressOK, AllOrNothing, DeleteOK
  <1>1. ASSUME NEW w \in Worker, NEW m \in Message, Receive(w, m) PROVE DeleteOK'
    BY <1>1 DEF Receive
  <1>2. ASSUME NEW m \in Message, VisibilityTimeout(m) PROVE DeleteOK'
    BY <1>2 DEF VisibilityTimeout
  <1>3. ASSUME NEW w \in Worker, Reject(w) PROVE DeleteOK'
    BY <1>3 DEF Reject
  <1>4. ASSUME NEW w \in Worker, LookupEvent(w) PROVE DeleteOK'
    <2>1. PICK l \in {"insert", "reject", "route"} : pc' = [pc EXCEPT ![w] = l]
      BY <1>4 DEF LookupEvent
    <2>2. UNCHANGED <<procs, msg>>
      BY <1>4 DEF LookupEvent
    <2> QED
      BY <2>1, <2>2
  <1>5. ASSUME NEW w \in Worker, InsertEvent(w) PROVE DeleteOK'
    BY <1>5 DEF InsertEvent
  <1>6. ASSUME NEW w \in Worker, InsertEventConflict(w) PROVE DeleteOK'
    BY <1>6 DEF InsertEventConflict
  <1>7. ASSUME NEW w \in Worker, AcceptUnknown(w) PROVE DeleteOK'
    BY <1>7 DEF AcceptUnknown
  <1>8. ASSUME NEW w \in Worker, BeginRouting(w) PROVE DeleteOK'
    BY <1>8 DEF BeginRouting
  <1>9. ASSUME NEW w \in Worker, SkipHandler(w) PROVE DeleteOK'
    BY <1>9 DEF SkipHandler
  <1>10. ASSUME NEW w \in Worker, SelectHandler(w) PROVE DeleteOK'
    BY <1>10 DEF SelectHandler
  <1>11. ASSUME NEW w \in Worker, ClaimHandler(w) PROVE DeleteOK'
    BY <1>11 DEF ClaimHandler
  <1>12. ASSUME NEW w \in Worker, ClaimConflict(w) PROVE DeleteOK'
    BY <1>12 DEF ClaimConflict
  <1>13. ASSUME NEW w \in Worker, RunHandler(w) PROVE DeleteOK'
    BY <1>13 DEF RunHandler
  <1>14. ASSUME NEW w \in Worker, CompleteHandler(w) PROVE DeleteOK'
    BY <1>14 DEF CompleteHandler
  <1>15. ASSUME NEW w \in Worker, FailHandler(w) PROVE DeleteOK'
    BY <1>15 DEF FailHandler
  <1>16. ASSUME NEW w \in Worker, CommitProcessed(w) PROVE DeleteOK'
    BY <1>16 DEF CommitProcessed
  <1>17. ASSUME NEW w \in Worker, DiscardErrors(w) PROVE DeleteOK'
    BY <1>17 DEF DiscardErrors
  <1>18. ASSUME NEW w \in Worker, MarkFailed(w) PROVE DeleteOK'
    BY <1>18 DEF MarkFailed
  <1>19. ASSUME NEW w \in Worker, DeleteMessage(w) PROVE DeleteOK'
    BY <1>19 DEF DeleteMessage
  <1>20. ASSUME NEW w \in Worker, DeleteLost(w) PROVE DeleteOK'
    BY <1>20 DEF DeleteLost
  <1>21. ASSUME NEW w \in Worker, Crash(w) PROVE DeleteOK'
    BY <1>21 DEF Crash
  <1>22. CASE UNCHANGED vars
    BY <1>22 DEF vars
  <1> QED
    BY <1>1, <1>2, <1>3, <1>4, <1>5, <1>6, <1>7, <1>8, <1>9, <1>10, <1>11,
       <1>12, <1>13, <1>14, <1>15, <1>16, <1>17, <1>18, <1>19, <1>20, <1>21,
       <1>22
    DEF Next, Progress, Intake, Routing, Fault

\* Only a slot whose event is committed deletes its message.
LEMMA AckedStep ==
  TypeInv /\ OverlayOK /\ ProgressOK /\ AllOrNothing /\ RunsOK /\ DeleteOK /\
  AckedIsDone /\ [Next]_vars => AckedIsDone'
  <1> SUFFICES ASSUME TypeInv, OverlayOK, ProgressOK, AllOrNothing, RunsOK,
                      DeleteOK, AckedIsDone, [Next]_vars
               PROVE  AckedIsDone'
    OBVIOUS
  <1> USE EventOfAssumption, KindAssumption, NHandlersAssumption, NoneAssumption
      DEF TypeInv, TypeOK, SlotOK, Busy, Ev, Handler, RoutingPc, NoRows, Goto,
          EndDelivery, AbortDelivery, FreeLocks, DropOverlay, Seen, OverlayOK,
          LockOK, IndexOK, Conflicting, ProgressOK, AllOrNothing, RunsOK,
          DeleteOK, AckedIsDone
  <1>1. ASSUME NEW w \in Worker, NEW m \in Message, Receive(w, m) PROVE AckedIsDone'
    BY <1>1 DEF Receive
  <1>2. ASSUME NEW m \in Message, VisibilityTimeout(m) PROVE AckedIsDone'
    BY <1>2 DEF VisibilityTimeout
  <1>3. ASSUME NEW w \in Worker, Reject(w) PROVE AckedIsDone'
    BY <1>3 DEF Reject
  <1>4. ASSUME NEW w \in Worker, LookupEvent(w) PROVE AckedIsDone'
    BY <1>4 DEF LookupEvent
  <1>5. ASSUME NEW w \in Worker, InsertEvent(w) PROVE AckedIsDone'
    BY <1>5 DEF InsertEvent
  <1>6. ASSUME NEW w \in Worker, InsertEventConflict(w) PROVE AckedIsDone'
    BY <1>6 DEF InsertEventConflict
  <1>7. ASSUME NEW w \in Worker, AcceptUnknown(w) PROVE AckedIsDone'
    BY <1>7 DEF AcceptUnknown
  <1>8. ASSUME NEW w \in Worker, BeginRouting(w) PROVE AckedIsDone'
    BY <1>8 DEF BeginRouting
  <1>9. ASSUME NEW w \in Worker, SkipHandler(w) PROVE AckedIsDone'
    BY <1>9 DEF SkipHandler
  <1>10. ASSUME NEW w \in Worker, SelectHandler(w) PROVE AckedIsDone'
    BY <1>10 DEF SelectHandler
  <1>11. ASSUME NEW w \in Worker, ClaimHandler(w) PROVE AckedIsDone'
    BY <1>11 DEF ClaimHandler
  <1>12. ASSUME NEW w \in Worker, ClaimConflict(w) PROVE AckedIsDone'
    BY <1>12 DEF ClaimConflict
  <1>13. ASSUME NEW w \in Worker, RunHandler(w) PROVE AckedIsDone'
    BY <1>13 DEF RunHandler
  <1>14. ASSUME NEW w \in Worker, CompleteHandler(w) PROVE AckedIsDone'
    BY <1>14 DEF CompleteHandler
  <1>15. ASSUME NEW w \in Worker, FailHandler(w) PROVE AckedIsDone'
    BY <1>15 DEF FailHandler
  <1>16. ASSUME NEW w \in Worker, CommitProcessed(w) PROVE AckedIsDone'
    BY <1>16 DEF CommitProcessed
  <1>17. ASSUME NEW w \in Worker, DiscardErrors(w) PROVE AckedIsDone'
    BY <1>17 DEF DiscardErrors
  <1>18. ASSUME NEW w \in Worker, MarkFailed(w) PROVE AckedIsDone'
    BY <1>18 DEF MarkFailed
  <1>19. ASSUME NEW w \in Worker, DeleteMessage(w) PROVE AckedIsDone'
    BY <1>19 DEF DeleteMessage
  <1>20. ASSUME NEW w \in Worker, DeleteLost(w) PROVE AckedIsDone'
    BY <1>20 DEF DeleteLost
  <1>21. ASSUME NEW w \in Worker, Crash(w) PROVE AckedIsDone'
    BY <1>21 DEF Crash
  <1>22. CASE UNCHANGED vars
    BY <1>22 DEF vars
  <1> QED
    BY <1>1, <1>2, <1>3, <1>4, <1>5, <1>6, <1>7, <1>8, <1>9, <1>10, <1>11,
       <1>12, <1>13, <1>14, <1>15, <1>16, <1>17, <1>18, <1>19, <1>20, <1>21,
       <1>22
    DEF Next, Progress, Intake, Routing, Fault

-----------------------------------------------------------------------------
(* The theorems.                                                           *)

\* Before the first message the invariant holds.
LEMMA IInvInit == Init => IInv
  <1> SUFFICES ASSUME Init PROVE IInv
    OBVIOUS
  <1>1. TypeInv
    BY TypeInit
  <1>2. OverlayOK /\ LockOK /\ IndexOK /\ ProgressOK /\ AllOrNothing /\ RunsOK /\ DeleteOK
    BY NHandlersAssumption
    DEF Init, OverlayOK, LockOK, IndexOK, ProgressOK, AllOrNothing, RunsOK, DeleteOK, Busy,
        RoutingPc, NoRows, Handler
  <1>3. AckedIsDone
    BY KindAssumption DEF Init, AckedIsDone
  <1> QED
    BY <1>1, <1>2, <1>3 DEF IInv

\* The step lemmas together.
LEMMA IInvStep == IInv /\ [Next]_vars => IInv'
  BY TypeStep, OverlayStep, LockStep, IndexStep, ProgressStep, AllOrNothingStep, RunsStep,
     DeleteStep, AckedStep
  DEF IInv

\* Every reachable state satisfies the inductive invariant.
THEOREM Invariance == Spec => []IInv
  BY IInvInit, IInvStep, PTL DEF Spec

\* Every variable of the pipeline keeps its type.
THEOREM TypeCorrect == Spec => []TypeOK
  BY Invariance, PTL DEF IInv, TypeInv

\* No two slots execute the same handler of the same event at once: both would own the
\* key of its row.
THEOREM Exclusion == Spec => []HandlerExclusion
  <1>1. IInv => HandlerExclusion
    <2> SUFFICES ASSUME IInv, NEW v \in Worker, NEW w \in Worker, NEW e \in Event,
                        NEW h \in Handler, Running(v, e, h), Running(w, e, h), v # w
                 PROVE  FALSE
      BY DEF HandlerExclusion
    <2>1. /\ Busy(v) /\ Busy(w) /\ Ev(v) = Ev(w)
          /\ txn[v][h] = "PROCESSING" /\ txn[w][h] = "PROCESSING"
      BY DEF IInv, OverlayOK, Running, Busy
    <2> QED
      BY <2>1 DEF IInv, IndexOK
  <1> QED
    BY <1>1, Invariance, PTL

\* A message of a registered type is deleted only after every handler of its event has
\* run and its completion is committed.
THEOREM Acknowledgement == Spec => []AckedIsDone
  BY Invariance, PTL DEF IInv

\* The idempotency rows of an event are committed all together and completed.
THEOREM Atomicity == Spec => []AllOrNothing
  BY Invariance, PTL DEF IInv

\* The handler a slot is about to execute has no committed row.
LEMMA RunsUncommitted ==
  ASSUME IInv, NEW w \in Worker, pc[w] = "run"
  PROVE  idx[w] \in Handler /\ Ev(w) \in Event /\ procs[Ev(w)][idx[w]] = "NONE"
  <1>1. idx[w] \in Handler /\ Ev(w) \in Event /\ Busy(w)
    BY EventOfAssumption DEF IInv, TypeInv, SlotOK, Busy, Ev
  <1>2. txn[w][idx[w]] = "PROCESSING"
    BY DEF IInv, OverlayOK
  <1> QED
    BY <1>1, <1>2 DEF IInv, IndexOK

\* Executions are counted by RunHandler and nowhere else.
LEMMA RunsOnly == [Next]_vars => runs' = runs \/ \E w \in Worker : RunHandler(w)
  BY DEF Next, vars, Progress, Intake, Routing, Fault, Receive, VisibilityTimeout,
         Reject, LookupEvent, InsertEvent, InsertEventConflict, AcceptUnknown,
         BeginRouting, SkipHandler, SelectHandler, ClaimHandler, ClaimConflict,
         CompleteHandler, FailHandler, CommitProcessed, DiscardErrors, MarkFailed,
         DeleteMessage, DeleteLost, Crash

\* A handler whose completion is committed is never executed again.
THEOREM NoRerun == Spec => CompletedNeverReruns
  <1>1. IInv /\ [Next]_vars =>
            [\A e \in Event, h \in Handler :
                procs[e][h] = "COMPLETED" => runs'[e][h] = runs[e][h]]_vars
    <2> SUFFICES ASSUME IInv, [Next]_vars, NEW e \in Event, NEW h \in Handler,
                        procs[e][h] = "COMPLETED"
                 PROVE  runs'[e][h] = runs[e][h]
      OBVIOUS
    <2>1. CASE runs' = runs
      BY <2>1
    <2>2. ASSUME NEW w \in Worker, RunHandler(w) PROVE runs'[e][h] = runs[e][h]
      <3>1. ~(Ev(w) = e /\ idx[w] = h)
        BY <2>2, RunsUncommitted DEF RunHandler
      <3> QED
        BY <2>2, <3>1 DEF RunHandler, IInv, TypeInv, TypeOK
    <2> QED
      BY <2>1, <2>2, RunsOnly
  <1> QED
    BY <1>1, Invariance, PTL DEF Spec, CompletedNeverReruns

-----------------------------------------------------------------------------
(* No deadlock among the database's waits.                                 *)

\* Whoever holds the row lock of an event is routing it: nobody holds a lock while
\* waiting for the lock of a row.
HolderOK ==
    \A e \in Event : rowLock[e] # None =>
        pc[rowLock[e]] \in RoutingPc /\ Ev(rowLock[e]) = e

\* A transaction has taken index keys in the order of the handler list: none at or
\* beyond its position, except that of the handler it executes.
OrderOK ==
    \A w \in Worker, h \in Handler : txn[w][h] # "NONE" =>
        h < idx[w] \/ (h = idx[w] /\ pc[w] \in {"run", "finish"})

\* Outside the router a transaction has written no row.
LEMMA NoRowsOutside ==
  ASSUME OverlayOK, NEW w \in Worker, pc[w] \notin RoutingPc
  PROVE  \A h \in Handler : txn[w][h] = "NONE"
  BY DEF OverlayOK, NoRows

\* Only BeginRouting takes the row lock, and it is given up before the slot leaves the
\* router.
LEMMA HolderStep == TypeInv /\ HolderOK /\ [Next]_vars => HolderOK'
  <1> SUFFICES ASSUME TypeInv, HolderOK, [Next]_vars PROVE HolderOK'
    OBVIOUS
  <1> USE EventOfAssumption, KindAssumption, NHandlersAssumption, NoneAssumption
      DEF TypeInv, TypeOK, SlotOK, Busy, Ev, Handler, RoutingPc, NoRows, Goto,
          EndDelivery, AbortDelivery, FreeLocks, DropOverlay, HolderOK
  <1>1. ASSUME NEW w \in Worker, NEW m \in Message, Receive(w, m) PROVE HolderOK'
    BY <1>1 DEF Receive
  <1>2. ASSUME NEW m \in Message, VisibilityTimeout(m) PROVE HolderOK'
    BY <1>2 DEF VisibilityTimeout
  <1>3. ASSUME NEW w \in Worker, Reject(w) PROVE HolderOK'
    BY <1>3 DEF Reject
  <1>4. ASSUME NEW w \in Worker, LookupEvent(w) PROVE HolderOK'
    BY <1>4 DEF LookupEvent
  <1>5. ASSUME NEW w \in Worker, InsertEvent(w) PROVE HolderOK'
    BY <1>5 DEF InsertEvent
  <1>6. ASSUME NEW w \in Worker, InsertEventConflict(w) PROVE HolderOK'
    BY <1>6 DEF InsertEventConflict
  <1>7. ASSUME NEW w \in Worker, AcceptUnknown(w) PROVE HolderOK'
    BY <1>7 DEF AcceptUnknown
  <1>8. ASSUME NEW w \in Worker, BeginRouting(w) PROVE HolderOK'
    BY <1>8 DEF BeginRouting
  <1>9. ASSUME NEW w \in Worker, SkipHandler(w) PROVE HolderOK'
    BY <1>9 DEF SkipHandler
  <1>10. ASSUME NEW w \in Worker, SelectHandler(w) PROVE HolderOK'
    BY <1>10 DEF SelectHandler
  <1>11. ASSUME NEW w \in Worker, ClaimHandler(w) PROVE HolderOK'
    BY <1>11 DEF ClaimHandler
  <1>12. ASSUME NEW w \in Worker, ClaimConflict(w) PROVE HolderOK'
    BY <1>12 DEF ClaimConflict
  <1>13. ASSUME NEW w \in Worker, RunHandler(w) PROVE HolderOK'
    BY <1>13 DEF RunHandler
  <1>14. ASSUME NEW w \in Worker, CompleteHandler(w) PROVE HolderOK'
    BY <1>14 DEF CompleteHandler
  <1>15. ASSUME NEW w \in Worker, FailHandler(w) PROVE HolderOK'
    BY <1>15 DEF FailHandler
  <1>16. ASSUME NEW w \in Worker, CommitProcessed(w) PROVE HolderOK'
    BY <1>16 DEF CommitProcessed
  <1>17. ASSUME NEW w \in Worker, DiscardErrors(w) PROVE HolderOK'
    BY <1>17 DEF DiscardErrors
  <1>18. ASSUME NEW w \in Worker, MarkFailed(w) PROVE HolderOK'
    BY <1>18 DEF MarkFailed
  <1>19. ASSUME NEW w \in Worker, DeleteMessage(w) PROVE HolderOK'
    BY <1>19 DEF DeleteMessage
  <1>20. ASSUME NEW w \in Worker, DeleteLost(w) PROVE HolderOK'
    BY <1>20 DEF DeleteLost
  <1>21. ASSUME NEW w \in Worker, Crash(w) PROVE HolderOK'
    BY <1>21 DEF Crash
  <1>22. CASE UNCHANGED vars
    BY <1>22 DEF vars
  <1> QED
    BY <1>1, <1>2, <1>3, <1>4, <1>5, <1>6, <1>7, <1>8, <1>9, <1>10, <1>11,
       <1>12, <1>13, <1>14, <1>15, <1>16, <1>17, <1>18, <1>19, <1>20, <1>21,
       <1>22
    DEF Next, Progress, Intake, Routing, Fault

\* Keys are taken at the slot's position, which only moves forward until the transaction
\* ends.
LEMMA OrderStep == TypeInv /\ OverlayOK /\ OrderOK /\ [Next]_vars => OrderOK'
  <1> SUFFICES ASSUME TypeInv, OverlayOK, OrderOK, [Next]_vars PROVE OrderOK'
    OBVIOUS
  <1> USE EventOfAssumption, KindAssumption, NHandlersAssumption, NoneAssumption
      DEF TypeInv, TypeOK, SlotOK, Busy, Ev, Handler, RoutingPc, NoRows, Goto,
          EndDelivery, AbortDelivery, FreeLocks, DropOverlay, OverlayOK, OrderOK
  <1>1. ASSUME NEW w \in Worker, NEW m \in Message, Receive(w, m) PROVE OrderOK'
    BY <1>1 DEF Receive
  <1>2. ASSUME NEW m \in Message, VisibilityTimeout(m) PROVE OrderOK'
    BY <1>2 DEF VisibilityTimeout
  <1>3. ASSUME NEW w \in Worker, Reject(w) PROVE OrderOK'
    BY <1>3 DEF Reject
  <1>4. ASSUME NEW w \in Worker, LookupEvent(w) PROVE OrderOK'
    <2>1. /\ pc[w] = "parse" /\ \A u \in Worker \ {w} : pc'[u] = pc[u]
          /\ UNCHANGED <<txn, idx>>
      BY <1>4 DEF LookupEvent
    <2>2. \A h \in Handler : txn[w][h] = "NONE"
      BY <2>1, NoRowsOutside
    <2> QED
      BY <2>1, <2>2
  <1>5. ASSUME NEW w \in Worker, InsertEvent(w) PROVE OrderOK'
    BY <1>5 DEF InsertEvent
  <1>6. ASSUME NEW w \in Worker, InsertEventConflict(w) PROVE OrderOK'
    BY <1>6 DEF InsertEventConflict
  <1>7. ASSUME NEW w \in Worker, AcceptUnknown(w) PROVE OrderOK'
    BY <1>7 DEF AcceptUnknown
  <1>8. ASSUME NEW w \in Worker, BeginRouting(w) PROVE OrderOK'
    BY <1>8 DEF BeginRouting
  <1>9. ASSUME NEW w \in Worker, SkipHandler(w) PROVE OrderOK'
    BY <1>9 DEF SkipHandler
  <1>10. ASSUME NEW w \in Worker, SelectHandler(w) PROVE OrderOK'
    BY <1>10 DEF SelectHandler
  <1>11. ASSUME NEW w \in Worker, ClaimHandler(w) PROVE OrderOK'
    BY <1>11 DEF ClaimHandler
  <1>12. ASSUME NEW w \in Worker, ClaimConflict(w) PROVE OrderOK'
    BY <1>12 DEF ClaimConflict
  <1>13. ASSUME NEW w \in Worker, RunHandler(w) PROVE OrderOK'
    BY <1>13 DEF RunHandler
  <1>14. ASSUME NEW w \in Worker, CompleteHandler(w) PROVE OrderOK'
    BY <1>14 DEF CompleteHandler
  <1>15. ASSUME NEW w \in Worker, FailHandler(w) PROVE OrderOK'
    BY <1>15 DEF FailHandler
  <1>16. ASSUME NEW w \in Worker, CommitProcessed(w) PROVE OrderOK'
    BY <1>16 DEF CommitProcessed
  <1>17. ASSUME NEW w \in Worker, DiscardErrors(w) PROVE OrderOK'
    BY <1>17 DEF DiscardErrors
  <1>18. ASSUME NEW w \in Worker, MarkFailed(w) PROVE OrderOK'
    <2>1. /\ pc[w] = "markfailed" /\ txn' = txn
          /\ \A u \in Worker \ {w} : pc'[u] = pc[u] /\ idx'[u] = idx[u]
      BY <1>18 DEF MarkFailed
    <2>2. \A h \in Handler : txn[w][h] = "NONE"
      BY <2>1, NoRowsOutside
    <2>3. ASSUME NEW u \in Worker, NEW h \in Handler, txn'[u][h] # "NONE"
          PROVE  h < idx'[u] \/ (h = idx'[u] /\ pc'[u] \in {"run", "finish"})
      <3>1. txn[u][h] # "NONE" /\ u # w
        BY <2>1, <2>2, <2>3
      <3>2. h < idx[u] \/ (h = idx[u] /\ pc[u] \in {"run", "finish"})
        BY <3>1
      <3> QED
        BY <2>1, <3>1, <3>2
    <2> QED
      BY <2>3
  <1>19. ASSUME NEW w \in Worker, DeleteMessage(w) PROVE OrderOK'
    BY <1>19 DEF DeleteMessage
  <1>20. ASSUME NEW w \in Worker, DeleteLost(w) PROVE OrderOK'
    BY <1>20, SMTT(30) DEF DeleteLost
  <1>21. ASSUME NEW w \in Worker, Crash(w) PROVE OrderOK'
    BY <1>21 DEF Crash
  <1>22. CASE UNCHANGED vars
    BY <1>22 DEF vars
  <1> QED
    BY <1>1, <1>2, <1>3, <1>4, <1>5, <1>6, <1>7, <1>8, <1>9, <1>10, <1>11,
       <1>12, <1>13, <1>14, <1>15, <1>16, <1>17, <1>18, <1>19, <1>20, <1>21,
       <1>22
    DEF Next, Progress, Intake, Routing, Fault

\* What the wait relation needs.
WaitInv == IInv /\ HolderOK /\ OrderOK

\* It holds at first and every step keeps it.
LEMMA WaitInit == Init => WaitInv
  BY IInvInit DEF Init, WaitInv, HolderOK, OrderOK, NoRows

LEMMA WaitStep == WaitInv /\ [Next]_vars => WaitInv'
  BY IInvStep, HolderStep, OrderStep DEF WaitInv, IInv

LEMMA WaitInvariance == Spec => []WaitInv
  BY WaitInit, WaitStep, PTL DEF Spec

\* Whoever is waited for is in the router; if it waits itself, it waits at the claim of a
\* later handler than the slot that waits for it.
LEMMA WaitsClimb ==
  ASSUME WaitInv, NEW u \in Worker, NEW w \in Worker, NEW v \in Worker,
         WaitsFor(u, w), WaitsFor(w, v)
  PROVE  pc[w] = "claim" /\ (pc[u] = "claim" => idx[u] < idx[w])
  <1> USE DEF WaitInv, IInv, TypeInv
  <1>1. pc[w] = "claim"
    <2>1. CASE rowLock[Ev(u)] = w /\ pc[u] \in {"reject", "route", "markfailed"}
      <3>1. Ev(u) \in Event
        BY <2>1, EventOfAssumption DEF SlotOK, Busy, Ev
      <3>2. pc[w] \in RoutingPc
        BY <2>1, <3>1, NoneAssumption DEF HolderOK
      <3> QED
        BY <3>2 DEF WaitsFor, RoutingPc
    <2>2. CASE pc[u] = "claim" /\ txn[w][idx[u]] # "NONE"
      <3>1. idx[u] \in Handler
        BY <2>2 DEF SlotOK
      <3>2. pc[w] \in RoutingPc
        BY <2>2, <3>1 DEF OverlayOK, NoRows
      <3> QED
        BY <3>2 DEF WaitsFor, RoutingPc
    <2> QED
      BY <2>1, <2>2 DEF WaitsFor
  <1>2. ASSUME pc[u] = "claim" PROVE idx[u] < idx[w]
    <2>1. idx[u] \in Handler /\ txn[w][idx[u]] # "NONE"
      BY <1>2 DEF SlotOK, WaitsFor
    <2> QED
      BY <1>1, <2>1 DEF OrderOK
  <1> QED
    BY <1>1, <1>2

\* The row-lock waits and the unique-index waits of PostgreSQL never close a cycle,
\* whatever the number of slots: index keys are taken in the order of the handler list and
\* the holder of a row lock waits for no row lock.
THEOREM NoDeadlock == Spec => []NoWaitCycle
  <1>1. WaitInv => NoWaitCycle
    <2> SUFFICES ASSUME WaitInv, NEW S \in SUBSET Worker, S # {},
                        \A w \in S : \E v \in S : WaitsFor(w, v)
                 PROVE  FALSE
      BY DEF NoWaitCycle
    <2> DEFINE C == {w \in S : \E u \in S : WaitsFor(u, w)}
               Left == {NHandlers + 1 - idx[w] : w \in C}
    <2>1. \A w \in C : idx[w] \in Nat /\ idx[w] <= NHandlers + 1
      BY NHandlersAssumption DEF WaitInv, IInv, TypeInv, TypeOK
    <2>2. Left \in SUBSET Nat
      BY <2>1, NHandlersAssumption
    <2>3. Left # {}
      OBVIOUS
    <2>4. PICK w \in C : \A u \in C : NHandlers + 1 - idx[w] <= NHandlers + 1 - idx[u]
      <3>1. PICK n \in Left : \A m \in Left : n <= m
        <4> HIDE DEF Left
        <4> QED
          BY <2>2, <2>3, LeastNat
      <3> QED
        BY <3>1
    <2>5. PICK v \in S : WaitsFor(w, v)
      OBVIOUS
    <2>6. PICK x \in S : WaitsFor(v, x)
      OBVIOUS
    <2>7. pc[w] = "claim"
      BY <2>5, WaitsClimb
    <2>8. v \in C /\ idx[w] < idx[v]
      BY <2>5, <2>6, <2>7, WaitsClimb
    <2> QED
      BY <2>1, <2>4, <2>8, NHandlersAssumption
  <1> QED
    BY <1>1, WaitInvariance, PTL

-----------------------------------------------------------------------------
(* Every repeated execution is paid for by a fault.                        *)

\* Slot w's open transaction has executed handler h of event e and will record it.
Holds(w, e, h) ==
    /\ Busy(w) /\ Ev(w) = e
    /\ txn[w][h] = "COMPLETED" \/ (pc[w] = "finish" /\ idx[w] = h)

\* The execution of h that counts for good: committed, or in an open transaction.
Kept(e, h) == procs[e][h] = "COMPLETED" \/ \E w \in Worker : Holds(w, e, h)

\* Deliveries that have failed at an earlier handler and whose execution of h, still to
\* come or done, will be rolled back: their failure pays for it.
Owing(e, h) ==
    {w \in Worker : /\ Busy(w) /\ Ev(w) = e /\ errs[w]
                    /\ idx[w] <= h \/ Holds(w, e, h)}

\* Executions done and owed stay within the faults so far and the one that is kept.
Budget(e, h) ==
    /\ IsFiniteSet(Owing(e, h))
    /\ runs[e][h] + Cardinality(Owing(e, h)) <= faults + (IF Kept(e, h) THEN 1 ELSE 0)

RerunInv == WaitInv /\ \A e \in Event, h \in Handler : Budget(e, h)

\* A step that neither executes h nor makes a new delivery owe an execution of it, and
\* that gives up the execution that is kept only with a fault.
Quiet(e, h) ==
    /\ runs'[e][h] = runs[e][h]
    /\ Owing(e, h)' \subseteq Owing(e, h)
    /\ faults' = faults + 1 \/ (faults' = faults /\ (Kept(e, h) => Kept(e, h)'))

\* A quiet step stays within the budget.
LEMMA BudgetQuiet ==
  ASSUME TypeOK, NEW e \in Event, NEW h \in Handler, Budget(e, h), Quiet(e, h)
  PROVE  Budget(e, h)'
  <1>1. /\ IsFiniteSet(Owing(e, h)')
        /\ Cardinality(Owing(e, h)') \in Nat /\ Cardinality(Owing(e, h)) \in Nat
        /\ Cardinality(Owing(e, h)') <= Cardinality(Owing(e, h))
    BY CountPart DEF Budget, Quiet
  <1>2. runs[e][h] \in Nat /\ faults \in Nat
    BY MaxFaultsAssumption DEF TypeOK
  <1> QED
    BY <1>1, <1>2 DEF Budget, Quiet

\* So does the first execution that is kept.
LEMMA BudgetRun ==
  ASSUME TypeOK, NEW e \in Event, NEW h \in Handler, Budget(e, h),
         runs'[e][h] = runs[e][h] + 1, Owing(e, h)' \subseteq Owing(e, h),
         faults' = faults, ~Kept(e, h), Kept(e, h)'
  PROVE  Budget(e, h)'
  <1>1. /\ IsFiniteSet(Owing(e, h)')
        /\ Cardinality(Owing(e, h)') \in Nat /\ Cardinality(Owing(e, h)) \in Nat
        /\ Cardinality(Owing(e, h)') <= Cardinality(Owing(e, h))
    BY CountPart DEF Budget
  <1>2. runs[e][h] \in Nat /\ faults \in Nat
    BY MaxFaultsAssumption DEF TypeOK
  <1> QED
    BY <1>1, <1>2 DEF Budget

\* A fault pays for what the failed delivery will execute in vain.
LEMMA BudgetFail ==
  ASSUME TypeOK, NEW e \in Event, NEW h \in Handler, Budget(e, h), NEW w,
         runs'[e][h] = runs[e][h], Owing(e, h)' \subseteq Owing(e, h) \cup {w},
         faults' = faults + 1, Kept(e, h) => Kept(e, h)'
  PROVE  Budget(e, h)'
  <1>1. /\ IsFiniteSet(Owing(e, h)')
        /\ Cardinality(Owing(e, h)') \in Nat /\ Cardinality(Owing(e, h)) \in Nat
        /\ Cardinality(Owing(e, h)') <= Cardinality(Owing(e, h)) + 1
    BY CountGain DEF Budget
  <1>2. runs[e][h] \in Nat /\ faults \in Nat
    BY MaxFaultsAssumption DEF TypeOK
  <1> QED
    BY <1>1, <1>2 DEF Budget

\* The rollback of a failed delivery gives up an execution that was paid for.
LEMMA BudgetDiscard ==
  ASSUME TypeOK, NEW e \in Event, NEW h \in Handler, Budget(e, h), NEW w \in Owing(e, h),
         runs'[e][h] = runs[e][h], Owing(e, h)' \subseteq Owing(e, h) \ {w},
         faults' = faults
  PROVE  Budget(e, h)'
  <1>1. /\ IsFiniteSet(Owing(e, h)')
        /\ Cardinality(Owing(e, h)') \in Nat /\ Cardinality(Owing(e, h)) \in Nat
        /\ Cardinality(Owing(e, h)') + 1 <= Cardinality(Owing(e, h))
    BY CountLoss DEF Budget
  <1>2. runs[e][h] \in Nat /\ faults \in Nat
    BY MaxFaultsAssumption DEF TypeOK
  <1> QED
    BY <1>1, <1>2 DEF Budget

\* What slot w does leaves the other slots' deliveries and their transactions alone.
Alone(w) ==
    \A u \in Worker \ {w} :
        /\ pc'[u] = pc[u] /\ msg'[u] = msg[u] /\ idx'[u] = idx[u] /\ errs'[u] = errs[u]
        /\ txn'[u] = txn[u]

\* A step of slot w is quiet when it is quiet for w and for the committed row.
LEMMA QuietAt ==
  ASSUME NEW e \in Event, NEW h \in Handler, NEW w \in Worker, Alone(w),
         runs'[e][h] = runs[e][h],
         w \in Owing(e, h)' => w \in Owing(e, h),
         \/ faults' = faults + 1
         \/ /\ faults' = faults
            /\ procs[e][h] = "COMPLETED" => procs'[e][h] = "COMPLETED"
            /\ Holds(w, e, h) => Holds(w, e, h)' \/ procs'[e][h] = "COMPLETED"
  PROVE  Quiet(e, h)
  <1>1. \A u \in Worker \ {w} : Holds(u, e, h)' <=> Holds(u, e, h)
    BY DEF Alone, Holds, Busy, Ev
  <1>2. \A u \in Worker \ {w} : u \in Owing(e, h)' <=> u \in Owing(e, h)
    BY <1>1 DEF Alone, Owing, Busy, Ev
  <1>3. Owing(e, h)' \subseteq Owing(e, h)
    BY <1>2 DEF Owing
  <1>4. faults' = faults + 1 \/ (faults' = faults /\ (Kept(e, h) => Kept(e, h)'))
    BY <1>1 DEF Kept
  <1> QED
    BY <1>3, <1>4 DEF Quiet

\* At the guard the transaction has not yet written the row it is about to claim.
LEMMA ClaimFree ==
  ASSUME TypeInv, OrderOK, NEW w \in Worker, pc[w] = "claim"
  PROVE  idx[w] \in Handler /\ txn[w][idx[w]] = "NONE"
  <1>1. idx[w] \in Handler
    BY DEF TypeInv, SlotOK
  <1>2. ~(idx[w] < idx[w])
    BY <1>1, NHandlersAssumption DEF Handler
  <1> QED
    BY <1>1, <1>2 DEF OrderOK

\* Only a slot inside the router holds an execution.
LEMMA HoldsRouting ==
  ASSUME OverlayOK, NEW w \in Worker, NEW e, NEW h \in Handler, Holds(w, e, h)
  PROVE  pc[w] \in RoutingPc
  BY NoRowsOutside DEF Holds, RoutingPc

\* Every step but the execution of a handler, its failure and the rollback after it is
\* quiet.
LEMMA QuietSteps ==
  ASSUME WaitInv, NEW e \in Event, NEW h \in Handler,
         \/ \E w \in Worker, m \in Message : Receive(w, m)
         \/ \E m \in Message : VisibilityTimeout(m)
         \/ \E w \in Worker : \/ Reject(w)
                              \/ LookupEvent(w)
                              \/ InsertEvent(w)
                              \/ InsertEventConflict(w)
                              \/ AcceptUnknown(w)
                              \/ BeginRouting(w)
                              \/ SkipHandler(w)
                              \/ SelectHandler(w)
                              \/ ClaimHandler(w)
                              \/ ClaimConflict(w)
                              \/ CompleteHandler(w)
                              \/ CommitProcessed(w)
                              \/ MarkFailed(w)
                              \/ DeleteMessage(w)
                              \/ DeleteLost(w)
                              \/ Crash(w)
         \/ UNCHANGED vars
  PROVE  Quiet(e, h)
  <1> USE EventOfAssumption, KindAssumption, NHandlersAssumption, NoneAssumption
      DEF WaitInv, IInv, TypeInv, TypeOK, SlotOK, Handler, RoutingPc, Goto, EndDelivery,
          AbortDelivery, FreeLocks, DropOverlay, OverlayOK
  <1>1. ASSUME NEW w \in Worker, NEW m \in Message, Receive(w, m) PROVE Quiet(e, h)
    <2>1. Alone(w) /\ runs' = runs
      BY <1>1 DEF Receive, Alone
    <2>2. w \in Owing(e, h)' => w \in Owing(e, h)
      BY <1>1 DEF Receive, Owing, Holds, Busy, Ev, NoRows
    <2>3. /\ faults' = faults
          /\ procs[e][h] = "COMPLETED" => procs'[e][h] = "COMPLETED"
          /\ Holds(w, e, h) => Holds(w, e, h)' \/ procs'[e][h] = "COMPLETED"
      BY <1>1 DEF Receive, Holds, Busy, Ev, NoRows
    <2> QED
      BY <2>1, <2>2, <2>3, QuietAt
  <1>2. ASSUME NEW m \in Message, VisibilityTimeout(m) PROVE Quiet(e, h)
    BY <1>2 DEF VisibilityTimeout, Quiet, Owing, Kept, Holds, Busy, Ev
  <1>3. ASSUME NEW w \in Worker, Reject(w) PROVE Quiet(e, h)
    <2>1. Alone(w) /\ runs' = runs
      BY <1>3 DEF Reject, Alone
    <2>2. w \in Owing(e, h)' => w \in Owing(e, h)
      BY <1>3 DEF Reject, Owing, Holds, Busy, Ev, NoRows
    <2>3. /\ faults' = faults
          /\ procs[e][h] = "COMPLETED" => procs'[e][h] = "COMPLETED"
          /\ Holds(w, e, h) => Holds(w, e, h)' \/ procs'[e][h] = "COMPLETED"
      BY <1>3 DEF Reject, Holds, Busy, Ev, NoRows
    <2> QED
      BY <2>1, <2>2, <2>3, QuietAt
  <1>4. ASSUME NEW w \in Worker, LookupEvent(w) PROVE Quiet(e, h)
    <2>1. Alone(w) /\ runs' = runs
      BY <1>4 DEF LookupEvent, Alone
    <2>2. w \in Owing(e, h)' => w \in Owing(e, h)
      BY <1>4 DEF LookupEvent, Owing, Holds, Busy, Ev, NoRows
    <2>3. /\ faults' = faults
          /\ procs[e][h] = "COMPLETED" => procs'[e][h] = "COMPLETED"
          /\ Holds(w, e, h) => Holds(w, e, h)' \/ procs'[e][h] = "COMPLETED"
      BY <1>4 DEF LookupEvent, Holds, Busy, Ev, NoRows
    <2> QED
      BY <2>1, <2>2, <2>3, QuietAt
  <1>5. ASSUME NEW w \in Worker, InsertEvent(w) PROVE Quiet(e, h)
    <2>1. Alone(w) /\ runs' = runs
      BY <1>5 DEF InsertEvent, Alone
    <2>2. w \in Owing(e, h)' => w \in Owing(e, h)
      BY <1>5 DEF InsertEvent, Owing, Holds, Busy, Ev, NoRows
    <2>3. /\ faults' = faults
          /\ procs[e][h] = "COMPLETED" => procs'[e][h] = "COMPLETED"
          /\ Holds(w, e, h) => Holds(w, e, h)' \/ procs'[e][h] = "COMPLETED"
      BY <1>5 DEF InsertEvent, Holds, Busy, Ev, NoRows
    <2> QED
      BY <2>1, <2>2, <2>3, QuietAt
  <1>6. ASSUME NEW w \in Worker, InsertEventConflict(w) PROVE Quiet(e, h)
    <2>1. Alone(w) /\ runs' = runs
      BY <1>6 DEF InsertEventConflict, Alone
    <2>2. w \in Owing(e, h)' => w \in Owing(e, h)
      BY <1>6 DEF InsertEventConflict, Owing, Holds, Busy, Ev, NoRows
    <2>3. faults' = faults /\ procs' = procs /\ ~Holds(w, e, h)
      BY <1>6, HoldsRouting DEF InsertEventConflict
    <2> QED
      BY <2>1, <2>2, <2>3, QuietAt
  <1>7. ASSUME NEW w \in Worker, AcceptUnknown(w) PROVE Quiet(e, h)
    <2>1. Alone(w) /\ runs' = runs
      BY <1>7 DEF AcceptUnknown, Alone
    <2>2. w \in Owing(e, h)' => w \in Owing(e, h)
      BY <1>7 DEF AcceptUnknown, Owing, Holds, Busy, Ev, NoRows
    <2>3. /\ faults' = faults
          /\ procs[e][h] = "COMPLETED" => procs'[e][h] = "COMPLETED"
          /\ Holds(w, e, h) => Holds(w, e, h)' \/ procs'[e][h] = "COMPLETED"
      BY <1>7 DEF AcceptUnknown, Holds, Busy, Ev, NoRows
    <2> QED
      BY <2>1, <2>2, <2>3, QuietAt
  <1>8. ASSUME NEW w \in Worker, BeginRouting(w) PROVE Quiet(e, h)
    <2>1. Alone(w) /\ runs' = runs
      BY <1>8 DEF BeginRouting, Alone
    <2>2. w \in Owing(e, h)' => w \in Owing(e, h)
      BY <1>8 DEF BeginRouting, Owing, Holds, Busy, Ev, NoRows
    <2>3. /\ faults' = faults
          /\ procs[e][h] = "COMPLETED" => procs'[e][h] = "COMPLETED"
          /\ Holds(w, e, h) => Holds(w, e, h)' \/ procs'[e][h] = "COMPLETED"
      BY <1>8 DEF BeginRouting, Holds, Busy, Ev, NoRows
    <2> QED
      BY <2>1, <2>2, <2>3, QuietAt
  <1>9. ASSUME NEW w \in Worker, SkipHandler(w) PROVE Quiet(e, h)
    <2>1. Alone(w) /\ runs' = runs
      BY <1>9 DEF SkipHandler, Alone
    <2>2. w \in Owing(e, h)' => w \in Owing(e, h)
      BY <1>9 DEF SkipHandler, Owing, Holds, Busy, Ev, NoRows
    <2>3. /\ faults' = faults
          /\ procs[e][h] = "COMPLETED" => procs'[e][h] = "COMPLETED"
          /\ Holds(w, e, h) => Holds(w, e, h)' \/ procs'[e][h] = "COMPLETED"
      BY <1>9 DEF SkipHandler, Holds, Busy, Ev, NoRows
    <2> QED
      BY <2>1, <2>2, <2>3, QuietAt
  <1>10. ASSUME NEW w \in Worker, SelectHandler(w) PROVE Quiet(e, h)
    <2>1. Alone(w) /\ runs' = runs
      BY <1>10 DEF SelectHandler, Alone
    <2>2. w \in Owing(e, h)' => w \in Owing(e, h)
      BY <1>10 DEF SelectHandler, Owing, Holds, Busy, Ev, NoRows
    <2>3. /\ faults' = faults
          /\ procs[e][h] = "COMPLETED" => procs'[e][h] = "COMPLETED"
          /\ Holds(w, e, h) => Holds(w, e, h)' \/ procs'[e][h] = "COMPLETED"
      BY <1>10 DEF SelectHandler, Holds, Busy, Ev, NoRows
    <2> QED
      BY <2>1, <2>2, <2>3, QuietAt
  <1>11. ASSUME NEW w \in Worker, ClaimHandler(w) PROVE Quiet(e, h)
    <2>1. Alone(w) /\ runs' = runs
      BY <1>11 DEF ClaimHandler, Alone
    <2>2. w \in Owing(e, h)' => w \in Owing(e, h)
      BY <1>11 DEF ClaimHandler, Owing, Holds, Busy, Ev, NoRows
    <2>3. faults' = faults /\ procs' = procs /\ (Holds(w, e, h) => Holds(w, e, h)')
      <3>1. idx[w] \in Handler /\ txn[w][idx[w]] = "NONE"
        BY <1>11, ClaimFree DEF ClaimHandler
      <3> QED
        BY <1>11, <3>1 DEF ClaimHandler, Holds, Busy, Ev
    <2> QED
      BY <2>1, <2>2, <2>3, QuietAt
  <1>12. ASSUME NEW w \in Worker, ClaimConflict(w) PROVE Quiet(e, h)
    <2>1. Alone(w) /\ runs' = runs
      BY <1>12 DEF ClaimConflict, Alone
    <2>2. w \in Owing(e, h)' => w \in Owing(e, h)
      BY <1>12 DEF ClaimConflict, Owing, Holds, Busy, Ev, NoRows
    <2>3. faults' = faults /\ procs' = procs /\ ~Holds(w, e, h)
      <3>1. idx[w] \in Handler /\ Ev(w) \in Event /\ Busy(w)
        BY <1>12 DEF ClaimConflict, Busy, Ev
      <3>2. procs[Ev(w)] # NoRows
        BY <1>12, <3>1 DEF ClaimConflict, NoRows
      <3>3. procs[Ev(w)][h] = "COMPLETED"
        BY <3>1, <3>2 DEF AllOrNothing
      <3>4. txn[w][h] = "NONE"
        BY <3>1, <3>3 DEF IndexOK
      <3> QED
        BY <1>12, <3>4 DEF ClaimConflict, Holds
    <2> QED
      BY <2>1, <2>2, <2>3, QuietAt
  <1>13. ASSUME NEW w \in Worker, CompleteHandler(w) PROVE Quiet(e, h)
    <2>1. Alone(w) /\ runs' = runs
      BY <1>13 DEF CompleteHandler, Alone
    <2>2. w \in Owing(e, h)' => w \in Owing(e, h)
      BY <1>13 DEF CompleteHandler, Owing, Holds, Busy, Ev, NoRows
    <2>3. /\ faults' = faults
          /\ procs[e][h] = "COMPLETED" => procs'[e][h] = "COMPLETED"
          /\ Holds(w, e, h) => Holds(w, e, h)' \/ procs'[e][h] = "COMPLETED"
      BY <1>13 DEF CompleteHandler, Holds, Busy, Ev, NoRows
    <2> QED
      BY <2>1, <2>2, <2>3, QuietAt
  <1>14. ASSUME NEW w \in Worker, CommitProcessed(w) PROVE Quiet(e, h)
    <2>1. Alone(w) /\ runs' = runs
      BY <1>14 DEF CommitProcessed, Alone
    <2>2. w \in Owing(e, h)' => w \in Owing(e, h)
      BY <1>14 DEF CommitProcessed, Owing, Holds, Busy, Ev, NoRows
    <2>3. /\ faults' = faults
          /\ procs[e][h] = "COMPLETED" => procs'[e][h] = "COMPLETED"
          /\ Holds(w, e, h) => procs'[e][h] = "COMPLETED"
      <3>1. Ev(w) \in Event /\ Busy(w)
        BY <1>14 DEF CommitProcessed, Busy, Ev
      <3>2. procs'[e][h] = IF e = Ev(w) THEN Seen(w, h) ELSE procs[e][h]
        BY <1>14 DEF CommitProcessed
      <3>3. e = Ev(w) /\ procs[e][h] = "COMPLETED" => Seen(w, h) = "COMPLETED"
        BY <3>1 DEF IndexOK, Seen
      <3> QED
        BY <1>14, <3>2, <3>3 DEF CommitProcessed, Holds, Seen
    <2> QED
      BY <2>1, <2>2, <2>3, QuietAt
  <1>15. ASSUME NEW w \in Worker, MarkFailed(w) PROVE Quiet(e, h)
    <2>1. Alone(w) /\ runs' = runs
      BY <1>15 DEF MarkFailed, Alone
    <2>2. w \in Owing(e, h)' => w \in Owing(e, h)
      BY <1>15 DEF MarkFailed, Owing, Holds, Busy, Ev, NoRows
    <2>3. faults' = faults /\ procs' = procs /\ ~Holds(w, e, h)
      BY <1>15, HoldsRouting DEF MarkFailed
    <2> QED
      BY <2>1, <2>2, <2>3, QuietAt
  <1>16. ASSUME NEW w \in Worker, DeleteMessage(w) PROVE Quiet(e, h)
    <2>1. Alone(w) /\ runs' = runs
      BY <1>16 DEF DeleteMessage, Alone
    <2>2. w \in Owing(e, h)' => w \in Owing(e, h)
      BY <1>16 DEF DeleteMessage, Owing, Holds, Busy, Ev, NoRows
    <2>3. /\ faults' = faults
          /\ procs[e][h] = "COMPLETED" => procs'[e][h] = "COMPLETED"
          /\ Holds(w, e, h) => Holds(w, e, h)' \/ procs'[e][h] = "COMPLETED"
      BY <1>16 DEF DeleteMessage, Holds, Busy, Ev, NoRows
    <2> QED
      BY <2>1, <2>2, <2>3, QuietAt
  <1>17. ASSUME NEW w \in Worker, DeleteLost(w) PROVE Quiet(e, h)
    <2>1. Alone(w) /\ runs' = runs
      BY <1>17 DEF DeleteLost, Alone
    <2>2. w \in Owing(e, h)' => w \in Owing(e, h)
      BY <1>17 DEF DeleteLost, Owing, Holds, Busy, Ev, NoRows
    <2>3. faults' = faults + 1
      BY <1>17 DEF DeleteLost
    <2> QED
      BY <2>1, <2>2, <2>3, QuietAt
  <1>18. ASSUME NEW w \in Worker, Crash(w) PROVE Quiet(e, h)
    <2>1. Alone(w) /\ runs' = runs
      BY <1>18 DEF Crash, Alone
    <2>2. w \in Owing(e, h)' => w \in Owing(e, h)
      BY <1>18 DEF Crash, Owing, Holds, Busy, Ev, NoRows
    <2>3. faults' = faults + 1
      BY <1>18 DEF Crash
    <2> QED
      BY <2>1, <2>2, <2>3, QuietAt
  <1>19. CASE UNCHANGED vars
    BY <1>19 DEF vars, Quiet, Owing, Kept, Holds, Busy, Ev
  <1> QED
    BY <1>1, <1>2, <1>3, <1>4, <1>5, <1>6, <1>7, <1>8, <1>9, <1>10, <1>11, <1>12, <1>13,
       <1>14, <1>15, <1>16, <1>17, <1>18, <1>19

\* The budget is kept by every step.
LEMMA RerunStep == RerunInv /\ [Next]_vars => RerunInv'
  <1> SUFFICES ASSUME RerunInv, [Next]_vars, NEW e \in Event, NEW h \in Handler
               PROVE  Budget(e, h)'
    BY WaitStep DEF RerunInv
  <1> USE EventOfAssumption, NHandlersAssumption
      DEF RerunInv, WaitInv, IInv, TypeInv
  <1>1. CASE Quiet(e, h)
    BY <1>1, BudgetQuiet
  <1>2. ASSUME NEW w \in Worker, RunHandler(w) PROVE Budget(e, h)'
    <2>1. idx[w] \in Handler /\ Ev(w) \in Event /\ procs[Ev(w)][idx[w]] = "NONE"
      BY <1>2, RunsUncommitted DEF RunHandler
    <2>2. CASE e = Ev(w) /\ h = idx[w]
      <3>1. /\ Alone(w) /\ faults' = faults
            /\ runs'[e][h] = runs[e][h] + 1
        BY <1>2, <2>1, <2>2 DEF RunHandler, Alone, Goto, TypeOK
      <3>2. ~Kept(e, h)
        <4>1. /\ Busy(w) /\ txn[w][h] = "PROCESSING"
              /\ \A u \in Worker \ {w} : Busy(u) /\ Ev(u) = e => txn[u][h] = "NONE"
          BY <1>2, <2>1, <2>2 DEF RunHandler, OverlayOK, IndexOK, Busy
        <4>2. ASSUME NEW u \in Worker PROVE ~Holds(u, e, h)
          BY <1>2, <2>2, <4>1 DEF RunHandler, Holds, OverlayOK
        <4> QED
          BY <2>1, <2>2, <4>2 DEF Kept
      <3>3. Holds(w, e, h)'
        BY <1>2, <2>2 DEF RunHandler, Holds, Busy, Ev, Goto, TypeOK
      <3>4. Owing(e, h)' \subseteq Owing(e, h)
        BY <1>2, <2>2 DEF RunHandler, Owing, Holds, Busy, Ev, Goto, TypeOK
      <3> QED
        BY <3>1, <3>2, <3>3, <3>4, BudgetRun DEF Kept
    <2>3. CASE ~(e = Ev(w) /\ h = idx[w])
      <3>1. Alone(w) /\ procs' = procs /\ faults' = faults /\ runs'[e][h] = runs[e][h]
        BY <1>2, <2>1, <2>3 DEF RunHandler, Alone, Goto, TypeOK
      <3>2. w \in Owing(e, h)' => w \in Owing(e, h)
        BY <1>2, <2>3 DEF RunHandler, Owing, Holds, Busy, Ev, Goto, TypeOK
      <3>3. Holds(w, e, h) => Holds(w, e, h)'
        BY <1>2, <2>3 DEF RunHandler, Holds, Busy, Ev, Goto, TypeOK
      <3> QED
        BY <3>1, <3>2, <3>3, QuietAt, <1>1
    <2> QED
      BY <2>2, <2>3
  <1>3. ASSUME NEW w \in Worker, FailHandler(w) PROVE Budget(e, h)'
    <2>1. /\ Alone(w) /\ runs' = runs /\ procs' = procs /\ faults' = faults + 1
          /\ idx'[w] = idx[w] + 1 /\ idx[w] \in Handler
      BY <1>3 DEF FailHandler, Alone, Goto, DropOverlay, TypeOK, SlotOK
    <2>2. CASE h <= idx[w]
      <3>1. ~(w \in Owing(e, h)')
        BY <1>3, <2>1, <2>2
        DEF FailHandler, Owing, Holds, Goto, DropOverlay, TypeOK, NoRows, Handler
      <3> QED
        BY <2>1, <3>1, QuietAt, <1>1
    <2>3. CASE ~(h <= idx[w])
      <3>1. ~Holds(w, e, h)
        BY <2>1, <2>3 DEF Holds, OrderOK, Handler
      <3>2. \A u \in Worker \ {w} :
                /\ Holds(u, e, h)' <=> Holds(u, e, h)
                /\ u \in Owing(e, h)' <=> u \in Owing(e, h)
        BY <2>1 DEF Alone, Owing, Holds, Busy, Ev
      <3>3. Owing(e, h)' \subseteq Owing(e, h) \cup {w}
        BY <3>2 DEF Owing
      <3>4. Kept(e, h) => Kept(e, h)'
        BY <2>1, <3>1, <3>2 DEF Kept
      <3> QED
        BY <2>1, <3>3, <3>4, BudgetFail
    <2> QED
      BY <2>2, <2>3
  <1>4. ASSUME NEW w \in Worker, DiscardErrors(w) PROVE Budget(e, h)'
    <2>1. /\ Alone(w) /\ runs' = runs /\ procs' = procs /\ faults' = faults
          /\ errs[w] /\ Busy(w)
      BY <1>4 DEF DiscardErrors, Alone, Goto, DropOverlay, TypeOK, Busy
    <2>2. ~(w \in Owing(e, h)')
      BY <1>4 DEF DiscardErrors, Owing, Holds, Goto, DropOverlay, TypeOK, NoRows, Handler
    <2>3. CASE Holds(w, e, h)
      <3>1. w \in Owing(e, h)
        BY <2>1, <2>3 DEF Owing, Holds
      <3>2. \A u \in Worker \ {w} : u \in Owing(e, h)' <=> u \in Owing(e, h)
        BY <2>1 DEF Alone, Owing, Holds, Busy, Ev
      <3>3. Owing(e, h)' \subseteq Owing(e, h) \ {w}
        BY <2>2, <3>2 DEF Owing
      <3> QED
        BY <2>1, <3>1, <3>3, BudgetDiscard
    <2>4. CASE ~Holds(w, e, h)
      BY <2>1, <2>2, <2>4, QuietAt, <1>1
    <2> QED
      BY <2>3, <2>4
  <1> QED
    BY <1>1, <1>2, <1>3, <1>4, QuietSteps
    DEF Next, Progress, Intake, Routing, Fault

\* Redelivery alone never repeats a handler: executions of one handler of one event
\* exceed the first by no more than the failures, crashes and lost deletes.
THEOREM Reruns == Spec => []RerunsNeedFaults
  <1>1. RerunInv => RerunsNeedFaults
    <2> SUFFICES ASSUME RerunInv, NEW e \in Event, NEW h \in Handler
                 PROVE  runs[e][h] <= 1 + faults
      BY DEF RerunsNeedFaults
    <2>1. runs[e][h] \in Nat /\ faults \in Nat
      BY MaxFaultsAssumption DEF RerunInv, WaitInv, IInv, TypeInv, TypeOK
    <2>2. /\ Cardinality(Owing(e, h)) \in Nat
          /\ runs[e][h] + Cardinality(Owing(e, h)) <= faults + (IF Kept(e, h) THEN 1 ELSE 0)
      BY FS_CardinalityType DEF RerunInv, Budget
    <2> QED
      BY <2>1, <2>2
  <1>2. Init => RerunInv
    <2> SUFFICES ASSUME Init, NEW e \in Event, NEW h \in Handler PROVE Budget(e, h)
      BY WaitInit DEF RerunInv
    <2>1. Owing(e, h) = {} /\ runs[e][h] = 0 /\ faults = 0
      BY DEF Init, Owing, Busy
    <2> QED
      BY <2>1, FS_EmptySet DEF Budget
  <1> QED
    BY <1>1, <1>2, RerunStep, PTL DEF Spec

-----------------------------------------------------------------------------
(* The pipeline implements the ledger.                                     *)

DoneEvents == {e \in Event : \A h \in Handler : procs[e][h] = "COMPLETED"}
AckedMessages == {m \in Routable : queue[m] = "deleted"}

\* A message is deleted by DeleteMessage and nowhere else.
LEMMA DeletesOnly ==
  TypeOK /\ [Next]_vars =>
      \/ AckedMessages' = AckedMessages
      \/ \E w \in Worker : DeleteMessage(w)
  <1> SUFFICES ASSUME TypeOK, [Next]_vars
               PROVE  \/ AckedMessages' = AckedMessages
                      \/ \E w \in Worker : DeleteMessage(w)
    OBVIOUS
  <1>1. \/ queue' = queue
        \/ \E w \in Worker, m \in Message : Receive(w, m)
        \/ \E m \in Message : VisibilityTimeout(m)
        \/ \E w \in Worker : DeleteMessage(w)
    BY DEF Next, vars, Progress, Intake, Routing, Fault,
           Reject, LookupEvent, InsertEvent, InsertEventConflict, AcceptUnknown,
           BeginRouting, SkipHandler, SelectHandler, ClaimHandler, ClaimConflict,
           RunHandler, CompleteHandler, FailHandler, CommitProcessed, DiscardErrors,
           MarkFailed, DeleteLost, Crash
  <1>2. ASSUME NEW m \in Message, queue[m] # "deleted",
               queue' = [queue EXCEPT ![m] = "inflight"] \/
               queue' = [queue EXCEPT ![m] = "visible"]
        PROVE  AckedMessages' = AckedMessages
    BY <1>2, KindAssumption DEF AckedMessages, TypeOK
  <1> QED
    BY <1>1, <1>2 DEF Receive, VisibilityTimeout, AckedMessages

\* Every step of the pipeline is a step of the ledger or leaves it unchanged: a handler
\* takes effect only while its event is not done, the event becomes done in one step after
\* all its handlers took effect, and only then are its messages deleted.
THEOREM Implementation == Spec => ImplementsLedger
  <1>1. Init => Ledger!Init
    <2> SUFFICES ASSUME Init PROVE Ledger!Init
      OBVIOUS
    <2>1. 1 \in Handler
      BY NHandlersAssumption DEF Handler
    <2> QED
      BY <2>1, KindAssumption DEF Init, Ledger!Init, NoRows
  <1>2. ASSUME IInv, [Next]_vars
        PROVE  [Ledger!Next]_(Ledger!vars)
    <2> USE DEF DoneEvents, AckedMessages
    <2>1. CASE \E w \in Worker : RunHandler(w)
      <3> PICK w \in Worker : RunHandler(w)
        BY <2>1
      <3>1. idx[w] \in Handler /\ Ev(w) \in Event /\ Ev(w) \notin DoneEvents
        BY RunsUncommitted, <1>2 DEF RunHandler
      <3>2. Ledger!Execute(Ev(w), idx[w])
        BY <3>1 DEF Ledger!Execute, RunHandler
      <3> QED
        BY <3>1, <3>2 DEF Ledger!Next
    <2>2. CASE \E w \in Worker : CommitProcessed(w)
      <3> PICK w \in Worker : CommitProcessed(w)
        BY <2>2
      <3>1. /\ Ev(w) \in Event
            /\ \A h \in Handler : Seen(w, h) = "COMPLETED"
        BY <1>2, EventOfAssumption, NHandlersAssumption
        DEF CommitProcessed, IInv, TypeInv, TypeOK, SlotOK, Busy, ProgressOK, Handler,
            RoutingPc, Ev
      <3>2. \A h \in Handler : runs[Ev(w)][h] > 0
        BY <3>1, <1>2 DEF CommitProcessed, IInv, RunsOK, Seen, Busy
      <3>3. DoneEvents' = DoneEvents \cup {Ev(w)}
        BY <3>1, <1>2 DEF CommitProcessed, IInv, TypeInv, TypeOK
      <3>4. CASE Ev(w) \in DoneEvents
        BY <3>3, <3>4 DEF CommitProcessed, Ledger!vars
      <3>5. CASE Ev(w) \notin DoneEvents
        <4>1. PICK e \in Event : e = Ev(w)
          BY <3>1
        <4>2. Ledger!Finish(e)
          BY <4>1, <3>2, <3>3, <3>5 DEF Ledger!Finish, CommitProcessed
        <4> QED
          BY <4>2 DEF Ledger!Next
      <3> QED
        BY <3>4, <3>5
    <2>3. CASE \E w \in Worker : DeleteMessage(w)
      <3> PICK w \in Worker : DeleteMessage(w)
        BY <2>3
      <3>1. msg[w] \in Message
        BY <1>2 DEF DeleteMessage, IInv, TypeInv, SlotOK, Busy
      <3>2. CASE msg[w] \in Routable
        <4>1. Ev(w) \in DoneEvents
          BY <3>1, <3>2, <1>2, EventOfAssumption DEF DeleteMessage, IInv, DeleteOK, Ev
        <4>2. AckedMessages' = AckedMessages \cup {msg[w]}
          BY <3>1, <3>2, <1>2, KindAssumption DEF DeleteMessage, IInv, TypeInv, TypeOK
        <4>3. PICK m \in Routable : m = msg[w]
          BY <3>2
        <4>4. Ledger!Acknowledge(m)
          BY <4>1, <4>2, <4>3 DEF Ledger!Acknowledge, DeleteMessage, Ev
        <4> QED
          BY <4>4 DEF Ledger!Next
      <3>3. CASE msg[w] \notin Routable
        <4>1. AckedMessages' = AckedMessages
          BY <3>1, <3>3, <1>2, KindAssumption DEF DeleteMessage, IInv, TypeInv, TypeOK
        <4> QED
          BY <4>1 DEF Ledger!vars, DeleteMessage
      <3> QED
        BY <3>2, <3>3
    <2>4. CASE procs' = procs /\ runs' = runs /\ AckedMessages' = AckedMessages
      BY <2>4 DEF Ledger!vars
    <2> QED
      BY <1>2, <2>1, <2>2, <2>3, <2>4, RunsOnly, CommitsOnly, DeletesOnly
      DEF IInv, TypeInv
  <1> QED
    BY <1>1, <1>2, Invariance, PTL DEF Spec, ImplementsLedger, Ledger!Spec
=============================================================================
