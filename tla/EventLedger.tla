---------------------------- MODULE EventLedger ----------------------------
(***************************************************************************)
(* What the event pipeline promises to the services that publish events,   *)
(* with queue, database and concurrency left out: the handlers of an event *)
(* may be executed several times until the event is done, never after it;  *)
(* an event is done in one step, when every handler has been executed; and *)
(* a message is acknowledged only when its event is done.                  *)
(***************************************************************************)
EXTENDS Naturals

CONSTANTS Message, Event, EventOf, Handler

VARIABLES
    done,    \* events all of whose handlers are recorded as completed
    runs,    \* runs[e][h]: executions of handler h for event e
    acked    \* messages acknowledged to the queue

vars == <<done, runs, acked>>

Init ==
    /\ done = {}
    /\ runs = [e \in Event |-> [h \in Handler |-> 0]]
    /\ acked = {}

Execute(e, h) ==
    /\ e \notin done
    /\ runs' = [runs EXCEPT ![e][h] = @ + 1]
    /\ UNCHANGED <<done, acked>>

Finish(e) ==
    /\ e \notin done
    /\ \A h \in Handler : runs[e][h] > 0
    /\ done' = done \cup {e}
    /\ UNCHANGED <<runs, acked>>

Acknowledge(m) ==
    /\ EventOf[m] \in done
    /\ acked' = acked \cup {m}
    /\ UNCHANGED <<done, runs>>

Next ==
    \/ \E e \in Event, h \in Handler : Execute(e, h)
    \/ \E e \in Event : Finish(e)
    \/ \E m \in Message : Acknowledge(m)

Spec == Init /\ [][Next]_vars
=============================================================================
