-------------------------- MODULE MCEventPipeline --------------------------
(***************************************************************************)
(* Instances of EventPipeline for TLC.  Every message m is given its event *)
(* by a table; the fault budget bounds failures, crashes and lost deletes. *)
(***************************************************************************)
EXTENDS EventPipeline, TLC

CONSTANTS m1, m2, m3, e1, e2

\* Two copies of one event in the queue (the producer published it twice).
SameEvent == m1 :> e1 @@ m2 :> e1

\* A routable message, an unregistered one, and a rejected one that carries the
\* event_id of the first.
MixedEvents == m1 :> e1 @@ m2 :> e2 @@ m3 :> e1

WorkerSymmetry == Permutations(Worker)
=============================================================================
