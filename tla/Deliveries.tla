----------------------------- MODULE Deliveries -----------------------------
(***************************************************************************)
(* What the business handlers share: the delivery of events about one      *)
(* document (a booking, a voucher, a shop order or a gift), the calls that *)
(* a handler makes to the other services, and the messages it sends.       *)
(*                                                                         *)
(* Documents share no state, so a behaviour follows one of them.  Slots of *)
(* the consumer work on its events; EventPipeline shows what the delivery  *)
(* of an event guarantees and this module assumes: one slot at a time, to  *)
(* the end once, again from the start after a failure or a crash, and the  *)
(* slot's database rows committed at the end only.                         *)
(*                                                                         *)
(* A handler is the list of steps it still has to do.  A step that calls   *)
(* another service may be answered, may be repeated by the client's retry  *)
(* after an answer that was lost, or may fail with or without effect; the  *)
(* handler then goes on without the steps that hang on it, or raises.      *)
(***************************************************************************)
EXTENDS Naturals, Sequences, FiniteSets, Bags

CONSTANTS
    Slot,        \* deliveries the consumer works on at once
    MaxEvents,   \* bound: events published in a behaviour
    MaxFaults    \* bound: failed or repeated calls and crashes in a behaviour

ASSUME EventsAssumption == MaxEvents \in Nat
ASSUME FaultsAssumption == MaxFaults \in Nat

VARIABLES
    doc,       \* facts about the document that no event changes
    remote,    \* what ushbooknpay, ushauth, ushanr and Redis hold about it
    log,       \* the events published, in order
    queue,     \* numbers of the events that are not yet processed
    slot,      \* slot[s]: the event in hand, the steps left, the handler's local variable
    rows,      \* committed notification rows of the phone channels, by template
    claims,    \* dedup keys set in Redis
    told,      \* messages that went out, a bag of <<template, channel, audience>>
    faults,    \* failed or repeated calls and crashes so far
    missed,    \* steps that failed and that their handler passed over
    tidy       \* events have been handled one by one in the order of publication

vars == <<doc, remote, log, queue, slot, rows, claims, told, faults, missed, tidy>>

Idle == [ev |-> 0, todo |-> <<>>, got |-> FALSE, rows |-> {}]

\* The delivery machinery before the first event; the documents are the callers'.
InitDelivery ==
    /\ log = <<>>
    /\ queue = {}
    /\ slot = [s \in Slot |-> Idle]
    /\ rows = {}
    /\ claims = {}
    /\ told = EmptyBag
    /\ faults = 0
    /\ missed = {}
    /\ tidy = TRUE

InHand == {slot[s].ev : s \in Slot} \ {0}
Quiescent == queue = {}

\* ushbooknpay publishes an event of the document.
Publish(e) ==
    /\ Len(log) < MaxEvents
    /\ log' = Append(log, e)
    /\ queue' = queue \cup {Len(log) + 1}
    /\ UNCHANGED <<doc, slot, rows, claims, told, faults, missed, tidy>>

Doing(s, op) == slot[s].todo # <<>> /\ Head(slot[s].todo)[1] = op
Ev(s) == log[slot[s].ev]

\* Slot s after the step at hand, with the steps `then' to do before the others.
After(s, then) == [slot[s] EXCEPT !.todo = then \o Tail(@)]
Holding(local) == [local EXCEPT !.got = TRUE]
Becomes(s, local) == slot' = [slot EXCEPT ![s] = local]

-----------------------------------------------------------------------------
(* Deliveries.                                                             *)

\* A slot receives an event that no other slot holds and its handler starts.
Begin(s, n, steps) ==
    /\ slot[s] = Idle
    /\ n \in queue \ InHand
    /\ Becomes(s, [Idle EXCEPT !.ev = n, !.todo = steps])
    /\ tidy' = (tidy /\ InHand = {} /\ \A m \in queue : n <= m)
    /\ UNCHANGED <<doc, remote, log, queue, rows, claims, told, faults, missed>>

\* The handler returned: its rows and the event's completion are committed.
End(s) ==
    /\ slot[s].ev # 0
    /\ slot[s].todo = <<>>
    /\ queue' = queue \ {slot[s].ev}
    /\ rows' = rows \cup slot[s].rows
    /\ Becomes(s, Idle)
    /\ UNCHANGED <<doc, remote, log, claims, told, faults, missed, tidy>>

\* The process dies: the transaction is lost, what other services did stays.
Crash(s) ==
    /\ slot[s].ev # 0
    /\ faults < MaxFaults
    /\ faults' = faults + 1
    /\ Becomes(s, Idle)
    /\ UNCHANGED <<doc, remote, log, queue, rows, claims, told, missed, tidy>>

-----------------------------------------------------------------------------
(* Calls of the service clients.                                           *)

\* A failure is counted as passed over unless the handler raises it.
PassOver(s, failed) ==
    missed' = IF failed = Idle THEN missed ELSE missed \cup {Head(slot[s].todo)[1]}

\* One call with the given effect; `done' and `failed' are what it leaves of the slot.
Call(s, Effect(_), done, failed) ==
    /\ \/ /\ remote' = Effect(remote)
          /\ Becomes(s, done)
          /\ UNCHANGED <<faults, missed>>
       \/ /\ faults < MaxFaults
          /\ faults' = faults + 1
          /\ \/ remote' = Effect(Effect(remote)) /\ Becomes(s, done) /\ UNCHANGED missed
             \/ /\ remote' \in {remote, Effect(remote)}
                /\ Becomes(s, failed)
                /\ PassOver(s, failed)
    /\ UNCHANGED <<doc, log, queue, rows, claims, told, tidy>>

\* The service refuses the values it is sent, and the handler raises.
Refuse(s) ==
    /\ Becomes(s, Idle)
    /\ UNCHANGED <<doc, remote, log, queue, rows, claims, told, faults, missed, tidy>>

Same(r) == r

\* POST /payments/: a payment record, with the invoice number if the payload has one.
AddPayment(numbered, r) ==
    [r EXCEPT !.payments = @ + 1, !.linked = IF numbered THEN @ + 1 ELSE @]

AddInvoice(r) == [r EXCEPT !.invoices = @ + 1]

\* Slip: the number is counted again on records that have it.
LinkAgain(r) == [r EXCEPT !.linked = @ + r.payments]

\* link-invoice sets the number on the payment records the document has by then.
LinkAll(r) == [r EXCEPT !.linked = r.payments]

\* link_booking_invoice writes the number on the booking itself.
Bill(r) == [r EXCEPT !.billed = TRUE]

-----------------------------------------------------------------------------
(* The invoice of a document: trigger_booking_invoice and its siblings for *)
(* vouchers, orders and gifts, which differ in the lines of the invoice.   *)

\* The triggers do nothing unless invoicing is configured.
Trigger(step) == IF doc.invoicing THEN <<step>> ELSE <<>>

EnsurePartner(s) ==
    /\ Doing(s, "partner")
    /\ Call(s, Same, After(s, << <<"invoice">> >>), After(s, <<>>))

\* Only the voucher's trigger hands the number back to its handler.  An answer without a
\* number ends like one that is lost: nothing is linked.
CreateInvoice(s) ==
    /\ Doing(s, "invoice")
    /\ LET linking == After(s, << <<"link_payments">> >>)
       IN  Call(s, AddInvoice, IF doc.kind = "voucher" THEN Holding(linking) ELSE linking,
                After(s, <<>>))

LinkPayments(s) ==
    /\ Doing(s, "link_payments")
    /\ Call(s, LinkAll,
            After(s, IF doc.kind = "booking" THEN << <<"link_booking">> >> ELSE <<>>),
            After(s, <<>>))

LinkBooking(s) ==
    /\ Doing(s, "link_booking")
    /\ Call(s, Bill, After(s, <<>>), After(s, <<>>))

\* A payment record; a failure never stops the handler.
RecordPayment(s) ==
    /\ Doing(s, "record")
    /\ Call(s, LAMBDA r : AddPayment(slot[s].got, r), After(s, <<>>), After(s, <<>>))

-----------------------------------------------------------------------------
(* Messages: a step <<"send", template, channel, audience>>.               *)

\* Templates under voucher/ and gifts/: one message per document, not per event.
ObjectScoped == {"active", "scheduled", "redeemed", "purchase", "claimed", "delivered", "used"}

\* Handlers that take any answer of send for a message sent.
Trusting == {"confirmed", "updated"}

\* Handlers that fall back to SMS when WhatsApp was not sent.
FallsBack == Trusting \cup {"active", "redeemed", "order"}

\* Handlers that let an exception of send through.
Unguarded ==
    {"refunded", "receipt", "otp", "verified", "password_reset", "password_changed",
     "email_verify", "payment_failed", "payment_pending"}

\* The name of its row: payment.success borrows the template of the confirmation.
RowOf(m) == IF m[1] = "receipt" THEN "confirmed" ELSE m[1]

\* Slip: every key is scoped to the event.
EventScopedKey(n, m) == <<m[1], m[2], m[3], n>>

\* Slip: no second channel when WhatsApp answers with a failure.
NoFallback(m) == <<>>

DedupKey(n, m) == <<m[1], m[2], m[3], IF m[1] \in ObjectScoped THEN 0 ELSE n>>
Fallback(m) ==
    IF m[2] = "whatsapp" /\ m[1] \in FallsBack
    THEN << <<"send", m[1], "sms", m[3]>> >> ELSE <<>>

\* NotificationService.send (NotificationDispatch models its inside): a duplicate, a
\* message sent, sent without a claim, not sent or raised, or a crash after the claim.
Send(s) ==
    /\ Doing(s, "send")
    /\ LET m == Tail(Head(slot[s].todo))
           key == DedupKey(slot[s].ev, m)
           kept == IF m[2] = "email" THEN {} ELSE {RowOf(m)}
           sent == told (+) SetToBag({m})
           noted == [After(s, <<>>) EXCEPT !.rows = @ \cup kept]
       IN  \/ /\ key \in claims
              /\ Becomes(s, After(s, <<>>))
              /\ UNCHANGED <<claims, told, faults, missed>>
           \/ /\ key \notin claims
              /\ Becomes(s, noted)
              /\ claims' = claims \cup {key}
              /\ told' = sent
              /\ UNCHANGED <<faults, missed>>
           \/ /\ key \notin claims
              /\ faults < MaxFaults
              /\ faults' = faults + 1
              /\ \/ Becomes(s, noted) /\ told' = sent /\ UNCHANGED missed
                 \/ /\ told' \in {told, sent}
                    /\ missed' = missed \cup {"send"}
                    /\ \/ Becomes(s, After(s, IF m[1] \in Trusting THEN <<>> ELSE Fallback(m)))
                       \/ Becomes(s, IF m[1] \in Unguarded THEN Idle ELSE After(s, Fallback(m)))
              /\ UNCHANGED claims
           \/ /\ key \notin claims
              /\ faults < MaxFaults
              /\ faults' = faults + 1
              /\ claims' = claims \cup {key}
              /\ Becomes(s, Idle)
              /\ UNCHANGED <<told, missed>>
    /\ UNCHANGED <<doc, remote, log, queue, rows, tidy>>

-----------------------------------------------------------------------------

SharedStep(s) ==
    \/ End(s) \/ Crash(s)
    \/ EnsurePartner(s) \/ CreateInvoice(s) \/ LinkPayments(s) \/ LinkBooking(s)
    \/ RecordPayment(s) \/ Send(s)

=============================================================================
