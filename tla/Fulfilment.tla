----------------------------- MODULE Fulfilment -----------------------------
(***************************************************************************)
(* Bookings, vouchers, orders, gifts and accounts: ushbooknpay publishes   *)
(* what happens to a document, slots of the consumer run the handlers of   *)
(* those events at the same time and in any order, and the calls of a      *)
(* handler may fail, be repeated, or be cut short by a crash.              *)
(***************************************************************************)
EXTENDS BookingHandlers, SalesHandlers, NoticeHandlers, Integers

CONSTANT Documents    \* the documents a behaviour may be about

ASSUME DocumentsAssumption == \A d \in Documents : d.kind \in Sold \cup {"booking", "account"}
ASSUME GivenAssumption ==
    \A d \in Documents : d.kind = "account" => d.given \subseteq Places \X {"phone", "email"}
ASSUME PayloadAssumption ==
    \A d \in Documents : d.kind = "booking" =>
        d.word \in {"success", "successful", "failed", "none"} /\ d.proof \in {"flag", "word", "none"}

Init ==
    /\ InitDelivery
    /\ doc \in Documents
    /\ remote = CASE doc.kind \in Sold -> NewSale
                  [] doc.kind = "account" -> NewAccount
                  [] doc.kind = "booking" -> IF doc.refunding THEN CancelledBooking ELSE NewBooking

Happen == BookingHappens \/ SaleHappens \/ NoticeHappens
Step(s) ==
    \/ BeginBooking(s) \/ BeginSale(s) \/ BeginNotice(s)
    \/ SharedStep(s) \/ BookingCall(s) \/ SaleCall(s)

Next == Happen \/ \E s \in Slot : Step(s)
Spec == Init /\ [][Next]_vars

-----------------------------------------------------------------------------
(* Properties.                                                             *)

Logged(types) == {n \in DOMAIN log : log[n].type \in types}
Handled(types) == Logged(types) \ queue

\* How often a message went out.
Copies(m) == IF BagIn(m, told) THEN told[m] ELSE 0

\* Messages of a template to an audience, over the phone channels.
Phoned(template, audience) ==
    Copies(<<template, "whatsapp", audience>>)
        + Copies(<<template, "sms", audience>>)
Customer(template) == Phoned(template, "customer")

\* The type of the events that want a message about an account.
Asks(m) ==
    CASE m[1] = "otp" -> "user_registered"
      [] m[1] = "verified" -> "user_verified"
      [] m[1] = "email_verify" -> "email_verification"
      [] m[1] = "payment_pending" -> "payment_reminder"
      [] m[1] = "direct" -> "sms_send"
      [] OTHER -> m[1]

Operations ==
    {"partner", "invoice", "link_payments", "link_booking", "record", "send", "put_row", "pay_row",
     "change_row", "drop_row", "mark_row", "set_booking", "mark_paid", "fetch", "find_link",
     "close_link", "credit", "reverse", "request_refund", "check_sent", "note", "link_note",
     "loose_note", "mark", "activate"}
Templates == ObjectScoped \cup Trusting \cup Unguarded \cup {"order", "direct"}
Messages ==
    Templates \X {"whatsapp", "sms", "email"} \X {"customer", "other", "sender", "recipient"}

\* The type invariant: slots hold published events and steps that have an action.
TypeOK ==
    /\ doc \in Documents
    /\ remote.payments \in Nat /\ remote.linked \in 0..remote.payments /\ remote.invoices \in Nat
    /\ queue \subseteq DOMAIN log
    /\ \A s \in Slot :
           /\ slot[s].ev \in queue \cup {0}
           /\ \A i \in DOMAIN slot[s].todo : slot[s].todo[i][1] \in Operations
           /\ slot[s].got \in BOOLEAN /\ slot[s].rows \subseteq Templates
    /\ rows \subseteq Templates
    /\ BagToSet(told) \subseteq Messages
    /\ faults \in 0..MaxFaults
    /\ missed \subseteq Operations
    /\ tidy \in BOOLEAN

\* Events that confirm a booking as paid, each effect by a test of its own (the handlers of
\* the other two types put "success" in the payload), and the sales that are paid.
Delegated == Logged({"link_paid", "status_success"})
Confirming == {n \in Logged({"confirmed"}) : IsPaid(log[n])} \cup Delegated
Crediting == {n \in Logged({"confirmed"}) : LoyaltySucceeded(log[n])} \cup Delegated
Charging == {n \in Logged({"confirmed"}) : Invoiceable(log[n])} \cup Delegated
Announcing == {n \in Logged({"confirmed"}) : Announced(log[n])} \cup Delegated
Selling ==
    Logged({"voucher_active", "voucher_scheduled", "gift_purchase_completed"})
        \cup {n \in Logged({"order_created"}) : log[n].pay = "success"}

\* Before somebody has paid, whatever was published or handled in which order, nothing is
\* invoiced, no points are credited, no payment is recorded (an unpaid order's is, with its
\* status) and nobody is told that a booking is confirmed or a gift is theirs.
NothingBeforePayment ==
    ~remote.paid =>
        /\ remote.invoices = 0
        /\ doc.kind # "order" => remote.payments = 0
        /\ doc.kind = "booking" => remote.earned = 0
        /\ \A t \in {"confirmed", "active", "scheduled", "purchase"} :
               \A m \in BagToSet(told) : m[1] # t

\* Each effect of a confirmation has an event that passes the test of that very effect,
\* whatever was redelivered: a payment that only payment_data tells of is recorded, and
\* neither credited nor announced.
EachByItsTest ==
    doc.kind = "booking" =>
        /\ Confirming = {} => remote.payments = 0
        /\ Charging = {} => remote.invoices = 0
        /\ Crediting = {} => remote.earned = 0
        /\ Announcing = {} => \A m \in BagToSet(told) : m[1] # "confirmed"

\* Every payment record, invoice, point and refund request has an event of its own, or a
\* fault that repeated a call or a delivery: no interleaving of deliveries, and no redelivery
\* after a refusal, makes another.  (The desk payment invoices twice: its handler and the
\* one it delegates to.)
CountsExplained ==
    LET Few(count, events) == count <= Cardinality(events) + faults
        desk == Logged({"status_success"})
    IN  /\ Few(remote.payments, Confirming \cup Selling \cup Logged({"order_created"}))
        /\ Few(remote.invoices - (IF desk = {} THEN 0 ELSE Cardinality(desk) + faults),
               Charging \cup Selling)
        /\ doc.kind = "booking" =>
               /\ Few(remote.earned, Crediting)
               /\ Few(remote.reversed, Logged({"cancelled"}))
               /\ Few(remote.requests, Logged({"cancelled"}))
               /\ Few(remote.loose, Logged({"payment_refunded"}))

\* Events whose payment is recorded and not invoiced: a voucher was invoiced when it was
\* bought, and the two tests of the payload differ.
RecordedOnly ==
    {n \in Confirming : ~GiftVoucher /\ (Redeems(log[n]) \/ n \notin Charging)}

\* When all deliveries are done, every payment record of something paid carries an invoice
\* number, whatever the order and the crashes, unless a call of the invoicing itself failed,
\* invoicing is not configured, or an event was of those that are recorded only.
RecordsInvoiced ==
    (/\ Quiescent
     /\ remote.paid
     /\ doc.invoicing
     /\ doc.kind = "booking" => RecordedOnly = {}
     /\ missed \cap {"partner", "invoice", "link_payments"} = {})
        => remote.linked = remote.payments

\* A handler that wrote an older status back reopened a cancelled booking, and it was
\* confirmed anew: its second confirmation is published before its cancellation is handled.
Reopened ==
    \E n, m \in DOMAIN log : n < m /\ log[n].type = "cancelled" /\ log[m].type = "confirmed"

\* Events handled in their order leave the calendar right: a cancelled or missed appointment
\* has no row, a confirmed one has a row that says so, unless a call failed for good.
\* (A handler that writes the status back makes the events published meanwhile stale.)
CalendarAgrees ==
    (/\ doc.kind = "booking"
     /\ tidy
     /\ Quiescent
     /\ missed \cap {"put_row", "drop_row", "set_booking"} = {})
        => /\ (remote.status \in {"cancelled", "no_show"} /\ ~Reopened) => remote.row = NoRow
           /\ (/\ remote.status = "confirmed"
               /\ Logged({"link_paid", "reschedule_requested"}) = {})
                  => remote.row.status = "confirmed"

\* The payment link of a booking that was cancelled before it was paid does not stay open,
\* in any order of the deliveries, whether or not the event carries the link.
LinkClosed ==
    (/\ doc.kind = "booking"
     /\ \E n \in Handled({"cancelled"}) : PendingPayment(log[n])
     /\ missed \cap {"find_link", "close_link"} = {})
        => remote.link # "open"

\* Without faults, and in whatever order its events are handled, a booking confirmed once and
\* then cancelled keeps no loyalty points, also when a refund is asked for.
PointsBalanced ==
    (/\ doc.kind = "booking"
     /\ Quiescent
     /\ faults = 0
     /\ Cardinality(Crediting) <= 1
     /\ Logged({"cancelled"}) # {})
        => remote.earned <= remote.reversed

\* Handled one by one, the events that confirm a booking (on payment, from the link, at the
\* desk, again later) send one confirmation to the phone.
OneConfirmation == (tidy /\ faults = 0) => Customer("confirmed") <= 1

\* When all is done and invoicing is configured, money asked back has its credit note and
\* the refund carries its number, points asked back have none, and cash leaves with the
\* completion of the refund only.
RefundsSettle ==
    (/\ doc.kind = "booking"
     /\ doc.invoicing
     /\ Quiescent
     /\ missed \cap {"note", "link_note"} = {})
        => /\ remote.note <=> "money" \in Approvals
           /\ remote.noted <=> remote.note
           /\ remote.cash <=> Logged({"refund_completed"}) # {}

\* The recipient of a scheduled gift hears nothing before the date of its delivery.
NoSpoiler ==
    (doc.kind = "voucher" /\ doc.ahead /\ ~remote.due)
        => \A m \in BagToSet(told) : m[3] # "recipient"

\* A gift published again under a new event id, even while the first is being handled, is
\* not announced again, and an account's message goes out once per event, also to a number
\* that is twice in a list: in each case at most one more per fault.
ToldOnce ==
    \A m \in BagToSet(told) :
        /\ doc.kind \in {"voucher", "gift"} => Copies(m) <= 1 + faults
        /\ doc.kind = "account" =>
               Copies(m) <= faults + Cardinality({n \in DOMAIN log : log[n].type = Asks(m)})

\* Whoever bought or was given something hears of it once its event is handled: without
\* faults, and for vouchers and orders also when one message did not go out.  (A booking's
\* event has to pass the test of the messages: nobody is told of a payment that only
\* payment_data tells of.)
Reached ==
    (faults = 0 \/ (faults = 1 /\ missed = {"send"} /\ doc.kind \in {"voucher", "order"})) =>
        /\ (doc.kind = "booking" /\ ~GiftVoucher /\ Announcing \ queue # {})
               => Customer("confirmed") + Customer("receipt") > 0
        /\ (\E n \in Handled({"voucher_active"}) : log[n].status = "active")
               => /\ Phoned("active", "recipient") > 0
                  /\ ~doc.self => Phoned("active", "sender") > 0
        /\ Handled({"order_created"}) # {} => Customer("order") > 0
        /\ (Handled({"gift_purchase_completed"}) # {} /\ ~doc.desk)
               => Phoned("purchase", "recipient") > 0
        /\ doc.kind = "account" =>
               \A t \in {"otp", "verified", "password_reset", "password_changed"} :
                   Handled({Asks(<<t>>)}) # {} =>
                       /\ (\E g \in doc.given : g[2] = "phone") => Customer(t) > 0
                       /\ (doc.mailing /\ \E g \in doc.given : g[2] = "email")
                              => Copies(<<t, "email", "customer">>) > 0

=============================================================================
