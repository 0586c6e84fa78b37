--------------------------- MODULE BookingHandlers --------------------------
(***************************************************************************)
(* The handlers of booking and refund events: what each of them asks of    *)
(* ushbooknpay (status, payment record, loyalty points, payment link,      *)
(* refunds), of ushauth (the row of the appointment cache) and of ushanr   *)
(* (invoice, credit note), in which order, and what it tells the customer. *)
(*                                                                         *)
(* ushbooknpay is the source of truth: it changes the booking and          *)
(* publishes an event with a snapshot of it (external actions below).  The *)
(* handlers see the snapshot, in any order, and write back to it.          *)
(*                                                                         *)
(* doc is [kind, type, eligible, verified, email, refunding, word, proof,  *)
(* invoicing]: the payment type of the booking ("voucher_id" and           *)
(* "voucher_method" when only these fields of the payload tell that a      *)
(* voucher pays), whether it may earn loyalty points, whether the phone of *)
(* the customer is verified for WhatsApp, whether there is an email        *)
(* address, whether the story starts with a request to refund, how the     *)
(* payload of a confirmation words a payment that was made, and whether    *)
(* invoicing is configured.                                                *)
(*                                                                         *)
(* An event has pay, its payment_status ("none" when it has none), and     *)
(* proof, what its payment_data says of a payment: that it is_paid         *)
(* ("flag"), the same in its status or as text only ("word"), or nothing.  *)
(***************************************************************************)
EXTENDS Deliveries

NoRow == [status |-> "none", pay |-> "none"]

\* A booking nobody has paid yet.
NewBooking ==
    [status |-> "requested", pay |-> "unpaid", paid |-> FALSE, link |-> "none", row |-> NoRow,
     payments |-> 0, linked |-> 0, invoices |-> 0, billed |-> FALSE, earned |-> 0, reversed |-> 0,
     requests |-> 0, note |-> FALSE, noted |-> FALSE, cash |-> FALSE, loose |-> 0, marks |-> {}]

\* A paid booking that was cancelled and asks for a refund; what was done for it is not counted.
CancelledBooking ==
    [NewBooking EXCEPT !.status = "cancelled", !.pay = "refund_requested", !.paid = TRUE]

GiftVoucher == doc.type = "gift_voucher"
Redemption == doc.type = "rewarded"

\* is_voucher_redemption; the payment of a link replaces the method.
Redeems(e) ==
    \/ doc.type \in {"gift_voucher", "voucher_id"}
    \/ doc.type = "voucher_method" /\ e.type # "link_paid"

-----------------------------------------------------------------------------
(* What the clients' calls do to the booking.                              *)

SetStatus(status, r) == [r EXCEPT !.status = status]
SetStatusAndPay(status, pay, r) == [r EXCEPT !.status = status, !.pay = pay]
CloseLinks(r) == [r EXCEPT !.link = IF @ = "open" THEN "closed" ELSE @]
Credit(r) == [r EXCEPT !.earned = @ + 1]
Reverse(r) == [r EXCEPT !.reversed = @ + 1]
RequestRefund(r) == [r EXCEPT !.requests = @ + 1]

\* The appointment cache: creating replaces the row, updating needs one.
PutRow(status, pay, r) == [r EXCEPT !.row = [status |-> status, pay |-> pay]]
DropRow(r) == [r EXCEPT !.row = NoRow]
ChangeRow(status, pay, r) == IF r.row = NoRow THEN r ELSE PutRow(status, pay, r)
PayRow(pay, r) == IF r.row = NoRow THEN r ELSE [r EXCEPT !.row.pay = pay]

\* Credit notes with a refund number are made once per number, others every time.
NumberedNote(withCash, r) == [r EXCEPT !.note = TRUE, !.cash = @ \/ withCash]
LooseNote(r) == [r EXCEPT !.loose = @ + 1]
LinkNote(r) == [r EXCEPT !.noted = TRUE]

-----------------------------------------------------------------------------
(* booking.confirmed, also run for payment_link.paid and for               *)
(* booking.updated_payment_status_to_success.                              *)

\* success, paid, completed and successful are "success", except that the trigger of the
\* invoice does not know successful.
Succeeded == {"success", "successful"}
Outstanding == {"pending", "unpaid"}

\* Slip: a deferred payment counts as paid.
PaidOrDeferred(e) == e.pay \in Succeeded \cup {"rewarded", "pending"} \/ e.proof # "none"

\* Four tests of one payload.  is_paid, for the payment record:
IsPaid(e) == e.pay \notin Outstanding /\ (e.pay \in Succeeded \cup {"rewarded"} \/ e.proof # "none")

\* _loyalty_payment_succeeded, for the points:
LoyaltySucceeded(e) == e.pay \in Succeeded

\* those of trigger_booking_invoice:
Invoiceable(e) ==
    e.pay \in {"success", "rewarded"} \/ (e.pay \notin Outstanding /\ e.proof = "flag")

\* is_payment_success, for the messages:
Announced(e) == e.pay \in Succeeded \cup {"rewarded"}

\* cache_payment_status: only values that ushauth accepts.
Accepted == {"unpaid", "success", "pending", "refunded", "failed"}
CachePay(e) == IF e.pay \in Accepted THEN e.pay ELSE "success"

CacheSteps(e) == << <<"put_row", "confirmed", CachePay(e)>> >>
PaymentSteps(e) == IF IsPaid(e) /\ ~GiftVoucher THEN << <<"record">> >> ELSE <<>>

LoyaltySteps(e) ==
    IF doc.eligible /\ LoyaltySucceeded(e) /\ ~Redemption /\ ~GiftVoucher
    THEN << <<"credit">> >> ELSE <<>>

\* trigger_booking_invoice after the tests of its callers.
InvoiceSteps(e) == IF Invoiceable(e) /\ ~Redeems(e) THEN Trigger(<<"partner">>) ELSE <<>>
PaidInvoiceSteps(e) == IF IsPaid(e) THEN InvoiceSteps(e) ELSE <<>>
\* Slip: the customer is told of whatever is recorded.
NotifiesRecorded(e) == IF IsPaid(e) THEN << <<"check_sent">> >> ELSE <<>>

NotifySteps(e) == IF Announced(e) THEN << <<"check_sent">> >> ELSE <<>>

\* Slip: the invoice is made before the payment it should be linked to.
InvoiceBeforeRecord(e) ==
    CacheSteps(e) \o PaidInvoiceSteps(e) \o PaymentSteps(e) \o LoyaltySteps(e) \o NotifySteps(e)

ConfirmedSteps(e) ==
    CacheSteps(e) \o PaymentSteps(e) \o LoyaltySteps(e) \o PaidInvoiceSteps(e) \o NotifySteps(e)

EmailSteps(template) ==
    IF doc.email THEN << <<"send", template, "email", "customer">> >> ELSE <<>>

PhoneSteps(template) ==
    << <<"send", template, IF doc.verified THEN "whatsapp" ELSE "sms", "customer">> >>

\* _send_confirmed_notifications; a gift voucher has a message of its own.
ConfirmationSteps ==
    (IF GiftVoucher THEN <<>> ELSE PhoneSteps("confirmed")) \o EmailSteps("confirmed")

LinkPaidSteps(e) ==
    << <<"set_booking", "confirmed", "success">>, <<"pay_row">>, <<"mark_paid">> >>
        \o ConfirmedSteps([e EXCEPT !.pay = "success"])

\* The invoice comes first here, and again with booking.confirmed's steps.
StatusSuccessSteps(e) ==
    << <<"pay_row">> >>
        \o (IF e.full THEN InvoiceSteps(e) ELSE << <<"fetch">> >>)
        \o ConfirmedSteps([e EXCEPT !.pay = "success"])

\* payment.success: the receipt of a payment, whatever has been confirmed.
PaymentSuccessSteps ==
    << <<"send", "receipt", "sms", "customer">> >> \o EmailSteps("receipt")

PaymentPendingSteps(e) == << <<"put_row", "pending", "pending">> >>

-----------------------------------------------------------------------------
(* booking.updated, booking.rescheduled and booking.completed.             *)

\* _STATUS_MAP and _PAYMENT_STATUS_MAP; what they do not list stays as it is.
CacheStatus(e) ==
    CASE e.status \in {"requested", "pending", "reschedule_requested"} -> "pending"
      [] e.status = "no_show" -> "completed"
      [] OTHER -> e.status

\* Slip: the row is created when it is missing.
UpdatedPutsRow(e) == << <<"put_row", CacheStatus(e), e.pay>> >>

\* Cancelled before it was paid: the payment link, if there is one, must go.  (The event's
\* old_payment_status and refund flags are taken to agree with its payment_status.)
PendingPayment(e) == e.pay \in {"pending", "unpaid", "cancelled"}
\* Slip: only the link that the event carries is closed.
TrustsEvent(e) == <<>>

FindLinkSteps(e) == IF PendingPayment(e) /\ ~e.full THEN << <<"find_link">> >> ELSE <<>>
CloseLinkSteps(e) == IF PendingPayment(e) THEN << <<"close_link">> >> ELSE <<>>

\* Only a paid booking's new appointment is told to the customer.
UpdateMessageSteps(e) ==
    IF e.type = "updated" \/ CacheStatus(e) = "completed" \/ ~Announced(e)
    THEN <<>> ELSE PhoneSteps("updated")

UpdatedSteps(e) ==
    IF e.status = "checked_in" THEN <<>>
    ELSE << <<"change_row", CacheStatus(e), e.pay>> >>
            \o (IF e.status = "cancelled" THEN FindLinkSteps(e) \o CloseLinkSteps(e)
                ELSE UpdateMessageSteps(e))

-----------------------------------------------------------------------------
(* booking.cancelled, booking.no_show and booking.reschedule_requested.    *)

\* Slip: points are reversed only while the payment stands.
ReversesPaidOnly(e) == IF doc.eligible /\ LoyaltySucceeded(e) THEN << <<"reverse">> >> ELSE <<>>

ReversalSteps(e) == IF doc.eligible /\ ~Redemption THEN << <<"reverse">> >> ELSE <<>>

\* sync_payment_status: unpaid bookings become cancelled, the others keep theirs.
SyncPay(e) == IF PendingPayment(e) THEN "cancelled" ELSE e.pay

\* Slip: the row is marked, which ushauth may refuse, after the points are reversed.
CancelledMarksRow(e) ==
    ReversalSteps(e) \o FindLinkSteps(e) \o << <<"change_row", "cancelled", SyncPay(e)>> >>
        \o CloseLinkSteps(e) \o << <<"set_booking", "cancelled", SyncPay(e)>> >>

CancelledSteps(e) ==
    ReversalSteps(e) \o FindLinkSteps(e) \o << <<"drop_row">> >> \o CloseLinkSteps(e)
        \o << <<"set_booking", "cancelled", SyncPay(e)>> >>
        \o (IF e.pay = "refund_requested" THEN << <<"request_refund">> >> ELSE <<>>)

NoShowSteps(e) == << <<"drop_row">> >>
RescheduleSteps(e) == << <<"set_booking", "reschedule_requested", "none">> >>

-----------------------------------------------------------------------------
(* refund.approved, booking.refund_completed and payment.refunded.         *)

\* Points need no credit note; money gets one, and its cash-out on completion.
RefundApprovedSteps(e) == IF e.method = "points" THEN <<>> ELSE Trigger(<<"note", FALSE>>)
\* Slip: the completion's note has no cash-out.
CompletesWithoutCash(e) == Trigger(<<"note", FALSE>>)

RefundCompletedSteps(e) == Trigger(<<"note", TRUE>>)
PaymentRefundedSteps(e) ==
    << <<"send", "refunded", "sms", "customer">> >> \o EmailSteps("refunded")
        \o Trigger(<<"loose_note">>)

\* build_default_registry: the handler of each type.
BookingSteps(e) ==
    CASE e.type = "payment_pending" -> PaymentPendingSteps(e)
      [] e.type = "confirmed" -> ConfirmedSteps(e)
      [] e.type = "link_paid" -> LinkPaidSteps(e)
      [] e.type = "status_success" -> StatusSuccessSteps(e)
      [] e.type = "payment_success" -> PaymentSuccessSteps
      [] e.type \in {"updated", "rescheduled", "completed"} -> UpdatedSteps(e)
      [] e.type = "cancelled" -> CancelledSteps(e)
      [] e.type = "no_show" -> NoShowSteps(e)
      [] e.type = "reschedule_requested" -> RescheduleSteps(e)
      [] e.type = "refund_approved" -> RefundApprovedSteps(e)
      [] e.type = "refund_completed" -> RefundCompletedSteps(e)
      [] e.type = "payment_refunded" -> PaymentRefundedSteps(e)

-----------------------------------------------------------------------------
(* Steps.  A call goes on (Onward) whether or not it succeeded, unless its *)
(* handler raises (then the slot is Idle and the event is redelivered).    *)

Arg(s, i) == Head(slot[s].todo)[i]
Onward(s) == After(s, <<>>)
Attempt(s, Effect(_)) == Call(s, Effect, Onward(s), Onward(s))

\* create_appointment_cache.
CreateAppointmentCache(s) ==
    /\ Doing(s, "put_row")
    /\ Attempt(s, LAMBDA r : PutRow(Arg(s, 2), Arg(s, 3), r))

\* update_appointment_cache_payment_status; only one of its two callers raises.
UpdateCachePayment(s) ==
    /\ Doing(s, "pay_row")
    /\ Call(s, LAMBDA r : PayRow("success", r), Onward(s),
            IF Ev(s).type = "status_success" THEN Idle ELSE Onward(s))

\* update_appointment_cache_by_booking_id: 404 ends the handler, other errors raise.
UpdateAppointmentCache(s) ==
    /\ Doing(s, "change_row")
    /\ \/ /\ remote.row = NoRow
          /\ Becomes(s, [slot[s] EXCEPT !.todo = <<>>])
          /\ UNCHANGED <<doc, remote, log, queue, rows, claims, told, faults, missed, tidy>>
       \/ /\ remote.row # NoRow
          /\ Call(s, LAMBDA r : ChangeRow(Arg(s, 2), Arg(s, 3), r), Onward(s), Idle)
       \/ Arg(s, 3) \notin Accepted /\ Refuse(s)

\* delete_appointment_cache_by_booking_id; a cancellation then tries to mark the row.
DeleteAppointmentCache(s) ==
    /\ Doing(s, "drop_row")
    /\ Call(s, DropRow, Onward(s),
            IF Ev(s).type = "no_show" THEN Idle ELSE After(s, << <<"mark_row">> >>))

\* update_appointment_cache_status_by_booking_id.
MarkCacheCancelled(s) ==
    /\ Doing(s, "mark_row")
    /\ Attempt(s, LAMBDA r :
           ChangeRow("cancelled",
                     IF Ev(s).pay \in {"success", "refund_requested"} THEN Ev(s).pay ELSE "cancelled",
                     r))

\* update_booking_status.
UpdateBookingStatus(s) ==
    /\ Doing(s, "set_booking")
    /\ Attempt(s, LAMBDA r : IF Arg(s, 3) = "none" THEN SetStatus(Arg(s, 2), r)
                             ELSE SetStatusAndPay(Arg(s, 2), Arg(s, 3), r))

\* mark_invoice_paid: booking invoices are created paid, nothing changes here.
MarkInvoicePaid(s) == Doing(s, "mark_paid") /\ Attempt(s, Same)

\* get_booking before the invoice: without it the handler cannot invoice.  What the event
\* says goes before what the booking says.
FetchForInvoice(s) ==
    /\ Doing(s, "fetch")
    /\ LET merged == [Ev(s) EXCEPT !.pay = IF @ = "none" THEN remote.pay ELSE @]
       IN  Call(s, Same, After(s, InvoiceSteps(merged)), Onward(s))

\* get_booking before cancelling a link that the event does not carry.
FetchPaymentLink(s) ==
    /\ Doing(s, "find_link")
    /\ Call(s, Same, IF remote.link = "none" THEN Onward(s) ELSE Holding(Onward(s)), Onward(s))

\* cancel_payment_link, when the event or the booking has one.
CancelPaymentLink(s) ==
    /\ Doing(s, "close_link")
    /\ IF Ev(s).full \/ slot[s].got
       THEN Attempt(s, CloseLinks)
       ELSE /\ Becomes(s, Onward(s))
            /\ UNCHANGED <<doc, remote, log, queue, rows, claims, told, faults, missed, tidy>>

CreditLoyaltyPoints(s) == Doing(s, "credit") /\ Attempt(s, Credit)
CancelLoyaltyPoints(s) == Doing(s, "reverse") /\ Attempt(s, Reverse)
CreateRefundRequest(s) == Doing(s, "request_refund") /\ Attempt(s, RequestRefund)

\* Slip: only the notifications of the handler's own session are looked at.
ChecksOwnSession(s) ==
    /\ Doing(s, "check_sent")
    /\ Call(s, Same, After(s, IF "confirmed" \in slot[s].rows THEN <<>> ELSE ConfirmationSteps),
            After(s, ConfirmationSteps))

\* has_booking_notification: the committed rows and those of the handler's own session.
\* A failed query counts as not sent.
CheckAlreadySent(s) ==
    /\ Doing(s, "check_sent")
    /\ Call(s, Same,
            After(s, IF "confirmed" \in rows \cup slot[s].rows
                     THEN <<>> ELSE ConfirmationSteps),
            After(s, ConfirmationSteps))

\* create_credit_note with a refund number, then link_refund_credit_note.
CreateCreditNote(s) ==
    /\ Doing(s, "note")
    /\ Call(s, LAMBDA r : NumberedNote(Arg(s, 2), r), After(s, << <<"link_note">> >>), Onward(s))

LinkCreditNote(s) == Doing(s, "link_note") /\ Attempt(s, LinkNote)

\* create_credit_note without a refund number.
CreateLooseCreditNote(s) == Doing(s, "loose_note") /\ Attempt(s, LooseNote)

BookingCall(s) ==
    \/ CreateAppointmentCache(s) \/ UpdateCachePayment(s) \/ UpdateAppointmentCache(s)
    \/ DeleteAppointmentCache(s) \/ MarkCacheCancelled(s) \/ UpdateBookingStatus(s)
    \/ MarkInvoicePaid(s) \/ FetchForInvoice(s) \/ FetchPaymentLink(s) \/ CancelPaymentLink(s)
    \/ CreditLoyaltyPoints(s) \/ CancelLoyaltyPoints(s) \/ CreateRefundRequest(s)
    \/ CheckAlreadySent(s) \/ CreateCreditNote(s) \/ LinkCreditNote(s) \/ CreateLooseCreditNote(s)

BeginBooking(s) ==
    doc.kind = "booking" /\ \E n \in queue : Begin(s, n, BookingSteps(log[n]))

-----------------------------------------------------------------------------
(* ushbooknpay: what happens to the booking, and the event it publishes.   *)

Emits(type, r, pay, proof, full, method) ==
    /\ remote' = r
    /\ Publish([type |-> type, status |-> r.status, pay |-> pay, proof |-> proof, full |-> full,
                method |-> method])

Happens(type, r, full, method) == Emits(type, r, r.pay, "none", full, method)
Plainly(type, r) == Happens(type, r, FALSE, "none")

HoldForPayment ==
    /\ remote.status = "requested"
    /\ Plainly("payment_pending",
               [remote EXCEPT !.status = "pending", !.pay = "pending", !.link = "open"])

ConfirmUnpaid ==
    /\ doc.type = "card"
    /\ remote.status \in {"requested", "pending"}
    /\ ~remote.paid
    /\ Plainly("confirmed",
               [remote EXCEPT !.status = "confirmed", !.pay = "pending", !.link = "open"])

ConfirmPaid ==
    /\ remote.status \in {"requested", "pending"}
    /\ ~remote.paid
    /\ LET pay == IF Redemption THEN "rewarded" ELSE "success"
       IN  Emits("confirmed",
                 [CloseLinks(remote) EXCEPT !.status = "confirmed", !.paid = TRUE, !.pay = pay],
                 IF Redemption THEN pay ELSE doc.word, doc.proof, FALSE, "none")

PayLink ==
    /\ remote.link = "open"
    /\ Plainly("link_paid", [remote EXCEPT !.link = "used", !.paid = TRUE])

\* Paid at the desk; the event may lack the lines of an invoice, or the payment status.
MarkPaid ==
    /\ remote.status = "confirmed"
    /\ ~remote.paid
    /\ \E full \in BOOLEAN :
           Emits("status_success", [CloseLinks(remote) EXCEPT !.pay = "success", !.paid = TRUE],
                 IF doc.word = "none" THEN "none" ELSE "success", doc.proof, full, "none")

\* booking.confirmed again: confirmed anew after a request to reschedule, or republished.
ConfirmAgain ==
    /\ remote.status \in {"confirmed", "reschedule_requested"}
    /\ remote.pay = "success"
    /\ Emits("confirmed", [remote EXCEPT !.status = "confirmed"], doc.word, doc.proof, FALSE, "none")

Receipt == remote.pay = "success" /\ Plainly("payment_success", remote)

CheckIn ==
    /\ remote.status = "confirmed"
    /\ remote.paid
    /\ Plainly("updated", [remote EXCEPT !.status = "checked_in"])

Edit ==
    /\ remote.status # "requested"
    /\ \E type \in {"updated", "rescheduled"} : Plainly(type, remote)

Complete ==
    /\ remote.status \in {"confirmed", "checked_in"}
    /\ remote.paid
    /\ Plainly("completed", [remote EXCEPT !.status = "completed"])

NoShow ==
    /\ remote.status = "confirmed"
    /\ Plainly("no_show", [remote EXCEPT !.status = "no_show"])

AskReschedule == remote.status = "confirmed" /\ Plainly("reschedule_requested", remote)

\* The event may carry the payment link; a paid booking may ask for its money back.
Cancel ==
    /\ remote.status \in {"pending", "confirmed", "reschedule_requested"}
    /\ \E pay \in {remote.pay} \cup (IF remote.pay = "success" THEN {"refund_requested"} ELSE {}),
          full \in IF remote.link = "none" THEN {FALSE} ELSE BOOLEAN :
           Happens("cancelled", [remote EXCEPT !.status = "cancelled", !.pay = pay], full, "none")

Approvals == {log[n].method : n \in {m \in DOMAIN log : log[m].type = "refund_approved"}}

ApproveRefund ==
    /\ remote.pay = "refund_requested"
    /\ Approvals = {}
    /\ \E method \in {"points", "money"} : Happens("refund_approved", remote, FALSE, method)

CompleteRefund ==
    /\ "money" \in Approvals
    /\ \E type \in {"refund_completed", "payment_refunded"} : Plainly(type, remote)

BookingHappens ==
    /\ doc.kind = "booking"
    /\ \/ HoldForPayment \/ ConfirmUnpaid \/ ConfirmPaid \/ PayLink \/ MarkPaid \/ ConfirmAgain
       \/ Receipt \/ CheckIn \/ Edit \/ Complete \/ NoShow \/ AskReschedule \/ Cancel
       \/ ApproveRefund \/ CompleteRefund

=============================================================================
