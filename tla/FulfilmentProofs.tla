-------------------------- MODULE FulfilmentProofs --------------------------
(***************************************************************************)
(* Fulfilment for every number of slots, events and faults and every set   *)
(* of documents: what may not happen before the payment, and what may not  *)
(* before the date of a scheduled gift.  Both have one argument: until     *)
(* then only some events can have been published, and their handlers       *)
(* consist of steps that spoil nothing, in every order and with every      *)
(* failure.  Then the type invariant and what the proofs of the other      *)
(* properties rest on: every handler, however far it has come, has steps   *)
(* that its event allows, and every operation touches only its own fields. *)
(***************************************************************************)
EXTENDS Fulfilment, Counting, TLAPS, SequenceTheorems

-----------------------------------------------------------------------------
(* What the services hold about a document: its fields, and that a payment *)
(* is not forgotten.                                                       *)

BookingFields ==
    {"status", "pay", "paid", "link", "row", "payments", "linked", "invoices", "billed", "earned",
     "reversed", "requests", "note", "noted", "cash", "loose", "marks"}
SaleFields ==
    {"status", "paid", "due", "announced", "payments", "linked", "invoices", "marks"}
AccountFields == {"status", "paid", "payments", "linked", "invoices"}

Fields ==
    IF doc.kind = "booking" THEN BookingFields
    ELSE IF doc.kind = "account" THEN AccountFields ELSE SaleFields

Kinds == Sold \cup {"booking", "account"}
Shaped == doc.kind \in Kinds /\ DOMAIN remote = Fields

\* The document keeps its fields; once paid, or due for delivery, it stays so.
Lasting ==
    /\ doc' = doc
    /\ DOMAIN remote' = DOMAIN remote
    /\ remote.paid => remote'.paid
    /\ doc.kind = "voucher" /\ remote.due => remote'.due

USE DEF Fields, BookingFields, SaleFields, AccountFields, Kinds, Sold

\* The steps that all handlers have.
LEMMA SharedLasting ==
  ASSUME Shaped, NEW s \in Slot, SharedStep(s)
  PROVE  Lasting
  <1>1. CASE End(s)
    BY <1>1 DEF End, Call, Shaped, Lasting
  <1>2. CASE Crash(s)
    BY <1>2 DEF Crash, Call, Shaped, Lasting
  <1>3. CASE EnsurePartner(s)
    BY <1>3 DEF EnsurePartner, Same, Call, Shaped, Lasting
  <1>4. CASE CreateInvoice(s)
    BY <1>4 DEF CreateInvoice, AddInvoice, Call, Shaped, Lasting
  <1>5. CASE LinkPayments(s)
    BY <1>5 DEF LinkPayments, LinkAll, Call, Shaped, Lasting
  <1>6. CASE LinkBooking(s)
    BY <1>6 DEF LinkBooking, Bill, Call, Shaped, Lasting
  <1>7. CASE RecordPayment(s)
    BY <1>7 DEF RecordPayment, AddPayment, Call, Shaped, Lasting
  <1>8. CASE Send(s)
    BY <1>8 DEF Send, Call, Shaped, Lasting
  <1> QED
    BY <1>1, <1>2, <1>3, <1>4, <1>5, <1>6, <1>7, <1>8 DEF SharedStep

\* The calls of the booking handlers.
LEMMA BookingLasting ==
  ASSUME Shaped, NEW s \in Slot, BookingCall(s)
  PROVE  Lasting
  <1>1. CASE CreateAppointmentCache(s)
    BY <1>1 DEF CreateAppointmentCache, PutRow, Call, Attempt, Shaped, Lasting
  <1>2. CASE UpdateCachePayment(s)
    BY <1>2 DEF UpdateCachePayment, PayRow, Call, Attempt, Shaped, Lasting
  <1>3. CASE UpdateAppointmentCache(s)
    BY <1>3 DEF UpdateAppointmentCache, ChangeRow, PutRow, Refuse, Call, Attempt, Shaped, Lasting
  <1>4. CASE DeleteAppointmentCache(s)
    BY <1>4 DEF DeleteAppointmentCache, DropRow, Call, Attempt, Shaped, Lasting
  <1>5. CASE MarkCacheCancelled(s)
    BY <1>5 DEF MarkCacheCancelled, ChangeRow, PutRow, Call, Attempt, Shaped, Lasting
  <1>6. CASE UpdateBookingStatus(s)
    BY <1>6 DEF UpdateBookingStatus, SetStatus, SetStatusAndPay, Call, Attempt, Shaped, Lasting
  <1>7. CASE MarkInvoicePaid(s)
    BY <1>7 DEF MarkInvoicePaid, Same, Call, Attempt, Shaped, Lasting
  <1>8. CASE FetchForInvoice(s)
    BY <1>8 DEF FetchForInvoice, Same, Call, Attempt, Shaped, Lasting
  <1>9. CASE FetchPaymentLink(s)
    BY <1>9 DEF FetchPaymentLink, Same, Call, Attempt, Shaped, Lasting
  <1>10. CASE CancelPaymentLink(s)
    BY <1>10 DEF CancelPaymentLink, CloseLinks, Call, Attempt, Shaped, Lasting
  <1>11. CASE CreditLoyaltyPoints(s)
    BY <1>11 DEF CreditLoyaltyPoints, Credit, Call, Attempt, Shaped, Lasting
  <1>12. CASE CancelLoyaltyPoints(s)
    BY <1>12 DEF CancelLoyaltyPoints, Reverse, Call, Attempt, Shaped, Lasting
  <1>13. CASE CreateRefundRequest(s)
    BY <1>13 DEF CreateRefundRequest, RequestRefund, Call, Attempt, Shaped, Lasting
  <1>14. CASE CheckAlreadySent(s)
    BY <1>14 DEF CheckAlreadySent, Same, Call, Attempt, Shaped, Lasting
  <1>15. CASE CreateCreditNote(s)
    BY <1>15 DEF CreateCreditNote, NumberedNote, Call, Attempt, Shaped, Lasting
  <1>16. CASE LinkCreditNote(s)
    BY <1>16 DEF LinkCreditNote, LinkNote, Call, Attempt, Shaped, Lasting
  <1>17. CASE CreateLooseCreditNote(s)
    BY <1>17 DEF CreateLooseCreditNote, LooseNote, Call, Attempt, Shaped, Lasting
  <1> QED
    BY <1>1, <1>2, <1>3, <1>4, <1>5, <1>6, <1>7, <1>8, <1>9, <1>10, <1>11, <1>12, <1>13, <1>14,
       <1>15, <1>16, <1>17 DEF BookingCall

\* The calls of the voucher handlers.
LEMMA SaleLasting ==
  ASSUME Shaped, NEW s \in Slot, SaleCall(s)
  PROVE  Lasting
  <1>1. CASE MarkRecipient(s)
    BY <1>1 DEF MarkRecipient, Call, Shaped, Lasting
  <1>2. CASE ActivateScheduledVoucher(s)
    BY <1>2 DEF ActivateScheduledVoucher, Activate, Call, Shaped, Lasting
  <1> QED
    BY <1>1, <1>2 DEF SaleCall

\* What happens to a booking.
LEMMA BookingHappensLasting ==
  ASSUME Shaped, BookingHappens
  PROVE  Lasting
  <1>1. CASE HoldForPayment
    BY <1>1 DEF HoldForPayment, Plainly, Happens, Emits, Publish, Shaped, Lasting
  <1>2. CASE ConfirmUnpaid
    BY <1>2 DEF ConfirmUnpaid, Plainly, Happens, Emits, Publish, Shaped, Lasting
  <1>3. CASE ConfirmPaid
    BY <1>3 DEF ConfirmPaid, CloseLinks, Plainly, Happens, Emits, Publish, Shaped, Lasting
  <1>4. CASE PayLink
    BY <1>4 DEF PayLink, Plainly, Happens, Emits, Publish, Shaped, Lasting
  <1>5. CASE MarkPaid
    BY <1>5 DEF MarkPaid, CloseLinks, Plainly, Happens, Emits, Publish, Shaped, Lasting
  <1>6. CASE ConfirmAgain
    BY <1>6 DEF ConfirmAgain, Plainly, Happens, Emits, Publish, Shaped, Lasting
  <1>7. CASE Receipt
    BY <1>7 DEF Receipt, Plainly, Happens, Emits, Publish, Shaped, Lasting
  <1>8. CASE CheckIn
    BY <1>8 DEF CheckIn, Plainly, Happens, Emits, Publish, Shaped, Lasting
  <1>9. CASE Edit
    BY <1>9 DEF Edit, Plainly, Happens, Emits, Publish, Shaped, Lasting
  <1>10. CASE Complete
    BY <1>10 DEF Complete, Plainly, Happens, Emits, Publish, Shaped, Lasting
  <1>11. CASE NoShow
    BY <1>11 DEF NoShow, Plainly, Happens, Emits, Publish, Shaped, Lasting
  <1>12. CASE AskReschedule
    BY <1>12 DEF AskReschedule, Plainly, Happens, Emits, Publish, Shaped, Lasting
  <1>13. CASE Cancel
    BY <1>13 DEF Cancel, Plainly, Happens, Emits, Publish, Shaped, Lasting
  <1>14. CASE ApproveRefund
    BY <1>14 DEF ApproveRefund, Plainly, Happens, Emits, Publish, Shaped, Lasting
  <1>15. CASE CompleteRefund
    BY <1>15 DEF CompleteRefund, Plainly, Happens, Emits, Publish, Shaped, Lasting
  <1> QED
    BY <1>1, <1>2, <1>3, <1>4, <1>5, <1>6, <1>7, <1>8, <1>9, <1>10, <1>11, <1>12, <1>13, <1>14,
       <1>15 DEF BookingHappens

\* What happens to a voucher, an order or a gift.
LEMMA SaleHappensLasting ==
  ASSUME Shaped, SaleHappens
  PROVE  Lasting
  <1>1. CASE HoldVoucher
    BY <1>1 DEF HoldVoucher, Sells, Publish, Shaped, Lasting
  <1>2. CASE BuyVoucher
    BY <1>2 DEF BuyVoucher, Sells, Publish, Shaped, Lasting
  <1>3. CASE ScheduleVoucher
    BY <1>3 DEF ScheduleVoucher, Sells, Publish, Shaped, Lasting
  <1>4. CASE FallDue
    BY <1>4 DEF FallDue, Sells, Publish, Shaped, Lasting
  <1>5. CASE AnnounceActivation
    BY <1>5 DEF AnnounceActivation, Sells, Publish, Shaped, Lasting
  <1>6. CASE RedeemVoucher
    BY <1>6 DEF RedeemVoucher, Sells, Publish, Shaped, Lasting
  <1>7. CASE Republish
    BY <1>7 DEF Republish, Sells, Publish, Shaped, Lasting
  <1>8. CASE PlaceOrder
    BY <1>8 DEF PlaceOrder, Sells, Publish, Shaped, Lasting
  <1>9. CASE BuyGift
    BY <1>9 DEF BuyGift, Sells, Publish, Shaped, Lasting
  <1>10. CASE DeliverGift
    BY <1>10 DEF DeliverGift, Sells, Publish, Shaped, Lasting
  <1>11. CASE ClaimGift
    BY <1>11 DEF ClaimGift, Sells, Publish, Shaped, Lasting
  <1>12. CASE UseGift
    BY <1>12 DEF UseGift, Sells, Publish, Shaped, Lasting
  <1> QED
    BY <1>1, <1>2, <1>3, <1>4, <1>5, <1>6, <1>7, <1>8, <1>9, <1>10, <1>11, <1>12 DEF SaleHappens

\* Every step.
LEMMA NextLasting ==
  ASSUME Shaped, [Next]_vars
  PROVE  Lasting
  <1>1. CASE BookingHappens
    BY <1>1, BookingHappensLasting
  <1>2. CASE SaleHappens
    BY <1>2, SaleHappensLasting
  <1>3. CASE NoticeHappens
    BY <1>3 DEF NoticeHappens, AskForNotice, AskForSMS, Says, Publish, Lasting
  <1>4. ASSUME NEW s \in Slot, Step(s) PROVE Lasting
    <2>1. CASE BeginBooking(s) \/ BeginSale(s) \/ BeginNotice(s)
      BY <2>1 DEF BeginBooking, BeginSale, BeginNotice, Begin, Lasting
    <2> QED
      BY <1>4, <2>1, SharedLasting, BookingLasting, SaleLasting DEF Step
  <1>5. CASE UNCHANGED vars
    BY <1>5 DEF vars, Lasting
  <1> QED
    BY <1>1, <1>2, <1>3, <1>4, <1>5 DEF Next, Happen

-----------------------------------------------------------------------------
(* While nobody has paid.                                                  *)

\* Payment statuses of a booking nobody has paid, and the statuses of such bookings and rows.
Words ==
    {"requested", "pending", "confirmed", "reschedule_requested", "cancelled", "no_show", "completed",
     "unpaid", "success", "none"}
Open == {"unpaid", "pending", "cancelled"}

\* Nothing is invoiced, recorded or credited, and nothing is on its way to be.
Untouched ==
    /\ remote.invoices = 0
    /\ doc.kind # "order" => remote.payments = 0
    /\ doc.kind = "booking" => remote.earned = 0 /\ remote.status \in Words /\ remote.pay \in Open
    /\ doc.kind = "voucher" => remote.status \in {"new", "pending"} /\ ~remote.announced
    /\ doc.kind = "gift" => remote.status = "new"

\* The events that may have been published by then.
UnpaidBooking ==
    [type : {"payment_pending", "confirmed", "updated", "rescheduled", "cancelled", "no_show",
             "reschedule_requested"},
     status : Words, pay : Open, proof : {"none"}, full : BOOLEAN, method : {"none"}]
UnpaidSale(type) == [type : {type}, status : {"pending", "placed"}, pay : {"pending"}]
SomeNotice ==
    [type : Notices \cup {"sms_send"}, text : BOOLEAN,
     to : {<<"customer">>, <<"customer", "other", "customer">>}]

Unpaid ==
    CASE doc.kind = "booking" -> UnpaidBooking
      [] doc.kind = "voucher" -> UnpaidSale("voucher_payment_pending")
      [] doc.kind = "order" -> UnpaidSale("order_created")
      [] doc.kind = "gift" -> {}
      [] doc.kind = "account" -> SomeNotice

LogOK == log \in Seq(Unpaid) /\ queue \subseteq DOMAIN log

\* The steps that their handlers may have to do.
Free ==
    {"order", "otp", "verified", "password_reset", "password_changed", "email_verify",
     "payment_failed", "payment_pending", "direct"}
Audience == {"customer", "other"}
Told == Free \X {"whatsapp", "sms", "email"} \X Audience
Sending == {"send"} \X Free \X {"whatsapp", "sms", "email"} \X Audience
BookingQuiet ==
    {<<"drop_row">>, <<"mark_row">>, <<"find_link">>, <<"close_link">>, <<"reverse">>}
        \cup ({"put_row", "change_row"} \X Words \X Words)
        \cup ({"set_booking"} \X Words \X (Open \cup {"none"}))
Quiet ==
    CASE doc.kind = "booking" -> BookingQuiet
      [] doc.kind = "voucher" -> {<<"mark", "pending">>}
      [] doc.kind = "order" -> {<<"record">>} \cup Sending
      [] doc.kind = "gift" -> {}
      [] doc.kind = "account" -> Sending

\* A slot whose handler has steps of a set Q to do.
Local(Q) == [ev : Nat, todo : Seq(Q), got : BOOLEAN, rows : SUBSET (Free \cup {"scheduled"})]
SlotsOK == slot \in [Slot -> Local(Quiet)]

\* No message of a confirmation or of a gift has gone out.
ToldOK == \A m \in BagToSet(told) : m[1] \in Free

Quietly == Untouched /\ LogOK /\ SlotsOK /\ ToldOK

\* Still nobody has paid.
Waiting == Shaped /\ Quietly /\ ~remote.paid /\ ~remote'.paid

\* What a quiet step is, for each kind of document.
LEMMA QuietCases ==
  ASSUME doc.kind \in Kinds, NEW q \in Quiet
  PROVE  /\ doc.kind = "booking" =>
               /\ q[1] \in {"drop_row", "mark_row", "find_link", "close_link", "reverse",
                            "put_row", "change_row", "set_booking"}
               /\ q[1] = "set_booking" => q[2] \in Words /\ q[3] \in Open \cup {"none"}
         /\ doc.kind = "voucher" => q[1] = "mark"
         /\ doc.kind = "order" => q[1] \in {"record", "send"}
         /\ doc.kind # "gift"
         /\ doc.kind = "account" => q[1] = "send"
         /\ q[1] = "send" => q \in Sending
  <1>1. CASE doc.kind = "booking"
    BY <1>1 DEF Quiet, BookingQuiet
  <1>2. CASE doc.kind = "voucher"
    BY <1>2 DEF Quiet
  <1>3. CASE doc.kind = "order"
    BY <1>3 DEF Quiet, Sending
  <1>4. CASE doc.kind = "gift"
    BY <1>4 DEF Quiet
  <1>5. CASE doc.kind = "account"
    BY <1>5 DEF Quiet, Sending
  <1> QED
    BY <1>1, <1>2, <1>3, <1>4, <1>5

\* What a message step says.
LEMMA SendIs ==
  ASSUME NEW q \in Sending
  PROVE  /\ Tail(q) \in Told
         /\ <<"send", Tail(q)[1], "sms", Tail(q)[3]>> \in Sending
  <1>1. PICK t \in Free, c \in {"whatsapp", "sms", "email"}, a \in Audience : q = <<"send", t, c, a>>
    <2>1. /\ q[1] = "send" /\ q[2] \in Free /\ q[3] \in {"whatsapp", "sms", "email"} /\ q[4] \in Audience
          /\ q = <<q[1], q[2], q[3], q[4]>>
      BY DEF Sending
    <2> QED
      BY <2>1
  <1>2. Tail(q) = <<t, c, a>>
    BY <1>1
  <1> QED
    BY <1>1, <1>2 DEF Sending, Told

\* What is left to do after a step of a set.
LEMMA StepAfter ==
  ASSUME NEW Q, NEW l \in Local(Q), l.todo # <<>>, NEW then \in Seq(Q)
  PROVE  /\ Head(l.todo) \in Q
         /\ [l EXCEPT !.todo = then \o Tail(@)] \in Local(Q)
  <1>1. l.todo \in Seq(Q)
    BY DEF Local
  <1>2. Head(l.todo) \in Q /\ Tail(l.todo) \in Seq(Q)
    BY <1>1
  <1>3. then \o Tail(l.todo) \in Seq(Q)
    BY <1>2, ConcatProperties
  <1> QED
    BY <1>2, <1>3 DEF Local

\* The messages.
LEMMA ToldMore ==
  ASSUME NEW m, NEW B
  PROVE  BagToSet(B (+) SetToBag({m})) = BagToSet(B) \cup {m}
  BY DEF BagToSet, SetToBag, (+)

-----------------------------------------------------------------------------
(* The steps while nobody has paid.                                        *)

\* The sets depend on the document only.
LEMMA SameSets ==
  ASSUME doc' = doc
  PROVE  Quiet' = Quiet /\ Unpaid' = Unpaid
  BY DEF Quiet, Unpaid

\* One slot moves on.
LEMMA SlotMoves ==
  ASSUME NEW Q, slot \in [Slot -> Local(Q)], NEW s \in Slot, NEW l \in Local(Q), Becomes(s, l)
  PROVE  slot' \in [Slot -> Local(Q)]
  BY DEF Becomes

\* What a slot with a step at hand may become.
LEMMA SlotAfter ==
  ASSUME NEW Q, slot \in [Slot -> Local(Q)], NEW s \in Slot, slot[s].todo # <<>>,
         NEW then \in Seq(Q)
  PROVE  /\ Head(slot[s].todo) \in Q
         /\ After(s, then) \in Local(Q)
         /\ Holding(After(s, then)) \in Local(Q)
         /\ Idle \in Local(Q)
  <1>1. slot[s] \in Local(Q)
    OBVIOUS
  <1>2. Head(slot[s].todo) \in Q /\ After(s, then) \in Local(Q)
    BY <1>1, StepAfter DEF After
  <1>3. Holding(After(s, then)) \in Local(Q)
    BY <1>2 DEF Holding, Local
  <1>4. Idle \in Local(Q)
    BY EmptySeq DEF Idle, Local
  <1> QED
    BY <1>2, <1>3, <1>4

\* The step at hand of a slot is one for the document's kind.
LEMMA AtHand ==
  ASSUME Waiting, NEW s \in Slot, NEW op, Doing(s, op)
  PROVE  /\ doc.kind = "booking" =>
               op \in {"drop_row", "mark_row", "find_link", "close_link", "reverse",
                      "put_row", "change_row", "set_booking"}
         /\ doc.kind = "voucher" => op = "mark"
         /\ doc.kind = "order" => op \in {"record", "send"}
         /\ doc.kind # "gift"
         /\ doc.kind = "account" => op = "send"
         /\ op = "set_booking" => Arg(s, 2) \in Words /\ Arg(s, 3) \in Open \cup {"none"}
         /\ op = "send" => Head(slot[s].todo) \in Sending
  <1>1. Head(slot[s].todo) \in Quiet
    BY SlotAfter, EmptySeq DEF Waiting, Quietly, Doing, SlotsOK
  <1>2. doc.kind \in Kinds
    BY DEF Waiting, Shaped
  <1>3. Head(slot[s].todo)[1] = op
    BY DEF Doing
  <1>4. op = "set_booking" => doc.kind = "booking"
    BY <1>1, <1>2, <1>3, QuietCases
  <1> QED
    BY <1>1, <1>2, <1>3, <1>4, QuietCases DEF Arg

\* The calls of the booking handlers: the ones at hand keep the booking untouched, the
\* others are not at hand.
LEMMA BookingCallQuiet ==
  ASSUME Waiting, NEW s \in Slot, BookingCall(s), doc' = doc
  PROVE  Quietly'
  <1> USE DEF Waiting, Quietly
  <1>0. ASSUME slot[s].todo # <<>>
        PROVE  /\ After(s, <<>>) \in Local(Quiet) /\ Holding(After(s, <<>>)) \in Local(Quiet) /\ Idle \in Local(Quiet)
               /\ doc.kind = "booking" => After(s, << <<"mark_row">> >>) \in Local(Quiet)
    <2>1. doc.kind = "booking" => << <<"mark_row">> >> \in Seq(Quiet)
      BY DEF Quiet, BookingQuiet
    <2> QED
      BY <1>0, <2>1, SlotAfter, EmptySeq DEF SlotsOK
  <1>1. CASE CreateAppointmentCache(s)
    <2>1. doc.kind = "booking" /\ slot[s].todo # <<>>
      <3>1. Doing(s, "put_row")
        BY <1>1 DEF CreateAppointmentCache
      <3> QED
        BY <3>1, AtHand DEF Doing, Shaped
    <2>2. SlotsOK'
      BY <1>1, <1>0, <2>1, SlotMoves, SameSets DEF SlotsOK, CreateAppointmentCache, Attempt,
         Call, Onward
    <2>3. Untouched' /\ UNCHANGED <<log, queue, told>>
      BY <1>1, <2>1 DEF CreateAppointmentCache, Attempt, Call, PutRow, Untouched, Shaped
    <2> QED
      BY <2>2, <2>3, SameSets DEF LogOK, ToldOK
  <1>2. CASE DeleteAppointmentCache(s)
    <2>1. doc.kind = "booking" /\ slot[s].todo # <<>>
      <3>1. Doing(s, "drop_row")
        BY <1>2 DEF DeleteAppointmentCache
      <3> QED
        BY <3>1, AtHand DEF Doing, Shaped
    <2>2. SlotsOK'
      BY <1>2, <1>0, <2>1, SlotMoves, SameSets DEF SlotsOK, DeleteAppointmentCache, Attempt,
         Call, Onward
    <2>3. Untouched' /\ UNCHANGED <<log, queue, told>>
      BY <1>2, <2>1 DEF DeleteAppointmentCache, Attempt, Call, DropRow, Untouched, Shaped
    <2> QED
      BY <2>2, <2>3, SameSets DEF LogOK, ToldOK
  <1>3. CASE MarkCacheCancelled(s)
    <2>1. doc.kind = "booking" /\ slot[s].todo # <<>>
      <3>1. Doing(s, "mark_row")
        BY <1>3 DEF MarkCacheCancelled
      <3> QED
        BY <3>1, AtHand DEF Doing, Shaped
    <2>2. SlotsOK'
      BY <1>3, <1>0, <2>1, SlotMoves, SameSets DEF SlotsOK, MarkCacheCancelled, Attempt, Call,
         Onward
    <2>3. Untouched' /\ UNCHANGED <<log, queue, told>>
      BY <1>3, <2>1 DEF MarkCacheCancelled, Attempt, Call, ChangeRow, PutRow, Untouched, Shaped
    <2> QED
      BY <2>2, <2>3, SameSets DEF LogOK, ToldOK
  <1>4. CASE FetchPaymentLink(s)
    <2>1. doc.kind = "booking" /\ slot[s].todo # <<>>
      <3>1. Doing(s, "find_link")
        BY <1>4 DEF FetchPaymentLink
      <3> QED
        BY <3>1, AtHand DEF Doing, Shaped
    <2>2. SlotsOK'
      BY <1>4, <1>0, <2>1, SlotMoves, SameSets DEF SlotsOK, FetchPaymentLink, Attempt, Call, Onward
    <2>3. Untouched' /\ UNCHANGED <<log, queue, told>>
      BY <1>4, <2>1 DEF FetchPaymentLink, Attempt, Call, Same, Untouched, Shaped
    <2> QED
      BY <2>2, <2>3, SameSets DEF LogOK, ToldOK
  <1>5. CASE CancelPaymentLink(s)
    <2>1. doc.kind = "booking" /\ slot[s].todo # <<>>
      <3>1. Doing(s, "close_link")
        BY <1>5 DEF CancelPaymentLink
      <3> QED
        BY <3>1, AtHand DEF Doing, Shaped
    <2>2. SlotsOK'
      BY <1>5, <1>0, <2>1, SlotMoves, SameSets DEF SlotsOK, CancelPaymentLink, Attempt, Call, Onward
    <2>3. Untouched' /\ UNCHANGED <<log, queue, told>>
      BY <1>5, <2>1 DEF CancelPaymentLink, Attempt, Call, CloseLinks, Untouched, Shaped
    <2> QED
      BY <2>2, <2>3, SameSets DEF LogOK, ToldOK
  <1>6. CASE CancelLoyaltyPoints(s)
    <2>1. doc.kind = "booking" /\ slot[s].todo # <<>>
      <3>1. Doing(s, "reverse")
        BY <1>6 DEF CancelLoyaltyPoints
      <3> QED
        BY <3>1, AtHand DEF Doing, Shaped
    <2>2. SlotsOK'
      BY <1>6, <1>0, <2>1, SlotMoves, SameSets DEF SlotsOK, CancelLoyaltyPoints, Attempt, Call,
         Onward
    <2>3. Untouched' /\ UNCHANGED <<log, queue, told>>
      BY <1>6, <2>1 DEF CancelLoyaltyPoints, Attempt, Call, Reverse, Untouched, Shaped
    <2> QED
      BY <2>2, <2>3, SameSets DEF LogOK, ToldOK
  <1>7. CASE UpdateAppointmentCache(s)
    <2>1. doc.kind = "booking" /\ slot[s].todo # <<>>
      <3>1. Doing(s, "change_row")
        BY <1>7 DEF UpdateAppointmentCache
      <3> QED
        BY <3>1, AtHand DEF Doing, Shaped
    <2>2. [slot[s] EXCEPT !.todo = <<>>] \in Local(Quiet)
      BY EmptySeq DEF SlotsOK, Local
    <2>3. SlotsOK'
      BY <1>7, <1>0, <2>1, <2>2, SlotMoves, SameSets DEF SlotsOK, UpdateAppointmentCache, Call,
         Onward, Refuse
    <2>4. Untouched' /\ UNCHANGED <<log, queue, told>>
      BY <1>7, <2>1 DEF UpdateAppointmentCache, Call, Refuse, ChangeRow, PutRow, Untouched, Shaped
    <2> QED
      BY <2>3, <2>4, SameSets DEF LogOK, ToldOK
  <1>8. CASE UpdateBookingStatus(s)
    <2>1. /\ doc.kind = "booking" /\ slot[s].todo # <<>>
          /\ Arg(s, 2) \in Words /\ Arg(s, 3) \in Open \cup {"none"}
      <3>1. Doing(s, "set_booking")
        BY <1>8 DEF UpdateBookingStatus
      <3> QED
        BY <3>1, AtHand DEF Doing, Shaped
    <2>2. SlotsOK'
      BY <1>8, <1>0, <2>1, SlotMoves, SameSets DEF SlotsOK, UpdateBookingStatus, Attempt, Call,
         Onward
    <2>3. Untouched' /\ UNCHANGED <<log, queue, told>>
      BY <1>8, <2>1 DEF UpdateBookingStatus, Attempt, Call, SetStatus, SetStatusAndPay, Untouched,
         Shaped
    <2> QED
      BY <2>2, <2>3, SameSets DEF LogOK, ToldOK
  <1>9. CASE UpdateCachePayment(s)
    <2>1. Doing(s, "pay_row")
      BY <1>9 DEF UpdateCachePayment
    <2> QED
      BY <2>1, AtHand DEF Shaped
  <1>10. CASE MarkInvoicePaid(s)
    <2>1. Doing(s, "mark_paid")
      BY <1>10 DEF MarkInvoicePaid
    <2> QED
      BY <2>1, AtHand DEF Shaped
  <1>11. CASE FetchForInvoice(s)
    <2>1. Doing(s, "fetch")
      BY <1>11 DEF FetchForInvoice
    <2> QED
      BY <2>1, AtHand DEF Shaped
  <1>12. CASE CreditLoyaltyPoints(s)
    <2>1. Doing(s, "credit")
      BY <1>12 DEF CreditLoyaltyPoints
    <2> QED
      BY <2>1, AtHand DEF Shaped
  <1>13. CASE CreateRefundRequest(s)
    <2>1. Doing(s, "request_refund")
      BY <1>13 DEF CreateRefundRequest
    <2> QED
      BY <2>1, AtHand DEF Shaped
  <1>14. CASE CheckAlreadySent(s)
    <2>1. Doing(s, "check_sent")
      BY <1>14 DEF CheckAlreadySent
    <2> QED
      BY <2>1, AtHand DEF Shaped
  <1>15. CASE CreateCreditNote(s)
    <2>1. Doing(s, "note")
      BY <1>15 DEF CreateCreditNote
    <2> QED
      BY <2>1, AtHand DEF Shaped
  <1>16. CASE LinkCreditNote(s)
    <2>1. Doing(s, "link_note")
      BY <1>16 DEF LinkCreditNote
    <2> QED
      BY <2>1, AtHand DEF Shaped
  <1>17. CASE CreateLooseCreditNote(s)
    <2>1. Doing(s, "loose_note")
      BY <1>17 DEF CreateLooseCreditNote
    <2> QED
      BY <2>1, AtHand DEF Shaped
  <1> QED
    BY <1>1, <1>2, <1>3, <1>4, <1>5, <1>6, <1>7, <1>8, <1>9, <1>10, <1>11, <1>12, <1>13, <1>14,
       <1>15, <1>16, <1>17 DEF BookingCall

\* A free message, its row, and the message by SMS that may follow it.
LEMMA FreeMessage ==
  ASSUME NEW m \in Told
  PROVE  /\ m[1] \in Free /\ RowOf(m) \in Free
         /\ <<"send", m[1], "sms", m[3]>> \in Quiet => Fallback(m) \in Seq(Quiet)
  <1>1. m[1] \in Free
    BY DEF Told
  <1>2. RowOf(m) \in Free
    BY <1>1 DEF RowOf, Free
  <1>3. ASSUME NEW q \in Quiet PROVE <<q>> \in Seq(Quiet)
    OBVIOUS
  <1>4. <<"send", m[1], "sms", m[3]>> \in Quiet => Fallback(m) \in Seq(Quiet)
    BY <1>3, EmptySeq, Zenon DEF Fallback
  <1> QED
    BY <1>1, <1>2, <1>4

\* A free message more.
LEMMA FreeSent ==
  ASSUME ToldOK, NEW m, m[1] \in Free, told' \in {told, told (+) SetToBag({m})}
  PROVE  ToldOK'
  <1>1. BagToSet(told') \subseteq BagToSet(told) \cup {m}
    BY ToldMore
  <1> QED
    BY <1>1, Zenon DEF ToldOK

\* The calls of the voucher handlers: only the mark of a recipient is at hand.
LEMMA SaleCallQuiet ==
  ASSUME Waiting, NEW s \in Slot, SaleCall(s), doc' = doc
  PROVE  Quietly'
  <1> USE DEF Waiting, Quietly
  <1>1. CASE MarkRecipient(s)
    <2>1. doc.kind = "voucher" /\ slot[s].todo # <<>>
      <3>1. Doing(s, "mark")
        BY <1>1 DEF MarkRecipient
      <3> QED
        BY <3>1, AtHand DEF Doing, Shaped
    <2>2. SlotsOK'
      BY <1>1, <2>1, SlotAfter, EmptySeq, SlotMoves, SameSets DEF SlotsOK, MarkRecipient, Call
    <2>3. Untouched' /\ UNCHANGED <<log, queue, told>>
      BY <1>1, <2>1 DEF MarkRecipient, Call, Untouched, Shaped
    <2> QED
      BY <2>2, <2>3, SameSets DEF LogOK, ToldOK
  <1>2. CASE ActivateScheduledVoucher(s)
    <2>1. Doing(s, "activate")
      BY <1>2 DEF ActivateScheduledVoucher
    <2> QED
      BY <2>1, AtHand DEF Shaped
  <1> QED
    BY <1>1, <1>2 DEF SaleCall

\* A message that is free goes out, or does not.
LEMMA SendQuiet ==
  ASSUME Waiting, NEW s \in Slot, Send(s), doc' = doc
  PROVE  Quietly'
  <1> USE DEF Waiting, Quietly
  <1> DEFINE m == Tail(Head(slot[s].todo))
             kept == IF m[2] = "email" THEN {} ELSE {RowOf(m)}
             noted == [After(s, <<>>) EXCEPT !.rows = @ \cup kept]
  <1>1. Doing(s, "send") /\ slot[s].todo # <<>>
    BY DEF Send, Doing
  <1>2. Head(slot[s].todo) \in Sending /\ doc.kind \in {"order", "account"}
    BY <1>1, AtHand DEF Shaped
  <1>3. m \in Told /\ <<"send", m[1], "sms", m[3]>> \in Sending
    BY <1>2, SendIs
  <1>4. m[1] \in Free /\ RowOf(m) \in Free
    BY <1>3, FreeMessage
  <1>5. Fallback(m) \in Seq(Quiet)
    <2>1. <<"send", m[1], "sms", m[3]>> \in Quiet
      BY <1>2, <1>3 DEF Quiet
    <2> QED
      BY <1>3, <2>1, FreeMessage
  <1>6. After(s, <<>>) \in Local(Quiet) /\ After(s, Fallback(m)) \in Local(Quiet) /\ Idle \in Local(Quiet)
    BY <1>1, <1>5, SlotAfter, EmptySeq DEF SlotsOK
  <1>7. noted \in Local(Quiet)
    <2>1. kept \subseteq Free
      BY <1>4
    <2> QED
      BY <1>6, <2>1 DEF Local
  <1>8. After(s, IF m[1] \in Trusting THEN <<>> ELSE Fallback(m)) \in Local(Quiet)
    BY <1>6
  <1>9. PICK l \in {After(s, <<>>), noted, Idle, After(s, Fallback(m)),
                   After(s, IF m[1] \in Trusting THEN <<>> ELSE Fallback(m))} : Becomes(s, l)
    BY DEF Send
  <1>10. SlotsOK'
    BY <1>6, <1>7, <1>8, <1>9, SlotMoves, SameSets DEF SlotsOK
  <1>11. told' \in {told, told (+) SetToBag({m})}
    BY DEF Send
  <1>12. ToldOK'
    BY <1>4, <1>11, FreeSent, Zenon
  <1>13. UNCHANGED <<remote, log, queue>>
    BY DEF Send
  <1> QED
    BY <1>10, <1>12, <1>13, SameSets DEF Untouched, LogOK

\* The steps that all handlers have: an order that is not paid is recorded as such.
LEMMA SharedQuiet ==
  ASSUME Waiting, NEW s \in Slot, SharedStep(s), doc' = doc
  PROVE  Quietly'
  <1> USE DEF Waiting, Quietly
  <1>1. CASE End(s) \/ Crash(s)
    <2>1. SlotsOK'
      <3>1. Idle \in Local(Quiet)
        BY EmptySeq DEF Idle, Local
      <3> QED
        BY <1>1, <3>1, SlotMoves, SameSets DEF SlotsOK, End, Crash
    <2>2. UNCHANGED <<remote, log, told>> /\ queue' \subseteq queue
      BY <1>1 DEF End, Crash
    <2> QED
      BY <2>1, <2>2, SameSets DEF Untouched, LogOK, ToldOK
  <1>2. CASE EnsurePartner(s)
    <2>1. Doing(s, "partner")
      BY <1>2 DEF EnsurePartner
    <2> QED
      BY <2>1, AtHand DEF Shaped
  <1>3. CASE CreateInvoice(s)
    <2>1. Doing(s, "invoice")
      BY <1>3 DEF CreateInvoice
    <2> QED
      BY <2>1, AtHand DEF Shaped
  <1>4. CASE LinkPayments(s)
    <2>1. Doing(s, "link_payments")
      BY <1>4 DEF LinkPayments
    <2> QED
      BY <2>1, AtHand DEF Shaped
  <1>5. CASE LinkBooking(s)
    <2>1. Doing(s, "link_booking")
      BY <1>5 DEF LinkBooking
    <2> QED
      BY <2>1, AtHand DEF Shaped
  <1>6. CASE RecordPayment(s)
    <2>1. doc.kind = "order" /\ slot[s].todo # <<>>
      <3>1. Doing(s, "record")
        BY <1>6 DEF RecordPayment
      <3> QED
        BY <3>1, AtHand DEF Doing, Shaped
    <2>2. SlotsOK'
      BY <1>6, <2>1, SlotAfter, EmptySeq, SlotMoves, SameSets DEF SlotsOK, RecordPayment, Call
    <2>3. Untouched' /\ UNCHANGED <<log, queue, told>>
      BY <1>6, <2>1 DEF RecordPayment, Call, AddPayment, Untouched, Shaped
    <2> QED
      BY <2>2, <2>3, SameSets DEF LogOK, ToldOK
  <1>7. CASE Send(s)
    BY <1>7, SendQuiet
  <1> QED
    BY <1>1, <1>2, <1>3, <1>4, <1>5, <1>6, <1>7 DEF SharedStep

-----------------------------------------------------------------------------
(* The handlers of the events of what nobody has paid.                     *)

\* Lists of steps.
LEMMA Lists ==
  ASSUME NEW Q
  PROVE  /\ <<>> \in Seq(Q)
         /\ \A q \in Q : <<q>> \in Seq(Q)
         /\ \A a, b \in Seq(Q) : a \o b \in Seq(Q)
  <1>1. <<>> \in Seq(Q)
    BY EmptySeq
  <1>2. ASSUME NEW q \in Q PROVE <<q>> \in Seq(Q)
    OBVIOUS
  <1>3. ASSUME NEW a \in Seq(Q), NEW b \in Seq(Q) PROVE a \o b \in Seq(Q)
    BY ConcatProperties
  <1> QED
    BY <1>1, <1>2, <1>3

\* The steps of a trigger.
LEMMA Triggered ==
  ASSUME NEW Q, NEW q
  PROVE  /\ q \in Q => Trigger(q) \in Seq(Q)
         /\ Trigger(q) \in {<<>>, <<q>>}
  BY Lists, Zenon DEF Trigger

\* Booking handlers.
LEMMA BookingStepsQuiet ==
  ASSUME doc.kind = "booking", NEW e \in UnpaidBooking
  PROVE  BookingSteps(e) \in Seq(Quiet)
  <1>0. /\ Quiet = BookingQuiet
        /\ e.status \in Words /\ e.pay \in Open /\ e.full \in BOOLEAN
        /\ ~IsPaid(e) /\ ~LoyaltySucceeded(e) /\ ~Invoiceable(e) /\ ~Announced(e)
        /\ e.pay # "refund_requested"
    BY DEF Quiet, UnpaidBooking, IsPaid, LoyaltySucceeded, Invoiceable, Announced, Succeeded,
       Outstanding, Open
  <1>1. CASE e.type = "payment_pending"
    <2>1. <<"put_row", "pending", "pending">> \in Quiet
      BY <1>0 DEF BookingQuiet, Words
    <2> QED
      BY <1>1, <2>1, Lists DEF BookingSteps, PaymentPendingSteps
  <1>2. CASE e.type = "confirmed"
    <2>1. CachePay(e) \in Words
      BY <1>0 DEF CachePay, Accepted, Words, Open
    <2>2. <<"put_row", "confirmed", CachePay(e)>> \in Quiet
      BY <1>0, <2>1 DEF BookingQuiet, Words
    <2>3. CacheSteps(e) \in Seq(Quiet)
      BY <2>2, Lists DEF CacheSteps
    <2>4. PaymentSteps(e) = <<>> /\ LoyaltySteps(e) = <<>> /\ PaidInvoiceSteps(e) = <<>>
          /\ NotifySteps(e) = <<>>
      BY <1>0 DEF PaymentSteps, LoyaltySteps, PaidInvoiceSteps, NotifySteps
    <2>5. ConfirmedSteps(e) \in Seq(Quiet)
      BY <2>3, <2>4, Lists, Zenon DEF ConfirmedSteps
    <2> QED
      BY <1>2, <2>5 DEF BookingSteps
  <1>3. FindLinkSteps(e) \in Seq(Quiet) /\ CloseLinkSteps(e) \in Seq(Quiet)
    <2>1. <<"find_link">> \in Quiet /\ <<"close_link">> \in Quiet
      BY <1>0 DEF BookingQuiet
    <2> QED
      BY <2>1, Lists, Zenon DEF FindLinkSteps, CloseLinkSteps
  <1>4. CASE e.type \in {"updated", "rescheduled"}
    <2>1. CacheStatus(e) \in Words
      BY <1>0 DEF CacheStatus, Words
    <2>2. <<"change_row", CacheStatus(e), e.pay>> \in Quiet
      BY <1>0, <2>1 DEF BookingQuiet, Words, Open
    <2>3. UpdateMessageSteps(e) = <<>>
      BY <1>0 DEF UpdateMessageSteps
    <2>4. << <<"change_row", CacheStatus(e), e.pay>> >> \in Seq(Quiet)
      BY <2>2, Lists
    <2>5. UpdatedSteps(e) \in Seq(Quiet)
      BY <1>3, <2>3, <2>4, Lists, Zenon DEF UpdatedSteps
    <2> QED
      BY <1>4, <2>5 DEF BookingSteps
  <1>5. CASE e.type = "cancelled"
    <2>1. SyncPay(e) \in Open
      BY <1>0 DEF SyncPay, Open
    <2>2. << <<"set_booking", "cancelled", SyncPay(e)>> >> \in Seq(Quiet)
          /\ << <<"reverse">> >> \in Seq(Quiet) /\ << <<"drop_row">> >> \in Seq(Quiet)
      <3>1. <<"set_booking", "cancelled", SyncPay(e)>> \in Quiet /\ <<"reverse">> \in Quiet
            /\ <<"drop_row">> \in Quiet
        BY <1>0, <2>1 DEF BookingQuiet, Words
      <3> QED
        BY <3>1, Lists
    <2>3. ReversalSteps(e) \in Seq(Quiet)
      BY <2>2, Lists, Zenon DEF ReversalSteps
    <2>4. CancelledSteps(e) \in Seq(Quiet)
      BY <1>0, <1>3, <2>2, <2>3, Lists, Zenon DEF CancelledSteps
    <2> QED
      BY <1>5, <2>4 DEF BookingSteps
  <1>6. CASE e.type = "no_show"
    <2>1. <<"drop_row">> \in Quiet
      BY <1>0 DEF BookingQuiet
    <2> QED
      BY <1>6, <2>1, Lists DEF BookingSteps, NoShowSteps
  <1>7. CASE e.type = "reschedule_requested"
    <2>1. <<"set_booking", "reschedule_requested", "none">> \in Quiet
      BY <1>0 DEF BookingQuiet, Words
    <2> QED
      BY <1>7, <2>1, Lists DEF BookingSteps, RescheduleSteps
  <1> QED
    BY <1>1, <1>2, <1>4, <1>5, <1>6, <1>7 DEF UnpaidBooking

\* Voucher and shop handlers.
LEMMA SaleStepsQuiet ==
  ASSUME doc.kind \in Sold, NEW e \in Unpaid
  PROVE  SaleSteps(e) \in Seq(Quiet)
  <1>1. CASE doc.kind = "voucher"
    <2>1. e.type = "voucher_payment_pending"
      BY <1>1 DEF Unpaid, UnpaidSale
    <2>2. <<"mark", "pending">> \in Quiet
      BY <1>1 DEF Quiet
    <2> QED
      BY <2>1, <2>2, Lists DEF SaleSteps, VoucherPaymentPendingSteps
  <1>2. CASE doc.kind = "order"
    <2>1. e.type = "order_created" /\ e.pay # "success"
      BY <1>2 DEF Unpaid, UnpaidSale
    <2>2. <<"record">> \in Quiet /\ <<"send", "order", "whatsapp", "customer">> \in Quiet
      BY <1>2 DEF Quiet, Sending, Free, Audience
    <2>3. << <<"record">> >> \in Seq(Quiet) /\ Phone("order", "customer") \in Seq(Quiet)
      BY <2>2, Lists DEF Phone
    <2>4. OrderCreatedSteps(e) \in Seq(Quiet)
      BY <2>1, <2>3, Lists, Zenon DEF OrderCreatedSteps
    <2> QED
      BY <2>1, <2>4 DEF SaleSteps
  <1> QED
    BY <1>1, <1>2 DEF Unpaid

\* The handlers that only pass a message on.
LEMMA NoticeStepsQuiet ==
  ASSUME doc.kind = "account", NEW e \in SomeNotice
  PROVE  NoticeSteps(e) \in Seq(Quiet)
  <1>1. ASSUME NEW t \in Free, NEW c \in {"whatsapp", "sms", "email"}, NEW a \in Audience
        PROVE  <<"send", t, c, a>> \in Quiet
    BY DEF Quiet, Sending
  <1>2. ASSUME NEW t \in Free
        PROVE  ResolveSms(t) \in Seq(Quiet) /\ ResolveEmail(t) \in Seq(Quiet)
    <2>1. <<"send", t, "sms", "customer">> \in Quiet /\ <<"send", t, "email", "customer">> \in Quiet
      BY <1>1 DEF Audience
    <2>2. << <<"send", t, "sms", "customer">> >> \in Seq(Quiet)
          /\ << <<"send", t, "email", "customer">> >> \in Seq(Quiet)
      BY <2>1, Lists
    <2> QED
      BY <2>2, Lists, Zenon DEF ResolveSms, ResolveEmail
  <1>3. \A t \in Free : SmsThenEmail(t) \in Seq(Quiet)
    BY <1>2, Lists DEF SmsThenEmail
  <1>4. /\ "otp" \in Free /\ "verified" \in Free /\ "password_reset" \in Free
        /\ "password_changed" \in Free /\ "email_verify" \in Free /\ "payment_failed" \in Free
        /\ "payment_pending" \in Free /\ "direct" \in Free
    BY DEF Free
  <1>5. CASE e.type = "sms_send"
    <2>1. e.to \in Seq(Audience)
      <3>1. <<"customer">> \in Seq(Audience) /\ <<"customer", "other", "customer">> \in Seq(Audience)
        BY DEF Audience
      <3>2. e.to \in {<<"customer">>, <<"customer", "other", "customer">>}
        BY DEF SomeNotice
      <3> QED
        BY <3>1, <3>2, Zenon
    <2>2. ASSUME NEW i \in DOMAIN e.to PROVE <<"send", "direct", "sms", e.to[i]>> \in Quiet
      <3>1. e.to[i] \in Audience
        BY <2>1
      <3> QED
        BY <1>1, <1>4, <3>1
    <2>3. [i \in DOMAIN e.to |-> <<"send", "direct", "sms", e.to[i]>>] \in Seq(Quiet)
      <3>1. PICK n \in Nat : DOMAIN e.to = 1..n
        BY <2>1
      <3>2. [i \in DOMAIN e.to |-> <<"send", "direct", "sms", e.to[i]>>] \in [1..n -> Quiet]
        BY <2>2, <3>1, Zenon
      <3> QED
        BY <3>1, <3>2, SeqDef
    <2>4. SendSMSSteps(e) \in Seq(Quiet)
      BY <2>3, Lists, Zenon DEF SendSMSSteps
    <2> QED
      BY <1>5, <2>4 DEF NoticeSteps
  <1>6. CASE e.type \in Notices
    BY <1>2, <1>3, <1>4, <1>6, Lists DEF NoticeSteps, Notices, UserRegisteredSteps,
       UserVerifiedSteps,
       PasswordResetSteps, PasswordChangedSteps, EmailVerificationSteps, PaymentFailedSteps,
       PaymentReminderSteps
  <1> QED
    BY <1>5, <1>6 DEF SomeNotice

\* A handler starts.
LEMMA BeginQuiet ==
  ASSUME Waiting, NEW s \in Slot, BeginBooking(s) \/ BeginSale(s) \/ BeginNotice(s), doc' = doc
  PROVE  Quietly'
  <1> USE DEF Waiting, Quietly
  <1>1. PICK n \in queue, steps \in Seq(Quiet) : Begin(s, n, steps)
    <2>1. \A n \in queue : log[n] \in Unpaid
      BY DEF LogOK
    <2>2. CASE BeginBooking(s)
      <3>1. \A n \in queue : BookingSteps(log[n]) \in Seq(Quiet)
        BY <2>1, <2>2, BookingStepsQuiet DEF BeginBooking, Unpaid
      <3> QED
        BY <2>2, <3>1 DEF BeginBooking
    <2>3. CASE BeginSale(s)
      BY <2>1, <2>3, SaleStepsQuiet DEF BeginSale
    <2>4. CASE BeginNotice(s)
      <3>1. \A n \in queue : NoticeSteps(log[n]) \in Seq(Quiet)
        BY <2>1, <2>4, NoticeStepsQuiet DEF BeginNotice, Unpaid
      <3> QED
        BY <2>4, <3>1 DEF BeginNotice
    <2> QED
      BY <2>2, <2>3, <2>4
  <1>2. n \in Nat
    BY DEF LogOK
  <1>3. [Idle EXCEPT !.ev = n, !.todo = steps] \in Local(Quiet)
    BY <1>2 DEF Idle, Local
  <1>4. SlotsOK'
    BY <1>1, <1>3, SlotMoves, SameSets DEF Begin, SlotsOK
  <1>5. UNCHANGED <<remote, log, queue, told>>
    BY <1>1 DEF Begin
  <1> QED
    BY <1>4, <1>5, SameSets DEF Untouched, LogOK, ToldOK

-----------------------------------------------------------------------------
(* What happens while nobody has paid, and after it still nobody has.      *)

\* An unpaid event is published.
LEMMA PublishQuiet ==
  ASSUME Waiting, doc' = doc, NEW e \in Unpaid, Publish(e), Untouched'
  PROVE  Quietly'
  <1> USE DEF Waiting, Quietly
  <1>1. UNCHANGED <<slot, told>> /\ log' = Append(log, e) /\ queue' = queue \cup {Len(log) + 1}
    BY DEF Publish
  <1>2. log' \in Seq(Unpaid) /\ queue' \subseteq DOMAIN log'
    BY <1>1 DEF LogOK
  <1> QED
    BY <1>1, <1>2, SameSets DEF LogOK, SlotsOK, ToldOK, Local

\* ushbooknpay and a booking.
LEMMA BookingHappensQuiet ==
  ASSUME Waiting, BookingHappens, doc' = doc
  PROVE  Quietly'
  <1> USE DEF Waiting, Quietly
  <1>1. doc.kind = "booking" /\ Unpaid = UnpaidBooking
    BY DEF BookingHappens, Unpaid
  <1>2. /\ remote.pay \in Open /\ remote.status \in Words
        /\ remote.pay # "success" /\ remote.pay # "refund_requested"
    BY <1>1 DEF Untouched, Open
  <1>3. CASE HoldForPayment
    <2>1. PICK e \in UnpaidBooking : Publish(e)
      BY <1>1, <1>2, <1>3 DEF HoldForPayment, Plainly, Happens, Emits, UnpaidBooking, Words, Open, Shaped
    <2>2. Untouched'
      BY <1>1, <1>2, <1>3 DEF HoldForPayment, Plainly, Happens, Emits, Untouched, Words, Open, Shaped
    <2> QED
      BY <1>1, <2>1, <2>2, PublishQuiet
  <1>4. CASE ConfirmUnpaid
    <2>1. PICK e \in UnpaidBooking : Publish(e)
      BY <1>1, <1>2, <1>4 DEF ConfirmUnpaid, Plainly, Happens, Emits, UnpaidBooking, Words, Open, Shaped
    <2>2. Untouched'
      BY <1>1, <1>2, <1>4 DEF ConfirmUnpaid, Plainly, Happens, Emits, Untouched, Words, Open, Shaped
    <2> QED
      BY <1>1, <2>1, <2>2, PublishQuiet
  <1>5. CASE ConfirmPaid
    BY <1>1, <1>2, <1>5 DEF ConfirmPaid, Plainly, Happens, Emits, CloseLinks, Shaped
  <1>6. CASE PayLink
    BY <1>1, <1>2, <1>6 DEF PayLink, Plainly, Happens, Emits, CloseLinks, Shaped
  <1>7. CASE MarkPaid
    BY <1>1, <1>2, <1>7 DEF MarkPaid, Plainly, Happens, Emits, CloseLinks, Shaped
  <1>8. CASE ConfirmAgain
    BY <1>1, <1>2, <1>8 DEF ConfirmAgain, Plainly, Happens, Emits, CloseLinks, Shaped
  <1>9. CASE Receipt
    BY <1>1, <1>2, <1>9 DEF Receipt, Plainly, Happens, Emits, CloseLinks, Shaped
  <1>10. CASE CheckIn
    BY <1>1, <1>2, <1>10 DEF CheckIn, Plainly, Happens, Emits, CloseLinks, Shaped
  <1>11. CASE Edit
    <2>1. PICK e \in UnpaidBooking : Publish(e)
      BY <1>1, <1>2, <1>11 DEF Edit, Plainly, Happens, Emits, UnpaidBooking, Words, Open, Shaped
    <2>2. Untouched'
      BY <1>1, <1>2, <1>11 DEF Edit, Plainly, Happens, Emits, Untouched, Words, Open, Shaped
    <2> QED
      BY <1>1, <2>1, <2>2, PublishQuiet
  <1>12. CASE Complete
    BY <1>1, <1>2, <1>12 DEF Complete, Plainly, Happens, Emits, CloseLinks, Shaped
  <1>13. CASE NoShow
    <2>1. PICK e \in UnpaidBooking : Publish(e)
      BY <1>1, <1>2, <1>13 DEF NoShow, Plainly, Happens, Emits, UnpaidBooking, Words, Open, Shaped
    <2>2. Untouched'
      BY <1>1, <1>2, <1>13 DEF NoShow, Plainly, Happens, Emits, Untouched, Words, Open, Shaped
    <2> QED
      BY <1>1, <2>1, <2>2, PublishQuiet
  <1>14. CASE AskReschedule
    <2>1. PICK e \in UnpaidBooking : Publish(e)
      BY <1>1, <1>2, <1>14 DEF AskReschedule, Plainly, Happens, Emits, UnpaidBooking, Words, Open, Shaped
    <2>2. Untouched'
      BY <1>1, <1>2, <1>14 DEF AskReschedule, Plainly, Happens, Emits, Untouched, Words, Open, Shaped
    <2> QED
      BY <1>1, <2>1, <2>2, PublishQuiet
  <1>15. CASE Cancel
    <2>1. PICK e \in UnpaidBooking : Publish(e)
      BY <1>1, <1>2, <1>15 DEF Cancel, Plainly, Happens, Emits, UnpaidBooking, Words, Open, Shaped
    <2>2. Untouched'
      BY <1>1, <1>2, <1>15 DEF Cancel, Plainly, Happens, Emits, Untouched, Words, Open, Shaped
    <2> QED
      BY <1>1, <2>1, <2>2, PublishQuiet
  <1>16. CASE ApproveRefund
    BY <1>1, <1>2, <1>16 DEF ApproveRefund, Untouched
  <1>17. CASE CompleteRefund
    <2>1. \A i \in DOMAIN log : log[i] \in UnpaidBooking
      BY <1>1 DEF LogOK
    <2>2. \A i \in DOMAIN log : log[i].type # "refund_approved"
      BY <2>1 DEF UnpaidBooking
    <2> QED
      BY <1>17, <2>2 DEF CompleteRefund, Approvals
  <1> QED
    BY <1>3, <1>4, <1>5, <1>6, <1>7, <1>8, <1>9, <1>10, <1>11, <1>12, <1>13, <1>14, <1>15,
       <1>16, <1>17 DEF BookingHappens

\* ushbooknpay and a sale.
LEMMA SaleHappensQuiet ==
  ASSUME Waiting, SaleHappens, doc' = doc
  PROVE  Quietly'
  <1> USE DEF Waiting, Quietly
  <1>1. CASE HoldVoucher
    <2>1. doc.kind = "voucher" /\ Unpaid = UnpaidSale("voucher_payment_pending")
      BY <1>1 DEF HoldVoucher, Sells, Unpaid
    <2>2. PICK e \in UnpaidSale("voucher_payment_pending") : Publish(e)
      BY <1>1, <2>1 DEF HoldVoucher, Sells, UnpaidSale, Shaped
    <2>3. Untouched'
      BY <1>1, <2>1 DEF HoldVoucher, Sells, Untouched, Shaped
    <2> QED
      BY <2>1, <2>2, <2>3, PublishQuiet
  <1>2. CASE BuyVoucher
    BY <1>2 DEF BuyVoucher, Sells, Untouched, Shaped
  <1>3. CASE ScheduleVoucher
    BY <1>3 DEF ScheduleVoucher, Sells, Untouched, Shaped
  <1>4. CASE FallDue
    BY <1>4 DEF FallDue, Sells, Untouched, Shaped
  <1>5. CASE AnnounceActivation
    BY <1>5 DEF AnnounceActivation, Sells, Untouched, Shaped
  <1>6. CASE RedeemVoucher
    BY <1>6 DEF RedeemVoucher, Sells, Untouched, Shaped
  <1>7. CASE Republish
    BY <1>7 DEF Republish, Sells, Untouched, Shaped
  <1>8. CASE PlaceOrder
    <2>1. doc.kind = "order" /\ Unpaid = UnpaidSale("order_created")
      BY <1>8 DEF PlaceOrder, Sells, Unpaid
    <2>2. PICK e \in UnpaidSale("order_created") : Publish(e)
      BY <1>8, <2>1 DEF PlaceOrder, Sells, UnpaidSale, Shaped
    <2>3. Untouched'
      BY <1>8, <2>1 DEF PlaceOrder, Sells, Untouched, Shaped
    <2> QED
      BY <2>1, <2>2, <2>3, PublishQuiet
  <1>9. CASE BuyGift
    BY <1>9 DEF BuyGift, Sells, Untouched, Shaped
  <1>10. CASE DeliverGift
    BY <1>10 DEF DeliverGift, Sells, Untouched, Shaped
  <1>11. CASE ClaimGift
    BY <1>11 DEF ClaimGift, Sells, Untouched, Shaped
  <1>12. CASE UseGift
    BY <1>12 DEF UseGift, Sells, Untouched, Shaped
  <1> QED
    BY <1>1, <1>2, <1>3, <1>4, <1>5, <1>6, <1>7, <1>8, <1>9, <1>10, <1>11, <1>12 DEF SaleHappens

\* ushauth and an account.
LEMMA NoticeHappensQuiet ==
  ASSUME Waiting, NoticeHappens, doc' = doc
  PROVE  Quietly'
  <1>1. doc.kind = "account" /\ Unpaid = SomeNotice /\ UNCHANGED remote
    BY DEF NoticeHappens, AskForNotice, AskForSMS, Says, Unpaid
  <1>2. PICK e \in SomeNotice : Publish(e)
    <2>1. CASE AskForNotice
      BY <2>1 DEF AskForNotice, Says, SomeNotice
    <2>2. CASE AskForSMS
      BY <2>2 DEF AskForSMS, Says, SomeNotice
    <2> QED
      BY <2>1, <2>2 DEF NoticeHappens
  <1>3. Untouched'
    BY <1>1 DEF Untouched, Waiting, Quietly
  <1> QED
    BY <1>1, <1>2, <1>3, PublishQuiet

-----------------------------------------------------------------------------
(* The inductive invariant and the theorem.                                *)

\* The document is what it is, and before the payment nothing but quiet steps is under way.
IInv == Shaped /\ (~remote.paid => Quietly)

\* It holds at the start, of every document that may be.
LEMMA IInvInit == Init => IInv
  <1> SUFFICES ASSUME Init PROVE IInv
    OBVIOUS
  <1>1. doc.kind \in Kinds
    BY DocumentsAssumption DEF Init
  <1>2. Shaped
    BY <1>1 DEF Init, Shaped, NewSale, NewAccount, NewBooking, CancelledBooking
  <1>3. ~remote.paid => Untouched
    BY <1>1 DEF Init, Untouched, NewSale, NewAccount, NewBooking, CancelledBooking, Words, Open
  <1>4. LogOK
    BY EmptySeq DEF Init, InitDelivery, LogOK
  <1>5. SlotsOK
    BY EmptySeq DEF Init, InitDelivery, SlotsOK, Local, Idle
  <1>6. ToldOK
    BY DEF Init, InitDelivery, ToldOK, BagToSet, EmptyBag, SetToBag
  <1> QED
    BY <1>2, <1>3, <1>4, <1>5, <1>6 DEF IInv, Quietly

\* Every step keeps it.
LEMMA IInvNext == IInv /\ [Next]_vars => IInv'
  <1> SUFFICES ASSUME IInv, [Next]_vars PROVE IInv'
    OBVIOUS
  <1>1. Lasting /\ doc' = doc
    BY NextLasting DEF IInv, Lasting
  <1>2. Shaped'
    BY <1>1 DEF Lasting, Shaped, IInv
  <1>3. ASSUME ~remote'.paid PROVE Quietly'
    <2>1. Waiting
      BY <1>1, <1>3 DEF Waiting, IInv, Lasting
    <2>2. CASE Happen
      BY <1>1, <2>1, <2>2, BookingHappensQuiet, SaleHappensQuiet, NoticeHappensQuiet DEF Happen
    <2>3. ASSUME NEW s \in Slot, Step(s) PROVE Quietly'
      BY <1>1, <2>1, <2>3, BeginQuiet, SharedQuiet, BookingCallQuiet, SaleCallQuiet DEF Step
    <2>4. CASE UNCHANGED vars
      BY <1>1, <2>1, <2>4, SameSets DEF vars, Waiting, Quietly, Untouched, LogOK, SlotsOK,
         Local, ToldOK
    <2> QED
      BY <2>2, <2>3, <2>4 DEF Next
  <1> QED
    BY <1>2, <1>3 DEF IInv

\* Before somebody has paid, nothing is invoiced, credited, recorded or announced, for every
\* set of documents and every number of slots, events and faults: all handlers of bookings,
\* vouchers, orders and gifts have the payment tests they need, in every order of deliveries.
THEOREM PaymentFirst == Spec => []NothingBeforePayment
  <1>1. IInv => NothingBeforePayment
    <2> SUFFICES ASSUME IInv, ~remote.paid PROVE
          /\ remote.invoices = 0
          /\ doc.kind # "order" => remote.payments = 0
          /\ doc.kind = "booking" => remote.earned = 0
          /\ \A t \in {"confirmed", "active", "scheduled", "purchase"} :
                 \A m \in BagToSet(told) : m[1] # t
      BY DEF NothingBeforePayment
    <2>1. Untouched /\ ToldOK
      BY DEF IInv, Quietly
    <2> QED
      BY <2>1 DEF Untouched, ToldOK, Free
  <1> QED
    BY <1>1, IInvInit, IInvNext, PTL DEF Spec

-----------------------------------------------------------------------------
(* A voucher that is to be delivered at a later date, before that date.    *)

Ahead == doc.kind = "voucher" /\ doc.ahead

\* The events that may have been published by then, and the steps of their handlers.
Early ==
    [type : {"voucher_payment_pending", "voucher_scheduled"}, status : {"pending", "scheduled"},
     pay : {"pending", "success"}]
Notice == <<"send", "scheduled", "sms", "sender">>
Patience ==
    {<<"partner">>, <<"invoice">>, <<"link_payments">>, <<"record">>, <<"mark", "pending">>, Notice}

\* Nothing is active, announced or on its way to the recipient.
NotYet == remote.status \in {"new", "pending", "scheduled"} /\ ~remote.announced
EarlyLog == log \in Seq(Early) /\ queue \subseteq DOMAIN log
EarlySlots == slot \in [Slot -> Local(Patience)]
Unheard == \A m \in BagToSet(told) : m[3] # "recipient"
Unspoiled == NotYet /\ EarlyLog /\ EarlySlots /\ Unheard

\* The date has not come, and still has not.
Sealed == Shaped /\ Ahead /\ Unspoiled /\ ~remote.due /\ ~remote'.due

\* The step at hand is one of the patient ones, and the slot has them to do after it.
LEMMA PatientAtHand ==
  ASSUME Sealed, NEW s \in Slot, NEW op, Doing(s, op)
  PROVE  /\ op \in {"partner", "invoice", "link_payments", "record", "mark", "send"}
         /\ op = "send" => Head(slot[s].todo) = Notice
         /\ \A then \in Seq(Patience) :
                After(s, then) \in Local(Patience) /\ Holding(After(s, then)) \in Local(Patience)
         /\ Idle \in Local(Patience)
  <1>1. slot[s].todo # <<>> /\ Head(slot[s].todo)[1] = op
    BY DEF Doing
  <1>2. slot \in [Slot -> Local(Patience)]
    BY DEF Sealed, Unspoiled, EarlySlots
  <1>3. Head(slot[s].todo) \in Patience /\ Idle \in Local(Patience)
    BY <1>1, <1>2, SlotAfter, EmptySeq
  <1>4. \A then \in Seq(Patience) :
            After(s, then) \in Local(Patience) /\ Holding(After(s, then)) \in Local(Patience)
    BY <1>1, <1>2, SlotAfter
  <1>5. op \in {"partner", "invoice", "link_payments", "record", "mark", "send"}
        /\ (op = "send" => Head(slot[s].todo) = Notice)
    BY <1>1, <1>3 DEF Patience, Notice
  <1> QED
    BY <1>3, <1>4, <1>5

\* The notice goes out to the sender, or does not.
LEMMA SendUnspoiled ==
  ASSUME Sealed, NEW s \in Slot, Send(s), doc' = doc
  PROVE  Unspoiled'
  <1> USE DEF Sealed, Unspoiled
  <1> DEFINE m == Tail(Head(slot[s].todo))
             kept == IF m[2] = "email" THEN {} ELSE {RowOf(m)}
             noted == [After(s, <<>>) EXCEPT !.rows = @ \cup kept]
  <1>1. Doing(s, "send")
    BY DEF Send
  <1>2. m = <<"scheduled", "sms", "sender">>
    <2>1. Head(slot[s].todo) = <<"send", "scheduled", "sms", "sender">>
      BY <1>1, PatientAtHand DEF Notice
    <2>2. Tail(<<"send", "scheduled", "sms", "sender">>) = <<"scheduled", "sms", "sender">>
      OBVIOUS
    <2> QED
      BY <2>1, <2>2, Zenon
  <1>3. Fallback(m) = <<>> /\ kept = {"scheduled"}
    <2> HIDE DEF m
    <2>1. m[1] = "scheduled" /\ m[2] = "sms"
      BY <1>2
    <2> QED
      BY <2>1 DEF Fallback, RowOf
  <1>4. After(s, <<>>) \in Local(Patience) /\ Idle \in Local(Patience)
    BY <1>1, PatientAtHand, EmptySeq
  <1>5. noted \in Local(Patience)
    BY <1>3, <1>4 DEF Local
  <1>6. PICK l \in {After(s, <<>>), noted, Idle, After(s, Fallback(m)),
                   After(s, IF m[1] \in Trusting THEN <<>> ELSE Fallback(m))} : Becomes(s, l)
    BY DEF Send
  <1>7. EarlySlots'
    BY <1>3, <1>4, <1>5, <1>6, SlotMoves DEF EarlySlots
  <1>8. told' \in {told, told (+) SetToBag({m})}
    BY DEF Send
  <1>9. Unheard'
    <2> HIDE DEF m
    <2>1. BagToSet(told') \subseteq BagToSet(told) \cup {m}
      BY <1>8, ToldMore
    <2>2. m[3] # "recipient"
      BY <1>2
    <2> QED
      BY <2>1, <2>2 DEF Unheard
  <1>10. UNCHANGED <<remote, log, queue>>
    BY DEF Send
  <1> QED
    BY <1>7, <1>9, <1>10 DEF NotYet, EarlyLog

\* The other steps that all handlers have, and the mark of the recipient.
LEMMA StepUnspoiled ==
  ASSUME Sealed, NEW s \in Slot, SharedStep(s) \/ BookingCall(s) \/ SaleCall(s), doc' = doc
  PROVE  Unspoiled'
  <1> USE DEF Sealed, Unspoiled
  <1>0. <<>> \in Seq(Patience) /\ << <<"invoice">> >> \in Seq(Patience)
        /\ << <<"link_payments">> >> \in Seq(Patience)
    BY Lists DEF Patience
  <1>1. CASE End(s) \/ Crash(s)
    <2>1. EarlySlots'
      <3>1. Idle \in Local(Patience)
        BY EmptySeq DEF Idle, Local
      <3> QED
        BY <1>1, <3>1, SlotMoves DEF EarlySlots, End, Crash
    <2>2. UNCHANGED <<remote, log, told>> /\ queue' \subseteq queue
      BY <1>1 DEF End, Crash
    <2> QED
      BY <2>1, <2>2 DEF NotYet, EarlyLog, Unheard
  <1>2. CASE EnsurePartner(s)
    <2>1. Doing(s, "partner")
      BY <1>2 DEF EnsurePartner
    <2>2. EarlySlots'
      BY <1>0, <1>2, <2>1, PatientAtHand, SlotMoves DEF EnsurePartner, Call, EarlySlots
    <2> QED
      BY <1>2, <2>2 DEF EnsurePartner, Call, Same, NotYet, EarlyLog, Unheard
  <1>3. CASE CreateInvoice(s)
    <2>1. Doing(s, "invoice")
      BY <1>3 DEF CreateInvoice
    <2>2. EarlySlots'
      BY <1>0, <1>3, <2>1, PatientAtHand, SlotMoves DEF CreateInvoice, Call, EarlySlots
    <2> QED
      BY <1>3, <2>2 DEF CreateInvoice, Call, AddInvoice, NotYet, EarlyLog, Unheard, Shaped, Ahead
  <1>4. CASE LinkPayments(s)
    <2>1. Doing(s, "link_payments")
      BY <1>4 DEF LinkPayments
    <2>2. EarlySlots'
      BY <1>0, <1>4, <2>1, PatientAtHand, SlotMoves DEF LinkPayments, Call, EarlySlots, Ahead
    <2> QED
      BY <1>4, <2>2 DEF LinkPayments, Call, LinkAll, NotYet, EarlyLog, Unheard, Shaped, Ahead
  <1>5. CASE LinkBooking(s)
    BY <1>5, PatientAtHand DEF LinkBooking
  <1>6. CASE RecordPayment(s)
    <2>1. Doing(s, "record")
      BY <1>6 DEF RecordPayment
    <2>2. EarlySlots'
      BY <1>0, <1>6, <2>1, PatientAtHand, SlotMoves DEF RecordPayment, Call, EarlySlots
    <2> QED
      BY <1>6, <2>2 DEF RecordPayment, Call, AddPayment, NotYet, EarlyLog, Unheard, Shaped, Ahead
  <1>7. CASE Send(s)
    BY <1>7, SendUnspoiled
  <1>8. CASE MarkRecipient(s)
    <2>1. Doing(s, "mark")
      BY <1>8 DEF MarkRecipient
    <2>2. EarlySlots'
      BY <1>0, <1>8, <2>1, PatientAtHand, SlotMoves DEF MarkRecipient, Call, EarlySlots
    <2> QED
      BY <1>8, <2>2 DEF MarkRecipient, Call, NotYet, EarlyLog, Unheard, Shaped, Ahead
  <1>9. CASE ActivateScheduledVoucher(s)
    BY <1>9, PatientAtHand DEF ActivateScheduledVoucher
  <1>10. CASE BookingCall(s)
    <2>1. \E op \in {"put_row", "pay_row", "change_row", "drop_row", "mark_row", "set_booking",
                     "mark_paid", "fetch", "find_link", "close_link", "credit", "reverse",
                     "request_refund", "check_sent", "note", "link_note", "loose_note"} : Doing(s, op)
      BY <1>10 DEF BookingCall, CreateAppointmentCache, UpdateCachePayment, UpdateAppointmentCache,
         DeleteAppointmentCache, MarkCacheCancelled, UpdateBookingStatus, MarkInvoicePaid,
         FetchForInvoice, FetchPaymentLink, CancelPaymentLink, CreditLoyaltyPoints,
         CancelLoyaltyPoints, CreateRefundRequest, CheckAlreadySent, CreateCreditNote,
         LinkCreditNote, CreateLooseCreditNote
    <2> QED
      BY <2>1, PatientAtHand
  <1> QED
    BY <1>1, <1>2, <1>3, <1>4, <1>5, <1>6, <1>7, <1>8, <1>9, <1>10 DEF SharedStep, SaleCall

\* A handler starts: the one of the hold or of the purchase.
LEMMA BeginUnspoiled ==
  ASSUME Sealed, NEW s \in Slot, BeginBooking(s) \/ BeginSale(s) \/ BeginNotice(s), doc' = doc
  PROVE  Unspoiled'
  <1> USE DEF Sealed, Unspoiled
  <1>1. PICK n \in queue : Begin(s, n, SaleSteps(log[n]))
    BY DEF Ahead, BeginBooking, BeginSale, BeginNotice
  <1>2. log[n] \in Early /\ n \in Nat
    BY DEF EarlyLog
  <1>3. SaleSteps(log[n]) \in Seq(Patience)
    <2>1. CASE log[n].type = "voucher_payment_pending"
      BY <2>1 DEF SaleSteps, VoucherPaymentPendingSteps, Patience
    <2>2. CASE log[n].type = "voucher_scheduled"
      <3>1. /\ Trigger(<<"partner">>) \in Seq(Patience)
            /\ << <<"record">>, <<"send", "scheduled", "sms", "sender">> >> \in Seq(Patience)
        BY Triggered DEF Patience, Notice
      <3>2. VoucherScheduledSteps \in Seq(Patience)
        BY <3>1, Lists, Zenon DEF VoucherScheduledSteps
      <3> QED
        BY <2>2, <3>2 DEF SaleSteps
    <2> QED
      BY <1>2, <2>1, <2>2 DEF Early
  <1>4. [Idle EXCEPT !.ev = n, !.todo = SaleSteps(log[n])] \in Local(Patience)
    BY <1>2, <1>3 DEF Idle, Local
  <1>5. EarlySlots'
    BY <1>1, <1>4, SlotMoves DEF Begin, EarlySlots
  <1>6. UNCHANGED <<remote, log, queue, told>>
    BY <1>1 DEF Begin
  <1> QED
    BY <1>5, <1>6 DEF NotYet, EarlyLog, Unheard

\* ushbooknpay holds and schedules the voucher, and no more.
LEMMA HappenUnspoiled ==
  ASSUME Sealed, Happen, doc' = doc
  PROVE  Unspoiled'
  <1> USE DEF Sealed, Unspoiled
  <1>1. SaleHappens
    BY DEF Happen, BookingHappens, NoticeHappens, AskForNotice, AskForSMS, Says, Ahead
  <1>2. HoldVoucher \/ ScheduleVoucher
    BY <1>1 DEF SaleHappens, BuyVoucher, FallDue, AnnounceActivation, RedeemVoucher, Republish,
       PlaceOrder, BuyGift, DeliverGift, ClaimGift, UseGift, Sells, NotYet, Ahead, Shaped
  <1>3. PICK e \in Early : Publish(e)
    BY <1>2 DEF HoldVoucher, ScheduleVoucher, Sells, Early, Shaped, Ahead
  <1>4. NotYet'
    BY <1>2 DEF HoldVoucher, ScheduleVoucher, Sells, NotYet, Shaped, Ahead
  <1>5. UNCHANGED <<slot, told>> /\ log' = Append(log, e) /\ queue' = queue \cup {Len(log) + 1}
    BY <1>3 DEF Publish
  <1>6. EarlyLog'
    BY <1>5 DEF EarlyLog
  <1> QED
    BY <1>4, <1>5, <1>6 DEF EarlySlots, Local, Unheard

\* The inductive invariant: before the date nothing but patient steps is under way.
SealedInv == Shaped /\ (Ahead /\ ~remote.due => Unspoiled)

\* Nobody has heard anything at the start.
LEMMA SealedInit == Init => SealedInv
  <1> SUFFICES ASSUME Init, Ahead PROVE Unspoiled
    BY IInvInit DEF IInv, SealedInv
  <1>1. NotYet
    BY DEF Init, NotYet, NewSale, Ahead
  <1>2. EarlyLog
    BY EmptySeq DEF Init, InitDelivery, EarlyLog
  <1>3. EarlySlots
    BY EmptySeq DEF Init, InitDelivery, EarlySlots, Local, Idle
  <1>4. Unheard
    BY DEF Init, InitDelivery, Unheard, BagToSet, EmptyBag, SetToBag
  <1> QED
    BY <1>1, <1>2, <1>3, <1>4 DEF Unspoiled

\* Every step before the date is a patient one.
LEMMA SealedNext == SealedInv /\ [Next]_vars => SealedInv'
  <1> SUFFICES ASSUME SealedInv, [Next]_vars PROVE SealedInv'
    OBVIOUS
  <1>1. Lasting /\ doc' = doc
    BY NextLasting DEF SealedInv, Lasting
  <1>2. Shaped'
    BY <1>1 DEF Lasting, Shaped, SealedInv
  <1>3. ASSUME Ahead', ~remote'.due PROVE Unspoiled'
    <2>1. Sealed
      BY <1>1, <1>3 DEF Sealed, Ahead, SealedInv, Lasting
    <2>2. CASE Happen
      BY <1>1, <2>1, <2>2, HappenUnspoiled
    <2>3. ASSUME NEW s \in Slot, Step(s) PROVE Unspoiled'
      BY <1>1, <2>1, <2>3, BeginUnspoiled, StepUnspoiled DEF Step
    <2>4. CASE UNCHANGED vars
      BY <2>1, <2>4 DEF vars, Sealed, Unspoiled, NotYet, EarlyLog, EarlySlots, Local, Unheard
    <2> QED
      BY <2>2, <2>3, <2>4 DEF Next
  <1> QED
    BY <1>2, <1>3 DEF SealedInv

\* The recipient of a gift scheduled for later hears nothing before the date, for every set of
\* documents and every number of slots, events and faults: no order, redelivery or failure of
\* the voucher handlers announces it, and only the due date's handler activates it.
THEOREM SecretKept == Spec => []NoSpoiler
  <1>1. SealedInv => NoSpoiler
    BY DEF SealedInv, Unspoiled, Unheard, NoSpoiler, Ahead
  <1> QED
    BY <1>1, SealedInit, SealedNext, PTL DEF Spec

-----------------------------------------------------------------------------
(* Lists of steps: which operations they hold, and whether only once.      *)

Has(q, X) == \E i \in DOMAIN q : q[i][1] \in X
Once(q, X) == \A i, j \in DOMAIN q : q[i][1] \in X /\ q[j][1] \in X => i = j

\* No step and one step.
LEMMA HasOne ==
  ASSUME NEW X, NEW x
  PROVE  /\ ~Has(<<>>, X) /\ Once(<<>>, X)
         /\ Has(<<x>>, X) <=> x[1] \in X
         /\ Once(<<x>>, X)
  BY DEF Has, Once

\* The first step and the others.
LEMMA HasRest ==
  ASSUME NEW S, NEW q \in Seq(S), q # <<>>, NEW X
  PROVE  /\ Has(q, X) <=> Head(q)[1] \in X \/ Has(Tail(q), X)
         /\ Once(q, X) => Once(Tail(q), X) /\ ~(Head(q)[1] \in X /\ Has(Tail(q), X))
  <1>1. /\ Len(q) \in Nat \ {0} /\ DOMAIN q = 1..Len(q) /\ Head(q) = q[1]
        /\ Tail(q) \in Seq(S) /\ Len(Tail(q)) = Len(q) - 1 /\ DOMAIN Tail(q) = 1..(Len(q) - 1)
        /\ \A i \in 1..(Len(q) - 1) : Tail(q)[i] = q[i + 1]
    BY HeadTailProperties, EmptySeq, LenProperties
  <1>2. \A i \in DOMAIN q : i = 1 \/ (i - 1 \in DOMAIN Tail(q) /\ Tail(q)[i - 1] = q[i])
    BY <1>1
  <1>3. \A i \in DOMAIN Tail(q) : i + 1 \in DOMAIN q /\ q[i + 1] = Tail(q)[i]
    BY <1>1
  <1>4. Has(q, X) <=> Head(q)[1] \in X \/ Has(Tail(q), X)
    <2>1. ASSUME Has(q, X) PROVE Head(q)[1] \in X \/ Has(Tail(q), X)
      BY <1>1, <1>2, <2>1 DEF Has
    <2>2. ASSUME Has(Tail(q), X) PROVE Has(q, X)
      BY <1>3, <2>2 DEF Has
    <2>3. ASSUME Head(q)[1] \in X PROVE Has(q, X)
      BY <1>1, <2>3 DEF Has
    <2> QED
      BY <2>1, <2>2, <2>3
  <1>5. ASSUME Once(q, X) PROVE Once(Tail(q), X)
    <2> SUFFICES ASSUME NEW i \in DOMAIN Tail(q), NEW j \in DOMAIN Tail(q),
                        Tail(q)[i][1] \in X, Tail(q)[j][1] \in X
                 PROVE  i = j
      BY DEF Once
    <2>1. i + 1 = j + 1
      BY <1>3, <1>5 DEF Once
    <2> QED
      BY <1>1, <2>1
  <1>6. ASSUME Once(q, X), Head(q)[1] \in X, Has(Tail(q), X) PROVE FALSE
    <2>1. PICK i \in DOMAIN Tail(q) : Tail(q)[i][1] \in X
      BY <1>6 DEF Has
    <2>2. 1 = i + 1
      BY <1>1, <1>3, <1>6, <2>1 DEF Once
    <2> QED
      BY <1>1, <2>2
  <1> QED
    BY <1>4, <1>5, <1>6

\* One list after the other.
LEMMA HasBoth ==
  ASSUME NEW S, NEW p \in Seq(S), NEW q \in Seq(S), NEW X
  PROVE  /\ p \o q \in Seq(S)
         /\ Has(p \o q, X) <=> Has(p, X) \/ Has(q, X)
         /\ Once(p, X) /\ Once(q, X) /\ ~(Has(p, X) /\ Has(q, X)) => Once(p \o q, X)
  <1>1. /\ p \o q \in Seq(S) /\ DOMAIN p = 1..Len(p) /\ DOMAIN q = 1..Len(q)
        /\ Len(p) \in Nat /\ Len(q) \in Nat /\ DOMAIN (p \o q) = 1..(Len(p) + Len(q))
        /\ \A i \in 1..(Len(p) + Len(q)) :
               (p \o q)[i] = IF i <= Len(p) THEN p[i] ELSE q[i - Len(p)]
    BY ConcatProperties, LenProperties
  <1>2. \A i \in DOMAIN (p \o q) :
            \/ i \in DOMAIN p /\ (p \o q)[i] = p[i]
            \/ i - Len(p) \in DOMAIN q /\ (p \o q)[i] = q[i - Len(p)]
    BY <1>1
  <1>3. /\ \A i \in DOMAIN p : i \in DOMAIN (p \o q) /\ (p \o q)[i] = p[i]
        /\ \A i \in DOMAIN q : i + Len(p) \in DOMAIN (p \o q) /\ (p \o q)[i + Len(p)] = q[i]
    BY <1>1
  <1>4. Has(p \o q, X) <=> Has(p, X) \/ Has(q, X)
    <2>1. ASSUME Has(p \o q, X) PROVE Has(p, X) \/ Has(q, X)
      BY <1>2, <2>1 DEF Has
    <2>2. ASSUME Has(p, X) PROVE Has(p \o q, X)
      BY <1>3, <2>2 DEF Has
    <2>3. ASSUME Has(q, X) PROVE Has(p \o q, X)
      BY <1>3, <2>3 DEF Has
    <2> QED
      BY <2>1, <2>2, <2>3
  <1>5. ASSUME Once(p, X), Once(q, X), ~(Has(p, X) /\ Has(q, X)) PROVE Once(p \o q, X)
    <2> SUFFICES ASSUME NEW i \in DOMAIN (p \o q), NEW j \in DOMAIN (p \o q),
                        (p \o q)[i][1] \in X, (p \o q)[j][1] \in X
                 PROVE  i = j
      BY DEF Once
    <2>1. CASE Has(p, X)
      <3>1. i \in DOMAIN p /\ j \in DOMAIN p /\ p[i][1] \in X /\ p[j][1] \in X
        BY <1>2, <1>5, <2>1 DEF Has
      <3> QED
        BY <1>5, <3>1 DEF Once
    <2>2. CASE ~Has(p, X)
      <3>1. /\ i - Len(p) \in DOMAIN q /\ j - Len(p) \in DOMAIN q
            /\ q[i - Len(p)][1] \in X /\ q[j - Len(p)][1] \in X
        BY <1>2, <2>2 DEF Has
      <3>2. i - Len(p) = j - Len(p)
        BY <1>5, <3>1 DEF Once
      <3> QED
        BY <1>1, <3>2
    <2> QED
      BY <2>1, <2>2
  <1> QED
    BY <1>1, <1>4, <1>5

-----------------------------------------------------------------------------
(* Events, and the steps that their handlers may have to do.               *)

Statuses ==
    {"requested", "pending", "confirmed", "reschedule_requested", "checked_in", "cancelled",
     "no_show", "completed"}
PayStatuses ==
    {"unpaid", "pending", "success", "rewarded", "cancelled", "refund_requested", "successful",
     "failed", "none"}
SaleStatuses ==
    {"new", "pending", "scheduled", "active", "redeemed", "placed", "bought", "delivered",
     "claimed", "used"}

BookingTypes ==
    {"payment_pending", "confirmed", "link_paid", "status_success", "payment_success", "updated",
     "rescheduled", "completed", "cancelled", "no_show", "reschedule_requested",
     "refund_approved", "refund_completed", "payment_refunded"}
VoucherTypes ==
    {"voucher_payment_pending", "voucher_active", "voucher_scheduled", "voucher_delivery_due",
     "voucher_redeemed"}
GiftTypes == {"gift_purchase_completed", "gift_claimed", "gift_delivered", "gift_redeemed"}

BookingEvent ==
    [type : BookingTypes, status : Statuses, pay : PayStatuses, proof : {"flag", "word", "none"},
     full : BOOLEAN, method : {"none", "points", "money"}]
SaleEvent(types) == [type : types, status : SaleStatuses, pay : {"success", "pending"}]

\* The events about the document.
Event ==
    CASE doc.kind = "booking" -> BookingEvent
      [] doc.kind = "voucher" -> SaleEvent(VoucherTypes)
      [] doc.kind = "order" -> SaleEvent({"order_created"})
      [] doc.kind = "gift" -> SaleEvent(GiftTypes)
      [] doc.kind = "account" -> SomeNotice

\* The handler of an event.
Steps(e) ==
    CASE doc.kind = "booking" -> BookingSteps(e)
      [] doc.kind \in Sold -> SaleSteps(e)
      [] doc.kind = "account" -> NoticeSteps(e)

\* The template of the messages that it sends.
Saying(e) ==
    CASE e.type \in {"confirmed", "link_paid", "status_success"} -> "confirmed"
      [] e.type = "payment_success" -> "receipt"
      [] e.type \in {"updated", "rescheduled", "completed"} -> "updated"
      [] e.type = "payment_refunded" -> "refunded"
      [] e.type = "voucher_active" -> "active"
      [] e.type = "voucher_scheduled" -> "scheduled"
      [] e.type = "voucher_redeemed" -> "redeemed"
      [] e.type = "order_created" -> "order"
      [] e.type = "gift_purchase_completed" -> "purchase"
      [] e.type = "gift_claimed" -> "claimed"
      [] e.type = "gift_delivered" -> "delivered"
      [] e.type = "gift_redeemed" -> "used"
      [] e.type = "user_registered" -> "otp"
      [] e.type = "user_verified" -> "verified"
      [] e.type = "email_verification" -> "email_verify"
      [] e.type = "payment_reminder" -> "payment_pending"
      [] e.type = "sms_send" -> "direct"
      [] OTHER -> e.type

\* The tests of a payload, which the handlers of two types see with "success" in it; points
\* are earned, and reversed, for some bookings.
Delegating(e) == e.type \in {"link_paid", "status_success"}
Pays(e) == IsPaid(e) \/ Delegating(e)
Charges(e) == Invoiceable(e) \/ Delegating(e)
Credits(e) == LoyaltySucceeded(e) \/ Delegating(e)
Announces(e) == Announced(e) \/ Delegating(e)
Earns == doc.eligible /\ ~Redemption

Invoicing == {"partner", "invoice", "link_payments", "link_booking"}

\* The operations of its steps.
Ops(e) ==
    CASE e.type \in {"confirmed", "link_paid", "status_success"} ->
             {"put_row"}
                 \cup (IF e.type = "link_paid" THEN {"set_booking", "pay_row", "mark_paid"} ELSE {})
                 \cup (IF e.type = "status_success" THEN {"pay_row", "fetch"} ELSE {})
                 \cup (IF Announces(e) THEN {"check_sent", "send"} ELSE {})
                 \cup (IF Pays(e) /\ ~GiftVoucher THEN {"record"} ELSE {})
                 \cup (IF Charges(e) /\ ~GiftVoucher THEN Invoicing ELSE {})
                 \cup (IF Credits(e) /\ ~GiftVoucher /\ Earns THEN {"credit"} ELSE {})
      [] e.type = "payment_pending" -> {"put_row"}
      [] e.type \in {"updated", "rescheduled", "completed"} ->
             {"change_row", "find_link", "close_link", "send"}
      [] e.type = "cancelled" ->
             {"find_link", "drop_row", "mark_row", "close_link", "set_booking", "request_refund"}
                 \cup (IF Earns THEN {"reverse"} ELSE {})
      [] e.type = "no_show" -> {"drop_row"}
      [] e.type = "reschedule_requested" -> {"set_booking"}
      [] e.type \in {"refund_approved", "refund_completed"} -> {"note", "link_note"}
      [] e.type = "payment_refunded" -> {"send", "loose_note"}
      [] e.type \in {"voucher_active", "voucher_scheduled"} ->
             Invoicing \cup {"record", "send", "mark"}
      [] e.type = "voucher_payment_pending" -> {"mark"}
      [] e.type = "voucher_delivery_due" -> {"activate"}
      [] e.type = "order_created" ->
             {"record", "send"} \cup (IF e.pay = "success" THEN Invoicing ELSE {})
      [] e.type = "gift_purchase_completed" -> Invoicing \cup {"send", "mark"}
      [] OTHER -> {"send"}

Plain ==
    Operations \ {"put_row", "change_row", "set_booking", "note", "mark", "send"}
Channels == {"whatsapp", "sms", "email"}
Audiences == {"customer", "other", "sender", "recipient"}
AnyStep ==
    {<<op>> : op \in Plain}
        \cup ({"put_row", "change_row"} \X Statuses \X PayStatuses)
        \cup ({"set_booking"} \X {"confirmed", "cancelled", "reschedule_requested"}
                  \X (PayStatuses \cup {"none"}))
        \cup ({"note"} \X BOOLEAN)
        \cup ({"mark"} \X {"notified", "pending"})
        \cup ({"send"} \X Templates \X Channels \X Audiences)

\* What its steps put into the calendar, and write back to the booking.
WrittenBack(e) ==
    CASE e.type = "link_paid" -> "confirmed"
      [] e.type = "cancelled" -> "cancelled"
      [] OTHER -> "reschedule_requested"
Fits(e, q) ==
    /\ q[1] = "put_row" => q[2] = "confirmed" \/ e.type = "payment_pending"
    /\ q[1] = "change_row" => q[2] = CacheStatus(e)
    /\ q[1] = "set_booking" =>
           q[2] = WrittenBack(e) /\ (q[3] = "success" => e.type = "link_paid" \/ e.pay = "success")

Allowed(e) ==
    {q \in AnyStep : q[1] \in Ops(e) /\ (q[1] = "send" => q[2] = Saying(e)) /\ Fits(e, q)}

\* The lists of steps that the handler of an event may come to have.
Plan == [e \in Event |-> Seq(Allowed(e))]

\* A slot of a handler with steps of a set Q to do.
Hand(Q) == [ev : Nat, todo : Seq(Q), got : BOOLEAN, rows : SUBSET Templates]

\* The document, the events about it and the steps left to the slots.
Typed ==
    /\ Shaped /\ doc \in Documents
    /\ remote.payments \in Nat /\ remote.linked \in 0..remote.payments /\ remote.invoices \in Nat
    /\ doc.kind = "booking" => remote.status \in Statuses /\ remote.pay \in PayStatuses
    /\ doc.kind \in Sold => remote.status \in SaleStatuses
    /\ log \in Seq(Event)
    /\ queue \subseteq DOMAIN log
    /\ slot \in [Slot -> Hand(AnyStep)]
    /\ faults \in 0..MaxFaults /\ missed \subseteq Operations /\ tidy \in BOOLEAN
    /\ rows \subseteq Templates

Apart ==
    /\ \A s \in Slot :
           \/ slot[s] = Idle
           \/ slot[s].ev \in queue /\ slot[s].todo \in Plan[log[slot[s].ev]]
    /\ \A s, t \in Slot : slot[s].ev = slot[t].ev /\ slot[s].ev # 0 => s = t

\* Messages are counted, and only of the kinds there are.
Counted ==
    /\ DOMAIN told \subseteq Messages
    /\ \A m \in DOMAIN told : told[m] \in Nat

Common == Typed /\ Apart /\ Counted

USE DEF Fields, BookingFields, SaleFields, AccountFields, Kinds, Sold, Invoicing

\* Which tuples are steps of the handler of an event.
LEMMA OneStep ==
  ASSUME NEW e
  PROVE  /\ \A op \in Plain : op \in Ops(e) => <<op>> \in Allowed(e)
         /\ \A op \in {"put_row", "change_row"}, a \in Statuses, p \in PayStatuses :
                /\ op \in Ops(e)
                /\ op = "put_row" => a = "confirmed" \/ e.type = "payment_pending"
                /\ op = "change_row" => a = CacheStatus(e)
                => <<op, a, p>> \in Allowed(e)
         /\ \A a \in {"confirmed", "cancelled", "reschedule_requested"},
               p \in PayStatuses \cup {"none"} :
                /\ "set_booking" \in Ops(e) /\ a = WrittenBack(e)
                /\ p = "success" => e.type = "link_paid" \/ e.pay = "success"
                => <<"set_booking", a, p>> \in Allowed(e)
         /\ \A b \in BOOLEAN : "note" \in Ops(e) => <<"note", b>> \in Allowed(e)
         /\ \A k \in {"notified", "pending"} : "mark" \in Ops(e) => <<"mark", k>> \in Allowed(e)
         /\ \A c \in Channels, a \in Audiences :
                "send" \in Ops(e) /\ Saying(e) \in Templates
                    => <<"send", Saying(e), c, a>> \in Allowed(e)
  <1>1. ASSUME NEW op \in Plain, op \in Ops(e) PROVE <<op>> \in Allowed(e)
    <2>1. <<op>> \in AnyStep
      BY DEF AnyStep
    <2>2. op \notin {"send", "put_row", "change_row", "set_booking"}
      BY DEF Plain
    <2> QED
      BY <1>1, <2>1, <2>2 DEF Allowed, Fits
  <1>2. ASSUME NEW op \in {"put_row", "change_row"}, NEW a \in Statuses, NEW p \in PayStatuses,
               op \in Ops(e), op = "put_row" => a = "confirmed" \/ e.type = "payment_pending",
               op = "change_row" => a = CacheStatus(e)
        PROVE  <<op, a, p>> \in Allowed(e)
    <2>1. <<op, a, p>> \in AnyStep
      BY DEF AnyStep
    <2> QED
      BY <1>2, <2>1 DEF Allowed, Fits
  <1>3. ASSUME NEW a \in {"confirmed", "cancelled", "reschedule_requested"},
               NEW p \in PayStatuses \cup {"none"}, "set_booking" \in Ops(e), a = WrittenBack(e),
               p = "success" => e.type = "link_paid" \/ e.pay = "success"
        PROVE  <<"set_booking", a, p>> \in Allowed(e)
    <2>1. <<"set_booking", a, p>> \in AnyStep
      BY DEF AnyStep
    <2> QED
      BY <1>3, <2>1 DEF Allowed, Fits
  <1>4. ASSUME NEW b \in BOOLEAN, "note" \in Ops(e) PROVE <<"note", b>> \in Allowed(e)
    <2>1. <<"note", b>> \in AnyStep
      BY DEF AnyStep
    <2> QED
      BY <1>4, <2>1 DEF Allowed, Fits
  <1>5. ASSUME NEW k \in {"notified", "pending"}, "mark" \in Ops(e)
        PROVE  <<"mark", k>> \in Allowed(e)
    <2>1. <<"mark", k>> \in AnyStep
      BY DEF AnyStep
    <2> QED
      BY <1>5, <2>1 DEF Allowed, Fits
  <1>6. ASSUME NEW c \in Channels, NEW a \in Audiences, "send" \in Ops(e), Saying(e) \in Templates
        PROVE  <<"send", Saying(e), c, a>> \in Allowed(e)
    <2>1. <<"send", Saying(e), c, a>> \in AnyStep
      BY <1>6 DEF AnyStep
    <2> QED
      BY <1>6, <2>1 DEF Allowed, Fits
  <1> QED
    BY <1>1, <1>2, <1>3, <1>4, <1>5, <1>6

\* The operations with no argument.
LEMMA PlainOps ==
  /\ {"partner", "invoice", "link_payments", "link_booking", "record", "pay_row", "drop_row",
      "mark_row", "mark_paid", "fetch", "find_link", "close_link", "credit", "reverse"}
        \subseteq Plain
  /\ {"request_refund", "check_sent", "link_note", "loose_note", "activate"} \subseteq Plain
  BY DEF Plain, Operations

\* What is known of the steps of a slot.
LEMMA StepIs ==
  ASSUME NEW e, NEW q \in Allowed(e)
  PROVE  /\ q[1] \in Operations /\ q[1] \in Ops(e)
         /\ q[1] = "set_booking" =>
                /\ q[2] \in {"confirmed", "cancelled", "reschedule_requested"}
                /\ q[3] \in PayStatuses \cup {"none"}
         /\ Fits(e, q)
         /\ q[1] = "note" => q[2] \in BOOLEAN /\ q = <<"note", q[2]>>
         /\ q[1] = "send" => /\ q = <<"send", Saying(e), q[3], q[4]>>
                             /\ q[3] \in Channels /\ q[4] \in Audiences
                             /\ Saying(e) \in Templates
         /\ q[1] \in Plain => q = <<q[1]>>
  <1>1. q \in AnyStep /\ q[1] \in Ops(e) /\ (q[1] = "send" => q[2] = Saying(e)) /\ Fits(e, q)
    BY DEF Allowed
  <1>2. \A op \in Plain : op \notin {"put_row", "change_row", "set_booking", "note", "mark", "send"}
    BY DEF Plain
  <1>3. CASE \E op \in Plain : q = <<op>>
    BY <1>1, <1>2, <1>3 DEF Plain
  <1>4. CASE q \in {"put_row", "change_row"} \X Statuses \X PayStatuses
    <2>1. q[1] \in {"put_row", "change_row"}
      BY <1>4
    <2> QED
      BY <1>1, <1>2, <2>1 DEF Operations
  <1>5. CASE q \in {"set_booking"} \X {"confirmed", "cancelled", "reschedule_requested"}
                       \X (PayStatuses \cup {"none"})
    <2>1. q[1] = "set_booking" /\ q[2] \in {"confirmed", "cancelled", "reschedule_requested"}
          /\ q[3] \in PayStatuses \cup {"none"}
      BY <1>5
    <2> QED
      BY <1>1, <1>2, <2>1 DEF Operations
  <1>6. CASE q \in {"note"} \X BOOLEAN
    <2>1. q[1] = "note" /\ q[2] \in BOOLEAN /\ q = <<q[1], q[2]>>
      BY <1>6
    <2> QED
      BY <1>1, <1>2, <2>1 DEF Operations
  <1>7. CASE q \in {"mark"} \X {"notified", "pending"}
    <2>1. q[1] = "mark"
      BY <1>7
    <2> QED
      BY <1>1, <1>2, <2>1 DEF Operations
  <1>8. CASE q \in {"send"} \X Templates \X Channels \X Audiences
    <2>1. q[1] = "send" /\ q[2] \in Templates /\ q[3] \in Channels /\ q[4] \in Audiences
          /\ q = <<q[1], q[2], q[3], q[4]>>
      BY <1>8
    <2> QED
      BY <1>1, <1>2, <2>1 DEF Operations
  <1> QED
    BY <1>1, <1>3, <1>4, <1>5, <1>6, <1>7, <1>8 DEF AnyStep

-----------------------------------------------------------------------------
(* The handlers of every event have allowed steps.                         *)

\* The handler of booking.confirmed, for the event that it is run for.
LEMMA ConfirmedAllowed ==
  ASSUME doc.kind = "booking", NEW e \in BookingEvent, NEW f \in BookingEvent,
         e.type \in {"confirmed", "link_paid", "status_success"},
         IsPaid(f) => Pays(e), Invoiceable(f) => Charges(e),
         LoyaltySucceeded(f) => Credits(e), Announced(f) => Announces(e)
  PROVE  /\ ConfirmedSteps(f) \in Seq(Allowed(e)) /\ InvoiceSteps(e) \in Seq(Allowed(e))
         /\ CacheSteps(f) \in Seq(Allowed(e)) /\ PaymentSteps(f) \in Seq(Allowed(e))
         /\ LoyaltySteps(f) \in Seq(Allowed(e)) /\ PaidInvoiceSteps(f) \in Seq(Allowed(e))
         /\ NotifySteps(f) \in Seq(Allowed(e))
  <1>1. <<"put_row", "confirmed", CachePay(f)>> \in Allowed(e)
    <2>1. CachePay(f) \in PayStatuses
      BY DEF CachePay, Accepted, PayStatuses, BookingEvent
    <2>2. "put_row" \in Ops(e)
      BY DEF Ops
    <2> QED
      BY <2>1, <2>2, OneStep DEF Statuses
  <1>2. CacheSteps(f) \in Seq(Allowed(e))
    BY <1>1, Lists DEF CacheSteps
  <1>3. PaymentSteps(f) \in Seq(Allowed(e))
    <2>1. IsPaid(f) /\ ~GiftVoucher => "record" \in Ops(e)
      BY DEF Ops
    <2>2. IsPaid(f) /\ ~GiftVoucher => <<"record">> \in Allowed(e)
      BY <2>1, OneStep, PlainOps
    <2> QED
      BY <2>2, Lists, Zenon DEF PaymentSteps
  <1>4. LoyaltySteps(f) \in Seq(Allowed(e))
    <2>1. doc.eligible /\ LoyaltySucceeded(f) /\ ~Redemption /\ ~GiftVoucher => "credit" \in Ops(e)
      BY DEF Ops, Earns
    <2>2. doc.eligible /\ LoyaltySucceeded(f) /\ ~Redemption /\ ~GiftVoucher
              => <<"credit">> \in Allowed(e)
      BY <2>1, OneStep, PlainOps
    <2> QED
      BY <2>2, Lists, Zenon DEF LoyaltySteps
  <1>5. PaidInvoiceSteps(f) \in Seq(Allowed(e)) /\ InvoiceSteps(e) \in Seq(Allowed(e))
    <2>1. Charges(e) /\ ~GiftVoucher => "partner" \in Ops(e)
      BY DEF Ops
    <2>2. Charges(e) /\ ~GiftVoucher => Trigger(<<"partner">>) \in Seq(Allowed(e))
      <3>1. Charges(e) /\ ~GiftVoucher => <<"partner">> \in Allowed(e)
        BY <2>1, OneStep, PlainOps
      <3> QED
        BY <3>1, Triggered
    <2>3. (Invoiceable(e) => Charges(e)) /\ (~Redeems(f) => ~GiftVoucher) /\ (~Redeems(e) => ~GiftVoucher)
      BY DEF Charges, Redeems, GiftVoucher
    <2>4. InvoiceSteps(f) \in Seq(Allowed(e)) /\ InvoiceSteps(e) \in Seq(Allowed(e))
      BY <2>2, <2>3, Lists, Zenon DEF InvoiceSteps
    <2> QED
      BY <2>4, Lists, Zenon DEF PaidInvoiceSteps
  <1>6. NotifySteps(f) \in Seq(Allowed(e))
    <2>1. Announced(f) => "check_sent" \in Ops(e)
      BY DEF Ops
    <2>2. Announced(f) => <<"check_sent">> \in Allowed(e)
      BY <2>1, OneStep, PlainOps
    <2> QED
      BY <2>2, Lists, Zenon DEF NotifySteps
  <1> QED
    BY <1>2, <1>3, <1>4, <1>5, <1>6, Lists, Zenon DEF ConfirmedSteps

\* The event that booking.confirmed's handler sees: the payment went well.
LEMMA AsPaid ==
  ASSUME NEW e \in BookingEvent
  PROVE  /\ [e EXCEPT !.pay = "success"] \in BookingEvent
         /\ [e EXCEPT !.pay = "success"].pay = "success"
         /\ [e EXCEPT !.pay = "success"].type = e.type
         /\ IsPaid([e EXCEPT !.pay = "success"]) /\ Invoiceable([e EXCEPT !.pay = "success"])
         /\ LoyaltySucceeded([e EXCEPT !.pay = "success"]) /\ Announced([e EXCEPT !.pay = "success"])
  <1>1. [e EXCEPT !.pay = "success"] \in BookingEvent
    BY DEF BookingEvent, PayStatuses
  <1>2. [e EXCEPT !.pay = "success"].pay = "success" /\ [e EXCEPT !.pay = "success"].type = e.type
    BY DEF BookingEvent
  <1> QED
    BY <1>1, <1>2 DEF IsPaid, Invoiceable, LoyaltySucceeded, Announced, Succeeded, Outstanding

\* Messages to the customer.
LEMMA MessagesAllowed ==
  ASSUME NEW e, "send" \in Ops(e), Saying(e) \in Templates
  PROVE  /\ EmailSteps(Saying(e)) \in Seq(Allowed(e))
         /\ PhoneSteps(Saying(e)) \in Seq(Allowed(e))
         /\ \A a \in Audiences : Phone(Saying(e), a) \in Seq(Allowed(e))
         /\ \A a \in Audiences : Mail(Saying(e), a) \in Seq(Allowed(e))
         /\ \A c \in Channels, a \in Audiences :
                << <<"send", Saying(e), c, a>> >> \in Seq(Allowed(e))
         /\ ResolveSms(Saying(e)) \in Seq(Allowed(e)) /\ ResolveEmail(Saying(e)) \in Seq(Allowed(e))
  <1>1. \A c \in Channels, a \in Audiences : <<"send", Saying(e), c, a>> \in Allowed(e)
    BY OneStep
  <1>2. \A c \in Channels, a \in Audiences : << <<"send", Saying(e), c, a>> >> \in Seq(Allowed(e))
    BY <1>1, Lists
  <1>3. \A c \in Channels : << <<"send", Saying(e), c, "customer">> >> \in Seq(Allowed(e))
    BY <1>2 DEF Audiences
  <1>4. \A a \in Audiences : << <<"send", Saying(e), "email", a>> >> \in Seq(Allowed(e))
    BY <1>2 DEF Channels
  <1>5. \A a \in Audiences : << <<"send", Saying(e), "whatsapp", a>> >> \in Seq(Allowed(e))
    BY <1>2 DEF Channels
  <1>6. << <<"send", Saying(e), "email", "customer">> >> \in Seq(Allowed(e))
        /\ << <<"send", Saying(e), "sms", "customer">> >> \in Seq(Allowed(e))
        /\ << <<"send", Saying(e), "whatsapp", "customer">> >> \in Seq(Allowed(e))
    BY <1>3 DEF Channels
  <1>7. EmailSteps(Saying(e)) \in Seq(Allowed(e))
    BY <1>6, Lists, Zenon DEF EmailSteps
  <1>8. PhoneSteps(Saying(e)) \in Seq(Allowed(e))
    BY <1>6 DEF PhoneSteps
  <1>9. ResolveSms(Saying(e)) \in Seq(Allowed(e)) /\ ResolveEmail(Saying(e)) \in Seq(Allowed(e))
    BY <1>6, Lists, Zenon DEF ResolveSms, ResolveEmail
  <1>10. \A a \in Audiences : Mail(Saying(e), a) \in Seq(Allowed(e))
    BY <1>4, Lists, Zenon DEF Mail
  <1>11. \A a \in Audiences : Phone(Saying(e), a) \in Seq(Allowed(e))
    BY <1>5, Zenon DEF Phone
  <1> QED
    BY <1>2, <1>7, <1>8, <1>9, <1>10, <1>11

\* Closing the payment link.
LEMMA LinksAllowed ==
  ASSUME NEW e, {"find_link", "close_link"} \subseteq Ops(e)
  PROVE  FindLinkSteps(e) \in Seq(Allowed(e)) /\ CloseLinkSteps(e) \in Seq(Allowed(e))
  <1>1. <<"find_link">> \in Allowed(e) /\ <<"close_link">> \in Allowed(e)
    BY OneStep, PlainOps
  <1> QED
    BY <1>1, Lists, Zenon DEF FindLinkSteps, CloseLinkSteps

\* What the handler of a cancellation is made of.
LEMMA CancelledParts ==
  ASSUME doc.kind = "booking", NEW e \in BookingEvent, e.type = "cancelled"
  PROVE  /\ ReversalSteps(e) \in Seq(Allowed(e)) /\ FindLinkSteps(e) \in Seq(Allowed(e))
         /\ << <<"drop_row">> >> \in Seq(Allowed(e)) /\ CloseLinkSteps(e) \in Seq(Allowed(e))
         /\ << <<"set_booking", "cancelled", SyncPay(e)>> >> \in Seq(Allowed(e))
         /\ << <<"request_refund">> >> \in Seq(Allowed(e)) /\ <<>> \in Seq(Allowed(e))
  <1>0. e.pay \in PayStatuses
    BY DEF BookingEvent
  <1>1. /\ {"find_link", "drop_row", "mark_row", "close_link", "set_booking", "request_refund"}
               \subseteq Ops(e)
        /\ Earns => "reverse" \in Ops(e)
    BY DEF Ops
  <1>2. << <<"set_booking", "cancelled", SyncPay(e)>> >> \in Seq(Allowed(e))
        /\ << <<"drop_row">> >> \in Seq(Allowed(e))
        /\ << <<"request_refund">> >> \in Seq(Allowed(e))
    <2>1. SyncPay(e) \in PayStatuses
      BY <1>0 DEF SyncPay, PayStatuses
    <2>2. <<"set_booking", "cancelled", SyncPay(e)>> \in Allowed(e)
          /\ <<"drop_row">> \in Allowed(e) /\ <<"request_refund">> \in Allowed(e)
      <3>1. WrittenBack(e) = "cancelled" /\ (SyncPay(e) = "success" => e.pay = "success")
        BY DEF WrittenBack, SyncPay
      <3> QED
        BY <1>1, <2>1, <3>1, OneStep, PlainOps
    <2> QED
      BY <2>2, Lists
  <1>3. ReversalSteps(e) \in Seq(Allowed(e))
    <2>1. Earns => <<"reverse">> \in Allowed(e)
      BY <1>1, OneStep, PlainOps
    <2> QED
      BY <2>1, Lists, Zenon DEF ReversalSteps, Earns
  <1>4. FindLinkSteps(e) \in Seq(Allowed(e)) /\ CloseLinkSteps(e) \in Seq(Allowed(e))
    BY <1>1, LinksAllowed
  <1> QED
    BY <1>2, <1>3, <1>4, Lists

\* Booking handlers.
LEMMA BookingAllowed ==
  ASSUME doc.kind = "booking", NEW e \in BookingEvent
  PROVE  BookingSteps(e) \in Seq(Allowed(e))
  <1>0. e.status \in Statuses /\ e.pay \in PayStatuses /\ e.full \in BOOLEAN
    BY DEF BookingEvent
  <1>1. CASE e.type = "payment_pending"
    <2>1. <<"put_row", "pending", "pending">> \in Allowed(e)
      BY <1>1, OneStep DEF Ops, Statuses, PayStatuses
    <2> QED
      BY <1>1, <2>1, Lists DEF BookingSteps, PaymentPendingSteps
  <1>2. CASE e.type = "confirmed"
    <2>1. /\ IsPaid(e) => Pays(e)
          /\ Invoiceable(e) => Charges(e)
          /\ LoyaltySucceeded(e) => Credits(e)
          /\ Announced(e) => Announces(e)
      BY DEF Pays, Charges, Credits, Announces
    <2> QED
      BY <1>2, <2>1, ConfirmedAllowed DEF BookingSteps
  <1>3. CASE e.type = "link_paid"
    <2>1. ConfirmedSteps([e EXCEPT !.pay = "success"]) \in Seq(Allowed(e))
      BY <1>3, AsPaid, ConfirmedAllowed DEF Pays, Charges, Credits, Announces, Delegating
    <2>2. /\ <<"set_booking", "confirmed", "success">> \in Allowed(e)
          /\ <<"pay_row">> \in Allowed(e) /\ <<"mark_paid">> \in Allowed(e)
      <3>1. {"set_booking", "pay_row", "mark_paid"} \subseteq Ops(e)
        BY <1>3 DEF Ops
      <3> QED
        BY <1>3, <3>1, OneStep, PlainOps DEF PayStatuses, WrittenBack
    <2>3. << <<"set_booking", "confirmed", "success">>, <<"pay_row">>, <<"mark_paid">> >>
              \in Seq(Allowed(e))
      BY <2>2
    <2>4. LinkPaidSteps(e) \in Seq(Allowed(e))
      BY <2>1, <2>3, Lists, Zenon DEF LinkPaidSteps
    <2> QED
      BY <1>3, <2>4 DEF BookingSteps
  <1>4. CASE e.type = "status_success"
    <2>1. ConfirmedSteps([e EXCEPT !.pay = "success"]) \in Seq(Allowed(e))
          /\ InvoiceSteps(e) \in Seq(Allowed(e))
      BY <1>4, AsPaid, ConfirmedAllowed DEF Pays, Charges, Credits, Announces, Delegating
    <2>2. /\ << <<"pay_row">> >> \in Seq(Allowed(e)) /\ << <<"fetch">> >> \in Seq(Allowed(e))
      <3>1. {"pay_row", "fetch"} \subseteq Ops(e)
        BY <1>4 DEF Ops
      <3>2. <<"pay_row">> \in Allowed(e) /\ <<"fetch">> \in Allowed(e)
        BY <3>1, OneStep, PlainOps
      <3> QED
        BY <3>2, Lists
    <2>3. StatusSuccessSteps(e) \in Seq(Allowed(e))
      BY <2>1, <2>2, Lists, Zenon DEF StatusSuccessSteps
    <2> QED
      BY <1>4, <2>3 DEF BookingSteps
  <1>5. CASE e.type = "payment_success"
    <2>1. "send" \in Ops(e) /\ Saying(e) = "receipt" /\ Saying(e) \in Templates
      BY <1>5 DEF Ops, Saying, Templates, Unguarded
    <2>2. << <<"send", "receipt", "sms", "customer">> >> \in Seq(Allowed(e))
          /\ EmailSteps("receipt") \in Seq(Allowed(e))
      BY <2>1, MessagesAllowed DEF Channels, Audiences
    <2>3. PaymentSuccessSteps \in Seq(Allowed(e))
      BY <2>2, Lists, Zenon DEF PaymentSuccessSteps
    <2> QED
      BY <1>5, <2>3 DEF BookingSteps
  <1>6. CASE e.type \in {"updated", "rescheduled", "completed"}
    <2>1. {"change_row", "find_link", "close_link", "send"} \subseteq Ops(e)
          /\ Saying(e) = "updated" /\ Saying(e) \in Templates
      BY <1>6 DEF Ops, Saying, Templates, Trusting
    <2>2. << <<"change_row", CacheStatus(e), e.pay>> >> \in Seq(Allowed(e))
      <3>1. CacheStatus(e) \in Statuses
        BY <1>0 DEF CacheStatus, Statuses
      <3>2. <<"change_row", CacheStatus(e), e.pay>> \in Allowed(e)
        BY <1>0, <2>1, <3>1, OneStep
      <3> QED
        BY <3>2, Lists
    <2>3. FindLinkSteps(e) \in Seq(Allowed(e)) /\ CloseLinkSteps(e) \in Seq(Allowed(e))
      BY <2>1, LinksAllowed
    <2>4. UpdateMessageSteps(e) \in Seq(Allowed(e))
      <3>1. PhoneSteps("updated") \in Seq(Allowed(e))
        BY <2>1, MessagesAllowed
      <3> QED
        BY <3>1, Lists, Zenon DEF UpdateMessageSteps
    <2>5. UpdatedSteps(e) \in Seq(Allowed(e))
      BY <2>2, <2>3, <2>4, Lists, Zenon DEF UpdatedSteps
    <2> QED
      BY <1>6, <2>5 DEF BookingSteps
  <1>7. CASE e.type = "cancelled"
    <2>1. CancelledSteps(e) \in Seq(Allowed(e))
      BY <1>7, CancelledParts, Lists, Zenon DEF CancelledSteps
    <2> QED
      BY <1>7, <2>1 DEF BookingSteps
  <1>8. CASE e.type = "no_show"
    <2>1. <<"drop_row">> \in Allowed(e)
      BY <1>8, OneStep, PlainOps DEF Ops
    <2> QED
      BY <1>8, <2>1, Lists DEF BookingSteps, NoShowSteps
  <1>9. CASE e.type = "reschedule_requested"
    <2>1. <<"set_booking", "reschedule_requested", "none">> \in Allowed(e)
      BY <1>9, OneStep DEF Ops, WrittenBack
    <2> QED
      BY <1>9, <2>1, Lists DEF BookingSteps, RescheduleSteps
  <1>10. CASE e.type \in {"refund_approved", "refund_completed"}
    <2>1. <<"note", TRUE>> \in Allowed(e) /\ <<"note", FALSE>> \in Allowed(e)
      BY <1>10, OneStep DEF Ops
    <2>2. /\ Trigger(<<"note", TRUE>>) \in Seq(Allowed(e))
          /\ Trigger(<<"note", FALSE>>) \in Seq(Allowed(e))
      BY <2>1, Triggered
    <2>3. RefundApprovedSteps(e) \in Seq(Allowed(e)) /\ RefundCompletedSteps(e) \in Seq(Allowed(e))
      BY <2>2, Lists, Zenon DEF RefundApprovedSteps, RefundCompletedSteps
    <2> QED
      BY <1>10, <2>3 DEF BookingSteps
  <1>11. CASE e.type = "payment_refunded"
    <2>1. /\ {"send", "loose_note"} \subseteq Ops(e)
          /\ Saying(e) = "refunded" /\ Saying(e) \in Templates
      BY <1>11 DEF Ops, Saying, Templates, Unguarded
    <2>2. << <<"send", "refunded", "sms", "customer">> >> \in Seq(Allowed(e))
          /\ EmailSteps("refunded") \in Seq(Allowed(e))
      BY <2>1, MessagesAllowed DEF Channels, Audiences
    <2>3. Trigger(<<"loose_note">>) \in Seq(Allowed(e))
      <3>1. <<"loose_note">> \in Allowed(e)
        BY <2>1, OneStep, PlainOps
      <3> QED
        BY <3>1, Triggered
    <2>4. PaymentRefundedSteps(e) \in Seq(Allowed(e))
      BY <2>2, <2>3, Lists, Zenon DEF PaymentRefundedSteps
    <2> QED
      BY <1>11, <2>4 DEF BookingSteps
  <1>12. e.type \in BookingTypes
    BY DEF BookingEvent
  <1> QED
    BY <1>1, <1>2, <1>3, <1>4, <1>5, <1>6, <1>7, <1>8, <1>9, <1>10, <1>11, <1>12
       DEF BookingTypes

\* Voucher, shop and gift handlers.
LEMMA SaleAllowed ==
  ASSUME doc.kind \in Sold, NEW e \in Event
  PROVE  SaleSteps(e) \in Seq(Allowed(e))
  <1>0. e.type \in VoucherTypes \cup GiftTypes \cup {"order_created"}
    BY DEF Event, SaleEvent
  <1>1. ASSUME e.type \in {"voucher_active", "voucher_scheduled", "gift_purchase_completed"}
        PROVE  Trigger(<<"partner">>) \in Seq(Allowed(e)) /\ MarkNotified \in Seq(Allowed(e))
    <2>1. <<"partner">> \in Allowed(e) /\ <<"mark", "notified">> \in Allowed(e)
      <3>1. {"partner", "mark"} \subseteq Ops(e)
        BY <1>1 DEF Ops
      <3> QED
        BY <3>1, OneStep, PlainOps
    <2> QED
      BY <2>1, Triggered, Lists DEF MarkNotified
  <1>2. ASSUME e.type \in {"voucher_active", "voucher_scheduled"}
        PROVE  << <<"record">> >> \in Seq(Allowed(e))
    <2>1. <<"record">> \in Allowed(e)
      <3>1. "record" \in Ops(e)
        BY <1>2 DEF Ops
      <3> QED
        BY <3>1, OneStep, PlainOps
    <2> QED
      BY <2>1, Lists
  <1>3. CASE e.type = "voucher_payment_pending"
    <2>1. <<"mark", "pending">> \in Allowed(e)
      BY <1>3, OneStep DEF Ops
    <2> QED
      BY <1>3, <2>1, Lists DEF SaleSteps, VoucherPaymentPendingSteps
  <1>4. CASE e.type = "voucher_delivery_due"
    <2>1. <<"activate">> \in Allowed(e)
      BY <1>4, OneStep, PlainOps DEF Ops
    <2> QED
      BY <1>4, <2>1, Lists DEF SaleSteps, VoucherDeliveryDueSteps
  <1>5. ASSUME e.type \notin {"voucher_payment_pending", "voucher_delivery_due"}
        PROVE  /\ \A a \in {"sender", "recipient", "customer"} :
                      /\ Phone(Saying(e), a) \in Seq(Allowed(e))
                      /\ Mail(Saying(e), a) \in Seq(Allowed(e))
               /\ << <<"send", Saying(e), "sms", "sender">> >> \in Seq(Allowed(e))
    <2>1. "send" \in Ops(e)
      BY <1>0, <1>5 DEF Ops, VoucherTypes, GiftTypes
    <2>2. Saying(e) \in {"active", "scheduled", "redeemed", "order", "purchase", "claimed",
                         "delivered",
                         "used"}
      BY <1>0, <1>5 DEF Saying, VoucherTypes, GiftTypes
    <2>3. Saying(e) \in Templates
      BY <2>2 DEF Templates, ObjectScoped
    <2> QED
      BY <2>1, <2>3, MessagesAllowed DEF Channels, Audiences
  <1>6. CASE e.type = "voucher_active"
    <2>1. Saying(e) = "active"
      BY <1>6 DEF Saying
    <2>2. /\ Phone("active", "sender") \in Seq(Allowed(e))
          /\ Mail("active", "sender") \in Seq(Allowed(e))
          /\ Phone("active", "recipient") \in Seq(Allowed(e))
          /\ Mail("active", "recipient") \in Seq(Allowed(e))
      BY <1>5, <1>6, <2>1
    <2>3. VoucherMessageSteps \in Seq(Allowed(e))
      BY <1>1, <1>6, <2>2, Lists, Zenon DEF VoucherMessageSteps, TellSender, TellRecipient,
         UnlessSelf
    <2>4. VoucherActiveSteps(e) \in Seq(Allowed(e))
      BY <1>1, <1>2, <1>6, <2>3, Lists, Zenon DEF VoucherActiveSteps
    <2> QED
      BY <1>6, <2>4 DEF SaleSteps
  <1>7. CASE e.type = "voucher_scheduled"
    <2>1. Saying(e) = "scheduled"
      BY <1>7 DEF Saying
    <2>2. <<"send", "scheduled", "sms", "sender">> \in Allowed(e)
      BY <1>7, <2>1, OneStep DEF Ops, Templates, ObjectScoped, Channels, Audiences
    <2>3. VoucherScheduledSteps \in Seq(Allowed(e))
      <3>1. <<"record">> \in Allowed(e)
        BY <1>7, OneStep, PlainOps DEF Ops
      <3>2. << <<"record">>, <<"send", "scheduled", "sms", "sender">> >> \in Seq(Allowed(e))
        BY <2>2, <3>1
      <3> QED
        BY <1>1, <1>7, <3>2, Lists, Zenon DEF VoucherScheduledSteps
    <2> QED
      BY <1>7, <2>3 DEF SaleSteps
  <1>8. CASE e.type = "voucher_redeemed"
    <2>1. Saying(e) = "redeemed"
      BY <1>8 DEF Saying
    <2>2. /\ Phone("redeemed", "sender") \in Seq(Allowed(e))
          /\ Mail("redeemed", "sender") \in Seq(Allowed(e))
          /\ Phone("redeemed", "recipient") \in Seq(Allowed(e))
          /\ Mail("redeemed", "recipient") \in Seq(Allowed(e))
      BY <1>5, <1>8, <2>1
    <2>3. VoucherRedeemedSteps \in Seq(Allowed(e))
      BY <2>2, Lists, Zenon DEF VoucherRedeemedSteps, UnlessSelf
    <2> QED
      BY <1>8, <2>3 DEF SaleSteps
  <1>9. CASE e.type = "order_created"
    <2>1. Saying(e) = "order"
      BY <1>9 DEF Saying
    <2>2. Phone("order", "customer") \in Seq(Allowed(e))
      BY <1>5, <1>9, <2>1
    <2>3. << <<"record">> >> \in Seq(Allowed(e))
      <3>1. <<"record">> \in Allowed(e)
        BY <1>9, OneStep, PlainOps DEF Ops
      <3> QED
        BY <3>1, Lists
    <2>4. e.pay = "success" => Trigger(<<"partner">>) \in Seq(Allowed(e))
      <3>1. e.pay = "success" => <<"partner">> \in Allowed(e)
        BY <1>9, OneStep, PlainOps DEF Ops
      <3> QED
        BY <3>1, Triggered
    <2>5. OrderCreatedSteps(e) \in Seq(Allowed(e))
      BY <2>2, <2>3, <2>4, Lists, Zenon DEF OrderCreatedSteps
    <2> QED
      BY <1>9, <2>5 DEF SaleSteps
  <1>10. CASE e.type = "gift_purchase_completed"
    <2>1. Saying(e) = "purchase"
      BY <1>10 DEF Saying
    <2>2. Phone("purchase", "sender") \in Seq(Allowed(e))
          /\ Phone("purchase", "recipient") \in Seq(Allowed(e))
      BY <1>5, <1>10, <2>1
    <2>3. GiftPurchaseSteps \in Seq(Allowed(e))
      BY <1>1, <1>10, <2>2, Lists, Zenon DEF GiftPurchaseSteps, UnlessSelf
    <2> QED
      BY <1>10, <2>3 DEF SaleSteps
  <1>11. CASE e.type \in {"gift_claimed", "gift_delivered", "gift_redeemed"}
    <2>1. Saying(e) = IF e.type = "gift_claimed" THEN "claimed"
                      ELSE IF e.type = "gift_delivered" THEN "delivered" ELSE "used"
      BY <1>11 DEF Saying
    <2>2. /\ e.type = "gift_claimed" => GiftClaimedSteps \in Seq(Allowed(e))
          /\ e.type = "gift_delivered" => GiftDeliveredSteps \in Seq(Allowed(e))
      BY <1>5, <1>11, <2>1 DEF GiftClaimedSteps, GiftDeliveredSteps
    <2>3. CASE e.type = "gift_redeemed"
      <3>1. /\ Phone("used", "sender") \in Seq(Allowed(e))
            /\ Phone("used", "recipient") \in Seq(Allowed(e))
        BY <1>5, <1>11, <2>1, <2>3
      <3>2. GiftRedeemedSteps \in Seq(Allowed(e))
        BY <3>1, Lists, Zenon DEF GiftRedeemedSteps, UnlessSelf
      <3> QED
        BY <2>3, <3>2 DEF SaleSteps
    <2> QED
      BY <1>11, <2>2, <2>3 DEF SaleSteps
  <1> QED
    BY <1>0, <1>3, <1>4, <1>6, <1>7, <1>8, <1>9, <1>10, <1>11 DEF VoucherTypes, GiftTypes

\* The handlers that only pass a message on.
LEMMA NoticeAllowed ==
  ASSUME doc.kind = "account", NEW e \in SomeNotice
  PROVE  NoticeSteps(e) \in Seq(Allowed(e))
  <1>1. e.type \in Notices \cup {"sms_send"}
    BY DEF SomeNotice
  <1>2. "send" \in Ops(e)
    BY <1>1 DEF Ops, Notices
  <1>3. CASE e.type = "logged_only"
    BY <1>3, Lists DEF NoticeSteps
  <1>4. CASE e.type # "logged_only"
    <2>1. Saying(e) \in Free
      BY <1>1, <1>4 DEF Saying, Notices, Free
    <2>2. Saying(e) \in Templates
      BY <2>1 DEF Free, Templates, Unguarded
    <2>3. ResolveSms(Saying(e)) \in Seq(Allowed(e)) /\ ResolveEmail(Saying(e)) \in Seq(Allowed(e))
      BY <1>2, <2>2, MessagesAllowed
    <2>4. SmsThenEmail(Saying(e)) \in Seq(Allowed(e))
      BY <2>3, Lists DEF SmsThenEmail
    <2>5. CASE e.type = "sms_send"
      <3>1. e.to \in Seq(Audiences)
        <4>1. /\ <<"customer">> \in Seq(Audiences)
              /\ <<"customer", "other", "customer">> \in Seq(Audiences)
          BY DEF Audiences
        <4>2. e.to \in {<<"customer">>, <<"customer", "other", "customer">>}
          BY DEF SomeNotice
        <4> QED
          BY <4>1, <4>2, Zenon
      <3>2. PICK n \in Nat : DOMAIN e.to = 1..n
        BY <3>1
      <3>3. \A i \in 1..n : <<"send", "direct", "sms", e.to[i]>> \in Allowed(e)
        <4>1. Saying(e) = "direct"
          BY <2>5 DEF Saying
        <4>2. \A i \in 1..n : e.to[i] \in Audiences
          BY <3>1, <3>2
        <4> QED
          BY <1>2, <2>2, <4>1, <4>2, OneStep DEF Channels
      <3>4. [i \in DOMAIN e.to |-> <<"send", "direct", "sms", e.to[i]>>] \in [1..n -> Allowed(e)]
        BY <3>2, <3>3, Zenon
      <3>5. [i \in DOMAIN e.to |-> <<"send", "direct", "sms", e.to[i]>>] \in Seq(Allowed(e))
        BY <3>4, SeqDef
      <3>6. SendSMSSteps(e) \in Seq(Allowed(e))
        BY <3>5, Lists, Zenon DEF SendSMSSteps
      <3> QED
        BY <2>5, <3>6 DEF NoticeSteps
    <2>6. CASE e.type # "sms_send"
      <3>1. NoticeSteps(e) \in {SmsThenEmail(Saying(e)), ResolveEmail(Saying(e))}
        BY <1>1, <1>4, <2>6 DEF NoticeSteps, Saying, Notices, UserRegisteredSteps,
           UserVerifiedSteps,
           PasswordResetSteps, PasswordChangedSteps, EmailVerificationSteps, PaymentFailedSteps,
           PaymentReminderSteps
      <3> QED
        BY <2>3, <2>4, <3>1
    <2> QED
      BY <2>5, <2>6
  <1> QED
    BY <1>3, <1>4

\* Every handler.
LEMMA StepsAllowed ==
  ASSUME doc.kind \in Kinds, NEW e \in Event
  PROVE  Steps(e) \in Seq(Allowed(e))
  <1>1. CASE doc.kind = "booking"
    BY <1>1, BookingAllowed DEF Steps, Event
  <1>2. CASE doc.kind \in Sold
    BY <1>2, SaleAllowed DEF Steps
  <1>3. CASE doc.kind = "account"
    BY <1>3, NoticeAllowed DEF Steps, Event
  <1> QED
    BY <1>1, <1>2, <1>3

-----------------------------------------------------------------------------
(* The steps of a slot.                                                    *)

\* A slot takes an event up.
Starts(s, n) ==
    /\ n \in queue \ InHand
    /\ slot[s] = Idle
    /\ Becomes(s, [Idle EXCEPT !.ev = n, !.todo = Steps(log[n])])
    /\ tidy' = (tidy /\ InHand = {} /\ \A m \in queue : n <= m)
    /\ UNCHANGED <<doc, remote, log, queue, rows, claims, told, faults, missed>>

\* The operation at hand, and the action that does it.
Op(s) == Head(slot[s].todo)[1]
Does(s) ==
    \/ Op(s) = "partner" /\ EnsurePartner(s)
    \/ Op(s) = "invoice" /\ CreateInvoice(s)
    \/ Op(s) = "link_payments" /\ LinkPayments(s)
    \/ Op(s) = "link_booking" /\ LinkBooking(s)
    \/ Op(s) = "record" /\ RecordPayment(s)
    \/ Op(s) = "put_row" /\ CreateAppointmentCache(s)
    \/ Op(s) = "pay_row" /\ UpdateCachePayment(s)
    \/ Op(s) = "change_row" /\ UpdateAppointmentCache(s)
    \/ Op(s) = "drop_row" /\ DeleteAppointmentCache(s)
    \/ Op(s) = "mark_row" /\ MarkCacheCancelled(s)
    \/ Op(s) = "set_booking" /\ UpdateBookingStatus(s)
    \/ Op(s) = "mark_paid" /\ MarkInvoicePaid(s)
    \/ Op(s) = "fetch" /\ FetchForInvoice(s)
    \/ Op(s) = "find_link" /\ FetchPaymentLink(s)
    \/ Op(s) = "close_link" /\ CancelPaymentLink(s)
    \/ Op(s) = "credit" /\ CreditLoyaltyPoints(s)
    \/ Op(s) = "reverse" /\ CancelLoyaltyPoints(s)
    \/ Op(s) = "request_refund" /\ CreateRefundRequest(s)
    \/ Op(s) = "check_sent" /\ CheckAlreadySent(s)
    \/ Op(s) = "note" /\ CreateCreditNote(s)
    \/ Op(s) = "link_note" /\ LinkCreditNote(s)
    \/ Op(s) = "loose_note" /\ CreateLooseCreditNote(s)
    \/ Op(s) = "mark" /\ MarkRecipient(s)
    \/ Op(s) = "activate" /\ ActivateScheduledVoucher(s)
    \/ Op(s) = "send" /\ Send(s)

\* A step starts a handler, ends it, cuts it short, or does the operation at hand.
LEMMA StepCases ==
  ASSUME NEW s \in Slot, Step(s), doc.kind \in Kinds
  PROVE  \/ \E n \in queue : Starts(s, n)
         \/ End(s)
         \/ Crash(s)
         \/ slot[s].todo # <<>> /\ Does(s)
  <1>1. ASSUME NEW n \in queue, Begin(s, n, Steps(log[n])) PROVE Starts(s, n)
    BY <1>1 DEF Begin, Starts
  <1>2. CASE BeginBooking(s)
    BY <1>1, <1>2 DEF BeginBooking, Steps
  <1>3. CASE BeginSale(s)
    BY <1>1, <1>3 DEF BeginSale, Steps
  <1>4. CASE BeginNotice(s)
    BY <1>1, <1>4 DEF BeginNotice, Steps
  <1>5. CASE SharedStep(s)
    <2>1. CASE EnsurePartner(s)
      BY <2>1 DEF EnsurePartner, Does, Doing, Op
    <2>2. CASE CreateInvoice(s)
      BY <2>2 DEF CreateInvoice, Does, Doing, Op
    <2>3. CASE LinkPayments(s)
      BY <2>3 DEF LinkPayments, Does, Doing, Op
    <2>4. CASE LinkBooking(s)
      BY <2>4 DEF LinkBooking, Does, Doing, Op
    <2>5. CASE RecordPayment(s)
      BY <2>5 DEF RecordPayment, Does, Doing, Op
    <2>6. CASE Send(s)
      BY <2>6 DEF Send, Does, Doing, Op
    <2> QED
      BY <1>5, <2>1, <2>2, <2>3, <2>4, <2>5, <2>6 DEF SharedStep
  <1>6. CASE BookingCall(s)
    <2>1. CASE CreateAppointmentCache(s)
      BY <2>1 DEF CreateAppointmentCache, Does, Doing, Op
    <2>2. CASE UpdateCachePayment(s)
      BY <2>2 DEF UpdateCachePayment, Does, Doing, Op
    <2>3. CASE UpdateAppointmentCache(s)
      BY <2>3 DEF UpdateAppointmentCache, Does, Doing, Op
    <2>4. CASE DeleteAppointmentCache(s)
      BY <2>4 DEF DeleteAppointmentCache, Does, Doing, Op
    <2>5. CASE MarkCacheCancelled(s)
      BY <2>5 DEF MarkCacheCancelled, Does, Doing, Op
    <2>6. CASE UpdateBookingStatus(s)
      BY <2>6 DEF UpdateBookingStatus, Does, Doing, Op
    <2>7. CASE MarkInvoicePaid(s)
      BY <2>7 DEF MarkInvoicePaid, Does, Doing, Op
    <2>8. CASE FetchForInvoice(s)
      BY <2>8 DEF FetchForInvoice, Does, Doing, Op
    <2>9. CASE FetchPaymentLink(s)
      BY <2>9 DEF FetchPaymentLink, Does, Doing, Op
    <2>10. CASE CancelPaymentLink(s)
      BY <2>10 DEF CancelPaymentLink, Does, Doing, Op
    <2>11. CASE CreditLoyaltyPoints(s)
      BY <2>11 DEF CreditLoyaltyPoints, Does, Doing, Op
    <2>12. CASE CancelLoyaltyPoints(s)
      BY <2>12 DEF CancelLoyaltyPoints, Does, Doing, Op
    <2>13. CASE CreateRefundRequest(s)
      BY <2>13 DEF CreateRefundRequest, Does, Doing, Op
    <2>14. CASE CheckAlreadySent(s)
      BY <2>14 DEF CheckAlreadySent, Does, Doing, Op
    <2>15. CASE CreateCreditNote(s)
      BY <2>15 DEF CreateCreditNote, Does, Doing, Op
    <2>16. CASE LinkCreditNote(s)
      BY <2>16 DEF LinkCreditNote, Does, Doing, Op
    <2>17. CASE CreateLooseCreditNote(s)
      BY <2>17 DEF CreateLooseCreditNote, Does, Doing, Op
    <2> QED
      BY <1>6, <2>1, <2>2, <2>3, <2>4, <2>5, <2>6, <2>7, <2>8, <2>9, <2>10, <2>11, <2>12,
         <2>13, <2>14, <2>15, <2>16, <2>17 DEF BookingCall
  <1>7. CASE SaleCall(s)
    <2>1. CASE MarkRecipient(s)
      BY <2>1 DEF MarkRecipient, Does, Doing, Op
    <2>2. CASE ActivateScheduledVoucher(s)
      BY <2>2 DEF ActivateScheduledVoucher, Does, Doing, Op
    <2> QED
      BY <1>7, <2>1, <2>2 DEF SaleCall
  <1> QED
    BY <1>2, <1>3, <1>4, <1>5, <1>6, <1>7 DEF Step

\* What an operation may put before the other steps.
Follows(s) ==
    CASE Op(s) = "partner" -> {<<>>, << <<"invoice">> >>}
      [] Op(s) = "invoice" -> {<<>>, << <<"link_payments">> >>}
      [] Op(s) = "link_payments" -> {<<>>, << <<"link_booking">> >>}
      [] Op(s) = "drop_row" ->
             IF Ev(s).type = "no_show" THEN {<<>>} ELSE {<<>>, << <<"mark_row">> >>}
      [] Op(s) = "fetch" -> IF GiftVoucher THEN {<<>>} ELSE {<<>>, << <<"partner">> >>}
      [] Op(s) = "check_sent" -> {<<>>, ConfirmationSteps}
      [] Op(s) = "note" -> {<<>>, << <<"link_note">> >>}
      [] Op(s) = "send" -> {<<>>, Fallback(Tail(Head(slot[s].todo)))}
      [] OTHER -> {<<>>}

\* What it may change of what the services hold.
Touches(op) ==
    CASE op = "record" -> {"payments", "linked"}
      [] op = "invoice" -> {"invoices"}
      [] op = "link_payments" -> {"linked"}
      [] op = "link_booking" -> {"billed"}
      [] op \in {"put_row", "pay_row", "change_row", "drop_row", "mark_row"} -> {"row"}
      [] op = "set_booking" -> {"status", "pay"}
      [] op = "close_link" -> {"link"}
      [] op = "credit" -> {"earned"}
      [] op = "reverse" -> {"reversed"}
      [] op = "request_refund" -> {"requests"}
      [] op = "note" -> {"note", "cash"}
      [] op = "link_note" -> {"noted"}
      [] op = "loose_note" -> {"loose"}
      [] op = "mark" -> {"marks"}
      [] op = "activate" -> {"status"}
      [] OTHER -> {}

\* The slot goes on with the steps `then' before the others.
Goes(s, then) ==
    \E l \in [ev : {slot[s].ev}, todo : {then \o Tail(slot[s].todo)}, got : BOOLEAN,
              rows : SUBSET Templates] :
        /\ Becomes(s, l)
        /\ slot[s].got => l.got
        /\ slot[s].rows \subseteq l.rows
        /\ Op(s) # "send" => l.rows = slot[s].rows

\* Its handler raises, or has nothing more to do.
Raises(s) ==
    /\ Becomes(s, Idle)
    /\ faults' = faults + 1 \/ (Op(s) = "change_row" /\ faults' = faults)
Stops(s) ==
    /\ Op(s) = "change_row"
    /\ Becomes(s, [slot[s] EXCEPT !.todo = <<>>])
    /\ faults' = faults

\* Two records that differ in some fields only.
Agree(r, q, F) == DOMAIN q = DOMAIN r /\ \A f \in DOMAIN r \ F : q[f] = r[f]

\* A record does not differ from itself.
LEMMA SelfAgrees ==
  ASSUME NEW r, NEW F
  PROVE  Agree(r, r, F)
  BY DEF Agree

\* What a call does, once or twice.
LEMMA TwiceAgrees ==
  ASSUME NEW r, NEW q, NEW p, NEW F, Agree(r, q, F), Agree(q, p, F)
  PROVE  Agree(r, p, F)
  BY DEF Agree

\* Marking a recipient.
Mark(mark, r) == [r EXCEPT !.marks = {mark} \cup (@ \ {"pending"})]

\* What the calls change.
LEMMA EffectsAgree ==
  ASSUME NEW r
  PROVE  /\ Agree(r, Same(r), {})
         /\ Agree(r, AddInvoice(r), {"invoices"})
         /\ Agree(r, LinkAll(r), {"linked"})
         /\ Agree(r, Bill(r), {"billed"})
         /\ \A numbered : Agree(r, AddPayment(numbered, r), {"payments", "linked"})
         /\ \A a, b : Agree(r, PutRow(a, b, r), {"row"})
         /\ \A a, b : Agree(r, ChangeRow(a, b, r), {"row"})
         /\ \A b : Agree(r, PayRow(b, r), {"row"})
         /\ Agree(r, DropRow(r), {"row"})
         /\ \A a : Agree(r, SetStatus(a, r), {"status", "pay"})
         /\ \A a, b : Agree(r, SetStatusAndPay(a, b, r), {"status", "pay"})
         /\ Agree(r, CloseLinks(r), {"link"})
         /\ Agree(r, Credit(r), {"earned"})
         /\ Agree(r, Reverse(r), {"reversed"})
         /\ Agree(r, RequestRefund(r), {"requests"})
         /\ \A cash : Agree(r, NumberedNote(cash, r), {"note", "cash"})
         /\ Agree(r, LinkNote(r), {"noted"})
         /\ Agree(r, LooseNote(r), {"loose"})
         /\ \A mark : Agree(r, Mark(mark, r), {"marks"})
         /\ Agree(r, Activate(r), {"status"})
  <1>2. Agree(r, Same(r), {})
    BY DEF Agree, Same
  <1>3. Agree(r, AddInvoice(r), {"invoices"})
    BY DEF Agree, AddInvoice
  <1>4. Agree(r, LinkAll(r), {"linked"})
    BY DEF Agree, LinkAll
  <1>5. Agree(r, Bill(r), {"billed"})
    BY DEF Agree, Bill
  <1>6. \A numbered : Agree(r, AddPayment(numbered, r), {"payments", "linked"})
    BY DEF Agree, AddPayment
  <1>7. \A a, b : Agree(r, PutRow(a, b, r), {"row"})
    BY DEF Agree, PutRow
  <1>8. \A a, b : Agree(r, ChangeRow(a, b, r), {"row"})
    BY DEF Agree, ChangeRow, PutRow
  <1>9. \A b : Agree(r, PayRow(b, r), {"row"})
    BY DEF Agree, PayRow
  <1>10. Agree(r, DropRow(r), {"row"})
    BY DEF Agree, DropRow
  <1>11. \A a : Agree(r, SetStatus(a, r), {"status", "pay"})
    BY DEF Agree, SetStatus
  <1>12. \A a, b : Agree(r, SetStatusAndPay(a, b, r), {"status", "pay"})
    BY DEF Agree, SetStatusAndPay
  <1>13. Agree(r, CloseLinks(r), {"link"})
    BY DEF Agree, CloseLinks
  <1>14. Agree(r, Credit(r), {"earned"})
    BY DEF Agree, Credit
  <1>15. Agree(r, Reverse(r), {"reversed"})
    BY DEF Agree, Reverse
  <1>16. Agree(r, RequestRefund(r), {"requests"})
    BY DEF Agree, RequestRefund
  <1>17. \A cash : Agree(r, NumberedNote(cash, r), {"note", "cash"})
    BY DEF Agree, NumberedNote
  <1>18. Agree(r, LinkNote(r), {"noted"})
    BY DEF Agree, LinkNote
  <1>19. Agree(r, LooseNote(r), {"loose"})
    BY DEF Agree, LooseNote
  <1>20. \A mark : Agree(r, Mark(mark, r), {"marks"})
    BY DEF Agree, Mark
  <1>21. Agree(r, Activate(r), {"status"})
    BY DEF Agree, Activate
  <1> QED
    BY <1>2, <1>3, <1>4, <1>5, <1>6, <1>7, <1>8, <1>9, <1>10, <1>11, <1>12, <1>13, <1>14,
       <1>15, <1>16, <1>17, <1>18, <1>19, <1>20, <1>21

\* What the others see of an operation.
Framed(s) ==
    /\ UNCHANGED <<doc, log, queue, rows, tidy>>
    /\ Op(s) # "send" => UNCHANGED <<claims, told>>
    /\ Agree(remote, remote', Touches(Op(s)))
    /\ faults' \in {faults, faults + 1} /\ faults' <= MaxFaults
    /\ missed' \in {missed, missed \cup {Op(s)}}
    /\ faults' = faults => missed' = missed
Moves(s) == (Raises(s) \/ Stops(s) \/ \E then \in Follows(s) : Goes(s, then)) /\ Framed(s)

\* The slot before: its handler has an event.
LEMMA Working ==
  ASSUME Typed, Apart, NEW s \in Slot, slot[s].todo # <<>>
  PROVE  /\ slot[s].ev # 0 /\ slot[s].ev \in queue /\ slot[s].ev \in DOMAIN log
         /\ Ev(s) \in Event
         /\ slot[s].todo \in Seq(Allowed(Ev(s)))
         /\ Head(slot[s].todo) \in Allowed(Ev(s))
         /\ Tail(slot[s].todo) \in Seq(Allowed(Ev(s)))
         /\ slot[s] = [ev |-> slot[s].ev, todo |-> slot[s].todo, got |-> slot[s].got,
                       rows |-> slot[s].rows]
         /\ slot[s].rows \in SUBSET Templates /\ slot[s].got \in BOOLEAN
  <1>1. slot[s] # Idle
    BY DEF Idle
  <1>2. slot[s].ev \in queue /\ slot[s].todo \in Plan[Ev(s)]
    BY <1>1 DEF Apart, Ev
  <1>3. slot[s].ev \in DOMAIN log /\ slot[s].ev # 0 /\ Ev(s) \in Event
    <2>1. slot[s].ev \in DOMAIN log /\ log \in Seq(Event)
      BY <1>2 DEF Typed
    <2>2. slot[s].ev \in 1..Len(log) /\ log[slot[s].ev] \in Event
      BY <2>1, ElementOfSeq, LenProperties
    <2> QED
      BY <2>1, <2>2 DEF Ev
  <1>4. /\ slot[s].todo \in Seq(Allowed(Ev(s)))
        /\ Head(slot[s].todo) \in Allowed(Ev(s)) /\ Tail(slot[s].todo) \in Seq(Allowed(Ev(s)))
    BY <1>2, <1>3 DEF Plan
  <1>5. slot[s] \in Hand(AnyStep)
    BY DEF Typed
  <1> QED
    BY <1>2, <1>3, <1>4, <1>5 DEF Hand

\* The slot with other steps to do.
LEMMA AfterIs ==
  ASSUME Typed, Apart, NEW s \in Slot, slot[s].todo # <<>>, NEW then
  PROVE  /\ After(s, then) \in [ev : {slot[s].ev}, todo : {then \o Tail(slot[s].todo)},
                                got : {slot[s].got}, rows : {slot[s].rows}]
         /\ Holding(After(s, then)) \in [ev : {slot[s].ev}, todo : {then \o Tail(slot[s].todo)},
                                         got : {TRUE}, rows : {slot[s].rows}]
  <1>1. slot[s] \in [ev : {slot[s].ev}, todo : {slot[s].todo}, got : {slot[s].got},
                     rows : {slot[s].rows}]
    <2>1. slot[s] \in Hand(AnyStep)
      BY DEF Typed
    <2> QED
      BY <2>1 DEF Hand
  <1>2. After(s, then) \in [ev : {slot[s].ev}, todo : {then \o Tail(slot[s].todo)},
                            got : {slot[s].got}, rows : {slot[s].rows}]
    BY <1>1 DEF After
  <1>3. Holding(After(s, then)) \in [ev : {slot[s].ev}, todo : {then \o Tail(slot[s].todo)},
                                     got : {TRUE}, rows : {slot[s].rows}]
    BY <1>2 DEF Holding
  <1> QED
    BY <1>2, <1>3

\* Going on is one of these.
LEMMA Onwards ==
  ASSUME Typed, Apart, NEW s \in Slot, slot[s].todo # <<>>, NEW then
  PROVE  /\ Becomes(s, After(s, then)) => Goes(s, then)
         /\ Becomes(s, Holding(After(s, then))) => Goes(s, then)
  <1>1. slot[s].rows \in SUBSET Templates /\ slot[s].got \in BOOLEAN
    BY Working
  <1>2. /\ After(s, then) \in [ev : {slot[s].ev}, todo : {then \o Tail(slot[s].todo)},
                               got : BOOLEAN, rows : SUBSET Templates]
        /\ Holding(After(s, then)) \in [ev : {slot[s].ev}, todo : {then \o Tail(slot[s].todo)},
                                        got : BOOLEAN, rows : SUBSET Templates]
        /\ After(s, then).got = slot[s].got /\ After(s, then).rows = slot[s].rows
        /\ Holding(After(s, then)).got /\ Holding(After(s, then)).rows = slot[s].rows
    BY <1>1, AfterIs
  <1> QED
    BY <1>2 DEF Goes

\* The row of a message is named for a template.
LEMMA SaidRow ==
  ASSUME NEW e, NEW q \in Allowed(e), q[1] = "send"
  PROVE  /\ Tail(q) = <<Saying(e), q[3], q[4]>>
         /\ Tail(q) \in Messages
         /\ RowOf(Tail(q)) \in Templates
         /\ Fallback(Tail(q)) \in Seq(Allowed(e))
  <1>1. /\ q = <<"send", Saying(e), q[3], q[4]>> /\ q[3] \in Channels /\ q[4] \in Audiences
        /\ Saying(e) \in Templates /\ "send" \in Ops(e)
    BY StepIs
  <1>2. Tail(q) = <<Saying(e), q[3], q[4]>>
    <2>1. \A x, y, z : Tail(<<"send", x, y, z>>) = <<x, y, z>>
      OBVIOUS
    <2> QED
      BY <1>1, <2>1, Zenon
  <1>3. Tail(q) \in Messages
    BY <1>1, <1>2 DEF Messages, Channels, Audiences
  <1>4. RowOf(Tail(q)) \in Templates
    BY <1>1, <1>2 DEF RowOf, Templates, Trusting
  <1>5. Fallback(Tail(q)) \in Seq(Allowed(e))
    <2>1. << <<"send", Saying(e), "sms", q[4]>> >> \in Seq(Allowed(e))
      BY <1>1, MessagesAllowed DEF Channels
    <2>2. Fallback(Tail(q)) \in {<<>>, << <<"send", Saying(e), "sms", q[4]>> >>}
      <3>1. \A x, y, z : Fallback(<<x, y, z>>) \in {<<>>, << <<"send", x, "sms", z>> >>}
        BY DEF Fallback
      <3> QED
        BY <1>2, <3>1, Zenon
    <2> QED
      BY <2>1, <2>2, Lists, Zenon
  <1> QED
    BY <1>2, <1>3, <1>4, <1>5

\* Every operation moves its slot and touches nothing else.
LEMMA OperationMoves ==
  ASSUME Typed, Apart, NEW s \in Slot, slot[s].todo # <<>>, Does(s)
  PROVE  Moves(s)
  <1>0. doc.kind \in Kinds /\ DOMAIN remote = Fields /\ faults \in 0..MaxFaults /\ MaxFaults \in Nat
    BY FaultsAssumption DEF Typed, Shaped
  <1>1. CASE Op(s) = "partner" /\ EnsurePartner(s)
    <2>1. Raises(s) \/ Stops(s) \/ \E then \in Follows(s) : Goes(s, then)
      BY <1>0, <1>1, Onwards DEF EnsurePartner, Call, PassOver, Same, Raises, Stops, Follows
    <2> DEFINE E(r) == Same(r)
    <2>2. /\ remote' \in {remote, E(remote), E(E(remote))}
          /\ UNCHANGED <<doc, log, queue, rows, tidy, claims, told>>
          /\ faults' \in {faults, faults + 1} /\ faults' <= MaxFaults
          /\ missed' \in {missed, missed \cup {Op(s)}} /\ (faults' = faults => missed' = missed)
      BY <1>0, <1>1 DEF EnsurePartner, Call, PassOver, Op
    <2>3. Agree(remote, E(remote), {}) /\ Agree(E(remote), E(E(remote)), {})
      BY EffectsAgree
    <2>4. Agree(remote, remote', {})
      <3> HIDE DEF E
      <3> QED
        BY <2>2, <2>3, TwiceAgrees, SelfAgrees
    <2>5. Framed(s)
      BY <1>1, <2>2, <2>4 DEF Framed, Touches
    <2> QED
      BY <2>1, <2>5 DEF Moves
  <1>2. CASE Op(s) = "invoice" /\ CreateInvoice(s)
    <2>1. Raises(s) \/ Stops(s) \/ \E then \in Follows(s) : Goes(s, then)
      BY <1>0, <1>2, Onwards DEF CreateInvoice, Call, PassOver, AddInvoice, Raises, Stops,
         Follows
    <2> DEFINE E(r) == AddInvoice(r)
    <2>2. /\ remote' \in {remote, E(remote), E(E(remote))}
          /\ UNCHANGED <<doc, log, queue, rows, tidy, claims, told>>
          /\ faults' \in {faults, faults + 1} /\ faults' <= MaxFaults
          /\ missed' \in {missed, missed \cup {Op(s)}} /\ (faults' = faults => missed' = missed)
      BY <1>0, <1>2 DEF CreateInvoice, Call, PassOver, Op
    <2>3. Agree(remote, E(remote), {"invoices"}) /\ Agree(E(remote), E(E(remote)), {"invoices"})
      BY EffectsAgree
    <2>4. Agree(remote, remote', {"invoices"})
      <3> HIDE DEF E
      <3> QED
        BY <2>2, <2>3, TwiceAgrees, SelfAgrees
    <2>5. Framed(s)
      BY <1>2, <2>2, <2>4 DEF Framed, Touches
    <2> QED
      BY <2>1, <2>5 DEF Moves
  <1>3. CASE Op(s) = "link_payments" /\ LinkPayments(s)
    <2>1. Raises(s) \/ Stops(s) \/ \E then \in Follows(s) : Goes(s, then)
      BY <1>0, <1>3, Onwards DEF LinkPayments, Call, PassOver, LinkAll, Raises, Stops, Follows
    <2> DEFINE E(r) == LinkAll(r)
    <2>2. /\ remote' \in {remote, E(remote), E(E(remote))}
          /\ UNCHANGED <<doc, log, queue, rows, tidy, claims, told>>
          /\ faults' \in {faults, faults + 1} /\ faults' <= MaxFaults
          /\ missed' \in {missed, missed \cup {Op(s)}} /\ (faults' = faults => missed' = missed)
      BY <1>0, <1>3 DEF LinkPayments, Call, PassOver, Op
    <2>3. Agree(remote, E(remote), {"linked"}) /\ Agree(E(remote), E(E(remote)), {"linked"})
      BY EffectsAgree
    <2>4. Agree(remote, remote', {"linked"})
      <3> HIDE DEF E
      <3> QED
        BY <2>2, <2>3, TwiceAgrees, SelfAgrees
    <2>5. Framed(s)
      BY <1>3, <2>2, <2>4 DEF Framed, Touches
    <2> QED
      BY <2>1, <2>5 DEF Moves
  <1>4. CASE Op(s) = "link_booking" /\ LinkBooking(s)
    <2>1. Raises(s) \/ Stops(s) \/ \E then \in Follows(s) : Goes(s, then)
      BY <1>0, <1>4, Onwards DEF LinkBooking, Call, PassOver, Bill, Raises, Stops, Follows
    <2> DEFINE E(r) == Bill(r)
    <2>2. /\ remote' \in {remote, E(remote), E(E(remote))}
          /\ UNCHANGED <<doc, log, queue, rows, tidy, claims, told>>
          /\ faults' \in {faults, faults + 1} /\ faults' <= MaxFaults
          /\ missed' \in {missed, missed \cup {Op(s)}} /\ (faults' = faults => missed' = missed)
      BY <1>0, <1>4 DEF LinkBooking, Call, PassOver, Op
    <2>3. Agree(remote, E(remote), {"billed"}) /\ Agree(E(remote), E(E(remote)), {"billed"})
      BY EffectsAgree
    <2>4. Agree(remote, remote', {"billed"})
      <3> HIDE DEF E
      <3> QED
        BY <2>2, <2>3, TwiceAgrees, SelfAgrees
    <2>5. Framed(s)
      BY <1>4, <2>2, <2>4 DEF Framed, Touches
    <2> QED
      BY <2>1, <2>5 DEF Moves
  <1>5. CASE Op(s) = "record" /\ RecordPayment(s)
    <2>1. Raises(s) \/ Stops(s) \/ \E then \in Follows(s) : Goes(s, then)
      BY <1>0, <1>5, Onwards DEF RecordPayment, Call, PassOver, AddPayment, Raises, Stops,
         Follows
    <2> DEFINE E(r) == AddPayment(slot[s].got, r)
    <2>2. /\ remote' \in {remote, E(remote), E(E(remote))}
          /\ UNCHANGED <<doc, log, queue, rows, tidy, claims, told>>
          /\ faults' \in {faults, faults + 1} /\ faults' <= MaxFaults
          /\ missed' \in {missed, missed \cup {Op(s)}} /\ (faults' = faults => missed' = missed)
      BY <1>0, <1>5 DEF RecordPayment, Call, PassOver, Op
    <2>3. /\ Agree(remote, E(remote), {"payments", "linked"})
          /\ Agree(E(remote), E(E(remote)), {"payments", "linked"})
      BY EffectsAgree
    <2>4. Agree(remote, remote', {"payments", "linked"})
      <3> HIDE DEF E
      <3> QED
        BY <2>2, <2>3, TwiceAgrees, SelfAgrees
    <2>5. Framed(s)
      BY <1>5, <2>2, <2>4 DEF Framed, Touches
    <2> QED
      BY <2>1, <2>5 DEF Moves
  <1>6. CASE Op(s) = "put_row" /\ CreateAppointmentCache(s)
    <2>1. Raises(s) \/ Stops(s) \/ \E then \in Follows(s) : Goes(s, then)
      BY <1>0, <1>6, Onwards DEF CreateAppointmentCache, Call, PassOver, PutRow, Attempt,
         Onward, Raises, Stops, Follows
    <2> DEFINE E(r) == PutRow(Arg(s, 2), Arg(s, 3), r)
    <2>2. /\ remote' \in {remote, E(remote), E(E(remote))}
          /\ UNCHANGED <<doc, log, queue, rows, tidy, claims, told>>
          /\ faults' \in {faults, faults + 1} /\ faults' <= MaxFaults
          /\ missed' \in {missed, missed \cup {Op(s)}} /\ (faults' = faults => missed' = missed)
      BY <1>0, <1>6 DEF CreateAppointmentCache, Call, PassOver, Op, Attempt, Onward
    <2>3. Agree(remote, E(remote), {"row"}) /\ Agree(E(remote), E(E(remote)), {"row"})
      BY EffectsAgree
    <2>4. Agree(remote, remote', {"row"})
      <3> HIDE DEF E
      <3> QED
        BY <2>2, <2>3, TwiceAgrees, SelfAgrees
    <2>5. Framed(s)
      BY <1>6, <2>2, <2>4 DEF Framed, Touches
    <2> QED
      BY <2>1, <2>5 DEF Moves
  <1>7. CASE Op(s) = "pay_row" /\ UpdateCachePayment(s)
    <2>1. Raises(s) \/ Stops(s) \/ \E then \in Follows(s) : Goes(s, then)
      BY <1>0, <1>7, Onwards DEF UpdateCachePayment, Call, PassOver, PayRow, Onward, Raises,
         Stops, Follows
    <2> DEFINE E(r) == PayRow("success", r)
    <2>2. /\ remote' \in {remote, E(remote), E(E(remote))}
          /\ UNCHANGED <<doc, log, queue, rows, tidy, claims, told>>
          /\ faults' \in {faults, faults + 1} /\ faults' <= MaxFaults
          /\ missed' \in {missed, missed \cup {Op(s)}} /\ (faults' = faults => missed' = missed)
      BY <1>0, <1>7 DEF UpdateCachePayment, Call, PassOver, Op, Onward
    <2>3. Agree(remote, E(remote), {"row"}) /\ Agree(E(remote), E(E(remote)), {"row"})
      BY EffectsAgree
    <2>4. Agree(remote, remote', {"row"})
      <3> HIDE DEF E
      <3> QED
        BY <2>2, <2>3, TwiceAgrees, SelfAgrees
    <2>5. Framed(s)
      BY <1>7, <2>2, <2>4 DEF Framed, Touches
    <2> QED
      BY <2>1, <2>5 DEF Moves
  <1>8. CASE Op(s) = "change_row" /\ UpdateAppointmentCache(s)
    <2>1. Raises(s) \/ Stops(s) \/ \E then \in Follows(s) : Goes(s, then)
      BY <1>0, <1>8, Onwards DEF UpdateAppointmentCache, Call, PassOver, ChangeRow, PutRow,
         Refuse, Onward, Raises, Stops, Follows
    <2> DEFINE E(r) == ChangeRow(Arg(s, 2), Arg(s, 3), r)
    <2>2. /\ remote' \in {remote, E(remote), E(E(remote))}
          /\ UNCHANGED <<doc, log, queue, rows, tidy, claims, told>>
          /\ faults' \in {faults, faults + 1} /\ faults' <= MaxFaults
          /\ missed' \in {missed, missed \cup {Op(s)}} /\ (faults' = faults => missed' = missed)
      BY <1>0, <1>8 DEF UpdateAppointmentCache, Call, PassOver, Op, Onward, Refuse
    <2>3. Agree(remote, E(remote), {"row"}) /\ Agree(E(remote), E(E(remote)), {"row"})
      BY EffectsAgree
    <2>4. Agree(remote, remote', {"row"})
      <3> HIDE DEF E
      <3> QED
        BY <2>2, <2>3, TwiceAgrees, SelfAgrees
    <2>5. Framed(s)
      BY <1>8, <2>2, <2>4 DEF Framed, Touches
    <2> QED
      BY <2>1, <2>5 DEF Moves
  <1>9. CASE Op(s) = "drop_row" /\ DeleteAppointmentCache(s)
    <2>1. Raises(s) \/ Stops(s) \/ \E then \in Follows(s) : Goes(s, then)
      BY <1>0, <1>9, Onwards DEF DeleteAppointmentCache, Call, PassOver, DropRow, Onward,
         Raises, Stops, Follows
    <2> DEFINE E(r) == DropRow(r)
    <2>2. /\ remote' \in {remote, E(remote), E(E(remote))}
          /\ UNCHANGED <<doc, log, queue, rows, tidy, claims, told>>
          /\ faults' \in {faults, faults + 1} /\ faults' <= MaxFaults
          /\ missed' \in {missed, missed \cup {Op(s)}} /\ (faults' = faults => missed' = missed)
      BY <1>0, <1>9 DEF DeleteAppointmentCache, Call, PassOver, Op, Onward
    <2>3. Agree(remote, E(remote), {"row"}) /\ Agree(E(remote), E(E(remote)), {"row"})
      BY EffectsAgree
    <2>4. Agree(remote, remote', {"row"})
      <3> HIDE DEF E
      <3> QED
        BY <2>2, <2>3, TwiceAgrees, SelfAgrees
    <2>5. Framed(s)
      BY <1>9, <2>2, <2>4 DEF Framed, Touches
    <2> QED
      BY <2>1, <2>5 DEF Moves
  <1>10. CASE Op(s) = "mark_row" /\ MarkCacheCancelled(s)
    <2>1. Raises(s) \/ Stops(s) \/ \E then \in Follows(s) : Goes(s, then)
      BY <1>0, <1>10, Onwards DEF MarkCacheCancelled, Call, PassOver, ChangeRow, PutRow,
         Attempt, Onward, Raises, Stops, Follows
    <2> DEFINE E(r) == ChangeRow("cancelled",
                                 IF Ev(s).pay \in {"success", "refund_requested"} THEN Ev(s).pay
                                 ELSE "cancelled", r)
    <2>2. /\ remote' \in {remote, E(remote), E(E(remote))}
          /\ UNCHANGED <<doc, log, queue, rows, tidy, claims, told>>
          /\ faults' \in {faults, faults + 1} /\ faults' <= MaxFaults
          /\ missed' \in {missed, missed \cup {Op(s)}} /\ (faults' = faults => missed' = missed)
      BY <1>0, <1>10 DEF MarkCacheCancelled, Call, PassOver, Op, Attempt, Onward
    <2>3. Agree(remote, E(remote), {"row"}) /\ Agree(E(remote), E(E(remote)), {"row"})
      BY EffectsAgree
    <2>4. Agree(remote, remote', {"row"})
      <3> HIDE DEF E
      <3> QED
        BY <2>2, <2>3, TwiceAgrees, SelfAgrees
    <2>5. Framed(s)
      BY <1>10, <2>2, <2>4 DEF Framed, Touches
    <2> QED
      BY <2>1, <2>5 DEF Moves
  <1>11. CASE Op(s) = "set_booking" /\ UpdateBookingStatus(s)
    <2>1. Raises(s) \/ Stops(s) \/ \E then \in Follows(s) : Goes(s, then)
      BY <1>0, <1>11, Onwards DEF UpdateBookingStatus, Call, PassOver, SetStatus,
         SetStatusAndPay, Attempt, Onward, Raises, Stops, Follows
    <2> DEFINE E(r) == IF Arg(s, 3) = "none" THEN SetStatus(Arg(s, 2), r)
                          ELSE SetStatusAndPay(Arg(s, 2), Arg(s, 3), r)
    <2>2. /\ remote' \in {remote, E(remote), E(E(remote))}
          /\ UNCHANGED <<doc, log, queue, rows, tidy, claims, told>>
          /\ faults' \in {faults, faults + 1} /\ faults' <= MaxFaults
          /\ missed' \in {missed, missed \cup {Op(s)}} /\ (faults' = faults => missed' = missed)
      BY <1>0, <1>11 DEF UpdateBookingStatus, Call, PassOver, Op, Attempt, Onward
    <2>3. /\ Agree(remote, E(remote), {"status", "pay"})
          /\ Agree(E(remote), E(E(remote)), {"status", "pay"})
      BY EffectsAgree
    <2>4. Agree(remote, remote', {"status", "pay"})
      <3> HIDE DEF E
      <3> QED
        BY <2>2, <2>3, TwiceAgrees, SelfAgrees
    <2>5. Framed(s)
      BY <1>11, <2>2, <2>4 DEF Framed, Touches
    <2> QED
      BY <2>1, <2>5 DEF Moves
  <1>12. CASE Op(s) = "mark_paid" /\ MarkInvoicePaid(s)
    <2>1. Raises(s) \/ Stops(s) \/ \E then \in Follows(s) : Goes(s, then)
      BY <1>0, <1>12, Onwards DEF MarkInvoicePaid, Call, PassOver, Same, Attempt, Onward,
         Raises, Stops, Follows
    <2> DEFINE E(r) == Same(r)
    <2>2. /\ remote' \in {remote, E(remote), E(E(remote))}
          /\ UNCHANGED <<doc, log, queue, rows, tidy, claims, told>>
          /\ faults' \in {faults, faults + 1} /\ faults' <= MaxFaults
          /\ missed' \in {missed, missed \cup {Op(s)}} /\ (faults' = faults => missed' = missed)
      BY <1>0, <1>12 DEF MarkInvoicePaid, Call, PassOver, Op, Attempt, Onward
    <2>3. Agree(remote, E(remote), {}) /\ Agree(E(remote), E(E(remote)), {})
      BY EffectsAgree
    <2>4. Agree(remote, remote', {})
      <3> HIDE DEF E
      <3> QED
        BY <2>2, <2>3, TwiceAgrees, SelfAgrees
    <2>5. Framed(s)
      BY <1>12, <2>2, <2>4 DEF Framed, Touches
    <2> QED
      BY <2>1, <2>5 DEF Moves
  <1>13. CASE Op(s) = "fetch" /\ FetchForInvoice(s)
    <2>1. Raises(s) \/ Stops(s) \/ \E then \in Follows(s) : Goes(s, then)
      <3> DEFINE merged == [Ev(s) EXCEPT !.pay = IF @ = "none" THEN remote.pay ELSE @]
      <3>1. InvoiceSteps(merged) \in Follows(s) /\ <<>> \in Follows(s)
        <4>1. ~Redeems(merged) => ~GiftVoucher
          BY DEF Redeems, GiftVoucher
        <4>2. InvoiceSteps(merged) \in {<<>>, << <<"partner">> >>}
          BY Triggered, Zenon DEF InvoiceSteps
        <4>3. GiftVoucher => InvoiceSteps(merged) = <<>>
          BY <4>1, Zenon DEF InvoiceSteps
        <4> QED
          BY <1>13, <4>2, <4>3 DEF Follows
      <3>2. \/ Becomes(s, After(s, InvoiceSteps(merged)))
            \/ Becomes(s, After(s, <<>>))
        BY <1>13 DEF FetchForInvoice, Call, Onward
      <3> HIDE DEF merged
      <3> QED
        BY <1>0, <1>13, <3>1, <3>2, Onwards
    <2> DEFINE E(r) == Same(r)
    <2>2. /\ remote' \in {remote, E(remote), E(E(remote))}
          /\ UNCHANGED <<doc, log, queue, rows, tidy, claims, told>>
          /\ faults' \in {faults, faults + 1} /\ faults' <= MaxFaults
          /\ missed' \in {missed, missed \cup {Op(s)}} /\ (faults' = faults => missed' = missed)
      BY <1>0, <1>13 DEF FetchForInvoice, Same, Call, PassOver, Op, Onward
    <2>3. Agree(remote, E(remote), {}) /\ Agree(E(remote), E(E(remote)), {})
      BY EffectsAgree
    <2>4. Agree(remote, remote', {})
      <3> HIDE DEF E
      <3> QED
        BY <2>2, <2>3, TwiceAgrees, SelfAgrees
    <2>5. Framed(s)
      BY <1>13, <2>2, <2>4 DEF Framed, Touches
    <2> QED
      BY <2>1, <2>5 DEF Moves
  <1>14. CASE Op(s) = "find_link" /\ FetchPaymentLink(s)
    <2>1. Raises(s) \/ Stops(s) \/ \E then \in Follows(s) : Goes(s, then)
      BY <1>0, <1>14, Onwards DEF FetchPaymentLink, Call, PassOver, Same, Onward, Raises,
         Stops, Follows
    <2> DEFINE E(r) == Same(r)
    <2>2. /\ remote' \in {remote, E(remote), E(E(remote))}
          /\ UNCHANGED <<doc, log, queue, rows, tidy, claims, told>>
          /\ faults' \in {faults, faults + 1} /\ faults' <= MaxFaults
          /\ missed' \in {missed, missed \cup {Op(s)}} /\ (faults' = faults => missed' = missed)
      BY <1>0, <1>14 DEF FetchPaymentLink, Call, PassOver, Op, Onward
    <2>3. Agree(remote, E(remote), {}) /\ Agree(E(remote), E(E(remote)), {})
      BY EffectsAgree
    <2>4. Agree(remote, remote', {})
      <3> HIDE DEF E
      <3> QED
        BY <2>2, <2>3, TwiceAgrees, SelfAgrees
    <2>5. Framed(s)
      BY <1>14, <2>2, <2>4 DEF Framed, Touches
    <2> QED
      BY <2>1, <2>5 DEF Moves
  <1>15. CASE Op(s) = "close_link" /\ CancelPaymentLink(s)
    <2>1. Raises(s) \/ Stops(s) \/ \E then \in Follows(s) : Goes(s, then)
      BY <1>0, <1>15, Onwards DEF CancelPaymentLink, Call, PassOver, CloseLinks, Attempt,
         Onward, Raises, Stops, Follows
    <2> DEFINE E(r) == CloseLinks(r)
    <2>2. /\ remote' \in {remote, E(remote), E(E(remote))}
          /\ UNCHANGED <<doc, log, queue, rows, tidy, claims, told>>
          /\ faults' \in {faults, faults + 1} /\ faults' <= MaxFaults
          /\ missed' \in {missed, missed \cup {Op(s)}} /\ (faults' = faults => missed' = missed)
      BY <1>0, <1>15 DEF CancelPaymentLink, Call, PassOver, Op, Attempt, Onward
    <2>3. Agree(remote, E(remote), {"link"}) /\ Agree(E(remote), E(E(remote)), {"link"})
      BY EffectsAgree
    <2>4. Agree(remote, remote', {"link"})
      <3> HIDE DEF E
      <3> QED
        BY <2>2, <2>3, TwiceAgrees, SelfAgrees
    <2>5. Framed(s)
      BY <1>15, <2>2, <2>4 DEF Framed, Touches
    <2> QED
      BY <2>1, <2>5 DEF Moves
  <1>16. CASE Op(s) = "credit" /\ CreditLoyaltyPoints(s)
    <2>1. Raises(s) \/ Stops(s) \/ \E then \in Follows(s) : Goes(s, then)
      BY <1>0, <1>16, Onwards DEF CreditLoyaltyPoints, Call, PassOver, Credit, Attempt, Onward,
         Raises, Stops, Follows
    <2> DEFINE E(r) == Credit(r)
    <2>2. /\ remote' \in {remote, E(remote), E(E(remote))}
          /\ UNCHANGED <<doc, log, queue, rows, tidy, claims, told>>
          /\ faults' \in {faults, faults + 1} /\ faults' <= MaxFaults
          /\ missed' \in {missed, missed \cup {Op(s)}} /\ (faults' = faults => missed' = missed)
      BY <1>0, <1>16 DEF CreditLoyaltyPoints, Call, PassOver, Op, Attempt, Onward
    <2>3. Agree(remote, E(remote), {"earned"}) /\ Agree(E(remote), E(E(remote)), {"earned"})
      BY EffectsAgree
    <2>4. Agree(remote, remote', {"earned"})
      <3> HIDE DEF E
      <3> QED
        BY <2>2, <2>3, TwiceAgrees, SelfAgrees
    <2>5. Framed(s)
      BY <1>16, <2>2, <2>4 DEF Framed, Touches
    <2> QED
      BY <2>1, <2>5 DEF Moves
  <1>17. CASE Op(s) = "reverse" /\ CancelLoyaltyPoints(s)
    <2>1. Raises(s) \/ Stops(s) \/ \E then \in Follows(s) : Goes(s, then)
      BY <1>0, <1>17, Onwards DEF CancelLoyaltyPoints, Call, PassOver, Reverse, Attempt,
         Onward, Raises, Stops, Follows
    <2> DEFINE E(r) == Reverse(r)
    <2>2. /\ remote' \in {remote, E(remote), E(E(remote))}
          /\ UNCHANGED <<doc, log, queue, rows, tidy, claims, told>>
          /\ faults' \in {faults, faults + 1} /\ faults' <= MaxFaults
          /\ missed' \in {missed, missed \cup {Op(s)}} /\ (faults' = faults => missed' = missed)
      BY <1>0, <1>17 DEF CancelLoyaltyPoints, Call, PassOver, Op, Attempt, Onward
    <2>3. Agree(remote, E(remote), {"reversed"}) /\ Agree(E(remote), E(E(remote)), {"reversed"})
      BY EffectsAgree
    <2>4. Agree(remote, remote', {"reversed"})
      <3> HIDE DEF E
      <3> QED
        BY <2>2, <2>3, TwiceAgrees, SelfAgrees
    <2>5. Framed(s)
      BY <1>17, <2>2, <2>4 DEF Framed, Touches
    <2> QED
      BY <2>1, <2>5 DEF Moves
  <1>18. CASE Op(s) = "request_refund" /\ CreateRefundRequest(s)
    <2>1. Raises(s) \/ Stops(s) \/ \E then \in Follows(s) : Goes(s, then)
      BY <1>0, <1>18, Onwards DEF CreateRefundRequest, Call, PassOver, RequestRefund, Attempt,
         Onward, Raises, Stops, Follows
    <2> DEFINE E(r) == RequestRefund(r)
    <2>2. /\ remote' \in {remote, E(remote), E(E(remote))}
          /\ UNCHANGED <<doc, log, queue, rows, tidy, claims, told>>
          /\ faults' \in {faults, faults + 1} /\ faults' <= MaxFaults
          /\ missed' \in {missed, missed \cup {Op(s)}} /\ (faults' = faults => missed' = missed)
      BY <1>0, <1>18 DEF CreateRefundRequest, Call, PassOver, Op, Attempt, Onward
    <2>3. Agree(remote, E(remote), {"requests"}) /\ Agree(E(remote), E(E(remote)), {"requests"})
      BY EffectsAgree
    <2>4. Agree(remote, remote', {"requests"})
      <3> HIDE DEF E
      <3> QED
        BY <2>2, <2>3, TwiceAgrees, SelfAgrees
    <2>5. Framed(s)
      BY <1>18, <2>2, <2>4 DEF Framed, Touches
    <2> QED
      BY <2>1, <2>5 DEF Moves
  <1>19. CASE Op(s) = "check_sent" /\ CheckAlreadySent(s)
    <2>1. Raises(s) \/ Stops(s) \/ \E then \in Follows(s) : Goes(s, then)
      BY <1>0, <1>19, Onwards DEF CheckAlreadySent, Call, PassOver, Same, Raises, Stops, Follows
    <2> DEFINE E(r) == Same(r)
    <2>2. /\ remote' \in {remote, E(remote), E(E(remote))}
          /\ UNCHANGED <<doc, log, queue, rows, tidy, claims, told>>
          /\ faults' \in {faults, faults + 1} /\ faults' <= MaxFaults
          /\ missed' \in {missed, missed \cup {Op(s)}} /\ (faults' = faults => missed' = missed)
      BY <1>0, <1>19 DEF CheckAlreadySent, Call, PassOver, Op
    <2>3. Agree(remote, E(remote), {}) /\ Agree(E(remote), E(E(remote)), {})
      BY EffectsAgree
    <2>4. Agree(remote, remote', {})
      <3> HIDE DEF E
      <3> QED
        BY <2>2, <2>3, TwiceAgrees, SelfAgrees
    <2>5. Framed(s)
      BY <1>19, <2>2, <2>4 DEF Framed, Touches
    <2> QED
      BY <2>1, <2>5 DEF Moves
  <1>20. CASE Op(s) = "note" /\ CreateCreditNote(s)
    <2>1. Raises(s) \/ Stops(s) \/ \E then \in Follows(s) : Goes(s, then)
      BY <1>0, <1>20, Onwards DEF CreateCreditNote, Call, PassOver, NumberedNote, Onward,
         Raises, Stops, Follows
    <2> DEFINE E(r) == NumberedNote(Arg(s, 2), r)
    <2>2. /\ remote' \in {remote, E(remote), E(E(remote))}
          /\ UNCHANGED <<doc, log, queue, rows, tidy, claims, told>>
          /\ faults' \in {faults, faults + 1} /\ faults' <= MaxFaults
          /\ missed' \in {missed, missed \cup {Op(s)}} /\ (faults' = faults => missed' = missed)
      BY <1>0, <1>20 DEF CreateCreditNote, Call, PassOver, Op, Onward
    <2>3. /\ Agree(remote, E(remote), {"note", "cash"})
          /\ Agree(E(remote), E(E(remote)), {"note", "cash"})
      BY EffectsAgree
    <2>4. Agree(remote, remote', {"note", "cash"})
      <3> HIDE DEF E
      <3> QED
        BY <2>2, <2>3, TwiceAgrees, SelfAgrees
    <2>5. Framed(s)
      BY <1>20, <2>2, <2>4 DEF Framed, Touches
    <2> QED
      BY <2>1, <2>5 DEF Moves
  <1>21. CASE Op(s) = "link_note" /\ LinkCreditNote(s)
    <2>1. Raises(s) \/ Stops(s) \/ \E then \in Follows(s) : Goes(s, then)
      BY <1>0, <1>21, Onwards DEF LinkCreditNote, Call, PassOver, LinkNote, Attempt, Onward,
         Raises, Stops, Follows
    <2> DEFINE E(r) == LinkNote(r)
    <2>2. /\ remote' \in {remote, E(remote), E(E(remote))}
          /\ UNCHANGED <<doc, log, queue, rows, tidy, claims, told>>
          /\ faults' \in {faults, faults + 1} /\ faults' <= MaxFaults
          /\ missed' \in {missed, missed \cup {Op(s)}} /\ (faults' = faults => missed' = missed)
      BY <1>0, <1>21 DEF LinkCreditNote, Call, PassOver, Op, Attempt, Onward
    <2>3. Agree(remote, E(remote), {"noted"}) /\ Agree(E(remote), E(E(remote)), {"noted"})
      BY EffectsAgree
    <2>4. Agree(remote, remote', {"noted"})
      <3> HIDE DEF E
      <3> QED
        BY <2>2, <2>3, TwiceAgrees, SelfAgrees
    <2>5. Framed(s)
      BY <1>21, <2>2, <2>4 DEF Framed, Touches
    <2> QED
      BY <2>1, <2>5 DEF Moves
  <1>22. CASE Op(s) = "loose_note" /\ CreateLooseCreditNote(s)
    <2>1. Raises(s) \/ Stops(s) \/ \E then \in Follows(s) : Goes(s, then)
      BY <1>0, <1>22, Onwards DEF CreateLooseCreditNote, Call, PassOver, LooseNote, Attempt,
         Onward, Raises, Stops, Follows
    <2> DEFINE E(r) == LooseNote(r)
    <2>2. /\ remote' \in {remote, E(remote), E(E(remote))}
          /\ UNCHANGED <<doc, log, queue, rows, tidy, claims, told>>
          /\ faults' \in {faults, faults + 1} /\ faults' <= MaxFaults
          /\ missed' \in {missed, missed \cup {Op(s)}} /\ (faults' = faults => missed' = missed)
      BY <1>0, <1>22 DEF CreateLooseCreditNote, Call, PassOver, Op, Attempt, Onward
    <2>3. Agree(remote, E(remote), {"loose"}) /\ Agree(E(remote), E(E(remote)), {"loose"})
      BY EffectsAgree
    <2>4. Agree(remote, remote', {"loose"})
      <3> HIDE DEF E
      <3> QED
        BY <2>2, <2>3, TwiceAgrees, SelfAgrees
    <2>5. Framed(s)
      BY <1>22, <2>2, <2>4 DEF Framed, Touches
    <2> QED
      BY <2>1, <2>5 DEF Moves
  <1>23. CASE Op(s) = "mark" /\ MarkRecipient(s)
    <2>1. Raises(s) \/ Stops(s) \/ \E then \in Follows(s) : Goes(s, then)
      BY <1>0, <1>23, Onwards DEF MarkRecipient, Call, PassOver, Raises, Stops, Follows
    <2> DEFINE E(r) == Mark(Arg(s, 2), r)
    <2>2. /\ remote' \in {remote, E(remote), E(E(remote))}
          /\ UNCHANGED <<doc, log, queue, rows, tidy, claims, told>>
          /\ faults' \in {faults, faults + 1} /\ faults' <= MaxFaults
          /\ missed' \in {missed, missed \cup {Op(s)}} /\ (faults' = faults => missed' = missed)
      BY <1>0, <1>23 DEF MarkRecipient, Call, PassOver, Op, Arg, Mark
    <2>3. Agree(remote, E(remote), {"marks"}) /\ Agree(E(remote), E(E(remote)), {"marks"})
      BY EffectsAgree
    <2>4. Agree(remote, remote', {"marks"})
      <3> HIDE DEF E
      <3> QED
        BY <2>2, <2>3, TwiceAgrees, SelfAgrees
    <2>5. Framed(s)
      BY <1>23, <2>2, <2>4 DEF Framed, Touches
    <2> QED
      BY <2>1, <2>5 DEF Moves
  <1>24. CASE Op(s) = "activate" /\ ActivateScheduledVoucher(s)
    <2>1. Raises(s) \/ Stops(s) \/ \E then \in Follows(s) : Goes(s, then)
      BY <1>0, <1>24, Onwards DEF ActivateScheduledVoucher, Call, PassOver, Activate, Raises,
         Stops, Follows
    <2> DEFINE E(r) == Activate(r)
    <2>2. /\ remote' \in {remote, E(remote), E(E(remote))}
          /\ UNCHANGED <<doc, log, queue, rows, tidy, claims, told>>
          /\ faults' \in {faults, faults + 1} /\ faults' <= MaxFaults
          /\ missed' \in {missed, missed \cup {Op(s)}} /\ (faults' = faults => missed' = missed)
      BY <1>0, <1>24 DEF ActivateScheduledVoucher, Call, PassOver, Op
    <2>3. Agree(remote, E(remote), {"status"}) /\ Agree(E(remote), E(E(remote)), {"status"})
      BY EffectsAgree
    <2>4. Agree(remote, remote', {"status"})
      <3> HIDE DEF E
      <3> QED
        BY <2>2, <2>3, TwiceAgrees, SelfAgrees
    <2>5. Framed(s)
      BY <1>24, <2>2, <2>4 DEF Framed, Touches
    <2> QED
      BY <2>1, <2>5 DEF Moves
  <1>25. CASE Op(s) = "send" /\ Send(s)
    <2> DEFINE m == Tail(Head(slot[s].todo))
               kept == IF m[2] = "email" THEN {} ELSE {RowOf(m)}
               noted == [After(s, <<>>) EXCEPT !.rows = @ \cup kept]
    <2>1. Becomes(s, noted) => Goes(s, <<>>)
      <3>1. noted \in [ev : {slot[s].ev}, todo : {<<>> \o Tail(slot[s].todo)}, got : {slot[s].got},
                       rows : {slot[s].rows \cup kept}]
        BY AfterIs, ZenonT(40)
      <3>2. RowOf(m) \in Templates
        BY <1>25, Working, StepIs, SaidRow DEF Op
      <3>3. slot[s].rows \cup kept \in SUBSET Templates
        BY <3>2, Working
      <3>4. slot[s].got \in BOOLEAN
        BY Working
      <3>5. /\ noted \in [ev : {slot[s].ev}, todo : {<<>> \o Tail(slot[s].todo)}, got : BOOLEAN,
                          rows : SUBSET Templates]
            /\ noted.got = slot[s].got /\ slot[s].rows \subseteq noted.rows
        BY <3>1, <3>3, <3>4
      <3> HIDE DEF noted
      <3> QED
        BY <1>25, <3>5 DEF Goes
    <2>2. /\ Becomes(s, After(s, <<>>)) => Goes(s, <<>>)
          /\ Becomes(s, After(s, Fallback(m))) => Goes(s, Fallback(m))
      BY Onwards
    <2>3. Follows(s) = {<<>>, Fallback(m)}
      BY <1>25 DEF Follows
    <2>4. Raises(s) \/ \E then \in Follows(s) : Goes(s, then)
      <3>1. \/ Becomes(s, After(s, <<>>)) \/ Becomes(s, noted) \/ Becomes(s, After(s, Fallback(m)))
            \/ Becomes(s, Idle) /\ faults' = faults + 1
        BY <1>25, Zenon DEF Send
      <3> QED
        BY <2>1, <2>2, <2>3, <3>1 DEF Raises
    <2>5. Framed(s)
      <3>1. /\ UNCHANGED <<doc, remote, log, queue, rows, tidy>>
            /\ faults' \in {faults, faults + 1} /\ faults' <= MaxFaults
            /\ missed' \in {missed, missed \cup {"send"}}
            /\ (faults' = faults => missed' = missed)
        BY <1>0, <1>25 DEF Send
      <3> QED
        BY <1>25, <3>1, SelfAgrees DEF Framed
    <2> QED
      BY <2>4, <2>5 DEF Moves
  <1> QED
    BY <1>1, <1>2, <1>3, <1>4, <1>5, <1>6, <1>7, <1>8, <1>9, <1>10, <1>11, <1>12, <1>13, <1>14,
       <1>15, <1>16, <1>17, <1>18, <1>19, <1>20, <1>21, <1>22, <1>23, <1>24, <1>25 DEF Does

-----------------------------------------------------------------------------
(* What is published, and that the events stay of these kinds.             *)

\* What ushbooknpay changes of a document, and what of a booking with which event.
Changes == {"status", "pay", "paid", "link", "due", "announced"}
Unconfirmed == {"requested", "pending"}
BookingNews(e) ==
    /\ remote'.status \in Statuses /\ remote'.pay \in PayStatuses
    /\ e.status = remote'.status
    /\ remote'.status \in Unconfirmed => remote.status \in Unconfirmed
    /\ remote'.link = "open" => remote.link = "open" \/ remote.status \in Unconfirmed
    /\ e.type = "cancelled" => remote'.status \notin Unconfirmed
    /\ IF e.type = "refund_approved" THEN Approvals = {} /\ e.method \in {"points", "money"}
       ELSE e.method = "none"
    /\ e.type \in {"refund_completed", "payment_refunded"} => "money" \in Approvals

\* An event of a booking.
LEMMA Happening ==
  ASSUME doc.kind = "booking", NEW type \in BookingTypes, NEW r, r.status \in Statuses,
         NEW pay \in PayStatuses, NEW proof \in {"flag", "word", "none"}, NEW full \in BOOLEAN,
         NEW method \in {"none", "points", "money"}, Emits(type, r, pay, proof, full, method)
  PROVE  \E e \in Event : /\ Publish(e)
                          /\ e.type = type /\ e.status = r.status /\ e.pay = pay
                          /\ e.proof = proof /\ e.full = full /\ e.method = method
  BY DEF Emits, Event, BookingEvent

\* What happens to a booking.
LEMMA BookingPublishes ==
  ASSUME Typed, BookingHappens
  PROVE  \E e \in Event : Publish(e) /\ Agree(remote, remote', Changes) /\ BookingNews(e)
  <1>0. /\ doc.kind = "booking" /\ DOMAIN remote = BookingFields
        /\ remote.status \in Statuses /\ remote.pay \in PayStatuses
        /\ doc.word \in PayStatuses /\ doc.proof \in {"flag", "word", "none"}
    BY PayloadAssumption DEF BookingHappens, Typed, Shaped, PayStatuses
  <1>1. CASE HoldForPayment
    <2> DEFINE r == [remote EXCEPT !.status = "pending", !.pay = "pending", !.link = "open"]
    <2>1. PICK full \in BOOLEAN : Happens("payment_pending", r, full, "none")
      BY <1>1 DEF HoldForPayment, Plainly
    <2>2. r.status \in Statuses /\ r.pay \in PayStatuses /\ Agree(remote, r, Changes)
          /\ (r.status \in Unconfirmed => remote.status \in Unconfirmed)
          /\ (r.link = "open" => remote.link = "open" \/ remote.status \in Unconfirmed)
      BY <1>0, <1>1 DEF HoldForPayment, Agree, Changes, PayStatuses, Statuses, Unconfirmed,
         CloseLinks
    <2>3. remote' = r
      BY <2>1 DEF Happens, Emits
    <2> HIDE DEF r
    <2>4. PICK e \in Event : Publish(e) /\ e.type = "payment_pending" /\ e.method = "none"
                             /\ e.status = r.status
      BY <1>0, <2>1, <2>2, Happening DEF Happens, BookingTypes
    <2> QED
      BY <2>2, <2>3, <2>4 DEF BookingNews
  <1>2. CASE ConfirmUnpaid
    <2> DEFINE r == [remote EXCEPT !.status = "confirmed", !.pay = "pending", !.link = "open"]
    <2>1. PICK full \in BOOLEAN : Happens("confirmed", r, full, "none")
      BY <1>2 DEF ConfirmUnpaid, Plainly
    <2>2. r.status \in Statuses /\ r.pay \in PayStatuses /\ Agree(remote, r, Changes)
          /\ (r.status \in Unconfirmed => remote.status \in Unconfirmed)
          /\ (r.link = "open" => remote.link = "open" \/ remote.status \in Unconfirmed)
      BY <1>0, <1>2 DEF ConfirmUnpaid, Agree, Changes, PayStatuses, Statuses, Unconfirmed,
         CloseLinks
    <2>3. remote' = r
      BY <2>1 DEF Happens, Emits
    <2> HIDE DEF r
    <2>4. PICK e \in Event : Publish(e) /\ e.type = "confirmed" /\ e.method = "none"
                             /\ e.status = r.status
      BY <1>0, <2>1, <2>2, Happening DEF Happens, BookingTypes
    <2> QED
      BY <2>2, <2>3, <2>4 DEF BookingNews
  <1>3. CASE ConfirmPaid
    <2> DEFINE r == [CloseLinks(remote) EXCEPT !.status = "confirmed", !.paid = TRUE,
                                          !.pay = IF Redemption THEN "rewarded" ELSE "success"]
    <2>1. PICK pay \in PayStatuses, full \in BOOLEAN :
              Emits("confirmed", r, pay, doc.proof, full, "none")
      BY <1>0, <1>3 DEF ConfirmPaid, PayStatuses
    <2>2. r.status \in Statuses /\ r.pay \in PayStatuses /\ Agree(remote, r, Changes)
          /\ (r.status \in Unconfirmed => remote.status \in Unconfirmed)
          /\ (r.link = "open" => remote.link = "open" \/ remote.status \in Unconfirmed)
      BY <1>0, <1>3 DEF ConfirmPaid, Agree, Changes, PayStatuses, Statuses, Unconfirmed,
         CloseLinks
    <2>3. remote' = r
      BY <2>1 DEF Emits
    <2> HIDE DEF r
    <2>4. PICK e \in Event : Publish(e) /\ e.type = "confirmed" /\ e.method = "none"
                             /\ e.status = r.status
      BY <1>0, <2>1, <2>2, Happening DEF BookingTypes
    <2> QED
      BY <2>2, <2>3, <2>4 DEF BookingNews
  <1>4. CASE PayLink
    <2> DEFINE r == [remote EXCEPT !.link = "used", !.paid = TRUE]
    <2>1. PICK full \in BOOLEAN : Happens("link_paid", r, full, "none")
      BY <1>4 DEF PayLink, Plainly
    <2>2. r.status \in Statuses /\ r.pay \in PayStatuses /\ Agree(remote, r, Changes)
          /\ (r.status \in Unconfirmed => remote.status \in Unconfirmed)
          /\ (r.link = "open" => remote.link = "open" \/ remote.status \in Unconfirmed)
      BY <1>0, <1>4 DEF PayLink, Agree, Changes, PayStatuses, Statuses, Unconfirmed, CloseLinks
    <2>3. remote' = r
      BY <2>1 DEF Happens, Emits
    <2> HIDE DEF r
    <2>4. PICK e \in Event : Publish(e) /\ e.type = "link_paid" /\ e.method = "none"
                             /\ e.status = r.status
      BY <1>0, <2>1, <2>2, Happening DEF Happens, BookingTypes
    <2> QED
      BY <2>2, <2>3, <2>4 DEF BookingNews
  <1>5. CASE MarkPaid
    <2> DEFINE r == [CloseLinks(remote) EXCEPT !.pay = "success", !.paid = TRUE]
    <2>1. PICK pay \in PayStatuses, full \in BOOLEAN :
              Emits("status_success", r, pay, doc.proof, full, "none")
      BY <1>0, <1>5 DEF MarkPaid, PayStatuses
    <2>2. r.status \in Statuses /\ r.pay \in PayStatuses /\ Agree(remote, r, Changes)
          /\ (r.status \in Unconfirmed => remote.status \in Unconfirmed)
          /\ (r.link = "open" => remote.link = "open" \/ remote.status \in Unconfirmed)
      BY <1>0, <1>5 DEF MarkPaid, Agree, Changes, PayStatuses, Statuses, Unconfirmed, CloseLinks
    <2>3. remote' = r
      BY <2>1 DEF Emits
    <2> HIDE DEF r
    <2>4. PICK e \in Event : Publish(e) /\ e.type = "status_success" /\ e.method = "none"
                             /\ e.status = r.status
      BY <1>0, <2>1, <2>2, Happening DEF BookingTypes
    <2> QED
      BY <2>2, <2>3, <2>4 DEF BookingNews
  <1>6. CASE ConfirmAgain
    <2> DEFINE r == [remote EXCEPT !.status = "confirmed"]
    <2>1. PICK pay \in PayStatuses, full \in BOOLEAN :
              Emits("confirmed", r, pay, doc.proof, full, "none")
      BY <1>0, <1>6 DEF ConfirmAgain, PayStatuses
    <2>2. r.status \in Statuses /\ r.pay \in PayStatuses /\ Agree(remote, r, Changes)
          /\ (r.status \in Unconfirmed => remote.status \in Unconfirmed)
          /\ (r.link = "open" => remote.link = "open" \/ remote.status \in Unconfirmed)
      BY <1>0, <1>6 DEF ConfirmAgain, Agree, Changes, PayStatuses, Statuses, Unconfirmed,
         CloseLinks
    <2>3. remote' = r
      BY <2>1 DEF Emits
    <2> HIDE DEF r
    <2>4. PICK e \in Event : Publish(e) /\ e.type = "confirmed" /\ e.method = "none"
                             /\ e.status = r.status
      BY <1>0, <2>1, <2>2, Happening DEF BookingTypes
    <2> QED
      BY <2>2, <2>3, <2>4 DEF BookingNews
  <1>7. CASE Receipt
    <2> DEFINE r == remote
    <2>1. PICK full \in BOOLEAN : Happens("payment_success", r, full, "none")
      BY <1>7 DEF Receipt, Plainly
    <2>2. r.status \in Statuses /\ r.pay \in PayStatuses /\ Agree(remote, r, Changes)
          /\ (r.status \in Unconfirmed => remote.status \in Unconfirmed)
          /\ (r.link = "open" => remote.link = "open" \/ remote.status \in Unconfirmed)
      BY <1>0, <1>7 DEF Receipt, Agree, Changes, PayStatuses, Statuses, Unconfirmed, CloseLinks
    <2>3. remote' = r
      BY <2>1 DEF Happens, Emits
    <2> HIDE DEF r
    <2>4. PICK e \in Event : Publish(e) /\ e.type = "payment_success" /\ e.method = "none"
                             /\ e.status = r.status
      BY <1>0, <2>1, <2>2, Happening DEF Happens, BookingTypes
    <2> QED
      BY <2>2, <2>3, <2>4 DEF BookingNews
  <1>8. CASE CheckIn
    <2> DEFINE r == [remote EXCEPT !.status = "checked_in"]
    <2>1. PICK full \in BOOLEAN : Happens("updated", r, full, "none")
      BY <1>8 DEF CheckIn, Plainly
    <2>2. r.status \in Statuses /\ r.pay \in PayStatuses /\ Agree(remote, r, Changes)
          /\ (r.status \in Unconfirmed => remote.status \in Unconfirmed)
          /\ (r.link = "open" => remote.link = "open" \/ remote.status \in Unconfirmed)
      BY <1>0, <1>8 DEF CheckIn, Agree, Changes, PayStatuses, Statuses, Unconfirmed, CloseLinks
    <2>3. remote' = r
      BY <2>1 DEF Happens, Emits
    <2> HIDE DEF r
    <2>4. PICK e \in Event : Publish(e) /\ e.type = "updated" /\ e.method = "none"
                             /\ e.status = r.status
      BY <1>0, <2>1, <2>2, Happening DEF Happens, BookingTypes
    <2> QED
      BY <2>2, <2>3, <2>4 DEF BookingNews
  <1>9. CASE Edit
    <2>1. PICK type \in {"updated", "rescheduled"}, full \in BOOLEAN :
              Happens(type, remote, full, "none")
      BY <1>9 DEF Edit, Plainly
    <2>2. PICK e \in Event : Publish(e) /\ e.type = type /\ e.method = "none"
                             /\ e.status = remote.status
      BY <1>0, <2>1, Happening DEF Happens, BookingTypes
    <2>3. remote' = remote
      BY <1>9, <2>1 DEF Happens, Emits
    <2> QED
      BY <1>0, <2>2, <2>3, SelfAgrees DEF BookingNews
  <1>10. CASE Complete
    <2> DEFINE r == [remote EXCEPT !.status = "completed"]
    <2>1. PICK full \in BOOLEAN : Happens("completed", r, full, "none")
      BY <1>10 DEF Complete, Plainly
    <2>2. r.status \in Statuses /\ r.pay \in PayStatuses /\ Agree(remote, r, Changes)
          /\ (r.status \in Unconfirmed => remote.status \in Unconfirmed)
          /\ (r.link = "open" => remote.link = "open" \/ remote.status \in Unconfirmed)
      BY <1>0, <1>10 DEF Complete, Agree, Changes, PayStatuses, Statuses, Unconfirmed,
         CloseLinks
    <2>3. remote' = r
      BY <2>1 DEF Happens, Emits
    <2> HIDE DEF r
    <2>4. PICK e \in Event : Publish(e) /\ e.type = "completed" /\ e.method = "none"
                             /\ e.status = r.status
      BY <1>0, <2>1, <2>2, Happening DEF Happens, BookingTypes
    <2> QED
      BY <2>2, <2>3, <2>4 DEF BookingNews
  <1>11. CASE NoShow
    <2> DEFINE r == [remote EXCEPT !.status = "no_show"]
    <2>1. PICK full \in BOOLEAN : Happens("no_show", r, full, "none")
      BY <1>11 DEF NoShow, Plainly
    <2>2. r.status \in Statuses /\ r.pay \in PayStatuses /\ Agree(remote, r, Changes)
          /\ (r.status \in Unconfirmed => remote.status \in Unconfirmed)
          /\ (r.link = "open" => remote.link = "open" \/ remote.status \in Unconfirmed)
      BY <1>0, <1>11 DEF NoShow, Agree, Changes, PayStatuses, Statuses, Unconfirmed, CloseLinks
    <2>3. remote' = r
      BY <2>1 DEF Happens, Emits
    <2> HIDE DEF r
    <2>4. PICK e \in Event : Publish(e) /\ e.type = "no_show" /\ e.method = "none"
                             /\ e.status = r.status
      BY <1>0, <2>1, <2>2, Happening DEF Happens, BookingTypes
    <2> QED
      BY <2>2, <2>3, <2>4 DEF BookingNews
  <1>12. CASE AskReschedule
    <2> DEFINE r == remote
    <2>1. PICK full \in BOOLEAN : Happens("reschedule_requested", r, full, "none")
      BY <1>12 DEF AskReschedule, Plainly
    <2>2. r.status \in Statuses /\ r.pay \in PayStatuses /\ Agree(remote, r, Changes)
          /\ (r.status \in Unconfirmed => remote.status \in Unconfirmed)
          /\ (r.link = "open" => remote.link = "open" \/ remote.status \in Unconfirmed)
      BY <1>0, <1>12 DEF AskReschedule, Agree, Changes, PayStatuses, Statuses, Unconfirmed,
         CloseLinks
    <2>3. remote' = r
      BY <2>1 DEF Happens, Emits
    <2> HIDE DEF r
    <2>4. PICK e \in Event : Publish(e) /\ e.type = "reschedule_requested" /\ e.method = "none"
                             /\ e.status = r.status
      BY <1>0, <2>1, <2>2, Happening DEF Happens, BookingTypes
    <2> QED
      BY <2>2, <2>3, <2>4 DEF BookingNews
  <1>13. CASE Cancel
    <2>1. PICK pay \in {remote.pay, "refund_requested"}, full \in BOOLEAN :
              /\ remote.status \notin {"requested"}
              /\ Happens("cancelled", [remote EXCEPT !.status = "cancelled", !.pay = pay], full, "none")
      BY <1>13 DEF Cancel
    <2> DEFINE r == [remote EXCEPT !.status = "cancelled", !.pay = pay]
    <2>2. r.status = "cancelled" /\ r.pay \in PayStatuses /\ r.link = remote.link
          /\ Agree(remote, r, Changes)
      BY <1>0 DEF Agree, Changes, PayStatuses
    <2>3. PICK e \in Event : Publish(e) /\ e.type = "cancelled" /\ e.method = "none"
                                       /\ e.status = r.status
      <3>1. Happens("cancelled", r, full, "none") /\ r.status \in Statuses
        BY <2>1, <2>2 DEF Statuses
      <3> HIDE DEF r
      <3>2. Emits("cancelled", r, r.pay, "none", full, "none") /\ r.pay \in PayStatuses
        BY <2>2, <3>1 DEF Happens
      <3>3. "cancelled" \in BookingTypes /\ r.status \in Statuses
        BY <3>1 DEF BookingTypes
      <3> QED
        BY <1>0, <3>2, <3>3, Happening
    <2>4. remote' = r
      BY <2>1 DEF Happens, Emits
    <2> HIDE DEF r
    <2> QED
      BY <2>2, <2>3, <2>4 DEF BookingNews, Unconfirmed, Statuses
  <1>14. CASE ApproveRefund
    <2>1. PICK method \in {"points", "money"}, full \in BOOLEAN :
              Happens("refund_approved", remote, full, method)
      BY <1>14 DEF ApproveRefund
    <2>2. PICK e \in Event : Publish(e) /\ e.type = "refund_approved" /\ e.method = method
                                       /\ e.status = remote.status
      BY <1>0, <2>1, Happening DEF Happens, BookingTypes
    <2>3. remote' = remote /\ Approvals = {}
      BY <1>14, <2>1 DEF Happens, Emits, ApproveRefund
    <2> QED
      BY <1>0, <2>2, <2>3, SelfAgrees DEF BookingNews
  <1>15. CASE CompleteRefund
    <2>1. PICK type \in {"refund_completed", "payment_refunded"}, full \in BOOLEAN :
              Happens(type, remote, full, "none")
      BY <1>15 DEF CompleteRefund, Plainly
    <2>2. PICK e \in Event : Publish(e) /\ e.type = type /\ e.method = "none"
                             /\ e.status = remote.status
      BY <1>0, <2>1, Happening DEF Happens, BookingTypes
    <2>3. remote' = remote /\ "money" \in Approvals
      BY <1>15, <2>1 DEF Happens, Emits, CompleteRefund
    <2> QED
      BY <1>0, <2>2, <2>3, SelfAgrees DEF BookingNews
  <1> QED
    BY <1>1, <1>2, <1>3, <1>4, <1>5, <1>6, <1>7, <1>8, <1>9, <1>10, <1>11, <1>12, <1>13, <1>14,
       <1>15 DEF BookingHappens

\* An event of a sale.
LEMMA SaleTells ==
  ASSUME doc.kind \in Sold, NEW kind, NEW type, NEW r, r.status \in SaleStatuses,
         NEW pay \in {"success", "pending"}, Sells(kind, type, r, pay),
         \/ kind = "voucher" /\ type \in VoucherTypes
         \/ kind = "order" /\ type = "order_created"
         \/ kind = "gift" /\ type \in GiftTypes
  PROVE  /\ doc.kind = kind /\ remote' = r
         /\ \E e \in Event : /\ Publish(e)
                             /\ e = [type |-> type, status |-> r.status, pay |-> pay]
  BY DEF Sells, Event, SaleEvent

\* What becomes of a sale; of an order, whether it is paid.
SaleNews(e) ==
    /\ remote'.status \in SaleStatuses
    /\ doc.kind = "order" =>
           /\ remote.status = "new" /\ remote'.status # "new"
           /\ remote'.paid <=> remote.paid \/ e.pay = "success"
LEMMA SalePublishes ==
  ASSUME Typed, SaleHappens
  PROVE  \E e \in Event : Publish(e) /\ Agree(remote, remote', Changes) /\ SaleNews(e)
  <1>0. doc.kind \in Sold /\ DOMAIN remote = SaleFields /\ remote.status \in SaleStatuses
    BY DEF SaleHappens, Typed, Shaped
  <1>1. CASE HoldVoucher
    <2> DEFINE r == [remote EXCEPT !.status = "pending"]
    <2>1. Sells("voucher", "voucher_payment_pending", r, "pending")
      BY <1>1 DEF HoldVoucher
    <2>2. r.status \in SaleStatuses /\ Agree(remote, r, Changes)
      BY <1>0 DEF Agree, Changes, SaleStatuses
    <2> HIDE DEF r
    <2>3. doc.kind = "voucher" /\ remote' = r /\ \E e \in Event : Publish(e)
      BY <1>0, <2>1, <2>2, SaleTells DEF VoucherTypes, GiftTypes
    <2> QED
      BY <2>2, <2>3 DEF SaleNews
  <1>2. CASE BuyVoucher
    <2> DEFINE r == [remote EXCEPT !.status = "active", !.paid = TRUE, !.announced = TRUE]
    <2>1. Sells("voucher", "voucher_active", r, "success")
      BY <1>2 DEF BuyVoucher
    <2>2. r.status \in SaleStatuses /\ Agree(remote, r, Changes)
      BY <1>0 DEF Agree, Changes, SaleStatuses
    <2> HIDE DEF r
    <2>3. doc.kind = "voucher" /\ remote' = r /\ \E e \in Event : Publish(e)
      BY <1>0, <2>1, <2>2, SaleTells DEF VoucherTypes, GiftTypes
    <2> QED
      BY <2>2, <2>3 DEF SaleNews
  <1>3. CASE ScheduleVoucher
    <2> DEFINE r == [remote EXCEPT !.status = "scheduled", !.paid = TRUE]
    <2>1. Sells("voucher", "voucher_scheduled", r, "success")
      BY <1>3 DEF ScheduleVoucher
    <2>2. r.status \in SaleStatuses /\ Agree(remote, r, Changes)
      BY <1>0 DEF Agree, Changes, SaleStatuses
    <2> HIDE DEF r
    <2>3. doc.kind = "voucher" /\ remote' = r /\ \E e \in Event : Publish(e)
      BY <1>0, <2>1, <2>2, SaleTells DEF VoucherTypes, GiftTypes
    <2> QED
      BY <2>2, <2>3 DEF SaleNews
  <1>4. CASE FallDue
    <2> DEFINE r == [remote EXCEPT !.due = TRUE]
    <2>1. Sells("voucher", "voucher_delivery_due", r, "success")
      BY <1>4 DEF FallDue
    <2>2. r.status \in SaleStatuses /\ Agree(remote, r, Changes)
      BY <1>0 DEF Agree, Changes, SaleStatuses
    <2> HIDE DEF r
    <2>3. doc.kind = "voucher" /\ remote' = r /\ \E e \in Event : Publish(e)
      BY <1>0, <2>1, <2>2, SaleTells DEF VoucherTypes, GiftTypes
    <2> QED
      BY <2>2, <2>3 DEF SaleNews
  <1>5. CASE AnnounceActivation
    <2> DEFINE r == [remote EXCEPT !.announced = TRUE]
    <2>1. Sells("voucher", "voucher_active", r, "success")
      BY <1>5 DEF AnnounceActivation
    <2>2. r.status \in SaleStatuses /\ Agree(remote, r, Changes)
      BY <1>0 DEF Agree, Changes, SaleStatuses
    <2> HIDE DEF r
    <2>3. doc.kind = "voucher" /\ remote' = r /\ \E e \in Event : Publish(e)
      BY <1>0, <2>1, <2>2, SaleTells DEF VoucherTypes, GiftTypes
    <2> QED
      BY <2>2, <2>3 DEF SaleNews
  <1>6. CASE RedeemVoucher
    <2> DEFINE r == [remote EXCEPT !.status = "redeemed"]
    <2>1. Sells("voucher", "voucher_redeemed", r, "success")
      BY <1>6 DEF RedeemVoucher
    <2>2. r.status \in SaleStatuses /\ Agree(remote, r, Changes)
      BY <1>0 DEF Agree, Changes, SaleStatuses
    <2> HIDE DEF r
    <2>3. doc.kind = "voucher" /\ remote' = r /\ \E e \in Event : Publish(e)
      BY <1>0, <2>1, <2>2, SaleTells DEF VoucherTypes, GiftTypes
    <2> QED
      BY <2>2, <2>3 DEF SaleNews
  <1>7. CASE BuyGift
    <2> DEFINE r == [remote EXCEPT !.status = "bought", !.paid = TRUE]
    <2>1. Sells("gift", "gift_purchase_completed", r, "success")
      BY <1>7 DEF BuyGift
    <2>2. r.status \in SaleStatuses /\ Agree(remote, r, Changes)
      BY <1>0 DEF Agree, Changes, SaleStatuses
    <2> HIDE DEF r
    <2>3. doc.kind = "gift" /\ remote' = r /\ \E e \in Event : Publish(e)
      BY <1>0, <2>1, <2>2, SaleTells DEF VoucherTypes, GiftTypes
    <2> QED
      BY <2>2, <2>3 DEF SaleNews
  <1>8. CASE DeliverGift
    <2> DEFINE r == [remote EXCEPT !.status = "delivered"]
    <2>1. Sells("gift", "gift_delivered", r, "success")
      BY <1>8 DEF DeliverGift
    <2>2. r.status \in SaleStatuses /\ Agree(remote, r, Changes)
      BY <1>0 DEF Agree, Changes, SaleStatuses
    <2> HIDE DEF r
    <2>3. doc.kind = "gift" /\ remote' = r /\ \E e \in Event : Publish(e)
      BY <1>0, <2>1, <2>2, SaleTells DEF VoucherTypes, GiftTypes
    <2> QED
      BY <2>2, <2>3 DEF SaleNews
  <1>9. CASE ClaimGift
    <2> DEFINE r == [remote EXCEPT !.status = "claimed"]
    <2>1. Sells("gift", "gift_claimed", r, "success")
      BY <1>9 DEF ClaimGift
    <2>2. r.status \in SaleStatuses /\ Agree(remote, r, Changes)
      BY <1>0 DEF Agree, Changes, SaleStatuses
    <2> HIDE DEF r
    <2>3. doc.kind = "gift" /\ remote' = r /\ \E e \in Event : Publish(e)
      BY <1>0, <2>1, <2>2, SaleTells DEF VoucherTypes, GiftTypes
    <2> QED
      BY <2>2, <2>3 DEF SaleNews
  <1>10. CASE UseGift
    <2> DEFINE r == [remote EXCEPT !.status = "used"]
    <2>1. Sells("gift", "gift_redeemed", r, "success")
      BY <1>10 DEF UseGift
    <2>2. r.status \in SaleStatuses /\ Agree(remote, r, Changes)
      BY <1>0 DEF Agree, Changes, SaleStatuses
    <2> HIDE DEF r
    <2>3. doc.kind = "gift" /\ remote' = r /\ \E e \in Event : Publish(e)
      BY <1>0, <2>1, <2>2, SaleTells DEF VoucherTypes, GiftTypes
    <2> QED
      BY <2>2, <2>3 DEF SaleNews
  <1>11. CASE Republish
    <2>1. PICK kind \in {"voucher", "gift"} :
              Sells(kind, IF kind = "voucher" THEN "voucher_active" ELSE "gift_purchase_completed",
                    remote, "success")
      BY <1>11 DEF Republish
    <2>2. doc.kind = kind /\ remote' = remote /\ \E e \in Event : Publish(e)
      BY <1>0, <2>1, SaleTells DEF VoucherTypes, GiftTypes
    <2> QED
      BY <1>0, <2>2, SelfAgrees DEF SaleNews
  <1>12. CASE PlaceOrder
    <2>1. PICK pay \in {"success", "pending"} :
              Sells("order", "order_created",
                    [remote EXCEPT !.status = "placed", !.paid = @ \/ pay = "success"], pay)
      BY <1>12 DEF PlaceOrder
    <2> DEFINE r == [remote EXCEPT !.status = "placed", !.paid = @ \/ pay = "success"]
    <2>2. /\ r.status \in SaleStatuses /\ r.status # "new" /\ Agree(remote, r, Changes)
          /\ r.paid <=> remote.paid \/ pay = "success"
      BY <1>0 DEF Agree, Changes, SaleStatuses
    <2> HIDE DEF r
    <2>3. Sells("order", "order_created", r, pay)
      BY <2>1 DEF r
    <2>4. remote' = r /\ \E e \in Event : Publish(e) /\ e.pay = pay
      BY <1>0, <2>2, <2>3, SaleTells
    <2>5. remote.status = "new"
      BY <1>12 DEF PlaceOrder
    <2> QED
      BY <2>2, <2>4, <2>5 DEF SaleNews
  <1> QED
    BY <1>1, <1>2, <1>3, <1>4, <1>5, <1>6, <1>7, <1>8, <1>9, <1>10, <1>11, <1>12 DEF SaleHappens

\* What is wanted said about an account.
LEMMA NoticePublishes ==
  ASSUME Typed, NoticeHappens
  PROVE  doc.kind = "account" /\ \E e \in Event : Publish(e) /\ UNCHANGED remote
  <1>1. \A type \in Notices \cup {"sms_send"}, text \in BOOLEAN,
           to \in {<<"customer">>, <<"customer", "other", "customer">>} :
            [type |-> type, text |-> text, to |-> to] \in SomeNotice
    BY DEF SomeNotice
  <1>2. PICK type \in Notices \cup {"sms_send"}, text \in BOOLEAN,
             to \in {<<"customer">>, <<"customer", "other", "customer">>} : Says(type, text, to)
    BY DEF NoticeHappens, AskForNotice, AskForSMS
  <1>3. doc.kind = "account" /\ UNCHANGED remote
        /\ Publish([type |-> type, text |-> text, to |-> to])
    BY <1>2 DEF Says
  <1> QED
    BY <1>1, <1>3 DEF Event

\* Whatever is published.
LEMMA HappenPublishes ==
  ASSUME Typed, Happen
  PROVE  \E e \in Event : /\ Publish(e)
                          /\ Agree(remote, remote', Changes)
                          /\ doc.kind = "booking" => BookingNews(e)
                          /\ doc.kind \in Sold => SaleNews(e)
  <1>1. CASE BookingHappens
    <2>1. doc.kind = "booking"
      BY <1>1 DEF BookingHappens
    <2> QED
      BY <1>1, <2>1, BookingPublishes
  <1>2. CASE SaleHappens
    <2>1. doc.kind \in Sold
      BY <1>2 DEF SaleHappens
    <2> QED
      BY <1>2, <2>1, SalePublishes
  <1>3. CASE NoticeHappens
    BY <1>3, NoticePublishes, SelfAgrees
  <1> QED
    BY <1>1, <1>2, <1>3 DEF Happen

-----------------------------------------------------------------------------
(* The invariant that all others rest on.                                  *)

\* What an operation puts before the other steps is allowed too.
LEMMA FollowsAllowed ==
  ASSUME Typed, Apart, NEW s \in Slot, slot[s].todo # <<>>, NEW then \in Follows(s)
  PROVE  then \in Seq(Allowed(Ev(s)))
  <1> DEFINE e == Ev(s)
             q == Head(slot[s].todo)
  <1>1. q \in Allowed(e) /\ e \in Event /\ q[1] = Op(s) /\ Op(s) \in Ops(e)
    BY Working, StepIs DEF Op
  <1>2. ASSUME NEW op \in Plain, then \in {<<>>, << <<op>> >>}, op \in Ops(e)
        PROVE  then \in Seq(Allowed(e))
    BY <1>2, OneStep, Lists
  <1>3. CASE Op(s) \in {"partner", "invoice", "link_payments"}
    <2>1. Invoicing \subseteq Ops(e)
      BY <1>1, <1>3 DEF Ops
    <2>2. \E op \in Invoicing : then \in {<<>>, << <<op>> >>}
      BY <1>3 DEF Follows
    <2> QED
      BY <1>2, <2>1, <2>2, PlainOps
  <1>4. CASE Op(s) = "drop_row"
    <2>1. then = <<>> \/ (then = << <<"mark_row">> >> /\ "mark_row" \in Ops(e))
      BY <1>1, <1>4 DEF Follows, Ops
    <2> QED
      BY <1>2, <2>1, PlainOps, Lists
  <1>5. CASE Op(s) = "fetch"
    <2>1. then = <<>> \/ (then = << <<"partner">> >> /\ "partner" \in Ops(e))
      BY <1>1, <1>5 DEF Follows, Ops, Charges, Delegating
    <2> QED
      BY <1>2, <2>1, PlainOps, Lists
  <1>6. CASE Op(s) = "note"
    <2>1. "link_note" \in Ops(e) /\ then \in {<<>>, << <<"link_note">> >>}
      BY <1>1, <1>6 DEF Follows, Ops
    <2> QED
      BY <1>2, <2>1, PlainOps
  <1>7. CASE Op(s) = "check_sent"
    <2>1. "send" \in Ops(e) /\ Saying(e) = "confirmed"
      BY <1>1, <1>7 DEF Ops, Saying
    <2>2. PhoneSteps("confirmed") \in Seq(Allowed(e)) /\ EmailSteps("confirmed") \in Seq(Allowed(e))
      BY <2>1, MessagesAllowed DEF Templates, Trusting
    <2>3. ConfirmationSteps \in Seq(Allowed(e))
      BY <2>2, Lists, Zenon DEF ConfirmationSteps
    <2> QED
      BY <1>7, <2>3, Lists DEF Follows
  <1>8. CASE Op(s) = "send"
    <2>1. then \in {<<>>, Fallback(Tail(q))}
      BY <1>8 DEF Follows
    <2>2. Fallback(Tail(q)) \in Seq(Allowed(e))
      BY <1>1, <1>8, SaidRow
    <2> QED
      BY <2>1, <2>2, Lists, Zenon
  <1>9. CASE Op(s) \notin {"partner", "invoice", "link_payments", "drop_row", "fetch", "note",
                           "check_sent", "send"}
    BY <1>9, Lists DEF Follows
  <1> QED
    BY <1>3, <1>4, <1>5, <1>6, <1>7, <1>8, <1>9

\* The steps left to do are allowed.
LEMMA GoesAllowed ==
  ASSUME Typed, Apart, NEW s \in Slot, slot[s].todo # <<>>, NEW then \in Follows(s)
  PROVE  /\ then \in Seq(Allowed(Ev(s))) /\ Tail(slot[s].todo) \in Seq(Allowed(Ev(s)))
         /\ then \o Tail(slot[s].todo) \in Seq(Allowed(Ev(s)))
         /\ then \o Tail(slot[s].todo) \in Plan[Ev(s)]
         /\ then \o Tail(slot[s].todo) \in Seq(AnyStep)
  <1>1. /\ then \in Seq(Allowed(Ev(s))) /\ Tail(slot[s].todo) \in Seq(Allowed(Ev(s)))
        /\ then \o Tail(slot[s].todo) \in Seq(Allowed(Ev(s)))
    BY FollowsAllowed, Working, Lists
  <1>2. then \o Tail(slot[s].todo) \in Seq(AnyStep)
    <2>1. Allowed(Ev(s)) \subseteq AnyStep
      BY DEF Allowed
    <2> QED
      BY <1>1, <2>1, SeqMonotonic
  <1>3. then \o Tail(slot[s].todo) \in Plan[Ev(s)]
    BY <1>1, Working DEF Plan
  <1> QED
    BY <1>1, <1>2, <1>3

\* How a slot step changes the slots: one of them becomes another hand.
SlotForm(s, l) ==
    /\ slot' = [slot EXCEPT ![s] = l]
    /\ l \in Hand(AnyStep)
    /\ \/ l = Idle
       \/ /\ l.ev \in queue /\ l.ev \in queue'
          /\ l.todo \in Plan[log[l.ev]]
          /\ l.ev = slot[s].ev \/ l.ev \notin InHand
    /\ log' = log /\ queue' \subseteq queue /\ queue \ queue' \subseteq {slot[s].ev}
    /\ slot[s].ev \in queue \ queue' => l = Idle

\* Every step of a slot is one.
LEMMA SlotForms ==
  ASSUME Typed, Apart, NEW s \in Slot, Step(s)
  PROVE  \E l : SlotForm(s, l)
  <1>0. slot \in [Slot -> Hand(AnyStep)] /\ slot[s] \in Hand(AnyStep) /\ doc.kind \in Kinds
    BY DEF Typed, Shaped
  <1>1. Idle \in Hand(AnyStep)
    BY EmptySeq DEF Idle, Hand
  <1>2. CASE End(s) \/ Crash(s)
    <2>1. SlotForm(s, Idle)
      BY <1>1, <1>2 DEF End, Crash, SlotForm, Becomes
    <2> QED
      BY <2>1
  <1>3. ASSUME NEW n \in queue, Starts(s, n) PROVE \E l : SlotForm(s, l)
    <2> DEFINE l == [Idle EXCEPT !.ev = n, !.todo = Steps(log[n])]
    <2>1. n \in DOMAIN log /\ log[n] \in Event /\ n \in Nat
      <3>1. n \in DOMAIN log /\ log \in Seq(Event)
        BY DEF Typed
      <3> QED
        BY <3>1, ElementOfSeq, LenProperties
    <2>2. Steps(log[n]) \in Seq(Allowed(log[n])) /\ Steps(log[n]) \in Plan[log[n]]
      BY <1>0, <2>1, StepsAllowed DEF Plan
    <2>3. Steps(log[n]) \in Seq(AnyStep)
      <3>1. Allowed(log[n]) \subseteq AnyStep
        BY DEF Allowed
      <3> QED
        BY <2>2, <3>1, SeqMonotonic
    <2>4. l \in Hand(AnyStep) /\ l.ev = n /\ l.todo = Steps(log[n])
      BY <2>1, <2>3 DEF Idle, Hand
    <2> HIDE DEF l
    <2>5. slot' = [slot EXCEPT ![s] = l] /\ n \notin InHand /\ UNCHANGED <<log, queue>>
      BY <1>3 DEF Starts, Becomes, l
    <2>6. SlotForm(s, l)
      <3>1. slot[s].ev \notin queue \ queue'
        BY <2>5
      <3> QED
        BY <2>2, <2>4, <2>5, <3>1 DEF SlotForm
    <2> QED
      BY <2>6
  <1>4. CASE slot[s].todo # <<>> /\ Does(s)
    <2>1. Moves(s)
      BY <1>4, OperationMoves
    <2>2. UNCHANGED <<log, queue>>
      BY <2>1 DEF Moves, Framed
    <2>3. CASE Raises(s)
      <3>1. SlotForm(s, Idle)
        BY <1>1, <2>2, <2>3 DEF SlotForm, Raises, Becomes
      <3> QED
        BY <3>1
    <2>4. CASE Stops(s)
      <3> DEFINE l == [slot[s] EXCEPT !.todo = <<>>]
      <3>1. l \in Hand(AnyStep) /\ l.ev = slot[s].ev /\ l.todo = <<>>
        BY <1>0, EmptySeq DEF Hand
      <3>2. l.todo \in Plan[Ev(s)] /\ slot[s].ev \in queue
        BY <1>4, <3>1, Working, EmptySeq DEF Plan
      <3>3. slot' = [slot EXCEPT ![s] = l]
        BY <2>4 DEF Stops, Becomes
      <3> HIDE DEF l
      <3>4. SlotForm(s, l)
        BY <2>2, <3>1, <3>2, <3>3 DEF SlotForm, Ev
      <3> QED
        BY <3>4
    <2>5. ASSUME NEW then \in Follows(s), Goes(s, then) PROVE \E l : SlotForm(s, l)
      <3>1. PICK l \in [ev : {slot[s].ev}, todo : {then \o Tail(slot[s].todo)}, got : BOOLEAN,
                        rows : SUBSET Templates] : Becomes(s, l)
        BY <2>5 DEF Goes
      <3>2. l.ev = slot[s].ev /\ l.todo = then \o Tail(slot[s].todo)
        OBVIOUS
      <3>3. l.todo \in Plan[Ev(s)] /\ l.todo \in Seq(AnyStep)
        BY <1>4, <3>2, GoesAllowed
      <3>4. slot[s].ev \in queue /\ slot[s].ev \in Nat
        BY <1>0, <1>4, Working DEF Hand
      <3>5. l.ev = slot[s].ev /\ slot[s].ev \in queue /\ slot[s].ev \in Nat
            /\ l.todo \in Plan[Ev(s)] /\ l.todo \in Seq(AnyStep)
        BY <3>2, <3>3, <3>4
      <3>6. l \in Hand(AnyStep)
        BY <3>5 DEF Hand
      <3>7. SlotForm(s, l)
        BY <2>2, <3>1, <3>5, <3>6 DEF SlotForm, Becomes, Ev
      <3> QED
        BY <3>7
    <2> QED
      BY <2>1, <2>3, <2>4, <2>5 DEF Moves
  <1> QED
    BY <1>0, <1>2, <1>3, <1>4, StepCases

\* It keeps the slots in order.
LEMMA SlotStepApart ==
  ASSUME Typed, Apart, NEW s \in Slot, Step(s), doc' = doc
  PROVE  Apart' /\ slot' \in [Slot -> Hand(AnyStep)] /\ log' = log /\ queue' \subseteq queue
  <1>1. PICK l : SlotForm(s, l)
    BY SlotForms
  <1>2. Plan' = Plan
    BY DEF Plan, Event, Allowed, Ops, Pays, Charges, Credits, Announces, Earns,
       GiftVoucher, Redemption
  <1>3. slot \in [Slot -> Hand(AnyStep)]
    BY DEF Typed
  <1>4. slot' \in [Slot -> Hand(AnyStep)] /\ log' = log /\ queue' \subseteq queue
        /\ slot'[s] = l /\ \A t \in Slot \ {s} : slot'[t] = slot[t]
    BY <1>1, <1>3 DEF SlotForm
  <1>5. ASSUME NEW t \in Slot
        PROVE  \/ slot'[t] = Idle
               \/ slot'[t].ev \in queue' /\ slot'[t].todo \in Plan'[log'[slot'[t].ev]]
    <2>1. CASE t = s
      BY <1>1, <1>2, <1>4, <2>1 DEF SlotForm
    <2>2. CASE t # s
      <3>1. slot'[t] = slot[t]
        BY <1>4, <2>2
      <3>2. CASE slot[t] = Idle
        BY <3>1, <3>2
      <3>3. CASE slot[t] # Idle
        <4>1. slot[t].ev \in queue /\ slot[t].todo \in Plan[log[slot[t].ev]]
          BY <3>3 DEF Apart
        <4>2. slot[t].ev # 0
          BY <4>1 DEF Typed
        <4>3. slot[t].ev # slot[s].ev
          BY <2>2, <4>2 DEF Apart
        <4>4. slot[t].ev \in queue'
          BY <1>1, <4>1, <4>3 DEF SlotForm
        <4> QED
          BY <1>2, <1>4, <3>1, <4>1, <4>4
      <3> QED
        BY <3>2, <3>3
    <2> QED
      BY <2>1, <2>2
  <1>6. ASSUME NEW t \in Slot, NEW u \in Slot, slot'[t].ev = slot'[u].ev, slot'[t].ev # 0
        PROVE  t = u
    <2>1. ASSUME NEW v \in Slot \ {s}, slot[v].ev = l.ev, l.ev # 0 PROVE FALSE
      <3>1. l # Idle
        BY <2>1 DEF Idle
      <3>2. l.ev = slot[s].ev \/ l.ev \notin InHand
        BY <1>1, <3>1 DEF SlotForm
      <3>3. l.ev \in InHand
        BY <2>1 DEF InHand
      <3>4. slot[v].ev = slot[s].ev
        BY <2>1, <3>2, <3>3
      <3> QED
        BY <2>1, <3>4 DEF Apart
    <2>2. CASE t # s /\ u # s
      BY <1>4, <1>6, <2>2 DEF Apart
    <2> QED
      BY <1>4, <1>6, <2>1, <2>2
  <1> QED
    BY <1>4, <1>5, <1>6 DEF Apart

\* At the start.
LEMMA CommonInit == Init => Common
  <1> SUFFICES ASSUME Init PROVE Common
    OBVIOUS
  <1>1. doc \in Documents /\ doc.kind \in Kinds
    BY DocumentsAssumption DEF Init
  <1>2. /\ log = <<>> /\ queue = {} /\ slot = [s \in Slot |-> Idle] /\ rows = {} /\ faults = 0
        /\ missed = {} /\ tidy = TRUE /\ told = EmptyBag
    BY DEF Init, InitDelivery
  <1>3. /\ DOMAIN remote = Fields /\ remote.payments = 0 /\ remote.linked = 0
        /\ remote.invoices = 0
        /\ doc.kind = "booking" => remote.status \in Statuses /\ remote.pay \in PayStatuses
        /\ doc.kind \in Sold => remote.status \in SaleStatuses
    <2>1. CASE doc.kind \in Sold
      BY <2>1 DEF Init, NewSale, SaleStatuses
    <2>2. CASE doc.kind = "account"
      BY <2>2 DEF Init, NewAccount
    <2>3. CASE doc.kind = "booking"
      BY <2>3 DEF Init, CancelledBooking, NewBooking, Statuses, PayStatuses
    <2> QED
      BY <1>1, <2>1, <2>2, <2>3
  <1>4. log \in Seq(Event) /\ Idle \in Hand(AnyStep)
    BY <1>2, EmptySeq DEF Idle, Hand
  <1>5. Typed
    BY <1>1, <1>2, <1>3, <1>4, FaultsAssumption DEF Typed, Shaped
  <1>6. Apart
    BY <1>2 DEF Apart, Idle
  <1>7. Counted
    BY <1>2 DEF Counted, EmptyBag, SetToBag
  <1> QED
    BY <1>5, <1>6, <1>7 DEF Common

\* A published event leaves the slots as they are.
LEMMA PublishApart ==
  ASSUME Typed, Apart, doc' = doc, NEW e \in Event, Publish(e)
  PROVE  /\ Apart'
         /\ log' \in Seq(Event) /\ Len(log') = Len(log) + 1 /\ log'[Len(log')] = e
         /\ \A n \in DOMAIN log : n \in DOMAIN log' /\ log'[n] = log[n] /\ n <= Len(log)
         /\ DOMAIN log' = DOMAIN log \cup {Len(log) + 1} /\ Len(log) + 1 \notin DOMAIN log
         /\ queue' = queue \cup {Len(log) + 1} /\ queue' \subseteq DOMAIN log'
         /\ Len(log) \in Nat
  <1>1. /\ log \in Seq(Event) /\ queue \subseteq DOMAIN log
        /\ DOMAIN log = 1..Len(log) /\ Len(log) \in Nat
    BY LenProperties DEF Typed
  <1>2. /\ log' \in Seq(Event) /\ Len(log') = Len(log) + 1 /\ log'[Len(log')] = e
        /\ \A n \in 1..Len(log) : log'[n] = log[n]
        /\ DOMAIN log' = 1..(Len(log) + 1)
    BY <1>1, AppendProperties DEF Publish
  <1>3. Plan' = Plan
    BY DEF Plan, Event, Allowed, Ops, Pays, Charges, Credits, Announces, Earns,
       GiftVoucher, Redemption
  <1>4. slot' = slot /\ queue' = queue \cup {Len(log) + 1}
    BY DEF Publish
  <1>5. ASSUME NEW t \in Slot
        PROVE  \/ slot'[t] = Idle
               \/ slot'[t].ev \in queue' /\ slot'[t].todo \in Plan'[log'[slot'[t].ev]]
    <2>1. CASE slot[t] # Idle
      <3>1. slot[t].ev \in queue /\ slot[t].todo \in Plan[log[slot[t].ev]]
        BY <2>1 DEF Apart
      <3>2. log'[slot[t].ev] = log[slot[t].ev]
        BY <1>1, <1>2, <3>1
      <3> QED
        BY <1>3, <1>4, <3>1, <3>2
    <2> QED
      BY <1>4, <2>1
  <1>6. \A t, u \in Slot : slot'[t].ev = slot'[u].ev /\ slot'[t].ev # 0 => t = u
    BY <1>4 DEF Apart
  <1>7. Apart'
    BY <1>5, <1>6 DEF Apart
  <1>8. /\ \A n \in DOMAIN log : n \in DOMAIN log' /\ log'[n] = log[n] /\ n <= Len(log)
        /\ DOMAIN log' = DOMAIN log \cup {Len(log) + 1} /\ Len(log) + 1 \notin DOMAIN log
        /\ queue' \subseteq DOMAIN log'
    BY <1>1, <1>2, <1>4
  <1> QED
    BY <1>1, <1>2, <1>4, <1>7, <1>8

\* How often a bag has something.
Count(B, m) == IF m \in DOMAIN B THEN B[m] ELSE 0

LEMMA CopiesCount == \A m : Copies(m) = Count(told, m)
  BY DEF Copies, Count, BagIn, BagToSet

\* One message more.
LEMMA CountMore ==
  ASSUME NEW B, \A k \in DOMAIN B : B[k] \in Nat, NEW m
  PROVE  /\ DOMAIN (B (+) SetToBag({m})) = DOMAIN B \cup {m}
         /\ \A k : /\ Count(B, k) \in Nat
                   /\ Count(B (+) SetToBag({m}), k) = Count(B, k) + (IF k = m THEN 1 ELSE 0)
         /\ \A k \in DOMAIN (B (+) SetToBag({m})) : (B (+) SetToBag({m}))[k] \in Nat
  <1> DEFINE C == B (+) SetToBag({m})
  <1>1. DOMAIN C = DOMAIN B \cup {m}
    BY DEF (+), SetToBag
  <1>2. \A k \in DOMAIN C : C[k] = (IF k \in DOMAIN B THEN B[k] ELSE 0) + (IF k = m THEN 1 ELSE 0)
    BY DEF (+), SetToBag
  <1>3. \A k : Count(B, k) \in Nat
    BY DEF Count
  <1> HIDE DEF C
  <1>4. \A k : Count(C, k) = Count(B, k) + (IF k = m THEN 1 ELSE 0)
    BY <1>1, <1>2 DEF Count
  <1>5. \A k \in DOMAIN C : C[k] \in Nat
    BY <1>2
  <1> QED
    BY <1>1, <1>3, <1>4, <1>5 DEF C

\* What a step of a slot does to the messages.
LEMMA StepTells ==
  ASSUME Typed, Apart, Counted, NEW s \in Slot, Step(s)
  PROVE  \/ told' = told
         \/ /\ slot[s].todo # <<>> /\ Op(s) = "send"
            /\ Tail(Head(slot[s].todo)) \in Messages
            /\ told' = told (+) SetToBag({Tail(Head(slot[s].todo))})
  <1>0. doc.kind \in Kinds
    BY DEF Typed, Shaped
  <1>1. CASE End(s) \/ Crash(s) \/ \E n \in queue : Starts(s, n)
    BY <1>1 DEF End, Crash, Starts
  <1>2. CASE slot[s].todo # <<>> /\ Does(s)
    <2>1. Moves(s)
      BY <1>2, OperationMoves
    <2>2. CASE Op(s) # "send"
      BY <2>1, <2>2 DEF Moves, Framed
    <2>3. CASE Op(s) = "send"
      <3>1. Send(s)
        BY <1>2, <2>3 DEF Does
      <3>2. Tail(Head(slot[s].todo)) \in Messages
        BY <1>2, <2>3, Working, SaidRow DEF Op
      <3>3. told' \in {told, told (+) SetToBag({Tail(Head(slot[s].todo))})}
        BY <3>1 DEF Send
      <3> QED
        BY <1>2, <2>3, <3>2, <3>3
    <2> QED
      BY <2>2, <2>3
  <1> QED
    BY <1>0, <1>1, <1>2, StepCases

\* The messages are counted after it too.
LEMMA StepCounted ==
  ASSUME Typed, Apart, Counted, NEW s \in Slot, Step(s)
  PROVE  Counted'
  <1> DEFINE m == Tail(Head(slot[s].todo))
  <1>1. CASE told' = told
    BY <1>1 DEF Counted
  <1>2. CASE m \in Messages /\ told' = told (+) SetToBag({m})
    <2>1. \A k \in DOMAIN told : told[k] \in Nat
      BY DEF Counted
    <2> HIDE DEF m
    <2>2. DOMAIN told' = DOMAIN told \cup {m} /\ \A k \in DOMAIN told' : told'[k] \in Nat
      BY <1>2, <2>1, CountMore
    <2>3. Messages' = Messages
      BY DEF Messages, Templates
    <2> QED
      BY <1>2, <2>2, <2>3 DEF Counted
  <1> QED
    BY <1>1, <1>2, StepTells

\* Payment records, once and twice.
LEMMA Recorded ==
  ASSUME NEW r, {"payments", "linked"} \subseteq DOMAIN r, NEW b
  PROVE  LET once == AddPayment(b, r) twice == AddPayment(b, AddPayment(b, r))
         IN  /\ once.payments = r.payments + 1 /\ twice.payments = r.payments + 1 + 1
             /\ once.linked \in {r.linked, r.linked + 1}
             /\ twice.linked \in {r.linked, r.linked + 1 + 1}
  <1>1. CASE b
    BY <1>1 DEF AddPayment
  <1>2. CASE ~b
    BY <1>2 DEF AddPayment
  <1> QED
    BY <1>1, <1>2

\* Invoices, once and twice.
LEMMA Invoiced ==
  ASSUME NEW r, "invoices" \in DOMAIN r
  PROVE  /\ AddInvoice(r).invoices = r.invoices + 1
         /\ AddInvoice(AddInvoice(r)).invoices = r.invoices + 1 + 1
  BY DEF AddInvoice

\* Linking the records there are, once and twice.
LEMMA Linked ==
  ASSUME NEW r, {"payments", "linked"} \subseteq DOMAIN r
  PROVE  /\ LinkAll(r).linked = r.payments /\ LinkAll(LinkAll(r)).linked = r.payments
         /\ LinkAll(r).payments = r.payments /\ LinkAll(LinkAll(r)).payments = r.payments
  BY DEF LinkAll

\* What a handler asks of the services keeps the kinds of the fields.
LEMMA DoesTyped ==
  ASSUME Typed, Apart, NEW s \in Slot, slot[s].todo # <<>>, Does(s)
  PROVE  /\ remote'.payments \in Nat /\ remote'.linked \in 0..remote'.payments
         /\ remote'.invoices \in Nat
         /\ doc.kind = "booking" => remote'.status \in Statuses /\ remote'.pay \in PayStatuses
         /\ doc.kind \in Sold => remote'.status \in SaleStatuses
  <1>0. /\ DOMAIN remote = Fields /\ doc.kind \in Kinds
        /\ {"payments", "linked", "invoices", "status"} \subseteq Fields
        /\ doc.kind = "booking" => "pay" \in Fields
        /\ remote.payments \in Nat /\ remote.linked \in 0..remote.payments /\ remote.invoices \in Nat
        /\ doc.kind = "booking" => remote.status \in Statuses /\ remote.pay \in PayStatuses
        /\ doc.kind \in Sold => remote.status \in SaleStatuses
    BY DEF Typed, Shaped
  <1>1. /\ Agree(remote, remote', Touches(Op(s)))
        /\ \A f \in Fields \ Touches(Op(s)) : remote'[f] = remote[f]
    BY <1>0, OperationMoves DEF Moves, Framed, Agree
  <1>2. Head(slot[s].todo) \in Allowed(Ev(s)) /\ Ev(s) \in Event
    BY Working
  <1>3. Op(s) \in Ops(Ev(s))
    BY <1>2, StepIs DEF Op
  <1>4. CASE Op(s) = "record"
    <2>1. /\ remote' \in {remote, AddPayment(slot[s].got, remote),
                          AddPayment(slot[s].got, AddPayment(slot[s].got, remote))}
      BY <1>4 DEF Does, RecordPayment, Call
    <2>2. \/ remote' = remote
          \/ remote'.payments = remote.payments + 1
             /\ remote'.linked \in {remote.linked, remote.linked + 1}
          \/ remote'.payments = remote.payments + 1 + 1
             /\ remote'.linked \in {remote.linked, remote.linked + 1 + 1}
      <3>1. {"payments", "linked"} \subseteq DOMAIN remote
        BY <1>0
      <3> QED
        BY <2>1, <3>1, Recorded
    <2>3. /\ remote'.payments \in Nat /\ remote'.linked \in 0..remote'.payments
      BY <1>0, <2>2
    <2> QED
      BY <1>0, <1>1, <1>4, <2>3 DEF Touches
  <1>5. CASE Op(s) = "invoice"
    <2>1. remote' \in {remote, AddInvoice(remote), AddInvoice(AddInvoice(remote))}
      BY <1>5 DEF Does, CreateInvoice, Call
    <2>2. remote'.invoices \in Nat
      BY <1>0, <2>1, Invoiced
    <2> QED
      BY <1>0, <1>1, <1>5, <2>2 DEF Touches
  <1>6. CASE Op(s) = "link_payments"
    <2>1. remote' \in {remote, LinkAll(remote), LinkAll(LinkAll(remote))}
      BY <1>6 DEF Does, LinkPayments, Call
    <2>2. remote'.linked \in 0..remote'.payments
      BY <1>0, <2>1, Linked
    <2> QED
      BY <1>0, <1>1, <1>6, <2>2 DEF Touches
  <1>7. CASE Op(s) = "set_booking"
    <2>1. doc.kind = "booking"
      <3>1. CASE doc.kind \in Sold
        BY <1>2, <1>3, <1>7, <3>1 DEF Ops, Event, SaleEvent, VoucherTypes, GiftTypes
      <3>2. CASE doc.kind = "account"
        BY <1>2, <1>3, <1>7, <3>2 DEF Ops, Event, SomeNotice, Notices
      <3> QED
        BY <1>0, <3>1, <3>2
    <2> DEFINE E(r) == IF Arg(s, 3) = "none" THEN SetStatus(Arg(s, 2), r)
                       ELSE SetStatusAndPay(Arg(s, 2), Arg(s, 3), r)
    <2>2. remote' \in {remote, E(remote), E(E(remote))}
      BY <1>7 DEF Does, UpdateBookingStatus, Attempt, Call
    <2>3. Arg(s, 2) \in {"confirmed", "cancelled", "reschedule_requested"}
          /\ Arg(s, 3) \in PayStatuses \cup {"none"}
      BY <1>2, <1>7, StepIs DEF Op, Arg
    <2>4. remote'.status \in Statuses /\ remote'.pay \in PayStatuses
      BY <1>0, <2>1, <2>2, <2>3 DEF SetStatus, SetStatusAndPay, Statuses
    <2> QED
      BY <1>0, <1>1, <1>7, <2>1, <2>4 DEF Touches
  <1>8. CASE Op(s) = "activate"
    <2>1. doc.kind \in Sold
      <3>1. CASE doc.kind = "booking"
        BY <1>2, <1>3, <1>8, <3>1 DEF Ops, Event, BookingEvent, BookingTypes, Invoicing
      <3>2. CASE doc.kind = "account"
        BY <1>2, <1>3, <1>8, <3>2 DEF Ops, Event, SomeNotice, Notices
      <3> QED
        BY <1>0, <3>1, <3>2
    <2>2. remote' \in {remote, Activate(remote), Activate(Activate(remote))}
      BY <1>8 DEF Does, ActivateScheduledVoucher, Call
    <2>3. remote'.status \in SaleStatuses
      BY <1>0, <2>1, <2>2 DEF Activate, SaleStatuses
    <2> QED
      BY <1>0, <1>1, <1>8, <2>1, <2>3 DEF Touches
  <1>9. CASE Op(s) \notin {"record", "invoice", "link_payments", "set_booking", "activate"}
    <2>1. {"payments", "linked", "invoices", "status", "pay"} \cap Touches(Op(s)) = {}
      BY <1>9 DEF Touches
    <2>2. /\ remote'.payments = remote.payments /\ remote'.linked = remote.linked
          /\ remote'.invoices = remote.invoices /\ remote'.status = remote.status
          /\ doc.kind = "booking" => remote'.pay = remote.pay
      BY <1>0, <1>1, <2>1
    <2> QED
      BY <1>0, <2>2
  <1> QED
    BY <1>4, <1>5, <1>6, <1>7, <1>8, <1>9

\* Every step of a slot keeps the kinds.
LEMMA StepTyped ==
  ASSUME Common, NEW s \in Slot, Step(s)
  PROVE  Common'
  <1>0. Typed /\ Apart /\ Counted /\ doc.kind \in Kinds /\ Shaped
    BY DEF Common, Typed, Shaped
  <1>1. Lasting /\ doc' = doc /\ Shaped'
    <2>1. Lasting
      BY <1>0, NextLasting DEF Next
    <2> QED
      BY <1>0, <2>1 DEF Lasting, Shaped
  <1>2. Apart' /\ slot' \in [Slot -> Hand(AnyStep)] /\ log' = log /\ queue' \subseteq queue
    BY <1>0, <1>1, SlotStepApart
  <1>3. Counted'
    BY <1>0, StepCounted
  <1>4. /\ remote'.payments \in Nat /\ remote'.linked \in 0..remote'.payments
        /\ remote'.invoices \in Nat
        /\ doc.kind = "booking" => remote'.status \in Statuses /\ remote'.pay \in PayStatuses
        /\ doc.kind \in Sold => remote'.status \in SaleStatuses
    <2>1. CASE End(s) \/ Crash(s) \/ \E n \in queue : Starts(s, n)
      <3>1. remote' = remote
        BY <2>1 DEF End, Crash, Starts
      <3> QED
        BY <1>0, <3>1 DEF Typed
    <2> QED
      BY <1>0, <2>1, StepCases, DoesTyped
  <1>5. /\ faults' \in 0..MaxFaults /\ missed' \subseteq Operations /\ tidy' \in BOOLEAN
        /\ rows' \subseteq Templates
    <2>0. /\ faults \in 0..MaxFaults /\ missed \subseteq Operations /\ tidy \in BOOLEAN
          /\ rows \subseteq Templates /\ MaxFaults \in Nat
      BY <1>0, FaultsAssumption DEF Typed
    <2>1. CASE End(s)
      <3>1. slot[s].rows \subseteq Templates
        BY <1>0 DEF Typed, Hand
      <3> QED
        BY <2>0, <2>1, <3>1 DEF End
    <2>2. CASE Crash(s)
      BY <2>0, <2>2 DEF Crash
    <2>3. CASE \E n \in queue : Starts(s, n)
      <3>1. tidy' \in BOOLEAN
        BY <2>3 DEF Starts
      <3> QED
        BY <2>0, <2>3, <3>1 DEF Starts
    <2>4. CASE slot[s].todo # <<>> /\ Does(s)
      <3>1. Framed(s)
        BY <1>0, <2>4, OperationMoves DEF Moves
      <3>2. Op(s) \in Operations
        BY <1>0, <2>4, Working, StepIs DEF Op
      <3> QED
        BY <2>0, <3>1, <3>2 DEF Framed
    <2> QED
      BY <1>0, <2>1, <2>2, <2>3, <2>4, StepCases
  <1>6. /\ doc' \in Documents /\ log' \in Seq(Event') /\ queue' \subseteq DOMAIN log'
    <2>1. Event' = Event
      BY <1>1 DEF Event
    <2> QED
      BY <1>0, <1>1, <1>2, <2>1 DEF Typed
  <1>7. Typed'
    BY <1>1, <1>2, <1>4, <1>5, <1>6 DEF Typed
  <1> QED
    BY <1>2, <1>3, <1>7 DEF Common

\* Every event that is published does.
LEMMA HappenTyped ==
  ASSUME Common, Happen
  PROVE  Common'
  <1>0. Typed /\ Apart /\ Counted /\ doc.kind \in Kinds /\ Shaped /\ DOMAIN remote = Fields
    BY DEF Common, Typed, Shaped
  <1>1. Lasting /\ doc' = doc /\ Shaped'
    <2>1. Lasting
      BY <1>0, NextLasting DEF Next
    <2> QED
      BY <1>0, <2>1 DEF Lasting, Shaped
  <1>2. PICK e \in Event : /\ Publish(e)
                           /\ Agree(remote, remote', Changes)
                           /\ doc.kind = "booking" => BookingNews(e)
                           /\ doc.kind \in Sold => SaleNews(e)
    BY <1>0, HappenPublishes
  <1>3. Apart' /\ log' \in Seq(Event) /\ queue' \subseteq DOMAIN log'
    BY <1>0, <1>1, <1>2, PublishApart
  <1>4. UNCHANGED <<doc, slot, rows, claims, told, faults, missed, tidy>>
    BY <1>2 DEF Publish
  <1>5. /\ remote'.payments = remote.payments /\ remote'.linked = remote.linked
        /\ remote'.invoices = remote.invoices
    BY <1>0, <1>2 DEF Agree, Changes
  <1>6. /\ doc.kind = "booking" => remote'.status \in Statuses /\ remote'.pay \in PayStatuses
        /\ doc.kind \in Sold => remote'.status \in SaleStatuses
    BY <1>2 DEF BookingNews, SaleNews
  <1>7. Event' = Event
    BY <1>1 DEF Event
  <1>8. Typed'
    BY <1>0, <1>1, <1>3, <1>4, <1>5, <1>6, <1>7 DEF Typed
  <1>9. Counted'
    BY <1>0, <1>4 DEF Counted
  <1> QED
    BY <1>3, <1>8, <1>9 DEF Common

\* Every step keeps it.
LEMMA CommonNext == Common /\ [Next]_vars => Common'
  <1> SUFFICES ASSUME Common, [Next]_vars PROVE Common'
    OBVIOUS
  <1>1. CASE UNCHANGED vars
    <2>1. Typed'
      BY <1>1 DEF vars, Common, Typed, Shaped, Event
    <2>2. Plan' = Plan
      BY <1>1 DEF vars, Plan, Event, Allowed, Ops, Pays, Charges, Credits, Announces, Earns,
       GiftVoucher, Redemption
    <2>3. Apart' /\ Counted'
      BY <1>1, <2>2 DEF vars, Common, Apart, Counted
    <2> QED
      BY <2>1, <2>3 DEF Common
  <1>2. ASSUME NEW s \in Slot, Step(s) PROVE Common'
    BY <1>2, StepTyped
  <1> QED
    BY <1>1, <1>2, HappenTyped DEF Next

\* The type invariant: what the services count fits together, the slots hold published events
\* that are not yet processed and steps of their handlers, and only known messages go out.
THEOREM Types == Spec => []TypeOK
  <1>1. Common => TypeOK
    <2> SUFFICES ASSUME Common PROVE TypeOK
      OBVIOUS
    <2>1. Typed /\ Apart /\ Counted
      BY DEF Common
    <2>2. ASSUME NEW s \in Slot
          PROVE  /\ slot[s].ev \in queue \cup {0}
                 /\ \A i \in DOMAIN slot[s].todo : slot[s].todo[i][1] \in Operations
                 /\ slot[s].got \in BOOLEAN /\ slot[s].rows \subseteq Templates
      <3>1. slot[s] \in Hand(AnyStep)
        BY <2>1 DEF Typed
      <3>2. slot[s].ev \in queue \cup {0}
        BY <2>1 DEF Apart, Idle
      <3>3. CASE slot[s].todo = <<>>
        BY <3>1, <3>2, <3>3 DEF Hand
      <3>4. CASE slot[s].todo # <<>>
        <4>1. slot[s].todo \in Seq(Allowed(Ev(s)))
          BY <2>1, <3>4, Working
        <4>2. \A i \in DOMAIN slot[s].todo : slot[s].todo[i] \in Allowed(Ev(s))
          BY <4>1, ElementOfSeq, LenProperties
        <4>3. \A i \in DOMAIN slot[s].todo : slot[s].todo[i][1] \in Operations
          BY <4>2, StepIs
        <4> QED
          BY <3>1, <3>2, <4>3 DEF Hand
      <3> QED
        BY <3>3, <3>4
    <2>3. BagToSet(told) \subseteq Messages
      BY <2>1 DEF Counted, BagToSet
    <2> QED
      BY <2>1, <2>2, <2>3 DEF TypeOK, Typed
  <1> QED
    BY <1>1, CommonInit, CommonNext, PTL DEF Spec

-----------------------------------------------------------------------------
(* Each effect of a confirmation passes its own test.                      *)

\* What a message says stands first in its row.
LEMMA SaidFirst ==
  ASSUME NEW e, NEW q \in Allowed(e), q[1] = "send"
  PROVE  Tail(q)[1] = Saying(e)
  <1>1. PICK w : w = Saying(e)
    OBVIOUS
  <1>2. Tail(q) = <<w, q[3], q[4]>>
    BY <1>1, SaidRow
  <1>3. <<w, q[3], q[4]>>[1] = w
    OBVIOUS
  <1> QED
    BY <1>1, <1>2, <1>3

\* The event of a step of an effect is one that passes the test of the effect.
LEMMA StepPasses ==
  ASSUME Typed, Apart, NEW s \in Slot, slot[s].todo # <<>>, doc.kind = "booking"
  PROVE  /\ Op(s) = "record" => slot[s].ev \in Confirming
         /\ Op(s) = "invoice" => slot[s].ev \in Charging
         /\ Op(s) = "credit" => slot[s].ev \in Crediting
         /\ Op(s) = "send" /\ Tail(Head(slot[s].todo))[1] = "confirmed" => slot[s].ev \in Announcing
  <1> DEFINE e == Ev(s)
  <1>1. /\ slot[s].ev \in DOMAIN log /\ e = log[slot[s].ev] /\ e \in BookingEvent
        /\ Head(slot[s].todo) \in Allowed(e) /\ Op(s) \in Ops(e)
        /\ e.type \in BookingTypes
    BY Working, StepIs DEF Ev, Event, Op, BookingEvent
  <1>2. /\ e.type \in {"link_paid", "status_success"} =>
               slot[s].ev \in Confirming \cap Charging \cap Crediting \cap Announcing
        /\ e.type = "confirmed" =>
               /\ IsPaid(e) => slot[s].ev \in Confirming
               /\ Invoiceable(e) => slot[s].ev \in Charging
               /\ LoyaltySucceeded(e) => slot[s].ev \in Crediting
               /\ Announced(e) => slot[s].ev \in Announcing
    BY <1>1 DEF Confirming, Charging, Crediting, Announcing, Delegated, Logged
  <1>3. ASSUME Op(s) \in {"record", "invoice", "credit"}
        PROVE  e.type \in {"confirmed", "link_paid", "status_success"}
    BY <1>1, <1>3 DEF Ops, BookingTypes
  <1>4. /\ Op(s) = "record" => Pays(e)
        /\ Op(s) = "invoice" => Charges(e)
        /\ Op(s) = "credit" => Credits(e)
    BY <1>1, <1>3 DEF Ops
  <1>5. ASSUME Op(s) = "send", Tail(Head(slot[s].todo))[1] = "confirmed"
        PROVE  Announces(e) /\ e.type \in {"confirmed", "link_paid", "status_success"}
    <2>1. Head(slot[s].todo)[1] = "send"
      BY <1>5 DEF Op
    <2>2. Tail(Head(slot[s].todo))[1] = Saying(e)
      BY <1>1, <2>1, SaidFirst
    <2>3. e.type \in {"confirmed", "link_paid", "status_success"}
      BY <1>1, <1>5, <2>2 DEF Saying, BookingTypes
    <2> QED
      BY <1>1, <1>5, <2>3 DEF Ops
  <1> HIDE DEF e
  <1> QED
    BY <1>2, <1>3, <1>4, <1>5 DEF Pays, Charges, Credits, Announces, Delegating

\* The effects of the handlers stand on the events published.
Tested == Common /\ EachByItsTest

\* A slot publishes nothing.
LEMMA StepKeepsLog ==
  ASSUME Typed, Apart, NEW s \in Slot, Step(s)
  PROVE  log' = log
  <1>1. CASE End(s) \/ Crash(s) \/ \E n \in queue : Starts(s, n)
    BY <1>1 DEF End, Crash, Starts
  <1>2. CASE slot[s].todo # <<>> /\ Does(s)
    BY <1>2, OperationMoves DEF Moves, Framed
  <1> QED
    BY <1>1, <1>2, StepCases DEF Typed, Shaped

\* The sets of events grow.
LEMMA TestsGrow ==
  ASSUME Typed, Apart, [Next]_vars
  PROVE  /\ Confirming \subseteq Confirming' /\ Charging \subseteq Charging'
         /\ Crediting \subseteq Crediting' /\ Announcing \subseteq Announcing'
  <1>1. \A n \in DOMAIN log : n \in DOMAIN log' /\ log'[n] = log[n]
    <2>1. CASE Happen
      <3>1. PICK e \in Event : Publish(e)
        BY <2>1, HappenPublishes
      <3>2. log \in Seq(Event) /\ DOMAIN log = 1..Len(log) /\ Len(log) \in Nat
        BY LenProperties DEF Typed
      <3> QED
        BY <3>1, <3>2, AppendProperties DEF Publish
    <2>2. ASSUME NEW s \in Slot, Step(s) PROVE log' = log
      BY <2>2, StepKeepsLog
    <2>3. CASE UNCHANGED vars
      BY <2>3 DEF vars
    <2> QED
      BY <2>1, <2>2, <2>3 DEF Next
  <1> QED
    BY <1>1 DEF Confirming, Charging, Crediting, Announcing, Delegated, Logged

\* Every step keeps them.
LEMMA TestedNext == Tested /\ [Next]_vars => Tested'
  <1> SUFFICES ASSUME Tested, [Next]_vars PROVE Tested'
    OBVIOUS
  <1>1. Common' /\ doc' = doc
    BY CommonNext, NextLasting DEF Tested, Common, Typed, Lasting
  <1>2. Typed /\ Apart /\ Counted /\ EachByItsTest /\ Shaped
    BY DEF Tested, Common, Typed
  <1>3. ASSUME doc.kind = "booking"
        PROVE  /\ Confirming' = {} => remote'.payments = 0
               /\ Charging' = {} => remote'.invoices = 0
               /\ Crediting' = {} => remote'.earned = 0
               /\ Announcing' = {} => \A m \in BagToSet(told') : m[1] # "confirmed"
    <2>0. /\ Confirming' = {} => remote.payments = 0 /\ Confirming = {}
          /\ Charging' = {} => remote.invoices = 0 /\ Charging = {}
          /\ Crediting' = {} => remote.earned = 0 /\ Crediting = {}
          /\ Announcing' = {} => /\ Announcing = {}
                                 /\ \A m \in BagToSet(told) : m[1] # "confirmed"
          /\ {"payments", "invoices", "earned"} \subseteq DOMAIN remote
      BY <1>2, <1>3, TestsGrow DEF EachByItsTest, Shaped
    <2>1. CASE Happen
      <3>1. told' = told /\ Agree(remote, remote', Changes)
        BY <1>2, <2>1, HappenPublishes DEF Publish
      <3>2. remote'.payments = remote.payments /\ remote'.invoices = remote.invoices
            /\ remote'.earned = remote.earned
        BY <2>0, <3>1 DEF Agree, Changes
      <3> QED
        BY <2>0, <3>1, <3>2
    <2>2. ASSUME NEW s \in Slot, Step(s)
          PROVE  /\ Confirming' = {} => remote'.payments = 0
                 /\ Charging' = {} => remote'.invoices = 0
                 /\ Crediting' = {} => remote'.earned = 0
                 /\ Announcing' = {} => \A m \in BagToSet(told') : m[1] # "confirmed"
      <3>1. \/ remote' = remote
            \/ slot[s].todo # <<>> /\ Agree(remote, remote', Touches(Op(s)))
        <4>1. CASE End(s) \/ Crash(s) \/ \E n \in queue : Starts(s, n)
          BY <4>1 DEF End, Crash, Starts
        <4>2. CASE slot[s].todo # <<>> /\ Does(s)
          BY <1>2, <4>2, OperationMoves DEF Moves, Framed
        <4> QED
          BY <1>2, <2>2, <4>1, <4>2, StepCases DEF Shaped
      <3>2. /\ Confirming' = {} => remote'.payments = remote.payments
            /\ Charging' = {} => remote'.invoices = remote.invoices
            /\ Crediting' = {} => remote'.earned = remote.earned
        <4>1. CASE remote' = remote
          BY <4>1
        <4>2. CASE slot[s].todo # <<>> /\ Agree(remote, remote', Touches(Op(s)))
          <5>1. /\ Confirming = {} => Op(s) # "record"
                /\ Charging = {} => Op(s) # "invoice"
                /\ Crediting = {} => Op(s) # "credit"
            BY <1>2, <1>3, <4>2, StepPasses
          <5>2. /\ Op(s) # "record" => "payments" \notin Touches(Op(s))
                /\ Op(s) # "invoice" => "invoices" \notin Touches(Op(s))
                /\ Op(s) # "credit" => "earned" \notin Touches(Op(s))
            BY DEF Touches
          <5> QED
            BY <2>0, <4>2, <5>1, <5>2 DEF Agree
        <4> QED
          BY <3>1, <4>1, <4>2
      <3>3. Announcing' = {} => \A m \in BagToSet(told') : m[1] # "confirmed"
        <4>1. CASE told' = told
          BY <2>0, <4>1
        <4>2. CASE slot[s].todo # <<>> /\ Op(s) = "send"
                   /\ told' = told (+) SetToBag({Tail(Head(slot[s].todo))})
          <5>1. Announcing = {} => Tail(Head(slot[s].todo))[1] # "confirmed"
            BY <1>2, <1>3, <4>2, StepPasses
          <5>2. BagToSet(told') = BagToSet(told) \cup {Tail(Head(slot[s].todo))}
            BY <4>2, ToldMore
          <5> QED
            BY <2>0, <5>1, <5>2
        <4> QED
          BY <1>2, <2>2, <4>1, <4>2, StepTells
      <3> QED
        BY <2>0, <3>2, <3>3
    <2>3. CASE UNCHANGED vars
      BY <2>0, <2>3 DEF vars
    <2> QED
      BY <2>1, <2>2, <2>3 DEF Next
  <1> QED
    BY <1>1, <1>3 DEF Tested, EachByItsTest

\* Each effect of a confirmation stands on an event that passes the test of that effect: for
\* every set of documents, payloads worded in every way, and every number of slots, events and
\* faults, a payment that only payment_data tells of is neither credited nor announced.
THEOREM ByItsTest == Spec => []EachByItsTest
  <1>1. Init => Tested
    <2> SUFFICES ASSUME Init PROVE EachByItsTest
      BY CommonInit DEF Tested
    <2>1. /\ doc.kind = "booking" => remote \in {CancelledBooking, NewBooking}
          /\ BagToSet(told) = {}
      BY DEF Init, InitDelivery, BagToSet, EmptyBag, SetToBag
    <2>2. ASSUME doc.kind = "booking"
          PROVE  remote.payments = 0 /\ remote.invoices = 0 /\ remote.earned = 0
      <3>1. NewBooking.payments = 0 /\ NewBooking.invoices = 0 /\ NewBooking.earned = 0
        BY DEF NewBooking
      <3>2. /\ CancelledBooking.payments = 0 /\ CancelledBooking.invoices = 0
            /\ CancelledBooking.earned = 0
        BY DEF NewBooking, CancelledBooking
      <3> QED
        BY <2>1, <2>2, <3>1, <3>2, Zenon
    <2> QED
      BY <2>1, <2>2 DEF EachByItsTest
  <1>2. Tested => EachByItsTest
    BY DEF Tested
  <1> QED
    BY <1>1, <1>2, TestedNext, PTL DEF Spec

=============================================================================
