---------------------------- MODULE SalesHandlers ---------------------------
(***************************************************************************)
(* The handlers of gift vouchers, shop orders and gift purchases: what     *)
(* each of them asks of ushanr (invoice), of ushbooknpay (payment record,  *)
(* activation of a scheduled voucher) and of Redis (marks of recipients),  *)
(* in which order, and whom it tells.                                      *)
(*                                                                         *)
(* doc is [kind, self, ahead, desk, email, invoicing]: "voucher", "order"  *)
(* or "gift"; whether the sender is the recipient, whether the voucher is  *)
(* to be delivered at a later date, whether the gift was bought at a desk, *)
(* whether the people involved have an email address, and whether          *)
(* invoicing is configured.                                                *)
(***************************************************************************)
EXTENDS Deliveries

\* Something that nobody has bought yet.
NewSale ==
    [status |-> "new", paid |-> FALSE, due |-> FALSE, announced |-> FALSE,
     payments |-> 0, linked |-> 0, invoices |-> 0, marks |-> {}]

-----------------------------------------------------------------------------
(* What the handlers do.                                                   *)

Phone(template, audience) == << <<"send", template, "whatsapp", audience>> >>
Mail(template, audience) ==
    IF doc.email THEN << <<"send", template, "email", audience>> >> ELSE <<>>
UnlessSelf(steps) == IF doc.self THEN <<>> ELSE steps

\* The recipient has been told: no welcome message when the account is created.
MarkNotified == << <<"mark", "notified">> >>

\* voucher.active: _notify_sender, then _notify_recipient.
TellSender == UnlessSelf(Phone("active", "sender") \o Mail("active", "sender"))
TellRecipient == Phone("active", "recipient") \o MarkNotified \o Mail("active", "recipient")
VoucherMessageSteps == TellSender \o TellRecipient

\* The invoice first: the payment record carries its number.  Then the payment gate.
VoucherActiveSteps(e) ==
    Trigger(<<"partner">>) \o << <<"record">> >>
        \o (IF e.status = "active" THEN VoucherMessageSteps ELSE <<>>)

\* Slip: a scheduled voucher is announced like an active one.
ScheduledTellsAll == Trigger(<<"partner">>) \o << <<"record">> >> \o VoucherMessageSteps

\* The recipient is not told; the sender is, also when they are the same person.
VoucherScheduledSteps ==
    Trigger(<<"partner">>) \o << <<"record">>, <<"send", "scheduled", "sms", "sender">> >>

VoucherDeliveryDueSteps == << <<"activate">> >>
VoucherPaymentPendingSteps == << <<"mark", "pending">> >>

VoucherRedeemedSteps ==
    Phone("redeemed", "recipient") \o Mail("redeemed", "recipient")
        \o UnlessSelf(Phone("redeemed", "sender") \o Mail("redeemed", "sender"))

\* shop.order_created: the payment is recorded with any status, invoiced when it succeeded.
OrderCreatedSteps(e) ==
    << <<"record">> >> \o Phone("order", "customer")
        \o (IF e.pay = "success" THEN Trigger(<<"partner">>) ELSE <<>>)

\* gift.purchase.completed: at the desk, the recipient gets the card in hand.
GiftPurchaseSteps ==
    UnlessSelf(Phone("purchase", "sender"))
        \o (IF doc.desk THEN <<>> ELSE Phone("purchase", "recipient") \o MarkNotified)
        \o Trigger(<<"partner">>)

GiftClaimedSteps == Phone("claimed", "sender")
GiftDeliveredSteps == Phone("delivered", "recipient")
GiftRedeemedSteps == UnlessSelf(Phone("used", "sender")) \o Phone("used", "recipient")

\* build_default_registry: the handler of each type.
SaleSteps(e) ==
    CASE e.type = "voucher_payment_pending" -> VoucherPaymentPendingSteps
      [] e.type = "voucher_active" -> VoucherActiveSteps(e)
      [] e.type = "voucher_scheduled" -> VoucherScheduledSteps
      [] e.type = "voucher_delivery_due" -> VoucherDeliveryDueSteps
      [] e.type = "voucher_redeemed" -> VoucherRedeemedSteps
      [] e.type = "order_created" -> OrderCreatedSteps(e)
      [] e.type = "gift_purchase_completed" -> GiftPurchaseSteps
      [] e.type = "gift_claimed" -> GiftClaimedSteps
      [] e.type = "gift_delivered" -> GiftDeliveredSteps
      [] e.type = "gift_redeemed" -> GiftRedeemedSteps

-----------------------------------------------------------------------------
(* Steps.                                                                  *)

\* setex of one mark; "notified" deletes the pending one.  Errors are logged.
MarkRecipient(s) ==
    /\ Doing(s, "mark")
    /\ LET mark == Head(slot[s].todo)[2]
       IN  Call(s, LAMBDA r : [r EXCEPT !.marks = {mark} \cup (@ \ {"pending"})],
                After(s, <<>>), After(s, <<>>))

\* activate_scheduled_voucher: an error is raised, so that the event is redelivered.
Activate(r) == [r EXCEPT !.status = IF @ = "scheduled" THEN "active" ELSE @]
ActivateScheduledVoucher(s) ==
    /\ Doing(s, "activate")
    /\ Call(s, Activate, After(s, <<>>), Idle)

SaleCall(s) == MarkRecipient(s) \/ ActivateScheduledVoucher(s)

Sold == {"voucher", "order", "gift"}
BeginSale(s) == doc.kind \in Sold /\ \E n \in queue : Begin(s, n, SaleSteps(log[n]))

-----------------------------------------------------------------------------
(* ushbooknpay and EventBridge Scheduler: the sale, and the events about it. *)

Sells(kind, type, r, pay) ==
    /\ doc.kind = kind
    /\ remote' = r
    /\ Publish([type |-> type, status |-> r.status, pay |-> pay])

HoldVoucher ==
    /\ remote.status = "new"
    /\ Sells("voucher", "voucher_payment_pending", [remote EXCEPT !.status = "pending"], "pending")

BuyVoucher ==
    /\ remote.status \in {"new", "pending"}
    /\ ~doc.ahead
    /\ Sells("voucher", "voucher_active",
             [remote EXCEPT !.status = "active", !.paid = TRUE, !.announced = TRUE], "success")

ScheduleVoucher ==
    /\ remote.status \in {"new", "pending"}
    /\ doc.ahead
    /\ Sells("voucher", "voucher_scheduled",
             [remote EXCEPT !.status = "scheduled", !.paid = TRUE], "success")

FallDue ==
    /\ remote.status = "scheduled"
    /\ ~remote.due
    /\ Sells("voucher", "voucher_delivery_due", [remote EXCEPT !.due = TRUE], "success")

\* The answer to activate_scheduled_voucher is an event.
AnnounceActivation ==
    /\ remote.status = "active"
    /\ ~remote.announced
    /\ Sells("voucher", "voucher_active", [remote EXCEPT !.announced = TRUE], "success")

RedeemVoucher ==
    /\ remote.status = "active"
    /\ Sells("voucher", "voucher_redeemed", [remote EXCEPT !.status = "redeemed"], "success")

\* The same voucher or gift under a new event id.
Republish ==
    \/ remote.announced /\ Sells("voucher", "voucher_active", remote, "success")
    \/ remote.status # "new" /\ Sells("gift", "gift_purchase_completed", remote, "success")

PlaceOrder ==
    /\ remote.status = "new"
    /\ \E pay \in {"success", "pending"} :
           Sells("order", "order_created",
                 [remote EXCEPT !.status = "placed", !.paid = @ \/ pay = "success"], pay)

BuyGift ==
    /\ remote.status = "new"
    /\ Sells("gift", "gift_purchase_completed",
             [remote EXCEPT !.status = "bought", !.paid = TRUE], "success")

DeliverGift ==
    /\ remote.status = "bought"
    /\ Sells("gift", "gift_delivered", [remote EXCEPT !.status = "delivered"], "success")

ClaimGift ==
    /\ remote.status \in {"bought", "delivered"}
    /\ Sells("gift", "gift_claimed", [remote EXCEPT !.status = "claimed"], "success")

UseGift ==
    /\ remote.status = "claimed"
    /\ Sells("gift", "gift_redeemed", [remote EXCEPT !.status = "used"], "success")

SaleHappens ==
    /\ doc.kind \in Sold
    /\ \/ HoldVoucher \/ BuyVoucher \/ ScheduleVoucher \/ FallDue \/ AnnounceActivation
       \/ RedeemVoucher \/ Republish
       \/ PlaceOrder \/ BuyGift \/ DeliverGift \/ ClaimGift \/ UseGift

=============================================================================
