------------------------------- MODULE Billing ------------------------------
(***************************************************************************)
(* What goes into an invoice and into a payment record: the lines that     *)
(* invoice_helper builds from the prices of an event, and how the handlers *)
(* of bookings, vouchers and shop orders, each with a copy of its own,     *)
(* classify a payment and find its identifiers in the gateway's answer.    *)
(*                                                                         *)
(* Amounts are in thousandths of a dinar, the precision of _d.  A text is  *)
(* the set of the words the code looks for in it; the empty set is a text  *)
(* that is not there.  An identifier is the place where it was found.  The *)
(* gateway is a text for each place that some copy reads: the event, the   *)
(* gateway's transaction, and payment_data in three spellings (camel for   *)
(* paymentGateway, pascal for PaymentGateway, snake for payment_gateway).  *)
(* Of the provider, the channel and the method there is one text, the one  *)
(* that a copy finds where it looks.                                       *)
(***************************************************************************)
EXTENDS Integers, FiniteSets, Sequences

CONSTANTS
    Prices,     \* priced documents: what an invoice is built from
    Payments    \* payments: what a payment record is built from

NotGiven == -1

\* Priced documents.  ushbooknpay's amounts are not negative, and it sells whole items.
Item == [price : Nat, quantity : Nat \ {0}, off : {0}]
BookingPrices ==
    [kind : {"booking"}, paidBy : {"points", "voucher", "money"}, arrangement : Nat \cup {NotGiven},
     services : Seq(Nat), addon : Nat, extra : Nat, fees : Nat, discount : Nat, total : Nat]
ShopPrices == [kind : {"shop"}, items : Seq(Item), discount : Nat, total : Nat]
GiftPrices == [kind : {"gift"}, items : Seq(Item), total : Nat]
VoucherPrices == [kind : {"voucher"}, total : Nat]

ASSUME PricesAssumption ==
    Prices \subseteq BookingPrices \cup ShopPrices \cup GiftPrices \cup VoucherPrices
ASSUME PaymentsAssumption == \A p \in Payments : p.kind = "payment"

VARIABLES
    bill,    \* the priced document or the payment at hand
    lines,   \* the lines of its invoice
    record   \* its payment records, one for each path that makes them

vars == <<bill, lines, record>>

Orelse(amount, other) == IF amount = NotGiven THEN other ELSE amount
Least(a, b) == IF a <= b THEN a ELSE b
Size(a) == IF a < 0 THEN -a ELSE a

-----------------------------------------------------------------------------
(* Invoice lines.                                                          *)

Line(price) == [price |-> price, quantity |-> 1, off |-> 0]
LineIf(price) == IF price > 0 THEN <<Line(price)>> ELSE <<>>
Amount(line) == line.price * line.quantity
Total(ls) ==
    LET sum[n \in 0..Len(ls)] == IF n = 0 THEN 0 ELSE sum[n - 1] + Amount(ls[n])
    IN  sum[Len(ls)]

\* Decimal.quantize: halves go to the even neighbour.
Quantized(amount, n) ==
    LET q == amount \div n
        r == amount % n
    IN  IF 2 * r > n \/ (2 * r = n /\ q % 2 = 1) THEN q + 1 ELSE q

\* What a line takes of the discount that is left.
Cut(left, line) == IF Amount(line) > 0 /\ left > 0 THEN Least(Amount(line), left) ELSE 0

Cheaper(line, cut) ==
    IF cut = 0 THEN line
    ELSE [line EXCEPT !.price = Quantized(Amount(line) - cut, line.quantity)]

\* Slip: the discount is taken off every line.
DeductFromEach(discount, ls) == [i \in DOMAIN ls |-> Cheaper(ls[i], Cut(discount, ls[i]))]

\* The discount is taken off the lines, first to last, until it is used up.
Deduct(discount, ls) ==
    LET left[n \in 0..Len(ls)] ==
            IF n = 0 THEN discount ELSE left[n - 1] - Cut(left[n - 1], ls[n])
    IN  [i \in DOMAIN ls |-> Cheaper(ls[i], Cut(left[i - 1], ls[i]))]

\* Slip: no repair.
RepairNothing(total, ls) == ls

\* A small difference to the document's total goes to the first line that can take it.
Repair(total, ls) ==
    LET diff == total - Total(ls)
        able == {i \in DOMAIN ls : ls[i].price + diff >= 0}
    IN  IF total > 0 /\ diff # 0 /\ Size(diff) <= 10 /\ able # {}
        THEN [ls EXCEPT ![CHOOSE i \in able : \A j \in able : i <= j].price = @ + diff]
        ELSE ls

Arrangement(b) == Orelse(b.arrangement, b.total)

\* One line per service if their prices add up, otherwise one for the arrangement.
ServiceLines(b) ==
    LET each == [i \in DOMAIN b.services |-> Line(b.services[i])]
    IN  IF Len(each) > 1 /\ Total(each) > 0 /\ Size(Total(each) - Arrangement(b)) <= 1
        THEN each ELSE <<Line(Arrangement(b))>>

BookingLines(b) ==
    CASE b.paidBy = "points" -> << [Line(b.total) EXCEPT !.off = 100] >>
      [] b.paidBy = "voucher" -> <<>>
      [] b.paidBy = "money" ->
           Repair(b.total, Deduct(b.discount,
               ServiceLines(b) \o LineIf(b.addon) \o LineIf(b.extra) \o LineIf(b.fees)))

ShopLines(b) ==
    LET items == [i \in DOMAIN b.items |-> [b.items[i] EXCEPT !.off = 0]]
    IN  Repair(b.total, Deduct(b.discount, IF items = <<>> THEN <<Line(b.total)>> ELSE items))

\* Gifts are not reconciled with their total.
GiftLines(b) ==
    IF b.items = <<>> THEN <<Line(b.total)>>
    ELSE [i \in DOMAIN b.items |-> Line(b.items[i].price)]

VoucherLines(b) == <<Line(b.total)>>

-----------------------------------------------------------------------------
(* Payment records.                                                        *)

GatewayPlaces == {"event", "transaction", "camel", "pascal", "snake"}

\* The text of the gateway in the first of the places that has one.
FirstText(p, places) ==
    LET told == {i \in DOMAIN places : p.gateway[places[i]] # {}}
    IN  IF told = {} THEN {} ELSE p.gateway[places[CHOOSE i \in told : \A j \in told : i <= j]]

Knet == {"KNET", "K-NET"}

\* The three copies of the classification, each with the places it reads.  That of bookings
\* knows one gateway more:
BookingText(p) == FirstText(p, <<"event", "transaction", "camel", "pascal", "snake">>)
BookingGateway(p) ==
    LET words == BookingText(p)
    IN  CASE words = {} -> "none"
          [] words \cap Knet # {} -> "KNET"
          [] words \cap Knet = {} /\ "DEEMA" \in words -> "Deema"
          [] words \cap Knet = {} /\ "DEEMA" \notin words /\ "TAP" \in words -> "TAP"
          [] OTHER -> "Other"

\* vouchers look into payment_data only:
VoucherText(p) == FirstText(p, <<"camel", "pascal">>)

\* Slip: only one spelling is looked for.
VoucherWithoutHyphen(p) ==
    LET words == VoucherText(p)
    IN  CASE words = {} -> "none"
          [] "KNET" \in words -> "KNET"
          [] "KNET" \notin words /\ "TAP" \in words -> "TAP"
          [] OTHER -> "Other"

VoucherGateway(p) ==
    LET words == VoucherText(p)
    IN  CASE words = {} -> "none"
          [] words \cap Knet # {} -> "KNET"
          [] words \cap Knet = {} /\ "TAP" \in words -> "TAP"
          [] OTHER -> "Other"

\* orders may name the gateway as the method, and know one spelling of payment_data:
ShopText(p) ==
    LET own == FirstText(p, <<"event", "transaction", "camel">>)
    IN  CASE own # {} -> own
          [] own = {} /\ p.method = "knet" -> {"KNET"}
          [] own = {} /\ p.method = "tap" -> {"TAP"}
          [] OTHER -> {}
ShopGateway(p) ==
    LET words == ShopText(p)
    IN  CASE words = {} -> "none"
          [] words \cap Knet # {} -> "KNET"
          [] words \cap Knet = {} /\ "TAP" \in words -> "TAP"
          [] OTHER -> "Other"

\* "as given" is a label that ushbooknpay maps.
Provider(words) ==
    CASE "fatoorah" \in words -> "MyFatoorah"
      [] "fatoorah" \notin words /\ "direct" \in words -> "DirectLink"
      [] words \cap {"fatoorah", "direct"} = {} /\ "deema" \in words -> "Deema"
      [] OTHER -> "as given"

BookingProvider(p) ==
    CASE p.provider = {} -> "MyFatoorah"
      [] "paymentlink" \in p.provider /\ Provider(p.provider) = "as given" -> "PaymentLink"
      [] OTHER -> Provider(p.provider)
ShopProvider(p) == IF p.provider = {} THEN "Other" ELSE Provider(p.provider)
VoucherProvider(p) == IF p.provider = {} THEN "MyFatoorah" ELSE "as given"

BookingThrough(p) ==
    CASE "desk" \in p.through -> "ushdesk"
      [] "desk" \notin p.through /\ "web" \in p.through -> "ushweb"
      [] p.through \cap {"desk", "web"} = {}
             /\ (p.through = {} \/ p.through \cap {"ushspa", "app", "mobile"} # {}) -> "ushspa"
      [] OTHER -> "other"

\* Taken from the payment type.
ShopThrough(p) ==
    CASE "desk" \in p.through -> "desk"
      [] "desk" \notin p.through /\ "web" \in p.through -> "ushweb"
      [] OTHER -> "ushspa"
VoucherThrough(p) == IF p.through = {} THEN "ushspa" ELSE "as given"

BookingMethod(p) ==
    CASE p.method # "" -> p.method
      [] p.method = "" /\ BookingProvider(p) = "Deema" -> "deema"
      [] OTHER -> IF BookingGateway(p) = "KNET" THEN "knet" ELSE "card"
ShopMethod(p) ==
    IF p.method \in {"", "unknown"}
    THEN IF ShopGateway(p) = "KNET" THEN "knet" ELSE "card"
    ELSE p.method
VoucherMethod(p) == IF p.method = "" THEN "card" ELSE p.method

\* The first place of a chain where the payment has an identifier, or Nowhere.
Nowhere == <<"none", "none">>
FirstGiven(chain, p) ==
    LET found == {i \in DOMAIN chain : chain[i] \in p.ids}
    IN  IF found = {} THEN Nowhere ELSE chain[CHOOSE i \in found : \A j \in found : i <= j]

At(id, places) == [i \in DOMAIN places |-> <<places[i], id>>]
Everywhere == <<"event", "transaction", "gateway", "inner">>

ShopPaymentId(p) == FirstGiven(At("payment", Everywhere), p)
BookingPaymentId(p) ==
    FirstGiven(At("payment", Everywhere)
                   \o << <<"transaction", "transaction">>, <<"gateway", "transaction">>,
                         <<"gateway", "invoice">> >>, p)

\* Slip: the transaction of the gateway's answer is not looked at.
SkipsTransaction(p, paymentId) ==
    LET own == FirstGiven(At("transaction", <<"event", "gateway">>), p)
    IN  IF own = Nowhere THEN paymentId ELSE own

TransactionId(p, paymentId) ==
    LET own == FirstGiven(At("transaction", <<"event", "transaction", "gateway">>), p)
    IN  IF own = Nowhere THEN paymentId ELSE own

ShopReference(p) == FirstGiven(At("reference", <<"event", "transaction", "gateway">>), p)
BookingReference(p) == FirstGiven(At("reference", Everywhere), p)
InvoiceId(p) == FirstGiven(At("invoice", <<"event", "gateway", "inner">>), p)

\* The snapshot of whoever made the payment: its own role, or customer for the customer.
CreatorRole(p) ==
    CASE p.snapshot # "none" -> p.snapshot
      [] p.snapshot = "none" /\ p.creator \in {"none", "customer"} -> "customer"
      [] OTHER -> "user"

BookingRecord(p) ==
    [gateway |-> BookingGateway(p), provider |-> BookingProvider(p), through |-> BookingThrough(p),
     method |-> BookingMethod(p), payment |-> BookingPaymentId(p),
     transaction |-> TransactionId(p, BookingPaymentId(p)),
     reference |-> BookingReference(p), invoice |-> InvoiceId(p), role |-> CreatorRole(p)]

ShopRecord(p) ==
    [gateway |-> ShopGateway(p), provider |-> ShopProvider(p), through |-> ShopThrough(p),
     method |-> ShopMethod(p), payment |-> ShopPaymentId(p),
     transaction |-> TransactionId(p, ShopPaymentId(p)),
     reference |-> ShopReference(p), invoice |-> InvoiceId(p), role |-> CreatorRole(p)]

\* Vouchers take the payment id from the event or the gateway's invoice, and name the invoice
\* of ushanr if there is one.
VoucherRecord(p) ==
    LET id == FirstGiven(<< <<"event", "payment">>, <<"gateway", "invoice">> >>, p)
        own == FirstGiven(<< <<"gateway", "transaction">> >>, p)
    IN  [gateway |-> VoucherGateway(p), provider |-> VoucherProvider(p),
         through |-> VoucherThrough(p), method |-> VoucherMethod(p), payment |-> id,
         transaction |-> IF own = Nowhere THEN id ELSE own,
         reference |-> FirstGiven(<< <<"gateway", "reference">> >>, p),
         invoice |-> IF p.invoiced THEN <<"ushanr", "invoice">>
                     ELSE FirstGiven(<< <<"gateway", "invoice">> >>, p),
         role |-> CreatorRole(p)]

Records(p) == [booking |-> BookingRecord(p), voucher |-> VoucherRecord(p), shop |-> ShopRecord(p)]

-----------------------------------------------------------------------------

NoRecord == [booking |-> <<>>, voucher |-> <<>>, shop |-> <<>>]

Init ==
    /\ bill \in Prices \cup Payments
    /\ lines = <<>>
    /\ record = NoRecord

Invoice(kind, Lines(_)) ==
    /\ bill.kind = kind
    /\ lines = <<>>
    /\ lines' = Lines(bill)
    /\ UNCHANGED <<bill, record>>

BuildBookingInvoiceLines == Invoice("booking", BookingLines)
BuildShopOrderInvoiceLines == Invoice("shop", ShopLines)
BuildGiftPurchaseInvoiceLines == Invoice("gift", GiftLines)
BuildVoucherInvoiceLines == Invoice("voucher", VoucherLines)

RecordPayments ==
    /\ bill.kind = "payment"
    /\ record = NoRecord
    /\ record' = Records(bill)
    /\ UNCHANGED <<bill, lines>>

Next ==
    \/ BuildBookingInvoiceLines \/ BuildShopOrderInvoiceLines
    \/ BuildGiftPurchaseInvoiceLines \/ BuildVoucherInvoiceLines
    \/ RecordPayments

Spec == Init /\ [][Next]_vars

-----------------------------------------------------------------------------
(* Properties.                                                             *)

\* ushanr refuses negative amounts: neither the discount nor the repair makes one.  (The
\* docstring of the booking's builder promises a negative line for a discount and another for
\* a voucher that is redeemed; the code makes neither.)
PricesNeverNegative ==
    \A i \in DOMAIN lines : lines[i].price >= 0 /\ lines[i].quantity > 0 /\ lines[i].off \in 0..100

\* What the prices of a document say that is to be paid, line by line and with the discount.
Stated(ls, discount) == IF Total(ls) > discount THEN Total(ls) - discount ELSE 0
Near(total, stated) == total > 0 /\ Size(total - stated) <= 10

\* The lines of a booking's invoice add up to the booking's total when its prices say so
\* within ten thousandths (and are not all smaller than that), and to what they say otherwise.
BookingTotals ==
    (bill.kind = "booking" /\ bill.paidBy = "money" /\ lines # <<>>) =>
        LET stated == Stated(ServiceLines(bill)
                                 \o <<Line(bill.addon), Line(bill.extra), Line(bill.fees)>>,
                             bill.discount)
        IN  /\ (Near(bill.total, stated) /\ stated >= 10 * Len(lines)) => Total(lines) = bill.total
            /\ ~Near(bill.total, stated) => Total(lines) = stated

\* The same for an order of single items, and for any order without a discount.
ShopTotals ==
    (/\ bill.kind = "shop"
     /\ lines # <<>> /\ bill.items # <<>>
     /\ \/ \A i \in DOMAIN bill.items : bill.items[i].quantity = 1
        \/ bill.discount = 0 /\ bill.total = Total(bill.items))
        => LET stated == Stated(bill.items, bill.discount)
           IN  /\ (Near(bill.total, stated) /\ stated >= 10 * Len(lines))
                      => Total(lines) = bill.total
               /\ ~Near(bill.total, stated) => Total(lines) = stated

\* The docstring of build_shop_order_invoice_lines: the lines are adjusted for discounts so
\* that the invoice's total matches total_amount.  (It does not for quantities above one.)
ShopMatchesTotal ==
    (/\ bill.kind = "shop"
     /\ lines # <<>> /\ bill.items # <<>>
     /\ bill.total > 0 /\ bill.total = Stated(bill.items, bill.discount))
        => Total(lines) = bill.total

\* The copies agree on a gateway wherever they read it: an order's record with a booking's of
\* the same payment, and a voucher's too unless the event or the transaction, where vouchers
\* do not look, says something first.  Deema is for bookings only.
GatewaysAgree ==
    record # NoRecord =>
        LET Told(places) == \E place \in places : bill.gateway[place] # {}
            plain == \A place \in GatewayPlaces : "DEEMA" \notin bill.gateway[place]
        IN  /\ (plain /\ Told({"event", "transaction", "camel"}))
                   => record.shop.gateway = record.booking.gateway
            /\ (plain /\ Told({"camel", "pascal"}) /\ ~Told({"event", "transaction"}))
                   => record.voucher.gateway = record.booking.gateway
            /\ Told({"camel", "pascal"}) <=> record.voucher.gateway # "none"

\* An order by K-NET whose event does not name the method is recorded as paid by K-NET, and
\* so is a booking of the same payment (vouchers are recorded as paid by card).
KnetMethods ==
    (/\ record # NoRecord
     /\ bill.method = ""
     /\ record.shop.gateway = "KNET"
     /\ "deema" \notin bill.provider)
        => record.booking.method = "knet" /\ record.shop.method = "knet"

\* A provider's label that this service does not know reaches ushbooknpay as it is.
LabelsKept ==
    (record # NoRecord /\ bill.provider # {}
        /\ bill.provider \cap {"fatoorah", "direct", "deema", "paymentlink"} = {})
        => {record.booking.provider, record.shop.provider, record.voucher.provider} = {"as given"}

\* When the gateway's transaction has any identifier, bookings and orders record the same one
\* as the transaction's, although they fall back to payment ids that they find differently.
Traceable ==
    (record # NoRecord /\ \E id \in {"payment", "transaction"} : <<"transaction", id>> \in bill.ids)
        => /\ record.booking.transaction # Nowhere
           /\ record.shop.transaction = record.booking.transaction

=============================================================================
