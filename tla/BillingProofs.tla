---------------------------- MODULE BillingProofs ---------------------------
(***************************************************************************)
(* Billing for every set of documents and payments.  Two inductive         *)
(* invariants say that a record is made from the payment at hand and that  *)
(* an invoice's lines are made from the document at hand, and neither      *)
(* changes; the rest is about the operators that make them: how the copies *)
(* of the payment record classify a payment and find its transaction, and  *)
(* what the lines of an invoice add up to.  Sums and what is left of a     *)
(* discount are recursive functions over positions: what holds of them at  *)
(* every position is shown by a least counterexample (LeastNat).           *)
(***************************************************************************)
EXTENDS Billing, Counting, SequenceTheorems

\* A record is that of the payment at hand.
RecordOK == record \in {NoRecord, Records(bill)}

\* Nothing is recorded at first, and a payment does not change once it is recorded.
LEMMA RecordInv == Spec => []RecordOK
  <1>1. Init => RecordOK
    BY DEF Init, RecordOK
  <1>2. RecordOK /\ [Next]_vars => RecordOK'
    <2> SUFFICES ASSUME RecordOK, [Next]_vars PROVE RecordOK'
      OBVIOUS
    <2> USE DEF RecordOK
    <2>1. CASE BuildBookingInvoiceLines
      BY <2>1 DEF BuildBookingInvoiceLines, Invoice
    <2>2. CASE BuildShopOrderInvoiceLines
      BY <2>2 DEF BuildShopOrderInvoiceLines, Invoice
    <2>3. CASE BuildGiftPurchaseInvoiceLines
      BY <2>3 DEF BuildGiftPurchaseInvoiceLines, Invoice
    <2>4. CASE BuildVoucherInvoiceLines
      BY <2>4 DEF BuildVoucherInvoiceLines, Invoice
    <2>5. CASE RecordPayments
      BY <2>5 DEF RecordPayments
    <2>6. CASE UNCHANGED vars
      BY <2>6 DEF vars
    <2> QED
      BY <2>1, <2>2, <2>3, <2>4, <2>5, <2>6 DEF Next
  <1> QED
    BY <1>1, <1>2, PTL DEF Spec

-----------------------------------------------------------------------------
(* Classification.                                                         *)

\* The text found is that of the first place that has one.
LEMMA FirstTextIs ==
  ASSUME NEW p, NEW n \in Nat, NEW places, DOMAIN places = 1..n, NEW i \in 1..n,
         p.gateway[places[i]] # {},
         \A j \in 1..n : p.gateway[places[j]] # {} => i <= j
  PROVE  FirstText(p, places) = p.gateway[places[i]]
  <1> DEFINE told == {j \in DOMAIN places : p.gateway[places[j]] # {}}
  <1>2. i \in told /\ \A j \in told : i <= j
    OBVIOUS
  <1>3. \A k \in told : (\A j \in told : k <= j) => k = i
    BY <1>2
  <1>4. (CHOOSE k \in told : \A j \in told : k <= j) = i
    BY <1>2, <1>3
  <1> QED
    BY <1>2, <1>4 DEF FirstText

\* Where nothing is said there is no text.
LEMMA NoTextIs ==
  ASSUME NEW p, NEW n \in Nat, NEW places, DOMAIN places = 1..n,
         \A i \in 1..n : p.gateway[places[i]] = {}
  PROVE  FirstText(p, places) = {}
  BY DEF FirstText

\* The chains of bookings and of orders: both end at the first of the three places that they
\* share, when one of them has a text.
LEMMA BookingAndShop ==
  ASSUME NEW p,
         \/ p.gateway["event"] # {}
         \/ p.gateway["transaction"] # {}
         \/ p.gateway["camel"] # {}
  PROVE  /\ BookingText(p) = ShopText(p)
         /\ ShopText(p) # {}
         /\ \E place \in {"event", "transaction", "camel"} : ShopText(p) = p.gateway[place]
  <1> DEFINE five == <<"event", "transaction", "camel", "pascal", "snake">>
             three == <<"event", "transaction", "camel">>
             At3(i) == /\ p.gateway[three[i]] # {}
                       /\ \A j \in 1..3 : p.gateway[three[j]] # {} => i <= j
  <1>1. DOMAIN five = 1..5 /\ DOMAIN three = 1..3
    OBVIOUS
  <1>2. \A i \in 1..3 : five[i] = three[i] /\ three[i] \in {"event", "transaction", "camel"}
    OBVIOUS
  <1>3. \E i \in 1..3 : At3(i)
    <2>1. CASE p.gateway["event"] # {}
      <3>1. At3(1)
        BY <2>1
      <3> QED
        BY <3>1
    <2>2. CASE p.gateway["event"] = {} /\ p.gateway["transaction"] # {}
      <3>1. At3(2)
        BY <2>2
      <3> QED
        BY <3>1
    <2>3. CASE p.gateway["event"] = {} /\ p.gateway["transaction"] = {} /\ p.gateway["camel"] # {}
      <3>1. At3(3)
        BY <2>3
      <3> QED
        BY <3>1
    <2> QED
      BY <2>1, <2>2, <2>3
  <1>4. PICK i \in 1..3 : At3(i)
    BY <1>3
  <1> HIDE DEF five, three
  <1>5. FirstText(p, three) = p.gateway[three[i]]
    BY <1>1, <1>4, FirstTextIs, 3 \in Nat
  <1>6. \A j \in 1..5 : p.gateway[five[j]] # {} => i <= j
    <2> SUFFICES ASSUME NEW j \in 1..5, p.gateway[five[j]] # {} PROVE i <= j
      OBVIOUS
    <2>1. CASE j \in 1..3
      BY <1>2, <1>4, <2>1
    <2>2. CASE j \notin 1..3
      BY <1>4, <2>2
    <2> QED
      BY <2>1, <2>2
  <1>7. FirstText(p, five) = p.gateway[five[i]]
    <2>1. p.gateway[five[i]] # {} /\ i \in 1..5 /\ 5 \in Nat
      BY <1>2, <1>4
    <2> QED
      BY <1>1, <1>6, <2>1, FirstTextIs
  <1>8. BookingText(p) = p.gateway[three[i]]
    BY <1>2, <1>7 DEF BookingText, five
  <1>9. ShopText(p) = p.gateway[three[i]]
    BY <1>4, <1>5 DEF ShopText, three
  <1> QED
    BY <1>2, <1>4, <1>8, <1>9

\* A voucher's text is in payment_data, and it is a booking's too when the event and the
\* transaction say nothing.
LEMMA BookingAndVoucher ==
  ASSUME NEW p, p.gateway["camel"] # {} \/ p.gateway["pascal"] # {}
  PROVE  /\ VoucherText(p) # {}
         /\ \E place \in {"camel", "pascal"} : VoucherText(p) = p.gateway[place]
         /\ (p.gateway["event"] = {} /\ p.gateway["transaction"] = {})
                => BookingText(p) = VoucherText(p)
  <1> DEFINE five == <<"event", "transaction", "camel", "pascal", "snake">>
             two == <<"camel", "pascal">>
             At2(i) == /\ p.gateway[two[i]] # {}
                       /\ \A j \in 1..2 : p.gateway[two[j]] # {} => i <= j
  <1>1. DOMAIN five = 1..5 /\ DOMAIN two = 1..2
    OBVIOUS
  <1>2. \A i \in 1..2 : five[i + 2] = two[i] /\ two[i] \in {"camel", "pascal"}
    OBVIOUS
  <1>3. \E i \in 1..2 : At2(i)
    <2>1. CASE p.gateway["camel"] # {}
      <3>1. At2(1)
        BY <2>1
      <3> QED
        BY <3>1
    <2>2. CASE p.gateway["camel"] = {} /\ p.gateway["pascal"] # {}
      <3>1. At2(2)
        BY <2>2
      <3> QED
        BY <3>1
    <2> QED
      BY <2>1, <2>2
  <1>4. PICK i \in 1..2 : At2(i)
    BY <1>3
  <1>5. five[1] = "event" /\ five[2] = "transaction"
    OBVIOUS
  <1> HIDE DEF five, two
  <1>6. FirstText(p, two) = p.gateway[two[i]]
    BY <1>1, <1>4, FirstTextIs, 2 \in Nat
  <1>7. VoucherText(p) = p.gateway[two[i]]
    BY <1>6 DEF VoucherText, two
  <1>8. ASSUME p.gateway["event"] = {}, p.gateway["transaction"] = {}
        PROVE  BookingText(p) = p.gateway[two[i]]
    <2>1. \A j \in 1..5 : p.gateway[five[j]] # {} => i + 2 <= j
      <3> SUFFICES ASSUME NEW j \in 1..5, p.gateway[five[j]] # {} PROVE i + 2 <= j
        OBVIOUS
      <3>1. j # 1 /\ j # 2
        BY <1>5, <1>8
      <3>2. CASE j \in 3..4
        <4>1. j - 2 \in 1..2 /\ five[j] = two[j - 2]
          <5>1. j - 2 \in 1..2 /\ (j - 2) + 2 = j
            BY <3>2
          <5> QED
            BY <1>2, <5>1
        <4> QED
          BY <1>4, <4>1
      <3>3. CASE j = 5
        BY <3>3
      <3> QED
        BY <3>1, <3>2, <3>3
    <2>2. p.gateway[five[i + 2]] # {} /\ i + 2 \in 1..5 /\ 5 \in Nat
      BY <1>2, <1>4
    <2>3. FirstText(p, five) = p.gateway[five[i + 2]]
      BY <1>1, <2>1, <2>2, FirstTextIs
    <2> QED
      BY <1>2, <2>3 DEF BookingText, five
  <1> QED
    BY <1>2, <1>4, <1>7, <1>8

\* Where vouchers look and nothing is said, a voucher has no gateway.
LEMMA VoucherSilent ==
  ASSUME NEW p, p.gateway["camel"] = {}, p.gateway["pascal"] = {}
  PROVE  VoucherGateway(p) = "none"
  <1> DEFINE two == <<"camel", "pascal">>
  <1>1. DOMAIN two = 1..2 /\ \A i \in 1..2 : p.gateway[two[i]] = {}
    OBVIOUS
  <1> HIDE DEF two
  <1>2. FirstText(p, two) = {}
    BY <1>1, NoTextIs, 2 \in Nat
  <1> QED
    BY <1>2 DEF VoucherGateway, VoucherText, two

\* The places where an order's text may be.
LEMMA ShopPlaces ==
  LET three == <<"event", "transaction", "camel">>
  IN  DOMAIN three = 1..3 /\ \A i \in 1..3 : three[i] \in {"event", "transaction", "camel"}
  OBVIOUS

\* An order's text is in one of the three places unless the method names it.
LEMMA ShopSilent ==
  ASSUME NEW p, p.gateway["event"] = {}, p.gateway["transaction"] = {}, p.gateway["camel"] = {},
         p.method = ""
  PROVE  ShopText(p) = {}
  <1> DEFINE three == <<"event", "transaction", "camel">>
  <1>0. DOMAIN three = 1..3 /\ \A i \in 1..3 : three[i] \in {"event", "transaction", "camel"}
    BY ShopPlaces
  <1>1. DOMAIN three = 1..3 /\ \A i \in 1..3 : p.gateway[three[i]] = {}
    <2> HIDE DEF three
    <2> QED
      BY <1>0
  <1> HIDE DEF three
  <1>2. FirstText(p, three) = {}
    BY <1>1, NoTextIs, 3 \in Nat
  <1> QED
    BY <1>2 DEF ShopText, three

\* One text is classified alike by the three copies, but for Deema.
LEMMA SameShopGateway ==
  ASSUME NEW p, BookingText(p) = ShopText(p), "DEEMA" \notin ShopText(p)
  PROVE  ShopGateway(p) = BookingGateway(p)
  BY DEF ShopGateway, BookingGateway

LEMMA SameVoucherGateway ==
  ASSUME NEW p, BookingText(p) = VoucherText(p), "DEEMA" \notin VoucherText(p)
  PROVE  VoucherGateway(p) = BookingGateway(p)
  BY DEF VoucherGateway, BookingGateway

LEMMA VoucherKnown ==
  ASSUME NEW p, VoucherText(p) # {}
  PROVE  VoucherGateway(p) # "none"
  BY DEF VoucherGateway

\* The three copies that classify a gateway agree where they read the same places, whatever
\* the texts: booking.confirmed, voucher.active and the client's create_shop_order_payment.
THEOREM Agreement == Spec => []GatewaysAgree
  <1>1. RecordOK => GatewaysAgree
    <2> SUFFICES ASSUME RecordOK, record # NoRecord PROVE GatewaysAgree
      BY DEF GatewaysAgree
    <2> DEFINE Told(places) == \E place \in places : bill.gateway[place] # {}
               plain == \A place \in GatewayPlaces : "DEEMA" \notin bill.gateway[place]
    <2>1. /\ record.booking.gateway = BookingGateway(bill)
          /\ record.voucher.gateway = VoucherGateway(bill)
          /\ record.shop.gateway = ShopGateway(bill)
      BY DEF RecordOK, Records, BookingRecord, VoucherRecord, ShopRecord
    <2>2. ASSUME plain, Told({"event", "transaction", "camel"})
          PROVE  record.shop.gateway = record.booking.gateway
      <3>1. BookingText(bill) = ShopText(bill)
        BY <2>2, BookingAndShop
      <3>2. "DEEMA" \notin ShopText(bill)
        BY <2>2, BookingAndShop DEF GatewayPlaces
      <3> QED
        BY <2>1, <3>1, <3>2, SameShopGateway
    <2>3. ASSUME plain, Told({"camel", "pascal"}), ~Told({"event", "transaction"})
          PROVE  record.voucher.gateway = record.booking.gateway
      <3>1. BookingText(bill) = VoucherText(bill)
        BY <2>3, BookingAndVoucher
      <3>2. "DEEMA" \notin VoucherText(bill)
        BY <2>3, BookingAndVoucher DEF GatewayPlaces
      <3> QED
        BY <2>1, <3>1, <3>2, SameVoucherGateway
    <2>4. Told({"camel", "pascal"}) <=> record.voucher.gateway # "none"
      BY <2>1, BookingAndVoucher, VoucherKnown, VoucherSilent
    <2> QED
      BY <2>2, <2>3, <2>4 DEF GatewaysAgree
  <1> QED
    BY <1>1, RecordInv, PTL

\* The methods in the records of a payment.
LEMMA MethodsAre ==
  ASSUME NEW p
  PROVE  /\ Records(p).booking.method = BookingMethod(p)
         /\ Records(p).shop.method = ShopMethod(p)
         /\ Records(p).shop.gateway = ShopGateway(p)
  BY DEF Records, BookingRecord, ShopRecord

\* An order by K-NET without a named method is recorded as paid by K-NET, and so is a booking
\* of the same payment.
THEOREM Methods == Spec => []KnetMethods
  <1>1. RecordOK => KnetMethods
    <2> SUFFICES ASSUME RecordOK, record # NoRecord, bill.method = "",
                        record.shop.gateway = "KNET", "deema" \notin bill.provider
                 PROVE  record.booking.method = "knet" /\ record.shop.method = "knet"
      BY DEF KnetMethods
    <2>1. BookingProvider(bill) # "Deema"
      BY DEF BookingProvider, Provider
    <2>2. record = Records(bill)
      BY DEF RecordOK
    <2>3. ShopGateway(bill) = "KNET"
      BY <2>2, MethodsAre
    <2>4. ShopText(bill) \cap Knet # {}
      BY <2>3 DEF ShopGateway
    <2>5. \E place \in {"event", "transaction", "camel"} : bill.gateway[place] # {}
      BY <2>4, ShopSilent
    <2>6. BookingGateway(bill) = "KNET"
      BY <2>4, <2>5, BookingAndShop DEF BookingGateway
    <2>7. BookingMethod(bill) = "knet"
      BY <2>1, <2>6 DEF BookingMethod
    <2>8. ShopMethod(bill) = "knet"
      BY <2>3 DEF ShopMethod
    <2> QED
      BY <2>2, <2>7, <2>8, MethodsAre
  <1> QED
    BY <1>1, RecordInv, PTL

\* A provider's label that is not known is passed on as it is.
THEOREM Labels == Spec => []LabelsKept
  <1>1. RecordOK => LabelsKept
    <2> SUFFICES ASSUME RecordOK, record # NoRecord, bill.provider # {},
                        bill.provider \cap {"fatoorah", "direct", "deema", "paymentlink"} = {}
                 PROVE  {record.booking.provider, record.shop.provider, record.voucher.provider}
                            = {"as given"}
      BY DEF LabelsKept
    <2>1. Provider(bill.provider) = "as given"
      BY DEF Provider
    <2>2. /\ BookingProvider(bill) = "as given"
          /\ ShopProvider(bill) = "as given"
          /\ VoucherProvider(bill) = "as given"
      BY <2>1 DEF BookingProvider, ShopProvider, VoucherProvider
    <2>3. /\ record.booking.provider = BookingProvider(bill)
          /\ record.shop.provider = ShopProvider(bill)
          /\ record.voucher.provider = VoucherProvider(bill)
      BY DEF RecordOK, Records, BookingRecord, ShopRecord, VoucherRecord
    <2> QED
      BY <2>2, <2>3
  <1> QED
    BY <1>1, RecordInv, PTL

-----------------------------------------------------------------------------
(* Identifiers.                                                            *)

\* A chain returns the place at i if that is given and none before it is.
LEMMA FirstIs ==
  ASSUME NEW chain, NEW p, DOMAIN chain \subseteq Nat, NEW i \in DOMAIN chain,
         chain[i] \in p.ids, \A j \in DOMAIN chain : j < i => chain[j] \notin p.ids
  PROVE  FirstGiven(chain, p) = chain[i]
  <1> DEFINE found == {j \in DOMAIN chain : chain[j] \in p.ids}
             least == CHOOSE k \in found : \A j \in found : k <= j
  <1>1. i \in found /\ \A j \in found : i <= j
    OBVIOUS
  <1>2. least \in found /\ \A j \in found : least <= j
    BY <1>1
  <1>3. least = i
    BY <1>1, <1>2
  <1> QED
    BY <1>1, <1>3 DEF FirstGiven

\* The places where a payment's own transaction is looked for.
OwnChain == At("transaction", <<"event", "transaction", "gateway">>)

\* Its places, one by one.
LEMMA OwnChainIs ==
  OwnChain = << <<"event", "transaction">>, <<"transaction", "transaction">>,
                <<"gateway", "transaction">> >>
  BY DEF OwnChain, At

\* The places where bookings look for a payment id begin with those of orders.
BookingChain ==
    At("payment", Everywhere)
        \o << <<"transaction", "transaction">>, <<"gateway", "transaction">>,
              <<"gateway", "invoice">> >>

\* Its first four places, which are all that orders look at.
LEMMA PaymentChainIs ==
  At("payment", Everywhere) = << <<"event", "payment">>, <<"transaction", "payment">>,
                                 <<"gateway", "payment">>, <<"inner", "payment">> >>
  BY DEF At, Everywhere

\* Four places followed by three more.
LEMMA FourAndThree ==
  ASSUME NEW a, NEW b, NEW c, NEW d, NEW e, NEW f, NEW g
  PROVE  <<a, b, c, d>> \o <<e, f, g>> = <<a, b, c, d, e, f, g>>
  <1> DEFINE S == {a, b, c, d, e, f, g}
             s == <<a, b, c, d>>
             t == <<e, f, g>>
             u == <<a, b, c, d, e, f, g>>
  <1>1. s \in Seq(S) /\ Len(s) = 4 /\ t \in Seq(S) /\ Len(t) = 3
    OBVIOUS
  <1>2. u \in Seq(S) /\ Len(u) = 7
    OBVIOUS
  <1>3. \A i \in 1 .. 4 : u[i] = s[i]
    <2> SUFFICES ASSUME NEW i \in {1, 2, 3, 4} PROVE u[i] = s[i]
      OBVIOUS
    <2> QED
      OBVIOUS
  <1>4. \A i \in 5 .. 7 : u[i] = t[i - 4]
    <2> SUFFICES ASSUME NEW i \in {5, 6, 7} PROVE u[i] = t[i - 4]
      OBVIOUS
    <2> QED
      OBVIOUS
  <1> HIDE DEF S, s, t, u
  <1>5. /\ s \o t \in Seq(S)
        /\ Len(s \o t) = Len(s) + Len(t)
        /\ \A i \in 1 .. Len(s) + Len(t) :
               (s \o t)[i] = IF i <= Len(s) THEN s[i] ELSE t[i - Len(s)]
    BY <1>1, ConcatProperties, Zenon
  <1>6. \A i \in 1 .. 7 : (s \o t)[i] = u[i]
    <2> SUFFICES ASSUME NEW i \in 1 .. 7 PROVE (s \o t)[i] = u[i]
      OBVIOUS
    <2>1. (s \o t)[i] = IF i <= 4 THEN s[i] ELSE t[i - 4]
      BY <1>1, <1>5, SMTT(30)
    <2>2. CASE i <= 4
      BY <2>1, <2>2, <1>3
    <2>3. CASE ~(i <= 4)
      BY <2>1, <2>3, <1>4
    <2> QED
      BY <2>2, <2>3
  <1>7. s \o t = u
    <2>1. Len(s \o t) = Len(u) /\ Len(u) = 7
      BY <1>1, <1>2, <1>5
    <2> QED
      BY <2>1, <1>2, <1>5, <1>6, SeqEqual, Zenon
  <1> QED
    BY <1>7 DEF s, t, u

\* The places where bookings look for the payment id, one by one.
LEMMA BookingChainIs ==
  BookingChain = << <<"event", "payment">>, <<"transaction", "payment">>,
                    <<"gateway", "payment">>, <<"inner", "payment">>,
                    <<"transaction", "transaction">>, <<"gateway", "transaction">>,
                    <<"gateway", "invoice">> >>
  <1>1. << <<"event", "payment">>, <<"transaction", "payment">>,
           <<"gateway", "payment">>, <<"inner", "payment">> >>
            \o << <<"transaction", "transaction">>, <<"gateway", "transaction">>,
                  <<"gateway", "invoice">> >>
          = << <<"event", "payment">>, <<"transaction", "payment">>,
               <<"gateway", "payment">>, <<"inner", "payment">>,
               <<"transaction", "transaction">>, <<"gateway", "transaction">>,
               <<"gateway", "invoice">> >>
    BY FourAndThree
  <1> QED
    BY <1>1, PaymentChainIs DEF BookingChain

\* Bookings and orders find the same payment id when the transaction has one.
LEMMA SamePaymentId ==
  ASSUME NEW p, <<"transaction", "payment">> \in p.ids
  PROVE  /\ ShopPaymentId(p) = BookingPaymentId(p)
         /\ ShopPaymentId(p) \in {<<"event", "payment">>, <<"transaction", "payment">>}
  <1>1. CASE <<"event", "payment">> \in p.ids
    <2>1. FirstGiven(At("payment", Everywhere), p) = <<"event", "payment">>
      BY <1>1, PaymentChainIs, FirstIs
    <2>2. FirstGiven(BookingChain, p) = <<"event", "payment">>
      BY <1>1, BookingChainIs, FirstIs
    <2> QED
      BY <2>1, <2>2 DEF ShopPaymentId, BookingPaymentId, BookingChain
  <1>2. CASE <<"event", "payment">> \notin p.ids
    <2>1. FirstGiven(At("payment", Everywhere), p) = <<"transaction", "payment">>
      BY <1>2, PaymentChainIs, FirstIs
    <2>2. FirstGiven(BookingChain, p) = <<"transaction", "payment">>
      BY <1>2, BookingChainIs, FirstIs
    <2> QED
      BY <2>1, <2>2 DEF ShopPaymentId, BookingPaymentId, BookingChain
  <1> QED
    BY <1>1, <1>2

\* The gateway's transaction, when it has an identifier, is recorded, and the same for
\* bookings and orders.
THEOREM Tracing == Spec => []Traceable
  <1>1. RecordOK => Traceable
    <2> SUFFICES ASSUME RecordOK, record # NoRecord,
                        NEW id \in {"payment", "transaction"}, <<"transaction", id>> \in bill.ids
                 PROVE  /\ record.booking.transaction # Nowhere
                        /\ record.shop.transaction = record.booking.transaction
      BY DEF Traceable
    <2>1. /\ record.booking.transaction = TransactionId(bill, BookingPaymentId(bill))
          /\ record.shop.transaction = TransactionId(bill, ShopPaymentId(bill))
      BY DEF RecordOK, Records, BookingRecord, ShopRecord
    <2>2. CASE FirstGiven(OwnChain, bill) # Nowhere
      BY <2>1, <2>2 DEF TransactionId, OwnChain
    <2>3. CASE FirstGiven(OwnChain, bill) = Nowhere
      <3>1. <<"transaction", "transaction">> \notin bill.ids
        <4> SUFFICES ASSUME <<"transaction", "transaction">> \in bill.ids PROVE FALSE
          OBVIOUS
        <4>1. CASE <<"event", "transaction">> \in bill.ids
          <5>1. FirstGiven(OwnChain, bill) = <<"event", "transaction">>
            BY <4>1, OwnChainIs, FirstIs
          <5> QED
            BY <5>1, <2>3 DEF Nowhere
        <4>2. CASE <<"event", "transaction">> \notin bill.ids
          <5>1. FirstGiven(OwnChain, bill) = <<"transaction", "transaction">>
            BY <4>2, OwnChainIs, FirstIs
          <5> QED
            BY <5>1, <2>3 DEF Nowhere
        <4> QED
          BY <4>1, <4>2
      <3>2. <<"transaction", "payment">> \in bill.ids
        BY <3>1
      <3> QED
        BY <2>1, <2>3, <3>2, SamePaymentId DEF TransactionId, OwnChain, Nowhere
    <2> QED
      BY <2>2, <2>3
  <1> QED
    BY <1>1, RecordInv, PTL

-----------------------------------------------------------------------------
(* Sums.  Total is a recursive function over the positions of the lines;   *)
(* what holds of it at every position is shown by a least counterexample.  *)

BillLine == [price : Nat, quantity : Nat \ {0}, off : 0..100]

\* f is the sum of the lines up to each position.
IsSum(f, ls, k) ==
    f = [n \in 0..k |-> IF n = 0 THEN 0 ELSE f[n - 1] + Amount(ls[n])]
Sums(f, ls, k) ==
    f[0] = 0 /\ \A n \in 1..k : f[n] = f[n - 1] + Amount(ls[n])

\* There is such a sum.
LEMMA SumExists ==
  ASSUME NEW ls, NEW k \in Nat
  PROVE  \E f : IsSum(f, ls, k)
  <1> DEFINE T == {n \in Nat : ~\E f : IsSum(f, ls, n)}
  <1>1. ASSUME T # {} PROVE FALSE
    <2>1. PICK n \in T : \A m \in T : n <= m
      <3>1. T \in SUBSET Nat
        OBVIOUS
      <3> HIDE DEF T
      <3> QED
        BY <1>1, <3>1, LeastNat
    <2>2. CASE n = 0
      <3>1. IsSum([i \in 0..0 |-> 0], ls, 0)
        BY DEF IsSum
      <3> QED
        BY <2>2, <3>1
    <2>3. CASE n # 0
      <3>1. n - 1 \in Nat /\ ~(n <= n - 1)
        BY <2>3
      <3>2. PICK f : IsSum(f, ls, n - 1)
        BY <2>1, <3>1
      <3> DEFINE g == [i \in 0..n |-> IF i = n THEN f[n - 1] + Amount(ls[n]) ELSE f[i]]
      <3>3. \A i \in 0..n : g[i] = IF i = 0 THEN 0 ELSE g[i - 1] + Amount(ls[i])
        <4> TAKE i \in 0..n
        <4>1. CASE i = n
          BY <2>3, <4>1
        <4>2. CASE i # n
          <5>1. i \in 0..(n - 1) /\ (i # 0 => i - 1 \in 0..(n - 1) /\ i - 1 # n)
            BY <4>2
          <5>2. f[i] = IF i = 0 THEN 0 ELSE f[i - 1] + Amount(ls[i])
            BY <3>2, <5>1 DEF IsSum
          <5> QED
            BY <4>2, <5>1, <5>2
        <4> QED
          BY <4>1, <4>2
      <3>4. IsSum(g, ls, n)
        <4> HIDE DEF g
        <4> QED
          BY <3>3 DEF IsSum, g
      <3> QED
        BY <3>4
    <2> QED
      BY <2>2, <2>3
  <1> QED
    BY <1>1

\* Total is its last value.
LEMMA TotalSums ==
  ASSUME NEW ls, Len(ls) \in Nat
  PROVE  \E f : Sums(f, ls, Len(ls)) /\ Total(ls) = f[Len(ls)]
  <1>1. \E f : f = [n \in 0..Len(ls) |-> IF n = 0 THEN 0 ELSE f[n - 1] + Amount(ls[n])]
    BY SumExists DEF IsSum
  <1>2. \E f : IsSum(f, ls, Len(ls)) /\ Total(ls) = f[Len(ls)]
    BY <1>1 DEF Total, IsSum
  <1>3. ASSUME NEW f, IsSum(f, ls, Len(ls)) PROVE Sums(f, ls, Len(ls))
    BY <1>3 DEF IsSum, Sums
  <1> QED
    BY <1>2, <1>3

\* Sums are natural numbers.
LEMMA SumsNat ==
  ASSUME NEW k \in Nat, NEW ls, \A i \in 1..k : Amount(ls[i]) \in Nat, NEW f, Sums(f, ls, k)
  PROVE  \A n \in 0..k : f[n] \in Nat
  <1> DEFINE T == {n \in 0..k : f[n] \notin Nat}
  <1>1. ASSUME T # {} PROVE FALSE
    <2>1. PICK n \in T : \A m \in T : n <= m
      <3>1. T \in SUBSET Nat
        OBVIOUS
      <3> HIDE DEF T
      <3> QED
        BY <1>1, <3>1, LeastNat
    <2>2. n # 0
      BY DEF Sums
    <2>3. n - 1 \in 0..k /\ n \in 1..k /\ ~(n <= n - 1)
      BY <2>2
    <2>4. f[n - 1] \in Nat
      BY <2>1, <2>3
    <2> QED
      BY <2>3, <2>4 DEF Sums
  <1> QED
    BY <1>1

\* The sum of other lines that are d more at one place (nowhere, if d is zero).
Shifted(ls, ms, k, d, j) ==
    \A i \in 1..k : /\ Amount(ls[i]) \in Nat
                    /\ Amount(ms[i]) = Amount(ls[i]) + (IF i = j THEN d ELSE 0)
LEMMA SumsShift ==
  ASSUME NEW k \in Nat, NEW ls, NEW f, Sums(f, ls, k), NEW ms, NEW g, Sums(g, ms, k),
         NEW d \in Int, NEW j \in Nat, Shifted(ls, ms, k, d, j)
  PROVE  \A n \in 0..k : f[n] \in Nat /\ g[n] = f[n] + (IF 0 < j /\ j <= n THEN d ELSE 0)
  <1> DEFINE T == {n \in 0..k : g[n] # f[n] + (IF 0 < j /\ j <= n THEN d ELSE 0)}
  <1>0. \A n \in 0..k : f[n] \in Nat
    BY SumsNat DEF Shifted
  <1>1. ASSUME T # {} PROVE FALSE
    <2>1. PICK n \in T : \A m \in T : n <= m
      <3>1. T \in SUBSET Nat
        OBVIOUS
      <3> HIDE DEF T
      <3> QED
        BY <1>1, <3>1, LeastNat
    <2>2. n # 0
      BY DEF Sums
    <2>3. n - 1 \in 0..k /\ n \in 1..k /\ ~(n <= n - 1)
      BY <2>2
    <2>4. g[n - 1] = f[n - 1] + (IF 0 < j /\ j <= n - 1 THEN d ELSE 0)
      BY <2>1, <2>3
    <2>5. /\ g[n] = g[n - 1] + (Amount(ls[n]) + (IF n = j THEN d ELSE 0))
          /\ f[n] = f[n - 1] + Amount(ls[n])
      BY <2>3 DEF Sums, Shifted
    <2>6. f[n - 1] \in Nat /\ Amount(ls[n]) \in Nat
      BY <1>0, <2>3 DEF Shifted
    <2>7. g[n] = f[n] + (IF 0 < j /\ j <= n THEN d ELSE 0)
      BY <2>3, <2>4, <2>5, <2>6
    <2> QED
      BY <2>7
  <1> QED
    BY <1>0, <1>1

\* What lines amount to.
LEMMA AmountNat ==
  /\ \A line \in BillLine : Amount(line) \in Nat /\ (line.quantity = 1 => Amount(line) = line.price)
  /\ \A p \in Nat : /\ Line(p) \in BillLine /\ Line(p).quantity = 1 /\ Amount(Line(p)) = p
                    /\ Line(p).price = p
  <1>1. \A p, q \in Nat : p * q \in Nat /\ p * 1 = p
    OBVIOUS
  <1>2. ASSUME NEW line \in BillLine
        PROVE  Amount(line) \in Nat /\ (line.quantity = 1 => Amount(line) = line.price)
    BY <1>1 DEF BillLine, Amount
  <1>3. ASSUME NEW p \in Nat
        PROVE  /\ Line(p) \in BillLine /\ Line(p).quantity = 1 /\ Amount(Line(p)) = p
               /\ Line(p).price = p
    BY <1>1 DEF BillLine, Line, Amount
  <1> QED
    BY <1>2, <1>3

\* The total of lines is a natural number; lines of the same amounts have the same total.
LEMMA TotalNat ==
  ASSUME NEW ls \in Seq(BillLine)
  PROVE  Total(ls) \in Nat
  <1>1. Len(ls) \in Nat /\ \A i \in 1..Len(ls) : Amount(ls[i]) \in Nat
    BY LenProperties, AmountNat
  <1>2. PICK f : Sums(f, ls, Len(ls)) /\ Total(ls) = f[Len(ls)]
    BY <1>1, TotalSums
  <1> QED
    BY <1>1, <1>2, SumsNat

\* The total of lines that are d more at one place.
LEMMA TotalShift ==
  ASSUME NEW ls \in Seq(BillLine), NEW ms, Len(ms) = Len(ls), NEW d \in Int,
         NEW j \in Nat, Shifted(ls, ms, Len(ls), d, j)
  PROVE  Total(ms) = Total(ls) + (IF j \in 1..Len(ls) THEN d ELSE 0)
  <1>1. Len(ls) \in Nat /\ \A i \in 1..Len(ls) : Amount(ls[i]) \in Nat
    BY LenProperties, AmountNat
  <1>2. PICK f : Sums(f, ls, Len(ls)) /\ Total(ls) = f[Len(ls)]
    BY <1>1, TotalSums
  <1>3. PICK g : Sums(g, ms, Len(ls)) /\ Total(ms) = g[Len(ls)]
    BY <1>1, TotalSums
  <1>4. \A n \in 0..Len(ls) : g[n] = f[n] + (IF 0 < j /\ j <= n THEN d ELSE 0)
    BY <1>1, <1>2, <1>3, SumsShift
  <1>5. Len(ls) \in 0..Len(ls) /\ (j \in 1..Len(ls) <=> 0 < j /\ j <= Len(ls))
    BY <1>1
  <1> QED
    BY <1>2, <1>3, <1>4, <1>5

\* One line more.
LEMMA TotalAppend ==
  ASSUME NEW ls \in Seq(BillLine), NEW x \in BillLine
  PROVE  /\ Append(ls, x) \in Seq(BillLine) /\ ls \o <<x>> = Append(ls, x)
         /\ Total(Append(ls, x)) = Total(ls) + Amount(x)
  <1> DEFINE ms == Append(ls, x)
  <1>1. /\ Len(ls) \in Nat /\ \A i \in 1..Len(ls) : Amount(ls[i]) \in Nat
        /\ Amount(x) \in Nat
    BY LenProperties, AmountNat
  <1>2. /\ ms \in Seq(BillLine) /\ Len(ms) = Len(ls) + 1 /\ ms[Len(ls) + 1] = x
        /\ \A i \in 1..Len(ls) : ms[i] = ls[i]
    OBVIOUS
  <1>3. ls \o <<x>> = ms
    OBVIOUS
  <1> HIDE DEF ms
  <1>4. PICK f : Sums(f, ls, Len(ls)) /\ Total(ls) = f[Len(ls)]
    BY <1>1, TotalSums
  <1>5. PICK g : Sums(g, ms, Len(ls) + 1) /\ Total(ms) = g[Len(ls) + 1]
    BY <1>1, <1>2, TotalSums
  <1>6. Sums(g, ms, Len(ls)) /\ g[Len(ls) + 1] = g[Len(ls)] + Amount(x)
    BY <1>1, <1>2, <1>5 DEF Sums
  <1>7. Shifted(ls, ms, Len(ls), 0, 0)
    BY <1>1, <1>2 DEF Shifted
  <1>8. \A n \in 0..Len(ls) : f[n] \in Nat /\ g[n] = f[n]
    BY <1>1, <1>4, <1>6, <1>7, SumsShift
  <1>9. f[Len(ls)] \in Nat /\ g[Len(ls)] = f[Len(ls)]
    BY <1>1, <1>8
  <1> QED
    BY <1>2, <1>3, <1>4, <1>5, <1>6, <1>9 DEF ms

-----------------------------------------------------------------------------
(* The discount and the repair.                                            *)

\* What is left of the discount after each line.
IsLeft(f, discount, ls, k) ==
    f = [n \in 0..k |-> IF n = 0 THEN discount ELSE f[n - 1] - Cut(f[n - 1], ls[n])]

\* There is such a function.
LEMMA LeftExists ==
  ASSUME NEW discount, NEW ls, NEW k \in Nat
  PROVE  \E f : IsLeft(f, discount, ls, k)
  <1> DEFINE T == {n \in Nat : ~\E f : IsLeft(f, discount, ls, n)}
  <1>1. ASSUME T # {} PROVE FALSE
    <2>1. PICK n \in T : \A m \in T : n <= m
      <3>1. T \in SUBSET Nat
        OBVIOUS
      <3> HIDE DEF T
      <3> QED
        BY <1>1, <3>1, LeastNat
    <2>2. CASE n = 0
      <3>1. IsLeft([i \in 0..0 |-> discount], discount, ls, 0)
        BY DEF IsLeft
      <3> QED
        BY <2>2, <3>1
    <2>3. CASE n # 0
      <3>1. n - 1 \in Nat /\ ~(n <= n - 1)
        BY <2>3
      <3>2. PICK f : IsLeft(f, discount, ls, n - 1)
        BY <2>1, <3>1
      <3> DEFINE g == [i \in 0..n |-> IF i = n THEN f[n - 1] - Cut(f[n - 1], ls[n]) ELSE f[i]]
      <3>3. \A i \in 0..n : g[i] = IF i = 0 THEN discount ELSE g[i - 1] - Cut(g[i - 1], ls[i])
        <4> TAKE i \in 0..n
        <4>1. CASE i = n
          BY <2>3, <4>1
        <4>2. CASE i # n
          <5>1. i \in 0..(n - 1) /\ (i # 0 => i - 1 \in 0..(n - 1) /\ i - 1 # n)
            BY <4>2
          <5>2. f[i] = IF i = 0 THEN discount ELSE f[i - 1] - Cut(f[i - 1], ls[i])
            BY <3>2, <5>1 DEF IsLeft
          <5> QED
            BY <4>2, <5>1, <5>2
        <4> QED
          BY <4>1, <4>2
      <3>4. IsLeft(g, discount, ls, n)
        <4> HIDE DEF g
        <4> QED
          BY <3>3 DEF IsLeft, g
      <3> QED
        BY <3>4
    <2> QED
      BY <2>2, <2>3
  <1> QED
    BY <1>1

\* Deduct takes those cuts off the lines.
Leaves(l, discount, ls, k) ==
    l[0] = discount /\ \A n \in 1..k : l[n] = l[n - 1] - Cut(l[n - 1], ls[n])
Cheapens(l, discount, ls) ==
    /\ Leaves(l, discount, ls, Len(ls))
    /\ Deduct(discount, ls) = [i \in DOMAIN ls |-> Cheaper(ls[i], Cut(l[i - 1], ls[i]))]
LEMMA DeductIs ==
  ASSUME NEW discount, NEW ls, Len(ls) \in Nat
  PROVE  \E l : Cheapens(l, discount, ls)
  <1>1. \E f : f = [n \in 0..Len(ls) |-> IF n = 0 THEN discount
                                         ELSE f[n - 1] - Cut(f[n - 1], ls[n])]
    <2>1. PICK f : IsLeft(f, discount, ls, Len(ls))
      BY LeftExists
    <2> QED
      BY <2>1, Zenon DEF IsLeft
  <1>2. \E f : /\ IsLeft(f, discount, ls, Len(ls))
               /\ Deduct(discount, ls) = [i \in DOMAIN ls |-> Cheaper(ls[i], Cut(f[i - 1], ls[i]))]
    BY <1>1 DEF Deduct, IsLeft
  <1>3. ASSUME NEW f, IsLeft(f, discount, ls, Len(ls)) PROVE Leaves(f, discount, ls, Len(ls))
    BY <1>3 DEF IsLeft, Leaves
  <1> QED
    BY <1>2, <1>3 DEF Cheapens

\* A cut is no more than the line, nor than what is left.
LEMMA CutIs ==
  ASSUME NEW left \in Nat, NEW line \in BillLine
  PROVE  /\ Cut(left, line) \in Nat /\ left - Cut(left, line) \in Nat
         /\ Amount(line) - Cut(left, line) \in Nat
         /\ Cut(left, line) = IF Amount(line) <= left THEN Amount(line) ELSE left
  <1>1. Amount(line) \in Nat
    BY AmountNat
  <1> QED
    BY <1>1 DEF Cut, Least

\* Quantize does not go below zero, and does nothing to a whole line.
LEMMA QuantizedNat ==
  ASSUME NEW a \in Nat, NEW n \in Nat \ {0}
  PROVE  Quantized(a, n) \in Nat /\ Quantized(a, 1) = a
  <1>1. a \div n \in Nat /\ a \div 1 = a /\ a % 1 = 0
    OBVIOUS
  <1> QED
    BY <1>1 DEF Quantized

\* A cheaper line.
LEMMA CheaperIs ==
  ASSUME NEW line \in BillLine, NEW cut \in Nat, Amount(line) - cut \in Nat
  PROVE  /\ Cheaper(line, cut) \in BillLine
         /\ Cheaper(line, cut).quantity = line.quantity
         /\ line.quantity = 1 => Amount(Cheaper(line, cut)) = Amount(line) - cut
         /\ cut = 0 => Cheaper(line, cut) = line
  <1> DEFINE p == Quantized(Amount(line) - cut, line.quantity)
             new == [line EXCEPT !.price = p]
  <1>1. line.quantity \in Nat \ {0} /\ line.off \in 0..100
    BY DEF BillLine
  <1>2. p \in Nat /\ (line.quantity = 1 => p = Amount(line) - cut)
    BY <1>1, QuantizedNat
  <1> HIDE DEF p
  <1>3. new \in BillLine /\ new.quantity = line.quantity /\ new.price = p
    BY <1>1, <1>2 DEF BillLine
  <1>4. line.quantity = 1 => Amount(new) = p
    BY <1>3, AmountNat
  <1>5. cut # 0 => Cheaper(line, cut) = new
    BY DEF Cheaper, p
  <1>6. cut = 0 => Cheaper(line, cut) = line
    BY DEF Cheaper
  <1>7. cut = 0 => Amount(line) - cut = Amount(line)
    BY AmountNat
  <1> HIDE DEF new
  <1> QED
    BY <1>2, <1>3, <1>4, <1>5, <1>6, <1>7

\* What is left is never negative, and it stays nothing once it is nothing.
LEMMA LeavesNat ==
  ASSUME NEW k \in Nat, NEW ls, \A i \in 1..k : ls[i] \in BillLine, NEW discount \in Nat,
         NEW l, Leaves(l, discount, ls, k)
  PROVE  \A n \in 0..k : l[n] \in Nat /\ (discount = 0 => l[n] = 0)
  <1> DEFINE T == {n \in 0..k : ~(l[n] \in Nat /\ (discount = 0 => l[n] = 0))}
  <1>1. ASSUME T # {} PROVE FALSE
    <2>1. PICK n \in T : \A m \in T : n <= m
      <3>1. T \in SUBSET Nat
        OBVIOUS
      <3> HIDE DEF T
      <3> QED
        BY <1>1, <3>1, LeastNat
    <2>2. n # 0
      BY DEF Leaves
    <2>3. n - 1 \in 0..k /\ n \in 1..k /\ ~(n <= n - 1)
      BY <2>2
    <2>4. l[n - 1] \in Nat /\ (discount = 0 => l[n - 1] = 0)
      BY <2>1, <2>3
    <2>5. ls[n] \in BillLine /\ l[n] = l[n - 1] - Cut(l[n - 1], ls[n])
      BY <2>3 DEF Leaves
    <2>6. l[n] \in Nat /\ Cut(l[n - 1], ls[n]) \in Nat
      BY <2>4, <2>5, CutIs
    <2>7. discount = 0 => l[n] = 0
      BY <2>4, <2>5, <2>6
    <2> QED
      BY <2>6, <2>7
  <1> QED
    BY <1>1

\* The discount makes no line negative and changes no quantity; without one, nothing changes.
LEMMA DeductLines ==
  ASSUME NEW ls \in Seq(BillLine), NEW discount \in Nat
  PROVE  /\ Deduct(discount, ls) \in Seq(BillLine)
         /\ Len(Deduct(discount, ls)) = Len(ls)
         /\ \A i \in 1..Len(ls) : Deduct(discount, ls)[i].quantity = ls[i].quantity
         /\ discount = 0 => Deduct(discount, ls) = ls
  <1> DEFINE k == Len(ls)
  <1>1. k \in Nat /\ DOMAIN ls = 1..k /\ \A i \in 1..k : ls[i] \in BillLine
    BY LenProperties
  <1>2. PICK l : Cheapens(l, discount, ls)
    BY <1>1, DeductIs
  <1> HIDE DEF k
  <1>3. ASSUME NEW i \in 1..k
        PROVE  /\ Cheaper(ls[i], Cut(l[i - 1], ls[i])) \in BillLine
               /\ Cheaper(ls[i], Cut(l[i - 1], ls[i])).quantity = ls[i].quantity
               /\ discount = 0 => Cheaper(ls[i], Cut(l[i - 1], ls[i])) = ls[i]
    <2>1. i - 1 \in 0..k /\ ls[i] \in BillLine
      BY <1>1
    <2>2. l[i - 1] \in Nat /\ (discount = 0 => l[i - 1] = 0)
      BY <1>1, <1>2, <2>1, LeavesNat DEF Cheapens, k
    <2>3. /\ Cut(l[i - 1], ls[i]) \in Nat
          /\ Amount(ls[i]) - Cut(l[i - 1], ls[i]) \in Nat
      BY <2>1, <2>2, CutIs
    <2>4. discount = 0 => Cut(l[i - 1], ls[i]) = 0
      BY <2>2 DEF Cut
    <2> QED
      BY <2>1, <2>3, <2>4, CheaperIs
  <1> DEFINE D == [i \in 1..k |-> Cheaper(ls[i], Cut(l[i - 1], ls[i]))]
  <1>4. D \in Seq(BillLine) /\ Len(D) = k
    BY <1>1, <1>3
  <1>5. \A i \in 1..k : D[i].quantity = ls[i].quantity
    BY <1>3
  <1>6. ASSUME discount = 0 PROVE D = ls
    <2>1. \A i \in 1..k : D[i] = ls[i]
      BY <1>3, <1>6
    <2> HIDE DEF D
    <2> QED
      BY <1>4, <2>1, SeqEqual DEF k
  <1> HIDE DEF D
  <1>7. Deduct(discount, ls) = D
    BY <1>1, <1>2 DEF D, Cheapens
  <1> QED
    BY <1>4, <1>5, <1>6, <1>7 DEF k

\* One line's part: with the sum f, what is left and the sum of the cheaper lines go on.
Keeps(f, l, g, discount) ==
    /\ l = IF f < discount THEN discount - f ELSE 0
    /\ g = f - (discount - l)
LEMMA OneDeducted ==
  ASSUME NEW f \in Nat, NEW l \in Nat, NEW g, NEW discount \in Nat, Keeps(f, l, g, discount),
         NEW a \in Nat, NEW cut, cut = IF a <= l THEN a ELSE l
  PROVE  Keeps(f + a, l - cut, g + (a - cut), discount)
  BY DEF Keeps

\* Of single items it takes as much as it can: they add up to what is stated.
LEMMA DeductTotal ==
  ASSUME NEW ls \in Seq(BillLine), NEW discount \in Nat, \A i \in 1..Len(ls) : ls[i].quantity = 1
  PROVE  Total(Deduct(discount, ls)) = Stated(ls, discount)
  <1> DEFINE k == Len(ls)
             D == Deduct(discount, ls)
  <1>1. k \in Nat /\ DOMAIN ls = 1..k /\ \A i \in 1..k : ls[i] \in BillLine
    BY LenProperties
  <1>2. \A i \in 1..k : Amount(ls[i]) \in Nat
    BY <1>1, AmountNat
  <1>3. Len(D) = k
    BY DeductLines
  <1>4. PICK l : /\ Leaves(l, discount, ls, Len(ls))
                 /\ D = [i \in DOMAIN ls |-> Cheaper(ls[i], Cut(l[i - 1], ls[i]))]
    BY <1>1, DeductIs DEF Cheapens
  <1>5. PICK f : Sums(f, ls, k) /\ Total(ls) = f[k]
    BY <1>1, TotalSums
  <1> HIDE DEF D
  <1>6. PICK g : Sums(g, D, k) /\ Total(D) = g[k]
    BY <1>1, <1>3, TotalSums
  <1>7. \A i \in 1..k : ls[i].quantity = 1
    OBVIOUS
  <1> HIDE DEF k
  <1>8. \A n \in 0..k : f[n] \in Nat /\ l[n] \in Nat
    BY <1>1, <1>2, <1>4, <1>5, LeavesNat, SumsNat DEF k
  <1>9. ASSUME NEW n \in 1..k
        PROVE  Amount(D[n]) = Amount(ls[n]) - Cut(l[n - 1], ls[n])
    <2>1. n - 1 \in 0..k
      BY <1>1
    <2>2. l[n - 1] \in Nat /\ ls[n] \in BillLine /\ ls[n].quantity = 1
      BY <1>1, <1>7, <1>8, <2>1
    <2>3. D[n] = Cheaper(ls[n], Cut(l[n - 1], ls[n]))
      BY <1>1, <1>4
    <2>4. /\ Cut(l[n - 1], ls[n]) \in Nat
          /\ Amount(ls[n]) - Cut(l[n - 1], ls[n]) \in Nat
      BY <2>2, CutIs
    <2>5. Amount(Cheaper(ls[n], Cut(l[n - 1], ls[n]))) = Amount(ls[n]) - Cut(l[n - 1], ls[n])
      BY <2>2, <2>4, CheaperIs
    <2> QED
      BY <2>3, <2>5
  <1> DEFINE T == {n \in 0..k : ~Keeps(f[n], l[n], g[n], discount)}
  <1>10. ASSUME T # {} PROVE FALSE
    <2>1. PICK n \in T : \A m \in T : n <= m
      <3>1. T \in SUBSET Nat
        OBVIOUS
      <3> HIDE DEF T
      <3> QED
        BY <1>10, <3>1, LeastNat
    <2>2. n # 0
      <3>1. Keeps(f[0], l[0], g[0], discount)
        BY <1>4, <1>5, <1>6 DEF Leaves, Sums, Keeps
      <3> QED
        BY <3>1
    <2>3. n - 1 \in 0..k /\ n \in 1..k /\ ~(n <= n - 1)
      BY <1>1, <2>2
    <2>4. Keeps(f[n - 1], l[n - 1], g[n - 1], discount)
      BY <2>1, <2>3
    <2>5. f[n - 1] \in Nat /\ l[n - 1] \in Nat /\ Amount(ls[n]) \in Nat /\ ls[n] \in BillLine
      BY <1>1, <1>2, <1>8, <2>3
    <2> DEFINE cut == Cut(l[n - 1], ls[n])
               a == Amount(ls[n])
    <2>6. cut = IF a <= l[n - 1] THEN a ELSE l[n - 1]
      BY <2>5, CutIs
    <2>7. f[n] = f[n - 1] + a /\ l[n] = l[n - 1] - cut /\ g[n] = g[n - 1] + (a - cut)
      <3>1. f[n] = f[n - 1] + a
        BY <1>5, <2>3 DEF Sums
      <3>2. l[n] = l[n - 1] - cut
        BY <1>4, <2>3 DEF Leaves, k
      <3>3. g[n] = g[n - 1] + Amount(D[n])
        BY <1>6, <2>3 DEF Sums
      <3> QED
        BY <1>9, <2>3, <3>1, <3>2, <3>3
    <2>8. a \in Nat
      BY <2>5
    <2> HIDE DEF cut, a
    <2>9. Keeps(f[n - 1] + a, l[n - 1] - cut, g[n - 1] + (a - cut), discount)
      BY <2>4, <2>5, <2>6, <2>8, OneDeducted
    <2>10. Keeps(f[n], l[n], g[n], discount)
      BY <2>7, <2>9
    <2> QED
      BY <2>10
  <1>11. k \in 0..k
    BY <1>1
  <1>12. f[k] \in Nat /\ Keeps(f[k], l[k], g[k], discount)
    BY <1>8, <1>10, <1>11
  <1> QED
    BY <1>5, <1>6, <1>12 DEF Stated, D, Keeps

\* Lines of less than ten amount to less than ten each.
LEMMA TotalSmall ==
  ASSUME NEW ls \in Seq(BillLine), \A i \in 1..Len(ls) : Amount(ls[i]) <= 9
  PROVE  Total(ls) <= 9 * Len(ls)
  <1> DEFINE k == Len(ls)
  <1>1. k \in Nat /\ \A i \in 1..k : Amount(ls[i]) \in Nat /\ Amount(ls[i]) <= 9
    BY LenProperties, AmountNat
  <1>2. PICK f : Sums(f, ls, k) /\ Total(ls) = f[k]
    BY <1>1, TotalSums
  <1> HIDE DEF k
  <1>3. \A n \in 0..k : f[n] \in Nat
    BY <1>1, <1>2, SumsNat
  <1> DEFINE T == {n \in 0..k : ~(f[n] <= 9 * n)}
  <1>4. ASSUME T # {} PROVE FALSE
    <2>1. PICK n \in T : \A m \in T : n <= m
      <3>1. T \in SUBSET Nat
        OBVIOUS
      <3> HIDE DEF T
      <3> QED
        BY <1>4, <3>1, LeastNat
    <2>2. n # 0
      BY <1>2 DEF Sums
    <2>3. n - 1 \in 0..k /\ n \in 1..k /\ ~(n <= n - 1)
      BY <1>1, <2>2
    <2>4. f[n - 1] <= 9 * (n - 1) /\ f[n - 1] \in Nat
      BY <1>3, <2>1, <2>3
    <2>5. f[n] = f[n - 1] + Amount(ls[n]) /\ Amount(ls[n]) \in Nat /\ Amount(ls[n]) <= 9
      BY <1>1, <1>2, <2>3 DEF Sums
    <2>6. f[n] <= 9 * n
      BY <2>3, <2>4, <2>5
    <2> QED
      BY <2>6
  <1>5. k \in 0..k
    BY <1>1
  <1>6. f[k] <= 9 * k
    BY <1>4, <1>5
  <1> QED
    BY <1>2, <1>6 DEF k

\* The repair changes nothing, or the price of one line, which is then not negative.
Repaired(ls, ms, i, diff) ==
    /\ i \in 1..Len(ls) /\ ls[i].price + diff >= 0
    /\ ms = [ls EXCEPT ![i].price = @ + diff]
LEMMA RepairIs ==
  ASSUME NEW ls \in Seq(BillLine), NEW total \in Nat
  PROVE  LET diff == total - Total(ls)
             able == {i \in DOMAIN ls : ls[i].price + diff >= 0}
         IN  /\ (total = 0 \/ diff = 0 \/ Size(diff) > 10 \/ able = {}) => Repair(total, ls) = ls
             /\ ~(total = 0 \/ diff = 0 \/ Size(diff) > 10 \/ able = {})
                    => \E i : Repaired(ls, Repair(total, ls), i, diff)
  <1> DEFINE diff == total - Total(ls)
             able == {i \in DOMAIN ls : ls[i].price + diff >= 0}
             least == CHOOSE i \in able : \A j \in able : i <= j
  <1>1. diff \in Int /\ Size(diff) \in Int
    BY TotalNat DEF Size
  <1>2. DOMAIN ls = 1..Len(ls) /\ Len(ls) \in Nat
    BY LenProperties
  <1>3. ASSUME able # {} PROVE least \in able
    <2>1. able \in SUBSET Nat
      BY <1>2
    <2>2. \E i \in able : \A j \in able : i <= j
      <3> HIDE DEF able
      <3> QED
        BY <1>3, <2>1, LeastNat
    <2> HIDE DEF able
    <2> QED
      BY <2>2
  <1>4. Repair(total, ls) = IF total > 0 /\ diff # 0 /\ Size(diff) <= 10 /\ able # {}
                            THEN [ls EXCEPT ![least].price = @ + diff] ELSE ls
    BY DEF Repair
  <1>5. ASSUME total = 0 \/ diff = 0 \/ Size(diff) > 10 \/ able = {} PROVE Repair(total, ls) = ls
    <2> HIDE DEF able, least, diff
    <2> QED
      BY <1>1, <1>4, <1>5
  <1>6. ASSUME ~(total = 0 \/ diff = 0 \/ Size(diff) > 10 \/ able = {})
        PROVE  Repaired(ls, Repair(total, ls), least, diff)
    <2>1. Repair(total, ls) = [ls EXCEPT ![least].price = @ + diff]
      <3> HIDE DEF able, least, diff
      <3> QED
        BY <1>1, <1>4, <1>6
    <2>2. least \in 1..Len(ls) /\ ls[least].price + diff >= 0
      BY <1>2, <1>3, <1>6
    <2> HIDE DEF able, least, diff
    <2> QED
      BY <2>1, <2>2 DEF Repaired
  <1> QED
    BY <1>5, <1>6

\* A repaired line.
LEMMA RepairedIs ==
  ASSUME NEW ls \in Seq(BillLine), NEW diff \in Int, NEW i, NEW ms, Repaired(ls, ms, i, diff)
  PROVE  /\ ms \in Seq(BillLine) /\ Len(ms) = Len(ls)
         /\ \A j \in 1..Len(ls) : /\ ms[j].quantity = ls[j].quantity
                                  /\ ms[j].price = ls[j].price + (IF j = i THEN diff ELSE 0)
  <1> DEFINE k == Len(ls)
             one == [ls[i] EXCEPT !.price = ls[i].price + diff]
  <1>1. k \in Nat /\ DOMAIN ls = 1..k /\ \A j \in 1..k : ls[j] \in BillLine
    BY LenProperties
  <1>2. i \in 1..k /\ ls[i].price + diff \in Nat
    BY <1>1 DEF Repaired, BillLine
  <1>3. one \in BillLine /\ one.quantity = ls[i].quantity /\ one.price = ls[i].price + diff
    BY <1>1, <1>2 DEF BillLine
  <1>4. ms = [ls EXCEPT ![i] = one]
    BY DEF Repaired
  <1> HIDE DEF one
  <1>5. ms \in Seq(BillLine) /\ Len(ms) = k /\ \A j \in 1..k : ms[j] = IF j = i THEN one ELSE ls[j]
    BY <1>1, <1>2, <1>3, <1>4
  <1> HIDE DEF k
  <1>6. ASSUME NEW j \in 1..k
        PROVE  /\ ms[j].quantity = ls[j].quantity
               /\ ms[j].price = ls[j].price + (IF j = i THEN diff ELSE 0)
    <2>1. CASE j = i
      BY <1>3, <1>5, <2>1
    <2>2. CASE j # i
      <3>1. ms[j] = ls[j] /\ ls[j].price \in Nat
        BY <1>1, <1>5, <2>2 DEF BillLine
      <3> QED
        BY <2>2, <3>1
    <2> QED
      BY <2>1, <2>2
  <1> QED
    BY <1>5, <1>6 DEF k

\* The repair keeps lines lines, and as many.
LEMMA RepairLines ==
  ASSUME NEW ls \in Seq(BillLine), NEW total \in Nat
  PROVE  Repair(total, ls) \in Seq(BillLine) /\ Len(Repair(total, ls)) = Len(ls)
  <1> DEFINE diff == total - Total(ls)
  <1>1. diff \in Int
    BY TotalNat
  <1>2. Repair(total, ls) = ls \/ \E i : Repaired(ls, Repair(total, ls), i, diff)
    BY RepairIs
  <1> HIDE DEF diff
  <1> QED
    BY <1>1, <1>2, RepairedIs

\* Single lines of ten or more each on the average add up to a total that is near.
LEMMA RepairTotal ==
  ASSUME NEW ls \in Seq(BillLine), NEW total \in Nat, \A i \in 1..Len(ls) : ls[i].quantity = 1
  PROVE  /\ (Near(total, Total(ls)) /\ Total(ls) >= 10 * Len(ls) /\ Len(ls) > 0)
                => Total(Repair(total, ls)) = total
         /\ (~Near(total, Total(ls)) \/ total = Total(ls)) => Repair(total, ls) = ls
  <1> DEFINE diff == total - Total(ls)
             able == {i \in DOMAIN ls : ls[i].price + diff >= 0}
  <1>1. diff \in Int /\ Total(ls) \in Nat /\ total = Total(ls) + diff
    BY TotalNat
  <1>2. /\ DOMAIN ls = 1..Len(ls) /\ Len(ls) \in Nat
        /\ \A i \in 1..Len(ls) : ls[i] \in BillLine
    BY LenProperties
  <1>3. ASSUME ~Near(total, Total(ls)) \/ total = Total(ls) PROVE Repair(total, ls) = ls
    <2>1. total = 0 \/ diff = 0 \/ Size(diff) > 10
      BY <1>1, <1>3 DEF Near, Size
    <2> QED
      BY <2>1, RepairIs
  <1>4. ASSUME Near(total, Total(ls)), Total(ls) >= 10 * Len(ls), Len(ls) > 0
        PROVE  Total(Repair(total, ls)) = total
    <2>1. CASE diff = 0
      <3>1. Repair(total, ls) = ls
        BY <1>1, <1>3, <2>1
      <3> QED
        BY <1>1, <2>1, <3>1
    <2>2. CASE diff # 0
      <3>1. total > 0 /\ Size(diff) <= 10 /\ diff >= -10
        BY <1>1, <1>4 DEF Near, Size
      <3>2. able # {}
        <4>1. PICK i \in 1..Len(ls) : ~(Amount(ls[i]) <= 9)
          <5>1. ~(Total(ls) <= 9 * Len(ls))
            BY <1>1, <1>2, <1>4
          <5> QED
            BY <5>1, TotalSmall
        <4>2. Amount(ls[i]) = ls[i].price /\ Amount(ls[i]) \in Nat
          BY <1>2, AmountNat
        <4>3. ls[i].price + diff >= 0
          BY <1>1, <3>1, <4>1, <4>2
        <4> QED
          BY <1>2, <4>3
      <3>3. PICK i : Repaired(ls, Repair(total, ls), i, diff)
        <4>1. ~(total = 0 \/ diff = 0 \/ Size(diff) > 10 \/ able = {})
          <5> HIDE DEF able
          <5>1. Size(diff) \in Int
            BY <1>1 DEF Size
          <5> QED
            BY <2>2, <3>1, <3>2, <5>1
        <4> QED
          BY <4>1, RepairIs
      <3> DEFINE ms == Repair(total, ls)
      <3> HIDE DEF diff, ms
      <3>4. /\ ms \in Seq(BillLine) /\ Len(ms) = Len(ls)
            /\ \A j \in 1..Len(ls) : /\ ms[j].quantity = ls[j].quantity
                                     /\ ms[j].price = ls[j].price + (IF j = i THEN diff ELSE 0)
        BY <1>1, <3>3, RepairedIs DEF ms
      <3>5. ASSUME NEW j \in 1..Len(ls)
            PROVE  Amount(ms[j]) = Amount(ls[j]) + (IF j = i THEN diff ELSE 0)
        <4>1. ms[j] \in BillLine /\ ls[j] \in BillLine /\ ls[j].quantity = 1
          BY <1>2, <3>4, LenProperties
        <4> QED
          BY <3>4, <4>1, AmountNat
      <3>6. i \in 1..Len(ls) /\ i \in Nat
        BY <1>2, <3>3 DEF Repaired
      <3>7. Total(ms) = Total(ls) + diff
        <4>1. Shifted(ls, ms, Len(ls), diff, i)
          BY <1>2, <3>5, AmountNat DEF Shifted
        <4> QED
          BY <1>1, <3>4, <3>6, <4>1, TotalShift
      <3> QED
        BY <1>1, <3>7 DEF ms
    <2> QED
      BY <2>1, <2>2
  <1> QED
    BY <1>3, <1>4

-----------------------------------------------------------------------------
(* The lines of the documents.                                             *)

Single == {line \in BillLine : line.quantity = 1}

\* Single lines are lines.
LEMMA SinglesAre ==
  ASSUME NEW ls \in Seq(Single)
  PROVE  /\ ls \in Seq(BillLine) /\ Len(ls) \in Nat /\ Total(ls) \in Nat
         /\ \A i \in 1..Len(ls) : ls[i].quantity = 1
  <1>1. ls \in Seq(BillLine) /\ Len(ls) \in Nat
    <2>1. Single \subseteq BillLine
      BY DEF Single
    <2>2. Seq(Single) \subseteq Seq(BillLine)
      BY <2>1
    <2> QED
      BY <2>2, LenProperties
  <1>2. \A i \in 1..Len(ls) : ls[i] \in Single
    BY LenProperties
  <1> QED
    BY <1>1, <1>2, TotalNat DEF Single

\* One more single line, or none if there is nothing to pay for.
LEMMA OneMore ==
  ASSUME NEW ls \in Seq(Single), NEW p \in Nat
  PROVE  /\ ls \o <<Line(p)>> \in Seq(Single) /\ Len(ls \o <<Line(p)>>) = Len(ls) + 1
         /\ ls \o LineIf(p) \in Seq(Single) /\ Len(ls \o LineIf(p)) >= Len(ls)
         /\ Total(ls \o <<Line(p)>>) = Total(ls) + p
         /\ Total(ls \o LineIf(p)) = Total(ls) + p
  <1>1. ls \in Seq(BillLine) /\ Len(ls) \in Nat /\ Total(ls) \in Nat
    BY SinglesAre
  <1>2. Line(p) \in BillLine /\ Line(p) \in Single /\ Amount(Line(p)) = p
    BY AmountNat DEF Single
  <1>3. ls \o <<Line(p)>> = Append(ls, Line(p)) /\ Total(Append(ls, Line(p))) = Total(ls) + p
    BY <1>1, <1>2, TotalAppend
  <1>4. Append(ls, Line(p)) \in Seq(Single) /\ Len(Append(ls, Line(p))) = Len(ls) + 1
    BY <1>2, AppendProperties
  <1>5. CASE p > 0
    <2>1. LineIf(p) = <<Line(p)>>
      BY <1>5 DEF LineIf
    <2>2. Len(ls \o <<Line(p)>>) >= Len(ls)
      BY <1>1, <1>3, <1>4
    <2> QED
      BY <1>3, <1>4, <2>1, <2>2, Zenon
  <1>6. CASE ~(p > 0)
    <2>1. p = 0 /\ LineIf(p) = <<>>
      BY <1>6 DEF LineIf
    <2>2. ls \o LineIf(p) = ls
      BY <2>1, ConcatEmptySeq
    <2>3. Len(ls \o LineIf(p)) >= Len(ls) /\ Total(ls \o LineIf(p)) = Total(ls) + p
      <3>1. Len(ls) >= Len(ls) /\ Total(ls) = Total(ls) + p
        BY <1>1, <2>1
      <3> QED
        BY <2>2, <3>1, Zenon
    <2> QED
      BY <1>3, <1>4, <2>2, <2>3, Zenon
  <1> QED
    BY <1>5, <1>6

\* Three lines after others.
LEMMA ThreeMore ==
  ASSUME NEW S, NEW ls \in Seq(S), NEW x \in S, NEW y \in S, NEW z \in S
  PROVE  ls \o <<x, y, z>> = ls \o <<x>> \o <<y>> \o <<z>>
  <1>1. <<x>> \in Seq(S) /\ <<y>> \in Seq(S) /\ <<z>> \in Seq(S)
    OBVIOUS
  <1>2. <<x>> \o <<y>> = <<x, y>> /\ <<x, y>> \in Seq(S)
    <2> DEFINE a == <<x>>
               b == <<y>>
               c == <<x, y>>
    <2>1. /\ a \in Seq(S) /\ Len(a) = 1 /\ a[1] = x
          /\ b \in Seq(S) /\ Len(b) = 1 /\ b[1] = y
          /\ c \in Seq(S) /\ Len(c) = 2 /\ c[1] = x /\ c[2] = y
      OBVIOUS
    <2> HIDE DEF a, b, c
    <2>2. /\ a \o b \in Seq(S) /\ Len(a \o b) = Len(a) + Len(b)
          /\ \A i \in 1 .. Len(a) + Len(b) :
                 (a \o b)[i] = IF i <= Len(a) THEN a[i] ELSE b[i - Len(a)]
      BY <2>1, ConcatProperties, Zenon
    <2>3. Len(a \o b) = Len(c) /\ \A i \in 1..Len(c) : (a \o b)[i] = c[i]
      BY <2>1, <2>2
    <2>4. a \o b = c
      BY <2>1, <2>2, <2>3, SeqEqual, Zenon
    <2> QED
      BY <2>1, <2>4 DEF a, b, c
  <1>5. <<x, y>> \o <<z>> = <<x, y, z>>
    <2> DEFINE a == <<x, y>>
               b == <<z>>
               c == <<x, y, z>>
    <2>1. /\ a \in Seq(S) /\ Len(a) = 2 /\ a[1] = x /\ a[2] = y
          /\ b \in Seq(S) /\ Len(b) = 1 /\ b[1] = z
          /\ c \in Seq(S) /\ Len(c) = 3 /\ c[1] = x /\ c[2] = y /\ c[3] = z
      OBVIOUS
    <2> HIDE DEF a, b, c
    <2>2. /\ a \o b \in Seq(S) /\ Len(a \o b) = Len(a) + Len(b)
          /\ \A i \in 1 .. Len(a) + Len(b) :
                 (a \o b)[i] = IF i <= Len(a) THEN a[i] ELSE b[i - Len(a)]
      BY <2>1, ConcatProperties, Zenon
    <2>3. Len(a \o b) = Len(c) /\ \A i \in 1..Len(c) : (a \o b)[i] = c[i]
      BY <2>1, <2>2
    <2>4. a \o b = c
      BY <2>1, <2>2, <2>3, SeqEqual, Zenon
    <2> QED
      BY <2>1, <2>4 DEF a, b, c
  <1>3. ls \o <<x>> \o <<y>> = ls \o (<<x>> \o <<y>>)
    BY <1>1, ConcatAssociative
  <1>4. ls \o <<x, y>> \o <<z>> = ls \o (<<x, y>> \o <<z>>)
    BY <1>1, <1>2, ConcatAssociative
  <1> QED
    BY <1>2, <1>3, <1>4, <1>5

\* A booking's services, or its arrangement, are single lines, at least one.
LEMMA ServiceSingles ==
  ASSUME NEW b \in BookingPrices
  PROVE  ServiceLines(b) \in Seq(Single) /\ Len(ServiceLines(b)) > 0
  <1> DEFINE each == [i \in DOMAIN b.services |-> Line(b.services[i])]
  <1>1. /\ b.services \in Seq(Nat) /\ b.arrangement \in Nat \cup {NotGiven} /\ b.total \in Nat
    BY DEF BookingPrices
  <1>2. Arrangement(b) \in Nat
    BY <1>1 DEF Arrangement, Orelse
  <1>3. \A p \in Nat : Line(p) \in Single
    BY AmountNat DEF Single
  <1>4. each \in Seq(Single) /\ Len(each) \in Nat
    <2>1. DOMAIN b.services = 1..Len(b.services) /\ Len(b.services) \in Nat
          /\ \A i \in 1..Len(b.services) : b.services[i] \in Nat
      BY <1>1, LenProperties
    <2> QED
      BY <1>3, <2>1
  <1>5. <<Line(Arrangement(b))>> \in Seq(Single) /\ Len(<<Line(Arrangement(b))>>) = 1
    BY <1>2, <1>3
  <1>6. \/ ServiceLines(b) = <<Line(Arrangement(b))>>
        \/ ServiceLines(b) = each /\ Len(each) > 1
    BY DEF ServiceLines
  <1> HIDE DEF each
  <1>7. CASE ServiceLines(b) = <<Line(Arrangement(b))>>
    <2>1. <<Line(Arrangement(b))>> \in Seq(Single) /\ Len(<<Line(Arrangement(b))>>) > 0
      BY <1>5
    <2> QED
      BY <1>7, <2>1, Zenon
  <1>8. CASE ServiceLines(b) = each /\ Len(each) > 1
    <2>1. Len(each) > 0
      BY <1>4, <1>8
    <2> QED
      BY <1>4, <1>8, <2>1, Zenon
  <1> QED
    BY <1>6, <1>7, <1>8

\* What a booking's money is for: what is charged, and the same with lines of nothing.
Charged(b) == ServiceLines(b) \o LineIf(b.addon) \o LineIf(b.extra) \o LineIf(b.fees)
LEMMA ChargedSingles ==
  ASSUME NEW b \in BookingPrices
  PROVE  /\ Charged(b) \in Seq(Single) /\ Len(Charged(b)) > 0
         /\ Total(Charged(b))
                = Total(ServiceLines(b) \o <<Line(b.addon), Line(b.extra), Line(b.fees)>>)
  <1> DEFINE s == ServiceLines(b)
             x == Line(b.addon)
             y == Line(b.extra)
             z == Line(b.fees)
             t == s \o <<x, y, z>>
  <1>1. b.addon \in Nat /\ b.extra \in Nat /\ b.fees \in Nat
    BY DEF BookingPrices
  <1>2. s \in Seq(Single) /\ Len(s) \in Nat /\ Len(s) > 0 /\ Total(s) \in Nat
    BY ServiceSingles, SinglesAre
  <1>3. x \in Single /\ y \in Single /\ z \in Single
    BY <1>1, AmountNat DEF Single
  <1>4. t = s \o <<x>> \o <<y>> \o <<z>>
    BY <1>2, <1>3, ThreeMore, SMTT(30)
  <1> HIDE DEF s, t
  <1>5. Total(t) = Total(s) + b.addon + b.extra + b.fees
    <2>1. s \o <<x>> \in Seq(Single) /\ Total(s \o <<x>>) = Total(s) + b.addon
      BY <1>1, <1>2, OneMore
    <2>2. s \o <<x>> \o <<y>> \in Seq(Single) /\ Total(s \o <<x>> \o <<y>>) = Total(s) + b.addon + b.extra
      BY <1>1, <1>2, <2>1, OneMore
    <2> QED
      BY <1>1, <1>2, <1>4, <2>2, OneMore
  <1>6. /\ Charged(b) \in Seq(Single) /\ Len(Charged(b)) > 0
        /\ Total(Charged(b)) = Total(s) + b.addon + b.extra + b.fees
    <2> DEFINE s1 == s \o LineIf(b.addon)
               s2 == s1 \o LineIf(b.extra)
               s3 == s2 \o LineIf(b.fees)
    <2>1. s1 \in Seq(Single) /\ Len(s1) >= Len(s) /\ Total(s1) = Total(s) + b.addon
      BY <1>1, <1>2, OneMore
    <2> HIDE DEF s1
    <2>2. s2 \in Seq(Single) /\ Len(s2) >= Len(s1) /\ Total(s2) = Total(s1) + b.extra
      BY <1>1, <2>1, OneMore
    <2> HIDE DEF s2
    <2>3. s3 \in Seq(Single) /\ Len(s3) >= Len(s2) /\ Total(s3) = Total(s2) + b.fees
      BY <1>1, <2>2, OneMore
    <2>4. Charged(b) = s3
      BY DEF Charged, s1, s2, s
    <2> HIDE DEF s3
    <2>5. Len(s1) \in Nat /\ Len(s2) \in Nat /\ Len(s3) \in Nat
      BY <2>1, <2>2, <2>3, SinglesAre
    <2> QED
      BY <1>1, <1>2, <2>1, <2>2, <2>3, <2>4, <2>5
  <1> QED
    BY <1>5, <1>6 DEF t, s

\* Single lines, with their discount and the repair, add up to what is stated or to the total.
LEMMA SettledTotal ==
  ASSUME NEW ls \in Seq(Single), Len(ls) > 0, NEW discount \in Nat, NEW total \in Nat
  PROVE  LET ms == Repair(total, Deduct(discount, ls))
             stated == Stated(ls, discount)
         IN  /\ ms \in Seq(BillLine) /\ Len(ms) = Len(ls)
             /\ (Near(total, stated) /\ stated >= 10 * Len(ms)) => Total(ms) = total
             /\ ~Near(total, stated) => Total(ms) = stated
  <1> DEFINE D == Deduct(discount, ls)
             ms == Repair(total, D)
             stated == Stated(ls, discount)
  <1>1. ls \in Seq(BillLine) /\ Len(ls) \in Nat /\ \A i \in 1..Len(ls) : ls[i].quantity = 1
    BY SinglesAre
  <1>2. /\ D \in Seq(BillLine) /\ Len(D) = Len(ls)
        /\ \A i \in 1..Len(ls) : D[i].quantity = ls[i].quantity
    BY <1>1, DeductLines
  <1>3. Total(D) = stated
    BY <1>1, DeductTotal
  <1> HIDE DEF D, stated
  <1>4. \A i \in 1..Len(D) : D[i].quantity = 1
    BY <1>1, <1>2
  <1>5. ms \in Seq(BillLine) /\ Len(ms) = Len(ls)
    BY <1>2, RepairLines
  <1>6. /\ (Near(total, stated) /\ stated >= 10 * Len(ms)) => Total(ms) = total
        /\ ~Near(total, stated) => ms = D
    BY <1>1, <1>2, <1>3, <1>4, <1>5, RepairTotal
  <1> HIDE DEF ms
  <1>7. ~Near(total, stated) => Total(ms) = stated
    BY <1>3, <1>6
  <1> QED
    BY <1>5, <1>6, <1>7 DEF ms, stated, D

\* Every builder makes lines that an invoice may have.
LEMMA BookingBuilds ==
  ASSUME NEW b \in BookingPrices
  PROVE  /\ BookingLines(b) \in Seq(BillLine)
         /\ b.paidBy = "money" =>
                BookingLines(b) = Repair(b.total, Deduct(b.discount, Charged(b)))
  <1>1. b.total \in Nat /\ b.discount \in Nat /\ b.paidBy \in {"points", "voucher", "money"}
    BY DEF BookingPrices
  <1>2. CASE b.paidBy = "points"
    <2> DEFINE line == [Line(b.total) EXCEPT !.off = 100]
    <2>1. line \in BillLine
      BY <1>1 DEF Line, BillLine
    <2>2. BookingLines(b) = <<line>>
      BY <1>2 DEF BookingLines
    <2> HIDE DEF line
    <2> QED
      BY <1>2, <2>1, <2>2
  <1>3. CASE b.paidBy = "voucher"
    <2>1. BookingLines(b) = <<>>
      BY <1>3 DEF BookingLines
    <2> QED
      BY <1>3, <2>1, EmptySeq
  <1>4. CASE b.paidBy = "money"
    <2>1. BookingLines(b) = Repair(b.total, Deduct(b.discount, Charged(b)))
      BY <1>4 DEF BookingLines, Charged
    <2>2. Charged(b) \in Seq(BillLine)
      BY ChargedSingles, SinglesAre
    <2>3. Deduct(b.discount, Charged(b)) \in Seq(BillLine)
      BY <1>1, <2>2, DeductLines
    <2> QED
      BY <1>1, <2>1, <2>3, RepairLines
  <1> QED
    BY <1>1, <1>2, <1>3, <1>4

\* The lines of an order's items: as the items, each at its price.
OrderLines(b) == [i \in DOMAIN b.items |-> [b.items[i] EXCEPT !.off = 0]]
LEMMA OrderLinesAre ==
  ASSUME NEW b \in ShopPrices
  PROVE  /\ OrderLines(b) \in Seq(BillLine) /\ Len(OrderLines(b)) = Len(b.items)
         /\ \A i \in 1..Len(b.items) : OrderLines(b)[i].quantity = b.items[i].quantity
         /\ Total(OrderLines(b)) = Total(b.items)
         /\ b.items # <<>> => Len(OrderLines(b)) > 0
  <1> DEFINE k == Len(b.items)
             own(i) == [b.items[i] EXCEPT !.off = 0]
             ls == [i \in 1..k |-> own(i)]
  <1>1. b.items \in Seq(Item)
    BY DEF ShopPrices
  <1>2. k \in Nat /\ DOMAIN b.items = 1..k /\ \A i \in 1..k : b.items[i] \in Item
    BY <1>1, LenProperties
  <1>3. \A i \in 1..k : /\ own(i) \in BillLine /\ b.items[i] \in BillLine
                        /\ own(i).quantity = b.items[i].quantity
                        /\ own(i).price = b.items[i].price
    BY <1>2 DEF Item, BillLine
  <1> HIDE DEF own
  <1>4. ls \in Seq(BillLine) /\ Len(ls) = k
    BY <1>2, <1>3
  <1>5. \A i \in 1..k : ls[i] = own(i)
    OBVIOUS
  <1>6. OrderLines(b) = ls
    BY <1>2 DEF OrderLines, own
  <1> HIDE DEF ls
  <1>7. b.items \in Seq(BillLine)
    <2>1. Item \subseteq BillLine
      BY DEF Item, BillLine
    <2> QED
      BY <1>1, <2>1, SeqMonotonic
  <1>8. Total(ls) = Total(b.items)
    <2>1. Shifted(b.items, ls, Len(b.items), 0, 0)
      <3>1. ASSUME NEW i \in 1..k
            PROVE  Amount(b.items[i]) \in Nat /\ Amount(ls[i]) = Amount(b.items[i]) + 0
        <4>1. Amount(b.items[i]) \in Nat
          BY <1>3, AmountNat
        <4>2. Amount(ls[i]) = Amount(b.items[i])
          BY <1>3, <1>5 DEF Amount
        <4> QED
          BY <4>1, <4>2
      <3> QED
        BY <3>1 DEF Shifted
    <2>2. Total(ls) = Total(b.items) + 0
      BY <1>2, <1>4, <1>7, <2>1, TotalShift
    <2> QED
      BY <1>7, <2>2, TotalNat
  <1>9. b.items # <<>> => k > 0
    BY <1>1, <1>2, EmptySeq
  <1> QED
    BY <1>3, <1>4, <1>5, <1>6, <1>8, <1>9 DEF k

\* An order's lines are those of its items, if it has any.
LEMMA ShopBuilds ==
  ASSUME NEW b \in ShopPrices
  PROVE  /\ ShopLines(b) \in Seq(BillLine)
         /\ b.items # <<>> => ShopLines(b) = Repair(b.total, Deduct(b.discount, OrderLines(b)))
  <1> DEFINE ls == IF OrderLines(b) = <<>> THEN <<Line(b.total)>> ELSE OrderLines(b)
  <1>1. b.total \in Nat /\ b.discount \in Nat
    BY DEF ShopPrices
  <1>2. ShopLines(b) = Repair(b.total, Deduct(b.discount, ls))
    BY DEF ShopLines, OrderLines
  <1>3. ls \in Seq(BillLine)
    <2>1. Line(b.total) \in BillLine
      BY <1>1, AmountNat
    <2> QED
      BY <2>1, OrderLinesAre
  <1>4. Deduct(b.discount, ls) \in Seq(BillLine)
    <2> HIDE DEF ls
    <2> QED
      BY <1>1, <1>3, DeductLines
  <1>5. b.items # <<>> => ls = OrderLines(b)
    <2>1. b.items # <<>> => OrderLines(b) # <<>>
      BY OrderLinesAre, EmptySeq
    <2> QED
      BY <2>1
  <1> HIDE DEF ls
  <1> QED
    BY <1>1, <1>2, <1>4, <1>5, RepairLines

\* So do the builders of gifts and vouchers.
LEMMA OthersBuild ==
  /\ \A b \in GiftPrices : GiftLines(b) \in Seq(BillLine)
  /\ \A b \in VoucherPrices : VoucherLines(b) \in Seq(BillLine)
  <1>1. \A p \in Nat : Line(p) \in BillLine /\ <<Line(p)>> \in Seq(BillLine)
    BY AmountNat
  <1>2. ASSUME NEW b \in GiftPrices PROVE GiftLines(b) \in Seq(BillLine)
    <2>1. b.items \in Seq(Item) /\ b.total \in Nat
      BY DEF GiftPrices
    <2>2. /\ DOMAIN b.items = 1..Len(b.items) /\ Len(b.items) \in Nat
          /\ \A i \in 1..Len(b.items) : b.items[i].price \in Nat
      <3>1. \A item \in Item : item.price \in Nat
        BY DEF Item
      <3>2. DOMAIN b.items = 1..Len(b.items) /\ Len(b.items) \in Nat
        BY <2>1, LenProperties
      <3>3. \A i \in 1..Len(b.items) : b.items[i] \in Item
        BY <2>1, <3>2, ElementOfSeq
      <3> QED
        BY <3>1, <3>2, <3>3
    <2>3. [i \in DOMAIN b.items |-> Line(b.items[i].price)] \in Seq(BillLine)
      BY <1>1, <2>2
    <2> QED
      BY <1>1, <2>1, <2>3 DEF GiftLines
  <1>3. ASSUME NEW b \in VoucherPrices PROVE VoucherLines(b) \in Seq(BillLine)
    BY <1>1 DEF VoucherPrices, VoucherLines
  <1> QED
    BY <1>2, <1>3

\* The lines of an invoice are those that the builder of the document makes.
Built ==
    \/ lines = <<>>
    \/ bill.kind = "booking" /\ lines = BookingLines(bill)
    \/ bill.kind = "shop" /\ lines = ShopLines(bill)
    \/ bill.kind = "gift" /\ lines = GiftLines(bill)
    \/ bill.kind = "voucher" /\ lines = VoucherLines(bill)
LinesOK == bill \in Prices \cup Payments /\ Built

\* The document stays the same, and each builder runs for its own kind.
LEMMA LinesInv == Spec => []LinesOK
  <1>1. Init => LinesOK
    BY DEF Init, LinesOK, Built
  <1>2. LinesOK /\ [Next]_vars => LinesOK'
    <2> SUFFICES ASSUME LinesOK, [Next]_vars PROVE LinesOK'
      OBVIOUS
    <2> USE DEF LinesOK, Built
    <2>1. CASE BuildBookingInvoiceLines
      BY <2>1 DEF BuildBookingInvoiceLines, Invoice
    <2>2. CASE BuildShopOrderInvoiceLines
      BY <2>2 DEF BuildShopOrderInvoiceLines, Invoice
    <2>3. CASE BuildGiftPurchaseInvoiceLines
      BY <2>3 DEF BuildGiftPurchaseInvoiceLines, Invoice
    <2>4. CASE BuildVoucherInvoiceLines
      BY <2>4 DEF BuildVoucherInvoiceLines, Invoice
    <2>5. CASE RecordPayments
      BY <2>5 DEF RecordPayments
    <2>6. CASE UNCHANGED vars
      BY <2>6 DEF vars
    <2> QED
      BY <2>1, <2>2, <2>3, <2>4, <2>5, <2>6 DEF Next
  <1> QED
    BY <1>1, <1>2, PTL DEF Spec

\* What is at hand is what its kind says.
LEMMA KindsAre ==
  ASSUME bill \in Prices \cup Payments
  PROVE  /\ bill.kind = "booking" => bill \in BookingPrices
         /\ bill.kind = "shop" => bill \in ShopPrices
         /\ bill.kind = "gift" => bill \in GiftPrices
         /\ bill.kind = "voucher" => bill \in VoucherPrices
  <1>1. CASE bill \in Payments
    BY <1>1, PaymentsAssumption
  <1>2. CASE bill \in Prices
    <2>1. /\ bill \in BookingPrices => bill.kind = "booking"
          /\ bill \in ShopPrices => bill.kind = "shop"
          /\ bill \in GiftPrices => bill.kind = "gift"
          /\ bill \in VoucherPrices => bill.kind = "voucher"
      BY DEF BookingPrices, ShopPrices, GiftPrices, VoucherPrices
    <2> QED
      BY <1>2, <2>1, PricesAssumption
  <1> QED
    BY <1>1, <1>2

\* No line of an invoice is negative, whatever the discount and the repair of
\* invoice_helper do to it.
THEOREM Charges == Spec => []PricesNeverNegative
  <1>1. LinesOK => PricesNeverNegative
    <2> SUFFICES ASSUME LinesOK PROVE PricesNeverNegative
      OBVIOUS
    <2>1. lines \in Seq(BillLine)
      BY KindsAre, BookingBuilds, ShopBuilds, OthersBuild, EmptySeq DEF LinesOK, Built
    <2>2. ASSUME NEW i \in DOMAIN lines PROVE lines[i] \in BillLine
      BY <2>1, LenProperties
    <2>3. ASSUME NEW line \in BillLine
          PROVE  line.price >= 0 /\ line.quantity > 0 /\ line.off \in 0..100
      BY <2>3 DEF BillLine
    <2> QED
      BY <2>2, <2>3 DEF PricesNeverNegative
  <1> QED
    BY <1>1, LinesInv, PTL

\* The lines of a booking's invoice add up to its total when its prices do, within what the
\* repair of build_booking_invoice_lines mends, and to what the prices say otherwise.
THEOREM BookingSums == Spec => []BookingTotals
  <1>1. LinesOK => BookingTotals
    <2> SUFFICES ASSUME LinesOK, bill.kind = "booking", bill.paidBy = "money", lines # <<>>
                 PROVE  BookingTotals
      BY DEF BookingTotals
    <2> DEFINE ls == ServiceLines(bill)
                         \o <<Line(bill.addon), Line(bill.extra), Line(bill.fees)>>
               stated == Stated(ls, bill.discount)
    <2>1. bill \in BookingPrices
      BY KindsAre DEF LinesOK
    <2>2. lines = Repair(bill.total, Deduct(bill.discount, Charged(bill)))
      <3>1. lines = BookingLines(bill)
        BY DEF LinesOK, Built
      <3> QED
        BY <2>1, <3>1, BookingBuilds
    <2>3. bill.total \in Nat /\ bill.discount \in Nat
      BY <2>1 DEF BookingPrices
    <2>4. /\ Charged(bill) \in Seq(Single) /\ Len(Charged(bill)) > 0
          /\ Total(Charged(bill)) = Total(ls)
      BY <2>1, ChargedSingles
    <2> HIDE DEF ls
    <2>5. Stated(Charged(bill), bill.discount) = stated
      BY <2>4 DEF Stated
    <2> HIDE DEF stated
    <2>6. /\ (Near(bill.total, stated) /\ stated >= 10 * Len(lines)) => Total(lines) = bill.total
          /\ ~Near(bill.total, stated) => Total(lines) = stated
      BY <2>2, <2>3, <2>4, <2>5, SettledTotal
    <2> QED
      BY <2>6 DEF BookingTotals, stated, ls
  <1> QED
    BY <1>1, LinesInv, PTL

\* The same for build_shop_order_invoice_lines, when every item is single, or when there is no
\* discount and the prices already add up.
THEOREM ShopSums == Spec => []ShopTotals
  <1>1. LinesOK => ShopTotals
    <2> SUFFICES ASSUME LinesOK, bill.kind = "shop", lines # <<>>, bill.items # <<>>,
                        \/ \A i \in DOMAIN bill.items : bill.items[i].quantity = 1
                        \/ bill.discount = 0 /\ bill.total = Total(bill.items)
                 PROVE  ShopTotals
      BY DEF ShopTotals
    <2> DEFINE stated == Stated(bill.items, bill.discount)
               ls == OrderLines(bill)
    <2>1. bill \in ShopPrices
      BY KindsAre DEF LinesOK
    <2>2. lines = Repair(bill.total, Deduct(bill.discount, ls))
      <3>1. lines = ShopLines(bill)
        BY DEF LinesOK, Built
      <3> QED
        BY <2>1, <3>1, ShopBuilds
    <2>3. bill.total \in Nat /\ bill.discount \in Nat /\ DOMAIN bill.items = 1..Len(bill.items)
      BY <2>1, LenProperties DEF ShopPrices
    <2>4. /\ ls \in Seq(BillLine) /\ Len(ls) > 0 /\ Len(ls) = Len(bill.items)
          /\ \A i \in 1..Len(bill.items) : ls[i].quantity = bill.items[i].quantity
          /\ Total(ls) = Total(bill.items)
      BY <2>1, OrderLinesAre
    <2> HIDE DEF ls
    <2>5. Stated(ls, bill.discount) = stated
      BY <2>4 DEF Stated
    <2>6. CASE \A i \in DOMAIN bill.items : bill.items[i].quantity = 1
      <3>1. ls \in Seq(Single)
        <4>1. \A i \in 1..Len(ls) : ls[i] \in Single
          BY <2>3, <2>4, <2>6, LenProperties DEF Single
        <4> QED
          BY <2>4, <4>1, LenProperties
      <3> HIDE DEF stated
      <3>2. /\ (Near(bill.total, stated) /\ stated >= 10 * Len(lines))
                   => Total(lines) = bill.total
            /\ ~Near(bill.total, stated) => Total(lines) = stated
        BY <2>2, <2>3, <2>4, <2>5, <3>1, SettledTotal
      <3> QED
        BY <3>2 DEF ShopTotals, stated
    <2>7. CASE bill.discount = 0 /\ bill.total = Total(bill.items)
      <3>1. Deduct(bill.discount, ls) = ls
        BY <2>3, <2>4, <2>7, DeductLines
      <3>2. lines = ls
        <4>1. bill.total - Total(ls) = 0
          BY <2>3, <2>4, <2>7
        <4> QED
          BY <2>2, <2>3, <2>4, <3>1, <4>1, RepairIs
      <3>3. stated = bill.total
        BY <2>3, <2>7 DEF Stated
      <3> QED
        BY <2>4, <2>7, <3>2, <3>3 DEF ShopTotals
    <2> QED
      BY <2>6, <2>7
  <1> QED
    BY <1>1, LinesInv, PTL

=============================================================================
