------------------------------ MODULE MCBilling -----------------------------
(* Priced documents and payments for model checking Billing. *)
EXTENDS Billing

Around(amount) == {t \in {amount + d : d \in {-11, -10, -3, 0, 1, 10, 500}} : t >= 0} \cup {0}

MCBookings ==
    UNION {{[kind |-> "booking", paidBy |-> by, arrangement |-> arr, services |-> sv,
             addon |-> add, extra |-> ex, fees |-> fee, discount |-> d, total |-> t] :
                t \in Around(Orelse(arr, 9000) + add + ex + fee - d)} :
           by \in {"money", "points", "voucher"}, arr \in {NotGiven, 12000, 8},
           sv \in {<<>>, <<7000, 5001>>, <<7000, 4000>>, <<5, 3>>},
           add \in {0, 2000}, ex \in {0, 1500}, fee \in {0, 4}, d \in {0, 3, 12500}}

Of(price, quantity) == [price |-> price, quantity |-> quantity, off |-> 0]
Items == {Of(p, q) : p \in {5, 333, 1000}, q \in 1..3}
MCOrders ==
    UNION {{[kind |-> "shop", items |-> its, discount |-> d, total |-> t] :
                t \in Around(Total(its) - d)} :
           its \in {<<>>} \cup {<<i>> : i \in Items} \cup {<<i, j>> : i, j \in Items},
           d \in {0, 7, 1000}}

\* Orders whose prices, quantities, discount and total agree.
MCDiscounted ==
    {[kind |-> "shop", items |-> <<i, Of(1000, 1)>>, discount |-> d,
      total |-> Total(<<i, Of(1000, 1)>>) - d] :
        i \in {Of(p, q) : p \in {1000, 2500}, q \in 1..3}, d \in {0, 500, 1000}}

MCGifts ==
    {[kind |-> "gift", items |-> its, total |-> t] :
        its \in {<<>>, <<Of(1000, 1)>>, <<Of(333, 1), Of(5, 1)>>}, t \in {0, 1000}}
        \cup {[kind |-> "voucher", total |-> t] : t \in {0, 1000}}

MCPrices == MCBookings \cup MCOrders \cup MCGifts

Payment(gateway, provider, through, method, ids, creator, snapshot, invoiced) ==
    [kind |-> "payment", gateway |-> gateway, provider |-> provider, through |-> through,
     method |-> method, ids |-> ids, creator |-> creator, snapshot |-> snapshot,
     invoiced |-> invoiced]

Ids ==
    SUBSET {<<"event", "payment">>, <<"event", "transaction">>, <<"transaction", "payment">>,
            <<"transaction", "transaction">>, <<"gateway", "transaction">>,
            <<"gateway", "invoice">>, <<"inner", "payment">>, <<"inner", "reference">>}

Silent == [place \in GatewayPlaces |-> {}]
Texts == {{}, {"K-NET"}, {"KNET", "TAP"}, {"TAP", "DEEMA"}, {"TAP"}, {"VISA"}}

\* The gateways at every place, the other texts, then identifiers.
MCPayments ==
    {Payment(g, {}, {}, m, {}, "none", "none", FALSE) :
        g \in [GatewayPlaces -> Texts], m \in {"", "knet", "tap"}}
    \cup {Payment(g, p, t, m, {}, "none", "none", FALSE) :
        g \in {Silent, [Silent EXCEPT !["event"] = {"KNET"}]},
        p \in {{}, {"fatoorah"}, {"direct"}, {"deema"}, {"paymentlink"}, {"label"}},
        t \in {{}, {"desk"}, {"web"}, {"ushspa"}, {"mobile"}, {"kiosk"}},
        m \in {"", "knet", "tap", "unknown"}}
    \cup {Payment(Silent, {}, {}, "", ids, c, s, i) :
        ids \in Ids, c \in {"none", "customer", "staff"}, s \in {"none", "admin"}, i \in BOOLEAN}

=============================================================================
