\* Every combination of a few prices, discounts, quantities and totals, and of what events and
\* gateways say of a payment.
CONSTANTS
    Prices <- MCPrices
    Payments <- MCPayments
SPECIFICATION Spec
INVARIANTS
    BookingTotals
    ShopTotals
    GatewaysAgree
    Traceable
\* A bill is built once.
CHECK_DEADLOCK FALSE
