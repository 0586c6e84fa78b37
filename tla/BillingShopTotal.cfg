\* The invoice of a discounted shop order against the promise of its builder's docstring.
CONSTANTS
    Prices <- MCDiscounted
    Payments = {}
SPECIFICATION Spec
INVARIANT ShopMatchesTotal
CHECK_DEADLOCK FALSE
