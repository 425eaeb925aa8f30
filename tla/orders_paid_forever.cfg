\* The smallest instance with one order, one payment and one death.
SPECIFICATION FairSpec
CONSTANTS
    Orders = {o1}
    Legacy = {}
    Payments = {p1}
    Hooks = {h1}
    Workers = {w1}
    Slots = {1, 2}
    NoOrder = NoOrder
    NoPayment = NoPayment
    MaxRetries = 1
    MaxCrashes = 1
PROPERTIES
    PaidReachesTheEnd
