\* One order left by the flow that took the money first (pending, or paid long
\* ago and generating or failed), with every loop and a retrying customer.
SPECIFICATION FairSpec
CONSTANTS
    Orders = {o1}
    Legacy = {o1}
    Payments = {p1, p2}
    Hooks = {h1}
    Workers = {w1}
    Slots = {1, 2}
    NoOrder = NoOrder
    NoPayment = NoPayment
    MaxRetries = 1
    MaxCrashes = 1
INVARIANTS
    Inv
PROPERTIES
    MovesOnly
    CapturedIsClaimed
    RetriesEnd
