\* One order of the present flow with its page, one poll at a time.
SPECIFICATION SiteSpec
CONSTANTS
    Orders = {o1}
    Legacy = {}
    Payments = {p1, p2}
    Hooks = {h1}
    Workers = {w1}
    Slots = {1}
    NoOrder = NoOrder
    NoPayment = NoPayment
    MaxRetries = 1
    MaxCrashes = 0
    Watched = o1
    Polls = {1}
    MaxGoals = 1
SYMMETRY Symmetry
INVARIANTS
    PageKeepsWord
PROPERTIES
    KeepsPage
