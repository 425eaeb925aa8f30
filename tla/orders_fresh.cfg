\* Two orders of the present flow, two payments in all, a webhook request and
\* a worker with its loops, one process that may die.
SPECIFICATION Spec
CONSTANTS
    Orders = {o1, o2}
    Legacy = {}
    Payments = {p1, p2}
    Hooks = {h1, h2}
    Workers = {w1}
    Slots = {1, 2}
    NoOrder = NoOrder
    NoPayment = NoPayment
    MaxRetries = 1
    MaxCrashes = 1
SYMMETRY Symmetry
INVARIANTS
    Inv
    PreviewExclusive
    ReleasedOnce
    UnmatchedIsOrphan
    PaidIsJournalled
PROPERTIES
    ClaimIsFinal
    NeverReleasedAgain
    FormOutlivesWork
    KeepsPromise
