\* One payment, notified twice at the same time, and nothing dies.
SPECIFICATION Spec
CONSTANTS
    Orders = {o1}
    Legacy = {}
    Payments = {p1}
    Hooks = {h1, h2}
    Workers = {w1}
    Slots = {1, 2}
    NoOrder = NoOrder
    NoPayment = NoPayment
    MaxRetries = 1
    MaxCrashes = 0
PROPERTIES
    AuditNeverCostsRelease
