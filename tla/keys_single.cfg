\* A customer with one browser and two orders; three pairs, so that a pair can be
\* replaced while another order is released and the server has a third one.
SPECIFICATION Spec
CONSTANTS
    Browsers = {b1}
    Orders = {o1, o2}
    Keys = {k1, k2, k3}
    b1 = b1
    o1 = o1
    o2 = o2
    k1 = k1
    k2 = k2
    k3 = k3
    NoKey = NoKey
    NoOrder = NoOrder
SYMMETRY Symmetry
INVARIANTS
    OneKeyPerDocument
    PaidHasKey
    RegisteredIsHeld
PROPERTIES
    KeepsKeyPromise
\* The customer may have nothing left to do.
CHECK_DEADLOCK FALSE
