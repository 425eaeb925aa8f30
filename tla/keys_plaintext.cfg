\* One order whose second file cannot be encrypted.
SPECIFICATION Spec
CONSTANTS
    Browsers = {b1}
    Orders = {o1}
    Keys = {k1}
    b1 = b1
    o1 = o1
    k1 = k1
    NoKey = NoKey
    NoOrder = NoOrder
SYMMETRY Symmetry
INVARIANT
    PlainWhenNotEncrypted
\* The customer may have nothing left to do.
CHECK_DEADLOCK FALSE
