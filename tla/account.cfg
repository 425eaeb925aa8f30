\* Two pairs and two passwords; the customer's other browser rotates, sets a
\* password or erases at any moment.
SPECIFICATION Spec
CONSTANTS
    Keys = {k1, k2}
    Passwords = {p1, p2}
    None = None
SYMMETRY Symmetry
INVARIANTS
    AccountInv
    ErasedIsEmpty
PROPERTIES
    DoorStays
    HalvesStay
