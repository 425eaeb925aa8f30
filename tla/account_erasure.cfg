SPECIFICATION Spec
CONSTANTS
    Keys = {k1, k2}
    Passwords = {p1}
    None = None
INVARIANTS
    GoneIsGone
