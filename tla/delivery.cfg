\* One order from its generation on, its page, two addresses, two texts.
SPECIFICATION FairSpec
CONSTANTS
    Addresses = {a, b}
    Account = a
    Texts = {t, u}
    None = None
INVARIANTS
    DeliveryInv
    SaidIsSent
    ReviewIsThere
PROPERTIES
    FormsAnswer
