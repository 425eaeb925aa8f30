\* One order's page; two loads, two downloads and two recoveries at once.
SPECIFICATION Spec
CONSTANTS
    Keys = {k, l}
    None = None
    Formats = {docx, pdf}
    NumPages = 2
    Loads = {1, 2}
    Slots = {1, 2}
    Tries = {1, 2}
    MaxCalls = 2
    MaxClicks = 2
    MaxTorn = 1
SYMMETRY Symmetry
INVARIANTS
    ViewsInv
    OneFilePerClick
PROPERTIES
    WishGoesWithDownload
