\* Two orders one after the other from one form; the server may be a day behind.
SPECIFICATION Spec
CONSTANTS
    kind = kind
    bought = bought
    complained = complained
    fee = fee
    city = city
    phone = phone
    email = email
    Slow = Slow
    Broken = Broken
    Text = Text
    Odd = Odd
    Wrong = Wrong
    Unset = Unset
    Blank = Blank
    Bad = Bad
    Fields <- MCFields
    Last = 2
    StepOf <- MCStepOf
    Required <- MCRequired
    ShowIf <- MCShowIf
    Dates = {bought, complained}
    NotFuture = {bought, complained}
    Rules <- MCRules
    Groups = {{city}}
    Contact <- MCContact
    Email = email
    LastContact <- MCLastContact
    Values <- MCValues
    Refused = {Wrong}
    Unwelcome = {Odd}
    Today = 2
    ServerDays = {1, 2}
    MaxSubmits = 1
    MaxOrders = 2
INVARIANTS
    OrdersComplete
    OrderedIsSummary
    MirrorsServer
PROPERTIES
    KeepsIntake
    TypedStays
