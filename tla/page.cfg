\* One page, two polls under way, every legal move of the order's status.
SPECIFICATION FairSpec
CONSTANTS
    Flow <- GivenUp
    Polls = {1, 2}
    MaxGoals = 2
INVARIANTS
    PageInv
    ShownWasTrue
    ToastIsNews
    GoalCountedOnce
    NeverAhead
PROPERTIES
    WaitingCatchesUp
    ClicksAreAnswered
