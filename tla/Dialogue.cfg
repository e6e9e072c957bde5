\* One episode and every intake a language model may return with at most two
\* items.
SPECIFICATION Spec
CONSTANTS
    Text = {empty, report, vague, audit}
    Blank = {empty}
    UnclearGoals = {vague}
    ReviewGoals = {audit}
    Episode = {e1}
    None = None
    Intakes <- ModelIntakes
    MaxVersions = 2
    MaxUnknown = 1
INVARIANTS
    TypeOK
    PendingBacked
    CancelledIsClean
    NothingUnclearRuns
    NoPlanAwaitsUser
PROPERTIES
    ImplementsReview
