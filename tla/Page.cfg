\* One page whose user waits or does not; every task is a repository review, which
\* may fail, and a rule is proposed and rejected.
SPECIFICATION PageSpec
SYMMETRY Interchangeable
CONSTANTS
    Text = {audit}
    Blank = {}
    UnclearGoals = {}
    ReviewGoals = {audit}
    Episode = {e1}
    Worker = {w1, w2}
    Overlap = TRUE
    None = None
    Intakes <- PageMessages
    MaxVersions = 1
    MaxUnknown = 1
    MaxAnswers = 1
INVARIANTS
    CalmPageTellsTruth
