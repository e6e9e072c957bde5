\* One episode, a confirmation beside a rejection.
SPECIFICATION Spec
SYMMETRY Interchangeable
CONSTANTS
    Text = {report}
    Blank = {}
    UnclearGoals = {}
    ReviewGoals = {}
    Episode = {e1}
    Worker = {w1, w2}
    Overlap = TRUE
    None = None
    Intakes <- RuleMessages
    MaxVersions = 3
    MaxUnknown = 0
PROPERTIES
    RejectedIsNotSaved
