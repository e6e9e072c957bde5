\* Two episodes whose clients wait for each answer and confirm a rule each.
SPECIFICATION Spec
SYMMETRY Interchangeable
CONSTANTS
    Text = {report}
    Blank = {}
    UnclearGoals = {}
    ReviewGoals = {}
    Episode = {e1, e2}
    Worker = {w1, w2}
    Overlap = FALSE
    None = None
    Intakes <- RuleMessages
    MaxVersions = 3
    MaxUnknown = 0
PROPERTIES
    VersionsImmutable
