\* Two turns of one episode at a time, in every interleaving.
SPECIFICATION Spec
SYMMETRY Interchangeable
CONSTANTS
    Text = {report}
    Blank = {}
    UnclearGoals = {}
    ReviewGoals = {}
    Episode = {e1}
    Worker = {w1, w2}
    Overlap = TRUE
    None = None
    Intakes <- ReviewMessages
    MaxVersions = 3
    MaxUnknown = 0
INVARIANTS
    TypeOK
    RulesHonest
    VersionNumbersCountRules
    NoPlanAwaitsUser
