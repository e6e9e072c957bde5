\* One episode over a long run of turns: rules adopted and rejected, one after
\* the other, and misunderstandings past the last level of the ladder.
SPECIFICATION Spec
CONSTANTS
    Text = {report, vague}
    Blank = {}
    UnclearGoals = {vague}
    ReviewGoals = {}
    Episode = {e1}
    None = None
    Intakes <- MixedIntakes
    MaxVersions = 3
    MaxUnknown = 4
INVARIANTS
    RulesHonest
    FallbackLadder
PROPERTIES
    VersionsAppendOnly
    FallbackRun
