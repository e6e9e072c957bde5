\* One conversation under every slash command, beside program queries; a clear task
\* is a repository review, which may raise.
SPECIFICATION Spec
CONSTANTS
    Text = {audit, vague}
    Blank = {}
    UnclearGoals = {vague}
    ReviewGoals = {audit}
    Episode = {e1}
    Worker = {w1, w2}
    Overlap = FALSE
    None = None
    Intakes <- SlashCommands
    MaxVersions = 2
    MaxUnknown = 1
PROPERTIES
    EveryRequestAnswered
