\* One worker, one episode and every slash command, a review among the tasks.
SPECIFICATION SerialSpec
CONSTANTS
    Text = {audit, vague}
    Blank = {}
    UnclearGoals = {vague}
    ReviewGoals = {audit}
    Episode = {e1}
    Worker = {w1}
    Overlap = FALSE
    None = None
    Intakes <- SlashCommands
    MaxVersions = 2
    MaxUnknown = 1
PROPERTIES
    ImplementsOrchestrator
