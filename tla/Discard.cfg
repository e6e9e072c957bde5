\* One episode and the slash commands only.
SPECIFICATION Spec
CONSTANTS
    Text = {report}
    Blank = {}
    UnclearGoals = {}
    ReviewGoals = {}
    Episode = {e1}
    None = None
    Intakes <- DevIntakes
    MaxVersions = 2
    MaxUnknown = 0
PROPERTIES
    NoSilentDiscard
