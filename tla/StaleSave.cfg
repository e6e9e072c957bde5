\* One episode, a rule proposed while another message is being answered.
SPECIFICATION Spec
SYMMETRY Interchangeable
CONSTANTS
    Text = {report}
    Blank = {}
    UnclearGoals = {}
    ReviewGoals = {}
    Episode = {e1}
    Worker = {w1, w2}
    Overlap = TRUE
    None = None
    Intakes <- ReviewMessages
    MaxVersions = 2
    MaxUnknown = 0
PROPERTIES
    ReviewsEndByAnswer
