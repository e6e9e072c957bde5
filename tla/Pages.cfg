\* Two pages whose users wait, under a program that may come to ask for reviews;
\* every task is a repository review, which may fail.
SPECIFICATION PageSpec
SYMMETRY Interchangeable
CONSTANTS
    Text = {audit}
    Blank = {}
    UnclearGoals = {}
    ReviewGoals = {audit}
    Episode = {e1, e2}
    Worker = {w1, w2}
    Overlap = FALSE
    None = None
    Intakes <- ReviewMessages
    MaxVersions = 2
    MaxUnknown = 0
    MaxAnswers = 1
INVARIANTS
    CalmConversationsStayWhole
PROPERTIES
    CalmVersionGrows
