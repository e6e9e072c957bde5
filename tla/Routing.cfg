\* Every text of at most five characters, every payload of at most two items.
SPECIFICATION Spec
\* One message, one turn.
CHECK_DEADLOCK FALSE
CONSTANTS
    Text = {empty, report}
    Blank = {empty}
    UserText = report
    Absent = Absent
    NonText = NonText
    Messages <- SmallMessages
    MaxLength = 5
INVARIANTS
    TypeOK
    CommandsExact
    FailsClosed
    ActsAsOnIntake
    TaskBranchHasGoal
    
