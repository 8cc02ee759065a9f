SPECIFICATION FairSpec
CONSTANTS
    Path = {1, 2}
    Editable = {1}
    Content = {"empty", "x", "y"}
    Empty = "empty"
    First = "x"
    NoContent = "none"
    Command = {1, 2, 3}
    MaxTime = 2
    MaxEdits = 2
PROPERTIES
    NeverHidden
    AddSees
    CommandsEnd
\* every command runs once, so the model ends when all have
CHECK_DEADLOCK FALSE
