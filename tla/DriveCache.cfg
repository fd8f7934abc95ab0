SPECIFICATION Spec
CONSTANTS
    f1 = f1
    f2 = f2
    inbox1 = inbox1
    inbox2 = inbox2
    comment = comment
    Reply = {inbox1, inbox2, comment}
    Comment = {comment}
    File = {f1, f2}
    Lists <- MCLists
    Past <- MCPast
    Reuse = TRUE
    Tries = 2
    MaxCrashes = 1
INVARIANT MissedOnlyShared LeftoverExplained
