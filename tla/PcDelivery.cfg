SPECIFICATION FairSpec
CONSTANTS
    inbox = inbox
    comment = comment
    brief = brief
    Reply = {inbox, comment, brief}
    Together <- MCTogether
    Comment = {comment}
    ImageCount <- MCImageCount
    MaxAttempts = 2
    Tries = 2
    MaxEchoes = 1
INVARIANTS
    ShownAccounted
    ReportedShown
    AcceptedBounded
PROPERTIES
    EveryDeliveryEnds
CHECK_DEADLOCK FALSE
