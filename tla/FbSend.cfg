SPECIFICATION Spec
CONSTANTS
    MaxImages = 3
    MaxSends = 2
INVARIANTS
    OncePerAnswer
    ImagesTriedThrough
    VerdictJustified
    SeenAccounted
\* a reply that is sent or dropped is not sent again
CHECK_DEADLOCK FALSE
