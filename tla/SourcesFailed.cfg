SPECIFICATION Spec
CONSTANTS
    a = a
    a2 = a2
    b = b
    NoCode = NoCode
    Request = {r1, r2, r3}
    Code = {a, a2}
    FolderOf <- MCFolderOf
    MaxImage = 3
    Uploads = {0, 1, 2}
INVARIANT FailedLeavesNothing
