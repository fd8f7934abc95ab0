SPECIFICATION LookupSpec
CONSTANTS
    root = root
    a = a
    b = b
    c = c
    i1 = i1
    i2 = i2
    i3 = i3
    red = red
    cream = cream
    NoColour = NoColour
    Folder = {root, a, b, c}
    Image = {i1, i2, i3}
    Colour = {red, cream}
    Parent <- MCParent
    Drives <- MCDrives
    Requests <- MCRequests
    Settings <- MCSettings
INVARIANT LookupIInv FallbackOnlyWithoutMatch OneBranch
