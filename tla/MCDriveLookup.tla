---------------------------- MODULE MCDriveLookup ----------------------------
EXTENDS DriveLookup

CONSTANTS root, a, b, c, i1, i2, i3, red, cream

\* root holds a and b, a holds c.
MCParent == [f \in Folder |-> IF f = c THEN a ELSE root]

Plain == [colour |-> NoColour, says |-> {}]
Homes == <<root, a, b, c>>
Labels == <<Plain, [colour |-> red, says |-> {red}],
            [colour |-> NoColour, says |-> {red}], [colour |-> NoColour, says |-> {cream}]>>

\* A place is a home and a label; the images are interchangeable.
HomeOf(place) == Homes[1 + (place \div 4)]
LabelOf(place) == Labels[1 + (place % 4)]
Contents == {p \in [Image -> 0..15] : p[i1] <= p[i2] /\ p[i2] <= p[i3]}

MCDrives ==
    {[home |-> [i \in Image |-> HomeOf(p[i])], image |-> [i \in Image |-> LabelOf(p[i])],
      folder |-> [f \in Folder |-> CASE f = a -> la [] f = b -> lb [] OTHER -> Plain],
      blocked |-> x] :
        p \in Contents, la \in {Plain, [colour |-> red, says |-> {red}]},
        lb \in {Plain, [colour |-> cream, says |-> {cream}]}, x \in {{}, {a}}}

MCRequests ==
    {[links |-> l, phrases |-> q[1], primary |-> q[2]] :
        l \in {<<root>>, <<root, a>>},
        q \in {<< <<>>, NoColour>>, << <<red>>, red>>, << <<red, cream>>, cream>>}}

MCSettings ==
    {[depth |-> 3, diverse |-> TRUE, colourFolders |-> 5, limit |-> 2],
     [depth |-> 2, diverse |-> FALSE, colourFolders |-> 5, limit |-> 2],
     [depth |-> 1, diverse |-> TRUE, colourFolders |-> 5, limit |-> 1]}
=============================================================================
