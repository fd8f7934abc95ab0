------------------------- MODULE MCDriveImageCache -------------------------
EXTENDS DriveImageCache

CONSTANTS f1, f2, inbox1, inbox2, comment

MCLists == [r \in Reply |-> IF r = inbox1 THEN {<<f1>>, <<f1, f2>>} ELSE {<<f1>>}]

\* Nothing yet; a copy from before the storage limit was lowered; a content id
\* without the file's name and colour; a content id beside a comment's copy.
MCPast ==
    {[entry |-> NoEntry, copy |-> "absent"],
     [entry |-> [NoEntry EXCEPT !.known = TRUE], copy |-> "large"],
     [entry |-> [known |-> TRUE, content |-> TRUE, coloured |-> FALSE], copy |-> "absent"],
     [entry |-> [known |-> TRUE, content |-> TRUE, coloured |-> TRUE], copy |-> "fits"]}
============================================================================
