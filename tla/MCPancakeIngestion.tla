------------------------- MODULE MCPancakeIngestion -------------------------
(* Small instances of PancakeIngestion for TLC.                             *)
EXTENDS PancakeIngestion

CONSTANTS m1, m2, m3, c1, c2, a1, n1, s1, s2, text,
          d1, d2, d3, d4, k1, k2, k3, e1, e2, g1, f1, f2

\* d1 and d3 deliver m1, k1 and k2 the comment c1, k3 the dangerous comment
\* c2, e1 and e2 the ad a1, g1 the notice n1, f1 and f2 staff messages.
MCCarries ==
    [d \in Delivery |-> CASE d \in {d1, d3} -> m1 [] d = d2 -> m2
                          [] d = d4 -> m3
                          [] d \in {k1, k2} -> c1 [] d = k3 -> c2
                          [] d \in {e1, e2} -> a1 [] d = g1 -> n1
                          [] d = f1 -> s1 [] d = f2 -> s2]

\* c1 says in a comment what m1 says in the inbox
MCTextOf == [m \in Mid |-> IF m \in {m1, c1} THEN text ELSE m]

In(come, buffer_seconds, reply_comments, own, fail, crash) ==
    [comes |-> come, buffered |-> buffer_seconds > 0,
     commentReply |-> reply_comments, selfPauses |-> own,
     failures |-> fail, crashes |-> crash]

MCOccasion ==
    {In({d1, d2, d3}, 2, FALSE, 0, 0, 0),  \* two messages, one delivered twice
     In({d1, d3}, 2, FALSE, 0, 1, 1),
     In({d1, d2, f1}, 2, FALSE, 0, 0, 0),  \* a staff message between them
     In({d1, e1, e2}, 2, FALSE, 0, 1, 0),  \* an ad delivered twice
     In({e1, e2}, 2, FALSE, 0, 1, 1),
     In({d1, e1}, 2, FALSE, 1, 1, 1),      \* a pause of the bot's own
     In({d1, d4, e1}, 2, FALSE, 0, 1, 1),  \* a dangerous message beside an ad
     In({d1, e1, f1}, 2, FALSE, 0, 0, 0),
     In({k1, k2, g1}, 0, TRUE, 1, 0, 0),   \* no buffer: answered in the request
     In({d1, k1, g1}, 0, TRUE, 0, 0, 0),
     In({d1, e1}, 0, FALSE, 0, 1, 0),
     In({d1, k1, k2}, 2, TRUE, 0, 0, 0),   \* a comment delivered twice
     In({d1, k1}, 2, TRUE, 0, 1, 1),
     In({d1, k1, k3}, 2, FALSE, 0, 0, 0)}  \* comments are not answered

MCTakeover == {In({d1, f1, f2}, 0, FALSE, 0, 0, 0)}
=============================================================================
