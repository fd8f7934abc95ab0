------------------------ MODULE MCConversationDirectory ----------------------
(* One customer, four ids, and companies of actors that meet.               *)
EXTENDS ConversationDirectory, TLC
CONSTANTS w1, w2, p1, p2, n1, n2, k1

\* Two runs of the Facebook webhook with a note and the dashboard; one run of
\* either webhook with two notes and the dashboard; runs of the Pancake webhook;
\* both webhooks.
MCCasts == {{w1, w2, n1, k1}, {w1, n1, n2, k1}, {p1, n1, n2, k1},
            {p1, p2, n1}, {w1, p1, n1}, {w1, p1, k1}}

Symmetry == Permutations(Conv)
=============================================================================
