-------------------------- MODULE MCFacebookWebhook --------------------------
(* Small instances of FacebookWebhook for TLC.                              *)
EXTENDS FacebookWebhook

CONSTANTS m1, m2, d1, d2, d3

\* d1 and d3 are two deliveries of m1, d2 delivers m2.
MCMidOf == [d \in Delivery |-> IF d = d2 THEN m2 ELSE m1]
=============================================================================
