----------------------------- MODULE AnswersOwed -----------------------------
(***************************************************************************)
(* What an inbound webhook that answers each stored row once promises the    *)
(* customer, whatever buffers, timers, requests and copies it uses: a row is *)
(* owed an answer from the moment it is stored; an answer is given only      *)
(* where one is owed and settles it, for several messages at once; and what  *)
(* is owed is let go of only for a message that has an answer or an excuse,  *)
(* or whose rows are answered together.  An excuse stays.                   *)
(***************************************************************************)
EXTENDS Naturals

CONSTANT Mid              \* message ids of the platform

VARIABLES
    rows,                 \* user rows stored, per message
    owed,                 \* answers that may still be given, per message
    replies,              \* replies the customer has received, per message
    excused               \* messages that have a reason to stay unanswered

vars == <<rows, owed, replies, excused>>

TypeOK ==
    /\ rows \in [Mid -> Nat] /\ owed \in [Mid -> Nat] /\ replies \in [Mid -> Nat]
    /\ excused \subseteq Mid

Init ==
    /\ rows = [m \in Mid |-> 0]
    /\ owed = [m \in Mid |-> 0]
    /\ replies = [m \in Mid |-> 0]
    /\ excused \subseteq Mid

\* A message is stored, and the webhook takes responsibility for it.
Store(m) ==
    /\ rows' = [rows EXCEPT ![m] = @ + 1]
    /\ owed' = [owed EXCEPT ![m] = @ + 1]
    /\ UNCHANGED <<replies, excused>>

\* One reply for the messages in S; its sender may have been told it failed.
Answer(S) ==
    /\ UNCHANGED rows
    /\ replies' = [m \in Mid |-> IF m \in S THEN replies[m] + 1 ELSE replies[m]]
    /\ \A m \in S : owed[m] > 0
    /\ owed' = [m \in Mid |-> IF m \in S THEN owed[m] - 1 ELSE owed[m]]
    /\ excused \subseteq excused' /\ excused' \subseteq Mid

\* Rows of one message become one answer, or a reason comes up to give none.
LetGo ==
    /\ UNCHANGED <<rows, replies>>
    /\ owed' \in [Mid -> Nat]
    /\ \A m \in Mid : owed'[m] # owed[m] =>
          /\ owed'[m] < owed[m]
          /\ owed'[m] = 0 => replies[m] > 0 \/ m \in excused'
    /\ excused \subseteq excused' /\ excused' \subseteq Mid

Next ==
    \/ LetGo
    \/ \E m \in Mid : Store(m)
    \/ \E S \in (SUBSET Mid) \ {{}} : Answer(S)

Spec == Init /\ [][Next]_vars

\* What follows for the customer: no more replies than rows, and no message
\* that was stored is passed over without an excuse.
Kept ==
    \A m \in Mid :
        /\ replies[m] + owed[m] <= rows[m]
        /\ rows[m] > 0 /\ owed[m] = 0 => replies[m] > 0 \/ m \in excused
=============================================================================
