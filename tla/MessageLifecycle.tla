-------------------------- MODULE MessageLifecycle --------------------------
(***************************************************************************)
(* What an inbound webhook promises the customer about one conversation,   *)
(* whatever buffers, timers and retries it uses: a message is accepted     *)
(* before it is answered, an acceptance yields at most one acknowledged    *)
(* reply, and once released a message stays silent until it is accepted    *)
(* again.  A reply whose acknowledgement is lost leaves the message open,  *)
(* so the customer may see it twice.                                       *)
(***************************************************************************)
EXTENDS Naturals

CONSTANT Mid              \* message ids of the platform

VARIABLES
    phase,                \* "out", "open" (may be answered) or "closed"
    replies               \* replies the customer has received, per message

vars == <<phase, replies>>

Phase == {"out", "open", "closed"}

TypeOK ==
    /\ phase \in [Mid -> Phase]
    /\ replies \in [Mid -> Nat]

Init ==
    /\ phase = [m \in Mid |-> "out"]
    /\ replies = [m \in Mid |-> 0]

\* The webhook takes responsibility for a message nobody is working on.
Accept(m) ==
    /\ phase[m] = "out"
    /\ phase' = [phase EXCEPT ![m] = "open"]
    /\ UNCHANGED replies

\* The acknowledged reply of this acceptance.
Answer(m) ==
    /\ phase[m] = "open"
    /\ phase' = [phase EXCEPT ![m] = "closed"]
    /\ replies' = [replies EXCEPT ![m] = @ + 1]

\* The reply reached the customer but the webhook saw a failure.
AnswerUnseen(m) ==
    /\ phase[m] = "open"
    /\ replies' = [replies EXCEPT ![m] = @ + 1]
    /\ UNCHANGED phase

\* Decided without a reply: a takeover, or a refusal that is not retried.
Close(m) ==
    /\ phase[m] = "open"
    /\ phase' = [phase EXCEPT ![m] = "closed"]
    /\ UNCHANGED replies

\* Messages are forgotten; the rest keep their phase.
Release(S) ==
    /\ \A m \in S : phase[m] # "out"
    /\ phase' = [m \in Mid |-> IF m \in S THEN "out" ELSE phase[m]]
    /\ UNCHANGED replies

Next ==
    \/ \E m \in Mid : Accept(m) \/ Answer(m) \/ AnswerUnseen(m) \/ Close(m)
    \/ \E S \in (SUBSET Mid) \ {{}} : Release(S)

Spec == Init /\ [][Next]_vars
=============================================================================
