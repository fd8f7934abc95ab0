----------------------------- MODULE FacebookSend -----------------------------
(***************************************************************************)
(* One reply on its way through the Send API client                        *)
(* (src/app/services/facebook_message_service.py, called from              *)
(* _send_facebook_reply of src/app/api/v1/facebook_webhook.py): the text,  *)
(* then the images in one message, once more, and one by one.  A reply     *)
(* that failed but may be retried comes back as another send, with what    *)
(* the AI answers then.  FacebookWebhook takes a send as one step; this    *)
(* module is about what happens inside it.                                 *)
(*                                                                         *)
(* Item 0 is the text and item k the k-th image.  Every image has a URL    *)
(* the client allows, as those built by google_drive_image_service do.     *)
(***************************************************************************)
EXTENDS Naturals

CONSTANTS
    MaxImages,        \* MAX_FACEBOOK_PRODUCT_IMAGES
    MaxSends          \* bound on the sends of one customer message

ASSUME ImagesAssumption == MaxImages \in Nat

Item == 0..MaxImages

VARIABLES
    pc,               \* the call that comes next
    reply,            \* text: it has text; images: number of images
    next,             \* the image the one-by-one loop has come to
    sent,             \* sent_count
    result,           \* what the caller makes of the send
    shown,            \* how often the customer was shown each item
    tried,            \* history: calls made for each item
    lost,             \* history: calls that were shown but did not succeed
    denied,           \* a call failed for good (non_retryable)
    sends,            \* sends so far
    seenBefore,       \* history: earlier sends that showed something
    lostBefore        \* history: calls lost in them

earlier == <<sends, seenBefore, lostBefore>>
vars == <<pc, reply, next, sent, result, shown, tried, lost, denied, earlier>>

Reply == [text : BOOLEAN, images : 0..MaxImages]
NoReply == [text |-> FALSE, images |-> 0]
Zero == [i \in Item |-> 0]

TypeOK ==
    /\ pc \in {"prepare", "text", "images", "again", "single", "ended"}
    /\ reply \in Reply
    /\ next \in 1..(MaxImages + 1) /\ sent \in 0..MaxImages
    /\ result \in {"none", "ok", "retry", "drop"}
    /\ shown \in [Item -> Nat] /\ tried \in [Item -> Nat]
    /\ lost \in Nat /\ denied \in BOOLEAN
    /\ sends \in Nat /\ seenBefore \in Nat /\ lostBefore \in Nat

Init ==
    /\ pc = "prepare" /\ reply = NoReply
    /\ next = 1 /\ sent = 0
    /\ result = "none"
    /\ shown = Zero /\ tried = Zero
    /\ lost = 0 /\ denied = FALSE
    /\ sends = 1 /\ seenBefore = 0 /\ lostBefore = 0

-----------------------------------------------------------------------------
\* _post_facebook_message_payload.  Facebook shows the items and says so; the
\* answer is lost or an error although they were shown; it refuses them, for
\* now or for good.
Outcome == {"shown", "lost", "refused", "denied"}

Added(f, items) == [i \in Item |-> IF i \in items THEN f[i] + 1 ELSE f[i]]

Post(items, outcome) ==
    /\ tried' = Added(tried, items)
    /\ shown' = IF outcome \in {"shown", "lost"} THEN Added(shown, items)
                ELSE shown
    /\ lost' = IF outcome = "lost" THEN lost + 1 ELSE lost
    /\ denied' = (denied \/ outcome = "denied")

\* mutation of Finish: the images decide alone
FinishOnImages(ok) ==
    /\ pc' = "ended"
    /\ result' = IF ok THEN "ok" ELSE IF denied' THEN "drop" ELSE "retry"

\* mutation of Finish: non_retryable of the images is not passed on
FinishRetries(ok) ==
    /\ pc' = "ended"
    /\ result' = IF ok \/ reply.text THEN "ok" ELSE "retry"

\* send_facebook_text_and_images and its caller: a reply with a text got this
\* far only if the text succeeded, and then the images decide nothing
Finish(ok) ==
    /\ pc' = "ended"
    /\ result' = IF ok \/ reply.text THEN "ok"
                 ELSE IF denied' THEN "drop" ELSE "retry"

\* where the images begin: a single image is not sent in bulk
ImagesStep(r) == IF r.images = 1 THEN "single" ELSE "images"

-----------------------------------------------------------------------------
\* the AI's answer; one with nothing to send is an error that is not retried
Prepare ==
    /\ pc = "prepare"
    /\ reply' \in Reply
    /\ \/ /\ ~reply'.text /\ reply'.images = 0
          /\ pc' = "ended" /\ result' = "drop"
       \/ /\ reply'.text
          /\ pc' = "text" /\ UNCHANGED result
       \/ /\ ~reply'.text /\ reply'.images > 0
          /\ pc' = ImagesStep(reply') /\ UNCHANGED result
    /\ UNCHANGED <<next, sent, shown, tried, lost, denied, earlier>>

SendText(outcome) ==
    /\ pc = "text"
    /\ Post({0}, outcome)
    /\ \/ /\ outcome = "shown" /\ reply.images > 0
          /\ pc' = ImagesStep(reply)
          /\ UNCHANGED result
       \/ /\ outcome = "shown" /\ reply.images = 0
          /\ pc' = "ended" /\ result' = "ok"
       \/ /\ outcome # "shown"
          /\ pc' = "ended"
          /\ result' = IF outcome = "denied" THEN "drop" ELSE "retry"
    /\ UNCHANGED <<reply, next, sent, earlier>>

\* mutation of SendBulk: after a repetition that succeeded the loop still runs
SendBulkFallsThrough(outcome) ==
    /\ pc \in {"images", "again"}
    /\ Post(1..reply.images, outcome)
    /\ \/ outcome = "shown" /\ pc = "images" /\ Finish(TRUE)
       \/ outcome = "denied" /\ Finish(FALSE)
       \/ /\ outcome \in {"lost", "refused"} \/ (outcome = "shown" /\ pc = "again")
          /\ pc' = IF pc = "images" THEN "again" ELSE "single"
          /\ UNCHANGED result
    /\ UNCHANGED <<reply, next, sent, earlier>>

\* the bulk message and its repetition two seconds later
SendBulk(outcome) ==
    /\ pc \in {"images", "again"}
    /\ Post(1..reply.images, outcome)
    /\ \/ outcome = "shown" /\ Finish(TRUE)
       \/ outcome = "denied" /\ Finish(FALSE)
       \/ /\ outcome \in {"lost", "refused"}
          /\ pc' = IF pc = "images" THEN "again" ELSE "single"
          /\ UNCHANGED result
    /\ UNCHANGED <<reply, next, sent, earlier>>

\* mutation of SendSingle: any failure ends the loop
SendSingleBreaks(outcome) ==
    /\ pc = "single"
    /\ Post({next}, outcome)
    /\ sent' = IF outcome = "shown" THEN sent + 1 ELSE sent
    /\ next' = next + 1
    /\ \/ /\ outcome = "shown" /\ next < reply.images
          /\ UNCHANGED <<pc, result>>
       \/ /\ outcome # "shown" \/ next = reply.images
          /\ Finish(sent' > 0)
    /\ UNCHANGED <<reply, earlier>>

\* one image of the loop; what is denied ends it
SendSingle(outcome) ==
    /\ pc = "single"
    /\ Post({next}, outcome)
    /\ sent' = IF outcome = "shown" THEN sent + 1 ELSE sent
    /\ next' = next + 1
    /\ \/ /\ outcome # "denied" /\ next < reply.images
          /\ UNCHANGED <<pc, result>>
       \/ /\ outcome = "denied" \/ next = reply.images
          /\ Finish(sent' > 0)
    /\ UNCHANGED <<reply, earlier>>

Visible == \E i \in Item : shown[i] > 0
Seen == IF Visible THEN 1 ELSE 0

\* the message is requeued, the AI asked again and its answer sent
SendAgain ==
    /\ pc = "ended" /\ result = "retry"
    /\ sends < MaxSends
    /\ sends' = sends + 1
    /\ seenBefore' = seenBefore + Seen
    /\ lostBefore' = lostBefore + lost
    /\ pc' = "prepare" /\ reply' = NoReply
    /\ next' = 1 /\ sent' = 0
    /\ result' = "none"
    /\ shown' = Zero /\ tried' = Zero
    /\ lost' = 0 /\ denied' = FALSE

Send ==
    \/ Prepare
    \/ \E outcome \in Outcome :
          SendText(outcome) \/ SendBulk(outcome) \/ SendSingle(outcome)

Next == Send \/ SendAgain

Spec == Init /\ [][Next]_vars

-----------------------------------------------------------------------------
\* A reply that counts as sent was seen: its text, or an image if it has none.
ReportedIsSeen ==
    result = "ok" => IF reply.text THEN shown[0] > 0
                     ELSE \E i \in Item \ {0} : shown[i] > 0

\* A reply that counts as failed was not seen, unless an answer was lost: a
\* send of which one image came through is not repeated.
FailedIsUnseen == result \in {"retry", "drop"} /\ lost = 0 => ~Visible

\* Nothing is shown more often than answers were lost, although every image
\* is sent up to three times.
OncePerAnswer == \A i \in Item : shown[i] <= 1 + lost

\* Unless Facebook denied a call, an image is given up only after the bulk
\* message, its repetition and the call of its own (for a single image only
\* that one), also when the text alone makes the reply a success.
Chances == IF reply.images = 1 THEN 1 ELSE 3

ImagesTriedThrough ==
    (~denied /\ (result = "ok" \/ (result = "retry" /\ ~reply.text)))
        => \A i \in 1..reply.images : shown[i] > 0 \/ tried[i] = Chances

\* A message is retried only while trying may help, and dropped only if a call
\* was denied or there was nothing to send (a Drive folder that could not be
\* read makes a reply of images empty).
VerdictJustified ==
    /\ result = "retry" => ~denied
    /\ result = "drop" => denied \/ reply = NoReply

\* Over all sends of a message, each visible reply but one is paid for by a
\* lost answer: what FacebookWebhook takes for granted of a send.
SeenAccounted == seenBefore + Seen <= 1 + lostBefore + lost

\* After a denied call nothing more is sent for the message.
DeniedIsFinal == [][denied => tried' = tried /\ sends' = sends]_vars

-----------------------------------------------------------------------------
(* The inductive invariant of FacebookSendProofs.                           *)

Images == Item \ {0}

\* there is a verdict at the end and not before, and no call after a denied one
Control ==
    /\ pc = "ended" <=> result # "none"
    /\ pc # "ended" => ~denied
    /\ pc \notin {"single", "ended"} => next = 1 /\ sent = 0
    /\ pc \in {"prepare", "text"} => shown = Zero /\ tried = Zero /\ lost = 0
    /\ pc = "prepare" => reply = NoReply
    /\ pc = "text" => reply.text
    /\ pc \in {"images", "again"} => reply.images > 1
    /\ pc = "single" => next <= reply.images /\ sent < next

\* the text comes first, once, and the images only if it succeeded
TextFirst ==
    /\ shown[0] <= 1
    /\ ~reply.text => shown[0] = 0
    /\ reply.text /\ (pc \in {"images", "again", "single"} \/ result = "ok") =>
          shown[0] = 1

\* what is known of the images before the loop reaches them, and by sent_count
ImagesSoFar ==
    /\ pc \in {"images", "again", "single"} =>
          \A i \in Images : i >= next => shown[i] <= lost
    /\ OncePerAnswer
    /\ sent > 0 => \E i \in Images : shown[i] > 0
    /\ sent = 0 /\ lost = 0 /\ pc \in {"images", "again", "single"} =>
          \A i \in Images : shown[i] = 0

\* calls made for the k-th image when the loop has come to image n
Calls(k, n) == (IF reply.images = 1 THEN 0 ELSE 2) + (IF k < n THEN 1 ELSE 0)

TriesSoFar ==
    /\ pc = "images" => \A i \in Images : tried[i] = 0
    /\ pc = "again" => \A i \in 1..reply.images : tried[i] = 1
    /\ pc = "single" => \A i \in 1..reply.images : tried[i] = Calls(i, next)

PaidSoFar == seenBefore <= lostBefore

IInv ==
    /\ TypeOK
    /\ Control /\ TextFirst /\ ImagesSoFar /\ TriesSoFar
    /\ ReportedIsSeen /\ FailedIsUnseen /\ ImagesTriedThrough
    /\ VerdictJustified
    /\ PaidSoFar
=============================================================================
