--------------------------- MODULE PancakeDelivery ---------------------------
(***************************************************************************)
(* How the replies of one Pancake conversation are delivered: the text, then *)
(* the images, each image message believed only when its echo webhook comes  *)
(* (PW = app/api/v1/pancake_webhook.py 1038-1185 and 3833-5055, and          *)
(* app/services/pancake_message_service.py).                                 *)
(*                                                                         *)
(* The tracker of echoes is keyed by conversation and an echo is not         *)
(* consumed by who waits for it: an echo that comes late, or that belongs to *)
(* another reply of the conversation, verifies whatever is being delivered.  *)
(*                                                                         *)
(* A Part is the text (0) or an image (1..).  A delivery is one call of      *)
(* _send_pancake_content_ids_with_echo_verification: a chunk of images, sent *)
(* up to MaxAttempts times, each sending being up to Tries HTTP requests.    *)
(***************************************************************************)
EXTENDS Integers, Sequences, FiniteSets

CONSTANTS
    Reply,          \* replies of one conversation
    Together,       \* which of them may be delivered at the same time
    Comment,        \* those that answer a comment; the others go to the inbox
    ImageCount,     \* how many local Drive images each reply has
    MaxAttempts,    \* PANCAKE_IMAGE_ECHO_MAX_DELIVERY_ATTEMPTS (3)
    Tries,          \* settings.pancake_api_retry_attempts (3)
    MaxEchoes       \* bound: echoes on their way, of one delivery or late ones

ASSUME ReplyAssumption == Comment \subseteq Reply /\ Together \subseteq SUBSET Reply
ASSUME CountAssumption == ImageCount \in [Reply -> Nat]
ASSUME BoundAssumption == MaxAttempts \in Nat \ {0} /\ Tries \in Nat \ {0}
ASSUME EchoAssumption == MaxEchoes \in Nat

VARIABLES
    work,       \* what each reply's coroutine is doing
    heard,      \* the tracker holds an echo received since the delivery began
    due,        \* echoes still to come of the reply's present delivery
    late,       \* echoes still to come of deliveries that are over
    confused,   \* history: an echo of something else came during a delivery
    shown,      \* history: the parts the customer sees
    known,      \* history: how often each was shown, not counting the times
                \* the code could not learn of (no answer, or no echo in time)
    accepted    \* history: how often Pancake acknowledged each part

vars == <<work, heard, due, late, confused, shown, known, accepted>>

Text == 0
Image(p) == 1..ImageCount[p]
Part(p) == {Text} \cup Image(p)

(***************************************************************************)
(* The data of one coroutine.                                              *)
(***************************************************************************)

PC == {"posting", "waiting", "uploading", "done"}
Phase == {"text", "comment", "primary", "split", "single"}

\* chunk: what is being sent; queue: the chunks of this phase to follow; ids:
\* images with a content id, left: images not yet uploaded; refused: images of
\* split chunks that are sent singly next; ok: nothing has failed for good yet.
WorkState(p) ==
    [pc: PC, phase: Phase, chunk: SUBSET Part(p), queue: Seq(SUBSET Image(p)),
     attempt: 1..MaxAttempts, try: 1..Tries, reached: BOOLEAN,
     ids: SUBSET Image(p), left: SUBSET Image(p), refused: SUBSET Image(p),
     ok: BOOLEAN]

First(S) == CHOOSE i \in S : \A j \in S : i <= j

\* The k smallest members of S.
Smallest(S, k) == {i \in S : Cardinality({j \in S : j <= i}) <= k}

Singles(S) == [k \in 1..Cardinality(S) |-> Smallest(S, k) \ Smallest(S, k - 1)]

\* int(n * 0.6 + 0.5), at least 1 and at most n - 1.
FirstCount(n) == LET k == (6 * n + 5) \div 10
                 IN IF k < 1 THEN 1 ELSE IF k > n - 1 THEN n - 1 ELSE k

Split(S) ==
    IF Cardinality(S) = 1 THEN <<S>>
    ELSE LET front == Smallest(S, FirstCount(Cardinality(S)))
         IN <<front, S \ front>>

(***************************************************************************)
(* The coroutine's control, from one await to the next.                    *)
(***************************************************************************)

\* Some replies of the conversation are taken up; of an earlier one echoes may
\* still be on their way.
Init ==
    /\ \E S \in Together : work = [p \in Reply |->
         [pc |-> IF p \in S THEN "posting" ELSE "done", phase |-> "text", chunk |-> {Text}, queue |-> <<>>,
          attempt |-> 1, try |-> 1, reached |-> FALSE, ids |-> {},
          left |-> Image(p), refused |-> {}, ok |-> TRUE]]
    /\ heard = [p \in Reply |-> FALSE]
    /\ due = [p \in Reply |-> 0]
    /\ late \in 0..MaxEchoes
    /\ confused = [p \in Reply |-> FALSE]
    /\ shown = [p \in Reply |-> {}]
    /\ known = [p \in Reply |-> [i \in Part(p) |-> 0]]
    /\ accepted = [p \in Reply |-> [i \in Part(p) |-> 0]]

Stop(w) == [w EXCEPT !.pc = "done", !.chunk = {}]

StopFailed(w) == [Stop(w) EXCEPT !.ok = FALSE]

Deliver(w, chunk, queue, phase) ==
    [w EXCEPT !.pc = "posting", !.phase = phase, !.chunk = chunk,
              !.queue = queue, !.attempt = 1, !.try = 1, !.reached = FALSE]

\* The next chunk of the phase; after the split chunks the refused images one
\* by one; then the end, with the verdict reached so far.
Continue(w) ==
    IF w.queue # <<>> THEN Deliver(w, Head(w.queue), Tail(w.queue), w.phase)
    ELSE IF w.refused # {}
    THEN LET s == Singles(w.refused)
         IN Deliver([w EXCEPT !.refused = {}], Head(s), Tail(s), "single")
    ELSE Stop(w)

\* Back in the loop over a comment's images.
NextUpload(w) ==
    IF w.left = {} THEN Stop(w) ELSE [w EXCEPT !.pc = "uploading", !.chunk = {}]

Delivered(w) ==
    CASE w.phase \in {"text", "comment"} -> NextUpload(w)
      [] w.phase = "primary" -> Stop(w)
      [] OTHER -> Continue(w)

\* mutation of Refused: the single sendings repeat every image, not only the refused ones.
RefusedRepeatsAll(w) ==
    CASE w.phase = "text" -> StopFailed(w)
      [] w.phase = "comment" -> NextUpload([w EXCEPT !.ok = FALSE])
      [] w.phase = "primary" ->
            LET s == Split(w.chunk) IN Deliver(w, Head(s), Tail(s), "split")
      [] w.phase = "split" /\ Cardinality(w.chunk) > 1 ->
            Continue([w EXCEPT !.refused = w.ids])
      [] OTHER -> Continue([w EXCEPT !.ok = FALSE])

\* A delivery that some request refused: only then is anything sent in parts.
Refused(w) ==
    CASE w.phase = "text" -> StopFailed(w)
      [] w.phase = "comment" -> NextUpload([w EXCEPT !.ok = FALSE])
      [] w.phase = "primary" ->
            LET s == Split(w.chunk) IN Deliver(w, Head(s), Tail(s), "split")
      [] w.phase = "split" /\ Cardinality(w.chunk) > 1 ->
            Continue([w EXCEPT !.refused = @ \cup w.chunk])
      [] OTHER -> Continue([w EXCEPT !.ok = FALSE])

\* mutation of Unverified: a delivery without an echo is sent again in parts.
UnverifiedSplits(w) == Refused(w)

\* A delivery whose every attempt was acknowledged and none was echoed.
Unverified(w) ==
    CASE w.phase = "comment" -> NextUpload([w EXCEPT !.ok = FALSE])
      [] w.phase = "primary" -> StopFailed(w)
      [] OTHER -> Continue([w EXCEPT !.ok = FALSE])

(***************************************************************************)
(* Steps.                                                                  *)
(***************************************************************************)

Open(p) == work[p].phase # "text" /\ work[p].pc \in {"posting", "waiting"}

Counted(f, p, n) ==
    [f EXCEPT ![p] = [i \in Part(p) |-> IF i \in work[p].chunk THEN @[i] + n ELSE @[i]]]

\* What p's request showed, p does not learn of.
Unlearned(p) == IF work[p].reached THEN Counted(known, p, -1) ELSE known

\* mutation of GoOn: a delivery takes the echoes that came before it.
GoOnHearing(p, w) ==
    /\ work' = [work EXCEPT ![p] = w]
    /\ late' = IF late + due[p] > MaxEchoes THEN MaxEchoes ELSE late + due[p]
    /\ due' = [due EXCEPT ![p] = 0]
    /\ heard' = [heard EXCEPT ![p] = @ /\ w.pc = "posting"]

\* p goes on with w: what is still to come of its delivery is late from now on
\* (echoes beyond MaxEchoes get lost), and a new delivery hears nothing that
\* came before it.
GoOn(p, w) ==
    /\ work' = [work EXCEPT ![p] = w]
    /\ late' = IF late + due[p] > MaxEchoes THEN MaxEchoes ELSE late + due[p]
    /\ due' = [due EXCEPT ![p] = 0]
    /\ heard' = [heard EXCEPT ![p] = FALSE]

\* send_pancake_reply, send_pancake_content_ids and their comment forms: the
\* request is taken on by Pancake, which sends an echo of images or does not.
Appears(p) ==
    /\ work[p].pc = "posting" /\ ~work[p].reached
    /\ work' = [work EXCEPT ![p].reached = TRUE]
    /\ shown' = [shown EXCEPT ![p] = @ \cup work[p].chunk]
    /\ known' = Counted(known, p, 1)
    /\ \E e \in {0, 1} :
         /\ e = 1 => work[p].phase # "text" /\ due[p] < MaxEchoes
         /\ due' = [due EXCEPT ![p] = @ + e]
    /\ UNCHANGED <<heard, late, confused, accepted>>

\* The request for the text is answered "ok": the images follow.
TextAcknowledged(p) ==
    /\ work[p].pc = "posting" /\ work[p].phase = "text"
    /\ accepted' = Counted(accepted, p, 1)
    /\ GoOn(p, Delivered(work[p]))
    /\ UNCHANGED <<confused, shown, known>>

\* That for images: done if the first look into the tracker finds an echo.
ImagesAcknowledged(p) ==
    /\ work[p].pc = "posting" /\ work[p].phase # "text"
    /\ accepted' = Counted(accepted, p, 1)
    /\ IF heard[p] THEN GoOn(p, Delivered(work[p]))
       ELSE /\ work' = [work EXCEPT ![p].pc = "waiting"]
            /\ UNCHANGED <<heard, due, late>>
    /\ UNCHANGED <<confused, shown, known>>

\* mutation of RetryRequest: the tries are not counted
RetryUncounted(p) ==
    /\ work[p].pc = "posting"
    /\ known' = Unlearned(p)
    /\ work' = [work EXCEPT ![p].reached = FALSE]
    /\ UNCHANGED <<heard, due, late, confused, shown, accepted>>

\* The request fails or its answer is lost, and it is repeated.
RetryRequest(p) ==
    /\ work[p].pc = "posting" /\ work[p].try < Tries
    /\ known' = Unlearned(p)
    /\ work' = [work EXCEPT ![p].try = @ + 1, ![p].reached = FALSE]
    /\ UNCHANGED <<heard, due, late, confused, shown, accepted>>

\* The last try fails or is not answered, or the answer is one that is not
\* retried (400, 401, 403, 404, or success = false), which shows nothing.
RequestRefused(p) ==
    /\ work[p].pc = "posting"
    /\ work[p].try = Tries \/ ~work[p].reached
    /\ known' = Unlearned(p)
    /\ GoOn(p, Refused(work[p]))
    /\ UNCHANGED <<confused, shown, accepted>>

\* _wait_for_pancake_public_api_image_echo finds an echo.
Verified(p) ==
    /\ work[p].pc = "waiting" /\ heard[p]
    /\ GoOn(p, Delivered(work[p]))
    /\ UNCHANGED <<confused, shown, known, accepted>>

\* The wait ends without one.  The look into the tracker before the next
\* attempt follows without an await and finds nothing either.
WaitEnds(p) ==
    LET w == work[p] IN
    /\ w.pc = "waiting" /\ ~heard[p]
    /\ known' = Unlearned(p)
    /\ IF w.attempt < MaxAttempts /\ w.phase # "comment"
       THEN /\ work' = [work EXCEPT ![p] = [w EXCEPT !.pc = "posting",
                          !.attempt = w.attempt + 1, !.try = 1, !.reached = FALSE]]
            /\ UNCHANGED <<heard, due, late>>
       ELSE GoOn(p, Unverified(w))
    /\ UNCHANGED <<confused, shown, accepted>>

\* The first image left gets a content id, from the cache or by an upload, or
\* does not.
Collect(w, got) ==
    LET i == First(w.left)
    IN [w EXCEPT !.left = @ \ {i}, !.ids = IF got THEN @ \cup {i} ELSE @]

\* The inbox collects all content ids and sends them together, leaving out the
\* images that got none.
UploadForInbox(p) ==
    /\ work[p].pc = "uploading" /\ p \notin Comment
    /\ \E got \in BOOLEAN :
         LET w == Collect(work[p], got)
         IN GoOn(p, IF w.left # {} THEN w
                    ELSE IF w.ids = {} THEN StopFailed(w)
                    ELSE Deliver(w, w.ids, <<>>, "primary"))
    /\ UNCHANGED <<confused, shown, known, accepted>>

\* A comment's images are sent one by one; one that got no content id fails
\* the reply and the loop goes on.
UploadForComment(p) ==
    /\ work[p].pc = "uploading" /\ p \in Comment
    /\ \/ GoOn(p, Deliver(Collect(work[p], TRUE), {First(work[p].left)}, <<>>, "comment"))
       \/ GoOn(p, NextUpload([Collect(work[p], FALSE) EXCEPT !.ok = FALSE]))
    /\ UNCHANGED <<confused, shown, known, accepted>>

\* _record_pancake_public_api_image_echo: whoever has a delivery running finds
\* it; the others' deliveries were confused by it.
Echo(source) ==
    /\ heard' = [p \in Reply |-> heard[p] \/ Open(p)]
    /\ confused' = [p \in Reply |-> confused[p] \/ (Open(p) /\ {p} # source)]
    /\ UNCHANGED <<work, shown, known, accepted>>

EchoComes(p) ==
    /\ due[p] > 0
    /\ due' = [due EXCEPT ![p] = @ - 1]
    /\ Echo({p})
    /\ UNCHANGED late

LateEchoComes ==
    /\ late > 0
    /\ late' = late - 1
    /\ Echo({})
    /\ UNCHANGED due

\* 30 seconds pass, which only a request takes so long: the tracker forgets.
EchoesExpire ==
    /\ \E p \in Reply : heard[p]
    /\ \A p \in Reply : heard[p] => work[p].pc = "posting"
    /\ heard' = [p \in Reply |-> FALSE]
    /\ UNCHANGED <<work, due, late, confused, shown, known, accepted>>

ReplyStep(p) ==
    \/ TextAcknowledged(p) \/ ImagesAcknowledged(p)
    \/ RetryRequest(p) \/ RequestRefused(p)
    \/ Verified(p) \/ WaitEnds(p)
    \/ UploadForInbox(p) \/ UploadForComment(p)

Next ==
    \/ \E p \in Reply : ReplyStep(p) \/ Appears(p) \/ EchoComes(p)
    \/ LateEchoComes
    \/ EchoesExpire

Spec == Init /\ [][Next]_vars

FairSpec == Spec /\ WF_vars(\E p \in Reply : ReplyStep(p))

(***************************************************************************)
(* Properties.                                                             *)
(***************************************************************************)

\* Every variable keeps its type, and nothing is heard by a coroutine that
\* is not delivering images (the state _send_pancake_drive_images keeps).
TypeOK ==
    /\ DOMAIN work = Reply /\ \A p \in Reply : work[p] \in WorkState(p)
    /\ heard \in [Reply -> BOOLEAN] /\ \A p \in Reply : heard[p] => Open(p)
    /\ due \in [Reply -> Nat] /\ late \in Nat
    /\ confused \in [Reply -> BOOLEAN]
    /\ DOMAIN shown = Reply /\ DOMAIN known = Reply /\ DOMAIN accepted = Reply
    /\ \A p \in Reply :
         /\ shown[p] \subseteq Part(p)
         /\ known[p] \in [Part(p) -> Nat] /\ accepted[p] \in [Part(p) -> Nat]

\* No part is shown more often than once plus the times the code could not know
\* that it was shown: retries, split and single sendings never repeat a part
\* whose echo or acknowledgement was seen.
ShownAccounted ==
    \A p \in Reply : \A i \in Part(p) : known[p][i] <= 1

\* A reply that was delivered with the verdict ok shows its text and all images
\* that got a content id, unless an echo of some other sending arrived while
\* one of its own was under way and was taken for its echo (PW 1063-1075
\* compare page, conversation and time only).
ReportedShown ==
    \A p \in Reply :
        work[p].pc = "done" /\ work[p].ok /\ ~confused[p] /\ accepted[p][Text] > 0
        => /\ work[p].ids \subseteq shown[p]
           /\ p \in Comment => work[p].ids = Image(p)

\* Pancake acknowledges an image at most 3 * MaxAttempts - 2 times: an attempt
\* that was never echoed ends the delivery for good, only a refused one is
\* repeated in parts.  A text and an image of a comment: once.
AcceptedBounded ==
    \A p \in Reply : \A i \in Part(p) :
        accepted[p][i] <= IF i = Text \/ p \in Comment THEN 1 ELSE 3 * MaxAttempts - 2

\* Every delivery ends, whatever fails and whichever echoes are lost.
EveryDeliveryEnds == <>(\A p \in Reply : work[p].pc = "done")

(***************************************************************************)
(* The invariant behind ShownAccounted, ReportedShown and AcceptedBounded. *)
(***************************************************************************)

Active(w) == w.pc \in {"posting", "waiting"}

Parts(q) == UNION {q[j] : j \in DOMAIN q}
Apart(q) == \A i, j \in DOMAIN q : i # j => q[i] \cap q[j] = {}

\* What is still to be sent after the present chunk.
ToCome(p, w) ==
    w.left \cup w.refused \cup Parts(w.queue)
        \cup IF w.pc = "uploading" /\ p \notin Comment THEN w.ids ELSE {}

\* Where a reply is: at its text, between the images, at an image of a
\* comment, or at a chunk of an inbox reply; no part is in two places.
Stage(p, w) ==
    \/ w.pc = "done"
    \/ /\ w.pc = "posting" /\ w.phase = "text" /\ w.chunk = {Text} /\ w.attempt = 1
       /\ w.queue = <<>> /\ w.refused = {} /\ w.ids = {} /\ w.left = Image(p)
    \/ /\ w.pc = "uploading" /\ w.chunk = {} /\ w.left # {} /\ w.ids \cap w.left = {}
       /\ w.phase = "text" \/ (w.phase = "comment" /\ p \in Comment)
       /\ w.queue = <<>> /\ w.refused = {}
    \/ /\ Active(w) /\ w.phase = "comment" /\ p \in Comment /\ w.attempt = 1
       /\ w.chunk \subseteq w.ids /\ w.ids \cap w.left = {}
       /\ w.queue = <<>> /\ w.refused = {}
    \/ /\ Active(w) /\ w.phase \in {"primary", "split", "single"} /\ p \notin Comment
       /\ w.left = {}
       /\ w.chunk \cup Parts(w.queue) \cup w.refused \subseteq w.ids
       /\ w.chunk \cap (Parts(w.queue) \cup w.refused) = {}
       /\ Parts(w.queue) \cap w.refused = {} /\ Apart(w.queue)
       /\ w.phase = "primary" => w.chunk = w.ids /\ w.queue = <<>>
       /\ w.phase # "split" => w.refused = {}

\* What is to come was not shown, the chunk being sent only by this request.
Once(p, w, k) ==
    /\ \A i \in Part(p) : k[i] <= 1
    /\ w.pc # "done" => \A i \in ToCome(p, w) : k[i] = 0
    /\ Active(w) => \A i \in w.chunk : k[i] = IF w.reached THEN 1 ELSE 0

\* How often a part may have been acknowledged before this phase began.
Earlier(phase) ==
    CASE phase = "split" -> MaxAttempts - 1
      [] phase = "single" -> 2 * (MaxAttempts - 1)
      [] OTHER -> 0

Acknowledged(p, w, a) ==
    /\ \A i \in Part(p) :
         a[i] <= IF i = Text \/ p \in Comment THEN 1 ELSE 3 * MaxAttempts - 2
    /\ w.pc # "done" =>
         /\ \A i \in ToCome(p, w) \ w.refused : a[i] <= Earlier(w.phase)
         /\ \A i \in w.refused : a[i] <= 2 * (MaxAttempts - 1)
    /\ Active(w) => \A i \in w.chunk :
         a[i] <= Earlier(w.phase) + w.attempt - IF w.pc = "posting" THEN 1 ELSE 0

\* As long as nothing failed and no echo was taken for another: an image with a
\* content id was shown or is still to be.
Seen(p, w, s, a, c) ==
    w.ok /\ ~c =>
    /\ w.pc # "done" =>
         /\ w.ids \subseteq s \cup w.chunk \cup ToCome(p, w)
         /\ p \in Comment => w.ids \cup w.left = Image(p)
    /\ w.pc = "done" /\ a[Text] > 0 =>
         /\ w.ids \subseteq s
         /\ p \in Comment => w.ids = Image(p)

Fits(p, w, k, a, s, c) ==
    Stage(p, w) /\ Once(p, w, k) /\ Acknowledged(p, w, a) /\ Seen(p, w, s, a, c)

\* An echo of p's own delivery is one of a chunk that was shown.
Heard(p) ==
    /\ due[p] > 0 => Open(p) /\ work[p].chunk \subseteq shown[p]
    /\ heard[p] /\ ~confused[p] => work[p].chunk \subseteq shown[p]

\* The inductive invariant: how far each reply got is what was shown and
\* acknowledged of it, and an echo it hears is that of a chunk that was shown.
IInv ==
    /\ TypeOK
    /\ \A p \in Reply :
         /\ Fits(p, work[p], known[p], accepted[p], shown[p], confused[p])
         /\ Heard(p)
=============================================================================
