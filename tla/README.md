# Verification of the Koisan conversation backend

TLA+ specifications of the asynchronous parts of this repository (`app/`, a
FastAPI service with Beanie/MongoDB and httpx, run as one uvicorn worker by the
`Procfile`), checked with TLC on small instances and, for the core, proved with
TLAPS for every instance.  This file lists the system's parts, says which
module models which, what every check and proof shows, and what is left.

Paths below are relative to `src/`; `FB` is `app/api/v1/facebook_webhook.py`,
`PW` is `app/api/v1/pancake_webhook.py`.

## 1. Inventory

Everything runs on one event loop: coroutines interleave only at `await`, and
the `threading.Lock`s guard code without awaits.  What several coroutines share
is (a) module globals, which a restart clears, and (b) MongoDB documents, which
each coroutine copies, changes and writes back **whole** (`Document.save()`).

| Component | State | Operations | Hard behaviour | What makes it correct |
|---|---|---|---|---|
| Facebook webhook (`FB`) | in-flight mids, per-sender buffer and timer, `conversations`, `messages` | `receive_webhook`, `_enqueue_sender_message`, `_process_sender_buffer_after_delay`, `_run_ai_forward_and_reply`, `_handle_admin_message` | redelivery, retry with requeue in front, takeover against running batches, stale document copies, restart | one owner per message, one timer per buffer, replies accounted for, every message settles |
| Facebook Send client (`services/facebook_message_service.py`) | none | text, bulk images, bulk retry, single images | partial success, time-out after delivery, non-retryable errors | the reported result matches what was shown |
| AI version upgrade (`services/ai_version_context_service.py`) | per-conversation locks, `version`, `fb_ai_initialized` | select user, lock, transfer context, mark completed | failure between steps, stale writers | a session is initialised before use, one upgrade per version |
| Pancake ingestion (`PW` 2176-2914, 5326-5976) | sender buffers, ad-context buffers, processing keys, pauses | normalize, dedupe, merge, enqueue, timer, pause, handover | two buffers with different keys, quota pause, admin echo against bot echo | as for Facebook; an ad context reaches the message it belongs to |
| Pancake delivery (`PW` 1038-1185, 3887-5055, `services/pancake_message_service.py`) | echo events | send, wait for the echo, resend split, images | late echo, lost answer, partial send | a chunk is resent only if its echo is missing |
| Auto consult (`services/pancake_auto_consult_service.py`, `PW` 1398-1749, 5058-5323) | dedupe keys | prepare, trigger | trigger racing a message | one consult per product and conversation |
| Drive images (`services/pancake_drive_image_service.py`, `services/google_drive_image_service.py`) | JSON cache and local copies of Drive files | nested lookup, colour filter, download, upload, removal | several replies with one file, a failing folder, restart | an image goes missing only for a named reason; no match is displaced; the branch stays within its limits |
| Conversation directory (`services/conversation_service.py`, `services/order_note_service.py`) | `conversations` (status, order note, activity) | creation by both webhooks, status changes, order notes, deletion | check-then-act on stale copies | what was acknowledged stays, the status rules survive stale saves, one document per customer |
| Intent and slots (`services/slot_service.py`, `services/catalog_service.py`) | state, slots, asked and missing slots | prepare, persist, confirm | several documents per update | missing = required minus filled |
| Image assets (`services/image_asset_service.py`) | file and document | create, rename, replace, delete | failure of one of two writes | no document without its file |
| Image search sources (`services/image_search_source_service.py`, `api/v1/image_search_import.py`) | metadata rows, files, index | import, update, delete | failure between three stores | the three stores agree after each call |
| Accounts (`api/v1/nguoi_dung.py`, `tac_nhan*.py`, `quyen_han.py`, `core/security.py`, `core/database.py`) | users, roles, OTP, blacklist | register, verify, log in and out, reset, seed | concurrent registration, expiry | an OTP is used once; a revoked token stays revoked |
| Dashboard (`services/dashboard_report_service.py`) | none | pairing of messages, rates | boundaries | agrees with a direct definition |
| Imports (`services/product_import_service.py`, ...) | catalogue | row import | failure midway | counted rows are stored rows |

The full list, with what is left aside and why, is `components` in
`PROJECT.json`; `hazards` there lists, at its line, what is hard to test.

## 2. FacebookWebhook: one Facebook customer

`FacebookWebhook.tla` models `FB` for one customer: buffers, timers and
conversation lookups are keyed by the sender, and a mid belongs to one sender,
so customers do not interact except through shared failures.

**State.** `inflight`, `buffer` and `timer` are `_processing_message_mids` and
the customer's entry of `_sender_buffers`.  `doc` is the stored `Conversation`
reduced to what the file branches on and may lose: the takeover pause
(`bot_paused_until`, a pause number; pause `k` is over once `lapsed >= k`) and
`fb_ai_initialized`.  `stored` is the set of mids with a user row.  `delivery`,
`takeover` and `task` are the local variables and the program counter of the
coroutines: `receive_webhook` for a customer message, `_handle_admin_message`,
and `_process_sender_buffer_after_delay` with `_run_ai_forward_and_reply`.
`accepted`, `unacked` and `dropped` are history variables; `replies` is what
the customer has seen.

**Actions.** One per stretch between two awaits, in the code's order:

| Code | Actions |
|---|---|
| duplicate lookup, in-flight check (1758-1780) | `LookUpDuplicate`, `IgnoreDuplicate`, `Claim` |
| `_ensure_customer_message_can_enqueue` and what follows (1782-1818) | `DeliveryLoads`, `DeliverySavesProfile`, `DeliveryResumes`, `Refuse` |
| `_enqueue_sender_message` | `Enqueue` |
| `_handle_admin_message` | `TakeoverLoads`, `TakeoverPauses`, `TakeoverCancelsBuffer`, `TakeoverFails` |
| timer and batch (1347-1445) | `TimerFires`, and `Settle` inside every action that decides a message |
| `_run_ai_forward_and_reply` up to the AI's answer | `TaskLoads`, `TaskSavesProfile`, `TaskResumes`, `Suppress`, `InitialiseSession`, `AnswerAndReload` |
| handover, send | `ReadForHandover`, `SaveHandover`, `SendAcknowledged`, `SendUnacknowledged`, `RetryUnacknowledged`, `Drop`, `Fail` |
| `_save_forwarded_messages` | `StoreMessages`, `SaveConversation`, `SaveFails` |
| time, restart | `PauseLapses`, `Crash` |

A payload with several messages is handled one after the other by one
coroutine; the model lets its messages run as separate deliveries, which
includes those orders.

**Assumed.** Every message has a mid.  The conversation exists and carries the
current AI version (sections 3 and 10 have the upgrade and the creation).  A
reply is one call of `_send_facebook_reply`; section 4 opens it.

`MessageLifecycle.tla` is the abstract specification: a message is out, open or
closed; an acceptance yields at most one acknowledged reply; what is released is
silent until accepted again.  `FacebookWebhook` implements it with
`phase <- Stage`, where `Stage` is computed from the in-flight set and the
batches.

### Runs

| Run | Instance | Question |
|---|---|---|
| `FbOwnership` | 2 messages, one delivered twice, 1 takeover, 2 tasks, 4 events, under `FairSpec` (about 200 s) | `OneHolder`, `OneTimer`, `NoSilentLoss`, `RepliesAccounted`, `IInv`, the refinement `ImplementsLifecycle`, `EveryMessageSettles` |
| `FbLostPause` | 1 message, 1 takeover, 2 events | violated: the pause of README.md:192 can be erased by a stale save |

**Bounds.** `Task` bounds the tasks alive at once: one batch running while the
next timer sleeps needs two, and a requeue from the first with the second asleep
replaces it, so two reach every shape of a pair.  `MaxEvents` bounds taken together
the webhooks that arrive, the failed calls of the AI, Facebook or MongoDB, and the
restarts: four leave room for a delivery and its redelivery, a second message or a
takeover, and one failure or restart, in every mixture.  One failure already
produces requeueing in front of a newer message, a lost acknowledgement, a dropped
message and a failed save.  The proofs cover any number.  `IInv` contains `TypeOK`.
Deadlock is not checked: webhooks are finite, so the system stops.

**Fairness.** `FairSpec` is one weak fairness condition: while some coroutine can
go on, one does (`CoroutineStep`).  The event loop runs whatever is ready,
`asyncio.sleep` ends, and every HTTP and database call either answers or raises at
its time-out.  That is enough: a coroutine takes finitely many steps, and only an
event begins another.  Nothing forces a message to arrive, a staff member to write,
a pause to lapse or the process to die.  Retries are unbounded in the code;
`MaxEvents` says that failures stop.

### What is proved

`FacebookWebhookProofs.tla`, for every set of messages, deliveries, takeovers and
tasks and every bound, from the assumptions `MidOfAssumption` and
`NoTaskAssumption` only:

- `TypeCorrect`, `TimerCorrect`, `OneHolderCorrect`, `RepliesAccountedCorrect`,
  `NoSilentLossCorrect`, `Inductive`: the invariants `TypeOK`, `OneTimer`,
  `OneHolder`, `RepliesAccounted`, `NoSilentLoss` and the whole `IInv`;
- `ReplyOnlyInFlightCorrect`: the action property `ReplyOnlyInFlight`, that only a message
  in flight is answered; no run lists it, since `ImplementsLifecycle` says more;
- `LifecycleImplemented`: `Spec => ImplementsLifecycle`.

`OneHolder` is not inductive by itself: a batch that lists a message twice would
finalize it while still holding it (`BatchShape`), and an idle or sleeping task
that held something would keep a mid (`TaskShape`).  `RepliesAccounted` needs
`OpenIsOwed`: whatever still waits for an answer has an acceptance not yet used
up.  `NoSilentLoss` needs two facts.  `ReleaseIsExcused`: what a batch has finished,
and what a delivery claimed a second time, was answered or has a reason not to be;
it holds because a mid is released only by the one that holds it (`OneHolder`).
`PauseHasTakeover`: before the first takeover no stored or held copy of the
conversation says paused, however stale it is, so nothing is suppressed or cancelled.

The proof goes in layers, each using ones below:
`Local` = `TypeOK`, `TaskShape`, `OneTimer`; `Ownership` = `OneHolder`,
`BatchShape`; `Account` = `RepliesAccounted`, `OpenIsOwed`; `PauseHasTakeover`;
`Settled` = `ReleaseIsExcused`, `NoSilentLoss`.  A layer has one lemma per kind of
step and, where steps leave it alone, a frame lemma.
The module begins with what is needed of queues: the members of head and tail, of an
appended and a concatenated queue, and when these stay free of repetition.

Only model-checked: `EveryMessageSettles` (liveness).

### What the runs show beyond that

- *A takeover pause can vanish* (`FbLostPause`).  A delivery or batch loads the conversation; a
  staff message stores a pause; the first coroutine saves its whole copy (profile,
  initialisation flag, handover status or the final save) and the pause fields are
  empty again.
- *A redelivery can be answered twice*: `RepliesAccounted` bounds replies by
  acceptances because one per mid would not hold.  The lookup in `messages` is awaited
  before the in-flight set is read; the first delivery may be answered, stored and
  finalized between the two.


## 3. AiVersionUpgrade: one conversation and its AI sessions

`AiVersionUpgrade.tla` models `prepare_ai_version_for_customer_message`
(`AV` = `app/services/ai_version_context_service.py`) for one conversation, with
the callers' code that uses its result (`FB` 1111-1195, 956-958 and its counterpart
`_generate_pancake_reply`).  The AI service keeps one session per user name; a
conversation of version `v` talks to `<sender_id>:v<v>`, and the bare sender id is
what remains when a version cannot be used.

**State.** `system` is the configured version (0: a value that does not parse),
`doc` the stored conversation reduced to `version` and `fb_ai_initialized`, `lock`
the holder and the waiters of the conversation's `asyncio.Lock` in order, `req` and
`rival` the coroutines with their copies of the document.  `initialised` and
`contexts` are the AI service's side: which sessions have read the init
instruction, how many upgrade contexts each has been sent.  `addressed`,
`forwarded`, `born`, `rollbacks` and `lowered` are history variables; `lowered` holds
the versions deployed that did not parse or were below the one before.

| Code (`AV`) | Actions |
|---|---|
| comparison and early returns (500-575) | `Load`, `KeepSession`, `SkipUpgrade` |
| lock and second comparison (591-635) | `RequestLock`, `Reload`, `ReloadFails` |
| reset, init, context, version (656-785) | `ResetInitialisation`, `AnswerInit`, `SaveInit`, `AnswerContext`, `MarkCompleted`, `UpgradeFails` |
| the caller: initialise, forward, reply, save | `NeedInit`, `AnswerInit`, `SaveInit`, `Forward`, `ReloadBeforeSend`, `SaveAfterReply`, `GiveUp` |
| any other read-then-save of the whole document | `RivalReads`, `RivalSaves` |
| a restart, with the version it is configured with | `Deploy` |

`_ensure_sender_initialized` is used in both places and is the same pair of
actions.  The key of the lock contains the target version, which is constant while
a process lives, so one lock is enough.

**Assumed.** The version stored with a conversation parses (only this code writes
it).  A failed save did not write.  The history query is free to fail: the code
then sends the current message alone, so `contexts` counts contexts, not what is in
them.

### Runs

| Run | Instance | Question |
|---|---|---|
| `AivUpgrade` | 2 requests, 1 rival, versions 1-3, 1 failure, 1 restart with any version, lower or unparsable ones included, under `FairSpec` | `ReadySession`, `ContextFirst`, `UpgradesAccounted`, `IInv`, `EveryRequestEnds` |

**Bounds.** Two requests are one holder and one waiter of the lock.  A rival can carry a
copy from before or from between two saves of an upgrade, and so can the request
that does not hold the lock.  Three versions let a conversation be older than, equal
to and newer than the system's and leave a version that is skipped.  `MaxFail` and
`MaxDeploy` bound failed calls and restarts.  `IInv` contains `TypeOK`.

**Fairness.** `FairSpec`: weak fairness of the requests' own steps, as in section 2;
`asyncio.Lock` wakes waiters in order.  Nothing makes a rival save.

### What is proved

`AiVersionUpgradeProofs.tla` proves, for every number of requests, rivals, versions,
failures and restarts, from `VersionAssumption` (there is a version) alone:
`TypeCorrect`, `ReadySessionCorrect`, `ContextFirstCorrect`,
`UpgradesAccountedCorrect`, and `Invariance` for the whole `IInv`.

The argument speaks of `Copies`: the document and every live copy of it.  A stale
save can only store one of them, so whatever holds of all copies survives it.

- `LockShape`: the requests in the lock are those that wait or upgrade, each once,
  and only the head upgrades, for the system's version, an older copy.
- `AccountShape` makes `UpgradesAccounted` inductive.  Once the account of a version
  is used up, the document has reached it or its holder is about to record it; so
  the second look under the lock turns everybody else away, unless a save lowers
  the version (which pays) or the look itself fails (which pays).
- `ContextShape`: every copy with a version above the first one is of a version that
  had its context; `MarkCompleted` alone makes such copies.
- `SessionShape` (only while deployments raise the version): no copy is above the
  system's version, and one that claims to be initialised at that version tells the
  truth.  This is what resetting the flag *before* the version changes is for: the
  mutant that leaves the flag breaks `ReadySession` at once.

`EveryRequestEnds` is only model-checked.

### What the runs show beyond that

- *A message without text on an older conversation* skips the upgrade and goes to the
  bare session with the flag of the versioned one
  (docs/conversation-ai-version-context-reset.md:146 says the flag tells whether the
  present AI user has read the instruction): if it is set, the bare session is never
  given its own.  `ReadySession` therefore speaks of sessions of a valid version.
- *A stale save repeats an upgrade*, although
  docs/conversation-ai-version-context-reset.md:728 speaks of one sequence per
  version.  `UpgradesAccounted` says that nothing else does, apart from failed calls
  and restarts.

## 4. FacebookSend: inside one send

`FacebookSend.tla` opens the step that section 2 takes as one: what
`send_facebook_text_and_images` does with a reply, call by call, and what
`_run_ai_forward_and_reply` makes of it (`FM` =
`app/services/facebook_message_service.py`).  The text is sent first; then the
images in one message, the same message again two seconds later, and each image by
itself.  A single image is sent by itself at once.

**State.** `pc`, `next` and `sent` are where the client is, the loop's position and
`sent_count`; `reply` is what the AI answered; `result` the webhook's verdict (`ok`,
`retry`: requeued, `drop`: `non_retryable`).  `shown` and `tried` count, for the text
(item 0) and each image, how often the customer saw it and how often it was sent;
`lost` counts calls that were shown although they failed; `denied` says that a call
failed with `non_retryable`.  `sends`, `seenBefore`, `lostBefore` add up earlier sends.

| Code (`FM`) | Actions |
|---|---|
| early returns, splitting off the text (584-606) | `Prepare` |
| text (605-625) | `SendText` |
| bulk message and repetition (412-515) | `SendBulk` |
| one image by itself, and the loop (378-411, 516-571) | `SendSingle` |
| result, error search, the webhook's verdict (633-653, `FB` 1215-1237) | `Finish` |
| requeue and the next answer (`FB` 1222-1242) | `SendAgain` |

Every call has four outcomes (`Outcome`): shown; *lost*, that is shown although the
request timed out or failed; refused; denied (`_classify_facebook_api_error`).

**Assumed.** All image URLs pass `is_allowed_facebook_image_url`: those in the text
were accepted by it, those of the Drive lookup are built on the same host.  A bulk
message is shown whole or not at all.

**Run `FbSend`** (3 images, the real limit; 2 sends): nothing else of the module has
a bound.  It checks that the verdict agrees with what the customer saw
(`VerdictJustified`), that the three ways to send an image neither repeat it more
than answers were lost (`OncePerAnswer`) nor give it up early
(`ImagesTriedThrough`), and that over all sends of a message only lost answers are
seen twice (`SeenAccounted`): the assumption under which section 2 counts replies.
A send is straight-line code with a bounded loop, so no liveness is stated.

Worth knowing, not promised otherwise anywhere: a reply with a text counts as sent
even if no image came through; a call denied after a lost one drops a message the
customer has seen (so `Drop` of section 2 also follows an unacknowledged send).

**Proved** (`FacebookSendProofs.tla`, for every `MaxImages` and `MaxSends`, from
`ImagesAssumption`): all properties of the run, and that nothing follows a denied
call (`DeniedIsFinal`).  `IInv` adds what the properties do
not say of a send under way: before the loop reaches an image it was shown at most
`lost` times (`ImagesSoFar`), its calls are counted by the stage (`TriesSoFar`), the
text was shown exactly once before any image (`TextFirst`), there is no call after a
denied one (`Control`), and every earlier visible send lost an answer (`PaidSoFar`).


## 5. PancakeIngestion: messages, ads and staff of one Pancake conversation

`PancakeIngestion.tla` models `receive_webhook` of `PW` from the duplicate checks to
the stored answer, for one conversation.  A Delivery is one webhook call: a customer's
message of the inbox or comment (`Comment`), a trigger (an ad card, or the notice that
the page answered a comment) or a staff message.  A Timer is one task of the sender
buffer or of the ad buffer.  Unlike Facebook's webhook, this one answers some messages inside the request: an ad that
finds messages waiting, a message that finds an ad waiting, every comment, and
everything when the buffer is switched off.  Nothing is retried.

**State.** `doc` is the Conversation document, reduced to the pause it records
(pauses are numbered; `running` are those that have not lapsed) and
`fb_ai_initialized`.  `rows`, `since`, `aged`, `adRows`, `bots` are what the queries
tell apart of the `messages` collection: the duplicate lookups filter `meta.source`, which
is another for comments (405-418), and `bots` counts replies by source and success.
`marks`, `buffer`, `pending`, `consumed` are the four memories of the process.  `work[p]` is a coroutine: its place, its copy of the
document, its batch `mids`, the ad it answers, the pause `ctx` whose transcript goes
with it and the `key` it marked.  `replies`, `claims`, `consults`, `untold` are
history variables; `occasion` says what may happen in the behaviour and never changes.

| Code (`PW`) | Actions |
|---|---|
| keyword or its list unreadable, lookup, mark (1253-1292, 5350-5367, 542-547, 2176-2184, 5217-5264) | `Block`, `LookUpDuplicate`, `Ignore`, `Claim` |
| triggers (5266-5323, 2469-2619) | `MergeIntoAd`, `EnqueueAd`, `Prepare`, `AdTimerFires`, `LookUpAgain` |
| document, resume, second lookup, row (451-539, 620-663, 2128-2173, 2928-2939) | `Load`, `Resume`, `DropTwin`, `Check`, `StoreRow` |
| staff (5388-5418, 1784-1820) | `StoreStaffRow`, `PauseForStaff` |
| comments that are not answered (5529-5539) | `IgnoreComment` |
| sender buffer (2622-2755) | `RefuseContent`, `Enqueue`, `EnqueueAndMerge`, `TimerFires` |
| before and after the AI call (1026-1035, 2831-2914, 3045-3313) | `Reload`, `Suppress`, `InitialiseSession`, `Ask` |
| the answer (4841-5055, 1823-2125, 2986-3042) | `HandOverRepetition`, `HandOver`, `Send`, `PauseForQuota`, `StoreReply`, `SaveConversation` |
| a call that fails or raises, anywhere | `Fail` |
| time and the process | `RowAges`, `ConsumedExpires`, `PauseLapses`, `Crash` |

**Assumed.** Both buffer keys denote the same customer; the document exists and
carries the system's AI version (section 3); every message has a mid; a failed save did
not write.  `Send` is one step with the outcomes shown, shown but reported failed, and
failed.  A delivery of a comment has the ids of page, conversation and comment: the
returns of 5541-5564 for one without them are never taken, since the normalizer refuses
such payloads (`pancake_webhook_normalize_service.py` 275-288), only a message with a
comment id is classified as a comment (1217-1223), and 456-461 raises without the other
two.  Whether an equal reply was given before is decided by the number of successful
bot rows, and whether a text equals one of them is left free (`BotEcho`).

`AnswersOwed.tla` is the abstract specification: storing a row of a message makes one
answer owed, a reply settles one answer for each message of its batch, and what is owed
is let go of only when the message was answered or has an excuse (`LetGo` also lets two
holders of one message become one, as when a message with two rows is buffered twice).
`PancakeIngestion` implements it with `owed <- Owed`, the number of those who still hold
the message (`Holders`), and the excuses of `NoSilentLoss`, its `Reason`: no content, a
comment where `PANCAKE_COMMENT_AUTO_REPLY_ENABLED` is off (its default), staff, a pause
of the bot's own, a failed call or restart, and for the inbox a dangerous message, which
empties the buffer.

### Runs

| Run | Instance | Question |
|---|---|---|
| `PcIngestion` | fourteen occasions (`MCOccasion`), under `FairSpec` (about 180 s) | `TypeOK`, `TimersArmed`, `MarksHeld`, `NoSilentLoss`, `AnsweredPerRow`, `ConsultedPerClaim`, `SecondRowIsLate`, the refinement `KeepsPromise`, `EveryMessageSettles` |
| `PcTranscript` | m1 and two staff messages; no buffer | violated: the transcript holds what staff wrote in the takeover |

The occasions: two messages, one delivered twice; one delivered twice with a failure and
a restart; two messages and a staff message; an ad delivered twice beside a message with
a failure, and alone with a failure and a restart; an ad with a pause of the bot's own; a
dangerous message beside an ad; an ad and a staff message.  Without a buffer: a comment
delivered twice, or a comment and a message of the same words, beside a comment notice;
and a message with an ad.  With it: a comment delivered twice beside a message; a comment
and a message with a failure and a restart; and, where comments are not answered, a
message, a comment and a dangerous comment.

`SecondRowIsLate` is as much as the code gives: the lookup of `PW` 5359 is awaited
before the mark is set, and a twin that slips through is only caught by the lookup of
equal content, which ends after ten seconds and looks for rows of the inbox only (2168).
A comment that is redelivered while its first delivery is at work may therefore get a
second row and a second answer at once, where docs/pancake-webhook-reply-comment.md:280
has a duplicate mid not handled twice; the property excepts comments.  `AnsweredPerRow` and `ConsultedPerClaim`
therefore count per stored row and per claim, which hold without exception.  Per
trigger id they would not: the in-memory `consumed` set lives 60 seconds (`PW` 124),
and a redelivered ad that waited longer for its turn is asked about again, against
docs/pancake-webhook-ad-message.md:851.  The stale save of section 2 exists here too
(`PW` 656, 5034): a pause set by staff can be overwritten.

`PcTranscript` shows an order of writes, not a race: `PW` 5389 stores the staff row and
then `PW` 1801 sets `bot_paused_at`, so the window `created_at >= bot_paused_at` of
the resume turn always begins behind the latest staff row.

**Bounds.** Two timers are the most two entries need; a redelivery and a second message
are the smallest cases of a duplicate and of a merge; three answers reach the
repetition pause.  An occasion bounds the deliveries, the bot's own pauses, failed
calls and restarts; everything within one is interleaved freely.

**Fairness.** `FairSpec`: weak fairness of the coroutines' steps (`WorkerStep`), as in
section 2.  No message has to arrive, no pause has to lapse and no row has to age.

### What is proved

`PancakeIngestionProofs.tla` proves all safety properties of the run above, for any sets
of messages, deliveries, timers and occasions, the action property `SecondRowIsLate` and
the refinement of `AnswersOwed`.  `IInv` is the inductive invariant: the properties
themselves, and

- `Shape`: what a worker has at hand where it is.  Without it a worker could hold a
  batch or a trigger at a place where its handler has none, and a row could be stored
  for a message whose mark somebody else holds.
- `LookedUp`: between the second lookup and the insertion no young row of the message
  appears, if it is of the inbox.  It stays true because another worker that stores a row holds another key
  (`MarksHeld`), and time only makes rows older.
- `InboxBuffered`: no comment is in the buffer.  A dangerous message of the inbox drops
  the buffer and excuses messages of the inbox only, so no comment may be lost with it.
- `PauseExplained`: a pause has its reason.  `NoSilentLoss` needs it where a reply is
  held back.
- `IsFiniteSet` of those who owe an answer (`Holders`) or may ask (`Askers`), since
  `AnsweredPerRow` and `ConsultedPerClaim` count them.

The argument: every step but a crash and the passing of time is one worker's.  `Whole`
states what such a step must do: the marks follow the worker's key, what it and the
buffer owe grows only with a row, what it and the waiting ad may ask grows only with a
claim, and what was owed stays owed or has an excuse.  `Moves` and `Advances` are the
cases that touch neither buffer nor ad, `Ending` a worker that returns, `Entries` a step
that moves messages or a trigger.  Each action is then one lemma.  TLC finds `IInv`
true in all 239,756 states of the run, and liveness stays with TLC.

What each lemma concludes is `Serves`: the invariant again, no reason given up, and the
number of holders bounded by what rows add and replies take, never falling to zero
without an excuse.  The refinement (`PromiseKept`) is then three cases: the step that
stores a customer's row adds exactly one holder (`PromiseStore`), the step that shows a
reply removes exactly its sender from every message of the batch (`PromiseAnswer`), and
for every other step `Serves` is what `LetGo` asks (`PromiseLetGo`).  `PromiseSuffices`
proves of `AnswersOwed` alone what the customer gets from it: never more replies than
rows, and no stored message passed over without an excuse.

## 6. PancakeDelivery: a reply on its way to the customer

`PancakeDelivery.tla` opens the `Send` of section 5 (`PW` 1038-1185, 3833-5055 and
`app/services/pancake_message_service.py`): the text, then the images, each image
message believed only when its echo webhook comes.  What interacts is the tracker of
echoes: it is keyed by conversation, and an echo is not consumed by who waits for it.

**State.** `work[p]` is where the coroutine of reply `p` is: the chunk of images it
sends, the chunks to follow, the attempt and the try, which images have a content id,
which a split sending was refused.  `heard`, `due` and `late` are the tracker and the
echoes on their way; `shown` is what the customer sees.  `known`, `accepted` and
`confused` are history variables.

| Code (`PW`) | Actions |
|---|---|
| one HTTP request and its repetitions (`pancake_message_service.py`) | `Appears`, `TextAcknowledged`, `ImagesAcknowledged`, `RetryRequest`, `RequestRefused` |
| wait for the echo, next attempt (1163-1184, 3887-4066) | `Verified`, `WaitEnds`, inside it `Unverified` |
| split in two, then one by one (4069-4324) | `Refused`, `Continue` |
| content ids (4414-4558, 4607-4838) | `UploadForInbox`, `UploadForComment` |
| webhooks of echoes, and their 30 seconds (1038-1160) | `EchoComes`, `LateEchoComes`, `EchoesExpire` |

**Run `PcDelivery`** (an inbox reply with three images by itself; a comment's reply
and a short inbox reply together; 2 attempts, 2 tries, 1 echo of each kind): a part is
shown twice only when the code could not know of the first time (`ShownAccounted`); a
verdict *ok* is true unless echoes were confused (`ReportedShown`); an image is taken at
most `3 * MaxAttempts - 2` times (`AcceptedBounded`); every delivery ends
(`EveryDeliveryEnds`, under weak fairness of the replies' steps: requests and waits have
time-outs, and nothing forces an echo to come).  Three images are the fewest that are
split into unequal parts; two attempts have a first and a last.

**Proved** (`PancakeDeliveryProofs`, for any replies delivered together, image counts,
attempts, tries and echoes): the type invariant and the three safety properties.  None is
inductive alone: a split or single sending repeats what the bookkeeping of the coroutine
says is still to be sent, so `IInv` ties that bookkeeping to the history.  `Stage` says
where a reply can be and that no image is in two places (chunk, queue, refused, not yet
uploaded); `Once` that what is to come was not shown, the chunk at most by the present
request; `Acknowledged` how often a part was taken before each phase; `Seen` that, while
nothing failed, an image with a content id was shown or is to come; `Heard` that an echo
which confuses nobody is that of a shown chunk.  `SplitShape` and `SinglesShape` say that
the chunks of a set are apart and make up the set; `DeliveredFits`, `UnverifiedFits` and
`RefusedFits` follow the three verdicts on a chunk, and `Whole` and `GoOnKeeps` carry that
to the actions.

Worth knowing: docs/pancake-drive-link-image-reply.md:499 speaks of three delivery
attempts, and an image that is refused in every form is sent more often, since each of
the split and single sendings counts its attempts anew (`AcceptedBounded` has the
bound).  The look into the tracker before an attempt (`PW` 4001) never finds what
the wait before it did not: no await lies between them.

## 7. DriveImageCache: files that replies share

`DriveImageCache.tla` models `app/services/pancake_drive_image_service.py` and its
use by the delivery (`PW` 3245-3295, 4414-4750): one JSON entry and at most one local
copy per Drive file, for all replies of the process.  A reply makes sure of its images,
delivers its text, uploads what has no content id and removes the uploaded copy; a
comment's reply neither reuses content ids nor removes copies.  Between those steps
other replies do the same with the same files.

**State.** `entry` and `disk` are the cache; `ask`, `run`, `got` what a reply wants,
where it is and what it holds of each file.  `shared`, `kept` and `missed` are history
variables.  Each image is a step of its own, which adds interleavings where the code
runs on.

**Run `DriveCache`** (two inbox replies and a comment's, two files, every past of them
in `MCPast`, 2 tries, 1 end of the process): a reply misses an image only when another
counted on the same file (`MissedOnlyShared`), and a copy that outlives its upload
has a known reason (`LeftoverExplained`): the file was shared, used by a comment, there
before, or it was to be removed and the process ended first or the removal failed, which
`_remove_local_image` logs and passes over (835-846; `Removal`).  That holds for both
removals: after an upload, and of the copy whose entry lacks its colour.  Writing a copy
or the JSON file is taken to succeed.

**Proved** (`DriveProofs`, for any replies, files, lists and crashes): the type
invariant, hence that neither loop indexes past its files, and both properties.  `IInv`
adds what connects a reply's past look into the cache with its present use: a copy it
counts on is there or noted as shared (`Holds`), two who count on one file have noted it
(`SharedNoted`), and a download for a reply that reuses content ids began without one, so
that an id found at its end came from another reply that counted on the file
(`UnderWay`).  The leftover property is not inductive without the last.  `Whole` splits a
step into what the stepping reply holds and what it must not take from the others.

The first is as much as holds: docs/pancake-drive-link-image-reply.md:299 says the cache
is looked into before a download or upload, and the code looks once, before the text is
delivered (`PW` 4695 goes by that), so a reply whose copy another has uploaded and
removed meanwhile loses the image although the cache knows its content id.

## 8. DriveLookup: which images of a folder are sent

`DriveLookup.tla` models `app/services/google_drive_image_service.py` 334-1293 and the
selection of `PW` 3316-3763.  A link is opened level by level; at each one the page's
images, a folder or a random branch is chosen by the colours the answer asked for, up
to the depth limit; then images are drawn.  The constants `Drives`, `Requests` and
`Settings` are the inputs; random choices are nondeterministic, and the properties hold
for all of them.

**Run `DriveLookup`** (three images placed and labelled in every way in four folders of
three levels; one or two links; no, one or two phrases; three settings):
`FallbackOnlyWithoutMatch`: no image that answers no phrase displaces one of the opened
branch that does; `OneBranch`: what is sent comes from one branch of the folder and
from no blocked folder; `LookupIInv`, whose `LookupTypeOK` bounds the depth.

**Proved** (`DriveProofs`, for any tree of folders, any contents, colours, answers with
any number of links, settings and random choices): the type invariant with the bound on
the depth, and both properties.  Neither is inductive.  `OneBranch` speaks of results;
`OnBranch` says what makes them: while a branch is walked, the folders opened are those
from the link down to the present one (`Chain`), or the link and some of its colour
folders (`Fan`), and its images lie in them.  `FallbackOnlyWithoutMatch` speaks of
selections and needs `OffersMatches`: a link offers matches alone, or every match its
branch has; for the root's own page, which is all that was seen, this rests on
`TakeRootAnyway` being for the first level only.  `ResultKeeps` and `WalkKeeps` are the
two things a step may do, and each action is reduced to one of them.  That random choices
select among the candidates (`SelectedAreCandidates`) is all that is needed of them.
With at most one Drive colour among the candidates the code draws at random (`PW` 3561,
3691-3692), and `ByDriveColour` allows any draw; only several colours must be covered.

The names of the specification and of its invariants begin with `Lookup`, so that the
proofs of both components that deal with Drive images can stand in one module.

Observed, and not kept as the documents have it
(docs/pancake-drive-folder-nested-image-lookup.md): line 990 asks that a colour folder
whose lookup fails be passed over, but one handler covers the whole link
(`google_drive_image_service.py:718`), so one failing page gives up what others had;
line 393 asks that two colours which both have candidates both be shown, but an image
without a colour whose name mentions a phrase is given the first colour of the request
(line 427) and may stand for both.

## 9. ImageSources: rows, files and index

`ImageSources.tla` models `app/services/image_search_source_service.py`: the CSV of
source images, their files and their vectors in the index, three stores without a
transaction.  Import, update, delete and the rebuild script give way while uploads are
read and while threads work; each step may fail, with the code's rollback, and the
process may end.  `tags` says what happened to an image; a request that ran beside an
update, a delete or the script is `mixed`.

A failed append to the CSV (693-712) is taken to leave no row; the code appends row by
row, so a failure in the middle may leave some.

**Run `Sources`** (three requests, two codes that share a folder's name, three images,
up to two uploads each, with symmetry): `FilesMatchRows` and `SearchMatchesRows` hold
wherever no stale copy of the CSV could be written back.  **Run `SourcesFailed`**
violates `FailedLeavesNothing`: an import that fails takes its rows back, and an update
that had copied the CSV before writes them again (line 1137), against
docs/image-search-import-post-index-resize.md:165.

**Proved** (`ImageSourcesProofs`, for any requests, codes, folders, images and uploads):
the type invariant and both properties.  They speak of images nobody works on, so `IInv`
adds what an image looks like meanwhile: stored (`Arriving`) or dropped (`Leaving`) by a
request, at every stage of it; and that a copy of the CSV that an update or a delete may
write back still agrees with the rows of all images but its own (`CopyHolds`).  The last
is what fails beside a request that rewrites the CSV, and `Neighbours` says that whoever
runs beside one is `mixed`, and its images with it.  `Stages` and `Names` say which
stages a kind of request has, and that a name is given once.  `StepSound` reduces a step
to the images of the request that takes it: others find their rows, files and vectors
untouched, unless tagged.  Each action then has a lemma that shows this and one for the
rest.

Also observed: two codes whose names give one folder (lines 165-171) lose each other's
files, since deleting one removes the folder (line 936), although
tests/test_image_search_source_service.py:630 expects another code's file to stay.

## 10. ConversationDirectory: the documents of one customer

`ConversationDirectory.tla` puts together who writes `conversations`: both webhooks,
`POST /order-notes`, which the AI calls for a conversation id it was told, and the
dashboard's `PATCH`, `DELETE` and `POST`.  Each reads the document, gives way and saves
the whole of its copy; Beanie's `save()` inserts a document that was deleted meanwhile.

**State.** `docs` maps ids to status, order note, activity and whether the document
belongs to a Pancake thread; `written` are the ids ever inserted, `told` those the AI
knows; `act[a]` is an actor's place with the copies it holds.  `kept` is the history of
what each document was given and no rule and no older copy took away again; `escalated`
and `excused` are history variables.

| Code | Actions |
|---|---|
| find or create (`FB` 659-733) | `Look`, `Create` |
| upsert by thread (`PW` 451-539) | `Upsert` |
| saves on the way, the answer, the second read | `SaveCopy`, `Ask`, `Reload` |
| handover (`FB` 415-468; `PW` 1823-1884, 2042-2099, 2986-3042) | `CallHandover`, `SaveHandover`; `Escalate` |
| the last save, or none | `Finish`, `GiveUp` |
| `create_order_note_service` | `ReadForNote`, `SaveNote` |
| `update_conversation_crud_service`, `delete_conversation_service`, `create_conversation_service` | `ReadForPatch`, `SavePatch`, `Delete`, `Post` |

`Found` is the customer's lookup, which makes an inactive document active (694-700); a
staff message finds it and leaves it inactive (705-733).  Activity decides nothing in the
model, so the run of a staff message is one that finds an active document, may save it
and ends.

**Run `Directory`** (`MCCasts`: six companies of three or four actors, three
symmetric ids; every read and save interleaved):

- `AcknowledgedKept`: nobody who had read an order note or an escalation takes it away
  by saving.  What remains are the losses it names: an older copy saved over it, the
  rule that a note begins anew unless the order is pending, and the dashboard;
- `ConfirmedWasEscalated`: the rule of `conversation_service.py` 1386 survives copies
  saved over each other, although the status is checked on the copy;
- `OneConversation`: a second document arises only when the inserter could not see the
  first, through the dashboard, or when a save brings a deleted one back.

**Proved** (`ConversationDirectoryProofs`, for any number of documents, runs, notes and
requests): the type invariant and all three properties.  They follow from `IInv`, which
says what a copy must be at *any* later moment, since nothing tells when it is saved:
`Sound(c, read, drop)` - it holds the lines and the status of what was kept when it was
read (but for what its owner takes away by rule), it is `confirmed` only if the document
was escalated, and it is of the same kind as what it will replace unless that is gone or
excused.  `OneConversation` needs besides that all ids written before an unsuccessful
lookup are gone or excused for as long as the inserter waits.  The argument is modular:
`Grows` is all that others rely on; each kind of change of the store (`SaveKeeps`,
`InsertKeeps`, `TouchKeeps`, `DeleteKeeps`, `AcknowledgeKeeps`) is shown to respect it,
and each action to leave its own actor a sound copy.

Observed: an AI handover turns `order_pending` into `handover`, and the next order note
then starts at 1 and erases the note nobody has dealt with
(docs/order-note-conversation-context.md:15 numbers the notes on); a note survives
`order_pending`, `handover`, `new`; the final save of `FB` 957 may put an old status back
over `handover`.  Requests end after two steps and nothing waits for another, so no
liveness is stated.

## 11. What is proved and what is only checked

Proved with TLAPS for every value of the constants: see sections 2 to 10.
Every safety property of a passing run and the refinements of `MessageLifecycle` and
`AnswersOwed` are proved; model-checked only are the liveness properties `EveryMessageSettles`,
`EveryRequestEnds` and `EveryDeliveryEnds`: the proof system does not reach liveness
under fairness.

Violated by the code, each shown by a run: `BotPausedAfterTakeover` (`FbLostPause`),
`AskedWithTranscript` (`PcTranscript`), `FailedLeavesNothing` (`SourcesFailed`).

## 12. Not modelled

- *Two senders in one Pancake conversation.* The ad buffer is keyed by conversation, the
  sender buffer by sender; `PancakeIngestion` gives both keys to one customer.
- *Comment images, normalisation of payloads, colour phrases in a text, handover
  phrases:* text work without state; where its outcome matters it is a free choice.
- *Intent, slot and workflow routes.* They serve `/intent`, `/message` and `/workflow`,
  which no webhook calls, and what they write is the outcome of text matching.  Besides its
  own rows `extract_intent_service` saves the Conversation document it read, whole: one
  more stale save of the kind section 10 shows.
- *Image assets.* Of `image_asset_service.py` only `mount_rag_image_storage` is called.
- *Accounts, roles, tokens.* Apart from the message flow, and one or two rows at a time;
  two requests for one account would be the next module to write.
- *Dashboard reports, imports, dataset cleaning, image processing, scheduler.* Reading
  only, one file at a time, numeric work, or a heartbeat.

## 13. Reading order and what could follow

`MessageLifecycle`, `FacebookWebhook` and its proofs; `AiVersionUpgrade`,
`FacebookSend`; `AnswersOwed`, `PancakeIngestion` and its proofs; `PancakeDelivery` and its proofs; `DriveImageCache`,
`DriveLookup` and the proofs of both, `ImageSources` and its proofs; `ConversationDirectory` and its
proofs.  `MC*.tla` and `*.cfg` hold instances only.

To follow: two senders in one conversation; accounts.
