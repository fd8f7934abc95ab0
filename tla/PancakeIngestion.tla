-------------------------- MODULE PancakeIngestion --------------------------
(***************************************************************************)
(* src/app/api/v1/pancake_webhook.py for one Pancake conversation: what    *)
(* the webhook does with customer messages of the inbox, with customers'   *)
(* comments, with triggers (an ad card, or the notice that a page answered *)
(* a comment) and with staff messages.                                     *)
(*                                                                         *)
(* A Delivery is one run of receive_webhook; a Timer is one asyncio task   *)
(* of the two buffers, which becomes the worker of what it pops.  A        *)
(* delivery may become such a worker too: a customer message that finds a  *)
(* waiting ad, and an ad that finds waiting messages, are answered inside  *)
(* the request.  Each worker holds a copy of the Conversation document,    *)
(* and every conversation.save() writes the whole copy back.               *)
(*                                                                         *)
(* Both buffer keys denote the customer of this conversation.  The         *)
(* conversation carries the system's AI version (see AiVersionUpgrade),    *)
(* and every message has a mid.                                            *)
(***************************************************************************)
EXTENDS Naturals, FiniteSets

CONSTANTS
    Mid, NoText,      \* customer message ids
    Comment,          \* those of comments; the others are of the inbox
    TextOf,           \* their content; NoText: nothing the AI can be sent
    Dangerous,        \* those that hold a dangerous keyword
    Trigger, AdCard,  \* trigger message ids; those of ad cards
    NoTrigger,
    Staff,            \* staff message ids
    Delivery, Carries, \* webhook deliveries and what each one carries
    Timer, NoTimer,   \* buffer tasks that may be alive at once
    NoKey,
    Occasion          \* what may happen in one behaviour, see OccasionShape

Key == Mid \cup Trigger \cup Staff

\* The deliveries that come; an inbox with PANCAKE_SENDER_BUFFER_SECONDS > 0;
\* PANCAKE_COMMENT_AUTO_REPLY_ENABLED; bounds on the pauses the bot takes by
\* itself, on failed calls and on process restarts.
OccasionShape ==
    [comes : SUBSET Delivery, buffered : BOOLEAN, commentReply : BOOLEAN,
     selfPauses : Nat, failures : Nat, crashes : Nat]

ASSUME OccasionAssumption == \A o \in Occasion : o \in OccasionShape
ASSUME CarriesAssumption == Carries \in [Delivery -> Key]
ASSUME KindsAssumption ==
    /\ Mid \cap Trigger = {} /\ Mid \cap Staff = {} /\ Trigger \cap Staff = {}
    /\ AdCard \subseteq Trigger /\ Dangerous \subseteq Mid /\ Comment \subseteq Mid
    /\ DOMAIN TextOf = Mid
ASSUME NothingAssumption ==
    /\ NoTimer \notin Timer \cup Delivery /\ NoTrigger \notin Trigger /\ NoKey \notin Key
    /\ Timer \cap Delivery = {}

Worker == Delivery \cup Timer

VARIABLES
    doc,              \* the stored Conversation document
    rows,             \* user and staff rows per message id
    since,            \* created_at of a staff row: the last pause begun by then
    aged,             \* customer messages whose row is older than 10 s
    adRows,           \* triggers some stored row refers to
    bots,             \* bot rows: whether Pancake took the reply, and whether
                      \* its source is PANCAKE_MESSAGE_BOT_SOURCE
    marks,            \* _processing_message_mids
    buffer,           \* the entry of _pancake_sender_buffers
    pending,          \* the entry of _pancake_ad_context_buffers
    consumed,         \* _pancake_consumed_ad_context_mids
    work,             \* local state of each Delivery and Timer
    pauses, running,  \* pauses begun so far; those not yet over
    occasion,         \* the occasion of this behaviour; it never changes
    selfPauses, failures, crashes,
    replies,          \* history: replies the customer was shown
    claims, consults, \* history: claims of a trigger, answers of the AI to it
    untold            \* history: staff rows of a pause the AI was not shown

database == <<doc, rows, since, aged, adRows, bots>>
tables == <<rows, since, aged, adRows, bots>>
memory == <<marks, buffer, pending, consumed, work>>
clock == <<pauses, running>>
budget == <<occasion, selfPauses, failures, crashes>>
history == <<replies, claims, consults, untold>>
vars == <<database, memory, clock, budget, history>>

-----------------------------------------------------------------------------
(* The pause a document records (0: none) and its fb_ai_initialized.        *)

Doc == [pause : Nat, init : BOOLEAN]
NoCopy == [pause |-> 0, init |-> FALSE]

\* _is_pancake_bot_paused
Paused(c) == c.pause \in running

PauseExpired(c) == c.pause # 0 /\ ~Paused(c)

\* nothing to resume and not paused
Active(c) == c.pause = 0

PC == {"arriving", "looked", "fetching", "load", "loaded", "checked",
       "staffed", "rowed", "reload", "ready", "answered", "final", "send",
       "sent", "quota", "logged", "relook", "idle", "sleeping", "done"}

\* hit: what the awaited duplicate lookup found; ok: Pancake took the reply;
\* mids: the batch; ctx: the ended pause (0: none) whose transcript goes with
\* it; key: what the worker marked as processing
WorkState == [pc : PC, hit : BOOLEAN, ok : BOOLEAN, copy : Doc,
              mids : SUBSET Mid, ctx : Nat,
              trigger : Trigger \cup {NoTrigger}, key : Key \cup {NoKey}]

Blank(pc) == [pc |-> pc, hit |-> FALSE, ok |-> FALSE, copy |-> NoCopy,
              mids |-> {}, ctx |-> 0, trigger |-> NoTrigger, key |-> NoKey]

Idle == Blank("idle")
Sleeping == Blank("sleeping")

\* ctx and copy are those of the first item
BufferEntry == [mids : SUBSET Mid, ctx : Nat, copy : Doc,
                timer : Timer \cup {NoTimer}]
NoBuffer == [mids |-> {}, ctx |-> 0, copy |-> NoCopy, timer |-> NoTimer]

PendingEntry == [trigger : Trigger \cup {NoTrigger}, timer : Timer \cup {NoTimer}]
NoPending == [trigger |-> NoTrigger, timer |-> NoTimer]

TypeOK ==
    /\ doc \in Doc
    /\ rows \in [Mid \cup Staff -> Nat]
    /\ since \in [Staff -> 0..pauses]
    /\ aged \subseteq Mid
    /\ adRows \subseteq Trigger
    /\ bots \in [BOOLEAN \X BOOLEAN -> Nat]
    /\ marks \subseteq Key
    /\ buffer \in BufferEntry
    /\ pending \in PendingEntry
    /\ consumed \subseteq Trigger
    /\ work \in [Worker -> WorkState]
    /\ pauses \in Nat /\ running \subseteq 1..pauses
    /\ occasion \in Occasion
    /\ selfPauses \in Nat /\ failures \in Nat /\ crashes \in Nat
    /\ replies \in [Mid -> Nat]
    /\ claims \in [Trigger -> Nat] /\ consults \in [Trigger -> Nat]
    /\ untold \subseteq Staff

Init ==
    /\ occasion \in Occasion
    /\ doc \in [pause : {0}, init : BOOLEAN]
    /\ rows = [m \in Mid \cup Staff |-> 0]
    /\ since = [s \in Staff |-> 0]
    /\ aged = {} /\ adRows = {}
    /\ bots = [b \in BOOLEAN \X BOOLEAN |-> 0]
    /\ marks = {}
    /\ buffer = NoBuffer
    /\ pending = NoPending
    /\ consumed = {}
    /\ work = [p \in Worker |-> CASE p \in Timer -> Idle
                               [] p \in occasion.comes -> Blank("arriving")
                               [] OTHER -> Blank("done")]
    /\ pauses = 0 /\ running = {}
    /\ selfPauses = 0 /\ failures = 0 /\ crashes = 0
    /\ replies = [m \in Mid |-> 0]
    /\ claims = [a \in Trigger |-> 0] /\ consults = [a \in Trigger |-> 0]
    /\ untold = {}

-----------------------------------------------------------------------------
(* Parts shared by several handlers.                                        *)

IsCustomer(p) == p \in Delivery /\ Carries[p] \in Mid
IsStaff(p) == p \in Delivery /\ Carries[p] \in Staff
ForTrigger(p) == work[p].trigger # NoTrigger

\* the worker returns: its finally clause releases the key
Over(p) == IF p \in Timer THEN Idle ELSE Blank("done")
Ends(p) ==
    /\ work' = [work EXCEPT ![p] = Over(p)]
    /\ marks' = marks \ {work[p].key}

\* mutation of Cancelled: task.cancel() is left out
NotCancelled(w, timers) == w

\* task.cancel() on the timers of popped or re-armed entries
Cancelled(w, timers) == [p \in Worker |-> IF p \in timers THEN Idle ELSE w[p]]

\* _process_pancake_sender_buffer_entry on a popped entry b and the ad a
Answering(b, a, key) ==
    [Blank("reload") EXCEPT !.mids = b.mids, !.ctx = b.ctx, !.copy = b.copy,
                            !.trigger = a, !.key = key]

\* _is_duplicate_pancake_auto_consult
TriggerSeen(a) == a \in consumed \cup adRows

\* _mark_pancake_auto_consult_trigger_consumed
Consume(a) == consumed' = consumed \cup ({a} \ {NoTrigger})

Step(p, pc) == work' = [work EXCEPT ![p].pc = pc]

-----------------------------------------------------------------------------
(* _process_normalized_message up to the processing mark, and               *)
(* _process_pancake_auto_consult_trigger up to its own.                     *)

\* A dangerous keyword, or the keywords cannot be loaded: nothing is stored,
\* and the waiting messages go, but not for a comment.
Block(d) ==
    /\ work[d].pc = "arriving"
    /\ \/ Carries[d] \in Dangerous /\ UNCHANGED failures
       \/ /\ Carries[d] \in Mid /\ failures < occasion.failures
          /\ failures' = failures + 1
    /\ IF Carries[d] \in Comment
       THEN work' = [work EXCEPT ![d] = Over(d)] /\ UNCHANGED buffer
       ELSE /\ work' = Cancelled([work EXCEPT ![d] = Over(d)], {buffer.timer})
            /\ buffer' = NoBuffer
    /\ UNCHANGED <<database, marks, pending, consumed, clock, occasion,
                   selfPauses, crashes, history>>

\* the answer of the awaited lookup is computed here and read later
LookUpDuplicate(d) ==
    /\ work[d].pc = "arriving" /\ Carries[d] \notin Dangerous
    /\ work' = [work EXCEPT ![d].pc = "looked",
                   ![d].hit = IF Carries[d] \in Trigger
                              THEN TriggerSeen(Carries[d])
                              ELSE rows[Carries[d]] > 0]
    /\ UNCHANGED <<database, marks, buffer, pending, consumed, clock, budget,
                   history>>

\* duplicate_auto_consult_pending; the rows are read after the memory of
\* consumed triggers, so a row stored meanwhile may be found
Ignore(d) ==
    /\ work[d].pc = "looked"
    /\ \/ work[d].hit
       \/ Carries[d] \in marks \cup adRows \cup ({pending.trigger} \cap AdCard)
    /\ work' = [work EXCEPT ![d] = Over(d)]
    /\ UNCHANGED <<database, marks, buffer, pending, consumed, clock, budget,
                   history>>

\* mutation of Claim: the message is not looked up among those in progress
ClaimUnmarked(d) ==
    /\ work[d].pc = "looked"
    /\ ~work[d].hit /\ Carries[d] # pending.trigger
    /\ marks' = marks \cup {Carries[d]}
    /\ work' = [work EXCEPT ![d] =
          [Blank(IF Carries[d] \in Trigger THEN "fetching" ELSE "load") EXCEPT
              !.key = Carries[d],
              !.trigger = IF Carries[d] \in Trigger THEN Carries[d] ELSE NoTrigger]]
    /\ claims' = [a \in Trigger |-> claims[a] + (IF a = Carries[d] THEN 1 ELSE 0)]
    /\ UNCHANGED <<database, buffer, pending, consumed, clock, budget, replies,
                   consults, untold>>

\* _try_mark_pancake_message_processing
Claim(d) ==
    /\ work[d].pc = "looked"
    /\ ~work[d].hit /\ Carries[d] \notin marks \cup {pending.trigger}
    /\ marks' = marks \cup {Carries[d]}
    /\ work' = [work EXCEPT ![d] =
          [Blank(IF Carries[d] \in Trigger THEN "fetching" ELSE "load") EXCEPT
              !.key = Carries[d],
              !.trigger = IF Carries[d] \in Trigger THEN Carries[d] ELSE NoTrigger]]
    /\ claims' = [a \in Trigger |-> claims[a] + (IF a = Carries[d] THEN 1 ELSE 0)]
    /\ UNCHANGED <<database, buffer, pending, consumed, clock, budget, replies,
                   consults, untold>>

-----------------------------------------------------------------------------
(* Triggers: _prepare_pancake_auto_consult has fetched the product codes.   *)

\* mutation of MergeIntoAd: the ad is answered without the messages popped
MergeAdAlone(d) ==
    /\ work[d].pc = "fetching" /\ Carries[d] \in AdCard
    /\ buffer.mids # {}
    /\ Consume(Carries[d])
    /\ work' = Cancelled([work EXCEPT ![d] = Answering(NoBuffer, Carries[d], work[d].key)],
                         {buffer.timer})
    /\ buffer' = NoBuffer
    /\ UNCHANGED <<database, marks, pending, clock, budget, history>>

\* messages are waiting: they and the ad are answered by this request
MergeIntoAd(d) ==
    /\ work[d].pc = "fetching" /\ Carries[d] \in AdCard
    /\ buffer.mids # {}
    /\ Consume(Carries[d])
    /\ work' = Cancelled([work EXCEPT ![d] = Answering(buffer, Carries[d], work[d].key)],
                         {buffer.timer})
    /\ buffer' = NoBuffer
    /\ UNCHANGED <<database, marks, pending, clock, budget, history>>

\* _enqueue_pending_pancake_ad_context; an ad already waiting is displaced
EnqueueAd(d) ==
    /\ work[d].pc = "fetching" /\ Carries[d] \in AdCard
    /\ occasion.buffered /\ buffer.mids = {}
    /\ \E t \in Timer :
          /\ work[t].pc = "idle"
          /\ pending' = [trigger |-> Carries[d], timer |-> t]
          /\ work' = Cancelled([work EXCEPT ![d] = Over(d), ![t] = Sleeping],
                               {pending.timer})
    /\ marks' = marks \ {work[d].key}
    /\ UNCHANGED <<database, buffer, consumed, clock, budget, history>>

\* a notice, or no buffer: _process_prepared_pancake_auto_consult_trigger
Prepare(d) ==
    /\ work[d].pc = "fetching"
    /\ Carries[d] \notin AdCard \/ (~occasion.buffered /\ buffer.mids = {})
    /\ Step(d, "load")
    /\ UNCHANGED <<database, marks, buffer, pending, consumed, clock, budget,
                   history>>

\* mutation of AdTimerFires: the entry is read but not popped
AdTimerKeepsEntry(t) ==
    /\ work[t].pc = "sleeping" /\ t = pending.timer
    /\ \/ /\ buffer.mids # {}
          /\ Consume(pending.trigger)
          /\ work' = Cancelled([work EXCEPT ![t] =
                         Answering(buffer, pending.trigger, NoKey)], {buffer.timer})
          /\ UNCHANGED marks
       \/ /\ buffer.mids = {} /\ pending.trigger \notin marks
          /\ marks' = marks \cup {pending.trigger}
          /\ work' = [work EXCEPT ![t] = [Blank("relook") EXCEPT
                         !.trigger = pending.trigger, !.key = pending.trigger]]
          /\ UNCHANGED consumed
    /\ buffer' = NoBuffer
    /\ UNCHANGED <<database, pending, clock, budget, history>>

\* _process_pending_pancake_ad_context_after_delay
AdTimerFires(t) ==
    /\ work[t].pc = "sleeping" /\ t = pending.timer
    /\ \/ /\ buffer.mids # {}
          /\ Consume(pending.trigger)
          /\ work' = Cancelled([work EXCEPT ![t] =
                         Answering(buffer, pending.trigger, NoKey)], {buffer.timer})
          /\ UNCHANGED marks
       \/ /\ buffer.mids = {} /\ pending.trigger \in marks
          /\ work' = [work EXCEPT ![t] = Idle]
          /\ UNCHANGED <<marks, consumed>>
       \/ /\ buffer.mids = {} /\ pending.trigger \notin marks
          /\ marks' = marks \cup {pending.trigger}
          /\ work' = [work EXCEPT ![t] = [Blank("relook") EXCEPT
                         !.trigger = pending.trigger, !.key = pending.trigger]]
          /\ UNCHANGED consumed
    /\ buffer' = NoBuffer
    /\ pending' = NoPending
    /\ UNCHANGED <<database, clock, budget, history>>

\* the ad waited in vain: its lookup is repeated
LookUpAgain(t) ==
    /\ work[t].pc = "relook"
    /\ IF TriggerSeen(work[t].trigger)
       THEN Ends(t)
       ELSE Step(t, "load") /\ UNCHANGED marks
    /\ UNCHANGED <<database, buffer, pending, consumed, clock, budget, history>>

-----------------------------------------------------------------------------
(* From the conversation to the stored row, for every kind of message.      *)

\* _get_or_create_pancake_conversation
Load(p) ==
    /\ work[p].pc = "load"
    /\ work' = [work EXCEPT ![p].pc = "loaded", ![p].copy = doc]
    /\ UNCHANGED <<database, marks, buffer, pending, consumed, clock, budget,
                   history>>

\* _resume_pancake_conversation_if_pause_expired_with_snapshot: only a
\* customer message before its AI call keeps the snapshot
Resume(p) ==
    /\ work[p].pc \in {"loaded", "ready", "final"} /\ ~IsStaff(p)
    /\ PauseExpired(work[p].copy)
    /\ doc' = [work[p].copy EXCEPT !.pause = 0]
    /\ work' = [work EXCEPT ![p].copy = doc',
          ![p].ctx = IF @ = 0 /\ (work[p].pc = "loaded" => IsCustomer(p))
                             /\ work[p].pc # "final"
                     THEN work[p].copy.pause ELSE @]
    /\ UNCHANGED <<tables, marks, buffer, pending, consumed, clock, budget,
                   history>>

\* _is_pancake_recent_user_duplicate: a young row of the inbox has the same
\* content (meta.source is PANCAKE_MESSAGE_USER_SOURCE; a comment's is not)
RecentTwin(m) ==
    /\ TextOf[m] # NoText
    /\ \E n \in Mid \ (aged \cup Comment) : rows[n] > 0 /\ TextOf[n] = TextOf[m]

\* _is_pancake_recent_bot_echo: any reply to the inbox may have the content
BotEcho(m) == TextOf[m] # NoText /\ \E ok \in BOOLEAN : bots[<<ok, TRUE>>] > 0

\* the second lookup, when the conversation is known
DropTwin(p) ==
    /\ work[p].pc = "loaded" /\ ~IsStaff(p)
    /\ ~PauseExpired(work[p].copy)
    /\ IF ForTrigger(p) THEN TriggerSeen(work[p].trigger)
                        ELSE RecentTwin(Carries[p]) \/ BotEcho(Carries[p])
    /\ Ends(p)
    /\ UNCHANGED <<database, buffer, pending, consumed, clock, budget, history>>

\* mutation of Check: the user row is inserted without the second lookup
CheckNothing(p) ==
    /\ work[p].pc = "loaded" /\ ~IsStaff(p)
    /\ ~PauseExpired(work[p].copy)
    /\ Step(p, "checked")
    /\ UNCHANGED <<database, marks, buffer, pending, consumed, clock, budget,
                   history>>

Check(p) ==
    /\ work[p].pc = "loaded" /\ ~IsStaff(p)
    /\ ~PauseExpired(work[p].copy)
    /\ IF ForTrigger(p) THEN ~TriggerSeen(work[p].trigger)
                        ELSE ~RecentTwin(Carries[p])
    /\ Step(p, "checked")
    /\ UNCHANGED <<database, marks, buffer, pending, consumed, clock, budget,
                   history>>

\* _save_pancake_user_message
StoreRow(p) ==
    /\ work[p].pc = "checked"
    /\ Step(p, "rowed")
    /\ IF ForTrigger(p)
       THEN /\ adRows' = adRows \cup {work[p].trigger}
            /\ UNCHANGED <<rows, aged>>
       ELSE /\ rows' = [rows EXCEPT ![Carries[p]] = @ + 1]
            /\ aged' = aged \ {Carries[p]}
            /\ UNCHANGED adRows
    /\ UNCHANGED <<doc, since, bots, marks, buffer, pending, consumed, clock,
                   budget, history>>

\* ten seconds after the row was stored it no longer counts as recent
RowAges(m) ==
    /\ rows[m] > 0 /\ m \notin aged
    /\ aged' = aged \cup {m}
    /\ UNCHANGED <<doc, rows, since, adRows, bots, memory, clock, budget,
                   history>>

\* PANCAKE_AD_CONTEXT_CONSUMED_TTL_SECONDS after the trigger was consumed
ConsumedExpires(a) ==
    /\ a \in consumed
    /\ consumed' = consumed \ {a}
    /\ UNCHANGED <<database, marks, buffer, pending, work, clock, budget, history>>

-----------------------------------------------------------------------------
(* A staff message.                                                         *)

\* _save_pancake_staff_message, then _cancel_pancake_sender_buffer
StoreStaffRow(d) ==
    /\ work[d].pc = "loaded" /\ IsStaff(d)
    /\ rows' = [rows EXCEPT ![Carries[d]] = @ + 1]
    /\ buffer' = NoBuffer
    /\ since' = [since EXCEPT ![Carries[d]] = pauses]
    /\ untold' = untold \cup {s \in {Carries[d]} : running # {}}
    /\ work' = Cancelled([work EXCEPT ![d].pc = "staffed"], {buffer.timer})
    /\ UNCHANGED <<doc, aged, adRows, bots, marks, pending, consumed, clock,
                   budget, replies, claims, consults>>

\* mutation of PauseForStaff: the number of the pause is not taken
PauseUnnumbered(d) ==
    /\ work[d].pc = "staffed"
    /\ running' = running \cup {pauses + 1}
    /\ doc' = [work[d].copy EXCEPT !.pause = pauses + 1]
    /\ Ends(d)
    /\ UNCHANGED <<tables, pauses, buffer, pending, consumed, budget, history>>

\* _pause_pancake_conversation_for_admin_takeover
PauseForStaff(d) ==
    /\ work[d].pc = "staffed"
    /\ pauses' = pauses + 1
    /\ running' = running \cup {pauses'}
    /\ doc' = [work[d].copy EXCEPT !.pause = pauses']
    /\ Ends(d)
    /\ UNCHANGED <<tables, buffer, pending, consumed, budget, history>>

PauseLapses(k) ==
    /\ k \in running
    /\ running' = running \ {k}
    /\ UNCHANGED <<database, memory, pauses, budget, history>>

-----------------------------------------------------------------------------
(* A stored customer message goes to the buffer, or is answered at once.    *)

\* unsupported_message_content_type, missing_public_image_url
RefuseContent(d) ==
    /\ work[d].pc = "rowed" /\ IsCustomer(d) /\ ~Paused(work[d].copy)
    /\ TextOf[Carries[d]] = NoText
    /\ Ends(d)
    /\ UNCHANGED <<database, buffer, pending, consumed, clock, budget, history>>

\* mutation of Appended: a new entry replaces the waiting one
Replaced(d) ==
    [mids |-> {Carries[d]}, ctx |-> work[d].ctx, copy |-> work[d].copy,
     timer |-> NoTimer]

\* the entry with this message appended
Appended(d) ==
    IF buffer.mids = {}
    THEN [mids |-> {Carries[d]}, ctx |-> work[d].ctx, copy |-> work[d].copy,
          timer |-> NoTimer]
    ELSE [buffer EXCEPT !.mids = @ \cup {Carries[d]}]

\* pancake_comment_auto_reply_disabled: a stored comment is left unanswered
IgnoreComment(d) ==
    /\ work[d].pc = "rowed" /\ IsCustomer(d) /\ ~Paused(work[d].copy)
    /\ TextOf[Carries[d]] # NoText
    /\ Carries[d] \in Comment /\ ~occasion.commentReply
    /\ Ends(d)
    /\ UNCHANGED <<database, buffer, pending, consumed, clock, budget, history>>

\* _should_buffer_pancake_sender_message: messages of the inbox only
Buffered(m) == occasion.buffered /\ m \notin Comment

Enqueuing(d) ==
    /\ work[d].pc = "rowed" /\ IsCustomer(d) /\ ~Paused(work[d].copy)
    /\ Buffered(Carries[d]) /\ TextOf[Carries[d]] # NoText

\* _enqueue_pancake_sender_message_for_ai re-arms the timer
Enqueue(d) ==
    /\ Enqueuing(d) /\ pending.trigger = NoTrigger
    /\ \E t \in Timer :
          /\ work[t].pc = "idle"
          /\ buffer' = [Appended(d) EXCEPT !.timer = t]
          /\ work' = Cancelled([work EXCEPT ![d] = Over(d), ![t] = Sleeping],
                               {buffer.timer})
    /\ marks' = marks \ {work[d].key}
    /\ UNCHANGED <<database, pending, consumed, clock, budget, history>>

\* _try_merge_pending_pancake_ad_context_for_sender: an ad is waiting, so
\* this request answers it and everything buffered
EnqueueAndMerge(d) ==
    /\ Enqueuing(d) /\ pending.trigger # NoTrigger
    /\ Consume(pending.trigger)
    /\ work' = Cancelled([work EXCEPT ![d] =
                   Answering(Appended(d), pending.trigger, work[d].key)],
                   {buffer.timer, pending.timer})
    /\ buffer' = NoBuffer
    /\ pending' = NoPending
    /\ UNCHANGED <<database, marks, clock, budget, history>>

\* _process_pancake_sender_buffer_after_delay
TimerFires(t) ==
    /\ work[t].pc = "sleeping" /\ t = buffer.timer
    /\ Consume(pending.trigger)
    /\ work' = Cancelled([work EXCEPT ![t] =
                   Answering(buffer, pending.trigger, NoKey)], {pending.timer})
    /\ buffer' = NoBuffer
    /\ pending' = NoPending
    /\ UNCHANGED <<database, marks, clock, budget, history>>

-----------------------------------------------------------------------------
(* _process_pancake_sender_buffer_entry, the prepared trigger and the       *)
(* unbuffered message call the AI; _complete_pancake_ai_reply answers.      *)

\* _reload_pancake_conversation_for_pause_check, before the AI and after it:
\* the old copy stays when the read fails
Reload(p) ==
    /\ work[p].pc \in {"reload", "answered"}
    /\ \/ /\ work' = [work EXCEPT ![p].copy = doc,
                ![p].pc = IF @ = "reload" THEN "ready" ELSE "final"]
          /\ UNCHANGED failures
       \/ /\ failures < occasion.failures
          /\ failures' = failures + 1
          /\ Step(p, IF work[p].pc = "reload" THEN "ready" ELSE "final")
    /\ UNCHANGED <<database, marks, buffer, pending, consumed, clock,
                   occasion, selfPauses, crashes, history>>

\* conversation_paused_by_admin saves the copy, and
\* conversation_paused_before_send does not
Suppress(p) ==
    /\ work[p].pc \in {"rowed", "ready", "final"} /\ Paused(work[p].copy)
    /\ IF work[p].pc = "final" THEN UNCHANGED doc ELSE doc' = work[p].copy
    /\ Ends(p)
    /\ UNCHANGED <<tables, buffer, pending, consumed, clock, budget, history>>

Asking(p) ==
    \/ work[p].pc = "ready" /\ Active(work[p].copy)
    \/ /\ work[p].pc = "rowed" /\ ~Paused(work[p].copy)
       /\ \/ ForTrigger(p)
          \/ /\ IsCustomer(p) /\ ~Buffered(Carries[p]) /\ TextOf[Carries[p]] # NoText
             /\ Carries[p] \in Comment => occasion.commentReply

\* _ensure_sender_initialized: the AI answers, then the copy is saved
InitialiseSession(p) ==
    /\ Asking(p) /\ ~work[p].copy.init
    /\ doc' = [work[p].copy EXCEPT !.init = TRUE]
    /\ work' = [work EXCEPT ![p].copy = doc']
    /\ UNCHANGED <<tables, marks, buffer, pending, consumed, clock, budget,
                   history>>

\* _get_pancake_handover_transcript_items: the staff rows since the pause
\* began (the window's other end, the customer's own row, is not modelled)
Transcript(k) == {s \in Staff : k # 0 /\ rows[s] > 0 /\ since[s] >= k}

\* the messages this answer is for
Asked(p) == IF work[p].pc = "rowed" /\ IsCustomer(p) THEN {Carries[p]}
                                                     ELSE work[p].mids

\* _generate_pancake_reply: the AI answered
Ask(p) ==
    /\ Asking(p) /\ work[p].copy.init
    /\ work' = [work EXCEPT ![p].pc = "answered", ![p].mids = Asked(p),
                            ![p].ctx = 0]
    /\ Consume(work[p].trigger)
    /\ consults' = [a \in Trigger |->
                       consults[a] + (IF a = work[p].trigger THEN 1 ELSE 0)]
    /\ untold' = untold \ Transcript(work[p].ctx)
    /\ UNCHANGED <<database, marks, buffer, pending, clock, budget, replies,
                   claims>>

Final(p) == work[p].pc = "final" /\ Active(work[p].copy)

\* A pause the bot takes itself.  A failed save is caught: the copy keeps
\* the pause, for a later save to store.
SelfPause(p) ==
    /\ selfPauses < occasion.selfPauses
    /\ selfPauses' = selfPauses + 1
    /\ pauses' = pauses + 1
    /\ running' = running \cup {pauses'}
    /\ \/ doc' = [work[p].copy EXCEPT !.pause = pauses'] /\ UNCHANGED failures
       \/ failures < occasion.failures /\ failures' = failures + 1 /\ UNCHANGED doc

\* _maybe_handover_pancake_repeated_bot_reply: the third equal reply
HandOverRepetition(p) ==
    /\ Final(p) /\ bots[<<TRUE, TRUE>>] + bots[<<TRUE, FALSE>>] >= 2
    /\ SelfPause(p)
    /\ Ends(p)
    /\ UNCHANGED <<tables, buffer, pending, consumed, occasion,
                   crashes, history>>

\* _update_pancake_handover_conversation_status: a handover phrase
HandOver(p) ==
    /\ Final(p)
    /\ SelfPause(p)
    /\ work' = [work EXCEPT ![p].pc = "send", ![p].copy.pause = pauses']
    /\ UNCHANGED <<tables, marks, buffer, pending, consumed, occasion,
                   crashes, history>>

\* mutation of Send: a send reported as failed is tried again
SendRetries(p) ==
    /\ work[p].pc = "send" \/ Final(p)
    /\ \E shown, ok \in BOOLEAN :
          /\ ok => shown
          /\ failures' = failures + (IF ok THEN 0 ELSE 1) /\ failures' <= occasion.failures
          /\ replies' = [m \in Mid |->
                replies[m] + (IF shown /\ m \in work[p].mids THEN 1 ELSE 0)]
          /\ work' = [work EXCEPT ![p].pc = IF ok THEN "sent" ELSE "send",
                                  ![p].ok = ok]
    /\ UNCHANGED <<database, marks, buffer, pending, consumed, clock,
                   occasion, selfPauses, crashes, claims, consults, untold>>

\* send_pancake_reply, or send_pancake_comment_reply: shown is what the
\* customer sees, ok what the webhook is told
Send(p) ==
    /\ work[p].pc = "send" \/ Final(p)
    /\ \E shown, ok \in BOOLEAN :
          /\ ok => shown
          /\ failures' = failures + (IF ok THEN 0 ELSE 1) /\ failures' <= occasion.failures
          /\ replies' = [m \in Mid |->
                replies[m] + (IF shown /\ m \in work[p].mids THEN 1 ELSE 0)]
          /\ work' = [work EXCEPT ![p].pc = "sent", ![p].ok = ok]
    /\ UNCHANGED <<database, marks, buffer, pending, consumed, clock,
                   occasion, selfPauses, crashes, claims, consults, untold>>

\* _pause_pancake_conversation_for_ai_quota_handover, when the reply was the
\* quota fallback
PauseForQuota(p) ==
    /\ work[p].pc = "sent" /\ Active(work[p].copy)
    /\ SelfPause(p)
    /\ work' = [work EXCEPT ![p].pc = "quota", ![p].copy.pause = pauses']
    /\ UNCHANGED <<tables, marks, buffer, pending, consumed, occasion,
                   crashes, history>>

\* _pancake_bot_meta_source: neither of a trigger nor of a comment
ForInbox(p) == ~ForTrigger(p) /\ work[p].mids \cap Comment = {}

\* _save_pancake_bot_message
StoreReply(p) ==
    /\ work[p].pc \in {"sent", "quota"}
    /\ bots' = [bots EXCEPT ![<<work[p].ok, ForInbox(p)>>] = @ + 1]
    /\ adRows' = adRows \cup ({work[p].trigger} \ {NoTrigger})
    /\ Step(p, "logged")
    /\ UNCHANGED <<doc, rows, since, aged, marks, buffer, pending, consumed,
                   clock, budget, history>>

\* mutation of SaveConversation: the finally clause forgets the mark
SaveKeepsMark(p) ==
    /\ work[p].pc = "logged"
    /\ doc' = work[p].copy
    /\ work' = [work EXCEPT ![p] = Over(p)]
    /\ UNCHANGED <<tables, marks, buffer, pending, consumed, clock, budget,
                   history>>

SaveConversation(p) ==
    /\ work[p].pc = "logged"
    /\ doc' = work[p].copy
    /\ Ends(p)
    /\ UNCHANGED <<tables, buffer, pending, consumed, clock, budget, history>>

\* A call failed or raised, or the answer had no text: the worker ends.
\* Nothing is retried.
Fail(p) ==
    /\ \/ work[p].pc \in {"fetching", "relook", "load", "loaded", "checked",
                          "staffed", "ready", "answered", "sent", "quota",
                          "logged"}
       \/ work[p].pc = "rowed" /\ (Paused(work[p].copy) \/ Asking(p))
       \/ work[p].pc = "final" /\ PauseExpired(work[p].copy)
    /\ failures < occasion.failures
    /\ failures' = failures + 1
    /\ Ends(p)
    /\ UNCHANGED <<database, buffer, pending, consumed, clock, occasion,
                   selfPauses, crashes, history>>

-----------------------------------------------------------------------------
(* The process dies: what is in memory is gone.                             *)

Crash ==
    /\ crashes < occasion.crashes
    /\ crashes' = crashes + 1
    /\ marks' = {}
    /\ buffer' = NoBuffer
    /\ pending' = NoPending
    /\ consumed' = {}
    /\ work' = [p \in Worker |->
                   IF work[p].pc = "arriving" THEN work[p] ELSE Over(p)]
    /\ UNCHANGED <<database, clock, occasion, selfPauses, failures, history>>

DeliveryStep(d) ==
    \/ Ignore(d) \/ Claim(d) \/ MergeIntoAd(d) \/ EnqueueAd(d) \/ Prepare(d)
    \/ StoreStaffRow(d) \/ PauseForStaff(d)
    \/ RefuseContent(d) \/ IgnoreComment(d) \/ Enqueue(d) \/ EnqueueAndMerge(d)

TimerStep(t) == TimerFires(t) \/ AdTimerFires(t) \/ LookUpAgain(t)

WorkStep(p) ==
    \/ Load(p) \/ Resume(p) \/ DropTwin(p) \/ Check(p) \/ StoreRow(p)
    \/ Reload(p) \/ Suppress(p) \/ InitialiseSession(p) \/ Ask(p)
    \/ HandOverRepetition(p) \/ HandOver(p) \/ Send(p) \/ PauseForQuota(p)
    \/ StoreReply(p) \/ SaveConversation(p) \/ Fail(p)

WorkerStep(p) ==
    \/ p \in Delivery /\ DeliveryStep(p)
    \/ p \in Timer /\ TimerStep(p)
    \/ WorkStep(p)

Next ==
    \/ \E d \in Delivery : Block(d) \/ LookUpDuplicate(d)
    \/ \E p \in Worker : WorkerStep(p)
    \/ \E m \in Mid : RowAges(m)
    \/ \E a \in Trigger : ConsumedExpires(a)
    \/ \E k \in running : PauseLapses(k)
    \/ Crash

Spec == Init /\ [][Next]_vars

\* The event loop is not idle while some coroutine can move; nothing makes a
\* message arrive, time pass or the process die.
FairSpec == Spec /\ WF_vars(\E p \in Worker : WorkerStep(p))

-----------------------------------------------------------------------------
(* Properties.                                                              *)

\* Who still owes m an answer: the buffer entry and the batches that have
\* not sent, and the deliveries that have stored its row.
WillSend == {"reload", "ready", "answered", "final", "send"}
Owes(p, m) ==
    \/ m \in work[p].mids /\ work[p].pc \in WillSend
    \/ work[p].pc = "rowed" /\ IsCustomer(p) /\ Carries[p] = m
Holders(m) ==
    {p \in Worker : Owes(p, m)} \cup {NoTimer : x \in {m} \cap buffer.mids}

\* However often a message is delivered, and however its batch is popped
\* (timer, an ad that arrives, an ad that waited), one stored user row leads
\* to at most one reply, and no two of buffer, requests and tasks can each
\* still send one.  Nothing in this file is retried.
AnsweredPerRow == \A m \in Mid : replies[m] + Cardinality(Holders(m)) <= rows[m]

\* A second user row of one message is stored only when the first is ten
\* seconds old or has no content: the mark of a mid and the recent-duplicate
\* lookup close the gap the first awaited lookup leaves.  For a comment they
\* do not: that lookup does not see a comment's row.
SecondRowIsLate ==
    [][\A m \in Mid : rows[m] > 0 /\ rows'[m] > rows[m]
          => m \in aged \cup Comment \/ TextOf[m] = NoText]_vars

\* The tasks asleep are those of the two entries, one each, and an entry
\* without a live timer does not exist: neither a re-armed or merged buffer
\* leaves a task behind that pops the next entry early, nor is an entry left
\* that nobody will pop.
TimersArmed ==
    /\ (buffer.mids = {}) <=> (buffer.timer = NoTimer)
    /\ (pending.trigger = NoTrigger) <=> (pending.timer = NoTimer)
    /\ buffer.timer = NoTimer \/ buffer.timer # pending.timer
    /\ \A t \in Timer : work[t].pc = "sleeping" <=> t \in {buffer.timer, pending.timer}

\* The processing set holds the keys of the workers that run and no other,
\* and no key has two workers: a mark is not released by somebody else's
\* finally clause, and none stays behind to refuse a message for ever.
MarksHeld ==
    /\ marks = {work[p].key : p \in Worker} \ {NoKey}
    /\ \A p, q \in Worker : work[p].key = work[q].key /\ p # q => work[p].key = NoKey

\* A reason to leave m unanswered: its content, a comment where comments are
\* not answered, a staff message, a pause the bot took itself, a failed call or
\* a restart, or, except for a comment, a dangerous message of the inbox.
Reason(m) ==
    \/ TextOf[m] = NoText
    \/ m \in Comment /\ ~occasion.commentReply
    \/ \E s \in Staff : rows[s] > 0
    \/ selfPauses > 0 \/ failures > 0 \/ crashes > 0
    \/ /\ m \notin Comment
       /\ \E d \in occasion.comes :
             work[d].pc = "done" /\ Carries[d] \in Dangerous \ Comment

Excused(m) == replies[m] > 0 \/ Reason(m)

\* A customer message whose row is stored and which nobody holds was
\* answered, or the bot had a reason.
NoSilentLoss ==
    \A m \in Mid : rows[m] > 0 /\ Holders(m) = {} => Excused(m)

\* What the customer is promised, see AnswersOwed: the answers owed for a
\* message are the holders it has.
UserRows == [m \in Mid |-> rows[m]]
Owed == [m \in Mid |-> Cardinality(Holders(m))]

Promise == INSTANCE AnswersOwed
             WITH rows <- UserRows, owed <- Owed, excused <- {m \in Mid : Reason(m)}

\* However messages, ads and staff interleave, the webhook gives answers only
\* where a stored row is owed one, settles what a reply answers in the step that
\* sends it, and lets a message go only for a reason.
KeepsPromise == Promise!Spec

\* Who may still ask the AI with the prompt of trigger a.
MayAsk(p, a) ==
    /\ work[p].trigger = a
    /\ work[p].pc \in {"fetching", "relook", "load", "loaded", "checked",
                      "rowed", "reload", "ready"}
Askers(a) ==
    {p \in Worker : MayAsk(p, a)} \cup {NoTimer : x \in {a} \cap {pending.trigger}}

\* A trigger that passed the duplicate checks once is answered at most once,
\* whoever ends up with it: its request, a customer's request, or either
\* timer.
ConsultedPerClaim ==
    \A a \in Trigger : consults[a] + Cardinality(Askers(a)) <= claims[a]

\* What is taken in hand is let go of: requests end, timers fire, batches
\* finish, and when the last delivery has come a moment follows at which no
\* message is held and none is marked as being processed.
Settled == (\A m \in Mid : Holders(m) = {}) /\ marks = {}
EveryMessageSettles == ~Settled ~> Settled

-----------------------------------------------------------------------------
(* A statement of the repository that this code does not keep.              *)

\* docs/pancake-handover-context-resume.md:9 and :603: the first customer
\* message after a pause reaches the AI with what staff wrote meanwhile.
AskedWithTranscript ==
    [][\A p \in Worker :
          (/\ work[p].ctx # 0 /\ running = {}
           /\ work[p].pc # "answered" /\ work'[p].pc = "answered")
             => untold' = {}]_vars

-----------------------------------------------------------------------------
(* The invariant behind the properties.                                     *)

\* What a worker has at hand where it is.
Shape(p) ==
    /\ work[p].pc \in {"arriving", "looked", "done", "idle", "sleeping"}
         => work[p].key = NoKey /\ work[p].trigger = NoTrigger
    /\ work[p].pc \notin WillSend \cup {"sent", "quota", "logged"} => work[p].mids = {}
    /\ work[p].pc = "fetching"
         => p \in Delivery /\ Carries[p] \in Trigger /\ work[p].trigger = Carries[p]
    /\ work[p].pc = "relook" => p \in Timer /\ ForTrigger(p)
    /\ work[p].pc \in {"load", "loaded", "checked", "rowed"} =>
         \/ ForTrigger(p) /\ (p \in Timer \/ Carries[p] \in Trigger)
         \/ ~ForTrigger(p) /\ p \in Delivery /\ work[p].key = Carries[p]
    /\ work[p].pc = "staffed" => Carries[p] \in Staff /\ rows[Carries[p]] > 0
    /\ p \in Delivery /\ work[p].pc # "done" => p \in occasion.comes

\* Between the second lookup and the insertion the first row of a message of
\* the inbox is not there, or is old.
LookedUp(p) ==
    work[p].pc = "checked" /\ IsCustomer(p) =>
        \/ rows[Carries[p]] = 0 \/ Carries[p] \in aged \cup Comment
        \/ TextOf[Carries[p]] = NoText

\* No comment waits in the buffer.
InboxBuffered == buffer.mids \cap Comment = {}

\* A pause was taken by the bot or for a staff message.
PauseExplained == pauses > 0 => selfPauses > 0 \/ \E s \in Staff : rows[s] > 0

IInv ==
    /\ TypeOK /\ TimersArmed /\ MarksHeld /\ PauseExplained /\ InboxBuffered
    /\ AnsweredPerRow /\ ConsultedPerClaim /\ NoSilentLoss
    /\ \A p \in Worker : Shape(p) /\ LookedUp(p)
    /\ \A m \in Mid : IsFiniteSet(Holders(m))
    /\ \A a \in Trigger : IsFiniteSet(Askers(a))
=============================================================================
