--------------------------- MODULE FacebookWebhook ---------------------------
(***************************************************************************)
(* src/app/api/v1/facebook_webhook.py for one Facebook customer (every     *)
(* buffer, timer and conversation lookup of the file is keyed by the       *)
(* sender, and a message id belongs to one sender).                        *)
(*                                                                         *)
(* The coroutines of one uvicorn worker interleave at their awaits:        *)
(*   - a Delivery is receive_webhook working on one customer message;      *)
(*   - a Takeover is receive_webhook working on one message a member of    *)
(*     staff typed in the page inbox (_handle_admin_message);              *)
(*   - a Task is one _process_sender_buffer_after_delay: a timer that      *)
(*     becomes the batch it pops.                                          *)
(* Each holds its own copy of the conversation document, and every         *)
(* conversation.save() writes the whole copy back.                         *)
(*                                                                         *)
(* The conversation exists and carries the system's AI version, so         *)
(* prepare_ai_version_for_customer_message returns at once (the upgrade    *)
(* is AiVersionUpgrade's subject).  Every message has a mid.               *)
(***************************************************************************)
EXTENDS Naturals, Sequences, FiniteSets, Functions

CONSTANTS
    Mid,              \* customer message ids
    Delivery,         \* webhook deliveries of customer messages
    MidOf,            \* the message a delivery carries
    Takeover,         \* webhook deliveries of staff messages
    Task,             \* asyncio tasks that may be alive at once
    NoTask,
    MaxEvents         \* bound on the webhooks that arrive, the failed calls (AI,
                      \* Facebook, database) and the restarts, taken together

ASSUME MidOfAssumption == MidOf \in [Delivery -> Mid]
ASSUME NoTaskAssumption == NoTask \notin Task

VARIABLES
    doc,              \* the stored Conversation document
    stored,           \* mids with a user row in the messages collection
    inflight,         \* _processing_message_mids
    buffer,           \* _sender_buffers[sender]["messages"], <<>> if no entry
    timer,            \* _sender_buffers[sender]["task"], NoTask if no entry
    delivery,         \* local state of each Delivery
    takeover,         \* local state of each Takeover
    task,             \* local state of each Task
    pauses,           \* takeover pauses written so far; the k-th is pause k
    lapsed,           \* pauses 1..lapsed have reached their bot_paused_until
    failures, crashes,
    replies,          \* replies Facebook has shown the customer, per message
    accepted,         \* history: times a message entered the buffer
    unacked,          \* history: shown replies whose send was seen to fail
    dropped           \* history: messages Facebook refused for good

memory == <<inflight, buffer, timer, delivery, takeover, task>>
clock == <<pauses, lapsed>>
budget == <<failures, crashes>>
history == <<replies, accepted, unacked, dropped>>
vars == <<doc, stored, memory, clock, budget, history>>

-----------------------------------------------------------------------------
(* The conversation document, as far as this file branches on it: the      *)
(* takeover pause it records (0: none) and fb_ai_initialized.               *)

Doc == [pause : Nat, init : BOOLEAN]
NoCopy == [pause |-> 0, init |-> FALSE]

\* _is_bot_paused
Paused(c) == c.pause > lapsed

\* the condition under which _resume_conversation_if_pause_expired writes
PauseExpired(c) == c.pause # 0 /\ ~Paused(c)

Resumed(c) == [c EXCEPT !.pause = 0]

\* a copy that passed both checks: nothing to resume and not paused
Active(c) == c.pause = 0

DeliveryPC == {"arriving", "looked", "claimed", "loaded", "profiled", "done"}
TakeoverPC == {"arriving", "loaded", "paused", "done"}
TaskPC == {"idle", "sleeping", "load", "loaded", "profiled", "reloaded",
           "handover", "send", "unacked", "sent", "stored"}

DeliveryState == [pc : DeliveryPC, dup : BOOLEAN, copy : Doc]
TakeoverState == [pc : TakeoverPC, copy : Doc]

\* queue: messages of the batch still to handle, the current one first;
\* done and failed: message_mids_to_finalize and requeue_messages;
\* copy: conversation; other: the copy update_conversation_crud_service reads
TaskState == [pc : TaskPC, queue : Seq(Mid), done : SUBSET Mid,
              failed : Seq(Mid), copy : Doc, other : Doc]

\* a task that holds no copy of the conversation
Bare(pc, queue, done, failed) ==
    [pc |-> pc, queue |-> queue, done |-> done, failed |-> failed,
     copy |-> NoCopy, other |-> NoCopy]

IdleTask == Bare("idle", <<>>, {}, <<>>)
SleepingTask == Bare("sleeping", <<>>, {}, <<>>)

TypeOK ==
    /\ doc \in Doc
    /\ stored \subseteq Mid
    /\ inflight \subseteq Mid
    /\ buffer \in Seq(Mid)
    /\ timer \in Task \cup {NoTask}
    /\ delivery \in [Delivery -> DeliveryState]
    /\ takeover \in [Takeover -> TakeoverState]
    /\ task \in [Task -> TaskState]
    /\ pauses \in Nat /\ lapsed \in Nat
    /\ failures \in Nat /\ crashes \in Nat
    /\ replies \in [Mid -> Nat]
    /\ accepted \in [Mid -> Nat]
    /\ unacked \in [Mid -> Nat]
    /\ dropped \subseteq Mid

Init ==
    /\ doc \in [pause : {0}, init : BOOLEAN]
    /\ stored = {}
    /\ inflight = {}
    /\ buffer = <<>>
    /\ timer = NoTask
    /\ delivery = [d \in Delivery |->
                      [pc |-> "arriving", dup |-> FALSE, copy |-> NoCopy]]
    /\ takeover = [a \in Takeover |-> [pc |-> "arriving", copy |-> NoCopy]]
    /\ task = [t \in Task |-> IdleTask]
    /\ pauses = 0 /\ lapsed = 0
    /\ failures = 0 /\ crashes = 0
    /\ replies = [m \in Mid |-> 0]
    /\ accepted = [m \in Mid |-> 0]
    /\ unacked = [m \in Mid |-> 0]
    /\ dropped = {}

\* one more event is within the bound
Room ==
    Cardinality({d \in Delivery : delivery[d].pc # "arriving"})
    + Cardinality({a \in Takeover : takeover[a].pc # "arriving"})
    + failures + crashes < MaxEvents

-----------------------------------------------------------------------------
(* receive_webhook on a customer message.                                   *)

\* Message.find_one on the mid: the answer is computed here and read later
LookUpDuplicate(d) ==
    /\ delivery[d].pc = "arriving" /\ Room
    /\ delivery' = [delivery EXCEPT ![d].pc = "looked",
                                    ![d].dup = MidOf[d] \in stored]
    /\ UNCHANGED <<doc, stored, inflight, buffer, timer, takeover, task,
                   clock, budget, history>>

IgnoreDuplicate(d) ==
    /\ delivery[d].pc = "looked"
    /\ delivery[d].dup \/ MidOf[d] \in inflight
    /\ delivery' = [delivery EXCEPT ![d].pc = "done"]
    /\ UNCHANGED <<doc, stored, inflight, buffer, timer, takeover, task,
                   clock, budget, history>>

\* mutation of Claim: only the database is asked
ClaimUnchecked(d) ==
    /\ delivery[d].pc = "looked"
    /\ ~delivery[d].dup
    /\ inflight' = inflight \cup {MidOf[d]}
    /\ delivery' = [delivery EXCEPT ![d].pc = "claimed"]
    /\ UNCHANGED <<doc, stored, buffer, timer, takeover, task,
                   clock, budget, history>>

Claim(d) ==
    /\ delivery[d].pc = "looked"
    /\ ~delivery[d].dup /\ MidOf[d] \notin inflight
    /\ inflight' = inflight \cup {MidOf[d]}
    /\ delivery' = [delivery EXCEPT ![d].pc = "claimed"]
    /\ UNCHANGED <<doc, stored, buffer, timer, takeover, task,
                   clock, budget, history>>

DeliveryLoads(d) ==
    /\ delivery[d].pc = "claimed"
    /\ delivery' = [delivery EXCEPT ![d].pc = "loaded", ![d].copy = doc]
    /\ UNCHANGED <<doc, stored, inflight, buffer, timer, takeover, task,
                   clock, budget, history>>

\* the channel or the customer's name differs from the stored one
DeliverySavesProfile(d) ==
    /\ delivery[d].pc = "loaded"
    /\ doc' = delivery[d].copy
    /\ delivery' = [delivery EXCEPT ![d].pc = "profiled"]
    /\ UNCHANGED <<stored, inflight, buffer, timer, takeover, task,
                   clock, budget, history>>

DeliveryResumes(d) ==
    /\ delivery[d].pc \in {"loaded", "profiled"}
    /\ PauseExpired(delivery[d].copy)
    /\ doc' = Resumed(delivery[d].copy)
    /\ delivery' = [delivery EXCEPT ![d].pc = "profiled", ![d].copy = doc']
    /\ UNCHANGED <<stored, inflight, buffer, timer, takeover, task,
                   clock, budget, history>>

\* mutation of Refuse: the mid is not released
RefuseKeepsMid(d) ==
    /\ delivery[d].pc \in {"loaded", "profiled"}
    /\ Paused(delivery[d].copy)
    /\ delivery' = [delivery EXCEPT ![d].pc = "done"]
    /\ UNCHANGED <<doc, stored, inflight, buffer, timer, takeover, task,
                   clock, budget, history>>

\* refused: the bot is paused, or a call of the state check failed
Refuse(d) ==
    /\ \/ /\ delivery[d].pc \in {"loaded", "profiled"}
          /\ Paused(delivery[d].copy)
          /\ UNCHANGED failures
       \/ /\ \/ delivery[d].pc \in {"claimed", "loaded"}
             \/ delivery[d].pc = "profiled" /\ PauseExpired(delivery[d].copy)
          /\ Room
          /\ failures' = failures + 1
    /\ inflight' = inflight \ {MidOf[d]}
    /\ delivery' = [delivery EXCEPT ![d].pc = "done"]
    /\ UNCHANGED <<doc, stored, buffer, timer, takeover, task,
                   clock, crashes, history>>

\* mutation of Restart: the old timer is left running
RestartWithoutCancel(tasks, cancelled, t) ==
    [s \in Task |-> IF s = t THEN SleepingTask ELSE tasks[s]]

\* task.cancel() ends a sleeping task; create_task starts a fresh timer
Restart(tasks, cancelled, t) ==
    [s \in Task |-> IF s = t THEN SleepingTask
                    ELSE IF s = cancelled THEN IdleTask ELSE tasks[s]]

\* _enqueue_sender_message
Enqueue(d) ==
    /\ delivery[d].pc \in {"loaded", "profiled"}
    /\ Active(delivery[d].copy)
    /\ \E t \in Task :
          /\ task[t].pc = "idle"      \* any idle one: tasks are alike
          /\ t = (CHOOSE u \in Task : task[u].pc = "idle")
          /\ timer' = t
          /\ task' = Restart(task, timer, t)
    /\ buffer' = Append(buffer, MidOf[d])
    /\ accepted' = [accepted EXCEPT ![MidOf[d]] = @ + 1]
    /\ delivery' = [delivery EXCEPT ![d].pc = "done"]
    /\ UNCHANGED <<doc, stored, inflight, takeover, clock, budget,
                   replies, unacked, dropped>>

DeliveryStep(d) ==
    \/ IgnoreDuplicate(d) \/ Claim(d) \/ DeliveryLoads(d)
    \/ DeliverySavesProfile(d) \/ DeliveryResumes(d) \/ Refuse(d) \/ Enqueue(d)

-----------------------------------------------------------------------------
(* _handle_admin_message.                                                   *)

TakeoverLoads(a) ==
    /\ takeover[a].pc = "arriving" /\ Room
    /\ takeover' = [takeover EXCEPT ![a].pc = "loaded", ![a].copy = doc]
    /\ UNCHANGED <<doc, stored, inflight, buffer, timer, delivery, task,
                   clock, budget, history>>

\* _pause_conversation_for_admin_takeover
TakeoverPauses(a) ==
    /\ takeover[a].pc = "loaded"
    /\ pauses' = pauses + 1
    /\ doc' = [takeover[a].copy EXCEPT !.pause = pauses']
    /\ takeover' = [takeover EXCEPT ![a].pc = "paused"]
    /\ UNCHANGED <<stored, inflight, buffer, timer, delivery, task, lapsed,
                   budget, history>>

\* mutations of TakeoverCancelsBuffer: the cancelled mids stay in flight; the
\* buffer entry is read but not popped
CancelKeepsMids(a) ==
    /\ takeover[a].pc = "paused"
    /\ buffer' = <<>>
    /\ timer' = NoTask
    /\ task' = [s \in Task |-> IF s = timer THEN IdleTask ELSE task[s]]
    /\ takeover' = [takeover EXCEPT ![a].pc = "done"]
    /\ UNCHANGED <<doc, stored, inflight, delivery, clock, budget, history>>

CancelKeepsBuffer(a) ==
    /\ takeover[a].pc = "paused"
    /\ inflight' = inflight \ Range(buffer)
    /\ takeover' = [takeover EXCEPT ![a].pc = "done"]
    /\ UNCHANGED <<doc, stored, buffer, timer, delivery, task, clock, budget,
                   history>>

\* _save_admin_message, then _cancel_sender_buffer
TakeoverCancelsBuffer(a) ==
    /\ takeover[a].pc = "paused"
    /\ inflight' = inflight \ Range(buffer)
    /\ buffer' = <<>>
    /\ timer' = NoTask
    /\ task' = [s \in Task |-> IF s = timer THEN IdleTask ELSE task[s]]
    /\ takeover' = [takeover EXCEPT ![a].pc = "done"]
    /\ UNCHANGED <<doc, stored, delivery, clock, budget, history>>

\* a call raised: receive_webhook logs it and the rest is skipped
TakeoverFails(a) ==
    /\ takeover[a].pc \in {"arriving", "loaded", "paused"}
    /\ Room
    /\ failures' = failures + 1
    /\ takeover' = [takeover EXCEPT ![a].pc = "done"]
    /\ UNCHANGED <<doc, stored, inflight, buffer, timer, delivery, task,
                   clock, crashes, history>>

TakeoverStep(a) == TakeoverPauses(a) \/ TakeoverCancelsBuffer(a)

\* bot_paused_until of the oldest pause that is still running passes
PauseLapses ==
    /\ lapsed < pauses
    /\ lapsed' = lapsed + 1
    /\ UNCHANGED <<doc, stored, memory, pauses, budget, history>>

-----------------------------------------------------------------------------
(* _process_sender_buffer_after_delay and, for the message at the head of   *)
(* its queue, _run_ai_forward_and_reply.                                    *)

Current(t) == Head(task[t].queue)

\* The message at the head is decided.  The next one starts, or the batch
\* ends: the decided mids leave the in-flight set, and the failed messages
\* go back to the front of the buffer under a new timer.
Settle(t, finished, failed) ==
    LET rest == Tail(task[t].queue)
        ended == [task EXCEPT ![t] = IdleTask]
    IN
    \/ /\ rest # <<>>
       /\ task' = [task EXCEPT ![t] = Bare("load", rest, finished, failed)]
       /\ UNCHANGED <<inflight, buffer, timer>>
    \/ /\ rest = <<>> /\ failed = <<>>
       /\ inflight' = inflight \ finished
       /\ task' = ended
       /\ UNCHANGED <<buffer, timer>>
    \/ /\ rest = <<>> /\ failed # <<>>
       /\ inflight' = inflight \ finished
       /\ buffer' = failed \o buffer
       /\ \E s \in Task :
             /\ ended[s].pc = "idle"
             /\ s = (CHOOSE u \in Task : ended[u].pc = "idle")
             /\ timer' = s
             /\ task' = Restart(ended, timer, s)

SettleDone(t) == Settle(t, task[t].done \cup {Current(t)}, task[t].failed)

\* mutation of SettleFailed: a failed message is finalized
SettleFailedFinally(t) ==
    Settle(t, task[t].done \cup {Current(t)}, task[t].failed)

SettleFailed(t) == Settle(t, task[t].done, Append(task[t].failed, Current(t)))

TimerFires(t) ==
    /\ task[t].pc = "sleeping"
    /\ task' = [task EXCEPT ![t] = IF buffer = <<>> THEN IdleTask
                                         ELSE Bare("load", buffer, {}, <<>>)]
    /\ buffer' = <<>>
    /\ timer' = NoTask
    /\ UNCHANGED <<doc, stored, inflight, delivery, takeover, clock, budget,
                   history>>

TaskLoads(t) ==
    /\ task[t].pc = "load"
    /\ task' = [task EXCEPT ![t].pc = "loaded", ![t].copy = doc]
    /\ UNCHANGED <<doc, stored, inflight, buffer, timer, delivery, takeover,
                   clock, budget, history>>

TaskSavesProfile(t) ==
    /\ task[t].pc = "loaded"
    /\ doc' = task[t].copy
    /\ task' = [task EXCEPT ![t].pc = "profiled"]
    /\ UNCHANGED <<stored, inflight, buffer, timer, delivery, takeover,
                   clock, budget, history>>

\* before the AI is called, and again after its answer
TaskResumes(t) ==
    /\ task[t].pc \in {"loaded", "profiled", "reloaded"}
    /\ PauseExpired(task[t].copy)
    /\ doc' = Resumed(task[t].copy)
    /\ task' = [task EXCEPT ![t].copy = doc',
                  ![t].pc = IF @ = "loaded" THEN "profiled" ELSE @]
    /\ UNCHANGED <<stored, inflight, buffer, timer, delivery, takeover,
                   clock, budget, history>>

\* conversation_paused_by_admin, conversation_paused_before_send
Suppress(t) ==
    /\ task[t].pc \in {"loaded", "profiled", "reloaded"}
    /\ Paused(task[t].copy)
    /\ SettleDone(t)
    /\ UNCHANGED <<doc, stored, delivery, takeover, clock, budget, history>>

Forwarding(t) ==
    /\ task[t].pc \in {"loaded", "profiled"}
    /\ Active(task[t].copy)

\* _ensure_sender_initialized: the AI answers, then the copy is saved
InitialiseSession(t) ==
    /\ Forwarding(t)
    /\ ~task[t].copy.init
    /\ doc' = [task[t].copy EXCEPT !.init = TRUE]
    /\ task' = [task EXCEPT ![t].copy = doc', ![t].pc = "profiled"]
    /\ UNCHANGED <<stored, inflight, buffer, timer, delivery, takeover,
                   clock, budget, history>>

\* the AI answered the message; _reload_conversation_for_pause_check keeps
\* the old copy when the read fails
AnswerAndReload(t) ==
    /\ Forwarding(t)
    /\ task[t].copy.init
    /\ \/ /\ task' = [task EXCEPT ![t].pc = "reloaded", ![t].copy = doc]
          /\ UNCHANGED failures
       \/ /\ Room
          /\ failures' = failures + 1
          /\ task' = [task EXCEPT ![t].pc = "reloaded"]
    /\ UNCHANGED <<doc, stored, inflight, buffer, timer, delivery, takeover,
                   clock, crashes, history>>

\* a handover phrase in the reply: update_conversation_crud_service reads
\* the document again ...
ReadForHandover(t) ==
    /\ task[t].pc = "reloaded"
    /\ Active(task[t].copy)
    /\ task' = [task EXCEPT ![t].pc = "handover", ![t].other = doc]
    /\ UNCHANGED <<doc, stored, inflight, buffer, timer, delivery, takeover,
                   clock, budget, history>>

\* ... and saves it with status handover
SaveHandover(t) ==
    /\ task[t].pc = "handover"
    /\ doc' = task[t].other
    /\ task' = [task EXCEPT ![t].pc = "send", ![t].other = NoCopy]
    /\ UNCHANGED <<stored, inflight, buffer, timer, delivery, takeover,
                   clock, budget, history>>

Sending(t) ==
    \/ task[t].pc = "send"
    \/ task[t].pc = "reloaded" /\ Active(task[t].copy)

\* _send_facebook_reply: Facebook shows the reply and says so
SendAcknowledged(t) ==
    /\ Sending(t)
    /\ replies' = [replies EXCEPT ![Current(t)] = @ + 1]
    /\ task' = [task EXCEPT ![t].pc = "sent"]
    /\ UNCHANGED <<doc, stored, inflight, buffer, timer, delivery, takeover,
                   clock, budget, accepted, unacked, dropped>>

\* Facebook shows the reply but the request times out
SendUnacknowledged(t) ==
    /\ Sending(t)
    /\ Room
    /\ failures' = failures + 1
    /\ replies' = [replies EXCEPT ![Current(t)] = @ + 1]
    /\ unacked' = [unacked EXCEPT ![Current(t)] = @ + 1]
    /\ task' = [task EXCEPT ![t].pc = "unacked"]
    /\ UNCHANGED <<doc, stored, inflight, buffer, timer, delivery, takeover,
                   clock, crashes, accepted, dropped>>

\* facebook_reply_failed after such a timeout: the message is retried
RetryUnacknowledged(t) ==
    /\ task[t].pc = "unacked"
    /\ SettleFailed(t)
    /\ UNCHANGED <<doc, stored, delivery, takeover, clock, budget, history>>

\* init_failed, ai_call_failed, ai_response_empty, facebook_reply_failed or
\* an exception before the reply is shown: the message is retried
Fail(t) ==
    /\ \/ task[t].pc \in {"load", "loaded", "send"}
       \/ task[t].pc \in {"profiled", "reloaded"} /\ ~Paused(task[t].copy)
    /\ Room
    /\ failures' = failures + 1
    /\ SettleFailed(t)
    /\ UNCHANGED <<doc, stored, delivery, takeover, clock, crashes, history>>

\* facebook_reply_non_retryable: the message is dropped, also when an earlier
\* call of the same send was shown but timed out (FacebookSend)
Drop(t) ==
    /\ Sending(t) \/ task[t].pc = "unacked"
    /\ Room
    /\ failures' = failures + 1
    /\ dropped' = dropped \cup {Current(t)}
    /\ SettleDone(t)
    /\ UNCHANGED <<doc, stored, delivery, takeover, clock, crashes,
                   replies, accepted, unacked>>

\* _save_forwarded_messages inserts the user row and the bot row ...
StoreMessages(t) ==
    /\ task[t].pc = "sent"
    /\ stored' = stored \cup {Current(t)}
    /\ task' = [task EXCEPT ![t].pc = "stored"]
    /\ UNCHANGED <<doc, inflight, buffer, timer, delivery, takeover,
                   clock, budget, history>>

\* ... and saves the copy of the conversation read before the reply
SaveConversation(t) ==
    /\ task[t].pc = "stored"
    /\ doc' = task[t].copy
    /\ SettleDone(t)
    /\ UNCHANGED <<stored, delivery, takeover, clock, budget, history>>

\* mutation of SaveFails: a message whose rows cannot be saved is retried
SaveFailureRetries(t) ==
    /\ task[t].pc \in {"sent", "stored"}
    /\ Room
    /\ failures' = failures + 1
    /\ SettleFailed(t)
    /\ UNCHANGED <<doc, stored, delivery, takeover, clock, crashes, history>>

\* FB_SAVE_FORWARDED_MESSAGES_FAILED is logged and the message still counts
\* as handled
SaveFails(t) ==
    /\ task[t].pc \in {"sent", "stored"}
    /\ Room
    /\ failures' = failures + 1
    /\ SettleDone(t)
    /\ UNCHANGED <<doc, stored, delivery, takeover, clock, crashes, history>>

TaskStep(t) ==
    \/ TimerFires(t) \/ TaskLoads(t) \/ TaskSavesProfile(t) \/ TaskResumes(t)
    \/ Suppress(t) \/ InitialiseSession(t) \/ AnswerAndReload(t)
    \/ ReadForHandover(t) \/ SaveHandover(t)
    \/ SendAcknowledged(t) \/ SendUnacknowledged(t) \/ RetryUnacknowledged(t)
    \/ Fail(t) \/ Drop(t)
    \/ StoreMessages(t) \/ SaveConversation(t) \/ SaveFails(t)

-----------------------------------------------------------------------------
(* The process dies: sets, buffers, timers and coroutines are gone; the     *)
(* database and what the customer saw remain.                               *)

Crash ==
    /\ Room
    /\ crashes' = crashes + 1
    /\ inflight' = {}
    /\ buffer' = <<>>
    /\ timer' = NoTask
    /\ delivery' = [d \in Delivery |-> IF delivery[d].pc = "arriving"
                       THEN delivery[d] ELSE [delivery[d] EXCEPT !.pc = "done"]]
    /\ takeover' = [a \in Takeover |-> IF takeover[a].pc = "arriving"
                       THEN takeover[a] ELSE [takeover[a] EXCEPT !.pc = "done"]]
    /\ task' = [t \in Task |-> IdleTask]
    /\ UNCHANGED <<doc, stored, clock, failures, history>>

Next ==
    \/ \E d \in Delivery : LookUpDuplicate(d) \/ DeliveryStep(d)
    \/ \E a \in Takeover : TakeoverLoads(a) \/ TakeoverFails(a) \/ TakeoverStep(a)
    \/ \E t \in Task : TaskStep(t)
    \/ PauseLapses
    \/ Crash

Spec == Init /\ [][Next]_vars

\* The event loop is not idle while some coroutine can move; nothing makes a
\* message arrive, a pause lapse or the process die.
CoroutineStep ==
    \/ \E d \in Delivery : DeliveryStep(d)
    \/ \E a \in Takeover : TakeoverStep(a)
    \/ \E t \in Task : TaskStep(t)

FairSpec == Spec /\ WF_vars(CoroutineStep)

-----------------------------------------------------------------------------
(* Who holds a message: a delivery between claim and enqueue, the buffer,   *)
(* or the task that popped it.                                              *)

DeliveryHolds(d) == delivery[d].pc \in {"claimed", "loaded", "profiled"}

TaskMids(t) == Range(task[t].queue) \cup task[t].done \cup Range(task[t].failed)

Held(m) ==
    \/ \E d \in Delivery : DeliveryHolds(d) /\ MidOf[d] = m
    \/ m \in Range(buffer)
    \/ \E t \in Task : m \in TaskMids(t)

Running(t) == task[t].pc \notin {"idle", "sleeping"}

\* The reply of the current acceptance is out of the task's hands.
Answered(t) == task[t].pc \in {"sent", "stored"}

Closed(m) ==
    \E t \in Task : \/ m \in task[t].done
                    \/ Answered(t) /\ m = Current(t)

\* Every message of _processing_message_mids is held by exactly one
\* delivery, buffer slot or batch, and these hold no other message: two
\* coroutines never work on one mid, and no mid is refused as "in flight"
\* forever because nobody will finalize it.  (receive_webhook,
\* _enqueue_sender_message, _process_sender_buffer_after_delay and
\* _cancel_sender_buffer each keep a part of this.)
OneHolder ==
    /\ \A m \in Mid : m \in inflight <=> Held(m)
    /\ \A d, e \in Delivery :
          DeliveryHolds(d) /\ DeliveryHolds(e) /\ d # e => MidOf[d] # MidOf[e]
    /\ \A d \in Delivery : DeliveryHolds(d) =>
          /\ MidOf[d] \notin Range(buffer)
          /\ \A t \in Task : MidOf[d] \notin TaskMids(t)
    /\ \A t \in Task : Range(buffer) \cap TaskMids(t) = {}
    /\ \A s, t \in Task : s # t => TaskMids(s) \cap TaskMids(t) = {}
    /\ IsInjective(buffer)

\* A message waiting in the buffer always has one live timer, which is the
\* only sleeping task: re-arming on every enqueue and requeue neither loses
\* the wake-up nor leaves a second task to pop the next buffer early.
OneTimer ==
    /\ (buffer = <<>>) <=> (timer = NoTask)
    /\ \A t \in Task : task[t].pc = "sleeping" <=> t = timer

\* The customer sees a second reply to a message only if the message was
\* accepted again or an acknowledgement was lost: requeueing failed
\* messages, suppressing and cancelling never repeat a reply.
RepliesAccounted == \A m \in Mid : replies[m] <= accepted[m] + unacked[m]

\* The customer saw a reply to m, or there is a reason why not: Facebook
\* refused it for good, a member of staff took over, the process died.
Excused(m) ==
    replies[m] > 0 \/ m \in dropped \/ pauses > 0 \/ crashes > 0

\* An accepted message that nobody holds any more was answered, refused by
\* Facebook for good, or lost to a staff takeover or a restart.
NoSilentLoss ==
    \A m \in Mid : accepted[m] > 0 /\ m \notin inflight => Excused(m)

\* Only a message in flight is answered: what a takeover cancelled or a
\* batch finalized stays silent.
ReplyOnlyInFlight ==
    [][\A m \in Mid : replies'[m] > replies[m] => m \in inflight]_vars

\* What is taken in flight is let go of: deliveries end, timers fire and
\* batches finish, failed messages being retried until they are decided, and
\* when webhooks stop arriving no mid is left in flight.
EveryMessageSettles == (inflight # {}) ~> (inflight = {})

-----------------------------------------------------------------------------
(* A statement of the repository that this code does not keep.              *)

\* README.md:192: the bot is paused for FB_ADMIN_TAKEOVER_PAUSE_MINUTES
\* after a staff message.
BotPausedAfterTakeover == pauses > lapsed => Paused(doc)

-----------------------------------------------------------------------------
(* The customer's view: an implementation of MessageLifecycle.              *)

Stage == [m \in Mid |-> IF m \notin inflight THEN "out"
                        ELSE IF Closed(m) THEN "closed" ELSE "open"]

Lifecycle == INSTANCE MessageLifecycle WITH phase <- Stage

\* Buffering, timers, retries, takeovers and restarts stay within the
\* lifecycle of a message: accepted, answered at most once per acceptance
\* (plus unacknowledged sends), released.
ImplementsLifecycle == Lifecycle!Spec

-----------------------------------------------------------------------------
(* The inductive invariant of FacebookWebhookProofs.                        *)

\* A task that runs a batch has a current message; one that does not holds
\* nothing.
TaskShape ==
    \A t \in Task :
        /\ task[t].pc = "idle" => task[t] = IdleTask
        /\ task[t].pc = "sleeping" => task[t] = SleepingTask
        /\ Running(t) => task[t].queue # <<>>

\* A batch holds each of its messages once.
BatchShape ==
    \A t \in Task :
        /\ IsInjective(task[t].queue)
        /\ IsInjective(task[t].failed)
        /\ Range(task[t].queue) \cap task[t].done = {}
        /\ Range(task[t].queue) \cap Range(task[t].failed) = {}
        /\ task[t].done \cap Range(task[t].failed) = {}

\* An acceptance of m that has not been answered is still in the account.
Owed(m) == replies[m] < accepted[m] + unacked[m]

\* What waits in the buffer, waits to be retried, or is still to be
\* answered by a batch is owed a reply.
OpenIsOwed ==
    /\ \A m \in Range(buffer) : Owed(m)
    /\ \A t \in Task :
          /\ \A m \in Range(task[t].failed) : Owed(m)
          /\ \A m \in Range(task[t].queue) :
                Owed(m) \/ (Answered(t) /\ m = Current(t))

\* Until a takeover has paused the bot, no copy of the conversation says it
\* is paused and no takeover is about to cancel the buffer.
PauseHasTakeover ==
    pauses = 0 =>
        /\ doc.pause = 0
        /\ \A d \in Delivery : delivery[d].copy.pause = 0
        /\ \A a \in Takeover :
              takeover[a].copy.pause = 0 /\ takeover[a].pc # "paused"
        /\ \A t \in Task : task[t].copy.pause = 0 /\ task[t].other.pause = 0

\* What a batch or a delivery may let go of without another reply is excused:
\* the messages a batch finished, and a message claimed a second time.
ReleaseIsExcused ==
    /\ \A d \in Delivery :
          DeliveryHolds(d) /\ accepted[MidOf[d]] > 0 => Excused(MidOf[d])
    /\ \A t \in Task :
          /\ \A m \in task[t].done : Excused(m)
          /\ Answered(t) => Excused(Current(t))

IInv ==
    /\ TypeOK /\ TaskShape /\ OneTimer
    /\ OneHolder /\ BatchShape
    /\ RepliesAccounted /\ OpenIsOwed
    /\ PauseHasTakeover /\ ReleaseIsExcused /\ NoSilentLoss
=============================================================================
