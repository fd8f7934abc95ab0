------------------------ MODULE FacebookWebhookProofs ------------------------
(***************************************************************************)
(* Proofs about FacebookWebhook for any number of messages, deliveries,    *)
(* takeovers, tasks, failures and restarts.                                *)
(*                                                                         *)
(* The inductive invariant IInv is proved in layers, each using ones below *)
(* it:                                                                     *)
(*   Local             TypeOK, TaskShape, OneTimer;                        *)
(*   Ownership         OneHolder, BatchShape;                              *)
(*   Account           RepliesAccounted, OpenIsOwed;                       *)
(*   PauseHasTakeover  over Local alone;                                   *)
(*   Settled           ReleaseIsExcused, NoSilentLoss.                     *)
(***************************************************************************)
EXTENDS FacebookWebhook, TLAPS

(***************************************************************************)
(* Facts about queues: which elements a sequence holds, and when it holds   *)
(* each of them once.                                                      *)
(***************************************************************************)

\* The empty queue holds nothing, once.
LEMMA EmptyQueue == Range(<<>>) = {} /\ IsInjective(<<>>)
  BY DEF Range, IsInjective

\* What a queue holds are elements of its set.
LEMMA QueueMembers ==
  ASSUME NEW S, NEW q \in Seq(S)
  PROVE  Range(q) \subseteq S
BY DEF Range

\* A non-empty queue is its head and its tail.
LEMMA QueueHeadTail ==
  ASSUME NEW S, NEW q \in Seq(S), q # <<>>
  PROVE  /\ Head(q) \in S
         /\ Tail(q) \in Seq(S)
         /\ Head(q) \in Range(q)
         /\ Range(q) = {Head(q)} \cup Range(Tail(q))
<1>1. /\ Head(q) \in S /\ Tail(q) \in Seq(S)
      /\ Head(q) = q[1] /\ Len(q) \in Nat /\ Len(q) # 0
      /\ Len(Tail(q)) = Len(q) - 1
      /\ \A i \in 1 .. Len(q) - 1 : Tail(q)[i] = q[i + 1]
      /\ DOMAIN Tail(q) = 1 .. Len(q) - 1
  OBVIOUS
<1>2. Range(q) = {q[i] : i \in 1 .. Len(q)}
  BY DEF Range
<1>3. Range(Tail(q)) = {Tail(q)[i] : i \in 1 .. Len(q) - 1}
  BY <1>1 DEF Range
<1>4. Head(q) \in Range(q)
  BY <1>1, <1>2
<1>5. Range(Tail(q)) \subseteq Range(q)
  BY <1>1, <1>2, <1>3
<1>6. ASSUME NEW x \in Range(q), x # Head(q)
      PROVE  x \in Range(Tail(q))
  <2>1. PICK i \in 1 .. Len(q) : x = q[i]
    BY <1>2
  <2>2. i # 1 /\ i - 1 \in 1 .. Len(q) - 1
    BY <2>1, <1>1, <1>6
  <2>3. Tail(q)[i - 1] = x
    BY <2>1, <2>2, <1>1
  <2>. QED
    BY <2>2, <2>3, <1>3
<1>. QED
  BY <1>1, <1>4, <1>5, <1>6

\* A queue that holds each element once holds its head nowhere else.
LEMMA InjectiveTail ==
  ASSUME NEW S, NEW q \in Seq(S), q # <<>>, IsInjective(q)
  PROVE  /\ Head(q) \notin Range(Tail(q))
         /\ IsInjective(Tail(q))
<1>1. /\ Head(q) = q[1] /\ Len(q) \in Nat /\ Len(q) # 0
      /\ Tail(q) \in Seq(S)
      /\ Len(Tail(q)) = Len(q) - 1
      /\ \A i \in 1 .. Len(q) - 1 : Tail(q)[i] = q[i + 1]
      /\ DOMAIN q = 1 .. Len(q)
      /\ DOMAIN Tail(q) = 1 .. Len(q) - 1
  OBVIOUS
<1>2. \A i, j \in 1 .. Len(q) : q[i] = q[j] => i = j
  BY <1>1 DEF IsInjective
<1>3. Head(q) \notin Range(Tail(q))
  <2>. SUFFICES ASSUME NEW i \in 1 .. Len(q) - 1, Head(q) = Tail(q)[i]
                PROVE  FALSE
    BY <1>1 DEF Range
  <2>. QED
    BY <1>1, <1>2
<1>4. IsInjective(Tail(q))
  BY <1>1, <1>2 DEF IsInjective
<1>. QED
  BY <1>3, <1>4

\* Appending adds the new element, once if it is not there yet.
LEMMA AppendToQueue ==
  ASSUME NEW S, NEW q \in Seq(S), NEW x \in S
  PROVE  /\ Append(q, x) \in Seq(S)
         /\ Append(q, x) # <<>>
         /\ Range(Append(q, x)) = Range(q) \cup {x}
         /\ IsInjective(q) /\ x \notin Range(q) => IsInjective(Append(q, x))
<1>1. /\ Append(q, x) \in Seq(S) /\ Len(q) \in Nat
      /\ Len(Append(q, x)) = Len(q) + 1
      /\ \A i \in 1 .. Len(q) : Append(q, x)[i] = q[i]
      /\ Append(q, x)[Len(q) + 1] = x
      /\ DOMAIN q = 1 .. Len(q)
      /\ DOMAIN Append(q, x) = 1 .. Len(q) + 1
  OBVIOUS
<1>2. Range(Append(q, x)) = Range(q) \cup {x}
  <2>1. ASSUME NEW y \in Range(Append(q, x))
        PROVE  y \in Range(q) \cup {x}
    BY <1>1 DEF Range
  <2>2. ASSUME NEW y \in Range(q)
        PROVE  y \in Range(Append(q, x))
    <3>1. PICK i \in 1 .. Len(q) : y = q[i]
      BY <1>1 DEF Range
    <3>. QED
      BY <3>1, <1>1 DEF Range
  <2>3. x \in Range(Append(q, x))
    BY <1>1 DEF Range
  <2>. QED
    BY <2>1, <2>2, <2>3
<1>3. ASSUME IsInjective(q), x \notin Range(q)
      PROVE  IsInjective(Append(q, x))
  BY <1>1, <1>3 DEF IsInjective, Range
<1>. QED
  BY <1>1, <1>2, <1>3

\* Putting one queue before another holds both, each element once if the
\* two are disjoint.
LEMMA ConcatQueues ==
  ASSUME NEW S, NEW p \in Seq(S), NEW q \in Seq(S)
  PROVE  /\ p \o q \in Seq(S)
         /\ p # <<>> => p \o q # <<>>
         /\ Range(p \o q) = Range(p) \cup Range(q)
         /\ IsInjective(p) /\ IsInjective(q) /\ Range(p) \cap Range(q) = {}
              => IsInjective(p \o q)
<1>1. /\ p \o q \in Seq(S) /\ Len(p) \in Nat /\ Len(q) \in Nat
      /\ Len(p \o q) = Len(p) + Len(q)
      /\ \A i \in 1 .. Len(p) : (p \o q)[i] = p[i]
      /\ \A i \in 1 .. Len(q) : (p \o q)[Len(p) + i] = q[i]
      /\ DOMAIN p = 1 .. Len(p) /\ DOMAIN q = 1 .. Len(q)
      /\ DOMAIN (p \o q) = 1 .. Len(p) + Len(q)
  OBVIOUS
<1>2. p # <<>> => p \o q # <<>>
  BY <1>1
<1>3. ASSUME NEW i \in 1 .. Len(p) + Len(q)
      PROVE  \/ i \in 1 .. Len(p) /\ (p \o q)[i] = p[i]
             \/ i - Len(p) \in 1 .. Len(q) /\ (p \o q)[i] = q[i - Len(p)]
  <2>1. CASE i <= Len(p)
    BY <2>1, <1>1
  <2>2. CASE i > Len(p)
    <3>1. i - Len(p) \in 1 .. Len(q) /\ Len(p) + (i - Len(p)) = i
      BY <2>2, <1>1
    <3>. QED
      BY <3>1, <1>1
  <2>. QED
    BY <2>1, <2>2, <1>1
<1>4. Range(p \o q) = Range(p) \cup Range(q)
  <2>1. Range(p \o q) \subseteq Range(p) \cup Range(q)
    BY <1>1, <1>3 DEF Range
  <2>2. Range(p) \subseteq Range(p \o q)
    <3>1. ASSUME NEW i \in 1 .. Len(p)
          PROVE  i \in 1 .. Len(p) + Len(q) /\ (p \o q)[i] = p[i]
      BY <1>1
    <3>. QED
      BY <3>1, <1>1 DEF Range
  <2>3. Range(q) \subseteq Range(p \o q)
    <3>1. ASSUME NEW i \in 1 .. Len(q)
          PROVE  Len(p) + i \in 1 .. Len(p) + Len(q) /\ (p \o q)[Len(p) + i] = q[i]
      BY <1>1
    <3>. QED
      BY <3>1, <1>1 DEF Range
  <2>. QED
    BY <2>1, <2>2, <2>3
<1>5. ASSUME IsInjective(p), IsInjective(q), Range(p) \cap Range(q) = {}
      PROVE  IsInjective(p \o q)
  <2>. SUFFICES ASSUME NEW i \in 1 .. Len(p) + Len(q),
                       NEW j \in 1 .. Len(p) + Len(q),
                       (p \o q)[i] = (p \o q)[j]
                PROVE  i = j
    BY <1>1 DEF IsInjective
  <2>1. \A k, l \in 1 .. Len(p) : p[k] = p[l] => k = l
    BY <1>1, <1>5 DEF IsInjective
  <2>2. \A k, l \in 1 .. Len(q) : q[k] = q[l] => k = l
    BY <1>1, <1>5 DEF IsInjective
  <2>3. \A k \in 1 .. Len(p), l \in 1 .. Len(q) : p[k] # q[l]
    BY <1>1, <1>5 DEF Range
  <2>4. CASE i \in 1 .. Len(p) /\ (p \o q)[i] = p[i]
    <3>1. j \in 1 .. Len(p) /\ (p \o q)[j] = p[j]
      BY <1>3, <2>3, <2>4
    <3>. QED
      BY <3>1, <2>4, <2>1
  <2>5. CASE i - Len(p) \in 1 .. Len(q) /\ (p \o q)[i] = q[i - Len(p)]
    <3>1. j - Len(p) \in 1 .. Len(q) /\ (p \o q)[j] = q[j - Len(p)]
      BY <1>3, <2>3, <2>5
    <3>2. i - Len(p) = j - Len(p)
      BY <3>1, <2>5, <2>2
    <3>. QED
      BY <3>2, <1>1
  <2>. QED
    BY <1>3, <2>4, <2>5
<1>. QED
  BY <1>1, <1>2, <1>4, <1>5

Local == TypeOK /\ TaskShape /\ OneTimer

-----------------------------------------------------------------------------
(* Layer 1: types, the shape of a task, and the timer.                      *)

\* The records a task is reset to are well typed.
LEMMA ResetTypes ==
  /\ NoCopy \in Doc
  /\ IdleTask \in TaskState
  /\ SleepingTask \in TaskState
  /\ IdleTask.pc = "idle" /\ SleepingTask.pc = "sleeping"
  /\ IdleTask.queue = <<>> /\ IdleTask.done = {} /\ IdleTask.failed = <<>>
  /\ SleepingTask.queue = <<>> /\ SleepingTask.done = {}
  /\ SleepingTask.failed = <<>>
BY DEF NoCopy, Doc, IdleTask, SleepingTask, Bare, TaskState, TaskPC

\* What Settle needs of the batch it ends or continues.
LEMMA SettleLocal ==
  ASSUME Local, NEW t \in Task, Running(t),
         NEW finished \in SUBSET Mid, NEW failed \in Seq(Mid),
         Settle(t, finished, failed)
  PROVE  /\ inflight' \in SUBSET Mid
         /\ buffer' \in Seq(Mid)
         /\ timer' \in Task \cup {NoTask}
         /\ task' \in [Task -> TaskState]
         /\ TaskShape'
         /\ OneTimer'
<1>. DEFINE rest == Tail(task[t].queue)
            ended == [task EXCEPT ![t] = IdleTask]
<1>1. /\ inflight \subseteq Mid /\ buffer \in Seq(Mid)
      /\ timer \in Task \cup {NoTask}
      /\ task \in [Task -> TaskState]
      /\ task[t].queue \in Seq(Mid) /\ task[t].queue # <<>>
  BY DEF Local, TypeOK, TaskShape, TaskState
<1>2. rest \in Seq(Mid)
  BY <1>1, QueueHeadTail
<1>3. t # timer /\ ended \in [Task -> TaskState]
  BY <1>1, ResetTypes DEF Local, OneTimer, Running
<1>4. CASE /\ rest # <<>>
           /\ task' = [task EXCEPT ![t] = Bare("load", rest, finished, failed)]
           /\ UNCHANGED <<inflight, buffer, timer>>
  <2>. DEFINE next == Bare("load", rest, finished, failed)
  <2>1. next \in TaskState /\ next.pc = "load" /\ next.queue = rest
    BY <1>2 DEF Bare, NoCopy, Doc, TaskState, TaskPC
  <2>1a. task' = [task EXCEPT ![t] = next]
    BY <1>4
  <2>. HIDE DEF next
  <2>2. task' \in [Task -> TaskState]
    BY <1>1, <2>1, <2>1a
  <2>3. TaskShape'
    BY <1>4, <1>1, <2>1, <2>1a DEF Local, TaskShape, Running
  <2>4. OneTimer'
    BY <1>4, <1>1, <1>3, <2>1, <2>1a DEF Local, OneTimer
  <2>. QED
    BY <1>1, <1>4, <2>2, <2>3, <2>4
<1>5. CASE /\ rest = <<>> /\ failed = <<>>
           /\ inflight' = inflight \ finished
           /\ task' = ended
           /\ UNCHANGED <<buffer, timer>>
  <2>1. TaskShape'
    BY <1>5, <1>1, ResetTypes DEF Local, TaskShape, Running
  <2>2. OneTimer'
    BY <1>5, <1>1, <1>3, ResetTypes DEF Local, OneTimer
  <2>. QED
    BY <1>1, <1>3, <1>5, <2>1, <2>2
<1>6. CASE /\ rest = <<>> /\ failed # <<>>
           /\ inflight' = inflight \ finished
           /\ buffer' = failed \o buffer
           /\ \E s \in Task : /\ ended[s].pc = "idle"
                              /\ timer' = s
                              /\ task' = Restart(ended, timer, s)
  <2>1. PICK s \in Task : /\ ended[s].pc = "idle"
                          /\ timer' = s
                          /\ task' = Restart(ended, timer, s)
    BY <1>6
  <2>2. \A u \in Task : ended[u].pc = "sleeping" <=> u = timer
    BY <1>1, <1>3, ResetTypes DEF Local, OneTimer
  <2>3. buffer' \in Seq(Mid) /\ buffer' # <<>>
    BY <1>1, <1>6, ConcatQueues
  <2>4. /\ task' \in [Task -> TaskState]
        /\ \A u \in Task : task'[u].pc = "sleeping" <=> u = s
    <3>. HIDE DEF ended
    <3>. QED
      BY <1>1, <1>3, <2>1, <2>2, ResetTypes DEF Restart
  <2>5. OneTimer'
    BY <2>1, <2>3, <2>4, NoTaskAssumption DEF OneTimer
  <2>6. TaskShape'
    BY <1>1, <2>1, ResetTypes DEF Local, TaskShape, Running, Restart
  <2>. QED
    BY <1>1, <1>6, <2>1, <2>3, <2>4, <2>5, <2>6
<1>. QED
  BY <1>4, <1>5, <1>6 DEF Settle

\* Steps that touch neither tasks nor buffer keep their shape.
LEMMA LocalFrame ==
  ASSUME Local, TypeOK', UNCHANGED <<buffer, timer, task>>
  PROVE  Local'
BY DEF Local, TaskShape, OneTimer, Running

\* Steps of a delivery before it enqueues.
LEMMA LocalDelivery ==
  ASSUME Local, NEW d \in Delivery,
         \/ LookUpDuplicate(d) \/ IgnoreDuplicate(d) \/ Claim(d)
         \/ DeliveryLoads(d) \/ DeliverySavesProfile(d)
         \/ DeliveryResumes(d) \/ Refuse(d)
  PROVE  Local'
<1>. USE DEF Local, TypeOK, TaskShape, OneTimer, Running, DeliveryState, Doc,
             DeliveryPC, memory, clock, budget, history, vars
<1>0. MidOf[d] \in Mid
  BY MidOfAssumption
<1>1. CASE LookUpDuplicate(d)
  <2>. DEFINE b == MidOf[d] \in stored
  <2>0. b \in BOOLEAN
    OBVIOUS
  <2>1. delivery' = [delivery EXCEPT ![d].pc = "looked", ![d].dup = b]
    BY <1>1, Zenon DEF LookUpDuplicate
  <2>. HIDE DEF b
  <2>2. delivery' \in [Delivery -> DeliveryState]
    BY ZenonT(40), <2>0, <2>1
  <2>. QED
    BY <1>1, <2>2 DEF LookUpDuplicate
<1>2. CASE IgnoreDuplicate(d)
  BY <1>2 DEF IgnoreDuplicate
<1>3. CASE Claim(d)
  BY <1>0, <1>3 DEF Claim
<1>4. CASE DeliveryLoads(d)
  BY ZenonT(40), <1>4 DEF DeliveryLoads
<1>5. CASE DeliverySavesProfile(d)
  BY <1>5 DEF DeliverySavesProfile
<1>6. CASE DeliveryResumes(d)
  BY ZenonT(40), <1>6 DEF DeliveryResumes, Resumed
<1>7. CASE Refuse(d)
  <2>1. /\ delivery' = [delivery EXCEPT ![d].pc = "done"]
        /\ inflight' \subseteq inflight
        /\ failures' \in Nat
        /\ UNCHANGED <<doc, stored, buffer, timer, takeover, task, pauses,
                      lapsed, crashes, replies, accepted, unacked, dropped>>
    BY <1>7 DEF Refuse
  <2>. QED
    BY <2>1
<1>. QED
  BY <1>1, <1>2, <1>3, <1>4, <1>5, <1>6, <1>7

\* Enqueueing arms a new timer and cancels the old one.
LEMMA LocalEnqueue ==
  ASSUME Local, NEW d \in Delivery, Enqueue(d)
  PROVE  Local'
<1>1. PICK t \in Task : /\ task[t].pc = "idle"
                        /\ timer' = t
                        /\ task' = Restart(task, timer, t)
  BY DEF Enqueue
<1>2. MidOf[d] \in Mid /\ buffer \in Seq(Mid)
  BY MidOfAssumption DEF Local, TypeOK
<1>3. buffer' \in Seq(Mid) /\ buffer' # <<>>
  BY <1>2, AppendToQueue DEF Enqueue
<1>4. /\ task' \in [Task -> TaskState]
      /\ \A s \in Task : task'[s].pc = "sleeping" <=> s = t
  BY <1>1, ResetTypes DEF Local, TypeOK, OneTimer, Restart
<1>5. OneTimer'
  BY <1>1, <1>3, <1>4, NoTaskAssumption DEF OneTimer
<1>6. TaskShape'
  BY <1>1, ResetTypes DEF Local, TypeOK, TaskShape, Running, Restart
<1>7. delivery' \in [Delivery -> DeliveryState]
  BY DEF Local, TypeOK, Enqueue, DeliveryState, DeliveryPC
<1>8. accepted' \in [Mid -> Nat]
  BY <1>2 DEF Local, TypeOK, Enqueue
<1>9. TypeOK'
  BY <1>1, <1>3, <1>4, <1>7, <1>8 DEF Local, TypeOK, Enqueue, clock, budget
<1>. QED
  BY <1>5, <1>6, <1>9 DEF Local

LEMMA LocalTakeover ==
  ASSUME Local, NEW a \in Takeover,
         \/ TakeoverLoads(a) \/ TakeoverPauses(a)
         \/ TakeoverCancelsBuffer(a) \/ TakeoverFails(a)
  PROVE  Local'
<1>. USE DEF TypeOK, TakeoverState, Doc, TakeoverPC, clock, budget, history
<1>0. TypeOK
  BY DEF Local
<1>1. CASE TakeoverLoads(a)
  <2>1. TypeOK'
    BY <1>0, <1>1 DEF TakeoverLoads
  <2>. QED
    BY <1>1, <2>1, LocalFrame DEF TakeoverLoads
<1>2. CASE TakeoverPauses(a)
  <2>0. takeover[a].copy \in Doc /\ pauses' \in Nat
    BY <1>0, <1>2 DEF TakeoverPauses
  <2>1. doc' \in Doc /\ pauses' \in Nat
    BY <1>2, <2>0 DEF TakeoverPauses
  <2>2. takeover' \in [Takeover -> TakeoverState]
    BY <1>0, <1>2 DEF TakeoverPauses
  <2>3. TypeOK'
    BY <1>0, <1>2, <2>1, <2>2 DEF TakeoverPauses
  <2>. QED
    BY <1>2, <2>3, LocalFrame DEF TakeoverPauses
<1>3. CASE TakeoverCancelsBuffer(a)
  <2>. USE DEF Local
  <2>1. task' \in [Task -> TaskState]
    BY <1>3, ResetTypes DEF TakeoverCancelsBuffer
  <2>2. TaskShape'
    BY <1>3, ResetTypes DEF TakeoverCancelsBuffer, TaskShape, Running
  <2>3. OneTimer'
    BY <1>3, ResetTypes, NoTaskAssumption
    DEF TakeoverCancelsBuffer, TaskShape, OneTimer
  <2>4. takeover' \in [Takeover -> TakeoverState]
    BY <1>3 DEF TakeoverCancelsBuffer
  <2>. QED
    BY <1>3, <2>1, <2>2, <2>3, <2>4 DEF TakeoverCancelsBuffer
<1>4. CASE TakeoverFails(a)
  <2>1. takeover' \in [Takeover -> TakeoverState]
    BY <1>0, <1>4 DEF TakeoverFails
  <2>2. TypeOK'
    BY <1>0, <1>4, <2>1 DEF TakeoverFails
  <2>. QED
    BY <1>4, <2>2, LocalFrame DEF TakeoverFails
<1>. QED
  BY <1>1, <1>2, <1>3, <1>4


\* A step in which a batch goes on with its current message.
GoesOn(t) ==
  /\ Running(t) /\ Running(t)'
  /\ task' \in [Task -> TaskState]
  /\ \A s \in Task \ {t} : task'[s] = task[s]
  /\ task'[t].queue = task[t].queue
  /\ task'[t].done = task[t].done
  /\ task'[t].failed = task[t].failed
  /\ UNCHANGED <<inflight, buffer, timer, delivery>>

LEMMA BatchGoesOn ==
  ASSUME TypeOK, NEW t \in Task,
         \/ TaskLoads(t) \/ TaskSavesProfile(t) \/ TaskResumes(t)
         \/ InitialiseSession(t) \/ AnswerAndReload(t)
         \/ ReadForHandover(t) \/ SaveHandover(t)
         \/ SendAcknowledged(t) \/ SendUnacknowledged(t) \/ StoreMessages(t)
  PROVE  GoesOn(t)
<1>. USE DEF GoesOn, Running, TaskState, TaskPC
<1>0. /\ task \in [Task -> TaskState]
      /\ task[t].copy \in Doc /\ task[t].other \in Doc /\ doc \in Doc
      /\ Resumed(task[t].copy) \in Doc /\ NoCopy \in Doc
  BY ResetTypes DEF TypeOK, Doc, Resumed
<1>1. CASE TaskLoads(t)
  BY <1>0, <1>1 DEF TaskLoads
<1>2. CASE TaskSavesProfile(t)
  BY <1>0, <1>2 DEF TaskSavesProfile
<1>3. CASE TaskResumes(t)
  BY ZenonT(40), <1>0, <1>3 DEF TaskResumes
<1>4. CASE InitialiseSession(t)
  <2>1. PICK c \in Doc : c = doc'
    BY <1>0, <1>4 DEF InitialiseSession, Doc
  <2>2. task' = [task EXCEPT ![t].copy = c, ![t].pc = "profiled"]
    BY <1>4, <2>1, Zenon DEF InitialiseSession
  <2>3. /\ task[t].pc = "loaded" \/ task[t].pc = "profiled"
        /\ UNCHANGED <<inflight, buffer, timer, delivery>>
    BY <1>4 DEF InitialiseSession, Forwarding
  <2>4. task' \in [Task -> TaskState]
    BY ZenonT(40), <1>0, <2>2
  <2>5. /\ \A s \in Task \ {t} : task'[s] = task[s]
        /\ task'[t].pc = "profiled"
        /\ task'[t].queue = task[t].queue
        /\ task'[t].done = task[t].done
        /\ task'[t].failed = task[t].failed
    BY <1>0, <2>2
  <2>. QED
    BY <2>3, <2>4, <2>5
<1>5. CASE AnswerAndReload(t)
  <2>1. /\ task[t].pc = "loaded" \/ task[t].pc = "profiled"
        /\ UNCHANGED <<inflight, buffer, timer, delivery>>
        /\ \/ task' = [task EXCEPT ![t].pc = "reloaded", ![t].copy = doc]
           \/ task' = [task EXCEPT ![t].pc = "reloaded"]
    BY <1>5 DEF AnswerAndReload, Forwarding
  <2>2. CASE task' = [task EXCEPT ![t].pc = "reloaded", ![t].copy = doc]
    BY ZenonT(40), <1>0, <2>1, <2>2
  <2>3. CASE task' = [task EXCEPT ![t].pc = "reloaded"]
    BY <1>0, <2>1, <2>3
  <2>. QED
    BY <2>1, <2>2, <2>3
<1>6. CASE ReadForHandover(t)
  BY <1>0, <1>6 DEF ReadForHandover
<1>7. CASE SaveHandover(t)
  BY <1>0, <1>7 DEF SaveHandover
<1>8. CASE SendAcknowledged(t)
  BY <1>0, <1>8 DEF SendAcknowledged, Sending
<1>9. CASE SendUnacknowledged(t)
  BY <1>0, <1>9 DEF SendUnacknowledged, Sending
<1>10. CASE StoreMessages(t)
  BY <1>0, <1>10 DEF StoreMessages
<1>. QED
  BY <1>1, <1>2, <1>3, <1>4, <1>5, <1>6, <1>7, <1>8, <1>9, <1>10

\* A step in which a task decides its current message.
BatchSettles(t) == Running(t) /\ (SettleDone(t) \/ SettleFailed(t))

LEMMA SettlingSteps ==
  ASSUME TypeOK, NEW t \in Task,
         \/ Suppress(t) \/ RetryUnacknowledged(t) \/ Fail(t) \/ Drop(t)
         \/ SaveConversation(t) \/ SaveFails(t)
  PROVE  BatchSettles(t)
BY DEF TypeOK, BatchSettles, Running, Suppress, RetryUnacknowledged, Fail,
   Drop, Sending, SaveConversation, SaveFails

\* The current message of a running task is one of its messages.
LEMMA CurrentInBatch ==
  ASSUME TypeOK, TaskShape, NEW t \in Task, Running(t)
  PROVE  /\ task[t].queue \in Seq(Mid) /\ task[t].queue # <<>>
         /\ task[t].done \in SUBSET Mid /\ task[t].failed \in Seq(Mid)
         /\ Current(t) \in Mid
         /\ Current(t) \in Range(task[t].queue)
BY QueueHeadTail DEF TypeOK, TaskShape, TaskState, Current

LEMMA BatchSettlesLocal ==
  ASSUME Local, NEW t \in Task, BatchSettles(t)
  PROVE  /\ inflight' \in SUBSET Mid
         /\ buffer' \in Seq(Mid)
         /\ timer' \in Task \cup {NoTask}
         /\ task' \in [Task -> TaskState]
         /\ TaskShape'
         /\ OneTimer'
<1>1. /\ task[t].done \in SUBSET Mid /\ task[t].failed \in Seq(Mid)
      /\ Current(t) \in Mid /\ Running(t)
  BY CurrentInBatch DEF Local, BatchSettles
<1>2. /\ task[t].done \cup {Current(t)} \in SUBSET Mid
      /\ Append(task[t].failed, Current(t)) \in Seq(Mid)
  BY <1>1, AppendToQueue
<1>3. CASE SettleDone(t)
  BY <1>1, <1>2, <1>3, SettleLocal DEF SettleDone
<1>4. CASE SettleFailed(t)
  BY <1>1, <1>2, <1>4, SettleLocal DEF SettleFailed
<1>. QED
  BY <1>3, <1>4 DEF BatchSettles

LEMMA LocalGoesOn ==
  ASSUME Local, NEW t \in Task, GoesOn(t)
  PROVE  TaskShape' /\ OneTimer'
<1>. USE DEF Local, TypeOK, GoesOn
<1>1. TaskShape'
  BY DEF TaskShape, Running
<1>2. OneTimer'
  BY DEF OneTimer, Running
<1>. QED
  BY <1>1, <1>2

LEMMA LocalTask ==
  ASSUME Local, NEW t \in Task, TaskStep(t)
  PROVE  Local'
<1>. USE DEF clock, budget, history
<1>0. TypeOK /\ NoCopy \in Doc
  BY ResetTypes DEF Local
<1>1. CASE \/ TaskLoads(t) \/ TaskSavesProfile(t) \/ TaskResumes(t)
           \/ InitialiseSession(t) \/ AnswerAndReload(t)
           \/ ReadForHandover(t) \/ SaveHandover(t)
           \/ SendAcknowledged(t) \/ SendUnacknowledged(t)
           \/ StoreMessages(t)
  <2>1. GoesOn(t)
    BY <1>0, <1>1, BatchGoesOn
  <2>2. TaskShape' /\ OneTimer'
    BY <2>1, LocalGoesOn
  <2>3. /\ task[t].copy \in Doc /\ task[t].other \in Doc
        /\ Resumed(task[t].copy) \in Doc
        /\ Current(t) \in Mid
    BY <1>0, <2>1, QueueHeadTail
    DEF TypeOK, TaskState, Doc, Resumed, Local, TaskShape, GoesOn, Current
  <2>4. doc' \in Doc
    BY <1>0, <1>1, <2>3 DEF TypeOK, Doc, TaskLoads, TaskSavesProfile,
       TaskResumes, InitialiseSession, AnswerAndReload, ReadForHandover,
       SaveHandover, SendAcknowledged, SendUnacknowledged, StoreMessages
  <2>5. stored' \subseteq Mid
    BY <1>0, <1>1, <2>3 DEF TypeOK, TaskLoads, TaskSavesProfile,
       TaskResumes, InitialiseSession, AnswerAndReload, ReadForHandover,
       SaveHandover, SendAcknowledged, SendUnacknowledged, StoreMessages
  <2>6. replies' \in [Mid -> Nat] /\ unacked' \in [Mid -> Nat]
    <3>1. /\ \/ UNCHANGED replies
             \/ replies' = [replies EXCEPT ![Current(t)] = @ + 1]
          /\ \/ UNCHANGED unacked
             \/ unacked' = [unacked EXCEPT ![Current(t)] = @ + 1]
      BY <1>1 DEF TaskLoads, TaskSavesProfile,
         TaskResumes, InitialiseSession, AnswerAndReload, ReadForHandover,
         SaveHandover, SendAcknowledged, SendUnacknowledged, StoreMessages
    <3>2. replies \in [Mid -> Nat] /\ unacked \in [Mid -> Nat]
      BY <1>0 DEF TypeOK
    <3>3. replies' \in [Mid -> Nat]
      BY <2>3, <3>1, <3>2
    <3>4. unacked' \in [Mid -> Nat]
      BY <2>3, <3>1, <3>2
    <3>. QED
      BY <3>3, <3>4
  <2>7. failures' \in Nat
    BY <1>0, <1>1, <2>3 DEF TypeOK, TaskLoads, TaskSavesProfile,
       TaskResumes, InitialiseSession, AnswerAndReload, ReadForHandover,
       SaveHandover, SendAcknowledged, SendUnacknowledged, StoreMessages
  <2>8. UNCHANGED <<takeover, pauses, lapsed, crashes, accepted, dropped>>
    BY <1>0, <1>1, <2>3 DEF TypeOK, TaskLoads, TaskSavesProfile,
       TaskResumes, InitialiseSession, AnswerAndReload, ReadForHandover,
       SaveHandover, SendAcknowledged, SendUnacknowledged, StoreMessages
  <2>. QED
    BY <1>0, <2>1, <2>2, <2>4, <2>5, <2>6, <2>7, <2>8 DEF Local, TypeOK, GoesOn
<1>2. CASE TimerFires(t)
  <2>1. /\ task \in [Task -> TaskState] /\ t = timer /\ buffer \in Seq(Mid)
        /\ buffer # <<>>
    BY <1>2, NoTaskAssumption DEF Local, TypeOK, OneTimer, TimerFires
  <2>. DEFINE next == Bare("load", buffer, {}, <<>>)
  <2>2. next \in TaskState /\ next.pc = "load" /\ next.queue = buffer
    BY <2>1 DEF Bare, NoCopy, Doc, TaskState, TaskPC
  <2>3. task' = [task EXCEPT ![t] = next] /\ buffer' = <<>> /\ timer' = NoTask
    BY <1>2, <2>1 DEF TimerFires
  <2>. HIDE DEF next
  <2>4. task' \in [Task -> TaskState]
    BY <2>1, <2>2, <2>3
  <2>5. TaskShape'
    BY <2>1, <2>2, <2>3 DEF Local, TaskShape, Running
  <2>6. OneTimer'
    BY <2>1, <2>2, <2>3, NoTaskAssumption DEF Local, OneTimer
  <2>. QED
    BY <1>0, <1>2, <2>3, <2>4, <2>5, <2>6 DEF Local, TypeOK, TimerFires
<1>3. CASE \/ Suppress(t) \/ RetryUnacknowledged(t) \/ Fail(t) \/ Drop(t)
           \/ SaveConversation(t) \/ SaveFails(t)
  <2>1. BatchSettles(t)
    BY <1>3, <1>0, SettlingSteps
  <2>2. /\ inflight' \in SUBSET Mid /\ buffer' \in Seq(Mid)
        /\ timer' \in Task \cup {NoTask} /\ task' \in [Task -> TaskState]
        /\ TaskShape' /\ OneTimer'
    BY <2>1, BatchSettlesLocal
  <2>3. /\ doc' \in Doc /\ failures' \in Nat /\ dropped' \subseteq Mid
        /\ UNCHANGED <<stored, delivery, takeover, pauses, lapsed, crashes,
                      replies, accepted, unacked>>
    <3>. USE DEF Suppress, RetryUnacknowledged, Fail, Drop, SaveConversation,
                 SaveFails
    <3>0. Current(t) \in Mid /\ task[t].copy \in Doc
      BY <1>0, <2>1, CurrentInBatch
      DEF Local, TypeOK, TaskState, BatchSettles
    <3>1. doc' \in Doc
      BY <1>3, <1>0, <3>0 DEF TypeOK
    <3>2. failures' \in Nat
      BY <1>3, <1>0 DEF TypeOK
    <3>3. dropped' \subseteq Mid
      BY <1>3, <1>0, <3>0 DEF TypeOK
    <3>4. UNCHANGED <<stored, delivery, takeover, pauses, lapsed, crashes,
                      replies, accepted, unacked>>
      BY <1>3
    <3>. QED
      BY <3>1, <3>2, <3>3, <3>4
  <2>. QED
    BY <1>0, <2>2, <2>3 DEF Local, TypeOK
<1>. QED
  BY <1>1, <1>2, <1>3 DEF TaskStep

LEMMA LocalCrash ==
  ASSUME Local, Crash
  PROVE  Local'
<1>. USE DEF clock, history
<1>1. delivery' \in [Delivery -> DeliveryState]
  BY DEF Local, TypeOK, Crash, DeliveryState, DeliveryPC
<1>2. takeover' \in [Takeover -> TakeoverState]
  BY DEF Local, TypeOK, Crash, TakeoverState, TakeoverPC
<1>3. task' \in [Task -> TaskState] /\ TaskShape' /\ OneTimer'
  BY ResetTypes, NoTaskAssumption DEF Crash, TaskShape, OneTimer, Running
<1>. QED
  BY <1>1, <1>2, <1>3 DEF Local, TypeOK, Crash

LEMMA LocalInit == Init => Local
<1>. SUFFICES ASSUME Init PROVE Local
  OBVIOUS
<1>1. NoCopy \in Doc
  BY ResetTypes
<1>2. /\ delivery \in [Delivery -> DeliveryState]
      /\ takeover \in [Takeover -> TakeoverState]
  BY <1>1 DEF Init, DeliveryState, TakeoverState, DeliveryPC, TakeoverPC
<1>3. task \in [Task -> TaskState] /\ TaskShape /\ OneTimer
  BY ResetTypes, NoTaskAssumption DEF Init, TaskShape, OneTimer, Running
<1>4. doc \in Doc
  BY DEF Init, Doc
<1>5. /\ replies \in [Mid -> Nat] /\ accepted \in [Mid -> Nat]
      /\ unacked \in [Mid -> Nat]
  BY DEF Init
<1>6. buffer \in Seq(Mid) /\ timer \in Task \cup {NoTask}
  BY DEF Init
<1>7. /\ stored \subseteq Mid /\ inflight \subseteq Mid /\ dropped \subseteq Mid
      /\ pauses \in Nat /\ lapsed \in Nat
      /\ failures \in Nat /\ crashes \in Nat
  BY DEF Init
<1>. QED
  BY <1>2, <1>3, <1>4, <1>5, <1>6, <1>7 DEF Local, TypeOK

LEMMA LocalNext == Local /\ [Next]_vars => Local'
<1>. SUFFICES ASSUME Local, [Next]_vars PROVE Local'
  OBVIOUS
<1>1. CASE UNCHANGED vars
  <2>1. TypeOK'
    BY <1>1 DEF Local, TypeOK, vars, memory, clock, budget, history
  <2>. QED
    BY <1>1, <2>1, LocalFrame DEF vars, memory
<1>2. ASSUME NEW d \in Delivery, LookUpDuplicate(d) \/ DeliveryStep(d)
      PROVE  Local'
  BY <1>2, LocalDelivery, LocalEnqueue DEF DeliveryStep
<1>3. ASSUME NEW a \in Takeover,
             TakeoverLoads(a) \/ TakeoverFails(a) \/ TakeoverStep(a)
      PROVE  Local'
  BY <1>3, LocalTakeover DEF TakeoverStep
<1>4. ASSUME NEW t \in Task, TaskStep(t)
      PROVE  Local'
  BY <1>4, LocalTask
<1>5. CASE PauseLapses
  <2>1. TypeOK'
    BY <1>5 DEF Local, TypeOK, PauseLapses, memory, budget, history
  <2>. QED
    BY <1>5, <2>1, LocalFrame DEF PauseLapses, memory
<1>6. CASE Crash
  BY <1>6, LocalCrash
<1>. QED
  BY <1>1, <1>2, <1>3, <1>4, <1>5, <1>6 DEF Next

\* Every reachable state is well typed: a running task always has a current
\* message, the timer is a task or NoTask, and no copy of the conversation
\* leaves its type.
THEOREM TypeCorrect == Spec => []TypeOK
<1>. SUFFICES Spec => []Local
  BY PTL DEF Local
<1>. QED
  BY LocalInit, LocalNext, PTL DEF Spec

\* A message waiting in the buffer always has exactly one live timer, and no
\* other task sleeps: Append/cancel/create in _enqueue_sender_message and in
\* the requeue of _process_sender_buffer_after_delay keep them together.
THEOREM TimerCorrect == Spec => []OneTimer
<1>. SUFFICES Spec => []Local
  BY PTL DEF Local
<1>. QED
  BY LocalInit, LocalNext, PTL DEF Spec

-----------------------------------------------------------------------------
(* Layer 2: every message in flight has one holder.                         *)

Ownership == OneHolder /\ BatchShape

\* A task that runs no batch holds nothing.
LEMMA NoBatch ==
  ASSUME TaskShape, NEW t \in Task, ~Running(t)
  PROVE  TaskMids(t) = {}
BY ResetTypes, EmptyQueue DEF TaskShape, Running, TaskMids

\* Steps that move no message between holders.
LEMMA OwnershipFrame ==
  ASSUME Ownership,
         UNCHANGED <<inflight, buffer>>,
         \A d \in Delivery : DeliveryHolds(d)' <=> DeliveryHolds(d),
         \A t \in Task : /\ task'[t].queue = task[t].queue
                         /\ task'[t].done = task[t].done
                         /\ task'[t].failed = task[t].failed
  PROVE  Ownership'
<1>1. \A t \in Task : TaskMids(t)' = TaskMids(t)
  BY DEF TaskMids
<1>2. \A m \in Mid : Held(m)' <=> Held(m)
  BY <1>1 DEF Held
<1>3. OneHolder'
  BY <1>1, <1>2 DEF Ownership, OneHolder
<1>4. BatchShape'
  BY DEF Ownership, BatchShape
<1>. QED
  BY <1>3, <1>4 DEF Ownership

\* A delivery takes a mid that is not in flight.
LEMMA OwnershipClaim ==
  ASSUME Local, Ownership, NEW d \in Delivery, Claim(d)
  PROVE  Ownership'
<1>1. /\ MidOf \in [Delivery -> Mid]
      /\ MidOf[d] \notin inflight /\ inflight' = inflight \cup {MidOf[d]}
      /\ UNCHANGED <<buffer, task>>
      /\ ~DeliveryHolds(d) /\ DeliveryHolds(d)'
      /\ \A e \in Delivery \ {d} : DeliveryHolds(e)' <=> DeliveryHolds(e)
  BY MidOfAssumption
  DEF Claim, Local, TypeOK, DeliveryState, DeliveryHolds
<1>2. ~Held(MidOf[d])
  BY <1>1 DEF Ownership, OneHolder
<1>3. \A t \in Task : TaskMids(t)' = TaskMids(t)
  BY <1>1 DEF TaskMids
<1>4. \A m \in Mid : Held(m)' <=> Held(m) \/ m = MidOf[d]
  BY <1>1, <1>3 DEF Held
<1>5. OneHolder'
  BY <1>1, <1>2, <1>3, <1>4 DEF Ownership, OneHolder, Held
<1>6. BatchShape'
  BY <1>1 DEF Ownership, BatchShape
<1>. QED
  BY <1>5, <1>6 DEF Ownership

\* A refused delivery lets go of its mid, which nobody else holds.
LEMMA OwnershipRefuse ==
  ASSUME Local, Ownership, NEW d \in Delivery, Refuse(d)
  PROVE  Ownership'
<1>1. /\ MidOf \in [Delivery -> Mid]
      /\ inflight' = inflight \ {MidOf[d]}
      /\ UNCHANGED <<buffer, task>>
      /\ DeliveryHolds(d) /\ ~DeliveryHolds(d)'
      /\ \A e \in Delivery \ {d} : DeliveryHolds(e)' <=> DeliveryHolds(e)
  BY MidOfAssumption
  DEF Refuse, Local, TypeOK, DeliveryState, DeliveryHolds
<1>2. \A t \in Task : TaskMids(t)' = TaskMids(t)
  BY <1>1 DEF TaskMids
<1>3. \A m \in Mid : Held(m)' <=> Held(m) /\ m # MidOf[d]
  BY <1>1, <1>2 DEF Held, Ownership, OneHolder
<1>4. OneHolder'
  BY <1>1, <1>2, <1>3 DEF Ownership, OneHolder
<1>5. BatchShape'
  BY <1>1 DEF Ownership, BatchShape
<1>. QED
  BY <1>4, <1>5 DEF Ownership

\* An enqueued mid moves from the delivery to the buffer.
LEMMA OwnershipEnqueue ==
  ASSUME Local, Ownership, NEW d \in Delivery, Enqueue(d)
  PROVE  Ownership'
<1>0. /\ MidOf \in [Delivery -> Mid] /\ buffer \in Seq(Mid)
      /\ task \in [Task -> TaskState]
  BY MidOfAssumption DEF Local, TypeOK
<1>1. /\ inflight' = inflight
      /\ buffer' = Append(buffer, MidOf[d])
      /\ DeliveryHolds(d) /\ ~DeliveryHolds(d)'
      /\ \A e \in Delivery \ {d} : DeliveryHolds(e)' <=> DeliveryHolds(e)
  BY DEF Enqueue, Local, TypeOK, DeliveryState, DeliveryHolds
<1>2. PICK t \in Task : task[t].pc = "idle" /\ task' = Restart(task, timer, t)
  BY DEF Enqueue
<1>3. \A s \in Task : /\ task'[s].queue = task[s].queue
                      /\ task'[s].done = task[s].done
                      /\ task'[s].failed = task[s].failed
  BY <1>0, <1>2, ResetTypes DEF Restart, Local, TaskShape, OneTimer
<1>4. \A s \in Task : TaskMids(s)' = TaskMids(s)
  BY <1>3 DEF TaskMids
<1>5. Range(buffer') = Range(buffer) \cup {MidOf[d]}
  BY <1>0, <1>1, AppendToQueue
<1>6. MidOf[d] \notin Range(buffer)
  BY <1>1 DEF Ownership, OneHolder
<1>7. IsInjective(buffer')
  BY <1>0, <1>1, <1>6, AppendToQueue DEF Ownership, OneHolder
<1>8. \A m \in Mid : Held(m)' <=> Held(m)
  BY <1>0, <1>1, <1>4, <1>5 DEF Held
<1>9. OneHolder'
  BY <1>0, <1>1, <1>4, <1>5, <1>7, <1>8 DEF Ownership, OneHolder
<1>10. BatchShape'
  BY <1>3 DEF Ownership, BatchShape
<1>. QED
  BY <1>9, <1>10 DEF Ownership

\* A takeover lets go of what the buffer holds.
LEMMA OwnershipCancel ==
  ASSUME Local, Ownership, NEW a \in Takeover, TakeoverCancelsBuffer(a)
  PROVE  Ownership'
<1>1. /\ inflight' = inflight \ Range(buffer) /\ buffer' = <<>>
      /\ UNCHANGED delivery
  BY DEF TakeoverCancelsBuffer
<1>2. \A s \in Task : /\ task'[s].queue = task[s].queue
                      /\ task'[s].done = task[s].done
                      /\ task'[s].failed = task[s].failed
  BY ResetTypes DEF TakeoverCancelsBuffer, Local, TypeOK, TaskShape, OneTimer
<1>3. \A s \in Task : TaskMids(s)' = TaskMids(s)
  BY <1>2 DEF TaskMids
<1>4. Range(buffer') = {} /\ IsInjective(buffer')
  BY <1>1, EmptyQueue
<1>5. \A d \in Delivery : DeliveryHolds(d)' <=> DeliveryHolds(d)
  BY <1>1 DEF DeliveryHolds
<1>6. \A m \in Mid : Held(m)' <=> Held(m) /\ m \notin Range(buffer)
  BY <1>3, <1>4, <1>5 DEF Held, Ownership, OneHolder
<1>7. OneHolder'
  BY <1>1, <1>3, <1>4, <1>5, <1>6 DEF Ownership, OneHolder
<1>8. BatchShape'
  BY <1>2 DEF Ownership, BatchShape
<1>. QED
  BY <1>7, <1>8 DEF Ownership

\* The timer that fires takes over the whole buffer as its batch.
LEMMA OwnershipFires ==
  ASSUME Local, Ownership, NEW t \in Task, TimerFires(t)
  PROVE  Ownership'
<1>1. /\ task \in [Task -> TaskState] /\ t = timer /\ buffer # <<>>
      /\ task[t].pc = "sleeping" /\ UNCHANGED <<inflight, delivery>>
      /\ buffer' = <<>>
  BY NoTaskAssumption DEF Local, TypeOK, OneTimer, TimerFires
<1>2. task' = [task EXCEPT ![t] = Bare("load", buffer, {}, <<>>)]
  BY <1>1 DEF TimerFires
<1>3. /\ task'[t].queue = buffer /\ task'[t].done = {} /\ task'[t].failed = <<>>
      /\ \A s \in Task \ {t} : task'[s] = task[s]
  BY <1>1, <1>2 DEF Bare
<1>4. TaskMids(t) = {}
  BY <1>1, NoBatch DEF Local, Running
<1>5. /\ TaskMids(t)' = Range(buffer)
      /\ \A s \in Task \ {t} : TaskMids(s)' = TaskMids(s)
  BY <1>3, EmptyQueue DEF TaskMids
<1>6. Range(buffer') = {} /\ IsInjective(buffer')
  BY <1>1, EmptyQueue
<1>7. \A d \in Delivery : DeliveryHolds(d)' <=> DeliveryHolds(d)
  BY <1>1 DEF DeliveryHolds
<1>8. \A m \in Mid : Held(m)' <=> Held(m)
  BY <1>4, <1>5, <1>6, <1>7 DEF Held
<1>9. OneHolder'
  BY <1>1, <1>5, <1>6, <1>7, <1>8 DEF Ownership, OneHolder
<1>10. BatchShape'
  <2>1. IsInjective(buffer)
    BY DEF Ownership, OneHolder
  <2>. QED
    BY <1>3, <2>1, EmptyQueue DEF Ownership, BatchShape
<1>. QED
  BY <1>9, <1>10 DEF Ownership

\* A restart leaves no mid in flight and no holder.
LEMMA OwnershipCrash ==
  ASSUME Local, Crash
  PROVE  Ownership'
<1>1. \A d \in Delivery : ~DeliveryHolds(d)'
  BY DEF Crash, DeliveryHolds, Local, TypeOK, DeliveryState
<1>2. /\ Range(buffer') = {} /\ IsInjective(buffer') /\ inflight' = {}
      /\ \A t \in Task : TaskMids(t)' = {}
  BY EmptyQueue, ResetTypes DEF Crash, TaskMids
<1>3. OneHolder'
  BY <1>1, <1>2 DEF OneHolder, Held
<1>4. BatchShape'
  BY EmptyQueue, ResetTypes DEF Crash, BatchShape
<1>. QED
  BY <1>3, <1>4 DEF Ownership

\* A batch that splits its messages anew into those still to handle, the
\* finished and the failed ones keeps them until it ends; then the finished
\* ones are let go of and the failed ones move to the buffer.
LEMMA OwnershipSettle ==
  ASSUME Local, Ownership, NEW t \in Task, Running(t),
         NEW finished \in SUBSET Mid, NEW failed \in Seq(Mid),
         Settle(t, finished, failed),
         UNCHANGED delivery,
         LET rest == Tail(task[t].queue)
         IN  /\ Range(rest) \cup finished \cup Range(failed) = TaskMids(t)
             /\ IsInjective(rest) /\ IsInjective(failed)
             /\ Range(rest) \cap finished = {}
             /\ Range(rest) \cap Range(failed) = {}
             /\ finished \cap Range(failed) = {}
  PROVE  Ownership'
<1>. DEFINE rest == Tail(task[t].queue)
            ended == [task EXCEPT ![t] = IdleTask]
<1>0. /\ task \in [Task -> TaskState] /\ buffer \in Seq(Mid)
      /\ \A d \in Delivery : DeliveryHolds(d)' <=> DeliveryHolds(d)
  BY DEF Local, TypeOK, DeliveryHolds
<1>1. CASE /\ rest # <<>>
           /\ task' = [task EXCEPT ![t] = Bare("load", rest, finished, failed)]
           /\ UNCHANGED <<inflight, buffer, timer>>
  <2>1. /\ task'[t].queue = rest /\ task'[t].done = finished
        /\ task'[t].failed = failed
        /\ \A s \in Task \ {t} : task'[s] = task[s]
    BY <1>0, <1>1 DEF Bare
  <2>2. \A s \in Task : TaskMids(s)' = TaskMids(s)
    BY <2>1 DEF TaskMids
  <2>3. \A m \in Mid : Held(m)' <=> Held(m)
    BY <1>0, <1>1, <2>2 DEF Held
  <2>4. OneHolder'
    BY <1>0, <1>1, <2>2, <2>3 DEF Ownership, OneHolder
  <2>5. BatchShape'
    BY <2>1 DEF Ownership, BatchShape
  <2>. QED
    BY <2>4, <2>5 DEF Ownership
<1>2. CASE /\ rest = <<>> /\ failed = <<>>
           /\ inflight' = inflight \ finished
           /\ task' = ended
           /\ UNCHANGED <<buffer, timer>>
  <2>1. /\ task'[t] = IdleTask
        /\ \A s \in Task \ {t} : task'[s] = task[s]
    BY <1>0, <1>2
  <2>2. /\ TaskMids(t)' = {} /\ TaskMids(t) = finished
        /\ \A s \in Task \ {t} : TaskMids(s)' = TaskMids(s)
    BY <1>2, <2>1, EmptyQueue, ResetTypes DEF TaskMids
  <2>3. \A m \in Mid : Held(m)' <=> Held(m) /\ m \notin finished
    BY <1>0, <1>2, <2>2 DEF Held, Ownership, OneHolder
  <2>4. OneHolder'
    BY <1>0, <1>2, <2>2, <2>3 DEF Ownership, OneHolder
  <2>5. BatchShape'
    BY <2>1, EmptyQueue, ResetTypes DEF Ownership, BatchShape
  <2>. QED
    BY <2>4, <2>5 DEF Ownership
<1>3. CASE /\ rest = <<>> /\ failed # <<>>
           /\ inflight' = inflight \ finished
           /\ buffer' = failed \o buffer
           /\ \E s \in Task : /\ ended[s].pc = "idle"
                              /\ timer' = s
                              /\ task' = Restart(ended, timer, s)
  <2>1. PICK s \in Task : /\ ended[s].pc = "idle"
                          /\ task' = Restart(ended, timer, s)
    BY <1>3
  <2>2. t # timer
    BY DEF Local, OneTimer, Running
  <2>3. /\ task'[t].queue = <<>> /\ task'[t].done = {} /\ task'[t].failed = <<>>
        /\ \A u \in Task \ {t} : /\ task'[u].queue = task[u].queue
                                 /\ task'[u].done = task[u].done
                                 /\ task'[u].failed = task[u].failed
    BY <1>0, <2>1, <2>2, ResetTypes DEF Restart, Local, TaskShape, OneTimer
  <2>4. /\ TaskMids(t)' = {} /\ TaskMids(t) = finished \cup Range(failed)
        /\ \A u \in Task \ {t} : TaskMids(u)' = TaskMids(u)
    BY <1>3, <2>3, EmptyQueue DEF TaskMids
  <2>5. Range(buffer') = Range(failed) \cup Range(buffer)
    BY <1>0, <1>3, ConcatQueues
  <2>6. IsInjective(buffer')
    <3>1. IsInjective(buffer) /\ Range(failed) \cap Range(buffer) = {}
      BY <2>4 DEF Ownership, OneHolder
    <3>. QED
      BY <1>0, <1>3, <3>1, ConcatQueues
  <2>7. \A m \in Mid : Held(m)' <=> Held(m) /\ m \notin finished
    BY <1>0, <2>4, <2>5 DEF Held, Ownership, OneHolder
  <2>8. OneHolder'
    <3>. USE DEF Ownership, OneHolder
    <3>1. \A m \in Mid : m \in inflight' <=> Held(m)'
      BY <1>3, <2>7
    <3>2. \A d \in Delivery : DeliveryHolds(d)' =>
             /\ MidOf[d] \notin Range(buffer')
             /\ \A u \in Task : MidOf[d] \notin TaskMids(u)'
      BY <1>0, <2>4, <2>5
    <3>3. \A u \in Task : Range(buffer') \cap TaskMids(u)' = {}
      BY <2>4, <2>5
    <3>4. \A u, v \in Task : u # v => TaskMids(u)' \cap TaskMids(v)' = {}
      BY <2>4
    <3>. QED
      BY <1>0, <2>6, <3>1, <3>2, <3>3, <3>4
  <2>9. BatchShape'
    BY <2>3, EmptyQueue DEF Ownership, BatchShape
  <2>. QED
    BY <2>8, <2>9 DEF Ownership
<1>. QED
  BY <1>1, <1>2, <1>3 DEF Settle

LEMMA OwnershipTask ==
  ASSUME Local, Ownership, NEW t \in Task, TaskStep(t)
  PROVE  Ownership'
<1>1. CASE \/ TaskLoads(t) \/ TaskSavesProfile(t) \/ TaskResumes(t)
           \/ InitialiseSession(t) \/ AnswerAndReload(t)
           \/ ReadForHandover(t) \/ SaveHandover(t)
           \/ SendAcknowledged(t) \/ SendUnacknowledged(t)
           \/ StoreMessages(t)
  <2>1. GoesOn(t)
    BY <1>1, BatchGoesOn DEF Local
  <2>. QED
    BY <2>1, OwnershipFrame DEF GoesOn, DeliveryHolds
<1>2. CASE TimerFires(t)
  BY <1>2, OwnershipFires
<1>3. CASE \/ Suppress(t) \/ RetryUnacknowledged(t) \/ Fail(t) \/ Drop(t)
           \/ SaveConversation(t) \/ SaveFails(t)
  <2>. DEFINE q == task[t].queue
              rest == Tail(task[t].queue)
  <2>1. BatchSettles(t) /\ UNCHANGED delivery
    BY <1>3, SettlingSteps DEF Local, Suppress, RetryUnacknowledged, Fail, Drop,
       SaveConversation, SaveFails
  <2>2. /\ Running(t) /\ q \in Seq(Mid) /\ q # <<>>
        /\ task[t].done \in SUBSET Mid /\ task[t].failed \in Seq(Mid)
        /\ Current(t) \in Mid
    BY <2>1, CurrentInBatch DEF Local, BatchSettles
  <2>3. /\ IsInjective(q) /\ IsInjective(task[t].failed)
        /\ Range(q) \cap task[t].done = {}
        /\ Range(q) \cap Range(task[t].failed) = {}
        /\ task[t].done \cap Range(task[t].failed) = {}
    BY DEF Ownership, BatchShape
  <2>4. /\ Range(q) = {Current(t)} \cup Range(rest)
        /\ Current(t) \notin Range(rest) /\ IsInjective(rest)
    BY <2>2, <2>3, QueueHeadTail, InjectiveTail DEF Current
  <2>5. CASE SettleDone(t)
    <3>. DEFINE finished == task[t].done \cup {Current(t)}
                failed == task[t].failed
    <3>1. /\ finished \in SUBSET Mid /\ Settle(t, finished, failed)
          /\ Range(rest) \cup finished \cup Range(failed) = TaskMids(t)
          /\ Range(rest) \cap finished = {}
          /\ Range(rest) \cap Range(failed) = {}
          /\ finished \cap Range(failed) = {}
      BY <2>2, <2>3, <2>4, <2>5 DEF SettleDone, TaskMids
    <3>. HIDE DEF finished
    <3>. QED
      BY <2>1, <2>2, <2>3, <2>4, <3>1, OwnershipSettle
  <2>6. CASE SettleFailed(t)
    <3>. DEFINE finished == task[t].done
                failed == Append(task[t].failed, Current(t))
    <3>0. /\ failed \in Seq(Mid) /\ IsInjective(failed)
          /\ Range(failed) = Range(task[t].failed) \cup {Current(t)}
      BY <2>2, <2>3, <2>4, AppendToQueue
    <3>1. Settle(t, finished, failed)
      BY <2>6 DEF SettleFailed
    <3>. HIDE DEF failed
    <3>2. /\ finished \in SUBSET Mid
          /\ Range(rest) \cup finished \cup Range(failed) = TaskMids(t)
          /\ Range(rest) \cap finished = {}
          /\ Range(rest) \cap Range(failed) = {}
          /\ finished \cap Range(failed) = {}
      BY <2>2, <2>3, <2>4, <3>0 DEF TaskMids
    <3>. QED
      BY <2>1, <2>2, <2>3, <2>4, <3>0, <3>1, <3>2, OwnershipSettle
  <2>. QED
    BY <2>1, <2>5, <2>6 DEF BatchSettles
<1>. QED
  BY <1>1, <1>2, <1>3 DEF TaskStep

LEMMA OwnershipInit == Init => Ownership
<1>. SUFFICES ASSUME Init PROVE Ownership
  OBVIOUS
<1>1. /\ \A d \in Delivery : ~DeliveryHolds(d)
      /\ Range(buffer) = {} /\ IsInjective(buffer) /\ inflight = {}
      /\ \A t \in Task : task[t] = IdleTask /\ TaskMids(t) = {}
  BY EmptyQueue, ResetTypes DEF Init, DeliveryHolds, TaskMids
<1>2. OneHolder
  BY <1>1 DEF OneHolder, Held
<1>3. BatchShape
  BY <1>1, EmptyQueue, ResetTypes DEF BatchShape
<1>. QED
  BY <1>2, <1>3 DEF Ownership

LEMMA OwnershipNext == Local /\ Ownership /\ [Next]_vars => Ownership'
<1>. SUFFICES ASSUME Local, Ownership, [Next]_vars PROVE Ownership'
  OBVIOUS
<1>1. CASE UNCHANGED vars
  BY <1>1, OwnershipFrame DEF vars, memory, DeliveryHolds
<1>2. ASSUME NEW d \in Delivery, LookUpDuplicate(d) \/ DeliveryStep(d)
      PROVE  Ownership'
  <2>1. CASE \/ LookUpDuplicate(d) \/ IgnoreDuplicate(d) \/ DeliveryLoads(d)
             \/ DeliverySavesProfile(d) \/ DeliveryResumes(d)
    <3>1. /\ UNCHANGED <<inflight, buffer, task>>
          /\ \A e \in Delivery : DeliveryHolds(e)' <=> DeliveryHolds(e)
      BY ZenonT(40), <2>1 DEF Local, TypeOK, DeliveryState, DeliveryHolds, LookUpDuplicate,
         IgnoreDuplicate, DeliveryLoads, DeliverySavesProfile, DeliveryResumes
    <3>. QED
      BY <3>1, OwnershipFrame
  <2>. QED
    BY <1>2, <2>1, OwnershipClaim, OwnershipRefuse, OwnershipEnqueue
    DEF DeliveryStep
<1>3. ASSUME NEW a \in Takeover,
             TakeoverLoads(a) \/ TakeoverFails(a) \/ TakeoverStep(a)
      PROVE  Ownership'
  <2>1. CASE TakeoverLoads(a) \/ TakeoverFails(a) \/ TakeoverPauses(a)
    BY <2>1, OwnershipFrame
    DEF TakeoverLoads, TakeoverFails, TakeoverPauses, DeliveryHolds
  <2>. QED
    BY <1>3, <2>1, OwnershipCancel DEF TakeoverStep
<1>4. ASSUME NEW t \in Task, TaskStep(t)
      PROVE  Ownership'
  BY <1>4, OwnershipTask
<1>5. CASE PauseLapses
  BY <1>5, OwnershipFrame DEF PauseLapses, memory, DeliveryHolds
<1>6. CASE Crash
  BY <1>6, OwnershipCrash
<1>. QED
  BY <1>1, <1>2, <1>3, <1>4, <1>5, <1>6 DEF Next

\* Whatever deliveries, takeovers, timers, batches, failures and restarts
\* interleave, a mid is in _processing_message_mids exactly while one of them
\* holds it, and no two hold it.
THEOREM OneHolderCorrect == Spec => []OneHolder
<1>. SUFFICES Spec => [](Local /\ Ownership)
  BY PTL DEF Ownership
<1>. QED
  BY LocalInit, LocalNext, OwnershipInit, OwnershipNext, PTL DEF Spec

-----------------------------------------------------------------------------
(* Layer 3: every reply is accounted for.                                   *)

Account == RepliesAccounted /\ OpenIsOwed

\* Steps that show no reply, and add nothing to a buffer or a batch.
LEMMA AccountFrame ==
  ASSUME Account,
         UNCHANGED <<replies, accepted, unacked>>,
         Range(buffer') \subseteq Range(buffer),
         \A t \in Task :
            /\ Range(task'[t].failed) \subseteq Range(task[t].failed)
            /\ \/ Range(task'[t].queue) = {}
               \/ /\ task'[t].queue = task[t].queue
                  /\ Answered(t) => Answered(t)'
  PROVE  Account'
<1>1. \A m \in Mid : Owed(m)' <=> Owed(m)
  BY DEF Owed
<1>. QED
  BY <1>1 DEF Account, RepliesAccounted, OpenIsOwed, Owed, Current

\* An acceptance is owed a reply.
LEMMA AccountEnqueue ==
  ASSUME Local, Account, NEW d \in Delivery, Enqueue(d)
  PROVE  Account'
<1>0. /\ MidOf[d] \in Mid /\ buffer \in Seq(Mid)
      /\ replies \in [Mid -> Nat] /\ accepted \in [Mid -> Nat]
      /\ unacked \in [Mid -> Nat] /\ task \in [Task -> TaskState]
  BY MidOfAssumption DEF Local, TypeOK
<1>1. /\ accepted' = [accepted EXCEPT ![MidOf[d]] = @ + 1]
      /\ UNCHANGED <<replies, unacked>>
      /\ buffer' = Append(buffer, MidOf[d])
  BY DEF Enqueue
<1>2. PICK t \in Task : task[t].pc = "idle" /\ task' = Restart(task, timer, t)
  BY DEF Enqueue
<1>3. \A s \in Task : /\ task'[s].queue = task[s].queue
                      /\ task'[s].failed = task[s].failed
                      /\ Answered(s)' <=> Answered(s)
  BY <1>0, <1>2, ResetTypes
  DEF Restart, Local, TaskShape, OneTimer, Answered
<1>4. Range(buffer') = Range(buffer) \cup {MidOf[d]}
  BY <1>0, <1>1, AppendToQueue
<1>5. RepliesAccounted'
  BY <1>0, <1>1 DEF Account, RepliesAccounted
<1>6. /\ \A m \in Mid : Owed(m) => Owed(m)'
      /\ Owed(MidOf[d])'
  BY <1>0, <1>1 DEF Account, RepliesAccounted, Owed
<1>7. /\ Range(buffer) \subseteq Mid
      /\ \A s \in Task : /\ Range(task[s].queue) \subseteq Mid
                         /\ Range(task[s].failed) \subseteq Mid
  BY <1>0, QueueMembers DEF TaskState
<1>8. OpenIsOwed'
  BY <1>3, <1>4, <1>6, <1>7 DEF Account, OpenIsOwed, Current
<1>. QED
  BY <1>5, <1>8 DEF Account

\* The current message is answered: its batch owed it, and nobody else holds
\* it.
LEMMA AccountSend ==
  ASSUME Local, Ownership, Account, NEW t \in Task,
         SendAcknowledged(t) \/ SendUnacknowledged(t)
  PROVE  Account'
<1>0. /\ replies \in [Mid -> Nat] /\ accepted \in [Mid -> Nat]
      /\ unacked \in [Mid -> Nat] /\ task \in [Task -> TaskState]
      /\ buffer \in Seq(Mid)
  BY DEF Local, TypeOK
<1>1. GoesOn(t)
  BY BatchGoesOn DEF Local
<1>2. PICK m \in Mid : m = Current(t) /\ m \in Range(task[t].queue)
  BY <1>1, CurrentInBatch DEF Local, GoesOn
<1>3. Owed(m)
  <2>1. ~Answered(t)
    BY DEF SendAcknowledged, SendUnacknowledged, Sending, Answered
  <2>. QED
    BY <1>2, <2>1 DEF Account, OpenIsOwed
<1>4. /\ m \notin Range(buffer) /\ m \notin Range(task[t].failed)
      /\ \A s \in Task \ {t} : /\ m \notin Range(task[s].queue)
                               /\ m \notin Range(task[s].failed)
  BY <1>2 DEF Ownership, OneHolder, BatchShape, TaskMids
<1>5. /\ replies' = [replies EXCEPT ![m] = @ + 1]
      /\ UNCHANGED accepted
      /\ \/ UNCHANGED unacked /\ Answered(t)'
         \/ unacked' = [unacked EXCEPT ![m] = @ + 1]
  <2>1. CASE SendAcknowledged(t)
    <3>1. Answered(t)'
      BY <1>0, <2>1 DEF SendAcknowledged, Answered
    <3>. QED
      BY <1>2, <2>1, <3>1 DEF SendAcknowledged
  <2>2. CASE SendUnacknowledged(t)
    BY <1>2, <2>2 DEF SendUnacknowledged
  <2>. QED
    BY <2>1, <2>2
<1>6. RepliesAccounted'
  BY <1>0, <1>2, <1>3, <1>5 DEF Account, RepliesAccounted, Owed
<1>7. /\ \A x \in Mid \ {m} : Owed(x)' <=> Owed(x)
      /\ Owed(m)' \/ Answered(t)'
  <2>1. \A x \in Mid \ {m} :
           replies'[x] = replies[x] /\ accepted'[x] = accepted[x]
             /\ unacked'[x] = unacked[x]
    BY <1>0, <1>2, <1>5
  <2>2. CASE Answered(t)'
    BY <2>1, <2>2 DEF Owed
  <2>3. CASE unacked' = [unacked EXCEPT ![m] = @ + 1]
    <3>1. Owed(m)'
      BY <1>0, <1>2, <1>3, <1>5, <2>3 DEF Owed
    <3>. QED
      BY <2>1, <3>1 DEF Owed
  <2>. QED
    BY <1>5, <2>2, <2>3
<1>8. /\ Range(buffer) \subseteq Mid
      /\ \A s \in Task : /\ Range(task[s].queue) \subseteq Mid
                         /\ Range(task[s].failed) \subseteq Mid
  BY <1>0, QueueMembers DEF TaskState
<1>9. OpenIsOwed'
  <2>1. \A x \in Range(buffer') : Owed(x)'
    BY <1>1, <1>4, <1>7, <1>8 DEF GoesOn, Account, OpenIsOwed
  <2>2. ASSUME NEW s \in Task, NEW x \in Range(task'[s].failed)
        PROVE  Owed(x)'
    BY <1>1, <1>4, <1>7, <1>8, <2>2 DEF GoesOn, Account, OpenIsOwed
  <2>3. ASSUME NEW s \in Task \ {t}, NEW x \in Range(task'[s].queue)
        PROVE  Owed(x)' \/ (Answered(s)' /\ x = Current(s)')
    BY <1>1, <1>4, <1>7, <1>8, <2>3
    DEF GoesOn, Account, OpenIsOwed, Answered, Current
  <2>4. ASSUME NEW x \in Range(task'[t].queue)
        PROVE  Owed(x)' \/ (Answered(t)' /\ x = Current(t)')
    <3>1. Current(t)' = m /\ ~Answered(t)
      BY <1>1, <1>2 DEF GoesOn, Current, SendAcknowledged, SendUnacknowledged,
         Sending, Answered
    <3>. QED
      BY <1>1, <1>7, <1>8, <2>4, <3>1 DEF GoesOn, Account, OpenIsOwed
  <2>. QED
    BY <2>1, <2>2, <2>3, <2>4 DEF OpenIsOwed
<1>. QED
  BY <1>6, <1>9 DEF Account

\* A batch that fails messages it still owes, and goes on with messages other
\* than the current one, keeps the account.
LEMMA AccountSettle ==
  ASSUME Local, Ownership, Account, NEW t \in Task, Running(t),
         NEW finished \in SUBSET Mid, NEW failed \in Seq(Mid),
         Settle(t, finished, failed),
         UNCHANGED <<replies, accepted, unacked>>,
         \A m \in Range(failed) : Owed(m)
  PROVE  Account'
<1>. DEFINE rest == Tail(task[t].queue)
            ended == [task EXCEPT ![t] = IdleTask]
<1>0. /\ task \in [Task -> TaskState] /\ buffer \in Seq(Mid)
      /\ \A m \in Mid : Owed(m)' <=> Owed(m)
      /\ RepliesAccounted'
  BY DEF Local, TypeOK, Owed, Account, RepliesAccounted
<1>1. \A m \in Range(rest) : Owed(m)
  <2>1. /\ task[t].queue \in Seq(Mid) /\ task[t].queue # <<>>
        /\ IsInjective(task[t].queue)
    BY CurrentInBatch DEF Local, Ownership, BatchShape
  <2>2. /\ Current(t) \notin Range(rest)
        /\ Range(rest) \subseteq Range(task[t].queue)
    BY <2>1, QueueHeadTail, InjectiveTail DEF Current
  <2>. QED
    BY <2>2 DEF Account, OpenIsOwed
<1>2. /\ \A m \in Range(failed) \cup Range(rest) : Owed(m)'
      /\ \A m \in Range(buffer) : Owed(m)'
      /\ \A u \in Task : \A m \in Range(task[u].failed) : Owed(m)'
  <2>1. /\ Range(buffer) \subseteq Mid /\ Range(failed) \subseteq Mid
        /\ Range(rest) \subseteq Mid
        /\ \A u \in Task : Range(task[u].failed) \subseteq Mid
    BY <1>0, CurrentInBatch, QueueHeadTail, QueueMembers DEF TaskState, Local
  <2>. QED
    BY <1>0, <1>1, <2>1 DEF Account, OpenIsOwed
<1>3. ASSUME NEW u \in Task \ {t}, UNCHANGED task[u].queue,
             Answered(u) => Answered(u)', NEW m \in Range(task'[u].queue)
      PROVE  Owed(m)' \/ (Answered(u)' /\ m = Current(u)')
  <2>1. m \in Mid
    BY <1>0, <1>3, QueueMembers DEF TaskState
  <2>. QED
    BY <1>0, <1>3, <2>1 DEF Account, OpenIsOwed, Current
<1>4. CASE /\ rest # <<>>
           /\ task' = [task EXCEPT ![t] = Bare("load", rest, finished, failed)]
           /\ UNCHANGED <<inflight, buffer, timer>>
  <2>1. /\ task'[t].queue = rest /\ task'[t].failed = failed
        /\ \A u \in Task \ {t} : task'[u] = task[u]
    BY <1>0, <1>4 DEF Bare
  <2>2. OpenIsOwed'
    BY <1>2, <1>3, <1>4, <2>1 DEF OpenIsOwed, Answered
  <2>. QED
    BY <1>0, <2>2 DEF Account
<1>5. CASE /\ rest = <<>> /\ failed = <<>>
           /\ inflight' = inflight \ finished
           /\ task' = ended
           /\ UNCHANGED <<buffer, timer>>
  <2>1. /\ task'[t] = IdleTask
        /\ \A u \in Task \ {t} : task'[u] = task[u]
    BY <1>0, <1>5
  <2>2. OpenIsOwed'
    BY <1>2, <1>3, <1>5, <2>1, ResetTypes, EmptyQueue DEF OpenIsOwed, Answered
  <2>. QED
    BY <1>0, <2>2 DEF Account
<1>6. CASE /\ rest = <<>> /\ failed # <<>>
           /\ inflight' = inflight \ finished
           /\ buffer' = failed \o buffer
           /\ \E s \in Task : /\ ended[s].pc = "idle"
                              /\ timer' = s
                              /\ task' = Restart(ended, timer, s)
  <2>1. PICK s \in Task : /\ ended[s].pc = "idle"
                          /\ task' = Restart(ended, timer, s)
    BY <1>6
  <2>2. t # timer
    BY DEF Local, OneTimer, Running
  <2>3. /\ task'[t].queue = <<>> /\ task'[t].failed = <<>>
        /\ \A u \in Task \ {t} : /\ task'[u].queue = task[u].queue
                                 /\ task'[u].failed = task[u].failed
                                 /\ Answered(u) => Answered(u)'
    BY <1>0, <2>1, <2>2, ResetTypes
    DEF Restart, Local, TaskShape, OneTimer, Answered
  <2>4. Range(buffer') = Range(failed) \cup Range(buffer)
    BY <1>0, <1>6, ConcatQueues
  <2>5. OpenIsOwed'
    <3>1. \A m \in Range(buffer') : Owed(m)'
      BY <1>2, <2>4
    <3>2. Range(task'[t].queue) = {} /\ Range(task'[t].failed) = {}
      BY <2>3, EmptyQueue
    <3>3. ASSUME NEW u \in Task \ {t}, NEW m \in Range(task'[u].failed)
          PROVE  Owed(m)'
      <4>1. m \in Range(task[u].failed)
        BY <2>3, <3>3
      <4>. QED
        BY <1>2, <4>1
    <3>4. ASSUME NEW u \in Task \ {t}, NEW m \in Range(task'[u].queue)
          PROVE  Owed(m)' \/ (Answered(u)' /\ m = Current(u)')
      <4>1. UNCHANGED task[u].queue /\ (Answered(u) => Answered(u)')
        BY <2>3, <3>4
      <4>. QED
        BY <1>3, <3>4, <4>1
    <3>. QED
      BY <3>1, <3>2, <3>3, <3>4 DEF OpenIsOwed
  <2>. QED
    BY <1>0, <2>5 DEF Account
<1>. QED
  BY <1>4, <1>5, <1>6 DEF Settle

LEMMA AccountTask ==
  ASSUME Local, Ownership, Account, NEW t \in Task, TaskStep(t)
  PROVE  Account'
<1>1. CASE \/ TaskLoads(t) \/ TaskSavesProfile(t) \/ TaskResumes(t)
           \/ InitialiseSession(t) \/ AnswerAndReload(t)
           \/ ReadForHandover(t) \/ SaveHandover(t) \/ StoreMessages(t)
  <2>1. GoesOn(t) /\ task \in [Task -> TaskState]
    BY <1>1, BatchGoesOn DEF Local, TypeOK
  <2>2. /\ UNCHANGED <<replies, accepted, unacked>>
        /\ Answered(t) => Answered(t)'
    <3>1. CASE StoreMessages(t)
      BY <2>1, <3>1 DEF StoreMessages, Answered, history
    <3>2. CASE ~StoreMessages(t)
      BY <1>1, <3>2 DEF TaskLoads, TaskSavesProfile, TaskResumes,
         InitialiseSession, AnswerAndReload, ReadForHandover, SaveHandover,
         Forwarding, Answered, history
    <3>. QED
      BY <3>1, <3>2
  <2>. QED
    BY <2>1, <2>2, AccountFrame DEF GoesOn, Answered
<1>2. CASE SendAcknowledged(t) \/ SendUnacknowledged(t)
  BY <1>2, AccountSend
<1>3. CASE TimerFires(t)
  <2>1. /\ task \in [Task -> TaskState] /\ t = timer /\ buffer # <<>>
        /\ buffer' = <<>> /\ UNCHANGED <<replies, accepted, unacked>>
        /\ buffer \in Seq(Mid)
    BY <1>3, NoTaskAssumption DEF Local, TypeOK, OneTimer, TimerFires, history
  <2>2. task' = [task EXCEPT ![t] = Bare("load", buffer, {}, <<>>)]
    BY <1>3, <2>1 DEF TimerFires
  <2>3. /\ task'[t].queue = buffer /\ task'[t].failed = <<>>
        /\ \A s \in Task \ {t} : task'[s] = task[s]
    BY <2>1, <2>2 DEF Bare
  <2>4. \A m \in Mid : Owed(m)' <=> Owed(m)
    BY <2>1 DEF Owed
  <2>5. /\ Range(buffer) \subseteq Mid
        /\ \A s \in Task : /\ Range(task[s].queue) \subseteq Mid
                           /\ Range(task[s].failed) \subseteq Mid
    BY <2>1, QueueMembers DEF TaskState
  <2>6. OpenIsOwed'
    BY <2>1, <2>3, <2>4, <2>5, EmptyQueue
    DEF Account, OpenIsOwed, Answered, Current
  <2>7. RepliesAccounted'
    BY <2>1 DEF Account, RepliesAccounted
  <2>. QED
    BY <2>6, <2>7 DEF Account
<1>4. CASE \/ Suppress(t) \/ RetryUnacknowledged(t) \/ Fail(t) \/ Drop(t)
           \/ SaveConversation(t) \/ SaveFails(t)
  <2>1. /\ BatchSettles(t) /\ UNCHANGED <<replies, accepted, unacked>>
        /\ SettleDone(t) \/ (SettleFailed(t) /\ ~Answered(t))
    BY <1>4, SettlingSteps DEF Local, Suppress, RetryUnacknowledged, Fail, Drop,
       SaveConversation, SaveFails, Answered, history
  <2>2. /\ Running(t) /\ task[t].done \in SUBSET Mid
        /\ task[t].failed \in Seq(Mid) /\ Current(t) \in Mid
        /\ Current(t) \in Range(task[t].queue)
    BY <2>1, CurrentInBatch DEF Local, BatchSettles
  <2>3. \A m \in Range(task[t].failed) : Owed(m)
    BY DEF Account, OpenIsOwed
  <2>4. CASE SettleDone(t)
    <3>1. task[t].done \cup {Current(t)} \in SUBSET Mid
      BY <2>2
    <3>. QED
      BY <2>1, <2>2, <2>3, <2>4, <3>1, AccountSettle DEF SettleDone
  <2>5. CASE SettleFailed(t) /\ ~Answered(t)
    <3>1. Owed(Current(t))
      BY <2>2, <2>5 DEF Account, OpenIsOwed
    <3>2. /\ Append(task[t].failed, Current(t)) \in Seq(Mid)
          /\ \A m \in Range(Append(task[t].failed, Current(t))) : Owed(m)
      BY <2>2, <2>3, <3>1, AppendToQueue
    <3>. QED
      BY <2>1, <2>2, <2>5, <3>2, AccountSettle DEF SettleFailed
  <2>. QED
    BY <2>1, <2>4, <2>5
<1>. QED
  BY <1>1, <1>2, <1>3, <1>4 DEF TaskStep

LEMMA AccountInit == Init => Account
<1>. SUFFICES ASSUME Init PROVE Account
  OBVIOUS
<1>1. RepliesAccounted
  BY DEF Init, RepliesAccounted
<1>2. OpenIsOwed
  BY EmptyQueue, ResetTypes DEF Init, OpenIsOwed
<1>. QED
  BY <1>1, <1>2 DEF Account

LEMMA AccountNext ==
  Local /\ Ownership /\ Account /\ [Next]_vars => Account'
<1>. SUFFICES ASSUME Local, Ownership, Account, [Next]_vars PROVE Account'
  OBVIOUS
<1>1. CASE UNCHANGED vars
  BY <1>1, AccountFrame DEF vars, memory, history, Answered
<1>2. ASSUME NEW d \in Delivery, LookUpDuplicate(d) \/ DeliveryStep(d)
      PROVE  Account'
  <2>1. CASE \/ LookUpDuplicate(d) \/ IgnoreDuplicate(d) \/ Claim(d)
             \/ DeliveryLoads(d) \/ DeliverySavesProfile(d)
             \/ DeliveryResumes(d) \/ Refuse(d)
    <3>1. UNCHANGED <<replies, accepted, unacked, buffer, task>>
      BY <2>1 DEF LookUpDuplicate, IgnoreDuplicate, Claim, DeliveryLoads,
         DeliverySavesProfile, DeliveryResumes, Refuse, history
    <3>. QED
      BY <3>1, AccountFrame DEF Answered
  <2>. QED
    BY <1>2, <2>1, AccountEnqueue DEF DeliveryStep
<1>3. ASSUME NEW a \in Takeover,
             TakeoverLoads(a) \/ TakeoverFails(a) \/ TakeoverStep(a)
      PROVE  Account'
  <2>1. CASE TakeoverLoads(a) \/ TakeoverFails(a) \/ TakeoverPauses(a)
    BY <2>1, AccountFrame
    DEF TakeoverLoads, TakeoverFails, TakeoverPauses, Answered, history
  <2>2. CASE TakeoverCancelsBuffer(a)
    <3>1. /\ UNCHANGED <<replies, accepted, unacked>>
          /\ Range(buffer') = {}
      BY <2>2, EmptyQueue DEF TakeoverCancelsBuffer, history
    <3>2. \A t \in Task : task'[t] = task[t] \/ task'[t] = IdleTask
      BY <2>2 DEF TakeoverCancelsBuffer
    <3>. QED
      BY <3>1, <3>2, AccountFrame, ResetTypes, EmptyQueue DEF Answered
  <2>. QED
    BY <1>3, <2>1, <2>2 DEF TakeoverStep
<1>4. ASSUME NEW t \in Task, TaskStep(t)
      PROVE  Account'
  BY <1>4, AccountTask
<1>5. CASE PauseLapses
  BY <1>5, AccountFrame DEF PauseLapses, memory, history, Answered
<1>6. CASE Crash
  <2>1. /\ UNCHANGED <<replies, accepted, unacked>>
        /\ Range(buffer') = {}
        /\ \A t \in Task : task'[t] = IdleTask
    BY <1>6, EmptyQueue DEF Crash, history
  <2>. QED
    BY <2>1, AccountFrame, ResetTypes, EmptyQueue
<1>. QED
  BY <1>1, <1>2, <1>3, <1>4, <1>5, <1>6 DEF Next

\* A customer sees no more replies to a message than it was accepted, counting
\* in the replies whose acknowledgement was lost: requeueing, suppressing,
\* cancelling and restarting never repeat a reply.
THEOREM RepliesAccountedCorrect == Spec => []RepliesAccounted
<1>. SUFFICES Spec => [](Local /\ Ownership /\ Account)
  BY PTL DEF Account
<1>. QED
  BY LocalInit, LocalNext, OwnershipInit, OwnershipNext, AccountInit,
     AccountNext, PTL DEF Spec

-----------------------------------------------------------------------------
(* Layer 4: a copy says paused only after a takeover.                       *)

\* What a delivery holds and stores is unpaused as long as the document is.
LEMMA PauseDelivery ==
  ASSUME TypeOK, PauseHasTakeover, NEW d \in Delivery,
         LookUpDuplicate(d) \/ DeliveryStep(d)
  PROVE  PauseHasTakeover'
<1>. USE DEF clock, Resumed, NoCopy
<1>. SUFFICES ASSUME pauses' = 0 PROVE PauseHasTakeover'
  BY DEF PauseHasTakeover
<1>0. /\ delivery \in [Delivery -> DeliveryState] /\ task \in [Task -> TaskState]
      /\ doc \in Doc /\ delivery[d].copy \in Doc
  BY DEF TypeOK, DeliveryState
<1>1. UNCHANGED <<pauses, takeover>> /\ pauses = 0
  BY DEF DeliveryStep, LookUpDuplicate, IgnoreDuplicate, Claim, DeliveryLoads,
     DeliverySavesProfile, DeliveryResumes, Refuse, Enqueue
<1>2. /\ doc.pause = 0
      /\ \A e \in Delivery : delivery[e].copy.pause = 0
      /\ \A a \in Takeover :
            takeover[a].copy.pause = 0 /\ takeover[a].pc # "paused"
      /\ \A t \in Task : task[t].copy.pause = 0 /\ task[t].other.pause = 0
  BY <1>1 DEF PauseHasTakeover
<1>3. CASE LookUpDuplicate(d) \/ IgnoreDuplicate(d) \/ Claim(d) \/ Refuse(d)
  <2>1. \A e \in Delivery : delivery'[e].copy = delivery[e].copy
    <3>1. CASE LookUpDuplicate(d)
      <4>1. PICK b : delivery' = [delivery EXCEPT ![d].pc = "looked",
                                                  ![d].dup = b]
        BY <3>1, Zenon DEF LookUpDuplicate
      <4>. QED
        BY <1>0, <4>1 DEF DeliveryState
    <3>2. CASE IgnoreDuplicate(d) \/ Claim(d) \/ Refuse(d)
      <4>1. PICK pc : delivery' = [delivery EXCEPT ![d].pc = pc]
        BY <3>2 DEF IgnoreDuplicate, Claim, Refuse
      <4>. QED
        BY <1>0, <4>1 DEF DeliveryState
    <3>. QED
      BY <1>3, <3>1, <3>2
  <2>2. UNCHANGED <<doc, task>>
    BY <1>3 DEF LookUpDuplicate, IgnoreDuplicate, Claim, Refuse
  <2>. QED
    BY <1>1, <1>2, <2>1, <2>2 DEF PauseHasTakeover
<1>4. CASE DeliveryLoads(d)
  <2>1. \A e \in Delivery : delivery'[e].copy \in {delivery[e].copy, doc}
    BY <1>0, <1>4 DEF DeliveryLoads, DeliveryState
  <2>. QED
    BY <1>1, <1>2, <1>4, <2>1 DEF PauseHasTakeover, DeliveryLoads
<1>5. CASE DeliverySavesProfile(d)
  <2>1. \A e \in Delivery : delivery'[e].copy = delivery[e].copy
    BY <1>0, <1>5 DEF DeliverySavesProfile, DeliveryState
  <2>. QED
    BY <1>1, <1>2, <1>5, <2>1 DEF PauseHasTakeover, DeliverySavesProfile
<1>6. CASE DeliveryResumes(d)
  BY <1>2, <1>6 DEF DeliveryResumes, PauseExpired
<1>7. CASE Enqueue(d)
  <2>1. \A e \in Delivery : delivery'[e].copy = delivery[e].copy
    BY <1>0, <1>7 DEF Enqueue, DeliveryState
  <2>2. PICK t \in Task : task' = Restart(task, timer, t)
    BY <1>7 DEF Enqueue
  <2>3. \A s \in Task : task'[s].copy.pause = 0 /\ task'[s].other.pause = 0
    BY <1>2, <2>2 DEF Restart, SleepingTask, IdleTask, Bare
  <2>. QED
    BY <1>1, <1>2, <1>7, <2>1, <2>3 DEF PauseHasTakeover, Enqueue
<1>. QED
  BY <1>3, <1>4, <1>5, <1>6, <1>7 DEF DeliveryStep

LEMMA PauseTakeover ==
  ASSUME TypeOK, PauseHasTakeover, NEW a \in Takeover,
         TakeoverLoads(a) \/ TakeoverFails(a) \/ TakeoverStep(a)
  PROVE  PauseHasTakeover'
<1>. USE DEF clock
<1>0. takeover \in [Takeover -> TakeoverState] /\ pauses \in Nat
  BY DEF TypeOK
<1>1. CASE TakeoverLoads(a)
  <2>1. \A b \in Takeover :
           /\ takeover'[b].copy \in {takeover[b].copy, doc}
           /\ takeover'[b].pc \in {takeover[b].pc, "loaded"}
    BY <1>0, <1>1 DEF TakeoverLoads, TakeoverState
  <2>. QED
    BY <1>1, <2>1 DEF PauseHasTakeover, TakeoverLoads
<1>2. CASE TakeoverFails(a)
  <2>1. \A b \in Takeover :
           /\ takeover'[b].copy = takeover[b].copy
           /\ takeover'[b].pc \in {takeover[b].pc, "done"}
    BY <1>0, <1>2 DEF TakeoverFails, TakeoverState
  <2>. QED
    BY <1>2, <2>1 DEF PauseHasTakeover, TakeoverFails
<1>3. CASE TakeoverPauses(a)
  BY <1>0, <1>3 DEF PauseHasTakeover, TakeoverPauses
<1>4. CASE TakeoverCancelsBuffer(a)
  BY <1>4 DEF PauseHasTakeover, TakeoverCancelsBuffer
<1>. QED
  BY <1>1, <1>2, <1>3, <1>4 DEF TakeoverStep

\* A batch that ends, or goes on with its next message, holds no copy.
LEMMA SettleCopies ==
  ASSUME TypeOK, NEW t \in Task, NEW finished, NEW failed,
         Settle(t, finished, failed)
  PROVE  \A s \in Task : /\ task'[s].copy \in {task[s].copy, NoCopy}
                         /\ task'[s].other \in {task[s].other, NoCopy}
<1>. DEFINE rest == Tail(task[t].queue)
            ended == [task EXCEPT ![t] = IdleTask]
<1>0. task \in [Task -> TaskState]
  BY DEF TypeOK
<1>1. CASE task' = [task EXCEPT ![t] = Bare("load", rest, finished, failed)]
  BY <1>0, <1>1 DEF Bare
<1>2. CASE task' = ended
  BY <1>0, <1>2 DEF Bare, IdleTask
<1>3. CASE \E s \in Task : task' = Restart(ended, timer, s)
  BY <1>0, <1>3 DEF Restart, Bare, IdleTask, SleepingTask
<1>. QED
  BY <1>1, <1>2, <1>3 DEF Settle

LEMMA PauseTask ==
  ASSUME TypeOK, PauseHasTakeover, NEW t \in Task, TaskStep(t)
  PROVE  PauseHasTakeover'
<1>. USE DEF clock, NoCopy
<1>. SUFFICES ASSUME pauses' = 0 PROVE PauseHasTakeover'
  BY DEF PauseHasTakeover
<1>0. task \in [Task -> TaskState]
  BY DEF TypeOK
<1>1. UNCHANGED <<pauses, takeover, delivery>> /\ pauses = 0
  BY DEF TaskStep, TimerFires, TaskLoads, TaskSavesProfile, TaskResumes,
     Suppress, InitialiseSession, AnswerAndReload, ReadForHandover,
     SaveHandover, SendAcknowledged, SendUnacknowledged, RetryUnacknowledged,
     Fail, Drop, StoreMessages, SaveConversation, SaveFails
<1>2. /\ doc.pause = 0
      /\ \A e \in Delivery : delivery[e].copy.pause = 0
      /\ \A a \in Takeover :
            takeover[a].copy.pause = 0 /\ takeover[a].pc # "paused"
      /\ \A s \in Task : task[s].copy.pause = 0 /\ task[s].other.pause = 0
  BY <1>1 DEF PauseHasTakeover
<1>3. SUFFICES /\ doc'.pause = 0
               /\ \A s \in Task :
                     task'[s].copy.pause = 0 /\ task'[s].other.pause = 0
  BY <1>1, <1>2 DEF PauseHasTakeover
<1>4. CASE TaskLoads(t) \/ AnswerAndReload(t) \/ ReadForHandover(t)
  <2>1. UNCHANGED doc
    BY <1>4 DEF TaskLoads, AnswerAndReload, ReadForHandover
  <2>2. \A s \in Task : /\ task'[s].copy \in {task[s].copy, doc}
                        /\ task'[s].other \in {task[s].other, doc}
    <3>1. CASE TaskLoads(t)
      BY <1>0, <3>1 DEF TaskLoads, TaskState
    <3>2. CASE AnswerAndReload(t)
      BY <1>0, <3>2 DEF AnswerAndReload, TaskState
    <3>3. CASE ReadForHandover(t)
      BY <1>0, <3>3 DEF ReadForHandover, TaskState
    <3>. QED
      BY <1>4, <3>1, <3>2, <3>3
  <2>. QED
    BY <1>2, <2>1, <2>2
<1>5. CASE TaskSavesProfile(t) \/ SaveHandover(t)
  <2>1. doc' \in {task[t].copy, task[t].other}
    BY <1>5 DEF TaskSavesProfile, SaveHandover
  <2>2. \A s \in Task : /\ task'[s].copy = task[s].copy
                        /\ task'[s].other \in {task[s].other, NoCopy}
    <3>1. CASE TaskSavesProfile(t)
      BY <1>0, <3>1 DEF TaskSavesProfile, TaskState
    <3>2. CASE SaveHandover(t)
      BY <1>0, <3>2 DEF SaveHandover, TaskState
    <3>. QED
      BY <1>5, <3>1, <3>2
  <2>. QED
    BY <1>2, <2>1, <2>2
<1>6. CASE TaskResumes(t)
  BY <1>2, <1>6 DEF TaskResumes, PauseExpired
<1>7. CASE InitialiseSession(t)
  <2>1. PICK c : c = doc'
    OBVIOUS
  <2>2. c.pause = 0
    BY <1>2, <1>7, <2>1 DEF InitialiseSession
  <2>3. task' = [task EXCEPT ![t].copy = c, ![t].pc = "profiled"]
    BY <1>7, <2>1, Zenon DEF InitialiseSession
  <2>4. \A s \in Task : /\ task'[s].copy \in {task[s].copy, c}
                        /\ task'[s].other = task[s].other
    BY <1>0, <2>3 DEF TaskState
  <2>. QED
    BY <1>2, <2>1, <2>2, <2>4
<1>8. CASE \/ SendAcknowledged(t) \/ SendUnacknowledged(t) \/ StoreMessages(t)
  <2>1. UNCHANGED doc
    BY <1>8 DEF SendAcknowledged, SendUnacknowledged, StoreMessages
  <2>2. PICK pc : task' = [task EXCEPT ![t].pc = pc]
    BY <1>8 DEF SendAcknowledged, SendUnacknowledged, StoreMessages
  <2>3. \A s \in Task : /\ task'[s].copy = task[s].copy
                        /\ task'[s].other = task[s].other
    BY <1>0, <2>2 DEF TaskState
  <2>. QED
    BY <1>2, <2>1, <2>3
<1>9. CASE TimerFires(t)
  <2>1. UNCHANGED doc
    BY <1>9 DEF TimerFires
  <2>2. \A s \in Task : /\ task'[s].copy \in {task[s].copy, NoCopy}
                        /\ task'[s].other \in {task[s].other, NoCopy}
    BY <1>0, <1>9 DEF TimerFires, Bare, IdleTask
  <2>. QED
    BY <1>2, <2>1, <2>2
<1>10. CASE \/ Suppress(t) \/ RetryUnacknowledged(t) \/ Fail(t) \/ Drop(t)
            \/ SaveConversation(t) \/ SaveFails(t)
  <2>1. doc' \in {doc, task[t].copy} /\ (SettleDone(t) \/ SettleFailed(t))
    BY <1>10 DEF Suppress, RetryUnacknowledged, Fail, Drop, SaveConversation,
       SaveFails
  <2>2. \A s \in Task : /\ task'[s].copy \in {task[s].copy, NoCopy}
                        /\ task'[s].other \in {task[s].other, NoCopy}
    BY <2>1, SettleCopies DEF SettleDone, SettleFailed
  <2>. QED
    BY <1>2, <2>1, <2>2
<1>. QED
  BY <1>4, <1>5, <1>6, <1>7, <1>8, <1>9, <1>10 DEF TaskStep

LEMMA PauseInit == Init => PauseHasTakeover
BY DEF Init, PauseHasTakeover, NoCopy, IdleTask, Bare

LEMMA PauseNext == Local /\ PauseHasTakeover /\ [Next]_vars => PauseHasTakeover'
<1>. SUFFICES ASSUME Local, PauseHasTakeover, [Next]_vars
              PROVE  PauseHasTakeover'
  OBVIOUS
<1>0. TypeOK
  BY DEF Local
<1>1. CASE UNCHANGED vars \/ PauseLapses
  BY <1>1 DEF vars, memory, clock, PauseLapses, PauseHasTakeover
<1>2. CASE Crash
  <2>1. \A d \in Delivery : delivery'[d].copy = delivery[d].copy
    BY <1>0, <1>2 DEF Crash, TypeOK, DeliveryState
  <2>2. \A a \in Takeover : /\ takeover'[a].copy = takeover[a].copy
                            /\ takeover'[a].pc \in {takeover[a].pc, "done"}
    BY <1>0, <1>2 DEF Crash, TypeOK, TakeoverState
  <2>3. \A t \in Task : task'[t].copy = NoCopy /\ task'[t].other = NoCopy
    BY <1>2 DEF Crash, IdleTask, Bare
  <2>4. UNCHANGED <<doc, pauses>>
    BY <1>2 DEF Crash, clock
  <2>. QED
    BY <2>1, <2>2, <2>3, <2>4 DEF PauseHasTakeover, NoCopy
<1>. QED
  BY <1>0, <1>1, <1>2, PauseDelivery, PauseTakeover, PauseTask DEF Next

-----------------------------------------------------------------------------
(* Layer 5: what is let go of without another reply is excused.             *)

Settled == ReleaseIsExcused /\ NoSilentLoss

\* After a takeover or a restart there is nothing to show.
LEMMA SettledAnyway ==
  ASSUME pauses' > 0 \/ crashes' > 0
  PROVE  Settled'
BY DEF Settled, ReleaseIsExcused, NoSilentLoss, Excused

\* Steps after which a message is held that was, and that finish nothing.
LEMMA SettledFrame ==
  ASSUME Settled,
         UNCHANGED accepted,
         inflight \subseteq inflight',
         \A m : Excused(m) => Excused(m)',
         \A d \in Delivery : DeliveryHolds(d)' => DeliveryHolds(d),
         \A t \in Task :
            /\ task'[t].done \subseteq task[t].done
            /\ Answered(t)' =>
                  Answered(t) /\ task'[t].queue = task[t].queue
  PROVE  Settled'
BY DEF Settled, ReleaseIsExcused, NoSilentLoss, Current

LEMMA SettledDelivery ==
  ASSUME Local, Ownership, Settled, NEW d \in Delivery,
         LookUpDuplicate(d) \/ DeliveryStep(d)
  PROVE  Settled'
<1>0. /\ delivery \in [Delivery -> DeliveryState] /\ MidOf[d] \in Mid
      /\ task \in [Task -> TaskState] /\ accepted \in [Mid -> Nat]
  BY MidOfAssumption DEF Local, TypeOK
<1>1. \A m : Excused(m) => Excused(m)'
  BY DEF Excused, DeliveryStep, LookUpDuplicate, IgnoreDuplicate, Claim,
     DeliveryLoads, DeliverySavesProfile, DeliveryResumes, Refuse, Enqueue,
     clock, budget, history
<1>2. CASE \/ LookUpDuplicate(d) \/ IgnoreDuplicate(d) \/ DeliveryLoads(d)
           \/ DeliverySavesProfile(d) \/ DeliveryResumes(d)
  <2>1. /\ UNCHANGED <<inflight, accepted, task>>
        /\ \A e \in Delivery : DeliveryHolds(e)' => DeliveryHolds(e)
    BY ZenonT(40), <1>0, <1>2 DEF DeliveryState, DeliveryHolds, LookUpDuplicate,
       IgnoreDuplicate, DeliveryLoads, DeliverySavesProfile, DeliveryResumes,
       history
  <2>. QED
    BY <1>1, <2>1, SettledFrame DEF Answered
<1>3. CASE Claim(d)
  <2>1. /\ UNCHANGED <<accepted, task>> /\ inflight \subseteq inflight'
        /\ MidOf[d] \notin inflight
        /\ \A e \in Delivery \ {d} : DeliveryHolds(e)' => DeliveryHolds(e)
    BY <1>0, <1>3 DEF Claim, DeliveryHolds, history
  <2>2. accepted[MidOf[d]] > 0 => Excused(MidOf[d])
    BY <1>0, <2>1 DEF Settled, NoSilentLoss
  <2>. QED
    BY <1>1, <2>1, <2>2
    DEF Settled, ReleaseIsExcused, NoSilentLoss, Answered, Current
<1>4. CASE Refuse(d)
  <2>1. /\ UNCHANGED <<accepted, task>> /\ inflight' = inflight \ {MidOf[d]}
        /\ DeliveryHolds(d)
        /\ \A e \in Delivery : DeliveryHolds(e)' => DeliveryHolds(e)
    BY <1>0, <1>4 DEF Refuse, DeliveryHolds, history
  <2>2. accepted[MidOf[d]] > 0 => Excused(MidOf[d])
    BY <2>1 DEF Settled, ReleaseIsExcused
  <2>. QED
    BY <1>1, <2>1, <2>2
    DEF Settled, ReleaseIsExcused, NoSilentLoss, Answered, Current
<1>5. CASE Enqueue(d)
  <2>1. /\ accepted' = [accepted EXCEPT ![MidOf[d]] = @ + 1]
        /\ UNCHANGED inflight /\ DeliveryHolds(d)
        /\ ~DeliveryHolds(d)'
        /\ \A e \in Delivery : DeliveryHolds(e)' => DeliveryHolds(e)
    BY <1>0, <1>5 DEF Enqueue, DeliveryHolds
  <2>2. /\ MidOf[d] \in inflight
        /\ \A e \in Delivery : DeliveryHolds(e)' => MidOf[e] # MidOf[d]
    BY <1>0, <2>1 DEF Ownership, OneHolder, Held
  <2>3. /\ \A m \in Mid \ {MidOf[d]} : accepted'[m] = accepted[m]
        /\ \A e \in Delivery : MidOf[e] \in Mid
    BY <1>0, <2>1, MidOfAssumption
  <2>4. PICK t \in Task : task[t].pc = "idle" /\ task' = Restart(task, timer, t)
    BY <1>5 DEF Enqueue
  <2>5. \A s \in Task : /\ task'[s].queue = task[s].queue
                        /\ task'[s].done = task[s].done
                        /\ Answered(s)' <=> Answered(s)
    BY <1>0, <2>4, ResetTypes
    DEF Restart, Local, TaskShape, OneTimer, Answered
  <2>. QED
    BY <1>1, <2>1, <2>2, <2>3, <2>5
    DEF Settled, ReleaseIsExcused, NoSilentLoss, Current
<1>. QED
  BY <1>2, <1>3, <1>4, <1>5 DEF DeliveryStep

\* A takeover that cancels the buffer has paused the bot.
LEMMA SettledTakeover ==
  ASSUME Local, PauseHasTakeover, Settled, NEW a \in Takeover,
         TakeoverLoads(a) \/ TakeoverFails(a) \/ TakeoverStep(a)
  PROVE  Settled'
<1>0. pauses \in Nat
  BY DEF Local, TypeOK
<1>1. CASE TakeoverLoads(a) \/ TakeoverFails(a)
  <2>1. UNCHANGED <<inflight, delivery, task, pauses, crashes, replies,
                    accepted, dropped>>
    BY <1>1 DEF TakeoverLoads, TakeoverFails, clock, budget, history
  <2>. QED
    BY <2>1, SettledFrame DEF DeliveryHolds, Answered, Excused
<1>2. CASE TakeoverPauses(a) \/ TakeoverCancelsBuffer(a)
  <2>1. pauses' > 0
    BY <1>0, <1>2
    DEF TakeoverPauses, TakeoverCancelsBuffer, PauseHasTakeover, clock
  <2>. QED
    BY <2>1, SettledAnyway
<1>. QED
  BY <1>1, <1>2 DEF TakeoverStep

\* A batch that finishes only excused messages lets go of no other.
LEMMA SettledSettle ==
  ASSUME Local, Settled, NEW t \in Task, Running(t),
         NEW finished \in SUBSET Mid, NEW failed \in Seq(Mid),
         Settle(t, finished, failed),
         UNCHANGED <<delivery, accepted>>,
         \A m : Excused(m) => Excused(m)',
         \A m \in finished : Excused(m)'
  PROVE  Settled'
<1>. DEFINE rest == Tail(task[t].queue)
            ended == [task EXCEPT ![t] = IdleTask]
<1>0. task \in [Task -> TaskState]
  BY DEF Local, TypeOK
<1>1. inflight' = inflight \/ inflight' = inflight \ finished
  BY DEF Settle
<1>2. /\ \A m \in task'[t].done : Excused(m)'
      /\ ~Answered(t)'
      /\ \A u \in Task \ {t} :
            /\ task'[u].done = task[u].done
            /\ Answered(u)' =>
                  Answered(u) /\ task'[u].queue = task[u].queue
  <2>1. CASE task' = [task EXCEPT ![t] = Bare("load", rest, finished, failed)]
    <3>1. /\ task'[t].done = finished /\ ~Answered(t)'
          /\ \A u \in Task \ {t} : task'[u] = task[u]
      BY <1>0, <2>1 DEF Bare, Answered
    <3>. QED
      BY <3>1 DEF Answered
  <2>2. CASE task' = ended
    <3>1. /\ task'[t] = IdleTask
          /\ \A u \in Task \ {t} : task'[u] = task[u]
      BY <1>0, <2>2
    <3>. QED
      BY <3>1, ResetTypes DEF Answered
  <2>3. CASE \E s \in Task : ended[s].pc = "idle" /\ task' = Restart(ended, timer, s)
    <3>1. PICK s \in Task : ended[s].pc = "idle" /\ task' = Restart(ended, timer, s)
      BY <2>3
    <3>2. t # timer
      BY DEF Local, OneTimer, Running
    <3>3. /\ task'[t].done = {} /\ ~Answered(t)'
          /\ \A u \in Task \ {t} : /\ task'[u].queue = task[u].queue
                                   /\ task'[u].done = task[u].done
                                   /\ Answered(u)' => Answered(u)
      BY <1>0, <3>1, <3>2, ResetTypes
      DEF Restart, Local, TaskShape, OneTimer, Answered
    <3>. QED
      BY <3>3
  <2>. QED
    BY <2>1, <2>2, <2>3 DEF Settle
<1>3. ReleaseIsExcused'
  BY <1>2 DEF Settled, ReleaseIsExcused, DeliveryHolds, Current
<1>4. NoSilentLoss'
  BY <1>1 DEF Settled, NoSilentLoss
<1>. QED
  BY <1>3, <1>4 DEF Settled

LEMMA SettledTask ==
  ASSUME Local, PauseHasTakeover, Settled, NEW t \in Task, TaskStep(t)
  PROVE  Settled'
<1>0. /\ task \in [Task -> TaskState] /\ replies \in [Mid -> Nat]
      /\ pauses \in Nat /\ lapsed \in Nat
  BY DEF Local, TypeOK
<1>1. CASE \/ TaskLoads(t) \/ TaskSavesProfile(t) \/ TaskResumes(t)
           \/ InitialiseSession(t) \/ AnswerAndReload(t)
           \/ ReadForHandover(t) \/ SaveHandover(t) \/ StoreMessages(t)
  <2>1. GoesOn(t)
    BY <1>1, BatchGoesOn DEF Local
  <2>2. /\ UNCHANGED <<pauses, crashes, replies, accepted, dropped>>
        /\ Answered(t)' => Answered(t)
    <3>1. CASE StoreMessages(t)
      BY <1>0, <3>1 DEF StoreMessages, Answered, clock, budget, history
    <3>2. CASE TaskResumes(t)
      BY <1>0, <3>2 DEF TaskResumes, Answered, clock, budget, history
    <3>3. CASE InitialiseSession(t)
      BY <1>0, <3>3 DEF InitialiseSession, Answered, clock, budget, history
    <3>4. CASE AnswerAndReload(t)
      <4>1. task'[t].pc = "reloaded"
        BY <1>0, <3>4 DEF AnswerAndReload, TaskState
      <4>. QED
        BY <3>4, <4>1 DEF AnswerAndReload, Answered, clock, history
    <3>5. CASE \/ TaskLoads(t) \/ TaskSavesProfile(t)
               \/ ReadForHandover(t) \/ SaveHandover(t)
      <4>1. task'[t].pc \in {"loaded", "profiled", "handover", "send"}
        BY <1>0, <3>5 DEF TaskLoads, TaskSavesProfile, ReadForHandover,
           SaveHandover, TaskState
      <4>. QED
        BY <3>5, <4>1 DEF TaskLoads, TaskSavesProfile, ReadForHandover,
           SaveHandover, Answered, clock, budget, history
    <3>. QED
      BY <1>1, <3>1, <3>2, <3>3, <3>4, <3>5
  <2>. QED
    BY <2>1, <2>2, SettledFrame DEF GoesOn, DeliveryHolds, Answered, Excused
<1>2. CASE SendAcknowledged(t) \/ SendUnacknowledged(t)
  <2>1. GoesOn(t)
    BY <1>2, BatchGoesOn DEF Local
  <2>2. PICK m \in Mid : m = Current(t)
    BY <2>1, CurrentInBatch DEF Local, GoesOn
  <2>3. /\ UNCHANGED <<pauses, crashes, accepted, dropped>>
        /\ replies' = [replies EXCEPT ![m] = @ + 1]
    BY <1>2, <2>2 DEF SendAcknowledged, SendUnacknowledged, clock, budget
  <2>4. Excused(m)' /\ \A x \in Mid : Excused(x) => Excused(x)'
    BY <1>0, <2>3 DEF Excused
  <2>5. Current(t)' = m
    BY <2>1, <2>2 DEF GoesOn, Current
  <2>6. \A u \in Task : Answered(u) => Current(u) \in Mid
    BY CurrentInBatch DEF Local, Answered, Running
  <2>7. /\ \A e \in Delivery : MidOf[e] \in Mid
        /\ \A u \in Task : task[u].done \subseteq Mid
    BY <1>0, MidOfAssumption DEF TaskState
  <2>8. ReleaseIsExcused'
    BY <2>1, <2>3, <2>4, <2>5, <2>6, <2>7
    DEF GoesOn, Settled, ReleaseIsExcused, DeliveryHolds, Answered, Current
  <2>9. NoSilentLoss'
    BY <2>1, <2>3, <2>4 DEF GoesOn, Settled, NoSilentLoss
  <2>. QED
    BY <2>8, <2>9 DEF Settled
<1>3. CASE TimerFires(t)
  <2>1. UNCHANGED <<inflight, delivery, pauses, crashes, replies, accepted,
                    dropped>>
    BY <1>3 DEF TimerFires, clock, budget, history
  <2>2. \A s \in Task : /\ task'[s].done \subseteq task[s].done
                        /\ Answered(s)' => task'[s] = task[s]
    BY <1>0, <1>3, ResetTypes DEF TimerFires, Bare, Answered
  <2>. QED
    BY <2>1, <2>2, SettledFrame DEF DeliveryHolds, Answered, Excused
<1>4. CASE Suppress(t)
  <2>1. pauses' > 0
    BY <1>0, <1>4 DEF Suppress, Paused, PauseHasTakeover, clock
  <2>. QED
    BY <2>1, SettledAnyway
<1>5. CASE \/ RetryUnacknowledged(t) \/ Fail(t) \/ Drop(t)
           \/ SaveConversation(t) \/ SaveFails(t)
  <2>1. BatchSettles(t)
    BY <1>5, SettlingSteps DEF Local
  <2>2. /\ Running(t) /\ task[t].done \in SUBSET Mid
        /\ task[t].failed \in Seq(Mid) /\ Current(t) \in Mid
    BY <2>1, CurrentInBatch DEF Local, BatchSettles
  <2>3. /\ UNCHANGED <<delivery, accepted>>
        /\ \A m : Excused(m) => Excused(m)'
    BY <1>5 DEF RetryUnacknowledged, Fail, Drop, SaveConversation, SaveFails,
       Excused, clock, budget, history
  <2>4. \A m \in task[t].done : Excused(m)'
    BY <2>3 DEF Settled, ReleaseIsExcused
  <2>5. CASE SettleFailed(t)
    <3>1. Append(task[t].failed, Current(t)) \in Seq(Mid)
      BY <2>2, AppendToQueue
    <3>. QED
      BY <2>2, <2>3, <2>4, <2>5, <3>1, SettledSettle DEF SettleFailed
  <2>6. PICK c \in Mid : c = Current(t)
    BY <2>2
  <2>7. CASE Excused(c)' /\ SettleDone(t)
    <3>1. /\ task[t].done \cup {Current(t)} \in SUBSET Mid
          /\ \A m \in task[t].done \cup {Current(t)} : Excused(m)'
      BY <2>2, <2>4, <2>6, <2>7
    <3>. QED
      BY <2>2, <2>3, <2>7, <3>1, SettledSettle DEF SettleDone
  <2>8. CASE Drop(t)
    <3>1. Excused(c)'
      BY <2>6, <2>8 DEF Drop, Excused
    <3>. QED
      BY <2>7, <2>8, <3>1 DEF Drop
  <2>9. CASE SaveConversation(t) \/ SaveFails(t)
    <3>1. Excused(c)
      BY <2>6, <2>9
      DEF Settled, ReleaseIsExcused, Answered, SaveConversation, SaveFails
    <3>. QED
      BY <2>3, <2>7, <2>9, <3>1 DEF SaveConversation, SaveFails
  <2>. QED
    BY <1>5, <2>5, <2>8, <2>9 DEF RetryUnacknowledged, Fail
<1>. QED
  BY <1>1, <1>2, <1>3, <1>4, <1>5 DEF TaskStep

LEMMA SettledInit == Init => Settled
BY ResetTypes DEF Init, Settled, ReleaseIsExcused, NoSilentLoss, DeliveryHolds,
   Answered

LEMMA SettledNext ==
  Local /\ Ownership /\ PauseHasTakeover /\ Settled /\ [Next]_vars => Settled'
<1>. SUFFICES ASSUME Local, Ownership, PauseHasTakeover, Settled, [Next]_vars
              PROVE  Settled'
  OBVIOUS
<1>0. pauses \in Nat /\ lapsed \in Nat /\ crashes \in Nat
  BY DEF Local, TypeOK
<1>1. CASE UNCHANGED vars
  BY <1>1, SettledFrame
  DEF vars, memory, clock, budget, history, DeliveryHolds, Answered, Excused
<1>2. CASE PauseLapses \/ Crash
  <2>1. pauses' > 0 \/ crashes' > 0
    BY <1>0, <1>2 DEF PauseLapses, Crash
  <2>. QED
    BY <2>1, SettledAnyway
<1>. QED
  BY <1>1, <1>2, SettledDelivery, SettledTakeover, SettledTask DEF Next

\* However deliveries, batches, retries and restarts interleave, no accepted
\* message is let go of in silence: it was answered, or Facebook refused it for
\* good, or staff took over, or the process died.
THEOREM NoSilentLossCorrect == Spec => []NoSilentLoss
<1>. SUFFICES Spec => [](Local /\ Ownership /\ PauseHasTakeover /\ Settled)
  BY PTL DEF Settled
<1>. QED
  BY LocalInit, LocalNext, OwnershipInit, OwnershipNext, PauseInit, PauseNext,
     SettledInit, SettledNext, PTL DEF Spec

\* IInv, which the model checker evaluates on small instances, is inductive.
THEOREM Inductive == Spec => []IInv
<1>1. IInv <=> Local /\ Ownership /\ Account /\ PauseHasTakeover /\ Settled
  BY DEF IInv, Local, Ownership, Account, Settled
<1>. QED
  BY <1>1, LocalInit, LocalNext, OwnershipInit, OwnershipNext, AccountInit,
     AccountNext, PauseInit, PauseNext, SettledInit, SettledNext, PTL DEF Spec

\* A message that was cancelled by a takeover, refused or finalized is not
\* answered: each step that shows a reply answers a mid in flight.
THEOREM ReplyOnlyInFlightCorrect == Spec => ReplyOnlyInFlight
<1>. DEFINE InFlight == \A m \in Mid : replies'[m] > replies[m] => m \in inflight
<1>1. Local /\ Ownership /\ [Next]_vars => [InFlight]_vars
  <2>. SUFFICES ASSUME Local, Ownership, Next,
                       NEW m \in Mid, replies'[m] > replies[m]
                PROVE  m \in inflight
    OBVIOUS
  <2>0. replies \in [Mid -> Nat]
    BY DEF Local, TypeOK
  <2>1. PICK t \in Task : SendAcknowledged(t) \/ SendUnacknowledged(t)
    <3>. USE DEF history
    <3>0. replies' # replies
      BY <2>0
    <3>1. ASSUME NEW d \in Delivery, LookUpDuplicate(d) \/ DeliveryStep(d)
          PROVE  FALSE
      BY <3>0, <3>1 DEF DeliveryStep, LookUpDuplicate, IgnoreDuplicate, Claim,
         DeliveryLoads, DeliverySavesProfile, DeliveryResumes, Refuse, Enqueue
    <3>2. ASSUME NEW a \in Takeover,
                 TakeoverLoads(a) \/ TakeoverFails(a) \/ TakeoverStep(a)
          PROVE  FALSE
      BY <3>0, <3>2 DEF TakeoverStep, TakeoverLoads, TakeoverPauses,
         TakeoverCancelsBuffer, TakeoverFails
    <3>3. ~PauseLapses /\ ~Crash
      BY <3>0 DEF PauseLapses, Crash
    <3>4. PICK t \in Task : TaskStep(t)
      BY <3>1, <3>2, <3>3 DEF Next
    <3>5. CASE \/ TimerFires(t) \/ TaskLoads(t) \/ TaskSavesProfile(t)
               \/ TaskResumes(t) \/ InitialiseSession(t)
               \/ AnswerAndReload(t) \/ ReadForHandover(t)
               \/ SaveHandover(t) \/ StoreMessages(t)
      BY <3>0, <3>5 DEF TimerFires, TaskLoads, TaskSavesProfile, TaskResumes,
         InitialiseSession, AnswerAndReload, ReadForHandover, SaveHandover,
         StoreMessages
    <3>6. CASE \/ Suppress(t) \/ RetryUnacknowledged(t) \/ Fail(t)
               \/ Drop(t) \/ SaveConversation(t) \/ SaveFails(t)
      BY <3>0, <3>6 DEF Suppress, RetryUnacknowledged, Fail, Drop,
         SaveConversation, SaveFails
    <3>. QED
      BY <3>4, <3>5, <3>6 DEF TaskStep
  <2>2. m = Current(t)
    BY <2>0, <2>1 DEF SendAcknowledged, SendUnacknowledged
  <2>3. Current(t) \in Range(task[t].queue)
    BY <2>1, BatchGoesOn, CurrentInBatch DEF Local, GoesOn
  <2>. QED
    BY <2>2, <2>3 DEF Ownership, OneHolder, Held, TaskMids
<1>2. Spec => [](Local /\ Ownership)
  BY LocalInit, LocalNext, OwnershipInit, OwnershipNext, PTL DEF Spec
<1>. QED
  BY <1>1, <1>2, PTL DEF Spec, ReplyOnlyInFlight

-----------------------------------------------------------------------------
(* The refinement of MessageLifecycle.                                      *)

\* A step of the lifecycle or a stutter.
LifecycleStep == [Lifecycle!Next]_(Lifecycle!vars)

\* Steps that neither take, release, close nor answer a message.
LEMMA StageStutters ==
  ASSUME UNCHANGED <<inflight, replies>>,
         \A m \in inflight : Closed(m)' <=> Closed(m)
  PROVE  LifecycleStep
<1>1. Stage' = Stage
  BY DEF Stage
<1>. QED
  BY <1>1 DEF LifecycleStep, Lifecycle!vars

\* Steps that let go of messages and leave the others where they are.
LEMMA StageReleases ==
  ASSUME NEW S \in SUBSET Mid, S \subseteq inflight,
         inflight' = inflight \ S, UNCHANGED replies,
         \A m \in inflight' : Closed(m)' <=> Closed(m)
  PROVE  LifecycleStep
<1>1. CASE S = {}
  BY <1>1, StageStutters
<1>2. CASE S # {}
  <2>1. \A m \in S : Stage[m] # "out"
    BY DEF Stage
  <2>2. Stage' = [m \in Mid |-> IF m \in S THEN "out" ELSE Stage[m]]
    BY DEF Stage
  <2>3. Lifecycle!Release(S)
    BY <2>1, <2>2 DEF Lifecycle!Release
  <2>. QED
    BY <1>2, <2>3 DEF LifecycleStep, Lifecycle!Next
<1>. QED
  BY <1>1, <1>2

\* Nobody but a task that holds a message closes it.
LEMMA ClosedIsHeld ==
  ASSUME Local, NEW m \in Mid, NEW t \in Task,
         m \in task[t].done \/ (Answered(t) /\ m = Current(t))
  PROVE  m \in TaskMids(t)
<1>1. CASE m \in task[t].done
  BY <1>1 DEF TaskMids
<1>2. CASE Answered(t) /\ m = Current(t)
  <2>1. Running(t)
    BY <1>2 DEF Answered, Running
  <2>. QED
    BY <1>2, <2>1, CurrentInBatch DEF Local, TaskMids
<1>. QED
  BY <1>1, <1>2

\* A task that moves no message and stays as answered as it was closes none.
LEMMA ClosedFrame ==
  ASSUME \A t \in Task : /\ task'[t].queue = task[t].queue
                         /\ task'[t].done = task[t].done
                         /\ Answered(t)' <=> Answered(t),
         NEW m
  PROVE  Closed(m)' <=> Closed(m)
BY DEF Closed, Current

LEMMA LifecycleDelivery ==
  ASSUME Local, Ownership, NEW d \in Delivery,
         LookUpDuplicate(d) \/ DeliveryStep(d)
  PROVE  LifecycleStep
<1>0. MidOf[d] \in Mid /\ task \in [Task -> TaskState]
  BY MidOfAssumption DEF Local, TypeOK
<1>1. CASE \/ LookUpDuplicate(d) \/ IgnoreDuplicate(d) \/ DeliveryLoads(d)
           \/ DeliverySavesProfile(d) \/ DeliveryResumes(d)
  <2>1. UNCHANGED <<inflight, replies, task>>
    BY <1>1 DEF LookUpDuplicate, IgnoreDuplicate, DeliveryLoads,
       DeliverySavesProfile, DeliveryResumes, history
  <2>2. \A m \in inflight : Closed(m)' <=> Closed(m)
    BY <2>1 DEF Closed, Answered, Current
  <2>. QED
    BY <2>1, <2>2, StageStutters
<1>2. CASE Claim(d)
  <2>1. /\ MidOf[d] \notin inflight /\ inflight' = inflight \cup {MidOf[d]}
        /\ UNCHANGED <<replies, task>>
    BY <1>2 DEF Claim, history
  <2>2. ~Closed(MidOf[d])
    BY <1>0, <2>1, ClosedIsHeld DEF Closed, Ownership, OneHolder, Held
  <2>3. \A m \in Mid : Closed(m)' <=> Closed(m)
    BY <2>1 DEF Closed, Answered, Current
  <2>4. /\ Stage[MidOf[d]] = "out"
        /\ Stage' = [Stage EXCEPT ![MidOf[d]] = "open"]
    BY <1>0, <2>1, <2>2, <2>3 DEF Stage
  <2>5. Lifecycle!Accept(MidOf[d])
    BY <2>1, <2>4 DEF Lifecycle!Accept
  <2>. QED
    BY <1>0, <2>5 DEF LifecycleStep, Lifecycle!Next
<1>3. CASE Refuse(d)
  <2>1. /\ inflight' = inflight \ {MidOf[d]} /\ UNCHANGED <<replies, task>>
        /\ DeliveryHolds(d)
    BY <1>3 DEF Refuse, DeliveryHolds, history
  <2>2. MidOf[d] \in inflight
    BY <1>0, <2>1 DEF Ownership, OneHolder, Held
  <2>3. \A m \in inflight' : Closed(m)' <=> Closed(m)
    BY <2>1 DEF Closed, Answered, Current
  <2>. DEFINE S == {MidOf[d]}
  <2>4. S \in SUBSET Mid /\ S \subseteq inflight /\ inflight' = inflight \ S
    BY <1>0, <2>1, <2>2
  <2>. HIDE DEF S
  <2>. QED
    BY <2>1, <2>3, <2>4, StageReleases
<1>4. CASE Enqueue(d)
  <2>1. UNCHANGED <<inflight, replies>>
    BY <1>4 DEF Enqueue
  <2>2. PICK t \in Task : task[t].pc = "idle" /\ task' = Restart(task, timer, t)
    BY <1>4 DEF Enqueue
  <2>3. \A s \in Task : /\ task'[s].queue = task[s].queue
                        /\ task'[s].done = task[s].done
                        /\ Answered(s)' <=> Answered(s)
    BY <1>0, <2>2, ResetTypes
    DEF Restart, Local, TaskShape, OneTimer, Answered
  <2>4. \A m \in inflight : Closed(m)' <=> Closed(m)
    BY <2>3, ClosedFrame
  <2>. QED
    BY <2>1, <2>4, StageStutters
<1>. QED
  BY <1>1, <1>2, <1>3, <1>4 DEF DeliveryStep

LEMMA LifecycleCancel ==
  ASSUME Local, Ownership, NEW a \in Takeover, TakeoverCancelsBuffer(a)
  PROVE  LifecycleStep
<1>1. /\ inflight' = inflight \ Range(buffer) /\ UNCHANGED replies
      /\ Range(buffer) \in SUBSET Mid
  BY QueueMembers DEF TakeoverCancelsBuffer, history, Local, TypeOK
<1>2. Range(buffer) \subseteq inflight
  BY <1>1 DEF Ownership, OneHolder, Held
<1>3. \A t \in Task : /\ task'[t].queue = task[t].queue
                      /\ task'[t].done = task[t].done
                      /\ Answered(t)' <=> Answered(t)
  BY ResetTypes
  DEF TakeoverCancelsBuffer, Local, TypeOK, TaskShape, OneTimer, Answered
<1>4. \A m \in inflight' : Closed(m)' <=> Closed(m)
  BY <1>3, ClosedFrame
<1>. QED
  BY <1>1, <1>2, <1>4, StageReleases

LEMMA LifecycleCrash ==
  ASSUME Local, Crash
  PROVE  LifecycleStep
<1>1. /\ inflight \in SUBSET Mid /\ inflight' = inflight \ inflight
      /\ UNCHANGED replies /\ inflight' = {}
  BY DEF Crash, Local, TypeOK, history
<1>. QED
  BY <1>1, StageReleases

\* The current message of an unanswered batch is open.
LEMMA CurrentIsOpen ==
  ASSUME Local, Ownership, NEW t \in Task, Running(t), ~Answered(t)
  PROVE  Current(t) \in inflight /\ ~Closed(Current(t))
<1>1. /\ Current(t) \in Mid /\ Current(t) \in Range(task[t].queue)
  BY CurrentInBatch DEF Local
<1>2. Current(t) \in TaskMids(t) /\ Current(t) \notin task[t].done
  BY <1>1 DEF TaskMids, Ownership, BatchShape
<1>3. Current(t) \in inflight
  BY <1>1, <1>2 DEF Ownership, OneHolder, Held
<1>4. ASSUME NEW u \in Task,
             Current(t) \in task[u].done
               \/ (Answered(u) /\ Current(t) = Current(u))
      PROVE  FALSE
  <2>1. Current(t) \in TaskMids(u)
    BY <1>1, <1>4, ClosedIsHeld
  <2>2. u = t
    BY <1>2, <2>1 DEF Ownership, OneHolder
  <2>. QED
    BY <1>2, <1>4, <2>2
<1>. QED
  BY <1>3, <1>4 DEF Closed

LEMMA LifecycleSend ==
  ASSUME Local, Ownership, NEW t \in Task,
         SendAcknowledged(t) \/ SendUnacknowledged(t)
  PROVE  LifecycleStep
<1>1. /\ GoesOn(t) /\ task \in [Task -> TaskState] /\ ~Answered(t)
      /\ replies \in [Mid -> Nat]
  BY BatchGoesOn DEF Local, TypeOK, SendAcknowledged, SendUnacknowledged,
     Sending, Answered
<1>2. PICK m \in Mid : m = Current(t)
  BY <1>1, CurrentInBatch DEF Local, GoesOn
<1>3. m \in inflight /\ ~Closed(m) /\ Stage[m] = "open"
  BY <1>1, <1>2, CurrentIsOpen DEF GoesOn, Stage
<1>4. /\ UNCHANGED inflight /\ Current(t)' = m
      /\ replies' = [replies EXCEPT ![m] = @ + 1]
  BY <1>1, <1>2 DEF GoesOn, Current, SendAcknowledged, SendUnacknowledged
<1>5. CASE SendAcknowledged(t)
  <2>1. Answered(t)'
    BY <1>1, <1>5 DEF SendAcknowledged, Answered
  <2>2. Closed(m)' /\ \A x \in Mid \ {m} : Closed(x)' <=> Closed(x)
    BY <1>1, <1>2, <1>4, <2>1 DEF Closed, GoesOn, Answered, Current
  <2>3. Stage' = [Stage EXCEPT ![m] = "closed"]
    BY <1>3, <1>4, <2>2 DEF Stage
  <2>4. Lifecycle!Answer(m)
    BY <1>3, <1>4, <2>3 DEF Lifecycle!Answer
  <2>. QED
    BY <2>4 DEF LifecycleStep, Lifecycle!Next
<1>6. CASE SendUnacknowledged(t)
  <2>1. ~Answered(t)'
    BY <1>1, <1>6 DEF SendUnacknowledged, Answered
  <2>2. \A x \in Mid : Closed(x)' <=> Closed(x)
    BY <1>1, <2>1 DEF Closed, GoesOn, Answered, Current
  <2>3. Stage' = Stage
    BY <1>4, <2>2 DEF Stage
  <2>4. Lifecycle!AnswerUnseen(m)
    BY <1>3, <1>4, <2>3 DEF Lifecycle!AnswerUnseen
  <2>. QED
    BY <2>4 DEF LifecycleStep, Lifecycle!Next
<1>. QED
  BY <1>5, <1>6

\* A batch that decides its current message closes it or leaves it open; at
\* its end it lets go of the messages it finished.
LEMMA LifecycleSettle ==
  ASSUME Local, Ownership, NEW t \in Task, Running(t),
         NEW finished \in SUBSET Mid, NEW failed \in Seq(Mid),
         Settle(t, finished, failed),
         UNCHANGED replies,
         \/ finished = task[t].done \cup {Current(t)}
         \/ finished = task[t].done /\ ~Answered(t)
  PROVE  LifecycleStep
<1>. DEFINE rest == Tail(task[t].queue)
            ended == [task EXCEPT ![t] = IdleTask]
<1>0. /\ task \in [Task -> TaskState]
      /\ \A m \in finished : m \in TaskMids(t)
      /\ finished \subseteq inflight
  <2>1. Current(t) \in Range(task[t].queue)
    BY CurrentInBatch DEF Local
  <2>2. \A m \in finished : m \in TaskMids(t)
    BY <2>1 DEF TaskMids
  <2>. QED
    BY <2>2 DEF Ownership, OneHolder, Held, Local, TypeOK
<1>1. PICK c \in Mid : c = Current(t)
  BY CurrentInBatch DEF Local
<1>2. CASE /\ rest # <<>>
           /\ task' = [task EXCEPT ![t] = Bare("load", rest, finished, failed)]
           /\ UNCHANGED <<inflight, buffer, timer>>
  <2>1. /\ task'[t].done = finished /\ ~Answered(t)'
        /\ \A u \in Task \ {t} : task'[u] = task[u]
    BY <1>0, <1>2 DEF Bare, Answered
  <2>2. CASE Answered(t) \/ finished = task[t].done
    <3>1. \A m \in inflight : Closed(m)' <=> Closed(m)
      BY <2>1, <2>2 DEF Closed, Answered, Current
    <3>. QED
      BY <1>2, <3>1, StageStutters
  <2>3. CASE ~Answered(t) /\ finished = task[t].done \cup {Current(t)}
    <3>1. c \in inflight /\ ~Closed(c)
      BY <1>1, <2>3, CurrentIsOpen
    <3>2. Closed(c)' /\ \A m \in Mid \ {c} : Closed(m)' <=> Closed(m)
      BY <1>1, <2>1, <2>3 DEF Closed, Answered, Current
    <3>3. Stage[c] = "open" /\ Stage' = [Stage EXCEPT ![c] = "closed"]
      BY <1>2, <3>1, <3>2 DEF Stage
    <3>4. Lifecycle!Close(c)
      BY <3>3 DEF Lifecycle!Close
    <3>. QED
      BY <3>4 DEF LifecycleStep, Lifecycle!Next
  <2>. QED
    BY <2>2, <2>3
<1>3. ASSUME inflight' = inflight \ finished,
             task'[t].done = {}, ~Answered(t)',
             \A u \in Task \ {t} : /\ task'[u].queue = task[u].queue
                                   /\ task'[u].done = task[u].done
                                   /\ Answered(u)' <=> Answered(u)
      PROVE  LifecycleStep
  <2>1. \A m \in inflight' : Closed(m)' <=> Closed(m)
    BY <1>3 DEF Closed, Current
  <2>. QED
    BY <1>0, <1>3, <2>1, StageReleases
<1>4. CASE /\ rest = <<>> /\ failed = <<>>
           /\ inflight' = inflight \ finished
           /\ task' = ended
           /\ UNCHANGED <<buffer, timer>>
  <2>1. /\ task'[t] = IdleTask
        /\ \A u \in Task \ {t} : task'[u] = task[u]
    BY <1>0, <1>4
  <2>. QED
    BY <1>3, <1>4, <2>1, ResetTypes DEF Answered
<1>5. CASE /\ rest = <<>> /\ failed # <<>>
           /\ inflight' = inflight \ finished
           /\ buffer' = failed \o buffer
           /\ \E s \in Task : /\ ended[s].pc = "idle"
                              /\ timer' = s
                              /\ task' = Restart(ended, timer, s)
  <2>1. PICK s \in Task : /\ ended[s].pc = "idle"
                          /\ task' = Restart(ended, timer, s)
    BY <1>5
  <2>2. t # timer
    BY DEF Local, OneTimer, Running
  <2>3. /\ task'[t].done = {} /\ ~Answered(t)'
        /\ \A u \in Task \ {t} : /\ task'[u].queue = task[u].queue
                                 /\ task'[u].done = task[u].done
                                 /\ Answered(u)' <=> Answered(u)
    BY <1>0, <2>1, <2>2, ResetTypes
    DEF Restart, Local, TaskShape, OneTimer, Answered
  <2>. QED
    BY <1>3, <1>5, <2>3
<1>. QED
  BY <1>2, <1>4, <1>5 DEF Settle

LEMMA LifecycleTask ==
  ASSUME Local, Ownership, NEW t \in Task, TaskStep(t)
  PROVE  LifecycleStep
<1>0. task \in [Task -> TaskState]
  BY DEF Local, TypeOK
<1>1. CASE \/ TaskLoads(t) \/ TaskSavesProfile(t) \/ TaskResumes(t)
           \/ InitialiseSession(t) \/ AnswerAndReload(t)
           \/ ReadForHandover(t) \/ SaveHandover(t) \/ StoreMessages(t)
  <2>1. GoesOn(t)
    BY <1>1, BatchGoesOn DEF Local
  <2>2. UNCHANGED replies /\ (Answered(t)' <=> Answered(t))
    <3>1. CASE StoreMessages(t)
      BY <1>0, <3>1 DEF StoreMessages, Answered, history
    <3>2. CASE TaskResumes(t)
      BY <1>0, <3>2 DEF TaskResumes, Answered, history
    <3>3. CASE ~StoreMessages(t) /\ ~TaskResumes(t)
      <4>1. UNCHANGED replies /\ ~Answered(t)
        BY <1>1, <3>3 DEF TaskLoads, TaskSavesProfile, InitialiseSession,
           AnswerAndReload, ReadForHandover, SaveHandover, Forwarding,
           Answered, history
      <4>2. task'[t].pc \in {"loaded", "profiled", "reloaded", "handover", "send"}
        <5>1. CASE AnswerAndReload(t)
          BY <1>0, <5>1 DEF AnswerAndReload, TaskState
        <5>2. CASE InitialiseSession(t)
          BY <1>0, <5>2 DEF InitialiseSession, TaskState
        <5>3. CASE \/ TaskLoads(t) \/ TaskSavesProfile(t)
                   \/ ReadForHandover(t) \/ SaveHandover(t)
          BY <1>0, <5>3
          DEF TaskLoads, TaskSavesProfile, ReadForHandover, SaveHandover, TaskState
        <5>. QED
          BY <1>1, <3>3, <5>1, <5>2, <5>3
      <4>. QED
        BY <4>1, <4>2 DEF Answered
    <3>. QED
      BY <3>1, <3>2, <3>3
  <2>3. \A u \in Task : /\ task'[u].queue = task[u].queue
                        /\ task'[u].done = task[u].done
                        /\ Answered(u)' <=> Answered(u)
    BY <2>1, <2>2 DEF GoesOn, Answered
  <2>4. \A m \in inflight : Closed(m)' <=> Closed(m)
    BY <2>3, ClosedFrame
  <2>. QED
    BY <2>1, <2>2, <2>4, StageStutters DEF GoesOn
<1>2. CASE SendAcknowledged(t) \/ SendUnacknowledged(t)
  BY <1>2, LifecycleSend
<1>3. CASE TimerFires(t)
  <2>1. /\ t = timer /\ buffer # <<>> /\ task[t] = SleepingTask
        /\ UNCHANGED <<inflight, replies>>
    BY <1>3, NoTaskAssumption
    DEF Local, TypeOK, TaskShape, OneTimer, TimerFires, history
  <2>2. task' = [task EXCEPT ![t] = Bare("load", buffer, {}, <<>>)]
    BY <1>3, <2>1 DEF TimerFires
  <2>3. /\ task'[t].done = {} /\ task[t].done = {}
        /\ ~Answered(t)' /\ ~Answered(t)
        /\ \A u \in Task \ {t} : task'[u] = task[u]
    BY <1>0, <2>1, <2>2, ResetTypes DEF Bare, Answered
  <2>4. \A m \in inflight : Closed(m)' <=> Closed(m)
    BY <2>3 DEF Closed, Answered, Current
  <2>. QED
    BY <2>1, <2>4, StageStutters
<1>4. CASE \/ Suppress(t) \/ RetryUnacknowledged(t) \/ Fail(t) \/ Drop(t)
           \/ SaveConversation(t) \/ SaveFails(t)
  <2>1. /\ BatchSettles(t) /\ UNCHANGED replies
        /\ SettleDone(t) \/ (SettleFailed(t) /\ ~Answered(t))
    BY <1>4, SettlingSteps DEF Local, Suppress, RetryUnacknowledged, Fail, Drop,
       SaveConversation, SaveFails, Answered, history
  <2>2. /\ Running(t) /\ task[t].done \in SUBSET Mid
        /\ task[t].failed \in Seq(Mid) /\ Current(t) \in Mid
    BY <2>1, CurrentInBatch DEF Local, BatchSettles
  <2>3. CASE SettleDone(t)
    <3>1. task[t].done \cup {Current(t)} \in SUBSET Mid
      BY <2>2
    <3>. QED
      BY <2>1, <2>2, <2>3, <3>1, LifecycleSettle DEF SettleDone
  <2>4. CASE SettleFailed(t) /\ ~Answered(t)
    <3>1. Append(task[t].failed, Current(t)) \in Seq(Mid)
      BY <2>2, AppendToQueue
    <3>. QED
      BY <2>1, <2>2, <2>4, <3>1, LifecycleSettle DEF SettleFailed
  <2>. QED
    BY <2>1, <2>3, <2>4
<1>. QED
  BY <1>1, <1>2, <1>3, <1>4 DEF TaskStep

\* The webhook implements the lifecycle of its messages: through any
\* buffering, retry, takeover and restart a message is accepted, answered at
\* most once per acceptance (apart from replies whose acknowledgement was
\* lost) and released, and a released message stays silent.
THEOREM LifecycleImplemented == Spec => ImplementsLifecycle
<1>1. Init => Lifecycle!Init
  <2>. SUFFICES ASSUME Init PROVE Lifecycle!Init
    OBVIOUS
  <2>1. Stage = [m \in Mid |-> "out"]
    BY DEF Init, Stage
  <2>. QED
    BY <2>1 DEF Init, Lifecycle!Init
<1>2. Local /\ Ownership /\ [Next]_vars => LifecycleStep
  <2>. SUFFICES ASSUME Local, Ownership, [Next]_vars PROVE LifecycleStep
    OBVIOUS
  <2>1. CASE UNCHANGED <<inflight, replies, task>>
    <3>1. \A m \in inflight : Closed(m)' <=> Closed(m)
      BY <2>1 DEF Closed, Answered, Current
    <3>. QED
      BY <2>1, <3>1, StageStutters
  <2>2. ASSUME NEW d \in Delivery, LookUpDuplicate(d) \/ DeliveryStep(d)
        PROVE  LifecycleStep
    BY <2>2, LifecycleDelivery
  <2>3. ASSUME NEW a \in Takeover,
               TakeoverLoads(a) \/ TakeoverFails(a) \/ TakeoverStep(a)
        PROVE  LifecycleStep
    BY <2>1, <2>3, LifecycleCancel DEF TakeoverStep, TakeoverLoads,
       TakeoverFails, TakeoverPauses, history
  <2>4. ASSUME NEW t \in Task, TaskStep(t)
        PROVE  LifecycleStep
    BY <2>4, LifecycleTask
  <2>5. CASE PauseLapses \/ UNCHANGED vars
    BY <2>1, <2>5 DEF PauseLapses, vars, memory, history
  <2>6. CASE Crash
    BY <2>6, LifecycleCrash
  <2>. QED
    BY <2>2, <2>3, <2>4, <2>5, <2>6 DEF Next
<1>3. Spec => [](Local /\ Ownership)
  BY LocalInit, LocalNext, OwnershipInit, OwnershipNext, PTL DEF Spec
<1>. QED
  BY <1>1, <1>2, <1>3, PTL
  DEF Spec, ImplementsLifecycle, Lifecycle!Spec, LifecycleStep
=============================================================================
