------------------------ MODULE AiVersionUpgradeProofs ------------------------
(***************************************************************************)
(* Proofs about AiVersionUpgrade for any number of requests, rivals,       *)
(* versions, failures and deployments.  IInv is proved part by part: types *)
(* and the lock first, then the account of upgrades, the contexts and the  *)
(* sessions, each from the first two.                                      *)
(***************************************************************************)
EXTENDS AiVersionUpgrade, TLAPS

\* The empty queue holds nothing, once.
LEMMA EmptyQueue == Range(<<>>) = {} /\ IsInjective(<<>>)
  BY DEF Range, IsInjective

\* A non-empty queue is its head and its tail.
LEMMA QueueHeadTail ==
  ASSUME NEW S, NEW q \in Seq(S), q # <<>>
  PROVE  /\ Head(q) \in S
         /\ Tail(q) \in Seq(S)
         /\ Head(q) \in Range(q)
         /\ Range(q) = {Head(q)} \cup Range(Tail(q))
<1>1. /\ Head(q) \in S /\ Tail(q) \in Seq(S)
      /\ Head(q) = q[1] /\ Len(q) \in Nat /\ Len(q) # 0
      /\ Len(Tail(q)) = Len(q) - 1
      /\ \A i \in 1 .. Len(q) - 1 : Tail(q)[i] = q[i + 1]
      /\ DOMAIN Tail(q) = 1 .. Len(q) - 1
  OBVIOUS
<1>2. Range(q) = {q[i] : i \in 1 .. Len(q)}
  BY DEF Range
<1>3. Range(Tail(q)) = {Tail(q)[i] : i \in 1 .. Len(q) - 1}
  BY <1>1 DEF Range
<1>4. Head(q) \in Range(q)
  BY <1>1, <1>2
<1>5. Range(Tail(q)) \subseteq Range(q)
  BY <1>1, <1>2, <1>3
<1>6. ASSUME NEW x \in Range(q), x # Head(q)
      PROVE  x \in Range(Tail(q))
  <2>1. PICK i \in 1 .. Len(q) : x = q[i]
    BY <1>2
  <2>2. i # 1 /\ i - 1 \in 1 .. Len(q) - 1
    BY <2>1, <1>1, <1>6
  <2>3. Tail(q)[i - 1] = x
    BY <2>1, <2>2, <1>1
  <2>. QED
    BY <2>2, <2>3, <1>3
<1>. QED
  BY <1>1, <1>4, <1>5, <1>6

\* A queue that holds each element once holds its head nowhere else.
LEMMA InjectiveTail ==
  ASSUME NEW S, NEW q \in Seq(S), q # <<>>, IsInjective(q)
  PROVE  /\ Head(q) \notin Range(Tail(q))
         /\ IsInjective(Tail(q))
<1>1. /\ Head(q) = q[1] /\ Len(q) \in Nat /\ Len(q) # 0
      /\ Tail(q) \in Seq(S)
      /\ Len(Tail(q)) = Len(q) - 1
      /\ \A i \in 1 .. Len(q) - 1 : Tail(q)[i] = q[i + 1]
      /\ DOMAIN q = 1 .. Len(q)
      /\ DOMAIN Tail(q) = 1 .. Len(q) - 1
  OBVIOUS
<1>2. \A i, j \in 1 .. Len(q) : q[i] = q[j] => i = j
  BY <1>1 DEF IsInjective
<1>3. Head(q) \notin Range(Tail(q))
  <2>. SUFFICES ASSUME NEW i \in 1 .. Len(q) - 1, Head(q) = Tail(q)[i]
                PROVE  FALSE
    BY <1>1 DEF Range
  <2>. QED
    BY <1>1, <1>2
<1>4. IsInjective(Tail(q))
  BY <1>1, <1>2 DEF IsInjective
<1>. QED
  BY <1>3, <1>4

\* Appending adds the new element, once if it is not there yet.
LEMMA AppendToQueue ==
  ASSUME NEW S, NEW q \in Seq(S), NEW x \in S
  PROVE  /\ Append(q, x) \in Seq(S)
         /\ Append(q, x) # <<>>
         /\ Range(Append(q, x)) = Range(q) \cup {x}
         /\ IsInjective(q) /\ x \notin Range(q) => IsInjective(Append(q, x))
<1>1. /\ Append(q, x) \in Seq(S) /\ Len(q) \in Nat
      /\ Len(Append(q, x)) = Len(q) + 1
      /\ \A i \in 1 .. Len(q) : Append(q, x)[i] = q[i]
      /\ Append(q, x)[Len(q) + 1] = x
      /\ DOMAIN q = 1 .. Len(q)
      /\ DOMAIN Append(q, x) = 1 .. Len(q) + 1
  OBVIOUS
<1>2. Range(Append(q, x)) = Range(q) \cup {x}
  <2>1. ASSUME NEW y \in Range(Append(q, x))
        PROVE  y \in Range(q) \cup {x}
    BY <1>1 DEF Range
  <2>2. ASSUME NEW y \in Range(q)
        PROVE  y \in Range(Append(q, x))
    <3>1. PICK i \in 1 .. Len(q) : y = q[i]
      BY <1>1 DEF Range
    <3>. QED
      BY <3>1, <1>1 DEF Range
  <2>3. x \in Range(Append(q, x))
    BY <1>1 DEF Range
  <2>. QED
    BY <2>1, <2>2, <2>3
<1>3. ASSUME IsInjective(q), x \notin Range(q)
      PROVE  IsInjective(Append(q, x))
  BY <1>1, <1>3 DEF IsInjective, Range
<1>. QED
  BY <1>1, <1>2, <1>3

-----------------------------------------------------------------------------
(* Types.                                                                   *)

\* A whole-document save stores the copy.
LEMMA SaveTypes ==
  ASSUME TypeOK, NEW c \in Doc, Save(c)
  PROVE  doc' \in Doc /\ rollbacks' \in Nat
BY DEF TypeOK, Save

\* The fields of a well-typed request.
LEMMA RequestFields ==
  ASSUME TypeOK, NEW r \in Request
  PROVE  /\ req[r] \in RequestState
         /\ req[r].pc \in RequestPC /\ req[r].copy \in Doc /\ req[r].user \in User
         /\ req[r].copy.version \in Version /\ req[r].copy.init \in BOOLEAN
BY DEF TypeOK, RequestState, Doc

\* Versions are users, and the bare user is none of them.
LEMMA Versions ==
  /\ Version \subseteq User /\ 1 \in Version /\ Bare \in User /\ Bare \notin Version
  /\ \A u \in User : u \in Nat /\ (u # 0 => u \in Version)
BY VersionAssumption DEF Version, User, Bare

\* The program counters the actions name.
LEMMA Steps ==
  /\ {"new", "loaded", "waiting", "done", "reset", "init", "initsave", "context",
      "mark", "ready", "ensure", "ensuresave", "answered", "saving"} = RequestPC
BY DEF RequestPC, HeldPC, NormalPC

\* The initial states are well typed.
LEMMA TypeInit == Init => TypeOK
<1>. SUFFICES ASSUME Init PROVE TypeOK
  OBVIOUS
<1>1. system \in User
  BY Versions DEF Init
<1>2. doc \in Doc /\ initialised \subseteq User
  <2>1. CASE /\ doc = [version |-> IF system = 0 THEN 1 ELSE system, init |-> FALSE]
             /\ initialised = {}
    BY <1>1, <2>1, Versions DEF Doc
  <2>2. CASE /\ doc \in [version : {1}, init : BOOLEAN]
             /\ initialised = IF doc.init THEN {Bare} ELSE {}
    BY <2>2, Versions DEF Doc
  <2>. QED
    BY <2>1, <2>2 DEF Init
<1>3. born \in Version
  BY <1>2 DEF Init, Doc
<1>4. NoCopy \in Doc
  BY Versions DEF NoCopy, Doc
<1>5. req \in [Request -> RequestState]
  BY <1>4, Versions, Steps DEF Init, RequestState
<1>6. rival \in [Rival -> RivalState]
  BY <1>4 DEF Init, RivalState
<1>7. contexts \in [Version -> Nat] /\ lock \in Seq(Request)
  BY DEF Init
<1>. QED
  BY <1>1, <1>2, <1>3, <1>5, <1>6, <1>7 DEF Init, TypeOK

\* The head of the lock and those behind it.
LEMMA HolderReleases ==
  ASSUME TypeOK, LockShape, NEW r \in Request, Holds(r), Release(r)
  PROVE  /\ lock' \in Seq(Request) /\ IsInjective(lock')
         /\ Range(lock') = Range(lock) \ {r}
         /\ \A q \in Request \ {r} : req[q].pc \notin HeldPC
<1>1. /\ lock \in Seq(Request) /\ lock # <<>> /\ Head(lock) = r /\ lock' = Tail(lock)
      /\ IsInjective(lock)
  BY DEF TypeOK, LockShape, Holds, Release
<1>2. /\ Tail(lock) \in Seq(Request)
      /\ Range(lock) = {r} \cup Range(Tail(lock))
      /\ r \notin Range(Tail(lock)) /\ IsInjective(Tail(lock))
  BY <1>1, QueueHeadTail, InjectiveTail
<1>3. \A q \in Request \ {r} : req[q].pc \notin HeldPC
  BY <1>1 DEF LockShape, Holds
<1>. QED
  BY <1>1, <1>2, <1>3

\* The copy after the second look at the conversation.
LEMMA Rereading ==
  ASSUME TypeOK, NEW r \in Request, ReloadBeforeSend(r)
  PROVE  \E pc \in {"saving", "done"}, c \in {doc, req[r].copy} :
            req' = [req EXCEPT ![r].pc = pc, ![r].copy = c]
<1>1. PICK pc \in {"saving", "done"} :
        \/ req' = [req EXCEPT ![r].pc = pc, ![r].copy = doc]
        \/ req' = [req EXCEPT ![r].pc = pc]
  BY DEF ReloadBeforeSend
<1>2. ASSUME req' = [req EXCEPT ![r].pc = pc]
      PROVE  req' = [req EXCEPT ![r].pc = pc, ![r].copy = req[r].copy]
  BY <1>2 DEF TypeOK, RequestState
<1>. QED
  BY <1>1, <1>2

\* A step of a request that keeps the rest well typed, too: all but the lock.
LEMMA TypeRequest ==
  ASSUME TypeOK, LockShape, NEW r \in Request, Load(r) \/ RequestStep(r)
  PROVE  TypeOK'
<1>1. /\ req[r] \in RequestState /\ req[r].copy \in Doc /\ req[r].user \in User
      /\ req[r].copy.version \in Version
  BY RequestFields
<1>2. /\ UserOf(req[r].copy) \in User /\ UserOf(doc) \in User
      /\ Bare \in User /\ system \in User
  BY <1>1, Versions DEF UserOf, TypeOK, Doc
<1>3. /\ [req[r].copy EXCEPT !.init = FALSE] \in Doc
      /\ [req[r].copy EXCEPT !.init = TRUE] \in Doc
  BY <1>1 DEF Doc
<1>4. Holds(r) /\ Release(r) => lock' \in Seq(Request)
  BY HolderReleases
<1>5. CASE Load(r)
  <2>1. PICK text \in BOOLEAN :
          req' = [req EXCEPT ![r].pc = "loaded", ![r].text = text, ![r].copy = doc]
    BY <1>5 DEF Load
  <2>2. req' \in [Request -> RequestState]
    BY ZenonT(40), <2>1, Steps DEF TypeOK, RequestState
  <2>. QED
    BY <2>2, <1>5 DEF Load, TypeOK, ai
<1>6. CASE KeepSession(r) \/ SkipUpgrade(r)
  <2>1. PICK u \in User : req' = [req EXCEPT ![r].pc = "ready", ![r].user = u]
    BY <1>6, <1>2 DEF KeepSession, SkipUpgrade
  <2>2. req' \in [Request -> RequestState]
    BY ZenonT(40), <2>1, Steps DEF TypeOK, RequestState
  <2>. QED
    BY <2>2, <1>6 DEF KeepSession, SkipUpgrade, TypeOK, ai
<1>7. CASE RequestLock(r)
  <2>1. req' \in [Request -> RequestState]
    BY <1>7, Steps DEF RequestLock, TypeOK, RequestState
  <2>. QED
    BY <2>1, <1>7 DEF RequestLock, TypeOK, ai
<1>8. CASE Reload(r) \/ ReloadFails(r)
  <2>1. PICK fresh \in Doc : Recheck(r, fresh)
    BY <1>1, <1>8 DEF Reload, ReloadFails, TypeOK
  <2>2. UserOf(fresh) \in User
    BY <1>2, Versions DEF UserOf, Doc
  <2>3. req' \in [Request -> RequestState]
    <3>1. CASE req' = [req EXCEPT ![r].pc = "reset", ![r].copy = fresh, ![r].user = system]
      BY ZenonT(40), <3>1, <1>2, Steps DEF TypeOK, RequestState
    <3>2. CASE req' = [req EXCEPT ![r].pc = "ready", ![r].copy = fresh,
                                  ![r].user = UserOf(fresh)]
      BY ZenonT(40), <3>2, <2>2, Steps DEF TypeOK, RequestState
    <3>. QED
      BY <3>1, <3>2, <2>1 DEF Recheck
  <2>4. lock' \in Seq(Request)
    BY <2>1, <1>4, <1>8 DEF Recheck, Reload, ReloadFails, TypeOK
  <2>. QED
    BY <2>3, <2>4, <1>8 DEF Reload, ReloadFails, TypeOK, ai
<1>9. CASE ResetInitialisation(r)
  <2>1. doc' \in Doc /\ rollbacks' \in Nat
    BY <1>9, <1>3, SaveTypes DEF ResetInitialisation
  <2>2. req' \in [Request -> RequestState]
    BY ZenonT(40), <1>9, <1>3, Steps DEF ResetInitialisation, TypeOK, RequestState
  <2>. QED
    BY <2>1, <2>2, <1>9 DEF ResetInitialisation, TypeOK, ai
<1>10. CASE AnswerInit(r)
  <2>1. req' \in [Request -> RequestState]
    BY ZenonT(40), <1>10, Steps DEF AnswerInit, TypeOK, RequestState
  <2>. QED
    BY <2>1, <1>1, <1>10 DEF AnswerInit, TypeOK, ai
<1>11. CASE SaveInit(r)
  <2>1. doc' \in Doc /\ rollbacks' \in Nat
    BY <1>11, <1>3, SaveTypes DEF SaveInit
  <2>2. req' \in [Request -> RequestState]
    BY <1>11, <1>3, Steps DEF SaveInit, TypeOK, RequestState
  <2>. QED
    BY <2>1, <2>2, <1>11 DEF SaveInit, TypeOK, ai
<1>12. ASSUME TellContext(r)
       PROVE  contexts' \in [Version -> Nat] /\ addressed' \subseteq User
              /\ initialised' \subseteq User /\ forwarded' \subseteq User
  <2>1. /\ contexts \in [Version -> Nat]
        /\ contexts' = [contexts EXCEPT ![req[r].user] = contexts[req[r].user] + 1]
    BY <1>12 DEF TellContext, TypeOK
  <2>2. contexts' \in [Version -> Nat]
    <3>1. CASE req[r].user \in Version
      BY <2>1, <3>1
    <3>2. CASE req[r].user \notin Version
      BY <2>1, <3>2
    <3>. QED
      BY <3>1, <3>2
  <2>. QED
    BY <2>2, <1>12, <1>1 DEF TellContext, TypeOK
<1>13. CASE AnswerContext(r)
  <2>1. req' \in [Request -> RequestState]
    BY <1>13, Steps DEF AnswerContext, TypeOK, RequestState
  <2>. QED
    BY <2>1, <1>12, <1>13 DEF AnswerContext, TypeOK, ai
<1>14. CASE MarkCompleted(r)
  <2>1. req[r].user = system /\ Older(req[r].copy) /\ Holds(r)
    BY <1>14 DEF MarkCompleted, LockShape, HeldPC
  <2>2. [req[r].copy EXCEPT !.version = req[r].user] \in Doc
    BY <2>1, <1>1, Versions DEF Doc, Older
  <2>3. doc' \in Doc /\ rollbacks' \in Nat
    BY <1>14, <2>2, SaveTypes DEF MarkCompleted
  <2>4. req' \in [Request -> RequestState]
    BY ZenonT(40), <1>14, <2>2, Steps DEF MarkCompleted, TypeOK, RequestState
  <2>5. lock' \in Seq(Request)
    BY <2>1, <1>4, <1>14 DEF MarkCompleted
  <2>. QED
    BY <2>3, <2>4, <2>5, <1>14 DEF MarkCompleted, TypeOK, ai
<1>15. CASE UpgradeFails(r)
  <2>1. req' \in [Request -> RequestState]
    BY <1>15, Steps DEF UpgradeFails, TypeOK, RequestState
  <2>2. lock' \in Seq(Request)
    BY <1>4, <1>15 DEF UpgradeFails, LockShape
  <2>3. contexts' \in [Version -> Nat] /\ addressed' \subseteq User
        /\ initialised' \subseteq User /\ forwarded' \subseteq User
    BY <1>12, <1>15 DEF UpgradeFails, TypeOK, ai
  <2>. QED
    BY <2>1, <2>2, <2>3, <1>15 DEF UpgradeFails, TypeOK
<1>16. CASE NeedInit(r) \/ GiveUp(r)
  <2>1. PICK pc \in {"ensure", "done"} : req' = [req EXCEPT ![r].pc = pc]
    BY <1>16 DEF NeedInit, GiveUp
  <2>2. req' \in [Request -> RequestState]
    BY <2>1, Steps DEF TypeOK, RequestState
  <2>. QED
    BY <2>2, <1>16 DEF NeedInit, GiveUp, TypeOK, ai
<1>17. CASE Forward(r)
  <2>1. req' \in [Request -> RequestState]
    BY ZenonT(40), <1>17, Steps DEF Forward, TypeOK, RequestState
  <2>. QED
    BY <2>1, <1>1, <1>17 DEF Forward, TypeOK
<1>18. CASE ReloadBeforeSend(r)
  <2>1. PICK pc \in {"saving", "done"}, c \in Doc :
          req' = [req EXCEPT ![r].pc = pc, ![r].copy = c]
    BY <1>1, <1>18, Rereading DEF TypeOK
  <2>2. req' \in [Request -> RequestState]
    BY ZenonT(40), <2>1, Steps DEF TypeOK, RequestState
  <2>3. failures' \in Nat
    BY <1>18 DEF ReloadBeforeSend, TypeOK
  <2>. QED
    BY <2>2, <2>3, <1>18 DEF ReloadBeforeSend, TypeOK, ai
<1>19. CASE SaveAfterReply(r)
  <2>1. doc' \in Doc /\ rollbacks' \in Nat
    BY <1>19, <1>1, SaveTypes DEF SaveAfterReply
  <2>2. req' \in [Request -> RequestState]
    BY <1>19, Steps DEF SaveAfterReply, TypeOK, RequestState
  <2>. QED
    BY <2>1, <2>2, <1>19 DEF SaveAfterReply, TypeOK, ai
<1>. QED
  BY <1>5, <1>6, <1>7, <1>8, <1>9, <1>10, <1>11, <1>13, <1>14, <1>15, <1>16,
     <1>17, <1>18, <1>19 DEF RequestStep

\* Rivals and deployments.
LEMMA TypeOther ==
  ASSUME TypeOK,
         Deploy \/ UNCHANGED vars \/ \E x \in Rival : RivalReads(x) \/ RivalSaves(x)
  PROVE  TypeOK'
<1>1. CASE Deploy
  <2>1. req' \in [Request -> RequestState]
    BY <1>1, Steps DEF Deploy, TypeOK, RequestState
  <2>2. rival' \in [Rival -> RivalState]
    BY <1>1 DEF Deploy, TypeOK, RivalState
  <2>. QED
    BY <2>1, <2>2, <1>1 DEF Deploy, TypeOK, ai
<1>2. CASE UNCHANGED vars
  BY <1>2 DEF vars, ai, TypeOK
<1>3. CASE \E x \in Rival : RivalReads(x)
  <2>1. PICK x \in Rival : RivalReads(x)
    BY <1>3
  <2>2. rival' \in [Rival -> RivalState]
    BY <2>1 DEF RivalReads, TypeOK, RivalState
  <2>. QED
    BY <2>1, <2>2 DEF RivalReads, TypeOK, ai
<1>4. CASE \E x \in Rival : RivalSaves(x)
  <2>1. PICK x \in Rival : RivalSaves(x)
    BY <1>4
  <2>2. rival' \in [Rival -> RivalState]
    BY <2>1 DEF RivalSaves, TypeOK, RivalState
  <2>3. rival[x].copy \in Doc
    BY DEF TypeOK, RivalState
  <2>4. doc' \in Doc /\ rollbacks' \in Nat
    BY <2>1, <2>3, SaveTypes DEF RivalSaves
  <2>. QED
    BY <2>1, <2>2, <2>4 DEF RivalSaves, TypeOK, ai
<1>. QED
  BY <1>1, <1>2, <1>3, <1>4
-----------------------------------------------------------------------------
(* The lock.                                                                *)

Inside == {"waiting"} \cup HeldPC

\* A step that leaves the lock alone and moves one request, on the same side
\* of it and with the same session and version, keeps its shape.
LEMMA LockKept ==
  ASSUME TypeOK, LockShape, NEW r \in Request, NEW s \in RequestState,
         lock' = lock, system' = system, req' = [req EXCEPT ![r] = s],
         s.pc \in Inside <=> req[r].pc \in Inside,
         s.pc \in HeldPC => /\ s.user = system /\ Older(s.copy)
                            /\ Holds(r)
  PROVE  LockShape'
<1>1. req'[r] = s /\ \A q \in Request \ {r} : req'[q] = req[q]
  BY DEF TypeOK
<1>2. \A q \in Request : Holds(q)' <=> Holds(q)
  BY DEF Holds
<1>3. \A c : Older(c)' <=> Older(c)
  BY DEF Older
<1>4. ASSUME NEW q \in Request
      PROVE  /\ q \in Range(lock') <=> req'[q].pc \in Inside
             /\ req'[q].pc \in HeldPC => Holds(q)' /\ req'[q].user = system'
             /\ req'[q].pc \in HeldPC => Older(req[q].copy)'
  <2>1. CASE q = r
    BY <2>1, <1>1, <1>2, <1>3 DEF LockShape, Inside
  <2>2. CASE q # r
    BY <2>2, <1>1, <1>2, <1>3 DEF LockShape, Inside
  <2>. QED
    BY <2>1, <2>2
<1>. QED
  BY <1>4 DEF LockShape, Inside

\* So does one in which the holder leaves it.
LEMMA LockReleased ==
  ASSUME TypeOK, LockShape, NEW r \in Request, NEW s \in RequestState,
         Holds(r), Release(r), system' = system, req' = [req EXCEPT ![r] = s],
         s.pc \notin Inside
  PROVE  LockShape'
<1>1. req'[r] = s /\ \A q \in Request \ {r} : req'[q] = req[q]
  BY DEF TypeOK
<1>2. /\ IsInjective(lock') /\ Range(lock') = Range(lock) \ {r}
      /\ \A q \in Request \ {r} : req[q].pc \notin HeldPC
  BY HolderReleases
<1>3. ASSUME NEW q \in Request
      PROVE  /\ q \in Range(lock') <=> req'[q].pc \in Inside
             /\ req'[q].pc \notin HeldPC
  <2>1. CASE q = r
    BY <2>1, <1>1, <1>2 DEF Inside
  <2>2. CASE q # r
    BY <2>2, <1>1, <1>2 DEF LockShape, Inside
  <2>. QED
    BY <2>1, <2>2
<1>. QED
  BY <1>2, <1>3 DEF LockShape, Inside

\* The steps outside and inside the lock.
LEMMA Sides ==
  /\ Inside = {"waiting", "reset", "init", "initsave", "context", "mark"}
  /\ HeldPC = {"reset", "init", "initsave", "context", "mark"}
BY DEF Inside, HeldPC

\* The version of a copy decides whether it is older.
LEMMA OlderVersion ==
  ASSUME NEW c, NEW d, c.version = d.version, Older(c)
  PROVE  Older(d)
BY DEF Older

\* Every step of a request keeps the lock's shape,
LEMMA LockRequest ==
  ASSUME TypeOK, LockShape, NEW r \in Request, Load(r) \/ RequestStep(r)
  PROVE  LockShape'
<1>1. /\ req[r] \in RequestState /\ req[r].copy \in Doc /\ req \in [Request -> RequestState]
      /\ req[r].pc \in RequestPC
  BY RequestFields DEF TypeOK
<1>2. req[r].pc \in HeldPC => Holds(r) /\ req[r].user = system /\ Older(req[r].copy)
  BY DEF LockShape
<1>3. TypeOK' /\ req'[r] \in RequestState
  BY TypeRequest DEF TypeOK
<1>4. CASE req' = [req EXCEPT ![r] = req'[r]] /\ lock' = lock /\ system' = system
           /\ req'[r].pc \notin Inside /\ req[r].pc \notin Inside
  BY <1>3, <1>4, LockKept DEF Inside
<1>5. CASE Load(r)
  <2>1. PICK text \in BOOLEAN :
          req' = [req EXCEPT ![r].pc = "loaded", ![r].text = text, ![r].copy = doc]
    BY <1>5 DEF Load
  <2>2. req' = [req EXCEPT ![r] = req'[r]] /\ req'[r].pc = "loaded"
    BY <2>1, <1>1 DEF RequestState
  <2>. QED
    BY <1>5, <2>2, <1>4, Sides DEF Load
<1>6. CASE \/ KeepSession(r) \/ SkipUpgrade(r) \/ NeedInit(r) \/ Forward(r)
           \/ SaveAfterReply(r)
  <2>1. /\ req' = [req EXCEPT ![r] = req'[r]]
        /\ req'[r].pc \in NormalPC \cup {"done"} /\ lock' = lock /\ system' = system
        /\ req[r].pc \in NormalPC \cup {"loaded"}
    BY <1>6, <1>1
       DEF KeepSession, SkipUpgrade, NeedInit, Forward, SaveAfterReply, RequestState, NormalPC
  <2>. QED
    BY <2>1, <1>4, Sides DEF NormalPC
<1>7. CASE GiveUp(r) \/ ReloadBeforeSend(r)
  <2>1. /\ req' = [req EXCEPT ![r] = req'[r]]
        /\ req'[r].pc \in {"saving", "done"} /\ lock' = lock /\ system' = system
        /\ req[r].pc \in NormalPC
    <3>1. CASE GiveUp(r)
      BY <3>1, <1>1 DEF GiveUp, RequestState, NormalPC
    <3>2. CASE ReloadBeforeSend(r)
      <4>1. PICK pc \in {"saving", "done"}, c \in {doc, req[r].copy} :
              req' = [req EXCEPT ![r].pc = pc, ![r].copy = c]
        BY <3>2, Rereading
      <4>. QED
        BY <4>1, <3>2, <1>1 DEF ReloadBeforeSend, RequestState, NormalPC
    <3>. QED
      BY <1>7, <3>1, <3>2
  <2>. QED
    BY <2>1, <1>4, Sides DEF NormalPC
<1>8. CASE RequestLock(r)
  <2>1. /\ req'[r].pc = "waiting" /\ \A q \in Request \ {r} : req'[q] = req[q]
        /\ req[r].pc = "loaded" /\ lock' = Append(lock, r) /\ system' = system
    BY <1>8, <1>1 DEF RequestLock
  <2>2. lock \in Seq(Request) /\ r \notin Range(lock)
    BY <2>1 DEF TypeOK, LockShape, HeldPC
  <2>3. IsInjective(lock') /\ Range(lock') = Range(lock) \cup {r}
    BY <2>1, <2>2, AppendToQueue DEF LockShape
  <2>4. ASSUME NEW q \in Request, Holds(q) PROVE Holds(q)'
    BY <2>1, <2>2, <2>4 DEF Holds
  <2>5. ASSUME NEW q \in Request
        PROVE  /\ q \in Range(lock') <=> req'[q].pc \in Inside
               /\ req'[q].pc \in HeldPC => Holds(q)' /\ req'[q].user = system'
               /\ req'[q].pc \in HeldPC => Older(req[q].copy)'
    <3>1. CASE q = r
      BY <3>1, <2>1, <2>3, Sides
    <3>2. CASE q # r
      BY <3>2, <2>1, <2>3, <2>4 DEF LockShape, Inside, Older
    <3>. QED
      BY <3>1, <3>2
  <2>. QED
    BY <2>3, <2>5 DEF LockShape, Inside
<1>9. CASE Reload(r) \/ ReloadFails(r)
  <2>1. PICK fresh \in Doc : Recheck(r, fresh)
    BY <1>1, <1>9 DEF Reload, ReloadFails, TypeOK
  <2>2. req[r].pc = "waiting" /\ Holds(r) /\ system' = system
    BY <1>9 DEF Reload, ReloadFails
  <2>3. CASE /\ Older(fresh)
             /\ req' = [req EXCEPT ![r].pc = "reset", ![r].copy = fresh, ![r].user = system]
             /\ UNCHANGED lock
    <3>1. /\ req' = [req EXCEPT ![r] = req'[r]] /\ lock' = lock
          /\ req'[r].pc = "reset" /\ req'[r].user = system /\ req'[r].copy = fresh
      BY <2>3, <1>1 DEF RequestState
    <3>2. /\ req'[r].pc \in Inside <=> req[r].pc \in Inside
          /\ Older(req'[r].copy)
      BY <3>1, <2>2, <2>3, Sides
    <3>. QED
      BY <3>1, <3>2, <2>2, <1>3, LockKept
  <2>4. CASE /\ req' = [req EXCEPT ![r].pc = "ready", ![r].copy = fresh,
                                  ![r].user = UserOf(fresh)]
             /\ Release(r)
    <3>1. req' = [req EXCEPT ![r] = req'[r]] /\ req'[r].pc \notin Inside
      BY <2>4, <1>1, Sides DEF RequestState
    <3>. QED
      BY <3>1, <2>2, <2>4, <1>3, LockReleased
  <2>. QED
    BY <2>1, <2>3, <2>4 DEF Recheck
<1>10. CASE req' = [req EXCEPT ![r] = req'[r]] /\ lock' = lock /\ system' = system
            /\ req'[r].pc \in HeldPC /\ req[r].pc \in HeldPC
            /\ req'[r].user = req[r].user /\ req'[r].copy.version = req[r].copy.version
  <2>1. Older(req'[r].copy)
    BY <1>10, <1>2, OlderVersion
  <2>. QED
    BY <2>1, <1>2, <1>3, <1>10, LockKept DEF Inside
<1>11. CASE ResetInitialisation(r)
  BY <1>11, <1>10, <1>1, Sides DEF ResetInitialisation, RequestState, Doc
<1>12. CASE AnswerInit(r)
  BY <1>12, <1>10, <1>4, <1>1, Sides DEF AnswerInit, RequestState
<1>13. CASE SaveInit(r)
  BY <1>13, <1>10, <1>4, <1>1, Sides DEF SaveInit, RequestState, Doc
<1>14. CASE AnswerContext(r)
  BY <1>14, <1>10, <1>1, Sides DEF AnswerContext, RequestState
<1>15. CASE MarkCompleted(r) \/ UpgradeFails(r)
  <2>1. Holds(r) /\ Release(r) /\ system' = system
    BY <1>15, <1>2, Sides DEF MarkCompleted, UpgradeFails
  <2>2. req' = [req EXCEPT ![r] = req'[r]] /\ req'[r].pc \notin Inside
    BY <1>15, <1>1, Sides DEF MarkCompleted, UpgradeFails, RequestState
  <2>. QED
    BY <2>1, <2>2, <1>3, LockReleased
<1>. QED
  BY <1>5, <1>6, <1>7, <1>8, <1>9, <1>11, <1>12, <1>13, <1>14, <1>15 DEF RequestStep

\* as do rivals and deployments,
LEMMA LockOther ==
  ASSUME TypeOK, LockShape,
         Deploy \/ UNCHANGED vars \/ \E x \in Rival : RivalReads(x) \/ RivalSaves(x)
  PROVE  LockShape'
<1>1. CASE Deploy
  <2>1. \A r \in Request : req'[r].pc \in {"new", "done"}
    BY <1>1 DEF Deploy, TypeOK, RequestState
  <2>2. lock' = <<>>
    BY <1>1 DEF Deploy
  <2>. QED
    BY <2>1, <2>2, EmptyQueue, Sides DEF LockShape, Inside
<1>2. CASE lock' = lock /\ req' = req /\ system' = system
  BY <1>2 DEF LockShape, Holds, Older
<1>. QED
  BY <1>1, <1>2 DEF vars, RivalReads, RivalSaves

\* and it is empty at first.
LEMMA LockInit == Init => LockShape
<1>. SUFFICES ASSUME Init PROVE LockShape
  OBVIOUS
<1>1. lock = <<>> /\ \A r \in Request : req[r].pc = "new"
  BY DEF Init
<1>. QED
  BY <1>1, EmptyQueue, Sides DEF LockShape, Inside
\* The holder of the lock is the only request past the wait.
LEMMA OnlyHolder ==
  ASSUME LockShape, NEW r \in Request, Holds(r) \/ req[r].pc \in HeldPC
  PROVE  \A q \in Request \ {r} : req[q].pc \notin HeldPC
BY DEF LockShape, Holds

\* Inside the lock the system has a valid version, which is the request's user.
LEMMA HeldUser ==
  ASSUME TypeOK, LockShape, NEW r \in Request, req[r].pc \in HeldPC
  PROVE  /\ req[r].user = system /\ system \in Version /\ system # Bare
         /\ Holds(r) /\ Older(req[r].copy)
BY Versions DEF TypeOK, LockShape, Older, Bare

\* A step of a request moves no other.
LEMMA OthersStay ==
  ASSUME TypeOK, NEW r \in Request, Load(r) \/ RequestStep(r)
  PROVE  \A q \in Request \ {r} : req'[q] = req[q]
BY DEF TypeOK, RequestStep, Load, KeepSession, SkipUpgrade, RequestLock, Reload,
       ReloadFails, Recheck, ResetInitialisation, AnswerInit, SaveInit, AnswerContext,
       MarkCompleted, UpgradeFails, NeedInit, Forward, ReloadBeforeSend,
       SaveAfterReply, GiveUp

-----------------------------------------------------------------------------
(* The account of upgrades.                                                 *)

Unsent == {"reset", "init", "initsave", "context"}

\* What is compared are numbers, before a step ...
LEMMA PaidNumbers ==
  ASSUME TypeOK
  PROVE  /\ Paid \in Nat /\ doc.version \in Nat
         /\ \A v \in Version : contexts[v] \in Nat /\ v \in Nat
BY DEF TypeOK, Paid, Doc, Version

\* ... and after it.
LEMMA NextPaid ==
  ASSUME TypeOK'
  PROVE  Paid' \in Nat
<1>1. \A x, y, z \in Nat : x + y + z \in Nat
  OBVIOUS
<1>. QED
  BY <1>1 DEF TypeOK, Paid

\* What a step that sends no context must pay for: a lower version, a mark
\* that is given up.
LEMMA AccountKept ==
  ASSUME TypeOK, TypeOK', UpgradesAccounted, AccountShape,
         contexts' = contexts, Paid' >= Paid,
         doc'.version >= doc.version \/ Paid' > Paid,
         \A r \in Request : req[r].pc = "mark" =>
             \/ req'[r].pc = "mark" /\ req'[r].user = req[r].user
             \/ doc'.version >= req[r].user
             \/ Paid' > Paid,
         \A r \in Request : req'[r].pc \in Unsent =>
             \/ /\ req[r].pc \in Unsent /\ req'[r].user = req[r].user
                /\ req[r].user \in Version
             \/ contexts[req'[r].user] <= Paid'
  PROVE  UpgradesAccounted' /\ AccountShape'
<1>1. /\ Paid \in Nat /\ Paid' \in Nat /\ doc.version \in Nat /\ doc'.version \in Nat
      /\ \A v \in Version : contexts[v] \in Nat /\ v \in Nat
  <2>1. doc \in Doc /\ doc' \in Doc /\ contexts \in [Version -> Nat]
    BY DEF TypeOK
  <2>2. Version \subseteq Nat
    BY VersionAssumption DEF Version
  <2>3. Paid \in Nat /\ Paid' \in Nat
    BY PaidNumbers, NextPaid
  <2>. QED
    BY <2>1, <2>2, <2>3 DEF Doc
<1>2. UpgradesAccounted'
  <2>1. \A v \in Version : contexts[v] <= 1 + Paid
    BY <1>1 DEF UpgradesAccounted, Paid, TypeOK
  <2>2. \A v \in Version : contexts'[v] <= 1 + Paid'
    BY <1>1, <2>1
  <2>. QED
    BY <2>2, <1>1 DEF UpgradesAccounted, Paid, TypeOK
<1>3. ASSUME NEW v \in Version
      PROVE  \/ contexts'[v] <= Paid'
             \/ doc'.version >= v
             \/ \E r \in Request : req'[r].pc = "mark" /\ req'[r].user = v
  <2>1. CASE Paid' > Paid
    <3>1. contexts[v] <= 1 + Paid
      BY <1>1 DEF UpgradesAccounted, Paid, TypeOK
    <3>. QED
      BY <1>1, <2>1, <3>1
  <2>2. CASE contexts[v] <= Paid
    BY <1>1, <2>2
  <2>3. CASE doc.version >= v /\ ~(Paid' > Paid)
    BY <1>1, <2>3
  <2>4. CASE (\E r \in Request : req[r].pc = "mark" /\ req[r].user = v) /\ ~(Paid' > Paid)
    <3>1. PICK r \in Request : req[r].pc = "mark" /\ req[r].user = v
      BY <2>4
    <3>2. \/ req'[r].pc = "mark" /\ req'[r].user = v
          \/ doc'.version >= v
      BY <3>1, <2>4
    <3>. QED
      BY <3>2
  <2>. QED
    BY <2>1, <2>2, <2>3, <2>4 DEF AccountShape
<1>4. ASSUME NEW r \in Request, req'[r].pc \in Unsent
      PROVE  contexts'[req'[r].user] <= Paid'
  <2>1. CASE req[r].pc \in Unsent /\ req'[r].user = req[r].user /\ req[r].user \in Version
    <3>1. contexts[req[r].user] <= Paid
      BY <2>1 DEF AccountShape, Unsent
    <3>. QED
      BY <3>1, <2>1, <1>1
  <2>. QED
    BY <2>1, <1>4
<1>. QED
  BY <1>2, <1>3, <1>4 DEF AccountShape, Unsent
\* Saving a lower version is counted.
LEMMA SavePays ==
  ASSUME TypeOK, TypeOK', NEW c, Save(c), failures' = failures, deploys' = deploys
  PROVE  Paid' >= Paid /\ (c.version >= doc.version \/ Paid' > Paid) /\ doc' = c
<1>1. /\ failures \in Nat /\ deploys \in Nat /\ rollbacks \in Nat
      /\ rollbacks' = rollbacks + IF c.version < doc.version THEN 1 ELSE 0
  BY DEF TypeOK, Save
<1>2. doc' = c
  BY DEF Save
<1>3. c.version \in Int /\ doc.version \in Int
  BY <1>2, VersionAssumption DEF TypeOK, Doc, Version
<1>. QED
  BY <1>1, <1>2, <1>3 DEF Paid

\* A failed call or a restart is counted.
LEMMA FailurePays ==
  ASSUME TypeOK, rollbacks' = rollbacks,
         \/ failures' = failures + 1 /\ deploys' = deploys
         \/ failures' = failures /\ deploys' = deploys + 1
  PROVE  Paid' > Paid
<1>1. failures \in Nat /\ deploys \in Nat /\ rollbacks \in Nat
  BY DEF TypeOK
<1>. QED
  BY <1>1 DEF Paid

\* Every step of a request keeps the account: a context is only sent by the
\* holder of the lock, to a version whose account is open.
LEMMA AccountRequest ==
  ASSUME TypeOK, LockShape, UpgradesAccounted, AccountShape, TypeOK',
         NEW r \in Request, Load(r) \/ RequestStep(r)
  PROVE  UpgradesAccounted' /\ AccountShape'
<1>1. /\ \A q \in Request \ {r} : req'[q] = req[q]
      /\ req \in [Request -> RequestState] /\ req[r] \in RequestState
  BY OthersStay DEF TypeOK
<1>2. /\ Paid \in Nat /\ doc.version \in Nat
      /\ \A v \in Version : contexts[v] \in Nat /\ v \in Nat
  BY PaidNumbers
<1>3. \A q \in Request : req[q].pc \in HeldPC => req[q].user \in Version
  BY HeldUser
<1>4. Unsent \subseteq HeldPC /\ "mark" \in HeldPC
  BY DEF Unsent, HeldPC
\* steps that change nothing of the account
<1>5. CASE /\ UNCHANGED <<doc, contexts, rollbacks, deploys>> /\ failures' \in {failures, failures + 1}
           /\ req[r].pc # "mark"
           /\ req'[r].pc \in Unsent => req[r].pc \in Unsent /\ req'[r].user = req[r].user
  <2>1. contexts' = contexts /\ Paid' >= Paid
    <3>1. /\ failures \in Nat /\ deploys \in Nat /\ rollbacks \in Nat
          /\ failures' \in {failures, failures + 1}
          /\ deploys' = deploys /\ rollbacks' = rollbacks
      BY <1>5 DEF TypeOK
    <3>2. CASE failures' = failures
      BY <1>5, <3>1, <3>2 DEF Paid
    <3>3. CASE failures' = failures + 1
      BY <1>5, <3>1, <3>3 DEF Paid
    <3>. QED
      BY <3>1, <3>2, <3>3
  <2>2. doc'.version >= doc.version
    BY <1>5, <1>2
  <2>3. \A q \in Request : req[q].pc = "mark" => req'[q].pc = "mark" /\ req'[q].user = req[q].user
    BY <1>5, <1>1
  <2>4. \A q \in Request : req'[q].pc \in Unsent =>
          req[q].pc \in Unsent /\ req'[q].user = req[q].user /\ req[q].user \in Version
    BY <1>5, <1>1, <1>3, <1>4
  <2>. QED
    BY <2>1, <2>2, <2>3, <2>4, AccountKept
<1>6. CASE Load(r)
  <2>1. req'[r].pc = "loaded"
    BY ZenonT(40), <1>6, <1>1 DEF Load, RequestState
  <2>. QED
    BY <1>6, <2>1, <1>5 DEF Load, Unsent, ai
<1>7. CASE KeepSession(r) \/ SkipUpgrade(r) \/ RequestLock(r)
  <2>1. req'[r].pc \in {"ready", "waiting"}
    BY <1>7, <1>1 DEF KeepSession, SkipUpgrade, RequestLock, RequestState
  <2>. QED
    BY <1>7, <2>1, <1>5 DEF KeepSession, SkipUpgrade, RequestLock, Unsent, ai
<1>8. CASE NeedInit(r) \/ Forward(r) \/ GiveUp(r)
  <2>1. req'[r].pc \in {"ensure", "answered", "done"}
    BY <1>8, <1>1 DEF NeedInit, Forward, GiveUp, RequestState
  <2>. QED
    BY <1>8, <2>1, <1>5 DEF NeedInit, Forward, GiveUp, Unsent, NormalPC, ai
<1>9. CASE ReloadBeforeSend(r)
  <2>1. req'[r].pc \in {"saving", "done"}
    BY <1>9, <1>1 DEF ReloadBeforeSend, RequestState
  <2>. QED
    BY <1>9, <2>1, <1>5 DEF ReloadBeforeSend, Unsent, ai
<1>10. CASE AnswerInit(r)
  <2>1. /\ (req[r].pc = "init" /\ req'[r].pc = "initsave") \/ req'[r].pc = "ensuresave"
        /\ req'[r].user = req[r].user
    BY <1>10, <1>1 DEF AnswerInit, RequestState
  <2>. QED
    BY <1>10, <2>1, <1>5 DEF AnswerInit, Unsent
\* the holder reads the version again
<1>11. CASE Reload(r)
  <2>1. CASE Older(doc)
    <3>1. req'[r].pc = "reset" /\ req'[r].user = system
      BY <1>11, <2>1, <1>1 DEF Reload, Recheck, RequestState
    <3>2. system \in Version /\ doc.version < system
      BY <2>1, Versions DEF Older, TypeOK
    <3>3. \A q \in Request : req[q].pc # "mark"
      BY <1>11, <1>4, OnlyHolder DEF Reload
    <3>4. contexts[system] <= Paid
      BY <3>2, <3>3, <1>2 DEF AccountShape
    <3>5. contexts' = contexts /\ Paid' >= Paid /\ doc'.version >= doc.version /\ Paid' = Paid
      BY <1>11, <1>2 DEF Reload, ai, Paid
    <3>6. \A q \in Request : req'[q].pc \in Unsent =>
             \/ /\ req[q].pc \in Unsent /\ req'[q].user = req[q].user
                /\ req[q].user \in Version
             \/ contexts[req'[q].user] <= Paid'
      BY <3>1, <3>4, <3>5, <1>1, <1>3, <1>4
    <3>. QED
      BY <3>3, <3>5, <3>6, AccountKept
  <2>2. CASE ~Older(doc)
    <3>1. req'[r].pc = "ready"
      BY <1>11, <2>2, <1>1 DEF Reload, Recheck, RequestState
    <3>. QED
      BY <1>11, <3>1, <1>5 DEF Reload, Unsent, ai
  <2>. QED
    BY <2>1, <2>2
<1>12. CASE ReloadFails(r)
  <2>1. /\ contexts' = contexts /\ Paid' > Paid /\ doc' = doc /\ Paid' \in Nat
    BY <1>12, FailurePays, <1>2 DEF ReloadFails, ai, Paid, TypeOK
  <2>2. \A q \in Request : req[q].pc # "mark"
    BY <1>12, <1>4, OnlyHolder DEF ReloadFails
  <2>3. req'[r].pc = "ready" \/ (req'[r].user = system /\ system # 0)
    BY <1>12, <1>1 DEF ReloadFails, Recheck, RequestState, Older
  <2>4. req'[r].pc \in Unsent => contexts[req'[r].user] <= Paid'
    <3>1. CASE req'[r].user = system /\ system # 0
      <4>1. system \in Version /\ contexts[system] <= 1 + Paid
        BY <3>1, Versions, <1>2 DEF TypeOK, UpgradesAccounted, Paid
      <4>. QED
        BY <3>1, <4>1, <2>1, <1>2
    <3>. QED
      BY <3>1, <2>3 DEF Unsent
  <2>5. \A q \in Request : req'[q].pc \in Unsent =>
           \/ /\ req[q].pc \in Unsent /\ req'[q].user = req[q].user
              /\ req[q].user \in Version
           \/ contexts[req'[q].user] <= Paid'
    BY <2>4, <1>1, <1>3, <1>4
  <2>. QED
    BY <2>1, <2>2, <2>5, <1>2, AccountKept
\* saves
<1>13. ASSUME NEW c, Save(c), UNCHANGED <<contexts, failures, deploys>>,
              req[r].pc = "mark" => c.version >= req[r].user,
              req'[r].pc \in Unsent => req[r].pc \in Unsent /\ req'[r].user = req[r].user
       PROVE  UpgradesAccounted' /\ AccountShape'
  <2>1. /\ Paid' >= Paid /\ (doc'.version >= doc.version \/ Paid' > Paid)
        /\ doc' = c
    BY <1>13, SavePays
  <2>2. \A q \in Request : req[q].pc = "mark" =>
          \/ req'[q].pc = "mark" /\ req'[q].user = req[q].user
          \/ doc'.version >= req[q].user
          \/ Paid' > Paid
    BY <1>13, <1>1, <2>1
  <2>3. \A q \in Request : req'[q].pc \in Unsent =>
          req[q].pc \in Unsent /\ req'[q].user = req[q].user /\ req[q].user \in Version
    BY <1>13, <1>1, <1>3, <1>4
  <2>. QED
    BY <1>13, <2>1, <2>2, <2>3, AccountKept
<1>14. CASE ResetInitialisation(r)
  <2>1. /\ req[r].pc \in Unsent /\ req[r].pc # "mark" /\ req'[r].user = req[r].user
    BY <1>14, <1>1 DEF ResetInitialisation, RequestState, Unsent
  <2>. QED
    BY <1>14, <2>1, <1>13 DEF ResetInitialisation, ai
<1>15. CASE SaveInit(r)
  <2>1. /\ req[r].pc \in Unsent \/ req'[r].pc = "ready"
        /\ req[r].pc # "mark" /\ req'[r].user = req[r].user
    BY <1>15, <1>1 DEF SaveInit, RequestState, Unsent
  <2>. QED
    BY <1>15, <2>1, <1>13 DEF SaveInit, ai, Unsent
<1>16. CASE SaveAfterReply(r)
  <2>1. req[r].pc # "mark" /\ req'[r].pc = "done"
    BY <1>16, <1>1 DEF SaveAfterReply, RequestState
  <2>. QED
    BY <1>16, <2>1, <1>13 DEF SaveAfterReply, ai, Unsent
<1>17. CASE MarkCompleted(r)
  <2>1. req'[r].pc = "answered" /\ req[r].user \in Nat /\ req[r].copy \in Doc
    BY <1>17, <1>1, <1>2, <1>3, <1>4 DEF MarkCompleted, RequestState
  <2>2. [req[r].copy EXCEPT !.version = req[r].user].version >= req[r].user
    BY <2>1 DEF Doc
  <2>. QED
    BY <1>17, <2>1, <2>2, <1>13 DEF MarkCompleted, ai, Unsent
\* the context is sent
<1>18. ASSUME TellContext(r), req[r].pc = "context"
       PROVE  /\ req[r].user \in Version /\ contexts[req[r].user] <= Paid
              /\ contexts'[req[r].user] = contexts[req[r].user] + 1
              /\ \A v \in Version \ {req[r].user} : contexts'[v] = contexts[v]
  BY <1>18, <1>3, <1>4 DEF TellContext, AccountShape, TypeOK, HeldPC
<1>19. CASE AnswerContext(r)
  <2>1. /\ req'[r].pc = "mark" /\ req'[r].user = req[r].user /\ req[r].pc = "context"
        /\ TellContext(r) /\ doc' = doc
        /\ failures' = failures /\ deploys' = deploys /\ rollbacks' = rollbacks
    BY <1>19, <1>1 DEF AnswerContext, RequestState
  <2>2. Paid' = Paid
    BY <2>1 DEF Paid
  <2>3. \A q \in Request \ {r} : req'[q].pc \notin HeldPC
    BY <1>1, <2>1, OnlyHolder DEF HeldPC
  <2>4. \A v \in Version : contexts'[v] <= 1 + Paid
    <3>1. \A v \in Version : contexts[v] <= 1 + Paid
      BY <1>2 DEF UpgradesAccounted, Paid, TypeOK
    <3>. QED
      BY <3>1, <1>18, <2>1, <1>2
  <2>5. UpgradesAccounted'
    <3>1. \A v \in Version : contexts'[v] <= 1 + failures + deploys + rollbacks
      BY <2>4, <1>2 DEF Paid, TypeOK
    <3>. QED
      BY <3>1, <2>1 DEF UpgradesAccounted
  <2>6. ASSUME NEW v \in Version
        PROVE  \/ contexts'[v] <= Paid' \/ doc'.version >= v
               \/ \E q \in Request : req'[q].pc = "mark" /\ req'[q].user = v
    <3>1. CASE v = req[r].user
      BY <3>1, <2>1
    <3>2. CASE v # req[r].user
      <4>1. \A q \in Request : req[q].pc # "mark"
        BY <2>1, <1>4, OnlyHolder DEF HeldPC
      <4>. QED
        BY <3>2, <4>1, <1>18, <2>1, <2>2 DEF AccountShape
    <3>. QED
      BY <3>1, <3>2
  <2>7. \A q \in Request : req'[q].pc \notin Unsent
    BY <2>1, <2>3, <1>4 DEF Unsent
  <2>. QED
    BY <2>5, <2>6, <2>7 DEF AccountShape, Unsent
<1>20. CASE UpgradeFails(r)
  <2>1. /\ req'[r].pc = "done" /\ doc' = doc /\ req[r].pc \in HeldPC
        /\ failures' = failures + 1 /\ deploys' = deploys /\ rollbacks' = rollbacks
    BY <1>20, <1>1 DEF UpgradeFails, RequestState
  <2>2. Paid' = Paid + 1
    BY <2>1 DEF Paid, TypeOK
  <2>3. \A q \in Request : req'[q].pc \notin HeldPC
    BY <1>1, <2>1, OnlyHolder DEF HeldPC
  <2>4. \A v \in Version : contexts'[v] <= Paid'
    <3>1. \A v \in Version : contexts[v] <= 1 + Paid
      BY <1>2 DEF UpgradesAccounted, Paid, TypeOK
    <3>2. CASE contexts' = contexts
      BY <3>1, <3>2, <2>2, <1>2
    <3>3. CASE req[r].pc = "context" /\ TellContext(r)
      BY <3>1, <3>3, <1>18, <2>2, <1>2
    <3>. QED
      BY <3>2, <3>3, <1>20 DEF UpgradeFails, ai
  <2>5. UpgradesAccounted'
    <3>1. \A v \in Version : contexts'[v] \in Nat
      BY DEF TypeOK
    <3>2. \A v \in Version : contexts'[v] <= 1 + Paid'
      BY <2>4, <3>1, NextPaid
    <3>3. 1 + Paid' = 1 + failures' + deploys' + rollbacks'
      <4>1. failures' \in Nat /\ deploys' \in Nat /\ rollbacks' \in Nat
        BY DEF TypeOK
      <4>2. Paid' = failures' + deploys' + rollbacks'
        BY DEF Paid
      <4>. QED
        BY <4>1, <4>2
    <3>. QED
      BY <3>2, <3>3 DEF UpgradesAccounted
  <2>. QED
    BY <2>3, <2>4, <2>5, <1>4 DEF AccountShape, Unsent
<1>. QED
  BY <1>6, <1>7, <1>8, <1>9, <1>10, <1>11, <1>12, <1>14, <1>15, <1>16, <1>17,
     <1>19, <1>20 DEF RequestStep

\* Rivals pay for the versions they lower, deployments for the marks they lose.
LEMMA AccountOther ==
  ASSUME TypeOK, UpgradesAccounted, AccountShape, TypeOK', LockShape,
         Deploy \/ UNCHANGED vars \/ \E x \in Rival : RivalReads(x) \/ RivalSaves(x)
  PROVE  UpgradesAccounted' /\ AccountShape'
<1>1. /\ Paid \in Nat /\ doc.version \in Nat
      /\ req \in [Request -> RequestState]
  BY PaidNumbers DEF TypeOK
<1>2. \A q \in Request : req[q].pc \in Unsent => req[q].user \in Version
  BY HeldUser DEF Unsent, HeldPC
<1>3. CASE Deploy
  <2>1. \A r \in Request : req'[r].pc \in {"new", "done"}
    BY <1>3, <1>1 DEF Deploy, RequestState
  <2>2. Paid' > Paid /\ contexts' = contexts /\ doc' = doc
    BY <1>3, FailurePays DEF Deploy, ai
  <2>3. Paid' \in Nat
    BY NextPaid
  <2>. QED
    BY <2>1, <2>2, <2>3, <1>1, AccountKept DEF Unsent
<1>4. CASE UNCHANGED vars \/ \E x \in Rival : RivalReads(x)
  <2>1. UNCHANGED <<req, contexts, doc, failures, deploys, rollbacks>>
    BY <1>4 DEF vars, ai, RivalReads
  <2>2. Paid' = Paid
    BY <2>1 DEF Paid
  <2>. QED
    BY <2>1, <2>2, <1>1, <1>2, AccountKept
<1>5. CASE \E x \in Rival : RivalSaves(x)
  <2>1. PICK x \in Rival : RivalSaves(x)
    BY <1>5
  <2>2. /\ Paid' >= Paid /\ (doc'.version >= doc.version \/ Paid' > Paid)
        /\ contexts' = contexts /\ req' = req
    BY <2>1, SavePays DEF RivalSaves, ai
  <2>. QED
    BY <2>2, <1>2, AccountKept
<1>. QED
  BY <1>3, <1>4, <1>5

\* At first nothing was sent.
LEMMA AccountInit == Init => UpgradesAccounted /\ AccountShape
<1>. SUFFICES ASSUME Init PROVE UpgradesAccounted /\ AccountShape
  OBVIOUS
<1>1. /\ \A r \in Request : req[r].pc = "new"
      /\ \A v \in Version : contexts[v] = 0
      /\ failures = 0 /\ deploys = 0 /\ rollbacks = 0
  BY DEF Init
<1>. QED
  BY <1>1 DEF UpgradesAccounted, AccountShape, Paid
-----------------------------------------------------------------------------
(* The copies of the document.                                              *)

\* What a request saves when it changes its copy.
Written(r, c) ==
    \/ c = [req[r].copy EXCEPT !.init = FALSE]
    \/ SaveInit(r) /\ c = [req[r].copy EXCEPT !.init = TRUE]
    \/ MarkCompleted(r) /\ c = [req[r].copy EXCEPT !.version = req[r].user]

Active(r) == req[r].pc \notin {"new", "done"}

\* Copies is the least set with the document and every live copy of it.
LEMMA CopyMembers ==
  /\ doc \in Copies
  /\ \A r \in Request : Active(r) => req[r].copy \in Copies
  /\ \A x \in Rival : rival[x].pc = "holding" => rival[x].copy \in Copies
  /\ \A S : /\ doc \in S
            /\ \A r \in Request : Active(r) => req[r].copy \in S
            /\ \A x \in Rival : rival[x].pc = "holding" => rival[x].copy \in S
            => Copies \subseteq S
BY DEF Copies, Active

\* Copies are documents.
LEMMA CopyTypes ==
  ASSUME TypeOK
  PROVE  \A c \in Copies : c \in Doc /\ c.version \in Version /\ c.version \in Nat
<1>1. Copies \subseteq Doc
  BY DEF Copies, TypeOK, RequestState, RivalState
<1>. QED
  BY <1>1, VersionAssumption DEF Doc, Version

\* The copies after a step of a request are copies from before it, or the
\* document it wrote.
LEMMA CopiesOfRequest ==
  ASSUME TypeOK, NEW r \in Request, Load(r) \/ RequestStep(r)
  PROVE  /\ Copies' \subseteq Copies \cup {doc'}
         /\ doc' \in Copies \/ (Active(r) /\ Written(r, doc'))
<1>. DEFINE S == Copies \cup {doc'}
<1>1. /\ \A q \in Request \ {r} : req'[q] = req[q]
      /\ req \in [Request -> RequestState] /\ req[r] \in RequestState
  BY OthersStay DEF TypeOK
<1>2. ASSUME rival' = rival, Active(r)' => req'[r].copy \in S
      PROVE  Copies' \subseteq Copies \cup {doc'}
  <2>1. \A q \in Request : req'[q].pc \notin {"new", "done"} => req'[q].copy \in S
    BY <1>1, <1>2, CopyMembers DEF Active
  <2>. QED
    BY <2>1, <1>2, CopyMembers DEF Copies
<1>3. doc \in Copies /\ (Active(r) => req[r].copy \in Copies)
  BY CopyMembers
<1>4. CASE Load(r) \/ ReloadBeforeSend(r)
  <2>1. CASE Load(r)
    <3>1. PICK text \in BOOLEAN :
            req' = [req EXCEPT ![r].pc = "loaded", ![r].text = text, ![r].copy = doc]
      BY <2>1 DEF Load
    <3>2. rival' = rival /\ doc' = doc /\ req'[r].copy = doc
      BY <2>1, <3>1, <1>1 DEF Load, RequestState
    <3>. QED
      BY <3>2, <1>2, <1>3
  <2>2. CASE ReloadBeforeSend(r)
    <3>1. PICK pc \in {"saving", "done"}, c \in {doc, req[r].copy} :
            req' = [req EXCEPT ![r].pc = pc, ![r].copy = c]
      BY <2>2, Rereading
    <3>2. rival' = rival /\ doc' = doc /\ req'[r].copy \in {doc, req[r].copy} /\ Active(r)
      BY <2>2, <3>1, <1>1 DEF ReloadBeforeSend, RequestState, Active
    <3>. QED
      BY <3>2, <1>2, <1>3
  <2>. QED
    BY <1>4, <2>1, <2>2
<1>5. CASE \/ KeepSession(r) \/ SkipUpgrade(r) \/ RequestLock(r) \/ AnswerInit(r)
           \/ AnswerContext(r) \/ UpgradeFails(r)
           \/ NeedInit(r) \/ Forward(r) \/ GiveUp(r)
  <2>1. rival' = rival /\ doc' = doc /\ req'[r].copy = req[r].copy
    BY <1>5, <1>1
       DEF KeepSession, SkipUpgrade, RequestLock, AnswerInit, AnswerContext,
           UpgradeFails, NeedInit, Forward, GiveUp, RequestState
  <2>2. Active(r)
    BY <1>5 DEF KeepSession, SkipUpgrade, RequestLock, AnswerInit, AnswerContext,
           UpgradeFails, NeedInit, Forward, GiveUp, Active, HeldPC, NormalPC
  <2>. QED
    BY <2>1, <2>2, <1>2, <1>3
<1>6. CASE Reload(r) \/ ReloadFails(r)
  <2>1. rival' = rival /\ doc' = doc /\ req'[r].copy \in {doc, req[r].copy}
    BY <1>6, <1>1 DEF Reload, ReloadFails, Recheck, RequestState
  <2>2. Active(r)
    BY <1>6 DEF Reload, ReloadFails, Active
  <2>. QED
    BY <2>1, <2>2, <1>2, <1>3
<1>7. CASE SaveAfterReply(r)
  <2>1. rival' = rival /\ doc' = req[r].copy /\ req'[r].pc = "done" /\ Active(r)
    BY <1>7, <1>1 DEF SaveAfterReply, Save, RequestState, Active
  <2>. QED
    BY <2>1, <1>2, <1>3 DEF Active
<1>8. CASE ResetInitialisation(r)
  <2>1. /\ rival' = rival /\ Active(r)
        /\ doc' = [req[r].copy EXCEPT !.init = FALSE] /\ req'[r].copy = doc'
    BY <1>8, <1>1 DEF ResetInitialisation, Save, RequestState, Active
  <2>2. Written(r, doc')
    BY <2>1 DEF Written
  <2>. QED
    BY <2>1, <2>2, <1>2
<1>9. CASE SaveInit(r)
  <2>1. /\ rival' = rival /\ Active(r)
        /\ doc' = [req[r].copy EXCEPT !.init = TRUE] /\ req'[r].copy = doc'
    BY <1>9, <1>1 DEF SaveInit, Save, RequestState, Active
  <2>2. Written(r, doc')
    BY <2>1, <1>9 DEF Written
  <2>. QED
    BY <2>1, <2>2, <1>2
<1>10. CASE MarkCompleted(r)
  <2>1. /\ rival' = rival /\ Active(r)
        /\ doc' = [req[r].copy EXCEPT !.version = req[r].user] /\ req'[r].copy = doc'
    BY <1>10, <1>1 DEF MarkCompleted, Save, RequestState, Active
  <2>2. Written(r, doc')
    BY <2>1, <1>10 DEF Written
  <2>. QED
    BY <2>1, <2>2, <1>2
<1>. QED
  BY <1>4, <1>5, <1>6, <1>7, <1>8, <1>9, <1>10 DEF RequestStep

\* Rivals and deployments write nothing new.
LEMMA CopiesOfOthers ==
  ASSUME TypeOK,
         Deploy \/ UNCHANGED vars \/ \E x \in Rival : RivalReads(x) \/ RivalSaves(x)
  PROVE  Copies' \subseteq Copies
<1>1. ASSUME doc' \in Copies, \A r \in Request : Active(r)' => Active(r) /\ req'[r].copy = req[r].copy,
             \A x \in Rival : rival'[x].pc = "holding" => rival'[x].copy \in Copies
      PROVE  Copies' \subseteq Copies
  BY <1>1, CopyMembers DEF Copies, Active
<1>2. CASE Deploy
  <2>1. \A r \in Request : req'[r].pc \in {"new", "done"}
    BY <1>2 DEF Deploy, TypeOK, RequestState
  <2>2. \A x \in Rival : rival'[x].pc # "holding"
    BY <1>2 DEF Deploy, TypeOK, RivalState
  <2>. QED
    BY <2>1, <2>2, <1>1, <1>2, CopyMembers DEF Active, Deploy
<1>3. CASE UNCHANGED vars
  BY <1>3, <1>1, CopyMembers DEF vars, Active
<1>4. CASE \E x \in Rival : RivalReads(x)
  <2>1. PICK x \in Rival : RivalReads(x)
    BY <1>4
  <2>2. doc' = doc /\ req' = req
    BY <2>1 DEF RivalReads
  <2>3. \A y \in Rival : rival'[y].pc = "holding" => rival'[y].copy \in Copies
    BY <2>1, CopyMembers DEF RivalReads, TypeOK
  <2>. QED
    BY <2>2, <2>3, <1>1, CopyMembers DEF Active
<1>5. CASE \E x \in Rival : RivalSaves(x)
  <2>1. PICK x \in Rival : RivalSaves(x)
    BY <1>5
  <2>2. doc' = rival[x].copy /\ req' = req /\ rival[x].pc = "holding"
    BY <2>1 DEF RivalSaves, Save
  <2>3. \A y \in Rival : rival'[y].pc = "holding" => rival'[y].copy \in Copies
    BY <2>1, CopyMembers DEF RivalSaves, TypeOK, RivalState
  <2>. QED
    BY <2>2, <2>3, <1>1, CopyMembers DEF Active
<1>. QED
  BY <1>2, <1>3, <1>4, <1>5
-----------------------------------------------------------------------------
(* Contexts before normal messages.                                         *)

\* Contexts are only added.
LEMMA ContextsGrow ==
  ASSUME TypeOK, Next \/ UNCHANGED vars
  PROVE  /\ born' = born
         /\ \A v \in Version : contexts[v] > 0 => contexts'[v] > 0
<1>1. ASSUME NEW r \in Request, TellContext(r)
      PROVE  \A v \in Version : contexts[v] > 0 => contexts'[v] > 0
  <2>1. /\ contexts \in [Version -> Nat]
        /\ contexts' = [contexts EXCEPT ![req[r].user] = contexts[req[r].user] + 1]
    BY <1>1 DEF TellContext, TypeOK
  <2>. QED
    BY <2>1
<1>2. ASSUME NEW r \in Request, AnswerContext(r) \/ UpgradeFails(r)
      PROVE  /\ born' = born
             /\ contexts' = contexts \/ TellContext(r)
  BY <1>2 DEF AnswerContext, UpgradeFails, ai
<1>3. ASSUME ~\E r \in Request : AnswerContext(r) \/ UpgradeFails(r)
      PROVE  born' = born /\ contexts' = contexts
  BY <1>3 DEF Next, RequestStep, vars, ai, Load, KeepSession, SkipUpgrade, RequestLock,
       Reload, ReloadFails, ResetInitialisation, AnswerInit, SaveInit, MarkCompleted,
       NeedInit, Forward, ReloadBeforeSend, SaveAfterReply, GiveUp, RivalReads,
       RivalSaves, Deploy
<1>. QED
  BY <1>1, <1>2, <1>3

\* The parts of ContextShape that speak of one request.
RequestContext(r) ==
    /\ req[r].pc = "mark" => contexts[req[r].user] > 0
    /\ req[r].pc \in {"ready", "ensure", "ensuresave"} =>
          req[r].user \in {Bare, req[r].copy.version}

\* Steps of requests: only MarkCompleted makes a copy of a new version, after
\* its context was sent.
LEMMA ContextRequest ==
  ASSUME TypeOK, TypeOK', LockShape, ContextFirst, ContextShape,
         NEW r \in Request, Load(r) \/ RequestStep(r)
  PROVE  ContextFirst' /\ ContextShape'
<1>1. /\ \A q \in Request \ {r} : req'[q] = req[q]
      /\ req \in [Request -> RequestState] /\ req[r] \in RequestState
      /\ req[r].copy \in Doc /\ req[r].copy.version \in Version
  BY OthersStay, RequestFields DEF TypeOK
<1>2. born' = born /\ \A v \in Version : contexts[v] > 0 => contexts'[v] > 0
  BY ContextsGrow DEF Next
<1>3. /\ \A c \in Copies : c.version > born => contexts'[c.version] > 0
      /\ Active(r) => req[r].copy \in Copies
  BY <1>2, CopyTypes, CopyMembers DEF ContextShape
<1>4. doc' \notin Copies /\ doc'.version > born => contexts'[doc'.version] > 0
  <2>1. SUFFICES ASSUME Active(r), Written(r, doc'), doc'.version > born
                 PROVE  contexts'[doc'.version] > 0
    BY CopiesOfRequest
  <2>2. CASE doc'.version = req[r].copy.version
    BY <2>1, <2>2, <1>3
  <2>3. CASE MarkCompleted(r) /\ doc' = [req[r].copy EXCEPT !.version = req[r].user]
    <3>1. doc'.version = req[r].user /\ req[r].pc = "mark" /\ contexts' = contexts
      BY <2>3, <1>1 DEF MarkCompleted, Doc, ai
    <3>. QED
      BY <3>1 DEF ContextShape
  <2>. QED
    BY <2>1, <2>2, <2>3, <1>1 DEF Written, Doc
<1>5. \A c \in Copies' : c.version > born' => contexts'[c.version] > 0
  BY <1>2, <1>3, <1>4, CopiesOfRequest
<1>6. RequestContext(r)'
  <2>1. CASE req'[r].pc \notin {"mark", "ready", "ensure", "ensuresave"}
    BY <2>1 DEF RequestContext
  <2>2. CASE Load(r)
    <3>1. req'[r].pc = "loaded"
      BY <2>2, <1>1 DEF Load, RequestState
    <3>. QED
      BY <3>1, <2>1
  <2>3. CASE KeepSession(r) \/ SkipUpgrade(r)
    <3>1. /\ req'[r].pc = "ready" /\ req'[r].copy = req[r].copy
          /\ req'[r].user \in {Bare, UserOf(req[r].copy)}
      BY <2>3, <1>1 DEF KeepSession, SkipUpgrade, RequestState
    <3>. QED
      BY <3>1 DEF RequestContext, UserOf
  <2>4. CASE Reload(r) \/ ReloadFails(r)
    <3>1. PICK fresh \in Doc : Recheck(r, fresh)
      BY <2>4, <1>1 DEF Reload, ReloadFails, TypeOK
    <3>2. CASE req' = [req EXCEPT ![r].pc = "reset", ![r].copy = fresh, ![r].user = system]
      BY <3>2, <2>1, <1>1 DEF RequestState
    <3>3. CASE req' = [req EXCEPT ![r].pc = "ready", ![r].copy = fresh,
                                  ![r].user = UserOf(fresh)]
      BY <3>3, <1>1 DEF RequestState, RequestContext, UserOf
    <3>. QED
      BY <3>1, <3>2, <3>3 DEF Recheck
  <2>5. CASE AnswerInit(r) \/ NeedInit(r)
    <3>1. /\ req'[r].copy = req[r].copy /\ req'[r].user = req[r].user
          /\ \/ req'[r].pc = "initsave"
             \/ req[r].pc \in {"ready", "ensure"} /\ req'[r].pc \in {"ensure", "ensuresave"}
      BY <2>5, <1>1 DEF AnswerInit, NeedInit, RequestState
    <3>. QED
      BY <3>1 DEF ContextShape, RequestContext
  <2>6. CASE SaveInit(r)
    BY <2>6, <1>1 DEF SaveInit, ContextShape, RequestContext, RequestState, Doc
  <2>7. CASE AnswerContext(r)
    <3>1. req[r].user \in Version
      BY <2>7, HeldUser DEF AnswerContext, HeldPC
    <3>2. req'[r].pc = "mark" /\ req'[r].user = req[r].user
      BY <2>7, <1>1 DEF AnswerContext, RequestState
    <3>3. contexts[req[r].user] \in Nat /\ contexts'[req[r].user] = contexts[req[r].user] + 1
      BY <2>7, <3>1 DEF AnswerContext, TellContext, TypeOK
    <3>. QED
      BY <3>2, <3>3 DEF RequestContext
  <2>8. CASE RequestLock(r) \/ ResetInitialisation(r) \/ MarkCompleted(r) \/ UpgradeFails(r)
    <3>1. req'[r].pc \in {"waiting", "init", "answered", "done"}
      BY <2>8, <1>1 DEF RequestLock, ResetInitialisation, MarkCompleted, UpgradeFails,
                        RequestState
    <3>. QED
      BY <3>1, <2>1
  <2>9. CASE Forward(r) \/ ReloadBeforeSend(r) \/ SaveAfterReply(r) \/ GiveUp(r)
    <3>1. req'[r].pc \in {"answered", "saving", "done"}
      BY <2>9, <1>1 DEF Forward, ReloadBeforeSend, SaveAfterReply, GiveUp, RequestState
    <3>. QED
      BY <3>1, <2>1
  <2>. QED
    BY <2>2, <2>3, <2>4, <2>5, <2>6, <2>7, <2>8, <2>9 DEF RequestStep
<1>7. ASSUME NEW q \in Request
      PROVE  RequestContext(q)'
  <2>1. CASE q = r
    BY <2>1, <1>6
  <2>2. CASE q # r
    <3>1. req'[q] = req[q] /\ (req[q].pc = "mark" => req[q].user \in Version)
      BY <2>2, <1>1, HeldUser DEF HeldPC
    <3>. QED
      BY <3>1, <1>2 DEF ContextShape, RequestContext
  <2>. QED
    BY <2>1, <2>2
<1>8. ContextFirst'
  <2>1. ASSUME NEW v \in forwarded', v > born'
        PROVE  contexts'[v] > 0
    <3>1. v \in Version
      BY <2>1, <1>2, VersionAssumption DEF TypeOK, User, Version
    <3>2. CASE v \in forwarded
      BY <3>2, <3>1, <2>1, <1>2 DEF ContextFirst
    <3>3. CASE v \notin forwarded
      <4>1. Forward(r)
        BY <3>3 DEF RequestStep, Load, KeepSession, SkipUpgrade, RequestLock, Reload,
           ReloadFails, ResetInitialisation, AnswerInit, SaveInit, AnswerContext,
           MarkCompleted, UpgradeFails, TellContext, NeedInit, ReloadBeforeSend,
           SaveAfterReply, GiveUp, ai
      <4>2. v = req[r].user /\ req[r].pc = "ready"
        BY <4>1, <3>3 DEF Forward
      <4>3. v = req[r].copy.version /\ Active(r)
        BY <4>2, <3>1, Versions DEF ContextShape, Active
      <4>. QED
        BY <4>3, <2>1, <1>2, <1>3
    <3>. QED
      BY <3>2, <3>3
  <2>. QED
    BY <2>1 DEF ContextFirst
<1>. QED
  BY <1>5, <1>7, <1>8 DEF ContextShape, RequestContext

\* Rivals and deployments make no copy of a new version.
LEMMA ContextOther ==
  ASSUME TypeOK, ContextFirst, ContextShape,
         Deploy \/ UNCHANGED vars \/ \E x \in Rival : RivalReads(x) \/ RivalSaves(x)
  PROVE  ContextFirst' /\ ContextShape'
<1>1. born' = born /\ contexts' = contexts /\ forwarded' = forwarded
  BY DEF Deploy, vars, ai, RivalReads, RivalSaves
<1>2. \A c \in Copies' : c.version > born' => contexts'[c.version] > 0
  BY <1>1, CopiesOfOthers DEF ContextShape
<1>3. req' = req \/ \A r \in Request : req'[r].pc \in {"new", "done"}
  <2>1. CASE Deploy
    BY <2>1 DEF Deploy, TypeOK, RequestState
  <2>. QED
    BY <2>1 DEF vars, RivalReads, RivalSaves
<1>4. \A r \in Request : RequestContext(r)'
  BY <1>1, <1>3 DEF ContextShape, RequestContext
<1>. QED
  BY <1>1, <1>2, <1>4 DEF ContextFirst, ContextShape, RequestContext

\* At first there is the document only,
LEMMA CopiesInit ==
  ASSUME Init
  PROVE  Copies = {doc}
BY DEF Init, Copies

\* with the version the conversation was born with.
LEMMA ContextInit == Init => ContextFirst /\ ContextShape
<1>. SUFFICES ASSUME Init PROVE ContextFirst /\ ContextShape
  OBVIOUS
<1>1. forwarded = {} /\ born = doc.version /\ \A r \in Request : req[r].pc = "new"
  BY DEF Init
<1>2. doc.version \in Nat
  BY TypeInit, VersionAssumption DEF TypeOK, Doc, Version
<1>. QED
  BY <1>1, <1>2, CopiesInit DEF ContextFirst, ContextShape
-----------------------------------------------------------------------------
(* Sessions are initialised before they are told anything, while deployments *)
(* only raise a valid version.                                              *)

\* A copy that claims no more than is true of the system's session.
Truthful(c) ==
    /\ c.version <= system
    /\ c.version = system /\ c.init => system \in initialised

\* The parts of SessionShape that speak of one request.
RequestSession(r) ==
    /\ req[r].pc \in {"initsave", "context", "mark"} => system \in initialised
    /\ req[r].pc \in {"ready", "ensure", "ensuresave"} =>
          req[r].user = IF Older(req[r].copy) THEN Bare ELSE req[r].copy.version
    /\ req[r].pc = "ensuresave" => req[r].user \in initialised

Told == addressed \ {Bare} \subseteq initialised

\* Reading a session's instruction is not forgotten.
LEMMA InitialisedGrows ==
  ASSUME NEW r \in Request, Load(r) \/ RequestStep(r)
  PROVE  initialised \subseteq initialised' /\ system' = system /\ lowered' = lowered
BY DEF RequestStep, Load, KeepSession, SkipUpgrade, RequestLock, Reload,
       ReloadFails, ResetInitialisation, AnswerInit, SaveInit, AnswerContext,
       MarkCompleted, UpgradeFails, TellContext, NeedInit, Forward, ReloadBeforeSend,
       SaveAfterReply, GiveUp, ai

\* Steps of requests: a copy claims to be initialised only for sessions that
\* are, and no session is told anything before.
LEMMA SessionRequest ==
  ASSUME TypeOK, LockShape, Told, SessionShape,
         NEW r \in Request, Load(r) \/ RequestStep(r)
  PROVE  Told' /\ SessionShape'
<1>1. /\ \A q \in Request \ {r} : req'[q] = req[q]
      /\ req \in [Request -> RequestState] /\ req[r] \in RequestState
      /\ req[r].copy \in Doc /\ req[r].copy.version \in Version
  BY OthersStay, RequestFields DEF TypeOK
<1>2. /\ initialised \subseteq initialised' /\ system' = system
      /\ system \in Nat /\ system # 0 /\ Version \subseteq Nat
  BY InitialisedGrows, Versions DEF TypeOK, SessionShape
<1>3. /\ \A c \in Copies : Truthful(c)
      /\ Active(r) => req[r].copy \in Copies
      /\ RequestSession(r)
  BY CopyMembers DEF SessionShape, Truthful, RequestSession
<1>4. ASSUME Active(r), ~Older(req[r].copy)
      PROVE  req[r].copy.version = system
  <2>1. req[r].copy.version <= system /\ req[r].copy.version \in Nat
    BY <1>1, <1>2, <1>3, <1>4 DEF Truthful
  <2>. QED
    BY <2>1, <1>2, <1>4 DEF Older
<1>5. doc' \notin Copies => Truthful(doc)'
  <2>1. SUFFICES ASSUME Active(r), Written(r, doc')
                 PROVE  Truthful(doc)'
    BY CopiesOfRequest
  <2>2. CASE doc' = [req[r].copy EXCEPT !.init = FALSE]
    BY <2>1, <2>2, <1>1, <1>2, <1>3 DEF Truthful, Doc
  <2>3. CASE SaveInit(r) /\ doc' = [req[r].copy EXCEPT !.init = TRUE]
    <3>1. CASE req[r].pc = "initsave"
      BY <2>1, <2>3, <3>1, <1>1, <1>2, <1>3 DEF Truthful, Doc, RequestSession
    <3>2. CASE req[r].pc = "ensuresave"
      <4>1. doc'.version = req[r].copy.version
        BY <2>3, <1>1 DEF Doc
      <4>2. CASE Older(req[r].copy)
        BY <2>1, <4>1, <4>2, <1>1, <1>2, <1>3 DEF Truthful, Older
      <4>3. CASE ~Older(req[r].copy)
        <5>1. req[r].copy.version = system /\ system \in initialised
          BY <2>1, <3>2, <4>3, <1>3, <1>4 DEF RequestSession
        <5>. QED
          BY <4>1, <5>1, <1>2 DEF Truthful
      <4>. QED
        BY <4>2, <4>3
    <3>. QED
      BY <2>3, <3>1, <3>2 DEF SaveInit
  <2>4. CASE MarkCompleted(r) /\ doc' = [req[r].copy EXCEPT !.version = req[r].user]
    <3>1. req[r].pc = "mark" /\ req[r].user = system /\ doc'.version = system
      BY <2>4, <1>1, HeldUser DEF MarkCompleted, HeldPC, Doc
    <3>. QED
      BY <3>1, <1>2, <1>3 DEF Truthful, RequestSession
  <2>. QED
    BY <2>1, <2>2, <2>3, <2>4 DEF Written
<1>6. \A c \in Copies' : Truthful(c)'
  <2>1. \A c \in Copies : Truthful(c)'
    BY <1>2, <1>3 DEF Truthful
  <2>2. ASSUME NEW c \in Copies'
        PROVE  c \in Copies \/ c = doc'
    BY <2>2, CopiesOfRequest
  <2>. QED
    BY <2>1, <2>2, <1>5 DEF Truthful
<1>7. RequestSession(r)'
  <2>1. CASE req'[r].pc \notin {"initsave", "context", "mark", "ready", "ensure", "ensuresave"}
    BY <2>1 DEF RequestSession
  <2>2. CASE Load(r)
    <3>1. req'[r].pc = "loaded"
      BY <2>2, <1>1 DEF Load, RequestState
    <3>. QED
      BY <3>1, <2>1
  <2>3. CASE KeepSession(r) \/ SkipUpgrade(r)
    <3>1. /\ req'[r].pc = "ready" /\ req'[r].copy = req[r].copy
          /\ req'[r].user = IF Older(req[r].copy) THEN Bare ELSE req[r].copy.version
      BY <2>3, <1>1, <1>2 DEF KeepSession, SkipUpgrade, RequestState, UserOf
    <3>. QED
      BY <3>1, <1>2 DEF RequestSession, Older
  <2>4. CASE Reload(r) \/ ReloadFails(r)
    <3>1. PICK fresh \in Doc : Recheck(r, fresh)
      BY <2>4, <1>1 DEF Reload, ReloadFails, TypeOK
    <3>2. CASE req' = [req EXCEPT ![r].pc = "reset", ![r].copy = fresh, ![r].user = system]
      BY <3>2, <2>1, <1>1 DEF RequestState
    <3>3. CASE ~Older(fresh) /\ req' = [req EXCEPT ![r].pc = "ready", ![r].copy = fresh,
                                                   ![r].user = UserOf(fresh)]
      <4>1. req'[r].pc = "ready" /\ req'[r].copy = fresh /\ req'[r].user = fresh.version
        BY <3>3, <1>1, <1>2 DEF RequestState, UserOf
      <4>. QED
        BY <3>3, <4>1, <1>2 DEF RequestSession, Older
    <3>. QED
      BY <3>1, <3>2, <3>3 DEF Recheck
  <2>5. CASE NeedInit(r)
    <3>1. /\ req'[r].copy = req[r].copy /\ req'[r].user = req[r].user
          /\ req[r].pc = "ready" /\ req'[r].pc = "ensure"
      BY <2>5, <1>1 DEF NeedInit, RequestState
    <3>. QED
      BY <3>1, <1>2, <1>3 DEF RequestSession, Older
  <2>6. CASE AnswerInit(r)
    <3>1. /\ req'[r].copy = req[r].copy /\ req'[r].user = req[r].user
          /\ \/ req[r].pc = "init" /\ req'[r].pc = "initsave"
             \/ req[r].pc = "ensure" /\ req'[r].pc = "ensuresave"
          /\ req[r].user \in initialised'
      BY <2>6, <1>1 DEF AnswerInit, RequestState
    <3>2. req[r].pc = "init" => req[r].user = system
      BY HeldUser DEF HeldPC
    <3>. QED
      BY <3>1, <3>2, <1>2, <1>3 DEF RequestSession, Older
  <2>7. CASE SaveInit(r)
    <3>1. /\ req'[r].user = req[r].user /\ req'[r].copy.version = req[r].copy.version
          /\ \/ req[r].pc = "initsave" /\ req'[r].pc = "context"
             \/ req[r].pc = "ensuresave" /\ req'[r].pc = "ready"
      BY <2>7, <1>1 DEF SaveInit, RequestState, Doc
    <3>. QED
      BY <3>1, <1>2, <1>3 DEF RequestSession, Older
  <2>8. CASE AnswerContext(r)
    <3>1. req[r].pc = "context" /\ req'[r].pc = "mark"
      BY <2>8, <1>1 DEF AnswerContext, RequestState
    <3>. QED
      BY <3>1, <1>2, <1>3 DEF RequestSession
  <2>9. CASE RequestLock(r) \/ ResetInitialisation(r) \/ MarkCompleted(r) \/ UpgradeFails(r)
    <3>1. req'[r].pc \in {"waiting", "init", "answered", "done"}
      BY <2>9, <1>1 DEF RequestLock, ResetInitialisation, MarkCompleted, UpgradeFails,
                        RequestState
    <3>. QED
      BY <3>1, <2>1
  <2>10. CASE Forward(r) \/ ReloadBeforeSend(r) \/ SaveAfterReply(r) \/ GiveUp(r)
    <3>1. req'[r].pc \in {"answered", "saving", "done"}
      BY <2>10, <1>1 DEF Forward, ReloadBeforeSend, SaveAfterReply, GiveUp, RequestState
    <3>. QED
      BY <3>1, <2>1
  <2>. QED
    BY <2>2, <2>3, <2>4, <2>5, <2>6, <2>7, <2>8, <2>9, <2>10 DEF RequestStep
<1>8. ASSUME NEW q \in Request
      PROVE  RequestSession(q)'
  <2>1. CASE q = r
    BY <2>1, <1>7
  <2>2. CASE q # r
    BY <2>2, <1>1, <1>2 DEF SessionShape, RequestSession, Older
  <2>. QED
    BY <2>1, <2>2
<1>9. Told'
  <2>1. CASE addressed' = addressed
    BY <2>1, <1>2 DEF Told
  <2>2. CASE TellContext(r) /\ req[r].pc = "context"
    <3>1. req[r].user = system
      BY <2>2, HeldUser DEF HeldPC
    <3>. QED
      BY <2>2, <3>1, <1>2, <1>3 DEF Told, TellContext, RequestSession
  <2>3. CASE Forward(r)
    <3>1. req[r].user = Bare \/ (req[r].user = system /\ req[r].copy.version = system)
      BY <2>3, <1>3, <1>4 DEF Forward, RequestSession, Active
    <3>2. req[r].user = Bare \/ req[r].user \in initialised
      BY <2>3, <3>1, <1>3 DEF Forward, Truthful, Active
    <3>. QED
      BY <2>3, <3>2, <1>2 DEF Forward, Told
  <2>4. addressed' = addressed \/ (TellContext(r) /\ req[r].pc = "context") \/ Forward(r)
    BY DEF RequestStep, Load, KeepSession, SkipUpgrade, RequestLock, Reload,
       ReloadFails, ResetInitialisation, AnswerInit, SaveInit, AnswerContext,
       MarkCompleted, UpgradeFails, NeedInit, ReloadBeforeSend,
       SaveAfterReply, GiveUp, ai
  <2>. QED
    BY <2>1, <2>2, <2>3, <2>4
<1>. QED
  BY <1>2, <1>6, <1>8, <1>9 DEF SessionShape, Truthful, RequestSession

\* Rivals write what was true, and a raised version leaves every copy older.
LEMMA SessionOther ==
  ASSUME TypeOK, TypeOK', Told, SessionShape, lowered' = 0, lowered = 0,
         Deploy \/ UNCHANGED vars \/ \E x \in Rival : RivalReads(x) \/ RivalSaves(x)
  PROVE  Told' /\ SessionShape'
<1>1. initialised' = initialised /\ addressed' = addressed
  BY DEF Deploy, vars, ai, RivalReads, RivalSaves
<1>2. system' >= system /\ system \in Nat /\ system' \in Nat /\ system # 0
  <2>1. system \in Nat /\ system' \in Nat
    BY Versions DEF TypeOK
  <2>. QED
    BY <2>1 DEF SessionShape, Deploy, vars, RivalReads, RivalSaves
<1>3. \A c \in Copies' : Truthful(c)'
  <2>1. \A c \in Copies : Truthful(c) /\ c.version \in Nat
    BY CopyTypes DEF SessionShape, Truthful
  <2>2. \A c \in Copies : Truthful(c)'
    BY <2>1, <1>1, <1>2 DEF Truthful
  <2>. QED
    BY <2>2, CopiesOfOthers
<1>4. \A r \in Request : RequestSession(r)'
  <2>1. CASE Deploy
    <3>1. \A r \in Request : req'[r].pc \in {"new", "done"}
      BY <2>1 DEF Deploy, TypeOK, RequestState
    <3>. QED
      BY <3>1 DEF RequestSession
  <2>2. CASE req' = req /\ system' = system
    BY <2>2, <1>1 DEF SessionShape, RequestSession, Older
  <2>. QED
    BY <2>1, <2>2 DEF vars, RivalReads, RivalSaves
<1>. QED
  BY <1>1, <1>2, <1>3, <1>4 DEF Told, SessionShape, Truthful, RequestSession

\* The initial document tells the truth.
LEMMA SessionInit == Init /\ lowered = 0 => Told /\ SessionShape
<1>. SUFFICES ASSUME Init, lowered = 0 PROVE Told /\ SessionShape
  OBVIOUS
<1>1. system \in Version /\ system # 0 /\ system \in Nat /\ system > 0
  BY VersionAssumption DEF Init, Version, User
<1>2. addressed = {} /\ \A r \in Request : req[r].pc = "new"
  BY DEF Init
<1>3. Truthful(doc)
  <2>1. CASE doc = [version |-> IF system = 0 THEN 1 ELSE system, init |-> FALSE]
    BY <2>1, <1>1 DEF Truthful
  <2>2. CASE system > 1 /\ doc \in [version : {1}, init : BOOLEAN]
    BY <2>2, <1>1 DEF Truthful
  <2>. QED
    BY <2>1, <2>2 DEF Init
<1>. QED
  BY <1>1, <1>2, <1>3, CopiesInit DEF Told, SessionShape, Truthful

-----------------------------------------------------------------------------
(* The invariant, and what follows.                                         *)

\* IInv holds at first ...
LEMMA InvariantInit == Init => IInv
BY TypeInit, LockInit, AccountInit, ContextInit, SessionInit DEF IInv, ReadySession, Told

\* ... and every step keeps it.
LEMMA InvariantStep == IInv /\ [Next]_vars => IInv'
<1>. SUFFICES ASSUME IInv, [Next]_vars PROVE IInv'
  OBVIOUS
<1>1. /\ TypeOK /\ LockShape /\ UpgradesAccounted /\ AccountShape
      /\ ContextFirst /\ ContextShape
      /\ lowered = 0 => Told /\ SessionShape
  BY DEF IInv, ReadySession, Told
<1>2. ASSUME NEW r \in Request, Load(r) \/ RequestStep(r)
      PROVE  IInv'
  <2>1. TypeOK' /\ LockShape'
    BY <1>1, <1>2, TypeRequest, LockRequest
  <2>2. UpgradesAccounted' /\ AccountShape'
    BY <1>1, <1>2, <2>1, AccountRequest
  <2>3. ContextFirst' /\ ContextShape'
    BY <1>1, <1>2, <2>1, ContextRequest
  <2>4. lowered' = 0 => Told' /\ SessionShape'
    BY <1>1, <1>2, SessionRequest, InitialisedGrows
  <2>. QED
    BY <2>1, <2>2, <2>3, <2>4 DEF IInv, ReadySession, Told
<1>3. CASE Deploy \/ UNCHANGED vars \/ \E x \in Rival : RivalReads(x) \/ RivalSaves(x)
  <2>1. TypeOK' /\ LockShape'
    BY <1>1, <1>3, TypeOther, LockOther
  <2>2. UpgradesAccounted' /\ AccountShape'
    BY <1>1, <1>3, <2>1, AccountOther
  <2>3. ContextFirst' /\ ContextShape'
    BY <1>1, <1>3, ContextOther
  <2>4. lowered' = 0 => Told' /\ SessionShape'
    <3>1. lowered' = 0 => lowered = 0
      BY <1>1, <1>3 DEF Deploy, vars, RivalReads, RivalSaves, TypeOK
    <3>. QED
      BY <3>1, <1>1, <1>3, <2>1, SessionOther
  <2>. QED
    BY <2>1, <2>2, <2>3, <2>4 DEF IInv, ReadySession, Told
<1>. QED
  BY <1>2, <1>3 DEF Next

\* The inductive invariant holds of every behaviour.
THEOREM Invariance == Spec => []IInv
BY InvariantInit, InvariantStep, PTL DEF Spec

\* Every variable keeps its type.
THEOREM TypeCorrect == Spec => []TypeOK
<1>1. IInv => TypeOK
  BY DEF IInv
<1>. QED
  BY <1>1, Invariance, PTL

\* The second look at the version under the lock keeps upgrades from being
\* repeated, for any number of messages at once.
THEOREM UpgradesAccountedCorrect == Spec => []UpgradesAccounted
<1>1. IInv => UpgradesAccounted
  BY DEF IInv
<1>. QED
  BY <1>1, Invariance, PTL

\* A session the conversation was moved to is sent an upgrade context before
\* any message of the normal flow.
THEOREM ContextFirstCorrect == Spec => []ContextFirst
<1>1. IInv => ContextFirst
  BY DEF IInv
<1>. QED
  BY <1>1, Invariance, PTL

\* No session of a valid version is told anything before it has read the init
\* instruction, until a deployment lowers the version.
THEOREM ReadySessionCorrect == Spec => []ReadySession
<1>1. IInv => ReadySession
  BY DEF IInv
<1>. QED
  BY <1>1, Invariance, PTL
=============================================================================
