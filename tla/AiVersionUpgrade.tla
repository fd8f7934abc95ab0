--------------------------- MODULE AiVersionUpgrade ---------------------------
(***************************************************************************)
(* prepare_ai_version_for_customer_message of                              *)
(* src/app/services/ai_version_context_service.py for one conversation,    *)
(* with the part of its callers that uses the result: a conversation whose *)
(* version is older than the system's moves to the AI session of the       *)
(* system version, which is initialised and told the history before the    *)
(* version is recorded.                                                    *)
(*                                                                         *)
(*   - a Request is a coroutine that forwards one customer message         *)
(*     (_run_ai_forward_and_reply, or Pancake's counterpart);              *)
(*   - a Rival is any other coroutine that reads the document and later    *)
(*     saves its whole copy (a staff takeover, a profile or status save),  *)
(*     those made for a request before it gets here included.              *)
(*                                                                         *)
(* Versions are numbers: 1 is the baseline "1.0" of documents without a    *)
(* version, 0 a configured value that does not parse.  The AI session of   *)
(* version v is user v ("<sender_id>:v<version>"), and user 0 is the bare  *)
(* sender id.                                                              *)
(***************************************************************************)
EXTENDS Naturals, Sequences, Functions

CONSTANTS
    Request,
    Rival,
    MaxVersion,
    MaxFail,          \* bound on failed calls (AI, database)
    MaxDeploy         \* bound on restarts, each with a system version

ASSUME VersionAssumption == MaxVersion \in Nat \ {0}

Version == 1..MaxVersion
User == 0..MaxVersion
Bare == 0

VARIABLES
    system,           \* settings.ai_conversation_version of this process
    doc,              \* the stored conversation: version, fb_ai_initialized
    lock,             \* holder and waiters of the upgrade lock, in order
    req,              \* local state of each Request
    rival,            \* local state of each Rival
    initialised,      \* AI users that have read the init instruction
    contexts,         \* upgrade contexts the AI has been sent, per version
    addressed,        \* history: users sent any customer content
    forwarded,        \* history: users sent a message of the normal flow
    born,             \* history: the version the conversation began with
    rollbacks,        \* history: saves that lowered doc.version
    failures, deploys,
    lowered           \* history: versions deployed that were invalid or lower

ai == <<initialised, contexts, addressed, forwarded>>
vars == <<system, doc, lock, req, rival, ai, born, rollbacks, failures, deploys,
          lowered>>

Doc == [version : Version, init : BOOLEAN]
NoCopy == [version |-> 1, init |-> FALSE]

\* "waiting" to "mark": between lock.acquire and lock.release
HeldPC == {"reset", "init", "initsave", "context", "mark"}
NormalPC == {"ready", "ensure", "ensuresave", "answered", "saving"}
RequestPC == {"new", "loaded", "waiting", "done"} \cup HeldPC \cup NormalPC

RequestState == [pc : RequestPC, text : BOOLEAN, copy : Doc, user : User]
RivalState == [pc : {"new", "holding", "done"}, copy : Doc]

TypeOK ==
    /\ system \in User
    /\ doc \in Doc
    /\ lock \in Seq(Request)
    /\ req \in [Request -> RequestState]
    /\ rival \in [Rival -> RivalState]
    /\ initialised \subseteq User
    /\ contexts \in [Version -> Nat]
    /\ addressed \subseteq User
    /\ forwarded \subseteq User
    /\ born \in Version
    /\ rollbacks \in Nat /\ failures \in Nat /\ deploys \in Nat /\ lowered \in Nat

\* A conversation created by this version of the code, or one from before
\* versions existed, whose session is the bare sender id.
Init ==
    /\ system \in User
    /\ \/ /\ doc = [version |-> IF system = 0 THEN 1 ELSE system, init |-> FALSE]
          /\ initialised = {}
       \/ /\ system > 1
          /\ doc \in [version : {1}, init : BOOLEAN]
          /\ initialised = IF doc.init THEN {Bare} ELSE {}
    /\ born = doc.version
    /\ lock = <<>>
    /\ req = [r \in Request |->
                 [pc |-> "new", text |-> TRUE, copy |-> NoCopy, user |-> Bare]]
    /\ rival = [x \in Rival |-> [pc |-> "new", copy |-> NoCopy]]
    /\ contexts = [v \in Version |-> 0]
    /\ addressed = {} /\ forwarded = {}
    /\ rollbacks = 0 /\ failures = 0 /\ deploys = 0
    /\ lowered = IF system = 0 THEN 1 ELSE 0

-----------------------------------------------------------------------------
\* compare_conversation_version: OLDER; the other valid results are SAME and
\* NEWER
Older(c) == system # 0 /\ c.version < system

\* select_ai_user_for_existing_flow for a conversation that is not OLDER
UserOf(c) == IF system = 0 THEN Bare ELSE c.version

\* mutation of Save: the document is replaced by the field that changed
SaveVersionOnly(c) ==
    /\ doc' = [version |-> c.version]
    /\ UNCHANGED rollbacks

\* conversation.save() writes the whole copy
Save(c) ==
    /\ doc' = c
    /\ rollbacks' = rollbacks + IF c.version < doc.version THEN 1 ELSE 0

\* mutation of Release: a request that gives up leaves the lock behind
KeepLock(r) == lock' = lock

Release(r) == lock' = Tail(lock)

Holds(r) == lock # <<>> /\ Head(lock) = r

-----------------------------------------------------------------------------
(* Entering prepare_ai_version_for_customer_message.                        *)

\* the caller reads the conversation; text: the message has content left
\* when its URLs are removed
Load(r) ==
    /\ req[r].pc = "new"
    /\ \E text \in BOOLEAN :
          req' = [req EXCEPT ![r].pc = "loaded", ![r].text = text, ![r].copy = doc]
    /\ UNCHANGED <<system, doc, lock, rival, ai, born, rollbacks, failures, deploys,
                   lowered>>

\* SAME, NEWER or INVALID
KeepSession(r) ==
    /\ req[r].pc = "loaded"
    /\ ~Older(req[r].copy)
    /\ req' = [req EXCEPT ![r].pc = "ready", ![r].user = UserOf(req[r].copy)]
    /\ UNCHANGED <<system, doc, lock, rival, ai, born, rollbacks, failures, deploys,
                   lowered>>

\* unsupported_current_message_for_version_context
SkipUpgrade(r) ==
    /\ req[r].pc = "loaded"
    /\ Older(req[r].copy) /\ ~req[r].text
    /\ req' = [req EXCEPT ![r].pc = "ready", ![r].user = Bare]
    /\ UNCHANGED <<system, doc, lock, rival, ai, born, rollbacks, failures, deploys,
                   lowered>>

\* ai_version_upgrade_lock: asyncio.Lock serves its waiters in order
RequestLock(r) ==
    /\ req[r].pc = "loaded"
    /\ Older(req[r].copy) /\ req[r].text
    /\ lock' = Append(lock, r)
    /\ req' = [req EXCEPT ![r].pc = "waiting"]
    /\ UNCHANGED <<system, doc, rival, ai, born, rollbacks, failures, deploys,
                   lowered>>

-----------------------------------------------------------------------------
(* Under the lock.                                                          *)

\* mutation of Recheck: the version seen before waiting is trusted
NoRecheck(r, fresh) ==
    /\ req' = [req EXCEPT ![r].pc = "reset", ![r].copy = fresh, ![r].user = system]
    /\ lock' = lock

\* comparison_after_lock: still OLDER, or upgraded by somebody else
Recheck(r, fresh) ==
    \/ /\ Older(fresh)
       /\ req' = [req EXCEPT ![r].pc = "reset", ![r].copy = fresh, ![r].user = system]
       /\ UNCHANGED lock
    \/ /\ ~Older(fresh)
       /\ req' = [req EXCEPT ![r].pc = "ready", ![r].copy = fresh,
                             ![r].user = UserOf(fresh)]
       /\ Release(r)

Reload(r) ==
    /\ req[r].pc = "waiting" /\ Holds(r)
    /\ Recheck(r, doc)
    /\ UNCHANGED <<system, doc, rival, ai, born, rollbacks, failures, deploys,
                   lowered>>

\* the read raised: the copy made before waiting is used
ReloadFails(r) ==
    /\ req[r].pc = "waiting" /\ Holds(r)
    /\ failures < MaxFail
    /\ failures' = failures + 1
    /\ Recheck(r, req[r].copy)
    /\ UNCHANGED <<system, doc, rival, ai, born, rollbacks, deploys,
                   lowered>>

\* mutations of ResetInitialisation: the flag of the old session is kept, so
\* the new one counts as initialised; the version is recorded at once
ResetKeepsFlag(r) ==
    /\ req[r].pc = "reset"
    /\ Save(req[r].copy)
    /\ req' = [req EXCEPT ![r].pc = IF req[r].copy.init THEN "context" ELSE "init"]
    /\ UNCHANGED <<system, lock, rival, ai, born, failures, deploys,
                   lowered>>

ResetRecordsVersion(r) ==
    /\ req[r].pc = "reset"
    /\ LET c == [version |-> req[r].user, init |-> FALSE] IN
          /\ Save(c)
          /\ req' = [req EXCEPT ![r].pc = "init", ![r].copy = c]
    /\ UNCHANGED <<system, lock, rival, ai, born, failures, deploys,
                   lowered>>

\* reset_ai_initialization_for_version_session
ResetInitialisation(r) ==
    /\ req[r].pc = "reset"
    /\ LET c == [req[r].copy EXCEPT !.init = FALSE] IN
          /\ Save(c)
          /\ req' = [req EXCEPT ![r].pc = "init", ![r].copy = c]
    /\ UNCHANGED <<system, lock, rival, ai, born, failures, deploys,
                   lowered>>

\* _ensure_sender_initialized: the AI answers the init instruction ...
AnswerInit(r) ==
    /\ req[r].pc \in {"init", "ensure"}
    /\ initialised' = initialised \cup {req[r].user}
    /\ req' = [req EXCEPT ![r].pc = IF @ = "init" THEN "initsave" ELSE "ensuresave"]
    /\ UNCHANGED <<system, doc, lock, rival, contexts, addressed, forwarded,
                   born, rollbacks, failures, deploys,
                   lowered>>

\* ... and the flag is saved
SaveInit(r) ==
    /\ req[r].pc \in {"initsave", "ensuresave"}
    /\ LET c == [req[r].copy EXCEPT !.init = TRUE] IN
          /\ Save(c)
          /\ req' = [req EXCEPT ![r].copy = c,
                       ![r].pc = IF @ = "initsave" THEN "context" ELSE "ready"]
    /\ UNCHANGED <<system, lock, rival, ai, born, failures, deploys,
                   lowered>>

TellContext(r) ==
    /\ contexts' = [contexts EXCEPT ![req[r].user] = @ + 1]
    /\ addressed' = addressed \cup {req[r].user}
    /\ UNCHANGED <<initialised, forwarded>>

\* send_ai_message: what could be read of the history, and the current
\* message, answered by the AI
AnswerContext(r) ==
    /\ req[r].pc = "context"
    /\ TellContext(r)
    /\ req' = [req EXCEPT ![r].pc = "mark"]
    /\ UNCHANGED <<system, doc, lock, rival, born, rollbacks, failures, deploys,
                   lowered>>

\* mark_conversation_version_completed; the AI's answer becomes the reply
MarkCompleted(r) ==
    /\ req[r].pc = "mark"
    /\ LET c == [req[r].copy EXCEPT !.version = req[r].user] IN
          /\ Save(c)
          /\ req' = [req EXCEPT ![r].pc = "answered", ![r].copy = c]
    /\ Release(r)
    /\ UNCHANGED <<system, rival, ai, born, failures, deploys,
                   lowered>>

\* a step of the upgrade failed or raised; a context whose answer was lost
\* has been read all the same
UpgradeFails(r) ==
    /\ req[r].pc \in HeldPC
    /\ failures < MaxFail
    /\ failures' = failures + 1
    /\ \/ UNCHANGED ai
       \/ req[r].pc = "context" /\ TellContext(r)
    /\ req' = [req EXCEPT ![r].pc = "done"]
    /\ Release(r)
    /\ UNCHANGED <<system, doc, rival, born, rollbacks, deploys,
                   lowered>>

-----------------------------------------------------------------------------
(* The callers' normal flow, with the AI user that was selected.            *)

\* the copy says that the session has not read the instruction
NeedInit(r) ==
    /\ req[r].pc = "ready" /\ ~req[r].copy.init
    /\ req' = [req EXCEPT ![r].pc = "ensure"]
    /\ UNCHANGED <<system, doc, lock, rival, ai, born, rollbacks, failures, deploys,
                   lowered>>

Forward(r) ==
    /\ req[r].pc = "ready" /\ req[r].copy.init
    /\ addressed' = addressed \cup {req[r].user}
    /\ forwarded' = forwarded \cup {req[r].user}
    /\ req' = [req EXCEPT ![r].pc = "answered"]
    /\ UNCHANGED <<system, doc, lock, rival, initialised, contexts, born,
                   rollbacks, failures, deploys,
                   lowered>>

\* the conversation is read again before the reply is sent, and the old copy
\* kept when that fails; a paused conversation gets no reply ...
ReloadBeforeSend(r) ==
    /\ req[r].pc = "answered"
    /\ \E pc \in {"saving", "done"} :
          \/ /\ req' = [req EXCEPT ![r].pc = pc, ![r].copy = doc]
             /\ UNCHANGED failures
          \/ /\ failures < MaxFail
             /\ failures' = failures + 1
             /\ req' = [req EXCEPT ![r].pc = pc]
    /\ UNCHANGED <<system, doc, lock, rival, ai, born, rollbacks, deploys,
                   lowered>>

\* ... and saved after it
SaveAfterReply(r) ==
    /\ req[r].pc = "saving"
    /\ Save(req[r].copy)
    /\ req' = [req EXCEPT ![r].pc = "done"]
    /\ UNCHANGED <<system, lock, rival, ai, born, failures, deploys,
                   lowered>>

\* an AI, database or send call failed
GiveUp(r) ==
    /\ req[r].pc \in NormalPC
    /\ failures < MaxFail
    /\ failures' = failures + 1
    /\ req' = [req EXCEPT ![r].pc = "done"]
    /\ UNCHANGED <<system, doc, lock, rival, ai, born, rollbacks, deploys,
                   lowered>>

RequestStep(r) ==
    \/ KeepSession(r) \/ SkipUpgrade(r) \/ RequestLock(r)
    \/ Reload(r) \/ ReloadFails(r) \/ ResetInitialisation(r)
    \/ AnswerInit(r) \/ SaveInit(r) \/ AnswerContext(r) \/ MarkCompleted(r)
    \/ UpgradeFails(r)
    \/ NeedInit(r) \/ Forward(r) \/ ReloadBeforeSend(r) \/ SaveAfterReply(r)
    \/ GiveUp(r)

-----------------------------------------------------------------------------
(* Other writers, and deployments.                                          *)

RivalReads(x) ==
    /\ rival[x].pc = "new"
    /\ rival' = [rival EXCEPT ![x] = [pc |-> "holding", copy |-> doc]]
    /\ UNCHANGED <<system, doc, lock, req, ai, born, rollbacks, failures, deploys,
                   lowered>>

RivalSaves(x) ==
    /\ rival[x].pc = "holding"
    /\ Save(rival[x].copy)
    /\ rival' = [rival EXCEPT ![x].pc = "done"]
    /\ UNCHANGED <<system, lock, req, ai, born, failures, deploys,
                   lowered>>

\* a restart, possibly with another AI_CONVERSATION_VERSION: locks and
\* coroutines are gone, the database and the AI's sessions remain
Deploy ==
    /\ deploys < MaxDeploy
    /\ deploys' = deploys + 1
    /\ system' \in User
    /\ lowered' = lowered + (IF system' < system THEN 1 ELSE 0)
    /\ lock' = <<>>
    /\ req' = [r \in Request |-> IF req[r].pc = "new" THEN req[r]
                                 ELSE [req[r] EXCEPT !.pc = "done"]]
    /\ rival' = [x \in Rival |-> IF rival[x].pc = "new" THEN rival[x]
                                 ELSE [rival[x] EXCEPT !.pc = "done"]]
    /\ UNCHANGED <<doc, ai, born, rollbacks, failures>>

Next ==
    \/ \E r \in Request : Load(r) \/ RequestStep(r)
    \/ \E x \in Rival : RivalReads(x) \/ RivalSaves(x)
    \/ Deploy

Spec == Init /\ [][Next]_vars

\* the event loop runs every coroutine that can move
FairSpec == Spec /\ \A r \in Request : WF_vars(RequestStep(r))

-----------------------------------------------------------------------------
\* The sessions of valid versions are told nothing before they have read the
\* init instruction, although one flag serves every session of the
\* conversation, stale copies of it are saved and upgrades break off half
\* way.  (Until a deployment lowers the version or makes it
\* unparsable.)
ReadySession == lowered = 0 => addressed \ {Bare} \subseteq initialised

\* A session the conversation was moved to has been sent an upgrade context
\* before it gets a message of the normal flow.
ContextFirst == \A v \in forwarded : v > born => contexts[v] > 0

\* The lock and the second look at the version keep upgrades from being
\* repeated: each repetition is paid for by a failed call, a restart, or a
\* stale save that lowered the version again.
UpgradesAccounted ==
    \A v \in Version : contexts[v] <= 1 + failures + deploys + rollbacks

\* Every request ends: the lock is released on every path, in order.
EveryRequestEnds ==
    \A r \in Request : (req[r].pc = "loaded") ~> (req[r].pc = "done")

-----------------------------------------------------------------------------
(* The inductive invariant of AiVersionUpgradeProofs.                       *)

\* The lock holds exactly the requests inside it, once; only its head is past
\* the wait, and it upgrades an older conversation to the system's version.
LockShape ==
    /\ IsInjective(lock)
    /\ \A r \in Request :
          /\ r \in Range(lock) <=> req[r].pc \in {"waiting"} \cup HeldPC
          /\ req[r].pc \in HeldPC => Holds(r) /\ req[r].user = system
          /\ req[r].pc \in HeldPC => Older(req[r].copy)

Copies == {doc} \cup {req[r].copy : r \in {q \in Request : req[q].pc \notin {"new", "done"}}}
              \cup {rival[x].copy : x \in {y \in Rival : rival[y].pc = "holding"}}

\* No copy has a version above the system's or claims to be initialised for
\* it when the session is not; a request that speaks next has its session.
SessionShape ==
    /\ system # 0
    /\ \A c \in Copies : c.version <= system
    /\ \A c \in Copies : c.version = system /\ c.init => system \in initialised
    /\ \A r \in Request :
          /\ req[r].pc \in {"initsave", "context", "mark"} => system \in initialised
          /\ req[r].pc \in {"ready", "ensure", "ensuresave"} =>
                req[r].user = IF Older(req[r].copy) THEN Bare ELSE req[r].copy.version
          /\ req[r].pc = "ensuresave" => req[r].user \in initialised

\* Every version the conversation was moved to has had its context.
ContextShape ==
    /\ \A c \in Copies : c.version > born => contexts[c.version] > 0
    /\ \A r \in Request :
          /\ req[r].pc = "mark" => contexts[req[r].user] > 0
          /\ req[r].pc \in {"ready", "ensure", "ensuresave"} =>
                req[r].user \in {Bare, req[r].copy.version}

Paid == failures + deploys + rollbacks

\* When the account of a version is used up, its upgrade is recorded or about
\* to be; nobody is on the way to another one.
AccountShape ==
    /\ \A v \in Version : contexts[v] <= Paid
             \/ doc.version >= v
             \/ \E r \in Request : req[r].pc = "mark" /\ req[r].user = v
    /\ \A r \in Request :
          req[r].pc \in {"reset", "init", "initsave", "context"} =>
              contexts[req[r].user] <= Paid

IInv ==
    /\ TypeOK /\ LockShape
    /\ UpgradesAccounted /\ AccountShape
    /\ ContextFirst /\ ContextShape
    /\ ReadySession /\ (lowered = 0 => SessionShape)
=============================================================================
