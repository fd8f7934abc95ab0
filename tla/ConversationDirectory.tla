------------------------ MODULE ConversationDirectory ------------------------
(***************************************************************************)
(* The conversation documents of one customer: who creates them, their     *)
(* status and their order note.                                            *)
(*                                                                         *)
(*   - a Worker is one run of a webhook from its lookup of the document    *)
(*     to its last save (facebook_webhook.py; those in Pancake run in      *)
(*     pancake_webhook.py, where a thread has a document of its own);      *)
(*   - a Note is one POST /order-notes, which the AI sends of its own      *)
(*     accord for a conversation id it was told (order_note_service.py);   *)
(*   - a Desk is one request of the dashboard: PATCH, DELETE or POST       *)
(*     /conversations (conversation_service.py).                           *)
(*                                                                         *)
(* Each reads the document, gives way, and saves the whole of its copy;    *)
(* save() writes a document that was deleted meanwhile anew.               *)
(***************************************************************************)
EXTENDS Naturals, Sequences, FiniteSets, Functions

CONSTANTS
    Conv, NoConv,     \* ids of conversation documents
    Worker, Pancake,  \* runs of a webhook; those of pancake_webhook.py
    Note,             \* calls of POST /order-notes
    Desk,             \* requests of the dashboard
    Casts             \* the sets of actors of which one comes (the bound)

Actor == Worker \cup Note \cup Desk

ASSUME ActorAssumption ==
    /\ Pancake \subseteq Worker
    /\ Worker \cap Note = {} /\ Worker \cap Desk = {} /\ Note \cap Desk = {}
    /\ NoConv \notin Conv
    /\ Casts \subseteq SUBSET Actor

Status == {"new", "confirmed", "handover", "apilimit", "order_pending"}
Escalated == {"handover", "apilimit"}

VARIABLES
    docs,             \* the stored documents
    written,          \* every id ever inserted
    told,             \* ids the AI was told
    act,              \* the run of each Actor
    kept,             \* history: of each document the notes and escalations
                      \* that no rule and no older copy took away
    escalated,        \* history: ids that were ever to be confirmed
    excused           \* history: ids written by the desk, after a deletion, or
                      \* after another that the lookup could not see

vars == <<docs, written, told, act, kept, escalated, excused>>

\* note: the calls whose lines it holds; thread: it has a Pancake thread id
Doc == [status : Status, note : Seq(Note), active : BOOLEAN, thread : BOOLEAN]
Fresh(status, thread) ==
    [status |-> status, note |-> <<>>, active |-> TRUE, thread |-> thread]
NoDoc == [status |-> "none", note |-> <<>>, active |-> FALSE, thread |-> FALSE]

Existing == {c \in Conv : docs[c] # NoDoc}

\* A copy and what was kept when it was read; known: the ids written when the
\* lookup found none; drop: what saving the copy takes away by rule.
NoRead == [copy |-> NoDoc, seen |-> {}]
Blank == [pc |-> "begin", id |-> NoConv, own |-> NoRead, crud |-> NoRead,
          known |-> {}, drop |-> {}]
Done == [Blank EXCEPT !.pc = "done"]

\* The document a customer may have from before, perhaps deactivated.
Before == [status : {"new"}, note : {<<>>}, active : BOOLEAN, thread : {FALSE}]

Init ==
    /\ docs \in {[c \in Conv |-> NoDoc]} \cup
                {[c \in Conv |-> IF c = b THEN d ELSE NoDoc] :
                    b \in Conv, d \in Before}
    /\ written = Existing
    /\ told = {}
    /\ \E cast \in Casts : act = [a \in Actor |-> IF a \in cast THEN Blank ELSE Done]
    /\ kept = [c \in Conv |-> {}]
    /\ escalated = {} /\ excused = {}

-----------------------------------------------------------------------------
(* Reading and saving a document.                                          *)

\* mutation of Visible: only active documents are looked up
VisibleActive == {c \in Existing : docs[c].active}
Visible == Existing

Read(c) == [copy |-> docs[c], seen |-> kept[c]]
Threads == {c \in Existing : docs[c].thread}
Unused == Conv \ written

\* The unique index of Pancake threads refuses a second document of one.
CanSave(c, copy) == docs[c] # NoDoc \/ ~copy.thread \/ Threads = {}

\* save(): the whole copy, whatever is stored by now.  adds is what this save
\* itself acknowledges.
Save(c, read, drop, adds) ==
    /\ CanSave(c, read.copy)
    /\ docs' = [docs EXCEPT ![c] = read.copy]
    /\ kept' = [kept EXCEPT ![c] = ((@ \cap read.seen) \ drop) \cup adds]
    /\ escalated' = IF read.copy.status \in Escalated THEN escalated \cup {c}
                                                     ELSE escalated
    /\ excused' = IF docs[c] = NoDoc THEN excused \cup {c} ELSE excused
    /\ UNCHANGED written

Insert(c, doc) ==
    /\ docs' = [docs EXCEPT ![c] = doc]
    /\ written' = written \cup {c}
    /\ UNCHANGED kept

StoreUnchanged == UNCHANGED <<docs, written, kept, escalated, excused>>

Become(a, run) == act' = [act EXCEPT ![a] = run]
End(a) == Become(a, Done)

-----------------------------------------------------------------------------
(* A run of a webhook.                                                     *)

Facebook == Worker \ Pancake

\* An inactive document is found too, and made active.
Found(c) == [Blank EXCEPT !.pc = IF docs[c].active THEN "found" ELSE "revive",
                          !.id = c,
                          !.own = [Read(c) EXCEPT !.copy.active = TRUE]]

\* The latest document by updated_at is found: any, since saving an older copy
\* sets that back.  A customer without any gets one, after another wait.
Look(w) ==
    /\ w \in Facebook /\ act[w].pc = "begin"
    /\ \/ \E c \in Visible : Become(w, Found(c))
       \/ /\ Visible = {}
          /\ Become(w, [Blank EXCEPT !.pc = "insert", !.known = written])
    /\ StoreUnchanged /\ UNCHANGED told

\* customer_id has no unique index: nothing stops a second document.
Create(w) ==
    /\ act[w].pc = "insert"
    /\ \E c \in Unused :
        /\ Insert(c, Fresh("new", FALSE))
        /\ excused' = IF written \subseteq act[w].known
                      THEN excused ELSE excused \cup {c}
        /\ Become(w, [Blank EXCEPT !.pc = "found", !.id = c,
                                   !.own.copy = Fresh("new", FALSE)])
    /\ UNCHANGED <<told, escalated>>

\* One upsert by the key of the thread, then a read of what it left.
Upsert(w) ==
    /\ w \in Pancake /\ act[w].pc = "begin"
    /\ \E c \in IF Threads # {} THEN Threads ELSE Unused :
        LET doc == IF Threads # {} THEN [docs[c] EXCEPT !.active = TRUE]
                                   ELSE Fresh("new", TRUE)
        IN  /\ Insert(c, doc)
            /\ Become(w, [Blank EXCEPT !.pc = "found", !.id = c,
                                       !.own = [copy |-> doc, seen |-> kept[c]]])
    /\ UNCHANGED <<told, escalated, excused>>

\* What a run saves in between: the profile of the customer, a document made
\* active, a pause that has expired, a session of the AI.
SaveCopy(w) ==
    /\ act[w].pc \in {"revive", "found", "reloaded"}
    /\ Save(act[w].id, act[w].own, {}, {})
    /\ Become(w, [act[w] EXCEPT !.pc = IF @ = "revive" THEN "found" ELSE @,
                                !.own.seen = kept'[act[w].id]])
    /\ UNCHANGED told

\* The AI is asked, with the id in the prompt, and answers some time later.
Ask(w) ==
    /\ act[w].pc = "found"
    /\ told' = told \cup {act[w].id}
    /\ Become(w, [act[w] EXCEPT !.pc = "asked"])
    /\ StoreUnchanged

\* The document is read again, after the answer and under the lock of an upgrade
\* of the AI before; the old copy serves when that fails or it is gone.
Reload(w) ==
    /\ act[w].pc \in {"found", "asked"}
    /\ \E fresh \in {act[w].own} \cup {Read(c) : c \in {act[w].id} \cap Existing} :
        Become(w, [act[w] EXCEPT !.pc = IF @ = "asked" THEN "reloaded" ELSE @,
                                !.own = fresh])
    /\ StoreUnchanged /\ UNCHANGED told

HandedOver(read, w) == [copy |-> [read.copy EXCEPT !.status = "handover"],
                        seen |-> read.seen \cup {w}]

\* A reply that hands over (facebook): the service reads and saves a copy of
\* its own, unless the status is there already ...
CallHandover(w) ==
    /\ w \in Facebook /\ act[w].pc = "reloaded" /\ docs[act[w].id] # NoDoc
    /\ LET c == act[w].id
       IN  IF docs[c].status = "handover"
           THEN /\ kept' = [kept EXCEPT ![c] = @ \cup {w}]
                /\ Become(w, [act[w] EXCEPT !.pc = "replying",
                                            !.own = HandedOver(@, w)])
           ELSE /\ UNCHANGED kept
                /\ Become(w, [act[w] EXCEPT !.pc = "escalating",
                       !.crud = [Read(c) EXCEPT !.copy.status = "handover"]])
    /\ UNCHANGED <<docs, written, told, escalated, excused>>

\* ... and the run sets the status of its own copy once that is saved.
SaveHandover(w) ==
    /\ act[w].pc = "escalating"
    /\ Save(act[w].id, act[w].crud, {}, {w})
    /\ Become(w, [act[w] EXCEPT !.pc = "replying", !.crud = NoRead,
                                !.own = HandedOver(@, w)])
    /\ UNCHANGED told

\* A quota reply, a repeated reply or a handover (pancake): the run's own copy
\* is changed and saved; a save that fails leaves the copy changed.
Escalate(w, status) ==
    /\ w \in Pancake /\ act[w].pc \in {"found", "reloaded"}
    /\ LET own == [act[w].own EXCEPT !.copy.status = status]
       IN  \/ /\ Save(act[w].id, own, {}, {w})
              /\ Become(w, [act[w] EXCEPT !.pc = "replying",
                       !.own = [own EXCEPT !.seen = kept'[act[w].id]]])
           \/ /\ Become(w, [act[w] EXCEPT !.pc = "replying", !.own = own])
              /\ StoreUnchanged
    /\ UNCHANGED told

\* The messages are saved, and the document with them.
Finish(w) ==
    /\ act[w].pc \in {"reloaded", "replying"}
    /\ Save(act[w].id, act[w].own, {}, {})
    /\ End(w)
    /\ UNCHANGED told

\* A pause, a reply that cannot be sent or a failing call ends the run; a
\* failing handover only ends the handover.
GiveUp(w) ==
    /\ act[w].pc \notin {"begin", "done"}
    /\ IF act[w].pc = "escalating"
       THEN Become(w, [act[w] EXCEPT !.pc = "replying", !.crud = NoRead])
       ELSE End(w)
    /\ StoreUnchanged /\ UNCHANGED told

WorkerStep(w) ==
    \/ Look(w) \/ Create(w) \/ Upsert(w) \/ SaveCopy(w) \/ Ask(w) \/ Reload(w)
    \/ CallHandover(w) \/ SaveHandover(w)
    \/ \E status \in Escalated : Escalate(w, status)
    \/ Finish(w) \/ GiveUp(w)

-----------------------------------------------------------------------------
(* POST /order-notes.                                                      *)

\* mutation of NoteLines: the lines always start anew
NoteLinesAnew(doc, n) == <<n>>

\* Lines are added while the order is pending, otherwise they start anew.
NoteLines(doc, n) ==
    IF doc.status = "order_pending" THEN Append(doc.note, n) ELSE <<n>>

ReadForNote(n) ==
    /\ act[n].pc = "begin"
    /\ \E c \in told :
        IF docs[c] = NoDoc
        THEN End(n)
        ELSE Become(n, [Blank EXCEPT !.pc = "save", !.id = c,
                 !.own = [Read(c) EXCEPT !.copy.status = "order_pending",
                                         !.copy.note = NoteLines(docs[c], n)],
                 !.drop = Worker \cup (IF docs[c].status = "order_pending"
                                       THEN {} ELSE Note)])
    /\ StoreUnchanged /\ UNCHANGED told

SaveNote(n) ==
    /\ act[n].pc = "save"
    /\ Save(act[n].id, act[n].own, act[n].drop, {n})
    /\ End(n)
    /\ UNCHANGED told

-----------------------------------------------------------------------------
(* The dashboard.                                                          *)

\* mutation of MayBecome: whatever the status is
MayBecomeAny(doc, status) == doc.status # status

\* Only what is escalated can be confirmed.
MayBecome(doc, status) ==
    /\ doc.status # status
    /\ status = "confirmed" => doc.status \in Escalated

\* An order that is dealt with loses its note.
Cleared(doc, status) == doc.status = "order_pending" /\ status = "new"

\* PATCH of the status, of is_active or of what is not modelled; the DELETE
\* that only deactivates reads and saves like it.
ReadForPatch(k) ==
    /\ act[k].pc = "begin"
    /\ \E c \in Existing, status \in Status, active \in BOOLEAN :
        LET doc == docs[c]
            cleared == Cleared(doc, status)
            moved == status # doc.status
        IN  IF moved /\ ~MayBecome(doc, status)
            THEN End(k)
            ELSE Become(k, [Blank EXCEPT !.pc = "save", !.id = c,
                     !.own = [Read(c) EXCEPT !.copy.status = status,
                                 !.copy.active = active,
                                 !.copy.note = IF cleared THEN <<>> ELSE @],
                     !.drop = (IF moved THEN Worker ELSE {})
                              \cup (IF cleared THEN Note ELSE {})])
    /\ StoreUnchanged /\ UNCHANGED told

SavePatch(k) ==
    /\ act[k].pc = "save"
    /\ Save(act[k].id, act[k].own, act[k].drop, {})
    /\ End(k)
    /\ UNCHANGED told

\* DELETE for good.
Delete(k) ==
    /\ act[k].pc = "begin"
    /\ \E c \in Existing :
        /\ docs' = [docs EXCEPT ![c] = NoDoc]
        /\ kept' = [kept EXCEPT ![c] = {}]
    /\ End(k)
    /\ UNCHANGED <<written, told, escalated, excused>>

\* POST: a document with any status.
Post(k) ==
    /\ act[k].pc = "begin"
    /\ \E c \in Unused, status \in Status :
        /\ Insert(c, Fresh(status, FALSE))
        /\ escalated' = IF status \in Escalated \cup {"confirmed"}
                        THEN escalated \cup {c} ELSE escalated
        /\ excused' = excused \cup {c}
    /\ End(k)
    /\ UNCHANGED told

Next ==
    \/ \E w \in Worker : WorkerStep(w)
    \/ \E n \in Note : ReadForNote(n) \/ SaveNote(n)
    \/ \E k \in Desk : ReadForPatch(k) \/ SavePatch(k) \/ Delete(k) \/ Post(k)

Spec == Init /\ [][Next]_vars

-----------------------------------------------------------------------------
(* What must hold.                                                         *)

\* An order note whose call was answered stays in the document until the
\* dashboard clears it, a new list of lines begins or an older copy is saved
\* over it; an escalation stays a status that asks for a human until somebody
\* decides on the status or an older copy is saved over it.  Nobody who read
\* the document after the note or the escalation takes it away by saving.
AcknowledgedKept ==
    \A c \in Existing :
        /\ kept[c] \cap Note \subseteq Range(docs[c].note)
        /\ kept[c] \cap Worker # {} => docs[c].status \in Escalated

\* A confirmed conversation was once escalated to a human (or created so by the
\* dashboard), whatever copies were saved over each other since.
ConfirmedWasEscalated ==
    \A c \in Existing : docs[c].status = "confirmed" => c \in escalated

\* Outside Pancake threads a customer has one document, unless a run of a
\* webhook inserted its own without seeing another, the dashboard created one
\* or a copy brought a deleted one back: no lookup passes over a document.
OneConversation ==
    Cardinality({c \in Existing : ~docs[c].thread} \ excused) <= 1

-----------------------------------------------------------------------------
(* The inductive invariant of ConversationDirectoryProofs.                  *)

PC == {"begin", "insert", "revive", "found", "asked", "reloaded", "escalating",
       "replying", "save", "done"}
Taken == [copy : Doc \cup {NoDoc}, seen : SUBSET Actor]
Run == [pc : PC, id : Conv \cup {NoConv}, own : Taken, crud : Taken,
        known : SUBSET Conv, drop : SUBSET Actor]

TypeOK ==
    /\ docs \in [Conv -> Doc \cup {NoDoc}]
    /\ written \subseteq Conv /\ told \subseteq written
    /\ act \in [Actor -> Run]
    /\ kept \in [Conv -> SUBSET Actor]
    /\ escalated \subseteq Conv /\ excused \subseteq Conv

\* Two documents that no excuse explains are one.
OneUnexcused ==
    \A c, d \in Existing :
        ~docs[c].thread /\ ~docs[d].thread /\ c \notin excused /\ d \notin excused
            => c = d

\* What is stored was written once; what is gone keeps nothing; a document that
\* asks for a human or is confirmed was escalated.
StoreShape ==
    /\ Existing \subseteq written
    /\ \A c \in Conv : docs[c] = NoDoc => kept[c] = {}
    /\ \A c \in Existing :
          docs[c].status \in Escalated \cup {"confirmed"} => c \in escalated

\* A copy that may be saved holds what was kept when it was read, is confirmed
\* only with reason and is of the same kind as what it will replace.
Sound(c, read, drop) ==
    /\ c \in written /\ read.copy \in Doc
    /\ (read.seen \ drop) \cap Note \subseteq Range(read.copy.note)
    /\ (read.seen \ drop) \cap Worker # {} => read.copy.status \in Escalated
    /\ read.copy.status = "confirmed" => c \in escalated
    /\ docs[c] # NoDoc /\ c \notin excused => read.copy.thread = docs[c].thread

\* What the run of an actor holds, by the place it has reached.
Fits(a, run) ==
    /\ a \in Worker => run.drop = {}
    /\ run.pc = "insert" =>
          \A c \in run.known : c \in written /\ (docs[c] = NoDoc \/ c \in excused)
    /\ run.pc \notin {"begin", "insert", "done"} => Sound(run.id, run.own, run.drop)
    /\ run.pc = "escalating" =>
          Sound(run.id, run.crud, {}) /\ run.crud.copy.status = "handover"
    /\ a \in Note /\ run.pc = "save" =>
          Worker \subseteq run.drop /\ a \in Range(run.own.copy.note)

RunShape == \A a \in Actor : Fits(a, act[a])

IInv == TypeOK /\ OneUnexcused /\ StoreShape /\ AcknowledgedKept /\ RunShape
=============================================================================
