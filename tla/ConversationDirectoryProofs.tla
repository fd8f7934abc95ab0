---------------------- MODULE ConversationDirectoryProofs ----------------------
(***************************************************************************)
(* Proofs about ConversationDirectory, for every number of documents,      *)
(* webhook runs, order notes and dashboard requests: IInv is inductive,    *)
(* and the three properties follow from it.                                *)
(*                                                                         *)
(* A step changes one actor's run and, if it saves, inserts or deletes,    *)
(* one document.  Grows says what the latter may not do to the copies of   *)
(* everybody else; each kind of store change is shown to respect it.       *)
(***************************************************************************)
EXTENDS ConversationDirectory, FiniteSetTheorems, TLAPS

\* What the copies of other actors rely on in a step.
Grows ==
    /\ written \subseteq written' /\ escalated \subseteq escalated'
    /\ excused \subseteq excused'
    /\ \A c \in written : \/ docs'[c] = NoDoc \/ c \in excused'
                          \/ docs[c] # NoDoc /\ docs'[c].thread = docs[c].thread

\* The part of IInv that speaks of the store.
StoreInv ==
    /\ docs \in [Conv -> Doc \cup {NoDoc}]
    /\ written \subseteq Conv /\ told \subseteq written
    /\ kept \in [Conv -> SUBSET Actor]
    /\ escalated \subseteq Conv /\ excused \subseteq Conv
    /\ OneUnexcused /\ StoreShape /\ AcknowledgedKept

LEMMA DocKinds ==
  /\ NoDoc \notin Doc
  /\ \A d \in Doc : /\ d.status \in Status /\ d.note \in Seq(Note)
                    /\ d.active \in BOOLEAN /\ d.thread \in BOOLEAN
                    /\ d = [status |-> d.status, note |-> d.note,
                            active |-> d.active, thread |-> d.thread]
<1>1. NoDoc.status = "none" /\ "none" \notin Status
  BY DEF NoDoc, Status
<1>2. \A d \in Doc : d.status \in Status
  BY DEF Doc
<1>3. NoDoc \notin Doc
  BY <1>1, <1>2
<1>. QED
  BY <1>3 DEF Doc

\* A new document has no line and is of the given kind.
LEMMA FreshDoc ==
  ASSUME NEW status \in Status, NEW thread \in BOOLEAN
  PROVE  /\ Fresh(status, thread) \in Doc /\ Fresh(status, thread) # NoDoc
         /\ Fresh(status, thread).status = status
         /\ Fresh(status, thread).thread = thread
<1>1. <<>> \in Seq(Note)
  OBVIOUS
<1>2. Fresh(status, thread) \in Doc
  BY <1>1 DEF Fresh, Doc
<1>. QED
  BY <1>2, DocKinds DEF Fresh

\* A copy that was sound stays so, whatever another actor does.
LEMMA SoundStays ==
  ASSUME NEW c, NEW read, NEW drop, written \subseteq Conv,
         Grows, Sound(c, read, drop)
  PROVE  Sound(c, read, drop)'
BY DEF Grows, Sound

LEMMA FitsStays ==
  ASSUME NEW a \in Actor, NEW run, written \subseteq Conv, Grows, Fits(a, run)
  PROVE  Fits(a, run)'
<1>1. run.pc \notin {"begin", "insert", "done"} => Sound(run.id, run.own, run.drop)'
  BY SoundStays DEF Fits
<1>2. run.pc = "escalating" =>
         Sound(run.id, run.crud, {})' /\ run.crud.copy.status = "handover"
  BY SoundStays DEF Fits
<1>3. run.pc = "insert" =>
         \A c \in run.known : c \in written' /\ (docs'[c] = NoDoc \/ c \in excused')
  BY DEF Fits, Grows
<1>. QED
  BY <1>1, <1>2, <1>3 DEF Fits

\* The step of one actor: the store and its own run are all there is to show.
LEMMA OneRun ==
  ASSUME IInv, StoreInv', Grows, NEW a \in Actor, NEW run \in Run,
         Become(a, run), Fits(a, run)'
  PROVE  IInv'
<1>1. act' \in [Actor -> Run] /\ act'[a] = run
  BY DEF Become, IInv, TypeOK
<1>2. \A b \in Actor \ {a} : act'[b] = act[b]
  BY DEF Become, IInv, TypeOK
<1>3. ASSUME NEW b \in Actor PROVE Fits(b, act[b])'
  <2>1. CASE b = a
    BY <1>1, <2>1 DEF Fits, Sound
  <2>2. CASE b # a
    <3>1. Fits(b, act[b]) /\ written \subseteq Conv
      BY DEF IInv, RunShape, TypeOK
    <3>2. act'[b] = act[b]
      BY <1>2, <2>2
    <3>. PICK old : old = act[b]
      OBVIOUS
    <3>3. Fits(b, old)'
      BY <3>1, FitsStays
    <3>. QED
      BY <3>2, <3>3
  <2>. QED
    BY <2>1, <2>2
<1>. QED
  BY <1>1, <1>3 DEF IInv, TypeOK, StoreInv, RunShape

-----------------------------------------------------------------------------
(* The four kinds of steps of the store.                                   *)

LEMMA NothingStored ==
  ASSUME IInv, UNCHANGED <<docs, written, kept, escalated, excused>>,
         told' \subseteq written
  PROVE  StoreInv' /\ Grows
<1>1. Grows
  BY DEF Grows, IInv, StoreShape, Existing, TypeOK
<1>2. StoreInv'
  BY DEF IInv, TypeOK, StoreInv, OneUnexcused, StoreShape, AcknowledgedKept, Existing
<1>. QED
  BY <1>1, <1>2

\* save(): whatever is stored, what a sound copy puts in its place is sound,
\* and the copy remains so for its owner.
LEMMA SaveKeeps ==
  ASSUME IInv, NEW c \in Conv, NEW read \in Taken, NEW drop \in SUBSET Actor,
         NEW adds \in SUBSET Actor, Sound(c, read, drop), Save(c, read, drop, adds),
         adds \cap Note \subseteq Range(read.copy.note),
         adds \cap Worker # {} => read.copy.status \in Escalated,
         told' = told
  PROVE  /\ StoreInv' /\ Grows
         /\ kept'[c] = ((kept[c] \cap read.seen) \ drop) \cup adds
         /\ docs'[c] = read.copy
         /\ c \in written' /\ kept'[c] \in SUBSET Actor
         /\ kept'[c] \cap Note \subseteq Range(read.copy.note)
         /\ kept'[c] \cap Worker # {} => read.copy.status \in Escalated
         /\ read.copy.status \in Escalated => c \in escalated'
<1>. USE DEF IInv, TypeOK
<1>1. /\ read.copy \in Doc /\ c \in written /\ written' = written
      /\ docs' = [docs EXCEPT ![c] = read.copy]
      /\ kept' = [kept EXCEPT ![c] = ((@ \cap read.seen) \ drop) \cup adds]
  BY DEF Sound, Save
<1>2. docs'[c] = read.copy /\ \A d \in Conv \ {c} : docs'[d] = docs[d]
  BY <1>1
<1>3. /\ kept'[c] = ((kept[c] \cap read.seen) \ drop) \cup adds
      /\ \A d \in Conv \ {c} : kept'[d] = kept[d]
      /\ kept' \in [Conv -> SUBSET Actor]
  BY <1>1
<1>4. /\ escalated \subseteq escalated' /\ escalated' \subseteq Conv
      /\ excused \subseteq excused' /\ excused' \subseteq Conv
      /\ read.copy.status \in Escalated => c \in escalated'
      /\ docs[c] = NoDoc => c \in excused'
      /\ docs[c] # NoDoc => excused' = excused
  BY DEF Save
<1>5. docs'[c] # NoDoc /\ docs' \in [Conv -> Doc \cup {NoDoc}]
  BY <1>1, <1>2, DocKinds
<1>6. docs[c] # NoDoc /\ c \notin excused => docs'[c].thread = docs[c].thread
  BY <1>2 DEF Sound
<1>7. Grows
  BY <1>1, <1>2, <1>4, <1>6 DEF Grows, StoreShape, Existing
<1>8. OneUnexcused'
  BY <1>2, <1>4, <1>6 DEF OneUnexcused, Existing
<1>9. StoreShape'
  <2>1. Existing' \subseteq written'
    BY <1>1, <1>2 DEF Existing, StoreShape
  <2>2. \A d \in Conv : docs'[d] = NoDoc => kept'[d] = {}
    BY <1>2, <1>3, <1>5 DEF StoreShape
  <2>3. read.copy.status \in Escalated \cup {"confirmed"} => c \in escalated'
    BY <1>4 DEF Sound
  <2>4. \A d \in Conv : docs'[d] # NoDoc
            /\ docs'[d].status \in Escalated \cup {"confirmed"} => d \in escalated'
    BY <1>2, <1>4, <2>3 DEF StoreShape, Existing
  <2>. QED
    BY <2>1, <2>2, <2>4 DEF StoreShape, Existing
<1>10. /\ kept'[c] \cap Note \subseteq Range(read.copy.note)
       /\ kept'[c] \cap Worker # {} => read.copy.status \in Escalated
  BY <1>3 DEF Sound
<1>11. AcknowledgedKept'
  BY <1>2, <1>3, <1>10 DEF AcknowledgedKept, Existing
<1>. QED
  BY <1>1, <1>2, <1>3, <1>4, <1>5, <1>7, <1>8, <1>9, <1>10, <1>11 DEF StoreInv

\* A new document, excused unless no other is: it has nothing to keep.
LEMMA InsertKeeps ==
  ASSUME IInv, NEW c \in Unused, NEW status \in Status, NEW thread \in BOOLEAN,
         Insert(c, Fresh(status, thread)), told' = told,
         escalated \subseteq escalated', escalated' \subseteq Conv,
         excused \subseteq excused', excused' \subseteq Conv,
         status \in Escalated \cup {"confirmed"} => c \in escalated',
         thread \/ c \in excused' \/ Existing \subseteq excused
  PROVE  StoreInv' /\ Grows /\ docs'[c] = Fresh(status, thread) /\ c \in written'
<1>. USE DEF IInv, TypeOK
<1>. DEFINE new == Fresh(status, thread)
<1>1. c \in Conv /\ c \notin written /\ docs[c] = NoDoc /\ kept[c] = {}
  BY DEF Unused, StoreShape, Existing
<1>2. /\ docs' = [docs EXCEPT ![c] = new] /\ kept' = kept
      /\ written' = written \cup {c}
  BY DEF Insert
<1>3. /\ new \in Doc /\ new # NoDoc /\ new.status = status /\ new.thread = thread
  BY FreshDoc
<1>4. docs'[c] = new /\ \A d \in Conv \ {c} : docs'[d] = docs[d]
  BY <1>1, <1>2
<1>5. docs' \in [Conv -> Doc \cup {NoDoc}]
  BY <1>1, <1>2, <1>3
<1>. HIDE DEF new
<1>6. Grows
  BY <1>1, <1>2, <1>4 DEF Grows, StoreShape, Existing
<1>7. OneUnexcused'
  BY <1>1, <1>3, <1>4 DEF OneUnexcused, Existing
<1>8. StoreShape'
  <2>1. Existing' \subseteq written'
    BY <1>2, <1>4 DEF Existing, StoreShape
  <2>2. \A d \in Conv : docs'[d] = NoDoc => kept'[d] = {}
    BY <1>1, <1>2, <1>4 DEF StoreShape
  <2>3. \A d \in Conv : docs'[d] # NoDoc
            /\ docs'[d].status \in Escalated \cup {"confirmed"} => d \in escalated'
    BY <1>3, <1>4 DEF StoreShape, Existing
  <2>. QED
    BY <2>1, <2>2, <2>3 DEF StoreShape, Existing
<1>9. AcknowledgedKept'
  BY <1>1, <1>2, <1>4 DEF AcknowledgedKept, Existing
<1>. QED
  BY <1>1, <1>2, <1>4, <1>5, <1>6, <1>7, <1>8, <1>9 DEF StoreInv, new

\* The upsert of a thread that is there: its document is made active.
LEMMA TouchKeeps ==
  ASSUME IInv, NEW c \in Existing, Insert(c, [docs[c] EXCEPT !.active = TRUE]),
         UNCHANGED <<told, escalated, excused>>
  PROVE  /\ StoreInv' /\ Grows
         /\ docs'[c] = [docs[c] EXCEPT !.active = TRUE] /\ c \in written'
<1>. USE DEF IInv, TypeOK
<1>1. c \in Conv /\ docs[c] \in Doc /\ c \in written
  BY DEF Existing, StoreShape
<1>. DEFINE new == [docs[c] EXCEPT !.active = TRUE]
<1>2. /\ new \in Doc /\ new # NoDoc /\ new.status = docs[c].status
      /\ new.note = docs[c].note /\ new.thread = docs[c].thread
  BY <1>1, DocKinds DEF Doc
<1>3. /\ docs' = [docs EXCEPT ![c] = new] /\ written' = written /\ kept' = kept
  BY <1>1 DEF Insert
<1>. HIDE DEF new
<1>4. docs'[c] = new /\ \A d \in Conv \ {c} : docs'[d] = docs[d]
  BY <1>1, <1>3
<1>5. docs' \in [Conv -> Doc \cup {NoDoc}]
  BY <1>1, <1>2, <1>3
<1>6. Grows
  BY <1>1, <1>2, <1>3, <1>4 DEF Grows, StoreShape, Existing
<1>7. OneUnexcused'
  BY <1>1, <1>2, <1>4 DEF OneUnexcused, Existing
<1>8. StoreShape'
  <2>1. Existing' \subseteq written'
    BY <1>1, <1>3, <1>4 DEF Existing, StoreShape
  <2>2. \A d \in Conv : docs'[d] = NoDoc => kept'[d] = {}
    BY <1>2, <1>3, <1>4 DEF StoreShape
  <2>3. \A d \in Conv : docs'[d] # NoDoc
            /\ docs'[d].status \in Escalated \cup {"confirmed"} => d \in escalated'
    BY <1>1, <1>2, <1>4 DEF StoreShape, Existing
  <2>. QED
    BY <2>1, <2>2, <2>3 DEF StoreShape, Existing
<1>9. AcknowledgedKept'
  BY <1>1, <1>2, <1>3, <1>4 DEF AcknowledgedKept, Existing
<1>. QED
  BY <1>1, <1>3, <1>4, <1>5, <1>6, <1>7, <1>8, <1>9 DEF StoreInv, new

\* A deleted document keeps nothing, and its copies may be of any kind.
LEMMA DeleteKeeps ==
  ASSUME IInv, NEW c \in Existing,
         docs' = [docs EXCEPT ![c] = NoDoc], kept' = [kept EXCEPT ![c] = {}],
         UNCHANGED <<written, told, escalated, excused>>
  PROVE  StoreInv' /\ Grows
<1>. USE DEF IInv, TypeOK
<1>1. c \in Conv
  BY DEF Existing
<1>2. docs'[c] = NoDoc /\ \A d \in Conv \ {c} : docs'[d] = docs[d]
  BY <1>1
<1>3. kept'[c] = {} /\ \A d \in Conv \ {c} : kept'[d] = kept[d]
  BY <1>1
<1>4. docs' \in [Conv -> Doc \cup {NoDoc}] /\ kept' \in [Conv -> SUBSET Actor]
  BY <1>1
<1>5. Grows
  BY <1>2 DEF Grows, StoreShape, Existing
<1>6. Existing' \subseteq Existing
  BY <1>2 DEF Existing
<1>7. OneUnexcused'
  BY <1>2, <1>6 DEF OneUnexcused, Existing
<1>8. StoreShape'
  <2>1. Existing' \subseteq written'
    BY <1>6 DEF StoreShape
  <2>2. \A d \in Conv : docs'[d] = NoDoc => kept'[d] = {}
    BY <1>2, <1>3 DEF StoreShape
  <2>3. \A d \in Conv : docs'[d] # NoDoc
            /\ docs'[d].status \in Escalated \cup {"confirmed"} => d \in escalated'
    BY <1>2 DEF StoreShape, Existing
  <2>. QED
    BY <2>1, <2>2, <2>3 DEF StoreShape, Existing
<1>9. AcknowledgedKept'
  BY <1>2, <1>3 DEF AcknowledgedKept, Existing
<1>. QED
  BY <1>4, <1>5, <1>7, <1>8, <1>9 DEF StoreInv

\* A handover that finds its status there already.
LEMMA AcknowledgeKeeps ==
  ASSUME IInv, NEW c \in Existing, NEW w \in Worker, docs[c].status = "handover",
         kept' = [kept EXCEPT ![c] = @ \cup {w}],
         UNCHANGED <<docs, written, told, escalated, excused>>
  PROVE  StoreInv' /\ Grows
<1>. USE DEF IInv, TypeOK
<1>1. c \in Conv /\ docs[c] # NoDoc
  BY DEF Existing
<1>2. kept'[c] = kept[c] \cup {w} /\ \A d \in Conv \ {c} : kept'[d] = kept[d]
  BY <1>1
<1>3. kept' \in [Conv -> SUBSET Actor]
  BY <1>1 DEF Actor
<1>4. Grows
  BY DEF Grows, StoreShape, Existing
<1>5. OneUnexcused'
  BY DEF OneUnexcused, Existing
<1>6. StoreShape'
  <2>1. \A d \in Conv : docs'[d] = NoDoc => kept'[d] = {}
    BY <1>1, <1>2 DEF StoreShape
  <2>. QED
    BY <2>1 DEF StoreShape, Existing
<1>7. AcknowledgedKept'
  <2>1. kept'[c] \cap Note = kept[c] \cap Note
    BY <1>2, ActorAssumption
  <2>2. "handover" \in Escalated
    BY DEF Escalated
  <2>. QED
    BY <1>1, <1>2, <2>1, <2>2 DEF AcknowledgedKept, Existing
<1>. QED
  BY <1>3, <1>4, <1>5, <1>6, <1>7 DEF StoreInv

-----------------------------------------------------------------------------
(* The runs.                                                               *)

LEMMA RunFacts ==
  ASSUME IInv, NEW a \in Actor
  PROVE  /\ act[a] \in Run /\ Fits(a, act[a])
         /\ act[a].pc \in PC /\ act[a].id \in Conv \cup {NoConv}
         /\ act[a].own \in Taken /\ act[a].crud \in Taken
         /\ act[a].known \subseteq Conv /\ act[a].drop \subseteq Actor
<1>1. act[a] \in Run
  BY DEF IInv, TypeOK
<1>. QED
  BY <1>1 DEF IInv, RunShape, Run

LEMMA Blanks ==
  /\ NoRead \in Taken /\ Blank \in Run /\ Done \in Run
  /\ Blank.drop = {} /\ Done.drop = {} /\ Done.pc = "done"
<1>1. NoRead \in Taken
  BY DEF NoRead, Taken
<1>. QED
  BY <1>1 DEF Blank, Done, Run, PC

\* A run that ends holds nothing.
LEMMA Ends ==
  ASSUME IInv, StoreInv', Grows, NEW a \in Actor, End(a)
  PROVE  IInv'
<1>. PICK run : run = Done
  OBVIOUS
<1>1. Fits(a, run)'
  BY Blanks DEF Fits
<1>. QED
  BY <1>1, Blanks, OneRun DEF End

\* What is to show of a run of a webhook that has found its document.
LEMMA WorkerFits ==
  ASSUME NEW w \in Worker, NEW run, run.drop = {},
         run.pc \notin {"insert", "escalating"}, Sound(run.id, run.own, {})'
  PROVE  Fits(w, run)'
BY ActorAssumption DEF Fits

\* A document that is read gives a sound copy.
LEMMA ReadSound ==
  ASSUME IInv, NEW c \in Existing
  PROVE  /\ Read(c) \in Taken /\ Sound(c, Read(c), {})
         /\ Read(c).copy = docs[c] /\ Read(c).seen = kept[c]
<1>1. c \in Conv /\ c \in written /\ docs[c] \in Doc /\ kept[c] \subseteq Actor
  BY DEF IInv, TypeOK, Existing, StoreShape
<1>2. Read(c).copy = docs[c] /\ Read(c).seen = kept[c] /\ Read(c) \in Taken
  BY <1>1 DEF Read, Taken
<1>3. docs[c].status = "confirmed" => c \in escalated
  BY DEF IInv, StoreShape
<1>. QED
  BY <1>1, <1>2, <1>3 DEF IInv, AcknowledgedKept, Sound

-----------------------------------------------------------------------------
(* The steps of a run of a webhook.                                        *)

LEMMA LookKeeps ==
  ASSUME IInv, NEW w \in Worker, Look(w)
  PROVE  IInv'
<1>1. w \in Actor /\ told' \subseteq written /\ StoreInv' /\ Grows
  <2>1. UNCHANGED <<docs, written, kept, escalated, excused>> /\ told' \subseteq written
    BY DEF Look, StoreUnchanged, IInv, TypeOK
  <2>. QED
    BY <2>1, NothingStored DEF Actor
<1>2. CASE \E c \in Visible : Become(w, Found(c))
  <2>1. PICK c \in Existing : Become(w, Found(c))
    BY <1>2 DEF Visible
  <2>. DEFINE copy == [docs[c] EXCEPT !.active = TRUE]
  <2>2. /\ docs[c] \in Doc /\ c \in Conv /\ kept[c] \subseteq Actor
    BY DEF IInv, TypeOK, Existing
  <2>3. /\ copy \in Doc /\ copy.status = docs[c].status
        /\ copy.note = docs[c].note /\ copy.thread = docs[c].thread
    BY <2>2 DEF Doc
  <2>. PICK run : run = Found(c)
    OBVIOUS
  <2>4. /\ run.pc \in {"found", "revive"} /\ run.id = c /\ run.drop = {}
        /\ run.own = [copy |-> copy, seen |-> kept[c]]
    BY DEF Found, Blank, Read
  <2>. HIDE DEF copy
  <2>5. run \in Run
    <3>1. [copy |-> copy, seen |-> kept[c]] \in Taken
      BY <2>2, <2>3 DEF Taken
    <3>. QED
      BY <2>2, <3>1, Blanks DEF Found, Blank, Read, Run, PC, copy
  <2>6. Sound(c, run.own, {})
    BY <2>2, <2>3, <2>4, ReadSound DEF Sound
  <2>7. Sound(run.id, run.own, {})'
    BY <1>1, <2>4, <2>6, SoundStays DEF IInv, TypeOK
  <2>8. Fits(w, run)'
    BY <2>4, <2>7, WorkerFits
  <2>. QED
    BY <1>1, <2>1, <2>5, <2>8, OneRun
<1>3. CASE Visible = {} /\ Become(w, [Blank EXCEPT !.pc = "insert", !.known = written])
  <2>. PICK run : run = [Blank EXCEPT !.pc = "insert", !.known = written]
    OBVIOUS
  <2>1. /\ run.pc = "insert" /\ run.known = written /\ run.drop = {}
    BY DEF Blank
  <2>2. run \in Run
    BY Blanks DEF Blank, Run, PC, IInv, TypeOK
  <2>3. \A c \in written : docs[c] = NoDoc
    BY <1>3 DEF Visible, Existing, IInv, TypeOK
  <2>4. Fits(w, run)'
    BY <2>1, <2>3, ActorAssumption DEF Fits, Look, StoreUnchanged
  <2>. QED
    BY <1>1, <1>3, <2>2, <2>4, OneRun
<1>. QED
  BY <1>2, <1>3 DEF Look

LEMMA CreateKeeps ==
  ASSUME IInv, NEW w \in Worker, Create(w)
  PROVE  IInv'
<1>. DEFINE new == Fresh("new", FALSE)
<1>1. w \in Actor /\ act[w].pc = "insert"
  BY DEF Create, Actor
<1>2. PICK c \in Unused :
        /\ Insert(c, new)
        /\ excused' = IF written \subseteq act[w].known
                      THEN excused ELSE excused \cup {c}
        /\ Become(w, [Blank EXCEPT !.pc = "found", !.id = c, !.own.copy = new])
  BY DEF Create
<1>3. /\ c \in Conv /\ told' = told /\ escalated' = escalated
      /\ excused \subseteq excused' /\ excused' \subseteq Conv
  BY <1>2 DEF Create, Unused, IInv, TypeOK
\* All that was written before the lookup is gone or excused.
<1>4. c \in excused' \/ Existing \subseteq excused
  <2>1. CASE written \subseteq act[w].known
    BY <1>1, <2>1, RunFacts DEF Fits, Existing, IInv, StoreShape
  <2>2. CASE ~(written \subseteq act[w].known)
    BY <1>2, <2>2
  <2>. QED
    BY <2>1, <2>2
<1>5. "new" \in Status /\ "new" \notin Escalated \cup {"confirmed"} /\ FALSE \in BOOLEAN
  BY DEF Status, Escalated
<1>6. escalated \subseteq escalated' /\ escalated' \subseteq Conv
  BY <1>3 DEF IInv, TypeOK
<1>7. StoreInv' /\ Grows /\ docs'[c] = new /\ c \in written'
  BY <1>2, <1>3, <1>4, <1>5, <1>6, InsertKeeps
<1>8. new \in Doc /\ new # NoDoc /\ new.status = "new" /\ new.thread = FALSE
  BY <1>5, FreshDoc
<1>. HIDE DEF new
<1>. PICK run : run = [Blank EXCEPT !.pc = "found", !.id = c, !.own.copy = new]
  OBVIOUS
<1>9. /\ run.pc = "found" /\ run.id = c /\ run.drop = {}
      /\ run.own = [copy |-> new, seen |-> {}]
  BY DEF Blank, NoRead
<1>10. run \in Run
  <2>1. [copy |-> new, seen |-> {}] \in Taken
    BY <1>8 DEF Taken
  <2>. QED
    BY <1>3, <2>1, Blanks DEF Blank, NoRead, Run, PC
<1>11. Sound(run.id, run.own, {})'
  BY <1>7, <1>8, <1>9 DEF Sound
<1>. QED
  BY <1>1, <1>2, <1>7, <1>9, <1>10, <1>11, WorkerFits, OneRun

LEMMA UpsertKeeps ==
  ASSUME IInv, NEW w \in Worker, Upsert(w)
  PROVE  IInv'
<1>1. w \in Actor
  BY DEF Actor
<1>0. PICK c \in Conv : \E doc :
        /\ \/ c \in Threads /\ doc = [docs[c] EXCEPT !.active = TRUE]
           \/ c \in Unused /\ doc = Fresh("new", TRUE)
        /\ Insert(c, doc)
        /\ Become(w, [Blank EXCEPT !.pc = "found", !.id = c,
                                   !.own = [copy |-> doc, seen |-> kept[c]]])
  BY DEF Upsert, Threads, Existing, Unused
<1>2. PICK doc :
        /\ \/ c \in Threads /\ doc = [docs[c] EXCEPT !.active = TRUE]
           \/ c \in Unused /\ doc = Fresh("new", TRUE)
        /\ Insert(c, doc)
        /\ Become(w, [Blank EXCEPT !.pc = "found", !.id = c,
                                   !.own = [copy |-> doc, seen |-> kept[c]]])
  BY <1>0
<1>3. UNCHANGED <<told, escalated, excused>>
  BY DEF Upsert
<1>. PICK run : run = [Blank EXCEPT !.pc = "found", !.id = c,
                                    !.own = [copy |-> doc, seen |-> kept[c]]]
  OBVIOUS
<1>4. /\ run.pc = "found" /\ run.id = c /\ run.drop = {}
      /\ run.own = [copy |-> doc, seen |-> kept[c]]
  BY DEF Blank
<1>5. /\ StoreInv' /\ Grows /\ doc \in Doc /\ Sound(c, run.own, {})'
  <2>1. CASE c \in Threads /\ doc = [docs[c] EXCEPT !.active = TRUE]
    <3>1. c \in Existing /\ docs[c] \in Doc
      BY <2>1 DEF Threads, Existing, IInv, TypeOK
    <3>2. StoreInv' /\ Grows
      BY <1>2, <1>3, <2>1, <3>1, TouchKeeps
    <3>3. /\ doc \in Doc /\ doc.status = docs[c].status
          /\ doc.note = docs[c].note /\ doc.thread = docs[c].thread
      BY <2>1, <3>1 DEF Doc
    <3>4. Sound(c, run.own, {})
      BY <1>4, <3>1, <3>3, ReadSound DEF Sound
    <3>. QED
      BY <3>2, <3>3, <3>4, SoundStays DEF IInv, TypeOK
  <2>2. CASE c \in Unused /\ doc = Fresh("new", TRUE)
    <3>1. "new" \in Status /\ "new" \notin Escalated \cup {"confirmed"} /\ TRUE \in BOOLEAN
      BY DEF Status, Escalated
    <3>2. escalated \subseteq Conv /\ excused \subseteq Conv
      BY DEF IInv, TypeOK
    <3>3. StoreInv' /\ Grows /\ docs'[c] = Fresh("new", TRUE) /\ c \in written'
      BY <1>2, <1>3, <2>2, <3>1, <3>2, InsertKeeps
    <3>4. doc \in Doc /\ doc.status = "new" /\ docs'[c] = doc
      BY <2>2, <3>1, <3>3, FreshDoc
    <3>5. kept[c] = {}
      BY <2>2 DEF Unused, IInv, StoreShape, Existing
    <3>6. run.own.copy = doc /\ run.own.seen = {} /\ doc.status # "confirmed"
      BY <1>4, <3>1, <3>4, <3>5
    <3>7. Sound(c, run.own, {})'
      BY <3>3, <3>4, <3>6 DEF Sound
    <3>. QED
      BY <3>3, <3>4, <3>7
  <2>. QED
    BY <1>2, <2>1, <2>2
<1>6. run \in Run
  <2>1. [copy |-> doc, seen |-> kept[c]] \in Taken
    BY <1>5 DEF Taken, IInv, TypeOK
  <2>. QED
    BY <2>1, Blanks DEF Blank, Run, PC
<1>. QED
  BY <1>1, <1>2, <1>4, <1>5, <1>6, WorkerFits, OneRun

\* A run that has found its document holds a sound copy of it.
LEMMA Holds ==
  ASSUME IInv, NEW w \in Worker,
         act[w].pc \in {"revive", "found", "asked", "reloaded", "escalating", "replying"}
  PROVE  /\ w \in Actor /\ act[w] \in Run /\ act[w].drop = {}
         /\ act[w].id \in Conv /\ act[w].id \in written /\ act[w].own \in Taken
         /\ act[w].own.copy \in Doc /\ act[w].own.seen \subseteq Actor
         /\ Sound(act[w].id, act[w].own, {})
<1>1. w \in Actor
  BY DEF Actor
<1>2. Fits(w, act[w]) /\ act[w] \in Run /\ act[w].own \in Taken
  BY <1>1, RunFacts
<1>3. act[w].drop = {} /\ Sound(act[w].id, act[w].own, {})
  BY <1>2 DEF Fits
<1>4. act[w].id \in written /\ act[w].own.copy \in Doc
  BY <1>3 DEF Sound
<1>. QED
  BY <1>1, <1>2, <1>3, <1>4 DEF Taken, IInv, TypeOK

LEMMA SaveCopyKeeps ==
  ASSUME IInv, NEW w \in Worker, SaveCopy(w)
  PROVE  IInv'
<1>. PICK c, own : c = act[w].id /\ own = act[w].own
  OBVIOUS
<1>. DEFINE next == IF act[w].pc = "revive" THEN "found" ELSE act[w].pc
<1>1. act[w].pc \in {"revive", "found", "reloaded"}
  BY DEF SaveCopy
<1>2. /\ w \in Actor /\ act[w] \in Run /\ act[w].drop = {} /\ c \in Conv
      /\ own \in Taken /\ own.copy \in Doc /\ Sound(c, own, {})
  BY <1>1, Holds
<1>3. Save(c, own, {}, {}) /\ told' = told
  BY DEF SaveCopy
<1>4. /\ StoreInv' /\ Grows /\ docs'[c] = own.copy
      /\ c \in written' /\ kept'[c] \in SUBSET Actor
      /\ kept'[c] \cap Note \subseteq Range(own.copy.note)
      /\ kept'[c] \cap Worker # {} => own.copy.status \in Escalated
  BY <1>2, <1>3, SaveKeeps
<1>. PICK run : run = [act[w] EXCEPT !.pc = next, !.own.seen = kept'[c]]
  OBVIOUS
<1>5. Become(w, run)
  BY DEF SaveCopy
<1>6. /\ run.pc \in {"found", "reloaded"} /\ run.id = c /\ run.drop = {}
      /\ run.own.copy = own.copy /\ run.own.seen = kept'[c]
  BY <1>1, <1>2 DEF Run, Taken
<1>7. run \in Run
  BY <1>1, <1>2, <1>4 DEF Run, Taken, PC
<1>8. Sound(c, own, {})'
  BY <1>2, <1>4, SoundStays DEF IInv, TypeOK
<1>. HIDE DEF next
<1>9. Sound(run.id, run.own, {})'
  BY <1>4, <1>6, <1>8 DEF Sound
<1>. QED
  BY <1>2, <1>4, <1>5, <1>6, <1>7, <1>9, WorkerFits, OneRun

LEMMA AskKeeps ==
  ASSUME IInv, NEW w \in Worker, Ask(w)
  PROVE  IInv'
<1>1. /\ w \in Actor /\ act[w] \in Run /\ act[w].drop = {}
      /\ act[w].id \in written /\ Sound(act[w].id, act[w].own, {})
  BY Holds DEF Ask
<1>2. told' \subseteq written /\ StoreUnchanged
  BY <1>1 DEF Ask, IInv, TypeOK
<1>3. StoreInv' /\ Grows
  BY <1>2, NothingStored DEF StoreUnchanged
<1>. PICK run : run = [act[w] EXCEPT !.pc = "asked"]
  OBVIOUS
<1>4. /\ run \in Run /\ run.pc = "asked" /\ run.drop = {}
      /\ run.id = act[w].id /\ run.own = act[w].own
  BY <1>1 DEF Run, PC
<1>5. Sound(run.id, run.own, {})
  BY <1>1, <1>4
<1>6. Sound(run.id, run.own, {})'
  BY <1>3, <1>5, SoundStays DEF IInv, TypeOK
<1>7. Become(w, run)
  BY DEF Ask
<1>. QED
  BY <1>1, <1>3, <1>4, <1>6, <1>7, WorkerFits, OneRun

LEMMA ReloadKeeps ==
  ASSUME IInv, NEW w \in Worker, Reload(w)
  PROVE  IInv'
<1>. DEFINE c == act[w].id
            next == IF act[w].pc = "asked" THEN "reloaded" ELSE act[w].pc
<1>1. act[w].pc \in {"found", "asked"}
  BY DEF Reload
<1>2. /\ w \in Actor /\ act[w] \in Run /\ act[w].drop = {}
      /\ act[w].own \in Taken /\ Sound(c, act[w].own, {})
  BY <1>1, Holds
<1>3. StoreInv' /\ Grows
  BY NothingStored DEF Reload, StoreUnchanged, IInv, TypeOK
<1>4. PICK fresh \in {act[w].own} \cup {Read(d) : d \in {c} \cap Existing} :
        Become(w, [act[w] EXCEPT !.pc = next, !.own = fresh])
  BY DEF Reload
<1>5. fresh \in Taken /\ Sound(c, fresh, {})
  BY <1>2, ReadSound
<1>. PICK run : run = [act[w] EXCEPT !.pc = next, !.own = fresh]
  OBVIOUS
<1>6. /\ run \in Run /\ run.pc \in {"found", "reloaded"} /\ run.drop = {}
      /\ run.id = c /\ run.own = fresh
  BY <1>1, <1>2, <1>5 DEF Run, PC
<1>. HIDE DEF c, next
<1>7. Sound(run.id, run.own, {})
  BY <1>5, <1>6
<1>8. Sound(run.id, run.own, {})'
  BY <1>3, <1>7, SoundStays DEF IInv, TypeOK
<1>9. Become(w, run)
  BY <1>4
<1>. QED
  BY <1>2, <1>3, <1>6, <1>8, <1>9, WorkerFits, OneRun

\* A copy that is given a status that asks for a human, and what has seen that.
\* A copy that is handed over, and has seen that.
LEMMA HandedOverSound ==
  ASSUME IInv, NEW c, NEW read \in Taken, NEW w \in Worker, Sound(c, read, {})
  PROVE  HandedOver(read, w) \in Taken /\ Sound(c, HandedOver(read, w), {})
<1>. DEFINE copy == [read.copy EXCEPT !.status = "handover"]
            new == HandedOver(read, w)
<1>1. "handover" \in Status /\ "handover" \in Escalated
  BY DEF Escalated, Status
<1>2. read.copy \in Doc /\ read.seen \subseteq Actor /\ w \in Actor /\ w \notin Note
  BY ActorAssumption DEF Sound, Taken, Actor
<1>3. /\ copy \in Doc /\ copy.status = "handover" /\ copy.note = read.copy.note
      /\ copy.thread = read.copy.thread
  BY <1>1, <1>2 DEF Doc
<1>4. new = [copy |-> copy, seen |-> read.seen \cup {w}]
  BY DEF HandedOver
<1>. HIDE DEF copy, new
<1>5. (read.seen \cup {w}) \cap Note = read.seen \cap Note
  BY <1>2
<1>6. new \in Taken /\ new.copy = copy /\ new.seen = read.seen \cup {w}
  BY <1>2, <1>3, <1>4 DEF Taken
<1>7. Sound(c, new, {})
  BY <1>1, <1>3, <1>5, <1>6 DEF Sound
<1>. QED
  BY <1>6, <1>7 DEF new

LEMMA CallHandoverKeeps ==
  ASSUME IInv, NEW w \in Worker, CallHandover(w)
  PROVE  IInv'
<1>. PICK c, own : c = act[w].id /\ own = act[w].own
  OBVIOUS
<1>1. act[w].pc = "reloaded" /\ docs[c] # NoDoc
  BY DEF CallHandover
<1>2. /\ w \in Actor /\ act[w] \in Run /\ act[w].drop = {} /\ c \in Conv
      /\ own \in Taken /\ own.copy \in Doc /\ Sound(c, own, {})
  BY <1>1, Holds
<1>3. c \in Existing /\ "handover" \in Escalated
  BY <1>1, <1>2 DEF Existing, Escalated
<1>4. CASE docs[c].status = "handover"
  <2>1. /\ kept' = [kept EXCEPT ![c] = @ \cup {w}]
        /\ UNCHANGED <<docs, written, told, escalated, excused>>
    BY <1>4 DEF CallHandover
  <2>2. StoreInv' /\ Grows
    BY <1>3, <1>4, <2>1, AcknowledgeKeeps
  <2>. PICK new : new = HandedOver(own, w)
    OBVIOUS
  <2>. PICK run : run = [act[w] EXCEPT !.pc = "replying", !.own = new]
    OBVIOUS
  <2>3. Become(w, run)
    BY <1>4 DEF CallHandover
  <2>4. new \in Taken /\ Sound(c, new, {})
    BY <1>2, HandedOverSound
  <2>5. /\ run.pc = "replying" /\ run.id = c /\ run.drop = {} /\ run.own = new
        /\ run \in Run
    BY <1>2, <2>4 DEF Run, PC
  <2>6. Sound(run.id, run.own, {})'
    <3>1. Sound(run.id, run.own, {})
      BY <2>4, <2>5
    <3>. QED
      BY <2>2, <3>1, SoundStays DEF IInv, TypeOK
  <2>. QED
    BY <1>2, <2>2, <2>3, <2>5, <2>6, WorkerFits, OneRun
<1>5. CASE docs[c].status # "handover"
  <2>1. /\ UNCHANGED <<docs, written, kept, told, escalated, excused>>
        /\ Become(w, [act[w] EXCEPT !.pc = "escalating",
                         !.crud = [Read(c) EXCEPT !.copy.status = "handover"]])
    BY <1>5 DEF CallHandover
  <2>2. StoreInv' /\ Grows
    BY <2>1, NothingStored DEF IInv, TypeOK
  <2>. PICK crud : crud = [Read(c) EXCEPT !.copy.status = "handover"]
    OBVIOUS
  <2>3. crud \in Taken /\ Sound(c, crud, {}) /\ crud.copy.status = "handover"
    <3>1. Read(c) \in Taken /\ Sound(c, Read(c), {}) /\ Read(c).copy \in Doc
      BY <1>3, ReadSound DEF Sound
    <3>2. /\ crud.seen = Read(c).seen /\ crud.copy \in Doc /\ crud \in Taken
          /\ crud.copy.status = "handover" /\ crud.copy.note = Read(c).copy.note
          /\ crud.copy.thread = Read(c).copy.thread
      BY <3>1 DEF Taken, Doc, Status
    <3>. QED
      BY <1>3, <3>1, <3>2 DEF Sound
  <2>. PICK run : run = [act[w] EXCEPT !.pc = "escalating", !.crud = crud]
    OBVIOUS
  <2>4. /\ run \in Run /\ run.pc = "escalating" /\ run.id = c /\ run.drop = {}
        /\ run.own = own /\ run.crud = crud
    BY <1>2, <2>3 DEF Run, PC
  <2>5. Sound(run.id, run.own, {})' /\ Sound(run.id, run.crud, {})'
    <3>1. Sound(run.id, run.own, {}) /\ Sound(run.id, run.crud, {})
      BY <1>2, <2>3, <2>4
    <3>. QED
      BY <2>2, <3>1, SoundStays DEF IInv, TypeOK
  <2>6. Fits(w, run)'
    BY <2>3, <2>4, <2>5, ActorAssumption DEF Fits
  <2>. QED
    BY <1>2, <2>1, <2>2, <2>4, <2>6, OneRun
<1>. QED
  BY <1>4, <1>5

LEMMA SaveHandoverKeeps ==
  ASSUME IInv, NEW w \in Worker, SaveHandover(w)
  PROVE  IInv'
<1>. PICK c, own, crud : c = act[w].id /\ own = act[w].own /\ crud = act[w].crud
  OBVIOUS
<1>1. act[w].pc = "escalating" /\ Save(c, crud, {}, {w}) /\ told' = told
  BY DEF SaveHandover
<1>2. /\ w \in Actor /\ act[w] \in Run /\ act[w].drop = {} /\ c \in Conv
      /\ own \in Taken /\ own.copy \in Doc /\ Sound(c, own, {})
  BY <1>1, Holds
<1>3. /\ crud \in Taken /\ Sound(c, crud, {})
      /\ crud.copy.status = "handover" /\ "handover" \in Escalated
  BY <1>1, <1>2, RunFacts DEF Fits, Escalated
<1>4. {w} \in SUBSET Actor /\ {w} \cap Note = {}
  BY <1>2, ActorAssumption
<1>5. StoreInv' /\ Grows
  BY <1>1, <1>2, <1>3, <1>4, SaveKeeps
<1>. PICK new : new = HandedOver(own, w)
  OBVIOUS
<1>. PICK run : run = [act[w] EXCEPT !.pc = "replying", !.crud = NoRead, !.own = new]
  OBVIOUS
<1>6. Become(w, run)
  BY DEF SaveHandover
<1>7. new \in Taken /\ Sound(c, new, {})
  BY <1>2, HandedOverSound
<1>8. /\ run.pc = "replying" /\ run.id = c /\ run.drop = {} /\ run.own = new
      /\ run \in Run
  BY <1>2, <1>7, Blanks DEF Run, PC
<1>9. Sound(run.id, run.own, {})'
  <2>1. Sound(run.id, run.own, {})
    BY <1>7, <1>8
  <2>. QED
    BY <1>5, <2>1, SoundStays DEF IInv, TypeOK
<1>. QED
  BY <1>2, <1>5, <1>6, <1>8, <1>9, WorkerFits, OneRun

LEMMA EscalateKeeps ==
  ASSUME IInv, NEW w \in Worker, NEW status \in Escalated, Escalate(w, status)
  PROVE  IInv'
<1>0. PICK c, old, own : /\ c = act[w].id /\ old = act[w].own
                         /\ own = [old EXCEPT !.copy.status = status]
  OBVIOUS
<1>1. act[w].pc \in {"found", "reloaded"} /\ told' = told
  BY DEF Escalate
<1>2. /\ w \in Actor /\ act[w] \in Run /\ act[w].drop = {} /\ c \in Conv
      /\ old \in Taken /\ old.copy \in Doc /\ Sound(c, old, {})
  BY <1>0, <1>1, Holds
<1>3. status \in Status /\ status # "confirmed"
  BY DEF Escalated, Status
<1>4. /\ own \in Taken /\ own.copy \in Doc /\ own.copy.status = status
      /\ own.copy.note = old.copy.note /\ own.copy.thread = old.copy.thread
      /\ own.seen = old.seen
  BY <1>0, <1>2, <1>3 DEF Taken, Doc
<1>5. Sound(c, own, {})
  BY <1>2, <1>3, <1>4 DEF Sound
<1>6. CASE /\ Save(c, own, {}, {w})
           /\ Become(w, [act[w] EXCEPT !.pc = "replying",
                                       !.own = [own EXCEPT !.seen = kept'[c]]])
  <2>1. /\ {w} \in SUBSET Actor /\ {} \in SUBSET Actor
        /\ {w} \cap Note \subseteq Range(own.copy.note)
        /\ own.copy.status \in Escalated /\ Save(c, own, {}, {w}) /\ told' = told
    BY <1>1, <1>2, <1>4, <1>6, ActorAssumption
  <2>2. /\ StoreInv' /\ Grows /\ kept'[c] \in SUBSET Actor
        /\ kept'[c] \cap Note \subseteq Range(own.copy.note)
    BY <1>2, <1>4, <1>5, <2>1, SaveKeeps
  <2>. PICK run : run = [act[w] EXCEPT !.pc = "replying",
                                       !.own = [own EXCEPT !.seen = kept'[c]]]
    OBVIOUS
  <2>3. /\ run \in Run /\ run.pc = "replying" /\ run.id = c /\ run.drop = {}
        /\ run.own.copy = own.copy /\ run.own.seen = kept'[c]
    BY <1>0, <1>2, <1>4, <2>2 DEF Run, Taken, PC
  <2>4. Sound(run.id, run.own, {})'
    <3>1. Sound(c, own, {})'
      BY <1>5, <2>2, SoundStays DEF IInv, TypeOK
    <3>. QED
      BY <1>4, <2>2, <2>3, <3>1 DEF Sound
  <2>5. Become(w, run)
    BY <1>6
  <2>. QED
    BY <1>2, <2>2, <2>3, <2>4, <2>5, WorkerFits, OneRun
<1>7. CASE /\ Become(w, [act[w] EXCEPT !.pc = "replying", !.own = own])
           /\ StoreUnchanged
  <2>1. StoreInv' /\ Grows
    BY <1>1, <1>7, NothingStored DEF StoreUnchanged, IInv, TypeOK
  <2>. PICK run : run = [act[w] EXCEPT !.pc = "replying", !.own = own]
    OBVIOUS
  <2>2. /\ run \in Run /\ run.pc = "replying" /\ run.id = c /\ run.drop = {}
        /\ run.own = own
    BY <1>0, <1>2, <1>4 DEF Run, PC
  <2>3. Sound(run.id, run.own, {})'
    <3>1. Sound(run.id, run.own, {})
      BY <1>5, <2>2
    <3>. QED
      BY <2>1, <3>1, SoundStays DEF IInv, TypeOK
  <2>4. Become(w, run)
    BY <1>7
  <2>. QED
    BY <1>2, <2>1, <2>2, <2>3, <2>4, WorkerFits, OneRun
<1>. QED
  BY <1>0, <1>6, <1>7 DEF Escalate

LEMMA FinishKeeps ==
  ASSUME IInv, NEW w \in Worker, Finish(w)
  PROVE  IInv'
<1>1. act[w].pc \in {"reloaded", "replying"} /\ End(w) /\ told' = told
  BY DEF Finish
<1>2. /\ w \in Actor /\ act[w].id \in Conv /\ act[w].own \in Taken
      /\ Sound(act[w].id, act[w].own, {})
  BY <1>1, Holds
<1>3. StoreInv' /\ Grows
  BY <1>1, <1>2, SaveKeeps DEF Finish
<1>. QED
  BY <1>1, <1>2, <1>3, Ends

LEMMA GiveUpKeeps ==
  ASSUME IInv, NEW w \in Worker, GiveUp(w)
  PROVE  IInv'
<1>1. w \in Actor /\ StoreInv' /\ Grows
  BY NothingStored DEF GiveUp, StoreUnchanged, IInv, TypeOK, Actor
<1>2. CASE act[w].pc = "escalating"
  <2>1. /\ act[w] \in Run /\ act[w].drop = {}
        /\ Sound(act[w].id, act[w].own, {})
    BY <1>2, Holds
  <2>. PICK run : run = [act[w] EXCEPT !.pc = "replying", !.crud = NoRead]
    OBVIOUS
  <2>2. /\ run \in Run /\ run.pc = "replying" /\ run.drop = {}
        /\ run.id = act[w].id /\ run.own = act[w].own
    BY <2>1, Blanks DEF Run, PC
  <2>3. Sound(run.id, run.own, {})'
    <3>1. Sound(run.id, run.own, {})
      BY <2>1, <2>2
    <3>. QED
      BY <1>1, <3>1, SoundStays DEF IInv, TypeOK
  <2>4. Become(w, run)
    BY <1>2 DEF GiveUp
  <2>. QED
    BY <1>1, <2>2, <2>3, <2>4, WorkerFits, OneRun
<1>3. CASE act[w].pc # "escalating"
  BY <1>1, <1>3, Ends DEF GiveUp
<1>. QED
  BY <1>2, <1>3

-----------------------------------------------------------------------------
(* The steps of an order note.                                             *)

\* A new line joins the others or stands alone.
LEMMA Lines ==
  ASSUME NEW doc \in Doc, NEW n \in Note
  PROVE  /\ NoteLines(doc, n) \in Seq(Note)
         /\ n \in Range(NoteLines(doc, n))
         /\ doc.status = "order_pending" => Range(doc.note) \subseteq Range(NoteLines(doc, n))
<1>. PICK lines : lines = doc.note
  OBVIOUS
<1>1. lines \in Seq(Note)
  BY DEF Doc
<1>2. /\ Append(lines, n) \in Seq(Note) /\ Len(Append(lines, n)) = Len(lines) + 1
      /\ Append(lines, n)[Len(lines) + 1] = n
      /\ \A i \in 1..Len(lines) : Append(lines, n)[i] = lines[i]
      /\ DOMAIN lines = 1..Len(lines) /\ Len(lines) \in Nat
      /\ DOMAIN Append(lines, n) = 1..Len(lines) + 1
  BY <1>1
<1>3. n \in Range(Append(lines, n)) /\ Range(lines) \subseteq Range(Append(lines, n))
  BY <1>2 DEF Range
<1>4. <<n>> \in Seq(Note) /\ n \in Range(<<n>>)
  BY DEF Range
<1>. QED
  BY <1>2, <1>3, <1>4 DEF NoteLines

LEMMA ReadForNoteKeeps ==
  ASSUME IInv, NEW n \in Note, ReadForNote(n)
  PROVE  IInv'
<1>1. n \in Actor /\ StoreInv' /\ Grows
  BY NothingStored DEF ReadForNote, StoreUnchanged, IInv, TypeOK, Actor
<1>0. PICK c \in told :
       IF docs[c] = NoDoc
       THEN End(n)
       ELSE Become(n, [Blank EXCEPT !.pc = "save", !.id = c,
                !.own = [Read(c) EXCEPT !.copy.status = "order_pending",
                                        !.copy.note = NoteLines(docs[c], n)],
                !.drop = Worker \cup (IF docs[c].status = "order_pending"
                                      THEN {} ELSE Note)])
  BY DEF ReadForNote
<1>2. CASE docs[c] = NoDoc
  BY <1>0, <1>1, <1>2, Ends
<1>3. CASE docs[c] # NoDoc
  <2>1. c \in Existing /\ c \in Conv /\ docs[c] \in Doc /\ kept[c] \subseteq Actor
    BY <1>3 DEF Existing, IInv, TypeOK
  <2>2. PICK lines : lines = NoteLines(docs[c], n)
    OBVIOUS
  <2>3. /\ lines \in Seq(Note) /\ n \in Range(lines)
        /\ docs[c].status = "order_pending" => Range(docs[c].note) \subseteq Range(lines)
    BY <2>1, <2>2, Lines
  <2>4. PICK drop : drop = Worker \cup (IF docs[c].status = "order_pending"
                                        THEN {} ELSE Note)
    OBVIOUS
  <2>5. PICK own : own = [Read(c) EXCEPT !.copy.status = "order_pending",
                                         !.copy.note = lines]
    OBVIOUS
  <2>6. /\ own.copy \in Doc /\ own.copy.status = "order_pending"
        /\ own.copy.note = lines /\ own.copy.thread = docs[c].thread
        /\ own.seen = kept[c] /\ own \in Taken
    BY <2>1, <2>3, <2>5 DEF Read, Doc, Taken, Status
  <2>7. Sound(c, own, drop)
    <3>1. c \in written /\ kept[c] \cap Note \subseteq Range(docs[c].note)
      BY <2>1 DEF IInv, TypeOK, AcknowledgedKept
    <3>2. (kept[c] \ drop) \cap Note \subseteq Range(lines)
      BY <2>3, <2>4, <3>1
    <3>3. (kept[c] \ drop) \cap Worker = {}
      BY <2>4
    <3>. QED
      BY <2>6, <3>1, <3>2, <3>3 DEF Sound
  <2>8. PICK run : run = [Blank EXCEPT !.pc = "save", !.id = c, !.own = own,
                                       !.drop = drop]
    OBVIOUS
  <2>9. /\ run.pc = "save" /\ run.id = c /\ run.own = own /\ run.drop = drop
        /\ drop \subseteq Actor /\ run \in Run
    BY <2>1, <2>4, <2>6, <2>8, Blanks DEF Blank, Run, PC, Actor
  <2>10. Sound(c, own, drop)'
    BY <1>1, <2>7, SoundStays DEF IInv, TypeOK
  <2>11. Fits(n, run)'
    BY <2>3, <2>4, <2>6, <2>9, <2>10, ActorAssumption DEF Fits
  <2>12. Become(n, run)
    BY <1>0, <1>3, <2>2, <2>4, <2>5, <2>8
  <2>. QED
    BY <1>1, <2>9, <2>11, <2>12, OneRun
<1>. QED
  BY <1>2, <1>3

LEMMA SaveNoteKeeps ==
  ASSUME IInv, NEW n \in Note, SaveNote(n)
  PROVE  IInv'
<1>. PICK c, own, drop : c = act[n].id /\ own = act[n].own /\ drop = act[n].drop
  OBVIOUS
<1>1. /\ act[n].pc = "save" /\ Save(c, own, drop, {n}) /\ End(n) /\ told' = told
  BY DEF SaveNote
<1>2. n \in Actor
  BY DEF Actor
<1>3. /\ own \in Taken /\ drop \in SUBSET Actor
      /\ Sound(c, own, drop) /\ n \in Range(own.copy.note)
  BY <1>1, <1>2, RunFacts DEF Fits
<1>4. c \in Conv
  BY <1>3 DEF Sound, IInv, TypeOK
<1>5. {n} \in SUBSET Actor /\ {n} \cap Note \subseteq Range(own.copy.note)
      /\ {n} \cap Worker = {}
  BY <1>2, <1>3, ActorAssumption
<1>6. StoreInv' /\ Grows
  BY <1>1, <1>3, <1>4, <1>5, SaveKeeps
<1>. QED
  BY <1>1, <1>2, <1>6, Ends

-----------------------------------------------------------------------------
(* The steps of the dashboard.                                             *)

LEMMA ReadForPatchKeeps ==
  ASSUME IInv, NEW k \in Desk, ReadForPatch(k)
  PROVE  IInv'
<1>1. k \in Actor /\ StoreInv' /\ Grows
  BY NothingStored DEF ReadForPatch, StoreUnchanged, IInv, TypeOK, Actor
<1>0. PICK c \in Existing, status \in Status, active \in BOOLEAN :
        IF status # docs[c].status /\ ~MayBecome(docs[c], status)
        THEN End(k)
        ELSE Become(k, [Blank EXCEPT !.pc = "save", !.id = c,
                 !.own = [Read(c) EXCEPT !.copy.status = status,
                             !.copy.active = active,
                             !.copy.note = IF Cleared(docs[c], status) THEN <<>> ELSE @],
                 !.drop = (IF status # docs[c].status THEN Worker ELSE {})
                          \cup (IF Cleared(docs[c], status) THEN Note ELSE {})])
  BY DEF ReadForPatch
<1>2. CASE status # docs[c].status /\ ~MayBecome(docs[c], status)
  BY <1>0, <1>1, <1>2, Ends
<1>3. CASE status = docs[c].status \/ MayBecome(docs[c], status)
  <2>1. c \in Conv /\ docs[c] \in Doc /\ kept[c] \subseteq Actor
    BY DEF Existing, IInv, TypeOK
  <2>2. PICK lines : lines = IF Cleared(docs[c], status) THEN <<>> ELSE docs[c].note
    OBVIOUS
  <2>3. lines \in Seq(Note)
    BY <2>1, <2>2, DocKinds
  <2>4. PICK drop : drop = (IF status # docs[c].status THEN Worker ELSE {})
                           \cup (IF Cleared(docs[c], status) THEN Note ELSE {})
    OBVIOUS
  <2>5. PICK own : own = [Read(c) EXCEPT !.copy.status = status,
                                         !.copy.active = active, !.copy.note = lines]
    OBVIOUS
  <2>6. /\ own.copy \in Doc /\ own.copy.status = status
        /\ own.copy.note = lines /\ own.copy.thread = docs[c].thread
        /\ own.seen = kept[c] /\ own \in Taken
    BY <2>1, <2>3, <2>5 DEF Read, Doc, Taken
  <2>7. Sound(c, own, drop)
    <3>1. /\ c \in written /\ kept[c] \cap Note \subseteq Range(docs[c].note)
          /\ kept[c] \cap Worker # {} => docs[c].status \in Escalated
          /\ docs[c].status \in Escalated \cup {"confirmed"} => c \in escalated
      BY DEF IInv, StoreShape, AcknowledgedKept
    <3>2. (kept[c] \ drop) \cap Note \subseteq Range(lines)
      BY <2>2, <2>4, <3>1
    <3>3. (kept[c] \ drop) \cap Worker # {} => status \in Escalated
      BY <2>4, <3>1
    <3>4. status = "confirmed" => c \in escalated
      BY <1>3, <3>1 DEF MayBecome
    <3>. QED
      BY <2>6, <3>1, <3>2, <3>3, <3>4 DEF Sound
  <2>8. PICK run : run = [Blank EXCEPT !.pc = "save", !.id = c, !.own = own,
                                       !.drop = drop]
    OBVIOUS
  <2>9. /\ run.pc = "save" /\ run.id = c /\ run.own = own /\ run.drop = drop
        /\ run \in Run
    <3>1. drop \subseteq Actor
      BY <2>4 DEF Actor
    <3>. QED
      BY <2>1, <2>6, <2>8, <3>1, Blanks DEF Blank, Run, PC
  <2>10. Sound(c, own, drop)'
    BY <1>1, <2>7, SoundStays DEF IInv, TypeOK
  <2>11. Fits(k, run)'
    BY <2>9, <2>10, ActorAssumption DEF Fits
  <2>12. [Read(c) EXCEPT !.copy.status = status, !.copy.active = active,
                         !.copy.note = IF Cleared(docs[c], status) THEN <<>> ELSE @] = own
    BY <2>1, <2>2, <2>5 DEF Read, Doc
  <2>13. Become(k, run)
    BY <1>0, <1>3, <2>4, <2>8, <2>12
  <2>. QED
    BY <1>1, <2>9, <2>11, <2>13, OneRun
<1>. QED
  BY <1>2, <1>3

LEMMA SavePatchKeeps ==
  ASSUME IInv, NEW k \in Desk, SavePatch(k)
  PROVE  IInv'
<1>. PICK c, own, drop : c = act[k].id /\ own = act[k].own /\ drop = act[k].drop
  OBVIOUS
<1>1. /\ act[k].pc = "save" /\ Save(c, own, drop, {}) /\ End(k) /\ told' = told
  BY DEF SavePatch
<1>2. k \in Actor
  BY DEF Actor
<1>3. own \in Taken /\ drop \in SUBSET Actor /\ Sound(c, own, drop)
  BY <1>1, <1>2, RunFacts DEF Fits
<1>4. c \in Conv
  BY <1>3 DEF Sound, IInv, TypeOK
<1>5. StoreInv' /\ Grows
  BY <1>1, <1>3, <1>4, SaveKeeps
<1>. QED
  BY <1>1, <1>2, <1>5, Ends

LEMMA DeleteKeepsIInv ==
  ASSUME IInv, NEW k \in Desk, Delete(k)
  PROVE  IInv'
<1>1. k \in Actor /\ End(k) /\ StoreInv' /\ Grows
  BY DeleteKeeps DEF Delete, Actor
<1>. QED
  BY <1>1, Ends

LEMMA PostKeeps ==
  ASSUME IInv, NEW k \in Desk, Post(k)
  PROVE  IInv'
<1>1. k \in Actor /\ End(k) /\ told' = told
  BY DEF Post, Actor
<1>2. PICK c \in Unused, status \in Status :
        /\ Insert(c, Fresh(status, FALSE))
        /\ escalated' = IF status \in Escalated \cup {"confirmed"}
                        THEN escalated \cup {c} ELSE escalated
        /\ excused' = excused \cup {c}
  BY DEF Post
<1>3. /\ escalated \subseteq escalated' /\ escalated' \subseteq Conv
      /\ excused \subseteq excused' /\ excused' \subseteq Conv /\ c \in excused'
      /\ status \in Escalated \cup {"confirmed"} => c \in escalated'
  BY <1>2 DEF IInv, TypeOK, Unused
<1>4. StoreInv' /\ Grows
  BY <1>1, <1>2, <1>3, InsertKeeps
<1>. QED
  BY <1>1, <1>4, Ends

-----------------------------------------------------------------------------
(* The invariant and what follows from it.                                 *)

LEMMA Start == Init => IInv
<1>. SUFFICES ASSUME Init PROVE IInv
  OBVIOUS
<1>1. /\ kept = [c \in Conv |-> {}] /\ escalated = {} /\ excused = {} /\ told = {}
      /\ written = Existing
  BY DEF Init
<1>2. /\ docs \in [Conv -> Doc \cup {NoDoc}]
      /\ \A c, d \in Conv : docs[c] # NoDoc /\ docs[d] # NoDoc => c = d
      /\ \A c \in Conv : docs[c] # NoDoc => docs[c].status = "new"
  <2>1. CASE docs = [c \in Conv |-> NoDoc]
    BY <2>1
  <2>2. CASE \E b \in Conv, d \in Before : docs = [c \in Conv |-> IF c = b THEN d ELSE NoDoc]
    <3>1. PICK b \in Conv, d \in Before : docs = [c \in Conv |-> IF c = b THEN d ELSE NoDoc]
      BY <2>2
    <3>2. <<>> \in Seq(Note) /\ "new" \in Status
      BY DEF Status
    <3>3. d \in Doc /\ d.status = "new"
      BY <3>2 DEF Before, Doc
    <3>. QED
      BY <3>1, <3>3
  <2>. QED
    BY <2>1, <2>2 DEF Init
<1>3. \A a \in Actor : act[a] \in {Blank, Done}
  BY DEF Init
<1>4. act \in [Actor -> Run]
  BY Blanks DEF Init
<1>5. TypeOK
  BY <1>1, <1>2, <1>4 DEF TypeOK, Existing
<1>6. OneUnexcused
  BY <1>2 DEF OneUnexcused, Existing
<1>7. StoreShape
  <2>1. "new" \notin Escalated \cup {"confirmed"}
    BY DEF Escalated
  <2>. QED
    BY <1>1, <1>2, <2>1 DEF StoreShape, Existing
<1>8. AcknowledgedKept
  BY <1>1 DEF AcknowledgedKept, Existing
<1>9. RunShape
  <2>1. Blank.pc = "begin" /\ Blank.drop = {}
    BY DEF Blank
  <2>2. Done.pc = "done" /\ Done.drop = {}
    BY Blanks
  <2>. QED
    BY <1>3, <2>1, <2>2 DEF RunShape, Fits
<1>. QED
  BY <1>5, <1>6, <1>7, <1>8, <1>9 DEF IInv

LEMMA Step == IInv /\ [Next]_vars => IInv'
<1>. SUFFICES ASSUME IInv, [Next]_vars PROVE IInv'
  OBVIOUS
<1>1. ASSUME NEW w \in Worker, WorkerStep(w) PROVE IInv'
  BY <1>1, LookKeeps, CreateKeeps, UpsertKeeps, SaveCopyKeeps, AskKeeps,
     ReloadKeeps, CallHandoverKeeps, SaveHandoverKeeps, EscalateKeeps,
     FinishKeeps, GiveUpKeeps DEF WorkerStep
<1>2. ASSUME NEW n \in Note, ReadForNote(n) \/ SaveNote(n) PROVE IInv'
  BY <1>2, ReadForNoteKeeps, SaveNoteKeeps
<1>3. ASSUME NEW k \in Desk, ReadForPatch(k) \/ SavePatch(k) \/ Delete(k) \/ Post(k)
      PROVE  IInv'
  BY <1>3, ReadForPatchKeeps, SavePatchKeeps, DeleteKeepsIInv, PostKeeps
<1>4. CASE UNCHANGED vars
  BY <1>4 DEF vars, IInv, TypeOK, OneUnexcused, StoreShape, AcknowledgedKept,
              RunShape, Fits, Sound, Existing
<1>. QED
  BY <1>1, <1>2, <1>3, <1>4 DEF Next

\* The invariant holds of every reachable state: what everybody may save at any
\* time, so that the saves of copies (conversation.save() in
\* facebook_webhook.py, pancake_webhook.py and the services) can interleave.
THEOREM Inductive == Spec => []IInv
BY Start, Step, PTL DEF Spec

\* The documents, the runs and the histories are what they are declared to be.
THEOREM TypeCorrect == Spec => []TypeOK
<1>1. IInv => TypeOK
  BY DEF IInv
<1>. QED
  BY <1>1, Inductive, PTL

\* An order note or an escalation that was acknowledged is in the document as
\* long as nobody decided otherwise or saved an older copy over it.
THEOREM AcknowledgedKeptCorrect == Spec => []AcknowledgedKept
<1>1. IInv => AcknowledgedKept
  BY DEF IInv
<1>. QED
  BY <1>1, Inductive, PTL

\* No interleaving of saves confirms a conversation that nobody escalated.
THEOREM ConfirmedWasEscalatedCorrect == Spec => []ConfirmedWasEscalated
<1>1. IInv => ConfirmedWasEscalated
  BY DEF IInv, StoreShape, ConfirmedWasEscalated
<1>. QED
  BY <1>1, Inductive, PTL

\* A customer has one document outside Pancake, but for the ways by which the
\* code can come by a second: however many runs, notes and requests there are.
THEOREM OneConversationCorrect == Spec => []OneConversation
<1>1. IInv => OneConversation
  <2>. SUFFICES ASSUME IInv PROVE OneConversation
    OBVIOUS
  <2>. DEFINE S == {c \in Existing : ~docs[c].thread} \ excused
  <2>1. \A c, d \in S : c = d
    BY DEF IInv, OneUnexcused
  <2>2. CASE S = {}
    BY <2>2, FS_EmptySet DEF OneConversation
  <2>3. CASE S # {}
    <3>1. PICK c \in S : S = {c}
      BY <2>1, <2>3
    <3>2. Cardinality(S) = 1
      BY <3>1, FS_Singleton
    <3>. QED
      BY <3>2 DEF OneConversation
  <2>. QED
    BY <2>2, <2>3
<1>. QED
  BY <1>1, Inductive, PTL
=============================================================================
