---------------------------- MODULE ImageSources ----------------------------
(***************************************************************************)
(* The source images of the image search: a file in the folder of its code,  *)
(* a row in the metadata CSV and vectors in the Chroma index                *)
(* (IS = app/services/image_search_source_service.py 97-1307,              *)
(* CI = app/services/chroma_crop_aware_index.py).                          *)
(*                                                                         *)
(* Requests import, update or delete a code's images; a script upserts       *)
(* what the CSV lists.  A request runs on the event loop and gives way where *)
(* an upload is read and where the index and the thumbnails are worked on in *)
(* a thread.  No lock holds the three stores together.  Left out: the       *)
(* description, and a rollback that fails itself.                           *)
(***************************************************************************)
EXTENDS Integers, FiniteSets, FiniteSetsExt

CONSTANTS
    Request,
    Code,
    FolderOf,       \* the folder of a code: different codes may share one
    NoCode,
    MaxImage,       \* bound: how many file names are ever made
    Uploads         \* how many files a request may bring

Image == 1..MaxImage
Folder == {FolderOf[c] : c \in Code}

ASSUME CodeAssumption == NoCode \notin Code /\ FolderOf \in [Code -> Folder]
ASSUME UploadsAssumption == MaxImage \in Nat \ {0} /\ Uploads \subseteq Nat

VARIABLES
    rows,       \* the CSV: of each image "none" or the size its row states
    files,      \* of each image "none", "ready" (as indexed) or "thumb"
    folders,    \* the folders that exist
    index,      \* the images whose views are in Chroma
    codeOf,     \* the code an image was stored under
    req,        \* the requests
    tags        \* what happened to an image (for the properties)

vars == <<rows, files, folders, index, codeOf, req, tags>>

Size == {"none", "ready", "thumb"}
Tag == {"mixed", "broken", "failed", "withdrawn"}

PC == {"idle", "storing", "dropping", "embedding", "upserting", "shrinking",
       "replacing", "refreshing", "removing", "failing", "done"}
Kind == {"none", "import", "update", "delete", "rebuild"}

Work == [pc: PC, kind: Kind, code: Code \cup {NoCode}, copy: [Image -> Size],
         written: BOOLEAN, left: Nat, new: SUBSET Image, drop: SUBSET Image,
         at: SUBSET Image, mixed: BOOLEAN]

\* copy: original_rows; left: uploads still to store; new: stored_images;
\* drop: delete_rows; at: the images still to shrink.
Idle == [pc |-> "idle", kind |-> "none", code |-> NoCode, copy |-> [i \in Image |-> "none"],
         written |-> FALSE, left |-> 0, new |-> {}, drop |-> {}, at |-> {}, mixed |-> FALSE]

Over == [Idle EXCEPT !.pc = "done"]

Running(r) == req[r].pc \notin {"idle", "done"}

Listed(c) == {i \in Image : rows[i] # "none" /\ codeOf[i] = c}

\* Image 1 is listed, small and indexed, and is the first code's.
Init ==
    /\ \E c \in Code : /\ codeOf = [i \in Image |-> IF i = 1 THEN c ELSE NoCode]
                       /\ folders = {FolderOf[c]}
    /\ rows = [i \in Image |-> IF i = 1 THEN "thumb" ELSE "none"]
    /\ files = rows
    /\ index = {1}
    /\ req = [r \in Request |-> Idle]
    /\ tags = [i \in Image |-> {}]

(***************************************************************************)
(* Whose images are whose: a request that runs beside an update, a delete or *)
(* the script may find another's work undone.                               *)
(***************************************************************************)

Tagged(S, tag) == [i \in Image |-> IF i \in S THEN tags[i] \cup {tag} ELSE tags[i]]

Owned(q) == q.new \cup q.drop

Rewrites(kind) == kind # "import"

\* A request q takes its place beside those that run.
Begin(r, q) ==
    LET others == {s \in Request \ {r} : Running(s)}
        mixing == {s \in others : Rewrites(req[s].kind) \/ Rewrites(q.kind)}
    IN /\ req' = [s \in Request |->
                    IF s = r THEN [q EXCEPT !.mixed = mixing # {}]
                    ELSE IF s \in mixing THEN [req[s] EXCEPT !.mixed = TRUE] ELSE req[s]]
       /\ tags' = Tagged((UNION {Owned(req[s]) : s \in mixing})
                           \cup (IF mixing # {} THEN Owned(q) ELSE {}), "mixed")

\* Request r goes on with q.
Go(r, q) == req' = [req EXCEPT ![r] = q]

(***************************************************************************)
(* Storing the uploads, one by one, and the CSV in the same breath as the    *)
(* last of them.                                                           *)
(***************************************************************************)

With(table, S, size) == [i \in Image |-> IF i \in S THEN size ELSE table[i]]

\* What an update writes: the copy it took, without what it deletes, and the
\* new images.
Rewritten(q) == With(With(q.copy, q.drop, "none"), q.new, "ready")

AfterWrite(q) ==
    [q EXCEPT !.written = TRUE, !.pc = IF q.drop # {} THEN "dropping" ELSE "embedding"]

StartImport(r, c, n) ==
    /\ req[r].pc = "idle" /\ n > 0
    /\ Begin(r, [Idle EXCEPT !.pc = "storing", !.kind = "import", !.code = c, !.left = n])
    /\ UNCHANGED <<rows, files, folders, index, codeOf>>

\* Without uploads nothing lies between the reading of the CSV and its writing.
StartUpdate(r, c, n, D) ==
    /\ req[r].pc = "idle" /\ Listed(c) # {}
    /\ D \subseteq Listed(c) /\ (n > 0 \/ D # {})
    /\ LET q == [Idle EXCEPT !.pc = "storing", !.kind = "update", !.code = c,
                             !.copy = rows, !.left = n, !.drop = D]
       IN IF n > 0 THEN Begin(r, q) /\ UNCHANGED rows
          ELSE Begin(r, AfterWrite(q)) /\ rows' = Rewritten(q)
    /\ UNCHANGED <<files, folders, index, codeOf>>

StartDelete(r, c) ==
    /\ req[r].pc = "idle" /\ Listed(c) # {}
    /\ Begin(r, [Idle EXCEPT !.pc = "dropping", !.kind = "delete", !.code = c,
                             !.copy = rows, !.written = TRUE, !.drop = Listed(c)])
    /\ rows' = With(rows, Listed(c), "none")
    /\ UNCHANGED <<files, folders, index, codeOf>>

\* The script takes what is listed and has a file.
StartRebuild(r) ==
    /\ req[r].pc = "idle"
    /\ LET S == {i \in Image : rows[i] # "none" /\ files[i] # "none"}
       IN /\ S # {}
          /\ Begin(r, [Idle EXCEPT !.pc = "embedding", !.kind = "rebuild", !.new = S])
    /\ UNCHANGED <<rows, files, folders, index, codeOf>>

Mix(q, S) == IF q.mixed THEN Tagged(S, "mixed") ELSE tags

Store(r) ==
    LET q == req[r]
        i == Min({j \in Image : codeOf[j] = NoCode})
        stored == [q EXCEPT !.left = @ - 1, !.new = @ \cup {i}]
    IN /\ q.pc = "storing" /\ \E j \in Image : codeOf[j] = NoCode
       /\ files' = [files EXCEPT ![i] = "ready"]
       /\ folders' = folders \cup {FolderOf[q.code]}
       /\ codeOf' = [codeOf EXCEPT ![i] = q.code]
       /\ tags' = Mix(q, {i})
       /\ IF q.left > 1 THEN Go(r, stored) /\ UNCHANGED rows
          ELSE /\ Go(r, AfterWrite(stored))
               /\ rows' = IF q.kind = "import" THEN With(rows, stored.new, "ready")
                          ELSE Rewritten(stored)
       /\ UNCHANGED index

\* An upload of the wrong type, empty or unreadable, a disk that is full, a CSV
\* that cannot be written: the images of this request that were stored go.
StoreFails(r) ==
    /\ req[r].pc = "storing"
    /\ files' = With(files, req[r].new, "none")
    /\ tags' = Tagged(req[r].new, "failed")
    /\ Go(r, Over)
    /\ UNCHANGED <<rows, folders, index, codeOf>>

(***************************************************************************)
(* In a thread: out of the index, into the index, thumbnails.               *)
(***************************************************************************)

DropFromIndex(r) ==
    LET q == req[r]
    IN /\ q.pc = "dropping"
       /\ index' = index \ q.drop
       /\ tags' = Tagged(q.drop, "withdrawn")
       /\ Go(r, [q EXCEPT !.pc = IF q.new # {} THEN "embedding" ELSE "removing"])
       /\ UNCHANGED <<rows, files, folders, codeOf>>

\* Every image must still have its file.
Embed(r) ==
    LET q == req[r]
    IN /\ q.pc = "embedding" /\ \A i \in q.new : files[i] # "none"
       /\ Go(r, [q EXCEPT !.pc = "upserting"])
       /\ UNCHANGED <<rows, files, folders, index, codeOf, tags>>

\* mutation of Upsert: thumbnails are made of what the update deletes, too.
UpsertShrinkingAll(r) ==
    LET q == req[r]
    IN /\ q.pc = "upserting"
       /\ index' = index \cup q.new
       /\ Go(r, [q EXCEPT !.pc = "shrinking", !.at = q.new \cup q.drop])
       /\ UNCHANGED <<rows, files, folders, codeOf, tags>>

Upsert(r) ==
    LET q == req[r]
    IN /\ q.pc = "upserting"
       /\ index' = index \cup q.new
       /\ IF q.kind = "rebuild"
          THEN /\ tags' = [i \in Image |-> tags[i] \ IF i \in q.new THEN {"withdrawn"} ELSE {}]
               /\ Go(r, Over)
          ELSE tags' = tags /\ Go(r, [q EXCEPT !.pc = "shrinking", !.at = q.new])
       /\ UNCHANGED <<rows, files, folders, codeOf>>

ReadForThumbnail(r) ==
    /\ req[r].pc = "shrinking" /\ files[Min(req[r].at)] # "none"
    /\ Go(r, [req[r] EXCEPT !.pc = "replacing"])
    /\ UNCHANGED <<rows, files, folders, index, codeOf, tags>>

\* The thumbnail takes the file's place, whether or not the file is still there.
ReplaceByThumbnail(r) ==
    LET q == req[r]
        rest == q.at \ {Min(q.at)}
    IN /\ q.pc = "replacing" /\ FolderOf[q.code] \in folders
       /\ files' = [files EXCEPT ![Min(q.at)] = "thumb"]
       /\ Go(r, [q EXCEPT !.at = rest, !.pc = IF rest = {} THEN "refreshing" ELSE "shrinking"])
       /\ UNCHANGED <<rows, folders, index, codeOf, tags>>

\* The index or a model fails, or a file or folder is not there (any more).
ThreadFails(r) ==
    /\ req[r].pc \in {"dropping", "embedding", "upserting", "shrinking", "replacing"}
    /\ Go(r, [req[r] EXCEPT !.pc = "failing"])
    /\ UNCHANGED <<rows, files, folders, index, codeOf, tags>>

(***************************************************************************)
(* Back on the event loop.                                                 *)
(***************************************************************************)

Refreshed(q) == [i \in Image |-> IF i \in q.new /\ rows[i] # "none" THEN "thumb" ELSE rows[i]]

\* The rows of the new images state the size of the thumbnail; the files of the
\* deleted ones go.
Succeed(r) ==
    LET q == req[r]
    IN /\ q.kind \in {"import", "update"} /\ q.pc \in {"refreshing", "removing"}
       /\ rows' = Refreshed(q)
       /\ files' = With(files, q.drop, "none")
       /\ Go(r, Over)
       /\ UNCHANGED <<folders, index, codeOf, tags>>

\* The whole folder of the code goes.
RemoveFolder(r) ==
    LET q == req[r]
        there == {i \in Image : codeOf[i] # NoCode /\ FolderOf[codeOf[i]] = FolderOf[q.code]}
    IN /\ q.kind = "delete" /\ q.pc = "removing"
       /\ files' = With(files, there, "none")
       /\ folders' = folders \ {FolderOf[q.code]}
       /\ tags' = Tagged(there \ q.drop, "broken")
       /\ Go(r, Over)
       /\ UNCHANGED <<rows, index, codeOf>>

\* mutation of Restored: the deletion's rollback forgets the code's own rows.
RestoredWithout(q) ==
    IF q.kind = "import" THEN With(rows, q.new, "none") ELSE With(q.copy, q.drop, "none")

\* mutation of Restored: what was written stays.
NotRestored(q) == rows

\* Rollback of the CSV: an import takes its rows out, the others write back the
\* copy they took, and with it everything else as it was then.
Restored(q) ==
    IF q.kind = "import" THEN With(rows, q.new, "none")
    ELSE IF q.kind = "rebuild" \/ ~q.written THEN rows ELSE q.copy

RollBack(r) ==
    LET q == req[r]
        gone == IF q.kind = "rebuild" THEN {} ELSE q.new
    IN /\ q.pc = "failing"
       /\ rows' = Restored(q)
       /\ files' = With(files, gone, "none")
       /\ tags' = Tagged(gone, "failed")
       /\ Go(r, Over)
       /\ UNCHANGED <<folders, index, codeOf>>

\* The removal of files breaks off: some are gone, the rows come back.
RemovalFails(r) ==
    LET q == req[r]
        there == IF q.kind = "update" THEN q.drop
                 ELSE {i \in Image : codeOf[i] # NoCode /\ FolderOf[codeOf[i]] = FolderOf[q.code]}
    IN /\ q.pc \in {"removing", "refreshing"} /\ q.drop # {}
       /\ \E S \in SUBSET there :
            /\ files' = With(files, S \cup q.new, "none")
            /\ tags' = [i \in Image |-> tags[i] \cup (IF i \in S THEN {"broken"} ELSE {})
                                               \cup (IF i \in q.new THEN {"failed"} ELSE {})]
       /\ rows' = Restored(q)
       /\ Go(r, Over)
       /\ UNCHANGED <<folders, index, codeOf>>

\* The process ends: no handler runs.
Crash ==
    /\ \E r \in Request : Running(r)
    /\ req' = [r \in Request |-> IF Running(r) THEN Over ELSE req[r]]
    /\ tags' = Tagged(UNION {Owned(req[r]) : r \in {s \in Request : Running(s)}}, "broken")
    /\ UNCHANGED <<rows, files, folders, index, codeOf>>

Done == (\A r \in Request : req[r].pc = "done") /\ UNCHANGED vars

Next ==
    \/ \E r \in Request :
        \/ \E c \in Code, n \in Uploads : StartImport(r, c, n)
        \/ \E c \in Code, n \in Uploads : \E D \in SUBSET Listed(c) : StartUpdate(r, c, n, D)
        \/ \E c \in Code : StartDelete(r, c)
        \/ StartRebuild(r)
        \/ Store(r) \/ StoreFails(r) \/ DropFromIndex(r) \/ Embed(r) \/ Upsert(r)
        \/ ReadForThumbnail(r) \/ ReplaceByThumbnail(r) \/ ThreadFails(r)
        \/ Succeed(r) \/ RemoveFolder(r) \/ RollBack(r) \/ RemovalFails(r)
    \/ Crash
    \/ Done

Spec == Init /\ [][Next]_vars

(***************************************************************************)
(* Properties.                                                             *)
(***************************************************************************)

\* The type invariant.
TypeOK ==
    /\ rows \in [Image -> Size] /\ files \in [Image -> Size]
    /\ folders \subseteq Folder /\ index \subseteq Image
    /\ codeOf \in [Image -> Code \cup {NoCode}]
    /\ tags \in [Image -> SUBSET Tag]
    /\ req \in [Request -> Work]

\* No request that still runs stores or deletes image i.
Settled(i) == \A r \in Request : i \notin Owned(req[r])

\* Files and rows agree: an image listed has a file and it is the small one, and
\* one not listed has none, whatever failed on the way; except where the requests
\* for it ran beside an update, a delete or the script, the process ended, the
\* removal of its file broke off or another code shares its folder.
FilesMatchRows ==
    \A i \in Image :
        Settled(i) /\ tags[i] \cap {"mixed", "broken"} = {} =>
            rows[i] = files[i] /\ rows[i] # "ready"

\* What is listed can be found and what is found is listed, with two exceptions
\* besides those above: an import or update that failed may leave its vectors, and
\* a deletion that failed after it took the vectors out may leave its rows.
SearchMatchesRows ==
    \A i \in Image :
        Settled(i) /\ tags[i] \cap {"mixed", "broken", "failed"} = {} =>
            (i \in index <=> rows[i] # "none" /\ "withdrawn" \notin tags[i])

\* What the documentation says of an import that fails: metadata and files of it
\* are taken back.
FailedLeavesNothing ==
    \A i \in Image :
        Settled(i) /\ "failed" \in tags[i] /\ "broken" \notin tags[i] =>
            rows[i] = "none" /\ files[i] = "none"

(***************************************************************************)
(* The inductive invariant of ImageSourcesProofs.                          *)
(***************************************************************************)

Clean(i) == tags[i] \cap {"mixed", "broken"} = {}

\* What a request has to do with its kind, in each of its stages.
Staged(q) ==
    /\ q.pc = "idle" => q = Idle
    /\ q.pc = "done" => q = Over
    /\ q.pc \notin {"idle", "done"} => q.kind # "none"
    /\ q.kind = "import" => q.drop = {}
    /\ q.kind = "delete" => q.new = {} /\ q.pc \in {"dropping", "removing", "failing"}
    /\ q.kind = "rebuild" =>
          q.drop = {} /\ q.pc \in {"embedding", "upserting", "failing"}
    /\ q.pc = "storing" => q.left > 0
    /\ q.kind \in {"import", "update", "delete"} =>
          q.code # NoCode /\ (q.written <=> q.pc # "storing")
    /\ q.pc \in {"embedding", "upserting"} => q.new # {}
    /\ q.pc \in {"shrinking", "replacing"} => q.at # {}
    /\ q.pc = "refreshing" => q.at = {}
    /\ q.pc = "removing" => q.new = {}
    /\ q.at \subseteq q.new

Stages == \A r \in Request : Staged(req[r])

\* A request holds no name that is still free; what it stores it named, and what
\* it drops it found under its code.
Named(q) ==
    /\ \A i \in Image : codeOf[i] = NoCode => i \notin Owned(q) /\ q.copy[i] = "none"
    /\ \A i \in q.drop : codeOf[i] = q.code
    /\ q.kind # "rebuild" => \A i \in q.new : q.copy[i] = "none"

\* A name that is still free is nowhere.
Names ==
    /\ \A i \in Image : codeOf[i] = NoCode =>
          rows[i] = "none" /\ files[i] = "none" /\ i \notin index /\ tags[i] = {}
    /\ \A r \in Request : Named(req[r])

\* Requests that run side by side know of it, unless both import; what those
\* store is not the same.
Neighbours ==
    /\ \A r, s \in Request :
          r # s /\ Running(r) /\ Running(s) =>
             \/ req[r].mixed /\ req[s].mixed
             \/ /\ req[r].kind = "import" /\ req[s].kind = "import"
                /\ req[r].new \cap req[s].new = {}
    /\ \A r \in Request :
          req[r].mixed => \A i \in Owned(req[r]) : "mixed" \in tags[i]

\* The copy of the CSV an update or a delete may write back is still true of the
\* images that are not its own.
CopyHolds(q, i) == q.kind \in {"update", "delete"} /\ i \notin Owned(q) => q.copy[i] = rows[i]

\* An image nobody works on.
Resting(i) ==
    /\ rows[i] = files[i] /\ rows[i] # "ready"
    /\ "failed" \notin tags[i] => (i \in index <=> rows[i] # "none" /\ "withdrawn" \notin tags[i])

\* An image that q stores, until q is rolled back.
Arriving(q, i) ==
    /\ "withdrawn" \notin tags[i]
    /\ q.pc # "failing" =>
          /\ rows[i] = IF q.written THEN "ready" ELSE "none"
          /\ files[i] = IF q.pc \in {"shrinking", "replacing", "refreshing"} /\ i \notin q.at
                        THEN "thumb" ELSE "ready"
          /\ i \in index <=> q.pc \in {"shrinking", "replacing", "refreshing"}

\* An image that q drops: its row and file can still be brought back.
Leaving(q, i) ==
    /\ i \notin q.new
    /\ files[i] = "thumb" /\ q.copy[i] = "thumb"
    /\ rows[i] = IF q.written THEN "none" ELSE "thumb"
    /\ "failed" \notin tags[i] => (i \in index <=> "withdrawn" \notin tags[i])
    /\ q.pc \notin {"storing", "dropping", "failing"} => i \notin index

Midway(q, i) ==
    /\ i \in q.new /\ q.kind # "rebuild" => Arriving(q, i)
    /\ i \in q.new /\ q.kind = "rebuild" => Resting(i) /\ rows[i] # "none"
    /\ i \in q.drop => Leaving(q, i)

Sound(i) ==
    /\ Settled(i) => Resting(i)
    /\ \A r \in Request :
          /\ i \in Owned(req[r]) => Midway(req[r], i)
          /\ CopyHolds(req[r], i)

IInv ==
    /\ TypeOK /\ Stages /\ Names /\ Neighbours
    /\ \A i \in Image : Clean(i) => Sound(i)
============================================================================
