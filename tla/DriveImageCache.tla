-------------------------- MODULE DriveImageCache --------------------------
(***************************************************************************)
(* The cache of Drive images that all Pancake replies of the process share  *)
(* (DI = app/services/pancake_drive_image_service.py, and its use in         *)
(* app/api/v1/pancake_webhook.py 3245-3295 and 4414-4750): one JSON entry    *)
(* per Drive file and one local copy of it.                                  *)
(*                                                                         *)
(* A reply first makes sure of its images, then delivers its text, then      *)
(* uploads the images it has no content id for; it suspends at every         *)
(* download, during the text and at every upload, and what it learned of the *)
(* cache before may be out of date after.  An inbox reply reuses content ids *)
(* and removes the local copy it has uploaded; a comment's reply always      *)
(* uploads and never removes.                                                *)
(*                                                                         *)
(* The code runs on without suspension over several images that need no      *)
(* download; here each image is a step of its own, which only adds           *)
(* interleavings.  A removal of a copy may fail, which the code catches;     *)
(* writes of the copies and of the JSON file are taken to succeed.  The      *)
(* entry's bookkeeping that no code reads (local_present, sizes, time stamps)*)
(* is left out.                                                              *)
(***************************************************************************)
EXTENDS Integers, Sequences, FiniteSets

CONSTANTS
    Reply,      \* the Pancake replies with Drive images
    Comment,    \* those that answer a comment
    File,       \* Drive files
    Lists,      \* the lists of files each reply may want, none twice
    Past,       \* what earlier replies may have left of a file: entry and copy
    Reuse,      \* PANCAKE_REUSE_UPLOADED_CONTENT_ID
    Tries,      \* settings.pancake_api_retry_attempts
    MaxCrashes  \* bound: ends of the process

NoEntry == [known |-> FALSE, content |-> FALSE, coloured |-> FALSE]

Entry == {e \in [known: BOOLEAN, content: BOOLEAN, coloured: BOOLEAN] :
            e.known \/ e = NoEntry}

\* "large": a copy larger than the configured storage limit, kept from before
\* that limit was lowered.
Copy == {"absent", "fits", "large"}

ASSUME ReplyAssumption == Comment \subseteq Reply
ASSUME ListsAssumption ==
    \A r \in Reply : \A s \in Lists[r] :
        /\ s \in Seq(File) /\ Len(s) > 0
        /\ \A i, j \in 1..Len(s) : s[i] = s[j] => i = j
ASSUME PastAssumption == Past \subseteq [entry: Entry, copy: Copy]
ASSUME ReuseAssumption == Reuse \in BOOLEAN
ASSUME BoundAssumption == Tries \in Nat \ {0} /\ MaxCrashes \in Nat

VARIABLES
    ask,        \* what each reply was told by the Drive lookup
    run,        \* where its coroutine is
    got,        \* what it holds of each file, learned when it asked the cache
    entry,      \* the JSON cache, one entry per file
    disk,       \* the local copies
    crashes,    \* how often the process ended
    shared,     \* history: files two replies counted on at the same time
    kept,       \* history: files with a reason to stay on disk once uploaded
    missed      \* history: images a reply lost because the copy was gone

vars == <<ask, run, got, entry, disk, crashes, shared, kept, missed>>

PC == {"idle", "ensuring", "downloading", "replying", "sending", "uploading", "done"}

\* What a reply wants: its files in their order, whether it asked for a colour,
\* and whether the lookup supplied the files' names and colours.
\* Asked for again, an absent image is downloaded and one with an error is not
\* in the reply's list of images to send.
Hold == {"unasked", "content", "local", "error"}

Asks(r) == [files: Lists[r], colour: BOOLEAN, named: BOOLEAN]

Nothing == [files |-> <<>>, colour |-> FALSE, named |-> FALSE]

At(pc) == [pc |-> pc, at |-> 1, seen |-> FALSE, try |-> 1, open |-> FALSE]

Init ==
    /\ ask = [r \in Reply |-> Nothing]
    /\ run = [r \in Reply |-> At("idle")]
    /\ got = [r \in Reply |-> [f \in File |-> "unasked"]]
    /\ \E past \in [File -> Past] :
         /\ entry = [f \in File |-> past[f].entry]
         /\ disk = [f \in File |-> past[f].copy]
    /\ crashes = 0
    /\ shared = {}
    /\ kept = {f \in File : entry[f].content /\ disk[f] # "absent"}
    /\ missed = [r \in Reply |-> {}]

(***************************************************************************)
(* Making sure of the images: ensure_local_images.                         *)
(***************************************************************************)

\* Only inbox replies reuse content ids.
Reuses(r) == Reuse /\ r \notin Comment

Current(r) == ask[r].files[run[r].at]

\* To the next file in the same loop, or past the loop.
Step(r, loop, next) ==
    IF run[r].at < Len(ask[r].files)
    THEN [At(loop) EXCEPT !.at = run[r].at + 1]
    ELSE At(next)

Ensured(r) == [run EXCEPT ![r] = Step(r, "ensuring", "replying")]

\* An entry that lacks name or colour is of no use to a reply that asked for a
\* colour: entry and copy are removed before anything is looked up.
Dropped(r) == LET e == entry[Current(r)]
              IN ask[r].colour /\ e.known /\ ~e.coloured

EntryFor(r) == IF Dropped(r) THEN NoEntry ELSE entry[Current(r)]

\* _remove_local_image: an error of the file system is logged and no more.
Removal(f) == {[copy |-> "absent", failed |-> FALSE],
               [copy |-> disk[f], failed |-> disk[f] # "absent"]}

NoRemoval(f) == {[copy |-> disk[f], failed |-> FALSE]}

CopyFor(r) ==
    {x.copy : x \in IF Dropped(r) THEN Removal(Current(r)) ELSE NoRemoval(Current(r))}

\* An update adds to the entry and never clears a field.
Merged(e, content, coloured) ==
    [known |-> TRUE, content |-> e.content \/ content, coloured |-> e.coloured \/ coloured]

Touched(e, coloured) == IF coloured THEN Merged(e, FALSE, TRUE) ELSE e

Busy(r) == run[r].pc \notin {"idle", "done"}

\* r counts on a local copy of f from now on.
CountsOn(r, f) ==
    /\ Busy(r)
    /\ got[r][f] = "local" \/ (run[r].pc = "downloading" /\ Current(r) = f)

Sharing(r, f) ==
    IF \E q \in Reply \ {r} : CountsOn(q, f) THEN shared \cup {f} ELSE shared

Keeping(r, f) == IF Reuses(r) THEN kept ELSE kept \cup {f}

\* mutation of HasContent: the reuse flag of the call is not looked at.
HasContentAnyway(r) == EntryFor(r).content

HasContent(r) == Reuses(r) /\ EntryFor(r).content

TakeUp(r) ==
    /\ run[r].pc = "idle"
    /\ run' = [run EXCEPT ![r] = At("ensuring")]
    /\ \E a \in Asks(r) : ask' = [ask EXCEPT ![r] = a]
    /\ UNCHANGED <<got, entry, disk, crashes, shared, kept, missed>>

\* A cached content id needs no local copy.
CacheHit(r) ==
    LET f == Current(r) IN
    /\ run[r].pc = "ensuring" /\ HasContent(r)
    /\ entry' = [entry EXCEPT ![f] = Touched(@, ask[r].named)]
    /\ got' = [got EXCEPT ![r][f] = "content"]
    /\ run' = Ensured(r)
    /\ UNCHANGED <<ask, disk, crashes, shared, kept, missed>>

\* The copy is there; one above the storage limit is optimised in place.
UseLocal(r) ==
    LET f == Current(r) IN
    /\ run[r].pc = "ensuring" /\ ~HasContent(r) /\ CopyFor(r) # {"absent"}
    /\ disk' = [disk EXCEPT ![f] = "fits"]
    /\ entry' = [entry EXCEPT ![f] = Merged(EntryFor(r), FALSE, ask[r].named)]
    /\ got' = [got EXCEPT ![r][f] = "local"]
    /\ shared' = Sharing(r, f)
    /\ kept' = Keeping(r, f)
    /\ run' = Ensured(r)
    /\ UNCHANGED <<ask, crashes, missed>>

\* No copy, or one that cannot be optimised and is to be removed.  The content id the
\* entry has now is written back when the download ends.
StartDownload(r) ==
    LET f == Current(r) IN
    /\ run[r].pc = "ensuring" /\ ~HasContent(r)
    /\ entry' = [entry EXCEPT ![f] = EntryFor(r)]
    /\ \E copy \in CopyFor(r) \ {"fits"} : \E left \in {"absent", copy} :
          disk' = [disk EXCEPT ![f] = left]
    /\ shared' = Sharing(r, f)
    /\ kept' = Keeping(r, f)
    /\ run' = [run EXCEPT ![r].pc = "downloading", ![r].seen = EntryFor(r).content]
    /\ UNCHANGED <<ask, got, crashes, missed>>

Downloaded(r) ==
    LET f == Current(r) IN
    /\ run[r].pc = "downloading"
    /\ disk' = [disk EXCEPT ![f] = "fits"]
    /\ entry' = [entry EXCEPT ![f] = Merged(@, run[r].seen, ask[r].named)]
    /\ got' = [got EXCEPT ![r][f] = "local"]
    /\ run' = Ensured(r)
    /\ UNCHANGED <<ask, crashes, shared, kept, missed>>

\* Time out, refusal, no image, too large, or impossible to optimise.
DownloadFails(r) ==
    /\ run[r].pc = "downloading"
    /\ got' = [got EXCEPT ![r][Current(r)] = "error"]
    /\ run' = Ensured(r)
    /\ UNCHANGED <<ask, entry, disk, crashes, shared, kept, missed>>

(***************************************************************************)
(* The text, then the uploads: _send_pancake_drive_images and its variant   *)
(* for comments.                                                           *)
(***************************************************************************)

\* A reply that is over wants nothing.
Wanted == [r \in Reply |-> IF run'[r].pc = "done" THEN Nothing ELSE ask[r]]

Forgotten(S) == [r \in Reply |-> IF r \in S THEN [f \in File |-> "unasked"] ELSE got[r]]

\* Without any image, or when the text fails, the reply is over.
TextFails(r) ==
    /\ run[r].pc = "replying"
    /\ run' = [run EXCEPT ![r] = At("done")]
    /\ ask' = Wanted
    /\ got' = Forgotten({r})
    /\ UNCHANGED <<entry, disk, crashes, shared, kept, missed>>

TextDelivered(r) ==
    /\ run[r].pc = "replying"
    /\ run' = [run EXCEPT ![r].pc = "sending"]
    /\ UNCHANGED <<ask, got, entry, disk, crashes, shared, kept, missed>>

Sent(r) == [run EXCEPT ![r] = Step(r, "sending", "done")]

\* This file is dealt with: nothing is counted on any more.
LetGo(r, f) == [got EXCEPT ![r][f] = "unasked"]

\* An inbox reply sends what it has a content id of by that id; an image with
\* an error was dropped from the list before.
ToUpload(r) ==
    CASE got[r][Current(r)] = "local" -> TRUE
      [] got[r][Current(r)] = "content" -> ~Reuses(r)
      [] OTHER -> FALSE

NothingToUpload(r) ==
    /\ run[r].pc = "sending" /\ ~ToUpload(r)
    /\ got' = LetGo(r, Current(r))
    /\ run' = Sent(r)
    /\ ask' = Wanted
    /\ UNCHANGED <<entry, disk, crashes, shared, kept, missed>>

\* upload_pancake_content does not find the copy the cache result named.
CopyGone(r) ==
    LET f == Current(r) IN
    /\ run[r].pc = "sending" /\ ToUpload(r) /\ disk[f] = "absent"
    /\ missed' = [missed EXCEPT ![r] = @ \cup {f}]
    /\ got' = LetGo(r, f)
    /\ run' = Sent(r)
    /\ ask' = Wanted
    /\ UNCHANGED <<entry, disk, crashes, shared, kept>>

StartUpload(r) ==
    LET f == Current(r) IN
    /\ run[r].pc = "sending" /\ ToUpload(r) /\ disk[f] # "absent"
    /\ run' = [run EXCEPT ![r].pc = "uploading", ![r].open = TRUE]
    /\ UNCHANGED <<ask, got, entry, disk, crashes, shared, kept, missed>>

\* mutation of AfterUpload: the copy is removed only after a first attempt.
KeptAfterRetry(r, f) ==
    IF Reuses(r) /\ run[r].try = 1 THEN Removal(f) ELSE NoRemoval(f)

\* With content ids reused the copy has served.
AfterUpload(r, f) == IF Reuses(r) THEN Removal(f) ELSE NoRemoval(f)

\* A comment's reply keeps the content id to itself.
Recorded(r, f) == IF r \in Comment THEN entry ELSE [entry EXCEPT ![f] = Merged(@, TRUE, FALSE)]

UploadTaken(r) ==
    LET f == Current(r) IN
    /\ run[r].pc = "uploading" /\ run[r].open
    /\ entry' = Recorded(r, f)
    /\ \E x \in AfterUpload(r, f) :
          /\ disk' = [disk EXCEPT ![f] = x.copy]
          /\ kept' = IF x.failed THEN kept \cup {f} ELSE kept
    /\ got' = LetGo(r, f)
    /\ run' = Sent(r)
    /\ ask' = Wanted
    /\ UNCHANGED <<crashes, shared, missed>>

\* A failed attempt that may be repeated: the file is opened again, and by then
\* it may be gone.
UploadRetried(r) ==
    /\ run[r].pc = "uploading" /\ run[r].try < Tries
    /\ run' = [run EXCEPT ![r].try = @ + 1, ![r].open = disk[Current(r)] # "absent"]
    /\ UNCHANGED <<ask, got, entry, disk, crashes, shared, kept, missed>>

\* Refused for good, or no attempt left.
UploadFails(r) ==
    LET f == Current(r) IN
    /\ run[r].pc = "uploading"
    /\ run[r].open \/ run[r].try = Tries
    /\ missed' = IF run[r].open THEN missed ELSE [missed EXCEPT ![r] = @ \cup {f}]
    /\ got' = LetGo(r, f)
    /\ run' = Sent(r)
    /\ ask' = Wanted
    /\ UNCHANGED <<entry, disk, crashes, shared, kept>>

(***************************************************************************)
(* The process ends: the replies are gone, entries and copies stay.          *)
(***************************************************************************)

Ended == [r \in Reply |-> IF run[r].pc = "idle" THEN run[r] ELSE At("done")]

Crash ==
    /\ crashes < MaxCrashes
    /\ crashes' = crashes + 1
    /\ run' = Ended
    /\ ask' = Wanted
    /\ got' = Forgotten(Reply)
    /\ UNCHANGED <<entry, disk, shared, kept, missed>>

\* Between the entry's update after an upload and the removal of the copy.
CrashAfterRecord(r) ==
    LET f == Current(r) IN
    /\ run[r].pc = "uploading" /\ run[r].open /\ Reuses(r) /\ crashes < MaxCrashes
    /\ crashes' = crashes + 1
    /\ entry' = Recorded(r, f)
    /\ kept' = kept \cup {f}
    /\ run' = Ended
    /\ ask' = Wanted
    /\ got' = Forgotten(Reply)
    /\ UNCHANGED <<disk, shared, missed>>

Over ==
    /\ \A r \in Reply : run[r].pc = "done"
    /\ UNCHANGED vars

Next ==
    \/ \E r \in Reply :
        \/ TakeUp(r) \/ CacheHit(r) \/ UseLocal(r) \/ StartDownload(r)
        \/ Downloaded(r) \/ DownloadFails(r) \/ TextFails(r) \/ TextDelivered(r)
        \/ NothingToUpload(r) \/ CopyGone(r) \/ StartUpload(r) \/ UploadTaken(r)
        \/ UploadRetried(r) \/ UploadFails(r) \/ CrashAfterRecord(r)
    \/ Crash
    \/ Over

Spec == Init /\ [][Next]_vars

(***************************************************************************)
(* Properties.                                                             *)
(***************************************************************************)

RunState == [pc: PC, at: Nat \ {0}, seen: BOOLEAN, try: 1..Tries, open: BOOLEAN]

\* The type invariant: in particular no coroutine indexes past its list of
\* files, in the loop over ensure_local_image or in the one over the uploads.
TypeOK ==
    /\ ask \in [Reply -> [files: Seq(File), colour: BOOLEAN, named: BOOLEAN]]
    /\ run \in [Reply -> RunState]
    /\ \A r \in Reply :
          Busy(r) => ask[r] \in Asks(r) /\ run[r].at \in 1..Len(ask[r].files)
    /\ got \in [Reply -> [File -> Hold]]
    /\ entry \in [File -> Entry] /\ disk \in [File -> Copy]
    /\ crashes \in 0..MaxCrashes
    /\ shared \subseteq File /\ kept \subseteq File
    /\ missed \in [Reply -> SUBSET File]

\* A reply loses an image for want of its local copy only when another reply
\* counted on the same file at the same time (and uploaded it and removed it,
\* or dropped it for want of a colour): alone, what ensure_local_images promised
\* is still there after the text has been delivered.
MissedOnlyShared == \A r \in Reply : missed[r] \subseteq shared

\* No local copy outlives its upload, for no later inbox reply would remove it:
\* a file with a content id has no copy, except one that two replies shared,
\* that a comment's reply used, that was there before, or whose removal failed
\* (_remove_local_image goes on after an OSError) or was prevented by a crash.
LeftoverExplained ==
    \A f \in File : entry[f].content /\ disk[f] # "absent" => f \in shared \cup kept

(***************************************************************************)
(* The inductive invariant of DriveProofs.                                 *)
(***************************************************************************)

\* What r holds: nothing of a file it has not asked for; a content id only if
\* it reuses them; a copy that is there unless another reply counted on it too.
Holds(r) ==
    /\ run[r].pc = "idle" => \A f \in File : got[r][f] = "unasked"
    /\ run[r].pc \in {"ensuring", "downloading"} =>
          \A i \in run[r].at..Len(ask[r].files) : got[r][ask[r].files[i]] = "unasked"
    /\ \A f \in File : got[r][f] = "content" => Reuses(r)
    /\ \A f \in File : /\ Busy(r) /\ got[r][f] = "local" => disk[f] # "absent" \/ f \in shared
                       /\ CountsOn(r, f) /\ ~Reuses(r) => f \in kept

\* What r has under way: a download whose content id was unknown and is known
\* by now through another reply only; an upload of a copy that was there.
UnderWay(r) ==
    /\ run[r].pc = "downloading" /\ Reuses(r) =>
          /\ ~run[r].seen
          /\ entry[Current(r)].content => Current(r) \in shared \cup kept
    /\ run[r].pc = "uploading" =>
          got[r][Current(r)] = "local" /\ (run[r].open \/ Current(r) \in shared)

SharedNoted ==
    \A f \in File : \A q, r \in Reply : q # r /\ CountsOn(q, f) /\ CountsOn(r, f) => f \in shared

IInv == /\ TypeOK /\ SharedNoted /\ LeftoverExplained /\ MissedOnlyShared
        /\ \A r \in Reply : Holds(r) /\ UnderWay(r)
============================================================================
