----------------------------- MODULE DriveProofs -----------------------------
(***************************************************************************)
(* Proofs about the two components that deal with Drive images.              *)
(*                                                                         *)
(* DriveImageCache, for any replies, files, lists of wanted files, remains   *)
(* of the past, attempts and crashes: IInv is inductive.  A step is one     *)
(* reply's, or the end of all.  Whole divides what is to show of the former: *)
(* what the stepping reply holds afterwards, and that files the others count *)
(* on stay, or are noted as shared.                                        *)
(*                                                                         *)
(* DriveLookup, for any contents of the folders, answers, settings and       *)
(* random choices: LookupIInv is inductive.  A branch goes on (WalkKeeps) or *)
(* ends (ResultKeeps); SelectKeeps is the selection.                        *)
(***************************************************************************)
EXTENDS DriveImageCache, DriveLookup, TLAPS

(***************************************************************************)
(* DriveImageCache.                                                        *)
(***************************************************************************)

\* A step of r leaves the coroutines of the others alone.
Others(r) ==
    \A q \in Reply \ {r} :
        run'[q] = run[q] /\ got'[q] = got[q] /\ (Busy(q) => ask'[q] = ask[q])

LEMMA Here ==
  ASSUME TypeOK, NEW r \in Reply, Busy(r)
  PROVE  /\ ask[r].files \in Seq(File) /\ Len(ask[r].files) \in Nat
         /\ run[r].at \in 1..Len(ask[r].files) /\ Current(r) \in File
         /\ Current(r) = ask[r].files[run[r].at]
         /\ \A i \in 1..Len(ask[r].files) : ask[r].files[i] \in File
         /\ \A i, j \in 1..Len(ask[r].files) :
               ask[r].files[i] = ask[r].files[j] => i = j
<1>1. ask[r] \in Asks(r) /\ run[r].at \in 1..Len(ask[r].files)
  BY DEF TypeOK
<1>. PICK s : s = ask[r].files
  OBVIOUS
<1>2. s \in Lists[r]
  BY <1>1 DEF Asks
<1>3. s \in Seq(File) /\ \A i, j \in 1..Len(s) : s[i] = s[j] => i = j
  BY <1>2, ListsAssumption
<1>. QED
  BY <1>1, <1>3 DEF Current

\* What the others count on: their coroutines are where they were.
LEMMA OthersCount ==
  ASSUME NEW r \in Reply, Others(r), NEW q \in Reply \ {r}
  PROVE  /\ Busy(q)' <=> Busy(q)
         /\ Busy(q) => Current(q)' = Current(q)
         /\ \A f \in File : CountsOn(q, f)' <=> CountsOn(q, f)
BY DEF Others, Busy, CountsOn, Current

LEMMA OthersKeep ==
  ASSUME IInv, NEW r \in Reply, Others(r),
         shared \subseteq shared', kept \subseteq kept',
         \A q \in Reply \ {r}, f \in File : CountsOn(q, f) =>
            /\ disk[f] # "absent" => disk'[f] # "absent" \/ f \in shared'
            /\ entry'[f].content => entry[f].content \/ f \in shared' \cup kept'
  PROVE  \A q \in Reply \ {r} : Holds(q)' /\ UnderWay(q)'
<1>. TAKE q \in Reply \ {r}
<1>1. /\ Holds(q) /\ UnderWay(q)
      /\ run'[q] = run[q] /\ got'[q] = got[q] /\ (Busy(q)' <=> Busy(q))
      /\ Busy(q) => ask'[q] = ask[q] /\ Current(q)' = Current(q)
      /\ \A f \in File : CountsOn(q, f)' <=> CountsOn(q, f)
  BY OthersCount DEF IInv, Others
<1>2. Busy(q) => Current(q) \in File
  BY Here DEF IInv
<1>3. Holds(q)'
  <2>1. run'[q].pc = "idle" => \A f \in File : got'[q][f] = "unasked"
    BY <1>1 DEF Holds
  <2>2. run'[q].pc \in {"ensuring", "downloading"} =>
           \A i \in run'[q].at..Len(ask'[q].files) : got'[q][ask'[q].files[i]] = "unasked"
    BY <1>1 DEF Holds, Busy
  <2>3. \A f \in File : got'[q][f] = "content" => Reuses(q)
    BY <1>1 DEF Holds
  <2>4. \A f \in File :
          /\ Busy(q)' /\ got'[q][f] = "local" => disk'[f] # "absent" \/ f \in shared'
          /\ CountsOn(q, f)' /\ ~Reuses(q) => f \in kept'
    BY <1>1 DEF Holds, CountsOn
  <2>. QED
    BY <2>1, <2>2, <2>3, <2>4 DEF Holds, Reuses
<1>4. UnderWay(q)'
  <2>1. ASSUME run'[q].pc = "downloading", Reuses(q)
        PROVE  /\ ~run'[q].seen
               /\ entry'[Current(q)'].content => Current(q)' \in shared' \cup kept'
    <3>1. Busy(q) /\ CountsOn(q, Current(q)) /\ Current(q)' = Current(q)
      BY <1>1, <2>1 DEF Busy, CountsOn
    <3>. QED
      BY <1>1, <1>2, <2>1, <3>1 DEF UnderWay
  <2>2. ASSUME run'[q].pc = "uploading"
        PROVE  /\ got'[q][Current(q)'] = "local"
               /\ run'[q].open \/ Current(q)' \in shared'
    BY <1>1, <2>2 DEF UnderWay, Busy
  <2>. QED
    BY <2>1, <2>2 DEF UnderWay, Reuses
<1>. QED
  BY <1>3, <1>4

\* Whoever starts counting on a file notes who did before.
LEMMA PairsKeep ==
  ASSUME IInv, NEW r \in Reply, Others(r), shared \subseteq shared',
         \A f \in File : CountsOn(r, f)' =>
            CountsOn(r, f) \/ \A q \in Reply \ {r} : CountsOn(q, f) => f \in shared'
  PROVE  SharedNoted'
<1>. SUFFICES ASSUME NEW f \in File, NEW q \in Reply, NEW p \in Reply, q # p,
                     CountsOn(q, f)', CountsOn(p, f)'
              PROVE  f \in shared'
  BY DEF SharedNoted
<1>1. CASE q # r /\ p # r
  BY <1>1, OthersCount DEF IInv, SharedNoted
<1>2. CASE q = r
  BY <1>2, OthersCount DEF IInv, SharedNoted
<1>3. CASE p = r
  BY <1>3, OthersCount DEF IInv, SharedNoted
<1>. QED
  BY <1>1, <1>2, <1>3

LEMMA Whole ==
  ASSUME IInv, NEW r \in Reply, Others(r), TypeOK',
         Holds(r)', UnderWay(r)', LeftoverExplained', MissedOnlyShared',
         shared \subseteq shared', kept \subseteq kept',
         \A q \in Reply \ {r}, f \in File : CountsOn(q, f) =>
            /\ disk[f] # "absent" => disk'[f] # "absent" \/ f \in shared'
            /\ entry'[f].content => entry[f].content \/ f \in shared' \cup kept',
         \A f \in File : CountsOn(r, f)' =>
            CountsOn(r, f) \/ \A q \in Reply \ {r} : CountsOn(q, f) => f \in shared'
  PROVE  IInv'
<1>1. \A q \in Reply \ {r} : Holds(q)' /\ UnderWay(q)'
  BY OthersKeep
<1>2. SharedNoted'
  BY PairsKeep
<1>. QED
  BY <1>1, <1>2 DEF IInv

-----------------------------------------------------------------------------
(* The two loops.                                                          *)

\* The next file of the loop, or the first of what follows it.
LEMMA StepShape ==
  ASSUME TypeOK, NEW r \in Reply, Busy(r), NEW loop \in PC, NEW next \in PC
  PROVE  /\ Step(r, loop, next) \in RunState
         /\ \/ /\ Step(r, loop, next).pc = loop
               /\ Step(r, loop, next).at = run[r].at + 1
               /\ run[r].at < Len(ask[r].files)
            \/ Step(r, loop, next).pc = next /\ Step(r, loop, next).at = 1
<1>1. 1 \in 1..Tries /\ 1 \in Nat \ {0}
  BY BoundAssumption
<1>2. run[r].at + 1 \in Nat \ {0}
  BY DEF TypeOK, RunState
<1>. QED
  BY <1>1, <1>2 DEF Step, At, RunState

\* A reply that has learned of a file while it makes sure of its images.
LEMMA EnsuredKeeps ==
  ASSUME IInv, NEW r \in Reply, run[r].pc \in {"ensuring", "downloading"},
         NEW x \in {"content", "local", "error"}, NEW f, f = Current(r),
         run' = Ensured(r), got' = [got EXCEPT ![r][f] = x], ask' = ask,
         x = "content" => Reuses(r),
         x = "local" => disk'[f] # "absent" /\ (Reuses(r) \/ f \in kept'),
         shared \subseteq shared', kept \subseteq kept',
         \A g \in File \ {f} : disk'[g] = disk[g]
  PROVE  /\ run' \in [Reply -> RunState] /\ got' \in [Reply -> [File -> Hold]]
         /\ \A q \in Reply : Busy(q)' => /\ ask'[q] \in Asks(q)
                                         /\ run'[q].at \in 1..Len(ask'[q].files)
         /\ Others(r) /\ Holds(r)' /\ UnderWay(r)'
         /\ \A g \in File : CountsOn(r, g)' => CountsOn(r, g) \/ (g = f /\ x = "local")
<1>1. TypeOK /\ Holds(r) /\ Busy(r)
  BY DEF IInv, Busy
<1>2. /\ ask[r].files \in Seq(File) /\ Len(ask[r].files) \in Nat
      /\ run[r].at \in 1..Len(ask[r].files) /\ f \in File
      /\ f = ask[r].files[run[r].at]
      /\ \A i \in 1..Len(ask[r].files) : ask[r].files[i] \in File
      /\ \A i, j \in 1..Len(ask[r].files) :
            ask[r].files[i] = ask[r].files[j] => i = j
  BY <1>1, Here
<1>3. PICK s : s = Step(r, "ensuring", "replying")
  OBVIOUS
<1>4. /\ s \in RunState
      /\ \/ s.pc = "ensuring" /\ s.at = run[r].at + 1 /\ run[r].at < Len(ask[r].files)
         \/ s.pc = "replying" /\ s.at = 1
  BY <1>1, <1>3, StepShape DEF PC
<1>5. run' = [run EXCEPT ![r] = s]
  BY <1>3 DEF Ensured
<1>6. /\ run' \in [Reply -> RunState] /\ run'[r] = s
      /\ \A q \in Reply \ {r} : run'[q] = run[q]
  BY <1>1, <1>4, <1>5 DEF TypeOK
<1>7. /\ got' \in [Reply -> [File -> Hold]] /\ got'[r][f] = x
      /\ \A g \in File \ {f} : got'[r][g] = got[r][g]
      /\ \A q \in Reply \ {r} : got'[q] = got[q]
  BY <1>1, <1>2 DEF TypeOK, Hold
<1>8. Others(r)
  BY <1>6, <1>7 DEF Others
<1>9. s.at \in 1..Len(ask[r].files) /\ run'[r].pc \in {"ensuring", "replying"}
  BY <1>2, <1>4, <1>6
<1>10. \A q \in Reply : Busy(q)' => /\ ask'[q] \in Asks(q)
                                    /\ run'[q].at \in 1..Len(ask'[q].files)
  BY <1>1, <1>6, <1>9 DEF TypeOK, Busy
<1>11. \A g \in File : CountsOn(r, g)' => CountsOn(r, g) \/ (g = f /\ x = "local")
  BY <1>1, <1>7, <1>9 DEF CountsOn
<1>12. UnderWay(r)'
  BY <1>9 DEF UnderWay
<1>13. Holds(r)'
  <2>1. run'[r].pc # "idle"
    BY <1>9
  <2>2. ASSUME run'[r].pc = "ensuring", NEW i \in run'[r].at..Len(ask'[r].files)
        PROVE  got'[r][ask'[r].files[i]] = "unasked"
    <3>1. i \in run[r].at..Len(ask[r].files) /\ i # run[r].at /\ i \in 1..Len(ask[r].files)
      BY <1>2, <1>4, <1>6, <2>2
    <3>2. got[r][ask[r].files[i]] = "unasked" /\ ask[r].files[i] # f
      BY <1>1, <1>2, <3>1 DEF Holds
    <3>. QED
      BY <1>2, <1>7, <3>1, <3>2
  <2>3. \A g \in File : got'[r][g] = "content" => Reuses(r)
    BY <1>1, <1>7 DEF Holds
  <2>4. ASSUME NEW g \in File, got'[r][g] = "local"
        PROVE  disk'[g] # "absent" \/ g \in shared'
    BY <1>1, <1>7, <2>4 DEF Holds
  <2>5. ASSUME NEW g \in File, CountsOn(r, g)', ~Reuses(r)
        PROVE  g \in kept'
    BY <1>1, <1>11, <2>5 DEF Holds
  <2>. QED
    BY <1>9, <2>1, <2>2, <2>3, <2>4, <2>5 DEF Holds, Reuses
<1>. QED
  BY <1>6, <1>7, <1>8, <1>10, <1>11, <1>12, <1>13

\* A reply that has dealt with a file in the loop over the uploads.
LEMMA SentKeeps ==
  ASSUME IInv, NEW r \in Reply, run[r].pc \in {"sending", "uploading"},
         NEW f, f = Current(r),
         run' = Sent(r), got' = LetGo(r, f), ask' = Wanted,
         shared \subseteq shared', kept \subseteq kept',
         \A g \in File \ {f} : disk'[g] = disk[g]
  PROVE  /\ run' \in [Reply -> RunState] /\ got' \in [Reply -> [File -> Hold]]
         /\ ask' \in [Reply -> [files: Seq(File), colour: BOOLEAN, named: BOOLEAN]]
         /\ \A q \in Reply : Busy(q)' => /\ ask'[q] \in Asks(q)
                                         /\ run'[q].at \in 1..Len(ask'[q].files)
         /\ Others(r) /\ Holds(r)' /\ UnderWay(r)' /\ f \in File
         /\ \A g \in File : CountsOn(r, g)' => CountsOn(r, g)
<1>1. TypeOK /\ Holds(r) /\ Busy(r)
  BY DEF IInv, Busy
<1>2. /\ Len(ask[r].files) \in Nat /\ run[r].at \in 1..Len(ask[r].files) /\ f \in File
  BY <1>1, Here
<1>3. PICK s : s = Step(r, "sending", "done")
  OBVIOUS
<1>4. /\ s \in RunState
      /\ \/ s.pc = "sending" /\ s.at = run[r].at + 1 /\ run[r].at < Len(ask[r].files)
         \/ s.pc = "done" /\ s.at = 1
  BY <1>1, <1>3, StepShape DEF PC
<1>5. run' = [run EXCEPT ![r] = s]
  BY <1>3 DEF Sent
<1>6. /\ run' \in [Reply -> RunState] /\ run'[r] = s
      /\ \A q \in Reply \ {r} : run'[q] = run[q]
  BY <1>1, <1>4, <1>5 DEF TypeOK
<1>7. /\ got' \in [Reply -> [File -> Hold]] /\ got'[r][f] = "unasked"
      /\ \A g \in File \ {f} : got'[r][g] = got[r][g]
      /\ \A q \in Reply \ {r} : got'[q] = got[q]
  BY <1>1, <1>2 DEF TypeOK, Hold, LetGo
<1>8. Nothing \in [files: Seq(File), colour: BOOLEAN, named: BOOLEAN]
  BY DEF Nothing
<1>9. /\ ask' \in [Reply -> [files: Seq(File), colour: BOOLEAN, named: BOOLEAN]]
      /\ \A q \in Reply : run'[q].pc # "done" => ask'[q] = ask[q]
  BY <1>1, <1>8 DEF TypeOK, Wanted
<1>10. Others(r)
  BY <1>6, <1>7, <1>9 DEF Others, Busy
<1>11. \A q \in Reply : Busy(q)' => /\ ask'[q] \in Asks(q)
                                    /\ run'[q].at \in 1..Len(ask'[q].files)
  <2>. SUFFICES ASSUME NEW q \in Reply, Busy(q)'
                PROVE  ask'[q] \in Asks(q) /\ run'[q].at \in 1..Len(ask'[q].files)
    OBVIOUS
  <2>1. ask'[q] = ask[q]
    BY <1>9 DEF Busy
  <2>2. CASE q = r
    <3>1. s.at \in 1..Len(ask[r].files)
      BY <1>2, <1>4, <1>6, <2>2 DEF Busy
    <3>. QED
      BY <1>1, <1>6, <2>1, <2>2, <3>1 DEF TypeOK
  <2>3. CASE q # r
    BY <1>1, <1>6, <2>1, <2>3 DEF TypeOK, Busy
  <2>. QED
    BY <2>2, <2>3
<1>12. \A g \in File : CountsOn(r, g)' => CountsOn(r, g)
  BY <1>1, <1>4, <1>6, <1>7 DEF CountsOn
<1>13. UnderWay(r)'
  BY <1>4, <1>6 DEF UnderWay
<1>14. Holds(r)'
  <2>1. run'[r].pc \notin {"idle", "ensuring", "downloading"}
    BY <1>4, <1>6
  <2>2. \A g \in File : got'[r][g] = "content" => Reuses(r)
    BY <1>1, <1>7 DEF Holds
  <2>3. ASSUME NEW g \in File, got'[r][g] = "local"
        PROVE  disk'[g] # "absent" \/ g \in shared'
    BY <1>1, <1>7, <2>3 DEF Holds
  <2>4. ASSUME NEW g \in File, CountsOn(r, g)', ~Reuses(r)
        PROVE  g \in kept'
    BY <1>1, <1>12, <2>4 DEF Holds
  <2>. QED
    BY <2>1, <2>2, <2>3, <2>4 DEF Holds, Reuses
<1>. QED
  BY <1>2, <1>6, <1>7, <1>9, <1>10, <1>11, <1>12, <1>13, <1>14

LEMMA Entries ==
  /\ NoEntry \in Entry
  /\ \A e \in Entry, content, coloured \in BOOLEAN :
       /\ Merged(e, content, coloured) \in Entry
       /\ Merged(e, content, coloured).content <=> (e.content \/ content)
       /\ Touched(e, coloured) \in Entry
       /\ Touched(e, coloured).content <=> e.content
<1>1. NoEntry \in Entry
  BY DEF NoEntry, Entry
<1>. SUFFICES ASSUME NEW e \in Entry, NEW content \in BOOLEAN, NEW coloured \in BOOLEAN
              PROVE  /\ Merged(e, content, coloured) \in Entry
                     /\ Merged(e, content, coloured).content <=> (e.content \/ content)
                     /\ Touched(e, coloured) \in Entry
                     /\ Touched(e, coloured).content <=> e.content
  BY <1>1
<1>2. \A d \in BOOLEAN : /\ Merged(e, d, coloured) \in Entry
                         /\ Merged(e, d, coloured).content <=> (e.content \/ d)
  BY DEF Entry, Merged
<1>. QED
  BY <1>2 DEF Touched

\* What the cache has of the current file, seen by a reply that needs a colour.
LEMMA SeenByReply ==
  ASSUME IInv, NEW r \in Reply, Busy(r)
  PROVE  /\ EntryFor(r) \in Entry
         /\ EntryFor(r).content => entry[Current(r)].content
         /\ \A copy \in CopyFor(r) : copy = "absent" \/ copy = disk[Current(r)]
<1>. PICK f : f = Current(r)
  OBVIOUS
<1>1. f \in File /\ entry[f] \in Entry /\ disk[f] \in Copy
  BY Here DEF IInv, TypeOK
<1>2. NoEntry \in Entry /\ ~NoEntry.content
  BY Entries DEF NoEntry
<1>3. \A x \in Removal(f) \cup NoRemoval(f) : x.copy = "absent" \/ x.copy = disk[f]
  BY DEF Removal, NoRemoval
<1>. QED
  BY <1>1, <1>2, <1>3 DEF EntryFor, CopyFor

-----------------------------------------------------------------------------
(* The steps.                                                              *)

LEMMA TakeUpKeeps ==
  ASSUME IInv, NEW r \in Reply, TakeUp(r)
  PROVE  IInv'
<1>1. TypeOK /\ Holds(r) /\ run[r].pc = "idle"
  BY DEF IInv, TakeUp
<1>2. UNCHANGED <<got, entry, disk, crashes, shared, kept, missed>>
  BY DEF TakeUp
<1>3. PICK a \in Asks(r) : ask' = [ask EXCEPT ![r] = a]
  BY DEF TakeUp
<1>4. PICK s : s = At("ensuring")
  OBVIOUS
<1>5. s \in RunState /\ s.pc = "ensuring" /\ s.at = 1
  BY <1>4, BoundAssumption DEF At, RunState, PC
<1>6. /\ run' \in [Reply -> RunState] /\ run'[r] = s
      /\ \A q \in Reply \ {r} : run'[q] = run[q]
  BY <1>1, <1>4, <1>5 DEF TakeUp, TypeOK
<1>7. /\ a \in [files: Seq(File), colour: BOOLEAN, named: BOOLEAN]
      /\ Len(a.files) \in Nat /\ 1 \in 1..Len(a.files)
      /\ \A i \in 1..Len(a.files) : a.files[i] \in File
  <2>1. a.files \in Lists[r]
    BY DEF Asks
  <2>2. a.files \in Seq(File) /\ Len(a.files) > 0
    BY <2>1, ListsAssumption
  <2>3. a = [files |-> a.files, colour |-> a.colour, named |-> a.named]
        /\ a.colour \in BOOLEAN /\ a.named \in BOOLEAN
    BY DEF Asks
  <2>. QED
    BY <2>2, <2>3
<1>8. /\ ask' \in [Reply -> [files: Seq(File), colour: BOOLEAN, named: BOOLEAN]]
      /\ ask'[r] = a /\ \A q \in Reply \ {r} : ask'[q] = ask[q]
  BY <1>1, <1>3, <1>7 DEF TypeOK
<1>9. Others(r)
  BY <1>2, <1>6, <1>8 DEF Others
<1>10. \A q \in Reply : Busy(q)' => /\ ask'[q] \in Asks(q)
                                    /\ run'[q].at \in 1..Len(ask'[q].files)
  BY <1>1, <1>5, <1>6, <1>7, <1>8 DEF TypeOK, Busy
<1>11. TypeOK'
  BY <1>1, <1>2, <1>6, <1>8, <1>10 DEF TypeOK
<1>12. \A g \in File : got'[r][g] = "unasked"
  BY <1>1, <1>2 DEF Holds
<1>13. \A g \in File : ~CountsOn(r, g)'
  BY <1>5, <1>6, <1>12 DEF CountsOn
<1>14. Holds(r)' /\ UnderWay(r)'
  BY <1>5, <1>6, <1>7, <1>8, <1>12, <1>13 DEF Holds, UnderWay
<1>15. LeftoverExplained' /\ MissedOnlyShared'
  BY <1>2 DEF IInv, LeftoverExplained, MissedOnlyShared
<1>. QED
  BY <1>2, <1>9, <1>11, <1>13, <1>14, <1>15, Whole

LEMMA CacheHitKeeps ==
  ASSUME IInv, NEW r \in Reply, CacheHit(r)
  PROVE  IInv'
<1>1. PICK f : f = Current(r)
  OBVIOUS
<1>2. TypeOK /\ run[r].pc = "ensuring" /\ Busy(r) /\ f \in File
  BY <1>1, Here DEF CacheHit, Busy, IInv
<1>3. /\ UNCHANGED <<ask, disk, crashes, shared, kept, missed>>
      /\ run' = Ensured(r) /\ got' = [got EXCEPT ![r][f] = "content"]
      /\ entry' = [entry EXCEPT ![f] = Touched(@, ask[r].named)] /\ Reuses(r)
  BY <1>1 DEF CacheHit, HasContent
<1>4. /\ run' \in [Reply -> RunState] /\ got' \in [Reply -> [File -> Hold]]
      /\ \A q \in Reply : Busy(q)' => /\ ask'[q] \in Asks(q)
                                      /\ run'[q].at \in 1..Len(ask'[q].files)
      /\ Others(r) /\ Holds(r)' /\ UnderWay(r)'
      /\ \A g \in File : CountsOn(r, g)' => CountsOn(r, g)
  BY <1>1, <1>2, <1>3, EnsuredKeeps
<1>5. /\ entry' \in [File -> Entry]
      /\ \A g \in File : entry'[g].content <=> entry[g].content
  <2>1. ask[r].named \in BOOLEAN /\ entry[f] \in Entry
    BY <1>2 DEF TypeOK
  <2>2. /\ Touched(entry[f], ask[r].named) \in Entry
        /\ Touched(entry[f], ask[r].named).content <=> entry[f].content
    BY <2>1, Entries
  <2>. QED
    BY <1>2, <1>3, <2>2 DEF TypeOK
<1>6. TypeOK'
  BY <1>2, <1>3, <1>4, <1>5 DEF TypeOK
<1>7. LeftoverExplained' /\ MissedOnlyShared'
  BY <1>3, <1>5 DEF IInv, LeftoverExplained, MissedOnlyShared
<1>. QED
  BY <1>3, <1>4, <1>5, <1>6, <1>7, Whole

LEMMA UseLocalKeeps ==
  ASSUME IInv, NEW r \in Reply, UseLocal(r)
  PROVE  IInv'
<1>1. PICK f : f = Current(r)
  OBVIOUS
<1>2. TypeOK /\ run[r].pc = "ensuring" /\ Busy(r) /\ f \in File
  BY <1>1, Here DEF UseLocal, Busy, IInv
<1>3. /\ UNCHANGED <<ask, crashes, missed>> /\ ~HasContent(r)
      /\ run' = Ensured(r) /\ got' = [got EXCEPT ![r][f] = "local"]
      /\ entry' = [entry EXCEPT ![f] = Merged(EntryFor(r), FALSE, ask[r].named)]
      /\ disk' = [disk EXCEPT ![f] = "fits"]
      /\ shared' = Sharing(r, f) /\ kept' = Keeping(r, f)
      /\ CopyFor(r) # {"absent"}
  BY <1>1 DEF UseLocal
<1>4. /\ EntryFor(r) \in Entry /\ (EntryFor(r).content => entry[f].content)
      /\ disk[f] # "absent"
  <2>1. CopyFor(r) # {}
    BY DEF CopyFor, Removal, NoRemoval
  <2>. QED
    BY <1>1, <1>2, <1>3, <2>1, SeenByReply
<1>5. /\ shared \subseteq shared' /\ kept \subseteq kept'
      /\ shared' \subseteq File /\ kept' \subseteq File
      /\ Reuses(r) \/ f \in kept'
      /\ \A q \in Reply \ {r} : CountsOn(q, f) => f \in shared'
  BY <1>2, <1>3 DEF Sharing, Keeping, TypeOK
<1>6. /\ disk' \in [File -> Copy] /\ disk'[f] = "fits"
      /\ \A g \in File \ {f} : disk'[g] = disk[g]
  BY <1>2, <1>3 DEF TypeOK, Copy
<1>7. /\ run' \in [Reply -> RunState] /\ got' \in [Reply -> [File -> Hold]]
      /\ \A q \in Reply : Busy(q)' => /\ ask'[q] \in Asks(q)
                                      /\ run'[q].at \in 1..Len(ask'[q].files)
      /\ Others(r) /\ Holds(r)' /\ UnderWay(r)'
      /\ \A g \in File : CountsOn(r, g)' => CountsOn(r, g) \/ g = f
  BY <1>1, <1>2, <1>3, <1>5, <1>6, EnsuredKeeps
<1>8. /\ entry' \in [File -> Entry]
      /\ \A g \in File : entry'[g].content => entry[g].content
  <2>1. ask[r].named \in BOOLEAN
    BY <1>2 DEF TypeOK
  <2>2. /\ Merged(EntryFor(r), FALSE, ask[r].named) \in Entry
        /\ Merged(EntryFor(r), FALSE, ask[r].named).content <=> EntryFor(r).content
    BY <1>4, <2>1, Entries
  <2>. QED
    BY <1>2, <1>3, <1>4, <2>2 DEF TypeOK
<1>9. TypeOK'
  BY <1>2, <1>3, <1>5, <1>6, <1>7, <1>8 DEF TypeOK
\* The copy was there before, so only what it already explained is left.
<1>10. LeftoverExplained'
  BY <1>4, <1>5, <1>6, <1>8 DEF IInv, LeftoverExplained
<1>11. MissedOnlyShared'
  BY <1>3, <1>5 DEF IInv, MissedOnlyShared
<1>12. \A q \in Reply \ {r}, g \in File : CountsOn(q, g) =>
          /\ disk[g] # "absent" => disk'[g] # "absent" \/ g \in shared'
          /\ entry'[g].content => entry[g].content \/ g \in shared' \cup kept'
  BY <1>6, <1>8
<1>13. \A g \in File : CountsOn(r, g)' =>
          CountsOn(r, g) \/ \A q \in Reply \ {r} : CountsOn(q, g) => g \in shared'
  BY <1>5, <1>7
<1>14. /\ Others(r) /\ Holds(r)' /\ UnderWay(r)'
       /\ shared \subseteq shared' /\ kept \subseteq kept'
  BY <1>5, <1>7
<1>. QED
  BY <1>9, <1>10, <1>11, <1>12, <1>13, <1>14, Whole

LEMMA StartDownloadKeeps ==
  ASSUME IInv, NEW r \in Reply, StartDownload(r)
  PROVE  IInv'
<1>1. PICK f : f = Current(r)
  OBVIOUS
<1>2. TypeOK /\ Holds(r) /\ run[r].pc = "ensuring" /\ Busy(r) /\ f \in File
  BY <1>1, Here DEF StartDownload, Busy, IInv
<1>3. PICK e : e = EntryFor(r)
  OBVIOUS
<1>4. /\ UNCHANGED <<ask, got, crashes, missed>> /\ ~HasContent(r)
      /\ entry' = [entry EXCEPT ![f] = e]
      /\ shared' = Sharing(r, f) /\ kept' = Keeping(r, f)
      /\ run' = [run EXCEPT ![r].pc = "downloading", ![r].seen = e.content]
  BY <1>1, <1>3 DEF StartDownload
<1>5. /\ e \in Entry /\ e.content \in BOOLEAN /\ (e.content => entry[f].content)
      /\ Reuses(r) => ~e.content
  BY <1>1, <1>2, <1>3, <1>4, SeenByReply DEF HasContent, Entry
<1>6. /\ shared \subseteq shared' /\ kept \subseteq kept'
      /\ shared' \subseteq File /\ kept' \subseteq File
      /\ Reuses(r) \/ f \in kept'
      /\ \A q \in Reply \ {r} : CountsOn(q, f) => f \in shared'
  BY <1>2, <1>4 DEF Sharing, Keeping, TypeOK
<1>7. /\ run' \in [Reply -> RunState] /\ \A q \in Reply \ {r} : run'[q] = run[q]
      /\ run'[r].pc = "downloading" /\ run'[r].seen = e.content
      /\ run'[r].at = run[r].at
  BY <1>2, <1>4, <1>5 DEF TypeOK, RunState, PC
<1>8. /\ disk' \in [File -> Copy] /\ (disk'[f] # "absent" => disk[f] # "absent")
      /\ \A g \in File \ {f} : disk'[g] = disk[g]
      /\ entry' \in [File -> Entry] /\ entry'[f] = e
      /\ \A g \in File \ {f} : entry'[g] = entry[g]
  <2>1. PICK left : (left = "absent" \/ left = disk[f]) /\ disk' = [disk EXCEPT ![f] = left]
    BY <1>1, <1>2, SeenByReply DEF StartDownload
  <2>2. left \in Copy
    BY <1>2, <2>1 DEF TypeOK, Copy
  <2>. QED
    BY <1>2, <1>4, <1>5, <2>1, <2>2 DEF TypeOK
<1>9. Others(r) /\ Current(r)' = f
  BY <1>1, <1>4, <1>7 DEF Others, Current
<1>10. \A g \in File : entry'[g].content => entry[g].content
  BY <1>5, <1>8
<1>11. TypeOK'
  <2>1. \A q \in Reply : Busy(q)' => Busy(q) /\ run'[q].at = run[q].at
    BY <1>2, <1>7 DEF Busy
  <2>. QED
    BY <1>2, <1>4, <1>6, <1>7, <1>8, <2>1 DEF TypeOK
<1>12. got[r][f] = "unasked"
  <2>1. run[r].at \in run[r].at..Len(ask[r].files) /\ f = ask[r].files[run[r].at]
    BY <1>1, <1>2, Here
  <2>. QED
    BY <1>2, <2>1 DEF Holds
<1>13. \A g \in File : CountsOn(r, g)' => CountsOn(r, g) \/ g = f
  BY <1>2, <1>4, <1>9 DEF CountsOn
<1>14. Holds(r)'
  <2>1. \A i \in run'[r].at..Len(ask'[r].files) : got'[r][ask'[r].files[i]] = "unasked"
    BY <1>2, <1>4, <1>7 DEF Holds
  <2>2. ASSUME NEW g \in File, got'[r][g] = "local"
        PROVE  disk'[g] # "absent" \/ g \in shared'
    BY <1>2, <1>4, <1>6, <1>8, <1>12, <2>2 DEF Holds
  <2>3. ASSUME NEW g \in File, CountsOn(r, g)', ~Reuses(r)
        PROVE  g \in kept'
    BY <1>2, <1>6, <1>13, <2>3 DEF Holds
  <2>. QED
    BY <1>2, <1>4, <1>7, <2>1, <2>2, <2>3 DEF Holds, Reuses
<1>15. UnderWay(r)'
  BY <1>5, <1>7, <1>8, <1>9 DEF UnderWay, Reuses
\* A copy that could not be removed was explained before.
<1>16. LeftoverExplained' /\ MissedOnlyShared'
  BY <1>4, <1>5, <1>6, <1>8 DEF IInv, LeftoverExplained, MissedOnlyShared
<1>. QED
  BY <1>6, <1>8, <1>9, <1>10, <1>11, <1>13, <1>14, <1>15, <1>16, Whole

LEMMA DownloadedKeeps ==
  ASSUME IInv, NEW r \in Reply, Downloaded(r)
  PROVE  IInv'
<1>1. PICK f : f = Current(r)
  OBVIOUS
<1>2. /\ TypeOK /\ Holds(r) /\ UnderWay(r) /\ SharedNoted
      /\ run[r].pc = "downloading" /\ Busy(r) /\ f \in File
  BY <1>1, Here DEF Downloaded, Busy, IInv
<1>3. /\ UNCHANGED <<ask, crashes, shared, kept, missed>>
      /\ run' = Ensured(r) /\ got' = [got EXCEPT ![r][f] = "local"]
      /\ entry' = [entry EXCEPT ![f] = Merged(@, run[r].seen, ask[r].named)]
      /\ disk' = [disk EXCEPT ![f] = "fits"]
  BY <1>1 DEF Downloaded
<1>4. CountsOn(r, f)
  BY <1>1, <1>2 DEF CountsOn
<1>5. /\ Reuses(r) \/ f \in kept
      /\ Reuses(r) => ~run[r].seen /\ (entry[f].content => f \in shared \cup kept)
  BY <1>1, <1>2, <1>4 DEF Holds, UnderWay
<1>6. /\ disk' \in [File -> Copy] /\ disk'[f] = "fits"
      /\ \A g \in File \ {f} : disk'[g] = disk[g]
  BY <1>2, <1>3 DEF TypeOK, Copy
<1>7. /\ run' \in [Reply -> RunState] /\ got' \in [Reply -> [File -> Hold]]
      /\ \A q \in Reply : Busy(q)' => /\ ask'[q] \in Asks(q)
                                      /\ run'[q].at \in 1..Len(ask'[q].files)
      /\ Others(r) /\ Holds(r)' /\ UnderWay(r)'
      /\ \A g \in File : CountsOn(r, g)' => CountsOn(r, g) \/ g = f
  BY <1>1, <1>2, <1>3, <1>5, <1>6, EnsuredKeeps
<1>8. /\ entry' \in [File -> Entry]
      /\ \A g \in File \ {f} : entry'[g] = entry[g]
      /\ entry'[f].content => entry[f].content \/ run[r].seen
  <2>1. ask[r].named \in BOOLEAN /\ entry[f] \in Entry /\ run[r].seen \in BOOLEAN
    BY <1>2 DEF TypeOK, RunState
  <2>2. /\ Merged(entry[f], run[r].seen, ask[r].named) \in Entry
        /\ Merged(entry[f], run[r].seen, ask[r].named).content
             <=> (entry[f].content \/ run[r].seen)
    BY <2>1, Entries
  <2>. QED
    BY <1>2, <1>3, <2>2 DEF TypeOK
<1>9. TypeOK'
  BY <1>2, <1>3, <1>6, <1>7, <1>8 DEF TypeOK
\* A content id that came meanwhile came from another that counted on the file.
<1>10. LeftoverExplained'
  BY <1>3, <1>5, <1>6, <1>8 DEF IInv, LeftoverExplained
<1>11. MissedOnlyShared'
  BY <1>3 DEF IInv, MissedOnlyShared
<1>12. \A q \in Reply \ {r}, g \in File : CountsOn(q, g) =>
          /\ disk[g] # "absent" => disk'[g] # "absent" \/ g \in shared'
          /\ entry'[g].content => entry[g].content \/ g \in shared' \cup kept'
  BY <1>2, <1>3, <1>4, <1>6, <1>8 DEF SharedNoted
<1>13. \A g \in File : CountsOn(r, g)' =>
          CountsOn(r, g) \/ \A q \in Reply \ {r} : CountsOn(q, g) => g \in shared'
  BY <1>4, <1>7
<1>. QED
  BY <1>3, <1>7, <1>9, <1>10, <1>11, <1>12, <1>13, Whole

LEMMA DownloadFailsKeeps ==
  ASSUME IInv, NEW r \in Reply, DownloadFails(r)
  PROVE  IInv'
<1>1. PICK f : f = Current(r)
  OBVIOUS
<1>2. /\ TypeOK /\ run[r].pc = "downloading" /\ Busy(r) /\ f \in File
  BY <1>1, Here DEF DownloadFails, Busy, IInv
<1>3. /\ UNCHANGED <<ask, entry, disk, crashes, shared, kept, missed>>
      /\ run' = Ensured(r) /\ got' = [got EXCEPT ![r][f] = "error"]
  BY <1>1 DEF DownloadFails
<1>4. /\ run' \in [Reply -> RunState] /\ got' \in [Reply -> [File -> Hold]]
      /\ \A q \in Reply : Busy(q)' => /\ ask'[q] \in Asks(q)
                                      /\ run'[q].at \in 1..Len(ask'[q].files)
      /\ Others(r) /\ Holds(r)' /\ UnderWay(r)'
      /\ \A g \in File : CountsOn(r, g)' => CountsOn(r, g)
  BY <1>1, <1>2, <1>3, EnsuredKeeps
<1>5. TypeOK'
  BY <1>2, <1>3, <1>4 DEF TypeOK
<1>6. LeftoverExplained' /\ MissedOnlyShared'
  BY <1>3 DEF IInv, LeftoverExplained, MissedOnlyShared
<1>. QED
  BY <1>3, <1>4, <1>5, <1>6, Whole

LEMMA TextFailsKeeps ==
  ASSUME IInv, NEW r \in Reply, TextFails(r)
  PROVE  IInv'
<1>1. TypeOK /\ UNCHANGED <<entry, disk, crashes, shared, kept, missed>>
  BY DEF TextFails, IInv
<1>2. PICK s : s = At("done")
  OBVIOUS
<1>3. s \in RunState /\ s.pc = "done"
  BY <1>2, BoundAssumption DEF At, RunState, PC
<1>4. /\ run' \in [Reply -> RunState] /\ run'[r] = s
      /\ \A q \in Reply \ {r} : run'[q] = run[q]
  BY <1>1, <1>2, <1>3 DEF TextFails, TypeOK
<1>5. /\ got' \in [Reply -> [File -> Hold]]
      /\ \A f \in File : got'[r][f] = "unasked"
      /\ \A q \in Reply \ {r} : got'[q] = got[q]
  BY <1>1 DEF TextFails, Forgotten, TypeOK, Hold
<1>6. Nothing \in [files: Seq(File), colour: BOOLEAN, named: BOOLEAN]
  BY DEF Nothing
<1>7. /\ ask' \in [Reply -> [files: Seq(File), colour: BOOLEAN, named: BOOLEAN]]
      /\ \A q \in Reply : run'[q].pc # "done" => ask'[q] = ask[q]
  BY <1>1, <1>6 DEF TextFails, TypeOK, Wanted
<1>8. Others(r)
  BY <1>4, <1>5, <1>7 DEF Others, Busy
<1>9. \A q \in Reply : Busy(q)' => q # r /\ Busy(q) /\ ask'[q] = ask[q] /\ run'[q] = run[q]
  BY <1>3, <1>4, <1>7 DEF Busy
<1>10. TypeOK'
  BY <1>1, <1>4, <1>5, <1>7, <1>9 DEF TypeOK
<1>11. \A g \in File : ~CountsOn(r, g)'
  BY <1>9 DEF CountsOn
<1>12. Holds(r)' /\ UnderWay(r)'
  BY <1>3, <1>4, <1>5, <1>11 DEF Holds, UnderWay
<1>13. LeftoverExplained' /\ MissedOnlyShared'
  BY <1>1 DEF IInv, LeftoverExplained, MissedOnlyShared
<1>. QED
  BY <1>1, <1>8, <1>10, <1>11, <1>12, <1>13, Whole

LEMMA TextDeliveredKeeps ==
  ASSUME IInv, NEW r \in Reply, TextDelivered(r)
  PROVE  IInv'
<1>1. /\ TypeOK /\ Holds(r) /\ run[r].pc = "replying"
      /\ UNCHANGED <<ask, got, entry, disk, crashes, shared, kept, missed>>
  BY DEF TextDelivered, IInv
<1>2. /\ run' \in [Reply -> RunState] /\ run'[r].pc = "sending" /\ run'[r].at = run[r].at
      /\ \A q \in Reply \ {r} : run'[q] = run[q]
  BY <1>1 DEF TextDelivered, TypeOK, RunState, PC
<1>3. Others(r)
  BY <1>1, <1>2 DEF Others
<1>4. TypeOK'
  <2>1. \A q \in Reply : Busy(q)' => Busy(q) /\ run'[q].at = run[q].at
    BY <1>1, <1>2 DEF Busy
  <2>. QED
    BY <1>1, <1>2, <2>1 DEF TypeOK
<1>5. \A g \in File : CountsOn(r, g)' => CountsOn(r, g)
  BY <1>1, <1>2 DEF CountsOn, Busy
<1>6. Holds(r)' /\ UnderWay(r)'
  BY <1>1, <1>2, <1>5 DEF Holds, UnderWay, Busy, Reuses
<1>7. LeftoverExplained' /\ MissedOnlyShared'
  BY <1>1 DEF IInv, LeftoverExplained, MissedOnlyShared
<1>. QED
  BY <1>1, <1>3, <1>4, <1>5, <1>6, <1>7, Whole

\* What is to be uploaded is a copy the reply counts on.
LEMMA ToUploadIsLocal ==
  ASSUME IInv, NEW r \in Reply, run[r].pc = "sending", ToUpload(r)
  PROVE  /\ got[r][Current(r)] = "local" /\ Current(r) \in File
         /\ disk[Current(r)] # "absent" \/ Current(r) \in shared
<1>1. Busy(r) /\ Holds(r) /\ Current(r) \in File
  BY Here DEF IInv, Busy
<1>. QED
  BY <1>1 DEF ToUpload, Holds

LEMMA NothingToUploadKeeps ==
  ASSUME IInv, NEW r \in Reply, NothingToUpload(r)
  PROVE  IInv'
<1>1. PICK f : f = Current(r)
  OBVIOUS
<1>2. /\ TypeOK /\ UNCHANGED <<entry, disk, crashes, shared, kept, missed>>
      /\ run[r].pc = "sending" /\ run' = Sent(r) /\ got' = LetGo(r, f) /\ ask' = Wanted
  BY <1>1 DEF NothingToUpload, IInv
<1>3. /\ run' \in [Reply -> RunState] /\ got' \in [Reply -> [File -> Hold]]
      /\ ask' \in [Reply -> [files: Seq(File), colour: BOOLEAN, named: BOOLEAN]]
      /\ \A q \in Reply : Busy(q)' => /\ ask'[q] \in Asks(q)
                                      /\ run'[q].at \in 1..Len(ask'[q].files)
      /\ Others(r) /\ Holds(r)' /\ UnderWay(r)'
      /\ \A g \in File : CountsOn(r, g)' => CountsOn(r, g)
  BY <1>1, <1>2, SentKeeps
<1>4. TypeOK'
  BY <1>2, <1>3 DEF TypeOK
<1>5. LeftoverExplained' /\ MissedOnlyShared'
  BY <1>2 DEF IInv, LeftoverExplained, MissedOnlyShared
<1>. QED
  BY <1>2, <1>3, <1>4, <1>5, Whole

LEMMA CopyGoneKeeps ==
  ASSUME IInv, NEW r \in Reply, CopyGone(r)
  PROVE  IInv'
<1>1. PICK f : f = Current(r)
  OBVIOUS
<1>2. /\ TypeOK /\ UNCHANGED <<entry, disk, crashes, shared, kept>>
      /\ run[r].pc = "sending" /\ run' = Sent(r) /\ got' = LetGo(r, f) /\ ask' = Wanted
      /\ missed' = [missed EXCEPT ![r] = @ \cup {f}]
  BY <1>1 DEF CopyGone, IInv
<1>3. f \in shared
  BY <1>1, <1>2, ToUploadIsLocal DEF CopyGone
<1>4. /\ run' \in [Reply -> RunState] /\ got' \in [Reply -> [File -> Hold]]
      /\ ask' \in [Reply -> [files: Seq(File), colour: BOOLEAN, named: BOOLEAN]]
      /\ \A q \in Reply : Busy(q)' => /\ ask'[q] \in Asks(q)
                                      /\ run'[q].at \in 1..Len(ask'[q].files)
      /\ Others(r) /\ Holds(r)' /\ UnderWay(r)' /\ f \in File
      /\ \A g \in File : CountsOn(r, g)' => CountsOn(r, g)
  BY <1>1, <1>2, SentKeeps
<1>5. /\ missed' \in [Reply -> SUBSET File]
      /\ \A q \in Reply : missed'[q] \subseteq shared
  BY <1>2, <1>3, <1>4 DEF TypeOK, IInv, MissedOnlyShared
<1>6. TypeOK'
  BY <1>2, <1>4, <1>5 DEF TypeOK
<1>7. LeftoverExplained' /\ MissedOnlyShared'
  BY <1>2, <1>5 DEF IInv, LeftoverExplained, MissedOnlyShared
<1>. QED
  BY <1>2, <1>4, <1>6, <1>7, Whole

LEMMA StartUploadKeeps ==
  ASSUME IInv, NEW r \in Reply, StartUpload(r)
  PROVE  IInv'
<1>1. PICK f : f = Current(r)
  OBVIOUS
<1>2. /\ TypeOK /\ Holds(r) /\ run[r].pc = "sending" /\ Busy(r)
      /\ UNCHANGED <<ask, got, entry, disk, crashes, shared, kept, missed>>
  BY DEF StartUpload, IInv, Busy
<1>3. got[r][f] = "local"
  BY <1>1, <1>2, ToUploadIsLocal DEF StartUpload
<1>4. /\ run' \in [Reply -> RunState] /\ run'[r].pc = "uploading"
      /\ run'[r].open = TRUE /\ run'[r].at = run[r].at
      /\ \A q \in Reply \ {r} : run'[q] = run[q]
  BY <1>2 DEF StartUpload, TypeOK, RunState, PC
<1>5. Others(r) /\ Current(r)' = f
  BY <1>1, <1>2, <1>4 DEF Others, Current
<1>6. TypeOK'
  <2>1. \A q \in Reply : Busy(q)' => Busy(q) /\ run'[q].at = run[q].at
    BY <1>2, <1>4 DEF Busy
  <2>. QED
    BY <1>2, <1>4, <2>1 DEF TypeOK
<1>7. \A g \in File : CountsOn(r, g)' => CountsOn(r, g)
  BY <1>2, <1>4 DEF CountsOn
<1>8. Holds(r)' /\ UnderWay(r)'
  BY <1>2, <1>3, <1>4, <1>5, <1>7 DEF Holds, UnderWay, Reuses
<1>9. LeftoverExplained' /\ MissedOnlyShared'
  BY <1>2 DEF IInv, LeftoverExplained, MissedOnlyShared
<1>. QED
  BY <1>2, <1>5, <1>6, <1>7, <1>8, <1>9, Whole

\* The reply that uploads a file counts on it.
LEMMA Uploading ==
  ASSUME IInv, NEW r \in Reply, run[r].pc = "uploading"
  PROVE  /\ TypeOK /\ Busy(r) /\ Holds(r) /\ UnderWay(r)
         /\ Current(r) \in File /\ CountsOn(r, Current(r))
         /\ disk[Current(r)] # "absent" \/ Current(r) \in shared
         /\ Reuses(r) \/ Current(r) \in kept
         /\ \A q \in Reply \ {r} : CountsOn(q, Current(r)) => Current(r) \in shared
<1>1. TypeOK /\ Busy(r) /\ Holds(r) /\ UnderWay(r) /\ SharedNoted
  BY DEF IInv, Busy
<1>2. PICK f : f = Current(r)
  OBVIOUS
<1>3. f \in File /\ got[r][f] = "local" /\ CountsOn(r, f)
  BY <1>1, <1>2, Here DEF UnderWay, CountsOn
<1>. QED
  BY <1>1, <1>2, <1>3 DEF Holds, SharedNoted

LEMMA UploadTakenKeeps ==
  ASSUME IInv, NEW r \in Reply, UploadTaken(r)
  PROVE  IInv'
<1>1. PICK f : f = Current(r)
  OBVIOUS
<1>2. /\ run[r].pc = "uploading" /\ run' = Sent(r) /\ got' = LetGo(r, f) /\ ask' = Wanted
      /\ UNCHANGED <<crashes, shared, missed>> /\ entry' = Recorded(r, f)
      /\ \E x \in AfterUpload(r, f) : /\ disk' = [disk EXCEPT ![f] = x.copy]
                                      /\ kept' = IF x.failed THEN kept \cup {f} ELSE kept
  BY <1>1 DEF UploadTaken
<1>3. /\ TypeOK /\ f \in File /\ (Reuses(r) \/ f \in kept)
      /\ \A q \in Reply \ {r} : CountsOn(q, f) => f \in shared
  BY <1>1, <1>2, Uploading
<1>4. /\ disk' \in [File -> Copy] /\ \A g \in File \ {f} : disk'[g] = disk[g]
      /\ kept \subseteq kept' /\ kept' \subseteq File
      /\ disk'[f] = "absent" \/ f \in kept'
  <2>1. PICK x \in AfterUpload(r, f) : /\ disk' = [disk EXCEPT ![f] = x.copy]
                                       /\ kept' = IF x.failed THEN kept \cup {f} ELSE kept
    BY <1>2
  <2>2. /\ x.copy = "absent" \/ x.copy = disk[f]
        /\ Reuses(r) => x.copy = "absent" \/ x.failed
    <3>1. CASE x = [copy |-> "absent", failed |-> FALSE]
      BY <3>1
    <3>2. CASE Reuses(r) /\ x = [copy |-> disk[f], failed |-> disk[f] # "absent"]
      BY <3>2
    <3>3. CASE ~Reuses(r) /\ x = [copy |-> disk[f], failed |-> FALSE]
      BY <3>3
    <3>. QED
      BY <3>1, <3>2, <3>3 DEF AfterUpload, Removal, NoRemoval
  <2>3. x.copy \in Copy
    BY <1>3, <2>2 DEF TypeOK, Copy
  <2>. QED
    BY <1>3, <2>1, <2>2, <2>3 DEF TypeOK
<1>5. entry' \in [File -> Entry] /\ \A g \in File \ {f} : entry'[g] = entry[g]
  <2>1. entry[f] \in Entry /\ TRUE \in BOOLEAN /\ FALSE \in BOOLEAN
    BY <1>3 DEF TypeOK
  <2>2. Merged(entry[f], TRUE, FALSE) \in Entry
    BY <2>1, Entries
  <2>. QED
    BY <1>2, <1>3, <2>2 DEF Recorded, TypeOK
<1>6. /\ run' \in [Reply -> RunState] /\ got' \in [Reply -> [File -> Hold]]
      /\ ask' \in [Reply -> [files: Seq(File), colour: BOOLEAN, named: BOOLEAN]]
      /\ \A q \in Reply : Busy(q)' => /\ ask'[q] \in Asks(q)
                                      /\ run'[q].at \in 1..Len(ask'[q].files)
      /\ Others(r) /\ Holds(r)' /\ UnderWay(r)'
      /\ \A g \in File : CountsOn(r, g)' => CountsOn(r, g)
  BY <1>1, <1>2, <1>4, SentKeeps
<1>7. TypeOK'
  BY <1>2, <1>3, <1>4, <1>5, <1>6 DEF TypeOK
<1>8. LeftoverExplained'
  BY <1>2, <1>3, <1>4, <1>5 DEF IInv, LeftoverExplained
<1>9. MissedOnlyShared'
  BY <1>2 DEF IInv, MissedOnlyShared
<1>10. \A q \in Reply \ {r}, g \in File : CountsOn(q, g) =>
          /\ disk[g] # "absent" => disk'[g] # "absent" \/ g \in shared'
          /\ entry'[g].content => entry[g].content \/ g \in shared' \cup kept'
  BY <1>2, <1>3, <1>4, <1>5
<1>. QED
  BY <1>2, <1>6, <1>7, <1>8, <1>9, <1>10, Whole

LEMMA UploadRetriedKeeps ==
  ASSUME IInv, NEW r \in Reply, UploadRetried(r)
  PROVE  IInv'
<1>1. PICK f : f = Current(r)
  OBVIOUS
<1>2. /\ run[r].pc = "uploading" /\ run[r].try < Tries
      /\ UNCHANGED <<ask, got, entry, disk, crashes, shared, kept, missed>>
      /\ run' = [run EXCEPT ![r].try = @ + 1, ![r].open = disk[f] # "absent"]
  BY <1>1 DEF UploadRetried
<1>3. /\ TypeOK /\ Busy(r) /\ Holds(r) /\ UnderWay(r) /\ f \in File
      /\ disk[f] # "absent" \/ f \in shared
  BY <1>1, <1>2, Uploading
<1>4. run[r].try + 1 \in 1..Tries /\ (disk[f] # "absent") \in BOOLEAN
  BY <1>2, <1>3, BoundAssumption DEF TypeOK, RunState
<1>5. /\ run' \in [Reply -> RunState] /\ run'[r].pc = "uploading"
      /\ run'[r].open = (disk[f] # "absent") /\ run'[r].at = run[r].at
      /\ \A q \in Reply \ {r} : run'[q] = run[q]
  BY <1>2, <1>3, <1>4 DEF TypeOK, RunState
<1>6. Others(r) /\ Current(r)' = f
  BY <1>1, <1>2, <1>5 DEF Others, Current
<1>7. TypeOK'
  <2>1. \A q \in Reply : Busy(q)' => Busy(q) /\ run'[q].at = run[q].at
    BY <1>3, <1>5 DEF Busy
  <2>. QED
    BY <1>2, <1>3, <1>5, <2>1 DEF TypeOK
<1>8. \A g \in File : CountsOn(r, g)' => CountsOn(r, g)
  BY <1>2, <1>3, <1>5 DEF CountsOn
<1>9. Holds(r)'
  BY <1>2, <1>3, <1>5, <1>8 DEF Holds, Reuses
<1>10. UnderWay(r)'
  BY <1>1, <1>2, <1>3, <1>5, <1>6 DEF UnderWay, Reuses
<1>11. LeftoverExplained' /\ MissedOnlyShared'
  BY <1>2 DEF IInv, LeftoverExplained, MissedOnlyShared
<1>. QED
  BY <1>2, <1>6, <1>7, <1>8, <1>9, <1>10, <1>11, Whole

LEMMA UploadFailsKeeps ==
  ASSUME IInv, NEW r \in Reply, UploadFails(r)
  PROVE  IInv'
<1>1. PICK f : f = Current(r)
  OBVIOUS
<1>2. /\ UNCHANGED <<entry, disk, crashes, shared, kept>>
      /\ run[r].pc = "uploading" /\ run' = Sent(r) /\ got' = LetGo(r, f) /\ ask' = Wanted
      /\ missed' = IF run[r].open THEN missed ELSE [missed EXCEPT ![r] = @ \cup {f}]
  BY <1>1 DEF UploadFails
<1>3. TypeOK /\ (run[r].open \/ f \in shared)
  BY <1>1, <1>2, Uploading DEF UnderWay
<1>4. /\ run' \in [Reply -> RunState] /\ got' \in [Reply -> [File -> Hold]]
      /\ ask' \in [Reply -> [files: Seq(File), colour: BOOLEAN, named: BOOLEAN]]
      /\ \A q \in Reply : Busy(q)' => /\ ask'[q] \in Asks(q)
                                      /\ run'[q].at \in 1..Len(ask'[q].files)
      /\ Others(r) /\ Holds(r)' /\ UnderWay(r)' /\ f \in File
      /\ \A g \in File : CountsOn(r, g)' => CountsOn(r, g)
  BY <1>1, <1>2, SentKeeps
<1>5. /\ missed' \in [Reply -> SUBSET File]
      /\ \A q \in Reply : missed'[q] \subseteq shared
  BY <1>2, <1>3, <1>4 DEF TypeOK, IInv, MissedOnlyShared
<1>6. TypeOK'
  BY <1>2, <1>3, <1>4, <1>5 DEF TypeOK
<1>7. LeftoverExplained' /\ MissedOnlyShared'
  BY <1>2, <1>5 DEF IInv, LeftoverExplained, MissedOnlyShared
<1>. QED
  BY <1>2, <1>4, <1>6, <1>7, Whole

\* With the process all replies are gone, and with them what they counted on.
LEMMA EndKeeps ==
  ASSUME IInv, run' = Ended, ask' = Wanted, got' = Forgotten(Reply),
         entry' \in [File -> Entry], disk' = disk, crashes' \in 0..MaxCrashes,
         shared' = shared, missed' = missed, kept' \subseteq File, LeftoverExplained'
  PROVE  IInv'
<1>1. TypeOK
  BY DEF IInv
<1>2. At("done") \in RunState /\ At("done").pc = "done"
  BY BoundAssumption DEF At, RunState, PC
<1>3. run' \in [Reply -> RunState] /\ \A q \in Reply : ~Busy(q)'
  BY <1>1, <1>2 DEF Ended, TypeOK, Busy
<1>4. /\ got' \in [Reply -> [File -> Hold]]
      /\ \A q \in Reply, f \in File : got'[q][f] = "unasked"
  BY DEF Forgotten, Hold
<1>5. Nothing \in [files: Seq(File), colour: BOOLEAN, named: BOOLEAN]
  BY DEF Nothing
<1>6. ask' \in [Reply -> [files: Seq(File), colour: BOOLEAN, named: BOOLEAN]]
  BY <1>1, <1>5 DEF Wanted, TypeOK
<1>7. TypeOK'
  BY <1>1, <1>3, <1>4, <1>6 DEF TypeOK
<1>8. \A q \in Reply, f \in File : ~CountsOn(q, f)'
  BY <1>3 DEF CountsOn
<1>9. \A q \in Reply : Holds(q)' /\ UnderWay(q)'
  BY <1>3, <1>4, <1>8 DEF Holds, UnderWay, Busy
<1>10. SharedNoted' /\ MissedOnlyShared'
  BY <1>8 DEF SharedNoted, MissedOnlyShared, IInv
<1>. QED
  BY <1>7, <1>9, <1>10 DEF IInv

LEMMA CrashKeeps ==
  ASSUME IInv, Crash
  PROVE  IInv'
<1>1. crashes' \in 0..MaxCrashes
  BY BoundAssumption DEF Crash, IInv, TypeOK
<1>2. LeftoverExplained' /\ entry' \in [File -> Entry] /\ kept' \subseteq File
  BY DEF Crash, IInv, TypeOK, LeftoverExplained
<1>. QED
  BY <1>1, <1>2, EndKeeps DEF Crash

LEMMA CrashAfterRecordKeeps ==
  ASSUME IInv, NEW r \in Reply, CrashAfterRecord(r)
  PROVE  IInv'
<1>1. PICK f : f = Current(r)
  OBVIOUS
<1>2. /\ run[r].pc = "uploading" /\ crashes' \in 0..MaxCrashes
      /\ entry' = Recorded(r, f) /\ kept' = kept \cup {f}
      /\ UNCHANGED <<disk, shared, missed>>
  BY <1>1, BoundAssumption DEF CrashAfterRecord, IInv, TypeOK
<1>3. TypeOK /\ f \in File
  BY <1>1, <1>2, Uploading
<1>4. entry' \in [File -> Entry] /\ \A g \in File \ {f} : entry'[g] = entry[g]
  <2>1. entry[f] \in Entry /\ TRUE \in BOOLEAN /\ FALSE \in BOOLEAN
    BY <1>3 DEF TypeOK
  <2>2. Merged(entry[f], TRUE, FALSE) \in Entry
    BY <2>1, Entries
  <2>. QED
    BY <1>2, <1>3, <2>2 DEF Recorded, TypeOK
<1>5. LeftoverExplained' /\ kept' \subseteq File
  BY <1>2, <1>3, <1>4 DEF IInv, LeftoverExplained, TypeOK
<1>. QED
  BY <1>2, <1>4, <1>5, EndKeeps DEF CrashAfterRecord

-----------------------------------------------------------------------------
(* The invariant and what follows from it.                                 *)

LEMMA Start == Init => IInv
<1>. SUFFICES ASSUME Init PROVE IInv
  OBVIOUS
<1>1. /\ ask = [r \in Reply |-> Nothing] /\ run = [r \in Reply |-> At("idle")]
      /\ got = [r \in Reply |-> [f \in File |-> "unasked"]]
      /\ crashes = 0 /\ shared = {} /\ missed = [r \in Reply |-> {}]
      /\ kept = {f \in File : entry[f].content /\ disk[f] # "absent"}
  BY DEF Init
<1>2. entry \in [File -> Entry] /\ disk \in [File -> Copy]
  <2>1. PICK past \in [File -> Past] : /\ entry = [f \in File |-> past[f].entry]
                                       /\ disk = [f \in File |-> past[f].copy]
    BY DEF Init
  <2>2. \A p \in Past : p.entry \in Entry /\ p.copy \in Copy
    BY PastAssumption
  <2>. QED
    BY <2>1, <2>2
<1>3. At("idle") \in RunState /\ At("idle").pc = "idle"
  BY BoundAssumption DEF At, RunState, PC
<1>4. Nothing \in [files: Seq(File), colour: BOOLEAN, named: BOOLEAN]
  BY DEF Nothing
<1>5. \A r \in Reply : ~Busy(r) /\ \A f \in File : ~CountsOn(r, f)
  BY <1>1, <1>3 DEF Busy, CountsOn
<1>6. TypeOK
  BY <1>1, <1>2, <1>3, <1>4, <1>5, BoundAssumption DEF TypeOK, Hold
<1>7. \A r \in Reply : Holds(r) /\ UnderWay(r)
  BY <1>1, <1>3, <1>5 DEF Holds, UnderWay, Busy
<1>8. SharedNoted /\ LeftoverExplained /\ MissedOnlyShared
  BY <1>1, <1>5 DEF SharedNoted, LeftoverExplained, MissedOnlyShared
<1>. QED
  BY <1>6, <1>7, <1>8 DEF IInv

LEMMA Stutter ==
  ASSUME IInv, UNCHANGED vars
  PROVE  IInv'
BY DEF vars, IInv, TypeOK, SharedNoted, LeftoverExplained, MissedOnlyShared, Holds,
       UnderWay, Busy, CountsOn, Current, Reuses

LEMMA NextKeeps == IInv /\ [Next]_vars => IInv'
<1>. SUFFICES ASSUME IInv, [Next]_vars PROVE IInv'
  OBVIOUS
<1>1. ASSUME NEW r \in Reply,
             \/ TakeUp(r) \/ CacheHit(r) \/ UseLocal(r) \/ StartDownload(r)
             \/ Downloaded(r) \/ DownloadFails(r) \/ TextFails(r) \/ TextDelivered(r)
             \/ NothingToUpload(r) \/ CopyGone(r) \/ StartUpload(r) \/ UploadTaken(r)
             \/ UploadRetried(r) \/ UploadFails(r) \/ CrashAfterRecord(r)
      PROVE  IInv'
  BY <1>1, TakeUpKeeps, CacheHitKeeps, UseLocalKeeps, StartDownloadKeeps,
     DownloadedKeeps, DownloadFailsKeeps, TextFailsKeeps, TextDeliveredKeeps,
     NothingToUploadKeeps, CopyGoneKeeps, StartUploadKeeps, UploadTakenKeeps,
     UploadRetriedKeeps, UploadFailsKeeps, CrashAfterRecordKeeps
<1>2. CASE Crash
  BY <1>2, CrashKeeps
<1>3. CASE UNCHANGED vars
  BY <1>3, Stutter
<1>. QED
  BY <1>1, <1>2, <1>3 DEF Next, Over

\* Whatever replies share the cache and wherever the process ends, what each
\* learned of a file is still true when it uses it, or noted as shared.
THEOREM Inductive == Spec => []IInv
BY Start, NextKeeps, PTL DEF Spec

\* Every variable keeps its type and no coroutine indexes past its files.
THEOREM TypeCorrect == Spec => []TypeOK
<1>1. IInv => TypeOK
  BY DEF IInv
<1>. QED
  BY <1>1, Inductive, PTL

\* A copy that was promised to a reply (ensure_local_images) is missing at its
\* upload only if two replies counted on the file at the same time.
THEOREM MissedOnlySharedCorrect == Spec => []MissedOnlyShared
<1>1. IInv => MissedOnlyShared
  BY DEF IInv
<1>. QED
  BY <1>1, Inductive, PTL

\* A copy beside a content id has one of the four explanations, always.
THEOREM LeftoverExplainedCorrect == Spec => []LeftoverExplained
<1>1. IInv => LeftoverExplained
  BY DEF IInv
<1>. QED
  BY <1>1, Inductive, PTL

(***************************************************************************)
(* DriveLookup.                                                            *)
(***************************************************************************)

\* The present link, and what its answer and its branch consist of.
LEMMA LookupHere ==
  ASSUME LookupTypeOK
  PROVE  /\ asked.links[at] \in Folder /\ asked.links[1] \in Folder
         /\ Len(asked.links) \in Nat /\ at \in Nat \ {0} /\ at <= Len(asked.links)
         /\ asked.links \in Seq(Folder) /\ 1 <= Len(asked.links)
         /\ setting.depth \in 1..3
         /\ WantedColours \subseteq Colour /\ NoColour \notin Colour
         /\ Filtering => asked.primary \in WantedColours
BY RequestsAssumption, SettingsAssumption, ParentAssumption
DEF LookupTypeOK, WantedColours, Filtering, ToSet

LEMMA LinkIsFolder ==
  ASSUME LookupTypeOK, NEW k \in 1..Len(asked.links)
  PROVE  asked.links[k] \in Folder
BY LookupHere

LEMMA RootWalk ==
  ASSUME NEW link \in Folder
  PROVE  /\ AtRoot(link) \in Walk /\ AtRoot(link).depth = 1 /\ AtRoot(link).here = link
         /\ AtRoot(link).opened = {} /\ AtRoot(link).seen = {} /\ AtRoot(link).bag = {}
BY DEF AtRoot, Walk

\* Colours are colours.
LEMMA Tints ==
  ASSUME LookupTypeOK, NEW label \in Label, NEW inherited \in Colour \cup {NoColour}
  PROVE  /\ Effective(label, inherited) \in Colour \cup {NoColour}
         /\ Filtering => TintedAsAsked(label, inherited) \in Colour \cup {NoColour}
BY LookupHere DEF Effective, TintedAsAsked, Label

LEMMA DriveTypes ==
  ASSUME LookupTypeOK
  PROVE  /\ \A i \in Image : drive.image[i] \in Label /\ drive.home[i] \in Folder
         /\ \A g \in Folder : drive.folder[g] \in Label
         /\ walk.here \in Folder /\ walk.tint \in Colour \cup {NoColour}
         /\ walk.depth \in 1..3 /\ walk.queue \in SUBSET Folder /\ walk.bag \in SUBSET Shown
         /\ walk.seen \in SUBSET Shown /\ walk.opened \in SUBSET Folder
         /\ \A f : Visible(f) \subseteq Folder
BY DEF LookupTypeOK, Drive, Walk, Visible

\* The images of the page lie in the folder that was opened; those that match
\* answer a phrase.
LEMMA PageShape ==
  ASSUME LookupTypeOK
  PROVE  /\ Page \in SUBSET Shown
         /\ \A c \in Page : drive.home[c.id] = walk.here
         /\ Filtering => /\ MatchedImages \in SUBSET Shown
                         /\ \A c \in MatchedImages : /\ drive.home[c.id] = walk.here
                                                     /\ Answers(c, WantedColours)
<1>1. \A i \in ImagesIn(walk.here) : i \in Image /\ drive.home[i] = walk.here
  BY DEF ImagesIn
<1>2. \A i \in Image : Effective(drive.image[i], walk.tint) \in Colour \cup {NoColour}
  BY DriveTypes, Tints
<1>3. Page \in SUBSET Shown
  BY <1>1, <1>2 DEF Page, Shown, Tinted
<1>4. \A c \in Page : drive.home[c.id] = walk.here
  BY <1>1 DEF Page, Tinted
<1>5. ASSUME Filtering
      PROVE  /\ MatchedImages \in SUBSET Shown
             /\ \A c \in MatchedImages : /\ drive.home[c.id] = walk.here
                                         /\ Answers(c, WantedColours)
  <2>1. \A i \in Image : TintedAsAsked(drive.image[i], walk.tint) \in Colour \cup {NoColour}
    BY <1>5, DriveTypes, Tints
  <2>2. MatchedImages \in SUBSET Shown
    BY <1>1, <2>1 DEF MatchedImages, Shown
  <2>3. ASSUME NEW c \in MatchedImages
        PROVE  drive.home[c.id] = walk.here /\ Answers(c, WantedColours)
    <3>1. PICK i \in ImagesIn(walk.here) :
             /\ Matches(drive.image[i], walk.tint)
             /\ c = [id |-> i, colour |-> TintedAsAsked(drive.image[i], walk.tint)]
      BY DEF MatchedImages
    <3>2. c.id = i /\ c.colour = TintedAsAsked(drive.image[i], walk.tint)
      BY <3>1
    <3>3. CASE Mentions(drive.image[i])
      BY <1>1, <3>2, <3>3 DEF Answers, Mentions
    <3>4. CASE Effective(drive.image[i], walk.tint) \in WantedColours
      <4>1. Effective(drive.image[i], walk.tint) # NoColour
        BY <3>4, LookupHere
      <4>. QED
        BY <1>1, <3>2, <3>4, <4>1 DEF Answers, TintedAsAsked
    <3>. QED
      BY <3>1, <3>3, <3>4 DEF Matches
  <2>. QED
    BY <2>2, <2>3
<1>. QED
  BY <1>3, <1>4, <1>5

\* What the present branch is once its folder has been opened.
LEMMA SeenShape ==
  ASSUME LookupIInv, pc = "walking"
  PROVE  /\ Seen \in Walk
         /\ Seen.seen = walk.seen \cup Page /\ Seen.opened = walk.opened \cup {walk.here}
         /\ Seen.depth = walk.depth /\ Seen.here = walk.here
         /\ Seen.queue = walk.queue /\ Seen.bag = walk.bag
         /\ \A c \in Seen.seen \cup Page : drive.home[c.id] \in Seen.opened
<1>1. walk \in Walk /\ Page \in SUBSET Shown /\ walk.here \in Folder
  BY PageShape, DriveTypes DEF LookupIInv, LookupTypeOK
<1>2. PICK S \in SUBSET Shown : S = walk.seen \cup Page
  BY <1>1 DEF Walk
<1>3. PICK O \in SUBSET Folder : O = walk.opened \cup {walk.here}
  BY <1>1 DEF Walk
<1>4. Seen = [walk EXCEPT !.seen = S, !.opened = O]
  BY <1>2, <1>3 DEF Seen
<1>5. /\ Seen \in Walk /\ Seen.seen = S /\ Seen.opened = O
      /\ Seen.depth = walk.depth /\ Seen.here = walk.here
      /\ Seen.queue = walk.queue /\ Seen.bag = walk.bag
  BY <1>1, <1>4 DEF Walk
<1>6. \A c \in S \cup Page : drive.home[c.id] \in O
  BY <1>2, <1>3, PageShape DEF LookupIInv, OnBranch
<1>. QED
  BY <1>2, <1>3, <1>5, <1>6

\* What OneBranch asks of the folders opened for a link.
Branching(O, link) ==
  /\ O \cap drive.blocked \subseteq {link}
  /\ \A f \in O \ {link} : Parent[f] \in O
  /\ \A f, g \in O \ {link} :
        f # g /\ Parent[f] = Parent[g] => ~Filtering /\ Parent[f] = link

LEMMA BranchShape ==
  ASSUME LookupIInv
  PROVE  /\ pc = "walking" => Branching(walk.opened, asked.links[at])
         /\ pc = "walking" => Branching(walk.opened \cup {walk.here}, asked.links[at])
         /\ pc = "colours" => \A g \in walk.queue :
               Branching(walk.opened \cup {g}, asked.links[at])
         /\ pc = "colours" => Branching(walk.opened, asked.links[at])
<1>1. PICK link \in Folder : link = asked.links[at]
  BY LookupHere DEF LookupIInv
<1>2. \A f, g : g \in Visible(f) => Parent[g] = f /\ g # f /\ g \notin drive.blocked
  BY DEF Visible
<1>3. CASE pc = "walking"
  <2>1. CASE walk.depth = 1 /\ walk.here = link /\ walk.opened = {}
    BY <1>1, <1>3, <2>1 DEF Branching
  <2>2. CASE walk.depth = 2 /\ walk.here \in Visible(link) /\ walk.opened = {link}
    BY <1>1, <1>2, <1>3, <2>2 DEF Branching
  <2>3. ASSUME walk.depth = 3, NEW p \in Visible(link), walk.here \in Visible(p),
               walk.opened = {link, p}
        PROVE  Branching(walk.opened, link) /\ Branching(walk.opened \cup {walk.here}, link)
    BY <1>2, <2>3 DEF Branching
  <2>4. Chain(link)
    BY <1>1, <1>3 DEF LookupIInv, OnBranch
  <2>. QED
    BY <1>1, <1>3, <2>1, <2>2, <2>3, <2>4 DEF Chain
<1>4. CASE pc = "colours"
  <2>1. Fan(link)
    BY <1>1, <1>4 DEF LookupIInv, OnBranch
  <2>2. ASSUME NEW O, link \in O, O \subseteq {link} \cup Visible(link)
        PROVE  Branching(O, link)
    BY <1>2, <2>1, <2>2 DEF Branching, Fan
  <2>. QED
    BY <1>1, <1>4, <2>1, <2>2 DEF Fan
<1>. QED
  BY <1>3, <1>4

\* A branch ends: what is left to show of its result.
LEMMA ResultKeeps ==
  ASSUME LookupIInv, pc \in {"walking", "colours"},
         NEW images \in SUBSET Shown, NEW w \in Walk, NEW failed \in BOOLEAN,
         Result(images, w, failed), Branching(w.opened, asked.links[at]),
         \A c \in images : drive.home[c.id] \in w.opened,
         Filtering => \/ \A c \in images : Answers(c, WantedColours)
                      \/ \A c \in w.seen : Answers(c, WantedColours) => c \in images
  PROVE  LookupIInv'
<1>. USE DEF LookupIInv
<1>1. PICK e \in Outcome : e = [images |-> images, seen |-> w.seen,
                                opened |-> w.opened, failed |-> failed]
  BY DEF Outcome, Walk
<1>2. e.images = images /\ e.seen = w.seen /\ e.opened = w.opened
  BY <1>1
<1>3. /\ results' = Append(results, e)
      /\ UNCHANGED <<drive, asked, setting, picks>>
      /\ at < Len(asked.links) =>
            at' = at + 1 /\ pc' = "walking" /\ walk' = AtRoot(asked.links[at + 1])
      /\ ~(at < Len(asked.links)) =>
            at' = 1 /\ pc' = "selecting" /\ walk' = AtRoot(asked.links[1])
  BY <1>1 DEF Result
<1>4. /\ results \in Seq(Outcome) /\ picks = <<>> /\ Len(results) = at - 1
      /\ Len(picks) = 0
  BY DEF LookupTypeOK, InOrder
<1>5. /\ Len(asked.links) \in Nat /\ at \in Nat \ {0} /\ at <= Len(asked.links)
      /\ 1 <= Len(asked.links)
  BY LookupHere
<1>6. /\ results' \in Seq(Outcome) /\ Len(results') = at /\ results'[at] = e
      /\ \A k \in 1..(at - 1) : results'[k] = results[k]
  BY <1>3, <1>4, <1>5
<1>7. /\ at' \in 1..Len(asked.links) /\ walk' = AtRoot(asked.links[at'])
      /\ pc' = "walking" => at' = at + 1
      /\ pc' \in {"walking", "selecting"}
      /\ pc' = "selecting" => at' = 1 /\ at = Len(asked.links)
  BY <1>3, <1>5
<1>8. /\ walk' \in Walk /\ walk'.depth = 1 /\ walk'.here = asked.links[at']
      /\ walk'.opened = {} /\ walk'.seen = {} /\ walk'.bag = {}
  BY <1>7, LinkIsFolder, RootWalk
<1>9. LookupTypeOK'
  <2>1. setting.depth \in 1..3
    BY LookupHere
  <2>. QED
    BY <1>3, <1>4, <1>6, <1>7, <1>8, <2>1 DEF LookupTypeOK
<1>10. InOrder'
  BY <1>3, <1>4, <1>5, <1>6, <1>7 DEF InOrder
<1>11. OnBranch'
  BY <1>3, <1>7, <1>8 DEF OnBranch, Chain
<1>12. OffersMatches'
  <2>1. ASSUME NEW k \in 1..at, Filtering
        PROVE  \/ \A c \in results'[k].images : Answers(c, WantedColours)
               \/ \A c \in results'[k].seen : Answers(c, WantedColours) => c \in results'[k].images
    <3>1. CASE k = at
      BY <1>2, <1>6, <2>1, <3>1
    <3>2. CASE k # at
      <4>1. k \in 1..Len(results) /\ results'[k] = results[k]
        BY <1>4, <1>5, <1>6, <3>2
      <4>. QED
        BY <2>1, <4>1 DEF OffersMatches
    <3>. QED
      BY <3>1, <3>2
  <2>2. \A c : Answers(c, WantedColours)' <=> Answers(c, WantedColours)
    BY <1>3 DEF Answers, WantedColours
  <2>3. Filtering' <=> Filtering
    BY <1>3 DEF Filtering
  <2>. QED
    BY <1>6, <2>1, <2>2, <2>3 DEF OffersMatches
<1>13. FallbackOnlyWithoutMatch'
  BY <1>3, <1>4 DEF FallbackOnlyWithoutMatch
<1>14. OneBranch'
  <2>1. ASSUME NEW k \in 1..at
        PROVE  /\ Branching(results'[k].opened, asked.links[k])
               /\ \A c \in results'[k].images : drive.home[c.id] \in results'[k].opened
    <3>1. CASE k = at
      BY <1>2, <1>6, <3>1
    <3>2. CASE k # at
      <4>1. k \in 1..Len(results) /\ results'[k] = results[k]
        BY <1>4, <1>5, <1>6, <3>2
      <4>. QED
        BY <4>1 DEF OneBranch, Branching
    <3>. QED
      BY <3>1, <3>2
  <2>2. ASSUME NEW k \in 1..Len(results')
        PROVE  LET link == asked'.links[k]
                   O == results'[k].opened
               IN /\ O \cap drive'.blocked \subseteq {link}
                  /\ \A f \in O \ {link} : Parent[f] \in O
                  /\ \A f, g \in O \ {link} :
                       f # g /\ Parent[f] = Parent[g] => ~Filtering' /\ Parent[f] = link
                  /\ \A c \in results'[k].images : drive'.home[c.id] \in O
    <3>1. k \in 1..at /\ drive' = drive /\ asked' = asked /\ (Filtering' <=> Filtering)
      BY <1>3, <1>6 DEF Filtering
    <3>. QED
      BY <2>1, <3>1 DEF Branching
  <2>. QED
    BY <2>2 DEF OneBranch
<1>. QED
  BY <1>9, <1>10, <1>11, <1>12, <1>13, <1>14

\* A branch goes on: results and selections stay as they are.
LEMMA WalkKeeps ==
  ASSUME LookupIInv, pc \in {"walking", "colours"}, pc' \in {"walking", "colours"},
         walk' \in Walk, walk'.depth <= setting.depth, OnBranch',
         UNCHANGED <<drive, asked, setting, at, results, picks>>
  PROVE  LookupIInv'
<1>1. LookupTypeOK'
  BY DEF LookupIInv, LookupTypeOK
<1>2. InOrder'
  BY DEF LookupIInv, InOrder
<1>3. (Filtering' <=> Filtering) /\ \A c : Answers(c, WantedColours)' <=> Answers(c, WantedColours)
  BY DEF Filtering, Answers, WantedColours
<1>4. OffersMatches'
  BY <1>3 DEF LookupIInv, OffersMatches
<1>5. FallbackOnlyWithoutMatch'
  BY <1>3 DEF LookupIInv, FallbackOnlyWithoutMatch
<1>6. OneBranch'
  BY <1>3 DEF LookupIInv, OneBranch
<1>. QED
  BY <1>1, <1>2, <1>4, <1>5, <1>6 DEF LookupIInv

\* The depth limit ends the branch with its fallback, or it goes one folder down.
LEMMA DescendKeeps ==
  ASSUME LookupIInv, pc = "walking", NEW g \in Visible(walk.here),
         NEW tint \in Colour \cup {NoColour}, Descend(g, tint)
  PROVE  LookupIInv'
<1>1. /\ setting.depth \in 1..3 /\ asked.links[at] \in Folder
      /\ walk.here \in Folder /\ walk.depth \in 1..3 /\ g \in Folder
  BY LookupHere, DriveTypes DEF LookupIInv
<1>2. CASE Deepest
  <2>1. Result(FallbackOf(Seen), Seen, FALSE)
    BY <1>2 DEF Descend
  <2>2. FallbackOf(Seen) \in SUBSET Shown /\ FallbackOf(Seen) \subseteq Seen.seen
    BY SeenShape DEF FallbackOf, Walk
  <2>3. Filtering => FallbackOf(Seen) = Seen.seen
    BY DEF FallbackOf
  <2>4. Branching(Seen.opened, asked.links[at])
    BY BranchShape, SeenShape
  <2>. QED
    BY <2>1, <2>2, <2>3, <2>4, SeenShape, ResultKeeps
<1>3. CASE ~Deepest
  <2>1. walk.depth + 1 \in 1..3 /\ walk.depth + 1 <= setting.depth
    BY <1>1, <1>3 DEF Deepest
  <2>2. /\ walk' = [Seen EXCEPT !.here = g, !.depth = @ + 1, !.tint = tint]
        /\ pc' = "walking" /\ UNCHANGED <<drive, asked, setting, at, results, picks>>
    BY <1>3 DEF Descend
  <2>3. /\ walk' \in Walk /\ walk'.here = g /\ walk'.depth = walk.depth + 1
        /\ walk'.seen = Seen.seen /\ walk'.bag = walk.bag
        /\ walk'.opened = walk.opened \cup {walk.here}
    BY <1>1, <2>1, <2>2, SeenShape DEF Walk
  <2>4. \A f : Visible(f)' = Visible(f)
    BY <2>2 DEF Visible
  <2>5. Chain(asked.links[at])'
    <3>1. Chain(asked.links[at])
      BY DEF LookupIInv, OnBranch
    <3>2. CASE walk.depth = 1
      BY <2>2, <2>3, <2>4, <3>1, <3>2 DEF Chain
    <3>3. CASE walk.depth = 2
      BY <2>2, <2>3, <2>4, <3>1, <3>3 DEF Chain
    <3>. QED
      BY <1>1, <2>1, <3>2, <3>3
  <2>6. \A c \in walk.bag : drive.home[c.id] \in walk.opened
    BY DEF LookupIInv, OnBranch
  <2>7. OnBranch'
    BY <2>2, <2>3, <2>5, <2>6, SeenShape DEF OnBranch
  <2>. QED
    BY <2>1, <2>2, <2>3, <2>7, WalkKeeps
<1>. QED
  BY <1>2, <1>3

(***************************************************************************)
(* The actions.                                                            *)
(***************************************************************************)

LEMMA OpenColourFoldersKeeps == LookupIInv /\ OpenColourFolders => LookupIInv'
<1>. SUFFICES ASSUME LookupIInv, OpenColourFolders
              PROVE  LookupIInv'
  OBVIOUS
<1>1. /\ pc = "walking" /\ pc' = "colours" /\ ~Filtering /\ walk.depth = 1
      /\ UNCHANGED <<drive, asked, setting, at, results, picks>>
  BY DEF OpenColourFolders, Diverse
<1>2. PICK Q \in SUBSET ColourFolders : walk' = [Seen EXCEPT !.queue = Q, !.bag = Page]
  BY DEF OpenColourFolders
<1>3. PICK P \in SUBSET Shown : P = Page
  BY PageShape DEF LookupIInv
<1>4. Q \in SUBSET Folder /\ Q \subseteq Visible(walk.here)
  BY DriveTypes DEF ColourFolders, LookupIInv
<1>5. walk' = [Seen EXCEPT !.queue = Q, !.bag = P]
  BY <1>2, <1>3
<1>6. /\ walk' \in Walk /\ walk'.queue = Q /\ walk'.bag = P /\ walk'.depth = walk.depth
      /\ walk'.seen = Seen.seen /\ walk'.opened = walk.opened \cup {walk.here}
  BY <1>1, <1>4, <1>5, SeenShape DEF Walk
<1>7. Chain(asked.links[at])
  BY <1>1 DEF LookupIInv, OnBranch
<1>8. walk.here = asked.links[at] /\ walk.opened = {}
  BY <1>1, <1>7 DEF Chain
<1>9. Fan(asked.links[at])'
  <2>1. Visible(walk.here)' = Visible(walk.here)' /\ \A f : Visible(f)' = Visible(f)
    BY <1>1 DEF Visible
  <2>2. ~Filtering'
    BY <1>1 DEF Filtering
  <2>. QED
    BY <1>1, <1>4, <1>6, <1>8, <2>1, <2>2 DEF Fan
<1>10. OnBranch'
  BY <1>1, <1>3, <1>6, <1>9, SeenShape DEF OnBranch
<1>11. walk'.depth <= setting.depth
  BY <1>6 DEF LookupIInv, LookupTypeOK
<1>. QED
  BY <1>1, <1>6, <1>10, <1>11, WalkKeeps

LEMMA OpenColourFolderKeeps == LookupIInv /\ OpenColourFolder => LookupIInv'
<1>. SUFFICES ASSUME LookupIInv, OpenColourFolder
              PROVE  LookupIInv'
  OBVIOUS
<1>1. pc = "colours"
  BY DEF OpenColourFolder
<1>2. PICK g \in walk.queue :
        LET held == {Tinted(i, Effective(drive.folder[g], NoColour)) : i \in ImagesIn(g)}
            w == [walk EXCEPT !.queue = @ \ {g}, !.bag = @ \cup held,
                              !.seen = @ \cup held, !.opened = @ \cup {g}]
        IN IF w.queue = {} THEN Result(w.bag, w, FALSE)
           ELSE /\ walk' = w
                /\ UNCHANGED <<drive, asked, setting, pc, at, results, picks>>
  BY DEF OpenColourFolder
<1>3. /\ walk \in Walk /\ g \in Folder /\ Fan(asked.links[at])
      /\ \A c \in walk.seen \cup walk.bag : drive.home[c.id] \in walk.opened
  BY <1>1, DriveTypes DEF LookupIInv, LookupTypeOK, OnBranch
<1>4. \A i \in ImagesIn(g) :
         /\ i \in Image /\ drive.home[i] = g
         /\ Effective(drive.image[i], Effective(drive.folder[g], NoColour))
               \in Colour \cup {NoColour}
  <2>1. PICK tint \in Colour \cup {NoColour} : tint = Effective(drive.folder[g], NoColour)
    BY <1>3, DriveTypes, Tints DEF LookupIInv
  <2>2. ASSUME NEW i \in ImagesIn(g)
        PROVE  /\ i \in Image /\ drive.home[i] = g
               /\ Effective(drive.image[i], tint) \in Colour \cup {NoColour}
    <3>1. i \in Image /\ drive.home[i] = g
      BY DEF ImagesIn
    <3>2. drive.image[i] \in Label
      BY <3>1, DriveTypes DEF LookupIInv
    <3>. QED
      BY <3>1, <3>2, Tints DEF LookupIInv
  <2>. QED
    BY <2>1, <2>2
<1>5. PICK held \in SUBSET Shown :
         /\ held = {Tinted(i, Effective(drive.folder[g], NoColour)) : i \in ImagesIn(g)}
         /\ \A c \in held : drive.home[c.id] = g
  <2>1. PICK held : held = {Tinted(i, Effective(drive.folder[g], NoColour)) : i \in ImagesIn(g)}
    OBVIOUS
  <2>2. ASSUME NEW c \in held
        PROVE  c \in Shown /\ drive.home[c.id] = g
    <3>1. PICK i \in ImagesIn(g) : c = Tinted(i, Effective(drive.folder[g], NoColour))
      BY <2>1
    <3>2. c.id = i /\ c.colour = Effective(drive.image[i], Effective(drive.folder[g], NoColour))
      BY <3>1 DEF Tinted
    <3>. QED
      BY <1>4, <3>1, <3>2 DEF Tinted, Shown
  <2>. QED
    BY <2>1, <2>2
<1>6. PICK B \in SUBSET Shown : B = walk.bag \cup held
  BY <1>3 DEF Walk
<1>7. PICK S \in SUBSET Shown : S = walk.seen \cup held
  BY <1>3 DEF Walk
<1>8. PICK O \in SUBSET Folder : O = walk.opened \cup {g}
  BY <1>3 DEF Walk
<1>9. PICK Q \in SUBSET Folder : Q = walk.queue \ {g}
  BY <1>3 DEF Walk
<1>10. PICK w : w = [walk EXCEPT !.queue = Q, !.bag = B, !.seen = S, !.opened = O]
  OBVIOUS
<1>11. /\ w \in Walk /\ w.queue = Q /\ w.bag = B /\ w.seen = S /\ w.opened = O
       /\ w.depth = walk.depth
  BY <1>3, <1>10 DEF Walk
<1>12. IF w.queue = {} THEN Result(w.bag, w, FALSE)
       ELSE /\ walk' = w
            /\ UNCHANGED <<drive, asked, setting, pc, at, results, picks>>
  BY <1>2, <1>5, <1>6, <1>7, <1>8, <1>9, <1>10
<1>13. \A c \in B \cup S : drive.home[c.id] \in O
  BY <1>3, <1>5, <1>6, <1>7, <1>8
<1>14. Branching(O, asked.links[at])
  BY <1>1, <1>8, BranchShape
<1>15. CASE w.queue = {}
  <2>1. Result(B, w, FALSE) /\ ~Filtering
    BY <1>3, <1>11, <1>12, <1>15 DEF Fan
  <2>. QED
    BY <1>1, <1>11, <1>13, <1>14, <2>1, ResultKeeps
<1>16. CASE w.queue # {}
  <2>1. walk' = w /\ UNCHANGED <<drive, asked, setting, pc, at, results, picks>>
    BY <1>12, <1>16
  <2>2. Fan(asked.links[at])'
    <3>1. (\A f : Visible(f)' = Visible(f)) /\ (Filtering' <=> Filtering)
      BY <2>1 DEF Visible, Filtering
    <3>. QED
      BY <1>3, <1>8, <1>9, <1>11, <2>1, <3>1 DEF Fan
  <2>3. OnBranch'
    BY <1>1, <1>11, <1>13, <2>1, <2>2 DEF OnBranch
  <2>4. walk'.depth <= setting.depth
    BY <1>11, <2>1 DEF LookupIInv, LookupTypeOK
  <2>. QED
    BY <1>1, <1>11, <2>1, <2>3, <2>4, WalkKeeps
<1>. QED
  BY <1>15, <1>16

\* A branch ends with images of its last page, of all its pages, or with none.
LEMMA BranchEnds ==
  ASSUME LookupIInv, pc = "walking", NEW images \in SUBSET Shown,
         \A c \in images : drive.home[c.id] \in Seen.opened,
         Filtering => \/ \A c \in images : Answers(c, WantedColours)
                      \/ Seen.seen \subseteq images,
         Result(images, Seen, FALSE)
  PROVE  LookupIInv'
<1>1. Seen \in Walk /\ Branching(Seen.opened, asked.links[at])
  BY BranchShape, SeenShape
<1>2. Filtering => \/ \A c \in images : Answers(c, WantedColours)
                   \/ \A c \in Seen.seen : Answers(c, WantedColours) => c \in images
  OBVIOUS
<1>. QED
  BY <1>1, <1>2, ResultKeeps

LEMMA TakePageKeeps == LookupIInv /\ TakePage => LookupIInv'
<1>. SUFFICES ASSUME LookupIInv, TakePage
              PROVE  LookupIInv'
  OBVIOUS
<1>1. pc = "walking" /\ ~Filtering /\ Result(Page, Seen, FALSE)
  BY DEF TakePage
<1>2. Page \in SUBSET Shown
  BY PageShape DEF LookupIInv
<1>. QED
  BY <1>1, <1>2, SeenShape, BranchEnds

LEMMA NothingThereKeeps == LookupIInv /\ NothingThere => LookupIInv'
<1>. SUFFICES ASSUME LookupIInv, NothingThere
              PROVE  LookupIInv'
  OBVIOUS
<1>1. pc = "walking" /\ ~Filtering /\ Result({}, Seen, FALSE)
  BY DEF NothingThere
<1>2. {} \in SUBSET Shown
  OBVIOUS
<1>. QED
  BY <1>1, <1>2, BranchEnds

LEMMA TakeMatchingKeeps == LookupIInv /\ TakeMatching => LookupIInv'
<1>. SUFFICES ASSUME LookupIInv, TakeMatching
              PROVE  LookupIInv'
  OBVIOUS
<1>1. pc = "walking" /\ Filtering /\ Result(MatchedImages, Seen, FALSE)
  BY DEF TakeMatching
<1>2. /\ MatchedImages \in SUBSET Shown
      /\ \A c \in MatchedImages : drive.home[c.id] = walk.here /\ Answers(c, WantedColours)
  BY <1>1, PageShape DEF LookupIInv
<1>3. \A c \in MatchedImages : drive.home[c.id] \in Seen.opened
  BY <1>1, <1>2, SeenShape
<1>. QED
  BY <1>1, <1>2, <1>3, BranchEnds

LEMMA TakeRootAnywayKeeps == LookupIInv /\ TakeRootAnyway => LookupIInv'
<1>. SUFFICES ASSUME LookupIInv, TakeRootAnyway
              PROVE  LookupIInv'
  OBVIOUS
<1>1. pc = "walking" /\ walk.depth = 1 /\ Result(Page, Seen, FALSE)
  BY DEF TakeRootAnyway, RootChoice
<1>2. Page \in SUBSET Shown
  BY PageShape DEF LookupIInv
<1>3. walk.seen = {}
  BY <1>1 DEF LookupIInv, OnBranch, Chain
<1>4. Seen.seen = Page
  BY <1>1, <1>3, SeenShape
<1>. QED
  BY <1>1, <1>2, <1>4, SeenShape, BranchEnds

LEMMA FallBackKeeps == LookupIInv /\ FallBack => LookupIInv'
<1>. SUFFICES ASSUME LookupIInv, FallBack
              PROVE  LookupIInv'
  OBVIOUS
<1>1. pc = "walking" /\ Result(Seen.seen, Seen, FALSE)
  BY DEF FallBack, FallbackOf
<1>2. Seen.seen \in SUBSET Shown
  BY <1>1, SeenShape DEF Walk
<1>. QED
  BY <1>1, <1>2, SeenShape, BranchEnds

\* The colour a folder passes on is a colour.
LEMMA DescentsKeep ==
  LookupIInv /\ (DescendBlindly \/ DescendMatching \/ DescendAnyway) => LookupIInv'
<1>. SUFFICES ASSUME LookupIInv, DescendBlindly \/ DescendMatching \/ DescendAnyway
              PROVE  LookupIInv'
  OBVIOUS
<1>1. /\ \A g \in Visible(walk.here) : drive.folder[g] \in Label
      /\ walk.tint \in Colour \cup {NoColour}
  BY DriveTypes DEF LookupIInv
<1>2. CASE DescendBlindly
  <2>1. PICK g \in Visible(walk.here) : Descend(g, Effective(drive.folder[g], walk.tint))
    BY <1>2 DEF DescendBlindly
  <2>2. Effective(drive.folder[g], walk.tint) \in Colour \cup {NoColour}
    BY <1>1, Tints DEF LookupIInv
  <2>3. pc = "walking"
    BY <1>2 DEF DescendBlindly
  <2>. QED
    BY <2>1, <2>2, <2>3, DescendKeeps
<1>3. CASE DescendMatching \/ DescendAnyway
  <2>1. PICK g \in Visible(walk.here) : Descend(g, TintedAsAsked(drive.folder[g], walk.tint))
    BY <1>3 DEF DescendMatching, DescendAnyway, MatchedFolders
  <2>2. pc = "walking" /\ Filtering
    BY <1>3 DEF DescendMatching, DescendAnyway
  <2>3. TintedAsAsked(drive.folder[g], walk.tint) \in Colour \cup {NoColour}
    BY <1>1, <2>2, Tints DEF LookupIInv
  <2>. QED
    BY <2>1, <2>2, <2>3, DescendKeeps
<1>. QED
  BY <1>2, <1>3

LEMMA LookupFailureKeeps == LookupIInv /\ LookupFails => LookupIInv'
<1>. SUFFICES ASSUME LookupIInv, LookupFails
              PROVE  LookupIInv'
  OBVIOUS
<1>1. pc \in {"walking", "colours"} /\ Result({}, walk, TRUE)
  BY DEF LookupFails
<1>2. walk \in Walk /\ Branching(walk.opened, asked.links[at])
  BY <1>1, BranchShape DEF LookupIInv, LookupTypeOK
<1>3. {} \in SUBSET Shown /\ TRUE \in BOOLEAN
  OBVIOUS
<1>. QED
  BY <1>1, <1>2, <1>3, ResultKeeps

\* Every way to select draws from the candidates.
LEMMA SelectedAreCandidates ==
  ASSUME NEW candidates, NEW phrases, NEW s \in Selections(candidates, phrases)
  PROVE  s \subseteq candidates
<1>. HIDE DEF PhraseGroups, Cover
<1>. QED
  BY DEF Selections, Filled, ByDriveColour

\* What is selected for a link is among its images, and not all of it answers
\* only if whatever answers was selected before.
LEMMA Drawn ==
  ASSUME LookupIInv, pc = "selecting", Select
  PROVE  \E s \in SUBSET results[at].images :
            /\ picks' = Append(picks, s)
            /\ Filtering /\ (\E c \in s : ~Answers(c, WantedColours)) =>
                  \A d \in results[at].images : Answers(d, WantedColours) => d.id \in Picked
<1>1. PICK new \in SUBSET results[at].images :
         new = {c \in results[at].images : c.id \notin Picked}
  OBVIOUS
<1>2. PICK best : best = IF Filtering THEN Matching(new) ELSE new
  OBVIOUS
<1>3. PICK s \in IF best # {} THEN Selections(best, Filtering) ELSE Selections(new, FALSE) :
         picks' = Append(picks, s)
  BY <1>1, <1>2 DEF Select
<1>4. best \subseteq new /\ (Filtering => \A c \in best : Answers(c, WantedColours))
  BY <1>2 DEF Matching
<1>5. CASE best # {}
  <2>1. s \subseteq best
    BY <1>3, <1>5, SelectedAreCandidates
  <2>. QED
    BY <1>3, <1>4, <2>1
<1>6. CASE best = {}
  <2>1. s \subseteq new
    BY <1>3, <1>6, SelectedAreCandidates
  <2>2. ASSUME Filtering, NEW d \in results[at].images, Answers(d, WantedColours)
        PROVE  d.id \in Picked
    BY <1>1, <1>2, <1>6, <2>2 DEF Matching
  <2>. QED
    BY <1>3, <2>1, <2>2
<1>. QED
  BY <1>5, <1>6

LEMMA SelectKeeps == LookupIInv /\ Select => LookupIInv'
<1>. SUFFICES ASSUME LookupIInv, Select
              PROVE  LookupIInv'
  OBVIOUS
<1>1. /\ pc = "selecting" /\ UNCHANGED <<drive, asked, setting, walk, results>>
      /\ IF at < Len(asked.links) THEN at' = at + 1 /\ pc' = pc ELSE at' = at /\ pc' = "done"
  BY DEF Select
<1>2. PICK s \in SUBSET results[at].images :
         /\ picks' = Append(picks, s)
         /\ Filtering /\ (\E c \in s : ~Answers(c, WantedColours)) =>
               \A d \in results[at].images : Answers(d, WantedColours) => d.id \in Picked
  BY <1>1, Drawn
<1>3. /\ results \in Seq(Outcome) /\ picks \in Seq(SUBSET Shown) /\ Len(picks) = at - 1
      /\ Len(results) = Len(asked.links) /\ Len(asked.links) \in Nat
      /\ at \in 1..Len(results)
      /\ \A k \in 1..Len(picks) : picks[k] \subseteq results[k].images
  BY <1>1, LookupHere DEF LookupIInv, LookupTypeOK, InOrder
<1>4. s \in SUBSET Shown
  <2>1. results[at] \in Outcome
    BY <1>3
  <2>. QED
    BY <2>1 DEF Outcome
<1>5. /\ picks' \in Seq(SUBSET Shown) /\ Len(picks') = at /\ picks'[at] = s
      /\ \A k \in 1..(at - 1) : picks'[k] = picks[k]
  BY <1>2, <1>3, <1>4
<1>6. /\ at' \in 1..Len(asked.links) /\ pc' \in {"selecting", "done"}
      /\ pc' = "selecting" => at' = at + 1
  BY <1>1, <1>3
<1>7. (Filtering' <=> Filtering) /\ \A c : Answers(c, WantedColours)' <=> Answers(c, WantedColours)
  BY <1>1 DEF Filtering, Answers, WantedColours
<1>8. LookupTypeOK'
  <2>1. \A k \in 1..Len(picks') : k <= Len(results') /\ picks'[k] \subseteq results'[k].images
    <3>1. ASSUME NEW k \in 1..at
          PROVE  k <= Len(results) /\ picks'[k] \subseteq results[k].images
      <4>1. CASE k = at
        BY <1>3, <1>5, <4>1
      <4>2. CASE k < at
        BY <1>3, <1>5, <4>2
      <4>. QED
        BY <1>3, <4>1, <4>2
    <3>. QED
      BY <1>1, <1>5, <3>1
  <2>2. at' \in 1..Len(asked'.links) /\ pc' \in {"walking", "colours", "selecting", "done"}
    BY <1>1, <1>6
  <2>3. /\ drive' \in Drive /\ asked' \in Requests /\ setting' \in Settings
        /\ walk' \in Walk /\ walk'.depth <= setting'.depth
        /\ results' \in Seq(Outcome)
    BY <1>1 DEF LookupIInv, LookupTypeOK
  <2>4. picks' \in Seq(SUBSET Shown)
    BY <1>5
  <2>. QED
    BY <2>1, <2>2, <2>3, <2>4 DEF LookupTypeOK
<1>9. InOrder'
  <2>1. Len(results') = Len(asked'.links)
    BY <1>1, <1>3
  <2>2. pc' = "selecting" => Len(picks') = at' - 1
    BY <1>3, <1>5, <1>6
  <2>. QED
    BY <1>6, <2>1, <2>2 DEF InOrder
<1>10. OnBranch'
  BY <1>1, <1>6 DEF LookupIInv, OnBranch
<1>11. OffersMatches'
  BY <1>1, <1>7 DEF LookupIInv, OffersMatches
<1>12. FallbackOnlyWithoutMatch'
  <2>1. ASSUME NEW k \in 1..at, Filtering, NEW e \in picks'[k], ~Answers(e, WantedColours),
               NEW c \in results[k].seen, Answers(c, WantedColours)
        PROVE  \E j \in 1..(k - 1) : \E d \in picks'[j] : d.id = c.id
    <3>1. CASE k < at
      <4>1. k \in 1..Len(picks) /\ picks'[k] = picks[k]
        BY <1>3, <1>5, <3>1
      <4>2. PICK j \in 1..(k - 1) : \E d \in picks[j] : d.id = c.id
        BY <2>1, <4>1 DEF LookupIInv, FallbackOnlyWithoutMatch
      <4>3. picks'[j] = picks[j]
        BY <1>3, <1>5, <3>1
      <4>. QED
        BY <4>2, <4>3
    <3>2. CASE k = at
      <4>1. \A d \in results[at].images : Answers(d, WantedColours) => d.id \in Picked
        BY <1>2, <1>5, <2>1, <3>2
      <4>2. \/ \A d \in results[at].images : Answers(d, WantedColours)
            \/ c \in results[at].images
        BY <1>3, <2>1, <3>2 DEF LookupIInv, OffersMatches
      <4>3. e \in results[at].images
        BY <1>2, <1>5, <2>1, <3>2
      <4>4. c.id \in Picked
        BY <2>1, <4>1, <4>2, <4>3
      <4>5. PICK j \in 1..Len(picks) : \E d \in picks[j] : d.id = c.id
        BY <4>4 DEF Picked
      <4>6. j \in 1..(k - 1) /\ picks'[j] = picks[j]
        BY <1>3, <1>5, <3>2, <4>5
      <4>. QED
        BY <4>5, <4>6
    <3>. QED
      BY <1>3, <3>1, <3>2
  <2>. QED
    BY <1>1, <1>5, <1>7, <2>1 DEF FallbackOnlyWithoutMatch
<1>13. OneBranch'
  BY <1>1, <1>7 DEF LookupIInv, OneBranch
<1>. QED
  BY <1>8, <1>9, <1>10, <1>11, <1>12, <1>13 DEF LookupIInv

LEMMA LookupInitHolds == LookupInit => LookupIInv
<1>. SUFFICES ASSUME LookupInit
              PROVE  LookupIInv
  OBVIOUS
<1>1. /\ asked \in Requests /\ pc = "walking" /\ at = 1 /\ results = <<>> /\ picks = <<>>
      /\ walk = AtRoot(asked.links[1]) /\ drive \in Drive /\ setting \in Settings
  BY DrivesAssumption DEF LookupInit
<1>2. asked.links \in Seq(Folder) /\ asked.links # <<>>
  BY <1>1, RequestsAssumption
<1>3. Len(asked.links) \in Nat \ {0} /\ asked.links[1] \in Folder
  BY <1>2
<1>4. setting.depth \in 1..3
  BY <1>1, SettingsAssumption
<1>5. /\ walk \in Walk /\ walk.depth = 1 /\ walk.here = asked.links[1]
      /\ walk.opened = {} /\ walk.seen = {} /\ walk.bag = {}
  BY <1>1, <1>3, RootWalk
<1>6. LookupTypeOK
  BY <1>1, <1>3, <1>4, <1>5 DEF LookupTypeOK
<1>7. InOrder /\ OnBranch
  BY <1>1, <1>5 DEF InOrder, OnBranch, Chain
<1>8. OffersMatches /\ FallbackOnlyWithoutMatch /\ OneBranch
  BY <1>1 DEF OffersMatches, FallbackOnlyWithoutMatch, OneBranch
<1>. QED
  BY <1>6, <1>7, <1>8 DEF LookupIInv

\* A step that changes nothing.
LEMMA LookupStutters == LookupIInv /\ UNCHANGED lookupVars => LookupIInv'
<1>. SUFFICES ASSUME LookupIInv, UNCHANGED lookupVars
              PROVE  LookupIInv'
  OBVIOUS
<1>. USE DEF lookupVars
<1>1. LookupTypeOK' /\ InOrder'
  BY DEF LookupIInv, LookupTypeOK, InOrder
<1>2. (Filtering' <=> Filtering) /\ \A c : Answers(c, WantedColours)' <=> Answers(c, WantedColours)
  BY DEF Filtering, Answers, WantedColours
<1>3. OnBranch'
  BY <1>2 DEF LookupIInv, OnBranch, Chain, Fan, Visible
<1>4. OffersMatches'
  BY <1>2 DEF LookupIInv, OffersMatches
<1>5. FallbackOnlyWithoutMatch'
  BY <1>2 DEF LookupIInv, FallbackOnlyWithoutMatch
<1>6. OneBranch'
  BY <1>2 DEF LookupIInv, OneBranch
<1>. QED
  BY <1>1, <1>3, <1>4, <1>5, <1>6 DEF LookupIInv

\* For every content of the folders, every answer, every setting and whatever the
\* random choices are: the branch that is opened is a path of visible folders, or
\* the root with some of its colour folders, and what it offers leaves no match out.
THEOREM LookupInductive == LookupSpec => []LookupIInv
<1>1. LookupInit => LookupIInv
  BY LookupInitHolds
<1>2. LookupIInv /\ [LookupNext]_lookupVars => LookupIInv'
  <2>1. LookupIInv /\ LookupNext => LookupIInv'
    BY OpenColourFoldersKeeps, OpenColourFolderKeeps, TakePageKeeps, NothingThereKeeps,
       TakeMatchingKeeps, TakeRootAnywayKeeps, FallBackKeeps, DescentsKeep,
       LookupFailureKeeps, SelectKeeps, LookupStutters
    DEF LookupNext, Done
  <2>. QED
    BY <2>1, LookupStutters
<1>. QED
  BY <1>1, <1>2, PTL DEF LookupSpec

\* Types, and that no branch goes deeper than the setting allows.
THEOREM LookupTypeCorrect == LookupSpec => []LookupTypeOK
<1>1. LookupIInv => LookupTypeOK
  BY DEF LookupIInv
<1>. QED
  BY <1>1, LookupInductive, PTL

\* No image that answers no phrase displaces one of the opened branch that does.
THEOREM FallbackOnlyWithoutMatchCorrect == LookupSpec => []FallbackOnlyWithoutMatch
<1>1. LookupIInv => FallbackOnlyWithoutMatch
  BY DEF LookupIInv
<1>. QED
  BY <1>1, LookupInductive, PTL

\* What is sent for a link comes from one branch of its folder, none of it blocked.
THEOREM OneBranchCorrect == LookupSpec => []OneBranch
<1>1. LookupIInv => OneBranch
  BY DEF LookupIInv
<1>. QED
  BY <1>1, LookupInductive, PTL
==============================================================================
