---------------------------- MODULE DriveLookup ----------------------------
(***************************************************************************)
(* The images of the Drive folders an answer links to: one branch of each    *)
(* folder is opened page by page, then the images to send are drawn          *)
(* (GD = app/services/google_drive_image_service.py 334-1293, and            *)
(* app/api/v1/pancake_webhook.py 3316-3763).                                 *)
(*                                                                         *)
(* A name gives a file or folder a colour if it ends or is marked the way the*)
(* colour map knows, and it may mention phrases of the request besides: a    *)
(* label is both.  Colours and the answer's colour phrases are one set here: *)
(* a colour matches exactly the phrase that names it.  What random.choice    *)
(* draws is any member.  A page is a set: the order in which Drive lists its *)
(* members is any order, and what a further page would list does not exist.  *)
(***************************************************************************)
EXTENDS Integers, Sequences, FiniteSets, SequencesExt

CONSTANTS
    Folder,
    Image,
    Colour,
    NoColour,
    Parent,     \* the folder each folder lies in; a root is its own parent
    Drives,     \* the contents to check: homes and labels of the images, labels
                \* of the folders, and the folders whose name is blocked
    Requests,   \* the answers: links, colour phrases, and the phrase that is
                \* requested_color (the first that is a key of the colour map)
    Settings    \* depth limit, strategy, colour folder limit, image limit

Label == [colour: Colour \cup {NoColour}, says: SUBSET Colour]

ASSUME ParentAssumption == NoColour \notin Colour /\ Parent \in [Folder -> Folder]
Drive == [home: [Image -> Folder], image: [Image -> Label],
          folder: [Folder -> Label], blocked: SUBSET Folder]

ASSUME DrivesAssumption == Drives \subseteq Drive
ASSUME RequestsAssumption ==
    \A q \in Requests : /\ q.links \in Seq(Folder) /\ q.links # <<>>
                        /\ q.phrases \in Seq(Colour)
                        /\ q.phrases # <<>> => q.primary \in ToSet(q.phrases)
ASSUME SettingsAssumption ==
    Settings \subseteq [depth: 1..3, diverse: BOOLEAN, colourFolders: Nat \ {0}, limit: Nat \ {0}]

VARIABLES
    drive,      \* what the folders contain
    asked,      \* the answer
    setting,    \* the settings
    pc,         \* "walking", "colours" (opening colour folders), "selecting", "done"
    at,         \* the link being looked up, or selected from
    walk,       \* the branch of that link so far
    results,    \* the lookup's result of each link
    picks       \* the images selected for each link

lookupVars == <<drive, asked, setting, pc, at, walk, results, picks>>

(***************************************************************************)
(* Colours and labels.                                                     *)
(***************************************************************************)

WantedColours == ToSet(asked.phrases)

Filtering == asked.phrases # <<>>

\* A colour of its own goes before one inherited from the folder.
Effective(label, inherited) == IF label.colour # NoColour THEN label.colour ELSE inherited

Mentions(label) == label.says \cap WantedColours # {}

Matches(label, inherited) == Effective(label, inherited) \in WantedColours \/ Mentions(label)

\* An image as the lookup passes it on: with the colour it is taken to have.
Tinted(i, inherited) == [id |-> i, colour |-> Effective(drive.image[i], inherited)]

\* Without any colour, a name that mentions some phrase is given requested_color.
TintedAsAsked(label, inherited) ==
    IF Effective(label, inherited) = NoColour /\ Mentions(label)
    THEN asked.primary ELSE Effective(label, inherited)

ImagesIn(f) == {i \in Image : drive.home[i] = f}

Visible(f) == {g \in Folder : Parent[g] = f /\ g # f} \ drive.blocked

(***************************************************************************)
(* The branch of one link.                                                 *)
(***************************************************************************)

\* tint: the colour inherited; queue: colour folders to open; bag: what they
\* held; seen: the images of the branch (fallback_images when filtering);
\* opened: visited_folder_ids.
AtRoot(link) == [here |-> link, depth |-> 1, tint |-> NoColour, queue |-> {},
                 bag |-> {}, seen |-> {}, opened |-> {}]

LookupInit ==
    /\ drive \in Drives /\ asked \in Requests /\ setting \in Settings
    /\ pc = "walking"
    /\ at = 1
    /\ walk = AtRoot(asked.links[1])
    /\ results = <<>>
    /\ picks = <<>>

Page == {Tinted(i, walk.tint) : i \in ImagesIn(walk.here)}

MatchedImages ==
    {[id |-> i, colour |-> TintedAsAsked(drive.image[i], walk.tint)] :
        i \in {j \in ImagesIn(walk.here) : Matches(drive.image[j], walk.tint)}}

MatchedFolders == {g \in Visible(walk.here) : Matches(drive.folder[g], walk.tint)}

ColourFolders == {g \in Visible(walk.here) :
                    Effective(drive.folder[g], walk.tint) # NoColour}

\* Only at the root does the code choose between its images and its folders.
RootChoice == walk.depth = 1 /\ Page # {} /\ Visible(walk.here) # {}

Deepest == walk.depth >= setting.depth

Seen == [walk EXCEPT !.seen = @ \cup Page, !.opened = @ \cup {walk.here}]

\* The lookup of a link ends; the next one begins, or the selection.
Result(images, w, failed) ==
    /\ results' = Append(results, [images |-> images, seen |-> w.seen,
                                   opened |-> w.opened, failed |-> failed])
    /\ IF at < Len(asked.links)
       THEN at' = at + 1 /\ pc' = "walking" /\ walk' = AtRoot(asked.links[at + 1])
       ELSE at' = 1 /\ pc' = "selecting" /\ walk' = AtRoot(asked.links[1])
    /\ UNCHANGED <<drive, asked, setting, picks>>

\* What is left of a branch that ends without an image to choose.
FallbackOf(w) == IF Filtering THEN w.seen ELSE {}

\* mutation of Descend: the depth is compared after the descent.
DescendTooDeep(g, tint) ==
    IF walk.depth > setting.depth THEN Result(FallbackOf(Seen), Seen, FALSE)
    ELSE /\ walk' = [Seen EXCEPT !.here = g, !.depth = @ + 1, !.tint = tint]
         /\ pc' = "walking"
         /\ UNCHANGED <<drive, asked, setting, at, results, picks>>

\* One folder further down, unless the loop over the depth is at its end.
Descend(g, tint) ==
    IF Deepest THEN Result(FallbackOf(Seen), Seen, FALSE)
    ELSE /\ walk' = [Seen EXCEPT !.here = g, !.depth = @ + 1, !.tint = tint]
         /\ pc' = "walking"
         /\ UNCHANGED <<drive, asked, setting, at, results, picks>>

\* Time out, refusal or an answer that is no JSON: nothing of the link is kept,
\* neither the images of the pages read before.
LookupFails ==
    /\ pc \in {"walking", "colours"}
    /\ Result({}, walk, TRUE)

(***************************************************************************)
(* Without colour phrases in the answer.                                   *)
(***************************************************************************)

Diverse == setting.diverse /\ walk.depth = 1 /\ ~Deepest /\ ColourFolders # {}

\* All colour folders of the root, up to the limit, are opened one by one.
OpenColourFolders ==
    /\ pc = "walking" /\ ~Filtering /\ Diverse
    /\ \E Q \in SUBSET ColourFolders :
         /\ Cardinality(Q) = IF Cardinality(ColourFolders) < setting.colourFolders
                             THEN Cardinality(ColourFolders) ELSE setting.colourFolders
         /\ walk' = [Seen EXCEPT !.queue = Q, !.bag = Page]
    /\ pc' = "colours"
    /\ UNCHANGED <<drive, asked, setting, at, results, picks>>

OpenColourFolder ==
    /\ pc = "colours"
    /\ \E g \in walk.queue :
         LET held == {Tinted(i, Effective(drive.folder[g], NoColour)) : i \in ImagesIn(g)}
             w == [walk EXCEPT !.queue = @ \ {g}, !.bag = @ \cup held,
                               !.seen = @ \cup held, !.opened = @ \cup {g}]
         IN IF w.queue = {} THEN Result(w.bag, w, FALSE)
            ELSE /\ walk' = w
                 /\ UNCHANGED <<drive, asked, setting, pc, at, results, picks>>

TakePage ==
    /\ pc = "walking" /\ ~Filtering /\ ~Diverse /\ Page # {}
    /\ Result(Page, Seen, FALSE)

DescendBlindly ==
    /\ pc = "walking" /\ ~Filtering /\ ~Diverse
    /\ RootChoice \/ (Page = {} /\ ~Deepest)
    /\ \E g \in Visible(walk.here) : Descend(g, Effective(drive.folder[g], walk.tint))

NothingThere ==
    /\ pc = "walking" /\ ~Filtering /\ ~Diverse /\ Page = {}
    /\ Visible(walk.here) = {} \/ Deepest
    /\ Result({}, Seen, FALSE)

(***************************************************************************)
(* With colour phrases.                                                    *)
(***************************************************************************)

TakeMatching ==
    /\ pc = "walking" /\ Filtering /\ MatchedImages # {}
    /\ Result(MatchedImages, Seen, FALSE)

\* At the root a matching folder may be preferred to matching images.
DescendMatching ==
    /\ pc = "walking" /\ Filtering
    /\ RootChoice \/ (MatchedImages = {} /\ ~Deepest)
    /\ \E g \in MatchedFolders : Descend(g, TintedAsAsked(drive.folder[g], walk.tint))

\* mutation of DescendAnyway: the branch below a matching image is tried too.
DescendRegardless ==
    /\ pc = "walking" /\ Filtering /\ MatchedFolders = {}
    /\ RootChoice \/ ~Deepest
    /\ \E g \in {h \in Folder : Parent[h] = walk.here /\ h # walk.here} :
         Descend(g, TintedAsAsked(drive.folder[g], walk.tint))

DescendAnyway ==
    /\ pc = "walking" /\ Filtering /\ MatchedImages = {} /\ MatchedFolders = {}
    /\ RootChoice \/ ~Deepest
    /\ \E g \in Visible(walk.here) : Descend(g, TintedAsAsked(drive.folder[g], walk.tint))

TakeRootAnyway ==
    /\ pc = "walking" /\ Filtering /\ RootChoice
    /\ MatchedImages = {} /\ MatchedFolders = {}
    /\ Result(Page, Seen, FALSE)

FallBack ==
    /\ pc = "walking" /\ Filtering /\ ~RootChoice /\ MatchedImages = {}
    /\ Visible(walk.here) = {} \/ Deepest
    /\ Result(FallbackOf(Seen), Seen, FALSE)

(***************************************************************************)
(* The selection: no image twice in a reply, at most the limit per link.     *)
(***************************************************************************)

Smaller(m, n) == IF m < n THEN m ELSE n

\* Whether an image as passed on answers one of the phrases in Q.
Answers(image, Q) == image.colour \in Q \/ drive.image[image.id].says \cap Q # {}

\* One image of each group in turn, while there is room and the group has one left.
Cover(groups, n) ==
    LET One(partial, group) ==
          UNION {IF Cardinality(s) >= n \/ group \subseteq s THEN {s}
                 ELSE {s \cup {i} : i \in group \ s} : s \in partial}
    IN FoldLeft(One, {{}}, groups)

\* The rest is drawn from all candidates.
Filled(candidates, partial, n) ==
    {s \in SUBSET candidates : Cardinality(s) = n /\ \E p \in partial : p \subseteq s}

\* The candidates of each phrase, in the order of the phrases.
PhraseGroups(candidates) ==
    SelectSeq([k \in 1..Len(asked.phrases) |->
                 {c \in candidates : Answers(c, {asked.phrases[k]})}],
              LAMBDA g : g # {})

Colours(S) == {c.colour : c \in S} \ {NoColour}

\* Drive colours are disjoint groups in an order nobody fixes: any choice that
\* shows as many of them as fit.  A single one is not covered on purpose: the
\* choice is then any.
ByDriveColour(candidates, n) ==
    {s \in SUBSET candidates :
        /\ Cardinality(s) = n
        /\ Cardinality(Colours(candidates)) > 1 =>
              Cardinality(Colours(s)) >= Smaller(n, Cardinality(Colours(candidates)))}

\* All the selections the draw may make.
Selections(candidates, phrases) ==
    LET n == Smaller(setting.limit, Cardinality(candidates))
        groups == PhraseGroups(candidates)
    IN CASE candidates = {} -> {{}}
         [] candidates # {} /\ phrases /\ Len(groups) > 1 ->
              Filled(candidates, Cover(groups, n), n)
         [] OTHER -> ByDriveColour(candidates, n)

Picked == UNION {{c.id : c \in picks[k]} : k \in 1..Len(picks)}

\* mutation of Matching: only the colour counts, not what the name mentions.
MatchingColour(candidates) == {c \in candidates : c.colour \in WantedColours}

Matching(candidates) == {c \in candidates : Answers(c, WantedColours)}

\* The matching images, or any when none matches; a failed link has none.
Select ==
    /\ pc = "selecting"
    /\ LET new == {c \in results[at].images : c.id \notin Picked}
           best == IF Filtering THEN Matching(new) ELSE new
       IN \E s \in IF best # {} THEN Selections(best, Filtering) ELSE Selections(new, FALSE) :
            picks' = Append(picks, s)
    /\ IF at < Len(asked.links) THEN at' = at + 1 /\ pc' = pc ELSE at' = at /\ pc' = "done"
    /\ UNCHANGED <<drive, asked, setting, walk, results>>

Done == pc = "done" /\ UNCHANGED lookupVars

LookupNext ==
    \/ OpenColourFolders \/ OpenColourFolder \/ TakePage \/ DescendBlindly \/ NothingThere
    \/ TakeMatching \/ DescendMatching \/ DescendAnyway \/ TakeRootAnyway \/ FallBack
    \/ LookupFails \/ Select \/ Done

LookupSpec == LookupInit /\ [][LookupNext]_lookupVars

(***************************************************************************)
(* Properties.                                                             *)
(***************************************************************************)

\* Images with the colour they are taken to have; a branch; what is left of one.
Shown == [id: Image, colour: Colour \cup {NoColour}]

Walk == [here: Folder, depth: 1..3, tint: Colour \cup {NoColour}, queue: SUBSET Folder,
         bag: SUBSET Shown, seen: SUBSET Shown, opened: SUBSET Folder]

Outcome == [images: SUBSET Shown, seen: SUBSET Shown, opened: SUBSET Folder, failed: BOOLEAN]

\* The type invariant.
LookupTypeOK ==
    /\ drive \in Drive /\ asked \in Requests /\ setting \in Settings
    /\ pc \in {"walking", "colours", "selecting", "done"}
    /\ at \in 1..Len(asked.links)
    /\ walk \in Walk /\ walk.depth <= setting.depth
    /\ results \in Seq(Outcome) /\ picks \in Seq(SUBSET Shown)
    /\ \A k \in 1..Len(picks) : k <= Len(results) /\ picks[k] \subseteq results[k].images

\* An image that answers no phrase is sent only when the branch that was opened
\* holds none that does, apart from those sent for an earlier link already: the
\* fallback may never displace a match, whichever way the branch ended and
\* whatever the random choices were.
FallbackOnlyWithoutMatch ==
    \A k \in 1..Len(picks) :
        Filtering /\ (\E c \in picks[k] : ~Answers(c, WantedColours)) =>
            \A c \in results[k].seen : Answers(c, WantedColours) =>
                \E j \in 1..(k - 1) : \E d \in picks[j] : d.id = c.id

\* One branch: of the folders opened for a link no two lie side by side, except
\* the colour folders of the root of a link without colour phrases; none has a
\* blocked name, unless the link itself names it; and each image sent lies in one.
OneBranch ==
    \A k \in 1..Len(results) :
        LET link == asked.links[k]
            O == results[k].opened
        IN /\ O \cap drive.blocked \subseteq {link}
           /\ \A f \in O \ {link} : Parent[f] \in O
           /\ \A f, g \in O \ {link} :
                f # g /\ Parent[f] = Parent[g] => ~Filtering /\ Parent[f] = link
           /\ \A c \in results[k].images : drive.home[c.id] \in O

(***************************************************************************)
(* The inductive invariant.                                                *)
(***************************************************************************)

\* A result and a selection for every link so far.
InOrder ==
    /\ pc \in {"walking", "colours"} => picks = <<>> /\ Len(results) = at - 1
    /\ pc \in {"selecting", "done"} => Len(results) = Len(asked.links)
    /\ pc = "selecting" => Len(picks) = at - 1

\* The folders from the link down to the one that is opened next.
Chain(link) ==
    \/ walk.depth = 1 /\ walk.here = link /\ walk.opened = {} /\ walk.seen = {}
    \/ walk.depth = 2 /\ walk.here \in Visible(link) /\ walk.opened = {link}
    \/ walk.depth = 3 /\ \E p \in Visible(link) :
                            walk.here \in Visible(p) /\ walk.opened = {link, p}

\* The link and those of its colour folders that were opened.
Fan(link) ==
    /\ ~Filtering /\ link \in walk.opened
    /\ walk.opened \cup walk.queue \subseteq {link} \cup Visible(link)

\* Where the branch of the present link stands, and that its images lie in it.
OnBranch ==
    /\ pc = "walking" => Chain(asked.links[at])
    /\ pc = "colours" => Fan(asked.links[at])
    /\ \A c \in walk.seen \cup walk.bag : drive.home[c.id] \in walk.opened

\* A link offers matches alone, or no image of its branch that would match is
\* missing from its offer.
OffersMatches ==
    \A k \in 1..Len(results) :
        LET images == results[k].images
        IN Filtering => \/ \A c \in images : Answers(c, WantedColours)
                        \/ \A c \in results[k].seen : Answers(c, WantedColours) => c \in images

LookupIInv ==
    /\ LookupTypeOK /\ InOrder /\ OnBranch /\ OffersMatches
    /\ FallbackOnlyWithoutMatch /\ OneBranch
=============================================================================
