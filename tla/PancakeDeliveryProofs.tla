------------------------ MODULE PancakeDeliveryProofs ------------------------
(***************************************************************************)
(* Proofs about PancakeDelivery, for any replies, image counts, attempts,    *)
(* tries and echoes: IInv is inductive.                                    *)
(*                                                                         *)
(* First what Split and Singles make of a set of images, then what each way  *)
(* on (Continue, NextUpload, Refused, ...) makes of a coroutine that fits    *)
(* what was shown, and last the actions, most of which end in GoOn.          *)
(***************************************************************************)
EXTENDS PancakeDelivery, FiniteSetTheorems, SequenceTheorems, TLAPS

(***************************************************************************)
(* Chunks of images.                                                       *)
(***************************************************************************)

LEMMA ImagesFinite ==
  ASSUME NEW p \in Reply, NEW S, S \subseteq Image(p)
  PROVE  /\ IsFiniteSet(S) /\ Cardinality(S) \in Nat
         /\ S \subseteq Nat /\ Text \notin S
<1>1. ImageCount[p] \in Nat
  BY CountAssumption
<1>2. IsFiniteSet(1..ImageCount[p])
  BY <1>1, FS_Interval
<1>3. IsFiniteSet(Image(p)) /\ Image(p) \subseteq Nat \ {0}
  BY <1>1, <1>2 DEF Image
<1>. QED
  BY <1>3, FS_Subset, FS_CardinalityType DEF Text

\* A set of images has a least one: the least of its initial segments.
LEMMA FirstIn ==
  ASSUME NEW p \in Reply, NEW S, S \subseteq Image(p), S # {}
  PROVE  First(S) \in S
<1>. DEFINE Upto(i) == {j \in S : j <= i}
<1>. DEFINE Segments == {Upto(i) : i \in S}
<1>1. IsFiniteSet(S) /\ S \subseteq Nat
  BY ImagesFinite
<1>2. Segments \subseteq FiniteSubsetsOf(S) /\ Segments # {}
  <2>1. \A i \in S : IsFiniteSet(Upto(i)) /\ Upto(i) \subseteq S
    BY <1>1, FS_Subset
  <2>. QED
    BY <2>1 DEF FiniteSubsetsOf
<1>3. PICK x \in Segments : \A y \in Segments : <<y, x>> \notin StrictSubsetOrdering(S)
  <2>. HIDE DEF Segments
  <2>. QED
    BY <1>2, FS_StrictSubsetOrderingWellFounded, WFMin
<1>4. PICK i \in S : x = Upto(i)
  OBVIOUS
<1>5. \A j \in S : i <= j
  <2>. SUFFICES ASSUME NEW j \in S, ~(i <= j)
                PROVE  FALSE
    OBVIOUS
  <2>1. i \in Nat /\ j \in Nat /\ j < i
    BY <1>1
  <2>2. \A k \in S : k <= j => k <= i
    BY <2>1, <1>1
  <2>3. i <= i /\ ~(i <= j)
    BY <2>1
  <2>4. Upto(j) \subseteq Upto(i) /\ i \in Upto(i) /\ i \notin Upto(j)
    BY <2>2, <2>3
  <2>5. Upto(j) \in Segments /\ Upto(j) \subseteq S /\ Upto(i) \subseteq S
    OBVIOUS
  <2>6. <<Upto(j), Upto(i)>> \in StrictSubsetOrdering(S)
    BY <2>4, <2>5 DEF StrictSubsetOrdering
  <2>. QED
    BY <2>5, <2>6, <1>3, <1>4
<1>. QED
  BY <1>5 DEF First

\* The images of a set one by one: each is in the chunk of its rank.
LEMMA SinglesShape ==
  ASSUME NEW p \in Reply, NEW S, S \subseteq Image(p), S # {}
  PROVE  /\ Singles(S) \in Seq(SUBSET S) /\ Singles(S) # <<>>
         /\ Apart(Singles(S)) /\ Parts(Singles(S)) = S
<1>. DEFINE Rank(i) == Cardinality({j \in S : j <= i})
<1>. DEFINE n == Cardinality(S)
<1>1. IsFiniteSet(S) /\ n \in Nat /\ S \subseteq Nat
  BY ImagesFinite
<1>2. n # 0
  BY <1>1, FS_EmptySet
<1>3. \A i \in S : Rank(i) \in 1..n
  <2>. SUFFICES ASSUME NEW i \in S
                PROVE  Rank(i) \in 1..n
    OBVIOUS
  <2>. DEFINE T == {j \in S : j <= i}
  <2>1. T \in SUBSET S /\ i \in T
    BY <1>1
  <2>2. IsFiniteSet(T) /\ Cardinality(T) <= n
    BY <2>1, <1>1, FS_Subset
  <2>3. Cardinality(T) \in Nat /\ Cardinality(T) # 0
    BY <2>1, <2>2, FS_CardinalityType, FS_EmptySet
  <2>. QED
    BY <2>2, <2>3, <1>1
<1>4. \A k \in 1..n : Singles(S)[k] = {i \in S : Rank(i) = k}
  <2>. SUFFICES ASSUME NEW k \in 1..n
                PROVE  Smallest(S, k) \ Smallest(S, k - 1) = {i \in S : Rank(i) = k}
    BY DEF Singles
  <2>1. \A i \in S : (Rank(i) <= k /\ ~(Rank(i) <= k - 1)) <=> Rank(i) = k
    <3>. HIDE DEF Rank
    <3>. QED
      BY <1>1, <1>3
  <2>. QED
    BY <2>1 DEF Smallest
<1>5. Singles(S) \in [1..n -> SUBSET S]
  BY <1>4 DEF Singles
<1>6. Singles(S) \in Seq(SUBSET S) /\ DOMAIN Singles(S) = 1..n
  <2>. HIDE DEF n
  <2>. QED
    BY <1>5, <1>1, IsASeq
<1>7. Singles(S) # <<>>
  BY <1>6, <1>2, <1>1
<1>8. Apart(Singles(S))
  <2>. HIDE DEF Rank, n
  <2>. QED
    BY <1>4, <1>6 DEF Apart
<1>9. Parts(Singles(S)) = S
  <2>. HIDE DEF Rank, n
  <2>. QED
    BY <1>3, <1>4, <1>6 DEF Parts
<1>. QED
  BY <1>6, <1>7, <1>8, <1>9

\* A set in two chunks, or in one.
LEMMA SplitShape ==
  ASSUME NEW S
  PROVE  /\ Split(S) \in Seq(SUBSET S) /\ Split(S) # <<>>
         /\ Apart(Split(S)) /\ Parts(Split(S)) = S
<1>1. \A T \in SUBSET S :
        LET s == <<T, S \ T>>
        IN s \in Seq(SUBSET S) /\ s # <<>> /\ Apart(s) /\ Parts(s) = S
  <2>. SUFFICES ASSUME NEW T \in SUBSET S
                PROVE  LET s == <<T, S \ T>>
                       IN s \in Seq(SUBSET S) /\ s # <<>> /\ Apart(s) /\ Parts(s) = S
    OBVIOUS
  <2>. PICK s : s = <<T, S \ T>>
    OBVIOUS
  <2>1. s \in Seq(SUBSET S) /\ DOMAIN s = {1, 2} /\ s[1] = T /\ s[2] = S \ T
    OBVIOUS
  <2>2. Apart(s) /\ Parts(s) = S
    BY <2>1 DEF Apart, Parts
  <2>. QED
    BY <2>1, <2>2
<1>2. LET s == <<S>> IN s \in Seq(SUBSET S) /\ s # <<>> /\ Apart(s) /\ Parts(s) = S
  <2>. PICK s : s = <<S>>
    OBVIOUS
  <2>1. s \in Seq(SUBSET S) /\ DOMAIN s = {1} /\ s[1] = S
    OBVIOUS
  <2>2. Apart(s) /\ Parts(s) = S
    BY <2>1 DEF Apart, Parts
  <2>. QED
    BY <2>1, <2>2
<1>3. \A k : Smallest(S, k) \in SUBSET S
  BY DEF Smallest
<1>. QED
  BY <1>1, <1>2, <1>3 DEF Split

\* The first of a queue of chunks is apart from the others.
LEMMA HeadTail ==
  ASSUME NEW S, NEW q \in Seq(SUBSET S), q # <<>>, Apart(q)
  PROVE  /\ Head(q) \subseteq S /\ Tail(q) \in Seq(SUBSET S) /\ Apart(Tail(q))
         /\ Head(q) \cap Parts(Tail(q)) = {}
         /\ Parts(q) = Head(q) \cup Parts(Tail(q))
<1>1. /\ Len(q) \in Nat \ {0} /\ DOMAIN q = 1..Len(q) /\ Head(q) = q[1]
      /\ \A i \in 1..Len(q) : q[i] \in SUBSET S
  OBVIOUS
<1>2. /\ Tail(q) \in Seq(SUBSET S) /\ DOMAIN Tail(q) = 1..(Len(q) - 1)
      /\ \A i \in 1..(Len(q) - 1) : Tail(q)[i] = q[i + 1]
  BY <1>1
<1>3. \A i \in 1..Len(q) : i = 1 \/ (i - 1 \in 1..(Len(q) - 1) /\ i = (i - 1) + 1)
  BY <1>1
<1>4. \A i \in 1..(Len(q) - 1) : i + 1 \in 1..Len(q) /\ i + 1 # 1
  BY <1>1
<1>5. \A i, j \in 1..(Len(q) - 1) : i # j => i + 1 # j + 1
  OBVIOUS
<1>6. Apart(Tail(q))
  BY <1>1, <1>2, <1>4, <1>5 DEF Apart
<1>7. q[1] \cap Parts(Tail(q)) = {}
  BY <1>1, <1>2, <1>4 DEF Apart, Parts
<1>8. Parts(q) = q[1] \cup Parts(Tail(q))
  <2>1. ASSUME NEW x \in Parts(q)
        PROVE  x \in q[1] \cup Parts(Tail(q))
    <3>1. PICK i \in 1..Len(q) : x \in q[i]
      BY <1>1 DEF Parts
    <3>2. i # 1 => i - 1 \in 1..(Len(q) - 1) /\ Tail(q)[i - 1] = q[i]
      BY <1>2, <1>3
    <3>. QED
      BY <3>1, <3>2, <1>2 DEF Parts
  <2>2. q[1] \cup Parts(Tail(q)) \subseteq Parts(q)
    BY <1>1, <1>2, <1>4 DEF Parts
  <2>. QED
    BY <2>1, <2>2
<1>. QED
  BY <1>1, <1>2, <1>6, <1>7, <1>8

(***************************************************************************)
(* Ways on.  k, a, s and c are what was shown and learned of, acknowledged,  *)
(* shown, and confused, of reply p.                                        *)
(***************************************************************************)

LEMMA PartShape ==
  ASSUME NEW p \in Reply
  PROVE  Text \in Part(p) /\ Image(p) \subseteq Part(p) /\ Text \notin Image(p)
BY ImagesFinite DEF Part

LEMMA Numbers ==
  /\ MaxAttempts \in Nat \ {0} /\ 1 \in 1..MaxAttempts /\ 1 \in 1..Tries
  /\ 0 <= MaxAttempts - 1 /\ MaxAttempts - 1 <= 2 * (MaxAttempts - 1)
  /\ 2 * (MaxAttempts - 1) <= 3 * MaxAttempts - 2
  /\ \A phase : Earlier(phase) \in Nat
  /\ Earlier("text") = 0 /\ Earlier("comment") = 0 /\ Earlier("primary") = 0
  /\ Earlier("split") = MaxAttempts - 1 /\ Earlier("single") = 2 * (MaxAttempts - 1)
BY BoundAssumption DEF Earlier

LEMMA NoParts ==
  /\ Parts(<<>>) = {} /\ Apart(<<>>)
  /\ \A S : <<>> \in Seq(SUBSET S)
BY DEF Parts, Apart

\* The bounds of the properties.
Bounded(p, k, a) ==
    \A i \in Part(p) :
        k[i] <= 1 /\ a[i] <= IF i = Text \/ p \in Comment THEN 1 ELSE 3 * MaxAttempts - 2

\* An inbox reply begins with the first of some chunks that were not shown.
LEMMA DeliverFits ==
  ASSUME NEW p \in Reply, p \notin Comment, NEW w \in WorkState(p),
         NEW q \in Seq(SUBSET Image(p)), q # <<>>, Apart(q),
         NEW phase \in {"split", "single"}, NEW s, NEW c,
         NEW v, v = Deliver(w, Head(q), Tail(q), phase),
         NEW k \in [Part(p) -> Nat], NEW a \in [Part(p) -> Nat],
         w.left = {}, Parts(q) \cup w.refused \subseteq w.ids,
         Parts(q) \cap w.refused = {}, phase = "single" => w.refused = {},
         Bounded(p, k, a), \A i \in Parts(q) \cup w.refused : k[i] = 0,
         \A i \in Parts(q) : a[i] <= Earlier(phase),
         \A i \in w.refused : a[i] <= 2 * (MaxAttempts - 1),
         w.ok /\ ~c => w.ids \subseteq s \cup Parts(q) \cup w.refused
  PROVE  v \in WorkState(p) /\ Fits(p, v, k, a, s, c)
<1>1. /\ Head(q) \subseteq Image(p) /\ Tail(q) \in Seq(SUBSET Image(p)) /\ Apart(Tail(q))
      /\ Head(q) \cap Parts(Tail(q)) = {}
      /\ Parts(q) = Head(q) \cup Parts(Tail(q))
  BY HeadTail
<1>2. /\ v \in WorkState(p)
      /\ v.pc = "posting" /\ v.phase = phase /\ v.chunk = Head(q) /\ v.queue = Tail(q)
      /\ v.attempt = 1 /\ ~v.reached /\ v.ids = w.ids /\ v.left = {}
      /\ v.refused = w.refused /\ v.ok = w.ok
  BY <1>1, Numbers, PartShape DEF Deliver, WorkState, PC, Phase
<1>3. ToCome(p, v) = v.refused \cup Parts(v.queue)
  BY <1>2 DEF ToCome
<1>4. Stage(p, v)
  BY <1>1, <1>2 DEF Stage, Active
<1>5. Once(p, v, k)
  BY <1>1, <1>2, <1>3 DEF Once, Bounded
<1>6. Acknowledged(p, v, a)
  <2>1. \A i \in v.chunk : a[i] <= Earlier(phase) + 1 - 1
    BY <1>1, <1>2, Numbers
  <2>2. \A i \in ToCome(p, v) \ v.refused : a[i] <= Earlier(phase)
    BY <1>1, <1>2, <1>3
  <2>. QED
    BY <1>2, <2>1, <2>2 DEF Acknowledged, Bounded
<1>7. Seen(p, v, s, a, c)
  BY <1>1, <1>2, <1>3 DEF Seen
<1>. QED
  BY <1>2, <1>4, <1>5, <1>6, <1>7 DEF Fits

\* Whatever stops fits if the bounds hold and the verdict is right.
LEMMA StopFits ==
  ASSUME NEW p \in Reply, NEW w \in WorkState(p), NEW s, NEW c,
         NEW k, NEW a, Bounded(p, k, a)
  PROVE  /\ Stop(w) \in WorkState(p) /\ StopFailed(w) \in WorkState(p)
         /\ Fits(p, StopFailed(w), k, a, s, c)
         /\ (w.ok /\ ~c => w.ids \subseteq s /\ (p \in Comment => w.ids = Image(p)))
            => Fits(p, Stop(w), k, a, s, c)
<1>1. /\ Stop(w) \in WorkState(p) /\ Stop(w).pc = "done"
      /\ Stop(w).ids = w.ids /\ Stop(w).ok = w.ok
  BY DEF Stop, WorkState, PC
<1>2. /\ StopFailed(w) \in WorkState(p) /\ StopFailed(w).pc = "done"
      /\ ~StopFailed(w).ok
  BY DEF StopFailed, Stop, WorkState, PC
<1>. QED
  BY <1>1, <1>2 DEF Fits, Stage, Once, Acknowledged, Seen, Active, Bounded

\* After a chunk of the split or single phase.
LEMMA ContinueFits ==
  ASSUME NEW p \in Reply, p \notin Comment, NEW w \in WorkState(p), NEW s, NEW c,
         NEW k \in [Part(p) -> Nat], NEW a \in [Part(p) -> Nat],
         w.phase \in {"split", "single"}, w.left = {}, Apart(w.queue),
         Parts(w.queue) \cup w.refused \subseteq w.ids,
         Parts(w.queue) \cap w.refused = {}, w.phase = "single" => w.refused = {},
         Bounded(p, k, a), \A i \in Parts(w.queue) \cup w.refused : k[i] = 0,
         \A i \in Parts(w.queue) : a[i] <= Earlier(w.phase),
         \A i \in w.refused : a[i] <= 2 * (MaxAttempts - 1),
         w.ok /\ ~c => w.ids \subseteq s \cup Parts(w.queue) \cup w.refused
  PROVE  Continue(w) \in WorkState(p) /\ Fits(p, Continue(w), k, a, s, c)
<1>1. w.queue \in Seq(SUBSET Image(p)) /\ w.refused \subseteq Image(p)
  BY DEF WorkState
<1>2. CASE w.queue # <<>>
  <2>. PICK q \in Seq(SUBSET Image(p)) : q = w.queue
    BY <1>1
  <2>. PICK phase \in {"split", "single"} : phase = w.phase
    OBVIOUS
  <2>. PICK v : v = Continue(w)
    OBVIOUS
  <2>1. v = Deliver(w, Head(q), Tail(q), phase) /\ q # <<>>
    BY <1>2 DEF Continue
  <2>. QED
    BY <2>1, DeliverFits
<1>3. CASE w.queue = <<>> /\ w.refused # {}
  <2>. PICK q : q = Singles(w.refused)
    OBVIOUS
  <2>. PICK u : u = [w EXCEPT !.refused = {}]
    OBVIOUS
  <2>1. /\ q \in Seq(SUBSET w.refused) /\ q # <<>> /\ Apart(q) /\ Parts(q) = w.refused
    BY <1>1, <1>3, SinglesShape
  <2>2. q \in Seq(SUBSET Image(p))
    BY <1>1, <2>1
  <2>3. /\ u \in WorkState(p) /\ u.refused = {} /\ u.left = {}
        /\ u.ids = w.ids /\ u.ok = w.ok
    BY DEF WorkState
  <2>. PICK v : v = Continue(w)
    OBVIOUS
  <2>4. v = Deliver(u, Head(q), Tail(q), "single")
    BY <1>3 DEF Continue
  <2>5. \A i \in Parts(q) : k[i] = 0 /\ a[i] <= Earlier("single")
    BY <2>1, Numbers
  <2>6. /\ Parts(q) \cup u.refused \subseteq u.ids /\ Parts(q) \cap u.refused = {}
        /\ u.ok /\ ~c => u.ids \subseteq s \cup Parts(q) \cup u.refused
    BY <1>3, <2>1, <2>3, NoParts
  <2>7. "single" \in {"split", "single"} /\ \A i \in u.refused : FALSE
    BY <2>3
  <2>8. /\ \A i \in Parts(q) \cup u.refused : k[i] = 0
        /\ \A i \in u.refused : a[i] <= 2 * (MaxAttempts - 1)
    BY <2>5, <2>7
  <2>. QED
    BY <2>1, <2>2, <2>3, <2>4, <2>5, <2>6, <2>7, <2>8, DeliverFits
<1>4. CASE w.queue = <<>> /\ w.refused = {}
  <2>1. Continue(w) = Stop(w)
    BY <1>4 DEF Continue
  <2>2. w.ok /\ ~c => w.ids \subseteq s
    BY <1>4, NoParts
  <2>. QED
    BY <2>1, <2>2, StopFits
<1>. QED
  BY <1>2, <1>3, <1>4

\* Back between the images, after the text or an image of a comment.
LEMMA NextUploadFits ==
  ASSUME NEW p \in Reply, NEW w \in WorkState(p), NEW s, NEW c,
         NEW k \in [Part(p) -> Nat], NEW a \in [Part(p) -> Nat],
         (w.phase = "text" /\ (p \in Comment \/ w.ids = {}))
            \/ (w.phase = "comment" /\ p \in Comment),
         w.queue = <<>>, w.refused = {}, w.ids \cap w.left = {},
         Bounded(p, k, a), \A i \in w.left : k[i] = 0 /\ a[i] = 0,
         w.ok /\ ~c => w.ids \subseteq s /\ (p \in Comment => w.ids \cup w.left = Image(p))
  PROVE  NextUpload(w) \in WorkState(p) /\ Fits(p, NextUpload(w), k, a, s, c)
<1>1. CASE w.left = {}
  <2>1. NextUpload(w) = Stop(w)
    BY <1>1 DEF NextUpload
  <2>. QED
    BY <1>1, <2>1, StopFits
<1>2. CASE w.left # {}
  <2>. PICK v : v = NextUpload(w)
    OBVIOUS
  <2>1. /\ v \in WorkState(p) /\ v.pc = "uploading" /\ v.chunk = {} /\ v.phase = w.phase
        /\ v.queue = <<>> /\ v.refused = {} /\ v.ids = w.ids /\ v.left = w.left
        /\ v.ok = w.ok
    BY <1>2 DEF NextUpload, WorkState, PC
  <2>2. ToCome(p, v) = v.left
    BY <2>1, NoParts DEF ToCome
  <2>3. Stage(p, v)
    BY <1>2, <2>1 DEF Stage
  <2>4. Once(p, v, k) /\ Seen(p, v, s, a, c)
    BY <2>1, <2>2 DEF Once, Seen, Active, Bounded
  <2>5. Acknowledged(p, v, a)
    <3>1. \A i \in v.left : a[i] <= Earlier(v.phase)
      BY <2>1, Numbers
    <3>. QED
      BY <2>1, <2>2, <3>1 DEF Acknowledged, Active, Bounded
  <2>. QED
    BY <2>1, <2>3, <2>4, <2>5 DEF Fits
<1>. QED
  BY <1>1, <1>2

\* A chunk is over, with nothing said yet of how it went.
Over(p, w, k, a, s, c) ==
    /\ Active(w) /\ Stage(p, w) /\ Bounded(p, k, a)
    /\ \A i \in ToCome(p, w) : k[i] = 0
    /\ \A i \in ToCome(p, w) \ w.refused : a[i] <= Earlier(w.phase)
    /\ \A i \in w.refused : a[i] <= 2 * (MaxAttempts - 1)
    /\ w.ok /\ ~c => /\ w.ids \subseteq s \cup w.chunk \cup ToCome(p, w)
                     /\ p \in Comment => w.ids \cup w.left = Image(p)

\* What Stage says of the three kinds of chunk.
Outside(p, w) ==
    /\ w.phase = "text" \/ (w.phase = "comment" /\ p \in Comment)
    /\ w.queue = <<>> /\ w.refused = {} /\ w.ids \cap w.left = {}
    /\ w.phase = "text" => w.ids = {} /\ w.left = Image(p) /\ w.chunk = {Text}
    /\ w.phase = "comment" => w.chunk \subseteq w.ids

Inside(p, w) ==
    /\ w.phase \in {"primary", "split", "single"} /\ p \notin Comment /\ w.left = {}
    /\ w.chunk \cup Parts(w.queue) \cup w.refused \subseteq w.ids
    /\ w.chunk \cap (Parts(w.queue) \cup w.refused) = {}
    /\ Parts(w.queue) \cap w.refused = {} /\ Apart(w.queue)
    /\ w.phase = "primary" => w.chunk = w.ids /\ w.queue = <<>>
    /\ w.phase # "split" => w.refused = {}

LEMMA Kinds ==
  ASSUME NEW p \in Reply, NEW w, Active(w), Stage(p, w)
  PROVE  /\ Outside(p, w) \/ Inside(p, w)
         /\ ToCome(p, w) = w.left \cup w.refused \cup Parts(w.queue)
BY DEF Active, Stage, Outside, Inside, ToCome

\* An image of a comment or the text is over: the loop goes on, failed or not.
LEMMA OutsideOver ==
  ASSUME NEW p \in Reply, NEW w \in WorkState(p), NEW s, NEW c,
         NEW k \in [Part(p) -> Nat], NEW a \in [Part(p) -> Nat],
         Over(p, w, k, a, s, c), Outside(p, w)
  PROVE  /\ \A i \in w.left : k[i] = 0 /\ a[i] = 0
         /\ (w.phase # "text" /\ w.ok /\ ~c => w.chunk \subseteq s) =>
               /\ NextUpload(w) \in WorkState(p)
               /\ Fits(p, NextUpload(w), k, a, s, c)
         /\ LET u == [w EXCEPT !.ok = FALSE]
            IN /\ NextUpload(u) \in WorkState(p)
               /\ Fits(p, NextUpload(u), k, a, s, c)
<1>1. /\ Active(w) /\ Stage(p, w) /\ Bounded(p, k, a)
      /\ w.left \subseteq Image(p) /\ Image(p) \subseteq Part(p)
  BY PartShape DEF Over, WorkState
<1>2. ToCome(p, w) = w.left
  BY <1>1, Kinds, NoParts DEF Outside
<1>3. Earlier(w.phase) = 0
  BY Numbers DEF Outside
<1>4. \A i \in w.left : k[i] = 0 /\ a[i] = 0
  <2>1. \A i \in w.left : k[i] = 0 /\ a[i] <= 0 /\ a[i] \in Nat
    BY <1>1, <1>2, <1>3 DEF Over, Outside
  <2>. QED
    BY <2>1
<1>5. ASSUME w.phase # "text" /\ w.ok /\ ~c => w.chunk \subseteq s
      PROVE  NextUpload(w) \in WorkState(p) /\ Fits(p, NextUpload(w), k, a, s, c)
  <2>1. w.ok /\ ~c => /\ w.ids \subseteq s
                      /\ p \in Comment => w.ids \cup w.left = Image(p)
    BY <1>2, <1>5 DEF Over, Outside
  <2>2. (w.phase = "text" /\ (p \in Comment \/ w.ids = {}))
           \/ (w.phase = "comment" /\ p \in Comment)
    BY DEF Outside
  <2>3. w.queue = <<>> /\ w.refused = {} /\ w.ids \cap w.left = {}
    BY DEF Outside
  <2>. QED
    BY <1>1, <1>4, <2>1, <2>2, <2>3, NextUploadFits
<1>. PICK u : u = [w EXCEPT !.ok = FALSE]
  OBVIOUS
<1>6. NextUpload(u) \in WorkState(p) /\ Fits(p, NextUpload(u), k, a, s, c)
  <2>1. /\ u \in WorkState(p) /\ ~u.ok /\ u.phase = w.phase /\ u.queue = w.queue
        /\ u.refused = w.refused /\ u.ids = w.ids /\ u.left = w.left
    BY DEF WorkState
  <2>2. (u.phase = "text" /\ (p \in Comment \/ u.ids = {}))
           \/ (u.phase = "comment" /\ p \in Comment)
    BY <2>1 DEF Outside
  <2>3. u.queue = <<>> /\ u.refused = {} /\ u.ids \cap u.left = {}
    BY <2>1 DEF Outside
  <2>4. /\ \A i \in u.left : k[i] = 0 /\ a[i] = 0
        /\ u.ok /\ ~c => u.ids \subseteq s /\ (p \in Comment => u.ids \cup u.left = Image(p))
    BY <1>4, <2>1
  <2>. QED
    BY <1>1, <2>1, <2>2, <2>3, <2>4, NextUploadFits
<1>. QED
  BY <1>4, <1>5, <1>6

\* A chunk of the split or single phase is over: u is what it leaves.
LEMMA InsideOver ==
  ASSUME NEW p \in Reply, NEW w \in WorkState(p), NEW s, NEW c,
         NEW k \in [Part(p) -> Nat], NEW a \in [Part(p) -> Nat],
         Over(p, w, k, a, s, c), Inside(p, w), w.phase # "primary",
         NEW u \in {w, [w EXCEPT !.ok = FALSE]},
         u.ok /\ ~c => w.chunk \subseteq s
  PROVE  Continue(u) \in WorkState(p) /\ Fits(p, Continue(u), k, a, s, c)
<1>1. /\ u \in WorkState(p) /\ u.phase = w.phase /\ u.queue = w.queue /\ u.left = w.left
      /\ u.refused = w.refused /\ u.ids = w.ids /\ (u.ok => w.ok)
  BY DEF WorkState
<1>2. ToCome(p, w) = w.refused \cup Parts(w.queue)
  BY Kinds DEF Over, Inside
<1>3. p \notin Comment /\ u.phase \in {"split", "single"} /\ u.left = {} /\ Apart(u.queue)
  BY <1>1 DEF Inside
<1>4. /\ Parts(u.queue) \cup u.refused \subseteq u.ids
      /\ Parts(u.queue) \cap u.refused = {} /\ (u.phase = "single" => u.refused = {})
  BY <1>1 DEF Inside
<1>5. /\ Bounded(p, k, a) /\ \A i \in Parts(u.queue) \cup u.refused : k[i] = 0
      /\ \A i \in Parts(u.queue) : a[i] <= Earlier(u.phase)
      /\ \A i \in u.refused : a[i] <= 2 * (MaxAttempts - 1)
  BY <1>1, <1>2 DEF Over, Inside
<1>6. u.ok /\ ~c => u.ids \subseteq s \cup Parts(u.queue) \cup u.refused
  BY <1>1, <1>2 DEF Over
<1>. QED
  BY <1>1, <1>3, <1>4, <1>5, <1>6, ContinueFits

LEMMA DeliveredFits ==
  ASSUME NEW p \in Reply, NEW w \in WorkState(p), NEW s, NEW c,
         NEW k \in [Part(p) -> Nat], NEW a \in [Part(p) -> Nat],
         Over(p, w, k, a, s, c),
         w.phase # "text" /\ w.ok /\ ~c => w.chunk \subseteq s
  PROVE  Delivered(w) \in WorkState(p) /\ Fits(p, Delivered(w), k, a, s, c)
<1>1. Outside(p, w) \/ Inside(p, w)
  BY Kinds DEF Over
<1>2. CASE Outside(p, w)
  <2>1. Delivered(w) = NextUpload(w)
    BY <1>2 DEF Delivered, Outside
  <2>2. NextUpload(w) \in WorkState(p) /\ Fits(p, NextUpload(w), k, a, s, c)
    <3>1. (w.phase # "text" /\ w.ok /\ ~c => w.chunk \subseteq s) =>
               /\ NextUpload(w) \in WorkState(p)
               /\ Fits(p, NextUpload(w), k, a, s, c)
      BY <1>2, OutsideOver
    <3>. QED
      BY <3>1
  <2>. QED
    BY <2>1, <2>2
<1>3. CASE Inside(p, w) /\ w.phase = "primary"
  <2>1. Delivered(w) = Stop(w)
    BY <1>3 DEF Delivered
  <2>2. p \notin Comment /\ (w.ok /\ ~c => w.ids \subseteq s) /\ Bounded(p, k, a)
    BY <1>3 DEF Inside, Over
  <2>. QED
    BY <2>1, <2>2, StopFits
<1>4. CASE Inside(p, w) /\ w.phase # "primary"
  <2>1. Delivered(w) = Continue(w) /\ w.phase # "text"
    BY <1>4 DEF Delivered, Inside
  <2>2. w \in {w, [w EXCEPT !.ok = FALSE]} /\ (w.ok /\ ~c => w.chunk \subseteq s)
    BY <2>1
  <2>3. Continue(w) \in WorkState(p) /\ Fits(p, Continue(w), k, a, s, c)
    BY <1>4, <2>2, InsideOver
  <2>. QED
    BY <2>1, <2>3
<1>. QED
  BY <1>1, <1>2, <1>3, <1>4

LEMMA UnverifiedFits ==
  ASSUME NEW p \in Reply, NEW w \in WorkState(p), NEW s, NEW c,
         NEW k \in [Part(p) -> Nat], NEW a \in [Part(p) -> Nat],
         Over(p, w, k, a, s, c), w.phase # "text"
  PROVE  Unverified(w) \in WorkState(p) /\ Fits(p, Unverified(w), k, a, s, c)
<1>1. (Outside(p, w) \/ Inside(p, w)) /\ Bounded(p, k, a)
  BY Kinds DEF Over
<1>2. CASE Outside(p, w)
  <2>1. Unverified(w) = NextUpload([w EXCEPT !.ok = FALSE])
    BY <1>2 DEF Unverified, Outside
  <2>. QED
    BY <1>2, <2>1, OutsideOver
<1>3. CASE Inside(p, w) /\ w.phase = "primary"
  <2>1. Unverified(w) = StopFailed(w)
    BY <1>3 DEF Unverified
  <2>. QED
    BY <1>1, <2>1, StopFits
<1>4. CASE Inside(p, w) /\ w.phase # "primary"
  <2>. PICK u : u = [w EXCEPT !.ok = FALSE]
    OBVIOUS
  <2>1. Unverified(w) = Continue(u) /\ ~u.ok
    BY <1>4 DEF Unverified, Inside, WorkState
  <2>. QED
    BY <1>4, <2>1, InsideOver
<1>. QED
  BY <1>1, <1>2, <1>3, <1>4

\* Of a refused chunk nothing was shown that is known of, and all but its last
\* attempt may have been acknowledged.
LEMMA RefusedFits ==
  ASSUME NEW p \in Reply, NEW w \in WorkState(p), NEW s, NEW c,
         NEW k \in [Part(p) -> Nat], NEW a \in [Part(p) -> Nat],
         Over(p, w, k, a, s, c), \A i \in w.chunk : k[i] = 0,
         \A i \in w.chunk : a[i] <= Earlier(w.phase) + w.attempt - 1
  PROVE  Refused(w) \in WorkState(p) /\ Fits(p, Refused(w), k, a, s, c)
<1>1. (Outside(p, w) \/ Inside(p, w)) /\ Bounded(p, k, a)
  BY Kinds DEF Over
<1>2. \A i \in w.chunk : a[i] <= Earlier(w.phase) + (MaxAttempts - 1)
  <2>1. w.attempt \in 1..MaxAttempts /\ w.chunk \subseteq Part(p)
    BY DEF WorkState
  <2>2. \A i \in w.chunk : a[i] \in Nat
    BY <2>1
  <2>. QED
    BY <2>1, <2>2, Numbers
<1>3. CASE Outside(p, w) /\ w.phase = "text"
  <2>1. Refused(w) = StopFailed(w)
    BY <1>3 DEF Refused
  <2>. QED
    BY <1>1, <2>1, StopFits
<1>4. CASE Outside(p, w) /\ w.phase # "text"
  <2>1. Refused(w) = NextUpload([w EXCEPT !.ok = FALSE])
    BY <1>4 DEF Refused, Outside
  <2>. QED
    BY <1>4, <2>1, OutsideOver
<1>5. CASE Inside(p, w) /\ w.phase = "primary"
  <2>. PICK q : q = Split(w.chunk)
    OBVIOUS
  <2>. PICK v : v = Refused(w)
    OBVIOUS
  <2>1. v = Deliver(w, Head(q), Tail(q), "split")
    BY <1>5 DEF Refused
  <2>2. w.chunk = w.ids /\ w.ids \subseteq Image(p) /\ w.refused = {} /\ w.left = {}
    BY <1>5 DEF Inside, WorkState
  <2>3. q \in Seq(SUBSET w.chunk) /\ q # <<>> /\ Apart(q) /\ Parts(q) = w.chunk
    BY SplitShape
  <2>4. q \in Seq(SUBSET Image(p))
    BY <2>2, <2>3
  <2>5. \A i \in Parts(q) : a[i] <= Earlier("split")
    BY <1>2, <1>5, <2>3, Numbers
  <2>6. p \notin Comment /\ "split" \in {"split", "single"} /\ ("split" = "single" => w.refused = {})
    BY <1>5 DEF Inside
  <2>7. /\ Parts(q) \cup w.refused \subseteq w.ids /\ Parts(q) \cap w.refused = {}
        /\ \A i \in Parts(q) \cup w.refused : k[i] = 0
        /\ \A i \in w.refused : a[i] <= 2 * (MaxAttempts - 1)
        /\ w.ok /\ ~c => w.ids \subseteq s \cup Parts(q) \cup w.refused
    BY <2>2, <2>3
  <2>. QED
    BY <1>1, <2>1, <2>2, <2>3, <2>4, <2>5, <2>6, <2>7, DeliverFits
<1>6. CASE Inside(p, w) /\ w.phase = "split" /\ Cardinality(w.chunk) > 1
  <2>. PICK u : u = [w EXCEPT !.refused = @ \cup w.chunk]
    OBVIOUS
  <2>1. Refused(w) = Continue(u)
    BY <1>6 DEF Refused
  <2>2. w.chunk \subseteq w.ids /\ w.ids \subseteq Image(p)
    BY <1>6 DEF Inside, WorkState
  <2>3. /\ u \in WorkState(p) /\ u.phase = "split" /\ u.queue = w.queue
        /\ u.left = w.left /\ u.refused = w.refused \cup w.chunk
        /\ u.ids = w.ids /\ u.ok = w.ok
    BY <1>6, <2>2 DEF WorkState
  <2>4. ToCome(p, w) = w.refused \cup Parts(w.queue)
    BY <1>6, Kinds DEF Over, Inside
  <2>5. p \notin Comment /\ u.phase \in {"split", "single"} /\ u.left = {} /\ Apart(u.queue)
    BY <1>6, <2>3 DEF Inside
  <2>6. /\ Parts(u.queue) \cup u.refused \subseteq u.ids
        /\ Parts(u.queue) \cap u.refused = {} /\ (u.phase = "single" => u.refused = {})
    BY <1>6, <2>3 DEF Inside
  <2>7. \A i \in u.refused : a[i] <= 2 * (MaxAttempts - 1)
    <3>1. \A i \in w.chunk : a[i] <= 2 * (MaxAttempts - 1)
      BY <1>2, <1>6, Numbers
    <3>. QED
      BY <2>3, <3>1 DEF Over
  <2>8. /\ \A i \in Parts(u.queue) \cup u.refused : k[i] = 0
        /\ \A i \in Parts(u.queue) : a[i] <= Earlier(u.phase)
    BY <1>6, <2>3, <2>4 DEF Over, Inside
  <2>9. u.ok /\ ~c => u.ids \subseteq s \cup Parts(u.queue) \cup u.refused
    BY <2>3, <2>4 DEF Over
  <2>10. Continue(u) \in WorkState(p) /\ Fits(p, Continue(u), k, a, s, c)
    BY <1>1, <2>3, <2>5, <2>6, <2>7, <2>8, <2>9, ContinueFits
  <2>. QED
    BY <2>1, <2>10
<1>7. CASE Inside(p, w) /\ w.phase # "primary" /\ ~(w.phase = "split" /\ Cardinality(w.chunk) > 1)
  <2>. PICK u : u = [w EXCEPT !.ok = FALSE]
    OBVIOUS
  <2>1. Refused(w) = Continue(u) /\ ~u.ok
    BY <1>7 DEF Refused, Inside, WorkState
  <2>. QED
    BY <1>7, <2>1, InsideOver
<1>. QED
  BY <1>1, <1>3, <1>4, <1>5, <1>6, <1>7

(***************************************************************************)
(* The actions.                                                            *)
(***************************************************************************)

\* The counts of the other replies stay.
CountsKept(p) ==
    /\ DOMAIN known' = Reply /\ DOMAIN accepted' = Reply /\ DOMAIN shown' = Reply
    /\ known'[p] \in [Part(p) -> Nat] /\ accepted'[p] \in [Part(p) -> Nat]
    /\ shown'[p] \subseteq Part(p)
    /\ \A q \in Reply \ {p} : /\ known'[q] = known[q] /\ accepted'[q] = accepted[q]
                              /\ shown'[q] = shown[q]

\* A step of p keeps the invariant if p fits afterwards.
LEMMA Whole ==
  ASSUME IInv, NEW p \in Reply, NEW w \in WorkState(p),
         work' = [work EXCEPT ![p] = w], CountsKept(p), confused' = confused,
         late' \in Nat, heard' \in [Reply -> BOOLEAN], due' \in [Reply -> Nat],
         \A q \in Reply \ {p} : heard'[q] = heard[q] /\ due'[q] = due[q],
         Fits(p, w, known'[p], accepted'[p], shown'[p], confused[p]),
         heard'[p] => Open(p)', Heard(p)'
  PROVE  IInv'
<1>1. /\ DOMAIN work' = Reply /\ work'[p] = w
      /\ \A q \in Reply \ {p} : work'[q] = work[q]
  BY DEF IInv, TypeOK
<1>2. \A q \in Reply \ {p} : (Open(q)' <=> Open(q)) /\ (Heard(q)' <=> Heard(q))
  BY <1>1 DEF Open, Heard, CountsKept
<1>3. TypeOK'
  <2>1. \A q \in Reply : work'[q] \in WorkState(q)
    BY <1>1 DEF IInv, TypeOK
  <2>2. \A q \in Reply : heard'[q] => Open(q)'
    BY <1>2 DEF IInv, TypeOK
  <2>3. \A q \in Reply :
          /\ shown'[q] \subseteq Part(q)
          /\ known'[q] \in [Part(q) -> Nat] /\ accepted'[q] \in [Part(q) -> Nat]
    BY DEF CountsKept, IInv, TypeOK
  <2>4. confused' \in [Reply -> BOOLEAN]
    BY DEF IInv, TypeOK
  <2>. QED
    BY <1>1, <2>1, <2>2, <2>3, <2>4 DEF TypeOK, CountsKept
<1>4. ASSUME NEW q \in Reply
      PROVE  /\ Fits(q, work'[q], known'[q], accepted'[q], shown'[q], confused'[q])
             /\ Heard(q)'
  <2>1. CASE q = p
    BY <1>1, <2>1
  <2>2. CASE q # p
    BY <1>1, <1>2, <2>2 DEF IInv, CountsKept
  <2>. QED
    BY <2>1, <2>2
<1>. QED
  BY <1>3, <1>4 DEF IInv

LEMMA GoOnKeeps ==
  ASSUME IInv, NEW p \in Reply, NEW w \in WorkState(p), GoOn(p, w), CountsKept(p),
         shown' = shown, confused' = confused,
         Fits(p, w, known'[p], accepted'[p], shown[p], confused[p])
  PROVE  IInv'
<1>1. late' \in Nat
  BY EchoAssumption DEF GoOn, IInv, TypeOK
<1>2. /\ heard' \in [Reply -> BOOLEAN] /\ due' \in [Reply -> Nat]
      /\ heard'[p] = FALSE /\ due'[p] = 0
      /\ \A q \in Reply \ {p} : heard'[q] = heard[q] /\ due'[q] = due[q]
  BY DEF GoOn, IInv, TypeOK
<1>3. Heard(p)'
  BY <1>2 DEF Heard
<1>4. work' = [work EXCEPT ![p] = w]
  BY DEF GoOn
<1>. QED
  BY <1>1, <1>2, <1>3, <1>4, Whole

LEMMA CountedShape ==
  ASSUME NEW f, DOMAIN f = Reply, NEW p \in Reply, NEW n,
         f[p] \in [Part(p) -> Nat]
  PROVE  LET g == Counted(f, p, n)
         IN /\ DOMAIN g = Reply /\ \A q \in Reply \ {p} : g[q] = f[q]
            /\ DOMAIN g[p] = Part(p) /\ g[p] = [i \in Part(p) |-> g[p][i]]
            /\ \A i \in Part(p) :
                 g[p][i] = IF i \in work[p].chunk THEN f[p][i] + n ELSE f[p][i]
BY DEF Counted

\* The chunk being sent and what is to come have no part in common.
LEMMA ChunkApart ==
  ASSUME NEW p \in Reply, NEW w \in WorkState(p), Active(w), Stage(p, w)
  PROVE  w.chunk \cap ToCome(p, w) = {} /\ w.chunk \cap w.refused = {}
<1>1. w.ids \subseteq Image(p) /\ w.left \subseteq Image(p) /\ Text \notin Image(p)
  BY PartShape DEF WorkState
<1>2. (Outside(p, w) \/ Inside(p, w)) /\ ToCome(p, w) = w.left \cup w.refused \cup Parts(w.queue)
  BY Kinds
<1>3. CASE Outside(p, w)
  BY <1>1, <1>2, <1>3, NoParts DEF Outside
<1>4. CASE Inside(p, w)
  BY <1>2, <1>4 DEF Inside
<1>. QED
  BY <1>2, <1>3, <1>4

\* When a chunk is over its own counts may have changed, the others have not.
LEMMA NowOver ==
  ASSUME IInv, NEW p \in Reply, Active(work[p]), NEW k, NEW a, Bounded(p, k, a),
         \A i \in Part(p) \ work[p].chunk : k[i] = known[p][i] /\ a[i] = accepted[p][i]
  PROVE  Over(p, work[p], k, a, shown[p], confused[p])
<1>. PICK w : w = work[p]
  OBVIOUS
<1>1. /\ w \in WorkState(p) /\ Active(w) /\ w.pc # "done"
      /\ Fits(p, w, known[p], accepted[p], shown[p], confused[p])
  BY DEF IInv, TypeOK, Active
<1>2. w.chunk \cap ToCome(p, w) = {} /\ w.chunk \cap w.refused = {}
  BY <1>1, ChunkApart DEF Fits
<1>3. ToCome(p, w) \subseteq Part(p) /\ w.refused \subseteq ToCome(p, w)
  <2>1. /\ w.left \cup w.refused \cup w.ids \subseteq Image(p)
        /\ w.queue \in Seq(SUBSET Image(p))
    BY <1>1 DEF WorkState
  <2>2. \A j \in DOMAIN w.queue : w.queue[j] \subseteq Image(p)
    BY <2>1
  <2>. QED
    BY <2>1, <2>2, PartShape DEF ToCome, Parts
<1>4. \A i \in ToCome(p, w) : k[i] = known[p][i] /\ a[i] = accepted[p][i]
  BY <1>2, <1>3
<1>5. \A i \in ToCome(p, w) : k[i] = 0
  BY <1>1, <1>4 DEF Fits, Once
<1>6. /\ \A i \in ToCome(p, w) \ w.refused : a[i] <= Earlier(w.phase)
      /\ \A i \in w.refused : a[i] <= 2 * (MaxAttempts - 1)
  BY <1>1, <1>3, <1>4 DEF Fits, Acknowledged
<1>7. w.ok /\ ~confused[p] =>
         /\ w.ids \subseteq shown[p] \cup w.chunk \cup ToCome(p, w)
         /\ p \in Comment => w.ids \cup w.left = Image(p)
  BY <1>1 DEF Fits, Seen
<1>. QED
  BY <1>1, <1>5, <1>6, <1>7 DEF Over, Fits

LEMMA UnlearnedShape ==
  ASSUME IInv, NEW p \in Reply, Active(work[p])
  PROVE  LET u == Unlearned(p)
         IN /\ DOMAIN u = Reply /\ \A q \in Reply \ {p} : u[q] = known[q]
            /\ u[p] \in [Part(p) -> Nat]
            /\ \A i \in Part(p) : u[p][i] <= 1
            /\ \A i \in work[p].chunk : u[p][i] = 0
            /\ \A i \in Part(p) \ work[p].chunk : u[p][i] = known[p][i]
<1>1. /\ known[p] \in [Part(p) -> Nat] /\ DOMAIN known = Reply
      /\ work[p].chunk \subseteq Part(p)
      /\ \A i \in Part(p) : known[p][i] <= 1
      /\ \A i \in work[p].chunk : known[p][i] = IF work[p].reached THEN 1 ELSE 0
  BY DEF IInv, TypeOK, WorkState, Fits, Once
<1>2. CASE work[p].reached
  <2>. PICK u : u = Counted(known, p, -1)
    OBVIOUS
  <2>1. /\ DOMAIN u = Reply /\ \A q \in Reply \ {p} : u[q] = known[q]
        /\ u[p] = [i \in Part(p) |-> u[p][i]]
        /\ \A i \in Part(p) :
             u[p][i] = IF i \in work[p].chunk THEN known[p][i] + (-1) ELSE known[p][i]
    BY <1>1, CountedShape
  <2>2. \A i \in Part(p) : u[p][i] \in Nat /\ u[p][i] <= 1
    BY <1>1, <1>2, <2>1
  <2>3. \A i \in work[p].chunk : u[p][i] = 0
    BY <1>1, <1>2, <2>1
  <2>. QED
    BY <1>2, <2>1, <2>2, <2>3 DEF Unlearned
<1>3. CASE ~work[p].reached
  BY <1>1, <1>3 DEF Unlearned
<1>. QED
  BY <1>2, <1>3

\* The acknowledgment of a request.
LEMMA AcceptedShape ==
  ASSUME IInv, NEW p \in Reply, work[p].pc = "posting"
  PROVE  LET a == Counted(accepted, p, 1)
         IN /\ DOMAIN a = Reply /\ \A q \in Reply \ {p} : a[q] = accepted[q]
            /\ a[p] \in [Part(p) -> Nat] /\ Bounded(p, known[p], a[p])
            /\ \A i \in Part(p) \ work[p].chunk : a[p][i] = accepted[p][i]
            /\ \A i \in work[p].chunk :
                 a[p][i] <= Earlier(work[p].phase) + work[p].attempt
<1>. PICK w : w = work[p]
  OBVIOUS
<1>. PICK a : a = Counted(accepted, p, 1)
  OBVIOUS
<1>1. /\ accepted[p] \in [Part(p) -> Nat] /\ DOMAIN accepted = Reply
      /\ w \in WorkState(p) /\ w.chunk \subseteq Part(p) /\ w.attempt \in 1..MaxAttempts
      /\ Active(w) /\ w.pc = "posting"
      /\ Fits(p, w, known[p], accepted[p], shown[p], confused[p])
  BY DEF IInv, TypeOK, WorkState, Active
<1>2. /\ DOMAIN a = Reply /\ \A q \in Reply \ {p} : a[q] = accepted[q]
      /\ a[p] = [i \in Part(p) |-> a[p][i]]
      /\ \A i \in Part(p) :
           a[p][i] = IF i \in w.chunk THEN accepted[p][i] + 1 ELSE accepted[p][i]
  BY <1>1, CountedShape
<1>3. a[p] \in [Part(p) -> Nat]
  BY <1>1, <1>2
<1>4. \A i \in w.chunk : a[p][i] <= Earlier(w.phase) + w.attempt
  <2>1. \A i \in w.chunk : accepted[p][i] <= Earlier(w.phase) + w.attempt - 1
    BY <1>1 DEF Fits, Acknowledged
  <2>2. Earlier(w.phase) \in Nat /\ \A i \in w.chunk : accepted[p][i] \in Nat
    BY <1>1, Numbers
  <2>. QED
    BY <1>1, <1>2, <2>1, <2>2
<1>5. \A i \in w.chunk :
        a[p][i] <= IF i = Text \/ p \in Comment THEN 1 ELSE 3 * MaxAttempts - 2
  <2>1. CASE Outside(p, w)
    <3>1. w.attempt = 1
      BY <1>1, <2>1 DEF Fits, Stage, Outside, Active
    <3>2. Earlier(w.phase) = 0 /\ \A i \in w.chunk : i = Text \/ p \in Comment
      BY <2>1, Numbers DEF Outside
    <3>. QED
      BY <1>4, <3>1, <3>2
  <2>2. CASE Inside(p, w)
    <3>1. \A i \in w.chunk : i # Text /\ p \notin Comment
      BY <1>1, <2>2, PartShape DEF Inside, WorkState
    <3>2. Earlier(w.phase) + w.attempt <= 3 * MaxAttempts - 2
      BY <1>1, <2>2, Numbers DEF Inside
    <3>3. \A i \in w.chunk : a[p][i] <= 3 * MaxAttempts - 2
      <4>1. Earlier(w.phase) \in Nat /\ \A i \in w.chunk : a[p][i] \in Nat
        BY <1>1, <1>3, Numbers
      <4>. QED
        BY <1>1, <1>4, <3>2, <4>1, Numbers
    <3>. QED
      BY <3>1, <3>3
  <2>. QED
    BY <1>1, <2>1, <2>2, Kinds DEF Fits
<1>6. Bounded(p, known[p], a[p])
  BY <1>1, <1>2, <1>5 DEF Bounded, Fits, Once, Acknowledged
<1>. QED
  BY <1>1, <1>2, <1>3, <1>4, <1>6

LEMMA AppearsKeeps ==
  ASSUME IInv, NEW p \in Reply, Appears(p)
  PROVE  IInv'
<1>1. work[p].pc = "posting" /\ ~work[p].reached
  BY DEF Appears
<1>. PICK o : o = work[p]
  OBVIOUS
<1>. PICK w : w = [o EXCEPT !.reached = TRUE]
  OBVIOUS
<1>2. /\ o \in WorkState(p) /\ o.pc = "posting" /\ Active(o) /\ o.chunk \subseteq Part(p)
      /\ Fits(p, o, known[p], accepted[p], shown[p], confused[p])
      /\ known[p] \in [Part(p) -> Nat] /\ shown[p] \subseteq Part(p)
      /\ DOMAIN known = Reply /\ DOMAIN shown = Reply
  BY <1>1 DEF IInv, TypeOK, WorkState, Active
<1>3. /\ w \in WorkState(p) /\ w.pc = o.pc /\ w.phase = o.phase /\ w.chunk = o.chunk
      /\ w.queue = o.queue /\ w.attempt = o.attempt /\ w.ids = o.ids /\ w.left = o.left
      /\ w.refused = o.refused /\ w.ok = o.ok /\ w.reached
  BY <1>2 DEF WorkState
<1>4. work' = [work EXCEPT ![p] = w]
  BY <1>3 DEF Appears
<1>5. /\ shown'[p] = shown[p] \cup o.chunk /\ DOMAIN shown' = Reply
      /\ \A q \in Reply \ {p} : shown'[q] = shown[q]
  BY <1>2 DEF Appears
<1>. PICK k : k = known'
  OBVIOUS
<1>6. /\ DOMAIN k = Reply /\ \A q \in Reply \ {p} : k[q] = known[q]
      /\ k[p] = [i \in Part(p) |-> k[p][i]]
      /\ \A i \in Part(p) : k[p][i] = IF i \in o.chunk THEN known[p][i] + 1 ELSE known[p][i]
  BY <1>2, CountedShape DEF Appears
<1>7. /\ k[p] \in [Part(p) -> Nat]
      /\ \A i \in Part(p) : k[p][i] <= 1
      /\ \A i \in o.chunk : k[p][i] = 1
  <2>1. \A i \in o.chunk : known[p][i] = 0
    BY <1>1, <1>2 DEF Fits, Once
  <2>2. \A i \in Part(p) : known[p][i] <= 1
    BY <1>2 DEF Fits, Once
  <2>. QED
    BY <1>2, <1>6, <2>1, <2>2
<1>8. ToCome(p, w) = ToCome(p, o) /\ ToCome(p, o) \subseteq Part(p)
      /\ o.chunk \cap ToCome(p, o) = {}
  <2>1. /\ o.left \cup o.refused \cup o.ids \subseteq Image(p)
        /\ \A j \in DOMAIN o.queue : o.queue[j] \subseteq Image(p)
    BY <1>2 DEF WorkState
  <2>2. ToCome(p, o) \subseteq Part(p)
    BY <2>1, PartShape DEF ToCome, Parts
  <2>. QED
    BY <1>2, <1>3, <2>2, ChunkApart DEF ToCome, Fits
<1>9. Fits(p, w, k[p], accepted[p], shown'[p], confused[p])
  <2>1. Stage(p, w)
    BY <1>2, <1>3 DEF Fits, Stage, Active
  <2>2. Once(p, w, k[p])
    <3>1. \A i \in ToCome(p, w) : k[p][i] = 0
      BY <1>2, <1>6, <1>8 DEF Fits, Once, Active
    <3>. QED
      BY <1>3, <1>7, <3>1 DEF Once
  <2>3. Acknowledged(p, w, accepted[p])
    BY <1>2, <1>3, <1>8 DEF Fits, Acknowledged, Active
  <2>4. Seen(p, w, shown'[p], accepted[p], confused[p])
    BY <1>2, <1>3, <1>5, <1>8 DEF Fits, Seen
  <2>. QED
    BY <2>1, <2>2, <2>3, <2>4 DEF Fits
<1>10. CountsKept(p)
  <2>1. accepted' = accepted /\ DOMAIN accepted = Reply /\ accepted[p] \in [Part(p) -> Nat]
    BY DEF Appears, IInv, TypeOK
  <2>. QED
    BY <1>2, <1>5, <1>6, <1>7, <2>1 DEF CountsKept
<1>11. /\ due' \in [Reply -> Nat] /\ \A q \in Reply \ {p} : due'[q] = due[q]
       /\ due'[p] > 0 => o.phase # "text"
  BY <1>1, <1>2 DEF Appears, IInv, TypeOK, Heard, Open
<1>12. /\ work'[p] = w /\ heard' = heard /\ late' = late /\ confused' = confused
       /\ accepted' = accepted
  BY <1>4 DEF Appears, IInv, TypeOK
<1>13. Heard(p)' /\ (heard'[p] => Open(p)')
  <2>1. o.chunk \subseteq shown'[p]
    BY <1>5
  <2>2. heard[p] => o.phase # "text"
    BY DEF IInv, TypeOK, Open
  <2>3. (Open(p)' <=> o.phase # "text") /\ work'[p].chunk = o.chunk
    BY <1>2, <1>3, <1>12 DEF Open
  <2>. QED
    BY <1>11, <1>12, <2>1, <2>2, <2>3 DEF Heard
<1>14. late \in Nat /\ heard \in [Reply -> BOOLEAN]
  BY DEF IInv, TypeOK
<1>. QED
  BY <1>3, <1>4, <1>9, <1>10, <1>11, <1>12, <1>13, <1>14, Whole

LEMMA TextAcknowledgedKeeps ==
  ASSUME IInv, NEW p \in Reply, TextAcknowledged(p)
  PROVE  IInv'
<1>1. /\ work[p].pc = "posting" /\ work[p].phase = "text" /\ Active(work[p])
      /\ work[p] \in WorkState(p) /\ known[p] \in [Part(p) -> Nat] /\ shown[p] \subseteq Part(p)
      /\ DOMAIN known = Reply /\ DOMAIN shown = Reply
  BY DEF TextAcknowledged, Active, IInv, TypeOK
<1>2. /\ accepted' = Counted(accepted, p, 1) /\ GoOn(p, Delivered(work[p]))
      /\ confused' = confused /\ shown' = shown /\ known' = known
  BY DEF TextAcknowledged
<1>. PICK a : a = accepted'
  OBVIOUS
<1>3. /\ DOMAIN a = Reply /\ \A q \in Reply \ {p} : a[q] = accepted[q]
      /\ a[p] \in [Part(p) -> Nat] /\ Bounded(p, known[p], a[p])
      /\ \A i \in Part(p) \ work[p].chunk : a[p][i] = accepted[p][i]
  BY <1>1, <1>2, AcceptedShape
<1>4. Over(p, work[p], known[p], a[p], shown[p], confused[p])
  BY <1>1, <1>3, NowOver
<1>5. /\ Delivered(work[p]) \in WorkState(p)
      /\ Fits(p, Delivered(work[p]), known[p], a[p], shown[p], confused[p])
  <2>1. work[p].phase # "text" /\ work[p].ok /\ ~confused[p] => work[p].chunk \subseteq shown[p]
    BY <1>1
  <2>. QED
    BY <1>1, <1>3, <1>4, <2>1, DeliveredFits
<1>6. CountsKept(p)
  BY <1>1, <1>2, <1>3 DEF CountsKept
<1>. QED
  BY <1>2, <1>5, <1>6, GoOnKeeps

LEMMA ImagesAcknowledgedKeeps ==
  ASSUME IInv, NEW p \in Reply, ImagesAcknowledged(p)
  PROVE  IInv'
<1>. PICK o : o = work[p]
  OBVIOUS
<1>1. /\ o.pc = "posting" /\ o.phase # "text" /\ Active(o)
      /\ o \in WorkState(p) /\ known[p] \in [Part(p) -> Nat] /\ shown[p] \subseteq Part(p)
      /\ DOMAIN known = Reply /\ DOMAIN shown = Reply
      /\ Fits(p, o, known[p], accepted[p], shown[p], confused[p]) /\ Heard(p)
  BY DEF ImagesAcknowledged, Active, IInv, TypeOK
<1>2. /\ accepted' = Counted(accepted, p, 1)
      /\ confused' = confused /\ shown' = shown /\ known' = known
  BY DEF ImagesAcknowledged
<1>. PICK a : a = accepted'
  OBVIOUS
<1>3. /\ DOMAIN a = Reply /\ \A q \in Reply \ {p} : a[q] = accepted[q]
      /\ a[p] \in [Part(p) -> Nat] /\ Bounded(p, known[p], a[p])
      /\ \A i \in Part(p) \ o.chunk : a[p][i] = accepted[p][i]
      /\ \A i \in o.chunk : a[p][i] <= Earlier(o.phase) + o.attempt
  BY <1>1, <1>2, AcceptedShape
<1>4. Over(p, o, known[p], a[p], shown[p], confused[p])
  BY <1>1, <1>3, NowOver
<1>5. CountsKept(p)
  BY <1>1, <1>2, <1>3 DEF CountsKept
<1>6. CASE heard[p]
  <2>1. GoOn(p, Delivered(o))
    BY <1>6 DEF ImagesAcknowledged
  <2>2. Delivered(o) \in WorkState(p) /\ Fits(p, Delivered(o), known[p], a[p], shown[p], confused[p])
    <3>1. o.phase # "text" /\ o.ok /\ ~confused[p] => o.chunk \subseteq shown[p]
      BY <1>1, <1>6 DEF Heard
    <3>. QED
      BY <1>1, <1>3, <1>4, <3>1, DeliveredFits
  <2>. QED
    BY <1>2, <1>5, <2>1, <2>2, GoOnKeeps
<1>7. CASE ~heard[p]
  <2>. PICK w : w = [o EXCEPT !.pc = "waiting"]
    OBVIOUS
  <2>1. /\ w \in WorkState(p) /\ w.pc = "waiting" /\ w.phase = o.phase /\ w.chunk = o.chunk
        /\ w.queue = o.queue /\ w.attempt = o.attempt /\ w.ids = o.ids /\ w.left = o.left
        /\ w.refused = o.refused /\ w.ok = o.ok /\ w.reached = o.reached
    BY <1>1 DEF WorkState, PC
  <2>2. /\ work' = [work EXCEPT ![p] = w] /\ heard' = heard /\ due' = due /\ late' = late
        /\ work'[p] = w
    BY <1>7 DEF ImagesAcknowledged, IInv, TypeOK
  <2>3. ToCome(p, w) = ToCome(p, o)
    BY <1>1, <2>1 DEF ToCome
  <2>4. Fits(p, w, known[p], a[p], shown[p], confused[p])
    <3>1. Stage(p, w)
      BY <1>1, <2>1 DEF Fits, Stage, Active
    <3>2. Once(p, w, known[p])
      BY <1>1, <2>1, <2>3 DEF Fits, Once, Active
    <3>3. Acknowledged(p, w, a[p])
      <4>1. \A i \in w.chunk : a[p][i] <= Earlier(w.phase) + w.attempt - 0
        BY <1>1, <1>3, <2>1, Numbers DEF WorkState
      <4>. QED
        BY <1>3, <1>4, <2>1, <2>3, <4>1 DEF Acknowledged, Over, Bounded
    <3>4. Seen(p, w, shown[p], a[p], confused[p])
      BY <1>4, <2>1, <2>3 DEF Seen, Over
    <3>. QED
      BY <3>1, <3>2, <3>3, <3>4 DEF Fits
  <2>5. Open(p)' /\ Heard(p)'
    BY <1>1, <1>2, <2>1, <2>2 DEF Open, Heard
  <2>6. late \in Nat /\ heard \in [Reply -> BOOLEAN] /\ due \in [Reply -> Nat]
    BY DEF IInv, TypeOK
  <2>. QED
    BY <1>2, <1>5, <2>1, <2>2, <2>4, <2>5, <2>6, Whole
<1>. QED
  BY <1>6, <1>7

LEMMA RetryRequestKeeps ==
  ASSUME IInv, NEW p \in Reply, RetryRequest(p)
  PROVE  IInv'
<1>. PICK o : o = work[p]
  OBVIOUS
<1>. PICK w : w = [o EXCEPT !.try = @ + 1, !.reached = FALSE]
  OBVIOUS
<1>. PICK u : u = Unlearned(p)
  OBVIOUS
<1>1. /\ o.pc = "posting" /\ o.try < Tries /\ Active(o) /\ o \in WorkState(p)
      /\ Fits(p, o, known[p], accepted[p], shown[p], confused[p]) /\ Heard(p)
      /\ late \in Nat /\ heard \in [Reply -> BOOLEAN] /\ due \in [Reply -> Nat]
  BY DEF RetryRequest, Active, IInv, TypeOK
<1>2. o.try + 1 \in 1..Tries
  BY <1>1, BoundAssumption DEF WorkState
<1>3. /\ w \in WorkState(p) /\ w.pc = o.pc /\ w.phase = o.phase /\ w.chunk = o.chunk
      /\ w.queue = o.queue /\ w.attempt = o.attempt /\ w.ids = o.ids /\ w.left = o.left
      /\ w.refused = o.refused /\ w.ok = o.ok /\ ~w.reached
  BY <1>1, <1>2 DEF WorkState
<1>4. /\ work' = [work EXCEPT ![p] = w] /\ work'[p] = w /\ known' = u /\ heard' = heard
      /\ due' = due /\ late' = late /\ confused' = confused /\ shown' = shown
      /\ accepted' = accepted
  BY DEF RetryRequest, IInv, TypeOK
<1>5. /\ DOMAIN u = Reply /\ \A q \in Reply \ {p} : u[q] = known[q]
      /\ u[p] \in [Part(p) -> Nat] /\ \A i \in Part(p) : u[p][i] <= 1
      /\ \A i \in o.chunk : u[p][i] = 0
      /\ \A i \in Part(p) \ o.chunk : u[p][i] = known[p][i]
  BY <1>1, UnlearnedShape
<1>6. Over(p, o, u[p], accepted[p], shown[p], confused[p])
  <2>1. Bounded(p, u[p], accepted[p])
    BY <1>1, <1>5 DEF Bounded, Fits, Acknowledged
  <2>. QED
    BY <1>1, <1>5, <2>1, NowOver
<1>7. ToCome(p, w) = ToCome(p, o)
  BY <1>3 DEF ToCome
<1>8. Fits(p, w, u[p], accepted[p], shown[p], confused[p])
  <2>1. Stage(p, w)
    BY <1>1, <1>3 DEF Fits, Stage, Active
  <2>2. Once(p, w, u[p])
    BY <1>3, <1>5, <1>6, <1>7 DEF Once, Over
  <2>3. Acknowledged(p, w, accepted[p])
    BY <1>1, <1>3, <1>7 DEF Fits, Acknowledged, Active
  <2>4. Seen(p, w, shown[p], accepted[p], confused[p])
    BY <1>1, <1>3, <1>7 DEF Fits, Seen
  <2>. QED
    BY <2>1, <2>2, <2>3, <2>4 DEF Fits
<1>9. Heard(p)' /\ (heard'[p] => Open(p)')
  <2>1. heard[p] => Open(p)
    BY DEF IInv, TypeOK
  <2>. QED
    BY <1>1, <1>3, <1>4, <2>1 DEF Open, Heard
<1>10. CountsKept(p)
  BY <1>4, <1>5 DEF CountsKept, IInv, TypeOK
<1>. QED
  BY <1>1, <1>3, <1>4, <1>8, <1>9, <1>10, Whole

LEMMA RequestRefusedKeeps ==
  ASSUME IInv, NEW p \in Reply, RequestRefused(p)
  PROVE  IInv'
<1>. PICK o : o = work[p]
  OBVIOUS
<1>. PICK u : u = Unlearned(p)
  OBVIOUS
<1>1. /\ o.pc = "posting" /\ Active(o) /\ o \in WorkState(p)
      /\ Fits(p, o, known[p], accepted[p], shown[p], confused[p])
      /\ accepted[p] \in [Part(p) -> Nat]
  BY DEF RequestRefused, Active, IInv, TypeOK
<1>2. /\ known' = u /\ GoOn(p, Refused(o)) /\ confused' = confused /\ shown' = shown
      /\ accepted' = accepted
  BY DEF RequestRefused
<1>3. /\ DOMAIN u = Reply /\ \A q \in Reply \ {p} : u[q] = known[q]
      /\ u[p] \in [Part(p) -> Nat] /\ \A i \in Part(p) : u[p][i] <= 1
      /\ \A i \in o.chunk : u[p][i] = 0
      /\ \A i \in Part(p) \ o.chunk : u[p][i] = known[p][i]
  BY <1>1, UnlearnedShape
<1>4. Over(p, o, u[p], accepted[p], shown[p], confused[p])
  <2>1. Bounded(p, u[p], accepted[p])
    BY <1>1, <1>3 DEF Bounded, Fits, Acknowledged
  <2>. QED
    BY <1>1, <1>3, <2>1, NowOver
<1>5. \A i \in o.chunk : accepted[p][i] <= Earlier(o.phase) + o.attempt - 1
  BY <1>1 DEF Fits, Acknowledged
<1>6. Refused(o) \in WorkState(p) /\ Fits(p, Refused(o), u[p], accepted[p], shown[p], confused[p])
  BY <1>1, <1>3, <1>4, <1>5, RefusedFits
<1>7. CountsKept(p)
  BY <1>2, <1>3 DEF CountsKept, IInv, TypeOK
<1>. QED
  BY <1>2, <1>6, <1>7, GoOnKeeps

LEMMA VerifiedKeeps ==
  ASSUME IInv, NEW p \in Reply, Verified(p)
  PROVE  IInv'
<1>. PICK o : o = work[p]
  OBVIOUS
<1>1. /\ o.pc = "waiting" /\ heard[p] /\ Active(o) /\ o \in WorkState(p)
      /\ Fits(p, o, known[p], accepted[p], shown[p], confused[p]) /\ Heard(p)
      /\ accepted[p] \in [Part(p) -> Nat] /\ known[p] \in [Part(p) -> Nat]
  BY DEF Verified, Active, IInv, TypeOK
<1>2. /\ GoOn(p, Delivered(o)) /\ known' = known /\ confused' = confused /\ shown' = shown
      /\ accepted' = accepted
  BY DEF Verified
<1>3. Over(p, o, known[p], accepted[p], shown[p], confused[p])
  <2>1. Bounded(p, known[p], accepted[p])
    BY <1>1 DEF Bounded, Fits, Acknowledged, Once
  <2>. QED
    BY <1>1, <2>1, NowOver
<1>4. Delivered(o) \in WorkState(p)
      /\ Fits(p, Delivered(o), known[p], accepted[p], shown[p], confused[p])
  <2>1. o.phase # "text" /\ o.ok /\ ~confused[p] => o.chunk \subseteq shown[p]
    BY <1>1 DEF Heard
  <2>. QED
    BY <1>1, <1>3, <2>1, DeliveredFits
<1>5. CountsKept(p)
  BY <1>2 DEF CountsKept, IInv, TypeOK
<1>. QED
  BY <1>2, <1>4, <1>5, GoOnKeeps

LEMMA WaitEndsKeeps ==
  ASSUME IInv, NEW p \in Reply, WaitEnds(p)
  PROVE  IInv'
<1>. PICK o : o = work[p]
  OBVIOUS
<1>. PICK u : u = Unlearned(p)
  OBVIOUS
<1>1. /\ o.pc = "waiting" /\ ~heard[p] /\ Active(o) /\ o \in WorkState(p)
      /\ Fits(p, o, known[p], accepted[p], shown[p], confused[p]) /\ Heard(p)
      /\ accepted[p] \in [Part(p) -> Nat] /\ o.phase # "text"
      /\ late \in Nat /\ heard \in [Reply -> BOOLEAN] /\ due \in [Reply -> Nat]
  BY DEF WaitEnds, Active, IInv, TypeOK, Fits, Stage
<1>2. /\ known' = u /\ confused' = confused /\ shown' = shown /\ accepted' = accepted
  BY DEF WaitEnds
<1>3. /\ DOMAIN u = Reply /\ \A q \in Reply \ {p} : u[q] = known[q]
      /\ u[p] \in [Part(p) -> Nat] /\ \A i \in Part(p) : u[p][i] <= 1
      /\ \A i \in o.chunk : u[p][i] = 0
      /\ \A i \in Part(p) \ o.chunk : u[p][i] = known[p][i]
  BY <1>1, UnlearnedShape
<1>4. Over(p, o, u[p], accepted[p], shown[p], confused[p])
  <2>1. Bounded(p, u[p], accepted[p])
    BY <1>1, <1>3 DEF Bounded, Fits, Acknowledged
  <2>. QED
    BY <1>1, <1>3, <2>1, NowOver
<1>5. CountsKept(p)
  BY <1>2, <1>3 DEF CountsKept, IInv, TypeOK
<1>6. CASE o.attempt < MaxAttempts /\ o.phase # "comment"
  <2>. PICK w : w = [o EXCEPT !.pc = "posting", !.attempt = o.attempt + 1,
                              !.try = 1, !.reached = FALSE]
    OBVIOUS
  <2>1. o.attempt + 1 \in 1..MaxAttempts
    BY <1>1, <1>6, Numbers DEF WorkState
  <2>2. /\ w \in WorkState(p) /\ w.pc = "posting" /\ w.phase = o.phase /\ w.chunk = o.chunk
        /\ w.queue = o.queue /\ w.attempt = o.attempt + 1 /\ w.ids = o.ids /\ w.left = o.left
        /\ w.refused = o.refused /\ w.ok = o.ok /\ ~w.reached
    BY <1>1, <2>1, Numbers DEF WorkState, PC
  <2>3. /\ work' = [work EXCEPT ![p] = w] /\ heard' = heard /\ due' = due /\ late' = late
        /\ work'[p] = w
    BY <1>6 DEF WaitEnds, IInv, TypeOK
  <2>4. ToCome(p, w) = ToCome(p, o)
    BY <1>1, <2>2 DEF ToCome
  <2>5. Fits(p, w, u[p], accepted[p], shown[p], confused[p])
    <3>1. Stage(p, w)
      BY <1>1, <1>6, <2>2 DEF Fits, Stage, Active
    <3>2. Once(p, w, u[p])
      BY <1>3, <1>4, <2>2, <2>4 DEF Once, Over
    <3>3. Acknowledged(p, w, accepted[p])
      <4>1. \A i \in w.chunk : accepted[p][i] <= Earlier(w.phase) + w.attempt - 1
        <5>1. \A i \in o.chunk : accepted[p][i] <= Earlier(o.phase) + o.attempt - 0
          BY <1>1 DEF Fits, Acknowledged
        <5>2. Earlier(o.phase) \in Nat /\ o.attempt \in Nat
          BY <1>1, Numbers DEF WorkState
        <5>. QED
          BY <2>2, <5>1, <5>2
      <4>. QED
        BY <1>4, <2>2, <2>4, <4>1 DEF Acknowledged, Over, Bounded
    <3>4. Seen(p, w, shown[p], accepted[p], confused[p])
      BY <1>4, <2>2, <2>4 DEF Seen, Over
    <3>. QED
      BY <3>1, <3>2, <3>3, <3>4 DEF Fits
  <2>6. Heard(p)' /\ Open(p)'
    BY <1>1, <1>2, <2>2, <2>3 DEF Open, Heard
  <2>. QED
    BY <1>1, <1>2, <1>5, <2>2, <2>3, <2>5, <2>6, Whole
<1>7. CASE ~(o.attempt < MaxAttempts /\ o.phase # "comment")
  <2>1. GoOn(p, Unverified(o))
    BY <1>7 DEF WaitEnds
  <2>2. /\ Unverified(o) \in WorkState(p)
        /\ Fits(p, Unverified(o), u[p], accepted[p], shown[p], confused[p])
    BY <1>1, <1>3, <1>4, UnverifiedFits
  <2>. QED
    BY <1>2, <1>5, <2>1, <2>2, GoOnKeeps
<1>. QED
  BY <1>6, <1>7

LEMMA UploadForInboxKeeps ==
  ASSUME IInv, NEW p \in Reply, UploadForInbox(p)
  PROVE  IInv'
<1>. PICK o : o = work[p]
  OBVIOUS
<1>1. /\ o.pc = "uploading" /\ p \notin Comment /\ o \in WorkState(p)
      /\ Fits(p, o, known[p], accepted[p], shown[p], confused[p])
      /\ accepted[p] \in [Part(p) -> Nat] /\ known[p] \in [Part(p) -> Nat]
  BY DEF UploadForInbox, IInv, TypeOK
<1>2. /\ o.phase = "text" /\ o.chunk = {} /\ o.queue = <<>> /\ o.refused = {}
      /\ o.left # {} /\ o.left \subseteq Image(p) /\ o.ids \subseteq Image(p)
      /\ o.ids \cap o.left = {} /\ Image(p) \subseteq Part(p)
      /\ ToCome(p, o) = o.left \cup o.ids
  BY <1>1, NoParts, PartShape DEF Fits, Stage, Active, WorkState, ToCome
<1>3. /\ known' = known /\ confused' = confused /\ shown' = shown /\ accepted' = accepted
  BY DEF UploadForInbox
<1>4. CountsKept(p)
  BY <1>3 DEF CountsKept, IInv, TypeOK
<1>5. /\ Bounded(p, known[p], accepted[p])
      /\ \A i \in o.left \cup o.ids : known[p][i] = 0 /\ accepted[p][i] <= 0
  BY <1>1, <1>2, Numbers DEF Bounded, Fits, Once, Acknowledged
<1>6. PICK got \in BOOLEAN :
        LET w == Collect(o, got)
        IN GoOn(p, IF w.left # {} THEN w
                   ELSE IF w.ids = {} THEN StopFailed(w)
                   ELSE Deliver(w, w.ids, <<>>, "primary"))
  BY DEF UploadForInbox
<1>. PICK w : w = Collect(o, got)
  OBVIOUS
<1>7. First(o.left) \in o.left
  BY <1>2, FirstIn
<1>8. /\ w \in WorkState(p) /\ w.pc = "uploading" /\ w.phase = "text" /\ w.chunk = {}
      /\ w.queue = <<>> /\ w.refused = {} /\ w.ok = o.ok
      /\ w.left \subseteq o.left /\ w.left \cap w.ids = {}
      /\ w.left \cup w.ids \subseteq o.left \cup o.ids /\ w.ids \subseteq Image(p)
  BY <1>1, <1>2, <1>7 DEF Collect, WorkState
<1>9. CASE w.left # {}
  <2>1. GoOn(p, w) /\ ToCome(p, w) = w.left \cup w.ids
    BY <1>1, <1>6, <1>8, <1>9, NoParts DEF ToCome
  <2>2. Stage(p, w)
    BY <1>8, <1>9 DEF Stage
  <2>3. Once(p, w, known[p])
    BY <1>5, <1>8, <2>1 DEF Once, Bounded, Active
  <2>4. Acknowledged(p, w, accepted[p])
    BY <1>5, <1>8, <2>1, Numbers DEF Acknowledged, Bounded, Active
  <2>5. Seen(p, w, shown[p], accepted[p], confused[p])
    BY <1>1, <1>8, <2>1 DEF Seen
  <2>. QED
    BY <1>3, <1>4, <1>8, <2>1, <2>2, <2>3, <2>4, <2>5, GoOnKeeps DEF Fits
<1>10. CASE w.left = {} /\ w.ids = {}
  <2>1. GoOn(p, StopFailed(w))
    BY <1>6, <1>10
  <2>2. /\ StopFailed(w) \in WorkState(p)
        /\ Fits(p, StopFailed(w), known[p], accepted[p], shown[p], confused[p])
    BY <1>5, <1>8, StopFits
  <2>. QED
    BY <1>3, <1>4, <2>1, <2>2, GoOnKeeps
<1>11. CASE w.left = {} /\ w.ids # {}
  <2>. PICK v : v = Deliver(w, w.ids, <<>>, "primary")
    OBVIOUS
  <2>1. GoOn(p, v)
    BY <1>6, <1>11
  <2>2. /\ v \in WorkState(p)
        /\ v.pc = "posting" /\ v.phase = "primary" /\ v.chunk = w.ids /\ v.queue = <<>>
        /\ v.attempt = 1 /\ ~v.reached /\ v.ids = w.ids /\ v.left = {} /\ v.refused = {}
    <3>. PICK none : none = <<>>
      OBVIOUS
    <3>1. none \in Seq(SUBSET Image(p)) /\ w.ids \in SUBSET Part(p)
      BY <1>2, <1>8, NoParts
    <3>2. v = Deliver(w, w.ids, none, "primary")
      OBVIOUS
    <3>3. /\ v \in WorkState(p)
          /\ v.pc = "posting" /\ v.phase = "primary" /\ v.chunk = w.ids /\ v.queue = none
          /\ v.attempt = 1 /\ ~v.reached /\ v.ids = w.ids /\ v.left = w.left
          /\ v.refused = w.refused
      BY <1>8, <3>1, <3>2, Numbers DEF Deliver, WorkState, PC, Phase
    <3>. QED
      BY <1>8, <1>11, <3>3
  <2>3. ToCome(p, v) = {}
    BY <2>2, NoParts DEF ToCome
  <2>4. Stage(p, v)
    BY <1>1, <2>2, NoParts DEF Stage, Active
  <2>5. Once(p, v, known[p])
    BY <1>5, <1>8, <2>2, <2>3 DEF Once, Bounded
  <2>6. Acknowledged(p, v, accepted[p])
    <3>1. Earlier("primary") + 1 - 1 = 0
      BY Numbers
    <3>2. \A i \in v.chunk : accepted[p][i] <= 0
      BY <1>5, <1>8, <1>11, <2>2
    <3>. QED
      BY <1>5, <2>2, <2>3, <3>1, <3>2 DEF Acknowledged, Bounded
  <2>7. Seen(p, v, shown[p], accepted[p], confused[p])
    BY <1>1, <2>2 DEF Seen
  <2>. QED
    BY <1>3, <1>4, <2>1, <2>2, <2>4, <2>5, <2>6, <2>7, GoOnKeeps DEF Fits
<1>. QED
  BY <1>9, <1>10, <1>11

LEMMA UploadForCommentKeeps ==
  ASSUME IInv, NEW p \in Reply, UploadForComment(p)
  PROVE  IInv'
<1>. PICK o : o = work[p]
  OBVIOUS
<1>1. /\ o.pc = "uploading" /\ p \in Comment /\ o \in WorkState(p)
      /\ Fits(p, o, known[p], accepted[p], shown[p], confused[p])
      /\ accepted[p] \in [Part(p) -> Nat] /\ known[p] \in [Part(p) -> Nat]
  BY DEF UploadForComment, IInv, TypeOK
<1>2. /\ o.phase \in {"text", "comment"} /\ o.chunk = {} /\ o.queue = <<>> /\ o.refused = {}
      /\ o.left # {} /\ o.left \subseteq Image(p) /\ o.ids \subseteq Image(p)
      /\ o.ids \cap o.left = {} /\ Image(p) \subseteq Part(p)
      /\ ToCome(p, o) = o.left
  BY <1>1, NoParts, PartShape DEF Fits, Stage, Active, WorkState, ToCome
<1>3. /\ known' = known /\ confused' = confused /\ shown' = shown /\ accepted' = accepted
  BY DEF UploadForComment
<1>4. CountsKept(p)
  BY <1>3 DEF CountsKept, IInv, TypeOK
<1>5. /\ Bounded(p, known[p], accepted[p])
      /\ \A i \in o.left : known[p][i] = 0 /\ accepted[p][i] <= 0 /\ accepted[p][i] = 0
  <2>1. \A i \in o.left : known[p][i] = 0 /\ accepted[p][i] <= 0 /\ accepted[p][i] \in Nat
    BY <1>1, <1>2, Numbers DEF Fits, Once, Acknowledged
  <2>. QED
    BY <1>1, <2>1 DEF Bounded, Fits, Once, Acknowledged
<1>6. o.ok /\ ~confused[p] => o.ids \subseteq shown[p] \cup o.left /\ o.ids \cup o.left = Image(p)
  BY <1>1, <1>2 DEF Fits, Seen
<1>0. PICK f : f = First(o.left)
  OBVIOUS
<1>7. f \in o.left
  BY <1>0, <1>2, FirstIn
<1>8. ASSUME GoOn(p, Deliver(Collect(o, TRUE), {f}, <<>>, "comment"))
      PROVE  IInv'
  <2>0. PICK v : v = Deliver(Collect(o, TRUE), {f}, <<>>, "comment")
    OBVIOUS
  <2>1. /\ v \in WorkState(p)
        /\ v.pc = "posting" /\ v.phase = "comment" /\ v.chunk = {f} /\ v.queue = <<>>
        /\ v.attempt = 1 /\ ~v.reached /\ v.ids = o.ids \cup {f}
        /\ v.left = o.left \ {f} /\ v.refused = {} /\ v.ok = o.ok
    <3>. PICK none : none = <<>>
      OBVIOUS
    <3>. PICK w : w = Collect(o, TRUE)
      OBVIOUS
    <3>1. /\ w \in WorkState(p) /\ w.ids = o.ids \cup {f} /\ w.left = o.left \ {f}
          /\ w.refused = o.refused /\ w.ok = o.ok
      BY <1>0, <1>1, <1>2, <1>7 DEF Collect, WorkState
    <3>2. none \in Seq(SUBSET Image(p)) /\ {f} \in SUBSET Part(p)
      BY <1>2, <1>7, NoParts
    <3>3. v = Deliver(w, {f}, none, "comment")
      BY <2>0
    <3>4. /\ v \in WorkState(p)
          /\ v.pc = "posting" /\ v.phase = "comment" /\ v.chunk = {f} /\ v.queue = none
          /\ v.attempt = 1 /\ ~v.reached /\ v.ids = w.ids /\ v.left = w.left
          /\ v.refused = w.refused /\ v.ok = w.ok
      BY <3>1, <3>2, <3>3, Numbers DEF Deliver, WorkState, PC, Phase
    <3>. QED
      BY <1>2, <3>1, <3>4
  <2>2. ToCome(p, v) = o.left \ {f}
    BY <2>1, NoParts DEF ToCome
  <2>3. Stage(p, v)
    BY <1>1, <1>2, <2>1 DEF Stage, Active
  <2>4. Once(p, v, known[p])
    <3>1. \A i \in v.chunk \cup ToCome(p, v) : known[p][i] = 0
      BY <1>5, <1>7, <2>1, <2>2
    <3>2. \A i \in Part(p) : known[p][i] <= 1
      BY <1>5 DEF Bounded
    <3>. QED
      BY <2>1, <3>1, <3>2 DEF Once
  <2>5. Acknowledged(p, v, accepted[p])
    <3>1. Earlier("comment") = 0 /\ Earlier("comment") + 1 - 1 = 0
      BY Numbers
    <3>2. \A i \in v.chunk \cup ToCome(p, v) : accepted[p][i] <= 0
      BY <1>5, <1>7, <2>1, <2>2
    <3>. QED
      BY <1>5, <2>1, <3>1, <3>2 DEF Acknowledged, Bounded
  <2>6. Seen(p, v, shown[p], accepted[p], confused[p])
    <3>1. /\ v.chunk \cup ToCome(p, v) = o.left
          /\ v.ids \cup v.left = o.ids \cup o.left
          /\ v.ids \subseteq o.ids \cup o.left
      BY <1>7, <2>1, <2>2
    <3>2. v.ok /\ ~confused[p] => /\ v.ids \subseteq shown[p] \cup o.left
                                 /\ v.ids \cup v.left = Image(p)
      BY <1>6, <2>1, <3>1
    <3>. QED
      BY <2>1, <3>1, <3>2 DEF Seen
  <2>. QED
    BY <1>3, <1>4, <1>8, <2>0, <2>1, <2>3, <2>4, <2>5, <2>6, GoOnKeeps DEF Fits
<1>9. ASSUME GoOn(p, NextUpload([Collect(o, FALSE) EXCEPT !.ok = FALSE]))
      PROVE  IInv'
  <2>. PICK v : v = [Collect(o, FALSE) EXCEPT !.ok = FALSE]
    OBVIOUS
  <2>1. /\ v \in WorkState(p) /\ v.phase = o.phase /\ v.queue = <<>> /\ v.refused = {}
        /\ v.ids = o.ids /\ v.left = o.left \ {f} /\ ~v.ok
    BY <1>0, <1>1, <1>2 DEF Collect, WorkState
  <2>2. /\ (v.phase = "text" /\ (p \in Comment \/ v.ids = {}))
             \/ (v.phase = "comment" /\ p \in Comment)
        /\ v.ids \cap v.left = {}
        /\ \A i \in v.left : known[p][i] = 0 /\ accepted[p][i] = 0
        /\ v.ok /\ ~confused[p] =>
              v.ids \subseteq shown[p] /\ (p \in Comment => v.ids \cup v.left = Image(p))
    BY <1>1, <1>2, <1>5, <2>1
  <2>3. /\ NextUpload(v) \in WorkState(p)
        /\ Fits(p, NextUpload(v), known[p], accepted[p], shown[p], confused[p])
    BY <1>1, <1>5, <2>1, <2>2, NextUploadFits
  <2>. QED
    BY <1>3, <1>4, <1>9, <2>3, GoOnKeeps
<1>. QED
  BY <1>0, <1>8, <1>9 DEF UploadForComment

\* An echo of p is heard by p, or by another whose delivery it confuses.
LEMMA EchoKeeps ==
  ASSUME IInv, NEW source, Echo(source), late' \in Nat, due' \in [Reply -> Nat],
         \A q \in Reply : due'[q] > 0 => due[q] > 0,
         \A q \in Reply : {q} = source => due[q] > 0
  PROVE  IInv'
<1>1. /\ work' = work /\ shown' = shown /\ known' = known /\ accepted' = accepted
      /\ heard' \in [Reply -> BOOLEAN] /\ confused' \in [Reply -> BOOLEAN]
      /\ \A q \in Reply : heard'[q] => heard[q] \/ Open(q)
      /\ \A q \in Reply : ~confused'[q] => ~confused[q] /\ (Open(q) => {q} = source)
      /\ \A q \in Reply : heard[q] => Open(q)
  BY DEF Echo, IInv, TypeOK
<1>2. \A q \in Reply : Open(q)' <=> Open(q)
  BY <1>1 DEF Open
<1>3. TypeOK'
  BY <1>1, <1>2 DEF IInv, TypeOK
<1>4. ASSUME NEW q \in Reply
      PROVE  /\ Fits(q, work[q], known[q], accepted[q], shown[q], confused'[q])
             /\ Heard(q)'
  <2>1. Fits(q, work[q], known[q], accepted[q], shown[q], confused'[q])
    <3>1. Fits(q, work[q], known[q], accepted[q], shown[q], confused[q])
      BY DEF IInv
    <3>2. Seen(q, work[q], shown[q], accepted[q], confused'[q])
      BY <1>1, <3>1 DEF Fits, Seen
    <3>. QED
      BY <3>1, <3>2 DEF Fits
  <2>2. Heard(q)
    BY DEF IInv
  <2>3. due'[q] > 0 => Open(q) /\ work[q].chunk \subseteq shown[q]
    BY <2>2 DEF Heard
  <2>4. heard'[q] /\ ~confused'[q] => due[q] > 0
    BY <1>1
  <2>5. heard'[q] /\ ~confused'[q] => work[q].chunk \subseteq shown[q]
    BY <2>2, <2>4 DEF Heard
  <2>. QED
    BY <1>1, <1>2, <2>1, <2>3, <2>5 DEF Heard
<1>. QED
  BY <1>1, <1>3, <1>4 DEF IInv

LEMMA StepKeeps ==
  ASSUME IInv, Next
  PROVE  IInv'
<1>1. ASSUME NEW p \in Reply, ReplyStep(p)
      PROVE  IInv'
  BY <1>1, TextAcknowledgedKeeps, ImagesAcknowledgedKeeps, RetryRequestKeeps,
     RequestRefusedKeeps, VerifiedKeeps, WaitEndsKeeps, UploadForInboxKeeps,
     UploadForCommentKeeps DEF ReplyStep
<1>2. ASSUME NEW p \in Reply, Appears(p)
      PROVE  IInv'
  BY <1>2, AppearsKeeps
<1>3. ASSUME NEW p \in Reply, EchoComes(p)
      PROVE  IInv'
  <2>1. due \in [Reply -> Nat] /\ late \in Nat /\ due[p] > 0
    BY <1>3 DEF EchoComes, IInv, TypeOK
  <2>2. /\ due' \in [Reply -> Nat] /\ late' \in Nat
        /\ \A q \in Reply : due'[q] > 0 => due[q] > 0
    BY <1>3, <2>1 DEF EchoComes
  <2>3. \A q \in Reply : {q} = {p} => due[q] > 0
    BY <2>1
  <2>. QED
    BY <1>3, <2>2, <2>3, EchoKeeps DEF EchoComes
<1>4. CASE LateEchoComes
  <2>1. late' \in Nat /\ due' = due /\ due \in [Reply -> Nat] /\ Echo({})
    BY <1>4 DEF LateEchoComes, IInv, TypeOK
  <2>. QED
    BY <2>1, EchoKeeps
<1>5. CASE EchoesExpire
  <2>1. /\ work' = work /\ shown' = shown /\ known' = known /\ accepted' = accepted
        /\ confused' = confused /\ due' = due /\ late' = late
        /\ heard' = [p \in Reply |-> FALSE]
    BY <1>5 DEF EchoesExpire
  <2>2. TypeOK'
    BY <2>1 DEF IInv, TypeOK
  <2>3. \A q \in Reply : Heard(q)'
    BY <2>1 DEF IInv, Heard, Open
  <2>. QED
    BY <2>1, <2>2, <2>3 DEF IInv
<1>. QED
  BY <1>1, <1>2, <1>3, <1>4, <1>5 DEF Next

LEMMA InitFits ==
  ASSUME Init
  PROVE  IInv
<1>1. PICK S \in Together : work = [p \in Reply |->
         [pc |-> IF p \in S THEN "posting" ELSE "done", phase |-> "text", chunk |-> {Text},
          queue |-> <<>>, attempt |-> 1, try |-> 1, reached |-> FALSE, ids |-> {},
          left |-> Image(p), refused |-> {}, ok |-> TRUE]]
  BY DEF Init
<1>2. /\ heard = [p \in Reply |-> FALSE] /\ due = [p \in Reply |-> 0] /\ late \in Nat
      /\ confused = [p \in Reply |-> FALSE] /\ shown = [p \in Reply |-> {}]
      /\ known = [p \in Reply |-> [i \in Part(p) |-> 0]]
      /\ accepted = [p \in Reply |-> [i \in Part(p) |-> 0]]
  BY EchoAssumption DEF Init
<1>3. ASSUME NEW p \in Reply
      PROVE  /\ work[p] \in WorkState(p) /\ ~heard[p] /\ due[p] = 0
             /\ Fits(p, work[p], known[p], accepted[p], shown[p], confused[p])
  <2>. PICK w : w = work[p]
    OBVIOUS
  <2>1. /\ w \in WorkState(p) /\ w.pc \in {"posting", "done"} /\ w.phase = "text"
        /\ w.chunk = {Text} /\ w.queue = <<>> /\ w.attempt = 1 /\ ~w.reached
        /\ w.ids = {} /\ w.left = Image(p) /\ w.refused = {}
    BY <1>1, Numbers, NoParts, PartShape DEF WorkState, PC, Phase
  <2>2. ToCome(p, w) = Image(p) /\ Image(p) \subseteq Part(p) /\ Text \in Part(p)
    BY <2>1, NoParts, PartShape DEF ToCome
  <2>3. /\ \A i \in Part(p) : known[p][i] = 0 /\ accepted[p][i] = 0
        /\ 0 <= 3 * MaxAttempts - 2 /\ 0 <= Earlier("text") + 1 - 1
    BY <1>2, Numbers
  <2>4. Stage(p, w)
    BY <2>1 DEF Stage
  <2>5. Once(p, w, known[p])
    BY <2>1, <2>2, <2>3 DEF Once
  <2>6. Acknowledged(p, w, accepted[p])
    <3>1. Earlier("text") = 0 /\ Earlier("text") + 1 - 1 = 0
      BY Numbers
    <3>2. \A i \in Part(p) : accepted[p][i] <= 0 /\ accepted[p][i] <= 3 * MaxAttempts - 2
                             /\ accepted[p][i] <= 1
      BY <2>3
    <3>. QED
      BY <2>1, <2>2, <3>1, <3>2 DEF Acknowledged, Active
  <2>7. Seen(p, w, shown[p], accepted[p], confused[p])
    BY <2>1, <2>2, <2>3 DEF Seen
  <2>. QED
    BY <1>2, <2>1, <2>4, <2>5, <2>6, <2>7 DEF Fits
<1>4. TypeOK
  <2>1. \A p \in Reply :
          /\ shown[p] \subseteq Part(p)
          /\ known[p] \in [Part(p) -> Nat] /\ accepted[p] \in [Part(p) -> Nat]
    BY <1>2
  <2>. QED
    BY <1>1, <1>2, <1>3, <2>1 DEF TypeOK
<1>5. \A p \in Reply : Heard(p)
  BY <1>3 DEF Heard
<1>. QED
  BY <1>3, <1>4, <1>5 DEF IInv

-----------------------------------------------------------------------------
(* Theorems.                                                               *)

\* The invariant is inductive: what was shown and acknowledged of every reply
\* is what its coroutine's place in _send_pancake_drive_images allows.
THEOREM Inductive == Spec => []IInv
<1>1. Init => IInv
  BY InitFits
<1>2. IInv /\ [Next]_vars => IInv'
  <2>. SUFFICES ASSUME IInv, [Next]_vars
                PROVE  IInv'
    OBVIOUS
  <2>1. CASE Next
    BY <2>1, StepKeeps
  <2>2. CASE UNCHANGED vars
    <3>1. /\ work' = work /\ heard' = heard /\ due' = due /\ late' = late
          /\ confused' = confused /\ shown' = shown /\ known' = known
          /\ accepted' = accepted
      BY <2>2 DEF vars
    <3>2. TypeOK' <=> TypeOK
      BY <3>1 DEF TypeOK, Open
    <3>3. \A p \in Reply : Heard(p)' <=> Heard(p)
      BY <3>1 DEF Heard, Open
    <3>. QED
      BY <3>1, <3>2, <3>3 DEF IInv
  <2>. QED
    BY <2>1, <2>2
<1>. QED
  BY <1>1, <1>2, PTL DEF Spec

\* Every variable keeps its type, and only who delivers images hears echoes.
THEOREM TypeCorrect == Spec => []TypeOK
<1>1. IInv => TypeOK
  BY DEF IInv
<1>. QED
  BY <1>1, Inductive, PTL

\* Retries, split and single sendings repeat no part that is known to be shown.
THEOREM ShownAccountedCorrect == Spec => []ShownAccounted
<1>1. IInv => ShownAccounted
  BY DEF IInv, Fits, Once, ShownAccounted
<1>. QED
  BY <1>1, Inductive, PTL

\* A reply reported as delivered shows its images, unless an echo of another
\* sending was taken for one of its own.
THEOREM ReportedShownCorrect == Spec => []ReportedShown
<1>1. IInv => ReportedShown
  <2>. SUFFICES ASSUME IInv, NEW p \in Reply,
                       work[p].pc = "done", work[p].ok, ~confused[p], accepted[p][Text] > 0
                PROVE  /\ work[p].ids \subseteq shown[p]
                       /\ p \in Comment => work[p].ids = Image(p)
    BY DEF ReportedShown
  <2>1. Seen(p, work[p], shown[p], accepted[p], confused[p])
    BY DEF IInv, Fits
  <2>. QED
    BY <2>1 DEF Seen
<1>. QED
  BY <1>1, Inductive, PTL

\* Pancake acknowledges a text or an image of a comment at most once, another
\* image at most 3 * MaxAttempts - 2 times.
THEOREM AcceptedBoundedCorrect == Spec => []AcceptedBounded
<1>1. IInv => AcceptedBounded
  BY DEF IInv, Fits, Acknowledged, AcceptedBounded
<1>. QED
  BY <1>1, Inductive, PTL
=============================================================================
