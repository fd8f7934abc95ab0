-------------------------- MODULE ImageSourcesProofs --------------------------
(***************************************************************************)
(* Proofs about ImageSources for any number of requests, codes, folders and *)
(* images.                                                                 *)
(*                                                                         *)
(* Every step but a crash is a step of one request.  StepSound says what    *)
(* such a step must show of a single image: that it left alone what is not  *)
(* the request's own, and that what is its own is midway or at rest again.  *)
(* Each action then has two lemmas: Kept (types, stages, names, neighbours) *)
(* and Landed (the images).                                                *)
(***************************************************************************)
EXTENDS ImageSources, WellFoundedInduction, TLAPS

\* A set of images that is not empty has a smallest one.
LEMMA MinIsMember ==
  ASSUME NEW S \in SUBSET Image, S # {}
  PROVE  Min(S) \in S
<1>1. S \subseteq Nat
  BY UploadsAssumption DEF Image
<1>2. PICK x \in S : \A y \in S : ~ (<<y, x>> \in OpToRel(<, Nat))
  BY <1>1, NatLessThanWellFounded, WFMin
<1>3. \A y \in S : ~(y < x)
  BY <1>1, <1>2, Zenon DEF OpToRel
<1>4. \A y \in S : x <= y
  BY <1>1, <1>3
<1>. QED
  BY <1>4 DEF Min

\* What a request holds while it does not run: nothing.
LEMMA Empty ==
  /\ Idle \in Work /\ Over \in Work /\ Staged(Idle) /\ Staged(Over)
  /\ Idle.pc = "idle" /\ Over.pc = "done"
  /\ Idle.new = {} /\ Idle.drop = {} /\ Idle.kind = "none" /\ Idle.mixed = FALSE
  /\ Over.new = {} /\ Over.drop = {} /\ Over.kind = "none" /\ Over.mixed = FALSE
  /\ Idle.copy = [i \in Image |-> "none"] /\ Over.copy = [i \in Image |-> "none"]
  /\ Idle.at = {} /\ Over.at = {} /\ Idle.written = FALSE /\ Idle.left = 0
  /\ Idle.code = NoCode
BY DEF Idle, Over, Work, PC, Kind, Size, Staged

\* Two requests work on one image only if the image is marked; and the same
\* holds of any image a request works on beside one that rewrites.
Alone(i) ==
  \A r, s \in Request :
     r # s /\ i \in Owned(req[r]) =>
        i \notin Owned(req[s]) /\ req[s].kind \notin {"update", "delete"}

LEMMA AloneNow ==
  Stages /\ Neighbours => \A i \in Image : Clean(i) => Alone(i)
<1>. SUFFICES ASSUME Stages, Neighbours, NEW i \in Image, Clean(i),
                     NEW r \in Request, NEW s \in Request, r # s,
                     i \in Owned(req[r]),
                     i \in Owned(req[s]) \/ req[s].kind \in {"update", "delete"}
              PROVE  FALSE
  BY DEF Alone
<1>1. Staged(req[r]) /\ Staged(req[s])
  BY DEF Stages
<1>2. Running(r) /\ Running(s)
  BY <1>1, Empty DEF Staged, Running, Owned
<1>3. ~req[r].mixed
  BY DEF Neighbours, Clean
<1>4. /\ req[r].kind = "import" /\ req[s].kind = "import"
      /\ req[r].new \cap req[s].new = {}
  BY <1>2, <1>3 DEF Neighbours
<1>. QED
  BY <1>1, <1>4 DEF Staged, Owned

LEMMA AloneNext ==
  (Stages /\ Neighbours)' => \A i \in Image : Clean(i)' => Alone(i)'
<1>1. (Stages /\ Neighbours => \A i \in Image : Clean(i) => Alone(i))'
  BY AloneNow, PTL
<1>. QED
  BY <1>1

\* The step of r leaves i alone.
Unmoved(i) ==
  /\ rows'[i] = rows[i] /\ files'[i] = files[i]
  /\ i \in index' <=> i \in index
  /\ tags'[i] = tags[i]

\* w is the work q, up to the mark that it runs beside others.
SameWork(w, q) ==
  /\ w.pc = q.pc /\ w.kind = q.kind /\ w.code = q.code /\ w.copy = q.copy
  /\ w.written = q.written /\ w.new = q.new /\ w.drop = q.drop /\ w.at = q.at

\* What a step of r must show of image i.
Lands(r, i) ==
  /\ Clean(i)
  /\ i \notin Owned(req[r]) /\ i \notin Owned(req'[r]) => Unmoved(i)
  /\ i \in Owned(req'[r]) => Midway(req[r], i)'
  /\ i \in Owned(req[r]) /\ i \notin Owned(req'[r]) => Resting(i)'
  /\ CopyHolds(req[r], i)'

LEMMA StepSound ==
  ASSUME Stages, Neighbours, (Stages /\ Neighbours)',
         \A i \in Image : Clean(i) => Sound(i),
         NEW r \in Request,
         \A s \in Request \ {r} : SameWork(req'[s], req[s]),
         \A i \in Image : Clean(i)' => Lands(r, i)
  PROVE  \A i \in Image : Clean(i)' => Sound(i)'
<1>. SUFFICES ASSUME NEW i \in Image, Clean(i)' PROVE Sound(i)'
  OBVIOUS
<1>1. Clean(i) /\ Sound(i) /\ Lands(r, i)
  BY DEF Lands
<1>2. Alone(i) /\ Alone(i)'
  BY <1>1, AloneNow, AloneNext
<1>3. CASE i \in Owned(req[r]) \/ i \in Owned(req'[r])
  <2>1. \A s \in Request \ {r} :
           i \notin Owned(req'[s]) /\ req'[s].kind \notin {"update", "delete"}
    BY <1>2, <1>3 DEF Alone, SameWork, Owned
  <2>2. \A s \in Request : (i \in Owned(req[s]))' => Midway(req[s], i)'
    BY <1>1, <2>1 DEF Lands
  <2>3. \A s \in Request : CopyHolds(req[s], i)'
    BY <1>1, <2>1 DEF Lands, CopyHolds
  <2>4. Settled(i)' => Resting(i)'
    BY <1>1, <1>3 DEF Lands, Settled
  <2>. QED
    BY <2>2, <2>3, <2>4 DEF Sound
<1>4. CASE i \notin Owned(req[r]) /\ i \notin Owned(req'[r])
  <2>1. Unmoved(i)
    BY <1>1, <1>4 DEF Lands
  <2>2. Resting(i) => Resting(i)'
    BY <2>1 DEF Unmoved, Resting
  <2>3. ASSUME NEW s \in Request \ {r}
        PROVE  /\ (i \in Owned(req[s]))' => Midway(req[s], i)'
               /\ CopyHolds(req[s], i)'
    <3>1. SameWork(req'[s], req[s])
      OBVIOUS
    <3>2. (i \in Owned(req[s]) => Midway(req[s], i)) /\ CopyHolds(req[s], i)
      BY <1>1 DEF Sound
    <3>3. Midway(req[s], i) => Midway(req[s], i)'
      <4>1. Arriving(req[s], i) => Arriving(req[s], i)'
        BY <2>1, <3>1 DEF Unmoved, SameWork, Arriving
      <4>2. Leaving(req[s], i) => Leaving(req[s], i)'
        BY <2>1, <3>1 DEF Unmoved, SameWork, Leaving
      <4>. QED
        BY <2>1, <2>2, <3>1, <4>1, <4>2 DEF Unmoved, SameWork, Midway
    <3>4. CopyHolds(req[s], i)'
      BY <2>1, <3>1, <3>2 DEF Unmoved, SameWork, CopyHolds, Owned
    <3>. QED
      BY <3>1, <3>2, <3>3, <3>4 DEF SameWork, Owned
  <2>4. Settled(i)' => Settled(i)
    BY <1>4 DEF Settled, SameWork, Owned
  <2>5. CopyHolds(req[r], i)'
    BY <1>1 DEF Lands
  <2>6. \A s \in Request : /\ (i \in Owned(req[s]))' => Midway(req[s], i)'
                           /\ CopyHolds(req[s], i)'
    BY <1>4, <2>3, <2>5
  <2>. QED
    BY <1>1, <2>2, <2>4, <2>6 DEF Sound
<1>. QED
  BY <1>3, <1>4

(***************************************************************************)
(* A request begins.                                                       *)
(***************************************************************************)

\* What Begin does to the requests and the marks.
LEMMA BeginShape ==
  ASSUME TypeOK, NEW r \in Request, NEW q \in Work, Begin(r, q)
  PROVE  /\ req' \in [Request -> Work] /\ tags' \in [Image -> SUBSET Tag]
         /\ SameWork(req'[r], q) /\ req'[r].left = q.left
         /\ \A s \in Request \ {r} :
               /\ SameWork(req'[s], req[s]) /\ req'[s].left = req[s].left
               /\ ~Running(s) => req'[s] = req[s]
         /\ \A i \in Image :
               \/ tags'[i] = tags[i]
               \/ /\ tags'[i] = tags[i] \cup {"mixed"}
                  /\ i \in Owned(q) \/ \E s \in Request : i \in Owned(req[s])
<1>. DEFINE others == {s \in Request \ {r} : Running(s)}
            mixing == {s \in others : Rewrites(req[s].kind) \/ Rewrites(q.kind)}
            S == (UNION {Owned(req[s]) : s \in mixing})
                    \cup (IF mixing # {} THEN Owned(q) ELSE {})
<1>1. /\ req' = [s \in Request |->
                    IF s = r THEN [q EXCEPT !.mixed = mixing # {}]
                    ELSE IF s \in mixing THEN [req[s] EXCEPT !.mixed = TRUE] ELSE req[s]]
      /\ tags' = [i \in Image |-> IF i \in S THEN tags[i] \cup {"mixed"} ELSE tags[i]]
  BY DEF Begin, Tagged
<1>8. \A i \in S : i \in Owned(q) \/ \E s \in Request : i \in Owned(req[s])
  OBVIOUS
<1>9. \A s \in mixing : Running(s)
  OBVIOUS
<1>. HIDE DEF mixing, S
<1>2. tags' \in [Image -> SUBSET Tag]
  BY <1>1 DEF TypeOK, Tag
<1>3. \A b \in BOOLEAN : [q EXCEPT !.mixed = b] \in Work
  BY DEF Work
<1>4. \A s \in Request : req[s] \in Work /\ [req[s] EXCEPT !.mixed = TRUE] \in Work
  BY DEF TypeOK, Work
<1>5. req' \in [Request -> Work]
  BY <1>1, <1>3, <1>4
<1>6. SameWork(req'[r], q) /\ req'[r].left = q.left
  BY <1>1 DEF SameWork, Work
<1>7. \A s \in Request \ {r} :
         SameWork(req'[s], req[s]) /\ req'[s].left = req[s].left
  BY <1>1, <1>4 DEF SameWork, Work
<1>10. \A s \in Request \ {r} : ~Running(s) => req'[s] = req[s]
  BY <1>1, <1>9
<1>. QED
  BY <1>1, <1>2, <1>5, <1>6, <1>7, <1>8, <1>10

LEMMA BeginNeighbours ==
  ASSUME TypeOK, Neighbours, NEW r \in Request, NEW q \in Work, Begin(r, q),
         q.kind = "import" => q.new = {}
  PROVE  Neighbours'
<1>. DEFINE others == {s \in Request \ {r} : Running(s)}
            mixing == {s \in others : Rewrites(req[s].kind) \/ Rewrites(q.kind)}
            S == (UNION {Owned(req[s]) : s \in mixing})
                    \cup (IF mixing # {} THEN Owned(q) ELSE {})
<1>0. \A s \in Request : req[s] \in Work
  BY DEF TypeOK
<1>1. /\ req' = [s \in Request |->
                    IF s = r THEN [q EXCEPT !.mixed = mixing # {}]
                    ELSE IF s \in mixing THEN [req[s] EXCEPT !.mixed = TRUE] ELSE req[s]]
      /\ tags' = [i \in Image |-> IF i \in S THEN tags[i] \cup {"mixed"} ELSE tags[i]]
  BY DEF Begin, Tagged
<1>2. /\ req'[r].mixed = (mixing # {})
      /\ \A s \in Request \ {r} :
            /\ s \in mixing => req'[s].mixed
            /\ s \notin mixing => req'[s].mixed = req[s].mixed
  <2>. HIDE DEF mixing, S
  <2>1. req'[r].mixed = (mixing # {})
    <3>1. PICK b \in BOOLEAN : b = (mixing # {})
      OBVIOUS
    <3>2. req'[r] = [q EXCEPT !.mixed = b]
      BY <1>1, <3>1
    <3>3. req'[r].mixed = b
      BY <3>2 DEF Work
    <3>. QED
      BY <3>1, <3>3
  <2>2. ASSUME NEW s \in Request \ {r}, s \in mixing
        PROVE  req'[s].mixed = TRUE
    <3>1. req'[s] = [req[s] EXCEPT !.mixed = TRUE]
      BY <1>1, <2>2
    <3>. QED
      BY <1>0, <3>1 DEF Work
  <2>3. \A s \in Request \ {r} : s \notin mixing => req'[s] = req[s]
    BY <1>1
  <2>. QED
    BY <2>1, <2>2, <2>3
<1>3. /\ SameWork(req'[r], q)
      /\ \A s \in Request \ {r} : SameWork(req'[s], req[s])
  BY BeginShape
<1>4. \A s \in Request \ {r} :
         Running(s)' => \/ req'[r].mixed /\ req'[s].mixed
                        \/ /\ req'[r].kind = "import" /\ req'[s].kind = "import"
                           /\ req'[r].new = {}
  <2>1. SUFFICES ASSUME NEW s \in Request \ {r}, Running(s)',
                        ~(req'[r].kind = "import" /\ req'[s].kind = "import")
                 PROVE  req'[r].mixed /\ req'[s].mixed
    BY <1>3 DEF SameWork
  <2>2. s \in mixing
    BY <1>3, <2>1 DEF SameWork, Running, Rewrites
  <2>. QED
    BY <1>2, <2>2
<1>5. \A s, u \in Request \ {r} :
         s # u /\ Running(s)' /\ Running(u)' =>
            \/ req'[s].mixed /\ req'[u].mixed
            \/ /\ req'[s].kind = "import" /\ req'[u].kind = "import"
               /\ req'[s].new \cap req'[u].new = {}
  <2>. HIDE DEF mixing
  <2>. QED
    BY <1>2, <1>3 DEF Neighbours, SameWork, Running
<1>6. \A s \in Request : req'[s].mixed => \A i \in Owned(req'[s]) : "mixed" \in tags'[i]
  <2>1. \A i \in Image : i \in S \/ "mixed" \in tags[i] => "mixed" \in tags'[i]
    <3>. HIDE DEF S
    <3>. QED
      BY <1>1
  <2>2. \A s \in Request : Owned(req'[s]) \subseteq Image
    BY BeginShape DEF Work, Owned
  <2>3. \A s \in mixing : Owned(req[s]) \subseteq S
    OBVIOUS
  <2>4. mixing # {} => Owned(q) \subseteq S
    OBVIOUS
  <2>. HIDE DEF mixing, S
  <2>5. ASSUME NEW s \in Request \ {r}, req'[s].mixed, NEW i \in Owned(req'[s])
        PROVE  "mixed" \in tags'[i]
    BY <1>2, <1>3, <2>1, <2>2, <2>3, <2>5 DEF SameWork, Owned, Neighbours
  <2>6. ASSUME req'[r].mixed, NEW i \in Owned(req'[r])
        PROVE  "mixed" \in tags'[i]
    BY <1>2, <1>3, <2>1, <2>2, <2>4, <2>6 DEF SameWork, Owned
  <2>. QED
    BY <2>5, <2>6
<1>. HIDE DEF mixing
<1>. QED
  BY <1>4, <1>5, <1>6 DEF Neighbours

\* A beginning keeps types, stages, names and neighbours.
LEMMA BeginKept ==
  ASSUME TypeOK, Stages, Names, Neighbours, NEW r \in Request,
         NEW q \in Work, Begin(r, q), Staged(q), Named(q),
         q.pc \notin {"idle", "done"}, q.kind = "import" => q.new = {},
         UNCHANGED <<files, folders, index, codeOf>>, rows' \in [Image -> Size],
         \A i \in Image : codeOf[i] = NoCode => rows'[i] = "none"
  PROVE  (TypeOK /\ Stages /\ Names /\ Neighbours)'
<1>1. TypeOK'
  BY BeginShape DEF TypeOK
<1>2. Stages'
  <2>1. Staged(req'[r])
    BY BeginShape DEF SameWork, Staged
  <2>2. ASSUME NEW s \in Request \ {r} PROVE Staged(req'[s])
    <3>1. CASE Running(s)
      <4>1. Staged(req[s]) /\ req[s].pc \notin {"idle", "done"}
        BY <3>1 DEF Stages, Running
      <4>. QED
        BY <4>1, BeginShape DEF SameWork, Staged
    <3>2. CASE ~Running(s)
      BY <3>2, BeginShape DEF Stages
    <3>. QED
      BY <3>1, <3>2
  <2>. QED
    BY <2>1, <2>2 DEF Stages
<1>3. Names'
  <2>1. \A i \in Image : codeOf[i] = NoCode => tags'[i] = {}
    BY BeginShape DEF Names, Named
  <2>2. \A i \in Image : codeOf'[i] = NoCode =>
           rows'[i] = "none" /\ files'[i] = "none" /\ i \notin index' /\ tags'[i] = {}
    BY <2>1 DEF Names
  <2>3. \A s \in Request : Named(req[s])'
    <3>1. Named(req[r])'
      BY BeginShape DEF SameWork, Named, Owned
    <3>2. \A s \in Request \ {r} : Named(req[s])'
      BY BeginShape DEF SameWork, Names, Named, Owned
    <3>. QED
      BY <3>1, <3>2
  <2>. QED
    BY <2>2, <2>3 DEF Names
<1>4. Neighbours'
  BY BeginNeighbours
<1>. QED
  BY <1>1, <1>2, <1>3, <1>4

\* What a beginning must show of an image of its own; of the others it tells
\* apart the rows alone.
LEMMA BeginSound ==
  ASSUME TypeOK, Stages, Names, Neighbours, \A i \in Image : Clean(i) => Sound(i),
         (TypeOK /\ Stages /\ Names /\ Neighbours)',
         NEW r \in Request, req[r].pc = "idle", NEW q \in Work, Begin(r, q),
         UNCHANGED <<files, index>>,
         \A i \in Image : i \notin Owned(q) =>
            /\ rows'[i] = rows[i]
            /\ q.kind \in {"update", "delete"} => q.copy[i] = rows[i],
         \A i \in Image : i \in Owned(q) /\ Resting(i) /\ tags'[i] = tags[i] =>
            Midway(req[r], i)'
  PROVE  \A i \in Image : Clean(i)' => Sound(i)'
<1>1. \A s \in Request \ {r} : SameWork(req'[s], req[s])
  BY BeginShape
<1>2. ASSUME NEW i \in Image, Clean(i)' PROVE Lands(r, i)
  <2>1. tags'[i] = tags[i] /\ Clean(i)
    BY <1>2, BeginShape DEF Clean
  <2>2. SameWork(req'[r], q) /\ Owned(req'[r]) = Owned(q)
    BY BeginShape DEF SameWork, Owned
  <2>3. Owned(req[r]) = {}
    BY Empty DEF Stages, Staged, Owned
  <2>4. i \in Owned(req'[r]) => Resting(i)
    <3>1. SUFFICES ASSUME i \in Owned(req'[r]) PROVE Resting(i)
      OBVIOUS
    <3>2. Alone(i)'
      BY <1>2, AloneNext
    <3>3. \A s \in Request \ {r} : i \notin Owned(req'[s])
      BY <3>1, <3>2 DEF Alone
    <3>4. Settled(i)
      BY <1>1, <2>3, <3>3 DEF Settled, SameWork, Owned
    <3>. QED
      BY <2>1, <3>4 DEF Sound
  <2>5. i \notin Owned(req'[r]) => Unmoved(i)
    BY <2>1, <2>2 DEF Unmoved
  <2>6. CopyHolds(req[r], i)'
    BY <2>2 DEF CopyHolds, SameWork
  <2>. QED
    BY <2>1, <2>2, <2>3, <2>4, <2>5, <2>6 DEF Lands
<1>. QED
  BY <1>1, <1>2, StepSound

LEMMA ImportBegins ==
  ASSUME IInv, NEW r \in Request, NEW c \in Code, NEW n \in Uploads, StartImport(r, c, n)
  PROVE  IInv'
<1>. USE DEF IInv
<1>1. PICK q : q = [Idle EXCEPT !.pc = "storing", !.kind = "import", !.code = c, !.left = n]
  OBVIOUS
<1>2. n \in Nat /\ n > 0 /\ c # NoCode
  BY CodeAssumption, UploadsAssumption DEF StartImport
<1>3. /\ q.pc = "storing" /\ q.kind = "import" /\ q.code = c /\ q.left = n
      /\ q.copy = [i \in Image |-> "none"] /\ q.written = FALSE
      /\ q.new = {} /\ q.drop = {} /\ q.at = {}
  BY <1>1 DEF Idle
<1>4. q \in Work
  BY <1>1, <1>2 DEF Idle, Work, PC, Kind, Size
<1>5. Staged(q) /\ Named(q)
  BY <1>2, <1>3 DEF Staged, Named, Owned
<1>6. Begin(r, q) /\ req[r].pc = "idle" /\ UNCHANGED <<rows, files, folders, index, codeOf>>
  BY <1>1 DEF StartImport
<1>7. (TypeOK /\ Stages /\ Names /\ Neighbours)'
  <2>1. \A i \in Image : codeOf[i] = NoCode => rows'[i] = "none"
    BY <1>6 DEF Names
  <2>2. rows' \in [Image -> Size]
    BY <1>6 DEF TypeOK
  <2>. QED
    BY <1>3, <1>4, <1>5, <1>6, <2>1, <2>2, BeginKept
<1>8. \A i \in Image : Clean(i)' => Sound(i)'
  <2>1. \A i \in Image : i \notin Owned(q)
    BY <1>3 DEF Owned
  <2>2. q.kind \notin {"update", "delete"}
    BY <1>3
  <2>. QED
    BY <1>4, <1>6, <1>7, <2>1, <2>2, BeginSound
<1>. QED
  BY <1>7, <1>8

LEMMA UpdateBegins ==
  ASSUME IInv, NEW r \in Request, NEW c \in Code, NEW n \in Uploads,
         NEW D \in SUBSET Listed(c), StartUpdate(r, c, n, D)
  PROVE  IInv'
<1>. USE DEF IInv
<1>1. PICK w : w = [Idle EXCEPT !.pc = "storing", !.kind = "update", !.code = c,
                                !.copy = rows, !.left = n, !.drop = D]
  OBVIOUS
<1>2. PICK q : q = IF n > 0 THEN w ELSE AfterWrite(w)
  OBVIOUS
<1>3. /\ n \in Nat /\ c # NoCode /\ (n > 0 \/ D # {}) /\ D \subseteq Image
      /\ \A i \in D : rows[i] # "none" /\ codeOf[i] = c
  BY CodeAssumption, UploadsAssumption DEF StartUpdate, Listed
<1>4. /\ w.pc = "storing" /\ w.kind = "update" /\ w.code = c /\ w.left = n
      /\ w.copy = rows /\ w.written = FALSE /\ w.new = {} /\ w.drop = D /\ w.at = {}
      /\ w \in Work
  BY <1>1, <1>3 DEF Idle, Work, PC, Kind, Size, TypeOK
<1>5. /\ q.kind = "update" /\ q.code = c /\ q.left = n /\ q.copy = rows
      /\ q.new = {} /\ q.drop = D /\ q.at = {}
      /\ n > 0 => q.pc = "storing" /\ q.written = FALSE
      /\ ~(n > 0) => q.pc = "dropping" /\ q.written = TRUE
      /\ q \in Work
  <2>1. CASE n > 0
    BY <1>2, <1>4, <2>1
  <2>2. CASE ~(n > 0)
    <3>1. q = [w EXCEPT !.written = TRUE, !.pc = "dropping"]
      BY <1>2, <1>3, <1>4, <2>2 DEF AfterWrite
    <3>2. q \in Work
      BY <1>4, <3>1 DEF Work, PC
    <3>. QED
      BY <1>4, <2>2, <3>1, <3>2 DEF Work
  <2>. QED
    BY <2>1, <2>2
<1>6. Staged(q) /\ Named(q)
  <2>1. Staged(q)
    BY <1>3, <1>5 DEF Staged
  <2>2. Named(q)
    BY <1>3, <1>5 DEF Named, Owned, Names
  <2>. QED
    BY <2>1, <2>2
<1>7. Begin(r, q) /\ req[r].pc = "idle" /\ UNCHANGED <<files, folders, index, codeOf>>
  BY <1>1, <1>2 DEF StartUpdate
<1>8. \A i \in Image : rows'[i] = IF ~(n > 0) /\ i \in D THEN "none" ELSE rows[i]
  BY <1>1, <1>4 DEF StartUpdate, Rewritten, With, TypeOK
<1>9. rows' \in [Image -> Size]
  <2>1. CASE n > 0
    BY <2>1 DEF StartUpdate, TypeOK
  <2>2. CASE ~(n > 0)
    <3>1. rows' = Rewritten(w)
      BY <1>1, <2>2 DEF StartUpdate
    <3>. QED
      BY <1>4, <3>1 DEF Rewritten, With, TypeOK, Size
  <2>. QED
    BY <2>1, <2>2
<1>10. (TypeOK /\ Stages /\ Names /\ Neighbours)'
  <2>1. \A i \in Image : codeOf[i] = NoCode => rows'[i] = "none"
    BY <1>8 DEF Names
  <2>2. q.pc \notin {"idle", "done"} /\ (q.kind = "import" => q.new = {})
    BY <1>5
  <2>. QED
    BY <1>5, <1>6, <1>7, <1>9, <2>1, <2>2, BeginKept
<1>11. ASSUME NEW i \in Image, i \in Owned(q) /\ Resting(i) /\ tags'[i] = tags[i]
       PROVE  Midway(req[r], i)'
  <2>1. SameWork(req'[r], q)
    BY <1>5, <1>7, BeginShape
  <2>2. i \in D /\ rows[i] = "thumb" /\ files[i] = "thumb"
    BY <1>3, <1>5, <1>11 DEF Owned, Resting, TypeOK, Size
  <2>3. Leaving(req[r], i)'
    BY <1>5, <1>7, <1>8, <1>11, <2>1, <2>2 DEF SameWork, Leaving, Resting
  <2>. QED
    BY <1>5, <2>1, <2>3 DEF Midway, SameWork
<1>12. \A i \in Image : i \notin Owned(q) =>
         /\ rows'[i] = rows[i]
         /\ q.kind \in {"update", "delete"} => q.copy[i] = rows[i]
  BY <1>5, <1>8 DEF Owned
<1>13. \A i \in Image : i \in Owned(q) /\ Resting(i) /\ tags'[i] = tags[i] =>
         Midway(req[r], i)'
  BY <1>11
<1>14. \A i \in Image : Clean(i)' => Sound(i)'
  BY <1>5, <1>7, <1>10, <1>12, <1>13, BeginSound
<1>. QED
  BY <1>10, <1>14

LEMMA DeleteBegins ==
  ASSUME IInv, NEW r \in Request, NEW c \in Code, StartDelete(r, c)
  PROVE  IInv'
<1>. USE DEF IInv
<1>1. PICK q : q = [Idle EXCEPT !.pc = "dropping", !.kind = "delete", !.code = c,
                                !.copy = rows, !.written = TRUE, !.drop = Listed(c)]
  OBVIOUS
<1>3. /\ c # NoCode /\ Listed(c) \subseteq Image
      /\ \A i \in Listed(c) : rows[i] # "none" /\ codeOf[i] = c
  BY CodeAssumption DEF StartDelete, Listed
<1>5. /\ q.pc = "dropping" /\ q.kind = "delete" /\ q.code = c /\ q.copy = rows
      /\ q.new = {} /\ q.drop = Listed(c) /\ q.at = {} /\ q.written = TRUE
      /\ q \in Work
  BY <1>1, <1>3 DEF Idle, Work, PC, Kind, Size, TypeOK
<1>6. Staged(q) /\ Named(q)
  <2>1. Staged(q)
    BY <1>3, <1>5 DEF Staged
  <2>2. Named(q)
    BY <1>3, <1>5 DEF Named, Owned, Names
  <2>. QED
    BY <2>1, <2>2
<1>7. Begin(r, q) /\ req[r].pc = "idle" /\ UNCHANGED <<files, folders, index, codeOf>>
  BY <1>1 DEF StartDelete
<1>8. \A i \in Image : rows'[i] = IF i \in Listed(c) THEN "none" ELSE rows[i]
  BY DEF StartDelete, With
<1>9. rows' \in [Image -> Size]
  BY DEF StartDelete, With, TypeOK, Size
<1>10. (TypeOK /\ Stages /\ Names /\ Neighbours)'
  <2>1. \A i \in Image : codeOf[i] = NoCode => rows'[i] = "none"
    BY <1>8 DEF Names
  <2>2. q.pc \notin {"idle", "done"} /\ (q.kind = "import" => q.new = {})
    BY <1>5
  <2>. QED
    BY <1>5, <1>6, <1>7, <1>9, <2>1, <2>2, BeginKept
<1>11. ASSUME NEW i \in Image, i \in Owned(q) /\ Resting(i) /\ tags'[i] = tags[i]
       PROVE  Midway(req[r], i)'
  <2>1. SameWork(req'[r], q)
    BY <1>5, <1>7, BeginShape
  <2>2. i \in Listed(c) /\ rows[i] = "thumb" /\ files[i] = "thumb"
    BY <1>3, <1>5, <1>11 DEF Owned, Resting, TypeOK, Size
  <2>3. Leaving(req[r], i)'
    BY <1>5, <1>7, <1>8, <1>11, <2>1, <2>2 DEF SameWork, Leaving, Resting
  <2>. QED
    BY <1>5, <2>1, <2>3 DEF Midway, SameWork
<1>12. \A i \in Image : i \notin Owned(q) =>
         /\ rows'[i] = rows[i]
         /\ q.kind \in {"update", "delete"} => q.copy[i] = rows[i]
  BY <1>5, <1>8 DEF Owned
<1>13. \A i \in Image : i \in Owned(q) /\ Resting(i) /\ tags'[i] = tags[i] =>
         Midway(req[r], i)'
  BY <1>11
<1>14. \A i \in Image : Clean(i)' => Sound(i)'
  BY <1>5, <1>7, <1>10, <1>12, <1>13, BeginSound
<1>. QED
  BY <1>10, <1>14

LEMMA RebuildBegins ==
  ASSUME IInv, NEW r \in Request, StartRebuild(r)
  PROVE  IInv'
<1>. USE DEF IInv
<1>1. PICK S : S = {i \in Image : rows[i] # "none" /\ files[i] # "none"}
  OBVIOUS
<1>2. PICK q : q = [Idle EXCEPT !.pc = "embedding", !.kind = "rebuild", !.new = S]
  OBVIOUS
<1>3. S \subseteq Image /\ S # {} /\ \A i \in S : rows[i] # "none"
  BY <1>1 DEF StartRebuild
<1>5. /\ q.pc = "embedding" /\ q.kind = "rebuild" /\ q.copy = [i \in Image |-> "none"]
      /\ q.new = S /\ q.drop = {} /\ q.at = {}
      /\ q \in Work
  BY <1>2, <1>3 DEF Idle, Work, PC, Kind, Size
<1>6. Staged(q) /\ Named(q)
  <2>1. Staged(q)
    BY <1>3, <1>5 DEF Staged
  <2>2. Named(q)
    BY <1>3, <1>5 DEF Named, Owned, Names
  <2>. QED
    BY <2>1, <2>2
<1>7. Begin(r, q) /\ req[r].pc = "idle" /\ UNCHANGED <<rows, files, folders, index, codeOf>>
  BY <1>1, <1>2 DEF StartRebuild
<1>10. (TypeOK /\ Stages /\ Names /\ Neighbours)'
  <2>1. \A i \in Image : codeOf[i] = NoCode => rows'[i] = "none"
    BY <1>7 DEF Names
  <2>2. q.pc \notin {"idle", "done"} /\ (q.kind = "import" => q.new = {})
    BY <1>5
  <2>3. rows' \in [Image -> Size]
    BY <1>7 DEF TypeOK
  <2>. QED
    BY <1>5, <1>6, <1>7, <2>1, <2>2, <2>3, BeginKept
<1>11. ASSUME NEW i \in Image, i \in Owned(q) /\ Resting(i) /\ tags'[i] = tags[i]
       PROVE  Midway(req[r], i)'
  <2>1. SameWork(req'[r], q)
    BY <1>5, <1>7, BeginShape
  <2>2. Resting(i)' /\ rows'[i] # "none"
    BY <1>3, <1>5, <1>7, <1>11 DEF Resting, Owned
  <2>. QED
    BY <1>5, <2>1, <2>2 DEF Midway, SameWork
<1>12. \A i \in Image : i \notin Owned(q) =>
         /\ rows'[i] = rows[i]
         /\ q.kind \in {"update", "delete"} => q.copy[i] = rows[i]
  BY <1>5, <1>7
<1>13. \A i \in Image : i \in Owned(q) /\ Resting(i) /\ tags'[i] = tags[i] =>
         Midway(req[r], i)'
  BY <1>11
<1>14. \A i \in Image : Clean(i)' => Sound(i)'
  BY <1>5, <1>7, <1>10, <1>12, <1>13, BeginSound
<1>. QED
  BY <1>10, <1>14

(***************************************************************************)
(* A request goes on, or ends.                                             *)
(***************************************************************************)

LEMMA GoShape ==
  ASSUME TypeOK, NEW r \in Request, NEW w \in Work, Go(r, w)
  PROVE  /\ req' \in [Request -> Work] /\ req'[r] = w
         /\ \A s \in Request \ {r} : req'[s] = req[s]
BY DEF TypeOK, Go

LEMMA GoNeighbours ==
  ASSUME TypeOK, Stages, Neighbours, NEW r \in Request, NEW w \in Work, Go(r, w),
         \A i \in Image : "mixed" \in tags[i] => "mixed" \in tags'[i],
         \/ w = Over
         \/ /\ Running(r) /\ w.kind = req[r].kind /\ w.mixed = req[r].mixed
            /\ w.mixed => \A i \in Owned(w) : i \in Owned(req[r]) \/ "mixed" \in tags'[i]
            /\ \A s \in Request \ {r} : req[s].new \cap w.new \subseteq req[r].new
  PROVE  Neighbours'
<1>1. /\ req'[r] = w /\ \A s \in Request \ {r} : req'[s] = req[s]
      /\ \A s \in Request : req[s] \in Work /\ req'[s] \in Work
  BY GoShape DEF TypeOK
<1>2. \A s \in Request \ {r} :
         Running(r)' /\ Running(s)' =>
            \/ req'[r].mixed /\ req'[s].mixed
            \/ /\ req'[r].kind = "import" /\ req'[s].kind = "import"
               /\ req'[r].new \cap req'[s].new = {}
  <2>1. CASE w = Over
    BY <1>1, <2>1, Empty DEF Running
  <2>2. CASE /\ Running(r) /\ w.kind = req[r].kind /\ w.mixed = req[r].mixed
             /\ \A s \in Request \ {r} : req[s].new \cap w.new \subseteq req[r].new
    BY <1>1, <2>2 DEF Running, Neighbours
  <2>. QED
    BY <2>1, <2>2
<1>3. \A s, u \in Request \ {r} :
         s # u /\ Running(s)' /\ Running(u)' =>
            \/ req'[s].mixed /\ req'[u].mixed
            \/ /\ req'[s].kind = "import" /\ req'[u].kind = "import"
               /\ req'[s].new \cap req'[u].new = {}
  BY <1>1 DEF Running, Neighbours
<1>4. \A s \in Request : Owned(req'[s]) \subseteq Image /\ Owned(req[s]) \subseteq Image
  BY <1>1 DEF Work, Owned
<1>5. \A s \in Request : req'[s].mixed => \A i \in Owned(req'[s]) : "mixed" \in tags'[i]
  <2>1. \A s \in Request \ {r} :
           req'[s].mixed => \A i \in Owned(req'[s]) : "mixed" \in tags'[i]
    BY <1>1, <1>4 DEF Neighbours
  <2>2. req'[r].mixed => \A i \in Owned(req'[r]) : "mixed" \in tags'[i]
    BY <1>1, <1>4, Empty DEF Neighbours
  <2>. QED
    BY <2>1, <2>2
<1>. QED
  BY <1>2, <1>3, <1>5 DEF Neighbours

\* A step that names nothing keeps stages, names and neighbours.
LEMMA GoKept ==
  ASSUME TypeOK, Stages, Names, Neighbours, NEW r \in Request,
         NEW w \in Work, Go(r, w), Staged(w), UNCHANGED codeOf,
         \A i \in Image : "mixed" \in tags[i] => "mixed" \in tags'[i],
         \A i \in Image : codeOf[i] = NoCode =>
            rows'[i] = "none" /\ files'[i] = "none" /\ i \notin index' /\ tags'[i] = {},
         \/ w = Over
         \/ /\ Running(r) /\ w.kind = req[r].kind /\ w.mixed = req[r].mixed
            /\ w.code = req[r].code /\ w.copy = req[r].copy
            /\ w.new = req[r].new /\ w.drop = req[r].drop
  PROVE  (Stages /\ Names /\ Neighbours)'
<1>1. /\ req'[r] = w /\ \A s \in Request \ {r} : req'[s] = req[s]
  BY GoShape
<1>2. Stages'
  BY <1>1 DEF Stages
<1>3. Named(req[r])'
  <2>1. CASE w = Over
    BY <1>1, <2>1, Empty DEF Named, Owned
  <2>2. CASE w # Over
    BY <1>1, <2>2 DEF Names, Named, Owned
  <2>. QED
    BY <2>1, <2>2
<1>4. Names'
  BY <1>1, <1>3 DEF Names, Named
<1>5. Neighbours'
  BY GoNeighbours DEF Owned
<1>. QED
  BY <1>2, <1>4, <1>5

\* What a step must show of the images when the request goes on with those it had.
LEMMA GoSound ==
  ASSUME TypeOK, Stages, Names, Neighbours, \A i \in Image : Clean(i) => Sound(i),
         (TypeOK /\ Stages /\ Names /\ Neighbours)',
         NEW r \in Request, NEW w \in Work, Go(r, w),
         w.kind = req[r].kind, w.copy = req[r].copy,
         w.new = req[r].new, w.drop = req[r].drop,
         \A i \in Image : Clean(i)' => Clean(i),
         \A i \in Image : i \notin Owned(w) => Unmoved(i),
         \A i \in Image : i \in Owned(w) /\ Midway(req[r], i) => Midway(req[r], i)'
  PROVE  \A i \in Image : Clean(i)' => Sound(i)'
<1>1. req'[r] = w /\ \A s \in Request \ {r} : SameWork(req'[s], req[s])
  BY GoShape DEF SameWork
<1>2. ASSUME NEW i \in Image, Clean(i)' PROVE Lands(r, i)
  <2>1. Clean(i) /\ Sound(i)
    BY <1>2
  <2>2. Owned(w) = Owned(req[r])
    BY DEF Owned
  <2>3. CopyHolds(req[r], i)'
    BY <1>1, <2>1, <2>2 DEF Sound, CopyHolds, Unmoved
  <2>. QED
    BY <1>1, <2>1, <2>2, <2>3 DEF Lands, Sound
<1>. QED
  BY <1>1, <1>2, StepSound

\* What a step must show of the images when the request ends.
LEMMA OverSound ==
  ASSUME TypeOK, Stages, Names, Neighbours, \A i \in Image : Clean(i) => Sound(i),
         (TypeOK /\ Stages /\ Names /\ Neighbours)',
         NEW r \in Request, Go(r, Over),
         \A i \in Image : Clean(i)' => Clean(i),
         \A i \in Image : Clean(i)' /\ i \notin Owned(req[r]) /\ CopyHolds(req[r], i) => Unmoved(i),
         \A i \in Image : Clean(i)' /\ i \in Owned(req[r]) /\ Midway(req[r], i) => Resting(i)'
  PROVE  \A i \in Image : Clean(i)' => Sound(i)'
<1>1. req'[r] = Over /\ \A s \in Request \ {r} : SameWork(req'[s], req[s])
  BY Empty, GoShape DEF SameWork
<1>2. ASSUME NEW i \in Image, Clean(i)' PROVE Lands(r, i)
  <2>1. Clean(i) /\ Sound(i)
    BY <1>2
  <2>2. Owned(req'[r]) = {}
    BY <1>1, Empty DEF Owned
  <2>3. CopyHolds(req[r], i)'
    BY <1>1, Empty DEF CopyHolds
  <2>. QED
    BY <1>2, <2>1, <2>2, <2>3 DEF Lands, Sound
<1>. QED
  BY <1>1, <1>2, StepSound

\* A step that changes the stage of a request and nothing else.
LEMMA StageChanges ==
  ASSUME IInv, NEW r \in Request, NEW pc \in PC, Running(r),
         Go(r, [req[r] EXCEPT !.pc = pc]), pc \notin {"idle", "done", "storing"},
         UNCHANGED <<rows, files, folders, index, codeOf, tags>>,
         Staged([req[r] EXCEPT !.pc = pc]),
         \A i \in Image : i \in Owned(req[r]) /\ Midway(req[r], i) => Midway(req[r], i)'
  PROVE  IInv'
<1>. USE DEF IInv
<1>1. PICK w : w = [req[r] EXCEPT !.pc = pc]
  OBVIOUS
<1>2. /\ w \in Work /\ w.kind = req[r].kind /\ w.mixed = req[r].mixed
      /\ w.code = req[r].code /\ w.copy = req[r].copy
      /\ w.new = req[r].new /\ w.drop = req[r].drop
  BY <1>1 DEF TypeOK, Work
<1>3. Go(r, w) /\ Staged(w)
  BY <1>1
<1>4. TypeOK'
  BY <1>2, <1>3, GoShape DEF TypeOK
<1>5. (Stages /\ Names /\ Neighbours)'
  <2>1. \A i \in Image : codeOf[i] = NoCode =>
           rows'[i] = "none" /\ files'[i] = "none" /\ i \notin index' /\ tags'[i] = {}
    BY DEF Names
  <2>. QED
    BY <1>2, <1>3, <2>1, GoKept
<1>6. \A i \in Image : Clean(i)' => Sound(i)'
  <2>1. \A i \in Image : (Clean(i)' => Clean(i)) /\ Unmoved(i)
    BY DEF Clean, Unmoved
  <2>2. \A i \in Image : i \in Owned(w) /\ Midway(req[r], i) => Midway(req[r], i)'
    BY <1>2 DEF Owned
  <2>. QED
    BY <1>2, <1>3, <1>4, <1>5, <2>1, <2>2, GoSound
<1>. QED
  BY <1>4, <1>5, <1>6

LEMMA EmbedKeeps ==
  ASSUME IInv, NEW r \in Request, Embed(r)
  PROVE  IInv'
<1>1. PICK w : w = [req[r] EXCEPT !.pc = "upserting"]
  OBVIOUS
<1>2. req[r] \in Work /\ Staged(req[r]) /\ req[r].pc = "embedding" /\ Go(r, w)
      /\ UNCHANGED <<rows, files, folders, index, codeOf, tags>>
  BY <1>1 DEF IInv, TypeOK, Stages, Embed
<1>3. /\ w.pc = "upserting" /\ w.kind = req[r].kind /\ w.code = req[r].code
      /\ w.copy = req[r].copy /\ w.written = req[r].written /\ w.left = req[r].left
      /\ w.new = req[r].new /\ w.drop = req[r].drop /\ w.at = req[r].at
  BY <1>1, <1>2 DEF Work
<1>4. Staged(w)
  BY <1>2, <1>3 DEF Staged
<1>5. req'[r] = w
  BY <1>2 DEF Go, IInv, TypeOK
<1>6. ASSUME NEW i \in Image, i \in Owned(req[r]), Midway(req[r], i)
      PROVE  Midway(req[r], i)'
  <2>1. Arriving(req[r], i) => Arriving(req[r], i)'
    BY <1>2, <1>3, <1>5 DEF Arriving
  <2>2. Leaving(req[r], i) => Leaving(req[r], i)'
    BY <1>2, <1>3, <1>5 DEF Leaving
  <2>3. Resting(i) => Resting(i)'
    BY <1>2 DEF Resting
  <2>. QED
    BY <1>2, <1>3, <1>5, <1>6, <2>1, <2>2, <2>3 DEF Midway
<1>7. Running(r) /\ "upserting" \in PC
  BY <1>2 DEF Running, PC
<1>. QED
  BY <1>1, <1>2, <1>4, <1>6, <1>7, StageChanges

LEMMA ReadKeeps ==
  ASSUME IInv, NEW r \in Request, ReadForThumbnail(r)
  PROVE  IInv'
<1>1. PICK w : w = [req[r] EXCEPT !.pc = "replacing"]
  OBVIOUS
<1>2. req[r] \in Work /\ Staged(req[r]) /\ req[r].pc = "shrinking" /\ Go(r, w)
      /\ UNCHANGED <<rows, files, folders, index, codeOf, tags>>
  BY <1>1 DEF IInv, TypeOK, Stages, ReadForThumbnail
<1>3. /\ w.pc = "replacing" /\ w.kind = req[r].kind /\ w.code = req[r].code
      /\ w.copy = req[r].copy /\ w.written = req[r].written /\ w.left = req[r].left
      /\ w.new = req[r].new /\ w.drop = req[r].drop /\ w.at = req[r].at
  BY <1>1, <1>2 DEF Work
<1>4. Staged(w)
  BY <1>2, <1>3 DEF Staged
<1>5. req'[r] = w
  BY <1>2 DEF Go, IInv, TypeOK
<1>6. ASSUME NEW i \in Image, i \in Owned(req[r]), Midway(req[r], i)
      PROVE  Midway(req[r], i)'
  <2>1. Arriving(req[r], i) => Arriving(req[r], i)'
    BY <1>2, <1>3, <1>5 DEF Arriving
  <2>2. Leaving(req[r], i) => Leaving(req[r], i)'
    BY <1>2, <1>3, <1>5 DEF Leaving
  <2>3. req[r].kind # "rebuild"
    BY <1>2 DEF Staged
  <2>. QED
    BY <1>2, <1>3, <1>5, <1>6, <2>1, <2>2, <2>3 DEF Midway
<1>7. Running(r) /\ "replacing" \in PC
  BY <1>2 DEF Running, PC
<1>. QED
  BY <1>1, <1>2, <1>4, <1>6, <1>7, StageChanges

LEMMA FailureKeeps ==
  ASSUME IInv, NEW r \in Request, ThreadFails(r)
  PROVE  IInv'
<1>1. PICK w : w = [req[r] EXCEPT !.pc = "failing"]
  OBVIOUS
<1>2. /\ req[r] \in Work /\ Staged(req[r]) /\ Go(r, w)
      /\ req[r].pc \in {"dropping", "embedding", "upserting", "shrinking", "replacing"}
      /\ UNCHANGED <<rows, files, folders, index, codeOf, tags>>
  BY <1>1 DEF IInv, TypeOK, Stages, ThreadFails
<1>3. /\ w.pc = "failing" /\ w.kind = req[r].kind /\ w.code = req[r].code
      /\ w.copy = req[r].copy /\ w.written = req[r].written /\ w.left = req[r].left
      /\ w.new = req[r].new /\ w.drop = req[r].drop /\ w.at = req[r].at
  BY <1>1, <1>2 DEF Work
<1>4. Staged(w)
  BY <1>2, <1>3 DEF Staged
<1>5. req'[r] = w
  BY <1>2 DEF Go, IInv, TypeOK
<1>6. ASSUME NEW i \in Image, i \in Owned(req[r]), Midway(req[r], i)
      PROVE  Midway(req[r], i)'
  <2>1. Arriving(req[r], i) => Arriving(req[r], i)'
    BY <1>2, <1>3, <1>5 DEF Arriving
  <2>2. Leaving(req[r], i) => Leaving(req[r], i)'
    BY <1>2, <1>3, <1>5 DEF Leaving
  <2>3. Resting(i) => Resting(i)'
    BY <1>2 DEF Resting
  <2>. QED
    BY <1>2, <1>3, <1>5, <1>6, <2>1, <2>2, <2>3 DEF Midway
<1>7. Running(r) /\ "failing" \in PC
  BY <1>2 DEF Running, PC
<1>. QED
  BY <1>1, <1>2, <1>4, <1>6, <1>7, StageChanges

LEMMA DropKeeps ==
  ASSUME IInv, NEW r \in Request, DropFromIndex(r)
  PROVE  IInv'
<1>. USE DEF IInv
<1>1. PICK pc : pc = IF req[r].new # {} THEN "embedding" ELSE "removing"
  OBVIOUS
<1>2. PICK w : w = [req[r] EXCEPT !.pc = pc]
  OBVIOUS
<1>3. /\ req[r] \in Work /\ Staged(req[r]) /\ Go(r, w) /\ req[r].pc = "dropping"
      /\ index' = index \ req[r].drop
      /\ tags' = [i \in Image |-> IF i \in req[r].drop THEN tags[i] \cup {"withdrawn"} ELSE tags[i]]
      /\ UNCHANGED <<rows, files, folders, codeOf>>
  BY <1>1, <1>2 DEF TypeOK, Stages, DropFromIndex, Tagged
<1>4. /\ w.pc = pc /\ w.kind = req[r].kind /\ w.code = req[r].code
      /\ w.copy = req[r].copy /\ w.written = req[r].written /\ w.left = req[r].left
      /\ w.new = req[r].new /\ w.drop = req[r].drop /\ w.at = req[r].at
      /\ w.mixed = req[r].mixed /\ w \in Work
  BY <1>1, <1>2, <1>3 DEF Work, PC
<1>5. Staged(w) /\ Running(r)
  BY <1>1, <1>3, <1>4 DEF Staged, Running
<1>6. req'[r] = w
  BY <1>3 DEF Go, TypeOK
<1>7. TypeOK'
  <2>1. tags' \in [Image -> SUBSET Tag]
    BY <1>3 DEF TypeOK, Tag
  <2>2. req' \in [Request -> Work]
    BY <1>3, <1>4, GoShape
  <2>. QED
    BY <1>3, <2>1, <2>2 DEF TypeOK
<1>8. (Stages /\ Names /\ Neighbours)'
  <2>1. \A i \in Image : codeOf[i] = NoCode =>
           rows'[i] = "none" /\ files'[i] = "none" /\ i \notin index' /\ tags'[i] = {}
    BY <1>3 DEF Names, Named, Owned
  <2>2. \A i \in Image : "mixed" \in tags[i] => "mixed" \in tags'[i]
    BY <1>3
  <2>. QED
    BY <1>3, <1>4, <1>5, <2>1, <2>2, GoKept
<1>9. ASSUME NEW i \in Image, i \in Owned(w), Midway(req[r], i)
      PROVE  Midway(req[r], i)'
  <2>0. req[r].kind # "rebuild"
    BY <1>3 DEF Staged
  <2>1. i \in w.new => Arriving(req[r], i)'
    <3>1. SUFFICES ASSUME i \in w.new PROVE Arriving(req[r], i)'
      OBVIOUS
    <3>2. Arriving(req[r], i) /\ i \notin req[r].drop
      BY <1>4, <1>9, <2>0, <3>1 DEF Midway, Leaving
    <3>3. pc = "embedding"
      BY <1>1, <1>4, <3>1
    <3>. QED
      BY <1>3, <1>4, <1>6, <3>2, <3>3 DEF Arriving
  <2>2. i \in w.drop => Leaving(req[r], i)'
    <3>1. SUFFICES ASSUME i \in w.drop PROVE Leaving(req[r], i)'
      OBVIOUS
    <3>2. Leaving(req[r], i)
      BY <1>4, <1>9, <3>1 DEF Midway
    <3>3. i \notin index' /\ tags'[i] = tags[i] \cup {"withdrawn"}
      BY <1>3, <1>4, <3>1
    <3>. QED
      BY <1>3, <1>4, <1>6, <3>2, <3>3 DEF Leaving
  <2>. QED
    BY <1>4, <1>6, <2>0, <2>1, <2>2 DEF Midway
<1>10. \A i \in Image : Clean(i)' => Clean(i)
  BY <1>3 DEF Clean
<1>11. \A i \in Image : i \notin Owned(w) => Unmoved(i)
  BY <1>3, <1>4 DEF Owned, Unmoved
<1>12. \A i \in Image : i \in Owned(w) /\ Midway(req[r], i) => Midway(req[r], i)'
  BY <1>9
<1>13. \A i \in Image : Clean(i)' => Sound(i)'
  BY <1>3, <1>4, <1>7, <1>8, <1>10, <1>11, <1>12, GoSound
<1>. QED
  BY <1>7, <1>8, <1>13

LEMMA UpsertKeeps ==
  ASSUME IInv, NEW r \in Request, Upsert(r), req[r].kind # "rebuild"
  PROVE  IInv'
<1>. USE DEF IInv
<1>2. PICK w : w = [req[r] EXCEPT !.pc = "shrinking", !.at = req[r].new]
  OBVIOUS
<1>3. /\ req[r] \in Work /\ Staged(req[r]) /\ Go(r, w) /\ req[r].pc = "upserting"
      /\ index' = index \cup req[r].new
      /\ UNCHANGED <<rows, files, folders, codeOf, tags>>
  BY <1>2 DEF TypeOK, Stages, Upsert
<1>4. /\ w.pc = "shrinking" /\ w.kind = req[r].kind /\ w.code = req[r].code
      /\ w.copy = req[r].copy /\ w.written = req[r].written /\ w.left = req[r].left
      /\ w.new = req[r].new /\ w.drop = req[r].drop /\ w.at = req[r].new
      /\ w.mixed = req[r].mixed /\ w \in Work
  BY <1>2, <1>3 DEF Work, PC
<1>5. Staged(w) /\ Running(r)
  BY <1>3, <1>4 DEF Staged, Running
<1>6. req'[r] = w
  BY <1>3 DEF Go, TypeOK
<1>7. TypeOK'
  <2>1. req' \in [Request -> Work]
    BY <1>3, <1>4, GoShape
  <2>2. index' \subseteq Image
    BY <1>3 DEF TypeOK, Work
  <2>. QED
    BY <1>3, <2>1, <2>2 DEF TypeOK
<1>8. (Stages /\ Names /\ Neighbours)'
  <2>1. \A i \in Image : codeOf[i] = NoCode =>
           rows'[i] = "none" /\ files'[i] = "none" /\ i \notin index' /\ tags'[i] = {}
    BY <1>3 DEF Names, Named, Owned
  <2>2. \A i \in Image : "mixed" \in tags[i] => "mixed" \in tags'[i]
    BY <1>3
  <2>. QED
    BY <1>3, <1>4, <1>5, <2>1, <2>2, GoKept
<1>9. ASSUME NEW i \in Image, i \in Owned(w), Midway(req[r], i)
      PROVE  Midway(req[r], i)'
  <2>1. i \in w.new => Arriving(req[r], i)'
    <3>1. SUFFICES ASSUME i \in w.new PROVE Arriving(req[r], i)'
      OBVIOUS
    <3>2. Arriving(req[r], i)
      BY <1>4, <1>9, <3>1 DEF Midway
    <3>3. i \in index'
      BY <1>3, <1>4, <3>1
    <3>. QED
      BY <1>3, <1>4, <1>6, <3>1, <3>2, <3>3 DEF Arriving
  <2>2. i \in w.drop => Leaving(req[r], i)'
    <3>1. SUFFICES ASSUME i \in w.drop PROVE Leaving(req[r], i)'
      OBVIOUS
    <3>2. Leaving(req[r], i)
      BY <1>4, <1>9, <3>1 DEF Midway
    <3>3. i \in index' <=> i \in index
      BY <1>3, <3>2 DEF Leaving
    <3>. QED
      BY <1>3, <1>4, <1>6, <3>2, <3>3 DEF Leaving
  <2>. QED
    BY <1>4, <1>6, <2>1, <2>2 DEF Midway
<1>10. \A i \in Image : Clean(i)' => Clean(i)
  BY <1>3 DEF Clean
<1>11. \A i \in Image : i \notin Owned(w) => Unmoved(i)
  BY <1>3, <1>4 DEF Owned, Unmoved
<1>12. \A i \in Image : i \in Owned(w) /\ Midway(req[r], i) => Midway(req[r], i)'
  BY <1>9
<1>13. \A i \in Image : Clean(i)' => Sound(i)'
  BY <1>3, <1>4, <1>7, <1>8, <1>10, <1>11, <1>12, GoSound
<1>. QED
  BY <1>7, <1>8, <1>13

LEMMA ReplaceKeeps ==
  ASSUME IInv, NEW r \in Request, ReplaceByThumbnail(r)
  PROVE  IInv'
<1>. USE DEF IInv
<1>0. req[r] \in Work /\ Staged(req[r]) /\ req[r].pc = "replacing"
  BY DEF TypeOK, Stages, ReplaceByThumbnail
<1>1. PICK j \in Image : j = Min(req[r].at) /\ j \in req[r].at
  BY <1>0, MinIsMember DEF Work, Staged
<1>2. PICK S \in SUBSET Image : S = req[r].at \ {j}
  BY <1>0 DEF Work
<1>a. PICK pc : pc = IF S = {} THEN "refreshing" ELSE "shrinking"
  OBVIOUS
<1>b. PICK w : w = [req[r] EXCEPT !.at = S, !.pc = pc]
  OBVIOUS
<1>3. /\ Go(r, w) /\ files' = [files EXCEPT ![j] = "thumb"]
      /\ UNCHANGED <<rows, folders, index, codeOf, tags>>
  BY <1>1, <1>2, <1>a, <1>b DEF ReplaceByThumbnail
<1>4. /\ w.pc = pc /\ w.kind = req[r].kind /\ w.code = req[r].code
      /\ w.copy = req[r].copy /\ w.written = req[r].written /\ w.left = req[r].left
      /\ w.new = req[r].new /\ w.drop = req[r].drop /\ w.at = S
      /\ w.mixed = req[r].mixed /\ w \in Work
  BY <1>0, <1>a, <1>b DEF Work, PC
<1>c. j \in req[r].new /\ req[r].kind # "rebuild"
  BY <1>0, <1>1 DEF Staged
<1>5. Staged(w) /\ Running(r)
  BY <1>0, <1>2, <1>4, <1>a DEF Staged, Running
<1>6. req'[r] = w
  BY <1>3 DEF Go, TypeOK
<1>7. TypeOK'
  <2>1. req' \in [Request -> Work]
    BY <1>3, <1>4, GoShape
  <2>2. files' \in [Image -> Size]
    BY <1>3 DEF TypeOK, Size
  <2>. QED
    BY <1>3, <2>1, <2>2 DEF TypeOK
<1>8. (Stages /\ Names /\ Neighbours)'
  <2>1. \A i \in Image : codeOf[i] = NoCode =>
           rows'[i] = "none" /\ files'[i] = "none" /\ i \notin index' /\ tags'[i] = {}
    BY <1>3, <1>c DEF Names, Named, Owned, TypeOK
  <2>2. \A i \in Image : "mixed" \in tags[i] => "mixed" \in tags'[i]
    BY <1>3
  <2>. QED
    BY <1>3, <1>4, <1>5, <2>1, <2>2, GoKept
<1>9. ASSUME NEW i \in Image, i \in Owned(w), Midway(req[r], i)
      PROVE  Midway(req[r], i)'
  <2>1. i \in w.new => Arriving(req[r], i)'
    <3>1. SUFFICES ASSUME i \in w.new PROVE Arriving(req[r], i)'
      OBVIOUS
    <3>2. Arriving(req[r], i)
      BY <1>4, <1>9, <1>c, <3>1 DEF Midway
    <3>3. files'[i] = IF i = j THEN "thumb" ELSE files[i]
      BY <1>3 DEF TypeOK
    <3>4. i \notin S <=> i = j \/ i \notin req[r].at
      BY <1>2
    <3>. QED
      BY <1>0, <1>1, <1>3, <1>4, <1>6, <1>a, <3>2, <3>3, <3>4 DEF Arriving
  <2>2. i \in w.drop => Leaving(req[r], i)'
    <3>1. SUFFICES ASSUME i \in w.drop PROVE Leaving(req[r], i)'
      OBVIOUS
    <3>2. Leaving(req[r], i)
      BY <1>4, <1>9, <3>1 DEF Midway
    <3>3. files'[i] = files[i]
      BY <1>3, <1>c, <3>2 DEF Leaving, TypeOK
    <3>. QED
      BY <1>0, <1>3, <1>4, <1>6, <1>a, <3>2, <3>3 DEF Leaving
  <2>. QED
    BY <1>4, <1>6, <1>c, <2>1, <2>2 DEF Midway
<1>10. \A i \in Image : Clean(i)' => Clean(i)
  BY <1>3 DEF Clean
<1>11. \A i \in Image : i \notin Owned(w) => Unmoved(i)
  BY <1>3, <1>4, <1>c DEF Owned, Unmoved, TypeOK
<1>12. \A i \in Image : i \in Owned(w) /\ Midway(req[r], i) => Midway(req[r], i)'
  BY <1>9
<1>13. \A i \in Image : Clean(i)' => Sound(i)'
  BY <1>3, <1>4, <1>7, <1>8, <1>10, <1>11, <1>12, GoSound
<1>. QED
  BY <1>7, <1>8, <1>13

\* A request ends: what is left to show of the step.
LEMMA OverKeeps ==
  ASSUME IInv, NEW r \in Request, Go(r, Over), UNCHANGED codeOf,
         rows' \in [Image -> Size], files' \in [Image -> Size],
         folders' \subseteq Folder, index' \subseteq Image,
         tags' \in [Image -> SUBSET Tag],
         \A i \in Image : /\ "mixed" \in tags[i] => "mixed" \in tags'[i]
                          /\ Clean(i)' => Clean(i),
         \A i \in Image : codeOf[i] = NoCode =>
            rows'[i] = "none" /\ files'[i] = "none" /\ i \notin index' /\ tags'[i] = {},
         \A i \in Image : Clean(i)' /\ i \notin Owned(req[r]) /\ CopyHolds(req[r], i) => Unmoved(i),
         \A i \in Image : Clean(i)' /\ i \in Owned(req[r]) /\ Midway(req[r], i) => Resting(i)'
  PROVE  IInv'
<1>. USE DEF IInv
<1>1. TypeOK'
  <2>1. req' \in [Request -> Work]
    BY Empty, GoShape
  <2>. QED
    BY <2>1 DEF TypeOK
<1>2. (Stages /\ Names /\ Neighbours)'
  BY Empty, GoKept
<1>3. \A i \in Image : Clean(i)' => Sound(i)'
  BY <1>1, <1>2, OverSound
<1>. QED
  BY <1>1, <1>2, <1>3

LEMMA StoreFailureKeeps ==
  ASSUME IInv, NEW r \in Request, StoreFails(r)
  PROVE  IInv'
<1>. USE DEF IInv
<1>1. /\ req[r] \in Work /\ Staged(req[r]) /\ req[r].pc = "storing" /\ Go(r, Over)
      /\ files' = [i \in Image |-> IF i \in req[r].new THEN "none" ELSE files[i]]
      /\ tags' = [i \in Image |-> IF i \in req[r].new THEN tags[i] \cup {"failed"} ELSE tags[i]]
      /\ UNCHANGED <<rows, folders, index, codeOf>>
  BY DEF TypeOK, Stages, StoreFails, With, Tagged
<1>2. /\ rows' \in [Image -> Size] /\ files' \in [Image -> Size]
      /\ folders' \subseteq Folder /\ index' \subseteq Image
      /\ tags' \in [Image -> SUBSET Tag]
  BY <1>1 DEF TypeOK, Size, Tag
<1>3. \A i \in Image : /\ "mixed" \in tags[i] => "mixed" \in tags'[i]
                       /\ Clean(i)' => Clean(i)
  BY <1>1 DEF Clean
<1>4. \A i \in Image : codeOf[i] = NoCode =>
         rows'[i] = "none" /\ files'[i] = "none" /\ i \notin index' /\ tags'[i] = {}
  BY <1>1 DEF Names, Named, Owned
<1>5. \A i \in Image : i \notin Owned(req[r]) => Unmoved(i)
  BY <1>1 DEF Owned, Unmoved
<1>6. ASSUME NEW i \in Image, i \in Owned(req[r]), Midway(req[r], i)
      PROVE  Resting(i)'
  <2>1. req[r].kind # "rebuild" /\ ~req[r].written
    BY <1>1 DEF Staged, Work, Kind
  <2>2. CASE i \in req[r].new
    <3>1. rows[i] = "none"
      BY <1>1, <1>6, <2>1, <2>2 DEF Midway, Arriving
    <3>. QED
      BY <1>1, <2>2, <3>1 DEF Resting
  <2>3. CASE i \in req[r].drop
    <3>1. Leaving(req[r], i)
      BY <1>6, <2>3 DEF Midway
    <3>. QED
      BY <1>1, <2>1, <3>1 DEF Leaving, Resting
  <2>. QED
    BY <1>6, <2>2, <2>3 DEF Owned
<1>. QED
  BY <1>1, <1>2, <1>3, <1>4, <1>5, <1>6, OverKeeps

LEMMA RebuildKeeps ==
  ASSUME IInv, NEW r \in Request, Upsert(r), req[r].kind = "rebuild"
  PROVE  IInv'
<1>. USE DEF IInv
<1>1. /\ req[r] \in Work /\ Staged(req[r]) /\ Go(r, Over)
      /\ index' = index \cup req[r].new
      /\ tags' = [i \in Image |-> tags[i] \ IF i \in req[r].new THEN {"withdrawn"} ELSE {}]
      /\ UNCHANGED <<rows, files, folders, codeOf>>
  BY DEF TypeOK, Stages, Upsert
<1>2. /\ rows' \in [Image -> Size] /\ files' \in [Image -> Size]
      /\ folders' \subseteq Folder /\ index' \subseteq Image
      /\ tags' \in [Image -> SUBSET Tag]
  BY <1>1 DEF TypeOK, Work
<1>3. \A i \in Image : /\ "mixed" \in tags[i] => "mixed" \in tags'[i]
                       /\ Clean(i)' => Clean(i)
  BY <1>1 DEF Clean
<1>4. \A i \in Image : codeOf[i] = NoCode =>
         rows'[i] = "none" /\ files'[i] = "none" /\ i \notin index' /\ tags'[i] = {}
  BY <1>1 DEF Names, Named, Owned
<1>5. \A i \in Image : i \notin Owned(req[r]) => Unmoved(i)
  BY <1>1 DEF Owned, Unmoved
<1>6. ASSUME NEW i \in Image, i \in Owned(req[r]), Midway(req[r], i)
      PROVE  Resting(i)'
  <2>1. i \in req[r].new
    BY <1>1, <1>6 DEF Staged, Owned
  <2>2. Resting(i) /\ rows[i] # "none"
    BY <1>6, <2>1 DEF Midway
  <2>. QED
    BY <1>1, <2>1, <2>2 DEF Resting
<1>. QED
  BY <1>1, <1>2, <1>3, <1>4, <1>5, <1>6, OverKeeps

LEMMA SuccessKeeps ==
  ASSUME IInv, NEW r \in Request, Succeed(r)
  PROVE  IInv'
<1>. USE DEF IInv
<1>1. /\ req[r] \in Work /\ Staged(req[r]) /\ Go(r, Over)
      /\ req[r].kind \in {"import", "update"} /\ req[r].pc \in {"refreshing", "removing"}
      /\ rows' = [i \in Image |-> IF i \in req[r].new /\ rows[i] # "none" THEN "thumb" ELSE rows[i]]
      /\ files' = [i \in Image |-> IF i \in req[r].drop THEN "none" ELSE files[i]]
      /\ UNCHANGED <<folders, index, codeOf, tags>>
  BY DEF TypeOK, Stages, Succeed, With, Refreshed
<1>2. /\ rows' \in [Image -> Size] /\ files' \in [Image -> Size]
      /\ folders' \subseteq Folder /\ index' \subseteq Image
      /\ tags' \in [Image -> SUBSET Tag]
  BY <1>1 DEF TypeOK, Size
<1>3. \A i \in Image : /\ "mixed" \in tags[i] => "mixed" \in tags'[i]
                       /\ Clean(i)' => Clean(i)
  BY <1>1 DEF Clean
<1>4. \A i \in Image : codeOf[i] = NoCode =>
         rows'[i] = "none" /\ files'[i] = "none" /\ i \notin index' /\ tags'[i] = {}
  BY <1>1 DEF Names
<1>5. \A i \in Image : i \notin Owned(req[r]) => Unmoved(i)
  BY <1>1 DEF Owned, Unmoved
<1>6. ASSUME NEW i \in Image, i \in Owned(req[r]), Midway(req[r], i)
      PROVE  Resting(i)'
  <2>1. req[r].written /\ req[r].kind # "rebuild"
    BY <1>1 DEF Staged
  <2>2. CASE i \in req[r].new
    <3>1. i \notin req[r].drop
      BY <1>6, <2>2 DEF Midway, Leaving
    <3>2. req[r].pc = "refreshing" /\ i \notin req[r].at
      BY <1>1, <2>2 DEF Staged
    <3>3. rows[i] = "ready" /\ files[i] = "thumb" /\ i \in index /\ "withdrawn" \notin tags[i]
      BY <1>6, <2>1, <2>2, <3>2 DEF Midway, Arriving
    <3>. QED
      BY <1>1, <2>2, <3>1, <3>3 DEF Resting
  <2>3. CASE i \in req[r].drop
    <3>1. Leaving(req[r], i)
      BY <1>6, <2>3 DEF Midway
    <3>2. rows[i] = "none" /\ i \notin index
      BY <1>1, <2>1, <3>1 DEF Leaving
    <3>. QED
      BY <1>1, <2>3, <3>2 DEF Resting
  <2>. QED
    BY <1>6, <2>2, <2>3 DEF Owned
<1>. QED
  BY <1>1, <1>2, <1>3, <1>4, <1>5, <1>6, OverKeeps

LEMMA RemovalKeeps ==
  ASSUME IInv, NEW r \in Request, RemoveFolder(r)
  PROVE  IInv'
<1>. USE DEF IInv
<1>0. PICK there : there = {i \in Image : codeOf[i] # NoCode /\ FolderOf[codeOf[i]] = FolderOf[req[r].code]}
  OBVIOUS
<1>1. /\ req[r] \in Work /\ Staged(req[r]) /\ Go(r, Over)
      /\ req[r].kind = "delete" /\ req[r].pc = "removing"
      /\ files' = [i \in Image |-> IF i \in there THEN "none" ELSE files[i]]
      /\ tags' = [i \in Image |-> IF i \in there \ req[r].drop THEN tags[i] \cup {"broken"} ELSE tags[i]]
      /\ folders' \subseteq folders
      /\ UNCHANGED <<rows, index, codeOf>>
  BY <1>0 DEF TypeOK, Stages, RemoveFolder, With, Tagged
<1>2. /\ rows' \in [Image -> Size] /\ files' \in [Image -> Size]
      /\ folders' \subseteq Folder /\ index' \subseteq Image
      /\ tags' \in [Image -> SUBSET Tag]
  BY <1>1 DEF TypeOK, Size, Tag
<1>3. \A i \in Image : /\ "mixed" \in tags[i] => "mixed" \in tags'[i]
                       /\ Clean(i)' => Clean(i)
  BY <1>1 DEF Clean
<1>4. \A i \in Image : codeOf[i] = NoCode =>
         rows'[i] = "none" /\ files'[i] = "none" /\ i \notin index' /\ tags'[i] = {}
  BY <1>0, <1>1 DEF Names
<1>5. ASSUME NEW i \in Image, Clean(i)'
      PROVE  i \notin there \ req[r].drop /\ tags'[i] = tags[i]
  <2>1. i \in there \ req[r].drop => "broken" \in tags'[i]
    BY <1>1
  <2>. QED
    BY <1>1, <1>5, <2>1 DEF Clean
<1>6. \A i \in Image : Clean(i)' /\ i \notin Owned(req[r]) => Unmoved(i)
  BY <1>1, <1>5 DEF Owned, Unmoved
<1>7. ASSUME NEW i \in Image, Clean(i)', i \in Owned(req[r]), Midway(req[r], i)
      PROVE  Resting(i)'
  <2>1. i \in req[r].drop /\ req[r].written
    BY <1>1, <1>7 DEF Staged, Owned
  <2>2. i \in there
    <3>1. codeOf[i] = req[r].code /\ req[r].code # NoCode
      BY <1>1, <2>1 DEF Names, Named, Staged
    <3>. QED
      BY <1>0, <3>1
  <2>3. rows[i] = "none" /\ i \notin index
    BY <1>1, <1>7, <2>1 DEF Midway, Leaving
  <2>. QED
    BY <1>1, <2>2, <2>3 DEF Resting
<1>. QED
  BY <1>1, <1>2, <1>3, <1>4, <1>6, <1>7, OverKeeps

\* What a rollback writes into the CSV.
LEMMA RestoredRows ==
  ASSUME IInv, NEW r \in Request, Running(r), req[r].pc # "storing"
  PROVE  /\ Restored(req[r]) \in [Image -> Size]
         /\ \A i \in Image : codeOf[i] = NoCode => Restored(req[r])[i] = "none"
         /\ \A i \in Image : i \notin Owned(req[r]) /\ CopyHolds(req[r], i) =>
               Restored(req[r])[i] = rows[i]
         /\ \A i \in req[r].drop : Restored(req[r])[i] = req[r].copy[i]
         /\ req[r].kind = "rebuild" => Restored(req[r]) = rows
         /\ req[r].kind # "rebuild" => \A i \in req[r].new : Restored(req[r])[i] = "none"
<1>1. req[r] \in Work /\ Staged(req[r]) /\ Named(req[r])
  BY DEF IInv, TypeOK, Stages, Names
<1>2. PICK q \in Work : q = req[r]
  BY <1>1
<1>3. \A i \in Image : codeOf[i] = NoCode => rows[i] = "none" /\ q.copy[i] = "none"
  BY <1>1, <1>2 DEF IInv, Names, Named
<1>4. rows \in [Image -> Size] /\ q.copy \in [Image -> Size] /\ Owned(q) \subseteq Image
  BY DEF IInv, TypeOK, Work, Owned
<1>5. CASE q.kind = "import"
  <2>1. Restored(q) = [i \in Image |-> IF i \in q.new THEN "none" ELSE rows[i]]
    BY <1>5 DEF Restored, With
  <2>2. q.drop = {}
    BY <1>1, <1>2, <1>5 DEF Staged
  <2>3. "none" \in Size
    BY DEF Size
  <2>. QED
    BY <1>2, <1>3, <1>4, <1>5, <2>1, <2>2, <2>3 DEF Owned
<1>6. CASE q.kind = "rebuild"
  <2>1. Restored(q) = rows /\ q.drop = {}
    BY <1>1, <1>2, <1>6 DEF Restored, Staged
  <2>. QED
    BY <1>2, <1>3, <1>4, <1>6, <2>1
<1>7. CASE q.kind \in {"update", "delete"}
  <2>1. Restored(q) = q.copy
    BY <1>1, <1>2, <1>7 DEF Restored, Staged
  <2>2. \A i \in q.new : q.copy[i] = "none"
    BY <1>1, <1>2, <1>4, <1>7 DEF Named, Owned
  <2>. QED
    BY <1>2, <1>3, <1>4, <1>7, <2>1, <2>2 DEF CopyHolds
<1>8. q.kind \in {"import", "update", "delete", "rebuild"}
  BY <1>1, <1>2 DEF Staged, Running, Work, Kind
<1>. QED
  BY <1>5, <1>6, <1>7, <1>8

LEMMA RollBackKeeps ==
  ASSUME IInv, NEW r \in Request, RollBack(r)
  PROVE  IInv'
<1>. USE DEF IInv
<1>0. PICK gone : gone = IF req[r].kind = "rebuild" THEN {} ELSE req[r].new
  OBVIOUS
<1>1. /\ req[r] \in Work /\ Staged(req[r]) /\ Go(r, Over) /\ req[r].pc = "failing"
      /\ rows' = Restored(req[r])
      /\ files' = [i \in Image |-> IF i \in gone THEN "none" ELSE files[i]]
      /\ tags' = [i \in Image |-> IF i \in gone THEN tags[i] \cup {"failed"} ELSE tags[i]]
      /\ UNCHANGED <<folders, index, codeOf>>
  BY <1>0 DEF TypeOK, Stages, RollBack, With, Tagged
<1>r. Running(r) /\ req[r].pc # "storing"
  BY <1>1 DEF Running
<1>2. /\ rows' \in [Image -> Size] /\ files' \in [Image -> Size]
      /\ folders' \subseteq Folder /\ index' \subseteq Image
      /\ tags' \in [Image -> SUBSET Tag]
  <2>1. rows' \in [Image -> Size]
    BY <1>1, <1>r, RestoredRows
  <2>. QED
    BY <1>1, <2>1 DEF TypeOK, Size, Tag
<1>3. \A i \in Image : /\ "mixed" \in tags[i] => "mixed" \in tags'[i]
                       /\ Clean(i)' => Clean(i)
  BY <1>1 DEF Clean
<1>4. \A i \in Image : codeOf[i] = NoCode =>
         rows'[i] = "none" /\ files'[i] = "none" /\ i \notin index' /\ tags'[i] = {}
  <2>1. \A i \in Image : codeOf[i] = NoCode => rows'[i] = "none"
    BY <1>1, <1>r, RestoredRows
  <2>. QED
    BY <1>0, <1>1, <2>1 DEF Names, Named, Owned
<1>5. \A i \in Image : i \notin Owned(req[r]) /\ CopyHolds(req[r], i) => Unmoved(i)
  <2>1. \A i \in Image : i \notin Owned(req[r]) /\ CopyHolds(req[r], i) => rows'[i] = rows[i]
    BY <1>1, <1>r, RestoredRows
  <2>. QED
    BY <1>0, <1>1, <2>1 DEF Owned, Unmoved
<1>6. ASSUME NEW i \in Image, i \in Owned(req[r]), Midway(req[r], i)
      PROVE  Resting(i)'
  <2>1. CASE i \in gone
    <3>1. rows'[i] = "none"
      BY <1>0, <1>1, <1>r, <2>1, RestoredRows
    <3>. QED
      BY <1>1, <2>1, <3>1 DEF Resting
  <2>2. CASE i \notin gone /\ i \in req[r].new
    <3>1. req[r].kind = "rebuild" /\ Resting(i)
      BY <1>0, <1>6, <2>2 DEF Midway
    <3>2. rows' = rows
      BY <1>1, <1>r, <3>1, RestoredRows
    <3>. QED
      BY <1>1, <2>2, <3>1, <3>2 DEF Resting
  <2>3. CASE i \notin gone /\ i \in req[r].drop
    <3>1. Leaving(req[r], i) /\ rows'[i] = req[r].copy[i]
      BY <1>1, <1>6, <1>r, <2>3, RestoredRows DEF Midway
    <3>. QED
      BY <1>1, <2>3, <3>1 DEF Leaving, Resting
  <2>. QED
    BY <1>6, <2>1, <2>2, <2>3 DEF Owned
<1>. QED
  BY <1>1, <1>2, <1>3, <1>4, <1>5, <1>6, OverKeeps

LEMMA RemovalFailureKeeps ==
  ASSUME IInv, NEW r \in Request, RemovalFails(r)
  PROVE  IInv'
<1>. USE DEF IInv
<1>0. PICK there : there = IF req[r].kind = "update" THEN req[r].drop
                 ELSE {i \in Image : codeOf[i] # NoCode /\ FolderOf[codeOf[i]] = FolderOf[req[r].code]}
  OBVIOUS
<1>s. PICK S \in SUBSET there :
         /\ files' = [i \in Image |-> IF i \in S \cup req[r].new THEN "none" ELSE files[i]]
         /\ tags' = [i \in Image |-> tags[i] \cup (IF i \in S THEN {"broken"} ELSE {})
                                            \cup (IF i \in req[r].new THEN {"failed"} ELSE {})]
  BY <1>0 DEF RemovalFails, With
<1>1. /\ req[r] \in Work /\ Staged(req[r]) /\ Go(r, Over)
      /\ req[r].pc \in {"removing", "refreshing"} /\ req[r].drop # {}
      /\ rows' = Restored(req[r])
      /\ UNCHANGED <<folders, index, codeOf>>
  BY DEF TypeOK, Stages, RemovalFails
<1>r. Running(r) /\ req[r].pc # "storing" /\ req[r].kind \in {"update", "delete"}
  BY <1>1 DEF Running, Staged, Work, Kind
<1>2. /\ rows' \in [Image -> Size] /\ files' \in [Image -> Size]
      /\ folders' \subseteq Folder /\ index' \subseteq Image
      /\ tags' \in [Image -> SUBSET Tag]
  <2>1. rows' \in [Image -> Size]
    BY <1>1, <1>r, RestoredRows
  <2>2. files' \in [Image -> Size]
    BY <1>s DEF TypeOK, Size
  <2>3. tags' \in [Image -> SUBSET Tag]
    <3>1. ASSUME NEW i \in Image
          PROVE  tags[i] \cup (IF i \in S THEN {"broken"} ELSE {})
                    \cup (IF i \in req[r].new THEN {"failed"} ELSE {}) \in SUBSET Tag
      BY DEF TypeOK, Tag
    <3>. QED
      BY <1>s, <3>1
  <2>. QED
    BY <1>1, <2>1, <2>2, <2>3 DEF TypeOK
<1>3. \A i \in Image : /\ "mixed" \in tags[i] => "mixed" \in tags'[i]
                       /\ Clean(i)' => Clean(i)
  BY <1>s DEF Clean
<1>4. \A i \in Image : codeOf[i] = NoCode =>
         rows'[i] = "none" /\ files'[i] = "none" /\ i \notin index' /\ tags'[i] = {}
  <2>1. \A i \in Image : codeOf[i] = NoCode => rows'[i] = "none"
    BY <1>1, <1>r, RestoredRows
  <2>2. \A i \in Image : codeOf[i] = NoCode => i \notin S /\ i \notin req[r].new
    BY <1>0, <1>s DEF Names, Named, Owned
  <2>. QED
    BY <1>1, <1>s, <2>1, <2>2 DEF Names
<1>5. ASSUME NEW i \in Image, Clean(i)'
      PROVE  i \notin S
  <2>1. i \in S => "broken" \in tags'[i]
    BY <1>s
  <2>. QED
    BY <1>5, <2>1 DEF Clean
<1>6. ASSUME NEW i \in Image, Clean(i)', i \notin Owned(req[r]), CopyHolds(req[r], i)
      PROVE  Unmoved(i)
  <2>1. rows'[i] = rows[i]
    BY <1>1, <1>6, <1>r, RestoredRows
  <2>2. i \notin S /\ i \notin req[r].new
    BY <1>5, <1>6 DEF Owned
  <2>3. files'[i] = files[i] /\ tags'[i] = tags[i]
    BY <1>s, <2>2
  <2>. QED
    BY <1>1, <2>1, <2>3 DEF Unmoved
<1>7. ASSUME NEW i \in Image, Clean(i)', i \in Owned(req[r]), Midway(req[r], i)
      PROVE  Resting(i)'
  <2>1. CASE i \in req[r].new
    <3>1. rows'[i] = "none" /\ files'[i] = "none" /\ "failed" \in tags'[i]
      BY <1>1, <1>r, <1>s, <2>1, RestoredRows
    <3>. QED
      BY <3>1 DEF Resting
  <2>2. CASE i \in req[r].drop
    <3>1. Leaving(req[r], i) /\ rows'[i] = req[r].copy[i]
      BY <1>1, <1>7, <1>r, <2>2, RestoredRows DEF Midway
    <3>2. i \notin S /\ i \notin req[r].new
      BY <1>5, <1>7, <3>1 DEF Leaving
    <3>3. files'[i] = files[i] /\ tags'[i] = tags[i]
      BY <1>s, <3>2
    <3>. QED
      BY <1>1, <3>1, <3>3 DEF Leaving, Resting
  <2>. QED
    BY <1>7, <2>1, <2>2 DEF Owned
<1>. QED
  BY <1>1, <1>2, <1>3, <1>4, <1>6, <1>7, OverKeeps

(***************************************************************************)
(* An upload is stored under a name of its own.                            *)
(***************************************************************************)

\* The facts of a store: its image, and what it writes.
LEMMA StoreShape ==
  ASSUME IInv, NEW r \in Request, Store(r)
  PROVE  \E j \in Image, w \in Work :
           /\ codeOf[j] = NoCode /\ req[r].code \in Code
           /\ Go(r, w) /\ Staged(w) /\ w.new = req[r].new \cup {j}
           /\ w.drop = req[r].drop /\ w.kind = req[r].kind /\ w.code = req[r].code
           /\ w.copy = req[r].copy /\ w.mixed = req[r].mixed
           /\ w.pc \in {"storing", "dropping", "embedding"}
           /\ w.written <=> w.pc # "storing"
           /\ w.pc = "embedding" => w.drop = {}
           /\ files' = [files EXCEPT ![j] = "ready"]
           /\ codeOf' = [codeOf EXCEPT ![j] = req[r].code]
           /\ folders' = folders \cup {FolderOf[req[r].code]}
           /\ tags' = Mix(req[r], {j}) /\ index' = index
           /\ rows' = IF ~w.written THEN rows
                      ELSE IF w.kind = "import" THEN With(rows, w.new, "ready")
                      ELSE Rewritten(w)
<1>. USE DEF IInv
<1>1. /\ req[r] \in Work /\ Staged(req[r]) /\ req[r].pc = "storing"
      /\ req[r].kind \in {"import", "update"} /\ req[r].code \in Code /\ ~req[r].written
  BY DEF TypeOK, Stages, Store, Staged, Work, Kind
<1>2. PICK j \in Image : j = Min({i \in Image : codeOf[i] = NoCode}) /\ codeOf[j] = NoCode
  <2>1. PICK S \in SUBSET Image : S = {i \in Image : codeOf[i] = NoCode}
    OBVIOUS
  <2>2. S # {}
    BY <2>1 DEF Store
  <2>. QED
    BY <2>1, <2>2, MinIsMember
<1>3. PICK v : v = [req[r] EXCEPT !.left = @ - 1, !.new = @ \cup {j}]
  OBVIOUS
<1>4. /\ v.left = req[r].left - 1 /\ v.new = req[r].new \cup {j}
      /\ v.drop = req[r].drop /\ v.kind = req[r].kind /\ v.code = req[r].code
      /\ v.copy = req[r].copy /\ v.mixed = req[r].mixed /\ v.pc = "storing"
      /\ v.written = FALSE /\ v.at = req[r].at
  BY <1>1, <1>3 DEF Work
<1>5. /\ v.left \in Nat
      /\ req[r].left > 1 => v.left > 0
  BY <1>1, <1>4 DEF Staged, Work
<1>6. v \in Work
  <2>1. req[r].left - 1 \in Nat /\ req[r].new \cup {j} \in SUBSET Image
    BY <1>1, <1>4, <1>5 DEF Work
  <2>2. PICK n \in Nat, N \in SUBSET Image : n = req[r].left - 1 /\ N = req[r].new \cup {j}
    BY <2>1
  <2>3. v = [req[r] EXCEPT !.left = n, !.new = N]
    BY <1>3, <2>2
  <2>. QED
    BY <1>1, <2>3 DEF Work
<1>7. PICK pc \in {"dropping", "embedding"} : pc = IF v.drop # {} THEN "dropping" ELSE "embedding"
  OBVIOUS
<1>8. PICK u : u = [v EXCEPT !.written = TRUE, !.pc = pc]
  OBVIOUS
<1>9. u = AfterWrite(v)
  BY <1>7, <1>8 DEF AfterWrite
<1>10. /\ u.left = v.left /\ u.new = v.new /\ u.drop = v.drop /\ u.kind = v.kind
       /\ u.code = v.code /\ u.copy = v.copy /\ u.mixed = v.mixed /\ u.at = v.at
       /\ u.pc = pc /\ u.written = TRUE /\ u \in Work
  BY <1>6, <1>7, <1>8 DEF Work, PC
<1>11. PICK w \in Work : w = IF req[r].left > 1 THEN v ELSE u
  BY <1>6, <1>10
<1>12. Staged(w)
  <2>1. CASE req[r].left > 1
    <3>1. w = v /\ v.left > 0 /\ v.kind # "none" /\ v.code # NoCode /\ v.at \subseteq v.new
      BY <1>1, <1>4, <1>5, <1>11, <2>1, CodeAssumption DEF Staged
    <3>. QED
      BY <1>1, <1>4, <3>1 DEF Staged
  <2>2. CASE ~(req[r].left > 1)
    BY <1>1, <1>4, <1>7, <1>10, <1>11, <2>2, CodeAssumption DEF Staged
  <2>. QED
    BY <2>1, <2>2
<1>13. /\ Go(r, w) /\ files' = [files EXCEPT ![j] = "ready"]
       /\ codeOf' = [codeOf EXCEPT ![j] = req[r].code]
       /\ folders' = folders \cup {FolderOf[req[r].code]}
       /\ tags' = Mix(req[r], {j}) /\ index' = index
       /\ rows' = IF req[r].left > 1 THEN rows
                  ELSE IF req[r].kind = "import" THEN With(rows, v.new, "ready")
                  ELSE Rewritten(v)
  BY <1>2, <1>3, <1>9, <1>11 DEF Store
<1>14. Rewritten(u) = Rewritten(v)
  BY <1>10 DEF Rewritten
<1>15. /\ w.new = req[r].new \cup {j}
       /\ w.drop = req[r].drop /\ w.kind = req[r].kind /\ w.code = req[r].code
       /\ w.copy = req[r].copy /\ w.mixed = req[r].mixed
       /\ w.pc \in {"storing", "dropping", "embedding"}
       /\ w.written <=> w.pc # "storing"
       /\ w.pc = "embedding" => w.drop = {}
  BY <1>4, <1>7, <1>10, <1>11
<1>16. rows' = IF ~w.written THEN rows
               ELSE IF w.kind = "import" THEN With(rows, w.new, "ready")
               ELSE Rewritten(w)
  BY <1>4, <1>10, <1>11, <1>13, <1>14
<1>. QED
  BY <1>1, <1>2, <1>11, <1>12, <1>13, <1>15, <1>16

LEMMA StoreKeeps ==
  ASSUME IInv, NEW r \in Request, Store(r)
  PROVE  IInv'
<1>. USE DEF IInv
<1>0. /\ req[r] \in Work /\ Staged(req[r]) /\ Named(req[r]) /\ req[r].pc = "storing"
      /\ req[r].kind \in {"import", "update"} /\ ~req[r].written /\ Running(r)
      /\ req[r].kind = "import" => req[r].drop = {}
  BY DEF TypeOK, Stages, Names, Store, Staged, Work, Kind, Running
<1>1. PICK j \in Image, w \in Work :
           /\ codeOf[j] = NoCode /\ req[r].code \in Code
           /\ Go(r, w) /\ Staged(w) /\ w.new = req[r].new \cup {j}
           /\ w.drop = req[r].drop /\ w.kind = req[r].kind /\ w.code = req[r].code
           /\ w.copy = req[r].copy /\ w.mixed = req[r].mixed
           /\ w.pc \in {"storing", "dropping", "embedding"}
           /\ w.written <=> w.pc # "storing"
           /\ w.pc = "embedding" => w.drop = {}
           /\ files' = [files EXCEPT ![j] = "ready"]
           /\ codeOf' = [codeOf EXCEPT ![j] = req[r].code]
           /\ folders' = folders \cup {FolderOf[req[r].code]}
           /\ tags' = Mix(req[r], {j}) /\ index' = index
           /\ rows' = IF ~w.written THEN rows
                      ELSE IF w.kind = "import" THEN With(rows, w.new, "ready")
                      ELSE Rewritten(w)
  BY StoreShape
<1>2. req'[r] = w /\ \A s \in Request \ {r} : req'[s] = req[s]
  BY <1>1, GoShape
<1>e. /\ w.pc \in {"storing", "dropping", "embedding"} /\ index' = index
      /\ w.written <=> w.pc # "storing"
  BY <1>1
<1>3. req[r].code # NoCode
  BY <1>1, CodeAssumption
<1>4. /\ tags[j] = {} /\ rows[j] = "none" /\ files[j] = "none" /\ j \notin index
      /\ \A s \in Request : j \notin Owned(req[s]) /\ req[s].copy[j] = "none"
  BY <1>1 DEF Names, Named
<1>5. \A i \in Image : tags'[i] = IF req[r].mixed /\ i = j THEN {"mixed"} ELSE tags[i]
  BY <1>1, <1>4 DEF Mix, Tagged
<1>6. \A i \in Image : /\ files'[i] = IF i = j THEN "ready" ELSE files[i]
                       /\ codeOf'[i] = IF i = j THEN req[r].code ELSE codeOf[i]
  BY <1>1 DEF TypeOK
<1>7. \A i \in Image :
         rows'[i] = IF ~w.written THEN rows[i]
                    ELSE IF i \in w.new THEN "ready"
                    ELSE IF w.kind = "import" THEN rows[i]
                    ELSE IF i \in w.drop THEN "none" ELSE w.copy[i]
  BY <1>1 DEF With, Rewritten
<1>8. TypeOK'
  <2>1. req' \in [Request -> Work]
    BY <1>1, GoShape
  <2>2. rows' \in [Image -> Size]
    <3>1. CASE ~w.written
      BY <1>1, <3>1 DEF TypeOK
    <3>2. CASE w.written /\ w.kind = "import"
      BY <1>1, <3>2 DEF TypeOK, With, Size
    <3>3. CASE w.written /\ w.kind # "import"
      <4>1. rows' = Rewritten(w) /\ w.copy \in [Image -> Size]
        BY <1>1, <3>3 DEF Work
      <4>. QED
        BY <4>1 DEF With, Rewritten, Size
    <3>. QED
      BY <3>1, <3>2, <3>3
  <2>3. files' \in [Image -> Size] /\ codeOf' \in [Image -> Code \cup {NoCode}]
    BY <1>1 DEF TypeOK, Size
  <2>4. tags' \in [Image -> SUBSET Tag]
    BY <1>1 DEF TypeOK, Tag, Mix, Tagged
  <2>5. folders' \subseteq Folder /\ index' \subseteq Image
    BY <1>1, CodeAssumption DEF TypeOK
  <2>. QED
    BY <2>1, <2>2, <2>3, <2>4, <2>5 DEF TypeOK
<1>9. Stages'
  BY <1>1, <1>2 DEF Stages
<1>10. Neighbours'
  <2>1. \A i \in Image : "mixed" \in tags[i] => "mixed" \in tags'[i]
    BY <1>5
  <2>2. w.mixed => \A i \in Owned(w) : i \in Owned(req[r]) \/ "mixed" \in tags'[i]
    BY <1>1, <1>5 DEF Owned
  <2>3. \A s \in Request \ {r} : req[s].new \cap w.new \subseteq req[r].new
    BY <1>1, <1>4 DEF Owned
  <2>. QED
    BY <1>0, <1>1, <2>1, <2>2, <2>3, GoNeighbours
<1>11. Names'
  <2>1. \A i \in Image : codeOf'[i] = NoCode => i # j /\ codeOf[i] = NoCode
    BY <1>3, <1>6
  <2>2. ASSUME NEW i \in Image, codeOf'[i] = NoCode
        PROVE  rows'[i] = "none" /\ files'[i] = "none" /\ i \notin index' /\ tags'[i] = {}
    <3>1. i # j /\ codeOf[i] = NoCode
      BY <2>1, <2>2
    <3>2. i \notin req[r].new /\ i \notin req[r].drop /\ req[r].copy[i] = "none"
      BY <1>0, <3>1 DEF Named, Owned
    <3>3. rows[i] = "none" /\ files[i] = "none" /\ i \notin index /\ tags[i] = {}
      BY <3>1 DEF Names
    <3>4. i \notin w.new /\ i \notin w.drop /\ w.copy[i] = "none"
      BY <1>1, <3>1, <3>2
    <3>5. rows'[i] = "none"
      BY <1>7, <3>3, <3>4
    <3>6. files'[i] = "none" /\ tags'[i] = {}
      BY <1>5, <1>6, <3>1, <3>3
    <3>. QED
      BY <1>1, <3>3, <3>5, <3>6
  <2>3. Named(req[r])'
    <3>1. \A i \in Image : codeOf'[i] = NoCode => i \notin Owned(w) /\ w.copy[i] = "none"
      BY <1>0, <1>1, <2>1 DEF Named, Owned
    <3>2. \A i \in w.drop : codeOf'[i] = w.code
      <4>1. \A i \in w.drop : i \in Image /\ i # j /\ codeOf[i] = w.code
        BY <1>0, <1>1, <1>4 DEF Named, Owned, Work
      <4>. QED
        BY <1>6, <4>1
    <3>3. \A i \in w.new : w.copy[i] = "none"
      BY <1>0, <1>1, <1>4 DEF Named
    <3>. QED
      BY <1>2, <3>1, <3>2, <3>3 DEF Named
  <2>4. ASSUME NEW s \in Request \ {r} PROVE Named(req[s])'
    <3>1. Named(req[s]) /\ req[s] \in Work /\ req'[s] = req[s]
      BY <1>2 DEF Names, TypeOK
    <3>2. \A i \in req[s].drop : codeOf'[i] = req[s].code
      <4>1. \A i \in req[s].drop : i \in Image /\ i # j /\ codeOf[i] = req[s].code
        BY <1>4, <3>1 DEF Named, Owned, Work
      <4>. QED
        BY <1>6, <4>1
    <3>. QED
      BY <2>1, <3>1, <3>2 DEF Named
  <2>. QED
    BY <2>2, <2>3, <2>4 DEF Names
<1>12. ASSUME NEW i \in Image, Clean(i)' PROVE Lands(r, i)
  <2>1. Clean(i) /\ Sound(i)
    <3>1. Clean(i)
      BY <1>4, <1>5, <1>12 DEF Clean
    <3>. QED
      BY <3>1
  <2>2. tags'[i] = tags[i]
    BY <1>5, <1>12 DEF Clean
  <2>3. Owned(req'[r]) = Owned(req[r]) \cup {j}
    BY <1>1, <1>2 DEF Owned
  <2>4. CASE i = j
    <3>1. i \in w.new /\ i \notin w.drop
      BY <1>1, <1>4, <2>4 DEF Owned
    <3>2. Arriving(req[r], i)'
      <4>1. rows'[i] = IF w.written THEN "ready" ELSE "none"
        BY <1>4, <1>7, <2>4, <3>1
      <4>2. files'[i] = "ready" /\ i \notin index' /\ tags'[i] = {}
        BY <1>4, <1>6, <1>e, <2>2, <2>4
      <4>. QED
        BY <1>2, <1>e, <4>1, <4>2 DEF Arriving
    <3>. QED
      BY <1>0, <1>1, <1>2, <1>4, <2>1, <2>3, <2>4, <3>1, <3>2
      DEF Lands, Midway, CopyHolds, Owned
  <2>5. CASE i # j /\ i \in Owned(req[r])
    <3>1. Midway(req[r], i)
      BY <2>1, <2>5 DEF Sound
    <3>2. i \in w.new => Arriving(req[r], i)'
      <4>1. SUFFICES ASSUME i \in w.new PROVE Arriving(req[r], i)'
        OBVIOUS
      <4>2. Arriving(req[r], i)
        BY <1>0, <1>1, <2>5, <3>1, <4>1 DEF Midway
      <4>3. rows'[i] = IF w.written THEN "ready" ELSE "none"
        BY <1>0, <1>7, <4>1, <4>2 DEF Arriving
      <4>4. files'[i] = "ready" /\ i \notin index' /\ "withdrawn" \notin tags'[i]
        BY <1>0, <1>6, <1>e, <2>2, <2>5, <4>2 DEF Arriving
      <4>. QED
        BY <1>2, <1>e, <4>3, <4>4 DEF Arriving
    <3>3. i \in w.drop => Leaving(req[r], i)'
      <4>1. SUFFICES ASSUME i \in w.drop PROVE Leaving(req[r], i)'
        OBVIOUS
      <4>2. Leaving(req[r], i)
        BY <1>1, <3>1, <4>1 DEF Midway
      <4>3. i \notin w.new /\ w.kind # "import"
        BY <1>0, <1>1, <2>5, <4>1, <4>2 DEF Leaving
      <4>4. rows'[i] = IF w.written THEN "none" ELSE "thumb"
        BY <1>0, <1>7, <4>1, <4>2, <4>3 DEF Leaving
      <4>. QED
        BY <1>1, <1>2, <1>6, <2>2, <2>5, <4>1, <4>2, <4>3, <4>4 DEF Leaving
    <3>4. Midway(req[r], i)'
      BY <1>0, <1>1, <1>2, <3>2, <3>3 DEF Midway
    <3>. QED
      BY <2>1, <2>3, <2>5, <3>4 DEF Lands, CopyHolds
  <2>6. CASE i # j /\ i \notin Owned(req[r])
    <3>1. req[r].kind = "update" => req[r].copy[i] = rows[i]
      BY <2>1, <2>6 DEF Sound, CopyHolds
    <3>2. rows'[i] = rows[i]
      BY <1>0, <1>1, <1>7, <2>6, <3>1 DEF Owned
    <3>3. Unmoved(i)
      BY <1>1, <1>6, <2>2, <2>6, <3>2 DEF Unmoved
    <3>4. CopyHolds(req[r], i)'
      BY <1>0, <1>1, <1>2, <3>1, <3>2 DEF CopyHolds
    <3>. QED
      BY <2>1, <2>3, <2>6, <3>3, <3>4 DEF Lands
  <2>. QED
    BY <2>4, <2>5, <2>6
<1>13. \A i \in Image : Clean(i)' => Sound(i)'
  <2>1. \A s \in Request \ {r} : SameWork(req'[s], req[s])
    BY <1>2 DEF SameWork
  <2>. QED
    BY <1>9, <1>10, <1>12, <2>1, StepSound
<1>. QED
  BY <1>8, <1>9, <1>10, <1>11, <1>13

(***************************************************************************)
(* The process ends, and the beginning.                                    *)
(***************************************************************************)

LEMMA CrashKeeps == IInv /\ Crash => IInv'
<1>. SUFFICES ASSUME IInv, Crash PROVE IInv'
  OBVIOUS
<1>. USE DEF IInv
<1>1. /\ req' = [r \in Request |-> IF Running(r) THEN Over ELSE req[r]]
      /\ UNCHANGED <<rows, files, folders, index, codeOf>>
  BY DEF Crash
<1>2. PICK S : S = UNION {Owned(req[r]) : r \in {s \in Request : Running(s)}}
  OBVIOUS
<1>3. tags' = [i \in Image |-> IF i \in S THEN tags[i] \cup {"broken"} ELSE tags[i]]
  BY <1>2 DEF Crash, Tagged
<1>4. \A i : i \in S <=> \E r \in Request : Running(r) /\ i \in Owned(req[r])
  BY <1>2
<1>5. \A r \in Request : ~Running(r) => Owned(req[r]) = {} /\ req[r].kind = "none" /\ ~req[r].mixed
  BY Empty DEF Stages, Staged, Running, Owned
<1>6. \A r \in Request : Owned(req'[r]) = {} /\ req'[r].kind = "none" /\ ~req'[r].mixed /\ ~Running(r)'
  <2>1. \A r \in Request : ~Running(r) => ~Running(r)'
    BY <1>1 DEF Running
  <2>2. \A r \in Request : Running(r) => ~Running(r)'
    BY <1>1, Empty DEF Running
  <2>. QED
    BY <1>1, <1>5, <2>1, <2>2, Empty DEF Owned
<1>7. TypeOK'
  <2>1. req' \in [Request -> Work]
    BY <1>1, Empty DEF TypeOK
  <2>. QED
    BY <1>1, <1>3, <2>1 DEF TypeOK, Tag
<1>8. Stages'
  BY <1>1, Empty DEF Stages
<1>9. Names'
  <2>1. \A r \in Request : Named(req'[r])
    BY <1>1, Empty DEF Names, Named, Owned
  <2>2. \A i \in Image : codeOf[i] = NoCode => i \notin S
    BY <1>4 DEF Names, Named
  <2>. QED
    BY <1>1, <1>3, <2>1, <2>2 DEF Names, Named
<1>10. Neighbours'
  BY <1>6 DEF Neighbours
<1>11. ASSUME NEW i \in Image, Clean(i)' PROVE Sound(i)'
  <2>1. i \notin S
    BY <1>3, <1>11 DEF Clean
  <2>2. Clean(i) /\ Settled(i) /\ tags'[i] = tags[i]
    BY <1>3, <1>4, <1>5, <1>11, <2>1 DEF Clean, Settled
  <2>3. Resting(i)'
    BY <1>1, <2>2 DEF Sound, Resting
  <2>. QED
    BY <1>6, <2>3 DEF Sound, CopyHolds
<1>. QED
  BY <1>7, <1>8, <1>9, <1>10, <1>11

LEMMA InitHolds == Init => IInv
<1>. SUFFICES ASSUME Init PROVE IInv
  OBVIOUS
<1>1. PICK c \in Code : /\ codeOf = [i \in Image |-> IF i = 1 THEN c ELSE NoCode]
                        /\ folders = {FolderOf[c]}
  BY DEF Init
<1>2. /\ rows = [i \in Image |-> IF i = 1 THEN "thumb" ELSE "none"] /\ files = rows
      /\ index = {1} /\ req = [r \in Request |-> Idle] /\ tags = [i \in Image |-> {}]
  BY DEF Init
<1>3. 1 \in Image
  BY UploadsAssumption DEF Image
<1>4. TypeOK
  BY <1>1, <1>2, <1>3, Empty, CodeAssumption DEF TypeOK, Size, Tag
<1>5. Stages
  BY <1>2, Empty DEF Stages
<1>6. Names
  <2>1. \A i \in Image : codeOf[i] = NoCode => i # 1
    BY <1>1, CodeAssumption
  <2>. QED
    BY <1>2, <2>1, Empty DEF Names, Named, Owned
<1>7. Neighbours
  BY <1>2, Empty DEF Neighbours, Running
<1>8. \A i \in Image : Sound(i)
  BY <1>2, Empty DEF Sound, Owned, CopyHolds, Resting
<1>. QED
  BY <1>4, <1>5, <1>6, <1>7, <1>8 DEF IInv

(***************************************************************************)
(* The theorems.                                                           *)
(***************************************************************************)

\* The inductive invariant: types, what each request holds in each of its stages,
\* that names still free are nowhere, that requests which can undo each other's
\* work are marked, and where each unmarked image stands between CSV, folder and
\* index (every operation of image_search_source_service.py 97-1307).
THEOREM Inductive == Spec => []IInv
<1>1. ASSUME IInv, [Next]_vars PROVE IInv'
  <2>1. ASSUME NEW r \in Request, NEW c \in Code, NEW n \in Uploads, StartImport(r, c, n)
        PROVE  IInv'
    BY <1>1, <2>1, ImportBegins
  <2>2. ASSUME NEW r \in Request, NEW c \in Code, NEW n \in Uploads,
               NEW D \in SUBSET Listed(c), StartUpdate(r, c, n, D)
        PROVE  IInv'
    BY <1>1, <2>2, UpdateBegins
  <2>3. ASSUME NEW r \in Request, NEW c \in Code, StartDelete(r, c)
        PROVE  IInv'
    BY <1>1, <2>3, DeleteBegins
  <2>4. ASSUME NEW r \in Request, StartRebuild(r)
        PROVE  IInv'
    BY <1>1, <2>4, RebuildBegins
  <2>5. ASSUME NEW r \in Request, Store(r) \/ StoreFails(r)
        PROVE  IInv'
    BY <1>1, <2>5, StoreKeeps, StoreFailureKeeps
  <2>6. ASSUME NEW r \in Request, DropFromIndex(r) \/ Embed(r) \/ Upsert(r)
        PROVE  IInv'
    BY <1>1, <2>6, DropKeeps, EmbedKeeps, UpsertKeeps, RebuildKeeps
  <2>7. ASSUME NEW r \in Request,
               ReadForThumbnail(r) \/ ReplaceByThumbnail(r) \/ ThreadFails(r)
        PROVE  IInv'
    BY <1>1, <2>7, ReadKeeps, ReplaceKeeps, FailureKeeps
  <2>8. ASSUME NEW r \in Request,
               Succeed(r) \/ RemoveFolder(r) \/ RollBack(r) \/ RemovalFails(r)
        PROVE  IInv'
    BY <1>1, <2>8, SuccessKeeps, RemovalKeeps, RollBackKeeps, RemovalFailureKeeps
  <2>9. CASE Crash
    BY <1>1, <2>9, CrashKeeps
  <2>10. CASE UNCHANGED vars
    BY <1>1, <2>10
    DEF vars, IInv, TypeOK, Stages, Names, Neighbours, Clean, Staged, Named, Owned, Running,
        Sound, Settled, Resting, Midway, Arriving, Leaving, CopyHolds
  <2>. QED
    BY <1>1, <2>1, <2>2, <2>3, <2>4, <2>5, <2>6, <2>7, <2>8, <2>9, <2>10 DEF Next, Done
<1>. QED
  BY <1>1, InitHolds, PTL DEF Spec

\* Every image's row, file and tags, every request's work stay within their types.
THEOREM TypeCorrect == Spec => []TypeOK
<1>1. IInv => TypeOK
  BY DEF IInv
<1>. QED
  BY <1>1, Inductive, PTL

\* Files and rows agree for every image no request works on: what is listed has
\* its small file and what is not listed has none, whatever failed on the way, as
\* far as no update, delete or rebuild ran beside it (_write_rows, the rollbacks
\* and the thumbnails of image_search_source_service.py).
THEOREM FilesMatchRowsCorrect == Spec => []FilesMatchRows
<1>1. IInv => FilesMatchRows
  BY DEF IInv, FilesMatchRows, Sound, Resting, Clean
<1>. QED
  BY <1>1, Inductive, PTL

\* What is listed can be found and what is found is listed, apart from failures
\* after the index was worked on, which the service does not undo.
THEOREM SearchMatchesRowsCorrect == Spec => []SearchMatchesRows
<1>1. IInv => SearchMatchesRows
  <2>1. \A i \in Image : tags[i] \cap {"mixed", "broken", "failed"} = {} =>
           Clean(i) /\ "failed" \notin tags[i]
    BY DEF Clean
  <2>. QED
    BY <2>1 DEF IInv, SearchMatchesRows, Sound, Resting
<1>. QED
  BY <1>1, Inductive, PTL
=============================================================================
