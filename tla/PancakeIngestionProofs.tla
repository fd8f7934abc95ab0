----------------------- MODULE PancakeIngestionProofs -----------------------
(***************************************************************************)
(* Proofs about PancakeIngestion, for any messages, deliveries, timers and   *)
(* occasions: IInv is inductive, and the webhook implements AnswersOwed.     *)
(*                                                                         *)
(* Every step but a crash and the passing of time is one worker's.  Whole    *)
(* says what such a step must do for the invariant to hold afterwards: its   *)
(* worker, the buffer and the waiting ad change together, the others stay.   *)
(* Moves is Whole for the steps that touch neither buffer nor ad.  What all  *)
(* of them conclude is Serves, which the refinement needs too.             *)
(***************************************************************************)
EXTENDS PancakeIngestion, FiniteSetTheorems, TLAPS

One(b) == IF b THEN 1 ELSE 0

\* A finite set of which all but x and y stays.
LEMMA CountTwo ==
  ASSUME NEW S, NEW T, NEW x, NEW y, x # y, IsFiniteSet(S), T \ {x, y} \subseteq S
  PROVE  /\ IsFiniteSet(T) /\ Cardinality(S) \in Nat /\ Cardinality(T) \in Nat
         /\ Cardinality(T) + One(x \in S) + One(y \in S)
              <= Cardinality(S) + One(x \in T) + One(y \in T)
<1>. DEFINE R1 == S \ {x}
<1>. DEFINE R == R1 \ {y}
<1>. DEFINE Q == T \ {x, y}
<1>. DEFINE Q1 == IF x \in T THEN Q \cup {x} ELSE Q
<1>1. /\ IsFiniteSet(R1) /\ IsFiniteSet(R)
      /\ Cardinality(R1) = IF x \in S THEN Cardinality(S) - 1 ELSE Cardinality(S)
      /\ Cardinality(R) = IF y \in R1 THEN Cardinality(R1) - 1 ELSE Cardinality(R1)
  <2>1. /\ IsFiniteSet(R1)
        /\ Cardinality(R1) = IF x \in S THEN Cardinality(S) - 1 ELSE Cardinality(S)
    BY FS_RemoveElement
  <2>2. /\ IsFiniteSet(R)
        /\ Cardinality(R) = IF y \in R1 THEN Cardinality(R1) - 1 ELSE Cardinality(R1)
    <3>. HIDE DEF R1
    <3>. QED
      BY <2>1, FS_RemoveElement
  <2>. QED
    BY <2>1, <2>2
<1>2. Q \subseteq R
  OBVIOUS
<1>3. IsFiniteSet(Q) /\ Cardinality(Q) <= Cardinality(R)
  <2>. HIDE DEF Q, R
  <2>. QED
    BY <1>1, <1>2, FS_Subset
<1>4. IsFiniteSet(Q1) /\ Cardinality(Q1) = Cardinality(Q) + One(x \in T)
  <2>1. CASE x \in T
    <3>1. x \notin Q
      OBVIOUS
    <3>2. IsFiniteSet(Q \cup {x}) /\ Cardinality(Q \cup {x}) = Cardinality(Q) + 1
      <4>. HIDE DEF Q
      <4>. QED
        BY <1>3, <3>1, FS_AddElement
    <3>. QED
      BY <2>1, <3>2 DEF One
  <2>2. CASE x \notin T
    <3>1. Cardinality(Q) \in Nat
      <4>. HIDE DEF Q
      <4>. QED
        BY <1>3, FS_CardinalityType
    <3>. QED
      BY <1>3, <2>2, <3>1 DEF One
  <2>. QED
    BY <2>1, <2>2
<1>5. IsFiniteSet(T) /\ Cardinality(T) = Cardinality(Q1) + One(y \in T)
  <2>1. CASE y \in T
    <3>1. y \notin Q1 /\ T = Q1 \cup {y}
      BY <2>1
    <3>2. IsFiniteSet(Q1 \cup {y}) /\ Cardinality(Q1 \cup {y}) = Cardinality(Q1) + 1
      <4>. HIDE DEF Q1
      <4>. QED
        BY <1>4, <3>1, FS_AddElement
    <3>3. IsFiniteSet(T) /\ Cardinality(T) = Cardinality(Q1) + 1
      <4>. HIDE DEF Q1
      <4>. QED
        BY <3>1, <3>2
    <3>. QED
      BY <2>1, <3>3 DEF One
  <2>2. CASE y \notin T
    <3>1. T = Q1
      BY <2>2
    <3>2. Cardinality(Q1) \in Nat
      <4>. HIDE DEF Q1
      <4>. QED
        BY <1>4, FS_CardinalityType
    <3>3. IsFiniteSet(T) /\ Cardinality(T) = Cardinality(Q1)
      <4>. HIDE DEF Q1
      <4>. QED
        BY <1>4, <3>1
    <3>. QED
      BY <2>2, <3>2, <3>3 DEF One
  <2>. QED
    BY <2>1, <2>2
<1>6. /\ Cardinality(S) \in Nat /\ Cardinality(T) \in Nat /\ Cardinality(R1) \in Nat
      /\ Cardinality(R) \in Nat /\ Cardinality(Q) \in Nat /\ Cardinality(Q1) \in Nat
  <2>. HIDE DEF R1, R, Q, Q1
  <2>. QED
    BY <1>1, <1>3, <1>4, <1>5, FS_CardinalityType
<1>7. (y \in R1) <=> (y \in S)
  OBVIOUS
<1>. HIDE DEF R1, R, Q, Q1
<1>. QED
  BY <1>1, <1>3, <1>4, <1>5, <1>6, <1>7 DEF One

-----------------------------------------------------------------------------
(* What a step of worker p does.                                            *)

\* The other workers stay, except for timers that are set or cancelled.
Others(p) ==
    \A q \in Worker \ {p} :
        \/ work'[q] = work[q]
        \/ /\ q \in Timer /\ work[q].pc \in {"idle", "sleeping"}
           /\ work'[q] \in {Idle, Sleeping}

\* The marks follow p's key.
Marked(p) ==
    \/ work'[p].key = work[p].key /\ marks' = marks
    \/ work'[p].key = NoKey /\ marks' = marks \ {work[p].key}
    \/ /\ work[p].key = NoKey /\ work'[p].key # NoKey
       /\ work'[p].key \notin marks /\ marks' = marks \cup {work'[p].key}

\* A reply is paid for by p or the buffer, a consultation by p or the ad.
Balanced(p) ==
    /\ \A m \in Mid :
          replies'[m] + One(Owes(p, m)') + One(m \in buffer'.mids) + rows[m]
            <= rows'[m] + replies[m] + One(Owes(p, m)) + One(m \in buffer.mids)
    /\ \A a \in Trigger :
          consults'[a] + One(MayAsk(p, a)') + One(a = pending'.trigger) + claims[a]
            <= claims'[a] + consults[a] + One(MayAsk(p, a)) + One(a = pending.trigger)

\* What p or the buffer owes stays owed, or there is an excuse.
Passed(p) ==
    \A m \in Mid :
       \/ Excused(m)'
       \/ /\ Owes(p, m) \/ m \in buffer.mids => Owes(p, m)' \/ m \in buffer'.mids
          /\ rows'[m] > 0 => rows[m] > 0 \/ Owes(p, m)'

\* What only grows, and that a pause is explained; only p's own message gets
\* another row, and the buffer gets no comment.
Rising(p) ==
    /\ \A k \in Mid \cup Staff : rows[k] <= rows'[k]
    /\ \A m \in Mid : replies[m] <= replies'[m]
    /\ selfPauses <= selfPauses' /\ failures <= failures' /\ crashes <= crashes'
    /\ occasion' = occasion /\ work[p].pc # "done"
    /\ pauses' = pauses \/ selfPauses' > 0 \/ \E s \in Staff : rows'[s] > 0
    /\ \A m \in Mid : \/ m = work[p].key
                      \/ rows'[m] = rows[m] /\ (m \in aged => m \in aged')
    /\ \A m \in Comment : m \in buffer'.mids => m \in buffer.mids

\* What every step does: it keeps the invariant and every reason, and what is
\* owed for a message grows by its rows, shrinks by its replies, and shrinks to
\* nothing only if the message is excused.
Serves ==
    /\ IInv'
    /\ \A m \in Mid : Reason(m) => Reason(m)'
    /\ \A m \in Mid : Cardinality(Holders(m))' + replies'[m] + rows[m]
                        <= Cardinality(Holders(m)) + replies[m] + rows'[m]
    /\ \A m \in Mid : Holders(m) # {} /\ Holders(m)' = {} => Excused(m)'

\* What is owed for a message is a number.
LEMMA Owing ==
  ASSUME IInv, NEW m \in Mid
  PROVE  Cardinality(Holders(m)) \in Nat
BY FS_CardinalityType DEF IInv

LEMMA Kinds ==
  /\ NoTimer \notin Worker /\ Timer \cap Delivery = {} /\ NoKey \notin Key
  /\ NoTrigger \notin Trigger /\ Worker = Delivery \cup Timer
  /\ Mid \subseteq Key /\ Trigger \subseteq Key /\ Staff \subseteq Key
  /\ Mid \cap Trigger = {} /\ Mid \cap Staff = {} /\ Trigger \cap Staff = {}
  /\ \A d \in Delivery : Carries[d] \in Key
BY NothingAssumption, KindsAssumption, CarriesAssumption DEF Worker, Key

LEMMA Blanks ==
  /\ Idle \in WorkState /\ Sleeping \in WorkState
  /\ \A pc \in PC : Blank(pc) \in WorkState
  /\ \A pc : /\ Blank(pc).pc = pc /\ Blank(pc).mids = {} /\ Blank(pc).key = NoKey
             /\ Blank(pc).trigger = NoTrigger /\ Blank(pc).ctx = 0
             /\ Blank(pc).copy = NoCopy
  /\ Idle.pc = "idle" /\ Idle.mids = {} /\ Idle.key = NoKey /\ Idle.trigger = NoTrigger
  /\ Sleeping.pc = "sleeping" /\ Sleeping.mids = {} /\ Sleeping.key = NoKey
  /\ Sleeping.trigger = NoTrigger
<1>1. NoCopy \in Doc
  BY DEF NoCopy, Doc
<1>2. \A pc \in PC : Blank(pc) \in WorkState
  BY <1>1 DEF Blank, WorkState
<1>3. \A pc : /\ Blank(pc).pc = pc /\ Blank(pc).mids = {} /\ Blank(pc).key = NoKey
              /\ Blank(pc).trigger = NoTrigger /\ Blank(pc).ctx = 0
              /\ Blank(pc).copy = NoCopy
  BY DEF Blank
<1>4. "idle" \in PC /\ "sleeping" \in PC
  BY DEF PC
<1>. QED
  BY <1>2, <1>3, <1>4 DEF Idle, Sleeping

\* The marks are the keys of the workers before, hence after.
LEMMA MarksStep ==
  ASSUME IInv, NEW p \in Worker, Others(p), Marked(p)
  PROVE  MarksHeld'
<1>1. \A q \in Worker \ {p} : work'[q].key = work[q].key
  BY Blanks DEF Others, IInv, Shape
<1>. PICK K : K = [q \in Worker |-> work[q].key]
  OBVIOUS
<1>. PICK L : L = [q \in Worker |-> work'[q].key]
  OBVIOUS
<1>2. /\ marks = {K[q] : q \in Worker} \ {NoKey}
      /\ \A q, r \in Worker : K[q] = K[r] /\ q # r => K[q] = NoKey
  BY DEF IInv, MarksHeld
<1>3. \A q \in Worker \ {p} : L[q] = K[q]
  BY <1>1
<1>4. \/ L[p] = K[p] /\ marks' = marks
      \/ L[p] = NoKey /\ marks' = marks \ {K[p]}
      \/ K[p] = NoKey /\ L[p] # NoKey /\ L[p] \notin marks /\ marks' = marks \cup {L[p]}
  BY DEF Marked
<1>5. /\ marks' = {L[q] : q \in Worker} \ {NoKey}
      /\ \A q, r \in Worker : L[q] = L[r] /\ q # r => L[q] = NoKey
  <2>1. CASE L[p] = K[p] /\ marks' = marks
    BY <1>2, <1>3, <2>1
  <2>2. CASE L[p] = NoKey /\ marks' = marks \ {K[p]}
    BY <1>2, <1>3, <2>2
  <2>3. CASE K[p] = NoKey /\ L[p] # NoKey /\ L[p] \notin marks /\ marks' = marks \cup {L[p]}
    BY <1>2, <1>3, <2>3
  <2>. QED
    BY <1>4, <2>1, <2>2, <2>3
<1>. QED
  BY <1>5 DEF MarksHeld

\* The others owe and may ask what they did.
LEMMA OthersOwe ==
  ASSUME NEW p \in Worker, Others(p), NEW q \in Worker \ {p}
  PROVE  /\ \A m \in Mid : Owes(q, m)' <=> Owes(q, m)
         /\ \A a \in Trigger : MayAsk(q, a)' <=> MayAsk(q, a)
<1>1. CASE work'[q] = work[q]
  BY <1>1 DEF Owes, MayAsk
<1>2. CASE q \in Timer /\ work[q].pc \in {"idle", "sleeping"} /\ work'[q] \in {Idle, Sleeping}
  BY <1>2, Blanks DEF Owes, MayAsk, WillSend
<1>. QED
  BY <1>1, <1>2 DEF Others

LEMMA HoldersStep ==
  ASSUME IInv, NEW p \in Worker, Others(p), Balanced(p), TypeOK', NEW m \in Mid
  PROVE  /\ IsFiniteSet(Holders(m))' /\ (replies[m] + Cardinality(Holders(m)) <= rows[m])'
         /\ Cardinality(Holders(m))' + replies'[m] + rows[m]
              <= Cardinality(Holders(m)) + replies[m] + rows'[m]
<1>. PICK S : S = Holders(m)
  OBVIOUS
<1>. PICK T : T = Holders(m)'
  OBVIOUS
<1>1. /\ p # NoTimer /\ NoTimer \notin Worker
  BY Kinds
<1>2. /\ p \in S <=> Owes(p, m)
      /\ p \in T <=> Owes(p, m)'
      /\ NoTimer \in S <=> m \in buffer.mids
      /\ NoTimer \in T <=> m \in buffer'.mids
  BY <1>1 DEF Holders
<1>3. T \ {p, NoTimer} \subseteq S
  BY OthersOwe DEF Holders
<1>4. IsFiniteSet(S) /\ replies[m] + Cardinality(S) <= rows[m]
  BY DEF IInv, AnsweredPerRow
<1>5. /\ IsFiniteSet(T) /\ Cardinality(S) \in Nat /\ Cardinality(T) \in Nat
      /\ Cardinality(T) + One(p \in S) + One(NoTimer \in S)
           <= Cardinality(S) + One(p \in T) + One(NoTimer \in T)
  BY <1>1, <1>3, <1>4, CountTwo
<1>6. replies'[m] + One(p \in T) + One(NoTimer \in T) + rows[m]
        <= rows'[m] + replies[m] + One(p \in S) + One(NoTimer \in S)
  <2>1. replies'[m] + One(Owes(p, m)') + One(m \in buffer'.mids) + rows[m]
          <= rows'[m] + replies[m] + One(Owes(p, m)) + One(m \in buffer.mids)
    BY DEF Balanced
  <2>2. /\ One(p \in S) = One(Owes(p, m)) /\ One(p \in T) = One(Owes(p, m)')
        /\ One(NoTimer \in S) = One(m \in buffer.mids)
        /\ One(NoTimer \in T) = One(m \in buffer'.mids)
    BY <1>2, Zenon DEF One
  <2>. QED
    BY <2>1, <2>2
<1>7. replies[m] \in Nat /\ replies'[m] \in Nat /\ rows[m] \in Nat /\ rows'[m] \in Nat
  BY DEF IInv, TypeOK
<1>8. \A b : One(b) \in Nat
  BY DEF One
<1>9. Cardinality(T) + replies'[m] + rows[m] <= Cardinality(S) + replies[m] + rows'[m]
  BY <1>5, <1>6, <1>7, <1>8
<1>10. replies'[m] + Cardinality(T) <= rows'[m]
  BY <1>4, <1>5, <1>7, <1>9
<1>. QED
  BY <1>5, <1>9, <1>10

LEMMA AskersStep ==
  ASSUME IInv, NEW p \in Worker, Others(p), Balanced(p), TypeOK', NEW a \in Trigger
  PROVE  IsFiniteSet(Askers(a))' /\ (consults[a] + Cardinality(Askers(a)) <= claims[a])'
<1>. PICK S : S = Askers(a)
  OBVIOUS
<1>. PICK T : T = Askers(a)'
  OBVIOUS
<1>1. /\ p # NoTimer /\ NoTimer \notin Worker
  BY Kinds
<1>2. /\ p \in S <=> MayAsk(p, a)
      /\ p \in T <=> MayAsk(p, a)'
      /\ NoTimer \in S <=> a = pending.trigger
      /\ NoTimer \in T <=> a = pending'.trigger
  BY <1>1 DEF Askers
<1>3. T \ {p, NoTimer} \subseteq S
  BY OthersOwe DEF Askers
<1>4. IsFiniteSet(S) /\ consults[a] + Cardinality(S) <= claims[a]
  BY DEF IInv, ConsultedPerClaim
<1>5. /\ IsFiniteSet(T) /\ Cardinality(S) \in Nat /\ Cardinality(T) \in Nat
      /\ Cardinality(T) + One(p \in S) + One(NoTimer \in S)
           <= Cardinality(S) + One(p \in T) + One(NoTimer \in T)
  BY <1>1, <1>3, <1>4, CountTwo
<1>6. consults'[a] + One(p \in T) + One(NoTimer \in T) + claims[a]
        <= claims'[a] + consults[a] + One(p \in S) + One(NoTimer \in S)
  <2>1. consults'[a] + One(MayAsk(p, a)') + One(a = pending'.trigger) + claims[a]
          <= claims'[a] + consults[a] + One(MayAsk(p, a)) + One(a = pending.trigger)
    BY DEF Balanced
  <2>2. /\ One(p \in S) = One(MayAsk(p, a)) /\ One(p \in T) = One(MayAsk(p, a)')
        /\ One(NoTimer \in S) = One(a = pending.trigger)
        /\ One(NoTimer \in T) = One(a = pending'.trigger)
    BY <1>2, Zenon DEF One
  <2>. QED
    BY <2>1, <2>2
<1>7. consults[a] \in Nat /\ consults'[a] \in Nat /\ claims[a] \in Nat /\ claims'[a] \in Nat
  BY DEF IInv, TypeOK
<1>8. \A b : One(b) \in Nat
  BY DEF One
<1>9. consults'[a] + Cardinality(T) <= claims'[a]
  BY <1>4, <1>5, <1>6, <1>7, <1>8
<1>. QED
  BY <1>5, <1>9

\* Reasons stay.
LEMMA ReasonStays ==
  ASSUME IInv, NEW p \in Worker, TypeOK', Others(p), Rising(p), NEW m \in Mid, Reason(m)
  PROVE  Reason(m)'
<1>1. /\ selfPauses \in Nat /\ selfPauses' \in Nat /\ failures \in Nat /\ failures' \in Nat
      /\ crashes \in Nat /\ crashes' \in Nat
      /\ \A k \in Mid \cup Staff : rows[k] \in Nat /\ rows'[k] \in Nat
      /\ occasion \in Occasion
  BY DEF IInv, TypeOK
<1>2. /\ selfPauses > 0 => selfPauses' > 0
      /\ failures > 0 => failures' > 0
      /\ crashes > 0 => crashes' > 0
      /\ \A k \in Mid \cup Staff : rows[k] > 0 => rows'[k] > 0
  BY <1>1 DEF Rising
<1>3. \A d \in occasion.comes : work[d].pc = "done" => work'[d].pc = "done"
  <2>. TAKE d \in occasion.comes
  <2>. HAVE work[d].pc = "done"
  <2>1. d \in Worker \ {p}
    BY <1>1, OccasionAssumption DEF Rising, OccasionShape, Worker
  <2>. QED
    BY <2>1 DEF Others
<1>. QED
  BY <1>2, <1>3 DEF Reason, Rising

\* A step of p that is all the above keeps the invariant.
LEMMA WholeKeeps ==
  ASSUME IInv, NEW p \in Worker, TypeOK', TimersArmed', Others(p), Shape(p)', LookedUp(p)',
         Marked(p), Balanced(p), Passed(p), Rising(p)
  PROVE  IInv'
<1>1. MarksHeld'
  BY MarksStep
<1>2. /\ AnsweredPerRow'
      /\ \A m \in Mid : IsFiniteSet(Holders(m))'
  BY HoldersStep DEF AnsweredPerRow
<1>3. /\ ConsultedPerClaim'
      /\ \A a \in Trigger : IsFiniteSet(Askers(a))'
  BY AskersStep DEF ConsultedPerClaim
<1>4. /\ selfPauses \in Nat /\ selfPauses' \in Nat /\ failures \in Nat /\ failures' \in Nat
      /\ crashes \in Nat /\ crashes' \in Nat /\ pauses \in Nat
      /\ \A k \in Mid \cup Staff : rows[k] \in Nat /\ rows'[k] \in Nat
      /\ \A m \in Mid : replies[m] \in Nat /\ replies'[m] \in Nat
      /\ occasion \in Occasion
  BY DEF IInv, TypeOK
<1>5. /\ selfPauses > 0 => selfPauses' > 0
      /\ failures > 0 => failures' > 0
      /\ crashes > 0 => crashes' > 0
      /\ \A k \in Mid \cup Staff : rows[k] > 0 => rows'[k] > 0
      /\ \A m \in Mid : replies[m] > 0 => replies'[m] > 0
  BY <1>4 DEF Rising
<1>6. PauseExplained' /\ InboxBuffered'
  BY <1>4, <1>5 DEF Rising, IInv, PauseExplained, InboxBuffered
<1>7. \A m \in Mid : Excused(m) => Excused(m)'
  BY <1>5, ReasonStays DEF Excused
<1>8. NoSilentLoss'
  <2>. SUFFICES ASSUME NEW m \in Mid, rows'[m] > 0, Holders(m)' = {}, ~Excused(m)'
                PROVE  FALSE
    BY DEF NoSilentLoss
  <2>1. /\ Owes(p, m) \/ m \in buffer.mids => Owes(p, m)' \/ m \in buffer'.mids
        /\ rows'[m] > 0 => rows[m] > 0 \/ Owes(p, m)'
    BY DEF Passed
  <2>2. ~Owes(p, m)' /\ m \notin buffer'.mids /\ \A q \in Worker : ~Owes(q, m)'
    BY DEF Holders
  <2>3. \A q \in Worker : ~Owes(q, m)
    BY <2>1, <2>2, OthersOwe
  <2>4. Holders(m) = {}
    BY <2>1, <2>2, <2>3 DEF Holders
  <2>. QED
    BY <1>7, <2>1, <2>2, <2>4 DEF IInv, NoSilentLoss
<1>9. \A q \in Worker \ {p} : Shape(q)' /\ LookedUp(q)'
  <2>. TAKE q \in Worker \ {p}
  <2>1. Shape(q) /\ LookedUp(q)
    BY DEF IInv
  <2>2. CASE work'[q] = work[q]
    <3>1. Shape(q)'
      BY <1>5, <2>1, <2>2, Kinds DEF Shape, ForTrigger, Rising
    <3>2. LookedUp(q)'
      <4>. SUFFICES ASSUME work[q].pc = "checked", IsCustomer(q)
                    PROVE  \/ rows'[Carries[q]] = 0 \/ Carries[q] \in aged' \cup Comment
                           \/ TextOf[Carries[q]] = NoText
        BY <2>2 DEF LookedUp, IsCustomer
      <4>1. work[q].key = Carries[q]
        BY <2>1, Kinds DEF Shape, IsCustomer, ForTrigger
      <4>2. work[q].key # NoKey /\ work[p].key # Carries[q]
        BY <4>1, Kinds DEF IInv, MarksHeld, IsCustomer
      <4>3. Carries[q] \in Mid
        BY DEF IsCustomer
      <4>. QED
        BY <2>1, <4>2, <4>3 DEF LookedUp, Rising
    <3>. QED
      BY <3>1, <3>2
  <2>3. CASE q \in Timer /\ work[q].pc \in {"idle", "sleeping"} /\ work'[q] \in {Idle, Sleeping}
    <3>1. q \notin Delivery /\ work'[q].pc \in {"idle", "sleeping"} /\ work'[q].mids = {}
          /\ work'[q].key = NoKey /\ work'[q].trigger = NoTrigger
      BY <2>3, Blanks, Kinds
    <3>. QED
      BY <3>1 DEF Shape, LookedUp, WillSend
  <2>. QED
    BY <2>2, <2>3 DEF Others
<1>. QED
  BY <1>1, <1>2, <1>3, <1>6, <1>8, <1>9 DEF IInv

\* It also gives up none of the reasons, and what is owed grows by rows only
\* and shrinks to nothing for a reason only.
LEMMA Whole ==
  ASSUME IInv, NEW p \in Worker, TypeOK', TimersArmed', Others(p), Shape(p)', LookedUp(p)',
         Marked(p), Balanced(p), Passed(p), Rising(p)
  PROVE  Serves
<1>1. IInv'
  BY WholeKeeps
<1>2. \A m \in Mid : Reason(m) => Reason(m)'
  BY ReasonStays
<1>3. \A m \in Mid : /\ Cardinality(Holders(m))' + replies'[m] + rows[m]
                         <= Cardinality(Holders(m)) + replies[m] + rows'[m]
  BY HoldersStep
<1>4. \A m \in Mid : Holders(m) # {} /\ Holders(m)' = {} => Excused(m)'
  <2>. SUFFICES ASSUME NEW m \in Mid, Holders(m) # {}, Holders(m)' = {}, ~Excused(m)'
                PROVE  FALSE
    OBVIOUS
  <2>1. Owes(p, m) \/ m \in buffer.mids => Owes(p, m)' \/ m \in buffer'.mids
    BY DEF Passed
  <2>2. ~Owes(p, m)' /\ m \notin buffer'.mids /\ \A q \in Worker : ~Owes(q, m)'
    BY DEF Holders
  <2>3. \A q \in Worker : ~Owes(q, m)
    BY <2>1, <2>2, OthersOwe
  <2>. QED
    BY <2>1, <2>2, <2>3 DEF Holders
<1>. QED
  BY <1>1, <1>2, <1>3, <1>4 DEF Serves

-----------------------------------------------------------------------------
(* Steps that touch neither the buffer nor the waiting ad.                   *)

\* What such a step leaves alone, and what it may write.
Quiet ==
    /\ UNCHANGED <<rows, since, aged, buffer, pending, occasion, crashes, replies,
                   claims, consults>>
    /\ doc' \in Doc /\ bots' \in [BOOLEAN \X BOOLEAN -> Nat]
    /\ adRows' \subseteq Trigger /\ consumed' \subseteq Trigger /\ untold' \subseteq Staff
    /\ failures' \in {failures, failures + 1}
    /\ \/ UNCHANGED <<pauses, running, selfPauses>>
       \/ /\ pauses' = pauses + 1 /\ running' = running \cup {pauses'}
          /\ \/ selfPauses' = selfPauses + 1
             \/ selfPauses' = selfPauses /\ \E s \in Staff : rows[s] > 0

\* One worker that is no timer asleep changes.
LEMMA Alone ==
  ASSUME IInv, NEW p \in Worker, NEW w \in WorkState, work' = [work EXCEPT ![p] = w],
         work[p].pc # "sleeping", w.pc # "sleeping", buffer' = buffer, pending' = pending
  PROVE  /\ Others(p) /\ TimersArmed' /\ work'[p] = w /\ work' \in [Worker -> WorkState]
<1>1. work \in [Worker -> WorkState]
  BY DEF IInv, TypeOK
<1>2. /\ work'[p] = w /\ \A q \in Worker \ {p} : work'[q] = work[q]
      /\ work' \in [Worker -> WorkState]
  BY <1>1
<1>3. TimersArmed'
  <2>1. TimersArmed
    BY DEF IInv
  <2>2. \A t \in Timer : work'[t].pc = "sleeping" <=> work[t].pc = "sleeping"
    BY <1>2, Kinds
  <2>. QED
    BY <2>1, <2>2 DEF TimersArmed
<1>. QED
  BY <1>2, <1>3 DEF Others

LEMMA QuietTypes ==
  ASSUME IInv, Quiet, work' \in [Worker -> WorkState], marks' \subseteq Key
  PROVE  /\ TypeOK' /\ selfPauses <= selfPauses' /\ failures <= failures'
         /\ pauses' = pauses \/ selfPauses' > 0 \/ \E s \in Staff : rows[s] > 0
<1>1. /\ pauses \in Nat /\ running \subseteq 1..pauses /\ selfPauses \in Nat
      /\ failures \in Nat /\ since \in [Staff -> 0..pauses]
  BY DEF IInv, TypeOK
<1>2. /\ pauses' \in Nat /\ running' \subseteq 1..pauses' /\ selfPauses' \in Nat
      /\ failures' \in Nat /\ selfPauses <= selfPauses' /\ failures <= failures'
      /\ pauses <= pauses'
      /\ pauses' = pauses \/ selfPauses' > 0 \/ \E s \in Staff : rows[s] > 0
  <2>1. failures' \in Nat /\ failures <= failures'
    BY <1>1 DEF Quiet
  <2>2. CASE UNCHANGED <<pauses, running, selfPauses>>
    BY <1>1, <2>1, <2>2
  <2>3. CASE /\ pauses' = pauses + 1 /\ running' = running \cup {pauses'}
             /\ \/ selfPauses' = selfPauses + 1
                \/ selfPauses' = selfPauses /\ \E s \in Staff : rows[s] > 0
    <3>1. pauses' \in Nat /\ pauses' \in 1..pauses' /\ 1..pauses \subseteq 1..pauses'
      BY <1>1, <2>3
    <3>2. running' \subseteq 1..pauses'
      BY <1>1, <2>3, <3>1
    <3>. QED
      BY <1>1, <2>1, <2>3, <3>1, <3>2
  <2>. QED
    BY <2>2, <2>3 DEF Quiet
<1>3. since' \in [Staff -> 0..pauses']
  BY <1>1, <1>2 DEF Quiet
<1>4. TypeOK'
  BY <1>2, <1>3 DEF IInv, TypeOK, Quiet
<1>. QED
  BY <1>2, <1>4

LEMMA Moves ==
  ASSUME IInv, Quiet, NEW p \in Worker, NEW w \in WorkState,
         work' = [work EXCEPT ![p] = w],
         work[p].pc \notin {"sleeping", "done"}, w.pc # "sleeping",
         \/ w.key = work[p].key /\ marks' = marks
         \/ w.key = NoKey /\ marks' = marks \ {work[p].key},
         Shape(p)', LookedUp(p)',
         \A m \in Mid : Owes(p, m)' => Owes(p, m),
         \A m \in Mid : Owes(p, m) => Owes(p, m)' \/ Excused(m)',
         \A a \in Trigger : MayAsk(p, a)' => MayAsk(p, a)
  PROVE  Serves
<1>1. Others(p) /\ TimersArmed' /\ work'[p] = w /\ work' \in [Worker -> WorkState]
  <2>1. buffer' = buffer /\ pending' = pending
    BY DEF Quiet
  <2>. QED
    BY <2>1, Alone
<1>2. marks' \subseteq Key
  BY DEF IInv, TypeOK
<1>3. /\ TypeOK' /\ selfPauses <= selfPauses' /\ failures <= failures'
      /\ pauses' = pauses \/ selfPauses' > 0 \/ \E s \in Staff : rows[s] > 0
  BY <1>1, <1>2, QuietTypes
<1>4. Marked(p)
  BY <1>1 DEF Marked
<1>5. /\ rows' = rows /\ replies' = replies /\ claims' = claims /\ consults' = consults
      /\ buffer' = buffer /\ pending' = pending /\ aged' = aged /\ crashes' = crashes
      /\ occasion' = occasion
  BY DEF Quiet
<1>6. Balanced(p)
  <2>1. /\ \A m \in Mid : One(Owes(p, m)') <= One(Owes(p, m)) /\ One(Owes(p, m)) \in Nat
                          /\ One(Owes(p, m)') \in Nat /\ One(m \in buffer.mids) \in Nat
        /\ \A a \in Trigger : One(MayAsk(p, a)') <= One(MayAsk(p, a)) /\ One(MayAsk(p, a)) \in Nat
                          /\ One(MayAsk(p, a)') \in Nat /\ One(a = pending.trigger) \in Nat
    BY DEF One
  <2>2. /\ \A m \in Mid : rows[m] \in Nat /\ replies[m] \in Nat
        /\ \A a \in Trigger : claims[a] \in Nat /\ consults[a] \in Nat
    BY DEF IInv, TypeOK
  <2>. QED
    BY <1>5, <2>1, <2>2 DEF Balanced
<1>7. Passed(p)
  BY <1>5 DEF Passed
<1>8. Rising(p)
  <2>1. /\ \A k \in Mid \cup Staff : rows[k] \in Nat
        /\ \A m \in Mid : replies[m] \in Nat
        /\ crashes \in Nat
    BY DEF IInv, TypeOK
  <2>. QED
    BY <1>3, <1>5, <2>1 DEF Rising
<1>. QED
  BY <1>1, <1>3, <1>4, <1>6, <1>7, <1>8, Whole

\* p returns and releases its key.
LEMMA Ending ==
  ASSUME IInv, Quiet, NEW p \in Worker, Ends(p), work[p].pc \notin {"sleeping", "done"},
         \A m \in Mid : Owes(p, m) => Excused(m)'
  PROVE  Serves
<1>. PICK w : w = Over(p)
  OBVIOUS
<1>1. /\ w \in WorkState /\ w.pc \in {"idle", "done"} /\ w.mids = {} /\ w.key = NoKey
      /\ w.trigger = NoTrigger
      /\ p \in Delivery => w.pc = "done"
      /\ work' = [work EXCEPT ![p] = w] /\ marks' = marks \ {work[p].key}
  <2>1. "done" \in PC
    BY DEF PC
  <2>2. work' = [work EXCEPT ![p] = w] /\ marks' = marks \ {work[p].key}
    BY DEF Ends
  <2>3. CASE p \in Timer
    <3>1. w = Idle /\ p \notin Delivery
      BY <2>3, Kinds DEF Over
    <3>. QED
      BY <2>2, <3>1, Blanks
  <2>4. CASE p \notin Timer
    <3>1. w = Blank("done")
      BY <2>4 DEF Over
    <3>. QED
      BY <2>1, <2>2, <3>1, Blanks
  <2>. QED
    BY <2>3, <2>4
<1>2. work'[p] = w
  BY <1>1 DEF IInv, TypeOK
<1>3. /\ Shape(p)' /\ LookedUp(p)'
      /\ \A m \in Mid : ~Owes(p, m)'
      /\ \A a \in Trigger : ~MayAsk(p, a)'
  BY <1>1, <1>2 DEF Shape, LookedUp, Owes, MayAsk, WillSend
<1>. QED
  BY <1>1, <1>3, Moves

\* The steps that change a worker's place and not its batch, trigger or key.
Onward(a, b) ==
    \/ a = b /\ a \in {"loaded", "rowed", "ready", "final"}
    \/ a = "arriving" /\ b = "looked"
    \/ a \in {"fetching", "relook"} /\ b = "load"
    \/ a = "load" /\ b = "loaded"
    \/ a = "loaded" /\ b = "checked"
    \/ a = "reload" /\ b = "ready"
    \/ a = "answered" /\ b = "final"
    \/ a = "final" /\ b = "send"
    \/ a = "sent" /\ b = "quota"
    \/ a \in {"sent", "quota"} /\ b = "logged"

LEMMA Advances ==
  ASSUME IInv, Quiet, NEW p \in Worker, NEW w \in WorkState,
         work' = [work EXCEPT ![p] = w], marks' = marks,
         Onward(work[p].pc, w.pc), w.mids = work[p].mids, w.key = work[p].key,
         w.trigger = work[p].trigger, LookedUp(p)'
  PROVE  Serves
<1>1. work'[p] = w /\ rows' = rows /\ occasion' = occasion
  BY DEF IInv, TypeOK, Quiet
<1>2. work[p].pc \notin {"sleeping", "done"} /\ w.pc # "sleeping"
  BY DEF Onward
<1>3. Shape(p)
  BY DEF IInv
<1>4. Shape(p)'
  BY <1>1, <1>3, Kinds DEF Shape, Onward, ForTrigger, WillSend
<1>5. \A m \in Mid : Owes(p, m)' <=> Owes(p, m)
  <2>1. /\ work[p].pc \in WillSend <=> w.pc \in WillSend
        /\ work[p].pc = "rowed" <=> w.pc = "rowed"
    <3>1. CASE work[p].pc \in {"load", "loaded", "fetching", "relook", "arriving"}
      BY <3>1 DEF Onward, WillSend
    <3>2. CASE work[p].pc \in {"sent", "quota", "rowed"}
      BY <3>2 DEF Onward, WillSend
    <3>3. CASE work[p].pc \in {"reload", "answered", "final", "ready"}
      BY <3>3 DEF Onward, WillSend
    <3>. QED
      BY <3>1, <3>2, <3>3 DEF Onward
  <2>. QED
    BY <1>1, <2>1 DEF Owes
<1>6. \A a \in Trigger : MayAsk(p, a)' => MayAsk(p, a)
  <2>1. \A a \in Trigger : work[p].trigger = a => work[p].pc \notin {"arriving", "looked"}
    BY <1>3, Kinds DEF Shape
  <2>. QED
    BY <1>1, <2>1 DEF MayAsk, Onward
<1>. QED
  BY <1>2, <1>4, <1>5, <1>6, Moves

\* A step that leaves the database, the clock and the counters alone is quiet.
LEMMA Calm ==
  ASSUME IInv, UNCHANGED <<tables, buffer, pending, consumed, clock, occasion, selfPauses,
                           crashes, history>>,
         doc' \in Doc, failures' \in {failures, failures + 1}
  PROVE  Quiet
BY DEF IInv, TypeOK, Quiet, tables, clock, history

LEMMA Copies ==
  ASSUME IInv, NEW p \in Worker
  PROVE  /\ work \in [Worker -> WorkState] /\ work[p] \in WorkState /\ doc \in Doc
         /\ work[p].copy \in Doc
         /\ \A n \in Nat : [work[p].copy EXCEPT !.pause = n] \in Doc
         /\ [work[p].copy EXCEPT !.init = TRUE] \in Doc
         /\ \A pc \in PC : [work[p] EXCEPT !.pc = pc] \in WorkState
         /\ pauses \in Nat
<1>1. work[p] \in WorkState /\ doc \in Doc /\ pauses \in Nat /\ work \in [Worker -> WorkState]
  BY DEF IInv, TypeOK
<1>2. work[p].copy \in Doc
  BY <1>1 DEF WorkState
<1>. QED
  BY <1>1, <1>2 DEF WorkState, Doc

LEMMA LookUpDuplicateKeeps ==
  ASSUME IInv, NEW d \in Delivery, LookUpDuplicate(d)
  PROVE  Serves
<1>0. d \in Worker
  BY Kinds
<1>. PICK h \in BOOLEAN : h = IF Carries[d] \in Trigger THEN TriggerSeen(Carries[d])
                                                        ELSE rows[Carries[d]] > 0
  <2>1. CASE Carries[d] \in Trigger
    <3>1. TriggerSeen(Carries[d]) \in BOOLEAN
      BY DEF TriggerSeen
    <3>. QED
      BY <2>1, <3>1, Zenon
  <2>2. CASE Carries[d] \notin Trigger
    <3>1. (rows[Carries[d]] > 0) \in BOOLEAN
      OBVIOUS
    <3>. QED
      BY <2>2, <3>1, Zenon
  <2>. QED
    BY <2>1, <2>2
<1>. PICK w : w = [work[d] EXCEPT !.pc = "looked", !.hit = h]
  OBVIOUS
<1>1. /\ w \in WorkState /\ w.pc = "looked" /\ w.mids = work[d].mids
      /\ w.key = work[d].key /\ w.trigger = work[d].trigger
      /\ work' = [work EXCEPT ![d] = w]
  <2>1. "looked" \in PC
    BY DEF PC
  <2>2. work[d] \in WorkState /\ doc \in Doc
    BY <1>0, Copies
  <2>3. work' = [work EXCEPT ![d] = w]
    BY DEF LookUpDuplicate
  <2>. QED
    BY <2>1, <2>2, <2>3 DEF WorkState
<1>2. Quiet /\ marks' = marks
  BY Calm DEF LookUpDuplicate, database, tables, budget, IInv, TypeOK
<1>3. LookedUp(d)'
  BY <1>0, <1>1, Copies DEF LookedUp
<1>4. Onward(work[d].pc, w.pc)
  BY <1>1 DEF LookUpDuplicate, Onward
<1>. QED
  BY <1>0, <1>1, <1>2, <1>3, <1>4, Advances

LEMMA PrepareKeeps ==
  ASSUME IInv, NEW d \in Delivery, Prepare(d)
  PROVE  Serves
<1>0. d \in Worker
  BY Kinds
<1>. PICK w : w = [work[d] EXCEPT !.pc = "load"]
  OBVIOUS
<1>1. /\ w \in WorkState /\ w.pc = "load" /\ w.mids = work[d].mids
      /\ w.key = work[d].key /\ w.trigger = work[d].trigger
      /\ work' = [work EXCEPT ![d] = w]
  <2>1. "load" \in PC
    BY DEF PC
  <2>2. work[d] \in WorkState /\ doc \in Doc
    BY <1>0, Copies
  <2>3. work' = [work EXCEPT ![d] = w]
    BY DEF Prepare, Step
  <2>. QED
    BY <2>1, <2>2, <2>3 DEF WorkState
<1>2. Quiet /\ marks' = marks
  BY Calm DEF Prepare, database, tables, budget, IInv, TypeOK
<1>3. LookedUp(d)'
  BY <1>0, <1>1, Copies DEF LookedUp
<1>4. Onward(work[d].pc, w.pc)
  BY <1>1 DEF Prepare, Onward
<1>. QED
  BY <1>0, <1>1, <1>2, <1>3, <1>4, Advances

LEMMA LoadKeeps ==
  ASSUME IInv, NEW p \in Worker, Load(p)
  PROVE  Serves
<1>. PICK w : w = [work[p] EXCEPT !.pc = "loaded", !.copy = doc]
  OBVIOUS
<1>1. /\ w \in WorkState /\ w.pc = "loaded" /\ w.mids = work[p].mids
      /\ w.key = work[p].key /\ w.trigger = work[p].trigger
      /\ work' = [work EXCEPT ![p] = w]
  <2>1. "loaded" \in PC
    BY DEF PC
  <2>2. work[p] \in WorkState /\ doc \in Doc
    BY Copies
  <2>3. work' = [work EXCEPT ![p] = w]
    BY DEF Load
  <2>. QED
    BY <2>1, <2>2, <2>3 DEF WorkState
<1>2. Quiet /\ marks' = marks
  BY Calm DEF Load, database, tables, budget, IInv, TypeOK
<1>3. LookedUp(p)'
  BY <1>1, Copies DEF LookedUp
<1>4. Onward(work[p].pc, w.pc)
  BY <1>1 DEF Load, Onward
<1>. QED
  BY <1>1, <1>2, <1>3, <1>4, Advances

LEMMA ResumeKeeps ==
  ASSUME IInv, NEW p \in Worker, Resume(p)
  PROVE  Serves
<1>. PICK x \in Nat : x = IF /\ work[p].ctx = 0
                             /\ work[p].pc = "loaded" => IsCustomer(p)
                             /\ work[p].pc # "final"
                          THEN work[p].copy.pause ELSE work[p].ctx
  BY Copies DEF WorkState, Doc
<1>. PICK w : w = [work[p] EXCEPT !.copy = doc', !.ctx = x]
  OBVIOUS
<1>1. doc' \in Doc
  BY Copies DEF Resume
<1>2. /\ w \in WorkState /\ w.pc = work[p].pc /\ w.mids = work[p].mids
      /\ w.key = work[p].key /\ w.trigger = work[p].trigger
      /\ work' = [work EXCEPT ![p] = w]
  BY <1>1, Copies DEF Resume, WorkState
<1>3. Quiet /\ marks' = marks
  BY <1>1, Calm DEF Resume, budget
<1>4. Onward(work[p].pc, w.pc) /\ w.pc # "checked"
  BY <1>2 DEF Resume, Onward
<1>5. LookedUp(p)'
  BY <1>2, <1>4, Copies DEF LookedUp
<1>. QED
  BY <1>2, <1>3, <1>4, <1>5, Advances

\* The lookup of a recent row finds none, so no young row of the message is
\* there when it is stored.
LEMMA CheckKeeps ==
  ASSUME IInv, NEW p \in Worker, Check(p)
  PROVE  Serves
<1>. PICK w : w = [work[p] EXCEPT !.pc = "checked"]
  OBVIOUS
<1>1. /\ w \in WorkState /\ w.pc = "checked" /\ w.mids = work[p].mids
      /\ w.key = work[p].key /\ w.trigger = work[p].trigger
      /\ work' = [work EXCEPT ![p] = w]
  <2>1. "checked" \in PC
    BY DEF PC
  <2>2. work[p] \in WorkState /\ doc \in Doc
    BY Copies
  <2>3. work' = [work EXCEPT ![p] = w]
    BY DEF Check, Step
  <2>. QED
    BY <2>1, <2>2, <2>3 DEF WorkState
<1>2. Quiet /\ marks' = marks /\ rows' = rows /\ aged' = aged
  BY Calm DEF Check, database, tables, budget, IInv, TypeOK
<1>3. LookedUp(p)'
  <2>. SUFFICES ASSUME IsCustomer(p)
                PROVE  \/ rows[Carries[p]] = 0 \/ Carries[p] \in aged \cup Comment
                       \/ TextOf[Carries[p]] = NoText
    BY <1>1, <1>2 DEF LookedUp, IsCustomer
  <2>1. Shape(p) /\ Carries[p] \in Mid /\ rows[Carries[p]] \in Nat
    BY DEF IInv, TypeOK, IsCustomer
  <2>2. ~ForTrigger(p)
    BY <2>1, Kinds DEF Shape, Check, IsCustomer
  <2>3. ~RecentTwin(Carries[p])
    BY <2>2 DEF Check
  <2>. QED
    BY <2>1, <2>3 DEF RecentTwin
<1>4. Onward(work[p].pc, w.pc)
  BY <1>1 DEF Check, Onward
<1>. QED
  BY <1>1, <1>2, <1>3, <1>4, Advances

LEMMA InitialiseSessionKeeps ==
  ASSUME IInv, NEW p \in Worker, InitialiseSession(p)
  PROVE  Serves
<1>. PICK w : w = [work[p] EXCEPT !.copy = doc']
  OBVIOUS
<1>1. doc' \in Doc
  BY Copies DEF InitialiseSession
<1>2. /\ w \in WorkState /\ w.pc = work[p].pc /\ w.mids = work[p].mids
      /\ w.key = work[p].key /\ w.trigger = work[p].trigger
      /\ work' = [work EXCEPT ![p] = w]
  BY <1>1, Copies DEF InitialiseSession, WorkState
<1>3. Quiet /\ marks' = marks
  BY <1>1, Calm DEF InitialiseSession, budget
<1>4. Onward(work[p].pc, w.pc) /\ w.pc # "checked"
  BY <1>2 DEF InitialiseSession, Asking, Onward
<1>5. LookedUp(p)'
  BY <1>2, <1>4, Copies DEF LookedUp
<1>. QED
  BY <1>2, <1>3, <1>4, <1>5, Advances

LEMMA ReloadKeeps ==
  ASSUME IInv, NEW p \in Worker, Reload(p)
  PROVE  Serves
<1>. PICK pc \in PC : pc = IF work[p].pc = "reload" THEN "ready" ELSE "final"
  BY DEF PC
<1>. PICK c \in Doc : \/ c = doc /\ failures' = failures
                        /\ work' = [work EXCEPT ![p].copy = c, ![p].pc = pc]
                      \/ c = work[p].copy /\ failures' = failures + 1
                        /\ work' = [work EXCEPT ![p].pc = pc]
  <2>1. doc \in Doc /\ work[p].copy \in Doc /\ work \in [Worker -> WorkState]
    BY Copies
  <2>. QED
    BY <2>1 DEF Reload, Step
<1>. PICK w : w = [work[p] EXCEPT !.copy = c, !.pc = pc]
  OBVIOUS
<1>1. /\ w \in WorkState /\ w.pc = pc /\ w.mids = work[p].mids
      /\ w.key = work[p].key /\ w.trigger = work[p].trigger
      /\ work' = [work EXCEPT ![p] = w]
  <2>1. work[p] \in WorkState /\ work \in [Worker -> WorkState]
    BY Copies
  <2>2. /\ w \in WorkState /\ w.pc = pc /\ w.mids = work[p].mids
        /\ w.key = work[p].key /\ w.trigger = work[p].trigger
    BY <2>1 DEF WorkState
  <2>3. c = work[p].copy => w = [work[p] EXCEPT !.pc = pc]
    BY <2>1 DEF WorkState
  <2>4. work' = [work EXCEPT ![p] = w]
    BY <2>1, <2>3
  <2>. QED
    BY <2>2, <2>4
<1>2. Quiet /\ marks' = marks
  BY Calm DEF Reload, database, tables, IInv, TypeOK
<1>3. Onward(work[p].pc, w.pc) /\ w.pc # "checked"
  BY <1>1 DEF Reload, Onward
<1>4. LookedUp(p)'
  BY <1>1, <1>3, Copies DEF LookedUp
<1>. QED
  BY <1>1, <1>2, <1>3, <1>4, Advances

\* A pause the bot takes is quiet.
LEMMA SelfPauseQuiet ==
  ASSUME IInv, NEW p \in Worker, SelfPause(p),
         UNCHANGED <<tables, buffer, pending, consumed, occasion, crashes, history>>
  PROVE  Quiet /\ selfPauses' > 0 /\ pauses' \in Nat
<1>1. /\ selfPauses' = selfPauses + 1 /\ selfPauses \in Nat
      /\ pauses' = pauses + 1 /\ pauses \in Nat /\ running' = running \cup {pauses'}
  BY DEF SelfPause, IInv, TypeOK
<1>2. doc' \in Doc /\ failures' \in {failures, failures + 1}
  <2>1. pauses' \in Nat
    BY <1>1
  <2>2. doc \in Doc
    BY Copies
  <2>3. [work[p].copy EXCEPT !.pause = pauses'] \in Doc
    BY <2>1, Copies
  <2>. QED
    BY <2>2, <2>3 DEF SelfPause
<1>. QED
  BY <1>1, <1>2 DEF IInv, TypeOK, Quiet, tables, history

LEMMA HandOverKeeps ==
  ASSUME IInv, NEW p \in Worker, HandOver(p)
  PROVE  Serves
<1>. PICK w : w = [work[p] EXCEPT !.pc = "send", !.copy.pause = pauses']
  OBVIOUS
<1>1. Quiet /\ marks' = marks /\ pauses' \in Nat
  BY SelfPauseQuiet DEF HandOver
<1>2. /\ w \in WorkState /\ w.pc = "send" /\ w.mids = work[p].mids
      /\ w.key = work[p].key /\ w.trigger = work[p].trigger
      /\ work' = [work EXCEPT ![p] = w]
  <2>1. "send" \in PC
    BY DEF PC
  <2>2. work[p] \in WorkState
    BY Copies
  <2>3. work' = [work EXCEPT ![p] = w]
    BY DEF HandOver
  <2>. QED
    BY <1>1, <2>1, <2>2, <2>3 DEF WorkState, Doc
<1>3. Onward(work[p].pc, w.pc)
  BY <1>2 DEF HandOver, Final, Onward
<1>4. LookedUp(p)'
  BY <1>2, Copies DEF LookedUp
<1>. QED
  BY <1>1, <1>2, <1>3, <1>4, Advances

LEMMA PauseForQuotaKeeps ==
  ASSUME IInv, NEW p \in Worker, PauseForQuota(p)
  PROVE  Serves
<1>. PICK w : w = [work[p] EXCEPT !.pc = "quota", !.copy.pause = pauses']
  OBVIOUS
<1>1. Quiet /\ marks' = marks /\ pauses' \in Nat
  BY SelfPauseQuiet DEF PauseForQuota
<1>2. /\ w \in WorkState /\ w.pc = "quota" /\ w.mids = work[p].mids
      /\ w.key = work[p].key /\ w.trigger = work[p].trigger
      /\ work' = [work EXCEPT ![p] = w]
  <2>1. "quota" \in PC
    BY DEF PC
  <2>2. work[p] \in WorkState
    BY Copies
  <2>3. work' = [work EXCEPT ![p] = w]
    BY DEF PauseForQuota
  <2>. QED
    BY <1>1, <2>1, <2>2, <2>3 DEF WorkState, Doc
<1>3. Onward(work[p].pc, w.pc)
  BY <1>2 DEF PauseForQuota, Onward
<1>4. LookedUp(p)'
  BY <1>2, Copies DEF LookedUp
<1>. QED
  BY <1>1, <1>2, <1>3, <1>4, Advances

LEMMA StoreReplyKeeps ==
  ASSUME IInv, NEW p \in Worker, StoreReply(p)
  PROVE  Serves
<1>. PICK w : w = [work[p] EXCEPT !.pc = "logged"]
  OBVIOUS
<1>1. /\ w \in WorkState /\ w.pc = "logged" /\ w.mids = work[p].mids
      /\ w.key = work[p].key /\ w.trigger = work[p].trigger
      /\ work' = [work EXCEPT ![p] = w]
  <2>1. "logged" \in PC
    BY DEF PC
  <2>2. work[p] \in WorkState
    BY Copies
  <2>3. work' = [work EXCEPT ![p] = w]
    BY DEF StoreReply, Step
  <2>. QED
    BY <2>1, <2>2, <2>3 DEF WorkState
<1>2. Quiet /\ marks' = marks
  <2>1. bots' \in [BOOLEAN \X BOOLEAN -> Nat]
    <3>1. /\ bots \in [BOOLEAN \X BOOLEAN -> Nat] /\ work[p].ok \in BOOLEAN
          /\ ForInbox(p) \in BOOLEAN
      BY Copies DEF IInv, TypeOK, WorkState, ForInbox, ForTrigger
    <3>2. PICK b \in BOOLEAN \X BOOLEAN : b = <<work[p].ok, ForInbox(p)>>
      BY <3>1
    <3>3. bots' = [bots EXCEPT ![b] = @ + 1]
      BY <3>2 DEF StoreReply
    <3>. QED
      BY <3>1, <3>3
  <2>2. adRows' \subseteq Trigger
    <3>1. work[p].trigger \in Trigger \cup {NoTrigger} /\ adRows \subseteq Trigger
      BY Copies DEF IInv, TypeOK, WorkState
    <3>. QED
      BY <3>1 DEF StoreReply
  <2>. QED
    BY <2>1, <2>2 DEF StoreReply, IInv, TypeOK, Quiet, clock, budget, history
<1>3. Onward(work[p].pc, w.pc)
  BY <1>1 DEF StoreReply, Onward
<1>4. LookedUp(p)'
  BY <1>1, Copies DEF LookedUp
<1>. QED
  BY <1>1, <1>2, <1>3, <1>4, Advances

-----------------------------------------------------------------------------
(* Workers that return.                                                     *)

LEMMA NotOwing ==
  ASSUME IInv, NEW p \in Worker, work[p].pc \notin WillSend \cup {"rowed"}
  PROVE  \A m \in Mid : ~Owes(p, m)
BY DEF Owes

\* The mark of a worker that has none is no mark.
LEMMA NoMark ==
  ASSUME IInv, NEW p \in Worker, work[p].pc \in {"arriving", "looked"}
  PROVE  marks \ {work[p].key} = marks
BY Kinds DEF IInv, TypeOK, Shape

LEMMA IgnoreKeeps ==
  ASSUME IInv, NEW d \in Delivery, Ignore(d)
  PROVE  Serves
<1>0. d \in Worker /\ work[d].pc = "looked"
  BY Kinds DEF Ignore
<1>1. Ends(d)
  BY <1>0, NoMark DEF Ignore, Ends
<1>2. Quiet
  BY Calm DEF Ignore, database, tables, budget, IInv, TypeOK
<1>3. \A m \in Mid : ~Owes(d, m)
  BY <1>0 DEF Owes, WillSend
<1>. QED
  BY <1>0, <1>1, <1>2, <1>3, Ending

LEMMA LookUpAgainKeeps ==
  ASSUME IInv, NEW t \in Timer, LookUpAgain(t)
  PROVE  Serves
<1>0. t \in Worker /\ work[t].pc = "relook"
  BY Kinds DEF LookUpAgain
<1>1. Quiet
  BY Calm DEF LookUpAgain, database, tables, budget, IInv, TypeOK
<1>2. CASE Ends(t)
  <2>1. \A m \in Mid : ~Owes(t, m)
    BY <1>0 DEF Owes, WillSend
  <2>. QED
    BY <1>0, <1>1, <1>2, <2>1, Ending
<1>3. CASE Step(t, "load") /\ UNCHANGED marks
  <2>. PICK w : w = [work[t] EXCEPT !.pc = "load"]
    OBVIOUS
  <2>1. /\ w \in WorkState /\ w.pc = "load" /\ w.mids = work[t].mids
        /\ w.key = work[t].key /\ w.trigger = work[t].trigger
        /\ work' = [work EXCEPT ![t] = w]
    <3>1. "load" \in PC
      BY DEF PC
    <3>2. work[t] \in WorkState
      BY <1>0, Copies
    <3>3. work' = [work EXCEPT ![t] = w]
      BY <1>3 DEF Step
    <3>. QED
      BY <3>1, <3>2, <3>3 DEF WorkState
  <2>2. Onward(work[t].pc, w.pc)
    BY <1>0, <2>1 DEF Onward
  <2>3. LookedUp(t)'
    BY <1>0, <2>1, Copies DEF LookedUp
  <2>. QED
    BY <1>0, <1>1, <1>3, <2>1, <2>2, <2>3, Advances
<1>. QED
  BY <1>2, <1>3 DEF LookUpAgain

LEMMA DropTwinKeeps ==
  ASSUME IInv, NEW p \in Worker, DropTwin(p)
  PROVE  Serves
<1>1. Quiet
  BY Calm DEF DropTwin, database, tables, budget, IInv, TypeOK
<1>2. /\ Ends(p) /\ work[p].pc = "loaded"
      /\ \A m \in Mid : ~Owes(p, m)
  BY DEF DropTwin, Owes, WillSend
<1>. QED
  BY <1>1, <1>2, Ending

LEMMA SaveConversationKeeps ==
  ASSUME IInv, NEW p \in Worker, SaveConversation(p)
  PROVE  Serves
<1>1. doc' \in Doc
  BY Copies DEF SaveConversation
<1>2. Quiet
  BY <1>1, Calm DEF SaveConversation, budget
<1>3. /\ Ends(p) /\ work[p].pc = "logged"
      /\ \A m \in Mid : ~Owes(p, m)
  BY DEF SaveConversation, Owes, WillSend
<1>. QED
  BY <1>2, <1>3, Ending

LEMMA RefuseContentKeeps ==
  ASSUME IInv, NEW d \in Delivery, RefuseContent(d)
  PROVE  Serves
<1>1. d \in Worker /\ Ends(d) /\ work[d].pc = "rowed" /\ TextOf[Carries[d]] = NoText
  BY Kinds DEF RefuseContent
<1>2. Quiet
  BY Calm DEF RefuseContent, database, tables, budget, IInv, TypeOK
<1>3. \A m \in Mid : Owes(d, m) => Excused(m)'
  BY <1>1 DEF Owes, WillSend, Excused, Reason
<1>. QED
  BY <1>1, <1>2, <1>3, Ending

\* A comment is not answered where comments are not.
LEMMA IgnoreCommentKeeps ==
  ASSUME IInv, NEW d \in Delivery, IgnoreComment(d)
  PROVE  Serves
<1>1. /\ d \in Worker /\ Ends(d) /\ work[d].pc = "rowed"
      /\ Carries[d] \in Comment /\ ~occasion.commentReply
  BY Kinds DEF IgnoreComment
<1>2. Quiet /\ occasion' = occasion
  BY Calm DEF IgnoreComment, database, tables, budget, IInv, TypeOK
<1>3. work[d].mids = {}
  BY <1>1 DEF IInv, Shape, WillSend
<1>4. \A m \in Mid : Owes(d, m) => Excused(m)'
  BY <1>1, <1>2, <1>3 DEF Owes, Excused, Reason
<1>. QED
  BY <1>1, <1>2, <1>4, Ending

\* A reply is held back during a pause, and a pause was explained.
LEMMA SuppressKeeps ==
  ASSUME IInv, NEW p \in Worker, Suppress(p)
  PROVE  Serves
<1>1. doc' \in Doc
  BY Copies DEF Suppress
<1>2. Quiet
  BY <1>1, Calm DEF Suppress, budget
<1>3. Ends(p) /\ work[p].pc \notin {"sleeping", "done"}
  BY DEF Suppress
<1>4. pauses > 0
  <2>. PICK k : k = work[p].copy.pause
    OBVIOUS
  <2>1. k \in running
    BY DEF Suppress, Paused
  <2>2. running \subseteq 1..pauses /\ pauses \in Nat
    BY DEF IInv, TypeOK
  <2>. QED
    BY <2>1, <2>2
<1>5. \A m \in Mid : Excused(m)'
  BY <1>4 DEF IInv, PauseExplained, Excused, Reason, Suppress, tables, budget
<1>. QED
  BY <1>2, <1>3, <1>5, Ending

LEMMA HandOverRepetitionKeeps ==
  ASSUME IInv, NEW p \in Worker, HandOverRepetition(p)
  PROVE  Serves
<1>1. Quiet /\ selfPauses' > 0
  BY SelfPauseQuiet DEF HandOverRepetition
<1>2. Ends(p) /\ work[p].pc \notin {"sleeping", "done"}
  BY DEF HandOverRepetition, Final
<1>3. \A m \in Mid : Excused(m)'
  BY <1>1 DEF Excused, Reason
<1>. QED
  BY <1>1, <1>2, <1>3, Ending

LEMMA FailKeeps ==
  ASSUME IInv, NEW p \in Worker, Fail(p)
  PROVE  Serves
<1>1. failures' = failures + 1 /\ failures \in Nat /\ doc' = doc /\ doc \in Doc
  BY DEF Fail, database, IInv, TypeOK
<1>2. Quiet
  BY <1>1, Calm DEF Fail, database, tables
<1>3. Ends(p) /\ work[p].pc \notin {"sleeping", "done"}
  BY DEF Fail
<1>4. \A m \in Mid : Excused(m)'
  BY <1>1 DEF Excused, Reason
<1>. QED
  BY <1>2, <1>3, <1>4, Ending

\* The pause after a staff message is explained by its row.
LEMMA PauseForStaffKeeps ==
  ASSUME IInv, NEW d \in Delivery, PauseForStaff(d)
  PROVE  Serves
<1>1. d \in Worker /\ Ends(d) /\ work[d].pc = "staffed"
  BY Kinds DEF PauseForStaff
<1>2. Carries[d] \in Staff /\ rows[Carries[d]] > 0
  BY <1>1 DEF IInv, Shape
<1>3. doc' \in Doc
  <2>1. pauses' \in Nat
    <3>1. pauses \in Nat
      BY DEF IInv, TypeOK
    <3>. QED
      BY <3>1 DEF PauseForStaff
  <2>2. [work[d].copy EXCEPT !.pause = pauses'] \in Doc
    BY <1>1, <2>1, Copies
  <2>. QED
    BY <2>2 DEF PauseForStaff
<1>4. Quiet
  BY <1>2, <1>3 DEF PauseForStaff, IInv, TypeOK, Quiet, tables, budget, history
<1>5. \A m \in Mid : ~Owes(d, m)
  BY <1>1 DEF Owes, WillSend
<1>. QED
  BY <1>1, <1>4, <1>5, Ending

-----------------------------------------------------------------------------
(* Steps that move messages and triggers between a worker and the entries.   *)

\* At most one failure is counted.
Spends ==
    /\ UNCHANGED <<database, clock, occasion, selfPauses, crashes, history>>
    /\ failures' \in {failures, failures + 1}

LEMMA SpendsNothing ==
  ASSUME UNCHANGED <<database, clock, budget, history>>
  PROVE  Spends
BY DEF Spends, budget

\* Nothing is doubled and no message is dropped without an excuse.
LEMMA Entries ==
  ASSUME IInv, NEW p \in Worker, Spends,
         work' \in [Worker -> WorkState], buffer' \in BufferEntry, pending' \in PendingEntry,
         consumed' \subseteq Trigger, TimersArmed', Others(p), Marked(p), Shape(p)',
         work'[p].pc # "checked", work[p].pc # "done",
         \A m \in Mid : Owes(p, m)' \/ m \in buffer'.mids => Owes(p, m) \/ m \in buffer.mids,
         \A m \in Mid : Owes(p, m)' /\ m \in buffer'.mids => Owes(p, m) /\ m \in buffer.mids,
         \A m \in Mid : Owes(p, m) \/ m \in buffer.mids
                          => Owes(p, m)' \/ m \in buffer'.mids \/ Excused(m)',
         \A m \in Comment : m \in buffer'.mids => m \in buffer.mids,
         \A a \in Trigger : MayAsk(p, a)' \/ a = pending'.trigger
                              => MayAsk(p, a) \/ a = pending.trigger,
         \A a \in Trigger : MayAsk(p, a)' /\ a = pending'.trigger
                              => MayAsk(p, a) /\ a = pending.trigger
  PROVE  Serves
<1>1. /\ doc' = doc /\ rows' = rows /\ since' = since /\ aged' = aged /\ adRows' = adRows
      /\ bots' = bots /\ pauses' = pauses /\ running' = running /\ occasion' = occasion
      /\ selfPauses' = selfPauses /\ failures' \in {failures, failures + 1}
      /\ crashes' = crashes /\ replies' = replies /\ claims' = claims
      /\ consults' = consults /\ untold' = untold
  BY DEF Spends, database, clock, history
<1>2. marks' \subseteq Key
  <2>1. marks \subseteq Key /\ work'[p].key \in Key \cup {NoKey}
    BY DEF IInv, TypeOK, WorkState
  <2>. QED
    BY <2>1 DEF Marked
<1>3. TypeOK'
  BY <1>1, <1>2 DEF IInv, TypeOK
<1>4. LookedUp(p)'
  BY DEF LookedUp
<1>5. /\ \A k \in Mid \cup Staff : rows[k] \in Nat
      /\ \A m \in Mid : replies[m] \in Nat
      /\ \A a \in Trigger : claims[a] \in Nat /\ consults[a] \in Nat
      /\ selfPauses \in Nat /\ failures \in Nat /\ crashes \in Nat
  BY DEF IInv, TypeOK
<1>6. Balanced(p)
  <2>1. \A m \in Mid : /\ One(Owes(p, m)') + One(m \in buffer'.mids)
                            <= One(Owes(p, m)) + One(m \in buffer.mids)
                       /\ One(Owes(p, m)') \in Nat /\ One(m \in buffer'.mids) \in Nat
                       /\ One(Owes(p, m)) \in Nat /\ One(m \in buffer.mids) \in Nat
    BY DEF One
  <2>2. \A a \in Trigger : /\ One(MayAsk(p, a)') + One(a = pending'.trigger)
                                <= One(MayAsk(p, a)) + One(a = pending.trigger)
                           /\ One(MayAsk(p, a)') \in Nat /\ One(a = pending'.trigger) \in Nat
                           /\ One(MayAsk(p, a)) \in Nat /\ One(a = pending.trigger) \in Nat
    BY DEF One
  <2>3. \A m \in Mid :
           replies'[m] + One(Owes(p, m)') + One(m \in buffer'.mids) + rows[m]
             <= rows'[m] + replies[m] + One(Owes(p, m)) + One(m \in buffer.mids)
    BY <1>1, <1>5, <2>1
  <2>4. \A a \in Trigger :
           consults'[a] + One(MayAsk(p, a)') + One(a = pending'.trigger) + claims[a]
             <= claims'[a] + consults[a] + One(MayAsk(p, a)) + One(a = pending.trigger)
    BY <1>1, <1>5, <2>2
  <2>. QED
    BY <2>3, <2>4 DEF Balanced
<1>7. Passed(p)
  BY <1>1 DEF Passed
<1>8. Rising(p)
  BY <1>1, <1>5 DEF Rising
<1>. QED
  BY <1>3, <1>4, <1>6, <1>7, <1>8, Whole

\* What the timers of the entries are.
LEMMA Timers ==
  ASSUME IInv
  PROVE  /\ buffer \in BufferEntry /\ pending \in PendingEntry
         /\ buffer.mids \subseteq Mid /\ pending.trigger \in Trigger \cup {NoTrigger}
         /\ buffer.timer \in Timer \cup {NoTimer} /\ pending.timer \in Timer \cup {NoTimer}
         /\ buffer.ctx \in Nat /\ buffer.copy \in Doc
         /\ NoBuffer \in BufferEntry /\ NoPending \in PendingEntry
         /\ consumed \subseteq Trigger
<1>1. /\ buffer \in BufferEntry /\ pending \in PendingEntry /\ consumed \subseteq Trigger
  BY DEF IInv, TypeOK
<1>. QED
  BY <1>1 DEF BufferEntry, PendingEntry, NoBuffer, NoPending, NoCopy, Doc

\* p changes and some timers of the entries are cancelled.
LEMMA Cancels ==
  ASSUME IInv, NEW p \in Worker, NEW w \in WorkState, NEW S,
         S \subseteq {buffer.timer, pending.timer}, p \notin S,
         work' = Cancelled([work EXCEPT ![p] = w], S)
  PROVE  /\ Others(p) /\ work'[p] = w /\ work' \in [Worker -> WorkState]
         /\ \A t \in Timer \ {p} :
               work'[t].pc = "sleeping" <=> work[t].pc = "sleeping" /\ t \notin S
<1>1. work \in [Worker -> WorkState] /\ Idle \in WorkState /\ Idle.pc = "idle"
  BY Blanks DEF IInv, TypeOK
<1>. HIDE DEF Idle
<1>2. /\ work' \in [Worker -> WorkState] /\ work'[p] = w
      /\ \A q \in Worker \ {p} : work'[q] = IF q \in S THEN Idle ELSE work[q]
  BY <1>1 DEF Cancelled
<1>3. \A q \in Worker \cap S : q \in Timer /\ work[q].pc = "sleeping"
  BY Timers, Kinds DEF IInv, TimersArmed
<1>. QED
  BY <1>1, <1>2, <1>3, Kinds DEF Others

\* p changes, a timer is set and some timers are cancelled.
LEMMA Arms ==
  ASSUME IInv, NEW p \in Worker, NEW w \in WorkState, NEW t \in Timer, NEW S,
         S \subseteq {buffer.timer, pending.timer}, p \notin S, p # t, work[t].pc = "idle",
         NEW v \in [Worker -> WorkState], work' = Cancelled(v, S),
         v[p] = w, v[t] = Sleeping, \A q \in Worker \ {p, t} : v[q] = work[q]
  PROVE  /\ Others(p) /\ work'[p] = w /\ work' \in [Worker -> WorkState]
         /\ \A u \in Timer \ {p} :
               work'[u].pc = "sleeping" <=> u = t \/ (work[u].pc = "sleeping" /\ u \notin S)
<1>1. /\ work \in [Worker -> WorkState] /\ Idle \in WorkState /\ Idle.pc = "idle"
      /\ Sleeping \in WorkState /\ Sleeping.pc = "sleeping"
  BY Blanks DEF IInv, TypeOK
<1>2. \A q \in Worker \cap S : q \in Timer /\ work[q].pc = "sleeping"
  BY Timers, Kinds DEF IInv, TimersArmed
<1>3. t \in Worker /\ t \notin S
  BY <1>2, Kinds
<1>4. /\ work' \in [Worker -> WorkState] /\ work'[p] = w /\ work'[t] = Sleeping
      /\ \A q \in Worker \ {p, t} : work'[q] = IF q \in S THEN Idle ELSE work[q]
  BY <1>1, <1>3 DEF Cancelled
<1>. QED
  BY <1>1, <1>2, <1>3, <1>4, Kinds DEF Others

\* The worker of a popped entry.
LEMMA Answers ==
  ASSUME NEW b \in BufferEntry, NEW a \in Trigger \cup {NoTrigger}, NEW k \in Key \cup {NoKey},
         NEW w, w = Answering(b, a, k)
  PROVE  /\ w \in WorkState /\ w.pc = "reload" /\ w.mids = b.mids /\ w.key = k
         /\ w.trigger = a
<1>1. "reload" \in PC
  BY DEF PC
<1>. QED
  BY <1>1 DEF Answering, Blank, WorkState, BufferEntry

LEMMA MergeIntoAdKeeps ==
  ASSUME IInv, NEW d \in Delivery, MergeIntoAd(d)
  PROVE  Serves
<1>0. /\ d \in Worker /\ d \notin Timer /\ work[d].pc = "fetching"
      /\ work \in [Worker -> WorkState] /\ work[d] \in WorkState
  BY Kinds DEF MergeIntoAd, IInv, TypeOK
<1>1. /\ Carries[d] \in Trigger /\ work[d].trigger = Carries[d] /\ work[d].mids = {}
      /\ work[d].key \in Key \cup {NoKey} /\ d \in occasion.comes
  BY <1>0 DEF IInv, Shape, WillSend, WorkState
<1>. PICK w : w = Answering(buffer, Carries[d], work[d].key)
  OBVIOUS
<1>2. /\ w \in WorkState /\ w.pc = "reload" /\ w.mids = buffer.mids /\ w.key = work[d].key
      /\ w.trigger = Carries[d]
  BY <1>1, Timers, Answers
<1>3. /\ Others(d) /\ work'[d] = w /\ work' \in [Worker -> WorkState]
      /\ \A t \in Timer \ {d} :
            work'[t].pc = "sleeping" <=> work[t].pc = "sleeping" /\ t \notin {buffer.timer}
  <2>1. work' = Cancelled([work EXCEPT ![d] = w], {buffer.timer})
    BY DEF MergeIntoAd
  <2>2. d \notin {buffer.timer} /\ {buffer.timer} \subseteq {buffer.timer, pending.timer}
    BY <1>0, Timers, Kinds
  <2>. QED
    BY <1>0, <1>2, <2>1, <2>2, Cancels
<1>4. /\ UNCHANGED <<database, clock, budget, history>> /\ marks' = marks
      /\ buffer' = NoBuffer /\ pending' = pending /\ occasion' = occasion
  BY DEF MergeIntoAd, budget
<1>5. consumed' \subseteq Trigger
  BY <1>1, Timers DEF MergeIntoAd, Consume
<1>6. TimersArmed'
  <2>1. buffer'.mids = {} /\ buffer'.timer = NoTimer
    BY <1>4 DEF NoBuffer
  <2>2. TimersArmed /\ NoTimer \notin Timer
    BY Kinds DEF IInv
  <2>. QED
    BY <1>0, <1>3, <1>4, <2>1, <2>2 DEF TimersArmed
<1>7. Marked(d)
  BY <1>2, <1>3, <1>4 DEF Marked
<1>8. Shape(d)'
  BY <1>1, <1>2, <1>3, <1>4 DEF Shape, WillSend
<1>9. /\ \A m \in Mid : ~Owes(d, m) /\ (Owes(d, m)' <=> m \in buffer.mids)
      /\ \A m : m \notin buffer'.mids
  BY <1>0, <1>1, <1>2, <1>3, <1>4 DEF Owes, WillSend, NoBuffer
<1>10. \A a \in Trigger : (MayAsk(d, a) <=> a = Carries[d]) /\ (MayAsk(d, a)' <=> a = Carries[d])
  BY <1>0, <1>1, <1>2, <1>3 DEF MayAsk
<1>. QED
  BY <1>0, <1>2, <1>3, <1>4, <1>5, <1>6, <1>7, <1>8, <1>9, <1>10, SpendsNothing, Timers, Entries

\* The waiting ad is displaced, and so is its timer.
LEMMA EnqueueAdKeeps ==
  ASSUME IInv, NEW d \in Delivery, EnqueueAd(d)
  PROVE  Serves
<1>0. /\ d \in Worker /\ d \notin Timer /\ work[d].pc = "fetching"
      /\ work \in [Worker -> WorkState] /\ work[d] \in WorkState
  BY Kinds DEF EnqueueAd, IInv, TypeOK
<1>1. /\ Carries[d] \in Trigger /\ work[d].trigger = Carries[d] /\ work[d].mids = {}
      /\ work[d].key \in Key \cup {NoKey}
  BY <1>0 DEF IInv, Shape, WillSend, WorkState
<1>a. PICK w : w = Over(d)
  OBVIOUS
<1>2. /\ w \in WorkState /\ w.pc = "done" /\ w.mids = {} /\ w.key = NoKey
      /\ w.trigger = NoTrigger
  <2>1. "done" \in PC /\ w = Blank("done")
    BY <1>0, <1>a DEF PC, Over
  <2>. QED
    BY <2>1, Blanks
<1>3. PICK t \in Timer :
         /\ work[t].pc = "idle"
         /\ pending' = [trigger |-> Carries[d], timer |-> t]
         /\ work' = Cancelled([work EXCEPT ![d] = w, ![t] = Sleeping], {pending.timer})
  BY <1>a DEF EnqueueAd
<1>4. /\ Others(d) /\ work'[d] = w /\ work' \in [Worker -> WorkState]
      /\ \A u \in Timer \ {d} : work'[u].pc = "sleeping"
                                 <=> u = t \/ (work[u].pc = "sleeping" /\ u \notin {pending.timer})
  <2>1. PICK S : S = {pending.timer}
    OBVIOUS
  <2>2. PICK v : v = [work EXCEPT ![d] = w, ![t] = Sleeping]
    OBVIOUS
  <2>3. /\ t \in Timer /\ work[t].pc = "idle" /\ w \in WorkState
        /\ work' = Cancelled(v, S)
    BY <1>2, <1>3, <2>1, <2>2
  <2>4. d \notin S /\ S \subseteq {buffer.timer, pending.timer} /\ d # t
    BY <1>0, <1>3, <2>1, Timers, Kinds
  <2>5. /\ v \in [Worker -> WorkState] /\ v[d] = w /\ v[t] = Sleeping
        /\ \A q \in Worker \ {d, t} : v[q] = work[q]
    BY <1>0, <2>2, <2>3, <2>4, Blanks, Kinds
  <2>6. /\ Others(d) /\ work'[d] = w /\ work' \in [Worker -> WorkState]
        /\ \A u \in Timer \ {d} :
              work'[u].pc = "sleeping" <=> u = t \/ (work[u].pc = "sleeping" /\ u \notin S)
    BY <1>0, <2>3, <2>4, <2>5, Arms
  <2>. QED
    BY <2>1, <2>6
<1>5. /\ UNCHANGED <<database, clock, budget, history>> /\ marks' = marks \ {work[d].key}
      /\ buffer' = buffer /\ consumed' = consumed /\ buffer.mids = {}
  BY DEF EnqueueAd
<1>6. pending' \in PendingEntry /\ pending'.trigger = Carries[d] /\ pending'.timer = t
  BY <1>1, <1>3 DEF PendingEntry
<1>7. TimersArmed'
  <2>1. TimersArmed /\ NoTimer \notin Timer /\ NoTrigger \notin Trigger
    BY Kinds DEF IInv
  <2>. QED
    BY <1>0, <1>1, <1>3, <1>4, <1>5, <1>6, <2>1 DEF TimersArmed
<1>8. Marked(d)
  BY <1>2, <1>4, <1>5 DEF Marked
<1>9. Shape(d)'
  BY <1>2, <1>4 DEF Shape, WillSend
<1>10. /\ \A m \in Mid : ~Owes(d, m) /\ ~Owes(d, m)'
       /\ \A a \in Trigger : (MayAsk(d, a) <=> a = Carries[d]) /\ ~MayAsk(d, a)'
  BY <1>0, <1>1, <1>2, <1>4 DEF Owes, WillSend, MayAsk
<1>. QED
  BY <1>0, <1>2, <1>4, <1>5, <1>6, <1>7, <1>8, <1>9, <1>10, SpendsNothing, Timers, Entries

LEMMA Counters ==
  ASSUME IInv
  PROVE  /\ \A k \in Mid \cup Staff : rows[k] \in Nat
         /\ \A m \in Mid : replies[m] \in Nat
         /\ \A a \in Trigger : claims[a] \in Nat /\ consults[a] \in Nat
         /\ selfPauses \in Nat /\ failures \in Nat /\ crashes \in Nat
         /\ \A b : One(b) \in Nat
BY DEF IInv, TypeOK, One

LEMMA BlockKeeps ==
  ASSUME IInv, NEW d \in Delivery, Block(d)
  PROVE  Serves
<1>0. /\ d \in Worker /\ d \notin Timer /\ work[d].pc = "arriving"
      /\ work \in [Worker -> WorkState]
  BY Kinds DEF Block, IInv, TypeOK
<1>1. /\ work[d].key = NoKey /\ work[d].mids = {} /\ work[d].trigger = NoTrigger
      /\ d \in occasion.comes /\ \A m \in Mid : ~Owes(d, m)
  BY <1>0 DEF IInv, Shape, WillSend, Owes
<1>2. /\ Spends /\ UNCHANGED <<marks, pending, consumed>>
      /\ Carries[d] \in Dangerous \/ failures' = failures + 1
  BY DEF Block, Spends
<1>3. CASE Carries[d] \in Comment
  <2>1. Ends(d)
    BY <1>0, <1>2, <1>3, NoMark DEF Block, Ends
  <2>2. Quiet
    <3>1. /\ UNCHANGED <<tables, buffer, pending, consumed, clock, occasion, selfPauses,
                         crashes, history>>
          /\ doc' = doc /\ failures' \in {failures, failures + 1}
      BY <1>2, <1>3 DEF Block, Spends, database, tables
    <3>2. doc \in Doc
      BY DEF IInv, TypeOK
    <3>. QED
      BY <3>1, <3>2, Calm
  <2>. QED
    BY <1>0, <1>1, <2>1, <2>2, Ending
<1>4. CASE Carries[d] \notin Comment
  <2>a. PICK w : w = Over(d)
    OBVIOUS
  <2>1. /\ w \in WorkState /\ w.pc = "done" /\ w.mids = {} /\ w.key = NoKey
        /\ w.trigger = NoTrigger
    <3>1. "done" \in PC /\ w = Blank("done")
      BY <1>0, <2>a DEF PC, Over
    <3>. QED
      BY <3>1, Blanks
  <2>2. work' = Cancelled([work EXCEPT ![d] = w], {buffer.timer}) /\ buffer' = NoBuffer
    BY <1>4, <2>a DEF Block
  <2>3. /\ Others(d) /\ work'[d] = w /\ work' \in [Worker -> WorkState]
        /\ \A t \in Timer \ {d} :
              work'[t].pc = "sleeping" <=> work[t].pc = "sleeping" /\ t \notin {buffer.timer}
    <3>1. d \notin {buffer.timer} /\ {buffer.timer} \subseteq {buffer.timer, pending.timer}
      BY <1>0, Timers, Kinds
    <3>. QED
      BY <1>0, <2>1, <2>2, <3>1, Cancels
  <2>4. TimersArmed'
    <3>1. buffer'.mids = {} /\ buffer'.timer = NoTimer
      BY <2>2 DEF NoBuffer
    <3>2. TimersArmed /\ NoTimer \notin Timer
      BY Kinds DEF IInv
    <3>. QED
      BY <1>0, <1>2, <2>3, <3>1, <3>2 DEF TimersArmed
  <2>5. Marked(d)
    BY <1>1, <1>2, <2>1, <2>3 DEF Marked
  <2>6. Shape(d)'
    BY <2>1, <2>3 DEF Shape, WillSend
  <2>7. \A m \in buffer.mids : Excused(m)'
    <3>1. CASE failures' = failures + 1
      BY <3>1, Counters DEF Excused, Reason
    <3>2. CASE Carries[d] \in Dangerous
      <4>1. \A m \in buffer.mids : m \notin Comment
        BY DEF IInv, InboxBuffered
      <4>2. work'[d].pc = "done" /\ d \in occasion'.comes /\ Carries[d] \in Dangerous \ Comment
        BY <1>1, <1>2, <1>4, <2>1, <2>3, <3>2 DEF Spends
      <4>. QED
        BY <4>1, <4>2 DEF Excused, Reason
    <3>. QED
      BY <1>2, <3>1, <3>2
  <2>8. /\ \A m \in Mid : ~Owes(d, m)' /\ m \notin buffer'.mids
        /\ \A m \in Comment : m \notin buffer'.mids
        /\ \A a \in Trigger : ~MayAsk(d, a)'
    BY <2>1, <2>2, <2>3 DEF Owes, WillSend, NoBuffer, MayAsk
  <2>9. buffer' \in BufferEntry /\ pending' \in PendingEntry /\ consumed' \subseteq Trigger
    BY <1>2, <2>2, Timers
  <2>. QED
    BY <1>0, <1>1, <1>2, <2>1, <2>3, <2>4, <2>5, <2>6, <2>7, <2>8, <2>9, Entries
<1>. QED
  BY <1>3, <1>4

LEMMA AppendedType ==
  ASSUME IInv, NEW d \in Worker, Carries[d] \in Mid, NEW b, b = Appended(d)
  PROVE  b \in BufferEntry /\ b.mids = buffer.mids \cup {Carries[d]} /\ b.copy \in Doc
         /\ b.ctx \in Nat
<1>1. /\ buffer \in BufferEntry /\ work[d].ctx \in Nat /\ work[d].copy \in Doc
  BY DEF IInv, TypeOK, WorkState
<1>2. CASE buffer.mids = {}
  BY <1>1, <1>2 DEF Appended, BufferEntry
<1>3. CASE buffer.mids # {}
  <2>1. b = [buffer EXCEPT !.mids = @ \cup {Carries[d]}]
    BY <1>3 DEF Appended
  <2>. QED
    BY <1>1, <2>1 DEF BufferEntry
<1>. QED
  BY <1>2, <1>3

\* A stored message of a customer request.
LEMMA Enqueued ==
  ASSUME IInv, NEW d \in Delivery, Enqueuing(d)
  PROVE  /\ d \in Worker /\ d \notin Timer /\ work[d].pc = "rowed" /\ Carries[d] \in Mid
         /\ work[d].mids = {} /\ work[d].trigger = NoTrigger /\ d \in occasion.comes
         /\ work[d].key \in Key \cup {NoKey} /\ work \in [Worker -> WorkState]
         /\ \A m \in Mid : Owes(d, m) <=> m = Carries[d]
         /\ \A a \in Trigger : ~MayAsk(d, a)
         /\ Carries[d] \notin Comment
<1>1. /\ d \in Worker /\ d \notin Timer /\ work[d].pc = "rowed" /\ Carries[d] \in Mid
      /\ work \in [Worker -> WorkState] /\ Carries[d] \notin Comment
  BY Kinds DEF Enqueuing, Buffered, IsCustomer, IInv, TypeOK
<1>2. /\ work[d].mids = {} /\ d \in occasion.comes /\ work[d].key \in Key \cup {NoKey}
      /\ work[d].trigger = NoTrigger
  BY <1>1, Kinds DEF IInv, Shape, ForTrigger, WillSend, WorkState
<1>. QED
  BY <1>1, <1>2, Kinds DEF Owes, MayAsk, IsCustomer

LEMMA EnqueueKeeps ==
  ASSUME IInv, NEW d \in Delivery, Enqueue(d)
  PROVE  Serves
<1>0. /\ d \in Worker /\ d \notin Timer /\ work[d].pc = "rowed" /\ Carries[d] \in Mid
      /\ work \in [Worker -> WorkState]
      /\ \A m \in Mid : Owes(d, m) <=> m = Carries[d]
  BY Enqueued DEF Enqueue
<1>c. Carries[d] \notin Comment
  BY Enqueued DEF Enqueue
<1>a. PICK w : w = Over(d)
  OBVIOUS
<1>1. /\ w \in WorkState /\ w.pc = "done" /\ w.mids = {} /\ w.key = NoKey
      /\ w.trigger = NoTrigger
  <2>1. "done" \in PC /\ w = Blank("done")
    BY <1>0, <1>a DEF PC, Over
  <2>. QED
    BY <2>1, Blanks
<1>b. PICK b : b = Appended(d)
  OBVIOUS
<1>2. b \in BufferEntry /\ b.mids = buffer.mids \cup {Carries[d]}
  BY <1>0, <1>b, AppendedType
<1>3. PICK t \in Timer :
         /\ work[t].pc = "idle"
         /\ buffer' = [b EXCEPT !.timer = t]
         /\ work' = Cancelled([work EXCEPT ![d] = w, ![t] = Sleeping], {buffer.timer})
  BY <1>a, <1>b DEF Enqueue
<1>4. /\ Others(d) /\ work'[d] = w /\ work' \in [Worker -> WorkState]
      /\ \A u \in Timer \ {d} : work'[u].pc = "sleeping"
                                 <=> u = t \/ (work[u].pc = "sleeping" /\ u \notin {buffer.timer})
  <2>1. PICK S : S = {buffer.timer}
    OBVIOUS
  <2>2. PICK v : v = [work EXCEPT ![d] = w, ![t] = Sleeping]
    OBVIOUS
  <2>3. /\ t \in Timer /\ work[t].pc = "idle" /\ w \in WorkState
        /\ work' = Cancelled(v, S)
    BY <1>1, <1>3, <2>1, <2>2
  <2>4. d \notin S /\ S \subseteq {buffer.timer, pending.timer} /\ d # t
    BY <1>0, <1>3, <2>1, Timers, Kinds
  <2>5. /\ v \in [Worker -> WorkState] /\ v[d] = w /\ v[t] = Sleeping
        /\ \A q \in Worker \ {d, t} : v[q] = work[q]
    BY <1>0, <2>2, <2>3, <2>4, Blanks, Kinds
  <2>6. /\ Others(d) /\ work'[d] = w /\ work' \in [Worker -> WorkState]
        /\ \A u \in Timer \ {d} :
              work'[u].pc = "sleeping" <=> u = t \/ (work[u].pc = "sleeping" /\ u \notin S)
    BY <1>0, <2>3, <2>4, <2>5, Arms
  <2>. QED
    BY <2>1, <2>6
<1>5. /\ UNCHANGED <<database, clock, budget, history>> /\ marks' = marks \ {work[d].key}
      /\ pending' = pending /\ consumed' = consumed /\ pending.trigger = NoTrigger
  BY DEF Enqueue
<1>6. /\ buffer' \in BufferEntry /\ buffer'.mids = buffer.mids \cup {Carries[d]}
      /\ buffer'.timer = t
  BY <1>2, <1>3 DEF BufferEntry
<1>7. TimersArmed'
  <2>1. TimersArmed /\ NoTimer \notin Timer
    BY Kinds DEF IInv
  <2>. QED
    BY <1>0, <1>3, <1>4, <1>5, <1>6, <2>1 DEF TimersArmed
<1>8. Marked(d)
  BY <1>1, <1>4, <1>5 DEF Marked
<1>9. Shape(d)'
  BY <1>1, <1>4 DEF Shape, WillSend
<1>10. /\ \A m \in Mid : ~Owes(d, m)'
       /\ \A a \in Trigger : ~MayAsk(d, a)'
  BY <1>1, <1>4 DEF Owes, WillSend, MayAsk
<1>11. \A m \in Comment : m \in buffer'.mids => m \in buffer.mids
  BY <1>6, <1>c
<1>. QED
  BY <1>0, <1>1, <1>4, <1>5, <1>6, <1>7, <1>8, <1>9, <1>10, <1>11, SpendsNothing, Timers,
     Entries

\* Both entries go to the request.
LEMMA EnqueueAndMergeKeeps ==
  ASSUME IInv, NEW d \in Delivery, EnqueueAndMerge(d)
  PROVE  Serves
<1>0. /\ d \in Worker /\ d \notin Timer /\ work[d].pc = "rowed" /\ Carries[d] \in Mid
      /\ d \in occasion.comes /\ work[d].key \in Key \cup {NoKey}
      /\ \A m \in Mid : Owes(d, m) <=> m = Carries[d]
      /\ \A a \in Trigger : ~MayAsk(d, a)
  BY Enqueued DEF EnqueueAndMerge
<1>b. PICK b : b = Appended(d)
  OBVIOUS
<1>1. b \in BufferEntry /\ b.mids = buffer.mids \cup {Carries[d]}
  BY <1>0, <1>b, AppendedType
<1>w. PICK w : w = Answering(b, pending.trigger, work[d].key)
  OBVIOUS
<1>2. /\ w \in WorkState /\ w.pc = "reload" /\ w.mids = b.mids /\ w.key = work[d].key
      /\ w.trigger = pending.trigger
  <2>1. pending.trigger \in Trigger \cup {NoTrigger}
    BY Timers
  <2>. QED
    BY <1>0, <1>1, <1>w, <2>1, Answers
<1>3. /\ Others(d) /\ work'[d] = w /\ work' \in [Worker -> WorkState]
      /\ \A t \in Timer \ {d} :
            work'[t].pc = "sleeping"
              <=> work[t].pc = "sleeping" /\ t \notin {buffer.timer, pending.timer}
  <2>1. PICK S : S = {buffer.timer, pending.timer}
    OBVIOUS
  <2>2. work' = Cancelled([work EXCEPT ![d] = w], S)
    BY <1>b, <1>w, <2>1 DEF EnqueueAndMerge
  <2>3. d \notin S /\ S \subseteq {buffer.timer, pending.timer}
    BY <1>0, <2>1, Timers, Kinds
  <2>4. /\ Others(d) /\ work'[d] = w /\ work' \in [Worker -> WorkState]
        /\ \A t \in Timer \ {d} :
              work'[t].pc = "sleeping" <=> work[t].pc = "sleeping" /\ t \notin S
    BY <1>0, <1>2, <2>2, <2>3, Cancels
  <2>. QED
    BY <2>1, <2>4
<1>4. /\ UNCHANGED <<database, clock, budget, history>> /\ marks' = marks
      /\ buffer' = NoBuffer /\ pending' = NoPending /\ occasion' = occasion
  BY DEF EnqueueAndMerge, budget
<1>5. consumed' \subseteq Trigger
  BY Timers DEF EnqueueAndMerge, Consume
<1>6. /\ buffer'.mids = {} /\ buffer'.timer = NoTimer
      /\ pending'.trigger = NoTrigger /\ pending'.timer = NoTimer
  BY <1>4 DEF NoBuffer, NoPending
<1>7. TimersArmed'
  <2>1. TimersArmed /\ NoTimer \notin Timer
    BY Kinds DEF IInv
  <2>. QED
    BY <1>0, <1>3, <1>6, <2>1 DEF TimersArmed
<1>8. Marked(d)
  BY <1>2, <1>3, <1>4 DEF Marked
<1>9. Shape(d)'
  BY <1>0, <1>2, <1>3, <1>4 DEF Shape, WillSend
<1>10. /\ \A m \in Mid : Owes(d, m)' <=> m \in buffer.mids \cup {Carries[d]}
       /\ \A a \in Trigger : MayAsk(d, a)' <=> a = pending.trigger
  BY <1>1, <1>2, <1>3 DEF Owes, WillSend, MayAsk
<1>11. NoTrigger \notin Trigger
  BY Kinds
<1>. QED
  BY <1>0, <1>3, <1>4, <1>5, <1>6, <1>7, <1>8, <1>9, <1>10, <1>11, <1>2,
     SpendsNothing, Timers, Entries

\* A timer that pops an entry owed nothing before.
LEMMA Asleep ==
  ASSUME IInv, NEW t \in Timer, work[t].pc = "sleeping"
  PROVE  /\ t \in Worker /\ t \notin Delivery /\ work[t].key = NoKey /\ work[t].mids = {}
         /\ work[t].trigger = NoTrigger
         /\ \A m \in Mid : ~Owes(t, m)
         /\ \A a \in Trigger : ~MayAsk(t, a)
<1>1. t \in Worker /\ t \notin Delivery
  BY Kinds
<1>. QED
  BY <1>1 DEF IInv, Shape, WillSend, Owes, MayAsk

LEMMA TimerFiresKeeps ==
  ASSUME IInv, NEW t \in Timer, TimerFires(t)
  PROVE  Serves
<1>0. /\ t \in Worker /\ t \notin Delivery /\ work[t].key = NoKey /\ work[t].pc = "sleeping"
      /\ \A m \in Mid : ~Owes(t, m)
      /\ \A a \in Trigger : ~MayAsk(t, a)
      /\ t = buffer.timer
  BY Asleep DEF TimerFires
<1>w. PICK w : w = Answering(buffer, pending.trigger, NoKey)
  OBVIOUS
<1>2. /\ w \in WorkState /\ w.pc = "reload" /\ w.mids = buffer.mids /\ w.key = NoKey
      /\ w.trigger = pending.trigger
  <2>1. pending.trigger \in Trigger \cup {NoTrigger} /\ buffer \in BufferEntry
        /\ NoKey \in Key \cup {NoKey}
    BY Timers
  <2>. QED
    BY <1>w, <2>1, Answers
<1>3. /\ Others(t) /\ work'[t] = w /\ work' \in [Worker -> WorkState]
      /\ \A u \in Timer \ {t} :
            work'[u].pc = "sleeping" <=> work[u].pc = "sleeping" /\ u \notin {pending.timer}
  <2>1. PICK S : S = {pending.timer}
    OBVIOUS
  <2>2. work' = Cancelled([work EXCEPT ![t] = w], S)
    BY <1>w, <2>1 DEF TimerFires
  <2>3. t \notin S /\ S \subseteq {buffer.timer, pending.timer}
    BY <1>0, <2>1, Kinds DEF IInv, TimersArmed
  <2>4. /\ Others(t) /\ work'[t] = w /\ work' \in [Worker -> WorkState]
        /\ \A u \in Timer \ {t} :
              work'[u].pc = "sleeping" <=> work[u].pc = "sleeping" /\ u \notin S
    <3>1. t \in Worker /\ w \in WorkState
      BY <1>0, <1>2
    <3>. QED
      BY <2>2, <2>3, <3>1, Cancels
  <2>. QED
    BY <2>1, <2>4
<1>4. /\ UNCHANGED <<database, clock, budget, history>> /\ marks' = marks
      /\ buffer' = NoBuffer /\ pending' = NoPending
  BY DEF TimerFires
<1>5. consumed' \subseteq Trigger
  BY Timers DEF TimerFires, Consume
<1>6. /\ buffer'.mids = {} /\ buffer'.timer = NoTimer
      /\ pending'.trigger = NoTrigger /\ pending'.timer = NoTimer
  BY <1>4 DEF NoBuffer, NoPending
<1>7. TimersArmed'
  <2>1. TimersArmed /\ NoTimer \notin Timer
    BY Kinds DEF IInv
  <2>. QED
    BY <1>0, <1>2, <1>3, <1>6, <2>1 DEF TimersArmed
<1>8. Marked(t)
  BY <1>0, <1>2, <1>3, <1>4 DEF Marked
<1>9. Shape(t)'
  BY <1>0, <1>2, <1>3 DEF Shape, WillSend
<1>10. /\ \A m \in Mid : Owes(t, m)' <=> m \in buffer.mids
       /\ \A a \in Trigger : MayAsk(t, a)' <=> a = pending.trigger
  BY <1>2, <1>3 DEF Owes, WillSend, MayAsk
<1>11. NoTrigger \notin Trigger
  BY Kinds
<1>. QED
  BY <1>0, <1>3, <1>4, <1>5, <1>6, <1>7, <1>8, <1>9, <1>10, <1>11, <1>2,
     SpendsNothing, Timers, Entries

\* The ad's timer hands the ad to what is buffered, or takes it up itself.
LEMMA AdTimerFiresKeeps ==
  ASSUME IInv, NEW t \in Timer, AdTimerFires(t)
  PROVE  Serves
<1>0. /\ t \in Worker /\ t \notin Delivery /\ work[t].key = NoKey /\ work[t].pc = "sleeping"
      /\ work[t].mids = {} /\ work[t].trigger = NoTrigger /\ t = pending.timer
  BY Asleep DEF AdTimerFires
<1>1. /\ \A m \in Mid : ~Owes(t, m)
      /\ \A a \in Trigger : ~MayAsk(t, a)
  BY <1>0, Asleep
<1>2. /\ UNCHANGED <<database, clock, budget, history>>
      /\ buffer' = NoBuffer /\ pending' = NoPending
  BY DEF AdTimerFires
<1>3. /\ buffer' \in BufferEntry /\ pending' \in PendingEntry
      /\ buffer'.mids = {} /\ buffer'.timer = NoTimer
      /\ pending'.trigger = NoTrigger /\ pending'.timer = NoTimer
  BY <1>2, Timers DEF NoBuffer, NoPending
<1>4. TimersArmed /\ NoTimer \notin Timer /\ NoTrigger \notin Trigger /\ pending.trigger \in Trigger
  BY <1>0, Timers, Kinds DEF IInv, TimersArmed
<1>5. work \in [Worker -> WorkState] /\ marks \subseteq Key /\ NoKey \notin Key /\ Trigger \subseteq Key
  BY Kinds DEF IInv, TypeOK
<1>6. CASE /\ buffer.mids # {} /\ Consume(pending.trigger) /\ UNCHANGED marks
           /\ work' = Cancelled([work EXCEPT ![t] =
                         Answering(buffer, pending.trigger, NoKey)], {buffer.timer})
  <2>w. PICK w : w = Answering(buffer, pending.trigger, NoKey)
    OBVIOUS
  <2>1. /\ w \in WorkState /\ w.pc = "reload" /\ w.mids = buffer.mids /\ w.key = NoKey
        /\ w.trigger = pending.trigger
    <3>1. pending.trigger \in Trigger \cup {NoTrigger} /\ buffer \in BufferEntry
          /\ NoKey \in Key \cup {NoKey}
      BY Timers
    <3>. QED
      BY <2>w, <3>1, Answers
  <2>2. /\ Others(t) /\ work'[t] = w /\ work' \in [Worker -> WorkState]
        /\ \A u \in Timer \ {t} :
              work'[u].pc = "sleeping" <=> work[u].pc = "sleeping" /\ u \notin {buffer.timer}
    <3>1. PICK S : S = {buffer.timer}
      OBVIOUS
    <3>2. work' = Cancelled([work EXCEPT ![t] = w], S)
      BY <1>6, <2>w, <3>1
    <3>3. t \notin S /\ S \subseteq {buffer.timer, pending.timer}
      BY <1>0, <3>1, <1>4 DEF TimersArmed
    <3>4. t \in Worker /\ w \in WorkState
      BY <1>0, <2>1
    <3>5. /\ Others(t) /\ work'[t] = w /\ work' \in [Worker -> WorkState]
          /\ \A u \in Timer \ {t} :
                work'[u].pc = "sleeping" <=> work[u].pc = "sleeping" /\ u \notin S
      BY <3>2, <3>3, <3>4, Cancels
    <3>. QED
      BY <3>1, <3>5
  <2>3. consumed' \subseteq Trigger
    BY <1>6, Timers DEF Consume
  <2>4. TimersArmed'
    BY <1>0, <1>3, <1>4, <2>1, <2>2 DEF TimersArmed
  <2>5. Marked(t)
    BY <1>0, <1>6, <2>1, <2>2 DEF Marked
  <2>6. Shape(t)'
    BY <1>0, <2>1, <2>2 DEF Shape, WillSend
  <2>7. /\ \A m \in Mid : Owes(t, m)' <=> m \in buffer.mids
        /\ \A a \in Trigger : MayAsk(t, a)' <=> a = pending.trigger
    BY <2>1, <2>2 DEF Owes, WillSend, MayAsk
  <2>. QED
    BY <1>0, <1>1, <1>2, <1>3, <1>4, <2>1, <2>2, <2>3, <2>4, <2>5, <2>6, <2>7, SpendsNothing, Entries
<1>7. CASE buffer.mids = {} /\ work' = [work EXCEPT ![t] = Idle] /\ UNCHANGED <<marks, consumed>>
  <2>1. /\ work'[t] = Idle /\ \A q \in Worker \ {t} : work'[q] = work[q]
        /\ work' \in [Worker -> WorkState]
    <3>. HIDE DEF Idle
    <3>. QED
      BY <1>0, <1>5, <1>7, Blanks
  <2>2. /\ work'[t].pc = "idle" /\ work'[t].mids = {} /\ work'[t].key = NoKey
        /\ work'[t].trigger = NoTrigger
    BY <2>1, Blanks
  <2>3. Others(t)
    BY <2>1 DEF Others
  <2>4. TimersArmed'
    BY <1>0, <1>3, <1>4, <1>7, <2>1, <2>2, Kinds DEF TimersArmed
  <2>5. Marked(t)
    BY <1>0, <1>7, <2>2 DEF Marked
  <2>6. Shape(t)'
    BY <1>0, <2>2 DEF Shape, WillSend
  <2>7. /\ \A m \in Mid : ~Owes(t, m)'
        /\ \A a \in Trigger : ~MayAsk(t, a)'
    BY <2>2 DEF Owes, WillSend, MayAsk
  <2>. QED
    BY <1>0, <1>1, <1>2, <1>3, <1>4, <1>7, <2>1, <2>2, <2>3, <2>4, <2>5, <2>6, <2>7,
       SpendsNothing, Timers, Entries
<1>8. CASE /\ buffer.mids = {} /\ pending.trigger \notin marks
           /\ marks' = marks \cup {pending.trigger} /\ UNCHANGED consumed
           /\ work' = [work EXCEPT ![t] = [Blank("relook") EXCEPT
                         !.trigger = pending.trigger, !.key = pending.trigger]]
  <2>w. PICK w : w = [Blank("relook") EXCEPT
                         !.trigger = pending.trigger, !.key = pending.trigger]
    OBVIOUS
  <2>1. /\ w \in WorkState /\ w.pc = "relook" /\ w.mids = {} /\ w.key = pending.trigger
        /\ w.trigger = pending.trigger
    <3>1. "relook" \in PC
      BY DEF PC
    <3>2. NoCopy \in Doc
      BY DEF NoCopy, Doc
    <3>. QED
      BY <1>4, <1>5, <2>w, <3>1, <3>2 DEF Blank, WorkState
  <2>2. /\ work'[t] = w /\ \A q \in Worker \ {t} : work'[q] = work[q]
        /\ work' \in [Worker -> WorkState]
    BY <1>0, <1>5, <1>8, <2>w, <2>1
  <2>3. Others(t)
    BY <2>2 DEF Others
  <2>4. TimersArmed'
    BY <1>0, <1>3, <1>4, <1>8, <2>1, <2>2, Kinds DEF TimersArmed
  <2>5. Marked(t)
    BY <1>0, <1>4, <1>5, <1>8, <2>1, <2>2 DEF Marked
  <2>6. Shape(t)'
    BY <1>0, <1>4, <2>1, <2>2 DEF Shape, WillSend, ForTrigger
  <2>7. /\ \A m \in Mid : ~Owes(t, m)'
        /\ \A a \in Trigger : MayAsk(t, a)' <=> a = pending.trigger
    BY <2>1, <2>2 DEF Owes, WillSend, MayAsk
  <2>8. /\ consumed' \subseteq Trigger /\ buffer.mids = {} /\ work'[t].pc # "checked"
        /\ work[t].pc # "done" /\ work' \in [Worker -> WorkState]
    BY <1>0, <1>8, <2>1, <2>2, Timers
  <2>. QED
    BY <1>0, <1>1, <1>2, <1>3, <1>4, <2>3, <2>4, <2>5, <2>6, <2>7, <2>8,
       SpendsNothing, Entries
<1>. QED
  BY <1>6, <1>7, <1>8 DEF AdTimerFires

-----------------------------------------------------------------------------
(* Steps that write the counters.                                           *)

LEMMA ClaimKeeps ==
  ASSUME IInv, NEW d \in Delivery, Claim(d)
  PROVE  Serves
<1>0. /\ d \in Worker /\ work[d].pc = "looked" /\ Carries[d] \in Key /\ Carries[d] # NoKey
      /\ work \in [Worker -> WorkState] /\ marks \subseteq Key
      /\ Carries[d] \notin marks /\ Carries[d] # pending.trigger
      /\ marks' = marks \cup {Carries[d]}
  BY Kinds DEF Claim, IInv, TypeOK
<1>1. work[d].key = NoKey /\ work[d].mids = {} /\ work[d].trigger = NoTrigger /\ d \in occasion.comes
  BY <1>0 DEF IInv, Shape, WillSend
<1>2. PICK w : w = [Blank(IF Carries[d] \in Trigger THEN "fetching" ELSE "load") EXCEPT
                       !.key = Carries[d],
                       !.trigger = IF Carries[d] \in Trigger THEN Carries[d] ELSE NoTrigger]
  OBVIOUS
<1>3. /\ w \in WorkState /\ w.pc = (IF Carries[d] \in Trigger THEN "fetching" ELSE "load")
      /\ w.mids = {} /\ w.key = Carries[d]
      /\ w.trigger = (IF Carries[d] \in Trigger THEN Carries[d] ELSE NoTrigger)
  <2>1. "fetching" \in PC /\ "load" \in PC /\ NoCopy \in Doc
    BY DEF PC, NoCopy, Doc
  <2>. QED
    BY <1>0, <1>2, <2>1 DEF Blank, WorkState
<1>4. work' = [work EXCEPT ![d] = w]
  BY <1>2 DEF Claim
<1>5. /\ UNCHANGED <<database, buffer, pending, consumed, clock, budget, replies, consults,
                     untold>>
      /\ claims' = [a \in Trigger |-> claims[a] + (IF a = Carries[d] THEN 1 ELSE 0)]
  BY DEF Claim
<1>6. Others(d) /\ TimersArmed' /\ work'[d] = w /\ work' \in [Worker -> WorkState]
  <2>1. w.pc # "sleeping" /\ work[d].pc # "sleeping" /\ w \in WorkState
        /\ buffer' = buffer /\ pending' = pending
    BY <1>0, <1>3, <1>5
  <2>. QED
    BY <1>0, <1>4, <2>1, Alone
<1>7. /\ doc' = doc /\ rows' = rows /\ since' = since /\ aged' = aged /\ adRows' = adRows
      /\ bots' = bots /\ pauses' = pauses /\ running' = running /\ occasion' = occasion
      /\ selfPauses' = selfPauses /\ failures' = failures /\ crashes' = crashes
      /\ replies' = replies /\ consults' = consults /\ untold' = untold
      /\ buffer' = buffer /\ pending' = pending /\ consumed' = consumed
  BY <1>5 DEF database, clock, budget
<1>8. /\ \A k \in Mid \cup Staff : rows[k] \in Nat
      /\ \A m \in Mid : replies[m] \in Nat
      /\ \A a \in Trigger : claims[a] \in Nat /\ consults[a] \in Nat
      /\ selfPauses \in Nat /\ failures \in Nat /\ crashes \in Nat
  BY DEF IInv, TypeOK
<1>9. TypeOK'
  <2>1. marks' \subseteq Key
    BY <1>0
  <2>2. claims' \in [Trigger -> Nat]
    BY <1>5, <1>8
  <2>. QED
    BY <1>6, <1>7, <2>1, <2>2 DEF IInv, TypeOK
<1>10. /\ \A m \in Mid : ~Owes(d, m) /\ ~Owes(d, m)'
       /\ \A a \in Trigger : ~MayAsk(d, a) /\ (MayAsk(d, a)' <=> a = Carries[d])
  BY <1>0, <1>1, <1>3, <1>6, Kinds DEF Owes, WillSend, MayAsk
<1>11. Balanced(d)
  <2>1. \A m \in Mid : One(Owes(d, m)) = 0 /\ One(Owes(d, m)') = 0 /\ One(m \in buffer.mids) \in Nat
    BY <1>10 DEF One
  <2>2. \A m \in Mid :
           replies'[m] + One(Owes(d, m)') + One(m \in buffer'.mids) + rows[m]
             <= rows'[m] + replies[m] + One(Owes(d, m)) + One(m \in buffer.mids)
    BY <1>7, <1>8, <2>1
  <2>3. \A a \in Trigger : /\ One(MayAsk(d, a)) = 0 /\ One(a = pending.trigger) \in Nat
                           /\ One(MayAsk(d, a)') = IF a = Carries[d] THEN 1 ELSE 0
    BY <1>10 DEF One
  <2>4. \A a \in Trigger :
           consults'[a] + One(MayAsk(d, a)') + One(a = pending'.trigger) + claims[a]
             <= claims'[a] + consults[a] + One(MayAsk(d, a)) + One(a = pending.trigger)
    BY <1>5, <1>7, <1>8, <2>3
  <2>. QED
    BY <2>2, <2>4 DEF Balanced
<1>12. Passed(d)
  BY <1>7, <1>10 DEF Passed
<1>13. Rising(d)
  BY <1>0, <1>7, <1>8 DEF Rising
<1>14. Marked(d)
  BY <1>0, <1>1, <1>3, <1>6 DEF Marked
<1>15. Shape(d)' /\ LookedUp(d)'
  BY <1>1, <1>3, <1>6, <1>7, Kinds DEF Shape, WillSend, ForTrigger, LookedUp
<1>. QED
  BY <1>0, <1>6, <1>9, <1>11, <1>12, <1>13, <1>14, <1>15, Whole

\* What the counters are.
LEMMA StoreRowKeeps ==
  ASSUME IInv, NEW p \in Worker, StoreRow(p)
  PROVE  Serves
<1>a. PICK w : w = [work[p] EXCEPT !.pc = "rowed"]
  OBVIOUS
<1>1. /\ work[p].pc = "checked" /\ work[p].mids = {} /\ Shape(p)
      /\ work[p].trigger \in Trigger \cup {NoTrigger}
  BY DEF StoreRow, IInv, TypeOK, WorkState, Shape, WillSend
<1>2. /\ w \in WorkState /\ w.pc = "rowed" /\ w.mids = {} /\ w.key = work[p].key
      /\ w.trigger = work[p].trigger /\ work' = [work EXCEPT ![p] = w]
  <2>1. "rowed" \in PC
    BY DEF PC
  <2>2. work[p] \in WorkState
    BY Copies
  <2>3. work' = [work EXCEPT ![p] = w]
    BY <1>a DEF StoreRow, Step
  <2>. QED
    BY <1>1, <1>a, <2>1, <2>2, <2>3 DEF WorkState
<1>3. /\ doc' = doc /\ since' = since /\ bots' = bots /\ marks' = marks
      /\ buffer' = buffer /\ pending' = pending /\ consumed' = consumed
      /\ pauses' = pauses /\ running' = running /\ occasion' = occasion
      /\ selfPauses' = selfPauses /\ failures' = failures /\ crashes' = crashes
      /\ replies' = replies /\ claims' = claims /\ consults' = consults /\ untold' = untold
  BY DEF StoreRow, clock, budget, history
<1>4. Others(p) /\ TimersArmed' /\ work'[p] = w /\ work' \in [Worker -> WorkState]
  <2>1. w.pc # "sleeping" /\ work[p].pc # "sleeping" /\ w \in WorkState
        /\ work' = [work EXCEPT ![p] = w]
    BY <1>1, <1>2
  <2>. QED
    BY <1>3, <2>1, Alone
<1>5. \/ /\ ForTrigger(p) /\ adRows' = adRows \cup {work[p].trigger}
         /\ rows' = rows /\ aged' = aged
      \/ /\ ~ForTrigger(p) /\ adRows' = adRows /\ aged' = aged \ {Carries[p]}
         /\ rows' = [rows EXCEPT ![Carries[p]] = @ + 1]
         /\ p \in Delivery /\ work[p].key = Carries[p]
  BY <1>1 DEF StoreRow, Shape
<1>6. /\ rows \in [Mid \cup Staff -> Nat] /\ aged \subseteq Mid /\ adRows \subseteq Trigger
  BY DEF IInv, TypeOK
<1>7. /\ \A k \in Mid \cup Staff : rows'[k] \in Nat /\ rows[k] <= rows'[k]
      /\ \A m \in Mid : \/ m = work[p].key
                        \/ rows'[m] = rows[m] /\ (m \in aged => m \in aged')
      /\ rows' \in [Mid \cup Staff -> Nat] /\ aged' \subseteq Mid /\ adRows' \subseteq Trigger
  <2>1. CASE ForTrigger(p) /\ rows' = rows /\ aged' = aged
               /\ adRows' = adRows \cup {work[p].trigger}
    BY <1>1, <1>6, <2>1 DEF ForTrigger
  <2>2. CASE /\ adRows' = adRows /\ aged' = aged \ {Carries[p]} /\ work[p].key = Carries[p]
             /\ rows' = [rows EXCEPT ![Carries[p]] = @ + 1]
    <3>1. PICK k : k = Carries[p]
      OBVIOUS
    <3>2. \A i \in Mid \cup Staff : rows'[i] = IF i = k THEN rows[i] + 1 ELSE rows[i]
      BY <1>6, <2>2, <3>1
    <3>3. \A i \in Mid \cup Staff : rows[i] \in Nat /\ rows'[i] \in Nat /\ rows[i] <= rows'[i]
      BY <1>6, <3>2
    <3>4. rows' \in [Mid \cup Staff -> Nat]
      BY <1>6, <2>2, <3>3
    <3>5. \A m \in Mid : \/ m = work[p].key
                         \/ rows'[m] = rows[m] /\ (m \in aged => m \in aged')
      BY <2>2, <3>1, <3>2
    <3>. QED
      BY <1>6, <2>2, <3>3, <3>4, <3>5
  <2>. QED
    BY <1>5, <2>1, <2>2
<1>8. TypeOK'
  BY <1>3, <1>4, <1>7 DEF IInv, TypeOK
<1>9. /\ \A m \in Mid : /\ ~Owes(p, m)
                        /\ Owes(p, m)' => rows'[m] = rows[m] + 1
                        /\ rows'[m] > 0 => rows[m] > 0 \/ Owes(p, m)'
      /\ \A a \in Trigger : MayAsk(p, a)' <=> MayAsk(p, a)
  <2>1. \A m \in Mid : ~Owes(p, m) /\ (Owes(p, m)' <=> IsCustomer(p) /\ Carries[p] = m)
    BY <1>1, <1>2, <1>4 DEF Owes, WillSend, IsCustomer
  <2>2. CASE ForTrigger(p) /\ rows' = rows
    <3>1. ~IsCustomer(p)
      BY <1>1, <2>2, Kinds DEF Shape, IsCustomer
    <3>. QED
      BY <1>1, <1>2, <1>4, <2>1, <2>2, <3>1 DEF MayAsk
  <2>3. CASE /\ rows' = [rows EXCEPT ![Carries[p]] = @ + 1] /\ p \in Delivery
    BY <1>1, <1>2, <1>4, <1>6, <2>1, <2>3 DEF MayAsk, IsCustomer
  <2>. QED
    BY <1>5, <2>2, <2>3
<1>10. Balanced(p)
  <2>1. \A m \in Mid : One(Owes(p, m)) = 0 /\ One(Owes(p, m)') + rows[m] <= rows'[m]
    BY <1>7, <1>9, Counters DEF One
  <2>2. \A m \in Mid :
           replies'[m] + One(Owes(p, m)') + One(m \in buffer'.mids) + rows[m]
             <= rows'[m] + replies[m] + One(Owes(p, m)) + One(m \in buffer.mids)
    BY <1>3, <1>7, <2>1, Counters
  <2>3. \A a \in Trigger : One(MayAsk(p, a)') = One(MayAsk(p, a))
    BY <1>9 DEF One
  <2>4. \A a \in Trigger :
           consults'[a] + One(MayAsk(p, a)') + One(a = pending'.trigger) + claims[a]
             <= claims'[a] + consults[a] + One(MayAsk(p, a)) + One(a = pending.trigger)
    BY <1>3, <2>3, Counters
  <2>. QED
    BY <2>2, <2>4 DEF Balanced
<1>11. Passed(p)
  BY <1>3, <1>9 DEF Passed
<1>12. Rising(p)
  BY <1>1, <1>3, <1>7, Counters DEF Rising
<1>13. Marked(p)
  BY <1>2, <1>3, <1>4 DEF Marked
<1>14. Shape(p)' /\ LookedUp(p)'
  BY <1>1, <1>2, <1>3, <1>4 DEF Shape, WillSend, ForTrigger, LookedUp
<1>. QED
  BY <1>4, <1>8, <1>10, <1>11, <1>12, <1>13, <1>14, Whole

\* A staff message takes what is buffered away.
LEMMA StoreStaffRowKeeps ==
  ASSUME IInv, NEW d \in Delivery, StoreStaffRow(d)
  PROVE  Serves
<1>0. /\ d \in Worker /\ d \notin Timer /\ work[d].pc = "loaded" /\ Carries[d] \in Staff
      /\ work[d].mids = {} /\ Shape(d) /\ work[d] \in WorkState
  <2>1. d \in Worker /\ d \notin Timer /\ work[d].pc = "loaded" /\ Carries[d] \in Staff
    BY Kinds DEF StoreStaffRow, IsStaff
  <2>. QED
    BY <2>1 DEF IInv, TypeOK, Shape, WillSend
<1>a. PICK w : w = [work[d] EXCEPT !.pc = "staffed"]
  OBVIOUS
<1>1. /\ w \in WorkState /\ w.pc = "staffed" /\ w.mids = {} /\ w.key = work[d].key
      /\ w.trigger = work[d].trigger
  <2>1. "staffed" \in PC
    BY DEF PC
  <2>. QED
    BY <1>0, <1>a, <2>1 DEF WorkState
<1>2. /\ Others(d) /\ work'[d] = w /\ work' \in [Worker -> WorkState]
      /\ \A t \in Timer \ {d} :
            work'[t].pc = "sleeping" <=> work[t].pc = "sleeping" /\ t \notin {buffer.timer}
  <2>1. work' = Cancelled([work EXCEPT ![d] = w], {buffer.timer})
    BY <1>a DEF StoreStaffRow
  <2>2. d \notin {buffer.timer} /\ {buffer.timer} \subseteq {buffer.timer, pending.timer}
    BY <1>0, Timers, Kinds
  <2>3. d \in Worker /\ w \in WorkState
    BY <1>0, <1>1
  <2>. QED
    BY <2>1, <2>2, <2>3, Cancels
<1>3. /\ doc' = doc /\ aged' = aged /\ adRows' = adRows /\ bots' = bots /\ marks' = marks
      /\ pending' = pending /\ consumed' = consumed
      /\ pauses' = pauses /\ running' = running /\ occasion' = occasion
      /\ selfPauses' = selfPauses /\ failures' = failures /\ crashes' = crashes
      /\ replies' = replies /\ claims' = claims /\ consults' = consults
      /\ buffer' = NoBuffer
  BY DEF StoreStaffRow, clock, budget
<1>4. /\ rows' = [rows EXCEPT ![Carries[d]] = @ + 1] /\ rows \in [Mid \cup Staff -> Nat]
      /\ since' = [since EXCEPT ![Carries[d]] = pauses] /\ since \in [Staff -> 0..pauses]
      /\ pauses \in Nat /\ untold' \subseteq Staff
  BY <1>0 DEF StoreStaffRow, IInv, TypeOK
<1>5. /\ rows' \in [Mid \cup Staff -> Nat] /\ since' \in [Staff -> 0..pauses]
      /\ \A k \in Mid \cup Staff : rows[k] <= rows'[k]
      /\ \A m \in Mid : rows'[m] = rows[m]
      /\ rows'[Carries[d]] > 0
  <2>1. pauses \in 0..pauses
    BY <1>4
  <2>. QED
    BY <1>0, <1>4, <2>1, Kinds
<1>6. buffer'.mids = {} /\ buffer'.timer = NoTimer /\ buffer' \in BufferEntry
  BY <1>3, Timers DEF NoBuffer
<1>7. TypeOK'
  BY <1>2, <1>3, <1>4, <1>5, <1>6 DEF IInv, TypeOK
<1>8. TimersArmed'
  <2>1. TimersArmed /\ NoTimer \notin Timer
    BY Kinds DEF IInv
  <2>. QED
    BY <1>0, <1>2, <1>3, <1>6, <2>1 DEF TimersArmed
<1>9. /\ \A m \in Mid : ~Owes(d, m) /\ ~Owes(d, m)' /\ Excused(m)'
      /\ \A a \in Trigger : ~MayAsk(d, a)'
  BY <1>0, <1>1, <1>2, <1>5 DEF Owes, WillSend, MayAsk, Excused, Reason
<1>10. Balanced(d)
  <2>1. \A m \in Mid : One(Owes(d, m)) = 0 /\ One(Owes(d, m)') = 0 /\ One(m \in buffer'.mids) = 0
    BY <1>6, <1>9 DEF One
  <2>2. \A m \in Mid :
           replies'[m] + One(Owes(d, m)') + One(m \in buffer'.mids) + rows[m]
             <= rows'[m] + replies[m] + One(Owes(d, m)) + One(m \in buffer.mids)
    BY <1>3, <1>5, <2>1, Counters
  <2>3. \A a \in Trigger : One(MayAsk(d, a)') = 0
    BY <1>9 DEF One
  <2>4. \A a \in Trigger :
           consults'[a] + One(MayAsk(d, a)') + One(a = pending'.trigger) + claims[a]
             <= claims'[a] + consults[a] + One(MayAsk(d, a)) + One(a = pending.trigger)
    BY <1>3, <2>3, Counters
  <2>. QED
    BY <2>2, <2>4 DEF Balanced
<1>11. Passed(d)
  BY <1>9 DEF Passed
<1>12. Rising(d)
  BY <1>0, <1>3, <1>5, <1>6, Counters DEF Rising
<1>13. Marked(d)
  BY <1>1, <1>2, <1>3 DEF Marked
<1>14. Shape(d)' /\ LookedUp(d)'
  BY <1>0, <1>1, <1>2, <1>3, <1>5 DEF Shape, WillSend, LookedUp
<1>. QED
  BY <1>0, <1>2, <1>7, <1>8, <1>10, <1>11, <1>12, <1>13, <1>14, Whole

\* The AI was asked: the trigger's prompt is spent, the batch still owed.
LEMMA AskKeeps ==
  ASSUME IInv, NEW p \in Worker, Ask(p)
  PROVE  Serves
<1>0. /\ work[p].pc \in {"ready", "rowed"} /\ Shape(p) /\ work[p] \in WorkState
      /\ work[p].pc = "rowed" => work[p].mids = {}
      /\ work[p].trigger \in Trigger \cup {NoTrigger}
      /\ work[p].mids \subseteq Mid
  BY DEF Ask, Asking, IInv, TypeOK, WorkState, Shape, WillSend
<1>a. PICK w : w = [work[p] EXCEPT !.pc = "answered", !.mids = Asked(p), !.ctx = 0]
  OBVIOUS
<1>1. Asked(p) \subseteq Mid /\ \A m \in Mid : m \in Asked(p) <=> Owes(p, m)
  BY <1>0 DEF Asked, Owes, IsCustomer, WillSend
<1>2. /\ w \in WorkState /\ w.pc = "answered" /\ w.mids = Asked(p) /\ w.key = work[p].key
      /\ w.trigger = work[p].trigger /\ work' = [work EXCEPT ![p] = w]
  <2>1. "answered" \in PC
    BY DEF PC
  <2>2. work' = [work EXCEPT ![p] = w]
    BY <1>a DEF Ask
  <2>. QED
    BY <1>0, <1>1, <1>a, <2>1, <2>2 DEF WorkState
<1>3. /\ doc' = doc /\ rows' = rows /\ since' = since /\ aged' = aged /\ adRows' = adRows
      /\ bots' = bots /\ pauses' = pauses /\ running' = running /\ occasion' = occasion
      /\ selfPauses' = selfPauses /\ failures' = failures /\ crashes' = crashes
      /\ replies' = replies /\ claims' = claims
      /\ buffer' = buffer /\ pending' = pending /\ marks' = marks
      /\ consults' = [a \in Trigger |->
                         consults[a] + (IF a = work[p].trigger THEN 1 ELSE 0)]
  BY DEF Ask, database, clock, budget
<1>4. Others(p) /\ TimersArmed' /\ work'[p] = w /\ work' \in [Worker -> WorkState]
  <2>1. w.pc # "sleeping" /\ work[p].pc # "sleeping" /\ w \in WorkState
        /\ work' = [work EXCEPT ![p] = w]
    BY <1>0, <1>2
  <2>. QED
    BY <1>3, <2>1, Alone
<1>5. TypeOK'
  <2>1. consults' \in [Trigger -> Nat]
    BY <1>3, Counters
  <2>2. consumed' \subseteq Trigger
    BY <1>0, Timers DEF Ask, Consume
  <2>3. untold' \subseteq Staff
    BY DEF Ask, IInv, TypeOK
  <2>. QED
    BY <1>3, <1>4, <2>1, <2>2, <2>3 DEF IInv, TypeOK
<1>6. /\ \A m \in Mid : Owes(p, m)' <=> Owes(p, m)
      /\ \A a \in Trigger : ~MayAsk(p, a)' /\ (MayAsk(p, a) <=> a = work[p].trigger)
  <2>1. \A m \in Mid : Owes(p, m)' <=> m \in Asked(p)
    BY <1>2, <1>4 DEF Owes, WillSend
  <2>. QED
    BY <1>0, <1>1, <1>2, <1>4, <2>1 DEF MayAsk
<1>7. Balanced(p)
  <2>1. \A m \in Mid : One(Owes(p, m)') = One(Owes(p, m))
    BY <1>6 DEF One
  <2>2. \A m \in Mid :
           replies'[m] + One(Owes(p, m)') + One(m \in buffer'.mids) + rows[m]
             <= rows'[m] + replies[m] + One(Owes(p, m)) + One(m \in buffer.mids)
    BY <1>3, <2>1, Counters
  <2>3. \A a \in Trigger : /\ One(MayAsk(p, a)') = 0
                           /\ One(MayAsk(p, a)) = IF a = work[p].trigger THEN 1 ELSE 0
    BY <1>6 DEF One
  <2>4. \A a \in Trigger :
           consults'[a] + One(MayAsk(p, a)') + One(a = pending'.trigger) + claims[a]
             <= claims'[a] + consults[a] + One(MayAsk(p, a)) + One(a = pending.trigger)
    BY <1>3, <2>3, Counters
  <2>. QED
    BY <2>2, <2>4 DEF Balanced
<1>8. Passed(p)
  BY <1>3, <1>6 DEF Passed
<1>9. Rising(p)
  BY <1>0, <1>3, Counters DEF Rising
<1>10. Marked(p)
  BY <1>2, <1>3, <1>4 DEF Marked
<1>11. Shape(p)' /\ LookedUp(p)'
  BY <1>0, <1>2, <1>3, <1>4 DEF Shape, WillSend, LookedUp
<1>. QED
  BY <1>4, <1>5, <1>7, <1>8, <1>9, <1>10, <1>11, Whole

\* The reply of a batch: shown, or a failed call.
LEMMA SendKeeps ==
  ASSUME IInv, NEW p \in Worker, Send(p)
  PROVE  Serves
<1>0. /\ work[p].pc \in {"send", "final"} /\ Shape(p) /\ work[p] \in WorkState
      /\ work \in [Worker -> WorkState]
  BY DEF Send, Final, IInv, TypeOK
<1>1. PICK shown \in BOOLEAN, ok \in BOOLEAN :
         /\ ok => shown
         /\ failures' = failures + (IF ok THEN 0 ELSE 1)
         /\ replies' = [m \in Mid |->
               replies[m] + (IF shown /\ m \in work[p].mids THEN 1 ELSE 0)]
         /\ work' = [work EXCEPT ![p].pc = "sent", ![p].ok = ok]
  BY DEF Send
<1>a. PICK w : w = [work[p] EXCEPT !.pc = "sent", !.ok = ok]
  OBVIOUS
<1>2. /\ w \in WorkState /\ w.pc = "sent" /\ w.mids = work[p].mids /\ w.key = work[p].key
      /\ w.trigger = work[p].trigger /\ work' = [work EXCEPT ![p] = w]
  <2>1. "sent" \in PC
    BY DEF PC
  <2>2. work' = [work EXCEPT ![p] = w]
    BY <1>1, <1>a
  <2>. QED
    BY <1>0, <1>a, <2>1, <2>2 DEF WorkState
<1>3. /\ doc' = doc /\ rows' = rows /\ since' = since /\ aged' = aged /\ adRows' = adRows
      /\ bots' = bots /\ pauses' = pauses /\ running' = running /\ occasion' = occasion
      /\ selfPauses' = selfPauses /\ crashes' = crashes /\ consumed' = consumed
      /\ claims' = claims /\ consults' = consults /\ untold' = untold
      /\ buffer' = buffer /\ pending' = pending /\ marks' = marks
  BY DEF Send, database, clock
<1>4. Others(p) /\ TimersArmed' /\ work'[p] = w /\ work' \in [Worker -> WorkState]
  <2>1. w.pc # "sleeping" /\ work[p].pc # "sleeping" /\ w \in WorkState
        /\ work' = [work EXCEPT ![p] = w]
    BY <1>0, <1>2
  <2>. QED
    BY <1>3, <2>1, Alone
<1>5. /\ failures' \in Nat /\ failures <= failures'
      /\ ~shown => failures' > 0
      /\ replies' \in [Mid -> Nat]
      /\ \A m \in Mid : replies'[m] = replies[m] + (IF shown /\ m \in work[p].mids THEN 1 ELSE 0)
  <2>1. failures' \in Nat /\ failures <= failures'
    BY <1>1, Counters
  <2>2. ~shown => failures' > 0
    BY <1>1, Counters
  <2>3. \A m \in Mid : replies'[m] = replies[m] + (IF shown /\ m \in work[p].mids THEN 1 ELSE 0)
    BY <1>1
  <2>4. replies' \in [Mid -> Nat]
    BY <1>1, Counters
  <2>. QED
    BY <2>1, <2>2, <2>3, <2>4
<1>6. TypeOK'
  <2>1. failures' \in Nat /\ replies' \in [Mid -> Nat]
    BY <1>5
  <2>. QED
    BY <1>3, <1>4, <2>1 DEF IInv, TypeOK
<1>7. /\ \A m \in Mid : (Owes(p, m) <=> m \in work[p].mids) /\ ~Owes(p, m)'
      /\ \A a \in Trigger : ~MayAsk(p, a)'
  BY <1>0, <1>2, <1>4 DEF Owes, WillSend, MayAsk
<1>8. Balanced(p)
  <2>1. \A m \in Mid : /\ One(Owes(p, m)) = IF m \in work[p].mids THEN 1 ELSE 0
                       /\ One(Owes(p, m)') = 0
    BY <1>7 DEF One
  <2>2. \A m \in Mid : replies'[m] <= replies[m] + One(Owes(p, m)) /\ replies'[m] \in Nat
    BY <1>5, <2>1, Counters
  <2>3. \A m \in Mid :
           replies'[m] + One(Owes(p, m)') + One(m \in buffer'.mids) + rows[m]
             <= rows'[m] + replies[m] + One(Owes(p, m)) + One(m \in buffer.mids)
    BY <1>3, <2>1, <2>2, Counters
  <2>4. \A a \in Trigger : One(MayAsk(p, a)') = 0
    BY <1>7 DEF One
  <2>5. \A a \in Trigger :
           consults'[a] + One(MayAsk(p, a)') + One(a = pending'.trigger) + claims[a]
             <= claims'[a] + consults[a] + One(MayAsk(p, a)) + One(a = pending.trigger)
    BY <1>3, <2>4, Counters
  <2>. QED
    BY <2>3, <2>5 DEF Balanced
<1>9. Passed(p)
  <2>1. \A m \in Mid : Owes(p, m) => Excused(m)'
    <3>. SUFFICES ASSUME NEW m \in Mid, Owes(p, m)
                  PROVE  replies'[m] > 0 \/ failures' > 0
      BY DEF Excused, Reason
    <3>1. CASE shown
      <4>1. replies'[m] = replies[m] + 1
        BY <1>5, <1>7, <3>1
      <4>. QED
        BY <4>1, Counters
    <3>2. CASE ~shown
      BY <1>5, <3>2
    <3>. QED
      BY <3>1, <3>2
  <2>. QED
    BY <1>3, <1>7, <2>1 DEF Passed
<1>10. Rising(p)
  <2>1. \A m \in Mid : replies[m] <= replies'[m]
    BY <1>5, Counters
  <2>2. failures <= failures'
    BY <1>5
  <2>. QED
    BY <1>0, <1>3, <2>1, <2>2, Counters DEF Rising
<1>11. Marked(p)
  BY <1>2, <1>3, <1>4 DEF Marked
<1>12. Shape(p)' /\ LookedUp(p)'
  BY <1>0, <1>2, <1>3, <1>4 DEF Shape, WillSend, LookedUp
<1>. QED
  BY <1>4, <1>6, <1>8, <1>9, <1>10, <1>11, <1>12, Whole

-----------------------------------------------------------------------------
(* Time passes; the process dies.                                           *)

\* A row ages, a consumed trigger is forgotten, a pause lapses: no worker
\* and no entry changes.
LEMMA TimePasses ==
  ASSUME IInv,
         \/ \E m \in Mid : RowAges(m)
         \/ \E a \in Trigger : ConsumedExpires(a)
         \/ \E k \in running : PauseLapses(k)
  PROVE  Serves
<1>1. /\ doc' = doc /\ rows' = rows /\ since' = since /\ adRows' = adRows /\ bots' = bots
      /\ marks' = marks /\ buffer' = buffer /\ pending' = pending /\ work' = work
      /\ pauses' = pauses /\ occasion' = occasion /\ selfPauses' = selfPauses
      /\ failures' = failures /\ crashes' = crashes /\ replies' = replies
      /\ claims' = claims /\ consults' = consults /\ untold' = untold
  BY DEF RowAges, ConsumedExpires, PauseLapses, database, memory, clock, budget, history
<1>2. /\ aged \subseteq aged' /\ aged' \subseteq Mid /\ consumed' \subseteq Trigger
      /\ running' \subseteq 1..pauses
  BY DEF RowAges, ConsumedExpires, PauseLapses, database, memory, clock, IInv, TypeOK
<1>3. TypeOK' /\ TimersArmed' /\ MarksHeld' /\ PauseExplained' /\ InboxBuffered'
  BY <1>1, <1>2 DEF IInv, TypeOK, TimersArmed, MarksHeld, PauseExplained, InboxBuffered
<1>4. /\ \A m \in Mid : Holders(m)' = Holders(m) /\ (Reason(m) => Reason(m)')
      /\ \A m \in Mid : Excused(m) => Excused(m)'
      /\ \A a \in Trigger : Askers(a)' = Askers(a)
  BY <1>1 DEF Holders, Askers, Owes, MayAsk, Excused, Reason
<1>5. /\ AnsweredPerRow' /\ ConsultedPerClaim' /\ NoSilentLoss'
      /\ \A m \in Mid : IsFiniteSet(Holders(m))'
      /\ \A a \in Trigger : IsFiniteSet(Askers(a))'
  BY <1>1, <1>4 DEF IInv, AnsweredPerRow, ConsultedPerClaim, NoSilentLoss
<1>6. \A p \in Worker : Shape(p)' /\ LookedUp(p)'
  BY <1>1, <1>2 DEF IInv, Shape, LookedUp, ForTrigger
<1>7. \A m \in Mid : Cardinality(Holders(m))' + replies'[m] + rows[m]
                     <= Cardinality(Holders(m)) + replies[m] + rows'[m]
  BY <1>1, <1>4, Counters, Owing
<1>8. IInv'
  BY <1>3, <1>5, <1>6 DEF IInv
<1>. QED
  BY <1>4, <1>7, <1>8 DEF Serves

\* After a crash nobody owes anything, and the crash is the excuse.
LEMMA CrashKeeps ==
  ASSUME IInv, Crash
  PROVE  Serves
<1>1. /\ doc' = doc /\ rows' = rows /\ since' = since /\ adRows' = adRows /\ bots' = bots
      /\ aged' = aged /\ consumed' = {} /\ running' = running
      /\ marks' = {} /\ buffer' = NoBuffer /\ pending' = NoPending
      /\ pauses' = pauses /\ occasion' = occasion /\ selfPauses' = selfPauses
      /\ failures' = failures /\ crashes' = crashes + 1 /\ replies' = replies
      /\ claims' = claims /\ consults' = consults /\ untold' = untold
  BY DEF Crash, database, clock, history
<1>2. /\ buffer' \in BufferEntry /\ pending' \in PendingEntry
      /\ buffer'.mids = {} /\ buffer'.timer = NoTimer
      /\ pending'.trigger = NoTrigger /\ pending'.timer = NoTimer
  BY <1>1, Timers DEF NoBuffer, NoPending
<1>3. \A p \in Worker : /\ work'[p] \in WorkState
                        /\ work'[p].pc \in {"arriving", "idle", "done"}
                        /\ work'[p].key = NoKey /\ work'[p].mids = {}
                        /\ work'[p].trigger = NoTrigger
                        /\ p \in Delivery /\ work'[p].pc # "done" => p \in occasion.comes
  <2>. TAKE p \in Worker
  <2>1. Shape(p) /\ work[p] \in WorkState
    BY DEF IInv, TypeOK
  <2>2. CASE work[p].pc = "arriving"
    <3>1. work'[p] = work[p]
      BY <2>2 DEF Crash
    <3>. QED
      BY <2>1, <2>2, <3>1 DEF Shape, WillSend
  <2>3. CASE work[p].pc # "arriving" /\ p \in Timer
    <3>1. work'[p] = Idle /\ p \notin Delivery
      BY <2>3, Kinds DEF Crash, Over
    <3>. QED
      BY <3>1, Blanks
  <2>4. CASE work[p].pc # "arriving" /\ p \notin Timer
    <3>1. work'[p] = Blank("done") /\ "done" \in PC
      BY <2>4 DEF Crash, Over, PC
    <3>. QED
      BY <3>1, Blanks
  <2>. QED
    BY <2>2, <2>3, <2>4
<1>4. work' \in [Worker -> WorkState]
  BY <1>3 DEF Crash
<1>5. TypeOK'
  BY <1>1, <1>2, <1>4 DEF IInv, TypeOK
<1>6. TimersArmed' /\ MarksHeld' /\ PauseExplained' /\ InboxBuffered'
  BY <1>1, <1>2, <1>3, Kinds DEF IInv, TimersArmed, MarksHeld, PauseExplained, InboxBuffered
<1>7. /\ \A m \in Mid : Holders(m)' = {} /\ Excused(m)' /\ Reason(m)'
      /\ \A a \in Trigger : Askers(a)' = {}
  <2>1. NoTrigger \notin Trigger /\ crashes' > 0
    BY <1>1, Kinds, Counters
  <2>. QED
    BY <1>2, <1>3, <2>1 DEF Holders, Askers, Owes, MayAsk, WillSend, Excused, Reason
<1>8. /\ \A m \in Mid : replies[m] <= rows[m]
      /\ \A a \in Trigger : consults[a] <= claims[a]
  <2>1. /\ \A m \in Mid : Cardinality(Holders(m)) \in Nat
        /\ \A a \in Trigger : Cardinality(Askers(a)) \in Nat
    BY FS_CardinalityType DEF IInv
  <2>. QED
    BY <2>1, Counters DEF IInv, AnsweredPerRow, ConsultedPerClaim
<1>9. /\ AnsweredPerRow' /\ ConsultedPerClaim' /\ NoSilentLoss'
      /\ \A m \in Mid : IsFiniteSet(Holders(m))'
      /\ \A a \in Trigger : IsFiniteSet(Askers(a))'
  <2>1. /\ AnsweredPerRow' /\ ConsultedPerClaim'
    <3>1. /\ \A m \in Mid : Cardinality(Holders(m))' = 0
          /\ \A a \in Trigger : Cardinality(Askers(a))' = 0
      BY <1>7, FS_EmptySet
    <3>. QED
      BY <1>1, <1>8, <3>1, Counters DEF AnsweredPerRow, ConsultedPerClaim
  <2>2. /\ NoSilentLoss'
        /\ \A m \in Mid : IsFiniteSet(Holders(m))'
        /\ \A a \in Trigger : IsFiniteSet(Askers(a))'
    BY <1>7, FS_EmptySet DEF NoSilentLoss
  <2>. QED
    BY <2>1, <2>2
<1>10. \A p \in Worker : Shape(p)' /\ LookedUp(p)'
  BY <1>1, <1>3 DEF Shape, LookedUp, WillSend
<1>11. \A m \in Mid : Cardinality(Holders(m))' + replies'[m] + rows[m]
                      <= Cardinality(Holders(m)) + replies[m] + rows'[m]
  <2>1. \A m \in Mid : Cardinality(Holders(m))' = 0
    BY <1>7, FS_EmptySet
  <2>. QED
    BY <1>1, <2>1, Counters, Owing
<1>12. IInv'
  BY <1>5, <1>6, <1>9, <1>10 DEF IInv
<1>. QED
  BY <1>7, <1>11, <1>12 DEF Serves

-----------------------------------------------------------------------------
(* The theorems.                                                            *)

LEMMA InitHolds ==
  ASSUME Init
  PROVE  IInv
<1>1. \A p \in Worker : /\ work[p] \in WorkState
                        /\ work[p].pc \in {"arriving", "idle", "done"}
                        /\ work[p].key = NoKey /\ work[p].mids = {}
                        /\ work[p].trigger = NoTrigger
                        /\ p \in Delivery /\ work[p].pc # "done" => p \in occasion.comes
  <2>. TAKE p \in Worker
  <2>1. work[p] = CASE p \in Timer -> Idle
                    [] p \in occasion.comes -> Blank("arriving")
                    [] OTHER -> Blank("done")
    BY DEF Init
  <2>2. "arriving" \in PC /\ "done" \in PC /\ Timer \cap Delivery = {}
    BY Kinds DEF PC
  <2>3. CASE p \in Timer
    <3>1. work[p] = Idle \/ p \in occasion.comes
      BY <2>1, <2>3
    <3>2. p \notin occasion.comes
      BY <2>2, <2>3, OccasionAssumption DEF Init, OccasionShape
    <3>. QED
      BY <2>2, <2>3, <3>1, <3>2, Blanks
  <2>4. CASE p \notin Timer /\ p \in occasion.comes
    <3>1. work[p] = Blank("arriving")
      BY <2>1, <2>4
    <3>. QED
      BY <2>2, <2>4, <3>1, Blanks
  <2>5. CASE p \notin Timer /\ p \notin occasion.comes
    <3>1. work[p] = Blank("done")
      BY <2>1, <2>5
    <3>. QED
      BY <2>2, <3>1, Blanks
  <2>. QED
    BY <2>3, <2>4, <2>5
<1>2. /\ buffer \in BufferEntry /\ pending \in PendingEntry
      /\ buffer.mids = {} /\ buffer.timer = NoTimer
      /\ pending.trigger = NoTrigger /\ pending.timer = NoTimer
  BY DEF Init, NoBuffer, NoPending, BufferEntry, PendingEntry, NoCopy, Doc
<1>3. TypeOK
  <2>1. work \in [Worker -> WorkState]
    BY <1>1 DEF Init
  <2>2. doc \in Doc
    BY DEF Init, Doc
  <2>3. 0 \in 0..pauses /\ running \subseteq 1..pauses
    BY DEF Init
  <2>4. /\ rows \in [Mid \cup Staff -> Nat] /\ since \in [Staff -> 0..pauses]
        /\ bots \in [BOOLEAN \X BOOLEAN -> Nat] /\ replies \in [Mid -> Nat]
        /\ claims \in [Trigger -> Nat] /\ consults \in [Trigger -> Nat]
    BY <2>3 DEF Init
  <2>. QED
    BY <1>2, <2>1, <2>2, <2>3, <2>4 DEF Init, TypeOK
<1>4. TimersArmed /\ MarksHeld /\ PauseExplained /\ InboxBuffered
  <2>1. TimersArmed
    BY <1>1, <1>2, Kinds DEF TimersArmed
  <2>2. MarksHeld
    <3>1. marks = {}
      BY DEF Init
    <3>. QED
      BY <1>1, <3>1 DEF MarksHeld
  <2>3. PauseExplained /\ InboxBuffered
    BY <1>2 DEF Init, PauseExplained, InboxBuffered
  <2>. QED
    BY <2>1, <2>2, <2>3
<1>5. /\ \A m \in Mid : Holders(m) = {} /\ rows[m] = 0 /\ replies[m] = 0
      /\ \A a \in Trigger : Askers(a) = {} /\ claims[a] = 0 /\ consults[a] = 0
  <2>1. /\ \A m \in Mid : rows[m] = 0 /\ replies[m] = 0
        /\ \A a \in Trigger : claims[a] = 0 /\ consults[a] = 0
    BY DEF Init
  <2>2. \A p \in Worker : /\ \A m \in Mid : ~Owes(p, m)
                          /\ \A a \in Trigger : ~MayAsk(p, a)
    BY <1>1 DEF Owes, MayAsk, WillSend
  <2>3. /\ \A m \in Mid : Holders(m) = {}
        /\ \A a \in Trigger : Askers(a) = {}
    BY <1>2, <2>2, Kinds DEF Holders, Askers
  <2>. QED
    BY <2>1, <2>3
<1>6. /\ AnsweredPerRow /\ ConsultedPerClaim /\ NoSilentLoss
      /\ \A m \in Mid : IsFiniteSet(Holders(m))
      /\ \A a \in Trigger : IsFiniteSet(Askers(a))
  BY <1>5, FS_EmptySet DEF AnsweredPerRow, ConsultedPerClaim, NoSilentLoss
<1>7. \A p \in Worker : Shape(p) /\ LookedUp(p)
  BY <1>1 DEF Shape, LookedUp, WillSend
<1>. QED
  BY <1>3, <1>4, <1>6, <1>7 DEF IInv

\* At first nobody owes anything: nothing is stored yet.
LEMMA NoHolders ==
  ASSUME Init, NEW m \in Mid
  PROVE  Holders(m) = {}
<1>1. IInv /\ rows[m] = 0 /\ replies[m] = 0
  BY InitHolds DEF Init
<1>2. IsFiniteSet(Holders(m)) /\ Cardinality(Holders(m)) = 0
  <2>1. Cardinality(Holders(m)) \in Nat
    BY <1>1, Owing
  <2>. QED
    BY <1>1, <2>1 DEF IInv, AnsweredPerRow
<1>. QED
  BY <1>2, FS_EmptySet

LEMMA StepHolds ==
  ASSUME IInv, [Next]_vars
  PROVE  Serves
<1>1. ASSUME NEW d \in Delivery, Block(d) \/ LookUpDuplicate(d)
      PROVE  Serves
  BY <1>1, BlockKeeps, LookUpDuplicateKeeps
<1>2. ASSUME NEW d \in Delivery, DeliveryStep(d)
      PROVE  Serves
  BY <1>2, IgnoreKeeps, ClaimKeeps, MergeIntoAdKeeps, EnqueueAdKeeps, PrepareKeeps,
     StoreStaffRowKeeps, PauseForStaffKeeps, RefuseContentKeeps, IgnoreCommentKeeps,
     EnqueueKeeps, EnqueueAndMergeKeeps DEF DeliveryStep
<1>3. ASSUME NEW t \in Timer, TimerStep(t)
      PROVE  Serves
  BY <1>3, TimerFiresKeeps, AdTimerFiresKeeps, LookUpAgainKeeps DEF TimerStep
<1>4. ASSUME NEW p \in Worker, WorkStep(p)
      PROVE  Serves
  BY <1>4, LoadKeeps, ResumeKeeps, DropTwinKeeps, CheckKeeps, StoreRowKeeps, ReloadKeeps,
     SuppressKeeps, InitialiseSessionKeeps, AskKeeps, HandOverRepetitionKeeps, HandOverKeeps,
     SendKeeps, PauseForQuotaKeeps, StoreReplyKeeps, SaveConversationKeeps, FailKeeps
     DEF WorkStep
<1>5. CASE \/ \E m \in Mid : RowAges(m)
           \/ \E a \in Trigger : ConsumedExpires(a)
           \/ \E k \in running : PauseLapses(k)
  BY <1>5, TimePasses
<1>6. CASE Crash
  BY <1>6, CrashKeeps
<1>7. CASE UNCHANGED vars
  <2>1. /\ doc' = doc /\ rows' = rows /\ since' = since /\ adRows' = adRows /\ bots' = bots
        /\ aged' = aged /\ consumed' = consumed /\ running' = running
        /\ marks' = marks /\ buffer' = buffer /\ pending' = pending /\ work' = work
        /\ pauses' = pauses /\ occasion' = occasion /\ selfPauses' = selfPauses
        /\ failures' = failures /\ crashes' = crashes /\ replies' = replies
        /\ claims' = claims /\ consults' = consults /\ untold' = untold
    BY <1>7 DEF vars, database, memory, clock, budget, history
  <2>2. TypeOK' /\ TimersArmed' /\ MarksHeld' /\ PauseExplained' /\ InboxBuffered'
    BY <2>1 DEF IInv, TypeOK, TimersArmed, MarksHeld, PauseExplained, InboxBuffered
  <2>3. /\ \A m \in Mid : Holders(m)' = Holders(m) /\ (Reason(m) => Reason(m)')
        /\ \A m \in Mid : Excused(m) => Excused(m)'
        /\ \A a \in Trigger : Askers(a)' = Askers(a)
    BY <2>1 DEF Holders, Askers, Owes, MayAsk, Excused, Reason
  <2>4. /\ AnsweredPerRow' /\ ConsultedPerClaim' /\ NoSilentLoss'
        /\ \A m \in Mid : IsFiniteSet(Holders(m))'
        /\ \A a \in Trigger : IsFiniteSet(Askers(a))'
    BY <2>1, <2>3 DEF IInv, AnsweredPerRow, ConsultedPerClaim, NoSilentLoss
  <2>5. \A p \in Worker : Shape(p)' /\ LookedUp(p)'
    BY <2>1 DEF IInv, Shape, LookedUp, ForTrigger
  <2>6. \A m \in Mid : Cardinality(Holders(m))' + replies'[m] + rows[m]
                       <= Cardinality(Holders(m)) + replies[m] + rows'[m]
    BY <2>1, <2>3, Counters, Owing
  <2>7. IInv'
    BY <2>2, <2>4, <2>5 DEF IInv
  <2>. QED
    BY <2>3, <2>6, <2>7 DEF Serves
<1>. QED
  BY <1>1, <1>2, <1>3, <1>4, <1>5, <1>6, <1>7 DEF Next, WorkerStep

\* IInv holds in every state the program can be in.
THEOREM Inductive == Spec => []IInv
<1>1. Init => IInv
  BY InitHolds
<1>2. IInv /\ [Next]_vars => IInv'
  BY StepHolds DEF Serves
<1>. QED
  BY <1>1, <1>2, PTL DEF Spec

\* The type invariant.
THEOREM TypeCorrect == Spec => []TypeOK
<1>1. IInv => TypeOK
  BY DEF IInv
<1>. QED
  BY <1>1, Inductive, PTL

\* The tasks asleep are those of the two entries, for any number of them.
THEOREM TimersArmedCorrect == Spec => []TimersArmed
<1>1. IInv => TimersArmed
  BY DEF IInv
<1>. QED
  BY <1>1, Inductive, PTL

\* The processing set holds the keys of the workers that run and no other.
THEOREM MarksHeldCorrect == Spec => []MarksHeld
<1>1. IInv => MarksHeld
  BY DEF IInv
<1>. QED
  BY <1>1, Inductive, PTL

\* One stored row leads to at most one reply.
THEOREM AnsweredPerRowCorrect == Spec => []AnsweredPerRow
<1>1. IInv => AnsweredPerRow
  BY DEF IInv
<1>. QED
  BY <1>1, Inductive, PTL

\* A claimed trigger is answered at most once.
THEOREM ConsultedPerClaimCorrect == Spec => []ConsultedPerClaim
<1>1. IInv => ConsultedPerClaim
  BY DEF IInv
<1>. QED
  BY <1>1, Inductive, PTL

\* A stored message that nobody holds was answered or there was a reason.
THEOREM NoSilentLossCorrect == Spec => []NoSilentLoss
<1>1. IInv => NoSilentLoss
  BY DEF IInv
<1>. QED
  BY <1>1, Inductive, PTL

\* Only two handlers store rows of messages.
LEMMA RowsStay ==
  ASSUME [Next]_vars
  PROVE  \/ rows' = rows
         \/ \E p \in Worker : StoreRow(p)
         \/ \E d \in Delivery : StoreStaffRow(d)
<1>1. ASSUME NEW d \in Delivery, Block(d) \/ LookUpDuplicate(d)
      PROVE  rows' = rows
  BY <1>1 DEF Block, LookUpDuplicate, database
<1>2. ASSUME NEW d \in Delivery, DeliveryStep(d)
      PROVE  rows' = rows \/ StoreStaffRow(d)
  <2>1. CASE Ignore(d) \/ Claim(d) \/ MergeIntoAd(d) \/ EnqueueAd(d) \/ Prepare(d)
    BY <2>1 DEF Ignore, Claim, MergeIntoAd, EnqueueAd, Prepare, database
  <2>2. CASE \/ PauseForStaff(d) \/ RefuseContent(d) \/ IgnoreComment(d) \/ Enqueue(d)
             \/ EnqueueAndMerge(d)
    BY <2>2 DEF PauseForStaff, RefuseContent, IgnoreComment, Enqueue, EnqueueAndMerge,
       database, tables
  <2>. QED
    BY <1>2, <2>1, <2>2 DEF DeliveryStep
<1>3. ASSUME NEW t \in Timer, TimerStep(t)
      PROVE  rows' = rows
  BY <1>3 DEF TimerStep, TimerFires, AdTimerFires, LookUpAgain, database
<1>4. ASSUME NEW p \in Worker, WorkStep(p)
      PROVE  rows' = rows \/ StoreRow(p)
  <2>1. CASE Load(p) \/ Resume(p) \/ DropTwin(p) \/ Check(p) \/ Reload(p)
    BY <2>1 DEF Load, Resume, DropTwin, Check, Reload, database, tables
  <2>2. CASE Suppress(p) \/ InitialiseSession(p) \/ Ask(p) \/ HandOverRepetition(p)
             \/ HandOver(p)
    BY <2>2 DEF Suppress, InitialiseSession, Ask, HandOverRepetition, HandOver, database,
       tables
  <2>3. CASE Send(p) \/ PauseForQuota(p) \/ StoreReply(p) \/ SaveConversation(p) \/ Fail(p)
    BY <2>3 DEF Send, PauseForQuota, StoreReply, SaveConversation, Fail, database, tables
  <2>. QED
    BY <1>4, <2>1, <2>2, <2>3 DEF WorkStep
<1>5. ASSUME \/ \E m \in Mid : RowAges(m)
             \/ \E a \in Trigger : ConsumedExpires(a)
             \/ \E k \in running : PauseLapses(k)
             \/ Crash
             \/ UNCHANGED vars
      PROVE  rows' = rows
  BY <1>5 DEF RowAges, ConsumedExpires, PauseLapses, Crash, database, vars
<1>. QED
  BY <1>1, <1>2, <1>3, <1>4, <1>5 DEF Next, WorkerStep

\* A second row of a message of the inbox comes when the first is old or has no
\* content.
THEOREM SecondRowIsLateCorrect == Spec => SecondRowIsLate
<1>1. ASSUME IInv, [Next]_vars
      PROVE  \A m \in Mid : rows[m] > 0 /\ rows'[m] > rows[m]
                => m \in aged \cup Comment \/ TextOf[m] = NoText
  <2>. SUFFICES ASSUME NEW m \in Mid, rows[m] > 0, rows'[m] > rows[m]
                PROVE  m \in aged \cup Comment \/ TextOf[m] = NoText
    OBVIOUS
  <2>1. rows[m] \in Nat /\ rows \in [Mid \cup Staff -> Nat]
    BY <1>1 DEF IInv, TypeOK
  <2>2. rows' # rows
    BY <2>1
  <2>3. ASSUME NEW d \in Delivery, StoreStaffRow(d)
        PROVE  FALSE
    <3>1. /\ Carries[d] # m /\ Carries[d] \in Staff
          /\ rows' = [rows EXCEPT ![Carries[d]] = @ + 1]
      BY <2>3, Kinds DEF StoreStaffRow, IsStaff
    <3>. QED
      BY <2>1, <3>1
  <2>4. ASSUME NEW p \in Worker, StoreRow(p)
        PROVE  m \in aged \cup Comment \/ TextOf[m] = NoText
    <3>1. Shape(p) /\ LookedUp(p) /\ work[p].pc = "checked"
      BY <1>1, <2>4 DEF IInv, StoreRow
    <3>2. ~ForTrigger(p) /\ rows' = [rows EXCEPT ![Carries[p]] = @ + 1]
      BY <2>2, <2>4 DEF StoreRow
    <3>3. Carries[p] = m /\ p \in Delivery
      BY <2>1, <3>1, <3>2 DEF Shape
    <3>. QED
      BY <2>1, <3>1, <3>3 DEF LookedUp, IsCustomer
  <2>. QED
    BY <1>1, <2>2, <2>3, <2>4, RowsStay
<1>. QED
  BY <1>1, Inductive, PTL DEF Spec, SecondRowIsLate

-----------------------------------------------------------------------------
(* The refinement of AnswersOwed.                                           *)

PromiseStep == [Promise!Next]_(Promise!vars)

\* Only one handler shows replies.
LEMMA RepliesStay ==
  ASSUME [Next]_vars
  PROVE  replies' = replies \/ \E p \in Worker : Send(p)
<1>1. ASSUME NEW d \in Delivery, Block(d) \/ LookUpDuplicate(d)
      PROVE  replies' = replies
  BY <1>1 DEF Block, LookUpDuplicate, history
<1>2. ASSUME NEW d \in Delivery, DeliveryStep(d)
      PROVE  replies' = replies
  <2>1. CASE Ignore(d) \/ Claim(d) \/ MergeIntoAd(d) \/ EnqueueAd(d) \/ Prepare(d)
    BY <2>1 DEF Ignore, Claim, MergeIntoAd, EnqueueAd, Prepare, history
  <2>2. CASE StoreStaffRow(d) \/ PauseForStaff(d) \/ RefuseContent(d) \/ IgnoreComment(d)
    BY <2>2 DEF StoreStaffRow, PauseForStaff, RefuseContent, IgnoreComment, history
  <2>3. CASE Enqueue(d) \/ EnqueueAndMerge(d)
    BY <2>3 DEF Enqueue, EnqueueAndMerge, history
  <2>. QED
    BY <1>2, <2>1, <2>2, <2>3 DEF DeliveryStep
<1>3. ASSUME NEW t \in Timer, TimerStep(t)
      PROVE  replies' = replies
  BY <1>3 DEF TimerStep, TimerFires, AdTimerFires, LookUpAgain, history
<1>4. ASSUME NEW p \in Worker, WorkStep(p)
      PROVE  replies' = replies \/ Send(p)
  <2>1. CASE Load(p) \/ Resume(p) \/ DropTwin(p) \/ Check(p) \/ StoreRow(p) \/ Reload(p)
    BY <2>1 DEF Load, Resume, DropTwin, Check, StoreRow, Reload, history
  <2>2. CASE Suppress(p) \/ InitialiseSession(p) \/ Ask(p) \/ HandOverRepetition(p)
             \/ HandOver(p)
    BY <2>2 DEF Suppress, InitialiseSession, Ask, HandOverRepetition, HandOver, history
  <2>3. CASE PauseForQuota(p) \/ StoreReply(p) \/ SaveConversation(p) \/ Fail(p)
    BY <2>3 DEF PauseForQuota, StoreReply, SaveConversation, Fail, history
  <2>. QED
    BY <1>4, <2>1, <2>2, <2>3 DEF WorkStep
<1>5. ASSUME \/ \E m \in Mid : RowAges(m)
             \/ \E a \in Trigger : ConsumedExpires(a)
             \/ \E k \in running : PauseLapses(k)
             \/ Crash
             \/ UNCHANGED vars
      PROVE  replies' = replies
  BY <1>5 DEF RowAges, ConsumedExpires, PauseLapses, Crash, history, vars
<1>. QED
  BY <1>1, <1>2, <1>3, <1>4, <1>5 DEF Next, WorkerStep

\* A step that stores no row of a customer and shows no reply lets go at most.
LEMMA PromiseLetGo ==
  ASSUME IInv, Serves, \A m \in Mid : rows'[m] = rows[m], replies' = replies
  PROVE  PromiseStep
<1>1. UserRows' = UserRows
  BY DEF UserRows
<1>2. \A m \in Mid : Owed[m] = Cardinality(Holders(m)) /\ Owed'[m] = Cardinality(Holders(m))'
  BY DEF Owed
<1>3. \A m \in Mid : Owed[m] \in Nat /\ Owed'[m] \in Nat
  <2>1. \A m \in Mid : Cardinality(Holders(m)) \in Nat
    BY Owing
  <2>2. \A m \in Mid : Cardinality(Holders(m))' \in Nat
    BY FS_CardinalityType DEF Serves, IInv
  <2>. QED
    BY <1>2, <2>1, <2>2
<1>4. Owed' \in [Mid -> Nat]
  BY <1>3 DEF Owed
<1>5. {m \in Mid : Reason(m)} \subseteq {m \in Mid : Reason(m)}'
  BY DEF Serves
<1>6. \A m \in Mid : Owed'[m] # Owed[m] =>
         /\ Owed'[m] < Owed[m]
         /\ Owed'[m] = 0 => replies[m] > 0 \/ m \in {x \in Mid : Reason(x)}'
  <2>. SUFFICES ASSUME NEW m \in Mid, Owed'[m] # Owed[m]
                PROVE  /\ Owed'[m] < Owed[m]
                       /\ Owed'[m] = 0 => replies[m] > 0 \/ m \in {x \in Mid : Reason(x)}'
    OBVIOUS
  <2>1. Owed'[m] < Owed[m]
    <3>1. rows[m] \in Nat /\ replies[m] \in Nat
      BY Counters
    <3>2. Cardinality(Holders(m))' + replies'[m] + rows[m]
            <= Cardinality(Holders(m)) + replies[m] + rows'[m]
      BY DEF Serves
    <3>. QED
      BY <1>2, <1>3, <3>1, <3>2
  <2>2. ASSUME Owed'[m] = 0
        PROVE  replies[m] > 0 \/ m \in {x \in Mid : Reason(x)}'
    <3>1. IsFiniteSet(Holders(m)) /\ IsFiniteSet(Holders(m))'
      BY DEF IInv, Serves
    <3>2. Cardinality(Holders(m)) # 0 /\ Cardinality(Holders(m))' = 0
      BY <1>2, <1>3, <2>1, <2>2
    <3>3. Holders(m) # {} /\ Holders(m)' = {}
      BY <3>1, <3>2, FS_EmptySet
    <3>4. Excused(m)'
      BY <3>3 DEF Serves
    <3>. QED
      BY <3>4 DEF Excused
  <2>. QED
    BY <2>1, <2>2
<1>7. Promise!LetGo
  BY <1>1, <1>4, <1>5, <1>6 DEF Promise!LetGo
<1>. QED
  BY <1>7 DEF PromiseStep, Promise!Next

\* The row of a customer message is stored: its delivery owes one more answer.
LEMMA PromiseStore ==
  ASSUME IInv, Serves, NEW p \in Worker, StoreRow(p)
  PROVE  PromiseStep
<1>1. /\ work[p].pc = "checked" /\ work[p].mids = {} /\ Shape(p)
      /\ work \in [Worker -> WorkState] /\ rows \in [Mid \cup Staff -> Nat]
  BY DEF StoreRow, IInv, TypeOK, Shape, WillSend
<1>2. /\ work' = [work EXCEPT ![p].pc = "rowed"] /\ buffer' = buffer /\ replies' = replies
      /\ occasion' = occasion /\ selfPauses' = selfPauses /\ failures' = failures
      /\ crashes' = crashes
  BY DEF StoreRow, Step, budget, history
<1>3. CASE \A m \in Mid : rows'[m] = rows[m]
  BY <1>2, <1>3, PromiseLetGo
<1>4. CASE \E m \in Mid : rows'[m] # rows[m]
  <2>1. ~ForTrigger(p) /\ rows' = [rows EXCEPT ![Carries[p]] = @ + 1]
    BY <1>4 DEF StoreRow
  <2>2. p \in Delivery /\ Carries[p] \in Mid /\ IsCustomer(p)
    BY <1>1, <1>4, <2>1 DEF Shape, IsCustomer
  <2>a. PICK m \in Mid : m = Carries[p]
    BY <2>2
  <2>3. /\ \A x \in Mid : rows'[x] = IF x = m THEN rows[x] + 1 ELSE rows[x]
        /\ \A s \in Staff : rows'[s] = rows[s]
    BY <1>1, <2>1, <2>a, Kinds
  <2>4. \A q \in Worker, x \in Mid : Owes(q, x)' <=> Owes(q, x) \/ (q = p /\ x = m)
    BY <1>1, <1>2, <2>2, <2>a DEF Owes, WillSend, IsCustomer
  <2>5. /\ \A x \in Mid \ {m} : Holders(x)' = Holders(x)
        /\ Holders(m)' = Holders(m) \cup {p}
        /\ p \notin Holders(m)
    <3>1. ~Owes(p, m) /\ p # NoTimer
      BY <1>1, Kinds DEF Owes
    <3>. QED
      BY <1>2, <2>4, <3>1 DEF Holders
  <2>6. /\ \A x \in Mid \ {m} : Cardinality(Holders(x))' = Cardinality(Holders(x))
        /\ Cardinality(Holders(m))' = Cardinality(Holders(m)) + 1
    <3>1. PICK S : S = Holders(m)
      OBVIOUS
    <3>2. IsFiniteSet(S) /\ p \notin S /\ Holders(m)' = S \cup {p}
      BY <2>5, <3>1 DEF IInv
    <3>3. Cardinality(Holders(m))' = Cardinality(S) + 1
      BY <3>2, FS_AddElement
    <3>. QED
      BY <2>5, <3>1, <3>3
  <2>7. UserRows' = [UserRows EXCEPT ![m] = @ + 1]
    BY <2>3 DEF UserRows
  <2>8. Owed' = [Owed EXCEPT ![m] = @ + 1]
    BY <2>6 DEF Owed
  <2>9. {x \in Mid : Reason(x)}' = {x \in Mid : Reason(x)}
    <3>1. \A d \in occasion.comes : work'[d].pc = "done" <=> work[d].pc = "done"
      <4>1. occasion.comes \subseteq Worker
        BY OccasionAssumption DEF IInv, TypeOK, OccasionShape, Worker
      <4>. QED
        BY <1>1, <1>2, <4>1
    <3>2. \A x \in Mid : Reason(x)' <=> Reason(x)
      BY <1>2, <2>3, <3>1 DEF Reason
    <3>. QED
      BY <3>2
  <2>10. Promise!Store(m)
    BY <1>2, <2>7, <2>8, <2>9 DEF Promise!Store
  <2>. QED
    BY <2>10 DEF PromiseStep, Promise!Next
<1>. QED
  BY <1>3, <1>4

\* A reply is shown: every message of the batch was owed it by this worker.
LEMMA PromiseAnswer ==
  ASSUME IInv, Serves, NEW p \in Worker, Send(p)
  PROVE  PromiseStep
<1>0. /\ work[p].pc \in {"send", "final"} /\ work[p] \in WorkState
      /\ work \in [Worker -> WorkState] /\ rows' = rows /\ buffer' = buffer
      /\ replies \in [Mid -> Nat]
  BY DEF Send, Final, IInv, TypeOK, database
<1>1. PICK shown \in BOOLEAN, ok \in BOOLEAN :
         /\ replies' = [m \in Mid |->
               replies[m] + (IF shown /\ m \in work[p].mids THEN 1 ELSE 0)]
         /\ work' = [work EXCEPT ![p].pc = "sent", ![p].ok = ok]
  BY DEF Send
<1>a. PICK S \in SUBSET Mid : S = work[p].mids
  BY <1>0 DEF WorkState
<1>2. CASE ~shown \/ S = {}
  <2>1. replies' = replies
    BY <1>0, <1>1, <1>a, <1>2
  <2>. QED
    BY <1>0, <2>1, PromiseLetGo
<1>3. CASE shown /\ S # {}
  <2>1. replies' = [m \in Mid |-> IF m \in S THEN replies[m] + 1 ELSE replies[m]]
    <3>1. \A m \in Mid : replies'[m] = IF m \in S THEN replies[m] + 1 ELSE replies[m]
      BY <1>0, <1>1, <1>a, <1>3
    <3>. QED
      BY <1>1, <3>1
  <2>2. \A q \in Worker, x \in Mid : Owes(q, x)' <=> Owes(q, x) /\ ~(q = p /\ x \in S)
    BY <1>0, <1>1, <1>a DEF Owes, WillSend
  <2>3. /\ \A x \in Mid \ S : Holders(x)' = Holders(x)
        /\ \A x \in S : p \in Holders(x) /\ Holders(x)' = Holders(x) \ {p}
    <3>1. \A x \in S : Owes(p, x) /\ p # NoTimer
      BY <1>0, <1>a, Kinds DEF Owes, WillSend
    <3>. QED
      BY <1>0, <2>2, <3>1 DEF Holders
  <2>4. \A x \in S : /\ Cardinality(Holders(x))' = Cardinality(Holders(x)) - 1
                      /\ Cardinality(Holders(x)) > 0
    <3>. TAKE x \in S
    <3>1. PICK H : H = Holders(x)
      OBVIOUS
    <3>2. IsFiniteSet(H) /\ p \in H /\ Holders(x)' = H \ {p}
      BY <2>3, <3>1 DEF IInv
    <3>3. Cardinality(H) \in Nat /\ Cardinality(H) # 0
      BY <3>2, FS_EmptySet, FS_CardinalityType
    <3>4. Cardinality(Holders(x))' = Cardinality(H) - 1
      BY <3>2, FS_RemoveElement
    <3>. QED
      BY <3>1, <3>3, <3>4
  <2>5. UserRows' = UserRows
    BY <1>0 DEF UserRows
  <2>6. /\ Owed' = [m \in Mid |-> IF m \in S THEN Owed[m] - 1 ELSE Owed[m]]
        /\ \A m \in S : Owed[m] > 0
    BY <2>3, <2>4 DEF Owed
  <2>7. {m \in Mid : Reason(m)} \subseteq {m \in Mid : Reason(m)}'
    BY DEF Serves
  <2>8. Promise!Answer(S)
    BY <2>1, <2>5, <2>6, <2>7 DEF Promise!Answer
  <2>. QED
    BY <1>3, <2>8 DEF PromiseStep, Promise!Next
<1>. QED
  BY <1>2, <1>3

\* Every step of the webhook is one of AnswersOwed or none, for any messages,
\* deliveries, timers and occasions: nothing is answered that is not owed, and
\* nothing owed is let go of without a reason.
THEOREM PromiseKept == Spec => KeepsPromise
<1>1. Init => Promise!Init
  <2>. SUFFICES ASSUME Init PROVE Promise!Init
    OBVIOUS
  <2>1. UserRows = [m \in Mid |-> 0]
    BY DEF Init, UserRows
  <2>2. \A m \in Mid : Holders(m) = {}
    BY NoHolders
  <2>3. Owed = [m \in Mid |-> 0]
    BY <2>2, FS_EmptySet DEF Owed
  <2>. QED
    BY <2>1, <2>3 DEF Init, Promise!Init
<1>2. IInv /\ [Next]_vars => PromiseStep
  <2>. SUFFICES ASSUME IInv, [Next]_vars PROVE PromiseStep
    OBVIOUS
  <2>1. Serves
    BY StepHolds
  <2>2. ASSUME NEW d \in Delivery, StoreStaffRow(d)
        PROVE  PromiseStep
    <3>1. /\ rows' = [rows EXCEPT ![Carries[d]] = @ + 1] /\ replies' = replies
          /\ Carries[d] \in Staff
      BY <2>2 DEF StoreStaffRow, IsStaff
    <3>2. \A m \in Mid : rows'[m] = rows[m]
      BY <3>1, Kinds DEF IInv, TypeOK
    <3>. QED
      BY <2>1, <3>1, <3>2, PromiseLetGo
  <2>. QED
    BY <2>1, <2>2, RowsStay, RepliesStay, PromiseLetGo, PromiseStore, PromiseAnswer
<1>. QED
  BY <1>1, <1>2, Inductive, PTL DEF Spec, KeepsPromise, Promise!Spec, PromiseStep

\* What the abstract promise comes to, hence what every program that keeps it
\* gives the customer: no more replies than rows, and no stored message passed
\* over without an excuse.
THEOREM PromiseSuffices == Promise!Spec => []Promise!Kept
<1>. DEFINE I == /\ UserRows \in [Mid -> Nat] /\ Owed \in [Mid -> Nat]
                 /\ replies \in [Mid -> Nat] /\ Promise!Kept
<1>1. Promise!Init => I
  <2>. SUFFICES ASSUME Promise!Init PROVE I
    OBVIOUS
  <2>. QED
    BY DEF Promise!Init, Promise!Kept
<1>2. I /\ PromiseStep => I'
  <2>. SUFFICES ASSUME I, PromiseStep PROVE I'
    OBVIOUS
  <2>1. ASSUME NEW m \in Mid, Promise!Store(m)
        PROVE  I'
    BY <2>1 DEF Promise!Store, Promise!Kept
  <2>2. ASSUME NEW S \in SUBSET Mid, Promise!Answer(S)
        PROVE  I'
    BY <2>2 DEF Promise!Answer, Promise!Kept
  <2>3. CASE Promise!LetGo
    BY <2>3 DEF Promise!LetGo, Promise!Kept
  <2>4. CASE UNCHANGED Promise!vars
    BY <2>4 DEF Promise!vars, Promise!Kept
  <2>. QED
    BY <2>1, <2>2, <2>3, <2>4 DEF PromiseStep, Promise!Next
<1>3. I => Promise!Kept
  OBVIOUS
<1>. HIDE DEF I
<1>. QED
  BY <1>1, <1>2, <1>3, PTL DEF Promise!Spec, PromiseStep
=============================================================================
