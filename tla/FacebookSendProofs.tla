-------------------------- MODULE FacebookSendProofs --------------------------
(***************************************************************************)
(* Proofs about FacebookSend, for every limit of images and number of      *)
(* sends: IInv is inductive, and the properties follow from it.            *)
(***************************************************************************)
EXTENDS FacebookSend, TLAPS

\* What one call changes, item by item.
LEMMA PostEffect ==
  ASSUME TypeOK, NEW items \in SUBSET Item, NEW outcome \in Outcome,
         Post(items, outcome)
  PROVE  /\ tried' \in [Item -> Nat] /\ shown' \in [Item -> Nat]
         /\ lost' \in Nat /\ denied' \in BOOLEAN
         /\ lost' = lost \/ (outcome = "lost" /\ lost' = lost + 1)
         /\ outcome = "lost" => lost' = lost + 1
         /\ denied' <=> (denied \/ outcome = "denied")
         /\ \A i \in items : tried'[i] = tried[i] + 1
         /\ \A i \in Item \ items : tried'[i] = tried[i] /\ shown'[i] = shown[i]
         /\ outcome \in {"shown", "lost"} =>
               \A i \in items : shown'[i] = shown[i] + 1
         /\ outcome \in {"refused", "denied"} => shown' = shown
<1>. USE DEF TypeOK, Post, Added, Outcome
<1>1. /\ tried' \in [Item -> Nat] /\ shown' \in [Item -> Nat]
      /\ lost' \in Nat /\ denied' \in BOOLEAN
  OBVIOUS
<1>2. /\ \A i \in items : tried'[i] = tried[i] + 1
      /\ \A i \in Item \ items : tried'[i] = tried[i] /\ shown'[i] = shown[i]
  OBVIOUS
<1>3. outcome \in {"shown", "lost"} =>
          \A i \in items : shown'[i] = shown[i] + 1
  OBVIOUS
<1>. QED
  BY <1>1, <1>2, <1>3

LEMMA Start == Init => IInv
<1>. SUFFICES ASSUME Init PROVE IInv
  OBVIOUS
<1>. USE ImagesAssumption DEF Init
<1>1. \A i \in Item : shown[i] = 0 /\ tried[i] = 0
  BY DEF Zero
<1>2. TypeOK
  <2>1. Zero \in [Item -> Nat] /\ NoReply \in Reply
    BY DEF Zero, NoReply, Reply
  <2>2. denied \in BOOLEAN
    OBVIOUS
  <2>. QED
    BY <2>1, <2>2 DEF TypeOK
<1>3. Control
  BY DEF Control
<1>4. TextFirst /\ ImagesSoFar /\ TriesSoFar /\ PaidSoFar
  BY <1>1 DEF TextFirst, ImagesSoFar, OncePerAnswer, TriesSoFar, PaidSoFar,
              Images, Item, NoReply
<1>5. /\ ReportedIsSeen /\ FailedIsUnseen /\ ImagesTriedThrough
      /\ VerdictJustified
  BY DEF ReportedIsSeen, FailedIsUnseen, ImagesTriedThrough, VerdictJustified
<1>. QED
  BY <1>2, <1>3, <1>4, <1>5 DEF IInv

LEMMA PrepareKeeps == ASSUME IInv, Prepare PROVE IInv'
<1>. USE ImagesAssumption
<1>1. shown = Zero /\ tried = Zero /\ lost = 0 /\ result = "none" /\ ~denied
      /\ next = 1 /\ sent = 0
  BY DEF IInv, Control, Prepare
<1>2. \A i \in Item : shown'[i] = 0 /\ tried'[i] = 0
  BY <1>1 DEF Prepare, Zero
<1>3. pc' \in {"ended", "text", "single", "images"} /\ lost' = 0 /\ ~denied'
      /\ next' = 1 /\ sent' = 0 /\ shown' = Zero /\ tried' = Zero
  BY <1>1 DEF Prepare, ImagesStep
<1>4. reply'.images \in 0..MaxImages /\ reply' = [text |-> reply'.text, images |-> reply'.images]
      /\ reply' \in Reply
  BY DEF Prepare, Reply
<1>5. TypeOK'
  <2>1. result' \in {"none", "ok", "retry", "drop"}
    BY <1>1 DEF Prepare
  <2>2. Zero \in [Item -> Nat]
    BY DEF Zero
  <2>. QED
    BY <2>1, <2>2, <1>3, <1>4 DEF IInv, TypeOK, Prepare, earlier
<1>6. Control'
  BY <1>1, <1>3, <1>4 DEF Prepare, Control, ImagesStep, IInv, TypeOK
<1>7. TextFirst' /\ ImagesSoFar' /\ TriesSoFar' /\ PaidSoFar'
  <2>1. TextFirst'
    BY <1>1, <1>2, <1>3, <1>4 DEF Prepare, TextFirst, Item, ImagesStep
  <2>2. ImagesSoFar'
    BY <1>2, <1>3 DEF ImagesSoFar, OncePerAnswer, Images, Item
  <2>3. TriesSoFar'
    BY <1>2, <1>3, <1>4
       DEF Prepare, TriesSoFar, Images, Item, Calls, ImagesStep
  <2>. QED
    BY <2>1, <2>2, <2>3 DEF Prepare, IInv, PaidSoFar, earlier
<1>8. ReportedIsSeen' /\ FailedIsUnseen' /\ ImagesTriedThrough'
      /\ VerdictJustified'
  BY <1>1, <1>2, <1>3, <1>4
     DEF Prepare, ReportedIsSeen, FailedIsUnseen, ImagesTriedThrough,
         VerdictJustified, Visible, NoReply, ImagesStep
<1>. QED
  BY <1>5, <1>6, <1>7, <1>8 DEF IInv

LEMMA TextKeeps ==
  ASSUME IInv, NEW outcome \in Outcome, SendText(outcome)
  PROVE  IInv'
<1>. USE ImagesAssumption
<1>0. 0 \in Item /\ {0} \in SUBSET Item
  BY DEF Item
<1>1. /\ pc = "text" /\ reply.text /\ ~denied /\ result = "none"
      /\ next = 1 /\ sent = 0 /\ lost = 0
      /\ \A i \in Item : shown[i] = 0 /\ tried[i] = 0
  BY DEF IInv, Control, SendText, Zero
<1>2. Post({0}, outcome) /\ TypeOK
  BY DEF SendText, IInv
<1>3. /\ tried' \in [Item -> Nat] /\ shown' \in [Item -> Nat]
      /\ lost' \in Nat /\ denied' \in BOOLEAN
      /\ lost' = 0 \/ outcome = "lost"
      /\ denied' <=> outcome = "denied"
      /\ \A i \in Images : tried'[i] = 0 /\ shown'[i] = 0
      /\ outcome \in {"shown", "lost"} => shown'[0] = 1
      /\ outcome \in {"refused", "denied"} => shown'[0] = 0
  BY <1>0, <1>1, <1>2, PostEffect, 0 + 1 = 1 DEF Images
<1>4. /\ next' = 1 /\ sent' = 0 /\ reply' = reply
      /\ UNCHANGED <<sends, seenBefore, lostBefore>>
  BY <1>1 DEF SendText, earlier
<1>5. outcome \in {"shown", "lost", "refused", "denied"}
  BY DEF Outcome
<1>6. TypeOK'
  BY <1>1, <1>2, <1>3, <1>4, <1>5 DEF SendText, TypeOK, ImagesStep
<1>7. reply.images \in 0..MaxImages
  BY <1>2 DEF TypeOK, Reply
<1>8. Control'
  BY <1>1, <1>3, <1>4, <1>5, <1>7 DEF SendText, Control, ImagesStep
<1>9. TextFirst'
  BY <1>1, <1>3, <1>4, <1>5 DEF SendText, TextFirst, ImagesStep
<1>10. ImagesSoFar'
  <2>1. \A i \in Item : shown'[i] <= 1 + lost'
    BY <1>3, <1>5 DEF Images
  <2>. QED
    BY <2>1, <1>3, <1>4 DEF ImagesSoFar, OncePerAnswer
<1>11. TriesSoFar'
  <2>1. 1..reply.images \subseteq Images
    BY <1>7 DEF Images, Item
  <2>. QED
    BY <2>1, <1>1, <1>3, <1>4, <1>7 DEF SendText, TriesSoFar, Calls, ImagesStep
<1>12. ReportedIsSeen' /\ FailedIsUnseen' /\ VerdictJustified'
  <2>1. ReportedIsSeen'
    BY <1>1, <1>3, <1>4, <1>5 DEF SendText, ReportedIsSeen
  <2>2. FailedIsUnseen'
    <3>1. outcome \in {"refused", "denied"} => \A i \in Item : shown'[i] = 0
      BY <1>3 DEF Images
    <3>2. result' \in {"retry", "drop"} => outcome # "shown"
      BY <1>1 DEF SendText
    <3>3. lost' = 0 => outcome # "lost"
      <4>1. outcome = "lost" => lost' = lost + 1
        BY <1>2 DEF Post
      <4>. QED
        BY <4>1, <1>1
    <3>. QED
      BY <3>1, <3>2, <3>3, <1>5 DEF FailedIsUnseen, Visible
  <2>3. VerdictJustified'
    BY <1>1, <1>3, <1>5 DEF SendText, VerdictJustified
  <2>. QED
    BY <2>1, <2>2, <2>3
<1>13. ImagesTriedThrough'
  BY <1>1, <1>3, <1>4, <1>5, <1>7 DEF SendText, ImagesTriedThrough
<1>14. PaidSoFar'
  BY <1>4 DEF IInv, PaidSoFar
<1>. QED
  BY <1>6, <1>8, <1>9, <1>10, <1>11, <1>12, <1>13, <1>14 DEF IInv

LEMMA BulkKeeps ==
  ASSUME IInv, NEW outcome \in Outcome, SendBulk(outcome)
  PROVE  IInv'
<1>. USE ImagesAssumption
<1>0. /\ TypeOK /\ reply.images \in 0..MaxImages /\ 0 \in Item
      /\ 1..reply.images \in SUBSET Item /\ 1..reply.images \subseteq Images
      /\ 0 \notin 1..reply.images
  BY DEF IInv, TypeOK, Reply, Item, Images
<1>1. /\ pc \in {"images", "again"} /\ reply.images > 1
      /\ ~denied /\ result = "none" /\ next = 1 /\ sent = 0
      /\ \A i \in Images : shown[i] <= lost
      /\ lost = 0 => \A i \in Images : shown[i] = 0
      /\ lost \in Nat /\ tried \in [Item -> Nat] /\ shown \in [Item -> Nat]
  <2>1. \A i \in Images : i >= 1
    BY DEF Images, Item
  <2>. QED
    BY <2>1, <1>0 DEF IInv, TypeOK, Control, ImagesSoFar, SendBulk
<1>2. Post(1..reply.images, outcome)
  BY DEF SendBulk
<1>3. /\ tried' \in [Item -> Nat] /\ shown' \in [Item -> Nat]
      /\ lost' \in Nat /\ denied' \in BOOLEAN
      /\ lost' = lost \/ (outcome = "lost" /\ lost' = lost + 1)
      /\ outcome = "lost" => lost' = lost + 1
      /\ denied' <=> outcome = "denied"
      /\ \A i \in 1..reply.images : tried'[i] = tried[i] + 1
      /\ \A i \in Item \ (1..reply.images) :
            tried'[i] = tried[i] /\ shown'[i] = shown[i]
      /\ outcome \in {"shown", "lost"} =>
            \A i \in 1..reply.images : shown'[i] = shown[i] + 1
      /\ outcome \in {"refused", "denied"} => shown' = shown
  BY <1>0, <1>1, <1>2, PostEffect
<1>4. /\ next' = 1 /\ sent' = 0 /\ reply' = reply
      /\ UNCHANGED <<sends, seenBefore, lostBefore>>
  BY <1>1 DEF SendBulk, earlier
<1>5. \/ /\ outcome = "shown" /\ pc' = "ended" /\ result' = "ok"
      \/ /\ outcome = "denied" /\ pc' = "ended"
         /\ result' = IF reply.text THEN "ok" ELSE "drop"
      \/ /\ outcome \in {"lost", "refused"}
         /\ pc' = IF pc = "images" THEN "again" ELSE "single"
         /\ result' = "none"
  BY <1>1, <1>3 DEF SendBulk, Finish, Outcome
<1>6. TypeOK'
  BY <1>0, <1>1, <1>3, <1>4, <1>5 DEF TypeOK
<1>7. Control'
  BY <1>0, <1>1, <1>3, <1>4, <1>5 DEF Control
<1>8. TextFirst'
  BY <1>0, <1>1, <1>3, <1>4, <1>5 DEF IInv, TextFirst
<1>9. /\ \A i \in Images : shown'[i] <= shown[i] + 1
      /\ outcome # "shown" => \A i \in Images : shown'[i] <= lost'
  <2>. SUFFICES ASSUME NEW i \in Images
                PROVE  /\ shown'[i] <= shown[i] + 1
                       /\ outcome # "shown" => shown'[i] <= lost'
    OBVIOUS
  <2>1. i \in Item /\ shown[i] \in Nat
    BY <1>1 DEF Images
  <2>2. CASE i \in 1..reply.images
    BY <2>1, <2>2, <1>1, <1>3, <1>5
  <2>3. CASE i \notin 1..reply.images
    BY <2>1, <2>3, <1>1, <1>3, <1>5
  <2>. QED
    BY <2>2, <2>3
<1>10. ImagesSoFar'
  <2>1. \A i \in Item : shown'[i] <= 1 + lost'
    <3>1. \A i \in Images : shown'[i] <= 1 + lost'
      BY <1>1, <1>3, <1>9 DEF Images
    <3>2. shown'[0] <= 1 + lost'
      BY <1>0, <1>8, <1>3 DEF TextFirst
    <3>. QED
      BY <3>1, <3>2 DEF Images
  <2>2. lost' = 0 /\ pc' # "ended" => \A i \in Images : shown'[i] = 0
    BY <1>1, <1>3, <1>5
  <2>3. pc' # "ended" => \A i \in Images : shown'[i] <= lost'
    BY <1>5, <1>9
  <2>. QED
    BY <2>1, <2>2, <2>3, <1>4 DEF ImagesSoFar, OncePerAnswer
<1>11. TriesSoFar'
  <2>1. CASE pc' = "again"
    <3>1. \A i \in 1..reply.images : tried'[i] = 0 + 1
      BY <2>1, <1>0, <1>1, <1>3, <1>5 DEF IInv, TriesSoFar
    <3>. QED
      BY <2>1, <3>1, <1>4 DEF TriesSoFar
  <2>2. CASE pc' = "single"
    <3>1. \A i \in 1..reply.images : tried'[i] = 1 + 1
      BY <2>2, <1>0, <1>1, <1>3, <1>5 DEF IInv, TriesSoFar
    <3>2. \A i \in 1..reply.images : ~(i < 1)
      OBVIOUS
    <3>. QED
      BY <2>2, <3>1, <3>2, <1>0, <1>1, <1>4 DEF TriesSoFar, Calls
  <2>. QED
    BY <2>1, <2>2, <1>1, <1>5 DEF TriesSoFar
<1>12. ReportedIsSeen'
  <2>1. CASE reply.text
    BY <2>1, <1>4, <1>8 DEF ReportedIsSeen, TextFirst
  <2>2. CASE ~reply.text /\ outcome = "shown"
    <3>1. 1 \in 1..reply.images /\ shown[1] \in Nat
      BY <1>0, <1>1
    <3>2. shown'[1] > 0 /\ 1 \in Item \ {0}
      BY <2>2, <3>1, <1>0, <1>3
    <3>. QED
      BY <2>2, <3>2, <1>4 DEF ReportedIsSeen
  <2>3. CASE ~reply.text /\ outcome # "shown"
    BY <2>3, <1>5 DEF ReportedIsSeen
  <2>. QED
    BY <2>1, <2>2, <2>3
<1>13. FailedIsUnseen'
  <2>1. result' \in {"retry", "drop"} =>
            outcome = "denied" /\ ~reply.text /\ shown' = shown
    BY <1>3, <1>5
  <2>2. result' \in {"retry", "drop"} /\ lost' = 0 =>
            \A i \in Item : ~(shown'[i] > 0)
    BY <2>1, <1>0, <1>1, <1>3 DEF IInv, TextFirst, Images
  <2>. QED
    BY <2>2 DEF FailedIsUnseen, Visible
<1>14. ImagesTriedThrough'
  <2>1. result' # "none" /\ ~denied' => outcome = "shown"
    BY <1>3, <1>5
  <2>2. outcome = "shown" => \A i \in 1..reply.images : shown'[i] > 0
    BY <1>0, <1>1, <1>3
  <2>. QED
    BY <2>1, <2>2, <1>4 DEF ImagesTriedThrough
<1>15. VerdictJustified'
  BY <1>3, <1>5 DEF VerdictJustified
<1>. QED
  BY <1>4, <1>6, <1>7, <1>8, <1>10, <1>11, <1>12, <1>13, <1>14, <1>15
     DEF IInv, PaidSoFar

LEMMA SingleKeeps ==
  ASSUME IInv, NEW outcome \in Outcome, SendSingle(outcome)
  PROVE  IInv'
<1>. USE ImagesAssumption
<1>0. /\ TypeOK /\ reply.images \in 0..MaxImages /\ 0 \in Item
      /\ 1..reply.images \subseteq Images /\ Images \subseteq Item
      /\ \A i \in Item : i \in Nat
  BY DEF IInv, TypeOK, Reply, Item, Images
<1>1. /\ pc = "single" /\ next \in 1..reply.images /\ sent \in Nat
      /\ sent < next /\ ~denied /\ result = "none"
      /\ {next} \in SUBSET Item /\ next \in Images
      /\ lost \in Nat /\ tried \in [Item -> Nat] /\ shown \in [Item -> Nat]
  BY <1>0 DEF IInv, TypeOK, Control, SendSingle
<1>2. Post({next}, outcome)
  BY DEF SendSingle
<1>3. /\ tried' \in [Item -> Nat] /\ shown' \in [Item -> Nat]
      /\ lost' \in Nat /\ denied' \in BOOLEAN
      /\ lost' = lost \/ (outcome = "lost" /\ lost' = lost + 1)
      /\ outcome = "lost" => lost' = lost + 1
      /\ denied' <=> outcome = "denied"
      /\ tried'[next] = tried[next] + 1
      /\ \A i \in Item \ {next} :
            tried'[i] = tried[i] /\ shown'[i] = shown[i]
      /\ outcome \in {"shown", "lost"} => shown'[next] = shown[next] + 1
      /\ outcome \in {"refused", "denied"} => shown' = shown
  BY <1>0, <1>1, <1>2, PostEffect
<1>4. /\ next' = next + 1 /\ reply' = reply
      /\ sent' = IF outcome = "shown" THEN sent + 1 ELSE sent
      /\ UNCHANGED <<sends, seenBefore, lostBefore>>
  BY DEF SendSingle, earlier
<1>5. \/ /\ outcome # "denied" /\ next < reply.images
         /\ pc' = "single" /\ result' = "none"
      \/ /\ outcome = "denied" \/ next = reply.images
         /\ pc' = "ended"
         /\ result' = IF sent' > 0 \/ reply.text THEN "ok"
                      ELSE IF outcome = "denied" THEN "drop" ELSE "retry"
  BY <1>1, <1>3 DEF SendSingle, Finish
<1>6. TypeOK'
  <2>1. sent' \in 0..MaxImages /\ next' \in 1..(MaxImages + 1)
    BY <1>0, <1>1, <1>4
  <2>2. result' \in {"none", "ok", "retry", "drop"}
    BY <1>5
  <2>. QED
    BY <2>1, <2>2, <1>0, <1>3, <1>4, <1>5 DEF TypeOK
<1>7. Control'
  BY <1>0, <1>1, <1>3, <1>4, <1>5 DEF Control
<1>8. TextFirst'
  <2>1. shown'[0] = shown[0]
    BY <1>0, <1>1, <1>3 DEF Images
  <2>. QED
    BY <2>1, <1>1, <1>4, <1>5 DEF IInv, TextFirst
<1>9. \A i \in Images : shown[i] <= 1 + lost /\ (i >= next => shown[i] <= lost)
  BY <1>0, <1>1 DEF IInv, ImagesSoFar, OncePerAnswer
<1>10. ImagesSoFar'
  <2>1. \A i \in Item : shown'[i] <= 1 + lost'
    <3>. SUFFICES ASSUME NEW i \in Item PROVE shown'[i] <= 1 + lost'
      OBVIOUS
    <3>1. CASE i = next
      BY <3>1, <1>1, <1>3, <1>9 DEF Outcome
    <3>2. CASE i # next
      <4>1. shown'[i] = shown[i] /\ shown[i] \in Nat /\ shown[i] <= 1 + lost
        BY <3>2, <1>1, <1>3 DEF IInv, ImagesSoFar, OncePerAnswer
      <4>. QED
        BY <4>1, <1>1, <1>3
    <3>. QED
      BY <3>1, <3>2
  <2>2. \A i \in Images : i >= next' => shown'[i] <= lost'
    <3>. SUFFICES ASSUME NEW i \in Images, i >= next' PROVE shown'[i] <= lost'
      OBVIOUS
    <3>1. i # next /\ i >= next /\ i \in Item
      BY <1>0, <1>1, <1>4
    <3>2. shown'[i] = shown[i] /\ shown[i] <= lost /\ shown[i] \in Nat
      BY <3>1, <1>1, <1>3, <1>9
    <3>. QED
      BY <3>2, <1>1, <1>3
  <2>3. sent' > 0 => \E i \in Images : shown'[i] > 0
    <3>1. CASE outcome = "shown"
      BY <3>1, <1>1, <1>3
    <3>2. CASE outcome # "shown" /\ sent > 0
      <4>1. PICK i \in Images : shown[i] > 0
        BY <3>2 DEF IInv, ImagesSoFar
      <4>2. shown'[i] >= shown[i] /\ shown[i] \in Nat /\ shown'[i] \in Nat
        BY <1>0, <1>1, <1>3 DEF Outcome
      <4>. QED
        BY <4>1, <4>2
    <3>. QED
      BY <3>1, <3>2, <1>1, <1>4
  <2>4. sent' = 0 /\ lost' = 0 => \A i \in Images : shown'[i] = 0
    <3>. SUFFICES ASSUME sent' = 0, lost' = 0
                  PROVE  \A i \in Images : shown'[i] = 0
      OBVIOUS
    <3>1. outcome \in {"refused", "denied"} /\ sent = 0 /\ lost = 0
      BY <1>1, <1>3, <1>4 DEF Outcome
    <3>. QED
      BY <3>1, <1>1, <1>3 DEF IInv, ImagesSoFar
  <2>. QED
    BY <2>1, <2>2, <2>3, <2>4 DEF ImagesSoFar, OncePerAnswer
<1>11. \A i \in 1..reply.images : tried'[i] = Calls(i, next + 1)
  <2>. SUFFICES ASSUME NEW i \in 1..reply.images
                PROVE  tried'[i] = Calls(i, next + 1)
    OBVIOUS
  <2>1. tried[i] = Calls(i, next) /\ i \in Item
    BY <1>0, <1>1 DEF IInv, TriesSoFar
  <2>2. CASE i = next
    BY <2>1, <2>2, <1>1, <1>3 DEF Calls
  <2>3. CASE i # next
    BY <2>1, <2>3, <1>1, <1>3 DEF Calls
  <2>. QED
    BY <2>2, <2>3
<1>12. TriesSoFar'
  BY <1>4, <1>5, <1>11 DEF TriesSoFar, Calls
<1>13. ReportedIsSeen'
  <2>1. CASE reply.text
    BY <2>1, <1>4, <1>8 DEF ReportedIsSeen, TextFirst
  <2>2. CASE ~reply.text
    BY <2>2, <1>4, <1>5, <1>10 DEF ReportedIsSeen, ImagesSoFar, Images
  <2>. QED
    BY <2>1, <2>2
<1>14. FailedIsUnseen'
  <2>1. result' \in {"retry", "drop"} => sent' = 0 /\ ~reply.text
    BY <1>1, <1>4, <1>5
  <2>2. sent' = 0 /\ lost' = 0 => \A i \in Images : shown'[i] = 0
    <3>1. sent' = 0 /\ lost' = 0 =>
              sent = 0 /\ lost = 0 /\ outcome \in {"refused", "denied"}
      BY <1>1, <1>3, <1>4 DEF Outcome
    <3>. QED
      BY <3>1, <1>1, <1>3 DEF IInv, ImagesSoFar
  <2>3. ~reply.text => shown'[0] = 0
    BY <1>4, <1>8 DEF TextFirst
  <2>4. result' \in {"retry", "drop"} /\ lost' = 0 =>
            \A i \in Item : ~(shown'[i] > 0)
    BY <2>1, <2>2, <2>3 DEF Images
  <2>. QED
    BY <2>4 DEF FailedIsUnseen, Visible
<1>15. ImagesTriedThrough'
  <2>1. result' # "none" /\ ~denied' => next = reply.images
    BY <1>3, <1>5
  <2>2. next = reply.images =>
            \A i \in 1..reply.images : tried'[i] = Chances
    BY <1>0, <1>1, <1>11 DEF Calls, Chances
  <2>3. Chances' = Chances
    BY <1>4 DEF Chances
  <2>. QED
    BY <2>1, <2>2, <2>3, <1>4 DEF ImagesTriedThrough
<1>16. VerdictJustified'
  BY <1>3, <1>5 DEF VerdictJustified
<1>. QED
  BY <1>4, <1>6, <1>7, <1>8, <1>10, <1>12, <1>13, <1>14, <1>15, <1>16
     DEF IInv, PaidSoFar

LEMMA AgainKeeps == ASSUME IInv, SendAgain PROVE IInv'
<1>. USE ImagesAssumption
<1>1. \A i \in Item : shown'[i] = 0 /\ tried'[i] = 0
  BY DEF SendAgain, Zero
<1>2. TypeOK'
  <2>1. Zero \in [Item -> Nat] /\ NoReply \in Reply
    BY DEF Zero, NoReply, Reply
  <2>2. denied' \in BOOLEAN
    BY DEF SendAgain
  <2>3. sends' \in Nat /\ seenBefore' \in Nat /\ lostBefore' \in Nat
    BY DEF SendAgain, IInv, TypeOK, Seen
  <2>. QED
    BY <2>1, <2>2, <2>3 DEF SendAgain, TypeOK
<1>3. Control'
  BY DEF SendAgain, Control
<1>4. TextFirst' /\ ImagesSoFar' /\ TriesSoFar'
  BY <1>1 DEF SendAgain, TextFirst, ImagesSoFar, OncePerAnswer, TriesSoFar,
              Images, Item, NoReply
<1>5. PaidSoFar'
  <2>1. seenBefore \in Nat /\ lostBefore \in Nat /\ lost \in Nat
        /\ seenBefore <= lostBefore
    BY DEF IInv, TypeOK, PaidSoFar
  <2>2. lost = 0 => ~Visible
    BY DEF IInv, SendAgain, FailedIsUnseen
  <2>. QED
    BY <2>1, <2>2 DEF SendAgain, PaidSoFar, Seen
<1>6. /\ ReportedIsSeen' /\ FailedIsUnseen' /\ ImagesTriedThrough'
      /\ VerdictJustified'
  BY DEF SendAgain, ReportedIsSeen, FailedIsUnseen, ImagesTriedThrough,
         VerdictJustified
<1>. QED
  BY <1>2, <1>3, <1>4, <1>5, <1>6 DEF IInv

LEMMA StutterKeeps == ASSUME IInv, UNCHANGED vars PROVE IInv'
BY DEF IInv, vars, earlier, TypeOK, Control, TextFirst, ImagesSoFar,
       OncePerAnswer, TriesSoFar, Calls, ReportedIsSeen, FailedIsUnseen,
       Visible, ImagesTriedThrough, Chances, VerdictJustified, PaidSoFar

\* The inductive invariant: what was shown, tried and lost at every stage of a
\* send (send_facebook_text_and_images, send_facebook_images).
THEOREM Invariance == Spec => []IInv
<1>1. IInv /\ [Next]_vars => IInv'
  <2>. SUFFICES ASSUME IInv, [Next]_vars PROVE IInv'
    OBVIOUS
  <2>1. CASE Prepare
    BY <2>1, PrepareKeeps
  <2>2. CASE \E outcome \in Outcome : SendText(outcome)
    BY <2>2, TextKeeps
  <2>3. CASE \E outcome \in Outcome : SendBulk(outcome)
    BY <2>3, BulkKeeps
  <2>4. CASE \E outcome \in Outcome : SendSingle(outcome)
    BY <2>4, SingleKeeps
  <2>5. CASE SendAgain
    BY <2>5, AgainKeeps
  <2>6. CASE UNCHANGED vars
    BY <2>6, StutterKeeps
  <2>. QED
    BY <2>1, <2>2, <2>3, <2>4, <2>5, <2>6 DEF Next, Send
<1>. QED
  BY <1>1, Start, PTL DEF Spec

\* Every variable keeps its type; the image loop stays within the images.
THEOREM TypeCorrect == Spec => []TypeOK
BY Invariance, PTL DEF IInv

\* The verdict of a send tells the truth: success was seen, failure was not
\* unless an answer was lost, and a retry or a drop has its reason.
THEOREM VerdictCorrect ==
    Spec => [](ReportedIsSeen /\ FailedIsUnseen /\ VerdictJustified)
BY Invariance, PTL DEF IInv

\* The bulk message, its repetition and the calls one by one show nothing more
\* often than answers were lost.
THEOREM OncePerAnswerCorrect == Spec => []OncePerAnswer
<1>1. IInv => OncePerAnswer
  BY DEF IInv, ImagesSoFar
<1>. QED
  BY <1>1, Invariance, PTL

\* No image is given up before it has had all its chances.
THEOREM ImagesTriedThroughCorrect == Spec => []ImagesTriedThrough
BY Invariance, PTL DEF IInv

\* However often a message is sent again, each visible reply but one is paid
\* for by a lost answer.
THEOREM SeenAccountedCorrect == Spec => []SeenAccounted
<1>1. IInv => SeenAccounted
  BY DEF IInv, TypeOK, PaidSoFar, SeenAccounted, Seen
<1>. QED
  BY <1>1, Invariance, PTL

\* A denied call is the last one: neither the loop nor a later send goes on.
THEOREM DeniedIsFinalCorrect == Spec => DeniedIsFinal
<1>1. IInv /\ [Next]_vars => [denied => tried' = tried /\ sends' = sends]_vars
  <2>. SUFFICES ASSUME IInv, Next, denied
                PROVE  tried' = tried /\ sends' = sends
    BY DEF vars
  <2>1. pc = "ended" /\ result # "retry"
    BY DEF IInv, Control, VerdictJustified
  <2>. QED
    BY <2>1 DEF Next, Send, Prepare, SendText, SendBulk, SendSingle, SendAgain
<1>. QED
  BY <1>1, Invariance, PTL DEF Spec, DeniedIsFinal
=============================================================================
