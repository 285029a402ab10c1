-------------------------- MODULE ContinuationProofs --------------------------
(***************************************************************************)
(* Proofs about Continuation, for any set of clicks and any bounds.        *)
(***************************************************************************)
EXTENDS Continuation, TLAPS

\* A version of the plan is a number of edits.
CountInv == plan.version <= edits

\* What is on offer, and what a click has claimed, was offered; what was not offered has
\* not run.
NumberInv ==
    /\ slot.state = "available" => slot.id # 0
    /\ \A c \in Clicks : clicks[c].id <= slot.id
    /\ \A c \in Clicks : clicks[c].at # "idle" => clicks[c].id # 0
    /\ \A id \in Ids : id > slot.id => ran[id] = 0

\* A click whose Build may run has the turn lock.
LockInv == \A c \in Clicks : clicks[c].at \in {"holding", "running"} => lock = c

\* A click that has claimed and not started its Build.
Waits(c) == clicks[c].at \in {"claimed", "queued", "holding"}

\* What it waits for has not run, is not on offer, and is waited for by nobody else.
ClaimInv ==
    /\ \A c \in Clicks : Waits(c) =>
          /\ ran[clicks[c].id] = 0
          /\ clicks[c].id = slot.id => slot.state = "claimed" /\ slot.owner = c
    /\ \A c, d \in Clicks : Waits(c) /\ Waits(d) /\ clicks[c].id = clicks[d].id => c = d

\* The strengthening: a Build is started by a click that waits, and at most one waits
\* for each continuation; LockInv keeps edits and offers away from a running phase.
IInv == TypeOK /\ CountInv /\ NumberInv /\ LockInv /\ ClaimInv /\ RunsOnce /\ PhaseOnItsPlan

USE ContinuationAssumption

\* A click moves on and keeps its continuation; no other click moves.
LEMMA Moves ==
    ASSUME clicks \in [Clicks -> Seats], NEW c \in Clicks, NEW place \in Places, Goes(c, place)
    PROVE  /\ clicks' \in [Clicks -> Seats]
           /\ clicks'[c].at = place
           /\ \A d \in Clicks : clicks'[d].id = clicks[d].id
           /\ \A d \in Clicks : d # c => clicks'[d] = clicks[d]
BY DEF Goes, Seats

\* An offer is a new number on offer, and leaves the kinds of the older ones alone.
LEMMA Offered ==
    ASSUME TypeOK, NEW kind \in Kinds, Offer(kind)
    PROVE  /\ slot' \in Slots /\ slot'.id = slot.id + 1 /\ slot'.state = "available"
           /\ offered' \in [Ids -> Offers]
           /\ \A id \in Ids : id <= slot.id => offered'[id] = offered[id]
<1>1. slot.id \in Nat /\ slot.id + 1 \in Ids /\ plan.version \in 0..MaxEdits
  BY DEF TypeOK, Slots, Plans, Offer, Ids
<1>2. slot' = [id |-> slot.id + 1, state |-> "available", owner |-> Nobody]
  BY DEF Offer
<1>3. slot' \in Slots /\ slot'.id = slot.id + 1 /\ slot'.state = "available"
  BY <1>1, <1>2 DEF Slots, Ids
<1>4. [kind |-> kind, version |-> plan.version] \in Offers
  BY <1>1 DEF Offers
<1>5. offered' \in [Ids -> Offers] /\ \A id \in Ids : id <= slot.id => offered'[id] = offered[id]
  BY <1>1, <1>4 DEF Offer, TypeOK, Ids
<1> QED
  BY <1>3, <1>5

\* A Build that ends leaves the slot alone or puts the next number on offer.
LEMMA BuildOffers ==
    ASSUME TypeOK, BuildEnds
    PROVE  slot' = slot \/ (slot'.id = slot.id + 1 /\ slot'.id \in Ids)
<1>1. ASSUME NEW kind \in Kinds, Offer(kind)
      PROVE  slot'.id = slot.id + 1 /\ slot'.id \in Ids
  BY <1>1, Offered DEF Offer, TypeOK, Slots, Ids
<1> QED
  BY <1>1 DEF BuildEnds, Kinds

\* A newer Build, or an edit of the plan, leaves a claim alone and offers nothing.
LEMMA TakenBack ==
    ASSUME TypeOK, InvalidateAvailable \/ InvalidatePlan
    PROVE  /\ slot' \in Slots /\ slot'.id = slot.id
           /\ slot'.state = "available" \/ slot.state = "claimed" => slot' = slot
           /\ slot'.state = "claimed" => slot' = slot
BY DEF TypeOK, Slots, InvalidateAvailable, InvalidatePlan, Invalidated

\* A click ends its own claim or none.
LEMMA Ended ==
    ASSUME TypeOK, NEW c \in Clicks, ReleaseRefused(c) \/ InvalidateClaimed(c)
    PROVE  /\ slot' \in Slots /\ slot'.id = slot.id
           /\ slot'.state = "claimed" => slot' = slot
           /\ slot' # slot => Owns(c)
BY DEF TypeOK, Slots, ReleaseRefused, InvalidateClaimed, Invalidated, Owns

\* The types of the slot and of the offers.
SlotOK == slot \in Slots /\ (slot.state = "claimed" => slot.owner # Nobody)
BookOK == SlotOK /\ offered \in [Ids -> Offers]

\* Every step keeps the types.
LEMMA TypeStep ==
    ASSUME TypeOK, CountInv, NumberInv, [Next]_vars
    PROVE  TypeOK' /\ CountInv'
<1> USE DEF CountInv
<1> SUFFICES ASSUME Next
             PROVE  TypeOK' /\ CountInv'
  BY DEF TypeOK, vars
<1>1. CASE BeginBuild
  <2>1. SlotOK'
    BY <1>1, TakenBack DEF BeginBuild, TypeOK, SlotOK
  <2> QED
    BY <1>1, <2>1 DEF BeginBuild, TypeOK, SlotOK
<1>2. CASE BuildEnds
  <2>1. BookOK'
    <3>1. CASE \E kind \in (IF plan.live THEN Kinds ELSE {"free"}) : Offer(kind)
      BY <3>1, Offered DEF Kinds, BookOK, SlotOK
    <3> QED
      BY <1>2, <3>1 DEF BuildEnds, TypeOK, BookOK, SlotOK
  <2>2. plan' \in Plans /\ edits' \in 0..MaxEdits /\ plan'.version <= edits'
    <3>1. CASE ~plan.live /\ edits < MaxEdits /\ edits' = edits + 1
               /\ plan' = [version |-> plan.version + 1, live |-> TRUE]
      BY <3>1 DEF TypeOK, Plans
    <3>2. CASE plan' = [plan EXCEPT !.live = FALSE] /\ edits' = edits
      BY <3>2 DEF TypeOK, Plans
    <3> QED
      BY <1>2, <3>1, <3>2 DEF BuildEnds, TypeOK
  <2> QED
    BY <1>2, <2>1, <2>2 DEF BuildEnds, TypeOK, BookOK, SlotOK
<1>3. CASE EditWrites
  <2>1. plan' \in Plans /\ edits' \in 0..MaxEdits /\ plan'.version <= edits'
    <3>1. edits \in Nat /\ plan.version \in 0..MaxEdits /\ plan.live \in BOOLEAN
      BY DEF TypeOK, Plans
    <3>2. \/ plan' = [version |-> plan.version + 1, live |-> plan.live]
          \/ plan' = [version |-> plan.version, live |-> FALSE]
      BY <1>3 DEF EditWrites, TypeOK, Plans
    <3>3. edits' = edits + 1 /\ edits < MaxEdits /\ MaxEdits \in Nat
      BY <1>3 DEF EditWrites
    <3>4. plan.version + 1 \in 0..MaxEdits
      BY <3>1, <3>3
    <3>5. plan' \in Plans /\ plan'.version <= plan.version + 1
      <4>1. \A v \in 0..MaxEdits, l \in BOOLEAN : [version |-> v, live |-> l] \in Plans
        BY DEF Plans
      <4>2. plan' \in Plans
        BY <3>1, <3>2, <3>4, <4>1, Zenon
      <4> QED
        BY <3>1, <3>2, <4>2
    <3>6. plan'.version \in 0..MaxEdits
      BY <3>5 DEF Plans
    <3> QED
      BY <3>1, <3>3, <3>5, <3>6 DEF CountInv
  <2> QED
    BY <1>3, <2>1 DEF EditWrites, TypeOK
<1>4. CASE EditInvalidates
  <2>1. SlotOK'
    BY <1>4, TakenBack DEF EditInvalidates, TypeOK, SlotOK
  <2> QED
    BY <1>4, <2>1 DEF EditInvalidates, TypeOK, SlotOK
<1>5. ASSUME NEW c \in Clicks, Claim(c)
      PROVE  TypeOK' /\ CountInv'
  <2>1. SlotOK' /\ clicks' \in [Clicks -> Seats]
    BY <1>5 DEF Claim, TypeOK, SlotOK, Slots, Seats, Places
  <2> QED
    BY <1>5, <2>1 DEF Claim, TypeOK, SlotOK
<1>6. ASSUME NEW c \in Clicks, Refuse(c) \/ Cancel(c) \/ PlanGone(c)
      PROVE  TypeOK' /\ CountInv'
  <2>1. SlotOK' /\ clicks' \in [Clicks -> Seats]
    BY <1>6, Ended, Moves DEF Refuse, Cancel, PlanGone, TypeOK, SlotOK, Places
  <2> QED
    BY <1>6, <2>1 DEF Refuse, Cancel, PlanGone, TypeOK, SlotOK
<1>7. ASSUME NEW c \in Clicks, Queue(c) \/ Abandon(c) \/ TakeLock(c) \/ OtherApp(c)
      PROVE  TypeOK' /\ CountInv'
  <2>1. clicks' \in [Clicks -> Seats]
    BY <1>7, Moves DEF Queue, Abandon, TakeLock, OtherApp, TypeOK, Places
  <2> QED
    BY <1>7, <2>1 DEF Queue, Abandon, TakeLock, OtherApp, TypeOK
<1>8. ASSUME NEW c \in Clicks, Start(c)
      PROVE  TypeOK' /\ CountInv'
  <2>1. clicks' \in [Clicks -> Seats]
    BY <1>8, Moves DEF Start, TypeOK, Places
  <2>2. ran' \in [Ids -> Nat]
    <3> DEFINE n == clicks[c].id
    <3>1. ran \in [Ids -> Nat] /\ ran' = [ran EXCEPT ![n] = @ + 1]
      BY <1>8 DEF Start, TypeOK
    <3> HIDE DEF n
    <3>2. \A i \in Ids : ran'[i] = IF i = n THEN ran[n] + 1 ELSE ran[i]
      BY <3>1
    <3>3. \A i \in Ids : ran'[i] \in Nat
      BY <3>1, <3>2
    <3> QED
      BY <3>1, <3>3
  <2> QED
    BY <1>8, <2>1, <2>2 DEF Start, TypeOK
<1>9. ASSUME NEW c \in Clicks, Finish(c)
      PROVE  TypeOK' /\ CountInv'
  <2>1. clicks' \in [Clicks -> Seats]
    BY <1>9, Moves DEF Finish, TypeOK, Places
  <2>2. plan' \in Plans /\ plan'.version = plan.version
    BY <1>9 DEF Finish, TypeOK, Plans
  <2> QED
    BY <1>9, <2>1, <2>2 DEF Finish, TypeOK
<1>10. ASSUME NEW c \in Clicks, Fail(c)
       PROVE  TypeOK' /\ CountInv'
  <2>1. clicks' \in [Clicks -> Seats]
    BY <1>10, Moves DEF Fail, TypeOK, Places
  <2>2. BookOK'
    <3>1. CASE Offer(Kind(clicks[c].id))
      <4>1. Kind(clicks[c].id) \in Kinds
        BY <1>10 DEF Fail, NumberInv, Kind, TypeOK, Seats, Offers, Ids
      <4> QED
        BY <3>1, <4>1, Offered DEF BookOK, SlotOK
    <3> QED
      BY <1>10, <3>1 DEF Fail, TypeOK, BookOK, SlotOK
  <2> QED
    BY <1>10, <2>1, <2>2 DEF Fail, TypeOK, BookOK, SlotOK
<1> QED
  BY <1>1, <1>2, <1>3, <1>4, <1>5, <1>6, <1>7, <1>8, <1>9, <1>10 DEF Next, ClickStep

\* Every step keeps the numbers.
LEMMA NumberStep ==
    ASSUME TypeOK, NumberInv, [Next]_vars
    PROVE  NumberInv'
<1>0. slot.id \in Nat /\ \A c \in Clicks : clicks[c].id \in Nat
  BY DEF TypeOK, Slots, Seats
<1>1. CASE BeginBuild
  BY <1>0, <1>1, TakenBack DEF BeginBuild, NumberInv
<1>2. CASE BuildEnds
  <2>1. slot' = slot \/ slot'.id = slot.id + 1
    BY <1>2, BuildOffers
  <2> QED
    BY <1>0, <1>2, <2>1 DEF BuildEnds, NumberInv, Ids
<1>3. CASE EditWrites
  BY <1>3 DEF EditWrites, NumberInv
<1>4. CASE EditInvalidates
  BY <1>0, <1>4, TakenBack DEF EditInvalidates, NumberInv
<1>5. ASSUME NEW c \in Clicks, Claim(c)
      PROVE  NumberInv'
  <2>1. slot'.id = slot.id /\ slot'.state = "claimed" /\ slot.id # 0
    BY <1>5 DEF Claim, TypeOK, Slots, NumberInv
  <2>2. \A d \in Clicks : clicks'[d] = clicks[d] \/ clicks'[d].id = slot.id
    BY <1>5 DEF Claim, TypeOK
  <2> QED
    BY <1>0, <1>5, <2>1, <2>2 DEF Claim, NumberInv
<1>6. ASSUME NEW c \in Clicks, Refuse(c) \/ Cancel(c) \/ PlanGone(c)
      PROVE  NumberInv'
  <2>1. slot'.id = slot.id
    BY <1>6, Ended DEF Refuse, Cancel, PlanGone
  <2>2. slot'.state = "available" => slot.id # 0
    BY <1>6, Ended DEF Refuse, Cancel, PlanGone, Owns, NumberInv, ReleaseRefused, InvalidateClaimed
  <2>3. \A d \in Clicks : /\ clicks'[d].id = clicks[d].id
                          /\ clicks'[d].at # "idle" => clicks[d].at # "idle"
    BY <1>6, Moves DEF Refuse, Cancel, PlanGone, TypeOK, Places
  <2> QED
    BY <1>6, <2>1, <2>2, <2>3 DEF Refuse, Cancel, PlanGone, NumberInv
<1>7. ASSUME NEW c \in Clicks, Queue(c) \/ Abandon(c) \/ TakeLock(c) \/ OtherApp(c) \/ Finish(c)
      PROVE  NumberInv'
  <2>1. \A d \in Clicks : /\ clicks'[d].id = clicks[d].id
                          /\ clicks'[d].at # "idle" => clicks[d].at # "idle"
    BY <1>7, Moves DEF Queue, Abandon, TakeLock, OtherApp, Finish, TypeOK, Places
  <2> QED
    BY <1>7, <2>1 DEF Queue, Abandon, TakeLock, OtherApp, Finish, NumberInv
<1>8. ASSUME NEW c \in Clicks, Start(c)
      PROVE  NumberInv'
  <2>1. \A d \in Clicks : /\ clicks'[d].id = clicks[d].id
                          /\ clicks'[d].at # "idle" => clicks[d].at # "idle"
    BY <1>8, Moves DEF Start, TypeOK, Places
  <2>2. \A id \in Ids : id > slot.id => ran'[id] = ran[id]
    BY <1>0, <1>8 DEF Start, NumberInv, TypeOK, Ids
  <2> QED
    BY <1>8, <2>1, <2>2 DEF Start, NumberInv
<1>9. ASSUME NEW c \in Clicks, Fail(c)
      PROVE  NumberInv'
  <2>1. \A d \in Clicks : /\ clicks'[d].id = clicks[d].id
                          /\ clicks'[d].at # "idle" => clicks[d].at # "idle"
    BY <1>9, Moves DEF Fail, TypeOK, Places
  <2>2. slot' = slot \/ slot'.id = slot.id + 1
    BY <1>9 DEF Fail, Offer
  <2> QED
    BY <1>0, <1>9, <2>1, <2>2 DEF Fail, NumberInv, Ids
<1>10. CASE UNCHANGED vars
  BY <1>10 DEF vars, NumberInv
<1> QED
  BY <1>1, <1>2, <1>3, <1>4, <1>5, <1>6, <1>7, <1>8, <1>9, <1>10 DEF Next, ClickStep

\* Every step keeps the lock with the click inside.
LEMMA LockStep ==
    ASSUME TypeOK, LockInv, [Next]_vars
    PROVE  LockInv'
<1>1. CASE BeginBuild \/ BuildEnds \/ EditWrites \/ EditInvalidates
  BY <1>1 DEF BeginBuild, BuildEnds, EditWrites, EditInvalidates, LockInv
<1>2. ASSUME NEW c \in Clicks, Claim(c)
      PROVE  LockInv'
  <2>1. clicks'[c].at = "claimed" /\ \A d \in Clicks : d # c => clicks'[d] = clicks[d]
    BY <1>2 DEF Claim, TypeOK
  <2> QED
    BY <1>2, <2>1 DEF Claim, LockInv
<1>3. ASSUME NEW c \in Clicks, Refuse(c) \/ Cancel(c) \/ Queue(c) \/ Abandon(c)
      PROVE  LockInv'
  <2>1. clicks'[c].at \in {"queued", "done"} /\ \A d \in Clicks : d # c => clicks'[d] = clicks[d]
    BY <1>3, Moves DEF Refuse, Cancel, Queue, Abandon, TypeOK, Places
  <2> QED
    BY <1>3, <2>1 DEF Refuse, Cancel, Queue, Abandon, LockInv
<1>4. ASSUME NEW c \in Clicks, TakeLock(c) \/ Start(c)
      PROVE  LockInv'
  <2>1. \A d \in Clicks : d # c => clicks'[d] = clicks[d]
    BY <1>4, Moves DEF TakeLock, Start, TypeOK, Places
  <2> QED
    BY <1>4, <2>1 DEF TakeLock, Start, LockInv
<1>5. ASSUME NEW c \in Clicks, OtherApp(c) \/ PlanGone(c) \/ Finish(c) \/ Fail(c)
      PROVE  LockInv'
  <2>1. clicks'[c].at = "done" /\ \A d \in Clicks : d # c => clicks'[d] = clicks[d]
    BY <1>5, Moves DEF OtherApp, PlanGone, Finish, Fail, TypeOK, Places
  <2> QED
    BY <1>5, <2>1 DEF OtherApp, PlanGone, Finish, Fail, LockInv
<1>6. CASE UNCHANGED vars
  BY <1>6 DEF vars, LockInv
<1> QED
  BY <1>1, <1>2, <1>3, <1>4, <1>5, <1>6 DEF Next, ClickStep

\* What a waiting click waits for stays its own, if waiting clicks only become fewer and a
\* claim is not taken from its owner.
LEMMA ClaimKept ==
    ASSUME TypeOK, NumberInv, ClaimInv, ran' = ran,
           \A d \in Clicks : /\ clicks'[d].id = clicks[d].id
                             /\ Waits(d)' => Waits(d),
           \/ slot' = slot
           \/ slot'.id = slot.id + 1
           \/ slot'.id = slot.id /\ slot.state # "claimed"
           \/ slot'.id = slot.id /\ \E c \in Clicks : Owns(c) /\ ~Waits(c)'
    PROVE  ClaimInv'
<1>1. slot.id \in Nat /\ \A d \in Clicks : clicks[d].id \in Nat /\ clicks[d].id <= slot.id
  BY DEF TypeOK, Slots, Seats, NumberInv
<1>2. ASSUME NEW d \in Clicks, Waits(d)'
      PROVE  /\ ran[clicks[d].id] = 0
             /\ clicks[d].id = slot'.id => slot'.state = "claimed" /\ slot'.owner = d
  <2>1. Waits(d) /\ ran[clicks[d].id] = 0
    BY <1>2 DEF ClaimInv
  <2>2. CASE clicks[d].id = slot'.id
    <3>1. slot'.id = slot.id
      BY <1>1, <2>2
    <3>2. slot.state = "claimed" /\ slot.owner = d
      BY <2>1, <2>2, <3>1 DEF ClaimInv
    <3> QED
      BY <1>1, <1>2, <2>1, <2>2, <3>1, <3>2 DEF Owns
  <2> QED
    BY <2>1, <2>2
<1>3. ASSUME NEW c \in Clicks, NEW d \in Clicks, Waits(c)', Waits(d)', clicks[c].id = clicks[d].id
      PROVE  c = d
  BY <1>3 DEF ClaimInv
<1> QED
  BY <1>2, <1>3 DEF ClaimInv

\* Every step keeps what waiting clicks wait for.
LEMMA ClaimStep ==
    ASSUME TypeOK, NumberInv, LockInv, ClaimInv, RunsOnce, [Next]_vars
    PROVE  ClaimInv'
<1>0. slot.id \in Nat /\ \A d \in Clicks : clicks[d].id \in Nat
  BY DEF TypeOK, Slots, Seats
<1>1. CASE BeginBuild \/ EditWrites \/ EditInvalidates
  <2>1. slot' = slot \/ (slot'.id = slot.id /\ slot.state # "claimed")
    BY <1>1, TakenBack DEF BeginBuild, EditWrites, EditInvalidates
  <2> QED
    BY <1>1, <2>1, ClaimKept DEF BeginBuild, EditWrites, EditInvalidates, Waits
<1>2. CASE BuildEnds
  <2>1. slot' = slot \/ slot'.id = slot.id + 1
    BY <1>2, BuildOffers
  <2> QED
    BY <1>2, <2>1, ClaimKept DEF BuildEnds, Waits
<1>3. ASSUME NEW c \in Clicks, Claim(c)
      PROVE  ClaimInv'
  <2>1. clicks'[c].id = slot.id /\ \A d \in Clicks : d # c => clicks'[d] = clicks[d]
    BY <1>3 DEF Claim, TypeOK
  <2>2. slot.state = "available" /\ slot'.state = "claimed" /\ slot'.owner = c /\ slot'.id = slot.id
    BY <1>3 DEF Claim, TypeOK, Slots
  <2>3. ran[slot.id] = 0
    BY <2>2 DEF RunsOnce
  <2>4. \A d \in Clicks : d # c /\ Waits(d)' => Waits(d) /\ clicks[d].id # slot.id
    BY <2>1, <2>2 DEF ClaimInv, Waits
  <2> QED
    BY <1>3, <2>1, <2>2, <2>3, <2>4 DEF Claim, ClaimInv
<1>4. ASSUME NEW c \in Clicks, Refuse(c) \/ Cancel(c) \/ PlanGone(c)
      PROVE  ClaimInv'
  <2>1. \A d \in Clicks : clicks'[d].id = clicks[d].id /\ (Waits(d)' => Waits(d))
    BY <1>4, Moves DEF Refuse, Cancel, PlanGone, TypeOK, Places, Waits
  <2>2. ~Waits(c)'
    BY <1>4, Moves DEF Refuse, Cancel, PlanGone, TypeOK, Places, Waits
  <2>3. slot'.id = slot.id /\ (slot' # slot => Owns(c))
    BY <1>4, Ended DEF Refuse, Cancel, PlanGone
  <2> QED
    BY <1>4, <2>1, <2>2, <2>3, ClaimKept DEF Refuse, Cancel, PlanGone
<1>5. ASSUME NEW c \in Clicks, Queue(c) \/ Abandon(c) \/ TakeLock(c) \/ OtherApp(c) \/ Finish(c)
      PROVE  ClaimInv'
  <2>1. \A d \in Clicks : clicks'[d].id = clicks[d].id /\ (Waits(d)' => Waits(d))
    BY <1>5, Moves DEF Queue, Abandon, TakeLock, OtherApp, Finish, TypeOK, Places, Waits
  <2> QED
    BY <1>5, <2>1, ClaimKept DEF Queue, Abandon, TakeLock, OtherApp, Finish
<1>6. ASSUME NEW c \in Clicks, Start(c)
      PROVE  ClaimInv'
  <2>1. \A d \in Clicks : clicks'[d].id = clicks[d].id /\ (Waits(d)' => Waits(d) /\ d # c)
    BY <1>6, Moves DEF Start, TypeOK, Places, Waits
  <2>2. Waits(c)
    BY <1>6 DEF Start, Waits
  <2>3. \A d \in Clicks : Waits(d)' => clicks[d].id # clicks[c].id
    BY <2>1, <2>2 DEF ClaimInv
  <2>4. \A d \in Clicks : Waits(d)' => ran'[clicks[d].id] = ran[clicks[d].id]
    BY <1>6, <2>3, <2>1 DEF Start, TypeOK, Seats
  <2> QED
    BY <1>6, <2>1, <2>3, <2>4 DEF Start, ClaimInv
<1>7. ASSUME NEW c \in Clicks, Fail(c)
      PROVE  ClaimInv'
  <2>1. \A d \in Clicks : clicks'[d].id = clicks[d].id /\ (Waits(d)' => Waits(d))
    BY <1>7, Moves DEF Fail, TypeOK, Places, Waits
  <2>2. slot' = slot \/ slot'.id = slot.id + 1
    BY <1>7 DEF Fail, Offer
  <2> QED
    BY <1>7, <2>1, <2>2, ClaimKept DEF Fail
<1>8. CASE UNCHANGED vars
  BY <1>8 DEF vars, ClaimInv, Waits
<1> QED
  BY <1>1, <1>2, <1>3, <1>4, <1>5, <1>6, <1>7, <1>8 DEF Next, ClickStep

\* Every step runs at most what has not run.
LEMMA RunStep ==
    ASSUME TypeOK, NumberInv, ClaimInv, RunsOnce, [Next]_vars
    PROVE  RunsOnce'
<1>0. slot.id \in 0..MaxOffers /\ ran \in [Ids -> Nat]
  BY DEF TypeOK, Slots
<1>1. CASE BeginBuild \/ EditWrites \/ EditInvalidates
  <2>1. slot'.state = "available" => slot' = slot
    BY <1>1, TakenBack DEF BeginBuild, EditWrites, EditInvalidates
  <2> QED
    BY <1>1, <2>1 DEF BeginBuild, EditWrites, EditInvalidates, RunsOnce
<1>2. CASE BuildEnds
  <2>1. slot' = slot \/ (slot'.id = slot.id + 1 /\ slot'.id \in Ids)
    BY <1>2, BuildOffers
  <2> QED
    BY <1>0, <1>2, <2>1 DEF BuildEnds, NumberInv, RunsOnce
<1>3. ASSUME NEW c \in Clicks, Claim(c)
      PROVE  RunsOnce'
  <2>1. slot'.state = "claimed"
    BY <1>3 DEF Claim, TypeOK, Slots
  <2> QED
    BY <1>3, <2>1 DEF Claim, RunsOnce
<1>4. ASSUME NEW c \in Clicks, Refuse(c) \/ Cancel(c) \/ PlanGone(c)
      PROVE  RunsOnce'
  <2>1. slot'.id = slot.id /\ (slot' # slot => Owns(c))
    BY <1>4, Ended DEF Refuse, Cancel, PlanGone
  <2>2. PlanGone(c) => slot' = slot \/ slot'.state = "invalidated"
    BY DEF PlanGone, InvalidateClaimed, Invalidated, TypeOK, Slots
  <2>3. ran[clicks[c].id] = 0
    BY <1>4 DEF Refuse, Cancel, PlanGone, ClaimInv, Waits
  <2> QED
    BY <1>4, <2>1, <2>2, <2>3 DEF Refuse, Cancel, PlanGone, Owns, RunsOnce
<1>5. ASSUME NEW c \in Clicks, Queue(c) \/ Abandon(c) \/ TakeLock(c) \/ OtherApp(c) \/ Finish(c)
      PROVE  RunsOnce'
  BY <1>5 DEF Queue, Abandon, TakeLock, OtherApp, Finish, RunsOnce
<1>6. ASSUME NEW c \in Clicks, Start(c)
      PROVE  RunsOnce'
  <2>1. ran[clicks[c].id] = 0 /\ (slot.state = "available" => clicks[c].id # slot.id)
    BY <1>6 DEF Start, ClaimInv, Waits
  <2>2. \A id \in Ids : ran'[id] = ran[id] \/ (id = clicks[c].id /\ ran'[id] = 1)
    BY <1>0, <1>6, <2>1 DEF Start
  <2>3. slot.state = "available" => ran'[slot.id] = ran[slot.id]
    BY <1>0, <1>6, <2>1 DEF Start
  <2> QED
    BY <1>6, <2>2, <2>3 DEF Start, RunsOnce
<1>7. ASSUME NEW c \in Clicks, Fail(c)
      PROVE  RunsOnce'
  <2>1. slot' = slot \/ (slot'.id = slot.id + 1 /\ slot'.id \in Ids)
    BY <1>0, <1>7 DEF Fail, Offer, Ids
  <2> QED
    BY <1>0, <1>7, <2>1 DEF Fail, NumberInv, RunsOnce
<1>8. CASE UNCHANGED vars
  BY <1>8 DEF vars, RunsOnce
<1> QED
  BY <1>1, <1>2, <1>3, <1>4, <1>5, <1>6, <1>7, <1>8 DEF Next, ClickStep

\* Every step keeps a running phase on its plan: whoever changes the plan has the lock.
LEMMA PhaseStep ==
    ASSUME TypeOK, NumberInv, LockInv, PhaseOnItsPlan, [Next]_vars
    PROVE  PhaseOnItsPlan'
<1>0. slot.id \in Nat /\ \A d \in Clicks : clicks[d].id \in 0..MaxOffers
  BY DEF TypeOK, Slots, Seats
<1>1. CASE BeginBuild \/ EditInvalidates
  BY <1>1 DEF BeginBuild, EditInvalidates, PhaseOnItsPlan, Kind, Current
<1>2. CASE BuildEnds \/ EditWrites
  <2>1. \A c \in Clicks : clicks[c].at # "running"
    BY <1>2 DEF BuildEnds, EditWrites, LockInv
  <2> QED
    BY <1>2, <2>1 DEF BuildEnds, EditWrites, PhaseOnItsPlan
<1>3. ASSUME NEW c \in Clicks, Claim(c)
      PROVE  PhaseOnItsPlan'
  <2>1. clicks'[c].at = "claimed" /\ \A d \in Clicks : d # c => clicks'[d] = clicks[d]
    BY <1>3 DEF Claim, TypeOK
  <2> QED
    BY <1>3, <2>1 DEF Claim, PhaseOnItsPlan, Kind, Current
<1>4. ASSUME NEW c \in Clicks,
             \/ Refuse(c) \/ Cancel(c) \/ Queue(c) \/ Abandon(c) \/ TakeLock(c) \/ OtherApp(c)
             \/ PlanGone(c)
      PROVE  PhaseOnItsPlan'
  <2>1. /\ clicks'[c].at # "running"
        /\ \A d \in Clicks : d # c => clicks'[d] = clicks[d]
    BY <1>4, Moves DEF Refuse, Cancel, Queue, Abandon, TakeLock, OtherApp, PlanGone, TypeOK, Places
  <2>2. plan' = plan /\ offered' = offered
    BY <1>4 DEF Refuse, Cancel, Queue, Abandon, TakeLock, OtherApp, PlanGone
  <2> QED
    BY <2>1, <2>2 DEF PhaseOnItsPlan, Kind, Current
<1>5. ASSUME NEW c \in Clicks, Start(c)
      PROVE  PhaseOnItsPlan'
  <2>1. \A d \in Clicks : /\ clicks'[d].id = clicks[d].id
                          /\ d # c => clicks'[d] = clicks[d]
    BY <1>5, Moves DEF Start, TypeOK, Places
  <2> QED
    BY <1>5, <2>1 DEF Start, PhaseOnItsPlan, Kind, Current
<1>6. ASSUME NEW c \in Clicks, Finish(c) \/ Fail(c)
      PROVE  PhaseOnItsPlan'
  <2>1. clicks'[c].at # "running" /\ \A d \in Clicks : d # c => clicks'[d] = clicks[d]
    BY <1>6, Moves DEF Finish, Fail, TypeOK, Places
  <2>2. \A d \in Clicks : d # c => clicks[d].at # "running"
    BY <1>6 DEF Finish, Fail, LockInv
  <2> QED
    BY <2>1, <2>2 DEF PhaseOnItsPlan
<1>7. CASE UNCHANGED vars
  BY <1>7 DEF vars, PhaseOnItsPlan, Kind, Current
<1> QED
  BY <1>1, <1>2, <1>3, <1>4, <1>5, <1>6, <1>7 DEF Next, ClickStep

\* Only the owner of a claim ends it.
LEMMA OwnerStep ==
    ASSUME TypeOK, Next, slot.state = "claimed", slot'.id = slot.id, slot' # slot
    PROVE  clicks'[slot.owner] # clicks[slot.owner]
<1>0. slot.id \in Nat
  BY DEF TypeOK, Slots
<1>1. ~BeginBuild /\ ~EditInvalidates
  BY TakenBack DEF BeginBuild, EditInvalidates
<1>2. ~BuildEnds
  BY <1>0, BuildOffers
<1>3. ASSUME NEW c \in Clicks, Refuse(c) \/ Cancel(c) \/ PlanGone(c)
      PROVE  clicks'[slot.owner] # clicks[slot.owner]
  <2>1. slot.owner = c
    BY <1>3, Ended DEF Refuse, Cancel, PlanGone, Owns
  <2>2. clicks'[c].at # clicks[c].at
    BY <1>3, Moves DEF Refuse, Cancel, PlanGone, TypeOK, Places
  <2> QED
    BY <2>1, <2>2
<1>4. ASSUME NEW c \in Clicks, Fail(c) \/ Claim(c)
      PROVE  FALSE
  BY <1>0, <1>4 DEF Fail, Offer, Claim
<1>5. ASSUME NEW c \in Clicks,
             \/ Queue(c) \/ Abandon(c) \/ TakeLock(c) \/ Start(c) \/ OtherApp(c) \/ Finish(c)
      PROVE  FALSE
  BY <1>5 DEF Queue, Abandon, TakeLock, Start, OtherApp, Finish
<1>6. ~EditWrites
  BY DEF EditWrites
<1> QED
  BY <1>1, <1>2, <1>3, <1>4, <1>5, <1>6 DEF Next, ClickStep

\* The strengthening holds in every state.
THEOREM InvariantHolds == Spec => []IInv
<1>1. Init => IInv
  <2> SUFFICES ASSUME Init
               PROVE  IInv
    OBVIOUS
  <2>1. TypeOK
    BY DEF Init, Empty, Idle, TypeOK, Slots, Offers, Plans, Seats, Places, Kinds, Ids
  <2> QED
    BY <2>1 DEF Init, Empty, Idle, IInv, Ids, CountInv, NumberInv, LockInv, ClaimInv, Waits,
                RunsOnce, PhaseOnItsPlan
<1>2. IInv /\ [Next]_vars => IInv'
  BY TypeStep, NumberStep, LockStep, ClaimStep, RunStep, PhaseStep DEF IInv
<1> QED
  BY <1>1, <1>2, PTL DEF Spec

\* Every variable keeps its type; an approved plan has no more versions than there were
\* edits, and a claimed continuation has an owner.
THEOREM TypeCorrect == Spec => []TypeOK
<1>1. IInv => TypeOK
  BY DEF IInv
<1> QED
  BY <1>1, InvariantHolds, PTL

\* However many clicks claim, hand back and claim again, a continuation is one Build.
THEOREM OneBuildEach == Spec => []RunsOnce
<1>1. IInv => RunsOnce
  BY DEF IInv
<1> QED
  BY <1>1, InvariantHolds, PTL

\* A phase is continued on the plan version it was offered for, however the plan was
\* edited while its click waited.
THEOREM PhaseKeepsItsPlan == Spec => []PhaseOnItsPlan
<1>1. IInv => PhaseOnItsPlan
  BY DEF IInv
<1> QED
  BY <1>1, InvariantHolds, PTL

\* A claim is ended by the click that made it, and by nobody else.
THEOREM ClaimIsItsOwners == Spec => OwnerEnds
<1>1. IInv /\ [Next]_vars =>
        [slot.state = "claimed" /\ slot'.id = slot.id /\ slot' # slot =>
            clicks'[slot.owner] # clicks[slot.owner]]_vars
  BY OwnerStep DEF IInv
<1> QED
  BY <1>1, InvariantHolds, PTL DEF Spec, OwnerEnds

\* A phased run that finishes archives its plan, whatever was clicked, built and edited
\* before it got the lock (continue_build_stream).
THEOREM PhasesEndTheirPlan == Spec => PhasesConsumeTheirPlan
<1>1. PhaseOnItsPlan => \A c \in Clicks : Finish(c) /\ Kind(clicks[c].id) = "phase" => ~plan'.live
  BY DEF PhaseOnItsPlan, Finish
<1> QED
  BY <1>1, PhaseKeepsItsPlan, PTL DEF PhasesConsumeTheirPlan
=============================================================================
