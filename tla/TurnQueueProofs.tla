-------------------------- MODULE TurnQueueProofs ---------------------------
(***************************************************************************)
(* Proofs about TurnQueue, for any number of turns, doors and edits.       *)
(***************************************************************************)
EXTENDS TurnQueue, SequenceTheorems, TLAPS

LEMMA AppendFacts ==
    ASSUME NEW S, NEW s \in Seq(S), NEW e \in S
    PROVE  /\ Append(s, e) \in Seq(S)
           /\ ToSet(Append(s, e)) = ToSet(s) \cup {e}
           /\ Distinct(s) /\ e \notin ToSet(s) => Distinct(Append(s, e))
<1>1. /\ Append(s, e) \in Seq(S)
      /\ Len(Append(s, e)) = Len(s) + 1
      /\ \A i \in 1..Len(s) : Append(s, e)[i] = s[i]
      /\ Append(s, e)[Len(s) + 1] = e
      /\ Len(s) \in Nat
  OBVIOUS
<1>2. DOMAIN s = 1..Len(s) /\ DOMAIN Append(s, e) = 1..Len(s) + 1
  BY <1>1
<1>3. ToSet(Append(s, e)) = ToSet(s) \cup {e}
  BY <1>1, <1>2 DEF ToSet
<1>4. Distinct(s) /\ e \notin ToSet(s) => Distinct(Append(s, e))
  BY <1>1, <1>2 DEF ToSet, Distinct
<1> QED BY <1>1, <1>3, <1>4

LEMMA TailFacts ==
    ASSUME NEW S, NEW s \in Seq(S), s # <<>>, Distinct(s)
    PROVE  /\ Head(s) \in ToSet(s)
           /\ Tail(s) \in Seq(S)
           /\ Distinct(Tail(s))
           /\ ToSet(Tail(s)) = ToSet(s) \ {Head(s)}
<1>1. /\ Len(s) \in Nat \ {0}
      /\ Head(s) = s[1]
      /\ Tail(s) \in Seq(S)
      /\ Len(Tail(s)) = Len(s) - 1
      /\ \A i \in 1..Len(s) - 1 : Tail(s)[i] = s[i + 1]
  BY EmptySeq, HeadTailProperties
<1>2. DOMAIN s = 1..Len(s) /\ DOMAIN Tail(s) = 1..Len(s) - 1
  BY <1>1, LenProperties
<1>3. Head(s) \in ToSet(s)
  BY <1>1, <1>2 DEF ToSet
<1>4. Distinct(Tail(s))
  BY <1>1, <1>2 DEF Distinct
<1>5. ToSet(Tail(s)) \subseteq ToSet(s) \ {Head(s)}
  BY <1>1, <1>2 DEF ToSet, Distinct
<1>6. ASSUME NEW x \in ToSet(s) \ {Head(s)}
      PROVE  x \in ToSet(Tail(s))
  <2>1. PICK i \in 1..Len(s) : s[i] = x
    BY <1>2 DEF ToSet
  <2>2. i - 1 \in 1..Len(s) - 1 /\ Tail(s)[i - 1] = x
    BY <1>1, <2>1
  <2> QED BY <1>2, <2>2 DEF ToSet
<1> QED BY <1>1, <1>3, <1>4, <1>5, <1>6

LEMMA RemoveFacts ==
    ASSUME NEW S, NEW s \in Seq(S), NEW e \in ToSet(s), Distinct(s)
    PROVE  /\ RemoveFirst(s, e) \in Seq(S)
           /\ Distinct(RemoveFirst(s, e))
           /\ ToSet(RemoveFirst(s, e)) = ToSet(s) \ {e}
           /\ \E i \in 1..Len(s) :
                 /\ Len(RemoveFirst(s, e)) = Len(s) - 1
                 /\ \A j \in 1..Len(s) - 1 :
                       RemoveFirst(s, e)[j] = IF j < i THEN s[j] ELSE s[j + 1]
<1>1. PICK i \in 1..Len(s) : s[i] = e
  BY DEF ToSet
<1>2. RemoveFirst(s, e) = RemoveAt(s, i)
  <2>1. {j \in 1..Len(s) : s[j] = e} = {i}
    BY <1>1 DEF Distinct
  <2>2. SelectInSeq(s, LAMBDA v : v = e) = i
    BY <2>1 DEF SelectInSeq, Min
  <2> QED BY <1>1, <2>2 DEF RemoveFirst
<1>3. /\ RemoveAt(s, i) \in Seq(S)
      /\ Len(RemoveAt(s, i)) = Len(s) - 1
      /\ \A j \in 1..Len(s) - 1 :
            RemoveAt(s, i)[j] = IF j < i THEN s[j] ELSE s[j + 1]
  <2> DEFINE l == SubSeq(s, 1, i - 1)
             r == SubSeq(s, i + 1, Len(s))
  <2>1. /\ l \in Seq(S)
        /\ Len(l) = i - 1
        /\ \A j \in 1..i - 1 : l[j] = s[j]
    BY <1>1
  <2>2. /\ r \in Seq(S)
        /\ Len(r) = Len(s) - i
        /\ \A j \in 1..Len(s) - i : r[j] = s[i + j]
    BY <1>1
  <2>3. RemoveAt(s, i) = l \o r
    BY DEF RemoveAt
  <2> HIDE DEF l, r
  <2>4. /\ l \o r \in Seq(S)
        /\ Len(l \o r) = Len(l) + Len(r)
        /\ \A j \in 1..Len(l) + Len(r) :
              (l \o r)[j] = IF j <= Len(l) THEN l[j] ELSE r[j - Len(l)]
    BY <2>1, <2>2, ConcatProperties
  <2>5. ASSUME NEW j \in 1..Len(s) - 1
        PROVE  (l \o r)[j] = IF j < i THEN s[j] ELSE s[j + 1]
    <3>1. i \in Nat /\ Len(s) \in Nat /\ i <= Len(s) /\ i >= 1
      BY <1>1
    <3>2. CASE j < i
      BY <2>1, <2>2, <2>4, <3>1, <3>2
    <3>3. CASE ~(j < i)
      <4>1. j - Len(l) \in 1..Len(s) - i /\ i + (j - Len(l)) = j + 1
        BY <2>1, <3>1, <3>3
      <4>2. (l \o r)[j] = r[j - Len(l)]
        BY <2>1, <2>2, <2>4, <3>1, <3>3
      <4> QED BY <2>2, <3>3, <4>1, <4>2
    <3> QED BY <3>2, <3>3
  <2> QED BY <1>1, <2>1, <2>2, <2>3, <2>4, <2>5
<1>4. DOMAIN s = 1..Len(s) /\ DOMAIN RemoveAt(s, i) = 1..Len(s) - 1
  BY <1>3, LenProperties
<1>5. Distinct(RemoveAt(s, i))
  BY <1>1, <1>3, SMTT(30) DEF Distinct
<1>6. ToSet(RemoveAt(s, i)) \subseteq ToSet(s) \ {e}
  BY <1>1, <1>3, <1>4 DEF ToSet, Distinct
<1>7. ASSUME NEW x \in ToSet(s) \ {e}
      PROVE  x \in ToSet(RemoveAt(s, i))
  <2>1. PICK j \in 1..Len(s) : s[j] = x
    BY <1>4 DEF ToSet
  <2>2. CASE j < i
    BY <1>1, <1>3, <1>4, <2>1, <2>2 DEF ToSet
  <2>3. CASE j > i
    <3>1. j - 1 \in 1..Len(s) - 1 /\ RemoveAt(s, i)[j - 1] = x
      BY <1>3, <2>1, <2>3
    <3> QED BY <1>4, <3>1 DEF ToSet
  <2> QED BY <1>1, <2>1, <2>2, <2>3
<1> QED
  BY <1>2, <1>3, <1>5, <1>6, <1>7
-----------------------------------------------------------------------------
(***************************************************************************)
(* The effect of the queue operators on the deque seen as a set.           *)
(***************************************************************************)
USE ActorsAssumption

\* t leaves the front of w with the lock, or the queue is left as it was.
Served(w, out) ==
    \E h \in ToSet(w) :
        /\ waiting' \in Seq(Turns)
        /\ Distinct(waiting')
        /\ ToSet(waiting') = ToSet(w) \ {h}
        /\ lock' = h
        /\ running' = h
        /\ outcome' = [out EXCEPT ![h] = "ready"]
        /\ generation' = generation + 1

LEMMA TakeEffect ==
    ASSUME NEW w \in Seq(Turns), Distinct(w), NEW out, NEW t,
           w # <<>>, Head(w) = t, Take(t, w, out)
    PROVE  Served(w, out)
  BY TailFacts DEF Take, Served

LEMMA PromoteEffect ==
    ASSUME NEW w \in Seq(Turns), Distinct(w), NEW l, NEW r, NEW out,
           PromoteHead(w, l, r, out)
    PROVE  \/ l = Free /\ Served(w, out)
           \/ LeaveAs(w, l, r, out)
  BY TakeEffect DEF PromoteHead


LEMMA InitType == Init => TypeOK
<1> SUFFICES ASSUME Init PROVE TypeOK
  OBVIOUS
<1>1. waiting \in Seq(Turns)
  BY DEF Init
<1>2. pc \in [Actors -> TurnPcs \cup DoorPcs]
  BY DEF Init, TurnPcs, DoorPcs
<1>3. (\A t \in Turns : pc[t] \in TurnPcs) /\ (\A d \in Doors : pc[d] \in DoorPcs)
  BY DEF Init, TurnPcs, DoorPcs, Actors
<1>4. outcome \in [Actors -> Outcomes]
  BY DEF Init, Outcomes
<1> QED BY <1>1, <1>2, <1>3, <1>4 DEF Init, TypeOK

\* What TypeOK says of the queue, and of the places of the threads.
QueueOK ==
    /\ lock \in Actors \cup {Free}
    /\ waiting \in Seq(Turns)
    /\ running \in Actors \cup {Free}
    /\ generation \in Nat
    /\ outcome \in [Actors -> Outcomes]

Places == {p \in [Actors -> TurnPcs \cup DoorPcs] :
              /\ \A t \in Turns : p[t] \in TurnPcs
              /\ \A d \in Doors : p[d] \in DoorPcs}

\* A thread that goes on stays among the places of its kind.
LEMMA TurnGoes ==
    ASSUME NEW p \in Places, NEW t \in Turns, NEW label \in TurnPcs
    PROVE  [p EXCEPT ![t] = label] \in Places
  BY DEF Places, Actors

LEMMA DoorGoes ==
    ASSUME NEW p \in Places, NEW d \in Doors, NEW label \in DoorPcs
    PROVE  [p EXCEPT ![d] = label] \in Places
  BY DEF Places, Actors

LEMMA TakeType ==
    ASSUME TypeOK, NEW w \in Seq(Turns), w # <<>>, NEW out \in [Actors -> Outcomes],
           NEW t \in Turns, Take(t, w, out)
    PROVE  QueueOK'
<1>1. Tail(w) \in Seq(Turns)
  BY HeadTailProperties, EmptySeq
<1>2. [out EXCEPT ![t] = "ready"] \in [Actors -> Outcomes]
  BY DEF Outcomes, Actors
<1> QED BY <1>1, <1>2 DEF Take, QueueOK, TypeOK, Actors

LEMMA LeaveType ==
    ASSUME TypeOK, NEW w \in Seq(Turns), NEW l \in Actors \cup {Free},
           NEW r \in Actors \cup {Free}, NEW out \in [Actors -> Outcomes],
           LeaveAs(w, l, r, out)
    PROVE  QueueOK'
  BY DEF LeaveAs, QueueOK, TypeOK

LEMMA PromoteType ==
    ASSUME TypeOK, NEW w \in Seq(Turns), NEW l \in Actors \cup {Free},
           NEW r \in Actors \cup {Free}, NEW out \in [Actors -> Outcomes],
           PromoteHead(w, l, r, out)
    PROVE  QueueOK'
<1>1. CASE w # <<>> /\ Take(Head(w), w, out)
  <2>1. Head(w) \in Turns
    BY <1>1, HeadTailProperties, EmptySeq
  <2> QED BY <1>1, <2>1, TakeType
<1>2. CASE LeaveAs(w, l, r, out)
  BY <1>2, LeaveType
<1> QED BY <1>1, <1>2 DEF PromoteHead

LEMMA HandBackType ==
    ASSUME TypeOK, NEW out \in [Actors -> Outcomes], NEW pcs \in Places,
           HandBack(out, pcs)
    PROVE  QueueOK' /\ pc' \in Places
<1> USE DEF TypeOK
<1>1. CASE PromoteHead(waiting, Free, Free, out) /\ pc' = pcs
  BY <1>1, PromoteType
<1>2. CASE \E d \in Doors : /\ LeaveAs(waiting, d, Free, out)
                            /\ pc' = [pcs EXCEPT ![d] = "entered"]
  <2>1. PICK d \in Doors : /\ LeaveAs(waiting, d, Free, out)
                           /\ pc' = [pcs EXCEPT ![d] = "entered"]
    BY <1>2
  <2>2. pc' \in Places
    BY <2>1, DoorGoes DEF DoorPcs
  <2> QED BY <2>1, <2>2, LeaveType DEF Actors
<1> QED BY <1>1, <1>2 DEF HandBack

\* TypeOK from its parts, and back.
TicketsOK ==
    /\ lastSequence \in Nat
    /\ sequence \in [Actors -> Nat]
    /\ queued \in [Actors -> BOOLEAN]
    /\ claimed \in [Actors -> BOOLEAN]
    /\ granted \in [Actors -> BOOLEAN]
    /\ snapshot \in [Actors -> Nat]
    /\ turnGeneration \in [Actors -> Nat]
    /\ context \in Nat
    /\ wedged \in BOOLEAN

LEMMA TypeParts ==
    TypeOK <=> QueueOK /\ TicketsOK /\ pc \in Places
  BY DEF TypeOK, QueueOK, TicketsOK, Places

LEMMA TypePartsNext ==
    TypeOK' <=> QueueOK' /\ TicketsOK' /\ pc' \in Places
  BY DEF TypeOK, QueueOK, TicketsOK, Places

\* Removing a waiting ticket keeps a deque of tickets.
LEMMA CancelType ==
    ASSUME TypeOK, LineInv, NEW t \in Turns, Waits(t)
    PROVE  /\ RemoveFirst(waiting, t) \in Seq(Turns)
           /\ Cancelled(t) \in [Actors -> Outcomes]
<1>1. RemoveFirst(waiting, t) \in Seq(Turns)
  BY RemoveFacts DEF TypeOK, LineInv, Waits
<1>2. Cancelled(t) \in [Actors -> Outcomes]
  BY DEF TypeOK, Cancelled, Outcomes, Actors
<1> QED BY <1>1, <1>2

\* Every step of the specification preserves the types.
LEMMA TypeStep == TypeOK /\ LineInv /\ [Next]_vars => TypeOK'
<1> SUFFICES ASSUME TypeOK, LineInv, [Next]_vars PROVE TypeOK'
  OBVIOUS
<1> USE TypeParts, TypePartsNext
<1>a. /\ waiting \in Seq(Turns) /\ outcome \in [Actors -> Outcomes]
      /\ lock \in Actors \cup {Free} /\ running \in Actors \cup {Free}
  BY DEF TypeOK
<1>1. ASSUME NEW t \in Turns, TurnStep(t) PROVE TypeOK'
  <2>a. t \in Actors
    BY DEF Actors
  <2>1. CASE Ask(t)
    BY <2>1, TurnGoes DEF Ask, Goto, QueueOK, TicketsOK, queueVars, ticketVars, TurnPcs
  <2>2. CASE Admit(t)
    <3>1. Append(waiting, t) \in Seq(Turns) /\ Append(waiting, t) # <<>>
      <4> DEFINE w == Append(waiting, t)
      <4>1. Len(w) = Len(waiting) + 1 /\ Len(waiting) \in Nat /\ w \in Seq(Turns)
        BY <1>a
      <4> HIDE DEF w
      <4>2. w # <<>>
        BY <4>1
      <4> QED BY <4>1, <4>2 DEF w
    <3>2. TicketsOK'
      <4>1. UNCHANGED queued \/ queued' = [queued EXCEPT ![t] = TRUE]
        BY <2>2 DEF Admit
      <4>2. queued' \in [Actors -> BOOLEAN]
        BY <2>a, <4>1 DEF TicketsOK
      <4>3. /\ NumberTicket(t)
            /\ UNCHANGED <<claimed, granted, snapshot, turnGeneration, context, wedged>>
        BY <2>2 DEF Admit
      <4> QED BY <2>a, <4>2, <4>3 DEF NumberTicket, TicketsOK
    <3>3. QueueOK'
      BY <1>a, <2>2, <3>1, TakeType, LeaveType DEF Admit
    <3>4. pc' \in Places
      BY <2>2, TurnGoes DEF Admit, Goto, TurnPcs
    <3> QED BY <3>2, <3>3, <3>4
  <2>3. CASE Stamp(t)
    BY <2>3, TurnGoes, <2>a DEF Stamp, Goto, QueueOK, TicketsOK, queueVars, TurnPcs
  <2>4. CASE Claim(t)
    BY <2>4, TurnGoes, <2>a DEF Claim, Goto, QueueOK, TicketsOK, queueVars, TurnPcs
  <2>5. CASE Check(t)
    <3>1. QueueOK'
      BY <2>5 DEF Check, QueueOK, queueVars
    <3>2. TicketsOK'
      <4>1. /\ \/ UNCHANGED <<granted, turnGeneration>>
               \/ /\ granted' = [granted EXCEPT ![t] = TRUE]
                  /\ turnGeneration' = [turnGeneration EXCEPT ![t] = generation]
            /\ UNCHANGED <<sequence, queued, claimed, snapshot, lastSequence, context, wedged>>
        BY <2>5 DEF Check, Grant
      <4>2. granted' \in [Actors -> BOOLEAN]
        BY <2>a, <4>1 DEF TicketsOK
      <4>3. turnGeneration' \in [Actors -> Nat]
        BY <2>a, <4>1 DEF TicketsOK, QueueOK
      <4> QED BY <4>1, <4>2, <4>3 DEF TicketsOK
    <3>3. pc' \in Places
      BY <2>5, ZenonT(40), TurnGoes DEF Check, Grant, Goto, TurnPcs
    <3> QED BY <3>1, <3>2, <3>3
  <2>6. CASE Await(t)
    BY <2>6, TurnGoes DEF Await, Goto, QueueOK, TicketsOK, queueVars, ticketVars, TurnPcs
  <2>7. CASE Poll(t)
    <3>1. QueueOK'
      BY <1>a, <2>7, TakeType DEF Poll, CanTake
    <3> QED BY <2>7, <3>1 DEF Poll, ticketVars, TicketsOK
  <2>8. CASE WakeUp(t)
    BY <2>8, TurnGoes DEF WakeUp, Goto, QueueOK, TicketsOK, queueVars, ticketVars, TurnPcs
  <2>9. CASE ContextChanged(t)
    <3>1. [pc EXCEPT ![t] = "cleanup"] \in Places
      BY TurnGoes DEF TurnPcs
    <3> QED BY <1>a, <2>9, <3>1, HandBackType DEF ContextChanged, ticketVars, TicketsOK
  <2>10. CASE SameContext(t)
    BY <2>10, TurnGoes DEF SameContext, Goto, QueueOK, TicketsOK, queueVars, ticketVars, TurnPcs
  <2>11. CASE Granted(t)
    <3>1. QueueOK'
      BY <2>11 DEF Granted, QueueOK, queueVars
    <3>2. TicketsOK'
      BY <2>11, <2>a DEF Granted, Grant, TicketsOK, QueueOK
    <3>3. pc' \in Places
      BY <2>11, TurnGoes DEF Granted, Grant, Goto, TurnPcs
    <3> QED BY <3>1, <3>2, <3>3
  <2>12. CASE Cleanup(t)
    <3>1. pc' \in Places
      BY <2>12, TurnGoes DEF Cleanup, Goto, TurnPcs
    <3> QED BY <2>12, <3>1 DEF Cleanup, QueueOK, TicketsOK, queueVars, ticketVars
  <2>17. CASE Withdraw(t)
    <3>1. QueueOK'
      BY <1>a, <2>17, CancelType, LeaveType DEF Withdraw, QueueOK, queueVars
    <3>2. pc' \in Places
      BY <2>17, TurnGoes DEF Withdraw, Goto, TurnPcs
    <3> QED BY <2>17, <3>1, <3>2 DEF Withdraw, TicketsOK, ticketVars
  <2>13. CASE TurnEnds(t)
    <3>1. pc' \in Places
      BY <2>13, TurnGoes DEF TurnEnds, Goto, TurnPcs
    <3> QED BY <2>13, <3>1 DEF TurnEnds, QueueOK, TicketsOK, queueVars, ticketVars
  <2>14. CASE GiveBack(t)
    <3> DEFINE label == IF t \in Chats /\ granted[t] THEN "aftercare" ELSE "ended"
    <3>1. [pc EXCEPT ![t] = label] \in Places
      BY TurnGoes DEF TurnPcs
    <3> QED BY <1>a, <2>14, <3>1, HandBackType DEF GiveBack, ticketVars, TicketsOK
  <2>15. CASE FailPending(t)
    <3> DEFINE out == [a \in Actors |-> IF Waits(a) THEN "wedged" ELSE outcome[a]]
    <3>1. out \in [Actors -> Outcomes] /\ <<>> \in Seq(Turns)
      BY <1>a DEF Outcomes
    <3> HIDE DEF out
    <3>2. LeaveAs(<<>>, lock, running, out)
      BY <2>15 DEF FailPending, out
    <3>3. QueueOK'
      BY <1>a, <3>1, <3>2, LeaveType
    <3> QED BY <2>15, <3>3, TurnGoes DEF FailPending, Goto, ticketVars, TicketsOK, TurnPcs
  <2>16. CASE AftercareEnds(t)
    BY <2>16, TurnGoes DEF AftercareEnds, Goto, QueueOK, TicketsOK, queueVars, ticketVars, TurnPcs
  <2> QED BY <1>1, <2>1, <2>2, <2>3, <2>4, <2>5, <2>6, <2>7, <2>8, <2>9, <2>10, <2>11,
             <2>12, <2>13, <2>14, <2>15, <2>16, <2>17 DEF TurnStep
<1>2. ASSUME NEW d \in Doors, DoorStep(d) PROVE TypeOK'
  <2>a. d \in Actors /\ [outcome EXCEPT ![d] = "ready"] \in [Actors -> Outcomes]
    BY <1>a DEF Actors, Outcomes
  <2>b. [pc EXCEPT ![d] = "gone"] \in Places
    BY DoorGoes DEF DoorPcs
  <2>c. ASSUME NEW label \in DoorPcs, NameHolder(d, label) PROVE TypeOK'
    <3>1. QueueOK'
      BY <1>a, <2>a, <2>c, LeaveType DEF NameHolder
    <3>2. TicketsOK'
      BY <2>a, <2>c DEF NameHolder, NumberTicket, TicketsOK
    <3> QED BY <2>c, <3>1, <3>2, DoorGoes DEF NameHolder, Goto
  <2>1. CASE DoorNames(d)
    BY <2>1, <2>c DEF DoorNames, DoorPcs
  <2>2. CASE DoorLeaves(d)
    BY <1>a, <2>2, <2>b, HandBackType DEF DoorLeaves, ticketVars, TicketsOK
  <2>3. CASE DoorLeavesRaw(d)
    <3>1. QueueOK'
      BY <1>a, <2>3, LeaveType DEF DoorLeavesRaw
    <3> QED BY <2>3, <2>b, <3>1 DEF DoorLeavesRaw, Goto, ticketVars, TicketsOK
  <2>4. CASE CompactTries(d)
    <3>1. QueueOK'
      BY <1>a, <2>a, <2>4, LeaveType DEF CompactTries, queueVars, QueueOK
    <3>2. pc' \in Places
      BY <2>4, DoorGoes DEF CompactTries, Goto, DoorPcs
    <3> QED BY <2>4, <3>1, <3>2 DEF CompactTries, ticketVars, TicketsOK
  <2>5. CASE CompactChecks(d)
    <3>1. CASE HandBack(outcome, [pc EXCEPT ![d] = "gone"])
               /\ UNCHANGED <<ticketVars, lastSequence, context, wedged>>
      BY <1>a, <3>1, <2>b, HandBackType DEF ticketVars, TicketsOK
    <3>2. CASE NameHolder(d, "summarising")
      BY <3>2, <2>c DEF DoorPcs
    <3> QED BY <2>5, <3>1, <3>2 DEF CompactChecks
  <2> QED BY <1>2, <2>1, <2>2, <2>3, <2>4, <2>5 DEF DoorStep
<1>3. CASE Outside
  <2>1. CASE EditContext
    BY <2>1 DEF EditContext, QueueOK, TicketsOK, queueVars, ticketVars
  <2>2. ASSUME NEW t \in Turns, HangUp(t) \/ Wedge(t) PROVE TypeOK'
    <3>1. pc' \in Places
      BY <2>2, TurnGoes DEF HangUp, Wedge, Goto, TurnPcs
    <3> QED BY <2>2, <3>1 DEF HangUp, Wedge, QueueOK, TicketsOK, queueVars, ticketVars
  <2>3. ASSUME NEW t \in Turns, StopExact(t) PROVE TypeOK'
    <3>1. Cancelled(t) \in [Actors -> Outcomes]
      BY <1>a DEF Cancelled, Outcomes, Actors
    <3>2. QueueOK' /\ pc' \in Places
      BY <1>a, <2>3, <3>1, CancelType, PromoteType, HandBackType DEF StopExact
    <3> QED BY <2>3, <3>2 DEF StopExact, ticketVars, TicketsOK
  <2>4. ASSUME NEW t \in Turns, Cancel(t) PROVE TypeOK'
    BY <1>a, <2>4, CancelType, LeaveType DEF Cancel, ticketVars, TicketsOK
  <2>5. ASSUME NEW t \in Turns, NEW label \in {"ended", "routed"}, Abandon(t, label)
        PROVE  TypeOK'
    <3>1. Cancelled(t) \in [Actors -> Outcomes]
      BY <1>a DEF Cancelled, Outcomes, Actors
    <3>2. [pc EXCEPT ![t] = label] \in Places
      BY TurnGoes DEF TurnPcs
    <3>3. QueueOK' /\ pc' \in Places
      BY <1>a, <2>5, <3>1, <3>2, CancelType, PromoteType, HandBackType
         DEF Abandon, Goto, queueVars, QueueOK
    <3> QED BY <2>5, <3>3 DEF Abandon, ticketVars, TicketsOK
  <2>6. ASSUME NEW d \in Doors, DoorEnters(d) PROVE TypeOK'
    <3>1. QueueOK'
      BY <1>a, <2>6, LeaveType DEF DoorEnters, Actors
    <3> QED BY <2>6, <3>1, DoorGoes DEF DoorEnters, Goto, ticketVars, TicketsOK, DoorPcs
  <2>7. ASSUME NEW d \in Doors, NEW t \in Chats, CompactLooks(d, t) PROVE TypeOK'
    <3>1. t \in Turns /\ t \in Actors /\ d \in Actors
      BY DEF Actors
    <3>2. pc' \in Places
      <4>1. [pc EXCEPT ![t] = "ended"] \in Places
        BY <3>1, TurnGoes DEF TurnPcs
      <4>2. [[pc EXCEPT ![t] = "ended"] EXCEPT ![d] = "compactTry"] \in Places
        BY <4>1, DoorGoes DEF DoorPcs
      <4> QED BY <2>7, <4>2 DEF CompactLooks
    <3>3. TicketsOK'
      BY <2>7, <3>1 DEF CompactLooks, TicketsOK
    <3> QED BY <2>7, <3>2, <3>3 DEF CompactLooks, queueVars, QueueOK
  <2> QED BY <1>3, <2>1, <2>2, <2>3, <2>4, <2>5, <2>6, <2>7 DEF Outside
<1>4. CASE UNCHANGED vars
  BY <1>4 DEF vars, queueVars, ticketVars, QueueOK, TicketsOK
<1> QED BY <1>1, <1>2, <1>3, <1>4 DEF Next
-----------------------------------------------------------------------------
(***************************************************************************)
(* Who holds the lock.                                                     *)
(***************************************************************************)
ThreadsAgree == LineInv /\ LockInv /\ TicketInv /\ WedgeInv

Tickets == <<queued, claimed, granted, wedged>>

LEMMA InitHolder == Init => HolderInv
<1> SUFFICES ASSUME Init PROVE HolderInv
  OBVIOUS
<1>1. ToSet(waiting) = {} /\ Distinct(waiting)
  BY DEF Init, ToSet, Distinct
<1>2. LineInv /\ WedgeInv
  BY <1>1 DEF Init, LineInv, WedgeInv
<1>3. LockInv /\ TicketInv
  BY DEF Init, LockInv, TicketInv, TurnHolds, DoorHolds, InLine, Leaving, Started, Actors
<1> QED BY <1>2, <1>3, InitType DEF HolderInv

LEMMA HandBackEffect ==
    ASSUME waiting \in Seq(Turns), Distinct(waiting), NEW out, NEW pcs,
           HandBack(out, pcs)
    PROVE  \/ Served(waiting, out) /\ pc' = pcs
           \/ LeaveAs(waiting, Free, Free, out) /\ pc' = pcs
           \/ \E d \in Doors : /\ pcs[d] = "idle"
                               /\ LeaveAs(waiting, d, Free, out)
                               /\ pc' = [pcs EXCEPT ![d] = "entered"]
  BY PromoteEffect DEF HandBack

\* The holder a gives the lock back: the next in line, a door or nobody has it.
LEMMA HandBackKeeps ==
    ASSUME TypeOK, TypeOK', ThreadsAgree, UNCHANGED Tickets,
           NEW a \in Actors, lock = a, ~wedged,
           NEW out \in [Actors -> Outcomes], NEW pcs \in Places, HandBack(out, pcs),
           \A x \in Actors : x # a => out[x] = outcome[x] /\ pcs[x] = pc[x],
           a \in Doors => pcs[a] = "gone",
           a \in Turns => /\ pcs[a] \in {"cleanup", "routed", "stamping", "ended", "aftercare"}
                          /\ pcs[a] \in InLine => out[a] = "cancelled" /\ ~granted[a]
                          /\ pcs[a] = "cleanup" => claimed[a]
                          /\ granted[a] => claimed[a] /\ out[a] = "ready"
    PROVE  ThreadsAgree'
<1>a. /\ waiting \in Seq(Turns) /\ Distinct(waiting) /\ ToSet(waiting) \subseteq Turns
      /\ a \notin ToSet(waiting)
  <2>1. waiting \in Seq(Turns) /\ Distinct(waiting) /\ ToSet(waiting) \subseteq Turns
    BY DEF TypeOK, ThreadsAgree, LineInv, ToSet
  <2>2. a \notin ToSet(waiting)
    BY <2>1 DEF ThreadsAgree, LineInv, LockInv
  <2> QED BY <2>1, <2>2
<1>b. \A t \in Turns : t # a => pc[t] \notin TurnHolds /\ running # t
  BY DEF ThreadsAgree, LockInv, Actors
<1>c. \A d \in Doors : d # a => pc[d] \notin DoorHolds /\ running # d
  BY DEF ThreadsAgree, LockInv, Actors, DoorHolds
<1>d. WedgeInv'
  BY DEF WedgeInv, Tickets
<1>1. CASE Served(waiting, out) /\ pc' = pcs
  <2>1. PICK h \in ToSet(waiting) : /\ Distinct(waiting')
                                    /\ ToSet(waiting') = ToSet(waiting) \ {h}
                                    /\ lock' = h
                                    /\ running' = h
                                    /\ outcome' = [out EXCEPT ![h] = "ready"]
    BY <1>1 DEF Served
  <2>2. /\ h \in Turns /\ h # a /\ pc[h] \in InLine \cup Leaving /\ outcome[h] = "none"
        /\ pc[h] = "withdraw" => "pending" \in Drops
    BY <1>a DEF ThreadsAgree, LineInv, Leaving
  <2>3. LineInv'
    BY <1>a, <1>1, <2>1, <2>2 DEF LineInv, ThreadsAgree, Tickets, Actors
  <2>4. LockInv'
    BY <1>a, <1>b, <1>c, <1>1, <2>1, <2>2
       DEF LockInv, Tickets, Actors, DoorHolds, TurnHolds, InLine, Leaving, Stranded
  <2>5. TicketInv'
    BY <1>a, <1>b, <1>1, <2>1, <2>2
       DEF TicketInv, ThreadsAgree, Tickets, Actors, TurnHolds, InLine, Leaving, Started
  <2> QED BY <1>d, <2>3, <2>4, <2>5 DEF ThreadsAgree
<1>2. CASE LeaveAs(waiting, Free, Free, out) /\ pc' = pcs
  <2>1. LineInv'
    BY <1>a, <1>2 DEF LeaveAs, LineInv, ThreadsAgree, Tickets, Actors
  <2>2. LockInv'
    BY <1>a, <1>b, <1>c, <1>2
       DEF LeaveAs, LockInv, Tickets, Actors, DoorHolds, TurnHolds, InLine, Leaving, Stranded
  <2>3. TicketInv'
    BY <1>a, <1>b, <1>2
       DEF LeaveAs, TicketInv, ThreadsAgree, Tickets, Actors, TurnHolds, InLine, Leaving, Started
  <2> QED BY <1>d, <2>1, <2>2, <2>3 DEF ThreadsAgree
<1>3. ASSUME NEW d \in Doors, pcs[d] = "idle", LeaveAs(waiting, d, Free, out),
             pc' = [pcs EXCEPT ![d] = "entered"]
      PROVE  ThreadsAgree'
  <2>a. d # a
    BY <1>3
  <2>b. d \notin Turns /\ d # Free /\ \A t \in Turns : pc'[t] = pcs[t]
    BY <1>3 DEF Places, Actors
  <2>1. LineInv'
    BY <1>a, <1>3, <2>b DEF LeaveAs, LineInv, ThreadsAgree, Tickets, Actors
  <2>2. LockInv'
    BY <1>a, <1>b, <1>c, <1>3, <2>a, <2>b
       DEF LeaveAs, LockInv, Tickets, Actors, DoorHolds, TurnHolds, InLine, Places
  <2>3. TicketInv'
    BY <1>a, <1>b, <1>3, <2>b
       DEF LeaveAs, TicketInv, ThreadsAgree, Tickets, Actors, TurnHolds, InLine, Leaving, Started
  <2> QED BY <1>d, <2>1, <2>2, <2>3 DEF ThreadsAgree
<1> QED BY <1>a, <1>1, <1>2, <1>3, HandBackEffect

\* Ticket t leaves the line cancelled; the head may be promoted in the same step.
LEMMA LeavesTheLine ==
    ASSUME TypeOK, TypeOK', ThreadsAgree, UNCHANGED Tickets,
           NEW t \in Turns, Waits(t),
           pc' = pc \/ Goto(t, "ended") \/ (Goto(t, "routed") /\ pc[t] = "routed"),
           \/ PromoteHead(RemoveFirst(waiting, t), lock, running, Cancelled(t))
           \/ LeaveAs(RemoveFirst(waiting, t), lock, running, Cancelled(t))
    PROVE  ThreadsAgree'
<1> DEFINE w == RemoveFirst(waiting, t)
<1>a. /\ w \in Seq(Turns) /\ Distinct(w) /\ ToSet(w) = ToSet(waiting) \ {t}
      /\ ToSet(waiting) \subseteq Turns
  <2>1. waiting \in Seq(Turns) /\ Distinct(waiting) /\ ToSet(waiting) \subseteq Turns
    BY DEF TypeOK, ThreadsAgree, LineInv, ToSet
  <2> QED BY <2>1, RemoveFacts DEF Waits
<1>b. /\ outcome[t] = "none" /\ running # t /\ lock # t
      /\ pc[t] \in InLine \cup Leaving
  BY DEF ThreadsAgree, LineInv, LockInv, Waits
<1>c. ~granted[t]
  BY <1>b DEF ThreadsAgree, TicketInv
<1>d. \A x \in Actors : x # t => pc'[x] = pc[x] /\ Cancelled(t)[x] = outcome[x]
  BY DEF TypeOK, Goto, Cancelled
<1>e. /\ Cancelled(t)[t] = "cancelled"
      /\ pc'[t] \in {pc[t], "ended"}
  BY DEF TypeOK, Goto, Cancelled, Actors
<1>f. t \in Actors /\ t \notin Doors /\ Cancelled(t) \in [Actors -> Outcomes]
  BY DEF Actors, TypeOK, Cancelled, Outcomes
<1> HIDE DEF w
<1>1. CASE LeaveAs(w, lock, running, Cancelled(t))
  <2>1. LineInv'
    BY <1>a, <1>d, <1>1 DEF LeaveAs, LineInv, ThreadsAgree, Tickets, Actors
  <2>2. LockInv'
    BY <1>b, <1>d, <1>e, <1>f, <1>1
       DEF LeaveAs, LockInv, ThreadsAgree, Tickets, Actors, DoorHolds, TurnHolds, InLine, Leaving, Stranded
  <2>3. TicketInv'
    BY <1>a, <1>b, <1>c, <1>d, <1>e, <1>f, <1>1
       DEF LeaveAs, TicketInv, ThreadsAgree, Tickets, Actors, TurnHolds, InLine, Leaving, Started
  <2>4. WedgeInv'
    BY <1>b, <1>d, <1>1 DEF LeaveAs, WedgeInv, ThreadsAgree, Tickets, Builds, Actors
  <2> QED BY <2>1, <2>2, <2>3, <2>4 DEF ThreadsAgree
<1>2. CASE lock = Free /\ Served(w, Cancelled(t))
  <2>1. PICK h \in ToSet(w) : /\ Distinct(waiting')
                              /\ ToSet(waiting') = ToSet(w) \ {h}
                              /\ lock' = h
                              /\ running' = h
                              /\ outcome' = [Cancelled(t) EXCEPT ![h] = "ready"]
    BY <1>2 DEF Served
  <2>2. /\ h \in Turns /\ h # t /\ h \in Actors /\ h \in ToSet(waiting) /\ h \notin Doors
        /\ pc[h] \in InLine \cup Leaving /\ outcome[h] = "none"
        /\ pc[h] = "withdraw" => "pending" \in Drops
    BY <1>a, <2>1 DEF ThreadsAgree, LineInv, Actors, Leaving
  <2>3. /\ \A u \in Turns : running # u /\ pc[u] \notin TurnHolds
        /\ \A d \in Doors : running # d /\ pc[d] \notin DoorHolds
        /\ ~wedged
    BY <1>2 DEF ThreadsAgree, LockInv, WedgeInv, Actors, DoorHolds, Builds
  <2>4. /\ outcome'[h] = "ready" /\ pc'[h] = pc[h]
        /\ \A x \in Actors : x # h => outcome'[x] = Cancelled(t)[x]
    BY <1>d, <1>f, <2>1, <2>2
  <2>5. LineInv'
    BY <1>a, <1>d, <2>1, <2>2, <2>4 DEF LineInv, ThreadsAgree, Tickets, Actors
  <2>6. LockInv'
    BY <1>b, <1>d, <1>e, <1>f, <2>1, <2>2, <2>3, <2>4
       DEF LockInv, Tickets, Actors, DoorHolds, TurnHolds, InLine, Leaving, Stranded
  <2>7. TicketInv'
    <3> DEFINE Says(u) ==
          /\ pc[u] \in {"asked", "joining"} => outcome[u] = "none" /\ ~granted[u]
          /\ pc[u] \in InLine =>
                /\ outcome[u] = "none" => u \in ToSet(waiting)
                /\ outcome[u] = "ready" => running = u
                /\ ~queued[u] => outcome[u] \in {"ready", "cancelled"}
                /\ ~granted[u]
          /\ pc[u] \in Started => claimed[u]
          /\ granted[u] => claimed[u] /\ outcome[u] = "ready"
    <3>1. \A u \in Turns : Says(u)
      BY DEF ThreadsAgree, TicketInv
    <3>2. Says(h)'
      BY <2>1, <2>2, <2>4, <3>1 DEF Tickets, InLine, Leaving, Started, TurnHolds
    <3>3. Says(t)'
      BY <1>b, <1>c, <1>e, <1>f, <2>2, <2>4, <3>1 DEF Tickets, InLine, Leaving, Started, TurnHolds
    <3>4. ASSUME NEW u \in Turns, u # h, u # t PROVE Says(u)'
      <4>1. u \in Actors /\ outcome'[u] = outcome[u] /\ pc'[u] = pc[u] /\ running # u
        BY <1>d, <2>3, <2>4, <3>4 DEF Actors
      <4>2. u \in ToSet(waiting') <=> u \in ToSet(waiting)
        BY <1>a, <2>1, <3>4
      <4> QED BY <3>1, <4>1, <4>2 DEF Tickets
    <3> QED BY <3>2, <3>3, <3>4 DEF TicketInv
  <2>8. WedgeInv'
    BY <2>3 DEF WedgeInv, Tickets
  <2> QED BY <2>5, <2>6, <2>7, <2>8 DEF ThreadsAgree
<1> QED BY <1>a, <1>1, <1>2, PromoteEffect DEF w

\* A step of the thread of turn t that leaves the queue as it is.
LEMMA TurnMoves ==
    ASSUME TypeOK, TypeOK', ThreadsAgree, UNCHANGED <<queueVars, queued>>,
           NEW t \in Turns, pc'[t] # pc[t],
           \A x \in Actors : x # t => /\ pc'[x] = pc[x]
                                      /\ claimed'[x] = claimed[x]
                                      /\ granted'[x] = granted[x],
           running = t => \/ pc'[t] \in TurnHolds \cup InLine \cup Leaving
                          \/ pc'[t] = "ended" /\ wedged',
           running = t => pc'[t] # "withdraw",
           Waits(t) => /\ pc'[t] \in InLine \cup Leaving
                       /\ pc'[t] \in Leaving => "pending" \in Drops,
           pc'[t] \in TurnHolds => running = t,
           pc'[t] \in {"asked", "joining"} => outcome[t] = "none" /\ ~granted'[t],
           pc'[t] \in InLine => pc[t] \in InLine /\ ~granted'[t],
           pc'[t] \in Started \/ claimed[t] => claimed'[t],
           granted'[t] => claimed'[t] /\ outcome[t] = "ready",
           wedged => wedged',
           wedged /\ running = t => pc'[t] \in {"wedging", "unwinding", "ended"},
           wedged' => wedged \/ (t \in Builds /\ running = t /\ pc'[t] = "wedging")
    PROVE  ThreadsAgree'
<1>1. t \in Actors /\ t \notin Doors
  BY DEF Actors
<1>2. LineInv'
  <2>1. ToSet(waiting) \subseteq Turns
    BY DEF TypeOK, ToSet
  <2> QED BY <1>1, <2>1 DEF ThreadsAgree, LineInv, queueVars, Waits, Actors
<1>3. LockInv'
  <2>1. \A d \in Doors : pc'[d] = pc[d]
    BY <1>1 DEF Actors
  <2>2. \A u \in Turns : lock' = u <=> running' = u
    BY DEF ThreadsAgree, LockInv, queueVars
  <2>3. \A u \in Turns : pc'[u] \in TurnHolds => running' = u
    BY DEF ThreadsAgree, LockInv, queueVars, Actors
  <2>4. /\ \A d \in Doors : lock' = d <=> pc'[d] \in DoorHolds
        /\ \A d \in Doors : running' = d <=> pc'[d] \in {"named", "summarising"}
    BY <2>1 DEF ThreadsAgree, LockInv, queueVars
  <2>5. ASSUME NEW u \in Turns, running' = u
        PROVE  /\ outcome'[u] = "ready"
               /\ pc'[u] \in TurnHolds \cup InLine \cup Leaving \/ Stranded(u)'
               /\ pc'[u] = "withdraw" => "pending" \in Drops
    <3>1. CASE u = t
      BY <2>5, <3>1 DEF ThreadsAgree, LockInv, queueVars, Stranded
    <3>2. CASE u # t
      <4>1. u \in Actors /\ pc'[u] = pc[u] /\ outcome'[u] = outcome[u] /\ running = u
        BY <2>5, <3>2 DEF queueVars, Actors
      <4> QED BY <2>5, <4>1 DEF ThreadsAgree, LockInv, Stranded
    <3> QED BY <3>1, <3>2
  <2> QED BY <2>2, <2>3, <2>4, <2>5 DEF LockInv
<1>4. TicketInv'
  BY <1>1 DEF ThreadsAgree, TicketInv, queueVars, Actors, ToSet
<1>5. WedgeInv'
  <2>1. CASE wedged
    <3>1. PICK u \in Builds : /\ running = u
                              /\ claimed[u]
                              /\ pc[u] \in {"wedging", "unwinding", "ended"}
      BY <2>1 DEF ThreadsAgree, WedgeInv
    <3>2. u \in Actors /\ running' = u /\ claimed'[u]
      BY <3>1 DEF Builds, Actors, queueVars
    <3>3. pc'[u] \in {"wedging", "unwinding", "ended"}
      BY <2>1, <3>1, <3>2
    <3> QED BY <3>1, <3>2, <3>3 DEF WedgeInv
  <2>2. CASE ~wedged /\ wedged'
    BY <2>2 DEF WedgeInv, queueVars, Started, TurnHolds
  <2> QED BY <2>1, <2>2 DEF WedgeInv
<1> QED BY <1>2, <1>3, <1>4, <1>5 DEF ThreadsAgree

\* What ThreadsAgree says of one turn.
Facts(t) ==
    /\ t \in Actors /\ t \notin Doors
    /\ pc \in [Actors -> TurnPcs \cup DoorPcs]
    /\ outcome \in [Actors -> Outcomes]
    /\ queued \in [Actors -> BOOLEAN]
    /\ claimed \in [Actors -> BOOLEAN]
    /\ granted \in [Actors -> BOOLEAN]
    /\ turnGeneration \in [Actors -> Nat]
    /\ Waits(t) => /\ outcome[t] = "none" /\ queued[t] /\ running # t
                   /\ pc[t] \in InLine \cup Leaving
                   /\ pc[t] \in Leaving => "pending" \in Drops
    /\ lock = t <=> running = t
    /\ pc[t] \in TurnHolds => running = t
    /\ running = t => /\ outcome[t] = "ready"
                      /\ pc[t] \in TurnHolds \cup InLine \cup Leaving \/ Stranded(t)
    /\ pc[t] \in {"asked", "joining"} => outcome[t] = "none" /\ ~granted[t]
    /\ pc[t] \in InLine => /\ outcome[t] = "none" => Waits(t)
                           /\ outcome[t] = "ready" => running = t
                           /\ ~queued[t] => outcome[t] \in {"ready", "cancelled"}
                           /\ ~granted[t]
    /\ pc[t] \in Started => claimed[t]
    /\ granted[t] => claimed[t] /\ outcome[t] = "ready"
    /\ wedged /\ running = t => t \in Builds /\ pc[t] \in {"wedging", "unwinding", "ended"}

LEMMA TurnFacts ==
    ASSUME TypeOK, ThreadsAgree, NEW t \in Turns
    PROVE  Facts(t)
<1>1. t \in Actors /\ t \notin Doors
  BY DEF Actors
<1>2. wedged /\ running = t => t \in Builds /\ pc[t] \in {"wedging", "unwinding", "ended"}
  BY DEF ThreadsAgree, WedgeInv
<1> QED BY <1>1, <1>2 DEF Facts, TypeOK, ThreadsAgree, LineInv, LockInv, TicketInv, Waits

\* The steps of the thread of a turn that leave the queue as it is.
LEMMA TurnMovesKeep ==
    ASSUME TypeOK, TypeOK', ThreadsAgree, NEW t \in Turns,
           \/ Ask(t) \/ Stamp(t) \/ Claim(t) \/ Check(t) \/ Await(t) \/ WakeUp(t)
           \/ SameContext(t) \/ Granted(t) \/ TurnEnds(t) \/ AftercareEnds(t)
           \/ HangUp(t) \/ Wedge(t) \/ Cleanup(t)
    PROVE  ThreadsAgree'
<1>a. Facts(t)
  BY TurnFacts
<1>1. CASE Ask(t)
  BY <1>1, <1>a, TurnMoves DEF Ask, Facts, queueVars, ticketVars, Goto, Waits, TurnHolds,
     InLine, Leaving, Started, Builds
<1>2. CASE Stamp(t)
  BY <1>2, <1>a, TurnMoves DEF Stamp, Facts, queueVars, ticketVars, Goto, Waits, TurnHolds,
     InLine, Leaving, Started, Builds
<1>3. CASE Claim(t)
  BY <1>3, <1>a, TurnMoves DEF Claim, Facts, queueVars, ticketVars, Goto, Waits, TurnHolds,
     InLine, Leaving, Started, Builds
<1>4. CASE Check(t)
  BY <1>4, <1>a, TurnMoves DEF Check, Facts, queueVars, ticketVars, Goto, Waits, TurnHolds,
     InLine, Leaving, Started, Builds, Grant
<1>5. CASE Await(t)
  BY <1>5, <1>a, TurnMoves DEF Await, Facts, queueVars, ticketVars, Goto, Waits, TurnHolds,
     InLine, Leaving, Started, Builds
<1>6. CASE WakeUp(t)
  BY <1>6, <1>a, TurnMoves DEF WakeUp, Facts, queueVars, ticketVars, Goto, Waits, TurnHolds,
     InLine, Leaving, Started, Builds
<1>7. CASE SameContext(t)
  BY <1>7, <1>a, TurnMoves DEF SameContext, Facts, queueVars, ticketVars, Goto, Waits, TurnHolds,
     InLine, Leaving, Started, Builds
<1>8. CASE Granted(t)
  BY <1>8, <1>a, TurnMoves DEF Granted, Facts, queueVars, ticketVars, Goto, Waits, TurnHolds,
     InLine, Leaving, Started, Builds, Grant
<1>9. CASE TurnEnds(t)
  BY <1>9, <1>a, TurnMoves DEF TurnEnds, Facts, queueVars, ticketVars, Goto, Waits, TurnHolds,
     InLine, Leaving, Started, Builds
<1>10. CASE AftercareEnds(t)
  BY <1>10, <1>a, TurnMoves DEF AftercareEnds, Stranded, Facts, queueVars, ticketVars, Goto, Waits, TurnHolds,
     InLine, Leaving, Started, Builds
<1>11. CASE HangUp(t)
  BY <1>11, <1>a, TurnMoves DEF HangUp, Facts, queueVars, ticketVars, Goto, Waits, TurnHolds,
     InLine, Leaving, Started, Builds
<1>12. CASE Wedge(t)
  BY <1>12, <1>a, TurnMoves DEF Wedge, Facts, queueVars, ticketVars, Goto, Waits, TurnHolds,
     InLine, Leaving, Started, Builds
<1>13. CASE Cleanup(t)
  BY <1>13, <1>a, TurnMoves DEF Cleanup, Facts, queueVars, ticketVars, Goto, Waits, TurnHolds,
     InLine, Leaving, Started, Builds
<1> QED BY <1>1, <1>2, <1>3, <1>4, <1>5, <1>6, <1>7, <1>8, <1>9, <1>10, <1>11, <1>12, <1>13

\* What ThreadsAgree says of one door.
DoorFacts(d) ==
    /\ d \in Actors /\ d \notin Turns
    /\ pc \in [Actors -> TurnPcs \cup DoorPcs]
    /\ lock = d <=> pc[d] \in DoorHolds
    /\ running = d <=> pc[d] \in {"named", "summarising"}

LEMMA OneDoor ==
    ASSUME TypeOK, ThreadsAgree, NEW d \in Doors
    PROVE  DoorFacts(d)
  BY DEF DoorFacts, Actors, TypeOK, ThreadsAgree, LockInv

LEMMA Line ==
    ASSUME TypeOK, ThreadsAgree
    PROVE  /\ waiting \in Seq(Turns) /\ Distinct(waiting) /\ ToSet(waiting) \subseteq Turns
           /\ outcome \in [Actors -> Outcomes] /\ pc \in Places
  BY TypeParts DEF TypeOK, ThreadsAgree, LineInv, ToSet

LEMMA AdmitKeeps ==
    ASSUME TypeOK, TypeOK', ThreadsAgree, NEW t \in Turns, Admit(t)
    PROVE  ThreadsAgree'
<1> DEFINE w == Append(waiting, t)
<1>a. Facts(t)
  BY TurnFacts
<1>b. /\ pc[t] = "joining" /\ ~Waits(t) /\ running # t /\ lock # t
      /\ outcome[t] = "none" /\ ~granted[t] /\ t \in Actors /\ t \notin Doors
  BY <1>a DEF Admit, Facts, InLine, Leaving, TurnHolds, Stranded
<1>c. /\ w \in Seq(Turns) /\ Distinct(w) /\ ToSet(w) = ToSet(waiting) \cup {t}
      /\ w # <<>>
  <2>1. Len(w) = Len(waiting) + 1 /\ Len(waiting) \in Nat
    BY Line
  <2>2. w # <<>>
    <3> HIDE DEF w
    <3> QED BY <2>1
  <2> QED BY <1>b, <2>2, Line, AppendFacts DEF Waits
<1>d. UNCHANGED <<claimed, granted, wedged>>
  BY DEF Admit
<1>e. ToSet(waiting) \subseteq Turns
  BY Line
<1>1. CASE CanTake(t, w, lock) /\ Take(t, w, outcome) /\ Goto(t, "routed") /\ UNCHANGED queued
  <2>1. /\ Distinct(waiting') /\ ToSet(waiting') = ToSet(waiting)
        /\ lock = Free /\ lock' = t /\ running' = t
        /\ outcome' = [outcome EXCEPT ![t] = "ready"]
    <3>1. Head(w) = t /\ lock = Free
      BY <1>1 DEF CanTake
    <3>2. Distinct(Tail(w)) /\ ToSet(Tail(w)) = ToSet(w) \ {t}
      BY <1>c, <3>1, TailFacts
    <3>3. ToSet(Tail(w)) = ToSet(waiting)
      BY <1>b, <1>c, <3>2 DEF Waits
    <3> HIDE DEF w
    <3> QED BY <1>1, <3>1, <3>2, <3>3 DEF Take
  <2>2. /\ \A u \in Turns : running # u /\ pc[u] \notin TurnHolds
        /\ \A d \in Doors : running # d /\ pc[d] \notin DoorHolds
        /\ ~wedged
    BY <2>1 DEF ThreadsAgree, LockInv, WedgeInv, Actors, DoorHolds, Builds
  <2>3. /\ outcome'[t] = "ready" /\ pc'[t] = "routed"
        /\ \A x \in Actors : x # t => outcome'[x] = outcome[x] /\ pc'[x] = pc[x]
    BY <1>1, <1>b, <2>1 DEF Goto, TypeOK
  <2>4. UNCHANGED <<queued, claimed, granted, wedged>>
    BY <1>1, <1>d
  <2>5. LineInv'
    BY <1>b, <1>e, <2>1, <2>3, <2>4 DEF LineInv, ThreadsAgree, Actors, Waits
  <2>6. LockInv'
    BY <1>b, <2>1, <2>2, <2>3, <2>4 DEF LockInv, Actors, DoorHolds, TurnHolds, InLine, Leaving, Stranded
  <2>7. TicketInv'
    BY <1>b, <2>1, <2>2, <2>3, <2>4 DEF TicketInv, ThreadsAgree, Actors, TurnHolds, InLine, Leaving, Started
  <2>8. WedgeInv'
    BY <2>2, <2>4 DEF WedgeInv
  <2> QED BY <2>5, <2>6, <2>7, <2>8 DEF ThreadsAgree
<1>2. CASE /\ LeaveAs(w, lock, running, outcome)
           /\ queued' = [queued EXCEPT ![t] = TRUE]
           /\ Goto(t, "stamping")
  <2>1. /\ Distinct(waiting') /\ ToSet(waiting') = ToSet(waiting) \cup {t}
        /\ UNCHANGED <<lock, running, outcome>>
    BY <1>2, <1>c DEF LeaveAs
  <2>2. /\ queued'[t] /\ pc'[t] = "stamping"
        /\ \A x \in Actors : x # t => queued'[x] = queued[x] /\ pc'[x] = pc[x]
    BY <1>2, <1>b DEF Goto, TypeOK
  <2>3. LineInv'
    BY <1>b, <1>e, <2>1, <2>2 DEF LineInv, ThreadsAgree, Actors, InLine, Leaving
  <2>4. LockInv'
    BY <1>b, <1>d, <2>1, <2>2
       DEF LockInv, ThreadsAgree, Actors, TurnHolds, InLine, Leaving, Stranded
  <2>5. TicketInv'
    BY <1>b, <1>d, <2>1, <2>2 DEF TicketInv, ThreadsAgree, Actors, TurnHolds, InLine, Leaving, Started
  <2>6. WedgeInv'
    BY <1>b, <1>d, <2>1, <2>2 DEF WedgeInv, ThreadsAgree, Actors, Builds
  <2> QED BY <2>3, <2>4, <2>5, <2>6 DEF ThreadsAgree
<1> QED BY <1>1, <1>2 DEF Admit

LEMMA PollKeeps ==
    ASSUME TypeOK, TypeOK', ThreadsAgree, NEW t \in Turns, Poll(t)
    PROVE  ThreadsAgree'
<1>1. Facts(t)
  BY TurnFacts
<1>2. /\ pc[t] = "waiting" /\ waiting # <<>> /\ Head(waiting) = t /\ lock = Free
      /\ Take(t, waiting, outcome)
      /\ UNCHANGED <<queued, claimed, granted, wedged, pc>>
  BY DEF Poll, CanTake, ticketVars
<1>3. /\ Distinct(waiting') /\ ToSet(waiting') = ToSet(waiting) \ {t}
      /\ lock' = t /\ running' = t
  BY <1>2, Line, TailFacts DEF Take
<1>4. /\ outcome'[t] = "ready" /\ \A x \in Actors : x # t => outcome'[x] = outcome[x]
      /\ t \in Actors /\ t \notin Doors
  BY <1>1, <1>2 DEF Take, Facts
<1>5. /\ \A u \in Turns : running # u /\ pc[u] \notin TurnHolds
      /\ \A d \in Doors : running # d /\ pc[d] \notin DoorHolds
      /\ ~wedged
  BY <1>2 DEF ThreadsAgree, LockInv, WedgeInv, Actors, DoorHolds, Builds
<1>6. LineInv'
  BY <1>2, <1>3, <1>4, Line DEF LineInv, ThreadsAgree, Actors
<1>7. LockInv'
  BY <1>2, <1>3, <1>4, <1>5 DEF LockInv, Actors, DoorHolds, TurnHolds, InLine, Leaving, Stranded
<1>8. TicketInv'
  BY <1>1, <1>2, <1>3, <1>4, <1>5
     DEF TicketInv, ThreadsAgree, Facts, Actors, TurnHolds, InLine, Leaving, Started
<1>9. WedgeInv'
  BY <1>2, <1>5 DEF WedgeInv
<1> QED BY <1>6, <1>7, <1>8, <1>9 DEF ThreadsAgree

LEMMA FailPendingKeeps ==
    ASSUME TypeOK, TypeOK', ThreadsAgree, NEW t \in Turns, FailPending(t)
    PROVE  ThreadsAgree'
<1>1. Facts(t)
  BY TurnFacts
<1>2. /\ pc[t] = "wedging" /\ running = t /\ t \in Actors /\ t \notin Doors
      /\ waiting' = <<>>
      /\ UNCHANGED <<lock, running, queued, claimed, granted, wedged>>
      /\ pc' = [pc EXCEPT ![t] = "unwinding"]
      /\ outcome' = [a \in Actors |-> IF Waits(a) THEN "wedged" ELSE outcome[a]]
  BY <1>1 DEF FailPending, LeaveAs, ticketVars, Goto, Facts, TurnHolds
<1>3. ToSet(waiting') = {} /\ Distinct(waiting')
  BY <1>2 DEF ToSet, Distinct
<1>4. /\ pc'[t] = "unwinding" /\ \A x \in Actors : x # t => pc'[x] = pc[x]
      /\ \A x \in Actors : /\ Waits(x) => outcome'[x] = "wedged"
                           /\ ~Waits(x) => outcome'[x] = outcome[x]
  BY <1>1, <1>2 DEF Facts
<1>5. \A u \in Turns : Facts(u)
  BY TurnFacts
<1>6. LineInv'
  BY <1>3 DEF LineInv
<1>7. LockInv'
  BY <1>2, <1>4, <1>5 DEF LockInv, ThreadsAgree, Facts, Actors, TurnHolds, InLine
<1>8. TicketInv'
  BY <1>2, <1>3, <1>4, <1>5 DEF TicketInv, Facts, TurnHolds, InLine, Leaving, Started
<1>9. WedgeInv'
  BY <1>2, <1>4, <1>5 DEF ThreadsAgree, WedgeInv, Facts, Started, TurnHolds, Builds
<1> QED BY <1>6, <1>7, <1>8, <1>9 DEF ThreadsAgree

\* A door d takes the free lock.
LEMMA DoorTakes ==
    ASSUME TypeOK, TypeOK', ThreadsAgree, UNCHANGED Tickets, NEW d \in Doors,
           lock = Free, LeaveAs(waiting, d, running, outcome),
           NEW label \in {"entered", "compactCheck"}, Goto(d, label)
    PROVE  ThreadsAgree'
<1>1. DoorFacts(d)
  BY OneDoor
<1>2. /\ d \in Actors /\ d \notin Turns /\ d # Free /\ pc'[d] = label
      /\ \A x \in Actors : x # d => pc'[x] = pc[x]
      /\ UNCHANGED <<waiting, running, outcome>> /\ lock' = d
  BY <1>1 DEF DoorFacts, Goto, LeaveAs, Actors
<1>3. /\ \A u \in Turns : running # u
      /\ \A e \in Doors : running # e /\ pc[e] \notin DoorHolds
      /\ ~wedged
  BY DEF ThreadsAgree, LockInv, WedgeInv, Actors, DoorHolds, Builds
<1>4. LineInv'
  BY <1>2, Line DEF LineInv, ThreadsAgree, Actors, Tickets
<1>5. LockInv'
  BY <1>2, <1>3 DEF LockInv, ThreadsAgree, Actors, DoorHolds, TurnHolds, Tickets
<1>6. TicketInv'
  BY <1>2 DEF TicketInv, ThreadsAgree, Actors, Tickets
<1>7. WedgeInv'
  BY <1>3 DEF WedgeInv, Tickets
<1> QED BY <1>4, <1>5, <1>6, <1>7 DEF ThreadsAgree

\* A door that leaves the queue as it is, or gives the free name to itself.
LEMMA NameHolderKeeps ==
    ASSUME TypeOK, TypeOK', ThreadsAgree, NEW d \in Doors,
           pc[d] \in {"entered", "compactCheck"},
           NEW label \in {"named", "summarising"}, NameHolder(d, label)
    PROVE  ThreadsAgree'
<1>1. DoorFacts(d)
  BY OneDoor
<1>2. /\ d \in Actors /\ d \notin Turns /\ d # Free /\ pc'[d] = label
      /\ \A x \in Actors : x # d => /\ pc'[x] = pc[x] /\ outcome'[x] = outcome[x]
                                    /\ claimed'[x] = claimed[x]
                                    /\ granted'[x] = granted[x]
      /\ UNCHANGED <<waiting, lock, queued, wedged>> /\ running = Free /\ running' = d
  BY <1>1 DEF DoorFacts, Goto, LeaveAs, Actors, NameHolder, TypeOK
<1>3. \A u \in Turns : running # u /\ pc[u] \notin TurnHolds /\ lock # u
  BY <1>2 DEF ThreadsAgree, LockInv, Actors
<1>4. ~wedged
  BY <1>3 DEF ThreadsAgree, WedgeInv, Builds
<1>5. LineInv'
  BY <1>2, Line DEF LineInv, ThreadsAgree, Actors
<1>6. LockInv'
  BY <1>1, <1>2, <1>3 DEF LockInv, ThreadsAgree, Actors, DoorHolds, DoorFacts
<1>7. TicketInv'
  BY <1>2, <1>3 DEF TicketInv, ThreadsAgree, Actors
<1>8. WedgeInv'
  BY <1>2, <1>4 DEF WedgeInv
<1> QED BY <1>5, <1>6, <1>7, <1>8 DEF ThreadsAgree

\* A door that was never named releases the raw lock.
LEMMA DoorLeavesRawKeeps ==
    ASSUME TypeOK, TypeOK', ThreadsAgree, NEW d \in Doors, DoorLeavesRaw(d)
    PROVE  ThreadsAgree'
<1>1. DoorFacts(d)
  BY OneDoor
<1>2. /\ d \in Actors /\ d \notin Turns /\ d # Free /\ pc'[d] = "gone" /\ lock = d
      /\ pc[d] = "entered" /\ running # d
      /\ \A x \in Actors : x # d => pc'[x] = pc[x]
      /\ UNCHANGED <<waiting, running, outcome, queued, claimed, granted, wedged>>
      /\ lock' = Free
  BY <1>1 DEF DoorFacts, Goto, LeaveAs, Actors, DoorLeavesRaw, ticketVars, DoorHolds
<1>3. \A u \in Turns : running # u /\ pc[u] \notin TurnHolds
  BY <1>2 DEF ThreadsAgree, LockInv, Actors
<1>4. ~wedged
  BY <1>3 DEF ThreadsAgree, WedgeInv, Builds
<1>5. LineInv'
  BY <1>2, Line DEF LineInv, ThreadsAgree, Actors
<1>6. LockInv'
  BY <1>1, <1>2, <1>3 DEF LockInv, ThreadsAgree, Actors, DoorHolds
<1>7. TicketInv'
  BY <1>2 DEF TicketInv, ThreadsAgree, Actors
<1>8. WedgeInv'
  BY <1>2, <1>4 DEF WedgeInv
<1> QED BY <1>5, <1>6, <1>7, <1>8 DEF ThreadsAgree

\* A door that is refused the lock goes away.
LEMMA DoorMoves ==
    ASSUME TypeOK, ThreadsAgree, UNCHANGED queueVars, UNCHANGED Tickets,
           NEW d \in Doors, pc[d] \in {"idle", "compactTry"},
           NEW label \in {"compactTry", "gone"}, pc' = [pc EXCEPT ![d] = label]
    PROVE  ThreadsAgree'
<1>1. DoorFacts(d)
  BY OneDoor
<1>2. /\ d \in Actors /\ d \notin Turns /\ pc'[d] = label
      /\ \A x \in Actors : x # d => pc'[x] = pc[x]
      /\ \A t \in Turns : pc'[t] = pc[t]
  BY <1>1 DEF DoorFacts, Actors
<1>3. LineInv'
  BY <1>2, Line DEF LineInv, ThreadsAgree, queueVars, Tickets
<1>4. LockInv'
  BY <1>1, <1>2
     DEF LockInv, ThreadsAgree, queueVars, Tickets, DoorFacts, DoorHolds, Actors, Stranded
<1>5. TicketInv'
  BY <1>2 DEF TicketInv, ThreadsAgree, queueVars, Tickets
<1>6. WedgeInv'
  BY <1>2 DEF WedgeInv, ThreadsAgree, queueVars, Tickets, Builds
<1> QED BY <1>3, <1>4, <1>5, <1>6 DEF ThreadsAgree

\* A Stop takes the lock from a turn whose response has not started.
LEMMA StopKeeps ==
    ASSUME TypeOK, TypeOK', ThreadsAgree, UNCHANGED Tickets, NEW t \in Turns,
           running = t, ~claimed[t], HandBack(Cancelled(t), pc)
    PROVE  ThreadsAgree'
<1>1. Facts(t)
  BY TurnFacts
<1>2. /\ t \in Actors /\ t \notin Doors /\ lock = t /\ ~granted[t]
      /\ pc[t] \in {"routed", "stamping", "ended"}
  BY <1>1 DEF Facts, Started, InLine, Leaving, Stranded
<1>3. ~wedged
  BY DEF ThreadsAgree, WedgeInv
<1>4. /\ Cancelled(t) \in [Actors -> Outcomes] /\ Cancelled(t)[t] = "cancelled"
      /\ \A x \in Actors : x # t => Cancelled(t)[x] = outcome[x]
  BY <1>1 DEF Facts, Cancelled, Outcomes
<1>5. pc \in Places
  BY Line
<1> QED BY <1>2, <1>3, <1>4, <1>5, HandBackKeeps

\* The same for a response abandoned before its generator claimed the ticket.
LEMMA AbandonKeeps ==
    ASSUME TypeOK, TypeOK', ThreadsAgree, UNCHANGED Tickets, NEW t \in Turns,
           running = t, ~claimed[t], NEW label \in {"ended", "routed"},
           HandBack(Cancelled(t), [pc EXCEPT ![t] = label])
    PROVE  ThreadsAgree'
<1> DEFINE pcs == [pc EXCEPT ![t] = label]
<1>1. Facts(t)
  BY TurnFacts
<1>2. t \in Actors /\ t \notin Doors /\ lock = t /\ ~granted[t]
  BY <1>1 DEF Facts
<1>3. ~wedged
  BY DEF ThreadsAgree, WedgeInv
<1>4. /\ Cancelled(t) \in [Actors -> Outcomes] /\ Cancelled(t)[t] = "cancelled"
      /\ \A x \in Actors : x # t => Cancelled(t)[x] = outcome[x]
  BY <1>1 DEF Facts, Cancelled, Outcomes
<1>5. /\ pcs \in Places /\ pcs[t] = label /\ HandBack(Cancelled(t), pcs)
      /\ \A x \in Actors : x # t => pcs[x] = pc[x]
  BY <1>1, Line, TurnGoes DEF Facts, TurnPcs
<1> HIDE DEF pcs
<1> QED BY <1>2, <1>3, <1>4, <1>5, HandBackKeeps

\* Turn t finds its ticket off the deque when it comes to withdraw it.
LEMMA WithdrawnKeeps ==
    ASSUME TypeOK, TypeOK', ThreadsAgree, NEW t \in Turns, Withdraw(t), ~Waits(t)
    PROVE  ThreadsAgree'
<1>1. Facts(t)
  BY TurnFacts
<1>2. /\ pc[t] = "withdraw" /\ UNCHANGED queueVars /\ UNCHANGED Tickets
      /\ pc' = [pc EXCEPT ![t] = "ended"]
  BY DEF Withdraw, Tickets, ticketVars, Goto
<1>3. /\ pc'[t] = "ended" /\ \A x \in Actors : x # t => pc'[x] = pc[x]
      /\ t \in Actors /\ t \notin Doors
  BY <1>1, <1>2 DEF Facts
<1>4. LineInv'
  BY <1>2, <1>3, Line DEF LineInv, ThreadsAgree, queueVars, Tickets, Waits, Actors
<1>5. LockInv'
  <2>1. ASSUME NEW u \in Turns, running' = u
        PROVE  /\ outcome'[u] = "ready"
               /\ pc'[u] \in TurnHolds \cup InLine \cup Leaving \/ Stranded(u)'
               /\ pc'[u] = "withdraw" => "pending" \in Drops
    <3>1. CASE u = t
      BY <1>2, <1>3, <2>1, <3>1 DEF ThreadsAgree, LockInv, queueVars, Stranded
    <3>2. CASE u # t
      BY <1>2, <1>3, <2>1, <3>2
         DEF ThreadsAgree, LockInv, queueVars, Stranded, Actors, Tickets
    <3> QED BY <3>1, <3>2
  <2>2. /\ \A d \in Doors : pc'[d] = pc[d]
        /\ \A u \in Turns : pc'[u] \in TurnHolds => pc[u] \in TurnHolds
    BY <1>3 DEF Actors, TurnHolds
  <2>3. /\ \A u \in Turns : lock' = u <=> running' = u
        /\ \A u \in Turns : pc'[u] \in TurnHolds => running' = u
        /\ \A d \in Doors : lock' = d <=> pc'[d] \in DoorHolds
        /\ \A d \in Doors : running' = d <=> pc'[d] \in {"named", "summarising"}
    BY <1>2, <2>2 DEF ThreadsAgree, LockInv, queueVars
  <2> QED BY <2>1, <2>3 DEF LockInv
<1>6. TicketInv'
  BY <1>2, <1>3
     DEF TicketInv, ThreadsAgree, queueVars, Tickets, InLine, Leaving, Started, TurnHolds, Actors
<1>7. WedgeInv'
  BY <1>2, <1>3 DEF WedgeInv, ThreadsAgree, queueVars, Tickets, Builds, Actors
<1> QED BY <1>4, <1>5, <1>6, <1>7 DEF ThreadsAgree

\* The aftercare of Chat turn t goes on as door d.
LEMMA CompactLooksKeeps ==
    ASSUME TypeOK, TypeOK', ThreadsAgree, NEW d \in Doors, NEW t \in Chats, CompactLooks(d, t)
    PROVE  ThreadsAgree'
<1>1. /\ t \in Turns /\ Facts(t) /\ DoorFacts(d)
  BY TurnFacts, OneDoor
<1>2. /\ pc[t] = "aftercare" /\ pc[d] = "idle" /\ running # t
      /\ UNCHANGED queueVars /\ UNCHANGED Tickets
  BY <1>1 DEF CompactLooks, Facts, Tickets, TurnHolds, InLine, Leaving, Stranded
<1>3. /\ pc'[t] = "ended" /\ pc'[d] = "compactTry" /\ d # t
      /\ \A x \in Actors : x # t /\ x # d => pc'[x] = pc[x]
      /\ \A u \in Turns : u # t => pc'[u] = pc[u]
  BY <1>1 DEF CompactLooks, Facts, DoorFacts, Actors
<1>4. LineInv'
  BY <1>2, <1>3, Line DEF LineInv, ThreadsAgree, queueVars, Tickets, InLine, Leaving
<1>5. LockInv'
  BY <1>1, <1>2, <1>3
     DEF LockInv, ThreadsAgree, queueVars, Tickets, DoorFacts, DoorHolds, Actors, TurnHolds, Stranded
<1>6. TicketInv'
  BY <1>1, <1>2, <1>3
     DEF TicketInv, ThreadsAgree, queueVars, Tickets, InLine, Leaving, Started, TurnHolds
<1>7. WedgeInv'
  BY <1>2, <1>3 DEF WedgeInv, ThreadsAgree, queueVars, Tickets, Builds
<1> QED BY <1>4, <1>5, <1>6, <1>7 DEF ThreadsAgree

\* HolderInv is inductive: the types and the agreement about the holder.
LEMMA HolderStep == HolderInv /\ [Next]_vars => HolderInv'
<1> SUFFICES ASSUME HolderInv, [Next]_vars PROVE HolderInv'
  OBVIOUS
<1>a. TypeOK /\ ThreadsAgree
  BY DEF HolderInv, ThreadsAgree
<1>b. TypeOK'
  BY <1>a, TypeStep DEF ThreadsAgree
<1>c. SUFFICES ThreadsAgree'
  BY <1>b DEF HolderInv, ThreadsAgree
<1>1. ASSUME NEW t \in Turns, TurnStep(t) PROVE ThreadsAgree'
  <2>a. Facts(t)
    BY <1>a, TurnFacts
  <2>1. CASE \/ Ask(t) \/ Stamp(t) \/ Claim(t) \/ Check(t) \/ Await(t) \/ WakeUp(t)
             \/ SameContext(t) \/ Granted(t) \/ TurnEnds(t) \/ AftercareEnds(t) \/ Cleanup(t)
    BY <1>a, <1>b, <2>1, TurnMovesKeep
  <2>2. CASE Admit(t)
    BY <1>a, <1>b, <2>2, AdmitKeeps
  <2>3. CASE Poll(t)
    BY <1>a, <1>b, <2>3, PollKeeps
  <2>4. CASE ContextChanged(t)
    <3> DEFINE pcs == [pc EXCEPT ![t] = "cleanup"]
    <3>1. /\ pc[t] = "recheck" /\ running = t /\ lock = t /\ ~wedged
          /\ claimed[t] /\ outcome[t] = "ready"
      BY <2>4, <2>a DEF ContextChanged, Facts, TurnHolds, Started
    <3>2. /\ pcs \in Places /\ pcs[t] = "cleanup"
          /\ \A x \in Actors : x # t => pcs[x] = pc[x]
      BY <1>a, <2>a, TurnGoes, TypeParts DEF Facts, TurnPcs
    <3>3. UNCHANGED Tickets /\ HandBack(outcome, pcs)
      BY <2>4 DEF ContextChanged, Tickets, ticketVars
    <3> HIDE DEF pcs
    <3> QED BY <1>a, <1>b, <2>a, <3>1, <3>2, <3>3, HandBackKeeps DEF Facts, InLine
  <2>5. CASE Withdraw(t)
    <3>1. CASE Waits(t)
      <4>1. /\ LeaveAs(RemoveFirst(waiting, t), lock, running, Cancelled(t))
            /\ Goto(t, "ended") /\ UNCHANGED Tickets
        BY <2>5, <3>1 DEF Withdraw, Tickets, ticketVars
      <4> QED BY <1>a, <1>b, <3>1, <4>1, LeavesTheLine
    <3>2. CASE ~Waits(t)
      BY <1>a, <1>b, <2>5, <2>a, <3>2, WithdrawnKeeps
    <3> QED BY <3>1, <3>2
  <2>6. CASE GiveBack(t)
    <3> DEFINE label == IF t \in Chats /\ granted[t] THEN "aftercare" ELSE "ended"
               pcs == [pc EXCEPT ![t] = label]
    <3>1. /\ pc[t] = "giveback" /\ running = t /\ lock = t /\ ~wedged
          /\ claimed[t] /\ outcome[t] = "ready"
      BY <2>6, <2>a DEF GiveBack, Facts, TurnHolds, Started
    <3>2. /\ pcs \in Places /\ pcs[t] \in {"aftercare", "ended"}
          /\ \A x \in Actors : x # t => pcs[x] = pc[x]
      BY <1>a, <2>a, TurnGoes, TypeParts DEF Facts, TurnPcs
    <3>3. UNCHANGED Tickets /\ HandBack(outcome, pcs)
      BY <2>6 DEF GiveBack, Tickets, ticketVars
    <3> HIDE DEF pcs
    <3> QED BY <1>a, <1>b, <2>a, <3>1, <3>2, <3>3, HandBackKeeps DEF Facts, InLine
  <2>7. CASE FailPending(t)
    BY <1>a, <1>b, <2>7, FailPendingKeeps
  <2> QED BY <1>1, <2>1, <2>2, <2>3, <2>4, <2>5, <2>6, <2>7 DEF TurnStep
<1>2. ASSUME NEW d \in Doors, DoorStep(d) PROVE ThreadsAgree'
  <2>a. DoorFacts(d)
    BY <1>a, OneDoor
  <2>b. /\ [pc EXCEPT ![d] = "gone"] \in Places
        /\ \A x \in Actors : x # d => [pc EXCEPT ![d] = "gone"][x] = pc[x]
        /\ [pc EXCEPT ![d] = "gone"][d] = "gone"
    BY <1>a, <2>a, DoorGoes, TypeParts DEF DoorFacts, DoorPcs
  <2>c. pc[d] \in DoorHolds => lock = d /\ ~wedged
    BY <1>a, <2>a DEF DoorFacts, ThreadsAgree, WedgeInv, LockInv, Builds
  <2>d. ASSUME pc[d] \in DoorHolds, HandBack(outcome, [pc EXCEPT ![d] = "gone"]),
               UNCHANGED Tickets
        PROVE  ThreadsAgree'
    <3> DEFINE pcs == [pc EXCEPT ![d] = "gone"]
    <3>1. /\ pcs \in Places /\ pcs[d] = "gone" /\ HandBack(outcome, pcs)
          /\ \A x \in Actors : x # d => pcs[x] = pc[x]
      BY <2>b, <2>d
    <3>2. /\ d \in Actors /\ d \notin Turns /\ lock = d /\ ~wedged
          /\ outcome \in [Actors -> Outcomes]
      BY <1>a, <2>a, <2>c, <2>d, Line DEF DoorFacts
    <3> HIDE DEF pcs
    <3> QED BY <1>a, <1>b, <2>d, <3>1, <3>2, HandBackKeeps
  <2>1. CASE DoorNames(d)
    BY <1>a, <1>b, <2>1, NameHolderKeeps DEF DoorNames
  <2>2. CASE DoorLeaves(d)
    BY <2>2, <2>d DEF DoorLeaves, DoorHolds, Tickets, ticketVars
  <2>3. CASE DoorLeavesRaw(d)
    BY <1>a, <1>b, <2>3, DoorLeavesRawKeeps
  <2>4. CASE CompactTries(d)
    <3>1. CASE lock = Free
      BY <1>a, <1>b, <2>4, <3>1, DoorTakes DEF CompactTries, Tickets, ticketVars
    <3>2. CASE lock # Free
      <4>1. /\ pc[d] = "compactTry" /\ UNCHANGED queueVars /\ UNCHANGED Tickets
            /\ pc' = [pc EXCEPT ![d] = "gone"]
        BY <2>4, <3>2 DEF CompactTries, Tickets, ticketVars, Goto
      <4> QED BY <1>a, <2>a, <4>1, DoorMoves
    <3> QED BY <3>1, <3>2
  <2>5. CASE CompactChecks(d)
    <3>1. CASE /\ HandBack(outcome, [pc EXCEPT ![d] = "gone"])
               /\ UNCHANGED <<ticketVars, lastSequence, context, wedged>>
      BY <2>5, <2>d, <3>1 DEF CompactChecks, DoorHolds, Tickets, ticketVars
    <3>2. CASE NameHolder(d, "summarising")
      BY <1>a, <1>b, <2>5, <3>2, NameHolderKeeps DEF CompactChecks
    <3> QED BY <2>5, <3>1, <3>2 DEF CompactChecks
  <2> QED BY <1>2, <2>1, <2>2, <2>3, <2>4, <2>5 DEF DoorStep
<1>3. CASE Outside
  <2>1. CASE EditContext
    BY <1>a, <2>1 DEF EditContext, queueVars, ticketVars, ThreadsAgree, LineInv, LockInv,
       TicketInv, WedgeInv, Stranded
  <2>2. ASSUME NEW t \in Turns, HangUp(t) \/ Wedge(t) PROVE ThreadsAgree'
    BY <1>a, <1>b, <2>2, TurnMovesKeep
  <2>3. ASSUME NEW t \in Turns, StopExact(t) PROVE ThreadsAgree'
    <3>1. CASE /\ Waits(t) /\ UNCHANGED pc
               /\ PromoteHead(RemoveFirst(waiting, t), lock, running, Cancelled(t))
      BY <1>a, <1>b, <2>3, <3>1, LeavesTheLine DEF StopExact, Tickets, ticketVars
    <3>2. CASE ~Waits(t) /\ running = t /\ ~claimed[t] /\ HandBack(Cancelled(t), pc)
      <4>1. UNCHANGED Tickets
        BY <2>3 DEF StopExact, Tickets, ticketVars
      <4> QED BY <1>a, <1>b, <3>2, <4>1, StopKeeps
    <3> QED BY <2>3, <3>1, <3>2 DEF StopExact
  <2>4. ASSUME NEW t \in Turns, Cancel(t) PROVE ThreadsAgree'
    BY <1>a, <1>b, <2>4, LeavesTheLine DEF Cancel, Tickets, ticketVars
  <2>5. ASSUME NEW t \in Turns, NEW label \in {"ended", "routed"}, Abandon(t, label)
        PROVE  ThreadsAgree'
    <3>a. pc[t] = "routed" /\ ~claimed[t] /\ UNCHANGED Tickets
      BY <2>5 DEF Abandon, Tickets, ticketVars
    <3>1. CASE running = t /\ HandBack(Cancelled(t), [pc EXCEPT ![t] = label])
      BY <1>a, <1>b, <3>a, <3>1, AbandonKeeps
    <3>2. CASE /\ Waits(t) /\ Goto(t, label)
               /\ PromoteHead(RemoveFirst(waiting, t), lock, running, Cancelled(t))
      BY <1>a, <1>b, <3>a, <3>2, LeavesTheLine
    <3>3. CASE running # t /\ ~Waits(t) /\ Goto(t, "ended") /\ UNCHANGED queueVars
      <4>1. Facts(t)
        BY <1>a, TurnFacts
      <4> QED BY <1>a, <1>b, <3>3, <3>a, <4>1, TurnMoves
              DEF Facts, queueVars, Goto, Tickets, TurnHolds, InLine, Leaving, Started
    <3> QED BY <2>5, <3>1, <3>2, <3>3 DEF Abandon
  <2>6. ASSUME NEW d \in Doors, DoorEnters(d) PROVE ThreadsAgree'
    BY <1>a, <1>b, <2>6, DoorTakes DEF DoorEnters, Tickets, ticketVars
  <2>7. ASSUME NEW d \in Doors, NEW t \in Chats, CompactLooks(d, t) PROVE ThreadsAgree'
    BY <1>a, <1>b, <2>7, CompactLooksKeeps
  <2> QED BY <1>3, <2>1, <2>2, <2>3, <2>4, <2>5, <2>6, <2>7 DEF Outside
<1>4. CASE UNCHANGED vars
  BY <1>a, <1>4 DEF vars, queueVars, ticketVars, ThreadsAgree, LineInv, LockInv,
     TicketInv, WedgeInv, Stranded
<1> QED BY <1>1, <1>2, <1>3, <1>4 DEF Next
-----------------------------------------------------------------------------
(***************************************************************************)
(* The theorems.                                                           *)
(***************************************************************************)

\* The types and the agreement about the holder hold in every behaviour.
THEOREM HolderAlways == Spec => []HolderInv
<1>1. Init => HolderInv
  BY InitHolder
<1>2. HolderInv /\ [Next]_vars => HolderInv'
  BY HolderStep
<1> QED BY <1>1, <1>2, PTL DEF Spec

\* Type correctness: every variable of the queue, of the tickets and of the
\* threads keeps its type (`_TurnQueue`, `_TurnTicket`).
THEOREM TypeCorrect == Spec => []TypeOK
<1>1. HolderInv => TypeOK
  BY DEF HolderInv
<1> QED BY <1>1, HolderAlways, PTL

\* Mutual exclusion: whoever may touch the working tree is the holder of
\* `_turn_lock`, for any number of turns and doors, whatever is stopped,
\* cancelled, dropped or abandoned meanwhile.
THEOREM MutualExclusion == Spec => []OneInTree
<1>1. HolderInv => OneInTree
  BY DEF HolderInv, LockInv, OneInTree, InTree, TurnHolds, DoorHolds, Actors, TypeOK,
         TurnPcs, DoorPcs
<1> QED BY <1>1, HolderAlways, PTL

\* The ticket `_TurnQueue.running` names holds the lock and somebody is there to
\* give it back, unless the workspace wedged.  This is so when no caller drops the
\* generator at the `pending` row; with such a caller a run shows the lock stranded.
THEOREM HolderIsLive == ASSUME "pending" \notin Drops PROVE Spec => []RunningIsLive
<1>1. HolderInv => RunningIsLive
  <2> SUFFICES ASSUME HolderInv, running # Free PROVE RunningIsLive
    BY DEF RunningIsLive
  <2>1. CASE running \in Turns
    BY <2>1 DEF HolderInv, LockInv, RunningIsLive, TurnHolds, InLine, Leaving, Stranded
  <2>2. CASE running \in Doors
    BY <2>2 DEF HolderInv, LockInv, RunningIsLive, DoorHolds
  <2> QED BY <2>1, <2>2 DEF HolderInv, TypeOK, Actors
<1> QED BY <1>1, HolderAlways, PTL

\* No ticket is left on the deque by a thread that has gone: the `finally` of
\* `_acquire_turn` and `abandon_unclaimed` cover every way out.
THEOREM NobodyIsMissing == Spec => []NobodyMissing
<1>1. HolderInv => NobodyMissing
  BY DEF HolderInv, LineInv, NobodyMissing, InLine, Leaving, Waits
<1> QED BY <1>1, HolderAlways, PTL

\* A ticket that `cancel`, `stop_exact`, `abandon_unclaimed` or `fail_pending`
\* took out of the queue is never granted the turn afterwards.
THEOREM CancelledIsFinal == Spec => []CancelledNeverRuns
<1>1. HolderInv => CancelledNeverRuns
  BY DEF HolderInv, TicketInv, CancelledNeverRuns, TypeOK, Actors
<1> QED BY <1>1, HolderAlways, PTL

\* `name_holder` never finds another holder, so its RuntimeError is unreachable.
THEOREM NameHolderNeverRaises == Spec => []HolderIsFree
<1>1. HolderInv => HolderIsFree
  <2> SUFFICES ASSUME HolderInv, NEW d \in Doors, pc[d] \in {"entered", "compactCheck"}
               PROVE  running = Free
    BY DEF HolderIsFree
  <2>1. lock = d /\ d \notin Turns
    BY DEF HolderInv, LockInv, DoorHolds
  <2>2. \A t \in Turns : running # t
    BY <2>1 DEF HolderInv, LockInv
  <2>3. \A e \in Doors : running # e
    BY <2>1 DEF HolderInv, LockInv, DoorHolds
  <2> QED BY <2>2, <2>3 DEF HolderInv, TypeOK, Actors
<1> QED BY <1>1, HolderAlways, PTL

\* A wedged workspace keeps its lock for good: no release, Stop, hang-up or
\* abandoned response hands on the lock of a session that would not stop.
THEOREM WedgedLockStays == Spec => WedgeKeepsLock
<1>1. HolderInv /\ [Next]_vars => (wedged => lock' = lock)
  <2> SUFFICES ASSUME HolderInv, [Next]_vars, wedged PROVE lock' = lock
    OBVIOUS
  <2>a. TypeOK /\ ThreadsAgree
    BY DEF HolderInv, ThreadsAgree
  <2>b. PICK h \in Builds : running = h /\ pc[h] \in {"wedging", "unwinding", "ended"}
                            /\ claimed[h]
    BY DEF HolderInv, WedgeInv
  <2>c. lock = h /\ h \in Turns /\ lock # Free
    BY <2>b DEF HolderInv, LockInv, Builds, Actors
  <2>1. ASSUME NEW t \in Turns, TurnStep(t) PROVE lock' = lock
    <3>1. Facts(t)
      BY <2>a, TurnFacts
    <3>2. ~ContextChanged(t) /\ ~GiveBack(t)
      BY <2>b, <3>1 DEF ContextChanged, GiveBack, Facts, TurnHolds
    <3>3. ~Poll(t)
      BY <2>c DEF Poll, CanTake
    <3>4. CASE Admit(t)
      BY <2>c, <3>4 DEF Admit, CanTake, LeaveAs
    <3>5. CASE Withdraw(t) \/ FailPending(t)
      BY <3>5 DEF Withdraw, FailPending, LeaveAs, queueVars
    <3>6. CASE \/ Ask(t) \/ Stamp(t) \/ Claim(t) \/ Check(t) \/ Await(t) \/ WakeUp(t)
               \/ SameContext(t) \/ Granted(t) \/ TurnEnds(t) \/ AftercareEnds(t)
               \/ Cleanup(t)
      BY <3>6 DEF Ask, Cleanup, Stamp, Claim, Check, Await, WakeUp, SameContext, Granted, TurnEnds,
         AftercareEnds, queueVars
    <3> QED BY <2>1, <3>2, <3>3, <3>4, <3>5, <3>6 DEF TurnStep
  <2>2. ASSUME NEW d \in Doors, DoorStep(d) PROVE lock' = lock
    <3>1. DoorFacts(d)
      BY <2>a, OneDoor
    <3>2. pc[d] \notin DoorHolds
      BY <2>c, <3>1 DEF DoorFacts
    <3> QED BY <2>2, <2>c, <3>2
            DEF DoorStep, DoorNames, DoorLeaves, DoorLeavesRaw, CompactTries, CompactChecks,
                DoorHolds, queueVars
  <2>3. CASE Outside
    <3>1. ASSUME NEW t \in Turns, HangUp(t) \/ Wedge(t) \/ Cancel(t) PROVE lock' = lock
      BY <3>1 DEF HangUp, Wedge, Cancel, LeaveAs, queueVars
    <3>2. ASSUME NEW t \in Turns, StopExact(t) PROVE lock' = lock
      BY <2>b, <2>c, <3>2 DEF StopExact, PromoteHead, LeaveAs
    <3>3. ASSUME NEW t \in Turns, NEW label, Abandon(t, label) PROVE lock' = lock
      BY <2>b, <2>c, <3>3 DEF Abandon, PromoteHead, LeaveAs, queueVars
    <3>4. CASE EditContext
      BY <3>4 DEF EditContext, queueVars
    <3>5. ASSUME NEW d \in Doors, DoorEnters(d) PROVE lock' = lock
      BY <2>c, <3>5 DEF DoorEnters
    <3>6. ASSUME NEW d \in Doors, NEW t \in Chats, CompactLooks(d, t) PROVE lock' = lock
      BY <3>6 DEF CompactLooks, queueVars
    <3> QED BY <2>3, <3>1, <3>2, <3>3, <3>4, <3>5, <3>6 DEF Outside
  <2>4. CASE UNCHANGED vars
    BY <2>4 DEF vars, queueVars
  <2> QED BY <2>1, <2>2, <2>3, <2>4 DEF Next
<1>2. HolderInv /\ [Next]_vars => [wedged => lock' = lock]_vars
  BY <1>1
<1> QED BY <1>2, HolderAlways, PTL DEF Spec, WedgeKeepsLock
-----------------------------------------------------------------------------
(***************************************************************************)
(* The order of the line.                                                  *)
(***************************************************************************)
\* The numbers q gives the tickets of s grow along s.
Grows(s, q) == \A i, j \in 1..Len(s) : i < j => q[s[i]] < q[s[j]]

LEMMA GrowsAppend ==
    ASSUME NEW S, NEW s \in Seq(S), NEW e \in S, NEW q, Grows(s, q),
           \A x \in ToSet(s) : q[x] < q[e]
    PROVE  Grows(Append(s, e), q)
<1>1. /\ Len(Append(s, e)) = Len(s) + 1
      /\ \A i \in 1..Len(s) : Append(s, e)[i] = s[i] /\ s[i] \in ToSet(s)
      /\ Append(s, e)[Len(s) + 1] = e
      /\ Len(s) \in Nat
  BY DEF ToSet
<1>2. SUFFICES ASSUME NEW i \in 1..Len(s) + 1, NEW j \in 1..Len(s) + 1, i < j
               PROVE  q[Append(s, e)[i]] < q[Append(s, e)[j]]
  BY <1>1 DEF Grows
<1>3. CASE j = Len(s) + 1
  BY <1>1, <1>2, <1>3
<1>4. CASE j # Len(s) + 1
  BY <1>1, <1>2, <1>4 DEF Grows
<1> QED BY <1>3, <1>4

\* The tail of a line that grows does too, and its head has the least number.
LEMMA GrowsTail ==
    ASSUME NEW S, NEW s \in Seq(S), s # <<>>, NEW q, Grows(s, q)
    PROVE  /\ Grows(Tail(s), q)
           /\ \A x \in ToSet(Tail(s)) : q[Head(s)] < q[x]
<1>1. /\ Len(s) \in Nat \ {0}
      /\ Head(s) = s[1]
      /\ Tail(s) \in Seq(S)
      /\ Len(Tail(s)) = Len(s) - 1
      /\ \A i \in 1..Len(s) - 1 : Tail(s)[i] = s[i + 1]
  BY EmptySeq, HeadTailProperties
<1>2. Grows(Tail(s), q)
  BY <1>1 DEF Grows
<1>3. ASSUME NEW x \in ToSet(Tail(s)) PROVE q[Head(s)] < q[x]
  <2>1. PICK i \in 1..Len(s) - 1 : x = s[i + 1]
    BY <1>1, LenProperties DEF ToSet
  <2> QED BY <1>1, <2>1 DEF Grows
<1> QED BY <1>2, <1>3

LEMMA GrowsRemove ==
    ASSUME NEW S, NEW s \in Seq(S), NEW e \in ToSet(s), Distinct(s), NEW q, Grows(s, q)
    PROVE  Grows(RemoveFirst(s, e), q)
<1>1. PICK i \in 1..Len(s) :
         /\ Len(RemoveFirst(s, e)) = Len(s) - 1
         /\ \A j \in 1..Len(s) - 1 :
               RemoveFirst(s, e)[j] = IF j < i THEN s[j] ELSE s[j + 1]
  BY RemoveFacts
<1> QED BY <1>1 DEF Grows

LEMMA GrowsSame ==
    ASSUME NEW S, NEW s \in Seq(S), NEW q, NEW r, Grows(s, q),
           \A x \in ToSet(s) : q[x] = r[x]
    PROVE  Grows(s, r)
<1>1. \A i \in 1..Len(s) : q[s[i]] = r[s[i]]
  BY DEF ToSet
<1> QED BY <1>1 DEF Grows

LEMMA GrowsIsInOrder == InOrder <=> Grows(waiting, sequence)
  BY DEF InOrder, Grows

\* A step keeps the line in order, and whoever it gives the turn was first.
InTurn ==
    /\ Grows(waiting', sequence')
    /\ \A a \in Actors : sequence'[a] <= lastSequence'
    /\ \/ running' \notin Turns \/ running' = running
       \/ \A u \in ToSet(waiting') : sequence'[running'] < sequence'[u]

LEMMA PromoteInTurn ==
    ASSUME NEW w \in Seq(Turns), Grows(w, sequence), NEW l, NEW r, NEW out,
           r \in {running, Free}, PromoteHead(w, l, r, out),
           \A a \in Actors : sequence[a] <= lastSequence,
           UNCHANGED <<sequence, lastSequence>>
    PROVE  InTurn
<1>1. CASE w # <<>> /\ Take(Head(w), w, out)
  BY <1>1, GrowsTail DEF Take, InTurn
<1>2. CASE LeaveAs(w, l, r, out)
  BY <1>2 DEF LeaveAs, InTurn, Actors
<1> QED BY <1>1, <1>2 DEF PromoteHead

LEMMA HandBackInTurn ==
    ASSUME waiting \in Seq(Turns), Grows(waiting, sequence), NEW out, NEW pcs,
           HandBack(out, pcs),
           \A a \in Actors : sequence[a] <= lastSequence,
           UNCHANGED <<sequence, lastSequence>>
    PROVE  InTurn
<1>1. CASE PromoteHead(waiting, Free, Free, out)
  BY <1>1, PromoteInTurn
<1>2. CASE \E d \in Doors : LeaveAs(waiting, d, Free, out)
  BY <1>2 DEF LeaveAs, InTurn, Actors
<1> QED BY <1>1, <1>2 DEF HandBack

\* A step that touches neither the line, nor the named holder, nor the numbers.
LEMMA StillInTurn ==
    ASSUME Grows(waiting, sequence), \A a \in Actors : sequence[a] <= lastSequence,
           UNCHANGED <<waiting, running, sequence, lastSequence>>
    PROVE  InTurn
  BY DEF InTurn

LEMMA OrderStep == IInv /\ [Next]_vars => InTurn
<1> SUFFICES ASSUME IInv, [Next]_vars PROVE InTurn
  OBVIOUS
<1>a. /\ TypeOK /\ ThreadsAgree /\ Grows(waiting, sequence)
      /\ \A a \in Actors : sequence[a] <= lastSequence
  BY GrowsIsInOrder DEF IInv, HolderInv, ThreadsAgree, OrderInv
<1>b. /\ waiting \in Seq(Turns) /\ Distinct(waiting) /\ ToSet(waiting) \subseteq Turns
      /\ sequence \in [Actors -> Nat] /\ lastSequence \in Nat
  BY <1>a, Line DEF TypeOK
<1>c. ASSUME NEW t \in Turns, Waits(t)
      PROVE  /\ RemoveFirst(waiting, t) \in Seq(Turns)
             /\ Grows(RemoveFirst(waiting, t), sequence)
  BY <1>a, <1>b, <1>c, RemoveFacts, GrowsRemove DEF Waits
<1>d. ASSUME NEW a \in Actors, NumberTicket(a)
      PROVE  /\ \A x \in Actors : sequence'[x] <= lastSequence'
             /\ sequence'[a] = lastSequence + 1
             /\ \A x \in Actors : x # a => sequence'[x] = sequence[x]
  BY <1>a, <1>b, <1>d DEF NumberTicket
<1>e. ASSUME NEW d \in Doors, NEW label, NameHolder(d, label) PROVE InTurn
  <2>1. /\ NumberTicket(d) /\ waiting' = waiting /\ running' = d
        /\ d \in Actors /\ d \notin Turns
    BY <1>e DEF NameHolder, LeaveAs, Actors
  <2>2. Grows(waiting, sequence')
    BY <1>a, <1>b, <1>d, <2>1, GrowsSame DEF Actors
  <2> QED BY <1>d, <2>1, <2>2 DEF InTurn
<1>1. ASSUME NEW t \in Turns, TurnStep(t) PROVE InTurn
  <2>1. CASE \/ Ask(t) \/ Stamp(t) \/ Claim(t) \/ Check(t) \/ Await(t) \/ WakeUp(t)
             \/ SameContext(t) \/ Granted(t) \/ TurnEnds(t) \/ AftercareEnds(t)
             \/ Cleanup(t)
    <3>1. UNCHANGED <<waiting, running, sequence, lastSequence>>
      BY <2>1 DEF Ask, Cleanup, Stamp, Claim, Check, Await, WakeUp, SameContext, Granted, TurnEnds,
         AftercareEnds, queueVars, ticketVars
    <3> QED BY <1>a, <3>1, StillInTurn
  <2>2. CASE Admit(t)
    <3> DEFINE w == Append(waiting, t)
    <3>1. ~Waits(t) /\ t \in Actors /\ NumberTicket(t)
      BY <1>a, <2>2, TurnFacts DEF Admit, Facts, InLine, Leaving
    <3>2. Grows(waiting, sequence')
      BY <1>a, <1>b, <1>d, <3>1, GrowsSame DEF Actors, Waits
    <3>3. \A x \in ToSet(waiting) : sequence'[x] < sequence'[t]
      <4>1. ASSUME NEW x \in ToSet(waiting) PROVE sequence'[x] < sequence'[t]
        <5>1. x \in Actors /\ x # t /\ sequence[x] \in Nat
          BY <1>b, <3>1 DEF Actors, Waits
        <5> QED BY <1>a, <1>b, <1>d, <3>1, <5>1
      <4> QED BY <4>1
    <3>4. Grows(w, sequence') /\ w \in Seq(Turns)
      BY <1>b, <3>2, <3>3, GrowsAppend
    <3>5. CASE CanTake(t, w, lock) /\ Take(t, w, outcome)
      <4>1. w # <<>> /\ Head(w) = t /\ waiting' = Tail(w) /\ running' = t
        BY <3>5 DEF CanTake, Take
      <4> HIDE DEF w
      <4> QED BY <1>d, <3>1, <3>4, <4>1, GrowsTail DEF InTurn
    <3>6. CASE LeaveAs(w, lock, running, outcome)
      <4>1. waiting' = w /\ running' = running
        BY <3>6 DEF LeaveAs
      <4> HIDE DEF w
      <4> QED BY <1>d, <3>1, <3>4, <4>1 DEF InTurn
    <3> QED BY <2>2, <3>5, <3>6 DEF Admit
  <2>3. CASE Poll(t)
    BY <1>a, <1>b, <2>3, GrowsTail DEF Poll, CanTake, Take, ticketVars, InTurn
  <2>4. CASE ContextChanged(t) \/ GiveBack(t)
    BY <1>a, <1>b, <2>4, HandBackInTurn DEF ContextChanged, GiveBack, ticketVars
  <2>5. CASE Withdraw(t)
    <3>1. CASE Waits(t) /\ LeaveAs(RemoveFirst(waiting, t), lock, running, Cancelled(t))
      BY <1>a, <1>c, <2>5, <3>1 DEF Withdraw, LeaveAs, ticketVars, InTurn
    <3>2. CASE UNCHANGED queueVars
      BY <1>a, <2>5, <3>2, StillInTurn DEF Withdraw, queueVars, ticketVars
    <3> QED BY <2>5, <3>1, <3>2 DEF Withdraw
  <2>6. CASE FailPending(t)
    <3>1. waiting' = <<>> /\ UNCHANGED <<running, sequence, lastSequence>>
      BY <2>6 DEF FailPending, LeaveAs, ticketVars
    <3>2. Grows(<<>>, sequence')
      BY DEF Grows
    <3> QED BY <1>a, <3>1, <3>2 DEF InTurn
  <2> QED BY <1>1, <2>1, <2>2, <2>3, <2>4, <2>5, <2>6 DEF TurnStep
<1>2. ASSUME NEW d \in Doors, DoorStep(d) PROVE InTurn
  <2>1. CASE DoorNames(d)
    BY <1>e, <2>1 DEF DoorNames
  <2>2. CASE DoorLeaves(d)
    BY <1>a, <1>b, <2>2, HandBackInTurn DEF DoorLeaves, ticketVars
  <2>3. CASE DoorLeavesRaw(d) \/ CompactTries(d)
    BY <1>a, <2>3, StillInTurn
       DEF DoorLeavesRaw, CompactTries, LeaveAs, queueVars, ticketVars
  <2>4. CASE CompactChecks(d)
    BY <1>a, <1>b, <1>e, <2>4, HandBackInTurn DEF CompactChecks, ticketVars
  <2> QED BY <1>2, <2>1, <2>2, <2>3, <2>4 DEF DoorStep
<1>3. CASE Outside
  <2>1. CASE EditContext
    BY <1>a, <2>1, StillInTurn DEF EditContext, queueVars, ticketVars
  <2>2. ASSUME NEW t \in Turns, HangUp(t) \/ Wedge(t) PROVE InTurn
    BY <1>a, <2>2, StillInTurn DEF HangUp, Wedge, queueVars, ticketVars
  <2>3. ASSUME NEW t \in Turns, StopExact(t) PROVE InTurn
    BY <1>a, <1>b, <1>c, <2>3, PromoteInTurn, HandBackInTurn DEF StopExact, ticketVars
  <2>4. ASSUME NEW t \in Turns, Cancel(t) PROVE InTurn
    BY <1>a, <1>c, <2>4 DEF Cancel, LeaveAs, ticketVars, InTurn
  <2>5. ASSUME NEW t \in Turns, NEW label, Abandon(t, label) PROVE InTurn
    BY <1>a, <1>b, <1>c, <2>5, PromoteInTurn, HandBackInTurn, StillInTurn
       DEF Abandon, queueVars, ticketVars
  <2>6. ASSUME NEW d \in Doors, DoorEnters(d) PROVE InTurn
    BY <1>a, <2>6, StillInTurn DEF DoorEnters, LeaveAs, ticketVars
  <2>7. ASSUME NEW d \in Doors, NEW t \in Chats, CompactLooks(d, t) PROVE InTurn
    BY <1>a, <2>7, StillInTurn DEF CompactLooks, queueVars
  <2> QED BY <1>3, <2>1, <2>2, <2>3, <2>4, <2>5, <2>6, <2>7 DEF Outside
<1>4. CASE UNCHANGED vars
  BY <1>a, <1>4, StillInTurn DEF vars, queueVars, ticketVars
<1> QED BY <1>1, <1>2, <1>3, <1>4 DEF Next

\* A turn is still before its admission only if it was, and has its old number.
LEMMA StillFresh ==
    ASSUME FreshInv,
           \A t \in Turns : pc'[t] \in {"asked", "joining"} =>
               pc[t] \in {"asked", "joining"} /\ sequence'[t] = sequence[t]
    PROVE  FreshInv'
  BY DEF FreshInv

\* A step that numbers no ticket and moves no thread before its admission.
NobodyNew ==
    /\ sequence' = sequence
    /\ \A t \in Turns : pc'[t] \in {"asked", "joining"} => pc[t] \in {"asked", "joining"}

LEMMA HandBackMoves ==
    ASSUME NEW out, NEW pcs \in Places, HandBack(out, pcs)
    PROVE  \A t \in Turns : pc'[t] = pcs[t]
  BY DEF HandBack, Places, Actors

LEMMA FreshStep == HolderInv /\ FreshInv /\ [Next]_vars => FreshInv'
<1> SUFFICES ASSUME HolderInv, FreshInv, [Next]_vars PROVE FreshInv'
  OBVIOUS
<1>a. pc \in Places /\ sequence \in [Actors -> Nat]
  BY TypeParts DEF HolderInv, TicketsOK
<1>b. NobodyNew => FreshInv'
  BY StillFresh DEF NobodyNew
<1>1. ASSUME NEW t \in Turns, TurnStep(t) PROVE FreshInv'
  <2>1. CASE Admit(t)
    <3>1. pc'[t] \notin {"asked", "joining"}
      BY <1>a, <2>1 DEF Admit, Goto, Places, Actors
    <3>2. \A u \in Turns : u # t => pc'[u] = pc[u] /\ sequence'[u] = sequence[u]
      BY <1>a, <2>1 DEF Admit, NumberTicket, Goto, Places, Actors
    <3> QED BY <3>1, <3>2, StillFresh
  <2>2. CASE ContextChanged(t) \/ GiveBack(t)
    <3>1. PICK label \in {"cleanup", "aftercare", "ended"} :
             HandBack(outcome, [pc EXCEPT ![t] = label]) /\ sequence' = sequence
      BY <2>2 DEF ContextChanged, GiveBack, ticketVars
    <3>2. [pc EXCEPT ![t] = label] \in Places
      BY <1>a, TurnGoes DEF TurnPcs
    <3>3. \A u \in Turns : pc'[u] = IF u = t THEN label ELSE pc[u]
      <4>1. \A u \in Turns : pc'[u] = [pc EXCEPT ![t] = label][u]
        BY <3>1, <3>2, HandBackMoves
      <4> QED BY <1>a, <4>1 DEF Places, Actors
    <3>4. NobodyNew
      BY <3>1, <3>3 DEF NobodyNew
    <3> QED BY <1>b, <3>4
  <2>3. CASE Ask(t) \/ Stamp(t) \/ Claim(t) \/ Check(t) \/ Await(t) \/ Poll(t) \/ WakeUp(t)
    BY <1>a, <1>b, <2>3
       DEF Ask, Stamp, Claim, Check, Await, Poll, WakeUp, Grant, Goto, ticketVars, NobodyNew,
           Places, Actors
  <2>4. CASE \/ SameContext(t) \/ Granted(t) \/ Cleanup(t) \/ Withdraw(t) \/ TurnEnds(t)
             \/ FailPending(t) \/ AftercareEnds(t)
    BY <1>a, <1>b, <2>4
       DEF SameContext, Granted, Cleanup, Withdraw, TurnEnds, FailPending, AftercareEnds,
           Grant, Goto, ticketVars, NobodyNew, Places, Actors
  <2> QED BY <1>1, <2>1, <2>2, <2>3, <2>4 DEF TurnStep
<1>2. ASSUME NEW d \in Doors, DoorStep(d) PROVE FreshInv'
  <2>1. CASE HandBack(outcome, [pc EXCEPT ![d] = "gone"]) /\ sequence' = sequence
    <3>1. [pc EXCEPT ![d] = "gone"] \in Places
      BY <1>a, DoorGoes DEF DoorPcs
    <3>2. \A t \in Turns : pc'[t] = pc[t]
      <4>1. \A t \in Turns : pc'[t] = [pc EXCEPT ![d] = "gone"][t]
        BY <2>1, <3>1, HandBackMoves
      <4> QED BY <1>a, <4>1 DEF Places, Actors
    <3>3. NobodyNew
      BY <2>1, <3>2 DEF NobodyNew
    <3> QED BY <1>b, <3>3
  <2>2. ASSUME NEW label, NameHolder(d, label) PROVE FreshInv'
    BY <1>a, <2>2, StillFresh DEF NameHolder, NumberTicket, Goto, Places, Actors
  <2>3. CASE DoorLeavesRaw(d) \/ CompactTries(d)
    BY <1>a, <1>b, <2>3 DEF DoorLeavesRaw, CompactTries, Goto, ticketVars, NobodyNew, Places, Actors
  <2> QED BY <1>2, <2>1, <2>2, <2>3 DEF DoorStep, DoorNames, DoorLeaves, CompactChecks, ticketVars
<1>3. CASE Outside
  <2>1. ASSUME NEW t \in Turns, StopExact(t) PROVE FreshInv'
    BY <1>a, <1>b, <2>1, HandBackMoves DEF StopExact, ticketVars, NobodyNew
  <2>2. ASSUME NEW t \in Turns, NEW label \in {"ended", "routed"}, Abandon(t, label)
        PROVE  FreshInv'
    <3>1. [pc EXCEPT ![t] = label] \in Places
      BY <1>a, TurnGoes DEF TurnPcs
    <3>2. \A u \in Turns : pc'[u] = [pc EXCEPT ![t] = label][u]
      BY <2>2, <3>1, HandBackMoves DEF Abandon, Goto
    <3> QED BY <1>a, <1>b, <2>2, <3>2 DEF Abandon, ticketVars, NobodyNew, Places, Actors
  <2>3. ASSUME NEW t \in Turns, HangUp(t) \/ Wedge(t) \/ Cancel(t) PROVE FreshInv'
    BY <1>a, <1>b, <2>3 DEF HangUp, Wedge, Cancel, Goto, ticketVars, NobodyNew, Places, Actors
  <2>4. ASSUME NEW d \in Doors, DoorEnters(d) PROVE FreshInv'
    BY <1>a, <1>b, <2>4 DEF DoorEnters, Goto, ticketVars, NobodyNew, Places, Actors
  <2>5. ASSUME NEW d \in Doors, NEW t \in Chats, CompactLooks(d, t) PROVE FreshInv'
    <3>1. \A u \in Turns : pc'[u] = IF u = t THEN "ended" ELSE pc[u]
      BY <1>a, <2>5 DEF CompactLooks, Places, Actors
    <3>2. sequence' = sequence
      BY <2>5 DEF CompactLooks
    <3>3. NobodyNew
      BY <3>1, <3>2 DEF NobodyNew
    <3> QED BY <1>b, <3>3
  <2>6. CASE EditContext
    BY <1>b, <2>6 DEF EditContext, ticketVars, NobodyNew
  <2> QED BY <1>3, <2>1, <2>2, <2>3, <2>4, <2>5, <2>6 DEF Outside
<1>4. CASE UNCHANGED vars
  BY <1>b, <1>4 DEF vars, ticketVars, NobodyNew
<1> QED BY <1>1, <1>2, <1>3, <1>4 DEF Next

\* The whole invariant holds in every behaviour.
THEOREM InductiveInvariant == Spec => []IInv
<1>1. Init => IInv
  <2> SUFFICES ASSUME Init PROVE OrderInv /\ FreshInv
    BY InitHolder DEF IInv
  <2>1. OrderInv
    BY DEF Init, OrderInv, InOrder
  <2>2. FreshInv
    BY DEF Init, FreshInv, Actors
  <2> QED BY <2>1, <2>2
<1>2. IInv /\ [Next]_vars => IInv'
  <2>1. IInv /\ [Next]_vars => HolderInv'
    BY HolderStep DEF IInv
  <2>2. InTurn => OrderInv'
    BY DEF InTurn, OrderInv, InOrder, Grows
  <2>3. IInv /\ [Next]_vars => FreshInv'
    BY FreshStep DEF IInv
  <2> QED BY <2>1, <2>2, <2>3, OrderStep DEF IInv
<1> QED BY <1>1, <1>2, PTL DEF Spec

\* The deque is always in admission order, whatever leaves it from the middle.
THEOREM LineIsInOrder == Spec => []InOrder
<1>1. IInv => InOrder
  BY DEF IInv, OrderInv
<1> QED BY <1>1, InductiveInvariant, PTL

\* Drain order is the order you asked: whoever is given the turn has a smaller
\* sequence number than every ticket still on the deque.
THEOREM FirstComeFirstServed == Spec => ServedInOrder
<1> DEFINE Fair1 == \A t \in Turns : running' = t /\ running # t =>
                        \A u \in Turns : Waits(u)' => sequence'[t] < sequence'[u]
<1>1. IInv /\ [Next]_vars => Fair1
  BY OrderStep DEF InTurn, Waits
<1>2. IInv /\ [Next]_vars => [Fair1]_vars
  BY <1>1
<1> QED BY <1>2, InductiveInvariant, PTL DEF Spec, ServedInOrder
-----------------------------------------------------------------------------
(***************************************************************************)
(* The queue implements TurnAdmission.                                     *)
(***************************************************************************)
LEMMA PromoteSettles ==
    ASSUME NEW w, NEW l, NEW r, NEW out, PromoteHead(w, l, r, out)
    PROVE  Admission!Settle(w, l)
  BY DEF PromoteHead, Take, LeaveAs, Admission!Settle

LEMMA HandBackReleases ==
    ASSUME lock # Free, UNCHANGED sequence, NEW out, NEW pcs, HandBack(out, pcs)
    PROVE  Admission!Release
<1>1. CASE PromoteHead(waiting, Free, Free, out)
  BY <1>1, PromoteSettles DEF Admission!Release
<1>2. CASE \E d \in Doors : LeaveAs(waiting, d, Free, out)
  BY <1>2 DEF LeaveAs, Admission!Release
<1> QED BY <1>1, <1>2 DEF HandBack

\* The library operator is the same one in both modules.
LEMMA SameRemoval ==
    ASSUME NEW s, NEW e
    PROVE  Admission!RemoveFirst(s, e) = RemoveFirst(s, e)
  BY DEF Admission!RemoveFirst, Admission!SelectInSeq, Admission!RemoveAt, Admission!Min,
         RemoveFirst, SelectInSeq, RemoveAt, Min

\* A ticket taken off the deque is a turn that gives up its place.
LEMMA LeavingQuits ==
    ASSUME waiting \in Seq(Turns), UNCHANGED sequence, NEW t \in Turns, Waits(t),
           NEW r, NEW out,
           \/ LeaveAs(RemoveFirst(waiting, t), lock, r, out)
           \/ PromoteHead(RemoveFirst(waiting, t), lock, r, out)
    PROVE  Admission!Quit(t)
<1>1. Admission!Contains(waiting, t)
  BY DEF Waits, ToSet, Admission!Contains
<1>2. Admission!Settle(Admission!RemoveFirst(waiting, t), lock)
  BY PromoteSettles, SameRemoval DEF LeaveAs, Admission!Settle
<1> QED BY <1>1, <1>2 DEF Admission!Quit

\* `admit` is the one way into the line: past it only when nobody is before.
LEMMA AdmitJoins ==
    ASSUME IInv, NEW t \in Turns, Admit(t)
    PROVE  Admission!Join(t)
<1> DEFINE w == Append(waiting, t)
<1>a. /\ TypeOK /\ ThreadsAgree /\ FreshInv
      /\ waiting \in Seq(Turns) /\ sequence \in [Actors -> Nat] /\ lastSequence \in Nat
  BY DEF IInv, HolderInv, ThreadsAgree, TypeOK
<1>b. ~Waits(t) /\ t \in Actors
  BY <1>a, TurnFacts DEF Admit, Facts, InLine, Leaving
<1>1. /\ sequence[t] = 0 /\ sequence'[t] = lastSequence + 1
      /\ \A u \in Turns : u # t => sequence'[u] = sequence[u]
  BY <1>a, <1>b DEF Admit, NumberTicket, FreshInv, Actors
<1>2. /\ t \in {u \in Turns : sequence[u] = 0}
      /\ {u \in Turns : sequence'[u] = 0} = {u \in Turns : sequence[u] = 0} \ {t}
  BY <1>a, <1>1
<1>3. CASE waiting = <<>>
  <2>1. w # <<>> /\ Head(w) = t /\ Tail(w) = <<>>
    BY <1>3
  <2>2. \/ lock = Free /\ lock' = t /\ waiting' = waiting
        \/ lock # Free /\ waiting' = w /\ lock' = lock
    BY <1>3, <2>1 DEF Admit, CanTake, Take, LeaveAs
  <2> QED BY <1>2, <1>3, <2>2 DEF Admission!Join
<1>4. CASE waiting # <<>>
  <2>1. Head(w) = Head(waiting) /\ Head(waiting) \in ToSet(waiting)
    BY <1>a, <1>4, TailFacts, Line
  <2>2. waiting' = w /\ lock' = lock
    BY <1>b, <2>1 DEF Admit, CanTake, LeaveAs, Waits
  <2> QED BY <1>2, <1>4, <2>2 DEF Admission!Join
<1> QED BY <1>3, <1>4

\* Every step of the queue is a step of TurnAdmission, or changes nothing of it.
LEMMA AdmissionStep == IInv /\ [Next]_vars => [Admission!Next]_(Admission!avars)
<1> SUFFICES ASSUME IInv, [Next]_vars
             PROVE  Admission!Next \/ UNCHANGED Admission!avars
  OBVIOUS
<1>a. /\ TypeOK /\ ThreadsAgree
      /\ waiting \in Seq(Turns) /\ sequence \in [Actors -> Nat] /\ lock \in Actors \cup {Free}
  BY DEF IInv, HolderInv, ThreadsAgree, TypeOK
<1>b. UNCHANGED <<waiting, lock, sequence>> => UNCHANGED Admission!avars
  BY DEF Admission!avars
<1>1. ASSUME NEW t \in Turns, TurnStep(t) PROVE Admission!Next \/ UNCHANGED Admission!avars
  <2>a. Facts(t)
    BY <1>a, TurnFacts
  <2>1. CASE \/ Ask(t) \/ Stamp(t) \/ Claim(t) \/ Check(t) \/ Await(t) \/ WakeUp(t)
             \/ SameContext(t) \/ Granted(t) \/ TurnEnds(t) \/ AftercareEnds(t)
             \/ Cleanup(t)
    BY <1>b, <2>1 DEF Ask, Cleanup, Stamp, Claim, Check, Await, WakeUp, SameContext, Granted,
       TurnEnds, AftercareEnds, queueVars, ticketVars
  <2>2. CASE Admit(t)
    BY <2>2, AdmitJoins DEF Admission!Next
  <2>3. CASE Poll(t)
    <3>1. Admission!Serve
      BY <2>3 DEF Poll, CanTake, Take, ticketVars, Admission!Serve
    <3> QED BY <3>1 DEF Admission!Next
  <2>4. CASE ContextChanged(t) \/ GiveBack(t)
    <3>1. lock # Free
      BY <2>a, <2>4 DEF ContextChanged, GiveBack, Facts, TurnHolds, Actors
    <3>2. Admission!Release
      BY <2>4, <3>1, HandBackReleases DEF ContextChanged, GiveBack, ticketVars
    <3> QED BY <3>2 DEF Admission!Next
  <2>5. CASE Withdraw(t)
    <3>1. CASE Waits(t)
      BY <1>a, <2>5, <3>1, LeavingQuits DEF Withdraw, ticketVars, Admission!Next
    <3>2. CASE ~Waits(t)
      BY <1>b, <2>5, <3>2 DEF Withdraw, queueVars, ticketVars
    <3> QED BY <3>1, <3>2
  <2>6. CASE FailPending(t)
    <3>1. Admission!Dismiss
      BY <2>6 DEF FailPending, LeaveAs, ticketVars, Admission!Dismiss
    <3> QED BY <3>1 DEF Admission!Next
  <2> QED BY <1>1, <2>1, <2>2, <2>3, <2>4, <2>5, <2>6 DEF TurnStep
<1>2. ASSUME NEW d \in Doors, DoorStep(d) PROVE Admission!Next \/ UNCHANGED Admission!avars
  <2>a. d \in Actors /\ d \notin Turns /\ (pc[d] \in DoorHolds => lock # Free)
    BY <1>a, OneDoor DEF DoorFacts, Actors
  <2>1. ASSUME NEW label, NameHolder(d, label) PROVE UNCHANGED Admission!avars
    <3>1. \A t \in Turns : sequence'[t] = sequence[t]
      BY <1>a, <2>1, <2>a DEF NameHolder, NumberTicket, Actors
    <3> QED BY <2>1, <3>1 DEF NameHolder, LeaveAs, Admission!avars
  <2>2. CASE /\ pc[d] \in DoorHolds /\ UNCHANGED sequence
             /\ HandBack(outcome, [pc EXCEPT ![d] = "gone"])
    BY <2>2, <2>a, HandBackReleases DEF Admission!Next
  <2>3. CASE DoorLeavesRaw(d)
    <3>1. Admission!Release
      BY <2>3, <2>a
         DEF DoorLeavesRaw, LeaveAs, DoorHolds, ticketVars, Admission!Release, Admission!Settle
    <3> QED BY <3>1 DEF Admission!Next
  <2>4. CASE CompactTries(d)
    <3>1. CASE lock = Free
      <4>1. Admission!Enter(d)
        BY <2>4, <3>1 DEF CompactTries, LeaveAs, ticketVars, Admission!Enter
      <4> QED BY <4>1 DEF Admission!Next
    <3>2. CASE lock # Free
      BY <1>b, <2>4, <3>2 DEF CompactTries, queueVars, ticketVars
    <3> QED BY <3>1, <3>2
  <2> QED BY <1>2, <2>1, <2>2, <2>3, <2>4
          DEF DoorStep, DoorNames, DoorLeaves, CompactChecks, DoorHolds, ticketVars
<1>3. CASE Outside
  <2>1. ASSUME NEW t \in Turns, StopExact(t) PROVE Admission!Next
    <3>1. CASE Waits(t)
      BY <1>a, <2>1, <3>1, LeavingQuits DEF StopExact, ticketVars, Admission!Next
    <3>2. CASE ~Waits(t)
      <4>1. lock # Free
        BY <1>a, <2>1, <3>2 DEF StopExact, ThreadsAgree, LockInv, Actors
      <4> QED BY <2>1, <3>2, <4>1, HandBackReleases DEF StopExact, ticketVars, Admission!Next
    <3> QED BY <3>1, <3>2
  <2>2. ASSUME NEW t \in Turns, Cancel(t) PROVE Admission!Next
    BY <1>a, <2>2, LeavingQuits DEF Cancel, ticketVars, Admission!Next
  <2>3. ASSUME NEW t \in Turns, NEW label, Abandon(t, label)
        PROVE  Admission!Next \/ UNCHANGED Admission!avars
    <3>1. CASE running = t
      <4>1. lock # Free
        BY <1>a, <3>1 DEF ThreadsAgree, LockInv, Actors
      <4> QED BY <2>3, <3>1, <4>1, HandBackReleases DEF Abandon, ticketVars, Admission!Next
    <3>2. CASE running # t /\ Waits(t)
      BY <1>a, <2>3, <3>2, LeavingQuits DEF Abandon, ticketVars, Admission!Next
    <3>3. CASE running # t /\ ~Waits(t)
      BY <1>b, <2>3, <3>3 DEF Abandon, queueVars, ticketVars
    <3> QED BY <3>1, <3>2, <3>3
  <2>4. ASSUME NEW d \in Doors, DoorEnters(d) PROVE Admission!Next
    <3>1. Admission!Enter(d)
      BY <2>4 DEF DoorEnters, LeaveAs, ticketVars, Admission!Enter
    <3> QED BY <3>1 DEF Admission!Next
  <2>5. CASE \/ EditContext \/ \E t \in Turns : HangUp(t) \/ Wedge(t)
             \/ \E d \in Doors, t \in Chats : CompactLooks(d, t)
    BY <1>b, <2>5 DEF EditContext, HangUp, Wedge, CompactLooks, queueVars, ticketVars
  <2> QED BY <1>3, <2>1, <2>2, <2>3, <2>4, <2>5 DEF Outside
<1>4. CASE UNCHANGED vars
  BY <1>b, <1>4 DEF vars, queueVars, ticketVars
<1> QED BY <1>1, <1>2, <1>3, <1>4 DEF Next

\* The deque and the raw lock keep the promise of ADR-0013 at every moment: one
\* owner, one line in admission order, and a free tree goes to the head of the
\* line or to a door.
THEOREM QueueImplementsAdmission == Spec => Admission!Queueing
<1>1. Init => Admission!Init
  BY DEF Init, Actors, Admission!Init
<1> QED BY <1>1, AdmissionStep, InductiveInvariant, PTL DEF Spec, Admission!Queueing
=============================================================================
