--------------------------- MODULE ChatSaveProofs ---------------------------
(***************************************************************************)
(* Proofs about ChatSave, for any number of requests, timers and failures. *)
(***************************************************************************)
EXTENDS ChatSave, FiniteSetTheorems, TLAPS

\* Which kind of actor may be where, and where each goes on after arming.
Place(a) ==
    /\ pc[a] = "inTurn" => a \in Talks \cup Builds
    /\ pc[a] = "stuck" => a \in Builds
    /\ pc[a] = "after" => a \in Talks
    /\ pc[a] \in MarkPcs => a \in Talks \cup Deeds
    /\ pc[a] \in DoorPcs => a \in Doors
    /\ pc[a] \in {"enter", "try", "lower"} => a \notin Doors
    /\ pc[a] \in ArmPcs /\ back[a] = "done" => a \in Requests \ Doors
    /\ pc[a] \in ArmPcs /\ back[a] = "off" => a \in Timers
    /\ pc[a] \in ArmPcs /\ back[a] = "lower" => a \notin Doors

PlaceInv == \A a \in Actors : Place(a)

\* Where an actor has the turn lock.
Holds(a) ==
    \/ pc[a] \in {"inTurn", "stuck", "inDoor", "give"} \cup CommitPcs
    \/ pc[a] \in ArmPcs /\ back[a] = "tell"
    \/ pc[a] \in FlushPcs /\ a \in Doors

LockInv == \A a \in Actors : Holds(a) => lock = a

\* What a finished attempt knows of the remote, while it still has the lock.
WorkInv == \A a \in Actors :
    /\ pc[a] \in {"settle", "unname", "tell"} /\ result[a] = "landed" => unsent = {}
    /\ pc[a] \in ArmPcs /\ back[a] = "tell" => result[a] = "failed"

\* The strengthening: none of its parts is inductive alone.
IInv == TypeOK /\ PlaceInv /\ LockInv /\ WorkInv /\ SaversCounted /\ DirtyIsPending

USE KindsAssumption DEF Requests, Actors, Pcs, Rests, TurnPcs, MarkPcs, DoorPcs, ArmPcs,
    FlushPcs, SavePcs, CommitPcs, WakePcs

\* Who counts as a saver, as a set.
Savers == {a \in Actors : InSave(a)}

\* What a step may do to the savers, their count and the mark.
SaversMove ==
    \/ UNCHANGED <<Savers, savers, saving>>
    \/ \E a \in Actors \ Savers :
          /\ Savers' = Savers \cup {a}
          /\ savers' = savers + 1
          /\ saving' = TRUE
    \/ \E a \in Savers :
          /\ Savers' = Savers \ {a}
          /\ savers' = IF savers > 0 THEN savers - 1 ELSE 0
          /\ saving' = (saving /\ savers > 1)

\* Every step keeps the types; where an actor may be decides where it rests.
LEMMA TypeStep ==
    ASSUME TypeOK, PlaceInv, [Next]_vars
    PROVE  TypeOK'
<1>1. ASSUME NEW a \in Actors, ReadSlot(a)
      PROVE  TypeOK'
  BY <1>1
    DEF ReadSlot, Goto, markVars, saveVars, gitVars, TypeOK, PlaceInv, Place
<1>2. ASSUME NEW a \in Actors, CancelHeld(a)
      PROVE  TypeOK'
  BY <1>2
    DEF CancelHeld, markVars, saveVars, gitVars, TypeOK, PlaceInv, Place
<1>3. ASSUME NEW a \in Actors, Launch(a)
      PROVE  TypeOK'
  BY <1>3
    DEF Launch, Unused, markVars, saveVars, gitVars, TypeOK, PlaceInv, Place
<1>4. ASSUME NEW a \in Actors, Look(a)
      PROVE  TypeOK'
  BY <1>4
    DEF Look, Goto, Rest, timerVars, markVars, saveVars, gitVars, TypeOK,
        PlaceInv, Place
<1>5. ASSUME NEW a \in Actors, Enter(a)
      PROVE  TypeOK'
  BY <1>5
    DEF Enter, Goto, timerVars, markVars, gitVars, TypeOK, PlaceInv, Place
<1>6. ASSUME NEW a \in Actors, TryLock(a)
      PROVE  TypeOK'
  BY <1>6
    DEF TryLock, Goto, StartArming, markVars, saveVars, gitVars, TypeOK,
        PlaceInv, Place
<1>7. ASSUME NEW a \in Actors, Lower(a)
      PROVE  TypeOK'
  BY <1>7
    DEF Lower, Goto, Rest, timerVars, markVars, gitVars, TypeOK, PlaceInv, Place
<1>8. ASSUME NEW a \in Actors, Give(a)
      PROVE  TypeOK'
  BY <1>8
    DEF Give, Goto, Rest, timerVars, markVars, saveVars, gitVars, TypeOK,
        PlaceInv, Place
<1>9. ASSUME NEW a \in Actors, Commit(a)
      PROVE  TypeOK'
  <2>1. /\ unsaved' \subseteq Requests
        /\ unsent' \subseteq Requests
        /\ failures' \in 0..MaxFailures
    BY <1>9, BoundsAssumption DEF Commit, Fails, TypeOK
  <2>2. /\ result' \in [Actors -> Results]
        /\ pc' = [pc EXCEPT ![a] = "send"] \/ pc' = [pc EXCEPT ![a] = "settle"]
    BY <1>9 DEF Commit, Goto, Results, TypeOK
  <2> QED
    BY <1>9, <2>1, <2>2 DEF Commit, TypeOK, PlaceInv, Place, timerVars, markVars
<1>10. ASSUME NEW a \in Actors, Send(a)
      PROVE  TypeOK'
  <2>1. unsent' \subseteq Requests /\ failures' \in 0..MaxFailures
    BY <1>10, BoundsAssumption DEF Send, Fails, TypeOK
  <2>2. result' \in [Actors -> Results] /\ pc' = [pc EXCEPT ![a] = "settle"]
    BY <1>10 DEF Send, Goto, Results, TypeOK
  <2> QED
    BY <1>10, <2>1, <2>2 DEF Send, TypeOK, PlaceInv, Place, timerVars, markVars
<1>11. ASSUME NEW a \in Actors, Settle(a)
      PROVE  TypeOK'
  <2>1. CASE result[a] = "failed"
    BY <1>11, <2>1 DEF Settle, Goto, StartArming, saveVars, gitVars, TypeOK, PlaceInv, Place
  <2>2. CASE result[a] # "failed"
    <3>1. /\ pc' = [pc EXCEPT ![a] = "unname"]
          /\ dirty' = FALSE
          /\ UNCHANGED <<named, timerVars, saveVars, lock, wedged, gitVars>>
      BY <1>11, <2>2 DEF Settle, Goto, timerVars
    <3> QED BY <3>1 DEF TypeOK, timerVars, saveVars, gitVars
  <2> QED BY <2>1, <2>2
<1>12. ASSUME NEW a \in Actors, Unname(a)
      PROVE  TypeOK'
  BY <1>12
    DEF Unname, Goto, timerVars, saveVars, gitVars, TypeOK, PlaceInv, Place
<1>13. ASSUME NEW a \in Actors, Tell(a)
      PROVE  TypeOK'
  BY <1>13
    DEF Tell, Goto, timerVars, markVars, gitVars, TypeOK, PlaceInv, Place
<1>14. ASSUME NEW m \in Timers, Fire(m) \/ Wake(m) \/ AskLock(m)
      PROVE  TypeOK'
  BY <1>14
    DEF Fire, Wake, AskLock, Goto, StartArming, timerVars, markVars, saveVars,
        gitVars, TypeOK, PlaceInv, Place
<1>15. ASSUME NEW r \in Requests, TalkEnds(r) \/ TalkTidies(r)
      PROVE  TypeOK'
  BY <1>15
    DEF TalkEnds, TalkTidies, Goto, Writes, timerVars, markVars, saveVars,
        gitVars, TypeOK, PlaceInv, Place
<1>16. ASSUME NEW r \in Requests, BuildEnds(r)
      PROVE  TypeOK'
  BY <1>16, BoundsAssumption
    DEF BuildEnds, Goto, Fails, timerVars, markVars, saveVars, TypeOK, PlaceInv, Place
<1>17. ASSUME NEW r \in Requests, Mark(r)
      PROVE  TypeOK'
  BY <1>17
    DEF Mark, Goto, timerVars, saveVars, gitVars, TypeOK, PlaceInv, Place
<1>18. ASSUME NEW r \in Requests, Name(r)
      PROVE  TypeOK'
  BY <1>18
    DEF Name, Goto, StartArming, saveVars, gitVars, TypeOK, PlaceInv, Place
<1>19. ASSUME NEW r \in Requests, OpenThread(r)
      PROVE  TypeOK'
  BY <1>19
    DEF OpenThread, Goto, StartArming, markVars, saveVars, gitVars, TypeOK,
        PlaceInv, Place
<1>20. ASSUME NEW r \in Requests, Leave(r)
      PROVE  TypeOK'
  BY <1>20
    DEF Leave, Goto, timerVars, markVars, saveVars, gitVars, TypeOK, PlaceInv,
        Place
<1>21. ASSUME NEW r \in Requests, DoorReads(r)
      PROVE  TypeOK'
  BY <1>21
    DEF DoorReads, Goto, timerVars, markVars, saveVars, gitVars, TypeOK,
        PlaceInv, Place
<1>22. ASSUME NEW r \in Requests, DoorDeadline(r)
      PROVE  TypeOK'
  BY <1>22
    DEF DoorDeadline, Goto, timerVars, markVars, saveVars, gitVars, TypeOK,
        PlaceInv, Place
<1>23. ASSUME NEW r \in Requests, DoorWrites(r)
      PROVE  TypeOK'
  BY <1>23
    DEF DoorWrites, Goto, Writes, timerVars, markVars, saveVars, TypeOK,
        PlaceInv, Place
<1>24. ASSUME NEW r \in Requests, DoorTries(r)
      PROVE  TypeOK'
  BY <1>24
    DEF DoorTries, Goto, timerVars, markVars, saveVars, gitVars, TypeOK,
        PlaceInv, Place
<1>25. ASSUME NEW r \in Requests, DoorFails(r)
      PROVE  TypeOK'
  BY <1>25
    DEF DoorFails, Goto, timerVars, markVars, saveVars, gitVars, TypeOK,
        PlaceInv, Place
<1>26. ASSUME NEW r \in Requests, TurnBegins(r)
      PROVE  TypeOK'
  BY <1>26
    DEF TurnBegins, Goto, timerVars, markVars, saveVars, gitVars, TypeOK,
        PlaceInv, Place
<1>27. ASSUME NEW r \in Requests, TurnWedges(r)
      PROVE  TypeOK'
  BY <1>27
    DEF TurnWedges, Goto, timerVars, markVars, saveVars, gitVars, TypeOK,
        PlaceInv, Place
<1>28. ASSUME NEW r \in Requests, DeedWrites(r)
      PROVE  TypeOK'
  BY <1>28
    DEF DeedWrites, Goto, Writes, timerVars, markVars, saveVars, TypeOK,
        PlaceInv, Place
<1>29. CASE UNCHANGED vars
  BY <1>29
    DEF vars, timerVars, markVars, saveVars, gitVars, TypeOK, PlaceInv, Place
<1> QED
  BY <1>1, <1>2, <1>3, <1>4, <1>5, <1>6, <1>7, <1>8, <1>9, <1>10, <1>11, <1>12,
      <1>13, <1>14, <1>15, <1>16, <1>17, <1>18, <1>19, <1>20, <1>21, <1>22,
      <1>23, <1>24, <1>25, <1>26, <1>27, <1>28, <1>29
    DEF Next, SaveStep, TimerStep, GoesOn, Outside

\* Every step leaves each kind of actor where its kind may be.
LEMMA PlaceStep ==
    ASSUME TypeOK, PlaceInv, [Next]_vars
    PROVE  PlaceInv'
<1>1. ASSUME NEW a \in Actors, ReadSlot(a) \/ CancelHeld(a) \/ Launch(a)
      PROVE  PlaceInv'
  BY <1>1
    DEF ReadSlot, CancelHeld, Launch, Goto, Unused, markVars, saveVars, gitVars,
        TypeOK, PlaceInv, Place
<1>2. ASSUME NEW a \in Actors, Look(a) \/ Enter(a) \/ TryLock(a)
      PROVE  PlaceInv'
  BY <1>2
    DEF Look, Enter, TryLock, Goto, StartArming, Rest, timerVars, markVars,
        saveVars, gitVars, TypeOK, PlaceInv, Place
<1>3. ASSUME NEW a \in Actors, Lower(a) \/ Give(a)
      PROVE  PlaceInv'
  BY <1>3
    DEF Lower, Give, Goto, Rest, timerVars, markVars, saveVars, gitVars, TypeOK,
        PlaceInv, Place
<1>4. ASSUME NEW a \in Actors, Commit(a) \/ Send(a)
      PROVE  PlaceInv'
  BY <1>4
    DEF Commit, Send, Goto, Fails, timerVars, markVars, TypeOK, PlaceInv, Place
<1>5. ASSUME NEW a \in Actors, Settle(a) \/ Unname(a) \/ Tell(a)
      PROVE  PlaceInv'
  BY <1>5
    DEF Settle, Unname, Tell, Goto, StartArming, timerVars, markVars, saveVars,
        gitVars, TypeOK, PlaceInv, Place
<1>6. ASSUME NEW m \in Timers, Fire(m) \/ Wake(m) \/ AskLock(m)
      PROVE  PlaceInv'
  BY <1>6
    DEF Fire, Wake, AskLock, Goto, StartArming, timerVars, markVars, saveVars,
        gitVars, TypeOK, PlaceInv, Place
<1>7. ASSUME NEW r \in Requests, TalkEnds(r) \/ TalkTidies(r) \/ BuildEnds(r)
      PROVE  PlaceInv'
  BY <1>7
    DEF TalkEnds, TalkTidies, BuildEnds, Goto, Writes, Fails, timerVars,
        markVars, saveVars, gitVars, TypeOK, PlaceInv, Place
<1>8. ASSUME NEW r \in Requests,
      Mark(r) \/ Name(r) \/ OpenThread(r) \/ Leave(r)
      PROVE  PlaceInv'
  BY <1>8
    DEF Mark, Name, OpenThread, Leave, Goto, StartArming, timerVars, markVars,
        saveVars, gitVars, TypeOK, PlaceInv, Place
<1>9. ASSUME NEW r \in Requests,
      DoorReads(r) \/ DoorDeadline(r) \/ DoorWrites(r)
      PROVE  PlaceInv'
  BY <1>9
    DEF DoorReads, DoorDeadline, DoorWrites, Goto, Writes, timerVars, markVars,
        saveVars, gitVars, TypeOK, PlaceInv, Place
<1>10. ASSUME NEW r \in Requests, DoorTries(r) \/ DoorFails(r)
      PROVE  PlaceInv'
  BY <1>10
    DEF DoorTries, DoorFails, Goto, timerVars, markVars, saveVars, gitVars,
        TypeOK, PlaceInv, Place
<1>11. ASSUME NEW r \in Requests,
      TurnBegins(r) \/ TurnWedges(r) \/ DeedWrites(r)
      PROVE  PlaceInv'
  BY <1>11
    DEF TurnBegins, TurnWedges, DeedWrites, Goto, Writes, timerVars, markVars,
        saveVars, gitVars, TypeOK, PlaceInv, Place
<1>12. CASE UNCHANGED vars
  BY <1>12
    DEF vars, timerVars, markVars, saveVars, gitVars, TypeOK, PlaceInv, Place
<1> QED
  BY <1>1, <1>2, <1>3, <1>4, <1>5, <1>6, <1>7, <1>8, <1>9, <1>10, <1>11, <1>12
    DEF Next, SaveStep, TimerStep, GoesOn, Outside

\* Every step leaves the lock with the actor that counts on it.
LEMMA LockStep ==
    ASSUME TypeOK, PlaceInv, LockInv, [Next]_vars
    PROVE  LockInv'
<1>1. ASSUME NEW a \in Actors, ReadSlot(a) \/ CancelHeld(a) \/ Launch(a)
      PROVE  LockInv'
  BY <1>1
    DEF ReadSlot, CancelHeld, Launch, Goto, Unused, markVars, saveVars, gitVars,
        TypeOK, PlaceInv, Place, LockInv, Holds
<1>2. ASSUME NEW a \in Actors, Look(a) \/ Enter(a) \/ TryLock(a)
      PROVE  LockInv'
  BY <1>2
    DEF Look, Enter, TryLock, Goto, StartArming, Rest, timerVars, markVars,
        saveVars, gitVars, TypeOK, PlaceInv, Place, LockInv, Holds
<1>3. ASSUME NEW a \in Actors, Lower(a) \/ Give(a)
      PROVE  LockInv'
  BY <1>3
    DEF Lower, Give, Goto, Rest, timerVars, markVars, saveVars, gitVars, TypeOK,
        PlaceInv, Place, LockInv, Holds
<1>4. ASSUME NEW a \in Actors, Commit(a) \/ Send(a)
      PROVE  LockInv'
  BY <1>4
    DEF Commit, Send, Goto, Fails, timerVars, markVars, TypeOK, PlaceInv, Place,
        LockInv, Holds
<1>5. ASSUME NEW a \in Actors, Settle(a) \/ Unname(a) \/ Tell(a)
      PROVE  LockInv'
  BY <1>5
    DEF Settle, Unname, Tell, Goto, StartArming, timerVars, markVars, saveVars,
        gitVars, TypeOK, PlaceInv, Place, LockInv, Holds
<1>6. ASSUME NEW m \in Timers, Fire(m) \/ Wake(m) \/ AskLock(m)
      PROVE  LockInv'
  BY <1>6
    DEF Fire, Wake, AskLock, Goto, StartArming, timerVars, markVars, saveVars,
        gitVars, TypeOK, PlaceInv, Place, LockInv, Holds
<1>7. ASSUME NEW r \in Requests, TalkEnds(r) \/ TalkTidies(r) \/ BuildEnds(r)
      PROVE  LockInv'
  BY <1>7
    DEF TalkEnds, TalkTidies, BuildEnds, Goto, Writes, Fails, timerVars,
        markVars, saveVars, gitVars, TypeOK, PlaceInv, Place, LockInv, Holds
<1>8. ASSUME NEW r \in Requests,
      Mark(r) \/ Name(r) \/ OpenThread(r) \/ Leave(r)
      PROVE  LockInv'
  BY <1>8
    DEF Mark, Name, OpenThread, Leave, Goto, StartArming, timerVars, markVars,
        saveVars, gitVars, TypeOK, PlaceInv, Place, LockInv, Holds
<1>9. ASSUME NEW r \in Requests,
      DoorReads(r) \/ DoorDeadline(r) \/ DoorWrites(r)
      PROVE  LockInv'
  BY <1>9
    DEF DoorReads, DoorDeadline, DoorWrites, Goto, Writes, timerVars, markVars,
        saveVars, gitVars, TypeOK, PlaceInv, Place, LockInv, Holds
<1>10. ASSUME NEW r \in Requests, DoorTries(r) \/ DoorFails(r)
      PROVE  LockInv'
  BY <1>10
    DEF DoorTries, DoorFails, Goto, timerVars, markVars, saveVars, gitVars,
        TypeOK, PlaceInv, Place, LockInv, Holds
<1>11. ASSUME NEW r \in Requests,
      TurnBegins(r) \/ TurnWedges(r) \/ DeedWrites(r)
      PROVE  LockInv'
  BY <1>11
    DEF TurnBegins, TurnWedges, DeedWrites, Goto, Writes, timerVars, markVars,
        saveVars, gitVars, TypeOK, PlaceInv, Place, LockInv, Holds
<1>12. CASE UNCHANGED vars
  BY <1>12
    DEF vars, timerVars, markVars, saveVars, gitVars, TypeOK, PlaceInv, Place,
        LockInv, Holds
<1> QED
  BY <1>1, <1>2, <1>3, <1>4, <1>5, <1>6, <1>7, <1>8, <1>9, <1>10, <1>11, <1>12
    DEF Next, SaveStep, TimerStep, GoesOn, Outside

\* Only the holder of the lock changes what the remote is owed.
LEMMA WorkStep ==
    ASSUME TypeOK, PlaceInv, LockInv, WorkInv, [Next]_vars
    PROVE  WorkInv'
<1>1. ASSUME NEW a \in Actors, ReadSlot(a) \/ CancelHeld(a) \/ Launch(a)
      PROVE  WorkInv'
  BY <1>1
    DEF ReadSlot, CancelHeld, Launch, Goto, Unused, markVars, saveVars, gitVars,
        TypeOK, PlaceInv, Place, LockInv, Holds, WorkInv
<1>2. ASSUME NEW a \in Actors, Look(a) \/ Enter(a) \/ TryLock(a)
      PROVE  WorkInv'
  BY <1>2
    DEF Look, Enter, TryLock, Goto, StartArming, Rest, timerVars, markVars,
        saveVars, gitVars, TypeOK, PlaceInv, Place, LockInv, Holds, WorkInv
<1>3. ASSUME NEW a \in Actors, Lower(a) \/ Give(a)
      PROVE  WorkInv'
  BY <1>3
    DEF Lower, Give, Goto, Rest, timerVars, markVars, saveVars, gitVars, TypeOK,
        PlaceInv, Place, LockInv, Holds, WorkInv
<1>4. ASSUME NEW a \in Actors, Commit(a) \/ Send(a)
      PROVE  WorkInv'
  BY <1>4
    DEF Commit, Send, Goto, Fails, timerVars, markVars, TypeOK, PlaceInv, Place,
        LockInv, Holds, WorkInv
<1>5. ASSUME NEW a \in Actors, Settle(a) \/ Unname(a) \/ Tell(a)
      PROVE  WorkInv'
  BY <1>5
    DEF Settle, Unname, Tell, Goto, StartArming, timerVars, markVars, saveVars,
        gitVars, TypeOK, PlaceInv, Place, LockInv, Holds, WorkInv
<1>6. ASSUME NEW m \in Timers, Fire(m) \/ Wake(m) \/ AskLock(m)
      PROVE  WorkInv'
  BY <1>6
    DEF Fire, Wake, AskLock, Goto, StartArming, timerVars, markVars, saveVars,
        gitVars, TypeOK, PlaceInv, Place, LockInv, Holds, WorkInv
<1>7. ASSUME NEW r \in Requests, TalkEnds(r) \/ TalkTidies(r) \/ BuildEnds(r)
      PROVE  WorkInv'
  BY <1>7
    DEF TalkEnds, TalkTidies, BuildEnds, Goto, Writes, Fails, timerVars,
        markVars, saveVars, gitVars, TypeOK, PlaceInv, Place, LockInv, Holds,
        WorkInv
<1>8. ASSUME NEW r \in Requests,
      Mark(r) \/ Name(r) \/ OpenThread(r) \/ Leave(r)
      PROVE  WorkInv'
  BY <1>8
    DEF Mark, Name, OpenThread, Leave, Goto, StartArming, timerVars, markVars,
        saveVars, gitVars, TypeOK, PlaceInv, Place, LockInv, Holds, WorkInv
<1>9. ASSUME NEW r \in Requests,
      DoorReads(r) \/ DoorDeadline(r) \/ DoorWrites(r)
      PROVE  WorkInv'
  BY <1>9
    DEF DoorReads, DoorDeadline, DoorWrites, Goto, Writes, timerVars, markVars,
        saveVars, gitVars, TypeOK, PlaceInv, Place, LockInv, Holds, WorkInv
<1>10. ASSUME NEW r \in Requests, DoorTries(r) \/ DoorFails(r)
      PROVE  WorkInv'
  BY <1>10
    DEF DoorTries, DoorFails, Goto, timerVars, markVars, saveVars, gitVars,
        TypeOK, PlaceInv, Place, LockInv, Holds, WorkInv
<1>11. ASSUME NEW r \in Requests,
      TurnBegins(r) \/ TurnWedges(r) \/ DeedWrites(r)
      PROVE  WorkInv'
  BY <1>11
    DEF TurnBegins, TurnWedges, DeedWrites, Goto, Writes, timerVars, markVars,
        saveVars, gitVars, TypeOK, PlaceInv, Place, LockInv, Holds, WorkInv
<1>12. CASE UNCHANGED vars
  BY <1>12
    DEF vars, timerVars, markVars, saveVars, gitVars, TypeOK, PlaceInv, Place,
        LockInv, Holds, WorkInv
<1> QED
  BY <1>1, <1>2, <1>3, <1>4, <1>5, <1>6, <1>7, <1>8, <1>9, <1>10, <1>11, <1>12
    DEF Next, SaveStep, TimerStep, GoesOn, Outside

\* Every step that loses a timer or an actor on its way leaves another one.
LEMMA DirtyStep ==
    ASSUME TypeOK, PlaceInv, DirtyIsPending, [Next]_vars
    PROVE  DirtyIsPending'
<1>1. ASSUME NEW a \in Actors, ReadSlot(a)
      PROVE  DirtyIsPending'
  BY <1>1
    DEF ReadSlot, Goto, markVars, saveVars, gitVars, TypeOK, PlaceInv, Place,
        DirtyIsPending, Bound
<1>2. ASSUME NEW a \in Actors, CancelHeld(a)
      PROVE  DirtyIsPending'
  BY <1>2
    DEF CancelHeld, markVars, saveVars, gitVars, TypeOK, PlaceInv, Place,
        DirtyIsPending, Bound
<1>3. ASSUME NEW a \in Actors, Launch(a)
      PROVE  DirtyIsPending'
  BY <1>3
    DEF Launch, Unused, markVars, saveVars, gitVars, TypeOK, PlaceInv, Place,
        DirtyIsPending, Bound
<1>4. ASSUME NEW a \in Actors, Look(a)
      PROVE  DirtyIsPending'
  BY <1>4
    DEF Look, Goto, Rest, timerVars, markVars, saveVars, gitVars, TypeOK,
        PlaceInv, Place, DirtyIsPending, Bound
<1>5. ASSUME NEW a \in Actors, Enter(a)
      PROVE  DirtyIsPending'
  BY <1>5
    DEF Enter, Goto, timerVars, markVars, gitVars, TypeOK, PlaceInv, Place,
        DirtyIsPending, Bound
<1>6. ASSUME NEW a \in Actors, TryLock(a)
      PROVE  DirtyIsPending'
  BY <1>6
    DEF TryLock, Goto, StartArming, markVars, saveVars, gitVars, TypeOK,
        PlaceInv, Place, DirtyIsPending, Bound
<1>7. ASSUME NEW a \in Actors, Lower(a)
      PROVE  DirtyIsPending'
  BY <1>7
    DEF Lower, Goto, Rest, timerVars, markVars, gitVars, TypeOK, PlaceInv,
        Place, DirtyIsPending, Bound
<1>8. ASSUME NEW a \in Actors, Give(a)
      PROVE  DirtyIsPending'
  BY <1>8
    DEF Give, Goto, Rest, timerVars, markVars, saveVars, gitVars, TypeOK,
        PlaceInv, Place, DirtyIsPending, Bound
<1>9. ASSUME NEW a \in Actors, Commit(a)
      PROVE  DirtyIsPending'
  BY <1>9
    DEF Commit, Goto, Fails, timerVars, markVars, TypeOK, PlaceInv, Place,
        DirtyIsPending, Bound
<1>10. ASSUME NEW a \in Actors, Send(a)
      PROVE  DirtyIsPending'
  BY <1>10
    DEF Send, Goto, Fails, timerVars, markVars, TypeOK, PlaceInv, Place,
        DirtyIsPending, Bound
<1>11. ASSUME NEW a \in Actors, Settle(a)
      PROVE  DirtyIsPending'
  BY <1>11
    DEF Settle, Goto, StartArming, saveVars, gitVars, TypeOK, PlaceInv, Place,
        DirtyIsPending, Bound
<1>12. ASSUME NEW a \in Actors, Unname(a)
      PROVE  DirtyIsPending'
  BY <1>12
    DEF Unname, Goto, timerVars, saveVars, gitVars, TypeOK, PlaceInv, Place,
        DirtyIsPending, Bound
<1>13. ASSUME NEW a \in Actors, Tell(a)
      PROVE  DirtyIsPending'
  BY <1>13
    DEF Tell, Goto, timerVars, markVars, gitVars, TypeOK, PlaceInv, Place,
        DirtyIsPending, Bound
<1>14. ASSUME NEW m \in Timers, Fire(m)
      PROVE  DirtyIsPending'
  BY <1>14
    DEF Fire, Goto, timerVars, markVars, saveVars, gitVars, TypeOK, PlaceInv,
        Place, DirtyIsPending, Bound
<1>15. ASSUME NEW m \in Timers, Wake(m)
      PROVE  DirtyIsPending'
  BY <1>15
    DEF Wake, Goto, timerVars, markVars, saveVars, gitVars, TypeOK, PlaceInv,
        Place, DirtyIsPending, Bound
<1>16. ASSUME NEW m \in Timers, AskLock(m)
      PROVE  DirtyIsPending'
  BY <1>16
    DEF AskLock, Goto, StartArming, markVars, saveVars, gitVars, TypeOK,
        PlaceInv, Place, DirtyIsPending, Bound
<1>17. ASSUME NEW r \in Requests, TalkEnds(r)
      PROVE  DirtyIsPending'
  BY <1>17
    DEF TalkEnds, Goto, Writes, timerVars, markVars, saveVars, TypeOK, PlaceInv,
        Place, DirtyIsPending, Bound
<1>18. ASSUME NEW r \in Requests, TalkTidies(r)
      PROVE  DirtyIsPending'
  BY <1>18
    DEF TalkTidies, Goto, Writes, timerVars, markVars, saveVars, gitVars,
        TypeOK, PlaceInv, Place, DirtyIsPending, Bound
<1>19. ASSUME NEW r \in Requests, BuildEnds(r)
      PROVE  DirtyIsPending'
  BY <1>19
    DEF BuildEnds, Goto, Fails, timerVars, markVars, saveVars, TypeOK, PlaceInv,
        Place, DirtyIsPending, Bound
<1>20. ASSUME NEW r \in Requests, Mark(r)
      PROVE  DirtyIsPending'
  BY <1>20
    DEF Mark, Goto, timerVars, saveVars, gitVars, TypeOK, PlaceInv, Place,
        DirtyIsPending, Bound
<1>21. ASSUME NEW r \in Requests, Name(r)
      PROVE  DirtyIsPending'
  BY <1>21
    DEF Name, Goto, StartArming, saveVars, gitVars, TypeOK, PlaceInv, Place,
        DirtyIsPending, Bound
<1>22. ASSUME NEW r \in Requests, OpenThread(r)
      PROVE  DirtyIsPending'
  BY <1>22
    DEF OpenThread, Goto, StartArming, markVars, saveVars, gitVars, TypeOK,
        PlaceInv, Place, DirtyIsPending, Bound
<1>23. ASSUME NEW r \in Requests, Leave(r)
      PROVE  DirtyIsPending'
  BY <1>23
    DEF Leave, Goto, timerVars, markVars, saveVars, gitVars, TypeOK, PlaceInv,
        Place, DirtyIsPending, Bound
<1>24. ASSUME NEW r \in Requests, DoorReads(r)
      PROVE  DirtyIsPending'
  BY <1>24
    DEF DoorReads, Goto, timerVars, markVars, saveVars, gitVars, TypeOK,
        PlaceInv, Place, DirtyIsPending, Bound
<1>25. ASSUME NEW r \in Requests, DoorDeadline(r)
      PROVE  DirtyIsPending'
  BY <1>25
    DEF DoorDeadline, Goto, timerVars, markVars, saveVars, gitVars, TypeOK,
        PlaceInv, Place, DirtyIsPending, Bound
<1>26. ASSUME NEW r \in Requests, DoorWrites(r)
      PROVE  DirtyIsPending'
  BY <1>26
    DEF DoorWrites, Goto, Writes, timerVars, markVars, saveVars, TypeOK,
        PlaceInv, Place, DirtyIsPending, Bound
<1>27. ASSUME NEW r \in Requests, DoorTries(r)
      PROVE  DirtyIsPending'
  BY <1>27
    DEF DoorTries, Goto, timerVars, markVars, saveVars, gitVars, TypeOK,
        PlaceInv, Place, DirtyIsPending, Bound
<1>28. ASSUME NEW r \in Requests, DoorFails(r)
      PROVE  DirtyIsPending'
  BY <1>28
    DEF DoorFails, Goto, timerVars, markVars, saveVars, gitVars, TypeOK,
        PlaceInv, Place, DirtyIsPending, Bound
<1>29. ASSUME NEW r \in Requests, TurnBegins(r)
      PROVE  DirtyIsPending'
  BY <1>29
    DEF TurnBegins, Goto, timerVars, markVars, saveVars, gitVars, TypeOK,
        PlaceInv, Place, DirtyIsPending, Bound
<1>30. ASSUME NEW r \in Requests, TurnWedges(r)
      PROVE  DirtyIsPending'
  BY <1>30
    DEF TurnWedges, Goto, timerVars, markVars, saveVars, gitVars, TypeOK,
        PlaceInv, Place, DirtyIsPending, Bound
<1>31. ASSUME NEW r \in Requests, DeedWrites(r)
      PROVE  DirtyIsPending'
  BY <1>31
    DEF DeedWrites, Goto, Writes, timerVars, markVars, saveVars, TypeOK,
        PlaceInv, Place, DirtyIsPending, Bound
<1>32. CASE UNCHANGED vars
  BY <1>32
    DEF vars, timerVars, markVars, saveVars, gitVars, TypeOK, PlaceInv, Place,
        DirtyIsPending, Bound
<1> QED
  BY <1>1, <1>2, <1>3, <1>4, <1>5, <1>6, <1>7, <1>8, <1>9, <1>10, <1>11, <1>12,
      <1>13, <1>14, <1>15, <1>16, <1>17, <1>18, <1>19, <1>20, <1>21, <1>22,
      <1>23, <1>24, <1>25, <1>26, <1>27, <1>28, <1>29, <1>30, <1>31, <1>32
    DEF Next, SaveStep, TimerStep, GoesOn, Outside

\* Only `_enter_chat_saving` and `_leave_chat_saving` change who is a saver.
LEMMA SaversMoves ==
    ASSUME TypeOK, PlaceInv, [Next]_vars
    PROVE  SaversMove
<1>1. ASSUME NEW a \in Actors, ReadSlot(a) \/ CancelHeld(a) \/ Launch(a)
      PROVE  SaversMove
  BY <1>1
    DEF ReadSlot, CancelHeld, Launch, Goto, Unused, markVars, saveVars, gitVars,
        TypeOK, PlaceInv, Place, SaversMove, Savers, InSave
<1>2. ASSUME NEW a \in Actors, Look(a) \/ TryLock(a)
      PROVE  SaversMove
  BY <1>2
    DEF Look, TryLock, Goto, StartArming, Rest, timerVars, markVars, saveVars,
        gitVars, TypeOK, PlaceInv, Place, SaversMove, Savers, InSave
<1>3. ASSUME NEW a \in Actors, Enter(a)
      PROVE  SaversMove
  <2>1. a \notin Savers /\ Savers' = Savers \cup {a}
    BY <1>3 DEF Enter, Goto, Savers, InSave, TypeOK, PlaceInv, Place, timerVars
  <2> QED BY <1>3, <2>1 DEF Enter, SaversMove
<1>4. ASSUME NEW a \in Actors, Give(a)
      PROVE  SaversMove
  BY <1>4
    DEF Give, Goto, Rest, timerVars, markVars, saveVars, gitVars, TypeOK,
        PlaceInv, Place, SaversMove, Savers, InSave
<1>5. ASSUME NEW a \in Actors, Lower(a)
      PROVE  SaversMove
  <2>1. a \in Savers /\ Savers' = Savers \ {a}
    BY <1>5 DEF Lower, Goto, Rest, Savers, InSave, TypeOK, PlaceInv, Place, timerVars
  <2> QED BY <1>5, <2>1 DEF Lower, SaversMove
<1>6. ASSUME NEW a \in Actors, Commit(a) \/ Send(a)
      PROVE  SaversMove
  BY <1>6
    DEF Commit, Send, Goto, Fails, timerVars, markVars, TypeOK, PlaceInv, Place,
        SaversMove, Savers, InSave
<1>7. ASSUME NEW a \in Actors, Settle(a) \/ Unname(a) \/ Tell(a)
      PROVE  SaversMove
  BY <1>7
    DEF Settle, Unname, Tell, Goto, StartArming, timerVars, markVars, saveVars,
        gitVars, TypeOK, PlaceInv, Place, SaversMove, Savers, InSave
<1>8. ASSUME NEW m \in Timers, Fire(m) \/ Wake(m) \/ AskLock(m)
      PROVE  SaversMove
  BY <1>8
    DEF Fire, Wake, AskLock, Goto, StartArming, timerVars, markVars, saveVars,
        gitVars, TypeOK, PlaceInv, Place, SaversMove, Savers, InSave
<1>9. ASSUME NEW r \in Requests, TalkEnds(r) \/ TalkTidies(r) \/ BuildEnds(r)
      PROVE  SaversMove
  BY <1>9
    DEF TalkEnds, TalkTidies, BuildEnds, Goto, Writes, Fails, timerVars,
        markVars, saveVars, gitVars, TypeOK, PlaceInv, Place, SaversMove,
        Savers, InSave
<1>10. ASSUME NEW r \in Requests,
      Mark(r) \/ Name(r) \/ OpenThread(r) \/ Leave(r)
      PROVE  SaversMove
  BY <1>10
    DEF Mark, Name, OpenThread, Leave, Goto, StartArming, timerVars, markVars,
        saveVars, gitVars, TypeOK, PlaceInv, Place, SaversMove, Savers, InSave
<1>11. ASSUME NEW r \in Requests,
      DoorReads(r) \/ DoorDeadline(r) \/ DoorWrites(r)
      PROVE  SaversMove
  BY <1>11
    DEF DoorReads, DoorDeadline, DoorWrites, Goto, Writes, timerVars, markVars,
        saveVars, gitVars, TypeOK, PlaceInv, Place, SaversMove, Savers, InSave
<1>12. ASSUME NEW r \in Requests, DoorTries(r) \/ DoorFails(r)
      PROVE  SaversMove
  BY <1>12
    DEF DoorTries, DoorFails, Goto, timerVars, markVars, saveVars, gitVars,
        TypeOK, PlaceInv, Place, SaversMove, Savers, InSave
<1>13. ASSUME NEW r \in Requests,
      TurnBegins(r) \/ TurnWedges(r) \/ DeedWrites(r)
      PROVE  SaversMove
  BY <1>13
    DEF TurnBegins, TurnWedges, DeedWrites, Goto, Writes, timerVars, markVars,
        saveVars, gitVars, TypeOK, PlaceInv, Place, SaversMove, Savers, InSave
<1>14. CASE UNCHANGED vars
  BY <1>14
    DEF vars, timerVars, markVars, saveVars, gitVars, TypeOK, PlaceInv, Place,
        SaversMove, Savers, InSave
<1> QED
  BY <1>1, <1>2, <1>3, <1>4, <1>5, <1>6, <1>7, <1>8, <1>9, <1>10, <1>11, <1>12,
      <1>13, <1>14
    DEF Next, SaveStep, TimerStep, GoesOn, Outside

\* Adding or removing one saver keeps count and mark exact.
LEMMA SaversStep ==
    ASSUME TypeOK, PlaceInv, SaversCounted, [Next]_vars
    PROVE  SaversCounted'
<1>1. IsFiniteSet(Savers)
  BY BoundsAssumption, FS_Subset DEF Savers
<1>2. savers = Cardinality(Savers) /\ savers \in Nat /\ (saving <=> savers > 0)
  BY DEF SaversCounted, Savers, TypeOK
<1>3. SaversMove
  BY SaversMoves
<1>4. savers' = Cardinality(Savers') /\ (saving' <=> savers' > 0)
  <2>1. CASE UNCHANGED <<Savers, savers, saving>>
    BY <1>2, <2>1
  <2>2. ASSUME NEW a \in Actors \ Savers,
               Savers' = Savers \cup {a}, savers' = savers + 1, saving' = TRUE
        PROVE  savers' = Cardinality(Savers') /\ (saving' <=> savers' > 0)
    <3>1. Cardinality(Savers') = Cardinality(Savers) + 1
      BY <1>1, <2>2, FS_AddElement
    <3>2. savers' = Cardinality(Savers') /\ savers' > 0
      BY <1>2, <2>2, <3>1
    <3> QED BY <2>2, <3>2
  <2>3. ASSUME NEW a \in Savers,
               Savers' = Savers \ {a},
               savers' = IF savers > 0 THEN savers - 1 ELSE 0,
               saving' = (saving /\ savers > 1)
        PROVE  savers' = Cardinality(Savers') /\ (saving' <=> savers' > 0)
    <3>1. Cardinality(Savers') = Cardinality(Savers) - 1 /\ Cardinality(Savers') \in Nat
      BY <1>1, <2>3, FS_RemoveElement, FS_CardinalityType
    <3>2. savers > 0 /\ savers' = savers - 1
      BY <1>2, <2>3, <3>1
    <3>3. saving
      BY <1>2, <3>2
    <3>4. savers' = Cardinality(Savers') /\ (savers' > 0 <=> savers > 1)
      BY <1>2, <3>1, <3>2
    <3>5. saving' <=> savers > 1
      BY <2>3, <3>3
    <3> QED BY <3>4, <3>5
  <2> QED BY <1>3, <2>1, <2>2, <2>3 DEF SaversMove
<1> QED BY <1>4 DEF SaversCounted, Savers

-----------------------------------------------------------------------------
(***************************************************************************)
(* What a single step may do.                                              *)
(***************************************************************************)

\* A thread in a turn or in a door has the lock, so nobody else commits.
HalfTurnKept ==
    \A r \in Requests :
       pc[r] \in {"inTurn", "inDoor"} /\ pc'[r] = pc[r]
       => unsaved \subseteq unsaved'

\* A commit by another thread would need the lock of the turn.
LEMMA HalfTurnStep ==
    ASSUME TypeOK, LockInv, [Next]_vars
    PROVE  HalfTurnKept
<1>1. ASSUME NEW a \in Actors, ReadSlot(a) \/ CancelHeld(a) \/ Launch(a)
      PROVE  HalfTurnKept
  BY <1>1
    DEF ReadSlot, CancelHeld, Launch, Goto, Unused, markVars, saveVars, gitVars,
        TypeOK, LockInv, Holds, HalfTurnKept
<1>2. ASSUME NEW a \in Actors, Look(a) \/ Enter(a) \/ TryLock(a)
      PROVE  HalfTurnKept
  BY <1>2
    DEF Look, Enter, TryLock, Goto, StartArming, Rest, timerVars, markVars,
        saveVars, gitVars, TypeOK, LockInv, Holds, HalfTurnKept
<1>3. ASSUME NEW a \in Actors, Lower(a) \/ Give(a)
      PROVE  HalfTurnKept
  BY <1>3
    DEF Lower, Give, Goto, Rest, timerVars, markVars, saveVars, gitVars, TypeOK,
        LockInv, Holds, HalfTurnKept
<1>4. ASSUME NEW a \in Actors, Commit(a) \/ Send(a)
      PROVE  HalfTurnKept
  BY <1>4
    DEF Commit, Send, Goto, Fails, timerVars, markVars, TypeOK, LockInv, Holds,
        HalfTurnKept
<1>5. ASSUME NEW a \in Actors, Settle(a) \/ Unname(a) \/ Tell(a)
      PROVE  HalfTurnKept
  BY <1>5
    DEF Settle, Unname, Tell, Goto, StartArming, timerVars, markVars, saveVars,
        gitVars, TypeOK, LockInv, Holds, HalfTurnKept
<1>6. ASSUME NEW m \in Timers, Fire(m) \/ Wake(m) \/ AskLock(m)
      PROVE  HalfTurnKept
  BY <1>6
    DEF Fire, Wake, AskLock, Goto, StartArming, timerVars, markVars, saveVars,
        gitVars, TypeOK, LockInv, Holds, HalfTurnKept
<1>7. ASSUME NEW r \in Requests, TalkEnds(r) \/ TalkTidies(r) \/ BuildEnds(r)
      PROVE  HalfTurnKept
  BY <1>7
    DEF TalkEnds, TalkTidies, BuildEnds, Goto, Writes, Fails, timerVars,
        markVars, saveVars, gitVars, TypeOK, LockInv, Holds, HalfTurnKept
<1>8. ASSUME NEW r \in Requests,
      Mark(r) \/ Name(r) \/ OpenThread(r) \/ Leave(r)
      PROVE  HalfTurnKept
  BY <1>8
    DEF Mark, Name, OpenThread, Leave, Goto, StartArming, timerVars, markVars,
        saveVars, gitVars, TypeOK, LockInv, Holds, HalfTurnKept
<1>9. ASSUME NEW r \in Requests,
      DoorReads(r) \/ DoorDeadline(r) \/ DoorWrites(r)
      PROVE  HalfTurnKept
  BY <1>9
    DEF DoorReads, DoorDeadline, DoorWrites, Goto, Writes, timerVars, markVars,
        saveVars, gitVars, TypeOK, LockInv, Holds, HalfTurnKept
<1>10. ASSUME NEW r \in Requests, DoorTries(r) \/ DoorFails(r)
      PROVE  HalfTurnKept
  BY <1>10
    DEF DoorTries, DoorFails, Goto, timerVars, markVars, saveVars, gitVars,
        TypeOK, LockInv, Holds, HalfTurnKept
<1>11. ASSUME NEW r \in Requests,
      TurnBegins(r) \/ TurnWedges(r) \/ DeedWrites(r)
      PROVE  HalfTurnKept
  BY <1>11
    DEF TurnBegins, TurnWedges, DeedWrites, Goto, Writes, timerVars, markVars,
        saveVars, gitVars, TypeOK, LockInv, Holds, HalfTurnKept
<1>12. CASE UNCHANGED vars
  BY <1>12
    DEF vars, timerVars, markVars, saveVars, gitVars, TypeOK, LockInv, Holds,
        HalfTurnKept
<1> QED
  BY <1>1, <1>2, <1>3, <1>4, <1>5, <1>6, <1>7, <1>8, <1>9, <1>10, <1>11, <1>12
    DEF Next, SaveStep, TimerStep, GoesOn, Outside

\* The mark is withdrawn by a save that landed, under the lock it holds.
Withdrawn == told /\ ~told' => unsent = {}

\* Only `_chat_save_now` withdraws a failure, after a push that landed.
LEMMA WithdrawnStep ==
    ASSUME TypeOK, WorkInv, [Next]_vars
    PROVE  Withdrawn
<1>1. ASSUME NEW a \in Actors, ReadSlot(a) \/ CancelHeld(a) \/ Launch(a)
      PROVE  Withdrawn
  BY <1>1
    DEF ReadSlot, CancelHeld, Launch, Goto, Unused, markVars, saveVars, gitVars,
        TypeOK, WorkInv, Withdrawn
<1>2. ASSUME NEW a \in Actors, Look(a) \/ Enter(a) \/ TryLock(a)
      PROVE  Withdrawn
  BY <1>2
    DEF Look, Enter, TryLock, Goto, StartArming, Rest, timerVars, markVars,
        saveVars, gitVars, TypeOK, WorkInv, Withdrawn
<1>3. ASSUME NEW a \in Actors, Lower(a) \/ Give(a)
      PROVE  Withdrawn
  BY <1>3
    DEF Lower, Give, Goto, Rest, timerVars, markVars, saveVars, gitVars, TypeOK,
        WorkInv, Withdrawn
<1>4. ASSUME NEW a \in Actors, Commit(a) \/ Send(a)
      PROVE  Withdrawn
  BY <1>4
    DEF Commit, Send, Goto, Fails, timerVars, markVars, TypeOK, WorkInv,
        Withdrawn
<1>5. ASSUME NEW a \in Actors, Settle(a) \/ Unname(a) \/ Tell(a)
      PROVE  Withdrawn
  BY <1>5
    DEF Settle, Unname, Tell, Goto, StartArming, timerVars, markVars, saveVars,
        gitVars, TypeOK, WorkInv, Withdrawn
<1>6. ASSUME NEW m \in Timers, Fire(m) \/ Wake(m) \/ AskLock(m)
      PROVE  Withdrawn
  BY <1>6
    DEF Fire, Wake, AskLock, Goto, StartArming, timerVars, markVars, saveVars,
        gitVars, TypeOK, WorkInv, Withdrawn
<1>7. ASSUME NEW r \in Requests, TalkEnds(r) \/ TalkTidies(r) \/ BuildEnds(r)
      PROVE  Withdrawn
  BY <1>7
    DEF TalkEnds, TalkTidies, BuildEnds, Goto, Writes, Fails, timerVars,
        markVars, saveVars, gitVars, TypeOK, WorkInv, Withdrawn
<1>8. ASSUME NEW r \in Requests,
      Mark(r) \/ Name(r) \/ OpenThread(r) \/ Leave(r)
      PROVE  Withdrawn
  BY <1>8
    DEF Mark, Name, OpenThread, Leave, Goto, StartArming, timerVars, markVars,
        saveVars, gitVars, TypeOK, WorkInv, Withdrawn
<1>9. ASSUME NEW r \in Requests,
      DoorReads(r) \/ DoorDeadline(r) \/ DoorWrites(r)
      PROVE  Withdrawn
  BY <1>9
    DEF DoorReads, DoorDeadline, DoorWrites, Goto, Writes, timerVars, markVars,
        saveVars, gitVars, TypeOK, WorkInv, Withdrawn
<1>10. ASSUME NEW r \in Requests, DoorTries(r) \/ DoorFails(r)
      PROVE  Withdrawn
  BY <1>10
    DEF DoorTries, DoorFails, Goto, timerVars, markVars, saveVars, gitVars,
        TypeOK, WorkInv, Withdrawn
<1>11. ASSUME NEW r \in Requests,
      TurnBegins(r) \/ TurnWedges(r) \/ DeedWrites(r)
      PROVE  Withdrawn
  BY <1>11
    DEF TurnBegins, TurnWedges, DeedWrites, Goto, Writes, timerVars, markVars,
        saveVars, gitVars, TypeOK, WorkInv, Withdrawn
<1>12. CASE UNCHANGED vars
  BY <1>12
    DEF vars, timerVars, markVars, saveVars, gitVars, TypeOK, WorkInv, Withdrawn
<1> QED
  BY <1>1, <1>2, <1>3, <1>4, <1>5, <1>6, <1>7, <1>8, <1>9, <1>10, <1>11, <1>12
    DEF Next, SaveStep, TimerStep, GoesOn, Outside

\* Whoever is in a save has the mark up.
LEMMA SaverIsMarked ==
    ASSUME TypeOK, SaversCounted, NEW a \in Actors, InSave(a)
    PROVE  saving
<1>1. IsFiniteSet(Savers) /\ a \in Savers
  BY BoundsAssumption, FS_Subset DEF Savers
<1>2. Cardinality(Savers) # 0 /\ Cardinality(Savers) \in Nat
  BY <1>1, FS_EmptySet, FS_CardinalityType
<1> QED BY <1>2 DEF SaversCounted, Savers

\* A door gives up early only when no save holds the lock.
Patient ==
    \A d \in Doors :
       pc[d] \in {"reads", "polls"} /\ pc'[d] = "last"
       => ~ \E a \in Actors \ Doors : lock = a /\ pc[a] \in CommitPcs

\* A door that reads the mark down has no saver at work to wait for.
LEMMA PatientStep ==
    ASSUME TypeOK, PlaceInv, SaversCounted, [Next]_vars
    PROVE  Patient
<1>1. ASSUME NEW a \in Actors, ReadSlot(a) \/ CancelHeld(a) \/ Launch(a)
      PROVE  Patient
  BY <1>1
    DEF ReadSlot, CancelHeld, Launch, Goto, Unused, markVars, saveVars, gitVars,
        TypeOK, PlaceInv, Place, Patient
<1>2. ASSUME NEW a \in Actors, Look(a) \/ Enter(a) \/ TryLock(a)
      PROVE  Patient
  BY <1>2
    DEF Look, Enter, TryLock, Goto, StartArming, Rest, timerVars, markVars,
        saveVars, gitVars, TypeOK, PlaceInv, Place, Patient
<1>3. ASSUME NEW a \in Actors, Lower(a) \/ Give(a)
      PROVE  Patient
  BY <1>3
    DEF Lower, Give, Goto, Rest, timerVars, markVars, saveVars, gitVars, TypeOK,
        PlaceInv, Place, Patient
<1>4. ASSUME NEW a \in Actors, Commit(a) \/ Send(a)
      PROVE  Patient
  BY <1>4
    DEF Commit, Send, Goto, Fails, timerVars, markVars, TypeOK, PlaceInv, Place,
        Patient
<1>5. ASSUME NEW a \in Actors, Settle(a) \/ Unname(a) \/ Tell(a)
      PROVE  Patient
  BY <1>5
    DEF Settle, Unname, Tell, Goto, StartArming, timerVars, markVars, saveVars,
        gitVars, TypeOK, PlaceInv, Place, Patient
<1>6. ASSUME NEW m \in Timers, Fire(m) \/ Wake(m) \/ AskLock(m)
      PROVE  Patient
  BY <1>6
    DEF Fire, Wake, AskLock, Goto, StartArming, timerVars, markVars, saveVars,
        gitVars, TypeOK, PlaceInv, Place, Patient
<1>7. ASSUME NEW r \in Requests, TalkEnds(r) \/ TalkTidies(r) \/ BuildEnds(r)
      PROVE  Patient
  BY <1>7
    DEF TalkEnds, TalkTidies, BuildEnds, Goto, Writes, Fails, timerVars,
        markVars, saveVars, gitVars, TypeOK, PlaceInv, Place, Patient
<1>8. ASSUME NEW r \in Requests,
      Mark(r) \/ Name(r) \/ OpenThread(r) \/ Leave(r)
      PROVE  Patient
  BY <1>8
    DEF Mark, Name, OpenThread, Leave, Goto, StartArming, timerVars, markVars,
        saveVars, gitVars, TypeOK, PlaceInv, Place, Patient
<1>9. ASSUME NEW r \in Requests, DoorDeadline(r) \/ DoorWrites(r)
      PROVE  Patient
  BY <1>9
    DEF DoorDeadline, DoorWrites, Goto, Writes, timerVars, markVars, saveVars,
        gitVars, TypeOK, PlaceInv, Place, Patient
<1>10. ASSUME NEW r \in Requests, DoorReads(r)
      PROVE  Patient
  <2>1. ASSUME NEW a \in Actors \ Doors, pc[a] \in CommitPcs PROVE saving
    BY <2>1, SaverIsMarked DEF InSave
  <2> QED BY <1>10, <2>1 DEF DoorReads, Goto, Patient, TypeOK
<1>11. ASSUME NEW r \in Requests, DoorTries(r) \/ DoorFails(r)
      PROVE  Patient
  BY <1>11
    DEF DoorTries, DoorFails, Goto, timerVars, markVars, saveVars, gitVars,
        TypeOK, PlaceInv, Place, Patient
<1>12. ASSUME NEW r \in Requests,
      TurnBegins(r) \/ TurnWedges(r) \/ DeedWrites(r)
      PROVE  Patient
  BY <1>12
    DEF TurnBegins, TurnWedges, DeedWrites, Goto, Writes, timerVars, markVars,
        saveVars, gitVars, TypeOK, PlaceInv, Place, Patient
<1>13. CASE UNCHANGED vars
  BY <1>13
    DEF vars, timerVars, markVars, saveVars, gitVars, TypeOK, PlaceInv, Place,
        Patient
<1> QED
  BY <1>1, <1>2, <1>3, <1>4, <1>5, <1>6, <1>7, <1>8, <1>9, <1>10, <1>11, <1>12,
      <1>13
    DEF Next, SaveStep, TimerStep, GoesOn, Outside

-----------------------------------------------------------------------------
(***************************************************************************)
(* The theorems.                                                           *)
(***************************************************************************)

\* The strengthened invariant holds in every behaviour.
THEOREM InductiveInvariant == Spec => []IInv
<1>1. Init => IInv
  <2> SUFFICES ASSUME Init PROVE IInv
    OBVIOUS
  <2>1. TypeOK
    <3>1. failures \in 0..MaxFailures
      BY BoundsAssumption DEF Init
    <3>2. /\ pc \in [Actors -> Pcs]
          /\ \A m \in Timers : pc[m] \notin {"start", "done"}
          /\ \A r \in Requests : pc[r] \notin {"off", "armed"} \cup WakePcs
      BY DEF Init
    <3>3. savers \in Nat /\ result \in [Actors -> Results]
      BY DEF Init, Results
    <3> QED BY <3>1, <3>2, <3>3 DEF Init, TypeOK
  <2>2. PlaceInv /\ LockInv /\ WorkInv /\ DirtyIsPending
    BY DEF Init, PlaceInv, Place, LockInv, Holds, WorkInv, DirtyIsPending
  <2>3. Savers = {}
    BY DEF Init, Savers, InSave
  <2>4. SaversCounted
    BY <2>3, FS_EmptySet DEF Init, SaversCounted, Savers
  <2> QED BY <2>1, <2>2, <2>4 DEF IInv
<1>2. IInv /\ [Next]_vars => IInv'
  BY TypeStep, PlaceStep, LockStep, WorkStep, SaversStep, DirtyStep DEF IInv
<1> QED BY <1>1, <1>2, PTL DEF Spec

\* The types, for any number of requests and timers.
THEOREM TypeCorrect == Spec => []TypeOK
<1>1. IInv => TypeOK
  BY DEF IInv
<1> QED BY <1>1, InductiveInvariant, PTL

\* A dirty mark always has somebody on the way to commit it: no interleaving of
\* arms, cancels and lost races leaves dirty files with an empty timer slot.
THEOREM MarkIsNeverStranded == Spec => []DirtyIsPending
<1>1. IInv => DirtyIsPending
  BY DEF IInv
<1> QED BY <1>1, InductiveInvariant, PTL

\* The count of savers is exact and the mark is up exactly while one is at work.
THEOREM MarkIsExact == Spec => []SaversCounted
<1>1. IInv => SaversCounted
  BY DEF IInv
<1> QED BY <1>1, InductiveInvariant, PTL

\* No save commits the half-written tree of a turn or of a door.
THEOREM CommitsWholeTurns == Spec => NoHalfTurnCommitted
<1>1. IInv /\ [Next]_vars => [HalfTurnKept]_vars
  BY HalfTurnStep DEF IInv
<1> QED
  BY <1>1, InductiveInvariant, PTL DEF Spec, NoHalfTurnCommitted, HalfTurnKept

\* A failure is withdrawn only when the remote has everything.
THEOREM FailureStaysTold == Spec => ToldUntilSent
<1>1. IInv /\ [Next]_vars => [Withdrawn]_vars
  BY WithdrawnStep DEF IInv
<1> QED BY <1>1, InductiveInvariant, PTL DEF Spec, ToldUntilSent, Withdrawn

\* A door never refuses early against a save that holds the lock.
THEOREM DoorIsPatient == Spec => DoorWaitsOutASave
<1>1. IInv /\ [Next]_vars => [Patient]_vars
  BY PatientStep DEF IInv
<1> QED
  BY <1>1, InductiveInvariant, PTL DEF Spec, DoorWaitsOutASave, Patient
=============================================================================
