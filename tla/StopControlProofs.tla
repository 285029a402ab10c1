-------------------------- MODULE StopControlProofs --------------------------
(***************************************************************************)
(* Proofs about StopControl, for any number of turns, presses and resets,  *)
(* and any bound on prompts.                                               *)
(***************************************************************************)
EXTENDS StopControl, FiniteSetTheorems, TLAPS

\* A turn that is open has the turn lock, and so has a reset that is inside.
LockInv ==
    /\ \A t \in Turns : pc[t] \notin {"start", "over"} => lock = t
    /\ \A r \in Resets : resetPc[r] = "inside" => lock = r

\* Where a turn has no session at work: it has not prompted one, or has read it idle.
QuietPcs == {"start", "decides", "opening", "preflight", "asks", "creates", "published",
             "last", "resent"}

\* A session works only for the turn that prompts it, and for no other of its sessions,
\* but for those of a turn that tried a phase again beside the first.
WorkInv ==
    \A t \in Turns \ lapsed, s \in Sessions :
       work[s] = t => s = session[t] /\ pc[t] \notin QuietPcs

\* A verdict is given on the way out.
EndInv == \A t \in Turns : how[t] # "none" => pc[t] \in {"closing", "over"}

\* A press that has decided keeps `_stop_control_lock` until it has raised the flag.
StopInv == \A p \in Stops : stopPc[p] = "decided" => stopLock = p

\* Where an approved plan has published the session it prompts.
FreshPcs == {"published", "ready", "poll", "last", "unread", "resends", "resent", "cut",
             "grace", "swap", "swapGrace"}

LiveInv ==
    \A t \in Approvals : pc[t] \in FreshPcs => active = session[t] /\ session[t] # None

\* Where an approved plan is on its way to a prompt of the session it has.
AimPcs == {"published", "ready", "unread", "swap", "swapGrace"}

\* A flag that an approved plan takes along to its prompt names the session prompted.
AimInv ==
    \A t \in Approvals :
       pc[t] \in AimPcs /\ flag => \E p \in Stops : captured[p] = session[t]

\* The strengthening.  LockInv is what keeps one turn's steps away from another's session.
IInv == TypeOK /\ LockInv /\ WorkInv /\ EndInv /\ StopInv /\ LiveInv /\ AimInv /\ GaveUpIsQuiet

\* What the kinds of turns have to do with each other.
LEMMA Kinds ==
    /\ Coders \subseteq Turns
    /\ Approvals \subseteq Coders /\ Builds \subseteq Coders /\ Phased \subseteq Coders
    /\ Declines \subseteq Turns /\ Declines \cap Approvals = {}
    /\ Approvals \cap Phased = {} /\ Approvals \cap Builds = {}
    /\ None \notin Turns /\ None \notin Resets /\ None \notin Stops
    /\ Resets \cap Turns = {}
BY KindsAssumption DEF Turns, Coders

USE Kinds

\* A clean session is a session.
LEMMA CleanIsSession ==
    ASSUME NEW t \in Turns, NEW n \in 0..MaxSends
    PROVE  Clean(t, n) \in Sessions /\ Clean(t, n) # None
BY SessionsAssumption DEF Sessions

\* Every step keeps the types.
LEMMA TypeStep ==
    ASSUME TypeOK, [Next]_vars
    PROVE  TypeOK'
<1>1. ASSUME NEW t \in Turns, Begin(t)
      PROVE  TypeOK'
  BY <1>1
    DEF Begin, Goto, projVars, stopVars, TypeOK, TurnPcs, Ends
<1>2. ASSUME NEW t \in Turns, Decide(t)
      PROVE  TypeOK'
  <2>1. pc' \in [Turns -> TurnPcs]
    BY <1>2 DEF Decide, Goto, TypeOK, TurnPcs
  <2>2. how' \in [Turns -> Ends]
    BY <1>2 DEF Decide, TypeOK, Ends
  <2>3. flag' \in BOOLEAN /\ lock' \in Turns \cup Resets \cup {None}
    BY <1>2 DEF Decide, TypeOK
  <2> QED
    BY <1>2, <2>1, <2>2, <2>3 DEF Decide, stopVars, TypeOK
<1>3. ASSUME NEW t \in Turns, Open(t)
      PROVE  TypeOK'
  <2>1. Clean(t, sends[t]) \in Sessions /\ ChatSession \in Sessions
    BY CleanIsSession DEF TypeOK, Sessions
  <2>2. pc' \in [Turns -> TurnPcs]
    BY <1>3 DEF Open, Goto, TypeOK, TurnPcs
  <2>3. session' \in [Turns -> Sessions \cup {None}] /\ session'[t] \in Sessions
    BY <1>3, <2>1 DEF Open, TypeOK
  <2>4. active' \in Sessions \cup {None}
    BY <1>3, <2>3 DEF Open, TypeOK
  <2> QED
    BY <1>3, <2>2, <2>3, <2>4 DEF Open, stopVars, TypeOK
<1>4. ASSUME NEW t \in Turns, Preflight(t)
      PROVE  TypeOK'
  <2>1. pc' \in [Turns -> TurnPcs]
    BY <1>4
      DEF Preflight, Goto, EndsAs, stopVars, TypeOK, TurnPcs
  <2>2. how' \in [Turns -> Ends]
    BY <1>4
      DEF Preflight, Goto, EndsAs, stopVars, TypeOK, Ends
  <2> QED
    BY <1>4, <2>1, <2>2
      DEF Preflight, EndsAs, stopVars, TypeOK
<1>5. ASSUME NEW t \in Turns, AskFresh(t)
      PROVE  TypeOK'
  <2>1. pc' \in [Turns -> TurnPcs]
    BY <1>5
      DEF AskFresh, Goto, EndsAs, stopVars, TypeOK, TurnPcs
  <2>2. how' \in [Turns -> Ends]
    BY <1>5
      DEF AskFresh, Goto, EndsAs, stopVars, TypeOK, Ends
  <2> QED
    BY <1>5, <2>1, <2>2
      DEF AskFresh, EndsAs, stopVars, TypeOK
<1>6. ASSUME NEW t \in Turns, Publish(t)
      PROVE  TypeOK'
  <2>1. pc' \in [Turns -> TurnPcs]
    BY <1>6
      DEF Publish, Goto, EndsAs, stopVars, TypeOK, TurnPcs
  <2>2. how' \in [Turns -> Ends]
    BY <1>6
      DEF Publish, Goto, EndsAs, stopVars, TypeOK, Ends
  <2>3. session' \in [Turns -> Sessions \cup {None}]
    BY <1>6, CleanIsSession
      DEF Publish, Goto, EndsAs, stopVars, TypeOK
  <2>4. kept' \in Sessions
    BY <1>6, CleanIsSession
      DEF Publish, Goto, EndsAs, stopVars, TypeOK
  <2>5. active' \in Sessions \cup {None}
    BY <1>6, CleanIsSession
      DEF Publish, Goto, EndsAs, stopVars, TypeOK
  <2> QED
    BY <1>6, <2>1, <2>2, <2>3, <2>4, <2>5
      DEF Publish, EndsAs, stopVars, TypeOK
<1>7. ASSUME NEW t \in Turns, StartFresh(t)
      PROVE  TypeOK'
  <2>1. pc' \in [Turns -> TurnPcs]
    BY <1>7
      DEF StartFresh, Goto, EndsAs, stopVars, TypeOK, TurnPcs
  <2>2. how' \in [Turns -> Ends]
    BY <1>7
      DEF StartFresh, Goto, EndsAs, stopVars, TypeOK, Ends
  <2> QED
    BY <1>7, <2>1, <2>2
      DEF StartFresh, EndsAs, stopVars, TypeOK
<1>8. ASSUME NEW t \in Turns, DriverFails(t)
      PROVE  TypeOK'
  BY <1>8
    DEF DriverFails, Goto, EndsAs, projVars, stopVars, TypeOK, TurnPcs, Ends
<1>9. ASSUME NEW t \in Turns, Send(t)
      PROVE  TypeOK'
  <2>1. pc' \in [Turns -> TurnPcs]
    BY <1>9
      DEF Send, Goto, stopVars, TypeOK, TurnPcs
  <2>2. sends' \in [Turns -> 0..MaxSends]
    BY <1>9, BoundAssumption
      DEF Send, Goto, stopVars, TypeOK
  <2>3. active' \in Sessions \cup {None}
    BY <1>9
      DEF Send, Goto, stopVars, TypeOK
  <2>4. work' \in [Sessions -> Turns \cup {None}]
    BY <1>9
      DEF Send, Goto, stopVars, TypeOK
  <2> QED
    BY <1>9, <2>1, <2>2, <2>3, <2>4
      DEF Send, stopVars, TypeOK
<1>10. ASSUME NEW t \in Turns, PollFinished(t)
      PROVE  TypeOK'
  BY <1>10
    DEF PollFinished, Goto, projVars, stopVars, TypeOK, TurnPcs, Ends
<1>11. ASSUME NEW t \in Turns, PollStop(t)
      PROVE  TypeOK'
  BY <1>11
    DEF PollStop, Goto, EndsAs, Interrupt, stopVars, TypeOK, TurnPcs, Ends
<1>12. ASSUME NEW t \in Turns, LastStop(t)
      PROVE  TypeOK'
  <2>1. pc' \in [Turns -> TurnPcs]
    <3>1. pc' = [pc EXCEPT ![t] = "closing"] \/ pc' = [pc EXCEPT ![t] = "poll"]
      BY <1>12 DEF LastStop, Goto, EndsAs
    <3> QED
      BY <3>1 DEF TypeOK, TurnPcs
  <2>2. how' \in [Turns -> Ends]
    BY <1>12 DEF LastStop, EndsAs, TypeOK, Ends
  <2>3. flag' \in BOOLEAN
    BY <1>12 DEF LastStop, EndsAs, TypeOK
  <2> QED
    BY <1>12, <2>1, <2>2, <2>3 DEF LastStop, stopVars, TypeOK
<1>13. ASSUME NEW t \in Turns, LastGoesOn(t)
      PROVE  TypeOK'
  BY <1>13
    DEF LastGoesOn, Goto, EndsAs, projVars, stopVars, TypeOK, TurnPcs, Ends
<1>14. ASSUME NEW t \in Turns, Resend(t)
      PROVE  TypeOK'
  <2>1. pc' \in [Turns -> TurnPcs]
    BY <1>14
      DEF Resend, Goto, stopVars, TypeOK, TurnPcs
  <2>2. session' \in [Turns -> Sessions \cup {None}]
    BY <1>14, CleanIsSession
      DEF Resend, Goto, stopVars, TypeOK
  <2>3. kept' \in Sessions
    BY <1>14, CleanIsSession
      DEF Resend, Goto, stopVars, TypeOK
  <2>4. active' \in Sessions \cup {None}
    BY <1>14, CleanIsSession
      DEF Resend, Goto, stopVars, TypeOK
  <2> QED
    BY <1>14, <2>1, <2>2, <2>3, <2>4
      DEF Resend, stopVars, TypeOK
<1>15. ASSUME NEW t \in Turns, Ceiling(t) \/ Cut(t) \/ CutInterrupts(t)
      PROVE  TypeOK'
  BY <1>15
    DEF Ceiling, Cut, CutInterrupts, Goto, EndsAs, Interrupt, projVars,
        stopVars, TypeOK, TurnPcs, Ends
<1>16. ASSUME NEW t \in Turns, GivesUp(t)
      PROVE  TypeOK'
  <2>1. pc' \in [Turns -> TurnPcs]
    BY <1>16
      DEF GivesUp, Goto, EndsAs, stopVars, TypeOK, TurnPcs
  <2>2. how' \in [Turns -> Ends]
    BY <1>16
      DEF GivesUp, Goto, EndsAs, stopVars, TypeOK, Ends
  <2> QED
    BY <1>16, <2>1, <2>2
      DEF GivesUp, EndsAs, stopVars, TypeOK
<1>17. ASSUME NEW t \in Turns, Swap(t)
      PROVE  TypeOK'
  <2>1. pc' \in [Turns -> TurnPcs]
    BY <1>17
      DEF Swap, Goto, EndsAs, stopVars, TypeOK, TurnPcs
  <2>2. how' \in [Turns -> Ends]
    BY <1>17
      DEF Swap, Goto, EndsAs, stopVars, TypeOK, Ends
  <2> QED
    BY <1>17, <2>1, <2>2
      DEF Swap, EndsAs, stopVars, TypeOK
<1>18. ASSUME NEW t \in Turns, NoIdleReading(t)
      PROVE  TypeOK'
  <2>1. pc' \in [Turns -> TurnPcs]
    BY <1>18
      DEF NoIdleReading, Goto, EndsAs, stopVars, TypeOK, TurnPcs
  <2>2. how' \in [Turns -> Ends]
    BY <1>18
      DEF NoIdleReading, Goto, EndsAs, stopVars, TypeOK, Ends
  <2> QED
    BY <1>18, <2>1, <2>2
      DEF NoIdleReading, EndsAs, stopVars, TypeOK
<1>19. ASSUME NEW t \in Turns, Close(t)
      PROVE  TypeOK'
  BY <1>19
    DEF Close, Goto, stopVars, TypeOK, TurnPcs, Ends
<1>20. ASSUME NEW s \in Sessions, SessionEnds(s)
      PROVE  TypeOK'
  BY <1>20
    DEF SessionEnds, turnVars, projVars, stopVars, TypeOK, TurnPcs, Ends
<1>21. ASSUME NEW p \in Stops, Post(p)
      PROVE  TypeOK'
  BY <1>21
    DEF Post, Interrupt, turnVars, projVars, TypeOK, TurnPcs, Ends
<1>22. ASSUME NEW p \in Stops, Press(p)
      PROVE  TypeOK'
  BY <1>22
    DEF Press, turnVars, projVars, TypeOK, TurnPcs, Ends
<1>23. ASSUME NEW p \in Stops, Raise(p)
      PROVE  TypeOK'
  BY <1>23
    DEF Raise, turnVars, TypeOK, TurnPcs, Ends
<1>24. ASSUME NEW r \in Resets, ResetTries(r) \/ ResetAsks(r)
      PROVE  TypeOK'
  BY <1>24
    DEF ResetTries, ResetAsks, turnVars, projVars, stopVars, TypeOK, TurnPcs,
        Ends
<1>25. ASSUME NEW r \in Resets, ResetWaits(r) \/ ResetLeaves(r)
      PROVE  TypeOK'
  BY <1>25
    DEF ResetWaits, ResetLeaves, turnVars, projVars, stopVars, TypeOK, TurnPcs,
        Ends
<1>26. ASSUME NEW t \in Turns, PollLeaves(t) \/ PhaseAgain(t)
      PROVE  TypeOK'
  BY <1>26
    DEF PollLeaves, PhaseAgain, Goto, projVars, stopVars, TypeOK, TurnPcs, Ends
<1>27. ASSUME NEW t \in Turns, UnreadGoesOn(t)
      PROVE  TypeOK'
  BY <1>27
    DEF UnreadGoesOn, Goto, projVars, stopVars, TypeOK, TurnPcs, Ends
<1>28. ASSUME NEW t \in Turns, CutsOff(t)
      PROVE  TypeOK'
  BY <1>28
    DEF CutsOff, Goto, EndsAs, Interrupt, projVars, stopVars, TypeOK, TurnPcs, Ends
<1>29. CASE UNCHANGED vars
  BY <1>29
    DEF vars, turnVars, projVars, stopVars, TypeOK, TurnPcs, Ends
<1> QED
  BY <1>1, <1>2, <1>3, <1>4, <1>5, <1>6, <1>7, <1>8, <1>9, <1>10, <1>11, <1>12,
      <1>13, <1>14, <1>15, <1>16, <1>17, <1>18, <1>19, <1>20, <1>21, <1>22,
      <1>23, <1>24, <1>25, <1>26, <1>27, <1>28, <1>29
    DEF Next, TurnStep, StopStep, ResetStep

\* Only the turn that holds the lock is open.
LEMMA LockStep ==
    ASSUME TypeOK, LockInv, [Next]_vars
    PROVE  LockInv'
<1>1. ASSUME NEW t \in Turns, Begin(t) \/ Decide(t)
      PROVE  LockInv'
  BY <1>1
    DEF Begin, Decide, Goto, projVars, stopVars, TypeOK, LockInv
<1>2. ASSUME NEW t \in Turns, Open(t) \/ Preflight(t)
      PROVE  LockInv'
  BY <1>2
    DEF Open, Preflight, Goto, EndsAs, stopVars, TypeOK, LockInv
<1>3. ASSUME NEW t \in Turns, AskFresh(t) \/ Publish(t) \/ StartFresh(t)
      PROVE  LockInv'
  BY <1>3
    DEF AskFresh, Publish, StartFresh, Goto, EndsAs, stopVars, TypeOK, LockInv
<1>4. ASSUME NEW t \in Turns, Send(t) \/ DriverFails(t)
      PROVE  LockInv'
  BY <1>4
    DEF Send, DriverFails, Goto, EndsAs, projVars, stopVars, TypeOK, LockInv
<1>5. ASSUME NEW t \in Turns, PollStop(t) \/ PollFinished(t)
      PROVE  LockInv'
  BY <1>5
    DEF PollStop, PollFinished, Goto, EndsAs, Interrupt, projVars, stopVars,
        TypeOK, LockInv
<1>6. ASSUME NEW t \in Turns, LastStop(t) \/ LastGoesOn(t) \/ Resend(t)
      PROVE  LockInv'
  BY <1>6
    DEF LastStop, LastGoesOn, Resend, Goto, EndsAs, projVars, stopVars, TypeOK,
        LockInv
<1>7. ASSUME NEW t \in Turns, Ceiling(t) \/ Cut(t) \/ CutInterrupts(t)
      PROVE  LockInv'
  BY <1>7
    DEF Ceiling, Cut, CutInterrupts, Goto, EndsAs, Interrupt, projVars,
        stopVars, TypeOK, LockInv
<1>8. ASSUME NEW t \in Turns, GivesUp(t) \/ Swap(t) \/ NoIdleReading(t)
      PROVE  LockInv'
  BY <1>8
    DEF GivesUp, Swap, NoIdleReading, Goto, EndsAs, stopVars, TypeOK, LockInv
<1>9. ASSUME NEW t \in Turns, Close(t)
      PROVE  LockInv'
  BY <1>9
    DEF Close, Goto, stopVars, TypeOK, LockInv
<1>10. ASSUME NEW s \in Sessions, SessionEnds(s)
      PROVE  LockInv'
  BY <1>10
    DEF SessionEnds, turnVars, projVars, stopVars, TypeOK, LockInv
<1>11. ASSUME NEW p \in Stops, Press(p) \/ Raise(p) \/ Post(p)
      PROVE  LockInv'
  BY <1>11
    DEF Press, Raise, Post, Interrupt, turnVars, projVars, TypeOK, LockInv
<1>12. ASSUME NEW r \in Resets, ResetTries(r) \/ ResetAsks(r)
      PROVE  LockInv'
  BY <1>12
    DEF ResetTries, ResetAsks, turnVars, projVars, stopVars, TypeOK, LockInv
<1>13. ASSUME NEW r \in Resets, ResetLeaves(r)
      PROVE  LockInv'
  BY <1>13
    DEF ResetLeaves, turnVars, projVars, stopVars, TypeOK, LockInv
<1>14. ASSUME NEW r \in Resets, ResetWaits(r)
      PROVE  LockInv'
  BY <1>14
    DEF ResetWaits, turnVars, projVars, stopVars, TypeOK, LockInv
<1>15. ASSUME NEW t \in Turns, PollLeaves(t) \/ PhaseAgain(t)
      PROVE  LockInv'
  BY <1>15
    DEF PollLeaves, PhaseAgain, Goto, projVars, stopVars, TypeOK, LockInv
<1>16. ASSUME NEW t \in Turns, UnreadGoesOn(t)
      PROVE  LockInv'
  BY <1>16
    DEF UnreadGoesOn, Goto, projVars, stopVars, TypeOK, LockInv
<1>17. ASSUME NEW t \in Turns, CutsOff(t)
      PROVE  LockInv'
  BY <1>17
    DEF CutsOff, Goto, EndsAs, Interrupt, projVars, stopVars, TypeOK, LockInv
<1>18. CASE UNCHANGED vars
  BY <1>18
    DEF vars, turnVars, projVars, stopVars, TypeOK, LockInv
<1> QED
  BY <1>1, <1>2, <1>3, <1>4, <1>5, <1>6, <1>7, <1>8, <1>9, <1>10, <1>11, <1>12,
      <1>13, <1>14, <1>15, <1>16, <1>17, <1>18
    DEF Next, TurnStep, StopStep, ResetStep

\* A turn prompts one session, after the one before was read idle.
LEMMA WorkStep ==
    ASSUME TypeOK, WorkInv, [Next]_vars
    PROVE  WorkInv'
<1>1. ASSUME NEW t \in Turns, Begin(t) \/ Decide(t)
      PROVE  WorkInv'
  BY <1>1
    DEF Begin, Decide, Goto, projVars, stopVars, TypeOK, WorkInv, QuietPcs
<1>2. ASSUME NEW t \in Turns, Open(t) \/ Preflight(t)
      PROVE  WorkInv'
  BY <1>2
    DEF Open, Preflight, Goto, EndsAs, stopVars, TypeOK, WorkInv, QuietPcs
<1>3. ASSUME NEW t \in Turns, AskFresh(t) \/ Publish(t) \/ StartFresh(t)
      PROVE  WorkInv'
  BY <1>3
    DEF AskFresh, Publish, StartFresh, Goto, EndsAs, stopVars, TypeOK, WorkInv,
        QuietPcs
<1>4. ASSUME NEW t \in Turns, DriverFails(t)
      PROVE  WorkInv'
  BY <1>4
    DEF DriverFails, Goto, EndsAs, projVars, stopVars, TypeOK, WorkInv, QuietPcs
<1>5. ASSUME NEW t \in Turns, Send(t)
      PROVE  WorkInv'
  BY <1>5
    DEF Send, Goto, stopVars, TypeOK, WorkInv, QuietPcs
<1>6. ASSUME NEW t \in Turns, PollStop(t) \/ PollFinished(t)
      PROVE  WorkInv'
  BY <1>6
    DEF PollStop, PollFinished, Goto, EndsAs, Interrupt, projVars, stopVars,
        TypeOK, WorkInv, QuietPcs
<1>7. ASSUME NEW t \in Turns, LastStop(t) \/ LastGoesOn(t) \/ Resend(t)
      PROVE  WorkInv'
  BY <1>7
    DEF LastStop, LastGoesOn, Resend, Goto, EndsAs, projVars, stopVars, TypeOK,
        WorkInv, QuietPcs
<1>8. ASSUME NEW t \in Turns, Ceiling(t) \/ Cut(t) \/ CutInterrupts(t)
      PROVE  WorkInv'
  BY <1>8
    DEF Ceiling, Cut, CutInterrupts, Goto, EndsAs, Interrupt, projVars,
        stopVars, TypeOK, WorkInv, QuietPcs
<1>9. ASSUME NEW t \in Turns, GivesUp(t) \/ Swap(t) \/ NoIdleReading(t)
      PROVE  WorkInv'
  BY <1>9
    DEF GivesUp, Swap, NoIdleReading, Goto, EndsAs, stopVars, TypeOK, WorkInv,
        QuietPcs
<1>10. ASSUME NEW t \in Turns, Close(t)
      PROVE  WorkInv'
  BY <1>10
    DEF Close, Goto, stopVars, TypeOK, WorkInv, QuietPcs
<1>11. ASSUME NEW s \in Sessions, SessionEnds(s)
      PROVE  WorkInv'
  BY <1>11
    DEF SessionEnds, turnVars, projVars, stopVars, TypeOK, WorkInv, QuietPcs
<1>12. ASSUME NEW p \in Stops, Press(p) \/ Raise(p) \/ Post(p)
      PROVE  WorkInv'
  BY <1>12
    DEF Press, Raise, Post, Interrupt, turnVars, projVars, TypeOK, WorkInv,
        QuietPcs
<1>13. ASSUME NEW r \in Resets, ResetTries(r) \/ ResetAsks(r)
      PROVE  WorkInv'
  BY <1>13
    DEF ResetTries, ResetAsks, turnVars, projVars, stopVars, TypeOK, WorkInv,
        QuietPcs
<1>14. ASSUME NEW r \in Resets, ResetWaits(r) \/ ResetLeaves(r)
      PROVE  WorkInv'
  BY <1>14
    DEF ResetWaits, ResetLeaves, turnVars, projVars, stopVars, TypeOK, WorkInv,
        QuietPcs
<1>15. ASSUME NEW t \in Turns, PollLeaves(t) \/ PhaseAgain(t)
      PROVE  WorkInv'
  BY <1>15
    DEF PollLeaves, PhaseAgain, Goto, projVars, stopVars, TypeOK, WorkInv, QuietPcs
<1>16. ASSUME NEW t \in Turns, UnreadGoesOn(t)
      PROVE  WorkInv'
  BY <1>16
    DEF UnreadGoesOn, Goto, projVars, stopVars, TypeOK, WorkInv, QuietPcs
<1>17. ASSUME NEW t \in Turns, CutsOff(t)
      PROVE  WorkInv'
  BY <1>17
    DEF CutsOff, Goto, EndsAs, Interrupt, projVars, stopVars, TypeOK, WorkInv, QuietPcs
<1>18. CASE UNCHANGED vars
  BY <1>18
    DEF vars, turnVars, projVars, stopVars, TypeOK, WorkInv, QuietPcs
<1> QED
  BY <1>1, <1>2, <1>3, <1>4, <1>5, <1>6, <1>7, <1>8, <1>9, <1>10, <1>11, <1>12,
      <1>13, <1>14, <1>15, <1>16, <1>17, <1>18
    DEF Next, TurnStep, StopStep, ResetStep

\* A turn that was given a verdict only closes.
LEMMA EndStep ==
    ASSUME TypeOK, EndInv, [Next]_vars
    PROVE  EndInv'
<1>1. ASSUME NEW t \in Turns, Begin(t) \/ Decide(t)
      PROVE  EndInv'
  BY <1>1
    DEF Begin, Decide, Goto, projVars, stopVars, TypeOK, EndInv
<1>2. ASSUME NEW t \in Turns, Open(t) \/ Preflight(t)
      PROVE  EndInv'
  BY <1>2
    DEF Open, Preflight, Goto, EndsAs, stopVars, TypeOK, EndInv
<1>3. ASSUME NEW t \in Turns, AskFresh(t) \/ Publish(t) \/ StartFresh(t)
      PROVE  EndInv'
  BY <1>3
    DEF AskFresh, Publish, StartFresh, Goto, EndsAs, stopVars, TypeOK, EndInv
<1>4. ASSUME NEW t \in Turns, Send(t) \/ DriverFails(t)
      PROVE  EndInv'
  BY <1>4
    DEF Send, DriverFails, Goto, EndsAs, projVars, stopVars, TypeOK, EndInv
<1>5. ASSUME NEW t \in Turns, PollStop(t) \/ PollFinished(t)
      PROVE  EndInv'
  BY <1>5
    DEF PollStop, PollFinished, Goto, EndsAs, Interrupt, projVars, stopVars,
        TypeOK, EndInv
<1>6. ASSUME NEW t \in Turns, LastStop(t) \/ LastGoesOn(t) \/ Resend(t)
      PROVE  EndInv'
  BY <1>6
    DEF LastStop, LastGoesOn, Resend, Goto, EndsAs, projVars, stopVars, TypeOK,
        EndInv
<1>7. ASSUME NEW t \in Turns, Ceiling(t) \/ Cut(t) \/ CutInterrupts(t)
      PROVE  EndInv'
  BY <1>7
    DEF Ceiling, Cut, CutInterrupts, Goto, EndsAs, Interrupt, projVars,
        stopVars, TypeOK, EndInv
<1>8. ASSUME NEW t \in Turns, GivesUp(t) \/ Swap(t) \/ NoIdleReading(t)
      PROVE  EndInv'
  BY <1>8
    DEF GivesUp, Swap, NoIdleReading, Goto, EndsAs, stopVars, TypeOK, EndInv
<1>9. ASSUME NEW t \in Turns, Close(t)
      PROVE  EndInv'
  BY <1>9
    DEF Close, Goto, stopVars, TypeOK, EndInv
<1>10. ASSUME NEW s \in Sessions, SessionEnds(s)
      PROVE  EndInv'
  BY <1>10
    DEF SessionEnds, turnVars, projVars, stopVars, TypeOK, EndInv
<1>11. ASSUME NEW p \in Stops, Press(p) \/ Raise(p) \/ Post(p)
      PROVE  EndInv'
  BY <1>11
    DEF Press, Raise, Post, Interrupt, turnVars, projVars, TypeOK, EndInv
<1>12. ASSUME NEW r \in Resets, ResetTries(r) \/ ResetAsks(r)
      PROVE  EndInv'
  BY <1>12
    DEF ResetTries, ResetAsks, turnVars, projVars, stopVars, TypeOK, EndInv
<1>13. ASSUME NEW r \in Resets, ResetWaits(r) \/ ResetLeaves(r)
      PROVE  EndInv'
  BY <1>13
    DEF ResetWaits, ResetLeaves, turnVars, projVars, stopVars, TypeOK, EndInv
<1>14. ASSUME NEW t \in Turns, PollLeaves(t) \/ PhaseAgain(t)
      PROVE  EndInv'
  BY <1>14
    DEF PollLeaves, PhaseAgain, Goto, projVars, stopVars, TypeOK, EndInv
<1>15. ASSUME NEW t \in Turns, UnreadGoesOn(t)
      PROVE  EndInv'
  BY <1>15
    DEF UnreadGoesOn, Goto, projVars, stopVars, TypeOK, EndInv
<1>16. ASSUME NEW t \in Turns, CutsOff(t)
      PROVE  EndInv'
  BY <1>16
    DEF CutsOff, Goto, EndsAs, Interrupt, projVars, stopVars, TypeOK, EndInv
<1>17. CASE UNCHANGED vars
  BY <1>17
    DEF vars, turnVars, projVars, stopVars, TypeOK, EndInv
<1> QED
  BY <1>1, <1>2, <1>3, <1>4, <1>5, <1>6, <1>7, <1>8, <1>9, <1>10, <1>11, <1>12,
      <1>13, <1>14, <1>15, <1>16, <1>17
    DEF Next, TurnStep, StopStep, ResetStep

\* Nobody else enters the section of a press.
LEMMA StopInvStep ==
    ASSUME TypeOK, StopInv, [Next]_vars
    PROVE  StopInv'
<1>1. ASSUME NEW t \in Turns, Begin(t) \/ Decide(t)
      PROVE  StopInv'
  BY <1>1
    DEF Begin, Decide, Goto, projVars, stopVars, TypeOK, StopInv
<1>2. ASSUME NEW t \in Turns, Open(t) \/ Preflight(t)
      PROVE  StopInv'
  BY <1>2
    DEF Open, Preflight, Goto, EndsAs, stopVars, TypeOK, StopInv
<1>3. ASSUME NEW t \in Turns, AskFresh(t) \/ Publish(t) \/ StartFresh(t)
      PROVE  StopInv'
  BY <1>3
    DEF AskFresh, Publish, StartFresh, Goto, EndsAs, stopVars, TypeOK, StopInv
<1>4. ASSUME NEW t \in Turns, Send(t) \/ DriverFails(t)
      PROVE  StopInv'
  BY <1>4
    DEF Send, DriverFails, Goto, EndsAs, projVars, stopVars, TypeOK, StopInv
<1>5. ASSUME NEW t \in Turns, PollStop(t) \/ PollFinished(t)
      PROVE  StopInv'
  BY <1>5
    DEF PollStop, PollFinished, Goto, EndsAs, Interrupt, projVars, stopVars,
        TypeOK, StopInv
<1>6. ASSUME NEW t \in Turns, LastStop(t) \/ LastGoesOn(t) \/ Resend(t)
      PROVE  StopInv'
  BY <1>6
    DEF LastStop, LastGoesOn, Resend, Goto, EndsAs, projVars, stopVars, TypeOK,
        StopInv
<1>7. ASSUME NEW t \in Turns, Ceiling(t) \/ Cut(t) \/ CutInterrupts(t)
      PROVE  StopInv'
  BY <1>7
    DEF Ceiling, Cut, CutInterrupts, Goto, EndsAs, Interrupt, projVars,
        stopVars, TypeOK, StopInv
<1>8. ASSUME NEW t \in Turns, GivesUp(t) \/ Swap(t) \/ NoIdleReading(t)
      PROVE  StopInv'
  BY <1>8
    DEF GivesUp, Swap, NoIdleReading, Goto, EndsAs, stopVars, TypeOK, StopInv
<1>9. ASSUME NEW t \in Turns, Close(t)
      PROVE  StopInv'
  BY <1>9
    DEF Close, Goto, stopVars, TypeOK, StopInv
<1>10. ASSUME NEW s \in Sessions, SessionEnds(s)
      PROVE  StopInv'
  BY <1>10
    DEF SessionEnds, turnVars, projVars, stopVars, TypeOK, StopInv
<1>11. ASSUME NEW p \in Stops, Press(p) \/ Raise(p) \/ Post(p)
      PROVE  StopInv'
  BY <1>11
    DEF Press, Raise, Post, Interrupt, turnVars, projVars, TypeOK, StopInv
<1>12. ASSUME NEW r \in Resets, ResetTries(r) \/ ResetAsks(r)
      PROVE  StopInv'
  BY <1>12
    DEF ResetTries, ResetAsks, turnVars, projVars, stopVars, TypeOK, StopInv
<1>13. ASSUME NEW r \in Resets, ResetWaits(r) \/ ResetLeaves(r)
      PROVE  StopInv'
  BY <1>13
    DEF ResetWaits, ResetLeaves, turnVars, projVars, stopVars, TypeOK, StopInv
<1>14. ASSUME NEW t \in Turns, PollLeaves(t) \/ PhaseAgain(t)
      PROVE  StopInv'
  BY <1>14
    DEF PollLeaves, PhaseAgain, Goto, projVars, stopVars, TypeOK, StopInv
<1>15. ASSUME NEW t \in Turns, UnreadGoesOn(t)
      PROVE  StopInv'
  BY <1>15
    DEF UnreadGoesOn, Goto, projVars, stopVars, TypeOK, StopInv
<1>16. ASSUME NEW t \in Turns, CutsOff(t)
      PROVE  StopInv'
  BY <1>16
    DEF CutsOff, Goto, EndsAs, Interrupt, projVars, stopVars, TypeOK, StopInv
<1>17. CASE UNCHANGED vars
  BY <1>17
    DEF vars, turnVars, projVars, stopVars, TypeOK, StopInv
<1> QED
  BY <1>1, <1>2, <1>3, <1>4, <1>5, <1>6, <1>7, <1>8, <1>9, <1>10, <1>11, <1>12,
      <1>13, <1>14, <1>15, <1>16, <1>17
    DEF Next, TurnStep, StopStep, ResetStep

\* Only the turn that holds the lock publishes a session.
LEMMA LiveStep ==
    ASSUME TypeOK, LockInv, LiveInv, [Next]_vars
    PROVE  LiveInv'
<1>1. ASSUME NEW t \in Turns, Begin(t) \/ Decide(t)
      PROVE  LiveInv'
  BY <1>1
    DEF Begin, Decide, Goto, projVars, stopVars, TypeOK, LockInv, LiveInv,
        FreshPcs
<1>2. ASSUME NEW t \in Turns, Open(t) \/ Preflight(t)
      PROVE  LiveInv'
  BY <1>2
    DEF Open, Preflight, Goto, EndsAs, stopVars, TypeOK, LockInv, LiveInv,
        FreshPcs
<1>3. ASSUME NEW t \in Turns, AskFresh(t) \/ StartFresh(t)
      PROVE  LiveInv'
  BY <1>3
    DEF AskFresh, StartFresh, Goto, EndsAs, stopVars, TypeOK, LockInv, LiveInv,
        FreshPcs
<1>4. ASSUME NEW t \in Turns, Publish(t)
      PROVE  LiveInv'
  <2>. SUFFICES ASSUME NEW u \in Approvals, pc'[u] \in FreshPcs
                PROVE  active' = session'[u] /\ session'[u] # None
    BY DEF LiveInv
  <2>1. CASE u = t
    <3>1. Clean(t, sends[t]) # None
      BY CleanIsSession DEF TypeOK
    <3> QED
      BY <1>4, <2>1, <3>1
        DEF Publish, EndsAs, Goto, stopVars, TypeOK, FreshPcs
  <2>2. CASE u # t
    <3>1. pc[t] \notin {"start", "over"} /\ pc[u] \notin {"start", "over"}
      BY <1>4, <2>2 DEF Publish, EndsAs, Goto, TypeOK, FreshPcs
    <3> QED
      BY <2>2, <3>1 DEF LockInv
  <2> QED
    BY <2>1, <2>2
<1>5. ASSUME NEW t \in Turns, Send(t) \/ DriverFails(t)
      PROVE  LiveInv'
  BY <1>5
    DEF Send, DriverFails, Goto, EndsAs, projVars, stopVars, TypeOK, LockInv,
        LiveInv, FreshPcs
<1>6. ASSUME NEW t \in Turns, PollStop(t) \/ PollFinished(t)
      PROVE  LiveInv'
  BY <1>6
    DEF PollStop, PollFinished, Goto, EndsAs, Interrupt, projVars, stopVars,
        TypeOK, LockInv, LiveInv, FreshPcs
<1>7. ASSUME NEW t \in Turns, LastStop(t) \/ LastGoesOn(t)
      PROVE  LiveInv'
  BY <1>7
    DEF LastStop, LastGoesOn, Goto, EndsAs, projVars, stopVars, TypeOK, LockInv,
        LiveInv, FreshPcs
<1>8. ASSUME NEW t \in Turns, Resend(t)
      PROVE  LiveInv'
  <2>. SUFFICES ASSUME NEW u \in Approvals, pc'[u] \in FreshPcs
                PROVE  active' = session'[u] /\ session'[u] # None
    BY DEF LiveInv
  <2>1. CASE u = t
    <3>1. Clean(t, sends[t]) # None
      BY CleanIsSession DEF TypeOK
    <3> QED
      BY <1>8, <2>1, <3>1
        DEF Resend, Goto, stopVars, TypeOK, FreshPcs
  <2>2. CASE u # t
    <3>1. pc[t] \notin {"start", "over"} /\ pc[u] \notin {"start", "over"}
      BY <1>8, <2>2 DEF Resend, Goto, TypeOK, FreshPcs
    <3> QED
      BY <2>2, <3>1 DEF LockInv
  <2> QED
    BY <2>1, <2>2
<1>9. ASSUME NEW t \in Turns, Ceiling(t) \/ Cut(t) \/ CutInterrupts(t)
      PROVE  LiveInv'
  BY <1>9
    DEF Ceiling, Cut, CutInterrupts, Goto, EndsAs, Interrupt, projVars,
        stopVars, TypeOK, LockInv, LiveInv, FreshPcs
<1>10. ASSUME NEW t \in Turns, GivesUp(t) \/ Swap(t) \/ NoIdleReading(t)
      PROVE  LiveInv'
  BY <1>10
    DEF GivesUp, Swap, NoIdleReading, Goto, EndsAs, stopVars, TypeOK, LockInv,
        LiveInv, FreshPcs
<1>11. ASSUME NEW t \in Turns, Close(t)
      PROVE  LiveInv'
  BY <1>11
    DEF Close, Goto, stopVars, TypeOK, LockInv, LiveInv, FreshPcs
<1>12. ASSUME NEW s \in Sessions, SessionEnds(s)
      PROVE  LiveInv'
  BY <1>12
    DEF SessionEnds, turnVars, projVars, stopVars, TypeOK, LockInv, LiveInv,
        FreshPcs
<1>13. ASSUME NEW p \in Stops, Press(p) \/ Raise(p) \/ Post(p)
      PROVE  LiveInv'
  BY <1>13
    DEF Press, Raise, Post, Interrupt, turnVars, projVars, TypeOK, LockInv,
        LiveInv, FreshPcs
<1>14. ASSUME NEW r \in Resets, ResetTries(r) \/ ResetAsks(r)
      PROVE  LiveInv'
  BY <1>14
    DEF ResetTries, ResetAsks, turnVars, projVars, stopVars, TypeOK, LockInv,
        LiveInv, FreshPcs
<1>15. ASSUME NEW r \in Resets, ResetWaits(r) \/ ResetLeaves(r)
      PROVE  LiveInv'
  BY <1>15
    DEF ResetWaits, ResetLeaves, turnVars, projVars, stopVars, TypeOK, LockInv,
        LiveInv, FreshPcs
<1>16. ASSUME NEW t \in Turns, PollLeaves(t) \/ PhaseAgain(t)
      PROVE  LiveInv'
  BY <1>16
    DEF PollLeaves, PhaseAgain, Goto, projVars, stopVars, TypeOK, LockInv, LiveInv,
        FreshPcs
<1>17. ASSUME NEW t \in Turns, UnreadGoesOn(t)
      PROVE  LiveInv'
  BY <1>17
    DEF UnreadGoesOn, Goto, projVars, stopVars, TypeOK, LockInv, LiveInv,
        FreshPcs
<1>18. ASSUME NEW t \in Turns, CutsOff(t)
      PROVE  LiveInv'
  BY <1>18
    DEF CutsOff, Goto, EndsAs, Interrupt, projVars, stopVars, TypeOK, LockInv, LiveInv,
        FreshPcs
<1>19. CASE UNCHANGED vars
  BY <1>19
    DEF vars, turnVars, projVars, stopVars, TypeOK, LockInv, LiveInv, FreshPcs
<1> QED
  BY <1>1, <1>2, <1>3, <1>4, <1>5, <1>6, <1>7, <1>8, <1>9, <1>10, <1>11, <1>12,
      <1>13, <1>14, <1>15, <1>16, <1>17, <1>18, <1>19
    DEF Next, TurnStep, StopStep, ResetStep

\* A flag raised over a published session was raised with that session captured.
LEMMA AimStep ==
    ASSUME TypeOK, LiveInv, AimInv, [Next]_vars
    PROVE  AimInv'
<1>1. ASSUME NEW t \in Turns, Begin(t) \/ Decide(t)
      PROVE  AimInv'
  BY <1>1, ZenonT(40)
    DEF Begin, Decide, Goto, projVars, stopVars, TypeOK, LiveInv, AimInv,
        AimPcs, FreshPcs
<1>2. ASSUME NEW t \in Turns, Preflight(t)
      PROVE  AimInv'
  BY <1>2
    DEF Preflight, Goto, EndsAs, stopVars, TypeOK, LiveInv, AimInv, AimPcs, FreshPcs
<1>3. ASSUME NEW t \in Turns, Open(t)
      PROVE  AimInv'
  BY <1>3
    DEF Open, Goto, stopVars, TypeOK, LiveInv, AimInv, AimPcs, FreshPcs
<1>4. ASSUME NEW t \in Turns, AskFresh(t) \/ Publish(t) \/ StartFresh(t)
      PROVE  AimInv'
  BY <1>4
    DEF AskFresh, Publish, StartFresh, Goto, EndsAs, stopVars, TypeOK, LiveInv,
        AimInv, AimPcs, FreshPcs
<1>5. ASSUME NEW t \in Turns, DriverFails(t)
      PROVE  AimInv'
  BY <1>5
    DEF DriverFails, Goto, EndsAs, projVars, stopVars, TypeOK, LiveInv, AimInv,
        AimPcs, FreshPcs
<1>6. ASSUME NEW t \in Turns, Send(t)
      PROVE  AimInv'
  BY <1>6
    DEF Send, Goto, stopVars, TypeOK, LiveInv, AimInv, AimPcs, FreshPcs
<1>7. ASSUME NEW t \in Turns, PollStop(t) \/ PollFinished(t)
      PROVE  AimInv'
  BY <1>7
    DEF PollStop, PollFinished, Goto, EndsAs, Interrupt, projVars, stopVars,
        TypeOK, LiveInv, AimInv, AimPcs, FreshPcs
<1>8. ASSUME NEW t \in Turns, LastStop(t)
      PROVE  AimInv'
  BY <1>8
    DEF LastStop, Goto, EndsAs, stopVars, TypeOK, LiveInv, AimInv, AimPcs, FreshPcs
<1>9. ASSUME NEW t \in Turns, LastGoesOn(t)
      PROVE  AimInv'
  BY <1>9
    DEF LastGoesOn, Goto, EndsAs, projVars, stopVars, TypeOK, LiveInv, AimInv,
        AimPcs, FreshPcs
<1>10. ASSUME NEW t \in Turns, Resend(t)
      PROVE  AimInv'
  BY <1>10
    DEF Resend, Goto, stopVars, TypeOK, LiveInv, AimInv, AimPcs, FreshPcs
<1>11. ASSUME NEW t \in Turns, Cut(t) \/ CutInterrupts(t)
      PROVE  AimInv'
  <2>1. flag /\ pc'[t] \in AimPcs => pc[t] \in AimPcs
    BY <1>11 DEF Cut, CutInterrupts, Goto, TypeOK, AimPcs
  <2>2. \A u \in Turns \ {t} : pc'[u] = pc[u]
    BY <1>11 DEF Cut, CutInterrupts, Goto, TypeOK
  <2>3. UNCHANGED <<session, flag, captured>>
    BY <1>11 DEF Cut, CutInterrupts, projVars, stopVars
  <2> QED
    BY <2>1, <2>2, <2>3, SMT DEF AimInv, Turns
<1>12. ASSUME NEW t \in Turns, Ceiling(t)
      PROVE  AimInv'
  BY <1>12
    DEF Ceiling, Goto, EndsAs, Interrupt, projVars, stopVars, TypeOK, LiveInv,
        AimInv, AimPcs, FreshPcs
<1>13. ASSUME NEW t \in Turns, GivesUp(t)
      PROVE  AimInv'
  BY <1>13
    DEF GivesUp, Goto, EndsAs, stopVars, TypeOK, LiveInv, AimInv, AimPcs, FreshPcs
<1>14. ASSUME NEW t \in Turns, Swap(t)
      PROVE  AimInv'
  BY <1>14
    DEF Swap, Goto, EndsAs, stopVars, TypeOK, LiveInv, AimInv, AimPcs, FreshPcs
<1>15. ASSUME NEW t \in Turns, NoIdleReading(t)
      PROVE  AimInv'
  <2>1. pc'[t] \in {"stuck", "closing"}
    BY <1>15 DEF NoIdleReading, Goto, EndsAs, TypeOK
  <2>2. pc'[t] \notin AimPcs /\ \A u \in Turns \ {t} : pc'[u] = pc[u]
    BY <1>15, <2>1 DEF NoIdleReading, Goto, EndsAs, TypeOK, AimPcs
  <2>3. flag' => flag
    BY <1>15 DEF NoIdleReading, EndsAs
  <2> QED
    BY <1>15, <2>1, <2>2, <2>3 DEF NoIdleReading, stopVars, TypeOK, AimInv
<1>16. ASSUME NEW t \in Turns, Close(t)
      PROVE  AimInv'
  BY <1>16
    DEF Close, Goto, stopVars, TypeOK, LiveInv, AimInv, AimPcs, FreshPcs
<1>17. ASSUME NEW s \in Sessions, SessionEnds(s)
      PROVE  AimInv'
  BY <1>17
    DEF SessionEnds, turnVars, projVars, stopVars, TypeOK, LiveInv, AimInv,
        AimPcs, FreshPcs
<1>18. ASSUME NEW p \in Stops, Press(p) \/ Raise(p) \/ Post(p)
      PROVE  AimInv'
  BY <1>18
    DEF Press, Raise, Post, Interrupt, turnVars, projVars, TypeOK, LiveInv,
        AimInv, AimPcs, FreshPcs
<1>19. ASSUME NEW r \in Resets, ResetTries(r) \/ ResetAsks(r)
      PROVE  AimInv'
  BY <1>19
    DEF ResetTries, ResetAsks, turnVars, projVars, stopVars, TypeOK, LiveInv,
        AimInv, AimPcs, FreshPcs
<1>20. ASSUME NEW r \in Resets, ResetWaits(r) \/ ResetLeaves(r)
      PROVE  AimInv'
  BY <1>20
    DEF ResetWaits, ResetLeaves, turnVars, projVars, stopVars, TypeOK, LiveInv,
        AimInv, AimPcs, FreshPcs
<1>21. ASSUME NEW t \in Turns, PollLeaves(t) \/ PhaseAgain(t)
      PROVE  AimInv'
  BY <1>21
    DEF PollLeaves, PhaseAgain, Goto, projVars, stopVars, TypeOK, LiveInv, AimInv,
        AimPcs, FreshPcs
<1>22. ASSUME NEW t \in Turns, UnreadGoesOn(t)
      PROVE  AimInv'
  BY <1>22
    DEF UnreadGoesOn, Goto, projVars, stopVars, TypeOK, LiveInv, AimInv,
        AimPcs, FreshPcs
<1>23. ASSUME NEW t \in Turns, CutsOff(t)
      PROVE  AimInv'
  BY <1>23
    DEF CutsOff, Goto, EndsAs, Interrupt, projVars, stopVars, TypeOK, LiveInv, AimInv,
        AimPcs, FreshPcs
<1>24. CASE UNCHANGED vars
  BY <1>24
    DEF vars, turnVars, projVars, stopVars, TypeOK, LiveInv, AimInv, AimPcs, FreshPcs
<1> QED
  BY <1>1, <1>2, <1>3, <1>4, <1>5, <1>6, <1>7, <1>8, <1>9, <1>10, <1>11, <1>12,
      <1>13, <1>14, <1>15, <1>16, <1>17, <1>18, <1>19, <1>20, <1>21, <1>22,
      <1>23, <1>24
    DEF Next, TurnStep, StopStep, ResetStep

\* A Build turn gives up only on an idle reading, and never prompts again.
LEMMA GaveUpStep ==
    ASSUME TypeOK, WorkInv, EndInv, GaveUpIsQuiet, [Next]_vars
    PROVE  GaveUpIsQuiet'
<1>1. ASSUME NEW t \in Turns, Begin(t) \/ Decide(t)
      PROVE  GaveUpIsQuiet'
  BY <1>1
    DEF Begin, Decide, Goto, projVars, stopVars, TypeOK, WorkInv, EndInv,
        GaveUpIsQuiet
<1>2. ASSUME NEW t \in Turns, Open(t) \/ Preflight(t)
      PROVE  GaveUpIsQuiet'
  BY <1>2
    DEF Open, Preflight, Goto, EndsAs, stopVars, TypeOK, WorkInv, EndInv,
        GaveUpIsQuiet
<1>3. ASSUME NEW t \in Turns, AskFresh(t) \/ Publish(t) \/ StartFresh(t)
      PROVE  GaveUpIsQuiet'
  BY <1>3
    DEF AskFresh, Publish, StartFresh, Goto, EndsAs, stopVars, TypeOK, WorkInv,
        EndInv, GaveUpIsQuiet
<1>4. ASSUME NEW t \in Turns, Send(t) \/ DriverFails(t)
      PROVE  GaveUpIsQuiet'
  BY <1>4
    DEF Send, DriverFails, Goto, EndsAs, projVars, stopVars, TypeOK, WorkInv,
        EndInv, GaveUpIsQuiet
<1>5. ASSUME NEW t \in Turns, PollStop(t) \/ PollFinished(t)
      PROVE  GaveUpIsQuiet'
  BY <1>5
    DEF PollStop, PollFinished, Goto, EndsAs, Interrupt, projVars, stopVars,
        TypeOK, WorkInv, EndInv, GaveUpIsQuiet
<1>6. ASSUME NEW t \in Turns, LastStop(t) \/ LastGoesOn(t) \/ Resend(t)
      PROVE  GaveUpIsQuiet'
  BY <1>6
    DEF LastStop, LastGoesOn, Resend, Goto, EndsAs, projVars, stopVars, TypeOK,
        WorkInv, EndInv, GaveUpIsQuiet
<1>7. ASSUME NEW t \in Turns, Ceiling(t) \/ Cut(t) \/ CutInterrupts(t)
      PROVE  GaveUpIsQuiet'
  BY <1>7
    DEF Ceiling, Cut, CutInterrupts, Goto, EndsAs, Interrupt, projVars,
        stopVars, TypeOK, WorkInv, EndInv, GaveUpIsQuiet
<1>8. ASSUME NEW t \in Turns, GivesUp(t) \/ Swap(t) \/ NoIdleReading(t)
      PROVE  GaveUpIsQuiet'
  BY <1>8
    DEF GivesUp, Swap, NoIdleReading, Goto, EndsAs, stopVars, TypeOK, WorkInv,
        EndInv, GaveUpIsQuiet
<1>9. ASSUME NEW t \in Turns, Close(t)
      PROVE  GaveUpIsQuiet'
  BY <1>9
    DEF Close, Goto, stopVars, TypeOK, WorkInv, EndInv, GaveUpIsQuiet
<1>10. ASSUME NEW s \in Sessions, SessionEnds(s)
      PROVE  GaveUpIsQuiet'
  BY <1>10
    DEF SessionEnds, turnVars, projVars, stopVars, TypeOK, WorkInv, EndInv,
        GaveUpIsQuiet
<1>11. ASSUME NEW p \in Stops, Press(p) \/ Raise(p) \/ Post(p)
      PROVE  GaveUpIsQuiet'
  BY <1>11
    DEF Press, Raise, Post, Interrupt, turnVars, projVars, TypeOK, WorkInv,
        EndInv, GaveUpIsQuiet
<1>12. ASSUME NEW r \in Resets, ResetTries(r) \/ ResetAsks(r)
      PROVE  GaveUpIsQuiet'
  BY <1>12
    DEF ResetTries, ResetAsks, turnVars, projVars, stopVars, TypeOK, WorkInv,
        EndInv, GaveUpIsQuiet
<1>13. ASSUME NEW r \in Resets, ResetWaits(r) \/ ResetLeaves(r)
      PROVE  GaveUpIsQuiet'
  BY <1>13
    DEF ResetWaits, ResetLeaves, turnVars, projVars, stopVars, TypeOK, WorkInv,
        EndInv, GaveUpIsQuiet
<1>14. ASSUME NEW t \in Turns, PollLeaves(t) \/ PhaseAgain(t)
      PROVE  GaveUpIsQuiet'
  BY <1>14
    DEF PollLeaves, PhaseAgain, Goto, projVars, stopVars, TypeOK, EndInv, GaveUpIsQuiet
<1>15. ASSUME NEW t \in Turns, UnreadGoesOn(t)
      PROVE  GaveUpIsQuiet'
  BY <1>15
    DEF UnreadGoesOn, Goto, projVars, stopVars, TypeOK, EndInv, GaveUpIsQuiet
<1>16. ASSUME NEW t \in Turns, CutsOff(t)
      PROVE  GaveUpIsQuiet'
  BY <1>16
    DEF CutsOff, Goto, EndsAs, Interrupt, projVars, stopVars, TypeOK, EndInv, GaveUpIsQuiet
<1>17. CASE UNCHANGED vars
  BY <1>17
    DEF vars, turnVars, projVars, stopVars, TypeOK, WorkInv, EndInv,
        GaveUpIsQuiet
<1> QED
  BY <1>1, <1>2, <1>3, <1>4, <1>5, <1>6, <1>7, <1>8, <1>9, <1>10, <1>11, <1>12,
      <1>13, <1>14, <1>15, <1>16, <1>17
    DEF Next, TurnStep, StopStep, ResetStep

\* The strengthened invariant, kept by every step.
LEMMA InductiveInvariant == Spec => []IInv
<1>1. Init => IInv
  <2> SUFFICES ASSUME Init
               PROVE  IInv
    OBVIOUS
  <2>1. TypeOK
    <3>1. BuildSession \in Sessions /\ 0 \in 0..MaxSends
      BY BoundAssumption DEF Sessions
    <3> QED
      BY <3>1 DEF Init, TypeOK, TurnPcs, Ends
  <2>2. LockInv /\ EndInv /\ StopInv
    BY DEF Init, LockInv, EndInv, StopInv
  <2>3. WorkInv
    BY DEF Init, WorkInv
  <2>4. LiveInv /\ AimInv /\ GaveUpIsQuiet
    BY DEF Init, LiveInv, AimInv, AimPcs, FreshPcs, GaveUpIsQuiet
  <2> QED
    BY <2>1, <2>2, <2>3, <2>4 DEF IInv
<1>2. IInv /\ [Next]_vars => IInv'
  BY TypeStep, LockStep, WorkStep, EndStep, StopInvStep, LiveStep, AimStep, GaveUpStep
    DEF IInv
<1> QED
  BY <1>1, <1>2, PTL DEF Spec

\* Every variable keeps its type: `_turn_lock`, `_stop_control_lock` and the project's
\* stop fields never name what is not there.
THEOREM TypeCorrect == Spec => []TypeOK
<1>1. IInv => TypeOK
  BY DEF IInv
<1> QED
  BY <1>1, InductiveInvariant, PTL

\* A turn that nudges, recovers, swaps its session, sends a broken call again or starts its
\* next phase never has two sessions at work: each waits for an idle reading of the one it
\* has, or stays in it.  Only a phase tried again after a refusal or an outage does not.
THEOREM NeverTwoWriters == Spec => []OneWriterPerTurn
<1>1. IInv => OneWriterPerTurn
  BY DEF IInv, WorkInv, OneWriterPerTurn, TypeOK
<1> QED
  BY <1>1, InductiveInvariant, PTL

\* `_stop_wedged_session`: a Build turn that ended itself because it looped or went quiet
\* left its sessions idle, but for that of a phase it had tried again before.
THEOREM GivingUpIsQuiet == Spec => []GaveUpIsQuiet
<1>1. IInv => GaveUpIsQuiet
  BY DEF IInv
<1> QED
  BY <1>1, InductiveInvariant, PTL

\* A decline is over only where it decides, and nobody else moves it there.
LEMMA OnlyDecideEndsADecline ==
    ASSUME TypeOK, [Next]_vars, NEW t \in Declines, pc[t] = "decides", pc'[t] = "over"
    PROVE  Decide(t)
<1>1. ASSUME NEW u \in Turns, Decide(u)
      PROVE  Decide(t)
  <2>1. u = t
    BY <1>1 DEF Decide, Goto, TypeOK
  <2> QED
    BY <1>1, <2>1
<1>2. ASSUME NEW u \in Turns, Begin(u) \/ Open(u) \/ Preflight(u) \/ AskFresh(u) \/ Publish(u)
      PROVE  FALSE
  BY <1>2 DEF Begin, Open, Preflight, AskFresh, Publish, EndsAs, Goto, TypeOK
<1>3. ASSUME NEW u \in Turns, StartFresh(u) \/ Send(u) \/ DriverFails(u) \/ PollStop(u)
      PROVE  FALSE
  BY <1>3 DEF StartFresh, Send, DriverFails, PollStop, EndsAs, Goto, TypeOK
<1>4. ASSUME NEW u \in Turns, PollFinished(u) \/ LastStop(u) \/ LastGoesOn(u) \/ Resend(u)
      PROVE  FALSE
  BY <1>4 DEF PollFinished, LastStop, LastGoesOn, Resend, EndsAs, Goto, TypeOK
<1>5. ASSUME NEW u \in Turns, Ceiling(u) \/ Cut(u) \/ CutInterrupts(u) \/ GivesUp(u)
      PROVE  FALSE
  BY <1>5 DEF Ceiling, Cut, CutInterrupts, GivesUp, EndsAs, Goto, TypeOK
<1>6. ASSUME NEW u \in Turns, Swap(u) \/ NoIdleReading(u) \/ Close(u)
      PROVE  FALSE
  BY <1>6 DEF Swap, NoIdleReading, Close, EndsAs, Goto, TypeOK
<1>12. ASSUME NEW u \in Turns, PollLeaves(u) \/ PhaseAgain(u) \/ UnreadGoesOn(u) \/ CutsOff(u)
       PROVE  FALSE
  BY <1>12 DEF PollLeaves, PhaseAgain, UnreadGoesOn, CutsOff, EndsAs, Goto, TypeOK
<1>7. ASSUME UNCHANGED turnVars
      PROVE  FALSE
  BY <1>7 DEF turnVars
<1>8. ASSUME NEW p \in Stops, Press(p) \/ StopStep(p)
      PROVE  FALSE
  BY <1>7, <1>8 DEF Press, StopStep, Raise, Post
<1>9. ASSUME NEW r \in Resets, ResetTries(r) \/ ResetStep(r)
      PROVE  FALSE
  BY <1>7, <1>9 DEF ResetTries, ResetStep, ResetAsks, ResetWaits, ResetLeaves
<1>10. ASSUME NEW s \in Sessions, SessionEnds(s)
       PROVE  FALSE
  BY <1>7, <1>10 DEF SessionEnds
<1>11. CASE UNCHANGED vars
  BY <1>7, <1>11 DEF vars
<1> QED
  BY <1>1, <1>2, <1>3, <1>4, <1>5, <1>6, <1>8, <1>9, <1>10, <1>11, <1>12
    DEF Next, TurnStep

\* "it cannot leave a flag for the next turn": a decline that is over has put the flag
\* down, and no press that was let through for it is still to raise one.
THEOREM ADeclineLeavesNoFlag == Spec => DeclineLeavesNoFlag
<1> DEFINE Left ==
      \A t \in Declines : pc[t] = "decides" /\ pc'[t] = "over" =>
         ~flag' /\ \A p \in Stops : aimed[p] = t => stopPc[p] # "decided"
<1>1. IInv /\ [Next]_vars => Left
  <2> SUFFICES ASSUME IInv, [Next]_vars,
                      NEW t \in Declines, pc[t] = "decides", pc'[t] = "over"
               PROVE  ~flag' /\ \A p \in Stops : stopPc[p] # "decided"
    OBVIOUS
  <2>1. Decide(t)
    BY OnlyDecideEndsADecline DEF IInv
  <2>2. stopLock = None /\ ~flag'
    BY <2>1 DEF Decide, Goto, IInv, TypeOK
  <2> QED
    BY <2>2 DEF IInv, StopInv
<1>2. Left => [Left]_vars
  OBVIOUS
<1> QED
  BY <1>1, <1>2, InductiveInvariant, PTL DEF Spec, DeclineLeavesNoFlag

\* `_replace_build_session` and the Stop decision are one decision each: a turn that
\* builds an approved plan never prompts, under a raised flag, a session that no press
\* of Stop interrupts.
THEOREM AFreshSessionIsStoppable == Spec => FreshSessionIsStoppable
<1> DEFINE Named ==
      \A t \in Approvals : pc[t] = "ready" /\ pc'[t] = "poll" /\ flag =>
         \E p \in Stops : captured[p] = session[t]
<1>1. IInv => Named
  BY DEF IInv, AimInv, AimPcs
<1> QED
  BY <1>1, InductiveInvariant, PTL DEF FreshSessionIsStoppable
-----------------------------------------------------------------------------
(***************************************************************************)
(* One press, one stopped turn.  The flag is a credit: a press that raises *)
(* it may find it up already, and whoever stops by it puts it down.        *)
(***************************************************************************)
Stopped == {t \in Turns : how[t] = "stopped"}
Raised  == {p \in Stops : stopPc[p] \in {"posts", "done"}}

\* A flag that is up is a press whose turn has not stopped yet.
CreditInv == Cardinality(Stopped) + (IF flag THEN 1 ELSE 0) <= Cardinality(Raised)

\* What a step does to the two counts and to the flag.
CreditMove ==
    \/ Stopped' = Stopped /\ Raised' = Raised /\ (flag' => flag)
    \/ Raised' = Raised /\ flag /\ ~flag' /\ \E t \in Turns \ Stopped : Stopped' = Stopped \cup {t}
    \/ Stopped' = Stopped /\ \E p \in Stops \ Raised : Raised' = Raised \cup {p}

\* A turn that stops had no verdict before, and puts the flag down as it goes.
LEMMA EndingSpends ==
    ASSUME TypeOK, EndInv, UNCHANGED stopPc, NEW t \in Turns, NEW e,
           pc[t] \notin {"closing", "over"}, how' = [how EXCEPT ![t] = e],
           e = "stopped" => flag /\ ~flag',
           flag' => flag
    PROVE  CreditMove
<1>1. how[t] = "none" /\ Raised' = Raised
  BY DEF EndInv, Raised
<1>2. CASE e = "stopped"
  <2>1. t \notin Stopped /\ Stopped' = Stopped \cup {t}
    BY <1>1, <1>2 DEF Stopped, TypeOK
  <2> QED BY <1>1, <1>2, <2>1 DEF CreditMove
<1>3. CASE e # "stopped"
  <2>1. Stopped' = Stopped
    BY <1>1, <1>3 DEF Stopped, TypeOK
  <2> QED BY <1>1, <2>1 DEF CreditMove
<1> QED BY <1>2, <1>3

LEMMA CreditStep ==
    ASSUME TypeOK, EndInv, [Next]_vars
    PROVE  CreditMove
<1>0. UNCHANGED <<how, stopPc>> /\ (flag' => flag) => CreditMove
  BY DEF CreditMove, Stopped, Raised
<1>1. ASSUME NEW t \in Turns, Decide(t) \/ Preflight(t) \/ AskFresh(t)
      PROVE  CreditMove
  BY <1>0, <1>1, EndingSpends DEF Decide, Preflight, AskFresh, EndsAs, Goto, stopVars
<1>2. ASSUME NEW t \in Turns, Publish(t) \/ StartFresh(t) \/ PollStop(t)
      PROVE  CreditMove
  BY <1>0, <1>2, EndingSpends DEF Publish, StartFresh, PollStop, EndsAs, Goto, stopVars
<1>3. ASSUME NEW t \in Turns, DriverFails(t) \/ LastStop(t) \/ LastGoesOn(t) \/ CutsOff(t)
      PROVE  CreditMove
  BY <1>0, <1>3, EndingSpends
    DEF DriverFails, LastStop, LastGoesOn, CutsOff, EndsAs, Goto, projVars, stopVars
<1>4. ASSUME NEW t \in Turns, Ceiling(t) \/ GivesUp(t) \/ Swap(t) \/ NoIdleReading(t)
      PROVE  CreditMove
  BY <1>0, <1>4, EndingSpends
    DEF Ceiling, GivesUp, Swap, NoIdleReading, EndsAs, Goto, projVars, stopVars
<1>5. ASSUME NEW t \in Turns, \/ Begin(t) \/ Open(t) \/ Send(t) \/ PollFinished(t)
                              \/ PollLeaves(t) \/ PhaseAgain(t) \/ UnreadGoesOn(t)
                              \/ Resend(t) \/ Cut(t) \/ CutInterrupts(t) \/ Close(t)
      PROVE  CreditMove
  BY <1>0, <1>5
    DEF Begin, Open, Send, PollFinished, PollLeaves, PhaseAgain, UnreadGoesOn, Resend, Cut,
        CutInterrupts, Close, projVars, stopVars
<1>6. ASSUME NEW p \in Stops, Raise(p)
      PROVE  CreditMove
  <2>1. stopPc[p] = "decided" /\ stopPc' = [stopPc EXCEPT ![p] = "posts"] /\ how' = how
    BY <1>6 DEF Raise, turnVars
  <2>2. p \notin Raised /\ Raised' = Raised \cup {p} /\ Stopped' = Stopped
    BY <2>1 DEF Raised, Stopped, TypeOK
  <2> QED
    BY <2>2 DEF CreditMove
<1>7. ASSUME NEW p \in Stops, Press(p) \/ Post(p)
      PROVE  CreditMove
  <2>1. how' = how /\ flag' = flag
    BY <1>7 DEF Press, Post, turnVars, projVars
  <2>2. \/ /\ stopPc[p] = "off"
           /\ \E l \in {"decided", "refused"} : stopPc' = [stopPc EXCEPT ![p] = l]
        \/ stopPc[p] = "posts" /\ stopPc' = [stopPc EXCEPT ![p] = "done"]
    BY <1>7 DEF Press, Post
  <2>3. Raised' = Raised
    BY <2>2 DEF Raised, TypeOK
  <2> QED
    BY <2>1, <2>3 DEF CreditMove, Stopped
<1>8. ASSUME NEW r \in Resets, ResetTries(r) \/ ResetStep(r)
      PROVE  CreditMove
  BY <1>0, <1>8
    DEF ResetTries, ResetStep, ResetAsks, ResetWaits, ResetLeaves, turnVars, projVars, stopVars
<1>9. ASSUME NEW s \in Sessions, SessionEnds(s)
      PROVE  CreditMove
  BY <1>0, <1>9 DEF SessionEnds, turnVars, projVars, stopVars
<1>10. CASE UNCHANGED vars
  BY <1>0, <1>10 DEF vars, turnVars, projVars, stopVars
<1> QED
  BY <1>1, <1>2, <1>3, <1>4, <1>5, <1>6, <1>7, <1>8, <1>9, <1>10
    DEF Next, TurnStep, StopStep

LEMMA CreditKept ==
    ASSUME CreditInv, CreditMove
    PROVE  CreditInv'
<1>1. IsFiniteSet(Stopped) /\ IsFiniteSet(Raised)
  BY BoundAssumption, FS_Subset DEF Stopped, Raised
<1>2. Cardinality(Stopped) \in Nat /\ Cardinality(Raised) \in Nat
  BY <1>1, FS_CardinalityType
<1>3. CASE Stopped' = Stopped /\ Raised' = Raised /\ (flag' => flag)
  BY <1>2, <1>3 DEF CreditInv
<1>4. CASE Raised' = Raised /\ flag /\ ~flag'
           /\ \E t \in Turns \ Stopped : Stopped' = Stopped \cup {t}
  <2>1. Cardinality(Stopped') = Cardinality(Stopped) + 1
    BY <1>1, <1>4, FS_AddElement
  <2> QED
    BY <1>2, <1>4, <2>1 DEF CreditInv
<1>5. CASE Stopped' = Stopped /\ \E p \in Stops \ Raised : Raised' = Raised \cup {p}
  <2>1. Cardinality(Raised') = Cardinality(Raised) + 1
    BY <1>1, <1>5, FS_AddElement
  <2> QED
    BY <1>2, <1>5, <2>1 DEF CreditInv
<1> QED
  BY <1>3, <1>4, <1>5 DEF CreditMove

\* `stop_requested` is one flag for all turns, and still one press of Stop never stops
\* two of them: every exit that stops by the flag has put it down.
THEOREM OnePressStopsOneTurn == Spec => []OneStopOneTurn
<1>1. Init => CreditInv
  <2> SUFFICES ASSUME Init
               PROVE  CreditInv
    OBVIOUS
  <2>1. Stopped = {} /\ Raised = {} /\ ~flag
    BY DEF Init, Stopped, Raised
  <2> QED
    BY <2>1, FS_EmptySet DEF CreditInv
<1>2. IInv /\ CreditInv /\ [Next]_vars => CreditInv'
  BY CreditStep, CreditKept DEF IInv
<1>3. CreditInv => OneStopOneTurn
  <2> SUFFICES ASSUME CreditInv
               PROVE  OneStopOneTurn
    OBVIOUS
  <2>1. Cardinality(Stopped) \in Nat /\ Cardinality(Raised) \in Nat
    BY BoundAssumption, FS_Subset, FS_CardinalityType DEF Stopped, Raised
  <2>2. Cardinality(Stopped) <= Cardinality(Raised)
    BY <2>1 DEF CreditInv
  <2> QED
    BY <2>2 DEF OneStopOneTurn, Stopped, Raised
<1> QED
  BY <1>1, <1>2, <1>3, InductiveInvariant, PTL DEF Spec

-----------------------------------------------------------------------------
(***************************************************************************)
(* Who puts the flag down.                                                 *)
(***************************************************************************)
\* Turn t takes the flag for itself, or tries its phase again.
Hears(t) ==
    /\ lock = t /\ how[t] = "none"
    /\ \/ how'[t] \in {"stopped", "gaveUp"}
       \/ t \in Phased /\ pc[t] = "grace" /\ pc'[t] = "opening"

\* Whoever gives a verdict under a raised flag and puts it down is the turn that runs.
LEMMA VerdictHears ==
    ASSUME TypeOK, LockInv, EndInv, NEW t \in Turns, NEW e \in {"stopped", "gaveUp"},
           pc[t] \notin {"start", "closing", "over"}, how' = [how EXCEPT ![t] = e]
    PROVE  Hears(t)
BY DEF Hears, LockInv, EndInv, TypeOK

LEMMA HeardStep ==
    ASSUME TypeOK, LockInv, EndInv, [Next]_vars, flag, ~flag'
    PROVE  \E t \in Turns : Hears(t)
<1>1. ASSUME NEW t \in Turns, Decide(t) \/ Preflight(t) \/ AskFresh(t)
      PROVE  Hears(t)
  BY <1>1, VerdictHears DEF Decide, Preflight, AskFresh, EndsAs
<1>2. ASSUME NEW t \in Turns, Publish(t) \/ StartFresh(t) \/ PollStop(t)
      PROVE  Hears(t)
  BY <1>2, VerdictHears DEF Publish, StartFresh, PollStop, EndsAs
<1>3. ASSUME NEW t \in Turns, LastStop(t) \/ Swap(t) \/ NoIdleReading(t)
      PROVE  Hears(t)
  BY <1>3, VerdictHears DEF LastStop, Swap, NoIdleReading, EndsAs
<1>4. ASSUME NEW t \in Turns, GivesUp(t)
      PROVE  Hears(t)
  <2>1. CASE EndsAs(t, "gaveUp")
    BY <1>4, <2>1, VerdictHears DEF GivesUp, EndsAs
  <2>2. CASE t \in Phased /\ Goto(t, "opening")
    BY <1>4, <2>2 DEF GivesUp, Goto, Hears, LockInv, EndInv, TypeOK, Ends
  <2> QED
    BY <1>4, <2>1, <2>2 DEF GivesUp
<1>5. ASSUME NEW t \in Turns, \/ Begin(t) \/ DriverFails(t) \/ Ceiling(t) \/ Cut(t) \/ Open(t)
                              \/ Send(t) \/ PollFinished(t) \/ LastGoesOn(t) \/ Resend(t)
                              \/ PollLeaves(t) \/ PhaseAgain(t) \/ UnreadGoesOn(t) \/ CutsOff(t)
                              \/ CutInterrupts(t) \/ Close(t)
      PROVE  FALSE
  BY <1>5
    DEF Begin, DriverFails, Ceiling, Cut, Open, Send, PollFinished, LastGoesOn, Resend,
        PollLeaves, PhaseAgain, UnreadGoesOn, CutsOff, CutInterrupts, Close, projVars
<1>6. ASSUME NEW p \in Stops, Press(p) \/ Raise(p) \/ Post(p)
      PROVE  FALSE
  BY <1>6 DEF Press, Raise, Post, projVars
<1>7. ASSUME NEW r \in Resets, ResetTries(r) \/ ResetStep(r)
      PROVE  FALSE
  BY <1>7 DEF ResetTries, ResetStep, ResetAsks, ResetWaits, ResetLeaves, projVars
<1>8. ASSUME NEW s \in Sessions, SessionEnds(s)
      PROVE  FALSE
  BY <1>8 DEF SessionEnds, projVars
<1>9. ~ UNCHANGED vars
  BY DEF vars, projVars
<1> QED
  BY <1>1, <1>2, <1>3, <1>4, <1>5, <1>6, <1>7, <1>8, <1>9 DEF Next, TurnStep, StopStep

\* No Stop is lost: the flag is put down only by the turn that has the lock, whose verdict
\* comes of it, or by a phase that is tried again: the safety half of `StopEndsTheTurn`.
THEOREM NoStopIsLost == Spec => StopIsHeard
<1> DEFINE Heard == flag /\ ~flag' => \E t \in Turns : Hears(t)
<1>1. IInv /\ [Next]_vars => Heard
  BY HeardStep DEF IInv
<1>2. Heard <=> (flag /\ ~flag' =>
         \E t \in Turns :
            /\ lock = t /\ how[t] = "none"
            /\ \/ how'[t] \in {"stopped", "gaveUp"}
               \/ t \in Phased /\ pc[t] = "grace" /\ pc'[t] = "opening")
  BY DEF Hears
<1> QED
  BY <1>1, <1>2, InductiveInvariant, PTL DEF Spec, StopIsHeard

-----------------------------------------------------------------------------
(***************************************************************************)
(* What a turn leaves behind the lock.                                     *)
(***************************************************************************)
\* A turn that answered has read its session idle, and one on its way out has a verdict.
AnsweredIsQuiet ==
    \A t \in Turns \ lapsed : how[t] = "answered" => \A s \in Sessions : work[s] # t
ClosingInv == \A t \in Turns : pc[t] = "closing" => how[t] # "none"

\* Work for a turn begins where it prompts, and nowhere else.
WorkOnlyShrinks(t) == \A s \in Sessions : work'[s] = t => work[s] = t

LEMMA WorkBegins ==
    ASSUME TypeOK, [Next]_vars, NEW t \in Turns, ~Send(t)
    PROVE  WorkOnlyShrinks(t)
<1>1. ASSUME NEW u \in Turns, Send(u)
      PROVE  WorkOnlyShrinks(t)
  BY <1>1 DEF Send, WorkOnlyShrinks, TypeOK
<1>2. ASSUME NEW u \in Turns, PollStop(u) \/ Ceiling(u) \/ CutInterrupts(u) \/ CutsOff(u)
      PROVE  WorkOnlyShrinks(t)
  BY <1>2 DEF PollStop, Ceiling, CutInterrupts, CutsOff, Interrupt, WorkOnlyShrinks, TypeOK
<1>3. ASSUME NEW u \in Turns, \/ Begin(u) \/ DriverFails(u) \/ Cut(u) \/ Decide(u) \/ Open(u)
                              \/ Preflight(u) \/ AskFresh(u) \/ Publish(u) \/ StartFresh(u)
                              \/ PollFinished(u) \/ LastStop(u) \/ LastGoesOn(u) \/ Resend(u)
                              \/ GivesUp(u) \/ Swap(u) \/ NoIdleReading(u) \/ Close(u)
                              \/ PollLeaves(u) \/ PhaseAgain(u) \/ UnreadGoesOn(u)
      PROVE  work' = work
  BY <1>3
    DEF Begin, DriverFails, Cut, Decide, Open, Preflight, AskFresh, Publish, StartFresh,
        PollFinished, LastStop, LastGoesOn, Resend, GivesUp, Swap, NoIdleReading, Close,
        PollLeaves, PhaseAgain, UnreadGoesOn
<1>4. ASSUME NEW s \in Sessions, SessionEnds(s)
      PROVE  WorkOnlyShrinks(t)
  BY <1>4 DEF SessionEnds, WorkOnlyShrinks, TypeOK
<1>5. ASSUME NEW p \in Stops, Press(p) \/ StopStep(p)
      PROVE  WorkOnlyShrinks(t)
  BY <1>5 DEF Press, StopStep, Raise, Post, Interrupt, WorkOnlyShrinks, TypeOK
<1>6. ASSUME NEW r \in Resets, ResetTries(r) \/ ResetStep(r)
      PROVE  work' = work
  BY <1>6 DEF ResetTries, ResetStep, ResetAsks, ResetWaits, ResetLeaves
<1>7. work' = work => WorkOnlyShrinks(t)
  BY DEF WorkOnlyShrinks
<1>8. UNCHANGED vars => work' = work
  BY DEF vars
<1> QED
  BY <1>1, <1>2, <1>3, <1>4, <1>5, <1>6, <1>7, <1>8 DEF Next, TurnStep

\* A verdict is given once, on the way out, and "answered" only over an idle session.
Given(t) ==
    /\ pc'[t] = "closing" => how'[t] # "none"
    /\ how'[t] = "answered" => how[t] = "answered" \/ pc[t] \in {"decides", "last"}

LEMMA VerdictStep ==
    ASSUME TypeOK, ClosingInv, [Next]_vars, NEW t \in Turns
    PROVE  Given(t)
<1>1. pc'[t] = pc[t] /\ how'[t] = how[t] => Given(t)
  BY DEF Given, ClosingInv
<1>2. ASSUME NEW u \in Turns, u # t, \/ Begin(u) \/ DriverFails(u) \/ Ceiling(u) \/ Cut(u)
                                      \/ PollLeaves(u) \/ PhaseAgain(u) \/ TurnStep(u)
      PROVE  pc'[t] = pc[t] /\ how'[t] = how[t]
  <2>1. \E l, e : /\ pc' = [pc EXCEPT ![u] = l]
                  /\ how' = how \/ how' = [how EXCEPT ![u] = e]
    <3>1. CASE \/ Begin(u) \/ Decide(u) \/ Open(u) \/ Preflight(u) \/ AskFresh(u)
               \/ Publish(u) \/ StartFresh(u) \/ Send(u)
      BY <3>1 DEF Begin, Decide, Open, Preflight, AskFresh, Publish, StartFresh, Send, Goto, EndsAs
    <3>2. CASE \/ DriverFails(u) \/ Ceiling(u) \/ Cut(u) \/ PollStop(u) \/ PollFinished(u)
               \/ LastStop(u) \/ LastGoesOn(u) \/ Resend(u)
      BY <3>2 DEF DriverFails, Ceiling, Cut, PollStop, PollFinished, LastStop, LastGoesOn, Resend,
                  Goto, EndsAs
    <3>3. CASE \/ CutInterrupts(u) \/ GivesUp(u) \/ Swap(u) \/ NoIdleReading(u) \/ Close(u)
      BY <3>3 DEF CutInterrupts, GivesUp, Swap, NoIdleReading, Close, Goto, EndsAs
    <3>4. CASE PollLeaves(u) \/ PhaseAgain(u) \/ UnreadGoesOn(u) \/ CutsOff(u)
      BY <3>4 DEF PollLeaves, PhaseAgain, UnreadGoesOn, CutsOff, Goto, EndsAs
    <3> QED
      BY <1>2, <3>1, <3>2, <3>3, <3>4 DEF TurnStep
  <2> QED
    BY <1>2, <2>1 DEF TypeOK
<1>3. CASE Begin(t) \/ Decide(t) \/ Open(t) \/ Preflight(t) \/ AskFresh(t) \/ Publish(t)
  BY <1>3 DEF Begin, Decide, Open, Preflight, AskFresh, Publish, Goto, EndsAs, Given, TypeOK
<1>4. CASE StartFresh(t) \/ Send(t) \/ PollStop(t) \/ PollFinished(t) \/ LastStop(t)
           \/ LastGoesOn(t) \/ Resend(t)
  BY <1>4
    DEF StartFresh, Send, PollStop, PollFinished, LastStop, LastGoesOn, Resend, Goto, EndsAs,
        Given, TypeOK
<1>5. CASE DriverFails(t) \/ Ceiling(t) \/ Cut(t) \/ CutInterrupts(t) \/ GivesUp(t) \/ Swap(t)
           \/ NoIdleReading(t) \/ Close(t)
  BY <1>5
    DEF DriverFails, Ceiling, Cut, CutInterrupts, GivesUp, Swap, NoIdleReading, Close, Goto,
        EndsAs, Given, TypeOK
<1>8. CASE PollLeaves(t) \/ PhaseAgain(t) \/ UnreadGoesOn(t) \/ CutsOff(t)
  BY <1>8 DEF PollLeaves, PhaseAgain, UnreadGoesOn, CutsOff, Goto, EndsAs, Given, TypeOK
<1>6. ASSUME NEW x, \/ SessionEnds(x) \/ Press(x) \/ StopStep(x) \/ ResetTries(x) \/ ResetStep(x)
      PROVE  pc' = pc /\ how' = how
  BY <1>6 DEF SessionEnds, Press, StopStep, Raise, Post, ResetTries, ResetStep, ResetAsks,
              ResetWaits, ResetLeaves, turnVars
<1>7. UNCHANGED vars => pc' = pc /\ how' = how
  BY DEF vars, turnVars
<1> QED
  BY <1>1, <1>2, <1>3, <1>4, <1>5, <1>6, <1>7, <1>8 DEF Next, TurnStep

\* A turn that tried a phase again stays one that did.
LEMMA LapsedGrows ==
    ASSUME [Next]_vars
    PROVE  lapsed \subseteq lapsed'
<1>1. ASSUME NEW t \in Turns, \/ Begin(t) \/ Decide(t) \/ Open(t) \/ Preflight(t) \/ AskFresh(t)
                              \/ Publish(t) \/ StartFresh(t) \/ Send(t) \/ DriverFails(t)
                              \/ PollStop(t) \/ PollFinished(t) \/ PollLeaves(t) \/ PhaseAgain(t)
      PROVE  lapsed \subseteq lapsed'
  BY <1>1
    DEF Begin, Decide, Open, Preflight, AskFresh, Publish, StartFresh, Send, DriverFails,
        PollStop, PollFinished, PollLeaves, PhaseAgain
<1>2. ASSUME NEW t \in Turns, \/ LastStop(t) \/ LastGoesOn(t) \/ UnreadGoesOn(t) \/ CutsOff(t)
                              \/ Resend(t) \/ Ceiling(t) \/ Cut(t) \/ CutInterrupts(t)
                              \/ GivesUp(t) \/ Swap(t) \/ NoIdleReading(t) \/ Close(t)
      PROVE  lapsed \subseteq lapsed'
  BY <1>2
    DEF LastStop, LastGoesOn, UnreadGoesOn, CutsOff, Resend, Ceiling, Cut, CutInterrupts,
        GivesUp, Swap, NoIdleReading, Close
<1>3. ASSUME NEW x, SessionEnds(x) \/ Press(x) \/ StopStep(x) \/ ResetTries(x) \/ ResetStep(x)
      PROVE  lapsed \subseteq lapsed'
  BY <1>3 DEF SessionEnds, Press, StopStep, Raise, Post, ResetTries, ResetStep, ResetAsks,
              ResetWaits, ResetLeaves, turnVars
<1>4. CASE UNCHANGED vars
  BY <1>4 DEF vars, turnVars
<1> QED
  BY <1>1, <1>2, <1>3, <1>4 DEF Next, TurnStep

LEMMA QuietEndStep ==
    ASSUME TypeOK, WorkInv, EndInv, AnsweredIsQuiet, ClosingInv, [Next]_vars
    PROVE  AnsweredIsQuiet' /\ ClosingInv'
<1>1. ASSUME NEW t \in Turns \ lapsed', how'[t] = "answered"
      PROVE  \A s \in Sessions : work'[s] # t
  <2>1. t \notin lapsed /\ (how[t] = "answered" \/ pc[t] \in {"decides", "last"})
    BY <1>1, LapsedGrows, VerdictStep DEF Given
  <2>2. \A s \in Sessions : work[s] # t
    BY <2>1 DEF AnsweredIsQuiet, WorkInv, QuietPcs
  <2>3. ~Send(t)
    BY <2>1 DEF Send, EndInv
  <2> QED
    BY <2>2, <2>3, WorkBegins DEF WorkOnlyShrinks
<1>2. ClosingInv'
  BY VerdictStep DEF Given, ClosingInv
<1> QED
  BY <1>1, <1>2 DEF AnsweredIsQuiet

\* A turn gives the lock back at its end, or where a decline is decided.
LEMMA TurnsGiveBack ==
    ASSUME TypeOK, LockInv, [Next]_vars, NEW t \in Turns, lock = t, lock' # t
    PROVE  pc[t] \in {"closing", "decides"}
<1>1. ASSUME NEW u \in Turns, Begin(u) \/ Decide(u) \/ Close(u)
      PROVE  pc[t] \in {"closing", "decides"}
  BY <1>1 DEF Begin, Decide, Close, LockInv
<1>2. ASSUME NEW u \in Turns, \/ DriverFails(u) \/ Cut(u) \/ Open(u) \/ Preflight(u) \/ AskFresh(u)
                              \/ Publish(u) \/ StartFresh(u) \/ PollFinished(u) \/ LastStop(u)
                              \/ LastGoesOn(u) \/ Resend(u) \/ GivesUp(u) \/ Swap(u)
                              \/ NoIdleReading(u) \/ PollStop(u) \/ Ceiling(u) \/ CutInterrupts(u)
                              \/ Send(u) \/ PollLeaves(u) \/ PhaseAgain(u) \/ UnreadGoesOn(u)
                              \/ CutsOff(u)
      PROVE  lock' = lock
  BY <1>2
    DEF DriverFails, Cut, Open, Preflight, AskFresh, Publish, StartFresh, PollFinished, LastStop,
        LastGoesOn, Resend, GivesUp, Swap, NoIdleReading, PollStop, Ceiling, CutInterrupts, Send,
        PollLeaves, PhaseAgain, UnreadGoesOn, CutsOff
<1>3. ASSUME NEW x, SessionEnds(x) \/ Press(x) \/ StopStep(x)
      PROVE  lock' = lock
  BY <1>3 DEF SessionEnds, Press, StopStep, Raise, Post
<1>4. ASSUME NEW r \in Resets, ResetTries(r) \/ ResetStep(r)
      PROVE  lock' = lock
  BY <1>4 DEF ResetTries, ResetStep, ResetAsks, ResetWaits, ResetLeaves, LockInv
<1>5. ~ UNCHANGED vars
  BY DEF vars
<1> QED
  BY <1>1, <1>2, <1>3, <1>4, <1>5 DEF Next, TurnStep

\* A Build turn hands the lock back over a session that still works for it only when it was
\* stopped, failed or was cut off with no idle reading, or had tried a phase again: never
\* when it answered, nor when it ended itself because it looped or went quiet.
THEOREM WritersAreBehindBrokenTurns == Spec => OnlyTheBrokenLeaveAWriter
<1> DEFINE Broken ==
      \A t \in Coders : lock = t /\ lock' # t /\ (\E s \in Sessions : work[s] = t) =>
         how[t] \in {"stopped", "failed", "cutOff"} \/ t \in lapsed
<1>1. Init => AnsweredIsQuiet /\ ClosingInv
  BY DEF Init, AnsweredIsQuiet, ClosingInv
<1>2. IInv /\ AnsweredIsQuiet /\ ClosingInv /\ [Next]_vars => AnsweredIsQuiet' /\ ClosingInv'
  BY QuietEndStep DEF IInv
<1>3. IInv /\ AnsweredIsQuiet /\ ClosingInv /\ [Next]_vars => Broken
  <2> SUFFICES ASSUME IInv, AnsweredIsQuiet, ClosingInv, [Next]_vars,
                      NEW t \in Coders, lock = t, lock' # t,
                      NEW s \in Sessions, work[s] = t, t \notin lapsed
               PROVE  how[t] \in {"stopped", "failed", "cutOff"}
    OBVIOUS
  <2>1. how[t] # "none"
    BY TurnsGiveBack DEF IInv, ClosingInv, WorkInv, QuietPcs
  <2>2. how[t] # "answered" /\ how[t] # "gaveUp"
    BY DEF IInv, AnsweredIsQuiet, GaveUpIsQuiet
  <2> QED
    BY <2>1, <2>2 DEF IInv, TypeOK, Ends
<1> QED
  BY <1>1, <1>2, <1>3, InductiveInvariant, PTL DEF Spec, OnlyTheBrokenLeaveAWriter
=============================================================================
