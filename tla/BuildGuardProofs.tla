--------------------------- MODULE BuildGuardProofs ---------------------------
(***************************************************************************)
(* Proofs about BuildGuard, for any limits and any number of requests,     *)
(* turns, sessions, writes and presses of Stop.                            *)
(***************************************************************************)
EXTENDS BuildGuard, TLAPS

-----------------------------------------------------------------------------
(***************************************************************************)
(* The inductive invariant.                                                *)
(***************************************************************************)
\* An allowance is decided on only where one is left.
LimitInv ==
    /\ guard = "starting" => recoveries < RecoveryLimit
    /\ context = "starting" => rollovers < RolloverLimit

\* A turn has a session.
SessionInv == pc # "idle" => sid \in 1..born

\* What this attempt may still spend is what its counter leaves.
BudgetInv ==
    /\ guard \in Armed => calls <= CallLimit /\ spent <= CallLimit * recoveries + calls
    /\ BudgetKept

\* The places of a turn that was told what to do.
Moving == {"quieting", "quiet", "granting"} \cup Replacing

\* A recovery the turn carries out has been consumed, and is still decided; whatever
\* else it carries out, no decision of the guard was dropped for it.
ChosenInv ==
    /\ pc \in Moving /\ task = "recovery" => pending = "none" /\ guard \in {"starting", "terminal"}
    /\ pc \in Moving /\ task # "recovery" /\ pending = "none" /\ guard \in {"starting", "terminal"} =>
          stopRequested

\* The session that replaces another is new.
FreshInv ==
    /\ pc = "publishing" => born \notin retired /\ born \notin working
    /\ pc = "activating" => sid \notin retired

\* A session is only replaced, or kept, once it is idle ...
QuietInv == pc \in {"quiet", "granting"} \cup Replacing => sid \notin working

\* ... and nobody but a session of another turn writes while it is.
StillInv ==
    pc \in Replacing =>
        /\ treeLock
        /\ task = "recovery" /\ ~strayed => tree = baseline

\* The type invariant in parts.
TypeOK1 ==
    /\ guard \in {"none", "disarmed", "starting", "terminal"} \cup Armed
    /\ recoveries \in 0..RecoveryLimit /\ calls \in Nat
    /\ pending \in {"none"} \cup Refusals /\ keeps \in BOOLEAN
TypeOK2 ==
    /\ baseline \in 0..tree /\ edits \in 0..MaxEdits /\ saves \in 0..MaxSaves
    /\ tree = 1 + edits + saves /\ strayed \in BOOLEAN
TypeOK3 ==
    /\ context \in {"none", "active", "starting", "offered", "terminal"}
    /\ rollovers \in 0..RolloverLimit
    /\ breach \in {"none", "rollover", "offer", "fail"}
TypeOK4 ==
    /\ retired \subseteq 1..born /\ working \subseteq 1..born
    /\ born \in 0..MaxSessions /\ sid \in 0..born
TypeOK5 ==
    /\ turn \in 0..MaxTurns /\ pc \in Places
    /\ task \in {"none", "recovery", "rollover", "offer"}
    /\ back \in {"consumingContext", "after", "ending"} /\ treeLock \in BOOLEAN
    /\ stopRequested \in BOOLEAN /\ presses \in 0..MaxStops /\ spent \in Nat
TypeOK6 == gatewayError \in Codes /\ requests \in [Requests -> RequestStates]

\* The limits and bounds are natural numbers.
LEMMA Limits ==
    /\ CallLimit \in Nat /\ RecoveryLimit \in Nat /\ RolloverLimit \in Nat /\ MaxTurns \in Nat
    /\ MaxSessions \in Nat /\ MaxEdits \in Nat /\ MaxSaves \in Nat /\ MaxStops \in Nat
    /\ 0 \in 0..RecoveryLimit /\ 0 \in 0..RolloverLimit
BY LimitsAssumption

-----------------------------------------------------------------------------
(***************************************************************************)
(* What the guard and the rollover may answer.                             *)
(***************************************************************************)
\* The witness answers "same" only over the baseline.
LEMMA SeesValues ==
    ASSUME NEW readable \in BOOLEAN
    PROVE  /\ Sees(readable) \in {"fail", "disarm", "same"}
           /\ Sees(readable) = "same" => tree = baseline
BY DEF Sees

\* A recovery is granted only where one is left.
LEMMA AtLimitValues ==
    /\ AtLimit \in {"recover", "stop"}
    /\ AtLimit = "recover" => recoveries < RecoveryLimit
BY DEF AtLimit

\* The state a decision leads to.
LEMMA StateForValues ==
    /\ StateFor("recover") = "starting" /\ StateFor("disarm") = "disarmed"
    /\ StateFor("stop") = "terminal" /\ StateFor("fail") = "terminal"
BY DEF StateFor

\* What a guard that is not armed answers.
LEMMA StandingValues ==
    /\ Standing \in {"disarm", "recover", "stop"}
    /\ Standing = "disarm" <=> guard = "disarmed"
    /\ Standing = "recover" <=> guard = "starting"
BY DEF Standing

\* What is said of a completion.
LEMMA CompletionValues ==
    ASSUME NEW readable \in BOOLEAN
    PROVE  /\ CompletionSays(readable) \in {"disarm", "recover", "stop", "fail"}
           /\ guard \in Armed /\ CompletionSays(readable) = "recover" =>
                 recoveries < RecoveryLimit
           /\ guard \notin Armed =>
                 /\ CompletionSays(readable) = "disarm" <=> guard = "disarmed"
                 /\ CompletionSays(readable) = "recover" <=> guard = "starting"
BY SeesValues, AtLimitValues, StandingValues DEF CompletionSays

\* What is said of a request: it is let through only within the limit.
LEMMA VerdictValues ==
    ASSUME NEW measured \in {"fits", "large", "heavy", "unmeasured"}, NEW readable \in BOOLEAN
    PROVE  /\ Verdict(measured, readable) \in {"route", "disarm", "recover", "stop", "fail"}
           /\ Verdict(measured, readable) = "recover" => recoveries < RecoveryLimit
           /\ Verdict(measured, readable) = "route" => ~(calls + 1 > CallLimit)
BY SeesValues, AtLimitValues DEF Verdict, Over

\* What is said of a request's size, and where it leads.
LEMMA BreaksValues ==
    ASSUME NEW size \in {"fits", "large", "unmeasured"}
    PROVE  /\ Breaks(size) \in {"fail", "rollover", "offer"}
           /\ Breaks(size) = "rollover" => rollovers < RolloverLimit
           /\ ContextFor(Breaks(size)) \in {"terminal", "starting", "offered"}
           /\ ContextFor(Breaks(size)) = "starting" => Breaks(size) = "rollover"
BY DEF Breaks, ContextFor

\* An attempt more is a limit more.
LEMMA OneMore == \A n \in Nat : CallLimit * (n + 1) = CallLimit * n + CallLimit
BY Limits, SMT

\* What a request may do to the guard: nothing, be let through, or have it decide.
GuardLets ==
    /\ guard \in Armed /\ ~(calls + 1 > CallLimit)
    /\ guard' = guard /\ pending' = pending /\ calls' = calls + 1 /\ spent' = spent + 1
GuardDecides ==
    /\ guard \in Armed /\ spent' = spent
    /\ \/ guard' = "disarmed" /\ pending' = "none" /\ calls' \in {calls, calls + 1}
       \/ /\ guard' = "starting" /\ recoveries < RecoveryLimit /\ calls' = calls
          /\ pending' = IF pending = "none" THEN "recover" ELSE pending
       \/ /\ guard' = "terminal" /\ calls' = calls
          /\ pending' \in IF pending = "none" THEN {"stop", "fail"} ELSE {pending}
GuardStands ==
    guard' = guard /\ pending' = pending /\ calls' = calls /\ spent' = spent

LEMMA AskGuardDoes ==
    ASSUME TypeOK, NEW r \in Requests, AskGuard(r)
    PROVE  /\ GuardLets \/ GuardDecides \/ GuardStands
           /\ UNCHANGED <<baseline, recoveries, contextVars, turnVars, sessionVars, treeVars,
                          stopVars, gatewayError>>
           /\ keeps' \in BOOLEAN
<1>1. CASE AskGuardStanding(r)
  BY <1>1 DEF AskGuard, AskGuardStanding, Others, guardVars, GuardStands, TypeOK
<1>2. ASSUME NEW measured \in {"fits", "large", "heavy", "unmeasured"}, NEW readable \in BOOLEAN,
             AskGuardArmed(r, measured, readable)
      PROVE  /\ GuardLets \/ GuardDecides
             /\ baseline' = baseline /\ recoveries' = recoveries /\ keeps' \in BOOLEAN
  <2> DEFINE said == Verdict(measured, readable)
  <2>1. guard \in Armed
    BY <1>2 DEF AskGuardArmed
  <2>2. CASE said = "route"
    BY <1>2, <2>1, <2>2, VerdictValues DEF AskGuardArmed, GuardLets, Refusals
  <2>3. CASE said # "route"
    <3>1. Take(said, Sees(readable) = "same" /\ Over(measured) /\ WithinSession(measured))
      BY <1>2, <2>3 DEF AskGuardArmed
    <3>2. /\ guard' = StateFor(said) /\ keeps' \in BOOLEAN
          /\ baseline' = baseline /\ recoveries' = recoveries
      BY <3>1 DEF Take
    <3>3. pending' = Queued(said) /\ spent' = spent
      BY <1>2, <2>3, Zenon DEF AskGuardArmed
    <3>4. /\ said \in Refusals => calls' = calls
          /\ said \notin Refusals => calls' \in {calls, calls + 1}
      BY <1>2, <2>3 DEF AskGuardArmed
    <3>5. said \in {"disarm", "recover", "stop", "fail"} /\ (said = "recover" => recoveries < RecoveryLimit)
      BY <2>3, VerdictValues
    <3> HIDE DEF said
    <3> QED
      BY <2>1, <3>2, <3>3, <3>4, <3>5, StateForValues DEF GuardDecides, Queued, Refusals
  <2> QED
    BY <2>2, <2>3
<1> QED
  BY <1>1, <1>2 DEF AskGuard, Others

\* A step that spends no recovery and no rollover.
SpendsNothing == recoveries' \in {recoveries, 0} /\ rollovers' \in {rollovers, 0}

\* Every step keeps the types of the guard.
LEMMA TypeStep1 ==
    ASSUME TypeOK, LimitInv, [Next]_vars
    PROVE  TypeOK1'
<1>1. CASE SendStops \/ PollStop \/ LastLook \/ QuietLook \/ AskFresh \/ ConsumeContext
  BY <1>1, Limits
    DEF SendStops, PollStop, LastLook, QuietLook, AskFresh, ConsumeContext,
        HandleStop, ClaimCancellation, Cancellable, Armed, ClaimContext,
        sessionVars, treeVars, guardVars, contextVars, Cancelled, TypeOK, LimitInv,
        TypeOK1, Refusals
<1>2. ASSUME NEW r \in Requests,
             Arrive(r) \/ ReadBody(r)
      PROVE  TypeOK1'
  BY <1>2, Limits
    DEF Arrive, ReadBody, Others, turnVars, sessionVars, treeVars, stopVars, At,
        guardVars, contextVars, Refused, Moves, Owns, TypeOK, LimitInv, TypeOK1,
        Armed, Refusals
<1>3. CASE Begin
  BY <1>3, Limits
    DEF Begin, guardVars, contextVars, treeVars, stopVars, TypeOK, LimitInv,
        TypeOK1, Armed, Refusals
<1>4. CASE Send
  BY <1>4, Limits
    DEF Send, guardVars, contextVars, treeVars, stopVars, TypeOK, LimitInv, TypeOK1,
        Armed, Refusals
<1>5. CASE PollLeaves
  BY <1>5, Limits
    DEF PollLeaves, guardVars, contextVars, sessionVars, treeVars, stopVars, TypeOK,
        LimitInv, TypeOK1, Armed, Refusals
<1>6. CASE Brake
  BY <1>6, Limits
    DEF Brake, ClaimTerminal, Armed, guardVars, contextVars, treeVars, TypeOK,
        LimitInv, TypeOK1, Refusals
<1>7. CASE RetryDead
  BY <1>7, Limits
    DEF RetryDead, guardVars, contextVars, treeVars, stopVars, TypeOK, LimitInv,
        TypeOK1, Armed, Refusals
<1>8. CASE ConsumeGuard
  BY <1>8, Limits
    DEF ConsumeGuard, Apply, contextVars, sessionVars, treeVars, stopVars, TypeOK,
        LimitInv, TypeOK1, Armed, Refusals
<1>9. CASE GiveUp
  BY <1>9, Limits
    DEF GiveUp, HandleStop, ClaimCancellation, Cancellable, Armed, ClaimContext,
        ClaimTerminal, Apply, guardVars, contextVars, sessionVars, treeVars, TypeOK,
        LimitInv, TypeOK1, Refusals
<1>10. CASE RetryBroken
  BY <1>10, Limits
    DEF RetryBroken, guardVars, contextVars, sessionVars, treeVars, stopVars,
        TypeOK, LimitInv, TypeOK1, Armed, Refusals
<1>11. CASE Quieten
  BY <1>11, Limits
    DEF Quieten, ClaimCancellation, Cancellable, Armed, guardVars, contextVars,
        treeVars, stopVars, TypeOK, LimitInv, TypeOK1, Refusals
<1>12. CASE BeginRollover
  BY <1>12, Limits
    DEF BeginRollover, guardVars, sessionVars, treeVars, stopVars, TypeOK, LimitInv,
        TypeOK1, Armed, Refusals
<1>13. CASE Create
  BY <1>13, Limits
    DEF Create, contextVars, treeVars, stopVars, TypeOK, LimitInv, TypeOK1, Armed,
        Refusals
<1>14. CASE Publish
  BY <1>14, Limits
    DEF Publish, Cancelled, HandleStop, ClaimCancellation, Cancellable, Armed,
        ClaimContext, guardVars, contextVars, treeVars, TypeOK, LimitInv, TypeOK1,
        Refusals
<1>15. CASE Activate
  <2>1. CASE stopRequested \/ ~Granted
    BY <1>15, <2>1, Limits
      DEF Activate, Cancelled, HandleStop, ClaimCancellation, Cancellable, TypeOK, TypeOK1,
          Armed, Refusals
  <2>2. CASE ~(stopRequested \/ ~Granted)
    <3>1. CASE task = "recovery"
      <4>1. /\ guard' = "recovery" /\ recoveries' = recoveries + 1 /\ calls' = 0
            /\ keeps' = FALSE /\ pending' = pending /\ guard = "starting"
        BY <1>15, <2>2, <3>1, Zenon DEF Activate, Granted, StartRecovery
      <4>2. recoveries + 1 \in 0..RecoveryLimit
        BY <4>1, Limits DEF LimitInv, TypeOK
      <4> QED
        BY <4>1, <4>2 DEF TypeOK, TypeOK1, Armed
    <3>2. CASE task # "recovery"
      BY <1>15, <2>2, <3>2, Limits
        DEF Activate, ActivateRollover, guardVars, TypeOK, TypeOK1, Armed, Refusals
    <3> QED
      BY <3>1, <3>2
  <2> QED
    BY <2>1, <2>2
<1>16. CASE Close
  BY <1>16, Limits
    DEF Close, treeVars, stopVars, TypeOK, LimitInv, TypeOK1, Armed, Refusals
<1>17. CASE Press
  BY <1>17, Limits
    DEF Press, ClaimCancellation, Cancellable, Armed, contextVars, turnVars,
        sessionVars, treeVars, TypeOK, LimitInv, TypeOK1, Refusals
<1>18. ASSUME NEW place \in {"sending", "ending"},
             Goes(place)
      PROVE  TypeOK1'
  BY <1>18, Limits
    DEF Goes, guardVars, contextVars, sessionVars, treeVars, stopVars, TypeOK,
        LimitInv, TypeOK1, Armed, Refusals
<1>19. ASSUME NEW a \in BOOLEAN, NEW b \in BOOLEAN,
             Arm(a, b)
      PROVE  TypeOK1'
  BY <1>19, Limits
    DEF Arm, sessionVars, stopVars, TypeOK, LimitInv, TypeOK1, Armed, Refusals
<1>20. ASSUME NEW a \in BOOLEAN, NEW b \in BOOLEAN,
             Grant(a, b)
      PROVE  TypeOK1'
  BY <1>20, Limits, SeesValues, StateForValues
    DEF Grant, HandleStop, ClaimCancellation, Cancellable, Armed, ClaimContext,
        Take, guardVars, contextVars, sessionVars, treeVars, TypeOK, LimitInv,
        TypeOK1, Refusals
<1>21. ASSUME NEW a \in BOOLEAN,
             JudgeEmpty(a)
      PROVE  TypeOK1'
  BY <1>21, Limits, StateForValues, CompletionValues
    DEF JudgeEmpty, JudgedAs, Completion, Take, Armed, Apply, contextVars,
        sessionVars, treeVars, stopVars, TypeOK, LimitInv, TypeOK1, Refusals
<1>22. ASSUME NEW a \in BOOLEAN,
             JudgeDone(a)
      PROVE  TypeOK1'
  BY <1>22, Limits, StateForValues, CompletionValues
    DEF JudgeDone, JudgedAs, Completion, Take, Armed, Apply, contextVars,
        sessionVars, treeVars, stopVars, TypeOK, LimitInv, TypeOK1, Refusals
<1>23. ASSUME NEW a \in BOOLEAN,
             Save(a)
      PROVE  TypeOK1'
  BY <1>23, Limits
    DEF Save, Cancellable, Armed, contextVars, turnVars, sessionVars, stopVars,
        TypeOK, LimitInv, TypeOK1, Refusals
<1>24. ASSUME NEW r \in Requests,
             AskGuard(r)
      PROVE  TypeOK1'
  BY <1>24, Limits, AskGuardDoes
    DEF GuardLets, GuardDecides, GuardStands, contextVars, turnVars, sessionVars,
        treeVars, stopVars, TypeOK, LimitInv, TypeOK1, Armed, Refusals
<1>25. ASSUME NEW r \in Requests, NEW size \in {"fits", "large", "unmeasured"},
             AskContext(r, size)
      PROVE  TypeOK1'
  BY <1>25, Limits, BreaksValues
    DEF AskContext, Others, turnVars, sessionVars, treeVars, stopVars, At, Refused,
        Moves, guardVars, TypeOK, LimitInv, TypeOK1, Armed, Refusals
<1>26. ASSUME NEW r \in Requests, NEW code \in Codes,
             StreamEnds(r, code)
      PROVE  TypeOK1'
  BY <1>26, Limits
    DEF StreamEnds, Others, turnVars, sessionVars, treeVars, stopVars, At, Refused,
        guardVars, contextVars, TypeOK, LimitInv, TypeOK1, Armed, Refusals
<1>27. ASSUME NEW r \in Requests, NEW a \in BOOLEAN,
             Repeats(r, a)
      PROVE  TypeOK1'
  BY <1>27, Limits, StateForValues, CompletionValues
    DEF Repeats, Completion, Take, Armed, Queued, Others, turnVars, sessionVars,
        treeVars, stopVars, At, Refused, Refusals, contextVars, TypeOK, LimitInv,
        TypeOK1
<1>28. ASSUME NEW s \in working,
             Edit(s)
      PROVE  TypeOK1'
  BY <1>28, Limits
    DEF Edit, guardVars, contextVars, turnVars, sessionVars, stopVars, TypeOK,
        LimitInv, TypeOK1, Armed, Refusals
<1>29. ASSUME NEW s \in working,
             SessionEnds(s)
      PROVE  TypeOK1'
  BY <1>29, Limits
    DEF SessionEnds, At, guardVars, contextVars, turnVars, treeVars, stopVars,
        TypeOK, LimitInv, TypeOK1, Armed, Refusals
<1>30. CASE UNCHANGED vars
  BY <1>30
    DEF vars, guardVars, contextVars, turnVars, sessionVars, treeVars, stopVars,
        TypeOK, LimitInv, TypeOK1, Armed, Refusals
<1> QED
  BY <1>1, <1>2, <1>3, <1>4, <1>5, <1>6, <1>7, <1>8, <1>9, <1>10, <1>11, <1>12,
      <1>13, <1>14, <1>15, <1>16, <1>17, <1>18, <1>19, <1>20, <1>21, <1>22, <1>23,
      <1>24, <1>25, <1>26, <1>27, <1>28, <1>29, <1>30
    DEF Next, TurnStep, RequestStep, Outside

\* Every step keeps the types of the tree.
LEMMA TypeStep2 ==
    ASSUME TypeOK, [Next]_vars
    PROVE  TypeOK2'
<1>1. CASE SendStops \/ PollStop \/ LastLook \/ QuietLook \/ AskFresh \/ ConsumeContext
  BY <1>1, Limits
    DEF SendStops, PollStop, LastLook, QuietLook, AskFresh, ConsumeContext,
        HandleStop, ClaimCancellation, Cancellable, Armed, ClaimContext,
        sessionVars, treeVars, guardVars, contextVars, Cancelled, TypeOK, TypeOK2
<1>2. ASSUME NEW r \in Requests,
             Arrive(r) \/ ReadBody(r)
      PROVE  TypeOK2'
  BY <1>2, Limits
    DEF Arrive, ReadBody, Others, turnVars, sessionVars, treeVars, stopVars, At,
        guardVars, contextVars, Refused, Moves, Owns, TypeOK, TypeOK2
<1>3. CASE Begin
  BY <1>3, Limits
    DEF Begin, guardVars, contextVars, treeVars, stopVars, TypeOK, TypeOK2
<1>4. CASE Send
  BY <1>4, Limits
    DEF Send, guardVars, contextVars, treeVars, stopVars, TypeOK, TypeOK2
<1>5. CASE PollLeaves
  BY <1>5, Limits
    DEF PollLeaves, guardVars, contextVars, sessionVars, treeVars, stopVars, TypeOK,
        TypeOK2
<1>6. CASE Brake
  BY <1>6, Limits
    DEF Brake, ClaimTerminal, Armed, guardVars, contextVars, treeVars, TypeOK,
        TypeOK2
<1>7. CASE RetryDead
  BY <1>7, Limits
    DEF RetryDead, guardVars, contextVars, treeVars, stopVars, TypeOK, TypeOK2
<1>8. CASE ConsumeGuard
  BY <1>8, Limits
    DEF ConsumeGuard, Apply, contextVars, sessionVars, treeVars, stopVars, TypeOK,
        TypeOK2
<1>9. CASE GiveUp
  BY <1>9, Limits
    DEF GiveUp, HandleStop, ClaimCancellation, Cancellable, Armed, ClaimContext,
        ClaimTerminal, Apply, guardVars, contextVars, sessionVars, treeVars, TypeOK,
        TypeOK2
<1>10. CASE RetryBroken
  BY <1>10, Limits
    DEF RetryBroken, guardVars, contextVars, sessionVars, treeVars, stopVars,
        TypeOK, TypeOK2
<1>11. CASE Quieten
  BY <1>11, Limits
    DEF Quieten, ClaimCancellation, Cancellable, Armed, guardVars, contextVars,
        treeVars, stopVars, TypeOK, TypeOK2
<1>12. CASE BeginRollover
  BY <1>12, Limits
    DEF BeginRollover, guardVars, sessionVars, treeVars, stopVars, TypeOK, TypeOK2
<1>13. CASE Create
  BY <1>13, Limits
    DEF Create, contextVars, treeVars, stopVars, TypeOK, TypeOK2
<1>14. CASE Publish
  BY <1>14, Limits
    DEF Publish, Cancelled, HandleStop, ClaimCancellation, Cancellable, Armed,
        ClaimContext, guardVars, contextVars, treeVars, TypeOK, TypeOK2
<1>15. CASE Activate
  BY <1>15, Limits
    DEF Activate, Cancelled, HandleStop, ClaimCancellation, Cancellable, Armed,
        ClaimContext, Granted, StartRecovery, contextVars, ActivateRollover,
        guardVars, sessionVars, treeVars, TypeOK, TypeOK2
<1>16. CASE Close
  BY <1>16, Limits
    DEF Close, treeVars, stopVars, TypeOK, TypeOK2
<1>17. CASE Press
  BY <1>17, Limits
    DEF Press, ClaimCancellation, Cancellable, Armed, contextVars, turnVars,
        sessionVars, treeVars, TypeOK, TypeOK2
<1>18. ASSUME NEW place \in {"sending", "ending"},
             Goes(place)
      PROVE  TypeOK2'
  BY <1>18, Limits
    DEF Goes, guardVars, contextVars, sessionVars, treeVars, stopVars, TypeOK,
        TypeOK2
<1>19. ASSUME NEW a \in BOOLEAN, NEW b \in BOOLEAN,
             Arm(a, b)
      PROVE  TypeOK2'
  <2>1. baseline' = (IF a THEN tree ELSE 0) /\ strayed' = FALSE
    BY <1>19 DEF Arm
  <2>2. tree' = tree /\ edits' = edits /\ saves' = saves
    BY <1>19 DEF Arm
  <2>3. tree \in Nat /\ 0 \in 0..tree /\ tree \in 0..tree
    BY Limits DEF TypeOK
  <2>4. baseline' \in 0..tree'
    BY <2>1, <2>2, <2>3
  <2> QED
    BY <2>1, <2>2, <2>4 DEF TypeOK, TypeOK2
<1>20. ASSUME NEW a \in BOOLEAN, NEW b \in BOOLEAN,
             Grant(a, b)
      PROVE  TypeOK2'
  BY <1>20, Limits, SeesValues, StateForValues
    DEF Grant, HandleStop, ClaimCancellation, Cancellable, Armed, ClaimContext,
        Take, guardVars, contextVars, sessionVars, treeVars, TypeOK, TypeOK2
<1>21. ASSUME NEW a \in BOOLEAN,
             JudgeEmpty(a)
      PROVE  TypeOK2'
  BY <1>21, Limits, StateForValues, CompletionValues
    DEF JudgeEmpty, JudgedAs, Completion, Take, Armed, Apply, contextVars,
        sessionVars, treeVars, stopVars, TypeOK, TypeOK2
<1>22. ASSUME NEW a \in BOOLEAN,
             JudgeDone(a)
      PROVE  TypeOK2'
  BY <1>22, Limits, StateForValues, CompletionValues
    DEF JudgeDone, JudgedAs, Completion, Take, Armed, Apply, contextVars,
        sessionVars, treeVars, stopVars, TypeOK, TypeOK2
<1>23. ASSUME NEW a \in BOOLEAN,
             Save(a)
      PROVE  TypeOK2'
  BY <1>23, Limits
    DEF Save, Cancellable, Armed, contextVars, turnVars, sessionVars, stopVars,
        TypeOK, TypeOK2
<1>24. ASSUME NEW r \in Requests,
             AskGuard(r)
      PROVE  TypeOK2'
  BY <1>24, Limits, AskGuardDoes
    DEF GuardLets, GuardDecides, GuardStands, contextVars, turnVars, sessionVars,
        treeVars, stopVars, TypeOK, TypeOK2
<1>25. ASSUME NEW r \in Requests, NEW size \in {"fits", "large", "unmeasured"},
             AskContext(r, size)
      PROVE  TypeOK2'
  BY <1>25, Limits, BreaksValues
    DEF AskContext, Others, turnVars, sessionVars, treeVars, stopVars, At, Refused,
        Moves, guardVars, TypeOK, TypeOK2
<1>26. ASSUME NEW r \in Requests, NEW code \in Codes,
             StreamEnds(r, code)
      PROVE  TypeOK2'
  BY <1>26, Limits
    DEF StreamEnds, Others, turnVars, sessionVars, treeVars, stopVars, At, Refused,
        guardVars, contextVars, TypeOK, TypeOK2
<1>27. ASSUME NEW r \in Requests, NEW a \in BOOLEAN,
             Repeats(r, a)
      PROVE  TypeOK2'
  BY <1>27, Limits, StateForValues, CompletionValues
    DEF Repeats, Completion, Take, Armed, Queued, Others, turnVars, sessionVars,
        treeVars, stopVars, At, Refused, Refusals, contextVars, TypeOK, TypeOK2
<1>28. ASSUME NEW s \in working,
             Edit(s)
      PROVE  TypeOK2'
  BY <1>28, Limits
    DEF Edit, guardVars, contextVars, turnVars, sessionVars, stopVars, TypeOK,
        TypeOK2
<1>29. ASSUME NEW s \in working,
             SessionEnds(s)
      PROVE  TypeOK2'
  BY <1>29, Limits
    DEF SessionEnds, At, guardVars, contextVars, turnVars, treeVars, stopVars,
        TypeOK, TypeOK2
<1>30. CASE UNCHANGED vars
  BY <1>30
    DEF vars, guardVars, contextVars, turnVars, sessionVars, treeVars, stopVars,
        TypeOK, TypeOK2
<1> QED
  BY <1>1, <1>2, <1>3, <1>4, <1>5, <1>6, <1>7, <1>8, <1>9, <1>10, <1>11, <1>12,
      <1>13, <1>14, <1>15, <1>16, <1>17, <1>18, <1>19, <1>20, <1>21, <1>22, <1>23,
      <1>24, <1>25, <1>26, <1>27, <1>28, <1>29, <1>30
    DEF Next, TurnStep, RequestStep, Outside

\* Every step keeps the types of the rollover.
LEMMA TypeStep3 ==
    ASSUME TypeOK, LimitInv, [Next]_vars
    PROVE  TypeOK3'
<1>1. CASE SendStops \/ PollStop \/ LastLook \/ QuietLook \/ AskFresh \/ ConsumeContext
  BY <1>1, Limits
    DEF SendStops, PollStop, LastLook, QuietLook, AskFresh, ConsumeContext,
        HandleStop, ClaimCancellation, Cancellable, Armed, ClaimContext,
        sessionVars, treeVars, guardVars, contextVars, Cancelled, TypeOK, LimitInv,
        TypeOK3
<1>2. ASSUME NEW r \in Requests,
             Arrive(r) \/ ReadBody(r)
      PROVE  TypeOK3'
  BY <1>2, Limits
    DEF Arrive, ReadBody, Others, turnVars, sessionVars, treeVars, stopVars, At,
        guardVars, contextVars, Refused, Moves, Owns, TypeOK, LimitInv, TypeOK3
<1>3. CASE Begin
  BY <1>3, Limits
    DEF Begin, guardVars, contextVars, treeVars, stopVars, TypeOK, LimitInv, TypeOK3
<1>4. CASE Send
  BY <1>4, Limits
    DEF Send, guardVars, contextVars, treeVars, stopVars, TypeOK, LimitInv, TypeOK3
<1>5. CASE PollLeaves
  BY <1>5, Limits
    DEF PollLeaves, guardVars, contextVars, sessionVars, treeVars, stopVars, TypeOK,
        LimitInv, TypeOK3
<1>6. CASE Brake
  BY <1>6, Limits
    DEF Brake, ClaimTerminal, Armed, guardVars, contextVars, treeVars, TypeOK,
        LimitInv, TypeOK3
<1>7. CASE RetryDead
  BY <1>7, Limits
    DEF RetryDead, guardVars, contextVars, treeVars, stopVars, TypeOK, LimitInv,
        TypeOK3
<1>8. CASE ConsumeGuard
  BY <1>8, Limits
    DEF ConsumeGuard, Apply, contextVars, sessionVars, treeVars, stopVars, TypeOK,
        LimitInv, TypeOK3
<1>9. CASE GiveUp
  BY <1>9, Limits
    DEF GiveUp, HandleStop, ClaimCancellation, Cancellable, Armed, ClaimContext,
        ClaimTerminal, Apply, guardVars, contextVars, sessionVars, treeVars, TypeOK,
        LimitInv, TypeOK3
<1>10. CASE RetryBroken
  BY <1>10, Limits
    DEF RetryBroken, guardVars, contextVars, sessionVars, treeVars, stopVars,
        TypeOK, LimitInv, TypeOK3
<1>11. CASE Quieten
  BY <1>11, Limits
    DEF Quieten, ClaimCancellation, Cancellable, Armed, guardVars, contextVars,
        treeVars, stopVars, TypeOK, LimitInv, TypeOK3
<1>12. CASE BeginRollover
  BY <1>12, Limits
    DEF BeginRollover, guardVars, sessionVars, treeVars, stopVars, TypeOK, LimitInv,
        TypeOK3
<1>13. CASE Create
  BY <1>13, Limits
    DEF Create, contextVars, treeVars, stopVars, TypeOK, LimitInv, TypeOK3
<1>14. CASE Publish
  BY <1>14, Limits
    DEF Publish, Cancelled, HandleStop, ClaimCancellation, Cancellable, Armed,
        ClaimContext, guardVars, contextVars, treeVars, TypeOK, LimitInv, TypeOK3
<1>15. CASE Activate
  BY <1>15, Limits
    DEF Activate, Cancelled, HandleStop, ClaimCancellation, Cancellable, Armed,
        ClaimContext, Granted, StartRecovery, contextVars, ActivateRollover,
        guardVars, sessionVars, treeVars, TypeOK, LimitInv, TypeOK3
<1>16. CASE Close
  BY <1>16, Limits
    DEF Close, treeVars, stopVars, TypeOK, LimitInv, TypeOK3
<1>17. CASE Press
  BY <1>17, Limits
    DEF Press, ClaimCancellation, Cancellable, Armed, contextVars, turnVars,
        sessionVars, treeVars, TypeOK, LimitInv, TypeOK3
<1>18. ASSUME NEW place \in {"sending", "ending"},
             Goes(place)
      PROVE  TypeOK3'
  BY <1>18, Limits
    DEF Goes, guardVars, contextVars, sessionVars, treeVars, stopVars, TypeOK,
        LimitInv, TypeOK3
<1>19. ASSUME NEW a \in BOOLEAN, NEW b \in BOOLEAN,
             Arm(a, b)
      PROVE  TypeOK3'
  BY <1>19, Limits
    DEF Arm, sessionVars, stopVars, TypeOK, LimitInv, TypeOK3
<1>20. ASSUME NEW a \in BOOLEAN, NEW b \in BOOLEAN,
             Grant(a, b)
      PROVE  TypeOK3'
  BY <1>20, Limits, SeesValues, StateForValues
    DEF Grant, HandleStop, ClaimCancellation, Cancellable, Armed, ClaimContext,
        Take, guardVars, contextVars, sessionVars, treeVars, TypeOK, LimitInv,
        TypeOK3
<1>21. ASSUME NEW a \in BOOLEAN,
             JudgeEmpty(a)
      PROVE  TypeOK3'
  BY <1>21, Limits, StateForValues, CompletionValues
    DEF JudgeEmpty, JudgedAs, Completion, Take, Armed, Apply, contextVars,
        sessionVars, treeVars, stopVars, TypeOK, LimitInv, TypeOK3
<1>22. ASSUME NEW a \in BOOLEAN,
             JudgeDone(a)
      PROVE  TypeOK3'
  BY <1>22, Limits, StateForValues, CompletionValues
    DEF JudgeDone, JudgedAs, Completion, Take, Armed, Apply, contextVars,
        sessionVars, treeVars, stopVars, TypeOK, LimitInv, TypeOK3
<1>23. ASSUME NEW a \in BOOLEAN,
             Save(a)
      PROVE  TypeOK3'
  BY <1>23, Limits
    DEF Save, Cancellable, Armed, contextVars, turnVars, sessionVars, stopVars,
        TypeOK, LimitInv, TypeOK3
<1>24. ASSUME NEW r \in Requests,
             AskGuard(r)
      PROVE  TypeOK3'
  BY <1>24, Limits, AskGuardDoes
    DEF GuardLets, GuardDecides, GuardStands, contextVars, turnVars, sessionVars,
        treeVars, stopVars, TypeOK, LimitInv, TypeOK3
<1>25. ASSUME NEW r \in Requests, NEW size \in {"fits", "large", "unmeasured"},
             AskContext(r, size)
      PROVE  TypeOK3'
  BY <1>25, Limits, BreaksValues
    DEF AskContext, Others, turnVars, sessionVars, treeVars, stopVars, At, Refused,
        Moves, guardVars, TypeOK, LimitInv, TypeOK3
<1>26. ASSUME NEW r \in Requests, NEW code \in Codes,
             StreamEnds(r, code)
      PROVE  TypeOK3'
  BY <1>26, Limits
    DEF StreamEnds, Others, turnVars, sessionVars, treeVars, stopVars, At, Refused,
        guardVars, contextVars, TypeOK, LimitInv, TypeOK3
<1>27. ASSUME NEW r \in Requests, NEW a \in BOOLEAN,
             Repeats(r, a)
      PROVE  TypeOK3'
  BY <1>27, Limits, StateForValues, CompletionValues
    DEF Repeats, Completion, Take, Armed, Queued, Others, turnVars, sessionVars,
        treeVars, stopVars, At, Refused, Refusals, contextVars, TypeOK, LimitInv,
        TypeOK3
<1>28. ASSUME NEW s \in working,
             Edit(s)
      PROVE  TypeOK3'
  BY <1>28, Limits
    DEF Edit, guardVars, contextVars, turnVars, sessionVars, stopVars, TypeOK,
        LimitInv, TypeOK3
<1>29. ASSUME NEW s \in working,
             SessionEnds(s)
      PROVE  TypeOK3'
  BY <1>29, Limits
    DEF SessionEnds, At, guardVars, contextVars, turnVars, treeVars, stopVars,
        TypeOK, LimitInv, TypeOK3
<1>30. CASE UNCHANGED vars
  BY <1>30
    DEF vars, guardVars, contextVars, turnVars, sessionVars, treeVars, stopVars,
        TypeOK, LimitInv, TypeOK3
<1> QED
  BY <1>1, <1>2, <1>3, <1>4, <1>5, <1>6, <1>7, <1>8, <1>9, <1>10, <1>11, <1>12,
      <1>13, <1>14, <1>15, <1>16, <1>17, <1>18, <1>19, <1>20, <1>21, <1>22, <1>23,
      <1>24, <1>25, <1>26, <1>27, <1>28, <1>29, <1>30
    DEF Next, TurnStep, RequestStep, Outside

\* Every step keeps the types of the sessions.
LEMMA TypeStep4 ==
    ASSUME TypeOK, SessionInv, [Next]_vars
    PROVE  TypeOK4'
<1>1. CASE SendStops \/ PollStop \/ LastLook \/ QuietLook \/ AskFresh \/ ConsumeContext
  BY <1>1, Limits
    DEF SendStops, PollStop, LastLook, QuietLook, AskFresh, ConsumeContext,
        HandleStop, ClaimCancellation, Cancellable, Armed, ClaimContext,
        sessionVars, treeVars, guardVars, contextVars, Cancelled, TypeOK,
        SessionInv, TypeOK4
<1>2. ASSUME NEW r \in Requests,
             Arrive(r) \/ ReadBody(r)
      PROVE  TypeOK4'
  BY <1>2, Limits
    DEF Arrive, ReadBody, Others, turnVars, sessionVars, treeVars, stopVars, At,
        guardVars, contextVars, Refused, Moves, Owns, TypeOK, SessionInv, TypeOK4
<1>3. CASE Begin
  BY <1>3, Limits
    DEF Begin, guardVars, contextVars, treeVars, stopVars, TypeOK, SessionInv,
        TypeOK4
<1>4. CASE Send
  BY <1>4, Limits
    DEF Send, guardVars, contextVars, treeVars, stopVars, TypeOK, SessionInv,
        TypeOK4
<1>5. CASE PollLeaves
  BY <1>5, Limits
    DEF PollLeaves, guardVars, contextVars, sessionVars, treeVars, stopVars, TypeOK,
        SessionInv, TypeOK4
<1>6. CASE Brake
  BY <1>6, Limits
    DEF Brake, ClaimTerminal, Armed, guardVars, contextVars, treeVars, TypeOK,
        SessionInv, TypeOK4
<1>7. CASE RetryDead
  BY <1>7, Limits
    DEF RetryDead, guardVars, contextVars, treeVars, stopVars, TypeOK, SessionInv,
        TypeOK4
<1>8. CASE ConsumeGuard
  BY <1>8, Limits
    DEF ConsumeGuard, Apply, contextVars, sessionVars, treeVars, stopVars, TypeOK,
        SessionInv, TypeOK4
<1>9. CASE GiveUp
  BY <1>9, Limits
    DEF GiveUp, HandleStop, ClaimCancellation, Cancellable, Armed, ClaimContext,
        ClaimTerminal, Apply, guardVars, contextVars, sessionVars, treeVars, TypeOK,
        SessionInv, TypeOK4
<1>10. CASE RetryBroken
  <2>1. CASE pc' = "sending"
    <3>1. born' = born + 1 /\ sid' = born + 1 /\ working' = working \ {sid}
      BY <1>10, <2>1 DEF RetryBroken
    <3>2. born < MaxSessions /\ retired' = retired
      BY <1>10 DEF RetryBroken, contextVars
    <3> QED
      BY <3>1, <3>2, Limits DEF TypeOK, TypeOK4
  <2>2. CASE pc' # "sending"
    BY <1>10, <2>2 DEF RetryBroken, contextVars, sessionVars, TypeOK, TypeOK4
  <2> QED
    BY <2>1, <2>2
<1>11. CASE Quieten
  BY <1>11, Limits
    DEF Quieten, ClaimCancellation, Cancellable, Armed, guardVars, contextVars,
        treeVars, stopVars, TypeOK, SessionInv, TypeOK4
<1>12. CASE BeginRollover
  BY <1>12, Limits
    DEF BeginRollover, guardVars, sessionVars, treeVars, stopVars, TypeOK,
        SessionInv, TypeOK4
<1>13. CASE Create
  BY <1>13, Limits
    DEF Create, contextVars, treeVars, stopVars, TypeOK, SessionInv, TypeOK4
<1>14. CASE Publish
  <2>1. sid' \in {sid, born}
    BY <1>14 DEF Publish
  <2>2. born' = born /\ working' = working /\ retired' = retired
    BY <1>14 DEF Publish, Cancelled, HandleStop, ClaimContext, contextVars
  <2> QED
    BY <2>1, <2>2, Limits DEF TypeOK, TypeOK4
<1>15. CASE Activate
  BY <1>15, Limits
    DEF Activate, Cancelled, HandleStop, ClaimCancellation, Cancellable, Armed,
        ClaimContext, Granted, StartRecovery, contextVars, ActivateRollover,
        guardVars, sessionVars, treeVars, TypeOK, SessionInv, TypeOK4
<1>16. CASE Close
  BY <1>16, Limits
    DEF Close, treeVars, stopVars, TypeOK, SessionInv, TypeOK4
<1>17. CASE Press
  BY <1>17, Limits
    DEF Press, ClaimCancellation, Cancellable, Armed, contextVars, turnVars,
        sessionVars, treeVars, TypeOK, SessionInv, TypeOK4
<1>18. ASSUME NEW place \in {"sending", "ending"},
             Goes(place)
      PROVE  TypeOK4'
  BY <1>18, Limits
    DEF Goes, guardVars, contextVars, sessionVars, treeVars, stopVars, TypeOK,
        SessionInv, TypeOK4
<1>19. ASSUME NEW a \in BOOLEAN, NEW b \in BOOLEAN,
             Arm(a, b)
      PROVE  TypeOK4'
  BY <1>19, Limits
    DEF Arm, sessionVars, stopVars, TypeOK, SessionInv, TypeOK4
<1>20. ASSUME NEW a \in BOOLEAN, NEW b \in BOOLEAN,
             Grant(a, b)
      PROVE  TypeOK4'
  BY <1>20, Limits, SeesValues, StateForValues
    DEF Grant, HandleStop, ClaimCancellation, Cancellable, Armed, ClaimContext,
        Take, guardVars, contextVars, sessionVars, treeVars, TypeOK, SessionInv,
        TypeOK4
<1>21. ASSUME NEW a \in BOOLEAN,
             JudgeEmpty(a)
      PROVE  TypeOK4'
  BY <1>21, Limits, StateForValues, CompletionValues
    DEF JudgeEmpty, JudgedAs, Completion, Take, Armed, Apply, contextVars,
        sessionVars, treeVars, stopVars, TypeOK, SessionInv, TypeOK4
<1>22. ASSUME NEW a \in BOOLEAN,
             JudgeDone(a)
      PROVE  TypeOK4'
  BY <1>22, Limits, StateForValues, CompletionValues
    DEF JudgeDone, JudgedAs, Completion, Take, Armed, Apply, contextVars,
        sessionVars, treeVars, stopVars, TypeOK, SessionInv, TypeOK4
<1>23. ASSUME NEW a \in BOOLEAN,
             Save(a)
      PROVE  TypeOK4'
  BY <1>23, Limits
    DEF Save, Cancellable, Armed, contextVars, turnVars, sessionVars, stopVars,
        TypeOK, SessionInv, TypeOK4
<1>24. ASSUME NEW r \in Requests,
             AskGuard(r)
      PROVE  TypeOK4'
  BY <1>24, Limits, AskGuardDoes
    DEF GuardLets, GuardDecides, GuardStands, contextVars, turnVars, sessionVars,
        treeVars, stopVars, TypeOK, SessionInv, TypeOK4
<1>25. ASSUME NEW r \in Requests, NEW size \in {"fits", "large", "unmeasured"},
             AskContext(r, size)
      PROVE  TypeOK4'
  BY <1>25, Limits, BreaksValues
    DEF AskContext, Others, turnVars, sessionVars, treeVars, stopVars, At, Refused,
        Moves, guardVars, TypeOK, SessionInv, TypeOK4
<1>26. ASSUME NEW r \in Requests, NEW code \in Codes,
             StreamEnds(r, code)
      PROVE  TypeOK4'
  BY <1>26, Limits
    DEF StreamEnds, Others, turnVars, sessionVars, treeVars, stopVars, At, Refused,
        guardVars, contextVars, TypeOK, SessionInv, TypeOK4
<1>27. ASSUME NEW r \in Requests, NEW a \in BOOLEAN,
             Repeats(r, a)
      PROVE  TypeOK4'
  BY <1>27, Limits, StateForValues, CompletionValues
    DEF Repeats, Completion, Take, Armed, Queued, Others, turnVars, sessionVars,
        treeVars, stopVars, At, Refused, Refusals, contextVars, TypeOK, SessionInv,
        TypeOK4
<1>28. ASSUME NEW s \in working,
             Edit(s)
      PROVE  TypeOK4'
  BY <1>28, Limits
    DEF Edit, guardVars, contextVars, turnVars, sessionVars, stopVars, TypeOK,
        SessionInv, TypeOK4
<1>29. ASSUME NEW s \in working,
             SessionEnds(s)
      PROVE  TypeOK4'
  BY <1>29, Limits
    DEF SessionEnds, At, guardVars, contextVars, turnVars, treeVars, stopVars,
        TypeOK, SessionInv, TypeOK4
<1>30. CASE UNCHANGED vars
  BY <1>30
    DEF vars, guardVars, contextVars, turnVars, sessionVars, treeVars, stopVars,
        TypeOK, SessionInv, TypeOK4
<1> QED
  BY <1>1, <1>2, <1>3, <1>4, <1>5, <1>6, <1>7, <1>8, <1>9, <1>10, <1>11, <1>12,
      <1>13, <1>14, <1>15, <1>16, <1>17, <1>18, <1>19, <1>20, <1>21, <1>22, <1>23,
      <1>24, <1>25, <1>26, <1>27, <1>28, <1>29, <1>30
    DEF Next, TurnStep, RequestStep, Outside

\* Every step keeps the types of the turn.
LEMMA TypeStep5 ==
    ASSUME TypeOK, [Next]_vars
    PROVE  TypeOK5'
<1>1. CASE Begin
  BY <1>1, Limits
    DEF Begin, guardVars, contextVars, treeVars, stopVars, TypeOK, TypeOK5, Places
<1>2. CASE SendStops
  BY <1>2, Limits
    DEF SendStops, HandleStop, ClaimCancellation, Cancellable, Armed, ClaimContext,
        sessionVars, treeVars, TypeOK, TypeOK5, Places
<1>3. CASE Send
  BY <1>3, Limits
    DEF Send, guardVars, contextVars, treeVars, stopVars, TypeOK, TypeOK5, Places
<1>4. CASE PollStop
  BY <1>4, Limits
    DEF PollStop, HandleStop, ClaimCancellation, Cancellable, Armed, ClaimContext,
        sessionVars, treeVars, TypeOK, TypeOK5, Places
<1>5. CASE PollLeaves
  BY <1>5, Limits
    DEF PollLeaves, guardVars, contextVars, sessionVars, treeVars, stopVars, TypeOK,
        TypeOK5, Places
<1>6. CASE Brake
  BY <1>6, Limits
    DEF Brake, ClaimTerminal, Armed, guardVars, contextVars, treeVars, TypeOK,
        TypeOK5, Places
<1>7. CASE RetryDead
  BY <1>7, Limits
    DEF RetryDead, guardVars, contextVars, treeVars, stopVars, TypeOK, TypeOK5,
        Places
<1>8. CASE ConsumeGuard
  BY <1>8, Limits
    DEF ConsumeGuard, Apply, contextVars, sessionVars, treeVars, stopVars, TypeOK,
        TypeOK5, Places
<1>9. CASE ConsumeContext
  BY <1>9, Limits
    DEF ConsumeContext, HandleStop, ClaimCancellation, Cancellable, Armed,
        ClaimContext, guardVars, contextVars, sessionVars, treeVars, TypeOK,
        TypeOK5, Places
<1>10. CASE LastLook
  BY <1>10, Limits
    DEF LastLook, HandleStop, ClaimCancellation, Cancellable, Armed, ClaimContext,
        guardVars, contextVars, sessionVars, treeVars, TypeOK, TypeOK5, Places
<1>11. CASE GiveUp
  BY <1>11, Limits
    DEF GiveUp, HandleStop, ClaimCancellation, Cancellable, Armed, ClaimContext,
        ClaimTerminal, Apply, guardVars, contextVars, sessionVars, treeVars, TypeOK,
        TypeOK5, Places
<1>12. CASE RetryBroken
  BY <1>12, Limits
    DEF RetryBroken, guardVars, contextVars, sessionVars, treeVars, stopVars,
        TypeOK, TypeOK5, Places
<1>13. CASE Quieten
  BY <1>13, Limits
    DEF Quieten, ClaimCancellation, Cancellable, Armed, guardVars, contextVars,
        treeVars, stopVars, TypeOK, TypeOK5, Places
<1>14. CASE QuietLook
  BY <1>14, Limits
    DEF QuietLook, HandleStop, ClaimCancellation, Cancellable, Armed, ClaimContext,
        guardVars, contextVars, sessionVars, treeVars, TypeOK, TypeOK5, Places
<1>15. CASE BeginRollover
  BY <1>15, Limits
    DEF BeginRollover, guardVars, sessionVars, treeVars, stopVars, TypeOK, TypeOK5,
        Places
<1>16. CASE AskFresh
  BY <1>16, Limits
    DEF AskFresh, Cancelled, HandleStop, ClaimCancellation, Cancellable, Armed,
        ClaimContext, guardVars, contextVars, sessionVars, treeVars, TypeOK,
        TypeOK5, Places
<1>17. CASE Create
  BY <1>17, Limits
    DEF Create, contextVars, treeVars, stopVars, TypeOK, TypeOK5, Places
<1>18. CASE Publish
  BY <1>18, Limits
    DEF Publish, Cancelled, HandleStop, ClaimCancellation, Cancellable, Armed,
        ClaimContext, guardVars, contextVars, treeVars, TypeOK, TypeOK5, Places
<1>19. CASE Activate
  BY <1>19, Limits
    DEF Activate, Cancelled, HandleStop, ClaimCancellation, Cancellable, Armed,
        ClaimContext, Granted, StartRecovery, contextVars, ActivateRollover,
        guardVars, sessionVars, treeVars, TypeOK, TypeOK5, Places
<1>20. CASE Close
  BY <1>20, Limits
    DEF Close, treeVars, stopVars, TypeOK, TypeOK5, Places
<1>21. CASE Press
  BY <1>21, Limits
    DEF Press, ClaimCancellation, Cancellable, Armed, contextVars, turnVars,
        sessionVars, treeVars, TypeOK, TypeOK5, Places
<1>22. ASSUME NEW place \in {"sending", "ending"},
             Goes(place)
      PROVE  TypeOK5'
  BY <1>22, Limits
    DEF Goes, guardVars, contextVars, sessionVars, treeVars, stopVars, TypeOK,
        TypeOK5, Places
<1>23. ASSUME NEW a \in BOOLEAN, NEW b \in BOOLEAN,
             Arm(a, b)
      PROVE  TypeOK5'
  BY <1>23, Limits
    DEF Arm, sessionVars, stopVars, TypeOK, TypeOK5, Places
<1>24. ASSUME NEW a \in BOOLEAN, NEW b \in BOOLEAN,
             Grant(a, b)
      PROVE  TypeOK5'
  BY <1>24, Limits, SeesValues, StateForValues
    DEF Grant, HandleStop, ClaimCancellation, Cancellable, Armed, ClaimContext,
        Take, guardVars, contextVars, sessionVars, treeVars, TypeOK, TypeOK5, Places
<1>25. ASSUME NEW a \in BOOLEAN,
             JudgeEmpty(a)
      PROVE  TypeOK5'
  BY <1>25, Limits, StateForValues, CompletionValues
    DEF JudgeEmpty, JudgedAs, Completion, Take, Armed, Apply, contextVars,
        sessionVars, treeVars, stopVars, TypeOK, TypeOK5, Places
<1>26. ASSUME NEW a \in BOOLEAN,
             JudgeDone(a)
      PROVE  TypeOK5'
  BY <1>26, Limits, StateForValues, CompletionValues
    DEF JudgeDone, JudgedAs, Completion, Take, Armed, Apply, contextVars,
        sessionVars, treeVars, stopVars, TypeOK, TypeOK5, Places
<1>27. ASSUME NEW a \in BOOLEAN,
             Save(a)
      PROVE  TypeOK5'
  BY <1>27, Limits
    DEF Save, Cancellable, Armed, contextVars, turnVars, sessionVars, stopVars,
        TypeOK, TypeOK5, Places
<1>28. ASSUME NEW r \in Requests,
             Arrive(r)
      PROVE  TypeOK5'
  BY <1>28, Limits
    DEF Arrive, Others, turnVars, sessionVars, treeVars, stopVars, At, guardVars,
        contextVars, TypeOK, TypeOK5, Places
<1>29. ASSUME NEW r \in Requests,
             ReadBody(r)
      PROVE  TypeOK5'
  BY <1>29, Limits
    DEF ReadBody, Others, turnVars, sessionVars, treeVars, stopVars, At, Refused,
        Moves, Owns, guardVars, contextVars, TypeOK, TypeOK5, Places
<1>30. ASSUME NEW r \in Requests,
             AskGuard(r)
      PROVE  TypeOK5'
  BY <1>30, Limits, AskGuardDoes
    DEF GuardLets, GuardDecides, GuardStands, contextVars, turnVars, sessionVars,
        treeVars, stopVars, TypeOK, TypeOK5, Places
<1>31. ASSUME NEW r \in Requests, NEW size \in {"fits", "large", "unmeasured"},
             AskContext(r, size)
      PROVE  TypeOK5'
  BY <1>31, Limits, BreaksValues
    DEF AskContext, Others, turnVars, sessionVars, treeVars, stopVars, At, Refused,
        Moves, guardVars, TypeOK, TypeOK5, Places
<1>32. ASSUME NEW r \in Requests, NEW code \in Codes,
             StreamEnds(r, code)
      PROVE  TypeOK5'
  BY <1>32, Limits
    DEF StreamEnds, Others, turnVars, sessionVars, treeVars, stopVars, At, Refused,
        guardVars, contextVars, TypeOK, TypeOK5, Places
<1>33. ASSUME NEW r \in Requests, NEW a \in BOOLEAN,
             Repeats(r, a)
      PROVE  TypeOK5'
  BY <1>33, Limits, StateForValues, CompletionValues
    DEF Repeats, Completion, Take, Armed, Queued, Others, turnVars, sessionVars,
        treeVars, stopVars, At, Refused, Refusals, contextVars, TypeOK, TypeOK5,
        Places
<1>34. ASSUME NEW s \in working,
             Edit(s)
      PROVE  TypeOK5'
  BY <1>34, Limits
    DEF Edit, guardVars, contextVars, turnVars, sessionVars, stopVars, TypeOK,
        TypeOK5, Places
<1>35. ASSUME NEW s \in working,
             SessionEnds(s)
      PROVE  TypeOK5'
  BY <1>35, Limits
    DEF SessionEnds, At, guardVars, contextVars, turnVars, treeVars, stopVars,
        TypeOK, TypeOK5, Places
<1>36. CASE UNCHANGED vars
  BY <1>36
    DEF vars, guardVars, contextVars, turnVars, sessionVars, treeVars, stopVars,
        TypeOK, TypeOK5, Places
<1> QED
  BY <1>1, <1>2, <1>3, <1>4, <1>5, <1>6, <1>7, <1>8, <1>9, <1>10, <1>11, <1>12,
      <1>13, <1>14, <1>15, <1>16, <1>17, <1>18, <1>19, <1>20, <1>21, <1>22, <1>23,
      <1>24, <1>25, <1>26, <1>27, <1>28, <1>29, <1>30, <1>31, <1>32, <1>33, <1>34,
      <1>35, <1>36
    DEF Next, TurnStep, RequestStep, Outside

\* Every step keeps the types of the requests.
LEMMA TypeStep6 ==
    ASSUME TypeOK, SessionInv, [Next]_vars
    PROVE  TypeOK6'
<1>1. CASE SendStops \/ PollStop \/ LastLook \/ QuietLook \/ AskFresh \/ ConsumeContext
  BY <1>1, Limits
    DEF SendStops, PollStop, LastLook, QuietLook, AskFresh, ConsumeContext,
        HandleStop, ClaimCancellation, Cancellable, Armed, ClaimContext,
        sessionVars, treeVars, guardVars, contextVars, Cancelled, TypeOK,
        SessionInv, TypeOK6, RequestStates, Codes, Idle
<1>2. ASSUME NEW r \in Requests,
             Arrive(r) \/ ReadBody(r)
      PROVE  TypeOK6'
  BY <1>2, Limits
    DEF Arrive, ReadBody, Others, turnVars, sessionVars, treeVars, stopVars, At,
        guardVars, contextVars, Refused, Moves, Owns, TypeOK, SessionInv, TypeOK6,
        RequestStates, Codes, Idle
<1>3. CASE Begin
  BY <1>3, Limits
    DEF Begin, guardVars, contextVars, treeVars, stopVars, TypeOK, SessionInv,
        TypeOK6, RequestStates, Codes, Idle
<1>4. CASE Send
  BY <1>4, Limits
    DEF Send, guardVars, contextVars, treeVars, stopVars, TypeOK, SessionInv,
        TypeOK6, RequestStates, Codes, Idle
<1>5. CASE PollLeaves
  BY <1>5, Limits
    DEF PollLeaves, guardVars, contextVars, sessionVars, treeVars, stopVars, TypeOK,
        SessionInv, TypeOK6, RequestStates, Codes, Idle
<1>6. CASE Brake
  BY <1>6, Limits
    DEF Brake, ClaimTerminal, Armed, guardVars, contextVars, treeVars, TypeOK,
        SessionInv, TypeOK6, RequestStates, Codes, Idle
<1>7. CASE RetryDead
  BY <1>7, Limits
    DEF RetryDead, guardVars, contextVars, treeVars, stopVars, TypeOK, SessionInv,
        TypeOK6, RequestStates, Codes, Idle
<1>8. CASE ConsumeGuard
  BY <1>8, Limits
    DEF ConsumeGuard, Apply, contextVars, sessionVars, treeVars, stopVars, TypeOK,
        SessionInv, TypeOK6, RequestStates, Codes, Idle
<1>9. CASE GiveUp
  BY <1>9, Limits
    DEF GiveUp, HandleStop, ClaimCancellation, Cancellable, Armed, ClaimContext,
        ClaimTerminal, Apply, guardVars, contextVars, sessionVars, treeVars, TypeOK,
        SessionInv, TypeOK6, RequestStates, Codes, Idle
<1>10. CASE RetryBroken
  BY <1>10, Limits
    DEF RetryBroken, guardVars, contextVars, sessionVars, treeVars, stopVars,
        TypeOK, SessionInv, TypeOK6, RequestStates, Codes, Idle
<1>11. CASE Quieten
  BY <1>11, Limits
    DEF Quieten, ClaimCancellation, Cancellable, Armed, guardVars, contextVars,
        treeVars, stopVars, TypeOK, SessionInv, TypeOK6, RequestStates, Codes, Idle
<1>12. CASE BeginRollover
  BY <1>12, Limits
    DEF BeginRollover, guardVars, sessionVars, treeVars, stopVars, TypeOK,
        SessionInv, TypeOK6, RequestStates, Codes, Idle
<1>13. CASE Create
  BY <1>13, Limits
    DEF Create, contextVars, treeVars, stopVars, TypeOK, SessionInv, TypeOK6,
        RequestStates, Codes, Idle
<1>14. CASE Publish
  BY <1>14, Limits
    DEF Publish, Cancelled, HandleStop, ClaimCancellation, Cancellable, Armed,
        ClaimContext, guardVars, contextVars, treeVars, TypeOK, SessionInv, TypeOK6,
        RequestStates, Codes, Idle
<1>15. CASE Activate
  BY <1>15, Limits
    DEF Activate, Cancelled, HandleStop, ClaimCancellation, Cancellable, Armed,
        ClaimContext, Granted, StartRecovery, contextVars, ActivateRollover,
        guardVars, sessionVars, treeVars, TypeOK, SessionInv, TypeOK6,
        RequestStates, Codes, Idle
<1>16. CASE Close
  BY <1>16, Limits
    DEF Close, treeVars, stopVars, TypeOK, SessionInv, TypeOK6, RequestStates,
        Codes, Idle
<1>17. CASE Press
  BY <1>17, Limits
    DEF Press, ClaimCancellation, Cancellable, Armed, contextVars, turnVars,
        sessionVars, treeVars, TypeOK, SessionInv, TypeOK6, RequestStates, Codes,
        Idle
<1>18. ASSUME NEW place \in {"sending", "ending"},
             Goes(place)
      PROVE  TypeOK6'
  BY <1>18, Limits
    DEF Goes, guardVars, contextVars, sessionVars, treeVars, stopVars, TypeOK,
        SessionInv, TypeOK6, RequestStates, Codes, Idle
<1>19. ASSUME NEW a \in BOOLEAN, NEW b \in BOOLEAN,
             Arm(a, b)
      PROVE  TypeOK6'
  BY <1>19, Limits
    DEF Arm, sessionVars, stopVars, TypeOK, SessionInv, TypeOK6, RequestStates,
        Codes, Idle
<1>20. ASSUME NEW a \in BOOLEAN, NEW b \in BOOLEAN,
             Grant(a, b)
      PROVE  TypeOK6'
  BY <1>20, Limits, SeesValues, StateForValues
    DEF Grant, HandleStop, ClaimCancellation, Cancellable, Armed, ClaimContext,
        Take, guardVars, contextVars, sessionVars, treeVars, TypeOK, SessionInv,
        TypeOK6, RequestStates, Codes, Idle
<1>21. ASSUME NEW a \in BOOLEAN,
             JudgeEmpty(a)
      PROVE  TypeOK6'
  BY <1>21, Limits, StateForValues, CompletionValues
    DEF JudgeEmpty, JudgedAs, Completion, Take, Armed, Apply, contextVars,
        sessionVars, treeVars, stopVars, TypeOK, SessionInv, TypeOK6, RequestStates,
        Codes, Idle
<1>22. ASSUME NEW a \in BOOLEAN,
             JudgeDone(a)
      PROVE  TypeOK6'
  BY <1>22, Limits, StateForValues, CompletionValues
    DEF JudgeDone, JudgedAs, Completion, Take, Armed, Apply, contextVars,
        sessionVars, treeVars, stopVars, TypeOK, SessionInv, TypeOK6, RequestStates,
        Codes, Idle
<1>23. ASSUME NEW a \in BOOLEAN,
             Save(a)
      PROVE  TypeOK6'
  BY <1>23, Limits
    DEF Save, Cancellable, Armed, contextVars, turnVars, sessionVars, stopVars,
        TypeOK, SessionInv, TypeOK6, RequestStates, Codes, Idle
<1>24. ASSUME NEW r \in Requests,
             AskGuard(r)
      PROVE  TypeOK6'
  BY <1>24, Limits, SeesValues, StateForValues, VerdictValues
    DEF AskGuard, Others, turnVars, sessionVars, treeVars, stopVars, At,
        AskGuardArmed, Take, Queued, Refused, Armed, Refusals, AskGuardStanding,
        Moves, guardVars, contextVars, TypeOK, SessionInv, TypeOK6, RequestStates,
        Codes, Idle
<1>25. ASSUME NEW r \in Requests, NEW size \in {"fits", "large", "unmeasured"},
             AskContext(r, size)
      PROVE  TypeOK6'
  BY <1>25, Limits, BreaksValues
    DEF AskContext, Others, turnVars, sessionVars, treeVars, stopVars, At, Refused,
        Moves, guardVars, TypeOK, SessionInv, TypeOK6, RequestStates, Codes, Idle
<1>26. ASSUME NEW r \in Requests, NEW code \in Codes,
             StreamEnds(r, code)
      PROVE  TypeOK6'
  BY <1>26, Limits
    DEF StreamEnds, Others, turnVars, sessionVars, treeVars, stopVars, At, Refused,
        guardVars, contextVars, TypeOK, SessionInv, TypeOK6, RequestStates, Codes,
        Idle
<1>27. ASSUME NEW r \in Requests, NEW a \in BOOLEAN,
             Repeats(r, a)
      PROVE  TypeOK6'
  BY <1>27, Limits, StateForValues, CompletionValues
    DEF Repeats, Completion, Take, Armed, Queued, Others, turnVars, sessionVars,
        treeVars, stopVars, At, Refused, Refusals, contextVars, TypeOK, SessionInv,
        TypeOK6, RequestStates, Codes, Idle
<1>28. ASSUME NEW s \in working,
             Edit(s)
      PROVE  TypeOK6'
  BY <1>28, Limits
    DEF Edit, guardVars, contextVars, turnVars, sessionVars, stopVars, TypeOK,
        SessionInv, TypeOK6, RequestStates, Codes, Idle
<1>29. ASSUME NEW s \in working,
             SessionEnds(s)
      PROVE  TypeOK6'
  BY <1>29, Limits
    DEF SessionEnds, At, guardVars, contextVars, turnVars, treeVars, stopVars,
        TypeOK, SessionInv, TypeOK6, RequestStates, Codes, Idle
<1>30. CASE UNCHANGED vars
  BY <1>30
    DEF vars, guardVars, contextVars, turnVars, sessionVars, treeVars, stopVars,
        TypeOK, SessionInv, TypeOK6, RequestStates, Codes, Idle
<1> QED
  BY <1>1, <1>2, <1>3, <1>4, <1>5, <1>6, <1>7, <1>8, <1>9, <1>10, <1>11, <1>12,
      <1>13, <1>14, <1>15, <1>16, <1>17, <1>18, <1>19, <1>20, <1>21, <1>22, <1>23,
      <1>24, <1>25, <1>26, <1>27, <1>28, <1>29, <1>30
    DEF Next, TurnStep, RequestStep, Outside

\* Every step decides on an allowance only where one is left.
LEMMA LimitStep ==
    ASSUME TypeOK, LimitInv, [Next]_vars
    PROVE  LimitInv'
<1>1. CASE SendStops \/ PollStop \/ LastLook \/ QuietLook \/ AskFresh \/ ConsumeContext
  BY <1>1, Limits
    DEF SendStops, PollStop, LastLook, QuietLook, AskFresh, ConsumeContext,
        HandleStop, ClaimCancellation, Cancellable, Armed, ClaimContext,
        sessionVars, treeVars, guardVars, contextVars, Cancelled, TypeOK, LimitInv,
        Refusals
<1>2. ASSUME NEW r \in Requests,
             Arrive(r) \/ ReadBody(r)
      PROVE  LimitInv'
  BY <1>2, Limits
    DEF Arrive, ReadBody, Others, turnVars, sessionVars, treeVars, stopVars, At,
        guardVars, contextVars, Refused, Moves, Owns, TypeOK, LimitInv, Armed,
        Refusals
<1>3. CASE Begin
  BY <1>3, Limits
    DEF Begin, guardVars, contextVars, treeVars, stopVars, TypeOK, LimitInv, Armed,
        Refusals
<1>4. CASE Send
  BY <1>4, Limits
    DEF Send, guardVars, contextVars, treeVars, stopVars, TypeOK, LimitInv, Armed,
        Refusals
<1>5. CASE PollLeaves
  BY <1>5, Limits
    DEF PollLeaves, guardVars, contextVars, sessionVars, treeVars, stopVars, TypeOK,
        LimitInv, Armed, Refusals
<1>6. CASE Brake
  BY <1>6, Limits
    DEF Brake, ClaimTerminal, Armed, guardVars, contextVars, treeVars, TypeOK,
        LimitInv, Refusals
<1>7. CASE RetryDead
  BY <1>7, Limits
    DEF RetryDead, guardVars, contextVars, treeVars, stopVars, TypeOK, LimitInv,
        Armed, Refusals
<1>8. CASE ConsumeGuard
  BY <1>8, Limits
    DEF ConsumeGuard, Apply, contextVars, sessionVars, treeVars, stopVars, TypeOK,
        LimitInv, Armed, Refusals
<1>9. CASE GiveUp
  BY <1>9, Limits
    DEF GiveUp, HandleStop, ClaimCancellation, Cancellable, Armed, ClaimContext,
        ClaimTerminal, Apply, guardVars, contextVars, sessionVars, treeVars, TypeOK,
        LimitInv, Refusals
<1>10. CASE RetryBroken
  BY <1>10, Limits
    DEF RetryBroken, guardVars, contextVars, sessionVars, treeVars, stopVars,
        TypeOK, LimitInv, Armed, Refusals
<1>11. CASE Quieten
  BY <1>11, Limits
    DEF Quieten, ClaimCancellation, Cancellable, Armed, guardVars, contextVars,
        treeVars, stopVars, TypeOK, LimitInv, Refusals
<1>12. CASE BeginRollover
  BY <1>12, Limits
    DEF BeginRollover, guardVars, sessionVars, treeVars, stopVars, TypeOK, LimitInv,
        Armed, Refusals
<1>13. CASE Create
  BY <1>13, Limits
    DEF Create, contextVars, treeVars, stopVars, TypeOK, LimitInv, Armed, Refusals
<1>14. CASE Publish
  BY <1>14, Limits
    DEF Publish, Cancelled, HandleStop, ClaimCancellation, Cancellable, Armed,
        ClaimContext, guardVars, contextVars, treeVars, TypeOK, LimitInv, Refusals
<1>15. CASE Activate
  BY <1>15, Limits
    DEF Activate, Cancelled, HandleStop, ClaimCancellation, Cancellable, Armed,
        ClaimContext, Granted, StartRecovery, contextVars, ActivateRollover,
        guardVars, sessionVars, treeVars, TypeOK, LimitInv, Refusals
<1>16. CASE Close
  BY <1>16, Limits
    DEF Close, treeVars, stopVars, TypeOK, LimitInv, Armed, Refusals
<1>17. CASE Press
  BY <1>17, Limits
    DEF Press, ClaimCancellation, Cancellable, Armed, contextVars, turnVars,
        sessionVars, treeVars, TypeOK, LimitInv, Refusals
<1>18. ASSUME NEW place \in {"sending", "ending"},
             Goes(place)
      PROVE  LimitInv'
  BY <1>18, Limits
    DEF Goes, guardVars, contextVars, sessionVars, treeVars, stopVars, TypeOK,
        LimitInv, Armed, Refusals
<1>19. ASSUME NEW a \in BOOLEAN, NEW b \in BOOLEAN,
             Arm(a, b)
      PROVE  LimitInv'
  BY <1>19, Limits
    DEF Arm, sessionVars, stopVars, TypeOK, LimitInv, Armed, Refusals
<1>20. ASSUME NEW a \in BOOLEAN, NEW b \in BOOLEAN,
             Grant(a, b)
      PROVE  LimitInv'
  BY <1>20, Limits, SeesValues, StateForValues
    DEF Grant, HandleStop, ClaimCancellation, Cancellable, Armed, ClaimContext,
        Take, guardVars, contextVars, sessionVars, treeVars, TypeOK, LimitInv,
        Refusals
<1>21. ASSUME NEW a \in BOOLEAN,
             JudgeEmpty(a)
      PROVE  LimitInv'
  BY <1>21, Limits, StateForValues, CompletionValues
    DEF JudgeEmpty, JudgedAs, Completion, Take, Armed, Apply, contextVars,
        sessionVars, treeVars, stopVars, TypeOK, LimitInv, Refusals
<1>22. ASSUME NEW a \in BOOLEAN,
             JudgeDone(a)
      PROVE  LimitInv'
  BY <1>22, Limits, StateForValues, CompletionValues
    DEF JudgeDone, JudgedAs, Completion, Take, Armed, Apply, contextVars,
        sessionVars, treeVars, stopVars, TypeOK, LimitInv, Refusals
<1>23. ASSUME NEW a \in BOOLEAN,
             Save(a)
      PROVE  LimitInv'
  BY <1>23, Limits
    DEF Save, Cancellable, Armed, contextVars, turnVars, sessionVars, stopVars,
        TypeOK, LimitInv, Refusals
<1>24. ASSUME NEW r \in Requests,
             AskGuard(r)
      PROVE  LimitInv'
  BY <1>24, Limits, AskGuardDoes
    DEF GuardLets, GuardDecides, GuardStands, contextVars, turnVars, sessionVars,
        treeVars, stopVars, TypeOK, LimitInv, Armed, Refusals
<1>25. ASSUME NEW r \in Requests, NEW size \in {"fits", "large", "unmeasured"},
             AskContext(r, size)
      PROVE  LimitInv'
  BY <1>25, Limits, BreaksValues
    DEF AskContext, Others, turnVars, sessionVars, treeVars, stopVars, At, Refused,
        Moves, guardVars, TypeOK, LimitInv, Armed, Refusals
<1>26. ASSUME NEW r \in Requests, NEW code \in Codes,
             StreamEnds(r, code)
      PROVE  LimitInv'
  BY <1>26, Limits
    DEF StreamEnds, Others, turnVars, sessionVars, treeVars, stopVars, At, Refused,
        guardVars, contextVars, TypeOK, LimitInv, Armed, Refusals
<1>27. ASSUME NEW r \in Requests, NEW a \in BOOLEAN,
             Repeats(r, a)
      PROVE  LimitInv'
  BY <1>27, Limits, StateForValues, CompletionValues
    DEF Repeats, Completion, Take, Armed, Queued, Others, turnVars, sessionVars,
        treeVars, stopVars, At, Refused, Refusals, contextVars, TypeOK, LimitInv
<1>28. ASSUME NEW s \in working,
             Edit(s)
      PROVE  LimitInv'
  BY <1>28, Limits
    DEF Edit, guardVars, contextVars, turnVars, sessionVars, stopVars, TypeOK,
        LimitInv, Armed, Refusals
<1>29. ASSUME NEW s \in working,
             SessionEnds(s)
      PROVE  LimitInv'
  BY <1>29, Limits
    DEF SessionEnds, At, guardVars, contextVars, turnVars, treeVars, stopVars,
        TypeOK, LimitInv, Armed, Refusals
<1>30. CASE UNCHANGED vars
  BY <1>30
    DEF vars, guardVars, contextVars, turnVars, sessionVars, treeVars, stopVars,
        TypeOK, LimitInv, Armed, Refusals
<1> QED
  BY <1>1, <1>2, <1>3, <1>4, <1>5, <1>6, <1>7, <1>8, <1>9, <1>10, <1>11, <1>12,
      <1>13, <1>14, <1>15, <1>16, <1>17, <1>18, <1>19, <1>20, <1>21, <1>22, <1>23,
      <1>24, <1>25, <1>26, <1>27, <1>28, <1>29, <1>30
    DEF Next, TurnStep, RequestStep, Outside

\* Every step leaves the turn a session.
LEMMA SessionStep ==
    ASSUME TypeOK, SessionInv, [Next]_vars
    PROVE  SessionInv'
<1>1. CASE SendStops \/ PollStop \/ LastLook \/ QuietLook \/ AskFresh \/ ConsumeContext
  BY <1>1, Limits
    DEF SendStops, PollStop, LastLook, QuietLook, AskFresh, ConsumeContext,
        HandleStop, ClaimCancellation, Cancellable, Armed, ClaimContext,
        sessionVars, treeVars, guardVars, contextVars, Cancelled, TypeOK,
        SessionInv, Places, Replacing
<1>2. ASSUME NEW r \in Requests,
             Arrive(r) \/ ReadBody(r)
      PROVE  SessionInv'
  BY <1>2, Limits
    DEF Arrive, ReadBody, Others, turnVars, sessionVars, treeVars, stopVars, At,
        guardVars, contextVars, Refused, Moves, Owns, TypeOK, SessionInv, Places,
        Replacing
<1>3. CASE Begin
  BY <1>3, Limits
    DEF Begin, guardVars, contextVars, treeVars, stopVars, TypeOK, SessionInv,
        Places, Replacing
<1>4. CASE Send
  BY <1>4, Limits
    DEF Send, guardVars, contextVars, treeVars, stopVars, TypeOK, SessionInv,
        Places, Replacing
<1>5. CASE PollLeaves
  BY <1>5, Limits
    DEF PollLeaves, guardVars, contextVars, sessionVars, treeVars, stopVars, TypeOK,
        SessionInv, Places, Replacing
<1>6. CASE Brake
  BY <1>6, Limits
    DEF Brake, ClaimTerminal, Armed, guardVars, contextVars, treeVars, TypeOK,
        SessionInv, Places, Replacing
<1>7. CASE RetryDead
  BY <1>7, Limits
    DEF RetryDead, guardVars, contextVars, treeVars, stopVars, TypeOK, SessionInv,
        Places, Replacing
<1>8. CASE ConsumeGuard
  BY <1>8, Limits
    DEF ConsumeGuard, Apply, contextVars, sessionVars, treeVars, stopVars, TypeOK,
        SessionInv, Places, Replacing
<1>9. CASE GiveUp
  BY <1>9, Limits
    DEF GiveUp, HandleStop, ClaimCancellation, Cancellable, Armed, ClaimContext,
        ClaimTerminal, Apply, guardVars, contextVars, sessionVars, treeVars, TypeOK,
        SessionInv, Places, Replacing
<1>10. CASE RetryBroken
  BY <1>10, Limits
    DEF RetryBroken, guardVars, contextVars, sessionVars, treeVars, stopVars,
        TypeOK, SessionInv, Places, Replacing
<1>11. CASE Quieten
  BY <1>11, Limits
    DEF Quieten, ClaimCancellation, Cancellable, Armed, guardVars, contextVars,
        treeVars, stopVars, TypeOK, SessionInv, Places, Replacing
<1>12. CASE BeginRollover
  BY <1>12, Limits
    DEF BeginRollover, guardVars, sessionVars, treeVars, stopVars, TypeOK,
        SessionInv, Places, Replacing
<1>13. CASE Create
  BY <1>13, Limits
    DEF Create, contextVars, treeVars, stopVars, TypeOK, SessionInv, Places,
        Replacing
<1>14. CASE Publish
  BY <1>14, Limits
    DEF Publish, Cancelled, HandleStop, ClaimCancellation, Cancellable, Armed,
        ClaimContext, guardVars, contextVars, treeVars, TypeOK, SessionInv, Places,
        Replacing
<1>15. CASE Activate
  BY <1>15, Limits
    DEF Activate, Cancelled, HandleStop, ClaimCancellation, Cancellable, Armed,
        ClaimContext, Granted, StartRecovery, contextVars, ActivateRollover,
        guardVars, sessionVars, treeVars, TypeOK, SessionInv, Places, Replacing
<1>16. CASE Close
  BY <1>16, Limits
    DEF Close, treeVars, stopVars, TypeOK, SessionInv, Places, Replacing
<1>17. CASE Press
  BY <1>17, Limits
    DEF Press, ClaimCancellation, Cancellable, Armed, contextVars, turnVars,
        sessionVars, treeVars, TypeOK, SessionInv, Places, Replacing
<1>18. ASSUME NEW place \in {"sending", "ending"},
             Goes(place)
      PROVE  SessionInv'
  BY <1>18, Limits
    DEF Goes, guardVars, contextVars, sessionVars, treeVars, stopVars, TypeOK,
        SessionInv, Places, Replacing
<1>19. ASSUME NEW a \in BOOLEAN, NEW b \in BOOLEAN,
             Arm(a, b)
      PROVE  SessionInv'
  BY <1>19, Limits
    DEF Arm, sessionVars, stopVars, TypeOK, SessionInv, Places, Replacing
<1>20. ASSUME NEW a \in BOOLEAN, NEW b \in BOOLEAN,
             Grant(a, b)
      PROVE  SessionInv'
  BY <1>20, Limits, SeesValues, StateForValues
    DEF Grant, HandleStop, ClaimCancellation, Cancellable, Armed, ClaimContext,
        Take, guardVars, contextVars, sessionVars, treeVars, TypeOK, SessionInv,
        Places, Replacing
<1>21. ASSUME NEW a \in BOOLEAN,
             JudgeEmpty(a)
      PROVE  SessionInv'
  BY <1>21, Limits, StateForValues, CompletionValues
    DEF JudgeEmpty, JudgedAs, Completion, Take, Armed, Apply, contextVars,
        sessionVars, treeVars, stopVars, TypeOK, SessionInv, Places, Replacing
<1>22. ASSUME NEW a \in BOOLEAN,
             JudgeDone(a)
      PROVE  SessionInv'
  BY <1>22, Limits, StateForValues, CompletionValues
    DEF JudgeDone, JudgedAs, Completion, Take, Armed, Apply, contextVars,
        sessionVars, treeVars, stopVars, TypeOK, SessionInv, Places, Replacing
<1>23. ASSUME NEW a \in BOOLEAN,
             Save(a)
      PROVE  SessionInv'
  BY <1>23, Limits
    DEF Save, Cancellable, Armed, contextVars, turnVars, sessionVars, stopVars,
        TypeOK, SessionInv, Places, Replacing
<1>24. ASSUME NEW r \in Requests,
             AskGuard(r)
      PROVE  SessionInv'
  BY <1>24, Limits, AskGuardDoes
    DEF GuardLets, GuardDecides, GuardStands, contextVars, turnVars, sessionVars,
        treeVars, stopVars, TypeOK, SessionInv, Places, Replacing
<1>25. ASSUME NEW r \in Requests, NEW size \in {"fits", "large", "unmeasured"},
             AskContext(r, size)
      PROVE  SessionInv'
  BY <1>25, Limits, BreaksValues
    DEF AskContext, Others, turnVars, sessionVars, treeVars, stopVars, At, Refused,
        Moves, guardVars, TypeOK, SessionInv, Places, Replacing
<1>26. ASSUME NEW r \in Requests, NEW code \in Codes,
             StreamEnds(r, code)
      PROVE  SessionInv'
  BY <1>26, Limits
    DEF StreamEnds, Others, turnVars, sessionVars, treeVars, stopVars, At, Refused,
        guardVars, contextVars, TypeOK, SessionInv, Places, Replacing
<1>27. ASSUME NEW r \in Requests, NEW a \in BOOLEAN,
             Repeats(r, a)
      PROVE  SessionInv'
  BY <1>27, Limits, StateForValues, CompletionValues
    DEF Repeats, Completion, Take, Armed, Queued, Others, turnVars, sessionVars,
        treeVars, stopVars, At, Refused, Refusals, contextVars, TypeOK, SessionInv,
        Places, Replacing
<1>28. ASSUME NEW s \in working,
             Edit(s)
      PROVE  SessionInv'
  BY <1>28, Limits
    DEF Edit, guardVars, contextVars, turnVars, sessionVars, stopVars, TypeOK,
        SessionInv, Places, Replacing
<1>29. ASSUME NEW s \in working,
             SessionEnds(s)
      PROVE  SessionInv'
  BY <1>29, Limits
    DEF SessionEnds, At, guardVars, contextVars, turnVars, treeVars, stopVars,
        TypeOK, SessionInv, Places, Replacing
<1>30. CASE UNCHANGED vars
  BY <1>30
    DEF vars, guardVars, contextVars, turnVars, sessionVars, treeVars, stopVars,
        TypeOK, SessionInv, Places, Replacing
<1> QED
  BY <1>1, <1>2, <1>3, <1>4, <1>5, <1>6, <1>7, <1>8, <1>9, <1>10, <1>11, <1>12,
      <1>13, <1>14, <1>15, <1>16, <1>17, <1>18, <1>19, <1>20, <1>21, <1>22, <1>23,
      <1>24, <1>25, <1>26, <1>27, <1>28, <1>29, <1>30
    DEF Next, TurnStep, RequestStep, Outside

\* No step spends more than the budget.
LEMMA BudgetStep ==
    ASSUME TypeOK, BudgetInv, [Next]_vars
    PROVE  BudgetInv'
<1>1. CASE Begin \/ SendStops \/ PollStop \/ LastLook \/ QuietLook \/ AskFresh \/ ConsumeContext
  BY <1>1, Limits, OneMore
    DEF Begin, SendStops, PollStop, LastLook, QuietLook, AskFresh, ConsumeContext,
        guardVars, contextVars, treeVars, stopVars, HandleStop, ClaimCancellation,
        Cancellable, Armed, ClaimContext, sessionVars, Cancelled, TypeOK, BudgetInv,
        BudgetKept, Refusals
<1>2. CASE Send \/ PollLeaves \/ RetryDead \/ BeginRollover \/ RetryBroken
  BY <1>2, Limits, OneMore
    DEF Send, PollLeaves, RetryDead, BeginRollover, RetryBroken, guardVars,
        contextVars, treeVars, stopVars, sessionVars, TypeOK, BudgetInv, BudgetKept,
        Armed, Refusals
<1>3. ASSUME NEW r \in Requests,
             Arrive(r) \/ ReadBody(r)
      PROVE  BudgetInv'
  BY <1>3, Limits, OneMore
    DEF Arrive, ReadBody, Others, turnVars, sessionVars, treeVars, stopVars, At,
        guardVars, contextVars, Refused, Moves, Owns, TypeOK, BudgetInv, BudgetKept,
        Armed, Refusals
<1>4. ASSUME NEW s \in working,
             Edit(s) \/ SessionEnds(s)
      PROVE  BudgetInv'
  BY <1>4, Limits, OneMore
    DEF Edit, SessionEnds, guardVars, contextVars, turnVars, sessionVars, stopVars,
        At, treeVars, TypeOK, BudgetInv, BudgetKept, Armed, Refusals
<1>5. CASE Brake
  BY <1>5, Limits, OneMore
    DEF Brake, ClaimTerminal, Armed, guardVars, contextVars, treeVars, TypeOK,
        BudgetInv, BudgetKept, Refusals
<1>6. CASE ConsumeGuard
  BY <1>6, Limits, OneMore
    DEF ConsumeGuard, Apply, contextVars, sessionVars, treeVars, stopVars, TypeOK,
        BudgetInv, BudgetKept, Armed, Refusals
<1>7. CASE GiveUp
  BY <1>7, Limits, OneMore
    DEF GiveUp, HandleStop, ClaimCancellation, Cancellable, Armed, ClaimContext,
        ClaimTerminal, Apply, guardVars, contextVars, sessionVars, treeVars, TypeOK,
        BudgetInv, BudgetKept, Refusals
<1>8. CASE Quieten
  BY <1>8, Limits, OneMore
    DEF Quieten, ClaimCancellation, Cancellable, Armed, guardVars, contextVars,
        treeVars, stopVars, TypeOK, BudgetInv, BudgetKept, Refusals
<1>9. CASE Create
  BY <1>9, Limits, OneMore
    DEF Create, contextVars, treeVars, stopVars, TypeOK, BudgetInv, BudgetKept,
        Armed, Refusals
<1>10. CASE Publish
  BY <1>10, Limits, OneMore
    DEF Publish, Cancelled, HandleStop, ClaimCancellation, Cancellable, Armed,
        ClaimContext, guardVars, contextVars, treeVars, TypeOK, BudgetInv,
        BudgetKept, Refusals
<1>11. CASE Activate
  BY <1>11, Limits, OneMore
    DEF Activate, Cancelled, HandleStop, ClaimCancellation, Cancellable, Armed,
        ClaimContext, Granted, StartRecovery, contextVars, ActivateRollover,
        guardVars, sessionVars, treeVars, TypeOK, BudgetInv, BudgetKept, Refusals
<1>12. CASE Close
  BY <1>12, Limits, OneMore
    DEF Close, treeVars, stopVars, TypeOK, BudgetInv, BudgetKept, Armed, Refusals
<1>13. CASE Press
  BY <1>13, Limits, OneMore
    DEF Press, ClaimCancellation, Cancellable, Armed, contextVars, turnVars,
        sessionVars, treeVars, TypeOK, BudgetInv, BudgetKept, Refusals
<1>14. ASSUME NEW place \in {"sending", "ending"},
             Goes(place)
      PROVE  BudgetInv'
  BY <1>14, Limits, OneMore
    DEF Goes, guardVars, contextVars, sessionVars, treeVars, stopVars, TypeOK,
        BudgetInv, BudgetKept, Armed, Refusals
<1>15. ASSUME NEW a \in BOOLEAN, NEW b \in BOOLEAN,
             Arm(a, b)
      PROVE  BudgetInv'
  BY <1>15, Limits, OneMore
    DEF Arm, sessionVars, stopVars, TypeOK, BudgetInv, BudgetKept, Armed, Refusals
<1>16. ASSUME NEW a \in BOOLEAN, NEW b \in BOOLEAN,
             Grant(a, b)
      PROVE  BudgetInv'
  BY <1>16, Limits, SeesValues, StateForValues, OneMore
    DEF Grant, HandleStop, ClaimCancellation, Cancellable, Armed, ClaimContext,
        Take, guardVars, contextVars, sessionVars, treeVars, TypeOK, BudgetInv,
        BudgetKept, Refusals
<1>17. ASSUME NEW a \in BOOLEAN,
             JudgeEmpty(a)
      PROVE  BudgetInv'
  BY <1>17, Limits, StateForValues, CompletionValues, OneMore
    DEF JudgeEmpty, JudgedAs, Completion, Take, Armed, Apply, contextVars,
        sessionVars, treeVars, stopVars, TypeOK, BudgetInv, BudgetKept, Refusals
<1>18. ASSUME NEW a \in BOOLEAN,
             JudgeDone(a)
      PROVE  BudgetInv'
  BY <1>18, Limits, StateForValues, CompletionValues, OneMore
    DEF JudgeDone, JudgedAs, Completion, Take, Armed, Apply, contextVars,
        sessionVars, treeVars, stopVars, TypeOK, BudgetInv, BudgetKept, Refusals
<1>19. ASSUME NEW a \in BOOLEAN,
             Save(a)
      PROVE  BudgetInv'
  BY <1>19, Limits, OneMore
    DEF Save, Cancellable, Armed, contextVars, turnVars, sessionVars, stopVars,
        TypeOK, BudgetInv, BudgetKept, Refusals
<1>20. ASSUME NEW r \in Requests,
             AskGuard(r)
      PROVE  BudgetInv'
  BY <1>20, Limits, AskGuardDoes, OneMore
    DEF GuardLets, GuardDecides, GuardStands, contextVars, turnVars, sessionVars,
        treeVars, stopVars, TypeOK, BudgetInv, BudgetKept, Armed, Refusals
<1>21. ASSUME NEW r \in Requests, NEW size \in {"fits", "large", "unmeasured"},
             AskContext(r, size)
      PROVE  BudgetInv'
  BY <1>21, Limits, BreaksValues, OneMore
    DEF AskContext, Others, turnVars, sessionVars, treeVars, stopVars, At, Refused,
        Moves, guardVars, TypeOK, BudgetInv, BudgetKept, Armed, Refusals
<1>22. ASSUME NEW r \in Requests, NEW code \in Codes,
             StreamEnds(r, code)
      PROVE  BudgetInv'
  BY <1>22, Limits, OneMore
    DEF StreamEnds, Others, turnVars, sessionVars, treeVars, stopVars, At, Refused,
        guardVars, contextVars, TypeOK, BudgetInv, BudgetKept, Armed, Refusals
<1>23. ASSUME NEW r \in Requests, NEW a \in BOOLEAN,
             Repeats(r, a)
      PROVE  BudgetInv'
  BY <1>23, Limits, StateForValues, CompletionValues, OneMore
    DEF Repeats, Completion, Take, Armed, Queued, Others, turnVars, sessionVars,
        treeVars, stopVars, At, Refused, Refusals, contextVars, TypeOK, BudgetInv,
        BudgetKept
<1>24. CASE UNCHANGED vars
  BY <1>24
    DEF vars, guardVars, contextVars, turnVars, sessionVars, treeVars, stopVars,
        TypeOK, BudgetInv, BudgetKept, Armed, Refusals
<1> QED
  BY <1>1, <1>2, <1>3, <1>4, <1>5, <1>6, <1>7, <1>8, <1>9, <1>10, <1>11, <1>12,
      <1>13, <1>14, <1>15, <1>16, <1>17, <1>18, <1>19, <1>20, <1>21, <1>22, <1>23,
      <1>24
    DEF Next, TurnStep, RequestStep, Outside

\* A recovery that is carried out was consumed; no other decision is dropped.
LEMMA ChosenStep ==
    ASSUME TypeOK, ChosenInv, DecisionHeard, [Next]_vars
    PROVE  ChosenInv'
<1>1. ASSUME NEW r \in Requests,
             Arrive(r) \/ ReadBody(r)
      PROVE  ChosenInv'
  BY <1>1, Limits
    DEF Arrive, ReadBody, Others, turnVars, sessionVars, treeVars, stopVars, At,
        guardVars, contextVars, Refused, Moves, Owns, TypeOK, ChosenInv,
        DecisionHeard, Moving, Listening, Armed, Refusals, Replacing
<1>2. CASE Begin
  BY <1>2, Limits
    DEF Begin, guardVars, contextVars, treeVars, stopVars, TypeOK, ChosenInv,
        DecisionHeard, Moving, Listening, Armed, Refusals, Replacing
<1>3. CASE SendStops
  BY <1>3, Limits
    DEF SendStops, HandleStop, ClaimCancellation, Cancellable, Armed, ClaimContext,
        sessionVars, treeVars, TypeOK, ChosenInv, DecisionHeard, Moving, Listening,
        Refusals, Replacing
<1>4. CASE Send
  BY <1>4, Limits
    DEF Send, guardVars, contextVars, treeVars, stopVars, TypeOK, ChosenInv,
        DecisionHeard, Moving, Listening, Armed, Refusals, Replacing
<1>5. CASE PollStop
  BY <1>5, Limits
    DEF PollStop, HandleStop, ClaimCancellation, Cancellable, Armed, ClaimContext,
        sessionVars, treeVars, TypeOK, ChosenInv, DecisionHeard, Moving, Listening,
        Refusals, Replacing
<1>6. CASE PollLeaves
  BY <1>6, Limits
    DEF PollLeaves, guardVars, contextVars, sessionVars, treeVars, stopVars, TypeOK,
        ChosenInv, DecisionHeard, Moving, Listening, Armed, Refusals, Replacing
<1>7. CASE Brake
  BY <1>7, Limits
    DEF Brake, ClaimTerminal, Armed, guardVars, contextVars, treeVars, TypeOK,
        ChosenInv, DecisionHeard, Moving, Listening, Refusals, Replacing
<1>8. CASE RetryDead
  BY <1>8, Limits
    DEF RetryDead, guardVars, contextVars, treeVars, stopVars, TypeOK, ChosenInv,
        DecisionHeard, Moving, Listening, Armed, Refusals, Replacing
<1>9. CASE ConsumeGuard
  BY <1>9, Limits
    DEF ConsumeGuard, Apply, contextVars, sessionVars, treeVars, stopVars, TypeOK,
        ChosenInv, DecisionHeard, Moving, Listening, Armed, Refusals, Replacing
<1>10. CASE ConsumeContext
  BY <1>10, Limits
    DEF ConsumeContext, HandleStop, ClaimCancellation, Cancellable, Armed,
        ClaimContext, guardVars, contextVars, sessionVars, treeVars, TypeOK,
        ChosenInv, DecisionHeard, Moving, Listening, Refusals, Replacing
<1>11. CASE LastLook
  BY <1>11, Limits
    DEF LastLook, HandleStop, ClaimCancellation, Cancellable, Armed, ClaimContext,
        guardVars, contextVars, sessionVars, treeVars, TypeOK, ChosenInv,
        DecisionHeard, Moving, Listening, Refusals, Replacing
<1>12. CASE GiveUp
  BY <1>12, Limits
    DEF GiveUp, HandleStop, ClaimCancellation, Cancellable, Armed, ClaimContext,
        ClaimTerminal, Apply, guardVars, contextVars, sessionVars, treeVars, TypeOK,
        ChosenInv, DecisionHeard, Moving, Listening, Refusals, Replacing
<1>13. CASE RetryBroken
  BY <1>13, Limits
    DEF RetryBroken, guardVars, contextVars, sessionVars, treeVars, stopVars,
        TypeOK, ChosenInv, DecisionHeard, Moving, Listening, Armed, Refusals,
        Replacing
<1>14. CASE Quieten
  BY <1>14, Limits
    DEF Quieten, ClaimCancellation, Cancellable, Armed, guardVars, contextVars,
        treeVars, stopVars, TypeOK, ChosenInv, DecisionHeard, Moving, Listening,
        Refusals, Replacing
<1>15. CASE QuietLook
  BY <1>15, Limits
    DEF QuietLook, HandleStop, ClaimCancellation, Cancellable, Armed, ClaimContext,
        guardVars, contextVars, sessionVars, treeVars, TypeOK, ChosenInv,
        DecisionHeard, Moving, Listening, Refusals, Replacing
<1>16. CASE BeginRollover
  BY <1>16, Limits
    DEF BeginRollover, guardVars, sessionVars, treeVars, stopVars, TypeOK,
        ChosenInv, DecisionHeard, Moving, Listening, Armed, Refusals, Replacing
<1>17. CASE AskFresh
  BY <1>17, Limits
    DEF AskFresh, Cancelled, HandleStop, ClaimCancellation, Cancellable, Armed,
        ClaimContext, guardVars, contextVars, sessionVars, treeVars, TypeOK,
        ChosenInv, DecisionHeard, Moving, Listening, Refusals, Replacing
<1>18. CASE Create
  BY <1>18, Limits
    DEF Create, contextVars, treeVars, stopVars, TypeOK, ChosenInv, DecisionHeard,
        Moving, Listening, Armed, Refusals, Replacing
<1>19. CASE Publish
  BY <1>19, Limits
    DEF Publish, Cancelled, HandleStop, ClaimCancellation, Cancellable, Armed,
        ClaimContext, guardVars, contextVars, treeVars, TypeOK, ChosenInv,
        DecisionHeard, Moving, Listening, Refusals, Replacing
<1>20. CASE Activate
  BY <1>20, Limits
    DEF Activate, Cancelled, HandleStop, ClaimCancellation, Cancellable, Armed,
        ClaimContext, Granted, StartRecovery, contextVars, ActivateRollover,
        guardVars, sessionVars, treeVars, TypeOK, ChosenInv, DecisionHeard, Moving,
        Listening, Refusals, Replacing
<1>21. CASE Close
  BY <1>21, Limits
    DEF Close, treeVars, stopVars, TypeOK, ChosenInv, DecisionHeard, Moving,
        Listening, Armed, Refusals, Replacing
<1>22. CASE Press
  BY <1>22, Limits
    DEF Press, ClaimCancellation, Cancellable, Armed, contextVars, turnVars,
        sessionVars, treeVars, TypeOK, ChosenInv, DecisionHeard, Moving, Listening,
        Refusals, Replacing
<1>23. ASSUME NEW place \in {"sending", "ending"},
             Goes(place)
      PROVE  ChosenInv'
  BY <1>23, Limits
    DEF Goes, guardVars, contextVars, sessionVars, treeVars, stopVars, TypeOK,
        ChosenInv, DecisionHeard, Moving, Listening, Armed, Refusals, Replacing
<1>24. ASSUME NEW a \in BOOLEAN, NEW b \in BOOLEAN,
             Arm(a, b)
      PROVE  ChosenInv'
  BY <1>24, Limits
    DEF Arm, sessionVars, stopVars, TypeOK, ChosenInv, DecisionHeard, Moving,
        Listening, Armed, Refusals, Replacing
<1>25. ASSUME NEW a \in BOOLEAN, NEW b \in BOOLEAN,
             Grant(a, b)
      PROVE  ChosenInv'
  BY <1>25, Limits, SeesValues, StateForValues
    DEF Grant, HandleStop, ClaimCancellation, Cancellable, Armed, ClaimContext,
        Take, guardVars, contextVars, sessionVars, treeVars, TypeOK, ChosenInv,
        DecisionHeard, Moving, Listening, Refusals, Replacing
<1>26. ASSUME NEW a \in BOOLEAN,
             JudgeEmpty(a)
      PROVE  ChosenInv'
  BY <1>26, Limits, StateForValues, CompletionValues
    DEF JudgeEmpty, JudgedAs, Completion, Take, Armed, Apply, contextVars,
        sessionVars, treeVars, stopVars, TypeOK, ChosenInv, DecisionHeard, Moving,
        Listening, Refusals, Replacing
<1>27. ASSUME NEW a \in BOOLEAN,
             JudgeDone(a)
      PROVE  ChosenInv'
  BY <1>27, Limits, StateForValues, CompletionValues
    DEF JudgeDone, JudgedAs, Completion, Take, Armed, Apply, contextVars,
        sessionVars, treeVars, stopVars, TypeOK, ChosenInv, DecisionHeard, Moving,
        Listening, Refusals, Replacing
<1>28. ASSUME NEW a \in BOOLEAN,
             Save(a)
      PROVE  ChosenInv'
  BY <1>28, Limits
    DEF Save, Cancellable, Armed, contextVars, turnVars, sessionVars, stopVars,
        TypeOK, ChosenInv, DecisionHeard, Moving, Listening, Refusals, Replacing
<1>29. ASSUME NEW r \in Requests,
             AskGuard(r)
      PROVE  ChosenInv'
  BY <1>29, Limits, AskGuardDoes
    DEF GuardLets, GuardDecides, GuardStands, contextVars, turnVars, sessionVars,
        treeVars, stopVars, TypeOK, ChosenInv, DecisionHeard, Moving, Listening,
        Armed, Refusals, Replacing
<1>30. ASSUME NEW r \in Requests, NEW size \in {"fits", "large", "unmeasured"},
             AskContext(r, size)
      PROVE  ChosenInv'
  BY <1>30, Limits, BreaksValues
    DEF AskContext, Others, turnVars, sessionVars, treeVars, stopVars, At, Refused,
        Moves, guardVars, TypeOK, ChosenInv, DecisionHeard, Moving, Listening,
        Armed, Refusals, Replacing
<1>31. ASSUME NEW r \in Requests, NEW code \in Codes,
             StreamEnds(r, code)
      PROVE  ChosenInv'
  BY <1>31, Limits
    DEF StreamEnds, Others, turnVars, sessionVars, treeVars, stopVars, At, Refused,
        guardVars, contextVars, TypeOK, ChosenInv, DecisionHeard, Moving, Listening,
        Armed, Refusals, Replacing
<1>32. ASSUME NEW r \in Requests, NEW a \in BOOLEAN,
             Repeats(r, a)
      PROVE  ChosenInv'
  BY <1>32, Limits, StateForValues, CompletionValues
    DEF Repeats, Completion, Take, Armed, Queued, Others, turnVars, sessionVars,
        treeVars, stopVars, At, Refused, Refusals, contextVars, TypeOK, ChosenInv,
        DecisionHeard, Moving, Listening, Replacing
<1>33. ASSUME NEW s \in working,
             Edit(s)
      PROVE  ChosenInv'
  BY <1>33, Limits
    DEF Edit, guardVars, contextVars, turnVars, sessionVars, stopVars, TypeOK,
        ChosenInv, DecisionHeard, Moving, Listening, Armed, Refusals, Replacing
<1>34. ASSUME NEW s \in working,
             SessionEnds(s)
      PROVE  ChosenInv'
  BY <1>34, Limits
    DEF SessionEnds, At, guardVars, contextVars, turnVars, treeVars, stopVars,
        TypeOK, ChosenInv, DecisionHeard, Moving, Listening, Armed, Refusals,
        Replacing
<1>35. CASE UNCHANGED vars
  BY <1>35
    DEF vars, guardVars, contextVars, turnVars, sessionVars, treeVars, stopVars,
        TypeOK, ChosenInv, DecisionHeard, Moving, Listening, Armed, Refusals,
        Replacing
<1> QED
  BY <1>1, <1>2, <1>3, <1>4, <1>5, <1>6, <1>7, <1>8, <1>9, <1>10, <1>11, <1>12,
      <1>13, <1>14, <1>15, <1>16, <1>17, <1>18, <1>19, <1>20, <1>21, <1>22, <1>23,
      <1>24, <1>25, <1>26, <1>27, <1>28, <1>29, <1>30, <1>31, <1>32, <1>33, <1>34,
      <1>35
    DEF Next, TurnStep, RequestStep, Outside

\* No decision of the guard is lost or made up.
LEMMA HeardStep ==
    ASSUME TypeOK, ChosenInv, DecisionHeard, [Next]_vars
    PROVE  DecisionHeard'
<1>1. ASSUME NEW r \in Requests,
             Arrive(r) \/ ReadBody(r)
      PROVE  DecisionHeard'
  BY <1>1, Limits
    DEF Arrive, ReadBody, Others, turnVars, sessionVars, treeVars, stopVars, At,
        guardVars, contextVars, Refused, Moves, Owns, TypeOK, ChosenInv,
        DecisionHeard, Moving, Listening, Armed, Refusals, Replacing
<1>2. CASE Begin
  BY <1>2, Limits
    DEF Begin, guardVars, contextVars, treeVars, stopVars, TypeOK, ChosenInv,
        DecisionHeard, Moving, Listening, Armed, Refusals, Replacing
<1>3. CASE SendStops
  BY <1>3, Limits
    DEF SendStops, HandleStop, ClaimCancellation, Cancellable, Armed, ClaimContext,
        sessionVars, treeVars, TypeOK, ChosenInv, DecisionHeard, Moving, Listening,
        Refusals, Replacing
<1>4. CASE Send
  BY <1>4, Limits
    DEF Send, guardVars, contextVars, treeVars, stopVars, TypeOK, ChosenInv,
        DecisionHeard, Moving, Listening, Armed, Refusals, Replacing
<1>5. CASE PollStop
  BY <1>5, Limits
    DEF PollStop, HandleStop, ClaimCancellation, Cancellable, Armed, ClaimContext,
        sessionVars, treeVars, TypeOK, ChosenInv, DecisionHeard, Moving, Listening,
        Refusals, Replacing
<1>6. CASE PollLeaves
  BY <1>6, Limits
    DEF PollLeaves, guardVars, contextVars, sessionVars, treeVars, stopVars, TypeOK,
        ChosenInv, DecisionHeard, Moving, Listening, Armed, Refusals, Replacing
<1>7. CASE Brake
  BY <1>7, Limits
    DEF Brake, ClaimTerminal, Armed, guardVars, contextVars, treeVars, TypeOK,
        ChosenInv, DecisionHeard, Moving, Listening, Refusals, Replacing
<1>8. CASE RetryDead
  BY <1>8, Limits
    DEF RetryDead, guardVars, contextVars, treeVars, stopVars, TypeOK, ChosenInv,
        DecisionHeard, Moving, Listening, Armed, Refusals, Replacing
<1>9. CASE ConsumeGuard
  BY <1>9, Limits
    DEF ConsumeGuard, Apply, contextVars, sessionVars, treeVars, stopVars, TypeOK,
        ChosenInv, DecisionHeard, Moving, Listening, Armed, Refusals, Replacing
<1>10. CASE ConsumeContext
  BY <1>10, Limits
    DEF ConsumeContext, HandleStop, ClaimCancellation, Cancellable, Armed,
        ClaimContext, guardVars, contextVars, sessionVars, treeVars, TypeOK,
        ChosenInv, DecisionHeard, Moving, Listening, Refusals, Replacing
<1>11. CASE LastLook
  BY <1>11, Limits
    DEF LastLook, HandleStop, ClaimCancellation, Cancellable, Armed, ClaimContext,
        guardVars, contextVars, sessionVars, treeVars, TypeOK, ChosenInv,
        DecisionHeard, Moving, Listening, Refusals, Replacing
<1>12. CASE GiveUp
  BY <1>12, Limits
    DEF GiveUp, HandleStop, ClaimCancellation, Cancellable, Armed, ClaimContext,
        ClaimTerminal, Apply, guardVars, contextVars, sessionVars, treeVars, TypeOK,
        ChosenInv, DecisionHeard, Moving, Listening, Refusals, Replacing
<1>13. CASE RetryBroken
  BY <1>13, Limits
    DEF RetryBroken, guardVars, contextVars, sessionVars, treeVars, stopVars,
        TypeOK, ChosenInv, DecisionHeard, Moving, Listening, Armed, Refusals,
        Replacing
<1>14. CASE Quieten
  BY <1>14, Limits
    DEF Quieten, ClaimCancellation, Cancellable, Armed, guardVars, contextVars,
        treeVars, stopVars, TypeOK, ChosenInv, DecisionHeard, Moving, Listening,
        Refusals, Replacing
<1>15. CASE QuietLook
  BY <1>15, Limits
    DEF QuietLook, HandleStop, ClaimCancellation, Cancellable, Armed, ClaimContext,
        guardVars, contextVars, sessionVars, treeVars, TypeOK, ChosenInv,
        DecisionHeard, Moving, Listening, Refusals, Replacing
<1>16. CASE BeginRollover
  BY <1>16, Limits
    DEF BeginRollover, guardVars, sessionVars, treeVars, stopVars, TypeOK,
        ChosenInv, DecisionHeard, Moving, Listening, Armed, Refusals, Replacing
<1>17. CASE AskFresh
  BY <1>17, Limits
    DEF AskFresh, Cancelled, HandleStop, ClaimCancellation, Cancellable, Armed,
        ClaimContext, guardVars, contextVars, sessionVars, treeVars, TypeOK,
        ChosenInv, DecisionHeard, Moving, Listening, Refusals, Replacing
<1>18. CASE Create
  BY <1>18, Limits
    DEF Create, contextVars, treeVars, stopVars, TypeOK, ChosenInv, DecisionHeard,
        Moving, Listening, Armed, Refusals, Replacing
<1>19. CASE Publish
  BY <1>19, Limits
    DEF Publish, Cancelled, HandleStop, ClaimCancellation, Cancellable, Armed,
        ClaimContext, guardVars, contextVars, treeVars, TypeOK, ChosenInv,
        DecisionHeard, Moving, Listening, Refusals, Replacing
<1>20. CASE Activate
  BY <1>20, Limits
    DEF Activate, Cancelled, HandleStop, ClaimCancellation, Cancellable, Armed,
        ClaimContext, Granted, StartRecovery, contextVars, ActivateRollover,
        guardVars, sessionVars, treeVars, TypeOK, ChosenInv, DecisionHeard, Moving,
        Listening, Refusals, Replacing
<1>21. CASE Close
  BY <1>21, Limits
    DEF Close, treeVars, stopVars, TypeOK, ChosenInv, DecisionHeard, Moving,
        Listening, Armed, Refusals, Replacing
<1>22. CASE Press
  BY <1>22, Limits
    DEF Press, ClaimCancellation, Cancellable, Armed, contextVars, turnVars,
        sessionVars, treeVars, TypeOK, ChosenInv, DecisionHeard, Moving, Listening,
        Refusals, Replacing
<1>23. ASSUME NEW place \in {"sending", "ending"},
             Goes(place)
      PROVE  DecisionHeard'
  BY <1>23, Limits
    DEF Goes, guardVars, contextVars, sessionVars, treeVars, stopVars, TypeOK,
        ChosenInv, DecisionHeard, Moving, Listening, Armed, Refusals, Replacing
<1>24. ASSUME NEW a \in BOOLEAN, NEW b \in BOOLEAN,
             Arm(a, b)
      PROVE  DecisionHeard'
  BY <1>24, Limits
    DEF Arm, sessionVars, stopVars, TypeOK, ChosenInv, DecisionHeard, Moving,
        Listening, Armed, Refusals, Replacing
<1>25. ASSUME NEW a \in BOOLEAN, NEW b \in BOOLEAN,
             Grant(a, b)
      PROVE  DecisionHeard'
  BY <1>25, Limits, SeesValues, StateForValues
    DEF Grant, HandleStop, ClaimCancellation, Cancellable, Armed, ClaimContext,
        Take, guardVars, contextVars, sessionVars, treeVars, TypeOK, ChosenInv,
        DecisionHeard, Moving, Listening, Refusals, Replacing
<1>26. ASSUME NEW a \in BOOLEAN,
             JudgeEmpty(a)
      PROVE  DecisionHeard'
  BY <1>26, Limits, StateForValues, CompletionValues
    DEF JudgeEmpty, JudgedAs, Completion, Take, Armed, Apply, contextVars,
        sessionVars, treeVars, stopVars, TypeOK, ChosenInv, DecisionHeard, Moving,
        Listening, Refusals, Replacing
<1>27. ASSUME NEW a \in BOOLEAN,
             JudgeDone(a)
      PROVE  DecisionHeard'
  BY <1>27, Limits, StateForValues, CompletionValues
    DEF JudgeDone, JudgedAs, Completion, Take, Armed, Apply, contextVars,
        sessionVars, treeVars, stopVars, TypeOK, ChosenInv, DecisionHeard, Moving,
        Listening, Refusals, Replacing
<1>28. ASSUME NEW a \in BOOLEAN,
             Save(a)
      PROVE  DecisionHeard'
  BY <1>28, Limits
    DEF Save, Cancellable, Armed, contextVars, turnVars, sessionVars, stopVars,
        TypeOK, ChosenInv, DecisionHeard, Moving, Listening, Refusals, Replacing
<1>29. ASSUME NEW r \in Requests,
             AskGuard(r)
      PROVE  DecisionHeard'
  BY <1>29, Limits, AskGuardDoes
    DEF GuardLets, GuardDecides, GuardStands, contextVars, turnVars, sessionVars,
        treeVars, stopVars, TypeOK, ChosenInv, DecisionHeard, Moving, Listening,
        Armed, Refusals, Replacing
<1>30. ASSUME NEW r \in Requests, NEW size \in {"fits", "large", "unmeasured"},
             AskContext(r, size)
      PROVE  DecisionHeard'
  BY <1>30, Limits, BreaksValues
    DEF AskContext, Others, turnVars, sessionVars, treeVars, stopVars, At, Refused,
        Moves, guardVars, TypeOK, ChosenInv, DecisionHeard, Moving, Listening,
        Armed, Refusals, Replacing
<1>31. ASSUME NEW r \in Requests, NEW code \in Codes,
             StreamEnds(r, code)
      PROVE  DecisionHeard'
  BY <1>31, Limits
    DEF StreamEnds, Others, turnVars, sessionVars, treeVars, stopVars, At, Refused,
        guardVars, contextVars, TypeOK, ChosenInv, DecisionHeard, Moving, Listening,
        Armed, Refusals, Replacing
<1>32. ASSUME NEW r \in Requests, NEW a \in BOOLEAN,
             Repeats(r, a)
      PROVE  DecisionHeard'
  BY <1>32, Limits, StateForValues, CompletionValues
    DEF Repeats, Completion, Take, Armed, Queued, Others, turnVars, sessionVars,
        treeVars, stopVars, At, Refused, Refusals, contextVars, TypeOK, ChosenInv,
        DecisionHeard, Moving, Listening, Replacing
<1>33. ASSUME NEW s \in working,
             Edit(s)
      PROVE  DecisionHeard'
  BY <1>33, Limits
    DEF Edit, guardVars, contextVars, turnVars, sessionVars, stopVars, TypeOK,
        ChosenInv, DecisionHeard, Moving, Listening, Armed, Refusals, Replacing
<1>34. ASSUME NEW s \in working,
             SessionEnds(s)
      PROVE  DecisionHeard'
  BY <1>34, Limits
    DEF SessionEnds, At, guardVars, contextVars, turnVars, treeVars, stopVars,
        TypeOK, ChosenInv, DecisionHeard, Moving, Listening, Armed, Refusals,
        Replacing
<1>35. CASE UNCHANGED vars
  BY <1>35
    DEF vars, guardVars, contextVars, turnVars, sessionVars, treeVars, stopVars,
        TypeOK, ChosenInv, DecisionHeard, Moving, Listening, Armed, Refusals,
        Replacing
<1> QED
  BY <1>1, <1>2, <1>3, <1>4, <1>5, <1>6, <1>7, <1>8, <1>9, <1>10, <1>11, <1>12,
      <1>13, <1>14, <1>15, <1>16, <1>17, <1>18, <1>19, <1>20, <1>21, <1>22, <1>23,
      <1>24, <1>25, <1>26, <1>27, <1>28, <1>29, <1>30, <1>31, <1>32, <1>33, <1>34,
      <1>35
    DEF Next, TurnStep, RequestStep, Outside

\* A session that replaces another is new.
LEMMA FreshStep ==
    ASSUME TypeOK, SessionInv, FreshInv, ActiveIsNotRetired, [Next]_vars
    PROVE  FreshInv'
<1>1. CASE SendStops \/ PollStop \/ LastLook \/ QuietLook \/ AskFresh \/ ConsumeContext
  BY <1>1, Limits
    DEF SendStops, PollStop, LastLook, QuietLook, AskFresh, ConsumeContext,
        HandleStop, ClaimCancellation, Cancellable, Armed, ClaimContext,
        sessionVars, treeVars, guardVars, contextVars, Cancelled, TypeOK,
        SessionInv, FreshInv, ActiveIsNotRetired, Places, Replacing
<1>2. ASSUME NEW r \in Requests,
             Arrive(r) \/ ReadBody(r)
      PROVE  FreshInv'
  BY <1>2, Limits
    DEF Arrive, ReadBody, Others, turnVars, sessionVars, treeVars, stopVars, At,
        guardVars, contextVars, Refused, Moves, Owns, TypeOK, SessionInv, FreshInv,
        ActiveIsNotRetired, Places, Replacing
<1>3. CASE Begin
  BY <1>3, Limits
    DEF Begin, guardVars, contextVars, treeVars, stopVars, TypeOK, SessionInv,
        FreshInv, ActiveIsNotRetired, Places, Replacing
<1>4. CASE Send
  BY <1>4, Limits
    DEF Send, guardVars, contextVars, treeVars, stopVars, TypeOK, SessionInv,
        FreshInv, ActiveIsNotRetired, Places, Replacing
<1>5. CASE PollLeaves
  BY <1>5, Limits
    DEF PollLeaves, guardVars, contextVars, sessionVars, treeVars, stopVars, TypeOK,
        SessionInv, FreshInv, ActiveIsNotRetired, Places, Replacing
<1>6. CASE Brake
  BY <1>6, Limits
    DEF Brake, ClaimTerminal, Armed, guardVars, contextVars, treeVars, TypeOK,
        SessionInv, FreshInv, ActiveIsNotRetired, Places, Replacing
<1>7. CASE RetryDead
  BY <1>7, Limits
    DEF RetryDead, guardVars, contextVars, treeVars, stopVars, TypeOK, SessionInv,
        FreshInv, ActiveIsNotRetired, Places, Replacing
<1>8. CASE ConsumeGuard
  BY <1>8, Limits
    DEF ConsumeGuard, Apply, contextVars, sessionVars, treeVars, stopVars, TypeOK,
        SessionInv, FreshInv, ActiveIsNotRetired, Places, Replacing
<1>9. CASE GiveUp
  BY <1>9, Limits
    DEF GiveUp, HandleStop, ClaimCancellation, Cancellable, Armed, ClaimContext,
        ClaimTerminal, Apply, guardVars, contextVars, sessionVars, treeVars, TypeOK,
        SessionInv, FreshInv, ActiveIsNotRetired, Places, Replacing
<1>10. CASE RetryBroken
  BY <1>10, Limits
    DEF RetryBroken, guardVars, contextVars, sessionVars, treeVars, stopVars,
        TypeOK, SessionInv, FreshInv, ActiveIsNotRetired, Places, Replacing
<1>11. CASE Quieten
  BY <1>11, Limits
    DEF Quieten, ClaimCancellation, Cancellable, Armed, guardVars, contextVars,
        treeVars, stopVars, TypeOK, SessionInv, FreshInv, ActiveIsNotRetired,
        Places, Replacing
<1>12. CASE BeginRollover
  BY <1>12, Limits
    DEF BeginRollover, guardVars, sessionVars, treeVars, stopVars, TypeOK,
        SessionInv, FreshInv, ActiveIsNotRetired, Places, Replacing
<1>13. CASE Create
  BY <1>13, Limits
    DEF Create, contextVars, treeVars, stopVars, TypeOK, SessionInv, FreshInv,
        ActiveIsNotRetired, Places, Replacing
<1>14. CASE Publish
  BY <1>14, Limits
    DEF Publish, Cancelled, HandleStop, ClaimCancellation, Cancellable, Armed,
        ClaimContext, guardVars, contextVars, treeVars, TypeOK, SessionInv,
        FreshInv, ActiveIsNotRetired, Places, Replacing
<1>15. CASE Activate
  BY <1>15, Limits
    DEF Activate, Cancelled, HandleStop, ClaimCancellation, Cancellable, Armed,
        ClaimContext, Granted, StartRecovery, contextVars, ActivateRollover,
        guardVars, sessionVars, treeVars, TypeOK, SessionInv, FreshInv,
        ActiveIsNotRetired, Places, Replacing
<1>16. CASE Close
  BY <1>16, Limits
    DEF Close, treeVars, stopVars, TypeOK, SessionInv, FreshInv, ActiveIsNotRetired,
        Places, Replacing
<1>17. CASE Press
  BY <1>17, Limits
    DEF Press, ClaimCancellation, Cancellable, Armed, contextVars, turnVars,
        sessionVars, treeVars, TypeOK, SessionInv, FreshInv, ActiveIsNotRetired,
        Places, Replacing
<1>18. ASSUME NEW place \in {"sending", "ending"},
             Goes(place)
      PROVE  FreshInv'
  BY <1>18, Limits
    DEF Goes, guardVars, contextVars, sessionVars, treeVars, stopVars, TypeOK,
        SessionInv, FreshInv, ActiveIsNotRetired, Places, Replacing
<1>19. ASSUME NEW a \in BOOLEAN, NEW b \in BOOLEAN,
             Arm(a, b)
      PROVE  FreshInv'
  BY <1>19, Limits
    DEF Arm, sessionVars, stopVars, TypeOK, SessionInv, FreshInv,
        ActiveIsNotRetired, Places, Replacing
<1>20. ASSUME NEW a \in BOOLEAN, NEW b \in BOOLEAN,
             Grant(a, b)
      PROVE  FreshInv'
  BY <1>20, Limits, SeesValues, StateForValues
    DEF Grant, HandleStop, ClaimCancellation, Cancellable, Armed, ClaimContext,
        Take, guardVars, contextVars, sessionVars, treeVars, TypeOK, SessionInv,
        FreshInv, ActiveIsNotRetired, Places, Replacing
<1>21. ASSUME NEW a \in BOOLEAN,
             JudgeEmpty(a)
      PROVE  FreshInv'
  BY <1>21, Limits, StateForValues, CompletionValues
    DEF JudgeEmpty, JudgedAs, Completion, Take, Armed, Apply, contextVars,
        sessionVars, treeVars, stopVars, TypeOK, SessionInv, FreshInv,
        ActiveIsNotRetired, Places, Replacing
<1>22. ASSUME NEW a \in BOOLEAN,
             JudgeDone(a)
      PROVE  FreshInv'
  BY <1>22, Limits, StateForValues, CompletionValues
    DEF JudgeDone, JudgedAs, Completion, Take, Armed, Apply, contextVars,
        sessionVars, treeVars, stopVars, TypeOK, SessionInv, FreshInv,
        ActiveIsNotRetired, Places, Replacing
<1>23. ASSUME NEW a \in BOOLEAN,
             Save(a)
      PROVE  FreshInv'
  BY <1>23, Limits
    DEF Save, Cancellable, Armed, contextVars, turnVars, sessionVars, stopVars,
        TypeOK, SessionInv, FreshInv, ActiveIsNotRetired, Places, Replacing
<1>24. ASSUME NEW r \in Requests,
             AskGuard(r)
      PROVE  FreshInv'
  BY <1>24, Limits, AskGuardDoes
    DEF GuardLets, GuardDecides, GuardStands, contextVars, turnVars, sessionVars,
        treeVars, stopVars, TypeOK, SessionInv, FreshInv, ActiveIsNotRetired,
        Places, Replacing
<1>25. ASSUME NEW r \in Requests, NEW size \in {"fits", "large", "unmeasured"},
             AskContext(r, size)
      PROVE  FreshInv'
  BY <1>25, Limits, BreaksValues
    DEF AskContext, Others, turnVars, sessionVars, treeVars, stopVars, At, Refused,
        Moves, guardVars, TypeOK, SessionInv, FreshInv, ActiveIsNotRetired, Places,
        Replacing
<1>26. ASSUME NEW r \in Requests, NEW code \in Codes,
             StreamEnds(r, code)
      PROVE  FreshInv'
  BY <1>26, Limits
    DEF StreamEnds, Others, turnVars, sessionVars, treeVars, stopVars, At, Refused,
        guardVars, contextVars, TypeOK, SessionInv, FreshInv, ActiveIsNotRetired,
        Places, Replacing
<1>27. ASSUME NEW r \in Requests, NEW a \in BOOLEAN,
             Repeats(r, a)
      PROVE  FreshInv'
  BY <1>27, Limits, StateForValues, CompletionValues
    DEF Repeats, Completion, Take, Armed, Queued, Others, turnVars, sessionVars,
        treeVars, stopVars, At, Refused, Refusals, contextVars, TypeOK, SessionInv,
        FreshInv, ActiveIsNotRetired, Places, Replacing
<1>28. ASSUME NEW s \in working,
             Edit(s)
      PROVE  FreshInv'
  BY <1>28, Limits
    DEF Edit, guardVars, contextVars, turnVars, sessionVars, stopVars, TypeOK,
        SessionInv, FreshInv, ActiveIsNotRetired, Places, Replacing
<1>29. ASSUME NEW s \in working,
             SessionEnds(s)
      PROVE  FreshInv'
  BY <1>29, Limits
    DEF SessionEnds, At, guardVars, contextVars, turnVars, treeVars, stopVars,
        TypeOK, SessionInv, FreshInv, ActiveIsNotRetired, Places, Replacing
<1>30. CASE UNCHANGED vars
  BY <1>30
    DEF vars, guardVars, contextVars, turnVars, sessionVars, treeVars, stopVars,
        TypeOK, SessionInv, FreshInv, ActiveIsNotRetired, Places, Replacing
<1> QED
  BY <1>1, <1>2, <1>3, <1>4, <1>5, <1>6, <1>7, <1>8, <1>9, <1>10, <1>11, <1>12,
      <1>13, <1>14, <1>15, <1>16, <1>17, <1>18, <1>19, <1>20, <1>21, <1>22, <1>23,
      <1>24, <1>25, <1>26, <1>27, <1>28, <1>29, <1>30
    DEF Next, TurnStep, RequestStep, Outside

\* The turn does not work in a session it retired.
LEMMA RetiredStep ==
    ASSUME TypeOK, SessionInv, FreshInv, ActiveIsNotRetired, [Next]_vars
    PROVE  ActiveIsNotRetired'
<1>1. CASE SendStops \/ PollStop \/ LastLook \/ QuietLook \/ AskFresh \/ ConsumeContext
  BY <1>1, Limits
    DEF SendStops, PollStop, LastLook, QuietLook, AskFresh, ConsumeContext,
        HandleStop, ClaimCancellation, Cancellable, Armed, ClaimContext,
        sessionVars, treeVars, guardVars, contextVars, Cancelled, TypeOK,
        SessionInv, FreshInv, ActiveIsNotRetired, Places, Replacing
<1>2. ASSUME NEW r \in Requests,
             Arrive(r) \/ ReadBody(r)
      PROVE  ActiveIsNotRetired'
  BY <1>2, Limits
    DEF Arrive, ReadBody, Others, turnVars, sessionVars, treeVars, stopVars, At,
        guardVars, contextVars, Refused, Moves, Owns, TypeOK, SessionInv, FreshInv,
        ActiveIsNotRetired, Places, Replacing
<1>3. CASE Begin
  BY <1>3, Limits
    DEF Begin, guardVars, contextVars, treeVars, stopVars, TypeOK, SessionInv,
        FreshInv, ActiveIsNotRetired, Places, Replacing
<1>4. CASE Send
  BY <1>4, Limits
    DEF Send, guardVars, contextVars, treeVars, stopVars, TypeOK, SessionInv,
        FreshInv, ActiveIsNotRetired, Places, Replacing
<1>5. CASE PollLeaves
  BY <1>5, Limits
    DEF PollLeaves, guardVars, contextVars, sessionVars, treeVars, stopVars, TypeOK,
        SessionInv, FreshInv, ActiveIsNotRetired, Places, Replacing
<1>6. CASE Brake
  BY <1>6, Limits
    DEF Brake, ClaimTerminal, Armed, guardVars, contextVars, treeVars, TypeOK,
        SessionInv, FreshInv, ActiveIsNotRetired, Places, Replacing
<1>7. CASE RetryDead
  BY <1>7, Limits
    DEF RetryDead, guardVars, contextVars, treeVars, stopVars, TypeOK, SessionInv,
        FreshInv, ActiveIsNotRetired, Places, Replacing
<1>8. CASE ConsumeGuard
  BY <1>8, Limits
    DEF ConsumeGuard, Apply, contextVars, sessionVars, treeVars, stopVars, TypeOK,
        SessionInv, FreshInv, ActiveIsNotRetired, Places, Replacing
<1>9. CASE GiveUp
  BY <1>9, Limits
    DEF GiveUp, HandleStop, ClaimCancellation, Cancellable, Armed, ClaimContext,
        ClaimTerminal, Apply, guardVars, contextVars, sessionVars, treeVars, TypeOK,
        SessionInv, FreshInv, ActiveIsNotRetired, Places, Replacing
<1>10. CASE RetryBroken
  BY <1>10, Limits
    DEF RetryBroken, guardVars, contextVars, sessionVars, treeVars, stopVars,
        TypeOK, SessionInv, FreshInv, ActiveIsNotRetired, Places, Replacing
<1>11. CASE Quieten
  BY <1>11, Limits
    DEF Quieten, ClaimCancellation, Cancellable, Armed, guardVars, contextVars,
        treeVars, stopVars, TypeOK, SessionInv, FreshInv, ActiveIsNotRetired,
        Places, Replacing
<1>12. CASE BeginRollover
  BY <1>12, Limits
    DEF BeginRollover, guardVars, sessionVars, treeVars, stopVars, TypeOK,
        SessionInv, FreshInv, ActiveIsNotRetired, Places, Replacing
<1>13. CASE Create
  BY <1>13, Limits
    DEF Create, contextVars, treeVars, stopVars, TypeOK, SessionInv, FreshInv,
        ActiveIsNotRetired, Places, Replacing
<1>14. CASE Publish
  BY <1>14, Limits
    DEF Publish, Cancelled, HandleStop, ClaimCancellation, Cancellable, Armed,
        ClaimContext, guardVars, contextVars, treeVars, TypeOK, SessionInv,
        FreshInv, ActiveIsNotRetired, Places, Replacing
<1>15. CASE Activate
  BY <1>15, Limits
    DEF Activate, Cancelled, HandleStop, ClaimCancellation, Cancellable, Armed,
        ClaimContext, Granted, StartRecovery, contextVars, ActivateRollover,
        guardVars, sessionVars, treeVars, TypeOK, SessionInv, FreshInv,
        ActiveIsNotRetired, Places, Replacing
<1>16. CASE Close
  BY <1>16, Limits
    DEF Close, treeVars, stopVars, TypeOK, SessionInv, FreshInv, ActiveIsNotRetired,
        Places, Replacing
<1>17. CASE Press
  BY <1>17, Limits
    DEF Press, ClaimCancellation, Cancellable, Armed, contextVars, turnVars,
        sessionVars, treeVars, TypeOK, SessionInv, FreshInv, ActiveIsNotRetired,
        Places, Replacing
<1>18. ASSUME NEW place \in {"sending", "ending"},
             Goes(place)
      PROVE  ActiveIsNotRetired'
  BY <1>18, Limits
    DEF Goes, guardVars, contextVars, sessionVars, treeVars, stopVars, TypeOK,
        SessionInv, FreshInv, ActiveIsNotRetired, Places, Replacing
<1>19. ASSUME NEW a \in BOOLEAN, NEW b \in BOOLEAN,
             Arm(a, b)
      PROVE  ActiveIsNotRetired'
  BY <1>19, Limits
    DEF Arm, sessionVars, stopVars, TypeOK, SessionInv, FreshInv,
        ActiveIsNotRetired, Places, Replacing
<1>20. ASSUME NEW a \in BOOLEAN, NEW b \in BOOLEAN,
             Grant(a, b)
      PROVE  ActiveIsNotRetired'
  BY <1>20, Limits, SeesValues, StateForValues
    DEF Grant, HandleStop, ClaimCancellation, Cancellable, Armed, ClaimContext,
        Take, guardVars, contextVars, sessionVars, treeVars, TypeOK, SessionInv,
        FreshInv, ActiveIsNotRetired, Places, Replacing
<1>21. ASSUME NEW a \in BOOLEAN,
             JudgeEmpty(a)
      PROVE  ActiveIsNotRetired'
  BY <1>21, Limits, StateForValues, CompletionValues
    DEF JudgeEmpty, JudgedAs, Completion, Take, Armed, Apply, contextVars,
        sessionVars, treeVars, stopVars, TypeOK, SessionInv, FreshInv,
        ActiveIsNotRetired, Places, Replacing
<1>22. ASSUME NEW a \in BOOLEAN,
             JudgeDone(a)
      PROVE  ActiveIsNotRetired'
  BY <1>22, Limits, StateForValues, CompletionValues
    DEF JudgeDone, JudgedAs, Completion, Take, Armed, Apply, contextVars,
        sessionVars, treeVars, stopVars, TypeOK, SessionInv, FreshInv,
        ActiveIsNotRetired, Places, Replacing
<1>23. ASSUME NEW a \in BOOLEAN,
             Save(a)
      PROVE  ActiveIsNotRetired'
  BY <1>23, Limits
    DEF Save, Cancellable, Armed, contextVars, turnVars, sessionVars, stopVars,
        TypeOK, SessionInv, FreshInv, ActiveIsNotRetired, Places, Replacing
<1>24. ASSUME NEW r \in Requests,
             AskGuard(r)
      PROVE  ActiveIsNotRetired'
  BY <1>24, Limits, AskGuardDoes
    DEF GuardLets, GuardDecides, GuardStands, contextVars, turnVars, sessionVars,
        treeVars, stopVars, TypeOK, SessionInv, FreshInv, ActiveIsNotRetired,
        Places, Replacing
<1>25. ASSUME NEW r \in Requests, NEW size \in {"fits", "large", "unmeasured"},
             AskContext(r, size)
      PROVE  ActiveIsNotRetired'
  BY <1>25, Limits, BreaksValues
    DEF AskContext, Others, turnVars, sessionVars, treeVars, stopVars, At, Refused,
        Moves, guardVars, TypeOK, SessionInv, FreshInv, ActiveIsNotRetired, Places,
        Replacing
<1>26. ASSUME NEW r \in Requests, NEW code \in Codes,
             StreamEnds(r, code)
      PROVE  ActiveIsNotRetired'
  BY <1>26, Limits
    DEF StreamEnds, Others, turnVars, sessionVars, treeVars, stopVars, At, Refused,
        guardVars, contextVars, TypeOK, SessionInv, FreshInv, ActiveIsNotRetired,
        Places, Replacing
<1>27. ASSUME NEW r \in Requests, NEW a \in BOOLEAN,
             Repeats(r, a)
      PROVE  ActiveIsNotRetired'
  BY <1>27, Limits, StateForValues, CompletionValues
    DEF Repeats, Completion, Take, Armed, Queued, Others, turnVars, sessionVars,
        treeVars, stopVars, At, Refused, Refusals, contextVars, TypeOK, SessionInv,
        FreshInv, ActiveIsNotRetired, Places, Replacing
<1>28. ASSUME NEW s \in working,
             Edit(s)
      PROVE  ActiveIsNotRetired'
  BY <1>28, Limits
    DEF Edit, guardVars, contextVars, turnVars, sessionVars, stopVars, TypeOK,
        SessionInv, FreshInv, ActiveIsNotRetired, Places, Replacing
<1>29. ASSUME NEW s \in working,
             SessionEnds(s)
      PROVE  ActiveIsNotRetired'
  BY <1>29, Limits
    DEF SessionEnds, At, guardVars, contextVars, turnVars, treeVars, stopVars,
        TypeOK, SessionInv, FreshInv, ActiveIsNotRetired, Places, Replacing
<1>30. CASE UNCHANGED vars
  BY <1>30
    DEF vars, guardVars, contextVars, turnVars, sessionVars, treeVars, stopVars,
        TypeOK, SessionInv, FreshInv, ActiveIsNotRetired, Places, Replacing
<1> QED
  BY <1>1, <1>2, <1>3, <1>4, <1>5, <1>6, <1>7, <1>8, <1>9, <1>10, <1>11, <1>12,
      <1>13, <1>14, <1>15, <1>16, <1>17, <1>18, <1>19, <1>20, <1>21, <1>22, <1>23,
      <1>24, <1>25, <1>26, <1>27, <1>28, <1>29, <1>30
    DEF Next, TurnStep, RequestStep, Outside

\* A session is replaced, or kept, once it is idle.
LEMMA QuietStep ==
    ASSUME TypeOK, SessionInv, FreshInv, QuietInv, [Next]_vars
    PROVE  QuietInv'
<1>1. CASE SendStops \/ PollStop \/ LastLook \/ QuietLook \/ AskFresh \/ ConsumeContext
  BY <1>1, Limits
    DEF SendStops, PollStop, LastLook, QuietLook, AskFresh, ConsumeContext,
        HandleStop, ClaimCancellation, Cancellable, Armed, ClaimContext,
        sessionVars, treeVars, guardVars, contextVars, Cancelled, TypeOK,
        SessionInv, FreshInv, QuietInv, Places, Replacing
<1>2. ASSUME NEW r \in Requests,
             Arrive(r) \/ ReadBody(r)
      PROVE  QuietInv'
  BY <1>2, Limits
    DEF Arrive, ReadBody, Others, turnVars, sessionVars, treeVars, stopVars, At,
        guardVars, contextVars, Refused, Moves, Owns, TypeOK, SessionInv, FreshInv,
        QuietInv, Places, Replacing
<1>3. CASE Begin
  BY <1>3, Limits
    DEF Begin, guardVars, contextVars, treeVars, stopVars, TypeOK, SessionInv,
        FreshInv, QuietInv, Places, Replacing
<1>4. CASE Send
  BY <1>4, Limits
    DEF Send, guardVars, contextVars, treeVars, stopVars, TypeOK, SessionInv,
        FreshInv, QuietInv, Places, Replacing
<1>5. CASE PollLeaves
  BY <1>5, Limits
    DEF PollLeaves, guardVars, contextVars, sessionVars, treeVars, stopVars, TypeOK,
        SessionInv, FreshInv, QuietInv, Places, Replacing
<1>6. CASE Brake
  BY <1>6, Limits
    DEF Brake, ClaimTerminal, Armed, guardVars, contextVars, treeVars, TypeOK,
        SessionInv, FreshInv, QuietInv, Places, Replacing
<1>7. CASE RetryDead
  BY <1>7, Limits
    DEF RetryDead, guardVars, contextVars, treeVars, stopVars, TypeOK, SessionInv,
        FreshInv, QuietInv, Places, Replacing
<1>8. CASE ConsumeGuard
  BY <1>8, Limits
    DEF ConsumeGuard, Apply, contextVars, sessionVars, treeVars, stopVars, TypeOK,
        SessionInv, FreshInv, QuietInv, Places, Replacing
<1>9. CASE GiveUp
  BY <1>9, Limits
    DEF GiveUp, HandleStop, ClaimCancellation, Cancellable, Armed, ClaimContext,
        ClaimTerminal, Apply, guardVars, contextVars, sessionVars, treeVars, TypeOK,
        SessionInv, FreshInv, QuietInv, Places, Replacing
<1>10. CASE RetryBroken
  BY <1>10, Limits
    DEF RetryBroken, guardVars, contextVars, sessionVars, treeVars, stopVars,
        TypeOK, SessionInv, FreshInv, QuietInv, Places, Replacing
<1>11. CASE Quieten
  BY <1>11, Limits
    DEF Quieten, ClaimCancellation, Cancellable, Armed, guardVars, contextVars,
        treeVars, stopVars, TypeOK, SessionInv, FreshInv, QuietInv, Places,
        Replacing
<1>12. CASE BeginRollover
  BY <1>12, Limits
    DEF BeginRollover, guardVars, sessionVars, treeVars, stopVars, TypeOK,
        SessionInv, FreshInv, QuietInv, Places, Replacing
<1>13. CASE Create
  BY <1>13, Limits
    DEF Create, contextVars, treeVars, stopVars, TypeOK, SessionInv, FreshInv,
        QuietInv, Places, Replacing
<1>14. CASE Publish
  BY <1>14, Limits
    DEF Publish, Cancelled, HandleStop, ClaimCancellation, Cancellable, Armed,
        ClaimContext, guardVars, contextVars, treeVars, TypeOK, SessionInv,
        FreshInv, QuietInv, Places, Replacing
<1>15. CASE Activate
  BY <1>15, Limits
    DEF Activate, Cancelled, HandleStop, ClaimCancellation, Cancellable, Armed,
        ClaimContext, Granted, StartRecovery, contextVars, ActivateRollover,
        guardVars, sessionVars, treeVars, TypeOK, SessionInv, FreshInv, QuietInv,
        Places, Replacing
<1>16. CASE Close
  BY <1>16, Limits
    DEF Close, treeVars, stopVars, TypeOK, SessionInv, FreshInv, QuietInv, Places,
        Replacing
<1>17. CASE Press
  BY <1>17, Limits
    DEF Press, ClaimCancellation, Cancellable, Armed, contextVars, turnVars,
        sessionVars, treeVars, TypeOK, SessionInv, FreshInv, QuietInv, Places,
        Replacing
<1>18. ASSUME NEW place \in {"sending", "ending"},
             Goes(place)
      PROVE  QuietInv'
  BY <1>18, Limits
    DEF Goes, guardVars, contextVars, sessionVars, treeVars, stopVars, TypeOK,
        SessionInv, FreshInv, QuietInv, Places, Replacing
<1>19. ASSUME NEW a \in BOOLEAN, NEW b \in BOOLEAN,
             Arm(a, b)
      PROVE  QuietInv'
  BY <1>19, Limits
    DEF Arm, sessionVars, stopVars, TypeOK, SessionInv, FreshInv, QuietInv, Places,
        Replacing
<1>20. ASSUME NEW a \in BOOLEAN, NEW b \in BOOLEAN,
             Grant(a, b)
      PROVE  QuietInv'
  BY <1>20, Limits, SeesValues, StateForValues
    DEF Grant, HandleStop, ClaimCancellation, Cancellable, Armed, ClaimContext,
        Take, guardVars, contextVars, sessionVars, treeVars, TypeOK, SessionInv,
        FreshInv, QuietInv, Places, Replacing
<1>21. ASSUME NEW a \in BOOLEAN,
             JudgeEmpty(a)
      PROVE  QuietInv'
  BY <1>21, Limits, StateForValues, CompletionValues
    DEF JudgeEmpty, JudgedAs, Completion, Take, Armed, Apply, contextVars,
        sessionVars, treeVars, stopVars, TypeOK, SessionInv, FreshInv, QuietInv,
        Places, Replacing
<1>22. ASSUME NEW a \in BOOLEAN,
             JudgeDone(a)
      PROVE  QuietInv'
  BY <1>22, Limits, StateForValues, CompletionValues
    DEF JudgeDone, JudgedAs, Completion, Take, Armed, Apply, contextVars,
        sessionVars, treeVars, stopVars, TypeOK, SessionInv, FreshInv, QuietInv,
        Places, Replacing
<1>23. ASSUME NEW a \in BOOLEAN,
             Save(a)
      PROVE  QuietInv'
  BY <1>23, Limits
    DEF Save, Cancellable, Armed, contextVars, turnVars, sessionVars, stopVars,
        TypeOK, SessionInv, FreshInv, QuietInv, Places, Replacing
<1>24. ASSUME NEW r \in Requests,
             AskGuard(r)
      PROVE  QuietInv'
  BY <1>24, Limits, AskGuardDoes
    DEF GuardLets, GuardDecides, GuardStands, contextVars, turnVars, sessionVars,
        treeVars, stopVars, TypeOK, SessionInv, FreshInv, QuietInv, Places,
        Replacing
<1>25. ASSUME NEW r \in Requests, NEW size \in {"fits", "large", "unmeasured"},
             AskContext(r, size)
      PROVE  QuietInv'
  BY <1>25, Limits, BreaksValues
    DEF AskContext, Others, turnVars, sessionVars, treeVars, stopVars, At, Refused,
        Moves, guardVars, TypeOK, SessionInv, FreshInv, QuietInv, Places, Replacing
<1>26. ASSUME NEW r \in Requests, NEW code \in Codes,
             StreamEnds(r, code)
      PROVE  QuietInv'
  BY <1>26, Limits
    DEF StreamEnds, Others, turnVars, sessionVars, treeVars, stopVars, At, Refused,
        guardVars, contextVars, TypeOK, SessionInv, FreshInv, QuietInv, Places,
        Replacing
<1>27. ASSUME NEW r \in Requests, NEW a \in BOOLEAN,
             Repeats(r, a)
      PROVE  QuietInv'
  BY <1>27, Limits, StateForValues, CompletionValues
    DEF Repeats, Completion, Take, Armed, Queued, Others, turnVars, sessionVars,
        treeVars, stopVars, At, Refused, Refusals, contextVars, TypeOK, SessionInv,
        FreshInv, QuietInv, Places, Replacing
<1>28. ASSUME NEW s \in working,
             Edit(s)
      PROVE  QuietInv'
  BY <1>28, Limits
    DEF Edit, guardVars, contextVars, turnVars, sessionVars, stopVars, TypeOK,
        SessionInv, FreshInv, QuietInv, Places, Replacing
<1>29. ASSUME NEW s \in working,
             SessionEnds(s)
      PROVE  QuietInv'
  BY <1>29, Limits
    DEF SessionEnds, At, guardVars, contextVars, turnVars, treeVars, stopVars,
        TypeOK, SessionInv, FreshInv, QuietInv, Places, Replacing
<1>30. CASE UNCHANGED vars
  BY <1>30
    DEF vars, guardVars, contextVars, turnVars, sessionVars, treeVars, stopVars,
        TypeOK, SessionInv, FreshInv, QuietInv, Places, Replacing
<1> QED
  BY <1>1, <1>2, <1>3, <1>4, <1>5, <1>6, <1>7, <1>8, <1>9, <1>10, <1>11, <1>12,
      <1>13, <1>14, <1>15, <1>16, <1>17, <1>18, <1>19, <1>20, <1>21, <1>22, <1>23,
      <1>24, <1>25, <1>26, <1>27, <1>28, <1>29, <1>30
    DEF Next, TurnStep, RequestStep, Outside

\* Nobody of this turn writes while its session is replaced.
LEMMA StillStep ==
    ASSUME TypeOK, SessionInv, QuietInv, StillInv, [Next]_vars
    PROVE  StillInv'
<1>1. CASE SendStops \/ PollStop \/ LastLook \/ QuietLook \/ AskFresh \/ ConsumeContext
  BY <1>1, Limits
    DEF SendStops, PollStop, LastLook, QuietLook, AskFresh, ConsumeContext,
        HandleStop, ClaimCancellation, Cancellable, Armed, ClaimContext,
        sessionVars, treeVars, guardVars, contextVars, Cancelled, TypeOK,
        SessionInv, QuietInv, StillInv, Places, Replacing
<1>2. ASSUME NEW r \in Requests,
             Arrive(r) \/ ReadBody(r)
      PROVE  StillInv'
  BY <1>2, Limits
    DEF Arrive, ReadBody, Others, turnVars, sessionVars, treeVars, stopVars, At,
        guardVars, contextVars, Refused, Moves, Owns, TypeOK, SessionInv, QuietInv,
        StillInv, Places, Replacing
<1>3. CASE Begin
  BY <1>3, Limits
    DEF Begin, guardVars, contextVars, treeVars, stopVars, TypeOK, SessionInv,
        QuietInv, StillInv, Places, Replacing
<1>4. CASE Send
  BY <1>4, Limits
    DEF Send, guardVars, contextVars, treeVars, stopVars, TypeOK, SessionInv,
        QuietInv, StillInv, Places, Replacing
<1>5. CASE PollLeaves
  BY <1>5, Limits
    DEF PollLeaves, guardVars, contextVars, sessionVars, treeVars, stopVars, TypeOK,
        SessionInv, QuietInv, StillInv, Places, Replacing
<1>6. CASE Brake
  BY <1>6, Limits
    DEF Brake, ClaimTerminal, Armed, guardVars, contextVars, treeVars, TypeOK,
        SessionInv, QuietInv, StillInv, Places, Replacing
<1>7. CASE RetryDead
  BY <1>7, Limits
    DEF RetryDead, guardVars, contextVars, treeVars, stopVars, TypeOK, SessionInv,
        QuietInv, StillInv, Places, Replacing
<1>8. CASE ConsumeGuard
  BY <1>8, Limits
    DEF ConsumeGuard, Apply, contextVars, sessionVars, treeVars, stopVars, TypeOK,
        SessionInv, QuietInv, StillInv, Places, Replacing
<1>9. CASE GiveUp
  BY <1>9, Limits
    DEF GiveUp, HandleStop, ClaimCancellation, Cancellable, Armed, ClaimContext,
        ClaimTerminal, Apply, guardVars, contextVars, sessionVars, treeVars, TypeOK,
        SessionInv, QuietInv, StillInv, Places, Replacing
<1>10. CASE RetryBroken
  BY <1>10, Limits
    DEF RetryBroken, guardVars, contextVars, sessionVars, treeVars, stopVars,
        TypeOK, SessionInv, QuietInv, StillInv, Places, Replacing
<1>11. CASE Quieten
  BY <1>11, Limits
    DEF Quieten, ClaimCancellation, Cancellable, Armed, guardVars, contextVars,
        treeVars, stopVars, TypeOK, SessionInv, QuietInv, StillInv, Places,
        Replacing
<1>12. CASE BeginRollover
  BY <1>12, Limits
    DEF BeginRollover, guardVars, sessionVars, treeVars, stopVars, TypeOK,
        SessionInv, QuietInv, StillInv, Places, Replacing
<1>13. CASE Create
  BY <1>13, Limits
    DEF Create, contextVars, treeVars, stopVars, TypeOK, SessionInv, QuietInv,
        StillInv, Places, Replacing
<1>14. CASE Publish
  BY <1>14, Limits
    DEF Publish, Cancelled, HandleStop, ClaimCancellation, Cancellable, Armed,
        ClaimContext, guardVars, contextVars, treeVars, TypeOK, SessionInv,
        QuietInv, StillInv, Places, Replacing
<1>15. CASE Activate
  BY <1>15, Limits
    DEF Activate, Cancelled, HandleStop, ClaimCancellation, Cancellable, Armed,
        ClaimContext, Granted, StartRecovery, contextVars, ActivateRollover,
        guardVars, sessionVars, treeVars, TypeOK, SessionInv, QuietInv, StillInv,
        Places, Replacing
<1>16. CASE Close
  BY <1>16, Limits
    DEF Close, treeVars, stopVars, TypeOK, SessionInv, QuietInv, StillInv, Places,
        Replacing
<1>17. CASE Press
  BY <1>17, Limits
    DEF Press, ClaimCancellation, Cancellable, Armed, contextVars, turnVars,
        sessionVars, treeVars, TypeOK, SessionInv, QuietInv, StillInv, Places,
        Replacing
<1>18. ASSUME NEW place \in {"sending", "ending"},
             Goes(place)
      PROVE  StillInv'
  BY <1>18, Limits
    DEF Goes, guardVars, contextVars, sessionVars, treeVars, stopVars, TypeOK,
        SessionInv, QuietInv, StillInv, Places, Replacing
<1>19. ASSUME NEW a \in BOOLEAN, NEW b \in BOOLEAN,
             Arm(a, b)
      PROVE  StillInv'
  BY <1>19, Limits
    DEF Arm, sessionVars, stopVars, TypeOK, SessionInv, QuietInv, StillInv, Places,
        Replacing
<1>20. ASSUME NEW a \in BOOLEAN, NEW b \in BOOLEAN,
             Grant(a, b)
      PROVE  StillInv'
  BY <1>20, Limits, SeesValues, StateForValues
    DEF Grant, HandleStop, ClaimCancellation, Cancellable, Armed, ClaimContext,
        Take, guardVars, contextVars, sessionVars, treeVars, TypeOK, SessionInv,
        QuietInv, StillInv, Places, Replacing
<1>21. ASSUME NEW a \in BOOLEAN,
             JudgeEmpty(a)
      PROVE  StillInv'
  BY <1>21, Limits, StateForValues, CompletionValues
    DEF JudgeEmpty, JudgedAs, Completion, Take, Armed, Apply, contextVars,
        sessionVars, treeVars, stopVars, TypeOK, SessionInv, QuietInv, StillInv,
        Places, Replacing
<1>22. ASSUME NEW a \in BOOLEAN,
             JudgeDone(a)
      PROVE  StillInv'
  BY <1>22, Limits, StateForValues, CompletionValues
    DEF JudgeDone, JudgedAs, Completion, Take, Armed, Apply, contextVars,
        sessionVars, treeVars, stopVars, TypeOK, SessionInv, QuietInv, StillInv,
        Places, Replacing
<1>23. ASSUME NEW a \in BOOLEAN,
             Save(a)
      PROVE  StillInv'
  BY <1>23, Limits
    DEF Save, Cancellable, Armed, contextVars, turnVars, sessionVars, stopVars,
        TypeOK, SessionInv, QuietInv, StillInv, Places, Replacing
<1>24. ASSUME NEW r \in Requests,
             AskGuard(r)
      PROVE  StillInv'
  BY <1>24, Limits, AskGuardDoes
    DEF GuardLets, GuardDecides, GuardStands, contextVars, turnVars, sessionVars,
        treeVars, stopVars, TypeOK, SessionInv, QuietInv, StillInv, Places,
        Replacing
<1>25. ASSUME NEW r \in Requests, NEW size \in {"fits", "large", "unmeasured"},
             AskContext(r, size)
      PROVE  StillInv'
  BY <1>25, Limits, BreaksValues
    DEF AskContext, Others, turnVars, sessionVars, treeVars, stopVars, At, Refused,
        Moves, guardVars, TypeOK, SessionInv, QuietInv, StillInv, Places, Replacing
<1>26. ASSUME NEW r \in Requests, NEW code \in Codes,
             StreamEnds(r, code)
      PROVE  StillInv'
  BY <1>26, Limits
    DEF StreamEnds, Others, turnVars, sessionVars, treeVars, stopVars, At, Refused,
        guardVars, contextVars, TypeOK, SessionInv, QuietInv, StillInv, Places,
        Replacing
<1>27. ASSUME NEW r \in Requests, NEW a \in BOOLEAN,
             Repeats(r, a)
      PROVE  StillInv'
  BY <1>27, Limits, StateForValues, CompletionValues
    DEF Repeats, Completion, Take, Armed, Queued, Others, turnVars, sessionVars,
        treeVars, stopVars, At, Refused, Refusals, contextVars, TypeOK, SessionInv,
        QuietInv, StillInv, Places, Replacing
<1>28. ASSUME NEW s \in working,
             Edit(s)
      PROVE  StillInv'
  BY <1>28, Limits
    DEF Edit, guardVars, contextVars, turnVars, sessionVars, stopVars, TypeOK,
        SessionInv, QuietInv, StillInv, Places, Replacing
<1>29. ASSUME NEW s \in working,
             SessionEnds(s)
      PROVE  StillInv'
  BY <1>29, Limits
    DEF SessionEnds, At, guardVars, contextVars, turnVars, treeVars, stopVars,
        TypeOK, SessionInv, QuietInv, StillInv, Places, Replacing
<1>30. CASE UNCHANGED vars
  BY <1>30
    DEF vars, guardVars, contextVars, turnVars, sessionVars, treeVars, stopVars,
        TypeOK, SessionInv, QuietInv, StillInv, Places, Replacing
<1> QED
  BY <1>1, <1>2, <1>3, <1>4, <1>5, <1>6, <1>7, <1>8, <1>9, <1>10, <1>11, <1>12,
      <1>13, <1>14, <1>15, <1>16, <1>17, <1>18, <1>19, <1>20, <1>21, <1>22, <1>23,
      <1>24, <1>25, <1>26, <1>27, <1>28, <1>29, <1>30
    DEF Next, TurnStep, RequestStep, Outside

\* Only an activation spends an allowance, and it looks for Stop.
LEMMA OnlyActivation ==
    ASSUME [Next]_vars
    PROVE  SpendsNothing \/ (Activate /\ ~stopRequested)
<1>1. CASE Begin \/ SendStops \/ PollStop \/ LastLook \/ QuietLook \/ AskFresh \/ ConsumeContext
  BY <1>1, Limits
    DEF Begin, SendStops, PollStop, LastLook, QuietLook, AskFresh, ConsumeContext,
        guardVars, contextVars, treeVars, stopVars, HandleStop, ClaimCancellation,
        Cancellable, Armed, ClaimContext, sessionVars, Cancelled, SpendsNothing
<1>2. CASE Send \/ PollLeaves \/ RetryDead \/ BeginRollover \/ RetryBroken \/ ConsumeGuard
  BY <1>2, Limits
    DEF Send, PollLeaves, RetryDead, BeginRollover, RetryBroken, ConsumeGuard,
        guardVars, contextVars, treeVars, stopVars, sessionVars, Apply,
        SpendsNothing
<1>3. ASSUME NEW r \in Requests,
             Arrive(r) \/ ReadBody(r)
      PROVE  SpendsNothing \/ (Activate /\ ~stopRequested)
  BY <1>3, Limits
    DEF Arrive, ReadBody, Others, turnVars, sessionVars, treeVars, stopVars, At,
        guardVars, contextVars, Refused, Moves, Owns, SpendsNothing
<1>4. ASSUME NEW s \in working,
             Edit(s) \/ SessionEnds(s)
      PROVE  SpendsNothing \/ (Activate /\ ~stopRequested)
  BY <1>4, Limits
    DEF Edit, SessionEnds, guardVars, contextVars, turnVars, sessionVars, stopVars,
        At, treeVars, SpendsNothing
<1>5. ASSUME NEW a \in BOOLEAN,
             JudgeEmpty(a) \/ JudgeDone(a)
      PROVE  SpendsNothing \/ (Activate /\ ~stopRequested)
  BY <1>5, Limits, StateForValues, CompletionValues
    DEF JudgeEmpty, JudgeDone, JudgedAs, Completion, Take, Armed, Apply,
        contextVars, sessionVars, treeVars, stopVars, SpendsNothing
<1>6. CASE Brake
  BY <1>6, Limits
    DEF Brake, ClaimTerminal, Armed, guardVars, contextVars, treeVars, SpendsNothing
<1>7. CASE GiveUp
  BY <1>7, Limits
    DEF GiveUp, HandleStop, ClaimCancellation, Cancellable, Armed, ClaimContext,
        ClaimTerminal, Apply, guardVars, contextVars, sessionVars, treeVars,
        SpendsNothing
<1>8. CASE Quieten
  BY <1>8, Limits
    DEF Quieten, ClaimCancellation, Cancellable, Armed, guardVars, contextVars,
        treeVars, stopVars, SpendsNothing
<1>9. CASE Create
  BY <1>9, Limits
    DEF Create, contextVars, treeVars, stopVars, SpendsNothing
<1>10. CASE Publish
  BY <1>10, Limits
    DEF Publish, Cancelled, HandleStop, ClaimCancellation, Cancellable, Armed,
        ClaimContext, guardVars, contextVars, treeVars, SpendsNothing
<1>11. CASE Activate
  BY <1>11, Limits
    DEF Activate, Cancelled, HandleStop, ClaimCancellation, Cancellable, Armed,
        ClaimContext, Granted, StartRecovery, contextVars, ActivateRollover,
        guardVars, sessionVars, treeVars, SpendsNothing
<1>12. CASE Close
  BY <1>12, Limits
    DEF Close, treeVars, stopVars, SpendsNothing
<1>13. CASE Press
  BY <1>13, Limits
    DEF Press, ClaimCancellation, Cancellable, Armed, contextVars, turnVars,
        sessionVars, treeVars, SpendsNothing
<1>14. ASSUME NEW place \in {"sending", "ending"},
             Goes(place)
      PROVE  SpendsNothing \/ (Activate /\ ~stopRequested)
  BY <1>14, Limits
    DEF Goes, guardVars, contextVars, sessionVars, treeVars, stopVars, SpendsNothing
<1>15. ASSUME NEW a \in BOOLEAN, NEW b \in BOOLEAN,
             Arm(a, b)
      PROVE  SpendsNothing \/ (Activate /\ ~stopRequested)
  BY <1>15, Limits
    DEF Arm, sessionVars, stopVars, SpendsNothing
<1>16. ASSUME NEW a \in BOOLEAN, NEW b \in BOOLEAN,
             Grant(a, b)
      PROVE  SpendsNothing \/ (Activate /\ ~stopRequested)
  BY <1>16, Limits, SeesValues, StateForValues
    DEF Grant, HandleStop, ClaimCancellation, Cancellable, Armed, ClaimContext,
        Take, guardVars, contextVars, sessionVars, treeVars, SpendsNothing
<1>17. ASSUME NEW a \in BOOLEAN,
             Save(a)
      PROVE  SpendsNothing \/ (Activate /\ ~stopRequested)
  BY <1>17, Limits
    DEF Save, Cancellable, Armed, contextVars, turnVars, sessionVars, stopVars,
        SpendsNothing
<1>18. ASSUME NEW r \in Requests,
             AskGuard(r)
      PROVE  SpendsNothing \/ (Activate /\ ~stopRequested)
  BY <1>18, Zenon DEF AskGuard, AskGuardStanding, AskGuardArmed, guardVars, contextVars, Take, SpendsNothing
<1>19. ASSUME NEW r \in Requests, NEW size \in {"fits", "large", "unmeasured"},
             AskContext(r, size)
      PROVE  SpendsNothing \/ (Activate /\ ~stopRequested)
  BY <1>19, Limits, BreaksValues
    DEF AskContext, Others, turnVars, sessionVars, treeVars, stopVars, At, Refused,
        Moves, guardVars, SpendsNothing
<1>20. ASSUME NEW r \in Requests, NEW code \in Codes,
             StreamEnds(r, code)
      PROVE  SpendsNothing \/ (Activate /\ ~stopRequested)
  BY <1>20, Limits
    DEF StreamEnds, Others, turnVars, sessionVars, treeVars, stopVars, At, Refused,
        guardVars, contextVars, SpendsNothing
<1>21. ASSUME NEW r \in Requests, NEW a \in BOOLEAN,
             Repeats(r, a)
      PROVE  SpendsNothing \/ (Activate /\ ~stopRequested)
  BY <1>21, Limits, StateForValues, CompletionValues
    DEF Repeats, Completion, Take, Armed, Queued, Others, turnVars, sessionVars,
        treeVars, stopVars, At, Refused, Refusals, contextVars, SpendsNothing
<1>22. CASE UNCHANGED vars
  BY <1>22
    DEF vars, guardVars, contextVars, turnVars, sessionVars, treeVars, stopVars,
        SpendsNothing
<1> QED
  BY <1>1, <1>2, <1>3, <1>4, <1>5, <1>6, <1>7, <1>8, <1>9, <1>10, <1>11, <1>12,
      <1>13, <1>14, <1>15, <1>16, <1>17, <1>18, <1>19, <1>20, <1>21, <1>22
    DEF Next, TurnStep, RequestStep, Outside

-----------------------------------------------------------------------------
IInv == /\ TypeOK /\ LimitInv /\ SessionInv /\ BudgetInv /\ ChosenInv /\ DecisionHeard
        /\ FreshInv /\ ActiveIsNotRetired /\ QuietInv /\ StillInv

\* The initial state satisfies the invariant.
LEMMA InitIInv == Init => IInv
<1> SUFFICES ASSUME Init PROVE IInv
  OBVIOUS
<1>1. TypeOK
  <2>1. TypeOK1 /\ TypeOK3
    BY Limits, Zenon DEF Init, TypeOK1, TypeOK3
  <2>2. TypeOK2 /\ TypeOK4
    <3>1. TypeOK2
      <4>1. tree = 1 /\ edits = 0 /\ saves = 0 /\ baseline = 0
        BY DEF Init
      <4>2. strayed = FALSE
        BY DEF Init
      <4>3. baseline \in 0..tree /\ tree = 1 + edits + saves
        BY <4>1
      <4>4. edits \in 0..MaxEdits /\ saves \in 0..MaxSaves
        BY <4>1, Limits
      <4> QED
        BY <4>2, <4>3, <4>4, Zenon DEF TypeOK2
    <3>2. TypeOK4
      BY Limits DEF Init, TypeOK4
    <3> QED
      BY <3>1, <3>2
  <2>3. TypeOK5
    <3>1. turn \in 0..MaxTurns /\ presses \in 0..MaxStops /\ spent \in Nat
      BY Limits DEF Init
    <3>2. /\ pc \in Places /\ task \in {"none", "recovery", "rollover", "offer"}
          /\ back \in {"consumingContext", "after", "ending"}
          /\ treeLock \in BOOLEAN /\ stopRequested \in BOOLEAN
      BY Zenon DEF Init, Places
    <3> QED
      BY <3>1, <3>2 DEF TypeOK5
  <2>4. TypeOK6
    BY Limits DEF Init, TypeOK6, Codes, RequestStates, Idle
  <2> QED
    BY <2>1, <2>2, <2>3, <2>4 DEF TypeOK, TypeOK1, TypeOK2, TypeOK3, TypeOK4, TypeOK5, TypeOK6
<1>2. LimitInv /\ SessionInv /\ BudgetInv /\ DecisionHeard
  BY DEF Init, LimitInv, SessionInv, BudgetInv, BudgetKept, DecisionHeard, Listening, Armed
<1>3. ChosenInv /\ FreshInv /\ ActiveIsNotRetired /\ QuietInv /\ StillInv
  BY DEF Init, ChosenInv, FreshInv, ActiveIsNotRetired, QuietInv, StillInv, Moving, Replacing
<1> QED
  BY <1>1, <1>2, <1>3 DEF IInv

\* Every step keeps it.
LEMMA NextIInv == IInv /\ [Next]_vars => IInv'
<1> SUFFICES ASSUME IInv, [Next]_vars PROVE IInv'
  OBVIOUS
<1>1. TypeOK'
  <2>1. TypeOK /\ LimitInv /\ SessionInv
    BY DEF IInv
  <2>2. TypeOK1' /\ TypeOK2' /\ TypeOK3' /\ TypeOK4' /\ TypeOK5' /\ TypeOK6'
    BY <2>1, TypeStep1, TypeStep2, TypeStep3, TypeStep4, TypeStep5, TypeStep6
  <2> QED
    BY <2>2 DEF TypeOK, TypeOK1, TypeOK2, TypeOK3, TypeOK4, TypeOK5, TypeOK6
<1>2. LimitInv' /\ SessionInv' /\ BudgetInv'
  BY LimitStep, SessionStep, BudgetStep DEF IInv
<1>3. ChosenInv' /\ DecisionHeard'
  BY ChosenStep, HeardStep DEF IInv
<1>4. FreshInv' /\ ActiveIsNotRetired' /\ QuietInv' /\ StillInv'
  BY FreshStep, RetiredStep, QuietStep, StillStep DEF IInv
<1> QED
  BY <1>1, <1>2, <1>3, <1>4 DEF IInv

\* The inductive invariant holds in every reachable state.
THEOREM InvariantHolds == Spec => []IInv
<1>1. Init => IInv
  BY InitIInv
<1>2. IInv /\ [Next]_vars => IInv'
  BY NextIInv
<1> QED
  BY <1>1, <1>2, PTL DEF Spec

\* The two allowances, the turn and the requests keep their types.
THEOREM TypeCorrect == Spec => []TypeOK
<1>1. IInv => TypeOK
  BY DEF IInv
<1> QED
  BY <1>1, InvariantHolds, PTL

\* No more calls pass an armed guard than its limit for each attempt, whatever
\* the limits and however many requests there are.
THEOREM BudgetIsKept == Spec => []BudgetKept
<1>1. IInv => BudgetKept
  BY DEF IInv, BudgetInv
<1> QED
  BY <1>1, InvariantHolds, PTL

\* No terminal decision of the guard is lost or made up.
THEOREM DecisionsAreHeard == Spec => []DecisionHeard
<1>1. IInv => DecisionHeard
  BY DEF IInv
<1> QED
  BY <1>1, InvariantHolds, PTL

\* The turn never goes on in a session it has retired.
THEOREM RetiredSessionsRest == Spec => []ActiveIsNotRetired
<1>1. IInv => ActiveIsNotRetired
  BY DEF IInv
<1> QED
  BY <1>1, InvariantHolds, PTL

\* Once Stop is pressed neither allowance is spent.
THEOREM StopEndsAllowances == Spec => NoRestartAfterStop
<1>1. TypeOK /\ [Next]_vars =>
        [stopRequested => recoveries' <= recoveries /\ rollovers' <= rollovers]_vars
  <2> SUFFICES ASSUME TypeOK, [Next]_vars, stopRequested
               PROVE  recoveries' <= recoveries /\ rollovers' <= rollovers
    OBVIOUS
  <2>1. recoveries' \in {recoveries, 0} /\ rollovers' \in {rollovers, 0}
    BY OnlyActivation DEF SpendsNothing
  <2>2. recoveries \in Nat /\ rollovers \in Nat
    BY Limits DEF TypeOK
  <2> QED
    BY <2>1, <2>2
<1>2. IInv => TypeOK
  BY DEF IInv
<1> QED
  BY <1>1, <1>2, InvariantHolds, PTL DEF Spec, NoRestartAfterStop

\* A recovery starts over its baseline, unless a session of an earlier turn writes.
THEOREM RecoveriesStartClean == Spec => NoRetryOverAnEdit
<1>1. IInv /\ [Next]_vars => [recoveries' > recoveries /\ ~strayed => tree = baseline]_vars
  <2> SUFFICES ASSUME TypeOK, StillInv, [Next]_vars, recoveries' > recoveries, ~strayed
               PROVE  tree = baseline
    BY DEF IInv
  <2>1. recoveries \in Nat
    BY Limits DEF TypeOK
  <2>2. Activate /\ ~stopRequested
    BY <2>1, OnlyActivation DEF SpendsNothing
  <2>3. pc = "activating" /\ task = "recovery"
    BY <2>1, <2>2 DEF Activate, Cancelled, HandleStop, ClaimCancellation, ActivateRollover, guardVars
  <2> QED
    BY <2>3 DEF StillInv, Replacing
<1> QED
  BY <1>1, InvariantHolds, PTL DEF Spec, NoRetryOverAnEdit

=============================================================================
