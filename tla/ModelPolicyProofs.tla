-------------------------- MODULE ModelPolicyProofs --------------------------
(***************************************************************************)
(* Proofs about ModelPolicy, for any number of turns and clicks, any       *)
(* choice of guarantees, modes and models.                                 *)
(***************************************************************************)
EXTENDS ModelPolicy, TLAPS

\* Where a turn holds the turn lock, and where what it armed is in force.
Holds == {"pinning", "arming", "gating", "working", "compacting", "wedged"}
Arming == {"pinning", "arming", "gating", "working"}

\* The type invariant in parts.
TypeOK1 ==
    /\ token \in [Guarantees -> Turns \cup {Nobody}]
    /\ turnMode \in Modes \cup {Nobody} /\ mode \in Modes
    /\ pick \in Picks \cup {Strong} /\ chosen \in Picks
TypeOK2 ==
    /\ lock \in Turns \cup {Nobody} /\ generation \in Nat
    /\ place \in [Turns -> Places] /\ clicks \in 0..MaxClicks
TypeOK3 ==
    /\ wants \in [Turns -> SUBSET Guarantees]
    /\ armed \in [Turns -> SUBSET (Guarantees \cup {"pick"})]
    /\ noted \in [Turns -> Notes]

-----------------------------------------------------------------------------
(***************************************************************************)
(* The inductive invariant.                                                *)
(***************************************************************************)
\* Between its first arming and its end a turn has the lock, and a Build or a plan has
\* it until it has disarmed.
LockInv ==
    \A t \in Turns :
        (place[t] \in Holds \/ (t \notin Chats /\ place[t] = "unwinding")) => lock = t

\* The pin of a mode comes with a mode.
ModeInv == token["mode"] # Nobody => turnMode \in Modes

\* What a turn has armed is in force, as it armed it, until it begins to disarm.
ForceInv ==
    \A t \in Turns : place[t] \in Arming =>
        \A g \in armed[t] : g # "pick" => token[g] = t

\* A turn that has not begun has armed nothing; one at work has armed all it wants.
WantInv ==
    \A t \in Turns :
        /\ place[t] = "waiting" => armed[t] = {}
        /\ place[t] = "gating" => wants[t] \subseteq armed[t] \cup {"sensitivity"}
        /\ place[t] = "working" => wants[t] \subseteq armed[t]

\* A Chat turn, and no other, pins a Conversation and has an aftercare; a Build pins a mode;
\* a plan is not locked to approved models.
KindInv ==
    \A t \in Turns :
        /\ place[t] \in {"answered", "looking", "compacting"} => t \in Chats
        /\ "sensitivity" \in wants[t] => t \notin Plans
        /\ "chat" \in wants[t] => t \in Chats
        /\ place[t] # "waiting" /\ t \in Chats => "chat" \in wants[t]
        /\ place[t] # "waiting" /\ t \in Builds => "mode" \in wants[t]

\* The generation a turn noted: the latest while it has the lock, and its own for ever.
GenInv ==
    /\ \A t \in Turns : noted[t].generation <= generation
    /\ \A t \in Turns :
          place[t] \in Holds \ {"wedged"} => noted[t].generation = generation
    /\ \A t, u \in Chats :
          t # u /\ place[t] # "waiting" /\ place[u] # "waiting" =>
              noted[t].generation # noted[u].generation

\* While no turn has begun since a Chat's, its pin still stands.
ChatInv ==
    \A t \in Chats :
        place[t] \in {"answered", "looking", "compacting"}
            /\ noted[t].generation = generation
        => token["chat"] = t

\* Only a Build that came to work takes the strong model.
TakenInv ==
    \A t \in Turns : "pick" \in armed[t] =>
        t \in Builds /\ place[t] \in {"working", "unwinding", "wedged", "left"}

\* A Build finds the strong model picked only where one that left will never put it back.
FoundInv ==
    \A t \in Turns : noted[t].pick = Strong =>
        \E u \in Builds : "pick" \in armed[u] /\ place[u] = "left"

IInv ==
    /\ TypeOK /\ LockInv /\ ModeInv /\ ForceInv /\ WantInv /\ KindInv /\ GenInv /\ ChatInv
    /\ TakenInv /\ FoundInv /\ NoStaleArm /\ NoStrandedEscalation

USE PolicyAssumption

\* The kinds of turns are apart, and no guarantee is called "pick".
LEMMA Kinds ==
    /\ Turns = Chats \cup Builds \cup Plans /\ Nobody \notin Turns
    /\ "pick" \notin Guarantees /\ {"mode", "chat", "sensitivity"} \subseteq Guarantees
BY DEF Turns, Guarantees

\* What a turn may want are guarantees.
LEMMA WantsAreGuarantees ==
    ASSUME NEW t \in Turns, NEW C
    PROVE  Fixed(t) \cup (C \cap Optional(t)) \subseteq Guarantees
BY DEF Turns, Fixed, Optional, Pinned, Guarantees

\* A turn arms what it wants and has not armed, and only at its two places.
LEMMA DueIsWanted ==
    ASSUME TypeOK, NEW t \in Turns, NEW g \in Due(t)
    PROVE  g \in wants[t] /\ g \in Guarantees /\ place[t] \in {"pinning", "arming"}
<1>1. place[t] = "pinning" \/ place[t] = "arming"
  BY DEF Due
<1> QED
  BY <1>1 DEF Due, TypeOK

\* Every step keeps the types of the record.
LEMMA TypeStep1 ==
    ASSUME TypeOK, ModeInv, [Next]_vars
    PROVE  TypeOK1'
<1>1. ASSUME NEW t \in Turns, Unwinds(t) \/ Answers(t) \/ Aftercare(t) \/ SkipsCompaction(t) \/ Wedge(t) \/ Raises(t) \/ CompactionEnds(t) \/ Armed(t) \/ Compacts(t) \/ Over(t)
      PROVE  TypeOK1'
  BY <1>1, Kinds
    DEF Unwinds, Answers, Aftercare, SkipsCompaction, Wedge, Raises, CompactionEnds,
        Armed, Compacts, Over, Goes, TypeOK, TypeOK1, ModeInv
<1>2. CASE ClickMode \/ ClickPick
  BY <1>2, Kinds
    DEF ClickMode, ClickPick, Click, TypeOK, TypeOK1, ModeInv
<1>3. ASSUME NEW t \in Turns, Begin(t)
      PROVE  TypeOK1'
  BY <1>3, Kinds
    DEF Begin, Goes, SnapshotMode, TypeOK, TypeOK1, ModeInv
<1>4. ASSUME NEW t \in Turns, Arm(t)
      PROVE  TypeOK1'
  BY <1>4, Kinds, DueIsWanted
    DEF Arm, ArmToken, Notes, TypeOK, TypeOK1, ModeInv
<1>5. ASSUME NEW t \in Turns, Pinning(t)
      PROVE  TypeOK1'
  BY <1>5, Kinds
    DEF Pinning, Goes, Repin, TypeOK, TypeOK1, ModeInv
<1>6. ASSUME NEW t \in Turns, Gate(t)
      PROVE  TypeOK1'
  BY <1>6, Kinds
    DEF Gate, Goes, ArmToken, TypeOK, TypeOK1, ModeInv
<1>7. ASSUME NEW t \in Turns, Escalate(t)
      PROVE  TypeOK1'
  BY <1>7, Kinds
    DEF Escalate, SnapshotMode, Repin, TypeOK, TypeOK1, ModeInv
<1>8. ASSUME NEW t \in Turns, Disarm(t)
      PROVE  TypeOK1'
  BY <1>8, Kinds
    DEF Disarm, DisarmToken, Notes, TypeOK, TypeOK1, ModeInv
<1>9. CASE UNCHANGED vars
  BY <1>9
    DEF vars, TypeOK, TypeOK1, ModeInv
<1> QED
  BY <1>1, <1>2, <1>3, <1>4, <1>5, <1>6, <1>7, <1>8, <1>9
    DEF Next, TurnStep

\* Every step keeps the types of the lock and the places.
LEMMA TypeStep2 ==
    ASSUME TypeOK, [Next]_vars
    PROVE  TypeOK2'
<1>1. ASSUME NEW t \in Turns, Unwinds(t) \/ Answers(t) \/ Aftercare(t) \/ SkipsCompaction(t) \/ Wedge(t) \/ Raises(t) \/ CompactionEnds(t) \/ Armed(t) \/ Compacts(t) \/ Over(t)
      PROVE  TypeOK2'
  BY <1>1, Kinds
    DEF Unwinds, Answers, Aftercare, SkipsCompaction, Wedge, Raises, CompactionEnds,
        Armed, Compacts, Over, Goes, TypeOK, TypeOK2, Places
<1>2. CASE ClickMode \/ ClickPick
  BY <1>2, Kinds
    DEF ClickMode, ClickPick, Click, TypeOK, TypeOK2, Places
<1>3. ASSUME NEW t \in Turns, Begin(t)
      PROVE  TypeOK2'
  BY <1>3, Kinds
    DEF Begin, Goes, SnapshotMode, TypeOK, TypeOK2, Places
<1>4. ASSUME NEW t \in Turns, Arm(t)
      PROVE  TypeOK2'
  BY <1>4, Kinds
    DEF Arm, ArmToken, TypeOK, TypeOK2, Places
<1>5. ASSUME NEW t \in Turns, Pinning(t)
      PROVE  TypeOK2'
  BY <1>5, Kinds
    DEF Pinning, Goes, Repin, TypeOK, TypeOK2, Places
<1>6. ASSUME NEW t \in Turns, Gate(t)
      PROVE  TypeOK2'
  BY <1>6, Kinds
    DEF Gate, Goes, ArmToken, TypeOK, TypeOK2, Places
<1>7. ASSUME NEW t \in Turns, Escalate(t)
      PROVE  TypeOK2'
  BY <1>7, Kinds
    DEF Escalate, SnapshotMode, Repin, TypeOK, TypeOK2, Places
<1>8. ASSUME NEW t \in Turns, Disarm(t)
      PROVE  TypeOK2'
  BY <1>8, Kinds
    DEF Disarm, DisarmToken, TypeOK, TypeOK2, Places
<1>9. CASE UNCHANGED vars
  BY <1>9
    DEF vars, TypeOK, TypeOK2, Places
<1> QED
  BY <1>1, <1>2, <1>3, <1>4, <1>5, <1>6, <1>7, <1>8, <1>9
    DEF Next, TurnStep

\* Every step keeps the types of what turns want, arm and note.
LEMMA TypeStep3 ==
    ASSUME TypeOK, ModeInv, [Next]_vars
    PROVE  TypeOK3'
<1>1. ASSUME NEW t \in Turns, Unwinds(t) \/ Answers(t) \/ Aftercare(t) \/ SkipsCompaction(t) \/ Wedge(t) \/ Raises(t) \/ CompactionEnds(t) \/ Armed(t) \/ Compacts(t) \/ Over(t)
      PROVE  TypeOK3'
  BY <1>1, Kinds
    DEF Unwinds, Answers, Aftercare, SkipsCompaction, Wedge, Raises, CompactionEnds,
        Armed, Compacts, Over, Goes, TypeOK, TypeOK3, Notes
<1>2. CASE ClickMode \/ ClickPick
  BY <1>2, Kinds
    DEF ClickMode, ClickPick, Click, TypeOK, TypeOK3, Notes
<1>3. ASSUME NEW t \in Turns, Begin(t)
      PROVE  TypeOK3'
  <2>1. wants' \in [Turns -> SUBSET Guarantees]
    BY <1>3, WantsAreGuarantees DEF Begin, TypeOK
  <2>2. PICK m \in (IF t \in Builds THEN {SnapshotMode, "implement"} ELSE {"auto"}) :
           noted' = [noted EXCEPT ![t] = [noted[t] EXCEPT !.mode = m,
                                                          !.generation = generation']]
    BY <1>3, Zenon DEF Begin
  <2>3. m \in Modes
    BY <2>2 DEF SnapshotMode, ModeInv, TypeOK
  <2>4. generation' \in Nat /\ noted[t] \in Notes
    BY <1>3 DEF Begin, TypeOK
  <2>5. noted' \in [Turns -> Notes]
    BY <2>2, <2>3, <2>4 DEF TypeOK, Notes
  <2> QED
    BY <1>3, <2>1, <2>5 DEF Begin, TypeOK, TypeOK3
<1>4. ASSUME NEW t \in Turns, Arm(t)
      PROVE  TypeOK3'
  BY <1>4, Kinds, DueIsWanted
    DEF Arm, ArmToken, TypeOK, TypeOK3, Notes
<1>5. ASSUME NEW t \in Turns, Pinning(t)
      PROVE  TypeOK3'
  BY <1>5, Kinds
    DEF Pinning, Goes, Repin, TypeOK, TypeOK3, Notes
<1>6. ASSUME NEW t \in Turns, Gate(t)
      PROVE  TypeOK3'
  BY <1>6, Kinds
    DEF Gate, Goes, ArmToken, TypeOK, TypeOK3, Notes
<1>7. ASSUME NEW t \in Turns, Escalate(t)
      PROVE  TypeOK3'
  BY <1>7, Kinds
    DEF Escalate, SnapshotMode, Repin, TypeOK, TypeOK3, Notes
<1>8. ASSUME NEW t \in Turns, Disarm(t)
      PROVE  TypeOK3'
  BY <1>8, Kinds
    DEF Disarm, DisarmToken, TypeOK, TypeOK3, Notes
<1>9. CASE UNCHANGED vars
  BY <1>9
    DEF vars, TypeOK, TypeOK3, Notes
<1> QED
  BY <1>1, <1>2, <1>3, <1>4, <1>5, <1>6, <1>7, <1>8, <1>9
    DEF Next, TurnStep

\* Every step keeps who holds the lock.
LEMMA LockStep ==
    ASSUME IInv, [Next]_vars
    PROVE  LockInv'
<1>1. ASSUME NEW t \in Turns, Unwinds(t) \/ Wedge(t) \/ Armed(t)
      PROVE  LockInv'
  BY <1>1, Kinds
    DEF Unwinds, Wedge, Armed, Goes, IInv, TypeOK, LockInv, KindInv, Holds
<1>2. ASSUME NEW t \in Turns, Answers(t) \/ SkipsCompaction(t)
      PROVE  LockInv'
  BY <1>2, Kinds
    DEF Answers, SkipsCompaction, Goes, IInv, TypeOK, LockInv, KindInv, Holds
<1>3. CASE ClickMode \/ ClickPick
  BY <1>3, Kinds
    DEF ClickMode, ClickPick, Click, IInv, TypeOK, LockInv, KindInv, Holds
<1>4. ASSUME NEW t \in Turns, Begin(t)
      PROVE  LockInv'
  BY <1>4, Kinds
    DEF Begin, Goes, SnapshotMode, IInv, TypeOK, LockInv, KindInv, Holds
<1>5. ASSUME NEW t \in Turns, Arm(t)
      PROVE  LockInv'
  BY <1>5, Kinds
    DEF Arm, ArmToken, IInv, TypeOK, LockInv, KindInv, Holds
<1>6. ASSUME NEW t \in Turns, Pinning(t)
      PROVE  LockInv'
  BY <1>6, Kinds
    DEF Pinning, Goes, Repin, IInv, TypeOK, LockInv, KindInv, Holds
<1>7. ASSUME NEW t \in Turns, Gate(t)
      PROVE  LockInv'
  BY <1>7, Kinds
    DEF Gate, Goes, ArmToken, IInv, TypeOK, LockInv, KindInv, Holds
<1>8. ASSUME NEW t \in Turns, Escalate(t)
      PROVE  LockInv'
  BY <1>8, Kinds
    DEF Escalate, SnapshotMode, Repin, IInv, TypeOK, LockInv, KindInv, Holds
<1>9. ASSUME NEW t \in Turns, Aftercare(t)
      PROVE  LockInv'
  BY <1>9, Kinds
    DEF Aftercare, Goes, IInv, TypeOK, LockInv, KindInv, Holds
<1>10. ASSUME NEW t \in Turns, Compacts(t)
      PROVE  LockInv'
  BY <1>10, Kinds
    DEF Compacts, Goes, IInv, TypeOK, LockInv, KindInv, Holds
<1>11. ASSUME NEW t \in Turns, CompactionEnds(t)
      PROVE  LockInv'
  BY <1>11, Kinds
    DEF CompactionEnds, Goes, IInv, TypeOK, LockInv, KindInv, Holds
<1>12. ASSUME NEW t \in Turns, Disarm(t)
      PROVE  LockInv'
  BY <1>12, Kinds
    DEF Disarm, DisarmToken, IInv, TypeOK, LockInv, KindInv, Holds
<1>13. ASSUME NEW t \in Turns, Over(t)
      PROVE  LockInv'
  BY <1>13, Kinds
    DEF Over, Goes, IInv, TypeOK, LockInv, KindInv, Holds
<1>14. ASSUME NEW t \in Turns, Raises(t)
      PROVE  LockInv'
  BY <1>14, Kinds
    DEF Raises, IInv, TypeOK, LockInv, KindInv, Holds
<1>15. CASE UNCHANGED vars
  BY <1>15
    DEF vars, IInv, TypeOK, LockInv, KindInv, Holds
<1> QED
  BY <1>1, <1>2, <1>3, <1>4, <1>5, <1>6, <1>7, <1>8, <1>9, <1>10, <1>11, <1>12,
      <1>13, <1>14, <1>15
    DEF Next, TurnStep

\* Every step keeps the pinned mode.
LEMMA ModeStep ==
    ASSUME IInv, [Next]_vars
    PROVE  ModeInv'
<1>1. ASSUME NEW t \in Turns, Unwinds(t) \/ Answers(t) \/ Aftercare(t) \/ SkipsCompaction(t) \/ Wedge(t) \/ Raises(t) \/ CompactionEnds(t) \/ Armed(t) \/ Compacts(t) \/ Over(t)
      PROVE  ModeInv'
  BY <1>1, Kinds
    DEF Unwinds, Answers, Aftercare, SkipsCompaction, Wedge, Raises, CompactionEnds,
        Armed, Compacts, Over, Goes, IInv, TypeOK, ModeInv, Notes
<1>2. CASE ClickMode \/ ClickPick
  BY <1>2, Kinds
    DEF ClickMode, ClickPick, Click, IInv, TypeOK, ModeInv, Notes
<1>3. ASSUME NEW t \in Turns, Begin(t)
      PROVE  ModeInv'
  BY <1>3, Kinds
    DEF Begin, Goes, SnapshotMode, IInv, TypeOK, ModeInv, Notes
<1>4. ASSUME NEW t \in Turns, Arm(t)
      PROVE  ModeInv'
  BY <1>4, Kinds
    DEF Arm, ArmToken, IInv, TypeOK, ModeInv, Notes
<1>5. ASSUME NEW t \in Turns, Pinning(t)
      PROVE  ModeInv'
  BY <1>5, Kinds
    DEF Pinning, Goes, Repin, IInv, TypeOK, ModeInv, Notes
<1>6. ASSUME NEW t \in Turns, Gate(t)
      PROVE  ModeInv'
  BY <1>6, Kinds
    DEF Gate, Goes, ArmToken, IInv, TypeOK, ModeInv, Notes
<1>7. ASSUME NEW t \in Turns, Escalate(t)
      PROVE  ModeInv'
  BY <1>7, Kinds
    DEF Escalate, SnapshotMode, Repin, IInv, TypeOK, ModeInv, Notes
<1>8. ASSUME NEW t \in Turns, Disarm(t)
      PROVE  ModeInv'
  BY <1>8, Kinds
    DEF Disarm, DisarmToken, IInv, TypeOK, ModeInv, Notes
<1>9. CASE UNCHANGED vars
  BY <1>9
    DEF vars, IInv, TypeOK, ModeInv, Notes
<1> QED
  BY <1>1, <1>2, <1>3, <1>4, <1>5, <1>6, <1>7, <1>8, <1>9
    DEF Next, TurnStep

\* Every step keeps in force what is armed by a turn at work.
LEMMA ForceStep ==
    ASSUME IInv, [Next]_vars
    PROVE  ForceInv'
<1>1. ASSUME NEW t \in Turns, Unwinds(t) \/ Answers(t) \/ Aftercare(t) \/ SkipsCompaction(t) \/ Wedge(t) \/ Raises(t) \/ CompactionEnds(t) \/ Armed(t) \/ Compacts(t) \/ Over(t)
      PROVE  ForceInv'
  BY <1>1, Kinds
    DEF Unwinds, Answers, Aftercare, SkipsCompaction, Wedge, Raises, CompactionEnds,
        Armed, Compacts, Over, Goes, IInv, TypeOK, ForceInv, LockInv, WantInv,
        Holds, Arming
<1>2. CASE ClickMode \/ ClickPick
  BY <1>2, Kinds
    DEF ClickMode, ClickPick, Click, IInv, TypeOK, ForceInv, LockInv, WantInv,
        Holds, Arming
<1>3. ASSUME NEW t \in Turns, Begin(t)
      PROVE  ForceInv'
  BY <1>3, Kinds
    DEF Begin, Goes, SnapshotMode, IInv, TypeOK, ForceInv, LockInv, WantInv, Holds,
        Arming
<1>4. ASSUME NEW t \in Turns, Arm(t)
      PROVE  ForceInv'
  BY <1>4, Kinds, DueIsWanted
    DEF Arm, ArmToken, IInv, TypeOK, ForceInv, LockInv, WantInv, Holds, Arming
<1>5. ASSUME NEW t \in Turns, Pinning(t)
      PROVE  ForceInv'
  BY <1>5, Kinds
    DEF Pinning, Goes, Repin, IInv, TypeOK, ForceInv, LockInv, WantInv, Holds,
        Arming
<1>6. ASSUME NEW t \in Turns, Gate(t)
      PROVE  ForceInv'
  BY <1>6, Kinds
    DEF Gate, Goes, ArmToken, IInv, TypeOK, ForceInv, LockInv, WantInv, Holds,
        Arming
<1>7. ASSUME NEW t \in Turns, Escalate(t)
      PROVE  ForceInv'
  BY <1>7, Kinds
    DEF Escalate, SnapshotMode, Repin, IInv, TypeOK, ForceInv, LockInv, WantInv,
        Holds, Arming
<1>8. ASSUME NEW t \in Turns, Disarm(t)
      PROVE  ForceInv'
  BY <1>8, Kinds
    DEF Disarm, DisarmToken, IInv, TypeOK, ForceInv, LockInv, WantInv, Holds, Arming
<1>9. CASE UNCHANGED vars
  BY <1>9
    DEF vars, IInv, TypeOK, ForceInv, LockInv, WantInv, Holds, Arming
<1> QED
  BY <1>1, <1>2, <1>3, <1>4, <1>5, <1>6, <1>7, <1>8, <1>9
    DEF Next, TurnStep

\* Every step keeps what is armed at each place.
LEMMA WantStep ==
    ASSUME IInv, [Next]_vars
    PROVE  WantInv'
<1>1. ASSUME NEW t \in Turns, Unwinds(t) \/ Answers(t) \/ Aftercare(t) \/ SkipsCompaction(t) \/ Wedge(t) \/ Raises(t) \/ CompactionEnds(t)
      PROVE  WantInv'
  BY <1>1, Kinds
    DEF Unwinds, Answers, Aftercare, SkipsCompaction, Wedge, Raises, CompactionEnds,
        Goes, IInv, TypeOK, WantInv
<1>2. ASSUME NEW t \in Turns, Armed(t)
      PROVE  WantInv'
  BY <1>2, Kinds
    DEF Armed, Goes, Due, KindInv, IInv, TypeOK, WantInv
<1>3. ASSUME NEW t \in Turns, Compacts(t) \/ Over(t)
      PROVE  WantInv'
  BY <1>3, Kinds
    DEF Compacts, Over, Goes, IInv, TypeOK, WantInv
<1>4. CASE ClickMode \/ ClickPick
  BY <1>4, Kinds
    DEF ClickMode, ClickPick, Click, IInv, TypeOK, WantInv
<1>5. ASSUME NEW t \in Turns, Begin(t)
      PROVE  WantInv'
  BY <1>5, Kinds
    DEF Begin, Goes, SnapshotMode, IInv, TypeOK, WantInv
<1>6. ASSUME NEW t \in Turns, Arm(t)
      PROVE  WantInv'
  BY <1>6, Kinds, DueIsWanted
    DEF Arm, ArmToken, IInv, TypeOK, WantInv
<1>7. ASSUME NEW t \in Turns, Pinning(t)
      PROVE  WantInv'
  BY <1>7, Kinds
    DEF Pinning, Goes, Repin, IInv, TypeOK, WantInv
<1>8. ASSUME NEW t \in Turns, Gate(t)
      PROVE  WantInv'
  BY <1>8, Kinds
    DEF Gate, Goes, ArmToken, IInv, TypeOK, WantInv
<1>9. ASSUME NEW t \in Turns, Escalate(t)
      PROVE  WantInv'
  BY <1>9, Kinds
    DEF Escalate, SnapshotMode, Repin, IInv, TypeOK, WantInv
<1>10. ASSUME NEW t \in Turns, Disarm(t)
      PROVE  WantInv'
  BY <1>10, Kinds
    DEF Disarm, DisarmToken, IInv, TypeOK, WantInv
<1>11. CASE UNCHANGED vars
  BY <1>11
    DEF vars, IInv, TypeOK, WantInv
<1> QED
  BY <1>1, <1>2, <1>3, <1>4, <1>5, <1>6, <1>7, <1>8, <1>9, <1>10, <1>11
    DEF Next, TurnStep

\* Every step keeps the pins each kind of turn wants.
LEMMA KindStep ==
    ASSUME IInv, [Next]_vars
    PROVE  KindInv'
<1>1. ASSUME NEW t \in Turns, Unwinds(t) \/ Answers(t) \/ Aftercare(t) \/ SkipsCompaction(t) \/ Wedge(t) \/ Raises(t) \/ CompactionEnds(t) \/ Armed(t) \/ Compacts(t) \/ Over(t)
      PROVE  KindInv'
  BY <1>1, Kinds
    DEF Unwinds, Answers, Aftercare, SkipsCompaction, Wedge, Raises, CompactionEnds,
        Armed, Compacts, Over, Goes, IInv, TypeOK, KindInv
<1>2. ASSUME NEW t \in Turns, Arm(t) \/ Pinning(t) \/ Gate(t) \/ Escalate(t) \/ Disarm(t)
      PROVE  KindInv'
  BY <1>2, Kinds
    DEF Arm, Pinning, Gate, Escalate, Disarm, ArmToken, Goes, Repin, SnapshotMode,
        DisarmToken, IInv, TypeOK, KindInv
<1>3. CASE ClickMode \/ ClickPick
  BY <1>3, Kinds
    DEF ClickMode, ClickPick, Click, IInv, TypeOK, KindInv
<1>4. ASSUME NEW t \in Turns, Begin(t)
      PROVE  KindInv'
  BY <1>4, Kinds
    DEF Begin, Goes, SnapshotMode, Fixed, Optional, Pinned, IInv, TypeOK, KindInv
<1>5. CASE UNCHANGED vars
  BY <1>5
    DEF vars, IInv, TypeOK, KindInv
<1> QED
  BY <1>1, <1>2, <1>3, <1>4, <1>5
    DEF Next, TurnStep

\* Every step keeps the noted generations.
LEMMA GenStep ==
    ASSUME IInv, [Next]_vars
    PROVE  GenInv'
<1>1. ASSUME NEW t \in Turns, Unwinds(t) \/ Answers(t) \/ Aftercare(t) \/ SkipsCompaction(t) \/ Wedge(t) \/ Raises(t) \/ CompactionEnds(t) \/ Armed(t)
      PROVE  GenInv'
  BY <1>1, Kinds
    DEF Unwinds, Answers, Aftercare, SkipsCompaction, Wedge, Raises, CompactionEnds,
        Armed, Goes, IInv, TypeOK, GenInv, LockInv, Holds, Notes
<1>2. ASSUME NEW t \in Turns, Over(t) \/ Compacts(t)
      PROVE  GenInv'
  BY <1>2, Kinds
    DEF Over, Compacts, Goes, IInv, TypeOK, GenInv, LockInv, Holds, Notes
<1>3. ASSUME NEW t \in Turns, Arm(t) \/ Gate(t) \/ Escalate(t) \/ Disarm(t)
      PROVE  GenInv'
  BY <1>3, Kinds
    DEF Arm, Gate, Escalate, Disarm, ArmToken, Goes, SnapshotMode, Repin,
        DisarmToken, IInv, TypeOK, GenInv, LockInv, Holds, Notes
<1>4. CASE ClickMode \/ ClickPick
  BY <1>4, Kinds
    DEF ClickMode, ClickPick, Click, IInv, TypeOK, GenInv, LockInv, Holds, Notes
<1>5. ASSUME NEW t \in Turns, Begin(t)
      PROVE  GenInv'
  BY <1>5, Kinds
    DEF Begin, Goes, SnapshotMode, IInv, TypeOK, GenInv, LockInv, Holds, Notes
<1>6. ASSUME NEW t \in Turns, Pinning(t)
      PROVE  GenInv'
  BY <1>6, Kinds
    DEF Pinning, Goes, Repin, IInv, TypeOK, GenInv, LockInv, Holds, Notes
<1>7. CASE UNCHANGED vars
  BY <1>7
    DEF vars, IInv, TypeOK, GenInv, LockInv, Holds, Notes
<1> QED
  BY <1>1, <1>2, <1>3, <1>4, <1>5, <1>6, <1>7
    DEF Next, TurnStep

\* Every step keeps the pin of a Chat turn that no other has followed.
LEMMA ChatStep ==
    ASSUME IInv, [Next]_vars
    PROVE  ChatInv'
<1>1. ASSUME NEW t \in Turns, Unwinds(t) \/ Aftercare(t) \/ SkipsCompaction(t) \/ Wedge(t) \/ Raises(t) \/ CompactionEnds(t) \/ Armed(t)
      PROVE  ChatInv'
  BY <1>1, Kinds
    DEF Unwinds, Aftercare, SkipsCompaction, Wedge, Raises, CompactionEnds, Armed,
        Goes, IInv, TypeOK, ChatInv, GenInv, KindInv, WantInv, ForceInv, Holds,
        Arming
<1>2. ASSUME NEW t \in Turns, Compacts(t) \/ Over(t)
      PROVE  ChatInv'
  BY <1>2, Kinds
    DEF Compacts, Over, Goes, IInv, TypeOK, ChatInv, GenInv, KindInv, WantInv,
        ForceInv, Holds, Arming
<1>3. CASE ClickMode \/ ClickPick
  BY <1>3, Kinds
    DEF ClickMode, ClickPick, Click, IInv, TypeOK, ChatInv, GenInv, KindInv,
        WantInv, ForceInv, Holds, Arming
<1>4. ASSUME NEW t \in Turns, Begin(t)
      PROVE  ChatInv'
  BY <1>4, Kinds
    DEF Begin, Goes, SnapshotMode, IInv, TypeOK, ChatInv, GenInv, KindInv, WantInv,
        ForceInv, Holds, Arming
<1>5. ASSUME NEW t \in Turns, Arm(t)
      PROVE  ChatInv'
  BY <1>5, Kinds, DueIsWanted
    DEF Arm, ArmToken, IInv, TypeOK, ChatInv, GenInv, KindInv, WantInv, ForceInv,
        Holds, Arming
<1>6. ASSUME NEW t \in Turns, Pinning(t)
      PROVE  ChatInv'
  BY <1>6, Kinds
    DEF Pinning, Goes, Repin, IInv, TypeOK, ChatInv, GenInv, KindInv, WantInv,
        ForceInv, Holds, Arming
<1>7. ASSUME NEW t \in Turns, Gate(t)
      PROVE  ChatInv'
  BY <1>7, Kinds
    DEF Gate, Goes, ArmToken, IInv, TypeOK, ChatInv, GenInv, KindInv, WantInv,
        ForceInv, Holds, Arming
<1>8. ASSUME NEW t \in Turns, Escalate(t)
      PROVE  ChatInv'
  BY <1>8, Kinds
    DEF Escalate, SnapshotMode, Repin, IInv, TypeOK, ChatInv, GenInv, KindInv,
        WantInv, ForceInv, Holds, Arming
<1>9. ASSUME NEW t \in Turns, Answers(t)
      PROVE  ChatInv'
  BY <1>9, Kinds
    DEF Answers, Goes, IInv, TypeOK, ChatInv, GenInv, KindInv, WantInv, ForceInv,
        Holds, Arming
<1>10. ASSUME NEW t \in Turns, Disarm(t)
      PROVE  ChatInv'
  BY <1>10, Kinds
    DEF Disarm, DisarmToken, IInv, TypeOK, ChatInv, GenInv, KindInv, WantInv,
        ForceInv, Holds, Arming
<1>11. CASE UNCHANGED vars
  BY <1>11
    DEF vars, IInv, TypeOK, ChatInv, GenInv, KindInv, WantInv, ForceInv, Holds,
        Arming
<1> QED
  BY <1>1, <1>2, <1>3, <1>4, <1>5, <1>6, <1>7, <1>8, <1>9, <1>10, <1>11
    DEF Next, TurnStep

\* Every step keeps who took the strong model.
LEMMA TakenStep ==
    ASSUME IInv, [Next]_vars
    PROVE  TakenInv'
<1>1. ASSUME NEW t \in Turns, Unwinds(t) \/ Answers(t) \/ Aftercare(t) \/ SkipsCompaction(t) \/ Wedge(t) \/ Raises(t) \/ CompactionEnds(t) \/ Armed(t) \/ Compacts(t) \/ Over(t)
      PROVE  TakenInv'
  BY <1>1, Kinds
    DEF Unwinds, Answers, Aftercare, SkipsCompaction, Wedge, Raises, CompactionEnds,
        Armed, Compacts, Over, Goes, IInv, TypeOK, TakenInv
<1>2. CASE ClickMode \/ ClickPick
  BY <1>2, Kinds
    DEF ClickMode, ClickPick, Click, IInv, TypeOK, TakenInv
<1>3. ASSUME NEW t \in Turns, Begin(t)
      PROVE  TakenInv'
  BY <1>3, Kinds
    DEF Begin, Goes, SnapshotMode, IInv, TypeOK, TakenInv
<1>4. ASSUME NEW t \in Turns, Arm(t)
      PROVE  TakenInv'
  BY <1>4, Kinds, DueIsWanted
    DEF Arm, ArmToken, IInv, TypeOK, TakenInv
<1>5. ASSUME NEW t \in Turns, Pinning(t)
      PROVE  TakenInv'
  BY <1>5, Kinds
    DEF Pinning, Goes, Repin, IInv, TypeOK, TakenInv
<1>6. ASSUME NEW t \in Turns, Gate(t)
      PROVE  TakenInv'
  BY <1>6, Kinds
    DEF Gate, Goes, ArmToken, IInv, TypeOK, TakenInv
<1>7. ASSUME NEW t \in Turns, Escalate(t)
      PROVE  TakenInv'
  BY <1>7, Kinds
    DEF Escalate, SnapshotMode, Repin, IInv, TypeOK, TakenInv
<1>8. ASSUME NEW t \in Turns, Disarm(t)
      PROVE  TakenInv'
  BY <1>8, Kinds
    DEF Disarm, DisarmToken, IInv, TypeOK, TakenInv
<1>9. CASE UNCHANGED vars
  BY <1>9
    DEF vars, IInv, TypeOK, TakenInv
<1> QED
  BY <1>1, <1>2, <1>3, <1>4, <1>5, <1>6, <1>7, <1>8, <1>9
    DEF Next, TurnStep

\* Every step keeps what a Build found picked.
LEMMA FoundStep ==
    ASSUME IInv, [Next]_vars
    PROVE  FoundInv'
<1>1. ASSUME NEW t \in Turns, Unwinds(t) \/ Answers(t) \/ Aftercare(t) \/ SkipsCompaction(t) \/ Wedge(t) \/ Raises(t) \/ CompactionEnds(t) \/ Armed(t) \/ Compacts(t) \/ Over(t)
      PROVE  FoundInv'
  BY <1>1, Kinds
    DEF Unwinds, Answers, Aftercare, SkipsCompaction, Wedge, Raises, CompactionEnds,
        Armed, Compacts, Over, Goes, IInv, TypeOK, FoundInv, Notes
<1>2. CASE ClickMode \/ ClickPick
  BY <1>2, Kinds
    DEF ClickMode, ClickPick, Click, IInv, TypeOK, FoundInv, Notes
<1>3. ASSUME NEW t \in Turns, Begin(t)
      PROVE  FoundInv'
  BY <1>3, Kinds
    DEF Begin, Goes, SnapshotMode, IInv, TypeOK, FoundInv, Notes
<1>4. ASSUME NEW t \in Turns, Arm(t)
      PROVE  FoundInv'
  BY <1>4, Kinds, DueIsWanted
    DEF Arm, ArmToken, IInv, TypeOK, FoundInv, Notes
<1>5. ASSUME NEW t \in Turns, Pinning(t)
      PROVE  FoundInv'
  BY <1>5, Kinds
    DEF Pinning, Goes, Repin, TakenInv, NoStrandedEscalation, LockInv, Holds, IInv,
        TypeOK, FoundInv, Notes
<1>6. ASSUME NEW t \in Turns, Gate(t)
      PROVE  FoundInv'
  BY <1>6, Kinds
    DEF Gate, Goes, ArmToken, IInv, TypeOK, FoundInv, Notes
<1>7. ASSUME NEW t \in Turns, Escalate(t)
      PROVE  FoundInv'
  BY <1>7, Kinds
    DEF Escalate, SnapshotMode, Repin, IInv, TypeOK, FoundInv, Notes
<1>8. ASSUME NEW t \in Turns, Disarm(t)
      PROVE  FoundInv'
  BY <1>8, Kinds
    DEF Disarm, DisarmToken, IInv, TypeOK, FoundInv, Notes
<1>9. CASE UNCHANGED vars
  BY <1>9
    DEF vars, IInv, TypeOK, FoundInv, Notes
<1> QED
  BY <1>1, <1>2, <1>3, <1>4, <1>5, <1>6, <1>7, <1>8, <1>9
    DEF Next, TurnStep

\* Every step keeps arms and tokens together.
LEMMA StaleStep ==
    ASSUME IInv, [Next]_vars
    PROVE  NoStaleArm'
<1>1. ASSUME NEW t \in Turns, Unwinds(t) \/ Answers(t) \/ Aftercare(t) \/ SkipsCompaction(t) \/ Wedge(t) \/ Raises(t) \/ CompactionEnds(t) \/ Armed(t) \/ Compacts(t) \/ Over(t)
      PROVE  NoStaleArm'
  BY <1>1, Kinds
    DEF Unwinds, Answers, Aftercare, SkipsCompaction, Wedge, Raises, CompactionEnds,
        Armed, Compacts, Over, Goes, IInv, TypeOK, NoStaleArm
<1>2. CASE ClickMode \/ ClickPick
  BY <1>2, Kinds
    DEF ClickMode, ClickPick, Click, IInv, TypeOK, NoStaleArm
<1>3. ASSUME NEW t \in Turns, Begin(t)
      PROVE  NoStaleArm'
  BY <1>3, Kinds
    DEF Begin, Goes, SnapshotMode, IInv, TypeOK, NoStaleArm
<1>4. ASSUME NEW t \in Turns, Arm(t)
      PROVE  NoStaleArm'
  BY <1>4, Kinds, DueIsWanted
    DEF Arm, ArmToken, IInv, TypeOK, NoStaleArm
<1>5. ASSUME NEW t \in Turns, Pinning(t)
      PROVE  NoStaleArm'
  BY <1>5, Kinds
    DEF Pinning, Goes, Repin, IInv, TypeOK, NoStaleArm
<1>6. ASSUME NEW t \in Turns, Gate(t)
      PROVE  NoStaleArm'
  BY <1>6, Kinds
    DEF Gate, Goes, ArmToken, IInv, TypeOK, NoStaleArm
<1>7. ASSUME NEW t \in Turns, Escalate(t)
      PROVE  NoStaleArm'
  BY <1>7, Kinds
    DEF Escalate, SnapshotMode, Repin, IInv, TypeOK, NoStaleArm
<1>8. ASSUME NEW t \in Turns, Disarm(t)
      PROVE  NoStaleArm'
  BY <1>8, Kinds
    DEF Disarm, DisarmToken, IInv, TypeOK, NoStaleArm
<1>9. CASE UNCHANGED vars
  BY <1>9
    DEF vars, IInv, TypeOK, NoStaleArm
<1> QED
  BY <1>1, <1>2, <1>3, <1>4, <1>5, <1>6, <1>7, <1>8, <1>9
    DEF Next, TurnStep

\* Every step keeps a Build behind the strong model.
LEMMA StrandedStep ==
    ASSUME IInv, [Next]_vars
    PROVE  NoStrandedEscalation'
<1>1. ASSUME NEW t \in Turns, Unwinds(t) \/ Answers(t) \/ Aftercare(t) \/ SkipsCompaction(t) \/ Wedge(t) \/ Raises(t) \/ CompactionEnds(t) \/ Armed(t) \/ Compacts(t)
      PROVE  NoStrandedEscalation'
  BY <1>1, Kinds
    DEF Unwinds, Answers, Aftercare, SkipsCompaction, Wedge, Raises, CompactionEnds,
        Armed, Compacts, Goes, IInv, TypeOK, NoStrandedEscalation
<1>2. CASE ClickMode \/ ClickPick
  BY <1>2, Kinds
    DEF ClickMode, ClickPick, Click, IInv, TypeOK, NoStrandedEscalation
<1>3. ASSUME NEW t \in Turns, Begin(t)
      PROVE  NoStrandedEscalation'
  BY <1>3, Kinds
    DEF Begin, Goes, SnapshotMode, IInv, TypeOK, NoStrandedEscalation
<1>4. ASSUME NEW t \in Turns, Arm(t)
      PROVE  NoStrandedEscalation'
  BY <1>4, Kinds, DueIsWanted
    DEF Arm, ArmToken, IInv, TypeOK, NoStrandedEscalation
<1>5. ASSUME NEW t \in Turns, Pinning(t)
      PROVE  NoStrandedEscalation'
  BY <1>5, Kinds
    DEF Pinning, Goes, Repin, IInv, TypeOK, NoStrandedEscalation
<1>6. ASSUME NEW t \in Turns, Gate(t)
      PROVE  NoStrandedEscalation'
  BY <1>6, Kinds
    DEF Gate, Goes, ArmToken, IInv, TypeOK, NoStrandedEscalation
<1>7. ASSUME NEW t \in Turns, Escalate(t)
      PROVE  NoStrandedEscalation'
  BY <1>7, Kinds
    DEF Escalate, SnapshotMode, Repin, IInv, TypeOK, NoStrandedEscalation
<1>8. ASSUME NEW t \in Turns, Disarm(t)
      PROVE  NoStrandedEscalation'
  BY <1>8, Kinds
    DEF Disarm, DisarmToken, FoundInv, IInv, TypeOK, NoStrandedEscalation
<1>9. ASSUME NEW t \in Turns, Over(t)
      PROVE  NoStrandedEscalation'
  BY <1>9, Kinds
    DEF Over, Goes, IInv, TypeOK, NoStrandedEscalation
<1>10. CASE UNCHANGED vars
  BY <1>10
    DEF vars, IInv, TypeOK, NoStrandedEscalation
<1> QED
  BY <1>1, <1>2, <1>3, <1>4, <1>5, <1>6, <1>7, <1>8, <1>9, <1>10
    DEF Next, TurnStep

-----------------------------------------------------------------------------
(***************************************************************************)
(* The theorems.                                                           *)
(***************************************************************************)
\* The first states satisfy the inductive invariant.
LEMMA InvariantInit ==
    ASSUME Init PROVE IInv
<1>1. TypeOK /\ ModeInv
  BY Kinds DEF Init, TypeOK, ModeInv, Notes, Places
<1>2. LockInv /\ ForceInv /\ WantInv /\ NoStaleArm
  BY Kinds DEF Init, LockInv, ForceInv, WantInv, NoStaleArm, Holds, Arming
<1>3. KindInv /\ GenInv /\ ChatInv
  BY Kinds DEF Init, KindInv, GenInv, ChatInv, Holds
<1>4. TakenInv /\ FoundInv /\ NoStrandedEscalation
  BY Kinds DEF Init, TakenInv, FoundInv, NoStrandedEscalation
<1> QED
  BY <1>1, <1>2, <1>3, <1>4 DEF IInv

\* Every step keeps the inductive invariant.
LEMMA InvariantStep ==
    ASSUME IInv, [Next]_vars PROVE IInv'
<1>1. TypeOK /\ ModeInv
  BY DEF IInv
<1>2. TypeOK'
  BY <1>1, TypeStep1, TypeStep2, TypeStep3 DEF TypeOK, TypeOK1, TypeOK2, TypeOK3
<1>3. LockInv' /\ ModeInv' /\ ForceInv' /\ WantInv' /\ KindInv'
  BY LockStep, ModeStep, ForceStep, WantStep, KindStep
<1>4. GenInv' /\ ChatInv' /\ TakenInv' /\ FoundInv'
  BY GenStep, ChatStep, TakenStep, FoundStep
<1>5. NoStaleArm' /\ NoStrandedEscalation'
  BY StaleStep, StrandedStep
<1> QED
  BY <1>2, <1>3, <1>4, <1>5 DEF IInv

\* The inductive invariant holds in every reachable state.
THEOREM InductiveInvariant == Spec => []IInv
BY InvariantInit, InvariantStep, PTL DEF Spec

\* Every variable of the record and of the turns keeps its type, for any number of turns,
\* any modes and any models.
THEOREM TypeCorrect == Spec => []TypeOK
<1>1. IInv => TypeOK
  BY DEF IInv
<1> QED
  BY <1>1, InductiveInvariant, PTL

\* While the agent works for a turn, everything the turn armed is in force as this turn
\* armed it, however late other turns disarm (arm_*, disarm_*).
THEOREM GuaranteesAreKept == Spec => []KeepsItsGuarantees
<1>1. IInv => KeepsItsGuarantees
  BY Kinds DEF IInv, TypeOK, ForceInv, WantInv, Arming, KeepsItsGuarantees
<1> QED
  BY <1>1, InductiveInvariant, PTL

\* No way out of a turn that disarms forgets an arming (restore_mode, _chat_stream).
THEOREM NothingStaysArmed == Spec => []NoStaleArm
<1>1. IInv => NoStaleArm
  BY DEF IInv
<1> QED
  BY <1>1, InductiveInvariant, PTL

\* The strong model stays picked only while a Build is to put the pick back, or never will
\* (escalated_pick, restore_mode).
THEOREM EscalationsEnd == Spec => []NoStrandedEscalation
<1>1. IInv => NoStrandedEscalation
  BY DEF IInv
<1> QED
  BY <1>1, InductiveInvariant, PTL

\* The summary of a Chat is routed as that Chat (_maybe_compact_chat).
THEOREM CompactionKeepsItsThread == Spec => []CompactsAsItsThread
<1>1. IInv => CompactsAsItsThread
  BY Kinds DEF IInv, GenInv, ChatInv, Holds, CompactsAsItsThread
<1> QED
  BY <1>1, InductiveInvariant, PTL

\* A Build's pin stands from the time it works.
LEMMA PinStands ==
    ASSUME IInv, NEW t \in Builds, place[t] = "working"
    PROVE  token["mode"] = t /\ lock = t /\ t \in Turns
<1>1. t \in Turns /\ "mode" \in wants[t] /\ "mode" \in armed[t]
  BY Kinds DEF IInv, KindInv, WantInv
<1> QED
  BY <1>1, Kinds DEF IInv, ForceInv, LockInv, Arming, Holds

\* A step changes the mode of a working Build only by its own escalation.
LEMMA ModeIsKept ==
    ASSUME IInv, [Next]_vars, NEW t \in Builds,
           place[t] = "working", place'[t] = "working"
    PROVE  \/ SnapshotMode' = SnapshotMode
           \/ SnapshotMode = "auto" /\ SnapshotMode' = "implement" /\ mode' = mode
<1> DEFINE Kept == \/ SnapshotMode' = SnapshotMode
                   \/ SnapshotMode = "auto" /\ SnapshotMode' = "implement" /\ mode' = mode
<1>1. token["mode"] = t /\ lock = t /\ t \in Turns /\ Nobody \notin Turns
  BY Kinds, PinStands
<1>2. token["mode"] # Nobody /\ "mode" \in Guarantees /\ TypeOK /\ LockInv
  BY <1>1, Kinds DEF IInv
<1>3. ASSUME NEW u \in Turns, Arm(u) \/ Pinning(u) \/ Gate(u) PROVE Kept
  <2>1. u # t
    BY <1>1, <1>2, <1>3, DueIsWanted DEF Arm, Pinning, Gate, Goes
  <2>2. place[u] \in {"pinning", "arming", "gating"}
    BY <1>2, <1>3, DueIsWanted DEF Arm, Pinning, Gate, Goes
  <2> QED
    BY <1>1, <2>1, <2>2, <1>2 DEF LockInv, Holds
<1>4. ASSUME NEW u \in Turns, Begin(u) PROVE Kept
  BY <1>1, <1>4 DEF Begin
<1>5. ASSUME NEW u \in Turns, Escalate(u) PROVE Kept
  BY <1>1, <1>2, <1>5 DEF Escalate, SnapshotMode, Repin, TypeOK
<1>6. ASSUME NEW u \in Turns, Disarm(u) PROVE Kept
  <2>1. u # t
    BY <1>6 DEF Disarm
  <2>2. token' = token \/ \E g \in Guarantees \cup {"pick"} : DisarmToken(u, g)
    BY <1>2, <1>6 DEF Disarm, TypeOK
  <2>3. token'["mode"] = t
    BY <1>1, <1>2, <2>1, <2>2 DEF DisarmToken, TypeOK
  <2>4. turnMode' = turnMode
    BY <1>1, <1>6, <2>1 DEF Disarm
  <2> QED
    BY <1>1, <2>3, <2>4 DEF SnapshotMode
<1>7. ASSUME NEW u \in Turns,
             \/ Armed(u) \/ Unwinds(u) \/ Answers(u) \/ Aftercare(u) \/ SkipsCompaction(u)
             \/ Compacts(u) \/ CompactionEnds(u) \/ Over(u) \/ Wedge(u) \/ Raises(u)
      PROVE  Kept
  BY <1>7
    DEF Armed, Unwinds, Answers, Aftercare, SkipsCompaction, Compacts, CompactionEnds,
        Over, Wedge, Raises, SnapshotMode
<1>8. CASE ClickMode \/ ClickPick
  BY <1>2, <1>8 DEF ClickMode, ClickPick, Click, SnapshotMode
<1>9. CASE UNCHANGED vars
  BY <1>9 DEF vars, SnapshotMode
<1> QED
  BY <1>3, <1>4, <1>5, <1>6, <1>7, <1>8, <1>9 DEF Next, TurnStep

\* The picker does not reach the turn that runs (arm_turn_mode, set_turn_mode).
THEOREM ModeStaysPinned == Spec => KeepsItsMode
<1>1. ASSUME IInv, [Next]_vars
      PROVE  [\A t \in Builds :
                 (place[t] = "working" /\ place'[t] = "working") =>
                     \/ SnapshotMode' = SnapshotMode
                     \/ SnapshotMode = "auto" /\ SnapshotMode' = "implement"
                            /\ mode' = mode]_vars
  BY <1>1, ModeIsKept
<1> QED
  BY <1>1, InductiveInvariant, PTL DEF Spec, KeepsItsMode

-----------------------------------------------------------------------------
\* A turn arms nothing that it did not want; the pick is not armed but noted.
ArmedInv == \A t \in Turns : armed[t] \subseteq wants[t] \cup {"pick"}

LEMMA ArmedStep ==
    ASSUME TypeOK, WantInv, ArmedInv, [Next]_vars
    PROVE  ArmedInv'
<1>1. ASSUME NEW t \in Turns, Begin(t) PROVE ArmedInv'
  BY <1>1 DEF Begin, Goes, WantInv, ArmedInv, TypeOK
<1>2. ASSUME NEW t \in Turns, Arm(t) PROVE ArmedInv'
  BY <1>2, DueIsWanted DEF Arm, ArmedInv, TypeOK
<1>3. ASSUME NEW t \in Turns, Gate(t) PROVE ArmedInv'
  BY <1>3 DEF Gate, ArmedInv, TypeOK
<1>4. ASSUME NEW t \in Turns, Escalate(t) PROVE ArmedInv'
  BY <1>4 DEF Escalate, ArmedInv, TypeOK
<1>5. ASSUME NEW t \in Turns, Disarm(t) PROVE ArmedInv'
  BY <1>5 DEF Disarm, ArmedInv, TypeOK
<1>6. ASSUME NEW t \in Turns,
             \/ Pinning(t) \/ Armed(t) \/ Unwinds(t) \/ Answers(t) \/ Aftercare(t)
             \/ SkipsCompaction(t) \/ Compacts(t) \/ CompactionEnds(t) \/ Over(t) \/ Wedge(t)
             \/ Raises(t)
      PROVE  ArmedInv'
  BY <1>6
    DEF Pinning, Armed, Unwinds, Answers, Aftercare, SkipsCompaction, Compacts, CompactionEnds,
        Over, Wedge, Raises, ArmedInv
<1>7. CASE ClickMode \/ ClickPick
  BY <1>7 DEF ClickMode, ClickPick, Click, ArmedInv
<1>8. CASE UNCHANGED vars
  BY <1>8 DEF vars, ArmedInv
<1> QED
  BY <1>1, <1>2, <1>3, <1>4, <1>5, <1>6, <1>7, <1>8 DEF Next, TurnStep

\* The pin a Build meets is one of a Chat turn that has answered and has its aftercare
\* still to do, or that an exception ended (arm_chat, disarm_chat, _chat_stream).
THEOREM PinsEndWithTheAftercare == Spec => []PinsOutlastTheAnswerOnly
<1>1. Init => ArmedInv
  BY DEF Init, ArmedInv
<1>2. IInv /\ ArmedInv /\ [Next]_vars => ArmedInv'
  BY ArmedStep DEF IInv
<1>3. IInv /\ ArmedInv => PinsOutlastTheAnswerOnly
  <2> SUFFICES ASSUME IInv, ArmedInv, NEW t \in Builds, place[t] = "working",
                      token["chat"] # Nobody
               PROVE  /\ token["chat"] \in Chats
                      /\ place[token["chat"]] \in {"answered", "looking", "unwinding", "left"}
    BY DEF PinsOutlastTheAnswerOnly
  <2> DEFINE u == token["chat"]
  <2>1. u \in Turns /\ "chat" \in armed[u] /\ place[u] \notin {"waiting", "over"}
    BY Kinds DEF IInv, TypeOK, NoStaleArm
  <2>2. u \in Chats
    BY <2>1 DEF IInv, KindInv, ArmedInv
  <2>3. lock = t /\ u # t
    BY <2>2, Kinds DEF IInv, LockInv, Holds
  <2>4. place[u] \notin Holds
    BY <2>1, <2>3, Kinds DEF IInv, LockInv
  <2> QED
    BY <2>1, <2>2, <2>4 DEF IInv, TypeOK, Places, Holds
<1> QED
  BY <1>1, <1>2, <1>3, InductiveInvariant, PTL DEF Spec
=============================================================================
