----------------------------- MODULE ModelPolicy -----------------------------
(***************************************************************************)
(* What a turn arms for its model calls (router/model_control.py) and when *)
(* the turns of orchestrator/service.py arm and disarm it.  Every model    *)
(* call is judged by a snapshot of this one shared record.  A Chat turn    *)
(* gives the turn lock back before it disarms, so the turns after it arm   *)
(* while its own arming still stands; a token says whose an arming is.     *)
(***************************************************************************)
EXTENDS Integers, Sequences

CONSTANTS
    Chats, Builds,  \* Chat turns and Build turns
    Plans,          \* presses of the button that drafts a plan from a Chat
    Nobody,         \* no turn
    Choices,        \* the sets of guarantees a turn may want beyond its fixed ones
    Modes,          \* the picker's modes, "auto" and "implement" among them
    Picks,          \* the models a person may pick, none included
    Strong,         \* the model a stalled Build is retried with
    MaxClicks       \* bound on the clicks on the picker

Turns == Chats \cup Builds \cup Plans

ASSUME PolicyAssumption ==
    /\ Chats \cap Builds = {} /\ Chats \cap Plans = {} /\ Builds \cap Plans = {}
    /\ Nobody \notin Turns
    /\ {"auto", "implement"} \subseteq Modes
    /\ Strong \notin Picks
    /\ MaxClicks \in Nat

VARIABLES
    token,          \* per guarantee: the turn whose token is live
    turnMode,       \* _turn_mode: the mode the running Build is pinned to
    mode,           \* _mode: the person's standing choice
    pick,           \* _picked_model
    lock,           \* holder of the turn lock
    generation,     \* how many turns were given it
    place,          \* per turn: where it is
    wants,          \* per turn: the guarantees it arms
    armed,          \* per turn: what it armed and has not disarmed
    noted,          \* per Build: its mode and the pick it found; per Chat: its generation
    clicks, chosen  \* clicks so far; history: the person's last pick

vars == <<token, turnMode, mode, pick, lock, generation, place, wants, armed, noted,
          clicks, chosen>>

(***************************************************************************)
(* The order in which a turn arms, and disarms.  "pick" is not armed: it   *)
(* marks where a Build that took the strong model puts the pick back.      *)
(***************************************************************************)
ChatArms == <<"chat", "withheld", "extensions", "web", "artifact", "readOnly", "sensitivity">>
ChatDisarms == <<"chat", "withheld", "extensions", "web", "readOnly", "artifact", "sensitivity">>
BuildArms == <<"mode", "slots", "withheld", "extensions", "readOnly", "direct", "web",
               "sourceMap", "sensitivity">>
BuildDisarms == <<"mode", "slots", "withheld", "extensions", "pick", "readOnly", "direct",
                  "web", "sourceMap", "sensitivity">>

Guarantees == {"chat", "mode", "slots", "withheld", "extensions", "web", "artifact",
               "readOnly", "direct", "sourceMap", "sensitivity"}
Pinned == {"mode", "slots", "withheld", "extensions"}
Places == {"waiting", "pinning", "arming", "gating", "working", "answered", "looking",
           "compacting", "unwinding", "over", "left", "wedged"}

Fixed(t) == CASE t \in Chats -> {"chat", "withheld", "extensions"}
              [] t \in Builds -> Pinned
              [] OTHER -> {"readOnly"}
Optional(t) == CASE t \in Chats -> {"web", "artifact", "readOnly", "sensitivity"}
                 [] t \in Builds -> {"readOnly", "direct", "web", "sourceMap", "sensitivity"}
                 [] OTHER -> {}

Notes == [mode : Modes, pick : Picks \cup {Strong}, generation : Nat]

TypeOK ==
    /\ token \in [Guarantees -> Turns \cup {Nobody}]
    /\ turnMode \in Modes \cup {Nobody} /\ mode \in Modes
    /\ pick \in Picks \cup {Strong} /\ chosen \in Picks
    /\ lock \in Turns \cup {Nobody} /\ generation \in Nat
    /\ place \in [Turns -> Places]
    /\ wants \in [Turns -> SUBSET Guarantees]
    /\ armed \in [Turns -> SUBSET (Guarantees \cup {"pick"})]
    /\ noted \in [Turns -> Notes]
    /\ clicks \in 0..MaxClicks

Init ==
    /\ token = [g \in Guarantees |-> Nobody]
    /\ turnMode = Nobody /\ mode = "auto"
    /\ pick \in Picks /\ chosen = pick
    /\ lock = Nobody /\ generation = 0
    /\ place = [t \in Turns |-> "waiting"]
    /\ wants = [t \in Turns |-> {}] /\ armed = [t \in Turns |-> {}]
    /\ noted = [t \in Turns |-> [mode |-> "auto", pick |-> pick, generation |-> 0]]
    /\ clicks = 0
-----------------------------------------------------------------------------
(***************************************************************************)
(* The record: arm, disarm, snapshot.                                      *)
(***************************************************************************)
Goes(t, from, to) == place[t] = from /\ place' = [place EXCEPT ![t] = to]

\* The first of a set, in the order of the code.
FirstOf(order, set) == Head(SelectSeq(order, LAMBDA g : g \in set))

\* A turn's own arming replaces whatever stands.
ArmToken(t, g) == token' = [token EXCEPT ![g] = t]

\* Mutant: a disarm that does not look whose arming stands.
DisarmAny(t, g) == token' = [token EXCEPT ![g] = Nobody]

\* A disarm ends the turn's own arming and no other.
DisarmToken(t, g) == token' = IF token[g] = t THEN [token EXCEPT ![g] = Nobody] ELSE token

\* Mutant: a snapshot that does not look for a pin.
PickersMode == mode

SnapshotMode == IF token["mode"] # Nobody THEN turnMode ELSE mode

\* set_turn_mode
Repin == turnMode' = IF token["mode"] # Nobody THEN "implement" ELSE turnMode
-----------------------------------------------------------------------------
(***************************************************************************)
(* A turn: it takes the lock, arms, works, disarms.                        *)
(***************************************************************************)

\* A queued turn is counted when it takes the lock; the plan's door only takes it.
Begin(t) ==
    /\ lock = Nobody /\ lock' = t
    /\ \E chosenOnes \in Choices :
          /\ {"readOnly", "artifact"} \subseteq chosenOnes => t \notin Chats
          /\ wants' = [wants EXCEPT ![t] = Fixed(t) \cup (chosenOnes \cap Optional(t))]
    /\ generation' = generation + (IF t \in Plans THEN 0 ELSE 1)
    /\ Goes(t, "waiting", IF t \in Builds THEN "pinning" ELSE "arming")
    /\ \E m \in (IF t \in Builds THEN {SnapshotMode, "implement"} ELSE {"auto"}) :
          noted' = [noted EXCEPT ![t] = [@ EXCEPT !.mode = m, !.generation = generation']]
    /\ UNCHANGED <<token, turnMode, mode, pick, armed, clicks, chosen>>

\* What is armed at a place, the lock on approved models last and only after its gate.
Due(t) == CASE place[t] = "pinning" -> (wants[t] \cap Pinned) \ armed[t]
            [] place[t] = "arming" -> (wants[t] \ {"sensitivity"}) \ armed[t]
            [] OTHER -> {}

Arm(t) ==
    /\ Due(t) # {}
    /\ LET g == FirstOf(IF t \in Builds THEN BuildArms ELSE ChatArms, Due(t)) IN
          /\ g \in Due(t)
          /\ ArmToken(t, g)
          /\ armed' = [armed EXCEPT ![t] = @ \cup {g}]
          /\ turnMode' = IF g = "mode" THEN noted[t].mode ELSE turnMode
    /\ UNCHANGED <<mode, pick, lock, generation, place, wants, noted, clicks, chosen>>

\* The scope verdict may run an Auto turn as Implement; then the pick is noted.
Pinning(t) ==
    /\ Goes(t, "pinning", "arming") /\ Due(t) = {}
    /\ \/ noted[t].mode = "auto" /\ Repin
       \/ UNCHANGED turnMode
    /\ noted' = [noted EXCEPT ![t].pick = pick]
    /\ UNCHANGED <<token, mode, pick, lock, generation, wants, armed, clicks, chosen>>

Armed(t) ==
    /\ Due(t) = {}
    /\ Goes(t, "arming", IF t \in Plans THEN "working" ELSE "gating")
    /\ UNCHANGED <<token, turnMode, mode, pick, lock, generation, wants, armed, noted,
                   clicks, chosen>>

\* Mutant: a refused turn ends without disarming.
GateForgets(t) ==
    /\ \/ /\ "sensitivity" \notin wants[t]
          /\ Goes(t, "gating", "working")
          /\ UNCHANGED <<token, armed, lock>>
       \/ /\ "sensitivity" \in wants[t]
          /\ Goes(t, "gating", "over") /\ lock' = Nobody
          /\ UNCHANGED <<token, armed>>
    /\ UNCHANGED <<turnMode, mode, pick, generation, wants, noted, clicks, chosen>>

\* The declaration is read: no approved model, or the lock cannot be recorded, ends the
\* turn; otherwise the lock is armed and the agent may be prompted.
Gate(t) ==
    /\ \/ /\ "sensitivity" \notin wants[t]
          /\ Goes(t, "gating", "working")
          /\ UNCHANGED <<token, armed>>
       \/ /\ "sensitivity" \in wants[t]
          /\ Goes(t, "gating", "working")
          /\ ArmToken(t, "sensitivity")
          /\ armed' = [armed EXCEPT ![t] = @ \cup {"sensitivity"}]
       \/ /\ "sensitivity" \in wants[t]
          /\ Goes(t, "gating", "unwinding")
          /\ UNCHANGED <<token, armed>>
    /\ UNCHANGED <<turnMode, mode, pick, lock, generation, wants, noted, clicks, chosen>>

\* Mutant: the pick to put back is noted at each escalation.
EscalateNotes(t) ==
    /\ t \in Builds /\ place[t] = "working"
    /\ pick' = Strong
    /\ noted' = [noted EXCEPT ![t].pick = pick]
    /\ armed' = [armed EXCEPT ![t] = @ \cup {"pick"}]
    /\ UNCHANGED <<token, turnMode, mode, lock, generation, place, wants, clicks, chosen>>

\* A Build that wrote nothing is retried as Implement, and with the strong model.
Escalate(t) ==
    /\ t \in Builds /\ place[t] = "working"
    /\ IF SnapshotMode = "auto" THEN Repin ELSE UNCHANGED turnMode
    /\ \/ /\ SnapshotMode \in {"auto", "implement"} /\ "pick" \notin armed[t]
          /\ pick' = Strong
          /\ armed' = [armed EXCEPT ![t] = @ \cup {"pick"}]
       \/ UNCHANGED <<pick, armed>>
    /\ UNCHANGED <<token, mode, lock, generation, place, wants, noted, clicks, chosen>>
-----------------------------------------------------------------------------
(***************************************************************************)
(* The ends of a turn.                                                     *)
(***************************************************************************)

\* A Build, a plan, or a Chat turn that fails before its answer: the lock is still held.
Unwinds(t) ==
    /\ Goes(t, "working", "unwinding")
    /\ UNCHANGED <<token, turnMode, mode, pick, lock, generation, wants, armed, noted,
                   clicks, chosen>>

\* The public end of a Chat turn: the lock goes, its arming stays for the aftercare.
Answers(t) ==
    /\ t \in Chats /\ Goes(t, "working", "answered") /\ lock' = Nobody
    /\ UNCHANGED <<token, turnMode, mode, pick, generation, wants, armed, noted, clicks,
                   chosen>>

\* After the look for a handoff: the stream may be closed, or another turn have started.
Aftercare(t) ==
    /\ \/ generation = noted[t].generation /\ Goes(t, "answered", "looking")
       \/ Goes(t, "answered", "unwinding")
    /\ UNCHANGED <<token, turnMode, mode, pick, lock, generation, wants, armed, noted,
                   clicks, chosen>>

SkipsCompaction(t) ==
    /\ Goes(t, "looking", "unwinding")
    /\ lock # Nobody \/ generation # noted[t].generation
    /\ UNCHANGED <<token, turnMode, mode, pick, lock, generation, wants, armed, noted,
                   clicks, chosen>>

\* Mutant: the generation is not read again once the lock is held.
CompactsBlindly(t) ==
    /\ Goes(t, "looking", "compacting")
    /\ lock = Nobody /\ lock' = t /\ token["chat"] # Nobody
    /\ UNCHANGED <<token, turnMode, mode, pick, generation, wants, armed, noted, clicks,
                   chosen>>

\* With the lock taken back and no turn since: the summary runs as the Chat that is armed.
Compacts(t) ==
    /\ Goes(t, "looking", "compacting")
    /\ lock = Nobody /\ lock' = t
    /\ generation = noted[t].generation /\ token["chat"] # Nobody
    /\ UNCHANGED <<token, turnMode, mode, pick, generation, wants, armed, noted, clicks,
                   chosen>>

CompactionEnds(t) ==
    /\ Goes(t, "compacting", "unwinding") /\ lock' = Nobody
    /\ UNCHANGED <<token, turnMode, mode, pick, generation, wants, armed, noted, clicks,
                   chosen>>

\* One disarm, or the pick put back.
Disarm(t) ==
    /\ place[t] = "unwinding" /\ armed[t] # {}
    /\ LET g == FirstOf(IF t \in Builds THEN BuildDisarms ELSE ChatDisarms, armed[t]) IN
          /\ g \in armed[t]
          /\ armed' = [armed EXCEPT ![t] = @ \ {g}]
          /\ \/ g = "pick" /\ pick' = noted[t].pick /\ UNCHANGED token
             \/ g # "pick" /\ DisarmToken(t, g) /\ UNCHANGED pick
          /\ turnMode' = IF g = "mode" /\ token[g] = t THEN Nobody ELSE turnMode
    /\ UNCHANGED <<mode, lock, generation, place, wants, noted, clicks, chosen>>

\* A turn that has disarmed is over, and hands back the lock it may still hold.
Over(t) ==
    /\ armed[t] = {} /\ Goes(t, "unwinding", "over")
    /\ lock' = IF lock = t THEN Nobody ELSE lock
    /\ UNCHANGED <<token, turnMode, mode, pick, generation, wants, armed, noted, clicks,
                   chosen>>

\* A session that would not stop: the lock and the arming stay, on purpose.
Wedge(t) ==
    /\ t \in Builds /\ Goes(t, "working", "wedged")
    /\ UNCHANGED <<token, turnMode, mode, pick, lock, generation, wants, armed, noted,
                   clicks, chosen>>

\* What raises where no handler disarms walks out with everything armed.
Raises(t) ==
    /\ \/ t \in Chats /\ place[t] \in {"arming", "gating"}
       \/ t \in Builds /\ place[t] \in {"pinning", "arming", "gating", "working"}
    /\ place' = [place EXCEPT ![t] = "left"] /\ lock' = Nobody
    /\ UNCHANGED <<token, turnMode, mode, pick, generation, wants, armed, noted, clicks,
                   chosen>>
-----------------------------------------------------------------------------
(***************************************************************************)
(* The picker, clicked while turns run.                                    *)
(***************************************************************************)
Click(m, p) ==
    /\ clicks < MaxClicks /\ clicks' = clicks + 1
    /\ <<m, p>> # <<mode, pick>>
    /\ mode' = m /\ pick' = p
    /\ UNCHANGED <<token, turnMode, lock, generation, place, wants, armed, noted>>

\* set_mode
ClickMode == \E m \in Modes : Click(m, pick) /\ UNCHANGED chosen

\* pick
ClickPick == \E p \in Picks : Click(mode, p) /\ chosen' = p

TurnStep(t) ==
    \/ Begin(t) \/ Arm(t) \/ Pinning(t) \/ Armed(t) \/ Gate(t) \/ Escalate(t)
    \/ Unwinds(t) \/ Answers(t) \/ Aftercare(t) \/ SkipsCompaction(t) \/ Compacts(t)
    \/ CompactionEnds(t) \/ Disarm(t) \/ Over(t) \/ Wedge(t) \/ Raises(t)

Next ==
    \/ \E t \in Turns : TurnStep(t)
    \/ ClickMode
    \/ ClickPick

Spec == Init /\ [][Next]_vars
-----------------------------------------------------------------------------
(***************************************************************************)
(* Properties                                                              *)
(***************************************************************************)

\* While the agent works for a turn, everything the turn armed is in force, and in force
\* as this turn armed it, however late the turns before it disarm (arm_*, disarm_*).
KeepsItsGuarantees ==
    \A t \in Turns : place[t] = "working" => \A g \in wants[t] : token[g] = t

\* An arming stands only for a turn that will take it back, or for one that a wedge or an
\* exception kept from it: no way out of a turn that disarms forgets one (restore_mode, the
\* disarms of _chat_stream).
NoStaleArm ==
    \A g \in Guarantees : token[g] # Nobody =>
        /\ g \in armed[token[g]]
        /\ place[token[g]] \notin {"waiting", "over"}

\* The model a stalled Build was retried with stays picked only while a Build is still to put
\* the pick back, or never will (escalated_pick, restore_mode).
NoStrandedEscalation ==
    pick = Strong => \E t \in Builds : "pick" \in armed[t] /\ place[t] # "over"

\* The picker does not reach the turn that runs: its mode changes by its own escalation only
\* (arm_turn_mode, set_turn_mode).
KeepsItsMode ==
    [][\A t \in Builds :
          (place[t] = "working" /\ place'[t] = "working") =>
              \/ SnapshotMode' = SnapshotMode
              \/ SnapshotMode = "auto" /\ SnapshotMode' = "implement" /\ mode' = mode]_vars

\* The summary of a Chat is routed as that Chat, though other turns may have armed and gone
\* since it gave its lock back (_maybe_compact_chat).
CompactsAsItsThread ==
    \A t \in Chats : place[t] = "compacting" => token["chat"] = t

\* The pins of a Chat turn are gone before a Build works (arm_chat: "so a Chat turn cannot
\* leak write tools into a later Ask turn"): refuted, the lock goes before the pins.
BuildIsNotChat ==
    (\A u \in Turns : place[u] # "left") =>
        \A t \in Builds : place[t] = "working" => token["chat"] = Nobody

\* How far that goes: the pin a Build meets is one of a Chat turn that has answered and has
\* its aftercare still to do, or that an exception ended.
PinsOutlastTheAnswerOnly ==
    \A t \in Builds : place[t] = "working" /\ token["chat"] # Nobody =>
        /\ token["chat"] \in Chats
        /\ place[token["chat"]] \in {"answered", "looking", "unwinding", "left"}

\* With no Build at work, the pick is the one the person last made (the comment on
\* original_pick: "so we never leave the user's own pick clobbered"): refuted, a pick made
\* while a Build runs with the strong model is put back to the older one.
PickIsThePersons ==
    (\A t \in Builds : place[t] \in {"waiting", "over"}) => pick = chosen
=============================================================================
