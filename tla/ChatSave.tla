------------------------------ MODULE ChatSave ------------------------------
(***************************************************************************)
(* The coalesced Chat save (backend/sage/orchestrator/service.py).         *)
(*                                                                         *)
(* Chat writes its files at every turn and commits them seldom.  A write   *)
(* raises `_chat_dirty` and arms the one timer slot; the thread of the     *)
(* timer commits and pushes under the turn lock, or arms the slot again    *)
(* when the lock is taken.  Routes flush at once (leave Chat, delete a     *)
(* Conversation, change the rail), and doors that hold the turn lock flush *)
(* under it.  None of the fields is protected by a lock but the counter of *)
(* savers, so every read and every write of one is an action of its own.   *)
(*                                                                         *)
(* An edit on disk is named by the request that made it.                   *)
(***************************************************************************)
EXTENDS Integers, FiniteSets

CONSTANTS
    Talks,          \* Chat turns: they write, and mark in their aftercare
    Builds,         \* Build turns: they commit and push their own work
    Deeds,          \* delete a Conversation, change the rail: write, mark, flush
    Opens,          \* open another Conversation (arm the timer) or leave Chat (flush)
    Doors,          \* handoff doors: take the turn lock, write, flush under it
    Timers,         \* the `threading.Timer`s; bound: how many are alive at once
    None,           \* no timer in the slot, and no holder of the lock
    MaxFailures     \* bound: how often git fails or the remote refuses

Requests == Talks \cup Builds \cup Deeds \cup Opens \cup Doors
Actors == Requests \cup Timers

ASSUME KindsAssumption ==
    /\ Timers \cap Requests = {}
    /\ Doors \cap (Talks \cup Builds \cup Deeds \cup Opens) = {}
    /\ Opens \cap (Talks \cup Builds \cup Deeds) = {}
    /\ Deeds \cap (Talks \cup Builds) = {}
    /\ Talks \cap Builds = {}
    /\ None \notin Actors
ASSUME BoundsAssumption == MaxFailures \in Nat /\ IsFiniteSet(Actors)

VARIABLES
    pc,         \* where each request and each timer is
    back,       \* where an actor goes on after arming the timer
    held,       \* the timer `_cancel_chat_idle_save` read from the slot
    slot,       \* `_chat_save_timer`
    dirty,      \* `_chat_dirty`
    named,      \* whether `_chat_dirty_thread` names a Conversation
    savers,     \* `_chat_savers`
    saving,     \* `_chat_saving`
    told,       \* whether `_chat_save_failed` holds a failure
    result,     \* what the save of an actor came to
    lock,       \* who holds `_turn_lock`
    wedged,     \* `_turn_wedged`
    unsaved,    \* edits on disk and in no commit
    unsent,     \* edits committed and not on the remote
    failures    \* how often git failed so far

timerVars == <<back, held, slot>>
markVars  == <<dirty, named>>
saveVars  == <<savers, saving, told, result>>
gitVars   == <<unsaved, unsent, failures>>
vars == <<pc, timerVars, markVars, saveVars, lock, wedged, gitVars>>

Results == {"landed", "rejected", "failed"}
Rests == {"start", "done", "off", "armed", "stuck"}
TurnPcs == {"inTurn", "after"}
MarkPcs == {"mark", "name"}
DoorPcs == {"reads", "polls", "last", "inDoor"}
ArmPcs == {"rearm", "reset", "launch"}
FlushPcs == {"cancel", "drop", "look"}
CommitPcs == {"commit", "send", "settle", "unname", "tell"}
SavePcs == {"enter", "try", "lower", "give"} \cup CommitPcs
WakePcs == {"fired", "asks"}
Pcs == Rests \cup TurnPcs \cup MarkPcs \cup DoorPcs \cup ArmPcs
       \cup FlushPcs \cup SavePcs \cup WakePcs

TypeOK ==
    /\ pc \in [Actors -> Pcs]
    /\ back \in [Actors -> {"done", "off", "tell", "lower"}]
    /\ held \in [Actors -> Timers \cup {None}]
    /\ slot \in Timers \cup {None}
    /\ dirty \in BOOLEAN
    /\ named \in BOOLEAN
    /\ savers \in Nat
    /\ saving \in BOOLEAN
    /\ told \in BOOLEAN
    /\ result \in [Actors -> Results]
    /\ lock \in Actors \cup {None}
    /\ wedged \in BOOLEAN
    /\ unsaved \subseteq Requests
    /\ unsent \subseteq Requests
    /\ failures \in 0..MaxFailures
    /\ \A m \in Timers : pc[m] \notin {"start", "done"}
    /\ \A r \in Requests : pc[r] \notin {"off", "armed"} \cup WakePcs

Init ==
    /\ pc = [a \in Actors |-> IF a \in Timers THEN "off" ELSE "start"]
    /\ back = [a \in Actors |-> "done"]
    /\ held = [a \in Actors |-> None]
    /\ slot = None
    /\ dirty = FALSE
    /\ named = FALSE
    /\ savers = 0
    /\ saving = FALSE
    /\ told = FALSE
    /\ result = [a \in Actors |-> "landed"]
    /\ lock = None
    /\ wedged = FALSE
    /\ unsaved = {}
    /\ unsent = {}
    /\ failures = 0

Goto(a, label) == pc' = [pc EXCEPT ![a] = label]

\* A thread that is through: the request is answered, the timer is spent.
Rest(a) == IF a \in Timers THEN "off" ELSE "done"

Writes(r) == unsaved' = unsaved \cup {r} /\ UNCHANGED <<unsent, failures>>

(***************************************************************************)
(* `_cancel_chat_idle_save` and `_arm_chat_idle_save`.  Cancelling reads   *)
(* the slot, then empties it and cancels what was read; arming cancels and *)
(* then fills the slot.  Two threads in here at once leave two timers.     *)
(***************************************************************************)

\* Arm the timer, then go on at label.
StartArming(a, label) ==
    /\ Goto(a, "rearm")
    /\ back' = [back EXCEPT ![a] = label]

ReadSlot(a) ==
    /\ pc[a] \in {"rearm", "cancel"}
    /\ held' = [held EXCEPT ![a] = slot]
    /\ Goto(a, IF pc[a] = "rearm" THEN "reset" ELSE "drop")
    /\ UNCHANGED <<back, slot, markVars, saveVars, lock, wedged, gitVars>>

\* A timer whose thread has fired is not stopped by its cancel().
CancelHeld(a) ==
    /\ pc[a] \in {"reset", "drop"}
    /\ slot' = None
    /\ held' = [held EXCEPT ![a] = None]
    /\ pc' = [m \in Actors |->
                IF m = a THEN (IF pc[a] = "reset" THEN "launch" ELSE "look")
                ELSE IF m = held[a] /\ pc[m] = "armed" THEN "off"
                ELSE pc[m]]
    /\ UNCHANGED <<back, markVars, saveVars, lock, wedged, gitVars>>

\* A spent timer nobody points to stands for the new `threading.Timer`.
Unused(m) == pc[m] = "off" /\ slot # m /\ \A a \in Actors : held[a] # m

Launch(a) ==
    /\ pc[a] = "launch"
    /\ \E m \in Timers :
          /\ Unused(m)
          /\ slot' = m
          /\ pc' = [pc EXCEPT ![a] = back[a], ![m] = "armed"]
    /\ UNCHANGED <<back, held, markVars, saveVars, lock, wedged, gitVars>>

Fire(m) ==
    /\ pc[m] = "armed"
    /\ Goto(m, "fired")
    /\ UNCHANGED <<timerVars, markVars, saveVars, lock, wedged, gitVars>>

\* `_on_chat_save_idle` asks for the wedge first, and arms nothing behind one.
Wake(m) ==
    /\ pc[m] = "fired"
    /\ Goto(m, IF wedged THEN "off" ELSE "asks")
    /\ UNCHANGED <<timerVars, markVars, saveVars, lock, wedged, gitVars>>

\* Fault: a timer that finds the lock taken gives up.
AskLockGivesUp(m) ==
    /\ pc[m] = "asks"
    /\ Goto(m, IF lock # None THEN "off" ELSE "cancel")
    /\ UNCHANGED <<timerVars, markVars, saveVars, lock, wedged, gitVars>>

AskLock(m) ==
    /\ pc[m] = "asks"
    /\ \/ lock # None /\ StartArming(m, "off")
       \/ lock = None /\ Goto(m, "cancel") /\ back' = back
    /\ UNCHANGED <<held, slot, markVars, saveVars, lock, wedged, gitVars>>

(***************************************************************************)
(* `_flush_chat_save`.                                                     *)
(***************************************************************************)

\* Dirty files, or commits still owing to the remote.  A door saves under its lock.
Look(a) ==
    /\ pc[a] = "look"
    /\ Goto(a, IF dirty \/ unsent # {}
               THEN IF a \in Doors THEN "commit" ELSE "enter"
               ELSE IF a \in Doors THEN "give" ELSE Rest(a))
    /\ UNCHANGED <<timerVars, markVars, saveVars, lock, wedged, gitVars>>

Enter(a) ==
    /\ pc[a] = "enter"
    /\ savers' = savers + 1
    /\ saving' = TRUE
    /\ Goto(a, "try")
    /\ UNCHANGED <<told, result, timerVars, markVars, lock, wedged, gitVars>>

\* Fault: the lock is tested and not taken.
TryLockTests(a) ==
    /\ pc[a] = "try"
    /\ \/ lock = None /\ Goto(a, "commit") /\ back' = back
       \/ lock # None /\ ~wedged /\ StartArming(a, "lower")
       \/ lock # None /\ wedged /\ Goto(a, "lower") /\ back' = back
    /\ UNCHANGED <<held, slot, markVars, saveVars, lock, wedged, gitVars>>

\* Fault: a saver that lost the race returns without arming the timer.
TryLockDrops(a) ==
    /\ pc[a] = "try"
    /\ \/ lock = None /\ lock' = a /\ Goto(a, "commit")
       \/ lock # None /\ lock' = lock /\ Goto(a, "lower")
    /\ UNCHANGED <<timerVars, markVars, saveVars, wedged, gitVars>>

TryLock(a) ==
    /\ pc[a] = "try"
    /\ \/ lock = None /\ lock' = a /\ Goto(a, "commit") /\ back' = back
       \/ lock # None /\ ~wedged /\ lock' = lock /\ StartArming(a, "lower")
       \/ lock # None /\ wedged /\ lock' = lock /\ Goto(a, "lower") /\ back' = back
    /\ UNCHANGED <<held, slot, markVars, saveVars, wedged, gitVars>>

\* Fault: the mark is a flag, and the first saver out lowers it for all.
LowerFlag(a) ==
    /\ pc[a] = "lower"
    /\ savers' = savers - 1
    /\ saving' = FALSE
    /\ Goto(a, IF lock = a THEN "give" ELSE Rest(a))
    /\ UNCHANGED <<told, result, timerVars, markVars, lock, wedged, gitVars>>

\* Lowered before the lock is given back.
Lower(a) ==
    /\ pc[a] = "lower"
    /\ savers' = IF savers > 0 THEN savers - 1 ELSE 0
    /\ saving' = (saving /\ savers > 1)
    /\ Goto(a, IF lock = a THEN "give" ELSE Rest(a))
    /\ UNCHANGED <<told, result, timerVars, markVars, lock, wedged, gitVars>>

Give(a) ==
    /\ pc[a] = "give"
    /\ lock' = None
    /\ Goto(a, Rest(a))
    /\ UNCHANGED <<timerVars, markVars, saveVars, wedged, gitVars>>

(***************************************************************************)
(* `_chat_save_now` and the `_save_to_git` it calls.                       *)
(***************************************************************************)

Fails == failures < MaxFailures /\ failures' = failures + 1

\* The commit takes the whole tree, or git fails before it.
Commit(a) ==
    /\ pc[a] = "commit"
    /\ \/ /\ unsaved' = {}
          /\ unsent' = unsent \cup unsaved
          /\ failures' = failures
          /\ Goto(a, "send")
          /\ UNCHANGED result
       \/ /\ Fails
          /\ result' = [result EXCEPT ![a] = "failed"]
          /\ Goto(a, "settle")
          /\ UNCHANGED <<unsaved, unsent>>
    /\ UNCHANGED <<savers, saving, told, timerVars, markVars, lock, wedged>>

\* Pull and push: the work lands, the remote refuses it, or the pull fails.
Send(a) ==
    /\ pc[a] = "send"
    /\ \/ /\ result' = [result EXCEPT ![a] = "landed"]
          /\ unsent' = {}
          /\ failures' = failures
       \/ /\ Fails
          /\ \E r \in {"rejected", "failed"} : result' = [result EXCEPT ![a] = r]
          /\ unsent' = unsent
    /\ Goto(a, "settle")
    /\ UNCHANGED <<unsaved, savers, saving, told, timerVars, markVars, lock, wedged>>

\* A refused push is `ok`: the files are committed, so the flag comes down.
Settle(a) ==
    /\ pc[a] = "settle"
    /\ \/ /\ result[a] = "failed"
          /\ StartArming(a, "tell")
          /\ dirty' = dirty
       \/ /\ result[a] # "failed"
          /\ dirty' = FALSE
          /\ Goto(a, "unname")
          /\ back' = back
    /\ UNCHANGED <<named, held, slot, saveVars, lock, wedged, gitVars>>

Unname(a) ==
    /\ pc[a] = "unname"
    /\ named' = FALSE
    /\ Goto(a, "tell")
    /\ UNCHANGED <<dirty, timerVars, saveVars, lock, wedged, gitVars>>

\* Fault: the answer is taken from `ok`, which is True of a refused push.
TellOk(a) ==
    /\ pc[a] = "tell"
    /\ told' = (result[a] = "failed")
    /\ Goto(a, IF a \in Doors THEN "give" ELSE "lower")
    /\ UNCHANGED <<savers, saving, result, timerVars, markVars, lock, wedged, gitVars>>

Tell(a) ==
    /\ pc[a] = "tell"
    /\ told' = (result[a] # "landed")
    /\ Goto(a, IF a \in Doors THEN "give" ELSE "lower")
    /\ UNCHANGED <<savers, saving, result, timerVars, markVars, lock, wedged, gitVars>>

(***************************************************************************)
(* The callers.                                                            *)
(***************************************************************************)

TurnBegins(r) ==
    /\ r \in Talks \cup Builds
    /\ pc[r] = "start"
    /\ lock = None
    /\ lock' = r
    /\ Goto(r, "inTurn")
    /\ UNCHANGED <<timerVars, markVars, saveVars, wedged, gitVars>>

\* A Chat turn lets the lock go at `done`; its aftercare may write once more.
TalkEnds(r) ==
    /\ r \in Talks
    /\ pc[r] = "inTurn"
    /\ Writes(r)
    /\ lock' = None
    /\ Goto(r, "after")
    /\ UNCHANGED <<timerVars, markVars, saveVars, wedged>>

TalkTidies(r) ==
    /\ pc[r] = "after"
    /\ Writes(r) \/ UNCHANGED gitVars
    /\ Goto(r, "mark")
    /\ UNCHANGED <<timerVars, markVars, saveVars, lock, wedged>>

\* A Build turn saves its own work, the rest of the tree with it.
BuildEnds(r) ==
    /\ r \in Builds
    /\ pc[r] = "inTurn"
    /\ unsaved' = {}
    /\ \/ unsent' = {} /\ failures' = failures
       \/ unsent' = unsent \cup unsaved \cup {r} /\ Fails
    /\ lock' = None
    /\ Goto(r, "done")
    /\ UNCHANGED <<timerVars, markVars, saveVars, wedged>>

\* A session that would not stop: the lock is held for good.
TurnWedges(r) ==
    /\ r \in Builds
    /\ pc[r] = "inTurn"
    /\ wedged' = TRUE
    /\ Goto(r, "stuck")
    /\ UNCHANGED <<timerVars, markVars, saveVars, lock, gitVars>>

\* The file is written without the turn lock.
DeedWrites(r) ==
    /\ r \in Deeds
    /\ pc[r] = "start"
    /\ Writes(r)
    /\ Goto(r, "mark")
    /\ UNCHANGED <<timerVars, markVars, saveVars, lock, wedged>>

Mark(r) ==
    /\ pc[r] = "mark"
    /\ dirty' = TRUE
    /\ Goto(r, "name")
    /\ UNCHANGED <<named, timerVars, saveVars, lock, wedged, gitVars>>

\* A turn names its Conversation and arms; a deed names none and flushes.
Name(r) ==
    /\ pc[r] = "name"
    /\ named' = (r \in Talks)
    /\ \/ r \in Talks /\ StartArming(r, "done")
       \/ r \in Deeds /\ Goto(r, "cancel") /\ back' = back
    /\ UNCHANGED <<dirty, held, slot, saveVars, lock, wedged, gitVars>>

\* get_thread: leaving the Conversation that is named arms the timer.
OpenThread(r) ==
    /\ r \in Opens
    /\ pc[r] = "start"
    /\ \/ named /\ StartArming(r, "done")
       \/ Goto(r, "done") /\ back' = back
    /\ UNCHANGED <<held, slot, markVars, saveVars, lock, wedged, gitVars>>

\* flush_chat_save, create_thread: leaving Chat flushes at once.
Leave(r) ==
    /\ r \in Opens
    /\ pc[r] = "start"
    /\ Goto(r, "cancel")
    /\ UNCHANGED <<timerVars, markVars, saveVars, lock, wedged, gitVars>>

\* `_acquire_for_door`: try; on failure ask whether a save is the holder.
DoorTries(r) ==
    /\ r \in Doors
    /\ pc[r] \in {"start", "polls", "last"}
    /\ lock = None
    /\ lock' = r
    /\ Goto(r, "inDoor")
    /\ UNCHANGED <<timerVars, markVars, saveVars, wedged, gitVars>>

DoorFails(r) ==
    /\ r \in Doors
    /\ lock # None
    /\ \/ pc[r] = "start" /\ Goto(r, "reads")
       \/ pc[r] = "last" /\ Goto(r, "done")
    /\ UNCHANGED <<timerVars, markVars, saveVars, lock, wedged, gitVars>>

\* A poll that failed reads the flag again; the deadline refuses.
DoorReads(r) ==
    /\ \/ pc[r] = "reads"
       \/ pc[r] = "polls" /\ lock # None
    /\ Goto(r, IF saving THEN "polls" ELSE "last")
    /\ UNCHANGED <<timerVars, markVars, saveVars, lock, wedged, gitVars>>

DoorDeadline(r) ==
    /\ pc[r] = "polls"
    /\ lock # None
    /\ Goto(r, "done")
    /\ UNCHANGED <<timerVars, markVars, saveVars, lock, wedged, gitVars>>

DoorWrites(r) ==
    /\ pc[r] = "inDoor"
    /\ Writes(r)
    /\ Goto(r, "cancel")
    /\ UNCHANGED <<timerVars, markVars, saveVars, lock, wedged>>

(***************************************************************************)
(* The specification.                                                      *)
(***************************************************************************)

SaveStep(a) ==
    \/ ReadSlot(a) \/ CancelHeld(a) \/ Launch(a)
    \/ Look(a) \/ Enter(a) \/ TryLock(a) \/ Lower(a) \/ Give(a)
    \/ Commit(a) \/ Send(a) \/ Settle(a) \/ Unname(a) \/ Tell(a)

TimerStep(m) == Fire(m) \/ Wake(m) \/ AskLock(m)

\* What a request does once it is under way.
GoesOn(r) ==
    \/ TalkEnds(r) \/ TalkTidies(r) \/ BuildEnds(r) \/ Mark(r) \/ Name(r)
    \/ DoorReads(r) \/ DoorDeadline(r) \/ DoorWrites(r)
    \/ pc[r] # "start" /\ (DoorTries(r) \/ DoorFails(r))

\* What a person may do, and what may go wrong.
Outside(r) ==
    \/ TurnBegins(r) \/ TurnWedges(r) \/ DeedWrites(r) \/ OpenThread(r) \/ Leave(r)
    \/ pc[r] = "start" /\ (DoorTries(r) \/ DoorFails(r))

Next ==
    \/ \E a \in Actors : SaveStep(a)
    \/ \E m \in Timers : TimerStep(m)
    \/ \E r \in Requests : GoesOn(r) \/ Outside(r)

Spec == Init /\ [][Next]_vars

\* Every thread that can go on does, and an armed timer fires.
Fairness ==
    /\ \A a \in Actors : WF_vars(SaveStep(a))
    /\ \A m \in Timers : WF_vars(TimerStep(m))
    /\ \A r \in Requests : WF_vars(GoesOn(r))

FairSpec == Spec /\ Fairness

(***************************************************************************)
(* Properties.                                                             *)
(***************************************************************************)

\* On the way to a save: no step of such a thread forgets a dirty mark.
Bound(a) ==
    pc[a] \in {"armed", "fired", "asks", "name", "enter", "try", "commit", "send",
               "settle"} \cup ArmPcs \cup FlushPcs

\* Files that are marked dirty always have a timer or a thread on its way to
\* commit them: no cancel and no lost race of `_arm_chat_idle_save` and
\* `_flush_chat_save` drops the last one.  A wedge defers them to the restart.
DirtyIsPending == dirty /\ ~wedged => \E a \in Actors : Bound(a)

\* Who counts as a saver: between `_enter_chat_saving` and `_leave_chat_saving`.
InSave(a) ==
    /\ a \notin Doors
    /\ \/ pc[a] \in {"try", "lower"} \cup CommitPcs
       \/ pc[a] \in ArmPcs /\ back[a] \in {"tell", "lower"}

\* `_chat_saving` says exactly whether a saver is at work, however savers
\* overlap: it never stays up (a door would wait for nothing) and never comes
\* down under a saver (a door would refuse "a build is already running").
SaversCounted ==
    /\ savers = Cardinality({a \in Actors : InSave(a)})
    /\ saving <=> savers > 0

\* `_acquire_for_door` gives up early only against a turn: a door that failed
\* the lock and then reads the mark sees the save that holds the lock.
DoorWaitsOutASave ==
    [][\A d \in Doors :
          pc[d] \in {"reads", "polls"} /\ pc'[d] = "last"
          => ~ \E a \in Actors \ Doors : lock = a /\ pc[a] \in CommitPcs]_vars

\* A save never commits the half-written tree of a turn or of a door.
NoHalfTurnCommitted ==
    [][\A r \in Requests :
          pc[r] \in {"inTurn", "inDoor"} /\ pc'[r] = pc[r]
          => unsaved \subseteq unsaved']_vars

\* `_chat_save_failed` is withdrawn only when the remote has everything: a
\* refused push, which git reports as `ok`, does not pass for a saved one.
ToldUntilSent == [][told /\ ~told' => unsent = {}]_vars

\* Marked files are committed in the end, unless the workspace wedges.
DirtyIsSaved == dirty ~> (~dirty \/ wedged)

Quiet == \A a \in Actors : pc[a] \in Rests

\* "a rail change made mid-turn is deferred rather than dropped": once all
\* threads are at rest, what a deed wrote is committed or still marked dirty.
DeedIsDeferred == Quiet /\ ~wedged /\ unsaved \cap Deeds # {} => dirty

\* "the same flush the handoff doors make": what a door wrote and flushed is
\* committed, or still marked dirty.
CrossingIsSaved == Quiet /\ ~wedged /\ unsaved \cap Doors # {} => dirty
=============================================================================
