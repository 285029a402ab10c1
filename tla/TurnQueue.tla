----------------------------- MODULE TurnQueue ------------------------------
(***************************************************************************)
(* Admission to the turn lock (backend/sage/orchestrator/service.py).      *)
(*                                                                         *)
(* One Project has one working tree and one plain `threading.Lock`, the    *)
(* turn lock.  Three kinds of caller take it:                              *)
(*                                                                         *)
(*   - streaming turns (Build, Chat, Approve, Continue), which wait in     *)
(*     line on the deque of `_TurnQueue` and are served in admission order;*)
(*   - doors (publish, reset, sync, the Chat save, a reload...), which take*)
(*     the raw lock without queueing and are named by no ticket;           *)
(*   - named doors (the plan draft and the compaction that follows a Chat  *)
(*     turn), which take the raw lock and then give it a ticket.           *)
(*                                                                         *)
(* A critical section under `_cond` is one action, with one exception: the *)
(* lock itself is not protected by `_cond`, so a door may slip in between  *)
(* the `lock.release()` and the `_promote_head()` of a release.            *)
(*                                                                         *)
(* The thread of a turn has a program counter `pc`; its ticket has the     *)
(* fields of `_TurnTicket`.  `sequence[t] # 0` is the ticket's `admitted`. *)
(***************************************************************************)
EXTENDS Integers, SequencesExt

CONSTANTS
    Turns,      \* the streaming turns asked for, one ticket each
    Chats,      \* those of them that are Chat turns; the others are Build turns
    Doors,      \* callers of the raw lock, one visit each
    Free,       \* the value of `lock` and of `running` when there is no holder
    Drops,      \* the rows at which a caller may drop the generator of a turn
    MaxEdits    \* bound: how often the context of a waiting turn is edited

Actors == Turns \cup Doors

ASSUME ActorsAssumption ==
    /\ Chats \subseteq Turns
    /\ Turns \cap Doors = {}
    /\ Free \notin Actors
    /\ Drops \subseteq {"pending", "announcing"}
ASSUME MaxEditsAssumption == MaxEdits \in Nat

VARIABLES
    lock,           \* who holds `_turn_lock` (Python keeps only whether it is held)
    waiting,        \* `_TurnQueue._waiting`
    running,        \* `_TurnQueue._running`
    lastSequence,   \* `_TurnQueue._last_sequence`
    generation,     \* `_TurnQueue._running_generation`
    sequence, outcome, queued, claimed, granted,    \* the tickets
    snapshot,       \* the ticket's `snapshot` of the context
    turnGeneration, \* `turn_generation`, kept from the grant for the compaction
    context,        \* the chips and the selected app a turn is written against
    wedged,         \* `_turn_wedged`
    pc              \* where the thread of each turn and of each door is

queueVars  == <<lock, waiting, running, generation, outcome>>
ticketVars == <<sequence, queued, claimed, granted, snapshot, turnGeneration>>
vars == <<queueVars, ticketVars, lastSequence, context, wedged, pc>>

Outcomes == {"none", "ready", "cancelled", "wedged"}

TurnPcs == {"asked", "joining", "stamping", "routed", "claimed", "pending",
            "waiting", "recheck", "announcing", "cleanup", "withdraw", "turn",
            "wedging", "unwinding", "giveback", "aftercare", "ended"}
DoorPcs == {"idle", "entered", "named", "compactTry", "compactCheck",
            "summarising", "gone"}

TypeOK ==
    /\ lock \in Actors \cup {Free}
    /\ waiting \in Seq(Turns)
    /\ running \in Actors \cup {Free}
    /\ lastSequence \in Nat
    /\ generation \in Nat
    /\ sequence \in [Actors -> Nat]
    /\ outcome \in [Actors -> Outcomes]
    /\ queued \in [Actors -> BOOLEAN]
    /\ claimed \in [Actors -> BOOLEAN]
    /\ granted \in [Actors -> BOOLEAN]
    /\ snapshot \in [Actors -> Nat]
    /\ turnGeneration \in [Actors -> Nat]
    /\ context \in Nat
    /\ wedged \in BOOLEAN
    /\ pc \in [Actors -> TurnPcs \cup DoorPcs]
    /\ \A t \in Turns : pc[t] \in TurnPcs
    /\ \A d \in Doors : pc[d] \in DoorPcs

Init ==
    /\ lock = Free
    /\ waiting = <<>>
    /\ running = Free
    /\ lastSequence = 0
    /\ generation = 0
    /\ sequence = [a \in Actors |-> 0]
    /\ outcome = [a \in Actors |-> "none"]
    /\ queued = [a \in Actors |-> FALSE]
    /\ claimed = [a \in Actors |-> FALSE]
    /\ granted = [a \in Actors |-> FALSE]
    /\ snapshot = [a \in Actors |-> 0]
    /\ turnGeneration = [a \in Actors |-> 0]
    /\ context = 0
    /\ wedged = FALSE
    /\ pc = [a \in Actors |-> IF a \in Turns THEN "asked" ELSE "idle"]

Goto(a, label) == pc' = [pc EXCEPT ![a] = label]

Builds == Turns \ Chats

Waits(t) == t \in ToSet(waiting)

(***************************************************************************)
(* `_TurnQueue`.  Each operator gives the next value of every variable in  *)
(* queueVars; w, l, r and out are the deque, the lock, the named holder    *)
(* and the outcomes at that point of the critical section.                 *)
(***************************************************************************)

\* Fault: a free lock goes to whoever asks, not to the head of the line.
CanTakeAnyone(t, w, l) == w # <<>> /\ l = Free

\* `_take`: t is at the head of w and the lock is free.
CanTake(t, w, l) == w # <<>> /\ Head(w) = t /\ l = Free

Take(t, w, out) ==
    /\ waiting' = Tail(w)
    /\ lock' = t
    /\ running' = t
    /\ generation' = generation + 1
    /\ outcome' = [out EXCEPT ![t] = "ready"]

LeaveAs(w, l, r, out) ==
    /\ waiting' = w
    /\ lock' = l
    /\ running' = r
    /\ outcome' = out
    /\ UNCHANGED generation

\* Fault: last in, first out.
PromoteLast(w, l, r, out) ==
    \/ /\ w # <<>> /\ l = Free
       /\ LeaveAs(Front(w), Last(w), Last(w), [out EXCEPT ![Last(w)] = "ready"])
    \/ (w = <<>> \/ l # Free) /\ LeaveAs(w, l, r, out)

\* `_promote_head`: a free lock goes to the next ticket in line.
PromoteHead(w, l, r, out) ==
    \/ w # <<>> /\ l = Free /\ Take(Head(w), w, out)
    \/ (w = <<>> \/ l # Free) /\ LeaveAs(w, l, r, out)

\* `self._running = None; self._lock.release(); self._promote_head()`.  A door
\* blocked in `_turn_lock.acquire` does not hold `_cond` and can win the race.
HandBack(out, pcs) ==
    \/ PromoteHead(waiting, Free, Free, out) /\ pc' = pcs
    \/ \E d \in Doors :
          /\ pcs[d] = "idle"
          /\ LeaveAs(waiting, d, Free, out)
          /\ pc' = [pcs EXCEPT ![d] = "entered"]

\* A sequence number is given once, by `admit` or by `name_holder`.
NumberTicket(a) ==
    /\ lastSequence' = lastSequence + 1
    /\ sequence' = [sequence EXCEPT ![a] = lastSequence + 1]

Cancelled(t) == [outcome EXCEPT ![t] = "cancelled"]

(***************************************************************************)
(* A streaming turn: `prepare_stream_turn`, then the generator that calls  *)
(* `_acquire_turn`.  Admission happens in the first for a route and in the *)
(* second for a caller that brings no ticket; the test of `_turn_wedged`   *)
(* and the admission are two steps in both.                                *)
(***************************************************************************)
Ask(t) ==
    /\ pc[t] = "asked"
    /\ Goto(t, IF wedged THEN "ended" ELSE "joining")
    /\ UNCHANGED <<queueVars, ticketVars, lastSequence, context, wedged>>

\* `admit`: the ticket goes on the deque and takes a free lock if it is the head.
Admit(t) ==
    /\ pc[t] = "joining"
    /\ NumberTicket(t)
    /\ LET w == Append(waiting, t) IN
       \/ /\ CanTake(t, w, lock)
          /\ Take(t, w, outcome)
          /\ Goto(t, "routed")
          /\ UNCHANGED queued
       \/ /\ ~CanTake(t, w, lock)
          /\ LeaveAs(w, lock, running, outcome)
          /\ queued' = [queued EXCEPT ![t] = TRUE]
          /\ Goto(t, "stamping")
    /\ UNCHANGED <<claimed, granted, snapshot, turnGeneration, context, wedged>>

\* `ticket.snapshot = self._turn_snapshot(...)`, outside `_cond`.
Stamp(t) ==
    /\ pc[t] = "stamping"
    /\ snapshot' = [snapshot EXCEPT ![t] = context]
    /\ Goto(t, "routed")
    /\ UNCHANGED <<queueVars, sequence, queued, claimed, granted, turnGeneration,
                   lastSequence, context, wedged>>

\* The response body is iterated: the generator starts and `claim`s its ticket.
Claim(t) ==
    /\ pc[t] = "routed"
    /\ claimed' = [claimed EXCEPT ![t] = TRUE]
    /\ Goto(t, "claimed")
    /\ UNCHANGED <<queueVars, sequence, queued, granted, snapshot, turnGeneration,
                   lastSequence, context, wedged>>

\* `granted = True`, and the generation a Chat turn remembers for its aftercare.
Grant(t) ==
    /\ granted' = [granted EXCEPT ![t] = TRUE]
    /\ turnGeneration' = [turnGeneration EXCEPT ![t] = generation]
    /\ Goto(t, "turn")

\* After the claim: cancelled before it started, or granted at once, or in line.
Check(t) ==
    /\ pc[t] = "claimed"
    /\ \/ /\ outcome[t] = "cancelled"
          /\ Goto(t, "ended")
          /\ UNCHANGED <<granted, turnGeneration>>
       \/ /\ outcome[t] # "cancelled" /\ ~queued[t]
          /\ Grant(t)
       \/ /\ outcome[t] # "cancelled" /\ queued[t]
          /\ Goto(t, "pending")
          /\ UNCHANGED <<granted, turnGeneration>>
    /\ UNCHANGED <<queueVars, sequence, queued, claimed, snapshot, lastSequence,
                   context, wedged>>

\* The `pending` row was read; the thread enters `wait`.
Await(t) ==
    /\ pc[t] = "pending"
    /\ Goto(t, "waiting")
    /\ UNCHANGED <<queueVars, ticketVars, lastSequence, context, wedged>>

\* Fault: `wait` trusts the notify and never tests the lock itself.
PollNever(t) == FALSE /\ UNCHANGED vars

\* One turn of the loop in `wait`: the head of the line tests the lock itself.
Poll(t) ==
    /\ pc[t] = "waiting"
    /\ outcome[t] = "none"
    /\ CanTake(t, waiting, lock)
    /\ Take(t, waiting, outcome)
    /\ UNCHANGED <<ticketVars, lastSequence, context, wedged, pc>>

\* `wait` returns.
WakeUp(t) ==
    /\ pc[t] = "waiting"
    /\ outcome[t] # "none"
    /\ Goto(t, IF outcome[t] = "ready" THEN "recheck" ELSE "cleanup")
    /\ UNCHANGED <<queueVars, ticketVars, lastSequence, context, wedged>>

\* The context changed while the turn waited: the lock goes straight back.
ContextChanged(t) ==
    /\ pc[t] = "recheck"
    /\ context # snapshot[t]
    /\ HandBack(outcome, [pc EXCEPT ![t] = "cleanup"])
    /\ UNCHANGED <<ticketVars, lastSequence, context, wedged>>

SameContext(t) ==
    /\ pc[t] = "recheck"
    /\ context = snapshot[t]
    /\ Goto(t, "announcing")
    /\ UNCHANGED <<queueVars, ticketVars, lastSequence, context, wedged>>

\* The `running` row was read.
Granted(t) ==
    /\ pc[t] = "announcing"
    /\ Grant(t)
    /\ UNCHANGED <<queueVars, sequence, queued, claimed, snapshot, lastSequence,
                   context, wedged>>

\* The caller drops the generator at the `pending` or at the `running` row.
HangUp(t) ==
    /\ pc[t] \in Drops
    /\ Goto(t, "cleanup")
    /\ UNCHANGED <<queueVars, ticketVars, lastSequence, context, wedged>>

\* Fault: no `finally`; a dropped generator leaves its place as it was.
CleanupNothing(t) ==
    /\ pc[t] = "cleanup"
    /\ Goto(t, "ended")
    /\ UNCHANGED <<queueVars, ticketVars, lastSequence, context, wedged>>

\* Fault: the `finally` only knows `cancel`, which does not see the holder.
CleanupCancelOnly(t) ==
    /\ pc[t] = "cleanup"
    /\ Goto(t, "withdraw")
    /\ UNCHANGED <<queueVars, ticketVars, lastSequence, context, wedged>>

\* The `finally` of `_acquire_turn` for a turn that was not granted asks whether
\* its ticket is the running one.  The answer is used after `_cond` is let go.
Cleanup(t) ==
    /\ pc[t] = "cleanup"
    /\ Goto(t, IF running = t THEN "giveback" ELSE "withdraw")
    /\ UNCHANGED <<queueVars, ticketVars, lastSequence, context, wedged>>

\* It was not: `cancel` takes the ticket off the deque, if it is still there.
Withdraw(t) ==
    /\ pc[t] = "withdraw"
    /\ \/ /\ Waits(t)
          /\ LeaveAs(RemoveFirst(waiting, t), lock, running, Cancelled(t))
       \/ ~Waits(t) /\ UNCHANGED queueVars
    /\ Goto(t, "ended")
    /\ UNCHANGED <<ticketVars, lastSequence, context, wedged>>

\* Fault: a Build turn that unwinds after a wedge gives the lock back.
TurnEndsIgnoringWedge(t) ==
    /\ pc[t] \in {"turn", "unwinding"}
    /\ running = t
    /\ Goto(t, "giveback")
    /\ UNCHANGED <<queueVars, ticketVars, lastSequence, context, wedged>>

\* The `finally` of an entry point.  Each asks `running() is ticket` first, and
\* a Build turn keeps the lock of a wedged workspace.
TurnEnds(t) ==
    /\ pc[t] \in {"turn", "unwinding"}
    /\ \/ /\ running = t
          /\ t \in Chats \/ ~wedged
          /\ Goto(t, "giveback")
       \/ /\ t \in Builds /\ wedged
          /\ Goto(t, "ended")
    /\ UNCHANGED <<queueVars, ticketVars, lastSequence, context, wedged>>

\* `_release_turn`, then for a Chat turn that ran, the aftercare.
GiveBack(t) ==
    /\ pc[t] = "giveback"
    /\ HandBack(outcome, [pc EXCEPT ![t] = IF t \in Chats /\ granted[t]
                                           THEN "aftercare" ELSE "ended"])
    /\ UNCHANGED <<ticketVars, lastSequence, context, wedged>>

(***************************************************************************)
(* `_mark_turn_wedged`: a Build session that would not stop.  The flag is  *)
(* set first, then the line is failed, and the lock is kept.               *)
(***************************************************************************)
Wedge(t) ==
    /\ pc[t] = "turn"
    /\ t \in Builds
    /\ wedged' = TRUE
    /\ Goto(t, "wedging")
    /\ UNCHANGED <<queueVars, ticketVars, lastSequence, context>>

FailPending(t) ==
    /\ pc[t] = "wedging"
    /\ LeaveAs(<<>>, lock, running,
               [a \in Actors |-> IF Waits(a) THEN "wedged" ELSE outcome[a]])
    /\ Goto(t, "unwinding")
    /\ UNCHANGED <<ticketVars, lastSequence, context, wedged>>

(***************************************************************************)
(* Other threads acting on a ticket.                                       *)
(***************************************************************************)

\* `abandon_unclaimed`: the response ended before its generator claimed the
\* ticket.  The generator may still start afterwards (it has its own thread).
Abandon(t, label) ==
    /\ pc[t] = "routed"
    /\ ~claimed[t]
    /\ \/ /\ running = t
          /\ HandBack(Cancelled(t), [pc EXCEPT ![t] = label])
       \/ /\ running # t /\ Waits(t)
          /\ PromoteHead(RemoveFirst(waiting, t), lock, running, Cancelled(t))
          /\ Goto(t, label)
       \/ /\ running # t /\ ~Waits(t)
          /\ label = "ended"
          /\ Goto(t, label)
          /\ UNCHANGED queueVars
    /\ UNCHANGED <<ticketVars, lastSequence, context, wedged>>

\* Fault: a Stop takes the lock from a running turn whether or not it began.
StopExactAlways(t) ==
    /\ \/ /\ Waits(t)
          /\ PromoteHead(RemoveFirst(waiting, t), lock, running, Cancelled(t))
          /\ UNCHANGED pc
       \/ /\ ~Waits(t) /\ running = t
          /\ HandBack(Cancelled(t), pc)
    /\ UNCHANGED <<ticketVars, lastSequence, context, wedged>>

\* `stop_exact` on a ticket it matches; a claimed running turn is only told.
StopExact(t) ==
    /\ \/ /\ Waits(t)
          /\ PromoteHead(RemoveFirst(waiting, t), lock, running, Cancelled(t))
          /\ UNCHANGED pc
       \/ /\ ~Waits(t) /\ running = t /\ ~claimed[t]
          /\ HandBack(Cancelled(t), pc)
    /\ UNCHANGED <<ticketVars, lastSequence, context, wedged>>

\* `cancel`: drop one pending turn.  Nobody is promoted.
Cancel(t) ==
    /\ Waits(t)
    /\ LeaveAs(RemoveFirst(waiting, t), lock, running, Cancelled(t))
    /\ UNCHANGED <<ticketVars, lastSequence, context, wedged, pc>>

EditContext ==
    /\ context < MaxEdits
    /\ context' = context + 1
    /\ UNCHANGED <<queueVars, ticketVars, lastSequence, wedged, pc>>

(***************************************************************************)
(* Doors.                                                                  *)
(***************************************************************************)
\* `_turn_lock.acquire`: a door that fails is refused and changes nothing.
DoorEnters(d) ==
    /\ pc[d] = "idle"
    /\ lock = Free
    /\ LeaveAs(waiting, d, running, outcome)
    /\ Goto(d, "entered")
    /\ UNCHANGED <<ticketVars, lastSequence, context, wedged>>

\* `name_holder`, which raises when `running` is not None (HolderIsFree).
NameHolder(d, label) ==
    /\ running = Free
    /\ NumberTicket(d)
    /\ claimed' = [claimed EXCEPT ![d] = TRUE]
    /\ granted' = [granted EXCEPT ![d] = TRUE]
    /\ LeaveAs(waiting, lock, d, [outcome EXCEPT ![d] = "ready"])
    /\ Goto(d, label)
    /\ UNCHANGED <<queued, snapshot, turnGeneration, context, wedged>>

\* `draft_handoff_plan` names the lock it took.
DoorNames(d) ==
    /\ pc[d] = "entered"
    /\ NameHolder(d, "named")

\* `_release_turn` at the end of a door.
DoorLeaves(d) ==
    /\ pc[d] \in {"entered", "named", "summarising"}
    /\ HandBack(outcome, [pc EXCEPT ![d] = "gone"])
    /\ UNCHANGED <<ticketVars, lastSequence, context, wedged>>

\* `self._turn_lock.release()`: the release of a door that bypasses the queue
\* and wakes nobody (set_catalog, archive_plan_doc, edit_plan_doc, extensions).
DoorLeavesRaw(d) ==
    /\ pc[d] = "entered"
    /\ LeaveAs(waiting, Free, running, outcome)
    /\ Goto(d, "gone")
    /\ UNCHANGED <<ticketVars, lastSequence, context, wedged>>

(***************************************************************************)
(* `_maybe_compact_chat`, after the lock of Chat turn t was handed back.   *)
(* It takes a door d of its own, for the ticket it gives the lock.         *)
(***************************************************************************)
AftercareEnds(t) ==
    /\ pc[t] = "aftercare"
    /\ Goto(t, "ended")
    /\ UNCHANGED <<queueVars, ticketVars, lastSequence, context, wedged>>

CompactLooks(d, t) ==
    /\ pc[t] = "aftercare"
    /\ pc[d] = "idle"
    /\ generation = turnGeneration[t]
    /\ turnGeneration' = [turnGeneration EXCEPT ![d] = turnGeneration[t]]
    /\ pc' = [pc EXCEPT ![t] = "ended", ![d] = "compactTry"]
    /\ UNCHANGED <<queueVars, sequence, queued, claimed, granted, snapshot,
                   lastSequence, context, wedged>>

CompactTries(d) ==
    /\ pc[d] = "compactTry"
    /\ \/ /\ lock = Free
          /\ LeaveAs(waiting, d, running, outcome)
          /\ Goto(d, "compactCheck")
       \/ /\ lock # Free
          /\ UNCHANGED queueVars
          /\ Goto(d, "gone")
    /\ UNCHANGED <<ticketVars, lastSequence, context, wedged>>

\* The generation is read again under the lock: another turn ran, or this
\* session is still the one the turn left.
CompactChecks(d) ==
    /\ pc[d] = "compactCheck"
    /\ \/ /\ generation # turnGeneration[d]
          /\ HandBack(outcome, [pc EXCEPT ![d] = "gone"])
          /\ UNCHANGED <<ticketVars, lastSequence, context, wedged>>
       \/ /\ generation = turnGeneration[d]
          /\ NameHolder(d, "summarising")

TurnStep(t) ==
    \/ Ask(t) \/ Admit(t) \/ Stamp(t) \/ Claim(t) \/ Check(t) \/ Await(t)
    \/ Poll(t) \/ WakeUp(t) \/ ContextChanged(t) \/ SameContext(t) \/ Granted(t)
    \/ Cleanup(t) \/ Withdraw(t) \/ TurnEnds(t) \/ GiveBack(t) \/ FailPending(t)
    \/ AftercareEnds(t)

DoorStep(d) ==
    \/ DoorNames(d) \/ DoorLeaves(d) \/ DoorLeavesRaw(d)
    \/ CompactTries(d) \/ CompactChecks(d)

Outside ==
    \/ EditContext
    \/ \E t \in Turns : \/ HangUp(t) \/ Wedge(t) \/ StopExact(t) \/ Cancel(t)
                        \/ Abandon(t, "ended") \/ Abandon(t, "routed")
    \/ \E d \in Doors : \/ DoorEnters(d)
                        \/ \E t \in Chats : CompactLooks(d, t)

Next ==
    \/ \E t \in Turns : TurnStep(t)
    \/ \E d \in Doors : DoorStep(d)
    \/ Outside

(***************************************************************************)
(* Fairness: a thread that can go on does, a turn ends, a door ends.       *)
(* Nothing obliges a person or a wedge to act, nor a door to arrive.       *)
(***************************************************************************)
Fairness ==
    /\ \A t \in Turns : WF_vars(TurnStep(t))
    /\ \A d \in Doors : WF_vars(DoorStep(d))

Spec == Init /\ [][Next]_vars
FairSpec == Spec /\ Fairness

(***************************************************************************)
(* Properties.                                                             *)
(***************************************************************************)

\* Where the thread of an actor may touch the working tree.
InTree == {a \in Actors : pc[a] \in {"turn", "wedging", "unwinding", "entered", "named",
                                     "compactCheck", "summarising"}}

\* Two actors never have the working tree at once, and the one that has it is
\* the holder of the lock: no stop, cancel, hang-up or abandoned response hands
\* over the lock of a turn that runs.
OneInTree == \A a \in InTree : lock = a

\* A ticket named as running really holds the lock, and its thread or its
\* unstarted response is there to give it back (unless the workspace wedged).
RunningIsLive ==
    running # Free =>
        /\ lock = running
        /\ pc[running] \in {"ended", "gone"} => wedged

\* Every ticket on the deque has somebody standing in its place: a thread that
\* will wait for it or withdraw it, or a response that will start or be abandoned.
NobodyMissing ==
    \A t \in Turns : Waits(t) =>
        pc[t] \in {"stamping", "routed", "claimed", "pending", "waiting", "cleanup",
                   "withdraw"}

\* The deque is in admission order, each ticket on it once.
InOrder ==
    \A i, j \in 1..Len(waiting) :
        i < j => sequence[waiting[i]] < sequence[waiting[j]]

\* A turn the queue cancelled or failed never runs: a Stop answered "cancelled"
\* has prevented all model work.
CancelledNeverRuns ==
    \A t \in Turns : outcome[t] \in {"cancelled", "wedged"} => ~granted[t]

\* `name_holder` never raises: a door that holds the lock finds no named holder.
HolderIsFree ==
    \A d \in Doors : pc[d] \in {"entered", "compactCheck"} => running = Free

\* The docstring of `_acquire_turn`: a wedged workspace is refused at the door
\* instead of queued.  Here: once the wedge has failed the line, nobody waits.
WedgedIsRefused ==
    wedged /\ (\A t \in Turns : pc[t] # "wedging") => waiting = <<>>

\* Once wedged, the lock is never handed on: the session may still be writing.
WedgeKeepsLock == [][wedged => lock' = lock]_vars

\* Drain order is the order you asked: a ticket never takes the lock and leaves
\* one with a smaller sequence number waiting.
ServedInOrder ==
    [][\A t \in Turns : running' = t /\ running # t =>
          \A u \in Turns : Waits(u)' => sequence'[t] < sequence'[u]]_vars

\* Nobody waits for ever: a ticket on the deque leaves it, or the workspace wedges.
EveryWaitEnds == \A t \in Turns : Waits(t) ~> (~Waits(t) \/ wedged)

(***************************************************************************)
(* The inductive invariant.                                                *)
(***************************************************************************)
DoorHolds == {"entered", "named", "compactCheck", "summarising"}
TurnHolds == {"recheck", "announcing", "turn", "wedging", "unwinding", "giveback"}
InLine    == {"stamping", "routed", "claimed", "pending", "waiting"}
Leaving   == {"cleanup", "withdraw"}
Started   == TurnHolds \cup Leaving \cup {"claimed", "pending", "waiting"}

\* The thread of t has gone and its ticket still holds the lock: the workspace
\* wedged, or the line reached t while its thread was leaving the line.
Stranded(t) == pc[t] = "ended" /\ (wedged \/ "pending" \in Drops)

Distinct(s) == \A i, j \in 1..Len(s) : s[i] = s[j] => i = j

\* A waiting ticket has no verdict yet, came second, and somebody stands there.
LineInv ==
    /\ Distinct(waiting)
    /\ \A t \in ToSet(waiting) :
          /\ outcome[t] = "none"
          /\ queued[t]
          /\ running # t
          /\ pc[t] \in InLine \cup Leaving
          /\ pc[t] \in Leaving => "pending" \in Drops

\* The lock, the named holder and the threads agree on who holds it.
LockInv ==
    /\ \A t \in Turns : lock = t <=> running = t
    /\ \A t \in Turns : pc[t] \in TurnHolds => running = t
    /\ \A d \in Doors : lock = d <=> pc[d] \in DoorHolds
    /\ \A d \in Doors : running = d <=> pc[d] \in {"named", "summarising"}
    /\ \A t \in Turns : running = t =>
          /\ outcome[t] = "ready"
          /\ pc[t] \in TurnHolds \cup InLine \cup Leaving \/ Stranded(t)
          /\ pc[t] = "withdraw" => "pending" \in Drops

\* What the ticket of a turn says, by where its thread is.
TicketInv ==
    \A t \in Turns :
        /\ pc[t] \in {"asked", "joining"} => outcome[t] = "none" /\ ~granted[t]
        /\ pc[t] \in InLine =>
              /\ outcome[t] = "none" => t \in ToSet(waiting)
              /\ outcome[t] = "ready" => running = t
              /\ ~queued[t] => outcome[t] \in {"ready", "cancelled"}
              /\ ~granted[t]
        /\ pc[t] \in Started => claimed[t]
        /\ granted[t] => claimed[t] /\ outcome[t] = "ready"

\* A wedge keeps the lock with the turn that would not stop.
WedgeInv ==
    wedged => \E t \in Builds : /\ running = t
                                /\ claimed[t]
                                /\ pc[t] \in {"wedging", "unwinding", "ended"}

\* Sequence numbers grow along the line, and none exceeds the counter.
OrderInv ==
    /\ InOrder
    /\ \A a \in Actors : sequence[a] <= lastSequence

\* A turn that was not admitted has no number yet.
FreshInv ==
    \A t \in Turns : pc[t] \in {"asked", "joining"} => sequence[t] = 0

HolderInv == TypeOK /\ LineInv /\ LockInv /\ TicketInv /\ WedgeInv

IInv == HolderInv /\ OrderInv /\ FreshInv

(***************************************************************************)
(* The queue implements TurnAdmission: the deque is the line and the lock  *)
(* is the ownership of the tree.                                           *)
(***************************************************************************)
Admission == INSTANCE TurnAdmission WITH
    fresh <- {t \in Turns : sequence[t] = 0}, line <- waiting, owner <- lock

Refinement == Admission!Spec
=============================================================================
