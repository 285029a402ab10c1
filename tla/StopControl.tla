---------------------------- MODULE StopControl -----------------------------
(***************************************************************************)
(* Stop (backend/sage/orchestrator/service.py).                            *)
(*                                                                         *)
(* A Stop route decides under `_stop_control_lock` whether the turn it was *)
(* aimed at still runs, raises one flag, `stop_requested`, shared by all   *)
(* turns, and interrupts the session it captured after letting the lock    *)
(* go.  The running turn polls the flag, and clears it where it gives way. *)
(* The turn lock is passed on without `_stop_control_lock`, except by a    *)
(* decline.  An agent's session works on its own: an interrupt may be      *)
(* obeyed late or never.                                                   *)
(*                                                                         *)
(* The line of waiting turns is TurnQueue's; here a turn just takes a free *)
(* lock.                                                                   *)
(***************************************************************************)
EXTENDS Integers, FiniteSets

CONSTANTS
    Chats,      \* Chat turns
    Declines,   \* "stay in Chat": commits, or goes on as a Chat turn
    Builds,     \* Build turns in the session of their Conversation
    Approvals,  \* turns that build an approved plan in a clean session
    Phased,     \* turns that build it phase by phase, each in its own session
    Resets,     \* doors that wait for a Stop to take effect
    Stops,      \* presses of the Stop button
    ChatSession, BuildSession,  \* the sessions of the Conversation
    None,       \* no turn, no session, nobody
    MaxSends    \* bound: prompts one turn sends (nudges, recoveries, phases)

Turns == Chats \cup Declines \cup Builds \cup Approvals \cup Phased
Coders == Builds \cup Approvals \cup Phased

ASSUME KindsAssumption ==
    /\ Chats \cap (Declines \cup Coders) = {}
    /\ Declines \cap Coders = {}
    /\ Builds \cap (Approvals \cup Phased) = {}
    /\ Approvals \cap Phased = {}
    /\ Resets \cap Turns = {}
    /\ Stops \cap (Turns \cup Resets) = {}
    /\ None \notin Turns \cup Resets \cup Stops
ASSUME BoundAssumption == MaxSends \in Nat /\ IsFiniteSet(Turns) /\ IsFiniteSet(Stops)

VARIABLES
    pc,         \* where each turn is
    how,        \* what each turn came to
    sends,      \* prompts each turn has sent
    session,    \* the session each turn prompts
    lapsed,     \* history: the turns that tried a phase again beside an unread session
    lock,       \* who holds `_turn_lock`
    wedged,     \* `_turn_wedged`
    flag,       \* `stop_requested`
    active,     \* `active_session_id`
    preflight,  \* `fresh_session_preflight`
    kept,       \* `session_id`, the Build session of the Conversation
    work,       \* the turn whose prompt each session works on
    stopPc,     \* where each press is
    stopLock,   \* the press that holds `_stop_control_lock`
    aimed,      \* the turn a press was let through for
    captured,   \* the session a press interrupts
    resetPc     \* where each reset is

turnVars == <<pc, how, sends, session, lapsed>>
projVars == <<flag, active, preflight, kept>>
stopVars == <<stopPc, stopLock, aimed, captured>>
vars == <<turnVars, lock, wedged, projVars, work, stopVars, resetPc>>

\* The sessions: those of the Conversation, and the clean ones, by turn.
Clean(t, n) == <<t, n>>
Sessions == {ChatSession, BuildSession} \cup {Clean(t, n) : t \in Turns, n \in 0..MaxSends}

ASSUME SessionsAssumption == None \notin Sessions

TurnPcs == {"start", "opening", "decides", "preflight", "asks", "creates", "published",
            "ready", "resends", "resent", "poll", "last", "unread", "cut", "grace", "swap",
            "swapGrace", "closing", "over", "stuck"}
Ends == {"none", "stopped", "answered", "gaveUp", "cutOff", "failed"}

TypeOK ==
    /\ pc \in [Turns -> TurnPcs]
    /\ how \in [Turns -> Ends]
    /\ sends \in [Turns -> 0..MaxSends]
    /\ session \in [Turns -> Sessions \cup {None}]
    /\ lapsed \subseteq Turns
    /\ lock \in Turns \cup Resets \cup {None}
    /\ wedged \in BOOLEAN
    /\ flag \in BOOLEAN
    /\ active \in Sessions \cup {None}
    /\ preflight \in BOOLEAN
    /\ kept \in Sessions
    /\ work \in [Sessions -> Turns \cup {None}]
    /\ stopPc \in [Stops -> {"off", "decided", "posts", "done", "refused"}]
    /\ stopLock \in Stops \cup {None}
    /\ aimed \in [Stops -> Turns \cup {None}]
    /\ captured \in [Stops -> Sessions \cup {None}]
    /\ resetPc \in [Resets -> {"off", "asks", "waits", "inside", "done", "refused"}]

Init ==
    /\ pc = [t \in Turns |-> "start"]
    /\ how = [t \in Turns |-> "none"]
    /\ sends = [t \in Turns |-> 0]
    /\ session = [t \in Turns |-> None]
    /\ lapsed = {}
    /\ lock = None
    /\ wedged = FALSE
    /\ flag = FALSE
    /\ active = None
    /\ preflight = FALSE
    /\ kept = BuildSession
    /\ work = [s \in Sessions |-> None]
    /\ stopPc = [p \in Stops |-> "off"]
    /\ stopLock = None
    /\ aimed = [p \in Stops |-> None]
    /\ captured = [p \in Stops |-> None]
    /\ resetPc = [r \in Resets |-> "off"]

Goto(t, label) == pc' = [pc EXCEPT ![t] = label]

EndsAs(t, e) == Goto(t, "closing") /\ how' = [how EXCEPT ![t] = e]

\* An abort: the session stops at once, or later, or not at all.
Interrupt(s) ==
    \/ UNCHANGED work
    \/ work' = [work EXCEPT ![s] = None]

(***************************************************************************)
(* A turn opens.                                                           *)
(***************************************************************************)

Begin(t) ==
    /\ pc[t] = "start"
    /\ lock = None
    /\ lock' = t
    /\ Goto(t, IF t \in Declines THEN "decides" ELSE "opening")
    /\ UNCHANGED <<how, sends, session, lapsed, wedged, projVars, work, stopVars, resetPc>>

\* A decline gives the lock back inside `_stop_control_lock`, or goes on as Chat.
Decide(t) ==
    /\ pc[t] = "decides"
    /\ stopLock = None
    /\ \/ /\ flag' = FALSE
          /\ lock' = None
          /\ Goto(t, "over")
          /\ how' = [how EXCEPT ![t] = IF flag THEN "stopped" ELSE "answered"]
       \/ /\ ~flag
          /\ Goto(t, "opening")
          /\ UNCHANGED <<flag, lock, how>>
    /\ UNCHANGED <<sends, session, lapsed, wedged, active, preflight, kept, work, stopVars, resetPc>>

\* A turn in a session of its own, or in a phase's, cannot be interrupted before
\* its first send; the others publish their session here.
Open(t) ==
    /\ pc[t] = "opening"
    /\ IF t \in Approvals \cup Phased
       THEN /\ preflight' = TRUE
            /\ Goto(t, "preflight")
            /\ session' = [session EXCEPT ![t] =
                             IF t \in Phased THEN Clean(t, sends[t]) ELSE kept]
            /\ UNCHANGED active
       ELSE /\ session' = [session EXCEPT ![t] = IF t \in Builds THEN kept ELSE ChatSession]
            /\ active' = session'[t]
            /\ Goto(t, "ready")
            /\ UNCHANGED preflight
    /\ UNCHANGED <<how, sends, lapsed, lock, wedged, flag, kept, work, stopVars, resetPc>>

Preflight(t) ==
    /\ pc[t] = "preflight"
    /\ IF flag
       THEN EndsAs(t, "stopped") /\ flag' = FALSE
       ELSE Goto(t, IF t \in Approvals THEN "asks" ELSE "ready") /\ UNCHANGED <<flag, how>>
    /\ UNCHANGED <<sends, session, lapsed, lock, wedged, active, preflight, kept, work, stopVars, resetPc>>

(***************************************************************************)
(* `_replace_build_session`: ask, create without the lock, ask again and   *)
(* publish.                                                                *)
(***************************************************************************)

AskFresh(t) ==
    /\ pc[t] = "asks"
    /\ stopLock = None
    /\ IF flag
       THEN EndsAs(t, "stopped") /\ flag' = FALSE
       ELSE Goto(t, "creates") /\ UNCHANGED <<flag, how>>
    /\ UNCHANGED <<sends, session, lapsed, lock, wedged, active, preflight, kept, work, stopVars, resetPc>>

\* Fault: the flag is not asked again after the network call.
PublishBlind(t) ==
    /\ pc[t] = "creates"
    /\ stopLock = None
    /\ session' = [session EXCEPT ![t] = Clean(t, sends[t])]
    /\ kept' = IF t \in Phased THEN kept ELSE session'[t]
    /\ active' = session'[t]
    /\ preflight' = FALSE
    /\ Goto(t, "ready")
    /\ UNCHANGED <<how, sends, lapsed, lock, wedged, flag, work, stopVars, resetPc>>

Publish(t) ==
    /\ pc[t] = "creates"
    /\ stopLock = None
    /\ IF flag
       THEN EndsAs(t, "stopped") /\ flag' = FALSE
            /\ UNCHANGED <<session, active, preflight, kept>>
       ELSE /\ session' = [session EXCEPT ![t] = Clean(t, sends[t])]
            /\ kept' = IF t \in Phased THEN kept ELSE session'[t]
            /\ active' = session'[t]
            /\ preflight' = FALSE
            /\ Goto(t, "published")
            /\ UNCHANGED <<flag, how>>
    /\ UNCHANGED <<sends, lapsed, lock, wedged, work, stopVars, resetPc>>

\* One more look at the flag before anything is sent there.
StartFresh(t) ==
    /\ pc[t] = "published"
    /\ IF flag
       THEN EndsAs(t, "stopped") /\ flag' = FALSE
       ELSE Goto(t, "ready") /\ UNCHANGED <<flag, how>>
    /\ UNCHANGED <<sends, session, lapsed, lock, wedged, active, preflight, kept, work, stopVars, resetPc>>

Send(t) ==
    /\ pc[t] \in {"ready", "resent"}
    /\ sends[t] < MaxSends
    /\ sends' = [sends EXCEPT ![t] = @ + 1]
    /\ active' = IF preflight THEN session[t] ELSE active
    /\ preflight' = FALSE
    /\ work' = [work EXCEPT ![session[t]] = t]
    /\ Goto(t, "poll")
    /\ UNCHANGED <<how, session, lapsed, lock, wedged, flag, kept, stopVars, resetPc>>

(***************************************************************************)
(* The poll loop and its exits.                                            *)
(***************************************************************************)

\* Fault: Chat only reads the flag.
PollStopKeeps(t) ==
    /\ pc[t] = "poll"
    /\ flag
    /\ Interrupt(session[t])
    /\ flag' = (t \notin Coders)
    /\ EndsAs(t, "stopped")
    /\ UNCHANGED <<sends, session, lapsed, lock, wedged, active, preflight, kept, stopVars, resetPc>>

PollStop(t) ==
    /\ pc[t] = "poll"
    /\ flag
    /\ Interrupt(session[t])
    /\ flag' = FALSE
    /\ EndsAs(t, "stopped")
    /\ UNCHANGED <<sends, session, lapsed, lock, wedged, active, preflight, kept, stopVars, resetPc>>

\* The driver fails: a session cannot be created, a prompt cannot be sent, polls
\* keep failing, or Build's unguarded interrupt raises.  The turn ends as it stands.
DriverFails(t) ==
    /\ pc[t] \in {"creates", "ready", "resends", "resent", "poll"}
    /\ EndsAs(t, "failed")
    /\ UNCHANGED <<sends, session, lapsed, lock, wedged, projVars, work, stopVars, resetPc>>

PollFinished(t) ==
    /\ pc[t] = "poll"
    /\ ~flag
    /\ work[session[t]] # t
    /\ Goto(t, "last")
    /\ UNCHANGED <<how, sends, session, lapsed, lock, wedged, projVars, work, stopVars, resetPc>>

\* Build leaves the poll with its session perhaps still at work: the gateway refused a
\* call, the guard has its own end in store, or the prompt was never seen to start.
PollLeaves(t) ==
    /\ t \in Coders
    /\ pc[t] = "poll"
    /\ ~flag
    /\ Goto(t, "unread")
    /\ UNCHANGED <<how, sends, session, lapsed, lock, wedged, projVars, work, stopVars, resetPc>>

\* A reading of the flag after the poll loop.  Nobody interrupts the session here.
LastStop(t) ==
    /\ pc[t] \in {"last", "unread"}
    /\ flag
    /\ IF t \in Coders
       THEN EndsAs(t, "stopped") /\ flag' = FALSE
       ELSE Goto(t, "poll") /\ UNCHANGED <<flag, how>>
    /\ UNCHANGED <<sends, session, lapsed, lock, wedged, active, preflight, kept, work, stopVars, resetPc>>

\* The last reading: an answer, a nudge in the same session, a broken call to be
\* sent again, or the next phase.
LastGoesOn(t) ==
    /\ pc[t] = "last"
    /\ ~flag
    /\ \/ EndsAs(t, "answered")
       \/ sends[t] < MaxSends /\ Goto(t, "ready") /\ UNCHANGED how
       \/ t \in Coders /\ sends[t] < MaxSends /\ Goto(t, "resends") /\ UNCHANGED how
       \/ t \in Phased /\ sends[t] < MaxSends /\ Goto(t, "opening") /\ UNCHANGED how
    /\ UNCHANGED <<sends, session, lapsed, lock, wedged, projVars, work, stopVars, resetPc>>

\* With no idle reading: a nudge in the same session or a broken call, or a recovery,
\* which stops the session before it looks at the flag.
UnreadGoesOn(t) ==
    /\ pc[t] = "unread"
    /\ sends[t] < MaxSends
    /\ \/ ~flag /\ (Goto(t, "ready") \/ Goto(t, "resends"))
       \/ Goto(t, "swap")
    /\ UNCHANGED <<how, sends, session, lapsed, lock, wedged, projVars, work, stopVars, resetPc>>

\* With no idle reading: given up for a refusal of the gateway or by the guard.  Nobody
\* waits for the session to stop, if it is asked to, and the flag stays as it is.
CutsOff(t) ==
    /\ pc[t] = "unread"
    /\ Interrupt(session[t])
    /\ EndsAs(t, "cutOff")
    /\ UNCHANGED <<sends, session, lapsed, lock, wedged, projVars, stopVars, resetPc>>

\* A phase that was refused, or whose polls kept failing, is tried once more in a session
\* of its own.  Nobody stops the one it had (`_run_step`).
PhaseAgain(t) ==
    /\ t \in Phased
    /\ pc[t] = "poll" \/ (pc[t] = "unread" /\ ~flag)
    /\ sends[t] < MaxSends
    /\ Goto(t, "opening")
    /\ lapsed' = lapsed \cup {t}
    /\ UNCHANGED <<how, sends, session, lock, wedged, projVars, work, stopVars, resetPc>>

\* A broken call is sent again in a clean session, opened without the Stop lock, once the
\* one it broke in is read idle a second time (`_confirm_session_idle`).
Resend(t) ==
    /\ pc[t] = "resends"
    /\ work[session[t]] # t
    /\ session' = [session EXCEPT ![t] = Clean(t, sends[t])]
    /\ kept' = IF t \in Phased THEN kept ELSE session'[t]
    /\ active' = session'[t]
    /\ Goto(t, "resent")
    /\ UNCHANGED <<how, sends, lapsed, lock, wedged, flag, preflight, work, stopVars, resetPc>>

\* Chat at its ceiling, or quiet: an interrupt nobody confirms, and no look at the flag.
Ceiling(t) ==
    /\ t \notin Coders
    /\ pc[t] = "poll"
    /\ ~flag
    /\ Interrupt(session[t])
    /\ EndsAs(t, "gaveUp")
    /\ UNCHANGED <<sends, session, lapsed, lock, wedged, projVars, stopVars, resetPc>>

\* A looping or quiet turn, and a Build turn that wants a clean session, first
\* stop the one they have (`_stop_wedged_session`).
Cut(t) ==
    /\ pc[t] = "poll"
    /\ ~flag
    /\ \/ Goto(t, "cut")
       \/ t \in Coders /\ sends[t] < MaxSends /\ Goto(t, "swap")
    /\ UNCHANGED <<how, sends, session, lapsed, lock, wedged, projVars, work, stopVars, resetPc>>

CutInterrupts(t) ==
    /\ pc[t] \in {"cut", "swap"}
    /\ Interrupt(session[t])
    /\ Goto(t, IF pc[t] = "cut" THEN "grace" ELSE "swapGrace")
    /\ UNCHANGED <<how, sends, session, lapsed, lock, wedged, projVars, stopVars, resetPc>>

\* Given up with an idle session: the flag is cleared.  A phase is tried again.
GivesUp(t) ==
    /\ pc[t] = "grace"
    /\ work[session[t]] # t
    /\ flag' = FALSE
    /\ \/ EndsAs(t, "gaveUp")
       \/ t \in Phased /\ sends[t] < MaxSends /\ Goto(t, "opening") /\ UNCHANGED how
    /\ UNCHANGED <<sends, session, lapsed, lock, wedged, active, preflight, kept, work, stopVars, resetPc>>

\* Fault: the interrupt is taken for the session having stopped.
SwapBlind(t) ==
    /\ pc[t] = "swapGrace"
    /\ IF flag
       THEN EndsAs(t, "stopped") /\ flag' = FALSE
       ELSE Goto(t, "asks") /\ UNCHANGED <<flag, how>>
    /\ UNCHANGED <<sends, session, lapsed, lock, wedged, active, preflight, kept, work, stopVars, resetPc>>

\* Fault: a swap clears the flag as giving up does.
SwapForgets(t) ==
    /\ pc[t] = "swapGrace"
    /\ work[session[t]] # t
    /\ flag' = FALSE
    /\ Goto(t, "asks")
    /\ UNCHANGED <<how, sends, session, lapsed, lock, wedged, active, preflight, kept, work, stopVars, resetPc>>

\* The session is idle: a clean one, the same again, or the checks that end a turn.
\* A reasoning stream that died is prompted again without a look at the flag.
Swap(t) ==
    /\ pc[t] = "swapGrace"
    /\ work[session[t]] # t
    /\ \/ flag /\ EndsAs(t, "stopped") /\ flag' = FALSE
       \/ ~flag /\ (Goto(t, "asks") \/ Goto(t, "last")) /\ UNCHANGED <<flag, how>>
       \/ Goto(t, "ready") /\ UNCHANGED <<flag, how>>
    /\ UNCHANGED <<sends, session, lapsed, lock, wedged, active, preflight, kept, work, stopVars, resetPc>>

\* Fault: a Build turn that met no idle reading gives the lock back.
NoIdleReadingReleases(t) ==
    /\ pc[t] \in {"grace", "swapGrace"}
    /\ flag' = FALSE
    /\ EndsAs(t, "gaveUp")
    /\ UNCHANGED <<sends, session, lapsed, lock, wedged, active, preflight, kept, work, stopVars, resetPc>>

\* No idle reading by the deadline: Build keeps the lock for good, Chat goes on.
NoIdleReading(t) ==
    /\ pc[t] \in {"grace", "swapGrace", "resends"}
    /\ IF t \in Coders
       THEN /\ wedged' = TRUE
            /\ Goto(t, "stuck")
            /\ UNCHANGED <<flag, how>>
       ELSE /\ flag' = FALSE
            /\ EndsAs(t, "gaveUp")
            /\ UNCHANGED wedged
    /\ UNCHANGED <<sends, session, lapsed, lock, active, preflight, kept, work, stopVars, resetPc>>

\* Aftercare, `_clear_turn_baseline`, and the lock.
Close(t) ==
    /\ pc[t] = "closing"
    /\ lock' = None
    /\ active' = None
    /\ preflight' = FALSE
    /\ Goto(t, "over")
    /\ UNCHANGED <<how, sends, session, lapsed, wedged, flag, kept, work, stopVars, resetPc>>

(***************************************************************************)
(* The sessions, the Stop routes and the resets.                           *)
(***************************************************************************)

SessionEnds(s) ==
    /\ work[s] # None
    /\ work' = [work EXCEPT ![s] = None]
    /\ UNCHANGED <<turnVars, lock, wedged, projVars, stopVars, resetPc>>

\* The decision: refused unless the turn aimed at runs.
Press(p) ==
    /\ stopPc[p] = "off"
    /\ stopLock = None
    /\ IF lock \in Turns /\ ~wedged
       THEN /\ stopPc' = [stopPc EXCEPT ![p] = "decided"]
            /\ stopLock' = p
            /\ aimed' = [aimed EXCEPT ![p] = lock]
       ELSE /\ stopPc' = [stopPc EXCEPT ![p] = "refused"]
            /\ UNCHANGED <<stopLock, aimed>>
    /\ UNCHANGED <<captured, turnVars, lock, wedged, projVars, work, resetPc>>

\* Still under the lock: raise the flag, capture the live session.
Raise(p) ==
    /\ stopPc[p] = "decided"
    /\ flag' = TRUE
    /\ captured' = [captured EXCEPT ![p] =
                      IF active = None /\ ~preflight THEN kept ELSE active]
    /\ stopLock' = None
    /\ stopPc' = [stopPc EXCEPT ![p] = "posts"]
    /\ UNCHANGED <<aimed, turnVars, lock, wedged, active, preflight, kept, work, resetPc>>

Post(p) ==
    /\ stopPc[p] = "posts"
    /\ IF captured[p] = None THEN UNCHANGED work ELSE Interrupt(captured[p])
    /\ stopPc' = [stopPc EXCEPT ![p] = "done"]
    /\ UNCHANGED <<stopLock, aimed, captured, turnVars, lock, wedged, projVars, resetPc>>

\* `_acquire_for_reset`: try; then wait only if a Stop is taking effect.
ResetTries(r) ==
    /\ resetPc[r] = "off"
    /\ IF lock = None
       THEN lock' = r /\ resetPc' = [resetPc EXCEPT ![r] = "inside"]
       ELSE lock' = lock /\ resetPc' = [resetPc EXCEPT ![r] = "asks"]
    /\ UNCHANGED <<turnVars, wedged, projVars, work, stopVars>>

ResetAsks(r) ==
    /\ resetPc[r] = "asks"
    /\ resetPc' = [resetPc EXCEPT ![r] = IF ~wedged /\ flag THEN "waits" ELSE "refused"]
    /\ UNCHANGED <<turnVars, lock, wedged, projVars, work, stopVars>>

ResetWaits(r) ==
    /\ resetPc[r] = "waits"
    /\ \/ lock = None /\ lock' = r /\ resetPc' = [resetPc EXCEPT ![r] = "inside"]
       \/ lock # None /\ lock' = lock /\ resetPc' = [resetPc EXCEPT ![r] = "refused"]
    /\ UNCHANGED <<turnVars, wedged, projVars, work, stopVars>>

ResetLeaves(r) ==
    /\ resetPc[r] = "inside"
    /\ lock' = None
    /\ resetPc' = [resetPc EXCEPT ![r] = "done"]
    /\ UNCHANGED <<turnVars, wedged, projVars, work, stopVars>>

(***************************************************************************)
(* The specification.                                                      *)
(***************************************************************************)

TurnStep(t) ==
    \/ Decide(t) \/ Open(t) \/ Preflight(t)
    \/ AskFresh(t) \/ Publish(t) \/ StartFresh(t) \/ Send(t)
    \/ PollStop(t) \/ PollFinished(t) \/ LastStop(t) \/ LastGoesOn(t)
    \/ UnreadGoesOn(t) \/ CutsOff(t) \/ Resend(t)
    \/ CutInterrupts(t) \/ GivesUp(t) \/ Swap(t) \/ NoIdleReading(t) \/ Close(t)

StopStep(p) == Raise(p) \/ Post(p)

ResetStep(r) == ResetAsks(r) \/ ResetWaits(r) \/ ResetLeaves(r)

Next ==
    \/ \E t \in Turns : \/ Begin(t) \/ DriverFails(t) \/ PollLeaves(t) \/ PhaseAgain(t)
                        \/ Ceiling(t) \/ Cut(t) \/ TurnStep(t)
    \/ \E s \in Sessions : SessionEnds(s)
    \/ \E p \in Stops : Press(p) \/ StopStep(p)
    \/ \E r \in Resets : ResetTries(r) \/ ResetStep(r)

Spec == Init /\ [][Next]_vars

\* Threads that can go on do.  A session may work for ever, nobody has to press
\* Stop, and no limit of a turn is relied on.
Fairness ==
    /\ \A t \in Turns : WF_vars(TurnStep(t))
    /\ \A p \in Stops : WF_vars(StopStep(p))
    /\ \A r \in Resets : WF_vars(ResetStep(r))

FairSpec == Spec /\ Fairness

(***************************************************************************)
(* Properties.                                                             *)
(***************************************************************************)

\* One press of Stop stops at most one turn: whoever consumes the flag clears it,
\* at every exit that consumes it.
OneStopOneTurn ==
    Cardinality({t \in Turns : how[t] = "stopped"})
    <= Cardinality({p \in Stops : stopPc[p] \in {"posts", "done"}})

\* A nudge, a recovery, a broken call or the next phase never prompts a second session
\* while another still works for the same turn.  What does is a phase tried again after a
\* refusal or an outage (PhaseAgain), so two writers have such a turn.
OneWriterPerTurn ==
    \A s1, s2 \in Sessions :
       work[s1] # None /\ work[s1] = work[s2] /\ work[s1] \notin lapsed => s1 = s2

\* "stop OpenCode, THEN release the turn lock": a Build turn that ended itself because it
\* looped or went quiet leaves no session at work for it, but for that of a phase it had
\* tried again before.
GaveUpIsQuiet ==
    \A t \in Coders \ lapsed : how[t] = "gaveUp" => \A s \in Sessions : work[s] # t

\* A Stop that met a decline ends there: "it cannot leave a flag for the next turn".
DeclineLeavesNoFlag ==
    [][\A t \in Declines : pc[t] = "decides" /\ pc'[t] = "over" =>
          ~flag' /\ \A p \in Stops : aimed[p] = t => stopPc[p] # "decided"]_vars

\* `_replace_build_session` publishes a clean session and Stop captures the live
\* one as one decision: a turn that prompts such a session while a Stop is up
\* prompts the session that Stop interrupts.
FreshSessionIsStoppable ==
    [][\A t \in Approvals : pc[t] = "ready" /\ pc'[t] = "poll" /\ flag =>
          \E p \in Stops : captured[p] = session[t]]_vars

\* A Stop that was let through ends its turn, however the session behaves.  Not a
\* phased turn: a phase that gives up clears the flag and is tried again (GivesUp).
StopEndsTheTurn ==
    \A t \in Turns \ Phased : flag /\ lock = t ~> lock # t \/ wedged

\* A Stop is not lost: who puts the flag down is the turn that has the lock, and its
\* verdict comes of it.  A phase that gives up is the exception: the flag it clears was
\* meant for the turn (GivesUp).
StopIsHeard ==
    [][flag /\ ~flag' =>
          \E t \in Turns :
             /\ lock = t /\ how[t] = "none"
             /\ \/ how'[t] \in {"stopped", "gaveUp"}
                \/ t \in Phased /\ pc[t] = "grace" /\ pc'[t] = "opening"]_vars

\* "silently killed the NEXT question": a turn stops only by a press aimed at it.
StopsOnlyTheAimed ==
    [][\A t \in Turns : how[t] # "stopped" /\ how'[t] = "stopped" =>
          \E p \in Stops : aimed[p] = t]_vars

\* A Build turn hands the lock back only when no session works for it.
NoWriterBehindTheLock ==
    [][\A t \in Coders : lock = t /\ lock' # t => \A s \in Sessions : work[s] # t]_vars

\* How far that goes: the writer is behind a turn that was stopped, that failed, that was
\* cut off with no idle reading, or that had tried a phase again beside the first.
OnlyTheBrokenLeaveAWriter ==
    [][\A t \in Coders : lock = t /\ lock' # t /\ (\E s \in Sessions : work[s] = t) =>
          how[t] \in {"stopped", "failed", "cutOff"} \/ t \in lapsed]_vars
=============================================================================
