----------------------------- MODULE BuildGuard -----------------------------
(***************************************************************************)
(* The two allowances of a Build turn, and the threads that spend them:    *)
(* the pre-edit guard (pre_edit_guard.py), which limits what the model may *)
(* do before its first edit and grants one recovery, and the context       *)
(* rollover (context_rollover.py), which replaces a session whose request  *)
(* has grown too large.  The native route (orchestrator/native_routes.py)  *)
(* asks both about every model request, on its own threads and across      *)
(* awaits; the turn (orchestrator/service.py) consumes what they decided;  *)
(* a person presses Stop or writes into the app meanwhile.                 *)
(*                                                                         *)
(* One action is one critical section, or one unlocked access that another *)
(* thread can come before.  The tree is a revision number, because the     *)
(* code only compares its hash with the baseline.                          *)
(***************************************************************************)
EXTENDS Integers, FiniteSets

CONSTANTS
    Requests,       \* model requests the sessions may make
    CallLimit,      \* pre_edit_model_call_limit
    RecoveryLimit,  \* pre_edit_clean_recovery_limit
    RolloverLimit,  \* build_context_automatic_rollover_limit
    MaxTurns,       \* bound on the Build turns of a behaviour
    MaxSessions,    \* bound on the sessions ever created
    MaxEdits,       \* bound on the writes of the agent
    MaxSaves,       \* bound on the writes of the person
    MaxStops        \* bound on the presses of Stop

ASSUME LimitsAssumption ==
    /\ {CallLimit, RecoveryLimit, RolloverLimit} \subseteq Nat
    /\ {MaxTurns, MaxSessions, MaxEdits, MaxSaves, MaxStops} \subseteq Nat

VARIABLES
    guard,          \* PreEditGuard._state; "none" when there is no guard
    baseline,       \* _baseline: a revision, 0 when it could not be read
    recoveries,     \* _recoveries
    calls,          \* _model_calls
    pending,        \* _pending, "none" or the action decided
    keeps,          \* keeps_context of its _trigger
    context,        \* ContextRolloverState._state
    rollovers,      \* _rollovers
    breach,         \* its _pending
    retired,        \* _retired_sessions
    turn,           \* number of the last turn begun
    pc,             \* where its thread is
    task,           \* what it is replacing the session for
    back,           \* where a recovery that was not needed returns to
    treeLock,       \* the turn holds pre_edit_tree_lock
    sid,            \* project.active_session_id, 0 for none
    born,           \* number of sessions created so far
    working,        \* sessions OpenCode is still working in
    stopRequested,  \* project.stop_requested
    presses,        \* presses of Stop so far
    gatewayError,   \* project.last_gateway_error, by its code
    requests,       \* per request: where it is, its session, turn and guard
    tree,           \* revision of the working tree
    edits, saves,   \* writes so far, of the agent and of the person
    \* History, read by the properties only.
    spent,          \* calls let through while this turn's guard was armed
    strayed         \* a session of an earlier turn wrote during this one

guardVars == <<guard, baseline, recoveries, calls, pending, keeps>>
contextVars == <<context, rollovers, breach, retired>>
turnVars == <<turn, pc, task, back, treeLock>>
sessionVars == <<sid, born, working>>
treeVars == <<tree, edits, saves, strayed>>
stopVars == <<stopRequested, presses>>
vars == <<guardVars, contextVars, turnVars, sessionVars, treeVars, stopVars,
          gatewayError, requests, spent>>

Armed == {"initial", "recovery"}
Refusals == {"recover", "stop", "fail"}
Codes == {"none", "no_action", "output_limit", "other"}
Places == {"idle", "arming", "sending", "polling", "consuming", "consumingContext",
           "lastLook", "judging", "after", "quieting", "quiet", "granting",
           "replacing", "creating", "publishing", "activating",
           "ending", "wedged"}
\* While these hold the turn has been told what to do and is doing it.
Replacing == {"replacing", "creating", "publishing", "activating"}
Idle == [at |-> "none", session |-> 0, turn |-> 0, of |-> 0]
RequestStates ==
    [at : {"none", "body", "prepare", "context", "stream"},
     session : 0..MaxSessions, turn : 0..MaxTurns, of : 0..MaxTurns]

TypeOK ==
    /\ guard \in {"none", "disarmed", "starting", "terminal"} \cup Armed
    /\ baseline \in 0..tree /\ recoveries \in 0..RecoveryLimit
    /\ calls \in Nat /\ pending \in {"none"} \cup Refusals /\ keeps \in BOOLEAN
    /\ context \in {"none", "active", "starting", "offered", "terminal"}
    /\ rollovers \in 0..RolloverLimit
    /\ breach \in {"none", "rollover", "offer", "fail"}
    /\ retired \subseteq 1..born /\ working \subseteq 1..born
    /\ turn \in 0..MaxTurns /\ pc \in Places
    /\ task \in {"none", "recovery", "rollover", "offer"}
    /\ back \in {"consumingContext", "after", "ending"} /\ treeLock \in BOOLEAN
    /\ born \in 0..MaxSessions /\ sid \in 0..born
    /\ stopRequested \in BOOLEAN /\ presses \in 0..MaxStops
    /\ gatewayError \in Codes /\ requests \in [Requests -> RequestStates]
    /\ edits \in 0..MaxEdits /\ saves \in 0..MaxSaves /\ tree = 1 + edits + saves
    /\ spent \in Nat /\ strayed \in BOOLEAN

Init ==
    /\ guard = "none" /\ baseline = 0 /\ recoveries = 0 /\ calls = 0
    /\ pending = "none" /\ keeps = FALSE
    /\ context = "none" /\ rollovers = 0 /\ breach = "none" /\ retired = {}
    /\ turn = 0 /\ pc = "idle" /\ task = "none" /\ back = "ending" /\ treeLock = FALSE
    /\ sid = 0 /\ born = 0 /\ working = {}
    /\ stopRequested = FALSE /\ presses = 0 /\ gatewayError = "none"
    /\ requests = [r \in Requests |-> Idle]
    /\ tree = 1 /\ edits = 0 /\ saves = 0
    /\ spent = 0 /\ strayed = FALSE
-----------------------------------------------------------------------------
(***************************************************************************)
(* The guard.  Every operation runs under its own RLock.                   *)
(***************************************************************************)

\* What the witness finds: the tree cannot be read, differs, or is the baseline.
Sees(readable) ==
    CASE ~readable \/ baseline = 0 -> "fail"
      [] tree # baseline -> "disarm"
      [] OTHER -> "same"

\* _limit_decision_locked: one recovery from the first attempt, then a stop.
AtLimit == IF guard = "initial" /\ recoveries < RecoveryLimit THEN "recover" ELSE "stop"

StateFor(decision) ==
    CASE decision = "recover" -> "starting"
      [] decision = "disarm" -> "disarmed"
      [] OTHER -> "terminal"

\* _transition of an armed guard.
Take(decision, kept) ==
    /\ guard' = StateFor(decision)
    /\ keeps' = (decision # "disarm" /\ kept)
    /\ UNCHANGED <<baseline, recoveries>>

\* _pending after it: the first refusal stays, an edit clears it.
Queued(decision) ==
    IF decision = "disarm" THEN "none" ELSE IF pending = "none" THEN decision ELSE pending

\* What a guard that is not armed answers without looking.
Standing ==
    CASE guard = "disarmed" -> "disarm"
      [] guard = "starting" -> "recover"
      [] OTHER -> "stop"

\* _completion_without_edit: what it answers, and what it leaves.
CompletionSays(readable) ==
    IF guard \notin Armed THEN Standing
    ELSE IF Sees(readable) = "same" THEN AtLimit ELSE Sees(readable)

Completion(readable) ==
    /\ IF guard \in Armed
       THEN Take(CompletionSays(readable),
                 FALSE)
       ELSE UNCHANGED <<guard, keeps, baseline, recoveries>>
    /\ UNCHANGED calls

\* claim_existing_terminal, when it answers True.
ClaimTerminal ==
    /\ guard' = IF guard \in Armed THEN "terminal" ELSE guard
    /\ keeps' = (keeps /\ guard \notin Armed)
    /\ UNCHANGED <<baseline, recoveries, calls, pending>>

\* claim_cancellation of the guard: Stop wins over everything still undecided.
Cancellable == guard \in {"starting"} \cup Armed
ClaimCancellation ==
    /\ guard' = IF Cancellable THEN "terminal" ELSE guard
    /\ pending' = IF Cancellable THEN "none" ELSE pending
    /\ keeps' = (keeps /\ ~Cancellable)
    /\ UNCHANGED <<baseline, recoveries, calls>>

\* claim_cancellation of the rollover.
ClaimContext ==
    /\ context' = IF context = "none" THEN "none" ELSE "terminal"
    /\ breach' = "none"
    /\ UNCHANGED <<rollovers, retired>>
-----------------------------------------------------------------------------
(***************************************************************************)
(* The turn.                                                               *)
(***************************************************************************)

\* A turn is admitted and publishes its session for Stop to find.
Begin ==
    /\ pc = "idle" /\ turn < MaxTurns /\ born < MaxSessions
    /\ turn' = turn + 1 /\ pc' = "arming"
    /\ born' = born + 1 /\ sid' = born + 1
    /\ UNCHANGED <<guardVars, contextVars, task, back, treeLock, working, treeVars,
                   stopVars, gatewayError, requests, spent>>

\* A guard over the tree as it is; a build whose earlier Attempt landed starts
\* disarmed.
Arm(readable, earlier) ==
    /\ pc = "arming"
    /\ guard' = IF earlier THEN "disarmed" ELSE "initial"
    /\ baseline' = IF readable THEN tree ELSE 0
    /\ recoveries' = 0 /\ calls' = 0 /\ pending' = "none" /\ keeps' = FALSE
    /\ context' = "active" /\ rollovers' = 0 /\ breach' = "none" /\ retired' = {}
    /\ pc' = "sending" /\ spent' = 0 /\ strayed' = FALSE
    /\ UNCHANGED <<turn, task, back, treeLock, sessionVars, tree, edits, saves,
                   stopVars, gatewayError, requests>>

\* handle_stop: both claims, the flag, and the end of the turn.  What it reverts
\* is read by no guard any more.
HandleStop ==
    /\ ClaimCancellation /\ ClaimContext
    /\ stopRequested' = FALSE /\ pc' = "ending"

SendStops ==
    /\ pc = "sending" /\ stopRequested
    /\ HandleStop
    /\ UNCHANGED <<turn, task, back, treeLock, sessionVars, treeVars, presses,
                   gatewayError, requests, spent>>

Send ==
    /\ pc = "sending" /\ ~stopRequested
    /\ working' = working \cup {sid} /\ gatewayError' = "none" /\ pc' = "polling"
    /\ UNCHANGED <<guardVars, contextVars, turn, task, back, treeLock, sid, born,
                   treeVars, stopVars, requests, spent>>

\* The top of the poll loop: the interrupt is posted, not confirmed.
PollStop ==
    /\ pc = "polling" /\ stopRequested
    /\ HandleStop
    /\ UNCHANGED <<turn, task, back, treeLock, sessionVars, treeVars, presses,
                   gatewayError, requests, spent>>

\* Mutant: only a failed request ends the poll.
PollLeavesOnError ==
    /\ pc = "polling" /\ gatewayError # "none"
    /\ pc' = "consuming"
    /\ UNCHANGED <<guardVars, contextVars, turn, task, back, treeLock, sessionVars,
                   treeVars, stopVars, gatewayError, requests, spent>>

\* The loop is left when a request failed or the session is idle.
PollLeaves ==
    /\ pc = "polling" /\ (gatewayError # "none" \/ sid \notin working)
    /\ pc' = "consuming"
    /\ UNCHANGED <<guardVars, contextVars, turn, task, back, treeLock, sessionVars,
                   treeVars, stopVars, gatewayError, requests, spent>>

\* A brake (repeated calls, shell calls, silence) claims the terminal decision and
\* stops the session; it stands down when the guard has decided already.
Brake ==
    /\ pc = "polling" /\ sid \in working
    /\ IF guard \in {"starting", "terminal"}
       THEN /\ pc' = "consuming"
            /\ UNCHANGED <<guardVars, working, stopRequested>>
       ELSE /\ ClaimTerminal
            /\ \/ /\ pc' = "ending" /\ working' = working \ {sid}
                  /\ stopRequested' = FALSE
               \/ /\ pc' = "wedged" /\ UNCHANGED <<working, stopRequested>>
    /\ UNCHANGED <<contextVars, turn, task, back, treeLock, sid, born, treeVars,
                   presses, gatewayError, requests, spent>>

\* Silence that may be a dead stream: the session is stopped and sent to again.
RetryDead ==
    /\ pc = "polling" /\ sid \in working
    /\ working' = working \ {sid} /\ pc' = "sending"
    /\ UNCHANGED <<guardVars, contextVars, turn, task, back, treeLock, sid, born,
                   treeVars, stopVars, gatewayError, requests, spent>>

\* apply_pre_edit_decision up to its first wait: a stop and a failure end the turn.
Apply(decision, home) ==
    /\ pc' = IF decision = "recover" THEN "quieting" ELSE "ending"
    /\ task' = "recovery" /\ back' = home

\* Mutant: the pending decision is dropped where it should be applied.
ConsumeForgets ==
    /\ pc = "consuming"
    /\ pending' = "none" /\ pc' = "consumingContext"
    /\ UNCHANGED <<guard, baseline, recoveries, calls, keeps, contextVars, turn, task,
                   back, treeLock, sessionVars, treeVars, stopVars, gatewayError,
                   requests, spent>>

ConsumeGuard ==
    /\ pc = "consuming"
    /\ pending' = "none"
    /\ IF pending = "none"
       THEN pc' = "consumingContext" /\ UNCHANGED <<task, back>>
       ELSE Apply(pending, "consumingContext")
    /\ UNCHANGED <<guard, baseline, recoveries, calls, keeps, contextVars, turn,
                   treeLock, sessionVars, treeVars, stopVars, gatewayError,
                   requests, spent>>

\* consume_pending of the rollover and the first lines of apply_context_decision.
ConsumeContext ==
    /\ pc = "consumingContext"
    /\ \/ /\ breach = "none" /\ pc' = "lastLook"
          /\ UNCHANGED <<guardVars, contextVars, task, stopRequested>>
       \/ /\ breach # "none" /\ stopRequested
          /\ HandleStop /\ UNCHANGED task
       \/ /\ breach # "none" /\ ~stopRequested
          /\ breach' = "none"
          /\ pc' = IF breach = "fail" THEN "ending" ELSE "quieting"
          /\ task' = IF breach = "fail" THEN task ELSE breach
          /\ UNCHANGED <<guardVars, context, rollovers, retired, stopRequested>>
    /\ UNCHANGED <<turn, back, treeLock, sessionVars, treeVars, presses,
                   gatewayError, requests, spent>>

LastLook ==
    /\ pc = "lastLook"
    /\ IF stopRequested THEN HandleStop
       ELSE /\ pc' = "judging"
            /\ UNCHANGED <<guardVars, contextVars, stopRequested>>
    /\ UNCHANGED <<turn, task, back, treeLock, sessionVars, treeVars, presses,
                   gatewayError, requests, spent>>

\* The turn asks about a completion and consumes the refusal it is given.
JudgedAs(readable, home) ==
    LET said == CompletionSays(readable) IN
    /\ Completion(readable)
    /\ pending' = IF said = "disarm" /\ guard \notin Armed THEN pending ELSE "none"
    /\ IF said = "disarm" THEN pc' = home /\ UNCHANGED <<task, back>> ELSE Apply(said, home)
    /\ UNCHANGED <<contextVars, turn, treeLock, sessionVars, treeVars, stopVars,
                   gatewayError, requests, spent>>

\* A model that did nothing, or ran into its output limit: after an edit the turn
\* ends on the gateway's error.
JudgeEmpty(readable) ==
    /\ pc = "judging" /\ gatewayError \in {"no_action", "output_limit"}
    /\ JudgedAs(readable, "ending")

\* An answer that left the tree alone: after an edit the turn goes on to its checks.
JudgeDone(readable) ==
    /\ pc = "judging" /\ gatewayError = "none"
    /\ JudgedAs(readable, "after")

\* The gateway failed, a call broke twice, or the turn may end clean: the turn claims
\* the terminal decision, and takes the pending one when it is refused.
GiveUp ==
    /\ pc = "judging" /\ gatewayError \in {"none", "other"}
    /\ \/ /\ guard \notin {"starting", "terminal"}
          /\ ClaimTerminal /\ pc' = "ending"
          /\ UNCHANGED <<contextVars, task, back, stopRequested>>
       \/ /\ guard \in {"starting", "terminal"} /\ pending # "none"
          /\ pending' = "none" /\ Apply(pending, "ending")
          /\ UNCHANGED <<guard, baseline, recoveries, calls, keeps, contextVars,
                         stopRequested>>
       \/ /\ guard \in {"starting", "terminal"} /\ pending = "none"
          /\ IF stopRequested THEN HandleStop
             ELSE pc' = "ending" /\ UNCHANGED <<guardVars, contextVars, stopRequested>>
          /\ UNCHANGED <<task, back>>
    /\ UNCHANGED <<turn, treeLock, sessionVars, treeVars, presses, gatewayError,
                   requests, spent>>

\* A broken call is sent again in a session of its own, once the old one is idle.
RetryBroken ==
    /\ pc = "judging" /\ gatewayError = "none" /\ born < MaxSessions
    /\ \/ /\ working' = working \ {sid}
          /\ born' = born + 1 /\ sid' = born + 1 /\ pc' = "sending"
       \/ /\ sid \in working /\ pc' = "wedged" /\ UNCHANGED sessionVars
    /\ UNCHANGED <<guardVars, contextVars, turn, task, back, treeLock, treeVars,
                   stopVars, gatewayError, requests, spent>>

\* After an edit: the checks send a repair, or the turn ends.
Goes(place) ==
    /\ pc = "after" /\ pc' = place
    /\ UNCHANGED <<guardVars, contextVars, turn, task, back, treeLock, sessionVars,
                   treeVars, stopVars, gatewayError, requests, spent>>

\* _stop_wedged_session: an idle reading, or the turn wedges.
Quieten ==
    /\ pc = "quieting"
    /\ \/ /\ working' = working \ {sid} /\ pc' = "quiet" /\ UNCHANGED guardVars
       \/ /\ sid \in working /\ pc' = "wedged" /\ UNCHANGED working
          /\ IF task = "recovery" THEN ClaimCancellation ELSE UNCHANGED guardVars
    /\ UNCHANGED <<contextVars, turn, task, back, treeLock, sid, born, treeVars,
                   stopVars, gatewayError, requests, spent>>

QuietLook ==
    /\ pc = "quiet"
    /\ IF stopRequested THEN HandleStop
       ELSE /\ pc' = IF task = "offer" THEN "ending" ELSE "granting"
            /\ UNCHANGED <<guardVars, contextVars, stopRequested>>
    /\ UNCHANGED <<turn, task, back, treeLock, sessionVars, treeVars, presses,
                   gatewayError, requests, spent>>

\* Mutant: the recovery is granted on the look that refused the request.
GrantUnseen(readable, broken) ==
    /\ pc = "granting" /\ task = "recovery"
    /\ \/ /\ guard = "starting"
          /\ treeLock' = TRUE
          /\ pc' = IF keeps /\ ~broken THEN "activating" ELSE "replacing"
          /\ UNCHANGED <<guardVars, contextVars, stopRequested>>
       \/ /\ guard = "terminal" /\ HandleStop /\ UNCHANGED treeLock
    /\ UNCHANGED <<turn, task, back, sessionVars, treeVars, presses, gatewayError,
                   requests, spent>>

\* Under pre_edit_tree_lock, begin_recovery looks at the tree once more; a recovery
\* after a budget keeps its session unless a call in it is broken.
Grant(readable, broken) ==
    /\ pc = "granting" /\ task = "recovery"
    /\ \/ /\ guard = "starting" /\ Sees(readable) = "same"
          /\ treeLock' = TRUE
          /\ pc' = IF keeps /\ ~broken THEN "activating" ELSE "replacing"
          /\ UNCHANGED <<guardVars, contextVars, stopRequested>>
       \/ /\ guard = "starting" /\ Sees(readable) # "same"
          /\ Take(Sees(readable), FALSE) /\ pending' = "none"
          /\ pc' = IF Sees(readable) = "disarm" THEN back ELSE "ending"
          /\ UNCHANGED <<calls, contextVars, treeLock, stopRequested>>
       \/ /\ guard = "terminal" /\ HandleStop /\ UNCHANGED treeLock
    /\ UNCHANGED <<turn, task, back, sessionVars, treeVars, presses, gatewayError,
                   requests, spent>>

\* begin_rollover retires the session before its replacement is created.
BeginRollover ==
    /\ pc = "granting" /\ task = "rollover"
    /\ IF context = "starting"
       THEN retired' = retired \cup {sid} /\ treeLock' = TRUE /\ pc' = "replacing"
       ELSE pc' = "ending" /\ UNCHANGED <<retired, treeLock>>
    /\ UNCHANGED <<guardVars, context, rollovers, breach, turn, task, back, sessionVars,
                   treeVars, stopVars, gatewayError, requests, spent>>

\* BuildSessionCreationCancelled: Stop won.
Cancelled == HandleStop /\ treeLock' = FALSE

\* _replace_build_session: a look for Stop, the network, a second look.
AskFresh ==
    /\ pc = "replacing"
    /\ IF stopRequested THEN Cancelled
       ELSE /\ pc' = "creating"
            /\ UNCHANGED <<guardVars, contextVars, treeLock, stopRequested>>
    /\ UNCHANGED <<turn, task, back, sessionVars, treeVars, presses, gatewayError,
                   requests, spent>>

Create ==
    /\ pc = "creating"
    /\ \/ /\ born < MaxSessions /\ born' = born + 1 /\ pc' = "publishing"
          /\ UNCHANGED <<guard, treeLock>>
       \/ /\ pc' = "ending" /\ treeLock' = FALSE /\ UNCHANGED born
          /\ guard' = IF task = "recovery" /\ guard = "starting" THEN "terminal" ELSE guard
    /\ UNCHANGED <<baseline, recoveries, calls, pending, keeps, contextVars, turn,
                   task, back, sid, working, treeVars, stopVars, gatewayError,
                   requests, spent>>

\* Mutant: the new session is recorded but not published.
PublishOnDisk ==
    /\ pc = "publishing"
    /\ IF stopRequested THEN Cancelled
       ELSE /\ pc' = "activating"
            /\ UNCHANGED <<guardVars, contextVars, treeLock, stopRequested>>
    /\ UNCHANGED <<turn, task, back, sessionVars, treeVars, presses, gatewayError,
                   requests, spent>>

Publish ==
    /\ pc = "publishing"
    /\ IF stopRequested THEN Cancelled /\ UNCHANGED sid
       ELSE /\ sid' = born /\ pc' = "activating"
            /\ UNCHANGED <<guardVars, contextVars, treeLock, stopRequested>>
    /\ UNCHANGED <<turn, task, back, born, working, treeVars, presses, gatewayError,
                   requests, spent>>

\* start_recovery or activate_rollover, one decision with Stop under
\* _stop_control_lock.
Granted == IF task = "recovery" THEN guard = "starting" ELSE context = "starting"
StartRecovery ==
    /\ guard' = "recovery" /\ recoveries' = recoveries + 1 /\ calls' = 0
    /\ keeps' = FALSE /\ UNCHANGED <<baseline, pending, contextVars>>
ActivateRollover ==
    /\ context' = "active" /\ rollovers' = rollovers + 1
    /\ UNCHANGED <<guardVars, breach, retired>>
\* Mutant: Stop is not looked at again under its lock.
ActivateBlindly ==
    /\ pc = "activating"
    /\ IF ~Granted THEN Cancelled
       ELSE /\ IF task = "recovery" THEN StartRecovery ELSE ActivateRollover
            /\ pc' = "sending" /\ treeLock' = FALSE /\ UNCHANGED stopRequested
    /\ UNCHANGED <<turn, task, back, sessionVars, treeVars, presses, gatewayError,
                   requests, spent>>

Activate ==
    /\ pc = "activating"
    /\ IF stopRequested \/ ~Granted THEN Cancelled
       ELSE /\ IF task = "recovery" THEN StartRecovery ELSE ActivateRollover
            /\ pc' = "sending" /\ treeLock' = FALSE /\ UNCHANGED stopRequested
    /\ UNCHANGED <<turn, task, back, sessionVars, treeVars, presses, gatewayError,
                   requests, spent>>

\* _clear_turn_baseline, and the lock handed back.
Close ==
    /\ pc = "ending" /\ pc' = "idle"
    /\ guard' = "none" /\ baseline' = 0 /\ recoveries' = 0 /\ calls' = 0
    /\ pending' = "none" /\ keeps' = FALSE
    /\ context' = "none" /\ rollovers' = 0 /\ breach' = "none" /\ retired' = {}
    /\ sid' = 0
    /\ UNCHANGED <<turn, task, back, treeLock, born, working, treeVars, stopVars,
                   gatewayError, requests, spent>>
-----------------------------------------------------------------------------
(***************************************************************************)
(* The native route: one request of a session, on the event loop.          *)
(***************************************************************************)
Others == <<turnVars, sessionVars, treeVars, stopVars>>
At(r) == requests[r].at
Refused(r) == requests' = [requests EXCEPT ![r] = Idle]
Moves(r, place) == requests' = [requests EXCEPT ![r].at = place]

\* It notes whose turn it is, then yields to read its body.
Arrive(r) ==
    /\ At(r) = "none" /\ sid \in working
    /\ requests' = [requests EXCEPT ![r] =
                       [at |-> "body", session |-> sid, turn |-> turn, of |-> 0]]
    /\ UNCHANGED <<guardVars, contextVars, Others, gatewayError, spent>>

\* Only the owner it noted may go on, and no session a rollover has retired.
Owns(r) ==
    /\ requests[r].turn = turn /\ pc # "idle"
    /\ requests[r].session = sid /\ sid \notin retired
ReadBody(r) ==
    /\ At(r) = "body"
    /\ IF Owns(r) THEN Moves(r, "prepare") ELSE Refused(r)
    /\ UNCHANGED <<guardVars, contextVars, Others, gatewayError, spent>>

\* Mutant: the limit is off by one.
OverByOne(measured) == calls > CallLimit \/ measured \in {"large", "heavy"}

\* After the await of its preparation it asks the guard the Project has now:
\* decide_request, or fail_request_measurement for an unmeasured request.
Over(measured) == calls + 1 > CallLimit \/ measured \in {"large", "heavy"}

\* The call limit comes before the size of the request, that before its results'.
WithinSession(measured) == calls + 1 > CallLimit \/ measured = "heavy"

\* What an armed guard says; "route" lets the request through.
Verdict(measured, readable) ==
    CASE Sees(readable) # "same" -> Sees(readable)
      [] measured = "unmeasured" -> "fail"
      [] Over(measured) -> AtLimit
      [] OTHER -> "route"

AskGuardArmed(r, measured, readable) ==
    LET said == Verdict(measured, readable) IN
    /\ guard \in Armed
    /\ IF said = "route"
       THEN keeps' = FALSE /\ UNCHANGED <<guard, pending, baseline, recoveries>>
       ELSE /\ Take(said, Sees(readable) = "same" /\ Over(measured) /\ WithinSession(measured))
            /\ pending' = Queued(said)
    /\ IF said \in Refusals THEN Refused(r) /\ UNCHANGED <<calls, spent>>
       ELSE /\ requests' = [requests EXCEPT ![r].at = "context",
                               ![r].of = IF said = "route" THEN turn ELSE 0]
            /\ calls' = IF said = "disarm" /\ measured = "unmeasured" THEN calls ELSE calls + 1
            /\ spent' = IF said = "route" THEN spent + 1 ELSE spent

AskGuardStanding(r) ==
    /\ guard \notin Armed
    /\ IF guard \in {"starting", "terminal"} THEN Refused(r) ELSE Moves(r, "context")
    /\ UNCHANGED <<guardVars, spent>>

AskGuard(r) ==
    /\ At(r) = "prepare" /\ ~treeLock
    /\ \/ AskGuardStanding(r)
       \/ \E measured \in {"fits", "large", "heavy", "unmeasured"},
             readable \in BOOLEAN : AskGuardArmed(r, measured, readable)
    /\ UNCHANGED <<contextVars, Others, gatewayError>>

\* decide: the whole request against the limit of the session.
Breaks(size) ==
    CASE size = "unmeasured" -> "fail"
      [] rollovers < RolloverLimit -> "rollover"
      [] OTHER -> "offer"
ContextFor(decision) ==
    CASE decision = "fail" -> "terminal"
      [] decision = "rollover" -> "starting"
      [] OTHER -> "offered"

AskContext(r, size) ==
    /\ At(r) = "context"
    /\ IF context = "none" \/ (context = "active" /\ size = "fits")
       THEN Moves(r, "stream") /\ UNCHANGED <<context, breach, gatewayError>>
       ELSE /\ Refused(r) /\ gatewayError' = "other"
            /\ IF context = "active"
               THEN /\ context' = ContextFor(Breaks(size))
                    /\ breach' = IF breach = "none" THEN Breaks(size) ELSE breach
               ELSE UNCHANGED <<context, breach>>
    /\ UNCHANGED <<guardVars, rollovers, retired, Others, spent>>

\* The stream ends, and leaves its error where the poll loop looks.
StreamEnds(r, code) ==
    /\ At(r) = "stream" /\ Refused(r)
    /\ gatewayError' = IF code = "none" THEN gatewayError ELSE code
    /\ UNCHANGED <<guardVars, contextVars, Others, spent>>

\* The answer repeats a call the model has already made: the pump asks the guard the
\* request was routed by.
Repeats(r, readable) ==
    /\ At(r) = "stream" /\ ~treeLock /\ requests[r].of = turn /\ guard # "none"
    /\ Completion(readable)
    /\ pending' = IF guard \in Armed THEN Queued(CompletionSays(readable)) ELSE pending
    /\ IF CompletionSays(readable) \in Refusals THEN Refused(r) /\ gatewayError' = "other"
       ELSE requests' = [requests EXCEPT ![r].of = 0] /\ UNCHANGED gatewayError
    /\ UNCHANGED <<contextVars, Others, spent>>
-----------------------------------------------------------------------------
(***************************************************************************)
(* The sessions, the person.                                               *)
(***************************************************************************)

\* A session writes, once the model has answered it.
Edit(s) ==
    /\ s \in working /\ edits < MaxEdits
    /\ s = sid => (spent > 0 \/ guard = "disarmed")
    /\ tree' = tree + 1 /\ edits' = edits + 1
    /\ strayed' = (strayed \/ s # sid)
    /\ UNCHANGED <<guardVars, contextVars, turnVars, sessionVars, saves, stopVars,
                   gatewayError, requests, spent>>

\* A session ends when its requests are answered, or when it was interrupted.
SessionEnds(s) ==
    /\ s \in working
    /\ \/ s # sid \/ stopRequested
       \/ \A r \in Requests : At(r) # "none" => requests[r].session # s
    /\ working' = working \ {s}
    /\ UNCHANGED <<guardVars, contextVars, turnVars, sid, born, treeVars, stopVars,
                   gatewayError, requests, spent>>

\* A person's write, coordinated under pre_edit_tree_lock: the baseline moves over it.
Save(readable) ==
    /\ ~treeLock /\ saves < MaxSaves
    /\ tree' = tree + 1 /\ saves' = saves + 1
    /\ baseline' = IF readable /\ Cancellable THEN tree + 1 ELSE baseline
    /\ UNCHANGED <<guard, recoveries, calls, pending, keeps, contextVars, turnVars,
                   sessionVars, edits, strayed, stopVars, gatewayError,
                   requests, spent>>

\* stop_build: the flag and the claim on the guard are one decision.
Press ==
    /\ pc # "idle" /\ presses < MaxStops
    /\ stopRequested' = TRUE /\ presses' = presses + 1
    /\ ClaimCancellation
    /\ UNCHANGED <<contextVars, turnVars, sessionVars, treeVars, gatewayError,
                   requests, spent>>
-----------------------------------------------------------------------------
TurnStep ==
    \/ SendStops \/ Send \/ PollStop \/ PollLeaves
    \/ ConsumeGuard \/ ConsumeContext \/ LastLook \/ GiveUp \/ RetryBroken
    \/ Goes("sending") \/ Goes("ending")
    \/ Quieten \/ QuietLook \/ BeginRollover
    \/ AskFresh \/ Create \/ Publish \/ Activate \/ Close
    \/ \E readable, other \in BOOLEAN :
          Arm(readable, other) \/ JudgeEmpty(readable) \/ JudgeDone(readable)
          \/ Grant(readable, other)

RequestStep(r) ==
    \/ Arrive(r) \/ ReadBody(r) \/ AskGuard(r)
    \/ \E size \in {"fits", "large", "unmeasured"} : AskContext(r, size)
    \/ \E code \in Codes : StreamEnds(r, code)
    \/ \E readable \in BOOLEAN : Repeats(r, readable)

Outside ==
    \/ \E s \in working : Edit(s) \/ SessionEnds(s)
    \/ \E readable \in BOOLEAN : Save(readable)
    \/ Press

Next ==
    \/ Begin \/ TurnStep \/ Brake \/ RetryDead \/ Outside
    \/ \E r \in Requests : RequestStep(r)

Spec == Init /\ [][Next]_vars

\* The thread of a turn goes on; a request that has arrived is answered; a session
\* that may end while its guard refuses every request ends.
FairSpec ==
    /\ Spec /\ WF_vars(TurnStep)
    /\ \A r \in Requests : WF_vars(At(r) # "none" /\ RequestStep(r))
    /\ SF_vars(guard = "starting" /\ sid \in working /\ SessionEnds(sid))
-----------------------------------------------------------------------------
(***************************************************************************)
(* Properties.                                                             *)
(***************************************************************************)

\* Across a whole turn no more calls pass an armed guard than its limit, once for the
\* first attempt and once for each recovery, whatever its requests, brakes, retries
\* and the person's writes do in between (decide_request, start_recovery).
BudgetKept == guard # "none" => spent <= CallLimit * (recoveries + 1)

\* No decision of the guard is lost or made up: a pending one belongs to the state that
\* was taken with it, and while the turn may still wait or judge, a guard that has
\* decided still has that decision pending, or a Stop is about to be honoured.  Without
\* it a request would be refused for ever, or the turn would end without a word.
Listening == {"sending", "polling", "consuming", "consumingContext", "lastLook",
              "judging", "after"}
DecisionHeard ==
    /\ pending = "recover" => guard = "starting"
    /\ pending \in {"stop", "fail"} => guard = "terminal"
    /\ pc \in Listening /\ pending = "none" /\ guard \in {"starting", "terminal"} =>
          stopRequested

\* Outside the replacement itself the turn never works in a session it has retired,
\* whose every request the native route would refuse (begin_rollover, rejects_session).
ActiveIsNotRetired == sid \in retired => pc \in Replacing \cup {"ending"}

\* Once Stop is pressed neither allowance is spent, however far the replacement of the
\* session has come: publication and activation are one decision with Stop.
NoRestartAfterStop ==
    [][stopRequested => recoveries' <= recoveries /\ rollovers' <= rollovers]_vars

\* A recovery starts over a tree equal to its baseline, so that a write of this turn's
\* session between the refusal and the restart is never built over, unless a session
\* of an earlier turn is still writing.
NoRetryOverAnEdit == [][recoveries' > recoveries /\ ~strayed => tree = baseline]_vars

\* A recovery that was granted is started, given up, or the workspace is wedged.
RecoveryResolved == guard = "starting" ~> guard # "starting" \/ pc = "wedged"

\* A late request must not advance a guard under the new turn.  The code checks the owner
\* before it prepares the request, and reads the guard after.
LateRequestRefused ==
    [][\A r \in Requests :
          requests[r].of = 0 /\ requests'[r].of # 0 => requests[r].turn = turn]_vars
=============================================================================
