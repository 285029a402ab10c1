# Formal models of Sage (domino-sage)

TLA+ specifications of the orchestrator in `src/backend/sage/`, the TLC
configurations that model-check them on small instances, and TLAPS proofs of what
they promise for every instance. Every definition follows the code; paths below are
relative to `src/backend/sage/` and line numbers refer to `orchestrator/service.py`
unless another file is named.

## 1. The system

Sage is one process per Project. A browser talks to a FastAPI app (`orchestrator/app.py`),
which calls one `Orchestrator` object (`orchestrator/service.py`, 28,000 lines) from many
threads: a thread per streaming response, request threads for the buttons, timers, and
waiters. The orchestrator drives an OpenCode agent, whose model calls come back to the
same process through a shim and a native-route harness, and supervises a preview server.

One Project has **one working tree**, so almost everything is organised around one plain
`threading.Lock`, the *turn lock*.

| component | state | operations | hard behaviour |
|---|---|---|---|
| turn admission: `_TurnQueue` 828-1039, `prepare_stream_turn` 8203, `_acquire_turn` 21073 | `_waiting`, `_running`, `_running_generation`, tickets, the lock, `_turn_wedged` | admit, wait, claim, cancel, stop_exact, abandon, fail_pending, name_holder, release | many threads; the lock is not under `_cond`; a response may die before or after its generator starts; snapshots taken when queued |
| streaming turns: `chat_stream` 12392, `build_stream` 10957, `approve_stream` 25420, `continue_*` 11450-11656 | ticket, baselines, `stop_requested` | start, poll, end, aftercare | unwinding of every exit; a Chat turn lets the lock go before its aftercare |
| Stop and the wedge: `stop_build` 27643, `_stop_wedged_session` 21197, `_mark_turn_wedged` 21298 | `stop_requested`, `stop_interrupt_error`, `_turn_wedged` | set from the route, read and cleared by the turn | a flag shared by successive turns; an interrupt sent outside the lock |
| Chat save: 12543-12785 | `_chat_dirty`, one timer slot, `_chat_savers` | mark, arm, flush, save | coalescing timer, a save whose dirty mark may be raised while it commits |
| doors: 25 callers of the raw lock | none of their own | acquire without queueing, release | refusals at once, waits against a save or a Stop |
| pre-edit guard (`pre_edit_guard.py`), context rollover (`context_rollover.py`), asked by `native_routes.py` | state, budget, pending decision; retired sessions | decide, consume, grant, start, claim | Stop, brakes, the turn and late model requests contend for one decision |
| continuation (`ContextContinuationRegistry`, `app.py` 3952-3980) | one slot, its claim | offer, claim, release, invalidate | a click waits in the line with a copy while Builds and edits go by |
| model routing (`router/model_control.py`) | eleven tokens, the pinned mode, the picks | arm, disarm, snapshot, set_mode, pick | a shared record judged anew by every model call; turns overlap outside the lock |
| preview supervisor (`preview/supervisor.py`) | process, generation, upstream, state | start, retry, stop, idle_stop, crash restart, probe | launches and probes outside the lock; late threads |
| provisioning and the door (`provision/`) | repositories, Projects, workspaces | ensure_default, create_app, open_app, status, rollback | four services, no lock, calls refused or unanswered |
| feedback loop, build policy, tool-repeat brake | counters on the turn's thread | record, decide | boundaries of limits |
| shim, OpenCode driver, gateway client | open calls | open, chunk, cancel | late answers under the next turn |
| threads, bindings, workspace, git, resources, extensions, secrets, live read | files | read-modify-write | concurrent writers, waiters that die |

Interaction: the routes call `prepare_stream_turn` before the response headers, the
response body iterates the generator on its own thread (`app.py` `_turn_sse`), the
generator claims its ticket in `_acquire_turn`; Stop, Cancel and the abandoned-response
callback act on the ticket from other threads; doors, timers and waiters contend for the
raw lock.

What makes it correct: one actor in the working tree; every waiting turn is served in the
order asked, or is told why not; a lock is always handed back, except by a session that
would not stop; a Stop reaches the turn it was aimed at and no other; what the user typed
in Chat is eventually committed; a turn spends its allowances once and never after a Stop; what a
turn armed is in force while it works and gone when it is over; a stopped preview stays stopped
and only the proven page is served; a repository is somebody's.

## 2. Modules

| module | models | by |
|---|---|---|
| `TurnQueue` | turn admission, with threads, tickets, doors and compaction | one action per critical section |
| `TurnAdmission` | what the queue promises: one owner, one line | abstract specification |
| `StopControl` | Stop: the decision, the shared flag, the captured session, the poll loops, the swap to a clean session, resets | one action per critical section or unlocked access |
| `ChatSave` | the coalesced commit and push of Chat files, and the doors that wait for it | every read and write of an unprotected field its own action |
| `BuildGuard` | the pre-edit guard and the context rollover with the turn, the native requests, Stop and the person's writes | one action per critical section or unlocked access |
| `Continuation` | the continuation a person clicks, newer Builds and edits of the plan | one action per critical section |
| `ModelPolicy` | what turns arm for their model calls, compaction, escalation and the picker | one action per arm or disarm |
| `Preview` | one app's preview server, its retry thread, readers, readiness checks and callers | one action per section under the state lock |
| `WorkbenchDoor` | visits to the Workbench door and the poll of its page | one action per call to GitHub or Domino |
| `...Proofs` | theorems about each of these but `TurnAdmission` | TLAPS |
| `MC...` | finite instances of each | TLC |

The models share the turn lock and cut it differently. `TurnQueue` has the line of waiting turns and
treats what a turn does inside the tree as one stay; `ChatSave`, `StopControl`, `Continuation` and
`ModelPolicy` open that stay up and take the lock when it is free, and `BuildGuard` has one turn after
another. What a turn is promised while it waits is thus proved once and used as the assumption "a turn
takes a free lock" by the others. `Preview` and `WorkbenchDoor` do not meet the turn lock.

Every module has a type invariant `TypeOK`, which its proof module proves for every instance; the runs
spend their properties on the rest.

### TurnQueue

Constants: the streaming turns `Turns` (the `Chats` among them are Chat turns), the `Doors`,
`Drops` (at which rows a caller may drop the generator), and the bound `MaxEdits`.

State and code: `lock` is `_turn_lock` with its holder made visible; `waiting`, `running`,
`generation`, `lastSequence` are the fields of `_TurnQueue`; `sequence`, `outcome`, `queued`,
`claimed`, `granted`, `snapshot` are the fields of `_TurnTicket`; `wedged` is `_turn_wedged`;
`pc` says where each thread is between two critical sections. A block under `_cond` is one
action. Three things are deliberately *not* one action, because the code does not make them
one:

* `_turn_wedged` is read (`Ask`) before the ticket is admitted (`Admit`);
* a release gives the raw lock up before it promotes the head, and a door blocked in
  `acquire(timeout=...)` can win in between (`HandBack`);
* the `finally` of `_acquire_turn` asks whether the ticket is running (`Cleanup`) and cancels
  it in another critical section (`Withdraw`).

The context of a turn (chips and selected app) is a counter bumped by `EditContext`: the code
compares two snapshots for equality, so a counter is enough. A door is `entered`, may name its
lock (`DoorNames`) and leaves through `_release_turn` or by a raw release. The compaction after
a Chat turn uses a door of its own, because it has a ticket of its own.

Runs (`MCTurnQueue`):

| run | instance | shows |
|---|---|---|
| `queue_line` | 3 turns (1 Chat, 2 Build), 1 door, drops at both rows | the order of service, nobody missing, the wedge keeps the lock |
| `queue_fair` | 1 Chat, 1 Build, 2 doors, 1 edit, drops at `running`, fairness | one actor in the tree, a live holder; every wait ends; refinement of `TurnAdmission` |

`QueueWedgeRace.cfg` and `QueueHangUpRace.cfg` show disagreements 1 and 2 of section 3.

Bounds. Order and overtaking need a holder and two waiting tickets: three turns. The races with
a raw door need one door in the tree and one arriving: two doors. One edit is enough for a
snapshot to differ. Sequence numbers and generations are bounded by the number of turns and
doors because each is used once. Deadlock is not checked because every turn and door is used
once and the system then stops.

Fairness. A thread that can go on does (`WF` of the step of each turn and of each door): the code
runs each turn on a thread of its own, and waiting is a poll with a timeout. Nothing obliges a
person to press Stop, a caller to drop a stream or a session to wedge. A wedge is a permitted
end: `EveryWaitEnds` says "or the workspace is wedged".

### Proofs about TurnQueue

`TurnQueueProofs` proves, for any sets of turns and doors, `TypeOK`, `OneInTree`,
`RunningIsLive` (when no caller drops a generator at its `pending` row), `NobodyMissing`,
`CancelledNeverRuns`, `HolderIsFree`, `InOrder`, and the action properties `WedgeKeepsLock` and
`ServedInOrder`, and that the queue implements `TurnAdmission`, its fairness aside
(`QueueImplementsAdmission`). They rest on the assumptions `ActorsAssumption` (turns and doors are disjoint,
`Free` is neither) only.

None of these is inductive. The strengthening `IInv` is a conjunction: `LineInv` (a waiting
ticket has no verdict and a thread in its place), `LockInv` (lock, named holder and thread agree),
`TicketInv` (what a ticket says by where its thread is), `WedgeInv` (a wedge keeps the lock with a
claimed Build turn), `OrderInv` (the numbers grow along the deque) and `FreshInv` (a turn not yet
admitted has no number). The types are proved step by
step (`TypeStep`); then every action that moves only a thread goes through `TurnMoves`, every release
through `HandBackKeeps`, and every ticket that leaves the deque from the middle through
`LeavesTheLine`. Lemmas about `Append`, `Tail` and `RemoveFirst` come first. `OrderStep` shows at
once that the order is kept and that whoever is given the turn was first.

The refinement maps the deque to `line`, the lock to `owner` and the turns without a number to
`fresh`. `AdmissionStep` has one step per action: an admission is a `Join` (`AdmitJoins`), a ticket that
leaves the middle a `Quit` (`LeavingQuits`, `SameRemoval`), a release with the promotion after it one
`Release` that settles on the head or on a door (`HandBackMoves`, `PromoteSettles`,
`HandBackReleases`), and everything a thread does in between changes nothing there. `OrderInv` makes an
`Append` of the newcomer the end of the line, `LockInv` makes the one who releases the owner.

Only model-checked: `EveryWaitEnds` and the fairness half of the refinement.

### ChatSave

Constants: the Chat turns `Talks`, the `Builds`, the `Deeds` (delete a Conversation, change the
rail), the `Opens` (open another Conversation, or leave Chat), the `Doors` of the handoff, the
`Timers`, and the bound `MaxFailures` on what git may refuse.

| state | code |
|---|---|
| `slot`, `held` | `_chat_save_timer`; the local of `_cancel_chat_idle_save` (12547) |
| `dirty`, `named` | `_chat_dirty`; `_chat_dirty_thread` is not None |
| `savers`, `saving` | `_chat_savers`, `_chat_saving` (12695-12715) |
| `told`, `result` | `_chat_save_failed`; the outcome of `_save_to_git` |
| `lock`, `wedged` | `_turn_lock` with its holder, `_turn_wedged` |
| `unsaved`, `unsent` | edits on disk, and commits the remote does not have, named by the request that made them |

Only the counter of savers has a lock in the code. Every other field is read and written by any
thread at any time, so each access is an action: `ReadSlot` and `CancelHeld` are two, `Commit`,
`Send`, `Settle`, `Unname` and `Tell` are five. `BuildEnds` is one action because all of it happens
under the turn lock and touches nothing but git. A new `threading.Timer` is an `Unused` member of
`Timers`: a spent one that no field points to.

| run | instance | shows |
|---|---|---|
| `save_slot` | 1 Chat turn, 1 navigation, 1 door, 3 timers, 1 failure | the mark is never stranded, the savers are counted exactly, no half turn is committed |
| `save_fair` | 1 Build turn, 1 deed, 3 timers, 2 failures, fairness | a refused push stays told; dirty files are committed, or the workspace wedges |

`SaveLostDeed.cfg` and `SaveCleanDoor.cfg` show disagreements 3 and 4.

Bounds. Two timers can be alive at once when two threads arm together, and a third is needed for
the next arming: with two the pool is exhausted and `Launch` blocks, which the code never does. One
failure is enough to reach every branch of `_save_to_git` and the retry after it; the second lets the
retry be refused as well.

Fairness. Threads that can go on do, and an armed timer fires. Nobody is obliged to start a request.

Proofs (`ChatSaveProofs`, for any sets of requests and timers): `TypeOK`, `DirtyIsPending`,
`SaversCounted`, `NoHalfTurnCommitted`, `ToldUntilSent`, `DoorWaitsOutASave`. The assumptions are
`KindsAssumption` (kinds are disjoint) and `BoundsAssumption` (finitely many actors, needed to count
savers). The inductive invariant is `TypeOK`, `PlaceInv` (which kind of actor can be where, and what
it goes back to), `LockInv` (the holder of the lock is at a place that holds it), `WorkInv` (a save
that landed has nothing left to send), `SaversCounted` and `DirtyIsPending`. `DirtyIsPending` needs
`PlaceInv`: whoever cancels a timer is itself on the way to a new one or to the look at the mark.
`SaversCounted` needs cardinalities: one lemma says what moving one actor in or out does to the
count. Only model-checked: `DirtyIsSaved`.

### StopControl

Five kinds of turns that differ in how they meet a Stop: `Chats`, `Declines` ("stay in Chat", which
lets the lock go inside `_stop_control_lock`), `Builds`, `Approvals` (a clean session through
`_replace_build_session`) and `Phased` (one clean session per phase, each phase may be tried again).
`Stops` are presses of the button, `Resets` the doors of `_acquire_for_reset`. `flag` is
`stop_requested`, `active` is `active_session_id`, `preflight` is `fresh_session_preflight`, `kept`
is the Build session of the Conversation, `work` says for which turn each session is working.

A press is three actions, as in `stop_build`: the decision (`Press`) and the flag with the captured
session (`Raise`) are under `_stop_control_lock`, the interrupt (`Post`) is not. The turn lock is not
under `_stop_control_lock`, so a turn may end between the first two. An interrupt may be obeyed at
once, later (`SessionEnds`) or never. `MaxSends` bounds how often a turn prompts.

Modelled as the code has it: the broken-call path (`Resend`, 24540-24585) confirms its session idle a
second time and opens the clean one without `_stop_control_lock` and without a second look at the flag, so
`FreshSessionIsStoppable` is stated of `_replace_build_session`, which has both.

A Build leaves its poll in two ways. `PollFinished` has read the session idle. `PollLeaves` has not: the
gateway refused a call (23975), the guard has its own end in store (23995, 24204), or the prompt was never
seen to start (24158). From there (`unread`) the turn prompts the same session again or recovers
(`UnreadGoesOn`), stops by the flag (`LastStop`), or is `cutOff` (`CutsOff`: 24324-24330, 24357-24378,
24406-24423, 24456-24529), which hands the lock back without an idle reading. A phase that ended so, or whose
polls kept failing, is tried again in a session of its own (`PhaseAgain`, 26366-26378); the history variable
`lapsed` remembers such turns.

| run | instance | shows |
|---|---|---|
| `stop_turns` | 1 Chat, 1 Build, 1 phased turn, 1 press, 2 prompts each | one press stops one turn; a turn never has two writers, a phase tried again beside an unread session apart; a Build turn that ended itself because it looped or went quiet leaves none |
| `stop_fresh` | 1 decline, 1 approval, 1 reset, 1 press, fairness | Stop captures the session that is prompted, and a Stop ends its turn |

`StopNextTurn.cfg` and `StopEarlyRelease.cfg` show disagreements 5 and 6.

Bounds. Two prompts are the least that give a turn a second session or a second phase. Three turns of
different kinds let one press's flag travel. One press beside a decline and an approval is enough for the
flag to be raised at every place of the clean session; with two the run outgrows its time, and that two
presses stop two turns at most is proved.
Fairness: the steps of turns, presses and resets; not the sessions, which may work for ever, and not
the limits a turn has (`Ceiling`, `Cut`) nor its failures (`DriverFails`), so `StopEndsTheTurn` relies
on no timeout.

Proofs (`StopControlProofs`, for any number of turns, presses, resets and prompts): `TypeOK`,
`OneWriterPerTurn`, `GaveUpIsQuiet`, `DeclineLeavesNoFlag`, `FreshSessionIsStoppable`, `OneStopOneTurn`,
`StopIsHeard` and `OnlyTheBrokenLeaveAWriter`. The assumptions
are `KindsAssumption`, `BoundAssumption` and `SessionsAssumption` ("no session" is not a session). The
inductive invariant is `TypeOK`, `LockInv` (an open turn, or a reset inside, has the turn lock), `WorkInv`
(a session works only for the turn that now prompts it, and not where that turn has read it idle),
`EndInv` (a verdict is given on the way out), `StopInv` (a press between `Press` and `Raise` has
`_stop_control_lock`), `LiveInv` (an approved plan's published session is the live one), `AimInv` (a
flag raised over it named it) and `GaveUpIsQuiet`. `OneWriterPerTurn` is not inductive: a turn at two
sessions is excluded by `WorkInv`, which ties work to the place of its turn. `LiveInv` needs `LockInv`,
which keeps another turn from publishing over it. `DeclineLeavesNoFlag` follows from `StopInv` and a
lemma that only `Decide` ends a decline.

`OneStopOneTurn` counts turns against presses. Its strengthening `CreditInv` counts the flag in: stopped
turns and a raised flag together are never more than the presses that raised one. A step moves at most one
of the three (`CreditMove`), and a verdict "stopped" always spends the flag (`EndingSpends`), which is why a
press that finds the flag up already is lost and not kept. `StopIsHeard` is the safety half of
`StopEndsTheTurn`: the flag goes down only with a verdict of the turn that has the lock, or when a phase is
tried again (disagreement 9). `OnlyTheBrokenLeaveAWriter` says how far disagreements 6 and 19 reach: a writer is
left behind only by a Build turn that was stopped, failed or was cut off, or that had tried a phase again. One
that answered, or that ended itself because it looped or went quiet, leaves none (`AnsweredIsQuiet` beside
`GaveUpIsQuiet`). `WorkInv` and both of these are about the turns outside `lapsed`, which only grows
(`LapsedGrows`).

Only model-checked: `StopEndsTheTurn`.


### BuildGuard

Constants: the model requests `Requests`, the three limits the code reads from its settings
(`CallLimit`, `RecoveryLimit`, `RolloverLimit`), and bounds on turns, sessions, writes of the agent
and of the person, and presses of Stop.

| state | code |
|---|---|
| `guard`, `baseline`, `recoveries`, `calls`, `pending`, `keeps` | `PreEditGuard` of `pre_edit_guard.py`; `"none"` when the Project has none |
| `context`, `rollovers`, `breach`, `retired` | `ContextRolloverState` of `context_rollover.py` |
| `pc`, `task`, `back`, `treeLock` | where the Build loop of `_build_stream` is, what it replaces the session for, and `pre_edit_tree_lock` |
| `sid`, `born`, `working` | `active_session_id`, sessions created, sessions OpenCode works in |
| `stopRequested`, `gatewayError` | `stop_requested`, `last_gateway_error` by its code |
| `requests` | each native request: waiting for its body, prepared, asked of the rollover, streaming; whose turn it noted and which guard routed it |
| `tree` | the working tree as a revision: the code only compares a hash with the baseline |

Who contends: the turn (`Consume...`, `Judge...`, `Brake`, `Grant`, `Publish`, `Activate`), native
requests on the event loop (`Arrive`, `ReadBody`, `AskGuard`, `AskContext`, `StreamEnds`), sessions
that write or end, a person who saves or presses Stop. Each takes the lock of the guard, of the
rollover or `_stop_control_lock` for one section, and everything between two sections is another
action. The replacement of a session is seven: quiet the old one, grant under the tree lock, retire,
create over the network, publish, activate.

| run | instance | shows |
|---|---|---|
| `guard_turn` | 1 request, limits of 1, 1 turn, 3 sessions, 1 write each, 1 press, fairness | the allowances are spent once, never after a Stop and never over an edit; a decision is never lost; a granted recovery is resolved |

`GuardLate.cfg` shows disagreement 12.

Bounds. A request may be made again after it ended, so one request gives calls one after another; a
limit of 1 reaches the limit, the recovery after it and the stop after that. Three sessions allow one
recovery and one rollover. One write of the agent and one of the person is enough to make a tree that
differs from its baseline and a baseline that is moved.

Fairness (`FairSpec`): the turn's thread goes on (`WF`); a request that arrived is served (`WF`); a
session that may end while its guard refuses every request ends (`SF`, because the session alternates
between asking and being refused). The last is about OpenCode: a refused request ends the session's work.

Proofs (`BuildGuardProofs`, from `LimitsAssumption` only): `TypeOK`, `BudgetKept`, `DecisionHeard`,
`ActiveIsNotRetired`, `NoRestartAfterStop`, `NoRetryOverAnEdit`. The inductive invariant adds
`LimitInv` (an allowance is decided on only where one is left), `SessionInv` (a turn has a session),
`BudgetInv` (what this attempt may still spend is what its counter leaves), `ChosenInv` (a recovery being
carried out was consumed, and no decision was dropped for it), `FreshInv` (the session that replaces
another is new), `QuietInv` (a session is replaced only once it is idle) and `StillInv` (while it is, no
session of this turn writes). `NoRetryOverAnEdit` is `StillInv` at the moment of activation: the look
at the tree in `Grant` stays true only because the session was quiet before it and the person's writes
wait for the tree lock. Only model-checked: `RecoveryResolved`.

### Continuation

Constants: `Clicks`, each one request to continue, and bounds on offers, ordinary Builds and edits of
the plan. `slot` is the registry's `_record` and `_claim_token`; `offered` says what each id resumes
(a free Build, an approved Build of one piece, a phase) and of which version of the plan; `plan` is the
approved plan document; `clicks` says where each request is. The registry's operations are operators
(`Offer`, `InvalidateAvailable`, `InvalidatePlan`, `ReleaseRefused`, `InvalidateClaimed`), the handlers
that call them are actions. A click claims *before* it queues (`Claim`, `Queue`, `TakeLock`), so Builds
and plan edits come in between; `OtherApp` and `Abandon` are the exits that keep the claim.

| run | instance | shows |
|---|---|---|
| `continue` | 3 clicks, 3 offers, 3 Builds, 3 edits, symmetric clicks | a continuation runs once, its claim is ended by its owner, a phase runs on the plan it was offered for |

`ContinuePlan.cfg` shows disagreement 14. Bounds: a claim that is handed back and taken again while a
newer offer replaces it needs three clicks and three offers; three edits let a plan be written, changed and
replaced. No fairness: nothing here waits but for the turn lock, of which `TurnQueue` speaks.

Proofs (`ContinuationProofs`, from `ContinuationAssumption`): `TypeOK`, `RunsOnce`, `PhaseOnItsPlan`,
`OwnerEnds`, and `PhasesConsumeTheirPlan`, the part of disagreement 14 that the code keeps: a phased run
that finishes archives its plan. `RunsOnce` needs `ClaimInv` (what a click waits for has not run, is not on offer, and is
waited for by nobody else) and `NumberInv` (ids grow); `PhaseOnItsPlan` needs `LockInv` (a click that
runs has the lock) and `CountInv`.

### ModelPolicy

Constants: `Chats`, `Builds`, `Plans` (presses of the button that drafts a plan), the sets of
guarantees a turn may want (`Choices`), the picker's `Modes` and `Picks`, the `Strong` model and the
bound `MaxClicks`.

`token` has, for each of the eleven guarantees of `router/model_control.py`, the turn whose token is
live; `turnMode`, `mode`, `pick` are `_turn_mode`, `_mode`, `_picked_model`; `generation` is the number
`_acquire_turn` gives; `armed` is what a turn holds tokens for, `noted` its locals. Every arm and every
disarm is an action, in the order the code has them (`ChatArms`, `ChatDisarms`, `BuildArms`,
`BuildDisarms`), because a Chat turn gives the turn lock back before it disarms. `Gate` reads the
sensitivity declaration before the agent is prompted. `Raises` is an exception the handlers do not name.

| run | instance | shows |
|---|---|---|
| `policy_turns` | 2 Chats, 1 Build, 1 plan, guarantees {} or {readOnly, sensitivity}, modes auto and implement, 1 click | at least what a turn armed is in force while it works, and it is taken back when it is over; a compaction runs as its Conversation; the picker does not reach a running turn |
| `policy_leak` | 1 Chat, 1 Build | disagreement 10 |

`PolicyPick.cfg` shows disagreement 11. Bounds: a late disarm needs a Chat in its aftercare and a turn
that armed after it; a third tells a token that is stale from one that is its own. One click is enough to
differ from what was pinned.

Proofs (`ModelPolicyProofs`, from `PolicyAssumption`): `TypeOK` and all five properties of the run. The
inductive invariant adds `LockInv` (between its first arming and its end a turn has the lock), `ModeInv`,
`ForceInv` (what a turn has armed is in force until it disarms), `WantInv`, `KindInv`, `GenInv` (generations
are a turn's own for ever), `ChatInv` (while no turn has begun since a Chat's, its pin stands), `TakenInv`
and `FoundInv` (a Build finds the strong model picked only where one that left will never put it back).
`PinsOutlastTheAnswerOnly` bounds disagreement 10: a pin under which a Build works belongs to a Chat turn
that has answered and not disarmed, or that an exception ended. It needs `ArmedInv` (a turn arms only what it
wants) besides.

Left out: the phase indicator, the model pick of a Conversation, the snapshots native requests keep, and
the escalation of a phased Build (26351-26455), which has a restore of its own.

### Preview

Constants: bounds on processes, accepted restarts, reloads and readiness checks; `MaxRestarts` is the
code's crash budget; `Gated` says whether a URL line proves anything (uvicorn: no).

The fields of `ViteSupervisor` keep their names (`stopped`, `requested`, `restarts`, `state`, `settled`,
`gen`, `proc`, `up`, `reserved`). Thread 0 is the retry thread, thread *p* the reader of process *p*; `at`
says where each is, `mine` for which generation it launches, `child` which process it has started and
not handed over. `checks` are the `_confirm_ready` threads, each with the generation and process it was
started for. Every section under the state lock is one action, and so is everything the code does outside it: waiting
for the port, `Popen`, adopting or dropping the child, a URL line, a check's answer. `Callers` are Retry,
a poll's retry, Stop, the idle sweep and a change that leaves nothing to serve.

| run | instance | shows |
|---|---|---|
| `preview_restart` | 3 processes, 2 restarts asked, 1 crash restart, 1 reload, 1 check, gated, fairness | a stopped preview stays stopped; only the proven page of this attempt is served; one launch; no orphan; "Starting" ends |

`PreviewIdle.cfg` shows disagreement 15. Bounds: a late thread of an old generation beside a launch of the
new one needs two restarts, a crash restart after them a third process; one check that outlives its
generation is enough.

Fairness (`FairSpec`): the retry thread, the launches and the readers do not all stand still while one of
them can go on (`WF` of `Runs`, one for all of them): each wait in them has a timeout. It is less than the
threads are given, and enough: the restarts accepted are bounded, so each thread has finitely much to do.
No check has to be answered. `Speaks` in `Runs` is an assumption about the app: while its start is not over,
the server prints something the reader knows or exits. The code has no timeout for a restart after a crash,
so without it the pane may say "Starting" for ever.

Proofs (`PreviewProofs`, from `PreviewAssumption`): `TypeOK`, `StoppedIsDown`, `ServesThisAttempt`,
`OneLaunch`, `NoOrphan`. The inductive invariant adds `GenInv` (nothing under way is for a generation that
has not begun), `ReservedInv` (what a Retry reserved is launched by the retry thread alone), `BirthInv`,
`ChildInv` (a started process has one thread that will decide about it), `RequestInv`, `LaunchInv` (while a
launch goes on, what was served is over and no check of it counts) and `UpInv`. `StartingIsMinded` is the
safety half of `StartingEnds`: while the pane says "Starting" after somebody asked, the retry thread is at
work, or the reader of the process that is owned is (reading, restarting it, or about to record that it
could not). A launch that is overtaken hands its start on to whoever overtook it (`LaunchIsMinded`,
`ServerIsMinded`). `UpOnRequestUnlessStrayed` bounds disagreement 15. Only model-checked: `StartingEnds`.

### WorkbenchDoor

Constants: the `Visits` of one viewer, how many names are tried for a Default, a bound on the builders, and
how many of the viewer's Git credentials are usable.

`repos`, `projects`, `builders` are what GitHub and Domino have; `visits` is where each call of
`ensure_default` is; `shown` are the builders a page was sent to. Every call to a service is an action
with up to three outcomes: done, refused, done and not answered. `Crash` is the end of the App's process
between two calls. `Joins`, `Archive` and the changes of builders are other people and Domino. A builder that
stopped is resumed; one that `Breaks` ("failed") or was deleted is passed over and a fresh one launched beside
it (`provision/service.py` 94-96, 363-381). `left`,
`unheard` and `overlapped` are history for the exceptions the properties name.

| run | instance | shows |
|---|---|---|
| `door_visits` | 3 visits, 2 names, 2 builders, 2 credentials, symmetric visits | no stray repository, a Project keeps its repository, one Default and one builder as long as visits do not overlap, a visit never reuses or resumes somebody else's builder |

`DoorLands.cfg` shows disagreement 18. Bounds: two visits overlap, the third comes after what they left; two
names reach the collision suffix and its end; two credentials reach the retry and its end; two builders, one that failed and its replacement, or one each of
two people. No fairness. Assumed of Domino: a builder that boots reads "started", as the comment at 127 says. One
listed in any other state than those of 361 and 96 would be treated like a failed one. A builder that failed
stays so until it is deleted.

`OneOfEach` counts the builders a visit would go on with (`Usable`). It does not say that one builder is listed:
visits one after the other leave a failed builder in the list that `workspace_status` reads (435-446) beside the
one that replaced it, as `test_provision_service.py` 252-260 has it. `OwnBuilderOpened` is about the open call;
where the page ends up is `LandsOnOwnBuilder`, which does not hold (disagreement 18).

Proofs (`WorkbenchDoorProofs`, from `DoorAssumption`): `TypeOK`, `NoStrayRepo`, `ProjectKeepsRepo`,
`OwnBuilderOpened`, `OneOfEach`. The strengthening is `StepInv`, `BuilderInv` and `SetUpInv`: two visits never
set up the same repository, which is what keeps the rollback of one from the Project of another. `OneOfEach`
needs two more. `ListedInv` holds always: what a visit knows of names and builders is there. `SoleInv` holds
until two visits overlap: a visit that goes on to make a Default found none and nobody else is making one, and
the same for a builder in the Default it found. It is kept by whoever looks (`FindSole`, `ListSole`) and by
whoever makes (`SetUpSole`, `CreateSole`), refused or unanswered; everything else only takes away
(`Subsides`).

`CHECK_DEADLOCK FALSE` stands in every configuration because every actor is used a bounded number of
times and the system then stops.

## 3. Where code and words disagree

Each is shown by a configuration that ends in a counterexample; `policy_leak` is a run of `PROJECT.json`, the
others are kept beside it.

1. **A turn can be queued behind a wedge** (`QueueWedgeRace.cfg`). `prepare_stream_turn` reads
   `_turn_wedged` (8214) and admits (8216). A wedge between the two has already failed the line,
   so the newcomer waits for ever. The docstring of `_acquire_turn` says such a turn is refused.
2. **A dropped generator can strand the lock** (`QueueHangUpRace.cfg`). See `Cleanup` and `Withdraw`:
   promoted between the test and the cancel, the ticket holds the lock with no thread behind it.
3. **A deletion or rail change can be forgotten** (`SaveLostDeed.cfg`). `_chat_save_now` clears
   `_chat_dirty` (12755) after the commit and the push without asking whether it was raised again
   meanwhile. The edit stays on disk, uncommitted and unmarked, until the next write.
4. **A handoff door's flush may commit nothing** (`SaveCleanDoor.cfg`). The doors flush without marking:
   on a clean Chat the gate (12649) sends them home.
5. **A Stop can end the next turn** (`StopNextTurn.cfg`). Raised after the last reading of the flag of
   the turn it was aimed at, it is found by the next.
6. **A Build turn can hand the lock back over a session at work** (`StopEarlyRelease.cfg`). When OpenCode
   stops answering polls (23617-23632), after a Stop (23597), when the gateway refused a call (24324-24330,
   24456-24529), when the model took no action (24357-24378, 24406-24423) and when a prompt was never seen to
   start (24158), the Build loop returns without an idle reading of its session, which may still be writing
   when the next turn starts. `_turn_gave_up` is set on several of these ways out, so it does not mean that
   the session is idle.
7. **An interrupt may cut the next question** in the same session (`Post` of `StopControl`; no configuration).
8. **A reset pressed while a stopped turn unwinds is refused at once** (`ResetAsks`; no configuration).
9. **A phase that gives up clears a Stop** pressed during its grace time (`GivesUp`), for which reason
   `StopEndsTheTurn` leaves phased turns out.
10. **A Build can be routed as a Chat** (`policy_leak`). A Chat turn releases the lock at `done` (12529) and
    disarms after its aftercare; a Build that begins in between runs with the Conversation's pin, by which
    `llm_router.resolve` takes its calls for Chat.
11. **A pick made during a retry is lost** (`PolicyPick.cfg`). A Build that took the strong model puts
    back the pick it found, over the one the person made meanwhile; the comment on `original_pick` says
    the user's own pick is never left clobbered.
12. **A late request spends the next turn's calls** (`GuardLate.cfg`). The native route checks the owner of
    a request before it is prepared and reads the guard after; its error, too, lands in `last_gateway_error`
    of the turn that runs by then.
13. **A person's save can move the baseline over an edit of the agent** that no request has witnessed
    (`Save`), and an exception the handlers do not name leaves a turn's arming live (`Raises`). No
    configuration.
14. **A plan built through Continue is not archived** (`ContinuePlan.cfg`; 11640 against the comment at
    25772). A claim handed back after a newer Build or edit is on offer again, and a claim whose stream
    was abandoned, or whose app was another, is held for ever (`ReleaseRefused`, `Abandon`, `OtherApp`).
15. **An idle stop does not cancel a start** (`PreviewIdle.cfg`). It neither latches nor begins a generation
    (`preview/supervisor.py` 321-322), so the launch goes on, and a launch that is overtaken afterwards can
    leave a process nobody owns: the exception `strayed` in `NoOrphan`.
16. **Overlapping visits make two Defaults**, the exception `overlapped` in `OneOfEach`.
17. **An answer that is lost** leaves a repository nobody deletes (`create_repo`) or rolls one back under a
    Project that exists (`create_project`): the exceptions `left` and `unheard`.
18. **The page can be sent to a collaborator's builder** (`DoorLands.cfg`). The answer of `/api/door` does not
    name the workspace it opened (`app.py` 959), so the poll asks for any; the docstring of `is_owned_by` says
    attaching is always scoped to the viewer.
19. **A phase can be tried again beside the session of the first try** (`PhaseAgain`, the exception `lapsed`; no
   configuration). `_run_step` opens the second attempt's session (26378) whatever the first ended with (a few reasons apart), also
   after a refusal of the gateway or an outage of the polls, when nobody has stopped the first session.

Two were read and not modelled: the waiter that reloads the extensions drops its pending flag before the work
and dies with its slot taken if the work raises (28439), and shutdown commits the working tree without the turn
lock (33259).

## 4. What is left

* Pure algorithms over bounded inputs, against a reference definition: the circuit breaker, the retry limits,
  the tool-repeat brake.
* `ThreadStore`, the extension and secret waiters, shutdown as an actor beside the doors, the preview's
  reload gate, shim streams.
* Proofs: abstract specifications of the other components (what a continuation, a save, a preview promises)
  and their refinement.
* Compositions: `StopControl` with `BuildGuard` on more than one turn, `Preview` with the turn.

## 5. What is not modelled, and what is not proved

What a turn says and repairs between two polls is work under the lock and is left out, as are the
contents of files, prompts and messages, HTTP formats, the browser's code, the classification of text
(`chat_intent.py`, `scope.py`), reports and timing, and the resource provider's calls to Domino. `PROJECT.json`
gives the reason for each component. Most of `service.py`, `app.py` and `resources/provider.py` is of that kind.

The prover has no liveness under fairness, no `ENABLED` and no induction over data. Checked by TLC only, on the
instances above: `EveryWaitEnds`, `DirtyIsSaved`, `StopEndsTheTurn`, `RecoveryResolved`, `StartingEnds`, and
the fairness half of the refinement of `TurnAdmission`. Every invariant and action property of a passing run is
proved. Of the liveness properties the safety half is: whoever has to act next exists and is not overlooked
(`NobodyMissing`, `DirtyIsPending`, `StopIsHeard`, `DecisionHeard`, `StartingIsMinded`); that it does act is the
fairness, and TLC's.

## 6. Running

`tlc -workers 2 -config QueueLine.cfg MCTurnQueue` (the module and configuration of each run are in
`PROJECT.json`; a kept configuration goes with the `MC` module of its section). `tlapm` checks
`TurnQueueProofs`, `ChatSaveProofs`, `StopControlProofs`, `BuildGuardProofs`, `ContinuationProofs`,
`ModelPolicyProofs`, `PreviewProofs` and `WorkbenchDoorProofs`; each takes minutes.
