------------------------------ MODULE Preview ------------------------------
(***************************************************************************)
(* One app's preview server (ViteSupervisor in preview/supervisor.py and   *)
(* its uvicorn subclass).  A retry thread starts it, one reader thread per *)
(* process restarts it after a crash, readiness checks run on threads of   *)
(* their own, and Retry, Stop and the idle sweep come in between any two   *)
(* steps: only the fields are under the state lock, never a launch.  What  *)
(* tells a late thread that it is late is the generation number.           *)
(* Modelled for a preview that takes a free port, so one launch does not   *)
(* kill another app's listener.                                            *)
(***************************************************************************)
EXTENDS Integers, FiniteSets

CONSTANTS
    MaxProcs,       \* bound on the server processes ever started
    MaxRestarts,    \* max_restarts: crash restarts of one attempt
    MaxAsks,        \* bound on the restarts accepted
    MaxReloads,     \* bound on the reloads of a running server
    MaxChecks,      \* bound on the readiness checks at a time
    Gated           \* _READY_LINE is set (uvicorn): the URL alone proves nothing

ASSUME PreviewAssumption ==
    /\ {MaxProcs, MaxRestarts, MaxAsks, MaxReloads, MaxChecks} \subseteq Nat
    /\ Gated \in BOOLEAN

Procs == 1..MaxProcs
None == 0           \* no process
NoUrl == [of |-> None, gen |-> 0]
Retry == 0          \* the retry thread; the reader of process p is thread p
Threads == {Retry} \cup Procs

VARIABLES
    stopped, requested, restarts, state, settled,   \* the fields of that name
    gen,            \* _generation
    proc,           \* _proc
    up,             \* _upstream: whose URL it is, and the generation it was checked for
    reserved,       \* _retry_generation; 0 for None
    life,           \* per process: "unborn", "up" or "over" (it exited, or was sent SIGTERM)
    at,             \* per thread: where it is; a reader has "heard" once it has the URL
    mine,           \* per thread: the generation it launches for
    child,          \* per thread: the process it has started and not handed over
    checks,         \* _confirm_ready threads
    asks, reloads,  \* restarts accepted and reloads so far
    bornIn,         \* history: the generation each process was launched for
    first,          \* history: the generation the last explicit Retry reserved
    strayed         \* history: an idle stop came in the middle of a launch

fields == <<stopped, requested, restarts, state, settled, gen, proc, up, reserved>>
work == <<at, mine, child>>
counts == <<asks, reloads>>
history == <<bornIn, first, strayed>>
vars == <<fields, life, work, checks, counts, history>>

Idle == "off"
ThreadStates == {Idle, "enter", "spawn", "launch", "popen", "adopt", "drop", "unlaunched",
                 "wait", "late", "mark", "raise", "read", "heard"}

Urls == [of : Threads, gen : Nat]
Answers == [of : Procs, gen : Nat, saw : {"nothing", "page"}]

TypeOK ==
    /\ stopped \in BOOLEAN /\ requested \in BOOLEAN /\ settled \in BOOLEAN
    /\ restarts \in 0..MaxRestarts
    /\ state \in {"starting", "ready", "failed", "empty"}
    /\ gen \in Nat /\ reserved \in Nat
    /\ proc \in Threads /\ up \in Urls
    /\ life \in [Procs -> {"unborn", "up", "over"}]
    /\ at \in [Threads -> ThreadStates]
    /\ mine \in [Threads -> Nat]
    /\ child \in [Threads -> Threads]
    /\ checks \subseteq Answers
    /\ asks \in 0..MaxAsks /\ reloads \in 0..MaxReloads
    /\ bornIn \in [Procs -> Nat] /\ first \in Nat /\ strayed \in BOOLEAN

Init ==
    /\ stopped = FALSE /\ requested = FALSE /\ settled = FALSE
    /\ restarts = 0 /\ state = "starting" /\ gen = 0
    /\ proc = None /\ up = NoUrl /\ reserved = 0
    /\ life = [p \in Procs |-> "unborn"]
    /\ at = [t \in Threads |-> Idle]
    /\ mine = [t \in Threads |-> 0] /\ child = [t \in Threads |-> None]
    /\ checks = {} /\ asks = 0 /\ reloads = 0
    /\ bornIn = [p \in Procs |-> 0] /\ first = 0 /\ strayed = FALSE
-----------------------------------------------------------------------------
(***************************************************************************)
(* What several operations do under the lock.                              *)
(***************************************************************************)
\* _kill(): the process is given up and sent SIGTERM.  Its reader sees that it is
\* not _proc any more and returns; one that restarts it already goes on.
Reading(t) == at[t] \in {"read", "heard"}

Kill ==
    /\ proc' = None /\ up' = NoUrl
    /\ life' = [p \in Procs |-> IF p = proc THEN "over" ELSE life[p]]

ReaderLeaves(retry) ==
    at' = [t \in Threads |-> IF t = Retry THEN retry
                            ELSE IF t = proc /\ Reading(t) THEN Idle ELSE at[t]]

BeginGeneration ==
    /\ gen' = gen + 1
    /\ up' = NoUrl /\ state' = "starting"

\* Mutant: Stop is not looked at.
CurrentUnlatched(t) == mine[t] = gen

Current(t) == mine[t] = gen /\ ~stopped

Goes(t, where) == at' = [at EXCEPT ![t] = where]

Launching(t) == at[t] \in {"launch", "popen", "adopt"}
-----------------------------------------------------------------------------
(***************************************************************************)
(* The callers.                                                            *)
(***************************************************************************)
\* retry_start(): a poll of the pane asks, and is told nothing.  Later polls
\* only read the result.
PollRetries ==
    /\ asks < MaxAsks
    /\ ~stopped /\ ~requested /\ at[Retry] = Idle
    /\ requested' = TRUE /\ reserved' = 0 /\ restarts' = 0
    /\ Goes(Retry, "enter") /\ asks' = asks + 1
    /\ UNCHANGED <<stopped, state, settled, gen, proc, up, life, mine, child, checks,
                   reloads, history>>

\* Mutant: Retry reserves the number that is current.
RetriesInOldGeneration ==
    /\ asks < MaxAsks
    /\ at[Retry] = Idle
    /\ requested' = TRUE /\ stopped' = FALSE /\ restarts' = 0
    /\ Kill /\ ReaderLeaves("enter")
    /\ state' = "starting" /\ reserved' = gen
    /\ asks' = asks + 1
    /\ UNCHANGED <<settled, gen, mine, child, checks, reloads, history>>

\* retry_start(explicit=True): a person, a page check or changed secrets.  The
\* old child is retired and the new generation reserved before it returns.
PersonRetries ==
    /\ asks < MaxAsks
    /\ at[Retry] = Idle
    /\ requested' = TRUE /\ stopped' = FALSE /\ restarts' = 0
    /\ Kill /\ ReaderLeaves("enter")
    /\ gen' = gen + 1 /\ state' = "starting"
    /\ reserved' = gen + 1 /\ first' = gen + 1
    /\ asks' = asks + 1
    /\ UNCHANGED <<settled, mine, child, checks, reloads, bornIn, strayed>>

\* stop(): the owner's.  It latches.
Stop ==
    /\ ~stopped
    /\ stopped' = TRUE
    /\ Kill /\ ReaderLeaves(at[Retry])
    /\ state' = "failed" /\ settled' = TRUE
    /\ UNCHANGED <<requested, restarts, gen, reserved, mine, child, checks, counts, history>>

\* idle_stop(): the sweep, when the tab is gone.  It read running earlier, so all
\* it knows is that something was started once.  It neither latches nor begins
\* a generation.
IdleStop ==
    /\ asks > 0
    /\ Kill /\ ReaderLeaves(at[Retry])
    /\ requested' = FALSE /\ state' = "failed" /\ settled' = TRUE
    /\ strayed' = (strayed \/ at[Retry] \in {"enter", "spawn"}
                          \/ \E t \in Threads : Launching(t) /\ Current(t))
    /\ UNCHANGED <<stopped, restarts, gen, reserved, mine, child, checks, counts, bornIn,
                   first>>
-----------------------------------------------------------------------------
(***************************************************************************)
(* The retry thread: start() under _retry.                                 *)
(***************************************************************************)
StartIsStopped ==
    /\ at[Retry] = "enter" /\ stopped
    /\ Goes(Retry, "raise")
    /\ UNCHANGED <<fields, life, mine, child, checks, counts, history>>

\* The app's files do not say what would serve them.
StartHasNoStack ==
    /\ at[Retry] = "enter" /\ ~stopped
    /\ requested' = TRUE
    /\ state' \in {"empty", "failed"}
    /\ Goes(Retry, "raise")
    /\ UNCHANGED <<stopped, restarts, settled, gen, proc, up, reserved, life, mine, child,
                   checks, counts, history>>

Start ==
    /\ at[Retry] = "enter" /\ ~stopped
    /\ requested' = TRUE /\ restarts' = 0 /\ settled' = FALSE
    /\ Kill /\ ReaderLeaves("spawn")
    /\ UNCHANGED <<stopped, state, gen, reserved, mine, child, checks, counts, history>>

\* _spawn_generation for the retry thread: the number it reserved, unless Stop
\* or another generation came in between.
SpawnReserved ==
    /\ at[Retry] = "spawn" /\ reserved # 0
    /\ reserved' = 0
    /\ IF ~stopped /\ reserved = gen
       THEN Goes(Retry, "launch") /\ mine' = [mine EXCEPT ![Retry] = gen]
       ELSE Goes(Retry, "wait") /\ UNCHANGED mine
    /\ UNCHANGED <<stopped, requested, restarts, state, settled, gen, proc, up, life, child,
                   checks, counts, history>>

SpawnFresh ==
    /\ at[Retry] = "spawn" /\ reserved = 0
    /\ \/ /\ stopped
          /\ Goes(Retry, "wait")
          /\ UNCHANGED <<gen, up, state, mine>>
       \/ /\ ~stopped
          /\ BeginGeneration
          /\ mine' = [mine EXCEPT ![Retry] = gen + 1]
          /\ Goes(Retry, "launch")
    /\ UNCHANGED <<stopped, requested, restarts, settled, proc, reserved, life, child, checks,
                   counts, history>>

\* The retry thread's launch raised: start() records it, whoever launches by now.
StartCannot ==
    /\ at[Retry] = "unlaunched"
    /\ state' = "failed" /\ settled' = TRUE
    /\ Goes(Retry, "raise")
    /\ UNCHANGED <<stopped, requested, restarts, gen, proc, up, reserved, life, mine, child,
                   checks, counts, history>>

\* The wait ends, and the upstream is read without the lock.
StartSettles ==
    /\ at[Retry] = "wait" /\ settled
    /\ Goes(Retry, IF up # NoUrl THEN Idle ELSE "mark")
    /\ UNCHANGED <<fields, life, mine, child, checks, counts, history>>

StartTimesOut ==
    /\ at[Retry] = "wait" /\ ~settled
    /\ Goes(Retry, IF up # NoUrl THEN Idle ELSE "late")
    /\ UNCHANGED <<fields, life, mine, child, checks, counts, history>>

LateKill ==
    /\ at[Retry] = "late"
    /\ Kill /\ ReaderLeaves("mark")
    /\ UNCHANGED <<stopped, requested, restarts, state, settled, gen, reserved, mine, child,
                   checks, counts, history>>

\* Written without the lock, whatever became of the server since.
MarkFailed ==
    /\ at[Retry] = "mark"
    /\ state' = "failed"
    /\ Goes(Retry, "raise")
    /\ UNCHANGED <<stopped, requested, restarts, settled, gen, proc, up, reserved, life, mine,
                   child, checks, counts, history>>

RetryEnds ==
    /\ at[Retry] = "raise"
    /\ state' = IF stopped THEN state ELSE "failed"
    /\ Goes(Retry, Idle)
    /\ UNCHANGED <<stopped, requested, restarts, settled, gen, proc, up, reserved, life, mine,
                   child, checks, counts, history>>
-----------------------------------------------------------------------------
(***************************************************************************)
(* A launch, on the retry thread or on the reader of a crashed process.    *)
(***************************************************************************)
AfterLaunch(t) == IF t = Retry THEN "wait" ELSE Idle

Leaves(t) ==
    /\ Goes(t, AfterLaunch(t))
    /\ mine' = [mine EXCEPT ![t] = 0]

\* The port is free, or the wait for it finds that the launch is no longer wanted.
LaunchChecks(t) ==
    /\ at[t] = "launch"
    /\ IF Current(t)
       THEN Goes(t, "popen") /\ UNCHANGED mine
       ELSE Leaves(t)
    /\ UNCHANGED <<fields, life, child, checks, counts, history>>

Popen(t) ==
    /\ at[t] = "popen"
    /\ \E p \in Procs :
        /\ life[p] = "unborn" /\ \A q \in Procs : life[q] = "unborn" => p <= q
        /\ life' = [life EXCEPT ![p] = "up"]
        /\ child' = [child EXCEPT ![t] = p]
        /\ bornIn' = [bornIn EXCEPT ![p] = mine[t]]
    /\ Goes(t, "adopt")
    /\ UNCHANGED <<fields, mine, checks, counts, first, strayed>>

\* The port stays taken, node_modules is missing, or Popen itself fails.
LaunchFails(t) ==
    /\ at[t] \in {"launch", "popen"}
    /\ Goes(t, "unlaunched") /\ mine' = [mine EXCEPT ![t] = 0]
    /\ UNCHANGED <<fields, life, child, checks, counts, history>>

\* Back under the lock with a running process: it becomes _proc, and its reader
\* starts, only if no newer generation and no Stop came while it was launched.
Adopt(t) ==
    /\ at[t] = "adopt"
    /\ \/ /\ Current(t)
          /\ proc' = child[t]
          /\ at' = [at EXCEPT ![t] = AfterLaunch(t), ![child[t]] = "read"]
          /\ child' = [child EXCEPT ![t] = None]
       \/ /\ ~Current(t)
          /\ Goes(t, "drop")
          /\ UNCHANGED <<proc, child>>
    /\ mine' = [mine EXCEPT ![t] = 0]
    /\ UNCHANGED <<stopped, requested, restarts, state, settled, gen, up, reserved, life, checks,
                   counts, history>>

\* Mutant: a cancelled launch leaves its process.
DropUntold(t) ==
    /\ at[t] = "drop"
    /\ Goes(t, AfterLaunch(t))
    /\ child' = [child EXCEPT ![t] = None]
    /\ UNCHANGED <<fields, life, mine, checks, counts, history>>

\* A cancelled launch ends the process it started.
Drop(t) ==
    /\ at[t] = "drop"
    /\ life' = [life EXCEPT ![child[t]] = "over"]
    /\ Goes(t, AfterLaunch(t))
    /\ child' = [child EXCEPT ![t] = None]
    /\ UNCHANGED <<fields, mine, checks, counts, history>>
-----------------------------------------------------------------------------
(***************************************************************************)
(* A server process and the thread that reads its output.  Lines of a      *)
(* process that is not _proc any more are not read.                        *)
(***************************************************************************)
Read(p) == Reading(p) /\ proc = p /\ life[p] = "up"

Check(p) ==
    /\ Cardinality(checks) < MaxChecks
    /\ checks' = checks \cup {[of |-> p, gen |-> gen, saw |-> "nothing"]}

\* The URL line.  Where it proves nothing, a line that does has to follow.
PrintsUrl(p) ==
    /\ Read(p) /\ at[p] = "read"
    /\ Goes(p, "heard")
    /\ IF Gated THEN UNCHANGED checks ELSE Check(p)
    /\ UNCHANGED <<fields, life, mine, child, counts, history>>

PrintsReady(p) ==
    /\ Gated /\ Read(p) /\ at[p] = "heard"
    /\ Check(p)
    /\ UNCHANGED <<fields, life, work, counts, history>>

\* "Reloading...": the process stays, what it serves is a new generation.
PrintsReload(p) ==
    /\ Gated /\ Read(p) /\ ~stopped /\ reloads < MaxReloads
    /\ BeginGeneration
    /\ reloads' = reloads + 1
    /\ UNCHANGED <<stopped, requested, restarts, settled, proc, reserved, life, work, checks,
                   asks, history>>

\* An error of a server that serves is the app's log; before that, it is the end
\* of this start, and the parent goes on watching the files.
PrintsError(p) ==
    /\ Read(p) /\ state # "ready"
    /\ up' = NoUrl /\ state' = "failed" /\ settled' = TRUE
    /\ UNCHANGED <<stopped, requested, restarts, gen, proc, reserved, life, work, checks,
                   counts, history>>

\* A crash.  What a process does after SIGTERM is not read.
Exits(p) ==
    /\ life[p] = "up"
    /\ life' = [life EXCEPT ![p] = "over"]
    /\ UNCHANGED <<fields, work, checks, counts, history>>

\* Its output is closed: restart unless the process was taken away or the budget
\* is spent.
ReaderEnds(p) ==
    /\ Reading(p) /\ life[p] = "over"
    /\ \/ /\ proc # p
          /\ Goes(p, Idle)
          /\ UNCHANGED <<restarts, state, settled, up>>
       \/ /\ proc = p /\ ~stopped /\ restarts < MaxRestarts
          /\ up' = NoUrl /\ restarts' = restarts + 1
          /\ Goes(p, "spawn")
          /\ UNCHANGED <<state, settled>>
       \/ /\ proc = p /\ ~stopped /\ restarts >= MaxRestarts
          /\ up' = NoUrl /\ state' = "failed" /\ settled' = TRUE
          /\ Goes(p, Idle)
          /\ UNCHANGED restarts
    /\ UNCHANGED <<stopped, requested, gen, proc, reserved, life, mine, child, checks, counts,
                   history>>

\* _spawn(previous=proc): nothing to restart if the process was taken away since.
Respawn(p) ==
    /\ at[p] = "spawn"
    /\ \/ /\ stopped \/ proc # p
          /\ Goes(p, Idle)
          /\ UNCHANGED <<gen, up, state, mine>>
       \/ /\ ~stopped /\ proc = p
          /\ BeginGeneration
          /\ mine' = [mine EXCEPT ![p] = gen + 1]
          /\ Goes(p, "launch")
    /\ UNCHANGED <<stopped, requested, restarts, settled, proc, reserved, life, child, checks,
                   counts, history>>

\* Mutant: a restart that fails records nothing.
RespawnSilent(p) ==
    /\ at[p] = "unlaunched"
    /\ Goes(p, Idle)
    /\ UNCHANGED <<fields, life, mine, child, checks, counts, history>>

\* The reader's launch raised: recorded while the crashed process is still _proc.
RespawnCannot(p) ==
    /\ at[p] = "unlaunched"
    /\ IF proc = p /\ ~stopped
       THEN state' = "failed" /\ settled' = TRUE
       ELSE UNCHANGED <<state, settled>>
    /\ Goes(p, Idle)
    /\ UNCHANGED <<stopped, requested, restarts, gen, proc, up, reserved, life, mine, child,
                   checks, counts, history>>
-----------------------------------------------------------------------------
(***************************************************************************)
(* _confirm_ready: a thread that asks the server for its page, outside the *)
(* lock, and looks again under it whose answer that was.                   *)
(***************************************************************************)
\* Mutant: the generation is not compared.
WantedAnyGeneration(c) == c.of = proc /\ ~stopped

Wanted(c) == c.of = proc /\ c.gen = gen /\ ~stopped

\* A request that is not answered is made again until three seconds are over.
Probe(c) ==
    /\ c.saw = "nothing" /\ Wanted(c) /\ life[c.of] = "up"
    /\ checks' = (checks \ {c}) \cup {[c EXCEPT !.saw = "page"]}
    /\ UNCHANGED <<fields, life, work, counts, history>>

Confirm(c) ==
    /\ c.saw = "page"
    /\ checks' = checks \ {c}
    /\ IF Wanted(c)
       THEN up' = [of |-> c.of, gen |-> c.gen] /\ state' = "ready" /\ settled' = TRUE
       ELSE UNCHANGED <<up, state, settled>>
    /\ UNCHANGED <<stopped, requested, restarts, gen, proc, reserved, life, work, counts,
                   history>>

GivesUp(c) ==
    /\ c.saw = "nothing"
    /\ checks' = checks \ {c}
    /\ IF Wanted(c)
       THEN state' = "failed" /\ settled' = TRUE
       ELSE UNCHANGED <<state, settled>>
    /\ UNCHANGED <<stopped, requested, restarts, gen, proc, up, reserved, life, work, counts,
                   history>>
-----------------------------------------------------------------------------
Callers == PollRetries \/ PersonRetries \/ Stop \/ IdleStop

RetryStep ==
    \/ StartIsStopped \/ StartHasNoStack \/ Start \/ SpawnReserved \/ SpawnFresh
    \/ StartCannot \/ StartSettles \/ StartTimesOut \/ LateKill \/ MarkFailed \/ RetryEnds

LaunchStep(t) == LaunchChecks(t) \/ Popen(t) \/ LaunchFails(t) \/ Adopt(t) \/ Drop(t)

ServerStep(p) ==
    PrintsUrl(p) \/ PrintsReady(p) \/ PrintsReload(p) \/ PrintsError(p) \/ Exits(p)

ReaderStep(p) == ReaderEnds(p) \/ Respawn(p) \/ RespawnCannot(p)

CheckStep(c) == Probe(c) \/ Confirm(c) \/ GivesUp(c)

Next ==
    \/ Callers
    \/ RetryStep
    \/ \E t \in Threads : LaunchStep(t)
    \/ \E p \in Procs : ServerStep(p) \/ ReaderStep(p)
    \/ \E c \in checks : CheckStep(c)

Spec == Init /\ [][Next]_vars

\* The server is a program that, while its start is not over, says it serves, says
\* what is wrong or exits.
Speaks(p) == state = "starting" /\ (PrintsUrl(p) \/ PrintsReady(p) \/ PrintsError(p) \/ Exits(p))

\* The threads of a preview and its server, which do not all stand still while one
\* of them can go on.  No thread is promised its own turn, and no check its answer.
Runs ==
    \/ RetryStep
    \/ \E t \in Threads : LaunchStep(t)
    \/ \E p \in Procs : ReaderStep(p) \/ Speaks(p)

FairSpec == Spec /\ WF_vars(Runs)
-----------------------------------------------------------------------------
(***************************************************************************)
(* Properties                                                              *)
(***************************************************************************)
\* Stop is final until somebody presses Retry: no launch, crash restart or late
\* check that was under way brings a server or its URL back (stop(), the
\* re-checks in _launch, _begin_generation and _confirm_ready).
StoppedIsDown == stopped => proc = None /\ up = NoUrl /\ state = "failed"

\* The proxy is sent only to the process the supervisor owns, proven to serve in
\* the generation status() names with it, and only to one started for this Retry
\* or later: the child a Retry retired, and the page it served before a reload,
\* never pass for the outcome ("must not mistake the previous ready child for the
\* new attempt").
ServesThisAttempt ==
    /\ up # NoUrl => up.gen = gen /\ (up.of = proc \/ strayed)
    /\ proc # None => bornIn[proc] >= first

\* However a poll, a person and a crash overlap, one launch at most is for the
\* generation that counts, so one process at most can be taken over.
OneLaunch ==
    \A t, u \in Threads : Launching(t) /\ Launching(u) /\ mine[t] = gen /\ mine[u] = gen => t = u

\* A running process is always somebody's: the supervisor's, a launch's that will
\* decide about it, or one that was told to go.  The exception is an idle stop
\* in the middle of a launch, which begins no generation: the launch is taken
\* over by whoever starts next, and then dropped without a signal.
Orphan(p) == life[p] = "up" /\ proc # p /\ \A t \in Threads : child[t] # p
NoOrphan == (\E p \in Procs : Orphan(p)) => strayed

\* A server runs only while somebody's request for it stands: what an idle stop
\* stopped stays down until the next one ("Stop each running preview nobody has
\* viewed"; a start under way counts as running).
UpOnRequest == proc # None => requested

\* How far an idle stop fails to: only when it comes in the middle of a launch.
UpOnRequestUnlessStrayed == ~strayed => UpOnRequest

\* While the pane says "Starting", somebody is on the way to say something else: the
\* retry thread, the reader of the server that is owned, or that reader starting it again
\* after a crash, whose failure no caller would see.
Minds(p) == Reading(p) \/ at[p] \in {"spawn", "unlaunched"} \/ (Launching(p) /\ Current(p))
StartingIsMinded ==
    state = "starting" /\ asks > 0 =>
        at[Retry] # Idle \/ \E p \in Procs : proc = p /\ Minds(p)

\* The pane does not stay on "Starting": every start, restart and reload ends in
\* a page, a failure or a stop, whatever came in between.
StartingEnds == []<>(state # "starting" \/ asks = 0)
=============================================================================
