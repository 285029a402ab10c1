---------------------------- MODULE PreviewProofs ----------------------------
(***************************************************************************)
(* Proofs about Preview, for any number of processes, restarts, reloads    *)
(* and checks, gated or not.                                               *)
(***************************************************************************)
EXTENDS Preview, TLAPS

\* The type invariant in parts.
TypeOK1 == stopped \in BOOLEAN /\ requested \in BOOLEAN /\ settled \in BOOLEAN /\ strayed \in BOOLEAN
TypeOK2 ==
    /\ restarts \in 0..MaxRestarts /\ asks \in 0..MaxAsks /\ reloads \in 0..MaxReloads
    /\ state \in {"starting", "ready", "failed", "empty"}
    /\ gen \in Nat /\ reserved \in Nat
TypeOK3 == proc \in Threads /\ up \in Urls /\ life \in [Procs -> {"unborn", "up", "over"}]
TypeOK4 == at \in [Threads -> ThreadStates]
TypeOK5 ==
    /\ mine \in [Threads -> Nat] /\ child \in [Threads -> Threads]
    /\ bornIn \in [Procs -> Nat] /\ first \in Nat
TypeOK6 == checks \subseteq Answers

-----------------------------------------------------------------------------
(***************************************************************************)
(* The inductive invariant.                                                *)
(***************************************************************************)
\* Nothing that is under way is for a generation that has not begun.
GenInv ==
    /\ \A t \in Threads : mine[t] <= gen
    /\ \A c \in checks : c.gen <= gen
    /\ first <= gen /\ reserved <= gen

\* What a Retry reserved is launched by the retry thread alone.
ReservedInv ==
    reserved # 0 /\ reserved = gen => \A t \in Threads : ~(Launching(t) /\ mine[t] = gen)

\* Only a process that was started is served, read or restarted.
BirthInv ==
    /\ proc # None => life[proc] # "unborn"
    /\ \A p \in Procs : at[p] # Idle => life[p] # "unborn"
    /\ \A p \in Procs : at[p] = "spawn" => life[p] = "over"

\* A thread has a child from the moment it started it until it handed it over,
\* and nobody else has it.
ChildInv ==
    /\ \A t \in Threads : child[t] # None <=> at[t] \in {"adopt", "drop"}
    /\ \A t \in Threads : at[t] = "adopt" => bornIn[child[t]] = mine[t]
    /\ \A t \in Threads : child[t] # None =>
          life[child[t]] # "unborn" /\ at[child[t]] = Idle /\ child[t] # proc
    /\ \A t, u \in Threads : child[t] # None /\ child[t] = child[u] => t = u

\* A launch that will be taken over unless something happens first.
Live(t) == Launching(t) /\ Current(t)

\* Nothing runs or starts unasked, and a start begins with nothing running: what
\* an idle stop in the middle of a launch breaks.
Vacant == proc = None /\ \A t \in Threads : ~Live(t)

RequestInv ==
    ~strayed => /\ ~requested => Vacant /\ at[Retry] \notin {"enter", "spawn"}
                /\ at[Retry] \in {"enter", "spawn"} => Vacant

\* While a launch goes on, what was served before is over and no check of it counts.
LaunchInv ==
    ~strayed => \A t \in Threads : Live(t) =>
        /\ proc # None => life[proc] = "over"
        /\ up = NoUrl
        /\ \A c \in checks : c.gen < gen \/ c.of # proc

UpInv == up # NoUrl => up.of \in Procs

USE PreviewAssumption

\* Thread 0 is the retry thread, and no process.
LEMMA Numbers ==
    /\ Procs \subseteq Threads /\ Retry \in Threads /\ Threads = Procs \cup {0}
    /\ None = 0 /\ Retry = 0 /\ 0 \notin Procs
    /\ Idle \in ThreadStates /\ Idle = "off"
    /\ NoUrl \in Urls /\ NoUrl.of = 0
BY DEF Procs, Threads, None, Retry, Idle, ThreadStates, NoUrl, Urls

\* Every step keeps the types of the flags.
LEMMA TypeStep1 ==
    ASSUME TypeOK, [Next]_vars
    PROVE  TypeOK1'
<1>1. CASE PollRetries \/ PersonRetries \/ Stop \/ IdleStop
  BY <1>1, Numbers
    DEF PollRetries, PersonRetries, Stop, IdleStop, Goes, history, Kill,
        ReaderLeaves, Reading, counts, Current, Launching, TypeOK, TypeOK1
<1>2. CASE StartIsStopped \/ StartHasNoStack \/ Start \/ SpawnReserved
  BY <1>2, Numbers
    DEF StartIsStopped, StartHasNoStack, Start, SpawnReserved, Goes, fields, counts,
        history, Kill, ReaderLeaves, Reading, TypeOK, TypeOK1
<1>3. CASE SpawnFresh \/ StartCannot \/ StartSettles \/ StartTimesOut \/ LateKill \/ MarkFailed \/ RetryEnds
  BY <1>3, Numbers
    DEF SpawnFresh, StartCannot, StartSettles, StartTimesOut, LateKill, MarkFailed,
        RetryEnds, BeginGeneration, Goes, counts, history, fields, Kill,
        ReaderLeaves, Reading, TypeOK, TypeOK1
<1>4. ASSUME NEW t \in Threads, LaunchChecks(t) \/ Popen(t) \/ LaunchFails(t) \/ Adopt(t) \/ Drop(t)
      PROVE  TypeOK1'
  BY <1>4, Numbers
    DEF LaunchChecks, Popen, LaunchFails, Adopt, Drop, Current, Goes, Leaves,
        AfterLaunch, fields, counts, history, TypeOK, TypeOK1
<1>5. ASSUME NEW p \in Procs, PrintsUrl(p) \/ PrintsReady(p) \/ PrintsReload(p) \/ PrintsError(p) \/ Exits(p)
      PROVE  TypeOK1'
  BY <1>5, Numbers
    DEF PrintsUrl, PrintsReady, PrintsReload, PrintsError, Exits, Goes, Read,
        Reading, Check, fields, counts, history, work, BeginGeneration, TypeOK,
        TypeOK1
<1>6. ASSUME NEW p \in Procs, ReaderEnds(p) \/ Respawn(p) \/ RespawnCannot(p)
      PROVE  TypeOK1'
  BY <1>6, Numbers
    DEF ReaderEnds, Respawn, RespawnCannot, Goes, Reading, counts, history,
        BeginGeneration, TypeOK, TypeOK1
<1>7. ASSUME NEW c \in checks, Probe(c) \/ Confirm(c) \/ GivesUp(c)
      PROVE  TypeOK1'
  BY <1>7, Numbers
    DEF Probe, Confirm, GivesUp, Wanted, fields, work, counts, history, TypeOK,
        TypeOK1
<1>8. CASE UNCHANGED vars
  BY <1>8
    DEF vars, fields, work, counts, history, TypeOK, TypeOK1
<1> QED
  BY <1>1, <1>2, <1>3, <1>4, <1>5, <1>6, <1>7, <1>8
    DEF Next, Callers, RetryStep, LaunchStep, ServerStep, ReaderStep, CheckStep

\* Every step keeps the types of the state and the counts.
LEMMA TypeStep2 ==
    ASSUME TypeOK, [Next]_vars
    PROVE  TypeOK2'
<1>1. CASE PollRetries \/ PersonRetries \/ Stop \/ IdleStop
  BY <1>1, Numbers
    DEF PollRetries, PersonRetries, Stop, IdleStop, Goes, history, Kill,
        ReaderLeaves, Reading, counts, Current, Launching, TypeOK, TypeOK2
<1>2. CASE StartIsStopped \/ StartHasNoStack \/ Start \/ SpawnReserved
  BY <1>2, Numbers
    DEF StartIsStopped, StartHasNoStack, Start, SpawnReserved, Goes, fields, counts,
        history, Kill, ReaderLeaves, Reading, TypeOK, TypeOK2
<1>3. CASE SpawnFresh \/ StartCannot \/ StartSettles \/ StartTimesOut \/ LateKill \/ MarkFailed \/ RetryEnds
  BY <1>3, Numbers
    DEF SpawnFresh, StartCannot, StartSettles, StartTimesOut, LateKill, MarkFailed,
        RetryEnds, BeginGeneration, Goes, counts, history, fields, Kill,
        ReaderLeaves, Reading, TypeOK, TypeOK2
<1>4. ASSUME NEW t \in Threads, LaunchChecks(t) \/ Popen(t) \/ LaunchFails(t) \/ Adopt(t) \/ Drop(t)
      PROVE  TypeOK2'
  BY <1>4, Numbers
    DEF LaunchChecks, Popen, LaunchFails, Adopt, Drop, Current, Goes, Leaves,
        AfterLaunch, fields, counts, history, TypeOK, TypeOK2
<1>5. ASSUME NEW p \in Procs, PrintsUrl(p) \/ PrintsReady(p) \/ PrintsReload(p) \/ PrintsError(p) \/ Exits(p)
      PROVE  TypeOK2'
  BY <1>5, Numbers
    DEF PrintsUrl, PrintsReady, PrintsReload, PrintsError, Exits, Goes, Read,
        Reading, Check, fields, counts, history, work, BeginGeneration, TypeOK,
        TypeOK2
<1>6. ASSUME NEW p \in Procs, ReaderEnds(p) \/ Respawn(p) \/ RespawnCannot(p)
      PROVE  TypeOK2'
  BY <1>6, Numbers
    DEF ReaderEnds, Respawn, RespawnCannot, Goes, Reading, counts, history,
        BeginGeneration, TypeOK, TypeOK2
<1>7. ASSUME NEW c \in checks, Probe(c) \/ Confirm(c) \/ GivesUp(c)
      PROVE  TypeOK2'
  BY <1>7, Numbers
    DEF Probe, Confirm, GivesUp, Wanted, fields, work, counts, history, TypeOK,
        TypeOK2
<1>8. CASE UNCHANGED vars
  BY <1>8
    DEF vars, fields, work, counts, history, TypeOK, TypeOK2
<1> QED
  BY <1>1, <1>2, <1>3, <1>4, <1>5, <1>6, <1>7, <1>8
    DEF Next, Callers, RetryStep, LaunchStep, ServerStep, ReaderStep, CheckStep

\* Every step keeps the types of what is served.
LEMMA TypeStep3 ==
    ASSUME TypeOK, [Next]_vars
    PROVE  TypeOK3'
<1>1. CASE PollRetries \/ PersonRetries \/ Stop \/ IdleStop
  BY <1>1, Numbers
    DEF PollRetries, PersonRetries, Stop, IdleStop, Goes, history, Kill,
        ReaderLeaves, Reading, counts, Current, Launching, TypeOK, TypeOK3, Urls,
        Answers
<1>2. CASE StartIsStopped \/ StartHasNoStack \/ Start \/ SpawnReserved
  BY <1>2, Numbers
    DEF StartIsStopped, StartHasNoStack, Start, SpawnReserved, Goes, fields, counts,
        history, Kill, ReaderLeaves, Reading, TypeOK, TypeOK3, Urls, Answers
<1>3. CASE SpawnFresh \/ StartCannot \/ StartSettles \/ StartTimesOut \/ LateKill \/ MarkFailed \/ RetryEnds
  BY <1>3, Numbers
    DEF SpawnFresh, StartCannot, StartSettles, StartTimesOut, LateKill, MarkFailed,
        RetryEnds, BeginGeneration, Goes, counts, history, fields, Kill,
        ReaderLeaves, Reading, TypeOK, TypeOK3, Urls, Answers
<1>4. ASSUME NEW t \in Threads, LaunchChecks(t) \/ Popen(t) \/ LaunchFails(t) \/ Adopt(t) \/ Drop(t)
      PROVE  TypeOK3'
  BY <1>4, Numbers
    DEF LaunchChecks, Popen, LaunchFails, Adopt, Drop, Current, Goes, Leaves,
        AfterLaunch, fields, counts, history, TypeOK, TypeOK3, Urls, Answers
<1>5. ASSUME NEW p \in Procs, PrintsUrl(p) \/ PrintsReady(p) \/ PrintsReload(p) \/ PrintsError(p) \/ Exits(p)
      PROVE  TypeOK3'
  BY <1>5, Numbers
    DEF PrintsUrl, PrintsReady, PrintsReload, PrintsError, Exits, Goes, Read,
        Reading, Check, fields, counts, history, work, BeginGeneration, TypeOK,
        TypeOK3, Urls, Answers
<1>6. ASSUME NEW p \in Procs, ReaderEnds(p) \/ Respawn(p) \/ RespawnCannot(p)
      PROVE  TypeOK3'
  BY <1>6, Numbers
    DEF ReaderEnds, Respawn, RespawnCannot, Goes, Reading, counts, history,
        BeginGeneration, TypeOK, TypeOK3, Urls, Answers
<1>7. ASSUME NEW c \in checks, Probe(c) \/ Confirm(c) \/ GivesUp(c)
      PROVE  TypeOK3'
  BY <1>7, Numbers
    DEF Probe, Confirm, GivesUp, Wanted, fields, work, counts, history, TypeOK,
        TypeOK3, Urls, Answers
<1>8. CASE UNCHANGED vars
  BY <1>8
    DEF vars, fields, work, counts, history, TypeOK, TypeOK3, Urls, Answers
<1> QED
  BY <1>1, <1>2, <1>3, <1>4, <1>5, <1>6, <1>7, <1>8
    DEF Next, Callers, RetryStep, LaunchStep, ServerStep, ReaderStep, CheckStep

\* Every step keeps the types of the threads.
LEMMA TypeStep4 ==
    ASSUME TypeOK, [Next]_vars
    PROVE  TypeOK4'
<1>1. CASE PollRetries \/ PersonRetries \/ Stop \/ IdleStop
  <2>1. at[Retry] \in ThreadStates /\ {"enter", "spawn", Idle} \subseteq ThreadStates
    BY Numbers DEF TypeOK, TypeOK4, ThreadStates, Idle
  <2>2. ASSUME NEW r \in ThreadStates, ReaderLeaves(r)
        PROVE  TypeOK4'
    BY <2>1, <2>2 DEF ReaderLeaves, TypeOK, TypeOK4
  <2>3. CASE PollRetries
    BY <2>1, <2>2, <2>3 DEF PollRetries, Goes, TypeOK, TypeOK4
  <2>4. CASE PersonRetries
    BY <2>1, <2>2, <2>4 DEF PersonRetries
  <2>5. CASE Stop \/ IdleStop
    BY <2>1, <2>2, <2>5 DEF Stop, IdleStop
  <2> QED
    BY <1>1, <2>3, <2>4, <2>5
<1>2. CASE StartIsStopped \/ StartHasNoStack \/ Start \/ SpawnReserved
  BY <1>2, Numbers
    DEF StartIsStopped, StartHasNoStack, Start, SpawnReserved, Goes, fields, counts,
        history, Kill, ReaderLeaves, Reading, TypeOK, TypeOK4, ThreadStates, Idle
<1>3. CASE SpawnFresh \/ StartCannot \/ StartSettles \/ StartTimesOut \/ LateKill \/ MarkFailed \/ RetryEnds
  BY <1>3, Numbers
    DEF SpawnFresh, StartCannot, StartSettles, StartTimesOut, LateKill, MarkFailed,
        RetryEnds, BeginGeneration, Goes, counts, history, fields, Kill,
        ReaderLeaves, Reading, TypeOK, TypeOK4, ThreadStates, Idle
<1>4. ASSUME NEW t \in Threads, LaunchChecks(t) \/ Popen(t) \/ LaunchFails(t) \/ Adopt(t) \/ Drop(t)
      PROVE  TypeOK4'
  BY <1>4, Numbers
    DEF LaunchChecks, Popen, LaunchFails, Adopt, Drop, Current, Goes, Leaves,
        AfterLaunch, fields, counts, history, TypeOK, TypeOK4, ThreadStates, Idle
<1>5. ASSUME NEW p \in Procs, PrintsUrl(p) \/ PrintsReady(p) \/ PrintsReload(p) \/ PrintsError(p) \/ Exits(p)
      PROVE  TypeOK4'
  BY <1>5, Numbers
    DEF PrintsUrl, PrintsReady, PrintsReload, PrintsError, Exits, Goes, Read,
        Reading, Check, fields, counts, history, work, BeginGeneration, TypeOK,
        TypeOK4, ThreadStates, Idle
<1>6. ASSUME NEW p \in Procs, ReaderEnds(p) \/ Respawn(p) \/ RespawnCannot(p)
      PROVE  TypeOK4'
  BY <1>6, Numbers
    DEF ReaderEnds, Respawn, RespawnCannot, Goes, Reading, counts, history,
        BeginGeneration, TypeOK, TypeOK4, ThreadStates, Idle
<1>7. ASSUME NEW c \in checks, Probe(c) \/ Confirm(c) \/ GivesUp(c)
      PROVE  TypeOK4'
  BY <1>7, Numbers
    DEF Probe, Confirm, GivesUp, Wanted, fields, work, counts, history, TypeOK,
        TypeOK4, ThreadStates, Idle
<1>8. CASE UNCHANGED vars
  BY <1>8
    DEF vars, fields, work, counts, history, TypeOK, TypeOK4, ThreadStates, Idle
<1> QED
  BY <1>1, <1>2, <1>3, <1>4, <1>5, <1>6, <1>7, <1>8
    DEF Next, Callers, RetryStep, LaunchStep, ServerStep, ReaderStep, CheckStep

\* Every step keeps the types of the launches.
LEMMA TypeStep5 ==
    ASSUME TypeOK, [Next]_vars
    PROVE  TypeOK5'
<1>1. CASE PollRetries \/ PersonRetries \/ Stop \/ IdleStop
  BY <1>1, Numbers
    DEF PollRetries, PersonRetries, Stop, IdleStop, Goes, history, Kill,
        ReaderLeaves, Reading, counts, Current, Launching, TypeOK, TypeOK5
<1>2. CASE StartIsStopped \/ StartHasNoStack \/ Start \/ SpawnReserved
  BY <1>2, Numbers
    DEF StartIsStopped, StartHasNoStack, Start, SpawnReserved, Goes, fields, counts,
        history, Kill, ReaderLeaves, Reading, TypeOK, TypeOK5
<1>3. CASE SpawnFresh \/ StartCannot \/ StartSettles \/ StartTimesOut \/ LateKill \/ MarkFailed \/ RetryEnds
  BY <1>3, Numbers
    DEF SpawnFresh, StartCannot, StartSettles, StartTimesOut, LateKill, MarkFailed,
        RetryEnds, BeginGeneration, Goes, counts, history, fields, Kill,
        ReaderLeaves, Reading, TypeOK, TypeOK5
<1>4. ASSUME NEW t \in Threads, LaunchChecks(t) \/ LaunchFails(t) \/ Drop(t)
      PROVE  TypeOK5'
  BY <1>4, Numbers
    DEF LaunchChecks, LaunchFails, Drop, Current, Goes, Leaves, AfterLaunch, fields,
        counts, history, TypeOK, TypeOK5
<1>5. ASSUME NEW t \in Threads, Popen(t)
      PROVE  TypeOK5'
  BY <1>5, Numbers
    DEF Popen, Goes, fields, counts, TypeOK, TypeOK5
<1>6. ASSUME NEW t \in Threads, Adopt(t)
      PROVE  TypeOK5'
  BY <1>6, Numbers
    DEF Adopt, Current, Goes, AfterLaunch, counts, history, TypeOK, TypeOK5
<1>7. ASSUME NEW p \in Procs, PrintsUrl(p) \/ PrintsReady(p) \/ PrintsReload(p) \/ PrintsError(p) \/ Exits(p)
      PROVE  TypeOK5'
  BY <1>7, Numbers
    DEF PrintsUrl, PrintsReady, PrintsReload, PrintsError, Exits, Goes, Read,
        Reading, Check, fields, counts, history, work, BeginGeneration, TypeOK,
        TypeOK5
<1>8. ASSUME NEW p \in Procs, ReaderEnds(p) \/ Respawn(p) \/ RespawnCannot(p)
      PROVE  TypeOK5'
  BY <1>8, Numbers
    DEF ReaderEnds, Respawn, RespawnCannot, Goes, Reading, counts, history,
        BeginGeneration, TypeOK, TypeOK5
<1>9. ASSUME NEW c \in checks, Probe(c) \/ Confirm(c) \/ GivesUp(c)
      PROVE  TypeOK5'
  BY <1>9, Numbers
    DEF Probe, Confirm, GivesUp, Wanted, fields, work, counts, history, TypeOK,
        TypeOK5
<1>10. CASE UNCHANGED vars
  BY <1>10
    DEF vars, fields, work, counts, history, TypeOK, TypeOK5
<1> QED
  BY <1>1, <1>2, <1>3, <1>4, <1>5, <1>6, <1>7, <1>8, <1>9, <1>10
    DEF Next, Callers, RetryStep, LaunchStep, ServerStep, ReaderStep, CheckStep

\* Every step keeps the types of the checks.
LEMMA TypeStep6 ==
    ASSUME TypeOK, [Next]_vars
    PROVE  TypeOK6'
<1>1. CASE PollRetries \/ PersonRetries \/ Stop \/ IdleStop
  BY <1>1, Numbers
    DEF PollRetries, PersonRetries, Stop, IdleStop, Goes, history, Kill,
        ReaderLeaves, Reading, counts, Current, Launching, TypeOK, TypeOK6, Answers
<1>2. CASE StartIsStopped \/ StartHasNoStack \/ Start \/ SpawnReserved
  BY <1>2, Numbers
    DEF StartIsStopped, StartHasNoStack, Start, SpawnReserved, Goes, fields, counts,
        history, Kill, ReaderLeaves, Reading, TypeOK, TypeOK6, Answers
<1>3. CASE SpawnFresh \/ StartCannot \/ StartSettles \/ StartTimesOut \/ LateKill \/ MarkFailed \/ RetryEnds
  BY <1>3, Numbers
    DEF SpawnFresh, StartCannot, StartSettles, StartTimesOut, LateKill, MarkFailed,
        RetryEnds, BeginGeneration, Goes, counts, history, fields, Kill,
        ReaderLeaves, Reading, TypeOK, TypeOK6, Answers
<1>4. ASSUME NEW t \in Threads, LaunchChecks(t) \/ Popen(t) \/ LaunchFails(t) \/ Adopt(t) \/ Drop(t)
      PROVE  TypeOK6'
  BY <1>4, Numbers
    DEF LaunchChecks, Popen, LaunchFails, Adopt, Drop, Current, Goes, Leaves,
        AfterLaunch, fields, counts, history, TypeOK, TypeOK6, Answers
<1>5. ASSUME NEW p \in Procs, PrintsUrl(p) \/ PrintsReady(p) \/ PrintsReload(p) \/ PrintsError(p) \/ Exits(p)
      PROVE  TypeOK6'
  BY <1>5, Numbers
    DEF PrintsUrl, PrintsReady, PrintsReload, PrintsError, Exits, Goes, Read,
        Reading, Check, fields, counts, history, work, BeginGeneration, TypeOK,
        TypeOK6, Answers
<1>6. ASSUME NEW p \in Procs, ReaderEnds(p) \/ Respawn(p) \/ RespawnCannot(p)
      PROVE  TypeOK6'
  BY <1>6, Numbers
    DEF ReaderEnds, Respawn, RespawnCannot, Goes, Reading, counts, history,
        BeginGeneration, TypeOK, TypeOK6, Answers
<1>7. ASSUME NEW c \in checks, Probe(c) \/ Confirm(c) \/ GivesUp(c)
      PROVE  TypeOK6'
  BY <1>7, Numbers
    DEF Probe, Confirm, GivesUp, Wanted, fields, work, counts, history, TypeOK,
        TypeOK6, Answers
<1>8. CASE UNCHANGED vars
  BY <1>8
    DEF vars, fields, work, counts, history, TypeOK, TypeOK6, Answers
<1> QED
  BY <1>1, <1>2, <1>3, <1>4, <1>5, <1>6, <1>7, <1>8
    DEF Next, Callers, RetryStep, LaunchStep, ServerStep, ReaderStep, CheckStep

\* No step brings a server back after Stop.
LEMMA StoppedStep ==
    ASSUME TypeOK, StoppedIsDown, [Next]_vars
    PROVE  StoppedIsDown'
<1>1. CASE PollRetries \/ PersonRetries \/ Stop \/ IdleStop
  BY <1>1, Numbers
    DEF PollRetries, PersonRetries, Stop, IdleStop, Goes, history, Kill,
        ReaderLeaves, Reading, counts, Current, Launching, TypeOK, StoppedIsDown,
        NoUrl, None
<1>2. CASE StartIsStopped \/ StartHasNoStack \/ Start \/ SpawnReserved
  BY <1>2, Numbers
    DEF StartIsStopped, StartHasNoStack, Start, SpawnReserved, Goes, fields, counts,
        history, Kill, ReaderLeaves, Reading, TypeOK, StoppedIsDown, NoUrl, None
<1>3. CASE SpawnFresh \/ StartCannot \/ StartSettles \/ StartTimesOut \/ LateKill \/ MarkFailed \/ RetryEnds
  BY <1>3, Numbers
    DEF SpawnFresh, StartCannot, StartSettles, StartTimesOut, LateKill, MarkFailed,
        RetryEnds, BeginGeneration, Goes, counts, history, fields, Kill,
        ReaderLeaves, Reading, TypeOK, StoppedIsDown, NoUrl, None
<1>4. ASSUME NEW t \in Threads, LaunchChecks(t) \/ Popen(t) \/ LaunchFails(t) \/ Adopt(t) \/ Drop(t)
      PROVE  StoppedIsDown'
  BY <1>4, Numbers
    DEF LaunchChecks, Popen, LaunchFails, Adopt, Drop, Current, Goes, Leaves,
        AfterLaunch, fields, counts, history, TypeOK, StoppedIsDown, NoUrl, None
<1>5. ASSUME NEW p \in Procs, PrintsUrl(p) \/ PrintsReady(p) \/ PrintsReload(p) \/ PrintsError(p) \/ Exits(p)
      PROVE  StoppedIsDown'
  BY <1>5, Numbers
    DEF PrintsUrl, PrintsReady, PrintsReload, PrintsError, Exits, Goes, Read,
        Reading, Check, fields, counts, history, work, BeginGeneration, TypeOK,
        StoppedIsDown, NoUrl, None
<1>6. ASSUME NEW p \in Procs, ReaderEnds(p) \/ Respawn(p) \/ RespawnCannot(p)
      PROVE  StoppedIsDown'
  BY <1>6, Numbers
    DEF ReaderEnds, Respawn, RespawnCannot, Goes, Reading, counts, history,
        BeginGeneration, TypeOK, StoppedIsDown, NoUrl, None
<1>7. ASSUME NEW c \in checks, Probe(c) \/ Confirm(c) \/ GivesUp(c)
      PROVE  StoppedIsDown'
  BY <1>7, Numbers
    DEF Probe, Confirm, GivesUp, Wanted, fields, work, counts, history, TypeOK,
        StoppedIsDown, NoUrl, None
<1>8. CASE UNCHANGED vars
  BY <1>8
    DEF vars, fields, work, counts, history, TypeOK, StoppedIsDown, NoUrl, None
<1> QED
  BY <1>1, <1>2, <1>3, <1>4, <1>5, <1>6, <1>7, <1>8
    DEF Next, Callers, RetryStep, LaunchStep, ServerStep, ReaderStep, CheckStep

\* No step works for a generation to come.
LEMMA GenStep ==
    ASSUME TypeOK, GenInv, [Next]_vars
    PROVE  GenInv'
<1>1. CASE PollRetries \/ PersonRetries \/ Stop \/ IdleStop
  BY <1>1, Numbers
    DEF PollRetries, PersonRetries, Stop, IdleStop, Goes, history, Kill,
        ReaderLeaves, Reading, counts, Current, Launching, TypeOK, GenInv, Answers
<1>2. CASE StartIsStopped \/ StartHasNoStack \/ Start
  BY <1>2, Numbers
    DEF StartIsStopped, StartHasNoStack, Start, Goes, fields, counts, history, Kill,
        ReaderLeaves, Reading, TypeOK, GenInv, Answers
<1>3. CASE StartCannot \/ StartSettles \/ StartTimesOut \/ LateKill \/ MarkFailed \/ RetryEnds
  BY <1>3, Numbers
    DEF StartCannot, StartSettles, StartTimesOut, LateKill, MarkFailed, RetryEnds,
        Goes, counts, history, fields, Kill, ReaderLeaves, Reading, TypeOK, GenInv,
        Answers
<1>4. ASSUME NEW p \in Procs, PrintsUrl(p) \/ PrintsReady(p) \/ PrintsReload(p) \/ PrintsError(p) \/ Exits(p)
      PROVE  GenInv'
  BY <1>4, Numbers
    DEF PrintsUrl, PrintsReady, PrintsReload, PrintsError, Exits, Goes, Read,
        Reading, Check, fields, counts, history, work, BeginGeneration, TypeOK,
        GenInv, Answers
<1>5. ASSUME NEW p \in Procs, ReaderEnds(p) \/ RespawnCannot(p)
      PROVE  GenInv'
  BY <1>5, Numbers
    DEF ReaderEnds, RespawnCannot, Goes, Reading, counts, history, TypeOK, GenInv,
        Answers
<1>6. CASE SpawnReserved
  BY <1>6, Numbers
    DEF SpawnReserved, Goes, counts, history, TypeOK, GenInv, Answers
<1>7. CASE SpawnFresh
  BY <1>7, Numbers
    DEF SpawnFresh, BeginGeneration, Goes, counts, history, TypeOK, GenInv, Answers
<1>8. ASSUME NEW t \in Threads, LaunchChecks(t)
      PROVE  GenInv'
  BY <1>8, Numbers
    DEF LaunchChecks, Current, Goes, Leaves, AfterLaunch, fields, counts, history,
        TypeOK, GenInv, Answers
<1>9. ASSUME NEW t \in Threads, Popen(t)
      PROVE  GenInv'
  BY <1>9, Numbers
    DEF Popen, Goes, fields, counts, TypeOK, GenInv, Answers
<1>10. ASSUME NEW t \in Threads, LaunchFails(t)
      PROVE  GenInv'
  BY <1>10, Numbers
    DEF LaunchFails, Goes, fields, counts, history, TypeOK, GenInv, Answers
<1>11. ASSUME NEW t \in Threads, Adopt(t)
      PROVE  GenInv'
  BY <1>11, Numbers
    DEF Adopt, Current, Goes, AfterLaunch, counts, history, TypeOK, GenInv, Answers
<1>12. ASSUME NEW t \in Threads, Drop(t)
      PROVE  GenInv'
  BY <1>12, Numbers
    DEF Drop, Goes, AfterLaunch, fields, counts, history, TypeOK, GenInv, Answers
<1>13. ASSUME NEW p \in Procs, Respawn(p)
      PROVE  GenInv'
  BY <1>13, Numbers
    DEF Respawn, BeginGeneration, Goes, counts, history, TypeOK, GenInv, Answers
<1>14. ASSUME NEW c \in checks, Probe(c)
      PROVE  GenInv'
  BY <1>14, Numbers
    DEF Probe, Wanted, fields, work, counts, history, TypeOK, GenInv, Answers
<1>15. ASSUME NEW c \in checks, Confirm(c)
      PROVE  GenInv'
  BY <1>15, Numbers
    DEF Confirm, Wanted, work, counts, history, TypeOK, GenInv, Answers
<1>16. ASSUME NEW c \in checks, GivesUp(c)
      PROVE  GenInv'
  BY <1>16, Numbers
    DEF GivesUp, Wanted, work, counts, history, TypeOK, GenInv, Answers
<1>17. CASE UNCHANGED vars
  BY <1>17
    DEF vars, fields, work, counts, history, TypeOK, GenInv, Answers
<1> QED
  BY <1>1, <1>2, <1>3, <1>4, <1>5, <1>6, <1>7, <1>8, <1>9, <1>10, <1>11, <1>12,
      <1>13, <1>14, <1>15, <1>16, <1>17
    DEF Next, Callers, RetryStep, LaunchStep, ServerStep, ReaderStep, CheckStep

\* A reserved generation stays the retry thread's.
LEMMA ReservedStep ==
    ASSUME TypeOK, GenInv, ReservedInv, [Next]_vars
    PROVE  ReservedInv'
<1>1. ASSUME NEW p \in Procs, PrintsUrl(p) \/ PrintsReady(p) \/ PrintsReload(p) \/ PrintsError(p) \/ Exits(p)
      PROVE  ReservedInv'
  BY <1>1, Numbers
    DEF PrintsUrl, PrintsReady, PrintsReload, PrintsError, Exits, Goes, Read,
        Reading, Check, fields, counts, history, work, BeginGeneration, TypeOK,
        GenInv, ReservedInv, Launching, Idle
<1>2. ASSUME NEW c \in checks, Probe(c) \/ Confirm(c) \/ GivesUp(c)
      PROVE  ReservedInv'
  BY <1>2, Numbers
    DEF Probe, Confirm, GivesUp, Wanted, fields, work, counts, history, TypeOK,
        GenInv, ReservedInv, Launching, Idle
<1>3. ASSUME NEW p \in Procs, ReaderEnds(p) \/ RespawnCannot(p)
      PROVE  ReservedInv'
  BY <1>3, Numbers
    DEF ReaderEnds, RespawnCannot, Goes, Reading, counts, history, TypeOK, GenInv,
        ReservedInv, Launching, Idle
<1>4. CASE PollRetries
  BY <1>4, Numbers
    DEF PollRetries, Goes, history, TypeOK, GenInv, ReservedInv, Launching, Idle
<1>5. CASE PersonRetries
  BY <1>5, Numbers
    DEF PersonRetries, Kill, ReaderLeaves, Reading, TypeOK, GenInv, ReservedInv,
        Launching, Idle
<1>6. CASE Stop
  BY <1>6, Numbers
    DEF Stop, Kill, ReaderLeaves, Reading, counts, history, TypeOK, GenInv,
        ReservedInv, Launching, Idle
<1>7. CASE IdleStop
  BY <1>7, Numbers
    DEF IdleStop, Kill, ReaderLeaves, Reading, Current, Launching, counts, TypeOK,
        GenInv, ReservedInv, Idle
<1>8. CASE StartIsStopped
  BY <1>8, Numbers
    DEF StartIsStopped, Goes, fields, counts, history, TypeOK, GenInv, ReservedInv,
        Launching, Idle
<1>9. CASE StartHasNoStack
  BY <1>9, Numbers
    DEF StartHasNoStack, Goes, counts, history, TypeOK, GenInv, ReservedInv,
        Launching, Idle
<1>10. CASE Start
  BY <1>10, Numbers
    DEF Start, Kill, ReaderLeaves, Reading, counts, history, TypeOK, GenInv,
        ReservedInv, Launching, Idle
<1>11. CASE SpawnReserved
  BY <1>11, Numbers
    DEF SpawnReserved, Goes, counts, history, TypeOK, GenInv, ReservedInv,
        Launching, Idle
<1>12. CASE SpawnFresh
  BY <1>12, Numbers
    DEF SpawnFresh, BeginGeneration, Goes, counts, history, TypeOK, GenInv,
        ReservedInv, Launching, Idle
<1>13. CASE StartCannot
  BY <1>13, Numbers
    DEF StartCannot, Goes, counts, history, TypeOK, GenInv, ReservedInv, Launching,
        Idle
<1>14. CASE StartSettles
  BY <1>14, Numbers
    DEF StartSettles, Goes, fields, counts, history, TypeOK, GenInv, ReservedInv,
        Launching, Idle
<1>15. CASE StartTimesOut
  BY <1>15, Numbers
    DEF StartTimesOut, Goes, fields, counts, history, TypeOK, GenInv, ReservedInv,
        Launching, Idle
<1>16. CASE LateKill
  BY <1>16, Numbers
    DEF LateKill, Kill, ReaderLeaves, Reading, counts, history, TypeOK, GenInv,
        ReservedInv, Launching, Idle
<1>17. CASE MarkFailed
  BY <1>17, Numbers
    DEF MarkFailed, Goes, counts, history, TypeOK, GenInv, ReservedInv, Launching,
        Idle
<1>18. CASE RetryEnds
  BY <1>18, Numbers
    DEF RetryEnds, Goes, counts, history, TypeOK, GenInv, ReservedInv, Launching,
        Idle
<1>19. ASSUME NEW t \in Threads, LaunchChecks(t)
      PROVE  ReservedInv'
  BY <1>19, Numbers
    DEF LaunchChecks, Current, Goes, Leaves, AfterLaunch, fields, counts, history,
        TypeOK, GenInv, ReservedInv, Launching, Idle
<1>20. ASSUME NEW t \in Threads, Popen(t)
      PROVE  ReservedInv'
  BY <1>20, Numbers
    DEF Popen, Goes, fields, counts, TypeOK, GenInv, ReservedInv, Launching, Idle
<1>21. ASSUME NEW t \in Threads, LaunchFails(t)
      PROVE  ReservedInv'
  BY <1>21, Numbers
    DEF LaunchFails, Goes, fields, counts, history, TypeOK, GenInv, ReservedInv,
        Launching, Idle
<1>22. ASSUME NEW t \in Threads, Adopt(t)
      PROVE  ReservedInv'
  BY <1>22, Numbers
    DEF Adopt, Current, Goes, AfterLaunch, counts, history, TypeOK, GenInv,
        ReservedInv, Launching, Idle
<1>23. ASSUME NEW t \in Threads, Drop(t)
      PROVE  ReservedInv'
  BY <1>23, Numbers
    DEF Drop, Goes, AfterLaunch, fields, counts, history, TypeOK, GenInv,
        ReservedInv, Launching, Idle
<1>24. ASSUME NEW p \in Procs, Respawn(p)
      PROVE  ReservedInv'
  BY <1>24, Numbers
    DEF Respawn, BeginGeneration, Goes, counts, history, TypeOK, GenInv,
        ReservedInv, Launching, Idle
<1>25. CASE UNCHANGED vars
  BY <1>25
    DEF vars, fields, work, counts, history, TypeOK, GenInv, ReservedInv, Launching,
        Idle
<1> QED
  BY <1>1, <1>2, <1>3, <1>4, <1>5, <1>6, <1>7, <1>8, <1>9, <1>10, <1>11, <1>12,
      <1>13, <1>14, <1>15, <1>16, <1>17, <1>18, <1>19, <1>20, <1>21, <1>22, <1>23,
      <1>24, <1>25
    DEF Next, Callers, RetryStep, LaunchStep, ServerStep, ReaderStep, CheckStep

\* No step makes a second launch for the generation that counts.
LEMMA OneStep ==
    ASSUME TypeOK, GenInv, ReservedInv, OneLaunch, [Next]_vars
    PROVE  OneLaunch'
<1>1. ASSUME NEW p \in Procs, PrintsUrl(p) \/ PrintsReady(p) \/ PrintsReload(p) \/ PrintsError(p) \/ Exits(p)
      PROVE  OneLaunch'
  BY <1>1, Numbers
    DEF PrintsUrl, PrintsReady, PrintsReload, PrintsError, Exits, Goes, Read,
        Reading, Check, fields, counts, history, work, BeginGeneration, TypeOK,
        GenInv, ReservedInv, OneLaunch, Launching, Idle
<1>2. ASSUME NEW c \in checks, Probe(c) \/ Confirm(c) \/ GivesUp(c)
      PROVE  OneLaunch'
  BY <1>2, Numbers
    DEF Probe, Confirm, GivesUp, Wanted, fields, work, counts, history, TypeOK,
        GenInv, ReservedInv, OneLaunch, Launching, Idle
<1>3. ASSUME NEW p \in Procs, ReaderEnds(p) \/ RespawnCannot(p)
      PROVE  OneLaunch'
  BY <1>3, Numbers
    DEF ReaderEnds, RespawnCannot, Goes, Reading, counts, history, TypeOK, GenInv,
        ReservedInv, OneLaunch, Launching, Idle
<1>4. CASE PollRetries
  BY <1>4, Numbers
    DEF PollRetries, Goes, history, TypeOK, GenInv, ReservedInv, OneLaunch,
        Launching, Idle
<1>5. CASE PersonRetries
  BY <1>5, Numbers
    DEF PersonRetries, Kill, ReaderLeaves, Reading, TypeOK, GenInv, ReservedInv,
        OneLaunch, Launching, Idle
<1>6. CASE Stop
  BY <1>6, Numbers
    DEF Stop, Kill, ReaderLeaves, Reading, counts, history, TypeOK, GenInv,
        ReservedInv, OneLaunch, Launching, Idle
<1>7. CASE IdleStop
  BY <1>7, Numbers
    DEF IdleStop, Kill, ReaderLeaves, Reading, Current, Launching, counts, TypeOK,
        GenInv, ReservedInv, OneLaunch, Idle
<1>8. CASE StartIsStopped
  BY <1>8, Numbers
    DEF StartIsStopped, Goes, fields, counts, history, TypeOK, GenInv, ReservedInv,
        OneLaunch, Launching, Idle
<1>9. CASE StartHasNoStack
  BY <1>9, Numbers
    DEF StartHasNoStack, Goes, counts, history, TypeOK, GenInv, ReservedInv,
        OneLaunch, Launching, Idle
<1>10. CASE Start
  BY <1>10, Numbers
    DEF Start, Kill, ReaderLeaves, Reading, counts, history, TypeOK, GenInv,
        ReservedInv, OneLaunch, Launching, Idle
<1>11. CASE SpawnReserved
  BY <1>11, Numbers
    DEF SpawnReserved, Goes, counts, history, TypeOK, GenInv, ReservedInv,
        OneLaunch, Launching, Idle
<1>12. CASE SpawnFresh
  BY <1>12, Numbers
    DEF SpawnFresh, BeginGeneration, Goes, counts, history, TypeOK, GenInv,
        ReservedInv, OneLaunch, Launching, Idle
<1>13. CASE StartCannot
  BY <1>13, Numbers
    DEF StartCannot, Goes, counts, history, TypeOK, GenInv, ReservedInv, OneLaunch,
        Launching, Idle
<1>14. CASE StartSettles
  BY <1>14, Numbers
    DEF StartSettles, Goes, fields, counts, history, TypeOK, GenInv, ReservedInv,
        OneLaunch, Launching, Idle
<1>15. CASE StartTimesOut
  BY <1>15, Numbers
    DEF StartTimesOut, Goes, fields, counts, history, TypeOK, GenInv, ReservedInv,
        OneLaunch, Launching, Idle
<1>16. CASE LateKill
  BY <1>16, Numbers
    DEF LateKill, Kill, ReaderLeaves, Reading, counts, history, TypeOK, GenInv,
        ReservedInv, OneLaunch, Launching, Idle
<1>17. CASE MarkFailed
  BY <1>17, Numbers
    DEF MarkFailed, Goes, counts, history, TypeOK, GenInv, ReservedInv, OneLaunch,
        Launching, Idle
<1>18. CASE RetryEnds
  BY <1>18, Numbers
    DEF RetryEnds, Goes, counts, history, TypeOK, GenInv, ReservedInv, OneLaunch,
        Launching, Idle
<1>19. ASSUME NEW t \in Threads, LaunchChecks(t)
      PROVE  OneLaunch'
  BY <1>19, Numbers
    DEF LaunchChecks, Current, Goes, Leaves, AfterLaunch, fields, counts, history,
        TypeOK, GenInv, ReservedInv, OneLaunch, Launching, Idle
<1>20. ASSUME NEW t \in Threads, Popen(t)
      PROVE  OneLaunch'
  BY <1>20, Numbers
    DEF Popen, Goes, fields, counts, TypeOK, GenInv, ReservedInv, OneLaunch,
        Launching, Idle
<1>21. ASSUME NEW t \in Threads, LaunchFails(t)
      PROVE  OneLaunch'
  BY <1>21, Numbers
    DEF LaunchFails, Goes, fields, counts, history, TypeOK, GenInv, ReservedInv,
        OneLaunch, Launching, Idle
<1>22. ASSUME NEW t \in Threads, Adopt(t)
      PROVE  OneLaunch'
  BY <1>22, Numbers
    DEF Adopt, Current, Goes, AfterLaunch, counts, history, TypeOK, GenInv,
        ReservedInv, OneLaunch, Launching, Idle
<1>23. ASSUME NEW t \in Threads, Drop(t)
      PROVE  OneLaunch'
  <2>1. /\ mine' = mine /\ gen' = gen
        /\ \A u \in Threads : at'[u] = at[u] \/ at'[u] \in {"wait", "off"}
    BY <1>23, Numbers DEF Drop, Goes, AfterLaunch, TypeOK, fields, Idle
  <2> QED
    BY <2>1 DEF OneLaunch, Launching
<1>24. ASSUME NEW p \in Procs, Respawn(p)
      PROVE  OneLaunch'
  BY <1>24, Numbers
    DEF Respawn, BeginGeneration, Goes, counts, history, TypeOK, GenInv,
        ReservedInv, OneLaunch, Launching, Idle
<1>25. CASE UNCHANGED vars
  BY <1>25
    DEF vars, fields, work, counts, history, TypeOK, GenInv, ReservedInv, OneLaunch,
        Launching, Idle
<1> QED
  BY <1>1, <1>2, <1>3, <1>4, <1>5, <1>6, <1>7, <1>8, <1>9, <1>10, <1>11, <1>12,
      <1>13, <1>14, <1>15, <1>16, <1>17, <1>18, <1>19, <1>20, <1>21, <1>22, <1>23,
      <1>24, <1>25
    DEF Next, Callers, RetryStep, LaunchStep, ServerStep, ReaderStep, CheckStep

\* Only started processes are served, read or restarted.
LEMMA BirthStep ==
    ASSUME TypeOK, BirthInv, ChildInv, [Next]_vars
    PROVE  BirthInv'
<1>1. ASSUME NEW p \in Procs, PrintsReady(p) \/ PrintsReload(p) \/ PrintsError(p)
      PROVE  BirthInv'
  BY <1>1, Numbers
    DEF PrintsReady, PrintsReload, PrintsError, Read, Reading, Check, fields, work,
        counts, history, BeginGeneration, TypeOK, BirthInv, ChildInv, Idle, None
<1>2. ASSUME NEW c \in checks, Probe(c) \/ Confirm(c) \/ GivesUp(c)
      PROVE  BirthInv'
  BY <1>2, Numbers
    DEF Probe, Confirm, GivesUp, Wanted, fields, work, counts, history, TypeOK,
        BirthInv, ChildInv, Idle, None
<1>3. CASE PollRetries
  BY <1>3, Numbers
    DEF PollRetries, Goes, history, TypeOK, BirthInv, ChildInv, Idle, None
<1>4. CASE PersonRetries
  BY <1>4, Numbers
    DEF PersonRetries, Kill, ReaderLeaves, Reading, TypeOK, BirthInv, ChildInv,
        Idle, None
<1>5. CASE Stop
  BY <1>5, Numbers
    DEF Stop, Kill, ReaderLeaves, Reading, counts, history, TypeOK, BirthInv,
        ChildInv, Idle, None
<1>6. CASE IdleStop
  BY <1>6, Numbers
    DEF IdleStop, Kill, ReaderLeaves, Reading, Current, Launching, counts, TypeOK,
        BirthInv, ChildInv, Idle, None
<1>7. CASE StartIsStopped
  BY <1>7, Numbers
    DEF StartIsStopped, Goes, fields, counts, history, TypeOK, BirthInv, ChildInv,
        Idle, None
<1>8. CASE StartHasNoStack
  BY <1>8, Numbers
    DEF StartHasNoStack, Goes, counts, history, TypeOK, BirthInv, ChildInv, Idle,
        None
<1>9. CASE Start
  BY <1>9, Numbers
    DEF Start, Kill, ReaderLeaves, Reading, counts, history, TypeOK, BirthInv,
        ChildInv, Idle, None
<1>10. CASE SpawnReserved
  BY <1>10, Numbers
    DEF SpawnReserved, Goes, counts, history, TypeOK, BirthInv, ChildInv, Idle, None
<1>11. CASE SpawnFresh
  BY <1>11, Numbers
    DEF SpawnFresh, BeginGeneration, Goes, counts, history, TypeOK, BirthInv,
        ChildInv, Idle, None
<1>12. CASE StartCannot
  BY <1>12, Numbers
    DEF StartCannot, Goes, counts, history, TypeOK, BirthInv, ChildInv, Idle, None
<1>13. CASE StartSettles
  BY <1>13, Numbers
    DEF StartSettles, Goes, fields, counts, history, TypeOK, BirthInv, ChildInv,
        Idle, None
<1>14. CASE StartTimesOut
  BY <1>14, Numbers
    DEF StartTimesOut, Goes, fields, counts, history, TypeOK, BirthInv, ChildInv,
        Idle, None
<1>15. CASE LateKill
  BY <1>15, Numbers
    DEF LateKill, Kill, ReaderLeaves, Reading, counts, history, TypeOK, BirthInv,
        ChildInv, Idle, None
<1>16. CASE MarkFailed
  BY <1>16, Numbers
    DEF MarkFailed, Goes, counts, history, TypeOK, BirthInv, ChildInv, Idle, None
<1>17. CASE RetryEnds
  BY <1>17, Numbers
    DEF RetryEnds, Goes, counts, history, TypeOK, BirthInv, ChildInv, Idle, None
<1>18. ASSUME NEW t \in Threads, LaunchChecks(t)
      PROVE  BirthInv'
  BY <1>18, Numbers
    DEF LaunchChecks, Current, Goes, Leaves, AfterLaunch, fields, counts, history,
        TypeOK, BirthInv, ChildInv, Idle, None
<1>19. ASSUME NEW t \in Threads, Popen(t)
      PROVE  BirthInv'
  BY <1>19, Numbers
    DEF Popen, Goes, fields, counts, TypeOK, BirthInv, ChildInv, Idle, None
<1>20. ASSUME NEW t \in Threads, LaunchFails(t)
      PROVE  BirthInv'
  BY <1>20, Numbers
    DEF LaunchFails, Goes, fields, counts, history, TypeOK, BirthInv, ChildInv,
        Idle, None
<1>21. ASSUME NEW t \in Threads, Adopt(t)
      PROVE  BirthInv'
  BY <1>21, Numbers
    DEF Adopt, Current, Goes, AfterLaunch, counts, history, TypeOK, BirthInv,
        ChildInv, Idle, None
<1>22. ASSUME NEW t \in Threads, Drop(t)
      PROVE  BirthInv'
  BY <1>22, Numbers
    DEF Drop, Goes, AfterLaunch, fields, counts, history, TypeOK, BirthInv,
        ChildInv, Idle, None
<1>23. ASSUME NEW p \in Procs, PrintsUrl(p)
      PROVE  BirthInv'
  BY <1>23, Numbers
    DEF PrintsUrl, Goes, Read, Reading, Check, fields, counts, history, TypeOK,
        BirthInv, ChildInv, Idle, None
<1>24. ASSUME NEW p \in Procs, Exits(p)
      PROVE  BirthInv'
  BY <1>24, Numbers
    DEF Exits, fields, work, counts, history, TypeOK, BirthInv, ChildInv, Idle, None
<1>25. ASSUME NEW p \in Procs, ReaderEnds(p)
      PROVE  BirthInv'
  <2>1. (proc # None => life[proc] # "unborn")'
    BY <1>25, Numbers
      DEF ReaderEnds, Goes, Reading, counts, history, TypeOK, BirthInv, ChildInv,
          Idle, None, ThreadStates
  <2>2. (\A q \in Procs : at[q] # Idle => life[q] # "unborn")'
    BY <1>25, Numbers
      DEF ReaderEnds, Goes, Reading, counts, history, TypeOK, BirthInv, ChildInv,
          Idle, None, ThreadStates
  <2>3. (\A q \in Procs : at[q] = "spawn" => life[q] = "over")'
    BY <1>25, Numbers
      DEF ReaderEnds, Goes, Reading, counts, history, TypeOK, BirthInv, ChildInv,
          Idle, None, ThreadStates
  <2> QED
    BY <2>1, <2>2, <2>3
      DEF BirthInv
<1>26. ASSUME NEW p \in Procs, Respawn(p)
      PROVE  BirthInv'
  BY <1>26, Numbers
    DEF Respawn, BeginGeneration, Goes, counts, history, TypeOK, BirthInv, ChildInv,
        Idle, None
<1>27. ASSUME NEW p \in Procs, RespawnCannot(p)
      PROVE  BirthInv'
  BY <1>27, Numbers
    DEF RespawnCannot, Goes, counts, history, TypeOK, BirthInv, ChildInv, Idle, None
<1>28. CASE UNCHANGED vars
  BY <1>28
    DEF vars, fields, work, counts, history, TypeOK, BirthInv, ChildInv, Idle, None
<1> QED
  BY <1>1, <1>2, <1>3, <1>4, <1>5, <1>6, <1>7, <1>8, <1>9, <1>10, <1>11, <1>12,
      <1>13, <1>14, <1>15, <1>16, <1>17, <1>18, <1>19, <1>20, <1>21, <1>22, <1>23,
      <1>24, <1>25, <1>26, <1>27, <1>28
    DEF Next, Callers, RetryStep, LaunchStep, ServerStep, ReaderStep, CheckStep

\* Every child stays its thread's own.
LEMMA ChildStep ==
    ASSUME TypeOK, BirthInv, ChildInv, [Next]_vars
    PROVE  ChildInv'
<1>1. ASSUME NEW p \in Procs, PrintsReady(p) \/ PrintsReload(p) \/ PrintsError(p)
      PROVE  ChildInv'
  BY <1>1, Numbers
    DEF PrintsReady, PrintsReload, PrintsError, Read, Reading, Check, fields, work,
        counts, history, BeginGeneration, TypeOK, BirthInv, ChildInv, Idle, None
<1>2. ASSUME NEW c \in checks, Probe(c) \/ Confirm(c) \/ GivesUp(c)
      PROVE  ChildInv'
  BY <1>2, Numbers
    DEF Probe, Confirm, GivesUp, Wanted, fields, work, counts, history, TypeOK,
        BirthInv, ChildInv, Idle, None
<1>3. CASE PollRetries
  <2>1. (\A u \in Threads : child[u] # None <=> at[u] \in {"adopt", "drop"})'
    BY <1>3, Numbers
      DEF PollRetries, Goes, history, TypeOK, BirthInv, ChildInv, Idle, None,
          ThreadStates
  <2>2. (\A u \in Threads : at[u] = "adopt" => bornIn[child[u]] = mine[u])'
    BY <1>3, Numbers
      DEF PollRetries, Goes, history, TypeOK, BirthInv, ChildInv, Idle, None,
          ThreadStates
  <2>3. (\A u \in Threads : child[u] # None =>
           life[child[u]] # "unborn" /\ at[child[u]] = Idle /\ child[u] # proc)'
    BY <1>3, Numbers
      DEF PollRetries, Goes, history, TypeOK, BirthInv, ChildInv, Idle, None,
          ThreadStates
  <2>4. (\A u, w \in Threads : child[u] # None /\ child[u] = child[w] => u = w)'
    BY <1>3, Numbers
      DEF PollRetries, Goes, history, TypeOK, BirthInv, ChildInv, Idle, None,
          ThreadStates
  <2> QED
    BY <2>1, <2>2, <2>3, <2>4
      DEF ChildInv
<1>4. CASE PersonRetries
  BY <1>4, Numbers
    DEF PersonRetries, Kill, ReaderLeaves, Reading, TypeOK, BirthInv, ChildInv,
        Idle, None
<1>5. CASE Stop
  BY <1>5, Numbers
    DEF Stop, Kill, ReaderLeaves, Reading, counts, history, TypeOK, BirthInv,
        ChildInv, Idle, None
<1>6. CASE IdleStop
  BY <1>6, Numbers
    DEF IdleStop, Kill, ReaderLeaves, Reading, Current, Launching, counts, TypeOK,
        BirthInv, ChildInv, Idle, None
<1>7. CASE StartIsStopped
  BY <1>7, Numbers
    DEF StartIsStopped, Goes, fields, counts, history, TypeOK, BirthInv, ChildInv,
        Idle, None
<1>8. CASE StartHasNoStack
  BY <1>8, Numbers
    DEF StartHasNoStack, Goes, counts, history, TypeOK, BirthInv, ChildInv, Idle,
        None
<1>9. CASE Start
  BY <1>9, Numbers
    DEF Start, Kill, ReaderLeaves, Reading, counts, history, TypeOK, BirthInv,
        ChildInv, Idle, None
<1>10. CASE SpawnReserved
  <2>1. (\A u \in Threads : child[u] # None <=> at[u] \in {"adopt", "drop"})'
    BY <1>10, Numbers
      DEF SpawnReserved, Goes, counts, history, TypeOK, BirthInv, ChildInv, Idle,
          None, ThreadStates
  <2>2. (\A u \in Threads : at[u] = "adopt" => bornIn[child[u]] = mine[u])'
    BY <1>10, Numbers
      DEF SpawnReserved, Goes, counts, history, TypeOK, BirthInv, ChildInv, Idle,
          None, ThreadStates
  <2>3. (\A u \in Threads : child[u] # None =>
           life[child[u]] # "unborn" /\ at[child[u]] = Idle /\ child[u] # proc)'
    <3>1. /\ child' = child /\ life' = life /\ proc' = proc
          /\ \A u \in Threads : at[u] = Idle => at'[u] = Idle
      BY
        <1>10, Numbers
        DEF SpawnReserved, Goes, counts, history, TypeOK, Idle
    <3> SUFFICES ASSUME NEW u \in Threads, child[u] # None
                 PROVE  life[child[u]] # "unborn" /\ at'[child[u]] = Idle /\ child[u] # proc
      BY <3>1
    <3>2. child[u] \in Threads /\ life[child[u]] # "unborn" /\ at[child[u]] = Idle /\ child[u] # proc
      BY DEF ChildInv, TypeOK
    <3> QED
      BY <3>1, <3>2
  <2>4. (\A u, w \in Threads : child[u] # None /\ child[u] = child[w] => u = w)'
    BY <1>10, Numbers
      DEF SpawnReserved, Goes, counts, history, TypeOK, BirthInv, ChildInv, Idle,
          None, ThreadStates
  <2> QED
    BY <2>1, <2>2, <2>3, <2>4
      DEF ChildInv
<1>11. CASE SpawnFresh
  <2>1. (\A u \in Threads : child[u] # None <=> at[u] \in {"adopt", "drop"})'
    BY <1>11, Numbers
      DEF SpawnFresh, BeginGeneration, Goes, counts, history, TypeOK, BirthInv,
          ChildInv, Idle, None, ThreadStates
  <2>2. (\A u \in Threads : at[u] = "adopt" => bornIn[child[u]] = mine[u])'
    BY <1>11, Numbers
      DEF SpawnFresh, BeginGeneration, Goes, counts, history, TypeOK, BirthInv,
          ChildInv, Idle, None, ThreadStates
  <2>3. (\A u \in Threads : child[u] # None =>
           life[child[u]] # "unborn" /\ at[child[u]] = Idle /\ child[u] # proc)'
    <3>1. /\ child' = child /\ life' = life /\ proc' = proc
          /\ \A u \in Threads : at[u] = Idle => at'[u] = Idle
      BY
        <1>11, Numbers
        DEF SpawnFresh, BeginGeneration, Goes, counts, history, TypeOK, Idle
    <3> SUFFICES ASSUME NEW u \in Threads, child[u] # None
                 PROVE  life[child[u]] # "unborn" /\ at'[child[u]] = Idle /\ child[u] # proc
      BY <3>1
    <3>2. child[u] \in Threads /\ life[child[u]] # "unborn" /\ at[child[u]] = Idle /\ child[u] # proc
      BY DEF ChildInv, TypeOK
    <3> QED
      BY <3>1, <3>2
  <2>4. (\A u, w \in Threads : child[u] # None /\ child[u] = child[w] => u = w)'
    BY <1>11, Numbers
      DEF SpawnFresh, BeginGeneration, Goes, counts, history, TypeOK, BirthInv,
          ChildInv, Idle, None, ThreadStates
  <2> QED
    BY <2>1, <2>2, <2>3, <2>4
      DEF ChildInv
<1>12. CASE StartCannot
  BY <1>12, Numbers
    DEF StartCannot, Goes, counts, history, TypeOK, BirthInv, ChildInv, Idle, None
<1>13. CASE StartSettles
  BY <1>13, Numbers
    DEF StartSettles, Goes, fields, counts, history, TypeOK, BirthInv, ChildInv,
        Idle, None
<1>14. CASE StartTimesOut
  BY <1>14, Numbers
    DEF StartTimesOut, Goes, fields, counts, history, TypeOK, BirthInv, ChildInv,
        Idle, None
<1>15. CASE LateKill
  BY <1>15, Numbers
    DEF LateKill, Kill, ReaderLeaves, Reading, counts, history, TypeOK, BirthInv,
        ChildInv, Idle, None
<1>16. CASE MarkFailed
  BY <1>16, Numbers
    DEF MarkFailed, Goes, counts, history, TypeOK, BirthInv, ChildInv, Idle, None
<1>17. CASE RetryEnds
  BY <1>17, Numbers
    DEF RetryEnds, Goes, counts, history, TypeOK, BirthInv, ChildInv, Idle, None
<1>18. ASSUME NEW t \in Threads, LaunchChecks(t)
      PROVE  ChildInv'
  <2>1. (\A u \in Threads : child[u] # None <=> at[u] \in {"adopt", "drop"})'
    BY <1>18, Numbers
      DEF LaunchChecks, Current, Goes, Leaves, AfterLaunch, fields, counts, history,
          TypeOK, BirthInv, ChildInv, Idle, None, ThreadStates
  <2>2. (\A u \in Threads : at[u] = "adopt" => bornIn[child[u]] = mine[u])'
    BY <1>18, Numbers
      DEF LaunchChecks, Current, Goes, Leaves, AfterLaunch, fields, counts, history,
          TypeOK, BirthInv, ChildInv, Idle, None, ThreadStates
  <2>3. (\A u \in Threads : child[u] # None =>
           life[child[u]] # "unborn" /\ at[child[u]] = Idle /\ child[u] # proc)'
    <3>1. /\ child' = child /\ life' = life /\ proc' = proc
          /\ \A u \in Threads : at[u] = Idle => at'[u] = Idle
      BY
        <1>18, Numbers
        DEF LaunchChecks, Current, Goes, Leaves, AfterLaunch, fields, counts,
          history, TypeOK, Idle
    <3> SUFFICES ASSUME NEW u \in Threads, child[u] # None
                 PROVE  life[child[u]] # "unborn" /\ at'[child[u]] = Idle /\ child[u] # proc
      BY <3>1
    <3>2. child[u] \in Threads /\ life[child[u]] # "unborn" /\ at[child[u]] = Idle /\ child[u] # proc
      BY DEF ChildInv, TypeOK
    <3> QED
      BY <3>1, <3>2
  <2>4. (\A u, w \in Threads : child[u] # None /\ child[u] = child[w] => u = w)'
    BY <1>18, Numbers
      DEF LaunchChecks, Current, Goes, Leaves, AfterLaunch, fields, counts, history,
          TypeOK, BirthInv, ChildInv, Idle, None, ThreadStates
  <2> QED
    BY <2>1, <2>2, <2>3, <2>4
      DEF ChildInv
<1>19. ASSUME NEW t \in Threads, Popen(t)
      PROVE  ChildInv'
  BY <1>19, Numbers
    DEF Popen, Goes, fields, counts, TypeOK, BirthInv, ChildInv, Idle, None
<1>20. ASSUME NEW t \in Threads, LaunchFails(t)
      PROVE  ChildInv'
  BY <1>20, Numbers
    DEF LaunchFails, Goes, fields, counts, history, TypeOK, BirthInv, ChildInv,
        Idle, None
<1>21. ASSUME NEW t \in Threads, Adopt(t)
      PROVE  ChildInv'
  <2>1. (\A u \in Threads : child[u] # None <=> at[u] \in {"adopt", "drop"})'
    BY <1>21, Numbers
      DEF Adopt, Current, Goes, AfterLaunch, counts, history, TypeOK, BirthInv,
          ChildInv, Idle, None, ThreadStates
  <2>2. (\A u \in Threads : at[u] = "adopt" => bornIn[child[u]] = mine[u])'
    BY <1>21, Numbers
      DEF Adopt, Current, Goes, AfterLaunch, counts, history, TypeOK, BirthInv,
          ChildInv, Idle, None, ThreadStates
  <2>3. (\A u \in Threads : child[u] # None =>
           life[child[u]] # "unborn" /\ at[child[u]] = Idle /\ child[u] # proc)'
    <3>1. CASE Current(t)
      <4>1. /\ child' = [child EXCEPT ![t] = None] /\ proc' = child[t] /\ life' = life
            /\ at' = [at EXCEPT ![t] = AfterLaunch(t), ![child[t]] = "read"]
        BY <1>21, <3>1, Zenon DEF Adopt
      <4>2. /\ at[t] = "adopt" /\ child[t] \in Threads
            /\ \A u \in Threads : child[u] \in Threads
        BY <1>21 DEF Adopt, TypeOK
      <4> SUFFICES ASSUME NEW u \in Threads, child'[u] # None
                   PROVE  life[child[u]] # "unborn" /\ at'[child[u]] = Idle
                          /\ child'[u] = child[u] /\ child[u] # child[t]
        BY <4>1 DEF Idle
      <4>3. u # t /\ child'[u] = child[u]
        BY <4>1, <4>2 DEF TypeOK
      <4>4. child[u] # child[t] /\ child[u] # t /\ at[child[u]] = Idle /\ life[child[u]] # "unborn"
        BY <4>2, <4>3 DEF ChildInv, Idle
      <4> QED
        BY <4>1, <4>2, <4>3, <4>4 DEF TypeOK, Idle
    <3>2. CASE ~Current(t)
      <4>1. /\ child' = child /\ life' = life /\ proc' = proc
            /\ \A u \in Threads : at[u] = Idle => at'[u] = Idle
        BY <1>21, <3>2 DEF Adopt, Goes, counts, history, TypeOK, Idle
      <4> SUFFICES ASSUME NEW u \in Threads, child[u] # None
                   PROVE  life[child[u]] # "unborn" /\ at'[child[u]] = Idle /\ child[u] # proc
        BY <4>1
      <4>2. /\ child[u] \in Threads /\ life[child[u]] # "unborn"
            /\ at[child[u]] = Idle /\ child[u] # proc
        BY DEF ChildInv, TypeOK
      <4> QED
        BY <4>1, <4>2
    <3> QED
      BY <3>1, <3>2
  <2>4. (\A u, w \in Threads : child[u] # None /\ child[u] = child[w] => u = w)'
    BY <1>21, Numbers
      DEF Adopt, Current, Goes, AfterLaunch, counts, history, TypeOK, BirthInv,
          ChildInv, Idle, None, ThreadStates
  <2> QED
    BY <2>1, <2>2, <2>3, <2>4
      DEF ChildInv
<1>22. ASSUME NEW t \in Threads, Drop(t)
      PROVE  ChildInv'
  BY <1>22, Numbers
    DEF Drop, Goes, AfterLaunch, fields, counts, history, TypeOK, BirthInv,
        ChildInv, Idle, None
<1>23. ASSUME NEW p \in Procs, PrintsUrl(p)
      PROVE  ChildInv'
  BY <1>23, Numbers
    DEF PrintsUrl, Goes, Read, Reading, Check, fields, counts, history, TypeOK,
        BirthInv, ChildInv, Idle, None
<1>24. ASSUME NEW p \in Procs, Exits(p)
      PROVE  ChildInv'
  BY <1>24, Numbers
    DEF Exits, fields, work, counts, history, TypeOK, BirthInv, ChildInv, Idle, None
<1>25. ASSUME NEW p \in Procs, ReaderEnds(p)
      PROVE  ChildInv'
  <2>1. (\A u \in Threads : child[u] # None <=> at[u] \in {"adopt", "drop"})'
    BY <1>25, Numbers
      DEF ReaderEnds, Goes, Reading, counts, history, TypeOK, BirthInv, ChildInv,
          Idle, None, ThreadStates
  <2>2. (\A u \in Threads : at[u] = "adopt" => bornIn[child[u]] = mine[u])'
    BY <1>25, Numbers
      DEF ReaderEnds, Goes, Reading, counts, history, TypeOK, BirthInv, ChildInv,
          Idle, None, ThreadStates
  <2>3. (\A u \in Threads : child[u] # None =>
           life[child[u]] # "unborn" /\ at[child[u]] = Idle /\ child[u] # proc)'
    <3>1. /\ child' = child /\ life' = life /\ proc' = proc
          /\ \A u \in Threads : at[u] = Idle => at'[u] = Idle
      BY
        <1>25, Numbers
        DEF ReaderEnds, Goes, Reading, counts, history, TypeOK, Idle
    <3> SUFFICES ASSUME NEW u \in Threads, child[u] # None
                 PROVE  life[child[u]] # "unborn" /\ at'[child[u]] = Idle /\ child[u] # proc
      BY <3>1
    <3>2. child[u] \in Threads /\ life[child[u]] # "unborn" /\ at[child[u]] = Idle /\ child[u] # proc
      BY DEF ChildInv, TypeOK
    <3> QED
      BY <3>1, <3>2
  <2>4. (\A u, w \in Threads : child[u] # None /\ child[u] = child[w] => u = w)'
    BY <1>25, Numbers
      DEF ReaderEnds, Goes, Reading, counts, history, TypeOK, BirthInv, ChildInv,
          Idle, None, ThreadStates
  <2> QED
    BY <2>1, <2>2, <2>3, <2>4
      DEF ChildInv
<1>26. ASSUME NEW p \in Procs, Respawn(p)
      PROVE  ChildInv'
  <2>1. (\A u \in Threads : child[u] # None <=> at[u] \in {"adopt", "drop"})'
    BY <1>26, Numbers
      DEF Respawn, BeginGeneration, Goes, counts, history, TypeOK, BirthInv,
          ChildInv, Idle, None, ThreadStates
  <2>2. (\A u \in Threads : at[u] = "adopt" => bornIn[child[u]] = mine[u])'
    BY <1>26, Numbers
      DEF Respawn, BeginGeneration, Goes, counts, history, TypeOK, BirthInv,
          ChildInv, Idle, None, ThreadStates
  <2>3. (\A u \in Threads : child[u] # None =>
           life[child[u]] # "unborn" /\ at[child[u]] = Idle /\ child[u] # proc)'
    <3>1. /\ child' = child /\ life' = life /\ proc' = proc
          /\ \A u \in Threads : at[u] = Idle => at'[u] = Idle
      BY
        <1>26, Numbers
        DEF Respawn, BeginGeneration, Goes, counts, history, TypeOK, Idle
    <3> SUFFICES ASSUME NEW u \in Threads, child[u] # None
                 PROVE  life[child[u]] # "unborn" /\ at'[child[u]] = Idle /\ child[u] # proc
      BY <3>1
    <3>2. child[u] \in Threads /\ life[child[u]] # "unborn" /\ at[child[u]] = Idle /\ child[u] # proc
      BY DEF ChildInv, TypeOK
    <3> QED
      BY <3>1, <3>2
  <2>4. (\A u, w \in Threads : child[u] # None /\ child[u] = child[w] => u = w)'
    BY <1>26, Numbers
      DEF Respawn, BeginGeneration, Goes, counts, history, TypeOK, BirthInv,
          ChildInv, Idle, None, ThreadStates
  <2> QED
    BY <2>1, <2>2, <2>3, <2>4
      DEF ChildInv
<1>27. ASSUME NEW p \in Procs, RespawnCannot(p)
      PROVE  ChildInv'
  BY <1>27, Numbers
    DEF RespawnCannot, Goes, counts, history, TypeOK, BirthInv, ChildInv, Idle, None
<1>28. CASE UNCHANGED vars
  BY <1>28
    DEF vars, fields, work, counts, history, TypeOK, BirthInv, ChildInv, Idle, None
<1> QED
  BY <1>1, <1>2, <1>3, <1>4, <1>5, <1>6, <1>7, <1>8, <1>9, <1>10, <1>11, <1>12,
      <1>13, <1>14, <1>15, <1>16, <1>17, <1>18, <1>19, <1>20, <1>21, <1>22, <1>23,
      <1>24, <1>25, <1>26, <1>27, <1>28
    DEF Next, Callers, RetryStep, LaunchStep, ServerStep, ReaderStep, CheckStep

\* No step serves the URL of no process.
LEMMA UpStep ==
    ASSUME TypeOK, UpInv, [Next]_vars
    PROVE  UpInv'
<1>1. CASE PollRetries \/ PersonRetries \/ Stop \/ IdleStop
  BY <1>1, Numbers
    DEF PollRetries, PersonRetries, Stop, IdleStop, Goes, history, Kill,
        ReaderLeaves, Reading, counts, Current, Launching, TypeOK, UpInv, NoUrl,
        None, Answers
<1>2. CASE StartIsStopped \/ StartHasNoStack \/ Start \/ SpawnReserved
  BY <1>2, Numbers
    DEF StartIsStopped, StartHasNoStack, Start, SpawnReserved, Goes, fields, counts,
        history, Kill, ReaderLeaves, Reading, TypeOK, UpInv, NoUrl, None, Answers
<1>3. CASE SpawnFresh \/ StartCannot \/ StartSettles \/ StartTimesOut \/ LateKill \/ MarkFailed \/ RetryEnds
  BY <1>3, Numbers
    DEF SpawnFresh, StartCannot, StartSettles, StartTimesOut, LateKill, MarkFailed,
        RetryEnds, BeginGeneration, Goes, counts, history, fields, Kill,
        ReaderLeaves, Reading, TypeOK, UpInv, NoUrl, None, Answers
<1>4. ASSUME NEW t \in Threads, LaunchChecks(t) \/ Popen(t) \/ LaunchFails(t) \/ Adopt(t) \/ Drop(t)
      PROVE  UpInv'
  BY <1>4, Numbers
    DEF LaunchChecks, Popen, LaunchFails, Adopt, Drop, Current, Goes, Leaves,
        AfterLaunch, fields, counts, history, TypeOK, UpInv, NoUrl, None, Answers
<1>5. ASSUME NEW p \in Procs, PrintsUrl(p) \/ PrintsReady(p) \/ PrintsReload(p) \/ PrintsError(p) \/ Exits(p)
      PROVE  UpInv'
  BY <1>5, Numbers
    DEF PrintsUrl, PrintsReady, PrintsReload, PrintsError, Exits, Goes, Read,
        Reading, Check, fields, counts, history, work, BeginGeneration, TypeOK,
        UpInv, NoUrl, None, Answers
<1>6. ASSUME NEW p \in Procs, ReaderEnds(p) \/ Respawn(p) \/ RespawnCannot(p)
      PROVE  UpInv'
  BY <1>6, Numbers
    DEF ReaderEnds, Respawn, RespawnCannot, Goes, Reading, counts, history,
        BeginGeneration, TypeOK, UpInv, NoUrl, None, Answers
<1>7. ASSUME NEW c \in checks, Probe(c) \/ Confirm(c) \/ GivesUp(c)
      PROVE  UpInv'
  BY <1>7, Numbers
    DEF Probe, Confirm, GivesUp, Wanted, fields, work, counts, history, TypeOK,
        UpInv, NoUrl, None, Answers
<1>8. CASE UNCHANGED vars
  BY <1>8
    DEF vars, fields, work, counts, history, TypeOK, UpInv, NoUrl, None, Answers
<1> QED
  BY <1>1, <1>2, <1>3, <1>4, <1>5, <1>6, <1>7, <1>8
    DEF Next, Callers, RetryStep, LaunchStep, ServerStep, ReaderStep, CheckStep

\* Nothing starts to run unasked.
LEMMA RequestStep ==
    ASSUME TypeOK, StoppedIsDown, GenInv, RequestInv, [Next]_vars
    PROVE  RequestInv'
<1>1. ASSUME NEW p \in Procs, PrintsReady(p) \/ PrintsReload(p) \/ PrintsError(p)
      PROVE  RequestInv'
  BY <1>1, Numbers
    DEF PrintsReady, PrintsReload, PrintsError, Read, Reading, Check, fields, work,
        counts, history, BeginGeneration, TypeOK, StoppedIsDown, GenInv, RequestInv,
        Live, Vacant, Current, Launching, Idle, None
<1>2. ASSUME NEW c \in checks, Probe(c) \/ Confirm(c) \/ GivesUp(c)
      PROVE  RequestInv'
  BY <1>2, Numbers
    DEF Probe, Confirm, GivesUp, Wanted, fields, work, counts, history, TypeOK,
        StoppedIsDown, GenInv, RequestInv, Live, Vacant, Current, Launching, Idle,
        None
<1>3. CASE PollRetries
  BY <1>3, Numbers
    DEF PollRetries, Goes, history, TypeOK, StoppedIsDown, GenInv, RequestInv, Live,
        Vacant, Current, Launching, Idle, None
<1>4. CASE PersonRetries
  BY <1>4, Numbers
    DEF PersonRetries, Kill, ReaderLeaves, Reading, TypeOK, StoppedIsDown, GenInv,
        RequestInv, Live, Vacant, Current, Launching, Idle, None
<1>5. CASE Stop
  BY <1>5, Numbers
    DEF Stop, Kill, ReaderLeaves, Reading, counts, history, TypeOK, StoppedIsDown,
        GenInv, RequestInv, Live, Vacant, Current, Launching, Idle, None
<1>6. CASE IdleStop
  BY <1>6, Numbers
    DEF IdleStop, Kill, ReaderLeaves, Reading, Current, Launching, counts, TypeOK,
        StoppedIsDown, GenInv, RequestInv, Live, Vacant, Idle, None
<1>7. CASE StartIsStopped
  BY <1>7, Numbers
    DEF StartIsStopped, Goes, fields, counts, history, TypeOK, StoppedIsDown,
        GenInv, RequestInv, Live, Vacant, Current, Launching, Idle, None
<1>8. CASE StartHasNoStack
  BY <1>8, Numbers
    DEF StartHasNoStack, Goes, counts, history, TypeOK, StoppedIsDown, GenInv,
        RequestInv, Live, Vacant, Current, Launching, Idle, None
<1>9. CASE Start
  BY <1>9, Numbers
    DEF Start, Kill, ReaderLeaves, Reading, counts, history, TypeOK, StoppedIsDown,
        GenInv, RequestInv, Live, Vacant, Current, Launching, Idle, None
<1>10. CASE SpawnReserved
  BY <1>10, Numbers
    DEF SpawnReserved, Goes, counts, history, TypeOK, StoppedIsDown, GenInv,
        RequestInv, Live, Vacant, Current, Launching, Idle, None
<1>11. CASE SpawnFresh
  BY <1>11, Numbers
    DEF SpawnFresh, BeginGeneration, Goes, counts, history, TypeOK, StoppedIsDown,
        GenInv, RequestInv, Live, Vacant, Current, Launching, Idle, None
<1>12. CASE StartCannot
  BY <1>12, Numbers
    DEF StartCannot, Goes, counts, history, TypeOK, StoppedIsDown, GenInv,
        RequestInv, Live, Vacant, Current, Launching, Idle, None
<1>13. CASE StartSettles
  BY <1>13, Numbers
    DEF StartSettles, Goes, fields, counts, history, TypeOK, StoppedIsDown, GenInv,
        RequestInv, Live, Vacant, Current, Launching, Idle, None
<1>14. CASE StartTimesOut
  BY <1>14, Numbers
    DEF StartTimesOut, Goes, fields, counts, history, TypeOK, StoppedIsDown, GenInv,
        RequestInv, Live, Vacant, Current, Launching, Idle, None
<1>15. CASE LateKill
  BY <1>15, Numbers
    DEF LateKill, Kill, ReaderLeaves, Reading, counts, history, TypeOK,
        StoppedIsDown, GenInv, RequestInv, Live, Vacant, Current, Launching, Idle,
        None
<1>16. CASE MarkFailed
  BY <1>16, Numbers
    DEF MarkFailed, Goes, counts, history, TypeOK, StoppedIsDown, GenInv,
        RequestInv, Live, Vacant, Current, Launching, Idle, None
<1>17. CASE RetryEnds
  BY <1>17, Numbers
    DEF RetryEnds, Goes, counts, history, TypeOK, StoppedIsDown, GenInv, RequestInv,
        Live, Vacant, Current, Launching, Idle, None
<1>18. ASSUME NEW t \in Threads, LaunchChecks(t)
      PROVE  RequestInv'
  BY <1>18, Numbers
    DEF LaunchChecks, Current, Goes, Leaves, AfterLaunch, fields, counts, history,
        TypeOK, StoppedIsDown, GenInv, RequestInv, Live, Vacant, Launching, Idle,
        None
<1>19. ASSUME NEW t \in Threads, Popen(t)
      PROVE  RequestInv'
  BY <1>19, Numbers
    DEF Popen, Goes, fields, counts, TypeOK, StoppedIsDown, GenInv, RequestInv,
        Live, Vacant, Current, Launching, Idle, None
<1>20. ASSUME NEW t \in Threads, LaunchFails(t)
      PROVE  RequestInv'
  BY <1>20, Numbers
    DEF LaunchFails, Goes, fields, counts, history, TypeOK, StoppedIsDown, GenInv,
        RequestInv, Live, Vacant, Current, Launching, Idle, None
<1>21. ASSUME NEW t \in Threads, Adopt(t)
      PROVE  RequestInv'
  BY <1>21, Numbers
    DEF Adopt, Current, Goes, AfterLaunch, counts, history, TypeOK, StoppedIsDown,
        GenInv, RequestInv, Live, Vacant, Launching, Idle, None
<1>22. ASSUME NEW t \in Threads, Drop(t)
      PROVE  RequestInv'
  BY <1>22, Numbers
    DEF Drop, Goes, AfterLaunch, fields, counts, history, TypeOK, StoppedIsDown,
        GenInv, RequestInv, Live, Vacant, Current, Launching, Idle, None
<1>23. ASSUME NEW p \in Procs, PrintsUrl(p)
      PROVE  RequestInv'
  BY <1>23, Numbers
    DEF PrintsUrl, Goes, Read, Reading, Check, fields, counts, history, TypeOK,
        StoppedIsDown, GenInv, RequestInv, Live, Vacant, Current, Launching, Idle,
        None
<1>24. ASSUME NEW p \in Procs, Exits(p)
      PROVE  RequestInv'
  BY <1>24, Numbers
    DEF Exits, fields, work, counts, history, TypeOK, StoppedIsDown, GenInv,
        RequestInv, Live, Vacant, Current, Launching, Idle, None
<1>25. ASSUME NEW p \in Procs, ReaderEnds(p)
      PROVE  RequestInv'
  BY <1>25, Numbers
    DEF ReaderEnds, Goes, Reading, counts, history, TypeOK, StoppedIsDown, GenInv,
        RequestInv, Live, Vacant, Current, Launching, Idle, None
<1>26. ASSUME NEW p \in Procs, Respawn(p)
      PROVE  RequestInv'
  BY <1>26, Numbers
    DEF Respawn, BeginGeneration, Goes, counts, history, TypeOK, StoppedIsDown,
        GenInv, RequestInv, Live, Vacant, Current, Launching, Idle, None
<1>27. ASSUME NEW p \in Procs, RespawnCannot(p)
      PROVE  RequestInv'
  BY <1>27, Numbers
    DEF RespawnCannot, Goes, counts, history, TypeOK, StoppedIsDown, GenInv,
        RequestInv, Live, Vacant, Current, Launching, Idle, None
<1>28. CASE UNCHANGED vars
  BY <1>28
    DEF vars, fields, work, counts, history, TypeOK, StoppedIsDown, GenInv,
        RequestInv, Live, Vacant, Current, Launching, Idle, None
<1> QED
  BY <1>1, <1>2, <1>3, <1>4, <1>5, <1>6, <1>7, <1>8, <1>9, <1>10, <1>11, <1>12,
      <1>13, <1>14, <1>15, <1>16, <1>17, <1>18, <1>19, <1>20, <1>21, <1>22, <1>23,
      <1>24, <1>25, <1>26, <1>27, <1>28
    DEF Next, Callers, RetryStep, LaunchStep, ServerStep, ReaderStep, CheckStep

\* What was served before stays out of the way of a launch.
LEMMA LaunchStepKeeps ==
    ASSUME TypeOK, GenInv, OneLaunch, BirthInv, UpInv, ServesThisAttempt, RequestInv, LaunchInv, [Next]_vars
    PROVE  LaunchInv'
<1>1. ASSUME NEW p \in Procs, PrintsReload(p) \/ PrintsError(p)
      PROVE  LaunchInv'
  BY <1>1, Numbers
    DEF PrintsReload, PrintsError, BeginGeneration, Read, Reading, work, history,
        counts, TypeOK, GenInv, BirthInv, UpInv, ServesThisAttempt, RequestInv,
        LaunchInv, Live, Vacant, Current, Launching, Idle, None, NoUrl
<1>2. CASE PollRetries
  BY <1>2, Numbers
    DEF PollRetries, Goes, history, TypeOK, GenInv, BirthInv, UpInv,
        ServesThisAttempt, RequestInv, LaunchInv, Live, Vacant, Current, Launching,
        Idle, None, NoUrl
<1>3. CASE PersonRetries
  BY <1>3, Numbers
    DEF PersonRetries, Kill, ReaderLeaves, Reading, TypeOK, GenInv, BirthInv, UpInv,
        ServesThisAttempt, RequestInv, LaunchInv, Live, Vacant, Current, Launching,
        Idle, None, NoUrl
<1>4. CASE Stop
  BY <1>4, Numbers
    DEF Stop, Kill, ReaderLeaves, Reading, counts, history, TypeOK, GenInv,
        BirthInv, UpInv, ServesThisAttempt, RequestInv, LaunchInv, Live, Vacant,
        Current, Launching, Idle, None, NoUrl
<1>5. CASE IdleStop
  BY <1>5, Numbers
    DEF IdleStop, Kill, ReaderLeaves, Reading, Current, Launching, counts, TypeOK,
        GenInv, BirthInv, UpInv, ServesThisAttempt, RequestInv, LaunchInv, Live,
        Vacant, Idle, None, NoUrl
<1>6. CASE StartIsStopped
  BY <1>6, Numbers
    DEF StartIsStopped, Goes, fields, counts, history, TypeOK, GenInv, BirthInv,
        UpInv, ServesThisAttempt, RequestInv, LaunchInv, Live, Vacant, Current,
        Launching, Idle, None, NoUrl
<1>7. CASE StartHasNoStack
  BY <1>7, Numbers
    DEF StartHasNoStack, Goes, counts, history, TypeOK, GenInv, BirthInv, UpInv,
        ServesThisAttempt, RequestInv, LaunchInv, Live, Vacant, Current, Launching,
        Idle, None, NoUrl
<1>8. CASE Start
  BY <1>8, Numbers
    DEF Start, Kill, ReaderLeaves, Reading, counts, history, TypeOK, GenInv,
        BirthInv, UpInv, ServesThisAttempt, RequestInv, LaunchInv, Live, Vacant,
        Current, Launching, Idle, None, NoUrl
<1>9. CASE SpawnReserved
  <2> SUFFICES ASSUME ~strayed
               PROVE  LaunchInv'
    BY <1>9 DEF SpawnReserved, history, LaunchInv
  <2>1. proc = None
    BY <1>9 DEF SpawnReserved, RequestInv, Vacant
  <2>2. up = NoUrl
    BY <2>1, Numbers DEF UpInv, ServesThisAttempt
  <2>3. proc' = None /\ up' = NoUrl /\ checks' = checks
    BY <1>9, <2>1, <2>2, Zenon DEF SpawnReserved, counts, history
  <2>4. \A c \in checks : c.of # None
    BY Numbers DEF TypeOK, Answers
  <2> QED
    BY <2>3, <2>4 DEF LaunchInv
<1>10. CASE SpawnFresh
  <2> SUFFICES ASSUME ~strayed
               PROVE  LaunchInv'
    BY <1>10 DEF SpawnFresh, history, LaunchInv
  <2>1. proc = None
    BY <1>10 DEF SpawnFresh, RequestInv, Vacant
  <2>2. up = NoUrl
    BY <2>1, Numbers DEF UpInv, ServesThisAttempt
  <2>3. proc' = None /\ up' = NoUrl /\ checks' = checks
    BY <1>10, <2>1, <2>2, Zenon DEF SpawnFresh, BeginGeneration, counts, history
  <2>4. \A c \in checks : c.of # None
    BY Numbers DEF TypeOK, Answers
  <2> QED
    BY <2>3, <2>4 DEF LaunchInv
<1>11. CASE StartCannot
  BY <1>11, Numbers
    DEF StartCannot, Goes, counts, history, TypeOK, GenInv, BirthInv, UpInv,
        ServesThisAttempt, RequestInv, LaunchInv, Live, Vacant, Current, Launching,
        Idle, None, NoUrl
<1>12. CASE StartSettles
  BY <1>12, Numbers
    DEF StartSettles, Goes, fields, counts, history, TypeOK, GenInv, BirthInv,
        UpInv, ServesThisAttempt, RequestInv, LaunchInv, Live, Vacant, Current,
        Launching, Idle, None, NoUrl
<1>13. CASE StartTimesOut
  BY <1>13, Numbers
    DEF StartTimesOut, Goes, fields, counts, history, TypeOK, GenInv, BirthInv,
        UpInv, ServesThisAttempt, RequestInv, LaunchInv, Live, Vacant, Current,
        Launching, Idle, None, NoUrl
<1>14. CASE LateKill
  <2>1. proc' = None /\ up' = NoUrl /\ checks' = checks
    BY <1>14, Zenon DEF LateKill, Kill
  <2>2. \A c \in checks : c.of # None
    BY Numbers DEF TypeOK, Answers
  <2> QED
    BY <2>1, <2>2 DEF LaunchInv
<1>15. CASE MarkFailed
  BY <1>15, Numbers
    DEF MarkFailed, Goes, counts, history, TypeOK, GenInv, BirthInv, UpInv,
        ServesThisAttempt, RequestInv, LaunchInv, Live, Vacant, Current, Launching,
        Idle, None, NoUrl
<1>16. CASE RetryEnds
  BY <1>16, Numbers
    DEF RetryEnds, Goes, counts, history, TypeOK, GenInv, BirthInv, UpInv,
        ServesThisAttempt, RequestInv, LaunchInv, Live, Vacant, Current, Launching,
        Idle, None, NoUrl
<1>17. ASSUME NEW t \in Threads, LaunchChecks(t)
      PROVE  LaunchInv'
  BY <1>17, Numbers
    DEF LaunchChecks, Current, Goes, Leaves, AfterLaunch, fields, counts, history,
        TypeOK, GenInv, BirthInv, UpInv, ServesThisAttempt, RequestInv, LaunchInv,
        Live, Vacant, Launching, Idle, None, NoUrl
<1>18. ASSUME NEW t \in Threads, Popen(t)
      PROVE  LaunchInv'
  BY <1>18, Numbers
    DEF Popen, Goes, fields, counts, TypeOK, GenInv, BirthInv, UpInv,
        ServesThisAttempt, RequestInv, LaunchInv, Live, Vacant, Current, Launching,
        Idle, None, NoUrl
<1>19. ASSUME NEW t \in Threads, LaunchFails(t)
      PROVE  LaunchInv'
  BY <1>19, Numbers
    DEF LaunchFails, Goes, fields, counts, history, TypeOK, GenInv, BirthInv, UpInv,
        ServesThisAttempt, RequestInv, LaunchInv, Live, Vacant, Current, Launching,
        Idle, None, NoUrl
<1>20. ASSUME NEW t \in Threads, Adopt(t)
      PROVE  LaunchInv'
  <2>1. CASE Current(t)
    <3>1. /\ at' = [at EXCEPT ![t] = AfterLaunch(t), ![child[t]] = "read"]
          /\ mine' = [mine EXCEPT ![t] = 0] /\ gen' = gen
      BY <1>20, <2>1, Zenon DEF Adopt
    <3>2. at[t] = "adopt" /\ mine[t] = gen /\ child[t] \in Threads
      BY <1>20, <2>1 DEF Adopt, Current, TypeOK
    <3>3. ASSUME NEW u \in Threads, Live(u)'
          PROVE  FALSE
      <4>1. u # t /\ u # child[t]
        BY <3>1, <3>2, <3>3, Numbers DEF Live, Launching, AfterLaunch, TypeOK, Idle
      <4>2. at'[u] = at[u] /\ mine'[u] = mine[u]
        BY <3>1, <4>1 DEF TypeOK
      <4> QED
        BY <3>1, <3>2, <3>3, <4>1, <4>2 DEF OneLaunch, Live, Launching, Current
    <3> QED
      BY <3>3 DEF LaunchInv
  <2>2. CASE ~Current(t)
    <3>1. /\ proc' = proc /\ life' = life /\ up' = up /\ checks' = checks
          /\ gen' = gen /\ strayed' = strayed /\ stopped' = stopped
      BY <1>20, <2>2, Zenon DEF Adopt, counts, history
    <3>2. \A u \in Threads : Live(u)' => Live(u)
      BY <1>20, <2>2 DEF Adopt, Goes, counts, history, Live, Launching, Current, TypeOK
    <3> QED
      BY <3>1, <3>2 DEF LaunchInv
  <2> QED
    BY <2>1, <2>2
<1>21. ASSUME NEW t \in Threads, Drop(t)
      PROVE  LaunchInv'
  BY <1>21, Numbers
    DEF Drop, Goes, AfterLaunch, fields, counts, history, TypeOK, GenInv, BirthInv,
        UpInv, ServesThisAttempt, RequestInv, LaunchInv, Live, Vacant, Current,
        Launching, Idle, None, NoUrl
<1>22. ASSUME NEW p \in Procs, PrintsUrl(p)
      PROVE  LaunchInv'
  BY <1>22, Numbers
    DEF PrintsUrl, Goes, Read, Reading, Check, fields, counts, history, TypeOK,
        GenInv, BirthInv, UpInv, ServesThisAttempt, RequestInv, LaunchInv, Live,
        Vacant, Current, Launching, Idle, None, NoUrl
<1>23. ASSUME NEW p \in Procs, PrintsReady(p)
      PROVE  LaunchInv'
  BY <1>23, Numbers
    DEF PrintsReady, Read, Reading, Check, fields, work, counts, history, TypeOK,
        GenInv, BirthInv, UpInv, ServesThisAttempt, RequestInv, LaunchInv, Live,
        Vacant, Current, Launching, Idle, None, NoUrl
<1>24. ASSUME NEW p \in Procs, Exits(p)
      PROVE  LaunchInv'
  BY <1>24, Numbers
    DEF Exits, fields, work, counts, history, TypeOK, GenInv, BirthInv, UpInv,
        ServesThisAttempt, RequestInv, LaunchInv, Live, Vacant, Current, Launching,
        Idle, None, NoUrl
<1>25. ASSUME NEW p \in Procs, ReaderEnds(p)
      PROVE  LaunchInv'
  BY <1>25, Numbers
    DEF ReaderEnds, Goes, Reading, counts, history, TypeOK, GenInv, BirthInv, UpInv,
        ServesThisAttempt, RequestInv, LaunchInv, Live, Vacant, Current, Launching,
        Idle, None, NoUrl
<1>26. ASSUME NEW p \in Procs, Respawn(p)
      PROVE  LaunchInv'
  <2>1. CASE stopped \/ proc # p
    <3>1. /\ proc' = proc /\ life' = life /\ up' = up /\ checks' = checks
          /\ gen' = gen /\ strayed' = strayed /\ stopped' = stopped
      BY <1>26, <2>1, Zenon DEF Respawn, counts, history
    <3>2. \A u \in Threads : Live(u)' => Live(u)
      BY <1>26, <2>1 DEF Respawn, Goes, counts, history, Live, Launching, Current, TypeOK, Idle
    <3> QED
      BY <3>1, <3>2 DEF LaunchInv
  <2>2. CASE ~stopped /\ proc = p
    <3>1. /\ proc' = p /\ life' = life /\ up' = NoUrl /\ checks' = checks /\ gen' = gen + 1
      BY <1>26, <2>2, Zenon DEF Respawn, BeginGeneration
    <3>2. life[p] = "over"
      BY <1>26 DEF Respawn, BirthInv
    <3>3. \A c \in checks : c.gen < gen + 1
      BY DEF GenInv, TypeOK, Answers
    <3> QED
      BY <3>1, <3>2, <3>3 DEF LaunchInv
  <2> QED
    BY <2>1, <2>2
<1>27. ASSUME NEW p \in Procs, RespawnCannot(p)
      PROVE  LaunchInv'
  BY <1>27, Numbers
    DEF RespawnCannot, Goes, counts, history, TypeOK, GenInv, BirthInv, UpInv,
        ServesThisAttempt, RequestInv, LaunchInv, Live, Vacant, Current, Launching,
        Idle, None, NoUrl
<1>28. ASSUME NEW c \in checks, Probe(c)
      PROVE  LaunchInv'
  BY <1>28, Numbers
    DEF Probe, Wanted, fields, work, counts, history, TypeOK, GenInv, BirthInv,
        UpInv, ServesThisAttempt, RequestInv, LaunchInv, Live, Vacant, Current,
        Launching, Idle, None, NoUrl
<1>29. ASSUME NEW c \in checks, Confirm(c)
      PROVE  LaunchInv'
  BY <1>29, Numbers
    DEF Confirm, Wanted, work, counts, history, TypeOK, GenInv, BirthInv, UpInv,
        ServesThisAttempt, RequestInv, LaunchInv, Live, Vacant, Current, Launching,
        Idle, None, NoUrl
<1>30. ASSUME NEW c \in checks, GivesUp(c)
      PROVE  LaunchInv'
  BY <1>30, Numbers
    DEF GivesUp, Wanted, work, counts, history, TypeOK, GenInv, BirthInv, UpInv,
        ServesThisAttempt, RequestInv, LaunchInv, Live, Vacant, Current, Launching,
        Idle, None, NoUrl
<1>31. CASE UNCHANGED vars
  BY <1>31
    DEF vars, fields, work, counts, history, TypeOK, GenInv, BirthInv, UpInv,
        ServesThisAttempt, RequestInv, LaunchInv, Live, Vacant, Current, Launching,
        Idle, None, NoUrl
<1> QED
  BY <1>1, <1>2, <1>3, <1>4, <1>5, <1>6, <1>7, <1>8, <1>9, <1>10, <1>11, <1>12,
      <1>13, <1>14, <1>15, <1>16, <1>17, <1>18, <1>19, <1>20, <1>21, <1>22, <1>23,
      <1>24, <1>25, <1>26, <1>27, <1>28, <1>29, <1>30, <1>31
    DEF Next, Callers, RetryStep, LaunchStep, ServerStep, ReaderStep, CheckStep

\* No step serves another attempt's page.
LEMMA ServesStep ==
    ASSUME TypeOK, GenInv, BirthInv, ChildInv, LaunchInv, ServesThisAttempt, [Next]_vars
    PROVE  ServesThisAttempt'
<1>1. ASSUME NEW p \in Procs, PrintsReload(p) \/ PrintsError(p)
      PROVE  ServesThisAttempt'
  BY <1>1, Numbers
    DEF PrintsReload, PrintsError, BeginGeneration, Read, Reading, work, history,
        counts, TypeOK, GenInv, BirthInv, ChildInv, LaunchInv, ServesThisAttempt,
        Live, Launching, Idle, None, NoUrl
<1>2. CASE PollRetries
  BY <1>2, Numbers
    DEF PollRetries, Goes, history, TypeOK, GenInv, BirthInv, ChildInv, LaunchInv,
        ServesThisAttempt, Live, Launching, Idle, None, NoUrl
<1>3. CASE PersonRetries
  BY <1>3, Numbers
    DEF PersonRetries, Kill, ReaderLeaves, Reading, TypeOK, GenInv, BirthInv,
        ChildInv, LaunchInv, ServesThisAttempt, Live, Launching, Idle, None, NoUrl
<1>4. CASE Stop
  BY <1>4, Numbers
    DEF Stop, Kill, ReaderLeaves, Reading, counts, history, TypeOK, GenInv,
        BirthInv, ChildInv, LaunchInv, ServesThisAttempt, Live, Launching, Idle,
        None, NoUrl
<1>5. CASE IdleStop
  BY <1>5, Numbers
    DEF IdleStop, Kill, ReaderLeaves, Reading, Current, Launching, counts, TypeOK,
        GenInv, BirthInv, ChildInv, LaunchInv, ServesThisAttempt, Live, Idle, None,
        NoUrl
<1>6. CASE StartIsStopped
  BY <1>6, Numbers
    DEF StartIsStopped, Goes, fields, counts, history, TypeOK, GenInv, BirthInv,
        ChildInv, LaunchInv, ServesThisAttempt, Live, Launching, Idle, None, NoUrl
<1>7. CASE StartHasNoStack
  BY <1>7, Numbers
    DEF StartHasNoStack, Goes, counts, history, TypeOK, GenInv, BirthInv, ChildInv,
        LaunchInv, ServesThisAttempt, Live, Launching, Idle, None, NoUrl
<1>8. CASE Start
  BY <1>8, Numbers
    DEF Start, Kill, ReaderLeaves, Reading, counts, history, TypeOK, GenInv,
        BirthInv, ChildInv, LaunchInv, ServesThisAttempt, Live, Launching, Idle,
        None, NoUrl
<1>9. CASE SpawnReserved
  BY <1>9, Numbers
    DEF SpawnReserved, Goes, counts, history, TypeOK, GenInv, BirthInv, ChildInv,
        LaunchInv, ServesThisAttempt, Live, Launching, Idle, None, NoUrl
<1>10. CASE SpawnFresh
  BY <1>10, Numbers
    DEF SpawnFresh, BeginGeneration, Goes, counts, history, TypeOK, GenInv,
        BirthInv, ChildInv, LaunchInv, ServesThisAttempt, Live, Launching, Idle,
        None, NoUrl
<1>11. CASE StartCannot
  BY <1>11, Numbers
    DEF StartCannot, Goes, counts, history, TypeOK, GenInv, BirthInv, ChildInv,
        LaunchInv, ServesThisAttempt, Live, Launching, Idle, None, NoUrl
<1>12. CASE StartSettles
  BY <1>12, Numbers
    DEF StartSettles, Goes, fields, counts, history, TypeOK, GenInv, BirthInv,
        ChildInv, LaunchInv, ServesThisAttempt, Live, Launching, Idle, None, NoUrl
<1>13. CASE StartTimesOut
  BY <1>13, Numbers
    DEF StartTimesOut, Goes, fields, counts, history, TypeOK, GenInv, BirthInv,
        ChildInv, LaunchInv, ServesThisAttempt, Live, Launching, Idle, None, NoUrl
<1>14. CASE LateKill
  BY <1>14, Numbers
    DEF LateKill, Kill, ReaderLeaves, Reading, counts, history, TypeOK, GenInv,
        BirthInv, ChildInv, LaunchInv, ServesThisAttempt, Live, Launching, Idle,
        None, NoUrl
<1>15. CASE MarkFailed
  BY <1>15, Numbers
    DEF MarkFailed, Goes, counts, history, TypeOK, GenInv, BirthInv, ChildInv,
        LaunchInv, ServesThisAttempt, Live, Launching, Idle, None, NoUrl
<1>16. CASE RetryEnds
  BY <1>16, Numbers
    DEF RetryEnds, Goes, counts, history, TypeOK, GenInv, BirthInv, ChildInv,
        LaunchInv, ServesThisAttempt, Live, Launching, Idle, None, NoUrl
<1>17. ASSUME NEW t \in Threads, LaunchChecks(t)
      PROVE  ServesThisAttempt'
  BY <1>17, Numbers
    DEF LaunchChecks, Current, Goes, Leaves, AfterLaunch, fields, counts, history,
        TypeOK, GenInv, BirthInv, ChildInv, LaunchInv, ServesThisAttempt, Live,
        Launching, Idle, None, NoUrl
<1>18. ASSUME NEW t \in Threads, Popen(t)
      PROVE  ServesThisAttempt'
  BY <1>18, Numbers
    DEF Popen, Goes, fields, counts, TypeOK, GenInv, BirthInv, ChildInv, LaunchInv,
        ServesThisAttempt, Live, Launching, Idle, None, NoUrl
<1>19. ASSUME NEW t \in Threads, LaunchFails(t)
      PROVE  ServesThisAttempt'
  BY <1>19, Numbers
    DEF LaunchFails, Goes, fields, counts, history, TypeOK, GenInv, BirthInv,
        ChildInv, LaunchInv, ServesThisAttempt, Live, Launching, Idle, None, NoUrl
<1>20. ASSUME NEW t \in Threads, Adopt(t)
      PROVE  ServesThisAttempt'
  BY <1>20, Numbers
    DEF Adopt, Current, Goes, AfterLaunch, counts, history, TypeOK, GenInv,
        BirthInv, ChildInv, LaunchInv, ServesThisAttempt, Live, Launching, Idle,
        None, NoUrl
<1>21. ASSUME NEW t \in Threads, Drop(t)
      PROVE  ServesThisAttempt'
  BY <1>21, Numbers
    DEF Drop, Goes, AfterLaunch, fields, counts, history, TypeOK, GenInv, BirthInv,
        ChildInv, LaunchInv, ServesThisAttempt, Live, Launching, Idle, None, NoUrl
<1>22. ASSUME NEW p \in Procs, PrintsUrl(p)
      PROVE  ServesThisAttempt'
  BY <1>22, Numbers
    DEF PrintsUrl, Goes, Read, Reading, Check, fields, counts, history, TypeOK,
        GenInv, BirthInv, ChildInv, LaunchInv, ServesThisAttempt, Live, Launching,
        Idle, None, NoUrl
<1>23. ASSUME NEW p \in Procs, PrintsReady(p)
      PROVE  ServesThisAttempt'
  BY <1>23, Numbers
    DEF PrintsReady, Read, Reading, Check, fields, work, counts, history, TypeOK,
        GenInv, BirthInv, ChildInv, LaunchInv, ServesThisAttempt, Live, Launching,
        Idle, None, NoUrl
<1>24. ASSUME NEW p \in Procs, Exits(p)
      PROVE  ServesThisAttempt'
  BY <1>24, Numbers
    DEF Exits, fields, work, counts, history, TypeOK, GenInv, BirthInv, ChildInv,
        LaunchInv, ServesThisAttempt, Live, Launching, Idle, None, NoUrl
<1>25. ASSUME NEW p \in Procs, ReaderEnds(p)
      PROVE  ServesThisAttempt'
  BY <1>25, Numbers
    DEF ReaderEnds, Goes, Reading, counts, history, TypeOK, GenInv, BirthInv,
        ChildInv, LaunchInv, ServesThisAttempt, Live, Launching, Idle, None, NoUrl
<1>26. ASSUME NEW p \in Procs, Respawn(p)
      PROVE  ServesThisAttempt'
  BY <1>26, Numbers
    DEF Respawn, BeginGeneration, Goes, counts, history, TypeOK, GenInv, BirthInv,
        ChildInv, LaunchInv, ServesThisAttempt, Live, Launching, Idle, None, NoUrl
<1>27. ASSUME NEW p \in Procs, RespawnCannot(p)
      PROVE  ServesThisAttempt'
  BY <1>27, Numbers
    DEF RespawnCannot, Goes, counts, history, TypeOK, GenInv, BirthInv, ChildInv,
        LaunchInv, ServesThisAttempt, Live, Launching, Idle, None, NoUrl
<1>28. ASSUME NEW c \in checks, Probe(c)
      PROVE  ServesThisAttempt'
  BY <1>28, Numbers
    DEF Probe, Wanted, fields, work, counts, history, TypeOK, GenInv, BirthInv,
        ChildInv, LaunchInv, ServesThisAttempt, Live, Launching, Idle, None, NoUrl
<1>29. ASSUME NEW c \in checks, Confirm(c)
      PROVE  ServesThisAttempt'
  BY <1>29, Numbers
    DEF Confirm, Wanted, work, counts, history, TypeOK, GenInv, BirthInv, ChildInv,
        LaunchInv, ServesThisAttempt, Live, Launching, Idle, None, NoUrl
<1>30. ASSUME NEW c \in checks, GivesUp(c)
      PROVE  ServesThisAttempt'
  BY <1>30, Numbers
    DEF GivesUp, Wanted, work, counts, history, TypeOK, GenInv, BirthInv, ChildInv,
        LaunchInv, ServesThisAttempt, Live, Launching, Idle, None, NoUrl
<1>31. CASE UNCHANGED vars
  BY <1>31
    DEF vars, fields, work, counts, history, TypeOK, GenInv, BirthInv, ChildInv,
        LaunchInv, ServesThisAttempt, Live, Launching, Idle, None, NoUrl
<1> QED
  BY <1>1, <1>2, <1>3, <1>4, <1>5, <1>6, <1>7, <1>8, <1>9, <1>10, <1>11, <1>12,
      <1>13, <1>14, <1>15, <1>16, <1>17, <1>18, <1>19, <1>20, <1>21, <1>22, <1>23,
      <1>24, <1>25, <1>26, <1>27, <1>28, <1>29, <1>30, <1>31
    DEF Next, Callers, RetryStep, LaunchStep, ServerStep, ReaderStep, CheckStep

\* No step leaves a running process to nobody.
LEMMA OrphanStep ==
    ASSUME TypeOK, BirthInv, ChildInv, LaunchInv, NoOrphan, [Next]_vars
    PROVE  NoOrphan'
<1>1. ASSUME NEW p \in Procs, PrintsReload(p) \/ PrintsError(p)
      PROVE  NoOrphan'
  BY <1>1, Numbers
    DEF PrintsReload, PrintsError, BeginGeneration, Read, Reading, work, history,
        counts, TypeOK, BirthInv, ChildInv, LaunchInv, NoOrphan, Orphan, Live,
        Launching, Idle, None
<1>2. CASE PollRetries
  BY <1>2, Numbers
    DEF PollRetries, Goes, history, TypeOK, BirthInv, ChildInv, LaunchInv, NoOrphan,
        Orphan, Live, Launching, Idle, None
<1>3. CASE PersonRetries
  BY <1>3, Numbers
    DEF PersonRetries, Kill, ReaderLeaves, Reading, TypeOK, BirthInv, ChildInv,
        LaunchInv, NoOrphan, Orphan, Live, Launching, Idle, None
<1>4. CASE Stop
  BY <1>4, Numbers
    DEF Stop, Kill, ReaderLeaves, Reading, counts, history, TypeOK, BirthInv,
        ChildInv, LaunchInv, NoOrphan, Orphan, Live, Launching, Idle, None
<1>5. CASE IdleStop
  BY <1>5, Numbers
    DEF IdleStop, Kill, ReaderLeaves, Reading, Current, Launching, counts, TypeOK,
        BirthInv, ChildInv, LaunchInv, NoOrphan, Orphan, Live, Idle, None
<1>6. CASE StartIsStopped
  BY <1>6, Numbers
    DEF StartIsStopped, Goes, fields, counts, history, TypeOK, BirthInv, ChildInv,
        LaunchInv, NoOrphan, Orphan, Live, Launching, Idle, None
<1>7. CASE StartHasNoStack
  BY <1>7, Numbers
    DEF StartHasNoStack, Goes, counts, history, TypeOK, BirthInv, ChildInv,
        LaunchInv, NoOrphan, Orphan, Live, Launching, Idle, None
<1>8. CASE Start
  BY <1>8, Numbers
    DEF Start, Kill, ReaderLeaves, Reading, counts, history, TypeOK, BirthInv,
        ChildInv, LaunchInv, NoOrphan, Orphan, Live, Launching, Idle, None
<1>9. CASE SpawnReserved
  BY <1>9, Numbers
    DEF SpawnReserved, Goes, counts, history, TypeOK, BirthInv, ChildInv, LaunchInv,
        NoOrphan, Orphan, Live, Launching, Idle, None
<1>10. CASE SpawnFresh
  BY <1>10, Numbers
    DEF SpawnFresh, BeginGeneration, Goes, counts, history, TypeOK, BirthInv,
        ChildInv, LaunchInv, NoOrphan, Orphan, Live, Launching, Idle, None
<1>11. CASE StartCannot
  BY <1>11, Numbers
    DEF StartCannot, Goes, counts, history, TypeOK, BirthInv, ChildInv, LaunchInv,
        NoOrphan, Orphan, Live, Launching, Idle, None
<1>12. CASE StartSettles
  BY <1>12, Numbers
    DEF StartSettles, Goes, fields, counts, history, TypeOK, BirthInv, ChildInv,
        LaunchInv, NoOrphan, Orphan, Live, Launching, Idle, None
<1>13. CASE StartTimesOut
  BY <1>13, Numbers
    DEF StartTimesOut, Goes, fields, counts, history, TypeOK, BirthInv, ChildInv,
        LaunchInv, NoOrphan, Orphan, Live, Launching, Idle, None
<1>14. CASE LateKill
  BY <1>14, Numbers
    DEF LateKill, Kill, ReaderLeaves, Reading, counts, history, TypeOK, BirthInv,
        ChildInv, LaunchInv, NoOrphan, Orphan, Live, Launching, Idle, None
<1>15. CASE MarkFailed
  BY <1>15, Numbers
    DEF MarkFailed, Goes, counts, history, TypeOK, BirthInv, ChildInv, LaunchInv,
        NoOrphan, Orphan, Live, Launching, Idle, None
<1>16. CASE RetryEnds
  BY <1>16, Numbers
    DEF RetryEnds, Goes, counts, history, TypeOK, BirthInv, ChildInv, LaunchInv,
        NoOrphan, Orphan, Live, Launching, Idle, None
<1>17. ASSUME NEW t \in Threads, LaunchChecks(t)
      PROVE  NoOrphan'
  BY <1>17, Numbers
    DEF LaunchChecks, Current, Goes, Leaves, AfterLaunch, fields, counts, history,
        TypeOK, BirthInv, ChildInv, LaunchInv, NoOrphan, Orphan, Live, Launching,
        Idle, None
<1>18. ASSUME NEW t \in Threads, Popen(t)
      PROVE  NoOrphan'
  <2>1. PICK p \in Procs : /\ life' = [life EXCEPT ![p] = "up"]
                            /\ child' = [child EXCEPT ![t] = p]
    BY <1>18, Zenon DEF Popen
  <2>2. proc' = proc /\ strayed' = strayed /\ at[t] = "popen"
    BY <1>18 DEF Popen, fields
  <2>3. child[t] = None /\ child'[t] = p
    BY <2>1, <2>2 DEF ChildInv, TypeOK
  <2>4. ASSUME NEW q \in Procs, Orphan(q)'
        PROVE  Orphan(q)
    <3>1. q # p
      BY <2>3, <2>4 DEF Orphan
    <3>2. life[q] = "up" /\ proc # q
      BY <2>1, <2>2, <2>4, <3>1 DEF Orphan, TypeOK
    <3>3. ASSUME NEW u \in Threads
          PROVE  child[u] # q
      BY <2>1, <2>3, <2>4, Numbers DEF Orphan, TypeOK
    <3> QED
      BY <3>2, <3>3 DEF Orphan
  <2> QED
    BY <2>2, <2>4 DEF NoOrphan
<1>19. ASSUME NEW t \in Threads, LaunchFails(t)
      PROVE  NoOrphan'
  BY <1>19, Numbers
    DEF LaunchFails, Goes, fields, counts, history, TypeOK, BirthInv, ChildInv,
        LaunchInv, NoOrphan, Orphan, Live, Launching, Idle, None
<1>20. ASSUME NEW t \in Threads, Adopt(t)
      PROVE  NoOrphan'
  BY <1>20, Numbers
    DEF Adopt, Current, Goes, AfterLaunch, counts, history, TypeOK, BirthInv,
        ChildInv, LaunchInv, NoOrphan, Orphan, Live, Launching, Idle, None
<1>21. ASSUME NEW t \in Threads, Drop(t)
      PROVE  NoOrphan'
  BY <1>21, Numbers
    DEF Drop, Goes, AfterLaunch, fields, counts, history, TypeOK, BirthInv,
        ChildInv, LaunchInv, NoOrphan, Orphan, Live, Launching, Idle, None
<1>22. ASSUME NEW p \in Procs, PrintsUrl(p)
      PROVE  NoOrphan'
  BY <1>22, Numbers
    DEF PrintsUrl, Goes, Read, Reading, Check, fields, counts, history, TypeOK,
        BirthInv, ChildInv, LaunchInv, NoOrphan, Orphan, Live, Launching, Idle, None
<1>23. ASSUME NEW p \in Procs, PrintsReady(p)
      PROVE  NoOrphan'
  BY <1>23, Numbers
    DEF PrintsReady, Read, Reading, Check, fields, work, counts, history, TypeOK,
        BirthInv, ChildInv, LaunchInv, NoOrphan, Orphan, Live, Launching, Idle, None
<1>24. ASSUME NEW p \in Procs, Exits(p)
      PROVE  NoOrphan'
  BY <1>24, Numbers
    DEF Exits, fields, work, counts, history, TypeOK, BirthInv, ChildInv, LaunchInv,
        NoOrphan, Orphan, Live, Launching, Idle, None
<1>25. ASSUME NEW p \in Procs, ReaderEnds(p)
      PROVE  NoOrphan'
  BY <1>25, Numbers
    DEF ReaderEnds, Goes, Reading, counts, history, TypeOK, BirthInv, ChildInv,
        LaunchInv, NoOrphan, Orphan, Live, Launching, Idle, None
<1>26. ASSUME NEW p \in Procs, Respawn(p)
      PROVE  NoOrphan'
  BY <1>26, Numbers
    DEF Respawn, BeginGeneration, Goes, counts, history, TypeOK, BirthInv, ChildInv,
        LaunchInv, NoOrphan, Orphan, Live, Launching, Idle, None
<1>27. ASSUME NEW p \in Procs, RespawnCannot(p)
      PROVE  NoOrphan'
  BY <1>27, Numbers
    DEF RespawnCannot, Goes, counts, history, TypeOK, BirthInv, ChildInv, LaunchInv,
        NoOrphan, Orphan, Live, Launching, Idle, None
<1>28. ASSUME NEW c \in checks, Probe(c)
      PROVE  NoOrphan'
  BY <1>28, Numbers
    DEF Probe, Wanted, fields, work, counts, history, TypeOK, BirthInv, ChildInv,
        LaunchInv, NoOrphan, Orphan, Live, Launching, Idle, None
<1>29. ASSUME NEW c \in checks, Confirm(c)
      PROVE  NoOrphan'
  BY <1>29, Numbers
    DEF Confirm, Wanted, work, counts, history, TypeOK, BirthInv, ChildInv,
        LaunchInv, NoOrphan, Orphan, Live, Launching, Idle, None
<1>30. ASSUME NEW c \in checks, GivesUp(c)
      PROVE  NoOrphan'
  BY <1>30, Numbers
    DEF GivesUp, Wanted, work, counts, history, TypeOK, BirthInv, ChildInv,
        LaunchInv, NoOrphan, Orphan, Live, Launching, Idle, None
<1>31. CASE UNCHANGED vars
  BY <1>31
    DEF vars, fields, work, counts, history, TypeOK, BirthInv, ChildInv, LaunchInv,
        NoOrphan, Orphan, Live, Launching, Idle, None
<1> QED
  BY <1>1, <1>2, <1>3, <1>4, <1>5, <1>6, <1>7, <1>8, <1>9, <1>10, <1>11, <1>12,
      <1>13, <1>14, <1>15, <1>16, <1>17, <1>18, <1>19, <1>20, <1>21, <1>22, <1>23,
      <1>24, <1>25, <1>26, <1>27, <1>28, <1>29, <1>30, <1>31
    DEF Next, Callers, RetryStep, LaunchStep, ServerStep, ReaderStep, CheckStep

-----------------------------------------------------------------------------
IInv == /\ TypeOK /\ StoppedIsDown /\ GenInv /\ ReservedInv /\ OneLaunch /\ BirthInv /\ ChildInv
        /\ UpInv /\ RequestInv /\ LaunchInv /\ ServesThisAttempt /\ NoOrphan

\* The initial state satisfies the invariant.
LEMMA InitIInv == Init => IInv
<1> SUFFICES ASSUME Init PROVE IInv
  OBVIOUS
<1>1. TypeOK
  <2>1. TypeOK1 /\ TypeOK2
    <3>1. TypeOK1
      BY Zenon DEF Init, TypeOK1
    <3>2. TypeOK2
      BY DEF Init, TypeOK2
    <3> QED
      BY <3>1, <3>2
  <2>2. TypeOK3 /\ TypeOK4
    BY Numbers DEF Init, TypeOK3, TypeOK4
  <2>3. TypeOK5 /\ TypeOK6
    BY Numbers DEF Init, TypeOK5, TypeOK6
  <2> QED
    BY <2>1, <2>2, <2>3 DEF TypeOK, TypeOK1, TypeOK2, TypeOK3, TypeOK4, TypeOK5, TypeOK6
<1>2. GenInv /\ ReservedInv /\ OneLaunch /\ UpInv /\ StoppedIsDown
  BY Numbers DEF Init, GenInv, ReservedInv, OneLaunch, UpInv, StoppedIsDown, Launching, Idle
<1>3. BirthInv /\ ChildInv
  BY Numbers DEF Init, BirthInv, ChildInv, Idle
<1>4. RequestInv /\ LaunchInv
  BY Numbers DEF Init, RequestInv, LaunchInv, Vacant, Live, Launching, Idle
<1>5. ServesThisAttempt /\ NoOrphan
  BY Numbers DEF Init, ServesThisAttempt, NoOrphan, Orphan
<1> QED
  BY <1>1, <1>2, <1>3, <1>4, <1>5 DEF IInv

\* Every step keeps it.
LEMMA NextIInv == IInv /\ [Next]_vars => IInv'
<1> SUFFICES ASSUME IInv, [Next]_vars PROVE IInv'
  OBVIOUS
<1>1. TypeOK'
  <2>1. TypeOK
    BY DEF IInv
  <2>2. TypeOK1' /\ TypeOK2' /\ TypeOK3' /\ TypeOK4' /\ TypeOK5' /\ TypeOK6'
    BY <2>1, TypeStep1, TypeStep2, TypeStep3, TypeStep4, TypeStep5, TypeStep6
  <2> QED
    BY <2>2 DEF TypeOK, TypeOK1, TypeOK2, TypeOK3, TypeOK4, TypeOK5, TypeOK6
<1>2. StoppedIsDown' /\ GenInv' /\ ReservedInv' /\ OneLaunch'
  BY StoppedStep, GenStep, ReservedStep, OneStep DEF IInv
<1>3. BirthInv' /\ ChildInv' /\ UpInv' /\ RequestInv'
  BY BirthStep, ChildStep, UpStep, RequestStep DEF IInv
<1>4. LaunchInv' /\ ServesThisAttempt' /\ NoOrphan'
  BY LaunchStepKeeps, ServesStep, OrphanStep DEF IInv
<1> QED
  BY <1>1, <1>2, <1>3, <1>4 DEF IInv

\* The inductive invariant holds in every reachable state.
THEOREM InvariantHolds == Spec => []IInv
<1>1. Init => IInv
  BY InitIInv
<1>2. IInv /\ [Next]_vars => IInv'
  BY NextIInv
<1> QED
  BY <1>1, <1>2, PTL DEF Spec

\* The supervisor's fields keep their types.
THEOREM TypeCorrect == Spec => []TypeOK
<1>1. IInv => TypeOK
  BY DEF IInv
<1> QED
  BY <1>1, InvariantHolds, PTL

\* Stop: no launch, restart or check under way brings a server or its URL back
\* until Retry is pressed, however many there are.
THEOREM StopIsFinal == Spec => []StoppedIsDown
<1>1. IInv => StoppedIsDown
  BY DEF IInv
<1> QED
  BY <1>1, InvariantHolds, PTL

\* What the proxy is sent to was proven to serve in the current generation, by a
\* process started for the last explicit Retry or later.
THEOREM PagesAreThisAttempts == Spec => []ServesThisAttempt
<1>1. IInv => ServesThisAttempt
  BY DEF IInv
<1> QED
  BY <1>1, InvariantHolds, PTL

\* At most one launch is for the generation that counts.
THEOREM LaunchesDoNotOverlap == Spec => []OneLaunch
<1>1. IInv => OneLaunch
  BY DEF IInv
<1> QED
  BY <1>1, InvariantHolds, PTL

\* No server process runs on with nobody to end it, unless an idle stop came in
\* the middle of a launch.
THEOREM ProcessesHaveOwners == Spec => []NoOrphan
<1>1. IInv => NoOrphan
  BY DEF IInv
<1> QED
  BY <1>1, InvariantHolds, PTL

-----------------------------------------------------------------------------
(***************************************************************************)
(* Whatever says "Starting" has somebody who will unsay it.                *)
(***************************************************************************)
\* A page that is served is not starting.
ReadyInv == up # NoUrl => state # "starting"

LEMMA ReadyStep ==
    ASSUME TypeOK, ReadyInv, [Next]_vars
    PROVE  ReadyInv'
<1>1. up' = NoUrl => ReadyInv'
  BY DEF ReadyInv
<1>2. up' = up /\ (state' = "starting" => state = "starting") => ReadyInv'
  BY DEF ReadyInv
<1>3. CASE Callers
  BY <1>1, <1>2, <1>3 DEF Callers, PollRetries, PersonRetries, Stop, IdleStop, Kill
<1>4. CASE RetryStep
  <2>1. StartIsStopped \/ SpawnReserved \/ StartSettles \/ StartTimesOut
        => up' = up /\ state' = state
    BY DEF StartIsStopped, SpawnReserved, StartSettles, StartTimesOut, fields
  <2>3. StartHasNoStack \/ StartCannot \/ MarkFailed \/ RetryEnds => up' = up
    BY DEF StartHasNoStack, StartCannot, MarkFailed, RetryEnds
  <2>4. StartHasNoStack \/ StartCannot \/ MarkFailed => state' # "starting"
    BY DEF StartHasNoStack, StartCannot, MarkFailed
  <2>5. RetryEnds => state' = state \/ state' = "failed"
    BY DEF RetryEnds
  <2>2. Start \/ LateKill => up' = NoUrl
    BY DEF Start, LateKill, Kill
  <2>6. SpawnFresh => up' = NoUrl \/ (up' = up /\ state' = state)
    BY DEF SpawnFresh, BeginGeneration
  <2> QED
    BY <1>1, <1>2, <1>4, <2>1, <2>2, <2>3, <2>4, <2>5, <2>6 DEF RetryStep
<1>5. ASSUME NEW t \in Threads, LaunchStep(t)
      PROVE  ReadyInv'
  BY <1>2, <1>5 DEF LaunchStep, LaunchChecks, Popen, LaunchFails, Adopt, Drop, fields
<1>6. ASSUME NEW p \in Procs, ServerStep(p) \/ ReaderStep(p)
      PROVE  ReadyInv'
  BY <1>1, <1>2, <1>6
    DEF ServerStep, PrintsUrl, PrintsReady, PrintsReload, PrintsError, Exits, ReaderStep,
        ReaderEnds, Respawn, RespawnCannot, BeginGeneration, fields
<1>7. ASSUME NEW c \in checks, CheckStep(c)
      PROVE  ReadyInv'
  BY <1>2, <1>7 DEF CheckStep, Probe, Confirm, GivesUp, ReadyInv, fields
<1>8. CASE UNCHANGED vars
  BY <1>2, <1>8 DEF vars, fields
<1> QED
  BY <1>3, <1>4, <1>5, <1>6, <1>7, <1>8 DEF Next

\* The retry thread is at work, or the reader of the process that is owned.
Minder == at[Retry] # Idle \/ \E p \in Procs : proc = p /\ Minds(p)

\* A launch hands what it minds on to the process it started, or keeps it.
LEMMA LaunchIsMinded ==
    ASSUME TypeOK, ChildInv, Minder, NEW t \in Threads, LaunchStep(t)
    PROVE  Minder'
<1> SUFFICES ASSUME at'[Retry] = Idle
             PROVE  Minder'
  BY DEF Minder
<1>1. at[t] = "adopt" => child[t] \in Procs /\ at[child[t]] = Idle /\ child[t] # t
  BY Numbers DEF ChildInv, TypeOK
<1>2. at[Retry] = Idle /\ t # Retry
  BY <1>1, Numbers
    DEF LaunchStep, LaunchChecks, Popen, LaunchFails, Adopt, Drop, Leaves, Goes, AfterLaunch,
        TypeOK
<1>3. PICK p \in Procs : proc = p /\ Minds(p)
  BY <1>2 DEF Minder
<1>4. CASE Adopt(t) /\ Current(t)
  <2>1. proc' = child[t] /\ at'[child[t]] = "read" /\ child[t] \in Procs
    BY <1>1, <1>4, Numbers DEF Adopt, TypeOK
  <2> QED
    BY <2>1 DEF Minder, Minds, Reading
<1>5. CASE ~(Adopt(t) /\ Current(t))
  <2>1. proc' = proc /\ gen' = gen /\ stopped' = stopped
    BY <1>5 DEF LaunchStep, LaunchChecks, Popen, LaunchFails, Adopt, Drop, fields
  <2>2. CASE p # t
    <3>1. at'[p] = at[p] /\ mine'[p] = mine[p]
      BY <1>5, <2>2, Numbers
        DEF LaunchStep, LaunchChecks, Popen, LaunchFails, Adopt, Drop, Leaves, Goes, TypeOK
    <3> QED
      BY <1>3, <2>1, <3>1 DEF Minder, Minds, Reading, Launching, Current
  <2>3. CASE p = t
    <3>1. Launching(t) /\ Current(t)
      BY <1>3, <2>3
        DEF Minds, Reading, LaunchStep, LaunchChecks, Popen, LaunchFails, Adopt, Drop, Launching
    <3>2. \/ at'[t] \in {"popen", "adopt"} /\ mine'[t] = mine[t]
          \/ at'[t] = "unlaunched"
      BY <1>5, <3>1, Numbers
        DEF LaunchStep, LaunchChecks, Popen, LaunchFails, Adopt, Drop, Goes, Launching, TypeOK
    <3> QED
      BY <1>3, <2>1, <2>3, <3>1, <3>2 DEF Minder, Minds, Launching, Current
  <2> QED
    BY <2>2, <2>3
<1> QED
  BY <1>4, <1>5

\* So does a server that prints or exits, and a reader until it says how it ended.
LEMMA ServerIsMinded ==
    ASSUME TypeOK, StoppedIsDown, Minder, NEW q \in Procs, ServerStep(q) \/ ReaderStep(q),
           state' = "starting"
    PROVE  Minder'
<1>1. at'[Retry] = at[Retry]
  BY Numbers
    DEF ServerStep, PrintsUrl, PrintsReady, PrintsReload, PrintsError, Exits, ReaderStep,
        ReaderEnds, Respawn, RespawnCannot, Goes, TypeOK, work
<1> SUFFICES ASSUME at'[Retry] = Idle
             PROVE  Minder'
  BY DEF Minder
<1>2. PICK p \in Procs : proc = p /\ Minds(p)
  BY <1>1 DEF Minder
<1>3. proc' = p /\ ~stopped /\ stopped' = stopped
  BY <1>2, Numbers
    DEF ServerStep, PrintsUrl, PrintsReady, PrintsReload, PrintsError, Exits, ReaderStep,
        ReaderEnds, Respawn, RespawnCannot, StoppedIsDown, fields
<1>4. CASE ServerStep(q)
  <2>1. CASE PrintsReload(q)
    <3>1. p = q /\ at' = at /\ Reading(p)
      BY <1>2, <2>1 DEF PrintsReload, Read, work
    <3> QED
      BY <1>3, <3>1 DEF Minder, Minds, Reading
  <2>2. CASE PrintsUrl(q)
    <3>1. p = q /\ at'[p] = "heard"
      BY <1>2, <2>2, Numbers DEF PrintsUrl, Read, Goes, TypeOK
    <3> QED
      BY <1>3, <3>1 DEF Minder, Minds, Reading
  <2>3. CASE PrintsReady(q) \/ PrintsError(q) \/ Exits(q)
    <3>1. at' = at /\ mine' = mine /\ gen' = gen
      BY <2>3 DEF PrintsReady, PrintsError, Exits, work, fields
    <3> QED
      BY <1>2, <1>3, <3>1 DEF Minder, Minds, Reading, Launching, Current
  <2> QED
    BY <1>4, <2>1, <2>2, <2>3 DEF ServerStep
<1>5. CASE ReaderStep(q)
  <2>1. CASE p # q
    <3>1. at'[p] = at[p] /\ mine' = mine /\ gen' = gen
      BY <1>2, <1>5, <2>1, Numbers
        DEF ReaderStep, ReaderEnds, Respawn, RespawnCannot, Goes, TypeOK
    <3> QED
      BY <1>2, <1>3, <3>1 DEF Minder, Minds, Reading, Launching, Current
  <2>2. CASE p = q
    <3>1. \/ at'[p] = "spawn"
          \/ at'[p] = "launch" /\ mine'[p] = gen'
      BY <1>2, <1>3, <1>5, <2>2, Numbers
        DEF ReaderStep, ReaderEnds, Respawn, RespawnCannot, Reading, BeginGeneration, Goes,
            TypeOK
    <3> QED
      BY <1>3, <3>1 DEF Minder, Minds, Launching, Current
  <2> QED
    BY <2>1, <2>2
<1> QED
  BY <1>4, <1>5

LEMMA MindedStep ==
    ASSUME TypeOK, StoppedIsDown, ChildInv, ReadyInv, StartingIsMinded, [Next]_vars
    PROVE  StartingIsMinded'
<1> SUFFICES ASSUME state' = "starting", asks' > 0
             PROVE  Minder'
  BY DEF StartingIsMinded, Minder
<1>1. state = "starting" /\ asks > 0 => Minder
  BY DEF StartingIsMinded, Minder
<1>2. CASE Callers
  <2>1. at'[Retry] = "enter"
    BY <1>2, Numbers
      DEF Callers, PollRetries, PersonRetries, Stop, IdleStop, ReaderLeaves, Goes, TypeOK
  <2> QED
    BY <2>1, Numbers DEF Minder
<1>3. CASE RetryStep
  <2>1. StartIsStopped \/ StartHasNoStack \/ StartCannot \/ MarkFailed => at'[Retry] = "raise"
    BY Numbers DEF StartIsStopped, StartHasNoStack, StartCannot, MarkFailed, Goes, TypeOK
  <2>2. Start \/ SpawnReserved \/ SpawnFresh \/ LateKill
        => at'[Retry] \in {"spawn", "launch", "wait", "mark"}
    BY Numbers DEF Start, SpawnReserved, SpawnFresh, LateKill, ReaderLeaves, Goes, TypeOK
  <2>3. StartSettles \/ StartTimesOut
        => at'[Retry] \in {"mark", "late"} \/ (up # NoUrl /\ state' = state)
    BY Numbers DEF StartSettles, StartTimesOut, Goes, TypeOK, fields
  <2>4. ~RetryEnds
    BY DEF RetryEnds, StoppedIsDown
  <2> QED
    BY <1>3, <2>1, <2>2, <2>3, <2>4, Numbers DEF RetryStep, Minder, ReadyInv
<1>4. ASSUME NEW t \in Threads, LaunchStep(t)
      PROVE  Minder'
  <2>1. state' = state /\ asks' = asks
    BY <1>4 DEF LaunchStep, LaunchChecks, Popen, LaunchFails, Adopt, Drop, fields, counts
  <2> QED
    BY <1>1, <1>4, <2>1, LaunchIsMinded
<1>5. ASSUME NEW p \in Procs, ServerStep(p) \/ ReaderStep(p)
      PROVE  Minder'
  <2>1. CASE state = "starting" /\ asks > 0
    BY <1>1, <1>5, <2>1, ServerIsMinded
  <2>2. CASE ~(state = "starting" /\ asks > 0)
    <3>1. CASE PrintsReload(p)
      <4>1. at' = at /\ proc' = p /\ Reading(p)
        BY <3>1 DEF PrintsReload, Read, work
      <4> QED
        BY <4>1 DEF Minder, Minds, Reading
    <3>2. CASE Respawn(p)
      <4>1. proc' = p /\ ~stopped' /\ at'[p] = "launch" /\ mine'[p] = gen'
        BY <2>2, <3>2, Numbers DEF Respawn, BeginGeneration, Goes, TypeOK, counts
      <4> QED
        BY <4>1 DEF Minder, Minds, Launching, Current
    <3>3. CASE ~PrintsReload(p) /\ ~Respawn(p)
      <4>1. (state' = "starting" => state = "starting") /\ asks' = asks
        BY <1>5, <3>3
          DEF ServerStep, PrintsUrl, PrintsReady, PrintsError, Exits, ReaderStep, ReaderEnds,
              RespawnCannot, fields, counts
      <4> QED
        BY <2>2, <4>1
    <3> QED
      BY <3>1, <3>2, <3>3
  <2> QED
    BY <2>1, <2>2
<1>6. ASSUME NEW c \in checks, CheckStep(c)
      PROVE  Minder'
  <2>1. state = "starting" /\ asks' = asks /\ at' = at /\ mine' = mine /\ proc' = proc
        /\ gen' = gen /\ stopped' = stopped
    BY <1>6 DEF CheckStep, Probe, Confirm, GivesUp, fields, work, counts
  <2> QED
    BY <1>1, <2>1 DEF Minder, Minds, Reading, Launching, Current
<1>7. CASE UNCHANGED vars
  BY <1>1, <1>7 DEF vars, fields, work, counts, Minder, Minds, Reading, Launching, Current
<1> QED
  BY <1>2, <1>3, <1>4, <1>5, <1>6, <1>7 DEF Next

\* No start, restart or reload, however it fails and whoever else comes in, is left by the
\* last thread that could say how it ended: the safety half of `StartingEnds`.
THEOREM StartsAreMinded == Spec => []StartingIsMinded
<1>1. Init => ReadyInv /\ StartingIsMinded
  BY DEF Init, ReadyInv, StartingIsMinded
<1>2. IInv /\ ReadyInv /\ StartingIsMinded /\ [Next]_vars => ReadyInv' /\ StartingIsMinded'
  BY ReadyStep, MindedStep DEF IInv
<1> QED
  BY <1>1, <1>2, InvariantHolds, PTL DEF Spec

\* What an idle stop stopped stays down until somebody asks, unless it came in the middle
\* of a launch (idle_stop, retry_start).
THEOREM IdleStopHolds == Spec => []UpOnRequestUnlessStrayed
<1>1. IInv => UpOnRequestUnlessStrayed
  BY Zenon DEF IInv, RequestInv, Vacant, UpOnRequestUnlessStrayed, UpOnRequest
<1> QED
  BY <1>1, InvariantHolds, PTL
=============================================================================
