------------------------- MODULE WorkbenchDoorProofs -------------------------
(***************************************************************************)
(* Proofs about WorkbenchDoor, for any number of visits, names, builders   *)
(* and credentials.                                                        *)
(***************************************************************************)
EXTENDS WorkbenchDoor, FiniteSetTheorems, TLAPS

\* A visit that has something to work on has its name; one that has used its last
\* credential is on its way out.
StepInv ==
    /\ \A v \in Visits : visits[v].at \notin {"new", "failed"} => visits[v].name \in Names
    /\ \A v \in Visits : visits[v].refused = Credentials => visits[v].at \in {"rollback", "failed"}

\* A visit has a builder once it has opened one, and a builder that was not launched is
\* nobody's.
BuilderInv ==
    /\ \A v \in Visits :
          visits[v].builder # None => visits[v].at \in {"resume", "poll", "there", "failed"}
    /\ \A b \in Builders : builders[b].state = "unborn" => builders[b].owner = "nobody"

\* Two visits never set up the same repository: it is there, and a Project of its name is
\* one whose creation was not answered.
SetUpInv ==
    /\ \A v \in Visits : visits[v].at \in SettingUp =>
          /\ visits[v].name \in repos
          /\ visits[v].name \in projects => visits[v].name \in unheard
    /\ \A v, w \in Visits :
          visits[v].at \in SettingUp /\ visits[w].at \in SettingUp
             /\ visits[v].name = visits[w].name => v = w

\* The strengthening: SetUpInv keeps one visit's rollback away from another's Project.
IInv ==
    TypeOK /\ StepInv /\ BuilderInv /\ SetUpInv /\ NoStrayRepo /\ ProjectKeepsRepo /\ OwnBuilderOpened

USE DoorAssumption

\* A visit goes on: it changes as it is told and no other does.
LEMMA Moved ==
    ASSUME visits \in [Visits -> VisitStates], NEW v \in Visits, NEW r \in VisitStates,
           Becomes(v, r)
    PROVE  /\ visits' \in [Visits -> VisitStates]
           /\ visits'[v] = r
           /\ \A w \in Visits : w # v => visits'[w] = visits[w]
BY DEF Becomes

\* A visit that only goes to another step.
LEMMA Gone ==
    ASSUME visits \in [Visits -> VisitStates], NEW v \in Visits, NEW step \in Steps, Goes(v, step)
    PROVE  /\ visits' \in [Visits -> VisitStates]
           /\ visits'[v].at = step
           /\ \A w \in Visits : /\ visits'[w].name = visits[w].name
                                /\ visits'[w].builder = visits[w].builder
                                /\ visits'[w].refused = visits[w].refused
                                /\ w # v => visits'[w] = visits[w]
<1>1. [visits[v] EXCEPT !.at = step] \in VisitStates
  BY DEF VisitStates
<1> QED
  BY <1>1, Moved DEF Goes, Becomes, VisitStates

\* A visit that takes a name on its way.
LEMMA Named ==
    ASSUME visits \in [Visits -> VisitStates], NEW v \in Visits, NEW step \in Steps,
           NEW n \in Names \cup {None},
           Becomes(v, [visits[v] EXCEPT !.at = step, !.name = n])
    PROVE  /\ visits' \in [Visits -> VisitStates]
           /\ visits'[v].at = step /\ visits'[v].name = n
           /\ visits'[v].builder = visits[v].builder /\ visits'[v].refused = visits[v].refused
           /\ \A w \in Visits : w # v => visits'[w] = visits[w]
<1>1. [visits[v] EXCEPT !.at = step, !.name = n] \in VisitStates
  BY DEF VisitStates
<1> QED
  BY <1>1, Moved DEF VisitStates, Becomes

\* A visit that takes a builder on its way.
LEMMA Took ==
    ASSUME visits \in [Visits -> VisitStates], NEW v \in Visits, NEW step \in Steps,
           NEW b \in Builders,
           Becomes(v, [visits[v] EXCEPT !.at = step, !.builder = b])
    PROVE  /\ visits' \in [Visits -> VisitStates]
           /\ visits'[v].at = step /\ visits'[v].builder = b
           /\ visits'[v].name = visits[v].name /\ visits'[v].refused = visits[v].refused
           /\ \A w \in Visits : w # v => visits'[w] = visits[w]
<1>1. [visits[v] EXCEPT !.at = step, !.builder = b] \in VisitStates
  BY DEF VisitStates
<1> QED
  BY <1>1, Moved DEF VisitStates, Becomes

\* A visit whose Project is refused tries the next credential or takes its work back.
LEMMA RefusedOnce ==
    ASSUME TypeOK, StepInv, NEW v \in Visits, At(v, "project"), Refused(v)
    PROVE  /\ visits' \in [Visits -> VisitStates]
           /\ visits'[v].at \in {"project", "rollback"}
           /\ visits'[v].refused = Credentials => visits'[v].at = "rollback"
           /\ visits'[v].name = visits[v].name /\ visits'[v].builder = visits[v].builder
           /\ \A w \in Visits : w # v => visits'[w] = visits[w]
<1> DEFINE n == visits[v].refused + 1
           step == IF n = Credentials THEN "rollback" ELSE "project"
<1>1. n \in 0..Credentials
  BY DEF TypeOK, VisitStates, StepInv, At
<1>2. [visits[v] EXCEPT !.refused = n, !.at = step] \in VisitStates
  BY <1>1 DEF TypeOK, VisitStates, Steps
<1>3. Becomes(v, [visits[v] EXCEPT !.refused = n, !.at = step])
  BY DEF Refused
<1> QED
  <2>1. n \in Int /\ step \in {"project", "rollback"} /\ (n = Credentials => step = "rollback")
    BY <1>1
  <2> HIDE DEF n, step
  <2> QED
    BY <1>2, <1>3, <2>1, Moved DEF TypeOK, VisitStates, Becomes

\* A builder that is launched, by this viewer or another.
LEMMA Launched ==
    ASSUME TypeOK, NEW b \in Builders, NEW n \in Names, NEW who \in {"viewer", "other"},
           builders' = [builders EXCEPT ![b] = [project |-> n, owner |-> who, state |-> "booting"]]
    PROVE  /\ builders' \in [Builders -> BuilderStates]
           /\ builders'[b] = [project |-> n, owner |-> who, state |-> "booting"]
           /\ \A c \in Builders : c # b => builders'[c] = builders[c]
BY DEF TypeOK, BuilderStates

\* A builder only changes its state.
LEMMA Restated ==
    ASSUME TypeOK, NEW b \in Builders,
           NEW to \in {"booting", "running", "stopped", "failed", "deleted"},
           builders' = [builders EXCEPT ![b].state = to]
    PROVE  /\ builders' \in [Builders -> BuilderStates]
           /\ \A c \in Builders : /\ builders'[c].project = builders[c].project
                                  /\ builders'[c].owner = builders[c].owner
                                  /\ builders'[c].state \in {builders[c].state, to}
BY DEF TypeOK, BuilderStates

\* What is opened is the viewer's and of the Project that was found.
LEMMA OwnAreOwn ==
    ASSUME NEW n, NEW b \in OwnBuilders(n)
    PROVE  b \in Builders /\ builders[b].owner = "viewer" /\ builders[b].project = n
BY DEF OwnBuilders

\* The stopped ones among them, of which the newest is resumed.
Stopped(n) == {b \in OwnBuilders(n) : Restartable(b)}

\* The places a visit is in and those it goes to.
LEMMA Sets ==
    /\ SettingUp = {"seed", "project", "rollback"} /\ SettingUp \subseteq Steps
    /\ None \notin Names /\ None \notin Builders
BY DEF SettingUp, Steps, None, Names, Builders

------------------------------------------------------------------------------
\* A visit that moves outside the set-up, and leaves the world as it was or only changes
\* builders.
Outside(v) ==
    /\ repos' = repos /\ projects' = projects /\ left' = left /\ unheard' = unheard
    /\ visits' \in [Visits -> VisitStates] /\ \A w \in Visits : w # v => visits'[w] = visits[w]
    /\ visits[v].at \notin SettingUp /\ visits'[v].at \notin SettingUp

LEMMA OutsideKeeps ==
    ASSUME IInv, NEW v \in Visits, Outside(v)
    PROVE  SetUpInv' /\ NoStrayRepo' /\ ProjectKeepsRepo'
<1>1. \A w \in Visits : visits'[w].at \in SettingUp <=> visits[w].at \in SettingUp /\ w # v
  BY DEF Outside
<1>2. SetUpInv'
  BY <1>1 DEF Outside, IInv, SetUpInv
<1>3. {visits'[w].name : w \in {u \in Visits : visits'[u].at \in SettingUp}}
        = {visits[w].name : w \in {u \in Visits : visits[u].at \in SettingUp}}
  BY <1>1 DEF Outside
<1>4. NoStrayRepo' /\ ProjectKeepsRepo'
  BY <1>3 DEF Outside, IInv, NoStrayRepo, ProjectKeepsRepo
<1> QED
  BY <1>2, <1>4

\* Finding or not finding a Default.
LEMMA FindKeeps ==
    ASSUME IInv, NEW v \in Visits, Find(v)
    PROVE  IInv'
<1>1. \E step \in {"repo", "open"}, n \in Names :
         Becomes(v, [visits[v] EXCEPT !.at = step, !.name = n])
  <2>1. 1 \in Names /\ projects \subseteq Names
    BY DEF IInv, TypeOK, Names
  <2> QED
    BY <2>1, Zenon DEF Find
<1>2. PICK step \in {"repo", "open"}, n \in Names :
         Becomes(v, [visits[v] EXCEPT !.at = step, !.name = n])
  BY <1>1, Zenon
<1>3. /\ visits' \in [Visits -> VisitStates]
      /\ visits'[v].at = step /\ visits'[v].name = n
      /\ visits'[v].builder = visits[v].builder /\ visits'[v].refused = visits[v].refused
      /\ \A w \in Visits : w # v => visits'[w] = visits[w]
  BY <1>2, Named, ZenonT(40) DEF IInv, TypeOK, Steps
<1>4. UNCHANGED <<world, shown, left, unheard>> /\ visits[v].at = "new"
  BY Zenon DEF Find, At
<1>5. overlapped' \in BOOLEAN
  BY Zenon DEF Find, IInv, TypeOK, AnotherMakes
<1>6. visits[v].builder = None /\ visits[v].refused # Credentials
  BY <1>4 DEF IInv, BuilderInv, StepInv
<1>7. TypeOK' /\ StepInv' /\ BuilderInv' /\ OwnBuilderOpened'
  BY <1>3, <1>4, <1>5, <1>6 DEF IInv, TypeOK, StepInv, BuilderInv, OwnBuilderOpened, world
<1>8. Outside(v)
  BY <1>3, <1>4, Sets DEF Outside, world
<1> QED
  BY <1>7, <1>8, OutsideKeeps DEF IInv

\* Giving up before there is anything to take back, and the page's polls.
LEMMA PageKeeps ==
    ASSUME IInv, NEW v \in Visits, CannotList(v) \/ Poll(v) \/ PollsNoMore(v)
    PROVE  IInv'
<1>1. PICK step \in {"failed", "there"} : Goes(v, step)
  BY Zenon DEF CannotList, Poll, PollsNoMore, Fails
<1>2. /\ visits' \in [Visits -> VisitStates]
      /\ visits'[v].at = step
      /\ \A w \in Visits : /\ visits'[w].name = visits[w].name
                           /\ visits'[w].builder = visits[w].builder
                           /\ visits'[w].refused = visits[w].refused
                           /\ w # v => visits'[w] = visits[w]
  BY <1>1, Gone DEF IInv, TypeOK, Steps
<1>3. UNCHANGED <<world, history>> /\ visits[v].at \in {"new", "open", "poll"}
  BY Zenon DEF CannotList, Poll, PollsNoMore, At
<1>4. shown' \subseteq Builders
  BY DEF CannotList, Poll, PollsNoMore, IInv, TypeOK, StatusOf, Newest, Listed
<1>5. step # "failed" => visits[v].name \in Names
  <2>1. step # "failed" => visits[v].at = "poll"
    BY <1>1, <1>2, Gone DEF CannotList, Fails, Poll, PollsNoMore, At, Steps, IInv, TypeOK
  <2> QED
    BY <2>1 DEF IInv, StepInv
<1>6. TypeOK' /\ StepInv' /\ BuilderInv' /\ OwnBuilderOpened'
  BY <1>2, <1>3, <1>4, <1>5
    DEF IInv, TypeOK, StepInv, BuilderInv, OwnBuilderOpened, world, history
<1>7. Outside(v)
  BY <1>2, <1>3, Sets DEF Outside, world, history
<1> QED
  BY <1>6, <1>7, OutsideKeeps DEF IInv

\* Reusing, resuming or launching: the builder taken is one of the viewer's own.
LEMMA ListKeeps ==
    ASSUME IInv, NEW v \in Visits, ListBuilders(v)
    PROVE  IInv'
<1>0. visits \in [Visits -> VisitStates] /\ shown \subseteq Builders
  BY DEF IInv, TypeOK
<1>1. UNCHANGED <<world, left, unheard>> /\ visits[v].at = "open"
  BY Zenon DEF ListBuilders, At
<1>2. overlapped' \in BOOLEAN
  BY Zenon DEF ListBuilders, IInv, TypeOK, AnotherMakes
<1>3. /\ visits' \in [Visits -> VisitStates] /\ shown' \subseteq Builders
      /\ visits'[v].at \in {"poll", "resume", "launch"}
      /\ visits'[v].builder \in OwnBuilders(visits[v].name) \/ visits'[v].builder = None
      /\ visits'[v].at = "launch" => visits'[v].builder = None
      /\ visits'[v].name = visits[v].name /\ visits'[v].refused = visits[v].refused
      /\ \A w \in Visits : w # v => visits'[w] = visits[w]
  <2>1. CASE \E b \in OwnBuilders(visits[v].name) : Arrives(v, b)
    <3>1. PICK b \in OwnBuilders(visits[v].name) : Arrives(v, b)
      BY <2>1
    <3>2. b \in Builders
      BY OwnAreOwn
    <3>3. shown' \subseteq Builders
      BY <1>0, <3>1, <3>2 DEF Arrives
    <3>4. Becomes(v, [visits[v] EXCEPT !.at = "poll", !.builder = b])
      BY <3>1, Zenon DEF Arrives
    <3>5. /\ visits' \in [Visits -> VisitStates]
          /\ visits'[v].at = "poll" /\ visits'[v].builder = b
          /\ visits'[v].name = visits[v].name /\ visits'[v].refused = visits[v].refused
          /\ \A w \in Visits : w # v => visits'[w] = visits[w]
      BY <1>0, <3>2, <3>4, Took, Zenon DEF Steps
    <3> QED
      BY <3>1, <3>3, <3>5
  <2>2. CASE /\ UNCHANGED shown
             /\ \E b \in Newest(Stopped(visits[v].name)) :
                   Becomes(v, [visits[v] EXCEPT !.at = "resume", !.builder = b])
    <3>1. PICK b \in Newest(Stopped(visits[v].name)) :
                   Becomes(v, [visits[v] EXCEPT !.at = "resume", !.builder = b])
      BY <2>2, Zenon
    <3>2. b \in OwnBuilders(visits[v].name) /\ b \in Builders
      BY OwnAreOwn DEF Newest, Stopped
    <3>3. /\ visits' \in [Visits -> VisitStates]
          /\ visits'[v].at = "resume" /\ visits'[v].builder = b
          /\ visits'[v].name = visits[v].name /\ visits'[v].refused = visits[v].refused
          /\ \A w \in Visits : w # v => visits'[w] = visits[w]
      BY <1>0, <3>2, <3>1, Took, Zenon DEF Steps
    <3> QED
      BY <1>0, <2>2, <3>2, <3>3
  <2>3. CASE Goes(v, "launch") /\ UNCHANGED shown
    <3>1. visits[v].builder = None
      BY <1>1 DEF IInv, BuilderInv
    <3> QED
      BY <1>0, <2>3, <3>1, Gone DEF Steps
  <2> QED
    BY <2>1, <2>2, <2>3, Zenon DEF ListBuilders, Stopped
<1>4. visits[v].name \in Names /\ visits[v].refused # Credentials
  BY <1>1 DEF IInv, StepInv
<1>5. TypeOK' /\ StepInv' /\ BuilderInv'
  BY <1>1, <1>2, <1>3, <1>4 DEF IInv, TypeOK, StepInv, BuilderInv, world
<1>6. OwnBuilderOpened'
  BY <1>1, <1>3, OwnAreOwn DEF IInv, OwnBuilderOpened, world
<1>7. Outside(v)
  BY <1>1, <1>3, Sets DEF Outside, world
<1> QED
  BY <1>5, <1>6, <1>7, OutsideKeeps DEF IInv

\* A stopped builder is started, or cannot be.
LEMMA ResumeKeeps ==
    ASSUME IInv, NEW v \in Visits, Resume(v)
    PROVE  IInv'
<1>1. PICK step \in {"failed", "poll"} : Goes(v, step)
  BY Zenon DEF Resume, Fails
<1>2. /\ visits' \in [Visits -> VisitStates]
      /\ visits'[v].at = step
      /\ \A w \in Visits : /\ visits'[w].name = visits[w].name
                           /\ visits'[w].builder = visits[w].builder
                           /\ visits'[w].refused = visits[w].refused
                           /\ w # v => visits'[w] = visits[w]
  BY <1>1, Gone DEF IInv, TypeOK, Steps
<1>3. UNCHANGED <<repos, projects, shown, history>> /\ visits[v].at = "resume"
  BY Zenon DEF Resume, At
<1>4. /\ builders' \in [Builders -> BuilderStates]
      /\ \A c \in Builders : /\ builders'[c].project = builders[c].project
                             /\ builders'[c].owner = builders[c].owner
                             /\ builders'[c].state = "unborn" => builders[c].state = "unborn"
  BY DEF Resume, IInv, TypeOK, BuilderStates
<1>5. TypeOK' /\ StepInv' /\ BuilderInv'
  BY <1>2, <1>3, <1>4 DEF IInv, TypeOK, StepInv, BuilderInv, history
<1>6. OwnBuilderOpened'
  BY <1>2, <1>4 DEF IInv, OwnBuilderOpened, TypeOK, VisitStates
<1>7. Outside(v)
  BY <1>2, <1>3, Sets DEF Outside, history
<1> QED
  BY <1>5, <1>6, <1>7, OutsideKeeps DEF IInv

\* A builder is launched for the viewer, and heard of or not.
LEMMA LaunchKeeps ==
    ASSUME IInv, NEW v \in Visits, Launch(v)
    PROVE  IInv'
<1>0. /\ visits \in [Visits -> VisitStates] /\ builders \in [Builders -> BuilderStates]
      /\ visits[v].name \in Names /\ visits[v].at \in {"launch", "builder"}
      /\ visits[v].builder = None /\ visits[v].refused # Credentials
  BY Zenon DEF Launch, IInv, TypeOK, StepInv, BuilderInv
<1>1. UNCHANGED <<repos, projects, shown, history>>
  BY Zenon DEF Launch
<1>2. ASSUME Fails(v), UNCHANGED builders
      PROVE  IInv'
  <2>1. /\ visits' \in [Visits -> VisitStates]
        /\ visits'[v].at = "failed"
        /\ \A w \in Visits : /\ visits'[w].name = visits[w].name
                             /\ visits'[w].builder = visits[w].builder
                             /\ visits'[w].refused = visits[w].refused
                             /\ w # v => visits'[w] = visits[w]
    BY <1>0, <1>2, Gone DEF Fails, Steps
  <2>2. TypeOK' /\ StepInv' /\ BuilderInv' /\ OwnBuilderOpened'
    BY <1>0, <1>1, <1>2, <2>1 DEF IInv, TypeOK, StepInv, BuilderInv, OwnBuilderOpened, history
  <2>3. Outside(v)
    BY <1>0, <1>1, <2>1, Sets DEF Outside, history
  <2> QED
    BY <2>2, <2>3, OutsideKeeps DEF IInv
<1>3. ASSUME NEW b \in Builders, Fresh(b),
             builders' = [builders EXCEPT ![b] = [project |-> visits[v].name,
                             owner |-> "viewer", state |-> "booting"]],
             Becomes(v, [visits[v] EXCEPT !.at = "poll", !.builder = b]) \/ Fails(v)
      PROVE  IInv'
  <2>1. /\ visits' \in [Visits -> VisitStates]
        /\ visits'[v].at \in {"poll", "failed"}
        /\ visits'[v].builder \in {b, None}
        /\ visits'[v].name = visits[v].name /\ visits'[v].refused = visits[v].refused
        /\ \A w \in Visits : w # v => visits'[w] = visits[w]
    <3>1. CASE Becomes(v, [visits[v] EXCEPT !.at = "poll", !.builder = b])
      <4>1. /\ visits' \in [Visits -> VisitStates]
            /\ visits'[v].at = "poll" /\ visits'[v].builder = b
            /\ visits'[v].name = visits[v].name /\ visits'[v].refused = visits[v].refused
            /\ \A w \in Visits : w # v => visits'[w] = visits[w]
        BY <1>0, <3>1, Took, Zenon DEF Steps
      <4> QED
        BY <4>1
    <3>2. CASE Fails(v)
      BY <1>0, <3>2, Gone DEF Fails, Steps
    <3> QED
      BY <1>3, <3>1, <3>2
  <2>2. /\ builders' \in [Builders -> BuilderStates]
        /\ builders'[b] = [project |-> visits[v].name, owner |-> "viewer", state |-> "booting"]
        /\ \A c \in Builders : c # b => builders'[c] = builders[c]
    BY <1>0, <1>3, Launched DEF IInv
  <2>3. \A w \in Visits : visits[w].builder # b
    BY <1>3 DEF IInv, OwnBuilderOpened, BuilderInv, Fresh, Builders, None
  <2>4. TypeOK' /\ StepInv' /\ BuilderInv'
    BY <1>0, <1>1, <2>1, <2>2 DEF IInv, TypeOK, StepInv, BuilderInv, history
  <2>5. OwnBuilderOpened'
    <3>1. ASSUME NEW w \in Visits, visits'[w].builder # None
          PROVE  /\ builders'[visits'[w].builder].owner = "viewer"
                 /\ builders'[visits'[w].builder].project = visits'[w].name
      <4>1. CASE w = v
        BY <2>1, <2>2, <3>1, <4>1
      <4>2. CASE w # v
        BY <1>0, <2>1, <2>2, <2>3, <3>1, <4>2 DEF IInv, OwnBuilderOpened, VisitStates
      <4> QED
        BY <4>1, <4>2
    <3> QED
      BY <3>1 DEF OwnBuilderOpened
  <2>6. Outside(v)
    BY <1>0, <1>1, <2>1, Sets DEF Outside, history
  <2> QED
    BY <2>4, <2>5, <2>6, OutsideKeeps DEF IInv
<1> QED
  BY <1>2, <1>3, Zenon DEF Launch

\* The next candidate of a name that is taken.
LEMMA NextNameKeeps ==
    ASSUME IInv, NEW v \in Visits, NextName(v)
    PROVE  IInv'
<1>0. /\ visits \in [Visits -> VisitStates] /\ visits[v].at = "repo" /\ visits[v].name \in Names
      /\ visits[v].builder = None /\ visits[v].refused # Credentials
      /\ UNCHANGED <<world, shown, history>>
  BY Zenon DEF NextName, At, IInv, TypeOK, StepInv, BuilderInv
<1>1. /\ visits' \in [Visits -> VisitStates]
      /\ visits'[v].at \in {"repo", "failed"} /\ visits'[v].name \in Names
      /\ visits'[v].builder = visits[v].builder /\ visits'[v].refused = visits[v].refused
      /\ \A w \in Visits : w # v => visits'[w] = visits[w]
  <2>1. CASE visits[v].name < MaxNames
    <3>1. visits[v].name + 1 \in Names
      BY <1>0, <2>1 DEF Names
    <3>2. [visits[v] EXCEPT !.name = visits[v].name + 1] \in VisitStates
      BY <1>0, <3>1 DEF VisitStates
    <3>3. visits'[v] = [visits[v] EXCEPT !.name = visits[v].name + 1]
          /\ visits' \in [Visits -> VisitStates]
          /\ \A w \in Visits : w # v => visits'[w] = visits[w]
      BY <1>0, <2>1, <3>2 DEF NextName, Becomes
    <3> QED
      BY <1>0, <3>1, <3>3 DEF VisitStates
  <2>2. CASE ~(visits[v].name < MaxNames)
    <3>1. Goes(v, "failed")
      BY <2>2, Zenon DEF NextName, Fails
    <3> QED
      BY <1>0, <3>1, Gone DEF Steps
  <2> QED
    BY <2>1, <2>2
<1>2. TypeOK' /\ StepInv' /\ BuilderInv' /\ OwnBuilderOpened'
  BY <1>0, <1>1 DEF IInv, TypeOK, StepInv, BuilderInv, OwnBuilderOpened, world, history
<1>3. Outside(v)
  BY <1>0, <1>1, Sets DEF Outside, world, history
<1> QED
  BY <1>2, <1>3, OutsideKeeps DEF IInv

------------------------------------------------------------------------------
\* The set-up: repository, template, Project, and taking the repository back.

\* No repository is stray, one by one.
Kept(m) ==
    \/ m \in projects \/ m \in left
    \/ \E w \in Visits : visits[w].at \in SettingUp /\ visits[w].name = m

LEMMA NoStrayIsKept == NoStrayRepo <=> \A m \in repos : Kept(m)
BY DEF NoStrayRepo, Kept

LEMMA KeptIsNoStray ==
    ASSUME \A m \in repos' : Kept(m)'
    PROVE  NoStrayRepo'
BY DEF NoStrayRepo, Kept

\* What the steps of the set-up have in common: the visit goes to a step at which it has
\* no builder, and its last refusal takes its work back.
SetsUp(v) ==
    /\ visits' \in [Visits -> VisitStates]
    /\ visits'[v].name = visits[v].name /\ visits'[v].builder = None
    /\ visits'[v].at # "new"
    /\ visits'[v].refused = Credentials => visits'[v].at \in {"rollback", "failed"}
    /\ \A w \in Visits : w # v => visits'[w] = visits[w]
    /\ UNCHANGED <<builders, shown, overlapped>>
    /\ repos' \subseteq Names /\ projects' \subseteq Names /\ left' \subseteq Names
    /\ unheard' \subseteq Names

LEMMA SetUpTypes ==
    ASSUME IInv, NEW v \in Visits, visits[v].name \in Names, SetsUp(v)
    PROVE  TypeOK' /\ StepInv' /\ BuilderInv' /\ OwnBuilderOpened'
BY DEF SetsUp, IInv, TypeOK, StepInv, BuilderInv, OwnBuilderOpened

\* Where a visit of the set-up is.
LEMMA SetUpPlace ==
    ASSUME IInv, NEW v \in Visits, visits[v].at \in {"repo", "seed", "project", "rollback"}
    PROVE  /\ visits \in [Visits -> VisitStates] /\ visits[v].name \in Names
           /\ visits[v].builder = None
           /\ visits[v].at # "rollback" => visits[v].refused # Credentials
BY DEF IInv, TypeOK, StepInv, BuilderInv

LEMMA CreateRepoKeeps ==
    ASSUME IInv, NEW v \in Visits, CreateRepo(v)
    PROVE  IInv'
<1> DEFINE n == visits[v].name
<1>0. /\ visits \in [Visits -> VisitStates] /\ n \in Names /\ visits[v].builder = None
      /\ visits[v].at = "repo" /\ visits[v].refused # Credentials /\ n \notin repos
  BY SetUpPlace DEF CreateRepo, At
<1>1. UNCHANGED <<projects, builders, shown, unheard, overlapped>>
  BY Zenon DEF CreateRepo
<1>2. PICK step \in {"seed", "failed"} :
         /\ Goes(v, step)
         /\ \/ step = "seed" /\ repos' = repos \cup {n} /\ left' = left
            \/ step = "failed" /\ repos' = repos \cup {n} /\ left' = left \cup {n}
            \/ step = "failed" /\ repos' = repos /\ left' = left
  BY Zenon DEF CreateRepo, Fails
<1>3. /\ visits' \in [Visits -> VisitStates]
      /\ visits'[v].at = step
      /\ \A w \in Visits : /\ visits'[w].name = visits[w].name
                           /\ visits'[w].builder = visits[w].builder
                           /\ visits'[w].refused = visits[w].refused
                           /\ w # v => visits'[w] = visits[w]
  BY <1>0, <1>2, Gone DEF Steps
<1>4. SetsUp(v)
  BY <1>0, <1>1, <1>2, <1>3 DEF SetsUp, IInv, TypeOK
<1>5. \A w \in Visits : visits[w].at \in SettingUp => visits[w].name # n
  BY <1>0 DEF IInv, SetUpInv
<1>6. n \in projects => n \in unheard
  BY <1>0 DEF IInv, ProjectKeepsRepo
<1>7. SetUpInv'
  BY <1>1, <1>2, <1>3, <1>5, <1>6, Sets DEF IInv, SetUpInv
<1>8. ProjectKeepsRepo'
  BY <1>1, <1>2 DEF IInv, ProjectKeepsRepo
<1>9. ASSUME NEW m \in repos'
      PROVE  Kept(m)'
  <2>1. CASE m = n
    BY <1>0, <1>2, <1>3, <1>9, <2>1, Sets DEF Kept
  <2>2. CASE m # n
    <3>1. m \in repos /\ Kept(m)
      BY <1>2, <1>9, <2>2, NoStrayIsKept DEF IInv
    <3> QED
      BY <1>0, <1>1, <1>2, <1>3, <3>1, Sets DEF Kept
  <2> QED
    BY <2>1, <2>2
<1> QED
  BY <1>0, <1>4, <1>7, <1>8, <1>9, SetUpTypes, KeptIsNoStray DEF IInv

LEMMA SeedKeeps ==
    ASSUME IInv, NEW v \in Visits, Seed(v)
    PROVE  IInv'
<1>0. /\ visits \in [Visits -> VisitStates] /\ visits[v].name \in Names
      /\ visits[v].builder = None /\ visits[v].at = "seed" /\ visits[v].refused # Credentials
  BY SetUpPlace DEF Seed, At
<1>1. PICK step \in {"project", "rollback"} : Goes(v, step)
  BY Zenon DEF Seed
<1>2. /\ visits' \in [Visits -> VisitStates]
      /\ visits'[v].at = step
      /\ \A w \in Visits : /\ visits'[w].name = visits[w].name
                           /\ visits'[w].builder = visits[w].builder
                           /\ visits'[w].refused = visits[w].refused
                           /\ w # v => visits'[w] = visits[w]
  BY <1>0, <1>1, Gone DEF Steps
<1>3. UNCHANGED <<world, shown, history>>
  BY Zenon DEF Seed
<1>4. SetsUp(v)
  BY <1>0, <1>2, <1>3 DEF SetsUp, IInv, TypeOK, world, history
<1>5. \A w \in Visits : visits'[w].at \in SettingUp <=> visits[w].at \in SettingUp
  BY <1>0, <1>2, Sets
<1>6. SetUpInv' /\ ProjectKeepsRepo'
  BY <1>2, <1>3, <1>5 DEF IInv, SetUpInv, ProjectKeepsRepo, world, history
<1>7. \A m \in repos' : Kept(m)'
  BY <1>2, <1>3, <1>5, NoStrayIsKept DEF IInv, Kept, world, history
<1> QED
  BY <1>0, <1>4, <1>6, <1>7, SetUpTypes, KeptIsNoStray DEF IInv

LEMMA CreateProjectKeeps ==
    ASSUME IInv, NEW v \in Visits, CreateProject(v)
    PROVE  IInv'
<1> DEFINE n == visits[v].name
<1>0. /\ visits \in [Visits -> VisitStates] /\ n \in Names /\ visits[v].builder = None
      /\ visits[v].at = "project" /\ visits[v].refused # Credentials
  BY SetUpPlace DEF CreateProject, At
<1>1. UNCHANGED <<repos, builders, shown, left, overlapped>>
  BY Zenon DEF CreateProject
<1>2. /\ n \in repos /\ (n \in projects => n \in unheard)
      /\ \A w \in Visits : visits[w].at \in SettingUp /\ w # v => visits[w].name # n
  BY <1>0, Sets DEF IInv, SetUpInv
<1>3. /\ visits' \in [Visits -> VisitStates]
      /\ \A w \in Visits : /\ visits'[w].name = visits[w].name
                           /\ visits'[w].builder = visits[w].builder
                           /\ w # v => visits'[w] = visits[w]
      /\ visits'[v].refused = Credentials => visits'[v].at = "rollback"
      /\ \/ visits'[v].at = "builder" /\ projects' = projects \cup {n} /\ unheard' = unheard
         \/ /\ visits'[v].at \in {"project", "rollback"}
            /\ \/ projects' = projects \cup {n} /\ unheard' = unheard \cup {n}
               \/ projects' = projects /\ unheard' = unheard
  <2>1. CASE Goes(v, "builder") /\ projects' = projects \cup {n} /\ unheard' = unheard
    BY <1>0, <2>1, Gone DEF Steps
  <2>2. CASE Refused(v) /\ \/ projects' = projects \cup {n} /\ unheard' = unheard \cup {n}
                           \/ projects' = projects /\ unheard' = unheard
    <3>1. At(v, "project") /\ TypeOK /\ StepInv
      BY <1>0 DEF At, IInv
    <3> QED
      BY <2>2, <3>1, RefusedOnce
  <2> QED
    BY <2>1, <2>2, Zenon DEF CreateProject
<1>4. SetsUp(v)
  BY <1>0, <1>1, <1>3 DEF SetsUp, IInv, TypeOK
<1>5. \A w \in Visits : w # v => (visits'[w].at \in SettingUp <=> visits[w].at \in SettingUp)
  BY <1>3
<1>6. SetUpInv'
  BY <1>0, <1>1, <1>2, <1>3, <1>5, Sets DEF IInv, SetUpInv
<1>7. ProjectKeepsRepo'
  BY <1>1, <1>2, <1>3 DEF IInv, ProjectKeepsRepo
<1>8. ASSUME NEW m \in repos'
      PROVE  Kept(m)'
  <2>1. m \in repos /\ Kept(m)
    BY <1>1, <1>8, NoStrayIsKept DEF IInv
  <2>2. CASE m = n
    BY <1>3, <2>2, Sets DEF Kept
  <2>3. CASE m # n
    BY <1>1, <1>3, <1>5, <2>1, <2>3 DEF Kept
  <2> QED
    BY <2>2, <2>3
<1> QED
  BY <1>0, <1>4, <1>6, <1>7, <1>8, SetUpTypes, KeptIsNoStray DEF IInv

LEMMA RollbackKeeps ==
    ASSUME IInv, NEW v \in Visits, Rollback(v)
    PROVE  IInv'
<1> DEFINE n == visits[v].name
<1>0. /\ visits \in [Visits -> VisitStates] /\ n \in Names /\ visits[v].builder = None
      /\ visits[v].at = "rollback"
  BY SetUpPlace DEF Rollback, At
<1>1. /\ UNCHANGED <<projects, builders, shown, unheard, overlapped>>
      /\ Goes(v, "failed")
      /\ \/ repos' = repos \ {n} /\ left' = left
         \/ repos' = repos /\ left' = left \cup {n}
  BY Zenon DEF Rollback, Fails
<1>2. /\ visits' \in [Visits -> VisitStates]
      /\ visits'[v].at = "failed"
      /\ \A w \in Visits : /\ visits'[w].name = visits[w].name
                           /\ visits'[w].builder = visits[w].builder
                           /\ visits'[w].refused = visits[w].refused
                           /\ w # v => visits'[w] = visits[w]
  BY <1>0, <1>1, Gone DEF Steps
<1>3. SetsUp(v)
  BY <1>0, <1>1, <1>2 DEF SetsUp, IInv, TypeOK
<1>4. /\ n \in projects => n \in unheard
      /\ \A w \in Visits : visits[w].at \in SettingUp /\ w # v => visits[w].name # n
  BY <1>0, Sets DEF IInv, SetUpInv
<1>5. \A w \in Visits : visits'[w].at \in SettingUp <=> visits[w].at \in SettingUp /\ w # v
  BY <1>2, Sets
<1>6. SetUpInv' /\ ProjectKeepsRepo'
  BY <1>1, <1>2, <1>4, <1>5 DEF IInv, SetUpInv, ProjectKeepsRepo
<1>7. ASSUME NEW m \in repos'
      PROVE  Kept(m)'
  <2>1. m \in repos /\ Kept(m)
    BY <1>1, <1>7, NoStrayIsKept DEF IInv
  <2>2. CASE m = n
    BY <1>1, <1>7, <2>2 DEF Kept
  <2>3. CASE m # n
    BY <1>1, <1>2, <1>5, <2>1, <2>3 DEF Kept
  <2> QED
    BY <2>2, <2>3
<1> QED
  BY <1>0, <1>3, <1>6, <1>7, SetUpTypes, KeptIsNoStray DEF IInv

------------------------------------------------------------------------------
\* What happens around the visits.

\* The App dies: every visit that had work under way has failed.
LEMMA CrashKeeps ==
    ASSUME IInv, Crash
    PROVE  IInv'
<1>0. visits \in [Visits -> VisitStates]
  BY DEF IInv, TypeOK
<1>1. /\ UNCHANGED <<world, shown, unheard, overlapped>>
      /\ left' = left \cup {visits[v].name : v \in {w \in Visits : visits[w].at \in SettingUp}}
  BY Zenon DEF Crash
<1>2. /\ visits' \in [Visits -> VisitStates]
      /\ \A w \in Visits : /\ visits'[w].name = visits[w].name
                           /\ visits'[w].builder = visits[w].builder
                           /\ visits'[w].refused = visits[w].refused
                           /\ \/ visits'[w].at = "failed"
                              \/ /\ visits'[w].at = visits[w].at
                                 /\ visits[w].at \in {"new", "poll", "there"}
  BY <1>0 DEF Crash, VisitStates, Steps
<1>3. left' \subseteq Names
  BY <1>1, Sets DEF IInv, TypeOK, StepInv
<1>4. TypeOK' /\ StepInv' /\ BuilderInv' /\ OwnBuilderOpened'
  BY <1>1, <1>2, <1>3 DEF IInv, TypeOK, StepInv, BuilderInv, OwnBuilderOpened, world
<1>5. \A w \in Visits : visits'[w].at \notin SettingUp
  BY <1>2, Sets
<1>6. SetUpInv' /\ ProjectKeepsRepo'
  BY <1>1, <1>5 DEF IInv, SetUpInv, ProjectKeepsRepo, world
<1>7. NoStrayRepo'
  BY <1>1 DEF IInv, NoStrayRepo, world
<1> QED
  BY <1>4, <1>6, <1>7 DEF IInv

\* Domino and a collaborator only change builders, and no builder of a visit changes hands.
LEMMA BuildersKeep ==
    ASSUME IInv, BuilderChanges
    PROVE  IInv'
<1>0. builders \in [Builders -> BuilderStates] /\ visits \in [Visits -> VisitStates]
  BY DEF IInv, TypeOK
<1>1. UNCHANGED <<repos, projects, visits, shown, history>>
  BY Zenon DEF BuilderChanges
<1>2. /\ builders' \in [Builders -> BuilderStates] /\ BuilderInv'
      /\ \A c \in Builders : builders[c].owner = "viewer" =>
            builders'[c].owner = "viewer" /\ builders'[c].project = builders[c].project
  <2>1. CASE \E b \in Builders : Joins(b)
    <3>1. PICK b \in Builders, n \in projects :
             /\ Fresh(b)
             /\ builders' = [builders EXCEPT ![b] =
                    [project |-> n, owner |-> "other", state |-> "booting"]]
      BY <2>1, Zenon DEF Joins
    <3>2. builders[b].owner = "nobody" /\ n \in Names
      BY <3>1 DEF Fresh, IInv, BuilderInv, TypeOK
    <3>3. /\ builders' \in [Builders -> BuilderStates]
          /\ builders'[b] = [project |-> n, owner |-> "other", state |-> "booting"]
          /\ \A c \in Builders : c # b => builders'[c] = builders[c]
      BY <3>1, <3>2, Launched DEF IInv
    <3> QED
      BY <1>1, <3>2, <3>3 DEF IInv, BuilderInv
  <2>2. CASE \E b \in Builders : Boots(b) \/ Stops(b) \/ Breaks(b) \/ Deletes(b)
    <3>1. PICK b \in Builders, to \in {"running", "stopped", "failed", "deleted"} :
             /\ builders[b].state # "unborn"
             /\ builders' = [builders EXCEPT ![b].state = to]
      BY <2>2, Zenon DEF Boots, Stops, Breaks, Deletes, Live
    <3>2. /\ builders' \in [Builders -> BuilderStates]
          /\ \A c \in Builders : /\ builders'[c].project = builders[c].project
                                 /\ builders'[c].owner = builders[c].owner
                                 /\ builders'[c].state \in {builders[c].state, to}
      BY <3>1, Restated DEF IInv
    <3> QED
      BY <1>1, <3>2 DEF IInv, BuilderInv
  <2> QED
    BY <2>1, <2>2, Zenon DEF BuilderChanges
<1>3. TypeOK' /\ StepInv'
  BY <1>1, <1>2 DEF IInv, TypeOK, StepInv, history
<1>4. OwnBuilderOpened'
  BY <1>0, <1>1, <1>2 DEF IInv, OwnBuilderOpened, VisitStates
<1>5. SetUpInv' /\ ProjectKeepsRepo' /\ NoStrayRepo'
  BY <1>1 DEF IInv, SetUpInv, ProjectKeepsRepo, NoStrayRepo, history
<1> QED
  BY <1>2, <1>3, <1>4, <1>5 DEF IInv

\* An archived Project leaves its repository and ends its builders.
LEMMA ArchiveKeeps ==
    ASSUME IInv, Archive
    PROVE  IInv'
<1>0. builders \in [Builders -> BuilderStates] /\ visits \in [Visits -> VisitStates]
  BY DEF IInv, TypeOK
<1>1. UNCHANGED <<repos, visits, shown, unheard, overlapped>>
  BY Zenon DEF Archive
<1>2. PICK n \in projects :
         /\ projects' = projects \ {n}
         /\ left' = left \cup ({n} \cap repos)
         /\ builders' = [b \in Builders |->
                IF builders[b].project = n THEN [builders[b] EXCEPT !.state = "deleted"]
                ELSE builders[b]]
  BY Zenon DEF Archive
<1>3. /\ builders' \in [Builders -> BuilderStates]
      /\ \A c \in Builders : /\ builders'[c].project = builders[c].project
                             /\ builders'[c].owner = builders[c].owner
                             /\ builders'[c].state \in {builders[c].state, "deleted"}
  BY <1>0, <1>2 DEF BuilderStates
<1>4. TypeOK' /\ StepInv' /\ BuilderInv'
  BY <1>1, <1>2, <1>3 DEF IInv, TypeOK, StepInv, BuilderInv
<1>5. OwnBuilderOpened'
  BY <1>0, <1>1, <1>3 DEF IInv, OwnBuilderOpened, VisitStates
<1>6. SetUpInv' /\ ProjectKeepsRepo' /\ NoStrayRepo'
  BY <1>1, <1>2 DEF IInv, SetUpInv, ProjectKeepsRepo, NoStrayRepo
<1> QED
  BY <1>4, <1>5, <1>6 DEF IInv

------------------------------------------------------------------------------
\* The strengthening holds in every state.
THEOREM InvariantHolds == Spec => []IInv
<1>1. Init => IInv
  <2> SUFFICES ASSUME Init
               PROVE  IInv
    OBVIOUS
  <2>1. New \in VisitStates /\ Unborn \in BuilderStates
    BY DEF New, Unborn, VisitStates, BuilderStates, Steps
  <2>2. TypeOK
    BY <2>1 DEF Init, TypeOK
  <2>3. \A v \in Visits : /\ visits[v].at = "new" /\ visits[v].builder = None
                          /\ visits[v].refused = 0
    BY DEF Init, New
  <2>4. StepInv /\ BuilderInv /\ SetUpInv
    BY <2>3, Sets DEF Init, Unborn, StepInv, BuilderInv, SetUpInv
  <2>5. NoStrayRepo /\ ProjectKeepsRepo /\ OwnBuilderOpened
    BY <2>3 DEF Init, NoStrayRepo, ProjectKeepsRepo, OwnBuilderOpened
  <2> QED
    BY <2>2, <2>4, <2>5 DEF IInv
<1>2. IInv /\ [Next]_vars => IInv'
  <2> SUFFICES ASSUME IInv, [Next]_vars
               PROVE  IInv'
    OBVIOUS
  <2>1. ASSUME NEW v \in Visits, VisitStep(v)
        PROVE  IInv'
    BY <2>1, FindKeeps, PageKeeps, ListKeeps, ResumeKeeps, LaunchKeeps, NextNameKeeps,
       CreateRepoKeeps, SeedKeeps, CreateProjectKeeps, RollbackKeeps DEF VisitStep
  <2>2. CASE UNCHANGED vars
    BY <2>2 DEF vars, world, history, IInv, TypeOK, StepInv, BuilderInv, SetUpInv, NoStrayRepo,
                ProjectKeepsRepo, OwnBuilderOpened
  <2> QED
    BY <2>1, <2>2, CrashKeeps, BuildersKeep, ArchiveKeeps DEF Next
<1> QED
  BY <1>1, <1>2, PTL DEF Spec

\* Every variable keeps its type: names stay within the limit, and no visit is refused
\* more often than there are credentials.
THEOREM TypeCorrect == Spec => []TypeOK
<1>1. IInv => TypeOK
  BY DEF IInv
<1> QED
  BY <1>1, InvariantHolds, PTL

\* Whatever is refused, unanswered or dies, a repository is a Project's, a visit's that is
\* setting it up, or one of those the code cannot take back.
THEOREM RepositoriesAreAccountedFor == Spec => []NoStrayRepo
<1>1. IInv => NoStrayRepo
  BY DEF IInv
<1> QED
  BY <1>1, InvariantHolds, PTL

\* No rollback, of whichever visit, takes the repository of a Project away, but for a
\* Project whose creation was not answered.
THEOREM ProjectsKeepTheirRepositories == Spec => []ProjectKeepsRepo
<1>1. IInv => ProjectKeepsRepo
  BY DEF IInv
<1> QED
  BY <1>1, InvariantHolds, PTL

\* A visit reuses, resumes and launches builders of its viewer, in the Project it found.
THEOREM VisitsOpenTheirOwn == Spec => []OwnBuilderOpened
<1>1. IInv => OwnBuilderOpened
  BY DEF IInv
<1> QED
  BY <1>1, InvariantHolds, PTL
------------------------------------------------------------------------------
(****************************************************************************)
(* One Default and one builder in it, while no two visits overlap.          *)
(****************************************************************************)
\* A builder that Domino lists is in a Project that exists: an archived Project takes
\* its builders along, so a name that is used again starts without any.
ListedInv ==
    \A b \in Builders :
       builders[b].state \notin {"unborn", "deleted"} => builders[b].project \in projects

\* One visit at most is on its way to make something, and what it makes is not there:
\* no Project while it looks for a name, none but its own (of a call that was not
\* answered) while it creates one, no builder of the viewer's that would be used while it launches one.
SoleInv ==
    /\ \A v, w \in Visits : visits[v].at \in Making /\ visits[w].at \in Making => v = w
    /\ \A m, n \in projects : m = n
    /\ \A v \in Visits : visits[v].at \in {"repo", "seed"} => projects = {}
    /\ \A v \in Visits : visits[v].at = "project" => projects \subseteq {visits[v].name}
    /\ \A v \in Visits :
          visits[v].at \in {"builder", "launch"} => Usable(visits[v].name) = {}
    /\ \A n \in Names : \A b, c \in Usable(n) : b = c

DefaultInv == ListedInv /\ (overlapped \/ SoleInv)

LEMMA MakingIs == Making = {"seed", "project", "rollback", "repo", "builder", "launch"}
BY DEF Making, SettingUp

\* Only visit v moves.
Moves(v) ==
    visits' \in [Visits -> VisitStates] /\ \A w \in Visits : w # v => visits'[w] = visits[w]

\* A step after which nobody makes anything new and nothing is there that was not.
LEMMA Subsides ==
    ASSUME IInv, overlapped \/ SoleInv, overlapped' = overlapped,
           projects' \subseteq projects,
           \A n \in Names : Usable(n)' \subseteq Usable(n),
           \A w \in Visits : visits'[w].at \in Making =>
              visits'[w].at = visits[w].at /\ visits'[w].name = visits[w].name
    PROVE  overlapped' \/ SoleInv'
<1> SUFFICES ASSUME SoleInv
             PROVE  SoleInv'
  OBVIOUS
<1>1. \A w \in Visits : visits[w].at \in Making => visits[w].name \in Names
  BY MakingIs DEF IInv, StepInv
<1>2. \A v, w \in Visits : visits'[v].at \in Making /\ visits'[w].at \in Making => v = w
  BY DEF SoleInv
<1>3. /\ \A m, n \in projects' : m = n
      /\ \A n \in Names : \A b, c \in Usable(n)' : b = c
  BY DEF SoleInv
<1>4. ASSUME NEW v \in Visits
      PROVE  /\ visits'[v].at \in {"repo", "seed"} => projects' = {}
             /\ visits'[v].at = "project" => projects' \subseteq {visits'[v].name}
  BY <1>4, MakingIs DEF SoleInv
<1>5. ASSUME NEW v \in Visits, visits'[v].at \in {"builder", "launch"}
      PROVE  Usable(visits[v].name)' = {}
  <2>1. visits[v].at \in {"builder", "launch"} /\ visits'[v].name = visits[v].name
        /\ visits[v].name \in Names
    BY <1>1, <1>5, MakingIs
  <2>2. Usable(visits[v].name) = {}
    BY <2>1 DEF SoleInv
  <2>3. Usable(visits[v].name)' \subseteq Usable(visits[v].name)
    BY <2>1
  <2> QED
    BY <2>2, <2>3
<1> QED
  BY <1>2, <1>3, <1>4, <1>5 DEF SoleInv

\* The builders of the viewer's are those they were unless builders changed.
LEMMA SameBuilders ==
    ASSUME builders' = builders
    PROVE  ListedInv /\ projects \subseteq projects' => ListedInv'
BY DEF ListedInv

\* Nobody else is making anything when a visit finds that something is to be made.
LEMMA Alone ==
    ASSUME NEW v \in Visits, Moves(v), ~AnotherMakes
    PROVE  \A u, w \in Visits : visits'[u].at \in Making /\ visits'[w].at \in Making => u = w
BY DEF Moves, AnotherMakes

LEMMA FindSole ==
    ASSUME IInv, DefaultInv, NEW v \in Visits, Find(v)
    PROVE  DefaultInv'
<1>0. visits \in [Visits -> VisitStates] /\ UNCHANGED world /\ ListedInv'
  BY DEF Find, world, IInv, TypeOK, DefaultInv, ListedInv
<1>1. \A n \in Names : Usable(n)' = Usable(n)
  BY <1>0 DEF Usable, world
<1>2. CASE /\ projects = {} /\ overlapped' = (overlapped \/ AnotherMakes)
           /\ Becomes(v, [visits[v] EXCEPT !.at = "repo", !.name = 1])
  <2>1. 1 \in Names
    BY DEF Names
  <2>2. Moves(v) /\ visits'[v].at = "repo"
    <3>1. /\ visits' \in [Visits -> VisitStates] /\ visits'[v].at = "repo"
          /\ \A w \in Visits : w # v => visits'[w] = visits[w]
      BY <1>0, <1>2, <2>1, Named, ZenonT(40) DEF Steps
    <3> QED
      BY <3>1 DEF Moves
  <2>3. SUFFICES ASSUME ~overlapped, ~AnotherMakes, SoleInv
                 PROVE  SoleInv'
    BY <1>0, <1>2 DEF DefaultInv
  <2>4. \A w \in Visits : w # v => visits'[w].at \notin Making
    BY <2>2, <2>3 DEF Moves, AnotherMakes
  <2>5. \A u, w \in Visits : visits'[u].at \in Making /\ visits'[w].at \in Making => u = w
    BY <2>2, <2>3, Alone
  <2>6. projects' = {}
    BY <1>0, <1>2 DEF world
  <2>7. \A w \in Visits : visits'[w].at \notin {"builder", "launch"}
    BY <2>2, <2>4, MakingIs
  <2>8. \A n \in Names : \A b, c \in Usable(n)' : b = c
    BY <1>1, <2>3 DEF SoleInv
  <2> QED
    BY <2>5, <2>6, <2>7, <2>8 DEF SoleInv
<1>3. CASE /\ UNCHANGED overlapped
           /\ \E n \in projects : Becomes(v, [visits[v] EXCEPT !.at = "open", !.name = n])
  <2>1. Moves(v) /\ visits'[v].at = "open"
    <3>1. PICK n \in projects : Becomes(v, [visits[v] EXCEPT !.at = "open", !.name = n])
      BY <1>3, Zenon
    <3>2. n \in Names
      BY DEF IInv, TypeOK
    <3>3. /\ visits' \in [Visits -> VisitStates] /\ visits'[v].at = "open"
          /\ \A w \in Visits : w # v => visits'[w] = visits[w]
      BY <1>0, <3>1, <3>2, Named, ZenonT(40) DEF Steps
    <3> QED
      BY <3>3 DEF Moves
  <2>2. overlapped' \/ SoleInv'
    BY <1>0, <1>1, <1>3, <2>1, Subsides, MakingIs DEF DefaultInv, Moves, world
  <2> QED
    BY <1>0, <2>2 DEF DefaultInv
<1> QED
  BY <1>2, <1>3, Zenon DEF Find

\* A step of a visit that leaves the world alone and goes where nothing is made.
LEMMA QuietSole ==
    ASSUME IInv, DefaultInv, NEW v \in Visits, NEW step \in Steps \ Making, Goes(v, step),
           UNCHANGED <<projects, builders, overlapped>>
    PROVE  DefaultInv'
<1>1. Moves(v) /\ visits'[v].at = step
  BY Gone DEF IInv, TypeOK, Moves
<1>2. \A n \in Names : Usable(n)' = Usable(n)
  BY DEF Usable
<1>3. overlapped' \/ SoleInv'
  BY <1>1, <1>2, Subsides DEF DefaultInv, Moves
<1> QED
  BY <1>3, SameBuilders DEF DefaultInv

LEMMA ListSole ==
    ASSUME IInv, DefaultInv, NEW v \in Visits, ListBuilders(v)
    PROVE  DefaultInv'
<1>0. /\ visits \in [Visits -> VisitStates] /\ UNCHANGED world /\ ListedInv'
      /\ visits[v].at = "open" /\ visits[v].name \in Names
  BY DEF ListBuilders, At, world, IInv, TypeOK, StepInv, DefaultInv, ListedInv
<1>1. \A n \in Names : Usable(n)' = Usable(n)
  BY <1>0 DEF Usable, world
<1>2. ASSUME NEW step \in {"poll", "resume"}, NEW b \in OwnBuilders(visits[v].name),
             Becomes(v, [visits[v] EXCEPT !.at = step, !.builder = b]), UNCHANGED overlapped
      PROVE  DefaultInv'
  <2>1. b \in Builders
    BY OwnAreOwn
  <2>2. Moves(v) /\ visits'[v].at = step
    <3>1. /\ visits' \in [Visits -> VisitStates] /\ visits'[v].at = step
          /\ \A w \in Visits : w # v => visits'[w] = visits[w]
      BY <1>0, <1>2, <2>1, Took, ZenonT(40) DEF Steps
    <3> QED
      BY <3>1 DEF Moves
  <2>3. overlapped' \/ SoleInv'
    BY <1>0, <1>1, <1>2, <2>2, Subsides, MakingIs DEF DefaultInv, Moves, world
  <2> QED
    BY <1>0, <2>3 DEF DefaultInv
<1>3. CASE /\ Usable(visits[v].name) = {} /\ Goes(v, "launch")
           /\ overlapped' = (overlapped \/ AnotherMakes)
  <2>1. Moves(v) /\ visits'[v].at = "launch" /\ visits'[v].name = visits[v].name
    BY <1>0, <1>3, Gone DEF Steps, Moves
  <2>2. SUFFICES ASSUME ~overlapped, ~AnotherMakes, SoleInv
                 PROVE  SoleInv'
    BY <1>0, <1>3 DEF DefaultInv
  <2>3. \A w \in Visits : w # v => visits'[w].at \notin Making
    BY <2>1, <2>2 DEF Moves, AnotherMakes
  <2>4. \A u, w \in Visits : visits'[u].at \in Making /\ visits'[w].at \in Making => u = w
    BY <2>1, <2>2, Alone
  <2>5. \A w \in Visits : visits'[w].at \notin {"repo", "seed", "project"}
    BY <2>1, <2>3, MakingIs
  <2>6. \A m, n \in projects' : m = n
    BY <1>0, <2>2 DEF SoleInv, world
  <2>7. \A w \in Visits :
           visits'[w].at \in {"builder", "launch"} => Usable(visits[w].name)' = {}
    <3>1. Usable(visits[v].name)' = {}
      BY <1>0, <1>1, <1>3, <2>1
    <3> QED
      BY <2>3, <3>1, MakingIs
  <2>8. \A n \in Names : \A b, c \in Usable(n)' : b = c
    BY <1>1, <2>2 DEF SoleInv
  <2> QED
    BY <2>4, <2>5, <2>6, <2>7, <2>8 DEF SoleInv
<1>4. CASE \E b \in OwnBuilders(visits[v].name) :
              Becomes(v, [visits[v] EXCEPT !.at = "poll", !.builder = b]) /\ UNCHANGED overlapped
  BY <1>2, <1>4
<1>5. CASE \E b \in Newest(Stopped(visits[v].name)) :
              Becomes(v, [visits[v] EXCEPT !.at = "resume", !.builder = b]) /\ UNCHANGED overlapped
  BY <1>2, <1>5 DEF Newest, Stopped
<1>6. CASE /\ {b \in OwnBuilders(visits[v].name) : Live(b)} = {} /\ Stopped(visits[v].name) = {}
           /\ Goes(v, "launch") /\ overlapped' = (overlapped \/ AnotherMakes)
  <2>1. Usable(visits[v].name) = {}
    BY <1>6 DEF Usable, Stopped, OwnBuilders, Live, Restartable
  <2> QED
    BY <1>3, <1>6, <2>1
<1> QED
  BY <1>4, <1>5, <1>6, Zenon DEF ListBuilders, Arrives, Stopped

\* A builder that changes its state is nobody's new one: none comes back that had failed.
LEMMA StatesSole ==
    ASSUME IInv, DefaultInv, UNCHANGED <<projects, overlapped>>,
           NEW b \in Builders, builders[b].state \notin {"unborn", "deleted"},
           NEW to \in {"booting", "running", "stopped", "failed", "deleted"},
           to \in {"failed", "deleted"} \/ builders[b].state # "failed",
           builders' = [builders EXCEPT ![b].state = to],
           \A w \in Visits : visits'[w].at \in Making =>
              visits'[w].at = visits[w].at /\ visits'[w].name = visits[w].name
    PROVE  DefaultInv'
<1>1. \A c \in Builders : /\ builders'[c].project = builders[c].project
                          /\ builders'[c].owner = builders[c].owner
                          /\ c # b => builders'[c].state = builders[c].state
  BY DEF IInv, TypeOK, BuilderStates
<1>2. ListedInv'
  BY <1>1 DEF DefaultInv, ListedInv
<1>3. ASSUME NEW n \in Names, NEW c \in Usable(n)'
      PROVE  c \in Usable(n)
  <2>1. /\ c \in Builders /\ builders'[c].project = n /\ builders'[c].owner = "viewer"
        /\ builders'[c].state \in {"booting", "running", "stopped"}
    BY <1>3 DEF Usable
  <2>2. builders[c].state \in {"booting", "running", "stopped"}
    <3>1. CASE c = b
      BY <2>1, <3>1 DEF IInv, TypeOK, BuilderStates
    <3>2. CASE c # b
      BY <1>1, <2>1, <3>2
    <3> QED
      BY <3>1, <3>2
  <2> QED
    BY <1>1, <2>1, <2>2 DEF Usable
<1> QED
  BY <1>2, <1>3, Subsides DEF DefaultInv

LEMMA ResumeSole ==
    ASSUME IInv, DefaultInv, NEW v \in Visits, Resume(v)
    PROVE  DefaultInv'
<1> DEFINE b == visits[v].builder
<1>0. UNCHANGED <<projects, overlapped>> /\ visits \in [Visits -> VisitStates]
  BY DEF Resume, history, IInv, TypeOK
<1>1. CASE Fails(v) /\ UNCHANGED builders
  BY <1>0, <1>1, QuietSole, MakingIs DEF Fails, Steps
<1>2. CASE /\ builders[b].state \in {"stopped", "booting", "running"}
           /\ builders' = [builders EXCEPT ![b].state = IF @ = "stopped" THEN "booting" ELSE @]
           /\ Goes(v, "poll")
  <2>1. Moves(v) /\ visits'[v].at = "poll"
    BY <1>0, <1>2, Gone DEF Steps, Moves
  <2>2. \A w \in Visits : visits'[w].at \in Making =>
           visits'[w].at = visits[w].at /\ visits'[w].name = visits[w].name
    BY <2>1, MakingIs DEF Moves
  <2>3. CASE b \in Builders
    <3>1. PICK to \in {"booting", "running"} : builders' = [builders EXCEPT ![b].state = to]
      BY <1>2
    <3> QED
      BY <1>0, <1>2, <2>2, <2>3, <3>1, StatesSole
  <2>4. CASE b \notin Builders
    <3>1. builders' = builders
      BY <1>2, <2>4 DEF IInv, TypeOK
    <3> QED
      BY <1>0, <1>2, <3>1, QuietSole, MakingIs DEF Steps
  <2> QED
    BY <2>3, <2>4
<1> QED
  BY <1>1, <1>2, Zenon DEF Resume

\* The one visit that launches launches the one builder.
LEMMA LaunchSole ==
    ASSUME IInv, DefaultInv, NEW v \in Visits, Launch(v)
    PROVE  DefaultInv'
<1> DEFINE n == visits[v].name
<1>0. /\ visits \in [Visits -> VisitStates] /\ UNCHANGED <<projects, overlapped>>
      /\ visits[v].at \in {"launch", "builder"} /\ n \in Names
  BY DEF Launch, history, IInv, TypeOK, StepInv
<1>1. CASE Fails(v) /\ UNCHANGED builders
  BY <1>0, <1>1, QuietSole, MakingIs DEF Fails, Steps
<1>2. ASSUME NEW b \in Builders, n \in projects,
             builders' = [builders EXCEPT ![b] = [project |-> n,
                             owner |-> "viewer", state |-> "booting"]],
             Becomes(v, [visits[v] EXCEPT !.at = "poll", !.builder = b]) \/ Fails(v)
      PROVE  DefaultInv'
  <2>1. Moves(v) /\ visits'[v].at \in {"poll", "failed"}
    <3>1. CASE Becomes(v, [visits[v] EXCEPT !.at = "poll", !.builder = b])
      <4>1. /\ visits' \in [Visits -> VisitStates] /\ visits'[v].at = "poll"
            /\ \A w \in Visits : w # v => visits'[w] = visits[w]
        BY <1>0, <3>1, Took, ZenonT(40) DEF Steps
      <4> QED
        BY <4>1 DEF Moves
    <3>2. CASE Fails(v)
      BY <1>0, <3>2, Gone DEF Fails, Steps, Moves
    <3> QED
      BY <1>2, <3>1, <3>2
  <2>2. /\ builders'[b] = [project |-> n, owner |-> "viewer", state |-> "booting"]
        /\ \A c \in Builders : c # b => builders'[c] = builders[c]
    BY <1>0, <1>2, Launched DEF IInv
  <2>3. ListedInv'
    BY <1>0, <1>2, <2>2 DEF DefaultInv, ListedInv
  <2>4. SUFFICES ASSUME SoleInv
                 PROVE  SoleInv'
    BY <1>0, <2>3 DEF DefaultInv
  <2>5. \A w \in Visits : visits'[w].at \notin Making
    BY <1>0, <2>1, <2>4, MakingIs DEF Moves, SoleInv
  <2>6. Usable(n) = {}
    BY <1>0, <2>4 DEF SoleInv
  <2>7. \A m \in Names : Usable(m)' = IF m = n THEN {b} ELSE Usable(m) \ {b}
    BY <2>2, <2>6 DEF Usable
  <2>8. \A m \in Names : \A c, d \in Usable(m)' : c = d
    BY <2>4, <2>7 DEF SoleInv
  <2>9. \A m, k \in projects' : m = k
    BY <1>0, <2>4 DEF SoleInv
  <2> QED
    BY <2>5, <2>8, <2>9, MakingIs DEF SoleInv
<1> QED
  BY <1>1, <1>2, Zenon DEF Launch

\* A visit that goes on making, while the world but for the repositories stays as it is.
LEMMA MakesOn ==
    ASSUME IInv, DefaultInv, NEW v \in Visits, Moves(v), visits[v].at \in Making,
           UNCHANGED <<projects, builders, overlapped>>,
           visits'[v].at \in {"repo", "seed", "rollback"} \/
              (visits'[v].at = "project" /\ visits'[v].name = visits[v].name),
           visits'[v].at = "project" => visits[v].at \in {"seed", "project"},
           visits'[v].at \in {"repo", "seed"} => visits[v].at = "repo"
    PROVE  DefaultInv'
<1>1. SUFFICES ASSUME SoleInv
               PROVE  SoleInv'
  BY SameBuilders DEF DefaultInv
<1>2. \A w \in Visits : w # v => visits'[w].at \notin Making
  BY <1>1 DEF Moves, SoleInv
<1>3. \A w \in Visits : w # v => visits'[w].at \notin {"repo", "seed", "project", "builder", "launch"}
  BY <1>2, MakingIs
<1>4. \A m \in Names : Usable(m)' = Usable(m)
  BY DEF Usable
<1>5. /\ visits'[v].at \in {"repo", "seed"} => projects = {}
      /\ visits'[v].at = "project" => projects \subseteq {visits'[v].name}
      /\ visits'[v].at \notin {"builder", "launch"}
  BY <1>1 DEF SoleInv
<1> QED
  BY <1>1, <1>2, <1>3, <1>4, <1>5 DEF SoleInv

LEMMA SetUpSole ==
    ASSUME IInv, DefaultInv, NEW v \in Visits, NextName(v) \/ CreateRepo(v) \/ Seed(v) \/ Rollback(v)
    PROVE  DefaultInv'
<1>0. /\ visits \in [Visits -> VisitStates] /\ UNCHANGED <<projects, builders, overlapped>>
      /\ visits[v].at \in {"repo", "seed", "rollback"}
  BY DEF NextName, CreateRepo, Seed, Rollback, At, world, history, IInv, TypeOK
<1>1. CASE Fails(v)
  BY <1>0, <1>1, QuietSole, MakingIs DEF Fails, Steps
<1>2. CASE NextName(v) /\ Becomes(v, [visits[v] EXCEPT !.name = @ + 1]) /\ visits[v].name < MaxNames
  <2>1. visits[v].name \in Names /\ visits[v].at = "repo"
    BY <1>2 DEF NextName, At, IInv, StepInv
  <2>2. [visits[v] EXCEPT !.name = visits[v].name + 1] \in VisitStates
    BY <1>0, <1>2, <2>1 DEF VisitStates, Names
  <2>3. Moves(v) /\ visits'[v].at = "repo"
    BY <1>0, <1>2, <2>1, <2>2, Moved DEF Moves, VisitStates
  <2> QED
    BY <1>0, <2>1, <2>3, MakesOn, MakingIs
<1>3. ASSUME NEW step \in {"seed", "project", "rollback"}, Goes(v, step),
             step = "seed" => visits[v].at = "repo",
             step = "project" => visits[v].at = "seed"
      PROVE  DefaultInv'
  <2>1. Moves(v) /\ visits'[v].at = step /\ visits'[v].name = visits[v].name
    BY <1>0, <1>3, Gone DEF Steps, Moves
  <2> QED
    BY <1>0, <1>3, <2>1, MakesOn, MakingIs
<1>4. CASE NextName(v)
  BY <1>1, <1>2, <1>4, Zenon DEF NextName
<1>5. CASE CreateRepo(v)
  <2>1. Goes(v, "seed") \/ Fails(v)
    BY <1>5, Zenon DEF CreateRepo
  <2>2. visits[v].at = "repo"
    BY <1>5 DEF CreateRepo, At
  <2> QED
    BY <1>1, <1>3, <2>1, <2>2
<1>6. CASE Seed(v)
  <2>1. visits[v].at = "seed" /\ \E step \in {"project", "rollback"} : Goes(v, step)
    BY <1>6, Zenon DEF Seed, At
  <2> QED
    BY <1>3, <2>1
<1>7. CASE Rollback(v)
  BY <1>1, <1>7, Zenon DEF Rollback
<1> QED
  BY <1>4, <1>5, <1>6, <1>7

\* The Project that is created is the only one, and no builder is left under its name.
LEMMA CreateSole ==
    ASSUME IInv, DefaultInv, NEW v \in Visits, CreateProject(v)
    PROVE  DefaultInv'
<1> DEFINE n == visits[v].name
<1>0. /\ visits \in [Visits -> VisitStates] /\ UNCHANGED <<builders, overlapped>>
      /\ visits[v].at = "project" /\ n \in Names /\ At(v, "project")
      /\ builders \in [Builders -> BuilderStates]
  BY DEF CreateProject, At, IInv, TypeOK, StepInv
<1>1. ASSUME Refused(v)
      PROVE  Moves(v) /\ visits'[v].at \in {"project", "rollback"} /\ visits'[v].name = n
  BY <1>0, <1>1, RefusedOnce DEF Moves, IInv
<1>2. CASE Refused(v) /\ UNCHANGED projects
  BY <1>0, <1>1, <1>2, MakesOn, MakingIs
<1>3. CASE /\ n \notin projects /\ projects' = projects \cup {n}
           /\ Refused(v) \/ Goes(v, "builder")
  <2>1. /\ Moves(v) /\ visits'[v].at \in {"project", "rollback", "builder"}
        /\ visits'[v].name = n
    BY <1>0, <1>1, <1>3, Gone DEF Steps, Moves
  <2>2. ListedInv'
    BY <1>0, <1>3 DEF DefaultInv, ListedInv
  <2>3. SUFFICES ASSUME SoleInv
                 PROVE  SoleInv'
    BY <1>0, <2>2 DEF DefaultInv
  <2>4. \A w \in Visits : w # v => visits'[w].at \notin Making
    BY <1>0, <2>1, <2>3, MakingIs DEF Moves, SoleInv
  <2>5. projects' = {n}
    BY <1>0, <1>3, <2>3 DEF SoleInv
  <2>6. \A m \in Names : Usable(m)' = Usable(m)
    BY <1>0 DEF Usable
  <2>7. Usable(n) = {}
    BY <1>0, <1>3 DEF DefaultInv, ListedInv, Usable, IInv, BuilderInv
  <2>8. \A w \in Visits :
           visits'[w].at \in {"builder", "launch"} => Usable(visits[w].name)' = {}
    BY <1>0, <2>1, <2>4, <2>6, <2>7, MakingIs
  <2>9. \A m \in Names : \A c, d \in Usable(m)' : c = d
    BY <2>3, <2>6 DEF SoleInv
  <2>10. \A w \in Visits : /\ visits'[w].at \notin {"repo", "seed"}
                           /\ visits'[w].at = "project" => visits'[w].name = n
    BY <2>1, <2>4, MakingIs
  <2> QED
    BY <2>1, <2>4, <2>5, <2>8, <2>9, <2>10 DEF SoleInv
<1> QED
  BY <1>2, <1>3, Zenon DEF CreateProject

\* A builder that somebody else opens is not the viewer's.
LEMMA JoinsSole ==
    ASSUME IInv, DefaultInv, NEW b \in Builders, Joins(b), UNCHANGED <<projects, visits, overlapped>>
    PROVE  DefaultInv'
<1>1. PICK n \in projects :
         builders' = [builders EXCEPT ![b] =
                          [project |-> n, owner |-> "other", state |-> "booting"]]
  BY DEF Joins
<1>2. /\ builders'[b] = [project |-> n, owner |-> "other", state |-> "booting"]
      /\ \A c \in Builders : c # b => builders'[c] = builders[c]
  BY <1>1, Launched DEF IInv, TypeOK
<1>3. ListedInv'
  BY <1>1, <1>2 DEF DefaultInv, ListedInv
<1>4. \A m \in Names : Usable(m)' \subseteq Usable(m)
  BY <1>2 DEF Usable
<1> QED
  BY <1>3, <1>4, Subsides DEF DefaultInv

LEMMA WorldSole ==
    ASSUME IInv, DefaultInv, Crash \/ BuilderChanges \/ Archive
    PROVE  DefaultInv'
<1>1. CASE Crash
  <2>1. UNCHANGED <<projects, builders, overlapped>>
    BY <1>1 DEF Crash, world
  <2>2. \A w \in Visits : visits'[w].at \notin Making
    BY <1>1, MakingIs DEF Crash, IInv, TypeOK, VisitStates
  <2>3. \A n \in Names : Usable(n)' = Usable(n)
    BY <2>1 DEF Usable
  <2> QED
    BY <2>1, <2>2, <2>3, Subsides, SameBuilders DEF DefaultInv
<1>2. CASE BuilderChanges
  <2>1. UNCHANGED <<projects, visits, overlapped>>
    BY <1>2 DEF BuilderChanges, history
  <2>2. ASSUME NEW b \in Builders, Boots(b) \/ Stops(b) \/ Breaks(b) \/ Deletes(b)
        PROVE  DefaultInv'
    BY <2>1, <2>2, StatesSole DEF Boots, Stops, Breaks, Deletes, Live
  <2> QED
    BY <1>2, <2>1, <2>2, JoinsSole DEF BuilderChanges
<1>3. CASE Archive
  <2>1. UNCHANGED <<visits, overlapped>>
    BY <1>3 DEF Archive
  <2>2. PICK n \in projects :
           /\ projects' = projects \ {n}
           /\ builders' = [b \in Builders |->
                  IF builders[b].project = n THEN [builders[b] EXCEPT !.state = "deleted"]
                  ELSE builders[b]]
    BY <1>3 DEF Archive
  <2>3. \A c \in Builders : /\ builders'[c].project = builders[c].project
                            /\ builders'[c].owner = builders[c].owner
                            /\ builders'[c].state =
                                  IF builders[c].project = n THEN "deleted" ELSE builders[c].state
    BY <2>2 DEF IInv, TypeOK, BuilderStates
  <2>4. ListedInv'
    BY <2>2, <2>3 DEF DefaultInv, ListedInv
  <2>5. \A m \in Names : Usable(m)' \subseteq Usable(m)
    BY <2>3 DEF Usable
  <2> QED
    BY <2>1, <2>2, <2>4, <2>5, Subsides DEF DefaultInv
<1> QED
  BY <1>1, <1>2, <1>3

\* Whatever failed, died, was archived or went unanswered before: while no two visits
\* overlapped, the viewer has one Default at most, and in it one builder that the next
\* visit would use.
THEOREM OneDefaultOneBuilder == Spec => []OneOfEach
<1>1. Init => DefaultInv
  <2> SUFFICES ASSUME Init
               PROVE  DefaultInv
    OBVIOUS
  <2>1. \A v \in Visits : visits[v].at = "new"
    BY DEF Init, New
  <2>2. \A b \in Builders : builders[b].state = "unborn" /\ builders[b].owner = "nobody"
    BY DEF Init, Unborn
  <2>3. \A n \in Names : Usable(n) = {}
    BY <2>2 DEF Usable
  <2> QED
    BY <2>1, <2>2, <2>3, MakingIs DEF Init, DefaultInv, ListedInv, SoleInv
<1>2. IInv /\ DefaultInv /\ [Next]_vars => DefaultInv'
  <2> SUFFICES ASSUME IInv, DefaultInv, [Next]_vars
               PROVE  DefaultInv'
    OBVIOUS
  <2>1. ASSUME NEW v \in Visits, CannotList(v) \/ Poll(v) \/ PollsNoMore(v)
        PROVE  DefaultInv'
    <3>1. UNCHANGED <<projects, builders, overlapped>>
      BY <2>1 DEF CannotList, Poll, PollsNoMore, world, history
    <3>2. PICK step \in {"failed", "there"} : Goes(v, step)
      BY <2>1, Zenon DEF CannotList, Poll, PollsNoMore, Fails
    <3> QED
      BY <3>1, <3>2, QuietSole, MakingIs DEF Steps
  <2>2. ASSUME NEW v \in Visits, VisitStep(v)
        PROVE  DefaultInv'
    BY <2>1, <2>2, FindSole, ListSole, ResumeSole, LaunchSole, SetUpSole, CreateSole DEF VisitStep
  <2>3. CASE UNCHANGED vars
    BY <2>3 DEF vars, world, history, DefaultInv, ListedInv, SoleInv, Usable
  <2> QED
    BY <2>2, <2>3, WorldSole DEF Next
<1>3. IInv /\ DefaultInv => OneOfEach
  <2> SUFFICES ASSUME IInv, SoleInv
               PROVE  /\ Cardinality(projects) <= 1
                      /\ \A n \in projects : Cardinality(Usable(n)) <= 1
    BY DEF DefaultInv, OneOfEach
  <2>1. ASSUME NEW S, \A x, y \in S : x = y
        PROVE  Cardinality(S) <= 1
    <3>1. CASE S = {}
      BY <3>1, FS_EmptySet
    <3>2. CASE S # {}
      <4>1. PICK x \in S : S = {x}
        BY <2>1, <3>2
      <4> QED
        BY <4>1, FS_Singleton
    <3> QED
      BY <3>1, <3>2
  <2>2. Cardinality(projects) <= 1
    BY <2>1 DEF SoleInv
  <2>3. ASSUME NEW n \in projects
        PROVE  Cardinality(Usable(n)) <= 1
    <3>1. n \in Names
      BY DEF IInv, TypeOK
    <3> QED
      BY <2>1, <3>1 DEF SoleInv
  <2> QED
    BY <2>2, <2>3
<1> QED
  BY <1>1, <1>2, <1>3, InvariantHolds, PTL DEF Spec
==============================================================================
