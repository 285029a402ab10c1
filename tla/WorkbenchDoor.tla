--------------------------- MODULE WorkbenchDoor ---------------------------
(***************************************************************************)
(* The Workbench door (provision/door.py over provision/service.py): each  *)
(* visit of one viewer finds or creates their Default Project, reuses,     *)
(* resumes or launches their builder in it, and the page polls until that  *)
(* builder runs.  Nothing is locked and every step is a call to GitHub or  *)
(* Domino that another visit can come in between of, that can be refused,  *)
(* and whose answer can be lost after it took effect.                      *)
(***************************************************************************)
EXTENDS Integers, FiniteSets

CONSTANTS
    Visits,         \* calls of ensure_default by this viewer
    MaxNames,       \* name_limit: candidates expected, expected-2, ...
    MaxBuilders,    \* bound on the workspaces ever launched
    Credentials     \* how many of the viewer's Git credentials are usable

ASSUME DoorAssumption ==
    /\ MaxNames \in Nat \ {0} /\ MaxBuilders \in Nat /\ Credentials \in Nat \ {0}

Names == 1..MaxNames        \* 1 is the exact name, n the suffix -n
Builders == 1..MaxBuilders  \* in the order of createdAt
None == 0

VARIABLES
    repos,          \* names taken on the Git host
    projects,       \* names of the viewer's Sage Projects in Domino
    builders,       \* workspaces: their Project, owner and state
    visits,         \* per visit: its step, name, builder and refusals so far
    shown,          \* builders the page of some visit was sent to
    left,           \* history: repositories left for a person to delete
    unheard,        \* history: Projects created by a call whose answer was lost
    overlapped      \* history: a visit found nothing while another was about to create it

world == <<repos, projects, builders>>
history == <<left, unheard, overlapped>>
vars == <<world, visits, shown, history>>

Unborn == [project |-> None, owner |-> "nobody", state |-> "unborn"]
New == [at |-> "new", name |-> None, builder |-> None, refused |-> 0]
Steps == {"new", "open", "resume", "launch", "repo", "seed", "project", "rollback",
          "builder", "poll", "there", "failed"}

BuilderStates == [project : Names \cup {None}, owner : {"nobody", "viewer", "other"},
                  state : {"unborn", "booting", "running", "stopped", "failed", "deleted"}]
VisitStates == [at : Steps, name : Names \cup {None}, builder : Builders \cup {None},
                refused : 0..Credentials]

TypeOK ==
    /\ repos \subseteq Names /\ projects \subseteq Names
    /\ builders \in [Builders -> BuilderStates]
    /\ visits \in [Visits -> VisitStates]
    /\ shown \subseteq Builders
    /\ left \subseteq Names /\ unheard \subseteq Names /\ overlapped \in BOOLEAN

Init ==
    /\ repos = {} /\ projects = {}
    /\ builders = [b \in Builders |-> Unborn]
    /\ visits = [v \in Visits |-> New]
    /\ shown = {} /\ left = {} /\ unheard = {} /\ overlapped = FALSE

At(v, step) == visits[v].at = step
Becomes(v, record) == visits' = [visits EXCEPT ![v] = record]
Goes(v, step) == Becomes(v, [visits[v] EXCEPT !.at = step])
Fails(v) == Goes(v, "failed")

SettingUp == {"seed", "project", "rollback"}
Making == SettingUp \cup {"repo", "builder", "launch"}
AnotherMakes == \E w \in Visits : visits[w].at \in Making
-----------------------------------------------------------------------------
(***************************************************************************)
(* Finding the Default.                                                    *)
(***************************************************************************)
\* _find_default: of the Projects with the exact name or a collision suffix
\* (is_default_name), the exact name wins, else the first that is listed.
Find(v) ==
    /\ At(v, "new")
    /\ IF projects = {}
       THEN /\ Becomes(v, [visits[v] EXCEPT !.at = "repo", !.name = 1])
            /\ overlapped' = (overlapped \/ AnotherMakes)
       ELSE /\ \E n \in projects :
                /\ 1 \in projects => n = 1
                /\ Becomes(v, [visits[v] EXCEPT !.at = "open", !.name = n])
            /\ UNCHANGED overlapped
    /\ UNCHANGED <<world, shown, left, unheard>>

\* Any of the calls of a visit may be refused; only those of the set-up have
\* something to take back.
CannotList(v) ==
    /\ visits[v].at \in {"new", "open"}
    /\ Fails(v)
    /\ UNCHANGED <<world, shown, history>>
-----------------------------------------------------------------------------
(***************************************************************************)
(* open_app: a running builder, a stopped one, or a new one.               *)
(***************************************************************************)
\* Mutant: a stopped builder is not looked at.
OwnLive(n) ==
    {b \in Builders : builders[b].project = n /\ builders[b].owner = "viewer"
                      /\ builders[b].state \in {"booting", "running"}}

\* Mutant: every builder of the Project will do.
AnyonesBuilders(n) == {b \in Builders : builders[b].project = n}

\* is_builder_workspace and is_owned_by, with the viewer as owner
OwnBuilders(n) == {b \in Builders : builders[b].project = n /\ builders[b].owner = "viewer"}

Live(b) == builders[b].state \in {"booting", "running"}
Restartable(b) == builders[b].state = "stopped"
Newest(S) == {b \in S : \A c \in S : c <= b}

\* A builder that runs is where the browser goes at once.
Arrives(v, b) ==
    /\ Becomes(v, [visits[v] EXCEPT !.at = "poll", !.builder = b])
    /\ shown' = IF builders[b].state = "running" THEN shown \cup {b} ELSE shown

\* One that failed or was deleted is passed over: a fresh one is launched beside it.
ListBuilders(v) ==
    /\ At(v, "open")
    /\ LET live == {b \in OwnBuilders(visits[v].name) : Live(b)}
           stopped == {b \in OwnBuilders(visits[v].name) : Restartable(b)}
       IN  \/ /\ live # {}
              /\ \E b \in live : Arrives(v, b)
              /\ UNCHANGED overlapped
           \/ /\ live = {} /\ stopped # {}
              /\ \E b \in Newest(stopped) :
                    Becomes(v, [visits[v] EXCEPT !.at = "resume", !.builder = b])
              /\ UNCHANGED <<shown, overlapped>>
           \/ /\ live = {} /\ stopped = {}
              /\ Goes(v, "launch")
              /\ overlapped' = (overlapped \/ AnotherMakes)
              /\ UNCHANGED shown
    /\ UNCHANGED <<world, left, unheard>>

Resume(v) ==
    /\ At(v, "resume")
    /\ LET b == visits[v].builder
       IN  \/ /\ builders[b].state \in {"stopped", "booting", "running"}
              /\ builders' = [builders EXCEPT ![b].state = IF @ = "stopped" THEN "booting" ELSE @]
              /\ Goes(v, "poll")
           \/ Fails(v) /\ UNCHANGED builders
    /\ UNCHANGED <<repos, projects, shown, history>>

\* Mutant: a builder that cannot be launched takes the repository with it.
LaunchOrRollback(v) ==
    /\ visits[v].at \in {"launch", "builder"}
    /\ Goes(v, "rollback")
    /\ UNCHANGED <<world, shown, history>>

\* create_workspace, for an existing Project or for one this visit created.  It
\* needs the repository; an answer that is lost leaves the builder launched.
Fresh(b) == builders[b].state = "unborn" /\ \A c \in Builders : c < b => builders[c].state # "unborn"

Launch(v) ==
    /\ visits[v].at \in {"launch", "builder"}
    /\ \/ \E b \in Builders :
            /\ visits[v].name \in projects /\ visits[v].name \in repos /\ Fresh(b)
            /\ builders' = [builders EXCEPT ![b] = [project |-> visits[v].name,
                                owner |-> "viewer", state |-> "booting"]]
            /\ Becomes(v, [visits[v] EXCEPT !.at = "poll", !.builder = b]) \/ Fails(v)
       \/ Fails(v) /\ UNCHANGED builders
    /\ UNCHANGED <<repos, projects, shown, history>>
-----------------------------------------------------------------------------
(***************************************************************************)
(* create_app: repository, template, Project, builder.                     *)
(***************************************************************************)
\* _create_repo: the next candidate while the name is taken
NextName(v) ==
    /\ At(v, "repo") /\ visits[v].name \in repos
    /\ IF visits[v].name < MaxNames
       THEN Becomes(v, [visits[v] EXCEPT !.name = @ + 1])
       ELSE Fails(v)
    /\ UNCHANGED <<world, shown, history>>

\* Only a repository that was heard of can be rolled back.
CreateRepo(v) ==
    /\ At(v, "repo") /\ visits[v].name \notin repos
    /\ \/ repos' = repos \cup {visits[v].name} /\ Goes(v, "seed") /\ UNCHANGED left
       \/ repos' = repos \cup {visits[v].name} /\ Fails(v) /\ left' = left \cup {visits[v].name}
       \/ Fails(v) /\ UNCHANGED <<repos, left>>
    /\ UNCHANGED <<projects, builders, shown, unheard, overlapped>>

Seed(v) ==
    /\ At(v, "seed")
    /\ \E step \in {"project", "rollback"} : Goes(v, step)
    /\ UNCHANGED <<world, shown, history>>

\* Mutant: a Project that could not be created keeps its repository.
RefusedUnrolled(v) ==
    LET n == visits[v].refused + 1
    IN  Becomes(v, [visits[v] EXCEPT !.refused = n,
                        !.at = IF n = Credentials THEN "failed" ELSE "project"])

Refused(v) ==
    LET n == visits[v].refused + 1
    IN  Becomes(v, [visits[v] EXCEPT !.refused = n,
                        !.at = IF n = Credentials THEN "rollback" ELSE "project"])

\* _create_project: any failure moves on to the next credential, also one of a
\* call that took effect.  The Project has the name of the repository.
CreateProject(v) ==
    /\ At(v, "project")
    /\ LET n == visits[v].name
       IN  \/ /\ n \notin projects
              /\ projects' = projects \cup {n}
              /\ Goes(v, "builder") /\ UNCHANGED unheard
           \/ /\ n \notin projects
              /\ projects' = projects \cup {n}
              /\ Refused(v) /\ unheard' = unheard \cup {n}
           \/ Refused(v) /\ UNCHANGED <<projects, unheard>>
    /\ UNCHANGED <<repos, builders, shown, left, overlapped>>

\* _rollback_repo: best effort
Rollback(v) ==
    /\ At(v, "rollback")
    /\ \/ repos' = repos \ {visits[v].name} /\ UNCHANGED left
       \/ left' = left \cup {visits[v].name} /\ UNCHANGED repos
    /\ Fails(v)
    /\ UNCHANGED <<projects, builders, shown, unheard, overlapped>>

\* The App's process ends: nothing of a visit is kept.
Crash ==
    /\ \E v \in Visits : visits[v].at \in Steps \ {"new", "poll", "there", "failed"}
    /\ left' = left \cup {visits[v].name : v \in {w \in Visits : visits[w].at \in SettingUp}}
    /\ visits' = [v \in Visits |->
            IF visits[v].at \in {"new", "poll", "there"} THEN visits[v]
            ELSE [visits[v] EXCEPT !.at = "failed"]]
    /\ UNCHANGED <<world, shown, unheard, overlapped>>
-----------------------------------------------------------------------------
(***************************************************************************)
(* The door page: it polls /api/door/status until a builder runs.          *)
(***************************************************************************)
\* The answer of /api/door does not name the workspace the door has opened.
PolledId(v) == None

\* workspace_status: the builder asked for if it is listed, else the newest that
\* runs, else the newest; Door.status passes no owner, and one that failed or was
\* deleted stays in the list.  At most one, or none.
Listed(n) == {b \in Builders : builders[b].project = n}

StatusOf(n, id) ==
    LET running == {b \in Listed(n) : builders[b].state = "running"}
    IN  IF id \in Listed(n) THEN {id}
        ELSE IF running # {} THEN Newest(running) ELSE Newest(Listed(n))

Poll(v) ==
    /\ At(v, "poll")
    /\ \E b \in StatusOf(visits[v].name, PolledId(v)) :
        builders[b].state = "running" /\ shown' = shown \cup {b}
    /\ Goes(v, "there")
    /\ UNCHANGED <<world, history>>

\* A builder of the open call that already runs needs no poll; and 120 polls are
\* the most there are.
PollsNoMore(v) ==
    /\ At(v, "poll")
    /\ Goes(v, IF visits[v].builder \in shown THEN "there" ELSE "failed")
    /\ UNCHANGED <<world, shown, history>>
-----------------------------------------------------------------------------
(***************************************************************************)
(* Domino and the people: what the code only sees the outcome of.          *)
(***************************************************************************)
Boots(b) == builders[b].state = "booting" /\ builders' = [builders EXCEPT ![b].state = "running"]
Stops(b) == Live(b) /\ builders' = [builders EXCEPT ![b].state = "stopped"]
Breaks(b) == Live(b) /\ builders' = [builders EXCEPT ![b].state = "failed"]
Deletes(b) ==
    /\ builders[b].state \in {"stopped", "failed"}
    /\ builders' = [builders EXCEPT ![b].state = "deleted"]

\* somebody else the Project is shared with opens their builder in it
Joins(b) ==
    /\ Fresh(b)
    /\ \E n \in projects :
        builders' = [builders EXCEPT ![b] = [project |-> n, owner |-> "other", state |-> "booting"]]

BuilderChanges ==
    /\ \E b \in Builders : Boots(b) \/ Stops(b) \/ Breaks(b) \/ Deletes(b) \/ Joins(b)
    /\ UNCHANGED <<repos, projects, visits, shown, history>>

\* What a Default whose repository is gone is answered with: "archive the Project".
Archive ==
    /\ \E n \in projects :
        /\ projects' = projects \ {n}
        /\ left' = left \cup ({n} \cap repos)
        /\ builders' = [b \in Builders |->
                IF builders[b].project = n THEN [builders[b] EXCEPT !.state = "deleted"]
                ELSE builders[b]]
    /\ UNCHANGED <<repos, visits, shown, unheard, overlapped>>
-----------------------------------------------------------------------------
VisitStep(v) ==
    \/ Find(v) \/ CannotList(v)
    \/ ListBuilders(v) \/ Resume(v) \/ Launch(v)
    \/ NextName(v) \/ CreateRepo(v) \/ Seed(v) \/ CreateProject(v) \/ Rollback(v)
    \/ Poll(v) \/ PollsNoMore(v)

Next == (\E v \in Visits : VisitStep(v)) \/ Crash \/ BuilderChanges \/ Archive

Spec == Init /\ [][Next]_vars
-----------------------------------------------------------------------------
(***************************************************************************)
(* Properties                                                              *)
(***************************************************************************)
\* A visit that fails takes its repository back: every repository belongs to a
\* Project or to a visit that is setting it up, or is one that could not be
\* deleted, was created by a call that was not answered or by an App that died,
\* or whose Project was archived (create_app and _rollback_repo).
NoStrayRepo ==
    repos \subseteq projects \cup {visits[v].name : v \in {w \in Visits : visits[w].at \in SettingUp}}
                   \cup left

\* "Once the project is created the app is real": no failure after that, of this
\* visit or another, deletes its repository.  A Project whose create call was
\* not answered is the exception: it is rolled back under the Project.
ProjectKeepsRepo == \A n \in projects : n \in repos \/ n \in unheard

\* The viewer's builders of a Project that a visit would reuse or resume.
Usable(n) ==
    {b \in Builders : /\ builders[b].project = n /\ builders[b].owner = "viewer"
                      /\ builders[b].state \in {"booting", "running", "stopped"}}

\* "nobody ever gets a second Default", and builders do not pile up in it, as long
\* as no two visits overlap: whatever failed, died, was archived or went
\* unanswered before, the next visit goes on with what is there.  A builder that
\* failed is not gone on with: it stays listed beside the one that replaces it.
OneOfEach ==
    \/ overlapped
    \/ /\ Cardinality(projects) <= 1
       /\ \A n \in projects : Cardinality(Usable(n)) <= 1

\* A visit never reuses or resumes somebody else's builder, nor one of another
\* Project ("attaching is always scoped to the viewer").
OwnBuilderOpened ==
    \A v \in Visits : visits[v].builder # None =>
        LET b == builders[visits[v].builder]
        IN  b.owner = "viewer" /\ b.project = visits[v].name

\* The browser is only ever sent to a builder of the viewer's: the same promise,
\* kept to the end of the visit.
LandsOnOwnBuilder == \A b \in shown : builders[b].owner = "viewer"
=============================================================================
