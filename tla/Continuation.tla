---------------------------- MODULE Continuation ----------------------------
(***************************************************************************)
(* The one continuation a Project holds: what a Build that ran out of room *)
(* offers, a person clicks, and a newer Build or an edit of the plan takes *)
(* back (ContextContinuationRegistry in context_rollover.py, its claim in  *)
(* orchestrator/app.py, its Build in orchestrator/service.py).  A click    *)
(* claims before it has the turn lock, so it waits in the line while other *)
(* turns and plan edits come first.                                        *)
(***************************************************************************)
EXTENDS Integers, FiniteSets

CONSTANTS
    Clicks,         \* requests to continue; each claims at most once
    Nobody,         \* no click
    MaxOffers,      \* bound on the continuations ever offered
    MaxBuilds,      \* bound on the ordinary Builds
    MaxEdits        \* bound on the changes of the plan

ASSUME ContinuationAssumption ==
    /\ Nobody \notin Clicks
    /\ Clicks \cap {"free", "build", "edit"} = {}
    /\ {MaxOffers, MaxBuilds, MaxEdits} \subseteq Nat

VARIABLES
    slot,           \* _record and _claim_token: the id, its state and who claimed it
    offered,        \* per id: what kind of Build it resumes and of which plan version
    plan,           \* version of the approved plan, and whether it is live
    lock,           \* holder of the turn lock: "free", "build", "edit" or a click
    clicks,         \* per click: where it is and the id it claimed
    builds, edits,  \* Builds begun and plan edits made so far
    ran             \* history: how often the Build of an id was started

vars == <<slot, offered, plan, lock, clicks, builds, edits, ran>>

Ids == 1..MaxOffers
Kinds == {"free", "approved", "phase"}
Empty == [id |-> 0, state |-> "invalidated", owner |-> Nobody]
Idle == [at |-> "idle", id |-> 0]

Slots == [id : 0..MaxOffers, state : {"available", "claimed", "invalidated"},
          owner : Clicks \cup {Nobody}]
Offers == [kind : Kinds, version : 0..MaxEdits]
Plans == [version : 0..MaxEdits, live : BOOLEAN]
Places == {"idle", "claimed", "queued", "holding", "running", "done"}
Seats == [at : Places, id : 0..MaxOffers]

TypeOK ==
    /\ slot \in Slots /\ (slot.state = "claimed" => slot.owner # Nobody)
    /\ offered \in [Ids -> Offers]
    /\ plan \in Plans
    /\ lock \in {"free", "build", "edit"} \cup Clicks
    /\ clicks \in [Clicks -> Seats]
    /\ builds \in 0..MaxBuilds /\ edits \in 0..MaxEdits
    /\ ran \in [Ids -> Nat]

Init ==
    /\ slot = Empty
    /\ offered = [i \in Ids |-> [kind |-> "free", version |-> 0]]
    /\ plan = [version |-> 0, live |-> FALSE]
    /\ lock = "free" /\ clicks = [c \in Clicks |-> Idle]
    /\ builds = 0 /\ edits = 0
    /\ ran = [i \in Ids |-> 0]
-----------------------------------------------------------------------------
(***************************************************************************)
(* The registry: one slot under its own lock.                              *)
(***************************************************************************)
Kind(id) == offered[id].kind
OfPlan(id) == id # 0 /\ Kind(id) # "free"

\* offer: the newest replaces whatever the slot held.
Offer(kind) ==
    /\ slot.id < MaxOffers
    /\ slot' = [id |-> slot.id + 1, state |-> "available", owner |-> Nobody]
    /\ offered' = [offered EXCEPT ![slot.id + 1] =
                      [kind |-> kind, version |-> plan.version]]

Invalidated == [slot EXCEPT !.state = "invalidated", !.owner = Nobody]

\* Mutant: a claimed continuation is taken back as well.
InvalidateAny == slot' = Invalidated

\* invalidate_available spares a claimed one.
InvalidateAvailable ==
    slot' = IF slot.state = "available" THEN Invalidated ELSE slot

\* invalidate_plan, for the one approved plan there is.
InvalidatePlan ==
    slot' = IF slot.state = "available" /\ OfPlan(slot.id) THEN Invalidated ELSE slot

\* A token is good for the claim it was drawn for and no other.
Owns(c) == slot.id = clicks[c].id /\ slot.state = "claimed" /\ slot.owner = c

ReleaseRefused(c) ==
    slot' = IF Owns(c) THEN [slot EXCEPT !.state = "available", !.owner = Nobody] ELSE slot

InvalidateClaimed(c) == slot' = IF Owns(c) THEN Invalidated ELSE slot
-----------------------------------------------------------------------------
(***************************************************************************)
(* Ordinary Builds and edits of the plan.                                  *)
(***************************************************************************)

\* Every Build that starts takes the offer back.
BeginBuild ==
    /\ lock = "free" /\ builds < MaxBuilds
    /\ lock' = "build" /\ builds' = builds + 1
    /\ InvalidateAvailable
    /\ UNCHANGED <<offered, plan, clicks, edits, ran>>

\* It ends with its app changed or not, with a plan to approve, with an approved plan
\* built, or out of room.
BuildEnds ==
    /\ lock = "build" /\ lock' = "free"
    /\ \/ UNCHANGED <<slot, offered, plan, edits>>
       \/ /\ ~plan.live /\ edits < MaxEdits /\ edits' = edits + 1
          /\ plan' = [version |-> plan.version + 1, live |-> TRUE]
          /\ UNCHANGED <<slot, offered>>
       \/ /\ plan.live /\ plan' = [plan EXCEPT !.live = FALSE]
          /\ UNCHANGED <<slot, offered, edits>>
       \/ /\ \E kind \in (IF plan.live THEN Kinds ELSE {"free"}) : Offer(kind)
          /\ UNCHANGED <<plan, edits>>
    /\ UNCHANGED <<clicks, builds, ran>>

\* patch_plan_doc and archive_plan_doc of the live plan: refused while a turn runs; the
\* document is written before the offer is taken back.
EditWrites ==
    /\ lock = "free" /\ plan.live /\ edits < MaxEdits
    /\ lock' = "edit" /\ edits' = edits + 1
    /\ \/ plan' = [plan EXCEPT !.version = @ + 1]
       \/ plan' = [plan EXCEPT !.live = FALSE]
    /\ UNCHANGED <<slot, offered, clicks, builds, ran>>

EditInvalidates ==
    /\ lock = "edit" /\ lock' = "free"
    /\ InvalidatePlan
    /\ UNCHANGED <<offered, plan, clicks, builds, edits, ran>>
-----------------------------------------------------------------------------
(***************************************************************************)
(* A click.                                                                *)
(***************************************************************************)
Goes(c, place) == clicks' = [clicks EXCEPT ![c].at = place]

\* claim, for the id the page shows; any other is answered "unavailable" or
\* "already_claimed" and changes nothing.
Claim(c) ==
    /\ clicks[c].at = "idle" /\ slot.state = "available"
    /\ slot' = [slot EXCEPT !.state = "claimed", !.owner = c]
    /\ clicks' = [clicks EXCEPT ![c] = [at |-> "claimed", id |-> slot.id]]
    /\ UNCHANGED <<offered, plan, lock, builds, edits, ran>>

\* The workspace is wedged: the claim is handed back.
Refuse(c) ==
    /\ clicks[c].at = "claimed" /\ Goes(c, "done")
    /\ ReleaseRefused(c)
    /\ UNCHANGED <<offered, plan, lock, builds, edits, ran>>

Queue(c) ==
    /\ clicks[c].at = "claimed" /\ Goes(c, "queued")
    /\ UNCHANGED <<slot, offered, plan, lock, builds, edits, ran>>

\* The ticket is cancelled while it waits, and the generator hands the claim back.
Cancel(c) ==
    /\ clicks[c].at = "queued" /\ Goes(c, "done")
    /\ ReleaseRefused(c)
    /\ UNCHANGED <<offered, plan, lock, builds, edits, ran>>

\* The page is gone before the stream is read: its generator never runs, and the claim
\* stays.
Abandon(c) ==
    /\ clicks[c].at = "queued" /\ Goes(c, "done")
    /\ UNCHANGED <<slot, offered, plan, lock, builds, edits, ran>>

TakeLock(c) ==
    /\ clicks[c].at = "queued" /\ lock = "free"
    /\ lock' = c /\ Goes(c, "holding")
    /\ UNCHANGED <<slot, offered, plan, builds, edits, ran>>

\* approved_plan_is_current
Current(id) == plan = [version |-> offered[id].version, live |-> TRUE]

\* Mutant: the plan is not looked at again.
StartUnchecked(c) ==
    /\ clicks[c].at = "holding" /\ Goes(c, "running")
    /\ ran' = [ran EXCEPT ![clicks[c].id] = @ + 1]
    /\ UNCHANGED <<slot, offered, plan, lock, builds, edits>>

Start(c) ==
    /\ clicks[c].at = "holding" /\ Goes(c, "running")
    /\ Kind(clicks[c].id) = "phase" => Current(clicks[c].id)
    /\ ran' = [ran EXCEPT ![clicks[c].id] = @ + 1]
    /\ UNCHANGED <<slot, offered, plan, lock, builds, edits>>

\* The app the turn was queued for is not the continuation's: the claim stays.
OtherApp(c) ==
    /\ clicks[c].at = "holding" /\ Goes(c, "done") /\ lock' = "free"
    /\ UNCHANGED <<slot, offered, plan, builds, edits, ran>>

\* The approved plan has changed: a phase is not continued, and not offered again.
PlanGone(c) ==
    /\ clicks[c].at = "holding" /\ Goes(c, "done") /\ lock' = "free"
    /\ Kind(clicks[c].id) = "phase" /\ ~Current(clicks[c].id)
    /\ InvalidateClaimed(c)
    /\ UNCHANGED <<offered, plan, builds, edits, ran>>

\* A finished run of phases archives its plan; a Build that is not phased does not.
Finish(c) ==
    /\ clicks[c].at = "running" /\ Goes(c, "done") /\ lock' = "free"
    /\ plan' = IF Kind(clicks[c].id) = "phase" /\ Current(clicks[c].id)
               THEN [plan EXCEPT !.live = FALSE] ELSE plan
    /\ UNCHANGED <<slot, offered, builds, edits, ran>>

\* Mutant: a Build that fails hands its claim back.
FailReleases(c) ==
    /\ clicks[c].at = "running" /\ Goes(c, "done") /\ lock' = "free"
    /\ ReleaseRefused(c)
    /\ UNCHANGED <<offered, plan, builds, edits, ran>>

\* It fails, or runs out of room once more.
Fail(c) ==
    /\ clicks[c].at = "running" /\ Goes(c, "done") /\ lock' = "free"
    /\ \/ UNCHANGED <<slot, offered>>
       \/ Offer(Kind(clicks[c].id))
    /\ UNCHANGED <<plan, builds, edits, ran>>

ClickStep(c) ==
    \/ Claim(c) \/ Refuse(c) \/ Queue(c) \/ Cancel(c) \/ Abandon(c) \/ TakeLock(c)
    \/ Start(c) \/ OtherApp(c) \/ PlanGone(c) \/ Finish(c) \/ Fail(c)

Next ==
    \/ BeginBuild \/ BuildEnds \/ EditWrites \/ EditInvalidates
    \/ \E c \in Clicks : ClickStep(c)

Spec == Init /\ [][Next]_vars
-----------------------------------------------------------------------------
(***************************************************************************)
(* Properties.                                                             *)
(***************************************************************************)

\* A continuation is one Build: however often it is clicked, refused, handed back and
\* clicked again, its Build starts at most once, and one that is on offer has not started.
RunsOnce ==
    /\ \A id \in Ids : ran[id] <= 1
    /\ slot.state = "available" => ran[slot.id] = 0

\* Only the click that claimed a continuation ends its claim: a newer Build, an edit of
\* the plan or another click's late answer leaves it alone until a new one is offered.
OwnerEnds ==
    [][slot.state = "claimed" /\ slot'.id = slot.id /\ slot' # slot =>
          clicks'[slot.owner] # clicks[slot.owner]]_vars

\* While a phase is continued, the live plan is the version it was offered for: edits are
\* refused, and one that came while the click was waiting was seen when it started.
PhaseOnItsPlan ==
    \A c \in Clicks : clicks[c].at = "running" /\ Kind(clicks[c].id) = "phase" =>
        Current(clicks[c].id)

\* An approved plan that was built is consumed: a leftover would read as current intent.
\* The code archives it after phases, and not after a Build of one piece.
BuiltPlanIsConsumed ==
    [][\A c \in Clicks : Finish(c) /\ OfPlan(clicks[c].id) => ~plan'.live]_vars

\* How far that goes: a phased run that finishes archives its plan, whatever was clicked,
\* built and edited before it got the lock.
PhasesConsumeTheirPlan ==
    [][\A c \in Clicks : Finish(c) /\ Kind(clicks[c].id) = "phase" => ~plan'.live]_vars
=============================================================================
