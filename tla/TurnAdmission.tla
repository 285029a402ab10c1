--------------------------- MODULE TurnAdmission ----------------------------
(***************************************************************************)
(* What `_TurnQueue` promises its callers (ADR-0013), without tickets,     *)
(* threads or polling: the working tree has one owner, turns wait in one   *)
(* line, and a free tree goes to the head of the line or to a door, which  *)
(* never waits in the line.                                                *)
(***************************************************************************)
EXTENDS Sequences, SequencesExt

CONSTANTS Turns, Doors, Free

VARIABLES
    fresh,  \* turns that have not been admitted
    line,   \* turns waiting, in the order they were admitted
    owner   \* who has the working tree

avars == <<fresh, line, owner>>

Init ==
    /\ fresh = Turns
    /\ line = <<>>
    /\ owner = Free

\* The line is l and the tree is free or owned by o; a free tree may be given
\* to the head of the line in the same step.
Settle(l, o) ==
    \/ line' = l /\ owner' = o
    \/ l # <<>> /\ o = Free /\ line' = Tail(l) /\ owner' = Head(l)

Join(t) ==
    /\ t \in fresh
    /\ fresh' = fresh \ {t}
    /\ \/ line = <<>> /\ owner = Free /\ owner' = t /\ UNCHANGED line
       \/ (line # <<>> \/ owner # Free) /\ line' = Append(line, t) /\ UNCHANGED owner

Serve ==
    /\ owner = Free
    /\ line # <<>>
    /\ line' = Tail(line) /\ owner' = Head(line)
    /\ UNCHANGED fresh

\* A door takes a free tree past the line.
Enter(d) ==
    /\ owner = Free
    /\ owner' = d
    /\ UNCHANGED <<fresh, line>>

\* A turn gives its place up (cancelled, abandoned, stopped).
Quit(t) ==
    /\ Contains(line, t)
    /\ Settle(RemoveFirst(line, t), owner)
    /\ UNCHANGED fresh

\* The whole line is sent away.
Dismiss ==
    /\ line' = <<>>
    /\ UNCHANGED <<fresh, owner>>

\* The owner gives the tree back; a door may be quicker than the line.
Release ==
    /\ owner # Free
    /\ \/ Settle(line, Free)
       \/ \E d \in Doors : owner' = d /\ UNCHANGED line
    /\ UNCHANGED fresh

Next ==
    \/ \E t \in Turns : Join(t) \/ Quit(t)
    \/ \E d \in Doors : Enter(d)
    \/ Serve \/ Dismiss \/ Release

\* Somebody waits, and the free tree goes to the head of the line or to a door.
TakeFree == line # <<>> /\ (Serve \/ \E d \in Doors : Enter(d))

\* One owner, one line: what a caller may rely on at every moment.
Queueing == Init /\ [][Next]_avars

\* And a free tree is not left lying while somebody waits for it.
Spec == Queueing /\ WF_avars(TakeFree)
=============================================================================
