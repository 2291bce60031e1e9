------------------------------ MODULE MirrorPlan ------------------------------
(***************************************************************************)
(* What one mirror pass may delete from a target: internal/copier/         *)
(* mirror.go, PlanMirror.  A listing is a set of pairs <<id, revision>>.   *)
(* No operator here uses CHOOSE on a maximum: "newest" is said with        *)
(* quantifiers, which both TLC and the provers read well.                  *)
(***************************************************************************)
EXTENDS Naturals, FiniteSets

\* byID: one snapshot ID's part of a listing.
ByID(revs, id) == {x \in revs : x[1] = id}

\* x is its ID's newest entry of the listing revs.
IsNewest(revs, x) == \A y \in ByID(revs, x[1]) : y[2] <= x[2]

\* Mutant of MirrorDel: the target's newest revision is not spared.
MirrorDelNewest(local, target, id) ==
    {x \in ByID(target, id) :
        /\ x \notin local
        /\ \E y \in ByID(local, id) : x[2] < y[2]}

\* Mutant of MirrorDel: what local still holds is not spared.
MirrorDelHeld(local, target, id) ==
    {x \in ByID(target, id) :
        /\ ~ IsNewest(target, x)
        /\ \E y \in ByID(local, id) : x[2] < y[2]}

\* What local has pruned of id: on the target, not on local, not the target's
\* newest, and older than local's newest (local cannot have pruned the others).
MirrorDel(local, target, id) ==
    {x \in ByID(target, id) :
        /\ x \notin local
        /\ ~ IsNewest(target, x)
        /\ \E y \in ByID(local, id) : x[2] < y[2]}

\* The large-deletion rail: more than half of the ID's revisions on the target.
TooLarge(del, target, id) == 2 * Cardinality(del) > Cardinality(ByID(target, id))

\* One ID's deletions: none of an ID this deployment does not own, none when
\* local has no revision of it (the \E in MirrorDel), none past the rail.
MirrorDelete(local, target, own, allowLarge, id) ==
    LET del == MirrorDel(local, target, id)
    IN  IF id \in own /\ (allowLarge \/ ~ TooLarge(del, target, id))
        THEN del
        ELSE {}

PlanMirror(local, target, own, allowLarge) ==
    {x \in target : x \in MirrorDelete(local, target, own, allowLarge, x[1])}
===============================================================================
