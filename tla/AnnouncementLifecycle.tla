----------------------- MODULE AnnouncementLifecycle -----------------------
(***************************************************************************)
(* What a client may rely on about one announcement, whatever requests are *)
(* in flight on it: it is created empty, receives its draft once, enters   *)
(* review once and only with a draft, and is deleted for good.  Nothing    *)
(* takes a draft away or takes an announcement back out of review.         *)
(* ChatWorkflow implements this specification.                             *)
(***************************************************************************)
CONSTANT Ids        \* the announcements that may ever exist

VARIABLE life       \* the stage of life of every announcement

Lives == {"absent", "empty", "drafted", "in_review", "deleted"}
Live == {"empty", "drafted", "in_review"}

LifeTypeOK == life \in [Ids -> Lives]

LifeInit == life = [i \in Ids |-> "absent"]

Becomes(i, from, to) == life[i] \in from /\ life' = [life EXCEPT ![i] = to]

Create(i) == Becomes(i, {"absent"}, "empty")

\* What an announcement has been, if it ever was one, by what it is now.
Past(l) ==
  CASE l = "absent" -> {}
    [] l = "empty" -> {"empty"}
    [] l = "drafted" -> {"empty", "drafted"}
    [] l \in {"in_review", "deleted"} -> Live

\* A copy has no more than its original has had: it may be one of an earlier draft,
\* of a draft written anew while the original is in review, or of an original that
\* has been deleted since it was read.
Copy(i, j) == \E l \in Past(life[i]) : Becomes(j, {"absent"}, l)

Draft(i) == Becomes(i, {"empty"}, "drafted")

Review(i) == Becomes(i, {"drafted"}, "in_review")

Delete(i) == Becomes(i, Live, "deleted")

LifeNext ==
  \/ \E i \in Ids : Create(i) \/ Draft(i) \/ Review(i) \/ Delete(i)
  \/ \E i, j \in Ids : Copy(i, j)

LifeSpec == LifeInit /\ [][LifeNext]_life

=============================================================================
