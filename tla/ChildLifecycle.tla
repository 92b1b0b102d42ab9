--------------------------- MODULE ChildLifecycle ---------------------------
(****************************************************************************)
(* What the operator promises of the life of a child, whichever controller  *)
(* made it and whichever code path takes it away: a child that serves is    *)
(* scheduled for deletion, then unregistered from service discovery, and is *)
(* deleted only after it has been unregistered for the grace period.  At    *)
(* any point before that it may be wanted again and put back into service.  *)
(* A pass may move several children at once, and time passes for all.       *)
(****************************************************************************)
EXTENDS Naturals

CONSTANTS Name, Grace

VARIABLES
    stage,      \* where each child is in its life
    since       \* seconds since it was unregistered, up to Grace

Serves(n) == stage'[n] = "serving" /\ since'[n] = 0

IsScheduled(n) == stage'[n] = "scheduled" /\ since'[n] = 0

Create(n) == stage[n] = "absent" /\ Serves(n)

Schedule(n) == stage[n] = "serving" /\ IsScheduled(n)

Unregister(n) ==
    /\ stage[n] \in {"serving", "scheduled"}
    /\ stage'[n] = "unregistered"
    /\ since'[n] = 0

\* Wanted again; the same pass may schedule it anew.
Restore(n) ==
    /\ stage[n] \in {"scheduled", "unregistered"}
    /\ Serves(n) \/ IsScheduled(n)

Delete(n) ==
    /\ stage[n] = "unregistered"
    /\ since[n] >= Grace
    /\ stage'[n] = "absent"
    /\ since'[n] = 0

Stay(n) == stage'[n] = stage[n] /\ since'[n] = since[n]

Pass ==
    \A n \in Name : \/ Create(n) \/ Schedule(n) \/ Unregister(n)
                    \/ Restore(n) \/ Delete(n) \/ Stay(n)

Second ==
    /\ stage' = stage
    /\ \A n \in Name :
          since'[n] = IF stage[n] = "unregistered" /\ since[n] < Grace
                      THEN since[n] + 1 ELSE since[n]

Init ==
    /\ stage = [n \in Name |-> "absent"]
    /\ since = [n \in Name |-> 0]

Spec == Init /\ [][Pass \/ Second]_<<stage, since>>
=============================================================================
