------------------------------ MODULE ApplyPlan ------------------------------
(****************************************************************************)
(* The apply clock of the operator: src/internal/controller/reconciler.go,  *)
(* applyRateLimit, applyPlanFor, initApplyPlan, setShardInfo and the plan   *)
(* seeding of CheckClusterShards.                                           *)
(*                                                                          *)
(* Every shard (an ingress class name) has a plan with the last slots       *)
(* handed out on it.  An object whose key is not in WaitingList is put      *)
(* there with a slot: it is reconciled for real when the slot comes, or     *)
(* earlier if a watch event brings its key back.  Time is counted in        *)
(* seconds, the unit of "time.Now().Add(1 * time.Second)"; a pass reads the *)
(* clock several times within one tick.                                     *)
(****************************************************************************)
EXTENDS Integers, Sequences, Functions

CONSTANTS
    Object,             \* the sharded objects of one controller
    Shard,              \* the shard names the controller meets
    KnownShards,        \* those CheckClusterShards finds at the first start
    Placement,          \* the sequences setShardInfo may leave in r.Shards
    Cooldown,           \* ShardUpdateCooldown
    TerminationPeriod,
    MaxApplyBacklog,
    StartTime,          \* the clock at the first reconcile
    MaxTime,            \* bound on the clock
    NoShard             \* no slot was handed out

ASSUME ShardsAssumption ==
    /\ KnownShards \subseteq Shard
    /\ NoShard \notin Shard
    /\ \A p \in Placement : p \in Seq(Shard) /\ p # <<>>

ASSUME TimesAssumption ==
    /\ Cooldown \in Nat \ {0}
    /\ TerminationPeriod \in Nat \ {0}
    /\ MaxApplyBacklog \in Nat \ {0}
    /\ MaxTime \in Nat
    /\ StartTime \in Cooldown..MaxTime

VARIABLES
    now,        \* time.Now()
    plan,       \* NextApplyTime; a shard outside "planned" has the cold plan
    planned,    \* the keys of NextApplyTime
    waiting,    \* WaitingList
    managed,    \* ManagedList
    answer,     \* what the last rate-limited pass returned
    granted     \* history: the last slot handed out on a shard, 0 if none

vars == <<now, plan, planned, waiting, managed, answer, granted>>

ZeroTime == 0                       \* time.Time{}, before every clock reading

\* currentDeletingWindowStart is written but never read, so it is left out.
Plan == [lastCreating : Nat, lastDeleting : Nat,
         nextDeletingWindowStart : Nat]

ColdPlan == [lastCreating |-> ZeroTime, lastDeleting |-> ZeroTime,
             nextDeletingWindowStart |-> ZeroTime]

\* A pass either asks for an immediate requeue, or for one after a delay.
Requeue == [kind |-> "requeue", shard |-> NoShard, delay |-> 0]

Answer == [kind : {"creating", "deleting"}, shard : Shard, delay : Int]
            \cup {Requeue}

Earlier(t, u) == IF t < u THEN t ELSE u

----------------------------------------------------------------------------

\* initApplyPlan: a missing plan is made cold, then every plan it is called
\* on reads "this shard was just applied to".
Stamped(plans, shards) ==
    [s \in Shard |->
        IF s \in shards THEN [plans[s] EXCEPT !.lastCreating = now]
                        ELSE plans[s]]

\* Mutants of Capped: no horizon, and a horizon with the wrong sign.
CappedNever(p) == p

CappedBehind(p) ==
    [lastCreating |-> Earlier(p.lastCreating, now - MaxApplyBacklog),
     lastDeleting |-> Earlier(p.lastDeleting, now - MaxApplyBacklog),
     nextDeletingWindowStart |-> p.nextDeletingWindowStart]

\* applyPlanFor: the plan of s, pulled back to the backlog horizon.
Capped(p) ==
    [lastCreating |-> Earlier(p.lastCreating, now + MaxApplyBacklog),
     lastDeleting |-> Earlier(p.lastDeleting, now + MaxApplyBacklog),
     nextDeletingWindowStart |-> p.nextDeletingWindowStart]

\* Mutant of CreatingSlot: the past is not checked for.
CreatingSlotAlwaysNext(p) == p.lastCreating + Cooldown

\* The branch "if creating": the slot and the plan that records it.
CreatingSlot(p) ==
    IF now - Cooldown < p.lastCreating
    THEN p.lastCreating + Cooldown
    ELSE now + 1

AfterCreating(p) ==
    LET slot == CreatingSlot(p)
    IN  [lastCreating |-> slot, lastDeleting |-> slot,
         nextDeletingWindowStart |-> slot + 3 * TerminationPeriod]

\* The branch "if deleting" opens a window when the previous one is over.
FirstDeletion(p) ==
    now - Cooldown < p.lastCreating /\ now > p.nextDeletingWindowStart

\* Mutant of Opened: the new window starts from the last one's slot.
OpenedFromLast(p) ==
    IF FirstDeletion(p)
    THEN [lastCreating |-> p.lastCreating + Cooldown,
          lastDeleting |-> p.lastDeleting,
          nextDeletingWindowStart |-> p.lastCreating + 3 * TerminationPeriod]
    ELSE p

Opened(p) ==
    IF FirstDeletion(p)
    THEN [lastCreating |-> p.lastCreating + Cooldown,
          lastDeleting |-> p.lastCreating + Cooldown,
          nextDeletingWindowStart |-> p.lastCreating + 3 * TerminationPeriod]
    ELSE p

\* lastDeletingTime, as the first deletion of a window leaves it.
DeletingFrom(p) == IF FirstDeletion(p) THEN p.lastCreating ELSE now

InsideWindow(p) ==
    DeletingFrom(p) + 2 * TerminationPeriod < Opened(p).nextDeletingWindowStart

BeforeNextWindow(p) ==
    DeletingFrom(p) + TerminationPeriod < Opened(p).nextDeletingWindowStart

DeletingSlot(p) ==
    CASE InsideWindow(p) -> Opened(p).lastDeleting + Cooldown
      [] ~InsideWindow(p) /\ BeforeNextWindow(p) ->
            Opened(p).nextDeletingWindowStart + Cooldown
      [] OTHER -> now + 1

\* Mutant of AfterDeleting: the slot of a deletion does not hold up creations.
AfterDeletingOnly(p) ==
    LET slot == DeletingSlot(p)
    IN  [lastCreating |-> Opened(p).lastCreating, lastDeleting |-> slot,
         nextDeletingWindowStart |->
            IF ~InsideWindow(p) /\ BeforeNextWindow(p)
            THEN slot + 3 * TerminationPeriod
            ELSE Opened(p).nextDeletingWindowStart]

AfterDeleting(p) ==
    LET slot == DeletingSlot(p)
    IN  [lastCreating |-> slot, lastDeleting |-> slot,
         nextDeletingWindowStart |->
            IF ~InsideWindow(p) /\ BeforeNextWindow(p)
            THEN slot + 3 * TerminationPeriod
            ELSE Opened(p).nextDeletingWindowStart]

----------------------------------------------------------------------------

Init ==
    /\ now = StartTime
    /\ planned = KnownShards
    /\ plan = Stamped([s \in Shard |-> ColdPlan], KnownShards)
    /\ waiting = {}
    /\ managed = {}
    /\ answer = Requeue
    /\ granted = [s \in Shard |-> ZeroTime]

\* Record the slot on shard s; seeded are the plans after setShardInfo.
Grant(kind, s, slot, seeded, next) ==
    /\ plan' = [seeded EXCEPT ![s] = next]
    /\ answer' = [kind |-> kind, shard |-> s, delay |-> slot - now]
    /\ granted' = [granted EXCEPT ![s] = slot]

GrantCreating(s, seeded) ==
    LET p == Capped(seeded[s])
    IN  Grant("creating", s, CreatingSlot(p), seeded, AfterCreating(p))

GrantDeleting(s, seeded) ==
    LET p == Capped(seeded[s])
    IN  Grant("deleting", s, DeletingSlot(p), seeded, AfterDeleting(p))

\* Which shard applyRateLimit charges, from the shards of the status and
\* those setShardInfo chose.  diffShard[0] is any element of diff: the status
\* is a map, ranged over in no particular order.
Charge(o, status, apply, seeded) ==
    LET diff == status \ Range(apply)
    IN  \/ /\ diff = {}
           /\ answer' = Requeue
           /\ plan' = seeded
           /\ UNCHANGED granted
        \/ /\ diff # {}
           /\ diff = status
           /\ GrantCreating(apply[1], seeded)
        \/ /\ diff # {}
           /\ diff # status
           /\ o \in managed
           /\ \E s \in diff : GrantDeleting(s, seeded)
        \/ /\ diff # {}
           /\ diff # status
           /\ o \notin managed
           /\ \E s \in diff : GrantCreating(s, seeded)

\* A pass of Reconcile for a key that is not in WaitingList.
RateLimit(o) ==
    /\ o \notin waiting
    /\ \E status \in SUBSET Shard, apply \in Placement :
          LET fresh == Range(apply) \ planned
          IN  /\ Charge(o, status, apply, Stamped(plan, fresh))
              /\ planned' = planned \cup fresh
                               \cup ({answer'.shard} \cap Shard)
    /\ waiting' = waiting \cup {o}
    /\ UNCHANGED <<now, managed>>

\* A pass of Reconcile for a key in WaitingList, when its slot comes or when
\* a watch event brings it back earlier.  The apply pass manages the object
\* and takes the key out of WaitingList.
Apply(o) ==
    /\ o \in waiting
    /\ waiting' = waiting \ {o}
    /\ managed' = managed \cup {o}
    /\ UNCHANGED <<now, plan, planned, answer, granted>>

\* A new process: the maps of the reconciler are gone, and its first
\* reconcile stamps the shards that exist by then.
Restart ==
    /\ \E known \in SUBSET Shard :
          /\ KnownShards \subseteq known
          /\ planned' = known
          /\ plan' = Stamped([s \in Shard |-> ColdPlan], known)
    /\ waiting' = {}
    /\ managed' = {}
    /\ answer' = Requeue
    /\ granted' = [s \in Shard |-> ZeroTime]
    /\ UNCHANGED now

Tick ==
    /\ now < MaxTime
    /\ now' = now + 1
    /\ UNCHANGED <<plan, planned, waiting, managed, answer, granted>>

Next ==
    \/ \E o \in Object : RateLimit(o)
    \/ \E o \in Object : Apply(o)
    \/ Restart
    \/ Tick

Spec == Init /\ [][Next]_vars

----------------------------------------------------------------------------

\* Every plan holds times, every key is an object and every answer names a
\* shard of the controller.
TypeOK ==
    /\ now \in StartTime..MaxTime
    /\ plan \in [Shard -> Plan]
    /\ planned \in SUBSET Shard
    /\ waiting \in SUBSET Object
    /\ managed \in SUBSET Object
    /\ answer \in Answer
    /\ granted \in [Shard -> Nat]

\* How far ahead of t a slot may lie: the capped clock plus the two cooldowns
\* of a first deletion, or one cooldown after the next termination window.
WithinReach(slot, t) ==
    \/ slot <= t + MaxApplyBacklog + 2 * Cooldown
    \/ slot <= t + 2 * TerminationPeriod + Cooldown

\* BacklogBound: no sequence of creations, deletions, restarts and waits on a
\* shared shard drives its clock further than WithinReach ahead of now, so no
\* object is scheduled "hours out" (applyPlanFor's horizon, over all the
\* branches of applyRateLimit that move the clock).
BacklogBound ==
    \A s \in Shard : /\ WithinReach(plan[s].lastCreating, now)
                     /\ WithinReach(plan[s].lastDeleting, now)

\* CreationScheduled: a pass that schedules a creation returns a delay the
\* work queue keeps; a delay that is not positive would drop the key.
CreationScheduled == answer.kind = "creating" => answer.delay > 0

\* What a small backlog takes off the window between two deletion slots.
BacklogShortfall ==
    IF MaxApplyBacklog < 2 * TerminationPeriod
    THEN 2 * TerminationPeriod - MaxApplyBacklog
    ELSE 0

\* DeletionScheduled: a deletion may get a slot that is over, since inside a
\* window the slot follows the last one and is not compared with now
\* ("lastDeleting + cooldown"); but it is over by less than a termination
\* period minus a cooldown, and with a cooldown of at least a termination
\* period never, so that the work queue keeps the key.
DeletionScheduled ==
    answer.kind = "deleting" =>
        answer.delay >
            Earlier(0, Cooldown - TerminationPeriod - BacklogShortfall)

\* GrantRecorded, the invariant CooldownKept rests on: the plan of a shard
\* still reads the last slot handed out on it, whichever branch did it.
GrantRecorded ==
    \A s \in Shard : granted[s] # ZeroTime =>
        s \in planned /\ plan[s].lastCreating = granted[s]

\* CooldownKept: a creation slot lies a full shard cooldown after the last
\* slot handed out on that shard, whatever mix of creations and deletions on
\* how many objects came before, except past the horizon, where it lies a
\* cooldown after the horizon (applyRateLimit with applyPlanFor's cap).
CooldownKept ==
    [][\A o \in Object :
          RateLimit(o) /\ answer'.kind = "creating" =>
             LET s == answer'.shard
             IN  granted'[s] >=
                    Earlier(granted[s], now + MaxApplyBacklog) + Cooldown]_vars
=============================================================================
