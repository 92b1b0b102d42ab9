--------------------------- MODULE ApplyPlanProofs ---------------------------
(****************************************************************************)
(* Proofs about the apply clock for every value of its constants: the type  *)
(* invariant, the bound on how far the clock of a shard runs ahead, the     *)
(* delays a pass is scheduled with, and the cooldown before a creation.     *)
(****************************************************************************)
EXTENDS ApplyPlan, TLAPS

\* A placement charges its first shard and stays within Shard.
LEMMA PlacementShards ==
    \A p \in Placement : p[1] \in Shard /\ Range(p) \subseteq Shard
<1>1. TAKE p \in Placement
<1>2. p \in Seq(Shard) /\ p # <<>>
  BY ShardsAssumption DEF ShardsAssumption
<1>3. 1 \in DOMAIN p /\ \A i \in DOMAIN p : p[i] \in Shard
  BY <1>2
<1> QED
  BY <1>3 DEF Range

\* A pass hands out a slot by computing on a plan of times, whatever branch it
\* takes: the slot, and the plan that records it, are times again.
LEMMA SlotsAreTimes ==
    ASSUME now \in Nat
    PROVE  \A p \in Plan :
             /\ Capped(p) \in Plan
             /\ CreatingSlot(p) \in Nat /\ AfterCreating(p) \in Plan
             /\ DeletingSlot(p) \in Nat /\ AfterDeleting(p) \in Plan
<1> TAKE p \in Plan
<1> USE TimesAssumption DEF TimesAssumption, Plan
<1>1. Capped(p) \in Plan
  BY DEF Capped, Earlier
<1>2. CreatingSlot(p) \in Nat
  BY DEF CreatingSlot
<1>3. AfterCreating(p) \in Plan
  BY <1>2 DEF AfterCreating
<1>4. Opened(p) \in Plan
  BY DEF Opened
<1>5. DeletingSlot(p) \in Nat
  BY <1>4 DEF DeletingSlot
<1>6. AfterDeleting(p) \in Plan
  BY <1>4, <1>5 DEF AfterDeleting
<1> QED
  BY <1>1, <1>2, <1>3, <1>5, <1>6

\* A creation slot is ahead of now and a cooldown past the capped clock.
LEMMA CreatingSlotSpaced ==
    ASSUME now \in Nat
    PROVE  \A p \in Plan :
             LET slot == CreatingSlot(Capped(p))
             IN  /\ slot > now
                 /\ slot >= Earlier(p.lastCreating, now + MaxApplyBacklog)
                              + Cooldown
BY TimesAssumption DEF TimesAssumption, Plan, CreatingSlot, Capped, Earlier

\* No branch hands out a slot beyond the reach of the backlog.
LEMMA SlotsWithinReach ==
    ASSUME now \in Nat
    PROVE  \A p \in Plan : /\ WithinReach(CreatingSlot(Capped(p)), now)
                           /\ WithinReach(DeletingSlot(Capped(p)), now)
<1> TAKE p \in Plan
<1> DEFINE c == Capped(p)
<1>1. /\ c \in Plan
      /\ c.lastCreating <= now + MaxApplyBacklog
      /\ c.lastDeleting <= now + MaxApplyBacklog
  <2>1. c \in Plan
    BY SlotsAreTimes
  <2>2. /\ c.lastCreating <= now + MaxApplyBacklog
        /\ c.lastDeleting <= now + MaxApplyBacklog
    BY TimesAssumption DEF TimesAssumption, Plan, Capped, Earlier
  <2> QED
    BY <2>1, <2>2
<1> HIDE DEF c
<1> USE TimesAssumption DEF TimesAssumption, Plan, WithinReach
<1>2. WithinReach(CreatingSlot(c), now)
  BY <1>1 DEF CreatingSlot
<1>3. WithinReach(DeletingSlot(c), now)
  <2>1. CASE InsideWindow(c)
    BY <1>1, <2>1 DEF DeletingSlot, Opened
  <2>2. CASE ~InsideWindow(c) /\ BeforeNextWindow(c)
    <3>1. ~FirstDeletion(c)
      BY <1>1, <2>2 DEF InsideWindow, DeletingFrom, Opened
    <3> QED
      BY <1>1, <2>2, <3>1
         DEF InsideWindow, DeletingSlot, Opened, DeletingFrom
  <2>3. CASE ~InsideWindow(c) /\ ~BeforeNextWindow(c)
    BY <1>1, <2>3 DEF DeletingSlot
  <2> QED
    BY <2>1, <2>2, <2>3
<1> QED
  BY <1>2, <1>3 DEF c

----------------------------------------------------------------------------

\* Stamping a plan of times leaves times.
LEMMA StampedPlans ==
    ASSUME now \in Nat
    PROVE  \A plans \in [Shard -> Plan] : \A shards :
             Stamped(plans, shards) \in [Shard -> Plan]
BY DEF Stamped, Plan

\* A rate-limited pass answers an immediate requeue, or charges one shard.
LEMMA ChargedShard ==
    ASSUME NEW o, NEW status \in SUBSET Shard, NEW apply \in Placement,
           NEW seeded, Charge(o, status, apply, seeded)
    PROVE  \/ answer' = Requeue /\ plan' = seeded /\ granted' = granted
           \/ \E s \in Shard : GrantCreating(s, seeded)
           \/ \E s \in Shard : GrantDeleting(s, seeded)
<1>1. apply[1] \in Shard
  BY PlacementShards
<1> QED
  BY <1>1 DEF Charge

\* TypeCorrect: every plan, answer and list of the rate limiter keeps its
\* type (applyRateLimit, setShardInfo and CheckClusterShards compute times
\* from times).
THEOREM TypeCorrect == Spec => []TypeOK
<1>1. Init => TypeOK
  BY ShardsAssumption, TimesAssumption
     DEF ShardsAssumption, TimesAssumption, Init, TypeOK, Stamped, Plan,
         ColdPlan, ZeroTime, Answer
<1>2. TypeOK /\ [Next]_vars => TypeOK'
  <2> SUFFICES ASSUME TypeOK, [Next]_vars PROVE TypeOK'
    OBVIOUS
  <2>0. now \in Nat
    BY TimesAssumption DEF TimesAssumption, TypeOK
  <2>1. ASSUME NEW o \in Object, RateLimit(o) PROVE TypeOK'
    <3>1. PICK status \in SUBSET Shard, apply \in Placement :
             /\ Charge(o, status, apply,
                       Stamped(plan, Range(apply) \ planned))
             /\ planned' = planned \cup (Range(apply) \ planned)
                              \cup ({answer'.shard} \cap Shard)
      BY <2>1 DEF RateLimit
    <3> DEFINE seeded == Stamped(plan, Range(apply) \ planned)
    <3>2. seeded \in [Shard -> Plan]
      BY <2>0, StampedPlans DEF TypeOK
    <3>3. planned' \subseteq Shard
      BY <3>1, PlacementShards DEF TypeOK
    <3> HIDE DEF seeded
    <3> DEFINE Typed == /\ plan' \in [Shard -> Plan]
                        /\ answer' \in Answer
                        /\ granted' \in [Shard -> Nat]
    <3>4. Typed
      <4>1. CASE answer' = Requeue /\ plan' = seeded /\ granted' = granted
        BY <4>1, <3>2 DEF TypeOK, Answer
      <4>2. ASSUME NEW s \in Shard, GrantCreating(s, seeded)
            PROVE  Typed
        <5>1. Capped(seeded[s]) \in Plan
          BY <3>2, <2>0, SlotsAreTimes
        <5>2. /\ CreatingSlot(Capped(seeded[s])) \in Nat
              /\ AfterCreating(Capped(seeded[s])) \in Plan
          BY <5>1, <2>0, SlotsAreTimes
        <5> QED
          BY <5>2, <4>2, <3>2, <2>0 DEF GrantCreating, Grant, Answer, TypeOK
      <4>3. ASSUME NEW s \in Shard, GrantDeleting(s, seeded)
            PROVE  Typed
        <5>1. Capped(seeded[s]) \in Plan
          BY <3>2, <2>0, SlotsAreTimes
        <5>2. /\ DeletingSlot(Capped(seeded[s])) \in Nat
              /\ AfterDeleting(Capped(seeded[s])) \in Plan
          BY <5>1, <2>0, SlotsAreTimes
        <5> QED
          BY <5>2, <4>3, <3>2, <2>0 DEF GrantDeleting, Grant, Answer, TypeOK
      <4> QED
        BY <4>1, <4>2, <4>3, <3>1, ChargedShard DEF seeded
    <3> QED
      BY <3>3, <3>4, <2>1 DEF RateLimit, TypeOK
  <2>2. ASSUME NEW o \in Object, Apply(o) PROVE TypeOK'
    BY <2>2 DEF Apply, TypeOK
  <2>3. CASE Restart
    <3>1. [s \in Shard |-> ColdPlan] \in [Shard -> Plan]
      BY DEF ColdPlan, ZeroTime, Plan
    <3>2. plan' \in [Shard -> Plan] /\ planned' \in SUBSET Shard
      BY <3>1, <2>0, <2>3, StampedPlans DEF Restart
    <3> QED
      BY <3>2, <2>3 DEF Restart, TypeOK, Answer, ZeroTime
  <2>4. CASE Tick
    BY <2>4, TimesAssumption DEF TimesAssumption, Tick, TypeOK
  <2>5. CASE UNCHANGED vars
    BY <2>5 DEF vars, TypeOK
  <2> QED
    BY <2>1, <2>2, <2>3, <2>4, <2>5 DEF Next
<1> QED
  BY <1>1, <1>2, PTL DEF Spec

----------------------------------------------------------------------------

\* The reach bounds each plan on its own, and a stamp is within it.
WithinBacklog(plans) ==
    \A s \in Shard : /\ WithinReach(plans[s].lastCreating, now)
                     /\ WithinReach(plans[s].lastDeleting, now)

LEMMA StampedWithinBacklog ==
    ASSUME now \in Nat
    PROVE  \A plans \in [Shard -> Plan] : \A shards :
             WithinBacklog(plans) => WithinBacklog(Stamped(plans, shards))
BY TimesAssumption
   DEF TimesAssumption, WithinBacklog, WithinReach, Stamped, Plan

\* BacklogBounded: no mix of creations, deletions and restarts drives the
\* clock of a shard beyond the reach of the backlog (applyPlanFor's horizon
\* holds across all the branches of applyRateLimit).
THEOREM BacklogBounded == Spec => []BacklogBound
<1>1. Init => BacklogBound
  BY TimesAssumption
     DEF TimesAssumption, Init, BacklogBound, WithinReach, Stamped, ColdPlan,
         ZeroTime
<1>2. TypeOK /\ BacklogBound /\ [Next]_vars => BacklogBound'
  <2> SUFFICES ASSUME TypeOK, BacklogBound, [Next]_vars PROVE BacklogBound'
    OBVIOUS
  <2>0. now \in Nat
    BY TimesAssumption DEF TimesAssumption, TypeOK
  <2>1. ASSUME NEW o \in Object, RateLimit(o) PROVE BacklogBound'
    <3>1. PICK status \in SUBSET Shard, apply \in Placement :
             Charge(o, status, apply, Stamped(plan, Range(apply) \ planned))
      BY <2>1 DEF RateLimit
    <3> DEFINE seeded == Stamped(plan, Range(apply) \ planned)
    <3>2. seeded \in [Shard -> Plan]
      BY <2>0, StampedPlans DEF TypeOK
    <3>3. WithinBacklog(seeded)
      <4>1. WithinBacklog(plan)
        BY DEF BacklogBound, WithinBacklog
      <4> QED
        BY <4>1, <2>0, StampedWithinBacklog DEF TypeOK
    <3>4. now' = now
      BY <2>1 DEF RateLimit
    <3> HIDE DEF seeded
    <3>5. CASE answer' = Requeue /\ plan' = seeded /\ granted' = granted
      BY <3>3, <3>4, <3>5 DEF BacklogBound, WithinBacklog
    <3>6. ASSUME NEW s \in Shard, GrantCreating(s, seeded)
          PROVE  BacklogBound'
      <4>1. WithinReach(CreatingSlot(Capped(seeded[s])), now)
        BY <3>2, <2>0, SlotsWithinReach
      <4>2. /\ plan'[s].lastCreating = CreatingSlot(Capped(seeded[s]))
            /\ plan'[s].lastDeleting = CreatingSlot(Capped(seeded[s]))
            /\ \A z \in Shard \ {s} : plan'[z] = seeded[z]
        BY <3>2, <3>6 DEF GrantCreating, Grant, AfterCreating
      <4> QED
        BY <4>1, <4>2, <3>3, <3>4 DEF BacklogBound, WithinBacklog
    <3>7. ASSUME NEW s \in Shard, GrantDeleting(s, seeded)
          PROVE  BacklogBound'
      <4>1. WithinReach(DeletingSlot(Capped(seeded[s])), now)
        BY <3>2, <2>0, SlotsWithinReach
      <4>2. /\ plan'[s].lastCreating = DeletingSlot(Capped(seeded[s]))
            /\ plan'[s].lastDeleting = DeletingSlot(Capped(seeded[s]))
            /\ \A z \in Shard \ {s} : plan'[z] = seeded[z]
        BY <3>2, <3>7 DEF GrantDeleting, Grant, AfterDeleting
      <4> QED
        BY <4>1, <4>2, <3>3, <3>4 DEF BacklogBound, WithinBacklog
    <3> QED
      BY <3>1, <3>5, <3>6, <3>7, ChargedShard DEF seeded
  <2>2. ASSUME NEW o \in Object, Apply(o) PROVE BacklogBound'
    BY <2>2 DEF Apply, BacklogBound
  <2>3. CASE Restart
    BY <2>0, <2>3, TimesAssumption
       DEF TimesAssumption, Restart, BacklogBound, WithinReach, Stamped,
           ColdPlan, ZeroTime
  <2>4. CASE Tick
    BY <2>0, <2>4, TimesAssumption
       DEF TimesAssumption, Tick, BacklogBound, WithinReach, TypeOK, Plan
  <2>5. CASE UNCHANGED vars
    BY <2>5 DEF vars, BacklogBound
  <2> QED
    BY <2>1, <2>2, <2>3, <2>4, <2>5 DEF Next
<1> QED
  BY <1>1, <1>2, TypeCorrect, PTL DEF Spec

----------------------------------------------------------------------------

\* CreationsScheduled: a pass that schedules a creation always returns a
\* delay the work queue keeps (the branch "if creating" of applyRateLimit).
THEOREM CreationsScheduled == Spec => []CreationScheduled
<1>1. Init => CreationScheduled
  BY DEF Init, CreationScheduled, Requeue
<1>2. TypeOK /\ CreationScheduled /\ [Next]_vars => CreationScheduled'
  <2> SUFFICES ASSUME TypeOK, CreationScheduled, [Next]_vars
               PROVE  CreationScheduled'
    OBVIOUS
  <2>0. now \in Nat
    BY TimesAssumption DEF TimesAssumption, TypeOK
  <2>1. ASSUME NEW o \in Object, RateLimit(o) PROVE CreationScheduled'
    <3>1. PICK status \in SUBSET Shard, apply \in Placement :
             Charge(o, status, apply, Stamped(plan, Range(apply) \ planned))
      BY <2>1 DEF RateLimit
    <3> DEFINE seeded == Stamped(plan, Range(apply) \ planned)
    <3>2. seeded \in [Shard -> Plan]
      BY <2>0, StampedPlans DEF TypeOK
    <3> HIDE DEF seeded
    <3>3. CASE answer' = Requeue
      BY <3>3 DEF CreationScheduled, Requeue
    <3>4. ASSUME NEW s \in Shard, GrantCreating(s, seeded)
          PROVE  CreationScheduled'
      <4>1. /\ CreatingSlot(Capped(seeded[s])) \in Nat
            /\ CreatingSlot(Capped(seeded[s])) > now
        BY <3>2, <2>0, SlotsAreTimes, CreatingSlotSpaced
      <4> QED
        BY <4>1, <3>4, <2>0 DEF GrantCreating, Grant, CreationScheduled
    <3>5. ASSUME NEW s \in Shard, GrantDeleting(s, seeded)
          PROVE  CreationScheduled'
      BY <3>5 DEF GrantDeleting, Grant, CreationScheduled
    <3> QED
      BY <3>1, <3>3, <3>4, <3>5, ChargedShard DEF seeded
  <2>2. ASSUME NEW o \in Object, Apply(o) PROVE CreationScheduled'
    BY <2>2 DEF Apply, CreationScheduled
  <2>3. CASE Restart
    BY <2>3 DEF Restart, CreationScheduled, Requeue
  <2>4. CASE Tick
    BY <2>4 DEF Tick, CreationScheduled
  <2>5. CASE UNCHANGED vars
    BY <2>5 DEF vars, CreationScheduled
  <2> QED
    BY <2>1, <2>2, <2>3, <2>4, <2>5 DEF Next
<1> QED
  BY <1>1, <1>2, TypeCorrect, PTL DEF Spec

----------------------------------------------------------------------------

\* The strengthening DeletionScheduled rests on: the last deletion slot of a
\* shard lies at most a window (three termination periods) before the next
\* window, less what a small backlog takes off, and the next window is near.
WindowKept(p) ==
    /\ p.lastDeleting >=
          p.nextDeletingWindowStart - 3 * TerminationPeriod - BacklogShortfall
    /\ \/ p.nextDeletingWindowStart <=
             now + MaxApplyBacklog + Cooldown + 3 * TerminationPeriod
       \/ p.nextDeletingWindowStart <=
             now + 5 * TerminationPeriod + Cooldown

WindowsKept(plans) == \A s \in Shard : WindowKept(plans[s])

LEMMA StampedWindowsKept ==
    ASSUME now \in Nat
    PROVE  \A plans \in [Shard -> Plan] : \A shards :
             WindowsKept(plans) => WindowsKept(Stamped(plans, shards))
BY DEF WindowsKept, WindowKept, Stamped, Plan

\* A creation starts a window of its own.
LEMMA CreatingKeepsWindow ==
    ASSUME now \in Nat
    PROVE  \A p \in Plan : WindowKept(AfterCreating(Capped(p)))
<1> TAKE p \in Plan
<1> USE TimesAssumption DEF TimesAssumption, Plan
<1> DEFINE slot == CreatingSlot(Capped(p))
<1>1. slot \in Nat /\ slot <= now + MaxApplyBacklog + Cooldown
  BY DEF CreatingSlot, Capped, Earlier
<1>2. AfterCreating(Capped(p)) =
        [lastCreating |-> slot, lastDeleting |-> slot,
         nextDeletingWindowStart |-> slot + 3 * TerminationPeriod]
  BY DEF AfterCreating
<1> HIDE DEF slot
<1> QED
  BY <1>1, <1>2 DEF WindowKept, BacklogShortfall

\* A deletion is over by less than the window allows, and keeps the window,
\* whichever branch picks its slot.
LEMMA DeletingKeepsWindow ==
    ASSUME now \in Nat
    PROVE  \A p \in Plan : WindowKept(p) =>
             /\ WindowKept(AfterDeleting(Capped(p)))
             /\ DeletingSlot(Capped(p)) - now >
                   Earlier(0, Cooldown - TerminationPeriod - BacklogShortfall)
<1> SUFFICES ASSUME NEW p \in Plan, WindowKept(p)
             PROVE  /\ WindowKept(AfterDeleting(Capped(p)))
                    /\ DeletingSlot(Capped(p)) - now >
                          Earlier(0, Cooldown - TerminationPeriod
                                       - BacklogShortfall)
  OBVIOUS
<1> DEFINE c == Capped(p)
           slot == DeletingSlot(c)
           overdue == Earlier(0, Cooldown - TerminationPeriod
                                   - BacklogShortfall)
<1>1. /\ c \in Plan
      /\ c.lastCreating <= now + MaxApplyBacklog
      /\ c.lastDeleting = Earlier(p.lastDeleting, now + MaxApplyBacklog)
      /\ c.nextDeletingWindowStart = p.nextDeletingWindowStart
  <2>1. c \in Plan
    BY SlotsAreTimes
  <2>2. /\ c.lastCreating <= now + MaxApplyBacklog
        /\ c.lastDeleting = Earlier(p.lastDeleting, now + MaxApplyBacklog)
        /\ c.nextDeletingWindowStart = p.nextDeletingWindowStart
    BY TimesAssumption DEF TimesAssumption, Plan, Capped, Earlier
  <2> QED
    BY <2>1, <2>2
<1> USE TimesAssumption DEF TimesAssumption, Plan
<1> HIDE DEF c
<1>2. AfterDeleting(c) =
        [lastCreating |-> slot, lastDeleting |-> slot,
         nextDeletingWindowStart |->
            IF ~InsideWindow(c) /\ BeforeNextWindow(c)
            THEN slot + 3 * TerminationPeriod
            ELSE Opened(c).nextDeletingWindowStart]
  BY DEF AfterDeleting
<1> DEFINE Goal == WindowKept(AfterDeleting(c)) /\ slot - now > overdue
<1>3. ASSUME FirstDeletion(c)
      PROVE  Goal
  <2>1. InsideWindow(c)
    BY <1>1, <1>3 DEF InsideWindow, DeletingFrom, Opened
  <2>2. /\ slot = c.lastCreating + 2 * Cooldown
        /\ Opened(c).nextDeletingWindowStart =
             c.lastCreating + 3 * TerminationPeriod
        /\ now - Cooldown < c.lastCreating
    BY <1>1, <1>3, <2>1 DEF DeletingSlot, Opened, FirstDeletion
  <2> HIDE DEF slot
  <2> QED
    BY <1>1, <1>2, <2>1, <2>2
       DEF WindowKept, BacklogShortfall, Earlier
<1>4. ASSUME ~FirstDeletion(c) /\ InsideWindow(c)
      PROVE  Goal
  <2>1. /\ slot = c.lastDeleting + Cooldown
        /\ Opened(c) = c
        /\ now + 2 * TerminationPeriod < c.nextDeletingWindowStart
    BY <1>1, <1>4 DEF DeletingSlot, Opened, InsideWindow, DeletingFrom
  <2> HIDE DEF slot
  <2> QED
    BY <1>1, <1>2, <1>4, <2>1 DEF WindowKept, BacklogShortfall, Earlier
<1>5. ASSUME ~FirstDeletion(c) /\ ~InsideWindow(c) /\ BeforeNextWindow(c)
      PROVE  Goal
  <2>1. /\ slot = c.nextDeletingWindowStart + Cooldown
        /\ now + TerminationPeriod < c.nextDeletingWindowStart
        /\ c.nextDeletingWindowStart <= now + 2 * TerminationPeriod
    BY <1>1, <1>5
       DEF DeletingSlot, Opened, InsideWindow, BeforeNextWindow, DeletingFrom
  <2> HIDE DEF slot
  <2> QED
    BY <1>1, <1>2, <1>5, <2>1 DEF WindowKept, BacklogShortfall, Earlier
<1>6. ASSUME ~FirstDeletion(c) /\ ~InsideWindow(c) /\ ~BeforeNextWindow(c)
      PROVE  Goal
  <2>1. /\ slot = now + 1
        /\ Opened(c) = c
        /\ c.nextDeletingWindowStart <= now + TerminationPeriod
    BY <1>1, <1>6 DEF DeletingSlot, Opened, BeforeNextWindow, DeletingFrom
  <2> HIDE DEF slot
  <2> QED
    BY <1>1, <1>2, <1>6, <2>1 DEF WindowKept, BacklogShortfall, Earlier
<1>7. Goal
  BY <1>3, <1>4, <1>5, <1>6
<1> QED
  BY <1>7 DEF c

\* DeletionsScheduled: whatever came before on a shard, the slot of a deletion
\* is over by less than a termination period minus a cooldown (the branch
\* "if deleting" of applyRateLimit, whose slot is not compared with now).
THEOREM DeletionsScheduled == Spec => []DeletionScheduled
<1> DEFINE Kept == WindowsKept(plan) /\ DeletionScheduled
<1>1. Init => Kept
  BY TimesAssumption
     DEF TimesAssumption, Init, WindowsKept, WindowKept, DeletionScheduled,
         Requeue, Stamped, ColdPlan, ZeroTime, BacklogShortfall
<1>2. TypeOK /\ Kept /\ [Next]_vars => Kept'
  <2> SUFFICES ASSUME TypeOK, Kept, [Next]_vars PROVE Kept'
    OBVIOUS
  <2>0. now \in Nat
    BY TimesAssumption DEF TimesAssumption, TypeOK
  <2>1. ASSUME NEW o \in Object, RateLimit(o) PROVE Kept'
    <3>1. PICK status \in SUBSET Shard, apply \in Placement :
             Charge(o, status, apply, Stamped(plan, Range(apply) \ planned))
      BY <2>1 DEF RateLimit
    <3> DEFINE seeded == Stamped(plan, Range(apply) \ planned)
    <3>2. seeded \in [Shard -> Plan]
      BY <2>0, StampedPlans DEF TypeOK
    <3>3. WindowsKept(seeded)
      BY <2>0, StampedWindowsKept DEF TypeOK
    <3>4. now' = now
      BY <2>1 DEF RateLimit
    <3> HIDE DEF seeded
    <3>5. CASE answer' = Requeue /\ plan' = seeded
      BY <3>3, <3>4, <3>5
         DEF WindowsKept, WindowKept, DeletionScheduled, Requeue
    <3>6. ASSUME NEW s \in Shard, GrantCreating(s, seeded) PROVE Kept'
      <4>1. WindowKept(AfterCreating(Capped(seeded[s])))
        BY <3>2, <2>0, CreatingKeepsWindow
      <4>2. /\ plan' = [seeded EXCEPT
                           ![s] = AfterCreating(Capped(seeded[s]))]
            /\ answer'.kind = "creating"
        BY <3>6 DEF GrantCreating, Grant
      <4>3. \A z \in Shard : WindowKept(plan'[z])
        BY <3>2, <3>3, <4>1, <4>2 DEF WindowsKept
      <4> QED
        BY <3>4, <4>2, <4>3 DEF WindowsKept, WindowKept, DeletionScheduled
    <3>7. ASSUME NEW s \in Shard, GrantDeleting(s, seeded) PROVE Kept'
      <4>1. /\ WindowKept(AfterDeleting(Capped(seeded[s])))
            /\ DeletingSlot(Capped(seeded[s])) - now >
                  Earlier(0, Cooldown - TerminationPeriod - BacklogShortfall)
        BY <3>2, <3>3, <2>0, DeletingKeepsWindow DEF WindowsKept
      <4>2. /\ plan' = [seeded EXCEPT
                           ![s] = AfterDeleting(Capped(seeded[s]))]
            /\ answer'.delay = DeletingSlot(Capped(seeded[s])) - now
        BY <3>7 DEF GrantDeleting, Grant
      <4>3. \A z \in Shard : WindowKept(plan'[z])
        BY <3>2, <3>3, <4>1, <4>2 DEF WindowsKept
      <4>4. DeletionScheduled'
        BY <4>1, <4>2 DEF DeletionScheduled, BacklogShortfall
      <4> QED
        BY <3>4, <4>3, <4>4 DEF WindowsKept, WindowKept
    <3> QED
      BY <3>1, <3>5, <3>6, <3>7, ChargedShard DEF seeded
  <2>2. ASSUME NEW o \in Object, Apply(o) PROVE Kept'
    BY <2>2 DEF Apply, WindowsKept, WindowKept, DeletionScheduled
  <2>3. CASE Restart
    BY <2>0, <2>3, TimesAssumption
       DEF TimesAssumption, Restart, WindowsKept, WindowKept,
           DeletionScheduled, Requeue, Stamped, ColdPlan, ZeroTime,
           BacklogShortfall
  <2>4. CASE Tick
    <3>1. \A s \in Shard : plan[s] \in Plan
      BY DEF TypeOK
    <3> QED
      BY <2>0, <2>4, <3>1, TimesAssumption
         DEF TimesAssumption, Tick, WindowsKept, WindowKept,
             DeletionScheduled, Plan
  <2>5. CASE UNCHANGED vars
    BY <2>5 DEF vars, WindowsKept, WindowKept, DeletionScheduled
  <2> QED
    BY <2>1, <2>2, <2>3, <2>4, <2>5 DEF Next
<1> QED
  BY <1>1, <1>2, TypeCorrect, PTL DEF Spec

----------------------------------------------------------------------------

\* GrantsRecorded: the plan of a shard reads the last slot handed out on it
\* (both branches of applyRateLimit write both clocks).
THEOREM GrantsRecorded == Spec => []GrantRecorded
<1>1. Init => GrantRecorded
  BY DEF Init, GrantRecorded
<1>2. TypeOK /\ GrantRecorded /\ [Next]_vars => GrantRecorded'
  <2> SUFFICES ASSUME TypeOK, GrantRecorded, [Next]_vars
               PROVE  GrantRecorded'
    OBVIOUS
  <2>0. now \in Nat
    BY TimesAssumption DEF TimesAssumption, TypeOK
  <2>1. ASSUME NEW o \in Object, RateLimit(o) PROVE GrantRecorded'
    <3>1. PICK status \in SUBSET Shard, apply \in Placement :
             /\ Charge(o, status, apply,
                       Stamped(plan, Range(apply) \ planned))
             /\ planned' = planned \cup (Range(apply) \ planned)
                              \cup ({answer'.shard} \cap Shard)
      BY <2>1 DEF RateLimit
    <3> DEFINE seeded == Stamped(plan, Range(apply) \ planned)
    <3>2. seeded \in [Shard -> Plan]
      BY <2>0, StampedPlans DEF TypeOK
    <3>3. \A s \in Shard : granted[s] # ZeroTime =>
             s \in planned' /\ seeded[s].lastCreating = granted[s]
      BY <3>1 DEF GrantRecorded, Stamped
    <3> HIDE DEF seeded
    <3>4. CASE answer' = Requeue /\ plan' = seeded /\ granted' = granted
      BY <3>3, <3>4 DEF GrantRecorded
    <3>5. ASSUME NEW s \in Shard, GrantCreating(s, seeded)
          PROVE  GrantRecorded'
      <4>1. /\ plan'[s].lastCreating = granted'[s]
            /\ s \in planned'
        BY <3>1, <3>2, <3>5
           DEF GrantCreating, Grant, AfterCreating, TypeOK
      <4>2. \A z \in Shard \ {s} : /\ plan'[z] = seeded[z]
                                   /\ granted'[z] = granted[z]
        BY <3>2, <3>5 DEF GrantCreating, Grant, TypeOK
      <4> QED
        BY <4>1, <4>2, <3>3 DEF GrantRecorded
    <3>6. ASSUME NEW s \in Shard, GrantDeleting(s, seeded)
          PROVE  GrantRecorded'
      <4>1. /\ plan'[s].lastCreating = granted'[s]
            /\ s \in planned'
        BY <3>1, <3>2, <3>6
           DEF GrantDeleting, Grant, AfterDeleting, TypeOK
      <4>2. \A z \in Shard \ {s} : /\ plan'[z] = seeded[z]
                                   /\ granted'[z] = granted[z]
        BY <3>2, <3>6 DEF GrantDeleting, Grant, TypeOK
      <4> QED
        BY <4>1, <4>2, <3>3 DEF GrantRecorded
    <3> QED
      BY <3>1, <3>4, <3>5, <3>6, ChargedShard DEF seeded
  <2>2. ASSUME NEW o \in Object, Apply(o) PROVE GrantRecorded'
    BY <2>2 DEF Apply, GrantRecorded
  <2>3. CASE Restart
    BY <2>3 DEF Restart, GrantRecorded
  <2>4. CASE Tick
    BY <2>4 DEF Tick, GrantRecorded
  <2>5. CASE UNCHANGED vars
    BY <2>5 DEF vars, GrantRecorded
  <2> QED
    BY <2>1, <2>2, <2>3, <2>4, <2>5 DEF Next
<1> QED
  BY <1>1, <1>2, TypeCorrect, PTL DEF Spec

\* CooldownRespected: whatever came before on a shard, a creation is
\* scheduled a cooldown after the last slot, or after the horizon.
THEOREM CooldownRespected == Spec => CooldownKept
<1> DEFINE Spaced ==
      \A o \in Object :
          RateLimit(o) /\ answer'.kind = "creating" =>
             LET s == answer'.shard
             IN  granted'[s] >=
                    Earlier(granted[s], now + MaxApplyBacklog) + Cooldown
<1>1. TypeOK /\ GrantRecorded => Spaced
  <2> SUFFICES ASSUME TypeOK, GrantRecorded, NEW o \in Object,
                      RateLimit(o), answer'.kind = "creating"
               PROVE  granted'[answer'.shard] >=
                        Earlier(granted[answer'.shard],
                                now + MaxApplyBacklog) + Cooldown
    OBVIOUS
  <2>0. now \in Nat /\ now >= Cooldown
    BY TimesAssumption DEF TimesAssumption, TypeOK
  <2>1. PICK status \in SUBSET Shard, apply \in Placement :
           Charge(o, status, apply, Stamped(plan, Range(apply) \ planned))
    BY DEF RateLimit
  <2> DEFINE seeded == Stamped(plan, Range(apply) \ planned)
  <2>2. seeded \in [Shard -> Plan]
    BY <2>0, StampedPlans DEF TypeOK
  <2>3. \A s \in Shard : granted[s] # ZeroTime =>
           seeded[s].lastCreating = granted[s]
    BY DEF GrantRecorded, Stamped
  <2> HIDE DEF seeded
  <2>4. PICK s \in Shard : GrantCreating(s, seeded)
    <3>1. answer' # Requeue
      BY DEF Requeue
    <3>2. \A s \in Shard : ~GrantDeleting(s, seeded)
      BY DEF GrantDeleting, Grant
    <3> QED
      BY <2>1, <3>1, <3>2, ChargedShard DEF seeded
  <2> DEFINE slot == CreatingSlot(Capped(seeded[s]))
  <2>5. answer'.shard = s /\ granted'[s] = slot
    BY <2>4 DEF GrantCreating, Grant, TypeOK
  <2>6. /\ slot \in Nat /\ slot > now
        /\ slot >= Earlier(seeded[s].lastCreating, now + MaxApplyBacklog)
                     + Cooldown
    BY <2>0, <2>2, SlotsAreTimes, CreatingSlotSpaced
  <2> HIDE DEF slot
  <2>7. CASE granted[s] = ZeroTime
    BY <2>0, <2>5, <2>6, <2>7, TimesAssumption
       DEF TimesAssumption, ZeroTime, Earlier
  <2>8. CASE granted[s] # ZeroTime
    BY <2>3, <2>5, <2>6, <2>8
  <2> QED
    BY <2>7, <2>8
<1>2. TypeOK /\ GrantRecorded => [Spaced]_vars
  BY <1>1
<1> QED
  BY <1>2, TypeCorrect, GrantsRecorded, PTL DEF CooldownKept
=============================================================================
