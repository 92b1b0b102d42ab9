----------------------- MODULE ShardedReconcilerProofs -----------------------
(****************************************************************************)
(* Lemmas about what the two controllers share: how the operators of        *)
(* ShardedReconciler move the clock of one child, and what the passes that  *)
(* end before children are generated, the drain and the environment do to   *)
(* the cluster and the caches.                                              *)
(****************************************************************************)
EXTENDS ShardedReconciler, SequenceTheorems, TLAPS

(****************************************************************************)
(* The invariant, for one child: a child that is marked has a deadline, and *)
(* when that is over the child has been unregistered for the grace period.  *)
(****************************************************************************)
OnClock(c) ==
    /\ c.due >= NoDue
    /\ c.marked => c.live /\ c.due >= 0 /\ c.age + c.due >= Grace
    /\ ~c.marked => c.age = 0
    /\ ~c.live => c = NoChild

GoodChild == {c \in Child : OnClock(c)}

\* A child as a pass renders it.
Fits(c) == c \in GoodChild /\ c.live /\ ~c.marked /\ c.due = NoDue

\* A child is not turned from one host to another.
Pinned(c, d) == c.live /\ d.live => d.host \in {c.host, NoHost}

\* The steps of ChildLifecycle, on the records of this model.
Moves(c, d) ==
    /\ d \in GoodChild
    /\ Pinned(c, d)
    /\ \/ d = c
       \/ ~c.live /\ Fits(d)
       \/ c.live /\ d.live /\ ~d.marked
       \/ c.live /\ ~c.marked /\ d.live /\ d.marked /\ d.age = 0
       \/ c.marked /\ c.age >= Grace /\ d = NoChild

----------------------------------------------------------------------------
(* The operators on one child.                                              *)

LEMMA GraceBounds ==
    /\ Grace \in Nat
    /\ Grace <= 2 * TerminationPeriod
    /\ Grace <= DeletionTerminationPeriod
BY PeriodsAssumption DEF PeriodsAssumption, Grace

LEMMA NoChildGood == NoChild \in GoodChild
BY GraceBounds
DEF NoChild, GoodChild, Child, OnClock, NoDue, NoShard, NoHost, NoContent

LEMMA RenderedFits ==
    \A class \in ShardName \cup {NoShard}, host \in Host \cup {NoHost},
       content \in Content, old \in ShardName \cup {NoShard} :
          Fits(Rendered(class, host, content, old))
BY GraceBounds DEF Rendered, Fits, GoodChild, Child, OnClock, NoDue

LEMMA DelTimeBounds ==
    \A n : DelTime(n) \in Nat /\ DelTime(n) >= Grace
BY GraceBounds, PeriodsAssumption DEF PeriodsAssumption, DelTime

LEMMA UnregisteredGood ==
    \A c \in GoodChild, period \in Nat :
        c.live /\ period >= Grace =>
            /\ Unregistered(c, period) \in GoodChild
            /\ Unregistered(c, period).live
            /\ Unregistered(c, period).marked
            /\ Unregistered(c, period).age = 0
            /\ Unregistered(c, period).host = c.host
BY GraceBounds DEF Unregistered, Clocked, GoodChild, Child, OnClock, NoDue

LEMMA DeletedInTime ==
    \A c \in GoodChild : DeleteNow(c) => c.marked /\ c.age >= Grace
BY GraceBounds DEF DeleteNow, Elapsed, GoodChild, Child, OnClock, NoDue

LEMMA TimedMoves ==
    \A n : \A c \in GoodChild : c.live =>
        /\ Moves(c, Timed(n, c))
        /\ Timed(n, c).live
        /\ ~c.marked /\ c.due = NoDue => ~Timed(n, c).marked
<1> SUFFICES ASSUME NEW n, NEW c \in GoodChild, c.live
             PROVE  /\ Moves(c, Timed(n, c))
                    /\ Timed(n, c).live
                    /\ ~c.marked /\ c.due = NoDue => ~Timed(n, c).marked
  OBVIOUS
<1>1. CASE c.due = NoDue
  <2>1. Timed(n, c) = Clocked(c, DelTime(n), c.marked, c.age)
    BY <1>1 DEF Timed
  <2>2. ~c.marked
    BY <1>1 DEF GoodChild, OnClock, NoDue
  <2> QED
    BY <2>1, <2>2, DelTimeBounds
    DEF Moves, Pinned, Clocked, GoodChild, Child, OnClock, NoDue
<1>2. CASE c.due # NoDue /\ ~c.marked /\ Elapsed(c, TerminationPeriod)
  <2>1. Timed(n, c) = Unregistered(c, DelTime(n))
    BY <1>2 DEF Timed
  <2> QED
    BY <1>2, <2>1, DelTimeBounds, UnregisteredGood DEF Moves, Pinned
<1>3. CASE ~(\/ c.due = NoDue
             \/ c.due # NoDue /\ ~c.marked /\ Elapsed(c, TerminationPeriod))
  <2>1. Timed(n, c) = c
    BY <1>3 DEF Timed
  <2> QED
    BY <1>3, <2>1 DEF Moves, Pinned
<1> QED
  BY <1>1, <1>2, <1>3

LEMMA FinalizedMoves ==
    \A c \in GoodChild : c.live => Moves(c, Finalized(c))
<1> SUFFICES ASSUME NEW c \in GoodChild, c.live
             PROVE  Moves(c, Finalized(c))
  OBVIOUS
<1>1. CASE c.due = NoDue \/ ~c.marked
  <2>1. Finalized(c) = Unregistered(c, DeletionTerminationPeriod)
    BY <1>1 DEF Finalized
  <2>2. ~c.marked
    BY <1>1 DEF GoodChild, OnClock, NoDue
  <2>3. DeletionTerminationPeriod \in Nat /\ DeletionTerminationPeriod >= Grace
    BY GraceBounds, PeriodsAssumption DEF PeriodsAssumption
  <2> QED
    BY <2>1, <2>2, <2>3, UnregisteredGood DEF Moves, Pinned
<1>2. CASE ~(c.due = NoDue \/ ~c.marked) /\ DeleteNow(c)
  <2>1. Finalized(c) = NoChild
    BY <1>2 DEF Finalized
  <2> QED
    BY <1>2, <2>1, NoChildGood, DeletedInTime DEF Moves, Pinned, NoChild
<1>3. CASE ~(c.due = NoDue \/ ~c.marked) /\ ~DeleteNow(c)
  <2>1. Finalized(c) = c
    BY <1>3 DEF Finalized
  <2> QED
    BY <2>1 DEF Moves, Pinned
<1> QED
  BY <1>1, <1>2, <1>3

LEMMA OneSecondLaterGood ==
    \A c \in GoodChild :
        /\ OneSecondLater(c) \in GoodChild
        /\ Stage(OneSecondLater(c)) = Stage(c)
        /\ OneSecondLater(c).age =
              IF c.marked /\ c.age < Grace THEN c.age + 1 ELSE c.age
        /\ Pinned(c, OneSecondLater(c))
<1> SUFFICES ASSUME NEW c \in GoodChild
             PROVE  /\ OneSecondLater(c) \in GoodChild
                    /\ Stage(OneSecondLater(c)) = Stage(c)
                    /\ OneSecondLater(c).age =
                          IF c.marked /\ c.age < Grace THEN c.age + 1 ELSE c.age
                    /\ Pinned(c, OneSecondLater(c))
  OBVIOUS
<1>1. CASE c.live
  BY <1>1, GraceBounds
  DEF OneSecondLater, Pinned, Clocked, Stage, GoodChild, Child, OnClock, NoDue
<1>2. CASE ~c.live
  <2>1. c = NoChild
    BY <1>2 DEF GoodChild, OnClock
  <2>2. OneSecondLater(NoChild) = NoChild
    BY DEF OneSecondLater, Clocked, NoChild, NoDue
  <2> QED
    BY <2>1, <2>2 DEF NoChild, Pinned
<1> QED
  BY <1>1, <1>2

----------------------------------------------------------------------------
(* The invariant of the controllers, and what a pass has to show for it.    *)

Clocks == \A n \in Name : OnClock(children[n])

\* The cache of the children goes through states up to the current one; that
\* of the object is current unless the object was written since.
Cached ==
    /\ childLog = <<>> => childView = children
    /\ childLog # <<>> => CachesLag /\ childLog[Len(childLog)] = children
    /\ ~objStale => view = obj

\* The finalizer a pass sees is still there, and every child is under it.
Guarded ==
    /\ view.fin /\ view.phase = "live" => obj.fin /\ obj.phase # "gone"
    /\ NoOrphans

Inv == TypeOK /\ Clocks /\ Cached /\ Guarded

\* The child n is deleted in favour of one that serves its host on its class.
Twinned(n, cs) ==
    /\ children[n].live /\ children[n].host # NoHost /\ cs[n] = NoChild
    /\ \E m \in Name \ {n} :
          /\ cs[m].live /\ cs[m].host = children[n].host
          /\ cs[m].class = children[n].class

Goes(n, cs) == Moves(children[n], cs[n]) \/ Twinned(n, cs)

\* What a pass may leave in the cluster: o for the object, cs for its children.
Leaves(o, cs) ==
    /\ o \in Object
    /\ cs \in [Name -> GoodChild]
    /\ \A n \in Name : Goes(n, cs)
    /\ view.fin /\ view.phase = "live" => o.fin /\ o.phase # "gone"
    /\ \A n \in Name : cs[n].live => o.fin /\ o.phase # "gone"

\* A step of the operator, or of a user: the invariant holds after it, and
\* every child went one step along its life, or gave way to its twin.
Step == Inv' /\ \A n \in Name : Goes(n, children')

\* The first of the states a cache has yet to go through, and the rest.
LEMMA HeadAndTail ==
    ASSUME NEW S, NEW s \in Seq(S), s # <<>>
    PROVE  /\ Head(s) \in S /\ Tail(s) \in Seq(S)
           /\ Tail(s) = <<>> => Head(s) = s[Len(s)]
           /\ Tail(s) # <<>> => Tail(s)[Len(Tail(s))] = s[Len(s)]
<1>1. Len(s) \in Nat \ {0} /\ Len(<<>>) = 0
  BY EmptySeq
<1>2. PICK t \in Seq(S) : t = Tail(s)
  BY HeadTailProperties
<1>3. /\ Head(s) \in S /\ Len(t) = Len(s) - 1
      /\ \A i \in 1 .. Len(t) : t[i] = s[i + 1]
  BY <1>2, HeadTailProperties
<1>4. CASE t = <<>>
  <2>1. Len(t) = 0
    BY <1>1, <1>4, Zenon
  <2>2. Len(s) = 1
    BY <1>1, <1>3, <2>1
  <2>3. Head(s) = s[1]
    OBVIOUS
  <2> QED
    BY <1>2, <1>3, <1>4, <2>2, <2>3
<1>5. CASE t # <<>>
  <2>1. Len(t) \in 1 .. Len(t)
    BY <1>3, <1>5, EmptySeq
  <2>2. t[Len(t)] = s[Len(t) + 1]
    BY <1>3, <2>1
  <2>3. Len(t) + 1 = Len(s)
    BY <1>1, <1>3
  <2> QED
    BY <1>2, <1>3, <1>5, <2>2, <2>3
<1> QED
  BY <1>4, <1>5

LEMMA EmptyLog == <<>> \in Seq([Name -> Child])
OBVIOUS

LEMMA GoodChildren == Inv => \A n \in Name : children[n] \in GoodChild
BY DEF Inv, TypeOK, Clocks, GoodChild

LEMMA StandStill == \A c \in GoodChild : Moves(c, c)
BY DEF Moves, Pinned

LEMMA StandsStill == Inv => \A n \in Name : Goes(n, children)
BY GoodChildren, StandStill DEF Goes

\* A copy of a child that was not written since is the child as it is.
LEMMA CurrentCopy ==
    ASSUME Inv, NEW n \in Name \ ChildStale
    PROVE  childView[n] = children[n]
<1>1. CASE childLog = <<>>
  BY <1>1 DEF Inv, Cached
<1>2. CASE childLog # <<>>
  <2>1. Len(childLog) \in DOMAIN childLog
    BY <1>2 DEF Inv, TypeOK
  <2>2. childLog[Len(childLog)][n] = childView[n]
    BY <2>1 DEF ChildStale
  <2> QED
    BY <1>2, <2>2 DEF Inv, Cached
<1> QED
  BY <1>1, <1>2

LEMMA SoonerTyped ==
    \A delay \in Int :
        timer \in Nat \cup {NoTimer} => Sooner(delay) \in Nat \cup {NoTimer}
BY DEF Sooner, NoTimer

\* A write that leaves o and cs keeps what the invariant says of the cluster
\* and the caches.
LEMMA WriteKeeps ==
    ASSUME Inv, NEW o, NEW cs, Leaves(o, cs), Write(o, cs)
    PROVE  /\ obj' \in Object /\ view' \in Object
           /\ children' \in [Name -> Child] /\ childView' \in [Name -> Child]
           /\ \A n \in Name : children'[n].due >= NoDue
           /\ objStale' \in BOOLEAN /\ childLog' \in Seq([Name -> Child])
           /\ lag' \in 0..LagLimit
           /\ Clocks' /\ Cached' /\ Guarded'
           /\ \A n \in Name : Goes(n, children')
<1>1. children' = cs /\ obj' = o
  BY DEF Write
<1>2. cs \in [Name -> Child] /\ \A n \in Name : OnClock(cs[n])
  BY DEF Leaves, GoodChild
<1>3. \A n \in Name : cs[n].due >= NoDue
  BY <1>2 DEF OnClock
<1>4. CachesLag \in BOOLEAN
  BY FlagsAssumption DEF FlagsAssumption
<1>5. view' \in Object /\ childView' \in [Name -> Child]
  BY <1>2 DEF Inv, TypeOK, Write, Leaves
<1>6. /\ objStale' \in BOOLEAN /\ childLog' \in Seq([Name -> Child])
      /\ lag' \in 0..LagLimit
  BY <1>2, <1>4 DEF Inv, TypeOK, Write
<1>7. Cached'
  <2>1. CASE CachesLag /\ cs # children
    <3>1. childLog' = Append(childLog, cs) /\ childLog \in Seq([Name -> Child])
      BY <2>1 DEF Write, Inv, TypeOK
    <3>2. childLog' # <<>> /\ childLog'[Len(childLog')] = cs
      BY <1>2, <3>1
    <3> QED
      BY <1>1, <1>4, <2>1, <3>2 DEF Inv, TypeOK, Cached, Write
  <2>2. CASE CachesLag /\ cs = children
    BY <1>1, <1>4, <2>2 DEF Inv, TypeOK, Cached, Write
  <2>3. CASE ~CachesLag
    BY <1>1, <1>4, <2>3 DEF Inv, TypeOK, Cached, Write
  <2> QED
    BY <1>4, <2>1, <2>2, <2>3
<1>8. Guarded'
  BY <1>1, <1>4 DEF Inv, Guarded, NoOrphans, LiveChildren, Leaves, Write
<1> QED
  BY <1>1, <1>2, <1>3, <1>5, <1>6, <1>7, <1>8 DEF Leaves, Clocks

\* The end of a pass.
LEMMA ReturnStep ==
    ASSUME Inv, NEW o, NEW cs, Leaves(o, cs),
           NEW requeue \in BOOLEAN, NEW delay \in Int,
           Return(o, cs, requeue, delay),
           lists' \subseteq {"waiting", "ready", "managed", "error"},
           childKind' \in BOOLEAN,
           failures' \in 0..MaxFailures
    PROVE  Step
<1>1. Write(o, cs)
  BY DEF Return
<1>2. timer' \in Nat \cup {NoTimer}
  BY SoonerTyped DEF Return, Inv, TypeOK
<1>3. queued' \in BOOLEAN
  BY FlagsAssumption DEF Return, Event, FlagsAssumption
<1>4. /\ maxShards' \in Configs
      /\ edits' \in 0..MaxEdits
      /\ restarts' \in 0..MaxRestarts
  BY DEF Return, Inv, TypeOK
<1> QED
  BY <1>1, <1>2, <1>3, <1>4, WriteKeeps DEF Step, Inv, TypeOK

\* A pass that leaves the children alone and the object as it found it.
LEMMA LeavesAll == Inv => Leaves(obj, children)
<1> SUFFICES ASSUME Inv PROVE Leaves(obj, children)
  OBVIOUS
<1>1. children \in [Name -> GoodChild]
  BY GoodChildren DEF Inv, TypeOK
<1> QED
  BY <1>1, StandsStill
  DEF Leaves, Inv, TypeOK, Guarded, NoOrphans, LiveChildren

\* A pass that goes on does so under the finalizer.
LEMMA WithFinalizerGuards ==
    ASSUME Inv, Proceeds
    PROVE  /\ WithFinalizer \in Object
           /\ WithFinalizer.fin /\ WithFinalizer.phase # "gone"
           /\ WithFinalizer.status = obj.status
<1>1. CASE view.fin
  BY <1>1 DEF Inv, TypeOK, Guarded, Proceeds, WithFinalizer
<1>2. CASE ~view.fin
  <2>1. view = obj /\ obj.phase = "live"
    BY <1>2 DEF Inv, TypeOK, Cached, Proceeds, Fresh
  <2> QED
    BY <1>2, <2>1 DEF Inv, TypeOK, WithFinalizer, Object
<1> QED
  BY <1>1, <1>2

LEMMA LeavesWithFinalizer ==
    ASSUME Inv, Proceeds, NEW o \in Object, o.fin, o.phase # "gone",
           NEW cs \in [Name -> GoodChild],
           \A n \in Name : Goes(n, cs)
    PROVE  Leaves(o, cs)
BY DEF Leaves

LEMMA OutageCounted ==
    \A outage : Inv /\ Outage(outage) => failures' \in 0..MaxFailures
BY FlagsAssumption DEF Inv, TypeOK, Outage, FlagsAssumption

LEMMA ListedTyped ==
    \A moved, from :
        Inv /\ moved \subseteq {"waiting", "ready", "managed", "error"}
        => Listed(moved, from) \subseteq {"waiting", "ready", "managed", "error"}
BY DEF Listed, Inv, TypeOK

----------------------------------------------------------------------------
(* The passes that end before children are generated.                       *)

LEMMA NotFoundStep == Inv /\ ReconcileNotFound => Step
<1> SUFFICES ASSUME Inv, ReconcileNotFound PROVE Step
  OBVIOUS
<1>1. Return(obj, children, FALSE, NoTimer)
  BY DEF ReconcileNotFound
<1>2. NoTimer \in Int
  BY DEF NoTimer
<1> QED
  BY <1>1, <1>2, LeavesAll, ReturnStep DEF ReconcileNotFound, Inv, TypeOK

LEMMA FinalizerRefusedStep == Inv /\ ReconcileFinalizerRefused => Step
<1> SUFFICES ASSUME Inv, ReconcileFinalizerRefused PROVE Step
  OBVIOUS
<1>1. Return(obj, children, TRUE, NoTimer)
  BY DEF ReconcileFinalizerRefused
<1>2. NoTimer \in Int
  BY DEF NoTimer
<1>3. failures' \in 0..MaxFailures
  BY OutageCounted DEF ReconcileFinalizerRefused
<1> QED
  BY <1>1, <1>2, <1>3, LeavesAll, ReturnStep
  DEF ReconcileFinalizerRefused, Inv, TypeOK

LEMMA LeavesChildren == Inv /\ Proceeds => Leaves(WithFinalizer, children)
BY WithFinalizerGuards, LeavesWithFinalizer, LeavesAll DEF Leaves

LEMMA UnknownClassStep == Inv /\ ReconcileUnknownClass => Step
<1> SUFFICES ASSUME Inv, ReconcileUnknownClass PROVE Step
  OBVIOUS
<1>1. Return(WithFinalizer, children, FALSE, NoTimer) /\ Proceeds
  BY DEF ReconcileUnknownClass
<1>2. NoTimer \in Int
  BY DEF NoTimer
<1> QED
  BY <1>1, <1>2, LeavesChildren, ReturnStep
  DEF ReconcileUnknownClass, Inv, TypeOK

LEMMA RateLimitedStep == Inv /\ ReconcileRateLimited => Step
<1> SUFFICES ASSUME Inv, ReconcileRateLimited PROVE Step
  OBVIOUS
<1>1. \/ Return(WithFinalizer, children, TRUE, NoTimer)
      \/ \E delay \in CreateDelays \cup DeleteDelays :
            Return(WithFinalizer, children, FALSE, delay)
  BY DEF ReconcileRateLimited
<1>2. CreateDelays \cup DeleteDelays \subseteq Int /\ NoTimer \in Int
  BY PeriodsAssumption DEF PeriodsAssumption, NoTimer
<1>3. lists' \subseteq {"waiting", "ready", "managed", "error"}
  BY ListedTyped DEF ReconcileRateLimited
<1>4. Proceeds /\ childKind' \in BOOLEAN /\ failures' \in 0..MaxFailures
  BY DEF ReconcileRateLimited, Inv, TypeOK
<1>5. CASE Return(WithFinalizer, children, TRUE, NoTimer)
  BY <1>2, <1>3, <1>4, <1>5, LeavesChildren, ReturnStep
<1>6. ASSUME NEW delay \in CreateDelays \cup DeleteDelays,
             Return(WithFinalizer, children, FALSE, delay)
      PROVE  Step
  <2>1. delay \in Int
    BY <1>2
  <2> QED
    BY <1>3, <1>4, <1>6, <2>1, LeavesChildren, ReturnStep
<1> QED
  BY <1>1, <1>5, <1>6

----------------------------------------------------------------------------
(* handleFinalizer                                                          *)

LEMMA UnknownKindStep == Inv /\ FinalizerUnknownKind => Step
<1> SUFFICES ASSUME Inv, FinalizerUnknownKind PROVE Step
  OBVIOUS
<1>1. Return(obj, children, TRUE, NoTimer)
  BY DEF FinalizerUnknownKind
<1>2. NoTimer \in Int
  BY DEF NoTimer
<1> QED
  BY <1>1, <1>2, LeavesAll, ReturnStep DEF FinalizerUnknownKind, Inv, TypeOK

\* Some of the children are moved along, and the object is left alone.
LEMMA LeavesFinalized ==
    ASSUME Inv, NEW done \in SUBSET LiveChildren
    PROVE  Leaves(obj, [n \in Name |->
                          IF n \in done THEN Finalized(children[n])
                                         ELSE children[n]])
<1> DEFINE cs == [n \in Name |-> IF n \in done THEN Finalized(children[n])
                                                ELSE children[n]]
<1>1. ASSUME NEW n \in Name
      PROVE  cs[n] \in GoodChild /\ Goes(n, cs)
             /\ (cs[n].live => children[n].live)
  <2>1. CASE n \in done
    <3>1. children[n].live /\ cs[n] = Finalized(children[n])
      BY <2>1 DEF LiveChildren
    <3>2. Moves(children[n], cs[n])
      BY <3>1, FinalizedMoves, GoodChildren
    <3> QED
      BY <3>1, <3>2 DEF Moves, Goes
  <2>2. CASE n \notin done
    BY <2>2, StandStill, GoodChildren DEF Goes
  <2> QED
    BY <2>1, <2>2
<1>2. cs \in [Name -> GoodChild]
  BY <1>1
<1> HIDE DEF cs
<1>3. Leaves(obj, cs)
  BY <1>1, <1>2 DEF Leaves, Inv, TypeOK, Guarded, NoOrphans, LiveChildren
<1> QED
  BY <1>3 DEF cs

LEMMA FinalizerWaitsStep == Inv /\ FinalizerWaits => Step
<1> SUFFICES ASSUME Inv, FinalizerWaits PROVE Step
  OBVIOUS
<1> DEFINE cs == [n \in Name |-> IF n \in LiveChildren
                                 THEN Finalized(children[n])
                                 ELSE children[n]]
<1>1. Leaves(obj, cs)
  BY LeavesFinalized
<1>2. cs = [n \in Name |-> IF children[n].live THEN Finalized(children[n])
                                               ELSE children[n]]
  BY DEF LiveChildren
<1>3. Return(obj, cs, FALSE, DeletionTerminationPeriod)
  BY <1>2 DEF FinalizerWaits
<1>4. DeletionTerminationPeriod \in Int
  BY PeriodsAssumption DEF PeriodsAssumption
<1> HIDE DEF cs
<1> QED
  BY <1>1, <1>3, <1>4, ReturnStep DEF FinalizerWaits, Inv, TypeOK

LEMMA FinalizerFailsStep == Inv /\ FinalizerFails => Step
<1> SUFFICES ASSUME Inv, FinalizerFails PROVE Step
  OBVIOUS
<1>1. PICK done \in SUBSET LiveChildren :
         Return(obj, [n \in Name |-> IF n \in done
                                     THEN Finalized(children[n])
                                     ELSE children[n]], TRUE, NoTimer)
  BY DEF FinalizerFails
<1>2. failures' \in 0..MaxFailures
  BY OutageCounted DEF FinalizerFails
<1>3. NoTimer \in Int
  BY DEF NoTimer
<1> QED
  BY <1>1, <1>2, <1>3, LeavesFinalized, ReturnStep
  DEF FinalizerFails, Inv, TypeOK

LEMMA FinalizerCompletesStep == Inv /\ FinalizerCompletes => Step
<1> SUFFICES ASSUME Inv, FinalizerCompletes PROVE Step
  OBVIOUS
<1> DEFINE o == IF Fresh THEN Gone(obj) ELSE obj
           cs == [n \in Name |-> NoChild]
<1>1. PICK requeue \in BOOLEAN : Return(o, cs, requeue, NoTimer)
  <2>1. (~Fresh /\ obj.phase # "gone") \in BOOLEAN
    OBVIOUS
  <2> QED
    BY <2>1 DEF FinalizerCompletes
<1>2. o \in Object
  BY DEF Inv, TypeOK, Object, Gone
<1>3. ASSUME NEW n \in Name
      PROVE  Moves(children[n], cs[n]) /\ ~cs[n].live
  <2>1. CASE children[n].live
    <3>1. DeleteNow(children[n])
      BY <2>1 DEF FinalizerCompletes, LiveChildren
    <3> QED
      BY <3>1, DeletedInTime, GoodChildren, NoChildGood DEF Moves, Pinned, NoChild
  <2>2. CASE ~children[n].live
    BY <2>2, GoodChildren, StandStill DEF GoodChild, OnClock, NoChild
  <2> QED
    BY <2>1, <2>2
<1>4. cs \in [Name -> GoodChild]
  BY NoChildGood
<1>5. view.phase = "deleting" /\ NoTimer \in Int
  BY DEF FinalizerCompletes, NoTimer
<1> HIDE DEF o, cs
<1>6. Leaves(o, cs)
  BY <1>2, <1>3, <1>4, <1>5 DEF Leaves, Goes
<1> QED
  BY <1>1, <1>5, <1>6, ReturnStep DEF FinalizerCompletes, Inv, TypeOK

----------------------------------------------------------------------------
(* The drain, entered with o and cs as the updates of the pass left them.   *)

Entries == ShardName \X Name

Entered(o, cs) ==
    /\ o \in Object /\ o.fin /\ o.phase # "gone"
    /\ cs \in [Name -> GoodChild]
    /\ \A n \in Name :
          \/ cs[n] = children[n]
          \/ children[n].live /\ Fits(cs[n]) /\ Pinned(children[n], cs[n])

LEMMA EnteredMoves ==
    ASSUME Inv, NEW o, NEW cs, Entered(o, cs)
    PROVE  \A n \in Name : Goes(n, cs)
BY GoodChildren, StandStill DEF Entered, Moves, Fits, Goes

\* The updates of the pass touched no child but those that are listed.
Touches(cs, listed) ==
    \A n \in Name : cs[n] # children[n] =>
       \E p \in Placed : <<p.shard, n>> \in listed

\* A child that has a twin is not one that stays, and its twin is.
LEMMA TwinStays ==
    ASSUME Inv, NEW o, NEW cs, Entered(o, cs), NEW n \in Name, cs[n].live,
           NEW listed, Touches(cs, listed), ~Stays(n, listed),
           HasTwin(n, cs, listed)
    PROVE  Twinned(n, [cs EXCEPT ![n] = NoChild])
<1>1. PICK m \in Name :
         /\ cs[m].live /\ Stays(m, listed) /\ ~IsTempChild(m)
         /\ cs[m].host = cs[n].host /\ cs[m].class = cs[n].class
  BY DEF HasTwin
<1>2. ~IsTempChild(n) /\ cs[n].host # NoHost
  BY DEF HasTwin
<1>3. ~IsTmpRoot(n)
  <2>1. CASE n = Bare
    BY <1>2, <2>1 DEF IsTmpRoot, IsTempChild
  <2>2. CASE n # Bare
    <3>1. n \in Seq(Int)
      BY SuffixAssumption DEF SuffixAssumption
    <3>2. Len(n) \in DOMAIN n
      BY <2>2, <3>1 DEF Bare
    <3> QED
      BY <1>2, <2>2, <3>2 DEF IsTmpRoot, IsTempChild
  <2> QED
    BY <2>1, <2>2
<1>4. cs[n] = children[n]
  BY <1>3 DEF Touches, Stays
<1>5. m # n
  BY <1>1
<1>6. cs \in [Name -> GoodChild]
  BY DEF Entered
<1>7. /\ [cs EXCEPT ![n] = NoChild][n] = NoChild
      /\ [cs EXCEPT ![n] = NoChild][m] = cs[m]
  BY <1>5, <1>6
<1> QED
  BY <1>1, <1>2, <1>4, <1>5, <1>7 DEF Twinned

\* A child that is drained, after an update of the same pass or without one.
LEMMA DrainMoves ==
    ASSUME Inv, NEW o, NEW cs, Entered(o, cs), NEW n \in Name, cs[n].live
    PROVE  /\ Moves(children[n], Timed(n, cs[n]))
           /\ DeleteNow(cs[n]) => Moves(children[n], NoChild)
<1>1. cs[n] \in GoodChild
  BY DEF Entered
<1>2. CASE cs[n] = children[n]
  <2>1. Moves(children[n], Timed(n, cs[n]))
    BY <1>1, <1>2, TimedMoves
  <2>2. DeleteNow(cs[n]) => Moves(children[n], NoChild)
    BY <1>1, <1>2, DeletedInTime, NoChildGood DEF Moves, Pinned, NoChild
  <2> QED
    BY <2>1, <2>2
<1>3. CASE /\ children[n].live /\ Fits(cs[n])
           /\ Pinned(children[n], cs[n])
  <2>1. /\ Timed(n, cs[n]) \in GoodChild
        /\ Pinned(cs[n], Timed(n, cs[n]))
    BY <1>1, TimedMoves DEF Moves
  <2>2. Timed(n, cs[n]).live /\ ~Timed(n, cs[n]).marked
    BY <1>1, <1>3, TimedMoves DEF Fits
  <2>3. ~DeleteNow(cs[n])
    BY <1>3 DEF Fits, DeleteNow
  <2> QED
    BY <1>3, <2>1, <2>2, <2>3 DEF Moves, Pinned
<1> QED
  BY <1>2, <1>3 DEF Entered

\* Whatever comes of a write of the status, it holds entries.
LEMMA StatusTyped ==
    \A o \in Object, new \in SUBSET Entries : \A issued, outage :
       \A w \in StatusWrite(o, new, issued, outage) :
          w.status \in SUBSET Entries
BY DEF StatusWrite, Object, Entries

LEMMA StatusReplaced ==
    \A o, cs : \A s \in SUBSET Entries :
       Entered(o, cs) => Entered([o EXCEPT !.status = s], cs)
BY DEF Entered, Object, Entries

\* A pass that ends after the updates: o and cs as they are.
LEMMA EnteredStep ==
    ASSUME Inv, NEW o, NEW cs, Entered(o, cs),
           Return(o, cs, FALSE, NoTimer),
           lists' \subseteq {"waiting", "ready", "managed", "error"},
           childKind' \in BOOLEAN, failures' \in 0..MaxFailures
    PROVE  Step
<1>1. Leaves(o, cs)
  BY EnteredMoves DEF Entered, Leaves
<1>2. NoTimer \in Int
  BY DEF NoTimer
<1> QED
  BY <1>1, <1>2, ReturnStep

LEMMA DrainChildStep ==
    ASSUME Inv, NEW o, NEW cs, Entered(o, cs),
           NEW ls \in SUBSET {"waiting", "ready", "managed", "error"},
           NEW n \in Name, cs[n].live, NEW deleted \in BOOLEAN,
           deleted => DeleteNow(cs[n]) \/ Twinned(n, [cs EXCEPT ![n] = NoChild]),
           NEW adds \in SUBSET Entries,
           NEW outage, DrainChild(o, cs, ls, n, deleted, adds, outage),
           childKind' \in BOOLEAN, failures' \in 0..MaxFailures
    PROVE  Step
<1> DEFINE new == o.status \cup adds
           issued == adds # {}
           after == [cs EXCEPT ![n] = IF deleted THEN NoChild
                                      ELSE Timed(n, cs[n])]
<1>1. PICK w \in StatusWrite(o, new, issued, outage) :
         /\ Return([o EXCEPT !.status = w.status], after, FALSE,
                   IF w.ok /\ ~deleted THEN TerminationPeriod ELSE NoTimer)
         /\ lists' = IF ~deleted /\ cs[n].due = NoDue
                     THEN (ls \ {"ready", "error"}) \cup {"waiting"}
                     ELSE ls
  BY DEF DrainChild
<1>2. new \in SUBSET Entries
  BY DEF Entered, Object, Entries
<1> HIDE DEF new, issued
<1>3. Entered([o EXCEPT !.status = w.status], cs)
  <2>1. o \in Object
    BY DEF Entered
  <2>2. w.status \in SUBSET Entries
    BY <1>1, <1>2, <2>1, StatusTyped
  <2> QED
    BY <2>2, StatusReplaced
<1>4. ASSUME NEW m \in Name
      PROVE  after[m] \in GoodChild /\ Goes(m, after)
  <2>1. CASE m = n /\ ~deleted
    <3>1. after[m] = Timed(n, cs[n])
      BY <2>1 DEF Entered
    <3>2. Moves(children[m], after[m])
      BY <2>1, <3>1, DrainMoves
    <3> QED
      BY <3>2 DEF Moves, Goes
  <2>2. CASE m = n /\ deleted
    <3>1. after[m] = NoChild /\ after = [cs EXCEPT ![n] = NoChild]
      BY <2>2 DEF Entered
    <3>2. DeleteNow(cs[n]) => Moves(children[m], after[m])
      BY <2>2, <3>1, DrainMoves
    <3>3. ~DeleteNow(cs[n]) => Twinned(m, after)
      BY <2>2, <3>1
    <3> QED
      BY <3>1, <3>2, <3>3, NoChildGood DEF Goes
  <2>3. CASE m # n
    <3>1. after[m] = cs[m] /\ Moves(children[m], cs[m])
      BY <2>3, GoodChildren, StandStill DEF Entered, Moves, Fits
    <3> QED
      BY <3>1 DEF Moves, Goes
  <2> QED
    BY <2>1, <2>2, <2>3
<1>5. after \in [Name -> GoodChild]
  BY <1>4 DEF Entered
<1> HIDE DEF after
<1>6. Leaves([o EXCEPT !.status = w.status], after)
  BY <1>3, <1>4, <1>5 DEF Leaves, Entered
<1>7. (IF w.ok /\ ~deleted THEN TerminationPeriod ELSE NoTimer) \in Int
  BY PeriodsAssumption DEF PeriodsAssumption, NoTimer
<1>8. lists' \subseteq {"waiting", "ready", "managed", "error"}
  BY <1>1
<1> QED
  BY <1>1, <1>6, <1>7, <1>8, ReturnStep

LEMMA DrainOneStep ==
    ASSUME Inv, NEW o, NEW cs, Entered(o, cs),
           NEW ls \in SUBSET {"waiting", "ready", "managed", "error"},
           NEW listed \in SUBSET Entries, Touches(cs, listed), NEW outage,
           DrainOne(o, cs, ls, listed, outage),
           childKind' \in BOOLEAN, failures' \in 0..MaxFailures
    PROVE  Step
<1>1. PICK n \in {m \in Name : cs[m].live /\ ~Stays(m, listed)} :
         \E adds \in SUBSET Entries :
            DrainChild(o, cs, ls, n, HasTwin(n, cs, listed) \/ DeleteNow(cs[n]),
                       adds, outage)
  BY DEF DrainOne
<1> DEFINE deleted == HasTwin(n, cs, listed) \/ DeleteNow(cs[n])
<1>2. deleted \in BOOLEAN
  OBVIOUS
<1>3. deleted => DeleteNow(cs[n]) \/ Twinned(n, [cs EXCEPT ![n] = NoChild])
  BY TwinStays
<1>4. \E adds \in SUBSET Entries : DrainChild(o, cs, ls, n, deleted, adds, outage)
  BY <1>1
<1> HIDE DEF deleted
<1> QED
  BY <1>2, <1>3, <1>4, DrainChildStep

LEMMA DrainDoneStep ==
    ASSUME Inv, NEW o, NEW cs, Entered(o, cs),
           NEW ls \in SUBSET {"waiting", "ready", "managed", "error"},
           NEW listed \in SUBSET Entries, NEW outage,
           DrainDone(o, cs, ls, listed, outage),
           childKind' \in BOOLEAN, failures' \in 0..MaxFailures
    PROVE  Step
<1>1. PICK new \in SUBSET Entries, issued \in BOOLEAN :
         DrainEnds(o, cs, ls, new, issued, outage)
  BY DEF DrainDone, Entered, Object, Entries
<1>2. PICK w \in StatusWrite(o, new, issued, outage) :
         /\ Return([o EXCEPT !.status = w.status], cs, FALSE, NoTimer)
         /\ lists' = IF w.ok THEN (ls \ {"waiting", "error"}) \cup {"ready"}
                             ELSE ls
  BY <1>1 DEF DrainEnds
<1>3. Entered([o EXCEPT !.status = w.status], cs)
  <2>1. o \in Object
    BY DEF Entered
  <2>2. w.status \in SUBSET Entries
    BY <1>2, <2>1, StatusTyped
  <2> QED
    BY <2>2, StatusReplaced
<1>4. lists' \subseteq {"waiting", "ready", "managed", "error"}
  BY <1>2
<1> QED
  BY <1>2, <1>3, <1>4, EnteredStep

LEMMA DrainFailsStep ==
    ASSUME Inv, NEW o, NEW cs, Entered(o, cs),
           NEW ls \in SUBSET {"waiting", "ready", "managed", "error"},
           NEW listed \in SUBSET Entries, NEW outage,
           DrainFails(o, cs, ls, listed, outage),
           childKind' \in BOOLEAN, failures' \in 0..MaxFailures
    PROVE  Step
<1>1. PICK adds \in SUBSET Entries :
         \E w \in StatusWrite(o, o.status \cup adds, adds # {}, outage) :
            Return([o EXCEPT !.status = w.status], cs, FALSE, NoTimer)
  BY DEF DrainFails
<1>2. PICK w \in StatusWrite(o, o.status \cup adds, adds # {}, outage) :
         Return([o EXCEPT !.status = w.status], cs, FALSE, NoTimer)
  BY <1>1
<1> DEFINE new == o.status \cup adds
           issued == adds # {}
<1>3. new \in SUBSET Entries /\ o \in Object
  BY DEF Entered, Object, Entries
<1>4. w \in StatusWrite(o, new, issued, outage)
  BY <1>2
<1> HIDE DEF new, issued
<1>5. Entered([o EXCEPT !.status = w.status], cs)
  BY <1>3, <1>4, StatusTyped, StatusReplaced
<1>6. lists' = ls
  BY DEF DrainFails
<1> QED
  BY <1>2, <1>5, <1>6, EnteredStep

----------------------------------------------------------------------------
(* Users, caches, time and restarts.                                        *)

LEMMA UserWritesStep ==
    ASSUME Inv, NEW o, Leaves(o, children), UserWrites(o)
    PROVE  Step
<1>1. Write(o, children)
  BY DEF UserWrites
<1>2. edits' \in 0..MaxEdits
  BY FlagsAssumption DEF UserWrites, Inv, TypeOK, FlagsAssumption
<1>3. queued' \in BOOLEAN
  BY FlagsAssumption DEF UserWrites, Event, Inv, TypeOK, FlagsAssumption
<1> QED
  BY <1>1, <1>2, <1>3, WriteKeeps DEF UserWrites, Step, Inv, TypeOK

\* No child is under an object without the finalizer, and no pass has seen one.
LEMMA LeavesUnguarded ==
    ASSUME Inv, ~obj.fin \/ obj.phase = "gone", NEW o \in Object
    PROVE  Leaves(o, children)
BY LeavesAll DEF Leaves, Inv, Guarded, NoOrphans, LiveChildren

LEMMA UserStep == Inv /\ User => Step
<1> SUFFICES ASSUME Inv, User PROVE Step
  OBVIOUS
<1> USE DEF Leaves
<1>1. CASE UserEdits
  <2>1. PICK c \in Class, t \in Template, a \in AllShards :
           UserWrites(Asking(obj, c, t, a))
    BY <1>1 DEF UserEdits
  <2>2. /\ Asking(obj, c, t, a) \in Object
        /\ Asking(obj, c, t, a).fin = obj.fin
        /\ Asking(obj, c, t, a).phase = obj.phase
    BY DEF Asking, Inv, TypeOK, Object
  <2>3. Leaves(Asking(obj, c, t, a), children)
    BY <2>2, LeavesAll
  <2> QED
    BY <2>1, <2>3, UserWritesStep
<1>2. CASE UserDeletes /\ obj.fin
  <2>1. UserWrites([obj EXCEPT !.phase = "deleting"])
    BY <1>2 DEF UserDeletes
  <2>2. Leaves([obj EXCEPT !.phase = "deleting"], children)
    BY <1>2, LeavesAll DEF Inv, TypeOK, Object
  <2> QED
    BY <2>1, <2>2, UserWritesStep
<1>3. CASE UserDeletes /\ ~obj.fin
  <2>1. UserWrites(Gone(obj))
    BY <1>3 DEF UserDeletes
  <2>2. Gone(obj) \in Object
    BY DEF Inv, TypeOK, Object, Gone
  <2> QED
    BY <1>3, <2>1, <2>2, LeavesUnguarded, UserWritesStep
<1>4. CASE UserRecreates
  <2>1. UserWrites([obj EXCEPT !.phase = "live"]) /\ obj.phase = "gone"
    BY <1>4 DEF UserRecreates
  <2>2. [obj EXCEPT !.phase = "live"] \in Object
    BY DEF Inv, TypeOK, Object
  <2> QED
    BY <2>1, <2>2, LeavesUnguarded, UserWritesStep
<1> QED
  BY <1>1, <1>2, <1>3, <1>4 DEF User

LEMMA LagBounds == 0 \in 0..LagLimit
BY FlagsAssumption DEF FlagsAssumption

LEMMA SyncStep == Inv /\ (SyncObject \/ SyncChildren) => Step
<1> SUFFICES ASSUME Inv, SyncObject \/ SyncChildren PROVE Step
  OBVIOUS
<1>1. children' = children /\ obj' = obj
  BY DEF SyncObject, SyncChildren, cluster
<1>2. \A n \in Name : Goes(n, children')
  BY <1>1, StandsStill
<1>3. CASE SyncObject
  BY <1>2, <1>3, LagBounds
  DEF SyncObject, Step, Inv, TypeOK, Clocks, Cached, Guarded, NoOrphans,
      LiveChildren, cluster, operator
<1>4. CASE SyncChildren
  <2>1. childLog \in Seq([Name -> Child]) /\ childLog # <<>>
    BY <1>4 DEF SyncChildren, Inv, TypeOK
  <2>2. /\ childLog' \in Seq([Name -> Child]) /\ childView' \in [Name -> Child]
        /\ childLog' = <<>> => childView' = childLog[Len(childLog)]
        /\ childLog' # <<>> => childLog'[Len(childLog')] = childLog[Len(childLog)]
    BY <1>4, <2>1, HeadAndTail DEF SyncChildren
  <2>3. Cached'
    BY <1>1, <1>4, <2>1, <2>2 DEF SyncChildren, Inv, Cached
  <2> QED
    BY <1>1, <1>2, <1>4, <2>2, <2>3, LagBounds
    DEF SyncChildren, Step, Inv, TypeOK, Clocks, Guarded, NoOrphans,
        LiveChildren, cluster, operator
<1> QED
  BY <1>3, <1>4

LEMMA TimerFiresStep == Inv /\ TimerFires => Step
<1> SUFFICES ASSUME Inv, TimerFires PROVE Step
  OBVIOUS
<1>1. \A n \in Name : Goes(n, children')
  BY StandsStill DEF TimerFires, cluster
<1> QED
  BY <1>1
  DEF TimerFires, Step, Inv, TypeOK, Clocks, Cached, Guarded, NoOrphans,
      LiveChildren, cluster, caches, operator

LEMMA RestartStep == Inv /\ Restart => Step
<1> SUFFICES ASSUME Inv, Restart PROVE Step
  OBVIOUS
<1>1. \A n \in Name : Goes(n, children')
  BY StandsStill DEF Restart, cluster
<1>2. restarts' \in 0..MaxRestarts
  BY FlagsAssumption DEF Restart, Inv, TypeOK, FlagsAssumption
<1>3. NoTimer \in Int
  BY DEF NoTimer
<1> QED
  BY <1>1, <1>2, <1>3, EmptyLog, LagBounds
  DEF Restart, Step, Inv, TypeOK, Clocks, Cached, Guarded, NoOrphans,
      LiveChildren, cluster

LEMMA LaterTyped ==
    \A cs \in [Name -> Child] : AllLater(cs) \in [Name -> Child]
<1> SUFFICES ASSUME NEW cs \in [Name -> Child]
             PROVE  AllLater(cs) \in [Name -> Child]
  OBVIOUS
<1>1. ASSUME NEW c \in Child PROVE OneSecondLater(c) \in Child
  BY GraceBounds DEF Child, OneSecondLater, Clocked
<1> QED
  BY <1>1 DEF AllLater

\* A second passes over the caches as well, and leaves them as far behind.
LEMMA TickCaches ==
    ASSUME Inv, Tick
    PROVE  /\ childView' \in [Name -> Child]
           /\ childLog' \in Seq([Name -> Child])
           /\ DOMAIN childLog' = DOMAIN childLog
           /\ lag' \in 0..LagLimit
           /\ Cached'
<1>1. childView \in [Name -> Child] /\ childLog \in Seq([Name -> Child])
  BY DEF Inv, TypeOK
<1>2. childView' \in [Name -> Child]
  BY <1>1, LaterTyped DEF Tick
<1>3. childLog' = [i \in DOMAIN childLog |-> AllLater(childLog[i])]
  BY DEF Tick
<1>4. DOMAIN childLog = 1 .. Len(childLog) /\ Len(childLog) \in Nat
  BY <1>1
<1>5. \A i \in 1 .. Len(childLog) : AllLater(childLog[i]) \in [Name -> Child]
  BY <1>1, LaterTyped
<1>6. /\ childLog' \in Seq([Name -> Child])
      /\ Len(childLog') = Len(childLog)
      /\ DOMAIN childLog' = DOMAIN childLog
  BY <1>3, <1>4, <1>5
<1>7. lag' \in 0..LagLimit
  BY FlagsAssumption DEF FlagsAssumption, Tick, Inv, TypeOK
<1>8. Cached'
  <2>1. objStale' = objStale /\ view' = view /\ obj' = obj
    BY DEF Tick
  <2>2. CASE childLog = <<>>
    <3>1. childLog' = <<>>
      BY <1>3, <2>2
    <3>2. childView' = children'
      BY <2>2 DEF Inv, Cached, Tick
    <3> QED
      BY <2>1, <3>1, <3>2 DEF Inv, Cached
  <2>3. CASE childLog # <<>>
    <3>1. Len(childLog) \in DOMAIN childLog
      BY <1>1, <2>3, EmptySeq
    <3>2. childLog'[Len(childLog')] = AllLater(childLog[Len(childLog)])
      BY <1>3, <1>6, <3>1
    <3>3. childLog[Len(childLog)] = children /\ CachesLag
      BY <2>3 DEF Inv, Cached
    <3>4. childLog' # <<>>
      BY <1>6, <3>1
    <3> QED
      BY <2>1, <3>2, <3>3, <3>4 DEF Inv, Cached, Tick
  <2> QED
    BY <2>2, <2>3
<1> QED
  BY <1>2, <1>6, <1>7, <1>8

\* A second passes: the invariant holds after it and every clock moved on.
LEMMA TickStep ==
    Inv /\ Tick =>
      /\ Inv'
      /\ \A n \in Name : children'[n] = OneSecondLater(children[n])
<1> SUFFICES ASSUME Inv, Tick
             PROVE  /\ Inv'
                    /\ \A n \in Name : children'[n] = OneSecondLater(children[n])
  OBVIOUS
<1>1. ASSUME NEW n \in Name
      PROVE  /\ children'[n] = OneSecondLater(children[n])
             /\ children'[n] \in GoodChild
             /\ children'[n].live = children[n].live
  <2>1. children'[n] = OneSecondLater(children[n])
    BY DEF Tick, AllLater
  <2> QED
    BY <2>1, GoodChildren, OneSecondLaterGood DEF OneSecondLater, Clocked
<1>2. children' \in [Name -> Child]
  BY <1>1 DEF Tick, AllLater, GoodChild
<1>3. Clocks' /\ \A n \in Name : children'[n].due >= NoDue
  BY <1>1 DEF Clocks, GoodChild, OnClock
<1>4. timer' \in Nat \cup {NoTimer}
  BY DEF Tick, Inv, TypeOK, NoTimer
<1>5. TypeOK'
  BY <1>2, <1>3, <1>4, TickCaches DEF Tick, Inv, TypeOK, operator
<1>6. Guarded'
  BY <1>1 DEF Tick, Inv, Guarded, NoOrphans, LiveChildren
<1> QED
  BY <1>1, <1>3, <1>5, <1>6, TickCaches DEF Inv

LEMMA InitInv == Init => Inv
<1> SUFFICES ASSUME Init PROVE Inv
  OBVIOUS
<1>1. children \in [Name -> GoodChild] /\ childView = children
  BY NoChildGood DEF Init
<1>2. \A n \in Name : ~children[n].live
  BY DEF Init, NoChild
<1>3. obj \in Object /\ ~obj.fin
  BY DEF Init, Object
<1>4. edits \in 0..MaxEdits /\ restarts \in 0..MaxRestarts
      /\ failures \in 0..MaxFailures
  BY FlagsAssumption DEF Init, FlagsAssumption
<1>5. TypeOK
  BY <1>1, <1>3, <1>4, EmptyLog, LagBounds DEF Init, TypeOK, GoodChild, OnClock, NoTimer
<1>6. Clocks /\ Cached /\ Guarded
  BY <1>1, <1>2, <1>3
  DEF Init, Clocks, GoodChild, Cached, Guarded, NoOrphans, LiveChildren
<1> QED
  BY <1>5, <1>6 DEF Inv
=============================================================================
