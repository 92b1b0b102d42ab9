------------------------ MODULE ShardedIngressProofs ------------------------
(****************************************************************************)
(* What holds of the ShardedIngress controller for every value of the       *)
(* constants: the types, no child without its object, no child deleted      *)
(* before it was drained, and, where nothing disturbs the passes, no shard  *)
(* left uncovered by a move.  The invariant is Inv of the module            *)
(* ShardedReconcilerProofs, strengthened to MoveInv for the moves; this     *)
(* module shows that the apply pass keeps both.                             *)
(****************************************************************************)
EXTENDS ShardedIngressReconciler, ApplyPassProofs

----------------------------------------------------------------------------
(* What a pass renders.                                                     *)

LEMMA NamesTyped ==
    /\ Bare \in Name
    /\ \A i \in ShardIndex : Main(i) \in Name /\ TmpOf(i) \in Name
BY NamesAssumption DEF NamesAssumption, IngressName

LEMMA MainNameTyped ==
    \A p \in Place : MainName(p) \in Name
BY NamesTyped DEF MainName, Place

\* What the apply pass lists and renders, for any conflicts it may have found.
LEMMA ListTyped ==
    ASSUME Inv, maxShards[view.class] # Unknown, NEW conflict
    PROVE  StatusList(conflict) \in SUBSET Entries
<1>1. \A p \in Placed : <<p.shard, MainName(p)>> \in Entries
  BY PlacedTyped, MainNameTyped DEF Place, Entries
<1>2. \A p \in Placed : <<p.shard, TmpOf(p.num)>> \in Entries
  BY PlacedTyped, NamesTyped DEF Place, Entries
<1> QED
  BY <1>1, <1>2 DEF StatusList

LEMMA ObjectsTyped ==
    ASSUME Inv, maxShards[view.class] # Unknown,
           NEW conflict \in [Placed -> ShardName \cup {NoShard}]
    PROVE  \A o \in Objects(conflict) : Applied(o)
<1> DEFINE content == <<view.template, view.all>>
<1>1. content \in Content
  BY FlagsAssumption DEF FlagsAssumption, Inv, TypeOK, Object, Content
<1>2. ASSUME NEW p \in Placed
      PROVE  /\ p.shard \in ShardName
             /\ MainName(p) \in Name /\ TmpOf(p.num) \in Name
             /\ conflict[p] \in ShardName \cup {NoShard}
             /\ MainClass(p, conflict[p]) \in ShardName \cup {NoShard}
             /\ 2 * p.num \in Int /\ 2 * p.num + 1 \in Int
  <2>1. p \in Place
    BY PlacedTyped
  <2>2. p.shard \in ShardName /\ MainName(p) \in Name /\ TmpOf(p.num) \in Name
    BY <2>1, MainNameTyped, NamesTyped DEF Place
  <2>3. childView[TmpOf(p.num)].old \in ShardName \cup {NoShard}
    BY <2>2 DEF Inv, TypeOK, Child
  <2>4. 2 * p.num \in Int /\ 2 * p.num + 1 \in Int
    BY <2>1 DEF Place, ShardIndex
  <2> QED
    BY <2>2, <2>3, <2>4 DEF MainClass, OldShard
<1>3. ASSUME NEW p \in Placed
      PROVE  /\ Fits(Rendered(MainClass(p, conflict[p]), NoHost, content,
                              NoShard))
             /\ Fits(Rendered(conflict[p], NoHost, content, conflict[p]))
             /\ \A c, class, old :
                   Pinned(c, Rendered(class, NoHost, content, old))
  <2> HIDE DEF content
  <2>1. \A c, class, old : Pinned(c, Rendered(class, NoHost, content, old))
    BY DEF Pinned, Rendered
  <2> QED
    BY <1>1, <1>2, <2>1, RenderedFits
<1>4. ASSUME NEW o \in Objects(conflict)
      PROVE  Applied(o)
  <2>1. CASE \E p \in Placed :
               /\ o.name = MainName(p) /\ o.shard = p.shard
               /\ o.rank = 2 * p.num + 1
               /\ o.child = Rendered(MainClass(p, conflict[p]), NoHost, content,
                                   NoShard)
    BY <1>2, <1>3, <2>1 DEF Applied
  <2>2. CASE \E p \in Placed :
               /\ o.name = TmpOf(p.num) /\ o.shard = p.shard
               /\ o.rank = 2 * p.num
               /\ o.child = Rendered(conflict[p], NoHost, content, conflict[p])
    BY <1>2, <1>3, <2>2 DEF Applied
  <2> QED
    BY <2>1, <2>2 DEF Objects
<1> QED
  BY <1>4

\* A tmp child is rendered for an old shard, and then it is listed.
LEMMA ObjectsListed ==
    \A conflict : AllListed(Objects(conflict), StatusList(conflict))
<1> SUFFICES ASSUME NEW conflict, NEW o \in Objects(conflict)
             PROVE  \E p \in Placed : <<p.shard, o.name>> \in StatusList(conflict)
  BY DEF AllListed
<1>1. CASE \E p \in Placed : o.name = MainName(p)
  BY <1>1 DEF StatusList
<1>2. CASE \E p \in Placed : MissingTmp(p, conflict[p]) /\ o.name = TmpOf(p.num)
  <2>1. PICK p \in Placed : MissingTmp(p, conflict[p]) /\ o.name = TmpOf(p.num)
    BY <1>2
  <2>2. OldShard(p, conflict[p]) # NoShard
    BY <2>1 DEF MissingTmp, OldShard, HoldsOldShard
  <2> QED
    BY <2>1, <2>2 DEF StatusList
<1> QED
  BY <1>1, <1>2 DEF Objects

LEMMA ReconcileApplyStep == Inv /\ ReconcileApply => Step
<1> SUFFICES ASSUME Inv, ReconcileApply PROVE Step
  OBVIOUS
<1>1. Applies /\ maxShards[view.class] # Unknown
  BY DEF ReconcileApply, Applies
<1>2. PICK conflict \in [Placed -> ShardName \cup {NoShard}] :
         ApplyRendered(Objects(conflict), StatusList(conflict))
  BY DEF ReconcileApply
<1> QED
  BY <1>1, <1>2, ObjectsTyped, ListTyped, ObjectsListed, ApplyRenderedStep

----------------------------------------------------------------------------
(* The theorems.                                                            *)

\* Every step but that of the clock keeps the invariant and moves each child
\* along its life.
LEMMA NextStep == Inv /\ Next => Step \/ Tick
<1> SUFFICES ASSUME Inv, Next PROVE Step \/ Tick
  OBVIOUS
<1>1. CASE ReconcileBeforeApply
  BY <1>1, NotFoundStep, FinalizerRefusedStep, UnknownClassStep,
     RateLimitedStep, UnknownKindStep, FinalizerWaitsStep,
     FinalizerCompletesStep, FinalizerFailsStep
  DEF ReconcileBeforeApply
<1>2. CASE ReconcileApply
  BY <1>2, ReconcileApplyStep
<1>3. CASE User \/ SyncObject \/ SyncChildren \/ TimerFires \/ Restart
  BY <1>3, UserStep, SyncStep, TimerFiresStep, RestartStep
<1> QED
  BY <1>1, <1>2, <1>3 DEF Next, Reconcile

LEMMA InvStutters == Inv /\ UNCHANGED vars => Inv'
BY DEF Inv, TypeOK, Clocks, Cached, Guarded, NoOrphans, LiveChildren, vars,
       cluster, caches, operator

THEOREM Invariance == Spec => []Inv
<1>1. Inv /\ [Next]_vars => Inv'
  BY NextStep, TickStep, InvStutters DEF Step
<1> QED
  BY <1>1, InitInv, PTL DEF Spec

\* TypeCorrect: objects, children and caches hold what the API types allow,
\* and deadlines, lists and timers what the code puts into them, for any
\* classes, templates, periods and bounds.
THEOREM TypeCorrect == Spec => []TypeOK
<1>1. Inv => TypeOK
  BY DEF Inv
<1> QED
  BY <1>1, Invariance, PTL

\* NothingOrphaned: however the caches lag, whatever fails and whenever the
\* operator restarts, a child is always under an object with the finalizer.
THEOREM NothingOrphaned == Spec => []NoOrphans
<1>1. Inv => NoOrphans
  BY DEF Inv, Guarded
<1> QED
  BY <1>1, Invariance, PTL

\* The stages a child of the invariant can be in.
LEMMA Stages ==
    \A c \in GoodChild :
       /\ Stage(c) = "absent" <=> ~c.live
       /\ Stage(c) = "serving" <=> c.live /\ ~c.marked /\ c.due = NoDue
       /\ Stage(c) = "scheduled" <=> c.live /\ ~c.marked /\ c.due # NoDue
       /\ Stage(c) = "unregistered" <=> c.live /\ c.marked
       /\ Stage(c) \in {"absent", "serving", "scheduled", "unregistered"}
       /\ ~c.marked => c.age = 0
<1> SUFFICES ASSUME NEW c \in GoodChild
             PROVE  /\ Stage(c) = "absent" <=> ~c.live
                    /\ Stage(c) = "serving" <=>
                          c.live /\ ~c.marked /\ c.due = NoDue
                    /\ Stage(c) = "scheduled" <=>
                          c.live /\ ~c.marked /\ c.due # NoDue
                    /\ Stage(c) = "unregistered" <=> c.live /\ c.marked
                    /\ Stage(c) \in {"absent", "serving", "scheduled",
                                     "unregistered"}
                    /\ ~c.marked => c.age = 0
  OBVIOUS
<1>1. c.live \in BOOLEAN /\ c.marked \in BOOLEAN /\ (~c.marked => c.age = 0)
  BY DEF GoodChild, Child, OnClock
<1>2. CASE ~c.live
  BY <1>1, <1>2 DEF Stage
<1>3. CASE c.live /\ c.marked
  BY <1>1, <1>3 DEF Stage
<1>4. CASE c.live /\ ~c.marked /\ c.due # NoDue
  BY <1>1, <1>4 DEF Stage
<1>5. CASE c.live /\ ~c.marked /\ c.due = NoDue
  BY <1>1, <1>5 DEF Stage
<1> QED
  BY <1>1, <1>2, <1>3, <1>4, <1>5

\* An Ingress has no host, and so no twin.
LEMMA HostlessMoves ==
    Inv /\ Step => \A n \in Name : Moves(children[n], children'[n])
BY NamesAssumption DEF NamesAssumption, Inv, TypeOK, Child, Step, Goes, Twinned

\* A child that moves along is a child that ChildLifecycle lets move.
LEMMA StepPasses == Inv /\ Step => Lifecycle!Pass
<1> SUFFICES ASSUME Inv, Step PROVE Lifecycle!Pass
  OBVIOUS
<1>1. ASSUME NEW n \in Name
      PROVE  \/ Lifecycle!Create(n) \/ Lifecycle!Schedule(n)
             \/ Lifecycle!Unregister(n) \/ Lifecycle!Restore(n)
             \/ Lifecycle!Delete(n) \/ Lifecycle!Stay(n)
  <2> DEFINE c == children[n]
             d == children'[n]
  <2>1. c \in GoodChild /\ d \in GoodChild /\ Moves(c, d)
    BY GoodChildren, HostlessMoves DEF Step, Moves
  <2>2. /\ [m \in Name |-> Stage(children[m])][n] = Stage(c)
        /\ [m \in Name |-> Stage(children[m])]'[n] = Stage(d)
        /\ [m \in Name |-> children[m].age][n] = c.age
        /\ [m \in Name |-> children[m].age]'[n] = d.age
    OBVIOUS
  <2> HIDE DEF c, d
  <2>3. CASE d = c
    BY <2>2, <2>3 DEF Lifecycle!Stay
  <2>4. CASE ~c.live /\ Fits(d)
    BY <2>1, <2>2, <2>4, Stages DEF Lifecycle!Create, Lifecycle!Serves, Fits
  <2>5. CASE c.live /\ d.live /\ ~d.marked
    <3>1. CASE Stage(c) = "serving"
      <4>1. c.age = 0 /\ d.age = 0
        BY <2>1, <2>5, <3>1, Stages
      <4>2. Stage(d) \in {"serving", "scheduled"}
        BY <2>1, <2>5, Stages
      <4> QED
        BY <2>2, <3>1, <4>1, <4>2
        DEF Lifecycle!Stay, Lifecycle!Schedule, Lifecycle!IsScheduled
    <3>2. CASE Stage(c) # "serving"
      <4>1. Stage(c) \in {"scheduled", "unregistered"} /\ d.age = 0
        BY <2>1, <2>5, <3>2, Stages
      <4>2. Stage(d) \in {"serving", "scheduled"}
        BY <2>1, <2>5, Stages
      <4> QED
        BY <2>2, <4>1, <4>2
        DEF Lifecycle!Restore, Lifecycle!Serves, Lifecycle!IsScheduled
    <3> QED
      BY <3>1, <3>2
  <2>6. CASE c.live /\ ~c.marked /\ d.live /\ d.marked /\ d.age = 0
    BY <2>1, <2>2, <2>6, Stages DEF Lifecycle!Unregister
  <2>7. CASE c.marked /\ c.age >= Grace /\ d = NoChild
    <3>1. c.live
      BY <2>1, <2>7 DEF GoodChild, OnClock
    <3>2. Stage(d) = "absent" /\ d.age = 0
      BY <2>1, <2>7, Stages DEF NoChild
    <3> QED
      BY <2>1, <2>2, <2>7, <3>1, <3>2, Stages DEF Lifecycle!Delete
  <2> QED
    BY <2>1, <2>3, <2>4, <2>5, <2>6, <2>7 DEF Moves
<1> QED
  BY <1>1 DEF Lifecycle!Pass

LEMMA TickPasses == Inv /\ Tick => Lifecycle!Second
<1> SUFFICES ASSUME Inv, Tick PROVE Lifecycle!Second
  OBVIOUS
<1>1. ASSUME NEW n \in Name
      PROVE  /\ Stage(children'[n]) = Stage(children[n])
             /\ children'[n].age =
                   IF Stage(children[n]) = "unregistered" /\ children[n].age < Grace
                   THEN children[n].age + 1 ELSE children[n].age
  <2>1. children[n] \in GoodChild /\ children'[n] = OneSecondLater(children[n])
    BY GoodChildren, TickStep
  <2>2. Stage(children[n]) = "unregistered" <=> children[n].marked
    BY <2>1, Stages DEF GoodChild, OnClock
  <2> QED
    BY <2>1, <2>2, OneSecondLaterGood
<1> QED
  BY <1>1 DEF Lifecycle!Second

LEMMA StutterPasses ==
    UNCHANGED vars =>
      UNCHANGED <<[n \in Name |-> Stage(children[n])],
                  [n \in Name |-> children[n].age]>>
BY DEF vars, cluster

\* DrainedFirst: for any periods and any clusters, and whatever fails,
\* restarts or is edited on the way, the life of every child is one that
\* ChildLifecycle allows: it is deleted only after it has been unregistered
\* for the grace period.
THEOREM DrainedFirst == Spec => DrainedBeforeDeleted
<1>1. Init => Lifecycle!Init
  BY DEF Init, Lifecycle!Init, NoChild, Stage
<1>2. Inv /\ [Next]_vars =>
        [Lifecycle!Pass \/ Lifecycle!Second]_<<
             [n \in Name |-> Stage(children[n])],
             [n \in Name |-> children[n].age]>>
  BY NextStep, StepPasses, TickPasses, StutterPasses
<1> QED
  BY <1>1, <1>2, Invariance, PTL DEF Spec, DrainedBeforeDeleted, Lifecycle!Spec

----------------------------------------------------------------------------
(* MoveCovered.  It needs caches that keep up and calls that do not fail, a *)
(* configuration that stays, and classes that all have shards: README.md    *)
(* says what happens without.                                               *)

Undisturbed ==
    /\ ~CachesLag /\ MaxFailures = 0
    /\ \A f, g \in Configs : f = g
    /\ \A f \in Configs : \A c \in Class : f[c] # 0

\* The shards and children of one number.
OfIndex(s, i) == \E c \in Class : s = <<c, i>>

BookedUnder(n) == {e[1] : e \in {x \in obj.status : x[2] = n}}

Indexed ==
    /\ ~children[Bare].live
    /\ \A e \in obj.status :
          \E i \in ShardIndex : e[2] \in {Main(i), TmpOf(i)} /\ OfIndex(e[1], i)
    /\ \A i \in ShardIndex :
          /\ children[Main(i)].live => OfIndex(children[Main(i)].class, i)
          /\ children[TmpOf(i)].live =>
                /\ OfIndex(children[TmpOf(i)].class, i)
                /\ children[TmpOf(i)].old = children[TmpOf(i)].class

\* A main child that is not where it should be can leave: the tmp child is on
\* its shard, or will be created there, since the status has the main child
\* under this shard and no other.
Backed(i) ==
    IF children[TmpOf(i)].live
    THEN children[TmpOf(i)].class = children[Main(i)].class
    ELSE BookedUnder(Main(i)) = {children[Main(i)].class}

Covered ==
    obj.phase = "live" /\ maxShards[obj.class] # Unknown =>
      \A p \in Placed, i \in ShardIndex :
         /\ i = p.num
         /\ children[Main(i)].live /\ children[Main(i)].class # p.shard
         => Backed(i)

MoveInv == Inv /\ Synced /\ Indexed /\ Covered

\* No move is under way: there is no tmp child, and the status has each main
\* child where it is.
Calm ==
    \A i \in ShardIndex :
       /\ ~children[TmpOf(i)].live
       /\ children[Main(i)].live =>
             BookedUnder(Main(i)) = {children[Main(i)].class}

\* Before the first write of a user, the status has each child, and nothing
\* but the main children where they belong.
Unedited ==
    edits = 0 =>
      /\ obj.phase = "live"
      /\ \A n \in LiveChildren : <<children[n].class, n>> \in obj.status
      /\ \A e \in obj.status :
            /\ maxShards[obj.class] # Unknown
            /\ \E p \in Placed : e = <<p.shard, Main(p.num)>>

LEMMA NamesDiffer ==
    \A i, j \in ShardIndex :
       /\ Main(i) # TmpOf(j) /\ Main(i) # Bare /\ TmpOf(i) # Bare
       /\ Main(i) = Main(j) => i = j
       /\ TmpOf(i) = TmpOf(j) => i = j
       /\ ~IsTmpRoot(Main(i)) /\ IsTempChild(TmpOf(i))
BY DEF Main, TmpOf, Bare, Tmp, IsTmpRoot, IsTempChild, ShardIndex

LEMMA NamesAre ==
    \A n \in Name :
       \/ n = Bare
       \/ \E i \in ShardIndex : n \in {Main(i), TmpOf(i)}
BY NamesAssumption DEF NamesAssumption, IngressName

\* Where no class is without shards, the places are numbered main children.
LEMMA PlacedSharded ==
    ASSUME Inv, Undisturbed, maxShards[view.class] # Unknown
    PROVE  /\ view.class \in Class
           /\ \A p \in Placed :
                 /\ p.num \in ShardIndex /\ p.shard = <<view.class, p.num>>
                 /\ OfIndex(p.shard, p.num) /\ p.shard # NoShard
                 /\ MainName(p) = Main(p.num)
           /\ \A p, q \in Placed : p.num = q.num => p = q
<1>1. view.class \in Class /\ maxShards[view.class] # 0
  BY DEF Inv, TypeOK, Object, Undisturbed
<1>2. \/ \E S \in SUBSET Int :
            Placed = {[num |-> i, shard |-> <<view.class, i>>] : i \in S}
  <2> DEFINE max == maxShards[view.class]
  <2>1. /\ max \in 0..ShardLimit
        /\ \/ /\ max = 0
              /\ Placed = {[num |-> 0, shard |-> <<view.class>>]}
           \/ /\ max > 0
              /\ Placed = {[num |-> i, shard |-> <<view.class, i>>]
                              : i \in 0 .. max - 1}
           \/ /\ max > 0
              /\ Placed = {[num |-> Hash % max,
                            shard |-> <<view.class, Hash % max>>]}
    BY PlacedIs
  <2>2. max # 0
    BY <1>1
  <2>3. max \in Nat /\ Hash \in Nat /\ ShardLimit \in Nat
    BY <2>1, ConfigsAssumption DEF ConfigsAssumption
  <2> HIDE DEF max
  <2>4. CASE Placed = {[num |-> i, shard |-> <<view.class, i>>]
                              : i \in 0 .. max - 1}
    <3>1. 0 .. max - 1 \in SUBSET Int
      BY <2>3
    <3> QED
      BY <2>4, <3>1
  <2>5. CASE Placed = {[num |-> Hash % max, shard |-> <<view.class, Hash % max>>]}
    <3>1. Placed = {[num |-> i, shard |-> <<view.class, i>>] : i \in {Hash % max}}
      BY <2>5
    <3>2. {Hash % max} \in SUBSET Int
      BY <2>2, <2>3
    <3> QED
      BY <3>1, <3>2
  <2> QED
    BY <2>1, <2>2, <2>4, <2>5
<1>3. ASSUME NEW p \in Placed
      PROVE  /\ p.num \in ShardIndex /\ p.shard = <<view.class, p.num>>
             /\ p = [num |-> p.num, shard |-> <<view.class, p.num>>]
  BY <1>2, PlacedTyped DEF Place
<1>4. ASSUME NEW p \in Placed
      PROVE  /\ OfIndex(p.shard, p.num) /\ p.shard # NoShard
             /\ MainName(p) = Main(p.num)
  BY <1>1, <1>3 DEF OfIndex, NoShard, MainName
<1> QED
  BY <1>1, <1>3, <1>4

\* A pass of the controller under these conditions, with the conflicts found.
Moving(conflict) ==
    /\ MoveInv /\ Undisturbed /\ maxShards[view.class] # Unknown
    /\ conflict \in [Placed -> ShardName \cup {NoShard}]
    /\ \A p \in Placed : conflict[p] \in Conflicts(p)

Holding(p, conflict) ==
    Rendered(MainClass(p, conflict[p]), NoHost, <<view.template, view.all>>,
             NoShard)

MainObject(p, conflict) ==
    [name |-> MainName(p), rank |-> 2 * p.num + 1, shard |-> p.shard,
     child |-> Holding(p, conflict)]

TmpObject(p, conflict) ==
    [name |-> TmpOf(p.num), rank |-> 2 * p.num, shard |-> p.shard,
     child |-> Rendered(conflict[p], NoHost, <<view.template, view.all>>,
                        conflict[p])]

\* What a pass applies: the main child of each place, and the tmp children it
\* needs and has not got.
LEMMA ObjectIs ==
    \A conflict : \A o :
       o \in Objects(conflict) <=>
          \/ \E p \in Placed : o = MainObject(p, conflict)
          \/ \E p \in Placed : /\ MissingTmp(p, conflict[p])
                               /\ o = TmpObject(p, conflict)
BY DEF Objects, MainObject, TmpObject, Holding

\* The conflict found is a shard the status has the main child under.
LEMMA ConflictIs ==
    ASSUME NEW conflict, Moving(conflict), NEW p \in Placed
    PROVE  /\ conflict[p] # NoShard =>
                 /\ conflict[p] \in BookedUnder(Main(p.num))
                 /\ p.shard \notin BookedUnder(Main(p.num))
                 /\ OfIndex(conflict[p], p.num)
           /\ conflict[p] = NoShard =>
                 \/ BookedUnder(Main(p.num)) = {}
                 \/ p.shard \in BookedUnder(Main(p.num))
<1> DEFINE booked == BookedUnder(Main(p.num))
<1>1. conflict[p] \in IF booked = {} \/ p.shard \in booked THEN {NoShard}
                                                           ELSE booked
  BY DEF Moving, MoveInv, Synced, Conflicts, ConflictsOf, BookedUnder
<1>2. \A s \in booked : OfIndex(s, p.num) /\ s # NoShard
  <2> SUFFICES ASSUME NEW e \in obj.status, e[2] = Main(p.num)
               PROVE  OfIndex(e[1], p.num) /\ e[1] # NoShard
    BY DEF BookedUnder
  <2>1. p.num \in ShardIndex
    BY PlacedSharded DEF Moving, MoveInv
  <2>2. PICK i \in ShardIndex : e[2] \in {Main(i), TmpOf(i)} /\ OfIndex(e[1], i)
    BY DEF Moving, MoveInv, Indexed
  <2>3. i = p.num
    BY <2>1, <2>2, NamesDiffer
  <2> QED
    BY <2>2, <2>3 DEF OfIndex, NoShard
<1> HIDE DEF booked
<1> QED
  BY <1>1, <1>2 DEF booked

\* The tmp child a main child is held by is where it holds it.
LEMMA HeldBy ==
    ASSUME NEW conflict, Moving(conflict), NEW p \in Placed,
           ~MissingTmp(p, conflict[p])
    PROVE  LET tmp == children[TmpOf(p.num)]
           IN  \/ MainClass(p, conflict[p]) = p.shard
               \/ /\ HoldsOldShard(p) /\ tmp.live
                  /\ MainClass(p, conflict[p]) = tmp.class
                  /\ OfIndex(tmp.class, p.num)
<1>1. p.num \in ShardIndex
  BY PlacedSharded DEF Moving, MoveInv
<1> QED
  BY <1>1
  DEF MainClass, OldShard, HoldsOldShard, Moving, MoveInv, Synced, Indexed

\* A main child is applied only after its tmp child, if that is missing.
LEMMA ReachedAfterTmp ==
    ASSUME NEW conflict, Moving(conflict), NEW o \in Differ(Objects(conflict))
    PROVE  /\ children[o.name].live
           /\ \E p \in Placed : /\ o = MainObject(p, conflict)
                                /\ ~MissingTmp(p, conflict[p])
<1> DEFINE objects == Objects(conflict)
<1>1. /\ o \in objects /\ childView = children
      /\ \A m \in Missing(objects) : o.rank < m.rank
  BY DEF Differ, Reached, Moving, MoveInv, Synced
<1>2. \A p \in Placed : p.num \in Int
  BY PlacedSharded DEF Moving, MoveInv, ShardIndex
<1>3. ASSUME NEW p \in Placed, MissingTmp(p, conflict[p])
      PROVE  TmpObject(p, conflict) \in Missing(objects)
  BY <1>3, ObjectIs DEF Missing, MissingTmp, TmpObject
<1>4. ASSUME NEW p \in Placed, MissingTmp(p, conflict[p]),
             o = TmpObject(p, conflict) \/ o = MainObject(p, conflict)
      PROVE  FALSE
  <2>1. o.rank < TmpObject(p, conflict).rank
    BY <1>1, <1>3, <1>4
  <2> QED
    BY <1>2, <1>4, <2>1 DEF TmpObject, MainObject
<1>5. children[o.name].live
  <2>1. o.rank \in Int
    BY <1>1, ObjectsTyped DEF Applied, Moving, MoveInv
  <2>2. o \notin Missing(objects)
    BY <1>1, <2>1
  <2> QED
    BY <1>1, <2>2 DEF Missing
<1> QED
  BY <1>1, <1>4, <1>5, ObjectIs

\* What a pass books for its updates are main children.
LEMMA WrittenIs ==
    ASSUME NEW conflict, Moving(conflict),
           NEW e \in Written(Objects(conflict))
    PROVE  \E p \in Placed : /\ e = <<p.shard, Main(p.num)>>
                             /\ ~MissingTmp(p, conflict[p])
<1>1. PICK o \in Differ(Objects(conflict)) : e = <<o.shard, o.name>>
  BY DEF Written
<1>2. PICK p \in Placed : /\ o = MainObject(p, conflict)
                          /\ ~MissingTmp(p, conflict[p])
  BY ReachedAfterTmp
<1> QED
  BY <1>1, <1>2, PlacedSharded DEF MainObject, Moving, MoveInv

\* Updates are of main children.
LEMMA UpdateIs ==
    ASSUME NEW conflict, Moving(conflict), NEW n \in Name
    PROVE  LET cs == Updated(Differ(Objects(conflict)))
           IN  \/ cs[n] = children[n]
               \/ \E p \in Placed :
                     /\ n = Main(p.num) /\ ~MissingTmp(p, conflict[p])
                     /\ children[n].live /\ cs[n] = Holding(p, conflict)
<1> DEFINE differ == Differ(Objects(conflict))
<1>1. CASE \E o \in differ : o.name = n
  <2>1. PICK o \in differ : o.name = n /\ Updated(differ)[n] = o.child
    BY <1>1 DEF Updated
  <2>2. PICK p \in Placed : /\ o = MainObject(p, conflict)
                            /\ ~MissingTmp(p, conflict[p])
    BY <2>1, ReachedAfterTmp
  <2>3. n = Main(p.num) /\ o.child = Holding(p, conflict)
    BY <2>1, <2>2, PlacedSharded DEF MainObject, Moving, MoveInv
  <2> QED
    BY <2>1, <2>2, <2>3, ReachedAfterTmp
<1>2. CASE ~\E o \in differ : o.name = n
  BY <1>2 DEF Updated
<1> QED
  BY <1>1, <1>2

\* No update is of a tmp child.
LEMMA TmpNotUpdated ==
    ASSUME NEW conflict, Moving(conflict), NEW i \in ShardIndex
    PROVE  Updated(Differ(Objects(conflict)))[TmpOf(i)] = children[TmpOf(i)]
<1>1. \A p \in Placed : p.num \in ShardIndex
  BY PlacedSharded DEF Moving, MoveInv
<1> QED
  BY <1>1, UpdateIs, NamesDiffer, NamesTyped

\* When nothing is missing, each main child is as it was rendered.
LEMMA AllRendered ==
    ASSUME NEW conflict, Moving(conflict), AllExist(Objects(conflict)),
           NEW p \in Placed
    PROVE  /\ ~MissingTmp(p, conflict[p])
           /\ Updated(Differ(Objects(conflict)))[Main(p.num)]
                 = Holding(p, conflict)
<1> DEFINE objects == Objects(conflict)
           o == MainObject(p, conflict)
<1>1. Missing(objects) = {} /\ childView = children
  BY DEF AllExist, Moving, MoveInv, Synced
<1>2. ~MissingTmp(p, conflict[p])
  <2>1. MissingTmp(p, conflict[p]) => TmpObject(p, conflict) \in Missing(objects)
    BY ObjectIs DEF Missing, MissingTmp, TmpObject
  <2> QED
    BY <1>1, <2>1
<1>3. o \in Reached(objects) /\ o.name = Main(p.num) /\ Main(p.num) \in Name
      /\ o.child = Holding(p, conflict)
  BY <1>1, ObjectIs, PlacedSharded, NamesTyped
  DEF Reached, MainObject, Moving, MoveInv
<1> HIDE DEF o
<1>4. CASE children[Main(p.num)] = o.child
  <2>1. ASSUME NEW q \in Placed, Main(p.num) = Main(q.num)
        PROVE  q = p
    BY <2>1, PlacedSharded, NamesDiffer DEF Moving, MoveInv
  <2> QED
    BY <1>2, <1>3, <1>4, <2>1, UpdateIs
<1>5. CASE children[Main(p.num)] # o.child
  <2>1. o \in Differ(objects)
    BY <1>1, <1>3, <1>5 DEF Differ
  <2>2. PICK x \in Differ(objects) :
           /\ x.name = Main(p.num)
           /\ Updated(Differ(objects))[Main(p.num)] = x.child
    BY <1>3, <2>1 DEF Updated
  <2>3. PICK q \in Placed : x = MainObject(q, conflict)
    BY ReachedAfterTmp
  <2>4. q = p
    BY <2>2, <2>3, PlacedSharded, NamesDiffer DEF MainObject, Moving, MoveInv
  <2> QED
    BY <1>2, <1>3, <2>2, <2>3, <2>4 DEF o
<1> QED
  BY <1>2, <1>4, <1>5

\* What the pass comes to.
LEMMA PassIs ==
    ASSUME MoveInv, Undisturbed, ReconcileApply
    PROVE  /\ Follows /\ Synced' /\ SameRequest
           /\ \E conflict :
                 /\ Moving(conflict)
                 /\ \/ CreatesAndBooks(Objects(conflict))
                    \/ DrainsAndBooks(Objects(conflict), StatusList(conflict))
<1>1. Applies /\ maxShards[view.class] # Unknown
  BY DEF ReconcileApply, Applies
<1>2. PICK conflict \in [Placed -> ShardName \cup {NoShard}] :
         /\ \A p \in Placed : conflict[p] \in Conflicts(p)
         /\ ApplyRendered(Objects(conflict), StatusList(conflict))
  BY DEF ReconcileApply
<1>3. failures' = failures
  <2>1. failures \in Int /\ failures >= 0 /\ MaxFailures = 0
    BY DEF MoveInv, Inv, TypeOK, Undisturbed
  <2> QED
    BY <1>2, <2>1 DEF ApplyRendered, Outage
<1>4. \A o \in Objects(conflict) : Applied(o)
  BY <1>1, ObjectsTyped DEF MoveInv
<1>5. /\ SameRequest /\ Follows
      /\ \/ CreatesAndBooks(Objects(conflict))
         \/ DrainsAndBooks(Objects(conflict), StatusList(conflict))
  BY <1>1, <1>2, <1>3, <1>4, ApplyBooks DEF MoveInv
<1>6. Moving(conflict) /\ Synced'
  BY <1>1, <1>2, <1>5 DEF Moving, Follows, Undisturbed
<1> QED
  BY <1>5, <1>6

\* An object stays where it is placed as long as nobody asks for another place.
SamePlace == obj'.class = obj.class /\ obj'.all = obj.all /\ UNCHANGED maxShards

\* The places follow from the request and the configuration.
LEMMA PlacedStays ==
    Synced /\ Synced' /\ SamePlace => Placed' = Placed
<1> SUFFICES ASSUME Synced, Synced', SamePlace PROVE Placed' = Placed
  OBVIOUS
<1>1. view'.class = view.class /\ view'.all = view.all /\ maxShards' = maxShards
  BY DEF Synced, SamePlace
<1> QED
  BY <1>1 DEF Placed

\* The first missing object is a tmp child, or a main child that waits for none.
LEMMA FirstIs ==
    ASSUME NEW conflict, Moving(conflict),
           NEW first \in Missing(Objects(conflict)),
           \A m \in Missing(Objects(conflict)) : first.rank <= m.rank
    PROVE  /\ ~children[first.name].live
           /\ \E p \in Placed :
                 /\ first.shard = p.shard
                 /\ \/ /\ first.name = Main(p.num)
                       /\ first.child = Holding(p, conflict)
                       /\ ~MissingTmp(p, conflict[p])
                    \/ /\ first.name = TmpOf(p.num)
                       /\ first.child = TmpObject(p, conflict).child
                       /\ MissingTmp(p, conflict[p])
<1>1. first \in Objects(conflict) /\ ~children[first.name].live
  BY DEF Missing, Moving, MoveInv, Synced
<1>2. CASE \E p \in Placed : first = MainObject(p, conflict)
  <2>1. PICK p \in Placed : first = MainObject(p, conflict)
    BY <1>2
  <2>2. first.name = Main(p.num)
    BY <2>1, PlacedSharded DEF MainObject, Moving, MoveInv
  <2>3. ASSUME MissingTmp(p, conflict[p]) PROVE FALSE
    <3>1. TmpObject(p, conflict) \in Missing(Objects(conflict))
      BY <2>3, ObjectIs DEF Missing, MissingTmp, TmpObject
    <3>2. first.rank <= TmpObject(p, conflict).rank /\ p.num \in Int
      BY <3>1, PlacedSharded DEF Moving, MoveInv, ShardIndex
    <3> QED
      BY <2>1, <3>2 DEF MainObject, TmpObject
  <2> QED
    BY <1>1, <2>1, <2>2, <2>3 DEF MainObject
<1>3. CASE \E p \in Placed : /\ MissingTmp(p, conflict[p])
                             /\ first = TmpObject(p, conflict)
  BY <1>1, <1>3 DEF TmpObject
<1> QED
  BY <1>1, <1>2, <1>3, ObjectIs

\* A pass that creates a child leaves the main children that are elsewhere
\* backed.
LEMMA CreatesCovered ==
    ASSUME NEW conflict, Moving(conflict), obj.phase = "live",
           CreatesAndBooks(Objects(conflict)), NEW p \in Placed,
           children'[Main(p.num)].live, children'[Main(p.num)].class # p.shard
    PROVE  Backed(p.num)'
<1> DEFINE n == Main(p.num)
           t == TmpOf(p.num)
           cs == Updated(Differ(Objects(conflict)))
<1>1. PICK first \in Missing(Objects(conflict)) :
         /\ \A m \in Missing(Objects(conflict)) : first.rank <= m.rank
         /\ children' = [cs EXCEPT ![first.name] = first.child]
         /\ obj'.status = obj.status \cup Written(Objects(conflict))
                             \cup {<<first.shard, first.name>>}
  BY DEF CreatesAndBooks
<1>2. ~children[first.name].live
  BY <1>1, FirstIs
<1>3. PICK q \in Placed :
         /\ first.shard = q.shard
         /\ \/ /\ first.name = Main(q.num)
               /\ first.child = Holding(q, conflict)
               /\ ~MissingTmp(q, conflict[q])
            \/ /\ first.name = TmpOf(q.num)
               /\ first.child = TmpObject(q, conflict).child
               /\ MissingTmp(q, conflict[q])
  BY <1>1, FirstIs
<1>4. /\ p.num \in ShardIndex /\ q.num \in ShardIndex
      /\ n \in Name /\ t \in Name /\ n # t
      /\ p.num = q.num => p = q
      /\ view = obj /\ maxShards[obj.class] # Unknown
  BY PlacedSharded, NamesTyped, NamesDiffer DEF Moving, MoveInv, Synced
<1>5. cs[t] = children[t] /\ DOMAIN cs = Name
  BY <1>4, TmpNotUpdated DEF Updated
<1>6. children[t].live => children'[t] = children[t]
  BY <1>1, <1>2, <1>4, <1>5
<1>7. CASE children'[n] = Holding(p, conflict) /\ ~MissingTmp(p, conflict[p])
  <2>1. children'[n].class = MainClass(p, conflict[p])
    BY <1>7 DEF Holding, Rendered
  <2>2. children[t].live /\ children'[n].class = children[t].class
    BY <1>7, <2>1, HeldBy
  <2> QED
    BY <1>6, <2>2 DEF Backed
<1>8. CASE /\ first.name # n /\ children'[n] = children[n]
  <2>1. children[n].live /\ children[n].class # p.shard
    BY <1>8
  <2>2. Backed(p.num)
    BY <1>4, <2>1 DEF Moving, MoveInv, Covered
  <2>3. CASE children[t].live
    BY <1>6, <1>8, <2>2, <2>3 DEF Backed
  <2>4. CASE ~children[t].live
    <3>1. BookedUnder(n) = {children[n].class}
      BY <2>2, <2>4 DEF Backed
    <3>2. conflict[p] = children[n].class /\ conflict[p] # NoShard
      BY <2>1, <3>1, ConflictIs
    <3>3. MissingTmp(p, conflict[p])
      BY <2>4, <3>2 DEF MissingTmp, Moving, MoveInv, Synced
    <3>4. CASE first.name = t
      <4>1. q = p /\ first.child = TmpObject(p, conflict).child
        BY <1>3, <1>4, <3>4, NamesDiffer
      <4>2. children'[t] = first.child
        BY <1>1, <1>4, <1>5, <3>4
      <4>3. children'[t].live /\ children'[t].class = conflict[p]
        BY <4>1, <4>2 DEF TmpObject, Rendered
      <4> QED
        BY <1>8, <3>2, <4>3 DEF Backed
    <3>5. CASE first.name # t
      <4>1. ~children'[t].live
        BY <1>1, <1>4, <1>5, <2>4, <3>5
      <4>2. \A e \in obj'.status : e[2] = n => e \in obj.status
        <5> SUFFICES ASSUME NEW e \in obj'.status, e[2] = n
                     PROVE  e \in obj.status
          OBVIOUS
        <5>1. e # <<first.shard, first.name>>
          BY <1>8
        <5>2. ASSUME e \in Written(Objects(conflict)) PROVE FALSE
          <6>1. PICK r \in Placed : /\ e = <<r.shard, Main(r.num)>>
                                    /\ ~MissingTmp(r, conflict[r])
            BY <5>2, WrittenIs
          <6>2. r = p
            BY <6>1, PlacedSharded, NamesDiffer DEF Moving, MoveInv
          <6> QED
            BY <3>3, <6>1, <6>2
        <5> QED
          BY <1>1, <5>1, <5>2
      <4>3. obj.status \subseteq obj'.status
        BY <1>1
      <4>4. BookedUnder(n)' = BookedUnder(n)
        BY <4>2, <4>3 DEF BookedUnder
      <4> QED
        BY <1>8, <3>1, <4>1, <4>4 DEF Backed
    <3> QED
      BY <3>4, <3>5
  <2> QED
    BY <2>3, <2>4
<1>9. \/ first.name = n /\ children'[n] = first.child
      \/ first.name # n /\ children'[n] = cs[n]
  BY <1>1, <1>4, <1>5
<1>10. CASE first.name = n /\ children'[n] = first.child
  BY <1>3, <1>4, <1>7, <1>10, NamesDiffer
<1>11. CASE first.name # n /\ children'[n] = cs[n]
  <2>1. CASE cs[n] = children[n]
    BY <1>8, <1>11, <2>1
  <2>2. CASE \E r \in Placed : /\ n = Main(r.num) /\ ~MissingTmp(r, conflict[r])
                               /\ cs[n] = Holding(r, conflict)
    BY <1>7, <1>11, <2>2, PlacedSharded, NamesDiffer DEF Moving, MoveInv
  <2> QED
    BY <1>4, <2>1, <2>2, UpdateIs
<1> QED
  BY <1>9, <1>10, <1>11

\* What the drain does to a child that is not deleted.
LEMMA TimedStays ==
    \A n : \A c \in Child :
       /\ Timed(n, c).live = c.live /\ Timed(n, c).class = c.class
       /\ Timed(n, c).old = c.old
BY DEF Timed, Clocked, Unregistered, Child

\* A pass that creates nothing has every main child where it was rendered, and
\* keeps the tmp children that hold one.
LEMMA DrainsLeave ==
    ASSUME NEW conflict, Moving(conflict),
           DrainsAndBooks(Objects(conflict), StatusList(conflict)),
           NEW p \in Placed
    PROVE  /\ ~MissingTmp(p, conflict[p])
           /\ children'[Main(p.num)] = Holding(p, conflict)
           /\ HoldsOldShard(p) =>
                 /\ children'[TmpOf(p.num)].live
                 /\ children'[TmpOf(p.num)].class = children[TmpOf(p.num)].class
<1> DEFINE n == Main(p.num)
           t == TmpOf(p.num)
           cs == Updated(Differ(Objects(conflict)))
           listed == StatusList(conflict)
<1>1. ~MissingTmp(p, conflict[p]) /\ cs[n] = Holding(p, conflict)
  BY AllRendered DEF DrainsAndBooks
<1>2. p.num \in ShardIndex /\ n \in Name /\ t \in Name /\ MainName(p) = n
  BY PlacedSharded, NamesTyped DEF Moving, MoveInv
<1>3. cs[t] = children[t] /\ DOMAIN cs = Name
  BY <1>2, TmpNotUpdated DEF Updated
<1>4. Stays(n, listed)
  BY <1>2, NamesDiffer DEF Stays, StatusList
<1>5. ASSUME HoldsOldShard(p)
      PROVE  children[t].live /\ ~HasTwin(t, cs, listed) /\ ~DeleteNow(cs[t])
  <2>1. childView[t] = children[t] /\ children[t] \in Child
        /\ TerminationPeriod \in Nat
    BY <1>2, PeriodsAssumption
    DEF PeriodsAssumption, Moving, MoveInv, Synced, Inv, TypeOK
  <2>2. children[t].live /\ ~Elapsed(children[t], 2 * TerminationPeriod)
    BY <1>5, <2>1 DEF HoldsOldShard
  <2>3. ~Elapsed(children[t], 0)
    BY <2>1, <2>2 DEF Elapsed, Child
  <2> QED
    BY <1>2, <1>3, <2>2, <2>3, NamesDiffer DEF DeleteNow, HasTwin
<1> HIDE DEF n, t, cs, listed
<1>6. CASE children' = cs
  BY <1>1, <1>3, <1>5, <1>6 DEF n, t
<1>7. CASE DrainsOne(listed, cs)
  <2>1. PICK m \in Name :
           /\ ~Stays(m, listed)
           /\ \/ /\ HasTwin(m, cs, listed) \/ DeleteNow(cs[m])
                 /\ children' = [cs EXCEPT ![m] = NoChild]
              \/ children' = [cs EXCEPT ![m] = Timed(m, cs[m])]
    BY <1>7 DEF DrainsOne
  <2>2. children'[n] = cs[n]
    BY <1>2, <1>3, <1>4, <2>1
  <2>3. ASSUME HoldsOldShard(p)
        PROVE  children'[t].live /\ children'[t].class = children[t].class
    <3>1. children'[t] = children[t] \/ children'[t] = Timed(t, children[t])
      BY <1>2, <1>3, <1>5, <2>1, <2>3
    <3>2. children[t] \in Child
      BY <1>2 DEF Moving, MoveInv, Inv, TypeOK
    <3> QED
      BY <1>5, <2>3, <3>1, <3>2, TimedStays
  <2> QED
    BY <1>1, <2>2, <2>3 DEF n, t
<1> QED
  BY <1>6, <1>7 DEF DrainsAndBooks, cs, listed

\* What a pass that has everything leaves elsewhere is backed.
LEMMA DrainsCovered ==
    ASSUME NEW conflict, Moving(conflict),
           DrainsAndBooks(Objects(conflict), StatusList(conflict)),
           NEW p \in Placed, children'[Main(p.num)].class # p.shard
    PROVE  Backed(p.num)'
<1>1. /\ ~MissingTmp(p, conflict[p])
      /\ children'[Main(p.num)] = Holding(p, conflict)
  BY DrainsLeave
<1>2. children'[Main(p.num)].class = MainClass(p, conflict[p])
  BY <1>1 DEF Holding, Rendered
<1>3. /\ HoldsOldShard(p)
      /\ MainClass(p, conflict[p]) = children[TmpOf(p.num)].class
  BY <1>1, <1>2, HeldBy
<1> QED
  BY <1>2, <1>3, DrainsLeave DEF Backed

\* What a pass may leave of one child: as it was, the main child as rendered,
\* the tmp child as rendered, or one that is drained.
LEMMA PassLeaves ==
    ASSUME NEW conflict, Moving(conflict), NEW n \in Name,
           \/ CreatesAndBooks(Objects(conflict))
           \/ DrainsAndBooks(Objects(conflict), StatusList(conflict)),
           children'[n].live
    PROVE  \/ /\ children[n].live
              /\ children'[n].class = children[n].class
              /\ children'[n].old = children[n].old
           \/ \E p \in Placed :
                 /\ n = Main(p.num) /\ ~MissingTmp(p, conflict[p])
                 /\ children'[n] = Holding(p, conflict)
           \/ \E p \in Placed :
                 /\ n = TmpOf(p.num) /\ MissingTmp(p, conflict[p])
                 /\ ~children[n].live
                 /\ children'[n] = TmpObject(p, conflict).child
<1> DEFINE cs == Updated(Differ(Objects(conflict)))
           listed == StatusList(conflict)
<1>1. \/ cs[n] = children[n]
      \/ \E p \in Placed :
            /\ n = Main(p.num) /\ ~MissingTmp(p, conflict[p])
            /\ children[n].live /\ cs[n] = Holding(p, conflict)
  BY UpdateIs
<1>2. DOMAIN cs = Name
  BY DEF Updated
<1>3. children[n] \in Child
  BY DEF Moving, MoveInv, Inv, TypeOK
<1>4. CASE children'[n] = cs[n]
  BY <1>1, <1>4
<1>5. CASE CreatesAndBooks(Objects(conflict))
  <2>1. PICK first \in Missing(Objects(conflict)) :
           /\ \A m \in Missing(Objects(conflict)) : first.rank <= m.rank
           /\ children' = [cs EXCEPT ![first.name] = first.child]
    BY <1>5 DEF CreatesAndBooks
  <2>2. CASE n # first.name
    BY <1>2, <1>4, <2>1, <2>2
  <2>3. CASE n = first.name
    <3>1. children'[n] = first.child
      BY <1>2, <2>1, <2>3
    <3> QED
      BY <2>1, <2>3, <3>1, FirstIs
  <2> QED
    BY <2>2, <2>3
<1>6. CASE DrainsOne(listed, cs) /\ AllExist(Objects(conflict))
  <2>1. PICK m \in Name :
           /\ ~Stays(m, listed)
           /\ \/ children' = [cs EXCEPT ![m] = NoChild]
              \/ children' = [cs EXCEPT ![m] = Timed(m, cs[m])]
    BY <1>6 DEF DrainsOne
  <2>2. CASE n # m
    BY <1>2, <1>4, <2>1, <2>2
  <2>3. CASE n = m
    <3>1. children'[n] = NoChild \/ children'[n] = Timed(n, cs[n])
      BY <1>2, <2>1, <2>3
    <3>2. children'[n] = Timed(n, cs[n])
      BY <3>1 DEF NoChild
    <3>3. \A p \in Placed : n # Main(p.num)
      <4> SUFFICES ASSUME NEW p \in Placed, n = Main(p.num) PROVE FALSE
        OBVIOUS
      <4>1. Stays(n, listed)
        BY PlacedSharded, NamesDiffer DEF Stays, StatusList, Moving, MoveInv
      <4> QED
        BY <2>1, <2>3, <4>1
    <3> QED
      BY <1>1, <1>3, <3>2, <3>3, TimedStays
  <2> QED
    BY <2>2, <2>3
<1> QED
  BY <1>4, <1>5, <1>6 DEF DrainsAndBooks

\* A tmp child is there after a pass, where it was, unless its deadline was over.
LEMMA TmpStays ==
    ASSUME NEW conflict, Moving(conflict), NEW i \in ShardIndex,
           \/ CreatesAndBooks(Objects(conflict))
           \/ DrainsAndBooks(Objects(conflict), StatusList(conflict)),
           children[TmpOf(i)].live
    PROVE  \/ /\ children'[TmpOf(i)].live
              /\ children'[TmpOf(i)].class = children[TmpOf(i)].class
           \/ DeleteNow(children[TmpOf(i)])
<1> DEFINE t == TmpOf(i)
           cs == Updated(Differ(Objects(conflict)))
           listed == StatusList(conflict)
<1>1. t \in Name /\ children[t] \in Child /\ IsTempChild(t)
  BY NamesTyped, NamesDiffer DEF Moving, MoveInv, Inv, TypeOK
<1>2. cs[t] = children[t] /\ DOMAIN cs = Name
  BY TmpNotUpdated DEF Updated
<1> HIDE DEF t, cs, listed
<1>3. CASE children'[t] = cs[t]
  BY <1>2, <1>3 DEF t
<1>4. CASE CreatesAndBooks(Objects(conflict))
  <2>1. PICK first \in Missing(Objects(conflict)) :
           /\ \A m \in Missing(Objects(conflict)) : first.rank <= m.rank
           /\ children' = [cs EXCEPT ![first.name] = first.child]
    BY <1>4 DEF CreatesAndBooks, cs
  <2>2. ~children[first.name].live
    BY <2>1, FirstIs
  <2>3. children'[t] = cs[t]
    BY <1>1, <1>2, <2>1, <2>2 DEF t
  <2> QED
    BY <1>3, <2>3
<1>5. CASE DrainsOne(listed, cs)
  <2>1. PICK m \in Name :
           \/ /\ HasTwin(m, cs, listed) \/ DeleteNow(cs[m])
              /\ children' = [cs EXCEPT ![m] = NoChild]
           \/ children' = [cs EXCEPT ![m] = Timed(m, cs[m])]
    BY <1>5 DEF DrainsOne
  <2>2. CASE m # t
    BY <1>1, <1>2, <1>3, <2>1, <2>2
  <2>3. CASE m = t /\ children'[t] = Timed(t, children[t])
    BY <1>1, <2>3, TimedStays DEF t
  <2>4. CASE m = t /\ (HasTwin(t, cs, listed) \/ DeleteNow(cs[t]))
    BY <1>1, <1>2, <2>4 DEF HasTwin, t
  <2> QED
    BY <1>1, <1>2, <2>1, <2>2, <2>3, <2>4
<1> QED
  BY <1>1, <1>3, <1>4, <1>5 DEF DrainsAndBooks, cs, listed

\* A pass moves a main child only with its tmp child on the shard it leaves.
LEMMA PassMoves ==
    ASSUME MoveInv, Undisturbed, ReconcileApply, NEW n \in LiveChildren,
           children'[n].live, children'[n].class # children[n].class,
           NEW p \in Placed, children'[n].class = p.shard
    PROVE  \E m \in Name \ {n} : Covers(m, n)
<1>1. PICK conflict :
         /\ Moving(conflict)
         /\ \/ CreatesAndBooks(Objects(conflict))
            \/ DrainsAndBooks(Objects(conflict), StatusList(conflict))
  BY PassIs
<1>2. n \in Name /\ children[n].live
  BY DEF LiveChildren
<1>3. PICK q \in Placed : /\ n = Main(q.num) /\ ~MissingTmp(q, conflict[q])
                          /\ children'[n] = Holding(q, conflict)
  BY <1>1, <1>2, PassLeaves
<1>4. /\ children'[n].class = MainClass(q, conflict[q])
      /\ q.num \in ShardIndex /\ TmpOf(q.num) \in Name /\ n # TmpOf(q.num)
      /\ p.shard = <<view.class, p.num>>
  BY <1>1, <1>3, PlacedSharded, NamesDiffer, NamesTyped
  DEF Holding, Rendered, Moving, MoveInv
<1>5. q = p
  <2>1. OfIndex(p.shard, q.num)
    BY <1>1, <1>3, <1>4, HeldBy, PlacedSharded DEF Moving, MoveInv
  <2>2. q.num = p.num
    BY <1>4, <2>1 DEF OfIndex
  <2> QED
    BY <1>1, <2>2, PlacedSharded DEF Moving, MoveInv
<1>6. children[n].class # p.shard
  OBVIOUS
<1>7. Backed(p.num)
  <2>1. obj.phase = "live" /\ maxShards[obj.class] # Unknown
    BY <1>1 DEF ReconcileApply, Applies, Proceeds, MoveInv, Synced
  <2> QED
    BY <1>2, <1>3, <1>4, <1>5, <1>6, <2>1 DEF MoveInv, Covered
<1>8. CASE children[TmpOf(p.num)].live
  <2> DEFINE t == TmpOf(p.num)
  <2>1. t \in Name \ {n} /\ children[t].class = children[n].class
    BY <1>3, <1>4, <1>5, <1>7, <1>8 DEF Backed
  <2>2. \/ children'[t].live /\ children'[t].class = children[t].class
        \/ DeleteNow(children[t])
    BY <1>1, <1>4, <1>5, <1>8, TmpStays
  <2> QED
    BY <1>8, <2>1, <2>2 DEF Covers
<1>9. CASE ~children[TmpOf(p.num)].live
  <2>1. BookedUnder(n) = {children[n].class}
    BY <1>3, <1>5, <1>7, <1>9 DEF Backed
  <2>2. conflict[p] # NoShard
    BY <1>1, <1>3, <1>5, <1>6, <2>1, ConflictIs
  <2>3. MissingTmp(p, conflict[p])
    BY <1>9, <2>2 DEF MissingTmp, MoveInv, Synced
  <2> QED
    BY <1>3, <1>5, <2>3
<1> QED
  BY <1>8, <1>9

\* A pass keeps each number to itself.
LEMMA PassIndexed ==
    ASSUME MoveInv, Undisturbed, ReconcileApply
    PROVE  Indexed'
<1>1. PICK conflict :
         /\ Moving(conflict)
         /\ \/ CreatesAndBooks(Objects(conflict))
            \/ DrainsAndBooks(Objects(conflict), StatusList(conflict))
  BY PassIs
<1>2. \A p \in Placed :
         /\ p.num \in ShardIndex /\ OfIndex(p.shard, p.num)
         /\ MainName(p) = Main(p.num)
  BY <1>1, PlacedSharded DEF Moving, MoveInv
<1>3. ASSUME NEW n \in Name, children'[n].live
      PROVE  /\ n # Bare
             /\ \A i \in ShardIndex :
                   /\ n = Main(i) => OfIndex(children'[n].class, i)
                   /\ n = TmpOf(i) => /\ OfIndex(children'[n].class, i)
                                      /\ children'[n].old = children'[n].class
  <2>1. CASE /\ children[n].live
             /\ children'[n].class = children[n].class
             /\ children'[n].old = children[n].old
    BY <2>1 DEF MoveInv, Indexed
  <2>2. CASE \E p \in Placed :
                /\ n = Main(p.num) /\ ~MissingTmp(p, conflict[p])
                /\ children'[n] = Holding(p, conflict)
    <3>1. PICK p \in Placed :
                /\ n = Main(p.num) /\ ~MissingTmp(p, conflict[p])
                /\ children'[n] = Holding(p, conflict)
      BY <2>2
    <3>2. OfIndex(children'[n].class, p.num)
      BY <1>1, <1>2, <3>1, HeldBy DEF Holding, Rendered
    <3> QED
      BY <1>2, <3>1, <3>2, NamesDiffer
  <2>3. CASE \E p \in Placed :
                /\ n = TmpOf(p.num) /\ MissingTmp(p, conflict[p])
                /\ children'[n] = TmpObject(p, conflict).child
    <3>1. PICK p \in Placed :
                /\ n = TmpOf(p.num) /\ MissingTmp(p, conflict[p])
                /\ children'[n] = TmpObject(p, conflict).child
      BY <2>3
    <3>2. /\ children'[n].class = conflict[p] /\ children'[n].old = conflict[p]
          /\ OfIndex(conflict[p], p.num)
      BY <1>1, <3>1, ConflictIs DEF TmpObject, Rendered, MissingTmp
    <3> QED
      BY <1>2, <3>1, <3>2, NamesDiffer
  <2> QED
    BY <1>1, <1>3, <2>1, <2>2, <2>3, PassLeaves
<1>4. ASSUME NEW e \in obj'.status
      PROVE  \E i \in ShardIndex :
                e[2] \in {Main(i), TmpOf(i)} /\ OfIndex(e[1], i)
  <2>1. CASE e \in obj.status
    BY <2>1 DEF MoveInv, Indexed
  <2>2. CASE \E p \in Placed : \/ e = <<p.shard, Main(p.num)>>
                               \/ e = <<p.shard, TmpOf(p.num)>>
    BY <1>2, <2>2
  <2>3. CASE e \in Written(Objects(conflict))
    BY <1>1, <2>2, <2>3, WrittenIs
  <2>4. CASE e \in StatusList(conflict)
    BY <1>2, <2>2, <2>4 DEF StatusList
  <2>5. CASE CreatesAndBooks(Objects(conflict))
    <3>1. PICK first \in Missing(Objects(conflict)) :
             /\ \A m \in Missing(Objects(conflict)) : first.rank <= m.rank
             /\ obj'.status = obj.status \cup Written(Objects(conflict))
                                 \cup {<<first.shard, first.name>>}
      BY <2>5 DEF CreatesAndBooks
    <3>2. CASE e = <<first.shard, first.name>>
      BY <1>1, <2>2, <3>1, <3>2, FirstIs
    <3> QED
      BY <2>1, <2>3, <3>1, <3>2
  <2>6. CASE DrainsAndBooks(Objects(conflict), StatusList(conflict))
    BY <2>1, <2>3, <2>4, <2>6 DEF DrainsAndBooks
  <2> QED
    BY <1>1, <2>5, <2>6
<1> QED
  BY <1>3, <1>4, NamesTyped DEF Indexed

\* After a pass every main child on its way is backed.
LEMMA PassCovered ==
    ASSUME MoveInv, Undisturbed, ReconcileApply
    PROVE  Covered'
<1>1. PICK conflict :
         /\ Moving(conflict)
         /\ \/ CreatesAndBooks(Objects(conflict))
            \/ DrainsAndBooks(Objects(conflict), StatusList(conflict))
  BY PassIs
<1>2. Placed' = Placed
  BY PassIs, PlacedStays DEF MoveInv, Follows, SamePlace, SameRequest
<1>3. obj.phase = "live"
  BY DEF ReconcileApply, Applies, Proceeds, MoveInv, Synced
<1>4. ASSUME NEW p \in Placed, NEW i \in ShardIndex, i = p.num,
             children'[Main(i)].live, children'[Main(i)].class # p.shard
      PROVE  Backed(i)'
  <2>1. Backed(p.num)'
    BY <1>1, <1>3, <1>4, CreatesCovered, DrainsCovered
  <2> QED
    BY <1>4, <2>1 DEF Backed, BookedUnder
<1> QED
  BY <1>2, <1>4 DEF Covered

\* Before the first edit there is nothing to move.
LEMMA PassUnedited ==
    ASSUME MoveInv, Undisturbed, ReconcileApply, Unedited
    PROVE  Unedited'
<1> SUFFICES ASSUME edits' = 0 PROVE Unedited'
  BY DEF Unedited
<1>1. PICK conflict :
         /\ Moving(conflict)
         /\ \/ CreatesAndBooks(Objects(conflict))
            \/ DrainsAndBooks(Objects(conflict), StatusList(conflict))
  BY PassIs
<1>2. /\ Placed' = Placed /\ edits = 0 /\ SameRequest /\ view = obj
      /\ maxShards' = maxShards /\ maxShards[obj.class] # Unknown
  BY <1>1, PassIs, PlacedStays
  DEF MoveInv, Follows, Synced, Moving, SamePlace, SameRequest
<1>3. /\ obj.phase = "live"
      /\ \A n \in Name : children[n].live => <<children[n].class, n>> \in obj.status
      /\ \A e \in obj.status : \E p \in Placed : e = <<p.shard, Main(p.num)>>
  BY <1>2 DEF Unedited, LiveChildren
<1>4. ASSUME NEW p \in Placed
      PROVE  /\ ~children[TmpOf(p.num)].live /\ conflict[p] = NoShard
             /\ ~MissingTmp(p, conflict[p]) /\ OldShard(p, conflict[p]) = NoShard
             /\ Holding(p, conflict).class = p.shard
             /\ p.num \in ShardIndex /\ MainName(p) = Main(p.num)
  <2>1. /\ p.num \in ShardIndex /\ MainName(p) = Main(p.num)
        /\ TmpOf(p.num) \in Name
        /\ \A q \in Placed : Main(p.num) = Main(q.num) => p = q
        /\ \A q \in Placed : TmpOf(p.num) # Main(q.num)
    BY <1>1, PlacedSharded, NamesDiffer, NamesTyped DEF Moving, MoveInv
  <2>2. ~children[TmpOf(p.num)].live
    BY <1>3, <2>1
  <2>3. BookedUnder(Main(p.num)) \subseteq {p.shard}
    BY <1>3, <2>1 DEF BookedUnder
  <2>4. conflict[p] = NoShard
    BY <1>1, <2>3, ConflictIs
  <2>5. ~HoldsOldShard(p)
    BY <2>2 DEF HoldsOldShard, MoveInv, Synced
  <2> QED
    BY <2>1, <2>2, <2>4, <2>5
    DEF MissingTmp, OldShard, MainClass, Holding, Rendered
<1> DEFINE mains == {<<p.shard, Main(p.num)>> : p \in Placed}
<1>5. StatusList(conflict) = mains /\ Written(Objects(conflict)) \subseteq mains
  <2>1. StatusList(conflict) = mains
    BY <1>4 DEF StatusList
  <2> QED
    BY <1>1, <2>1, WrittenIs
<1>6. obj.status \subseteq mains
  BY <1>3
<1>7. obj.status \subseteq obj'.status /\ obj'.status \subseteq mains
  <2>1. CASE CreatesAndBooks(Objects(conflict))
    <3>1. PICK first \in Missing(Objects(conflict)) :
             /\ \A m \in Missing(Objects(conflict)) : first.rank <= m.rank
             /\ obj'.status = obj.status \cup Written(Objects(conflict))
                                 \cup {<<first.shard, first.name>>}
      BY <2>1 DEF CreatesAndBooks
    <3>2. <<first.shard, first.name>> \in mains
      BY <1>1, <1>4, <3>1, FirstIs
    <3> QED
      BY <1>5, <1>6, <3>1, <3>2
  <2>2. CASE DrainsAndBooks(Objects(conflict), StatusList(conflict))
    BY <1>5, <1>6, <2>2 DEF DrainsAndBooks
  <2> QED
    BY <1>1, <2>1, <2>2
<1>8. ASSUME NEW n \in Name, children'[n].live
      PROVE  <<children'[n].class, n>> \in obj'.status
  <2>1. CASE children[n].live /\ children'[n].class = children[n].class
    BY <1>3, <1>7, <2>1
  <2>2. CASE \E p \in Placed :
                n = Main(p.num) /\ children'[n] = Holding(p, conflict)
    <3>1. PICK p \in Placed :
             n = Main(p.num) /\ children'[n] = Holding(p, conflict)
      BY <2>2
    <3>2. CASE children[n].live
      <4>1. <<children[n].class, n>> \in obj.status
        BY <1>3, <3>2
      <4>2. <<children[n].class, n>> = <<p.shard, n>>
        BY <1>1, <1>3, <3>1, <4>1, PlacedSharded, NamesDiffer DEF Moving, MoveInv
      <4> QED
        BY <1>4, <1>7, <3>1, <4>1, <4>2
    <3>3. CASE ~children[n].live
      <4>1. CASE CreatesAndBooks(Objects(conflict))
        <5>1. PICK first \in Missing(Objects(conflict)) :
                 /\ \A m \in Missing(Objects(conflict)) : first.rank <= m.rank
                 /\ children' = [Updated(Differ(Objects(conflict)))
                                    EXCEPT ![first.name] = first.child]
                 /\ <<first.shard, first.name>> \in obj'.status
          BY <4>1 DEF CreatesAndBooks
        <5>2. n = first.name
          BY <1>1, <1>8, <3>3, <5>1, UpdateIs DEF Updated
        <5>3. PICK q \in Placed :
                 /\ first.shard = q.shard
                 /\ first.name = Main(q.num) \/ MissingTmp(q, conflict[q])
          BY <1>1, <5>1, FirstIs
        <5>4. q = p
          <6>1. Main(p.num) = Main(q.num)
            BY <1>4, <3>1, <5>2, <5>3
          <6>2. p.num = q.num
            BY <1>4, <6>1, NamesDiffer
          <6> QED
            BY <1>1, <6>2, PlacedSharded DEF Moving, MoveInv
        <5> QED
          BY <1>4, <3>1, <5>1, <5>2, <5>3, <5>4
      <4>2. CASE DrainsAndBooks(Objects(conflict), StatusList(conflict))
        <5>1. Updated(Differ(Objects(conflict)))[n] = Holding(p, conflict)
          BY <1>1, <3>1, <4>2, AllRendered DEF DrainsAndBooks
        <5>2. ~Updated(Differ(Objects(conflict)))[n].live
          BY <1>1, <3>3, UpdateIs
        <5> QED
          BY <5>1, <5>2 DEF Holding, Rendered
      <4> QED
        BY <1>1, <4>1, <4>2
    <3> QED
      BY <3>2, <3>3
  <2> QED
    <3>1. ~\E p \in Placed : MissingTmp(p, conflict[p])
      BY <1>4
    <3> QED
      BY <1>1, <1>8, <2>1, <2>2, <3>1, PassLeaves
<1> QED
  BY <1>2, <1>3, <1>7, <1>8 DEF Unedited, LiveChildren, SameRequest

----------------------------------------------------------------------------
(* The other steps neither move nor create a child.                         *)

\* A child that stays is the one it was.
Unmoved ==
    \A n \in Name : children'[n].live =>
       /\ children[n].live /\ children'[n].class = children[n].class
       /\ children'[n].old = children[n].old

\* The object is as it was, and so are the children.
Quiet ==
    /\ SameRequest /\ obj'.status = obj.status /\ UNCHANGED <<maxShards, edits>>
    /\ \A n \in Name : children[n].live => children'[n].live

\* The object goes, or has gone and comes back without children.
Leaving ==
    /\ obj'.status \subseteq obj.status
    /\ edits' = 0 => edits = 0 /\ obj.phase # "live"
    /\ obj'.phase = "live" =>
          SamePlace /\ \A n \in Name : ~children'[n].live

LEMMA FinalizedStays ==
    \A c \in Child :
       /\ Finalized(c).live => /\ Finalized(c).class = c.class
                               /\ Finalized(c).old = c.old /\ c.live
BY DEF Finalized, Unregistered, Clocked, NoChild, Child

LEMMA ReturnSynced ==
    \A o, cs, requeue, delay :
       Synced /\ ~CachesLag /\ Return(o, cs, requeue, delay)
       => /\ Synced' /\ obj' = o /\ children' = cs
          /\ UNCHANGED <<maxShards, edits>>
BY DEF Return, Write, Synced

\* A pass that ends before it applies moves nothing.
LEMMA BeforeApplyStays ==
    ASSUME MoveInv, Undisturbed, ReconcileBeforeApply
    PROVE  Synced' /\ Unmoved /\ (Quiet \/ Leaving)
<1>1. ~CachesLag /\ Synced /\ view = obj /\ obj \in Object
  BY DEF Undisturbed, MoveInv, Synced, Inv, TypeOK
<1>2. /\ WithFinalizer.status = obj.status
      /\ WithFinalizer.class = obj.class /\ WithFinalizer.all = obj.all
      /\ WithFinalizer.template = obj.template
      /\ WithFinalizer.phase = obj.phase
  BY <1>1 DEF WithFinalizer, Object
<1>3. CASE \/ ReconcileNotFound \/ ReconcileFinalizerRefused
           \/ ReconcileUnknownClass \/ ReconcileRateLimited
  <2>1. PICK o, requeue, delay :
           Return(o, children, requeue, delay) /\ o \in {obj, WithFinalizer}
    BY <1>3 DEF ReconcileNotFound, ReconcileFinalizerRefused,
                ReconcileUnknownClass, ReconcileRateLimited
  <2>2. /\ Synced' /\ obj' = o /\ children' = children
        /\ UNCHANGED <<maxShards, edits>>
    BY <1>1, <2>1, ReturnSynced
  <2> QED
    BY <1>2, <2>1, <2>2 DEF Quiet, Unmoved, SameRequest
<1>4. CASE \/ FinalizerUnknownKind \/ FinalizerWaits
           \/ FinalizerCompletes \/ FinalizerFails
  <2>1. obj.phase = "deleting"
    BY <1>1, <1>4 DEF FinalizerUnknownKind, FinalizerWaits, FinalizerCompletes,
                      FinalizerFails
  <2> DEFINE Ended(cs) ==
                \A n \in Name : \/ cs[n] = children[n]
                               \/ cs[n] = Finalized(children[n])
                               \/ cs[n] = NoChild
             After(done) == [n \in Name |-> IF n \in done
                                           THEN Finalized(children[n])
                                           ELSE children[n]]
  <2>2. PICK o, cs, requeue, delay :
           /\ Return(o, cs, requeue, delay) /\ o \in {obj, Gone(obj)}
           /\ Ended(cs)
    <3>1. CASE FinalizerUnknownKind
      BY <3>1 DEF FinalizerUnknownKind
    <3>2. CASE FinalizerWaits
      <4> DEFINE cs == [n \in Name |-> IF children[n].live
                                      THEN Finalized(children[n])
                                      ELSE children[n]]
      <4>1. Return(obj, cs, FALSE, DeletionTerminationPeriod)
        BY <3>2 DEF FinalizerWaits
      <4>2. Ended(cs)
        OBVIOUS
      <4> HIDE DEF cs, Ended
      <4> QED
        BY <4>1, <4>2
    <3>3. CASE FinalizerCompletes
      <4> DEFINE cs == [n \in Name |-> NoChild]
      <4>1. PICK o \in {obj, Gone(obj)} :
               Return(o, cs, ~Fresh /\ obj.phase # "gone", NoTimer)
        BY <3>3 DEF FinalizerCompletes
      <4>2. Ended(cs)
        OBVIOUS
      <4> HIDE DEF cs, Ended
      <4> QED
        BY <4>1, <4>2
    <3>4. CASE FinalizerFails
      <4>1. PICK done \in SUBSET LiveChildren :
               Return(obj, After(done), TRUE, NoTimer)
        BY <3>4 DEF FinalizerFails
      <4>2. Ended(After(done))
        OBVIOUS
      <4> HIDE DEF After, Ended
      <4> QED
        BY <4>1, <4>2
    <3> QED
      BY <1>4, <3>1, <3>2, <3>3, <3>4
  <2>3. /\ Synced' /\ obj' = o /\ children' = cs
        /\ UNCHANGED <<maxShards, edits>>
    BY <1>1, <2>2, ReturnSynced
  <2>4. Unmoved
    <3>1. \A n \in Name : children[n] \in Child
      BY DEF MoveInv, Inv, TypeOK
    <3> QED
      BY <2>2, <2>3, <3>1, FinalizedStays DEF Unmoved, NoChild
  <2>5. obj'.status \subseteq obj.status /\ obj'.phase # "live"
    BY <2>1, <2>2, <2>3 DEF Gone
  <2> QED
    BY <2>1, <2>3, <2>4, <2>5 DEF Leaving
<1> QED
  BY <1>3, <1>4 DEF ReconcileBeforeApply

\* A write of a user is seen at once, and is not the first state any more.
LEMMA UserWriteSeen ==
    ASSUME ~CachesLag, Synced, edits \in Nat, NEW o, UserWrites(o)
    PROVE  /\ obj' = o /\ children' = children /\ maxShards' = maxShards
           /\ edits' # 0 /\ edits < MaxEdits /\ Synced'
<1>1. Write(o, children) /\ maxShards' = maxShards
  BY DEF UserWrites
<1>2. edits' = edits + 1 /\ edits < MaxEdits
  BY DEF UserWrites
<1>3. edits' # 0
  BY <1>2
<1>4. obj' = o /\ children' = children /\ view' = o /\ childView' = children
  BY <1>1 DEF Write
<1>5. ~objStale' /\ childLog' = <<>>
  BY <1>1 DEF Write, Synced
<1> QED
  BY <1>1, <1>2, <1>3, <1>4, <1>5 DEF Synced

\* Nor do the steps outside the operator, save edits.
LEMMA OthersStay ==
    ASSUME MoveInv, Undisturbed,
           \/ UserDeletes \/ UserRecreates \/ SyncObject \/ SyncChildren
           \/ TimerFires \/ Tick \/ Restart \/ UNCHANGED vars
    PROVE  Synced' /\ Unmoved /\ (Quiet \/ Leaving)
<1>1. ~CachesLag /\ Synced /\ obj \in Object /\ edits \in Nat
  BY FlagsAssumption
  DEF FlagsAssumption, Undisturbed, MoveInv, Synced, Inv, TypeOK
<1>2. CASE UserDeletes
  <2>1. PICK o : UserWrites(o) /\ o \in {[obj EXCEPT !.phase = "deleting"], Gone(obj)}
    BY <1>2 DEF UserDeletes
  <2>2. o.phase # "live" /\ o.status \subseteq obj.status
    BY <1>1, <2>1 DEF Gone, Object
  <2>3. /\ obj' = o /\ children' = children /\ edits' # 0 /\ Synced'
    BY <1>1, <2>1, UserWriteSeen
  <2> QED
    BY <2>2, <2>3 DEF Unmoved, Leaving
<1>3. CASE UserRecreates
  <2>1. UserWrites([obj EXCEPT !.phase = "live"]) /\ obj.phase = "gone"
    BY <1>3 DEF UserRecreates
  <2>2. \A n \in Name : ~children[n].live
    BY <2>1 DEF MoveInv, Inv, Guarded, NoOrphans, LiveChildren
  <2> DEFINE o == [obj EXCEPT !.phase = "live"]
  <2>3. o.status = obj.status /\ o.class = obj.class /\ o.all = obj.all
    BY <1>1 DEF Object
  <2>4. /\ obj' = o /\ children' = children /\ edits' # 0 /\ Synced'
        /\ maxShards' = maxShards
    <3>1. UserWrites(o)
      BY <2>1
    <3> HIDE DEF o
    <3> QED
      BY <1>1, <3>1, UserWriteSeen
  <2> HIDE DEF o
  <2> QED
    BY <2>2, <2>3, <2>4 DEF Unmoved, Leaving, SamePlace
<1>4. CASE SyncObject \/ SyncChildren
  BY <1>1, <1>4 DEF SyncObject, SyncChildren, Synced
<1>5. CASE TimerFires \/ UNCHANGED vars
  BY <1>1, <1>5
  DEF TimerFires, vars, cluster, caches, operator, Synced, Unmoved, Quiet,
      SameRequest
<1>6. CASE Tick
  <2>1. /\ children' = [n \in Name |-> OneSecondLater(children[n])]
        /\ childView' = children' /\ childLog' = childLog
        /\ UNCHANGED <<obj, view, objStale, maxShards, edits>>
    <3>1. childView = children /\ childLog = <<>>
      BY <1>1 DEF Synced
    <3>2. [i \in DOMAIN childLog |-> AllLater(childLog[i])] = <<>>
      BY <3>1
    <3> QED
      BY <1>6, <3>1, <3>2 DEF Tick, operator, AllLater
  <2>2. \A n \in Name : /\ children'[n].live = children[n].live
                        /\ children'[n].class = children[n].class
                        /\ children'[n].old = children[n].old
    BY <2>1 DEF OneSecondLater, Clocked
  <2> QED
    BY <1>1, <2>1, <2>2 DEF Synced, Unmoved, Quiet, SameRequest
<1>7. CASE Restart
  <2>1. maxShards' = maxShards
    BY <1>7 DEF Restart, Undisturbed, MoveInv, Inv, TypeOK
  <2> QED
    BY <1>1, <1>7, <2>1
    DEF Restart, cluster, Synced, Unmoved, Quiet, SameRequest
<1> QED
  BY <1>2, <1>3, <1>4, <1>5, <1>6, <1>7

LEMMA UnmovedIndexed ==
    ASSUME Indexed, Unmoved, obj'.status \subseteq obj.status
    PROVE  Indexed'
<1>1. ~children'[Bare].live
  BY NamesTyped DEF Indexed, Unmoved
<1>2. \A i \in ShardIndex :
         /\ children'[Main(i)].live => OfIndex(children'[Main(i)].class, i)
         /\ children'[TmpOf(i)].live =>
               /\ OfIndex(children'[TmpOf(i)].class, i)
               /\ children'[TmpOf(i)].old = children'[TmpOf(i)].class
  BY NamesTyped DEF Indexed, Unmoved
<1> QED
  BY <1>1, <1>2 DEF Indexed

\* Where nothing moves the invariant stays.
LEMMA QuietStep ==
    ASSUME MoveInv, Undisturbed, Synced', Unmoved, Quiet \/ Leaving
    PROVE  /\ Indexed' /\ Covered'
           /\ Unedited => Unedited'
<1>1. Indexed'
  BY UnmovedIndexed DEF MoveInv, Quiet, Leaving
<1>2. CASE Quiet
  <2>1. /\ obj'.status = obj.status /\ SameRequest /\ maxShards' = maxShards
        /\ edits' = edits
    BY <1>2 DEF Quiet
  <2>2. Placed' = Placed
    BY <2>1, PlacedStays DEF MoveInv, SamePlace, SameRequest
  <2>3. \A n \in Name : /\ children'[n].live <=> children[n].live
                        /\ children[n].live =>
                              children'[n].class = children[n].class
    BY <1>2 DEF Quiet, Unmoved
  <2>4. Covered'
    <3> SUFFICES ASSUME obj.phase = "live", maxShards[obj.class] # Unknown,
                        NEW p \in Placed, NEW i \in ShardIndex, i = p.num,
                        children'[Main(i)].live,
                        children'[Main(i)].class # p.shard
                 PROVE  Backed(i)'
      BY <2>1, <2>2 DEF Covered, SameRequest
    <3>1. Main(i) \in Name /\ TmpOf(i) \in Name
      BY NamesTyped
    <3>2. Backed(i)
      BY <2>3, <3>1 DEF MoveInv, Covered
    <3> QED
      BY <2>1, <2>3, <3>1, <3>2 DEF Backed, BookedUnder
  <2>5. Unedited => Unedited'
    BY <2>1, <2>2, <2>3 DEF Unedited, LiveChildren, SameRequest
  <2> QED
    BY <1>1, <2>4, <2>5
<1>3. CASE Leaving
  <2>1. Covered'
    BY <1>3, NamesTyped DEF Leaving, Covered
  <2>2. Unedited => Unedited'
    BY <1>3 DEF Leaving, Unedited
  <2> QED
    BY <1>1, <2>1, <2>2
<1> QED
  BY <1>2, <1>3

\* An edit changes what is asked for and nothing else.
LEMMA EditsStay ==
    ASSUME MoveInv, Undisturbed, UserEdits
    PROVE  /\ Synced' /\ Unmoved /\ edits' # 0 /\ edits < MaxEdits
           /\ obj'.status = obj.status /\ children' = children
<1>1. PICK c, t, a : UserWrites(Asking(obj, c, t, a))
  BY DEF UserEdits
<1>2. Asking(obj, c, t, a).status = obj.status
  BY DEF Asking
<1> DEFINE o == Asking(obj, c, t, a)
<1>3. ~CachesLag /\ Synced /\ edits \in Nat
  BY FlagsAssumption
  DEF FlagsAssumption, Undisturbed, MoveInv, Synced, Inv, TypeOK
<1> HIDE DEF o
<1>4. /\ obj' = o /\ children' = children /\ edits' # 0 /\ edits < MaxEdits
      /\ Synced'
  <2>1. UserWrites(o)
    BY <1>1 DEF o
  <2> QED
    BY <1>3, <2>1, UserWriteSeen
<1> QED
  BY <1>2, <1>4 DEF Unmoved, o

\* An edit in a calm state leaves every main child backed, wherever it is
\* to go.
LEMMA CalmEdit ==
    ASSUME MoveInv, Undisturbed, UserEdits, Calm
    PROVE  Indexed' /\ Covered'
<1>1. Indexed'
  BY EditsStay, UnmovedIndexed DEF MoveInv
<1>2. ASSUME NEW i \in ShardIndex, children'[Main(i)].live
      PROVE  Backed(i)'
  <2>1. obj'.status = obj.status /\ children' = children
    BY EditsStay
  <2> QED
    BY <1>2, <2>1 DEF Calm, Backed, BookedUnder
<1>3. Covered'
  BY <1>2 DEF Covered
<1> QED
  BY <1>1, <1>3

\* What MoveCovered says of a step.
Move ==
    \A n \in LiveChildren :
       /\ children'[n].live
       /\ children'[n].class # children[n].class
       /\ \E p \in Placed : children'[n].class = p.shard
       => \E m \in Name \ {n} : Covers(m, n)

\* A step keeps the invariant and moves main children as MoveCovered says.
LEMMA NextMoves ==
    ASSUME MoveInv, Undisturbed, [Next]_vars, UserEdits => Calm
    PROVE  MoveInv' /\ Move
<1>1. Inv'
  BY NextStep, TickStep, InvStutters DEF Step, MoveInv
<1>2. CASE ReconcileApply
  <2>1. MoveInv'
    BY <1>1, <1>2, PassIs, PassIndexed, PassCovered DEF MoveInv
  <2> QED
    BY <1>2, <2>1, PassMoves DEF Move
<1>3. ASSUME Unmoved PROVE Move
  BY <1>3 DEF Unmoved, LiveChildren, Move
<1>4. CASE UserEdits
  BY <1>1, <1>3, <1>4, EditsStay, CalmEdit DEF MoveInv
<1>5. CASE \/ ReconcileBeforeApply \/ UserDeletes \/ UserRecreates
           \/ SyncObject \/ SyncChildren \/ TimerFires \/ Tick \/ Restart
           \/ UNCHANGED vars
  <2>1. Synced' /\ Unmoved /\ (Quiet \/ Leaving)
    BY <1>5, BeforeApplyStays, OthersStay
  <2>2. Indexed' /\ Covered'
    BY <2>1, QuietStep
  <2> QED
    BY <1>1, <1>3, <2>1, <2>2 DEF MoveInv
<1> QED
  BY <1>2, <1>4, <1>5 DEF Next, Reconcile, User

\* Before the first edit no move is under way.
LEMMA UneditedCalm ==
    MoveInv /\ Undisturbed /\ Unedited /\ edits = 0 => Calm
<1> SUFFICES ASSUME MoveInv, Undisturbed, Unedited, edits = 0,
                    NEW i \in ShardIndex
             PROVE  /\ ~children[TmpOf(i)].live
                    /\ children[Main(i)].live =>
                          BookedUnder(Main(i)) = {children[Main(i)].class}
  BY DEF Calm
<1>1. /\ Main(i) \in Name /\ TmpOf(i) \in Name
      /\ \A n \in Name : children[n].live => <<children[n].class, n>> \in obj.status
      /\ \A e \in obj.status : /\ maxShards[view.class] # Unknown
                               /\ \E p \in Placed : e = <<p.shard, Main(p.num)>>
  BY NamesTyped DEF Unedited, LiveChildren, MoveInv, Synced
<1>2. ASSUME NEW e \in obj.status
      PROVE  /\ e[2] # TmpOf(i)
             /\ \A f \in obj.status : e[2] = f[2] => e = f
  <2>1. PICK p \in Placed : e = <<p.shard, Main(p.num)>>
    BY <1>1
  <2>2. p.num \in ShardIndex
    BY <1>1, PlacedSharded DEF MoveInv
  <2>3. ASSUME NEW f \in obj.status, e[2] = f[2]
        PROVE  e = f
    <3>1. PICK q \in Placed : f = <<q.shard, Main(q.num)>>
      BY <1>1
    <3>2. q.num \in ShardIndex
      BY <1>1, PlacedSharded DEF MoveInv
    <3>3. p = q
      BY <1>1, <2>1, <2>2, <2>3, <3>1, <3>2, PlacedSharded, NamesDiffer DEF MoveInv
    <3> QED
      BY <2>1, <3>1, <3>3
  <2> QED
    BY <2>1, <2>2, <2>3, NamesDiffer
<1>3. ~children[TmpOf(i)].live
  BY <1>1, <1>2
<1>4. ASSUME children[Main(i)].live
      PROVE  BookedUnder(Main(i)) = {children[Main(i)].class}
  <2> DEFINE e == <<children[Main(i)].class, Main(i)>>
  <2>1. e \in obj.status
    BY <1>1, <1>4
  <2>2. \A f \in obj.status : f[2] = Main(i) => f[1] = children[Main(i)].class
    BY <1>2, <2>1
  <2> QED
    BY <2>1, <2>2 DEF BookedUnder
<1> QED
  BY <1>3, <1>4

\* What is true before the first edit stays so until then.
LEMMA NextUnedited ==
    ASSUME MoveInv, Undisturbed, [Next]_vars, Unedited
    PROVE  Unedited'
<1>1. CASE ReconcileApply
  BY <1>1, PassUnedited
<1>2. CASE UserEdits
  BY <1>2, EditsStay DEF Unedited
<1>3. CASE \/ ReconcileBeforeApply \/ UserDeletes \/ UserRecreates
           \/ SyncObject \/ SyncChildren \/ TimerFires \/ Tick \/ Restart
           \/ UNCHANGED vars
  BY <1>3, BeforeApplyStays, OthersStay, QuietStep
<1> QED
  BY <1>1, <1>2, <1>3 DEF Next, Reconcile, User

LEMMA InitMoves == Init => MoveInv /\ Unedited
<1> SUFFICES ASSUME Init PROVE MoveInv /\ Unedited
  OBVIOUS
<1>1. \A n \in Name : ~children[n].live
  BY DEF Init, NoChild
<1>2. obj.status = {} /\ obj.phase = "live" /\ Synced
  BY DEF Init, Synced
<1> QED
  BY <1>1, <1>2, InitInv, NamesTyped
  DEF MoveInv, Indexed, Covered, Unedited, LiveChildren

\* MovesCovered: when an object is edited only after its last move is over, a
\* pass takes a main child to the shard the object asks for only with the tmp
\* child on the shard it leaves, and leaves that one there unless its deadline
\* is over.  So for any classes with shards, numbers of shards, hash, periods,
\* restarts, deletions and number of edits, while the caches follow at once and
\* no call fails.
THEOREM MovesCovered ==
    Undisturbed => (Spec /\ [][UserEdits => Calm]_vars => MoveCovered)
<1> SUFFICES ASSUME Undisturbed
             PROVE  Spec /\ [][UserEdits => Calm]_vars => MoveCovered
  OBVIOUS
<1>1. ASSUME MoveInv, [Next]_vars, [UserEdits => Calm]_vars
      PROVE  MoveInv' /\ [Move]_vars
  <2>1. UserEdits => edits' # edits
    BY <1>1 DEF UserEdits, UserWrites, MoveInv, Inv, TypeOK
  <2>2. UserEdits => Calm
    BY <1>1, <2>1 DEF vars
  <2> QED
    BY <1>1, <2>2, NextMoves
<1>2. Init => MoveInv
  BY InitMoves
<1>3. Spec /\ [][UserEdits => Calm]_vars => [][Move]_vars
  BY <1>1, <1>2, PTL DEF Spec
<1> QED
  BY <1>3 DEF Move, MoveCovered

\* FirstMoveCovered: so it is when the object is edited once, at any time.
THEOREM FirstMoveCovered ==
    Undisturbed /\ MaxEdits <= 1 => (Spec => MoveCovered)
<1> SUFFICES ASSUME Undisturbed, MaxEdits <= 1 PROVE Spec => MoveCovered
  OBVIOUS
<1>1. ASSUME MoveInv, Unedited, [Next]_vars
      PROVE  [UserEdits => Calm]_vars /\ MoveInv' /\ Unedited'
  <2>1. UserEdits => Calm
    <3> SUFFICES ASSUME UserEdits PROVE Calm
      OBVIOUS
    <3>1. edits < MaxEdits /\ edits \in Nat /\ MaxEdits \in Nat
      BY <1>1, EditsStay, FlagsAssumption DEF FlagsAssumption, MoveInv, Inv, TypeOK
    <3>2. edits = 0
      BY <3>1
    <3> QED
      BY <1>1, <3>2, UneditedCalm
  <2> QED
    BY <1>1, <2>1, NextMoves, NextUnedited
<1>2. Spec => [][UserEdits => Calm]_vars
  BY <1>1, InitMoves, PTL DEF Spec
<1> QED
  BY <1>2, MovesCovered, PTL

\* A settled object is calm.
LEMMA SettledCalm ==
    ASSUME MoveInv, Undisturbed, Settled, maxShards[view.class] # Unknown
    PROVE  Calm
<1>1. CASE LiveChildren = {}
  BY <1>1, NamesTyped DEF LiveChildren, Calm
<1>2. CASE /\ LiveChildren = {MainName(p) : p \in Placed}
           /\ obj.status = {<<p.shard, MainName(p)>> : p \in Placed}
           /\ \A p \in Placed :
                 children[MainName(p)] =
                    Rendered(p.shard, NoHost, <<obj.template, obj.all>>, NoShard)
  <2> SUFFICES ASSUME NEW i \in ShardIndex
               PROVE  /\ ~children[TmpOf(i)].live
                      /\ children[Main(i)].live =>
                            BookedUnder(Main(i)) = {children[Main(i)].class}
    BY DEF Calm
  <2>1. \A p \in Placed : p.num \in ShardIndex /\ MainName(p) = Main(p.num)
    BY PlacedSharded DEF MoveInv
  <2>2. ~children[TmpOf(i)].live
    BY <1>2, <2>1, NamesDiffer, NamesTyped DEF LiveChildren
  <2>3. ASSUME children[Main(i)].live
        PROVE  BookedUnder(Main(i)) = {children[Main(i)].class}
    <3>1. PICK p \in Placed : Main(i) = MainName(p)
      BY <1>2, <2>3, NamesTyped DEF LiveChildren
    <3>2. children[Main(i)].class = p.shard
      <4>1. \A c, k : Rendered(c, NoHost, k, NoShard).class = c
        BY DEF Rendered
      <4>2. children[Main(i)] =
               Rendered(p.shard, NoHost, <<obj.template, obj.all>>, NoShard)
        BY <1>2, <3>1
      <4> QED
        BY <4>1, <4>2
    <3>3. <<p.shard, Main(i)>> \in obj.status
      BY <1>2, <3>1
    <3>4. ASSUME NEW f \in obj.status, f[2] = Main(i)
          PROVE  f[1] = p.shard
      <4>1. PICK q \in Placed : f = <<q.shard, MainName(q)>>
        BY <1>2
      <4>2. p.num = q.num
        BY <2>1, <3>1, <3>4, <4>1, NamesDiffer
      <4>3. p = q
        BY <4>2, PlacedSharded DEF MoveInv
      <4> QED
        BY <4>1, <4>3
    <3> QED
      BY <3>2, <3>3, <3>4 DEF BookedUnder
  <2> QED
    BY <2>2, <2>3
<1> QED
  BY <1>1, <1>2 DEF Settled

\* SettledMovesCovered: and when it is edited only in the state Settled, where
\* all classes are known.
THEOREM SettledMovesCovered ==
    Undisturbed /\ (\A f \in Configs : \A c \in Class : f[c] # Unknown)
    => (Spec /\ [][UserEdits => Settled]_vars => MoveCovered)
<1> SUFFICES ASSUME Undisturbed,
                    \A f \in Configs : \A c \in Class : f[c] # Unknown
             PROVE  Spec /\ [][UserEdits => Settled]_vars => MoveCovered
  OBVIOUS
<1>1. ASSUME MoveInv, [Next]_vars, [UserEdits => Settled]_vars
      PROVE  [UserEdits => Calm]_vars /\ MoveInv'
  <2>1. UserEdits => edits' # edits
    BY <1>1 DEF UserEdits, UserWrites, MoveInv, Inv, TypeOK
  <2>2. UserEdits => Settled
    BY <1>1, <2>1 DEF vars
  <2>3. maxShards \in Configs /\ view.class \in Class
    BY <1>1 DEF MoveInv, Inv, TypeOK, Object
  <2>4. UserEdits => Calm
    BY <1>1, <2>2, <2>3, SettledCalm
  <2> QED
    BY <1>1, <2>4, NextMoves
<1>2. Spec /\ [][UserEdits => Settled]_vars => [][UserEdits => Calm]_vars
  BY <1>1, InitMoves, PTL DEF Spec
<1> QED
  BY <1>2, MovesCovered, PTL
=============================================================================
