-------------------------- MODULE ShardedReconciler --------------------------
(****************************************************************************)
(* What the two controllers of the operator share, for one sharded object:  *)
(* src/internal/controller/reconciler.go.  The module holds the cluster     *)
(* state, the caches and the work queue a pass of Reconcile runs between,   *)
(* and the parts of a pass that do not depend on the kind of the children:  *)
(* rate limiting, draining of unlisted children, the finalizer.             *)
(*                                                                          *)
(* A pass is one step: the controller has a single worker (main.go sets     *)
(* parallel to 1), so what interleaves is passes, writes of users, caches   *)
(* catching up, timers, API failures and restarts.  Time is counted in      *)
(* whole seconds, as the auto-delete-after annotation does (RFC3339), so    *)
(* "now is after the deadline" holds from the second of the deadline on.    *)
(****************************************************************************)
EXTENDS Integers, Sequences, FiniteSets

CONSTANTS
    Class,              \* ingress class names users ask for
    Template,           \* versions of spec.template
    AllShards,          \* values the annotation for all shards may have
    Host,               \* virtual hosts; children of an Ingress have none
    Name,               \* names of children, as suffixes of the object's name
    ShardLimit,         \* bound on the shards of a class
    Configs,            \* values MaxShards may have after a start
    Hash,               \* xxhash of the object's namespace
    NamedTmp,           \* does the object's own name end in "-tmp"?
    TerminationPeriod,
    DeletionTerminationPeriod,  \* FinalizerDeletionTerminationPeriod
    CreateDelays,       \* delays applyRateLimit may answer when creating
    DeleteDelays,       \* ... and when deleting; 0 is one that is over
    CachesLag,          \* may the informer caches lag behind the cluster?
    LagLimit,           \* ... and bound on the seconds a lag may last
    MaxEdits,           \* bound on the writes of users
    MaxRestarts,        \* bound on restarts of the operator
    MaxFailures         \* bound on passes that meet a failing API call

Unknown == -1           \* a class that is not in the configuration
NoDue == -1             \* no auto-delete-after annotation
NoTimer == -1
NoShard == <<>>
NoHost == <<>>
Tmp == -1               \* the suffix "-tmp" of a name
Bare == <<>>            \* the name of the object itself

ASSUME PeriodsAssumption ==
    /\ TerminationPeriod \in Nat \ {0}
    /\ DeletionTerminationPeriod \in Nat \ {0}
    /\ CreateDelays \subseteq Nat
    /\ DeleteDelays \subseteq Nat

ASSUME ConfigsAssumption ==
    /\ ShardLimit \in Nat \ {0}
    /\ Hash \in Nat
    /\ Configs \subseteq [Class -> Unknown..ShardLimit]

ASSUME SuffixAssumption == Name \subseteq Seq(Int)

ASSUME FlagsAssumption ==
    /\ NamedTmp \in BOOLEAN
    /\ AllShards \subseteq BOOLEAN
    /\ CachesLag \in BOOLEAN
    /\ {LagLimit, MaxEdits, MaxRestarts, MaxFailures} \subseteq Nat

VARIABLES
    obj,        \* the sharded object in the cluster
    view,       \* ... in the informer cache
    objStale,   \* was it written since the cache last followed?
    children,   \* the children in the cluster, by name
    childView,  \* ... in the informer cache
    childLog,   \* the states of children the cache has yet to go through
    lag,        \* seconds since both caches showed the cluster as it is
    lists,      \* which of the lists of the reconciler hold the key
    childKind,  \* is the kind of r.ChildObject known?
    maxShards,  \* r.MaxShards
    queued,     \* is the key in the work queue?
    timer,      \* seconds until a delayed requeue
    edits, restarts, failures

cluster == <<obj, children>>
caches == <<view, childView, objStale, childLog, lag>>
operator == <<lists, childKind, maxShards>>
vars == <<cluster, caches, operator, queued, timer, edits, restarts, failures>>

----------------------------------------------------------------------------

ShardIndex == 0 .. ShardLimit - 1

\* A shard is an ingress class name: "class" or "class-index".
ShardName == {<<c>> : c \in Class} \cup (Class \X ShardIndex)

\* What a child is rendered from, besides its ingress class.
Content == Template \X BOOLEAN
NoContent == <<>>

\* A drained child keeps serving for this long after it is unregistered.
Grace == IF 2 * TerminationPeriod <= DeletionTerminationPeriod
         THEN 2 * TerminationPeriod ELSE DeletionTerminationPeriod

\* Deadlines are kept as the seconds left; age is history: the seconds since
\* the child was marked, up to Grace.
Child == [live : BOOLEAN, class : ShardName \cup {NoShard},
          host : Host \cup {NoHost}, content : Content \cup {NoContent},
          due : Int, marked : BOOLEAN, age : 0..Grace,
          old : ShardName \cup {NoShard}]

NoChild == [live |-> FALSE, class |-> NoShard, host |-> NoHost,
            content |-> NoContent, due |-> NoDue, marked |-> FALSE, age |-> 0,
            old |-> NoShard]

\* A child as the templates render it: no deadline and no mark.
Rendered(class, host, content, old) ==
    [live |-> TRUE, class |-> class, host |-> host, content |-> content,
     due |-> NoDue, marked |-> FALSE, age |-> 0, old |-> old]

\* A child with its clock set.
Clocked(c, due, marked, age) ==
    [live |-> c.live, class |-> c.class, host |-> c.host,
     content |-> c.content, due |-> due, marked |-> marked, age |-> age,
     old |-> c.old]

\* The sharded object: what its user asked for, whether it is being deleted,
\* the finalizer of the operator, and status.createdObjects.
Object == [class : Class, template : Template, all : AllShards,
           phase : {"live", "deleting", "gone"}, fin : BOOLEAN,
           status : SUBSET (ShardName \X Name)]

Asking(o, class, template, all) ==
    [class |-> class, template |-> template, all |-> all, phase |-> o.phase,
     fin |-> o.fin, status |-> o.status]

\* What is left for the API server to forget once the finalizer is gone.
Gone(o) ==
    [class |-> o.class, template |-> o.template, all |-> o.all,
     phase |-> "gone", fin |-> FALSE, status |-> {}]

LiveChildren == {n \in Name : children[n].live}

\* Children written since the state of them the cache shows.
ChildStale ==
    {n \in Name : \E i \in DOMAIN childLog : childLog[i][n] # childView[n]}

----------------------------------------------------------------------------
(* The clock of a child that leaves.                                        *)

\* time.Now().After(deadline.Add(-left))
Elapsed(c, left) == c.due # NoDue /\ c.due <= left

\* HasSuffix(name, "tmp"): the tmp root, or an object named so itself.
IsTmpRoot(n) == IF n = Bare THEN NamedTmp ELSE n[Len(n)] = Tmp

\* isTempChild: the tmp root and the virtual hosts under it.
IsTempChild(n) == NamedTmp \/ \E i \in DOMAIN n : n[i] = Tmp

DelTime(n) == IF IsTmpRoot(n) THEN 3 * TerminationPeriod
                              ELSE 2 * TerminationPeriod

Unregistered(c, period) == Clocked(c, period, TRUE, 0)

\* Mutant of Timed: the deadline is not renewed with the unregister mark.
TimedOnce(n, c) ==
    CASE c.due = NoDue -> Clocked(c, DelTime(n), c.marked, c.age)
      [] c.due # NoDue /\ ~c.marked /\ Elapsed(c, TerminationPeriod) ->
            Unregistered(c, c.due)
      [] OTHER -> c

\* handleDeletionTiming: delete now, or what an Update leaves of the child.
DeleteNow(c) == c.marked /\ Elapsed(c, 0)

Timed(n, c) ==
    CASE c.due = NoDue -> Clocked(c, DelTime(n), c.marked, c.age)
      [] c.due # NoDue /\ ~c.marked /\ Elapsed(c, TerminationPeriod) ->
            Unregistered(c, DelTime(n))
      [] OTHER -> c

\* Mutant of Finalized: a deadline alone is enough, marked or not.
FinalizedUnmarked(c) ==
    CASE c.due = NoDue -> Unregistered(c, DeletionTerminationPeriod)
      [] c.due # NoDue /\ Elapsed(c, 0) -> NoChild
      [] OTHER -> c

\* handleFinalizer, for one child.
Finalized(c) ==
    IF c.due = NoDue \/ ~c.marked
    THEN Unregistered(c, DeletionTerminationPeriod)
    ELSE IF DeleteNow(c) THEN NoChild ELSE c

OneSecondLater(c) ==
    Clocked(c, IF c.due > 0 THEN c.due - 1 ELSE c.due, c.marked,
            IF c.marked /\ c.age < Grace THEN c.age + 1 ELSE c.age)

----------------------------------------------------------------------------
(* Writes, events and the work queue.                                       *)

\* The caches follow at once when they do not lag, and the watch event of a
\* write then puts the key into the queue.  A cache that lags goes through the
\* states in which the passes left the children, in order.
Write(o, cs) ==
    /\ obj' = o
    /\ children' = cs
    /\ view' = IF CachesLag THEN view ELSE o
    /\ childView' = IF CachesLag THEN childView ELSE cs
    /\ objStale' = (objStale \/ (CachesLag /\ o # obj))
    /\ childLog' = IF CachesLag /\ cs # children THEN Append(childLog, cs)
                                                ELSE childLog
    /\ UNCHANGED lag

Event(o, cs) == ~CachesLag /\ <<o, cs>> # cluster

\* AddAfter keeps the earlier of two delays of a key; a result with no delay
\* left and no Requeue is not requeued at all.
Sooner(delay) ==
    IF delay <= 0 THEN timer
    ELSE IF timer = NoTimer \/ delay < timer THEN delay ELSE timer

\* The end of a pass that leaves o and cs in the cluster and returns Requeue
\* (or an error, which requeues too) or a delay.
Return(o, cs, requeue, delay) ==
    /\ queued
    /\ Write(o, cs)
    /\ queued' = (requeue \/ Event(o, cs))
    /\ timer' = Sooner(delay)
    /\ UNCHANGED <<maxShards, edits, restarts>>

\* In a pass with an outage any API call may fail.
Outage(outage) ==
    /\ outage \in BOOLEAN
    /\ outage => failures < MaxFailures
    /\ failures' = IF outage THEN failures + 1 ELSE failures

Fresh == ~objStale

\* updateStatusWithRetry: the status is written; or the cached object stays
\* old over five conflicts and the write is dropped without an error; or it is
\* refused, when any of the entries may have been written before.
StatusWrite(o, new, issued, outage) ==
    IF ~issued THEN {[ok |-> TRUE, status |-> o.status]}
    ELSE {[ok |-> TRUE, status |-> s] :
             s \in IF Fresh THEN {new} ELSE {new, o.status}}
         \cup {[ok |-> FALSE, status |-> (o.status \cap new) \cup s] :
             s \in IF outage
                   THEN SUBSET ((o.status \cup new) \ (o.status \cap new))
                   ELSE {}}

----------------------------------------------------------------------------
(* The passes that end before children are generated.                       *)

\* Mutant of Listed: the key leaves its lists and enters none.
ListedNowhere(moved, from) == lists \ from

\* moveKeyBetweenMultipleLists
Listed(moved, from) == (lists \ from) \cup moved

\* handleNotFound
ReconcileNotFound ==
    /\ view.phase = "gone"
    /\ lists' = {}
    /\ Return(obj, children, FALSE, NoTimer)
    /\ UNCHANGED <<childKind, failures>>

\* The finalizer cannot be added: a conflict, or a failing call.
ReconcileFinalizerRefused ==
    /\ view.phase = "live" /\ ~view.fin
    /\ \E outage \in BOOLEAN : Outage(outage) /\ (outage \/ ~Fresh)
    /\ Return(obj, children, TRUE, NoTimer)
    /\ UNCHANGED <<lists, childKind>>

\* The pass goes on, with the finalizer added if it was missing.
Proceeds == view.phase = "live" /\ (view.fin \/ Fresh)

\* Mutant of WithFinalizer: it is added to the copy in memory only.
WithoutFinalizer == obj

WithFinalizer == IF view.fin THEN obj ELSE [obj EXCEPT !.fin = TRUE]

\* Mutant of Placed: shards are numbered from one.
PlacedFromOne ==
    LET max == maxShards[view.class]
    IN  CASE max = 0 -> {[num |-> 0, shard |-> <<view.class>>]}
          [] max > 0 /\ view.all ->
                {[num |-> i, shard |-> <<view.class, i + 1>>] : i \in 0 .. max - 1}
          [] max > 0 /\ ~view.all ->
                {[num |-> Hash % max, shard |-> <<view.class, (Hash % max) + 1>>]}

\* getShardInfo
Placed ==
    LET max == maxShards[view.class]
    IN  CASE max = 0 -> {[num |-> 0, shard |-> <<view.class>>]}
          [] max > 0 /\ view.all ->
                {[num |-> i, shard |-> <<view.class, i>>] : i \in 0 .. max - 1}
          [] max > 0 /\ ~view.all ->
                {[num |-> Hash % max, shard |-> <<view.class, Hash % max>>]}

ReconcileUnknownClass ==
    /\ Proceeds
    /\ maxShards[view.class] = Unknown
    /\ Return(WithFinalizer, children, FALSE, NoTimer)
    /\ UNCHANGED <<lists, childKind, failures>>

\* The shards of the status, and those of them the object has left.
StatusShards == {e[1] : e \in view.status}
LeftShards == StatusShards \ {p.shard : p \in Placed}

\* applyRateLimit charges the slot of a deletion, not of a creation.
ChargesDeletion ==
    LeftShards # {} /\ LeftShards # StatusShards /\ "managed" \in lists

\* applyRateLimit, with the delays of module ApplyPlan.
ReconcileRateLimited ==
    /\ Proceeds
    /\ maxShards[view.class] # Unknown
    /\ "waiting" \notin lists
    /\ \/ /\ LeftShards = {}
          /\ Return(WithFinalizer, children, TRUE, NoTimer)
       \/ /\ LeftShards # {}
          /\ \E delay \in IF ChargesDeletion THEN DeleteDelays ELSE CreateDelays :
                Return(WithFinalizer, children, FALSE, delay)
    /\ lists' = Listed({"waiting"}, {"ready", "error"})
    /\ UNCHANGED <<childKind, failures>>

----------------------------------------------------------------------------
(* handleFinalizer                                                          *)

\* Mutant of FinalizerUnknownKind: children that cannot be listed are taken
\* for none.
FinalizerOfNone ==
    /\ view.phase = "deleting"
    /\ ~childKind
    /\ Return(IF Fresh THEN Gone(obj) ELSE obj, children, ~Fresh, NoTimer)
    /\ UNCHANGED <<lists, childKind, failures>>

\* After a start the kind of the children is not known before a first child
\* has been read, and the children cannot be listed.
FinalizerUnknownKind ==
    /\ view.phase = "deleting"
    /\ ~childKind
    /\ Return(obj, children, TRUE, NoTimer)
    /\ UNCHANGED <<lists, childKind, failures>>

FinalizerWaits ==
    /\ view.phase = "deleting"
    /\ childKind
    /\ \E n \in LiveChildren : ~DeleteNow(children[n])
    /\ Return(obj,
              [n \in Name |-> IF children[n].live THEN Finalized(children[n])
                                                  ELSE children[n]],
              FALSE, DeletionTerminationPeriod)
    /\ UNCHANGED <<lists, childKind, failures>>

\* Every child is deleted and the finalizer goes, which ends the object; a
\* stale copy of the object is refused and the pass is repeated.
FinalizerCompletes ==
    /\ view.phase = "deleting"
    /\ childKind
    /\ \A n \in LiveChildren : DeleteNow(children[n])
    /\ Return(IF Fresh THEN Gone(obj) ELSE obj,
              [n \in Name |-> NoChild],
              ~Fresh /\ obj.phase # "gone", NoTimer)
    /\ UNCHANGED <<lists, childKind, failures>>

\* A call fails: the children before it are done, the finalizer stays.
FinalizerFails ==
    /\ view.phase = "deleting"
    /\ childKind
    /\ Outage(TRUE)
    /\ \E done \in SUBSET LiveChildren :
          Return(obj,
                 [n \in Name |-> IF n \in done THEN Finalized(children[n])
                                               ELSE children[n]],
                 TRUE, NoTimer)
    /\ UNCHANGED <<lists, childKind>>

----------------------------------------------------------------------------
(* deleteUnlistedObjects, entered with o, cs and ls as the updates before it *)
(* left them.  A pair <<shard, name>> of listed is a child that stays.       *)

Stays(n, listed) ==
    ~IsTmpRoot(n) /\ \E p \in Placed : <<p.shard, n>> \in listed

\* The call that lists the children fails, or a write after it; children that
\* stay and come before the failing one are booked.
DrainFails(o, cs, ls, listed, outage) ==
    /\ outage
    /\ \E before \in SUBSET {m \in Name : cs[m].live /\ Stays(m, listed)} :
          LET adds == {e \in listed : e[2] \in before} \ view.status
          IN  \E w \in StatusWrite(o, o.status \cup adds, adds # {}, outage) :
                 Return([o EXCEPT !.status = w.status], cs, FALSE, NoTimer)
    /\ lists' = ls

\* Mutant of HasTwin: the class the host is served on is not compared.
HasTwinAnywhere(n, cs, listed) ==
    /\ cs[n].host # NoHost /\ ~IsTempChild(n)
    /\ \E m \in Name :
          /\ cs[m].live /\ Stays(m, listed) /\ ~IsTempChild(m)
          /\ cs[m].host = cs[n].host

\* keptFqdns: a child that stays serves the host of n on the same class.
HasTwin(n, cs, listed) ==
    /\ cs[n].host # NoHost /\ ~IsTempChild(n)
    /\ \E m \in Name :
          /\ cs[m].live /\ Stays(m, listed) /\ ~IsTempChild(m)
          /\ cs[m].host = cs[n].host /\ cs[m].class = cs[n].class

\* The child n is deleted or moved along; adds are new entries of the status.
DrainChild(o, cs, ls, n, deleted, adds, outage) ==
    \E w \in StatusWrite(o, o.status \cup adds, adds # {}, outage) :
       /\ w.ok \/ \E e \in adds : e[2] = n
       /\ Return([o EXCEPT !.status = w.status],
                 [cs EXCEPT ![n] = IF deleted THEN NoChild
                                              ELSE Timed(n, cs[n])],
                 FALSE,
                 IF w.ok /\ ~deleted THEN TerminationPeriod ELSE NoTimer)
       /\ lists' = IF ~deleted /\ cs[n].due = NoDue
                   THEN (ls \ {"ready", "error"}) \cup {"waiting"}
                   ELSE ls

\* One child that does not stay is moved along, or deleted at once when it has
\* a twin, and the pass ends with it; children that stay and come before it in
\* the list are booked.
DrainOne(o, cs, ls, listed, outage) ==
    \E n \in {m \in Name : cs[m].live /\ ~Stays(m, listed)},
       before \in SUBSET {m \in Name : cs[m].live /\ Stays(m, listed)} :
       LET deleted == HasTwin(n, cs, listed) \/ DeleteNow(cs[n])
           inStatus == \E e \in view.status : e[2] = n
           booked == {e \in listed : \/ e[2] \in before
                                     \/ e[2] = n /\ ~deleted /\ ~inStatus}
       IN  DrainChild(o, cs, ls, n, deleted, booked \ view.status, outage)

\* Mutant of Forgotten: the status forgets nothing.
ForgottenNever(status, listed) == {{}}

\* Nothing is left to drain: the status forgets, under every shard, the names
\* of the entries that are not listed.  (The Get that should tell whether the
\* child exists asks for a kind without a group and always fails.)  The list
\* is cut while it is ranged over, so of three entries one may be skipped.
Forgotten(status, listed) ==
    {names \in SUBSET {e[2] : e \in status \ listed} :
       \A s \in ShardName :
          LET entries == {e \in status : e[1] = s}
              unlisted == {e[2] : e \in entries \ listed}
          IN  /\ unlisted # {} => unlisted \cap names # {}
              /\ Cardinality(entries) <= 2 => unlisted \subseteq names}

\* The status is written a last time and the object is ready.
DrainEnds(o, cs, ls, new, issued, outage) ==
    \E w \in StatusWrite(o, new, issued, outage) :
       /\ Return([o EXCEPT !.status = w.status], cs, FALSE, NoTimer)
       /\ lists' = IF w.ok THEN (ls \ {"waiting", "error"}) \cup {"ready"}
                           ELSE ls

DrainDone(o, cs, ls, listed, outage) ==
    LET kept == {n \in Name : cs[n].live}
        adds == {e \in listed : e[2] \in kept} \ view.status
        known == view.status \cup adds
    IN  /\ \A n \in kept : Stays(n, listed)
        /\ \E names \in Forgotten(known, listed) :
              DrainEnds(o, cs, ls,
                        {e \in o.status \cup adds : e[2] \notin names},
                        adds \cup (known \ listed) # {}, outage)

----------------------------------------------------------------------------
(* Users, caches, time and restarts.                                        *)

UserWrites(o) ==
    /\ edits < MaxEdits
    /\ edits' = edits + 1
    /\ Write(o, children)
    /\ queued' = (queued \/ Event(o, children))
    /\ UNCHANGED <<lists, childKind, maxShards, timer, restarts, failures>>

UserEdits ==
    /\ obj.phase = "live"
    /\ \E c \in Class, t \in Template, a \in AllShards :
          /\ <<c, t, a>> # <<obj.class, obj.template, obj.all>>
          /\ UserWrites(Asking(obj, c, t, a))

\* The API server keeps a deleted object as long as it has a finalizer.
UserDeletes ==
    /\ obj.phase = "live"
    /\ UserWrites(IF obj.fin THEN [obj EXCEPT !.phase = "deleting"]
                  ELSE Gone(obj))

UserRecreates ==
    /\ obj.phase = "gone"
    /\ UserWrites([obj EXCEPT !.phase = "live"])

\* An informer cache catches up and its event handler adds the key.
SyncObject ==
    /\ objStale
    /\ view' = obj
    /\ objStale' = FALSE
    /\ lag' = IF childLog = <<>> THEN 0 ELSE lag
    /\ queued' = TRUE
    /\ UNCHANGED <<cluster, childView, childLog, operator, timer, edits,
                   restarts, failures>>

SyncChildren ==
    /\ childLog # <<>>
    /\ childView' = Head(childLog)
    /\ childLog' = Tail(childLog)
    /\ lag' = IF childLog' = <<>> /\ ~objStale THEN 0 ELSE lag
    /\ queued' = TRUE
    /\ UNCHANGED <<cluster, view, objStale, operator, timer, edits, restarts,
                   failures>>

TimerFires ==
    /\ timer = 0
    /\ timer' = NoTimer
    /\ queued' = TRUE
    /\ UNCHANGED <<cluster, caches, operator, edits, restarts, failures>>

AllLater(cs) == [n \in Name |-> OneSecondLater(cs[n])]

Behind == objStale \/ childLog # <<>>

\* A second passes, over what the caches have yet to show as well; deadlines
\* are points in time, so an old copy of a child gets no younger.
Tick ==
    /\ timer # 0
    /\ Behind => lag < LagLimit
    /\ lag' = IF Behind THEN lag + 1 ELSE 0
    /\ children' = AllLater(children)
    /\ childView' = AllLater(childView)
    /\ childLog' = [i \in DOMAIN childLog |-> AllLater(childLog[i])]
    /\ timer' = IF timer = NoTimer THEN NoTimer ELSE timer - 1
    /\ UNCHANGED <<obj, view, objStale, operator, queued, edits, restarts,
                   failures>>

\* A new process, possibly with a new configuration: the caches are filled
\* before the first pass, and the initial events add every existing object.
Restart ==
    /\ restarts < MaxRestarts
    /\ restarts' = restarts + 1
    /\ view' = obj
    /\ childView' = children
    /\ objStale' = FALSE
    /\ childLog' = <<>>
    /\ lag' = 0
    /\ lists' = {}
    /\ childKind' = FALSE
    /\ maxShards' \in Configs
    /\ queued' = (obj.phase # "gone")
    /\ timer' = NoTimer
    /\ UNCHANGED <<cluster, edits, failures>>

Init ==
    /\ obj \in [class : Class, template : Template, all : AllShards,
                phase : {"live"}, fin : {FALSE}, status : {{}}]
    /\ view = obj
    /\ children = [n \in Name |-> NoChild]
    /\ childView = children
    /\ objStale = FALSE
    /\ childLog = <<>>
    /\ lag = 0
    /\ lists = {}
    /\ childKind = FALSE
    /\ maxShards \in Configs
    /\ queued = TRUE
    /\ timer = NoTimer
    /\ edits = 0 /\ restarts = 0 /\ failures = 0

ReconcileBeforeApply ==
    \/ ReconcileNotFound
    \/ ReconcileFinalizerRefused
    \/ ReconcileUnknownClass
    \/ ReconcileRateLimited
    \/ FinalizerUnknownKind
    \/ FinalizerWaits
    \/ FinalizerCompletes
    \/ FinalizerFails

User == UserEdits \/ UserDeletes \/ UserRecreates

----------------------------------------------------------------------------
(* Children as ChildLifecycle sees them.                                    *)

Stage(c) ==
    CASE ~c.live -> "absent"
      [] c.live /\ c.marked -> "unregistered"
      [] c.live /\ ~c.marked /\ c.due # NoDue -> "scheduled"
      [] OTHER -> "serving"

Lifecycle == INSTANCE ChildLifecycle WITH
    stage <- [n \in Name |-> Stage(children[n])],
    since <- [n \in Name |-> children[n].age]

\* DrainedBeforeDeleted: whatever happens to its object, no child is deleted
\* by a pass before it has been unregistered for the grace period, neither by
\* the drain of unlisted children (handleDeletionTiming) nor by the finalizer
\* (handleFinalizer), nor when one takes over from the other halfway.
DrainedBeforeDeleted == Lifecycle!Spec
----------------------------------------------------------------------------
(* What holds whichever controller runs the passes.                         *)

\* Objects and children hold what the API types allow; a deadline is absent
\* or counts down to zero.
TypeOK ==
    /\ obj \in Object /\ view \in Object
    /\ children \in [Name -> Child] /\ childView \in [Name -> Child]
    /\ \A n \in Name : children[n].due >= NoDue
    /\ objStale \in BOOLEAN /\ childLog \in Seq([Name -> Child])
    /\ lag \in 0..LagLimit
    /\ lists \subseteq {"waiting", "ready", "managed", "error"}
    /\ childKind \in BOOLEAN /\ queued \in BOOLEAN
    /\ maxShards \in Configs
    /\ timer \in Nat \cup {NoTimer}
    /\ edits \in 0..MaxEdits
    /\ restarts \in 0..MaxRestarts
    /\ failures \in 0..MaxFailures

\* NoOrphans: a child exists only under a sharded object that still carries
\* the finalizer, whatever the caches showed when it was created, so that no
\* deletion leaves traffic routed to an application that is gone
\* (handleFinalizer drops the finalizer last, Reconcile adds it first).
NoOrphans ==
    \A n \in LiveChildren : obj.fin /\ obj.phase # "gone"

\* Stranded: what may be left of an object whose requeue is lost.  A slot that
\* is over gives a delay the work queue does not keep, and the key stays in
\* WaitingList with nothing to bring it back, while the status still names a
\* shard the object has left (applyRateLimit, the branch "if deleting").
Stranded ==
    /\ obj.phase = "live" /\ ~queued /\ timer = NoTimer
    /\ "waiting" \in lists /\ ChargesDeletion

\* ServedOrReported: as long as the sharded object lives, no pass takes away
\* its last registered child, whatever was drained, moved or given up between
\* edits.  A pass may do so only when it failed to update a child that the
\* object asks for: applyObjectsToCluster logs that and goes on to drain the
\* others, and then the key is in ErrorList.
Served == \E n \in LiveChildren : ~children[n].marked

ServedOrReported ==
    [][Served /\ obj.phase = "live" /\ obj'.phase = "live"
       => Served' \/ "error" \in lists']_vars
=============================================================================
