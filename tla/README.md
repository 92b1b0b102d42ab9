# Formal model of the ingress-controller-sharding-operator

TLA+ modules for the operator in `src/`, the TLC runs that check them on small
instances, and theorems about them that the TLA+ proof system checks for every
value of the constants.  `PROJECT.json` lists components, runs, mutants,
findings, hazards and theorems, and maps each definition to the lines it models.

    tlc -workers 2 -config IngressFaults.cfg MCShardedIngress.tla
    tlapm ShardedIngressProofs.tla

Line numbers below are those of `src/internal/controller/reconciler.go` unless
another file is named.

## The system

The operator places the children (Ingress or HTTPProxy) of *sharded objects* on
shards of an ingress class: class `test` is split into `test-0`, `test-1`, ...
Changing a class or the configuration moves live traffic, so a child is never
simply edited or deleted: it is moved behind a temporary twin, and taken away
only after service discovery had time to forget it.

| Component | State it keeps | Operations |
|---|---|---|
| Rate limiter (`applyRateLimit`, `applyPlanFor`, `setShardInfo`, seeding in `CheckClusterShards`) | `NextApplyTime`: per shard the last slots handed out; the waiting and managed lists | grant a creation or a deletion slot, cap the backlog, seed plans |
| Shared reconciler core (`reconciler.go`) | waiting, ready, managed and error lists; `MaxShards`; `ChildObject`; in the cluster: the object, its finalizer, `status.createdObjects`, the annotations of the children | place (`getShardInfo`), create, update, drain (`deleteUnlistedObjects`, `handleDeletionTiming`), finalize (`handleFinalizer`), book in the status |
| ShardedIngress controller (`ingress_reconciler.go`) | none of its own | `Reconcile`, `NewIngressFromShardedIngress` |
| ShardedHTTPProxy controller (`httpproxy_reconciler.go`) | none of its own; indexes are recovered from the children | as above, and virtual host children with stable indexes |
| Object comparison (`IsObjectEqual`) | none | does a child have to be updated, given what a webhook wrote into it |
| Placement against the cluster (`CheckClusterShards`, `getShardInfo`) | `MaxShards`, cut once per process to what is installed | first pass of a process, placing an object |
| Metric caches (`ShardedCache`, `ChildCache`, `internal/metrics`) | one class per object, one shard per object | count up and down |
| Configuration (`internal/config`), start-up (`cmd/main.go`), kind helper (`internal/k8s`), API types and generated code (`api/v1`), manifests | fixed after start | - |

**Interaction.**  Users write sharded objects through the API server.  An
informer cache follows objects and children; its events put the key of the
object into a work queue, and one worker (`cmd/main.go:136` and `:175` set the
concurrency to 1) takes keys and runs `Reconcile`.  A pass reads the *caches*,
writes to the *cluster* (refused when the copy it read is stale) and ends with
an error, a requeue, a delay or nothing.  What is not in the cluster is lost at
a restart; the configuration is read at a restart only.

**One pass** (`ingress_reconciler.go:29-119`): object gone - forget the key; no
finalizer - add it; being deleted - `handleFinalizer`; class unknown - stop; key
not in the waiting list - put it there with a delay (rate limit); otherwise
render the children and apply them in order.  The first missing child is created
and ends the pass; existing ones are updated; then *one* child that is no longer
listed is moved along its drain; when there is none the status is cleaned.

**A move.**  `status.createdObjects` has `app-0` under the old shard while the
object asks for another: a *conflict*.  The pass creates `app-0-tmp` on the old
shard and keeps `app-0` there too.  The tmp child is always drained: its deadline
(`auto-delete-after`) is set, and when two termination periods or less are left
`app-0` moves to the new shard; then the tmp child is marked as unregistered,
and deleted when its deadline is over.

**What is hard here.**  Every decision is taken from the status and from
annotations written by earlier passes, any of which may have been lost, refused
or overtaken by an edit; a drain takes many passes and may be cancelled, taken
over by the finalizer or interrupted by a restart with another configuration;
the caches lag; most errors are logged and the pass goes on; the lists live in
memory; the rate limiter shares one clock among all objects of a shard.  The
list with lines is under "hazards" in `PROJECT.json`.

**What makes the parts correct.**

* Rate limiter: the backlog stays bounded, a creation comes a cooldown after the
  last slot of its shard, and a delay is one the queue keeps.
* Core: a child is deleted only after it was unregistered for the grace period;
  no child outlives its object; the last registered child of a live object is not
  taken away silently; what is wanted is not drained; passes converge.
* Controllers: a main child goes to a new shard only while another child serves
  the one it leaves; a deletion completes.
* HTTPProxy in addition: a child keeps its host; a host that is wanted stays
  served, and registered; no tree serves a host twice.
* Placement: no class gets more shards than the cluster has; an object stays
  where it is unless something changed.
* Comparison: one write per edit (no update loop against the webhook), and the
  child follows its template.
* Metric caches: gauges equal what they count.

## Modules

    ChildLifecycle  <-- refinement -- ShardedReconciler
                                           |
                                       ApplyPass
                                      /         \
             ShardedIngressReconciler             ShardedHTTPProxyReconciler
                      |                                      |
              MCShardedIngress (TLC)              MCShardedHTTPProxy (TLC)

    ApplyPlan            MCApplyPlan (TLC)           ApplyPlanProofs
    Placement            MCPlacement (TLC)           PlacementProofs
    IngressComparison    MCIngressComparison (TLC)   IngressComparisonProofs

The proofs of the two controllers are layered as the controllers are:
ShardedReconcilerProofs, ApplyPassProofs, and on top of both
ShardedIngressProofs and ShardedHTTPProxyProofs; ServedProofs extends the former.

**ApplyPlan** models the rate limiter for many objects.  `plan`/`planned` are
`NextApplyTime`, `waiting`/`managed` the lists, `now` the clock in seconds.
`RateLimit(o)` is a pass of `setShardInfo` and `applyRateLimit` for any status the
object may have; `Apply(o)` is what the later pass does to the lists; `Restart`
drops everything and seeds the plans of the shards found by then; `granted` is a
history variable.  `currentDeletingWindowStart` is never read and left out.

**ChildLifecycle** is the abstract specification of one promise: a child serves,
is scheduled, is unregistered, and is deleted only after it has been unregistered
for a grace period; until then it may be restored.

**ShardedReconciler** is the core for one object of either controller.  `obj`,
`children` are the cluster; `view`, `childView` the informer caches; `objStale`
says that the object was written since its cache followed, and `childLog` holds
the states of the children the cache has yet to go through, oldest first (an
informer skips no event).  `lists` says which lists hold the key; `childKind`
whether `r.ChildObject` has a kind yet; `queued`, `timer` the work queue; `edits`,
`restarts`, `failures` count against the bounds.  A child is its class, its host
(`NoHost` for an Ingress and for a root), its content (all else it is rendered
from), its deadline as seconds left (`due`), its unregister mark, the `old-shard`
annotation, and `age`, history: seconds since the mark, up to `Grace`.  The
object keeps its finalizer, its phase and its status, a set of pairs of shard and
name.  Each action is a whole pass of one kind: `ReconcileNotFound`,
`ReconcileFinalizerRefused`, `ReconcileUnknownClass`, `ReconcileRateLimited`,
`FinalizerUnknownKind`, `FinalizerWaits`, `FinalizerCompletes`, `FinalizerFails`;
the drain (`DrainFails`, `DrainOne`, `DrainDone`) is the end of an apply pass.
`DrainOne` deletes a child at once when a child that stays serves its host on its
class (`HasTwin`, lines 239-258 and 286-297).  The environment is `UserEdits`,
`UserDeletes`, `UserRecreates`, `SyncObject`, `SyncChildren`, `TimerFires`, `Tick`
and `Restart`.

**ApplyPass** is the pass that renders and applies, as far as the controllers
share it: the conflict with the status (`ConflictsOf`), the old shard the tmp
child holds (`HoldsOldShard`), updates, the first creation, the drain
(`ApplyObjects`).

**ShardedIngressReconciler** adds the names and the rendering of Ingresses.

**ShardedHTTPProxyReconciler** adds trees: a root for each shard and a child for
each virtual host under it.  `Allocations` is `vhostIndexAllocator`: a host keeps
the index of the child that serves it, another gets the least index no cached
child holds; the indexes are recovered from the cache on every pass.
`ReconcileListFails` is the early return when the children cannot be listed.

**Placement** models where the shards of a class come from: the file or the
environment, read and validated at a start (`Start`; a process without shards
stays down), cut by the first pass to what the cluster has (`FirstPass`, `Checked`),
and used by every later one (`Place`, `Placed`).  Configuration and ingress
classes change under it (`ConfigChanges`, `ClassesChange`), the listing may fail
(`FirstPassFails`), processes crash.

**IngressComparison** models `IsObjectEqual` for Ingresses with `updateObject`:
`template` is the child as the operator renders it, `child` what is in the cluster
after a webhook has added server aliases and TLS hosts to the write, `writes`
(history) the updates since the last edit.  The merge is `Compared`: what the child
has stands in for the template where the webhook may have added it.

Definitions called a *Mutant* are plausible bugs, for the mutants of
`PROJECT.json`; nothing else uses them.

### Modelling decisions

* A pass is one step: there is one worker, nobody else writes the status or the
  deadlines, and a pass reads its caches early.  What users and informers do
  between two reads of one pass is left out.  Calls that fail are in: a pass with
  an *outage* has any of its calls fail, in the order the code makes them, and
  what was written before stays.  A crash within a pass leaves what an outage
  leaves, followed by a `Restart`.
* `updateStatusWithRetry` repeats after a conflict with what the cache holds.
  If the cache is still stale after five tries the nil of the last `Get` is
  returned: the write is dropped and reported as done.  `StatusWrite` has the
  three outcomes: written, dropped, refused.
* Deletion of the children of an entry from the status goes by name, under every
  shard, while the list is ranged over (`Forgotten` allows each outcome).  The
  `Get` before it asks for a kind without a group, always fails, and is
  therefore no guard.
* Iteration over a Go map is a choice: which of two conflicts is found, which
  shard is charged, under which shard a child is booked, which of several twins
  is drained first.
* Deadlines are kept to the second (RFC3339), so "now is after the deadline" is
  true from the second of the deadline on.
* `CachesLag = FALSE` makes the caches follow each write at once.  With lag, the
  cache of children goes through the logged states one `SyncChildren` at a time.
  `lag` counts the seconds since both caches last showed the cluster as it is,
  and `Tick` lets it grow up to `LagLimit`: 0 (they catch up within a second) in
  all runs but ingress_lagging, where it is 1.  A second makes the cached and the
  logged copies older too, for a deadline is a point in time.
* The kind of the children becomes known when a pass of *this* object reads a
  child; in the operator a pass of any object of the controller may do it.
* `applyRateLimit` answers with any delay of `CreateDelays`, `DeleteDelays`; the
  delays themselves are ApplyPlan's subject.
* In the controllers `IsObjectEqual` is equality of what a child is rendered
  from; its merge with a webhook's additions is IngressComparison's subject.
* The names of HTTPProxies coincide across trees: `app-0` is the first virtual
  host of the root `app` on a class without shards, and the root of the first
  shard on one with shards.  A name is therefore a suffix (`<<0>>`) in the model
  as it is a string in the code, and the two meet there too.
* A host listed twice in the annotation is left out (`DistinctHostsAssumption`).

## Runs

| Run | What it asks | Bounds |
|---|---|---|
| apply_plan | types; `BacklogBound`; `CreationScheduled`; `DeletionScheduled`; `CooldownKept` | 2 objects, 2 shards (1 known at start), cooldown 2, termination period 3, backlog 6, clock 2..6 |
| ingress_faults | types; `NoOrphans`; `ServedOrReported`; `DrainedBeforeDeleted`; `WantedNotDrained` with lagging caches, conflicts and failing calls | 2 classes, `a` of 1 shard and `b` of 1 or none; 2 writes of users, 2 passes with an outage |
| ingress_restarts | `NoOrphans`, `DrainedBeforeDeleted` across a restart into any configuration | 2 classes, each sharded, unsharded or unknown as listed in `ConfigsAny`; 1 edit, 1 restart; finalizer period 3, longer than the drain |
| ingress_migration | `MoveCovered` and `Converges` | 2 classes of 1 shard each or of 2, objects on one shard or on all; 1 edit, 1 restart into either configuration |
| ingress_lagging | `Converges` with lagging caches and dropped status writes | 2 classes of 1 shard, 2 writes of users; lag up to 1 second, termination period 2, finalizer period 3 |
| httpproxy_hosts | `NoOrphans`; `HostPinned`; `HostKept`; `HostRegistered`; `NoTwinSeen`; `DrainedOrTwinned` while hosts come and go, with lagging caches and failing calls | 1 class of 1 shard; hosts y, or x and y, or y and z; 3 indexes; 2 writes of users, 1 pass with an outage |
| httpproxy_moves | types; `ServedOnce`, `HostKept`, `DrainedOrTwinned`, `Converges` for moves | 2 classes, `b` with or without shards; hosts y or x, y; 4 indexes; 1 write of a user |
| placement | types; `NoMoreThanInstalled`; `PlacedWhereInstalled`; `StaysPut` | 1 object, 2 classes with ingress classes numbered in 0..2; 4 shard lists; 1 change, 2 starts, 1 failing list |
| comparison | types; `WrittenOnce`; `Follows` | 2 aliases, one a part of the other; 2 TLS hosts, one of the main domain; 2 secrets; 2 edits; a webhook that adds or not, and changes its mind |

*Ingress.*  The termination period is 1 second, one tick (2 in ingress_lagging, so
that a cache may be behind for a second of it): a tmp child then lives
through all the phases its deadline can be in (3, 2, 1, 0 left, unmarked and
marked), and longer periods repeat a phase.  Two writes of users are enough for
a move that is cancelled, a move overtaken by a deletion, and a deletion followed
by a new object of the same name; two classes suffice to move and move back.  Two
shards matter for objects on all shards (two moves side by side) and for a hash
that is not 0.  An outage may hit any subset of the calls of a pass, and two of
them can fail the same step twice or two steps of one move; one restart may fall
between any two passes.

A delay of `applyRateLimit` is one second or none left for deletions
(`DeleteDelays = {0, 1}`, one that is over has the same effect as 0), one second
for creations, which never get less (`CreationScheduled`).

*ApplyPlan.*  The clock runs long enough for a termination window to open, be
used and pass, and for the backlog cap to bite.  The cooldown is shorter than the
termination period, as in the defaults (10 seconds and 5 minutes,
`config.go:68` and `:77`), so that a slot that is over can be handed out.

*HTTPProxy.*  A first host that is taken away moves the position of the second one,
which is the least that tells "keeps its index" from "has the index of its
position"; two writes bring it back while its child is being drained, or put a
new host behind, which takes the next free index.  The indexes are as
many as the hosts that can be there at once, drained ones included: `Allocations`
is never empty in the runs.  In httpproxy_moves a move meets each of the two
layouts, from sharded to sharded and to and from bare.

*Placement.*  Three numbers allow a gap, a class with more shards than installed
and one with fewer; two starts with one change between are a restart into
another world, or into the same one.  Deadlock is not checked, for a process
that finds no shards stays down.

*Comparison.*  Deadlock is not checked: when the edits are used up and the child
is as it should be nothing is left to do.

What the properties leave out, because it does not hold:

* `Converges` excepts `Stranded`.  Within a window the slot of a deletion is the last
  one plus a cooldown (1254), and nobody asks whether that is over.  It is when the
  last slot of the shard is between a cooldown and about a termination period old:
  the delay is not positive (1267), the work queue does not keep it (1268), and the
  key stays in WaitingList.  The next event of the object or of a child, or the
  resync of the informer (about 10 hours), applies the object; until then it stays
  as it is.  `DeletionScheduled` says by how much a slot may be over, and that
  a cooldown of at least a termination period keeps it from being so.
* `MoveCovered` looks for a child that is on the shard before and after the pass, but
  for one case: a pass that comes only after the deadline of the tmp child (the
  operator was stopped, say) moves the main child (683) and deletes the tmp child
  (305) at once.  And it is about the way to the shard the object asks for.  On
  the way back (see below) the main child leaves the new shard and nothing else is
  there; no property forbids that, `Converges` says that it ends.
* `MoveCovered` is checked for one edit, and proved for any number that are made
  while no move is under way (`Calm`): with an edit during a move the tmp
  child of the first move stands in the way of a second one.  It is checked
  without lag: an entry of the main child lost from the status after five
  conflicts (370-381) means a move without a tmp child.  And it is checked on
  classes with shards: without, see below.
* The object's name does not end in `tmp` (`NamedTmp`): with such a name
  `WantedNotDrained` does not hold on a class without shards.
* `ServedOrReported` allows that an object is left without a registered child when
  an update failed.  `applyObjectsToCluster` logs that (683) and goes on to drain, so
  when `app` and `app-0` change places (a class with shards, one without, and back)
  two updates that fail (or meet a conflict) leave the one that serves unregistered
  before the other is restored.
  The key is in ErrorList then.
* `HostKept` excepts the child `app-0` that becomes a root (see above): its host
  waits for a child of its own.  And it excepts a twin seen in vain: with lag and
  three edits the cache may show a second child on the host that is gone by now,
  and the one that serves is deleted as its duplicate (`ShownInVain`).
* `HostRegistered` is about passes without a failing call, and excepts `app-0` like
  `HostKept`, and a host of which the cache still shows a child that was
  unregistered or lost the host since (`UnregisteredSince`): the update that fails
  or is refused may be the one that takes the mark from the child that is to stay.
* `ServedOnce` holds with caches that keep up.  With lag a host may get a second
  child before the cache shows the first one; `NoTwinSeen` says that this is the
  only way.  Neither speaks of two trees: a move between a class with shards and
  one without builds a tree beside the one that is drained, and the fqdn of a host
  is on a child of each until the next pass deletes one of them at once (the
  comment at 279-283 describes that case).
* `PlacedWhereInstalled` asks for ingress classes numbered from zero without a
  gap: `CheckClusterShards` counts them, and does not look at their numbers.
* `Follows` promises the text of an alias, not the alias (an alias that is a part
  of another one counts as present, line 463), and excepts TLS hosts of the main
  domain and secrets: aliases and such hosts stay when the template drops them,
  and a secret alone is not followed (line 506).

**Fairness** (`FairSpec`): weak fairness of `Reconcile` - the worker always takes
the next key, an error or requeue puts it back with a backoff; of `SyncObject`
and `SyncChildren` - informers watch and relist; of `TimerFires` and `Tick` - the
delaying queue and the clock.  Users and restarts have none, and their bounds
make `Converges` speak of what happens after the last of them.  There are no
outages in the runs with liveness: a create that fails is swallowed
(line 674-678) and the pass returns nothing, so only an event would bring the key
back.  `Converges` excepts an object that is deleted before the kind of its
children is known, which is the subject of ingress_unknown_kind, and one whose
requeue is lost (`Stranded`, above).  `Follows`
assumes weak fairness of the pass that writes (`UpdateObject`): an event of the
object or of the child brings a pass.

### Disagreements the runs show

Each of these runs checks one property, taken from a comment, a test or the
README, and finds it violated; the quotes are under "findings".

| Run | What happens |
|---|---|
| ingress_unknown_kind | After a start `GetChildKind` is empty until a child has been read: the finalizer of an object deleted before that stays (until another object of the controller has had a child read). |
| ingress_unsharded | A restart that unshards the class renames the main child to `app`; the entry of `app-0` stays in the status, is a conflict on every pass, and a tmp child is created and drained for ever. |
| httpproxy_mirrored | The tmp tree is rendered only while its root is missing, and a pass ends with the first object it creates: the tmp root gets no virtual hosts, and the hosts of the main tree leave the old class while nothing serves them there. |

Others were met while modelling, are in the model as the code has them, and have
no run of their own:

* Inside a window a deletion gets the last slot plus a cooldown, which is never
  compared with now (1254); its delay may be not positive, and the key is then not
  requeued (1267-1268).
* "Deleting now" (1261) is not compared with pending slots: it may come on top of one
  or before it, and pulls the clock of the shard back.
* `setShardInfo` stamps a missing plan with the current time (1285) before
  `applyPlanFor` could make a cold one; the first object pays the cooldown.
* Marking the tmp child renews its deadline to three periods, and
  `checkTmpObjAnnotations` (909, two periods) holds the main child on the old shard
  again: it moves, moves back, and moves a third time.
* On a class without shards the main Ingress is `app`, but the conflict is looked
  up as `app-0` (`ingress_reconciler.go:133`): it moves without a tmp child.

## Proofs

| Theorem | Says |
|---|---|
| `ApplyPlanProofs!TypeCorrect`, `BacklogBounded`, `CreationsScheduled`, `DeletionsScheduled`, `CooldownRespected` | the five properties of apply_plan, for any objects, shards, placements, periods and lengths of time |
| `ShardedIngressProofs!TypeCorrect`, `NothingOrphaned` | `Spec => []TypeOK`, `Spec => []NoOrphans` |
| `ShardedIngressProofs!DrainedFirst` | `Spec => DrainedBeforeDeleted`, that is: the controller implements `ChildLifecycle` |
| `ShardedIngressProofs!MovesCovered` | `Undisturbed => (Spec /\ [][UserEdits => Calm]_vars => MoveCovered)`: a main child goes to the shard its object asks for only under another child that is on the old shard before and after the pass, or a tmp child whose deadline is over; for any number of edits made while no move is under way |
| `ShardedIngressProofs!FirstMoveCovered`, `SettledMovesCovered` | `MoveCovered` for a single edit made at any time (what ingress_migration checks), and for edits of settled objects, where all classes are known |
| `ServedProofs!NeverUnserved` | `LagLimit < TerminationPeriod /\ LagLimit < DeletionTerminationPeriod => (Spec => ServedOrReported)`: with caches that lag by less than the two periods, nothing but a reported failure takes the last registered child of a live object |
| `ServedProofs!NoneDrainedInVain` | `~NamedTmp => (Spec => WantedNotDrained)` |
| `ShardedHTTPProxyProofs!TypeCorrect`, `NothingOrphaned` | the same two for trees of any hosts |
| `ShardedHTTPProxyProofs!NeverRehosted` | `Spec => HostPinned`: no update gives a child another host, however stale the cache its index was chosen from |
| `ShardedHTTPProxyProofs!NoneCutOff` | `Spec => DrainedOrTwinned`: a child goes after the grace period, or because a twin serves its host |
| `ShardedHTTPProxyProofs!HostsKept`, `HostsStayRegistered` | `Spec => HostKept`, `Spec => HostRegistered`: no step takes the last child of a wanted host, nor, if no call fails, its last registered one; both with the exceptions above |
| `ShardedHTTPProxyProofs!TwinsSeen` | `Spec => NoTwinSeen`: a host gets a second child under a root only behind the back of the cache |
| `ShardedHTTPProxyProofs!HostsServedOnce` | `~CachesLag => (Spec => []ServedOnce)` |
| `PlacementProofs!TypeCorrect`, `CountRespected`, `PlacementSound` | types, `NoMoreThanInstalled`, `PlacedWhereInstalled`, for any cluster, configuration and hash |
| `PlacementProofs!NeverDisplaced` | `Spec => StaysPut`: only a change moves an object, never a restart, a crash or a failing list |
| `IngressComparisonProofs!TypeCorrect`, `NoWriteLoop` | types, `Spec => []WrittenOnce`, for any aliases, hosts, secrets and whatever the webhook does |
| `IngressComparisonProofs!AcceptedFollows` | `Spec => [](IsObjectEqual(child, template) => Followed)`: what a pass leaves alone follows its template, the safety half of `Follows` |

Where the table states no hypothesis they hold for any classes, templates,
configurations, hash, periods, delays, lag, and number of edits, restarts and
failures, under the named assumptions of the modules: periods and the backlog are
positive, delays are not negative, the configuration assigns each class `Unknown` or
a number of shards up to `ShardLimit`, the names are those the controllers make, and
`Within` (one text is a part of another) is reflexive.  TLC evaluates them in every
run.

*ApplyPlan.*  `BacklogBound` is inductive over the types: a plan is capped before a
slot is computed from it, and time only brings a slot nearer.  `CooldownKept`
rests on `GrantRecorded`: whichever branch handed out the last slot of a shard,
the plan still reads it; so the next creation is a cooldown after it, or after
the horizon the cap pulled it to.  `DeletionScheduled` rests on `WindowsKept`: the
next window of a plan starts no later than three termination periods after its last
slot, so that a slot inside a window cannot be older than that allows, and
the cap can pull the slot back by no more than `BacklogShortfall` beyond it.

*The controllers.*  None of the properties is inductive.  `Inv`, shared by both,
adds

* `Clocks`: a marked child has a deadline, and when that is over it has been
  marked for `Grace` seconds (`age + due >= Grace`); an unmarked one has age 0.
  Deadlines written with a mark are `DelTime` or the finalizer's period, each
  at least `Grace`.
* `Cached`: what a cache holds of something not written since is current; so an
  update that is not refused is made from the child as it is.
* `Guarded`: a finalizer a pass sees in the cache on a live object is still there,
  and every child is under it.  A new object of the same name is seen without a
  finalizer first; the operator drops the finalizer only from a fresh copy and
  after the children.

`ShardedReconcilerProofs` proves how the operators move one child (`TimedMoves`,
`FinalizedMoves`, `OneSecondLaterGood`), reduces a pass to what it leaves
(`Leaves`, `ReturnStep`), and does every pass that ends early, the drain
(`DrainOneStep`, `DrainDoneStep`) and the environment.  A child may leave in two
ways there, by the grace period (`Moves`) or for a twin; Ingresses have no host
and thus no twin, so for them `Moves`, the step of `ChildLifecycle`, is all that
remains and the refinement falls out (`StepPasses`, `TickPasses`).
`ApplyPassProofs` shows that updates hit live children only and turn each into
what was rendered; each controller then has to show only that what *it* renders is
typed and, for HTTPProxies, that a rendered child has the host of the cached child
of its name or is a root (the allocator gives no host an index another one
holds), which with `Cached` gives `HostPinned`.

*Hosts.*  `NoTwinSeen` rests on what a pass can add to the children: at most the one
it creates (`CreatesOne`), and updates give no child a host it has not got.  So a
new twin is a child just created (`Creates`), with an index the allocator gave to
a host for which the cache showed no child under that root, or whose old index it
would have kept (`VhostInjective`: two indexes are two names).  Without lag the
cache is the cluster, and `ServedOnce` follows by induction over the steps.  For
`HostKept` and `HostRegistered` a pass is split into what it applies and the one
drain at its end (`ApplyLeaves`).  While something is missing it drains nothing,
and updates keep hosts.  When all exist, each wanted host has a rendered child
under each root (`Registers`); that one stays off the list of the drain, so what is
drained leaves another one on its host: registered if it was updated from a
current copy (`CurrentCopy`), which is where the exceptions come from.  That a child
of a host becomes a root is excluded for names of hosts that stay
(`VhostNotMain`, `VhostStays`).

*Moves.*  `MoveCovered` is about the step that takes a main child to another shard;
why the shard it leaves has a child is the work of several earlier passes, and the
only memory they share is the status.  `MoveInv` adds to `Inv`

* `Synced`: the caches are the cluster.
* `Indexed`: whatever the status and the children say of the number `i` is about
  the names `Main(i)` and `TmpOf(i)` and the shards of that number, so that moves of
  two numbers do not meet.
* `Covered`: a main child that is not on the shard its object asks for is `Backed`.
  Either its tmp child is there, on the shard it is to leave; or there is none,
  and the status has the main child under the shard it is on and no other, which is
  the conflict from which the next pass renders the tmp child.

A pass keeps it (`ApplyBooks` is what a pass leaves in the children *and* in the
status).  The tmp child is applied before the main one and a pass ends with the
first child it creates, so the main child is not touched while the tmp child is
missing (`ReachedAfterTmp`).  The tmp child is always drained and never rendered
again, so the pass that moves the main child leaves it on the old shard unless its
deadline is over (`TmpStays`).  Booking the main child under its new shard ends the
conflict, but by then the tmp child is there; an entry under the old shard goes only
in a pass for which nothing is missing, and such a pass leaves each main child on
its new shard or where the tmp child is, which it then keeps (`DrainsCovered`).  An
edit changes where the main children are to go and nothing else: all that it needs
is that each of them is backed for wherever that is, which is `Calm`.  Before the
first edit this is so at any time (`Unedited`), for the status has nothing but main
children where they belong; and a settled object is calm (`SettledCalm`), so a team that waits
until the object is `Settled` before the next edit meets the hypothesis.

`Undisturbed` (no lag, no failing call, one configuration, no class without shards)
is not a convenience; TLC finds a counterexample when any of it is dropped.  An
entry of the status is lost with lag, or when the write after a create fails, and
the next move of that child has no conflict to see.  Two restarts between which an
object is placed under another number, in the middle of a move, leave its main child
where it was and drain its tmp child as unlisted, while the status already has the
main child under the new shard.  On classes without shards no conflict is found at
all.  Restarts with the same configuration, deletions, recreated objects and classes
whose number of shards is unknown are all within the theorems.

*Served.*  A pass drains one child because its cache shows another one as the
object wants it, and that cache is old.  `Trusted` says why this is safe: a child
that the cache shows registered and without a deadline, now or in any state it has
yet to go through, is in the cluster still registered for more than a termination
period (`Lively`), or its object is being deleted.  A drain that starts behind the
cache's back sets a deadline of at least two periods, marks only when one is left
(`TimedLasts`).  A deadline loses no more seconds than the cache lags: `Lively` asks
for `due + lag` of two periods or more, which with a lag below a period leaves
more than one.  The finalizer marks at once (`Late`, `due + lag` of its period or
more), so the second case needs `Renewed`: an object that lives while the
operator still sees the deletion of the one before it has no finalizer yet, and by
`Guarded` no children.  The pass itself is decided by the object applied last
(`LastObject`, `LastKept`): it is as wanted, or was just written, or its failed
update is the one `AfterUpdates` puts into ErrorList; and a drain that marks or
deletes leaves the lists alone (`DrainOneDrains`).  `NoneDrainedInVain` needs no
more than `Inv`: a main child is on the list of what stays (`MainNameStays`), and a
drain writes to no child of that list (`DrainKeeps`).

*Placement.*  `NoMoreThanInstalled` is inductive over the types, since the count of
a class is cut by the number of its ingress classes the process found, and both
are kept until it ends.  `Remembered`, for `NeverDisplaced`: a process that nothing
has outdated works with exactly the shards a process would have that starts now,
so the one after a crash computes the same placement.

*Comparison.*  The invariant adds that after the one write of an edit the child
compares equal to its template: as it was sent (`SentEqual`) or with what the
webhook made of it (`MutatedEqual`), and no change of the webhook alone alters
that.

Only model-checked: the liveness properties `Converges` and `Follows`, since
liveness under fairness is out of the prover's reach.  The invariants and action
properties of all runs are proved; those with hypotheses in the table above are
checked with the constants that meet them.

## Not modelled

* The metric caches and gauges: they follow the lists, and no decision of the
  program depends on them.
* Several objects on one core: they share the plans (ApplyPlan), the kind of
  `ChildObject`, and nothing else that decides.
* Of the configuration, all but the shards: defaults and settings are constants.
* `cmd/main.go` (wiring, leader election, which keeps a second operator out), the
  kind helper (reads the scheme), generated deep copies, manifests: no state
  after start and no behaviour of their own.

## Plan

1. *Done:* ApplyPlan; the core and both controllers on it, with the refinement of
   ChildLifecycle; Placement; IngressComparison; proofs of each.
2. Composition of ApplyPlan with the apply pass for two objects: which moves end
   `Stranded`.
3. Metric caches: `ShardedCache`, `ChildCache` and the gauges, over passes that
   change class, fail, and end objects.
4. Proofs: what of `MoveCovered` survives lag (the conflict that lets an entry of
   the status go) and an edit during a move, stated as exceptions rather than
   as hypotheses.
