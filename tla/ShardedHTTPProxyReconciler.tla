--------------------- MODULE ShardedHTTPProxyReconciler ---------------------
(****************************************************************************)
(* The ShardedHTTPProxy controller: src/internal/controller/                *)
(* httpproxy_reconciler.go on top of ApplyPass.  The children of an object  *)
(* "app" form trees: a root without a virtual host for each shard, and one  *)
(* child for each virtual host under it, "root-k" with an index k that the  *)
(* host keeps as long as a child serves it.  A name is a suffix here as     *)
(* there: <<0>> is "app-0", the root on the first shard, and also the first *)
(* virtual host of the root "app" that a class without shards has.          *)
(****************************************************************************)
EXTENDS ApplyPass

CONSTANTS
    HostsOf,    \* the virtual-hosts annotation of a template, in order
    ContentOf,  \* the part of a template that is copied to the children
    MaxVhosts   \* bound on the indices of virtual host children

VhostIndex == 0 .. MaxVhosts - 1

MainRoot == {Bare} \cup {Main(i) : i \in ShardIndex}
TmpRoot == {TmpOf(i) : i \in ShardIndex}
Vhost(root, k) == Append(root, k)

HTTPProxyName == MainRoot \cup TmpRoot
    \cup {Vhost(root, k) : root \in MainRoot \cup TmpRoot, k \in VhostIndex}

ASSUME TreesAssumption ==
    /\ Name = HTTPProxyName
    /\ MaxVhosts \in Nat
    /\ NoHost \notin Host
    /\ HostsOf \in [Template -> Seq(Host)]
    /\ ContentOf \in [Template -> Template]

\* A host that is repeated is rendered twice alike; the model leaves that out.
ASSUME DistinctHostsAssumption ==
    \A t \in Template : \A i, j \in DOMAIN HostsOf[t] :
        HostsOf[t][i] = HostsOf[t][j] => i = j

----------------------------------------------------------------------------
(* vhostIndexAllocator, over the cached children.                           *)

Hosts == HostsOf[view.template]

\* The indices under a root that a child holds, with a host or without one.
Used(root) == {k \in VhostIndex : childView[Vhost(root, k)].live}

ServedAt(root, host) ==
    {k \in Used(root) : childView[Vhost(root, k)].host = host}

\* The index a new host gets: the least that no child holds and no earlier
\* host of the pass was given.
Allocates(root, at, j) ==
    /\ at[j] \notin Used(root)
    /\ \A i \in 1 .. j - 1 : at[i] # at[j]
    /\ \A k \in 0 .. at[j] - 1 : k \in Used(root) \/ \E i \in 1 .. j - 1 : at[i] = k

\* Mutant of Allocations: the index is the position of the host in the list.
AllocationsByPosition(root) ==
    IF Len(Hosts) > MaxVhosts THEN {} ELSE {[j \in DOMAIN Hosts |-> j - 1]}

\* indexFor, for all hosts of the list: a host that a child serves keeps the
\* index of that child, the least if there are two.  There is one allocation,
\* or none within the bound.
Allocations(root) ==
    {at \in [DOMAIN Hosts -> VhostIndex] :
       \A j \in DOMAIN Hosts :
          LET served == ServedAt(root, Hosts[j])
          IN  \/ at[j] \in served /\ \A k \in served : at[j] <= k
              \/ served = {} /\ Allocates(root, at, j)}

----------------------------------------------------------------------------
(* NewHTTPProxiesFromShardedHTTPProxy, for the cached object and children.  *)

\* CheckReshardingConflict is asked about the name of the main object.
Conflicts(p) == ConflictsOf(p.shard, MainName(p))

\* A root and the virtual hosts under it, in the order they are applied.
Tree(p, root, rank, class, old) ==
    LET content == <<ContentOf[view.template], FALSE>>
        at == CHOOSE a \in Allocations(root) : TRUE
    IN  {[name |-> root, rank |-> rank, shard |-> p.shard,
          child |-> Rendered(class, NoHost, content, old)]}
        \cup
        {[name |-> Vhost(root, at[j]), rank |-> rank + j, shard |-> p.shard,
          child |-> Rendered(class, Hosts[j], content, old)]
            : j \in DOMAIN Hosts}

\* The objects in the order they are applied: by number, tmp before main.
Rank(step) == step * (Len(Hosts) + 1)

MainTree(p, conflict) ==
    Tree(p, MainName(p), Rank(2 * p.num + 1), MainClass(p, conflict), NoShard)

TmpTree(p, conflict) ==
    Tree(p, TmpOf(p.num), Rank(2 * p.num), conflict, conflict)

Objects(conflict) ==
    UNION ({MainTree(p, conflict[p]) : p \in Placed}
           \cup {TmpTree(p, conflict[p])
                   : p \in {q \in Placed : MissingTmp(q, conflict[q])}})

\* What a pass may render, for the conflicts it may find.
Renderings ==
    {Objects(conflict) :
       conflict \in {c \in [Placed -> ShardName \cup {NoShard}] :
                       \A p \in Placed : c[p] \in Conflicts(p)}}

\* No object has an old shard, so the list holds exactly the objects.
StatusList(objects) == {<<o.shard, o.name>> : o \in objects}

----------------------------------------------------------------------------

\* The children cannot be listed, and none are rendered; the pass returns
\* without an error.
ReconcileListFails ==
    /\ Applies
    /\ Outage(TRUE)
    /\ Return(WithFinalizer, children, FALSE, NoTimer)
    /\ UNCHANGED <<lists, childKind>>

ReconcileApply ==
    /\ Applies
    /\ \A p \in Placed : \A root \in {MainName(p), TmpOf(p.num)} :
          Allocations(root) # {}
    /\ \E objects \in Renderings : ApplyRendered(objects, StatusList(objects))

----------------------------------------------------------------------------

Reconcile == ReconcileBeforeApply \/ ReconcileListFails \/ ReconcileApply

Next ==
    \/ Reconcile
    \/ User
    \/ SyncObject
    \/ SyncChildren
    \/ TimerFires
    \/ Tick
    \/ Restart

Spec == Init /\ [][Next]_vars

\* As for the ShardedIngress controller.
Fairness ==
    /\ WF_vars(Reconcile)
    /\ WF_vars(SyncObject)
    /\ WF_vars(SyncChildren)
    /\ WF_vars(TimerFires)
    /\ WF_vars(Tick)

FairSpec == Spec /\ Fairness

----------------------------------------------------------------------------
(* What virtual hosts are promised.                                         *)

Serves(n, host) == children[n].live /\ children[n].host = host

\* HostPinned: no child is ever turned from one host to another, whatever the
\* caches showed when its index was chosen: it may lose its host only to
\* become a root, and a freed index is taken again only by a new child.
HostPinned ==
    [][\A n \in Name :
          children[n].live /\ children'[n].live
          => children'[n].host \in {children[n].host, NoHost}]_vars

\* HostKept: a host that the object, as the operator sees it, asks for and
\* that a child serves stays served, whatever is inserted before it, removed
\* or drained around it and wherever the object moves.  Two cases are excepted:
\* on the way from a class without shards the child "app-0" of a host becomes
\* the root of the first shard, and its host waits for a child of its own; and
\* the cache may show a child on the host that serves it no more, for which
\* the last one that does is given up.
Wanted(h) == view.phase = "live" /\ \E j \in DOMAIN Hosts : Hosts[j] = h

ShownInVain(h) ==
    \E m \in Name : childView[m].live /\ childView[m].host = h /\ ~Serves(m, h)

HostKept ==
    [][children' # children => \A n \in LiveChildren :
          /\ Wanted(children[n].host) /\ ~ShownInVain(children[n].host)
          /\ \A p \in Placed : n # MainName(p)
          => \E m \in Name : children'[m].live /\ children'[m].host = children[n].host]_vars

\* HostRegistered: nor does a wanted host lose its last registered child, in a
\* pass in which no call fails: a child is unregistered, or deleted, only when
\* another one on its host is registered.  The first exception is that of
\* HostKept ("app-0" on the way to shards); the second one is wider: the cache
\* shows a child on the host that lost it or was unregistered since, and the
\* update that would take the mark from that child is refused.
UnregisteredSince(h) ==
    \E m \in ChildStale :
       /\ childView[m].live /\ childView[m].host = h
       /\ Serves(m, h) => children[m].marked

HostRegistered ==
    [][children' # children /\ failures' = failures => \A n \in LiveChildren :
          /\ ~children[n].marked
          /\ Wanted(children[n].host)
          /\ ~UnregisteredSince(children[n].host)
          /\ \A p \in Placed : n # MainName(p)
          => \E m \in Name :
                /\ children'[m].live /\ ~children'[m].marked
                /\ children'[m].host = children[n].host]_vars

\* Two children of cs that serve one host, under one root.
Twins(cs, root, i, j) ==
    LET c == cs[Vhost(root, i)]
        d == cs[Vhost(root, j)]
    IN  i # j /\ c.live /\ d.live /\ c.host = d.host /\ c.host # NoHost

Root == MainRoot \cup TmpRoot

\* ServedOnce: no host is on two children of a root, as long as the caches do
\* not lag: hosts come and go, and what is drained keeps its index and host.
ServedOnce ==
    \A root \in Root, i, j \in VhostIndex : ~Twins(children, root, i, j)

\* NoTwinSeen: with caches that lag a host may get a second child under its
\* root, but only when the cache shows one of the two otherwise than it is.
NoTwinSeen ==
    [][children' # children => \A root \in Root, i, j \in VhostIndex :
          Twins(children', root, i, j) /\ ~Twins(children, root, i, j)
          => \E k \in {i, j} : childView[Vhost(root, k)] # children[Vhost(root, k)]]_vars

\* DrainedOrTwinned: a child is deleted only after it has been unregistered
\* for the grace period, or because another child serves its host on its class.
DrainedOrTwinned ==
    [][\A n \in LiveChildren : ~children'[n].live =>
          \/ children[n].marked /\ children[n].age >= Grace
          \/ /\ children[n].host # NoHost
             /\ \E m \in Name \ {n} :
                   /\ children'[m].live
                   /\ children'[m].host = children[n].host
                   /\ children'[m].class = children[n].class]_vars

\* MirroredHosts: while an object moves to another class, the hosts it had on
\* the old class stay there with the tmp child.
MirroredHosts ==
    [][\A n \in LiveChildren :
          /\ children'[n].live /\ children[n].host # NoHost
          /\ children'[n].class # children[n].class
          => \E m \in Name \ {n} :
                /\ children'[m].live
                /\ children'[m].host = children[n].host
                /\ children'[m].class = children[n].class]_vars

\* Converges: once users and restarts are quiet, each shard the object is
\* placed on has its root and one child for each host and nothing else is
\* left, however hosts came, went and came back; of a deleted object nothing
\* is left, if the kind of its children was known.  One end is excepted: an
\* object whose requeue was lost (Stranded) stays as it is until an event.
IsOf(n, p) ==
    \/ n = MainName(p) /\ children[n].host = NoHost
    \/ children[n].host # NoHost /\ \E k \in VhostIndex : n = Vhost(MainName(p), k)

Settled ==
    \/ obj.phase = "gone" /\ LiveChildren = {}
    \/ /\ obj.phase = "live" /\ ~objStale
       /\ \A n \in LiveChildren : \E p \in Placed :
             /\ IsOf(n, p)
             /\ children[n] =
                   Rendered(p.shard, children[n].host,
                            <<ContentOf[obj.template], FALSE>>, NoShard)
       /\ \A p \in Placed, h \in {NoHost} \cup {Hosts[j] : j \in DOMAIN Hosts} :
             \E n \in LiveChildren : IsOf(n, p) /\ Serves(n, h)
       /\ Cardinality(LiveChildren) = Cardinality(Placed) * (Len(Hosts) + 1)
       /\ obj.status = {<<children[n].class, n>> : n \in LiveChildren}

Converges ==
    <>[](Settled \/ Stranded \/ (obj.phase = "deleting" /\ ~childKind))
=============================================================================
