----------------------- MODULE ShardedHTTPProxyProofs -----------------------
(****************************************************************************)
(* What holds of the ShardedHTTPProxy controller for every value of the     *)
(* constants: the types, no child without its object, no child turned from  *)
(* one host to another, and no child deleted before it was drained, unless  *)
(* another one serves its host.  The invariant is that of                   *)
(* ShardedReconcilerProofs.                                                 *)
(****************************************************************************)
EXTENDS ShardedHTTPProxyReconciler, ApplyPassProofs

----------------------------------------------------------------------------
(* What a pass renders.                                                     *)

LEMMA NamesTyped ==
    /\ MainRoot \subseteq Name /\ TmpRoot \subseteq Name
    /\ \A root \in MainRoot \cup TmpRoot, k \in VhostIndex :
          Vhost(root, k) \in Name
BY TreesAssumption DEF TreesAssumption, HTTPProxyName

LEMMA RootsTyped ==
    \A p \in Place :
       /\ MainName(p) \in MainRoot /\ TmpOf(p.num) \in TmpRoot
       /\ p.shard \in ShardName
BY DEF Place, MainName, MainRoot, TmpRoot

\* An index is given to a host whose child holds it already; or no child under
\* the root serves the host, and it is free.
Index(root) == CHOOSE a \in Allocations(root) : TRUE

LEMMA AllocatedIndex ==
    ASSUME NEW root, Allocations(root) # {}, NEW j \in DOMAIN Hosts
    PROVE  LET child == childView[Vhost(root, Index(root)[j])]
           IN  /\ Index(root)[j] \in VhostIndex
               /\ \/ child.live /\ child.host = Hosts[j]
                  \/ ~child.live /\ ServedAt(root, Hosts[j]) = {}
<1> DEFINE at == Index(root)
<1>1. at \in Allocations(root)
  BY DEF Index
<1> HIDE DEF at
<1>2. /\ at \in [DOMAIN Hosts -> VhostIndex]
      /\ \/ at[j] \in ServedAt(root, Hosts[j])
         \/ at[j] \notin Used(root) /\ ServedAt(root, Hosts[j]) = {}
  BY <1>1 DEF Allocations, Allocates
<1>3. at[j] \in VhostIndex
  BY <1>2
<1>4. LET child == childView[Vhost(root, at[j])]
      IN  \/ child.live /\ child.host = Hosts[j]
          \/ ~child.live /\ ServedAt(root, Hosts[j]) = {}
  BY <1>2, <1>3 DEF ServedAt, Used
<1> QED
  BY <1>3, <1>4 DEF at

\* A tree holds its root and a child for each host, and nothing else.
Copied == <<ContentOf[view.template], FALSE>>

IsRoot(o, root, rank, class, old) ==
    /\ o.name = root /\ o.rank = rank
    /\ o.child = Rendered(class, NoHost, Copied, old)

IsUnder(o, root, rank, class, old) ==
    \E j \in DOMAIN Hosts :
       /\ o.name = Vhost(root, Index(root)[j]) /\ o.rank = rank + j
       /\ o.child = Rendered(class, Hosts[j], Copied, old)

LEMMA TreeIs ==
    ASSUME NEW p, NEW root, NEW rank, NEW class, NEW old
    PROVE  /\ \A o \in Tree(p, root, rank, class, old) :
                 /\ o.shard = p.shard
                 /\ \/ IsRoot(o, root, rank, class, old)
                    \/ IsUnder(o, root, rank, class, old)
           /\ \A j \in DOMAIN Hosts :
                 \E o \in Tree(p, root, rank, class, old) :
                    o.name = Vhost(root, Index(root)[j])
<1> DEFINE first == [name |-> root, rank |-> rank, shard |-> p.shard,
                     child |-> Rendered(class, NoHost, Copied, old)]
           Under(j) == [name |-> Vhost(root, Index(root)[j]),
                        rank |-> rank + j, shard |-> p.shard,
                        child |-> Rendered(class, Hosts[j], Copied, old)]
<1>1. Tree(p, root, rank, class, old) = {first} \cup {Under(j) : j \in DOMAIN Hosts}
  BY Zenon DEF Tree, Index, Copied
<1>2. IsRoot(first, root, rank, class, old) /\ first.shard = p.shard
  BY DEF IsRoot
<1>3. ASSUME NEW j \in DOMAIN Hosts
      PROVE  /\ IsUnder(Under(j), root, rank, class, old)
             /\ Under(j).shard = p.shard
             /\ Under(j).name = Vhost(root, Index(root)[j])
  BY DEF IsUnder
<1> HIDE DEF first, Under
<1> QED
  BY <1>1, <1>2, <1>3

LEMMA TreeTyped ==
    ASSUME Inv, NEW p \in Place, NEW root \in MainRoot \cup TmpRoot,
           Allocations(root) # {}, NEW rank \in Int,
           NEW class \in ShardName \cup {NoShard},
           NEW old \in ShardName \cup {NoShard}
    PROVE  \A o \in Tree(p, root, rank, class, old) :
              Applied(o) /\ o.shard = p.shard
<1> DEFINE at == Index(root)
<1>1. Hosts \in Seq(Host) /\ Copied \in Content
  BY TreesAssumption
  DEF TreesAssumption, Hosts, Content, Copied, Inv, TypeOK, Object
<1>2. root \in Name /\ \A k \in VhostIndex : Vhost(root, k) \in Name
  BY NamesTyped
<1>3. p.shard \in ShardName
  BY RootsTyped
<1>4. \A j \in DOMAIN Hosts :
         /\ at[j] \in VhostIndex
         /\ \/ ~childView[Vhost(root, at[j])].live
            \/ childView[Vhost(root, at[j])].host = Hosts[j]
  BY AllocatedIndex
<1> HIDE DEF at
<1> SUFFICES ASSUME NEW o \in Tree(p, root, rank, class, old)
             PROVE  Applied(o) /\ o.shard = p.shard
  OBVIOUS
<1>5. o.shard = p.shard
  BY TreeIs
<1>6. CASE IsRoot(o, root, rank, class, old)
  <2>1. Fits(o.child)
    BY <1>1, <1>6, RenderedFits DEF IsRoot
  <2>2. Pinned(childView[o.name], o.child)
    BY <1>6 DEF IsRoot, Pinned, Rendered
  <2> QED
    BY <1>2, <1>3, <1>5, <1>6, <2>1, <2>2 DEF Applied, IsRoot
<1>7. CASE IsUnder(o, root, rank, class, old)
  <2>1. PICK j \in DOMAIN Hosts :
           /\ o.name = Vhost(root, at[j]) /\ o.rank = rank + j
           /\ o.child = Rendered(class, Hosts[j], Copied, old)
    BY <1>7 DEF IsUnder, at
  <2>2. Hosts[j] \in Host /\ rank + j \in Int
    BY <1>1
  <2>3. Fits(o.child)
    BY <1>1, <2>1, <2>2, RenderedFits
  <2>4. Pinned(childView[o.name], o.child)
    BY <1>4, <2>1 DEF Pinned, Rendered
  <2> QED
    BY <1>2, <1>3, <1>4, <1>5, <2>1, <2>2, <2>3, <2>4 DEF Applied
<1> QED
  BY <1>5, <1>6, <1>7, TreeIs

LEMMA RankTyped == \A step \in Int : Inv => Rank(step) \in Int
<1> SUFFICES ASSUME NEW step \in Int, Inv PROVE Rank(step) \in Int
  OBVIOUS
<1>1. Hosts \in Seq(Host)
  BY TreesAssumption DEF TreesAssumption, Hosts, Inv, TypeOK, Object
<1>2. Len(Hosts) + 1 \in Int
  BY <1>1
<1> QED
  BY <1>2 DEF Rank

\* The trees of a place, for the conflict c that was found for it.
LEMMA TreesTyped ==
    ASSUME Inv, NEW p \in Place, NEW c \in ShardName \cup {NoShard},
           \A root \in {MainName(p), TmpOf(p.num)} : Allocations(root) # {}
    PROVE  \A o \in MainTree(p, c) \cup TmpTree(p, c) :
              Applied(o) /\ o.shard = p.shard
<1>1. /\ MainName(p) \in MainRoot /\ TmpOf(p.num) \in TmpRoot
      /\ p.shard \in ShardName
  BY RootsTyped
<1>2. MainClass(p, c) \in ShardName \cup {NoShard}
  <2>1. childView[TmpOf(p.num)].old \in ShardName \cup {NoShard}
    BY <1>1, NamesTyped DEF Inv, TypeOK, Child
  <2> QED
    BY <1>1, <2>1 DEF MainClass, OldShard
<1>3. Rank(2 * p.num + 1) \in Int /\ Rank(2 * p.num) \in Int
  <2>1. 2 * p.num + 1 \in Int /\ 2 * p.num \in Int
    BY DEF Place, ShardIndex
  <2> QED
    BY <2>1, RankTyped
<1>4. \A o \in MainTree(p, c) : Applied(o) /\ o.shard = p.shard
  <2> DEFINE root == MainName(p)
             rank == Rank(2 * p.num + 1)
             class == MainClass(p, c)
  <2>1. /\ root \in MainRoot \cup TmpRoot /\ Allocations(root) # {}
        /\ rank \in Int /\ class \in ShardName \cup {NoShard}
    BY <1>1, <1>2, <1>3
  <2>2. MainTree(p, c) = Tree(p, root, rank, class, NoShard)
    BY Zenon DEF MainTree
  <2> HIDE DEF root, rank, class
  <2> QED
    BY <2>1, <2>2, TreeTyped
<1>5. \A o \in TmpTree(p, c) : Applied(o) /\ o.shard = p.shard
  <2> DEFINE root == TmpOf(p.num)
             rank == Rank(2 * p.num)
  <2>1. root \in MainRoot \cup TmpRoot /\ Allocations(root) # {} /\ rank \in Int
    BY <1>1, <1>3
  <2>2. TmpTree(p, c) = Tree(p, root, rank, c, c)
    BY Zenon DEF TmpTree
  <2> HIDE DEF root, rank
  <2> QED
    BY <2>1, <2>2, TreeTyped
<1> QED
  BY <1>4, <1>5

LEMMA ObjectsInTrees ==
    ASSUME NEW conflict
    PROVE  /\ \A o \in Objects(conflict) : \E p \in Placed :
                 \/ o \in MainTree(p, conflict[p])
                 \/ MissingTmp(p, conflict[p]) /\ o \in TmpTree(p, conflict[p])
           /\ \A p \in Placed : MainTree(p, conflict[p]) \subseteq Objects(conflict)
<1> DEFINE main == {MainTree(p, conflict[p]) : p \in Placed}
           tmp == {TmpTree(p, conflict[p])
                     : p \in {q \in Placed : MissingTmp(q, conflict[q])}}
<1>1. Objects(conflict) = UNION (main \cup tmp)
  BY DEF Objects
<1>2. /\ \A tree \in main : \E p \in Placed : tree = MainTree(p, conflict[p])
      /\ \A p \in Placed : MainTree(p, conflict[p]) \in main
  OBVIOUS
<1>3. \A tree \in tmp : \E p \in Placed :
         MissingTmp(p, conflict[p]) /\ tree = TmpTree(p, conflict[p])
  OBVIOUS
<1> HIDE DEF main, tmp
<1> QED
  BY <1>1, <1>2, <1>3

LEMMA ObjectsTyped ==
    ASSUME Inv, maxShards[view.class] # Unknown,
           \A p \in Placed : \A root \in {MainName(p), TmpOf(p.num)} :
              Allocations(root) # {},
           NEW conflict \in [Placed -> ShardName \cup {NoShard}]
    PROVE  \A o \in Objects(conflict) :
              Applied(o) /\ \E p \in Placed : o.shard = p.shard
<1> SUFFICES ASSUME NEW o \in Objects(conflict)
             PROVE  Applied(o) /\ \E p \in Placed : o.shard = p.shard
  OBVIOUS
<1>1. PICK p \in Placed :
        o \in MainTree(p, conflict[p]) \cup TmpTree(p, conflict[p])
  BY ObjectsInTrees
<1>2. p \in Place /\ conflict[p] \in ShardName \cup {NoShard}
  BY PlacedTyped
<1> QED
  BY <1>1, <1>2, TreesTyped

LEMMA ReconcileApplyStep == Inv /\ ReconcileApply => Step
<1> SUFFICES ASSUME Inv, ReconcileApply PROVE Step
  OBVIOUS
<1>1. /\ Applies /\ maxShards[view.class] # Unknown
      /\ \A p \in Placed : \A root \in {MainName(p), TmpOf(p.num)} :
            Allocations(root) # {}
  BY DEF ReconcileApply, Applies
<1>2. PICK objects \in Renderings : ApplyRendered(objects, StatusList(objects))
  BY DEF ReconcileApply
<1>3. \A o \in objects : Applied(o) /\ \E p \in Placed : o.shard = p.shard
  BY <1>1, <1>2, ObjectsTyped DEF Renderings
<1>4. StatusList(objects) \in SUBSET Entries
  BY <1>3 DEF StatusList, Entries, Applied
<1>5. AllListed(objects, StatusList(objects))
  BY <1>3 DEF AllListed, StatusList
<1> QED
  BY <1>1, <1>2, <1>3, <1>4, <1>5, ApplyRenderedStep

LEMMA ReconcileListFailsStep == Inv /\ ReconcileListFails => Step
<1> SUFFICES ASSUME Inv, ReconcileListFails PROVE Step
  OBVIOUS
<1>1. Proceeds /\ Return(WithFinalizer, children, FALSE, NoTimer)
  BY DEF ReconcileListFails, Applies
<1>2. NoTimer \in Int
  BY DEF NoTimer
<1>3. failures' \in 0..MaxFailures
  BY OutageCounted DEF ReconcileListFails
<1> QED
  BY <1>1, <1>2, <1>3, LeavesChildren, ReturnStep
  DEF ReconcileListFails, Inv, TypeOK

----------------------------------------------------------------------------
(* Which children a pass creates, and which host each child serves.         *)

\* An object is the main root of a place; or the tmp root of one, if the cache
\* shows no such child; or it is under a root, with the host of its index.
ObjectIs(o) ==
    \/ o.child.host = NoHost /\ \E p \in Placed : o.name = MainName(p)
    \/ o.child.host = NoHost /\ ~childView[o.name].live
    \/ \E root \in {r \in Root : Allocations(r) # {}} :
       \E j \in DOMAIN Hosts :
          o.name = Vhost(root, Index(root)[j]) /\ o.child.host = Hosts[j]

Allocated ==
    \A p \in Placed : \A root \in {MainName(p), TmpOf(p.num)} :
       Allocations(root) # {}

LEMMA UnderIs ==
    \A o, root, rank, class, old :
       IsUnder(o, root, rank, class, old) /\ root \in Root
       /\ Allocations(root) # {} => ObjectIs(o)
BY DEF IsUnder, ObjectIs, Rendered

LEMMA ObjectsAre ==
    ASSUME Inv, maxShards[view.class] # Unknown, Allocated, NEW conflict
    PROVE  /\ \A o \in Objects(conflict) : ObjectIs(o)
           /\ \A p \in Placed : \A j \in DOMAIN Hosts :
                 \E o \in Objects(conflict) :
                    /\ o.name = Vhost(MainName(p), Index(MainName(p))[j])
                    /\ o.shard = p.shard
<1>1. \A p \in Placed : /\ MainName(p) \in Root /\ TmpOf(p.num) \in Root
                        /\ Allocations(MainName(p)) # {}
                        /\ Allocations(TmpOf(p.num)) # {}
  BY PlacedTyped, RootsTyped DEF Root, Allocated
<1>2. ASSUME NEW p \in Placed, NEW o \in MainTree(p, conflict[p])
      PROVE  ObjectIs(o)
  <2> DEFINE rank == Rank(2 * p.num + 1)
             class == MainClass(p, conflict[p])
  <2>1. o \in Tree(p, MainName(p), rank, class, NoShard)
    BY Zenon DEF MainTree
  <2> HIDE DEF rank, class
  <2>2. CASE IsRoot(o, MainName(p), rank, class, NoShard)
    BY <2>2 DEF IsRoot, ObjectIs, Rendered
  <2>3. CASE IsUnder(o, MainName(p), rank, class, NoShard)
    BY <1>1, <2>3, UnderIs
  <2> QED
    BY <2>1, <2>2, <2>3, TreeIs
<1>3. ASSUME NEW p \in Placed, MissingTmp(p, conflict[p]),
             NEW o \in TmpTree(p, conflict[p])
      PROVE  ObjectIs(o)
  <2> DEFINE rank == Rank(2 * p.num)
             class == conflict[p]
  <2>1. o \in Tree(p, TmpOf(p.num), rank, class, class)
    BY Zenon DEF TmpTree
  <2>2. ~childView[TmpOf(p.num)].live
    BY <1>3 DEF MissingTmp
  <2> HIDE DEF rank, class
  <2>3. CASE IsRoot(o, TmpOf(p.num), rank, class, class)
    BY <2>2, <2>3 DEF IsRoot, ObjectIs, Rendered
  <2>4. CASE IsUnder(o, TmpOf(p.num), rank, class, class)
    BY <1>1, <2>4, UnderIs
  <2> QED
    BY <2>1, <2>3, <2>4, TreeIs
<1>4. \A o \in Objects(conflict) : ObjectIs(o)
  BY <1>2, <1>3, ObjectsInTrees
<1>5. ASSUME NEW p \in Placed, NEW j \in DOMAIN Hosts
      PROVE  \E o \in Objects(conflict) :
                /\ o.name = Vhost(MainName(p), Index(MainName(p))[j])
                /\ o.shard = p.shard
  <2> DEFINE rank == Rank(2 * p.num + 1)
             class == MainClass(p, conflict[p])
  <2>1. MainTree(p, conflict[p]) = Tree(p, MainName(p), rank, class, NoShard)
    BY Zenon DEF MainTree
  <2> HIDE DEF rank, class
  <2>2. PICK o \in MainTree(p, conflict[p]) :
           o.name = Vhost(MainName(p), Index(MainName(p))[j])
    BY <2>1, TreeIs
  <2>3. o.shard = p.shard
    BY <2>1, <2>2, TreeIs
  <2> QED
    BY <2>2, <2>3, ObjectsInTrees
<1> QED
  BY <1>4, <1>5

\* A pass that applies objects, with what is known of them.
AppliesObjects(objects) ==
    /\ \A o \in objects : Applied(o) /\ ObjectIs(o)
    /\ AllListed(objects, StatusList(objects))
    /\ \A p \in Placed : \A j \in DOMAIN Hosts :
          \E o \in objects :
             /\ o.name = Vhost(MainName(p), Index(MainName(p))[j])
             /\ o.shard = p.shard
    /\ ApplyRendered(objects, StatusList(objects))

LEMMA ApplyIs ==
    Inv /\ ReconcileApply =>
       /\ Applies /\ maxShards[view.class] # Unknown /\ Allocated
       /\ \E objects : AppliesObjects(objects)
<1> SUFFICES ASSUME Inv, ReconcileApply
             PROVE  /\ Applies /\ maxShards[view.class] # Unknown /\ Allocated
                    /\ \E objects : AppliesObjects(objects)
  OBVIOUS
<1>1. Applies /\ maxShards[view.class] # Unknown /\ Allocated
  BY DEF ReconcileApply, Applies, Allocated
<1>2. PICK conflict \in [Placed -> ShardName \cup {NoShard}] :
         ApplyRendered(Objects(conflict), StatusList(Objects(conflict)))
  BY <1>1 DEF ReconcileApply, Renderings
<1> DEFINE objects == Objects(conflict)
<1>3. /\ \A o \in objects : Applied(o) /\ \E p \in Placed : o.shard = p.shard
      /\ \A o \in objects : ObjectIs(o)
      /\ \A p \in Placed : \A j \in DOMAIN Hosts :
            \E o \in objects :
               /\ o.name = Vhost(MainName(p), Index(MainName(p))[j])
               /\ o.shard = p.shard
  BY <1>1, ObjectsAre, ObjectsTyped DEF Allocated
<1> HIDE DEF objects
<1>4. AllListed(objects, StatusList(objects))
  BY <1>3 DEF AllListed, StatusList
<1>5. AppliesObjects(objects)
  BY <1>2, <1>3, <1>4 DEF AppliesObjects, objects
<1> QED
  BY <1>1, <1>5

\* A child n is created by a step: it is the only one, and if it serves a host
\* the cache shows no other child under its root that does.
Creates(n) ==
    /\ ~children[n].live /\ children'[n].live
    /\ \A m \in Name \ {n} : children'[m].live => children[m].live
    /\ children'[n].host # NoHost =>
          \E root \in Root, k \in VhostIndex :
             n = Vhost(root, k) /\ ServedAt(root, children'[n].host) = {}

LEMMA ApplyCreates ==
    ASSUME Inv, ReconcileApply, NEW n \in Name,
           ~children[n].live, children'[n].live
    PROVE  Creates(n)
<1>1. PICK objects : AppliesObjects(objects)
  BY ApplyIs
<1> DEFINE listed == StatusList(objects)
<1>2. PICK updated \in SUBSET (Differ(objects) \ Stale(objects)) :
         \E o : /\ Entered(o, Updated(updated))
                /\ \/ children' = Updated(updated)
                   \/ CreatesOne(objects, Updated(updated))
                   \/ DrainsOne(listed, Updated(updated))
  BY <1>1, ApplyIs, ApplyLeaves DEF AppliesObjects
<1> DEFINE cs == Updated(updated)
<1>3. cs \in [Name -> GoodChild] /\ \A m \in Name : cs[m].live => children[m].live
  BY <1>2 DEF Entered
<1>4. \/ children' = cs \/ CreatesOne(objects, cs) \/ DrainsOne(listed, cs)
  BY <1>2
<1> HIDE DEF cs, listed
<1>5. CASE children' = cs
  BY <1>3, <1>5
<1>6. CASE DrainsOne(listed, cs)
  <2>1. PICK d \in Name :
           /\ cs[d].live
           /\ \A m \in Name \ {d} : children'[m] = cs[m]
    BY <1>3, <1>6 DEF DrainsOne
  <2> QED
    BY <1>3, <2>1
<1>7. CASE CreatesOne(objects, cs)
  <2>1. PICK first \in Missing(objects) :
           children' = [cs EXCEPT ![first.name] = first.child]
    BY <1>7 DEF CreatesOne
  <2>2. ObjectIs(first) /\ first.name \in Name /\ ~childView[first.name].live
    BY <1>1 DEF Missing, AppliesObjects, Applied
  <2>3. n = first.name /\ children'[n] = first.child
    BY <1>3, <2>1, <2>2
  <2>4. \A m \in Name \ {n} : children'[m].live => children[m].live
    BY <1>3, <2>1, <2>3
  <2>5. ASSUME first.child.host # NoHost
        PROVE  \E root \in Root, k \in VhostIndex :
                  n = Vhost(root, k) /\ ServedAt(root, first.child.host) = {}
    <3>1. PICK root \in {r \in Root : Allocations(r) # {}} :
          \E j \in DOMAIN Hosts :
             /\ first.name = Vhost(root, Index(root)[j])
             /\ first.child.host = Hosts[j]
      BY <2>2, <2>5 DEF ObjectIs
    <3>2. PICK j \in DOMAIN Hosts :
             /\ first.name = Vhost(root, Index(root)[j])
             /\ first.child.host = Hosts[j]
      BY <3>1
    <3>3. Index(root)[j] \in VhostIndex /\ ServedAt(root, Hosts[j]) = {}
      BY <2>2, <3>2, AllocatedIndex
    <3> QED
      BY <2>3, <3>2, <3>3
  <2> QED
    BY <2>3, <2>4, <2>5 DEF Creates
<1> QED
  BY <1>4, <1>5, <1>6, <1>7

LEMMA EarlyCreatesNone ==
    Inv /\ ReconcileBeforeApply =>
      \A n \in Name : children'[n].live => children[n].live
<1> SUFFICES ASSUME Inv, ReconcileBeforeApply, NEW n \in Name, children'[n].live
             PROVE  children[n].live
  OBVIOUS
<1>1. CASE \/ ReconcileNotFound \/ ReconcileFinalizerRefused
           \/ ReconcileUnknownClass \/ ReconcileRateLimited
           \/ FinalizerUnknownKind
  BY <1>1
  DEF ReconcileNotFound, ReconcileFinalizerRefused, ReconcileUnknownClass,
      ReconcileRateLimited, FinalizerUnknownKind, Return, Write
<1>2. CASE FinalizerWaits
  BY <1>2 DEF FinalizerWaits, Return, Write
<1>3. CASE FinalizerCompletes
  BY <1>3 DEF FinalizerCompletes, Return, Write, NoChild
<1>4. CASE FinalizerFails
  BY <1>4 DEF FinalizerFails, Return, Write, LiveChildren
<1> QED
  BY <1>1, <1>2, <1>3, <1>4 DEF ReconcileBeforeApply

LEMMA OthersLeaveChildren ==
    User \/ SyncObject \/ SyncChildren \/ TimerFires \/ Restart
    \/ ReconcileListFails => children' = children
BY DEF User, UserEdits, UserDeletes, UserRecreates, UserWrites, Write,
       SyncObject, SyncChildren, TimerFires, Restart, ReconcileListFails,
       Return, cluster

LEMMA NextCreates ==
    ASSUME Inv, [Next]_vars, NEW n \in Name, ~children[n].live, children'[n].live
    PROVE  Creates(n)
<1>1. CASE ReconcileBeforeApply
  BY <1>1, EarlyCreatesNone
<1>2. CASE User \/ SyncObject \/ SyncChildren \/ TimerFires \/ Restart
           \/ ReconcileListFails
  BY <1>2, OthersLeaveChildren
<1>3. CASE ReconcileApply
  BY <1>3, ApplyCreates
<1>4. CASE Tick
  BY <1>4 DEF Tick, AllLater, OneSecondLater, Clocked
<1>5. CASE UNCHANGED vars
  BY <1>5 DEF vars, cluster
<1> QED
  BY <1>1, <1>2, <1>3, <1>4, <1>5 DEF Next, Reconcile

----------------------------------------------------------------------------
(* The theorems.                                                            *)

\* Every step but that of the clock keeps the invariant and moves each child
\* along its life, or deletes it in favour of its twin.
LEMMA NextStep == Inv /\ Next => Step \/ Tick
<1> SUFFICES ASSUME Inv, Next PROVE Step \/ Tick
  OBVIOUS
<1>1. CASE ReconcileBeforeApply
  BY <1>1, NotFoundStep, FinalizerRefusedStep, UnknownClassStep,
     RateLimitedStep, UnknownKindStep, FinalizerWaitsStep,
     FinalizerCompletesStep, FinalizerFailsStep
  DEF ReconcileBeforeApply
<1>2. CASE ReconcileListFails \/ ReconcileApply
  BY <1>2, ReconcileApplyStep, ReconcileListFailsStep
<1>3. CASE User \/ SyncObject \/ SyncChildren \/ TimerFires \/ Restart
  BY <1>3, UserStep, SyncStep, TimerFiresStep, RestartStep
<1> QED
  BY <1>1, <1>2, <1>3 DEF Next, Reconcile

LEMMA InvStutters == Inv /\ UNCHANGED vars => Inv'
BY DEF Inv, TypeOK, Clocks, Cached, Guarded, NoOrphans, LiveChildren, vars,
       cluster, caches, operator

THEOREM Invariance == Spec => []Inv
<1>1. Inv /\ [Next]_vars => Inv'
  BY NextStep, TickStep, InvStutters DEF Step
<1> QED
  BY <1>1, InitInv, PTL DEF Spec

\* TypeCorrect: objects, children and caches hold what the API types allow,
\* for any classes, hosts, periods and bounds.
THEOREM TypeCorrect == Spec => []TypeOK
<1>1. Inv => TypeOK
  BY DEF Inv
<1> QED
  BY <1>1, Invariance, PTL

\* NothingOrphaned: however the caches lag, whatever fails and whenever the
\* operator restarts, a child is always under an object with the finalizer.
THEOREM NothingOrphaned == Spec => []NoOrphans
<1>1. Inv => NoOrphans
  BY DEF Inv, Guarded
<1> QED
  BY <1>1, Invariance, PTL

\* A second passes: no child is turned to another host, and none is deleted.
LEMMA TickPins ==
    Inv /\ Tick =>
      \A n \in Name : /\ Pinned(children[n], children'[n])
                      /\ children[n].live => children'[n].live
<1> SUFFICES ASSUME Inv, Tick, NEW n \in Name
             PROVE  /\ Pinned(children[n], children'[n])
                    /\ children[n].live => children'[n].live
  OBVIOUS
<1>1. children[n] \in GoodChild /\ children'[n] = OneSecondLater(children[n])
  BY GoodChildren, TickStep
<1> QED
  BY <1>1, OneSecondLaterGood DEF OneSecondLater, Clocked

\* NeverRehosted: whatever the caches showed when the index of a host was
\* chosen, no child is ever turned from one host to another.
THEOREM NeverRehosted == Spec => HostPinned
<1>1. ASSUME Inv, [Next]_vars
      PROVE  [\A n \in Name :
                 children[n].live /\ children'[n].live
                 => children'[n].host \in {children[n].host, NoHost}]_vars
  <2>1. CASE Step
    BY <2>1 DEF Step, Goes, Moves, Pinned, Twinned, NoChild
  <2>2. CASE Tick
    BY <1>1, <2>2, TickPins DEF Pinned
  <2> QED
    BY <1>1, <2>1, <2>2, NextStep
<1> QED
  BY <1>1, Invariance, PTL DEF Spec, HostPinned

\* NoneCutOff: for any periods and any clusters, and whatever fails, restarts
\* or is edited on the way, a child is deleted only after it has been
\* unregistered for the grace period, or when another one serves its host on
\* its class.
THEOREM NoneCutOff == Spec => DrainedOrTwinned
<1>1. ASSUME Inv, Step, NEW n \in LiveChildren, ~children'[n].live
      PROVE  \/ children[n].marked /\ children[n].age >= Grace
             \/ /\ children[n].host # NoHost
                /\ \E m \in Name \ {n} :
                      /\ children'[m].live
                      /\ children'[m].host = children[n].host
                      /\ children'[m].class = children[n].class
  <2>1. n \in Name /\ children[n].live
    BY <1>1 DEF LiveChildren
  <2>2. CASE Moves(children[n], children'[n])
    BY <1>1, <2>1, <2>2 DEF Moves, Fits
  <2>3. CASE Twinned(n, children')
    BY <2>3 DEF Twinned
  <2> QED
    BY <1>1, <2>1, <2>2, <2>3 DEF Step, Goes
<1>2. ASSUME Inv, Tick, NEW n \in LiveChildren
      PROVE  children'[n].live
  BY <1>2, TickPins DEF LiveChildren
<1>3. ASSUME Inv, [Next]_vars
      PROVE  [\A n \in LiveChildren : ~children'[n].live =>
                \/ children[n].marked /\ children[n].age >= Grace
                \/ /\ children[n].host # NoHost
                   /\ \E m \in Name \ {n} :
                         /\ children'[m].live
                         /\ children'[m].host = children[n].host
                         /\ children'[m].class = children[n].class]_vars
  BY <1>1, <1>2, <1>3, NextStep
<1> QED
  BY <1>3, Invariance, PTL DEF Spec, DrainedOrTwinned

\* The hosts of the children that stay are theirs.
LEMMA NextPins ==
    ASSUME Inv, [Next]_vars, NEW n \in Name
    PROVE  Pinned(children[n], children'[n])
<1>1. CASE Step
  BY <1>1 DEF Step, Goes, Moves, Pinned, Twinned, NoChild
<1>2. CASE Tick
  BY <1>2, TickPins
<1>3. CASE UNCHANGED vars
  BY <1>3 DEF vars, cluster, Pinned
<1> QED
  BY <1>1, <1>2, <1>3, NextStep

\* Two names under two roots are one only if the roots and the indices are.
LEMMA VhostInjective ==
    ASSUME NEW r \in Root, NEW s \in Root, NEW i \in VhostIndex,
           NEW k \in VhostIndex
    PROVE  /\ Vhost(r, i) \in Name
           /\ Vhost(r, i) = Vhost(s, k) => r = s /\ i = k
<1>1. r \in Seq(Int) /\ s \in Seq(Int)
  BY NamesTyped, SuffixAssumption DEF Root, SuffixAssumption
<1>2. i \in Int /\ k \in Int
  BY TreesAssumption DEF TreesAssumption, VhostIndex
<1>3. Vhost(r, i) \in Name
  BY NamesTyped DEF Root
<1> QED
  BY <1>1, <1>2, <1>3, AppendInjective DEF Vhost

\* A step that makes twins creates one of the two, for the cache does not show
\* the other one as it is.
LEMMA NextSeesTwins ==
    ASSUME Inv, [Next]_vars, NEW root \in Root, NEW i \in VhostIndex,
           NEW j \in VhostIndex,
           Twins(children', root, i, j), ~Twins(children, root, i, j)
    PROVE  \E k \in {i, j} : childView[Vhost(root, k)] # children[Vhost(root, k)]
<1> DEFINE c == Vhost(root, i)
           d == Vhost(root, j)
           h == children'[c].host
<1>1. /\ i # j /\ children'[c].live /\ children'[d].live
      /\ children'[d].host = h /\ h # NoHost
  BY DEF Twins
<1>2. c \in Name /\ d \in Name /\ c # d
  BY <1>1, VhostInjective
<1>3. /\ children[c].live => children[c].host = h
      /\ children[d].live => children[d].host = h
  BY <1>1, <1>2, NextPins DEF Pinned
<1>4. ~children[c].live \/ ~children[d].live
  BY <1>1, <1>3 DEF Twins
<1>5. ASSUME NEW x \in VhostIndex, NEW y \in VhostIndex, {x, y} = {i, j}, x # y,
             ~children[Vhost(root, x)].live
      PROVE  childView[Vhost(root, y)] # children[Vhost(root, y)]
  <2>1. /\ Vhost(root, x) \in Name /\ Vhost(root, y) \in Name
        /\ Vhost(root, x) # Vhost(root, y)
    BY <1>5, VhostInjective
  <2>2. /\ children'[Vhost(root, x)].live /\ children'[Vhost(root, x)].host = h
        /\ children'[Vhost(root, y)].live
    BY <1>1, <1>5
  <2>3. Creates(Vhost(root, x))
    BY <1>5, <2>1, <2>2, NextCreates
  <2>4. children[Vhost(root, y)].live
    BY <2>1, <2>2, <2>3 DEF Creates
  <2>5. children[Vhost(root, y)].host = h
    BY <1>3, <1>5, <2>4
  <2>6. PICK r \in Root, k \in VhostIndex :
           Vhost(root, x) = Vhost(r, k) /\ ServedAt(r, h) = {}
    BY <1>1, <2>2, <2>3 DEF Creates
  <2>7. ServedAt(root, h) = {}
    BY <2>6, VhostInjective
  <2>8. y \notin ServedAt(root, h)
    BY <2>7
  <2> QED
    BY <2>4, <2>5, <2>8 DEF ServedAt, Used
<1> QED
  BY <1>1, <1>4, <1>5

\* TwinsSeen: for any classes, hosts and bounds, and whatever fails, restarts or
\* lags, a host gets a second child under a root only in a pass whose cache
\* shows one of the two otherwise than it is.
THEOREM TwinsSeen == Spec => NoTwinSeen
<1>1. ASSUME Inv, [Next]_vars
      PROVE  [children' # children => \A root \in Root, i, j \in VhostIndex :
                 Twins(children', root, i, j) /\ ~Twins(children, root, i, j)
                 => \E k \in {i, j} :
                       childView[Vhost(root, k)] # children[Vhost(root, k)]]_vars
  BY <1>1, NextSeesTwins
<1> QED
  BY <1>1, Invariance, PTL DEF Spec, NoTwinSeen

\* HostsServedOnce: with caches that do not lag no host is ever on two children
\* of a root, for any number of edits, failures and restarts.
THEOREM HostsServedOnce == ~CachesLag => (Spec => []ServedOnce)
<1> SUFFICES ASSUME ~CachesLag PROVE Spec => []ServedOnce
  OBVIOUS
<1>1. Init => ServedOnce
  <2> SUFFICES ASSUME Init PROVE ServedOnce
    OBVIOUS
  <2>1. \A n \in Name : ~children[n].live
    BY DEF Init, NoChild
  <2> QED
    BY <2>1, VhostInjective DEF ServedOnce, Twins
<1>2. Inv /\ ServedOnce /\ [Next]_vars => ServedOnce'
  <2> SUFFICES ASSUME Inv, ServedOnce, [Next]_vars,
                      NEW root \in Root, NEW i \in VhostIndex,
                      NEW j \in VhostIndex, Twins(children', root, i, j)
               PROVE  FALSE
    BY DEF ServedOnce, Twins
  <2>1. childView = children
    BY DEF Inv, Cached
  <2> QED
    BY <2>1, NextSeesTwins DEF ServedOnce
<1> QED
  BY <1>1, <1>2, Invariance, PTL DEF Spec

\* An update turns a child that is no main root to no other host and to none,
\* and takes the mark away.
LEMMA UpdateKeepsHost ==
    ASSUME Inv, NEW objects, \A x \in objects : Applied(x) /\ ObjectIs(x),
           NEW updated \in SUBSET (Differ(objects) \ Stale(objects)),
           NEW n \in LiveChildren, \A p \in Placed : n # MainName(p)
    PROVE  /\ Updated(updated)[n].live
           /\ Updated(updated)[n].host = children[n].host
           /\ \/ ~children[n].marked \/ \E x \in updated : x.name = n
              => ~Updated(updated)[n].marked
<1>1. n \in Name /\ children[n].live
  BY DEF LiveChildren
<1>2. CASE ~\E x \in updated : x.name = n
  BY <1>1, <1>2 DEF Updated
<1>3. CASE \E x \in updated : x.name = n
  <2>1. PICK x \in updated : x.name = n /\ Updated(updated)[n] = x.child
    BY <1>1, <1>3 DEF Updated
  <2>2. x \in objects /\ childView[n] = children[n]
    BY <2>1, UpdatedCurrent
  <2>3. x.child.live /\ ~x.child.marked
    BY <2>2 DEF Applied, Fits
  <2>4. PICK root \in {r \in Root : Allocations(r) # {}} :
        \E j \in DOMAIN Hosts :
           x.name = Vhost(root, Index(root)[j]) /\ x.child.host = Hosts[j]
    BY <1>1, <2>1, <2>2 DEF ObjectIs
  <2>5. x.child.host = childView[n].host
    BY <1>1, <2>1, <2>2, <2>4, AllocatedIndex
  <2> QED
    BY <2>1, <2>2, <2>3, <2>5
<1> QED
  BY <1>2, <1>3

\* A virtual host under a main root is a main root itself only in another kind
\* of class: "app-0" is under "app" and the root of a first shard.
LEMMA VhostNotMain ==
    ASSUME Inv, maxShards[view.class] # Unknown,
           NEW p \in Placed, NEW q \in Placed, NEW k \in VhostIndex
    PROVE  Vhost(MainName(p), k) # MainName(q)
<1>1. k \in Int
  BY TreesAssumption DEF TreesAssumption, VhostIndex
<1>2. CASE Placed = {[num |-> 0, shard |-> <<view.class>>]}
  <2>1. MainName(p) = Bare /\ MainName(q) = Bare
    BY <1>2 DEF MainName
  <2> QED
    BY <2>1 DEF Vhost, Bare
<1>3. CASE \A r \in Placed : \E i : r.shard = <<view.class, i>>
  <2>1. ASSUME NEW r \in Placed
        PROVE  /\ MainName(r) \in Seq(Int) /\ Len(MainName(r)) = 1
    <3>1. r.shard # <<view.class>>
      BY <1>3
    <3>2. MainName(r) = <<r.num>> /\ r.num \in Int
      BY <3>1, PlacedTyped DEF MainName, Main, Place, ShardIndex
    <3> QED
      BY <3>2
  <2>2. Len(Vhost(MainName(p), k)) = Len(MainName(p)) + 1
    <3>1. \A s \in Seq(Int) : Len(Append(s, k)) = Len(s) + 1
      BY <1>1, AppendProperties
    <3> QED
      BY <2>1, <3>1, Zenon DEF Vhost
  <2>3. Len(MainName(p)) = 1 /\ Len(MainName(q)) = 1
    BY <2>1
  <2>4. Len(Vhost(MainName(p), k)) # Len(MainName(q))
    BY <2>2, <2>3
  <2> QED
    BY <2>4, Zenon
<1>4. \/ Placed = {[num |-> 0, shard |-> <<view.class>>]}
      \/ \A r \in Placed : \E i : r.shard = <<view.class, i>>
  BY PlacedIs
<1> QED
  BY <1>2, <1>3, <1>4

LEMMA VhostStays ==
    ASSUME NEW p \in Placed, NEW root \in Root, NEW k \in VhostIndex,
           NEW listed, <<p.shard, Vhost(root, k)>> \in listed
    PROVE  Stays(Vhost(root, k), listed)
<1>1. root \in Seq(Int)
  BY NamesTyped, SuffixAssumption DEF Root, SuffixAssumption
<1>2. k \in Int /\ k # Tmp
  BY TreesAssumption DEF TreesAssumption, VhostIndex, Tmp
<1> DEFINE n == Vhost(root, k)
<1>3. n # Bare /\ n[Len(n)] = k
  BY <1>1, <1>2 DEF Vhost, Bare
<1>4. ~IsTmpRoot(n)
  BY <1>2, <1>3 DEF IsTmpRoot
<1> QED
  BY <1>4 DEF Stays

\* When a child that keeps a host has to be registered, too.
Registers(n) ==
    /\ ~children[n].marked /\ failures' = failures
    /\ ~UnregisteredSince(children[n].host)

LEMMA ApplyKeepsHost ==
    ASSUME Inv, ReconcileApply, NEW n \in LiveChildren,
           Wanted(children[n].host), ~ShownInVain(children[n].host),
           \A p \in Placed : n # MainName(p)
    PROVE  \E m \in Name :
              /\ children'[m].live /\ children'[m].host = children[n].host
              /\ Registers(n) => ~children'[m].marked
<1>1. PICK objects : AppliesObjects(objects)
  BY ApplyIs
<1> DEFINE listed == StatusList(objects)
           h == children[n].host
<1>2. PICK updated \in SUBSET (Differ(objects) \ Stale(objects)) :
      \E o : LET cs == Updated(updated)
             IN  /\ failures' = failures => updated = Differ(objects) \ Stale(objects)
                 /\ Entered(o, cs)
                 /\ \/ children' = cs
                    \/ CreatesOne(objects, cs)
                    \/ AllExist(objects) /\ DrainsOne(listed, cs)
  BY <1>1, ApplyIs, ApplyLeaves DEF AppliesObjects
<1> DEFINE cs == Updated(updated)
<1>3. n \in Name /\ cs \in [Name -> GoodChild]
  BY <1>2 DEF Entered, LiveChildren
<1>4. \A m \in LiveChildren :
         (\A p \in Placed : m # MainName(p))
         => /\ cs[m].live /\ cs[m].host = children[m].host
            /\ \/ ~children[m].marked \/ \E x \in updated : x.name = m
               => ~cs[m].marked
  BY <1>1, UpdateKeepsHost DEF AppliesObjects
<1>5. \/ children' = cs
      \/ CreatesOne(objects, cs)
      \/ AllExist(objects) /\ DrainsOne(listed, cs)
  BY <1>2
<1>6. failures' = failures => updated = Differ(objects) \ Stale(objects)
  BY <1>2
<1> HIDE DEF cs, listed
<1>7. ASSUME children'[n] = cs[n]
      PROVE  /\ children'[n].live /\ children'[n].host = h
             /\ Registers(n) => ~children'[n].marked
  BY <1>3, <1>4, <1>7 DEF Registers
<1>8. CASE children' = cs
  BY <1>3, <1>7, <1>8
<1>9. CASE CreatesOne(objects, cs)
  <2>1. PICK first \in Missing(objects) :
           /\ ~cs[first.name].live
           /\ children' = [cs EXCEPT ![first.name] = first.child]
    BY <1>9 DEF CreatesOne
  <2>2. first.name # n
    BY <1>4, <2>1
  <2>3. children'[n] = cs[n]
    BY <1>3, <2>1, <2>2
  <2> QED
    BY <1>3, <1>7, <2>3
<1>10. CASE AllExist(objects) /\ DrainsOne(listed, cs)
  <2>1. PICK d \in Name :
           /\ ~Stays(d, listed)
           /\ \A m \in Name \ {d} : children'[m] = cs[m]
    BY <1>3, <1>10 DEF DrainsOne
  <2>2. CASE d # n
    BY <1>3, <1>7, <2>1, <2>2
  <2>3. CASE d = n
    <3>1. PICK p \in Placed : TRUE
      BY ApplyIs, PlacedTyped
    <3>2. PICK j \in DOMAIN Hosts : Hosts[j] = h
      BY DEF Wanted
    <3> DEFINE root == MainName(p)
               k == Index(root)[j]
               m == Vhost(root, k)
    <3>3. root \in Root /\ Allocations(root) # {} /\ maxShards[view.class] # Unknown
      BY ApplyIs, PlacedTyped, RootsTyped DEF Root, Allocated
    <3>4. k \in VhostIndex
      BY <3>2, <3>3, AllocatedIndex
    <3>5. PICK x \in objects : x.name = m /\ x.shard = p.shard
      BY <1>1, <3>2 DEF AppliesObjects
    <3>6. childView[m].live
      BY <1>10, <3>5 DEF AllExist, Missing
    <3>7. childView[m].host = h /\ m \in Name
      BY <3>2, <3>3, <3>4, <3>6, AllocatedIndex, VhostInjective
    <3>8. m \in LiveChildren /\ children[m].host = h
      BY <3>6, <3>7 DEF ShownInVain, Serves, LiveChildren
    <3>9. \A q \in Placed : m # MainName(q)
      BY <3>3, <3>4, VhostNotMain
    <3>10. Stays(m, listed)
      <4>1. <<p.shard, m>> \in listed
        BY <3>5 DEF listed, StatusList
      <4> QED
        BY <3>3, <3>4, <4>1, VhostStays
    <3> HIDE DEF m, root, k
    <3>11. cs[m].live /\ cs[m].host = h
      BY <1>4, <3>8, <3>9
    <3>12. Registers(n) => ~cs[m].marked
      <4> SUFFICES ASSUME Registers(n) PROVE ~cs[m].marked
        OBVIOUS
      <4>0. CASE ~children[m].marked
        BY <1>4, <3>8, <3>9, <4>0
      <4> SUFFICES ASSUME children[m].marked PROVE ~cs[m].marked
        BY <4>0
      <4>1. m \notin ChildStale
        BY <3>6, <3>7 DEF Registers, UnregisteredSince
      <4>2. childView[m] = children[m]
        BY <3>7, <4>1, CurrentCopy
      <4>3. x \in Reached(objects)
        BY <1>10, <3>5 DEF AllExist, Reached
      <4>4. CASE childView[m] = x.child
        <5>1. ~children[m].marked
          BY <1>1, <3>5, <4>2, <4>4 DEF AppliesObjects, Applied, Fits
        <5> QED
          BY <1>4, <3>8, <3>9, <5>1
      <4>5. CASE childView[m] # x.child
        <5>1. x \in Differ(objects) \ Stale(objects)
          BY <3>5, <4>1, <4>3, <4>5 DEF Differ, Stale
        <5>2. x \in updated
          BY <1>6, <5>1 DEF Registers
        <5> QED
          BY <1>4, <3>5, <3>8, <3>9, <5>2
      <4> QED
        BY <4>4, <4>5
    <3>13. children'[m] = cs[m]
      BY <2>1, <2>3, <3>7, <3>10
    <3> QED
      BY <3>7, <3>11, <3>12, <3>13
  <2> QED
    BY <2>2, <2>3
<1> QED
  BY <1>5, <1>8, <1>9, <1>10

LEMMA NextKeepsHost ==
    ASSUME Inv, [Next]_vars, NEW n \in LiveChildren,
           Wanted(children[n].host), ~ShownInVain(children[n].host),
           \A p \in Placed : n # MainName(p)
    PROVE  \E m \in Name :
              /\ children'[m].live /\ children'[m].host = children[n].host
              /\ Registers(n) => ~children'[m].marked
<1>1. n \in Name /\ children[n].live /\ view.phase = "live"
  BY DEF LiveChildren, Wanted
<1>2. CASE ReconcileBeforeApply
  <2>1. children' = children
    BY <1>1, <1>2
    DEF ReconcileBeforeApply, ReconcileNotFound, ReconcileFinalizerRefused,
        ReconcileUnknownClass, ReconcileRateLimited, FinalizerUnknownKind,
        FinalizerWaits, FinalizerCompletes, FinalizerFails, Return, Write
  <2> QED
    BY <1>1, <2>1 DEF Registers
<1>3. CASE User \/ SyncObject \/ SyncChildren \/ TimerFires \/ Restart
           \/ ReconcileListFails
  BY <1>1, <1>3, OthersLeaveChildren DEF Registers
<1>4. CASE ReconcileApply
  BY <1>4, ApplyKeepsHost
<1>5. CASE Tick
  BY <1>1, <1>5 DEF Tick, AllLater, OneSecondLater, Clocked, Registers
<1>6. CASE UNCHANGED vars
  BY <1>1, <1>6 DEF vars, cluster, Registers
<1> QED
  BY <1>2, <1>3, <1>4, <1>5, <1>6 DEF Next, Reconcile

\* HostsKept: for any classes, hosts, configurations and bounds, and whatever
\* fails or restarts, a host that is asked for and served stays served, unless
\* it is that of "app-0" on its way to shards, or the cache shows a child on it
\* that serves it no more.
THEOREM HostsKept == Spec => HostKept
<1>1. ASSUME Inv, [Next]_vars
      PROVE  [children' # children => \A n \in LiveChildren :
                 /\ Wanted(children[n].host) /\ ~ShownInVain(children[n].host)
                 /\ \A p \in Placed : n # MainName(p)
                 => \E m \in Name :
                       children'[m].live /\ children'[m].host = children[n].host]_vars
  BY <1>1, NextKeepsHost
<1> QED
  BY <1>1, Invariance, PTL DEF Spec, HostKept

\* HostsStayRegistered: and in a pass in which no call fails it stays served by a
\* child that is registered, unless the host is that of "app-0" on its way to
\* shards, or the cache shows a child on it that was unregistered since.
THEOREM HostsStayRegistered == Spec => HostRegistered
<1>1. ASSUME Inv, NEW h, ~UnregisteredSince(h)
      PROVE  ~ShownInVain(h)
  <2> SUFFICES ASSUME NEW m \in Name, childView[m].live, childView[m].host = h
               PROVE  Serves(m, h)
    BY DEF ShownInVain
  <2>1. CASE m \in ChildStale
    BY <1>1, <2>1 DEF UnregisteredSince
  <2>2. CASE m \notin ChildStale
    <3>1. childView[m] = children[m]
      BY <1>1, <2>2, CurrentCopy
    <3> QED
      BY <3>1 DEF Serves
  <2> QED
    BY <2>1, <2>2
<1>2. ASSUME Inv, [Next]_vars
      PROVE  [children' # children /\ failures' = failures => \A n \in LiveChildren :
                 /\ ~children[n].marked
                 /\ Wanted(children[n].host)
                 /\ ~UnregisteredSince(children[n].host)
                 /\ \A p \in Placed : n # MainName(p)
                 => \E m \in Name :
                       /\ children'[m].live /\ ~children'[m].marked
                       /\ children'[m].host = children[n].host]_vars
  <2>1. ASSUME NEW n \in LiveChildren,
               ~children[n].marked, failures' = failures,
               Wanted(children[n].host), ~UnregisteredSince(children[n].host),
               \A p \in Placed : n # MainName(p)
        PROVE  \E m \in Name :
                  /\ children'[m].live /\ ~children'[m].marked
                  /\ children'[m].host = children[n].host
    BY <1>1, <1>2, <2>1, NextKeepsHost DEF Registers
  <2> QED
    BY <2>1
<1> QED
  BY <1>2, Invariance, PTL DEF Spec, HostRegistered
=============================================================================
