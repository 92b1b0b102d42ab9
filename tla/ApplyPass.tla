------------------------------ MODULE ApplyPass ------------------------------
(****************************************************************************)
(* The pass of Reconcile that renders the children of an object and applies *)
(* them: what src/internal/controller/reconciler.go does for Ingresses and  *)
(* HTTPProxies alike (CheckReshardingConflict, checkTmpObjAnnotations,      *)
(* applyObjectsToCluster, createObject, updateObject).  What a controller   *)
(* renders are objects: records of a name, a rank (objects are applied in   *)
(* the order of their ranks), the shard the name is booked under and the    *)
(* child the cluster should have.                                           *)
(****************************************************************************)
EXTENDS ShardedReconciler

\* The children of an object "app" on a shard of number i: the main child is
\* "app-i", or "app" on a class without shards; the tmp child "app-i-tmp"
\* holds the old shard while the main child moves to another one.
Main(num) == <<num>>
TmpOf(num) == <<num, Tmp>>
MainName(p) == IF p.shard = <<view.class>> THEN Bare ELSE Main(p.num)

----------------------------------------------------------------------------
(* The old shard.                                                           *)

\* CheckReshardingConflict: any shard under which the status has the name,
\* unless it has it under this shard.
ConflictsOf(shard, name) ==
    LET booked == {e[1] : e \in {x \in view.status : x[2] = name}}
    IN  IF booked = {} \/ shard \in booked THEN {NoShard} ELSE booked

\* checkTmpObjAnnotations: the main child stays on the old shard until a
\* termination period after the tmp child got its deadline.
HoldsOldShard(p) ==
    LET tmp == childView[TmpOf(p.num)]
    IN  /\ tmp.live
        /\ tmp.old # NoShard
        /\ ~Elapsed(tmp, 2 * TerminationPeriod)

\* The old shard of the main child, with the conflict found for p.
OldShard(p, conflict) ==
    IF HoldsOldShard(p) THEN childView[TmpOf(p.num)].old ELSE conflict

MissingTmp(p, conflict) ==
    conflict # NoShard /\ ~childView[TmpOf(p.num)].live

MainClass(p, conflict) ==
    IF HoldsOldShard(p) \/ MissingTmp(p, conflict)
    THEN OldShard(p, conflict) ELSE p.shard

----------------------------------------------------------------------------
(* applyObjectsToCluster                                                    *)

Missing(objects) == {o \in objects : ~childView[o.name].live}

\* Objects applied before the first one that has to be created.
Reached(objects) ==
    {o \in objects : \A m \in Missing(objects) : o.rank < m.rank}

Differ(objects) == {o \in Reached(objects) : childView[o.name] # o.child}

\* An Update from a stale copy of the child is a conflict.
Stale(objects) == {o \in Differ(objects) : o.name \in ChildStale}

\* The children after the updates of some objects.
Updated(updated) ==
    [n \in Name |-> IF \E o \in updated : o.name = n
                    THEN (CHOOSE o \in updated : o.name = n).child
                    ELSE children[n]]

\* The lists after the updates: the last one decides between ready and error,
\* and the key stops waiting unless every one of them was written but not
\* booked in the status.
AfterUpdates(differ, failed, booked) ==
    IF differ = {} THEN lists
    ELSE LET last == CHOOSE o \in differ : \A x \in differ : x.rank <= o.rank
         IN  (lists \ ({"ready", "error"} \cup
                IF booked \/ failed # {} THEN {"waiting"} ELSE {}))
             \cup (IF last \in failed THEN {"error"} ELSE {"ready"})

\* createObject, for the first missing object; its error is not returned, so
\* nothing but an event brings the key back.
CreateFirst(o, cs, ls, objects, outage) ==
    \E first \in Missing(objects) :
       LET entry == {<<first.shard, first.name>>} \ view.status
       IN  /\ \A m \in Missing(objects) : first.rank <= m.rank
           /\ \/ /\ outage \/ cs[first.name].live
                 /\ Return(o, cs, FALSE, NoTimer)
                 /\ lists' = (ls \ {"waiting", "ready"}) \cup {"error"}
              \/ /\ ~cs[first.name].live
                 /\ \E w \in StatusWrite(o, o.status \cup entry, entry # {},
                                         outage) :
                      /\ Return([o EXCEPT !.status = w.status],
                                [cs EXCEPT ![first.name] = first.child],
                                FALSE, NoTimer)
                      /\ lists' = (ls \ ({"error"} \cup
                                     IF w.ok THEN {"waiting"} ELSE {}))
                                  \cup {"ready"}

\* Mutant of AllExist: what is not listed is drained before all is created.
ExistOrNot(objects) == TRUE

\* A pass that creates an object ends with it, before the drain.
AllExist(objects) == Missing(objects) = {}

\* deleteUnlistedObjects
DeleteUnlisted(o, cs, ls, listed, outage) ==
    \/ DrainFails(o, cs, ls, listed, outage)
    \/ DrainOne(o, cs, ls, listed, outage)
    \/ DrainDone(o, cs, ls, listed, outage)

\* A pass over the objects, when the updates of some have failed.  An update
\* that fails is not retried and does not stop the pass.
ApplyObjects(objects, failed, listed, outage) ==
    LET updated == Differ(objects) \ failed
        adds == {<<o.shard, o.name>> : o \in updated} \ view.status
    IN  \E w \in StatusWrite(WithFinalizer, WithFinalizer.status \cup adds,
                             adds # {}, outage) :
        LET o == [WithFinalizer EXCEPT !.status = w.status]
            booked == \/ w.ok
                      \/ \E x \in updated : <<x.shard, x.name>>
                            \in view.status \cup w.status
            cs == Updated(updated)
            ls == AfterUpdates(Differ(objects), failed, booked)
                     \cup {"managed"}
        IN  \/ CreateFirst(o, cs, ls, objects, outage)
            \/ /\ AllExist(objects)
               /\ DeleteUnlisted(o, cs, ls, listed, outage)

----------------------------------------------------------------------------

\* A pass gets as far as rendering.
Applies ==
    /\ Proceeds
    /\ maxShards[view.class] # Unknown
    /\ "waiting" \in lists

\* The children could be rendered; the Gets on the way make their kind known.
ApplyRendered(objects, listed) ==
    /\ \E outage \in BOOLEAN :
          /\ Outage(outage)
          /\ \E failed \in SUBSET Differ(objects) :
                /\ Stale(objects) \subseteq failed
                /\ outage \/ failed = Stale(objects)
                /\ ApplyObjects(objects, failed, listed, outage)
    /\ childKind' = (childKind \/
          \E n \in {TmpOf(p.num) : p \in Placed}
                      \cup {o.name : o \in Reached(objects)} :
             childView[n].live)
=============================================================================
