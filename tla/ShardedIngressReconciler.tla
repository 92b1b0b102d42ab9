---------------------- MODULE ShardedIngressReconciler ----------------------
(****************************************************************************)
(* The ShardedIngress controller: src/internal/controller/                  *)
(* ingress_reconciler.go on top of ApplyPass.  The children of an object    *)
(* "app" are Ingresses: one main child for each shard the object is placed  *)
(* on, and a tmp child while it moves.                                      *)
(****************************************************************************)
EXTENDS ApplyPass

IngressName == {Bare} \cup {Main(i) : i \in ShardIndex}
                      \cup {TmpOf(i) : i \in ShardIndex}

ASSUME NamesAssumption == Name = IngressName /\ Host = {}

----------------------------------------------------------------------------
(* NewIngressFromShardedIngress, for the cached object and children.        *)

\* Mutant of Conflicts: asked about the bare name.
ConflictsBare(p) == ConflictsOf(p.shard, Bare)

\* CheckReshardingConflict is asked about "app-<num>" on every class.
Conflicts(p) == ConflictsOf(p.shard, Main(p.num))

\* The objects in the order they are applied: by number, tmp before main.
Objects(conflict) ==
    LET content == <<view.template, view.all>>
    IN  {[name |-> MainName(p), rank |-> 2 * p.num + 1, shard |-> p.shard,
          child |-> Rendered(MainClass(p, conflict[p]), NoHost, content,
                            NoShard)]
            : p \in Placed}
        \cup
        {[name |-> TmpOf(p.num), rank |-> 2 * p.num, shard |-> p.shard,
          child |-> Rendered(conflict[p], NoHost, content, conflict[p])]
            : p \in {q \in Placed : MissingTmp(q, conflict[q])}}

\* Mutant of StatusList: the main child is listed under the old shard.
StatusListOld(conflict) ==
    {<<IF OldShard(p, conflict[p]) # NoShard THEN OldShard(p, conflict[p])
       ELSE p.shard, MainName(p)>> : p \in Placed}
    \cup {<<p.shard, TmpOf(p.num)>> :
            p \in {q \in Placed : OldShard(q, conflict[q]) # NoShard}}

\* statusList of applyObjectsToCluster: what deleteUnlistedObjects keeps.
StatusList(conflict) ==
    {<<p.shard, MainName(p)>> : p \in Placed}
    \cup {<<p.shard, TmpOf(p.num)>> :
            p \in {q \in Placed : OldShard(q, conflict[q]) # NoShard}}

----------------------------------------------------------------------------

ReconcileApply ==
    /\ Applies
    /\ \E conflict \in [Placed -> ShardName \cup {NoShard}] :
          /\ \A p \in Placed : conflict[p] \in Conflicts(p)
          /\ ApplyRendered(Objects(conflict), StatusList(conflict))

----------------------------------------------------------------------------

Reconcile == ReconcileBeforeApply \/ ReconcileApply

Next ==
    \/ Reconcile
    \/ User
    \/ SyncObject
    \/ SyncChildren
    \/ TimerFires
    \/ Tick
    \/ Restart

Spec == Init /\ [][Next]_vars

\* The worker takes the keys of the queue, informers deliver, timers fire and
\* time passes; users and restarts are left to themselves.
Fairness ==
    /\ WF_vars(Reconcile)
    /\ WF_vars(SyncObject)
    /\ WF_vars(SyncChildren)
    /\ WF_vars(TimerFires)
    /\ WF_vars(Tick)

FairSpec == Spec /\ Fairness

----------------------------------------------------------------------------

\* MoveCovered: the main child leaves a shard for the one its object asks for
\* only while another child serves the shard it leaves, and that child is still
\* there after the pass.  It rests on the status: the conflict that
\* NewIngressFromShardedIngress looks for is an entry that earlier passes
\* booked and no pass has dropped too early.  One case is excepted: the cover is
\* a tmp child whose deadline is already over, for a pass that comes that late
\* deletes it with the move (checkTmpObjAnnotations before handleDeletionTiming).
Covers(m, n) ==
    /\ children[m].live /\ children[m].class = children[n].class
    /\ \/ children'[m].live /\ children'[m].class = children[n].class
       \/ DeleteNow(children[m])

MoveCovered ==
    [][\A n \in LiveChildren :
          /\ children'[n].live
          /\ children'[n].class # children[n].class
          /\ \E p \in Placed : children'[n].class = p.shard
          => \E m \in Name \ {n} : Covers(m, n)]_vars

\* WantedNotDrained: no pass puts a deadline on a child that the object, as
\* the pass sees it, asks for (statusList of applyObjectsToCluster against
\* deleteUnlistedObjects): it would be wiped by the next pass and set again.
WantedNotDrained ==
    [][view.phase = "live" /\ maxShards[view.class] # Unknown =>
         \A p \in Placed :
            children'[MainName(p)].due # NoDue
            => children[MainName(p)].due # NoDue]_vars

\* Converges: once users and restarts are quiet, the children are those the
\* template and the configuration ask for, none is on its way out, and the
\* status lists exactly them; of a deleted object nothing is left, if the kind
\* of its children was known.  One end is excepted: an object whose requeue was
\* lost (Stranded) stays as it is until an event.
Settled ==
    \/ obj.phase = "gone" /\ LiveChildren = {}
    \/ /\ obj.phase = "live" /\ ~objStale
       /\ LiveChildren = {MainName(p) : p \in Placed}
       /\ obj.status = {<<p.shard, MainName(p)>> : p \in Placed}
       /\ \A p \in Placed :
             children[MainName(p)] =
                Rendered(p.shard, NoHost, <<obj.template, obj.all>>, NoShard)

Converges ==
    <>[](Settled \/ Stranded \/ (obj.phase = "deleting" /\ ~childKind))

\* DeletionCompletes: a deleted object goes, with its children.
DeletionCompletes == obj.phase = "deleting" ~> obj.phase = "gone"
=============================================================================
