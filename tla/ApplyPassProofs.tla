--------------------------- MODULE ApplyPassProofs ---------------------------
(****************************************************************************)
(* What an apply pass leaves in the cluster, whatever objects its           *)
(* controller rendered, as long as they are children it may have and the    *)
(* list of what stays holds them.                                           *)
(****************************************************************************)
EXTENDS ApplyPass, ShardedReconcilerProofs

Place == [num : ShardIndex, shard : ShardName]

\* An object of applyObjectsToCluster.
Applied(o) ==
    /\ o.name \in Name /\ o.shard \in ShardName /\ o.rank \in Int
    /\ Fits(o.child)
    /\ Pinned(childView[o.name], o.child)

\* Every object is on the list of what stays.
AllListed(objects, listed) ==
    \A o \in objects : \E p \in Placed : <<p.shard, o.name>> \in listed

\* getShardInfo: the one place of a class without shards, or those of the
\* shards of the class, all or the hashed one.
LEMMA PlacedIs ==
    ASSUME Inv, maxShards[view.class] # Unknown
    PROVE  LET max == maxShards[view.class]
           IN  /\ max \in 0..ShardLimit
               /\ \/ /\ max = 0
                     /\ Placed = {[num |-> 0, shard |-> <<view.class>>]}
                  \/ /\ max > 0
                     /\ Placed = {[num |-> i, shard |-> <<view.class, i>>]
                                     : i \in 0 .. max - 1}
                  \/ /\ max > 0
                     /\ Placed = {[num |-> Hash % max,
                                   shard |-> <<view.class, Hash % max>>]}
<1> DEFINE max == maxShards[view.class]
<1>1. view.class \in Class /\ maxShards \in [Class -> Unknown..ShardLimit]
  BY ConfigsAssumption DEF ConfigsAssumption, Inv, TypeOK, Object
<1>2. max \in 0..ShardLimit
  <2>1. max \in Unknown..ShardLimit /\ ShardLimit \in Nat
    BY <1>1, ConfigsAssumption DEF ConfigsAssumption
  <2> QED
    BY <2>1 DEF Unknown
<1>3. view.all \in BOOLEAN
  BY FlagsAssumption DEF FlagsAssumption, Inv, TypeOK, Object
<1>4. max \in Int /\ (max = 0 \/ max > 0)
  BY <1>2
<1>5. CASE max = 0
  BY <1>2, <1>5 DEF Placed
<1>6. CASE max > 0 /\ view.all
  BY <1>2, <1>4, <1>6 DEF Placed
<1>7. CASE max > 0 /\ ~view.all
  BY <1>2, <1>4, <1>7 DEF Placed
<1> QED
  BY <1>3, <1>4, <1>5, <1>6, <1>7

\* There is a place, and getShardInfo stays within the shards of the
\* configuration.
LEMMA PlacedTyped ==
    ASSUME Inv, maxShards[view.class] # Unknown
    PROVE  Placed \subseteq Place /\ Placed # {}
<1> DEFINE max == maxShards[view.class]
<1>1. view.class \in Class
  BY DEF Inv, TypeOK, Object
<1>2. max \in 0..ShardLimit /\ ShardLimit \in Nat \ {0} /\ Hash \in Nat
  BY PlacedIs, ConfigsAssumption DEF ConfigsAssumption
<1>3. 0 \in ShardIndex
  BY <1>2 DEF ShardIndex
<1>4. max > 0 => /\ 0 .. max - 1 \subseteq ShardIndex /\ 0 \in 0 .. max - 1
                 /\ Hash % max \in ShardIndex
  BY <1>2 DEF ShardIndex
<1>5. ASSUME NEW i \in ShardIndex
      PROVE  /\ [num |-> i, shard |-> <<view.class>>] \in Place
             /\ [num |-> i, shard |-> <<view.class, i>>] \in Place
  BY <1>1 DEF Place, ShardName
<1> HIDE DEF Place
<1>6. CASE Placed = {[num |-> 0, shard |-> <<view.class>>]}
  BY <1>3, <1>5, <1>6
<1>7. CASE /\ max > 0
           /\ Placed = {[num |-> i, shard |-> <<view.class, i>>]
                           : i \in 0 .. max - 1}
  BY <1>4, <1>5, <1>7
<1>8. CASE /\ max > 0
           /\ Placed = {[num |-> Hash % max, shard |-> <<view.class, Hash % max>>]}
  BY <1>4, <1>5, <1>8
<1> QED
  BY <1>6, <1>7, <1>8, PlacedIs

\* An object that is updated has a child, and the copy of it is current.
LEMMA UpdatedCurrent ==
    ASSUME Inv, NEW objects, \A o \in objects : Applied(o),
           NEW o \in Differ(objects) \ Stale(objects)
    PROVE  /\ o \in objects /\ children[o.name].live
           /\ childView[o.name] = children[o.name]
<1>1. o \in Reached(objects) /\ o.name \notin ChildStale
  BY DEF Differ, Stale
<1>2. o \in objects /\ o \notin Missing(objects)
  BY <1>1 DEF Reached, Applied
<1>3. childView[o.name].live /\ o.name \in Name
  BY <1>2 DEF Missing, Applied
<1> QED
  BY <1>1, <1>2, <1>3, CurrentCopy

LEMMA UpdatedEnters ==
    ASSUME Inv, NEW objects, \A x \in objects : Applied(x),
           NEW updated \in SUBSET (Differ(objects) \ Stale(objects)),
           NEW o \in Object, o.fin, o.phase # "gone"
    PROVE  Entered(o, Updated(updated))
<1>1. ASSUME NEW n \in Name
      PROVE  \/ Updated(updated)[n] = children[n]
             \/ /\ children[n].live /\ Fits(Updated(updated)[n])
                /\ Pinned(children[n], Updated(updated)[n])
  <2>1. CASE \E x \in updated : x.name = n
    <3>1. PICK x \in updated : x.name = n /\ Updated(updated)[n] = x.child
      BY <2>1 DEF Updated
    <3>2. x \in objects /\ children[n].live /\ childView[n] = children[n]
      BY <3>1, UpdatedCurrent
    <3> QED
      BY <3>1, <3>2 DEF Applied
  <2>2. CASE ~\E x \in updated : x.name = n
    BY <2>2 DEF Updated
  <2> QED
    BY <2>1, <2>2
<1>2. \A n \in Name : Updated(updated)[n] \in GoodChild
  BY <1>1, GoodChildren DEF Fits
<1>3. Updated(updated) \in [Name -> GoodChild]
  BY <1>2 DEF Updated
<1> QED
  BY <1>1, <1>3 DEF Entered

\* Only objects are updated, and those are listed.
LEMMA UpdatedListed ==
    ASSUME NEW objects, NEW listed, AllListed(objects, listed),
           NEW updated \in SUBSET Differ(objects)
    PROVE  Touches(Updated(updated), listed)
<1> SUFFICES ASSUME NEW n \in Name, Updated(updated)[n] # children[n]
             PROVE  \E p \in Placed : <<p.shard, n>> \in listed
  BY DEF Touches
<1>1. PICK x \in updated : x.name = n
  BY DEF Updated
<1> QED
  BY <1>1 DEF Differ, Reached, AllListed

LEMMA CreateFirstStep ==
    ASSUME Inv, NEW o, NEW cs, Entered(o, cs),
           NEW ls \in SUBSET {"waiting", "ready", "managed", "error"},
           NEW objects, \A x \in objects : Applied(x), NEW outage,
           CreateFirst(o, cs, ls, objects, outage),
           childKind' \in BOOLEAN, failures' \in 0..MaxFailures
    PROVE  Step
<1>1. PICK first \in Missing(objects) :
         \/ /\ Return(o, cs, FALSE, NoTimer)
            /\ lists' = (ls \ {"waiting", "ready"}) \cup {"error"}
         \/ /\ ~cs[first.name].live
            /\ \E entry \in SUBSET {<<first.shard, first.name>>} :
               \E w \in StatusWrite(o, o.status \cup entry, entry # {}, outage) :
                 /\ Return([o EXCEPT !.status = w.status],
                           [cs EXCEPT ![first.name] = first.child],
                           FALSE, NoTimer)
                 /\ lists' = (ls \ ({"error"} \cup
                                IF w.ok THEN {"waiting"} ELSE {}))
                             \cup {"ready"}
  BY DEF CreateFirst
<1>2. lists' \subseteq {"waiting", "ready", "managed", "error"}
  BY <1>1
<1>3. CASE Return(o, cs, FALSE, NoTimer)
  BY <1>2, <1>3, EnteredStep
<1>4. ASSUME ~cs[first.name].live,
             NEW entry \in SUBSET {<<first.shard, first.name>>},
             NEW w \in StatusWrite(o, o.status \cup entry, entry # {}, outage),
             Return([o EXCEPT !.status = w.status],
                    [cs EXCEPT ![first.name] = first.child], FALSE, NoTimer)
      PROVE  Step
  <2> DEFINE new == o.status \cup entry
             issued == entry # {}
             after == [cs EXCEPT ![first.name] = first.child]
  <2>1. first.name \in Name /\ first.shard \in ShardName /\ Fits(first.child)
    BY DEF Missing, Applied
  <2>2. new \in SUBSET Entries /\ o \in Object
    BY <2>1 DEF Entered, Object, Entries
  <2>3. w \in StatusWrite(o, new, issued, outage)
    BY <1>4
  <2> HIDE DEF new, issued
  <2>4. Entered([o EXCEPT !.status = w.status], cs)
    BY <2>2, <2>3, StatusTyped, StatusReplaced
  <2>5. ASSUME NEW m \in Name
        PROVE  after[m] \in GoodChild /\ Goes(m, after)
    <3>1. CASE m = first.name
      <4>1. after[m] = first.child
        BY <3>1 DEF Entered
      <4>2. ~children[m].live
        BY <1>4, <2>1, <3>1 DEF Entered, Fits
      <4> QED
        BY <2>1, <4>1, <4>2 DEF Moves, Pinned, Fits, Goes
    <3>2. CASE m # first.name
      <4>1. after[m] = cs[m] /\ Moves(children[m], cs[m])
        BY <3>2, GoodChildren, StandStill DEF Entered, Moves, Fits
      <4> QED
        BY <4>1 DEF Moves, Goes
    <3> QED
      BY <3>1, <3>2
  <2>6. after \in [Name -> GoodChild]
    BY <2>5 DEF Entered
  <2>7. Return([o EXCEPT !.status = w.status], after, FALSE, NoTimer)
    BY <1>4
  <2> HIDE DEF after
  <2>8. Leaves([o EXCEPT !.status = w.status], after)
    BY <2>4, <2>5, <2>6 DEF Leaves, Entered
  <2>9. NoTimer \in Int
    BY DEF NoTimer
  <2> QED
    BY <1>2, <2>7, <2>8, <2>9, ReturnStep
<1> QED
  BY <1>1, <1>3, <1>4

LEMMA AfterUpdatesTyped ==
    \A differ, failed, booked :
       Inv => AfterUpdates(differ, failed, booked)
                \subseteq {"waiting", "ready", "managed", "error"}
BY DEF AfterUpdates, Inv, TypeOK

\* How the updates of a pass leave the cluster: what comes after them starts
\* from there.
LEMMA AfterUpdatesEntered ==
    ASSUME Inv, Proceeds, NEW objects, \A x \in objects : Applied(x),
           NEW failed, Stale(objects) \subseteq failed,
           NEW listed, NEW outage,
           ApplyObjects(objects, failed, listed, outage)
    PROVE  LET cs == Updated(Differ(objects) \ failed)
               Ls(booked) == AfterUpdates(Differ(objects), failed, booked)
                                \cup {"managed"}
           IN  \E o, booked :
                 /\ Entered(o, cs)
                 /\ o.phase = obj.phase
                 /\ \/ CreateFirst(o, cs, Ls(booked), objects, outage)
                    \/ /\ AllExist(objects)
                       /\ DeleteUnlisted(o, cs, Ls(booked), listed, outage)
<1> DEFINE updated == Differ(objects) \ failed
           adds == {<<x.shard, x.name>> : x \in updated} \ view.status
           new == WithFinalizer.status \cup adds
           issued == adds # {}
           cs == Updated(updated)
           Ls(booked) == AfterUpdates(Differ(objects), failed, booked)
                            \cup {"managed"}
<1>1. PICK w, booked :
         LET o == [WithFinalizer EXCEPT !.status = w.status]
         IN  /\ w \in StatusWrite(WithFinalizer, new, issued, outage)
             /\ \/ CreateFirst(o, cs, Ls(booked), objects, outage)
                \/ /\ AllExist(objects)
                   /\ DeleteUnlisted(o, cs, Ls(booked), listed, outage)
  BY DEF ApplyObjects
<1> DEFINE o == [WithFinalizer EXCEPT !.status = w.status]
<1>2. updated \in SUBSET (Differ(objects) \ Stale(objects))
  OBVIOUS
<1>3. new \in SUBSET Entries
  <2>1. \A x \in updated : <<x.shard, x.name>> \in Entries
    BY DEF Applied, Entries, Differ, Reached
  <2>2. WithFinalizer.status \in SUBSET Entries
    BY WithFinalizerGuards DEF Object, Entries
  <2> QED
    BY <2>1, <2>2
<1>4. o.phase = obj.phase
  BY WithFinalizerGuards DEF WithFinalizer, Inv, TypeOK, Object
<1> HIDE DEF new, issued, updated
<1>5. Entered(WithFinalizer, cs)
  BY <1>2, WithFinalizerGuards, UpdatedEnters
<1> HIDE DEF cs
<1>6. Entered(o, cs)
  BY <1>1, <1>3, <1>5, WithFinalizerGuards, StatusTyped, StatusReplaced
<1>7. /\ Entered(o, cs)
      /\ o.phase = obj.phase
      /\ \/ CreateFirst(o, cs, Ls(booked), objects, outage)
         \/ /\ AllExist(objects)
            /\ DeleteUnlisted(o, cs, Ls(booked), listed, outage)
  BY <1>1, <1>4, <1>6
<1> HIDE DEF o, Ls
<1>8. \E o2, b2 :
         /\ Entered(o2, cs)
         /\ o2.phase = obj.phase
         /\ \/ CreateFirst(o2, cs, Ls(b2), objects, outage)
            \/ /\ AllExist(objects)
               /\ DeleteUnlisted(o2, cs, Ls(b2), listed, outage)
  BY <1>7
<1> QED
  BY <1>8 DEF cs, Ls, updated

LEMMA ApplyObjectsStep ==
    ASSUME Inv, Proceeds, NEW objects, \A x \in objects : Applied(x),
           NEW failed, Stale(objects) \subseteq failed,
           NEW listed \in SUBSET Entries, AllListed(objects, listed), NEW outage,
           ApplyObjects(objects, failed, listed, outage),
           childKind' \in BOOLEAN, failures' \in 0..MaxFailures
    PROVE  Step
<1> DEFINE cs == Updated(Differ(objects) \ failed)
<1>1. PICK o, ls :
         /\ Entered(o, cs)
         /\ ls \in SUBSET {"waiting", "ready", "managed", "error"}
         /\ \/ CreateFirst(o, cs, ls, objects, outage)
            \/ DeleteUnlisted(o, cs, ls, listed, outage)
  <2> DEFINE Ls(booked) == AfterUpdates(Differ(objects), failed, booked)
                              \cup {"managed"}
  <2>1. PICK o, booked :
           /\ Entered(o, cs)
           /\ \/ CreateFirst(o, cs, Ls(booked), objects, outage)
              \/ DeleteUnlisted(o, cs, Ls(booked), listed, outage)
    BY AfterUpdatesEntered
  <2>2. Ls(booked) \in SUBSET {"waiting", "ready", "managed", "error"}
    BY AfterUpdatesTyped
  <2> HIDE DEF Ls, cs
  <2> QED
    BY <2>1, <2>2
<1>2. Touches(cs, listed)
  BY UpdatedListed
<1> HIDE DEF cs
<1>3. CASE CreateFirst(o, cs, ls, objects, outage)
  BY <1>1, <1>3, CreateFirstStep
<1>4. CASE DeleteUnlisted(o, cs, ls, listed, outage)
  BY <1>1, <1>2, <1>4, DrainFailsStep, DrainOneStep, DrainDoneStep
  DEF DeleteUnlisted
<1> QED
  BY <1>1, <1>3, <1>4

LEMMA ApplyRenderedStep ==
    ASSUME Inv, Applies, NEW objects, \A x \in objects : Applied(x),
           NEW listed \in SUBSET Entries, AllListed(objects, listed),
           ApplyRendered(objects, listed)
    PROVE  Step
<1>1. Proceeds
  BY DEF Applies
<1>2. PICK outage \in BOOLEAN, failed \in SUBSET Differ(objects) :
         /\ Outage(outage)
         /\ Stale(objects) \subseteq failed
         /\ ApplyObjects(objects, failed, listed, outage)
  BY DEF ApplyRendered
<1>3. failures' \in 0..MaxFailures /\ childKind' \in BOOLEAN
  BY <1>2, OutageCounted DEF ApplyRendered, Inv, TypeOK
<1> QED
  BY <1>1, <1>2, <1>3, ApplyObjectsStep

\* The children a pass leaves, from those its updates left: they are these, or
\* with one created that was not there, or with one that does not stay moved
\* along or deleted.  Without an outage only updates from old copies fail.
CreatesOne(objects, cs) ==
    \E first \in Missing(objects) :
       /\ ~cs[first.name].live
       /\ children' = [cs EXCEPT ![first.name] = first.child]

DrainsOne(listed, cs) ==
    \E n \in Name :
       /\ cs[n].live /\ ~Stays(n, listed)
       /\ \/ /\ HasTwin(n, cs, listed) \/ DeleteNow(cs[n])
             /\ children' = [cs EXCEPT ![n] = NoChild]
          \/ children' = [cs EXCEPT ![n] = Timed(n, cs[n])]

LEMMA ApplyLeaves ==
    ASSUME Inv, Applies, NEW objects, \A x \in objects : Applied(x),
           NEW listed, AllListed(objects, listed),
           ApplyRendered(objects, listed)
    PROVE  \E updated \in SUBSET (Differ(objects) \ Stale(objects)) : \E o :
              LET cs == Updated(updated)
              IN  /\ failures' = failures => updated = Differ(objects) \ Stale(objects)
                  /\ Entered(o, cs) /\ Touches(cs, listed)
                  /\ \/ children' = cs
                     \/ CreatesOne(objects, cs)
                     \/ AllExist(objects) /\ DrainsOne(listed, cs)
<1>1. PICK outage \in BOOLEAN, failed \in SUBSET Differ(objects) :
         /\ Outage(outage)
         /\ Stale(objects) \subseteq failed
         /\ outage \/ failed = Stale(objects)
         /\ ApplyObjects(objects, failed, listed, outage)
  BY DEF ApplyRendered
<1> DEFINE updated == Differ(objects) \ failed
           cs == Updated(updated)
           Ls(booked) == AfterUpdates(Differ(objects), failed, booked)
                            \cup {"managed"}
<1>2. Proceeds
  BY DEF Applies
<1>3. PICK o, booked :
         /\ Entered(o, cs)
         /\ \/ CreateFirst(o, cs, Ls(booked), objects, outage)
            \/ /\ AllExist(objects)
               /\ DeleteUnlisted(o, cs, Ls(booked), listed, outage)
  BY <1>1, <1>2, AfterUpdatesEntered
<1>4. Touches(cs, listed)
  BY UpdatedListed
<1>5. /\ updated \in SUBSET (Differ(objects) \ Stale(objects))
      /\ failures' = failures => updated = Differ(objects) \ Stale(objects)
  <2>1. failures \in Int
    BY DEF Inv, TypeOK
  <2>2. failures' = failures => ~outage
    BY <1>1, <2>1 DEF Outage
  <2> QED
    BY <1>1, <2>2
<1> DEFINE ls == Ls(booked)
<1> HIDE DEF cs, Ls, ls, updated
<1>6. ASSUME CreateFirst(o, cs, ls, objects, outage)
      PROVE  children' = cs \/ CreatesOne(objects, cs)
  <2>1. PICK first \in Missing(objects) :
           \/ Return(o, cs, FALSE, NoTimer)
           \/ /\ ~cs[first.name].live
              /\ \E o2 : Return(o2, [cs EXCEPT ![first.name] = first.child],
                               FALSE, NoTimer)
    BY <1>6 DEF CreateFirst
  <2> QED
    BY <2>1 DEF Return, Write, CreatesOne
<1>7. ASSUME DeleteUnlisted(o, cs, ls, listed, outage)
      PROVE  children' = cs \/ DrainsOne(listed, cs)
  <2>1. CASE DrainFails(o, cs, ls, listed, outage)
    BY <2>1 DEF DrainFails, Return, Write
  <2>2. CASE DrainOne(o, cs, ls, listed, outage)
    <3>1. PICK n \in {m \in Name : cs[m].live /\ ~Stays(m, listed)} :
             \E adds :
                DrainChild(o, cs, ls, n,
                           HasTwin(n, cs, listed) \/ DeleteNow(cs[n]),
                           adds, outage)
      BY <2>2 DEF DrainOne
    <3>2. children' = [cs EXCEPT ![n] =
                         IF HasTwin(n, cs, listed) \/ DeleteNow(cs[n])
                         THEN NoChild ELSE Timed(n, cs[n])]
      BY <3>1 DEF DrainChild, Return, Write
    <3>3. CASE HasTwin(n, cs, listed) \/ DeleteNow(cs[n])
      BY <3>1, <3>2, <3>3 DEF DrainsOne
    <3>4. CASE ~(HasTwin(n, cs, listed) \/ DeleteNow(cs[n]))
      BY <3>1, <3>2, <3>4 DEF DrainsOne
    <3> QED
      BY <3>3, <3>4
  <2>3. CASE DrainDone(o, cs, ls, listed, outage)
    BY <2>3 DEF DrainDone, DrainEnds, Return, Write
  <2> QED
    BY <1>7, <2>1, <2>2, <2>3 DEF DeleteUnlisted
<1>8. \/ children' = cs
      \/ CreatesOne(objects, cs)
      \/ AllExist(objects) /\ DrainsOne(listed, cs)
  <2>1. \/ CreateFirst(o, cs, ls, objects, outage)
        \/ AllExist(objects) /\ DeleteUnlisted(o, cs, ls, listed, outage)
    BY <1>3 DEF ls
  <2> QED
    BY <1>6, <1>7, <2>1
<1> QED
  BY <1>3, <1>4, <1>5, <1>8 DEF cs

----------------------------------------------------------------------------
(* A pass with caches that show the cluster and without a failing call: what *)
(* it books, besides what it leaves of the children.                         *)

Synced == view = obj /\ childView = children /\ ~objStale /\ childLog = <<>>

\* The entries of the status for the children that are updated.
Written(objects) == {<<x.shard, x.name>> : x \in Differ(objects)}

CreatesAndBooks(objects) ==
    \E first \in Missing(objects) :
       /\ \A m \in Missing(objects) : first.rank <= m.rank
       /\ children' = [Updated(Differ(objects)) EXCEPT ![first.name] = first.child]
       /\ obj'.status = obj.status \cup Written(objects)
                           \cup {<<first.shard, first.name>>}

DrainsAndBooks(objects, listed) ==
    /\ AllExist(objects)
    /\ \/ children' = Updated(Differ(objects))
       \/ DrainsOne(listed, Updated(Differ(objects)))
    /\ obj'.status \subseteq obj.status \cup Written(objects) \cup listed
    /\ obj.status \cup Written(objects) \subseteq listed
       => obj.status \subseteq obj'.status

\* What the object asks for, and its phase, are left to its user.
SameRequest ==
    /\ obj'.class = obj.class /\ obj'.template = obj.template
    /\ obj'.all = obj.all /\ obj'.phase = obj.phase

\* Caches that do not lag go with the cluster, and nobody else acts.
Follows == (~CachesLag => Synced') /\ UNCHANGED <<maxShards, edits>>

LEMMA ApplyBooks ==
    ASSUME Inv, Synced, Applies, NEW objects, \A x \in objects : Applied(x),
           NEW listed, ApplyRendered(objects, listed), failures' = failures
    PROVE  /\ SameRequest
           /\ CreatesAndBooks(objects) \/ DrainsAndBooks(objects, listed)
           /\ Follows
<1> DEFINE cs == Updated(Differ(objects))
           adds == Written(objects) \ view.status
           Rebooked(s) == [WithFinalizer EXCEPT !.status = s]
<1>1. ChildStale = {} /\ Stale(objects) = {}
  BY DEF Synced, ChildStale, Stale
<1>2. PICK outage \in BOOLEAN, failed \in SUBSET Differ(objects) :
         /\ Outage(outage)
         /\ outage \/ failed = Stale(objects)
         /\ ApplyObjects(objects, failed, listed, outage)
  BY DEF ApplyRendered
<1>3. outage = FALSE
  BY <1>2 DEF Outage, Inv, TypeOK
<1>4. Differ(objects) \ failed = Differ(objects) /\ failed = {}
  BY <1>1, <1>2, <1>3
<1>5. /\ WithFinalizer \in Object /\ WithFinalizer.status = obj.status
      /\ WithFinalizer.phase = obj.phase /\ WithFinalizer.class = obj.class
      /\ WithFinalizer.template = obj.template /\ WithFinalizer.all = obj.all
  BY DEF WithFinalizer, Inv, TypeOK, Object
<1>6. PICK w \in StatusWrite(WithFinalizer, WithFinalizer.status \cup adds,
                             adds # {}, FALSE) :
         \E ls : \/ CreateFirst(Rebooked(w.status), cs, ls, objects, FALSE)
                 \/ /\ AllExist(objects)
                    /\ DeleteUnlisted(Rebooked(w.status), cs, ls, listed, FALSE)
  BY <1>2, <1>3, <1>4 DEF ApplyObjects, Written
<1>6a. PICK ls :
         \/ CreateFirst(Rebooked(w.status), cs, ls, objects, FALSE)
         \/ /\ AllExist(objects)
            /\ DeleteUnlisted(Rebooked(w.status), cs, ls, listed, FALSE)
  BY <1>6
<1> DEFINE o == Rebooked(w.status)
<1>7. w.status = obj.status \cup Written(objects)
  <2>1. ~objStale /\ (~(adds # {}) => WithFinalizer.status \cup adds = WithFinalizer.status)
    BY DEF Synced
  <2> HIDE DEF adds
  <2>2. w.status = WithFinalizer.status \cup adds
    BY <1>6, <2>1 DEF StatusWrite, Fresh
  <2> QED
    BY <1>5, <2>2 DEF Synced, adds
<1>8. /\ o.status = obj.status \cup Written(objects)
      /\ \A s : LET p == [o EXCEPT !.status = s]
                IN  /\ p.status = s /\ p.phase = obj.phase
                    /\ p.class = obj.class /\ p.template = obj.template
                    /\ p.all = obj.all
  BY <1>5, <1>7 DEF Object
<1> HIDE DEF o, adds
<1>9. CASE CreateFirst(o, cs, ls, objects, FALSE)
  <2>1. PICK first \in Missing(objects) :
           LET entry == {<<first.shard, first.name>>} \ view.status
           IN  /\ \A m \in Missing(objects) : first.rank <= m.rank
               /\ \/ cs[first.name].live
                  \/ \E u \in StatusWrite(o, o.status \cup entry, entry # {}, FALSE) :
                        Return([o EXCEPT !.status = u.status],
                               [cs EXCEPT ![first.name] = first.child],
                               FALSE, NoTimer)
    BY <1>9 DEF CreateFirst
  <2>2. ~cs[first.name].live
    <3>1. ~children[first.name].live /\ first.name \in Name
      BY <2>1 DEF Missing, Synced, Applied
    <3>2. ~\E x \in Differ(objects) : x.name = first.name
      BY <1>1, <3>1, UpdatedCurrent
    <3> QED
      BY <3>1, <3>2 DEF Updated
  <2> DEFINE entry == {<<first.shard, first.name>>} \ view.status
  <2>3. PICK u \in StatusWrite(o, o.status \cup entry, entry # {}, FALSE) :
           Return([o EXCEPT !.status = u.status],
                  [cs EXCEPT ![first.name] = first.child], FALSE, NoTimer)
    BY <2>1, <2>2
  <2>4. u.status = o.status \cup entry
    <3>1. ~objStale /\ (~(entry # {}) => o.status \cup entry = o.status)
      BY DEF Synced
    <3> HIDE DEF entry
    <3> QED
      BY <2>3, <3>1 DEF StatusWrite, Fresh
  <2>5. u.status = obj.status \cup Written(objects) \cup {<<first.shard, first.name>>}
    BY <1>8, <2>4 DEF Synced
  <2>6. /\ obj' = [o EXCEPT !.status = u.status]
        /\ children' = [cs EXCEPT ![first.name] = first.child]
    BY <2>3 DEF Return, Write
  <2>7. SameRequest /\ obj'.status = u.status
    BY <1>8, <2>6 DEF SameRequest
  <2>8. Follows
    BY <2>3 DEF Return, Write, Synced, Follows
  <2> QED
    BY <2>1, <2>5, <2>6, <2>7, <2>8 DEF CreatesAndBooks
<1>10. CASE AllExist(objects) /\ DrainOne(o, cs, ls, listed, FALSE)
  <2>1. PICK n \in {m \in Name : cs[m].live /\ ~Stays(m, listed)},
             booked \in SUBSET listed :
           DrainChild(o, cs, ls, n, HasTwin(n, cs, listed) \/ DeleteNow(cs[n]),
                      booked \ view.status, FALSE)
    BY <1>10 DEF DrainOne
  <2> DEFINE more == booked \ view.status
             after == [cs EXCEPT ![n] =
                         IF HasTwin(n, cs, listed) \/ DeleteNow(cs[n])
                         THEN NoChild ELSE Timed(n, cs[n])]
  <2>2. PICK u \in StatusWrite(o, o.status \cup more, more # {}, FALSE) :
           /\ obj' = [o EXCEPT !.status = u.status] /\ children' = after
           /\ Follows
    BY <2>1 DEF DrainChild, Return, Write, Synced, Follows
  <2>3. u.status = o.status \cup more
    <3>1. ~objStale /\ (~(more # {}) => o.status \cup more = o.status)
      BY DEF Synced
    <3> HIDE DEF more
    <3> QED
      BY <2>2, <3>1 DEF StatusWrite, Fresh
  <2>4. SameRequest /\ obj'.status = o.status \cup more
    BY <1>8, <2>2, <2>3 DEF SameRequest
  <2>5. DrainsOne(listed, cs)
    <3>1. CASE HasTwin(n, cs, listed) \/ DeleteNow(cs[n])
      BY <2>1, <2>2, <3>1 DEF DrainsOne
    <3>2. CASE ~(HasTwin(n, cs, listed) \/ DeleteNow(cs[n]))
      BY <2>1, <2>2, <3>2 DEF DrainsOne
    <3> QED
      BY <3>1, <3>2
  <2> QED
    BY <1>8, <1>10, <2>2, <2>4, <2>5 DEF DrainsAndBooks
<1>11. CASE AllExist(objects) /\ DrainDone(o, cs, ls, listed, FALSE)
  <2> DEFINE kept == {n \in Name : cs[n].live}
             more == {e \in listed : e[2] \in kept} \ view.status
             known == view.status \cup more
  <2>1. PICK names \in Forgotten(known, listed) :
           DrainEnds(o, cs, ls, {e \in o.status \cup more : e[2] \notin names},
                     more \cup (known \ listed) # {}, FALSE)
    BY <1>11 DEF DrainDone
  <2> DEFINE new == {e \in o.status \cup more : e[2] \notin names}
  <2>2. known \subseteq listed => new = o.status \cup more
    <3>1. names \subseteq {e[2] : e \in known \ listed}
      BY <2>1 DEF Forgotten
    <3> HIDE DEF known, more
    <3> QED
      BY <3>1
  <2>3. ~(more \cup (known \ listed) # {}) => new = o.status
    BY <2>2
  <2>4. PICK u \in StatusWrite(o, new, more \cup (known \ listed) # {}, FALSE) :
           /\ obj' = [o EXCEPT !.status = u.status] /\ children' = cs
           /\ Follows
    BY <2>1 DEF DrainEnds, Return, Write, Synced, Follows
  <2>5. u.status = new
    <3>1. ~objStale
      BY DEF Synced
    <3> HIDE DEF new, more, known
    <3> QED
      BY <2>3, <2>4, <3>1 DEF StatusWrite, Fresh
  <2>6. SameRequest /\ obj'.status = new
    BY <1>8, <2>4, <2>5 DEF SameRequest
  <2>7. obj.status \cup Written(objects) \subseteq listed
        => obj.status \subseteq obj'.status
    BY <1>8, <2>2, <2>6 DEF Synced
  <2> QED
    BY <1>8, <1>11, <2>4, <2>6, <2>7 DEF DrainsAndBooks
<1> QED
  BY <1>6a, <1>9, <1>10, <1>11 DEF o, DeleteUnlisted, DrainFails
=============================================================================
