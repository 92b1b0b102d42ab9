----------------------------- MODULE ServedProofs -----------------------------
(****************************************************************************)
(* Why the object of a ShardedIngress stays served, for every value of the  *)
(* constants.  A pass trusts its cache: it drains one child because another *)
(* one looks as it should.  The invariant says how far that trust goes: a   *)
(* child that some state the cache may still show has registered and        *)
(* without a deadline cannot have been unregistered since, for what has     *)
(* gone of its deadline is no more than the cache is behind.                *)
(****************************************************************************)
EXTENDS ShardedIngressProofs

Fresh1(c) == c.live /\ ~c.marked /\ c.due = NoDue

\* The caches are never as far behind as a deadline is away.
Quick == LagLimit < TerminationPeriod /\ LagLimit < DeletionTerminationPeriod

Prompt ==
    /\ lag \in Nat
    /\ lag < TerminationPeriod /\ lag < DeletionTerminationPeriod

\* A child that got its deadline, if any, since the caches fell behind: no
\* drain unregisters it before they have caught up.
Lively(c) ==
    /\ c.live /\ ~c.marked
    /\ c.due = NoDue \/ c.due + lag >= 2 * TerminationPeriod

\* A child the finalizer unregistered since, and does not delete before.
Late(c) == c.live /\ c.marked /\ c.due + lag >= DeletionTerminationPeriod

Holds(n) == Lively(children[n]) \/ (obj.phase # "live" /\ Late(children[n]))

\* The states of the cache, now and until it has caught up.
Shown(n) ==
    {childView[n]} \cup {childLog[i][n] : i \in DOMAIN childLog}

Trusted == \A n \in Name : (\E c \in Shown(n) : Fresh1(c)) => Holds(n)

\* An object that a pass does not see alive, and that is, has no finalizer yet.
Renewed ==
    /\ obj.phase = "gone" => ~obj.fin
    /\ view.phase # "live" /\ obj.phase = "live" => ~obj.fin

TInv == Quick /\ Inv /\ Trusted /\ Renewed

LEMMA LagIs == TInv => Prompt
BY FlagsAssumption, PeriodsAssumption
DEF FlagsAssumption, PeriodsAssumption, TInv, Inv, TypeOK, Quick, Prompt

----------------------------------------------------------------------------
(* One child.                                                               *)

\* What the passes of a live object do to a child, and those of the finalizer.
Lasts(c, d) ==
    /\ Lively(c) => Lively(d)
    /\ Late(c) => Lively(d) \/ Late(d)

Outlives(c, d) == Lively(c) \/ Late(c) => Lively(d) \/ Late(d)

LEMMA LastsItself == \A c : Lasts(c, c)
BY DEF Lasts

LEMMA FreshLively == \A c : Fresh1(c) => Lively(c)
BY DEF Fresh1, Lively

LEMMA FitsLasts == \A c, d : Fits(d) => Lasts(c, d) /\ Lively(d)
BY DEF Fits, Lasts, Lively

LEMMA NotDeletedNow ==
    Prompt => \A c \in GoodChild : Lively(c) \/ Late(c) => ~DeleteNow(c)
BY PeriodsAssumption
DEF PeriodsAssumption, Prompt, Lively, Late, DeleteNow, Elapsed, GoodChild, Child

LEMMA TimedLasts ==
    Prompt => \A n : \A c \in GoodChild : c.live => Lasts(c, Timed(n, c))
<1> SUFFICES ASSUME Prompt, NEW n, NEW c \in GoodChild, c.live
             PROVE  Lasts(c, Timed(n, c))
  OBVIOUS
<1>0. TerminationPeriod \in Nat \ {0}
  BY PeriodsAssumption DEF PeriodsAssumption
<1>1. c.due \in Int /\ (c.marked => c.due # NoDue)
  BY DEF GoodChild, Child, OnClock, NoDue
<1>2. CASE c.due = NoDue
  <2>1. Timed(n, c) = Clocked(c, DelTime(n), c.marked, c.age)
    BY <1>2 DEF Timed
  <2>2. DelTime(n) \in Int /\ DelTime(n) >= 2 * TerminationPeriod
    BY <1>0 DEF DelTime
  <2>3. Timed(n, c).due = DelTime(n) /\ Timed(n, c).live /\ ~c.marked
        /\ Timed(n, c).marked = c.marked
    BY <1>1, <1>2, <2>1 DEF Clocked
  <2>4. Lively(Timed(n, c))
    BY <1>0, <2>2, <2>3 DEF Lively, Prompt
  <2> QED
    BY <2>3, <2>4 DEF Lasts, Late
<1>3. CASE c.due # NoDue /\ ~c.marked /\ Elapsed(c, TerminationPeriod)
  BY <1>0, <1>1, <1>3 DEF Lasts, Lively, Late, Elapsed, Prompt
<1>4. CASE ~(\/ c.due = NoDue
             \/ c.due # NoDue /\ ~c.marked /\ Elapsed(c, TerminationPeriod))
  <2>1. Timed(n, c) = c
    BY <1>4 DEF Timed
  <2> QED
    BY <2>1, LastsItself
<1> QED
  BY <1>2, <1>3, <1>4

LEMMA FinalizedOutlives ==
    Prompt => \A c \in GoodChild : Outlives(c, Finalized(c))
<1> SUFFICES ASSUME Prompt, NEW c \in GoodChild, Lively(c) \/ Late(c)
             PROVE  Late(Finalized(c))
  BY DEF Outlives
<1>1. DeletionTerminationPeriod \in Nat \ {0}
  BY PeriodsAssumption DEF PeriodsAssumption
<1>2. c.marked => c.due # NoDue
  BY DEF GoodChild, Child, OnClock, NoDue
<1>3. CASE Lively(c)
  <2>1. Finalized(c) = Unregistered(c, DeletionTerminationPeriod)
    BY <1>3 DEF Finalized, Lively
  <2> QED
    BY <1>1, <1>3, <2>1 DEF Lively, Late, Unregistered, Clocked, Prompt
<1>4. CASE Late(c)
  <2>1. Finalized(c) = c
    BY <1>2, <1>4, NotDeletedNow DEF Finalized, Late
  <2> QED
    BY <1>4, <2>1
<1> QED
  BY <1>3, <1>4

----------------------------------------------------------------------------
(* The cluster, the caches and the invariant.                               *)

LEMMA WriteTrusted ==
    ASSUME TInv, Inv', NEW o, NEW cs, Write(o, cs),
           \A n \in Name :
              Holds(n) => Lively(cs[n]) \/ (o.phase # "live" /\ Late(cs[n]))
    PROVE  Trusted'
<1>1. obj' = o /\ children' = cs /\ lag' = lag
  BY DEF Write
<1>2. ASSUME NEW n \in Name, NEW c \in Shown(n)'
      PROVE  c \in Shown(n) \cup {cs[n]}
  <2>1. childView' = childView \/ childView' = cs
    BY DEF Write
  <2>2. CASE childLog' = childLog
    BY <1>2, <2>1, <2>2 DEF Shown
  <2>3. CASE childLog' = Append(childLog, cs)
    <3>1. childLog \in Seq([Name -> Child])
      BY DEF TInv, Inv, TypeOK
    <3>2. \A i \in DOMAIN childLog' :
             childLog'[i] = cs \/ (i \in DOMAIN childLog /\ childLog'[i] = childLog[i])
      BY <2>3, <3>1
    <3> QED
      BY <1>2, <2>1, <3>2 DEF Shown
  <2> QED
    BY <2>2, <2>3 DEF Write
<1>3. ASSUME NEW n \in Name, NEW c \in Shown(n)', Fresh1(c)
      PROVE  Holds(n)'
  <2>1. CASE c \in Shown(n)
    BY <1>1, <1>3, <2>1 DEF TInv, Trusted, Holds, Lively, Late
  <2>2. CASE c = cs[n]
    BY <1>1, <1>3, <2>2 DEF Holds, Fresh1, Lively
  <2> QED
    BY <1>2, <1>3, <2>1, <2>2
<1> QED
  BY <1>3 DEF Trusted

LEMMA WriteRenewed ==
    ASSUME Renewed, NEW o, NEW cs, Write(o, cs),
           o.phase = "gone" => ~o.fin,
           view.phase # "live" /\ o.phase = "live" => ~o.fin
    PROVE  Renewed'
BY DEF Renewed, Write

\* A pass over an object that it sees alive.
LEMMA LivePass ==
    ASSUME TInv, Inv', NEW o, NEW cs, Write(o, cs),
           view.phase = "live", o.phase = obj.phase, o.phase # "gone",
           \A n \in Name : Lasts(children[n], cs[n])
    PROVE  TInv'
<1>1. \A n \in Name :
         Holds(n) => Lively(cs[n]) \/ (o.phase # "live" /\ Late(cs[n]))
  BY DEF Holds, Lasts
<1> QED
  BY <1>1, WriteTrusted, WriteRenewed DEF TInv

\* A write that leaves the children alone.
LEMMA QuietWrite ==
    ASSUME TInv, Inv', NEW o, Write(o, children),
           obj.phase # "live" => o.phase # "live" \/ \A n \in Name : ~children[n].live,
           o.phase = "gone" => ~o.fin,
           view.phase # "live" /\ o.phase = "live" => ~o.fin
    PROVE  TInv'
<1>1. \A n \in Name :
         Holds(n) => Lively(children[n]) \/ (o.phase # "live" /\ Late(children[n]))
  BY DEF Holds, Lively, Late
<1> QED
  BY <1>1, WriteTrusted, WriteRenewed DEF TInv

\* No child is under an object that came back while the operator still sees
\* the one before it.
LEMMA NoneYet ==
    ASSUME TInv, view.phase # "live", obj.phase = "live"
    PROVE  LiveChildren = {}
BY DEF TInv, Inv, Guarded, NoOrphans, Renewed

\* A pass of the finalizer.
LEMMA FinalPass ==
    ASSUME TInv, Inv', NEW o \in {obj, Gone(obj)}, NEW cs, Write(o, cs),
           view.phase = "deleting",
           \A n \in Name : Outlives(children[n], cs[n])
    PROVE  TInv'
<1>1. ASSUME NEW n \in Name, Holds(n)
      PROVE  Lively(cs[n]) \/ (o.phase # "live" /\ Late(cs[n]))
  <2>1. children[n].live
    BY <1>1 DEF Holds, Lively, Late
  <2>2. obj.phase # "live"
    BY <2>1, NoneYet DEF LiveChildren
  <2> QED
    BY <1>1, <2>2 DEF Holds, Outlives, Gone
<1>2. /\ o.phase = "gone" => ~o.fin
      /\ view.phase # "live" /\ o.phase = "live" => ~o.fin
  BY DEF TInv, Renewed, Gone
<1> QED
  BY <1>1, <1>2, WriteTrusted, WriteRenewed DEF TInv

----------------------------------------------------------------------------
(* The drain, entered with o and cs as the updates of the pass left them.   *)

Registered(c) == c.live /\ ~c.marked

LEMMA EnteredLasts ==
    ASSUME NEW o, NEW cs, Entered(o, cs), NEW n \in Name
    PROVE  /\ Lasts(children[n], cs[n])
           /\ Registered(children[n]) => Registered(cs[n])
BY FitsLasts, LastsItself DEF Entered, Fits, Registered

LEMMA LastsOn ==
    \A c, d, e : Lasts(c, d) /\ Lasts(d, e) => Lasts(c, e)
BY DEF Lasts

\* What a pass leaves when it has nothing more to drain.
Rests(o, cs) ==
    \E o2 : /\ Write(o2, cs)
            /\ o2.phase = o.phase

\* What a drain leaves that unregisters a child, or deletes it: it says so if
\* an update before it failed.
Drains(o, cs, ls) ==
    \E o2, cs2 :
       /\ Write(o2, cs2)
       /\ o2.phase = o.phase
       /\ \A m \in Name : Lasts(cs[m], cs2[m])
       /\ \/ lists' = ls
          \/ \A m \in Name : Registered(cs[m]) => Registered(cs2[m])

LEMMA RestsDrains ==
    ASSUME NEW o, NEW cs, NEW ls, Rests(o, cs)
    PROVE  Drains(o, cs, ls)
BY LastsItself DEF Rests, Drains

LEMMA StatusOnly ==
    \A o, cs : \A s : Entered(o, cs) => [o EXCEPT !.status = s].phase = o.phase
BY DEF Entered, Object

LEMMA NoTwins ==
    ASSUME NEW o, NEW cs, Entered(o, cs), NEW n \in Name, NEW listed
    PROVE  ~HasTwin(n, cs, listed)
<1>1. cs[n].host = NoHost
  BY NamesAssumption DEF NamesAssumption, Entered, GoodChild, Child
<1> QED
  BY <1>1 DEF HasTwin

LEMMA DrainOneDrains ==
    ASSUME Prompt, NEW o, NEW cs, Entered(o, cs), NEW ls, NEW listed,
           NEW outage, DrainOne(o, cs, ls, listed, outage)
    PROVE  Drains(o, cs, ls)
<1>1. PICK n \in {m \in Name : cs[m].live /\ ~Stays(m, listed)} :
         \E adds :
            DrainChild(o, cs, ls, n, HasTwin(n, cs, listed) \/ DeleteNow(cs[n]),
                       adds, outage)
  BY DEF DrainOne
<1> DEFINE deleted == DeleteNow(cs[n])
           after == [cs EXCEPT ![n] = IF deleted THEN NoChild
                                      ELSE Timed(n, cs[n])]
<1>2. PICK s :
         /\ Write([o EXCEPT !.status = s], after)
         /\ lists' = IF ~deleted /\ cs[n].due = NoDue
                     THEN (ls \ {"ready", "error"}) \cup {"waiting"}
                     ELSE ls
  <2>1. (HasTwin(n, cs, listed) \/ DeleteNow(cs[n])) <=> deleted
    BY NoTwins
  <2>2. PICK adds :
           DrainChild(o, cs, ls, n, HasTwin(n, cs, listed) \/ DeleteNow(cs[n]),
                      adds, outage)
    BY <1>1
  <2> QED
    BY <2>1, <2>2 DEF DrainChild, Return
<1>3. cs[n] \in GoodChild /\ cs[n].live
  BY DEF Entered
<1>4. ASSUME NEW m \in Name
      PROVE  Lasts(cs[m], after[m])
  <2>1. CASE m # n
    BY <2>1, LastsItself DEF Entered
  <2>2. CASE m = n /\ deleted
    BY <1>3, <2>2, NotDeletedNow DEF Lasts
  <2>3. CASE m = n /\ ~deleted
    <3>1. after[m] = Timed(n, cs[n])
      BY <2>3 DEF Entered
    <3> QED
      BY <1>3, <2>3, <3>1, TimedLasts
  <2> QED
    BY <2>1, <2>2, <2>3
<1>5. \/ lists' = ls
      \/ \A m \in Name : Registered(cs[m]) => Registered(after[m])
  <2>1. CASE ~deleted /\ cs[n].due = NoDue
    <3>1. after[n] = Timed(n, cs[n])
      BY <2>1 DEF Entered
    <3>2. Registered(cs[n]) => Registered(after[n])
      BY <1>3, <2>1, <3>1, TimedMoves DEF Registered
    <3>3. \A m \in Name \ {n} : after[m] = cs[m]
      BY DEF Entered
    <3> QED
      BY <3>2, <3>3
  <2>2. CASE ~(~deleted /\ cs[n].due = NoDue)
    BY <1>2, <2>2
  <2> QED
    BY <2>1, <2>2
<1>6. [o EXCEPT !.status = s].phase = o.phase
  BY StatusOnly
<1> HIDE DEF after, deleted
<1> QED
  BY <1>2, <1>4, <1>5, <1>6 DEF Drains

LEMMA DeleteUnlistedDrains ==
    ASSUME Prompt, NEW o, NEW cs, Entered(o, cs), NEW ls, NEW listed,
           NEW outage, DeleteUnlisted(o, cs, ls, listed, outage)
    PROVE  Drains(o, cs, ls)
<1>1. CASE DrainFails(o, cs, ls, listed, outage)
  <2>1. PICK s : Write([o EXCEPT !.status = s], cs)
    BY <1>1 DEF DrainFails, Return
  <2> QED
    BY <2>1, StatusOnly, RestsDrains DEF Rests
<1>2. CASE DrainOne(o, cs, ls, listed, outage)
  BY <1>2, DrainOneDrains
<1>3. CASE DrainDone(o, cs, ls, listed, outage)
  <2>1. PICK s : Write([o EXCEPT !.status = s], cs)
    BY <1>3 DEF DrainDone, DrainEnds, Return
  <2> QED
    BY <2>1, StatusOnly, RestsDrains DEF Rests
<1> QED
  BY <1>1, <1>2, <1>3 DEF DeleteUnlisted

\* A child is created where there was none.
LEMMA CreateFirstKeeps ==
    ASSUME NEW o, NEW cs, Entered(o, cs), NEW ls, NEW objects, NEW outage,
           CreateFirst(o, cs, ls, objects, outage)
    PROVE  \E o2, cs2 :
             /\ Write(o2, cs2)
             /\ o2.phase = o.phase
             /\ \A m \in Name : Lasts(cs[m], cs2[m])
             /\ \A m \in Name : Registered(cs[m]) => Registered(cs2[m])
<1>1. CASE Write(o, cs)
  BY <1>1, LastsItself
<1>2. CASE \E s, first : /\ ~cs[first.name].live
                        /\ Write([o EXCEPT !.status = s],
                                  [cs EXCEPT ![first.name] = first.child])
  <2>1. PICK s, first : /\ ~cs[first.name].live
                        /\ Write([o EXCEPT !.status = s],
                                  [cs EXCEPT ![first.name] = first.child])
    BY <1>2
  <2> DEFINE after == [cs EXCEPT ![first.name] = first.child]
  <2>2. ASSUME NEW m \in Name
        PROVE  /\ Lasts(cs[m], after[m])
               /\ Registered(cs[m]) => Registered(after[m])
    <3>1. CASE m = first.name
      BY <2>1, <3>1 DEF Lasts, Lively, Late, Registered
    <3>2. CASE m # first.name
      BY <3>2, LastsItself DEF Entered
    <3> QED
      BY <3>1, <3>2
  <2>3. [o EXCEPT !.status = s].phase = o.phase
    BY StatusOnly
  <2> HIDE DEF after
  <2>4. Write([o EXCEPT !.status = s], after)
    BY <2>1 DEF after
  <2> QED
    BY <2>2, <2>3, <2>4
<1> QED
  BY <1>1, <1>2 DEF CreateFirst, Return

----------------------------------------------------------------------------
(* The pass that renders the children and applies them.                     *)

\* The object applied last is a main child; it decides between ready and error.
LastOf(l, objects) ==
    /\ l \in objects
    /\ \A x \in objects : x.rank <= l.rank /\ (x.rank = l.rank => x = l)

LEMMA LastPlace ==
    ASSUME Inv, maxShards[view.class] # Unknown
    PROVE  \E p \in Placed : \A q \in Placed : q.num < p.num \/ q = p
<1> DEFINE max == maxShards[view.class]
<1>1. view.class \in Class /\ view.all \in BOOLEAN
  BY FlagsAssumption DEF FlagsAssumption, Inv, TypeOK, Object
<1>2. max \in Nat
  <2>1. maxShards \in [Class -> Unknown..ShardLimit]
    BY ConfigsAssumption DEF ConfigsAssumption, Inv, TypeOK
  <2> QED
    BY <1>1, <2>1, ConfigsAssumption DEF ConfigsAssumption, Unknown
<1>3. CASE max = 0
  <2>1. Placed = {[num |-> 0, shard |-> <<view.class>>]}
    BY <1>3 DEF Placed
  <2> QED
    BY <2>1
<1>4. CASE max > 0 /\ view.all
  <2>1. Placed = {[num |-> i, shard |-> <<view.class, i>>] : i \in 0 .. max - 1}
    BY <1>2, <1>4 DEF Placed
  <2> DEFINE p == [num |-> max - 1, shard |-> <<view.class, max - 1>>]
  <2>2. p \in Placed
    BY <1>2, <1>4, <2>1
  <2>3. ASSUME NEW q \in Placed
        PROVE  q.num < p.num \/ q = p
    <3>1. PICK i \in 0 .. max - 1 : q = [num |-> i, shard |-> <<view.class, i>>]
      BY <2>1
    <3> QED
      BY <1>2, <3>1
  <2> QED
    BY <2>2, <2>3
<1>5. CASE max > 0 /\ ~view.all
  <2>1. Placed = {[num |-> Hash % max, shard |-> <<view.class, Hash % max>>]}
    BY <1>2, <1>5 DEF Placed
  <2> QED
    BY <2>1
<1> QED
  BY <1>1, <1>2, <1>3, <1>4, <1>5

LEMMA LastObject ==
    ASSUME Inv, maxShards[view.class] # Unknown, NEW conflict
    PROVE  \E l : LastOf(l, Objects(conflict))
<1>1. PICK p \in Placed : \A q \in Placed : q.num < p.num \/ q = p
  BY LastPlace
<1> DEFINE content == <<view.template, view.all>>
           MainOf(q) == [name |-> MainName(q), rank |-> 2 * q.num + 1,
                         shard |-> q.shard,
                         child |-> Rendered(MainClass(q, conflict[q]), NoHost,
                                           content, NoShard)]
           Temp(q) == [name |-> TmpOf(q.num), rank |-> 2 * q.num,
                       shard |-> q.shard,
                       child |-> Rendered(conflict[q], NoHost, content,
                                         conflict[q])]
<1>2. MainOf(p) \in Objects(conflict)
  BY DEF Objects
<1>3. ASSUME NEW x \in Objects(conflict)
      PROVE  x.rank <= MainOf(p).rank /\ (x.rank = MainOf(p).rank => x = MainOf(p))
  <2>1. PICK q \in Placed : x = MainOf(q) \/ x = Temp(q)
    BY DEF Objects
  <2>2. p.num \in Int /\ q.num \in Int
    BY PlacedTyped DEF Place, ShardIndex
  <2>3. MainOf(p).rank = 2 * p.num + 1 /\ MainOf(q).rank = 2 * q.num + 1
        /\ Temp(q).rank = 2 * q.num
    OBVIOUS
  <2>4. q.num < p.num \/ q = p
    BY <1>1
  <2> HIDE DEF MainOf, Temp
  <2> QED
    BY <2>1, <2>2, <2>3, <2>4
<1> HIDE DEF MainOf
<1> QED
  BY <1>2, <1>3 DEF LastOf

\* After the updates the object is served by the last child, or the update of
\* that child failed and the key is listed with an error.
LEMMA LastKept ==
    ASSUME TInv, obj.phase = "live", NEW objects, \A x \in objects : Applied(x),
           NEW l, LastOf(l, objects), AllExist(objects), NEW failed, NEW booked,
           NEW o, Entered(o, Updated(Differ(objects) \ failed))
    PROVE  \/ Lively(Updated(Differ(objects) \ failed)[l.name])
           \/ "error" \in AfterUpdates(Differ(objects), failed, booked)
<1> DEFINE cs == Updated(Differ(objects) \ failed)
<1>1. l \in Reached(objects) /\ l.name \in Name /\ Fits(l.child)
  BY DEF AllExist, Reached, LastOf, Applied
<1>2. CASE l \notin Differ(objects)
  <2>1. childView[l.name] = l.child
    BY <1>1, <1>2 DEF Differ
  <2>2. Fresh1(childView[l.name]) /\ childView[l.name] \in Shown(l.name)
    BY <1>1, <2>1 DEF Fits, Fresh1, Shown
  <2>3. Lively(children[l.name])
    BY <1>1, <2>2 DEF TInv, Trusted, Holds
  <2> QED
    BY <1>1, <2>3, EnteredLasts DEF Lasts
<1>3. CASE l \in Differ(objects) \ failed
  <2>1. cs[l.name] =
           (CHOOSE x \in Differ(objects) \ failed : x.name = l.name).child
    BY <1>1, <1>3 DEF Updated
  <2>2. \E x \in Differ(objects) \ failed : cs[l.name] = x.child
    BY <1>3, <2>1
  <2>3. Fits(cs[l.name])
    BY <2>2 DEF Differ, Reached, Applied
  <2> QED
    BY <2>3, FitsLasts
<1>4. CASE l \in Differ(objects) /\ l \in failed
  <2> DEFINE last == CHOOSE x \in Differ(objects) :
                        \A y \in Differ(objects) : y.rank <= x.rank
  <2>1. Differ(objects) \subseteq objects
    BY DEF Differ, Reached
  <2>2. \A y \in Differ(objects) : y.rank <= l.rank
    BY <2>1 DEF LastOf
  <2>3. last \in Differ(objects) /\ l.rank <= last.rank
    BY <1>4, <2>2
  <2>4. last.rank <= l.rank /\ last.rank \in Int /\ l.rank \in Int
    BY <2>1, <2>2, <2>3 DEF Applied, LastOf
  <2>5. last.rank = l.rank
    BY <2>3, <2>4
  <2>6. last = l
    BY <2>1, <2>3, <2>5 DEF LastOf
  <2> QED
    BY <1>4, <2>6 DEF AfterUpdates
<1> QED
  BY <1>2, <1>3, <1>4

\* What each step has to show.
Reports == Served /\ obj.phase = "live" => Served' \/ "error" \in lists'

LEMMA ApplyObjectsKeeps ==
    ASSUME TInv, Inv', Proceeds,
           NEW objects, \A x \in objects : Applied(x),
           NEW l, LastOf(l, objects),
           NEW failed, Stale(objects) \subseteq failed,
           NEW listed, NEW outage,
           ApplyObjects(objects, failed, listed, outage)
    PROVE  TInv' /\ Reports
<1> DEFINE updated == Differ(objects) \ failed
           cs == Updated(updated)
           Ls(booked) == AfterUpdates(Differ(objects), failed, booked)
                            \cup {"managed"}
<1>1. PICK o, booked :
         /\ Entered(o, cs)
         /\ o.phase = obj.phase
         /\ \/ CreateFirst(o, cs, Ls(booked), objects, outage)
            \/ /\ AllExist(objects)
               /\ DeleteUnlisted(o, cs, Ls(booked), listed, outage)
  BY AfterUpdatesEntered DEF TInv
<1> DEFINE ls == Ls(booked)
<1>2. Entered(o, cs) /\ o.phase = obj.phase
  BY <1>1
<1>3. o.phase # "gone" /\ view.phase = "live"
  BY <1>2 DEF Entered, Proceeds
<1>4. PICK o2, cs2 :
         /\ Write(o2, cs2)
         /\ o2.phase = o.phase
         /\ \A m \in Name : Lasts(cs[m], cs2[m])
         /\ \/ AllExist(objects) /\ lists' = ls
            \/ \A m \in Name : Registered(cs[m]) => Registered(cs2[m])
  <2> HIDE DEF cs, ls
  <2>1. CASE CreateFirst(o, cs, ls, objects, outage)
    BY <1>2, <2>1, CreateFirstKeeps
  <2>2. CASE AllExist(objects) /\ DeleteUnlisted(o, cs, ls, listed, outage)
    BY <1>2, <2>2, LagIs, DeleteUnlistedDrains DEF Drains
  <2>3. \/ CreateFirst(o, cs, ls, objects, outage)
        \/ AllExist(objects) /\ DeleteUnlisted(o, cs, ls, listed, outage)
    BY <1>1 DEF ls
  <2> QED
    BY <2>1, <2>2, <2>3
<1>5. AllExist(objects) /\ obj.phase = "live" =>
         Lively(cs[l.name]) \/ "error" \in ls
  BY <1>2, LastKept
<1>6. l.name \in Name
  BY DEF LastOf, Applied
<1> HIDE DEF cs, ls
<1>7. \A n \in Name : /\ Lasts(children[n], cs2[n])
                      /\ Registered(children[n]) => Registered(cs[n])
  BY <1>2, <1>4, EnteredLasts, LastsOn
<1>8. TInv'
  BY <1>2, <1>3, <1>4, <1>7, LivePass
<1>9. Reports
  <2> SUFFICES ASSUME Served, obj.phase = "live"
               PROVE  Served' \/ "error" \in lists'
    BY DEF Reports
  <2>1. children' = cs2
    BY <1>4 DEF Write
  <2>2. \A n \in Name : Registered(cs2[n]) => Served'
    BY <2>1 DEF Served, LiveChildren, Registered
  <2>3. CASE \A m \in Name : Registered(cs[m]) => Registered(cs2[m])
    <3>1. PICK n \in Name : Registered(children[n])
      BY DEF Served, LiveChildren, Registered
    <3> QED
      BY <1>7, <2>2, <2>3, <3>1
  <2>4. CASE AllExist(objects) /\ lists' = ls
    <3>1. CASE "error" \in ls
      BY <2>4, <3>1
    <3>2. CASE Lively(cs[l.name])
      <4>1. Registered(cs2[l.name])
        BY <1>4, <1>6, <3>2 DEF Lasts, Lively, Registered
      <4> QED
        BY <1>6, <2>2, <4>1
    <3> QED
      BY <1>5, <2>4, <3>1, <3>2
  <2> QED
    BY <1>4, <2>3, <2>4
<1> QED
  BY <1>8, <1>9

LEMMA ApplyKeeps == TInv /\ Inv' /\ ReconcileApply => TInv' /\ Reports
<1> SUFFICES ASSUME TInv, Inv', ReconcileApply PROVE TInv' /\ Reports
  OBVIOUS
<1>1. Proceeds /\ maxShards[view.class] # Unknown /\ Inv
  BY DEF ReconcileApply, Applies, TInv
<1>2. PICK conflict \in [Placed -> ShardName \cup {NoShard}] :
         ApplyRendered(Objects(conflict), StatusList(conflict))
  BY DEF ReconcileApply
<1>3. PICK l : LastOf(l, Objects(conflict))
  BY <1>1, LastObject
<1>4. \A x \in Objects(conflict) : Applied(x)
  BY <1>1, ObjectsTyped
<1>5. PICK outage, failed :
         /\ Stale(Objects(conflict)) \subseteq failed
         /\ ApplyObjects(Objects(conflict), failed, StatusList(conflict), outage)
  BY <1>2 DEF ApplyRendered
<1> QED
  BY <1>1, <1>3, <1>4, <1>5, ApplyObjectsKeeps

----------------------------------------------------------------------------
(* The other steps.  Those that leave the children alone report nothing.    *)

LEMMA QuietReports ==
    children' = children => Reports
BY DEF Reports, Served, LiveChildren

\* The passes that end before children are generated.
LEMMA EarlyKeeps ==
    ASSUME TInv, Inv',
           \/ ReconcileNotFound \/ ReconcileFinalizerRefused
           \/ ReconcileUnknownClass \/ ReconcileRateLimited
           \/ FinalizerUnknownKind
    PROVE  TInv' /\ Reports
<1>1. CASE Write(obj, children)
  <2>1. TInv'
    BY <1>1, QuietWrite DEF TInv, Renewed
  <2>2. Reports
    BY <1>1, QuietReports DEF Write
  <2> QED
    BY <2>1, <2>2
<1>2. CASE Proceeds /\ Write(WithFinalizer, children)
  <2>1. WithFinalizer.phase = obj.phase /\ WithFinalizer.phase # "gone"
    BY <1>2, WithFinalizerGuards DEF WithFinalizer, TInv, Inv, TypeOK, Object
  <2>2. TInv'
    BY <1>2, <2>1, LastsItself, LivePass DEF Proceeds
  <2>3. Reports
    BY <1>2, QuietReports DEF Write
  <2> QED
    BY <2>2, <2>3
<1> QED
  BY <1>1, <1>2
  DEF ReconcileNotFound, ReconcileFinalizerRefused, ReconcileUnknownClass,
      ReconcileRateLimited, FinalizerUnknownKind, Return

LEMMA FinalizerKeeps ==
    ASSUME TInv, Inv', FinalizerWaits \/ FinalizerFails \/ FinalizerCompletes
    PROVE  TInv' /\ Reports
<1>1. view.phase = "deleting"
  BY DEF FinalizerWaits, FinalizerFails, FinalizerCompletes
<1>2. PICK o, cs :
         /\ o \in {obj, Gone(obj)}
         /\ Write(o, cs)
         /\ \A n \in Name : Outlives(children[n], cs[n])
  <2>1. CASE FinalizerWaits \/ FinalizerFails
    <3>1. PICK done \in SUBSET LiveChildren :
             Write(obj, [n \in Name |-> IF n \in done
                                        THEN Finalized(children[n])
                                        ELSE children[n]])
      <4>1. CASE FinalizerFails
        BY <4>1 DEF FinalizerFails, Return
      <4>2. CASE FinalizerWaits
        <5>1. [n \in Name |-> IF children[n].live THEN Finalized(children[n])
                                                  ELSE children[n]]
              = [n \in Name |-> IF n \in LiveChildren
                                THEN Finalized(children[n]) ELSE children[n]]
          BY DEF LiveChildren
        <5> QED
          BY <4>2, <5>1 DEF FinalizerWaits, Return
      <4> QED
        BY <2>1, <4>1, <4>2
    <3> DEFINE cs == [n \in Name |-> IF n \in done THEN Finalized(children[n])
                                                   ELSE children[n]]
    <3>2. ASSUME NEW n \in Name
          PROVE  Outlives(children[n], cs[n])
      <4>1. CASE n \in done
        BY <4>1, LagIs, FinalizedOutlives, GoodChildren DEF TInv
      <4>2. CASE n \notin done
        BY <4>2 DEF Outlives
      <4> QED
        BY <4>1, <4>2
    <3> HIDE DEF cs
    <3>3. Write(obj, cs)
      BY <3>1 DEF cs
    <3> QED
      BY <3>2, <3>3
  <2>2. CASE FinalizerCompletes
    <3> DEFINE cs == [n \in Name |-> NoChild]
    <3>1. ASSUME NEW n \in Name
          PROVE  Outlives(children[n], cs[n])
      <4>1. children[n].live => DeleteNow(children[n])
        BY <2>2 DEF FinalizerCompletes, LiveChildren
      <4> QED
        BY <4>1, LagIs, NotDeletedNow, GoodChildren
        DEF TInv, Outlives, Lively, Late
    <3>2. PICK o \in {obj, Gone(obj)} : Write(o, cs)
      BY <2>2 DEF FinalizerCompletes, Return
    <3> HIDE DEF cs
    <3> QED
      BY <3>1, <3>2
  <2> QED
    BY <2>1, <2>2
<1>3. TInv'
  BY <1>1, <1>2, FinalPass
<1>4. Reports
  BY <1>1, NoneYet DEF Reports, Served
<1> QED
  BY <1>3, <1>4

LEMMA UserKeeps ==
    ASSUME TInv, Inv', User
    PROVE  TInv' /\ Reports
<1>1. PICK o :
         /\ Write(o, children)
         /\ obj.phase # "live" =>
               o.phase # "live" \/ \A n \in Name : ~children[n].live
         /\ o.phase = "gone" => ~o.fin
         /\ view.phase # "live" /\ o.phase = "live" => ~o.fin
  <2>1. CASE UserEdits
    BY <2>1 DEF UserEdits, UserWrites, Asking, TInv, Renewed
  <2>2. CASE UserDeletes
    <3>1. CASE obj.fin
      <4>1. Write([obj EXCEPT !.phase = "deleting"], children)
        BY <2>2, <3>1 DEF UserDeletes, UserWrites
      <4>2. [obj EXCEPT !.phase = "deleting"].phase = "deleting"
        BY DEF TInv, Inv, TypeOK, Object
      <4> QED
        BY <4>1, <4>2
    <3>2. CASE ~obj.fin
      <4>1. Write(Gone(obj), children)
        BY <2>2, <3>2 DEF UserDeletes, UserWrites
      <4>2. Gone(obj).phase = "gone" /\ ~Gone(obj).fin
        BY DEF Gone
      <4> QED
        BY <4>1, <4>2
    <3> QED
      BY <3>1, <3>2
  <2>3. CASE UserRecreates
    <3> DEFINE o == [obj EXCEPT !.phase = "live"]
    <3>1. Write(o, children) /\ obj.phase = "gone"
      BY <2>3 DEF UserRecreates, UserWrites
    <3>2. o.phase = "live" /\ ~o.fin
      BY <3>1 DEF TInv, Inv, TypeOK, Object, Renewed
    <3>3. \A n \in Name : ~children[n].live
      BY <3>1 DEF TInv, Inv, Guarded, NoOrphans, LiveChildren
    <3> HIDE DEF o
    <3> QED
      BY <3>1, <3>2, <3>3
  <2> QED
    BY <2>1, <2>2, <2>3 DEF User
<1>2. TInv'
  BY <1>1, QuietWrite
<1>3. Reports
  BY <1>1, QuietReports DEF Write
<1> QED
  BY <1>2, <1>3

LEMMA SyncKeeps ==
    ASSUME TInv, Inv', SyncObject \/ SyncChildren \/ TimerFires \/ Restart
    PROVE  TInv' /\ Reports
<1>1. children' = children /\ obj' = obj
  BY DEF SyncObject, SyncChildren, TimerFires, Restart, cluster
<1>2. \/ lag' = lag
      \/ childView' = children /\ childLog' = <<>>
  <2>1. CASE SyncObject
    BY <2>1 DEF SyncObject, TInv, Inv, Cached
  <2>2. CASE SyncChildren /\ childLog' = <<>>
    BY <1>1, <2>2 DEF TInv, Inv, Cached
  <2> QED
    BY <2>1, <2>2 DEF SyncChildren, TimerFires, Restart, caches
<1>3. Trusted'
  <2>1. ASSUME NEW n \in Name, NEW c \in Shown(n)', lag' = lag
        PROVE  c \in Shown(n) \cup {children[n]}
    <3>1. CASE SyncObject \/ TimerFires
      BY <2>1, <3>1 DEF SyncObject, TimerFires, Shown, caches
    <3>2. CASE Restart
      BY <2>1, <3>2 DEF Restart, Shown
    <3>3. CASE SyncChildren
      <4>1. childLog \in Seq([Name -> Child]) /\ childLog # <<>>
        BY <3>3 DEF SyncChildren, TInv, Inv, TypeOK
      <4>2. childView' = childLog[1] /\ 1 \in DOMAIN childLog
        BY <3>3, <4>1 DEF SyncChildren
      <4>3. \A i \in DOMAIN childLog' :
               i + 1 \in DOMAIN childLog /\ childLog'[i] = childLog[i + 1]
        BY <3>3, <4>1 DEF SyncChildren
      <4> QED
        BY <2>1, <4>2, <4>3 DEF Shown
    <3> QED
      BY <3>1, <3>2, <3>3
  <2>2. ASSUME NEW n \in Name, NEW c \in Shown(n)', Fresh1(c)
        PROVE  Holds(n)'
    <3>1. CASE c = children[n]
      BY <1>1, <2>2, <3>1 DEF Holds, Fresh1, Lively
    <3>2. CASE lag' = lag /\ c \in Shown(n)
      BY <1>1, <2>2, <3>2 DEF TInv, Trusted, Holds, Lively, Late
    <3>3. CASE childView' = children /\ childLog' = <<>>
      BY <2>2, <3>1, <3>3 DEF Shown
    <3> QED
      BY <1>2, <2>1, <2>2, <3>1, <3>2, <3>3
  <2> QED
    BY <2>2 DEF Trusted
<1>4. Renewed'
  <2>1. view' = view \/ view' = obj
    BY DEF SyncObject, SyncChildren, TimerFires, Restart, caches
  <2> QED
    BY <1>1, <2>1 DEF TInv, Renewed
<1> QED
  BY <1>1, <1>3, <1>4, QuietReports DEF TInv

LEMMA TickKeeps ==
    ASSUME TInv, Inv', Tick
    PROVE  TInv' /\ Reports
<1>1. obj' = obj /\ view' = view
  BY DEF Tick
<1>2. Trusted'
  <2> SUFFICES ASSUME NEW n \in Name, NEW c \in Shown(n)', Fresh1(c)
               PROVE  Holds(n)'
    BY DEF Trusted
  <2>1. children'[n] = OneSecondLater(children[n])
    BY TickStep DEF TInv
  <2>2. PICK d \in Shown(n) : c = OneSecondLater(d)
    <3>1. /\ childView'[n] = OneSecondLater(childView[n])
          /\ \A i \in DOMAIN childLog :
                childLog'[i][n] = OneSecondLater(childLog[i][n])
      BY DEF Tick, AllLater
    <3>2. DOMAIN childLog' = DOMAIN childLog
      BY TickCaches DEF TInv
    <3> QED
      BY <3>1, <3>2 DEF Shown
  <2>3. Fresh1(d)
    <3>1. d \in Child
      <4>1. \A i \in DOMAIN childLog : childLog[i] \in [Name -> Child]
        BY DEF TInv, Inv, TypeOK
      <4> QED
        BY <4>1 DEF Shown, TInv, Inv, TypeOK
    <3> QED
      BY <2>2, <3>1 DEF Fresh1, OneSecondLater, Clocked, Child, NoDue
  <2>4. CASE Behind
    <3>1. lag' = lag + 1 /\ Holds(n) /\ Prompt
      BY <2>3, <2>4, LagIs DEF Tick, TInv, Trusted
    <3>2. children[n].due \in Int
      BY DEF TInv, Inv, TypeOK, Child
    <3>3. TerminationPeriod \in Nat \ {0} /\ DeletionTerminationPeriod \in Nat \ {0}
      BY PeriodsAssumption DEF PeriodsAssumption
    <3> QED
      BY <1>1, <2>1, <3>1, <3>2, <3>3
      DEF Holds, Lively, Late, OneSecondLater, Clocked, Prompt, NoDue
  <2>5. CASE ~Behind
    <3>1. childLog = <<>> /\ childView = children
      BY <2>5 DEF Behind, TInv, Inv, Cached
    <3>2. d = children[n]
      BY <2>2, <3>1 DEF Shown
    <3> QED
      BY <2>1, <2>2, <3>2 DEF Holds, Lively, Fresh1
  <2> QED
    BY <2>4, <2>5
<1>3. Renewed'
  BY <1>1 DEF TInv, Renewed
<1>4. \A n \in Name : Registered(children[n]) => Registered(children'[n])
  <2> SUFFICES ASSUME NEW n \in Name, Registered(children[n])
               PROVE  Registered(children'[n])
    OBVIOUS
  <2>1. children'[n] = OneSecondLater(children[n])
    BY TickStep DEF TInv
  <2> QED
    BY <2>1 DEF OneSecondLater, Clocked, Registered
<1>5. Reports
  BY <1>4 DEF Reports, Served, LiveChildren, Registered
<1> QED
  BY <1>2, <1>3, <1>5 DEF TInv

LEMMA NextKeeps == TInv /\ Next => TInv' /\ Reports
<1> SUFFICES ASSUME TInv, Next PROVE TInv' /\ Reports
  OBVIOUS
<1>1. Inv'
  BY NextStep, TickStep DEF TInv, Step
<1>2. CASE ReconcileBeforeApply
  BY <1>1, <1>2, EarlyKeeps, FinalizerKeeps DEF ReconcileBeforeApply
<1>3. CASE ReconcileApply
  BY <1>1, <1>3, ApplyKeeps
<1>4. CASE User \/ SyncObject \/ SyncChildren \/ TimerFires \/ Restart \/ Tick
  BY <1>1, <1>4, UserKeeps, SyncKeeps, TickKeeps
<1> QED
  BY <1>2, <1>3, <1>4 DEF Next, Reconcile

LEMMA TInvStutters == TInv /\ UNCHANGED vars => TInv'
<1> SUFFICES ASSUME TInv, UNCHANGED vars PROVE TInv'
  OBVIOUS
<1>1. Trusted' /\ Renewed'
  BY DEF TInv, Trusted, Holds, Shown, Renewed, Lively, Late, vars, cluster,
         caches
<1> QED
  BY <1>1, InvStutters DEF TInv

LEMMA InitTInv == Quick /\ Init => TInv
<1> SUFFICES ASSUME Quick, Init PROVE TInv
  OBVIOUS
<1>1. Trusted
  BY DEF Init, Trusted, Shown, NoChild, Fresh1
<1>2. Renewed
  BY DEF Init, Renewed
<1> QED
  BY <1>1, <1>2, InitInv DEF TInv

\* NeverUnserved: as long as the caches are never behind for a termination
\* period, no step takes the last registered child from an object that lives,
\* unless the key is left in ErrorList; for any classes, shards, periods and
\* bounds.
THEOREM NeverUnserved ==
    /\ LagLimit < TerminationPeriod
    /\ LagLimit < DeletionTerminationPeriod
    => (Spec => ServedOrReported)
<1> SUFFICES ASSUME LagLimit < TerminationPeriod,
                    LagLimit < DeletionTerminationPeriod
             PROVE  Spec => ServedOrReported
  OBVIOUS
<1>0. Quick
  BY DEF Quick
<1>1. TInv /\ [Next]_vars => TInv'
  BY NextKeeps, TInvStutters
<1>2. TInv /\ [Next]_vars =>
        [Served /\ obj.phase = "live" /\ obj'.phase = "live"
           => Served' \/ "error" \in lists']_vars
  BY NextKeeps DEF Reports
<1> QED
  BY <1>0, <1>1, <1>2, InitTInv, PTL DEF Spec, ServedOrReported

----------------------------------------------------------------------------
(* A pass drains no child that it asks for.                                 *)

\* What a pass may do to a child that has no deadline.
Kept(n) == children'[n].due # NoDue => children[n].due # NoDue

LEMMA MainNameStays ==
    ASSUME Inv, ~NamedTmp, maxShards[view.class] # Unknown, NEW p \in Placed,
           NEW conflict
    PROVE  MainName(p) \in Name /\ Stays(MainName(p), StatusList(conflict))
<1>1. p \in Place
  BY PlacedTyped
<1>2. ~IsTmpRoot(MainName(p))
  <2>1. CASE MainName(p) = Bare
    BY <2>1 DEF IsTmpRoot
  <2>2. CASE MainName(p) = Main(p.num) /\ MainName(p) # Bare
    <3>1. Main(p.num)[Len(Main(p.num))] = p.num /\ p.num # Tmp
      BY <1>1 DEF Main, Place, ShardIndex, Tmp
    <3> QED
      BY <2>2, <3>1 DEF IsTmpRoot
  <2> QED
    BY <2>1, <2>2 DEF MainName
<1>3. <<p.shard, MainName(p)>> \in StatusList(conflict)
  BY DEF StatusList
<1> QED
  BY <1>1, <1>2, <1>3, MainNameTyped DEF Stays

\* A drain gives a deadline only to a child that does not stay.
LEMMA DrainKeeps ==
    ASSUME NEW o, NEW cs, Entered(o, cs), NEW ls, NEW listed, NEW outage,
           DeleteUnlisted(o, cs, ls, listed, outage),
           NEW n \in Name, Stays(n, listed)
    PROVE  children'[n] = cs[n]
<1>1. CASE DrainFails(o, cs, ls, listed, outage) \/ DrainDone(o, cs, ls, listed, outage)
  BY <1>1 DEF DrainFails, DrainDone, DrainEnds, Return, Write
<1>2. CASE DrainOne(o, cs, ls, listed, outage)
  <2>1. PICK m, d : m # n /\ children' = [cs EXCEPT ![m] = d]
    BY <1>2 DEF DrainOne, DrainChild, Return, Write
  <2> QED
    BY <2>1 DEF Entered
<1> QED
  BY <1>1, <1>2 DEF DeleteUnlisted

LEMMA ApplyDrainsNone ==
    ASSUME Inv, ~NamedTmp, ReconcileApply, NEW p \in Placed
    PROVE  Kept(MainName(p))
<1> DEFINE n == MainName(p)
<1>1. Proceeds /\ maxShards[view.class] # Unknown
  BY DEF ReconcileApply, Applies
<1>2. PICK conflict \in [Placed -> ShardName \cup {NoShard}] :
         ApplyRendered(Objects(conflict), StatusList(conflict))
  BY DEF ReconcileApply
<1> DEFINE objects == Objects(conflict)
           listed == StatusList(conflict)
<1>3. n \in Name /\ Stays(n, listed)
  BY <1>1, MainNameStays
<1>4. \A x \in objects : Applied(x)
  BY <1>1, ObjectsTyped
<1> HIDE DEF n, objects, listed
<1>5. PICK outage, failed :
         /\ Stale(objects) \subseteq failed
         /\ ApplyObjects(objects, failed, listed, outage)
  BY <1>2 DEF ApplyRendered, objects, listed
<1>6. PICK o, ls :
         /\ Entered(o, Updated(Differ(objects) \ failed))
         /\ \/ CreateFirst(o, Updated(Differ(objects) \ failed), ls, objects, outage)
            \/ DeleteUnlisted(o, Updated(Differ(objects) \ failed), ls, listed, outage)
  BY <1>1, <1>4, <1>5, AfterUpdatesEntered
<1> DEFINE cs == Updated(Differ(objects) \ failed)
<1> HIDE DEF cs
<1>7. Entered(o, cs) /\ (cs[n].due # NoDue => children[n].due # NoDue)
  BY <1>3, <1>6 DEF cs, Entered, Fits
<1>8. CASE CreateFirst(o, cs, ls, objects, outage)
  <2>1. PICK first \in objects :
           \/ children' = cs
           \/ children' = [cs EXCEPT ![first.name] = first.child]
    BY <1>8 DEF CreateFirst, Missing, Return, Write
  <2>2. first.child.due = NoDue
    BY <1>4 DEF Applied, Fits
  <2> QED
    BY <1>3, <1>7, <2>1, <2>2 DEF Entered, Kept, n
<1>9. CASE DeleteUnlisted(o, cs, ls, listed, outage)
  BY <1>3, <1>7, <1>9, DrainKeeps DEF Kept, n
<1> QED
  BY <1>6, <1>8, <1>9 DEF cs

LEMMA NextDrainsNone ==
    ASSUME Inv, ~NamedTmp, [Next]_vars, view.phase = "live",
           maxShards[view.class] # Unknown, NEW p \in Placed
    PROVE  Kept(MainName(p))
<1>1. CASE children' = children
  BY <1>1 DEF Kept
<1>2. CASE ReconcileApply
  BY <1>2, ApplyDrainsNone
<1>3. CASE Tick
  <2>1. MainName(p) \in Name
    BY PlacedTyped, MainNameTyped
  <2>2. children'[MainName(p)] = OneSecondLater(children[MainName(p)])
    BY <1>3, <2>1, TickStep
  <2> QED
    BY <2>2 DEF OneSecondLater, Clocked, Kept, NoDue
<1>4. CASE ReconcileBeforeApply
  <2>1. children' = children
    BY <1>4
    DEF ReconcileBeforeApply, ReconcileNotFound, ReconcileFinalizerRefused,
        ReconcileUnknownClass, ReconcileRateLimited, FinalizerUnknownKind,
        FinalizerWaits, FinalizerCompletes, FinalizerFails, Return, Write
  <2> QED
    BY <1>1, <2>1
<1>5. CASE User
  <2>1. children' = children
    BY <1>5 DEF User, UserEdits, UserDeletes, UserRecreates, UserWrites, Write
  <2> QED
    BY <1>1, <2>1
<1>6. CASE SyncObject \/ SyncChildren \/ TimerFires \/ Restart \/ UNCHANGED vars
  BY <1>1, <1>6
  DEF SyncObject, SyncChildren, TimerFires, Restart, vars, cluster
<1> QED
  BY <1>2, <1>3, <1>4, <1>5, <1>6 DEF Next, Reconcile

\* NoneDrainedInVain: unless its own name ends in "-tmp", no pass of a live
\* object puts a deadline on a child the object asks for, for any constants.
THEOREM NoneDrainedInVain == ~NamedTmp => (Spec => WantedNotDrained)
<1> SUFFICES ASSUME ~NamedTmp PROVE Spec => WantedNotDrained
  OBVIOUS
<1>1. Inv /\ [Next]_vars =>
        [view.phase = "live" /\ maxShards[view.class] # Unknown =>
           \A p \in Placed :
              children'[MainName(p)].due # NoDue
              => children[MainName(p)].due # NoDue]_vars
  BY NextDrainsNone DEF Kept
<1> QED
  BY <1>1, Invariance, PTL DEF Spec, WantedNotDrained
=============================================================================
