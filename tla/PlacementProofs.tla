--------------------------- MODULE PlacementProofs ---------------------------
(****************************************************************************)
(* Objects are placed on ingress classes that exist, for any classes,       *)
(* configurations, numbers and hashes: the number of shards a process works *)
(* with is at most the number of ingress classes it found, and if those are *)
(* numbered from zero without a gap, every number below it is one of them.  *)
(****************************************************************************)
EXTENDS Placement, FiniteSetTheorems, TLAPS

Inv == TypeOK /\ NoMoreThanInstalled

LEMMA ConfiguredTyped == TypeOK => Configured \in Shards
<1> SUFFICES ASSUME TypeOK PROVE Configured \in Shards
  OBVIOUS
<1>1. CASE env = {}
  BY <1>1 DEF Configured, TypeOK
<1>2. CASE \E s \in Shards : env = {s}
  BY <1>2 DEF Configured, TypeOK
<1> QED
  BY <1>1, <1>2 DEF TypeOK

LEMMA NumbersFinite ==
    \A c : Cardinality(Numbers(c)) \in Nat
<1> TAKE c
<1>1. Numbers(c) \in SUBSET Suffix /\ IsFiniteSet(Suffix)
  BY NumbersAssumption DEF NumbersAssumption, Numbers
<1>2. IsFiniteSet(Numbers(c))
  BY <1>1, FS_Subset
<1> QED
  BY <1>2, FS_CardinalityType

LEMMA FoundFinite ==
    \A c : Cardinality(Found(c)) \in Nat
<1> TAKE c
<1>1. Found(c) \in SUBSET Suffix /\ IsFiniteSet(Suffix)
  BY NumbersAssumption DEF NumbersAssumption, Found
<1>2. IsFiniteSet(Found(c))
  BY <1>1, FS_Subset
<1> QED
  BY <1>2, FS_CardinalityType

\* getShardInfo stays below the number of shards.
LEMMA PlacedBelow ==
    ASSUME TypeOK, NEW k \in Key, asks[k].class \in DOMAIN maxShards,
           NEW n \in Placed(k, asks[k], maxShards[asks[k].class])
    PROVE  \/ maxShards[asks[k].class] = 0 /\ n = <<asks[k].class>>
           \/ \E i \in Nat : i < maxShards[asks[k].class] /\ n = <<asks[k].class, i>>
<1> DEFINE max == maxShards[asks[k].class]
<1>1. max \in Nat /\ HashOf[k] \in Nat
  BY KeysAssumption DEF KeysAssumption, TypeOK
<1>2. CASE max = 0
  BY <1>2 DEF Placed
<1>3. CASE max # 0
  <2>1. PICK i \in (0 .. max - 1) \cup {HashOf[k] % max} : n = <<asks[k].class, i>>
    BY <1>3 DEF Placed
  <2>2. HashOf[k] % max \in 0 .. max - 1
    BY <1>1, <1>3
  <2> QED
    BY <1>1, <2>1, <2>2
<1> QED
  BY <1>2, <1>3

LEMMA CheckedTyped ==
    ASSUME TypeOK
    PROVE  /\ DOMAIN Checked(maxShards) = DOMAIN maxShards
           /\ Checked(maxShards) \in [DOMAIN maxShards -> Nat]
           /\ \A c \in DOMAIN maxShards :
                 Checked(maxShards)[c] <= Cardinality(Numbers(c))
<1>1. \A c \in DOMAIN maxShards : maxShards[c] \in Nat
  BY DEF TypeOK
<1> QED
  BY <1>1, NumbersFinite DEF Checked

\* The invariant holds after every step.
LEMMA InitInv == Init => Inv
<1> SUFFICES ASSUME Init PROVE Inv
  OBVIOUS
<1>1. TypeOK
  <2>1. DOMAIN maxShards \subseteq Class /\ maxShards \in [DOMAIN maxShards -> Nat]
    BY DEF Init
  <2>2. placed \in [Key -> SUBSET ({<<c>> : c \in Class} \cup (Class \X Nat))]
    BY DEF Init
  <2>3. /\ changes \in 0..MaxChanges /\ starts \in 0..MaxStarts
        /\ failures \in 0..MaxFailures
    BY NumbersAssumption DEF NumbersAssumption, Init
  <2> QED
    BY <2>1, <2>2, <2>3 DEF Init, TypeOK
<1>2. NoMoreThanInstalled
  BY DEF Init, NoMoreThanInstalled
<1> QED
  BY <1>1, <1>2 DEF Inv

LEMMA NextInv == Inv /\ [Next]_vars => Inv'
<1> SUFFICES ASSUME Inv, [Next]_vars PROVE Inv'
  OBVIOUS
<1> USE NumbersAssumption DEF NumbersAssumption
<1>1. CASE Start
  <2>1. Configured \in Shards /\ DOMAIN Configured # {}
    BY <1>1, ConfiguredTyped DEF Inv, Start
  <2>2. DOMAIN Configured \subseteq Class /\ Configured \in [DOMAIN Configured -> Nat]
    BY <2>1, ShardsAssumption DEF ShardsAssumption
  <2>3. DOMAIN maxShards' # {} /\ DOMAIN maxShards' \subseteq Class
        /\ maxShards' \in [DOMAIN maxShards' -> Nat]
    BY <1>1, <2>1, <2>2 DEF Start
  <2>4. starts' \in 0..MaxStarts
    BY <1>1 DEF Start, Inv, TypeOK
  <2>5. TypeOK'
    BY <1>1, <2>3, <2>4 DEF Inv, TypeOK, Start
  <2> QED
    BY <1>1, <2>5 DEF Inv, NoMoreThanInstalled, Start
<1>2. CASE Crash
  BY <1>2 DEF Inv, TypeOK, NoMoreThanInstalled, Crash, Found
<1>3. CASE FirstPass
  <2>1. TypeOK'
    BY <1>3, CheckedTyped DEF Inv, TypeOK, FirstPass
  <2>2. NoMoreThanInstalled'
    BY <1>3, CheckedTyped
    DEF Inv, NoMoreThanInstalled, FirstPass, Found, Numbers
  <2> QED
    BY <2>1, <2>2 DEF Inv
<1>4. CASE FirstPassFails
  BY <1>4 DEF Inv, TypeOK, NoMoreThanInstalled, FirstPassFails, Found
<1>5. CASE Pass
  <2>1. PICK k \in Key : Place(k)
    BY <1>5 DEF Pass
  <2>2. Placed(k, asks[k], maxShards[asks[k].class])
           \subseteq {<<c>> : c \in Class} \cup (Class \X Nat)
    BY <2>1, PlacedBelow DEF Inv, TypeOK, Place, Ask
  <2>3. placed' \in [Key -> SUBSET ({<<c>> : c \in Class} \cup (Class \X Nat))]
    BY <2>1, <2>2 DEF Inv, TypeOK, Place
  <2>4. TypeOK'
    BY <1>5, <2>1, <2>3 DEF Inv, TypeOK, Pass, Place
  <2> QED
    BY <1>5, <2>4 DEF Inv, NoMoreThanInstalled, Pass, Found
<1>6. CASE ClassesChange \/ ConfigChanges
  <2>1. PICK classes \in SUBSET ClassName, f \in Shards,
             e \in {{}} \cup {{s} : s \in Shards} : Change(classes, f, e)
    BY <1>6 DEF ClassesChange, ConfigChanges, Inv, TypeOK
  <2> QED
    BY <2>1 DEF Change, Inv, TypeOK, NoMoreThanInstalled, Found
<1>7. CASE UserAsks
  BY <1>7 DEF UserAsks, Inv, TypeOK, NoMoreThanInstalled, Found
<1>8. CASE UNCHANGED vars
  BY <1>8 DEF vars, Inv, TypeOK, NoMoreThanInstalled, Found
<1> QED
  BY <1>1, <1>2, <1>3, <1>4, <1>5, <1>6, <1>7, <1>8 DEF Next

THEOREM Invariance == Spec => []Inv
<1> QED
  BY InitInv, NextInv, PTL DEF Spec

\* TypeCorrect: for any classes, configurations and objects, also those that
\* change between two starts, objects are placed on names of shards, and a
\* process that runs has a configuration (the fields a first pass fills in).
THEOREM TypeCorrect == Spec => []TypeOK
<1>1. Inv => TypeOK
  BY DEF Inv
<1> QED
  BY <1>1, Invariance, PTL

\* CountRespected: no class ever gets more shards than ingress classes with a
\* number were found, with gaps or without, whatever is configured.
THEOREM CountRespected == Spec => []NoMoreThanInstalled
<1>1. Inv => NoMoreThanInstalled
  BY DEF Inv
<1> QED
  BY <1>1, Invariance, PTL

\* PlacementSound: without a gap in the numbers of its class, an object is
\* placed only on ingress classes the process found in the cluster.
THEOREM PlacementSound == Spec => PlacedWhereInstalled
<1>1. ASSUME Inv, [Next]_vars
      PROVE  [\A k \in Key :
                 placed'[k] # placed[k] /\ Sound(asks[k].class)
                 => placed'[k] \subseteq checked]_vars
  <2>1. CASE Pass
    <3> SUFFICES ASSUME NEW k \in Key, placed'[k] # placed[k],
                        Sound(asks[k].class), NEW n \in placed'[k]
                 PROVE  n \in checked
      OBVIOUS
    <3>1. PICK j \in Key : Place(j)
      BY <2>1 DEF Pass
    <3>2. j = k /\ Place(k) /\ placed'[k] = Placed(k, asks[k], maxShards[asks[k].class])
      BY <1>1, <3>1 DEF Place, Inv, TypeOK
    <3> DEFINE c == asks[k].class
               found == Cardinality(Found(c))
    <3>3. c \in DOMAIN maxShards /\ maxShards[c] \in Nat
      BY <1>1, <3>2 DEF Place, Inv, TypeOK
    <3>4. maxShards[c] <= found /\ found \in Nat
      BY <1>1, <2>1, <3>3, FoundFinite DEF Inv, NoMoreThanInstalled, Pass
    <3>5. CASE maxShards[c] = 0 /\ n = <<c>>
      BY <3>5 DEF Sound
    <3>6. CASE \E i \in Nat : i < maxShards[c] /\ n = <<c, i>>
      <4>1. PICK i \in Nat : i < maxShards[c] /\ n = <<c, i>>
        BY <3>6
      <4>2. Found(c) = 0 .. found - 1
        BY DEF Sound
      <4>3. i \in 0 .. found - 1
        BY <3>3, <3>4, <4>1
      <4> QED
        BY <4>1, <4>2, <4>3 DEF Found
    <3> QED
      BY <1>1, <3>2, <3>3, <3>5, <3>6, PlacedBelow DEF Inv
  <2>2. CASE ~Pass
    <3>1. placed' = placed
      BY <1>1, <2>2
      DEF Next, Start, Crash, FirstPass, FirstPassFails, ClassesChange,
          ConfigChanges, Change, UserAsks, vars
    <3> QED
      BY <3>1
  <2> QED
    BY <2>1, <2>2
<1> QED
  BY <1>1, Invariance, PTL DEF Spec, PlacedWhereInstalled

----------------------------------------------------------------------------
(* What stays where it was put.                                             *)

\* The shards a process works with that starts now.
Usual == Checked(Configured)

\* A process that is not outdated works with those, and an object that is
\* pinned was placed by them.
Remembered ==
    /\ process = "started" /\ ~outdated => maxShards = Configured
    /\ process = "initialized" /\ ~outdated => maxShards = Usual
    /\ outdated => pinned = {}
    /\ \A k \in pinned :
          placed[k] = Placed(k, asks[k], Usual[asks[k].class])

LEMMA RememberedInit == Init => Remembered
BY DEF Init, Remembered

LEMMA RememberedNext == Inv /\ Remembered /\ [Next]_vars => Remembered'
<1> SUFFICES ASSUME Inv, Remembered, [Next]_vars PROVE Remembered'
  OBVIOUS
<1>1. ASSUME UNCHANGED <<installed, file, env>>
      PROVE  Usual' = Usual /\ Configured' = Configured
  BY <1>1 DEF Usual, Configured, Checked, Numbers
<1>2. CASE Start
  BY <1>1, <1>2 DEF Start, Remembered
<1>3. CASE Crash
  BY <1>1, <1>3 DEF Crash, Remembered
<1>4. CASE FirstPass
  <2>1. Usual' = Usual /\ Configured' = Configured
    BY <1>1, <1>4 DEF FirstPass
  <2>2. ~outdated => maxShards' = Usual
    BY <1>4 DEF FirstPass, Remembered, Usual
  <2> QED
    BY <1>4, <2>1, <2>2 DEF FirstPass, Remembered
<1>5. CASE FirstPassFails
  BY <1>1, <1>5 DEF FirstPassFails, Remembered
<1>6. CASE Pass
  <2>1. PICK k \in Key : Place(k)
    BY <1>6 DEF Pass
  <2>2. Usual' = Usual /\ Configured' = Configured
    BY <1>1, <1>6 DEF Pass
  <2>3. ~outdated => maxShards = Usual
    BY <1>6 DEF Pass, Remembered
  <2>4. ASSUME NEW j \in pinned'
        PROVE  placed'[j] = Placed(j, asks[j], Usual[asks[j].class])
    <3>1. CASE j = k
      BY <2>1, <2>3, <2>4, <3>1 DEF Place, Inv, TypeOK
    <3>2. CASE j # k
      BY <2>1, <2>4, <3>2 DEF Place, Inv, TypeOK, Remembered
    <3> QED
      BY <3>1, <3>2
  <2>5. outdated => pinned' = {}
    BY <2>1 DEF Place, Remembered
  <2> QED
    BY <1>6, <2>2, <2>3, <2>4, <2>5 DEF Pass, Remembered
<1>7. CASE ClassesChange \/ ConfigChanges
  BY <1>7 DEF ClassesChange, ConfigChanges, Change, Remembered
<1>8. CASE UserAsks
  <2>1. PICK k \in Key : /\ asks' = [asks EXCEPT ![k] = asks'[k]]
                         /\ pinned' = pinned \ {k}
                         /\ UNCHANGED <<installed, file, env, process,
                                        maxShards, placed, outdated>>
    BY <1>8 DEF UserAsks, Inv, TypeOK
  <2> QED
    BY <1>1, <2>1 DEF Remembered, Inv, TypeOK
<1>9. CASE UNCHANGED vars
  BY <1>1, <1>9 DEF vars, Remembered
<1> QED
  BY <1>2, <1>3, <1>4, <1>5, <1>6, <1>7, <1>8, <1>9 DEF Next

\* NeverDisplaced: restarts, crashes and lists that fail never move an object,
\* for any hash and any number of shards; only changes do.
THEOREM NeverDisplaced == Spec => StaysPut
<1>1. ASSUME Inv, Remembered, [Next]_vars
      PROVE  [\A k \in Key : k \in pinned => placed'[k] = placed[k]]_vars
  <2>1. CASE Pass
    <3> SUFFICES ASSUME NEW k \in Key, k \in pinned
                 PROVE  placed'[k] = placed[k]
      OBVIOUS
    <3>1. PICK j \in Key : Place(j)
      BY <2>1 DEF Pass
    <3>2. ~outdated /\ maxShards = Usual
      BY <1>1, <2>1 DEF Pass, Remembered
    <3> QED
      BY <1>1, <3>1, <3>2 DEF Place, Remembered, Inv, TypeOK
  <2>2. CASE ~Pass
    <3>1. placed' = placed
      BY <1>1, <2>2
      DEF Next, Start, Crash, FirstPass, FirstPassFails, ClassesChange,
          ConfigChanges, Change, UserAsks, vars
    <3> QED
      BY <3>1
  <2> QED
    BY <2>1, <2>2
<1> QED
  BY <1>1, Invariance, RememberedInit, RememberedNext, PTL DEF Spec, StaysPut
=============================================================================
