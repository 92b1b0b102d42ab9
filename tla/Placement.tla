------------------------------ MODULE Placement ------------------------------
(****************************************************************************)
(* Where objects go: the number of shards of each class between the         *)
(* configuration (src/internal/config/config.go) and the ingress classes of *)
(* the cluster (CheckClusterShards and getShardInfo of                      *)
(* src/internal/controller/reconciler.go), while both change, calls fail    *)
(* and the operator restarts.  The configuration is read when the process   *)
(* starts and the ingress classes at its first pass; neither is read again. *)
(* The apply plans CheckClusterShards creates are those of ApplyPlan.       *)
(****************************************************************************)
EXTENDS Integers, FiniteSets

CONSTANTS
    Class,          \* classes that may be asked for or configured
    Suffix,         \* numbers at the end of the names of ingress classes
    Key,            \* sharded objects
    HashOf,         \* xxhash of the namespace of an object
    Shards,         \* what users configure: functions from classes to Nat
    MaxChanges,     \* bound on changes of the cluster and the configuration
    MaxStarts,      \* bound on starts of the operator
    MaxFailures     \* bound on failing lists of ingress classes

ASSUME KeysAssumption == HashOf \in [Key -> Nat]

ASSUME NumbersAssumption ==
    /\ Suffix \subseteq Nat /\ IsFiniteSet(Suffix)
    /\ {MaxChanges, MaxStarts, MaxFailures} \subseteq Nat

ASSUME ShardsAssumption ==
    \A s \in Shards : DOMAIN s \subseteq Class /\ s \in [DOMAIN s -> Nat]

VARIABLES
    installed,  \* the ingress classes in the cluster
    file,       \* the shards in the config file
    env,        \* ... in the environment: none if unset or not valid JSON
    process,    \* "down", "started" or "initialized"
    maxShards,  \* r.MaxShards
    asks,       \* the class of each object, and whether on all its shards
    placed,     \* the shards each object was last placed on
    checked,    \* history: installed, as the process found it
    outdated,   \* history: was anything changed since the process started?
    pinned,     \* history: objects placed from what did not change since
    changes, starts, failures

vars == <<installed, file, env, process, maxShards, asks, placed, checked,
          outdated, pinned, changes, starts, failures>>

----------------------------------------------------------------------------
(* The functions of the code.                                               *)

\* An ingress class is named "class" or "class-number".
ClassName == {<<c>> : c \in Class} \cup (Class \X Suffix)

\* LoadConfig: the environment replaces the shards of the file, all of them.
Configured == IF env = {} THEN file ELSE CHOOSE s \in env : TRUE

\* The numbers the ingress classes of a class carry.
Numbers(c) == {i \in Suffix : <<c, i>> \in installed}

\* Mutant of Checked: the highest number counts, not how many there are.
CheckedByHighest(shards) ==
    [c \in DOMAIN shards |->
        IF \E i \in Numbers(c) : i + 1 >= shards[c] THEN shards[c]
        ELSE IF Numbers(c) = {} THEN 0
        ELSE 1 + CHOOSE i \in Numbers(c) : \A j \in Numbers(c) : j <= i]

\* CheckClusterShards: never more shards than ingress classes with a number.
Checked(shards) ==
    [c \in DOMAIN shards |-> IF Cardinality(Numbers(c)) < shards[c]
                             THEN Cardinality(Numbers(c)) ELSE shards[c]]

\* Mutant of Placed: shards are numbered from one.
PlacedFromOne(k, ask, max) ==
    IF max = 0 THEN {<<ask.class>>}
    ELSE {<<ask.class, i + 1>> :
            i \in IF ask.all THEN 0 .. max - 1 ELSE {HashOf[k] % max}}

\* getShardInfo, with max shards of the class.
Placed(k, ask, max) ==
    IF max = 0 THEN {<<ask.class>>}
    ELSE {<<ask.class, i>> :
            i \in IF ask.all THEN 0 .. max - 1 ELSE {HashOf[k] % max}}

----------------------------------------------------------------------------
(* The operator.                                                            *)

\* Mutant of Start: the shards are not validated.
StartUnvalidated ==
    /\ process = "down"
    /\ starts < MaxStarts
    /\ starts' = starts + 1
    /\ process' = "started"
    /\ maxShards' = Configured
    /\ outdated' = FALSE
    /\ UNCHANGED <<installed, file, env, asks, placed, checked, pinned,
                   changes, failures>>

\* LoadConfig and validateConfig: a process without shards does not start.
Start ==
    /\ process = "down"
    /\ starts < MaxStarts
    /\ starts' = starts + 1
    /\ DOMAIN Configured # {}
    /\ process' = "started"
    /\ maxShards' = Configured
    /\ outdated' = FALSE
    /\ UNCHANGED <<installed, file, env, asks, placed, checked, pinned,
                   changes, failures>>

Crash ==
    /\ process # "down"
    /\ process' = "down"
    /\ UNCHANGED <<installed, file, env, maxShards, asks, placed, checked,
                   outdated, pinned, changes, starts, failures>>

\* Where the pass of an object puts it.
Place(k) ==
    /\ asks[k].class \in DOMAIN maxShards
    /\ placed' = [placed EXCEPT ![k] =
                     Placed(k, asks[k], maxShards[asks[k].class])]
    /\ pinned' = IF outdated THEN pinned \ {k} ELSE pinned \cup {k}

\* Mutant of FirstPassFails: the process counts as initialized.
FirstPassInitializes ==
    /\ process = "started"
    /\ failures < MaxFailures
    /\ failures' = failures + 1
    /\ process' = "initialized"
    /\ UNCHANGED <<installed, file, env, maxShards, asks, placed, checked,
                   outdated, pinned, changes, starts>>

\* The first pass lists the ingress classes; when that fails the next pass is
\* a first pass again.
FirstPassFails ==
    /\ process = "started"
    /\ failures < MaxFailures
    /\ failures' = failures + 1
    /\ UNCHANGED <<installed, file, env, process, maxShards, asks, placed,
                   checked, outdated, pinned, changes, starts>>

FirstPass ==
    /\ process = "started"
    /\ process' = "initialized"
    /\ maxShards' = Checked(maxShards)
    /\ checked' = installed
    /\ UNCHANGED <<installed, file, env, asks, placed, outdated, pinned,
                   changes, starts, failures>>

Pass ==
    /\ process = "initialized"
    /\ \E k \in Key : Place(k)
    /\ UNCHANGED <<installed, file, env, process, maxShards, asks, checked,
                   outdated, changes, starts, failures>>

----------------------------------------------------------------------------
(* Administrators and users.                                                *)

Change(classes, f, e) ==
    /\ changes < MaxChanges
    /\ changes' = changes + 1
    /\ <<classes, f, e>> # <<installed, file, env>>
    /\ installed' = classes /\ file' = f /\ env' = e
    /\ outdated' = TRUE
    /\ pinned' = {}
    /\ UNCHANGED <<process, maxShards, asks, placed, checked, starts, failures>>

ClassesChange ==
    \E n \in ClassName :
       \/ Change(installed \cup {n}, file, env)
       \/ Change(installed \ {n}, file, env)

ConfigChanges ==
    \/ \E s \in Shards : Change(installed, s, env)
    \/ \E e \in {{}} \cup {{s} : s \in Shards} : Change(installed, file, e)

Ask == [class : Class, all : BOOLEAN]

UserAsks ==
    \E k \in Key, ask \in Ask :
       /\ ask # asks[k]
       /\ changes < MaxChanges
       /\ changes' = changes + 1
       /\ asks' = [asks EXCEPT ![k] = ask]
       /\ pinned' = pinned \ {k}
       /\ UNCHANGED <<installed, file, env, process, maxShards, placed,
                      checked, outdated, starts, failures>>

Init ==
    /\ installed \in SUBSET ClassName
    /\ file \in Shards
    /\ env = {}
    /\ process = "down"
    /\ maxShards = [c \in {} |-> 0]
    /\ asks \in [Key -> Ask]
    /\ placed = [k \in Key |-> {}]
    /\ checked = {}
    /\ outdated = FALSE
    /\ pinned = {}
    /\ changes = 0 /\ starts = 0 /\ failures = 0

Next == \/ Start \/ Crash \/ FirstPass \/ FirstPassFails \/ Pass
        \/ ClassesChange \/ ConfigChanges \/ UserAsks

Spec == Init /\ [][Next]_vars

----------------------------------------------------------------------------

TypeOK ==
    /\ installed \subseteq ClassName /\ checked \subseteq ClassName
    /\ file \in Shards /\ env \in {{}} \cup {{s} : s \in Shards}
    /\ process \in {"down", "started", "initialized"}
    /\ DOMAIN maxShards \subseteq Class /\ maxShards \in [DOMAIN maxShards -> Nat]
    /\ asks \in [Key -> Ask]
    /\ process # "down" => DOMAIN maxShards # {}
    /\ placed \in [Key -> SUBSET ({<<c>> : c \in Class} \cup (Class \X Nat))]
    /\ outdated \in BOOLEAN /\ pinned \subseteq Key
    /\ changes \in 0..MaxChanges /\ starts \in 0..MaxStarts
    /\ failures \in 0..MaxFailures

\* The ingress classes the process found are numbered from zero without a
\* gap, and there is one with the bare name if it is used.
Found(c) == {i \in Suffix : <<c, i>> \in checked}

Sound(c) ==
    /\ Found(c) = 0 .. Cardinality(Found(c)) - 1
    /\ maxShards[c] = 0 => <<c>> \in checked

\* PlacedWhereInstalled: whatever number of shards is configured, an object is
\* placed only on ingress classes the process found in the cluster, as long as
\* those of its class are numbered from zero without a gap: CheckClusterShards
\* counts them, and getShardInfo takes the count for numbers.
PlacedWhereInstalled ==
    [][\A k \in Key :
          placed'[k] # placed[k] /\ Sound(asks[k].class)
          => placed'[k] \subseteq checked]_vars

\* NoMoreThanInstalled: with gaps or without, a class never gets more shards
\* than the cluster has ("The controller does not allow you to install more
\* shards than there are in the cluster", README.md:16), counted when the
\* process last looked, and however its first look failed.
NoMoreThanInstalled ==
    process = "initialized" =>
        \A c \in DOMAIN maxShards :
            maxShards[c] <= Cardinality(Found(c))

\* StaysPut: no object moves to other shards by a restart or a failing call
\* alone: it takes a change of the cluster, of the configuration or of the
\* object.
StaysPut ==
    [][\A k \in Key : k \in pinned => placed'[k] = placed[k]]_vars
=============================================================================
