-------------------------- MODULE MCShardedIngress --------------------------
(* One ShardedIngress that may ask for class "a" or "b".                    *)
EXTENDS ShardedIngressReconciler

CONSTANTS a, b, t1, t2

Sharded == [c \in Class |-> 1]
TwoShards == [c \in Class |-> 2]
BareB == [c \in Class |-> IF c = b THEN 0 ELSE 1]
AllBare == [c \in Class |-> 0]
UnknownB == [c \in Class |-> IF c = b THEN Unknown ELSE 1]
ConfigsBare == {Sharded, BareB}
ConfigsAny == {Sharded, BareB, AllBare, UnknownB}
ConfigsScaled == {Sharded, TwoShards}
ConfigsSharded == {Sharded}
=============================================================================
