------------------------- MODULE MCShardedHTTPProxy -------------------------
(* One ShardedHTTPProxy on class "a" or "b" with three hosts, of which      *)
(* templates take the first away, bring it back and append another one.     *)
EXTENDS ShardedHTTPProxyReconciler

CONSTANTS a, b, x, y, z, tY, tXY, tYZ

MCHostsOf == [t \in Template |-> CASE t = tY -> <<y>>
                                   [] t = tXY -> <<x, y>>
                                   [] t = tYZ -> <<y, z>>]
MCContentOf == [t \in Template |-> CHOOSE u \in Template : TRUE]

Sharded == [c \in Class |-> 1]
BareB == [c \in Class |-> IF c = b THEN 0 ELSE 1]
ConfigsSharded == {Sharded}
ConfigsMoves == {Sharded, BareB}
=============================================================================
