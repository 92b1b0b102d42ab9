----------------------------- MODULE MCApplyPlan -----------------------------
(* The apply clock with two shards of one class, a class of its own and two *)
(* objects: an object may be placed on one shard or on the whole class.     *)
EXTENDS ApplyPlan, TLC

CONSTANTS o1, o2, s0, s1

MCObject == {o1, o2}
MCShard == {s0, s1}
MCKnownShards == {s0}
MCPlacement == {<<s0>>, <<s1>>, <<s0, s1>>}

Symmetry == Permutations(MCObject)
=============================================================================
