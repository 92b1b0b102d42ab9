------------------------- MODULE MCIngressComparison -------------------------
(* Two aliases, one a part of the other, and two TLS hosts, one of the main *)
(* domain.                                                                  *)
EXTENDS IngressComparison

CONSTANTS short, long, main, other, s1, s2, hooked, r1, r2

MCWithin == {<<short, short>>, <<long, long>>, <<short, long>>}
=============================================================================
