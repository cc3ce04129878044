------------------------ MODULE MCPropertyCollector ------------------------
(* Instances of PropertyCollector for TLC. *)
EXTENDS PropertyCollector

CONSTANTS a, b, c, w1, w2

JustA == {<<a>>}
Either == {<<a, c>>, <<b, c>>}
=============================================================================
