---------------------------- MODULE MCRoundRobin ----------------------------
(* roundrobin.c for TLC: three flights at 4000 feet, four quanta each.       *)
EXTENDS RoundRobin
=============================================================================
