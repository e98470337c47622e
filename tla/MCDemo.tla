------------------------------- MODULE MCDemo --------------------------------
(* Demo with the setup of main.c and, for a queue that fills up and tasks  *)
(* that share a slice, every setup of two priorities and sleeps of 1, 2    *)
(* and 4 ticks.                                                            *)
EXTENDS Demo

MCSetups ==
    {MainSetup} \cup [priority : [Tasks -> {1, 2}], sleep : [Tasks -> {1, 2, 4}]]
=============================================================================
