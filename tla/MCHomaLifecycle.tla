--------------------------- MODULE MCHomaLifecycle ---------------------------
(* Three CPUs on two NUMA nodes, so that the NUMA loop both allocates and  *)
(* skips a node already seen; homa_destroy may be called twice.            *)
EXTENDS HomaLifecycle

MCNrCpus == 3
MCMaxNumNodes == 2
MCTopologies == [0 .. 2 -> 0 .. 1]
MCMaxDestroys == 2
=============================================================================
