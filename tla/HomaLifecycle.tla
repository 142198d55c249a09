----------------------------- MODULE HomaLifecycle -----------------------------
(***************************************************************************)
(* Bringing struct homa up and down (src/homa_utils.c): homa_init with     *)
(* each of its allocation failure points, the pacer kernel thread it       *)
(* starts, and homa_destroy, which the caller must run after homa_init     *)
(* whatever it returned.                                                   *)
(*                                                                         *)
(* The objects are abstracted to their allocation state: the per-node      *)
(* homa_numas, the shared core_memory, the socket and peer tables, the     *)
(* metrics buffer and the pacer thread.  homa_init and homa_destroy run on *)
(* one thread; the pacer runs beside them from kthread_run on.            *)
(***************************************************************************)
EXTENDS Naturals

CONSTANTS
    NrCpus,      \* nr_cpu_ids
    MaxNumNodes, \* MAX_NUMNODES
    Topologies,  \* the cpu_to_node maps the machine may have
    MaxDestroys  \* bound on the number of homa_destroy calls

ASSUME LifecycleAssumption ==
    /\ NrCpus \in Nat \ {0}
    /\ MaxNumNodes \in Nat \ {0}
    /\ Topologies \subseteq [0 .. NrCpus - 1 -> 0 .. MaxNumNodes - 1]
    /\ MaxDestroys \in Nat

Nodes == 0 .. MaxNumNodes - 1

VARIABLES
    cpu_to_node,   \* the machine's map from CPU to NUMA node, fixed at boot
    status,        \* where homa_init is, or what it returned
    cpu,           \* the loop variable i of the NUMA loop of homa_init
    homa_numas,    \* per node: "null" or "live"
    homa_num_numas,
    core_memory,   \* "null" or "live"
    port_map,      \* the socket table: "uninit", "live", "destroyed"
    peertab,       \* the peer table: "uninit", "live", "destroyed"
    pacer_kthread, \* "null" or "live"
    pacer,         \* the pacer thread: "none", "running", "exited"
    pacer_exit,    \* homa->pacer_exit
    kthread_done,  \* count of homa_pacer_kthread_done
    metrics,       \* homa->metrics: "null", "live", or "dangling" once freed
    heap_error,    \* a kfree of memory already freed has happened
    dpc,           \* where homa_destroy is
    destroys       \* number of homa_destroy calls so far

vars == <<cpu_to_node, status, cpu, homa_numas, homa_num_numas, core_memory, port_map,
          peertab, pacer_kthread, pacer, pacer_exit, kthread_done, metrics,
          heap_error, dpc, destroys>>

initVars == <<cpu_to_node, status, cpu, homa_numas, homa_num_numas, core_memory>>
tableVars == <<port_map, peertab>>
pacerVars == <<pacer_kthread, pacer, pacer_exit, kthread_done>>
destroyVars == <<metrics, heap_error, dpc, destroys>>

-----------------------------------------------------------------------------
(* struct homa and the module's globals start zeroed.                      *)
Init ==
    /\ cpu_to_node \in Topologies
    /\ status = "numa"
    /\ cpu = 0
    /\ homa_numas = [n \in Nodes |-> "null"]
    /\ homa_num_numas = 0
    /\ core_memory = "null"
    /\ port_map = "uninit"
    /\ peertab = "uninit"
    /\ pacer_kthread = "null"
    /\ pacer = "none"
    /\ pacer_exit = FALSE
    /\ kthread_done = 0
    /\ metrics = "null"
    /\ heap_error = FALSE
    /\ dpc = "idle"
    /\ destroys = 0

(* One iteration of the NUMA loop (lines 44-57): a node not seen yet gets  *)
(* a kmalloc'ed homa_numa whose page pool is then initialised; a failed    *)
(* kmalloc is not checked and line 53 writes through NULL.                 *)
InitNuma ==
    /\ status = "numa" /\ cpu < NrCpus
    /\ LET n == cpu_to_node[cpu] IN
         IF homa_numas[n] = "live"
         THEN /\ cpu' = cpu + 1
              /\ UNCHANGED <<homa_numas, homa_num_numas, status>>
         ELSE \/ /\ homa_numas' = [homa_numas EXCEPT ![n] = "live"]
                 /\ homa_num_numas' = IF n >= homa_num_numas THEN n + 1
                                      ELSE homa_num_numas
                 /\ cpu' = cpu + 1
                 /\ UNCHANGED status
              \/ /\ status' = "crashed"
                 /\ UNCHANGED <<homa_numas, homa_num_numas, cpu>>
    /\ UNCHANGED <<cpu_to_node, core_memory, tableVars, pacerVars, destroyVars>>

InitNumaDone ==
    /\ status = "numa" /\ cpu = NrCpus
    /\ status' = "cores"
    /\ UNCHANGED <<cpu_to_node, cpu, homa_numas, homa_num_numas, core_memory, tableVars,
                   pacerVars, destroyVars>>

(* Lines 63-93: core_memory is vmalloc'ed once; its failure returns        *)
(* -ENOMEM before anything else is set up.                                 *)
InitCores ==
    /\ status = "cores"
    /\ \/ /\ core_memory = "null"
          /\ core_memory' = "live"
          /\ status' = "tables"
       \/ /\ core_memory = "null"
          /\ status' = "failed"
          /\ UNCHANGED core_memory
       \/ /\ core_memory = "live"
          /\ status' = "tables"
          /\ UNCHANGED core_memory
    /\ UNCHANGED <<cpu_to_node, cpu, homa_numas, homa_num_numas, tableVars, pacerVars,
                   destroyVars>>

(* Lines 95-130: pacer_kthread = NULL, init_completion, the socket table, *)
(* then the peer table, whose allocation may fail.                        *)
InitTables ==
    /\ status = "tables"
    /\ pacer_kthread' = "null"
    /\ kthread_done' = 0
    /\ port_map' = "live"
    /\ \/ peertab' = "live" /\ status' = "kthread"
       \/ status' = "failed" /\ UNCHANGED peertab
    /\ UNCHANGED <<cpu_to_node, cpu, homa_numas, homa_num_numas, core_memory, pacer,
                   pacer_exit, destroyVars>>

(* Seeded fault: the kthread_run error path keeps the ERR_PTR.            *)
InitKthreadKeepErr ==
    /\ status = "kthread"
    /\ \/ /\ pacer_kthread' = "live"
          /\ pacer' = "running"
          /\ status' = "finish"
       \/ /\ pacer_kthread' = "live"
          /\ status' = "failed"
          /\ UNCHANGED pacer
    /\ UNCHANGED <<cpu_to_node, cpu, homa_numas, homa_num_numas, core_memory, tableVars,
                   pacer_exit, kthread_done, destroyVars>>

(* Lines 131-179: kthread_run starts the pacer, or fails and homa_init    *)
(* returns its error with pacer_kthread NULL again.                        *)
InitKthread ==
    /\ status = "kthread"
    /\ \/ /\ pacer_kthread' = "live"
          /\ pacer' = "running"
          /\ status' = "finish"
       \/ /\ pacer_kthread' = "null"
          /\ status' = "failed"
          /\ UNCHANGED pacer
    /\ UNCHANGED <<cpu_to_node, cpu, homa_numas, homa_num_numas, core_memory, tableVars,
                   pacer_exit, kthread_done, destroyVars>>

(* Lines 180-203: pacer_exit = false, the remaining fields, return 0.     *)
InitFinish ==
    /\ status = "finish"
    /\ pacer_exit' = FALSE
    /\ status' = "up"
    /\ UNCHANGED <<cpu_to_node, cpu, homa_numas, homa_num_numas, core_memory, tableVars,
                   pacer_kthread, pacer, kthread_done, destroyVars>>

(* homa_pacer_main, modelled from the spec: the thread leaves its loop     *)
(* once it sees pacer_exit and signals homa_pacer_kthread_done.            *)
PacerExit ==
    /\ pacer = "running" /\ pacer_exit
    /\ pacer' = "exited"
    /\ kthread_done' = kthread_done + 1
    /\ UNCHANGED <<initVars, tableVars, pacer_kthread, pacer_exit, destroyVars>>

(* homa_metrics_open, modelled from the spec: reading the metrics file     *)
(* allocates homa->metrics.                                                *)
MetricsOpen ==
    /\ status = "up" /\ dpc = "idle"
    /\ metrics = "null"
    /\ metrics' = "live"
    /\ UNCHANGED <<initVars, tableVars, pacerVars, heap_error, dpc, destroys>>

(* Seeded fault: homa_destroy stops the pacer but does not wait for it.   *)
DestroyStartNoWait ==
    /\ status \in {"up", "failed"} /\ dpc \in {"idle", "done"}
    /\ destroys < MaxDestroys
    /\ destroys' = destroys + 1
    /\ dpc' = "tables"
    /\ IF pacer_kthread = "live"
       THEN pacer_exit' = TRUE /\ pacer_kthread' = "null"
       ELSE UNCHANGED <<pacer_exit, pacer_kthread>>
    /\ UNCHANGED <<initVars, tableVars, pacer, kthread_done, metrics,
                   heap_error>>

(* homa_destroy, lines 214-215: a started pacer is told to stop            *)
(* (homa_pacer_stop sets pacer_exit, wakes the thread and forgets it).     *)
DestroyStart ==
    /\ status \in {"up", "failed"} /\ dpc \in {"idle", "done"}
    /\ destroys < MaxDestroys
    /\ destroys' = destroys + 1
    /\ IF pacer_kthread = "live"
       THEN /\ pacer_exit' = TRUE /\ pacer_kthread' = "null"
            /\ dpc' = "wait"
       ELSE /\ UNCHANGED <<pacer_exit, pacer_kthread>>
            /\ dpc' = "tables"
    /\ UNCHANGED <<initVars, tableVars, pacer, kthread_done, metrics,
                   heap_error>>

(* Line 216: wait_for_completion(&homa_pacer_kthread_done).                *)
DestroyWait ==
    /\ dpc = "wait" /\ kthread_done > 0
    /\ kthread_done' = kthread_done - 1
    /\ dpc' = "tables"
    /\ UNCHANGED <<initVars, tableVars, pacer_kthread, pacer, pacer_exit,
                   metrics, heap_error, destroys>>

(* Lines 219-221: homa_socktab_destroy, then homa_peertab_destroy, called  *)
(* whatever homa_init reached.  Their bodies are not under src/; spec      *)
(* 7(a) requires them to be safe on a table never initialised (zeroed) or *)
(* already destroyed, so each leaves its table torn down.                  *)
DestroyTables ==
    /\ dpc = "tables"
    /\ port_map' = "destroyed"
    /\ peertab' = "destroyed"
    /\ dpc' = "release"
    /\ UNCHANGED <<initVars, pacerVars, metrics, heap_error, destroys>>

(* Seeded fault: the NUMA loop stops one short of homa_num_numas.          *)
DestroyReleaseShortLoop ==
    /\ dpc = "release"
    /\ homa_numas' = [n \in Nodes |->
                        IF n < homa_num_numas - 1 THEN "null" ELSE homa_numas[n]]
    /\ core_memory' = "null"
    /\ metrics' = IF metrics = "live" THEN "dangling" ELSE metrics
    /\ heap_error' = (heap_error \/ metrics = "dangling")
    /\ dpc' = "done"
    /\ UNCHANGED <<cpu_to_node, status, cpu, homa_num_numas, tableVars, pacerVars, destroys>>

(* Lines 222-238: homa_skb_cleanup (line 222) frees the skb page pools,  *)
(* which are data of the homa_numas and not modelled apart; every         *)
(* homa_numa and core_memory are freed and NULLed; homa->metrics is        *)
(* kfree'd and keeps its value.                                            *)
DestroyRelease ==
    /\ dpc = "release"
    /\ homa_numas' = [n \in Nodes |-> "null"]
    /\ core_memory' = "null"
    /\ metrics' = IF metrics = "live" THEN "dangling" ELSE metrics
    /\ heap_error' = (heap_error \/ metrics = "dangling")
    /\ dpc' = "done"
    /\ UNCHANGED <<cpu_to_node, status, cpu, homa_num_numas, tableVars, pacerVars, destroys>>

DestroyStep == DestroyWait \/ DestroyTables \/ DestroyRelease

Next ==
    \/ InitNuma \/ InitNumaDone \/ InitCores \/ InitTables \/ InitKthread
    \/ InitFinish
    \/ PacerExit
    \/ MetricsOpen
    \/ DestroyStart
    \/ DestroyStep

(* The pacer is a kernel thread and homa_destroy's caller runs it to the  *)
(* end: both are scheduled.  Nothing forces homa_destroy to be called.     *)
Spec == Init /\ [][Next]_vars /\ WF_vars(PacerExit) /\ WF_vars(DestroyStep)

-----------------------------------------------------------------------------
TypeOK ==
    /\ cpu_to_node \in Topologies
    /\ status \in {"numa", "cores", "tables", "kthread", "finish", "up",
                   "failed", "crashed"}
    /\ cpu \in 0 .. NrCpus
    /\ homa_numas \in [Nodes -> {"null", "live"}]
    /\ homa_num_numas \in 0 .. MaxNumNodes
    /\ core_memory \in {"null", "live"}
    /\ port_map \in {"uninit", "live", "destroyed"}
    /\ peertab \in {"uninit", "live", "destroyed"}
    /\ pacer_kthread \in {"null", "live"}
    /\ pacer \in {"none", "running", "exited"}
    /\ pacer_exit \in BOOLEAN
    /\ kthread_done \in Nat
    /\ metrics \in {"null", "live", "dangling"}
    /\ heap_error \in BOOLEAN
    /\ dpc \in {"idle", "wait", "tables", "release", "done"}
    /\ destroys \in 0 .. MaxDestroys

(* Spec 4.3: the pacer thread has stopped before homa_destroy tears down  *)
(* the socket and peer tables it reads.                                    *)
PacerStoppedBeforeTeardown ==
    pacer = "running" => port_map # "destroyed" /\ peertab # "destroyed"

(* After homa_destroy returns, on every path through homa_init, nothing    *)
(* homa_init or the metrics reader allocated is still held, and the pacer  *)
(* thread is gone.                                                         *)
NothingLeaked ==
    dpc = "done" =>
        /\ \A n \in Nodes : homa_numas[n] = "null"
        /\ core_memory = "null"
        /\ port_map # "live" /\ peertab # "live"
        /\ metrics # "live"
        /\ pacer # "running"

(* Spec 5: homa_destroy never blocks for good; once called it returns.    *)
DestroyReturns ==
    dpc \in {"wait", "tables", "release"} ~> dpc = "done"

(* The refinement mapping to HomaLifecycleAbstract: homa_init is up from  *)
(* the moment the pacer thread exists; a resource is held while its        *)
(* pointer is live (the metrics buffer only while not freed); the pacer is *)
(* stopping once pacer_exit is set; homa_destroy is stopping while it      *)
(* waits for the completion and releasing from the tables on.              *)
AbsPhase ==
    IF status \in {"finish", "up"} THEN "up"
    ELSE IF status = "failed" THEN "failed"
    ELSE "init"

AbsHeld ==
    (IF \E n \in Nodes : homa_numas[n] = "live" THEN {"numa"} ELSE {})
    \cup (IF core_memory = "live" THEN {"cores"} ELSE {})
    \cup (IF port_map = "live" \/ peertab = "live" THEN {"tables"} ELSE {})
    \cup (IF metrics = "live" THEN {"metrics"} ELSE {})

AbsThread ==
    IF pacer = "running" THEN (IF pacer_exit THEN "stopping" ELSE "running")
    ELSE IF pacer = "exited" THEN "stopped"
    ELSE "none"

AbsTeardown ==
    IF dpc = "wait" THEN "stopping"
    ELSE IF dpc \in {"tables", "release"} THEN "releasing"
    ELSE dpc

Abs == INSTANCE HomaLifecycleAbstract
        WITH phase <- AbsPhase, held <- AbsHeld, thread <- AbsThread,
             teardown <- AbsTeardown

(* homa_init, the pacer thread and homa_destroy together behave as the     *)
(* abstract lifecycle: resources are taken only while homa_init runs or by *)
(* the metrics reader, homa_destroy starts only after homa_init returned,  *)
(* releases nothing until the pacer has stopped, and returns with nothing  *)
(* held, on every failure path and for every call of homa_destroy.         *)
ImplementsAbstract == Abs!Spec

(* Spec 7(a): homa_init reports an allocation failure by returning an      *)
(* error; it never goes on with the failed pointer.                        *)
AllocFailureReported == status # "crashed"

(* Spec 7: teardown is idempotent; a second homa_destroy frees nothing     *)
(* twice.                                                                  *)
NoDoubleFree == ~heap_error

=============================================================================
