------------------------- MODULE HomaLifecycleProofs -------------------------
(***************************************************************************)
(* Proofs about bringing struct homa up and down (module HomaLifecycle),   *)
(* for any number of CPUs and NUMA nodes, any topology and any number of   *)
(* homa_destroy calls.                                                     *)
(***************************************************************************)
EXTENDS HomaLifecycle, TLAPS

(***************************************************************************)
(* Why the pacer is stopped before the tables go.  While homa_init runs,   *)
(* homa_destroy has not been called and nothing is torn down; the          *)
(* completion is fresh when the thread starts.  A running pacer has not    *)
(* completed, so homa_destroy is either not called yet (and then it will   *)
(* find pacer_kthread set and wait) or it is waiting, and the wait ends    *)
(* only after the thread has completed, that is, has stopped running.      *)
(***************************************************************************)
LInv ==
    /\ TypeOK
    /\ status \in {"numa", "cores", "tables", "kthread", "finish"}
          => dpc = "idle" /\ port_map # "destroyed" /\ peertab # "destroyed"
    /\ status \in {"numa", "cores", "tables", "kthread"} => pacer = "none"
    /\ status = "kthread" => kthread_done = 0
    /\ pacer = "running" =>
          /\ kthread_done = 0
          /\ dpc \in {"idle", "wait"}
          /\ dpc = "idle" => pacer_kthread = "live"
          /\ port_map # "destroyed" /\ peertab # "destroyed"

(***************************************************************************)
(* Why every step is a step of the abstract lifecycle.  A live             *)
(* pacer_kthread is a running pacer not yet told to stop, so homa_destroy *)
(* finding it set moves the abstract pacer from running to stopping, and  *)
(* finding it NULL leaves no pacer running.  pacer_exit stays false while  *)
(* homa_init runs, so InitFinish's reset changes nothing.  The tables are *)
(* live when the thread is started.  The completion is signalled only by  *)
(* an exited pacer, so the wait ends with the pacer stopped.  The tables   *)
(* are gone when homa_destroy frees the rest, which then holds nothing.   *)
(***************************************************************************)
RInv ==
    /\ LInv
    /\ pacer_kthread = "live" => pacer = "running" /\ ~pacer_exit
    /\ status = "kthread" => port_map = "live"
    /\ status \in {"numa", "cores", "tables", "kthread", "finish"} => ~pacer_exit
    /\ pacer \in {"none", "running"} => kthread_done = 0
    /\ dpc = "release" => port_map # "live" /\ peertab # "live"

-----------------------------------------------------------------------------
(* The zeroed struct homa has its variables in their types.               *)
LEMMA TypeInit == Init => TypeOK
<1> SUFFICES ASSUME Init PROVE TypeOK
  OBVIOUS
<1>1. pacer_exit \in BOOLEAN /\ heap_error \in BOOLEAN
  BY DEF Init
<1>2. homa_numas \in [Nodes -> {"null", "live"}]
  BY DEF Init
<1>3. /\ cpu \in 0 .. NrCpus
      /\ homa_num_numas \in 0 .. MaxNumNodes /\ destroys \in 0 .. MaxDestroys
  BY LifecycleAssumption DEF Init
<1>4. QED
  BY <1>1, <1>2, <1>3 DEF Init, TypeOK

(* Every step keeps the variables in their types: the NUMA loop stays     *)
(* inside nr_cpu_ids and homa_num_numas inside MAX_NUMNODES.               *)
LEMMA TypeStep == TypeOK /\ [Next]_vars => TypeOK'
<1> SUFFICES ASSUME TypeOK, [Next]_vars PROVE TypeOK'
  OBVIOUS
<1> USE LifecycleAssumption
<1>1. CASE InitNuma
  <2>1. cpu_to_node[cpu] \in Nodes
    BY <1>1 DEF InitNuma, TypeOK, Nodes
  <2>2. QED
    BY <1>1, <2>1 DEF InitNuma, TypeOK, Nodes, tableVars, pacerVars,
                      destroyVars
<1>2. CASE InitNumaDone
  BY <1>2 DEF InitNumaDone, TypeOK, tableVars, pacerVars, destroyVars
<1>3. CASE InitCores
  BY <1>3 DEF InitCores, TypeOK, tableVars, pacerVars, destroyVars
<1>4. CASE InitTables
  BY <1>4 DEF InitTables, TypeOK, destroyVars
<1>5. CASE InitKthread
  BY <1>5 DEF InitKthread, TypeOK, tableVars, destroyVars
<1>6. CASE InitFinish
  BY <1>6 DEF InitFinish, TypeOK, tableVars, destroyVars
<1>7. CASE PacerExit
  BY <1>7 DEF PacerExit, TypeOK, initVars, tableVars, destroyVars
<1>8. CASE MetricsOpen
  BY <1>8 DEF MetricsOpen, TypeOK, initVars, tableVars, pacerVars
<1>9. CASE DestroyStart
  <2>1. pacer_exit' \in BOOLEAN
    BY <1>9 DEF DestroyStart, TypeOK
  <2>2. QED
    BY <1>9, <2>1 DEF DestroyStart, TypeOK, initVars, tableVars
<1>10. CASE DestroyWait
  BY <1>10 DEF DestroyWait, TypeOK, initVars, tableVars
<1>11. CASE DestroyTables
  BY <1>11 DEF DestroyTables, TypeOK, initVars, pacerVars
<1>12. CASE DestroyRelease
  <2>1. heap_error' \in BOOLEAN
    BY <1>12 DEF DestroyRelease, TypeOK
  <2>2. QED
    BY <1>12, <2>1 DEF DestroyRelease, TypeOK, tableVars, pacerVars, Nodes
<1>13. CASE UNCHANGED vars
  BY <1>13 DEF vars, TypeOK
<1>14. QED
  BY <1>1, <1>2, <1>3, <1>4, <1>5, <1>6, <1>7, <1>8, <1>9, <1>10, <1>11,
     <1>12, <1>13 DEF Next, DestroyStep

(* Every reachable state has its variables in their types.                 *)
THEOREM LifecycleTypeCorrect == Spec => []TypeOK
  BY TypeInit, TypeStep, PTL DEF Spec

-----------------------------------------------------------------------------
(* Every step keeps LInv.                                                   *)
LEMMA LInvStep == LInv /\ [Next]_vars => LInv'
<1> SUFFICES ASSUME LInv, [Next]_vars PROVE LInv'
  OBVIOUS
<1>0. TypeOK'
  BY TypeStep DEF LInv
<1>1. CASE InitNuma
  BY <1>0, <1>1 DEF InitNuma, LInv, tableVars, pacerVars, destroyVars
<1>2. CASE InitNumaDone \/ InitCores \/ InitTables
  BY <1>0, <1>2 DEF InitNumaDone, InitCores, InitTables, LInv, tableVars,
                    pacerVars, destroyVars
<1>3. CASE InitKthread \/ InitFinish
  BY <1>0, <1>3 DEF InitKthread, InitFinish, LInv, tableVars, destroyVars
<1>4. CASE PacerExit \/ MetricsOpen
  BY <1>0, <1>4 DEF PacerExit, MetricsOpen, LInv, initVars, tableVars,
                    pacerVars, destroyVars
<1>5. CASE DestroyStart
  BY <1>0, <1>5 DEF DestroyStart, LInv, TypeOK, initVars, tableVars
<1>6. CASE DestroyWait
  BY <1>0, <1>6 DEF DestroyWait, LInv, initVars, tableVars
<1>7. CASE DestroyTables \/ DestroyRelease
  BY <1>0, <1>7 DEF DestroyTables, DestroyRelease, LInv, TypeOK, initVars,
                    pacerVars
<1>8. CASE UNCHANGED vars
  BY <1>0, <1>8 DEF vars, LInv
<1>9. QED
  BY <1>1, <1>2, <1>3, <1>4, <1>5, <1>6, <1>7, <1>8 DEF Next, DestroyStep

(* On every path through homa_init and for any number of homa_destroy      *)
(* calls, the pacer thread is no longer running once the socket or peer    *)
(* table has been torn down.                                               *)
THEOREM PacerStopsFirst == Spec => []PacerStoppedBeforeTeardown
<1>1. Init => LInv
  BY TypeInit DEF Init, LInv
<1>2. LInv => PacerStoppedBeforeTeardown
  BY DEF LInv, PacerStoppedBeforeTeardown
<1>3. QED
  BY <1>1, <1>2, LInvStep, PTL DEF Spec

-----------------------------------------------------------------------------
(* The zeroed struct homa satisfies RInv.                                  *)
LEMMA RInvInit == Init => RInv
BY TypeInit DEF Init, RInv, LInv

(* Every step keeps RInv.                                                  *)
LEMMA RInvStep == RInv /\ [Next]_vars => RInv'
<1> SUFFICES ASSUME RInv, [Next]_vars PROVE RInv'
  OBVIOUS
<1>0. LInv' /\ TypeOK'
  BY LInvStep DEF RInv, LInv
<1>1. CASE InitNuma \/ InitNumaDone \/ InitCores
  BY <1>0, <1>1 DEF InitNuma, InitNumaDone, InitCores, RInv, LInv, tableVars,
                    pacerVars, destroyVars
<1>2. CASE InitTables
  BY <1>0, <1>2 DEF InitTables, RInv, LInv, destroyVars
<1>3. CASE InitKthread \/ InitFinish
  BY <1>0, <1>3 DEF InitKthread, InitFinish, RInv, LInv, tableVars,
                    destroyVars
<1>4. CASE PacerExit \/ MetricsOpen
  BY <1>0, <1>4 DEF PacerExit, MetricsOpen, RInv, LInv, initVars, tableVars,
                    pacerVars, destroyVars
<1>5. CASE DestroyStart
  BY <1>0, <1>5 DEF DestroyStart, RInv, LInv, TypeOK, initVars, tableVars
<1>6. CASE DestroyWait
  BY <1>0, <1>6 DEF DestroyWait, RInv, LInv, TypeOK, initVars, tableVars
<1>7. CASE DestroyTables \/ DestroyRelease
  BY <1>0, <1>7 DEF DestroyTables, DestroyRelease, RInv, LInv, TypeOK,
                    initVars, pacerVars
<1>8. CASE UNCHANGED vars
  BY <1>0, <1>8 DEF vars, RInv, LInv
<1>9. QED
  BY <1>1, <1>2, <1>3, <1>4, <1>5, <1>6, <1>7, <1>8 DEF Next, DestroyStep

(* Taking one resource is an Acquire step of the abstract lifecycle.       *)
LEMMA AcquireOne ==
    ASSUME NEW h, NEW h2, NEW r \in {"numa", "cores", "tables"},
           h2 = h \cup {r}
    PROVE  \E more \in SUBSET (Abs!Resources \ {"metrics"}) : h2 = h \cup more
<1>1. {r} \in SUBSET (Abs!Resources \ {"metrics"})
  BY DEF Abs!Resources
<1>2. QED
  BY <1>1

(* Taking nothing is an Acquire step too.                                  *)
LEMMA AcquireNone ==
    ASSUME NEW h
    PROVE  \E more \in SUBSET (Abs!Resources \ {"metrics"}) : h = h \cup more
<1>1. {} \in SUBSET (Abs!Resources \ {"metrics"})
  OBVIOUS
<1>2. QED
  BY <1>1

(* Every step of homa_init, the pacer and homa_destroy is a step of the   *)
(* abstract lifecycle under the mapping, or leaves the mapped state alone. *)
LEMMA RefineStep == RInv /\ [Next]_vars => [Abs!Next]_Abs!avars
<1> SUFFICES ASSUME RInv, [Next]_vars PROVE [Abs!Next]_Abs!avars
  OBVIOUS
<1> DEFINE Stutter == /\ AbsPhase' = AbsPhase /\ AbsHeld' = AbsHeld
                      /\ AbsThread' = AbsThread /\ AbsTeardown' = AbsTeardown
<1>0. Stutter => UNCHANGED Abs!avars
  BY DEF Abs!avars
<1>1. CASE InitNuma
  <2> DEFINE n == cpu_to_node[cpu]
  <2>0. n \in Nodes
    BY <1>1, LifecycleAssumption DEF InitNuma, RInv, LInv, TypeOK, Nodes
  <2>1. CASE homa_numas[n] = "live"
    BY <1>0, <1>1, <2>1 DEF InitNuma, AbsPhase, AbsHeld, AbsThread,
                            AbsTeardown, tableVars, pacerVars, destroyVars
  <2>2. CASE homa_numas[n] # "live" /\ status' = "crashed"
    BY <1>0, <1>1, <2>2 DEF InitNuma, AbsPhase, AbsHeld, AbsThread,
                            AbsTeardown, tableVars, pacerVars, destroyVars
  <2>3. CASE homa_numas[n] # "live" /\ status' # "crashed"
    <3>1. homa_numas' = [homa_numas EXCEPT ![n] = "live"] /\ status' = status
      BY <1>1, <2>3 DEF InitNuma
    <3>2. AbsHeld' = AbsHeld \cup {"numa"}
      BY <1>1, <2>0, <3>1 DEF InitNuma, AbsHeld, RInv, LInv, TypeOK,
                              tableVars, destroyVars
    <3>3. \E more \in SUBSET (Abs!Resources \ {"metrics"}) :
              AbsHeld' = AbsHeld \cup more
      BY <3>2, AcquireOne
    <3>4. Abs!Acquire
      BY <1>1, <3>1, <3>3 DEF Abs!Acquire, InitNuma, AbsPhase, AbsThread,
                              AbsTeardown, pacerVars, destroyVars
    <3>5. QED
      BY <3>4 DEF Abs!Next
  <2>4. QED
    BY <2>1, <2>2, <2>3
<1>2. CASE InitNumaDone
  BY <1>0, <1>2 DEF InitNumaDone, AbsPhase, AbsHeld, AbsThread, AbsTeardown,
                    tableVars, pacerVars, destroyVars
<1>3. CASE InitCores
  <2>1. CASE core_memory = "null" /\ core_memory' = "live"
    <3>1. AbsHeld' = AbsHeld \cup {"cores"}
      BY <1>3, <2>1 DEF InitCores, AbsHeld, tableVars, destroyVars
    <3>2. \E more \in SUBSET (Abs!Resources \ {"metrics"}) :
              AbsHeld' = AbsHeld \cup more
      BY <3>1, AcquireOne
    <3>3. Abs!Acquire
      BY <1>3, <3>2 DEF Abs!Acquire, InitCores, AbsPhase, AbsThread,
                        AbsTeardown, pacerVars, destroyVars
    <3>4. QED
      BY <3>3 DEF Abs!Next
  <2>2. CASE ~(core_memory = "null" /\ core_memory' = "live")
    <3>1. UNCHANGED core_memory /\ status' \in {"tables", "failed"}
      BY <1>3, <2>2 DEF InitCores
    <3>2. AbsHeld' = AbsHeld /\ AbsThread' = AbsThread
          /\ AbsTeardown' = AbsTeardown
      BY <1>3, <3>1 DEF InitCores, AbsHeld, AbsThread, AbsTeardown,
                        tableVars, pacerVars, destroyVars
    <3>3. CASE status' = "tables"
      BY <1>0, <1>3, <3>2, <3>3 DEF InitCores, AbsPhase
    <3>4. CASE status' = "failed"
      <4>1. \E more \in SUBSET (Abs!Resources \ {"metrics"}) :
                AbsHeld' = AbsHeld \cup more
        BY <3>2, AcquireNone
      <4>2. Abs!Acquire
        BY <1>3, <3>2, <3>4, <4>1 DEF Abs!Acquire, InitCores, AbsPhase
      <4>3. QED
        BY <4>2 DEF Abs!Next
    <3>5. QED
      BY <3>1, <3>3, <3>4
  <2>3. QED
    BY <2>1, <2>2
<1>4. CASE InitTables
  <2>1. AbsHeld' = AbsHeld \cup {"tables"}
    BY <1>4 DEF InitTables, AbsHeld, destroyVars
  <2>2. \E more \in SUBSET (Abs!Resources \ {"metrics"}) :
            AbsHeld' = AbsHeld \cup more
    BY <2>1, AcquireOne
  <2>3. Abs!Acquire
    BY <1>4, <2>2 DEF Abs!Acquire, InitTables, AbsPhase, AbsThread,
                      AbsTeardown, destroyVars
  <2>4. QED
    BY <2>3 DEF Abs!Next
<1>5. CASE InitKthread
  <2>1. AbsHeld' = AbsHeld /\ AbsTeardown' = AbsTeardown
    BY <1>5 DEF InitKthread, AbsHeld, AbsTeardown, tableVars, destroyVars
  <2>2. CASE status' = "finish"
    <3>1. Abs!Up
      BY <1>5, <2>1, <2>2 DEF Abs!Up, InitKthread, AbsPhase, AbsHeld,
                              AbsThread, RInv
    <3>2. QED
      BY <3>1 DEF Abs!Next
  <2>3. CASE status' = "failed"
    <3>1. \E more \in SUBSET (Abs!Resources \ {"metrics"}) :
              AbsHeld' = AbsHeld \cup more
      BY <2>1, AcquireNone
    <3>2. Abs!Acquire
      BY <1>5, <2>1, <2>3, <3>1 DEF Abs!Acquire, InitKthread, AbsPhase,
                                    AbsThread
    <3>3. QED
      BY <3>2 DEF Abs!Next
  <2>4. QED
    BY <1>5, <2>2, <2>3 DEF InitKthread
<1>6. CASE InitFinish
  BY <1>0, <1>6 DEF InitFinish, AbsPhase, AbsHeld, AbsThread, AbsTeardown,
                    RInv, tableVars, destroyVars
<1>7. CASE PacerExit
  <2>1. Abs!PacerStops
    BY <1>7 DEF Abs!PacerStops, PacerExit, AbsPhase, AbsHeld, AbsThread,
                AbsTeardown, initVars, tableVars, destroyVars
  <2>2. QED
    BY <2>1 DEF Abs!Next
<1>8. CASE MetricsOpen
  <2>1. Abs!OpenMetrics
    BY <1>8 DEF Abs!OpenMetrics, MetricsOpen, AbsPhase, AbsHeld, AbsThread,
                AbsTeardown, initVars, tableVars, pacerVars
  <2>2. QED
    BY <2>1 DEF Abs!Next
<1>9. CASE DestroyStart
  <2>1. AbsPhase' = AbsPhase /\ AbsHeld' = AbsHeld
        /\ AbsPhase \in {"up", "failed"} /\ AbsTeardown \in {"idle", "done"}
    BY <1>9 DEF DestroyStart, AbsPhase, AbsHeld, AbsTeardown, initVars,
                tableVars
  <2>2. CASE pacer_kthread = "live"
    <3>1. AbsThread = "running" /\ AbsThread' = "stopping"
          /\ AbsTeardown' = "stopping"
      BY <1>9, <2>2 DEF DestroyStart, AbsThread, AbsTeardown, RInv
    <3>2. QED
      BY <2>1, <3>1 DEF Abs!Next, Abs!StartDestroy
  <2>3. CASE pacer_kthread # "live"
    <3>1. AbsThread # "running" /\ AbsThread' = AbsThread
          /\ AbsTeardown' = "releasing"
      BY <1>9, <2>3 DEF DestroyStart, AbsThread, AbsTeardown, RInv, LInv
    <3>2. QED
      BY <2>1, <3>1 DEF Abs!Next, Abs!StartDestroy
  <2>4. QED
    BY <2>2, <2>3
<1>10. CASE DestroyWait
  <2>1. Abs!Stopped
    BY <1>10 DEF Abs!Stopped, DestroyWait, AbsPhase, AbsHeld, AbsThread,
                 AbsTeardown, RInv, LInv, TypeOK, initVars, tableVars
  <2>2. QED
    BY <2>1 DEF Abs!Next
<1>11. CASE DestroyTables
  <2>1. AbsHeld' \in SUBSET AbsHeld
    BY <1>11 DEF DestroyTables, AbsHeld, initVars, destroyVars
  <2>2. AbsTeardown = "releasing" /\ AbsTeardown' = "releasing"
        /\ AbsThread \in {"none", "stopped"} /\ AbsThread' = AbsThread
        /\ AbsPhase' = AbsPhase
    BY <1>11 DEF DestroyTables, AbsTeardown, AbsThread, AbsPhase, RInv, LInv,
                 TypeOK, initVars, pacerVars
  <2>3. Abs!Release
    BY <2>1, <2>2 DEF Abs!Release
  <2>4. QED
    BY <2>3 DEF Abs!Next
<1>12. CASE DestroyRelease
  <2>1. AbsHeld' = {}
    BY <1>12 DEF DestroyRelease, AbsHeld, RInv, tableVars
  <2>2. AbsTeardown = "releasing" /\ AbsTeardown' = "done"
        /\ AbsThread \in {"none", "stopped"} /\ AbsThread' = AbsThread
        /\ AbsPhase' = AbsPhase
    BY <1>12 DEF DestroyRelease, AbsTeardown, AbsThread, AbsPhase, RInv, LInv,
                 TypeOK, pacerVars
  <2>3. Abs!Release
    BY <2>1, <2>2 DEF Abs!Release
  <2>4. QED
    BY <2>3 DEF Abs!Next
<1>13. CASE UNCHANGED vars
  BY <1>0, <1>13 DEF vars, AbsPhase, AbsHeld, AbsThread, AbsTeardown
<1>14. QED
  BY <1>1, <1>2, <1>3, <1>4, <1>5, <1>6, <1>7, <1>8, <1>9, <1>10, <1>11,
     <1>12, <1>13 DEF Next, DestroyStep

(* homa_init, the pacer thread and homa_destroy implement the safety part  *)
(* of the abstract lifecycle (ImplementsAbstract without its fairness):    *)
(* resources are taken only by homa_init or the metrics reader,            *)
(* homa_destroy begins only after homa_init returned, releases nothing     *)
(* while the pacer runs, and finishes with nothing held.                   *)
THEOREM LifecycleRefinement == Spec => Abs!SafeSpec
<1>1. Init => Abs!Init
  BY DEF Init, Abs!Init, AbsPhase, AbsHeld, AbsThread, AbsTeardown
<1>2. QED
  BY <1>1, RInvInit, RInvStep, RefineStep, PTL DEF Spec, Abs!SafeSpec

-----------------------------------------------------------------------------
(* RInv with NothingLeaked: nothing can be taken once homa_destroy has     *)
(* returned, because homa_init is over and the metrics file opens only     *)
(* before teardown; the release step frees what the tables step left.      *)
NInv == RInv /\ NothingLeaked

LEMMA NInvStep == NInv /\ [Next]_vars => NInv'
<1> SUFFICES ASSUME NInv, [Next]_vars PROVE NInv'
  OBVIOUS
<1>0. RInv'
  BY RInvStep DEF NInv
<1>1. CASE DestroyRelease
  BY <1>0, <1>1 DEF DestroyRelease, NInv, NothingLeaked, RInv, LInv, tableVars,
                    pacerVars
<1>2. CASE DestroyStart \/ DestroyWait \/ DestroyTables
  BY <1>0, <1>2 DEF DestroyStart, DestroyWait, DestroyTables, NInv,
                    NothingLeaked
<1>3. CASE PacerExit \/ MetricsOpen
  BY <1>0, <1>3 DEF PacerExit, MetricsOpen, NInv, NothingLeaked, initVars,
                    tableVars, destroyVars
<1>4. CASE InitNuma \/ InitNumaDone \/ InitCores \/ InitTables
           \/ InitKthread \/ InitFinish
  <2>1. dpc = "idle" /\ dpc' = "idle"
    BY <1>4 DEF InitNuma, InitNumaDone, InitCores, InitTables, InitKthread,
                InitFinish, NInv, RInv, LInv, destroyVars
  <2>2. QED
    BY <1>0, <2>1 DEF NInv, NothingLeaked
<1>5. CASE UNCHANGED vars
  BY <1>0, <1>5 DEF vars, NInv, NothingLeaked
<1>6. QED
  BY <1>1, <1>2, <1>3, <1>4, <1>5 DEF Next, DestroyStep

(* When homa_destroy returns, on every failure path of homa_init and after *)
(* any number of calls, no homa_numa, core_memory, table or metrics buffer *)
(* is still held and the pacer thread is not running.                       *)
THEOREM NothingLeakedInvariant == Spec => []NothingLeaked
<1>1. Init => NInv
  BY RInvInit DEF Init, NInv, NothingLeaked
<1>2. NInv => NothingLeaked
  BY DEF NInv
<1>3. QED
  BY <1>1, <1>2, NInvStep, PTL DEF Spec

=============================================================================
