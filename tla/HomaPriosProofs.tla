--------------------------- MODULE HomaPriosProofs ---------------------------
(***************************************************************************)
(* Proofs about the priority cutoff table (module HomaPrios), for every    *)
(* value of its constants.                                                 *)
(***************************************************************************)
EXTENDS HomaPrios, TLAPS

(***************************************************************************)
(* What the scan of homa_prios_changed has established when it is about to *)
(* look at index prio_i: num_priorities is clamped and positive, priority  *)
(* 0 is the catch-all, and no enabled level above prio_i covers a          *)
(* max-length message (otherwise the scan would have stopped there).       *)
(***************************************************************************)
LoopInv ==
    /\ num_priorities \in 1 .. MaxPriorities
    /\ prio_i \in Prios
    /\ unsched_cutoffs[0] = IntMax
    /\ \A j \in prio_i + 1 .. num_priorities - 1 :
          unsched_cutoffs[j] < MaxMessageLength

(* The inductive invariant behind SchedBelowUnsched.                       *)
IInv ==
    /\ TypeOK
    /\ sysctl = "loop" => LoopInv
    /\ SchedBelowUnsched

(* The inductive invariant behind PeerTableCurrent: the peer never holds a *)
(* version newer than the table's.                                         *)
PInv ==
    /\ TypeOK
    /\ peer_version <= cutoff_version
    /\ PeerTableCurrent

-----------------------------------------------------------------------------
(* homa_init starts every variable in its type.                           *)
LEMMA TypeInit == Init => TypeOK
  BY ConstantsAssumption DEF Init, TypeOK, Prios

(* Every step keeps the variables in their types: homa_prios_changed never *)
(* stores an out-of-range max_sched_prio.                                  *)
LEMMA TypeStep == TypeOK /\ [Next]_vars => TypeOK'
<1> SUFFICES ASSUME TypeOK, [Next]_vars PROVE TypeOK'
  OBVIOUS
<1>1. CASE WriteNumPriorities
  BY <1>1 DEF WriteNumPriorities, TypeOK
<1>2. CASE WriteCutoff
  BY <1>2, ConstantsAssumption DEF WriteCutoff, TypeOK
<1>3. CASE PriosChangedBegin
  BY <1>3, ConstantsAssumption DEF PriosChangedBegin, TypeOK, Prios
<1>4. CASE PriosSkipDisabled
  BY <1>4, ConstantsAssumption DEF PriosSkipDisabled, TypeOK, Prios
<1>5. CASE PriosReachZero
  BY <1>5, ConstantsAssumption DEF PriosReachZero, Commit, TypeOK, Prios
<1>6. CASE PriosFoundUnsched
  BY <1>6, ConstantsAssumption DEF PriosFoundUnsched, Commit, TypeOK, Prios
<1>7. CASE PriosScanDown
  BY <1>7, ConstantsAssumption DEF PriosScanDown, TypeOK, Prios
<1>8. CASE SendCutoffs
  BY <1>8 DEF SendCutoffs, TypeOK
<1>9. CASE UNCHANGED vars
  BY <1>9 DEF vars, TypeOK
<1>10. QED
  BY <1>1, <1>2, <1>3, <1>4, <1>5, <1>6, <1>7, <1>8, <1>9 DEF Next

(* Every reachable state has its variables in their types.                 *)
THEOREM TypeCorrect == Spec => []TypeOK
  BY TypeInit, TypeStep, PTL DEF Spec

-----------------------------------------------------------------------------
(* With positive num_priorities inputs IInv holds in every state: the scan *)
(* state and the committed split are both maintained.                      *)
LEMMA IInvHolds ==
    ASSUME PositiveNumPrioInputs
    PROVE  Spec => []IInv
<1>1. Init => IInv
  <2> SUFFICES ASSUME Init PROVE IInv
    OBVIOUS
  <2>1. TypeOK
    BY TypeInit
  <2>2. CoversMaxLength(unsched_cutoffs, num_priorities, max_sched_prio + 1)
    <3>1. unsched_cutoffs[MaxPriorities - 4] = MaxMessageLength
      BY ConstantsAssumption DEF Init, Prios
    <3>2. ASSUME NEW j \in MaxPriorities - 3 .. MaxPriorities - 1
          PROVE  unsched_cutoffs[j] < MaxMessageLength
      <4>1. j = MaxPriorities - 3 \/ j = MaxPriorities - 2 \/ j = MaxPriorities - 1
        BY ConstantsAssumption
      <4>2. QED
        BY <4>1, ConstantsAssumption DEF Init, Prios
    <3>3. num_priorities = MaxPriorities /\ max_sched_prio = MaxPriorities - 5
      BY DEF Init
    <3>4. QED
      BY <3>1, <3>2, <3>3, ConstantsAssumption DEF CoversMaxLength
  <2>3. QED
    BY <2>1, <2>2 DEF Init, IInv, SchedBelowUnsched
<1>2. IInv /\ [Next]_vars => IInv'
  <2> SUFFICES ASSUME IInv, [Next]_vars PROVE IInv'
    OBVIOUS
  <2> USE ConstantsAssumption
  <2>0. TypeOK'
    BY TypeStep DEF IInv
  <2>1. CASE WriteNumPriorities \/ WriteCutoff
    BY <2>0, <2>1 DEF WriteNumPriorities, WriteCutoff, IInv, SchedBelowUnsched
  <2>2. CASE PriosChangedBegin
    <3>1. num_priorities \in Nat \ {0}
      BY DEF IInv, TypeOK, PositiveNumPrioInputs
    <3>2. LoopInv'
      BY <2>2, <3>1 DEF PriosChangedBegin, IInv, TypeOK, LoopInv, Prios
    <3>3. QED
      BY <2>0, <2>2, <3>2 DEF PriosChangedBegin, IInv, SchedBelowUnsched
  <2>3. CASE PriosSkipDisabled
    <3>1. LoopInv'
      BY <2>3 DEF PriosSkipDisabled, IInv, TypeOK, LoopInv, Prios
    <3>2. QED
      BY <2>0, <2>3, <3>1 DEF PriosSkipDisabled, IInv, SchedBelowUnsched
  <2>4. CASE PriosScanDown
    <3>1. LoopInv'
      BY <2>4 DEF PriosScanDown, IInv, TypeOK, LoopInv, Prios
    <3>2. QED
      BY <2>0, <2>4, <3>1 DEF PriosScanDown, IInv, SchedBelowUnsched
  <2>5. CASE PriosReachZero
    <3>1. CoversMaxLength(unsched_cutoffs, num_priorities, 0)'
      BY <2>5 DEF PriosReachZero, Commit, IInv, TypeOK, LoopInv,
                  CoversMaxLength, Prios
    <3>2. QED
      BY <2>0, <2>5, <3>1 DEF PriosReachZero, Commit, IInv, SchedBelowUnsched
  <2>6. CASE PriosFoundUnsched
    <3>1. CoversMaxLength(unsched_cutoffs, num_priorities, max_sched_prio + 1)'
      BY <2>6 DEF PriosFoundUnsched, Commit, IInv, TypeOK, LoopInv,
                  CoversMaxLength, Prios
    <3>2. QED
      BY <2>0, <2>6, <3>1 DEF PriosFoundUnsched, Commit, IInv, SchedBelowUnsched
  <2>7. CASE SendCutoffs
    BY <2>0, <2>7 DEF SendCutoffs, IInv, LoopInv, SchedBelowUnsched,
                      CoversMaxLength
  <2>8. CASE UNCHANGED vars
    BY <2>0, <2>8 DEF vars, IInv, LoopInv, SchedBelowUnsched, CoversMaxLength
  <2>9. QED
    BY <2>1, <2>2, <2>3, <2>4, <2>5, <2>6, <2>7, <2>8 DEF Next
<1>3. QED
  BY <1>1, <1>2, PTL DEF Spec

(* With positive num_priorities inputs, every completed run of             *)
(* homa_prios_changed leaves the scheduled priorities strictly below the   *)
(* priorities unscheduled packets use (or all at 0).                       *)
THEOREM SchedSplitInvariant ==
    ASSUME PositiveNumPrioInputs
    PROVE  Spec => []SchedBelowUnsched
<1>1. IInv => SchedBelowUnsched
  BY DEF IInv
<1>2. QED
  BY <1>1, IInvHolds, PTL

-----------------------------------------------------------------------------
(* A peer holding the current cutoff_version holds the current table, for *)
(* any inputs: the version bump of homa_prios_changed (line 720) follows  *)
(* every change to the table.                                              *)
THEOREM PeerTableCurrentInvariant == Spec => []PeerTableCurrent
<1>1. Init => PInv
  BY TypeInit DEF Init, PInv, PeerTableCurrent
<1>2. PInv /\ [Next]_vars => PInv'
  <2> SUFFICES ASSUME PInv, [Next]_vars PROVE PInv'
    OBVIOUS
  <2>0. TypeOK'
    BY TypeStep DEF PInv
  <2>1. CASE WriteNumPriorities \/ WriteCutoff
    BY <2>0, <2>1 DEF WriteNumPriorities, WriteCutoff, PInv, PeerTableCurrent
  <2>2. CASE PriosChangedBegin \/ PriosSkipDisabled \/ PriosScanDown
    BY <2>0, <2>2 DEF PriosChangedBegin, PriosSkipDisabled, PriosScanDown,
                      PInv, PeerTableCurrent
  <2>3. CASE PriosReachZero \/ PriosFoundUnsched
    BY <2>0, <2>3 DEF PriosReachZero, PriosFoundUnsched, Commit, PInv,
                      TypeOK, PeerTableCurrent
  <2>4. CASE SendCutoffs
    BY <2>0, <2>4 DEF SendCutoffs, PInv, TypeOK, PeerTableCurrent
  <2>5. CASE UNCHANGED vars
    BY <2>0, <2>5 DEF vars, PInv, PeerTableCurrent
  <2>6. QED
    BY <2>1, <2>2, <2>3, <2>4, <2>5 DEF Next
<1>3. QED
  BY <1>1, <1>2, PTL DEF Spec, PInv

=============================================================================
