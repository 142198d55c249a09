------------------------------ MODULE HomaPrios ------------------------------
(***************************************************************************)
(* The priority cutoff table of struct homa (src/homa_utils.c).            *)
(*                                                                         *)
(* unsched_cutoffs[i] is the largest message length that is sent           *)
(* unscheduled at priority i; a message of length len uses the highest     *)
(* enabled priority i (i < num_priorities) with unsched_cutoffs[i] >= len. *)
(* Priorities 0 .. max_sched_prio are left for scheduled (granted) bytes.  *)
(*                                                                         *)
(* homa_init installs the defaults; an administrator changes the table     *)
(* through sysctl, whose handler writes the new value into struct homa and *)
(* then runs homa_prios_changed.  None of this is under a lock, so the     *)
(* receive path of another core may build a CUTOFFS packet from the table *)
(* at any point of that handler: the write, the clamp and every iteration  *)
(* of the loop of homa_prios_changed are separate steps here.              *)
(***************************************************************************)
EXTENDS Integers

CONSTANTS
    MaxPriorities,     \* HOMA_MAX_PRIORITIES
    MaxMessageLength,  \* HOMA_MAX_MESSAGE_LENGTH
    IntMax,            \* INT_MAX
    NumPrioInputs,     \* values an administrator may write to num_priorities
    CutoffInputs,      \* values an administrator may write to a cutoff entry
    MaxReconfigs       \* bound on the number of sysctl writes in one run

ASSUME ConstantsAssumption ==
    /\ MaxPriorities \in Nat /\ MaxPriorities >= 8   \* _Static_assert of homa_init
    /\ MaxMessageLength \in Nat /\ MaxMessageLength > 15000
    /\ IntMax \in Nat /\ IntMax >= MaxMessageLength
    /\ NumPrioInputs \subseteq Int
    /\ CutoffInputs \subseteq Int
    /\ MaxReconfigs \in Nat

\* The inputs for which homa_prios_changed is well defined: it clamps
\* num_priorities from above only (line 697).
PositiveNumPrioInputs == NumPrioInputs \subseteq Nat \ {0}

Prios == 0 .. MaxPriorities - 1

VARIABLES
    unsched_cutoffs,   \* homa->unsched_cutoffs
    num_priorities,    \* homa->num_priorities
    max_sched_prio,    \* homa->max_sched_prio
    cutoff_version,    \* homa->cutoff_version
    sysctl,            \* where the sysctl handler is: "idle", "written", "loop"
    prio_i,            \* the loop variable i of homa_prios_changed
    peer_cutoffs,      \* the cutoffs of the last CUTOFFS packet sent to a peer
    peer_version       \* the version that packet carried (0: none sent yet)

vars == <<unsched_cutoffs, num_priorities, max_sched_prio, cutoff_version,
          sysctl, prio_i, peer_cutoffs, peer_version>>

-----------------------------------------------------------------------------
(* homa_init: entries below HOMA_MAX_PRIORITIES-4 are not written and keep *)
(* the zeroes of the static struct homa; the production build starts at   *)
(* cutoff_version 1.                                                       *)
Init ==
    /\ num_priorities = MaxPriorities
    /\ unsched_cutoffs = [i \in Prios |->
                             CASE i = MaxPriorities - 1 -> 200
                               [] i = MaxPriorities - 2 -> 2800
                               [] i = MaxPriorities - 3 -> 15000
                               [] i = MaxPriorities - 4 -> MaxMessageLength
                               [] OTHER -> 0]
    /\ max_sched_prio = MaxPriorities - 5
    /\ cutoff_version = 1
    /\ sysctl = "idle"
    /\ prio_i = 0
    /\ peer_cutoffs = [i \in Prios |-> IntMax]
    /\ peer_version = 0

(* The sysctl handler stores what the administrator wrote: num_priorities, *)
(* or (writing a prefix of the array) one cutoff entry.                    *)
WriteNumPriorities ==
    /\ sysctl = "idle"
    /\ cutoff_version < 1 + MaxReconfigs
    /\ \E n \in NumPrioInputs : num_priorities' = n
    /\ sysctl' = "written"
    /\ UNCHANGED <<unsched_cutoffs, max_sched_prio, cutoff_version, prio_i,
                   peer_cutoffs, peer_version>>

WriteCutoff ==
    /\ sysctl = "idle"
    /\ cutoff_version < 1 + MaxReconfigs
    /\ \E i \in Prios, v \in CutoffInputs :
          unsched_cutoffs' = [unsched_cutoffs EXCEPT ![i] = v]
    /\ sysctl' = "written"
    /\ UNCHANGED <<num_priorities, max_sched_prio, cutoff_version, prio_i,
                   peer_cutoffs, peer_version>>

(* Seeded fault: the scan starts at HOMA_MAX_PRIORITIES, one past the     *)
(* array.                                                                  *)
PriosChangedBeginPastEnd ==
    /\ sysctl = "written"
    /\ num_priorities' = IF num_priorities > MaxPriorities
                         THEN MaxPriorities ELSE num_priorities
    /\ unsched_cutoffs' = [unsched_cutoffs EXCEPT ![0] = IntMax]
    /\ prio_i' = MaxPriorities
    /\ sysctl' = "loop"
    /\ UNCHANGED <<max_sched_prio, cutoff_version, peer_cutoffs, peer_version>>

(* homa_prios_changed up to its loop: clamp num_priorities, make priority  *)
(* 0 the catch-all, start the scan at the highest priority.                *)
PriosChangedBegin ==
    /\ sysctl = "written"
    /\ num_priorities' = IF num_priorities > MaxPriorities
                         THEN MaxPriorities ELSE num_priorities
    /\ unsched_cutoffs' = [unsched_cutoffs EXCEPT ![0] = IntMax]
    /\ prio_i' = MaxPriorities - 1
    /\ sysctl' = "loop"
    /\ UNCHANGED <<max_sched_prio, cutoff_version, peer_cutoffs, peer_version>>

(* Seeded fault: the break path forgets cutoff_version++.                 *)
CommitKeepVersion(m) ==
    /\ max_sched_prio' = m
    /\ cutoff_version' = cutoff_version
    /\ sysctl' = "idle"
    /\ UNCHANGED <<num_priorities, prio_i, peer_cutoffs, peer_version>>

(* The loop leaves through break: it records max_sched_prio and bumps the  *)
(* version (line 720).                                                     *)
Commit(m) ==
    /\ max_sched_prio' = m
    /\ cutoff_version' = cutoff_version + 1
    /\ sysctl' = "idle"
    /\ UNCHANGED <<num_priorities, prio_i, peer_cutoffs, peer_version>>

(* One iteration of the loop; it reads unsched_cutoffs[i], so i must lie   *)
(* in the array for the iteration to be defined.                           *)
PriosSkipDisabled ==
    /\ sysctl = "loop" /\ prio_i \in Prios
    /\ prio_i >= num_priorities
    /\ unsched_cutoffs' = [unsched_cutoffs EXCEPT ![prio_i] = 0]
    /\ prio_i' = prio_i - 1
    /\ UNCHANGED <<num_priorities, max_sched_prio, cutoff_version, sysctl,
                   peer_cutoffs, peer_version>>

PriosReachZero ==
    /\ sysctl = "loop" /\ prio_i \in Prios
    /\ prio_i < num_priorities
    /\ prio_i = 0
    /\ unsched_cutoffs' = [unsched_cutoffs EXCEPT ![0] = IntMax]
    /\ Commit(0)

(* Seeded fault: max_sched_prio = i instead of i-1.                       *)
PriosFoundUnschedNoDecrement ==
    /\ sysctl = "loop" /\ prio_i \in Prios
    /\ prio_i < num_priorities
    /\ prio_i # 0
    /\ unsched_cutoffs[prio_i] >= MaxMessageLength
    /\ Commit(prio_i)
    /\ UNCHANGED unsched_cutoffs

PriosFoundUnsched ==
    /\ sysctl = "loop" /\ prio_i \in Prios
    /\ prio_i < num_priorities
    /\ prio_i # 0
    /\ unsched_cutoffs[prio_i] >= MaxMessageLength
    /\ Commit(prio_i - 1)
    /\ UNCHANGED unsched_cutoffs

PriosScanDown ==
    /\ sysctl = "loop" /\ prio_i \in Prios
    /\ prio_i < num_priorities
    /\ prio_i # 0
    /\ unsched_cutoffs[prio_i] < MaxMessageLength
    /\ prio_i' = prio_i - 1
    /\ UNCHANGED <<unsched_cutoffs, num_priorities, max_sched_prio,
                   cutoff_version, sysctl, peer_cutoffs, peer_version>>

(* The receive path answers a DATA packet whose cutoff_version differs     *)
(* from homa->cutoff_version with a CUTOFFS packet built from the table.   *)
SendCutoffs ==
    /\ peer_version # cutoff_version
    /\ peer_cutoffs' = unsched_cutoffs
    /\ peer_version' = cutoff_version
    /\ UNCHANGED <<unsched_cutoffs, num_priorities, max_sched_prio,
                   cutoff_version, sysctl, prio_i>>

Next ==
    \/ WriteNumPriorities
    \/ WriteCutoff
    \/ PriosChangedBegin
    \/ PriosSkipDisabled
    \/ PriosReachZero
    \/ PriosFoundUnsched
    \/ PriosScanDown
    \/ SendCutoffs

Spec == Init /\ [][Next]_vars

-----------------------------------------------------------------------------
(* Every variable holds a value of the type the C field has.               *)
TypeOK ==
    /\ unsched_cutoffs \in [Prios -> Int]
    /\ num_priorities \in NumPrioInputs \cup {MaxPriorities}
    /\ max_sched_prio \in 0 .. MaxPriorities - 2
    /\ cutoff_version \in Nat \ {0}
    /\ sysctl \in {"idle", "written", "loop"}
    /\ prio_i \in -1 .. MaxPriorities - 1
    /\ peer_cutoffs \in [Prios -> Int]
    /\ peer_version \in Nat

(* p is the priority a message of the maximum length is sent at under the *)
(* table c with n enabled priorities: the highest enabled level whose     *)
(* cutoff covers that length.                                              *)
CoversMaxLength(c, n, p) ==
    /\ p \in 0 .. n - 1
    /\ c[p] >= MaxMessageLength
    /\ \A j \in p + 1 .. n - 1 : c[j] < MaxMessageLength

(* Once homa_prios_changed has finished, the scheduled priorities lie      *)
(* strictly below every priority an unscheduled packet can use: a          *)
(* max-length message (and so every shorter one) maps to max_sched_prio+1, *)
(* or, when no cutoff above 0 covers it, everything shares priority 0.     *)
SchedBelowUnsched ==
    sysctl = "idle" =>
        \/ CoversMaxLength(unsched_cutoffs, num_priorities, max_sched_prio + 1)
        \/ /\ max_sched_prio = 0
           /\ CoversMaxLength(unsched_cutoffs, num_priorities, 0)

(* A peer that holds the current cutoff_version holds the current table:   *)
(* the version bump of homa_prios_changed comes after every change it and *)
(* the sysctl write make, so comparing versions is enough to decide        *)
(* whether a peer needs a CUTOFFS packet.                                  *)
PeerTableCurrent ==
    (sysctl = "idle" /\ peer_version = cutoff_version)
        => peer_cutoffs = unsched_cutoffs

(* Every CUTOFFS packet carries a table in which a message of the maximum *)
(* length maps to some priority (spec: priority 0's threshold is always    *)
(* the maximum); the peer's lookup scans down with no lower bound.         *)
SentTableCoversMaxLength ==
    \E i \in Prios : peer_cutoffs[i] >= MaxMessageLength

=============================================================================
