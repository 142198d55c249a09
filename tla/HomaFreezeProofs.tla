-------------------------- MODULE HomaFreezeProofs --------------------------
(***************************************************************************)
(* Proofs about the freeze path (module HomaFreeze), for any set of cores, *)
(* peers and freeze types.                                                 *)
(***************************************************************************)
EXTENDS HomaFreeze, TLAPS

(***************************************************************************)
(* FreezeReachesKnownPeers is not inductive: it speaks of finished         *)
(* broadcasts only.  What makes it hold is carried along the path of one   *)
(* core: the peer table only grows, so the peers known at tt_freeze are    *)
(* still there at get_peers; from then on each of them is either sent to   *)
(* or still in the snapshot.  A core that has frozen or finished a         *)
(* broadcast has seen tt_frozen set, so it never freezes again and its     *)
(* record of known peers is never overwritten.                             *)
(***************************************************************************)
CoreInv(c) ==
    /\ pc[c] \in {"scan", "getpeers"} => known[c] \subseteq peers
    /\ pc[c] = "send" => known[c] \subseteq attempted[c] \cup todo[c]
    /\ pc[c] \in {"scan", "getpeers", "send"} => tt_frozen
    /\ outcome[c] # "none" => tt_frozen
    /\ outcome[c] = "sent" => known[c] \subseteq attempted[c]
    /\ pc[c] \in {"freeze", "scan", "getpeers", "send"} => outcome[c] = "none"

KInv == TypeOK /\ \A c \in Cores : CoreInv(c)

-----------------------------------------------------------------------------
(* homa_init starts every variable in its type.                           *)
LEMMA TypeInit == Init => TypeOK
<1> SUFFICES ASSUME Init PROVE TypeOK
  OBVIOUS
<1>1. pc \in [Cores -> PCs] /\ outcome \in [Cores -> Outcomes]
  BY DEF Init, PCs, Outcomes
<1>2. arms \in 0 .. MaxArms
  BY FreezeAssumption DEF Init
<1>3. QED
  BY <1>1, <1>2 DEF Init, TypeOK

(* Every step keeps the variables in their types.                          *)
LEMMA TypeStep == TypeOK /\ [Next]_vars => TypeOK'
<1> SUFFICES ASSUME TypeOK, [Next]_vars PROVE TypeOK'
  OBVIOUS
<1>1. CASE Arm
  BY <1>1, FreezeAssumption DEF Arm, TypeOK
<1>2. CASE AddPeer
  BY <1>2 DEF AddPeer, TypeOK
<1>3. CASE ToggleSocket
  BY <1>3 DEF ToggleSocket, TypeOK
<1>4. ASSUME NEW c \in Cores, Trigger(c) PROVE TypeOK'
  BY <1>4 DEF Trigger, Goto, TypeOK, PCs
<1>5. ASSUME NEW c \in Cores, CoreStep(c) PROVE TypeOK'
  <2>1. CASE ClearType(c)
    BY <2>1 DEF ClearType, Goto, TypeOK, PCs
  <2>2. CASE TestFrozen(c)
    BY <2>2 DEF TestFrozen, TypeOK, PCs
  <2>3. CASE FreezeTimetrace(c)
    BY <2>3 DEF FreezeTimetrace, Goto, TypeOK, PCs
  <2>4. CASE FindSocket(c)
    BY <2>4 DEF FindSocket, TypeOK, PCs, Outcomes
  <2>5. CASE GetPeers(c)
    BY <2>5 DEF GetPeers, TypeOK, PCs, Outcomes
  <2>6. CASE \E p \in Peers, err \in BOOLEAN : SendFreeze(c, p, err)
    BY <2>6 DEF SendFreeze, TypeOK
  <2>7. CASE SendDone(c)
    BY <2>7 DEF SendDone, TypeOK, PCs, Outcomes
  <2>8. QED
    BY <1>5, <2>1, <2>2, <2>3, <2>4, <2>5, <2>6, <2>7 DEF CoreStep
<1>6. CASE UNCHANGED vars
  BY <1>6 DEF vars, TypeOK
<1>7. QED
  BY <1>1, <1>2, <1>3, <1>4, <1>5, <1>6 DEF Next

(* Every reachable state has its variables in their types.                 *)
THEOREM FreezeTypeCorrect == Spec => []TypeOK
  BY TypeInit, TypeStep, PTL DEF Spec

-----------------------------------------------------------------------------
(* Every FREEZE broadcast of homa_freeze_peers that got a socket and a    *)
(* peer list has sent to every peer known when the timetrace froze, for   *)
(* any number of cores and peers and whichever sends fail.                *)
THEOREM KnownPeersInvariant == Spec => []FreezeReachesKnownPeers
<1>1. Init => KInv
  BY TypeInit DEF Init, KInv, CoreInv
<1>2. KInv /\ [Next]_vars => KInv'
  <2> SUFFICES ASSUME KInv, [Next]_vars PROVE KInv'
    OBVIOUS
  <2>0. TypeOK'
    BY TypeStep DEF KInv
  <2> SUFFICES ASSUME NEW d \in Cores PROVE CoreInv(d)'
    BY <2>0 DEF KInv
  <2>1. CASE Arm \/ ToggleSocket
    BY <2>1 DEF Arm, ToggleSocket, KInv, CoreInv
  <2>2. CASE AddPeer
    BY <2>2 DEF AddPeer, KInv, CoreInv
  <2>3. ASSUME NEW c \in Cores, Trigger(c) PROVE CoreInv(d)'
    BY <2>3 DEF Trigger, Goto, KInv, TypeOK, CoreInv
  <2>4. ASSUME NEW c \in Cores, CoreStep(c) PROVE CoreInv(d)'
    <3> USE DEF KInv, TypeOK
    <3>1. CASE ClearType(c)
      BY <3>1 DEF ClearType, Goto, CoreInv
    <3>2. CASE TestFrozen(c)
      BY <3>2 DEF TestFrozen, CoreInv
    <3>3. CASE FreezeTimetrace(c)
      BY <3>3 DEF FreezeTimetrace, Goto, CoreInv
    <3>4. CASE FindSocket(c)
      BY <3>4 DEF FindSocket, CoreInv
    <3>5. CASE GetPeers(c)
      BY <3>5 DEF GetPeers, CoreInv
    <3>6. CASE \E p \in Peers, err \in BOOLEAN : SendFreeze(c, p, err)
      BY <3>6 DEF SendFreeze, CoreInv
    <3>7. CASE SendDone(c)
      BY <3>7 DEF SendDone, CoreInv
    <3>8. QED
      BY <2>4, <3>1, <3>2, <3>3, <3>4, <3>5, <3>6, <3>7 DEF CoreStep
  <2>5. CASE UNCHANGED vars
    BY <2>5 DEF vars, KInv, CoreInv
  <2>6. QED
    BY <2>1, <2>2, <2>3, <2>4, <2>5 DEF Next
<1>3. KInv => FreezeReachesKnownPeers
  BY DEF KInv, CoreInv, FreezeReachesKnownPeers
<1>4. QED
  BY <1>1, <1>2, <1>3, PTL DEF Spec

=============================================================================
