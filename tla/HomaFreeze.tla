------------------------------ MODULE HomaFreeze ------------------------------
(***************************************************************************)
(* The diagnostic freeze path of src/homa_utils.c: homa_freeze, called on *)
(* the receive path of any core when it observes an anomaly of some type,  *)
(* and homa_freeze_peers, the FREEZE broadcast it ends with.              *)
(*                                                                         *)
(* homa->freeze_type is armed by an administrator (sysctl) and cleared by *)
(* the first core whose anomaly matches it; tt_frozen is the timetrace's   *)
(* frozen flag.  Neither is accessed under a lock or atomically, so every *)
(* read and write of homa_freeze is a step of its own and cores interleave *)
(* between them.  The broadcast snapshots the peer table and sends one     *)
(* FREEZE per peer; any send may fail.                                     *)
(***************************************************************************)
EXTENDS Naturals

CONSTANTS
    Cores,       \* cores running the receive path
    Peers,       \* addresses a peer may be created for
    FreezeTypes, \* the values of enum homa_freeze_type an anomaly can have
    MaxArms      \* bound on the number of sysctl writes of freeze_type

ASSUME FreezeAssumption ==
    /\ FreezeTypes \subseteq Nat \ {0}   \* 0 means "no freeze armed"
    /\ MaxArms \in Nat

VARIABLES
    freeze_type, \* homa->freeze_type
    tt_frozen,   \* the timetrace's tt_frozen
    peers,       \* the addresses in homa->peers
    sock,        \* whether homa->port_map holds a socket
    pc,          \* where each core is in homa_freeze / homa_freeze_peers
    known,       \* per core: the peers that existed when it froze (line 781)
    todo,        \* per core: the peers of its snapshot not yet sent to
    attempted,   \* per core: the peers its loop has sent a FREEZE to
    outcome,     \* per core: how its last broadcast ended
    arms,        \* number of sysctl writes of freeze_type so far
    fires        \* homa_freeze_peers calls since freeze_type was last written

vars == <<freeze_type, tt_frozen, peers, sock, pc, known, todo, attempted,
          outcome, arms, fires>>

PCs == {"idle", "clear", "test", "freeze", "scan", "getpeers", "send"}
Outcomes == {"none", "nosock", "nopeers", "sent"}

-----------------------------------------------------------------------------
(* homa_init leaves freeze_type 0 (line 198); no peer or socket exists.    *)
Init ==
    /\ freeze_type = 0
    /\ tt_frozen = FALSE
    /\ peers = {}
    /\ sock = FALSE
    /\ pc = [c \in Cores |-> "idle"]
    /\ known = [c \in Cores |-> {}]
    /\ todo = [c \in Cores |-> {}]
    /\ attempted = [c \in Cores |-> {}]
    /\ outcome = [c \in Cores |-> "none"]
    /\ arms = 0
    /\ fires = 0

Goto(c, from, to) == pc[c] = from /\ pc' = [pc EXCEPT ![c] = to]

(* The environment: an administrator arms a freeze type; the peer table    *)
(* creates a peer on demand; a socket is opened or closed.                 *)
Arm ==
    /\ arms < MaxArms
    /\ \E t \in FreezeTypes : freeze_type' = t
    /\ arms' = arms + 1
    /\ fires' = 0
    /\ UNCHANGED <<tt_frozen, peers, sock, pc, known, todo, attempted, outcome>>

AddPeer ==
    /\ \E p \in Peers \ peers : peers' = peers \cup {p}
    /\ UNCHANGED <<freeze_type, tt_frozen, sock, pc, known, todo, attempted,
                   outcome, arms, fires>>

ToggleSocket ==
    /\ sock' = ~sock
    /\ UNCHANGED <<freeze_type, tt_frozen, peers, pc, known, todo, attempted,
                   outcome, arms, fires>>

(* homa_freeze, line 767: an anomaly whose type differs from freeze_type   *)
(* returns at once (a stutter); one that matches goes on.                  *)
Trigger(c) ==
    /\ \E t \in FreezeTypes : t = freeze_type
    /\ Goto(c, "idle", "clear")
    /\ UNCHANGED <<freeze_type, tt_frozen, peers, sock, known, todo, attempted,
                   outcome, arms, fires>>

(* Line 769: the latch is cleared.                                         *)
ClearType(c) ==
    /\ Goto(c, "clear", "test")
    /\ freeze_type' = 0
    /\ UNCHANGED <<tt_frozen, peers, sock, known, todo, attempted, outcome,
                   arms, fires>>

(* Line 770: an already frozen timetrace ends the call.                    *)
TestFrozen(c) ==
    /\ pc[c] = "test"
    /\ pc' = [pc EXCEPT ![c] = IF tt_frozen THEN "idle" ELSE "freeze"]
    /\ UNCHANGED <<freeze_type, tt_frozen, peers, sock, known, todo, attempted,
                   outcome, arms, fires>>

(* Lines 774-783: log, freeze the timetrace, call homa_freeze_peers.       *)
FreezeTimetrace(c) ==
    /\ Goto(c, "freeze", "scan")
    /\ tt_frozen' = TRUE
    /\ known' = [known EXCEPT ![c] = peers]
    /\ fires' = fires + 1
    /\ UNCHANGED <<freeze_type, peers, sock, todo, attempted, outcome, arms>>

(* homa_freeze_peers, lines 579-583: without a socket there is nothing to  *)
(* send from, and the broadcast is dropped.                                *)
FindSocket(c) ==
    /\ pc[c] = "scan"
    /\ pc' = [pc EXCEPT ![c] = IF sock THEN "getpeers" ELSE "idle"]
    /\ outcome' = [outcome EXCEPT ![c] = IF sock THEN @ ELSE "nosock"]
    /\ UNCHANGED <<freeze_type, tt_frozen, peers, sock, known, todo, attempted,
                   arms, fires>>

(* Lines 585-590: homa_peertab_get_peers copies the table, or returns NULL *)
(* when it is empty or its kmalloc fails.                                  *)
GetPeers(c) ==
    /\ pc[c] = "getpeers"
    /\ \/ /\ peers # {}
          /\ pc' = [pc EXCEPT ![c] = "send"]
          /\ todo' = [todo EXCEPT ![c] = peers]
          /\ attempted' = [attempted EXCEPT ![c] = {}]
          /\ UNCHANGED outcome
       \/ /\ pc' = [pc EXCEPT ![c] = "idle"]
          /\ outcome' = [outcome EXCEPT ![c] = "nopeers"]
          /\ UNCHANGED <<todo, attempted>>
    /\ UNCHANGED <<freeze_type, tt_frozen, peers, sock, known, arms, fires>>

(* Seeded fault: the loop breaks at the first failed send.                 *)
SendFreezeBreakOnError(c, p, err) ==
    /\ pc[c] = "send" /\ p \in todo[c]
    /\ attempted' = [attempted EXCEPT ![c] = @ \cup {p}]
    /\ todo' = [todo EXCEPT ![c] = IF err THEN {} ELSE @ \ {p}]
    /\ UNCHANGED <<freeze_type, tt_frozen, peers, sock, pc, known, outcome,
                   arms, fires>>

(* Lines 597-603: one iteration of the send loop; an error (err) is only   *)
(* logged.                                                                 *)
SendFreeze(c, p, err) ==
    /\ pc[c] = "send" /\ p \in todo[c]
    /\ attempted' = [attempted EXCEPT ![c] = @ \cup {p}]
    /\ todo' = [todo EXCEPT ![c] = @ \ {p}]
    /\ UNCHANGED <<freeze_type, tt_frozen, peers, sock, pc, known, outcome,
                   arms, fires>>

(* Line 604: the loop is over and the snapshot is freed.                   *)
SendDone(c) ==
    /\ pc[c] = "send" /\ todo[c] = {}
    /\ pc' = [pc EXCEPT ![c] = "idle"]
    /\ outcome' = [outcome EXCEPT ![c] = "sent"]
    /\ UNCHANGED <<freeze_type, tt_frozen, peers, sock, known, todo, attempted,
                   arms, fires>>

(* The steps of one core once it has matched the armed type.               *)
CoreStep(c) ==
    \/ ClearType(c)
    \/ TestFrozen(c)
    \/ FreezeTimetrace(c)
    \/ FindSocket(c)
    \/ GetPeers(c)
    \/ \E p \in Peers, err \in BOOLEAN : SendFreeze(c, p, err)
    \/ SendDone(c)

Next ==
    \/ Arm
    \/ AddPeer
    \/ ToggleSocket
    \/ \E c \in Cores : Trigger(c) \/ CoreStep(c)

(* Only safety is checked of homa_freeze, so no fairness is assumed.      *)
Spec == Init /\ [][Next]_vars

-----------------------------------------------------------------------------
TypeOK ==
    /\ freeze_type \in FreezeTypes \cup {0}
    /\ tt_frozen \in BOOLEAN
    /\ peers \subseteq Peers
    /\ sock \in BOOLEAN
    /\ pc \in [Cores -> PCs]
    /\ known \in [Cores -> SUBSET Peers]
    /\ todo \in [Cores -> SUBSET Peers]
    /\ attempted \in [Cores -> SUBSET Peers]
    /\ outcome \in [Cores -> Outcomes]
    /\ arms \in 0 .. MaxArms
    /\ fires \in Nat

(* Spec 4.5 and its test: a broadcast that got a socket and a peer list    *)
(* has sent a FREEZE to every peer that existed when the timetrace froze,  *)
(* however many of the sends failed.                                       *)
FreezeReachesKnownPeers ==
    \A c \in Cores : outcome[c] = "sent" => known[c] \subseteq attempted[c]

(* Spec 4.5: freeze_type is a one-shot latch; one arming leads to at most  *)
(* one FREEZE broadcast.                                                   *)
OneBroadcastPerArming == fires <= 1

=============================================================================
