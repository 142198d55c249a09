--------------------------- MODULE HomaPrintBuffers ---------------------------
(***************************************************************************)
(* The static buffer ring of homa_print_ipv6_addr (src/homa_utils.c;       *)
(* homa_print_ipv4_addr has the same ring, with NUM_BUFS_IPV4 buffers).    *)
(*                                                                         *)
(* Each call takes buffers[next_buf], advances next_buf modulo NUM_BUFS    *)
(* and formats the address into the buffer it took; the caller keeps the  *)
(* returned pointer until it has printed it; the comment's contract is   *)
(* that storage is "eventually reused", so a result is good until NUM_BUFS *)
(* later calls come round to its buffer.  next_buf is a plain static       *)
(* int shared by every core, read and written without a lock.  That is a  *)
(* data race, so the increment is modelled as each build may compile it:  *)
(* one store of the wrapped value ("merged"), or the store of next_buf+1   *)
(* followed by a reload, the test and the store of 0 ("split").            *)
(***************************************************************************)
EXTENDS Naturals, Sequences

CONSTANTS
    Cores,    \* cores that may print an address at the same time
    NumBufs,  \* NUM_BUFS
    MaxHeld,  \* results one caller uses at once
    Builds    \* the compilations of next_buf++ considered

ASSUME PrintAssumption ==
    /\ NumBufs \in Nat \ {0}
    /\ MaxHeld \in Nat
    /\ Builds \subseteq {"merged", "split"}

VARIABLES
    build,    \* how this kernel build compiled the increment
    next_buf, \* the static next_buf
    pc,       \* per core: "idle", "took" (line 288), "stored" (line 290)
    slot,     \* per core: the index of the buffer the running call took
    held      \* per core: the results it still uses, as [buf, age] records;
              \* age counts the calls made since the result was returned

vars == <<build, next_buf, pc, slot, held>>

-----------------------------------------------------------------------------
Init ==
    /\ build \in Builds
    /\ next_buf = 0
    /\ pc = [c \in Cores |-> "idle"]
    /\ slot = [c \in Cores |-> 0]
    /\ held = [c \in Cores |-> <<>>]

\* A result the caller now holds.
Result(c) == [buf |-> slot[c], age |-> 0]

\* The callers keep to the contract: no result is still read by the time
\* NUM_BUFS more calls have been made.
Contract == \A d \in Cores : \A k \in DOMAIN held[d] : held[d][k].age < NumBufs - 1

Older(h) == [k \in DOMAIN h |-> [h[k] EXCEPT !.age = @ + 1]]

(* Line 288: char *buffer = buffers[next_buf].                             *)
TakeBuffer(c) ==
    /\ pc[c] = "idle" /\ Len(held[c]) < MaxHeld
    /\ Contract
    /\ slot' = [slot EXCEPT ![c] = next_buf]
    /\ pc' = [pc EXCEPT ![c] = "took"]
    /\ held' = [d \in Cores |-> Older(held[d])]
    /\ UNCHANGED <<build, next_buf>>

(* Seeded fault: the wrap test is next_buf >= NUM_BUFS - 1.                *)
AdvanceShortRing(c) ==
    /\ pc[c] = "took"
    /\ \/ /\ build = "merged"
          /\ next_buf' = IF slot[c] + 1 >= NumBufs - 1 THEN 0 ELSE slot[c] + 1
          /\ pc' = [pc EXCEPT ![c] = "idle"]
          /\ held' = [held EXCEPT ![c] = Append(@, Result(c))]
       \/ /\ build = "split"
          /\ next_buf' = next_buf + 1
          /\ pc' = [pc EXCEPT ![c] = "stored"]
          /\ UNCHANGED held
    /\ UNCHANGED <<build, slot>>

(* Lines 290-292, and in the merged build the snprintf of line 313 and the *)
(* return: the caller now holds the result.  The merged build reuses the   *)
(* value loaded at line 288; the split build does a load-add-store.        *)
Advance(c) ==
    /\ pc[c] = "took"
    /\ \/ /\ build = "merged"
          /\ next_buf' = IF slot[c] + 1 >= NumBufs THEN 0 ELSE slot[c] + 1
          /\ pc' = [pc EXCEPT ![c] = "idle"]
          /\ held' = [held EXCEPT ![c] = Append(@, Result(c))]
       \/ /\ build = "split"
          /\ next_buf' = next_buf + 1
          /\ pc' = [pc EXCEPT ![c] = "stored"]
          /\ UNCHANGED held
    /\ UNCHANGED <<build, slot>>

(* Split build, lines 291-292 and 313-315: reload, wrap, format, return.   *)
Wrap(c) ==
    /\ pc[c] = "stored"
    /\ next_buf' = IF next_buf >= NumBufs THEN 0 ELSE next_buf
    /\ pc' = [pc EXCEPT ![c] = "idle"]
    /\ held' = [held EXCEPT ![c] = Append(@, Result(c))]
    /\ UNCHANGED <<build, slot>>

\* s without its k-th element (SequencesExt's RemoveAt, as a function).
RemoveAt(s, k) == [j \in 1 .. Len(s) - 1 |-> IF j < k THEN s[j] ELSE s[j + 1]]

(* The caller has printed one of its results and no longer reads it.      *)
Release(c, k) ==
    /\ k \in DOMAIN held[c]
    /\ held' = [held EXCEPT ![c] = RemoveAt(@, k)]
    /\ UNCHANGED <<build, next_buf, pc, slot>>

Next ==
    \E c \in Cores :
        \/ TakeBuffer(c) \/ Advance(c) \/ Wrap(c)
        \/ \E k \in 1 .. MaxHeld : Release(c, k)

Spec == Init /\ [][Next]_vars

-----------------------------------------------------------------------------
\* The buffers a core is formatting into or still reading.
InUse(c) == {held[c][k].buf : k \in DOMAIN held[c]}
               \cup (IF pc[c] = "idle" THEN {} ELSE {slot[c]})

(* The buffer a call writes is one of the NUM_BUFS static buffers: the     *)
(* index taken at line 288 is always below NUM_BUFS.                       *)
IndexInBounds == \A c \in Cores : pc[c] # "idle" => slot[c] < NumBufs

(* The comment of homa_print_ipv6_addr: there are enough buffers for       *)
(* several results to be in use at once.  A buffer being formatted is not  *)
(* one whose earlier result someone still reads, nor one another call is   *)
(* formatting, and the results one caller holds are in distinct buffers.  *)
ResultsIntact ==
    /\ \A c \in Cores :
          \A i, j \in DOMAIN held[c] : i # j => held[c][i].buf # held[c][j].buf
    /\ \A c \in Cores : pc[c] # "idle" =>
          /\ \A k \in DOMAIN held[c] : held[c][k].buf # slot[c]
          /\ \A d \in Cores \ {c} : slot[c] \notin InUse(d)

=============================================================================
