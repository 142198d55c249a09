----------------------- MODULE HomaPrintBuffersProofs -----------------------
(***************************************************************************)
(* Proofs about the buffer ring of the address printers (module            *)
(* HomaPrintBuffers), for every NUM_BUFS and every number of results held. *)
(***************************************************************************)
EXTENDS HomaPrintBuffers, Integers, TLAPS

\* A result as the caller holds it.
Rec == [buf : Int, age : Int]

\* The buffer a steps behind buffer x of the ring: the ring counts down
\* from x and wraps from 0 to NUM_BUFS-1.
Back(x, a) == IF a <= x THEN x - a ELSE x - a + NumBufs

\* The results in h have pairwise distinct ages.
DistinctAges(h) == \A j, k \in DOMAIN h : j # k => h[j].age # h[k].age

\* Every result in h is between lo and NUM_BUFS-1 calls old and lives in the
\* buffer its age behind buffer x.
Behind(h, x, lo) ==
    \A k \in DOMAIN h : /\ h[k].age \in lo .. NumBufs - 1
                        /\ h[k].buf = Back(x, h[k].age)

(***************************************************************************)
(* Why the results of one caller stay intact.  Every call ages every held  *)
(* result by one and advances the ring by one, so a result of age a lives  *)
(* in the buffer a steps behind the one the ring last handed out; while a  *)
(* call is running, the buffer it took is the ring's current one and the   *)
(* held results are one to NUM_BUFS-1 steps behind it.  Ages are distinct  *)
(* because each call returns one result of age 0 and ages all others.      *)
(***************************************************************************)
CoreInv(c) ==
    /\ held[c] \in Seq(Rec)
    /\ slot[c] \in 0 .. NumBufs - 1
    /\ DistinctAges(held[c])
    /\ pc[c] = "idle" =>
          /\ next_buf \in 0 .. NumBufs - 1
          /\ Behind(held[c], next_buf - 1, 0)
    /\ pc[c] \in {"took", "stored"} =>
          /\ next_buf = IF pc[c] = "took" THEN slot[c] ELSE slot[c] + 1
          /\ pc[c] = "stored" => build = "split"
          /\ Behind(held[c], slot[c], 1)

\* The inductive invariant for a single caller.
OneCoreInv ==
    /\ pc \in [Cores -> {"idle", "took", "stored"}]
    /\ held \in [Cores -> Seq(Rec)]
    /\ slot \in [Cores -> Int]
    /\ \A c \in Cores : CoreInv(c)

-----------------------------------------------------------------------------
\* The wrapped increment both builds end with (lines 290-292).
Wrapped(x) == IF x + 1 >= NumBufs THEN 0 ELSE x + 1

(* Different ages, less than a turn apart, are different buffers; a result *)
(* one to NUM_BUFS-1 steps behind x is not x.                              *)
LEMMA BackInjective ==
    ASSUME NumBufs \in Nat \ {0}, NEW x \in Int,
           NEW a \in 0 .. NumBufs - 1, NEW b \in 0 .. NumBufs - 1
    PROVE  /\ a # b => Back(x, a) # Back(x, b)
           /\ a # 0 => Back(x, a) # x
BY DEF Back

(* Wrapping the ring index does not move any buffer behind it.            *)
LEMMA BackWrap ==
    ASSUME NumBufs \in Nat \ {0}, NEW x \in 0 .. NumBufs - 1,
           NEW a \in 0 .. NumBufs - 1
    PROVE  /\ Back(Wrapped(x) - 1, a) = Back(x, a)
           /\ Wrapped(x) \in 0 .. NumBufs - 1
BY DEF Back, Wrapped

(* Ageing keeps the results, each one call older.                         *)
LEMMA OlderProps ==
    ASSUME NEW h \in Seq(Rec)
    PROVE  /\ Older(h) \in Seq(Rec)
           /\ DOMAIN Older(h) = DOMAIN h
           /\ \A k \in DOMAIN h : /\ Older(h)[k].buf = h[k].buf
                                 /\ Older(h)[k].age = h[k].age + 1
<1>1. DOMAIN h = 1 .. Len(h) /\ \A k \in DOMAIN h : h[k] \in Rec
  OBVIOUS
<1>2. ASSUME NEW k \in DOMAIN h
      PROVE  /\ Older(h)[k] = [buf |-> h[k].buf, age |-> h[k].age + 1]
             /\ Older(h)[k] \in Rec
  <2>1. h[k] = [buf |-> h[k].buf, age |-> h[k].age] /\ h[k].age \in Int
        /\ h[k].buf \in Int
    BY <1>1 DEF Rec
  <2>2. Older(h)[k] = [h[k] EXCEPT !.age = @ + 1]
    BY DEF Older
  <2>3. QED
    BY <2>1, <2>2 DEF Rec
<1>3. Older(h) \in [1 .. Len(h) -> Rec]
  BY <1>1, <1>2 DEF Older
<1>4. Older(h) \in Seq(Rec)
  <2>1. Len(h) \in Nat
    OBVIOUS
  <2>2. QED
    BY <1>3, <2>1
<1>5. QED
  BY <1>1, <1>2, <1>3, <1>4

(* A result appended is the last one, the others stay where they were.    *)
LEMMA AppendProps ==
    ASSUME NEW h \in Seq(Rec), NEW r \in Rec
    PROVE  /\ Append(h, r) \in Seq(Rec)
           /\ DOMAIN Append(h, r) = DOMAIN h \cup {Len(h) + 1}
           /\ Len(h) + 1 \notin DOMAIN h
           /\ Append(h, r)[Len(h) + 1] = r
           /\ \A k \in DOMAIN h : Append(h, r)[k] = h[k]
OBVIOUS

(* Removing a result keeps the others, each at index j or j+1.            *)
LEMMA RemoveAtProps ==
    ASSUME NEW h \in Seq(Rec), NEW k \in DOMAIN h
    PROVE  /\ RemoveAt(h, k) \in Seq(Rec)
           /\ \A j \in DOMAIN RemoveAt(h, k) :
                 /\ IF j < k THEN j \in DOMAIN h ELSE j + 1 \in DOMAIN h
                 /\ RemoveAt(h, k)[j] = IF j < k THEN h[j] ELSE h[j + 1]
           /\ \A i, j \in DOMAIN RemoveAt(h, k) :
                 i # j => (IF i < k THEN i ELSE i + 1) # (IF j < k THEN j ELSE j + 1)
<1>1. Len(h) \in Nat /\ DOMAIN h = 1 .. Len(h) /\ Len(h) >= 1
  OBVIOUS
<1>2. RemoveAt(h, k) \in [1 .. Len(h) - 1 -> Rec]
  BY <1>1 DEF RemoveAt
<1>3. QED
  BY <1>1, <1>2 DEF RemoveAt

(* A call that takes a buffer ages the results by one: those the caller   *)
(* may still read (age below NUM_BUFS-1) are then one to NUM_BUFS-1 steps  *)
(* behind the buffer taken.                                                *)
LEMMA OlderKeeps ==
    ASSUME NumBufs \in Nat \ {0}, NEW h \in Seq(Rec), NEW x \in Int,
           Behind(h, x - 1, 0), DistinctAges(h),
           \A k \in DOMAIN h : h[k].age < NumBufs - 1
    PROVE  /\ Older(h) \in Seq(Rec)
           /\ Behind(Older(h), x, 1)
           /\ DistinctAges(Older(h))
<1>1. /\ Older(h) \in Seq(Rec) /\ DOMAIN Older(h) = DOMAIN h
      /\ \A k \in DOMAIN h : /\ Older(h)[k].buf = h[k].buf
                            /\ Older(h)[k].age = h[k].age + 1
  BY OlderProps
<1>2. ASSUME NEW k \in DOMAIN h
      PROVE  /\ h[k].age + 1 \in 1 .. NumBufs - 1
             /\ h[k].buf = Back(x, h[k].age + 1)
  <2>1. h[k].age \in 0 .. NumBufs - 1 /\ h[k].buf = Back(x - 1, h[k].age)
    BY DEF Behind
  <2>2. h[k].age < NumBufs - 1
    OBVIOUS
  <2>3. ASSUME NEW a \in 0 .. NumBufs - 2
        PROVE  a + 1 \in 1 .. NumBufs - 1 /\ Back(x - 1, a) = Back(x, a + 1)
    BY DEF Back
  <2>4. QED
    BY <2>1, <2>2, <2>3
<1>3. Behind(Older(h), x, 1)
  <2> SUFFICES ASSUME NEW k \in DOMAIN Older(h)
               PROVE  /\ Older(h)[k].age \in 1 .. NumBufs - 1
                      /\ Older(h)[k].buf = Back(x, Older(h)[k].age)
    BY DEF Behind
  <2>1. k \in DOMAIN h
    BY <1>1
  <2>2. QED
    BY <1>1, <1>2, <2>1
<1>4. DistinctAges(Older(h))
  <2> SUFFICES ASSUME NEW j \in DOMAIN Older(h), NEW k \in DOMAIN Older(h), j # k
               PROVE  Older(h)[j].age # Older(h)[k].age
    BY DEF DistinctAges
  <2>1. j \in DOMAIN h /\ k \in DOMAIN h /\ h[j].age # h[k].age
    BY <1>1 DEF DistinctAges
  <2>2. h[j].age \in Int /\ h[k].age \in Int
    BY <2>1 DEF Behind
  <2>3. QED
    BY <1>1, <2>1, <2>2
<1>5. QED
  BY <1>1, <1>3, <1>4

(* Returning a result (line 313 and the return): the buffer taken, of age  *)
(* 0, joins the results, and the ring index is the wrapped successor.     *)
LEMMA ReturnKeeps ==
    ASSUME NumBufs \in Nat \ {0}, NEW h \in Seq(Rec),
           NEW x \in 0 .. NumBufs - 1,
           Behind(h, x, 1), DistinctAges(h)
    PROVE  LET h2 == Append(h, [buf |-> x, age |-> 0])
           IN  /\ h2 \in Seq(Rec)
               /\ Behind(h2, Wrapped(x) - 1, 0)
               /\ DistinctAges(h2)
               /\ Wrapped(x) \in 0 .. NumBufs - 1
<1> DEFINE r == [buf |-> x, age |-> 0]
<1> DEFINE h2 == Append(h, r)
<1>1. r \in Rec
  BY DEF Rec
<1>2. /\ h2 \in Seq(Rec)
      /\ DOMAIN h2 = DOMAIN h \cup {Len(h) + 1}
      /\ Len(h) + 1 \notin DOMAIN h
      /\ h2[Len(h) + 1] = r
      /\ \A k \in DOMAIN h : h2[k] = h[k]
  BY <1>1, AppendProps
<1>3. Wrapped(x) \in 0 .. NumBufs - 1
  BY BackWrap
<1>4. ASSUME NEW k \in DOMAIN h2
      PROVE  /\ h2[k].age \in 0 .. NumBufs - 1
             /\ h2[k].buf = Back(Wrapped(x) - 1, h2[k].age)
  <2>1. CASE k = Len(h) + 1
    <3>1. Back(Wrapped(x) - 1, 0) = Back(x, 0)
      BY BackWrap
    <3>2. QED
      BY <1>2, <2>1, <3>1 DEF Back
  <2>2. CASE k \in DOMAIN h
    <3>1. h[k].age \in 1 .. NumBufs - 1 /\ h[k].buf = Back(x, h[k].age)
      BY <2>2 DEF Behind
    <3>2. Back(Wrapped(x) - 1, h[k].age) = Back(x, h[k].age)
      BY <3>1, BackWrap
    <3>3. QED
      BY <1>2, <2>2, <3>1, <3>2
  <2>3. QED
    BY <1>2, <2>1, <2>2
<1>5. DistinctAges(h2)
  <2>1. \A k \in DOMAIN h : h[k].age # 0
    BY DEF Behind
  <2>2. QED
    BY <1>2, <2>1 DEF DistinctAges
<1>6. QED
  BY <1>2, <1>3, <1>4, <1>5 DEF Behind

(* The caller dropping one result keeps where the others are.              *)
LEMMA RemoveKeeps ==
    ASSUME NEW h \in Seq(Rec), NEW k \in DOMAIN h, NEW x, NEW lo,
           Behind(h, x, lo), DistinctAges(h)
    PROVE  /\ RemoveAt(h, k) \in Seq(Rec)
           /\ Behind(RemoveAt(h, k), x, lo)
           /\ DistinctAges(RemoveAt(h, k))
<1>1. /\ RemoveAt(h, k) \in Seq(Rec)
      /\ \A j \in DOMAIN RemoveAt(h, k) :
            /\ IF j < k THEN j \in DOMAIN h ELSE j + 1 \in DOMAIN h
            /\ RemoveAt(h, k)[j] = IF j < k THEN h[j] ELSE h[j + 1]
      /\ \A i, j \in DOMAIN RemoveAt(h, k) :
            i # j => (IF i < k THEN i ELSE i + 1) # (IF j < k THEN j ELSE j + 1)
  BY RemoveAtProps
<1>2. Behind(RemoveAt(h, k), x, lo)
  BY <1>1 DEF Behind
<1>3. DistinctAges(RemoveAt(h, k))
  BY <1>1 DEF DistinctAges
<1>4. QED
  BY <1>1, <1>2, <1>3

-----------------------------------------------------------------------------
(* The ring starts at buffer 0 with nothing held.                          *)
LEMMA OneCoreInit == Init => OneCoreInv
BY PrintAssumption DEF Init, OneCoreInv, CoreInv, DistinctAges, Behind, Rec

(* With one caller, every step keeps OneCoreInv.                           *)
LEMMA OneCoreStep ==
    ASSUME NEW c0, Cores = {c0}
    PROVE  OneCoreInv /\ [Next]_vars => OneCoreInv'
<1> DEFINE Funs == /\ pc \in [Cores -> {"idle", "took", "stored"}]
                  /\ held \in [Cores -> Seq(Rec)]
                  /\ slot \in [Cores -> Int]
<1> SUFFICES ASSUME OneCoreInv, [Next]_vars
             PROVE  Funs' /\ CoreInv(c0)'
  BY DEF OneCoreInv
<1> USE PrintAssumption
<1>0. CoreInv(c0) /\ Funs /\ c0 \in Cores
  BY DEF OneCoreInv
<1>1. ASSUME NEW c \in Cores, TakeBuffer(c) PROVE Funs' /\ CoreInv(c0)'
  <2>1. c = c0 /\ pc[c0] = "idle" /\ next_buf \in 0 .. NumBufs - 1
        /\ held[c0] \in Seq(Rec) /\ DistinctAges(held[c0])
        /\ Behind(held[c0], next_buf - 1, 0) /\ next_buf \in Int
    BY <1>0, <1>1 DEF TakeBuffer, CoreInv
  <2>2. \A k \in DOMAIN held[c0] : held[c0][k].age < NumBufs - 1
    BY <1>0, <1>1, <2>1 DEF TakeBuffer, Contract
  <2>3. /\ Older(held[c0]) \in Seq(Rec)
        /\ Behind(Older(held[c0]), next_buf, 1)
        /\ DistinctAges(Older(held[c0]))
    BY <2>1, <2>2, OlderKeeps, Zenon
  <2>4. /\ held' = [held EXCEPT ![c0] = Older(held[c0])]
        /\ slot' = [slot EXCEPT ![c0] = next_buf]
        /\ pc' = [pc EXCEPT ![c0] = "took"] /\ next_buf' = next_buf
    <3>1. held' = [d \in Cores |-> Older(held[d])]
      BY <1>1 DEF TakeBuffer
    <3>2. QED
      BY <1>0, <1>1, <2>1, <3>1 DEF TakeBuffer
  <2>5. QED
    BY <1>0, <2>1, <2>3, <2>4 DEF CoreInv
<1>2. ASSUME NEW c \in Cores, Advance(c) PROVE Funs' /\ CoreInv(c0)'
  <2>1. c = c0 /\ pc[c0] = "took" /\ next_buf = slot[c0]
        /\ slot[c0] \in 0 .. NumBufs - 1 /\ held[c0] \in Seq(Rec)
        /\ Behind(held[c0], slot[c0], 1) /\ DistinctAges(held[c0])
    BY <1>0, <1>2 DEF Advance, CoreInv
  <2>2. CASE build = "merged"
    <3>1. /\ held' = [held EXCEPT ![c0] = Append(held[c0], [buf |-> slot[c0], age |-> 0])]
          /\ next_buf' = Wrapped(slot[c0])
          /\ pc' = [pc EXCEPT ![c0] = "idle"] /\ slot' = slot
      BY <1>2, <2>1, <2>2 DEF Advance, Result, Wrapped
    <3>2. LET h2 == Append(held[c0], [buf |-> slot[c0], age |-> 0])
          IN  /\ h2 \in Seq(Rec)
              /\ Behind(h2, Wrapped(slot[c0]) - 1, 0)
              /\ DistinctAges(h2)
              /\ Wrapped(slot[c0]) \in 0 .. NumBufs - 1
      BY <2>1, ReturnKeeps, Zenon
    <3>3. QED
      BY <1>0, <2>1, <3>1, <3>2 DEF CoreInv
  <2>3. CASE build = "split"
    <3>1. /\ held' = held /\ next_buf' = slot[c0] + 1
          /\ pc' = [pc EXCEPT ![c0] = "stored"] /\ slot' = slot /\ build' = build
      BY <1>2, <2>1, <2>3 DEF Advance
    <3>2. QED
      BY <1>0, <2>1, <2>3, <3>1 DEF CoreInv
  <2>4. QED
    BY <1>2, <2>2, <2>3 DEF Advance
<1>3. ASSUME NEW c \in Cores, Wrap(c) PROVE Funs' /\ CoreInv(c0)'
  <2>1. c = c0 /\ pc[c0] = "stored" /\ next_buf = slot[c0] + 1
        /\ slot[c0] \in 0 .. NumBufs - 1 /\ held[c0] \in Seq(Rec)
        /\ Behind(held[c0], slot[c0], 1) /\ DistinctAges(held[c0])
    BY <1>0, <1>3 DEF Wrap, CoreInv
  <2>2. /\ held' = [held EXCEPT ![c0] = Append(held[c0], [buf |-> slot[c0], age |-> 0])]
        /\ next_buf' = Wrapped(slot[c0])
        /\ pc' = [pc EXCEPT ![c0] = "idle"] /\ slot' = slot
    BY <1>3, <2>1 DEF Wrap, Result, Wrapped
  <2>3. LET h2 == Append(held[c0], [buf |-> slot[c0], age |-> 0])
        IN  /\ h2 \in Seq(Rec)
            /\ Behind(h2, Wrapped(slot[c0]) - 1, 0)
            /\ DistinctAges(h2)
            /\ Wrapped(slot[c0]) \in 0 .. NumBufs - 1
    BY <2>1, ReturnKeeps, Zenon
  <2>4. QED
    BY <1>0, <2>1, <2>2, <2>3 DEF CoreInv
<1>4. ASSUME NEW c \in Cores, NEW k \in 1 .. MaxHeld, Release(c, k)
      PROVE Funs' /\ CoreInv(c0)'
  <2>1. c = c0 /\ k \in DOMAIN held[c0]
        /\ held' = [held EXCEPT ![c0] = RemoveAt(held[c0], k)]
        /\ UNCHANGED <<build, next_buf, pc, slot>>
        /\ held[c0] \in Seq(Rec) /\ DistinctAges(held[c0])
    BY <1>0, <1>4 DEF Release, CoreInv
  <2>2. \A x, lo : Behind(held[c0], x, lo) =>
           /\ RemoveAt(held[c0], k) \in Seq(Rec)
           /\ Behind(RemoveAt(held[c0], k), x, lo)
           /\ DistinctAges(RemoveAt(held[c0], k))
    BY <2>1, RemoveKeeps, Zenon
  <2>3. RemoveAt(held[c0], k) \in Seq(Rec) /\ DistinctAges(RemoveAt(held[c0], k))
    <3>1. \E x, lo : Behind(held[c0], x, lo)
      <4>1. CASE pc[c0] = "idle"
        BY <1>0, <4>1 DEF CoreInv
      <4>2. CASE pc[c0] # "idle"
        BY <1>0, <4>2 DEF CoreInv
      <4>3. QED
        BY <4>1, <4>2
    <3>2. QED
      BY <2>2, <3>1
  <2>4. QED
    BY <1>0, <2>1, <2>2, <2>3 DEF CoreInv
<1>5. CASE UNCHANGED vars
  BY <1>0, <1>5 DEF vars, CoreInv
<1>6. QED
  BY <1>1, <1>2, <1>3, <1>4, <1>5 DEF Next

(* What OneCoreInv gives: distinct ages behind one buffer are distinct     *)
(* buffers, none of them the buffer a running call took.                  *)
LEMMA OneCoreSafe ==
    ASSUME NEW c0, Cores = {c0}
    PROVE  OneCoreInv => ResultsIntact /\ IndexInBounds
<1> SUFFICES ASSUME OneCoreInv PROVE ResultsIntact /\ IndexInBounds
  OBVIOUS
<1> USE PrintAssumption
<1>1. CoreInv(c0)
  BY DEF OneCoreInv
<1>2. \E x \in Int, lo \in {0, 1} :
         /\ Behind(held[c0], x, lo)
         /\ pc[c0] # "idle" => x = slot[c0] /\ lo = 1
  <2>1. CASE pc[c0] = "idle"
    BY <1>1, <2>1 DEF CoreInv
  <2>2. CASE pc[c0] # "idle"
    BY <1>1, <2>2 DEF CoreInv, OneCoreInv
  <2>3. QED
    BY <2>1, <2>2
<1>3. PICK x \in Int, lo \in {0, 1} :
         /\ Behind(held[c0], x, lo)
         /\ pc[c0] # "idle" => x = slot[c0] /\ lo = 1
  BY <1>2
<1>4. ASSUME NEW i \in DOMAIN held[c0], NEW j \in DOMAIN held[c0], i # j
      PROVE  held[c0][i].buf # held[c0][j].buf
  <2>1. held[c0][i].age # held[c0][j].age
    BY <1>1, <1>4 DEF CoreInv, DistinctAges
  <2>2. /\ held[c0][i].age \in 0 .. NumBufs - 1
        /\ held[c0][j].age \in 0 .. NumBufs - 1
        /\ held[c0][i].buf = Back(x, held[c0][i].age)
        /\ held[c0][j].buf = Back(x, held[c0][j].age)
    BY <1>3 DEF Behind
  <2>3. QED
    BY <2>1, <2>2, BackInjective
<1>5. ASSUME pc[c0] # "idle", NEW k \in DOMAIN held[c0]
      PROVE  held[c0][k].buf # slot[c0]
  <2>1. held[c0][k].age \in 1 .. NumBufs - 1
        /\ held[c0][k].buf = Back(slot[c0], held[c0][k].age)
    BY <1>3, <1>5 DEF Behind
  <2>2. slot[c0] \in Int
    BY <1>1 DEF CoreInv
  <2>3. QED
    BY <2>1, <2>2, BackInjective
<1>6. slot[c0] < NumBufs
  BY <1>1 DEF CoreInv
<1>7. QED
  BY <1>4, <1>5, <1>6 DEF ResultsIntact, IndexInBounds

(* For one caller at a time, under the contract of homa_print_ipv6_addr's  *)
(* comment (a result is dropped before NUM_BUFS more calls), the ring      *)
(* hands out buffers in bounds, never the buffer of a result still held,   *)
(* and the results held are in distinct buffers; in both builds, for any   *)
(* NUM_BUFS and any number of results held.                                *)
THEOREM OneCoreResultsIntact ==
    ASSUME NEW c0, Cores = {c0}
    PROVE  Spec => [](ResultsIntact /\ IndexInBounds)
<1>1. OneCoreInv => ResultsIntact /\ IndexInBounds
  BY OneCoreSafe
<1>2. OneCoreInv /\ [Next]_vars => OneCoreInv'
  BY OneCoreStep
<1>3. QED
  BY <1>1, <1>2, OneCoreInit, PTL DEF Spec

=============================================================================
