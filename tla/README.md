# Formal models of Homa's scheduling core (ConnectedHoma)

This directory holds TLA+ models of the Homa transport code in `src/`. It has
TLC configurations that check the models on small instances, and TLAPS proofs
that hold for every value of the constants. The source is mostly
`src/homa_utils.c`: construction and destruction of `struct homa`, the priority
cutoff table, the diagnostic freeze, and the debug formatting helpers. Next to
it are test programs in `src/Testing-APPs/` and `src/util/`.

The spec (`spec.md`) describes more code than `src/` contains. The grant
scheduler (`homa_grant.c`/`homa_incoming.c`), the pacer (`homa_outgoing.c`),
the sysctl handler and the peer table are not part of this repository.
Definitions that model those parts are written from the spec and marked
`spec_modelled` in `PROJECT.json`. Everything else is translated from the
source lines named in the `map` section of `PROJECT.json`.

## 1. Inventory

### Components, their state and operations

| Component | Source | State it keeps | Operations that change state |
|---|---|---|---|
| PriorityCutoffTable | `homa_utils.c` 143-158, 693-721 | `unsched_cutoffs[]`, `num_priorities`, `max_sched_prio`, `cutoff_version` | defaults in `homa_init`; sysctl write (not in src) followed by `homa_prios_changed`; read when a CUTOFFS packet is built (not in src) |
| GrantScheduler | spec §4.2; initial state in `homa_init` 99-114, 159-162 | grantable RPC list, `active_rpcs[]`, `num_active_rpcs`, `total_incoming`, `grant_nonfifo_left`, `oldest_rpc` | data arrival, grant recomputation, FIFO grant, RPC completion/abort |
| Pacer and ThrottleQueue | spec §4.3-4.4; `homa_init` 98, 115-122, 172-181; `homa_throttle_lock_slow` 744-753 | `throttled_rpcs`, `link_idle_time`, `pacer_fifo_count`, `pacer_exit`, `throttle_lock` | enqueue of an RPC with unsent bytes, pacer transmission, lock fast/slow path |
| Lifecycle | `homa_init` 33-204, `homa_destroy` 210-239 | `homa_numas[]`, `core_memory`/`homa_cores[]`, `pacer_kthread`, the completion `homa_pacer_kthread_done`, socket and peer tables, `metrics` | init with four failure points (NUMA kmalloc, core vmalloc, peer table, pacer thread); pacer thread start/exit; destroy |
| Diagnostics/Freeze | `homa_freeze` 765-785, `homa_freeze_peers` 571-605 | `freeze_type` (armed by sysctl), `tt_frozen`, the peer list snapshot | anomaly check by any core, latch clear, timetrace freeze, FREEZE broadcast to every peer |
| Debug formatting | `homa_print_ipv4_addr` 255-270, `homa_print_ipv6_addr` 282-316, `homa_snprintf` 625-641, `homa_symbol_for_type` 649-683, `homa_print_packet*` 327-565 | static rings of 4 buffers and their `next_buf` index; a static buffer for unknown types | each call takes the next ring slot; `homa_snprintf` appends with a clamp |
| Test applications | `Testing-APPs/*.c` | per socket: `sent_but_not_received`; `contexts[]`, `total_contexts`; the `timed_out` flag set by SIGALRM | closed-loop send/receive per socket over epoll; peel-off of new connections; cleanup on errors and on SIGINT |
| `homa_spin`, `send_raw` | `homa_utils.c` 727-735, `util/send_raw.c` | none | busy wait; one raw `sendto` |

### How the components interact

- **Shared state without locks.** The sysctl handler writes `struct homa`
  fields. Softirq handlers on every core read them. Examples are the cutoff
  table, `freeze_type` and `num_priorities`.
- **Locks.** One lock guards the grantable set and `total_incoming`. The
  throttle lock guards the throttle queue, with a try-then-wait slow path that
  counts misses (`homa_throttle_lock_slow`). The metrics have their own lock.
- **A kernel thread.** `homa_init` starts the pacer thread before it has set
  `pacer_exit` and the pacing parameters (lines 172-181). `homa_destroy`
  stops the thread and waits for `homa_pacer_kthread_done`. Only then does it
  free the socket and peer tables.
- **Messages to peers.** CUTOFFS packets carry a copy of the cutoff table and
  its version. FREEZE packets go to every peer. A send can fail per peer.

### Behaviours that are hard

- **Interleaving.** A sysctl write lands in the table before
  `homa_prios_changed` repairs it, and a CUTOFFS packet can be built in
  between. Two cores can both see a freeze condition (`homa_freeze` checks
  and clears `freeze_type` in two unlocked steps). Two cores calling
  `homa_print_ipv4_addr` race on `next_buf`. The pacer thread runs while
  `homa_init` is still setting the fields it reads.
- **Partial failure.** Each of the four allocations in `homa_init` can fail,
  and `homa_destroy` must then be safe. FREEZE sends fail per peer.
- **Ordering.** `cutoff_version` must be bumped after the table change.
  `homa_destroy` must wait for the pacer before it frees the tables.
- **Numeric edges.** `num_priorities` is clamped only from above.
  `cutoff_version` travels as 16 bits. `homa_snprintf` has a full-buffer
  clamp.
- **Signals and events in the test apps.** SIGINT cleanup runs inside the
  epoll loop, which then goes on with the events it already has. SIGALRM
  ends the run. A failure in the set-up loop frees part of what was set up
  and carries on. The contexts array is never emptied.

### What makes each component correct

- PriorityCutoffTable: every length maps to a priority. Scheduled priorities
  lie below unscheduled ones. The version identifies the table.
  `homa_prios_changed` stays inside the array (it does not for
  `num_priorities <= 0`, a hazard no run checks).
- GrantScheduler: at most `max_overcommit` active RPCs. `total_incoming` is
  the sum of the granted-but-unreceived bytes and stays within `max_incoming`.
  Grants are monotone and within the message length. Every FIFO-fraction-th
  decision goes to the oldest RPC. A waiting RPC is promoted when an active
  one completes (liveness).
- Pacer: bytes sent stay within granted bytes plus `unsched_bytes`.
  `link_idle_time` is monotone. Each RPC is queued at most once. Every queued
  RPC is eventually sent (liveness, with the FIFO override).
- Lifecycle: destroy never frees what the pacer uses while it runs. Every
  init failure returns an error and leaves a state destroy can tear down.
  Destroy is idempotent (spec §7).
- Freeze: one trigger per arming. Every known peer gets a FREEZE attempt even
  if some sends fail.
- Debug formatting: a returned buffer is not handed to another caller while
  in use. `homa_snprintf` never claims more than `size-1` characters.
- Test apps: each context is freed once, through a pointer that was
  written, and no store goes past `contexts[MAX_EVENTS]`. No handler reads a
  freed context. A client always ends.

## 2. Plan

Modules, in the order they are built (most important first):

1. `HomaPrios` (+ `MCHomaPrios`, `HomaPriosProofs`): the cutoff table.
   Translated from `homa_init`/`homa_prios_changed`. The sysctl write and
   the CUTOFFS send are modelled from the spec. **Done in sitting 1.**
2. `HomaFreeze` (+ `HomaFreezeProofs`): `homa_freeze` and
   `homa_freeze_peers` with several cores and per-peer send failure.
   **Done in sitting 1.**
3. `HomaLifecycle`: `homa_init` failure points, the pacer thread and its
   completion, and `homa_destroy` (including a second call). **Done in
   sitting 1.**
4. `HomaGrant` (+ `HomaGrantProofs`): the grant scheduler from spec §4.2,
   started from the state `homa_init` builds. Several receive-path threads
   share the grantable lock. It has the FIFO countdown (`grant_nonfifo_left`,
   `fifo_grant_increment`), the overcommit and incoming caps, completion and
   abort. It is checked against an abstract `GrantAdmission` spec (at most
   `max_overcommit` admitted, SRPT choice except on FIFO turns) through
   INSTANCE ... WITH. Not built: only the initial state is in `src/`.
5. `HomaPacer`: the throttle queue and the pacer loop (spec §4.3), with the
   throttle lock's fast/slow path from `homa_throttle_lock_slow`. It is
   composed with `HomaLifecycle`'s pacer thread start/stop. Liveness under
   weak fairness of the pacer thread. Not built: the pacer loop and the
   throttle queue are not in `src/`.
6. `HomaPrintBuffers` and `HomaPrintPacket`: the static buffer rings of the
   address printers under concurrent callers, and `homa_print_packet*` with
   `homa_snprintf`'s clamp, over bounded packets. **Done in sitting 1.**
7. `HomaTestApps`: the two epoll clients and the two epoll servers, with
   SIGALRM and SIGINT, every system-call failure, and the contexts array.
   Each program runs against an environment that returns any outcome of
   each call. **Done in sitting 2.**
8. Proofs: `HomaPriosProofs`, `HomaFreezeProofs`, `HomaLifecycleProofs`,
   `HomaPrintPacketProofs` and `HomaPrintBuffersProofs` (section 4).

Abstract specifications worth stating: `GrantAdmission` (which RPCs may be
active) refined by `HomaGrant`, and a `PacerQueue` (a set of RPCs with unsent
bytes, sent in some order) refined by `HomaPacer`.

Theorems worth proving, in order: the cutoff-table invariants (done), the
grant caps as inductive invariants, the freeze broadcast completeness
(done), the destruction order of lifecycle (done) and its refinement of
`HomaLifecycleAbstract` (done in sitting 2), and the step refinement of
`GrantAdmission`.

## 3. What is modelled

### HomaPrios (priority cutoff table)

| Definition | Code |
|---|---|
| `Init` | `homa_init` 143-158. Entries below `HOMA_MAX_PRIORITIES-4` are never written and keep the zeroes of the static `struct homa`. The production build starts at `cutoff_version = 1`. |
| `WriteNumPriorities`, `WriteCutoff` | the sysctl handler storing a new value (spec §4.1, *spec_modelled*). Writing a prefix of the array is a sequence of single-entry writes; the result after `homa_prios_changed` is the same. |
| `PriosChangedBegin` | 693-703: clamp `num_priorities` from above, `unsched_cutoffs[0] = INT_MAX`, start the scan at `HOMA_MAX_PRIORITIES-1` |
| `PriosSkipDisabled`, `PriosReachZero`, `PriosFoundUnsched`, `PriosScanDown` | one iteration each of the loop 705-719. The two `break` paths set `max_sched_prio` and bump `cutoff_version` (720) through `Commit`. |
| `SendCutoffs` | the receive path answering a DATA packet whose version differs with a CUTOFFS packet (spec §6, *spec_modelled*) |

The handler is not atomic with respect to other cores. No lock is taken, so
the write, the clamp and each loop iteration are separate steps, and
`SendCutoffs` may fall between any two of them. Lengths and cutoffs keep
their real values (`HOMA_MAX_MESSAGE_LENGTH = 1000000`, `INT_MAX`, 200, 2800,
15000). Only comparisons are made, so no abstraction is needed.

Runs:

- `prios` (`HomaPrios.cfg`, pass, 164,868 states). It checks
  `SchedBelowUnsched`: after every reconfiguration a max-length message maps
  to priority `max_sched_prio + 1`, so scheduled priorities lie below all
  unscheduled ones (or everything is at 0). It also checks `PeerTableCurrent`:
  a peer with the current version has the current table. And it checks
  `TypeOK`. The inputs are `num_priorities` in {1, 3, 9}, where 9 exercises
  the clamp, and cutoffs in {0, 200, 1000000}. There are at most 3
  reconfigurations, enough for a write that disables the covering level
  followed by one that restores it. Deadlock is not checked: when the
  reconfiguration bound is reached and the peer is current, nothing is left
  to do, which is the system idling.
- `prios_race` (`HomaPriosRace.cfg`, violation of
  `SentTableCoversMaxLength`). The administrator writes 0 to the only
  covering cutoff. `homa_init` never set entry 0, so it is still 0. A core
  then builds a CUTOFFS packet before `homa_prios_changed` has restored
  entry 0. That packet has no priority for a max-length message.
- No run checks that the loop stays in the array. Line 697 clamps
  `num_priorities` only from above, and spec §4.1 says inputs are clamped,
  never rejected. So a write of 0 or a negative value makes the loop zero
  every entry, skip index 0 with `continue` and go on to index -1, before
  the array. The model has no step at -1, so `homa_prios_changed` does not
  finish there. The `prios` inputs leave these values out, and
  `SchedBelowUnsched` is checked only for positive inputs. This is listed
  as a hazard.

### HomaFreeze (diagnostic freeze)

| Definition | Code |
|---|---|
| `Init` | `homa_init` 198: `freeze_type = 0`; no peer, no socket, timetrace not frozen |
| `Arm` | the sysctl write of `freeze_type` (*spec_modelled*), at most `MaxArms` times |
| `AddPeer`, `ToggleSocket` | the peer table creating a peer, a socket opening or closing (*spec_modelled*) |
| `Trigger(c)` | 765-768: core `c` sees an anomaly whose type equals `freeze_type` (a mismatch returns and is a stutter) |
| `ClearType(c)` | 769: `freeze_type = 0` |
| `TestFrozen(c)` | 770-780: return if `tt_frozen`; the logging calls are left out |
| `FreezeTimetrace(c)` | 781-783: `tt_freeze()` and the call of `homa_freeze_peers`; `known[c]` records the peers that exist at this point |
| `FindSocket(c)` | 570-583: no socket, no broadcast |
| `GetPeers(c)` | 585-596: snapshot of the peer table, or NULL (empty table, failed kmalloc) and return |
| `SendFreeze(c, p, err)` | 597-603: one iteration of the send loop; `err` is only logged |
| `SendDone(c)` | 604-605: `kfree(peers)` |

The 767/769 check-then-clear and the 770/781 test-then-set are unlocked,
so each read and write is a step, and the cores interleave between them. The
peer list is a set: the loop's order makes no difference to what is sent.
`outcome[c]` records how core `c`'s last broadcast ended. `fires` counts
calls of `homa_freeze_peers` since the last arming.

Runs (`MCHomaFreeze`: two cores, three peers, freeze types {1, 2}, two
armings):

- `freeze` (`HomaFreeze.cfg`, pass, 819,964 states). `FreezeReachesKnownPeers`:
  a broadcast that got a socket and a peer list has sent to every peer that
  existed when the timetrace froze, whichever sends failed. Only safety is
  checked, so `Spec` assumes no fairness. That `homa_freeze` returns is not
  stated: its loop is bounded by the snapshot and has no wait.
- `freeze_race` (`HomaFreezeRace.cfg`, violation of `OneBroadcastPerArming`).
  Both cores match before either clears `freeze_type`. Both then read
  `tt_frozen` as false before either freezes. One arming gives two timetrace
  freezes and two FREEZE broadcasts. Spec §4.5 calls `freeze_type` a one-shot
  latch.

### HomaLifecycle (homa_init, pacer thread, homa_destroy)

| Definition | Code |
|---|---|
| `Init` | 33-43: the zeroed `struct homa` and globals; `cpu_to_node` is picked from `Topologies` at boot |
| `InitNuma`, `InitNumaDone` | 44-58: one iteration of the NUMA loop. A node seen before is skipped. Otherwise a `homa_numa` is `kmalloc`'ed. A failed `kmalloc` is dereferenced at line 53 (`status = "crashed"`). |
| `InitCores` | 63-93: `core_memory` is `vmalloc`'ed if it is still NULL. On failure `-ENOMEM` is returned. The per-core fields are data only. |
| `InitTables` | 95-130: `pacer_kthread = NULL`, `init_completion`, the socket table, then the peer table, which can fail |
| `InitKthread` | 131-179: `kthread_run` starts the pacer, or fails; the error path resets `pacer_kthread` |
| `InitFinish` | 180-203: `pacer_exit = false`, return 0 |
| `PacerExit` | `homa_pacer_main` leaving its loop on `pacer_exit` and completing `homa_pacer_kthread_done` (*spec_modelled*) |
| `MetricsOpen` | `homa_metrics_open` allocating `homa->metrics` (*spec_modelled*) |
| `DestroyStart` | 214-215: if a pacer was started, `homa_pacer_stop` sets `pacer_exit` and forgets the thread |
| `DestroyWait` | 216: `wait_for_completion` |
| `DestroyTables` | 219-221: `homa_socktab_destroy`, then `homa_peertab_destroy`, called whatever `homa_init` reached. Their bodies are not in `src/`. Spec §7(a) requires them to be safe on a zeroed or already destroyed table, so both tables end up torn down. |
| `DestroyRelease` | 222-239: `homa_skb_cleanup` (the page pools, data of the `homa_numa`s, not modelled apart), then free and NULL every `homa_numa` and `core_memory`; `kfree(homa->metrics)` without NULLing it |

Runs (`MCHomaLifecycle`: three CPUs, two NUMA nodes, every `cpu_to_node`
map, at most two `homa_destroy` calls):

- `lifecycle` (`HomaLifecycle.cfg`, pass). It covers every failure point
  of `homa_init` and one or two destroys. `PacerStoppedBeforeTeardown`: the
  pacer thread is not running once a table is torn down.
  `NothingLeaked`: when `homa_destroy` returns, nothing allocated is still
  held and the pacer is gone. `DestroyReturns`: `homa_destroy` returns.
  Fairness is weak fairness of the pacer thread, a kernel thread, and of
  `homa_destroy`'s own steps. Deadlock is not checked, because the lifecycle
  really ends: after the last destroy, or after a crash, nothing is left to
  do.
  `ImplementsAbstract`: the lifecycle implements the abstract one below,
  fairness included.
- `lifecycle_oom` (violation of `AllocFailureReported`). The `kmalloc` at
  line 51 fails and line 53 writes through NULL.
- `NoDoubleFree` is stated but no run checks it. The `lifecycle` run's
  state space contains the double free: after the metrics file has been
  opened, a second `homa_destroy` runs `kfree(homa->metrics)` on the
  pointer the first one freed. Spec §7 says teardown is idempotent. This is
  listed as a hazard.

#### The abstract lifecycle and the refinement

`HomaLifecycleAbstract` states what the lifecycle promises, with no
allocation order, loop or completion in it. It has four variables:
- `phase`: init, up or failed;
- `held`: a set of resources drawn from numa, cores, tables and metrics;
- `thread`: none, running, stopping or stopped;
- `teardown`: idle, stopping, releasing or done.

The rules it enforces:
- resources are taken only while `homa_init` runs (`Acquire`) or by the
  metrics reader (`OpenMetrics`);
- `homa_destroy` starts only after `homa_init` returned;
- a running pacer is asked to stop, and is waited for;
- resources are released only when no pacer runs;
- the last release leaves nothing held.

`HomaLifecycle` maps onto it through `Abs == INSTANCE
HomaLifecycleAbstract WITH ...`:
- `AbsPhase`: up from `InitKthread`'s success on;
- `AbsHeld`: a resource is held while its pointer is live, and the metrics
  buffer only until it is freed;
- `AbsThread`: the pacer is stopping once `pacer_exit` is set;
- `AbsTeardown`: `dpc = "wait"` is stopping, and the tables and release
  steps are releasing.

Every concrete step is an abstract step or a stutter. For example, the
NUMA loop skipping a known node is a stutter, `InitKthread`'s success is
`Up`, and `DestroyWait` is `Stopped`. The mutant that stops the pacer
without waiting (`DestroyStartNoWait`) maps to no abstract step, and TLC
reports it.

### HomaPrintBuffers (address printer rings)

`homa_print_ipv6_addr` (and `homa_print_ipv4_addr`, the same code with
`NUM_BUFS_IPV4`) returns one of four static buffers. It takes
`buffers[next_buf]` and advances `next_buf` modulo the ring size. The
comment promises that storage is reused only "eventually". The model reads
this as a contract on callers (`Contract`): a result is dropped before
`NUM_BUFS` further calls have been made. `next_buf` is a plain `static int`
that every core reads and writes with no lock. That is a data race, so the
constant `Builds` lists the two ways a compiler may emit `next_buf++` and
the wrap test:
- `merged`: one store of the wrapped value;
- `split`: store `next_buf+1`, reload, test, store 0.

| Definition | Code |
|---|---|
| `Init` | 282-286: the static ring and `next_buf = 0` |
| `TakeBuffer` | 283-288: `buffer = buffers[next_buf]` |
| `Advance` | 290-292: `next_buf++` and the wrap, in one store (merged) or the first store (split) |
| `Wrap` | 291-316: the split build's reload and wrap, then the formatting and the return |
| `Result`, `Contract`, `Older` | 276-279 and 313-315: the returned buffer and the reuse contract of the comment |
| `Release` | a caller done with one of its results, in any order (*spec_modelled*) |

Runs (`MCHomaPrintBuffers`: the real ring of four buffers; callers hold at
most four results at once, or two when two cores are involved):

- `print_buffers` (pass, one core, both builds). `ResultsIntact`: a buffer
  being written is held by no one, and one caller's results are in distinct
  buffers.
- `print_buffers_shared` (violation of `ResultsIntact`). Two cores read
  `next_buf` before either advances it, and they format into the same
  buffer.
  The same race, in the split build, lets a core read `next_buf ==
  NUM_BUFS` between another core's increment and its wrap, and index one
  past the array. `IndexInBounds` states that the index is below
  `NUM_BUFS`, but no run checks it in the split build with two cores. With
  one core it cannot fail, so it is not checked at all. This is listed as a
  hazard.

### HomaPrintPacket (homa_print_packet, homa_print_packet_short)

Both printers describe a packet in a caller's buffer by a chain of
`homa_snprintf` calls. The text is reduced to lengths: each piece asks for
2 or 5 characters. `wanted` sums what was asked, and `used` follows what
`homa_snprintf` returns. A packet is reduced to the fields the control flow
reads: type, `gso_segs`, `seg_length`, `data_bytes`, `homa_data_len` and
`num_acks`.

| Definition | Code |
|---|---|
| `HomaSnprintf` | 625-641: nothing once full; clamp to `size-1`; else `used + new_chars` |
| `Emit`, `EmitPlain` | a `homa_snprintf` call site (366-370), and a plain `snprintf` at the start of the buffer (543-563) |
| `Init`, `NullSkb`, `Header` | 327-350: the locals, the NULL report, the common line and the switch |
| `DataLine`, `DataOption`, `ExtraSegs` | 351-384: `seg_length` clamped to `data_bytes`, the three optional pieces, and the extra-segment list |
| `SegStep`, `LoopDone` | 385-402 (and 507-521 in the short form): the last segment is cut to `data_left` |
| `Field` | 403-448: GRANT, RESEND and CUTOFFS |
| `AckHead`, `AckStep` | 449-463: one entry per `num_acks`, read from `h->acks[i]` |
| `Terminate` | 464-468: `buffer[buf_len-1] = 0` |
| `ShortData`, `ShortOther` | 480-565: the short form, whose DATA case does not clamp `seg_length` |

Runs (`MCHomaPrintPacket`: a 10-byte buffer, so descriptions are truncated
after a few pieces; every packet type; DATA packets with `seg_length` 2 or
3 and 1-7 bytes, `gso_segs` as many segments as the bytes need, or 0;
ACK packets with up to `HOMA_MAX_ACKS_PER_PKT` = 5 acks):

- `print_packet` (pass, both printers). `UsedIsTextLength`: `used` is
  always the text asked for, capped at `buf_len-1`, whatever the number of
  pieces. `SegmentsCoverData`: the data lengths `homa_print_packet` lists are
  non-negative and add up to `data_bytes`. "Add up" is stated without
  recursion by `AddsUpTo`: there are running totals that start at 0, end
  at `data_bytes` and climb by each listed length. The short form is exempt. It
  does not clamp `seg_length` (line 497, unlike line 361), so a packet with
  one segment and fewer bytes than `seg_length` is described as carrying
  `seg_length` bytes. This is listed as a hazard.
- `print_packet_acks` (violation of `AckReadsInBounds`: the ack loop reads
  only inside `acks`). A received ACK whose `num_acks` exceeds the array
  makes the loop read past it. The code takes the count from the wire
  (line 453) and never bounds it. For a count within the array the property
  restates the loop guard, so no passing run checks it.

Deadlock is not checked in these runs: a printer is one function call, and
it ends when it returns.

### HomaTestApps (the epoll test programs)

`HomaTestApps` models one run of one of four programs in
`src/Testing-APPs`:
- `client_100B.c`, the closed-loop Homa client;
- `client_tcp_1KB.c`, its TCP counterpart;
- `server_100B.c`, the Homa server, which peels each new client off to a
  socket of its own;
- `server_tcp_100B.c`, the TCP server, which accepts each client.

Each program keeps a `malloc`ed context per socket in `contexts[MAX_EVENTS]`,
with `total_contexts` as the fill count. The model follows:
- every context through `heap` (`"none"`, `"live"`, `"freed"`);
- the array, through `contexts` and `total`;
- the batch of events the last `epoll_wait` returned, through `ready`.

The first memory error is kept in `err`. The kernel is the environment. Each
system call returns one of its outcomes, and a failure is one of them when
its kind is in `Faults` and fewer than `MaxFaults` failures have happened.
Sockets are closed and contexts freed together in every path of the code, so
the open sockets are the live contexts (`Live`).

| Definition | Code |
|---|---|
| `Freed`, `FreeErr`, `FreeSlots` | the loops `close(contexts[k]->fd); free(contexts[k])` of `cleanup` and `cleanup_contexts`, and the inline copies in the clients' set-up. Freeing through a slot never written is `"wild_free"`; freeing a freed context is `"double_free"`. |
| `Store` | `contexts[total_contexts++] = context`, with no bound check: past the end it is `"overflow"`. |
| `ClientSetup`, `ClientStore`, `ClientEpoll`, `ClientStart` | the clients' set-up loop. A failure after `socket()` frees `contexts[0..i]` (slot `i` not yet written), closes the new socket and goes on. `epoll_ctl` then fails on the closed socket and the loop runs again before `exit`. |
| `Alarm` | SIGALRM's `set_timedout`. |
| `ClientWait`, `ClientRecv`, `ClientSend`, `ClientStop` | the loop `while (!timed_out)`: `epoll_wait`, the EPOLLIN half (`ClientSockRecvmsg` / `ClientSockRecv`), the EPOLLOUT half (`ClientSockSend`), and `cleanup` at the end or on an error. |
| `ServerSetup`, `ServerWait`, `ServerWaitFail` | the servers' set-up, `epoll_wait`, and its failure. The Homa server exits without freeing; the TCP server breaks out and runs `cleanup_contexts`. |
| `ServerSigint` | `handle_quit`: every context freed, then the loop goes on. In `epoll_wait` the signal makes it return -1, and the server exits. |
| `ServerListen`, `ServerStore`, `ServerRegister`, `ServerPeeled` | the Homa server's listening-socket event (peel-off, `malloc`, store, `epoll_ctl`, `peeloff_setup`) and a peeled socket's event (`peeloff_sock_ops`). Each failure frees every context and exits. |
| `TcpAccept`, `TcpClient` | the TCP server's `accept` path, and `handle_client`. On a recv error the context is closed and freed but stays in `contexts[]`. |

`client_sock_recvmsg` ends without a `return` after a response. `main` then
tests an undefined value. The model takes both outcomes: the value is
harmless, or it is negative with a stale `errno`, and the client cleans up
and exits (`"undef"`).

Runs (`MCHomaTestApps`): two client sockets, `MAX_EVENTS = 2`, up to three
clients per server (one more than the array holds), and up to two failures.
- `apps_eof` (`HomaTestApps.cfg`, violation of `ClientEnds`: a client
  always ends). It allows every program and every failure, including the
  TCP peer closing its end. The fairness is weak fairness of the client's
  own steps (a single thread) and of SIGALRM, which the kernel delivers once
  the alarm expires. SIGINT is never forced. TLC finds the TCP client
  handling an EPOLLIN event after the alarm: `recv` returns 0 because the
  server has closed the connection. `client_sock_recv` (lines 42-57) takes
  that for a response and calls `recv` again, for ever. `main`'s test of
  `timed_out` is never reached again. Without the end of stream,
  `ClientEnds` holds. After the alarm `ClientWait` is disabled, so the batch
  drains and `ClientStop` runs.
- `apps_setup` (`HomaTestAppsSetup.cfg`, violation of `MemorySafe`). A TCP
  client's first `connect` fails, which is what happens when the server is
  not listening. The free loop passes `contexts[0]` to `free` before
  anything was stored there.

Deadlock is not checked in either run, because the programs end and an
idle server waits for ever.

The model has other paths that violate `MemorySafe`. No run reports them,
since `apps_setup` stops at the set-up failure. They are listed as hazards:
- a client set-up failure in `client_100B.c` (the same free loop);
- a client started with more sockets than `MAX_EVENTS`. The count comes
  from `argv` and is never compared with `MAX_EVENTS` (`client_100B.c:134`,
  `client_tcp_1KB.c:99`);
- a server's client stored past the array;
- SIGINT between the store and `epoll_ctl`, or in the middle of a batch;
- the TCP server freeing a failed client that stays in `contexts[]`.

## 4. Proofs

`HomaPriosProofs` (tlapm, all obligations proved):

- `TypeCorrect`: `Spec => []TypeOK`, from `TypeInit` and `TypeStep`.
- `SchedSplitInvariant`: under `PositiveNumPrioInputs`,
  `Spec => []SchedBelowUnsched`. `SchedBelowUnsched` is not inductive by
  itself, because it says nothing about a state in the middle of the loop.
  The strengthening `IInv` adds `LoopInv`. `LoopInv` says that while the
  scan is at index `prio_i`, `num_priorities` is clamped and positive,
  `unsched_cutoffs[0] = INT_MAX`, and no enabled level above `prio_i` covers
  a max-length message. Each loop action preserves it. The two `break`
  actions turn it into `SchedBelowUnsched`. The hypothesis restricts the
  theorem to the inputs for which the loop is defined. `LoopInv` keeps
  `prio_i` in the array because index 0 is below every positive
  `num_priorities`. For 0 or a negative value the loop goes to index -1,
  outside the array (hazard at `homa_utils.c:697`), and no theorem or run
  says what happens then.
- `PeerTableCurrentInvariant`: `Spec => []PeerTableCurrent`, with the
  strengthening `peer_version <= cutoff_version`.

`HomaFreezeProofs` (tlapm, all obligations proved):

- `FreezeTypeCorrect`: `Spec => []TypeOK`.
- `KnownPeersInvariant`: `Spec => []FreezeReachesKnownPeers` for any cores,
  peers and send outcomes. The property speaks only of finished broadcasts,
  so the inductive invariant `KInv` follows one core along its path (`CoreInv`):
  - before `get_peers`, the peers known at `tt_freeze` are still in the
    table, because the table only grows;
  - during the send loop, each of them is either sent to or still in the
    snapshot;
  - a core that has frozen has seen `tt_frozen` set, and while a broadcast
    runs its outcome is still `"none"`, so a core never freezes twice and
    its record of known peers is never overwritten.

  TLC checked `KInv` as an invariant of the `freeze` instance before the
  proof was written.

`HomaLifecycleProofs` (tlapm, all obligations proved):

- `LifecycleTypeCorrect`: `Spec => []TypeOK` for any `nr_cpu_ids`,
  `MAX_NUMNODES` and topology. The NUMA loop index stays within
  `nr_cpu_ids`, and `homa_num_numas` stays within `MAX_NUMNODES`.
- `PacerStopsFirst`: `Spec => []PacerStoppedBeforeTeardown`. The inductive
  invariant `LInv` says three things:
  - while `homa_init` runs, `homa_destroy` has not started and nothing is
    torn down;
  - the completion is fresh when the thread starts;
  - a running pacer has not completed, and either `homa_destroy` has not
    been called (and `pacer_kthread` is set, so it will wait) or it is
    waiting.

  `DestroyWait` needs a completion, so the wait ends only after the pacer
  has stopped.
- `LifecycleRefinement`: `Spec => Abs!SafeSpec`, the safety part of
  `ImplementsAbstract`, for every number of CPUs, nodes, topologies and
  destroys. It rests on `RInvInit` and `RInvStep`, which say `RInv` is
  inductive (`RInvStep` reuses `LInvStep`). `RefineStep` then has one case
  per action and maps each step to an abstract action or a stutter.
  `LInv` alone is not enough. `RInv` adds the facts the mapping needs:
  - a live `pacer_kthread` is a running pacer not yet told to stop, so
    `DestroyStart` is an abstract `StartDestroy` either way;
  - `pacer_exit` is false while `homa_init` runs, so `InitFinish`'s reset
    is a stutter;
  - the tables are live when the thread starts, as `Up` requires;
  - the completion count is zero unless the pacer has exited, so
    `DestroyWait` finds the pacer stopped;
  - the tables are gone by the release step, so `DestroyRelease` leaves
    nothing held.

  TLC checked `RInv` as an invariant of the `lifecycle` instance first.
  The fairness part of `ImplementsAbstract` is only model-checked.
- `NothingLeakedInvariant`: `Spec => []NothingLeaked`, through
  `NInv == RInv /\ NothingLeaked`. Once `homa_destroy` has returned,
  nothing can allocate again:
  - `homa_init` is over;
  - the metrics file opens only while `dpc = "idle"`;
  - a running pacer implies `dpc \in {"idle", "wait"}`.

  The release step frees what `RInv` says the tables step left.
`HomaPrintPacketProofs` (tlapm, all obligations proved):

- `TextLengthInvariant`: `Spec => []UsedIsTextLength` for every `buf_len`,
  every set of piece lengths and every packet. The lemma
  `SnprintfKeepsLength` shows that one `homa_snprintf` call keeps
  `used = min(wanted, buf_len-1)`, taking its three branches in turn:
  - the buffer is already full;
  - the piece does not fit;
  - the piece fits.

  `EmitKeeps` and `EmitPlainKeeps` lift this to the two kinds of append.
  The inductive invariant `TInv` adds the variables' types.
- `SegmentsCoverDataInvariant`: under `GsoPackets` (a DATA packet with
  `gso_segs >= 1` is not NULL and carries at most `gso_segs * seg_length`
  bytes, which is what a GSO packet the stack builds satisfies),
  `Spec => []SegmentsCoverData`. The property speaks only of the finished
  description. The inductive invariant `SInv` follows the segment loop.
  `Remaining` counts the segments still to be listed. Once the first length
  is listed, three facts hold:
  - the lengths listed add up (`AddsUpTo`) to `data_bytes - left`;
  - `left <= Remaining * seg_length`;
  - each loop step clamps its length to `left`, so `left` never goes
    negative and reaches 0 with the last segment.

  The lemmas `AddsUpToOne` and `AddsUpToAppend` say what appending a length
  does to the running totals. Their proofs give the extended totals as a
  witness. No induction is needed. The hypothesis bounds what the
  segments must carry. TLC checked `SInv` on the
  `print_packet` instance (2376 states) first.

`HomaPrintBuffersProofs` (tlapm, all obligations proved):

- `OneCoreResultsIntact`: for a single caller, in both builds and for any
  `NUM_BUFS` and `MaxHeld`, `Spec => [](ResultsIntact /\ IndexInBounds)`.
  The inductive invariant `OneCoreInv` (`CoreInv`) says that a result of
  age `a` lives in buffer `Back(x, a)`, the buffer `a` steps behind `x`
  with wrap-around. Here `x` is `next_buf-1` when idle and the buffer taken
  while a call runs. It also says ages are distinct. Three lemmas carry
  this through the operations:
  - `OlderKeeps`: taking a buffer ages everything;
  - `ReturnKeeps`: returning adds age 0 at the wrapped index;
  - `RemoveKeeps`: the caller drops a result.

  `BackInjective` turns it into `ResultsIntact`. The single-caller
  hypothesis is what the code's comment assumes. With two cores the
  `print_buffers_shared` run shows a result overwritten.

## 5. What is only model-checked, and what is not modelled

TLAPS does not handle liveness or ENABLED. Liveness stays with TLC:
`DestroyReturns` and the fairness conditions of `ImplementsAbstract`.
The installed provers cannot instantiate the library's induction
theorems, so no theorem is about what a recursive definition computes.
`SegmentsCoverData` is stated with running totals (`AddsUpTo`) rather than
a recursive sum for that reason. Two model-level choices let the printer
modules be reasoned about at all. `HomaPrintPacket` does not use
`Functions`' `SumFunction`, and `HomaPrintBuffers` defines `RemoveAt`
itself instead of taking it from `SequencesExt`. Both community modules
reach RECURSIVE operators, and a module with a theorem may not.

Some properties have no theorem, because the code violates them:
- `SentTableCoversMaxLength`, `OneBroadcastPerArming`,
  `AllocFailureReported`, `AckReadsInBounds`, `MemorySafe` and
  `ClientEnds`, which the violation runs refute;
- `NoDoubleFree` and `IndexInBounds`, which no run checks (section 3).

A theorem under a hypothesis that removes exactly these cases would say
nothing about the code, so none is stated. This covers the ack loop for
well-formed packets, the merged build of the ring, and the test clients
with a successful set-up. Not modelled:

- the characters produced by `homa_print_packet*` and the offsets they print
  (only lengths and control are modelled), and `homa_symbol_for_type`'s
  static buffer, whose garbling under concurrency its comment accepts;
- `homa_spin` (a busy wait);
- `send_raw` (one `sendto`);
- `server_vanilla_homa_1KB.c`: a blocking receive-and-reply loop. It keeps
  no per-client state, frees nothing, and exits on the first error;
- in the test apps: message contents, TCP byte-stream boundaries (a
  response split over two `recv` calls, or two requests read in one), and
  addresses. Only the control of each program and the life of its contexts
  are modelled;
- the per-core field initialisation in `homa_init` lines 70-92, which is
  data layout with no control.
