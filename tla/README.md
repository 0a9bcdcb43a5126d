# Verification of the Qualcomm multimedia fences and clock admission

This directory holds TLA+ modules for the multimedia fences and the clock admission
of the SM8550 kernel modules, the TLC configurations that check them on small instances, and
TLAPS proofs for every size. `PROJECT.json` lists runs, mutants, the map from
definitions to source lines, findings, hazards and theorems.

All source paths below are relative to `src/qcom/opensource/`, and those without a
directory to `mm-drivers/hw_fence/src/`.

## 1. Inventory

The repository is a collection of out-of-tree kernel modules, several million
lines of them drivers that program one piece of hardware. The parts with a
protocol of their own, whose correctness depends on interleavings and not on
registers, are the fences: `hw_fence`, `sync_fence`, the camera's `cam_sync`; and
the admission control of `mmrm`. `hw_fence` comes first, because all others on
the multimedia path (display, GPU, camera, video) rely on it and because it shares
its memory with a second virtual machine.

### hw_fence, the core

A *hw-fence* is a dma-fence that hardware can signal to hardware without the CPU.
The primary VM (this driver, on all CPUs) and the secondary VM (the fence
controller, *FenceCTL*, a firmware) share a piece of memory. It contains:

| part | state | operations | code |
|---|---|---|---|
| inter-VM locks | one word for each fence and for each Rx queue; bit 0 primary, bit 1 secondary | `_lock`, `_unlock` | `hw_fence_drv_utils.c` 98-163 |
| client queues | a Tx and an Rx ring for each client, `read_index`, `write_index`, `tx_wm` | `hw_fence_update_queue`, `hw_fence_read_queue`, `hw_fence_utils_reset_queues` | `hw_fence_drv_priv.c` 27-372, 1439-1480 |
| fence table | hash table of fences: valid, context, seqno, allocator | `_hw_fence_lookup_and_process` for create, destroy, find; destroy by handle | `hw_fence_drv_priv.c` 669-1106, `msm_hw_fence.c` 163-291 |
| waiting | in each fence: signal flag, wait mask, client data, parents, pending children | wait on a fence, wait on a fence-array, reset of a client | `hw_fence_drv_priv.c` 1108-1520, `msm_hw_fence.c` 293-422 |
| client registry | `clients[]`, `clients_register_lock` | register, deregister | `msm_hw_fence.c` 20-161 |
| doorbells | loopback of signals from FenceCTL to drivers | `_hw_fence_cb` and the loopback of each client type | `hw_fence_drv_utils.c` 165-345 |
| layout | sizes and offsets from the device tree | parse, map, carve out | `hw_fence_drv_utils.c` 347-938 |
| IPCC | mapping of clients to signals | tables, register writes | `hw_fence_drv_ipc.c` |
| debug and ioctl | validation clients, events | test interface | `hw_fence_drv_debug.c`, `hw_fence_ioctl.c` |

How they interact: a producer creates a fence (table), a consumer waits on it
(table, then wait mask under the lock of the entry). The producer's hardware puts
the fence into its Tx queue; FenceCTL reads it, marks the fence as signaled and
writes to the Rx queue of each client in the wait mask (queue, under the lock of
the client). For a fence-array the driver makes a *join fence* which counts its
unsignaled children, and each child lists its join fences as parents; FenceCTL
counts them down. When hardware hangs, the reset of a client walks through the
whole table, takes the client out of every wait mask, and signals and destroys
the fences it allocated.

What is hard here:

- there is no lock of the table and none around a whole operation; everything is a
  sequence of accesses, each under the lock of one entry or under none at all
  (`hw_fence_read_queue`, the flag in `hw_fence_register_wait_client`, the allocator
  in `hw_fence_destroy_with_hash`);
- the other VM is one more, independent actor for each of these sequences;
- operations fail in the middle (a fence-array with a child that is no hw-fence)
  and have to be taken back while other actors already see their effects;
- resets may come at any time;
- rings, the table and the lists of parents are small and can be full.

The properties that make it correct: mutual exclusion across the VMs and no lost
wake-up; a queue is a bounded FIFO; a fence is in the table at most once and a
lookup never misses one that is there; each waiting client is told, once all it
waits for is signaled and not before, with its own data.

### The neighbours

| part | state and operations | hard behaviour | module |
|---|---|---|---|
| `mm-drivers/sync_fence` | speculative fences: fence-arrays over a dummy fence; create, bind to real fences, wait for the bind; the display driver consumes them | wait before bind, a bind that fails half way, bind racing with time-out and with the last close | `SpecFence` |
| `camera-kernel/drivers/cam_sync` | sync objects in a table with a bit map, groups with parents and children, references, kernel callbacks and user payloads | signal racing with registration, merge, destroy and close, one row lock at a time | `CamSync` |
| `mmrm-driver` | clock clients with a voted rate, the sum of their currents, throttled clients | sum carried on by differences, checks and clock changes outside the mutex | `MmrmClk` |
| `mm-drivers/msm_ext_display` | hand-over of a display to the audio codec | order of enable and disable | later |
| `graphics-kernel` | KGSL: events, timelines, dispatch | event groups and time stamps | candidate |
| `securemsm-kernel` | smcinvoke: callback requests of the secure world to user servers | servers that die with requests in flight | candidate |
| wlan, dataipa, datarmnet, audio, bt, display, eva, video, nfc | protocol stacks and device drivers | mostly hardware sequences | not planned |

What makes them correct. *sync_fence*: references to the dummy balance however binds
fail, an array signals only for the fences it was bound to, and who waits never takes
a failed bind for a signal. *cam_sync*: a group counts its children exactly, is a
success if and only if all of them are, and everybody who waits is told once and
not early. *mmrm*: what is booked is what the clocks draw, the sum is never too small
for the voltage in use, and a request of low priority never takes it to the threshold.

## 2. Plan

1. Done: `HwFenceLock`, `HwFenceQueue` with its abstract specification `FenceFifo`,
   `HwFenceTable`, `HwFenceSignal`, `SpecFence`, `CamSync`, `MmrmClk`.
2. Done, proofs: every invariant and action property the passing runs check, and the
   refinement of `FenceFifo` (section 5).  Next, proofs under weaker hypotheses: join fences while clients are
   reset (`HwFenceSignal`), and what is left of the references when binds overlap (`SpecFence`).
3. Further models in hw_fence: a composition of `HwFenceSignal` with bounded Rx queues
   (what a full queue does to a waiter: `_fence_ctl_signal` ignores the error of
   `hw_fence_update_queue`); the registration of clients (a client is published before it
   is initialised); the wait of a validation client with its time-out and loopback; the
   arithmetic of sizes and offsets.
4. Then the sync objects tied to dma-fences in `cam_sync`, and `msm_ext_display`.

## 3. The modules

| module | models | proofs |
|---|---|---|
| `HwFenceLock` | the lock word, one step for each exclusive access | `HwFenceLockProofs` |
| `HwFenceQueue` | one client queue, one step for each shared access | `HwFenceQueueProofs` |
| `FenceFifo` | what a queue promises | |
| `HwFenceTable`, `MCHwFenceTable` | the hash table, one step for each probe | `HwFenceTableProofs` |
| `HwFenceSignal`, `MCHwFenceSignal` | waiting, join fences, signaling, reset | `HwFenceSignalProofs` |
| `SpecFence`, `MCSpecFence` | speculative fences and the frames of the display that wait for them | `SpecFenceProofs` |
| `CamSync`, `MCCamSync` | sync objects and groups, one step for each row lock | `CamSyncProofs` |
| `MmrmClk`, `MCMmrmClk` | requests for clock rates, admission, throttling | `MmrmClkProofs` |
| `NaturalLemmas` | | the least number principle, minimum and maximum of finite sets |

The modules of hw_fence take for granted what the one before establishes: a step "under a
lock" of the queue, the table and of signaling is atomic with respect to the same
lock (`HwFenceLock`); `HwFenceSignal` finds an entry in one step (`HwFenceTable`) and
its Rx queues are sets of messages (`HwFenceQueue`).

**HwFenceLock.** The state is the word as a set of bits, and for each CPU its place
in `_lock` or `_unlock`, the register of the last exclusive load and whether its
exclusive monitor is armed. Any store to the word disarms all monitors. `_lock` is
`LockLoad`, `LockStore`; `_unlock` is `UnlockLoad`, `UnlockStore` and the trailing read
`UnlockWake` which decides on the interrupt. A real store-exclusive may also fail
for no reason, which is a longer way through the same loop. The secondary VM is external and follows
the comments in `_unlock`.

**HwFenceQueue.** Indices are counted in payloads. `Locked` selects an Rx queue
(several producers, locked) or a Tx queue (one producer, no lock); `SkipTxqWrIdx` the
variant in which the driver advances `tx_wm` and hardware `write_index`. A producer
takes the steps `Enter`, `CheckFit`, `WritePayload`, `Publish`, `Leave`, `Signal`. The reader
(`Answer`, `ReadIndices`, `ReadPayload`, `Advance`) cleans its doorbell and then reads until
the write index it saw. `ResetBegin` to `ResetEnd` are `hw_fence_utils_reset_queues`, the
read of one index and the store of the other being separate steps.

**HwFenceTable.** A call is `Lookup` with an operation code, then one `ProbeHit` or
`ProbeMiss` for each locked entry, then `Return`, where the caller changes the flag of
the dma-fence. Destroying by handle, and a reset, begin with two unlocked reads,
`CheckAllocator` and `ReadKey`. `enabled` is the flag of a dma-fence; for a fence-array
it is a history variable, because the code has no such flag. `absent` remembers that
the key was away at some time of a call. The hash is computed without its wrap at
2^64, which makes no difference to anything that is stated: all that is used is
that it maps a key to an entry.

**HwFenceSignal.** A wait on a fence is `WaitFence` (the entry is found), `Register`
(locked), `Recheck` (the flag, not locked). A wait on an array is `WaitArray`, one of
`ChildSignaled`, `ChildAdded`, `ChildRefused`, `ArrayInvalid` for each child (locked), and
`ArrayDone`; or `Undo` for each child in reverse, and `Undone`. A reset is `Reset`, then for
each entry `ResetClear` (locked), `ResetSignal`, `ResetDestroy`, and at last `ResetQueues`.
`MSM_HW_FENCE_RESET_WITHOUT_ERROR` and `..._WITHOUT_DESTROY` can be set alone or together
(`WithoutError`, `WithoutDestroy`); `Resets` says with which a client may be reset, `QuietResets`
that no wait call is under way meanwhile, `QuietJoins` that no join fence is in use when a reset begins.
FenceCTL is external: `CtlSignal` locks a fence and sets its flag, `CtlClient` and
`CtlJoin` tell clients and count down join fences, `CtlUnlock` ends. Each client makes
one call at a time, and asks once for each object. An array without children has
`array->fences` NULL; otherwise `_cleanup_join_and_child_fences` would look at `fences[0]`.

**SpecFence.** The state is that of the device (`opened`, `tracker`), of each array (children,
pending count, enable bit, bound bit, error) and the number of references held on
the dummy and on each fence. `spec_sync_create_array` and `TrackArray` create. A bind is
`BindBegin` (is it signaled?), `BindCheck` (tracked, still all dummies), `BindFill` (the loop
under the lock, up to the first fd that is no fence), `BindEnable`, `BindClear`, `BindBound`;
or `BindError`, `BindSignal`, `BindClear` for one that fails, the lock being held until the
error is set. The last `spec_sync_release` gives up all tracked arrays. A frame is
`FrameBegin`, `Bound` or `BindTimeout`, `LookAtChildren`, and a wait in hardware or software
(`SwWait`, `SwWoken`, `SwTimeout`). The dma-fence-array core of the kernel is external and
follows its source as the driver uses it: a release puts the children, an array is
signaled when its pending count is used up, from an irq work.

**CamSync.** A row is a record; `op` is the call of each thread with the rows it still has
to go to, remembered by number as in the code. `cam_sync_merge` keeps the lock of the new
row (`Unlocked`) and takes `LinkChild` for each child, then `MergeEnd`; or `UnlinkChild` for
each and `MergeFails`. `cam_sync_signal` changes the row and takes the parents with it, and
`TellParent` visits them one at a time. `cam_sync_destroy` is `DeinitBegin`, `UnlinkFromChild`,
`UnlinkFromParent`, `DeinitEnd`. The close is `CloseSignal` for each row, `CloseFlush`,
`CloseDestroy` for each row. `spoiled` and `orphaned` are history: a child failed, a child was
destroyed before it was signaled. A child is merged once into a group.

**MmrmClk.** There is one rate for each voltage level. A request is `SetVal` (the comparison with
the entry, without the mutex), then an admission under the mutex in one step
(`AdmitNone`, `AdmitFits`, `AdmitThrottle`, `AdmitUnthrottled`, `Refuse`) or `FlagReserve`, then
`SetClkRate` or its failure, without the mutex. The switch `msm_mmrm_enable_throttle_feature` may
change at any time (`ThrottleFeature` holds the values it takes): off, a request of high priority is refused like the others. The arithmetic of `mmrm_sw_check_peak_current` is
in the operators above the actions. The current of a client for its level and that of the
rail is a constant; all that is assumed of it is that it grows with the level of
the client and falls with the voltage of the rail (`CurrentAssumption`). `skewed` and `unset`
are history: the sum, or a clock, is known to be off.

## 4. What the runs check

Every property of a passing run is also shown to fail when a definition is changed
the way a plausible bug would (`mutants`; the changed definitions stand before the
right ones, marked "Mutant").

### Passing

| run | instance | what it shows |
|---|---|---|
| `lock` | 3 CPUs and the secondary VM | `MutualExclusion`; the secondary VM never sleeps with nobody about to wake it (`NoLostWakeup`) and gets the lock (`SvmGetsLock`) |
| `queue_rx` | 3 entries, 2 payloads, 2 producers | no unread payload is overwritten, the reader gets the oldest, intact (`NoOverwrite`, `ReadsOldest`); resets empty the queue while the reader is stopped (`ResetEmpties`); nothing stays unread (`NoneStranded`); the ring is a FIFO (`ImplementsFifo`) |
| `queue_tx` | 3 entries, 1 producer, hardware write index | a FIFO that strands nothing without a lock as well, with resets at any time of the producer and the hardware, the reader being stopped (`NoneStranded`, `ImplementsFifo`) |
| `table` | 3 entries, 2 fences and an array which all hash to the last entry, 3 threads | `UniqueKeys`, `LookupComplete`, `HandleOwnFence` |
| `signal` | 2 fences, 4 arrays (one of which fails and one is empty), 2 clients, 3 calls each, data with each wait on a fence | the count of pending children is exact and children know their join fences and no others (`JoinsExact`, which is `PendingExact`, `ParentsListed` and `NoDanglingParent`), arrays are neither early nor lost (`JoinWaitsForAll`, `NoLostSignal`) |
| `signal_reset` | 2 fences and an array of them, 3 clients, two of which wait, each with data of its own for each fence; one of these is reset, and the third one, which created a fence, with each combination of the flags | each message carries what its own receiver passed for that fence (`DataReturned`) and an error only for a reset (`ErrorMeansReset`); resets leave no wait bit behind (`MaskMeansWaiting`); whoever waits for a fence or an array is told at last, by FenceCTL or by the reset of the allocator (`WaitersTold`) |
| `spec_fence` | an array of two fences that needs both and one of one fence; a fence that is a hw-fence and one that is not; a binder, a frame, two openers | references balance (`RefsExact`); no array signals before its fences do (`SignalEarned`); frames wait in hardware for hw-fences only (`HwDecision`); bound arrays signal at last (`BoundSignals`) |
| `cam_sync` | three rows, four creations, two threads and the close | `RemainingExact`, `NoneForgotten`, `GroupStatus`, `CallbackFinal` |
| `mmrm` | three clients at different levels, one with two hardware blocks, one that can be throttled and reserves, one of high priority | the sum is that of the booked currents (`AggregExact`) and enough for the highest level in use (`SumIsSafe`); clocks run as booked (`ConfiguredRate`); requests of low priority stay below the threshold (`LowStaysBelow`) |

### Violations: where the code does not do what it says

| run | what happens |
|---|---|
| `queue_tx_reset` | A Tx queue is reset while its reader has a payload in hand. The reset makes `read_index` the last write; then the reader stores the index after the payload it took, and the forgotten messages are back ("For the client TxQ: set the read-index same as last write that was done by the client", `hw_fence_drv_priv.c` 1449). |
| `cam_reuse` | A child is signaled and its group destroyed before the signal reaches it; a new group is created in the row and is counted down for a child it never had. It is then signaled while its own child is active. |
| `mmrm_overshoot` | A request of high priority reaches the threshold, nobody can be throttled, and it is granted and booked all the same. |

The passing runs exclude these and the following cases by named constants, so they
say under which discipline of its callers the code is right. These deviations follow
from the same definitions with other values of the constants:

- `ReaderStopped` is FALSE in `queue_rx`: `ResetEmpties` fails. A reset of the Rx queue
  that overlaps with `hw_fence_read_queue` leaves the queue full of old messages instead
  of empty ("set the write-index same as last read done by the client",
  `hw_fence_drv_priv.c` 1455, 1473). The client can see to it that it does not read then.
- `ReaderStopped` is FALSE in `queue_tx`: `ImplementsFifo` and `NoneStranded` fail, too. The reader is
  the fence controller, and `hw_fence_utils_reset_queues` takes no lock and does nothing to stop it
  (`hw_fence_drv_priv.c` 1446-1453). Either of the two stores a stale `read_index` over that of the other:
  the reader brings forgotten messages back, or loses new ones when it goes back to where the producer
  has arrived; the reset brings back a message that was read meanwhile, and no doorbell tells of it.
  What the queue promises thus rests on a firmware that pauses during a reset, of which the driver knows nothing.
- `SharedArrays` is TRUE in `table`: `UniqueKeys` fails. A create looks for its key only before
  the first free entry, so two waiters on one fence-array can put its key into the
  table twice ("ctx & seqno must be unique creating a hw-fence", `hw_fence_drv_priv.c` 938).
- `SerialArrays` is FALSE in `signal`: `ParentsListed` (part of `JoinsExact`) fails. `_cleanup_join_and_child_fences` leaves
  a hole in `parent_list` and decrements `parents_cnt`; with two arrays in flight the next
  parent overwrites one that waits (`hw_fence_drv_priv.c` 1179).
- `ArrayData` contains data: `ErrorMeansReset` fails. For an array that is already signaled
  the client's data is passed as the error (`hw_fence_drv_priv.c` 1313).
- `QuietJoins` is FALSE in `signal_reset`: `WaitersTold` fails. A reset does not signal the join
  fences of the fences it destroys (`hw_fence_drv_priv.c` 1504).
- `ClientOf` maps two threads to one client (a reset thread beside the working thread):
  `HandleOwnFence` fails, because the entry changes hands between the two unlocked
  reads (`hw_fence_drv_priv.c` 1030, 1037).
- A fence destroyed by handle keeps the flag of a hw-fence in its dma-fence, and
  can never become one again (`msm_hw_fence.c` 280; `Return` in `HwFenceTable`).
- `TooManyParents` is `>=` after the increment, so a child gets `MAX_PARENTS` - 1 parents
  (`hw_fence_drv_priv.c` 1280).
- `ArrayData` contains data: `DataReturned` fails, because the data is stored in the join
  fence after FenceCTL may have used it (`hw_fence_drv_priv.c` 1307).
- A client without a data id waits beside one that has one and the fence is reset:
  `DataReturned` fails, because `_signal_all_wait_clients` keeps the data of the client before
  (`hw_fence_drv_priv.c` 1429).
- `QuietResets` is FALSE: `WaitersTold` fails, because a wait call registers in an entry
  that the reset has freed since it was found (`hw_fence_drv_priv.c` 1367).
- `OneBindAtATime` is FALSE in `spec_fence`, with two binders: `RefsExact` fails. Both binds pass
  the check for dummies and the second one puts the dummy once more for each child,
  and loses the fences of the first (`sync_fence/src/qcom_sync_file.c` 378, 410).
- Given up at the last close, an array with two children and `SPEC_FENCE_SIGNAL_ALL` is
  not signaled: `num_pending` is decremented once (`qcom_sync_file.c` 119).
- At close an active sync object to which nobody holds a reference is not signaled as an
  error, though "Signal all ACTIVE objects as ERR" is what the comment says: the
  decrement of its count gives -1 (`cam_sync.c` 363, 1625; `CloseSignal`).
- A user payload registered for a group is answered at once as soon as its first child is signaled,
  success or failure, though others remain; a kernel callback when none remains (`cam_sync.c` 773 and 153; `RegisterPayload`).
- `QuietThrottle` is FALSE in `mmrm`: `ConfiguredRate` fails. A client is throttled between
  the end of its admission and its `clk_set_rate`, and then runs above its entry
  (`mmrm_clk_rsrc_mgr_sw.c` 916).
- Throttling does not count hardware blocks and takes the old level of the rail, and a running
  client that is deregistered leaves its current in the sum: the sum is off until it is
  calculated anew (`skewed`; `mmrm_clk_rsrc_mgr_sw.c` 515, 336).

### Bounds

- Lock: three CPUs, so that one can own, one can spin and one can be between its
  exclusive load and store. The proof covers any set of CPUs.
- Queue: three entries hold two messages, the smallest ring in which both indices
  wrap at different times, and which can be full, half full and empty. Two
  payloads tell a torn or stale one from the right one. Proved for every N >= 2.
- Table: three entries and three keys with the same hash value, so that the table
  is full, every probe wraps round and every entry can be reused while others
  are looking for it. Proved for every size.
- Signaling: `MAX_PARENTS` is 3, one more than the two parents a child gets, and the
  three arrays `a1`, `a2` and `a3` contain `f1`, so the limit is reached. `MaxCalls` bounds the calls
  of each client: three in `signal`, where a client may wait on a fence and on two arrays.
  In `signal_reset` one client waits once and the other twice, so that two of them wait for the
  same fence, whose allocator is the third one, or for the fence and an array that holds it;
  a client is reset at most once. The data differs for each client and each fence, so that a
  message with the data of another client or of another wait is told from the right one. A reset
  never tells the client that is reset, so three clients are the fewest with which it can mix up two.
- Speculative fences: an array of two, so that a bind fails half way, beside one of one,
  so that clearing the tracker meets a second array. Each array is created once.
- Sync objects: three rows are two objects and a group of them, and four creations let
  one of the rows be reused. `Waiting` bounds a client to one object at a time.
- mmrm: with four levels, clients at the second and third leave both orders of "last" and
  "highest" when the one at the fourth stops. The threshold is such that two clients
  fit and three do not. `OneDrift` keeps a second running client from leaving, or a second
  clock from failing, while a first one still matters: otherwise the sum drifts without end.

`CHECK_DEADLOCK FALSE` is used in the runs of `HwFenceSignal`, `SpecFence` and `CamSync` only:
when the bounded calls are made and all is signaled, nothing is left to do.

### Fairness

Safety holds without fairness. For liveness:

- *Lock*: a CPU that holds the lock goes on to release it (preemption is disabled
  and critical sections contain no wait); a pending interrupt is delivered; the
  secondary VM releases. Nothing makes a CPU ask for the lock, and the spin loop is
  not assumed to be fair: that the secondary VM gets the lock is due to its
  acquire bit, which keeps `_lock` from storing.
- *Queue*: a producer past the lock goes on, a reset ends, a doorbell is answered,
  hardware announces what was written. Nobody has to produce, reset or get the lock.
- *Signaling*: a call of the driver and an activity of FenceCTL run to their end, and
  every unsignaled fence is signaled at last, which the kernel demands of every dma-fence.
  Nobody has to call.
- *Speculative fences*: a call of a binder that has begun goes on (it waits for nothing but
  locks) and a queued irq work runs. Nobody has to bind, and no fence has to signal.

## 5. What is proved

All theorems hold for every value of the constants that satisfies the assumptions
named in the modules (`SizeAssumption`, `QueueAssumption`, `NamesAssumption`,
`TableAssumption`, `KeysAssumption`, `ThreadsAssumption`, `ObjectsAssumption`, `ClientsAssumption`,
`FencesAssumption`, `RowsAssumption`, `SizesAssumption`, `CurrentAssumption`), and the hypotheses
they state. The assumptions say that the sets are finite and that names differ: the dummy of `SpecFence`
is no array, `CamSync` has finitely many threads, a fence is in an array once. A hypothesis is always one of the
disciplines of section 4, without which TLC has a counterexample, or is explained here. The
inductive invariants were checked by TLC on the instances of the runs before they were proved.

**Lock** (`HwFenceLockProofs`, any set of CPUs). Mutual exclusion is not inductive: that
nobody enters is due to the word. `LockInv` ties bit 0 to the one CPU between its two
stores (`PvmBitOwned`), bit 1 to the state of the secondary VM (`SvmBitKept`, `SvmOwns`)
and says that an armed monitor means an unchanged word (`MonitorExact`), from which a
store-exclusive that succeeds is as good as atomic. `LockInvariant`,
`LockMutualExclusion`, `LockWakeup`, `LockSvmBitKept`, `LockTypeOK`.

**Queue** (`HwFenceQueueProofs`, any size and set of producers). Under the hypothesis
`ReaderStopped`, without which there is a counterexample for Rx and for Tx queues (section 4). The invariant
counts payloads round the ring: a producer that passed the check still owns the
write index and has room (`Fits`), a reader that saw something owns the oldest
payload (`ReaderOwns`), a reset stores an index inside the window (`ResetOwns`).
Whatever either side read of the other's index is stale only on the safe side.
`QueueInvariant`, `QueueNoOverwrite`, `QueueReadsOldest`, `QueueResetEmpties`, `QueueTypeOK`.
`QueueImplementsFifo` is the refinement: the FIFO is the sequence of payloads from `read_index` to the
index the producers advance. A publication appends one message, the store of `read_index` removes the oldest (which is
the one that was read, by the invariant), a reset forgets some of the oldest, and every other step leaves
the sequence alone.

**Table** (`HwFenceTableProofs`, any size, keys and threads). Under the hypothesis
`Disciplined`: one waiter for each fence-array, one thread for each client; without either
half there is a counterexample (section 4). A thread
that creates a fence knows that its key is nowhere in the table (`CreateFresh`, from
the flag, `EnabledCovers`); an entry does not move, so a lookup that has not met it
has it ahead (`Ahead`, by counting probes from the hash value). `TableInvariant`,
`TableUniqueKeys`, `TableLookupComplete`, `TableHandleOwnFence`, `TableValidIffKeyed`,
`TableTypeOK`.

**Signaling** (`HwFenceSignalProofs`, any fences, arrays, clients and lists of children). `CallInv` ties
the label of every call to its local variables and needs no hypothesis (`SignalCalls`); on it rests
that no client stays in a wait mask for which it does not wait (`SignalMaskMeansWaiting`, no hypothesis either, so
with all resets). `SignalDataReturned` needs a data id for each client and no data with arrays
(`PlainData`), `SignalErrorMeansReset` only the latter. Everything about join fences needs `OneByOne`: arrays are
processed one at a time, and nobody is reset, since a reset destroys fences whose join fences are
still counting. Then `Joins` holds: `parent_list` has no holes (`ParentsPacked`), a child that is passed and
not signaled lists the join fence (`PassedListed`), FenceCTL has at most the join fences of the fence it
signals in hand (`CtlCounts`), and the count is that of the children not yet counted down (`Counted`). `SignalJoins`, `SignalTypeOK` (the count
never goes below zero), `SignalJoinsExact`, `SignalJoinWaitsForAll`; `Waits`, which says where a client that waits is still known,
gives `SignalNoLostSignal`.

**Speculative fences** (`SpecFenceProofs`, any arrays, fences, binders and frames). `SpecFenceTypeOK` needs no hypothesis. The
others need `OneBindAtATime`. `BindOrder` says where every bind stands and what the array looks like
there, so that the children are put in place once (`ChildrenFinal`), before the bound bit is set:
`SpecFenceHwDecision`. `Accounts` is the arithmetic of `num_pending`: what it lacks is the number of children that
have been counted, each by one callback (`SpecFenceSignalEarned`). `Exact` counts the places that arrays not yet released
have for the dummy and for each fence, with what a bind holds between its fill and its end:
`SpecFenceRefsExact`.

**Sync objects** (`CamSyncProofs`, any number of rows, threads, clients and payloads). One lemma for each action says what it does to
a row and to a call; the invariants build on these. `Owned`: a call that fills or clears a row is the
only one that does, and the row is in use. `Statuses`: a group carries a failure exactly if a child failed.
These suffice for `CamSyncTypeOK`, `CamSyncGroupStatus` and `CamSyncCallbackFinal`, without any hypothesis. `Pairs`: a child that lists a
group is listed by it, or the group is on its way out and will still visit the child. `Counts` is
`RemainingExact` together with the fact that no signal is on its way to an individual object; a signal moves its row
from the children to the signals on their way, a destruction to the orphans. It needs `QuietReuse`, and the run `cam_reuse`
shows that nothing less will do: `CamSyncRemainingExact`, `CamSyncCountsChildren` (what `cam_reuse` refutes without the hypothesis). `Told`: who waits
was told exactly if the object is finally signaled, and the row of a merge is as new until it
is unlocked; that the signal of a child finds a group that is not yet final is due to `Counts`. `CamSyncNoneForgotten`.

**mmrm** (`MmrmClkProofs`, any number of clients, levels and currents). `MmrmInv` says that the sum is exact, that the level of the
rail is that of some client, and that a request in flight was checked. The sum over the table is
a recursive function; that it adds, compares and leaves out entries as expected is proved by
induction over the places of the table (`TableInduction`, from `LeastNumber`). `MmrmInvariant`, `MmrmAggregExact`, `MmrmSumIsSafe`,
`MmrmLowStaysBelow` without a hypothesis; `MmrmConfiguredRate` under `QuietThrottle`. `MmrmTypeOK` needs `SmallVictims`, no block of a client
that can be throttled takes more current than the threshold: the code subtracts the current of one block from
the sum without a check, and with larger ones the sum may go below zero (the attempt to prove the type without it failed
there). `MCMmrmClk` assumes `SmallVictims` of its instance. `LowStaysBelow` speaks of requests whose grant changes the entry of the client: if the
client was throttled meanwhile to just the rate it asks for, the entry after a refusal cannot be told from that after a grant.

Type correctness is a conjunct of the inductive invariants, or implied by them, and a theorem
of its own for each module.

**Only model-checked**: liveness (`SvmGetsLock`, `NoneStranded`, `WaitersTold`, `BoundSignals`), which is out of the
prover's reach. Induction by the library's theorems is too, since they take an operator; over a bounded
range it is had from `LeastNumber`, for a set of places instead of a predicate.

## 6. What is not modelled

- Weak memory. All accesses are sequentially consistent; barriers are taken to do
  what their comments say. Where a barrier is missing (`hw_fence_read_queue` reads the
  payload with relaxed accesses after the index) the models do not tell.
- A full Rx queue in `HwFenceSignal`: a write succeeds.
- Some unlocked reads that follow each other are one step: the two indices in `CheckFit` and
  `ReadIndices` (each side owns one of them, and the other one moves to the safe side only, so that
  a later read of it allows no less), context and seqno in `ReadKey`, the flag and the loop
  over the clients in `ResetSignal`, the check of the children and the choice of a row in `cam_sync_merge`.
- Reference counts, time stamps and events for debugging, log messages.
- Registration of clients, memory layout, device tree, IPCC registers, debugfs and
  ioctl, the loopback of validation clients: see the plan.
- The firmware FenceCTL and the secondary VM are modelled from how the driver
  relies on them.
- In `cam_sync`: objects that are created from, or imported as, dma-fences or synx objects,
  the mode `trigger_cb_without_switch`, an object passed twice to one merge. The completion is a
  flag; a waiter on a row that is destroyed under it is outside the model.
- In `mmrm`: how currents are calculated from the device tree (fixed-point arithmetic),
  several registrations of one client, allocations that fail, rates that the clock does not have.
- The other drivers of the repository, as listed in section 1. The largest of them (wlan,
  dataipa, display, audio) are several million lines of register programming and
  message formats; a model of them would say little that their hardware does not decide.
