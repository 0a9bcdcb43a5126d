---------------------------- MODULE HwFenceQueue ----------------------------
(***************************************************************************)
(* One client queue of the hw-fence driver: a ring of fixed-size payloads  *)
(* in shared memory with a read and a write index in its HFI header.       *)
(* Indices are counted in payloads (the code counts 32-bit words, and      *)
(* every index it stores is a multiple of payload_size_u32).               *)
(*                                                                         *)
(* An Rx queue (Locked) is written by every CPU that signals the client    *)
(* and by the fence controller, under the client's inter-VM lock           *)
(* (HwFenceLock), and read by the client without it.  A Tx queue is        *)
(* written by its client alone, without a lock, and read by the fence      *)
(* controller.  A client with skip_txq_wr_idx has the driver advance tx_wm *)
(* in place of write_index; its hardware advances write_index later.       *)
(*                                                                         *)
(* The value of a local variable that is dead (between two calls) is 0.    *)
(* Accesses are sequentially consistent here: the barriers of the code are *)
(* taken to do what their comments say.                                    *)
(***************************************************************************)
EXTENDS Naturals, Sequences

CONSTANTS
  N,              \* queue entries
  Payloads,       \* what a producer may write
  Producers,      \* the contexts that run hw_fence_update_queue
  Locked,         \* _lock_client_queue: TRUE for the Rx queue
  SkipTxqWrIdx,   \* hw_fence_client->skip_txq_wr_idx (Tx queue only)
  ReaderStopped   \* the reader is stopped while the queue is reset

ASSUME SizeAssumption == N \in Nat /\ N >= 2
ASSUME QueueAssumption ==
  /\ Locked \in BOOLEAN /\ SkipTxqWrIdx \in BOOLEAN /\ ReaderStopped \in BOOLEAN
  /\ SkipTxqWrIdx => ~Locked
  /\ ~Locked => \A p, q \in Producers : p = q
ASSUME NamesAssumption == {"nobody", "reset"} \cap Producers = {}

VARIABLES
  read_index, write_index, tx_wm,   \* the HFI header
  slots,                            \* the payload area
  lock,                             \* client_lock_tbl[client_id - 1]: its holder
  pc, write_idx,                    \* hw_fence_update_queue, per producer
  rpc, to_read, rd_write, payload,  \* hw_fence_read_queue, in the one reader
  doorbell,                         \* the reader has been signalled
  xpc, xidx,                        \* hw_fence_utils_reset_queues
  wiped                             \* history: reset, and nothing announced since

header == <<read_index, write_index, tx_wm>>
producer == <<pc, write_idx>>
reader == <<rpc, to_read, rd_write, payload>>
resetter == <<xpc, xidx>>
vars == <<header, slots, lock, producer, reader, doorbell, resetter, wiped>>

Indices == 0 .. N - 1
NextIdx(i) == IF i + 1 >= N THEN 0 ELSE i + 1

\* The number of payloads from index r up to index w, and q_free.
Count(r, w) == IF r <= w THEN w - r ELSE N - (r - w)
Free(r, w) == IF r <= w THEN N - (w - r) ELSE r - w

\* *wr_ptr: the index that producers read and advance.
WrPtr == IF SkipTxqWrIdx THEN tx_wm ELSE write_index

\* Slot i holds a published payload that has not been read.
Live(i) == Count(read_index, i) < Count(read_index, WrPtr)

Init ==
  /\ read_index = 0 /\ write_index = 0 /\ tx_wm = 0
  /\ slots \in {[i \in Indices |-> m] : m \in Payloads}
  /\ lock = "nobody"
  /\ pc = [p \in Producers |-> "idle"]
  /\ write_idx = [p \in Producers |-> 0]
  /\ rpc = "idle" /\ to_read = 0 /\ rd_write = 0 /\ payload \in Payloads
  /\ doorbell = FALSE
  /\ xpc = "idle" /\ xidx = 0
  /\ wiped = TRUE

(***************************************************************************)
(* hw_fence_update_queue, and the signal its callers send afterwards.      *)
(***************************************************************************)
Goto(p, from, to) ==
  /\ pc[p] = from
  /\ pc' = [pc EXCEPT ![p] = to]

\* Mutant: the Rx queue is not locked either.
EnterUnlocked(p) ==
  /\ Goto(p, "idle", "index")
  /\ lock' = p
  /\ UNCHANGED <<header, slots, write_idx, reader, doorbell, resetter, wiped>>

\* The call: the lock is taken for an Rx queue only.
Enter(p) ==
  /\ Goto(p, "idle", "index")
  /\ IF Locked THEN lock = "nobody" /\ lock' = p ELSE UNCHANGED lock
  /\ UNCHANGED <<header, slots, write_idx, reader, doorbell, resetter, wiped>>

\* Mutant: the message fits when one payload is free.
CheckFitAll(p) ==
  /\ Goto(p, "index", IF Free(read_index, WrPtr) < 1 THEN "exit" ELSE "write")
  /\ write_idx' = [write_idx EXCEPT ![p] = WrPtr]
  /\ UNCHANGED <<header, slots, lock, reader, doorbell, resetter, wiped>>

\* The indices are read; a message that does not fit is dropped.
CheckFit(p) ==
  /\ Goto(p, "index", IF Free(read_index, WrPtr) <= 1 THEN "exit" ELSE "write")
  /\ write_idx' = [write_idx EXCEPT ![p] = WrPtr]
  /\ UNCHANGED <<header, slots, lock, reader, doorbell, resetter, wiped>>

WritePayload(p) ==
  /\ Goto(p, "write", "publish")
  /\ \E m \in Payloads : slots' = [slots EXCEPT ![write_idx[p]] = m]
  /\ UNCHANGED <<header, lock, write_idx, reader, doorbell, resetter, wiped>>

\* Mutant: no wrap-around after the last element of the queue.
PublishNoWrap(p) ==
  /\ Goto(p, "publish", "exit")
  /\ IF SkipTxqWrIdx
     THEN tx_wm' = write_idx[p] + 1 /\ UNCHANGED write_index
     ELSE write_index' = write_idx[p] + 1 /\ UNCHANGED tx_wm
  /\ wiped' = FALSE
  /\ UNCHANGED <<read_index, slots, lock, write_idx, reader, doorbell, resetter>>

\* After the write barrier, to_write_idx is stored to wr_ptr.
Publish(p) ==
  /\ Goto(p, "publish", "exit")
  /\ IF SkipTxqWrIdx
     THEN tx_wm' = NextIdx(write_idx[p]) /\ UNCHANGED write_index
     ELSE write_index' = NextIdx(write_idx[p]) /\ UNCHANGED tx_wm
  /\ wiped' = FALSE
  /\ UNCHANGED <<read_index, slots, lock, write_idx, reader, doorbell, resetter>>

\* The exit label: unlock.
Leave(p) ==
  /\ Goto(p, "exit", "signal")
  /\ lock' = IF Locked THEN "nobody" ELSE lock
  /\ write_idx' = [write_idx EXCEPT ![p] = 0]
  /\ UNCHANGED <<header, slots, reader, doorbell, resetter, wiped>>

\* The caller signals the reader whether or not the message was dropped.
Signal(p) ==
  /\ Goto(p, "signal", "idle")
  /\ doorbell' = TRUE
  /\ UNCHANGED <<header, slots, lock, write_idx, reader, resetter, wiped>>

\* skip_txq_wr_idx: the client's hardware announces one payload more.
HwAdvance ==
  /\ SkipTxqWrIdx
  /\ write_index # tx_wm
  /\ write_index' = NextIdx(write_index)
  /\ doorbell' = TRUE
  /\ wiped' = FALSE
  /\ UNCHANGED <<read_index, tx_wm, slots, lock, producer, reader, resetter>>

(***************************************************************************)
(* The reader: the doorbell callback and hw_fence_read_queue in a loop.    *)
(***************************************************************************)
\* gh_dbl_read_and_clean, before anything is read.
Answer ==
  /\ rpc = "idle" /\ doorbell
  /\ ReaderStopped => xpc = "idle"
  /\ rpc' = "index"
  /\ doorbell' = FALSE
  /\ UNCHANGED <<header, slots, lock, producer, to_read, rd_write, payload, resetter, wiped>>

\* Both indices are read; "Nothing to read!" ends the loop.
ReadIndices ==
  /\ rpc = "index"
  /\ rpc' = IF read_index = write_index THEN "idle" ELSE "payload"
  /\ to_read' = IF read_index = write_index THEN 0 ELSE read_index
  /\ rd_write' = IF read_index = write_index THEN 0 ELSE write_index
  /\ UNCHANGED <<header, slots, lock, producer, payload, doorbell, resetter, wiped>>

ReadPayload ==
  /\ rpc = "payload"
  /\ rpc' = "advance"
  /\ payload' = slots[to_read]
  /\ UNCHANGED <<header, slots, lock, producer, to_read, rd_write, doorbell, resetter, wiped>>

\* Mutant: the doorbell is cleaned when the queue has been drained.
AdvanceCleans ==
  /\ rpc = "advance"
  /\ read_index' = NextIdx(to_read)
  /\ rpc' = IF NextIdx(to_read) = rd_write THEN "idle" ELSE "index"
  /\ to_read' = 0 /\ rd_write' = 0
  /\ doorbell' = (doorbell /\ NextIdx(to_read) # rd_write)
  /\ UNCHANGED <<write_index, tx_wm, slots, lock, producer, payload, resetter, wiped>>

\* The read index is stored; the loop goes on unless the write index read
\* above has been reached.
Advance ==
  /\ rpc = "advance"
  /\ read_index' = NextIdx(to_read)
  /\ rpc' = IF NextIdx(to_read) = rd_write THEN "idle" ELSE "index"
  /\ to_read' = 0 /\ rd_write' = 0
  /\ UNCHANGED <<write_index, tx_wm, slots, lock, producer, payload, doorbell, resetter, wiped>>

(***************************************************************************)
(* hw_fence_utils_reset_queues: the part that concerns this queue.  The    *)
(* driver itself stops no reader: ReaderStopped is up to its callers, and  *)
(* for a Tx queue to FenceCTL.                                             *)
(***************************************************************************)
ResetBegin ==
  /\ xpc = "idle"
  /\ ReaderStopped => rpc = "idle"
  /\ IF Locked THEN lock = "nobody" /\ lock' = "reset" ELSE UNCHANGED lock
  /\ xpc' = "index"
  /\ UNCHANGED <<header, slots, producer, reader, doorbell, xidx, wiped>>

ResetRead ==
  /\ xpc = "index"
  /\ xpc' = "store"
  /\ xidx' = IF Locked THEN read_index ELSE write_index
  /\ UNCHANGED <<header, slots, lock, producer, reader, doorbell, wiped>>

\* Mutant: the Rx queue is emptied from the reader's side.
ResetStoreRead ==
  /\ xpc = "store"
  /\ xpc' = "unlock"
  /\ read_index' = xidx
  /\ wiped' = Locked
  /\ UNCHANGED <<write_index, tx_wm, slots, lock, producer, reader, doorbell, xidx>>

\* Rx queue: write_index := read_index.  Tx queue: read_index := write_index,
\* without a lock, so that the client may have written since the index was read.
ResetStore ==
  /\ xpc = "store"
  /\ xpc' = "unlock"
  /\ IF Locked
     THEN write_index' = xidx /\ wiped' = TRUE /\ UNCHANGED read_index
     ELSE read_index' = xidx /\ wiped' = (write_index = xidx) /\ UNCHANGED write_index
  /\ UNCHANGED <<tx_wm, slots, lock, producer, reader, doorbell, xidx>>

ResetEnd ==
  /\ xpc = "unlock"
  /\ xpc' = "idle"
  /\ lock' = IF Locked THEN "nobody" ELSE lock
  /\ xidx' = 0
  /\ UNCHANGED <<header, slots, producer, reader, doorbell, wiped>>

-----------------------------------------------------------------------------
Produce(p) ==
  \/ Enter(p)
  \/ CheckFit(p)
  \/ WritePayload(p)
  \/ Publish(p)
  \/ Leave(p)
  \/ Signal(p)

Read == Answer \/ ReadIndices \/ ReadPayload \/ Advance

Reset == ResetBegin \/ ResetRead \/ ResetStore \/ ResetEnd

Next == (\E p \in Producers : Produce(p)) \/ HwAdvance \/ Read \/ Reset

(***************************************************************************)
(* A producer that entered the driver goes on (the Rx queue is updated     *)
(* with preemption disabled), a doorbell is answered, a reset ends.        *)
(* Nothing makes a producer or a reset start, or the lock fair.            *)
(***************************************************************************)
Fairness ==
  /\ \A p \in Producers :
       WF_vars(CheckFit(p) \/ WritePayload(p) \/ Publish(p) \/ Leave(p) \/ Signal(p))
  /\ WF_vars(HwAdvance)
  /\ WF_vars(Read)
  /\ WF_vars(ResetRead \/ ResetStore \/ ResetEnd)

Spec == Init /\ [][Next]_vars /\ Fairness

-----------------------------------------------------------------------------
\* Every variable has its type; every index stays inside the queue.
TypeOK ==
  /\ read_index \in Indices /\ write_index \in Indices /\ tx_wm \in Indices
  /\ slots \in [Indices -> Payloads]
  /\ lock \in Producers \cup {"nobody", "reset"}
  /\ pc \in [Producers -> {"idle", "index", "write", "publish", "exit", "signal"}]
  /\ write_idx \in [Producers -> Indices]
  /\ rpc \in {"idle", "index", "payload", "advance"}
  /\ to_read \in Indices /\ rd_write \in Indices /\ payload \in Payloads
  /\ doorbell \in BOOLEAN
  /\ xpc \in {"idle", "index", "store", "unlock"}
  /\ xidx \in Indices
  /\ wiped \in BOOLEAN

\* hw_fence_update_queue never overwrites a payload that has not been read,
\* however far the reader and the other producers have moved since it read
\* the two indices.
NoOverwrite ==
  \A p \in Producers : pc[p] = "write" => ~Live(write_idx[p])

\* What hw_fence_read_queue hands to its caller is the oldest unread payload,
\* intact, at the moment it stores the read index.
ReadsOldest ==
  rpc = "advance" => Live(to_read) /\ to_read = read_index /\ payload = slots[read_index]

\* hw_fence_utils_reset_queues: "For the client RxQ: set the write-index same
\* as last read done by the client" and "For the client TxQ: set the read-index
\* same as last write that was done by the client", so the queue is empty until
\* the next message is announced.
ResetEmpties == wiped => read_index = write_index

\* What lies between the indices is read or forgotten by a reset: no reader falls
\* asleep on a message because its write index was stale.
NoneStranded == \A i \in Indices : Live(i) ~> ~Live(i)

\* The ring is a FIFO of N - 1 messages: each step of the code appends one
\* message, removes the oldest, forgets some of the oldest, or changes nothing.
Ring == [k \in 1 .. Count(read_index, WrPtr) |->
           slots[IF read_index + k - 1 >= N THEN read_index + k - 1 - N ELSE read_index + k - 1]]

Fifo == INSTANCE FenceFifo WITH q <- Ring, Capacity <- N - 1, resetting <- (xpc = "store")

\* The ring with its indices implements the bounded FIFO of FenceFifo.
ImplementsFifo == Fifo!Spec
=============================================================================
