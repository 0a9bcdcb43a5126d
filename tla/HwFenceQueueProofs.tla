------------------------ MODULE HwFenceQueueProofs ------------------------
(***************************************************************************)
(* A client queue of any size, with any number of producers, never loses   *)
(* or corrupts a published message, as long as it is only reset while its  *)
(* reader is stopped.                                                      *)
(*                                                                         *)
(* The argument is about the number of payloads between two indices, going *)
(* round the ring.  A producer inside hw_fence_update_queue owns the write *)
(* index, and the reader only makes room; the reader owns the read index,  *)
(* and producers only add payloads.  So what either side read of the other *)
(* side's index may be stale but errs on the safe side.                    *)
(*                                                                         *)
(* From the invariant the ring implements FenceFifo: the messages between  *)
(* the two indices are the FIFO's, and each step is one of its or none.    *)
(***************************************************************************)
EXTENDS HwFenceQueue, SequenceTheorems, TLAPS

\* The part of hw_fence_update_queue that runs under the Rx queue's lock.
Region == {"index", "write", "publish", "exit"}

\* write_index lies between read_index and the index producers advance.
Window == Count(read_index, write_index) <= Count(read_index, WrPtr)

\* The Rx queue's lock is held by whoever is inside its critical section.
LockHeld ==
  /\ \A p \in Producers : Locked /\ pc[p] \in Region => lock = p
  /\ Locked /\ xpc # "idle" => lock = "reset"

\* A producer that passed the check still owns the write index, and there is
\* still room for its payload and the unused entry.
Fits ==
  \A p \in Producers : pc[p] \in {"write", "publish"} =>
    write_idx[p] = WrPtr /\ Count(read_index, WrPtr) <= N - 2

\* A reader that found something to read owns the oldest payload.
ReaderOwns ==
  /\ rpc \in {"payload", "advance"} => to_read = read_index /\ read_index # write_index
  /\ rpc = "advance" => payload = slots[read_index]

\* The reader is stopped during a reset, and the index to be stored by the
\* reset is between the two indices of the header.
ResetOwns ==
  /\ xpc # "idle" => rpc = "idle"
  /\ xpc = "store" => IF Locked THEN xidx = read_index
                      ELSE Count(read_index, xidx) <= Count(read_index, write_index)

\* The inductive invariant: one part for each owner of an index.
QueueInv ==
  /\ TypeOK
  /\ Window
  /\ LockHeld
  /\ Fits
  /\ ReaderOwns
  /\ ResetOwns
  /\ ResetEmpties

-----------------------------------------------------------------------------
(***************************************************************************)
(* Counting round the ring.                                                *)
(***************************************************************************)

\* An index after another one is an index; counts are below the queue size.
LEMMA CountType ==
  ASSUME NEW r \in Indices, NEW w \in Indices
  PROVE  /\ Count(r, w) \in 0 .. N - 1
         /\ Count(r, w) \in Nat
         /\ Count(r, w) = 0 <=> r = w
         /\ NextIdx(r) \in Indices
BY SizeAssumption DEF Indices, Count, NextIdx

\* Advancing the far index adds one payload, unless the ring is full.
LEMMA CountPublish ==
  ASSUME NEW r \in Indices, NEW w \in Indices, Count(r, w) <= N - 2
  PROVE  Count(r, NextIdx(w)) = Count(r, w) + 1
BY SizeAssumption DEF Indices, Count, NextIdx

\* Moving the near index up to x removes the payloads before x.
LEMMA CountDrop ==
  ASSUME NEW r \in Indices, NEW w \in Indices, NEW x \in Indices,
         Count(r, x) <= Count(r, w)
  PROVE  Count(x, w) = Count(r, w) - Count(r, x)
BY SizeAssumption DEF Indices, Count

\* Advancing the near index removes one payload, unless the ring is empty.
LEMMA CountRead ==
  ASSUME NEW r \in Indices, NEW w \in Indices, r # w
  PROVE  Count(NextIdx(r), w) = Count(r, w) - 1
BY SizeAssumption DEF Indices, Count, NextIdx

\* q_free of the code is what the payloads in the ring leave of it.
LEMMA FreeCount ==
  ASSUME NEW r \in Indices, NEW w \in Indices
  PROVE  Free(r, w) = N - Count(r, w)
BY SizeAssumption DEF Indices, Count, Free

\* The invariant holds of a queue that init_hw_fences_queues has set up.
LEMMA InitInv ==
  ASSUME Init PROVE QueueInv
<1>1. 0 \in Indices
  BY SizeAssumption DEF Indices
<1>2. TypeOK
  BY <1>1 DEF Init, TypeOK
<1>. QED
  BY <1>1, <1>2, CountType DEF Init, QueueInv, Window, LockHeld, Fits, ReaderOwns, ResetOwns, ResetEmpties, WrPtr, Region

-----------------------------------------------------------------------------
\* A step of a producer keeps the invariant: it changes the write index only
\* while it owns it, and writes only the entry that nobody reads.
LEMMA ProduceStep ==
  ASSUME ReaderStopped, QueueInv, NEW p \in Producers, Produce(p)
  PROVE  QueueInv'
<1>. USE DEF QueueInv
<1>t. /\ read_index \in Indices /\ write_index \in Indices /\ tx_wm \in Indices /\ WrPtr \in Indices
      /\ write_idx \in [Producers -> Indices] /\ xidx \in Indices
  BY DEF TypeOK, WrPtr
<1>1. CASE Enter(p)
  <2>1. TypeOK'
    BY <1>1 DEF TypeOK, Enter, Goto, header, reader, resetter
  <2>2. LockHeld'
    BY <1>1, NamesAssumption DEF TypeOK, LockHeld, Enter, Goto, header, reader, resetter, Region
  <2>3. (Window /\ Fits /\ ReaderOwns /\ ResetOwns /\ ResetEmpties)'
    BY <1>1 DEF TypeOK, Window, Fits, ReaderOwns, ResetOwns, ResetEmpties, WrPtr, Count, Enter, Goto, header, reader, resetter
  <2>. QED  BY <2>1, <2>2, <2>3
<1>2. CASE CheckFit(p)
  <2>1. TypeOK'
    BY <1>2, <1>t DEF TypeOK, CheckFit, Goto, header, reader, resetter
  <2>2. LockHeld'
    BY <1>2 DEF TypeOK, LockHeld, CheckFit, Goto, header, reader, resetter, Region
  <2>3. Fits'
    <3>1. UNCHANGED <<read_index, WrPtr, Count(read_index, WrPtr)>>
      BY <1>2 DEF CheckFit, header, WrPtr, Count
    <3>2. pc'[p] = "write" => Count(read_index, WrPtr) <= N - 2
      <4>1. Free(read_index, WrPtr) = N - Count(read_index, WrPtr)
        BY <1>t, FreeCount
      <4>2. Count(read_index, WrPtr) \in Nat
        BY <1>t, CountType, SizeAssumption
      <4>3. pc'[p] = "write" => ~(Free(read_index, WrPtr) <= 1)
        BY <1>2 DEF TypeOK, CheckFit, Goto
      <4>. QED  BY <4>1, <4>2, <4>3, SizeAssumption
    <3>3. /\ write_idx' = [write_idx EXCEPT ![p] = WrPtr]
          /\ pc'[p] \in {"write", "exit"}
          /\ \A q \in Producers \ {p} : pc'[q] = pc[q]
      BY <1>2 DEF TypeOK, CheckFit, Goto
    <3>. QED
      BY <1>t, <3>1, <3>2, <3>3 DEF Fits
  <2>4. (Window /\ ReaderOwns /\ ResetOwns /\ ResetEmpties)'
    BY <1>2 DEF Window, ReaderOwns, ResetOwns, ResetEmpties, WrPtr, Count, CheckFit, header, reader, resetter
  <2>. QED  BY <2>1, <2>2, <2>3, <2>4
<1>3. CASE WritePayload(p)
  <2>1. TypeOK'
    BY <1>3, <1>t DEF TypeOK, WritePayload, Goto, header, reader, resetter
  <2>2. LockHeld'
    BY <1>3 DEF TypeOK, LockHeld, WritePayload, Goto, header, reader, resetter, Region
  <2>3. Fits'
    BY <1>3 DEF TypeOK, Fits, WritePayload, Goto, header, WrPtr, Count
  <2>4. ReaderOwns'
    <3>1. write_idx[p] = WrPtr
      BY <1>3 DEF Fits, WritePayload, Goto
    <3>2. rpc \in {"payload", "advance"} => read_index # WrPtr
      <4>1. Count(read_index, write_index) <= Count(read_index, WrPtr)
        BY DEF Window
      <4>. QED
        BY <1>t, <4>1, SizeAssumption DEF ReaderOwns, Count, Indices
    <3>. QED
      BY <1>3, <3>1, <3>2 DEF TypeOK, ReaderOwns, WritePayload, header, reader
  <2>5. (Window /\ ResetOwns /\ ResetEmpties)'
    BY <1>3 DEF Window, ResetOwns, ResetEmpties, WrPtr, Count, WritePayload, header, reader, resetter
  <2>. QED  BY <2>1, <2>2, <2>3, <2>4, <2>5
<1>4. CASE Publish(p)
  <2>0. /\ write_idx[p] = WrPtr /\ Count(read_index, WrPtr) <= N - 2
        /\ Locked => lock = p
        /\ read_index' = read_index /\ slots' = slots /\ lock' = lock /\ wiped' = FALSE
        /\ reader' = reader /\ resetter' = resetter /\ write_idx' = write_idx
        /\ pc[p] = "publish" /\ pc' = [pc EXCEPT ![p] = "exit"]
    BY <1>4 DEF Fits, LockHeld, Region, Publish, Goto
  <2>1. TypeOK'
    <3>1. NextIdx(write_idx[p]) \in Indices
      BY <1>t, CountType
    <3>. QED
      BY <1>4, <3>1 DEF TypeOK, Publish, Goto, reader, resetter
  <2>2. LockHeld'
    BY <2>0 DEF TypeOK, LockHeld, resetter, Region
  <2>3. Fits'
    <3>. SUFFICES ASSUME NEW q \in Producers, pc'[q] \in {"write", "publish"} PROVE FALSE
      BY DEF Fits
    <3>1. q # p /\ pc[q] \in Region
      BY <2>0 DEF TypeOK, Region
    <3>. QED
      BY <2>0, <3>1, QueueAssumption DEF LockHeld
  <2>4. CASE SkipTxqWrIdx
    <3>1. tx_wm' = NextIdx(tx_wm) /\ write_index' = write_index
      BY <1>4, <2>0, <2>4 DEF Publish, WrPtr
    <3>2. Count(read_index, tx_wm') = Count(read_index, tx_wm) + 1
      BY <1>t, <2>0, <2>4, <3>1, CountPublish DEF WrPtr
    <3>3. Window'
      <4>1. Count(read_index, write_index) \in Nat /\ Count(read_index, tx_wm) \in Nat
        BY <1>t, CountType, SizeAssumption
      <4>2. Count(read_index, write_index) <= Count(read_index, tx_wm)
        BY <2>4 DEF Window, WrPtr
      <4>3. Count(read_index, write_index) <= Count(read_index, tx_wm')
        BY <3>2, <4>1, <4>2
      <4>. QED  BY <2>0, <2>4, <3>1, <4>3 DEF Window, WrPtr
    <3>4. (ReaderOwns /\ ResetOwns /\ ResetEmpties)'
      BY <2>0, <3>1 DEF ReaderOwns, ResetOwns, ResetEmpties, reader, resetter, Count
    <3>. QED  BY <2>1, <2>2, <2>3, <3>3, <3>4
  <2>5. CASE ~SkipTxqWrIdx
    <3>1. write_index' = NextIdx(write_index)
      BY <1>4, <2>0, <2>5 DEF Publish, WrPtr
    <3>2. Count(read_index, write_index') = Count(read_index, write_index) + 1
      BY <1>t, <2>0, <2>5, <3>1, CountPublish DEF WrPtr
    <3>3. Window'
      <4>0. read_index' \in Indices /\ write_index' \in Indices
        BY <2>1 DEF TypeOK
      <4>1. Count(read_index', write_index') <= Count(read_index', write_index')
        BY <4>0, CountType
      <4>. QED  BY <2>5, <4>1 DEF Window, WrPtr
    <3>4. read_index' # write_index'
      BY <1>t, <2>0, <2>5, <3>1, SizeAssumption DEF Indices, Count, NextIdx, WrPtr
    <3>5. ReaderOwns' /\ ResetEmpties'
      BY <2>0, <3>4 DEF ReaderOwns, ResetEmpties, reader
    <3>6. ResetOwns'
      <4>1. Count(read_index, xidx) <= Count(read_index, write_index) =>
              Count(read_index', xidx') <= Count(read_index', write_index')
        <5>1. Count(read_index, xidx) \in Nat /\ Count(read_index, write_index) \in Nat
          BY <1>t, CountType, SizeAssumption
        <5>2. Count(read_index, xidx) <= Count(read_index, write_index) =>
                Count(read_index, xidx) <= Count(read_index, write_index')
          BY <3>2, <5>1
        <5>. QED  BY <2>0, <5>2 DEF resetter
      <4>. QED
        BY <2>0, <4>1 DEF ResetOwns, reader, resetter
    <3>. QED  BY <2>1, <2>2, <2>3, <3>3, <3>5, <3>6
  <2>. QED  BY <2>4, <2>5
<1>5. CASE Leave(p)
  <2>1. TypeOK'
    BY <1>5, SizeAssumption DEF TypeOK, Leave, Goto, header, reader, resetter, Indices
  <2>2. LockHeld'
    BY <1>5, NamesAssumption DEF TypeOK, LockHeld, Leave, Goto, resetter, Region
  <2>3. Fits'
    BY <1>5 DEF TypeOK, Fits, Leave, Goto, header, WrPtr, Count
  <2>4. (Window /\ ReaderOwns /\ ResetOwns /\ ResetEmpties)'
    BY <1>5 DEF Window, ReaderOwns, ResetOwns, ResetEmpties, WrPtr, Count, Leave, header, reader, resetter
  <2>. QED  BY <2>1, <2>2, <2>3, <2>4
<1>6. CASE Signal(p)
  <2>1. TypeOK'
    BY <1>6 DEF TypeOK, Signal, Goto, header, reader, resetter
  <2>2. LockHeld'
    BY <1>6 DEF TypeOK, LockHeld, Signal, Goto, resetter, Region
  <2>3. Fits'
    BY <1>6 DEF TypeOK, Fits, Signal, Goto, header, WrPtr, Count
  <2>4. (Window /\ ReaderOwns /\ ResetOwns /\ ResetEmpties)'
    BY <1>6 DEF Window, ReaderOwns, ResetOwns, ResetEmpties, WrPtr, Count, Signal, header, reader, resetter
  <2>. QED  BY <2>1, <2>2, <2>3, <2>4
<1>. QED
  BY <1>1, <1>2, <1>3, <1>4, <1>5, <1>6 DEF Produce

\* The client's hardware announces only payloads the driver has written.
LEMMA HwAdvanceStep ==
  ASSUME QueueInv, HwAdvance
  PROVE  QueueInv'
<1>. USE DEF QueueInv
<1>1. /\ read_index \in Indices /\ write_index \in Indices /\ tx_wm \in Indices
      /\ xidx \in Indices /\ WrPtr = tx_wm /\ ~Locked /\ SkipTxqWrIdx
      /\ Count(read_index, write_index) <= Count(read_index, tx_wm)
      /\ write_index # tx_wm /\ write_index' = NextIdx(write_index)
      /\ UNCHANGED <<read_index, tx_wm>>
  BY QueueAssumption DEF TypeOK, WrPtr, HwAdvance, Window
<1>2. /\ Count(read_index, write_index') = Count(read_index, write_index) + 1
      /\ Count(read_index, write_index') <= Count(read_index, tx_wm)
      /\ read_index # write_index'
      /\ Count(read_index, xidx) <= Count(read_index, write_index) =>
           Count(read_index, xidx) <= Count(read_index, write_index')
      /\ write_index' \in Indices
  BY <1>1, SizeAssumption DEF Count, NextIdx, Indices
<1>3. TypeOK'
  BY <1>1, <1>2 DEF TypeOK, HwAdvance, producer, reader, resetter
<1>4. Window'
  BY <1>1, <1>2 DEF Window, WrPtr
<1>5. LockHeld' /\ Fits'
  BY <1>1 DEF LockHeld, Fits, WrPtr, HwAdvance, producer, resetter
<1>6. ReaderOwns' /\ ResetEmpties'
  BY <1>1, <1>2 DEF ReaderOwns, ResetEmpties, HwAdvance, reader
<1>7. ResetOwns'
  BY <1>1, <1>2 DEF ResetOwns, HwAdvance, reader, resetter
<1>. QED
  BY <1>3, <1>4, <1>5, <1>6, <1>7

\* A step of the reader keeps the invariant: it only makes room.
LEMMA ReadStep ==
  ASSUME ReaderStopped, QueueInv, Read
  PROVE  QueueInv'
<1>. USE DEF QueueInv
<1>t. read_index \in Indices /\ write_index \in Indices /\ tx_wm \in Indices /\ WrPtr \in Indices
  BY DEF TypeOK, WrPtr
<1>1. CASE Answer
  <2>1. TypeOK'
    BY <1>1 DEF TypeOK, Answer, header, producer, resetter
  <2>2. (Window /\ LockHeld /\ Fits /\ ReaderOwns /\ ResetOwns /\ ResetEmpties)'
    BY <1>1 DEF Window, LockHeld, Fits, ReaderOwns, ResetOwns, ResetEmpties, WrPtr, Count, Answer, header, producer, resetter
  <2>. QED  BY <2>1, <2>2
<1>2. CASE ReadIndices
  <2>1. TypeOK'
    BY <1>2, SizeAssumption DEF TypeOK, ReadIndices, header, producer, resetter, Indices
  <2>2. (Window /\ LockHeld /\ Fits /\ ReaderOwns /\ ResetOwns /\ ResetEmpties)'
    BY <1>2 DEF Window, LockHeld, Fits, ReaderOwns, ResetOwns, ResetEmpties, WrPtr, Count, ReadIndices, header, producer, resetter
  <2>. QED  BY <2>1, <2>2
<1>3. CASE ReadPayload
  <2>1. TypeOK'
    BY <1>3 DEF TypeOK, ReadPayload, header, producer, resetter
  <2>2. (Window /\ LockHeld /\ Fits /\ ReaderOwns /\ ResetOwns /\ ResetEmpties)'
    BY <1>3 DEF Window, LockHeld, Fits, ReaderOwns, ResetOwns, ResetEmpties, WrPtr, Count, ReadPayload, header, producer, resetter
  <2>. QED  BY <2>1, <2>2
<1>4. CASE Advance
  <2>1. /\ read_index' = NextIdx(read_index) /\ read_index # write_index
        /\ xpc = "idle" /\ rpc' \in {"idle", "index"} /\ ~wiped
        /\ UNCHANGED <<write_index, tx_wm, WrPtr, slots, lock, producer, resetter, wiped>>
    BY <1>4 DEF Advance, ReaderOwns, ResetOwns, ResetEmpties, WrPtr
  <2>2. read_index # WrPtr
    BY <1>t, <2>1, CountType DEF Window
  <2>3. /\ Count(read_index', write_index) = Count(read_index, write_index) - 1
        /\ Count(read_index', WrPtr) = Count(read_index, WrPtr) - 1
    BY <1>t, <2>1, <2>2, CountRead
  <2>4. Count(read_index, write_index) \in Nat /\ Count(read_index, WrPtr) \in Nat
    BY <1>t, CountType, SizeAssumption
  <2>5. TypeOK'
    <3>1. NextIdx(read_index) \in Indices /\ 0 \in Indices
      BY <1>t, CountType, SizeAssumption DEF Indices
    <3>. QED
      BY <1>4, <2>1, <3>1 DEF TypeOK, Advance, producer, resetter
  <2>6. Window'
    <3>1. Count(read_index', write_index) <= Count(read_index', WrPtr)
      BY <2>3, <2>4 DEF Window
    <3>. QED  BY <2>1, <3>1 DEF Window
  <2>7. LockHeld'
    BY <2>1 DEF LockHeld, producer, resetter
  <2>8. Fits'
    <3>1. Count(read_index, WrPtr) <= N - 2 => Count(read_index', WrPtr) <= N - 2
      BY <2>3, <2>4, SizeAssumption
    <3>. QED  BY <2>1, <3>1 DEF Fits, producer
  <2>9. ReaderOwns' /\ ResetOwns' /\ ResetEmpties'
    BY <2>1 DEF ReaderOwns, ResetOwns, ResetEmpties, resetter
  <2>. QED  BY <2>5, <2>6, <2>7, <2>8, <2>9
<1>. QED
  BY <1>1, <1>2, <1>3, <1>4 DEF Read

\* A step of the reset keeps the invariant: under the lock it takes the write
\* index back to the read index; without it, it moves the read index forward.
LEMMA ResetStep ==
  ASSUME ReaderStopped, QueueInv, Reset
  PROVE  QueueInv'
<1>. USE DEF QueueInv
<1>t. /\ read_index \in Indices /\ write_index \in Indices /\ tx_wm \in Indices
      /\ WrPtr \in Indices /\ xidx \in Indices
  BY DEF TypeOK, WrPtr
<1>1. CASE ResetBegin
  <2>1. TypeOK'
    BY <1>1 DEF TypeOK, ResetBegin, header, producer, reader
  <2>2. LockHeld'
    BY <1>1, NamesAssumption DEF TypeOK, LockHeld, ResetBegin, producer
  <2>3. (Window /\ Fits /\ ReaderOwns /\ ResetOwns /\ ResetEmpties)'
    BY <1>1 DEF Window, Fits, ReaderOwns, ResetOwns, ResetEmpties, WrPtr, Count, ResetBegin, header, producer, reader
  <2>. QED  BY <2>1, <2>2, <2>3
<1>2. CASE ResetRead
  <2>1. TypeOK'
    BY <1>2 DEF TypeOK, ResetRead, header, producer, reader
  <2>2. ResetOwns'
    <3>1. Count(read_index, write_index) <= Count(read_index, write_index)
      BY <1>t, CountType, SizeAssumption
    <3>. QED
      BY <1>2, <3>1 DEF ResetOwns, ResetRead, header, reader
  <2>3. (Window /\ LockHeld /\ Fits /\ ReaderOwns /\ ResetEmpties)'
    BY <1>2 DEF Window, LockHeld, Fits, ReaderOwns, ResetEmpties, WrPtr, Count, ResetRead, header, producer, reader
  <2>. QED  BY <2>1, <2>2, <2>3
<1>3. CASE ResetStore
  <2>0. /\ rpc = "idle" /\ xpc' = "unlock"
        /\ UNCHANGED <<tx_wm, slots, lock, producer, reader, doorbell, xidx>>
    BY <1>3 DEF ResetStore, ResetOwns
  <2>1. CASE Locked
    <3>1. write_index' = read_index /\ wiped' = TRUE /\ read_index' = read_index /\ ~SkipTxqWrIdx
      BY <1>3, <2>1, QueueAssumption DEF ResetStore, ResetOwns
    <3>2. lock = "reset" /\ \A p \in Producers : pc[p] \notin Region
      BY <1>3, <2>1, NamesAssumption DEF ResetStore, LockHeld
    <3>3. TypeOK'
      BY <2>0, <3>1 DEF TypeOK, producer, reader
    <3>4. LockHeld' /\ Fits'
      BY <2>0, <3>2 DEF LockHeld, Fits, producer, Region
    <3>5. Window'
      <4>0. read_index' \in Indices /\ write_index' \in Indices
        BY <3>3 DEF TypeOK
      <4>1. Count(read_index', write_index') \in Nat
        BY <4>0, CountType
      <4>2. Count(read_index', write_index') <= Count(read_index', write_index')
        BY <4>1
      <4>. QED  BY <3>1, <4>2 DEF Window, WrPtr
    <3>6. ReaderOwns' /\ ResetOwns' /\ ResetEmpties'
      BY <2>0, <3>1 DEF ReaderOwns, ResetOwns, ResetEmpties, reader
    <3>. QED  BY <3>3, <3>4, <3>5, <3>6
  <2>2. CASE ~Locked
    <3>1. /\ read_index' = xidx /\ UNCHANGED <<write_index, WrPtr>>
          /\ wiped' \in BOOLEAN /\ (wiped' => write_index = xidx)
          /\ Count(read_index, xidx) <= Count(read_index, write_index)
          /\ Count(read_index, write_index) <= Count(read_index, WrPtr)
      BY <1>3, <2>0, <2>2 DEF ResetStore, ResetOwns, Window, WrPtr
    <3>2. /\ Count(read_index, xidx) \in Nat /\ Count(read_index, write_index) \in Nat
          /\ Count(read_index, WrPtr) \in Nat
      BY <1>t, CountType, SizeAssumption
    <3>3. /\ Count(read_index', write_index) = Count(read_index, write_index) - Count(read_index, xidx)
          /\ Count(read_index', WrPtr) = Count(read_index, WrPtr) - Count(read_index, xidx)
      <4>1. Count(read_index, xidx) <= Count(read_index, WrPtr)
        BY <3>1, <3>2
      <4>. QED  BY <1>t, <3>1, <4>1, CountDrop
    <3>4. TypeOK'
      BY <2>0, <3>1 DEF TypeOK, producer, reader
    <3>5. Window'
      <4>1. Count(read_index', write_index) <= Count(read_index', WrPtr)
        BY <3>1, <3>2, <3>3
      <4>. QED  BY <3>1, <4>1 DEF Window
    <3>6. LockHeld'
      BY <2>0, <2>2 DEF LockHeld
    <3>7. Fits'
      <4>1. Count(read_index, WrPtr) <= N - 2 => Count(read_index', WrPtr) <= N - 2
        BY <3>2, <3>3, SizeAssumption
      <4>. QED  BY <2>0, <3>1, <4>1 DEF Fits, producer
    <3>8. ReaderOwns' /\ ResetOwns' /\ ResetEmpties'
      BY <2>0, <2>2, <3>1 DEF ReaderOwns, ResetOwns, ResetEmpties, reader
    <3>. QED  BY <3>4, <3>5, <3>6, <3>7, <3>8
  <2>. QED  BY <2>1, <2>2
<1>4. CASE ResetEnd
  <2>1. TypeOK'
    BY <1>4, SizeAssumption DEF TypeOK, ResetEnd, header, producer, reader, Indices
  <2>2. LockHeld'
    BY <1>4, NamesAssumption DEF LockHeld, ResetEnd, producer, Region
  <2>3. (Window /\ Fits /\ ReaderOwns /\ ResetOwns /\ ResetEmpties)'
    BY <1>4 DEF Window, Fits, ReaderOwns, ResetOwns, ResetEmpties, WrPtr, Count, ResetEnd, header, producer, reader
  <2>. QED  BY <2>1, <2>2, <2>3
<1>. QED
  BY <1>1, <1>2, <1>3, <1>4 DEF Reset

-----------------------------------------------------------------------------
\* The invariant of the queue holds in every state, for every size and every
\* set of producers, if the reader is stopped during resets.
THEOREM QueueInvariant == ReaderStopped /\ Spec => []QueueInv
<1>. SUFFICES ASSUME ReaderStopped PROVE Spec => []QueueInv
  OBVIOUS
<1>1. Init => QueueInv
  BY InitInv
<1>2. QueueInv /\ [Next]_vars => QueueInv'
  <2>. SUFFICES ASSUME QueueInv, [Next]_vars PROVE QueueInv'
    OBVIOUS
  <2>1. CASE UNCHANGED vars
    BY <2>1 DEF vars, header, producer, reader, resetter, QueueInv, TypeOK, Window, LockHeld, Fits, ReaderOwns, ResetOwns, ResetEmpties, WrPtr, Count
  <2>2. CASE Next
    BY <2>2, ProduceStep, HwAdvanceStep, ReadStep, ResetStep DEF Next
  <2>. QED  BY <2>1, <2>2
<1>. QED
  BY <1>1, <1>2, PTL DEF Spec

\* hw_fence_update_queue never overwrites a payload that has not been read.
THEOREM QueueNoOverwrite == ReaderStopped /\ Spec => []NoOverwrite
<1>1. QueueInv => NoOverwrite
  <2>. SUFFICES ASSUME QueueInv, NEW p \in Producers, pc[p] = "write" PROVE ~Live(write_idx[p])
    BY DEF NoOverwrite
  <2>1. write_idx[p] = WrPtr /\ WrPtr \in Indices /\ read_index \in Indices
    BY DEF QueueInv, Fits, TypeOK, WrPtr
  <2>2. Count(read_index, WrPtr) \in Nat
    BY <2>1, CountType, SizeAssumption
  <2>. QED  BY <2>1, <2>2 DEF Live
<1>. QED
  BY <1>1, QueueInvariant, PTL

\* hw_fence_read_queue returns the oldest unread payload, intact.
THEOREM QueueReadsOldest == ReaderStopped /\ Spec => []ReadsOldest
<1>1. QueueInv => ReadsOldest
  <2>. SUFFICES ASSUME QueueInv, rpc = "advance"
       PROVE  Live(read_index) /\ to_read = read_index /\ payload = slots[read_index]
    BY DEF ReadsOldest
  <2>1. /\ to_read = read_index /\ read_index # write_index /\ payload = slots[read_index]
        /\ WrPtr \in Indices /\ read_index \in Indices /\ write_index \in Indices
        /\ Count(read_index, write_index) <= Count(read_index, WrPtr)
    BY DEF QueueInv, ReaderOwns, Window, TypeOK, WrPtr
  <2>2. Live(read_index)
    BY <2>1, SizeAssumption DEF Live, Count, Indices
  <2>. QED  BY <2>1, <2>2
<1>. QED
  BY <1>1, QueueInvariant, PTL

\* After a reset the queue, Rx or Tx, is empty until a message is announced.
THEOREM QueueResetEmpties == ReaderStopped /\ Spec => []ResetEmpties
<1>1. QueueInv => ResetEmpties
  BY DEF QueueInv
<1>. QED
  BY <1>1, QueueInvariant, PTL

\* No index leaves the ring.
THEOREM QueueTypeOK == ReaderStopped /\ Spec => []TypeOK
<1>1. QueueInv => TypeOK
  BY DEF QueueInv
<1>. QED
  BY <1>1, QueueInvariant, PTL

-----------------------------------------------------------------------------
(***************************************************************************)
(* The ring is a FIFO.                                                     *)
(***************************************************************************)

\* The place of the k-th message from index r, and the messages from r up to w.
Place(r, k) == IF r + k - 1 >= N THEN r + k - 1 - N ELSE r + k - 1
RingOf(s, r, w) == [k \in 1 .. Count(r, w) |-> s[Place(r, k)]]

\* The messages in the ring are a sequence.
LEMMA RingType ==
  ASSUME NEW s \in [Indices -> Payloads], NEW r \in Indices, NEW w \in Indices
  PROVE  /\ RingOf(s, r, w) \in Seq(Payloads)
         /\ Len(RingOf(s, r, w)) = Count(r, w)
         /\ \A k \in 1 .. Count(r, w) :
              Place(r, k) \in Indices /\ RingOf(s, r, w)[k] = s[Place(r, k)]
<1>1. Count(r, w) \in Nat /\ Count(r, w) <= N - 1
  BY CountType, SizeAssumption
<1>2. \A k \in 1 .. Count(r, w) : Place(r, k) \in Indices
  BY <1>1, SizeAssumption DEF Place, Indices
<1>3. \A k \in 1 .. Count(r, w) : s[Place(r, k)] \in Payloads
  BY <1>2
<1>. QED  BY <1>1, <1>2, <1>3 DEF RingOf

\* A payload written to the entry after the last message is not part of the ring.
LEMMA RingWrite ==
  ASSUME NEW s \in [Indices -> Payloads], NEW r \in Indices, NEW w \in Indices, NEW m \in Payloads
  PROVE  RingOf([s EXCEPT ![w] = m], r, w) = RingOf(s, r, w)
<1>. DEFINE t == [s EXCEPT ![w] = m]
<1>1. t \in [Indices -> Payloads]
  OBVIOUS
<1>2. \A k \in 1 .. Count(r, w) : Place(r, k) \in Indices /\ Place(r, k) # w
  BY SizeAssumption DEF Place, Indices, Count
<1>3. \A k \in 1 .. Count(r, w) : t[Place(r, k)] = s[Place(r, k)]
  BY <1>2
<1>4. RingOf(t, r, w) = RingOf(s, r, w)
  <2>. HIDE DEF t
  <2>. QED  BY <1>3 DEF RingOf
<1>. QED  BY <1>4

\* Advancing the far index appends the payload that was written there.
LEMMA RingPut ==
  ASSUME NEW s \in [Indices -> Payloads], NEW r \in Indices, NEW w \in Indices,
         Count(r, w) <= N - 2
  PROVE  RingOf(s, r, NextIdx(w)) = Append(RingOf(s, r, w), s[w])
<1>. DEFINE a == RingOf(s, r, NextIdx(w))
            b == RingOf(s, r, w)
            n == Count(r, w)
<1>1. NextIdx(w) \in Indices /\ n \in Nat /\ Count(r, NextIdx(w)) = n + 1
  BY CountType, CountPublish, SizeAssumption
<1>2. /\ a \in Seq(Payloads) /\ Len(a) = n + 1
      /\ \A k \in 1 .. n + 1 : a[k] = s[Place(r, k)]
  BY <1>1, RingType, SMTT(40)
<1>3. /\ b \in Seq(Payloads) /\ Len(b) = n
      /\ \A k \in 1 .. n : b[k] = s[Place(r, k)]
  BY <1>1, RingType
<1>4. Place(r, n + 1) = w
  BY SizeAssumption DEF Place, Indices, Count
<1>5. s[w] \in Payloads
  OBVIOUS
<1>. HIDE DEF a, b, n
<1>6. Append(b, s[w]) \in Seq(Payloads) /\ Len(Append(b, s[w])) = n + 1
  BY <1>1, <1>3, <1>5
<1>7. ASSUME NEW k \in 1 .. n + 1 PROVE a[k] = Append(b, s[w])[k]
  <2>1. CASE k \in 1 .. n
    <3>1. Append(b, s[w])[k] = b[k]
      BY <1>3, <1>5, <2>1
    <3>. QED  BY <1>1, <1>2, <1>3, <2>1, <3>1
  <2>2. CASE k = n + 1
    <3>1. Append(b, s[w])[Len(b) + 1] = s[w]
      BY <1>3, <1>5
    <3>2. a[n + 1] = s[w]
      BY <1>1, <1>2, <1>4
    <3>. QED  BY <1>3, <2>2, <3>1, <3>2
  <2>3. k \in 1 .. n \/ k = n + 1
    BY <1>1
  <2>. QED  BY <2>1, <2>2, <2>3
<1>8. a = Append(b, s[w])
  BY <1>1, <1>2, <1>6, <1>7, SeqEqual
<1>. QED  BY <1>8 DEF a, b

\* Moving the near index up to x forgets the messages before x.
LEMMA RingDrop ==
  ASSUME NEW s \in [Indices -> Payloads], NEW r \in Indices, NEW w \in Indices, NEW x \in Indices,
         Count(r, x) <= Count(r, w)
  PROVE  RingOf(s, x, w) = SubSeq(RingOf(s, r, w), Count(r, x) + 1, Count(r, w))
<1>. DEFINE a == RingOf(s, x, w)
            b == RingOf(s, r, w)
            n == Count(r, w)
            d == Count(r, x)
<1>1. n \in Nat /\ d \in Nat /\ d <= n /\ n <= N - 1 /\ Count(x, w) = n - d /\ n - d \in Nat
  BY CountType, CountDrop, SizeAssumption
<1>2. /\ a \in Seq(Payloads) /\ Len(a) = n - d
      /\ \A k \in 1 .. n - d : a[k] = s[Place(x, k)]
  BY <1>1, RingType
<1>3. /\ b \in Seq(Payloads) /\ Len(b) = n
      /\ \A k \in 1 .. n : b[k] = s[Place(r, k)]
  BY <1>1, RingType
<1>4. ASSUME NEW k \in 1 .. n - d PROVE Place(x, k) = Place(r, d + k)
  <2>1. k \in Nat /\ k >= 1 /\ k <= n - d
    BY <1>1
  <2>2. r \in 0 .. N - 1 /\ x \in 0 .. N - 1 /\ d = IF r <= x THEN x - r ELSE N - (r - x)
    BY DEF Indices, Count
  <2>. HIDE DEF n, d
  <2>. QED  BY <1>1, <2>1, <2>2, SizeAssumption DEF Place
<1>. HIDE DEF a, b, n, d
<1>5. \A i \in d + 1 .. n : b[i] \in Payloads
  BY <1>1, <1>3
<1>6. /\ SubSeq(b, d + 1, n) \in Seq(Payloads)
      /\ Len(SubSeq(b, d + 1, n)) = IF d + 1 <= n THEN n - (d + 1) + 1 ELSE 0
      /\ \A i \in 1 .. n - (d + 1) + 1 : SubSeq(b, d + 1, n)[i] = b[d + 1 + i - 1]
  <2>1. d + 1 \in Int /\ n \in Int
    BY <1>1
  <2>. QED  BY <1>5, <2>1, SubSeqProperties
<1>7. Len(SubSeq(b, d + 1, n)) = n - d
  BY <1>1, <1>6
<1>8. ASSUME NEW k \in 1 .. n - d PROVE a[k] = SubSeq(b, d + 1, n)[k]
  <2>1. k \in 1 .. n - (d + 1) + 1 /\ d + 1 + k - 1 = d + k /\ d + k \in 1 .. n
    BY <1>1
  <2>2. SubSeq(b, d + 1, n)[k] = s[Place(r, d + k)]
    BY <1>3, <1>6, <2>1
  <2>. QED  BY <1>2, <1>4, <2>2
<1>9. a = SubSeq(b, d + 1, n)
  BY <1>2, <1>6, <1>7, <1>8, SeqEqual
<1>. QED  BY <1>9 DEF a, b, n, d

\* Advancing the near index removes the oldest message.
LEMMA RingGet ==
  ASSUME NEW s \in [Indices -> Payloads], NEW r \in Indices, NEW w \in Indices, r # w
  PROVE  RingOf(s, r, w) # << >> /\ RingOf(s, NextIdx(r), w) = Tail(RingOf(s, r, w))
<1>. DEFINE b == RingOf(s, r, w)
<1>1. NextIdx(r) \in Indices /\ Count(r, w) \in Nat /\ Count(r, w) # 0
  BY CountType, SizeAssumption
<1>2. Count(r, NextIdx(r)) = 1
  BY SizeAssumption DEF Count, NextIdx, Indices
<1>3. b \in Seq(Payloads) /\ Len(b) = Count(r, w)
  BY RingType
<1>4. RingOf(s, NextIdx(r), w) = SubSeq(b, 1 + 1, Len(b))
  <2>1. Count(r, NextIdx(r)) <= Count(r, w)
    BY <1>1, <1>2
  <2>. QED  BY <1>1, <1>2, <1>3, <2>1, RingDrop, SMTT(40)
<1>. HIDE DEF b
<1>5. b # << >>
  BY <1>1, <1>3, EmptySeq
<1>6. Tail(b) = SubSeq(b, 2, Len(b))
  BY <1>3, <1>5, TailIsSubSeq
<1>. QED  BY <1>4, <1>5, <1>6 DEF b

\* The refinement mapping in terms of RingOf.
LEMMA RingIsRingOf ==
  /\ Ring = RingOf(slots, read_index, WrPtr)
  /\ Ring' = RingOf(slots', read_index', WrPtr')
BY DEF Ring, RingOf, Place

\* A step that changes neither the messages in the ring nor xpc is a stutter.
LEMMA RingStutter ==
  ASSUME UNCHANGED <<slots, read_index, WrPtr>>, (xpc = "store") = (xpc' = "store")
  PROVE  UNCHANGED Fifo!vars
<1>1. Ring' = Ring
  BY RingIsRingOf
<1>. QED  BY <1>1 DEF Fifo!vars

\* Every step of the code is a step of the bounded FIFO or changes nothing of it.
LEMMA FifoStep ==
  ASSUME QueueInv, Next
  PROVE  [Fifo!Next]_(Fifo!vars)
<1>t. /\ read_index \in Indices /\ write_index \in Indices /\ tx_wm \in Indices /\ WrPtr \in Indices
      /\ xidx \in Indices /\ slots \in [Indices -> Payloads]
  BY DEF QueueInv, TypeOK, WrPtr
<1>r. /\ Ring = RingOf(slots, read_index, WrPtr)
      /\ Ring' = RingOf(slots', read_index', WrPtr')
      /\ Ring \in Seq(Payloads) /\ Len(Ring) = Count(read_index, WrPtr)
  BY <1>t, RingIsRingOf, RingType
<1>1. ASSUME NEW p \in Producers, WritePayload(p) PROVE UNCHANGED Fifo!vars
  <2>1. write_idx[p] = WrPtr /\ UNCHANGED <<read_index, WrPtr, xpc>>
    BY <1>1 DEF QueueInv, Fits, WritePayload, Goto, header, resetter, WrPtr
  <2>2. PICK m \in Payloads : slots' = [slots EXCEPT ![WrPtr] = m]
    BY <1>1, <2>1 DEF WritePayload
  <2>3. Ring' = Ring
    BY <1>t, <1>r, <2>1, <2>2, RingWrite, ZenonT(60)
  <2>. QED  BY <2>1, <2>3 DEF Fifo!vars
<1>2. ASSUME NEW p \in Producers, Publish(p) PROVE Fifo!Put
  <2>1. /\ write_idx[p] = WrPtr /\ Count(read_index, WrPtr) <= N - 2
        /\ UNCHANGED <<read_index, slots, xpc>>
    BY <1>2 DEF QueueInv, Fits, Publish, Goto, resetter
  <2>2. WrPtr' = NextIdx(WrPtr)
    BY <1>2, <2>1 DEF Publish, WrPtr
  <2>3. Ring' = Append(Ring, slots[WrPtr])
    BY <1>t, <1>r, <2>1, <2>2, RingPut
  <2>4. Len(Ring) < N - 1 /\ slots[WrPtr] \in Payloads
    BY <1>t, <1>r, <2>1, CountType, SizeAssumption
  <2>. QED  BY <2>1, <2>3, <2>4 DEF Fifo!Put
<1>3. ASSUME NEW p \in Producers, Enter(p) \/ CheckFit(p) \/ Leave(p) \/ Signal(p)
      PROVE  UNCHANGED Fifo!vars
  BY <1>3, RingStutter DEF Enter, CheckFit, Leave, Signal, header, resetter, WrPtr
<1>4. CASE HwAdvance
  BY <1>4, RingStutter DEF HwAdvance, resetter, WrPtr
<1>5. CASE Answer \/ ReadIndices \/ ReadPayload
  BY <1>5, RingStutter DEF Answer, ReadIndices, ReadPayload, header, resetter, WrPtr
<1>6. ASSUME Advance PROVE Fifo!Get
  <2>1. /\ read_index' = NextIdx(read_index) /\ read_index # write_index
        /\ UNCHANGED <<WrPtr, slots, xpc>>
    BY <1>6 DEF QueueInv, Advance, ReaderOwns, WrPtr, resetter
  <2>2. read_index # WrPtr
    BY <1>t, <2>1, CountType DEF QueueInv, Window
  <2>3. Ring # << >> /\ Ring' = Tail(Ring)
    BY <1>t, <1>r, <2>1, <2>2, RingGet
  <2>. QED  BY <2>1, <2>3 DEF Fifo!Get
<1>7. CASE ResetBegin \/ ResetEnd
  BY <1>7, RingStutter DEF ResetBegin, ResetEnd, header, WrPtr
<1>8. ASSUME ResetRead PROVE Fifo!ResetBegin
  <2>1. xpc # "store" /\ xpc' = "store" /\ UNCHANGED <<slots, read_index, WrPtr>>
    BY <1>8 DEF ResetRead, header, WrPtr
  <2>2. Ring' = Ring
    BY <1>r, <2>1
  <2>. QED  BY <2>1, <2>2 DEF Fifo!ResetBegin
<1>9. ASSUME ResetStore PROVE Fifo!ResetEnd
  <2>1. xpc = "store" /\ xpc' # "store" /\ slots' = slots /\ tx_wm' = tx_wm
    BY <1>9 DEF ResetStore
  <2>2. \E k \in 0 .. Len(Ring) : Ring' = SubSeq(Ring, k + 1, Len(Ring))
    <3>1. CASE Locked
      <4>1. read_index' = read_index /\ WrPtr' = read_index
        BY <1>9, <3>1, QueueAssumption DEF QueueInv, ResetOwns, ResetStore, WrPtr
      <4>2. Count(read_index, read_index) = 0
        BY <1>t, CountType
      <4>3. Ring' \in Seq(Payloads) /\ Len(Ring') = 0
        BY <1>t, <1>r, <2>1, <4>1, <4>2, RingType
      <4>4. Ring' = << >>
        BY <4>3, EmptySeq
      <4>5. Len(Ring) \in Nat
        BY <1>r, LenProperties
      <4>6. SubSeq(Ring, Len(Ring) + 1, Len(Ring)) = << >>
        BY <4>5, SubSeqEmpty
      <4>. QED  BY <4>4, <4>5, <4>6
    <3>2. CASE ~Locked
      <4>1. /\ read_index' = xidx /\ WrPtr' = WrPtr
            /\ Count(read_index, xidx) <= Count(read_index, write_index)
            /\ Count(read_index, write_index) <= Count(read_index, WrPtr)
        BY <1>9, <2>1, <3>2 DEF QueueInv, ResetOwns, ResetStore, WrPtr, Window
      <4>2. /\ Count(read_index, xidx) \in Nat /\ Count(read_index, write_index) \in Nat
            /\ Count(read_index, WrPtr) \in Nat
        BY <1>t, CountType, SizeAssumption
      <4>3. Count(read_index, xidx) <= Count(read_index, WrPtr)
        BY <4>1, <4>2
      <4>4. Ring' = SubSeq(Ring, Count(read_index, xidx) + 1, Len(Ring))
        BY <1>t, <1>r, <2>1, <4>1, <4>3, RingDrop
      <4>5. Count(read_index, xidx) \in 0 .. Len(Ring)
        BY <1>r, <4>2, <4>3
      <4>. QED  BY <4>4, <4>5
    <3>. QED  BY <3>1, <3>2
  <2>. QED  BY <2>1, <2>2 DEF Fifo!ResetEnd
<1>. QED
  BY <1>1, <1>2, <1>3, <1>4, <1>5, <1>6, <1>7, <1>8, <1>9
     DEF Next, Produce, Read, Reset, Fifo!Next

\* The ring with its two indices implements the bounded FIFO of FenceFifo, for every
\* size and every set of producers: messages are appended whole, read in the order in
\* which they were published, and only a reset forgets any, the oldest first.
THEOREM QueueImplementsFifo == ReaderStopped /\ Spec => ImplementsFifo
<1>1. Init => Fifo!Init
  <2>. SUFFICES ASSUME Init PROVE Fifo!Init
    OBVIOUS
  <2>1. 0 \in Indices /\ read_index = 0 /\ WrPtr = 0 /\ slots \in [Indices -> Payloads] /\ xpc # "store"
    BY SizeAssumption DEF Init, Indices, WrPtr
  <2>2. Count(0, 0) = 0
    BY <2>1, CountType
  <2>3. Ring \in Seq(Payloads) /\ Len(Ring) = 0
    BY <2>1, <2>2, RingIsRingOf, RingType
  <2>4. Ring = << >>
    BY <2>3, EmptySeq
  <2>. QED  BY <2>1, <2>4 DEF Fifo!Init
<1>2. QueueInv /\ [Next]_vars => [Fifo!Next]_(Fifo!vars)
  <2>1. ASSUME UNCHANGED vars PROVE UNCHANGED Fifo!vars
    BY <2>1, RingStutter DEF vars, header, resetter, WrPtr
  <2>. QED  BY <2>1, FifoStep
<1>. QED
  BY <1>1, <1>2, QueueInvariant, PTL DEF Spec, ImplementsFifo, Fifo!Spec
=============================================================================
