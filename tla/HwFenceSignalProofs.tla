------------------------ MODULE HwFenceSignalProofs ------------------------
(***************************************************************************)
(* Proofs about HwFenceSignal.                                             *)
(*                                                                         *)
(* CallInv ties the label of every call to its local variables.  On it     *)
(* rest three arguments: Masks (who may be in a wait mask), Books (what a  *)
(* wait mask knows of the data its clients passed) and Joins, the books of *)
(* driver and FenceCTL about every join fence; Waits, from Joins, is why   *)
(* nobody who waits is forgotten.                                          *)
(*                                                                         *)
(* Joins and Waits need OneByOne: two calls for arrays that overlap can    *)
(* overwrite each other in a parent list, and the destruction of a fence   *)
(* by a reset takes its flag away.                                         *)
(***************************************************************************)
EXTENDS HwFenceSignal, NaturalLemmas

\* The labels of a call, and what its argument may be.
Labels == {"idle", "register", "recheck", "child", "undo", "clear", "signal", "destroy"}
Args == Data \cup ResetFlags

\* TypeOK, but for the sign of pending.
Shape ==
  /\ valid \in [Fences -> BOOLEAN] /\ flags \in [Fences -> BOOLEAN]
  /\ waitMask \in [Objects -> SUBSET Clients]
  /\ clientData \in [Objects -> [DataClients -> Data \cup {NoData}]]
  /\ parents \in [Fences -> [1 .. MAX_PARENTS -> Arrays \cup {INVALID}]]
  /\ parentsCnt \in [Fences -> 0 .. MAX_PARENTS]
  /\ join \in [Arrays -> {"none", "live", "signaled", "undone"}]
  /\ pending \in [Arrays -> Int]
  /\ pc \in [Clients -> Labels]
  /\ obj \in [Clients -> Objects \cup {INVALID}]
  /\ arg \in [Clients -> Args]
  /\ idx \in [Clients -> Nat]
  /\ signalJoin \in [Clients -> BOOLEAN]
  /\ rxq \in [Clients -> SUBSET Message]
  /\ asked \in [Clients -> SUBSET [fence : Objects \cup {"reset"}, data : Args]]
  /\ waited \in [Clients -> SUBSET Objects]
  /\ todo \in [Clients -> SUBSET Objects]
  /\ ctl \in [fence : Fences \cup {INVALID}, clients : SUBSET Clients, joins : SUBSET Arrays]

\* What the local variables of a call hold at each of its labels.
CallOK(c) ==
  /\ pc[c] \in {"register", "recheck"} =>
       obj[c] \in Fences /\ arg[c] \in Data /\ [fence |-> obj[c], data |-> arg[c]] \in asked[c]
  /\ pc[c] \in {"child", "undo"} =>
       obj[c] \in Arrays /\ arg[c] \in ArrayData /\ [fence |-> obj[c], data |-> arg[c]] \in asked[c]
  /\ pc[c] = "child" => idx[c] \in 1 .. Len(Children[obj[c]]) + 1
  /\ pc[c] = "undo" => idx[c] \in 0 .. Len(Children[obj[c]])
  /\ pc[c] \in {"signal", "destroy"} => obj[c] \in Fences /\ Allocator[obj[c]] = c
  /\ InReset(c) => [fence |-> "reset", data |-> arg[c]] \in asked[c]

\* FenceCTL has clients to tell and join fences to count down for a fence only.
CtlOK == ctl.clients # {} \/ ctl.joins # {} => ctl.fence \in Fences

Locals == CtlOK /\ \A c \in Clients : CallOK(c)

CallInv == Shape /\ Locals

\* The invariant holds of a table that was just set up.
LEMMA InitCall == Init => CallInv
<1>. SUFFICES ASSUME Init PROVE CallInv
  OBVIOUS
<1>1. Shape
  <2>1. 0 \in 0 .. MAX_PARENTS
    BY ClientsAssumption
  <2>. QED  BY <2>1 DEF Init, Shape, Labels, Args, ResetFlags, Idle, NoData
<1>2. Locals
  BY DEF Init, Locals, CallOK, CtlOK, InReset, Idle
<1>. QED  BY <1>1, <1>2 DEF CallInv

\* The index into an array, and its child.
LEMMA ChildType ==
  ASSUME CallInv, NEW c \in Clients, AtChild(c) \/ (pc[c] = "undo" /\ idx[c] > 0)
  PROVE  /\ idx[c] \in DOMAIN Children[obj[c]] /\ obj[c] \in Arrays
         /\ Child(c) \in Fences \cup {"plain"}
<1>1. obj[c] \in Arrays /\ CallOK(c) /\ idx[c] \in Nat
  BY DEF CallInv, Shape, Locals, CallOK, AtChild
<1>2. Children[obj[c]] \in Seq(Fences \cup {"plain"}) /\ Len(Children[obj[c]]) \in Nat
  BY <1>1, ObjectsAssumption
<1>3. idx[c] >= 1 /\ idx[c] <= Len(Children[obj[c]])
  BY <1>1, <1>2 DEF CallOK, AtChild
<1>. QED  BY <1>1, <1>2, <1>3 DEF Child

\* A step of client c leaves the calls of the others alone.
LEMMA OthersOK ==
  ASSUME CallInv, NEW c \in Clients, CallOK(c)', CtlOK',
         \A d \in Clients \ {c} :
           pc'[d] = pc[d] /\ obj'[d] = obj[d] /\ arg'[d] = arg[d] /\ idx'[d] = idx[d]
             /\ asked'[d] = asked[d]
  PROVE  Locals'
<1>1. ASSUME NEW d \in Clients \ {c} PROVE CallOK(d)'
  BY <1>1 DEF CallInv, Locals, CallOK, InReset
<1>. QED  BY <1>1 DEF Locals

\* A call begins.
LEMMA CallBegins ==
  ASSUME CallInv, NEW c \in Clients, Call(c)
  PROVE  CallInv'
<1>1. ASSUME NEW f \in Fences, NEW d \in FenceData[c][f], WaitFence(c, f, d) PROVE CallInv'
  <2>1. f \in Objects /\ d \in Args /\ d \in Data
    BY DEF Objects, Args, Data
  <2>2. Shape'
    BY <1>1, <2>1 DEF CallInv, Shape, WaitFence, Goto, Ask, entries, Labels
  <2>3. CallOK(c)' /\ CtlOK'
    BY <1>1, <2>1 DEF CallInv, Shape, Locals, CallOK, CtlOK, WaitFence, Goto, Ask, InReset
  <2>4. Locals'
    BY <1>1, <2>3, OthersOK DEF CallInv, Shape, WaitFence, Goto, Ask
  <2>. QED  BY <2>2, <2>4 DEF CallInv
<1>2. ASSUME NEW a \in Arrays, NEW d \in ArrayData, WaitArray(c, a, d) PROVE CallInv'
  <2>1. a \in Objects /\ d \in Args /\ d \in Data
    BY DEF Objects, Args, Data
  <2>2. Len(Children[a]) \in Nat
    BY ObjectsAssumption
  <2>3. Shape'
    BY <1>2, <2>1, <2>2 DEF CallInv, Shape, WaitArray, Goto, Ask, Labels, JoinPending
  <2>4. CallOK(c)' /\ CtlOK'
    BY <1>2, <2>1, <2>2 DEF CallInv, Shape, Locals, CallOK, CtlOK, WaitArray, Goto, Ask, InReset
  <2>5. Locals'
    BY <1>2, <2>4, OthersOK DEF CallInv, Shape, WaitArray, Goto, Ask
  <2>. QED  BY <2>3, <2>5 DEF CallInv
<1>3. ASSUME NEW r \in Resets[c], Reset(c, r) PROVE CallInv'
  <2>1. r \in Args
    BY ClientsAssumption DEF Args
  <2>2. Shape'
    BY <1>3, <2>1 DEF CallInv, Shape, Reset, Goto, Ask, entries, Labels
  <2>3. CallOK(c)' /\ CtlOK'
    BY <1>3, <2>1 DEF CallInv, Shape, Locals, CallOK, CtlOK, Reset, Goto, Ask, InReset
  <2>4. Locals'
    BY <1>3, <2>3, OthersOK DEF CallInv, Shape, Reset, Goto, Ask
  <2>. QED  BY <2>2, <2>4 DEF CallInv
<1>. QED  BY <1>1, <1>2, <1>3 DEF Call

\* A message in an Rx queue.
LEMMA MessageType ==
  ASSUME NEW o \in Objects, NEW d \in Data \cup {NoData}, NEW e \in Data \cup {NoData, ErrorReset}
  PROVE  [fence |-> o, data |-> d, error |-> e] \in Message
BY DEF Message

\* A step inside a wait for a fence.
LEMMA FenceSteps ==
  ASSUME CallInv, NEW c \in Clients, Register(c) \/ Recheck(c)
  PROVE  CallInv'
<1>1. CallOK(c) /\ CtlOK
  BY DEF CallInv, Locals
<1>2. CASE Register(c)
  <2>1. obj[c] \in Fences /\ obj[c] \in Objects /\ arg[c] \in Data
    BY <1>1, <1>2 DEF CallOK, Register, Objects
  <2>2. clientData' \in [Objects -> [DataClients -> Data \cup {NoData}]]
    BY <1>2, <2>1 DEF CallInv, Shape, Register, StoreData
  <2>3. Shape'
    BY <1>2, <2>1, <2>2 DEF CallInv, Shape, Register, Goto, Labels
  <2>4. CallOK(c)' /\ CtlOK'
    BY <1>1, <1>2 DEF CallInv, Shape, CallOK, CtlOK, Register, Goto, InReset
  <2>5. Locals'
    BY <1>2, <2>4, OthersOK DEF CallInv, Shape, Register, Goto
  <2>. QED  BY <2>3, <2>5 DEF CallInv
<1>3. CASE Recheck(c)
  <2>1. obj[c] \in Fences /\ obj[c] \in Objects /\ arg[c] \in Data
    BY <1>1, <1>3 DEF CallOK, Recheck, Objects
  <2>2. [fence |-> obj[c], data |-> arg[c], error |-> NoData] \in Message
    BY <2>1, MessageType
  <2>3. rxq' \in [Clients -> SUBSET Message]
    <3>. DEFINE msg == [fence |-> obj[c], data |-> arg[c], error |-> NoData]
    <3>1. rxq' = rxq \/ rxq' = [rxq EXCEPT ![c] = rxq[c] \cup {msg}]
      BY <1>3 DEF Recheck, Signal
    <3>2. msg \in Message
      BY <2>2
    <3>. HIDE DEF msg
    <3>3. rxq \in [Clients -> SUBSET Message]
      BY DEF CallInv, Shape
    <3>4. rxq[c] \cup {msg} \in SUBSET Message
      BY <3>2, <3>3
    <3>. QED  BY <3>1, <3>3, <3>4
  <2>4. Shape'
    BY <1>3, <2>1, <2>3 DEF CallInv, Shape, Recheck, Return, Goto, Labels, Args, ResetFlags, entries
  <2>5. CallOK(c)' /\ CtlOK'
    BY <1>1, <1>3 DEF CallInv, Shape, CallOK, CtlOK, Recheck, Return, Goto, InReset
  <2>6. Locals'
    BY <1>3, <2>5, OthersOK DEF CallInv, Shape, Recheck, Return, Goto
  <2>. QED  BY <2>4, <2>6 DEF CallInv
<1>. QED  BY <1>2, <1>3

\* The parents that a failed call takes out of the list of a child.
LEMMA MineType ==
  ASSUME Shape, NEW x \in Fences, NEW a,
         NEW mine \in SUBSET (1 .. parentsCnt[x])
  PROVE  /\ IsFiniteSet(mine) /\ Cardinality(mine) \in Nat
         /\ Cardinality(mine) <= parentsCnt[x]
<1>1. parentsCnt[x] \in Nat
  BY ClientsAssumption DEF Shape
<1>2. IsFiniteSet(1 .. parentsCnt[x]) /\ Cardinality(1 .. parentsCnt[x]) = parentsCnt[x]
  <2>1. ASSUME NEW n \in Nat PROVE IsFiniteSet(1 .. n) /\ Cardinality(1 .. n) = n
    BY FS_Interval
  <2>. QED  BY <1>1, <2>1
<1>. QED  BY <1>1, <1>2, FS_Subset, FS_CardinalityType

\* A step inside a wait for an array.
LEMMA ArraySteps ==
  ASSUME CallInv, NEW c \in Clients,
         \/ ChildSignaled(c) \/ ChildAdded(c) \/ ChildRefused(c)
         \/ ArrayInvalid(c) \/ ArrayDone(c) \/ Undo(c) \/ Undone(c)
  PROVE  CallInv'
<1>0. CallOK(c) /\ CtlOK /\ obj[c] \in Arrays /\ obj[c] \in Objects /\ arg[c] \in ArrayData /\ idx[c] \in Nat
  BY DEF CallInv, Shape, Locals, CallOK, ChildSignaled, ChildAdded, ChildRefused, ArrayInvalid, ArrayDone,
         Undo, Undone, AtChild, Objects
<1>l. Len(Children[obj[c]]) \in Nat
  BY <1>0, ObjectsAssumption
<1>m. MAX_PARENTS \in Nat
  BY ClientsAssumption
<1>1. CASE ChildSignaled(c)
  <2>1. Shape'
    BY <1>0, <1>1 DEF CallInv, Shape, ChildSignaled
  <2>2. CallOK(c)' /\ CtlOK'
    BY <1>0, <1>1, <1>l DEF CallInv, Shape, CallOK, CtlOK, ChildSignaled, AtChild, InReset
  <2>3. Locals'
    BY <1>1, <2>2, OthersOK DEF CallInv, Shape, ChildSignaled
  <2>. QED  BY <2>1, <2>3 DEF CallInv
<1>2. CASE ChildAdded(c)
  <2>. DEFINE f == Child(c)
  <2>1. f \in Fences /\ parentsCnt[f] \in 0 .. MAX_PARENTS /\ ~(parentsCnt[f] + 1 >= MAX_PARENTS)
    BY <1>2 DEF CallInv, Shape, ChildAdded, IsHwFence, TooManyParents
  <2>2. parentsCnt[f] + 1 \in 1 .. MAX_PARENTS /\ parentsCnt[f] + 1 \in 0 .. MAX_PARENTS
    BY <1>m, <2>1
  <2>3. /\ parentsCnt' = [parentsCnt EXCEPT ![f] = @ + 1]
        /\ parents' = [parents EXCEPT ![f][parentsCnt[f] + 1] = obj[c]]
    BY <1>2 DEF ChildAdded, ParentSlot
  <2>. HIDE DEF f
  <2>4. /\ parentsCnt' \in [Fences -> 0 .. MAX_PARENTS]
        /\ parents' \in [Fences -> [1 .. MAX_PARENTS -> Arrays \cup {INVALID}]]
    BY <1>0, <2>1, <2>2, <2>3 DEF CallInv, Shape
  <2>5. Shape'
    BY <1>0, <1>2, <2>4 DEF CallInv, Shape, ChildAdded
  <2>6. CallOK(c)' /\ CtlOK'
    BY <1>0, <1>2, <1>l DEF CallInv, Shape, CallOK, CtlOK, ChildAdded, AtChild, InReset
  <2>7. Locals'
    BY <1>2, <2>6, OthersOK DEF CallInv, Shape, ChildAdded
  <2>. QED  BY <2>5, <2>7 DEF CallInv
<1>3. CASE ChildRefused(c)
  <2>1. Shape'
    BY <1>0, <1>3 DEF CallInv, Shape, ChildRefused, Goto, entries, Labels
  <2>2. CallOK(c)' /\ CtlOK'
    BY <1>0, <1>3, <1>l DEF CallInv, Shape, CallOK, CtlOK, ChildRefused, AtChild, Goto, InReset
  <2>3. Locals'
    BY <1>3, <2>2, OthersOK DEF CallInv, Shape, ChildRefused, Goto
  <2>. QED  BY <2>1, <2>3 DEF CallInv
<1>4. CASE ArrayInvalid(c)
  <2>1. idx' = [idx EXCEPT ![c] = IF AtChild(c) THEN idx[c] ELSE 0]
    BY <1>4 DEF ArrayInvalid
  <2>2. Shape'
    BY <1>0, <1>4, <2>1 DEF CallInv, Shape, ArrayInvalid, Goto, entries, Labels
  <2>3. CallOK(c)' /\ CtlOK'
    BY <1>0, <1>4, <1>l DEF CallInv, Shape, CallOK, CtlOK, ArrayInvalid, AtChild, Goto, InReset
  <2>4. Locals'
    BY <1>4, <2>1, <2>3, OthersOK DEF CallInv, Shape, ArrayInvalid, Goto
  <2>. QED  BY <2>2, <2>4 DEF CallInv
<1>5. CASE ArrayDone(c)
  <2>1. arg[c] \in Data
    BY <1>0 DEF Data
  <2>2. [fence |-> obj[c], data |-> NoData, error |-> arg[c]] \in Message
    BY <1>0, <2>1, MessageType
  <2>3. rxq' \in [Clients -> SUBSET Message]
    BY <1>5, <2>2 DEF CallInv, Shape, ArrayDone, Signal
  <2>4. clientData' \in [Objects -> [DataClients -> Data \cup {NoData}]]
    BY <1>0, <1>5, <2>1 DEF CallInv, Shape, ArrayDone, StoreData
  <2>5. /\ join' \in [Arrays -> {"none", "live", "signaled", "undone"}]
        /\ waitMask' \in [Objects -> SUBSET Clients]
    BY <1>0, <1>5 DEF CallInv, Shape, ArrayDone, DestroyJoin
  <2>6. Shape'
    BY <1>0, <1>5, <2>3, <2>4, <2>5 DEF CallInv, Shape, ArrayDone, Return, Goto, Labels, Args, ResetFlags
  <2>7. CallOK(c)' /\ CtlOK'
    BY <1>0, <1>5 DEF CallInv, Shape, CallOK, CtlOK, ArrayDone, Return, Goto, InReset
  <2>8. Locals'
    BY <1>5, <2>7, OthersOK DEF CallInv, Shape, ArrayDone, Return, Goto
  <2>. QED  BY <2>6, <2>8 DEF CallInv
<1>6. CASE Undo(c)
  <2>. DEFINE x == Child(c)
              mine == {j \in 1 .. parentsCnt[x] : parents[x][j] = obj[c]}
  <2>1. /\ parents' \in [Fences -> [1 .. MAX_PARENTS -> Arrays \cup {INVALID}]]
        /\ parentsCnt' \in [Fences -> 0 .. MAX_PARENTS]
    <3>1. CASE ~IsHwFence(x)
      BY <1>6, <3>1 DEF CallInv, Shape, Undo
    <3>2. CASE IsHwFence(x)
      <4>1. x \in Fences /\ parentsCnt[x] \in 0 .. MAX_PARENTS
        BY <3>2 DEF CallInv, Shape, IsHwFence
      <4>2. /\ parents' = [parents EXCEPT ![x] =
                 [j \in 1 .. MAX_PARENTS |-> IF j \in mine THEN INVALID ELSE parents[x][j]]]
            /\ parentsCnt' = [parentsCnt EXCEPT ![x] = @ - Cardinality(mine)]
        BY <1>6, <3>2 DEF Undo
      <4>3. Cardinality(mine) \in Nat /\ Cardinality(mine) <= parentsCnt[x]
        <5>1. mine \in SUBSET (1 .. parentsCnt[x])
          OBVIOUS
        <5>. HIDE DEF x, mine
        <5>. QED  BY <4>1, <5>1, MineType DEF CallInv
      <4>4. parentsCnt[x] - Cardinality(mine) \in 0 .. MAX_PARENTS
        BY <1>m, <4>1, <4>3
      <4>. HIDE DEF x, mine
      <4>. QED  BY <4>1, <4>2, <4>4, ZenonT(60) DEF CallInv, Shape
    <3>. QED  BY <3>1, <3>2
  <2>2. Shape'
    BY <1>0, <1>6, <2>1 DEF CallInv, Shape, Undo
  <2>3. CallOK(c)' /\ CtlOK'
    BY <1>0, <1>6, <1>l DEF CallInv, Shape, CallOK, CtlOK, Undo, InReset
  <2>4. Locals'
    BY <1>6, <2>3, OthersOK DEF CallInv, Shape, Undo
  <2>. QED  BY <2>2, <2>4 DEF CallInv
<1>7. CASE Undone(c)
  <2>1. Shape'
    BY <1>0, <1>7 DEF CallInv, Shape, Undone, DestroyJoin, Return, Goto, Labels, Args, ResetFlags
  <2>2. CallOK(c)' /\ CtlOK'
    BY <1>0, <1>7 DEF CallInv, Shape, CallOK, CtlOK, Undone, Return, Goto, InReset
  <2>3. Locals'
    BY <1>7, <2>2, OthersOK DEF CallInv, Shape, Undone, Return, Goto
  <2>. QED  BY <2>1, <2>3 DEF CallInv
<1>. QED  BY <1>1, <1>2, <1>3, <1>4, <1>5, <1>6, <1>7

\* The data that a reset passes on.
LEMMA ResetDataType ==
  ASSUME Shape, NEW o \in Objects, NEW c \in Clients
  PROVE  ResetData(o, c) \in Data \cup {NoData}
<1>. DEFINE before == {d \in waitMask[o] \cap DataClients : d <= c}
<1>1. CASE before # {}
  <2>1. c \in Nat /\ before \in SUBSET (0 .. c)
    <3>1. c \in Nat /\ DataClients \subseteq Nat
      BY ClientsAssumption
    <3>2. \A d \in before : d \in Nat /\ d <= c
      BY <3>1
    <3>. HIDE DEF before
    <3>. QED  BY <3>1, <3>2
  <2>2. Max(before) \in before
    <3>. HIDE DEF before
    <3>. QED  BY <1>1, <2>1, MaxIsLargest
  <2>3. ResetData(o, c) = clientData[o][Max(before)]
    BY <1>1 DEF ResetData
  <2>. HIDE DEF before
  <2>4. Max(before) \in DataClients
    BY <2>2 DEF before
  <2>. QED  BY <2>3, <2>4 DEF Shape
<1>2. CASE before = {}
  BY <1>2 DEF ResetData
<1>. QED  BY <1>1, <1>2

\* A step of a reset.
LEMMA ResetSteps ==
  ASSUME CallInv, NEW c \in Clients,
         \/ \E o \in Objects : ResetClear(c, o)
         \/ ResetSignal(c) \/ ResetDestroy(c) \/ ResetQueues(c)
  PROVE  CallInv'
<1>0. CallOK(c) /\ CtlOK
  BY DEF CallInv, Locals
<1>m. 0 \in 0 .. MAX_PARENTS
  BY ClientsAssumption
<1>1. ASSUME NEW o \in Objects, ResetClear(c, o) PROVE CallInv'
  <2>1. Shape'
    BY <1>1 DEF CallInv, Shape, ResetClear, Goto, Labels
  <2>2. CallOK(c)' /\ CtlOK'
    BY <1>0, <1>1 DEF CallInv, Shape, CallOK, CtlOK, ResetClear, Goto, InReset, Allocated
  <2>3. Locals'
    BY <1>1, <2>2, OthersOK DEF CallInv, Shape, ResetClear, Goto
  <2>. QED  BY <2>1, <2>3 DEF CallInv
<1>2. CASE ResetSignal(c)
  <2>. DEFINE f == obj[c]
              told(d) == {[fence |-> f, data |-> ResetData(f, w), error |-> ResetError(c)] :
                            w \in SignaledInReset(f) \cap {d}}
  <2>1. f \in Objects
    BY <1>0, <1>2 DEF CallOK, ResetSignal, Objects
  <2>2. ASSUME NEW d \in Clients PROVE told(d) \subseteq Message
    <3>1. ResetError(c) \in Data \cup {NoData, ErrorReset}
      BY DEF ResetError
    <3>2. ResetData(f, d) \in Data \cup {NoData}
      BY <2>1, ResetDataType DEF CallInv
    <3>3. [fence |-> f, data |-> ResetData(f, d), error |-> ResetError(c)] \in Message
      BY <2>1, <3>1, <3>2, MessageType
    <3>. QED  BY <3>3
  <2>3. rxq' = IF flags[f] THEN rxq ELSE [d \in Clients |-> rxq[d] \cup told(d)]
    BY <1>2 DEF ResetSignal
  <2>. HIDE DEF told
  <2>4. rxq' \in [Clients -> SUBSET Message]
    BY <2>2, <2>3 DEF CallInv, Shape
  <2>5. Shape'
    BY <1>2, <2>4 DEF CallInv, Shape, ResetSignal, Goto, entries, Labels
  <2>6. CallOK(c)' /\ CtlOK'
    BY <1>0, <1>2 DEF CallInv, Shape, CallOK, CtlOK, ResetSignal, Goto, InReset
  <2>7. Locals'
    BY <1>2, <2>6, OthersOK DEF CallInv, Shape, ResetSignal, Goto
  <2>. QED  BY <2>5, <2>7 DEF CallInv
<1>3. CASE ResetDestroy(c)
  <2>1. obj[c] \in Fences /\ obj[c] \in Objects
    BY <1>0, <1>3 DEF CallOK, ResetDestroy, Objects
  <2>2. Shape'
    BY <1>3, <1>m, <2>1 DEF CallInv, Shape, ResetDestroy, Goto, Labels
  <2>3. CallOK(c)' /\ CtlOK'
    BY <1>0, <1>3 DEF CallInv, Shape, CallOK, CtlOK, ResetDestroy, Goto, InReset
  <2>4. Locals'
    BY <1>3, <2>3, OthersOK DEF CallInv, Shape, ResetDestroy, Goto
  <2>. QED  BY <2>2, <2>4 DEF CallInv
<1>4. CASE ResetQueues(c)
  <2>1. Shape'
    BY <1>4 DEF CallInv, Shape, ResetQueues, Return, Goto, entries, Labels, Args, ResetFlags
  <2>2. CallOK(c)' /\ CtlOK'
    BY <1>0, <1>4 DEF CallInv, Shape, CallOK, CtlOK, ResetQueues, Return, Goto, InReset
  <2>3. Locals'
    BY <1>4, <2>2, OthersOK DEF CallInv, Shape, ResetQueues, Return, Goto
  <2>. QED  BY <2>1, <2>3 DEF CallInv
<1>. QED  BY <1>1, <1>2, <1>3, <1>4

\* A step of FenceCTL.
LEMMA CtlSteps ==
  ASSUME CallInv, CtlStep \/ \E f \in Fences : CtlSignal(f)
  PROVE  CallInv'
<1>0. CtlOK /\ \A c \in Clients : CallOK(c)
  BY DEF CallInv, Locals
<1>k. ASSUME UNCHANGED <<calls, asked>>, CtlOK' PROVE Locals'
  BY <1>0, <1>k DEF Locals, CallOK, calls, InReset
<1>d. ASSUME NEW o \in Objects, NEW c \in Clients PROVE DataOf(o, c) \in Data \cup {NoData}
  BY DEF DataOf, CallInv, Shape
<1>1. ASSUME NEW f \in Fences, CtlSignal(f) PROVE CallInv'
  <2>0. f \in Objects
    BY DEF Objects
  <2>1. ctl' \in [fence : Fences \cup {INVALID}, clients : SUBSET Clients, joins : SUBSET Arrays]
    <3>1. waitMask[f] \subseteq Clients /\ parents[f] \in [1 .. MAX_PARENTS -> Arrays \cup {INVALID}]
      BY <2>0 DEF CallInv, Shape
    <3>2. {parents[f][j] : j \in 1 .. MAX_PARENTS} \ {INVALID} \subseteq Arrays
      BY <3>1
    <3>. QED  BY <1>1, <3>1, <3>2 DEF CtlSignal
  <2>2. Shape'
    BY <1>1, <2>1 DEF CallInv, Shape, CtlSignal, calls
  <2>3. CtlOK'
    BY <1>1 DEF CtlSignal, CtlOK
  <2>. QED  BY <1>1, <1>k, <2>2, <2>3 DEF CallInv, CtlSignal
<1>2. ASSUME NEW c \in Clients, CtlClient(c) PROVE CallInv'
  <2>1. ctl.fence \in Fences /\ ctl.fence \in Objects
    BY <1>0, <1>2 DEF CtlOK, CtlClient, Objects
  <2>2. [fence |-> ctl.fence, data |-> DataOf(ctl.fence, c), error |-> NoData] \in Message
    BY <1>d, <2>1, MessageType
  <2>3. rxq' \in [Clients -> SUBSET Message]
    BY <1>2, <2>2 DEF CallInv, Shape, CtlClient, Signal
  <2>4. Shape'
    BY <1>2, <2>3 DEF CallInv, Shape, CtlClient, calls, entries
  <2>5. CtlOK'
    BY <1>2, <2>1 DEF CallInv, Shape, CtlClient, CtlOK
  <2>. QED  BY <1>2, <1>k, <2>4, <2>5 DEF CallInv, CtlClient
<1>3. ASSUME NEW a \in Arrays, CtlJoin(a) PROVE CallInv'
  <2>. DEFINE told(c) == {[fence |-> a, data |-> DataOf(a, d), error |-> NoData] : d \in waitMask[a] \cap {c}}
  <2>1. a \in Objects /\ ctl.fence \in Fences
    BY <1>0, <1>3 DEF CtlOK, CtlJoin, Objects
  <2>2. ASSUME NEW c \in Clients PROVE told(c) \subseteq Message
    <3>1. [fence |-> a, data |-> DataOf(a, c), error |-> NoData] \in Message
      BY <1>d, <2>1, MessageType
    <3>. QED  BY <3>1
  <2>3. rxq' = rxq \/ rxq' = [c \in Clients |-> rxq[c] \cup told(c)]
    BY <1>3 DEF CtlJoin
  <2>. HIDE DEF told
  <2>4. rxq' \in [Clients -> SUBSET Message]
    BY <2>2, <2>3 DEF CallInv, Shape
  <2>5. /\ join' \in [Arrays -> {"none", "live", "signaled", "undone"}]
        /\ waitMask' \in [Objects -> SUBSET Clients]
    BY <1>3, <2>1 DEF CallInv, Shape, CtlJoin, DestroyJoin
  <2>s. /\ ctl' \in [fence : Fences \cup {INVALID}, clients : SUBSET Clients, joins : SUBSET Arrays]
        /\ pending' \in [Arrays -> Int]
    <3>1. ctl' = [ctl EXCEPT !.joins = ctl.joins \ {a}] /\ pending' = [pending EXCEPT ![a] = pending[a] - 1]
      BY <1>3 DEF CtlJoin
    <3>2. ctl.joins \ {a} \in SUBSET Arrays /\ pending[a] - 1 \in Int
      BY DEF CallInv, Shape
    <3>. QED  BY <3>1, <3>2 DEF CallInv, Shape
  <2>6. Shape'
    BY <1>3, <2>4, <2>5, <2>s DEF CallInv, Shape, CtlJoin, calls
  <2>7. CtlOK'
    BY <1>3, <2>1 DEF CallInv, Shape, CtlJoin, CtlOK
  <2>. QED  BY <1>3, <1>k, <2>6, <2>7 DEF CallInv, CtlJoin
<1>4. CASE CtlUnlock
  <2>1. Shape' /\ CtlOK'
    BY <1>4 DEF CallInv, Shape, CtlOK, CtlUnlock, calls, entries, Idle
  <2>. QED  BY <1>4, <1>k, <2>1 DEF CallInv, CtlUnlock
<1>. QED  BY <1>1, <1>2, <1>3, <1>4 DEF CtlStep

\* The labels and local variables of all calls, and the types of all fields of the
\* table, belong together in every state.
THEOREM SignalCalls == Spec => []CallInv
<1>1. CallInv /\ [Next]_vars => CallInv'
  <2>. SUFFICES ASSUME CallInv, [Next]_vars PROVE CallInv'
    OBVIOUS
  <2>1. CASE UNCHANGED vars
    <3>1. Shape'
      BY <2>1 DEF vars, calls, entries, CallInv, Shape
    <3>2. Locals'
      BY <2>1 DEF vars, calls, entries, CallInv, Locals, CallOK, CtlOK, InReset
    <3>. QED  BY <3>1, <3>2 DEF CallInv
  <2>2. CASE Next
    BY <2>2, CallBegins, FenceSteps, ArraySteps, ResetSteps, CtlSteps DEF Next, DriverStep
  <2>. QED  BY <2>1, <2>2
<1>. QED  BY <1>1, InitCall, PTL DEF Spec

-----------------------------------------------------------------------------
(* Wait masks. *)

\* Why client c may be in the wait mask of object o.
MayBeMasked(o, c) ==
  IF InReset(c) THEN o \in todo[c]
  ELSE o \in waited[c] \/ (pc[c] \in {"register", "recheck", "child", "undo"} /\ obj[c] = o)

Masks == \A o \in Objects : \A c \in waitMask[o] : MayBeMasked(o, c)

\* A step of client c that adds at most c to masks.
LEMMA MaskStep ==
  ASSUME CallInv, Masks, NEW c \in Clients,
         \A d \in Clients \ {c} : pc'[d] = pc[d] /\ obj'[d] = obj[d] /\ waited'[d] = waited[d]
                                    /\ todo'[d] = todo[d],
         \A o \in Objects : waitMask'[o] \subseteq waitMask[o] \cup {c},
         \A o \in Objects : c \in waitMask'[o] => MayBeMasked(o, c)'
  PROVE  Masks'
<1>. SUFFICES ASSUME NEW o \in Objects, NEW d \in waitMask'[o], d # c PROVE MayBeMasked(o, d)'
  BY DEF Masks
<1>1. d \in waitMask[o] /\ d \in Clients
  BY DEF CallInv, Shape
<1>. QED  BY <1>1 DEF Masks, MayBeMasked, InReset

\* Every step keeps what is said of wait masks.
LEMMA MasksKept ==
  ASSUME CallInv, Masks, [Next]_vars
  PROVE  Masks'
<1>0. waitMask \in [Objects -> SUBSET Clients] /\ \A o \in Objects : \A c \in waitMask[o] : MayBeMasked(o, c)
  BY DEF CallInv, Shape, Masks
<1>p. /\ pc \in [Clients -> Labels] /\ obj \in [Clients -> Objects \cup {INVALID}]
      /\ waited \in [Clients -> SUBSET Objects] /\ todo \in [Clients -> SUBSET Objects]
  BY DEF CallInv, Shape
<1>u. ASSUME UNCHANGED <<pc, obj, waited, todo>>, \A o \in Objects : waitMask'[o] \subseteq waitMask[o]
      PROVE  Masks'
  BY <1>u DEF Masks, MayBeMasked, InReset
<1>1. CASE UNCHANGED vars
  BY <1>1, <1>u DEF vars, entries, calls
<1>2. ASSUME NEW c \in Clients, Call(c) PROVE Masks'
  <2>1. ASSUME NEW f \in Fences, NEW d \in FenceData[c][f], WaitFence(c, f, d) PROVE Masks'
    BY <1>0, <1>p, <2>1, MaskStep DEF WaitFence, MayWait, Goto, entries, MayBeMasked, InReset
  <2>2. ASSUME NEW a \in Arrays, NEW d \in ArrayData, WaitArray(c, a, d) PROVE Masks'
    <3>1. a \in Objects
      BY DEF Objects
    <3>2. /\ waitMask' = [waitMask EXCEPT ![a] = {c}] /\ pc' = [pc EXCEPT ![c] = "child"]
          /\ obj' = [obj EXCEPT ![c] = a] /\ UNCHANGED <<waited, todo>> /\ pc[c] = "idle"
      BY <2>2 DEF WaitArray, MayWait, Goto
    <3>3. ASSUME NEW o \in Objects, c \in waitMask'[o] PROVE MayBeMasked(o, c)'
      BY <1>0, <3>1, <3>2, <3>3, <1>p DEF MayBeMasked, InReset
    <3>4. \A o \in Objects : waitMask'[o] \subseteq waitMask[o] \cup {c}
      BY <1>0, <3>1, <3>2
    <3>. QED  BY <3>2, <3>3, <3>4, <1>p, MaskStep
  <2>3. ASSUME NEW r \in Resets[c], Reset(c, r) PROVE Masks'
    BY <1>0, <1>p, <2>3, MaskStep DEF Reset, Goto, entries, MayBeMasked, InReset
  <2>. QED  BY <1>2, <2>1, <2>2, <2>3 DEF Call
<1>3. ASSUME NEW c \in Clients, Register(c) PROVE Masks'
  <2>1. obj[c] \in Objects
    BY <1>3 DEF CallInv, Locals, CallOK, Register, Objects
  <2>2. /\ waitMask' = [waitMask EXCEPT ![obj[c]] = waitMask[obj[c]] \cup {c}] /\ pc[c] = "register"
        /\ pc' = [pc EXCEPT ![c] = "recheck"] /\ UNCHANGED <<obj, waited, todo>>
    BY <1>3 DEF Register, Goto
  <2>3. ASSUME NEW o \in Objects, c \in waitMask'[o] PROVE MayBeMasked(o, c)'
    BY <1>0, <2>1, <2>2, <2>3, <1>p DEF MayBeMasked, InReset
  <2>4. \A o \in Objects : waitMask'[o] \subseteq waitMask[o] \cup {c}
    BY <1>0, <2>1, <2>2
  <2>. QED  BY <2>2, <2>3, <2>4, <1>p, MaskStep
<1>4. ASSUME NEW c \in Clients, Recheck(c) PROVE Masks'
  <2>1. /\ pc' = [pc EXCEPT ![c] = "idle"] /\ UNCHANGED <<waitMask, todo>> /\ pc[c] = "recheck"
        /\ obj' = [obj EXCEPT ![c] = INVALID] /\ waited' = [waited EXCEPT ![c] = waited[c] \cup {obj[c]}]
    BY <1>4 DEF Recheck, Return, Goto, entries
  <2>2. ASSUME NEW o \in Objects, c \in waitMask'[o] PROVE MayBeMasked(o, c)'
    BY <1>0, <2>1, <2>2, <1>p DEF MayBeMasked, InReset
  <2>. QED  BY <1>0, <2>1, <2>2, <1>p, MaskStep
<1>5. ASSUME NEW c \in Clients, ChildSignaled(c) \/ ChildAdded(c) \/ Undo(c) PROVE Masks'
  BY <1>5, <1>u DEF ChildSignaled, ChildAdded, Undo
<1>6. ASSUME NEW c \in Clients, ChildRefused(c) \/ ArrayInvalid(c) PROVE Masks'
  <2>1. /\ pc' = [pc EXCEPT ![c] = "undo"] /\ UNCHANGED <<waitMask, todo, obj, waited>> /\ pc[c] = "child"
    BY <1>6 DEF ChildRefused, ArrayInvalid, AtChild, Goto, entries
  <2>2. ASSUME NEW o \in Objects, c \in waitMask'[o] PROVE MayBeMasked(o, c)'
    BY <1>0, <2>1, <2>2, <1>p DEF MayBeMasked, InReset
  <2>. QED  BY <1>0, <2>1, <2>2, <1>p, MaskStep
<1>7. ASSUME NEW c \in Clients, ArrayDone(c) \/ Undone(c) PROVE Masks'
  <2>0. obj[c] \in Objects
    BY <1>7 DEF CallInv, Locals, CallOK, ArrayDone, Undone, Objects
  <2>1. /\ pc' = [pc EXCEPT ![c] = "idle"] /\ UNCHANGED todo /\ pc[c] \in {"child", "undo"}
        /\ waitMask' = waitMask \/ waitMask' = [waitMask EXCEPT ![obj[c]] = {}]
        /\ obj' = [obj EXCEPT ![c] = INVALID]
        /\ \/ waited' = [waited EXCEPT ![c] = waited[c] \cup {obj[c]}]
           \/ waited' = waited /\ waitMask' = [waitMask EXCEPT ![obj[c]] = {}]
    BY <1>7 DEF ArrayDone, Undone, Return, Goto, DestroyJoin
  <2>2. \A o \in Objects : waitMask'[o] \subseteq waitMask[o]
    BY <1>0, <2>0, <2>1
  <2>3. ASSUME NEW o \in Objects, c \in waitMask'[o] PROVE MayBeMasked(o, c)'
    BY <1>0, <2>0, <2>1, <2>3, <1>p DEF MayBeMasked, InReset
  <2>. QED  BY <2>1, <2>2, <2>3, <1>p, MaskStep
<1>8. ASSUME NEW c \in Clients, NEW o \in Objects, ResetClear(c, o) PROVE Masks'
  <2>1. /\ pc' = [pc EXCEPT ![c] = IF Allocated(c, o) THEN "signal" ELSE "clear"] /\ pc[c] = "clear"
        /\ waitMask' = [waitMask EXCEPT ![o] = waitMask[o] \ {c}] /\ UNCHANGED waited
        /\ todo' = [todo EXCEPT ![c] = todo[c] \ {o}] /\ obj' = [obj EXCEPT ![c] = o]
    BY <1>8 DEF ResetClear, Goto
  <2>2. ASSUME NEW q \in Objects, c \in waitMask'[q] PROVE MayBeMasked(q, c)'
    BY <1>0, <2>1, <2>2, <1>p DEF MayBeMasked, InReset
  <2>3. \A q \in Objects : waitMask'[q] \subseteq waitMask[q]
    BY <1>0, <2>1
  <2>. QED  BY <2>1, <2>2, <2>3, <1>p, MaskStep
<1>9. ASSUME NEW c \in Clients, ResetSignal(c) \/ ResetDestroy(c) PROVE Masks'
  <2>0. obj[c] \in Objects
    BY <1>9 DEF CallInv, Locals, CallOK, ResetSignal, ResetDestroy, Objects
  <2>1. /\ \E l \in {"clear", "destroy"} : pc' = [pc EXCEPT ![c] = l]
        /\ pc[c] \in {"signal", "destroy"} /\ UNCHANGED <<waited, todo, obj>>
        /\ waitMask' = waitMask \/ waitMask' = [waitMask EXCEPT ![obj[c]] = {}]
    BY <1>9 DEF ResetSignal, ResetDestroy, Goto, entries
  <2>2. ASSUME NEW q \in Objects, c \in waitMask'[q] PROVE MayBeMasked(q, c)'
    BY <1>0, <2>0, <2>1, <2>2, <1>p DEF MayBeMasked, InReset
  <2>3. \A q \in Objects : waitMask'[q] \subseteq waitMask[q]
    BY <1>0, <2>0, <2>1
  <2>. QED  BY <2>1, <2>2, <2>3, <1>p, MaskStep
<1>10. ASSUME NEW c \in Clients, ResetQueues(c) PROVE Masks'
  <2>1. /\ pc[c] = "clear" /\ todo[c] = {} /\ pc' = [pc EXCEPT ![c] = "idle"]
        /\ obj' = [obj EXCEPT ![c] = INVALID] /\ waited' = [waited EXCEPT ![c] = {}]
        /\ UNCHANGED <<waitMask, todo>>
    BY <1>10 DEF ResetQueues, Return, Goto, entries
  <2>2. \A o \in Objects : c \notin waitMask[o]
    BY <1>0, <2>1 DEF MayBeMasked, InReset
  <2>. QED  BY <1>0, <2>1, <2>2, <1>p, MaskStep
<1>11. ASSUME CtlStep \/ \E f \in Fences : CtlSignal(f) PROVE Masks'
  <2>1. UNCHANGED <<pc, obj, waited, todo>>
        /\ (waitMask' = waitMask \/ \E a \in Arrays : waitMask' = [waitMask EXCEPT ![a] = {}])
    BY <1>11 DEF CtlStep, CtlSignal, CtlClient, CtlJoin, CtlUnlock, DestroyJoin, entries, calls
  <2>2. \A o \in Objects : waitMask'[o] \subseteq waitMask[o]
    BY <1>0, <2>1 DEF Objects
  <2>. QED  BY <1>u, <2>1, <2>2
<1>. QED  BY <1>1, <1>2, <1>3, <1>4, <1>5, <1>6, <1>7, <1>8, <1>9, <1>10, <1>11 DEF Next, DriverStep

\* Clients are in the wait masks of those entries only that they wait for: resets, failed
\* calls and signals leave no bit behind, in whatever order they meet.
THEOREM SignalMaskMeansWaiting == Spec => []MaskMeansWaiting
<1>1. Init => Masks
  BY DEF Init, Masks
<1>2. Masks => MaskMeansWaiting
  BY DEF Masks, MayBeMasked, MaskMeansWaiting
<1>3. CallInv /\ Masks /\ [Next]_vars => Masks'
  BY MasksKept
<1>. QED  BY <1>1, <1>2, <1>3, SignalCalls, PTL DEF Spec

-----------------------------------------------------------------------------
(* Client data and errors. *)

\* Every client has a hw_fence_client_data_id, and none passes data with an array.
PlainData == DataClients = Clients /\ ArrayData \subseteq {NoData}

\* Nothing is kept yet for client c in object o.
NotStored(o, c) == o \in Arrays \/ o \notin Asked(c) \/ (pc[c] = "register" /\ obj[c] = o)

\* A client in a wait mask finds there what it passed in its call, and FenceCTL tells
\* clients of the fence it has locked.
Books ==
  /\ \A o \in Objects, c \in Clients : NotStored(o, c) => clientData[o][c] = NoData
  /\ \A o \in Objects : \A c \in waitMask[o] : [fence |-> o, data |-> clientData[o][c]] \in asked[c]
  /\ ctl.fence \in Fences => ctl.clients \subseteq waitMask[ctl.fence]

\* No step forgets what a client asked for.
LEMMA AskedGrows ==
  ASSUME CallInv, [Next]_vars
  PROVE  \A c \in Clients : asked[c] \subseteq asked'[c]
<1>1. asked \in [Clients -> SUBSET [fence : Objects \cup {"reset"}, data : Args]]
  BY DEF CallInv, Shape
<1>2. ASSUME NEW c \in Clients, NEW o, NEW d, Ask(c, o, d)
      PROVE  \A e \in Clients : asked[e] \subseteq asked'[e]
  BY <1>1, <1>2 DEF Ask
<1>3. CASE UNCHANGED asked
  BY <1>3
<1>4. UNCHANGED asked \/ \E c \in Clients : \E o, d : Ask(c, o, d)
  <2>1. CASE UNCHANGED vars
    BY <2>1 DEF vars
  <2>2. ASSUME NEW c \in Clients, Call(c) PROVE \E o, d : Ask(c, o, d)
    BY <2>2 DEF Call, WaitFence, WaitArray, Reset
  <2>3. ASSUME NEW c \in Clients, DriverStep(c) PROVE UNCHANGED asked
    BY <2>3 DEF DriverStep, Register, Recheck, ChildSignaled, ChildAdded, ChildRefused, ArrayInvalid,
                ArrayDone, Undo, Undone, ResetClear, ResetSignal, ResetDestroy, ResetQueues
  <2>4. ASSUME CtlStep \/ \E f \in Fences : CtlSignal(f) PROVE UNCHANGED asked
    BY <2>4 DEF CtlStep, CtlSignal, CtlClient, CtlJoin, CtlUnlock
  <2>. QED  BY <2>1, <2>2, <2>3, <2>4 DEF Next
<1>. QED  BY <1>2, <1>3, <1>4

\* A step that keeps the data and adds clients to masks only as they asked.
LEMMA BooksStep ==
  ASSUME CallInv, Books, UNCHANGED clientData,
         \A c \in Clients : asked[c] \subseteq asked'[c],
         \A o \in Objects : waitMask'[o] \subseteq Clients,
         \A o \in Objects : \A c \in waitMask'[o] :
           c \in waitMask[o] \/ [fence |-> o, data |-> clientData[o][c]] \in asked'[c],
         \A c \in Clients : pc'[c] = "register" => obj'[c] \notin Asked(c) \/ (pc[c] = "register" /\ obj'[c] = obj[c]),
         ctl'.fence \in Fences => ctl'.clients \subseteq waitMask'[ctl'.fence]
  PROVE  Books'
<1>1. ASSUME NEW o \in Objects, NEW c \in Clients, NotStored(o, c)' PROVE NotStored(o, c)
  <2>1. o \notin Asked(c)' => o \notin Asked(c)
    BY DEF Asked
  <2>. QED  BY <1>1, <2>1 DEF NotStored
<1>2. \A o \in Objects, c \in Clients : NotStored(o, c)' => clientData'[o][c] = NoData
  BY <1>1 DEF Books
<1>3. ASSUME NEW o \in Objects, NEW c \in waitMask'[o]
      PROVE  [fence |-> o, data |-> clientData'[o][c]] \in asked'[c]
  <2>1. c \in Clients
    OBVIOUS
  <2>2. CASE c \in waitMask[o]
    BY <2>1, <2>2 DEF Books
  <2>. QED  BY <1>3, <2>2
<1>. QED  BY <1>2, <1>3 DEF Books

\* Every step keeps the books.
LEMMA BooksKept ==
  ASSUME PlainData, CallInv, CallInv', Books, [Next]_vars
  PROVE  Books'
<1>0. /\ \A c \in Clients : asked[c] \subseteq asked'[c]
      /\ waitMask' \in [Objects -> SUBSET Clients]
  BY AskedGrows DEF CallInv, Shape
<1>p. /\ waitMask \in [Objects -> SUBSET Clients]
      /\ clientData \in [Objects -> [Clients -> Data \cup {NoData}]]
      /\ pc \in [Clients -> Labels] /\ obj \in [Clients -> Objects \cup {INVALID}]
      /\ asked \in [Clients -> SUBSET [fence : Objects \cup {"reset"}, data : Args]]
      /\ Fences \cap Arrays = {}
      /\ ctl \in [fence : Fences \cup {INVALID}, clients : SUBSET Clients, joins : SUBSET Arrays]
      /\ ctl.fence \in Fences => ctl.clients \subseteq waitMask[ctl.fence]
  BY ObjectsAssumption DEF CallInv, Shape, PlainData, Books
<1>u. ASSUME UNCHANGED <<clientData, ctl>>,
             \A o \in Objects : waitMask'[o] \subseteq waitMask[o],
             \A f \in Fences : ctl.fence = f => waitMask'[f] = waitMask[f],
             \A c \in Clients : pc'[c] = "register" =>
               obj'[c] \notin Asked(c) \/ (pc[c] = "register" /\ obj'[c] = obj[c])
      PROVE  Books'
  BY <1>0, <1>p, <1>u, BooksStep
<1>1. CASE UNCHANGED vars
  BY <1>1, <1>u DEF vars, entries, calls
<1>2. ASSUME NEW c \in Clients, Call(c) PROVE Books'
  <2>1. ASSUME NEW f \in Fences, NEW d \in FenceData[c][f], WaitFence(c, f, d) PROVE Books'
    BY <1>p, <1>u, <2>1 DEF WaitFence, MayWait, Goto, entries
  <2>2. ASSUME NEW a \in Arrays, NEW d \in ArrayData, WaitArray(c, a, d) PROVE Books'
    <3>1. a \in Objects /\ a \notin Fences /\ d = NoData
      BY <1>p DEF Objects, PlainData
    <3>2. /\ waitMask' = [waitMask EXCEPT ![a] = {c}] /\ pc' = [pc EXCEPT ![c] = "child"]
          /\ obj' = [obj EXCEPT ![c] = a] /\ UNCHANGED <<clientData, ctl>>
          /\ asked' = [asked EXCEPT ![c] = asked[c] \cup {[fence |-> a, data |-> NoData]}]
      BY <2>2, <3>1 DEF WaitArray, Goto, Ask
    <3>3. clientData[a][c] = NoData
      BY <3>1 DEF Books, NotStored
    <3>4. ASSUME NEW o \in Objects, NEW e \in waitMask'[o]
          PROVE  e \in waitMask[o] \/ [fence |-> o, data |-> clientData[o][e]] \in asked'[e]
      BY <1>p, <3>1, <3>2, <3>3
    <3>5. \A e \in Clients : pc'[e] = "register" => pc[e] = "register" /\ obj'[e] = obj[e]
      BY <1>p, <3>2
    <3>6. ctl'.fence \in Fences => ctl'.clients \subseteq waitMask'[ctl'.fence]
      BY <1>p, <3>1, <3>2 DEF Objects
    <3>. QED  BY <1>0, <3>2, <3>4, <3>5, <3>6, BooksStep
  <2>3. ASSUME NEW r \in Resets[c], Reset(c, r) PROVE Books'
    BY <1>p, <1>u, <2>3 DEF Reset, Goto, entries
  <2>. QED  BY <1>2, <2>1, <2>2, <2>3 DEF Call
<1>3. ASSUME NEW c \in Clients, Register(c) PROVE Books'
  <2>. DEFINE f == obj[c]
  <2>1. f \in Fences /\ f \in Objects /\ f \notin Arrays /\ [fence |-> f, data |-> arg[c]] \in asked[c] /\ ctl.fence # f
    BY <1>3, <1>p DEF CallInv, Locals, CallOK, Register, Objects, Unlocked
  <2>2. /\ waitMask' = [waitMask EXCEPT ![f] = waitMask[f] \cup {c}] /\ pc[c] = "register"
        /\ pc' = [pc EXCEPT ![c] = "recheck"] /\ UNCHANGED <<obj, asked, ctl>>
        /\ clientData' = IF arg[c] = NoData THEN clientData ELSE [clientData EXCEPT ![f][c] = arg[c]]
    BY <1>3 DEF Register, Goto, StoreData
  <2>3. clientData[f][c] = NoData
    BY <2>1, <2>2 DEF Books, NotStored
  <2>4. /\ clientData'[f][c] = arg[c]
        /\ \A o \in Objects, e \in Clients : o # f \/ e # c => clientData'[o][e] = clientData[o][e]
    BY <1>p, <2>1, <2>2, <2>3
  <2>5. f \in Asked(c)
    BY <2>1 DEF Asked
  <2>. HIDE DEF f
  <2>6. ASSUME NEW o \in Objects, NEW e \in Clients, NotStored(o, e)' PROVE clientData'[o][e] = NoData
    <3>1. NotStored(o, e)
      BY <1>p, <2>2, <2>6 DEF NotStored, Asked
    <3>2. o # f \/ e # c
      BY <1>p, <2>1, <2>2, <2>5, <2>6 DEF NotStored, Asked
    <3>. QED  BY <2>4, <3>1, <3>2 DEF Books
  <2>7. ASSUME NEW o \in Objects, NEW e \in waitMask'[o]
        PROVE  [fence |-> o, data |-> clientData'[o][e]] \in asked'[e]
    <3>1. e \in Clients
      BY <1>0
    <3>2. CASE o = f /\ e = c
      BY <2>1, <2>2, <2>4, <3>2 DEF f
    <3>3. CASE o # f \/ e # c
      <4>1. e \in waitMask[o]
        BY <1>p, <2>1, <2>2, <2>7, <3>3
      <4>. QED  BY <2>2, <2>4, <3>1, <3>3, <4>1 DEF Books
    <3>. QED  BY <3>2, <3>3
  <2>8. ctl'.fence \in Fences => ctl'.clients \subseteq waitMask'[ctl'.fence]
    BY <1>p, <2>1, <2>2 DEF Objects, f
  <2>. QED  BY <2>6, <2>7, <2>8 DEF Books
<1>4. ASSUME NEW c \in Clients,
             Recheck(c) \/ ChildSignaled(c) \/ ChildAdded(c) \/ ChildRefused(c) \/ ArrayInvalid(c)
               \/ Undo(c) \/ ResetSignal(c) \/ ResetQueues(c)
      PROVE  Books'
  <2>1. /\ UNCHANGED <<clientData, ctl, waitMask>>
        /\ \/ UNCHANGED pc /\ UNCHANGED obj
           \/ \E l \in {"idle", "undo", "clear", "destroy"} : pc' = [pc EXCEPT ![c] = l]
              /\ \E o : obj' = [obj EXCEPT ![c] = o]
           \/ \E l \in {"idle", "undo", "clear", "destroy"} : pc' = [pc EXCEPT ![c] = l] /\ UNCHANGED obj
    BY <1>4 DEF Recheck, ChildSignaled, ChildAdded, ChildRefused, ArrayInvalid, Undo, ResetSignal,
                ResetQueues, Return, Goto, entries
  <2>. QED  BY <1>p, <1>u, <2>1
<1>5. ASSUME NEW c \in Clients, ArrayDone(c) \/ Undone(c) PROVE Books'
  <2>0. obj[c] \in Arrays /\ arg[c] = NoData
    BY <1>5 DEF CallInv, Locals, CallOK, ArrayDone, Undone, PlainData
  <2>1. /\ UNCHANGED <<clientData, ctl>> /\ pc' = [pc EXCEPT ![c] = "idle"]
        /\ obj' = [obj EXCEPT ![c] = INVALID]
        /\ waitMask' = waitMask \/ waitMask' = [waitMask EXCEPT ![obj[c]] = {}]
    BY <1>5, <2>0 DEF ArrayDone, Undone, Return, Goto, DestroyJoin, StoreData
  <2>2. /\ \A o \in Objects : waitMask'[o] \subseteq waitMask[o]
        /\ \A f \in Fences : waitMask'[f] = waitMask[f]
    BY <1>p, <2>0, <2>1 DEF Objects
  <2>. QED  BY <1>p, <1>u, <2>1, <2>2
<1>6. ASSUME NEW c \in Clients, NEW o \in Objects, ResetClear(c, o) PROVE Books'
  <2>1. /\ \E l \in {"clear", "signal"} : pc' = [pc EXCEPT ![c] = l]
        /\ obj' = [obj EXCEPT ![c] = o] /\ UNCHANGED <<clientData, ctl>> /\ ctl.fence # o
        /\ waitMask' = [waitMask EXCEPT ![o] = waitMask[o] \ {c}]
    BY <1>6 DEF ResetClear, Goto, Unlocked
  <2>2. /\ \A q \in Objects : waitMask'[q] \subseteq waitMask[q]
        /\ \A f \in Fences : ctl.fence = f => waitMask'[f] = waitMask[f]
    BY <1>p, <2>1 DEF Objects
  <2>. QED  BY <1>p, <1>u, <2>1, <2>2
<1>7. ASSUME NEW c \in Clients, ResetDestroy(c) PROVE Books'
  <2>. DEFINE f == obj[c]
  <2>1. f \in Fences /\ f \in Objects
    BY <1>7 DEF CallInv, Locals, CallOK, ResetDestroy, Objects
  <2>2. /\ waitMask' = [waitMask EXCEPT ![f] = {}] /\ pc' = [pc EXCEPT ![c] = "clear"]
        /\ clientData' = [clientData EXCEPT ![f] = [d \in Clients |-> NoData]]
        /\ UNCHANGED <<obj, asked, ctl>> /\ ctl.fence # f
    BY <1>7 DEF ResetDestroy, Goto, PlainData, Unlocked
  <2>. HIDE DEF f
  <2>3. ASSUME NEW o \in Objects, NEW e \in Clients, NotStored(o, e)' PROVE clientData'[o][e] = NoData
    <3>1. NotStored(o, e)
      BY <1>p, <2>2, <2>3 DEF NotStored, Asked
    <3>. QED  BY <1>p, <2>1, <2>2, <3>1 DEF Books
  <2>4. ASSUME NEW o \in Objects, NEW e \in waitMask'[o]
        PROVE  [fence |-> o, data |-> clientData'[o][e]] \in asked'[e]
    <3>1. o # f /\ e \in waitMask[o] /\ clientData'[o] = clientData[o]
      BY <1>p, <2>1, <2>2, <2>4
    <3>. QED  BY <2>2, <3>1 DEF Books
  <2>5. ctl'.fence \in Fences => ctl'.clients \subseteq waitMask'[ctl'.fence]
    BY <1>p, <2>1, <2>2 DEF Objects
  <2>. QED  BY <2>3, <2>4, <2>5 DEF Books
<1>8. ASSUME NEW f \in Fences, CtlSignal(f) PROVE Books'
  <2>1. UNCHANGED <<clientData, waitMask, pc, obj>> /\ ctl'.fence = f /\ ctl'.clients = waitMask[f]
    BY <1>8 DEF CtlSignal, calls
  <2>. QED  BY <1>0, <1>p, <2>1, BooksStep
<1>9. ASSUME CtlStep PROVE Books'
  <2>1. /\ UNCHANGED <<clientData, pc, obj>>
        /\ waitMask' = waitMask \/ \E a \in Arrays : waitMask' = [waitMask EXCEPT ![a] = {}]
        /\ ctl'.clients = {} \/ (ctl'.fence = ctl.fence /\ ctl'.clients \subseteq ctl.clients)
    BY <1>9, <1>p DEF CtlStep, CtlClient, CtlJoin, CtlUnlock, DestroyJoin, Idle, entries, calls
  <2>2. /\ \A o \in Objects : waitMask'[o] \subseteq waitMask[o]
        /\ \A f \in Fences : waitMask'[f] = waitMask[f]
    BY <1>p, <2>1 DEF Objects
  <2>3. ctl'.fence \in Fences => ctl'.clients \subseteq waitMask'[ctl'.fence]
    BY <1>p, <2>1, <2>2
  <2>. QED  BY <1>0, <1>p, <2>1, <2>2, <2>3, BooksStep
<1>. QED  BY <1>1, <1>2, <1>3, <1>4, <1>5, <1>6, <1>7, <1>8, <1>9 DEF Next, DriverStep

\* Message m answers a call of client c.
Earned(c, m) == [fence |-> m.fence, data |-> m.data] \in asked[c]

RxEarned == \A c \in Clients : \A m \in rxq[c] : Earned(c, m)

\* A reset passes on what its receiver passed in, for all have data of their own.
LEMMA ResetDataOwn ==
  ASSUME PlainData, CallInv, NEW o \in Objects, NEW c \in waitMask[o]
  PROVE  ResetData(o, c) = clientData[o][c]
<1>. DEFINE before == {d \in waitMask[o] \cap DataClients : d <= c}
<1>1. /\ c \in Clients /\ c \in Nat /\ waitMask[o] \subseteq Clients /\ DataClients = Clients
      /\ Clients \subseteq Nat
  BY ClientsAssumption DEF CallInv, Shape, PlainData
<1>2. before # {} /\ c \in before
  BY <1>1
<1>3. before \in SUBSET (0 .. c)
  <2>1. \A d \in before : d \in Nat /\ d <= c
    BY <1>1
  <2>. HIDE DEF before
  <2>. QED  BY <1>1, <2>1
<1>4. Max(before) \in before /\ c <= Max(before)
  <2>. HIDE DEF before
  <2>. QED  BY <1>1, <1>2, <1>3, MaxIsLargest
<1>5. Max(before) = c
  <2>1. Max(before) \in Nat /\ Max(before) <= c
    <3>1. Max(before) \in 0 .. c
      BY <1>3, <1>4
    <3>. HIDE DEF before
    <3>. QED  BY <1>1, <3>1
  <2>. HIDE DEF before
  <2>. QED  BY <1>1, <1>4, <2>1
<1>. QED  BY <1>2, <1>5 DEF ResetData

\* Every step writes earned messages only.
LEMMA RxEarnedKept ==
  ASSUME PlainData, CallInv, Books, RxEarned, [Next]_vars
  PROVE  RxEarned'
<1>0. /\ \A c \in Clients : asked[c] \subseteq asked'[c]
      /\ rxq \in [Clients -> SUBSET Message]
      /\ DataClients = Clients
  BY AskedGrows DEF CallInv, Shape, PlainData
<1>k. ASSUME NEW c \in Clients, NEW m, Earned(c, m) PROVE Earned(c, m)'
  BY <1>0, <1>k DEF Earned
<1>s. ASSUME \A c \in Clients : \A m \in rxq'[c] : m \in rxq[c] \/ Earned(c, m)
      PROVE  RxEarned'
  BY <1>k, <1>s DEF RxEarned
<1>1. CASE UNCHANGED rxq
  BY <1>1, <1>s
<1>2. ASSUME NEW c \in Clients, Recheck(c) PROVE RxEarned'
  <2>. DEFINE msg == [fence |-> obj[c], data |-> arg[c], error |-> NoData]
  <2>1. Earned(c, msg)
    BY <1>2 DEF CallInv, Locals, CallOK, Recheck, Earned
  <2>2. rxq' = rxq \/ rxq' = [rxq EXCEPT ![c] = rxq[c] \cup {msg}]
    BY <1>2 DEF Recheck, Signal
  <2>. HIDE DEF msg
  <2>. QED  BY <1>0, <1>s, <2>1, <2>2
<1>3. ASSUME NEW c \in Clients, ArrayDone(c) PROVE RxEarned'
  <2>. DEFINE msg == [fence |-> obj[c], data |-> NoData, error |-> arg[c]]
  <2>0. arg[c] = NoData /\ [fence |-> obj[c], data |-> arg[c]] \in asked[c]
    BY <1>3 DEF CallInv, Locals, CallOK, ArrayDone, PlainData
  <2>1. Earned(c, msg)
    BY <2>0 DEF Earned
  <2>2. rxq' = rxq \/ rxq' = [rxq EXCEPT ![c] = rxq[c] \cup {msg}]
    BY <1>3 DEF ArrayDone, Signal
  <2>. HIDE DEF msg
  <2>. QED  BY <1>0, <1>s, <2>1, <2>2
<1>4. ASSUME NEW c \in Clients, ResetSignal(c) PROVE RxEarned'
  <2>. DEFINE f == obj[c]
              told(d) == {[fence |-> f, data |-> ResetData(f, w), error |-> ResetError(c)] :
                            w \in SignaledInReset(f) \cap {d}}
  <2>1. f \in Objects
    BY <1>4 DEF CallInv, Locals, CallOK, ResetSignal, Objects
  <2>2. ASSUME NEW d \in waitMask[f]
        PROVE  Earned(d, [fence |-> f, data |-> ResetData(f, d), error |-> ResetError(c)])
    <3>1. ResetData(f, d) = clientData[f][d]
      BY <2>1, ResetDataOwn
    <3>2. [fence |-> f, data |-> ResetData(f, d)] \in asked[d]
      BY <2>1, <3>1 DEF Books
    <3>. QED  BY <3>2 DEF Earned
  <2>3. rxq' = IF flags[f] THEN rxq ELSE [d \in Clients |-> rxq[d] \cup told(d)]
    BY <1>4 DEF ResetSignal
  <2>4. ASSUME NEW d \in Clients, NEW m \in told(d) PROVE Earned(d, m)
    BY <2>2, <2>4 DEF SignaledInReset
  <2>. HIDE DEF told, f
  <2>. QED  BY <1>0, <1>s, <2>3, <2>4
<1>5. ASSUME NEW c \in Clients, ResetQueues(c) PROVE RxEarned'
  BY <1>0, <1>5, <1>s DEF ResetQueues
<1>6. ASSUME NEW c \in Clients, CtlClient(c) PROVE RxEarned'
  <2>. DEFINE f == ctl.fence
              msg == [fence |-> f, data |-> DataOf(f, c), error |-> NoData]
  <2>1. f \in Fences /\ f \in Objects /\ c \in waitMask[f]
    BY <1>6 DEF CallInv, Locals, CtlOK, CtlClient, Books, Objects
  <2>2. Earned(c, msg)
    BY <1>0, <2>1 DEF Earned, DataOf, Books
  <2>3. rxq' = [rxq EXCEPT ![c] = rxq[c] \cup {msg}]
    BY <1>6 DEF CtlClient, Signal
  <2>. HIDE DEF msg
  <2>. QED  BY <1>0, <1>s, <2>2, <2>3
<1>7. ASSUME NEW a \in Arrays, CtlJoin(a) PROVE RxEarned'
  <2>. DEFINE told(c) == {[fence |-> a, data |-> DataOf(a, d), error |-> NoData] : d \in waitMask[a] \cap {c}}
  <2>1. a \in Objects /\ waitMask[a] \subseteq Clients
    BY DEF CallInv, Shape, Objects
  <2>2. ASSUME NEW c \in waitMask[a] PROVE Earned(c, [fence |-> a, data |-> DataOf(a, c), error |-> NoData])
    BY <1>0, <2>1 DEF Earned, DataOf, Books
  <2>3. rxq' = rxq \/ rxq' = [c \in Clients |-> rxq[c] \cup told(c)]
    BY <1>7 DEF CtlJoin
  <2>4. ASSUME NEW c \in Clients, NEW m \in told(c) PROVE Earned(c, m)
    BY <2>2, <2>4
  <2>. HIDE DEF told
  <2>. QED  BY <1>0, <1>s, <2>3, <2>4
<1>8. ASSUME NEW c \in Clients, Call(c) PROVE UNCHANGED rxq
  BY <1>8 DEF Call, WaitFence, WaitArray, Reset
<1>9. ASSUME NEW c \in Clients, DriverStep(c) PROVE RxEarned'
  <2>1. \/ UNCHANGED rxq
        \/ Recheck(c) \/ ArrayDone(c) \/ ResetSignal(c) \/ ResetQueues(c)
    BY <1>9 DEF DriverStep, Register, ChildSignaled, ChildAdded, ChildRefused, ArrayInvalid, Undo, Undone,
                ResetClear, ResetDestroy
  <2>. QED  BY <1>1, <1>2, <1>3, <1>4, <1>5, <2>1
<1>10. ASSUME CtlStep \/ \E f \in Fences : CtlSignal(f) PROVE RxEarned'
  BY <1>1, <1>6, <1>7, <1>10 DEF CtlStep, CtlSignal, CtlUnlock
<1>. QED  BY <1>1, <1>8, <1>9, <1>10 DEF Next, vars

\* Every message in an Rx queue carries the data its receiver passed in its wait call for
\* that fence or array, whoever writes the message and whatever is reset meanwhile.
THEOREM SignalDataReturned == PlainData /\ Spec => []DataReturned
<1>. SUFFICES ASSUME PlainData PROVE Spec => []DataReturned
  OBVIOUS
<1>1. Init => Books /\ RxEarned
  BY DEF Init, Books, RxEarned, PlainData, Idle
<1>2. CallInv /\ CallInv' /\ Books /\ RxEarned /\ [Next]_vars => (Books /\ RxEarned)'
  BY BooksKept, RxEarnedKept
<1>3. RxEarned => DataReturned
  BY DEF RxEarned, Earned, DataReturned
<1>. QED  BY <1>1, <1>2, <1>3, SignalCalls, PTL DEF Spec

\* The reset that message m reports an error for.
Blamed(m) ==
  m.error # NoData =>
    /\ m.fence \in Fences
    /\ \E r \in asked[Allocator[m.fence]] : r.fence = "reset" /\ r.data \notin WithoutError

\* Every step keeps ErrorMeansReset.
LEMMA ErrorsKept ==
  ASSUME ArrayData \subseteq {NoData}, CallInv, ErrorMeansReset, [Next]_vars
  PROVE  ErrorMeansReset'
<1>0. /\ \A c \in Clients : asked[c] \subseteq asked'[c]
      /\ rxq \in [Clients -> SUBSET Message]
      /\ Allocator \in [Fences -> Clients]
  BY AskedGrows, ClientsAssumption DEF CallInv, Shape
<1>k. ASSUME NEW m, Blamed(m) PROVE Blamed(m)'
  <2>1. CASE m.error # NoData
    <3>1. m.fence \in Fences /\ Allocator[m.fence] \in Clients
      BY <1>0, <1>k, <2>1 DEF Blamed
    <3>. QED  BY <1>0, <1>k, <2>1, <3>1 DEF Blamed
  <2>. QED  BY <2>1 DEF Blamed
<1>s. ASSUME \A c \in Clients : \A m \in rxq'[c] : m \in rxq[c] \/ Blamed(m)
      PROVE  ErrorMeansReset'
  BY <1>k, <1>s DEF ErrorMeansReset, Blamed
<1>1. CASE UNCHANGED rxq
  BY <1>1, <1>s
<1>2. ASSUME NEW c \in Clients, NEW m, Blamed(m), rxq' = rxq \/ rxq' = [rxq EXCEPT ![c] = rxq[c] \cup {m}]
      PROVE  ErrorMeansReset'
  BY <1>0, <1>2, <1>s
<1>3. ASSUME NEW c \in Clients, Recheck(c) PROVE ErrorMeansReset'
  <2>1. Blamed([fence |-> obj[c], data |-> arg[c], error |-> NoData])
    BY DEF Blamed
  <2>2. \/ rxq' = rxq
        \/ rxq' = [rxq EXCEPT ![c] = rxq[c] \cup {[fence |-> obj[c], data |-> arg[c], error |-> NoData]}]
    BY <1>3 DEF Recheck, Signal
  <2>. QED  BY <1>2, <2>1, <2>2
<1>4. ASSUME NEW c \in Clients, ArrayDone(c) PROVE ErrorMeansReset'
  <2>1. arg[c] = NoData
    BY <1>4 DEF CallInv, Locals, CallOK, ArrayDone
  <2>2. Blamed([fence |-> obj[c], data |-> NoData, error |-> NoData])
    BY DEF Blamed
  <2>3. \/ rxq' = rxq
        \/ rxq' = [rxq EXCEPT ![c] = rxq[c] \cup {[fence |-> obj[c], data |-> NoData, error |-> NoData]}]
    BY <1>4, <2>1 DEF ArrayDone, Signal
  <2>. QED  BY <1>2, <2>2, <2>3
<1>5. ASSUME NEW c \in Clients, ResetSignal(c) PROVE ErrorMeansReset'
  <2>. DEFINE f == obj[c]
              told(d) == {[fence |-> f, data |-> ResetData(f, w), error |-> ResetError(c)] :
                            w \in SignaledInReset(f) \cap {d}}
  <2>1. /\ f \in Fences /\ Allocator[f] = c
        /\ [fence |-> "reset", data |-> arg[c]] \in asked[c]
    BY <1>5 DEF CallInv, Locals, CallOK, ResetSignal, InReset
  <2>2. ASSUME NEW d PROVE Blamed([fence |-> f, data |-> d, error |-> ResetError(c)])
    <3>1. ResetError(c) # NoData => arg[c] \notin WithoutError
      BY DEF ResetError
    <3>2. ResetError(c) # NoData => \E r \in asked[Allocator[f]] : r.fence = "reset" /\ r.data \notin WithoutError
      BY <2>1, <3>1
    <3>. HIDE DEF f
    <3>. QED  BY <2>1, <3>2 DEF Blamed
  <2>3. rxq' = IF flags[f] THEN rxq ELSE [d \in Clients |-> rxq[d] \cup told(d)]
    BY <1>5 DEF ResetSignal
  <2>4. ASSUME NEW d \in Clients, NEW m \in told(d) PROVE Blamed(m)
    BY <2>2, <2>4
  <2>. HIDE DEF told, f
  <2>. QED  BY <1>0, <1>s, <2>3, <2>4
<1>6. ASSUME NEW c \in Clients, ResetQueues(c) PROVE ErrorMeansReset'
  BY <1>0, <1>6, <1>s DEF ResetQueues
<1>7. ASSUME NEW c \in Clients, CtlClient(c) PROVE ErrorMeansReset'
  BY <1>2, <1>7 DEF CtlClient, Signal, Blamed
<1>8. ASSUME NEW a \in Arrays, CtlJoin(a) PROVE ErrorMeansReset'
  <2>. DEFINE told(c) == {[fence |-> a, data |-> DataOf(a, d), error |-> NoData] : d \in waitMask[a] \cap {c}}
  <2>1. rxq' = rxq \/ rxq' = [c \in Clients |-> rxq[c] \cup told(c)]
    BY <1>8 DEF CtlJoin
  <2>2. ASSUME NEW c \in Clients, NEW m \in told(c) PROVE Blamed(m)
    BY <2>2 DEF Blamed
  <2>. HIDE DEF told
  <2>. QED  BY <1>0, <1>s, <2>1, <2>2
<1>9. ASSUME NEW c \in Clients, Call(c) PROVE UNCHANGED rxq
  BY <1>9 DEF Call, WaitFence, WaitArray, Reset
<1>10. ASSUME NEW c \in Clients, DriverStep(c) PROVE ErrorMeansReset'
  <2>1. \/ UNCHANGED rxq
        \/ Recheck(c) \/ ArrayDone(c) \/ ResetSignal(c) \/ ResetQueues(c)
    BY <1>10 DEF DriverStep, Register, ChildSignaled, ChildAdded, ChildRefused, ArrayInvalid, Undo, Undone,
                 ResetClear, ResetDestroy
  <2>. QED  BY <1>1, <1>3, <1>4, <1>5, <1>6, <2>1
<1>11. ASSUME CtlStep \/ \E f \in Fences : CtlSignal(f) PROVE ErrorMeansReset'
  BY <1>1, <1>7, <1>8, <1>11 DEF CtlStep, CtlSignal, CtlUnlock
<1>. QED  BY <1>1, <1>9, <1>10, <1>11 DEF Next, vars

\* An error is reported only for a fence whose allocator was reset, and not without error.
THEOREM SignalErrorMeansReset == ArrayData \subseteq {NoData} /\ Spec => []ErrorMeansReset
<1>. SUFFICES ASSUME ArrayData \subseteq {NoData} PROVE Spec => []ErrorMeansReset
  OBVIOUS
<1>1. Init => ErrorMeansReset
  BY DEF Init, ErrorMeansReset
<1>2. CallInv /\ ErrorMeansReset /\ [Next]_vars => ErrorMeansReset'
  BY ErrorsKept
<1>. QED  BY <1>1, <1>2, SignalCalls, PTL DEF Spec

-----------------------------------------------------------------------------
(* Join fences. *)

\* Arrays are processed one at a time and no client is reset.
OneByOne == SerialArrays /\ \A c \in Clients : Resets[c] = {}

\* The call of client c is for array a, and the only one for an array.
CallOn(c, a) == InArray(c) /\ obj[c] = a
OneArray == \A c, d \in Clients : InArray(c) /\ InArray(d) => c = d

NoReset == (\A c \in Clients : ~InReset(c)) /\ (\A f \in Fences : valid[f])

\* Join fence a is in the parent list of fence f.
Listed(f, a) == \E j \in 1 .. MAX_PARENTS : parents[f][j] = a

\* Parent lists are packed and hold each join fence once, that of a call in progress last.
ParentsPacked ==
  \A f \in Fences :
    /\ \A j \in 1 .. MAX_PARENTS : parents[f][j] # INVALID <=> j <= parentsCnt[f]
    /\ \A j, k \in 1 .. MAX_PARENTS : parents[f][j] # INVALID /\ parents[f][j] = parents[f][k] => j = k
    /\ \A c \in Clients, j \in 1 .. MAX_PARENTS :
         InArray(c) /\ parents[f][j] = obj[c] => j = parentsCnt[f]

\* The join fence of a call is in use and knows its client, unless FenceCTL signaled it after
\* the last child was seen.
CallJoin(c) ==
  \/ /\ join[obj[c]] = "live" /\ c \in waitMask[obj[c]]
     /\ pc[c] = "child" /\ signalJoin[c] => pending[obj[c]] = 0
  \/ /\ pc[c] = "child" /\ ~AtChild(c) /\ Children[obj[c]] # << >> /\ ~signalJoin[c]
     /\ join[obj[c]] = "signaled" /\ obj[c] \in Told(c)

\* The call for array a has seen its i-th child, and not yet taken it back.
Seen(a, i) ==
  \A c \in Clients : CallOn(c, a) => IF pc[c] = "child" THEN i < idx[c] ELSE i <= idx[c]

\* The i-th child of array a has not been counted down, or will be by FenceCTL.
Uncounted(a, i) ==
  \/ ~Passed(a, i) \/ ~IsHwFence(Children[a][i]) \/ ~flags[Children[a][i]]
  \/ Counting(Children[a][i], a)
Due(a, i) ==
  /\ Children[a][i] \in Fences
  /\ \/ Counting(Children[a][i], a)
     \/ ~flags[Children[a][i]] /\ Listed(Children[a][i], a)

Open(a) == {i \in DOMAIN Children[a] : Uncounted(a, i)}
Owed(a) == {i \in DOMAIN Children[a] : Due(a, i)}

ListedSeen(a) ==
  \A f \in Fences : Listed(f, a) =>
    /\ join[a] \in {"live", "signaled"}
    /\ \E i \in DOMAIN Children[a] : Children[a][i] = f /\ Seen(a, i)

CtlCounts(a) ==
  a \in ctl.joins => flags[ctl.fence] /\ Listed(ctl.fence, a) /\ join[a] = "live"

\* A join fence whose call fails keeps one count more than FenceCTL can take: it is never
\* signaled.
Counted(a) ==
  /\ pending[a] >= 0
  /\ join[a] = "live" /\ ~Failing(a) => pending[a] = Cardinality(Open(a))
  /\ join[a] = "live" /\ Failing(a) => Children[a] = << >> \/ pending[a] > Cardinality(Owed(a))
  /\ join[a] = "live" /\ ~Failing(a) /\ pending[a] = 0 =>
       \E c \in Clients : pc[c] = "child" /\ obj[c] = a /\ (signalJoin[c] \/ Children[a] = << >>)

PassedListed(a) ==
  \A i \in DOMAIN Children[a] :
    join[a] \in {"live", "signaled"} /\ ~Failing(a) /\ Passed(a, i) =>
      /\ Children[a][i] \in Fences
      /\ join[a] = "live" /\ ~flags[Children[a][i]] => Listed(Children[a][i], a)

SignaledDone(a) ==
  /\ join[a] = "signaled" =>
       \A i \in DOMAIN Children[a] : Children[a][i] \in Fences /\ flags[Children[a][i]]
  /\ \A c \in Clients : a \in Told(c) => join[a] = "signaled"

ArraySound(a) ==
  /\ ListedSeen(a) /\ CtlCounts(a) /\ Counted(a) /\ PassedListed(a) /\ SignaledDone(a)
  /\ \A c \in Clients : CallOn(c, a) => CallJoin(c)

Joins == NoReset /\ OneArray /\ ParentsPacked /\ \A a \in Arrays : ArraySound(a)

\* The children of an array.
LEMMA ChildrenType ==
  ASSUME NEW a \in Arrays
  PROVE  /\ Len(Children[a]) \in Nat /\ DOMAIN Children[a] = 1 .. Len(Children[a])
         /\ \A i \in DOMAIN Children[a] : Children[a][i] \in Fences \cup {"plain"}
         /\ \A i, j \in DOMAIN Children[a] : Children[a][i] = Children[a][j] => i = j
         /\ Children[a] = << >> <=> Len(Children[a]) = 0
BY ObjectsAssumption

\* Subsets of the children are finite.
LEMMA SomeChildren ==
  ASSUME NEW a \in Arrays, NEW S \in SUBSET (DOMAIN Children[a])
  PROVE  IsFiniteSet(S) /\ Cardinality(S) \in Nat /\ Cardinality(S) <= Len(Children[a])
<1>1. Len(Children[a]) \in Nat /\ DOMAIN Children[a] = 1 .. Len(Children[a])
  BY ChildrenType
<1>2. IsFiniteSet(1 .. Len(Children[a])) /\ Cardinality(1 .. Len(Children[a])) = Len(Children[a])
  <2>1. ASSUME NEW n \in Nat PROVE IsFiniteSet(1 .. n) /\ Cardinality(1 .. n) = n
    BY FS_Interval
  <2>. QED  BY <1>1, <2>1
<1>. QED  BY <1>1, <1>2, FS_Subset, FS_CardinalityType

\* One child less.
LEMMA OneLess ==
  ASSUME NEW a \in Arrays, NEW S \in SUBSET (DOMAIN Children[a]), NEW i \in S
  PROVE  /\ Cardinality(S \ {i}) = Cardinality(S) - 1 /\ Cardinality(S) >= 1
         /\ Cardinality(S) = 1 => S \ {i} = {}
<1>1. IsFiniteSet(S) /\ Cardinality(S) \in Nat
  BY SomeChildren
<1>2. Cardinality(S \ {i}) = Cardinality(S) - 1 /\ IsFiniteSet(S \ {i})
  BY <1>1, FS_RemoveElement
<1>3. Cardinality(S) # 0
  BY <1>1, FS_EmptySet
<1>. QED  BY <1>1, <1>2, <1>3, FS_EmptySet

\* What a step must leave alone so that nothing changes for array a.
SameArray(a) ==
  /\ join'[a] = join[a] /\ pending'[a] = pending[a] /\ waitMask'[a] = waitMask[a]
  /\ UNCHANGED <<valid, flags>>
  /\ \A c \in Clients : CallOn(c, a)' <=> CallOn(c, a)
  /\ \A c \in Clients : CallOn(c, a) =>
       pc'[c] = pc[c] /\ idx'[c] = idx[c] /\ signalJoin'[c] = signalJoin[c]
  /\ \A c \in Clients : a \in Told(c)' <=> a \in Told(c)
  /\ a \in ctl'.joins <=> a \in ctl.joins
  /\ a \in ctl.joins => ctl'.fence = ctl.fence
  /\ \A f \in Fences : Listed(f, a)' <=> Listed(f, a)

\* Then the array stays sound.
LEMMA ArrayKept ==
  ASSUME CallInv, NEW a \in Arrays, ArraySound(a), SameArray(a)
  PROVE  ArraySound(a)'
<1>1. /\ \A i : Passed(a, i)' <=> Passed(a, i)
      /\ \A i : Seen(a, i)' <=> Seen(a, i)
      /\ Failing(a)' <=> Failing(a)
  BY DEF SameArray, Passed, Seen, Failing, CallOn, InArray
<1>2. \A f \in Fences : Counting(f, a)' <=> Counting(f, a)
  BY DEF SameArray, Counting
<1>3. \A i \in DOMAIN Children[a] : Counting(Children[a][i], a)' <=> Counting(Children[a][i], a)
  BY DEF SameArray, Counting
<1>4. Open(a)' = Open(a)
  <2>1. \A i \in DOMAIN Children[a] : Uncounted(a, i)' <=> Uncounted(a, i)
    BY <1>1, <1>3 DEF Uncounted, SameArray, IsHwFence
  <2>. QED  BY <2>1 DEF Open
<1>5. Owed(a)' = Owed(a)
  <2>1. \A i \in DOMAIN Children[a] : Due(a, i)' <=> Due(a, i)
    BY <1>3 DEF Due, SameArray
  <2>. QED  BY <2>1 DEF Owed
<1>6. ListedSeen(a)'
  BY <1>1 DEF ArraySound, ListedSeen, SameArray
<1>7. CtlCounts(a)'
  <2>1. a \in ctl.joins => ctl.fence \in Fences
    BY DEF CallInv, Locals, CtlOK
  <2>. QED  BY <2>1 DEF ArraySound, CtlCounts, SameArray
<1>8. Counted(a)'
  <2>1. \A c \in Clients : (pc'[c] = "child" /\ obj'[c] = a) <=> (pc[c] = "child" /\ obj[c] = a)
    BY DEF SameArray, CallOn, InArray
  <2>2. \A c \in Clients : pc[c] = "child" /\ obj[c] = a => signalJoin'[c] = signalJoin[c]
    BY DEF SameArray, CallOn, InArray
  <2>. QED  BY <1>1, <1>4, <1>5, <2>1, <2>2 DEF ArraySound, Counted, SameArray
<1>9. PassedListed(a)'
  BY <1>1 DEF ArraySound, PassedListed, SameArray
<1>10. SignaledDone(a)'
  BY DEF ArraySound, SignaledDone, SameArray
<1>11. \A c \in Clients : CallOn(c, a)' => CallJoin(c)'
  <2>. SUFFICES ASSUME NEW c \in Clients, CallOn(c, a)' PROVE CallJoin(c)'
    OBVIOUS
  <2>1. CallOn(c, a) /\ obj'[c] = a /\ obj[c] = a
    BY DEF SameArray, CallOn
  <2>2. CallJoin(c)
    BY <2>1 DEF ArraySound
  <2>. QED  BY <2>1, <2>2 DEF CallJoin, SameArray, AtChild
<1>. QED  BY <1>6, <1>7, <1>8, <1>9, <1>10, <1>11 DEF ArraySound

\* The call of client c is the only one for its array.
LEMMA OnlyCall ==
  ASSUME CallInv, OneArray, NEW c \in Clients, InArray(c), NEW a, obj[c] = a
  PROVE  /\ a \in Arrays /\ idx[c] \in Nat
         /\ \A d \in Clients : CallOn(d, a) <=> d = c
         /\ \A i : Passed(a, i) <=> (pc[c] = "child" => idx[c] > i)
         /\ \A i : Seen(a, i) <=> IF pc[c] = "child" THEN i < idx[c] ELSE i <= idx[c]
         /\ Failing(a) <=> pc[c] = "undo"
<1>1. a \in Arrays /\ idx[c] \in Nat
  BY DEF CallInv, Shape, Locals, CallOK, InArray
<1>2. \A d \in Clients : CallOn(d, a) <=> d = c
  BY DEF OneArray, CallOn
<1>. QED  BY <1>1, <1>2 DEF Passed, Seen, Failing, CallOn, InArray

\* The same after a step.
LEMMA OnlyCallNext ==
  ASSUME CallInv', OneArray', NEW c \in Clients, InArray(c)', NEW a, obj'[c] = a
  PROVE  /\ a \in Arrays /\ idx'[c] \in Nat
         /\ \A d \in Clients : CallOn(d, a)' <=> d = c
         /\ \A i : Passed(a, i)' <=> (pc'[c] = "child" => idx'[c] > i)
         /\ \A i : Seen(a, i)' <=> IF pc'[c] = "child" THEN i < idx'[c] ELSE i <= idx'[c]
         /\ Failing(a)' <=> pc'[c] = "undo"
<1>1. a \in Arrays /\ idx'[c] \in Nat
  BY DEF CallInv, Shape, Locals, CallOK, InArray
<1>2. \A d \in Clients : CallOn(d, a)' <=> d = c
  BY DEF OneArray, CallOn
<1>. QED  BY <1>1, <1>2 DEF Passed, Seen, Failing, CallOn, InArray

\* An array for which there is no call any more.
LEMMA NoCallNext ==
  ASSUME NEW a, \A d \in Clients : ~CallOn(d, a)'
  PROVE  (\A i : Passed(a, i)' /\ Seen(a, i)') /\ ~Failing(a)'
BY DEF Passed, Seen, Failing, CallOn, InArray

\* A step of the call of client c for array a does not touch array b.
LEMMA OtherArray ==
  ASSUME CallInv, NEW c \in Clients, NEW b \in Arrays, ArraySound(b),
         \A d \in Clients \ {c} :
           pc'[d] = pc[d] /\ obj'[d] = obj[d] /\ idx'[d] = idx[d] /\ signalJoin'[d] = signalJoin[d],
         ~CallOn(c, b), ~CallOn(c, b)',
         join'[b] = join[b], pending'[b] = pending[b], waitMask'[b] = waitMask[b],
         UNCHANGED <<valid, flags, ctl>>,
         \A d \in Clients : b \in Told(d)' <=> b \in Told(d),
         \A f \in Fences : Listed(f, b)' <=> Listed(f, b)
  PROVE  ArraySound(b)'
<1>1. \A d \in Clients : CallOn(d, b)' <=> CallOn(d, b)
  BY DEF CallOn, InArray
<1>2. \A d \in Clients : CallOn(d, b) =>
        pc'[d] = pc[d] /\ idx'[d] = idx[d] /\ signalJoin'[d] = signalJoin[d]
  OBVIOUS
<1>3. SameArray(b)
  BY <1>1, <1>2 DEF SameArray
<1>. QED  BY <1>3, ArrayKept

\* A message about something else.
LEMMA ToldOther ==
  ASSUME rxq \in [Clients -> SUBSET Message], NEW c \in Clients, NEW m, NEW b, m.fence # b,
         rxq' = [rxq EXCEPT ![c] = rxq[c] \cup {m}]
  PROVE  \A d \in Clients : b \in Told(d)' <=> b \in Told(d)
<1>. SUFFICES ASSUME NEW d \in Clients PROVE b \in Told(d)' <=> b \in Told(d)
  OBVIOUS
<1>1. b \in Told(d)' <=> \E r \in rxq'[d] : b = r.fence
  BY DEF Told
<1>2. b \in Told(d) <=> \E r \in rxq[d] : b = r.fence
  BY DEF Told
<1>3. rxq'[d] = rxq[d] \/ rxq'[d] = rxq[d] \cup {m}
  OBVIOUS
<1>. QED  BY <1>1, <1>2, <1>3

\* A call for an array begins.
LEMMA JoinsWaitArray ==
  ASSUME OneByOne, CallInv, CallInv', Joins, NEW c \in Clients, NEW a \in Arrays, NEW data, WaitArray(c, a, data)
  PROVE  Joins'
<1>0. /\ pc \in [Clients -> Labels] /\ obj \in [Clients -> Objects \cup {INVALID}] /\ idx \in [Clients -> Nat]
      /\ signalJoin \in [Clients -> BOOLEAN] /\ join \in [Arrays -> {"none", "live", "signaled", "undone"}]
      /\ pending \in [Arrays -> Int] /\ waitMask \in [Objects -> SUBSET Clients] /\ a \in Objects
  BY DEF CallInv, Shape, Objects
<1>1. /\ pc[c] = "idle" /\ join[a] = "none" /\ \A d \in Clients : ~InArray(d)
      /\ join' = [join EXCEPT ![a] = "live"] /\ pending' = [pending EXCEPT ![a] = Len(Children[a])]
      /\ waitMask' = [waitMask EXCEPT ![a] = {c}] /\ pc' = [pc EXCEPT ![c] = "child"]
      /\ obj' = [obj EXCEPT ![c] = a] /\ idx' = [idx EXCEPT ![c] = 1]
      /\ signalJoin' = [signalJoin EXCEPT ![c] = FALSE]
      /\ UNCHANGED <<valid, flags, clientData, parents, parentsCnt, rxq, waited, todo, ctl>>
  BY DEF OneByOne, WaitArray, MayWait, Goto, JoinPending
<1>2. /\ pc'[c] = "child" /\ obj'[c] = a /\ idx'[c] = 1 /\ ~signalJoin'[c] /\ InArray(c)'
      /\ join'[a] = "live" /\ pending'[a] = Len(Children[a]) /\ waitMask'[a] = {c}
      /\ \A d \in Clients \ {c} : pc'[d] = pc[d] /\ obj'[d] = obj[d] /\ idx'[d] = idx[d]
                                    /\ signalJoin'[d] = signalJoin[d] /\ ~InArray(d)'
  BY <1>0, <1>1 DEF InArray
<1>3. OneArray'
  BY <1>2 DEF OneArray
<1>4. /\ \A i : Passed(a, i)' <=> i < 1
      /\ ~Failing(a)'
  BY <1>2, <1>3, OnlyCallNext
<1>5. ArraySound(a) /\ \A f \in Fences : ~Listed(f, a)
  BY <1>1 DEF Joins, ArraySound, ListedSeen
<1>6. \A f \in Fences : ~Listed(f, a)'
  BY <1>1, <1>5 DEF Listed
<1>7. ListedSeen(a)'
  BY <1>6 DEF ListedSeen
<1>8. CtlCounts(a)'
  BY <1>1, <1>5 DEF ArraySound, CtlCounts
<1>9. Len(Children[a]) \in Nat /\ DOMAIN Children[a] = 1 .. Len(Children[a]) /\ (Children[a] = << >> <=> Len(Children[a]) = 0)
  BY ChildrenType
<1>10. Counted(a)'
  <2>1. \A i \in DOMAIN Children[a] : Uncounted(a, i)'
    BY <1>4, <1>9 DEF Uncounted
  <2>2. Open(a)' = 1 .. Len(Children[a])
    BY <1>9, <2>1 DEF Open
  <2>3. ASSUME NEW n \in Nat PROVE Cardinality(1 .. n) = n
    BY FS_Interval
  <2>4. Cardinality(Open(a)') = Len(Children[a])
    BY <1>9, <2>2, <2>3
  <2>. QED  BY <1>2, <1>4, <1>9, <2>4 DEF Counted
<1>11. PassedListed(a)'
  BY <1>4, <1>9 DEF PassedListed
<1>12. SignaledDone(a)'
  BY <1>1, <1>2, <1>5 DEF ArraySound, SignaledDone, Told
<1>13. \A d \in Clients : CallOn(d, a)' => CallJoin(d)'
  BY <1>2 DEF CallOn, CallJoin
<1>14. ArraySound(a)'
  BY <1>7, <1>8, <1>10, <1>11, <1>12, <1>13 DEF ArraySound
<1>15. ASSUME NEW b \in Arrays, b # a PROVE ArraySound(b)'
  <2>1. ~CallOn(c, b) /\ ~CallOn(c, b)'
    BY <1>1, <1>2, <1>15 DEF CallOn
  <2>2. join'[b] = join[b] /\ pending'[b] = pending[b] /\ waitMask'[b] = waitMask[b]
    BY <1>0, <1>1, <1>15 DEF Objects
  <2>3. (\A d \in Clients : b \in Told(d)' <=> b \in Told(d)) /\ \A f \in Fences : Listed(f, b)' <=> Listed(f, b)
    BY <1>1 DEF Told, Listed
  <2>. QED  BY <1>1, <1>2, <2>1, <2>2, <2>3, OtherArray DEF Joins
<1>16. NoReset'
  <2>1. \A d \in Clients : ~InReset(d)'
    BY <1>2 DEF Joins, NoReset, InReset
  <2>. QED  BY <1>1, <2>1 DEF Joins, NoReset
<1>17. ParentsPacked'
  <2>1. \A f \in Fences, j \in 1 .. MAX_PARENTS : parents[f][j] # a
    BY <1>5 DEF Listed
  <2>2. ASSUME NEW f \in Fences, NEW d \in Clients, NEW j \in 1 .. MAX_PARENTS, InArray(d)', parents'[f][j] = obj'[d]
        PROVE  j = parentsCnt'[f]
    BY <1>1, <1>2, <2>1, <2>2
  <2>3. ParentsPacked
    BY DEF Joins
  <2>. QED  BY <1>1, <2>2, <2>3 DEF ParentsPacked
<1>. QED  BY <1>3, <1>14, <1>15, <1>16, <1>17 DEF Joins

\* What the steps of a call for an array start from.
LEMMA CallStart ==
  ASSUME CallInv, Joins, NEW c \in Clients, InArray(c), NEW a, obj[c] = a
  PROVE  /\ a \in Arrays /\ a \in Objects /\ idx[c] \in Nat /\ ArraySound(a) /\ CallJoin(c)
         /\ \A d \in Clients \ {c} : ~InArray(d)
         /\ pc[c] = "child" => idx[c] \in 1 .. Len(Children[a]) + 1
         /\ pc[c] = "undo" => idx[c] \in 0 .. Len(Children[a])
<1>1. a \in Arrays /\ a \in Objects /\ idx[c] \in Nat /\ CallOK(c)
  BY DEF CallInv, Shape, Locals, CallOK, InArray, Objects
<1>2. ArraySound(a) /\ CallOn(c, a)
  BY <1>1 DEF Joins, CallOn
<1>. QED  BY <1>1, <1>2 DEF ArraySound, Joins, OneArray, CallOK

\* Types that every step needs.
Fields ==
  /\ pc \in [Clients -> Labels] /\ obj \in [Clients -> Objects \cup {INVALID}]
  /\ idx \in [Clients -> Nat] /\ signalJoin \in [Clients -> BOOLEAN]
  /\ join \in [Arrays -> {"none", "live", "signaled", "undone"}]
  /\ pending \in [Arrays -> Int] /\ waitMask \in [Objects -> SUBSET Clients]
  /\ flags \in [Fences -> BOOLEAN] /\ valid \in [Fences -> BOOLEAN]
  /\ parents \in [Fences -> [1 .. MAX_PARENTS -> Arrays \cup {INVALID}]]
  /\ parentsCnt \in [Fences -> 0 .. MAX_PARENTS]
  /\ rxq \in [Clients -> SUBSET Message]
  /\ waited \in [Clients -> SUBSET Objects]
  /\ ctl \in [fence : Fences \cup {INVALID}, clients : SUBSET Clients, joins : SUBSET Arrays]
  /\ Fences \cap Arrays = {} /\ INVALID \notin Arrays /\ MAX_PARENTS \in Nat

\* They follow from CallInv.
LEMMA FieldTypes ==
  ASSUME CallInv
  PROVE  Fields
BY ObjectsAssumption, ClientsAssumption DEF CallInv, Shape, Fields

\* A child that is already signaled.
LEMMA JoinsChildSignaled ==
  ASSUME CallInv, CallInv', Joins, NEW c \in Clients, ChildSignaled(c)
  PROVE  Joins'
<1>a. PICK a, n : a = obj[c] /\ n = idx[c]
  OBVIOUS
<1>0. Fields
  BY FieldTypes
<1>1. /\ pc[c] = "child" /\ n <= Len(Children[a]) /\ AtChild(c) /\ InArray(c)
      /\ IsHwFence(Children[a][n]) /\ flags[Children[a][n]] /\ ctl.fence # Children[a][n]
      /\ pending' = [pending EXCEPT ![a] = pending[a] - 1]
      /\ signalJoin' = [signalJoin EXCEPT ![c] = signalJoin[c] \/ pending'[a] = 0]
      /\ idx' = [idx EXCEPT ![c] = n + 1]
      /\ UNCHANGED <<valid, flags, waitMask, clientData, parents, parentsCnt, join,
                     pc, obj, arg, rxq, asked, waited, todo, ctl>>
  BY <1>a DEF ChildSignaled, AtChild, Child, Unlocked, InArray
<1>2. /\ a \in Arrays /\ a \in Objects /\ n \in Nat /\ ArraySound(a) /\ CallJoin(c)
      /\ \A d \in Clients \ {c} : ~InArray(d)
      /\ n \in 1 .. Len(Children[a]) + 1
  BY <1>1, <1>a, CallStart
<1>3. /\ join[a] = "live" /\ c \in waitMask[a]
      /\ signalJoin[c] => pending[a] = 0
  BY <1>1, <1>2, <1>a DEF CallJoin
<1>4. /\ pc'[c] = "child" /\ obj'[c] = a /\ idx'[c] = n + 1 /\ InArray(c)' /\ pending'[a] = pending[a] - 1
      /\ signalJoin'[c] <=> (signalJoin[c] \/ pending'[a] = 0)
      /\ \A d \in Clients \ {c} : pc'[d] = pc[d] /\ obj'[d] = obj[d] /\ idx'[d] = idx[d]
                                    /\ signalJoin'[d] = signalJoin[d]
  BY <1>0, <1>1, <1>2, <1>a DEF InArray, Fields
<1>5. OneArray /\ OneArray'
  BY <1>1 DEF Joins, OneArray, InArray
<1>6. /\ \A i : Passed(a, i)' <=> n + 1 > i
      /\ \A i : Seen(a, i)' <=> i < n + 1
      /\ ~Failing(a)'
  BY <1>4, <1>5, OnlyCallNext
<1>7. /\ \A i : Passed(a, i) <=> n > i
      /\ \A i : Seen(a, i) <=> i < n
      /\ ~Failing(a)
  BY <1>1, <1>5, OnlyCall, <1>a
<1>8. /\ Len(Children[a]) \in Nat /\ DOMAIN Children[a] = 1 .. Len(Children[a])
      /\ n \in DOMAIN Children[a] /\ Children[a][n] \in Fences
  BY <1>1, <1>2, ChildrenType DEF IsHwFence
<1>9. \A f : Listed(f, a)' <=> Listed(f, a)
  BY <1>1 DEF Listed
<1>10. ListedSeen(a)'
  <2>1. \A i \in DOMAIN Children[a] : Seen(a, i) => Seen(a, i)'
    BY <1>2, <1>6, <1>7, <1>8
  <2>. QED  BY <1>1, <1>2, <1>9, <2>1 DEF ArraySound, ListedSeen
<1>11. CtlCounts(a)'
  BY <1>1, <1>2, <1>9 DEF ArraySound, CtlCounts
<1>12. Open(a)' = Open(a) \ {n} /\ n \in Open(a)
  <2>1. Uncounted(a, n) /\ ~Uncounted(a, n)'
    BY <1>1, <1>2, <1>6, <1>7 DEF Uncounted, Counting, IsHwFence
  <2>2. ASSUME NEW i \in DOMAIN Children[a], i # n PROVE Uncounted(a, i)' <=> Uncounted(a, i)
    <3>1. Passed(a, i)' <=> Passed(a, i)
      BY <1>2, <1>6, <1>7, <1>8, <2>2
    <3>. QED  BY <1>1, <3>1 DEF Uncounted, Counting, IsHwFence
  <2>. QED  BY <1>8, <2>1, <2>2 DEF Open
<1>13. /\ pending[a] = Cardinality(Open(a)) /\ Cardinality(Open(a)) \in Nat
       /\ Cardinality(Open(a)') = pending[a] - 1 /\ pending[a] >= 1
  <2>1. Open(a) \in SUBSET (DOMAIN Children[a])
    BY DEF Open
  <2>2. pending[a] = Cardinality(Open(a))
    BY <1>2, <1>3, <1>7 DEF ArraySound, Counted
  <2>3. Cardinality(Open(a)) \in Nat
    BY <1>2, <2>1, SomeChildren
  <2>4. Cardinality(Open(a) \ {n}) = Cardinality(Open(a)) - 1 /\ Cardinality(Open(a)) >= 1
    BY <1>2, <1>12, <2>1, OneLess
  <2>. QED  BY <1>12, <2>2, <2>3, <2>4
<1>14. Counted(a)'
  <2>1. pending'[a] = 0 => signalJoin'[c]
    BY <1>4
  <2>. QED  BY <1>0, <1>2, <1>4, <1>6, <1>13, <2>1 DEF Counted, Fields
<1>15. PassedListed(a)'
  <2>. SUFFICES ASSUME NEW i \in DOMAIN Children[a], Passed(a, i)'
                PROVE  /\ Children[a][i] \in Fences
                       /\ ~flags'[Children[a][i]] => Listed(Children[a][i], a)'
    BY <1>1 DEF PassedListed
  <2>1. CASE i = n
    BY <1>1, <1>8, <2>1
  <2>2. CASE i # n
    <3>1. Passed(a, i)
      BY <1>2, <1>6, <1>7, <1>8, <2>2
    <3>. QED  BY <1>1, <1>2, <1>3, <1>7, <1>9, <3>1 DEF ArraySound, PassedListed
  <2>. QED  BY <2>1, <2>2
<1>16. SignaledDone(a)'
  BY <1>1, <1>2 DEF ArraySound, SignaledDone, Told
<1>17. \A d \in Clients : CallOn(d, a)' => CallJoin(d)'
  <2>1. signalJoin'[c] => pending'[a] = 0
    BY <1>0, <1>2, <1>3, <1>4, <1>13 DEF Fields
  <2>2. CallJoin(c)'
    BY <1>1, <1>3, <1>4, <2>1 DEF CallJoin
  <2>. QED  BY <1>1, <1>2, <2>2 DEF CallOn, InArray
<1>18. ArraySound(a)'
  BY <1>10, <1>11, <1>14, <1>15, <1>16, <1>17 DEF ArraySound
<1>19. ASSUME NEW b \in Arrays, b # a PROVE ArraySound(b)'
  <2>1. ~CallOn(c, b) /\ ~CallOn(c, b)'
    BY <1>4, <1>19, <1>a DEF CallOn
  <2>2. join'[b] = join[b] /\ pending'[b] = pending[b] /\ waitMask'[b] = waitMask[b]
    BY <1>0, <1>1, <1>2, <1>19 DEF Fields
  <2>3. (\A d \in Clients : b \in Told(d)' <=> b \in Told(d)) /\ \A f \in Fences : Listed(f, b)' <=> Listed(f, b)
    BY <1>1 DEF Told, Listed
  <2>. QED  BY <1>1, <1>4, <2>1, <2>2, <2>3, OtherArray DEF Joins
<1>20. NoReset' /\ ParentsPacked'
  BY <1>1 DEF Joins, NoReset, InReset, ParentsPacked, InArray
<1>. QED  BY <1>5, <1>18, <1>19, <1>20 DEF Joins

\* A child gets the join fence as a parent.
LEMMA JoinsChildAdded ==
  ASSUME CallInv, CallInv', Joins, NEW c \in Clients, ChildAdded(c)
  PROVE  Joins'
<1>a. PICK a, n, f, k : a = obj[c] /\ n = idx[c] /\ f = Child(c) /\ k = parentsCnt[f] + 1
  OBVIOUS
<1>0. Fields
  BY FieldTypes
<1>1. /\ pc[c] = "child" /\ n <= Len(Children[a]) /\ AtChild(c) /\ InArray(c)
      /\ IsHwFence(f) /\ ~flags[f] /\ ctl.fence # f /\ f = Children[a][n] /\ ~(k >= MAX_PARENTS)
      /\ parentsCnt' = [parentsCnt EXCEPT ![f] = k]
      /\ parents' = [parents EXCEPT ![f][k] = a]
      /\ idx' = [idx EXCEPT ![c] = n + 1]
      /\ UNCHANGED <<valid, flags, waitMask, clientData, join, pending,
                     pc, obj, arg, signalJoin, rxq, asked, waited, todo, ctl>>
  BY <1>a DEF ChildAdded, AtChild, Child, Unlocked, InArray, ParentSlot, TooManyParents
<1>2. /\ a \in Arrays /\ a \in Objects /\ n \in Nat /\ ArraySound(a) /\ CallJoin(c)
      /\ \A d \in Clients \ {c} : ~InArray(d)
      /\ n \in 1 .. Len(Children[a]) + 1
  BY <1>1, <1>a, CallStart
<1>3. /\ join[a] = "live" /\ c \in waitMask[a]
      /\ signalJoin[c] => pending[a] = 0
  BY <1>1, <1>2, <1>a DEF CallJoin
<1>4. /\ pc'[c] = "child" /\ obj'[c] = a /\ idx'[c] = n + 1 /\ InArray(c)'
      /\ \A d \in Clients \ {c} : pc'[d] = pc[d] /\ obj'[d] = obj[d] /\ idx'[d] = idx[d]
                                    /\ signalJoin'[d] = signalJoin[d]
  BY <1>0, <1>1, <1>2, <1>a DEF InArray, Fields
<1>5. OneArray /\ OneArray'
  BY <1>1 DEF Joins, OneArray, InArray
<1>6. /\ \A i : Passed(a, i)' <=> n + 1 > i
      /\ \A i : Seen(a, i)' <=> i < n + 1
      /\ ~Failing(a)'
  BY <1>4, <1>5, OnlyCallNext
<1>7. /\ \A i : Passed(a, i) <=> n > i
      /\ \A i : Seen(a, i) <=> i < n
      /\ ~Failing(a)
  BY <1>1, <1>5, OnlyCall, <1>a
<1>8. /\ Len(Children[a]) \in Nat /\ DOMAIN Children[a] = 1 .. Len(Children[a])
      /\ n \in DOMAIN Children[a] /\ f \in Fences
      /\ \A i, j \in DOMAIN Children[a] : Children[a][i] = Children[a][j] => i = j
  BY <1>1, <1>2, ChildrenType DEF IsHwFence
<1>k. k \in 1 .. MAX_PARENTS /\ k = parentsCnt[f] + 1 /\ parents[f][k] = INVALID
  <2>1. k \in 1 .. MAX_PARENTS /\ k = parentsCnt[f] + 1 /\ ~(k <= parentsCnt[f])
    BY <1>0, <1>1, <1>8, <1>a DEF Fields
  <2>. QED  BY <1>8, <2>1 DEF Joins, ParentsPacked
<1>p. /\ parents'[f][k] = a /\ parentsCnt'[f] = k
      /\ \A j \in 1 .. MAX_PARENTS : j # k => parents'[f][j] = parents[f][j]
      /\ \A g \in Fences : g # f => parents'[g] = parents[g] /\ parentsCnt'[g] = parentsCnt[g]
  BY <1>0, <1>1, <1>8, <1>k DEF Fields
<1>n. ~Listed(f, a)
  <2>1. ASSUME Listed(f, a) PROVE FALSE
    <3>1. PICK i \in DOMAIN Children[a] : Children[a][i] = f /\ Seen(a, i)
      BY <1>2, <1>8, <2>1 DEF ArraySound, ListedSeen
    <3>2. i = n /\ i < n
      BY <1>1, <1>7, <1>8, <3>1
    <3>. QED  BY <1>2, <3>2
  <2>. QED  BY <2>1
<1>9. /\ Listed(f, a)'
      /\ \A g \in Fences : g # f => (Listed(g, a)' <=> Listed(g, a))
      /\ \A b \in Arrays, g \in Fences : b # a => (Listed(g, b)' <=> Listed(g, b))
  <2>1. Listed(f, a)'
    BY <1>k, <1>p DEF Listed
  <2>2. ASSUME NEW b \in Arrays, NEW g \in Fences, b # a \/ g # f PROVE Listed(g, b)' <=> Listed(g, b)
    <3>1. CASE g # f
      BY <1>p, <3>1 DEF Listed
    <3>2. CASE g = f /\ b # a
      <4>1. \A j \in 1 .. MAX_PARENTS : parents'[f][j] = b <=> parents[f][j] = b
        BY <1>0, <1>k, <1>p, <3>2 DEF Fields
      <4>. QED  BY <3>2, <4>1 DEF Listed
    <3>. QED  BY <2>2, <3>1, <3>2
  <2>. QED  BY <1>2, <2>1, <2>2
<1>10. ListedSeen(a)'
  <2>. SUFFICES ASSUME NEW g \in Fences, Listed(g, a)'
                PROVE  \E i \in DOMAIN Children[a] : Children[a][i] = g /\ Seen(a, i)'
    BY <1>1, <1>3 DEF ListedSeen
  <2>1. CASE g = f
    <3>1. Seen(a, n)'
      BY <1>2, <1>6
    <3>. QED  BY <1>1, <1>8, <2>1, <3>1
  <2>2. CASE g # f
    <3>1. PICK i \in DOMAIN Children[a] : Children[a][i] = g /\ Seen(a, i)
      BY <1>2, <1>9, <2>2 DEF ArraySound, ListedSeen
    <3>2. Seen(a, i)'
      BY <1>2, <1>6, <1>7, <1>8, <3>1
    <3>. QED  BY <3>1, <3>2
  <2>. QED  BY <2>1, <2>2
<1>11. CtlCounts(a)'
  <2>1. a \in ctl.joins => ctl.fence \in Fences
    BY DEF CallInv, Locals, CtlOK
  <2>. QED  BY <1>1, <1>2, <1>9, <2>1 DEF ArraySound, CtlCounts
<1>12. Open(a)' = Open(a)
  <2>1. ASSUME NEW i \in DOMAIN Children[a] PROVE Uncounted(a, i)' <=> Uncounted(a, i)
    <3>1. CASE i = n
      BY <1>1, <3>1 DEF Uncounted
    <3>2. CASE i # n
      <4>1. Passed(a, i)' <=> Passed(a, i)
        BY <1>2, <1>6, <1>7, <1>8, <3>2
      <4>. QED  BY <1>1, <4>1 DEF Uncounted, Counting, IsHwFence
    <3>. QED  BY <3>1, <3>2
  <2>. QED  BY <2>1 DEF Open
<1>14. Counted(a)'
  <2>1. pending'[a] = pending[a] /\ Counted(a)
    BY <1>1, <1>2 DEF ArraySound
  <2>. QED  BY <1>1, <1>3, <1>6, <1>7, <1>12, <2>1 DEF Counted
<1>15. PassedListed(a)'
  <2>. SUFFICES ASSUME NEW i \in DOMAIN Children[a], Passed(a, i)'
                PROVE  /\ Children[a][i] \in Fences
                       /\ ~flags'[Children[a][i]] => Listed(Children[a][i], a)'
    BY <1>1 DEF PassedListed
  <2>1. CASE i = n
    BY <1>1, <1>8, <1>9, <2>1
  <2>2. CASE i # n
    <3>1. Passed(a, i)
      BY <1>2, <1>6, <1>7, <1>8, <2>2
    <3>2. /\ Children[a][i] \in Fences
          /\ ~flags[Children[a][i]] => Listed(Children[a][i], a)
      BY <1>2, <1>3, <1>7, <3>1 DEF ArraySound, PassedListed
    <3>. QED  BY <1>1, <1>9, <3>2
  <2>. QED  BY <2>1, <2>2
<1>16. SignaledDone(a)'
  BY <1>1, <1>2 DEF ArraySound, SignaledDone, Told
<1>17. \A d \in Clients : CallOn(d, a)' => CallJoin(d)'
  <2>2. CallJoin(c)'
    BY <1>1, <1>3, <1>4 DEF CallJoin
  <2>. QED  BY <1>1, <1>2, <2>2 DEF CallOn, InArray
<1>18. ArraySound(a)'
  BY <1>10, <1>11, <1>14, <1>15, <1>16, <1>17 DEF ArraySound
<1>19. ASSUME NEW b \in Arrays, b # a PROVE ArraySound(b)'
  <2>1. ~CallOn(c, b) /\ ~CallOn(c, b)'
    BY <1>4, <1>19, <1>a DEF CallOn
  <2>2. join'[b] = join[b] /\ pending'[b] = pending[b] /\ waitMask'[b] = waitMask[b]
    BY <1>1
  <2>3. (\A d \in Clients : b \in Told(d)' <=> b \in Told(d)) /\ \A g \in Fences : Listed(g, b)' <=> Listed(g, b)
    BY <1>1, <1>9, <1>19 DEF Told
  <2>. QED  BY <1>1, <1>4, <2>1, <2>2, <2>3, OtherArray DEF Joins
<1>20. NoReset'
  BY <1>1 DEF Joins, NoReset, InReset
<1>21. ParentsPacked'
  <2>0. ParentsPacked
    BY DEF Joins
  <2>1. ASSUME NEW g \in Fences, g # f
        PROVE  /\ \A j \in 1 .. MAX_PARENTS : parents'[g][j] # INVALID <=> j <= parentsCnt'[g]
               /\ \A j, m \in 1 .. MAX_PARENTS : parents'[g][j] # INVALID /\ parents'[g][j] = parents'[g][m] => j = m
               /\ \A d \in Clients, j \in 1 .. MAX_PARENTS :
                    InArray(d)' /\ parents'[g][j] = obj'[d] => j = parentsCnt'[g]
    BY <1>1, <1>p, <2>0, <2>1 DEF ParentsPacked, InArray
  <2>2. \A j \in 1 .. MAX_PARENTS : parents'[f][j] # INVALID <=> j <= k
    <3>1. a # INVALID /\ parentsCnt[f] \in Nat /\ MAX_PARENTS \in Nat
      BY <1>0, <1>2, <1>8 DEF Fields
    <3>2. \A j \in 1 .. MAX_PARENTS : j # k => (j <= k <=> j <= parentsCnt[f])
      BY <1>k, <3>1
    <3>3. \A j \in 1 .. MAX_PARENTS : parents[f][j] # INVALID <=> j <= parentsCnt[f]
      BY <1>8, <2>0 DEF ParentsPacked
    <3>. QED  BY <1>k, <1>p, <3>1, <3>2, <3>3
  <2>3. \A j \in 1 .. MAX_PARENTS : parents'[f][j] = a => j = k
    BY <1>8, <1>n, <1>p DEF Listed
  <2>4. \A j, m \in 1 .. MAX_PARENTS : parents'[f][j] # INVALID /\ parents'[f][j] = parents'[f][m] => j = m
    BY <1>8, <1>p, <2>0, <2>3 DEF ParentsPacked
  <2>5. \A d \in Clients, j \in 1 .. MAX_PARENTS : InArray(d)' /\ parents'[f][j] = obj'[d] => j = k
    BY <1>1, <1>2, <2>3, <1>a DEF InArray
  <2>. QED  BY <1>p, <2>1, <2>2, <2>4, <2>5 DEF ParentsPacked
<1>. QED  BY <1>5, <1>18, <1>19, <1>20, <1>21 DEF Joins

\* A call for an array fails and starts to take its work back.
LEMMA JoinsFails ==
  ASSUME CallInv, CallInv', Joins, NEW c \in Clients, ChildRefused(c) \/ ArrayInvalid(c)
  PROVE  Joins'
<1>a. PICK a, n : a = obj[c] /\ n = idx[c]
  OBVIOUS
<1>0. Fields
  BY FieldTypes
<1>1. /\ pc[c] = "child" /\ InArray(c) /\ pc' = [pc EXCEPT ![c] = "undo"]
      /\ \/ AtChild(c) /\ n <= Len(Children[a]) /\ idx' = [idx EXCEPT ![c] = n]
         \/ ~AtChild(c) /\ Children[a] = << >> /\ idx' = [idx EXCEPT ![c] = 0]
      /\ UNCHANGED <<entries, obj, arg, signalJoin, rxq, asked, waited, todo, ctl>>
  <2>0. idx \in [Clients -> Nat]
    BY <1>0 DEF Fields
  <2>1. CASE ChildRefused(c)
    BY <1>a, <2>0, <2>1 DEF ChildRefused, AtChild, InArray, Goto
  <2>2. CASE ArrayInvalid(c)
    BY <1>a, <2>2 DEF ArrayInvalid, AtChild, InArray, Goto
  <2>. QED  BY <2>1, <2>2
<1>e. UNCHANGED <<valid, flags, waitMask, parents, parentsCnt, join, pending>>
  BY <1>1 DEF entries
<1>2. /\ a \in Arrays /\ a \in Objects /\ n \in Nat /\ ArraySound(a) /\ CallJoin(c)
      /\ \A d \in Clients \ {c} : ~InArray(d)
      /\ n \in 1 .. Len(Children[a]) + 1
  BY <1>1, <1>a, CallStart
<1>3. join[a] = "live" /\ c \in waitMask[a]
  BY <1>1, <1>2, <1>a DEF CallJoin
<1>4. /\ pc'[c] = "undo" /\ obj'[c] = a /\ InArray(c)'
      /\ idx'[c] = n \/ (idx'[c] = 0 /\ Children[a] = << >>)
      /\ \A d \in Clients \ {c} : pc'[d] = pc[d] /\ obj'[d] = obj[d] /\ idx'[d] = idx[d]
                                    /\ signalJoin'[d] = signalJoin[d]
  BY <1>0, <1>1, <1>2, <1>a DEF InArray, Fields
<1>5. OneArray /\ OneArray'
  BY <1>2, <1>4 DEF Joins, OneArray, InArray
<1>6. (\A i : Seen(a, i)' <=> i <= idx'[c]) /\ Failing(a)'
  BY <1>4, <1>5, OnlyCallNext
<1>7. /\ \A i : Passed(a, i) <=> n > i
      /\ \A i : Seen(a, i) <=> i < n
      /\ ~Failing(a)
  BY <1>1, <1>5, <1>a, OnlyCall
<1>8. /\ Len(Children[a]) \in Nat /\ DOMAIN Children[a] = 1 .. Len(Children[a])
      /\ Children[a] = << >> => DOMAIN Children[a] = {}
      /\ \A i, j \in DOMAIN Children[a] : Children[a][i] = Children[a][j] => i = j
  BY <1>2, ChildrenType
<1>9. \A f, b : Listed(f, b)' <=> Listed(f, b)
  BY <1>e DEF Listed
<1>10. ListedSeen(a)'
  <2>1. \A i \in DOMAIN Children[a] : Seen(a, i) => Seen(a, i)'
    BY <1>2, <1>4, <1>6, <1>7, <1>8
  <2>. QED  BY <1>2, <1>9, <1>e, <2>1 DEF ArraySound, ListedSeen
<1>11. CtlCounts(a)'
  BY <1>1, <1>2, <1>9, <1>e DEF ArraySound, CtlCounts
<1>12. Children[a] # << >> => pending[a] > Cardinality(Owed(a)')
  <2>. SUFFICES ASSUME Children[a] # << >> PROVE pending[a] > Cardinality(Owed(a)')
    OBVIOUS
  <2>1. n \in DOMAIN Children[a]
    BY <1>1, <1>2, <1>8
  <2>2. n \in Open(a) /\ Open(a) \in SUBSET (DOMAIN Children[a])
    BY <1>2, <1>7, <2>1 DEF Open, Uncounted
  <2>3. Owed(a)' \subseteq Open(a) \ {n}
    <3>. SUFFICES ASSUME NEW i \in DOMAIN Children[a], Due(a, i)' PROVE Uncounted(a, i) /\ i # n
      BY DEF Owed, Open
    <3>1. Due(a, i)
      BY <1>1, <1>9, <1>e DEF Due, Counting
    <3>2. Listed(Children[a][i], a) /\ Children[a][i] \in Fences
      BY <1>2, <3>1 DEF Due, Counting, ArraySound, CtlCounts
    <3>3. PICK j \in DOMAIN Children[a] : Children[a][j] = Children[a][i] /\ Seen(a, j)
      BY <1>2, <3>2 DEF ArraySound, ListedSeen
    <3>4. i < n
      BY <1>7, <1>8, <3>3
    <3>. QED  BY <1>2, <3>1, <3>4 DEF Due, Uncounted
  <2>4. Cardinality(Open(a) \ {n}) = Cardinality(Open(a)) - 1 /\ Cardinality(Open(a)) \in Nat
    BY <1>2, <2>2, OneLess, SomeChildren
  <2>5. Cardinality(Owed(a)') <= Cardinality(Open(a) \ {n}) /\ Cardinality(Owed(a)') \in Nat
    <3>1. Open(a) \ {n} \in SUBSET (DOMAIN Children[a]) /\ Owed(a)' \in SUBSET (DOMAIN Children[a])
      BY <2>2, <2>3
    <3>2. IsFiniteSet(Open(a) \ {n}) /\ Cardinality(Owed(a)') \in Nat
      BY <1>2, <3>1, SomeChildren
    <3>. QED  BY <2>3, <3>2, FS_Subset
  <2>6. pending[a] = Cardinality(Open(a))
    BY <1>2, <1>3, <1>7 DEF ArraySound, Counted
  <2>. QED  BY <2>4, <2>5, <2>6
<1>13. Counted(a)'
  <2>1. pending[a] >= 0
    BY <1>2 DEF ArraySound, Counted
  <2>. QED  BY <1>6, <1>12, <1>e, <2>1 DEF Counted
<1>14. PassedListed(a)'
  BY <1>6 DEF PassedListed
<1>15. SignaledDone(a)'
  BY <1>1, <1>2, <1>e DEF ArraySound, SignaledDone, Told
<1>16. \A d \in Clients : CallOn(d, a)' => CallJoin(d)'
  <2>1. CallJoin(c)'
    BY <1>3, <1>4, <1>e DEF CallJoin
  <2>. QED  BY <1>2, <1>4, <2>1 DEF CallOn, InArray
<1>17. ArraySound(a)'
  BY <1>10, <1>11, <1>13, <1>14, <1>15, <1>16 DEF ArraySound
<1>18. ASSUME NEW b \in Arrays, b # a PROVE ArraySound(b)'
  <2>1. ~CallOn(c, b) /\ ~CallOn(c, b)'
    BY <1>4, <1>18, <1>a DEF CallOn
  <2>2. \A d \in Clients : b \in Told(d)' <=> b \in Told(d)
    BY <1>1 DEF Told
  <2>. QED  BY <1>1, <1>4, <1>9, <1>e, <2>1, <2>2, OtherArray DEF Joins
<1>19. NoReset'
  <2>1. \A d \in Clients : ~InReset(d)'
    BY <1>4 DEF Joins, NoReset, InReset
  <2>. QED  BY <1>e, <2>1 DEF Joins, NoReset
<1>20. ParentsPacked'
  <2>1. \A d \in Clients : InArray(d)' => InArray(d) /\ obj'[d] = obj[d]
    BY <1>1, <1>4, <1>a DEF InArray
  <2>. QED  BY <1>e, <2>1 DEF Joins, ParentsPacked
<1>. QED  BY <1>5, <1>17, <1>18, <1>19, <1>20 DEF Joins

\* A call for an array has seen all its children.
LEMMA JoinsArrayDone ==
  ASSUME CallInv, CallInv', Joins, NEW c \in Clients, ArrayDone(c)
  PROVE  Joins'
<1>a. PICK a, n : a = obj[c] /\ n = idx[c]
  OBVIOUS
<1>0. Fields
  BY FieldTypes
<1>1. /\ pc[c] = "child" /\ InArray(c) /\ ~(n <= Len(Children[a])) /\ Children[a] # << >>
      /\ pc' = [pc EXCEPT ![c] = "idle"] /\ obj' = [obj EXCEPT ![c] = INVALID]
      /\ idx' = [idx EXCEPT ![c] = 0] /\ signalJoin' = [signalJoin EXCEPT ![c] = FALSE]
      /\ UNCHANGED <<valid, flags, parents, parentsCnt, pending, asked, todo, ctl>>
      /\ \/ /\ signalJoin[c] /\ join' = [join EXCEPT ![a] = "signaled"] /\ waitMask' = [waitMask EXCEPT ![a] = {}]
            /\ rxq' = [rxq EXCEPT ![c] = rxq[c] \cup {[fence |-> a, data |-> NoData, error |-> arg[c]]}]
         \/ ~signalJoin[c] /\ UNCHANGED <<rxq, join, waitMask>>
  BY <1>a DEF ArrayDone, AtChild, InArray, Return, Goto, Signal, DestroyJoin
<1>2. /\ a \in Arrays /\ a \in Objects /\ n \in Nat /\ ArraySound(a) /\ CallJoin(c)
      /\ \A d \in Clients \ {c} : ~InArray(d)
      /\ n \in 1 .. Len(Children[a]) + 1
  BY <1>1, <1>a, CallStart
<1>4. /\ pc'[c] = "idle" /\ ~InArray(c)'
      /\ \A d \in Clients \ {c} : pc'[d] = pc[d] /\ obj'[d] = obj[d] /\ idx'[d] = idx[d]
                                    /\ signalJoin'[d] = signalJoin[d] /\ ~InArray(d)'
  BY <1>0, <1>1, <1>2, <1>a DEF InArray, Fields
<1>5. OneArray /\ OneArray' /\ \A d \in Clients : ~CallOn(d, a)'
  BY <1>4 DEF Joins, OneArray, CallOn
<1>6. (\A i : Passed(a, i)' /\ Seen(a, i)') /\ ~Failing(a)'
  BY <1>5, NoCallNext
<1>8. /\ Len(Children[a]) \in Nat /\ DOMAIN Children[a] = 1 .. Len(Children[a])
  BY <1>2, ChildrenType
<1>7. /\ \A i \in DOMAIN Children[a] : Passed(a, i)
      /\ ~Failing(a)
      /\ \A d \in Clients : CallOn(d, a) <=> d = c
  <2>1. /\ \A i : Passed(a, i) <=> n > i
        /\ ~Failing(a)
        /\ \A d \in Clients : CallOn(d, a) <=> d = c
    BY <1>1, <1>5, <1>a, OnlyCall
  <2>. QED  BY <1>1, <1>2, <1>8, <2>1
<1>9. \A f, b : Listed(f, b)' <=> Listed(f, b)
  BY <1>1 DEF Listed
<1>10. Open(a)' = Open(a)
  <2>1. \A i \in DOMAIN Children[a] : Uncounted(a, i)' <=> Uncounted(a, i)
    BY <1>1, <1>6, <1>7 DEF Uncounted, Counting, IsHwFence
  <2>. QED  BY <2>1 DEF Open
<1>11. ArraySound(a)'
  <2>1. CASE signalJoin[c]
    <3>1. join[a] = "live" /\ pending[a] = 0 /\ join'[a] = "signaled"
      BY <1>0, <1>1, <1>2, <1>a, <2>1 DEF CallJoin, Fields
    <3>2. Open(a) = {}
      <4>1. Open(a) \in SUBSET (DOMAIN Children[a]) /\ Cardinality(Open(a)) = 0
        BY <1>2, <1>7, <3>1 DEF Open, ArraySound, Counted
      <4>. QED  BY <1>2, <4>1, SomeChildren, FS_EmptySet
    <3>3. \A i \in DOMAIN Children[a] :
            Children[a][i] \in Fences /\ flags[Children[a][i]] /\ ~Counting(Children[a][i], a)
      BY <3>2 DEF Open, Uncounted, IsHwFence
    <3>4. ListedSeen(a)'
      BY <1>2, <1>6, <1>9, <3>1 DEF ArraySound, ListedSeen
    <3>5. CtlCounts(a)'
      <4>1. a \in ctl.joins => ctl.fence \in Fences
        BY DEF CallInv, Locals, CtlOK
      <4>2. a \notin ctl.joins
        BY <1>2, <3>3, <4>1 DEF ArraySound, CtlCounts, ListedSeen, Counting
      <4>. QED  BY <1>1, <4>2 DEF CtlCounts
    <3>6. Counted(a)' /\ PassedListed(a)'
      BY <1>1, <3>1, <3>3 DEF Counted, PassedListed
    <3>7. SignaledDone(a)'
      BY <1>1, <3>1, <3>3 DEF SignaledDone
    <3>. QED  BY <1>5, <3>4, <3>5, <3>6, <3>7 DEF ArraySound
  <2>2. CASE ~signalJoin[c]
    <3>1. UNCHANGED <<rxq, join, waitMask>>
      BY <1>1, <2>2
    <3>2. ListedSeen(a)' /\ CtlCounts(a)'
      BY <1>1, <1>2, <1>6, <1>9, <3>1 DEF ArraySound, ListedSeen, CtlCounts
    <3>3. Counted(a)'
      <4>1. ~(join[a] = "live" /\ pending[a] = 0)
        <5>1. ASSUME join[a] = "live", pending[a] = 0 PROVE FALSE
          <6>1. PICK d \in Clients : pc[d] = "child" /\ obj[d] = a /\ (signalJoin[d] \/ Children[a] = << >>)
            BY <1>2, <1>7, <5>1 DEF ArraySound, Counted
          <6>2. d = c
            BY <1>7, <6>1 DEF CallOn, InArray
          <6>. QED  BY <1>1, <2>2, <6>1, <6>2
        <5>. QED  BY <5>1
      <4>2. Counted(a)
        BY <1>2 DEF ArraySound
      <4>. QED  BY <1>1, <1>6, <1>7, <1>10, <3>1, <4>1, <4>2 DEF Counted
    <3>4. PassedListed(a)'
      BY <1>1, <1>2, <1>7, <1>9, <3>1 DEF ArraySound, PassedListed
    <3>5. SignaledDone(a)'
      BY <1>1, <1>2, <3>1 DEF ArraySound, SignaledDone, Told
    <3>. QED  BY <1>5, <3>2, <3>3, <3>4, <3>5 DEF ArraySound
  <2>. QED  BY <2>1, <2>2
<1>18. ASSUME NEW b \in Arrays, b # a PROVE ArraySound(b)'
  <2>1. ~CallOn(c, b) /\ ~CallOn(c, b)'
    BY <1>4, <1>18, <1>a DEF CallOn
  <2>2. join'[b] = join[b] /\ waitMask'[b] = waitMask[b]
    BY <1>0, <1>1, <1>2, <1>18 DEF Fields, Objects
  <2>3. \A d \in Clients : b \in Told(d)' <=> b \in Told(d)
    <3>1. CASE UNCHANGED rxq
      BY <3>1 DEF Told
    <3>2. CASE signalJoin[c]
      <4>1. PICK m : m = [fence |-> a, data |-> NoData, error |-> arg[c]]
        OBVIOUS
      <4>2. m.fence # b /\ rxq' = [rxq EXCEPT ![c] = rxq[c] \cup {m}]
        BY <1>1, <1>18, <3>2, <4>1
      <4>. QED  BY <1>0, <4>2, ToldOther DEF Fields
    <3>. QED  BY <1>1, <3>1, <3>2
  <2>. QED  BY <1>1, <1>4, <1>9, <2>1, <2>2, <2>3, OtherArray DEF Joins
<1>19. NoReset'
  <2>1. \A d \in Clients : ~InReset(d)'
    BY <1>4 DEF Joins, NoReset, InReset
  <2>. QED  BY <1>1, <2>1 DEF Joins, NoReset
<1>20. ParentsPacked'
  <2>1. \A d \in Clients : ~InArray(d)'
    BY <1>4
  <2>. QED  BY <1>1, <2>1 DEF Joins, ParentsPacked
<1>. QED  BY <1>5, <1>11, <1>18, <1>19, <1>20 DEF Joins

\* What a failed call does to the parent list of a child: its join fence is the last one.
LEMMA UndoParents ==
  ASSUME CallInv, Joins, NEW c \in Clients, Undo(c), NEW a, a = obj[c], NEW x, x = Child(c), x \in Fences
  PROVE  /\ ctl.fence # x
         /\ \A g \in Fences : g # x => parents'[g] = parents[g] /\ parentsCnt'[g] = parentsCnt[g]
         /\ \A j \in 1 .. MAX_PARENTS :
              parents'[x][j] = IF parents[x][j] = a THEN INVALID ELSE parents[x][j]
         /\ parentsCnt'[x] = IF Listed(x, a) THEN parentsCnt[x] - 1 ELSE parentsCnt[x]
         /\ Listed(x, a) => parentsCnt[x] \in 1 .. MAX_PARENTS /\ parents[x][parentsCnt[x]] = a
<1>. DEFINE mine == {j \in 1 .. parentsCnt[x] : parents[x][j] = a}
<1>0. Fields /\ InArray(c) /\ a \in Arrays
  BY FieldTypes, CallStart DEF Undo, InArray
<1>1. /\ ctl.fence # x
      /\ parents' = [parents EXCEPT ![x] =
           [j \in 1 .. MAX_PARENTS |-> IF j \in mine THEN INVALID ELSE parents[x][j]]]
      /\ parentsCnt' = [parentsCnt EXCEPT ![x] = parentsCnt[x] - Cardinality(mine)]
  BY DEF Undo, IsHwFence, Joins, NoReset, Unlocked
<1>2. \A j \in 1 .. MAX_PARENTS : j \in mine <=> parents[x][j] = a
  <2>. SUFFICES ASSUME NEW j \in 1 .. MAX_PARENTS, parents[x][j] = a PROVE j \in mine
    OBVIOUS
  <2>1. a # INVALID
    BY <1>0 DEF Fields
  <2>2. j <= parentsCnt[x]
    BY <2>1 DEF Joins, ParentsPacked
  <2>. QED  BY <1>0, <2>2 DEF Fields
<1>3. mine \subseteq 1 .. MAX_PARENTS /\ \A j \in mine : j = parentsCnt[x]
  <2>1. parentsCnt[x] \in 0 .. MAX_PARENTS /\ MAX_PARENTS \in Nat
    BY <1>0 DEF Fields
  <2>2. mine \subseteq 1 .. MAX_PARENTS
    BY <2>1
  <2>. QED  BY <1>0, <2>2 DEF Joins, ParentsPacked
<1>4. Cardinality(mine) = IF Listed(x, a) THEN 1 ELSE 0
  <2>1. CASE Listed(x, a)
    <3>1. mine = {parentsCnt[x]}
      <4>1. PICK j \in 1 .. MAX_PARENTS : parents[x][j] = a
        BY <2>1 DEF Listed
      <4>2. j \in mine
        BY <1>2, <4>1
      <4>. HIDE DEF mine
      <4>. QED  BY <1>3, <4>2
    <3>. HIDE DEF mine
    <3>. QED  BY <2>1, <3>1, FS_Singleton
  <2>2. CASE ~Listed(x, a)
    <3>1. mine = {}
      <4>1. \A j \in 1 .. MAX_PARENTS : parents[x][j] # a
        BY <2>2 DEF Listed
      <4>. HIDE DEF mine
      <4>. QED  BY <1>2, <1>3, <4>1
    <3>. HIDE DEF mine
    <3>. QED  BY <2>2, <3>1, FS_EmptySet
  <2>. QED  BY <2>1, <2>2
<1>5. Listed(x, a) => parentsCnt[x] \in 1 .. MAX_PARENTS /\ parents[x][parentsCnt[x]] = a
  BY <1>0 DEF Listed, Joins, ParentsPacked
<1>6. parentsCnt[x] \in Nat
  BY <1>0 DEF Fields
<1>. HIDE DEF mine
<1>7. parentsCnt'[x] = IF Listed(x, a) THEN parentsCnt[x] - 1 ELSE parentsCnt[x]
  BY <1>0, <1>1, <1>4, <1>6 DEF Fields
<1>8. \A g \in Fences : g # x => parents'[g] = parents[g] /\ parentsCnt'[g] = parentsCnt[g]
  BY <1>0, <1>1 DEF Fields
<1>9. \A j \in 1 .. MAX_PARENTS : parents'[x][j] = IF parents[x][j] = a THEN INVALID ELSE parents[x][j]
  <2>1. parents'[x] = [j \in 1 .. MAX_PARENTS |-> IF j \in mine THEN INVALID ELSE parents[x][j]]
    BY <1>0, <1>1 DEF Fields
  <2>. QED  BY <1>2, <2>1
<1>. QED  BY <1>1, <1>5, <1>7, <1>8, <1>9

\* A failed call takes its join fence out of the list of one child.
LEMMA JoinsUndo ==
  ASSUME CallInv, CallInv', Joins, NEW c \in Clients, Undo(c)
  PROVE  Joins'
<1>a. PICK a, n, x : a = obj[c] /\ n = idx[c] /\ x = Child(c)
  OBVIOUS
<1>0. Fields
  BY FieldTypes
<1>1. /\ pc[c] = "undo" /\ InArray(c) /\ n > 0 /\ x = Children[a][n]
      /\ idx' = [idx EXCEPT ![c] = n - 1]
      /\ UNCHANGED <<valid, flags, waitMask, clientData, join, pending,
                     pc, obj, arg, signalJoin, rxq, asked, waited, todo, ctl>>
      /\ x \notin Fences => UNCHANGED <<parents, parentsCnt>>
  BY <1>a DEF Undo, InArray, Child, IsHwFence
<1>2. /\ a \in Arrays /\ a \in Objects /\ n \in Nat /\ ArraySound(a) /\ CallJoin(c)
      /\ \A d \in Clients \ {c} : ~InArray(d)
      /\ n \in 0 .. Len(Children[a])
  BY <1>1, <1>a, CallStart
<1>3. join[a] = "live" /\ c \in waitMask[a]
  BY <1>1, <1>2, <1>a DEF CallJoin
<1>4. /\ pc'[c] = "undo" /\ obj'[c] = a /\ InArray(c)' /\ idx'[c] = n - 1
      /\ \A d \in Clients \ {c} : pc'[d] = pc[d] /\ obj'[d] = obj[d] /\ idx'[d] = idx[d]
                                    /\ signalJoin'[d] = signalJoin[d]
  BY <1>0, <1>1, <1>2, <1>a DEF InArray, Fields
<1>5. OneArray /\ OneArray'
  BY <1>2, <1>4 DEF Joins, OneArray, InArray
<1>6. (\A i : Seen(a, i)' <=> i <= n - 1) /\ Failing(a)'
  BY <1>4, <1>5, OnlyCallNext
<1>7. (\A i : Seen(a, i) <=> i <= n) /\ Failing(a)
  BY <1>1, <1>5, <1>a, OnlyCall
<1>8. Len(Children[a]) \in Nat /\ DOMAIN Children[a] = 1 .. Len(Children[a])
  BY <1>2, ChildrenType
<1>9. /\ x \in Fences => ~Listed(x, a)'
      /\ \A b \in Arrays, g \in Fences : b # a \/ g # x => (Listed(g, b)' <=> Listed(g, b))
  <2>1. ASSUME x \in Fences PROVE ~Listed(x, a)'
    <3>1. \A j \in 1 .. MAX_PARENTS : parents'[x][j] # a
      <4>1. \A j \in 1 .. MAX_PARENTS : parents'[x][j] = IF parents[x][j] = a THEN INVALID ELSE parents[x][j]
        BY <1>a, <2>1, UndoParents
      <4>2. a # INVALID
        BY <1>0, <1>2 DEF Fields
      <4>. QED  BY <4>1, <4>2
    <3>. QED  BY <3>1 DEF Listed
  <2>2. ASSUME NEW b \in Arrays, NEW g \in Fences, b # a \/ g # x PROVE Listed(g, b)' <=> Listed(g, b)
    <3>1. CASE x \notin Fences
      BY <1>1, <3>1 DEF Listed
    <3>2. CASE x \in Fences /\ g # x
      <4>1. parents'[g] = parents[g]
        BY <1>a, <3>2, UndoParents
      <4>. QED  BY <4>1 DEF Listed
    <3>3. CASE x \in Fences /\ g = x /\ b # a
      <4>1. \A j \in 1 .. MAX_PARENTS : parents'[g][j] = b <=> parents[g][j] = b
        BY <1>0, <1>a, <3>3, UndoParents DEF Fields
      <4>. QED  BY <4>1 DEF Listed
    <3>. QED  BY <2>2, <3>1, <3>2, <3>3
  <2>. QED  BY <2>1, <2>2
<1>10. ListedSeen(a)'
  <2>. SUFFICES ASSUME NEW g \in Fences, Listed(g, a)'
                PROVE  \E i \in DOMAIN Children[a] : Children[a][i] = g /\ Seen(a, i)'
    BY <1>1, <1>3 DEF ListedSeen
  <2>1. g # x /\ Listed(g, a)
    BY <1>2, <1>9
  <2>2. PICK i \in DOMAIN Children[a] : Children[a][i] = g /\ Seen(a, i)
    BY <1>2, <2>1 DEF ArraySound, ListedSeen
  <2>3. i <= n - 1
    BY <1>1, <1>2, <1>7, <1>8, <2>1, <2>2
  <2>. QED  BY <1>6, <2>2, <2>3
<1>11. CtlCounts(a)'
  <2>1. a \in ctl.joins => ctl.fence \in Fences
    BY DEF CallInv, Locals, CtlOK
  <2>2. x \in Fences => ctl.fence # x
    BY <1>a, UndoParents
  <2>. QED  BY <1>1, <1>2, <1>9, <2>1, <2>2 DEF ArraySound, CtlCounts
<1>12. Counted(a)'
  <2>1. Owed(a)' \subseteq Owed(a)
    <3>1. \A g \in Fences : Listed(g, a)' => Listed(g, a)
      BY <1>2, <1>9
    <3>2. \A i \in DOMAIN Children[a] : Due(a, i)' => Due(a, i)
      BY <1>1, <3>1 DEF Due, Counting
    <3>. QED  BY <3>2 DEF Owed
  <2>2. /\ Owed(a) \in SUBSET (DOMAIN Children[a]) /\ Owed(a)' \in SUBSET (DOMAIN Children[a])
    BY <2>1 DEF Owed
  <2>3. /\ IsFiniteSet(Owed(a)) /\ Cardinality(Owed(a)) \in Nat /\ Cardinality(Owed(a)') \in Nat
    BY <1>2, <2>2, SomeChildren
  <2>4. Cardinality(Owed(a)') <= Cardinality(Owed(a))
    BY <2>1, <2>3, FS_Subset
  <2>5. pending[a] \in Int /\ pending'[a] = pending[a] /\ Counted(a)
    BY <1>0, <1>1, <1>2 DEF Fields, ArraySound
  <2>. QED  BY <1>1, <1>3, <1>6, <1>7, <2>3, <2>4, <2>5 DEF Counted
<1>14. PassedListed(a)'
  BY <1>6 DEF PassedListed
<1>15. SignaledDone(a)'
  BY <1>1, <1>2 DEF ArraySound, SignaledDone, Told
<1>16. \A d \in Clients : CallOn(d, a)' => CallJoin(d)'
  <2>1. CallJoin(c)'
    BY <1>1, <1>3, <1>4 DEF CallJoin
  <2>. QED  BY <1>2, <1>4, <2>1 DEF CallOn, InArray
<1>17. ArraySound(a)'
  BY <1>10, <1>11, <1>12, <1>14, <1>15, <1>16 DEF ArraySound
<1>18. ASSUME NEW b \in Arrays, b # a PROVE ArraySound(b)'
  <2>1. ~CallOn(c, b) /\ ~CallOn(c, b)'
    BY <1>4, <1>18, <1>a DEF CallOn
  <2>2. \A d \in Clients : b \in Told(d)' <=> b \in Told(d)
    BY <1>1 DEF Told
  <2>. QED  BY <1>1, <1>4, <1>9, <1>18, <2>1, <2>2, OtherArray DEF Joins
<1>19. NoReset'
  BY <1>1 DEF Joins, NoReset, InReset
<1>20. ParentsPacked'
  <2>0. ParentsPacked
    BY DEF Joins
  <2>1. CASE x \notin Fences
    BY <1>1, <2>0, <2>1 DEF ParentsPacked, InArray
  <2>2. CASE x \in Fences
    <3>1. ASSUME NEW g \in Fences, g # x
          PROVE  /\ \A j \in 1 .. MAX_PARENTS : parents'[g][j] # INVALID <=> j <= parentsCnt'[g]
                 /\ \A j, m \in 1 .. MAX_PARENTS : parents'[g][j] # INVALID /\ parents'[g][j] = parents'[g][m] => j = m
                 /\ \A d \in Clients, j \in 1 .. MAX_PARENTS :
                      InArray(d)' /\ parents'[g][j] = obj'[d] => j = parentsCnt'[g]
      <4>1. parents'[g] = parents[g] /\ parentsCnt'[g] = parentsCnt[g]
        BY <1>a, <2>2, <3>1, UndoParents
      <4>. QED  BY <1>1, <2>0, <4>1 DEF ParentsPacked, InArray
    <3>2. /\ \A j \in 1 .. MAX_PARENTS : parents[x][j] # INVALID <=> j <= parentsCnt[x]
          /\ \A j \in 1 .. MAX_PARENTS : parents[x][j] = a => j = parentsCnt[x]
          /\ \A j, m \in 1 .. MAX_PARENTS : parents[x][j] # INVALID /\ parents[x][j] = parents[x][m] => j = m
      BY <1>1, <1>a, <2>0, <2>2 DEF ParentsPacked
    <3>3. /\ \A j \in 1 .. MAX_PARENTS :
               parents'[x][j] = IF parents[x][j] = a THEN INVALID ELSE parents[x][j]
          /\ parentsCnt'[x] = IF Listed(x, a) THEN parentsCnt[x] - 1 ELSE parentsCnt[x]
          /\ Listed(x, a) => parentsCnt[x] \in 1 .. MAX_PARENTS /\ parents[x][parentsCnt[x]] = a
      BY <1>a, <2>2, UndoParents
    <3>4. a # INVALID /\ parentsCnt[x] \in Nat /\ MAX_PARENTS \in Nat
      BY <1>0, <1>2, <2>2 DEF Fields
    <3>5. \A j \in 1 .. MAX_PARENTS : parents'[x][j] # INVALID <=> j <= parentsCnt'[x]
      <4>1. CASE Listed(x, a)
        <5>1. ASSUME NEW j \in 1 .. MAX_PARENTS PROVE parents[x][j] = a <=> j = parentsCnt[x]
          BY <3>2, <3>3, <4>1
        <5>. QED  BY <3>2, <3>3, <3>4, <4>1, <5>1
      <4>2. CASE ~Listed(x, a)
        <5>1. \A j \in 1 .. MAX_PARENTS : parents[x][j] # a
          BY <4>2 DEF Listed
        <5>. QED  BY <3>2, <3>3, <4>2, <5>1
      <4>. QED  BY <4>1, <4>2
    <3>6. \A j, m \in 1 .. MAX_PARENTS : parents'[x][j] # INVALID /\ parents'[x][j] = parents'[x][m] => j = m
      BY <3>2, <3>3
    <3>7. \A d \in Clients, j \in 1 .. MAX_PARENTS : InArray(d)' /\ parents'[x][j] = obj'[d] => j = parentsCnt'[x]
      BY <1>1, <1>2, <1>a, <3>3, <3>4 DEF InArray
    <3>. QED  BY <3>1, <3>5, <3>6, <3>7 DEF ParentsPacked
  <2>. QED  BY <2>1, <2>2
<1>. QED  BY <1>5, <1>17, <1>18, <1>19, <1>20 DEF Joins

\* A failed call ends.
LEMMA JoinsUndone ==
  ASSUME CallInv, CallInv', Joins, NEW c \in Clients, Undone(c)
  PROVE  Joins'
<1>a. PICK a : a = obj[c]
  OBVIOUS
<1>0. Fields
  BY FieldTypes
<1>1. /\ pc[c] = "undo" /\ InArray(c) /\ idx[c] = 0
      /\ join' = [join EXCEPT ![a] = "undone"] /\ waitMask' = [waitMask EXCEPT ![a] = {}]
      /\ pc' = [pc EXCEPT ![c] = "idle"] /\ obj' = [obj EXCEPT ![c] = INVALID]
      /\ idx' = [idx EXCEPT ![c] = 0] /\ signalJoin' = [signalJoin EXCEPT ![c] = FALSE]
      /\ UNCHANGED <<valid, flags, parents, parentsCnt, pending, rxq, ctl>>
  BY <1>a DEF Undone, InArray, DestroyJoin, Return, Goto
<1>2. /\ a \in Arrays /\ a \in Objects /\ ArraySound(a) /\ CallJoin(c)
      /\ \A d \in Clients \ {c} : ~InArray(d)
  BY <1>1, <1>a, CallStart
<1>3. join[a] = "live" /\ join'[a] = "undone"
  BY <1>0, <1>1, <1>2, <1>a DEF CallJoin, Fields
<1>4. /\ pc'[c] = "idle" /\ ~InArray(c)'
      /\ \A d \in Clients \ {c} : pc'[d] = pc[d] /\ obj'[d] = obj[d] /\ idx'[d] = idx[d]
                                    /\ signalJoin'[d] = signalJoin[d] /\ ~InArray(d)'
  BY <1>0, <1>1, <1>2, <1>a DEF InArray, Fields
<1>5. OneArray /\ OneArray' /\ \A d \in Clients : ~CallOn(d, a)'
  BY <1>4 DEF Joins, OneArray, CallOn
<1>6. \A f \in Fences : ~Listed(f, a)
  <2>1. \A i : Seen(a, i) <=> i <= 0
    BY <1>1, <1>5, <1>a, OnlyCall
  <2>2. Len(Children[a]) \in Nat /\ DOMAIN Children[a] = 1 .. Len(Children[a])
    BY <1>2, ChildrenType
  <2>3. \A i \in DOMAIN Children[a] : ~Seen(a, i)
    BY <2>1, <2>2
  <2>. QED  BY <1>2, <2>3 DEF ArraySound, ListedSeen
<1>7. \A f, b : Listed(f, b)' <=> Listed(f, b)
  BY <1>1 DEF Listed
<1>8. ListedSeen(a)' /\ CtlCounts(a)'
  <2>1. a \in ctl.joins => ctl.fence \in Fences
    BY DEF CallInv, Locals, CtlOK
  <2>2. a \notin ctl.joins
    BY <1>2, <1>6, <2>1 DEF ArraySound, CtlCounts
  <2>. QED  BY <1>1, <1>6, <1>7, <2>2 DEF ListedSeen, CtlCounts
<1>9. Counted(a)' /\ PassedListed(a)'
  BY <1>1, <1>2, <1>3 DEF ArraySound, Counted, PassedListed
<1>10. SignaledDone(a)'
  BY <1>1, <1>2, <1>3 DEF ArraySound, SignaledDone, Told
<1>11. ArraySound(a)'
  BY <1>5, <1>8, <1>9, <1>10 DEF ArraySound
<1>18. ASSUME NEW b \in Arrays, b # a PROVE ArraySound(b)'
  <2>1. ~CallOn(c, b) /\ ~CallOn(c, b)'
    BY <1>4, <1>18, <1>a DEF CallOn
  <2>2. join'[b] = join[b] /\ waitMask'[b] = waitMask[b]
    BY <1>0, <1>1, <1>2, <1>18 DEF Fields, Objects
  <2>3. \A d \in Clients : b \in Told(d)' <=> b \in Told(d)
    BY <1>1 DEF Told
  <2>. QED  BY <1>1, <1>4, <1>7, <2>1, <2>2, <2>3, OtherArray DEF Joins
<1>19. NoReset'
  <2>1. \A d \in Clients : ~InReset(d)'
    BY <1>4 DEF Joins, NoReset, InReset
  <2>. QED  BY <1>1, <2>1 DEF Joins, NoReset
<1>20. ParentsPacked'
  <2>1. \A d \in Clients : ~InArray(d)'
    BY <1>4
  <2>. QED  BY <1>1, <2>1 DEF Joins, ParentsPacked
<1>. QED  BY <1>5, <1>11, <1>18, <1>19, <1>20 DEF Joins

\* FenceCTL marks a fence as signaled and finds its parents.
LEMMA JoinsCtlSignal ==
  ASSUME CallInv, CallInv', Joins, NEW f \in Fences, CtlSignal(f)
  PROVE  Joins'
<1>0. Fields
  BY FieldTypes
<1>1. /\ ctl.joins = {} /\ ~flags[f] /\ flags' = [flags EXCEPT ![f] = TRUE]
      /\ ctl'.fence = f /\ ctl'.joins = {parents[f][j] : j \in 1 .. MAX_PARENTS} \ {INVALID}
      /\ UNCHANGED <<valid, waitMask, parents, parentsCnt, join, pending, calls, rxq>>
  BY DEF CtlSignal, Idle
<1>2. /\ UNCHANGED <<pc, obj, idx, signalJoin>>
      /\ flags'[f] /\ \A g \in Fences : flags[g] => flags'[g]
      /\ \A g \in Fences : g # f => flags'[g] = flags[g]
  BY <1>0, <1>1 DEF calls, Fields
<1>3. \A g, b : Listed(g, b)' <=> Listed(g, b)
  BY <1>1 DEF Listed
<1>4. \A a \in Arrays : a \in ctl'.joins <=> Listed(f, a)
  BY <1>0, <1>1 DEF Listed, Fields
<1>5. ASSUME NEW a \in Arrays PROVE ArraySound(a)'
  <2>0. ArraySound(a)
    BY DEF Joins
  <2>1. /\ \A i : Passed(a, i)' <=> Passed(a, i)
        /\ \A i : Seen(a, i)' <=> Seen(a, i)
        /\ Failing(a)' <=> Failing(a)
        /\ \A c \in Clients : CallOn(c, a)' <=> CallOn(c, a)
    BY <1>2 DEF Passed, Seen, Failing, CallOn, InArray
  <2>2. ListedSeen(a)'
    BY <1>1, <1>3, <2>0, <2>1 DEF ArraySound, ListedSeen
  <2>3. CtlCounts(a)'
    <3>. SUFFICES ASSUME a \in ctl'.joins PROVE flags'[f] /\ Listed(f, a)' /\ join'[a] = "live"
      BY <1>1 DEF CtlCounts
    <3>1. Listed(f, a)
      BY <1>4
    <3>2. join[a] \in {"live", "signaled"} /\ \E i \in DOMAIN Children[a] : Children[a][i] = f
      BY <2>0, <3>1 DEF ArraySound, ListedSeen
    <3>3. join[a] = "live"
      BY <1>1, <2>0, <3>2 DEF ArraySound, SignaledDone
    <3>. QED  BY <1>1, <1>2, <1>3, <3>1, <3>3
  <2>4. \A g : ~Counting(g, a) /\ (Counting(g, a)' <=> g = f /\ Listed(f, a))
    BY <1>1, <1>4 DEF Counting
  <2>5. ASSUME join[a] = "live", ~Failing(a) PROVE Open(a)' = Open(a)
    <3>1. ASSUME NEW i \in DOMAIN Children[a] PROVE Uncounted(a, i)' <=> Uncounted(a, i)
      <4>1. CASE Children[a][i] = f
        <5>1. Passed(a, i) => Listed(f, a)
          BY <1>1, <2>0, <2>5, <4>1 DEF ArraySound, PassedListed
        <5>. QED  BY <1>1, <2>1, <2>4, <4>1, <5>1 DEF Uncounted
      <4>2. CASE Children[a][i] # f
        <5>1. IsHwFence(Children[a][i])' <=> IsHwFence(Children[a][i])
          BY <1>1 DEF IsHwFence
        <5>2. IsHwFence(Children[a][i]) => flags'[Children[a][i]] = flags[Children[a][i]]
          BY <1>2, <4>2 DEF IsHwFence
        <5>. QED  BY <2>1, <2>4, <4>2, <5>1, <5>2 DEF Uncounted
      <4>. QED  BY <4>1, <4>2
    <3>. QED  BY <3>1 DEF Open
  <2>6. Owed(a)' = Owed(a)
    <3>1. ASSUME NEW i \in DOMAIN Children[a] PROVE Due(a, i)' <=> Due(a, i)
      BY <1>1, <1>2, <1>3, <2>4 DEF Due
    <3>. QED  BY <3>1 DEF Owed
  <2>7. Counted(a)'
    <3>1. \A c \in Clients : pc'[c] = pc[c] /\ obj'[c] = obj[c] /\ signalJoin'[c] = signalJoin[c]
      BY <1>2
    <3>2. Counted(a)
      BY <2>0 DEF ArraySound
    <3>3. pending'[a] = pending[a] /\ join'[a] = join[a]
      BY <1>1
    <3>. QED  BY <2>1, <2>5, <2>6, <3>1, <3>2, <3>3 DEF Counted
  <2>8. PassedListed(a)'
    BY <1>1, <1>2, <1>3, <2>0, <2>1 DEF ArraySound, PassedListed
  <2>9. SignaledDone(a)'
    BY <1>1, <1>2, <2>0 DEF ArraySound, SignaledDone, Told
  <2>10. \A c \in Clients : CallOn(c, a)' => CallJoin(c)'
    BY <1>1, <1>2, <2>0, <2>1 DEF ArraySound, CallJoin, AtChild, Told
  <2>. QED  BY <2>2, <2>3, <2>7, <2>8, <2>9, <2>10 DEF ArraySound
<1>6. NoReset' /\ OneArray' /\ ParentsPacked'
  BY <1>1, <1>2 DEF Joins, NoReset, OneArray, ParentsPacked, InReset, InArray
<1>. QED  BY <1>5, <1>6 DEF Joins

\* FenceCTL counts down a join fence.
LEMMA JoinsCtlJoin ==
  ASSUME CallInv, CallInv', Joins, NEW a \in Arrays, CtlJoin(a)
  PROVE  Joins'
<1>0. Fields /\ a \in Objects
  BY FieldTypes DEF Objects
<1>f. PICK f : f = ctl.fence
  OBVIOUS
<1>1. /\ a \in ctl.joins /\ ctl'.fence = f /\ ctl'.joins = ctl.joins \ {a}
      /\ pending' = [pending EXCEPT ![a] = pending[a] - 1]
      /\ UNCHANGED <<valid, flags, parents, parentsCnt>>
      /\ UNCHANGED <<pc, obj, idx, signalJoin>>
      /\ \/ /\ pending[a] = 1 /\ join' = [join EXCEPT ![a] = "signaled"] /\ waitMask' = [waitMask EXCEPT ![a] = {}]
            /\ rxq' = [c \in Clients |-> rxq[c] \cup
                 {[fence |-> a, data |-> DataOf(a, d), error |-> NoData] : d \in waitMask[a] \cap {c}}]
         \/ pending[a] # 1 /\ UNCHANGED <<rxq, join, waitMask>>
  BY <1>0, <1>f DEF CtlJoin, DestroyJoin, calls, Fields
<1>2. ArraySound(a) /\ f \in Fences /\ flags[f] /\ Listed(f, a) /\ join[a] = "live"
  BY <1>1, <1>f DEF Joins, ArraySound, CtlCounts, CallInv, Locals, CtlOK
<1>3. PICK i0 \in DOMAIN Children[a] : Children[a][i0] = f /\ Seen(a, i0)
  BY <1>2 DEF ArraySound, ListedSeen
<1>4. \A g, b : Listed(g, b)' <=> Listed(g, b)
  BY <1>1 DEF Listed
<1>5. /\ \A b, i : Passed(b, i)' <=> Passed(b, i)
      /\ \A b, i : Seen(b, i)' <=> Seen(b, i)
      /\ \A b : Failing(b)' <=> Failing(b)
      /\ \A c \in Clients : \A b : CallOn(c, b)' <=> CallOn(c, b)
  BY <1>1 DEF Passed, Seen, Failing, CallOn, InArray
<1>6. /\ \A g : Counting(g, a) <=> g = f
      /\ \A g : ~Counting(g, a)'
  BY <1>1, <1>f DEF Counting
<1>7. /\ Len(Children[a]) \in Nat /\ DOMAIN Children[a] = 1 .. Len(Children[a])
      /\ Children[a] = << >> => DOMAIN Children[a] = {}
      /\ \A i, j \in DOMAIN Children[a] : Children[a][i] = Children[a][j] => i = j
  BY ChildrenType
<1>8. pending[a] \in Int /\ pending'[a] = pending[a] - 1
  BY <1>0, <1>1 DEF Fields
<1>9. ListedSeen(a)'
  <2>1. join'[a] \in {"live", "signaled"}
    BY <1>0, <1>1, <1>2 DEF Fields
  <2>. QED  BY <1>2, <1>4, <1>5, <2>1 DEF ArraySound, ListedSeen
<1>10. CtlCounts(a)'
  BY <1>1 DEF CtlCounts
<1>11. ASSUME ~Failing(a) PROVE ArraySound(a)'
  <2>1. Passed(a, i0)
    BY <1>3, <1>11, <1>7 DEF Passed, Seen, Failing, CallOn, InArray, CallInv, Shape
  <2>2. i0 \in Open(a) /\ Open(a)' = Open(a) \ {i0}
    <3>1. Uncounted(a, i0) /\ ~Uncounted(a, i0)'
      BY <1>1, <1>2, <1>3, <1>5, <1>6, <2>1 DEF Uncounted, IsHwFence, Joins, NoReset
    <3>2. ASSUME NEW i \in DOMAIN Children[a], i # i0 PROVE Uncounted(a, i)' <=> Uncounted(a, i)
      <4>1. Children[a][i] # f
        BY <1>3, <1>7, <3>2
      <4>. QED  BY <1>1, <1>5, <1>6, <4>1 DEF Uncounted, IsHwFence
    <3>. QED  BY <3>1, <3>2 DEF Open
  <2>3. /\ pending[a] = Cardinality(Open(a)) /\ pending[a] \in Nat /\ pending[a] >= 1
        /\ Cardinality(Open(a)') = pending[a] - 1
        /\ pending[a] = 1 => Open(a)' = {}
    <3>1. Open(a) \in SUBSET (DOMAIN Children[a]) /\ pending[a] = Cardinality(Open(a))
      BY <1>2, <1>11 DEF Open, ArraySound, Counted
    <3>2. /\ Cardinality(Open(a) \ {i0}) = Cardinality(Open(a)) - 1 /\ Cardinality(Open(a)) >= 1
          /\ Cardinality(Open(a)) = 1 => Open(a) \ {i0} = {}
      BY <2>2, <3>1, OneLess
    <3>3. Cardinality(Open(a)) \in Nat
      BY <3>1, SomeChildren
    <3>. QED  BY <2>2, <3>1, <3>2, <3>3
  <2>4. ASSUME NEW c \in Clients, CallOn(c, a)
        PROVE  pc[c] = "child" /\ obj[c] = a /\ ~signalJoin[c] /\ c \in waitMask[a]
    <3>1. pc[c] = "child" /\ obj[c] = a
      BY <1>11, <2>4 DEF CallOn, InArray, Failing
    <3>2. CallJoin(c)
      BY <1>2, <2>4 DEF ArraySound
    <3>. QED  BY <1>2, <2>3, <3>1, <3>2 DEF CallJoin
  <2>5. CASE pending[a] = 1
    <3>1. \A i \in DOMAIN Children[a] : Children[a][i] \in Fences /\ flags'[Children[a][i]] /\ Passed(a, i)
      BY <1>1, <1>5, <2>3, <2>5 DEF Open, Uncounted, IsHwFence
    <3>2. join'[a] = "signaled"
      BY <1>0, <1>1, <2>5 DEF Fields
    <3>3. Counted(a)' /\ PassedListed(a)' /\ SignaledDone(a)'
      BY <1>8, <2>3, <3>1, <3>2 DEF Counted, PassedListed, SignaledDone
    <3>4. ASSUME NEW c \in Clients, CallOn(c, a)' PROVE CallJoin(c)'
      <4>1. CallOn(c, a) /\ pc'[c] = "child" /\ obj'[c] = a /\ ~signalJoin'[c] /\ c \in waitMask[a]
        BY <1>1, <1>5, <2>4, <3>4
      <4>2. \A i \in DOMAIN Children[a] : i < idx[c]
        BY <1>1, <3>1, <4>1 DEF Passed
      <4>3. ~AtChild(c)' /\ Children[a] # << >>
        <5>1. idx[c] \in Nat /\ CallOK(c) /\ pc[c] = "child" /\ obj[c] = a
          BY <1>0, <1>1, <4>1 DEF Fields, CallInv, Locals
        <5>2. idx[c] >= 1
          BY <1>7, <5>1 DEF CallOK
        <5>3. ~(idx[c] <= Len(Children[a]))
          BY <1>7, <4>2, <5>1, <5>2
        <5>. QED  BY <1>1, <1>3, <1>7, <4>1, <5>3 DEF AtChild
      <4>4. a \in Told(c)'
        <5>1. rxq'[c] = rxq[c] \cup {[fence |-> a, data |-> DataOf(a, d), error |-> NoData] : d \in waitMask[a] \cap {c}}
          BY <1>1, <2>5
        <5>2. [fence |-> a, data |-> DataOf(a, c), error |-> NoData] \in rxq'[c]
          BY <4>1, <5>1
        <5>. QED  BY <5>2 DEF Told
      <4>. QED  BY <3>2, <4>1, <4>3, <4>4 DEF CallJoin
    <3>. QED  BY <1>9, <1>10, <3>3, <3>4 DEF ArraySound
  <2>6. CASE pending[a] # 1
    <3>1. UNCHANGED <<rxq, join, waitMask>> /\ pending'[a] >= 1
      BY <1>1, <1>8, <2>3, <2>6
    <3>2. Counted(a)'
      BY <1>5, <1>8, <1>11, <2>3, <3>1 DEF Counted
    <3>3. PassedListed(a)'
      BY <1>1, <1>2, <1>4, <1>5, <3>1 DEF ArraySound, PassedListed
    <3>4. SignaledDone(a)'
      BY <1>1, <1>2, <3>1 DEF ArraySound, SignaledDone, Told
    <3>5. ASSUME NEW c \in Clients, CallOn(c, a)' PROVE CallJoin(c)'
      BY <1>1, <1>2, <1>5, <2>4, <3>1, <3>5 DEF CallJoin
    <3>. QED  BY <1>9, <1>10, <3>2, <3>3, <3>4, <3>5 DEF ArraySound
  <2>. QED  BY <2>5, <2>6
<1>12. ASSUME Failing(a) PROVE ArraySound(a)'
  <2>1. i0 \in Owed(a) /\ Owed(a)' = Owed(a) \ {i0}
    <3>1. Due(a, i0) /\ ~Due(a, i0)'
      BY <1>1, <1>2, <1>3, <1>6 DEF Due
    <3>2. ASSUME NEW i \in DOMAIN Children[a], i # i0 PROVE Due(a, i)' <=> Due(a, i)
      <4>1. Children[a][i] # f
        BY <1>3, <1>7, <3>2
      <4>. QED  BY <1>1, <1>4, <1>6, <4>1 DEF Due
    <3>. QED  BY <3>1, <3>2 DEF Owed
  <2>2. /\ pending[a] > Cardinality(Owed(a)) /\ Cardinality(Owed(a)) \in Nat /\ Cardinality(Owed(a)) >= 1
        /\ Cardinality(Owed(a)') = Cardinality(Owed(a)) - 1
    <3>1. Owed(a) \in SUBSET (DOMAIN Children[a])
      BY DEF Owed
    <3>2. pending[a] > Cardinality(Owed(a))
      BY <1>2, <1>3, <1>7, <1>12 DEF ArraySound, Counted
    <3>3. Cardinality(Owed(a)) \in Nat
      BY <3>1, SomeChildren
    <3>4. Cardinality(Owed(a) \ {i0}) = Cardinality(Owed(a)) - 1 /\ Cardinality(Owed(a)) >= 1
      BY <2>1, <3>1, OneLess
    <3>. QED  BY <2>1, <3>2, <3>3, <3>4
  <2>3. UNCHANGED <<rxq, join, waitMask>> /\ pending'[a] >= 0 /\ pending'[a] > Cardinality(Owed(a)')
    BY <1>1, <1>8, <2>2
  <2>4. Counted(a)' /\ PassedListed(a)'
    BY <1>5, <1>12, <2>3 DEF Counted, PassedListed
  <2>5. SignaledDone(a)'
    BY <1>1, <1>2, <2>3 DEF ArraySound, SignaledDone, Told
  <2>6. ASSUME NEW c \in Clients, CallOn(c, a)' PROVE CallJoin(c)'
    <3>1. CallOn(c, a) /\ obj[c] = a
      BY <1>5, <2>6 DEF CallOn
    <3>2. pc[c] = "undo"
      BY <1>12, <3>1 DEF Failing, CallOn, InArray, Joins, OneArray
    <3>. QED  BY <1>1, <1>2, <2>3, <3>1, <3>2 DEF ArraySound, CallJoin
  <2>. QED  BY <1>9, <1>10, <2>4, <2>5, <2>6 DEF ArraySound
<1>13. ASSUME NEW b \in Arrays, b # a PROVE ArraySound(b)'
  <2>1. join'[b] = join[b] /\ pending'[b] = pending[b] /\ waitMask'[b] = waitMask[b]
    BY <1>0, <1>1, <1>13 DEF Fields, Objects
  <2>2. ASSUME NEW c \in Clients PROVE b \in Told(c)' <=> b \in Told(c)
    <3>1. \A m \in rxq'[c] : m.fence = b => m \in rxq[c]
      BY <1>0, <1>1, <1>13 DEF Fields
    <3>2. rxq[c] \subseteq rxq'[c]
      BY <1>0, <1>1 DEF Fields
    <3>. QED  BY <3>1, <3>2 DEF Told
  <2>3. SameArray(b)
    BY <1>1, <1>4, <1>5, <1>13, <1>f, <2>1, <2>2 DEF SameArray
  <2>. QED  BY <2>3, ArrayKept DEF Joins
<1>14. NoReset' /\ OneArray' /\ ParentsPacked'
  BY <1>1 DEF Joins, NoReset, OneArray, ParentsPacked, InReset, InArray
<1>. QED  BY <1>11, <1>12, <1>13, <1>14 DEF Joins

\* A step that leaves all arrays alone.
LEMMA JoinsUntouched ==
  ASSUME CallInv, Joins, UNCHANGED <<valid, flags, parents, parentsCnt, join, pending, idx, signalJoin>>,
         ctl'.joins = ctl.joins, ctl.joins # {} => ctl'.fence = ctl.fence,
         \A a \in Arrays : waitMask'[a] = waitMask[a],
         \A c \in Clients : InArray(c)' <=> InArray(c),
         \A c \in Clients : InArray(c) => pc'[c] = pc[c] /\ obj'[c] = obj[c],
         \A c \in Clients : ~InReset(c)',
         \A c \in Clients, a \in Arrays : a \in Told(c)' <=> a \in Told(c)
  PROVE  Joins'
<1>1. ASSUME NEW a \in Arrays PROVE ArraySound(a)'
  <2>1. \A c \in Clients : CallOn(c, a)' <=> CallOn(c, a)
    BY DEF CallOn
  <2>2. \A f \in Fences : Listed(f, a)' <=> Listed(f, a)
    BY DEF Listed
  <2>3. \A c \in Clients : CallOn(c, a) => pc'[c] = pc[c]
    BY DEF CallOn
  <2>4. SameArray(a)
    BY <2>1, <2>2, <2>3 DEF SameArray
  <2>. QED  BY <2>4, ArrayKept DEF Joins
<1>2. NoReset' /\ OneArray'
  BY DEF Joins, NoReset, OneArray
<1>3. ParentsPacked'
  BY DEF Joins, ParentsPacked
<1>. QED  BY <1>1, <1>2, <1>3 DEF Joins

\* Every step keeps the books about join fences.
LEMMA JoinsKept ==
  ASSUME OneByOne, CallInv, CallInv', Joins, [Next]_vars
  PROVE  Joins'
<1>0. Fields /\ \A c \in Clients : ~InReset(c)
  BY FieldTypes DEF Joins, NoReset
<1>1. CASE UNCHANGED vars
  BY <1>0, <1>1, JoinsUntouched DEF vars, entries, calls, InArray, InReset, Told
<1>2. ASSUME NEW c \in Clients, Call(c) PROVE Joins'
  <2>1. ASSUME NEW f \in Fences, NEW d \in FenceData[c][f], WaitFence(c, f, d) PROVE Joins'
    <3>1. /\ pc[c] = "idle" /\ pc' = [pc EXCEPT ![c] = "register"] /\ obj' = [obj EXCEPT ![c] = f]
          /\ UNCHANGED <<entries, idx, signalJoin, rxq, ctl>>
      BY <2>1 DEF WaitFence, MayWait, Goto
    <3>2. \A e \in Clients : ~InReset(e)' /\ (InArray(e)' <=> InArray(e))
                             /\ (InArray(e) => pc'[e] = pc[e] /\ obj'[e] = obj[e])
      BY <1>0, <3>1 DEF InArray, InReset, Fields
    <3>. QED  BY <3>1, <3>2, JoinsUntouched DEF entries, Told
  <2>2. ASSUME NEW a \in Arrays, NEW d \in ArrayData, WaitArray(c, a, d) PROVE Joins'
    BY <2>2, JoinsWaitArray
  <2>3. ASSUME NEW r \in Resets[c], Reset(c, r) PROVE Joins'
    BY <2>3 DEF Reset, OneByOne
  <2>. QED  BY <1>2, <2>1, <2>2, <2>3 DEF Call
<1>3. ASSUME NEW c \in Clients, Register(c) PROVE Joins'
  <2>1. /\ pc[c] = "register" /\ pc' = [pc EXCEPT ![c] = "recheck"] /\ obj[c] \in Fences
        /\ waitMask' = [waitMask EXCEPT ![obj[c]] = waitMask[obj[c]] \cup {c}]
        /\ UNCHANGED <<valid, flags, parents, parentsCnt, join, pending, obj, idx, signalJoin, rxq, ctl>>
    BY <1>3 DEF Register, Goto, CallInv, Locals, CallOK
  <2>2. \A e \in Clients : ~InReset(e)' /\ (InArray(e)' <=> InArray(e)) /\ (InArray(e) => pc'[e] = pc[e])
    BY <1>0, <2>1 DEF InArray, InReset, Fields
  <2>3. \A a \in Arrays : waitMask'[a] = waitMask[a]
    BY <1>0, <2>1 DEF Fields, Objects
  <2>. QED  BY <2>1, <2>2, <2>3, JoinsUntouched DEF Told
<1>4. ASSUME NEW c \in Clients, Recheck(c) PROVE Joins'
  <2>1. PICK m : m = [fence |-> obj[c], data |-> arg[c], error |-> NoData]
    OBVIOUS
  <2>2. /\ pc[c] = "recheck" /\ pc' = [pc EXCEPT ![c] = "idle"] /\ obj[c] \in Fences
        /\ obj' = [obj EXCEPT ![c] = INVALID] /\ idx' = [idx EXCEPT ![c] = 0]
        /\ signalJoin' = [signalJoin EXCEPT ![c] = FALSE]
        /\ UNCHANGED <<entries, ctl>>
        /\ rxq' = rxq \/ rxq' = [rxq EXCEPT ![c] = rxq[c] \cup {m}]
    BY <1>4, <2>1 DEF Recheck, Return, Goto, Signal, CallInv, Locals, CallOK
  <2>3. ASSUME NEW a \in Arrays PROVE \A e \in Clients : a \in Told(e)' <=> a \in Told(e)
    <3>1. m.fence # a
      BY <1>0, <2>1, <2>2 DEF Fields
    <3>2. CASE rxq' = rxq
      BY <3>2 DEF Told
    <3>3. CASE rxq' = [rxq EXCEPT ![c] = rxq[c] \cup {m}]
      BY <1>0, <3>1, <3>3, ToldOther DEF Fields
    <3>. QED  BY <2>2, <3>2, <3>3
  <2>4. /\ \A e \in Clients \ {c} : pc'[e] = pc[e] /\ obj'[e] = obj[e] /\ idx'[e] = idx[e]
                                      /\ signalJoin'[e] = signalJoin[e]
        /\ pc'[c] = "idle"
    BY <1>0, <2>2 DEF Fields
  <2>5. ASSUME NEW a \in Arrays PROVE ArraySound(a)'
    <3>1. ~CallOn(c, a) /\ ~CallOn(c, a)'
      BY <2>2, <2>4 DEF CallOn, InArray
    <3>2. \A f \in Fences : Listed(f, a)' <=> Listed(f, a)
      BY <2>2 DEF Listed, entries
    <3>. QED  BY <2>2, <2>3, <2>4, <3>1, <3>2, OtherArray DEF Joins, entries
  <2>6. NoReset' /\ OneArray'
    BY <2>2, <2>4 DEF Joins, NoReset, OneArray, InReset, InArray, entries
  <2>7. ParentsPacked'
    <3>1. \A d \in Clients : InArray(d)' => InArray(d) /\ obj'[d] = obj[d]
      BY <2>4 DEF InArray
    <3>. QED  BY <2>2, <3>1 DEF Joins, ParentsPacked, entries
  <2>. QED  BY <2>5, <2>6, <2>7 DEF Joins
<1>5. ASSUME NEW c \in Clients,
             \/ ChildSignaled(c) \/ ChildAdded(c) \/ ChildRefused(c) \/ ArrayInvalid(c)
             \/ ArrayDone(c) \/ Undo(c) \/ Undone(c)
      PROVE  Joins'
  BY <1>5, JoinsChildSignaled, JoinsChildAdded, JoinsFails, JoinsArrayDone, JoinsUndo, JoinsUndone
<1>6. ASSUME NEW c \in Clients,
             (\E o \in Objects : ResetClear(c, o)) \/ ResetSignal(c) \/ ResetDestroy(c) \/ ResetQueues(c)
      PROVE  Joins'
  BY <1>0, <1>6 DEF InReset, ResetClear, ResetSignal, ResetDestroy, ResetQueues
<1>7. ASSUME NEW c \in Clients, CtlClient(c) PROVE Joins'
  <2>1. PICK m : m = [fence |-> ctl.fence, data |-> DataOf(ctl.fence, c), error |-> NoData]
    OBVIOUS
  <2>2. /\ ctl.fence \in Fences /\ rxq' = [rxq EXCEPT ![c] = rxq[c] \cup {m}]
        /\ ctl'.joins = ctl.joins /\ ctl'.fence = ctl.fence /\ UNCHANGED <<entries, calls>>
    BY <1>0, <1>7, <2>1 DEF CtlClient, Signal, CallInv, Locals, CtlOK, Fields
  <2>3. ASSUME NEW a \in Arrays PROVE \A e \in Clients : a \in Told(e)' <=> a \in Told(e)
    <3>1. m.fence # a
      BY <1>0, <2>1, <2>2 DEF Fields
    <3>. QED  BY <1>0, <2>2, <3>1, ToldOther DEF Fields
  <2>. QED  BY <1>0, <2>2, <2>3, JoinsUntouched DEF entries, calls, InArray, InReset
<1>8. CASE CtlUnlock
  BY <1>0, <1>8, JoinsUntouched DEF CtlUnlock, Idle, entries, calls, InArray, InReset, Told
<1>9. ASSUME NEW a \in Arrays, CtlJoin(a) PROVE Joins'
  BY <1>9, JoinsCtlJoin
<1>10. ASSUME NEW f \in Fences, CtlSignal(f) PROVE Joins'
  BY <1>10, JoinsCtlSignal
<1>. QED  BY <1>1, <1>2, <1>3, <1>4, <1>5, <1>6, <1>7, <1>8, <1>9, <1>10 DEF Next, DriverStep, CtlStep

\* There is no join fence at first.
LEMMA InitJoins == Init => Joins
<1>. SUFFICES ASSUME Init PROVE Joins
  OBVIOUS
<1>1. NoReset /\ OneArray
  BY DEF Init, NoReset, OneArray, InReset, InArray
<1>2. \A f \in Fences, a \in Arrays : ~Listed(f, a)
  BY ObjectsAssumption DEF Init, Listed
<1>3. ParentsPacked
  BY DEF Init, ParentsPacked, InArray
<1>4. ASSUME NEW a \in Arrays PROVE ArraySound(a)
  <2>1. join[a] = "none" /\ pending[a] = 0 /\ ctl.joins = {} /\ \A c \in Clients : Told(c) = {} /\ pc[c] = "idle"
    BY DEF Init, Idle, Told
  <2>. QED  BY <1>2, <2>1 DEF ArraySound, ListedSeen, CtlCounts, Counted, PassedListed, SignaledDone, CallOn, InArray
<1>. QED  BY <1>1, <1>3, <1>4 DEF Joins

\* The books of driver and FenceCTL about join fences: every array is sound in every state.
THEOREM SignalJoins == OneByOne /\ Spec => []Joins
<1>. SUFFICES ASSUME OneByOne PROVE Spec => []Joins
  OBVIOUS
<1>1. CallInv /\ CallInv' /\ Joins /\ [Next]_vars => Joins'
  BY JoinsKept
<1>. QED  BY <1>1, InitJoins, SignalCalls, PTL DEF Spec

\* Every variable keeps its type and pending_child_cnt never goes below zero: FenceCTL counts
\* a child down once, and no join fence that is no longer in use.
THEOREM SignalTypeOK == OneByOne /\ Spec => []TypeOK
<1>1. CallInv /\ Joins => TypeOK
  <2>. SUFFICES ASSUME CallInv, Joins PROVE TypeOK
    OBVIOUS
  <2>1. pending \in [Arrays -> Nat]
    <3>1. pending \in [Arrays -> Int]
      BY DEF CallInv, Shape
    <3>2. \A a \in Arrays : pending[a] >= 0
      BY DEF Joins, ArraySound, Counted
    <3>. QED  BY <3>1, <3>2
  <2>. QED  BY <2>1 DEF CallInv, Shape, TypeOK, Labels, Args
<1>. QED  BY <1>1, SignalCalls, SignalJoins, PTL

\* No child of an array is counted twice or forgotten, and FenceCTL counts down no join fence
\* that a failed call has destroyed.
THEOREM SignalJoinsExact == OneByOne /\ Spec => []JoinsExact
<1>1. CallInv /\ Joins => JoinsExact
  <2>. SUFFICES ASSUME CallInv, Joins PROVE JoinsExact
    OBVIOUS
  <2>0. \A a \in Arrays : ArraySound(a)
    BY DEF Joins
  <2>1. PendingExact
    <3>. SUFFICES ASSUME NEW a \in Arrays, join[a] = "live", ~Failing(a)
                  PROVE  pending[a] = Cardinality({i \in DOMAIN Children[a] :
                           LET f == Children[a][i]
                           IN ~Passed(a, i) \/ ~IsHwFence(f) \/ ~flags[f] \/ Counting(f, a)})
      BY DEF PendingExact
    <3>1. pending[a] = Cardinality(Open(a))
      BY <2>0 DEF ArraySound, Counted
    <3>. QED  BY <3>1 DEF Open, Uncounted
  <2>2. ParentsListed
    BY <2>0 DEF ArraySound, PassedListed, ParentsListed, Listed
  <2>3. NoDanglingParent
    <3>1. ASSUME NEW f \in Fences, NEW j \in 1 .. MAX_PARENTS, ~flags[f], parents[f][j] # INVALID
          PROVE  join[parents[f][j]] = "live"
      <4>1. PICK a : a = parents[f][j]
        OBVIOUS
      <4>2. a \in Arrays /\ Listed(f, a)
        BY <3>1, <4>1, FieldTypes DEF Fields, Listed
      <4>3. join[a] \in {"live", "signaled"} /\ \E i \in DOMAIN Children[a] : Children[a][i] = f
        BY <2>0, <4>2 DEF ArraySound, ListedSeen
      <4>4. join[a] # "signaled"
        BY <2>0, <3>1, <4>2, <4>3 DEF ArraySound, SignaledDone
      <4>. QED  BY <4>1, <4>3, <4>4
    <3>2. \A a \in ctl.joins : a \in Arrays
      BY FieldTypes DEF Fields
    <3>3. \A a \in ctl.joins : join[a] = "live"
      BY <2>0, <3>2 DEF ArraySound, CtlCounts
    <3>. QED  BY <3>1, <3>3 DEF NoDanglingParent
  <2>. QED  BY <2>1, <2>2, <2>3 DEF JoinsExact
<1>. QED  BY <1>1, SignalCalls, SignalJoins, PTL

\* A client hears of an array only when all its fences are signaled, whichever of driver and
\* FenceCTL counts the last one.
THEOREM SignalJoinWaitsForAll == OneByOne /\ Spec => []JoinWaitsForAll
<1>1. Joins => JoinWaitsForAll
  BY DEF Joins, ArraySound, SignaledDone, JoinWaitsForAll
<1>. QED  BY <1>1, SignalJoins, PTL

-----------------------------------------------------------------------------
(* No signal is lost. *)

\* Why a client that waits for a fence, or for an array, need not have been told yet.
FenceWait(c, f) ==
  f \in Told(c) \/ (c \in waitMask[f] /\ ~flags[f]) \/ (ctl.fence = f /\ c \in ctl.clients)
ArrayWait(c, a) ==
  a \in Told(c) \/ (join[a] = "live" /\ c \in waitMask[a] /\ \A d \in Clients : ~CallOn(d, a))

Waits ==
  \A c \in Clients :
    /\ pc[c] = "recheck" => c \in waitMask[obj[c]]
    /\ \A f \in waited[c] \cap Fences : FenceWait(c, f)
    /\ \A a \in waited[c] \cap Arrays : ArrayWait(c, a)

\* Without resets no message and no bit of a fence's wait mask is lost.
LEMMA NothingLost ==
  ASSUME OneByOne, CallInv, Joins, [Next]_vars
  PROVE  /\ \A c \in Clients : rxq[c] \subseteq rxq'[c] /\ Told(c) \subseteq Told(c)'
         /\ \A f \in Fences : waitMask[f] \subseteq waitMask'[f]
<1>0. Fields /\ \A c \in Clients : ~InReset(c)
  BY FieldTypes DEF Joins, NoReset
<1>s. ASSUME UNCHANGED waitMask \/ (\E a \in Arrays : \E S : waitMask' = [waitMask EXCEPT ![a] = S])
               \/ (\E f \in Fences, c \in Clients : waitMask' = [waitMask EXCEPT ![f] = waitMask[f] \cup {c}]),
             \/ UNCHANGED rxq
             \/ \E c \in Clients : \E m : rxq' = [rxq EXCEPT ![c] = rxq[c] \cup {m}]
             \/ \A c \in Clients : rxq[c] \subseteq rxq'[c]
      PROVE  /\ \A c \in Clients : rxq[c] \subseteq rxq'[c] /\ Told(c) \subseteq Told(c)'
             /\ \A f \in Fences : waitMask[f] \subseteq waitMask'[f]
  <2>1. \A c \in Clients : rxq[c] \subseteq rxq'[c]
    <3>1. ASSUME NEW c \in Clients, NEW m, rxq' = [rxq EXCEPT ![c] = rxq[c] \cup {m}]
          PROVE  \A d \in Clients : rxq[d] \subseteq rxq'[d]
      BY <1>0, <3>1 DEF Fields
    <3>. QED  BY <1>s, <3>1
  <2>2. \A c \in Clients : Told(c) \subseteq Told(c)'
    BY <2>1 DEF Told
  <2>3. \A f \in Fences : waitMask[f] \subseteq waitMask'[f]
    <3>1. ASSUME NEW a \in Arrays, NEW S, waitMask' = [waitMask EXCEPT ![a] = S]
          PROVE  \A f \in Fences : waitMask[f] \subseteq waitMask'[f]
      BY <1>0, <3>1 DEF Fields, Objects
    <3>2. ASSUME NEW f \in Fences, NEW c \in Clients, waitMask' = [waitMask EXCEPT ![f] = waitMask[f] \cup {c}]
          PROVE  \A g \in Fences : waitMask[g] \subseteq waitMask'[g]
      BY <1>0, <3>2 DEF Fields, Objects
    <3>. QED  BY <1>s, <3>1, <3>2
  <2>. QED  BY <2>1, <2>2, <2>3
<1>1. CASE UNCHANGED vars
  BY <1>1, <1>s DEF vars, entries
<1>2. ASSUME NEW c \in Clients, Call(c)
      PROVE  UNCHANGED rxq /\ (UNCHANGED waitMask \/ \E a \in Arrays : \E S : waitMask' = [waitMask EXCEPT ![a] = S])
  BY <1>2 DEF Call, WaitFence, WaitArray, Reset, entries
<1>3. ASSUME NEW c \in Clients, Register(c)
      PROVE  UNCHANGED rxq /\ \E f \in Fences : waitMask' = [waitMask EXCEPT ![f] = waitMask[f] \cup {c}]
  BY <1>3 DEF Register, CallInv, Locals, CallOK
<1>4. ASSUME NEW c \in Clients, Recheck(c)
      PROVE  UNCHANGED waitMask /\ (UNCHANGED rxq \/ \E m : rxq' = [rxq EXCEPT ![c] = rxq[c] \cup {m}])
  BY <1>4 DEF Recheck, Signal, entries
<1>5. ASSUME NEW c \in Clients,
             ChildSignaled(c) \/ ChildAdded(c) \/ ChildRefused(c) \/ ArrayInvalid(c) \/ Undo(c)
      PROVE  UNCHANGED <<rxq, waitMask>>
  BY <1>5 DEF ChildSignaled, ChildAdded, ChildRefused, ArrayInvalid, Undo, entries
<1>6. ASSUME NEW c \in Clients, ArrayDone(c) \/ Undone(c)
      PROVE  /\ UNCHANGED waitMask \/ \E a \in Arrays : \E S : waitMask' = [waitMask EXCEPT ![a] = S]
             /\ UNCHANGED rxq \/ \E m : rxq' = [rxq EXCEPT ![c] = rxq[c] \cup {m}]
  <2>1. obj[c] \in Arrays
    BY <1>6 DEF ArrayDone, Undone, CallInv, Locals, CallOK
  <2>. QED  BY <1>6, <2>1 DEF ArrayDone, Undone, DestroyJoin, Signal
<1>7. ASSUME NEW c \in Clients, NEW o \in Objects, ResetClear(c, o) PROVE FALSE
  BY <1>0, <1>7 DEF ResetClear, InReset
<1>8. ASSUME NEW c \in Clients, ResetSignal(c) \/ ResetDestroy(c) \/ ResetQueues(c) PROVE FALSE
  BY <1>0, <1>8 DEF ResetSignal, ResetDestroy, ResetQueues, InReset
<1>9. ASSUME CtlUnlock \/ \E f \in Fences : CtlSignal(f) PROVE UNCHANGED <<rxq, waitMask>>
  BY <1>9 DEF CtlUnlock, CtlSignal, entries
<1>10. ASSUME NEW c \in Clients, CtlClient(c)
       PROVE  UNCHANGED waitMask /\ \E m : rxq' = [rxq EXCEPT ![c] = rxq[c] \cup {m}]
  BY <1>10 DEF CtlClient, Signal, entries
<1>11. ASSUME NEW a \in Arrays, CtlJoin(a)
       PROVE  /\ UNCHANGED waitMask \/ \E S : waitMask' = [waitMask EXCEPT ![a] = S]
              /\ \A c \in Clients : rxq[c] \subseteq rxq'[c]
  <2>1. UNCHANGED waitMask \/ waitMask' = [waitMask EXCEPT ![a] = {}]
    BY <1>11 DEF CtlJoin, DestroyJoin
  <2>2. \A c \in Clients : rxq[c] \subseteq rxq'[c]
    BY <1>11 DEF CtlJoin
  <2>. QED  BY <2>1, <2>2
<1>12. CASE \E c \in Clients : Call(c) \/ DriverStep(c)
  BY <1>2, <1>3, <1>4, <1>5, <1>6, <1>7, <1>8, <1>12, <1>s DEF DriverStep
<1>13. CASE CtlStep \/ \E f \in Fences : CtlSignal(f)
  BY <1>9, <1>10, <1>11, <1>13, <1>s DEF CtlStep
<1>. QED  BY <1>1, <1>12, <1>13 DEF Next

\* A client that waits for a fence is told or still will be.
LEMMA FenceWaitKept ==
  ASSUME OneByOne, CallInv, Joins, [Next]_vars, NEW c \in Clients, NEW f \in Fences, FenceWait(c, f)
  PROVE  FenceWait(c, f)'
<1>0. Fields /\ Told(c) \subseteq Told(c)' /\ waitMask[f] \subseteq waitMask'[f]
  BY FieldTypes, NothingLost
<1>1. CASE UNCHANGED <<flags, ctl>>
  BY <1>0, <1>1 DEF FenceWait
<1>2. ASSUME NEW g \in Fences, CtlSignal(g) PROVE FenceWait(c, f)'
  <2>1. /\ ctl.clients = {} /\ flags' = [flags EXCEPT ![g] = TRUE] /\ ctl'.fence = g /\ ctl'.clients = waitMask[g]
    BY <1>2 DEF CtlSignal, Idle
  <2>. QED  BY <1>0, <2>1 DEF FenceWait, Fields
<1>3. ASSUME NEW d \in Clients, CtlClient(d) PROVE FenceWait(c, f)'
  <2>1. /\ UNCHANGED flags /\ ctl'.fence = ctl.fence /\ ctl'.clients = ctl.clients \ {d}
        /\ [fence |-> ctl.fence, data |-> DataOf(ctl.fence, d), error |-> NoData] \in rxq'[d]
    BY <1>0, <1>3 DEF CtlClient, Signal, entries, Fields
  <2>2. ctl.fence \in Told(d)'
    BY <2>1 DEF Told
  <2>. QED  BY <1>0, <2>1, <2>2 DEF FenceWait
<1>4. CASE CtlUnlock
  BY <1>0, <1>4 DEF CtlUnlock, FenceWait, entries
<1>5. ASSUME NEW a \in Arrays, CtlJoin(a) PROVE FenceWait(c, f)'
  <2>1. UNCHANGED flags /\ ctl'.fence = ctl.fence /\ ctl'.clients = ctl.clients
    BY <1>0, <1>5 DEF CtlJoin, Fields
  <2>. QED  BY <1>0, <2>1 DEF FenceWait
<1>6. ASSUME NEW d \in Clients, Call(d) PROVE UNCHANGED <<flags, ctl>>
  BY <1>6 DEF Call, WaitFence, WaitArray, Reset, entries
<1>7. ASSUME NEW d \in Clients, DriverStep(d) PROVE UNCHANGED <<flags, ctl>>
  BY <1>7 DEF DriverStep, Register, Recheck, ChildSignaled, ChildAdded, ChildRefused, ArrayInvalid,
              ArrayDone, Undo, Undone, ResetClear, ResetSignal, ResetDestroy, ResetQueues, entries,
              Joins, NoReset, InReset
<1>8. UNCHANGED vars => UNCHANGED <<flags, ctl>>
  BY DEF vars, entries
<1>. QED  BY <1>1, <1>2, <1>3, <1>4, <1>5, <1>6, <1>7, <1>8 DEF Next, CtlStep

\* A client that waits for an array is told or its join fence is still in use.
LEMMA ArrayWaitKept ==
  ASSUME OneByOne, CallInv, Joins, [Next]_vars, NEW c \in Clients, NEW a \in Arrays, ArrayWait(c, a)
  PROVE  ArrayWait(c, a)'
<1>0. Fields /\ Told(c) \subseteq Told(c)' /\ a \in Objects
  BY FieldTypes, NothingLost DEF Objects
<1>1. CASE a \in Told(c)
  BY <1>0, <1>1 DEF ArrayWait
<1>2. CASE a \notin Told(c)
  <2>0. join[a] = "live" /\ c \in waitMask[a] /\ \A d \in Clients : ~CallOn(d, a)
    BY <1>2 DEF ArrayWait
  <2>1. CASE UNCHANGED <<join, pc, obj>> /\ waitMask'[a] = waitMask[a]
    BY <2>0, <2>1 DEF ArrayWait, CallOn, InArray
  <2>2. ASSUME NEW d \in Clients,
               join'[a] = join[a], waitMask'[a] = waitMask[a], ~CallOn(d, a)',
               \A e \in Clients \ {d} : pc'[e] = pc[e] /\ obj'[e] = obj[e]
        PROVE  ArrayWait(c, a)'
    <3>1. \A e \in Clients \ {d} : ~CallOn(e, a)'
      BY <2>0, <2>2 DEF CallOn, InArray
    <3>2. \A e \in Clients : ~CallOn(e, a)'
      BY <2>2, <3>1
    <3>. QED  BY <2>0, <2>2, <3>2 DEF ArrayWait
  <2>3. ASSUME NEW d \in Clients, Call(d) PROVE ArrayWait(c, a)'
    <3>1. ASSUME NEW f \in Fences, NEW x \in FenceData[d][f], WaitFence(d, f, x) PROVE ArrayWait(c, a)'
      BY <1>0, <2>2, <3>1 DEF WaitFence, Goto, entries, CallOn, InArray, Fields
    <3>2. ASSUME NEW b \in Arrays, NEW x \in ArrayData, WaitArray(d, b, x) PROVE ArrayWait(c, a)'
      <4>1. /\ b # a /\ join' = [join EXCEPT ![b] = "live"] /\ waitMask' = [waitMask EXCEPT ![b] = {d}]
            /\ pc' = [pc EXCEPT ![d] = "child"] /\ obj' = [obj EXCEPT ![d] = b]
        BY <2>0, <3>2 DEF WaitArray, Goto
      <4>2. ~CallOn(d, a)'
        BY <1>0, <4>1 DEF CallOn, Fields
      <4>. QED  BY <1>0, <2>2, <4>1, <4>2 DEF Fields
    <3>3. ASSUME NEW r \in Resets[d], Reset(d, r) PROVE ArrayWait(c, a)'
      BY <3>3 DEF Reset, OneByOne
    <3>. QED  BY <2>3, <3>1, <3>2, <3>3 DEF Call
  <2>4. ASSUME NEW d \in Clients, Register(d) PROVE ArrayWait(c, a)'
    <3>1. obj[d] \in Fences /\ pc' = [pc EXCEPT ![d] = "recheck"] /\ UNCHANGED <<join, obj>>
          /\ waitMask' = [waitMask EXCEPT ![obj[d]] = waitMask[obj[d]] \cup {d}]
      BY <2>4 DEF Register, Goto, CallInv, Locals, CallOK
    <3>2. ~CallOn(d, a)' /\ obj[d] # a
      BY <1>0, <3>1 DEF CallOn, InArray, Fields
    <3>. QED  BY <1>0, <2>2, <3>1, <3>2 DEF Fields
  <2>5. ASSUME NEW d \in Clients, Recheck(d) PROVE ArrayWait(c, a)'
    BY <1>0, <2>2, <2>5 DEF Recheck, Return, Goto, entries, CallOn, InArray, Fields
  <2>6. ASSUME NEW d \in Clients, ChildSignaled(d) \/ ChildAdded(d) \/ Undo(d) PROVE ArrayWait(c, a)'
    BY <2>1, <2>6 DEF ChildSignaled, ChildAdded, Undo
  <2>7. ASSUME NEW d \in Clients, ChildRefused(d) \/ ArrayInvalid(d) PROVE ArrayWait(c, a)'
    <3>1. pc[d] = "child" /\ pc' = [pc EXCEPT ![d] = "undo"] /\ UNCHANGED <<entries, obj>>
      BY <2>7 DEF ChildRefused, ArrayInvalid, AtChild, Goto
    <3>2. ~CallOn(d, a)'
      BY <2>0, <3>1 DEF CallOn, InArray
    <3>. QED  BY <1>0, <2>2, <3>1, <3>2 DEF Fields, entries
  <2>8. ASSUME NEW d \in Clients, ArrayDone(d) \/ Undone(d) PROVE ArrayWait(c, a)'
    <3>1. /\ pc[d] \in {"child", "undo"} /\ pc' = [pc EXCEPT ![d] = "idle"]
          /\ obj' = [obj EXCEPT ![d] = INVALID]
          /\ UNCHANGED join \/ \E w : join' = [join EXCEPT ![obj[d]] = w]
          /\ UNCHANGED waitMask \/ waitMask' = [waitMask EXCEPT ![obj[d]] = {}]
      BY <2>8 DEF ArrayDone, Undone, DestroyJoin, Return, Goto
    <3>2. obj[d] # a /\ ~CallOn(d, a)'
      BY <1>0, <2>0, <3>1 DEF CallOn, InArray, Fields
    <3>. QED  BY <1>0, <2>2, <3>1, <3>2 DEF Fields
  <2>9. ASSUME NEW d \in Clients,
               (\E o \in Objects : ResetClear(d, o)) \/ ResetSignal(d) \/ ResetDestroy(d) \/ ResetQueues(d)
        PROVE  ArrayWait(c, a)'
    BY <2>9 DEF Joins, NoReset, InReset, ResetClear, ResetSignal, ResetDestroy, ResetQueues
  <2>10. ASSUME NEW b \in Arrays, CtlJoin(b) PROVE ArrayWait(c, a)'
    <3>1. CASE b = a /\ pending[a] = 1
      <4>1. rxq'[c] = rxq[c] \cup {[fence |-> a, data |-> DataOf(a, d), error |-> NoData] : d \in waitMask[a] \cap {c}}
        BY <2>10, <3>1 DEF CtlJoin
      <4>2. [fence |-> a, data |-> DataOf(a, c), error |-> NoData] \in rxq'[c]
        BY <2>0, <4>1
      <4>. QED  BY <4>2 DEF ArrayWait, Told
    <3>2. CASE ~(b = a /\ pending[a] = 1)
      <4>1. join'[a] = join[a] /\ waitMask'[a] = waitMask[a] /\ UNCHANGED <<pc, obj>>
        BY <1>0, <2>10, <3>2 DEF CtlJoin, DestroyJoin, calls, Fields
      <4>. QED  BY <2>0, <4>1 DEF ArrayWait, CallOn, InArray
    <3>. QED  BY <3>1, <3>2
  <2>11. ASSUME CtlUnlock \/ (\E d \in Clients : CtlClient(d)) \/ (\E f \in Fences : CtlSignal(f)) \/ UNCHANGED vars
         PROVE  ArrayWait(c, a)'
    BY <2>1, <2>11 DEF CtlUnlock, CtlClient, CtlSignal, vars, entries, calls
  <2>. QED  BY <2>3, <2>4, <2>5, <2>6, <2>7, <2>8, <2>9, <2>10, <2>11 DEF Next, DriverStep, CtlStep
<1>. QED  BY <1>1, <1>2

\* Every step keeps Waits.
LEMMA WaitsKept ==
  ASSUME OneByOne, CallInv, Joins, Waits, [Next]_vars
  PROVE  Waits'
<1>0. /\ Fields /\ \A c \in Clients : CallOK(c)
      /\ \A f \in Fences : waitMask[f] \subseteq waitMask'[f]
  BY FieldTypes, NothingLost DEF CallInv, Locals
<1>s. ASSUME \A c \in Clients : pc'[c] = "recheck" => c \in waitMask'[obj'[c]],
             \A c \in Clients : \A o \in waited'[c] :
               o \in waited[c] \/ (o \in Fences /\ FenceWait(c, o)') \/ (o \in Arrays /\ ArrayWait(c, o)')
      PROVE  Waits'
  <2>1. ASSUME NEW c \in Clients, NEW f \in waited'[c] \cap Fences PROVE FenceWait(c, f)'
    BY <1>0, <1>s, <2>1, FenceWaitKept DEF Waits, Fields
  <2>2. ASSUME NEW c \in Clients, NEW a \in waited'[c] \cap Arrays PROVE ArrayWait(c, a)'
    BY <1>0, <1>s, <2>2, ArrayWaitKept DEF Waits, Fields
  <2>. QED  BY <1>s, <2>1, <2>2 DEF Waits
<1>r. ASSUME \A c \in Clients : pc'[c] = "recheck" => pc[c] = "recheck" /\ obj'[c] = obj[c]
      PROVE  \A c \in Clients : pc'[c] = "recheck" => c \in waitMask'[obj'[c]]
  BY <1>0, <1>r DEF Waits, CallOK
<1>1. ASSUME UNCHANGED waited,
             \A c \in Clients : pc'[c] = "recheck" => pc[c] = "recheck" /\ obj'[c] = obj[c]
      PROVE  Waits'
  BY <1>1, <1>r, <1>s
<1>2. ASSUME NEW c \in Clients, Call(c) PROVE Waits'
  BY <1>0, <1>1, <1>2 DEF Call, WaitFence, WaitArray, Reset, Goto, Fields
<1>3. ASSUME NEW c \in Clients, Register(c) PROVE Waits'
  <2>1. /\ obj[c] \in Fences /\ pc' = [pc EXCEPT ![c] = "recheck"] /\ UNCHANGED <<obj, waited>>
        /\ waitMask' = [waitMask EXCEPT ![obj[c]] = waitMask[obj[c]] \cup {c}]
    BY <1>3 DEF Register, Goto, CallInv, Locals, CallOK
  <2>2. c \in waitMask'[obj'[c]]
    BY <1>0, <2>1 DEF Fields, Objects
  <2>3. \A d \in Clients \ {c} : pc'[d] = pc[d] /\ obj'[d] = obj[d]
    BY <1>0, <2>1 DEF Fields
  <2>4. \A d \in Clients : pc'[d] = "recheck" => d \in waitMask'[obj'[d]]
    BY <1>0, <2>2, <2>3 DEF Waits, CallOK
  <2>. QED  BY <1>s, <2>1, <2>4
<1>4. ASSUME NEW c \in Clients, Recheck(c) PROVE Waits'
  <2>f. PICK f : f = obj[c]
    OBVIOUS
  <2>1. /\ f \in Fences /\ pc[c] = "recheck" /\ pc' = [pc EXCEPT ![c] = "idle"]
        /\ obj' = [obj EXCEPT ![c] = INVALID] /\ waited' = [waited EXCEPT ![c] = waited[c] \cup {f}]
        /\ UNCHANGED <<entries, ctl>>
        /\ flags[f] => rxq' = [rxq EXCEPT ![c] = rxq[c] \cup {[fence |-> f, data |-> arg[c], error |-> NoData]}]
    BY <1>4, <2>f DEF Recheck, Return, Goto, Signal, CallInv, Locals, CallOK
  <2>2. FenceWait(c, f)'
    <3>1. CASE flags[f]
      <4>1. [fence |-> f, data |-> arg[c], error |-> NoData] \in rxq'[c]
        BY <1>0, <2>1, <3>1 DEF Fields
      <4>. QED  BY <4>1 DEF FenceWait, Told
    <3>2. CASE ~flags[f]
      BY <2>1, <2>f, <3>2 DEF Waits, FenceWait, entries
    <3>. QED  BY <3>1, <3>2
  <2>3. \A d \in Clients : pc'[d] = "recheck" => pc[d] = "recheck" /\ obj'[d] = obj[d]
    BY <1>0, <2>1 DEF Fields
  <2>4. \A d \in Clients : \A o \in waited'[d] : o \in waited[d] \/ (d = c /\ o = f)
    BY <1>0, <2>1 DEF Fields
  <2>. QED  BY <1>r, <1>s, <2>1, <2>2, <2>3, <2>4
<1>5. ASSUME NEW c \in Clients, ArrayDone(c) PROVE Waits'
  <2>a. PICK a : a = obj[c]
    OBVIOUS
  <2>1. /\ a \in Arrays /\ pc[c] = "child" /\ pc' = [pc EXCEPT ![c] = "idle"]
        /\ obj' = [obj EXCEPT ![c] = INVALID] /\ waited' = [waited EXCEPT ![c] = waited[c] \cup {a}]
        /\ IF signalJoin[c]
           THEN rxq' = [rxq EXCEPT ![c] = rxq[c] \cup {[fence |-> a, data |-> NoData, error |-> arg[c]]}]
           ELSE UNCHANGED <<rxq, join, waitMask>>
    BY <1>5, <2>a DEF ArrayDone, Return, Goto, Signal, CallInv, Locals, CallOK
  <2>2. ArrayWait(c, a)'
    <3>1. CASE signalJoin[c]
      <4>1. [fence |-> a, data |-> NoData, error |-> arg[c]] \in rxq'[c]
        BY <1>0, <2>1, <3>1 DEF Fields
      <4>. QED  BY <4>1 DEF ArrayWait, Told
    <3>2. CASE ~signalJoin[c]
      <4>1. CallJoin(c) /\ \A d \in Clients \ {c} : ~InArray(d)
        BY <2>1, CallStart DEF InArray
      <4>2. \A d \in Clients : ~InArray(d)'
        BY <1>0, <2>1, <4>1 DEF InArray, Fields
      <4>3. a \in Told(c) \/ (join[a] = "live" /\ c \in waitMask[a])
        BY <2>a, <4>1 DEF CallJoin
      <4>. QED  BY <2>1, <3>2, <4>2, <4>3 DEF ArrayWait, CallOn, Told
    <3>. QED  BY <3>1, <3>2
  <2>3. \A d \in Clients : pc'[d] = "recheck" => pc[d] = "recheck" /\ obj'[d] = obj[d]
    BY <1>0, <2>1 DEF Fields
  <2>4. \A d \in Clients : \A o \in waited'[d] : o \in waited[d] \/ (d = c /\ o = a)
    BY <1>0, <2>1 DEF Fields
  <2>. QED  BY <1>r, <1>s, <2>1, <2>2, <2>3, <2>4
<1>6. ASSUME NEW c \in Clients,
             ChildSignaled(c) \/ ChildAdded(c) \/ ChildRefused(c) \/ ArrayInvalid(c) \/ Undo(c) \/ Undone(c)
      PROVE  Waits'
  <2>1. /\ UNCHANGED waited
        /\ \/ UNCHANGED <<pc, obj>>
           \/ pc' = [pc EXCEPT ![c] = "undo"] /\ UNCHANGED obj
           \/ pc' = [pc EXCEPT ![c] = "idle"] /\ obj' = [obj EXCEPT ![c] = INVALID]
    BY <1>6 DEF ChildSignaled, ChildAdded, ChildRefused, ArrayInvalid, Undo, Undone, Return, Goto
  <2>. QED  BY <1>0, <1>1, <2>1 DEF Fields
<1>7. ASSUME NEW c \in Clients,
             (\E o \in Objects : ResetClear(c, o)) \/ ResetSignal(c) \/ ResetDestroy(c) \/ ResetQueues(c)
      PROVE  Waits'
  BY <1>7 DEF Joins, NoReset, InReset, ResetClear, ResetSignal, ResetDestroy, ResetQueues
<1>8. ASSUME CtlStep \/ (\E f \in Fences : CtlSignal(f)) \/ UNCHANGED vars PROVE Waits'
  <2>1. UNCHANGED <<waited, pc, obj>>
    BY <1>8 DEF CtlStep, CtlUnlock, CtlClient, CtlJoin, CtlSignal, vars, calls
  <2>. QED  BY <1>1, <2>1
<1>. QED  BY <1>2, <1>3, <1>4, <1>5, <1>6, <1>7, <1>8 DEF Next, DriverStep

\* No signal is lost between the registration of a client and the flag of the fence, nor
\* between the children of an array and its join fence.
THEOREM SignalNoLostSignal == OneByOne /\ Spec => []NoLostSignal
<1>. SUFFICES ASSUME OneByOne PROVE Spec => []NoLostSignal
  OBVIOUS
<1>1. Init => Waits
  BY DEF Init, Waits
<1>2. CallInv /\ Joins /\ Waits /\ [Next]_vars => Waits'
  BY WaitsKept
<1>3. CallInv /\ Joins /\ Waits => NoLostSignal
  <2>. SUFFICES ASSUME CallInv, Joins, Waits, NEW c \in Clients, NEW o \in waited[c], o \notin Told(c)
                PROVE  LET fs == IF o \in Fences THEN {o} ELSE {Children[o][i] : i \in DOMAIN Children[o]}
                       IN ~(\A f \in fs : flags[f] /\ Unlocked(f))
    BY DEF NoLostSignal
  <2>0. Fields
    BY FieldTypes
  <2>1. CASE o \in Fences
    BY <2>1 DEF Waits, FenceWait, Unlocked
  <2>2. CASE o \notin Fences
    <3>1. o \in Arrays
      BY <2>0, <2>2 DEF Fields, Objects
    <3>2. join[o] = "live" /\ (\A d \in Clients : ~CallOn(d, o)) /\ ArraySound(o)
      BY <3>1 DEF Waits, ArrayWait, Joins
    <3>3. ~Failing(o) /\ \A i : Passed(o, i)
      BY <3>2 DEF Failing, Passed, CallOn, InArray
    <3>4. pending[o] # 0
      BY <3>2, <3>3 DEF ArraySound, Counted, CallOn, InArray
    <3>5. Open(o) # {}
      BY <3>2, <3>3, <3>4, FS_EmptySet DEF ArraySound, Counted
    <3>6. PICK i \in DOMAIN Children[o] : Uncounted(o, i)
      BY <3>5 DEF Open
    <3>7. Children[o][i] \in Fences
      BY <3>2, <3>3 DEF ArraySound, PassedListed
    <3>8. ~flags[Children[o][i]] \/ ctl.fence = Children[o][i]
      BY <3>3, <3>6, <3>7 DEF Uncounted, IsHwFence, Joins, NoReset, Counting
    <3>. QED  BY <2>2, <3>8 DEF Unlocked
  <2>. QED  BY <2>1, <2>2
<1>. QED  BY <1>1, <1>2, <1>3, SignalCalls, SignalJoins, PTL DEF Spec

=============================================================================
