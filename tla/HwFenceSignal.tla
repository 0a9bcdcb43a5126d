---------------------------- MODULE HwFenceSignal ----------------------------
(***************************************************************************)
(* Waiting on hw-fences and signaling them.  A client registers itself in  *)
(* the wait mask of a fence, or has a join fence made for a fence-array,   *)
(* which counts its unsignaled children; every child lists the join fences *)
(* it is part of.  FenceCTL, a firmware outside this repository, marks a   *)
(* fence as signaled, writes to the Rx queue of each waiting client and    *)
(* counts down its join fences.  The driver writes to the Rx queues itself *)
(* when the fence is already signaled, and in the reset of its allocator.  *)
(*                                                                         *)
(* Finding an entry is atomic here and an entry keeps its place (the table *)
(* is HwFenceTable); a write to an Rx queue succeeds (the queue is         *)
(* HwFenceQueue) and rxq holds what was written since the last reset.      *)
(* Clients are those that may wait: registered, with an Rx queue that the  *)
(* driver writes (update_rxq).  A wait on a list of fences is one call for *)
(* each of them.                                                           *)
(***************************************************************************)
EXTENDS Integers, Sequences, FiniteSets, FiniteSetsExt

CONSTANTS
  Fences,        \* the dma-fences that have a hw-fence
  Arrays,        \* the fence-arrays
  Children,      \* the fences of each array; one not in Fences is no hw-fence
  Clients,       \* client ids
  DataClients,   \* the clients with a hw_fence_client_data_id
  Allocator,     \* the client that created a fence
  MAX_PARENTS,   \* MSM_HW_FENCE_MAX_JOIN_PARENTS
  FenceData,     \* client, fence: the client_data it may pass with a wait on the fence
  ArrayData,     \* the client_data passed with a wait on an array
  SerialArrays,  \* arrays are processed one at a time
  Resets,        \* client: the flags it may be reset with, once
  QuietResets,   \* a reset and a wait call never overlap
  QuietJoins,    \* a reset begins only when no join fence is in use
  MaxCalls       \* bound, for each client: its calls when it waits once more

Objects == Fences \cup Arrays
INVALID == "invalid"          \* HW_FENCE_INVALID_PARENT_FENCE
NoData == 0
ErrorReset == 1               \* MSM_HW_FENCE_ERROR_RESET
Data == ArrayData \cup UNION {FenceData[c][f] : c \in Clients, f \in Fences}

\* reset_flags: none 0, without error 2, without destroy 3, both 4.
WithoutError == {2, 4}
WithoutDestroy == {3, 4}
ResetFlags == {NoData} \cup WithoutError \cup WithoutDestroy

ASSUME ObjectsAssumption ==
  /\ Fences \cap Arrays = {} /\ INVALID \notin Arrays
  /\ \A a \in Arrays : Children[a] \in Seq(Fences \cup {"plain"})
  /\ \A a \in Arrays : \A i, j \in DOMAIN Children[a] : Children[a][i] = Children[a][j] => i = j
ASSUME ClientsAssumption ==
  /\ Clients \subseteq Nat /\ IsFiniteSet(Clients)
  /\ DataClients \subseteq Clients
  /\ Resets \in [Clients -> SUBSET ResetFlags]
  /\ Allocator \in [Fences -> Clients]
  /\ MAX_PARENTS \in Nat \ {0}
  /\ Data \subseteq Nat
  /\ MaxCalls \in [Clients -> Nat]
  /\ {SerialArrays, QuietResets, QuietJoins} \subseteq BOOLEAN

VARIABLES
  valid,        \* fence: the entry is in use
  flags,        \* fence: MSM_HW_FENCE_FLAG_SIGNAL
  waitMask,     \* fence or join fence: wait_client_mask
  clientData,   \* fence or join fence: client_data
  parents,      \* fence: parent_list
  parentsCnt,   \* fence: parents_cnt
  join,         \* array: its join fence is "none", "live", "signaled" or "undone"
  pending,      \* join fence: pending_child_cnt
  pc, obj, arg, idx, signalJoin,   \* the call of each client
  rxq,          \* client: messages written to its Rx queue
  asked,        \* client: the calls it ever made, with their argument
  waited,       \* client: objects whose wait call returned 0, since its reset
  todo,         \* client: entries its reset has not seen yet
  ctl           \* FenceCTL: the fence it has locked and whom it has to tell

entries == <<valid, flags, waitMask, clientData, parents, parentsCnt, join, pending>>
calls == <<pc, obj, arg, idx, signalJoin>>
vars == <<entries, calls, rxq, asked, waited, todo, ctl>>

Idle == [fence |-> INVALID, clients |-> {}, joins |-> {}]
Message == [fence : Objects, data : Data \cup {NoData}, error : Data \cup {NoData, ErrorReset}]

Init ==
  /\ valid = [f \in Fences |-> TRUE]
  /\ flags = [f \in Fences |-> FALSE]
  /\ waitMask = [o \in Objects |-> {}]
  /\ clientData = [o \in Objects |-> [c \in DataClients |-> NoData]]
  /\ parents = [f \in Fences |-> [j \in 1 .. MAX_PARENTS |-> INVALID]]
  /\ parentsCnt = [f \in Fences |-> 0]
  /\ join = [a \in Arrays |-> "none"]
  /\ pending = [a \in Arrays |-> 0]
  /\ pc = [c \in Clients |-> "idle"]
  /\ obj = [c \in Clients |-> INVALID]
  /\ arg = [c \in Clients |-> NoData]
  /\ idx = [c \in Clients |-> 0]
  /\ signalJoin = [c \in Clients |-> FALSE]
  /\ rxq = [c \in Clients |-> {}]
  /\ asked = [c \in Clients |-> {}]
  /\ waited = [c \in Clients |-> {}]
  /\ todo = [c \in Clients |-> {}]
  /\ ctl = Idle

Unlocked(f) == ctl.fence # f
InArray(c) == pc[c] \in {"child", "undo"}
InReset(c) == pc[c] \in {"clear", "signal", "destroy"}

\* _fence_ctl_signal
Signal(c, o, data, error) ==
  rxq' = [rxq EXCEPT ![c] = @ \cup {[fence |-> o, data |-> data, error |-> error]}]

Goto(c, label) == pc' = [pc EXCEPT ![c] = label]

\* The call of a client ends and its local variables are gone.
Return(c) ==
  /\ Goto(c, "idle")
  /\ obj' = [obj EXCEPT ![c] = INVALID]
  /\ arg' = [arg EXCEPT ![c] = NoData]
  /\ idx' = [idx EXCEPT ![c] = 0]
  /\ signalJoin' = [signalJoin EXCEPT ![c] = FALSE]

\* The objects a client ever called for, and the call itself.
Asked(c) == {r.fence : r \in asked[c]}
Ask(c, o, data) == asked' = [asked EXCEPT ![c] = @ \cup {[fence |-> o, data |-> data]}]

\* Mutant: client_data is not kept.
StoreNothing(c, o, data) == clientData

StoreData(c, o, data) ==
  IF data = NoData THEN clientData ELSE [clientData EXCEPT ![o][c] = data]

\* _hw_fence_process_join_fence(create = false)
DestroyJoin(a, why) ==
  /\ join' = [join EXCEPT ![a] = why]
  /\ waitMask' = [waitMask EXCEPT ![a] = {}]

\* The checks with which a wait call begins; each client asks once for each
\* fence or array.
MayWait(c, o, data) ==
  /\ pc[c] = "idle" /\ Cardinality(asked[c]) < MaxCalls[c]
  /\ o \notin Asked(c)
  /\ data # NoData => c \in DataClients
  /\ QuietResets => \A d \in Clients : ~InReset(d)

(***************************************************************************)
(* hw_fence_register_wait_client                                           *)
(***************************************************************************)
WaitFence(c, f, data) ==
  /\ MayWait(c, f, data)
  /\ valid[f]
  /\ Goto(c, "register")
  /\ obj' = [obj EXCEPT ![c] = f]
  /\ arg' = [arg EXCEPT ![c] = data]
  /\ Ask(c, f, data)
  /\ UNCHANGED <<entries, idx, signalJoin, rxq, waited, todo, ctl>>

\* The entry that was found is locked and changed, even if it has been freed.
Register(c) ==
  /\ pc[c] = "register"
  /\ Unlocked(obj[c])
  /\ waitMask' = [waitMask EXCEPT ![obj[c]] = @ \cup {c}]
  /\ clientData' = StoreData(c, obj[c], arg[c])
  /\ Goto(c, "recheck")
  /\ UNCHANGED <<valid, flags, parents, parentsCnt, join, pending,
                 obj, arg, idx, signalJoin, rxq, asked, waited, todo, ctl>>

\* Mutant: the flag is not looked at again.
RecheckNot(c) ==
  /\ pc[c] = "recheck"
  /\ Return(c)
  /\ waited' = [waited EXCEPT ![c] = @ \cup {obj[c]}]
  /\ UNCHANGED <<entries, rxq, asked, todo, ctl>>

\* The flag is read without the lock.
Recheck(c) ==
  /\ pc[c] = "recheck"
  /\ IF flags[obj[c]] THEN Signal(c, obj[c], arg[c], NoData) ELSE UNCHANGED rxq
  /\ Return(c)
  /\ waited' = [waited EXCEPT ![c] = @ \cup {obj[c]}]
  /\ UNCHANGED <<entries, asked, todo, ctl>>

(***************************************************************************)
(* hw_fence_process_fence_array                                            *)
(***************************************************************************)
\* Mutant: the join fence is reserved like any other fence.
JoinPendingNone(a) == 0

\* _reserve_join_fence
JoinPending(a) == Len(Children[a])

\* The join fence is created and the client registered in its wait mask.
WaitArray(c, a, data) ==
  /\ MayWait(c, a, data)
  /\ join[a] = "none"
  /\ SerialArrays => \A d \in Clients : ~InArray(d)
  /\ join' = [join EXCEPT ![a] = "live"]
  /\ pending' = [pending EXCEPT ![a] = JoinPending(a)]
  /\ waitMask' = [waitMask EXCEPT ![a] = {c}]
  /\ Goto(c, "child")
  /\ obj' = [obj EXCEPT ![c] = a]
  /\ arg' = [arg EXCEPT ![c] = data]
  /\ idx' = [idx EXCEPT ![c] = 1]
  /\ signalJoin' = [signalJoin EXCEPT ![c] = FALSE]
  /\ Ask(c, a, data)
  /\ UNCHANGED <<valid, flags, clientData, parents, parentsCnt, rxq, waited, todo, ctl>>

AtChild(c) == pc[c] = "child" /\ idx[c] <= Len(Children[obj[c]])
Child(c) == Children[obj[c]][idx[c]]
IsHwFence(x) == x \in Fences /\ valid[x]

\* Where parent_list gets its next parent, and when it may not have one.
ParentSlot(f) == parentsCnt[f] + 1
TooManyParents(n) == n >= MAX_PARENTS

\* Mutant: the join fence has one child less.
ChildSignaledUncounted(c) ==
  /\ AtChild(c) /\ IsHwFence(Child(c)) /\ Unlocked(Child(c))
  /\ flags[Child(c)]
  /\ idx' = [idx EXCEPT ![c] = @ + 1]
  /\ UNCHANGED <<entries, signalJoin, pc, obj, arg, rxq, asked, waited, todo, ctl>>

\* Mutant: the flag of the child is not looked at.
ChildSignaledAny(c) ==
  /\ AtChild(c) /\ IsHwFence(Child(c)) /\ Unlocked(Child(c))
  /\ pending' = [pending EXCEPT ![obj[c]] = @ - 1]
  /\ signalJoin' = [signalJoin EXCEPT ![c] = @ \/ pending'[obj[c]] = 0]
  /\ idx' = [idx EXCEPT ![c] = @ + 1]
  /\ UNCHANGED <<valid, flags, waitMask, clientData, parents, parentsCnt, join,
                 pc, obj, arg, rxq, asked, waited, todo, ctl>>

\* A child that is already signaled is counted here.
ChildSignaled(c) ==
  /\ AtChild(c) /\ IsHwFence(Child(c)) /\ Unlocked(Child(c))
  /\ flags[Child(c)]
  /\ pending' = [pending EXCEPT ![obj[c]] = @ - 1]
  /\ signalJoin' = [signalJoin EXCEPT ![c] = @ \/ pending'[obj[c]] = 0]
  /\ idx' = [idx EXCEPT ![c] = @ + 1]
  /\ UNCHANGED <<valid, flags, waitMask, clientData, parents, parentsCnt, join,
                 pc, obj, arg, rxq, asked, waited, todo, ctl>>

\* Any other child gets the join fence as a parent ...
ChildAdded(c) ==
  /\ AtChild(c) /\ IsHwFence(Child(c)) /\ Unlocked(Child(c))
  /\ ~flags[Child(c)]
  /\ ~TooManyParents(parentsCnt[Child(c)] + 1)
  /\ parentsCnt' = [parentsCnt EXCEPT ![Child(c)] = @ + 1]
  /\ parents' = [parents EXCEPT ![Child(c)][ParentSlot(Child(c))] = obj[c]]
  /\ idx' = [idx EXCEPT ![c] = @ + 1]
  /\ UNCHANGED <<valid, flags, waitMask, clientData, join, pending,
                 pc, obj, arg, signalJoin, rxq, asked, waited, todo, ctl>>

\* ... unless it has too many, which fails the call ...
ChildRefused(c) ==
  /\ AtChild(c) /\ IsHwFence(Child(c)) /\ Unlocked(Child(c))
  /\ ~flags[Child(c)]
  /\ TooManyParents(parentsCnt[Child(c)] + 1)
  /\ Goto(c, "undo")
  /\ UNCHANGED <<entries, obj, arg, idx, signalJoin, rxq, asked, waited, todo, ctl>>

\* ... as a child that is not a hw-fence does, and an array without children,
\* for which there is no child to clean up (array->fences is NULL).
ArrayInvalid(c) ==
  /\ pc[c] = "child"
  /\ IF AtChild(c) THEN ~IsHwFence(Child(c)) ELSE Children[obj[c]] = << >>
  /\ Goto(c, "undo")
  /\ idx' = [idx EXCEPT ![c] = IF AtChild(c) THEN @ ELSE 0]
  /\ UNCHANGED <<entries, obj, arg, signalJoin, rxq, asked, waited, todo, ctl>>

\* All children were seen.  If all were signaled the driver signals the client
\* and destroys the join fence; client_data goes where the error belongs.
ArrayDone(c) ==
  LET a == obj[c] IN
  /\ pc[c] = "child" /\ ~AtChild(c) /\ Children[a] # << >>
  /\ clientData' = StoreData(c, a, arg[c])
  /\ IF signalJoin[c]
     THEN Signal(c, a, NoData, arg[c]) /\ DestroyJoin(a, "signaled")
     ELSE UNCHANGED <<rxq, join, waitMask>>
  /\ Return(c)
  /\ waited' = [waited EXCEPT ![c] = @ \cup {a}]
  /\ UNCHANGED <<valid, flags, parents, parentsCnt, pending, asked, todo, ctl>>

\* _cleanup_join_and_child_fences, one child: the join fence leaves the list of
\* the child, the parents behind it stay where they are.
Undo(c) ==
  LET x == Child(c)
      mine == {j \in 1 .. parentsCnt[x] : parents[x][j] = obj[c]}
  IN
  /\ pc[c] = "undo" /\ idx[c] > 0
  /\ IF IsHwFence(x)
     THEN /\ Unlocked(x)
          /\ parents' = [parents EXCEPT ![x] =
               [j \in 1 .. MAX_PARENTS |-> IF j \in mine THEN INVALID ELSE parents[x][j]]]
          /\ parentsCnt' = [parentsCnt EXCEPT ![x] = @ - Cardinality(mine)]
     ELSE UNCHANGED <<parents, parentsCnt>>
  /\ idx' = [idx EXCEPT ![c] = @ - 1]
  /\ UNCHANGED <<valid, flags, waitMask, clientData, join, pending,
                 pc, obj, arg, signalJoin, rxq, asked, waited, todo, ctl>>

\* ... and its end: the join fence is destroyed and the call fails.
Undone(c) ==
  /\ pc[c] = "undo" /\ idx[c] = 0
  /\ DestroyJoin(obj[c], "undone")
  /\ Return(c)
  /\ UNCHANGED <<valid, flags, clientData, parents, parentsCnt, pending,
                 rxq, asked, waited, todo, ctl>>

(***************************************************************************)
(* FenceCTL (external)                                                     *)
(***************************************************************************)
\* It locks a fence for which it found an entry in a Tx queue.
CtlSignal(f) ==
  /\ ctl = Idle
  /\ valid[f] /\ ~flags[f]
  /\ flags' = [flags EXCEPT ![f] = TRUE]
  /\ ctl' = [fence |-> f, clients |-> waitMask[f],
             joins |-> {parents[f][j] : j \in 1 .. MAX_PARENTS} \ {INVALID}]
  /\ UNCHANGED <<valid, waitMask, clientData, parents, parentsCnt, join, pending,
                 calls, rxq, asked, waited, todo>>

DataOf(o, c) == IF c \in DataClients THEN clientData[o][c] ELSE NoData

CtlClient(c) ==
  /\ c \in ctl.clients
  /\ Signal(c, ctl.fence, DataOf(ctl.fence, c), NoData)
  /\ ctl' = [ctl EXCEPT !.clients = @ \ {c}]
  /\ UNCHANGED <<entries, calls, asked, waited, todo>>

\* The last child signals the join fence, which is then done.
CtlJoin(a) ==
  /\ a \in ctl.joins
  /\ ctl' = [ctl EXCEPT !.joins = @ \ {a}]
  /\ pending' = [pending EXCEPT ![a] = @ - 1]
  /\ IF pending[a] = 1
     THEN /\ rxq' = [c \in Clients |-> rxq[c] \cup
               {[fence |-> a, data |-> DataOf(a, d), error |-> NoData] : d \in waitMask[a] \cap {c}}]
          /\ DestroyJoin(a, "signaled")
     ELSE UNCHANGED <<rxq, join, waitMask>>
  /\ UNCHANGED <<valid, flags, clientData, parents, parentsCnt,
                 calls, asked, waited, todo>>

CtlUnlock ==
  /\ ctl # Idle /\ ctl.clients = {} /\ ctl.joins = {}
  /\ ctl' = Idle
  /\ UNCHANGED <<entries, calls, rxq, asked, waited, todo>>

(***************************************************************************)
(* msm_hw_fence_reset_client: hw_fence_utils_cleanup_fence for each entry, *)
(* then hw_fence_utils_reset_queues.  arg holds the reset flags.           *)
(***************************************************************************)
Reset(c, resetFlag) ==
  /\ pc[c] = "idle" /\ "reset" \notin Asked(c)
  /\ QuietResets => \A d \in Clients : pc[d] = "idle"
  /\ QuietJoins => \A a \in Arrays : join[a] # "live"
  /\ Goto(c, "clear")
  /\ arg' = [arg EXCEPT ![c] = resetFlag]
  /\ todo' = [todo EXCEPT ![c] = Objects]
  /\ Ask(c, "reset", resetFlag)
  /\ UNCHANGED <<entries, obj, idx, signalJoin, rxq, waited, ctl>>

Allocated(c, o) == o \in Fences /\ valid[o] /\ Allocator[o] = c

\* Mutant: the wait bit is cleared only in fences of the client itself.
ResetClearOwn(c, o) ==
  /\ pc[c] = "clear" /\ o \in todo[c]
  /\ Unlocked(o)
  /\ waitMask' = IF Allocated(c, o) THEN [waitMask EXCEPT ![o] = @ \ {c}] ELSE waitMask
  /\ todo' = [todo EXCEPT ![c] = @ \ {o}]
  /\ obj' = [obj EXCEPT ![c] = o]
  /\ Goto(c, IF Allocated(c, o) THEN "signal" ELSE "clear")
  /\ UNCHANGED <<valid, flags, clientData, parents, parentsCnt, join, pending,
                 arg, idx, signalJoin, rxq, asked, waited, ctl>>

\* The wait bit of the client is cleared under the lock of the entry.
ResetClear(c, o) ==
  /\ pc[c] = "clear" /\ o \in todo[c]
  /\ Unlocked(o)
  /\ waitMask' = [waitMask EXCEPT ![o] = @ \ {c}]
  /\ todo' = [todo EXCEPT ![c] = @ \ {o}]
  /\ obj' = [obj EXCEPT ![c] = o]
  /\ Goto(c, IF Allocated(c, o) THEN "signal" ELSE "clear")
  /\ UNCHANGED <<valid, flags, clientData, parents, parentsCnt, join, pending,
                 arg, idx, signalJoin, rxq, asked, waited, ctl>>

\* Mutant: the loop over the client ids starts one too late.
SignaledButFirst(o) == waitMask[o] \ {Min(Clients)}

\* The clients that _signal_all_wait_clients signals, in the order of their id.
SignaledInReset(o) == waitMask[o]

\* Mutant: everyone gets the data of the last waiting client.
ResetDataLast(o, c) ==
  LET all == waitMask[o] \cap DataClients
  IN IF all = {} THEN NoData ELSE clientData[o][Max(all)]

\* A client without data gets what the one before it left in the local variable.
ResetData(o, c) ==
  LET before == {d \in waitMask[o] \cap DataClients : d <= c}
  IN IF before = {} THEN NoData ELSE clientData[o][Max(before)]

\* Mutant: MSM_HW_FENCE_RESET_WITHOUT_ERROR has no effect.
ResetErrorAlways(c) == ErrorReset

ResetError(c) == IF arg[c] \in WithoutError THEN NoData ELSE ErrorReset

\* _signal_all_wait_clients, if the flag (read without the lock) is not set.
ResetSignal(c) ==
  LET f == obj[c] IN
  /\ pc[c] = "signal"
  /\ rxq' = IF flags[f] THEN rxq ELSE
       [d \in Clients |-> rxq[d] \cup
         {[fence |-> f, data |-> ResetData(f, w), error |-> ResetError(c)] :
            w \in SignaledInReset(f) \cap {d}}]
  /\ Goto(c, IF arg[c] \in WithoutDestroy THEN "clear" ELSE "destroy")
  /\ UNCHANGED <<entries, obj, arg, idx, signalJoin, asked, waited, todo, ctl>>

\* hw_fence_destroy: _unreserve_hw_fence clears the entry.
ResetDestroy(c) ==
  LET f == obj[c] IN
  /\ pc[c] = "destroy"
  /\ Unlocked(f)
  /\ valid' = [valid EXCEPT ![f] = FALSE]
  /\ flags' = [flags EXCEPT ![f] = FALSE]
  /\ waitMask' = [waitMask EXCEPT ![f] = {}]
  /\ clientData' = [clientData EXCEPT ![f] = [d \in DataClients |-> NoData]]
  /\ parents' = [parents EXCEPT ![f] = [j \in 1 .. MAX_PARENTS |-> INVALID]]
  /\ parentsCnt' = [parentsCnt EXCEPT ![f] = 0]
  /\ Goto(c, "clear")
  /\ UNCHANGED <<join, pending, obj, arg, idx, signalJoin, rxq, asked, waited, todo, ctl>>

\* hw_fence_utils_reset_queues: the client no longer waits for anything.
ResetQueues(c) ==
  /\ pc[c] = "clear" /\ todo[c] = {}
  /\ rxq' = [rxq EXCEPT ![c] = {}]
  /\ Return(c)
  /\ waited' = [waited EXCEPT ![c] = {}]
  /\ UNCHANGED <<entries, asked, todo, ctl>>

DriverStep(c) ==
  \/ Register(c) \/ Recheck(c)
  \/ ChildSignaled(c) \/ ChildAdded(c) \/ ChildRefused(c)
  \/ ArrayInvalid(c) \/ ArrayDone(c)
  \/ Undo(c) \/ Undone(c)
  \/ \E o \in Objects : ResetClear(c, o)
  \/ ResetSignal(c) \/ ResetDestroy(c) \/ ResetQueues(c)

CtlStep ==
  \/ \E c \in Clients : CtlClient(c)
  \/ \E a \in Arrays : CtlJoin(a)
  \/ CtlUnlock

Call(c) ==
  \/ \E f \in Fences : \E d \in FenceData[c][f] : WaitFence(c, f, d)
  \/ \E a \in Arrays, d \in ArrayData : WaitArray(c, a, d)
  \/ \E r \in Resets[c] : Reset(c, r)

Next ==
  \/ \E c \in Clients : Call(c) \/ DriverStep(c)
  \/ CtlStep
  \/ \E f \in Fences : CtlSignal(f)

Spec == Init /\ [][Next]_vars

\* A call and FenceCTL run to their end, and each fence is signaled at last,
\* as a dma-fence must be; nobody has to call.
Fairness ==
  /\ \A c \in Clients : WF_vars(DriverStep(c))
  /\ WF_vars(CtlStep)
  /\ \A f \in Fences : WF_vars(CtlSignal(f))

FairSpec == Spec /\ Fairness

-----------------------------------------------------------------------------
\* Every variable has its type; no count leaves its range.
TypeOK ==
  /\ valid \in [Fences -> BOOLEAN] /\ flags \in [Fences -> BOOLEAN]
  /\ waitMask \in [Objects -> SUBSET Clients]
  /\ clientData \in [Objects -> [DataClients -> Data \cup {NoData}]]
  /\ parents \in [Fences -> [1 .. MAX_PARENTS -> Arrays \cup {INVALID}]]
  /\ parentsCnt \in [Fences -> 0 .. MAX_PARENTS]
  /\ join \in [Arrays -> {"none", "live", "signaled", "undone"}]
  /\ pending \in [Arrays -> Nat]
  /\ pc \in [Clients -> {"idle", "register", "recheck", "child", "undo",
                         "clear", "signal", "destroy"}]
  /\ obj \in [Clients -> Objects \cup {INVALID}]
  /\ arg \in [Clients -> Data \cup ResetFlags]
  /\ idx \in [Clients -> Nat]
  /\ signalJoin \in [Clients -> BOOLEAN]
  /\ rxq \in [Clients -> SUBSET Message]
  /\ asked \in [Clients -> SUBSET [fence : Objects \cup {"reset"},
                                   data : Data \cup ResetFlags]]
  /\ waited \in [Clients -> SUBSET Objects]
  /\ todo \in [Clients -> SUBSET Objects]
  /\ ctl \in [fence : Fences \cup {INVALID}, clients : SUBSET Clients, joins : SUBSET Arrays]

Told(c) == {m.fence : m \in rxq[c]}

\* The call for array a is done with its i-th child; it takes its work back.
Passed(a, i) == \A c \in Clients : pc[c] = "child" /\ obj[c] = a => idx[c] > i
Failing(a) == \E c \in Clients : pc[c] = "undo" /\ obj[c] = a

\* FenceCTL still has to count down join fence a for fence f.
Counting(f, a) == ctl.fence = f /\ a \in ctl.joins

\* pending_child_cnt is the number of children that have not been counted: the
\* driver and FenceCTL, each under the locks of child and join fence, never both
\* count a child and never both leave it to the other.
PendingExact ==
  \A a \in Arrays : join[a] = "live" /\ ~Failing(a) =>
    pending[a] = Cardinality({i \in DOMAIN Children[a] :
      LET f == Children[a][i]
      IN ~Passed(a, i) \/ ~IsHwFence(f) \/ ~flags[f] \/ Counting(f, a)})

\* "@parent_cnt: total number of parents for a child-fence in a join-fence": an
\* unsignaled child knows every join fence that waits for it.
ParentsListed ==
  \A a \in Arrays : \A i \in DOMAIN Children[a] :
    LET f == Children[a][i]
    IN join[a] = "live" /\ ~Failing(a) /\ Passed(a, i) /\ IsHwFence(f) /\ ~flags[f]
         => \E j \in 1 .. MAX_PARENTS : parents[f][j] = a

\* What FenceCTL counts down is a join fence in use: a failed call has taken its
\* join fence out of every child before it destroys it.
NoDanglingParent ==
  /\ \A f \in Fences, j \in 1 .. MAX_PARENTS :
       ~flags[f] /\ parents[f][j] # INVALID => join[parents[f][j]] = "live"
  /\ \A a \in ctl.joins : join[a] = "live"

\* The books of driver and FenceCTL about arrays agree: no child is counted twice or
\* forgotten, however calls for arrays that share it succeed and fail.
JoinsExact == PendingExact /\ ParentsListed /\ NoDanglingParent

\* A client is told of an array only when all its fences are signaled.
JoinWaitsForAll ==
  \A c \in Clients : \A a \in Arrays \cap Told(c) :
    \A i \in DOMAIN Children[a] : flags[Children[a][i]]

\* No signal falls between the registration of a client and the flag of the
\* fence: when both are there and FenceCTL is done with the fence, the client
\* has been told; and of an array, when that is true of all its fences.
NoLostSignal ==
  \A c \in Clients : \A o \in waited[c] :
    LET fs == IF o \in Fences THEN {o} ELSE {Children[o][i] : i \in DOMAIN Children[o]}
    IN (\A f \in fs : flags[f] /\ Unlocked(f)) => o \in Told(c)

\* "@client_data: data passed from and returned to waiting client upon fence
\* signaling": each message carries what its receiver passed in its wait call.
DataReturned ==
  \A c \in Clients : \A m \in rxq[c] : [fence |-> m.fence, data |-> m.data] \in asked[c]

\* "@error: error code for this fence": the driver reports an error only for a
\* fence whose allocator was reset, and not without error.
ErrorMeansReset ==
  \A c \in Clients : \A m \in rxq[c] : m.error # NoData =>
    /\ m.fence \in Fences
    /\ \E r \in asked[Allocator[m.fence]] : r.fence = "reset" /\ r.data \notin WithoutError

\* A client is in the wait mask of those entries only that it waits for: in
\* none after its reset.
MaskMeansWaiting ==
  \A o \in Objects : \A c \in waitMask[o] : o \in waited[c] \/ obj[c] = o \/ InReset(c)

\* "if fence is not signaled, signal with error all the waiting clients": whoever
\* waits for a fence or an array is told, by FenceCTL or by the driver, unless
\* its own reset ends the wait.
WaitersTold ==
  \A c \in Clients, o \in Objects : o \in waited[c] ~> o \in Told(c) \/ o \notin waited[c]
=============================================================================
