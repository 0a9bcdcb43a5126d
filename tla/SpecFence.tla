------------------------------ MODULE SpecFence ------------------------------
(***************************************************************************)
(* Speculative fences: a fence-array is created over dummy children, given *)
(* away as a sync file, and bound to real fences later.  The display       *)
(* driver is the consumer: for each frame it waits for the bind, looks     *)
(* whether all children are hw-fences, and waits in software if not.       *)
(*                                                                         *)
(* The dma-fence and dma-fence-array core of the kernel is external: an    *)
(* array counts num_pending down with each child that signals, once its    *)
(* signaling has been enabled, and is signaled from an irq work.  An array *)
(* is referenced by its tracker node, its sync file, the calls that work   *)
(* on it, its registered callbacks and its irq work; when the last of them *)
(* goes it is released and puts its children.  An allocation that fails    *)
(* undoes the whole creation and is left out.                              *)
(***************************************************************************)
EXTENDS Integers, FiniteSets

CONSTANTS
  Arrays,                \* the fence-arrays that are created, once each
  NumFences,             \* array: num_fences of its creation
  SignalAll,             \* the arrays created with SPEC_FENCE_SIGNAL_ALL
  UserFences,            \* the fences an array can be bound to
  HwFences,              \* those with MSM_HW_FENCE_FLAG_ENABLED_BIT
  Binders,               \* threads that create and bind
  Readers,               \* display commits, a frame at a time
  MAX_DEVICE_SUPPORTED,
  OneBindAtATime         \* two binds of one array do not overlap

Dummy == "dummy"
BadFd == "bad fd"
None == "none"
Threads == Binders \cup Readers
Slots(a) == 1 .. NumFences[a]

ASSUME FencesAssumption ==
  /\ NumFences \in [Arrays -> Nat \ {0}]      \* FENCE_MIN
  /\ SignalAll \subseteq Arrays /\ HwFences \subseteq UserFences
  /\ Arrays \cap (UserFences \cup {Dummy, None}) = {}
  /\ {Dummy, BadFd} \cap UserFences = {}
  /\ IsFiniteSet(Arrays) /\ IsFiniteSet(UserFences)
ASSUME ThreadsAssumption ==
  /\ Binders \cap Readers = {}
  /\ MAX_DEVICE_SUPPORTED \in Nat \ {0}
  /\ OneBindAtATime \in BOOLEAN

VARIABLES
  opened,     \* device_available
  made,       \* the arrays that were created
  files,      \* the arrays whose sync file is open
  tracker,    \* fence_array_list
  children,   \* array: fences
  pending,    \* array: num_pending
  enabled,    \* arrays with DMA_FENCE_FLAG_ENABLE_SIGNAL_BIT
  bound,      \* arrays with SPEC_FENCE_FLAG_FENCE_ARRAY_BOUND
  signaled,   \* signaled arrays and fences
  error,      \* arrays with an error
  callbacks,  \* array: children that hold a callback of the array
  irqWork,    \* arrays whose irq work is queued
  held,       \* references to the dummy and to each fence, counted
  forced,     \* arrays that were tracked at a last close of the device
  pc, arg     \* thread: where its call is, and the array it works on

fence == <<children, pending, enabled, bound, signaled, error, callbacks, irqWork>>
vars == <<opened, made, files, tracker, fence, held, forced, pc, arg>>

Init ==
  /\ opened = 0
  /\ made = {} /\ files = {} /\ tracker = {}
  /\ children = [a \in Arrays |-> [i \in Slots(a) |-> Dummy]]
  /\ pending = [a \in Arrays |-> IF a \in SignalAll THEN NumFences[a] ELSE 1]
  /\ enabled = {} /\ bound = {} /\ signaled = {} /\ error = {}
  /\ callbacks = [a \in Arrays |-> {}]
  /\ irqWork = {}
  /\ held = [f \in UserFences \cup {Dummy} |-> IF f = Dummy THEN 1 ELSE 0]
  /\ forced = {}
  /\ pc = [t \in Threads |-> "idle"]
  /\ arg = [t \in Threads |-> None]

-----------------------------------------------------------------------------
(* The dma-fence core. *)

Referenced(a) ==
  \/ a \in tracker \cup files \cup irqWork
  \/ callbacks[a] # {}
  \/ \E t \in Threads : arg[t] = a

\* How many children of the arrays in S are f.
Uses(f, S) ==
  Cardinality({s \in UNION {{a} \X Slots(a) : a \in S} : children[s[1]][s[2]] = f})

\* dma_fence_put of an array: the last reference takes those of its children.
PutArrays ==
  LET released == {a \in Arrays : Referenced(a) /\ ~Referenced(a)'}
  IN held' = IF released = {} THEN held
             ELSE [f \in DOMAIN held |-> held[f] - Uses(f, released)]

\* dma_fence_is_signaled signals an array that has nothing pending.
Expired(a) == a \in signaled \/ pending[a] <= 0
SignalExpired(S) == signaled' = signaled \cup {a \in S : Expired(a)}

\* The spinlock of an array, held from a failing bind to its error.
Unlocked(a) == \A b \in Binders : ~(pc[b] = "error" /\ arg[b] = a)

\* dma_fence_is_signaled takes the lock only to signal.
MayAsk(a) == Expired(a) /\ a \notin signaled => Unlocked(a)

\* dma_fence_array_enable_signaling: a child that is signaled is counted at
\* once, and the one that leaves nothing pending ends the loop.
EnableSignaling(a) ==
  LET done(i) == {j \in Slots(a) : j <= i /\ children[a][j] \in signaled}
      last == {i \in Slots(a) : /\ children[a][i] \in signaled
                                /\ Cardinality(done(i)) = pending[a]}
      seen == {i \in Slots(a) : \A l \in last : i <= l}
  IN IF a \in enabled \cup signaled
       THEN /\ enabled' = enabled \cup {a}
            /\ UNCHANGED <<pending, callbacks, signaled>>
       ELSE /\ enabled' = enabled \cup {a}
            /\ pending' = [pending EXCEPT ![a] =
                             @ - Cardinality({i \in seen : children[a][i] \in signaled})]
            /\ callbacks' = [callbacks EXCEPT ![a] =
                             @ \cup {i \in seen : children[a][i] \notin signaled}]
            /\ signaled' = IF last # {} THEN signaled \cup {a} ELSE signaled

\* dma_fence_signal of a fence outside the driver runs its callbacks.
SignalFence(u) ==
  LET called(a) == {i \in callbacks[a] : children[a][i] = u}
      left(a) == pending[a] - Cardinality(called(a))
  IN /\ u \in UserFences \ signaled
     /\ signaled' = signaled \cup {u}
     /\ pending' = [a \in Arrays |-> left(a)]
     /\ callbacks' = [a \in Arrays |-> callbacks[a] \ called(a)]
     /\ irqWork' = irqWork \cup {a \in Arrays : pending[a] > 0 /\ left(a) <= 0}
     /\ UNCHANGED <<children, enabled, bound, error, pc, arg>>
     /\ UNCHANGED <<opened, made, files, tracker, forced>>
     /\ PutArrays

\* irq_dma_fence_array_work
IrqWork(a) ==
  /\ a \in irqWork /\ Unlocked(a)
  /\ irqWork' = irqWork \ {a}
  /\ signaled' = signaled \cup {a}
  /\ UNCHANGED <<children, pending, enabled, bound, error, callbacks, pc, arg>>
  /\ UNCHANGED <<opened, made, files, tracker, forced>>
  /\ PutArrays

\* The sync file is closed by its last owner.
CloseSyncFile(a) ==
  /\ a \in files
  /\ files' = files \ {a}
  /\ UNCHANGED <<fence, pc, arg, opened, made, tracker, forced>>
  /\ PutArrays

-----------------------------------------------------------------------------
(* The device and the creation of an array. *)

Goto(t, label) == pc' = [pc EXCEPT ![t] = label]
Start(t, label, a) == Goto(t, label) /\ arg' = [arg EXCEPT ![t] = a]
Return(t) == Start(t, "idle", None)

\* Mutant: the number of open devices is not limited.
UnlimitedOpen ==
  /\ opened' = opened + 1
  /\ UNCHANGED <<made, files, tracker, fence, held, forced, pc, arg>>

spec_sync_open ==
  /\ opened < MAX_DEVICE_SUPPORTED
  /\ opened' = opened + 1
  /\ UNCHANGED <<made, files, tracker, fence, held, forced, pc, arg>>

\* Mutant: a close that is not the last clears the tracker too.
ClearedByEveryClose == tracker

\* What clear_fence_array_tracker(true) is called for: the last close.
ClearedByClose == IF opened = 1 THEN tracker ELSE {}

\* A file in use by an ioctl is not released, so the last close meets none.
spec_sync_release ==
  LET cleared == ClearedByClose
      left(a) == IF a \in cleared /\ ~Expired(a) THEN pending[a] - 1 ELSE pending[a]
  IN /\ opened > 0
     /\ opened = 1 => \A b \in Binders : pc[b] = "idle"
     /\ opened' = opened - 1
     /\ pending' = [a \in Arrays |-> left(a)]
     /\ signaled' = signaled \cup {a \in cleared : Expired(a) \/ left(a) = 0}
     /\ forced' = IF opened = 1 THEN forced \cup tracker ELSE forced
     /\ tracker' = tracker \ cleared
     /\ UNCHANGED <<children, enabled, bound, error, callbacks, irqWork>>
     /\ UNCHANGED <<made, files, pc, arg>>
     /\ PutArrays

\* spec_sync_create_array, up to the installed fd
spec_sync_create_array(b, a) ==
  /\ pc[b] = "idle" /\ opened > 0 /\ a \notin made
  /\ made' = made \cup {a} /\ files' = files \cup {a}
  /\ held' = [held EXCEPT ![Dummy] = @ + NumFences[a]]
  /\ enabled' = enabled \cup {a}
  /\ Start(b, "track", a)
  /\ UNCHANGED <<children, pending, bound, signaled, error, callbacks, irqWork>>
  /\ UNCHANGED <<opened, tracker, forced>>

TrackArray(b) ==
  /\ pc[b] = "track"
  /\ tracker' = tracker \cup {arg[b]}
  /\ Return(b)
  /\ UNCHANGED <<opened, made, files, fence, held, forced>>

-----------------------------------------------------------------------------
(* spec_sync_bind_array *)

Filled(a) == \E i \in Slots(a) : children[a][i] # Dummy

BindBegin(b, a) ==
  /\ pc[b] = "idle" /\ opened > 0 /\ a \in files /\ MayAsk(a)
  /\ OneBindAtATime => \A c \in Binders : arg[c] # a
  /\ SignalExpired({a})
  /\ IF Expired(a) THEN UNCHANGED <<pc, arg>> ELSE Start(b, "check", a)
  /\ UNCHANGED <<children, pending, enabled, bound, error, callbacks, irqWork>>
  /\ UNCHANGED <<opened, made, files, tracker, held, forced>>

BindCheck(b) ==
  /\ pc[b] = "check"
  /\ IF arg[b] \in tracker /\ ~Filled(arg[b])
       THEN Goto(b, "fill") /\ UNCHANGED arg
       ELSE Return(b)
  /\ UNCHANGED <<opened, made, files, tracker, fence, forced>>
  /\ PutArrays

\* The slots before the first fd that is no fence.
Prefix(a, fds) == {i \in Slots(a) : \A j \in 1 .. i : fds[j] # BadFd}

\* Mutant: the reference that the creation took on the dummy is kept.
DummyKept(a, fds) ==
  [f \in DOMAIN held |-> held[f] + Cardinality({i \in Prefix(a, fds) : fds[i] = f})]

\* Each fence that is put in place is held, and one reference of the dummy dropped.
HeldByBind(a, fds) ==
  [f \in DOMAIN held |->
    held[f] + Cardinality({i \in Prefix(a, fds) : fds[i] = f})
            - (IF f = Dummy THEN Cardinality(Prefix(a, fds)) ELSE 0)]

\* Mutant: the bit that keeps signaling from being enabled stays set.
EnableBitKept(a) == enabled

EnableBitCleared(a) == enabled \ {a}

\* The loop under the lock of the array.
BindFill(b, fds) ==
  LET a == arg[b]
      ok == Prefix(a, fds) = Slots(a)
  IN /\ pc[b] = "fill" /\ Unlocked(a)
     /\ children' = [children EXCEPT ![a] =
                       [i \in Slots(a) |-> IF i \in Prefix(a, fds) THEN fds[i] ELSE @[i]]]
     /\ held' = HeldByBind(a, fds)
     /\ enabled' = IF ok THEN EnableBitCleared(a) ELSE enabled
     /\ bound' = IF ok THEN bound ELSE bound \cup {a}
     /\ Goto(b, IF ok THEN "enable" ELSE "error")
     /\ UNCHANGED <<pending, signaled, error, callbacks, irqWork, arg>>
     /\ UNCHANGED <<opened, made, files, tracker, forced>>

BindEnable(b) ==
  /\ pc[b] = "enable" /\ Unlocked(arg[b])
  /\ EnableSignaling(arg[b])
  /\ Goto(b, "clear")
  /\ UNCHANGED <<children, bound, error, irqWork, arg>>
  /\ UNCHANGED <<opened, made, files, tracker, held, forced>>

\* clear_fence_array_tracker(false), after a bind that succeeded or failed
BindClear(b) ==
  /\ pc[b] \in {"clear", "clear failed"}
  /\ \A a \in tracker : MayAsk(a)
  /\ SignalExpired(tracker)
  /\ tracker' = {a \in tracker : ~Expired(a)}
  /\ IF pc[b] = "clear" THEN Goto(b, "bound") /\ UNCHANGED arg ELSE Return(b)
  /\ UNCHANGED <<children, pending, enabled, bound, error, callbacks, irqWork>>
  /\ UNCHANGED <<opened, made, files, forced>>
  /\ PutArrays

BindBound(b) ==
  /\ pc[b] = "bound"
  /\ bound' = bound \cup {arg[b]}
  /\ Return(b)
  /\ UNCHANGED <<children, pending, enabled, signaled, error, callbacks, irqWork>>
  /\ UNCHANGED <<opened, made, files, tracker, forced>>
  /\ PutArrays

\* bind_invalid: the error is set under the lock, the array signaled after it.
BindError(b) ==
  /\ pc[b] = "error"
  /\ error' = error \cup {arg[b]}
  /\ Goto(b, "signal")
  /\ UNCHANGED <<children, pending, enabled, bound, signaled, callbacks, irqWork>>
  /\ UNCHANGED <<opened, made, files, tracker, held, forced, arg>>

BindSignal(b) ==
  /\ pc[b] = "signal" /\ Unlocked(arg[b])
  /\ signaled' = signaled \cup {arg[b]}
  /\ Goto(b, "clear failed")
  /\ UNCHANGED <<children, pending, enabled, bound, error, callbacks, irqWork>>
  /\ UNCHANGED <<opened, made, files, tracker, held, forced, arg>>

-----------------------------------------------------------------------------
(* A frame of the display driver with the array as its input fence. *)

FrameBegin(r, a) ==
  /\ pc[r] = "idle" /\ a \in files
  /\ Start(r, "wait bind", a)
  /\ UNCHANGED <<opened, made, files, tracker, fence, held, forced>>

\* spec_sync_wait_bind_array: bound, or timed out
Bound(r) ==
  /\ pc[r] = "wait bind" /\ arg[r] \in bound
  /\ Goto(r, "children")
  /\ UNCHANGED <<opened, made, files, tracker, fence, held, forced, arg>>

BindTimeout(r) ==
  /\ pc[r] = "wait bind" /\ arg[r] \notin bound
  /\ Goto(r, "sw")
  /\ UNCHANGED <<opened, made, files, tracker, fence, held, forced, arg>>

\* Mutant: one child that is a hw-fence is enough.
SomeHw(a) == \E i \in Slots(a) : children[a][i] \in HwFences

AllHw(a) == \A i \in Slots(a) : children[a][i] \in HwFences

\* The frame keeps its array: the hardware waits for it.
LookAtChildren(r) ==
  /\ pc[r] = "children"
  /\ Goto(r, IF AllHw(arg[r]) THEN "hw" ELSE "sw")
  /\ UNCHANGED <<opened, made, files, tracker, fence, held, forced, arg>>

\* The plane state goes and with it the reference of the frame.
FrameEnd(r) ==
  /\ pc[r] = "hw"
  /\ Return(r)
  /\ UNCHANGED <<opened, made, files, tracker, fence, forced>>
  /\ PutArrays

\* sde_sync_wait: an array that is signaled needs no wait; a wait enables signaling.
SwWait(r) ==
  /\ pc[r] = "sw" /\ (arg[r] \in signaled \/ Unlocked(arg[r]))
  /\ IF Expired(arg[r])
       THEN /\ Return(r) /\ SignalExpired({arg[r]})
            /\ UNCHANGED <<enabled, pending, callbacks>>
       ELSE /\ Goto(r, "sw wait") /\ EnableSignaling(arg[r])
            /\ UNCHANGED arg
  /\ UNCHANGED <<children, bound, error, irqWork>>
  /\ UNCHANGED <<opened, made, files, tracker, forced>>
  /\ PutArrays

SwWoken(r) ==
  /\ pc[r] = "sw wait" /\ arg[r] \in signaled
  /\ Return(r)
  /\ UNCHANGED <<opened, made, files, tracker, fence, forced>>
  /\ PutArrays

SwTimeout(r) ==
  /\ pc[r] = "sw wait" /\ arg[r] \notin signaled
  /\ Return(r)
  /\ UNCHANGED <<opened, made, files, tracker, fence, forced>>
  /\ PutArrays

BindStep(b) ==
  \/ TrackArray(b) \/ BindCheck(b) \/ BindEnable(b) \/ BindClear(b)
  \/ BindBound(b) \/ BindError(b) \/ BindSignal(b)
  \/ pc[b] = "fill" /\ \E fds \in [Slots(arg[b]) -> UserFences \cup {BadFd}] : BindFill(b, fds)

FrameStep(r) ==
  \/ Bound(r) \/ BindTimeout(r) \/ LookAtChildren(r) \/ FrameEnd(r)
  \/ SwWait(r) \/ SwWoken(r) \/ SwTimeout(r)

Next ==
  \/ spec_sync_open
  \/ spec_sync_release
  \/ \E b \in Binders, a \in Arrays : spec_sync_create_array(b, a) \/ BindBegin(b, a)
  \/ \E b \in Binders : BindStep(b)
  \/ \E r \in Readers, a \in Arrays : FrameBegin(r, a)
  \/ \E r \in Readers : FrameStep(r)
  \/ \E u \in UserFences : SignalFence(u)
  \/ \E a \in Arrays : IrqWork(a) \/ CloseSyncFile(a)

Spec == Init /\ [][Next]_vars

\* A call that has begun and a queued irq work go on.
Fairness ==
  /\ \A b \in Binders : WF_vars(BindStep(b))
  /\ \A a \in Arrays : WF_vars(IrqWork(a))

FairSpec == Spec /\ Fairness

-----------------------------------------------------------------------------

TypeOK ==
  /\ opened \in 0 .. MAX_DEVICE_SUPPORTED
  /\ files \subseteq made /\ tracker \subseteq made /\ made \subseteq Arrays
  /\ \A a \in Arrays : children[a] \in [Slots(a) -> UserFences \cup {Dummy}]
  /\ pending \in [Arrays -> Int]
  /\ enabled \cup bound \cup error \cup irqWork \cup forced \subseteq made
  /\ signaled \subseteq made \cup UserFences
  /\ \A a \in Arrays : callbacks[a] \subseteq Slots(a)
  /\ held \in [UserFences \cup {Dummy} -> Int]
  /\ arg \in [Threads -> made \cup {None}]

\* The driver holds the dummy once for itself and once for each child of an
\* array that is still the dummy, and a bound fence once for each place it
\* has: dma_fence_array_release never drops a reference that is not there.
RefsExact ==
  LET live == {a \in made : Referenced(a)}
  IN \A f \in UserFences \cup {Dummy} :
       held[f] = Uses(f, live) + (IF f = Dummy THEN 1 ELSE 0)

Complete(a) ==
  Cardinality({i \in Slots(a) : children[a][i] \in signaled})
    >= (IF a \in SignalAll THEN NumFences[a] ELSE 1)

\* An array without an error that was not given up by the last close of the
\* device is signaled only when the children it was bound to are: all of
\* them with SPEC_FENCE_SIGNAL_ALL, one of them without.
SignalEarned ==
  \A a \in Arrays \cap signaled : a \in error \cup forced \/ Complete(a)

\* A frame that leaves its wait to the hardware has an array whose children
\* are hw-fences, and stay so while the frame is in flight.
HwDecision ==
  \A r \in Readers : pc[r] = "hw" =>
    \A i \in Slots(arg[r]) : children[arg[r]][i] \in HwFences

\* A bound array is signaled in the end: when its children are, or because
\* its bind failed.
BoundSignals ==
  \A a \in Arrays :
    a \in bound /\ (Complete(a) \/ Dummy \in {children[a][i] : i \in Slots(a)})
      ~> a \in signaled
=============================================================================
