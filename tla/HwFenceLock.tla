----------------------------- MODULE HwFenceLock -----------------------------
(***************************************************************************)
(* The inter-VM lock word of the hw-fence driver: every msm_hw_fence entry *)
(* and every client Rx queue has one, in memory shared by the primary VM   *)
(* (PVM: this driver, on several CPUs) and the secondary VM (SVM: the      *)
(* fence controller).  Bit 0 is the PVM's, bit 1 the SVM's.  The PVM takes *)
(* the lock with an exclusive load / exclusive store loop, and releases it *)
(* with a second such loop followed by a plain read that decides whether a *)
(* sleeping SVM has to be woken by an interrupt.                           *)
(*                                                                         *)
(* The SVM's side is not in this repository.  It is modelled from what     *)
(* _unlock says of it: it sets its acquire bit, and when the PVM's bit is  *)
(* set it waits for an interrupt (WFI) until signal 30 arrives.            *)
(***************************************************************************)
EXTENDS FiniteSets, Naturals

CONSTANT Cpus     \* the PVM CPUs that may contend for this lock word

VARIABLES
  bits,      \* the lock word: the set of its bits that are 1
  pc,        \* pc[p]: where CPU p is in _lock / _unlock
  w5,        \* w5[p]: what the last exclusive load of CPU p returned
  monitor,   \* monitor[p]: the exclusive monitor of CPU p is still armed
  svm,       \* the fence controller: idle, waiting for an interrupt, or owner
  irq        \* APPS signal 30 is pending at the SVM

vars == <<bits, pc, w5, monitor, svm, irq>>

PVM == "BIT0"
SVM == "BIT1"
Words == SUBSET {PVM, SVM}

\* "spin" and "stxr" are the two instructions of the loop of _lock, "held" the
\* critical section, "fetch" and "clear" the loop of _unlock, "check" its
\* trailing read of the lock value.
CpuStates == {"idle", "spin", "stxr", "held", "fetch", "clear", "check"}
SvmStates == {"idle", "wfi", "held"}

Owning == {"held", "fetch", "clear"}
Holders == {p \in Cpus : pc[p] \in Owning}

(***************************************************************************)
(* A store to the word, of anybody, disarms the monitor of every CPU.      *)
(***************************************************************************)
Store(word) ==
  /\ bits' = word
  /\ monitor' = [p \in Cpus |-> FALSE]

LoadExclusive(p) ==
  /\ w5' = [w5 EXCEPT ![p] = bits]
  /\ monitor' = [monitor EXCEPT ![p] = TRUE]

Goto(p, from, to) ==
  /\ pc[p] = from
  /\ pc' = [pc EXCEPT ![p] = to]

Init ==
  /\ bits = {}
  /\ pc = [p \in Cpus |-> "idle"]
  /\ w5 = [p \in Cpus |-> {}]
  /\ monitor = [p \in Cpus |-> FALSE]
  /\ svm = "idle"
  /\ irq = FALSE

(***************************************************************************)
(* _lock                                                                   *)
(***************************************************************************)
\* global_atomic_store(lock, 1): preemption is disabled, _lock is entered.
Acquire(p) ==
  /\ Goto(p, "idle", "spin")
  /\ UNCHANGED <<bits, w5, monitor, svm, irq>>

\* LDAXR; CBNZ: the loop goes on while the word is not zero.
LockLoad(p) ==
  /\ bits = {}
  /\ Goto(p, "spin", "stxr")
  /\ LoadExclusive(p)
  /\ UNCHANGED <<bits, svm, irq>>

\* Mutant: a plain store in place of the store-exclusive.
LockStorePlain(p) ==
  /\ Goto(p, "stxr", "held")
  /\ Store({PVM})
  /\ UNCHANGED <<w5, svm, irq>>

\* Mutant: W7 is loaded with 0x4, a bit of neither VM.
LockStoreBit2(p) ==
  /\ monitor[p]
  /\ Goto(p, "stxr", "held")
  /\ Store({"BIT2"})
  /\ UNCHANGED <<w5, svm, irq>>

\* STXR; CBNZ: the store succeeds only if the monitor is still armed.
LockStore(p) ==
  \/ /\ monitor[p]
     /\ Goto(p, "stxr", "held")
     /\ Store({PVM})
     /\ UNCHANGED <<w5, svm, irq>>
  \/ /\ ~monitor[p]
     /\ Goto(p, "stxr", "spin")
     /\ UNCHANGED <<bits, w5, monitor, svm, irq>>

(***************************************************************************)
(* _unlock                                                                 *)
(***************************************************************************)
Release(p) ==
  /\ Goto(p, "held", "fetch")
  /\ UNCHANGED <<bits, w5, monitor, svm, irq>>

UnlockLoad(p) ==
  /\ Goto(p, "fetch", "clear")
  /\ LoadExclusive(p)
  /\ UNCHANGED <<bits, svm, irq>>

\* Mutant: a plain store of the fetched word without BIT0.
UnlockStorePlain(p) ==
  /\ Goto(p, "clear", "check")
  /\ Store(w5[p] \ {PVM})
  /\ UNCHANGED <<w5, svm, irq>>

\* The loop stores the fetched word without BIT0, or starts over.
UnlockStore(p) ==
  \/ /\ monitor[p]
     /\ Goto(p, "clear", "check")
     /\ Store(w5[p] \ {PVM})
     /\ UNCHANGED <<w5, svm, irq>>
  \/ /\ ~monitor[p]
     /\ Goto(p, "clear", "fetch")
     /\ UNCHANGED <<bits, w5, monitor, svm, irq>>

\* Mutant: the sleeping SVM is not interrupted.
UnlockWakeNever(p) ==
  /\ Goto(p, "check", "idle")
  /\ UNCHANGED <<bits, w5, monitor, svm, irq>>

\* lock_val is read again after the store; an SVM bit means a sleeping SVM.
UnlockWake(p) ==
  /\ Goto(p, "check", "idle")
  /\ irq' = (irq \/ SVM \in bits)
  /\ UNCHANGED <<bits, w5, monitor, svm>>

(***************************************************************************)
(* The fence controller in the SVM (external).                             *)
(***************************************************************************)
SvmAcquire ==
  /\ svm = "idle"
  /\ svm' = IF PVM \in bits THEN "wfi" ELSE "held"
  /\ Store(bits \cup {SVM})
  /\ UNCHANGED <<pc, w5, irq>>

SvmInterrupt ==
  /\ irq
  /\ irq' = FALSE
  /\ svm' = IF svm = "wfi" /\ PVM \notin bits THEN "held" ELSE svm
  /\ UNCHANGED <<bits, pc, w5, monitor>>

SvmRelease ==
  /\ svm = "held"
  /\ svm' = "idle"
  /\ Store(bits \ {SVM})
  /\ UNCHANGED <<pc, w5, irq>>

Step(p) ==
  \/ Acquire(p)
  \/ LockLoad(p)
  \/ LockStore(p)
  \/ Release(p)
  \/ UnlockLoad(p)
  \/ UnlockStore(p)
  \/ UnlockWake(p)

Next ==
  \/ \E p \in Cpus : Step(p)
  \/ SvmAcquire
  \/ SvmInterrupt
  \/ SvmRelease

(***************************************************************************)
(* The lock is taken with preemption disabled and its critical sections    *)
(* contain no wait, so a CPU that holds it goes on to release it; a        *)
(* pending interrupt is delivered; the SVM leaves its critical section.    *)
(* Nothing makes a CPU ask for the lock, and nothing is assumed of the     *)
(* fairness of the spin loop.                                              *)
(***************************************************************************)
Fairness ==
  /\ \A p \in Cpus : WF_vars(Release(p) \/ UnlockLoad(p) \/ UnlockStore(p) \/ UnlockWake(p))
  /\ WF_vars(SvmInterrupt)
  /\ WF_vars(SvmRelease)

Spec == Init /\ [][Next]_vars /\ Fairness

-----------------------------------------------------------------------------
\* Every variable has its type: the word is two bits wide, a monitor is a flag.
TypeOK ==
  /\ bits \in Words
  /\ pc \in [Cpus -> CpuStates]
  /\ w5 \in [Cpus -> Words]
  /\ monitor \in [Cpus -> BOOLEAN]
  /\ svm \in SvmStates
  /\ irq \in BOOLEAN

\* _lock / _unlock give mutual exclusion between the CPUs of the PVM and
\* against the SVM, whatever the interleaving of their exclusive accesses.
MutualExclusion ==
  /\ \A p, q \in Cpus : pc[p] \in Owning /\ pc[q] \in Owning => p = q
  /\ svm = "held" => \A p \in Cpus : pc[p] \notin Owning

\* The read-modify-write of _unlock never destroys the SVM's acquire bit, and
\* never leaves one behind: BIT1 is set exactly while the SVM waits or owns.
SvmBitKept == SVM \in bits <=> svm \in {"wfi", "held"}

\* No wake-up is lost: an SVM asleep with the PVM's bit clear has an interrupt
\* pending, or a CPU has yet to read the lock value at the end of _unlock.
NoLostWakeup ==
  svm = "wfi" /\ PVM \notin bits => irq \/ \E p \in Cpus : pc[p] = "check"

\* A waiting SVM gets the lock: its acquire bit keeps every CPU out of the
\* store of _lock, and the holder's _unlock interrupts it.
SvmGetsLock == svm = "wfi" ~> svm = "held"
=============================================================================
