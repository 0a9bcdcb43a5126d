-------------------------- MODULE HwFenceLockProofs --------------------------
(***************************************************************************)
(* Mutual exclusion of the inter-VM lock for any set of CPUs.              *)
(*                                                                         *)
(* MutualExclusion is not inductive: that a second CPU cannot enter is due *)
(* to the lock word, so the invariant ties the word's bits to who holds    *)
(* the lock and says what an armed exclusive monitor guarantees.           *)
(***************************************************************************)
EXTENDS HwFenceLock, TLAPS

\* BIT0 is set exactly while some CPU is between the store of _lock and the
\* store of _unlock, and there is only one such CPU.
PvmBitOwned ==
  /\ PVM \in bits <=> \E p \in Cpus : pc[p] \in Owning
  /\ \A p, q \in Cpus : pc[p] \in Owning /\ pc[q] \in Owning => p = q

\* An SVM that owns the lock does so with BIT0 clear.
SvmOwns == svm = "held" => PVM \notin bits

\* An armed monitor means the word is still what the exclusive load returned.
MonitorExact ==
  \A p \in Cpus :
    /\ pc[p] = "stxr" /\ monitor[p] => bits = {}
    /\ pc[p] = "clear" /\ monitor[p] => bits = w5[p]

\* The inductive invariant.
LockInv == TypeOK /\ PvmBitOwned /\ SvmBitKept /\ SvmOwns /\ MonitorExact /\ NoLostWakeup

\* The invariant holds initially.
LEMMA InitLockInv == Init => LockInv
  BY DEF Init, LockInv, TypeOK, PvmBitOwned, SvmBitKept, SvmOwns, MonitorExact,
         NoLostWakeup, Words, CpuStates, SvmStates, Owning, PVM, SVM

\* Every step of a CPU or of the SVM keeps the types.
LEMMA TypeStep == TypeOK /\ [Next]_vars => TypeOK'
  <1> SUFFICES ASSUME TypeOK, [Next]_vars PROVE TypeOK'
    OBVIOUS
  <1> USE DEF TypeOK, Words, CpuStates, SvmStates, Goto, Store, LoadExclusive
  <1>1. ASSUME NEW p \in Cpus, Step(p) PROVE TypeOK'
    BY <1>1 DEF Step, Acquire, LockLoad, LockStore, Release, UnlockLoad, UnlockStore, UnlockWake
  <1>2. CASE SvmAcquire   BY <1>2 DEF SvmAcquire
  <1>3. CASE SvmInterrupt BY <1>3 DEF SvmInterrupt
  <1>4. CASE SvmRelease   BY <1>4 DEF SvmRelease
  <1>5. CASE UNCHANGED vars BY <1>5 DEF vars
  <1>6. QED BY <1>1, <1>2, <1>3, <1>4, <1>5 DEF Next

\* Every step preserves the inductive invariant.
LEMMA NextLockInv == LockInv /\ [Next]_vars => LockInv'
  <1> SUFFICES ASSUME LockInv, [Next]_vars PROVE LockInv'
    OBVIOUS
  <1>t. TypeOK /\ TypeOK'
    BY TypeStep DEF LockInv
  <1> USE <1>t DEF LockInv, PvmBitOwned, SvmBitKept, SvmOwns, MonitorExact,
                   NoLostWakeup, Owning, PVM, SVM
  <1>1. ASSUME NEW p \in Cpus, Acquire(p) PROVE LockInv'
    BY <1>1 DEF Acquire, Goto, TypeOK, CpuStates
  <1>2. ASSUME NEW p \in Cpus, LockLoad(p) PROVE LockInv'
    BY <1>2 DEF LockLoad, Goto, LoadExclusive, TypeOK, CpuStates
  <1>3. ASSUME NEW p \in Cpus, LockStore(p) PROVE LockInv'
    BY <1>3 DEF LockStore, Goto, Store, TypeOK, CpuStates
  <1>4. ASSUME NEW p \in Cpus, Release(p) PROVE LockInv'
    BY <1>4 DEF Release, Goto, TypeOK, CpuStates
  <1>5. ASSUME NEW p \in Cpus, UnlockLoad(p) PROVE LockInv'
    BY <1>5 DEF UnlockLoad, Goto, LoadExclusive, TypeOK, CpuStates
  <1>6. ASSUME NEW p \in Cpus, UnlockStore(p) PROVE LockInv'
    BY <1>6 DEF UnlockStore, Goto, Store, TypeOK, CpuStates
  <1>7. ASSUME NEW p \in Cpus, UnlockWake(p) PROVE LockInv'
    BY <1>7 DEF UnlockWake, Goto, TypeOK, CpuStates
  <1>8. CASE SvmAcquire
    BY <1>8 DEF SvmAcquire, Store, TypeOK, SvmStates, Words
  <1>9. CASE SvmInterrupt
    BY <1>9 DEF SvmInterrupt, TypeOK, SvmStates
  <1>10. CASE SvmRelease
    BY <1>10 DEF SvmRelease, Store, TypeOK, SvmStates
  <1>11. CASE UNCHANGED vars
    BY <1>11 DEF vars
  <1>12. QED
    BY <1>1, <1>2, <1>3, <1>4, <1>5, <1>6, <1>7, <1>8, <1>9, <1>10, <1>11 DEF Next, Step

\* The lock's inductive invariant holds in every behaviour.
THEOREM LockInvariant == Spec => []LockInv
  <1>1. QED BY InitLockInv, NextLockInv, PTL DEF Spec

\* _lock / _unlock exclude the CPUs from each other and from the SVM.
THEOREM LockMutualExclusion == Spec => []MutualExclusion
  <1>1. LockInv => MutualExclusion
    BY DEF LockInv, PvmBitOwned, SvmOwns, MutualExclusion
  <1>2. QED BY <1>1, LockInvariant, PTL

\* The SVM's acquire bit survives every _unlock and no wake-up is lost.
THEOREM LockWakeup == Spec => [](SvmBitKept /\ NoLostWakeup)
  <1>1. LockInv => SvmBitKept /\ NoLostWakeup
    BY DEF LockInv
  <1>2. QED BY <1>1, LockInvariant, PTL

\* The SVM's acquire bit survives every _unlock.
THEOREM LockSvmBitKept == Spec => []SvmBitKept
  BY LockWakeup, PTL

\* The lock word, the monitors and the places of the CPUs keep their types.
THEOREM LockTypeOK == Spec => []TypeOK
  <1>1. LockInv => TypeOK
    BY DEF LockInv
  <1>2. QED BY <1>1, LockInvariant, PTL
=============================================================================
