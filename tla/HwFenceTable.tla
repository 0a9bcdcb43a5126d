---------------------------- MODULE HwFenceTable ----------------------------
(***************************************************************************)
(* The global table of hw-fences: an open-addressed hash table in shared   *)
(* memory, keyed by the <<context, seqno>> of a dma-fence.  There is no    *)
(* table lock: create, destroy and find probe the table entry by entry,    *)
(* each entry under its own inter-VM lock (HwFenceLock), so that one Probe *)
(* below is one iteration of the loop of _hw_fence_lookup_and_process.     *)
(*                                                                         *)
(* A dma-fence that is a hw-fence carries MSM_HW_FENCE_FLAG_ENABLED_BIT.   *)
(* A fence-array has no such flag; a waiter creates a join fence for it.   *)
(***************************************************************************)
EXTENDS Integers, FiniteSets

CONSTANTS
  M,             \* hw_fence_table_entries
  FenceKeys,     \* <<context, seqno>> of the dma-fences
  ArrayKeys,     \* <<context, seqno>> of the fence-arrays
  Threads,       \* the contexts that call into the driver
  ClientOf,      \* the client each thread works for
  Owner,         \* the thread that creates and destroys the fence of a key
  SharedArrays   \* several threads may wait on one fence-array

Keys == FenceKeys \cup ArrayKeys
Slots == 0 .. M - 1
NoKey == <<0, 0>>     \* ctx_id and seq_id of a cleaned entry
Nobody == 0           \* fence_allocator of a cleaned entry
Join == -1            \* HW_FENCE_JOIN_FENCE_CLIENT_ID

ASSUME TableAssumption == M \in Nat \ {0}
ASSUME KeysAssumption ==
  /\ FenceKeys \subseteq (Nat \ {0}) \X Nat
  /\ ArrayKeys \subseteq (Nat \ {0}) \X Nat
  /\ FenceKeys \cap ArrayKeys = {}
ASSUME ThreadsAssumption ==
  /\ ClientOf \in [Threads -> Nat \ {0}]
  /\ Owner \in [Keys -> Threads]
  /\ SharedArrays \in BOOLEAN

VARIABLES
  table,     \* the entries: valid, key, fence_allocator
  enabled,   \* the ENABLED flag of a dma-fence; for a fence-array, a history
             \* variable: its last join fence has not been destroyed yet
  pc, op, key, step, hash, found,   \* _hw_fence_lookup_and_process, per thread
  absent     \* history: the key was not in the table at some time of the call

call == <<pc, op, key, step, hash, found, absent>>
vars == <<table, enabled, call>>

Creates == {"CREATE", "CREATE_JOIN"}
Destroys == {"DESTROY", "DESTROY_HASH"}
Ops == Creates \cup Destroys \cup {"FIND_FENCE"}

FreeEntry == [valid |-> FALSE, key |-> NoKey, allocator |-> Nobody]
Entries == [valid : BOOLEAN, key : Keys \cup {NoKey}, allocator : Int]

Present(k) == \E i \in Slots : table[i].key = k

\* _calculate_hash, step 0 and the steps after it.  The product may wrap at 2^64
\* in the code; all that is used of HashOf is that it is a function into Slots.
HashOf(k) == (4969 * k[2] * (k[1] + (k[1] - 1)) + 907 * k[1]) % M

\* Mutant: no wrap-around at the end of the table.
NextHashNoWrap(h) == h + 1

NextHash(h) == (h + 1) % M

Init ==
  /\ table = [i \in Slots |-> FreeEntry]
  /\ enabled = [k \in Keys |-> FALSE]
  /\ pc = [t \in Threads |-> "idle"]
  /\ op = [t \in Threads |-> "FIND_FENCE"]
  /\ key = [t \in Threads |-> NoKey]
  /\ step = [t \in Threads |-> 0]
  /\ hash = [t \in Threads |-> 0]
  /\ found = [t \in Threads |-> FALSE]
  /\ absent = [t \in Threads |-> FALSE]

(***************************************************************************)
(* The callers.                                                            *)
(***************************************************************************)
Lookup(t, opcode, k) ==
  /\ pc' = [pc EXCEPT ![t] = "probe"]
  /\ op' = [op EXCEPT ![t] = opcode]
  /\ key' = [key EXCEPT ![t] = k]
  /\ step' = [step EXCEPT ![t] = 0]
  /\ hash' = [hash EXCEPT ![t] = HashOf(k)]
  /\ found' = [found EXCEPT ![t] = FALSE]
  /\ absent' = [absent EXCEPT ![t] = ~Present(k)]
  /\ UNCHANGED <<table, enabled>>

\* Mutant: the flag of the dma-fence is not tested.
CreateAgain(t, k) ==
  /\ pc[t] = "idle" /\ t = Owner[k]
  /\ Lookup(t, "CREATE", k)

\* msm_hw_fence_create refuses a fence that already has the flag.
Create(t, k) ==
  /\ pc[t] = "idle" /\ t = Owner[k]
  /\ ~enabled[k]
  /\ Lookup(t, "CREATE", k)

\* msm_hw_fence_destroy refuses a fence without the flag.
Destroy(t, k) ==
  /\ pc[t] = "idle" /\ t = Owner[k]
  /\ enabled[k]
  /\ Lookup(t, "DESTROY", k)

\* _hw_fence_process_join_fence(create = true): nothing tells that another
\* waiter has already made a join fence for this fence-array.
CreateJoin(t, k) ==
  /\ pc[t] = "idle"
  /\ SharedArrays \/ (t = Owner[k] /\ ~enabled[k])
  /\ Lookup(t, "CREATE_JOIN", k)

\* _hw_fence_process_join_fence(create = false)
DestroyJoin(t, k) ==
  /\ pc[t] = "idle"
  /\ SharedArrays \/ t = Owner[k]
  /\ enabled[k]
  /\ Lookup(t, "DESTROY", k)

\* msm_hw_fence_find, for a waiter that saw the flag of the dma-fence.
Find(t, k) ==
  /\ pc[t] = "idle"
  /\ enabled[k]
  /\ Lookup(t, "FIND_FENCE", k)

\* Mutant: the allocator of the entry is not compared.
CheckNothing(t, h) ==
  /\ pc[t] = "idle"
  /\ table[h].valid
  /\ pc' = [pc EXCEPT ![t] = "handle"]
  /\ hash' = [hash EXCEPT ![t] = h]
  /\ UNCHANGED <<table, enabled, op, key, step, found, absent>>

\* hw_fence_destroy_with_hash, and hw_fence_utils_cleanup_fence in a reset:
\* the allocator of the entry is compared without its lock, and then ...
CheckAllocator(t, h) ==
  /\ pc[t] = "idle"
  /\ table[h].allocator = ClientOf[t]
  /\ pc' = [pc EXCEPT ![t] = "handle"]
  /\ hash' = [hash EXCEPT ![t] = h]
  /\ UNCHANGED <<table, enabled, op, key, step, found, absent>>

\* ... the key that is to be destroyed is read from it, without its lock.
ReadKey(t) ==
  /\ pc[t] = "handle"
  /\ Lookup(t, "DESTROY_HASH", table[hash[t]].key)

(***************************************************************************)
(* One iteration of the loop, under the lock of entry hash[t].             *)
(***************************************************************************)
Reserve(t) == [valid |-> TRUE, key |-> key[t],
               allocator |-> IF op[t] = "CREATE_JOIN" THEN Join ELSE ClientOf[t]]

\* _cleanup_hw_fence clears everything, _unreserve_hw_fence the valid field.
Unreserve(e) == FreeEntry

\* compare_fnc: _is_hw_fence_free or _hw_fence_match (which ignores valid).
Matches(t) ==
  IF op[t] \in Creates THEN ~table[hash[t]].valid ELSE table[hash[t]].key = key[t]

\* A thread that is looking for a key which is now gone.
NoteAbsent == absent' = [t \in Threads |->
  absent[t] \/ (pc[t] = "probe" /\ \A i \in Slots : table'[i].key # key[t])]

\* The entry matches: it is processed and the loop ends.
ProbeHit(t) ==
  /\ pc[t] = "probe"
  /\ Matches(t)
  /\ table' = IF op[t] = "FIND_FENCE" THEN table
              ELSE [table EXCEPT ![hash[t]] = IF op[t] \in Creates THEN Reserve(t) ELSE Unreserve(@)]
  /\ found' = [found EXCEPT ![t] = TRUE]
  /\ pc' = [pc EXCEPT ![t] = "return"]
  /\ NoteAbsent
  /\ UNCHANGED <<enabled, op, key, step, hash>>

\* A create that meets its own key gives up.
SameKey(t) == op[t] \in Creates /\ table[hash[t]].key = key[t]

\* Mutant: a lookup ends at the first free entry.
ProbeMissAtFree(t) ==
  /\ pc[t] = "probe"
  /\ ~Matches(t)
  /\ IF SameKey(t) \/ step[t] + 1 >= M \/ ~table[hash[t]].valid
     THEN pc' = [pc EXCEPT ![t] = "return"] /\ UNCHANGED <<step, hash>>
     ELSE /\ step' = [step EXCEPT ![t] = @ + 1]
          /\ hash' = [hash EXCEPT ![t] = NextHash(@)]
          /\ UNCHANGED pc
  /\ UNCHANGED <<table, enabled, op, key, found, absent>>

\* The entry does not match: on to the next one, until all were seen.
ProbeMiss(t) ==
  /\ pc[t] = "probe"
  /\ ~Matches(t)
  /\ IF SameKey(t) \/ step[t] + 1 >= M
     THEN pc' = [pc EXCEPT ![t] = "return"] /\ UNCHANGED <<step, hash>>
     ELSE /\ step' = [step EXCEPT ![t] = @ + 1]
          /\ hash' = [hash EXCEPT ![t] = NextHash(@)]
          /\ UNCHANGED pc
  /\ UNCHANGED <<table, enabled, op, key, found, absent>>

\* Back in the caller: on success the flag of the dma-fence follows, except
\* after hw_fence_destroy_with_hash, which does not know the dma-fence.
Return(t) ==
  /\ pc[t] = "return"
  /\ enabled' = IF ~found[t] \/ op[t] \notin Creates \cup {"DESTROY"} THEN enabled
                ELSE [enabled EXCEPT ![key[t]] = op[t] \in Creates]
  /\ pc' = [pc EXCEPT ![t] = "idle"]
  /\ op' = [op EXCEPT ![t] = "FIND_FENCE"]
  /\ key' = [key EXCEPT ![t] = NoKey]
  /\ step' = [step EXCEPT ![t] = 0]
  /\ hash' = [hash EXCEPT ![t] = 0]
  /\ found' = [found EXCEPT ![t] = FALSE]
  /\ absent' = [absent EXCEPT ![t] = FALSE]
  /\ UNCHANGED table

Step(t) ==
  \/ \E k \in FenceKeys : Create(t, k) \/ Destroy(t, k) \/ Find(t, k)
  \/ \E k \in ArrayKeys : CreateJoin(t, k) \/ DestroyJoin(t, k)
  \/ \E h \in Slots : CheckAllocator(t, h)
  \/ ReadKey(t)
  \/ ProbeHit(t)
  \/ ProbeMiss(t)
  \/ Return(t)

Next == \E t \in Threads : Step(t)

Spec == Init /\ [][Next]_vars

-----------------------------------------------------------------------------
\* Every variable has its type; a thread never probes outside the table.
TypeOK ==
  /\ table \in [Slots -> Entries]
  /\ enabled \in [Keys -> BOOLEAN]
  /\ pc \in [Threads -> {"idle", "handle", "probe", "return"}]
  /\ op \in [Threads -> Ops]
  /\ key \in [Threads -> Keys \cup {NoKey}]
  /\ step \in [Threads -> Slots]
  /\ hash \in [Threads -> Slots]
  /\ found \in [Threads -> BOOLEAN]
  /\ absent \in [Threads -> BOOLEAN]

\* _hw_fence_match compares the key alone and not the valid field: that is
\* sound because a free entry always has the key of no fence.
ValidIffKeyed == \A i \in Slots : table[i].valid <=> table[i].key # NoKey

\* "ctx & seqno must be unique creating a hw-fence": no key is in the table
\* twice, although create looks only at the entries up to the first free one.
UniqueKeys ==
  \A i, j \in Slots : table[i].key = table[j].key /\ table[i].key # NoKey => i = j

\* A find or destroy reports failure only if the fence was not in the table at
\* some time during the call: concurrent creates and destroys of other fences
\* never hide an entry from the probe.
LookupComplete ==
  \A t \in Threads :
    pc[t] = "return" /\ op[t] \notin Creates /\ ~found[t] => absent[t]

\* "client cannot destroy fence hash": what hw_fence_destroy_with_hash and the
\* reset of a client are about to destroy was allocated by that client.
HandleOwnFence ==
  \A t \in Threads, i \in Slots :
    pc[t] = "probe" /\ op[t] = "DESTROY_HASH" /\ table[i].key = key[t] /\ table[i].valid
      => table[i].allocator = ClientOf[t]
=============================================================================
