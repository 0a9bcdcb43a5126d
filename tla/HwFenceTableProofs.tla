------------------------- MODULE HwFenceTableProofs -------------------------
(***************************************************************************)
(* The hash table of hw-fences is right without a table lock, for every    *)
(* size, every set of keys and every number of threads, provided that each *)
(* fence is created and destroyed by one thread, that each client is one   *)
(* thread, and that no fence-array is waited for twice.                    *)
(*                                                                         *)
(* The two facts that carry the argument: a thread that is creating a      *)
(* fence knows that its key is nowhere in the table (CreateFresh), which   *)
(* follows from the ENABLED flag (EnabledCovers); and an entry never moves *)
(* while its fence exists, so that a probe which has not met it yet still  *)
(* has it ahead (Ahead).                                                   *)
(***************************************************************************)
EXTENDS HwFenceTable, TLAPS

\* The discipline of the callers: one waiter for each fence-array, one thread for
\* each client.
Disciplined ==
  /\ ~SharedArrays
  /\ \A t, u \in Threads : ClientOf[t] = ClientOf[u] => t = u

\* How many probes after entry h entry i is met.
Dist(h, i) == IF h <= i THEN i - h ELSE M - (h - i)

Busy(t) == pc[t] \in {"probe", "return"}

\* Calls that change the table are made for fences of the calling thread.
OwnCall ==
  \A t \in Threads : Busy(t) =>
    /\ key[t] \in Keys
    /\ op[t] # "FIND_FENCE" => Owner[key[t]] = t
    /\ op[t] \in {"CREATE", "DESTROY_HASH"} => key[t] \in FenceKeys
    /\ op[t] = "CREATE_JOIN" => key[t] \in ArrayKeys

\* The allocator of an entry is the client of the thread that owns its key.
Allocators ==
  \A i \in Slots :
    /\ table[i].key \in FenceKeys => table[i].allocator = ClientOf[Owner[table[i].key]]
    /\ table[i].key \in ArrayKeys => table[i].allocator = Join
    /\ table[i].key = NoKey => table[i].allocator = Nobody

\* The entry whose allocator was compared is still the caller's.
HandleHeld ==
  \A t \in Threads : pc[t] = "handle" =>
    table[hash[t]].key \in FenceKeys /\ Owner[table[hash[t]].key] = t

\* A key that is being created is not in the table.
CreateFresh ==
  \A t \in Threads : pc[t] = "probe" /\ op[t] \in Creates =>
    \A i \in Slots : table[i].key # key[t]

\* A key that has been destroyed is not in the table.
DestroyGone ==
  \A t \in Threads : pc[t] = "return" /\ op[t] \in Destroys /\ found[t] =>
    \A i \in Slots : table[i].key # key[t]

\* A lookup that is still probing has found nothing.
NotFoundYet == \A t \in Threads : pc[t] = "probe" => ~found[t]

\* The creating thread has found a place for k and will set the flag.
Creating(k) ==
  /\ pc[Owner[k]] = "return" /\ op[Owner[k]] \in Creates
  /\ found[Owner[k]] /\ key[Owner[k]] = k

\* Every key in the table is flagged, or about to be.
EnabledCovers ==
  \A i \in Slots : table[i].key \in Keys =>
    enabled[table[i].key] \/ Creating(table[i].key)

\* The key has an entry that thread t has not probed yet.
StillAhead(t) == \E i \in Slots : table[i].key = key[t] /\ step[t] <= Dist(HashOf(key[t]), i)

\* A key that was present during the whole lookup is still ahead of it.
Ahead ==
  \A t \in Threads : pc[t] = "probe" =>
    /\ Dist(HashOf(key[t]), hash[t]) = step[t]
    /\ op[t] \notin Creates /\ ~absent[t] => StillAhead(t)

\* The inductive invariant.
TableInv ==
  /\ TypeOK
  /\ ValidIffKeyed
  /\ UniqueKeys
  /\ OwnCall
  /\ Allocators
  /\ HandleHeld
  /\ CreateFresh
  /\ DestroyGone
  /\ NotFoundYet
  /\ EnabledCovers
  /\ Ahead
  /\ LookupComplete

-----------------------------------------------------------------------------
\* _calculate_hash always gives an entry of the table.
LEMMA HashType ==
  ASSUME NEW k \in Keys
  PROVE  HashOf(k) \in Slots
<1>1. k[1] \in Int /\ k[2] \in Int
  BY KeysAssumption DEF Keys
<1>2. (4969 * k[2] * (k[1] + (k[1] - 1)) + 907 * k[1]) \in Int
  BY <1>1
<1>3. \A x \in Int : x % M \in 0 .. M - 1
  BY TableAssumption
<1>. QED
  BY <1>2, <1>3 DEF HashOf, Slots

\* The next probe wraps round at the end of the table.
LEMMA NextHashValue ==
  ASSUME NEW h \in Slots
  PROVE  NextHash(h) = IF h + 1 = M THEN 0 ELSE h + 1
BY TableAssumption DEF NextHash, Slots

\* The next probe is one further from where the lookup began.
LEMMA DistNext ==
  ASSUME NEW h \in Slots, NEW i \in Slots, Dist(h, i) + 1 < M
  PROVE  Dist(h, NextHash(i)) = Dist(h, i) + 1 /\ NextHash(i) \in Slots
BY NextHashValue, TableAssumption DEF Dist, Slots

\* Each entry is met once in M probes.
LEMMA DistType ==
  ASSUME NEW h \in Slots, NEW i \in Slots
  PROVE  /\ Dist(h, i) \in Slots
         /\ Dist(h, h) = 0
BY TableAssumption DEF Dist, Slots

\* Different entries are met at different probes.
LEMMA DistInjective ==
  ASSUME NEW h \in Slots, NEW i \in Slots, NEW j \in Slots, i # j
  PROVE  Dist(h, i) # Dist(h, j)
BY TableAssumption DEF Dist, Slots

\* The key of a cleaned entry is the key of no fence.
LEMMA NoKeyIsNone == NoKey \notin Keys
BY KeysAssumption DEF NoKey, Keys

\* The invariant holds of the cleaned table.
LEMMA InitTable ==
  ASSUME Init PROVE TableInv
<1>1. TypeOK
  BY TableAssumption DEF Init, TypeOK, Entries, FreeEntry, Nobody, Ops, Slots
<1>2. ValidIffKeyed /\ UniqueKeys /\ Allocators /\ EnabledCovers
  BY NoKeyIsNone DEF Init, ValidIffKeyed, UniqueKeys, Allocators, EnabledCovers, FreeEntry, Keys
<1>3. OwnCall /\ HandleHeld /\ CreateFresh /\ DestroyGone /\ NotFoundYet /\ Ahead /\ LookupComplete
  BY DEF Init, OwnCall, Busy, HandleHeld, CreateFresh, DestroyGone, NotFoundYet, Ahead, LookupComplete
<1>. QED
  BY <1>1, <1>2, <1>3 DEF TableInv

-----------------------------------------------------------------------------
\* Starting a lookup keeps the invariant.
LEMMA LookupStep ==
  ASSUME TableInv, NEW t \in Threads, NEW o \in Ops, NEW k \in Keys,
         pc[t] \in {"idle", "handle"},
         o # "FIND_FENCE" => Owner[k] = t,
         o \in {"CREATE", "DESTROY_HASH"} => k \in FenceKeys,
         o = "CREATE_JOIN" => k \in ArrayKeys,
         o \in Creates => ~Present(k),
         Lookup(t, o, k)
  PROVE  TableInv'
<1>. USE DEF TableInv
<1>0. HashOf(k) \in Slots /\ 0 \in Slots
  BY HashType, TableAssumption DEF Slots
<1>1. TypeOK'
  BY <1>0 DEF TypeOK, Lookup
<1>2. ValidIffKeyed' /\ UniqueKeys' /\ Allocators'
  BY DEF ValidIffKeyed, UniqueKeys, Allocators, Lookup
<1>3. OwnCall'
  BY DEF TypeOK, OwnCall, Busy, Lookup
<1>4. HandleHeld'
  BY DEF TypeOK, HandleHeld, Lookup
<1>5. CreateFresh'
  BY DEF TypeOK, CreateFresh, Lookup, Present
<1>6. DestroyGone' /\ NotFoundYet'
  BY DEF TypeOK, DestroyGone, NotFoundYet, Lookup
<1>7. EnabledCovers'
  <2>1. \A q \in Keys : Creating(q) => Creating(q)'
    BY ThreadsAssumption DEF TypeOK, Creating, Lookup
  <2>. QED
    BY <2>1 DEF EnabledCovers, Lookup
<1>8. Ahead'
  <2>. SUFFICES ASSUME NEW u \in Threads, pc'[u] = "probe"
                PROVE  /\ Dist(HashOf(key'[u]), hash'[u]) = step'[u]
                       /\ op'[u] \notin Creates /\ ~absent'[u] => StillAhead(u)'
    BY DEF Ahead
  <2>1. CASE u = t
    <3>1. key'[t] = k /\ hash'[t] = HashOf(k) /\ step'[t] = 0 /\ table' = table /\ absent'[t] = ~Present(k)
      BY DEF TypeOK, Lookup
    <3>2. Dist(HashOf(k), HashOf(k)) = 0
      BY <1>0, DistType
    <3>3. \A i \in Slots : 0 <= Dist(HashOf(k), i)
      BY <1>0, DistType, TableAssumption DEF Slots
    <3>4. ~absent'[t] => StillAhead(t)'
      BY <3>1, <3>3 DEF Present, StillAhead
    <3>. QED  BY <2>1, <3>1, <3>2, <3>4
  <2>2. CASE u # t
    BY <2>2 DEF TypeOK, Ahead, StillAhead, Lookup
  <2>. QED  BY <2>1, <2>2
<1>9. LookupComplete'
  BY DEF TypeOK, LookupComplete, Lookup
<1>. QED
  BY <1>1, <1>2, <1>3, <1>4, <1>5, <1>6, <1>7, <1>8, <1>9

\* The allocator check of hw_fence_destroy_with_hash finds own fences only.
LEMMA CheckStep ==
  ASSUME Disciplined, TableInv, NEW t \in Threads, NEW h \in Slots, CheckAllocator(t, h)
  PROVE  TableInv'
<1>. USE DEF TableInv
<1>0. table[h].key \in FenceKeys /\ Owner[table[h].key] = t
  <2>1. ClientOf[t] \in Nat \ {0} /\ table[h].allocator = ClientOf[t]
    BY ThreadsAssumption DEF CheckAllocator
  <2>2. table[h].key \in FenceKeys \cup ArrayKeys \cup {NoKey}
    BY DEF TypeOK, Entries, Keys
  <2>3. table[h].key \in FenceKeys
    BY <2>1, <2>2 DEF Allocators, Join, Nobody
  <2>4. Owner[table[h].key] \in Threads
    BY <2>3, ThreadsAssumption DEF Keys
  <2>. QED
    BY <2>1, <2>3, <2>4 DEF Disciplined, Allocators
<1>1. TypeOK'
  BY DEF TypeOK, CheckAllocator
<1>2. ValidIffKeyed' /\ UniqueKeys' /\ Allocators'
  BY DEF ValidIffKeyed, UniqueKeys, Allocators, CheckAllocator
<1>3. OwnCall'
  BY DEF TypeOK, OwnCall, Busy, CheckAllocator
<1>4. HandleHeld'
  BY <1>0 DEF TypeOK, HandleHeld, CheckAllocator
<1>5. CreateFresh' /\ DestroyGone' /\ NotFoundYet' /\ LookupComplete'
  BY DEF TypeOK, CreateFresh, DestroyGone, NotFoundYet, LookupComplete, CheckAllocator
<1>7. EnabledCovers'
  <2>1. \A q \in Keys : Creating(q) => Creating(q)'
    BY ThreadsAssumption DEF TypeOK, Creating, CheckAllocator
  <2>. QED
    BY <2>1 DEF EnabledCovers, CheckAllocator
<1>8. Ahead'
  BY DEF TypeOK, Ahead, StillAhead, CheckAllocator
<1>. QED
  BY <1>1, <1>2, <1>3, <1>4, <1>5, <1>7, <1>8

\* A probe that does not match leaves the fence ahead, if it is there.
LEMMA MissStep ==
  ASSUME TableInv, NEW t \in Threads, ProbeMiss(t)
  PROVE  TableInv'
<1>. USE DEF TableInv
<1>0. /\ pc[t] = "probe" /\ hash[t] \in Slots /\ step[t] \in Slots /\ key[t] \in Keys
      /\ HashOf(key[t]) \in Slots
      /\ Dist(HashOf(key[t]), hash[t]) = step[t]
      /\ UNCHANGED <<table, enabled, op, key, found, absent>>
  BY HashType DEF TypeOK, OwnCall, Busy, Ahead, ProbeMiss
<1>1. \/ /\ pc' = [pc EXCEPT ![t] = "return"] /\ UNCHANGED <<step, hash>>
         /\ SameKey(t) \/ step[t] + 1 >= M
      \/ /\ step' = [step EXCEPT ![t] = step[t] + 1] /\ hash' = [hash EXCEPT ![t] = NextHash(hash[t])]
         /\ UNCHANGED pc /\ step[t] + 1 < M
  BY <1>0, TableAssumption DEF ProbeMiss, Slots
<1>2. step[t] + 1 < M => /\ NextHash(hash[t]) \in Slots /\ step[t] + 1 \in Slots
                         /\ Dist(HashOf(key[t]), NextHash(hash[t])) = step[t] + 1
  BY <1>0, DistNext, TableAssumption DEF Slots
<1>3. op[t] \notin Creates /\ ~absent[t] =>
        \E i \in Slots : table[i].key = key[t] /\ step[t] + 1 <= Dist(HashOf(key[t]), i)
  <2>. SUFFICES ASSUME op[t] \notin Creates, ~absent[t]
                PROVE  \E i \in Slots : table[i].key = key[t] /\ step[t] + 1 <= Dist(HashOf(key[t]), i)
    OBVIOUS
  <2>1. PICK i \in Slots : table[i].key = key[t] /\ step[t] <= Dist(HashOf(key[t]), i)
    BY <1>0 DEF Ahead, StillAhead
  <2>2. i # hash[t]
    BY <2>1 DEF ProbeMiss, Matches
  <2>3. Dist(HashOf(key[t]), i) \in Slots
    BY <1>0, DistType
  <2>4. Dist(HashOf(key[t]), i) # Dist(HashOf(key[t]), hash[t])
    <3>1. \A a, b, c \in Slots : b # c => Dist(a, b) # Dist(a, c)
      BY DistInjective
    <3>. QED  BY ONLY <1>0, <2>2, <3>1, i \in Slots
  <2>. QED
    BY <1>0, <2>1, <2>3, <2>4 DEF Slots
<1>4. op[t] \notin Creates /\ step[t] + 1 >= M => absent[t]
  <2>0. \A a, b \in Slots : Dist(a, b) \in Slots
    BY DistType
  <2>1. \A i \in Slots : Dist(HashOf(key[t]), i) \in Slots
    BY ONLY <1>0, <2>0
  <2>2. \A i \in Slots : Dist(HashOf(key[t]), i) \in Int /\ Dist(HashOf(key[t]), i) < M
    BY ONLY <2>1, TableAssumption DEF Slots
  <2>. QED
    BY <1>0, <1>3, <2>1, <2>2, TableAssumption DEF TypeOK, Slots
<1>5. TypeOK'
  BY <1>0, <1>1, <1>2, ZenonT(60) DEF TypeOK
<1>6. ValidIffKeyed' /\ UniqueKeys' /\ Allocators'
  BY <1>0 DEF ValidIffKeyed, UniqueKeys, Allocators
<1>7. OwnCall'
  BY <1>0, <1>1 DEF TypeOK, OwnCall, Busy
<1>8. HandleHeld' /\ CreateFresh' /\ NotFoundYet'
  BY <1>0, <1>1 DEF TypeOK, HandleHeld, CreateFresh, NotFoundYet
<1>9. DestroyGone'
  <2>1. found[t] = FALSE \/ pc' = pc \/ op[t] \notin Destroys
    BY <1>0, <1>1 DEF NotFoundYet
  <2>. QED
    BY <1>0, <1>1, <2>1 DEF TypeOK, DestroyGone
<1>10. EnabledCovers'
  <2>1. \A q \in Keys : Creating(q) => Creating(q)'
    BY <1>0, <1>1, ThreadsAssumption DEF TypeOK, Creating
  <2>. QED
    BY <1>0, <2>1 DEF EnabledCovers
<1>11. Ahead'
  <2>. SUFFICES ASSUME NEW u \in Threads, pc'[u] = "probe"
                PROVE  /\ Dist(HashOf(key'[u]), hash'[u]) = step'[u]
                       /\ op'[u] \notin Creates /\ ~absent'[u] => StillAhead(u)'
    BY DEF Ahead
  <2>1. CASE u = t
    <3>1. step'[t] = step[t] + 1 /\ hash'[t] = NextHash(hash[t]) /\ step[t] + 1 < M
      BY <1>1, <2>1 DEF TypeOK
    <3>. QED
      BY <1>0, <1>2, <1>3, <2>1, <3>1 DEF StillAhead
  <2>2. CASE u # t
    BY <1>0, <1>1, <2>2 DEF TypeOK, Ahead, StillAhead
  <2>. QED  BY <2>1, <2>2
<1>12. LookupComplete'
  BY <1>0, <1>1, <1>4 DEF TypeOK, LookupComplete, SameKey
<1>. QED
  BY <1>5, <1>6, <1>7, <1>8, <1>9, <1>10, <1>11, <1>12

\* A probe that matches keeps the invariant: what it reserves was nowhere in
\* the table, and what it clears is then nowhere in the table.
LEMMA HitStep ==
  ASSUME TableInv, NEW t \in Threads, ProbeHit(t)
  PROVE  TableInv'
<1>. USE DEF TableInv
<1>. DEFINE h == hash[t]
<1>0. /\ pc[t] = "probe" /\ pc' = [pc EXCEPT ![t] = "return"]
      /\ h \in Slots /\ key[t] \in Keys /\ key[t] # NoKey
      /\ found' = [found EXCEPT ![t] = TRUE]
      /\ UNCHANGED <<enabled, op, key, step, hash>>
      /\ \A u \in Threads : absent'[u] = (absent[u] \/ (pc[u] = "probe" /\ \A i \in Slots : table'[i].key # key[u]))
  BY NoKeyIsNone DEF TypeOK, OwnCall, Busy, ProbeHit, NoteAbsent
<1>1. absent' \in [Threads -> BOOLEAN]
  BY DEF ProbeHit, NoteAbsent, TypeOK
<1>2. OwnCall' /\ NotFoundYet'
  BY <1>0 DEF TypeOK, OwnCall, Busy, NotFoundYet
<1>3. LookupComplete'
  BY <1>0, <1>1 DEF TypeOK, LookupComplete
<1>4. \A q \in Keys : Creating(q) => Creating(q)'
  BY <1>0, ThreadsAssumption DEF TypeOK, Creating
<1>5. ASSUME table' \in [Slots -> Entries],
             \A u \in Threads : pc'[u] = "probe" /\ ~absent'[u] /\ op[u] \notin Creates /\ StillAhead(u) => StillAhead(u)'
      PROVE  TypeOK' /\ Ahead'
  <2>1. TypeOK'
    BY <1>0, <1>1, <1>5 DEF TypeOK
  <2>2. Ahead'
    BY <1>0, <1>5 DEF TypeOK, Ahead
  <2>. QED  BY <2>1, <2>2
<1>6. CASE op[t] = "FIND_FENCE"
  <2>1. table' = table
    BY <1>6 DEF ProbeHit
  <2>2. TypeOK' /\ Ahead'
    BY <1>0, <1>5, <2>1 DEF TypeOK, StillAhead
  <2>3. ValidIffKeyed' /\ UniqueKeys' /\ Allocators'
    BY <2>1 DEF ValidIffKeyed, UniqueKeys, Allocators
  <2>4. HandleHeld' /\ CreateFresh'
    BY <1>0, <2>1 DEF TypeOK, HandleHeld, CreateFresh
  <2>5. DestroyGone'
    BY <1>0, <1>6, <2>1 DEF TypeOK, DestroyGone, Destroys
  <2>6. EnabledCovers'
    BY <1>0, <1>4, <2>1 DEF EnabledCovers
  <2>. QED  BY <1>2, <1>3, <2>2, <2>3, <2>4, <2>5, <2>6
<1>7. CASE op[t] \in Creates
  <2>1. /\ table' = [table EXCEPT ![h] = Reserve(t)]
        /\ table[h].key = NoKey
        /\ \A i \in Slots : table[i].key # key[t]
        /\ Owner[key[t]] = t
    BY <1>0, <1>7 DEF ProbeHit, Matches, Creates, ValidIffKeyed, CreateFresh, OwnCall, Busy
  <2>2. /\ Reserve(t) \in Entries /\ Reserve(t).key = key[t] /\ Reserve(t).valid
        /\ key[t] \in FenceKeys => Reserve(t).allocator = ClientOf[t]
        /\ key[t] \in ArrayKeys => Reserve(t).allocator = Join
    BY <1>0, <1>7, ThreadsAssumption, KeysAssumption DEF Reserve, Entries, Join, Creates, OwnCall, Busy
  <2>3. table'[h] = Reserve(t) /\ \A i \in Slots : i # h => table'[i] = table[i]
    BY <1>0, <2>1 DEF TypeOK
  <2>4. table' \in [Slots -> Entries]
    BY <2>1, <2>2 DEF TypeOK
  <2>5. TypeOK' /\ Ahead'
    <3>1. ASSUME NEW u \in Threads, pc'[u] = "probe", StillAhead(u) PROVE StillAhead(u)'
      <4>1. key[u] \in Keys
        BY <1>0, <3>1 DEF TypeOK, OwnCall, Busy
      <4>2. PICK i \in Slots : table[i].key = key[u] /\ step[u] <= Dist(HashOf(key[u]), i)
        BY <3>1 DEF StillAhead
      <4>3. i # h
        BY <2>1, <4>1, <4>2, NoKeyIsNone
      <4>. QED  BY <1>0, <2>3, <4>2, <4>3 DEF StillAhead
    <3>. QED  BY <1>5, <2>4, <3>1
  <2>6. ValidIffKeyed' /\ UniqueKeys' /\ Allocators'
    BY <1>0, <2>1, <2>2, <2>3, NoKeyIsNone DEF ValidIffKeyed, UniqueKeys, Allocators, Keys
  <2>7. HandleHeld'
    BY <1>0, <2>1, <2>3, NoKeyIsNone DEF TypeOK, HandleHeld, Keys
  <2>8. \A u \in Threads : u # t /\ Busy(u) /\ op[u] # "FIND_FENCE" => key[u] # key[t]
    BY <2>1 DEF OwnCall
  <2>9. CreateFresh'
    BY <1>0, <2>2, <2>3, <2>8 DEF TypeOK, CreateFresh, Busy, Creates
  <2>10. DestroyGone'
    BY <1>0, <1>7, <2>2, <2>3, <2>8 DEF TypeOK, DestroyGone, Busy, Creates, Destroys
  <2>11. EnabledCovers'
    <3>1. Creating(key[t])'
      BY <1>0, <1>7, <2>1 DEF TypeOK, Creating
    <3>. QED
      BY <1>0, <1>4, <2>2, <2>3, <3>1 DEF EnabledCovers
  <2>. QED  BY <1>2, <1>3, <2>5, <2>6, <2>7, <2>9, <2>10, <2>11
<1>8. CASE op[t] \in Destroys
  <2>1. /\ table' = [table EXCEPT ![h] = FreeEntry]
        /\ table[h].key = key[t] /\ Owner[key[t]] = t
    BY <1>0, <1>8 DEF ProbeHit, Matches, Creates, Destroys, OwnCall, Busy, Unreserve
  <2>2. /\ FreeEntry \in Entries /\ FreeEntry.key = NoKey /\ ~FreeEntry.valid
        /\ FreeEntry.allocator = Nobody
    BY DEF FreeEntry, Entries, Nobody
  <2>3. table'[h] = FreeEntry /\ \A i \in Slots : i # h => table'[i] = table[i]
    BY <1>0, <2>1 DEF TypeOK
  <2>4. table' \in [Slots -> Entries]
    BY <2>1, <2>2 DEF TypeOK
  <2>5. \A i \in Slots : table'[i].key # key[t]
    BY <1>0, <2>1, <2>2, <2>3 DEF UniqueKeys
  <2>6. TypeOK' /\ Ahead'
    <3>1. ASSUME NEW u \in Threads, pc'[u] = "probe", ~absent'[u], StillAhead(u) PROVE StillAhead(u)'
      <4>1. pc[u] = "probe" /\ ~(\A i \in Slots : table'[i].key # key[u])
        BY <1>0, <3>1 DEF TypeOK
      <4>2. key[u] # key[t]
        BY <2>5, <4>1
      <4>3. PICK i \in Slots : table[i].key = key[u] /\ step[u] <= Dist(HashOf(key[u]), i)
        BY <3>1 DEF StillAhead
      <4>4. i # h
        BY <2>1, <4>2, <4>3
      <4>. QED  BY <1>0, <2>3, <4>3, <4>4 DEF StillAhead
    <3>. QED  BY <1>5, <2>4, <3>1
  <2>7. ValidIffKeyed' /\ UniqueKeys' /\ Allocators'
    BY <1>0, <2>2, <2>3, NoKeyIsNone DEF ValidIffKeyed, UniqueKeys, Allocators, Keys
  <2>8. HandleHeld'
    BY <1>0, <2>1, <2>3 DEF TypeOK, HandleHeld
  <2>9. CreateFresh'
    BY <1>0, <2>2, <2>3, NoKeyIsNone DEF TypeOK, CreateFresh, OwnCall, Busy
  <2>10. DestroyGone'
    BY <1>0, <2>2, <2>3, <2>5, NoKeyIsNone DEF TypeOK, DestroyGone, OwnCall, Busy
  <2>11. EnabledCovers'
    BY <1>0, <1>4, <2>2, <2>3, NoKeyIsNone DEF EnabledCovers
  <2>. QED  BY <1>2, <1>3, <2>6, <2>7, <2>8, <2>9, <2>10, <2>11
<1>. QED
  BY <1>6, <1>7, <1>8 DEF TypeOK, Ops

\* The flag that follows a call agrees with the table.
LEMMA ReturnStep ==
  ASSUME TableInv, NEW t \in Threads, Return(t)
  PROVE  TableInv'
<1>. USE DEF TableInv
<1>0. /\ pc[t] = "return" /\ pc' = [pc EXCEPT ![t] = "idle"] /\ key[t] \in Keys
      /\ table' = table
      /\ \A u \in Threads \ {t} : /\ key'[u] = key[u] /\ op'[u] = op[u] /\ found'[u] = found[u]
                                  /\ step'[u] = step[u] /\ hash'[u] = hash[u] /\ absent'[u] = absent[u]
  BY DEF TypeOK, OwnCall, Busy, Return
<1>1. TypeOK'
  <2>1. enabled' \in [Keys -> BOOLEAN]
    BY <1>0 DEF TypeOK, Return, Creates
  <2>. QED
    BY <2>1, TableAssumption DEF TypeOK, Return, Ops, Slots
<1>2. ValidIffKeyed' /\ UniqueKeys' /\ Allocators'
  BY <1>0 DEF ValidIffKeyed, UniqueKeys, Allocators
<1>3. OwnCall' /\ HandleHeld' /\ CreateFresh' /\ NotFoundYet' /\ DestroyGone' /\ LookupComplete'
  BY <1>0 DEF TypeOK, OwnCall, Busy, HandleHeld, CreateFresh, NotFoundYet, DestroyGone, LookupComplete
<1>4. Ahead'
  BY <1>0 DEF TypeOK, Ahead, StillAhead
<1>5. EnabledCovers'
  <2>. SUFFICES ASSUME NEW i \in Slots, table[i].key \in Keys
                PROVE  enabled'[table[i].key] \/ Creating(table[i].key)'
    BY <1>0 DEF EnabledCovers
  <2>. DEFINE k == table[i].key
  <2>0. Owner[k] \in Threads
    BY ThreadsAssumption
  <2>1. CASE Creating(k) /\ Owner[k] = t
    <3>1. key[t] = k /\ op[t] \in Creates /\ found[t]
      BY <2>1 DEF Creating
    <3>2. enabled' = [enabled EXCEPT ![key[t]] = op[t] \in Creates]
      BY <3>1 DEF Return
    <3>3. enabled'[k] = (op[t] \in Creates)
      BY <3>1, <3>2 DEF TypeOK
    <3>. QED  BY <3>1, <3>3
  <2>2. CASE Creating(k) /\ Owner[k] # t
    BY <1>0, <2>0, <2>2 DEF TypeOK, Creating
  <2>3. CASE enabled[k]
    <3>1. CASE key[t] # k
      BY <2>3, <3>1 DEF Return, TypeOK
    <3>2. CASE key[t] = k /\ op[t] \in Creates
      <4>1. enabled' = enabled \/ enabled' = [enabled EXCEPT ![key[t]] = op[t] \in Creates]
        BY DEF Return
      <4>2. [enabled EXCEPT ![key[t]] = op[t] \in Creates][k] = (op[t] \in Creates)
        BY <3>2 DEF TypeOK
      <4>. QED  BY <2>3, <3>2, <4>1, <4>2
    <3>3. CASE key[t] = k /\ op[t] \notin Creates
      <4>1. ~(op[t] = "DESTROY" /\ found[t])
        BY <1>0, <3>3 DEF DestroyGone, Destroys
      <4>2. enabled' = enabled
        BY <3>3, <4>1 DEF Return
      <4>. QED  BY <2>3, <4>2
    <3>. QED  BY <3>1, <3>2, <3>3
  <2>. QED  BY <2>1, <2>2, <2>3 DEF EnabledCovers
<1>. QED
  BY <1>1, <1>2, <1>3, <1>4, <1>5

-----------------------------------------------------------------------------
\* The invariant of the table holds in every state.
THEOREM TableInvariant == Disciplined /\ Spec => []TableInv
<1>. SUFFICES ASSUME Disciplined PROVE Spec => []TableInv
  OBVIOUS
<1>1. Init => TableInv
  BY InitTable
<1>2. TableInv /\ [Next]_vars => TableInv'
  <2>. SUFFICES ASSUME TableInv, [Next]_vars PROVE TableInv'
    OBVIOUS
  <2>1. CASE UNCHANGED vars
    BY <2>1 DEF vars, call, TableInv, TypeOK, ValidIffKeyed, UniqueKeys, OwnCall, Busy, Allocators, HandleHeld, CreateFresh, DestroyGone, NotFoundYet, EnabledCovers, Creating, Ahead, StillAhead, LookupComplete
  <2>2. ASSUME NEW t \in Threads, Step(t) PROVE TableInv'
    <3>0. ASSUME NEW k \in Keys, pc[t] = "idle", t = Owner[k], ~enabled[k] PROVE ~Present(k)
      BY <3>0 DEF TableInv, EnabledCovers, Creating, Present
    <3>1. ASSUME NEW k \in FenceKeys, Create(t, k) PROVE TableInv'
      BY <3>0, <3>1, LookupStep DEF Create, Keys, Ops, Creates
    <3>2. ASSUME NEW k \in FenceKeys, Destroy(t, k) PROVE TableInv'
      BY <3>2, LookupStep DEF Destroy, Keys, Ops, Creates, Destroys
    <3>3. ASSUME NEW k \in FenceKeys, Find(t, k) PROVE TableInv'
      BY <3>3, LookupStep DEF Find, Keys, Ops, Creates
    <3>4. ASSUME NEW k \in ArrayKeys, CreateJoin(t, k) PROVE TableInv'
      BY <3>0, <3>4, LookupStep DEF CreateJoin, Disciplined, Keys, Ops, Creates
    <3>5. ASSUME NEW k \in ArrayKeys, DestroyJoin(t, k) PROVE TableInv'
      BY <3>5, LookupStep DEF DestroyJoin, Disciplined, Keys, Ops, Creates, Destroys
    <3>6. ASSUME ReadKey(t) PROVE TableInv'
      <4>1. table[hash[t]].key \in FenceKeys /\ Owner[table[hash[t]].key] = t
        BY <3>6 DEF ReadKey, TableInv, HandleHeld
      <4>. QED
        BY <3>6, <4>1, LookupStep DEF ReadKey, Keys, Ops, Creates, Destroys
    <3>. QED
      BY <2>2, <3>1, <3>2, <3>3, <3>4, <3>5, <3>6, CheckStep, HitStep, MissStep, ReturnStep DEF Step
  <2>. QED  BY <2>1, <2>2 DEF Next
<1>. QED
  BY <1>1, <1>2, PTL DEF Spec

\* No <<context, seqno>> is in the table twice, although the search for a free
\* entry stops before the end of the table.
THEOREM TableUniqueKeys == Disciplined /\ Spec => []UniqueKeys
<1>1. TableInv => UniqueKeys
  BY DEF TableInv
<1>. QED
  BY <1>1, TableInvariant, PTL

\* A find or destroy fails only if the fence was absent during the call.
THEOREM TableLookupComplete == Disciplined /\ Spec => []LookupComplete
<1>1. TableInv => LookupComplete
  BY DEF TableInv
<1>. QED
  BY <1>1, TableInvariant, PTL

\* A client destroys by handle only what it allocated, although the check and
\* the use of the entry are two unlocked reads.
THEOREM TableHandleOwnFence == Disciplined /\ Spec => []HandleOwnFence
<1>1. TableInv => HandleOwnFence
  BY DEF TableInv, OwnCall, Busy, Allocators, HandleOwnFence
<1>. QED
  BY <1>1, TableInvariant, PTL

\* An entry that is free has no key that _hw_fence_match could still find.
THEOREM TableValidIffKeyed == Disciplined /\ Spec => []ValidIffKeyed
<1>1. TableInv => ValidIffKeyed
  BY DEF TableInv
<1>. QED
  BY <1>1, TableInvariant, PTL

\* The entries, and what the calls remember of them, keep their types.
THEOREM TableTypeOK == Disciplined /\ Spec => []TypeOK
<1>1. TableInv => TypeOK
  BY DEF TableInv
<1>. QED
  BY <1>1, TableInvariant, PTL
=============================================================================
