--------------------------- MODULE SpecFenceProofs ---------------------------
(***************************************************************************)
(* Proofs about the speculative fences.  The types hold whatever the       *)
(* binders do.  The other invariants need binds of one array that do not   *)
(* overlap: BindOrder says that the children of an array are then put in   *)
(* place once, which is all that HwDecision needs.  Accounts adds the      *)
(* arithmetic of num_pending for SignalEarned, and Exact the places that   *)
(* the arrays not yet released have for RefsExact.                         *)
(***************************************************************************)
EXTENDS SpecFence, FiniteSetTheorems, TLAPS

-----------------------------------------------------------------------------
(* Finite sets of places. *)

\* The slots of an array are finitely many, and so are any of them.
LEMMA SlotsFinite ==
  ASSUME NEW a \in Arrays, NEW S \in SUBSET Slots(a)
  PROVE  IsFiniteSet(S) /\ Cardinality(S) \in Nat /\ Cardinality(S) <= Cardinality(Slots(a))
         /\ Cardinality(Slots(a)) = NumFences[a] /\ IsFiniteSet(Slots(a))
<1>1. NumFences[a] \in Nat
  BY FencesAssumption
<1>2. IsFiniteSet(Slots(a)) /\ Cardinality(Slots(a)) = NumFences[a]
  BY <1>1, FS_Interval, SMTT(40) DEF Slots
<1>3. IsFiniteSet(S) /\ Cardinality(S) <= Cardinality(Slots(a))
  BY <1>2, FS_Subset
<1> QED
  BY <1>2, <1>3, FS_CardinalityType

\* Two sets that have nothing in common.
LEMMA DisjointSum ==
  ASSUME NEW A, NEW B, IsFiniteSet(A), IsFiniteSet(B), A \cap B = {}
  PROVE  /\ IsFiniteSet(A \cup B)
         /\ Cardinality(A \cup B) = Cardinality(A) + Cardinality(B)
<1>1. Cardinality(A) \in Nat /\ Cardinality(B) \in Nat /\ Cardinality({}) = 0
  BY FS_CardinalityType, FS_EmptySet
<1>2. /\ IsFiniteSet(A \cup B)
      /\ Cardinality(A \cup B) = Cardinality(A) + Cardinality(B) - Cardinality({})
  BY FS_Union
<1> QED
  BY <1>1, <1>2

\* The places of the arrays in S.
Places(S) == UNION {{a} \X Slots(a) : a \in S}

\* The places that hold the fence f in the assignment g of children.
PlacesOf(g, f, S) == {s \in Places(S) : g[s[1]][s[2]] = f}

\* A set of arrays has finitely many places.
LEMMA PlacesFinite ==
  ASSUME NEW S \in SUBSET Arrays, NEW g, NEW f
  PROVE  /\ IsFiniteSet(PlacesOf(g, f, S))
         /\ Cardinality(PlacesOf(g, f, S)) \in Nat
<1> DEFINE col(a) == {a} \X Slots(a)
<1>1. IsFiniteSet(S)
  BY FencesAssumption, FS_Subset
<1>2. IsFiniteSet({col(a) : a \in S})
  <2> DEFINE h == [a \in S |-> col(a)]
  <2>1. h \in Surjection(S, {col(a) : a \in S})
    <3> HIDE DEF col
    <3> QED
      BY DEF Surjection
  <2> QED
    BY <1>1, <2>1, FS_Surjection
<1>3. ASSUME NEW a \in S PROVE IsFiniteSet(col(a))
  <2>1. IsFiniteSet({a}) /\ IsFiniteSet(Slots(a))
    BY FS_Singleton, SlotsFinite
  <2> QED
    BY <2>1, FS_Product
<1>4. IsFiniteSet(Places(S))
  BY <1>2, <1>3, FS_UNION DEF Places
<1>5. IsFiniteSet(PlacesOf(g, f, S))
  BY <1>4, FS_Subset DEF PlacesOf
<1> QED
  BY <1>5, FS_CardinalityType

\* Disjoint sets of arrays have disjoint places, so their uses add up.
LEMMA PlacesAdd ==
  ASSUME NEW S \in SUBSET Arrays, NEW T \in SUBSET Arrays, S \cap T = {}, NEW g, NEW f
  PROVE  Cardinality(PlacesOf(g, f, S \cup T))
           = Cardinality(PlacesOf(g, f, S)) + Cardinality(PlacesOf(g, f, T))
<1>1. PlacesOf(g, f, S \cup T) = PlacesOf(g, f, S) \cup PlacesOf(g, f, T)
  BY DEF PlacesOf, Places
<1>2. PlacesOf(g, f, S) \cap PlacesOf(g, f, T) = {}
  BY DEF PlacesOf, Places
<1>3. IsFiniteSet(PlacesOf(g, f, S)) /\ IsFiniteSet(PlacesOf(g, f, T))
  BY PlacesFinite
<1> QED
  BY <1>1, <1>2, <1>3, DisjointSum

\* The uses of a fence by one array are its slots that hold it.
LEMMA PlacesOne ==
  ASSUME NEW a \in Arrays, NEW g, NEW f
  PROVE  Cardinality(PlacesOf(g, f, {a})) = Cardinality({i \in Slots(a) : g[a][i] = f})
<1> DEFINE I == {i \in Slots(a) : g[a][i] = f}
           h == [i \in I |-> <<a, i>>]
<1>1. IsFiniteSet(I)
  BY SlotsFinite
<1>2. PlacesOf(g, f, {a}) = {<<a, i>> : i \in I}
  BY DEF PlacesOf, Places
<1>3. h \in Bijection(I, PlacesOf(g, f, {a}))
  BY <1>2 DEF Bijection, Injection, Surjection, IsInjective
<1>4. ExistsBijection(I, PlacesOf(g, f, {a}))
  BY <1>3 DEF ExistsBijection
<1>5. Cardinality(PlacesOf(g, f, {a})) = Cardinality(I)
  <2> HIDE DEF I
  <2> QED
    BY <1>1, <1>4, FS_Bijection
<1> QED
  BY <1>5

\* What the model counts as uses.
LEMMA UsesPlaces ==
  ASSUME NEW f, NEW S
  PROVE  Uses(f, S) = Cardinality(PlacesOf(children, f, S))
BY DEF Uses, PlacesOf, Places

-----------------------------------------------------------------------------
(* Types. *)

Labels ==
  {"idle", "track", "check", "fill", "enable", "clear", "clear failed", "bound",
   "error", "signal", "wait bind", "children", "hw", "sw", "sw wait"}

\* The type invariant, and what makes it inductive: a thread has an array
\* exactly while it is in a call, and only an array that was created has
\* callbacks, so that only such an array comes to its irq work.
Shape ==
  /\ TypeOK
  /\ DOMAIN children = Arrays /\ DOMAIN callbacks = Arrays
  /\ pc \in [Threads -> Labels]
  /\ \A t \in Threads : pc[t] = "idle" <=> arg[t] = None
  /\ \A a \in Arrays : callbacks[a] # {} => a \in made

\* The part of Shape that is about the calls.
CallsOK ==
  /\ pc \in [Threads -> Labels]
  /\ arg \in [Threads -> made \cup {None}]
  /\ \A t \in Threads : pc[t] = "idle" <=> arg[t] = None

\* A thread begins a call on an array, goes on with it, or returns.
LEMMA StartCalls ==
  ASSUME CallsOK, NEW t \in Threads, NEW l \in Labels \ {"idle"}, NEW a,
         made \subseteq made', a \in made', None \notin made', Start(t, l, a)
  PROVE  CallsOK'
BY DEF CallsOK, Start, Goto

\* A call goes on.
LEMMA GotoCalls ==
  ASSUME CallsOK, NEW t \in Threads, NEW l \in Labels \ {"idle"}, pc[t] # "idle",
         Goto(t, l), UNCHANGED <<arg, made>>
  PROVE  CallsOK'
BY DEF CallsOK, Goto

\* A call returns.
LEMMA ReturnCalls ==
  ASSUME CallsOK, NEW t \in Threads, Return(t), UNCHANGED made
  PROVE  CallsOK'
<1>1. "idle" \in Labels
  BY DEF Labels
<1> QED
  BY <1>1 DEF CallsOK, Return, Start, Goto

\* dma_fence_put keeps the counters integers.
LEMMA PutType ==
  ASSUME Shape, PutArrays
  PROVE  held' \in [UserFences \cup {Dummy} -> Int]
<1>1. PICK released \in SUBSET Arrays :
        held' = IF released = {} THEN held
                ELSE [f \in DOMAIN held |-> held[f] - Uses(f, released)]
  BY DEF PutArrays
<1>2. \A f \in UserFences \cup {Dummy} : Uses(f, released) \in Nat
  BY PlacesFinite, UsesPlaces
<1>3. held \in [UserFences \cup {Dummy} -> Int]
  BY DEF Shape, TypeOK
<1> QED
  BY <1>1, <1>2, <1>3

\* dma_fence_array_enable_signaling keeps the types.
LEMMA EnableType ==
  ASSUME Shape, NEW a \in made, EnableSignaling(a)
  PROVE  /\ enabled' \subseteq made
         /\ pending' \in [Arrays -> Int]
         /\ DOMAIN callbacks' = Arrays
         /\ \A x \in Arrays : callbacks'[x] \subseteq Slots(x)
         /\ \A x \in Arrays : callbacks'[x] # {} => x \in made
         /\ signaled' \subseteq made \cup UserFences
<1>1. /\ a \in Arrays /\ enabled \subseteq made /\ pending \in [Arrays -> Int]
      /\ DOMAIN callbacks = Arrays
      /\ \A x \in Arrays : callbacks[x] \subseteq Slots(x)
      /\ \A x \in Arrays : callbacks[x] # {} => x \in made
      /\ signaled \subseteq made \cup UserFences
  BY DEF Shape, TypeOK
<1>2. CASE a \in enabled \cup signaled
  BY <1>1, <1>2 DEF EnableSignaling
<1>3. CASE a \notin enabled \cup signaled
  <2>1. PICK seen \in SUBSET Slots(a) :
          /\ pending' = [pending EXCEPT ![a] =
                           @ - Cardinality({i \in seen : children[a][i] \in signaled})]
          /\ callbacks' = [callbacks EXCEPT ![a] =
                             @ \cup {i \in seen : children[a][i] \notin signaled}]
    BY <1>3 DEF EnableSignaling
  <2>2. enabled' = enabled \cup {a} /\ signaled' \in {signaled, signaled \cup {a}}
    BY <1>3 DEF EnableSignaling
  <2>3. Cardinality({i \in seen : children[a][i] \in signaled}) \in Nat
    BY <1>1, SlotsFinite
  <2> QED
    BY <1>1, <2>1, <2>2, <2>3
<1> QED
  BY <1>2, <1>3

\* The initial state has the types.
LEMMA ShapeInit == Init => Shape
BY FencesAssumption, ThreadsAssumption
   DEF Init, Shape, TypeOK, Labels, Threads, Slots

\* Every step keeps the types.
LEMMA ShapeStep == Shape /\ [Next]_vars => Shape'
<1> SUFFICES ASSUME Shape, [Next]_vars PROVE Shape'
  OBVIOUS
<1> USE FencesAssumption, ThreadsAssumption
<1>t. /\ Shape /\ CallsOK
      /\ \A t \in Threads : pc[t] # "idle" => arg[t] \in made
      /\ Binders \subseteq Threads /\ Readers \subseteq Threads
      /\ None \notin made
  BY DEF Shape, TypeOK, Threads, Labels, CallsOK
<1>1. CASE UNCHANGED vars
  BY <1>1, <1>t DEF Shape, TypeOK, vars, fence
<1>2. CASE spec_sync_open
  BY <1>2, <1>t DEF spec_sync_open, Shape, TypeOK, fence
<1>3. CASE spec_sync_release
  <2>1. held' \in [UserFences \cup {Dummy} -> Int]
    BY <1>3, PutType DEF spec_sync_release
  <2>2. ClearedByClose \subseteq tracker
    BY DEF ClearedByClose
  <2> QED
    BY <1>3, <1>t, <2>1, <2>2 DEF spec_sync_release, Shape, TypeOK
<1>4. ASSUME NEW b \in Binders, NEW a \in Arrays, spec_sync_create_array(b, a)
      PROVE  Shape'
  <2>1. a \in made' /\ made \subseteq made' /\ None \notin made'
    BY <1>4, <1>t DEF spec_sync_create_array
  <2>2. CallsOK'
    BY <1>4, <1>t, <2>1, StartCalls DEF spec_sync_create_array, Labels
  <2> QED
    BY <1>4, <1>t, <2>2 DEF spec_sync_create_array, CallsOK, Shape, TypeOK
<1>5. ASSUME NEW b \in Binders, NEW a \in Arrays, BindBegin(b, a)
      PROVE  Shape'
  <2>1. a \in made /\ made' = made
    BY <1>5, <1>t DEF BindBegin, Shape, TypeOK
  <2>2. CASE Expired(a)
    BY <1>5, <1>t, <2>1, <2>2 DEF BindBegin, SignalExpired, Shape, TypeOK
  <2>3. CASE ~Expired(a)
    <3>1. CallsOK'
      BY <1>5, <1>t, <2>1, <2>3, StartCalls DEF BindBegin, Labels
    <3> QED
      BY <1>5, <1>t, <2>1, <3>1 DEF BindBegin, SignalExpired, CallsOK, Shape, TypeOK
  <2> QED
    BY <2>2, <2>3
<1>6. ASSUME NEW b \in Binders, TrackArray(b)
      PROVE  Shape'
  <2>1. CallsOK'
    BY <1>6, <1>t, ReturnCalls DEF TrackArray
  <2> QED
    BY <1>6, <1>t, <2>1 DEF TrackArray, CallsOK, Shape, TypeOK, fence
<1>7. ASSUME NEW b \in Binders, BindCheck(b)
      PROVE  Shape'
  <2>1. held' \in [UserFences \cup {Dummy} -> Int]
    BY <1>7, PutType DEF BindCheck
  <2>2. CallsOK'
    BY <1>7, <1>t, GotoCalls, ReturnCalls DEF BindCheck, Labels
  <2> QED
    BY <1>7, <1>t, <2>1, <2>2 DEF BindCheck, CallsOK, Shape, TypeOK, fence
<1>8. ASSUME NEW b \in Binders, NEW fds \in [Slots(arg[b]) -> UserFences \cup {BadFd}],
             BindFill(b, fds)
      PROVE  Shape'
  <2>1. PICK a \in made : a = arg[b]
    BY <1>8, <1>t DEF BindFill
  <2>2. a \in Arrays
    BY <1>t DEF Shape, TypeOK
  <2>3. held' \in [UserFences \cup {Dummy} -> Int]
    <3>1. \A f \in UserFences \cup {Dummy} :
            Cardinality({i \in Prefix(a, fds) : fds[i] = f}) \in Nat
      BY <2>2, SlotsFinite DEF Prefix
    <3>2. Cardinality(Prefix(a, fds)) \in Nat
      BY <2>2, SlotsFinite DEF Prefix
    <3>3. held' = HeldByBind(a, fds) /\ held \in [UserFences \cup {Dummy} -> Int]
      BY <1>8, <2>1, <1>t DEF BindFill, Shape, TypeOK
    <3> QED
      BY <3>1, <3>2, <3>3 DEF HeldByBind
  <2>4. /\ \A x \in Arrays : children'[x] \in [Slots(x) -> UserFences \cup {Dummy}]
        /\ DOMAIN children' = Arrays
    <3>1. PICK P \in SUBSET Slots(a) : P = Prefix(a, fds)
      BY DEF Prefix
    <3>2. \A i \in P : fds[i] \in UserFences
      BY <3>1, <2>1, <2>2 DEF Prefix, Slots
    <3>3. children' = [children EXCEPT ![a] =
                         [i \in Slots(a) |-> IF i \in P THEN fds[i] ELSE @[i]]]
      BY <1>8, <2>1, <3>1 DEF BindFill
    <3>4. /\ \A x \in Arrays : children[x] \in [Slots(x) -> UserFences \cup {Dummy}]
          /\ DOMAIN children = Arrays
      BY <1>t DEF Shape, TypeOK
    <3> QED
      BY <2>2, <3>2, <3>3, <3>4
  <2>5. pc' \in [Threads -> Labels] /\ \A t \in Threads : pc'[t] = "idle" <=> arg'[t] = None
    BY <1>8, <1>t DEF BindFill, Goto, Shape, Labels
  <2>6. enabled' \subseteq made /\ bound' \subseteq made
    BY <1>8, <1>t, <2>1 DEF BindFill, EnableBitCleared, Shape, TypeOK
  <2> QED
    BY <1>8, <1>t, <2>3, <2>4, <2>5, <2>6 DEF BindFill, Shape, TypeOK
<1>9. ASSUME NEW b \in Binders, BindEnable(b)
      PROVE  Shape'
  <2>1. arg[b] \in made /\ EnableSignaling(arg[b])
    BY <1>9, <1>t DEF BindEnable
  <2>2. /\ enabled' \subseteq made
        /\ pending' \in [Arrays -> Int]
        /\ DOMAIN callbacks' = Arrays
        /\ \A x \in Arrays : callbacks'[x] \subseteq Slots(x)
        /\ \A x \in Arrays : callbacks'[x] # {} => x \in made
        /\ signaled' \subseteq made \cup UserFences
    BY <2>1, EnableType
  <2> QED
    BY <1>9, <1>t, <2>2, ZenonT(60) DEF BindEnable, Goto, Shape, TypeOK, Labels
<1>10. ASSUME NEW b \in Binders, BindClear(b)
      PROVE  Shape'
  <2>1. held' \in [UserFences \cup {Dummy} -> Int]
    BY <1>10, PutType DEF BindClear
  <2>2. CallsOK'
    BY <1>10, <1>t, GotoCalls, ReturnCalls DEF BindClear, Labels
  <2> QED
    BY <1>10, <1>t, <2>1, <2>2 DEF BindClear, SignalExpired, CallsOK, Shape, TypeOK
<1>11. ASSUME NEW b \in Binders, BindBound(b)
      PROVE  Shape'
  <2>1. held' \in [UserFences \cup {Dummy} -> Int]
    BY <1>11, PutType DEF BindBound
  <2>2. CallsOK'
    BY <1>11, <1>t, ReturnCalls DEF BindBound
  <2> QED
    BY <1>11, <1>t, <2>1, <2>2 DEF BindBound, CallsOK, Shape, TypeOK
<1>12. ASSUME NEW b \in Binders, BindError(b)
      PROVE  Shape'
  <2>1. CallsOK'
    BY <1>12, <1>t, GotoCalls DEF BindError, Labels
  <2> QED
    BY <1>12, <1>t, <2>1 DEF BindError, CallsOK, Shape, TypeOK
<1>13. ASSUME NEW b \in Binders, BindSignal(b)
      PROVE  Shape'
  <2>1. CallsOK'
    BY <1>13, <1>t, GotoCalls DEF BindSignal, Labels
  <2>2. signaled' \subseteq made' \cup UserFences
    BY <1>13, <1>t, ZenonT(60) DEF BindSignal, Shape, TypeOK
  <2> QED
    BY <1>13, <1>t, <2>1, <2>2 DEF BindSignal, CallsOK, Shape, TypeOK
<1>14. ASSUME NEW r \in Readers, NEW a \in Arrays, FrameBegin(r, a)
      PROVE  Shape'
  <2>1. a \in made /\ made' = made
    BY <1>14, <1>t DEF FrameBegin, Shape, TypeOK
  <2>2. CallsOK'
    BY <1>14, <1>t, <2>1, StartCalls DEF FrameBegin, Labels
  <2> QED
    BY <1>14, <1>t, <2>2 DEF FrameBegin, CallsOK, Shape, TypeOK, fence
<1>15. ASSUME NEW r \in Readers, Bound(r) \/ BindTimeout(r) \/ LookAtChildren(r)
      PROVE  Shape'
  <2>1. CallsOK'
    BY <1>15, <1>t, GotoCalls DEF Bound, BindTimeout, LookAtChildren, Labels
  <2> QED
    BY <1>15, <1>t, <2>1, ZenonT(60)
       DEF Bound, BindTimeout, LookAtChildren, CallsOK, Shape, TypeOK, fence
<1>16. ASSUME NEW r \in Readers, FrameEnd(r) \/ SwWoken(r) \/ SwTimeout(r)
      PROVE  Shape'
  <2>1. held' \in [UserFences \cup {Dummy} -> Int]
    BY <1>16, PutType DEF FrameEnd, SwWoken, SwTimeout
  <2>2. CallsOK'
    BY <1>16, <1>t, ReturnCalls DEF FrameEnd, SwWoken, SwTimeout
  <2> QED
    BY <1>16, <1>t, <2>1, <2>2, ZenonT(60)
       DEF FrameEnd, SwWoken, SwTimeout, CallsOK, Shape, TypeOK, fence
<1>17. ASSUME NEW r \in Readers, SwWait(r)
      PROVE  Shape'
  <2>1. held' \in [UserFences \cup {Dummy} -> Int]
    BY <1>17, PutType DEF SwWait
  <2>2. CASE Expired(arg[r])
    <3>1. CallsOK'
      BY <1>17, <1>t, <2>2, ReturnCalls DEF SwWait
    <3> QED
      BY <1>17, <1>t, <2>1, <2>2, <3>1 DEF SwWait, SignalExpired, CallsOK, Shape, TypeOK
  <2>3. CASE ~Expired(arg[r])
    <3>1. arg[r] \in made /\ EnableSignaling(arg[r])
      BY <1>17, <1>t, <2>3 DEF SwWait
    <3>2. /\ enabled' \subseteq made
          /\ pending' \in [Arrays -> Int]
          /\ DOMAIN callbacks' = Arrays
          /\ \A x \in Arrays : callbacks'[x] \subseteq Slots(x)
          /\ \A x \in Arrays : callbacks'[x] # {} => x \in made
          /\ signaled' \subseteq made \cup UserFences
      BY <3>1, EnableType
    <3>3. CallsOK'
      BY <1>17, <1>t, <2>3, GotoCalls DEF SwWait, Labels
    <3> QED
      BY <1>17, <1>t, <2>1, <3>2, <3>3 DEF SwWait, CallsOK, Shape, TypeOK
  <2> QED
    BY <2>2, <2>3
<1>18. ASSUME NEW u \in UserFences, SignalFence(u)
      PROVE  Shape'
  <2>1. held' \in [UserFences \cup {Dummy} -> Int]
    BY <1>18, PutType DEF SignalFence
  <2>2. \A a \in Arrays : Cardinality({i \in callbacks[a] : children[a][i] = u}) \in Nat
    BY <1>t, SlotsFinite DEF Shape, TypeOK
  <2>3. pending' \in [Arrays -> Int]
    BY <1>18, <1>t, <2>2 DEF SignalFence, Shape, TypeOK
  <2>4. /\ DOMAIN callbacks' = Arrays
        /\ \A x \in Arrays : callbacks'[x] \subseteq callbacks[x]
    BY <1>18, <1>t DEF SignalFence, Shape, TypeOK
  <2>5. irqWork' \subseteq made
    <3>1. ASSUME NEW a \in Arrays, a \notin made
          PROVE  Cardinality({i \in callbacks[a] : children[a][i] = u}) = 0
      <4>1. {i \in callbacks[a] : children[a][i] = u} = {}
        BY <1>t, <3>1 DEF Shape
      <4> QED
        BY <4>1, FS_EmptySet
    <3>2. irqWork \subseteq made /\ pending \in [Arrays -> Int]
      BY <1>t DEF Shape, TypeOK
    <3>3. irqWork' = irqWork \cup
            {a \in Arrays : /\ pending[a] > 0
                            /\ pending[a] - Cardinality({i \in callbacks[a] : children[a][i] = u}) <= 0}
      BY <1>18 DEF SignalFence
    <3>4. ASSUME NEW a \in irqWork', a \notin irqWork
          PROVE  a \in made
      <4>1. /\ a \in Arrays /\ pending[a] > 0
            /\ pending[a] - Cardinality({i \in callbacks[a] : children[a][i] = u}) <= 0
        BY <3>3, <3>4
      <4> QED
        BY <3>1, <3>2, <4>1
    <3> QED
      BY <3>2, <3>4
  <2> QED
    BY <1>18, <1>t, <2>1, <2>3, <2>4, <2>5 DEF SignalFence, Shape, TypeOK
<1>19. ASSUME NEW a \in Arrays, IrqWork(a)
      PROVE  Shape'
  <2>1. held' \in [UserFences \cup {Dummy} -> Int]
    BY <1>19, PutType DEF IrqWork
  <2> QED
    BY <1>19, <1>t, <2>1 DEF IrqWork, Shape, TypeOK
<1>20. ASSUME NEW a \in Arrays, CloseSyncFile(a)
      PROVE  Shape'
  <2>1. held' \in [UserFences \cup {Dummy} -> Int]
    BY <1>20, PutType DEF CloseSyncFile
  <2> QED
    BY <1>20, <1>t, <2>1 DEF CloseSyncFile, Shape, TypeOK, fence
<1> QED
  BY <1>1, <1>2, <1>3, <1>4, <1>5, <1>6, <1>7, <1>8, <1>9, <1>10, <1>11, <1>12, <1>13,
     <1>14, <1>15, <1>16, <1>17, <1>18, <1>19, <1>20
     DEF Next, BindStep, FrameStep

\* Every state has the types, whatever binds overlap.
THEOREM SpecFenceTypeOK == Spec => []TypeOK
<1>1. Shape => TypeOK
  BY DEF Shape
<1> QED
  BY <1>1, ShapeInit, ShapeStep, PTL DEF Spec

-----------------------------------------------------------------------------
(* The children of an array are put in place once. *)

\* One binder at a time works on an array; it fills one that holds nothing
\* but the dummy; an array is filled before the bit that creation set in it
\* is cleared, and not before it is created.
BindOrder ==
  /\ \A b, c \in Binders : arg[b] = arg[c] /\ arg[b] # None => b = c
  /\ \A b \in Binders : pc[b] = "fill" => ~Filled(arg[b])
  /\ \A a \in made \ enabled : Filled(a)
  /\ \A a \in Arrays \ made : ~Filled(a)

\* At the start nothing is bound.
LEMMA BindOrderInit == Init => BindOrder
BY DEF Init, BindOrder, Filled, Threads

\* A step that leaves the children, the bits and the calls of the binders
\* alone keeps the order.
LEMMA BindOrderKept ==
  ASSUME BindOrder, UNCHANGED <<children, made>>, enabled \subseteq enabled',
         \A b \in Binders : pc'[b] = pc[b] /\ arg'[b] = arg[b]
  PROVE  BindOrder'
BY DEF BindOrder, Filled

\* A step of one binder that begins no call and no filling keeps it too.
LEMMA BindOrderMoves ==
  ASSUME BindOrder, UNCHANGED <<children, made>>, enabled \subseteq enabled',
         NEW b \in Binders, pc'[b] # "fill", arg'[b] \in {arg[b], None},
         \A c \in Binders \ {b} : pc'[c] = pc[c] /\ arg'[c] = arg[c]
  PROVE  BindOrder'
BY DEF BindOrder, Filled

\* Every step keeps the order when binds of an array do not overlap.
LEMMA BindOrderStep ==
  ASSUME OneBindAtATime
  PROVE  Shape /\ BindOrder /\ [Next]_vars => BindOrder'
<1> SUFFICES ASSUME Shape, BindOrder, [Next]_vars PROVE BindOrder'
  OBVIOUS
<1>t. /\ pc \in [Threads -> Labels] /\ arg \in [Threads -> made \cup {None}]
      /\ \A t \in Threads : pc[t] # "idle" => arg[t] \in made
      /\ Binders \subseteq Threads /\ Readers \subseteq Threads
      /\ made \subseteq Arrays /\ files \subseteq made /\ None \notin Arrays
      /\ Binders \cap Readers = {}
  BY FencesAssumption, ThreadsAssumption DEF Shape, TypeOK, Threads
<1>1. CASE \/ UNCHANGED vars \/ spec_sync_open \/ spec_sync_release
           \/ \E u \in UserFences : SignalFence(u)
           \/ \E a \in Arrays : IrqWork(a) \/ CloseSyncFile(a)
  <2>1. UNCHANGED <<children, made, enabled, pc, arg>>
    BY <1>1 DEF vars, fence, spec_sync_open, spec_sync_release, SignalFence, IrqWork,
                CloseSyncFile
  <2> QED
    BY <2>1, BindOrderKept
<1>2. ASSUME NEW b \in Binders, NEW a \in Arrays, spec_sync_create_array(b, a)
      PROVE  BindOrder'
  <2>1. /\ a \notin made /\ made' = made \cup {a} /\ enabled' = enabled \cup {a}
        /\ children' = children
        /\ pc' = [pc EXCEPT ![b] = "track"] /\ arg' = [arg EXCEPT ![b] = a]
    BY <1>2 DEF spec_sync_create_array, Start, Goto
  <2>2. \A c \in Binders : arg[c] # a
    BY <1>t, <2>1
  <2> QED
    BY <1>t, <2>1, <2>2 DEF BindOrder, Filled
<1>3. ASSUME NEW b \in Binders, NEW a \in Arrays, BindBegin(b, a)
      PROVE  BindOrder'
  <2>1. /\ UNCHANGED <<children, made, enabled>>
        /\ \A c \in Binders : arg[c] # a
    BY <1>3 DEF BindBegin
  <2>2. CASE UNCHANGED <<pc, arg>>
    BY <2>1, <2>2, BindOrderKept
  <2>3. CASE pc' = [pc EXCEPT ![b] = "check"] /\ arg' = [arg EXCEPT ![b] = a]
    BY <1>t, <2>1, <2>3 DEF BindOrder, Filled
  <2> QED
    BY <1>3, <2>2, <2>3 DEF BindBegin, Start, Goto
<1>4. ASSUME NEW b \in Binders,
             TrackArray(b) \/ BindClear(b) \/ BindBound(b) \/ BindError(b) \/ BindSignal(b)
      PROVE  BindOrder'
  <2>1. UNCHANGED <<children, made, enabled>>
    BY <1>4 DEF TrackArray, BindClear, BindBound, BindError, BindSignal, fence
  <2>2. /\ pc'[b] # "fill" /\ arg'[b] \in {arg[b], None}
        /\ \A c \in Binders \ {b} : pc'[c] = pc[c] /\ arg'[c] = arg[c]
    BY <1>4, <1>t DEF TrackArray, BindClear, BindBound, BindError, BindSignal,
                      Return, Start, Goto
  <2> QED
    BY <2>1, <2>2, BindOrderMoves
<1>5. ASSUME NEW b \in Binders, BindCheck(b)
      PROVE  BindOrder'
  <2>1. UNCHANGED <<children, made, enabled>>
    BY <1>5 DEF BindCheck, fence
  <2>2. CASE pc' = [pc EXCEPT ![b] = "fill"] /\ arg' = arg /\ ~Filled(arg[b])
    BY <1>t, <2>1, <2>2 DEF BindOrder, Filled
  <2>3. CASE pc' = [pc EXCEPT ![b] = "idle"] /\ arg' = [arg EXCEPT ![b] = None]
    BY <1>t, <2>1, <2>3, BindOrderMoves
  <2> QED
    BY <1>5, <2>2, <2>3 DEF BindCheck, Return, Start, Goto
<1>6. ASSUME NEW b \in Binders, BindEnable(b)
      PROVE  BindOrder'
  <2>1. UNCHANGED <<children, made, arg>> /\ enabled \subseteq enabled'
    BY <1>6 DEF BindEnable, EnableSignaling
  <2>2. pc'[b] # "fill" /\ \A c \in Binders \ {b} : pc'[c] = pc[c]
    BY <1>6, <1>t DEF BindEnable, Goto
  <2> QED
    BY <2>1, <2>2, BindOrderMoves
<1>7. ASSUME NEW b \in Binders, NEW fds \in [Slots(arg[b]) -> UserFences \cup {BadFd}],
             BindFill(b, fds)
      PROVE  BindOrder'
  <2>1. PICK a \in made : a = arg[b]
    BY <1>7, <1>t DEF BindFill
  <2>2. PICK l \in {"enable", "error"} : pc' = [pc EXCEPT ![b] = l]
    BY <1>7 DEF BindFill, Goto
  <2>3. UNCHANGED <<made, arg>>
    BY <1>7 DEF BindFill
  <2>4. \A x \in Arrays \ {a} : children'[x] = children[x]
    BY <1>7, <2>1 DEF BindFill
  <2>5. \A x \in Arrays \ {a} : Filled(x)' <=> Filled(x)
    BY <2>4 DEF Filled
  <2>6. \A c \in Binders \ {b} : pc[c] = "fill" => arg[c] \in Arrays \ {a}
    BY <1>t, <2>1 DEF BindOrder
  <2>7. \A x \in made \ enabled' : Filled(x)'
    <3>1. CASE Prefix(a, fds) = Slots(a)
      <4>1. a \in Arrays /\ 1 \in Slots(a)
        BY <1>t, FencesAssumption DEF Slots
      <4>2. a \in DOMAIN children
        BY <4>1 DEF Shape
      <4>3. children'[a][1] = fds[1]
        BY <1>7, <2>1, <3>1, <4>1, <4>2 DEF BindFill
      <4>4. fds[1] \in UserFences
        BY <2>1, <3>1, <4>1 DEF Prefix, Slots
      <4>5. Filled(a)'
        BY <4>1, <4>3, <4>4, FencesAssumption DEF Filled
      <4>6. enabled' = enabled \ {a}
        BY <1>7, <2>1, <3>1 DEF BindFill, EnableBitCleared
      <4> QED
        BY <1>t, <2>5, <4>5, <4>6 DEF BindOrder
    <3>2. CASE Prefix(a, fds) # Slots(a)
      <4>1. enabled' = enabled
        BY <1>7, <2>1, <3>2 DEF BindFill
      <4>2. a \in enabled
        BY <1>7, <2>1, <1>t DEF BindOrder, BindFill
      <4> QED
        BY <1>t, <2>5, <4>1, <4>2 DEF BindOrder
    <3> QED
      BY <3>1, <3>2
  <2>8. \A x \in Arrays \ made : Filled(x)' <=> Filled(x)
    BY <2>5
  <2>9. \A c \in Binders : pc'[c] = "fill" => ~Filled(arg[c])'
    BY <1>t, <2>2, <2>3, <2>5, <2>6 DEF BindOrder
  <2>10. \A c, d \in Binders : arg'[c] = arg'[d] /\ arg'[c] # None => c = d
    BY <2>3 DEF BindOrder
  <2>11. \A x \in Arrays \ made' : ~Filled(x)'
    BY <2>3, <2>8 DEF BindOrder
  <2>12. \A x \in made' \ enabled' : Filled(x)'
    BY <2>3, <2>7
  <2> QED
    BY <2>9, <2>10, <2>11, <2>12 DEF BindOrder
<1>8. ASSUME NEW r \in Readers, FrameStep(r) \/ \E a \in Arrays : FrameBegin(r, a)
      PROVE  BindOrder'
  <2>1. UNCHANGED <<children, made>> /\ enabled \subseteq enabled'
    BY <1>8 DEF FrameStep, Bound, BindTimeout, LookAtChildren, FrameEnd, SwWait, SwWoken,
                SwTimeout, FrameBegin, EnableSignaling, fence
  <2>2. \A c \in Binders : pc'[c] = pc[c] /\ arg'[c] = arg[c]
    BY <1>8, <1>t DEF FrameStep, Bound, BindTimeout, LookAtChildren, FrameEnd, SwWait,
                SwWoken, SwTimeout, FrameBegin, Return, Start, Goto
  <2> QED
    BY <2>1, <2>2, BindOrderKept
<1> QED
  BY <1>1, <1>2, <1>3, <1>4, <1>5, <1>6, <1>7, <1>8 DEF Next, BindStep

\* The children of an array that holds a fence never change again.
LEMMA ChildrenFinal ==
  ASSUME Shape, BindOrder, [Next]_vars, NEW a \in Arrays, Filled(a)
  PROVE  children'[a] = children[a]
<1>1. ASSUME NEW b \in Binders, NEW fds \in [Slots(arg[b]) -> UserFences \cup {BadFd}],
             BindFill(b, fds)
      PROVE  children'[a] = children[a]
  <2>1. arg[b] # a
    BY <1>1 DEF BindOrder, BindFill
  <2> QED
    BY <1>1, <2>1 DEF BindFill
<1> QED
  BY <1>1
     DEF Next, BindStep, FrameStep, vars, fence, spec_sync_open, spec_sync_release,
         spec_sync_create_array, BindBegin, TrackArray, BindCheck, BindEnable, BindClear,
         BindBound, BindError, BindSignal, FrameBegin, Bound, BindTimeout, LookAtChildren,
         FrameEnd, SwWait, SwWoken, SwTimeout, SignalFence, IrqWork, CloseSyncFile

\* A frame whose array was found to hold hw-fences keeps that array.
LEMMA HwDecisionStep ==
  Shape /\ BindOrder /\ HwDecision /\ [Next]_vars => HwDecision'
<1> SUFFICES ASSUME Shape, BindOrder, HwDecision, [Next]_vars,
                    NEW r \in Readers, pc'[r] = "hw", NEW i \in Slots(arg'[r])
             PROVE  children'[arg'[r]][i] \in HwFences
  BY DEF HwDecision
<1>t. /\ pc \in [Threads -> Labels] /\ arg \in [Threads -> made \cup {None}]
      /\ \A t \in Threads : pc[t] # "idle" => arg[t] \in made
      /\ Binders \subseteq Threads /\ Readers \subseteq Threads
      /\ made \subseteq Arrays /\ Binders \cap Readers = {}
  BY ThreadsAssumption DEF Shape, TypeOK, Threads
<1>1. CASE pc[r] = "hw" /\ arg'[r] = arg[r]
  <2>1. PICK a \in Arrays : a = arg[r]
    BY <1>1, <1>t
  <2>2. \A j \in Slots(a) : children[a][j] \in HwFences
    BY <1>1, <2>1 DEF HwDecision
  <2>3. Filled(a)
    BY <1>1, <2>1, <2>2, FencesAssumption DEF Filled
  <2> QED
    BY <1>1, <2>1, <2>2, <2>3, ChildrenFinal
<1>2. CASE LookAtChildren(r)
  <2>1. arg' = arg /\ children' = children /\ AllHw(arg[r])
    BY <1>2, <1>t DEF LookAtChildren, Goto, fence
  <2> QED
    BY <2>1 DEF AllHw
<1>3. ASSUME ~(pc[r] = "hw" /\ arg'[r] = arg[r]), ~LookAtChildren(r)
      PROVE  FALSE
  <2>1. CASE \E b \in Binders : BindStep(b) \/ \E a \in Arrays :
                                 spec_sync_create_array(b, a) \/ BindBegin(b, a)
    <3>1. PICK b \in Binders : BindStep(b) \/ \E a \in Arrays :
                                 spec_sync_create_array(b, a) \/ BindBegin(b, a)
      BY <2>1
    <3>2. \E l : pc' = [pc EXCEPT ![b] = l] \/ pc' = pc
      BY <3>1
         DEF BindStep, TrackArray, BindCheck, BindFill, BindEnable, BindClear,
             BindBound, BindError, BindSignal, spec_sync_create_array, BindBegin,
             Return, Start, Goto
    <3>3. \E x : arg' = [arg EXCEPT ![b] = x] \/ arg' = arg
      BY <3>1
         DEF BindStep, TrackArray, BindCheck, BindFill, BindEnable, BindClear,
             BindBound, BindError, BindSignal, spec_sync_create_array, BindBegin,
             Return, Start, Goto
    <3> QED
      BY <1>3, <1>t, <3>2, <3>3
  <2>2. CASE \E q \in Readers : FrameStep(q) \/ \E a \in Arrays : FrameBegin(q, a)
    <3>1. PICK q \in Readers : FrameStep(q) \/ \E a \in Arrays : FrameBegin(q, a)
      BY <2>2
    <3>2. CASE q # r
      <4>1. pc'[r] = pc[r] /\ arg'[r] = arg[r]
        BY <3>1, <3>2, <1>t
           DEF FrameStep, Bound, BindTimeout, LookAtChildren, FrameEnd, SwWait, SwWoken,
               SwTimeout, FrameBegin, Return, Start, Goto
      <4> QED
        BY <1>3, <4>1
    <3>3. CASE q = r
      BY <1>3, <3>1, <3>3, <1>t
         DEF FrameStep, Bound, BindTimeout, LookAtChildren, FrameEnd, SwWait, SwWoken,
             SwTimeout, FrameBegin, Return, Start, Goto
    <3> QED
      BY <3>2, <3>3
  <2>3. CASE UNCHANGED <<pc, arg>>
    BY <1>3, <2>3
  <2> QED
    BY <2>1, <2>2, <2>3 DEF Next, vars, spec_sync_open, spec_sync_release, SignalFence, IrqWork,
                            CloseSyncFile
<1> QED
  BY <1>1, <1>2, <1>3

\* With binds of one array that do not overlap, a frame that leaves its wait
\* to the hardware waits for an array of hw-fences as long as it is in flight.
THEOREM SpecFenceHwDecision ==
  ASSUME OneBindAtATime
  PROVE  Spec => []HwDecision
<1> DEFINE I == Shape /\ BindOrder /\ HwDecision
<1>1. Init => I
  BY ShapeInit, BindOrderInit DEF Init, HwDecision, Threads
<1>2. I /\ [Next]_vars => I'
  BY ShapeStep, BindOrderStep, HwDecisionStep
<1>3. I => HwDecision
  OBVIOUS
<1> QED
  <2> HIDE DEF I
  <2> QED
    BY <1>1, <1>2, <1>3, PTL DEF Spec

-----------------------------------------------------------------------------
(* An array is signaled for its children. *)

\* The slots whose fence is signaled, and how many an array waits for.
Sig(a) == {i \in Slots(a) : children[a][i] \in signaled}
Need(a) == IF a \in SignalAll THEN NumFences[a] ELSE 1

\* What is pending of an array and what is signaled of its children make up
\* what it waits for, unless it was given up at the last close; a callback
\* is registered at a child that is not signaled, once the children are in
\* place and signaling is enabled; the irq work has nothing pending.
Account(a) ==
  /\ ~Filled(a) => callbacks[a] = {}
  /\ a \notin forced => pending[a] + Cardinality(Sig(a)) >= Need(a)
  /\ callbacks[a] \cap Sig(a) = {}
  /\ a \notin enabled => callbacks[a] = {}
  /\ a \notin enabled \cup forced => pending[a] >= Need(a)
  /\ a \in irqWork => pending[a] <= 0
  /\ a \in signaled => a \in error \cup forced \/ Complete(a)

Accounts == \A a \in Arrays : Account(a)

\* A failed bind signals its array after its error.
ErrorFirst == \A b \in Binders : pc[b] = "signal" => arg[b] \in error

\* The numbers of an account.
LEMMA NeedType ==
  ASSUME NEW a \in Arrays
  PROVE  /\ Need(a) \in Nat \ {0} /\ Cardinality(Sig(a)) \in Nat
         /\ Complete(a) <=> Cardinality(Sig(a)) >= Need(a)
<1>1. Cardinality(Sig(a)) \in Nat
  BY SlotsFinite DEF Sig
<1>2. Need(a) \in Nat \ {0}
  BY FencesAssumption DEF Need
<1> QED
  BY <1>1, <1>2 DEF Complete, Need, Sig

\* The dummy is never signaled: an array that holds only the dummy has no
\* signaled child.
LEMMA NothingSignaled ==
  ASSUME Shape, NEW a \in Arrays, ~Filled(a)
  PROVE  Sig(a) = {} /\ Cardinality(Sig(a)) = 0
<1>1. Dummy \notin signaled
  BY FencesAssumption DEF Shape, TypeOK
<1>2. Sig(a) = {}
  BY <1>1 DEF Sig, Filled
<1> QED
  BY <1>2, FS_EmptySet

\* At the start all that is needed is pending.
LEMMA AccountsInit == Init => Accounts
<1> SUFFICES ASSUME Init, NEW a \in Arrays PROVE Account(a)
  BY DEF Accounts
<1>1. pending[a] = Need(a) /\ callbacks[a] = {} /\ irqWork = {} /\ signaled = {}
  BY DEF Init, Need
<1>2. Cardinality(Sig(a)) \in Nat /\ Need(a) \in Nat
  BY NeedType
<1> QED
  BY <1>1, <1>2 DEF Account

\* A step that signals no fence and leaves an array's children, callbacks and
\* count alone keeps its account, if it signals the array with a reason.
LEMMA AccountKept ==
  ASSUME Shape, NEW a \in Arrays, Account(a),
         children'[a] = children[a], callbacks'[a] = callbacks[a], pending'[a] = pending[a],
         \A f \in UserFences \cup {Dummy} : f \in signaled' <=> f \in signaled,
         a \in enabled => a \in enabled',
         a \in irqWork' => a \in irqWork,
         error \subseteq error', forced \subseteq forced',
         a \in signaled' => a \in signaled \cup error' \cup forced' \/ pending[a] <= 0
  PROVE  Account(a)'
<1>1. \A i \in Slots(a) : children[a][i] \in UserFences \cup {Dummy}
  BY DEF Shape, TypeOK
<1>2. Sig(a)' = Sig(a)
  BY <1>1 DEF Sig
<1>3. Filled(a)' <=> Filled(a)
  BY DEF Filled
<1>4. Need(a)' = Need(a)
  BY DEF Need
<1>5. Complete(a)' <=> Complete(a)
  BY <1>2 DEF Complete, Sig
<1>6. /\ Need(a) \in Nat /\ Cardinality(Sig(a)) \in Nat /\ pending[a] \in Int
      /\ Complete(a) <=> Cardinality(Sig(a)) >= Need(a)
  BY NeedType DEF Shape, TypeOK
<1>7. pending[a] <= 0 => a \in forced \/ Complete(a)
  BY <1>6 DEF Account
<1>8. a \in signaled' => a \in error' \cup forced' \/ Complete(a)'
  BY <1>5, <1>7 DEF Account
<1> QED
  BY <1>2, <1>3, <1>4, <1>8 DEF Account

\* dma_fence_array_enable_signaling counts each signaled child once.
LEMMA AccountEnable ==
  ASSUME Shape, BindOrder, Accounts, NEW a \in made, EnableSignaling(a),
         UNCHANGED <<children, irqWork, error, forced>>
  PROVE  Accounts'
<1> SUFFICES ASSUME NEW x \in Arrays PROVE Account(x)'
  BY DEF Accounts
<1>1. /\ a \in Arrays /\ pending \in [Arrays -> Int] /\ DOMAIN callbacks = Arrays
      /\ \A f \in UserFences \cup {Dummy} : f # a
      /\ Account(x)
  BY FencesAssumption DEF Shape, TypeOK, Accounts
<1>2. signaled' \in {signaled, signaled \cup {a}} /\ enabled' = enabled \cup {a}
  BY DEF EnableSignaling
<1>3. CASE a \in enabled \cup signaled
  <2>1. UNCHANGED <<pending, callbacks, signaled>>
    BY <1>3 DEF EnableSignaling
  <2> QED
    BY <1>1, <1>2, <2>1, AccountKept
<1>4. CASE a \notin enabled \cup signaled
  <2>1. PICK seen \in SUBSET Slots(a) :
          /\ pending' = [pending EXCEPT ![a] =
                           @ - Cardinality({i \in seen : children[a][i] \in signaled})]
          /\ callbacks' = [callbacks EXCEPT ![a] =
                             @ \cup {i \in seen : children[a][i] \notin signaled}]
    BY <1>4 DEF EnableSignaling
  <2>2. CASE x # a
    <3>1. callbacks'[x] = callbacks[x] /\ pending'[x] = pending[x]
      BY <1>1, <2>1, <2>2
    <3> QED
      BY <1>1, <1>2, <2>2, <3>1, AccountKept
  <2>3. CASE x = a
    <3>1. Filled(a)' /\ Filled(a)
      BY <1>4 DEF BindOrder, Filled
    <3>2. PICK k \in Nat : k = Cardinality({i \in seen : children[a][i] \in signaled})
      BY <1>1, SlotsFinite
    <3>3. PICK n \in Nat : n = Cardinality(Sig(a))
      BY <1>1, NeedType
    <3>4. k <= n
      <4>1. {i \in seen : children[a][i] \in signaled} \in SUBSET Sig(a)
        BY DEF Sig
      <4>2. IsFiniteSet(Sig(a))
        BY <1>1, SlotsFinite DEF Sig
      <4> QED
        BY <3>2, <3>3, <4>1, <4>2, FS_Subset
    <3>5. Sig(a)' = Sig(a)
      <4>1. \A i \in Slots(a) : children[a][i] \in UserFences \cup {Dummy}
        BY <1>1 DEF Shape, TypeOK
      <4> QED
        BY <4>1, <1>1, <1>2 DEF Sig
    <3>6. pending'[a] = pending[a] - k /\ pending[a] \in Int
      BY <1>1, <2>1, <3>2
    <3>7. callbacks'[a] \cap Sig(a) = {}
      <4>1. callbacks'[a] = {i \in seen : children[a][i] \notin signaled}
        BY <1>1, <1>4, <2>1, <2>3 DEF Account
      <4> QED
        BY <4>1 DEF Sig
    <3>8. Need(a) \in Nat \ {0} /\ Need(a)' = Need(a)
      BY <1>1, NeedType DEF Need
    <3>9. a \notin forced => pending[a] >= Need(a)
      BY <1>1, <1>4, <2>3 DEF Account
    <3>10. a \in signaled' => n >= pending[a]
      <4>1. SUFFICES ASSUME a \in signaled' PROVE n >= pending[a]
        OBVIOUS
      <4>2. PICK i \in Slots(a) :
              Cardinality({j \in Slots(a) : j <= i /\ children[a][j] \in signaled}) = pending[a]
        BY <1>4, <4>1 DEF EnableSignaling
      <4>3. {j \in Slots(a) : j <= i /\ children[a][j] \in signaled} \in SUBSET Sig(a)
        BY DEF Sig
      <4>4. IsFiniteSet(Sig(a))
        BY <1>1, SlotsFinite DEF Sig
      <4> QED
        BY <3>3, <4>2, <4>3, <4>4, FS_Subset, SMT
    <3>11. a \in signaled' => a \in forced \/ Complete(a)'
      <4>1. a \in signaled' => a \in forced \/ n >= Need(a)
        BY <3>3, <3>6, <3>8, <3>9, <3>10
      <4>2. Complete(a)' <=> n >= Need(a)
        BY <3>3, <3>5 DEF Complete, Sig, Need
      <4> QED
        BY <4>1, <4>2
    <3>12. a \notin forced' => pending'[a] + Cardinality(Sig(a))' >= Need(a)'
      BY <3>3, <3>4, <3>5, <3>6, <3>8, <3>9
    <3>13. a \in irqWork' => pending'[a] <= 0
      BY <1>1, <2>3, <3>6 DEF Account
    <3> QED
      BY <1>2, <2>3, <3>1, <3>5, <3>7, <3>11, <3>12, <3>13 DEF Account
  <2> QED
    BY <2>2, <2>3
<1> QED
  BY <1>3, <1>4

\* spec_sync_bind_array puts children into an array that had none.
LEMMA AccountFill ==
  ASSUME Shape, BindOrder, Accounts, NEW b \in Binders,
         NEW fds \in [Slots(arg[b]) -> UserFences \cup {BadFd}], BindFill(b, fds)
  PROVE  Accounts'
<1> SUFFICES ASSUME NEW x \in Arrays PROVE Account(x)'
  BY DEF Accounts
<1>1. PICK a \in Arrays : a = arg[b]
  BY DEF BindFill, Shape, TypeOK, Threads
<1>2. ~Filled(a) /\ Account(x)
  BY <1>1 DEF BindOrder, BindFill, Accounts
<1>3. UNCHANGED <<pending, signaled, error, callbacks, irqWork, forced>>
  BY DEF BindFill
<1>4. CASE x # a
  <2>1. children'[x] = children[x]
    BY <1>1, <1>4 DEF BindFill
  <2>2. x \in enabled => x \in enabled'
    BY <1>1, <1>4 DEF BindFill, EnableBitCleared
  <2> QED
    BY <1>2, <1>3, <2>1, <2>2, AccountKept
<1>5. CASE x = a
  <2>1. Cardinality(Sig(a)) = 0 /\ callbacks[a] = {}
    BY <1>2, <1>5, NothingSignaled DEF Account
  <2>2. Need(a) \in Nat \ {0} /\ Need(a)' = Need(a) /\ pending[a] \in Int
    BY NeedType DEF Need, Shape, TypeOK
  <2>3. a \notin forced => pending[a] >= Need(a)
    BY <1>2, <1>5, <2>1, <2>2 DEF Account
  <2>4. Cardinality(Sig(a)') \in Nat
    <3>1. Sig(a)' \in SUBSET Slots(a)
      BY DEF Sig
    <3> QED
      BY <3>1, SlotsFinite
  <2>5. a \in signaled => a \in error \cup forced
    <3>1. ~Complete(a)
      BY <2>1, <2>2, NeedType
    <3> QED
      BY <1>2, <1>5, <3>1 DEF Account
  <2>6. a \notin forced' => pending'[a] + Cardinality(Sig(a))' >= Need(a)'
    BY <1>3, <2>2, <2>3, <2>4
  <2>7. a \in irqWork' => pending'[a] <= 0
    BY <1>2, <1>3, <1>5 DEF Account
  <2> QED
    BY <1>3, <1>5, <2>1, <2>2, <2>3, <2>5, <2>6, <2>7 DEF Account
<1> QED
  BY <1>4, <1>5

\* A fence that signals is counted by the arrays that wait for it.
LEMMA AccountSignal ==
  ASSUME Shape, Accounts, NEW u \in UserFences, SignalFence(u)
  PROVE  Accounts'
<1> SUFFICES ASSUME NEW a \in Arrays PROVE Account(a)'
  BY DEF Accounts
<1>1. PICK called \in SUBSET callbacks[a] : called = {i \in callbacks[a] : children[a][i] = u}
  OBVIOUS
<1>2. PICK fresh \in SUBSET Slots(a) : fresh = {i \in Slots(a) : children[a][i] = u}
  OBVIOUS
<1>3. /\ u \notin signaled /\ signaled' = signaled \cup {u}
      /\ UNCHANGED <<children, enabled, error, forced>>
  BY DEF SignalFence
<1>4. /\ Account(a) /\ callbacks[a] \subseteq Slots(a) /\ pending[a] \in Int
      /\ u # a
  BY FencesAssumption DEF Shape, TypeOK, Accounts
<1>5. PICK k \in Nat : k = Cardinality(called)
  BY <1>1, <1>4, SlotsFinite
<1>6. PICK n \in Nat : n = Cardinality(Sig(a))
  BY NeedType
<1>7. PICK m \in Nat : m = Cardinality(fresh)
  BY SlotsFinite
<1>8. k <= m
  <2>1. called \in SUBSET fresh /\ IsFiniteSet(fresh)
    BY <1>1, <1>2, <1>4, SlotsFinite
  <2> QED
    BY <1>5, <1>7, <2>1, FS_Subset
<1>9. Sig(a)' = Sig(a) \cup fresh /\ Sig(a) \cap fresh = {}
  BY <1>2, <1>3 DEF Sig
<1>10. Cardinality(Sig(a)') = n + m
  <2>1. IsFiniteSet(Sig(a)) /\ IsFiniteSet(fresh)
    BY SlotsFinite DEF Sig
  <2> QED
    BY <1>6, <1>7, <1>9, <2>1, DisjointSum
<1>11. pending'[a] = pending[a] - k
  BY <1>1, <1>5 DEF SignalFence
<1>12. callbacks'[a] = callbacks[a] \ called
  BY <1>1 DEF SignalFence
<1>13. a \in irqWork' => a \in irqWork \/ pending'[a] <= 0
  BY <1>1, <1>5, <1>11 DEF SignalFence
<1>14. Need(a) \in Nat /\ Need(a)' = Need(a)
  BY NeedType DEF Need
<1>15. Filled(a)' <=> Filled(a)
  BY <1>3 DEF Filled
<1>16. callbacks[a] = {} => k = 0
  BY <1>1, <1>5, FS_EmptySet
<1>17. /\ Complete(a) <=> n >= Need(a)
       /\ Complete(a)' <=> n + m >= Need(a)
  BY <1>6, <1>10 DEF Complete, Sig, Need
<1>18. callbacks'[a] \cap Sig(a)' = {}
  BY <1>1, <1>2, <1>4, <1>9, <1>12 DEF Account
<1>19. a \in signaled' => a \in error' \cup forced' \/ Complete(a)'
  BY <1>3, <1>4, <1>14, <1>17 DEF Account
<1>20. a \notin forced' => pending'[a] + Cardinality(Sig(a))' >= Need(a)'
  BY <1>3, <1>4, <1>6, <1>8, <1>10, <1>11, <1>14 DEF Account
<1>21. a \notin enabled' \cup forced' => pending'[a] >= Need(a)'
  BY <1>3, <1>4, <1>11, <1>14, <1>16 DEF Account
<1>22. a \in irqWork' => pending'[a] <= 0
  BY <1>4, <1>11, <1>13 DEF Account
<1> QED
  BY <1>3, <1>4, <1>12, <1>15, <1>18, <1>19, <1>20, <1>21, <1>22 DEF Account

\* What a step that is no signal, no filling and no enabling may do to the
\* signaled arrays and to what is counted.
Quiet ==
  /\ UNCHANGED <<children, callbacks, pending>>
  /\ \A f \in UserFences \cup {Dummy} : f \in signaled' <=> f \in signaled
  /\ enabled \subseteq enabled' /\ irqWork' \subseteq irqWork
  /\ error \subseteq error' /\ forced \subseteq forced'
  /\ \A a \in Arrays \cap signaled' :
       a \in signaled \cup error' \cup forced' \/ pending[a] <= 0

\* Such a step keeps the accounts.
LEMMA AccountsQuiet ==
  ASSUME Shape, Accounts, Quiet
  PROVE  Accounts'
<1> SUFFICES ASSUME NEW a \in Arrays PROVE Account(a)'
  BY DEF Accounts
<1> QED
  BY AccountKept DEF Accounts, Quiet

\* dma_fence_is_signaled signals arrays only, and only those with nothing
\* pending.
LEMMA ExpiredQuiet ==
  ASSUME NEW S \in SUBSET Arrays, SignalExpired(S)
  PROVE  /\ \A f \in UserFences \cup {Dummy} : f \in signaled' <=> f \in signaled
         /\ \A a \in Arrays \cap signaled' : a \in signaled \/ pending[a] <= 0
BY FencesAssumption DEF SignalExpired, Expired

\* Every step keeps the accounts.
LEMMA AccountsStep ==
  Shape /\ BindOrder /\ ErrorFirst /\ Accounts /\ [Next]_vars => Accounts'
<1> SUFFICES ASSUME Shape, BindOrder, ErrorFirst, Accounts, [Next]_vars PROVE Accounts'
  OBVIOUS
<1>t. /\ \A t \in Threads : pc[t] # "idle" => arg[t] \in made
      /\ Binders \subseteq Threads /\ Readers \subseteq Threads
      /\ made \subseteq Arrays /\ tracker \subseteq made /\ files \subseteq made
      /\ Arrays \cap (UserFences \cup {Dummy}) = {}
  BY FencesAssumption DEF Shape, TypeOK, Threads
<1>1. CASE UNCHANGED vars \/ spec_sync_open \/ \E a \in Arrays : CloseSyncFile(a)
  <2>1. Quiet
    BY <1>1 DEF Quiet, vars, fence, spec_sync_open, CloseSyncFile
  <2> QED
    BY <2>1, AccountsQuiet
<1>2. CASE spec_sync_release
  <2> SUFFICES ASSUME NEW a \in Arrays PROVE Account(a)'
    BY DEF Accounts
  <2>1. UNCHANGED <<children, enabled, error, callbacks, irqWork>>
    BY <1>2 DEF spec_sync_release
  <2>2. forced \subseteq forced'
    BY <1>2 DEF spec_sync_release
  <2>3. \A f \in UserFences \cup {Dummy} : f \in signaled' <=> f \in signaled
    BY <1>2, <1>t DEF spec_sync_release, ClearedByClose
  <2>4. Account(a) /\ pending[a] \in Int
    BY DEF Shape, TypeOK, Accounts
  <2>5. CASE opened = 1 /\ a \in tracker
    <3>1. a \in forced'
      BY <1>2, <2>5 DEF spec_sync_release
    <3>2. pending'[a] <= pending[a]
      BY <1>2, <2>4 DEF spec_sync_release
    <3>3. Sig(a)' = Sig(a)
      <4>1. \A i \in Slots(a) : children[a][i] \in UserFences \cup {Dummy}
        BY DEF Shape, TypeOK
      <4> QED
        BY <2>1, <2>3, <4>1 DEF Sig
    <3>4. Filled(a)' <=> Filled(a)
      BY <2>1 DEF Filled
    <3>5. pending'[a] \in Int
      BY <1>2, <2>4 DEF spec_sync_release
    <3>6. a \in irqWork' => pending'[a] <= 0
      BY <2>1, <2>4, <3>2, <3>5 DEF Account
    <3> QED
      BY <2>1, <2>4, <3>1, <3>3, <3>4, <3>6 DEF Account
  <2>6. CASE ~(opened = 1 /\ a \in tracker)
    <3>1. pending'[a] = pending[a] /\ (a \in signaled' => a \in signaled)
      BY <1>2, <2>6 DEF spec_sync_release, ClearedByClose
    <3> QED
      BY <2>1, <2>2, <2>3, <2>4, <3>1, AccountKept
  <2> QED
    BY <2>5, <2>6
<1>3. ASSUME NEW b \in Binders, NEW a \in Arrays,
             spec_sync_create_array(b, a) \/ BindBegin(b, a)
      PROVE  Accounts'
  <2>1. CASE spec_sync_create_array(b, a)
    BY <2>1, AccountsQuiet DEF Quiet, spec_sync_create_array
  <2>2. CASE BindBegin(b, a)
    BY <2>2, AccountsQuiet, ExpiredQuiet DEF Quiet, BindBegin
  <2> QED
    BY <1>3, <2>1, <2>2
<1>4. ASSUME NEW b \in Binders,
             TrackArray(b) \/ BindCheck(b) \/ BindBound(b) \/ BindError(b)
      PROVE  Accounts'
  <2>1. Quiet
    BY <1>4 DEF Quiet, TrackArray, BindCheck, BindBound, BindError, fence
  <2> QED
    BY <2>1, AccountsQuiet
<1>5. ASSUME NEW b \in Binders, BindClear(b)
      PROVE  Accounts'
  BY <1>5, <1>t, AccountsQuiet, ExpiredQuiet DEF Quiet, BindClear
<1>6. ASSUME NEW b \in Binders, BindSignal(b)
      PROVE  Accounts'
  <2>1. arg[b] \in Arrays /\ arg[b] \in error
    BY <1>6, <1>t DEF BindSignal, ErrorFirst
  <2>2. Quiet
    BY <1>6, <1>t, <2>1 DEF Quiet, BindSignal
  <2> QED
    BY <2>2, AccountsQuiet
<1>7. ASSUME NEW b \in Binders, BindEnable(b)
      PROVE  Accounts'
  BY <1>7, <1>t, AccountEnable DEF BindEnable
<1>8. ASSUME NEW b \in Binders, NEW fds \in [Slots(arg[b]) -> UserFences \cup {BadFd}],
             BindFill(b, fds)
      PROVE  Accounts'
  BY <1>8, AccountFill
<1>9. ASSUME NEW r \in Readers, NEW a \in Arrays, FrameBegin(r, a)
      PROVE  Accounts'
  BY <1>9, AccountsQuiet DEF Quiet, FrameBegin, fence
<1>10. ASSUME NEW r \in Readers,
              \/ Bound(r) \/ BindTimeout(r) \/ LookAtChildren(r) \/ FrameEnd(r)
              \/ SwWoken(r) \/ SwTimeout(r)
       PROVE  Accounts'
  <2>1. Quiet
    BY <1>10 DEF Quiet, Bound, BindTimeout, LookAtChildren, FrameEnd, SwWoken, SwTimeout,
                 fence
  <2> QED
    BY <2>1, AccountsQuiet
<1>11. ASSUME NEW r \in Readers, SwWait(r)
       PROVE  Accounts'
  <2>1. arg[r] \in made /\ arg[r] \in Arrays
    BY <1>11, <1>t DEF SwWait
  <2>2. CASE Expired(arg[r])
    BY <1>11, <2>1, <2>2, AccountsQuiet, ExpiredQuiet DEF Quiet, SwWait
  <2>3. CASE ~Expired(arg[r])
    BY <1>11, <2>1, <2>3, AccountEnable DEF SwWait
  <2> QED
    BY <2>2, <2>3
<1>12. ASSUME NEW u \in UserFences, SignalFence(u)
       PROVE  Accounts'
  BY <1>12, AccountSignal
<1>13. ASSUME NEW a \in Arrays, IrqWork(a)
       PROVE  Accounts'
  <2>1. pending[a] <= 0
    BY <1>13 DEF IrqWork, Accounts, Account
  <2>2. Quiet
    BY <1>13, <1>t, <2>1 DEF Quiet, IrqWork
  <2> QED
    BY <2>2, AccountsQuiet
<1> QED
  BY <1>1, <1>2, <1>3, <1>4, <1>5, <1>6, <1>7, <1>8, <1>9, <1>10, <1>11, <1>12, <1>13
     DEF Next, BindStep, FrameStep

\* Every step keeps the order of error and signal.
LEMMA ErrorFirstStep == Shape /\ ErrorFirst /\ [Next]_vars => ErrorFirst'
<1> SUFFICES ASSUME Shape, ErrorFirst, [Next]_vars PROVE ErrorFirst'
  OBVIOUS
<1>t. /\ pc \in [Threads -> Labels] /\ arg \in [Threads -> made \cup {None}]
      /\ Binders \subseteq Threads /\ Readers \subseteq Threads /\ Binders \cap Readers = {}
  BY ThreadsAssumption DEF Shape, TypeOK, Threads
<1>1. CASE \/ UNCHANGED vars \/ spec_sync_open \/ spec_sync_release
           \/ \E u \in UserFences : SignalFence(u)
           \/ \E a \in Arrays : IrqWork(a) \/ CloseSyncFile(a)
  <2>1. UNCHANGED <<pc, arg, error>>
    BY <1>1 DEF vars, fence, spec_sync_open, spec_sync_release, SignalFence, IrqWork,
                CloseSyncFile
  <2> QED
    BY <2>1 DEF ErrorFirst
<1>2. ASSUME NEW b \in Binders, NEW a \in Arrays,
             spec_sync_create_array(b, a) \/ BindBegin(b, a)
      PROVE  ErrorFirst'
  BY <1>2, <1>t DEF spec_sync_create_array, BindBegin, Start, Goto, ErrorFirst
<1>3. ASSUME NEW b \in Binders, TrackArray(b) \/ BindCheck(b) \/ BindClear(b) \/ BindBound(b)
      PROVE  ErrorFirst'
  BY <1>3, <1>t DEF TrackArray, BindCheck, BindClear, BindBound, Return, Start, Goto,
                    ErrorFirst, fence
<1>4. ASSUME NEW b \in Binders, BindEnable(b) \/ BindSignal(b) \/ BindError(b)
      PROVE  ErrorFirst'
  BY <1>4, <1>t DEF BindEnable, BindSignal, BindError, Goto, ErrorFirst
<1>5. ASSUME NEW b \in Binders, NEW fds \in [Slots(arg[b]) -> UserFences \cup {BadFd}],
             BindFill(b, fds)
      PROVE  ErrorFirst'
  <2>1. PICK l \in {"enable", "error"} : pc' = [pc EXCEPT ![b] = l]
    BY <1>5 DEF BindFill, Goto
  <2>2. UNCHANGED <<arg, error>>
    BY <1>5 DEF BindFill
  <2> QED
    BY <1>t, <2>1, <2>2 DEF ErrorFirst
<1>6. ASSUME NEW r \in Readers, FrameStep(r) \/ \E a \in Arrays : FrameBegin(r, a)
      PROVE  ErrorFirst'
  <2>1. error' = error /\ \A c \in Binders : pc'[c] = pc[c] /\ arg'[c] = arg[c]
    BY <1>6, <1>t DEF FrameStep, Bound, BindTimeout, LookAtChildren, FrameEnd, SwWait,
                SwWoken, SwTimeout, FrameBegin, Return, Start, Goto, fence
  <2> QED
    BY <2>1 DEF ErrorFirst
<1> QED
  BY <1>1, <1>2, <1>3, <1>4, <1>5, <1>6 DEF Next, BindStep

\* With binds of one array that do not overlap, an array is signaled for its
\* children, for its error or at the last close: no child is counted twice.
THEOREM SpecFenceSignalEarned ==
  ASSUME OneBindAtATime
  PROVE  Spec => []SignalEarned
<1> DEFINE I == Shape /\ BindOrder /\ ErrorFirst /\ Accounts
<1>1. Init => I
  BY ShapeInit, BindOrderInit, AccountsInit DEF Init, ErrorFirst, Threads
<1>2. I /\ [Next]_vars => I'
  BY ShapeStep, BindOrderStep, ErrorFirstStep, AccountsStep
<1>3. I => SignalEarned
  BY DEF Accounts, Account, SignalEarned
<1> QED
  <2> HIDE DEF I
  <2> QED
    BY <1>1, <1>2, <1>3, PTL DEF Spec

-----------------------------------------------------------------------------
(* The references of the fences. *)

\* The arrays that are not released yet.
Live == {a \in made : Referenced(a)}

\* The references in h are those of the children g of the arrays in L.
Exact(h, g, L) ==
  \A f \in UserFences \cup {Dummy} :
    h[f] = Cardinality(PlacesOf(g, f, L)) + (IF f = Dummy THEN 1 ELSE 0)

\* What RefsExact says, now and after a step.
LEMMA ExactMeans ==
  /\ RefsExact <=> Exact(held, children, Live)
  /\ RefsExact' <=> Exact(held', children', Live')
BY DEF RefsExact, Exact, Live, Uses, PlacesOf, Places

\* Only an array that was created is referenced.
LEMMA ReferencedMade ==
  ASSUME Shape, NEW a \in Arrays, Referenced(a)
  PROVE  a \in made
BY FencesAssumption DEF Shape, TypeOK, Referenced

\* dma_fence_put is exact as long as nobody takes up an array that was
\* released.
LEMMA ExactPut ==
  ASSUME Shape, RefsExact, PutArrays, UNCHANGED <<children, made>>,
         \A a \in Arrays : Referenced(a)' => Referenced(a)
  PROVE  RefsExact'
<1>1. PICK released \in SUBSET Arrays : released = {a \in Arrays : Referenced(a) /\ ~Referenced(a)'}
  OBVIOUS
<1>2. held' = IF released = {} THEN held
              ELSE [f \in DOMAIN held |-> held[f] - Uses(f, released)]
  BY <1>1 DEF PutArrays
<1>3. made \subseteq Arrays /\ held \in [UserFences \cup {Dummy} -> Int]
  BY DEF Shape, TypeOK
<1>4. /\ Live \in SUBSET Arrays /\ Live' \in SUBSET Arrays
      /\ Live = Live' \cup released /\ Live' \cap released = {}
  BY <1>1, <1>3, ReferencedMade DEF Live
<1>5. Exact(held, children, Live)
  BY ExactMeans
<1>6. CASE released = {}
  BY <1>2, <1>4, <1>5, <1>6, ExactMeans
<1>7. CASE released # {}
  <2>1. ASSUME NEW f \in UserFences \cup {Dummy}
        PROVE  held'[f] = Cardinality(PlacesOf(children, f, Live')) + (IF f = Dummy THEN 1 ELSE 0)
    <3>1. held'[f] = held[f] - Cardinality(PlacesOf(children, f, released))
      BY <1>2, <1>3, <1>7, UsesPlaces
    <3>2. held[f] = Cardinality(PlacesOf(children, f, Live)) + (IF f = Dummy THEN 1 ELSE 0)
      BY <1>5 DEF Exact
    <3>3. Cardinality(PlacesOf(children, f, Live))
            = Cardinality(PlacesOf(children, f, Live')) + Cardinality(PlacesOf(children, f, released))
      BY <1>4, PlacesAdd
    <3>4. /\ Cardinality(PlacesOf(children, f, Live')) \in Nat
          /\ Cardinality(PlacesOf(children, f, released)) \in Nat
      BY <1>4, PlacesFinite
    <3> QED
      BY <3>1, <3>2, <3>3, <3>4
  <2> QED
    BY <2>1, ExactMeans DEF Exact
<1> QED
  BY <1>6, <1>7

\* A step that puts nothing and takes up only what is referenced.
LEMMA ExactKept ==
  ASSUME Shape, RefsExact, UNCHANGED <<held, children, made>>,
         \A a \in Arrays : Referenced(a)' <=> Referenced(a)
  PROVE  RefsExact'
<1>1. Live' = Live
  BY DEF Live, Shape, TypeOK
<1> QED
  BY <1>1, ExactMeans

\* spec_sync_create_array takes one reference of the dummy for each child.
LEMMA ExactCreate ==
  ASSUME Shape, BindOrder, RefsExact, NEW b \in Binders, NEW a \in Arrays,
         spec_sync_create_array(b, a)
  PROVE  RefsExact'
<1>1. /\ a \notin made /\ made' = made \cup {a} /\ files' = files \cup {a}
      /\ held' = [held EXCEPT ![Dummy] = @ + NumFences[a]]
      /\ arg' = [arg EXCEPT ![b] = a] /\ pc[b] = "idle"
      /\ UNCHANGED <<tracker, irqWork, callbacks, children>>
  BY DEF spec_sync_create_array, Start
<1>2. /\ made \subseteq Arrays /\ held \in [UserFences \cup {Dummy} -> Int]
      /\ arg \in [Threads -> made \cup {None}] /\ arg[b] = None /\ b \in Threads
      /\ None \notin Arrays /\ NumFences[a] \in Nat
  BY <1>1, FencesAssumption DEF Shape, TypeOK, Threads
<1>3. \A x \in Arrays \ {a} : Referenced(x)' <=> Referenced(x)
  BY <1>1, <1>2 DEF Referenced
<1>4. Referenced(a)'
  BY <1>1 DEF Referenced
<1>5. Live' = Live \cup {a} /\ a \notin Live /\ Live \in SUBSET Arrays
  BY <1>1, <1>2, <1>3, <1>4 DEF Live
<1>6. ~Filled(a)
  BY <1>1 DEF BindOrder
<1>7. ASSUME NEW f \in UserFences \cup {Dummy}
      PROVE  held'[f] = Cardinality(PlacesOf(children, f, Live')) + (IF f = Dummy THEN 1 ELSE 0)
  <2>1. Cardinality(PlacesOf(children, f, {a})) = IF f = Dummy THEN NumFences[a] ELSE 0
    <3>1. {i \in Slots(a) : children[a][i] = f} = IF f = Dummy THEN Slots(a) ELSE {}
      BY <1>6 DEF Filled
    <3>2. Cardinality(Slots(a)) = NumFences[a] /\ Cardinality({}) = 0
      <4>1. Slots(a) \in SUBSET Slots(a)
        OBVIOUS
      <4> QED
        BY <4>1, SlotsFinite, FS_EmptySet
    <3>3. Cardinality(PlacesOf(children, f, {a})) = Cardinality({i \in Slots(a) : children[a][i] = f})
      BY PlacesOne
    <3> QED
      BY <3>1, <3>2, <3>3
  <2>2. Cardinality(PlacesOf(children, f, Live'))
          = Cardinality(PlacesOf(children, f, Live)) + Cardinality(PlacesOf(children, f, {a}))
    BY <1>5, PlacesAdd
  <2>3. held[f] = Cardinality(PlacesOf(children, f, Live)) + (IF f = Dummy THEN 1 ELSE 0)
    BY ExactMeans DEF Exact
  <2>4. Cardinality(PlacesOf(children, f, Live)) \in Nat
    BY <1>5, PlacesFinite
  <2>5. held'[f] = held[f] + (IF f = Dummy THEN NumFences[a] ELSE 0)
    BY <1>1, <1>2
  <2> QED
    BY <1>2, <2>1, <2>2, <2>3, <2>4, <2>5
<1> QED
  BY <1>1, <1>7, ExactMeans DEF Exact

\* spec_sync_bind_array moves references from the dummy to the fences.
LEMMA ExactFill ==
  ASSUME Shape, BindOrder, RefsExact, NEW b \in Binders,
         NEW fds \in [Slots(arg[b]) -> UserFences \cup {BadFd}], BindFill(b, fds)
  PROVE  RefsExact'
<1>1. PICK a \in Arrays : a = arg[b] /\ a \in made
  BY DEF BindFill, Shape, TypeOK, Threads
<1>2. PICK P \in SUBSET Slots(a) : P = Prefix(a, fds)
  BY DEF Prefix
<1>3. /\ children' = [children EXCEPT ![a] =
                        [i \in Slots(a) |-> IF i \in P THEN fds[i] ELSE @[i]]]
      /\ held' = HeldByBind(a, fds)
      /\ UNCHANGED <<made, files, tracker, irqWork, callbacks, arg>>
      /\ ~Filled(a)
  BY <1>1, <1>2 DEF BindFill, BindOrder
<1>4. /\ made \subseteq Arrays /\ held \in [UserFences \cup {Dummy} -> Int]
      /\ DOMAIN children = Arrays /\ b \in Threads
      /\ NumFences[a] \in Nat /\ Dummy \notin UserFences
  BY FencesAssumption DEF Shape, TypeOK, Threads
<1>5. Live' = Live /\ Live \in SUBSET Arrays
  BY <1>3, <1>4 DEF Live, Referenced
<1>6. a \in Live
  BY <1>1, <1>4 DEF Live, Referenced
<1>7. PICK L \in SUBSET Arrays : L = Live \ {a}
  BY <1>5
<1>8. Live = L \cup {a} /\ L \cap {a} = {}
  BY <1>6, <1>7
<1>9. \A i \in P : fds[i] \in UserFences
  BY <1>1, <1>2 DEF Prefix, Slots
<1>10. ASSUME NEW f \in UserFences \cup {Dummy}
       PROVE  held'[f] = Cardinality(PlacesOf(children', f, Live)) + (IF f = Dummy THEN 1 ELSE 0)
  <2>1. PICK n \in Nat : n = Cardinality(PlacesOf(children, f, L))
    BY PlacesFinite
  <2>2. Cardinality(PlacesOf(children', f, L)) = n
    <3>1. PlacesOf(children', f, L) = PlacesOf(children, f, L)
      <4>1. \A x \in L : children'[x] = children[x]
        BY <1>3, <1>7
      <4> QED
        BY <4>1 DEF PlacesOf, Places
    <3> QED
      BY <2>1, <3>1
  <2>3. held[f] = Cardinality(PlacesOf(children, f, Live)) + (IF f = Dummy THEN 1 ELSE 0)
    BY ExactMeans DEF Exact
  <2>4. PICK k \in Nat : k = Cardinality({i \in P : fds[i] = f})
    BY SlotsFinite
  <2>5. PICK m \in Nat : m = Cardinality(P)
    BY SlotsFinite
  <2>6. held'[f] = held[f] + k - (IF f = Dummy THEN m ELSE 0)
    BY <1>2, <1>3, <1>4, <2>4, <2>5 DEF HeldByBind
  <2>7. /\ Cardinality(PlacesOf(children, f, Live)) = n + Cardinality(PlacesOf(children, f, {a}))
        /\ Cardinality(PlacesOf(children', f, Live)) = n + Cardinality(PlacesOf(children', f, {a}))
    BY <1>8, <2>1, <2>2, PlacesAdd
  <2>8. CASE f # Dummy
    <3>1. {i \in Slots(a) : children[a][i] = f} = {}
      BY <1>3, <2>8 DEF Filled
    <3>2. {i \in Slots(a) : children'[a][i] = f} = {i \in P : fds[i] = f}
      BY <1>3, <1>4, <2>8 DEF Filled
    <3>3. Cardinality(PlacesOf(children, f, {a})) = 0
      BY <3>1, PlacesOne, FS_EmptySet
    <3>4. Cardinality(PlacesOf(children', f, {a})) = k
      BY <2>4, <3>2, PlacesOne
    <3> QED
      BY <2>3, <2>6, <2>7, <2>8, <3>3, <3>4
  <2>9. CASE f = Dummy
    <3>1. {i \in Slots(a) : children[a][i] = f} = Slots(a)
      BY <1>3, <2>9 DEF Filled
    <3>2. {i \in Slots(a) : children'[a][i] = f} = Slots(a) \ P
      BY <1>3, <1>4, <1>9, <2>9 DEF Filled
    <3>3. {i \in P : fds[i] = f} = {}
      BY <1>4, <1>9, <2>9
    <3>4. k = 0
      BY <2>4, <3>3, FS_EmptySet
    <3>5. Cardinality(PlacesOf(children, f, {a})) = NumFences[a]
      <4>1. Cardinality(PlacesOf(children, f, {a})) = Cardinality(Slots(a))
        BY <3>1, PlacesOne
      <4>2. Slots(a) \in SUBSET Slots(a)
        OBVIOUS
      <4> QED
        BY <4>1, <4>2, SlotsFinite
    <3>6. Cardinality(PlacesOf(children', f, {a})) = Cardinality(Slots(a) \ P)
      BY <3>2, PlacesOne
    <3>7. Cardinality(Slots(a) \ P) + m = NumFences[a] /\ Cardinality(Slots(a) \ P) \in Nat
      <4>1. IsFiniteSet(Slots(a) \ P) /\ IsFiniteSet(P) /\ Cardinality(Slots(a)) = NumFences[a]
            /\ Cardinality(Slots(a) \ P) \in Nat
        BY SlotsFinite
      <4>2. Slots(a) = (Slots(a) \ P) \cup P /\ (Slots(a) \ P) \cap P = {}
        OBVIOUS
      <4>3. Cardinality((Slots(a) \ P) \cup P) = Cardinality(Slots(a) \ P) + Cardinality(P)
        BY <4>1, <4>2, DisjointSum
      <4> QED
        BY <2>5, <4>1, <4>2, <4>3
    <3> QED
      BY <1>4, <2>3, <2>6, <2>7, <2>9, <3>4, <3>5, <3>6, <3>7
  <2> QED
    BY <2>8, <2>9
<1> QED
  BY <1>5, <1>10, ExactMeans DEF Exact

\* At the start only the driver holds the dummy.
LEMMA ExactInit == Init => RefsExact
<1> SUFFICES ASSUME Init PROVE Exact(held, children, Live)
  BY ExactMeans
<1>1. Live = {}
  BY DEF Init, Live
<1>2. ASSUME NEW f PROVE Cardinality(PlacesOf(children, f, Live)) = 0
  <2>1. PlacesOf(children, f, Live) = {}
    BY <1>1 DEF PlacesOf, Places
  <2> QED
    BY <2>1, FS_EmptySet
<1>3. \A f \in UserFences \cup {Dummy} : held[f] = IF f = Dummy THEN 1 ELSE 0
  BY DEF Init
<1> QED
  BY <1>2, <1>3 DEF Exact

\* dma_fence_array_enable_signaling registers callbacks for an array that
\* the caller holds.
LEMMA EnableReferenced ==
  ASSUME Shape, NEW t \in Threads, NEW a \in Arrays, arg[t] = a, EnableSignaling(a),
         UNCHANGED <<arg, tracker, files, irqWork>>
  PROVE  \A x \in Arrays : Referenced(x)' <=> Referenced(x)
<1> SUFFICES ASSUME NEW x \in Arrays PROVE Referenced(x)' <=> Referenced(x)
  OBVIOUS
<1>1. CASE x = a
  BY <1>1 DEF Referenced
<1>2. CASE x # a
  <2>1. callbacks'[x] = callbacks[x]
    <3>1. DOMAIN callbacks = Arrays
      BY DEF Shape
    <3>2. callbacks' = callbacks \/ \E v : callbacks' = [callbacks EXCEPT ![a] = v]
      BY DEF EnableSignaling
    <3> QED
      BY <1>2, <3>1, <3>2
  <2> QED
    BY <2>1 DEF Referenced
<1> QED
  BY <1>1, <1>2

\* Every step keeps the references exact.
LEMMA ExactStep == Shape /\ BindOrder /\ RefsExact /\ [Next]_vars => RefsExact'
<1> SUFFICES ASSUME Shape, BindOrder, RefsExact, [Next]_vars PROVE RefsExact'
  OBVIOUS
<1>t. /\ pc \in [Threads -> Labels] /\ arg \in [Threads -> made \cup {None}]
      /\ \A t \in Threads : pc[t] # "idle" => arg[t] \in made
      /\ \A t \in Threads : pc[t] = "idle" => arg[t] = None
      /\ Binders \subseteq Threads /\ Readers \subseteq Threads
      /\ made \subseteq Arrays /\ None \notin Arrays
  BY FencesAssumption DEF Shape, TypeOK, Threads
<1>1. CASE UNCHANGED vars \/ spec_sync_open
  <2>1. UNCHANGED <<held, children, made, files, tracker, irqWork, callbacks, arg>>
    BY <1>1 DEF vars, fence, spec_sync_open
  <2> QED
    BY <2>1, ExactKept DEF Referenced
<1>2. CASE spec_sync_release
  <2>1. UNCHANGED <<children, made, files, irqWork, callbacks, arg>> /\ tracker' \subseteq tracker
    BY <1>2 DEF spec_sync_release
  <2>2. \A a \in Arrays : Referenced(a)' => Referenced(a)
    BY <2>1 DEF Referenced
  <2> QED
    BY <1>2, <2>1, <2>2, ExactPut DEF spec_sync_release
<1>3. ASSUME NEW b \in Binders, NEW a \in Arrays, spec_sync_create_array(b, a)
      PROVE  RefsExact'
  BY <1>3, ExactCreate
<1>4. ASSUME NEW t \in Threads, NEW a \in Arrays, a \in files, pc[t] = "idle",
             UNCHANGED <<held, children, made, files, tracker, irqWork, callbacks>>,
             \/ UNCHANGED arg
             \/ arg' = [arg EXCEPT ![t] = a]
      PROVE  RefsExact'
  <2>1. \A x \in Arrays : Referenced(x)' <=> Referenced(x)
    BY <1>4, <1>t DEF Referenced
  <2> QED
    BY <1>4, <2>1, ExactKept
<1>5. ASSUME NEW b \in Binders, NEW a \in Arrays, BindBegin(b, a)
      PROVE  RefsExact'
  BY <1>4, <1>5, <1>t DEF BindBegin, Start
<1>6. ASSUME NEW b \in Binders, TrackArray(b)
      PROVE  RefsExact'
  <2>1. /\ UNCHANGED <<held, children, made, files, irqWork, callbacks>>
        /\ tracker' = tracker \cup {arg[b]} /\ arg' = [arg EXCEPT ![b] = None]
        /\ b \in Threads
    BY <1>6, <1>t DEF TrackArray, Return, Start, fence
  <2>2. \A x \in Arrays : Referenced(x)' <=> Referenced(x)
    BY <2>1, <1>t DEF Referenced
  <2> QED
    BY <2>1, <2>2, ExactKept
<1>7. ASSUME NEW t \in Threads, PutArrays,
             UNCHANGED <<children, made, irqWork, callbacks>>,
             files' \subseteq files, tracker' \subseteq tracker,
             UNCHANGED arg \/ Return(t)
      PROVE  RefsExact'
  <2>1. \A c \in Threads : arg'[c] \in {arg[c], None}
    BY <1>7, <1>t DEF Return, Start
  <2>2. \A a \in Arrays : Referenced(a)' => Referenced(a)
    BY <1>7, <1>t, <2>1 DEF Referenced
  <2> QED
    BY <1>7, <2>2, ExactPut
<1>8. ASSUME NEW b \in Binders, BindCheck(b) \/ BindClear(b) \/ BindBound(b)
      PROVE  RefsExact'
  BY <1>7, <1>8, <1>t DEF BindCheck, BindClear, BindBound, fence
<1>9. ASSUME NEW b \in Binders, NEW fds \in [Slots(arg[b]) -> UserFences \cup {BadFd}],
             BindFill(b, fds)
      PROVE  RefsExact'
  BY <1>9, ExactFill
<1>10. ASSUME NEW b \in Binders, BindEnable(b)
       PROVE  RefsExact'
  <2>1. arg[b] \in Arrays /\ EnableSignaling(arg[b])
        /\ UNCHANGED <<held, children, made, arg, tracker, files, irqWork>>
    BY <1>10, <1>t DEF BindEnable
  <2>2. \A x \in Arrays : Referenced(x)' <=> Referenced(x)
    BY <1>t, <2>1, EnableReferenced
  <2> QED
    BY <2>1, <2>2, ExactKept
<1>11. ASSUME UNCHANGED <<held, children, made, files, tracker, irqWork, callbacks, arg>>
       PROVE  RefsExact'
  BY <1>11, ExactKept DEF Referenced
<1>12. ASSUME NEW b \in Binders, BindError(b) \/ BindSignal(b)
       PROVE  RefsExact'
  BY <1>11, <1>12 DEF BindError, BindSignal
<1>13. ASSUME NEW r \in Readers, NEW a \in Arrays, FrameBegin(r, a)
       PROVE  RefsExact'
  BY <1>4, <1>13, <1>t DEF FrameBegin, Start, fence
<1>14. ASSUME NEW r \in Readers, Bound(r) \/ BindTimeout(r) \/ LookAtChildren(r)
       PROVE  RefsExact'
  BY <1>11, <1>14 DEF Bound, BindTimeout, LookAtChildren, fence
<1>15. ASSUME NEW r \in Readers, FrameEnd(r) \/ SwWoken(r) \/ SwTimeout(r)
       PROVE  RefsExact'
  BY <1>7, <1>15, <1>t DEF FrameEnd, SwWoken, SwTimeout, fence
<1>16. ASSUME NEW r \in Readers, SwWait(r)
       PROVE  RefsExact'
  <2>1. CASE Expired(arg[r])
    BY <1>7, <1>16, <1>t, <2>1 DEF SwWait
  <2>2. CASE ~Expired(arg[r])
    <3>1. /\ arg[r] \in Arrays /\ EnableSignaling(arg[r]) /\ PutArrays
          /\ UNCHANGED <<children, made, arg, tracker, files, irqWork>>
      BY <1>16, <1>t, <2>2 DEF SwWait
    <3>2. \A x \in Arrays : Referenced(x)' <=> Referenced(x)
      BY <1>t, <3>1, EnableReferenced
    <3> QED
      BY <3>1, <3>2, ExactPut
  <2> QED
    BY <2>1, <2>2
<1>17. ASSUME NEW u \in UserFences, SignalFence(u)
       PROVE  RefsExact'
  <2>1. /\ UNCHANGED <<children, made, files, tracker, arg>> /\ PutArrays
        /\ \A a \in Arrays : callbacks'[a] \subseteq callbacks[a]
    BY <1>17 DEF SignalFence
  <2>2. ASSUME NEW a \in Arrays, a \in irqWork', a \notin irqWork
        PROVE  callbacks[a] # {}
    <3>1. /\ pending[a] > 0
          /\ pending[a] - Cardinality({i \in callbacks[a] : children[a][i] = u}) <= 0
      BY <1>17, <2>2 DEF SignalFence
    <3>2. ASSUME callbacks[a] = {} PROVE FALSE
      <4>1. {i \in callbacks[a] : children[a][i] = u} = {}
        BY <3>2
      <4>2. Cardinality({i \in callbacks[a] : children[a][i] = u}) = 0
        BY <4>1, FS_EmptySet
      <4>3. pending[a] \in Int
        BY DEF Shape, TypeOK
      <4> QED
        BY <3>1, <4>2, <4>3
    <3> QED
      BY <3>2
  <2>3. \A a \in Arrays : Referenced(a)' => Referenced(a)
    BY <2>1, <2>2 DEF Referenced
  <2> QED
    BY <2>1, <2>3, ExactPut
<1>18. ASSUME NEW a \in Arrays, IrqWork(a)
       PROVE  RefsExact'
  <2>1. /\ UNCHANGED <<children, made, files, tracker, arg, callbacks>> /\ PutArrays
        /\ irqWork' \subseteq irqWork
    BY <1>18 DEF IrqWork
  <2>2. \A x \in Arrays : Referenced(x)' => Referenced(x)
    BY <2>1 DEF Referenced
  <2> QED
    BY <2>1, <2>2, ExactPut
<1>19. ASSUME NEW a \in Arrays, CloseSyncFile(a)
       PROVE  RefsExact'
  <2>1. /\ UNCHANGED <<children, made, irqWork, tracker, arg, callbacks>> /\ PutArrays
        /\ files' \subseteq files
    BY <1>19 DEF CloseSyncFile, fence
  <2>2. \A x \in Arrays : Referenced(x)' => Referenced(x)
    BY <2>1 DEF Referenced
  <2> QED
    BY <2>1, <2>2, ExactPut
<1> QED
  BY <1>1, <1>2, <1>3, <1>5, <1>6, <1>8, <1>9, <1>10, <1>12, <1>13, <1>14, <1>15, <1>16,
     <1>17, <1>18, <1>19
     DEF Next, BindStep, FrameStep

\* With binds of one array that do not overlap, the dummy and every fence are
\* held exactly as often as the arrays that are not released have them.
THEOREM SpecFenceRefsExact ==
  ASSUME OneBindAtATime
  PROVE  Spec => []RefsExact
<1> DEFINE I == Shape /\ BindOrder /\ RefsExact
<1>1. Init => I
  BY ShapeInit, BindOrderInit, ExactInit
<1>2. I /\ [Next]_vars => I'
  BY ShapeStep, BindOrderStep, ExactStep
<1>3. I => RefsExact
  OBVIOUS
<1> QED
  <2> HIDE DEF I
  <2> QED
    BY <1>1, <1>2, <1>3, PTL DEF Spec

=============================================================================
