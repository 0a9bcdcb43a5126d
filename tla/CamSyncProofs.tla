---------------------------- MODULE CamSyncProofs ----------------------------
(***************************************************************************)
(* Proofs about the camera's sync objects.  First the types, then what     *)
(* each step does to the rows and to the calls (the Effect lemmas), so     *)
(* that the invariants need not look into the actions again:               *)
(*   Owned     a call that fills or clears a row owns it;                  *)
(*   Statuses  a group carries a failure exactly if a child failed;        *)
(*   Pairs     a child lists only groups that list it or will visit it;    *)
(*   Counts    remaining is the number of the children, of the signals on  *)
(*             their way and of the children destroyed;                    *)
(*   Told      who waits has been told exactly if the object is signaled.  *)
(* Only Counts, and with it Told, needs QuietReuse: a row taken while a    *)
(* signal is on its way to it would be told of somebody else's child.      *)
(***************************************************************************)
EXTENDS CamSync, NaturalLemmas

-----------------------------------------------------------------------------
(* Types. *)

RowType ==
  [type : {"indv", "group"}, state : States, remaining : Int,
   parents : SUBSET Rows, children : SUBSET Rows,
   callbacks : SUBSET Clients, payloads : SUBSET Payloads,
   ref_cnt : Int, done : BOOLEAN, spoiled : BOOLEAN, orphaned : Nat]

\* A call that fills or clears a row has the number of one.
OpType ==
  {o \in [pc : {"idle", "link", "undo", "tell", "deinit"}, obj : Rows \cup {None},
          todo : SUBSET Rows, seen : SUBSET Rows, status : States] :
     o.pc \in {"link", "undo", "deinit"} => o.obj \in Rows}

\* The types of the variables, without the bitmap that goes with the rows.
Types ==
  /\ bitmap \subseteq Rows
  /\ row \in [Rows -> RowType]
  /\ op \in [Callers -> OpType]
  /\ holds \in [Threads -> Rows \cup {None}]
  /\ workq \subseteq [what : Clients, obj : Rows, status : States]
  /\ phase \in {"open", "signal", "destroy"}
  /\ sweep \in 1 .. CAM_SYNC_MAX_OBJS /\ created \in 0 .. MaxCreates

\* What the names of the states and of the threads are.
LEMMA Names ==
  /\ Invalid # Active /\ Invalid # Success /\ Active # Success
  /\ Invalid \notin Failures /\ Active \notin Failures /\ Success \notin Failures
  /\ Error \in Failures
  /\ Invalid \in States /\ Active \in States /\ Success \in States /\ Failures \subseteq States
  /\ Threads \subseteq Callers /\ Closer \in Callers /\ Closer \notin Threads
  /\ None \notin Rows /\ Rows \subseteq Nat
BY NamesAssumption, RowsAssumption
   DEF Invalid, Active, Success, States, Callers, None, Rows

\* The first free row is a free row.
LEMMA FirstFreeIs ==
  ASSUME Types, bitmap # Rows
  PROVE  FirstFree \in Rows /\ FirstFree \notin bitmap
<1>1. Rows \ bitmap \in SUBSET Nat /\ Rows \ bitmap # {}
  BY Names DEF Types
<1>2. \E x \in Rows \ bitmap : \A y \in Rows \ bitmap : x <= y
  BY <1>1, LeastNumber
<1> QED
  BY <1>2 DEF FirstFree

\* An empty row, a new one and an idle call have their types.
LEMMA ZeroType ==
  /\ Zero \in RowType
  /\ \A type \in {"indv", "group"} : InitRow(type) \in RowType
  /\ Idle \in OpType
<1>1. Zero \in RowType
  BY Names DEF Zero, RowType
<1>2. ASSUME NEW type \in {"indv", "group"} PROVE InitRow(type) \in RowType
  <2>1. [Zero EXCEPT !.type = type] \in RowType
    BY <1>1 DEF RowType
  <2> QED
    BY <1>1, <2>1, Names DEF InitRow, RowType
<1>3. Idle \in OpType
  BY Names DEF Idle, OpType
<1> QED
  BY <1>1, <1>2, <1>3

\* A row and a call are changed to one of their type.
LEMMA RowSet ==
  ASSUME Types, NEW r \in Rows, NEW x \in RowType, row' = [row EXCEPT ![r] = x]
  PROVE  row' \in [Rows -> RowType]
BY DEF Types

\* A call goes on.
LEMMA OpSet ==
  ASSUME Types, NEW t \in Callers, NEW o \in OpType, Set(t, o)
  PROVE  op' \in [Callers -> OpType]
BY DEF Types, Set

\* A call goes on, or ends.
LEMMA OpContinue ==
  ASSUME Types, NEW t \in Callers, NEW o \in OpType, Continue(t, o)
  PROVE  op' \in [Callers -> OpType]
BY ZeroType, OpSet DEF Continue

\* cam_sync_util_dispatch_signaled_cb keeps the types.
LEMMA UpdateType ==
  ASSUME Types, NEW r \in Rows, NEW x \in RowType, NEW d \in BOOLEAN, Update(r, x, d)
  PROVE  /\ row' \in [Rows -> RowType]
         /\ workq' \subseteq [what : Clients, obj : Rows, status : States]
<1>1. [x EXCEPT !.callbacks = {}, !.payloads = {}, !.done = TRUE] \in RowType
  BY DEF RowType
<1>2. row' \in [Rows -> RowType]
  BY <1>1, RowSet DEF Update
<1>3. \A c \in x.callbacks : Call(c, r, x.state) \in [what : Clients, obj : Rows, status : States]
  BY DEF RowType, Call
<1>4. workq' \subseteq [what : Clients, obj : Rows, status : States]
  BY <1>3 DEF Update, Types
<1> QED
  BY <1>2, <1>4

\* cam_sync_signal keeps the types.
LEMMA SignalRowType ==
  ASSUME Types, NEW t \in Callers, NEW r \in Rows, NEW status \in {Success} \cup Failures,
         SignalRow(t, r, status)
  PROVE  /\ row' \in [Rows -> RowType] /\ op' \in [Callers -> OpType]
         /\ workq' \subseteq [what : Clients, obj : Rows, status : States]
<1>1. row[r] \in RowType /\ status \in States
  BY Names DEF Types
<1>2. CASE row[r].state # Active \/ row[r].type = "group"
  BY <1>2 DEF SignalRow, Types
<1>3. CASE ~(row[r].state # Active \/ row[r].type = "group") /\ row[r].ref_cnt # 1
  <2>1. row' = [row EXCEPT ![r].ref_cnt = @ - 1] /\ UNCHANGED <<op, workq>>
    BY <1>3 DEF SignalRow
  <2>2. [row[r] EXCEPT !.ref_cnt = @ - 1] \in RowType
    BY <1>1 DEF RowType
  <2>3. row' = [row EXCEPT ![r] = [row[r] EXCEPT !.ref_cnt = @ - 1]]
    BY <2>1 DEF Types
  <2> QED
    BY <2>1, <2>2, <2>3, RowSet DEF Types
<1>4. CASE ~(row[r].state # Active \/ row[r].type = "group") /\ row[r].ref_cnt = 1
  <2>1. Signaled(row[r], status) \in RowType
    <3>1. [row[r] EXCEPT !.ref_cnt = 0] \in RowType
      BY <1>1 DEF RowType
    <3> QED
      BY <1>1, <3>1 DEF Signaled, RowType
  <2>2. [Idle EXCEPT !.pc = "tell", !.todo = row[r].parents, !.status = status] \in OpType
    BY <1>1, Names DEF Idle, OpType, RowType
  <2> QED
    BY <1>4, <2>1, <2>2, UpdateType, OpContinue DEF SignalRow
<1> QED
  BY <1>2, <1>3, <1>4

\* cam_sync_deinit_object keeps the types.
LEMMA DeinitType ==
  ASSUME Types, NEW t \in Callers, NEW r \in Rows, DeinitBegin(t, r)
  PROVE  row' \in [Rows -> RowType] /\ op' \in [Callers -> OpType]
<1>1. row[r] \in RowType
  BY DEF Types
<1>2. [row[r] EXCEPT !.state = Invalid, !.children = {}, !.parents = {}] \in RowType
  BY <1>1, Names DEF RowType
<1>3. \A q \in Rows : [row[q] EXCEPT !.orphaned = @ + 1] \in RowType
  <2> SUFFICES ASSUME NEW q \in Rows PROVE [row[q] EXCEPT !.orphaned = @ + 1] \in RowType
    OBVIOUS
  <2>1. row[q] \in RowType
    BY DEF Types
  <2> QED
    BY <2>1 DEF RowType
<1>4. row' \in [Rows -> RowType]
  BY <1>2, <1>3 DEF DeinitBegin, Types
<1>5. [Idle EXCEPT !.pc = "deinit", !.obj = r, !.todo = row[r].children,
                   !.seen = row[r].parents] \in OpType
  BY <1>1, Names DEF Idle, OpType, RowType
<1> QED
  BY <1>4, <1>5, OpSet DEF DeinitBegin

\* A row is taken for an object.
LEMMA TakeRowType ==
  ASSUME Types, NEW type \in {"indv", "group"}, TakeRow(type)
  PROVE  /\ bitmap' \subseteq Rows /\ row' \in [Rows -> RowType]
         /\ created' \in 0 .. MaxCreates
<1>1. FirstFree \in Rows
  BY FirstFreeIs DEF TakeRow
<1> QED
  BY <1>1, ZeroType, RowsAssumption DEF TakeRow, Types

\* The types hold at the start.
LEMMA TypesInit == Init => Types
BY ZeroType, RowsAssumption DEF Init, Types, Rows

\* cam_sync_close makes no merge.
CloserFree == op[Closer].pc \notin {"link", "undo"}

\* No step makes the close merge.
LEMMA CloserFreeStep == Types /\ CloserFree /\ [Next]_vars => CloserFree'
<1> SUFFICES ASSUME Types, CloserFree, [Next]_vars PROVE CloserFree'
  OBVIOUS
<1>n. Threads \subseteq Callers /\ Closer \in Callers /\ Closer \notin Threads
  BY Names
<1>o. op[Closer] \in OpType /\ DOMAIN op = Callers
  BY <1>n DEF Types
<1>1. ASSUME NEW t \in Threads, NEW o, Set(t, o) PROVE CloserFree'
  BY <1>1, <1>n, <1>o DEF Set, CloserFree
<1>2. ASSUME NEW t \in Callers, NEW o, Set(t, o), o.pc \notin {"link", "undo"} PROVE CloserFree'
  BY <1>2, <1>n, <1>o DEF Set, CloserFree
<1>3. Idle.pc = "idle"
  BY DEF Idle
<1>4. ASSUME UNCHANGED op PROVE CloserFree'
  BY <1>4 DEF CloserFree
<1>5. ASSUME NEW t \in Callers, NEW o, Continue(t, o), o.pc \notin {"link", "undo"} PROVE CloserFree'
  BY <1>2, <1>3, <1>5 DEF Continue
<1>6. ASSUME NEW t \in Callers, NEW r \in Rows, NEW s, SignalRow(t, r, s) PROVE CloserFree'
  <2>1. [Idle EXCEPT !.pc = "tell", !.todo = row[r].parents, !.status = s].pc = "tell"
    BY DEF Idle
  <2> QED
    BY <1>4, <1>5, <1>6, <2>1 DEF SignalRow
<1>7. ASSUME NEW t \in Callers, NEW r \in Rows, DeinitBegin(t, r) PROVE CloserFree'
  <2>1. [Idle EXCEPT !.pc = "deinit", !.obj = r, !.todo = row[r].children,
                     !.seen = row[r].parents].pc = "deinit"
    BY DEF Idle
  <2> QED
    BY <1>2, <1>7, <2>1 DEF DeinitBegin
<1>8. ASSUME NEW t \in Callers, Step(t) PROVE CloserFree'
  <2>0. op[t] \in OpType
    BY DEF Types
  <2>1. CASE t \in Threads /\ \E r \in Rows : LinkChild(t, r) \/ UnlinkChild(t, r)
    BY <2>1, <1>1 DEF LinkChild, UnlinkChild
  <2>2. CASE t = Closer /\ \E r \in Rows : LinkChild(t, r) \/ UnlinkChild(t, r)
    BY <2>2 DEF LinkChild, UnlinkChild, CloserFree
  <2>3. ASSUME NEW r \in Rows, TellParent(t, r) PROVE CloserFree'
    <3>1. [op[t] EXCEPT !.todo = @ \ {r}].pc = "tell"
      BY <2>0, <2>3 DEF TellParent, OpType
    <3> QED
      BY <2>3, <3>1, <1>5 DEF TellParent
  <2>4. ASSUME NEW r \in Rows, UnlinkFromChild(t, r) \/ UnlinkFromParent(t, r) PROVE CloserFree'
    <3>1. /\ op[t].pc = "deinit" => [op[t] EXCEPT !.todo = @ \ {r}].pc = "deinit"
          /\ op[t].pc = "deinit" => [op[t] EXCEPT !.seen = @ \ {r}].pc = "deinit"
      BY <2>0 DEF OpType
    <3> QED
      BY <2>4, <3>1, <1>2 DEF UnlinkFromChild, UnlinkFromParent
  <2>5. CASE MergeEnd(t) \/ MergeFails(t) \/ DeinitEnd(t)
    BY <2>5, <1>2, <1>3 DEF MergeEnd, MergeFails, DeinitEnd
  <2> QED
    BY <1>8, <2>1, <2>2, <2>3, <2>4, <2>5 DEF Step, Callers
<1>9. ASSUME NEW t \in Threads,
             \/ cam_sync_create(t)
             \/ \E objs \in SUBSET Rows : cam_sync_merge(t, objs)
             \/ \E r \in Rows : cam_sync_get_obj_ref(t, r) \/ cam_sync_destroy(t, r)
             \/ cam_sync_put_obj_ref(t)
      PROVE  CloserFree'
  BY <1>9, <1>n, <1>1, <1>4, <1>7
     DEF cam_sync_create, cam_sync_merge, cam_sync_get_obj_ref, cam_sync_destroy,
         cam_sync_put_obj_ref
<1>10. ASSUME NEW t \in Threads, NEW s, cam_sync_signal(t, s) PROVE CloserFree'
  <2>1. holds[t] \in Rows
    BY <1>10 DEF cam_sync_signal, Types
  <2> QED
    BY <1>10, <1>n, <1>6, <2>1 DEF cam_sync_signal
<1>11. CASE CloseBegin \/ CloseStep
  BY <1>11, <1>n, <1>4, <1>6, <1>7
     DEF CloseBegin, CloseStep, CloseSignal, CloseFlush, CloseDestroy, CloseEnd
<1>12. CASE \/ UNCHANGED vars
            \/ \E r \in Rows, c \in Clients : \/ cam_sync_register_callback(c, r)
                                              \/ cam_sync_deregister_callback(c, r)
            \/ \E r \in Rows, p \in Payloads : RegisterPayload(p, r) \/ DeregisterPayload(p, r)
            \/ \E e \in workq : RunCallback(e)
  BY <1>12, <1>4 DEF vars, cam_sync_register_callback, cam_sync_deregister_callback,
                     RegisterPayload, DeregisterPayload, RunCallback
<1> QED
  BY <1>8, <1>9, <1>10, <1>11, <1>12 DEF Next

\* Every action keeps the types.
LEMMA TypesStep == Types /\ CloserFree /\ [Next]_vars => Types'
<1> SUFFICES ASSUME Types, CloserFree, [Next]_vars PROVE Types'
  OBVIOUS
<1>n. Threads \subseteq Callers /\ Closer \in Callers /\ None \notin Rows
  BY Names
<1>0. CASE UNCHANGED vars
  BY <1>0 DEF Types, vars
<1>1. ASSUME NEW t \in Threads, cam_sync_create(t)
      PROVE  Types'
  BY <1>1, TakeRowType DEF cam_sync_create, Types
<1>2. ASSUME NEW t \in Threads, NEW objs \in SUBSET Rows, cam_sync_merge(t, objs)
      PROVE  Types'
  <2>1. FirstFree \in Rows
    BY <1>2, FirstFreeIs DEF cam_sync_merge, TakeRow
  <2>2. [Idle EXCEPT !.pc = "link", !.obj = FirstFree, !.todo = objs] \in OpType
    BY <2>1, Names DEF Idle, OpType
  <2>3. op' \in [Callers -> OpType]
    BY <1>2, <1>n, <2>2, OpSet DEF cam_sync_merge
  <2> QED
    BY <1>2, <2>3, TakeRowType DEF cam_sync_merge, Types
<1>3. ASSUME NEW t \in Threads, NEW r \in Rows, cam_sync_get_obj_ref(t, r)
      PROVE  Types'
  <2>1. [row[r] EXCEPT !.ref_cnt = @ + 1] \in RowType
    <3>1. row[r] \in RowType
      BY DEF Types
    <3> QED
      BY <3>1 DEF RowType
  <2>2. row' = [row EXCEPT ![r] = [row[r] EXCEPT !.ref_cnt = @ + 1]]
    BY <1>3 DEF cam_sync_get_obj_ref, Types
  <2>3. row' \in [Rows -> RowType]
    BY <2>1, <2>2, RowSet
  <2> QED
    BY <1>3, <2>3 DEF cam_sync_get_obj_ref, Types
<1>4. ASSUME NEW t \in Threads, NEW r \in Rows, cam_sync_destroy(t, r)
      PROVE  Types'
  BY <1>4, <1>n, DeinitType DEF cam_sync_destroy, Types
<1>5. ASSUME NEW t \in Threads, cam_sync_put_obj_ref(t)
      PROVE  Types'
  <2>1. PICK r \in Rows : r = holds[t]
    BY <1>5 DEF cam_sync_put_obj_ref, Types
  <2>2. [row[r] EXCEPT !.ref_cnt = @ - 1] \in RowType
    <3>1. row[r] \in RowType
      BY DEF Types
    <3> QED
      BY <3>1 DEF RowType
  <2>3. row' = [row EXCEPT ![r] = [row[r] EXCEPT !.ref_cnt = @ - 1]]
    BY <1>5, <2>1 DEF cam_sync_put_obj_ref, Types
  <2>4. row' \in [Rows -> RowType]
    BY <2>2, <2>3, RowSet
  <2> QED
    BY <1>5, <2>4 DEF cam_sync_put_obj_ref, Types
<1>6. ASSUME NEW t \in Threads, NEW status \in {Success} \cup Failures,
             cam_sync_signal(t, status)
      PROVE  Types'
  <2>1. holds[t] \in Rows
    BY <1>6 DEF cam_sync_signal, Types
  <2>2. /\ row' \in [Rows -> RowType] /\ op' \in [Callers -> OpType]
        /\ workq' \subseteq [what : Clients, obj : Rows, status : States]
    BY <1>6, <1>n, <2>1, SignalRowType DEF cam_sync_signal
  <2> QED
    BY <1>6, <2>2 DEF cam_sync_signal, Types
<1>7. ASSUME NEW r \in Rows, NEW c \in Clients, cam_sync_register_callback(c, r)
      PROVE  Types'
  <2>1. row[r] \in RowType
    BY DEF Types
  <2>2. CASE CallAtOnce(r)
    <3>1. Call(c, r, row[r].state) \in [what : Clients, obj : Rows, status : States]
      BY <2>1 DEF Call, RowType
    <3> QED
      BY <1>7, <2>2, <3>1 DEF cam_sync_register_callback, Types
  <2>3. CASE ~CallAtOnce(r)
    <3>1. [row[r] EXCEPT !.callbacks = @ \cup {c}] \in RowType
      BY <2>1 DEF RowType
    <3>2. row' = [row EXCEPT ![r] = [row[r] EXCEPT !.callbacks = @ \cup {c}]]
      BY <1>7, <2>3 DEF cam_sync_register_callback, Types
    <3>3. row' \in [Rows -> RowType]
      BY <3>1, <3>2, RowSet
    <3> QED
      BY <1>7, <2>3, <3>3 DEF cam_sync_register_callback, Types
  <2> QED
    BY <2>2, <2>3
<1>8. ASSUME NEW r \in Rows, NEW c \in Clients, cam_sync_deregister_callback(c, r)
      PROVE  Types'
  <2>1. row[r] \in RowType
    BY DEF Types
  <2>2. [row[r] EXCEPT !.callbacks = @ \ {c}] \in RowType
    BY <2>1 DEF RowType
  <2>3. row' = [row EXCEPT ![r] = [row[r] EXCEPT !.callbacks = @ \ {c}]]
    BY <1>8 DEF cam_sync_deregister_callback, Types
  <2>4. row' \in [Rows -> RowType]
    BY <2>2, <2>3, RowSet
  <2> QED
    BY <1>8, <2>4 DEF cam_sync_deregister_callback, Types
<1>9. ASSUME NEW r \in Rows, NEW p \in Payloads, RegisterPayload(p, r)
      PROVE  Types'
  <2>1. row[r] \in RowType
    BY DEF Types
  <2>2. [row[r] EXCEPT !.payloads = @ \cup {p}] \in RowType
    BY <2>1 DEF RowType
  <2>3. row' = row \/ row' = [row EXCEPT ![r] = [row[r] EXCEPT !.payloads = @ \cup {p}]]
    BY <1>9 DEF RegisterPayload, Types
  <2>4. row' \in [Rows -> RowType]
    BY <2>2, <2>3, RowSet DEF Types
  <2> QED
    BY <1>9, <2>4 DEF RegisterPayload, Types
<1>10. ASSUME NEW r \in Rows, NEW p \in Payloads, DeregisterPayload(p, r)
      PROVE  Types'
  <2>1. row[r] \in RowType
    BY DEF Types
  <2>2. [row[r] EXCEPT !.payloads = @ \ {p}] \in RowType
    BY <2>1 DEF RowType
  <2>3. row' = [row EXCEPT ![r] = [row[r] EXCEPT !.payloads = @ \ {p}]]
    BY <1>10 DEF DeregisterPayload, Types
  <2>4. row' \in [Rows -> RowType]
    BY <2>2, <2>3, RowSet
  <2> QED
    BY <1>10, <2>4 DEF DeregisterPayload, Types
<1>11. ASSUME NEW e \in workq, RunCallback(e)
      PROVE  Types'
  BY <1>11 DEF RunCallback, Types
<1>12. ASSUME NEW t \in Callers, NEW c \in Rows, LinkChild(t, c)
      PROVE  Types'
  <2>1. op[t] \in OpType /\ row[c] \in RowType
    BY DEF Types
  <2>2. PICK g \in Rows : g = op[t].obj
    BY <1>12, <2>1 DEF LinkChild, OpType
  <2>3. row[g] \in RowType
    BY DEF Types
  <2>4. op' \in [Callers -> OpType]
    <3>1. [op[t] EXCEPT !.pc = "undo", !.todo = op[t].seen] \in OpType
      BY <2>1, <2>2 DEF OpType
    <3>2. [op[t] EXCEPT !.todo = @ \ {c}, !.seen = @ \cup {c}] \in OpType
      BY <2>1 DEF OpType
    <3> QED
      BY <1>12, <3>1, <3>2, OpSet DEF LinkChild
  <2>5. row' \in [Rows -> RowType]
    <3>1. CASE row[c].type = "group" \/ ~Valid(c)
      <4>1. Refused(row[g]) \in RowType
        BY <2>3, Names DEF Refused, RowType
      <4>2. row' = [row EXCEPT ![g] = Refused(row[g])]
        BY <1>12, <2>2, <3>1 DEF LinkChild, Types
      <4> QED
        BY <4>1, <4>2, RowSet
    <3>2. CASE ~(row[c].type = "group" \/ ~Valid(c))
      <4>1. Linked(row[g], c, row[c]) \in RowType
        <5>1. CASE row[c].state = Active
          <6>2. PICK n \in Int : n = row[g].remaining + 1
            BY <2>3 DEF RowType
          <6>3. PICK C \in SUBSET Rows : C = row[g].children \cup {c}
            BY <2>3 DEF RowType
          <6>4. [row[g] EXCEPT !.remaining = n, !.children = C] \in RowType
            BY <2>3 DEF RowType
          <6>1. [row[g] EXCEPT !.remaining = @ + 1, !.children = @ \cup {c}] \in RowType
            BY <6>2, <6>3, <6>4
          <6> QED
            BY <5>1, <6>1 DEF Linked
        <5>2. CASE row[c].state # Active
          <6>1. PICK s \in States : s = IF row[c].state \in Failures THEN row[c].state
                                        ELSE row[g].state
            BY <2>1, <2>3 DEF RowType
          <6>2. PICK z \in BOOLEAN : z = (row[g].spoiled \/ row[c].state \in Failures)
            OBVIOUS
          <6>3. [row[g] EXCEPT !.state = s, !.spoiled = z] \in RowType
            BY <2>3 DEF RowType
          <6> QED
            BY <5>2, <6>1, <6>2, <6>3 DEF Linked
        <5> QED
          BY <5>1, <5>2
      <4>2. c # g
        BY <1>12, <2>2, Names DEF LinkChild, Unlocked, CloserFree, Callers
      <4>3. PICK P \in SUBSET Rows : P = IF row[c].state = Active THEN row[c].parents \cup {g}
                                         ELSE row[c].parents
        BY <2>1 DEF RowType
      <4>4. [row[c] EXCEPT !.parents = P] \in RowType
        BY <2>1 DEF RowType
      <4>5. row' = [row EXCEPT ![g] = Linked(row[g], c, row[c]), ![c].parents = P]
        BY <1>12, <2>2, <3>2, <4>2, <4>3 DEF LinkChild
      <4>6. \A q \in Rows : row'[q] = IF q = c THEN [row[c] EXCEPT !.parents = P]
                                      ELSE IF q = g THEN Linked(row[g], c, row[c])
                                      ELSE row[q]
        BY <4>2, <4>5 DEF Types
      <4> QED
        BY <4>1, <4>4, <4>5, <4>6 DEF Types
    <3> QED
      BY <3>1, <3>2
  <2> QED
    BY <1>12, <2>4, <2>5 DEF LinkChild, Types
<1>13. ASSUME NEW t \in Callers, NEW c \in Rows, UnlinkChild(t, c)
      PROVE  Types'
  <2>1. op[t] \in OpType /\ row[c] \in RowType
    BY DEF Types
  <2>2. [op[t] EXCEPT !.todo = @ \ {c}] \in OpType
    BY <2>1 DEF OpType
  <2>3. [row[c] EXCEPT !.parents = @ \ {op[t].obj}] \in RowType
    BY <2>1 DEF RowType
  <2>4. row' = [row EXCEPT ![c] = [row[c] EXCEPT !.parents = @ \ {op[t].obj}]]
    BY <1>13 DEF UnlinkChild, Types
  <2>5. row' \in [Rows -> RowType] /\ op' \in [Callers -> OpType]
    BY <1>13, <2>2, <2>3, <2>4, RowSet, OpSet DEF UnlinkChild
  <2> QED
    BY <1>13, <2>5 DEF UnlinkChild, Types
<1>14. ASSUME NEW t \in Callers, NEW p \in Rows, TellParent(t, p)
      PROVE  Types'
  <2>1. op[t] \in OpType /\ row[p] \in RowType
    BY DEF Types
  <2>2. PICK new : new = [row[p] EXCEPT
                !.remaining = @ - 1,
                !.state = UpdateParentState(@, op[t].status),
                !.spoiled = @ \/ (row[p].state # Invalid /\ op[t].status \in Failures)]
    OBVIOUS
  <2>3. new \in RowType
    <3>1. PICK s \in States : s = UpdateParentState(row[p].state, op[t].status)
      BY <2>1 DEF RowType, OpType, UpdateParentState
    <3>2. PICK z \in BOOLEAN :
            z = (row[p].spoiled \/ (row[p].state # Invalid /\ op[t].status \in Failures))
      OBVIOUS
    <3>3. PICK n \in Int : n = row[p].remaining - 1
      BY <2>1 DEF RowType
    <3>4. [row[p] EXCEPT !.remaining = n, !.state = s, !.spoiled = z] \in RowType
      BY <2>1 DEF RowType
    <3> QED
      BY <2>2, <3>1, <3>2, <3>3, <3>4
  <2>4. [op[t] EXCEPT !.todo = @ \ {p}] \in OpType
    BY <2>1 DEF OpType
  <2>5. NoneRemains(new) \in BOOLEAN
    BY DEF NoneRemains
  <2>6. Update(p, new, NoneRemains(new)) /\ Continue(t, [op[t] EXCEPT !.todo = @ \ {p}])
    BY <1>14, <2>2 DEF TellParent
  <2>7. /\ row' \in [Rows -> RowType] /\ op' \in [Callers -> OpType]
        /\ workq' \subseteq [what : Clients, obj : Rows, status : States]
    BY <2>3, <2>4, <2>5, <2>6, UpdateType, OpContinue
  <2> QED
    BY <1>14, <2>7 DEF TellParent, Types
<1>15. ASSUME NEW t \in Callers, NEW c \in Rows, UnlinkFromChild(t, c)
      PROVE  Types'
  <2>1. op[t] \in OpType /\ row[c] \in RowType
    BY DEF Types
  <2>2. [op[t] EXCEPT !.todo = @ \ {c}] \in OpType
    BY <2>1 DEF OpType
  <2>3. PICK P \in SUBSET Rows : P = IF Valid(c) THEN row[c].parents \ {op[t].obj}
                                     ELSE row[c].parents
    BY <2>1 DEF RowType
  <2>4. [row[c] EXCEPT !.parents = P] \in RowType
    BY <2>1 DEF RowType
  <2>5. row' = [row EXCEPT ![c] = [row[c] EXCEPT !.parents = P]]
    BY <1>15, <2>3 DEF UnlinkFromChild, Types
  <2>6. row' \in [Rows -> RowType] /\ op' \in [Callers -> OpType]
    BY <1>15, <2>2, <2>4, <2>5, RowSet, OpSet DEF UnlinkFromChild
  <2> QED
    BY <1>15, <2>6 DEF UnlinkFromChild, Types
<1>16. ASSUME NEW t \in Callers, NEW p \in Rows, UnlinkFromParent(t, p)
      PROVE  Types'
  <2>1. op[t] \in OpType /\ row[p] \in RowType
    BY DEF Types
  <2>2. [op[t] EXCEPT !.seen = @ \ {p}] \in OpType
    BY <2>1 DEF OpType
  <2>3. PICK C \in SUBSET Rows : C = IF Valid(p) THEN row[p].children \ {op[t].obj}
                                     ELSE row[p].children
    BY <2>1 DEF RowType
  <2>4. [row[p] EXCEPT !.children = C] \in RowType
    BY <2>1 DEF RowType
  <2>5. row' = [row EXCEPT ![p] = [row[p] EXCEPT !.children = C]]
    BY <1>16, <2>3 DEF UnlinkFromParent, Types
  <2>6. row' \in [Rows -> RowType] /\ op' \in [Callers -> OpType]
    BY <1>16, <2>2, <2>4, <2>5, RowSet, OpSet DEF UnlinkFromParent
  <2> QED
    BY <1>16, <2>6 DEF UnlinkFromParent, Types
<1>17. ASSUME NEW t \in Callers, MergeEnd(t)
      PROVE  Types'
  <2>1. op[t] \in OpType
    BY DEF Types
  <2>2. PICK g \in Rows : g = op[t].obj
    BY <1>17, <2>1 DEF MergeEnd, OpType
  <2>3. row[g] \in RowType
    BY DEF Types
  <2>4. PICK s \in States : s = IF row[g].state \in Failures THEN row[g].state ELSE Success
    BY <2>3, Names DEF RowType
  <2>5. [row[g] EXCEPT !.state = s, !.done = TRUE] \in RowType
    BY <2>3 DEF RowType
  <2>6. row' = row \/ row' = [row EXCEPT ![g] = [row[g] EXCEPT !.state = s, !.done = TRUE]]
    BY <1>17, <2>2, <2>4 DEF MergeEnd, Types
  <2>7. row' \in [Rows -> RowType] /\ op' \in [Callers -> OpType]
    BY <1>17, <2>5, <2>6, RowSet, OpSet, ZeroType DEF MergeEnd, Types
  <2> QED
    BY <1>17, <2>7 DEF MergeEnd, Types
<1>18. ASSUME NEW t \in Callers, MergeFails(t)
      PROVE  Types'
  <2>1. op[t] \in OpType
    BY DEF Types
  <2>2. PICK g \in Rows : g = op[t].obj
    BY <1>18, <2>1 DEF MergeFails, OpType
  <2>3. row[g] \in RowType
    BY DEF Types
  <2>4. [row[g] EXCEPT !.children = {}] \in RowType
    BY <2>3 DEF RowType
  <2>5. row' = [row EXCEPT ![g] = [row[g] EXCEPT !.children = {}]]
    BY <1>18, <2>2 DEF MergeFails, Types
  <2>6. row' \in [Rows -> RowType] /\ op' \in [Callers -> OpType]
    BY <1>18, <2>4, <2>5, RowSet, OpSet, ZeroType DEF MergeFails
  <2> QED
    BY <1>18, <2>6 DEF MergeFails, Types
<1>19. ASSUME NEW t \in Callers, DeinitEnd(t)
      PROVE  Types'
  <2>1. op[t].obj \in Rows
    BY <1>19 DEF DeinitEnd, Types, OpType
  <2>2. row' \in [Rows -> RowType] /\ op' \in [Callers -> OpType]
    BY <1>19, <2>1, RowSet, OpSet, ZeroType DEF DeinitEnd
  <2> QED
    BY <1>19, <2>2 DEF DeinitEnd, Types
<1>20. CASE CloseBegin \/ CloseFlush \/ CloseEnd
  BY <1>20, RowsAssumption DEF CloseBegin, CloseFlush, CloseEnd, Types
<1>21. CASE CloseSignal
  <2>1. /\ row' \in [Rows -> RowType] /\ op' \in [Callers -> OpType]
        /\ workq' \subseteq [what : Clients, obj : Rows, status : States]
    BY <1>21, <1>n, Names, SignalRowType DEF CloseSignal
  <2>2. sweep' \in 1 .. CAM_SYNC_MAX_OBJS
    BY <1>21, RowsAssumption DEF CloseSignal, Rows
  <2> QED
    BY <1>21, <2>1, <2>2 DEF CloseSignal, Types
<1>22. CASE CloseDestroy
  <2>1. row' \in [Rows -> RowType] /\ op' \in [Callers -> OpType]
    BY <1>22, <1>n, DeinitType DEF CloseDestroy, Types
  <2>2. sweep' \in 1 .. CAM_SYNC_MAX_OBJS
    BY <1>22, RowsAssumption DEF CloseDestroy, Rows
  <2> QED
    BY <1>22, <2>1, <2>2 DEF CloseDestroy, Types
<1> QED
  BY <1>0, <1>1, <1>2, <1>3, <1>4, <1>5, <1>6, <1>7, <1>8, <1>9, <1>10, <1>11, <1>12, <1>13,
     <1>14, <1>15, <1>16, <1>17, <1>18, <1>19, <1>20, <1>21, <1>22
     DEF Next, Step, CloseStep

-----------------------------------------------------------------------------
(* What the steps do to the rows. *)

\* The fields of a row that go together, before and after a step.
SameKind(x, y) == x.type = y.type
SameStatus(x, y) == x.state = y.state /\ x.spoiled = y.spoiled
SameCount(x, y) == x.remaining = y.remaining /\ x.orphaned = y.orphaned
SameLinks(x, y) == x.parents = y.parents /\ x.children = y.children
SameWaiters(x, y) ==
  x.callbacks = y.callbacks /\ x.payloads = y.payloads /\ x.done = y.done

OnlyRows(S) == \A q \in Rows \ S : row'[q] = row[q]
OnlyOp(t) == \A s \in Callers \ {t} : op'[s] = op[s]

\* A call is changed, others go on.
LEMMA SetEffect ==
  ASSUME Types, NEW t \in Callers, NEW o, Set(t, o)
  PROVE  OnlyOp(t) /\ op'[t] = o
BY DEF Types, Set, OnlyOp

\* A row that is taken is as new.
LEMMA TakeEffect ==
  ASSUME Types, NEW type \in {"indv", "group"}, TakeRow(type), NEW f, f = FirstFree
  PROVE  /\ f \in Rows /\ f \notin bitmap /\ bitmap' = bitmap \cup {f} /\ OnlyRows({f})
         /\ row'[f].type = type /\ row'[f].state = Active /\ ~row'[f].spoiled
         /\ row'[f].remaining = 0 /\ row'[f].orphaned = 0
         /\ row'[f].parents = {} /\ row'[f].children = {}
         /\ row'[f].callbacks = {} /\ row'[f].payloads = {} /\ ~row'[f].done
         /\ QuietReuse => ~Telling(f)
<1>1. f \in Rows /\ f \notin bitmap
  BY FirstFreeIs DEF TakeRow
<1>2. row' = [row EXCEPT ![f] = InitRow(type)]
  BY DEF TakeRow
<1>3. row'[f] = InitRow(type) /\ OnlyRows({f})
  BY <1>1, <1>2 DEF Types, OnlyRows
<1>4. bitmap' = bitmap \cup {f} /\ (QuietReuse => ~Telling(f))
  BY DEF TakeRow
<1> QED
  BY <1>1, <1>3, <1>4 DEF InitRow, Zero

\* The three things that may happen to a child of a merge: the merge fails,
\* the group counts the child, or takes over the failure of one that is
\* signaled.
LinkRefuses(t, c, g) ==
  /\ row[c].type = "group" \/ ~Valid(c)
  /\ OnlyRows({g})
  /\ row'[g].state = Invalid /\ SameKind(row'[g], row[g]) /\ SameCount(row'[g], row[g])
  /\ SameLinks(row'[g], row[g]) /\ SameWaiters(row'[g], row[g])
  /\ op'[t].pc = "undo" /\ op'[t].obj = g /\ op'[t].todo = op[t].seen

LinkCounts(t, c, g) ==
  /\ row[c].type = "indv" /\ row[c].state = Active
  /\ OnlyRows({g, c})
  /\ row'[g].remaining = row[g].remaining + 1 /\ row'[g].orphaned = row[g].orphaned
  /\ row'[g].children = row[g].children \cup {c} /\ row'[g].parents = row[g].parents
  /\ SameKind(row'[g], row[g]) /\ SameStatus(row'[g], row[g]) /\ SameWaiters(row'[g], row[g])
  /\ row'[c].parents = row[c].parents \cup {g} /\ row'[c].children = row[c].children
  /\ SameKind(row'[c], row[c]) /\ SameStatus(row'[c], row[c]) /\ SameWaiters(row'[c], row[c])
  /\ SameCount(row'[c], row[c])

LinkInherits(t, c, g) ==
  /\ row[c].type = "indv" /\ IsSignaled(row[c].state)
  /\ OnlyRows({g})
  /\ row'[g].state = IF row[c].state \in Failures THEN row[c].state ELSE row[g].state
  /\ row'[g].spoiled <=> row[g].spoiled \/ row[c].state \in Failures
  /\ SameKind(row'[g], row[g]) /\ SameCount(row'[g], row[g]) /\ SameLinks(row'[g], row[g])
  /\ SameWaiters(row'[g], row[g])

\* cam_sync_init_group_object
LEMMA LinkEffect ==
  ASSUME Types, CloserFree, NEW t \in Callers, NEW c \in Rows, LinkChild(t, c),
         NEW g, g = op[t].obj
  PROVE  /\ t \in Threads /\ g \in Rows /\ c # g /\ OnlyOp(t)
         /\ op[t].pc = "link" /\ c \in op[t].todo /\ UNCHANGED <<bitmap, workq, phase>>
         /\ \/ LinkRefuses(t, c, g)
            \/ /\ LinkCounts(t, c, g) \/ LinkInherits(t, c, g)
               /\ op'[t].pc = "link" /\ op'[t].obj = g
               /\ op'[t].todo = op[t].todo \ {c} /\ op'[t].seen = op[t].seen \cup {c}
<1>1. op[t] \in OpType /\ row[c] \in RowType
  BY DEF Types
<1>2. g \in Rows /\ t \in Threads
  BY <1>1 DEF LinkChild, OpType, CloserFree, Callers
<1>3. row[g] \in RowType
  BY <1>2 DEF Types
<1>4. c # g
  BY <1>2 DEF LinkChild, Unlocked
<1>5. /\ op[t].pc = "link" /\ c \in op[t].todo /\ UNCHANGED <<bitmap, workq, phase>>
  BY DEF LinkChild
<1>6. CASE row[c].type = "group" \/ ~Valid(c)
  <2>1. row' = [row EXCEPT ![g] = [row[g] EXCEPT !.state = Invalid]]
    BY <1>2, <1>6 DEF LinkChild, Refused, Types
  <2>2. row'[g] = [row[g] EXCEPT !.state = Invalid] /\ OnlyRows({g})
    BY <1>2, <2>1 DEF Types, OnlyRows
  <2>3. /\ row'[g].state = Invalid /\ SameKind(row'[g], row[g]) /\ SameCount(row'[g], row[g])
        /\ SameLinks(row'[g], row[g]) /\ SameWaiters(row'[g], row[g])
    BY <1>3, <2>2 DEF SameKind, SameCount, SameLinks, SameWaiters, RowType
  <2>4. Set(t, [op[t] EXCEPT !.pc = "undo", !.todo = op[t].seen])
    BY <1>6 DEF LinkChild
  <2>5. OnlyOp(t) /\ op'[t] = [op[t] EXCEPT !.pc = "undo", !.todo = op[t].seen]
    BY <2>4, SetEffect
  <2>6. op'[t].pc = "undo" /\ op'[t].obj = g /\ op'[t].todo = op[t].seen
    BY <1>1, <2>5 DEF OpType
  <2> QED
    BY <1>2, <1>4, <1>5, <1>6, <2>2, <2>3, <2>5, <2>6 DEF LinkRefuses
<1>7. CASE ~(row[c].type = "group" \/ ~Valid(c))
  <2>1. row' = [row EXCEPT ![g] = Linked(row[g], c, row[c]),
                           ![c].parents = IF row[c].state = Active THEN @ \cup {g} ELSE @]
    BY <1>7 DEF LinkChild
  <2>2. /\ OnlyRows({g, c}) /\ row'[g] = Linked(row[g], c, row[c])
        /\ row'[c] = [row[c] EXCEPT !.parents =
                        IF row[c].state = Active THEN row[c].parents \cup {g} ELSE row[c].parents]
    BY <1>2, <1>4, <2>1 DEF Types, OnlyRows
  <2>3. Set(t, [op[t] EXCEPT !.todo = @ \ {c}, !.seen = @ \cup {c}])
    BY <1>7 DEF LinkChild
  <2>4. OnlyOp(t) /\ op'[t] = [op[t] EXCEPT !.todo = @ \ {c}, !.seen = @ \cup {c}]
    BY <2>3, SetEffect
  <2>5. /\ op'[t].pc = "link" /\ op'[t].obj = g
        /\ op'[t].todo = op[t].todo \ {c} /\ op'[t].seen = op[t].seen \cup {c}
    BY <1>1, <1>5, <2>4 DEF OpType
  <2>6. CASE row[c].state = Active
    <3>1. row'[g] = [row[g] EXCEPT !.remaining = @ + 1, !.children = @ \cup {c}]
      BY <2>2, <2>6 DEF Linked
    <3>2. row'[c] = [row[c] EXCEPT !.parents = row[c].parents \cup {g}]
      BY <2>2, <2>6
    <3>3. LinkCounts(t, c, g)
      BY <1>1, <1>3, <1>7, <2>2, <2>6, <3>1, <3>2
         DEF LinkCounts, SameKind, SameStatus, SameCount, SameWaiters, RowType
    <3> QED
      BY <1>2, <1>4, <1>5, <2>4, <2>5, <3>3
  <2>7. CASE row[c].state # Active
    <3>1. IsSignaled(row[c].state) /\ row[c].type = "indv"
      BY <1>1, <1>7, <2>7 DEF RowType, Valid, IsSignaled, States
    <3>2. row'[g] = [row[g] EXCEPT !.state = IF row[c].state \in Failures THEN row[c].state ELSE @,
                                   !.spoiled = @ \/ row[c].state \in Failures]
      BY <2>2, <2>7 DEF Linked
    <3>3. row'[c] = row[c]
      BY <1>1, <2>2, <2>7 DEF RowType
    <3>4. OnlyRows({g})
      BY <2>2, <3>3 DEF OnlyRows
    <3>5. LinkInherits(t, c, g)
      BY <1>3, <3>1, <3>2, <3>4
         DEF LinkInherits, SameKind, SameCount, SameLinks, SameWaiters, RowType
    <3> QED
      BY <1>2, <1>4, <1>5, <2>4, <2>5, <3>5
  <2> QED
    BY <2>6, <2>7
<1> QED
  BY <1>6, <1>7

\* The end of a merge.
LEMMA MergeEndEffect ==
  ASSUME Types, NEW t \in Callers, MergeEnd(t), NEW g, g = op[t].obj
  PROVE  /\ op[t].pc = "link" /\ g \in Rows /\ OnlyOp(t) /\ op'[t] = Idle
         /\ UNCHANGED <<bitmap, workq, phase>>
         /\ OnlyRows({g}) /\ SameKind(row'[g], row[g]) /\ SameCount(row'[g], row[g])
         /\ SameLinks(row'[g], row[g]) /\ row'[g].spoiled = row[g].spoiled
         /\ row'[g].callbacks = row[g].callbacks /\ row'[g].payloads = row[g].payloads
         /\ IF row[g].remaining = 0
              THEN /\ row'[g].state = IF row[g].state \in Failures THEN row[g].state ELSE Success
                   /\ row'[g].done
              ELSE row'[g].state = row[g].state /\ row'[g].done = row[g].done
<1>1. op[t] \in OpType /\ op[t].pc = "link"
  BY DEF Types, MergeEnd
<1>2. g \in Rows
  BY <1>1 DEF OpType
<1>3. row[g] \in RowType
  BY <1>2 DEF Types
<1>4. OnlyOp(t) /\ op'[t] = Idle /\ UNCHANGED <<bitmap, workq, phase>>
  BY SetEffect DEF MergeEnd
<1>5. CASE row[g].remaining # 0
  <2>1. row' = row
    BY <1>5 DEF MergeEnd
  <2> QED
    BY <1>1, <1>2, <1>4, <1>5, <2>1
       DEF OnlyRows, SameKind, SameCount, SameLinks, SameWaiters
<1>6. CASE row[g].remaining = 0
  <2>1. PICK s : s = IF row[g].state \in Failures THEN row[g].state ELSE Success
    OBVIOUS
  <2>2. row' = [row EXCEPT ![g] = [row[g] EXCEPT !.state = s, !.done = TRUE]]
    BY <1>2, <1>6, <2>1 DEF MergeEnd, Types
  <2>3. row'[g] = [row[g] EXCEPT !.state = s, !.done = TRUE] /\ OnlyRows({g})
    BY <1>2, <2>2 DEF OnlyRows, Types
  <2>4. /\ SameKind(row'[g], row[g]) /\ SameCount(row'[g], row[g])
        /\ SameLinks(row'[g], row[g]) /\ row'[g].spoiled = row[g].spoiled
        /\ row'[g].callbacks = row[g].callbacks /\ row'[g].payloads = row[g].payloads
        /\ row'[g].state = s /\ row'[g].done
    BY <1>3, <2>3 DEF SameKind, SameCount, SameLinks, RowType
  <2> QED
    BY <1>1, <1>2, <1>4, <1>6, <2>1, <2>3, <2>4
<1> QED
  BY <1>5, <1>6

\* The undoing of a merge, and its end.
LEMMA UnlinkEffect ==
  ASSUME Types, NEW t \in Callers, NEW c \in Rows, UnlinkChild(t, c)
  PROVE  /\ op[t].pc = "undo" /\ op[t].obj \in Rows /\ UNCHANGED <<bitmap, workq, phase>>
         /\ OnlyRows({c}) /\ OnlyOp(t)
         /\ row'[c].parents = row[c].parents \ {op[t].obj} /\ row'[c].children = row[c].children
         /\ SameKind(row'[c], row[c]) /\ SameStatus(row'[c], row[c])
         /\ SameCount(row'[c], row[c]) /\ SameWaiters(row'[c], row[c])
         /\ op'[t].pc = "undo" /\ op'[t].obj = op[t].obj /\ op'[t].todo = op[t].todo \ {c}
<1>1. op[t] \in OpType /\ row[c] \in RowType /\ op[t].pc = "undo"
  BY DEF Types, UnlinkChild
<1>2. OnlyOp(t) /\ op'[t] = [op[t] EXCEPT !.todo = @ \ {c}] /\ UNCHANGED <<bitmap, workq, phase>>
  BY SetEffect DEF UnlinkChild
<1>3. row'[c] = [row[c] EXCEPT !.parents = @ \ {op[t].obj}] /\ OnlyRows({c})
  BY DEF UnlinkChild, Types, OnlyRows
<1>4. op'[t].pc = "undo" /\ op'[t].obj = op[t].obj /\ op'[t].todo = op[t].todo \ {c}
      /\ op[t].obj \in Rows
  BY <1>1, <1>2 DEF OpType
<1>5. /\ row'[c].parents = row[c].parents \ {op[t].obj} /\ row'[c].children = row[c].children
      /\ SameKind(row'[c], row[c]) /\ SameStatus(row'[c], row[c])
      /\ SameCount(row'[c], row[c]) /\ SameWaiters(row'[c], row[c])
  BY <1>1, <1>3 DEF SameKind, SameStatus, SameCount, SameWaiters, RowType
<1> QED
  BY <1>1, <1>2, <1>3, <1>4, <1>5

\* A merge that failed gives its row back.
LEMMA MergeFailsEffect ==
  ASSUME Types, NEW t \in Callers, MergeFails(t), NEW g, g = op[t].obj
  PROVE  /\ op[t].pc = "undo" /\ op[t].todo = {} /\ g \in Rows /\ OnlyOp(t) /\ op'[t] = Idle
         /\ bitmap' = bitmap \ {g} /\ UNCHANGED <<workq, phase>>
         /\ OnlyRows({g}) /\ SameKind(row'[g], row[g]) /\ SameStatus(row'[g], row[g])
         /\ SameCount(row'[g], row[g]) /\ SameWaiters(row'[g], row[g])
         /\ row'[g].parents = row[g].parents
<1>1. op[t] \in OpType /\ op[t].pc = "undo" /\ op[t].todo = {}
  BY DEF Types, MergeFails
<1>2. g \in Rows
  BY <1>1 DEF OpType
<1>3. row[g] \in RowType
  BY <1>2 DEF Types
<1>4. OnlyOp(t) /\ op'[t] = Idle /\ bitmap' = bitmap \ {g} /\ UNCHANGED <<workq, phase>>
  BY SetEffect DEF MergeFails
<1>5. row'[g] = [row[g] EXCEPT !.children = {}] /\ OnlyRows({g})
  BY <1>2 DEF MergeFails, Types, OnlyRows
<1>6. /\ SameKind(row'[g], row[g]) /\ SameStatus(row'[g], row[g])
      /\ SameCount(row'[g], row[g]) /\ SameWaiters(row'[g], row[g])
      /\ row'[g].parents = row[g].parents
  BY <1>3, <1>5 DEF SameKind, SameStatus, SameCount, SameWaiters, RowType
<1> QED
  BY <1>1, <1>2, <1>4, <1>5, <1>6

\* Nothing happens but to references and to who waits: who begins to wait
\* waits for an object that is not finally signaled.
QuietRows ==
  \A r \in Rows :
    /\ SameKind(row'[r], row[r]) /\ SameStatus(row'[r], row[r]) /\ SameCount(row'[r], row[r])
    /\ SameLinks(row'[r], row[r]) /\ row'[r].done = row[r].done
    /\ Done(r) \/ ~Unlocked(r) => /\ row'[r].callbacks \subseteq row[r].callbacks
                                  /\ row'[r].payloads \subseteq row[r].payloads

\* Steps that leave the rows alone are quiet.
LEMMA QuietSame ==
  ASSUME UNCHANGED row
  PROVE  QuietRows
BY DEF QuietRows, SameKind, SameStatus, SameCount, SameLinks

\* References, callbacks and payloads.
LEMMA QuietEffect ==
  ASSUME Types,
         \/ \E t \in Threads, r \in Rows : cam_sync_get_obj_ref(t, r)
         \/ \E t \in Threads : cam_sync_put_obj_ref(t)
         \/ \E r \in Rows, c \in Clients : \/ cam_sync_register_callback(c, r)
                                           \/ cam_sync_deregister_callback(c, r)
         \/ \E r \in Rows, p \in Payloads : RegisterPayload(p, r) \/ DeregisterPayload(p, r)
         \/ \E e \in workq : RunCallback(e)
  PROVE  QuietRows /\ UNCHANGED <<bitmap, op, phase>>
<1>0. UNCHANGED <<bitmap, op, phase>>
  BY DEF cam_sync_get_obj_ref, cam_sync_put_obj_ref, cam_sync_register_callback,
         cam_sync_deregister_callback, RegisterPayload, DeregisterPayload, RunCallback
<1>1. ASSUME NEW r \in Rows, NEW n, row' = [row EXCEPT ![r].ref_cnt = n]
      PROVE  QuietRows
  <2> SUFFICES ASSUME NEW q \in Rows
               PROVE  /\ SameKind(row'[q], row[q]) /\ SameStatus(row'[q], row[q])
                      /\ SameCount(row'[q], row[q]) /\ SameLinks(row'[q], row[q])
                      /\ SameWaiters(row'[q], row[q])
    BY DEF QuietRows, SameWaiters
  <2>1. row[q] \in RowType
    BY DEF Types
  <2>2. row'[q] = row[q] \/ row'[q] = [row[q] EXCEPT !.ref_cnt = n]
    BY <1>1 DEF Types
  <2> QED
    BY <2>1, <2>2 DEF SameKind, SameStatus, SameCount, SameLinks, SameWaiters, RowType
<1>2. ASSUME NEW r \in Rows, NEW C, row' = [row EXCEPT ![r].callbacks = C],
             (~Done(r) /\ Unlocked(r)) \/ C \subseteq row[r].callbacks
      PROVE  QuietRows
  <2> SUFFICES ASSUME NEW q \in Rows
               PROVE  /\ SameKind(row'[q], row[q]) /\ SameStatus(row'[q], row[q])
                      /\ SameCount(row'[q], row[q]) /\ SameLinks(row'[q], row[q])
                      /\ row'[q].done = row[q].done /\ row'[q].payloads = row[q].payloads
                      /\ row'[q].callbacks = IF q = r THEN C ELSE row[q].callbacks
    BY <1>2 DEF QuietRows
  <2>1. row[q] \in RowType
    BY DEF Types
  <2>2. row'[q] = IF q = r THEN [row[q] EXCEPT !.callbacks = C] ELSE row[q]
    BY <1>2 DEF Types
  <2> QED
    BY <2>1, <2>2 DEF SameKind, SameStatus, SameCount, SameLinks, RowType
<1>3. ASSUME NEW r \in Rows, NEW P, row' = [row EXCEPT ![r].payloads = P],
             (~Done(r) /\ Unlocked(r)) \/ P \subseteq row[r].payloads
      PROVE  QuietRows
  <2> SUFFICES ASSUME NEW q \in Rows
               PROVE  /\ SameKind(row'[q], row[q]) /\ SameStatus(row'[q], row[q])
                      /\ SameCount(row'[q], row[q]) /\ SameLinks(row'[q], row[q])
                      /\ row'[q].done = row[q].done /\ row'[q].callbacks = row[q].callbacks
                      /\ row'[q].payloads = IF q = r THEN P ELSE row[q].payloads
    BY <1>3 DEF QuietRows
  <2>1. row[q] \in RowType
    BY DEF Types
  <2>2. row'[q] = IF q = r THEN [row[q] EXCEPT !.payloads = P] ELSE row[q]
    BY <1>3 DEF Types
  <2> QED
    BY <2>1, <2>2 DEF SameKind, SameStatus, SameCount, SameLinks, RowType
<1>4. CASE \E t \in Threads, r \in Rows : cam_sync_get_obj_ref(t, r)
  BY <1>0, <1>1, <1>4 DEF cam_sync_get_obj_ref
<1>5. CASE \E t \in Threads : cam_sync_put_obj_ref(t)
  <2>1. PICK t \in Threads : cam_sync_put_obj_ref(t)
    BY <1>5
  <2>2. holds[t] \in Rows
    BY <2>1 DEF cam_sync_put_obj_ref, Types
  <2> QED
    BY <1>0, <1>1, <2>1, <2>2 DEF cam_sync_put_obj_ref
<1>6. ASSUME NEW r \in Rows, NEW c \in Clients,
             cam_sync_register_callback(c, r) \/ cam_sync_deregister_callback(c, r)
      PROVE  QuietRows
  <2>1. CASE cam_sync_register_callback(c, r)
    BY <1>2, <2>1, QuietSame DEF cam_sync_register_callback, CallAtOnce
  <2>2. CASE cam_sync_deregister_callback(c, r)
    BY <1>2, <2>2 DEF cam_sync_deregister_callback
  <2> QED
    BY <1>6, <2>1, <2>2
<1>7. ASSUME NEW r \in Rows, NEW p \in Payloads,
             RegisterPayload(p, r) \/ DeregisterPayload(p, r)
      PROVE  QuietRows
  <2>1. CASE RegisterPayload(p, r)
    BY <1>3, <2>1, QuietSame DEF RegisterPayload, Done
  <2>2. CASE DeregisterPayload(p, r)
    BY <1>3, <2>2 DEF DeregisterPayload
  <2> QED
    BY <1>7, <2>1, <2>2
<1>8. CASE \E e \in workq : RunCallback(e)
  BY <1>8, QuietSame DEF RunCallback
<1> QED
  BY <1>0, <1>4, <1>5, <1>6, <1>7, <1>8

\* The last reference of an object signals it.
SignalsRow(t, r, status) ==
  /\ row[r].state = Active /\ row[r].type = "indv"
  /\ OnlyRows({r}) /\ OnlyOp(t)
  /\ row'[r].state = status /\ row'[r].spoiled = row[r].spoiled
  /\ SameKind(row'[r], row[r]) /\ SameCount(row'[r], row[r])
  /\ row'[r].parents = {} /\ row'[r].children = row[r].children
  /\ row'[r].callbacks = {} /\ row'[r].payloads = {} /\ row'[r].done
  /\ IF row[r].parents = {} THEN op'[t] = Idle
     ELSE op'[t].pc = "tell" /\ op'[t].todo = row[r].parents /\ op'[t].status = status
  /\ workq' = workq \cup {Call(c, r, status) : c \in row[r].callbacks}

\* cam_sync_signal of one row
LEMMA SignalEffect ==
  ASSUME Types, NEW t \in Callers, NEW r \in Rows, NEW status \in {Success} \cup Failures,
         SignalRow(t, r, status)
  PROVE  \/ QuietRows /\ UNCHANGED <<op, workq>>
         \/ SignalsRow(t, r, status)
<1>1. row[r] \in RowType /\ status # Invalid
  BY Names DEF Types
<1>2. CASE row[r].state # Active \/ row[r].type = "group"
  BY <1>2, QuietSame DEF SignalRow
<1>3. CASE ~(row[r].state # Active \/ row[r].type = "group") /\ row[r].ref_cnt # 1
  <2>1. row' = [row EXCEPT ![r].ref_cnt = @ - 1] /\ UNCHANGED <<op, workq>>
    BY <1>3 DEF SignalRow
  <2>2. ASSUME NEW q \in Rows
        PROVE  /\ SameKind(row'[q], row[q]) /\ SameStatus(row'[q], row[q])
               /\ SameCount(row'[q], row[q]) /\ SameLinks(row'[q], row[q])
               /\ SameWaiters(row'[q], row[q])
    <3>1. row[q] \in RowType
      BY DEF Types
    <3>2. row'[q] = row[q] \/ row'[q] = [row[q] EXCEPT !.ref_cnt = @ - 1]
      BY <2>1 DEF Types
    <3> QED
      BY <3>1, <3>2 DEF SameKind, SameStatus, SameCount, SameLinks, SameWaiters, RowType
  <2>3. QuietRows
    BY <2>2 DEF QuietRows, SameWaiters
  <2> QED
    BY <2>1, <2>3
<1>4. CASE ~(row[r].state # Active \/ row[r].type = "group") /\ row[r].ref_cnt = 1
  <2>1. PICK new : new = Signaled(row[r], status)
    OBVIOUS
  <2>2. /\ new.state = status /\ new.spoiled = row[r].spoiled /\ new.type = row[r].type
        /\ new.remaining = row[r].remaining /\ new.orphaned = row[r].orphaned
        /\ new.parents = {} /\ new.children = row[r].children
        /\ new.callbacks = row[r].callbacks
        /\ [new EXCEPT !.callbacks = {}, !.payloads = {}, !.done = TRUE].callbacks = {}
    BY <1>1, <2>1 DEF Signaled, RowType
  <2>3. /\ row' = [row EXCEPT ![r] = [new EXCEPT !.callbacks = {}, !.payloads = {}, !.done = TRUE]]
        /\ workq' = workq \cup {Call(c, r, status) : c \in row[r].callbacks}
    BY <1>1, <1>4, <2>1, <2>2 DEF SignalRow, Update
  <2>4. /\ row'[r] = [new EXCEPT !.callbacks = {}, !.payloads = {}, !.done = TRUE]
        /\ OnlyRows({r})
    BY <2>3 DEF Types, OnlyRows
  <2>5. new \in RowType
    <3>1. [row[r] EXCEPT !.ref_cnt = 0] \in RowType
      BY <1>1 DEF RowType
    <3> QED
      BY <1>1, <2>1, <3>1, Names DEF Signaled, RowType
  <2>6. /\ row'[r].state = status /\ row'[r].spoiled = row[r].spoiled
        /\ SameKind(row'[r], row[r]) /\ SameCount(row'[r], row[r])
        /\ row'[r].parents = {} /\ row'[r].children = row[r].children
        /\ row'[r].callbacks = {} /\ row'[r].payloads = {} /\ row'[r].done
    BY <2>2, <2>4, <2>5 DEF SameKind, SameCount, RowType
  <2>7. PICK o : o = [Idle EXCEPT !.pc = "tell", !.todo = row[r].parents, !.status = status]
    OBVIOUS
  <2>8. o.pc = "tell" /\ o.todo = row[r].parents /\ o.status = status
    BY <2>7 DEF Idle
  <2>9. Continue(t, o)
    BY <1>4, <2>7 DEF SignalRow
  <2>10. OnlyOp(t) /\ op'[t] = IF o.todo = {} THEN Idle ELSE o
    BY <2>9, SetEffect DEF Continue
  <2> QED
    BY <1>1, <1>4, <2>3, <2>4, <2>6, <2>8, <2>10 DEF SignalsRow, RowType
<1> QED
  BY <1>2, <1>3, <1>4

\* One parent is told of a signal.
LEMMA TellEffect ==
  ASSUME Types, NEW t \in Callers, NEW p \in Rows, TellParent(t, p)
  PROVE  /\ op[t].pc = "tell" /\ p \in op[t].todo /\ Unlocked(p) /\ UNCHANGED <<bitmap, phase>>
         /\ OnlyRows({p}) /\ OnlyOp(t)
         /\ row'[p].remaining = row[p].remaining - 1 /\ row'[p].orphaned = row[p].orphaned
         /\ row'[p].state = UpdateParentState(row[p].state, op[t].status)
         /\ row'[p].spoiled <=> row[p].spoiled \/ (Valid(p) /\ op[t].status \in Failures)
         /\ SameKind(row'[p], row[p]) /\ SameLinks(row'[p], row[p])
         /\ IF row'[p].remaining = 0 /\ row'[p].state # Invalid
              THEN /\ row'[p].callbacks = {} /\ row'[p].payloads = {} /\ row'[p].done
                   /\ workq' = workq \cup {Call(c, p, row'[p].state) : c \in row[p].callbacks}
              ELSE SameWaiters(row'[p], row[p]) /\ UNCHANGED workq
         /\ IF op[t].todo = {p} THEN op'[t] = Idle
            ELSE op'[t].pc = "tell" /\ op'[t].todo = op[t].todo \ {p} /\ op'[t].status = op[t].status
<1>1. op[t] \in OpType /\ row[p] \in RowType
  BY DEF Types
<1>2. PICK s \in States : s = UpdateParentState(row[p].state, op[t].status)
  BY <1>1 DEF RowType, OpType, UpdateParentState
<1>3. PICK z \in BOOLEAN : z = (row[p].spoiled \/ (row[p].state # Invalid /\ op[t].status \in Failures))
  OBVIOUS
<1>4. PICK n \in Int : n = row[p].remaining - 1
  BY <1>1 DEF RowType
<1>5. PICK new : new = [row[p] EXCEPT !.remaining = n, !.state = s, !.spoiled = z]
  OBVIOUS
<1>6. new = [row[p] EXCEPT
                !.remaining = @ - 1,
                !.state = UpdateParentState(@, op[t].status),
                !.spoiled = @ \/ (row[p].state # Invalid /\ op[t].status \in Failures)]
  BY <1>2, <1>3, <1>4, <1>5
<1>7. new \in RowType
  BY <1>1, <1>5 DEF RowType
<1>8. /\ new.remaining = n /\ new.orphaned = row[p].orphaned /\ new.state = s /\ new.spoiled = z
      /\ new.type = row[p].type /\ new.parents = row[p].parents /\ new.children = row[p].children
      /\ new.callbacks = row[p].callbacks /\ new.payloads = row[p].payloads
      /\ new.done = row[p].done
  BY <1>1, <1>5 DEF RowType
<1>9. Update(p, new, NoneRemains(new)) /\ Continue(t, [op[t] EXCEPT !.todo = @ \ {p}])
  BY <1>6 DEF TellParent
<1>10. /\ op[t].pc = "tell" /\ p \in op[t].todo /\ Unlocked(p) /\ UNCHANGED <<bitmap, phase>>
  BY DEF TellParent
<1>11. PICK o : o = [op[t] EXCEPT !.todo = @ \ {p}]
  OBVIOUS
<1>12. o.pc = "tell" /\ o.todo = op[t].todo \ {p} /\ o.status = op[t].status
  BY <1>1, <1>10, <1>11 DEF OpType
<1>13. OnlyOp(t) /\ op'[t] = IF o.todo = {} THEN Idle ELSE o
  BY <1>9, <1>11, SetEffect DEF Continue
<1>14. IF op[t].todo = {p} THEN op'[t] = Idle
       ELSE op'[t].pc = "tell" /\ op'[t].todo = op[t].todo \ {p} /\ op'[t].status = op[t].status
  BY <1>10, <1>12, <1>13
<1>15. PICK told \in BOOLEAN : told = (n = 0 /\ s # Invalid)
  OBVIOUS
<1>16. row' = [row EXCEPT ![p] = IF told
                                   THEN [new EXCEPT !.callbacks = {}, !.payloads = {}, !.done = TRUE]
                                   ELSE new]
       /\ workq' = workq \cup {Call(c, p, new.state) : c \in IF told THEN new.callbacks ELSE {}}
  BY <1>8, <1>9, <1>15 DEF Update, NoneRemains
<1>17. OnlyRows({p})
  BY <1>16 DEF OnlyRows, Types
<1>18. CASE told
  <2>1. row'[p] = [new EXCEPT !.callbacks = {}, !.payloads = {}, !.done = TRUE]
    BY <1>16, <1>18 DEF Types
  <2>2. /\ row'[p].remaining = n /\ row'[p].orphaned = row[p].orphaned
        /\ row'[p].state = s /\ row'[p].spoiled = z
        /\ SameKind(row'[p], row[p]) /\ SameLinks(row'[p], row[p])
        /\ row'[p].callbacks = {} /\ row'[p].payloads = {} /\ row'[p].done
    BY <1>7, <1>8, <2>1 DEF SameKind, SameLinks, RowType
  <2>3. workq' = workq \cup {Call(c, p, s) : c \in row[p].callbacks}
    BY <1>8, <1>16, <1>18
  <2> QED
    BY <1>2, <1>3, <1>4, <1>10, <1>13, <1>14, <1>15, <1>17, <1>18, <2>2, <2>3, ZenonT(60) DEF Valid
<1>19. CASE ~told
  <2>1. row'[p] = new /\ workq' = workq
    BY <1>16, <1>19 DEF Types
  <2>2. /\ row'[p].remaining = n /\ row'[p].orphaned = row[p].orphaned
        /\ row'[p].state = s /\ row'[p].spoiled = z
        /\ SameKind(row'[p], row[p]) /\ SameLinks(row'[p], row[p])
        /\ SameWaiters(row'[p], row[p])
    BY <1>8, <2>1 DEF SameKind, SameLinks, SameWaiters
  <2> QED
    BY <1>2, <1>3, <1>4, <1>10, <1>13, <1>14, <1>15, <1>17, <1>19, <2>1, <2>2 DEF Valid
<1> QED
  BY <1>18, <1>19

\* An object is destroyed: its row is invalid, its groups lose a child.
LEMMA DeinitEffect ==
  ASSUME Types, NEW t \in Callers, NEW r \in Rows, DeinitBegin(t, r)
  PROVE  /\ Valid(r) /\ OnlyOp(t)
         /\ op'[t].pc = "deinit" /\ op'[t].obj = r /\ op'[t].todo = row[r].children
         /\ row'[r].state = Invalid /\ row'[r].parents = {} /\ SameKind(row'[r], row[r])
         /\ SameCount(row'[r], row[r])
         /\ \A q \in Rows \ {r} :
              /\ SameKind(row'[q], row[q]) /\ SameStatus(row'[q], row[q])
              /\ SameLinks(row'[q], row[q]) /\ SameWaiters(row'[q], row[q])
              /\ row'[q].remaining = row[q].remaining
              /\ row'[q].orphaned = IF q \in row[r].parents THEN row[q].orphaned + 1
                                    ELSE row[q].orphaned
<1>1. row[r] \in RowType /\ Valid(r)
  BY DEF Types, DeinitBegin
<1>2. PICK o : o = [Idle EXCEPT !.pc = "deinit", !.obj = r,
                                !.todo = row[r].children, !.seen = row[r].parents]
  OBVIOUS
<1>3. o.pc = "deinit" /\ o.obj = r /\ o.todo = row[r].children
  BY <1>2 DEF Idle
<1>4. OnlyOp(t) /\ op'[t] = o
  BY <1>2, SetEffect DEF DeinitBegin
<1>5. row'[r] = [row[r] EXCEPT !.state = Invalid, !.children = {}, !.parents = {}]
  BY DEF DeinitBegin
<1>6. /\ row'[r].state = Invalid /\ row'[r].parents = {} /\ SameKind(row'[r], row[r])
      /\ SameCount(row'[r], row[r])
  BY <1>1, <1>5 DEF RowType, SameKind, SameCount
<1>7. ASSUME NEW q \in Rows \ {r}
      PROVE  /\ SameKind(row'[q], row[q]) /\ SameStatus(row'[q], row[q])
             /\ SameLinks(row'[q], row[q]) /\ SameWaiters(row'[q], row[q])
             /\ row'[q].remaining = row[q].remaining
             /\ row'[q].orphaned = IF q \in row[r].parents THEN row[q].orphaned + 1
                                   ELSE row[q].orphaned
  <2>1. row[q] \in RowType
    BY DEF Types
  <2>2. row'[q] = IF q \in row[r].parents THEN [row[q] EXCEPT !.orphaned = @ + 1] ELSE row[q]
    BY DEF DeinitBegin
  <2> QED
    BY <2>1, <2>2 DEF SameKind, SameStatus, SameLinks, SameWaiters, RowType
<1> QED
  BY <1>1, <1>3, <1>4, <1>6, <1>7

\* The children of the group that goes lose their parent.
LEMMA UnlinkFromChildEffect ==
  ASSUME Types, NEW t \in Callers, NEW c \in Rows, UnlinkFromChild(t, c)
  PROVE  /\ op[t].pc = "deinit" /\ op[t].obj \in Rows /\ UNCHANGED <<bitmap, workq, phase>>
         /\ OnlyRows({c}) /\ OnlyOp(t)
         /\ row'[c].parents = IF Valid(c) THEN row[c].parents \ {op[t].obj} ELSE row[c].parents
         /\ row'[c].children = row[c].children
         /\ SameKind(row'[c], row[c]) /\ SameStatus(row'[c], row[c])
         /\ SameCount(row'[c], row[c]) /\ SameWaiters(row'[c], row[c])
         /\ op'[t].pc = "deinit" /\ op'[t].obj = op[t].obj /\ op'[t].todo = op[t].todo \ {c}
<1>1. op[t] \in OpType /\ row[c] \in RowType /\ op[t].pc = "deinit"
  BY DEF Types, UnlinkFromChild
<1>2. OnlyOp(t) /\ op'[t] = [op[t] EXCEPT !.todo = @ \ {c}] /\ UNCHANGED <<bitmap, workq, phase>>
  BY SetEffect DEF UnlinkFromChild
<1>3. PICK P : P = IF Valid(c) THEN row[c].parents \ {op[t].obj} ELSE row[c].parents
  OBVIOUS
<1>4. row'[c] = [row[c] EXCEPT !.parents = P] /\ OnlyRows({c})
  BY <1>3 DEF UnlinkFromChild, Types, OnlyRows
<1>5. op'[t].pc = "deinit" /\ op'[t].obj = op[t].obj /\ op'[t].todo = op[t].todo \ {c}
      /\ op[t].obj \in Rows
  BY <1>1, <1>2 DEF OpType
<1>6. /\ row'[c].parents = P /\ row'[c].children = row[c].children
      /\ SameKind(row'[c], row[c]) /\ SameStatus(row'[c], row[c])
      /\ SameCount(row'[c], row[c]) /\ SameWaiters(row'[c], row[c])
  BY <1>1, <1>4 DEF SameKind, SameStatus, SameCount, SameWaiters, RowType
<1> QED
  BY <1>1, <1>2, <1>3, <1>4, <1>5, <1>6

\* The groups of the child that goes lose it.
LEMMA UnlinkFromParentEffect ==
  ASSUME Types, NEW t \in Callers, NEW p \in Rows, UnlinkFromParent(t, p)
  PROVE  /\ op[t].pc = "deinit" /\ op[t].todo = {} /\ op[t].obj \in Rows
         /\ UNCHANGED <<bitmap, workq, phase>>
         /\ OnlyRows({p}) /\ OnlyOp(t)
         /\ row'[p].children = IF Valid(p) THEN row[p].children \ {op[t].obj} ELSE row[p].children
         /\ row'[p].parents = row[p].parents
         /\ SameKind(row'[p], row[p]) /\ SameStatus(row'[p], row[p])
         /\ SameCount(row'[p], row[p]) /\ SameWaiters(row'[p], row[p])
         /\ op'[t].pc = "deinit" /\ op'[t].obj = op[t].obj /\ op'[t].todo = {}
<1>1. op[t] \in OpType /\ row[p] \in RowType /\ op[t].pc = "deinit" /\ op[t].todo = {}
  BY DEF Types, UnlinkFromParent
<1>2. OnlyOp(t) /\ op'[t] = [op[t] EXCEPT !.seen = @ \ {p}] /\ UNCHANGED <<bitmap, workq, phase>>
  BY SetEffect DEF UnlinkFromParent
<1>3. PICK C : C = IF Valid(p) THEN row[p].children \ {op[t].obj} ELSE row[p].children
  OBVIOUS
<1>4. row'[p] = [row[p] EXCEPT !.children = C] /\ OnlyRows({p})
  BY <1>3 DEF UnlinkFromParent, Types, OnlyRows
<1>5. op'[t].pc = "deinit" /\ op'[t].obj = op[t].obj /\ op'[t].todo = {}
      /\ op[t].obj \in Rows
  BY <1>1, <1>2 DEF OpType
<1>6. /\ row'[p].children = C /\ row'[p].parents = row[p].parents
      /\ SameKind(row'[p], row[p]) /\ SameStatus(row'[p], row[p])
      /\ SameCount(row'[p], row[p]) /\ SameWaiters(row'[p], row[p])
  BY <1>1, <1>4 DEF SameKind, SameStatus, SameCount, SameWaiters, RowType
<1> QED
  BY <1>1, <1>2, <1>3, <1>4, <1>5, <1>6

\* The row of a destroyed object is cleared and free.
LEMMA DeinitEndEffect ==
  ASSUME Types, NEW t \in Callers, DeinitEnd(t), NEW g, g = op[t].obj
  PROVE  /\ op[t].pc = "deinit" /\ op[t].todo = {} /\ g \in Rows
         /\ bitmap' = bitmap \ {g} /\ UNCHANGED <<workq, phase>>
         /\ OnlyRows({g}) /\ OnlyOp(t) /\ op'[t] = Idle
         /\ row'[g].state = Invalid /\ row'[g].parents = {} /\ row'[g].type = "indv"
<1>1. op[t] \in OpType /\ op[t].pc = "deinit" /\ op[t].todo = {}
  BY DEF Types, DeinitEnd
<1>2. g \in Rows
  BY <1>1 DEF OpType
<1>3. row'[g] = Zero /\ OnlyRows({g})
  BY <1>2 DEF DeinitEnd, Types, OnlyRows
<1>4. OnlyOp(t) /\ op'[t] = Idle /\ bitmap' = bitmap \ {g} /\ UNCHANGED <<workq, phase>>
  BY SetEffect DEF DeinitEnd
<1> QED
  BY <1>1, <1>2, <1>3, <1>4 DEF Zero

-----------------------------------------------------------------------------
(* Who owns a row. *)

Owner(t) == op[t].pc \in {"link", "undo", "deinit"}

\* A call that fills or clears a row owns it: the row is in use, no other call
\* owns it, and it is invalid from the moment on that it is to go.  No call
\* fills or clears a row while the device is closed, but the close itself.
Owned ==
  /\ \A r \in Rows : Valid(r) => r \in bitmap
  /\ \A t \in Callers : Owner(t) => op[t].obj \in bitmap
  /\ \A t, s \in Callers : Owner(t) /\ Owner(s) /\ op[t].obj = op[s].obj => t = s
  /\ \A t \in Callers : op[t].pc \in {"undo", "deinit"} => ~Valid(op[t].obj)
  /\ \A t \in Callers : op[t].pc = "link" => Valid(op[t].obj) /\ row[op[t].obj].type = "group"
  /\ phase # "open" => \A t \in Threads : op[t].pc \in {"idle", "tell"}
  /\ \A t \in Callers : op[t].pc = "tell" => IsSignaled(op[t].status)

\* No call owns a row at the start.
LEMMA OwnedInit == Init => Owned
BY Names DEF Init, Owned, Owner, Idle, Zero, Valid

\* A step that owns nothing anew.
LEMMA OwnedKept ==
  ASSUME Types, Owned, UNCHANGED bitmap,
         \A r \in Rows : (Valid(r)' <=> Valid(r)) /\ row'[r].type = row[r].type,
         NEW t \in Callers, OnlyOp(t),
         \/ op'[t] = op[t]
         \/ op'[t] = Idle
         \/ op'[t].pc = "tell" /\ IsSignaled(op'[t].status)
         \/ op'[t].pc = op[t].pc /\ op'[t].obj = op[t].obj /\ op[t].pc \in {"link", "undo", "deinit"},
         UNCHANGED phase \/ phase' = "open" \/ \A s \in Threads : op[s].pc \in {"idle", "tell"}
  PROVE  Owned'
<1>1. Idle.pc = "idle"
  BY DEF Idle
<1>2. \A s \in Callers : Owner(s) => op[s].obj \in Rows
  BY DEF Types, OpType, Owner
<1>3. \A s \in Callers : Owner(s)' => Owner(s) /\ op'[s].obj = op[s].obj /\ op'[s].pc = op[s].pc
  BY <1>1 DEF Owner, OnlyOp
<1>4. \A s \in Callers : op'[s].pc = "tell" => IsSignaled(op'[s].status)
  BY <1>1 DEF Owned, OnlyOp
<1>5. phase' # "open" => \A s \in Threads : op'[s].pc \in {"idle", "tell"}
  <2> SUFFICES ASSUME phase' # "open", NEW s \in Threads PROVE op'[s].pc \in {"idle", "tell"}
    OBVIOUS
  <2>1. op[s].pc \in {"idle", "tell"} /\ s \in Callers
    BY Names DEF Owned
  <2> QED
    BY <1>1, <2>1 DEF OnlyOp
<1>6. \A s \in Callers : Owner(s)' => op'[s].obj \in bitmap'
  BY <1>3 DEF Owned
<1>7. \A s, u \in Callers : Owner(s)' /\ Owner(u)' /\ op'[s].obj = op'[u].obj => s = u
  BY <1>3 DEF Owned
<1>8. \A s \in Callers : op'[s].pc \in {"undo", "deinit"} => ~Valid(op[s].obj)'
  <2> SUFFICES ASSUME NEW s \in Callers, op'[s].pc \in {"undo", "deinit"}
               PROVE  row'[op'[s].obj].state = Invalid
    BY DEF Valid
  <2>1. op'[s].obj = op[s].obj /\ op[s].pc \in {"undo", "deinit"} /\ op[s].obj \in Rows
    BY <1>2, <1>3 DEF Owner
  <2> QED
    BY <2>1 DEF Owned, Valid
<1>9. \A s \in Callers : op'[s].pc = "link" => Valid(op[s].obj)' /\ row'[op'[s].obj].type = "group"
  <2> SUFFICES ASSUME NEW s \in Callers, op'[s].pc = "link"
               PROVE  row'[op'[s].obj].state # Invalid /\ row'[op'[s].obj].type = "group"
    BY DEF Valid
  <2>1. op'[s].obj = op[s].obj /\ op[s].pc = "link" /\ op[s].obj \in Rows
    BY <1>2, <1>3 DEF Owner
  <2> QED
    BY <2>1 DEF Owned, Valid
<1>10. \A r \in Rows : Valid(r)' => r \in bitmap'
  BY DEF Owned
<1> QED
  BY <1>4, <1>5, <1>6, <1>7, <1>8, <1>9, <1>10 DEF Owned

\* A row is taken: nobody owned it.
LEMMA OwnedTake ==
  ASSUME Types, Owned, NEW type \in {"indv", "group"}, TakeRow(type), phase = "open", UNCHANGED phase,
         NEW t \in Callers,
         \/ UNCHANGED op
         \/ /\ type = "group" /\ OnlyOp(t)
            /\ op'[t].pc = "link" /\ op'[t].obj = FirstFree
  PROVE  Owned'
<1>1. PICK f : f = FirstFree
  OBVIOUS
<1>2. /\ f \in Rows /\ f \notin bitmap /\ bitmap' = bitmap \cup {f} /\ OnlyRows({f})
      /\ row'[f].type = type /\ row'[f].state = Active
  BY <1>1, TakeEffect
<1>3. \A s \in Callers : Owner(s) => op[s].obj \in bitmap /\ op[s].obj \in Rows /\ op[s].obj # f
  BY <1>2 DEF Owned, Types
<1>4. \A r \in Rows : Valid(r)' => r \in bitmap'
  BY <1>2 DEF Owned, Valid, OnlyRows
<1>5. \A q \in Rows \ {f} : row'[q] = row[q]
  BY <1>2 DEF OnlyRows
<1>6. CASE UNCHANGED op
  <2>1. \A s \in Callers : Owner(s)' <=> Owner(s)
    BY <1>6 DEF Owner
  <2>2. \A s \in Callers : op[s].pc \in {"undo", "deinit"} => ~Valid(op[s].obj)'
    BY <1>3, <1>5, <1>6 DEF Owned, Owner, Valid
  <2>3. \A s \in Callers : op[s].pc = "link" => Valid(op[s].obj)' /\ row'[op[s].obj].type = "group"
    BY <1>3, <1>5, <1>6 DEF Owned, Owner, Valid
  <2> QED
    BY <1>2, <1>3, <1>4, <1>6, <2>1, <2>2, <2>3 DEF Owned
<1>7. CASE /\ type = "group" /\ OnlyOp(t) /\ op'[t].pc = "link" /\ op'[t].obj = f
  <2>1. \A s \in Callers \ {t} : op'[s] = op[s]
    BY <1>7 DEF OnlyOp
  <2>2. \A s \in Callers \ {t} : Owner(s)' <=> Owner(s)
    BY <2>1 DEF Owner
  <2>3. \A s \in Callers : op'[s].pc \in {"undo", "deinit"} => row'[op'[s].obj].state = Invalid
    BY <1>3, <1>5, <1>7, <2>1 DEF Owned, Owner, Valid
  <2>4. \A s \in Callers : op'[s].pc = "link" => row'[op'[s].obj].state # Invalid /\ row'[op'[s].obj].type = "group"
    <3> SUFFICES ASSUME NEW s \in Callers, op'[s].pc = "link"
                 PROVE  row'[op'[s].obj].state # Invalid /\ row'[op'[s].obj].type = "group"
      OBVIOUS
    <3>1. CASE s = t
      BY <1>2, <1>7, <3>1, Names
    <3>2. CASE s # t
      <4>1. op'[s] = op[s]
        BY <2>1, <3>2
      <4>2. op[s].obj \in Rows /\ op[s].obj # f
        BY <1>3, <4>1 DEF Owner
      <4> QED
        BY <1>5, <4>1, <4>2 DEF Owned, Valid
    <3> QED
      BY <3>1, <3>2
  <2>5. \A s \in Callers : Owner(s)' => op'[s].obj \in bitmap'
    BY <1>2, <1>3, <1>7, <2>1, <2>2
  <2>6. \A s, u \in Callers : Owner(s)' /\ Owner(u)' /\ op'[s].obj = op'[u].obj => s = u
    BY <1>3, <1>7, <2>1, <2>2 DEF Owned
  <2>7. \A s \in Callers : op'[s].pc = "tell" => IsSignaled(op'[s].status)
    BY <1>7, <2>1 DEF Owned
  <2> QED
    BY <1>4, <2>3, <2>4, <2>5, <2>6, <2>7 DEF Owned, Valid
<1> QED
  BY <1>1, <1>6, <1>7

\* An object is destroyed that nobody owns.
LEMMA OwnedDeinit ==
  ASSUME Types, Owned, NEW t \in Callers, NEW r \in Rows, DeinitBegin(t, r), UNCHANGED <<bitmap, phase>>,
         \A s \in Callers : op[s].pc = "link" => op[s].obj # r,
         phase = "open" \/ t = Closer
  PROVE  Owned'
<1>1. /\ Valid(r) /\ OnlyOp(t) /\ op'[t].pc = "deinit" /\ op'[t].obj = r
      /\ row'[r].state = Invalid
      /\ \A q \in Rows \ {r} : row'[q].state = row[q].state /\ row'[q].type = row[q].type
  BY DeinitEffect DEF SameKind, SameStatus
<1>2. \A s \in Callers : Owner(s) => op[s].obj \in bitmap /\ op[s].obj \in Rows /\ op[s].obj # r
  BY <1>1 DEF Owned, Owner, Types
<1>3. \A s \in Callers \ {t} : op'[s] = op[s]
  BY <1>1 DEF OnlyOp
<1>4. \A s \in Callers \ {t} : Owner(s)' <=> Owner(s)
  BY <1>3 DEF Owner
<1>5. \A q \in Rows : Valid(q)' => q \in bitmap'
  BY <1>1 DEF Owned, Valid
<1>6. \A s \in Callers : op'[s].pc \in {"undo", "deinit"} => row'[op'[s].obj].state = Invalid
  BY <1>1, <1>2, <1>3 DEF Owned, Owner, Valid
<1>7. \A s \in Callers : op'[s].pc = "link" => row'[op'[s].obj].state # Invalid /\ row'[op'[s].obj].type = "group"
  BY <1>1, <1>2, <1>3 DEF Owned, Owner, Valid
<1>8. \A s \in Callers : Owner(s)' => op'[s].obj \in bitmap'
  BY <1>1, <1>2, <1>3, <1>4 DEF Owned
<1>9. \A s, u \in Callers : Owner(s)' /\ Owner(u)' /\ op'[s].obj = op'[u].obj => s = u
  BY <1>1, <1>2, <1>3, <1>4 DEF Owned
<1>10. \A s \in Callers : op'[s].pc = "tell" => IsSignaled(op'[s].status)
  BY <1>1, <1>3 DEF Owned
<1>11. phase' # "open" => \A s \in Threads : op'[s].pc \in {"idle", "tell"}
  BY <1>3, Names DEF Owned
<1> QED
  BY <1>5, <1>6, <1>7, <1>8, <1>9, <1>10, <1>11 DEF Owned, Valid

\* The row of a call that owns it becomes free, or the merge that owns it
\* fails: nobody else owns it.
LEMMA OwnedGone ==
  ASSUME Types, Owned, NEW t \in Callers, Owner(t), NEW g \in Rows, g = op[t].obj,
         OnlyRows({g}), OnlyOp(t), row'[g].state = Invalid, UNCHANGED phase, phase = "open" \/ t = Closer,
         \/ bitmap' = bitmap \ {g} /\ op'[t] = Idle
         \/ bitmap' = bitmap /\ op'[t].pc = "undo" /\ op'[t].obj = g
  PROVE  Owned'
<1>1. \A s \in Callers \ {t} : Owner(s) => op[s].obj \in bitmap /\ op[s].obj \in Rows /\ op[s].obj # g
  BY DEF Owned, Types
<1>2. \A s \in Callers \ {t} : op'[s] = op[s]
  BY DEF OnlyOp
<1>3. \A s \in Callers \ {t} : Owner(s)' <=> Owner(s)
  BY <1>2 DEF Owner
<1>4. \A q \in Rows \ {g} : row'[q] = row[q]
  BY DEF OnlyRows
<1>5. Idle.pc = "idle"
  BY DEF Idle
<1>6. \A q \in Rows : Valid(q)' => q \in bitmap'
  BY <1>4 DEF Owned, Valid
<1>7. \A s \in Callers : op'[s].pc \in {"undo", "deinit"} => row'[op'[s].obj].state = Invalid
  BY <1>1, <1>2, <1>4, <1>5 DEF Owned, Owner, Valid
<1>8. \A s \in Callers : op'[s].pc = "link" => row'[op'[s].obj].state # Invalid /\ row'[op'[s].obj].type = "group"
  <2> SUFFICES ASSUME NEW s \in Callers, op'[s].pc = "link"
               PROVE  row'[op'[s].obj].state # Invalid /\ row'[op'[s].obj].type = "group"
    OBVIOUS
  <2>1. s # t
    BY <1>5
  <2>2. op'[s] = op[s] /\ op[s].obj \in Rows \ {g}
    BY <1>1, <1>2, <2>1 DEF Owner
  <2> QED
    BY <1>4, <2>2 DEF Owned, Valid
<1>9. \A s \in Callers : Owner(s)' => op'[s].obj \in bitmap'
  BY <1>1, <1>2, <1>3, <1>5 DEF Owned, Owner
<1>10. \A s, u \in Callers : Owner(s)' /\ Owner(u)' /\ op'[s].obj = op'[u].obj => s = u
  BY <1>1, <1>2, <1>3, <1>5 DEF Owned, Owner
<1>11. \A s \in Callers : op'[s].pc = "tell" => IsSignaled(op'[s].status)
  BY <1>2, <1>5 DEF Owned
<1>12. phase' # "open" => \A s \in Threads : op'[s].pc \in {"idle", "tell"}
  BY <1>2, Names DEF Owned
<1> QED
  BY <1>6, <1>7, <1>8, <1>9, <1>10, <1>11, <1>12 DEF Owned, Valid

\* Every action keeps the owners.
LEMMA OwnedStep == Types /\ CloserFree /\ Owned /\ [Next]_vars => Owned'
<1> SUFFICES ASSUME Types, CloserFree, Owned, [Next]_vars PROVE Owned'
  OBVIOUS
<1>n. Threads \subseteq Callers /\ Closer \in Callers /\ Closer \notin Threads
      /\ \A s \in Callers : s \in Threads \/ s = Closer
  BY Names DEF Callers
<1>p. \A t \in Callers : Owner(t) => phase = "open" \/ t = Closer
  BY <1>n DEF Owned, Owner
<1>o. ASSUME UNCHANGED op PROVE \A t \in Callers : OnlyOp(t) /\ op'[t] = op[t]
  BY <1>o DEF OnlyOp
<1>1. ASSUME QuietRows, UNCHANGED <<bitmap, op>>,
             UNCHANGED phase \/ phase' = "open" \/ \A s \in Threads : op[s].pc \in {"idle", "tell"}
      PROVE  Owned'
  <2>1. \A r \in Rows : (Valid(r)' <=> Valid(r)) /\ row'[r].type = row[r].type
    BY <1>1 DEF QuietRows, SameKind, SameStatus, Valid
  <2> QED
    BY <1>1, <1>n, <1>o, <2>1, OwnedKept
<1>2. CASE \/ \E t \in Threads, r \in Rows : cam_sync_get_obj_ref(t, r)
           \/ \E t \in Threads : cam_sync_put_obj_ref(t)
           \/ \E r \in Rows, c \in Clients : \/ cam_sync_register_callback(c, r)
                                             \/ cam_sync_deregister_callback(c, r)
           \/ \E r \in Rows, p \in Payloads : RegisterPayload(p, r) \/ DeregisterPayload(p, r)
           \/ \E e \in workq : RunCallback(e)
  BY <1>1, <1>2, QuietEffect
<1>3. CASE UNCHANGED vars \/ CloseBegin \/ CloseFlush \/ CloseEnd
  <2>1. UNCHANGED <<row, bitmap, op>>
    BY <1>3 DEF vars, CloseBegin, CloseFlush, CloseEnd
  <2>2. UNCHANGED phase \/ phase' = "open" \/ \A s \in Threads : op[s].pc \in {"idle", "tell"}
    BY <1>3 DEF vars, CloseBegin, CloseFlush, CloseEnd, Owned
  <2> QED
    BY <1>1, <2>1, <2>2, QuietSame
<1>4. ASSUME NEW t \in Threads, cam_sync_create(t)
      PROVE  Owned'
  BY <1>4, <1>n, OwnedTake DEF cam_sync_create
<1>5. ASSUME NEW t \in Threads, NEW objs \in SUBSET Rows, cam_sync_merge(t, objs)
      PROVE  Owned'
  <2>1. PICK o : o = [Idle EXCEPT !.pc = "link", !.obj = FirstFree, !.todo = objs]
    OBVIOUS
  <2>2. OnlyOp(t) /\ op'[t] = o
    BY <1>5, <1>n, <2>1, SetEffect DEF cam_sync_merge
  <2>3. o.pc = "link" /\ o.obj = FirstFree
    BY <2>1 DEF Idle
  <2> QED
    BY <1>5, <1>n, <2>2, <2>3, OwnedTake DEF cam_sync_merge
<1>6. ASSUME NEW t \in Callers, NEW r \in Rows, NEW s \in {Success} \cup Failures,
             SignalRow(t, r, s), UNCHANGED <<bitmap, phase>>
      PROVE  Owned'
  <2>1. CASE QuietRows /\ UNCHANGED <<op, workq>>
    BY <1>1, <1>6, <2>1
  <2>2. CASE SignalsRow(t, r, s)
    <3>1. \A q \in Rows : (Valid(q)' <=> Valid(q)) /\ row'[q].type = row[q].type
      BY <1>6, <2>2, Names DEF SignalsRow, OnlyRows, SameKind, Valid
    <3>2. /\ OnlyOp(t)
          /\ \/ op'[t] = Idle
             \/ op'[t].pc = "tell" /\ IsSignaled(op'[t].status)
      BY <1>6, <2>2 DEF SignalsRow, IsSignaled
    <3> QED
      BY <1>6, <3>1, <3>2, OwnedKept
  <2> QED
    BY <1>6, <2>1, <2>2, SignalEffect
<1>7. ASSUME NEW t \in Threads, NEW s \in {Success} \cup Failures, cam_sync_signal(t, s)
      PROVE  Owned'
  <2>1. holds[t] \in Rows
    BY <1>7 DEF cam_sync_signal, Types
  <2> QED
    BY <1>6, <1>7, <1>n, <2>1 DEF cam_sync_signal
<1>8. CASE CloseSignal
  BY <1>6, <1>8, <1>n, Names DEF CloseSignal
<1>9. ASSUME NEW t \in Threads, NEW r \in Rows, cam_sync_destroy(t, r)
      PROVE  Owned'
  <2>1. \A s \in Callers : op[s].pc = "link" => op[s].obj # r
    BY <1>9, <1>n DEF cam_sync_destroy, Unlocked, CloserFree
  <2> QED
    BY <1>9, <1>n, <2>1, OwnedDeinit DEF cam_sync_destroy
<1>10. CASE CloseDestroy
  <2>1. UNCHANGED <<bitmap, phase>> /\ phase = "destroy" /\ sweep \in Rows
    BY <1>10 DEF CloseDestroy
  <2>2. \A s \in Callers : op[s].pc # "link"
    BY <1>n, <2>1 DEF Owned, CloserFree
  <2>3. CASE InUse(sweep)
    BY <1>10, <1>n, <2>1, <2>2, <2>3, OwnedDeinit DEF CloseDestroy
  <2>4. CASE ~InUse(sweep)
    BY <1>1, <1>10, <2>1, <2>4, QuietSame DEF CloseDestroy
  <2> QED
    BY <2>3, <2>4
<1>11. ASSUME NEW t \in Callers, NEW c \in Rows, LinkChild(t, c)
      PROVE  Owned'
  <2>1. PICK g : g = op[t].obj
    OBVIOUS
  <2>2. /\ t \in Threads /\ g \in Rows /\ c # g /\ OnlyOp(t)
        /\ op[t].pc = "link" /\ UNCHANGED <<bitmap, phase>>
        /\ \/ LinkRefuses(t, c, g)
           \/ /\ LinkCounts(t, c, g) \/ LinkInherits(t, c, g)
              /\ op'[t].pc = "link" /\ op'[t].obj = g
    BY <1>11, <2>1, LinkEffect
  <2>3. CASE LinkRefuses(t, c, g)
    BY <1>p, <2>1, <2>2, <2>3, OwnedGone DEF LinkRefuses, Owner
  <2>4. CASE /\ LinkCounts(t, c, g) \/ LinkInherits(t, c, g)
             /\ op'[t].pc = "link" /\ op'[t].obj = g
    <3>1. Valid(g)
      BY <2>1, <2>2 DEF Owned
    <3>2. \A q \in Rows : (Valid(q)' <=> Valid(q)) /\ row'[q].type = row[q].type
      BY <2>4, <3>1, Names DEF LinkCounts, LinkInherits, OnlyRows, SameKind, SameStatus, Valid
    <3> QED
      BY <2>1, <2>2, <2>4, <3>2, OwnedKept
  <2> QED
    BY <2>2, <2>3, <2>4
<1>12. ASSUME NEW t \in Callers, MergeEnd(t)
      PROVE  Owned'
  <2>1. PICK g : g = op[t].obj
    OBVIOUS
  <2>2. /\ op[t].pc = "link" /\ g \in Rows /\ OnlyOp(t) /\ op'[t] = Idle
        /\ UNCHANGED <<bitmap, phase>> /\ OnlyRows({g}) /\ SameKind(row'[g], row[g])
        /\ row'[g].state \in {row[g].state, Success}
    BY <1>12, <2>1, MergeEndEffect
  <2>3. Valid(g)
    BY <2>1, <2>2 DEF Owned
  <2>4. \A q \in Rows : (Valid(q)' <=> Valid(q)) /\ row'[q].type = row[q].type
    BY <2>2, <2>3, Names DEF OnlyRows, SameKind, Valid
  <2> QED
    BY <2>2, <2>4, OwnedKept
<1>13. ASSUME NEW t \in Callers, NEW c \in Rows, UnlinkChild(t, c)
      PROVE  Owned'
  <2>1. /\ op[t].pc = "undo" /\ UNCHANGED <<bitmap, phase>> /\ OnlyRows({c}) /\ OnlyOp(t)
        /\ SameKind(row'[c], row[c]) /\ SameStatus(row'[c], row[c])
        /\ op'[t].pc = "undo" /\ op'[t].obj = op[t].obj
    BY <1>13, UnlinkEffect
  <2>2. \A q \in Rows : (Valid(q)' <=> Valid(q)) /\ row'[q].type = row[q].type
    BY <2>1 DEF OnlyRows, SameKind, SameStatus, Valid
  <2> QED
    BY <2>1, <2>2, OwnedKept
<1>14. ASSUME NEW t \in Callers, MergeFails(t)
      PROVE  Owned'
  <2>1. PICK g : g = op[t].obj
    OBVIOUS
  <2>2. /\ op[t].pc = "undo" /\ g \in Rows /\ OnlyOp(t) /\ op'[t] = Idle
        /\ bitmap' = bitmap \ {g} /\ UNCHANGED phase
        /\ OnlyRows({g}) /\ SameStatus(row'[g], row[g])
    BY <1>14, <2>1, MergeFailsEffect
  <2>3. row'[g].state = Invalid /\ Owner(t)
    BY <2>1, <2>2 DEF Owned, Owner, SameStatus, Valid
  <2> QED
    BY <1>p, <2>1, <2>2, <2>3, OwnedGone
<1>15. ASSUME NEW t \in Callers, NEW p \in Rows, TellParent(t, p)
      PROVE  Owned'
  <2>1. /\ op[t].pc = "tell" /\ UNCHANGED <<bitmap, phase>> /\ OnlyRows({p}) /\ OnlyOp(t)
        /\ row'[p].state = UpdateParentState(row[p].state, op[t].status)
        /\ SameKind(row'[p], row[p])
        /\ \/ op'[t] = Idle
           \/ op'[t].pc = "tell" /\ op'[t].status = op[t].status
    BY <1>15, TellEffect
  <2>2. IsSignaled(op[t].status)
    BY <2>1 DEF Owned
  <2>3. \A q \in Rows : (Valid(q)' <=> Valid(q)) /\ row'[q].type = row[q].type
    BY <2>1, <2>2, Names DEF OnlyRows, SameKind, Valid, UpdateParentState, IsSignaled
  <2> QED
    BY <2>1, <2>2, <2>3, OwnedKept
<1>16. ASSUME NEW t \in Callers, NEW c \in Rows, UnlinkFromChild(t, c)
      PROVE  Owned'
  <2>1. /\ op[t].pc = "deinit" /\ UNCHANGED <<bitmap, phase>> /\ OnlyRows({c}) /\ OnlyOp(t)
        /\ SameKind(row'[c], row[c]) /\ SameStatus(row'[c], row[c])
        /\ op'[t].pc = "deinit" /\ op'[t].obj = op[t].obj
    BY <1>16, UnlinkFromChildEffect
  <2>2. \A q \in Rows : (Valid(q)' <=> Valid(q)) /\ row'[q].type = row[q].type
    BY <2>1 DEF OnlyRows, SameKind, SameStatus, Valid
  <2> QED
    BY <2>1, <2>2, OwnedKept
<1>17. ASSUME NEW t \in Callers, NEW c \in Rows, UnlinkFromParent(t, c)
      PROVE  Owned'
  <2>1. /\ op[t].pc = "deinit" /\ UNCHANGED <<bitmap, phase>> /\ OnlyRows({c}) /\ OnlyOp(t)
        /\ SameKind(row'[c], row[c]) /\ SameStatus(row'[c], row[c])
        /\ op'[t].pc = "deinit" /\ op'[t].obj = op[t].obj
    BY <1>17, UnlinkFromParentEffect
  <2>2. \A q \in Rows : (Valid(q)' <=> Valid(q)) /\ row'[q].type = row[q].type
    BY <2>1 DEF OnlyRows, SameKind, SameStatus, Valid
  <2> QED
    BY <2>1, <2>2, OwnedKept
<1>18. ASSUME NEW t \in Callers, DeinitEnd(t)
      PROVE  Owned'
  <2>1. PICK g : g = op[t].obj
    OBVIOUS
  <2>2. /\ op[t].pc = "deinit" /\ g \in Rows /\ OnlyOp(t) /\ op'[t] = Idle
        /\ bitmap' = bitmap \ {g} /\ UNCHANGED phase
        /\ OnlyRows({g}) /\ row'[g].state = Invalid
    BY <1>18, <2>1, DeinitEndEffect
  <2> QED
    BY <1>p, <2>1, <2>2, OwnedGone DEF Owner
<1> QED
  BY <1>2, <1>3, <1>4, <1>5, <1>7, <1>8, <1>9, <1>10, <1>11, <1>12, <1>13, <1>14,
     <1>15, <1>16, <1>17, <1>18
     DEF Next, Step, CloseStep

\* The types hold, whoever takes the rows: in particular a row that is not
\* invalid is marked as in use.
THEOREM CamSyncTypeOK == Spec => []TypeOK
<1> DEFINE I == Types /\ CloserFree /\ Owned
<1>1. Init => I
  <2>1. Init => CloserFree
    BY Names DEF Init, CloserFree, Idle
  <2> QED
    BY <2>1, TypesInit, OwnedInit
<1>2. I /\ [Next]_vars => I'
  BY TypesStep, CloserFreeStep, OwnedStep
<1>3. I => TypeOK
  <2>1. OpType \subseteq [pc : {"idle", "link", "undo", "tell", "deinit"},
                          obj : Rows \cup {None}, todo : SUBSET Rows,
                          seen : SUBSET Rows, status : States]
    BY DEF OpType
  <2> QED
    BY <2>1 DEF Types, TypeOK, RowType, Owned
<1> QED
  <2> HIDE DEF I
  <2> QED
    BY <1>1, <1>2, <1>3, PTL DEF Spec

-----------------------------------------------------------------------------
(* The steps, by what they do. *)

\* A call takes a row: for an object of its own, or for a merge that begins.
Takes(t, type) ==
  /\ TakeRow(type) /\ Ready(t) /\ UNCHANGED workq
  /\ \/ UNCHANGED op
     \/ /\ type = "group" /\ OnlyOp(t)
        /\ op'[t].pc = "link" /\ op'[t].obj = FirstFree /\ op'[t].seen = {}

\* Nothing happens to the rows, and what is queued is signaled already.
Rests ==
  /\ QuietRows /\ UNCHANGED <<bitmap, op>>
  /\ \A e \in workq' \ workq : e.obj \in Rows /\ Done(e.obj) /\ row[e.obj].state = e.status

Signals(t, r, status) ==
  Ready(t) /\ SignalsRow(t, r, status) /\ UNCHANGED bitmap

Destroys(t, r) ==
  /\ Ready(t) /\ DeinitBegin(t, r) /\ UNCHANGED <<bitmap, workq>>
  /\ \A s \in Callers : op[s].pc = "link" => op[s].obj # r

\* Every step is one of these: signals and destruction come from clients and
\* from cam_sync_close, which does them when no merge is under way.
LEMMA Steps ==
  ASSUME Types, CloserFree, Owned, [Next]_vars
  PROVE  \/ Rests
         \/ \E t \in Callers, type \in {"indv", "group"} : Takes(t, type)
         \/ \E t \in Callers, r \in Rows, s \in {Success} \cup Failures : Signals(t, r, s)
         \/ \E t \in Callers, r \in Rows : Destroys(t, r)
         \/ \E t \in Callers, r \in Rows :
              \/ LinkChild(t, r) \/ UnlinkChild(t, r) \/ TellParent(t, r)
              \/ UnlinkFromChild(t, r) \/ UnlinkFromParent(t, r)
         \/ \E t \in Callers : MergeEnd(t) \/ MergeFails(t) \/ DeinitEnd(t)
<1>n. Threads \subseteq Callers /\ Closer \in Callers
      /\ \A s \in Callers : s \in Threads \/ s = Closer
  BY DEF Callers
<1>1. CASE \/ \E t \in Threads, r \in Rows : cam_sync_get_obj_ref(t, r)
           \/ \E t \in Threads : cam_sync_put_obj_ref(t)
           \/ \E r \in Rows, c \in Clients : \/ cam_sync_register_callback(c, r)
                                             \/ cam_sync_deregister_callback(c, r)
           \/ \E r \in Rows, p \in Payloads : RegisterPayload(p, r) \/ DeregisterPayload(p, r)
           \/ \E e \in workq : RunCallback(e)
  <2>1. QuietRows /\ UNCHANGED <<bitmap, op>>
    BY <1>1, QuietEffect
  <2>2. ASSUME NEW r \in Rows, NEW c \in Clients, cam_sync_register_callback(c, r)
        PROVE  \A e \in workq' \ workq : e.obj \in Rows /\ Done(e.obj) /\ row[e.obj].state = e.status
    BY <2>2 DEF cam_sync_register_callback, CallAtOnce, Call
  <2>3. ASSUME ~ \E r \in Rows, c \in Clients : cam_sync_register_callback(c, r)
        PROVE  workq' \subseteq workq
    BY <1>1, <2>3 DEF cam_sync_get_obj_ref, cam_sync_put_obj_ref, cam_sync_deregister_callback,
                      RegisterPayload, DeregisterPayload, RunCallback
  <2> QED
    BY <2>1, <2>2, <2>3 DEF Rests
<1>2. CASE UNCHANGED vars \/ CloseBegin \/ CloseFlush \/ CloseEnd
  BY <1>2, QuietSame DEF vars, CloseBegin, CloseFlush, CloseEnd, Rests
<1>3. ASSUME NEW t \in Threads, cam_sync_create(t)
      PROVE  Takes(t, "indv")
  BY <1>3 DEF cam_sync_create, Takes
<1>4. ASSUME NEW t \in Threads, NEW objs \in SUBSET Rows, cam_sync_merge(t, objs)
      PROVE  Takes(t, "group")
  <2>1. PICK o : o = [Idle EXCEPT !.pc = "link", !.obj = FirstFree, !.todo = objs]
    OBVIOUS
  <2>2. OnlyOp(t) /\ op'[t] = o
    BY <1>4, <1>n, <2>1, SetEffect DEF cam_sync_merge
  <2>3. o.pc = "link" /\ o.obj = FirstFree /\ o.seen = {}
    BY <2>1 DEF Idle
  <2> QED
    BY <1>4, <2>2, <2>3 DEF cam_sync_merge, Takes
<1>5. ASSUME NEW t \in Callers, NEW r \in Rows, NEW s \in {Success} \cup Failures,
             SignalRow(t, r, s), Ready(t), UNCHANGED bitmap
      PROVE  Rests \/ Signals(t, r, s)
  BY <1>5, SignalEffect DEF Rests, Signals
<1>6. ASSUME NEW t \in Threads, NEW s \in {Success} \cup Failures, cam_sync_signal(t, s)
      PROVE  Rests \/ \E r \in Rows : Signals(t, r, s)
  <2>1. holds[t] \in Rows
    BY <1>6 DEF cam_sync_signal, Types
  <2> QED
    BY <1>5, <1>6, <1>n, <2>1 DEF cam_sync_signal
<1>7. CASE CloseSignal
  <2>1. Error \in {Success} \cup Failures /\ sweep \in Rows
    BY <1>7, Names DEF CloseSignal
  <2> QED
    BY <1>5, <1>7, <1>n, <2>1 DEF CloseSignal
<1>8. ASSUME NEW t \in Threads, NEW r \in Rows, cam_sync_destroy(t, r)
      PROVE  Destroys(t, r)
  BY <1>8, <1>n DEF cam_sync_destroy, Unlocked, CloserFree, Destroys
<1>9. CASE CloseDestroy
  <2>1. sweep \in Rows /\ Ready(Closer) /\ UNCHANGED <<bitmap, workq>>
    BY <1>9 DEF CloseDestroy
  <2>2. \A s \in Callers : op[s].pc # "link"
    BY <1>9, <1>n DEF CloseDestroy, Owned, CloserFree
  <2>3. CASE InUse(sweep)
    BY <1>9, <1>n, <2>1, <2>2, <2>3 DEF CloseDestroy, Destroys
  <2>4. CASE ~InUse(sweep)
    BY <1>9, <2>1, <2>4, QuietSame DEF CloseDestroy, Rests
  <2> QED
    BY <2>3, <2>4
<1> QED
  BY <1>1, <1>2, <1>3, <1>4, <1>6, <1>7, <1>8, <1>9, <1>n DEF Next, Step, CloseStep

-----------------------------------------------------------------------------
(* The status of a group. *)

\* A group has the status of a failure exactly if a child of it failed; an
\* individual object that is active waits for nobody.
Status(x) ==
  /\ x.state # Invalid /\ x.type = "group" => (x.spoiled <=> x.state \in Failures)
  /\ x.state = Active /\ x.type = "indv" => x.remaining = 0

Statuses == \A r \in Rows : Status(row[r])

\* The status of a row that keeps its kind, its status and its count.
LEMMA StatusSame ==
  ASSUME NEW x, NEW y, SameKind(x, y), SameStatus(x, y), x.remaining = y.remaining, Status(y)
  PROVE  Status(x)
BY DEF SameKind, SameStatus, Status

\* An invalid row has no status to speak of.
LEMMA StatusInvalid ==
  ASSUME NEW x, x.state = Invalid
  PROVE  Status(x)
BY Names DEF Status

\* No row is valid at the start.
LEMMA StatusesInit == Init => Statuses
<1> SUFFICES ASSUME Init, NEW r \in Rows PROVE Status(row[r])
  BY DEF Statuses
<1>1. row[r].state = Invalid
  BY DEF Init, Zero
<1> QED
  BY <1>1, StatusInvalid

\* Only the rows S change, and keep or get a right status.
LEMMA StatusesOnly ==
  ASSUME Statuses, NEW S, OnlyRows(S), \A r \in S : r \in Rows => Status(row'[r])
  PROVE  Statuses'
BY DEF Statuses, OnlyRows

\* Every action keeps the status of the groups right.
LEMMA StatusesStep == Types /\ CloserFree /\ Owned /\ Statuses /\ [Next]_vars => Statuses'
<1> SUFFICES ASSUME Types, CloserFree, Owned, Statuses, [Next]_vars PROVE Statuses'
  OBVIOUS
<1>s. \A r \in Rows : Status(row[r])
  BY DEF Statuses
<1>1. CASE Rests
  <2> SUFFICES ASSUME NEW r \in Rows PROVE Status(row'[r])
    BY DEF Statuses
  <2>1. SameKind(row'[r], row[r]) /\ SameStatus(row'[r], row[r]) /\ row'[r].remaining = row[r].remaining
    BY <1>1 DEF Rests, QuietRows, SameCount
  <2> QED
    BY <1>s, <2>1, StatusSame
<1>2. ASSUME NEW t \in Callers, NEW type \in {"indv", "group"}, Takes(t, type)
      PROVE  Statuses'
  <2>1. PICK f : f = FirstFree
    OBVIOUS
  <2>2. /\ f \in Rows /\ OnlyRows({f}) /\ row'[f].state = Active /\ ~row'[f].spoiled
        /\ row'[f].remaining = 0
    BY <1>2, <2>1, TakeEffect DEF Takes
  <2>3. Status(row'[f])
    BY <2>2, Names DEF Status
  <2> QED
    BY <2>2, <2>3, StatusesOnly
<1>3. ASSUME NEW t \in Callers, NEW r \in Rows, NEW s \in {Success} \cup Failures, Signals(t, r, s)
      PROVE  Statuses'
  <2>1. /\ row[r].type = "indv" /\ OnlyRows({r}) /\ SameKind(row'[r], row[r]) /\ row'[r].state = s
    BY <1>3 DEF Signals, SignalsRow
  <2>2. Status(row'[r])
    BY <2>1, Names DEF Status, SameKind
  <2> QED
    BY <2>1, <2>2, StatusesOnly
<1>4. ASSUME NEW t \in Callers, NEW r \in Rows, Destroys(t, r)
      PROVE  Statuses'
  <2> SUFFICES ASSUME NEW q \in Rows PROVE Status(row'[q])
    BY DEF Statuses
  <2>1. CASE q = r
    BY <1>4, <2>1, DeinitEffect, StatusInvalid DEF Destroys
  <2>2. CASE q # r
    <3>1. SameKind(row'[q], row[q]) /\ SameStatus(row'[q], row[q]) /\ row'[q].remaining = row[q].remaining
      BY <1>4, <2>2, DeinitEffect DEF Destroys
    <3> QED
      BY <1>s, <3>1, StatusSame
  <2> QED
    BY <2>1, <2>2
<1>5. ASSUME NEW t \in Callers, NEW c \in Rows, LinkChild(t, c)
      PROVE  Statuses'
  <2>1. PICK g : g = op[t].obj
    OBVIOUS
  <2>2. /\ g \in Rows /\ c # g /\ op[t].pc = "link"
        /\ LinkRefuses(t, c, g) \/ LinkCounts(t, c, g) \/ LinkInherits(t, c, g)
    BY <1>5, <2>1, LinkEffect
  <2>3. CASE LinkRefuses(t, c, g)
    BY <2>3, StatusInvalid, StatusesOnly DEF LinkRefuses
  <2>4. row[g].type = "group" /\ row[g].state # Invalid
    BY <2>1, <2>2 DEF Owned, Valid
  <2>5. CASE LinkCounts(t, c, g)
    <3>1. Status(row'[g])
      BY <1>s, <2>2, <2>4, <2>5 DEF LinkCounts, Status, SameKind, SameStatus
    <3>2. Status(row'[c])
      BY <1>s, <2>5, StatusSame DEF LinkCounts, SameCount
    <3>3. OnlyRows({g, c})
      BY <2>5 DEF LinkCounts
    <3> QED
      BY <3>1, <3>2, <3>3, StatusesOnly
  <2>6. CASE LinkInherits(t, c, g)
    <3>1. Status(row'[g])
      BY <1>s, <2>2, <2>4, <2>6 DEF LinkInherits, Status, SameKind
    <3>2. OnlyRows({g})
      BY <2>6 DEF LinkInherits
    <3> QED
      BY <3>1, <3>2, StatusesOnly
  <2> QED
    BY <2>2, <2>3, <2>5, <2>6
<1>6. ASSUME NEW t \in Callers, MergeEnd(t)
      PROVE  Statuses'
  <2>1. PICK g : g = op[t].obj
    OBVIOUS
  <2>2. /\ op[t].pc = "link" /\ g \in Rows /\ OnlyRows({g}) /\ SameKind(row'[g], row[g])
        /\ row'[g].spoiled = row[g].spoiled
        /\ IF row[g].remaining = 0
             THEN row'[g].state = IF row[g].state \in Failures THEN row[g].state ELSE Success
             ELSE row'[g].state = row[g].state
    BY <1>6, <2>1, MergeEndEffect
  <2>3. row[g].type = "group" /\ row[g].state # Invalid
    BY <2>1, <2>2 DEF Owned, Valid
  <2>4. Status(row'[g])
    BY <1>s, <2>2, <2>3, Names DEF Status, SameKind
  <2> QED
    BY <2>2, <2>4, StatusesOnly
<1>7. ASSUME NEW t \in Callers, NEW c \in Rows,
             UnlinkChild(t, c) \/ UnlinkFromChild(t, c) \/ UnlinkFromParent(t, c)
      PROVE  Statuses'
  <2>1. /\ OnlyRows({c}) /\ SameKind(row'[c], row[c]) /\ SameStatus(row'[c], row[c])
        /\ SameCount(row'[c], row[c])
    BY <1>7, UnlinkEffect, UnlinkFromChildEffect, UnlinkFromParentEffect
  <2>2. Status(row'[c])
    BY <1>s, <2>1, StatusSame DEF SameCount
  <2> QED
    BY <2>1, <2>2, StatusesOnly
<1>8. ASSUME NEW t \in Callers, MergeFails(t)
      PROVE  Statuses'
  <2>1. PICK g : g = op[t].obj
    OBVIOUS
  <2>2. /\ g \in Rows /\ OnlyRows({g}) /\ SameKind(row'[g], row[g]) /\ SameStatus(row'[g], row[g])
        /\ SameCount(row'[g], row[g])
    BY <1>8, <2>1, MergeFailsEffect
  <2>3. Status(row'[g])
    BY <1>s, <2>2, StatusSame DEF SameCount
  <2> QED
    BY <2>2, <2>3, StatusesOnly
<1>9. ASSUME NEW t \in Callers, NEW p \in Rows, TellParent(t, p)
      PROVE  Statuses'
  <2>1. /\ op[t].pc = "tell" /\ OnlyRows({p}) /\ SameKind(row'[p], row[p])
        /\ row'[p].state = UpdateParentState(row[p].state, op[t].status)
        /\ row'[p].spoiled <=> row[p].spoiled \/ (Valid(p) /\ op[t].status \in Failures)
    BY <1>9, TellEffect
  <2>2. IsSignaled(op[t].status)
    BY <2>1 DEF Owned
  <2>3. row[p].state \in States /\ row[p].spoiled \in BOOLEAN
    BY DEF Types, RowType
  <2>4. Status(row'[p])
    BY <1>s, <2>1, <2>2, <2>3, Names DEF Status, SameKind, UpdateParentState, IsSignaled, Valid, States
  <2> QED
    BY <2>1, <2>4, StatusesOnly
<1>10. ASSUME NEW t \in Callers, DeinitEnd(t)
       PROVE  Statuses'
  <2>1. PICK g : g = op[t].obj
    OBVIOUS
  <2>2. OnlyRows({g}) /\ row'[g].state = Invalid
    BY <1>10, <2>1, DeinitEndEffect
  <2> QED
    BY <2>2, StatusInvalid, StatusesOnly
<1> QED
  BY <1>1, <1>2, <1>3, <1>4, <1>5, <1>6, <1>7, <1>8, <1>9, <1>10, Steps

\* What holds in every state, whoever takes the rows.
Base == Types /\ CloserFree /\ Owned /\ Statuses

\* The start.
LEMMA BaseInit == Init => Base
<1>1. Init => CloserFree
  BY Names DEF Init, CloserFree, Idle
<1> QED
  BY <1>1, TypesInit, OwnedInit, StatusesInit DEF Base

\* The parts are inductive together.
LEMMA BaseStep == Base /\ [Next]_vars => Base'
BY TypesStep, CloserFreeStep, OwnedStep, StatusesStep DEF Base

\* A group that is signaled is a success exactly if no child failed, in
\* whatever order the children are signaled (cam_sync_util_update_parent_state)
\* and before or after the merge (cam_sync_init_group_object).
THEOREM CamSyncGroupStatus == Spec => []GroupStatus
<1>1. Base => GroupStatus
  <2> SUFFICES ASSUME Base, NEW g \in Rows, Done(g), row[g].type = "group"
               PROVE  row[g].state = Success <=> ~row[g].spoiled
    BY DEF GroupStatus
  <2>1. row[g].state \in {Success} \cup Failures /\ row[g].state # Invalid
    BY Names DEF Done, IsSignaled
  <2>2. row[g].spoiled <=> row[g].state \in Failures
    BY <2>1 DEF Base, Statuses, Status
  <2> QED
    BY <2>1, <2>2, Names
<1> QED
  BY <1>1, BaseInit, BaseStep, PTL DEF Spec

\* What a step queues: the object is finally signaled, with that status.
CallsFinal == \A e \in workq' \ workq : Done(e.obj)' /\ row'[e.obj].state = e.status

\* cam_sync_register_callback, cam_sync_signal and the telling of a parent
LEMMA CallsFinalStep == Base /\ [Next]_vars => CallsFinal
<1> SUFFICES ASSUME Base, [Next]_vars PROVE CallsFinal
  OBVIOUS
<1>b. Types /\ CloserFree /\ Owned /\ Statuses
  BY DEF Base
<1>0. ASSUME UNCHANGED workq PROVE CallsFinal
  BY <1>0 DEF CallsFinal
<1>1. CASE Rests
  <2> SUFFICES ASSUME NEW e \in workq' \ workq
               PROVE  Done(e.obj)' /\ row'[e.obj].state = e.status
    BY DEF CallsFinal
  <2>1. e.obj \in Rows /\ Done(e.obj) /\ row[e.obj].state = e.status
    BY <1>1 DEF Rests
  <2>2. row'[e.obj].state = row[e.obj].state /\ row'[e.obj].remaining = row[e.obj].remaining
    BY <1>1, <2>1 DEF Rests, QuietRows, SameStatus, SameCount
  <2> QED
    BY <2>1, <2>2 DEF Done
<1>2. ASSUME NEW t \in Callers, NEW r \in Rows, NEW s \in {Success} \cup Failures, Signals(t, r, s)
      PROVE  CallsFinal
  <2> SUFFICES ASSUME NEW e \in workq' \ workq
               PROVE  Done(e.obj)' /\ row'[e.obj].state = e.status
    BY DEF CallsFinal
  <2>1. /\ row[r].state = Active /\ row[r].type = "indv" /\ row'[r].state = s
        /\ row'[r].remaining = row[r].remaining
        /\ workq' = workq \cup {Call(c, r, s) : c \in row[r].callbacks}
    BY <1>2 DEF Signals, SignalsRow, SameCount
  <2>2. e.obj = r /\ e.status = s
    BY <2>1 DEF Call
  <2>3. row[r].remaining = 0
    BY <1>b, <2>1 DEF Statuses, Status
  <2> QED
    BY <2>1, <2>2, <2>3 DEF Done, IsSignaled
<1>3. ASSUME NEW t \in Callers, NEW p \in Rows, TellParent(t, p)
      PROVE  CallsFinal
  <2> SUFFICES ASSUME NEW e \in workq' \ workq
               PROVE  Done(e.obj)' /\ row'[e.obj].state = e.status
    BY DEF CallsFinal
  <2>1. op[t].pc = "tell" /\ row'[p].state = UpdateParentState(row[p].state, op[t].status)
    BY <1>3, <1>b, TellEffect
  <2>2. /\ row'[p].remaining = 0 /\ row'[p].state # Invalid
        /\ workq' = workq \cup {Call(c, p, row'[p].state) : c \in row[p].callbacks}
    BY <1>3, <1>b, TellEffect
  <2>3. e.obj = p /\ e.status = row'[p].state
    BY <2>2 DEF Call
  <2>4. IsSignaled(op[t].status) /\ row[p].state \in States
    BY <1>b, <2>1 DEF Owned, Types, RowType
  <2>5. IsSignaled(row'[p].state)
    BY <2>1, <2>2, <2>4, Names DEF IsSignaled, UpdateParentState, States
  <2> QED
    BY <2>2, <2>3, <2>5 DEF Done
<1>4. ASSUME NEW t \in Callers, NEW r \in Rows,
             \/ Destroys(t, r) \/ LinkChild(t, r) \/ UnlinkChild(t, r)
             \/ UnlinkFromChild(t, r) \/ UnlinkFromParent(t, r)
      PROVE  UNCHANGED workq
  BY <1>4 DEF Destroys, LinkChild, UnlinkChild, UnlinkFromChild, UnlinkFromParent
<1>5. ASSUME NEW t \in Callers, MergeEnd(t) \/ MergeFails(t) \/ DeinitEnd(t)
      PROVE  UNCHANGED workq
  BY <1>5 DEF MergeEnd, MergeFails, DeinitEnd
<1>6. ASSUME NEW t \in Callers, NEW type \in {"indv", "group"}, Takes(t, type)
      PROVE  UNCHANGED workq
  BY <1>6 DEF Takes
<1> QED
  BY <1>b, <1>0, <1>1, <1>2, <1>3, <1>4, <1>5, <1>6, Steps

\* A callback is queued only when its object is finally signaled, with the
\* status it has then: cam_sync_register_callback looks at remaining, an
\* individual object counts nobody, and a group is told by its last child.
THEOREM CamSyncCallbackFinal == Spec => CallbackFinal
<1>1. Base /\ [Next]_vars => CallsFinal
  BY CallsFinalStep
<1>2. CallsFinal => [\A e \in workq' \ workq : Done(e.obj)' /\ row'[e.obj].state = e.status]_vars
  BY DEF CallsFinal
<1> QED
  BY <1>1, <1>2, BaseInit, BaseStep, PTL DEF Spec, CallbackFinal

-----------------------------------------------------------------------------
(* Who is whose child. *)

\* A child that lists a group is an individual object; the row of the group is
\* in use and lists the child, or is to go and will still visit the child.  A
\* merge has not come to its children before it links them.
Pair(c, g) ==
  /\ Valid(c) /\ row[c].type = "indv" /\ g \in bitmap
  /\ Valid(g) => c \in row[g].children /\ row[g].type = "group"
  /\ \A t \in Callers : op[t].obj = g =>
       /\ op[t].pc = "link" => c \notin op[t].todo /\ c \in op[t].seen
       /\ op[t].pc \in {"undo", "deinit"} => c \in op[t].todo

Pairs == \A c, g \in Rows : g \in row[c].parents => Pair(c, g)

\* No row lists a group at the start.
LEMMA PairsInit == Init => Pairs
<1> SUFFICES ASSUME Init, NEW c \in Rows PROVE row[c].parents = {}
  BY DEF Pairs
<1> QED
  BY DEF Init, Zero

\* A pair that stays: the child stays valid, the group lists it if it stays
\* valid, and a call that visits the group's children has not lost it.
LEMMA PairKept ==
  ASSUME NEW c \in Rows, NEW g \in Rows, Pair(c, g),
         row'[c].state # Invalid, SameKind(row'[c], row[c]), g \in bitmap',
         row'[g].state # Invalid => /\ row[g].state # Invalid /\ SameKind(row'[g], row[g])
                                    /\ c \in row[g].children => c \in row'[g].children,
         \A s \in Callers : op'[s].obj = g =>
           /\ op'[s].pc = "link" => /\ op[s].pc = "link" /\ op[s].obj = g
                                    /\ op'[s].todo \subseteq op[s].todo
                                    /\ op[s].seen \subseteq op'[s].seen
           /\ op'[s].pc \in {"undo", "deinit"} => op'[s] = op[s] \/ c \in op'[s].todo
  PROVE  Pair(c, g)'
<1>1. Valid(c)' /\ row'[c].type = "indv" /\ g \in bitmap'
  BY DEF Pair, Valid, SameKind
<1>2. Valid(g)' => c \in row'[g].children /\ row'[g].type = "group"
  BY DEF Pair, Valid, SameKind
<1>3. ASSUME NEW t \in Callers, op'[t].obj = g, op'[t].pc = "link"
      PROVE  c \notin op'[t].todo /\ c \in op'[t].seen
  BY <1>3 DEF Pair
<1>4. ASSUME NEW t \in Callers, op'[t].obj = g, op'[t].pc \in {"undo", "deinit"}
      PROVE  c \in op'[t].todo
  BY <1>4 DEF Pair
<1> QED
  BY <1>1, <1>2, <1>3, <1>4 DEF Pair

\* A step that takes no row and links nothing: the children of a group stay or
\* are dropped, and no call begins to visit them.
LEMMA PairsKept ==
  ASSUME Types, Pairs, UNCHANGED bitmap,
         \A r \in Rows : /\ row'[r].parents \subseteq row[r].parents /\ SameKind(row'[r], row[r])
                         /\ row'[r].state = Invalid <=> row[r].state = Invalid
                         /\ row[r].children \subseteq row'[r].children,
         \A s \in Callers :
           \/ op'[s] = op[s] \/ op'[s] = Idle \/ op'[s].pc = "tell"
           \/ /\ op'[s].pc = "link" /\ op[s].pc = "link" /\ op'[s].obj = op[s].obj
              /\ op'[s].todo \subseteq op[s].todo /\ op[s].seen \subseteq op'[s].seen
  PROVE  Pairs'
<1> SUFFICES ASSUME NEW c \in Rows, NEW g \in Rows, g \in row'[c].parents
             PROVE  Pair(c, g)'
  BY DEF Pairs
<1>1. Pair(c, g)
  BY DEF Pairs
<1>2. row'[c].state # Invalid /\ g \in bitmap'
  BY <1>1 DEF Pair, Valid
<1>3. Idle.pc = "idle"
  BY DEF Idle
<1>4. \A s \in Callers : op'[s].obj = g =>
           /\ op'[s].pc = "link" => /\ op[s].pc = "link" /\ op[s].obj = g
                                    /\ op'[s].todo \subseteq op[s].todo
                                    /\ op[s].seen \subseteq op'[s].seen
           /\ op'[s].pc \in {"undo", "deinit"} => op'[s] = op[s]
  BY <1>3
<1> QED
  BY <1>1, <1>2, <1>4, PairKept

\* Every action keeps children and groups together: a merge lists both ways
\* under both locks, and a group that goes visits all its children.
LEMMA PairsStep ==
  Types /\ CloserFree /\ Owned /\ Pairs /\ [Next]_vars => Pairs'
<1> SUFFICES ASSUME Types, CloserFree, Owned, Pairs, [Next]_vars PROVE Pairs'
  OBVIOUS
<1>i. Idle.pc = "idle"
  BY DEF Idle
<1>n. \A c, g \in Rows : ~Valid(c) => g \notin row[c].parents
  BY DEF Pairs, Pair
<1>1. CASE Rests
  <2>1. \A r \in Rows : /\ row'[r].parents = row[r].parents /\ SameKind(row'[r], row[r])
                        /\ row'[r].state = row[r].state /\ row'[r].children = row[r].children
    BY <1>1 DEF Rests, QuietRows, SameStatus, SameLinks
  <2> QED
    BY <1>1, <2>1, PairsKept DEF Rests
<1>2. ASSUME NEW t \in Callers, NEW type \in {"indv", "group"}, Takes(t, type)
      PROVE  Pairs'
  <2>1. PICK f : f = FirstFree
    OBVIOUS
  <2>2. /\ f \in Rows /\ f \notin bitmap /\ bitmap' = bitmap \cup {f} /\ OnlyRows({f})
        /\ row'[f].parents = {}
    BY <1>2, <2>1, TakeEffect DEF Takes
  <2> SUFFICES ASSUME NEW c \in Rows, NEW g \in Rows, g \in row'[c].parents
               PROVE  Pair(c, g)'
    BY DEF Pairs
  <2>3. c # f /\ row'[c] = row[c] /\ Pair(c, g)
    BY <2>2 DEF OnlyRows, Pairs
  <2>4. g # f /\ row'[g] = row[g]
    BY <2>2, <2>3 DEF OnlyRows, Pair
  <2>5. \A s \in Callers : op'[s].obj = g => op'[s] = op[s]
    BY <1>2, <2>1, <2>4 DEF Takes, OnlyOp
  <2>6. row'[c].state # Invalid /\ g \in bitmap' /\ SameKind(row'[c], row[c]) /\ SameKind(row'[g], row[g])
    BY <2>2, <2>3, <2>4 DEF Pair, Valid, SameKind
  <2> QED
    BY <2>3, <2>4, <2>5, <2>6, PairKept
<1>3. ASSUME NEW t \in Callers, NEW r \in Rows, NEW s \in {Success} \cup Failures, Signals(t, r, s)
      PROVE  Pairs'
  <2>1. /\ OnlyRows({r}) /\ OnlyOp(t) /\ row[r].state = Active /\ row'[r].state = s
        /\ SameKind(row'[r], row[r]) /\ row'[r].parents = {} /\ row'[r].children = row[r].children
        /\ op'[t] = Idle \/ op'[t].pc = "tell"
        /\ UNCHANGED bitmap
    BY <1>3 DEF Signals, SignalsRow
  <2>2. \A q \in Rows : /\ row'[q].parents \subseteq row[q].parents /\ SameKind(row'[q], row[q])
                        /\ row'[q].state = Invalid <=> row[q].state = Invalid
                        /\ row[q].children \subseteq row'[q].children
    BY <2>1, Names DEF OnlyRows, SameKind
  <2>3. \A u \in Callers : op'[u] = op[u] \/ op'[u] = Idle \/ op'[u].pc = "tell"
    BY <2>1 DEF OnlyOp
  <2> QED
    BY <2>1, <2>2, <2>3, PairsKept
<1>4. ASSUME NEW t \in Callers, NEW r \in Rows, Destroys(t, r)
      PROVE  Pairs'
  <2>1. /\ Valid(r) /\ OnlyOp(t)
        /\ op'[t].pc = "deinit" /\ op'[t].obj = r /\ op'[t].todo = row[r].children
        /\ row'[r].state = Invalid /\ row'[r].parents = {}
        /\ \A q \in Rows \ {r} :
             /\ SameKind(row'[q], row[q]) /\ SameStatus(row'[q], row[q]) /\ SameLinks(row'[q], row[q])
        /\ UNCHANGED bitmap
    BY <1>4, DeinitEffect DEF Destroys
  <2> SUFFICES ASSUME NEW c \in Rows, NEW g \in Rows, g \in row'[c].parents
               PROVE  Pair(c, g)'
    BY DEF Pairs
  <2>2. c # r /\ Pair(c, g)
    BY <2>1 DEF Pairs, SameLinks
  <2>3. row'[c].state # Invalid /\ g \in bitmap' /\ SameKind(row'[c], row[c])
    BY <2>1, <2>2 DEF Pair, Valid, SameStatus
  <2>4. row'[g].state # Invalid => /\ row[g].state # Invalid /\ SameKind(row'[g], row[g])
                                   /\ c \in row[g].children => c \in row'[g].children
    BY <2>1 DEF SameStatus, SameLinks
  <2>5. g = r => c \in op'[t].todo
    BY <2>1, <2>2 DEF Pair
  <2>6. \A s \in Callers : op'[s].obj = g =>
           /\ op'[s].pc = "link" => op'[s] = op[s]
           /\ op'[s].pc \in {"undo", "deinit"} => op'[s] = op[s] \/ c \in op'[s].todo
    BY <2>1, <2>5 DEF OnlyOp
  <2> QED
    BY <2>2, <2>3, <2>4, <2>6, PairKept
<1>5. ASSUME NEW t \in Callers, NEW c0 \in Rows, LinkChild(t, c0)
      PROVE  Pairs'
  <2>1. PICK g0 : g0 = op[t].obj
    OBVIOUS
  <2>2. /\ g0 \in Rows /\ c0 # g0 /\ op[t].pc = "link" /\ c0 \in op[t].todo /\ OnlyOp(t)
        /\ UNCHANGED bitmap
        /\ \/ LinkRefuses(t, c0, g0)
           \/ /\ LinkCounts(t, c0, g0) \/ LinkInherits(t, c0, g0)
              /\ op'[t].pc = "link" /\ op'[t].obj = g0
              /\ op'[t].todo = op[t].todo \ {c0} /\ op'[t].seen = op[t].seen \cup {c0}
    BY <1>5, <2>1, LinkEffect
  <2>3. Valid(g0) /\ row[g0].type = "group" /\ g0 \in bitmap
    BY <2>1, <2>2 DEF Owned, Owner
  <2>4. CASE LinkRefuses(t, c0, g0)
    <3> SUFFICES ASSUME NEW c \in Rows, NEW g \in Rows, g \in row'[c].parents
                 PROVE  Pair(c, g)'
      BY DEF Pairs
    <3>1. Pair(c, g)
      BY <2>4 DEF Pairs, LinkRefuses, OnlyRows, SameLinks
    <3>2. row[c].type = "indv" /\ row[c].state # Invalid
      BY <3>1 DEF Pair, Valid
    <3>3. c # g0 /\ row'[c] = row[c]
      BY <2>3, <2>4, <3>2 DEF LinkRefuses, OnlyRows
    <3>4. row'[c].state # Invalid /\ g \in bitmap' /\ SameKind(row'[c], row[c])
      BY <2>2, <3>1, <3>2, <3>3 DEF Pair, SameKind
    <3>5. row'[g].state # Invalid => /\ row[g].state # Invalid /\ SameKind(row'[g], row[g])
                                     /\ c \in row[g].children => c \in row'[g].children
      BY <2>4 DEF LinkRefuses, OnlyRows, SameKind
    <3>6. g = g0 => c \in op[t].seen
      BY <2>1, <2>2, <3>1 DEF Pair
    <3>7. \A s \in Callers : op'[s].obj = g =>
             /\ op'[s].pc = "link" => op'[s] = op[s]
             /\ op'[s].pc \in {"undo", "deinit"} => op'[s] = op[s] \/ c \in op'[s].todo
      BY <2>2, <2>4, <3>6 DEF LinkRefuses, OnlyOp
    <3> QED
      BY <3>1, <3>4, <3>5, <3>7, PairKept
  <2>5. CASE /\ LinkInherits(t, c0, g0)
             /\ op'[t].pc = "link" /\ op'[t].obj = g0
             /\ op'[t].todo = op[t].todo \ {c0} /\ op'[t].seen = op[t].seen \cup {c0}
    <3>1. /\ OnlyRows({g0}) /\ SameKind(row'[g0], row[g0]) /\ SameLinks(row'[g0], row[g0])
          /\ row'[g0].state # Invalid
      BY <2>3, <2>5, Names DEF LinkInherits, Valid, IsSignaled
    <3>2. \A q \in Rows : /\ row'[q].parents \subseteq row[q].parents /\ SameKind(row'[q], row[q])
                          /\ row'[q].state = Invalid <=> row[q].state = Invalid
                          /\ row[q].children \subseteq row'[q].children
      BY <2>3, <3>1 DEF OnlyRows, SameKind, SameLinks, Valid
    <3>3. \A s \in Callers :
             \/ op'[s] = op[s]
             \/ /\ op'[s].pc = "link" /\ op[s].pc = "link" /\ op'[s].obj = op[s].obj
                /\ op'[s].todo \subseteq op[s].todo /\ op[s].seen \subseteq op'[s].seen
      BY <2>1, <2>2, <2>5 DEF OnlyOp
    <3> QED
      BY <2>2, <3>2, <3>3, PairsKept
  <2>6. CASE /\ LinkCounts(t, c0, g0)
             /\ op'[t].pc = "link" /\ op'[t].obj = g0
             /\ op'[t].todo = op[t].todo \ {c0} /\ op'[t].seen = op[t].seen \cup {c0}
    <3>1. /\ row[c0].type = "indv" /\ row[c0].state = Active /\ OnlyRows({g0, c0})
          /\ row'[g0].children = row[g0].children \cup {c0} /\ row'[g0].parents = row[g0].parents
          /\ SameKind(row'[g0], row[g0]) /\ SameStatus(row'[g0], row[g0])
          /\ row'[c0].parents = row[c0].parents \cup {g0} /\ row'[c0].children = row[c0].children
          /\ SameKind(row'[c0], row[c0]) /\ SameStatus(row'[c0], row[c0])
      BY <2>6 DEF LinkCounts
    <3>2. \A q \in Rows : /\ SameKind(row'[q], row[q]) /\ row'[q].state = row[q].state
                          /\ row[q].children \subseteq row'[q].children
      BY <3>1 DEF OnlyRows, SameKind, SameStatus
    <3> SUFFICES ASSUME NEW c \in Rows, NEW g \in Rows, g \in row'[c].parents
                 PROVE  Pair(c, g)'
      BY DEF Pairs
    <3>3. CASE c = c0 /\ g = g0
      <4>1. Valid(c)' /\ row'[c].type = "indv" /\ g \in bitmap'
        BY <2>2, <2>3, <3>1, <3>3, Names DEF Valid, SameKind, SameStatus
      <4>2. c \in row'[g].children /\ row'[g].type = "group"
        BY <2>3, <3>1, <3>3 DEF SameKind
      <4>3. \A s \in Callers \ {t} : Owner(s) => op[s].obj # g0
        BY <2>1, <2>2 DEF Owned, Owner
      <4>4. \A s \in Callers : op'[s].obj = g =>
              /\ op'[s].pc = "link" => c \notin op'[s].todo /\ c \in op'[s].seen
              /\ op'[s].pc \in {"undo", "deinit"} => c \in op'[s].todo
        BY <2>2, <2>6, <3>3, <4>3 DEF OnlyOp, Owner
      <4> QED
        BY <4>1, <4>2, <4>4 DEF Pair
    <3>4. CASE ~(c = c0 /\ g = g0)
      <4>1. g \in row[c].parents
        BY <3>1, <3>4 DEF OnlyRows
      <4>2. Pair(c, g)
        BY <4>1 DEF Pairs
      <4>3. row'[c].state # Invalid /\ g \in bitmap'
        BY <2>2, <3>2, <4>2 DEF Pair, Valid
      <4>4. \A s \in Callers : op'[s].obj = g =>
               /\ op'[s].pc = "link" => /\ op[s].pc = "link" /\ op[s].obj = g
                                        /\ op'[s].todo \subseteq op[s].todo
                                        /\ op[s].seen \subseteq op'[s].seen
               /\ op'[s].pc \in {"undo", "deinit"} => op'[s] = op[s]
        BY <2>1, <2>2, <2>6 DEF OnlyOp
      <4> QED
        BY <3>2, <4>2, <4>3, <4>4, PairKept
    <3> QED
      BY <3>3, <3>4
  <2> QED
    BY <2>2, <2>4, <2>5, <2>6
<1>6. ASSUME NEW t \in Callers, MergeEnd(t)
      PROVE  Pairs'
  <2>1. PICK g : g = op[t].obj
    OBVIOUS
  <2>2. /\ op[t].pc = "link" /\ g \in Rows /\ OnlyOp(t) /\ op'[t] = Idle
        /\ UNCHANGED bitmap /\ OnlyRows({g}) /\ SameKind(row'[g], row[g]) /\ SameLinks(row'[g], row[g])
        /\ row'[g].state \in {row[g].state, Success}
    BY <1>6, <2>1, MergeEndEffect
  <2>3. Valid(g)
    BY <2>1, <2>2 DEF Owned
  <2>4. \A q \in Rows : /\ row'[q].parents \subseteq row[q].parents /\ SameKind(row'[q], row[q])
                        /\ row'[q].state = Invalid <=> row[q].state = Invalid
                        /\ row[q].children \subseteq row'[q].children
    BY <2>2, <2>3, Names DEF OnlyRows, SameKind, SameLinks, Valid
  <2>5. \A s \in Callers : op'[s] = op[s] \/ op'[s] = Idle
    BY <2>2 DEF OnlyOp
  <2> QED
    BY <2>2, <2>4, <2>5, PairsKept
<1>7. ASSUME NEW t \in Callers, NEW c0 \in Rows, UnlinkChild(t, c0) \/ UnlinkFromChild(t, c0)
      PROVE  Pairs'
  <2>1. PICK g0 : g0 = op[t].obj
    OBVIOUS
  <2>2. /\ g0 \in Rows /\ UNCHANGED bitmap /\ OnlyRows({c0}) /\ OnlyOp(t)
        /\ row'[c0].parents = row[c0].parents \ {g0} \/ (~Valid(c0) /\ row'[c0].parents = row[c0].parents)
        /\ row'[c0].children = row[c0].children
        /\ SameKind(row'[c0], row[c0]) /\ SameStatus(row'[c0], row[c0])
        /\ op[t].pc \in {"undo", "deinit"}
        /\ op'[t].pc = op[t].pc /\ op'[t].obj = g0 /\ op'[t].todo = op[t].todo \ {c0}
    <3>1. CASE UnlinkChild(t, c0)
      BY <2>1, <3>1, UnlinkEffect
    <3>2. CASE UnlinkFromChild(t, c0)
      BY <2>1, <3>2, UnlinkFromChildEffect
    <3> QED
      BY <1>7, <3>1, <3>2
  <2>3. \A q \in Rows : /\ row'[q].parents \subseteq row[q].parents /\ SameKind(row'[q], row[q])
                        /\ row'[q].state = row[q].state /\ row'[q].children = row[q].children
    BY <2>2 DEF OnlyRows, SameKind, SameStatus
  <2> SUFFICES ASSUME NEW c \in Rows, NEW g \in Rows, g \in row'[c].parents
               PROVE  Pair(c, g)'
    BY DEF Pairs
  <2>4. Pair(c, g) /\ ~(c = c0 /\ g = g0)
    BY <1>n, <2>2, <2>3 DEF Pairs
  <2>5. row'[c].state # Invalid /\ g \in bitmap'
    BY <2>2, <2>3, <2>4 DEF Pair, Valid
  <2>6. g = g0 => c \in op'[t].todo
    BY <2>1, <2>2, <2>4 DEF Pair
  <2>7. \A s \in Callers : op'[s].obj = g =>
           /\ op'[s].pc = "link" => op'[s] = op[s]
           /\ op'[s].pc \in {"undo", "deinit"} => op'[s] = op[s] \/ c \in op'[s].todo
    BY <2>2, <2>6 DEF OnlyOp
  <2> QED
    BY <2>3, <2>4, <2>5, <2>7, PairKept
<1>8. ASSUME NEW t \in Callers, NEW p \in Rows, UnlinkFromParent(t, p)
      PROVE  Pairs'
  <2>1. PICK r : r = op[t].obj
    OBVIOUS
  <2>2. /\ r \in Rows /\ UNCHANGED bitmap /\ OnlyRows({p}) /\ OnlyOp(t)
        /\ row[p].children \ {r} \subseteq row'[p].children
        /\ row'[p].parents = row[p].parents
        /\ SameKind(row'[p], row[p]) /\ SameStatus(row'[p], row[p])
        /\ op[t].pc = "deinit" /\ op[t].todo = {}
        /\ op'[t].pc = "deinit" /\ op'[t].obj = r /\ op'[t].todo = {}
    BY <1>8, <2>1, UnlinkFromParentEffect
  <2>3. ~Valid(r)
    BY <2>1, <2>2 DEF Owned
  <2>4. \A q \in Rows : /\ row'[q].parents = row[q].parents /\ SameKind(row'[q], row[q])
                        /\ row'[q].state = row[q].state /\ row[q].children \ {r} \subseteq row'[q].children
    BY <2>2 DEF OnlyRows, SameKind, SameStatus
  <2> SUFFICES ASSUME NEW c \in Rows, NEW g \in Rows, g \in row'[c].parents
               PROVE  Pair(c, g)'
    BY DEF Pairs
  <2>5. Pair(c, g) /\ c # r
    BY <1>n, <2>3, <2>4 DEF Pairs
  <2>6. g # r
    BY <2>1, <2>2, <2>5 DEF Pair
  <2>7. row'[c].state # Invalid /\ g \in bitmap'
    BY <2>2, <2>4, <2>5 DEF Pair, Valid
  <2>8. \A s \in Callers : op'[s].obj = g => op'[s] = op[s]
    BY <2>2, <2>6 DEF OnlyOp
  <2> QED
    BY <2>4, <2>5, <2>7, <2>8, PairKept
<1>9. ASSUME NEW t \in Callers, MergeFails(t) \/ DeinitEnd(t)
      PROVE  Pairs'
  <2>1. PICK g0 : g0 = op[t].obj
    OBVIOUS
  <2>2. /\ op[t].pc \in {"undo", "deinit"} /\ op[t].todo = {} /\ g0 \in Rows /\ OnlyOp(t) /\ op'[t] = Idle
        /\ bitmap' = bitmap \ {g0} /\ OnlyRows({g0})
        /\ row'[g0].parents \subseteq row[g0].parents
    BY <1>9, <2>1, MergeFailsEffect, DeinitEndEffect
  <2>3. ~Valid(g0)
    BY <2>1, <2>2 DEF Owned
  <2> SUFFICES ASSUME NEW c \in Rows, NEW g \in Rows, g \in row'[c].parents
               PROVE  Pair(c, g)'
    BY DEF Pairs
  <2>4. c # g0 /\ row'[c] = row[c] /\ Pair(c, g)
    BY <1>n, <2>2, <2>3 DEF Pairs, OnlyRows
  <2>5. g # g0
    BY <2>1, <2>2, <2>4 DEF Pair
  <2>6. row'[g] = row[g] /\ row'[c].state # Invalid /\ g \in bitmap' /\ SameKind(row'[c], row[c])
        /\ SameKind(row'[g], row[g])
    BY <2>2, <2>4, <2>5 DEF Pair, Valid, OnlyRows, SameKind
  <2>7. \A s \in Callers : op'[s].obj = g =>
           /\ op'[s].pc = "link" => op'[s] = op[s]
           /\ op'[s].pc \in {"undo", "deinit"} => op'[s] = op[s]
    BY <1>i, <2>2 DEF OnlyOp
  <2> QED
    BY <2>4, <2>6, <2>7, PairKept
<1>10. ASSUME NEW t \in Callers, NEW p \in Rows, TellParent(t, p)
      PROVE  Pairs'
  <2>1. /\ op[t].pc = "tell" /\ UNCHANGED bitmap /\ OnlyRows({p}) /\ OnlyOp(t)
        /\ row'[p].state = UpdateParentState(row[p].state, op[t].status)
        /\ SameKind(row'[p], row[p]) /\ SameLinks(row'[p], row[p])
        /\ op'[t] = Idle \/ op'[t].pc = "tell"
    BY <1>10, TellEffect
  <2>2. IsSignaled(op[t].status)
    BY <2>1 DEF Owned
  <2>3. \A q \in Rows : /\ row'[q].parents \subseteq row[q].parents /\ SameKind(row'[q], row[q])
                        /\ row'[q].state = Invalid <=> row[q].state = Invalid
                        /\ row[q].children \subseteq row'[q].children
    BY <2>1, <2>2, Names DEF OnlyRows, SameKind, SameLinks, UpdateParentState, IsSignaled
  <2>4. \A s \in Callers : op'[s] = op[s] \/ op'[s] = Idle \/ op'[s].pc = "tell"
    BY <2>1 DEF OnlyOp
  <2> QED
    BY <2>1, <2>3, <2>4, PairsKept
<1> QED
  BY <1>1, <1>2, <1>3, <1>4, <1>5, <1>6, <1>7, <1>8, <1>9, <1>10, Steps

-----------------------------------------------------------------------------
(* What a group counts. *)

Kids(g) == {c \in Rows : g \in row[c].parents}
Tellers(g) == {t \in Callers : op[t].pc = "tell" /\ g \in op[t].todo}

\* remaining of row g is right.
Exact(g) ==
  row[g].remaining = Cardinality(Kids(g)) + Cardinality(Tellers(g)) + row[g].orphaned

\* So is that of every valid row; a signal is on its way to groups only, and
\* only these lose children.
Right(g) ==
  Exact(g) /\ (row[g].type = "indv" => Tellers(g) = {} /\ row[g].orphaned = 0)

Counts == \A g \in Rows : Valid(g) => Right(g)

\* There are finitely many rows and callers, so that counting makes sense.
LEMMA FiniteCounts ==
  ASSUME NEW g
  PROVE  /\ IsFiniteSet(Kids(g)) /\ IsFiniteSet(Tellers(g))
         /\ Cardinality(Kids(g)) \in Nat /\ Cardinality(Tellers(g)) \in Nat
<1>1. IsFiniteSet(Rows)
  BY RowsAssumption, FS_Interval DEF Rows
<1>2. IsFiniteSet(Callers)
  BY NamesAssumption, FS_AddElement DEF Callers
<1>3. IsFiniteSet(Kids(g)) /\ IsFiniteSet(Tellers(g))
  BY <1>1, <1>2, FS_Subset DEF Kids, Tellers
<1> QED
  BY <1>3, FS_CardinalityType

\* No row is valid at the start.
LEMMA CountsInit == Init => Counts
<1> SUFFICES ASSUME Init, NEW g \in Rows PROVE ~Valid(g)
  BY DEF Counts
<1> QED
  BY DEF Init, Zero, Valid

\* A count that nothing touches.
LEMMA ExactSame ==
  ASSUME NEW g, Exact(g), SameCount(row'[g], row[g]), Kids(g)' = Kids(g), Tellers(g)' = Tellers(g)
  PROVE  Exact(g)'
BY DEF Exact, SameCount

\* A child is signaled: it leaves the list of the children, and who signals it
\* joins those that are to tell the group.
LEMMA ExactSignal ==
  ASSUME Types, NEW g \in Rows, Exact(g), SameCount(row'[g], row[g]),
         NEW r \in Kids(g), Kids(g)' = Kids(g) \ {r},
         NEW t, t \notin Tellers(g), Tellers(g)' = Tellers(g) \cup {t}
  PROVE  Exact(g)'
<1>1. Cardinality(Kids(g)') = Cardinality(Kids(g)) - 1
  BY FiniteCounts, FS_RemoveElement
<1>2. Cardinality(Tellers(g)') = Cardinality(Tellers(g)) + 1
  BY FiniteCounts, FS_AddElement
<1>3. row[g].remaining \in Int /\ row[g].orphaned \in Nat
  BY DEF Types, RowType
<1>4. Cardinality(Kids(g)) \in Nat /\ Cardinality(Tellers(g)) \in Nat
  BY FiniteCounts
<1> QED
  BY <1>1, <1>2, <1>3, <1>4 DEF Exact, SameCount

\* A child is destroyed before it is signaled.
LEMMA ExactOrphan ==
  ASSUME Types, NEW g \in Rows, Exact(g), NEW r \in Kids(g), Kids(g)' = Kids(g) \ {r},
         row'[g].remaining = row[g].remaining, row'[g].orphaned = row[g].orphaned + 1,
         Tellers(g)' = Tellers(g)
  PROVE  Exact(g)'
<1>1. Cardinality(Kids(g)') = Cardinality(Kids(g)) - 1
  BY FiniteCounts, FS_RemoveElement
<1>3. row[g].remaining \in Int /\ row[g].orphaned \in Nat
  BY DEF Types, RowType
<1>4. Cardinality(Kids(g)) \in Nat /\ Cardinality(Tellers(g)) \in Nat
  BY FiniteCounts
<1> QED
  BY <1>1, <1>3, <1>4 DEF Exact

\* A child is linked.
LEMMA ExactLink ==
  ASSUME Types, NEW g \in Rows, Exact(g), NEW c, c \notin Kids(g), Kids(g)' = Kids(g) \cup {c},
         row'[g].remaining = row[g].remaining + 1, row'[g].orphaned = row[g].orphaned,
         Tellers(g)' = Tellers(g)
  PROVE  Exact(g)'
<1>1. Cardinality(Kids(g)') = Cardinality(Kids(g)) + 1
  BY FiniteCounts, FS_AddElement, ZenonT(60)
<1>3. row[g].remaining \in Int /\ row[g].orphaned \in Nat
  BY DEF Types, RowType
<1>4. Cardinality(Kids(g)) \in Nat /\ Cardinality(Tellers(g)) \in Nat
  BY FiniteCounts
<1> QED
  BY <1>1, <1>3, <1>4 DEF Exact

\* The group is told.
LEMMA ExactTell ==
  ASSUME Types, NEW g \in Rows, Exact(g), NEW t \in Tellers(g), Tellers(g)' = Tellers(g) \ {t},
         row'[g].remaining = row[g].remaining - 1, row'[g].orphaned = row[g].orphaned,
         Kids(g)' = Kids(g)
  PROVE  Exact(g)'
<1>1. Cardinality(Tellers(g)') = Cardinality(Tellers(g)) - 1
  BY FiniteCounts, FS_RemoveElement
<1>3. row[g].remaining \in Int /\ row[g].orphaned \in Nat
  BY DEF Types, RowType
<1>4. Cardinality(Kids(g)) \in Nat /\ Cardinality(Tellers(g)) \in Nat
  BY FiniteCounts
<1> QED
  BY <1>1, <1>3, <1>4 DEF Exact

\* A row that is taken counts nobody: nobody lists it and, if rows are not
\* taken too early, no signal is on its way to it.
LEMMA ExactNew ==
  ASSUME NEW g, Kids(g)' = {}, Tellers(g)' = {}, row'[g].remaining = 0, row'[g].orphaned = 0
  PROVE  Exact(g)'
BY FS_EmptySet DEF Exact

\* A row whose children, tellers and counts are the same stays right.
LEMMA RightSame ==
  ASSUME NEW g, Right(g), SameKind(row'[g], row[g]), SameCount(row'[g], row[g]),
         Kids(g)' = Kids(g), Tellers(g)' = Tellers(g)
  PROVE  Right(g)'
<1>1. Exact(g)'
  BY ExactSame DEF Right
<1> QED
  BY <1>1 DEF Right, SameKind, SameCount

\* Groups have the children they had if no row changes its parents.
LEMMA KidsSame ==
  ASSUME NEW g, \A c \in Rows : g \in row'[c].parents <=> g \in row[c].parents
  PROVE  Kids(g)' = Kids(g)
BY DEF Kids

\* A call that tells nobody before and after changes no teller.
LEMMA TellersSame ==
  ASSUME NEW t \in Callers, OnlyOp(t), op[t].pc # "tell", op'[t].pc # "tell", NEW g
  PROVE  Tellers(g)' = Tellers(g)
BY DEF OnlyOp, Tellers

\* A step of a call that tells nobody, after which row f, if it is valid, is
\* right, and which keeps what the other rows count.
LEMMA CountsKept ==
  ASSUME Counts, NEW t \in Callers, OnlyOp(t), op[t].pc # "tell", op'[t].pc # "tell",
         NEW f, row'[f].state # Invalid => Right(f)',
         \A g \in Rows \ {f} :
           row'[g].state # Invalid => /\ row[g].state # Invalid /\ SameKind(row'[g], row[g])
                                      /\ SameCount(row'[g], row[g])
                                      /\ \A c \in Rows : g \in row'[c].parents <=> g \in row[c].parents
  PROVE  Counts'
<1> SUFFICES ASSUME NEW g \in Rows, row'[g].state # Invalid PROVE Right(g)'
  BY DEF Counts, Valid
<1>1. CASE g # f
  <2>1. Right(g) /\ SameKind(row'[g], row[g]) /\ SameCount(row'[g], row[g])
    BY <1>1 DEF Counts, Valid
  <2>2. Kids(g)' = Kids(g) /\ Tellers(g)' = Tellers(g)
    BY <1>1, KidsSame, TellersSame
  <2> QED
    BY <2>1, <2>2, RightSame
<1> QED
  BY <1>1

\* Every action keeps the counts, if rows are not taken too early.
LEMMA CountsStep ==
  ASSUME QuietReuse
  PROVE  Types /\ CloserFree /\ Owned /\ Pairs /\ Counts /\ [Next]_vars => Counts'
<1> SUFFICES ASSUME Types, CloserFree, Owned, Pairs, Counts, [Next]_vars PROVE Counts'
  OBVIOUS
<1>i. Idle.pc = "idle"
  BY DEF Idle
<1>n. \A c, g \in Rows : ~Valid(c) => g \notin row[c].parents
  BY DEF Pairs, Pair
<1>p. \A c \in Rows : row[c].parents \subseteq Rows
  BY DEF Types, RowType
<1>1. CASE Rests
  <2> SUFFICES ASSUME NEW g \in Rows, row'[g].state # Invalid PROVE Right(g)'
    BY DEF Counts, Valid
  <2>1. /\ SameKind(row'[g], row[g]) /\ SameCount(row'[g], row[g]) /\ row'[g].state = row[g].state
        /\ \A c \in Rows : row'[c].parents = row[c].parents
    BY <1>1 DEF Rests, QuietRows, SameStatus, SameLinks
  <2>2. Kids(g)' = Kids(g)
    BY <2>1, KidsSame
  <2>3. Tellers(g)' = Tellers(g)
    BY <1>1 DEF Rests, Tellers
  <2> QED
    BY <2>1, <2>2, <2>3, RightSame DEF Counts, Valid
<1>2. ASSUME NEW t \in Callers, NEW type \in {"indv", "group"}, Takes(t, type)
      PROVE  Counts'
  <2>1. PICK f : f = FirstFree
    OBVIOUS
  <2>2. /\ f \in Rows /\ f \notin bitmap /\ OnlyRows({f})
        /\ row'[f].parents = {} /\ row'[f].remaining = 0 /\ row'[f].orphaned = 0 /\ ~Telling(f)
    BY <1>2, <2>1, TakeEffect DEF Takes
  <2>3. ~Valid(f)
    BY <2>2 DEF Owned
  <2>4. row[f].parents = {}
    BY <1>n, <1>p, <2>2, <2>3
  <2>5. \A c \in Rows : row'[c].parents = row[c].parents
    BY <2>2, <2>4 DEF OnlyRows
  <2>6. OnlyOp(t) /\ op[t].pc # "tell" /\ op'[t].pc # "tell"
    BY <1>2, <1>i DEF Takes, Ready, OnlyOp
  <2>7. Kids(f)' = {}
    <3>1. \A c \in Rows : f \notin row[c].parents
      BY <2>2 DEF Pairs, Pair
    <3> QED
      BY <2>5, <3>1 DEF Kids
  <2>8. Tellers(f)' = {}
    <3>1. Tellers(f) = {}
      BY <2>2 DEF Telling, Tellers
    <3> QED
      BY <2>6, <3>1, TellersSame
  <2>9. Right(f)'
    BY <2>2, <2>7, <2>8, ExactNew DEF Right
  <2>10. \A g \in Rows \ {f} :
           row'[g].state # Invalid => /\ row[g].state # Invalid /\ SameKind(row'[g], row[g])
                                      /\ SameCount(row'[g], row[g])
    BY <2>2 DEF OnlyRows, SameKind, SameCount
  <2> QED
    BY <2>5, <2>6, <2>9, <2>10, CountsKept
<1>3. ASSUME NEW t \in Callers, NEW r \in Rows, NEW s \in {Success} \cup Failures, Signals(t, r, s)
      PROVE  Counts'
  <2>1. /\ OnlyRows({r}) /\ OnlyOp(t) /\ row[r].state = Active /\ row[r].type = "indv"
        /\ SameKind(row'[r], row[r]) /\ SameCount(row'[r], row[r]) /\ row'[r].parents = {}
        /\ IF row[r].parents = {} THEN op'[t] = Idle
           ELSE op'[t].pc = "tell" /\ op'[t].todo = row[r].parents
    BY <1>3 DEF Signals, SignalsRow
  <2>2. op[t].pc # "tell"
    BY <1>3, <1>i DEF Signals, Ready
  <2> SUFFICES ASSUME NEW g \in Rows, row'[g].state # Invalid PROVE Right(g)'
    BY DEF Counts, Valid
  <2>3. Right(g) /\ Valid(g)
    BY <2>1, Names DEF Counts, Valid, OnlyRows
  <2>4. SameKind(row'[g], row[g]) /\ SameCount(row'[g], row[g])
    BY <2>1 DEF OnlyRows, SameKind, SameCount
  <2>5. CASE g \in row[r].parents
    <3>1. row[g].type = "group"
      BY <2>3, <2>5 DEF Pairs, Pair
    <3>2. r \in Kids(g) /\ Kids(g)' = Kids(g) \ {r}
      BY <2>1, <2>5 DEF Kids, OnlyRows
    <3>3. t \notin Tellers(g) /\ Tellers(g)' = Tellers(g) \cup {t}
      BY <2>1, <2>2, <2>5 DEF Tellers, OnlyOp
    <3>4. Exact(g)'
      BY <2>3, <2>4, <3>2, <3>3, ExactSignal DEF Right
    <3> QED
      BY <2>4, <3>1, <3>4 DEF Right, SameKind
  <2>6. CASE g \notin row[r].parents
    <3>1. Kids(g)' = Kids(g)
      BY <2>1, <2>6 DEF Kids, OnlyRows
    <3>2. Tellers(g)' = Tellers(g)
      BY <1>i, <2>1, <2>2, <2>6 DEF Tellers, OnlyOp
    <3> QED
      BY <2>3, <2>4, <3>1, <3>2, RightSame
  <2> QED
    BY <2>5, <2>6
<1>4. ASSUME NEW t \in Callers, NEW r \in Rows, Destroys(t, r)
      PROVE  Counts'
  <2>1. /\ OnlyOp(t) /\ op'[t].pc = "deinit" /\ row'[r].state = Invalid /\ row'[r].parents = {}
        /\ \A q \in Rows \ {r} :
             /\ SameKind(row'[q], row[q]) /\ SameStatus(row'[q], row[q]) /\ SameLinks(row'[q], row[q])
             /\ row'[q].remaining = row[q].remaining
             /\ row'[q].orphaned = IF q \in row[r].parents THEN row[q].orphaned + 1
                                   ELSE row[q].orphaned
    BY <1>4, DeinitEffect DEF Destroys
  <2>2. op[t].pc # "tell"
    BY <1>4, <1>i DEF Destroys, Ready
  <2> SUFFICES ASSUME NEW g \in Rows, row'[g].state # Invalid PROVE Right(g)'
    BY DEF Counts, Valid
  <2>3. g # r /\ Right(g) /\ Valid(g)
    BY <2>1 DEF Counts, Valid, SameStatus
  <2>4. Tellers(g)' = Tellers(g)
    BY <2>1, <2>2, TellersSame
  <2>5. CASE g \in row[r].parents
    <3>1. row[g].type = "group"
      BY <2>3, <2>5 DEF Pairs, Pair
    <3>2. r \in Kids(g) /\ Kids(g)' = Kids(g) \ {r}
      BY <2>1, <2>5 DEF Kids, SameLinks
    <3>3. Exact(g)'
      BY <2>1, <2>3, <2>4, <2>5, <3>2, ExactOrphan DEF Right
    <3> QED
      BY <2>1, <2>3, <3>1, <3>3 DEF Right, SameKind
  <2>6. CASE g \notin row[r].parents
    <3>1. Kids(g)' = Kids(g)
      BY <2>1, <2>6 DEF Kids, SameLinks
    <3> QED
      BY <2>1, <2>3, <2>4, <2>6, <3>1, RightSame DEF SameCount
  <2> QED
    BY <2>5, <2>6
<1>5. ASSUME NEW t \in Callers, NEW c0 \in Rows, LinkChild(t, c0)
      PROVE  Counts'
  <2>1. PICK g0 : g0 = op[t].obj
    OBVIOUS
  <2>2. /\ g0 \in Rows /\ c0 # g0 /\ op[t].pc = "link" /\ c0 \in op[t].todo /\ OnlyOp(t)
        /\ LinkRefuses(t, c0, g0) \/ LinkCounts(t, c0, g0) \/ LinkInherits(t, c0, g0)
        /\ op'[t].pc \in {"link", "undo"}
    BY <1>5, <2>1, LinkEffect DEF LinkRefuses
  <2>3. Valid(g0) /\ row[g0].type = "group"
    BY <2>1, <2>2 DEF Owned
  <2>4. CASE LinkRefuses(t, c0, g0) \/ LinkInherits(t, c0, g0)
    <3>1. OnlyRows({g0}) /\ SameKind(row'[g0], row[g0]) /\ SameCount(row'[g0], row[g0])
          /\ SameLinks(row'[g0], row[g0])
      BY <2>4 DEF LinkRefuses, LinkInherits
    <3>2. \A c \in Rows : row'[c].parents = row[c].parents
      BY <3>1 DEF OnlyRows, SameLinks
    <3>3. Right(g0)
      BY <2>2, <2>3 DEF Counts
    <3>4. Right(g0)'
      BY <2>2, <3>1, <3>2, <3>3, RightSame, KidsSame, TellersSame
    <3>5. \A g \in Rows \ {g0} : row'[g] = row[g]
      BY <3>1 DEF OnlyRows
    <3> QED
      BY <2>2, <3>2, <3>4, <3>5, CountsKept DEF SameKind, SameCount
  <2>5. CASE LinkCounts(t, c0, g0)
    <3>1. /\ OnlyRows({g0, c0})
          /\ row'[g0].remaining = row[g0].remaining + 1 /\ row'[g0].orphaned = row[g0].orphaned
          /\ row'[g0].parents = row[g0].parents /\ SameKind(row'[g0], row[g0])
          /\ row'[c0].parents = row[c0].parents \cup {g0}
          /\ SameKind(row'[c0], row[c0]) /\ SameStatus(row'[c0], row[c0]) /\ SameCount(row'[c0], row[c0])
      BY <2>5 DEF LinkCounts
    <3>2. c0 \notin Kids(g0)
      BY <2>1, <2>2 DEF Kids, Pairs, Pair
    <3>3. Kids(g0)' = Kids(g0) \cup {c0}
      BY <2>2, <3>1 DEF Kids, OnlyRows
    <3>4. Tellers(g0)' = Tellers(g0)
      BY <2>2, TellersSame
    <3>5. Exact(g0)
      BY <2>2, <2>3 DEF Counts, Right
    <3>6. Right(g0)'
      <4>1. Exact(g0)'
        BY <2>2, <3>1, <3>2, <3>3, <3>4, <3>5, ExactLink
      <4> QED
        BY <2>3, <3>1, <4>1 DEF Right, SameKind
    <3>7. \A g \in Rows \ {g0} :
            /\ row'[g].state = row[g].state /\ SameKind(row'[g], row[g]) /\ SameCount(row'[g], row[g])
            /\ \A c \in Rows : g \in row'[c].parents <=> g \in row[c].parents
      BY <3>1 DEF OnlyRows, SameKind, SameStatus, SameCount
    <3> QED
      BY <2>2, <3>6, <3>7, CountsKept
  <2> QED
    BY <2>2, <2>4, <2>5
<1>6. ASSUME NEW t \in Callers, MergeEnd(t)
      PROVE  Counts'
  <2>1. PICK g0 : g0 = op[t].obj
    OBVIOUS
  <2>2. /\ op[t].pc = "link" /\ g0 \in Rows /\ OnlyOp(t) /\ op'[t] = Idle
        /\ OnlyRows({g0}) /\ SameKind(row'[g0], row[g0]) /\ SameCount(row'[g0], row[g0])
        /\ SameLinks(row'[g0], row[g0])
    BY <1>6, <2>1, MergeEndEffect
  <2>3. Right(g0)
    BY <2>1, <2>2 DEF Counts, Owned
  <2>4. \A c \in Rows : row'[c].parents = row[c].parents
    BY <2>2 DEF OnlyRows, SameLinks
  <2>5. Right(g0)'
    BY <1>i, <2>2, <2>3, <2>4, RightSame, KidsSame, TellersSame
  <2>6. \A g \in Rows \ {g0} : row'[g] = row[g]
    BY <2>2 DEF OnlyRows
  <2> QED
    BY <1>i, <2>2, <2>4, <2>5, <2>6, CountsKept DEF SameKind, SameCount
<1>7. ASSUME NEW t \in Callers, NEW c0 \in Rows, UnlinkChild(t, c0) \/ UnlinkFromChild(t, c0)
      PROVE  Counts'
  <2>1. PICK g0 : g0 = op[t].obj
    OBVIOUS
  <2>2. /\ g0 \in Rows /\ OnlyRows({c0}) /\ OnlyOp(t)
        /\ row'[c0].parents = row[c0].parents \ {g0} \/ row'[c0].parents = row[c0].parents
        /\ SameKind(row'[c0], row[c0]) /\ SameStatus(row'[c0], row[c0]) /\ SameCount(row'[c0], row[c0])
        /\ op[t].pc \in {"undo", "deinit"} /\ op'[t].pc = op[t].pc
    <3>1. CASE UnlinkChild(t, c0)
      BY <2>1, <3>1, UnlinkEffect
    <3>2. CASE UnlinkFromChild(t, c0)
      BY <2>1, <3>2, UnlinkFromChildEffect
    <3> QED
      BY <1>7, <3>1, <3>2
  <2>3. row[g0].state = Invalid
    BY <2>1, <2>2 DEF Owned, Valid
  <2>4. \A g \in Rows : /\ row'[g].state = row[g].state /\ SameKind(row'[g], row[g])
                        /\ SameCount(row'[g], row[g])
    BY <2>2 DEF OnlyRows, SameKind, SameStatus, SameCount
  <2>5. \A g \in Rows \ {g0} : \A c \in Rows : g \in row'[c].parents <=> g \in row[c].parents
    BY <2>2 DEF OnlyRows
  <2> QED
    BY <2>2, <2>3, <2>4, <2>5, CountsKept
<1>8. ASSUME NEW t \in Callers, NEW p \in Rows, UnlinkFromParent(t, p)
      PROVE  Counts'
  <2>1. PICK r : r = op[t].obj
    OBVIOUS
  <2>2. /\ r \in Rows /\ OnlyRows({p}) /\ OnlyOp(t) /\ row'[p].parents = row[p].parents
        /\ SameKind(row'[p], row[p]) /\ SameStatus(row'[p], row[p]) /\ SameCount(row'[p], row[p])
        /\ op[t].pc = "deinit" /\ op'[t].pc = "deinit"
    BY <1>8, <2>1, UnlinkFromParentEffect
  <2>3. row[r].state = Invalid
    BY <2>1, <2>2 DEF Owned, Valid
  <2>4. \A g \in Rows : /\ row'[g].state = row[g].state /\ SameKind(row'[g], row[g])
                        /\ SameCount(row'[g], row[g]) /\ row'[g].parents = row[g].parents
    BY <2>2 DEF OnlyRows, SameKind, SameStatus, SameCount
  <2> QED
    BY <2>2, <2>3, <2>4, CountsKept
<1>9. ASSUME NEW t \in Callers, MergeFails(t) \/ DeinitEnd(t)
      PROVE  Counts'
  <2>1. PICK g0 : g0 = op[t].obj
    OBVIOUS
  <2>2. /\ op[t].pc \in {"undo", "deinit"} /\ g0 \in Rows /\ OnlyOp(t) /\ op'[t] = Idle
        /\ OnlyRows({g0}) /\ row'[g0].parents \subseteq row[g0].parents
        /\ row'[g0].state \in {Invalid, row[g0].state}
    BY <1>9, <2>1, MergeFailsEffect, DeinitEndEffect, SMTT(40) DEF SameStatus
  <2>3. ~Valid(g0)
    BY <2>1, <2>2 DEF Owned
  <2>4. row'[g0].state = Invalid /\ row[g0].parents = {}
    BY <1>n, <1>p, <2>2, <2>3 DEF Valid
  <2>5. \A g \in Rows \ {g0} : row'[g] = row[g]
    BY <2>2 DEF OnlyRows
  <2>6. \A c \in Rows : row'[c].parents = row[c].parents
    BY <2>2, <2>4, <2>5
  <2> QED
    BY <1>i, <2>2, <2>4, <2>5, <2>6, CountsKept DEF SameKind, SameCount
<1>10. ASSUME NEW t \in Callers, NEW p \in Rows, TellParent(t, p)
      PROVE  Counts'
  <2>1. /\ op[t].pc = "tell" /\ p \in op[t].todo /\ OnlyRows({p}) /\ OnlyOp(t)
        /\ row'[p].remaining = row[p].remaining - 1 /\ row'[p].orphaned = row[p].orphaned
        /\ row'[p].state = UpdateParentState(row[p].state, op[t].status)
        /\ SameKind(row'[p], row[p]) /\ SameLinks(row'[p], row[p])
        /\ IF op[t].todo = {p} THEN op'[t] = Idle
           ELSE op'[t].pc = "tell" /\ op'[t].todo = op[t].todo \ {p}
    BY <1>10, TellEffect
  <2> SUFFICES ASSUME NEW g \in Rows, row'[g].state # Invalid PROVE Right(g)'
    BY DEF Counts, Valid
  <2>2. Valid(g)
    BY <2>1, Names DEF Valid, OnlyRows, UpdateParentState
  <2>3. Right(g)
    BY <2>2 DEF Counts
  <2>4. Kids(g)' = Kids(g)
    BY <2>1 DEF Kids, OnlyRows, SameLinks
  <2>5. CASE g = p
    <3>1. t \in Tellers(g) /\ Tellers(g)' = Tellers(g) \ {t}
      BY <1>i, <2>1, <2>5 DEF Tellers, OnlyOp
    <3>2. row[g].type # "indv"
      BY <2>3, <3>1 DEF Right
    <3>3. Exact(g)'
      BY <2>1, <2>3, <2>4, <2>5, <3>1, ExactTell DEF Right
    <3> QED
      BY <2>1, <2>5, <3>2, <3>3 DEF Right, SameKind
  <2>6. CASE g # p
    <3>1. Tellers(g)' = Tellers(g)
      BY <1>i, <2>1, <2>6 DEF Tellers, OnlyOp
    <3>2. row'[g] = row[g]
      BY <2>1, <2>6 DEF OnlyRows
    <3> QED
      BY <2>3, <2>4, <3>1, <3>2, RightSame DEF SameKind, SameCount
  <2> QED
    BY <2>5, <2>6
<1> QED
  BY <1>1, <1>2, <1>3, <1>4, <1>5, <1>6, <1>7, <1>8, <1>9, <1>10, Steps

\* remaining is exact if no row is taken while a signal is on its way to it:
\* no child is counted down twice, or by the signal of another object.
THEOREM CamSyncRemainingExact ==
  ASSUME QuietReuse
  PROVE  Spec => []RemainingExact
<1> DEFINE I == Base /\ Pairs /\ Counts
<1>1. Init => I
  BY BaseInit, PairsInit, CountsInit
<1>2. I /\ [Next]_vars => I'
  BY BaseStep, PairsStep, CountsStep DEF Base
<1>3. I => RemainingExact
  BY DEF Counts, Right, Exact, Kids, Tellers, RemainingExact
<1> QED
  <2> HIDE DEF I
  <2> QED
    BY <1>1, <1>2, <1>3, PTL DEF Spec

\* The comment on remaining in cam_sync_private.h holds, a group counts at
\* least its children that are active, if no row is taken while a signal is on
\* its way to it: early reuse is all that breaks it.
THEOREM CamSyncCountsChildren ==
  ASSUME QuietReuse
  PROVE  Spec => []CountsChildren
<1> DEFINE I == Base /\ Pairs /\ Counts
<1>1. Init => I
  BY BaseInit, PairsInit, CountsInit
<1>2. I /\ [Next]_vars => I'
  BY BaseStep, PairsStep, CountsStep DEF Base
<1>3. I => CountsChildren
  <2> SUFFICES ASSUME I, NEW g \in Rows, Valid(g)
               PROVE  row[g].remaining
                        >= Cardinality({c \in Rows : row[c].state = Active /\ g \in row[c].parents})
    BY DEF CountsChildren
  <2> DEFINE A == {c \in Rows : row[c].state = Active /\ g \in row[c].parents}
  <2>1. A \subseteq Kids(g)
    BY DEF Kids
  <2>2. /\ IsFiniteSet(Kids(g)) /\ Cardinality(Kids(g)) \in Nat /\ Cardinality(Tellers(g)) \in Nat
    BY FiniteCounts
  <2>3. Cardinality(A) <= Cardinality(Kids(g)) /\ Cardinality(A) \in Nat
    BY <2>1, <2>2, FS_Subset, FS_CardinalityType
  <2>4. Exact(g) /\ row[g].orphaned \in Nat
    BY DEF Counts, Right, Base, Types, RowType
  <2> HIDE DEF A
  <2>5. row[g].remaining >= Cardinality(A)
    BY <2>2, <2>3, <2>4 DEF Exact
  <2> QED
    BY <2>5 DEF A
<1> QED
  <2> HIDE DEF I
  <2> QED
    BY <1>1, <1>2, <1>3, PTL DEF Spec

-----------------------------------------------------------------------------
(* Who waits is told. *)

\* Those that wait for an object have been told exactly if it is finally
\* signaled.
Served(x) ==
  LET final == IsSignaled(x.state) /\ x.remaining = 0
  IN /\ final <=> x.done
     /\ final => x.callbacks = {} /\ x.payloads = {}

\* Nobody has begun to wait, and nobody has been told.
Fresh(x) == ~x.done /\ x.callbacks = {} /\ x.payloads = {}

\* The row of a merge is fresh until the merge unlocks it.
Told ==
  /\ \A r \in Rows : Valid(r) /\ Unlocked(r) => Served(row[r])
  /\ \A t \in Callers : op[t].pc = "link" => Fresh(row[op[t].obj])

\* No row is valid at the start, and no merge is under way.
LEMMA ToldInit == Init => Told
<1> SUFFICES ASSUME Init PROVE Told
  OBVIOUS
<1>1. \A r \in Rows : ~Valid(r)
  BY DEF Init, Zero, Valid
<1>2. \A t \in Callers : op[t].pc = "idle"
  BY DEF Init, Idle
<1> QED
  BY <1>1, <1>2 DEF Told

\* A step of call t that keeps all rows but f as they were, for who waits, and
\* locks or unlocks no other row.
LEMMA ToldKept ==
  ASSUME Types, CloserFree', Owned', Told, NEW t \in Callers, OnlyOp(t), NEW f,
         \A q \in Rows \ {f} :
           row'[q].state # Invalid => /\ SameStatus(row'[q], row[q]) /\ SameWaiters(row'[q], row[q])
                                      /\ row'[q].remaining = row[q].remaining,
         \A q \in Rows : row'[q].state # Invalid => row[q].state # Invalid \/ q = f,
         \A s \in Callers \ {t} : op[s].pc = "link" => op[s].obj # f,
         op[t].pc \in {"link", "undo"} => op[t].obj = f,
         op'[t].pc = "link" => op'[t].obj = f /\ Fresh(row'[f]),
         row'[f].state # Invalid /\ op'[t].pc # "link" => Served(row'[f])
  PROVE  Told'
<1>1. ASSUME NEW r \in Rows, Valid(r)', Unlocked(r)'
      PROVE  Served(row'[r])
  <2>1. CASE r = f
    <3>1. op'[t].pc = "link" => t \in Threads /\ op'[t].obj = f
      BY DEF CloserFree, Callers
    <3> QED
      BY <1>1, <2>1, <3>1 DEF Valid, Unlocked
  <2>2. CASE r # f
    <3>1. Valid(r) /\ Unlocked(r)
      BY <1>1, <2>2 DEF Valid, Unlocked, OnlyOp, Callers
    <3>2. Served(row[r])
      BY <3>1 DEF Told
    <3> QED
      BY <1>1, <2>2, <3>2 DEF Valid, Served, SameStatus, SameWaiters
  <2> QED
    BY <2>1, <2>2
<1>2. ASSUME NEW s \in Callers, op'[s].pc = "link"
      PROVE  Fresh(row'[op'[s].obj])
  <2>1. CASE s = t
    BY <1>2, <2>1
  <2>2. CASE s # t
    <3>1. op'[s] = op[s] /\ op[s].obj # f /\ op[s].obj \in Rows
      BY <1>2, <2>2 DEF OnlyOp, Types, OpType
    <3>2. row'[op'[s].obj].state # Invalid
      BY <1>2 DEF Owned, Valid
    <3>3. SameWaiters(row'[op[s].obj], row[op[s].obj])
      BY <3>1, <3>2
    <3> QED
      BY <1>2, <3>1, <3>3 DEF Told, Fresh, SameWaiters
  <2> QED
    BY <2>1, <2>2
<1> QED
  BY <1>1, <1>2 DEF Told

\* Every action tells who waits when the object is finally signaled.  The signal
\* of a child finds a group that is not: the group counts that child.
LEMMA ToldStep ==
  Base /\ Pairs /\ Counts /\ Told /\ Base' /\ [Next]_vars => Told'
<1> SUFFICES ASSUME Base, Pairs, Counts, Told, Base', [Next]_vars PROVE Told'
  OBVIOUS
<1>b. Types /\ CloserFree /\ Owned /\ Statuses /\ CloserFree' /\ Owned'
  BY DEF Base
<1>i. Idle.pc = "idle"
  BY DEF Idle
<1>o. ASSUME NEW t \in Callers, Owner(t)
      PROVE  \A s \in Callers \ {t} : op[s].pc = "link" => op[s].obj # op[t].obj
  BY <1>b, <1>o DEF Owned, Owner
<1>1. CASE Rests
  <2>1. UNCHANGED op /\ \A r \in Rows : Unlocked(r)' <=> Unlocked(r)
    BY <1>1 DEF Rests, Unlocked
  <2>2. ASSUME NEW r \in Rows, row'[r].state # Invalid, Unlocked(r)'
        PROVE  Served(row'[r])
    <3>1. /\ SameStatus(row'[r], row[r]) /\ SameCount(row'[r], row[r]) /\ row'[r].done = row[r].done
          /\ Done(r) => /\ row'[r].callbacks \subseteq row[r].callbacks
                        /\ row'[r].payloads \subseteq row[r].payloads
      BY <1>1 DEF Rests, QuietRows
    <3>2. Served(row[r])
      BY <2>1, <2>2, <3>1 DEF Told, Valid, SameStatus
    <3> QED
      BY <3>1, <3>2 DEF Served, Done, SameStatus, SameCount
  <2>3. ASSUME NEW s \in Callers, op[s].pc = "link"
        PROVE  Fresh(row'[op[s].obj])
    <3>1. op[s].obj \in Rows /\ ~Unlocked(op[s].obj)
      BY <1>b, <2>3 DEF Types, OpType, CloserFree, Callers, Unlocked
    <3>2. /\ row'[op[s].obj].done = row[op[s].obj].done
          /\ row'[op[s].obj].callbacks \subseteq row[op[s].obj].callbacks
          /\ row'[op[s].obj].payloads \subseteq row[op[s].obj].payloads
      BY <1>1, <3>1 DEF Rests, QuietRows
    <3> QED
      BY <2>3, <3>2 DEF Told, Fresh
  <2> QED
    BY <2>1, <2>2, <2>3 DEF Told, Valid
<1>2. ASSUME NEW t \in Callers, NEW type \in {"indv", "group"}, Takes(t, type)
      PROVE  Told'
  <2>1. PICK f : f = FirstFree
    OBVIOUS
  <2>2. /\ f \in Rows /\ f \notin bitmap /\ OnlyRows({f}) /\ row'[f].state = Active
        /\ row'[f].callbacks = {} /\ row'[f].payloads = {} /\ ~row'[f].done
    BY <1>2, <1>b, <2>1, TakeEffect DEF Takes
  <2>3. Served(row'[f]) /\ Fresh(row'[f])
    BY <2>2, Names DEF Served, Fresh, IsSignaled
  <2>4. OnlyOp(t) /\ op[t].pc = "idle" /\ (op'[t].pc = "link" => op'[t].obj = f)
    BY <1>2, <1>i, <2>1 DEF Takes, Ready, OnlyOp
  <2>5. \A s \in Callers : op[s].pc = "link" => op[s].obj # f
    BY <1>b, <2>2 DEF Owned, Owner
  <2>6. \A q \in Rows \ {f} : row'[q] = row[q]
    BY <2>2 DEF OnlyRows
  <2> QED
    BY <1>b, <2>3, <2>4, <2>5, <2>6, ToldKept DEF SameStatus, SameWaiters
<1>3. ASSUME NEW t \in Callers, NEW r \in Rows, NEW s \in {Success} \cup Failures, Signals(t, r, s)
      PROVE  Told'
  <2>1. /\ OnlyRows({r}) /\ OnlyOp(t) /\ row[r].state = Active /\ row[r].type = "indv"
        /\ row'[r].state = s /\ row'[r].remaining = row[r].remaining
        /\ row'[r].callbacks = {} /\ row'[r].payloads = {} /\ row'[r].done
        /\ op'[t] = Idle \/ op'[t].pc = "tell"
    BY <1>3 DEF Signals, SignalsRow, SameCount
  <2>2. row[r].remaining = 0
    BY <1>b, <2>1 DEF Statuses, Status
  <2>3. Served(row'[r])
    BY <2>1, <2>2 DEF Served, IsSignaled
  <2>4. op[t].pc = "idle" /\ op'[t].pc # "link"
    BY <1>3, <1>i, <2>1 DEF Signals, Ready
  <2>5. \A u \in Callers : op[u].pc = "link" => op[u].obj # r
    BY <1>b, <2>1 DEF Owned
  <2>6. \A q \in Rows \ {r} : row'[q] = row[q]
    BY <2>1 DEF OnlyRows
  <2>7. row[r].state # Invalid
    BY <2>1, Names
  <2> QED
    BY <1>b, <2>1, <2>3, <2>4, <2>5, <2>6, <2>7, ToldKept DEF SameStatus, SameWaiters
<1>4. ASSUME NEW t \in Callers, NEW r \in Rows, Destroys(t, r)
      PROVE  Told'
  <2>1. /\ OnlyOp(t) /\ op'[t].pc = "deinit" /\ row'[r].state = Invalid
        /\ \A q \in Rows \ {r} :
             /\ SameStatus(row'[q], row[q]) /\ SameWaiters(row'[q], row[q])
             /\ row'[q].remaining = row[q].remaining
    BY <1>4, <1>b, DeinitEffect DEF Destroys
  <2>2. op[t].pc = "idle" /\ \A s \in Callers : op[s].pc = "link" => op[s].obj # r
    BY <1>4, <1>i DEF Destroys, Ready
  <2>3. \A q \in Rows : row'[q].state # Invalid => row[q].state # Invalid
    BY <2>1 DEF SameStatus
  <2> QED
    BY <1>b, <2>1, <2>2, <2>3, ToldKept
<1>5. ASSUME NEW t \in Callers, NEW c0 \in Rows, LinkChild(t, c0)
      PROVE  Told'
  <2>1. PICK g0 : g0 = op[t].obj
    OBVIOUS
  <2>2. /\ g0 \in Rows /\ c0 # g0 /\ op[t].pc = "link" /\ OnlyOp(t)
        /\ \/ LinkRefuses(t, c0, g0) /\ op'[t].pc = "undo"
           \/ /\ LinkCounts(t, c0, g0) \/ LinkInherits(t, c0, g0)
              /\ op'[t].pc = "link" /\ op'[t].obj = g0
    BY <1>5, <1>b, <2>1, LinkEffect DEF LinkRefuses
  <2>3. row[g0].state # Invalid /\ Fresh(row[g0])
    BY <1>b, <2>1, <2>2 DEF Owned, Valid, Told
  <2>4. \A s \in Callers \ {t} : op[s].pc = "link" => op[s].obj # g0
    BY <1>o, <2>1, <2>2 DEF Owner
  <2>5. SameWaiters(row'[g0], row[g0]) /\ (op'[t].pc # "link" => row'[g0].state = Invalid)
    BY <2>2 DEF LinkRefuses, LinkCounts, LinkInherits
  <2>6. \A q \in Rows \ {g0} : /\ SameStatus(row'[q], row[q]) /\ SameWaiters(row'[q], row[q])
                               /\ row'[q].remaining = row[q].remaining
    BY <2>2 DEF LinkRefuses, LinkCounts, LinkInherits, OnlyRows, SameStatus, SameWaiters, SameCount
  <2>7. \A q \in Rows : row'[q].state # Invalid => row[q].state # Invalid
    BY <2>3, <2>6 DEF SameStatus
  <2>8. Fresh(row'[g0])
    BY <2>3, <2>5 DEF Fresh, SameWaiters
  <2> QED
    BY <1>b, <2>1, <2>2, <2>4, <2>5, <2>6, <2>7, <2>8, ToldKept
<1>6. ASSUME NEW t \in Callers, MergeEnd(t)
      PROVE  Told'
  <2>1. PICK g0 : g0 = op[t].obj
    OBVIOUS
  <2>2. /\ op[t].pc = "link" /\ g0 \in Rows /\ OnlyOp(t) /\ op'[t] = Idle /\ OnlyRows({g0})
        /\ SameCount(row'[g0], row[g0])
        /\ row'[g0].callbacks = row[g0].callbacks /\ row'[g0].payloads = row[g0].payloads
        /\ IF row[g0].remaining = 0
             THEN /\ row'[g0].state = IF row[g0].state \in Failures THEN row[g0].state ELSE Success
                  /\ row'[g0].done
             ELSE row'[g0].state = row[g0].state /\ row'[g0].done = row[g0].done
    BY <1>6, <1>b, <2>1, MergeEndEffect
  <2>3. Fresh(row[g0]) /\ row[g0].state # Invalid
    BY <1>b, <2>1, <2>2 DEF Owned, Valid, Told
  <2>4. Served(row'[g0])
    BY <2>2, <2>3 DEF Served, Fresh, IsSignaled, SameCount
  <2>5. \A s \in Callers \ {t} : op[s].pc = "link" => op[s].obj # g0
    BY <1>o, <2>1, <2>2 DEF Owner
  <2>6. \A q \in Rows \ {g0} : row'[q] = row[q]
    BY <2>2 DEF OnlyRows
  <2> QED
    BY <1>b, <1>i, <2>1, <2>2, <2>3, <2>4, <2>5, <2>6, ToldKept DEF SameStatus, SameWaiters
<1>7. ASSUME NEW t \in Callers, NEW c0 \in Rows,
             UnlinkChild(t, c0) \/ UnlinkFromChild(t, c0) \/ UnlinkFromParent(t, c0)
      PROVE  Told'
  <2>1. PICK g0 : g0 = op[t].obj
    OBVIOUS
  <2>2. /\ OnlyRows({c0}) /\ OnlyOp(t)
        /\ SameStatus(row'[c0], row[c0]) /\ SameCount(row'[c0], row[c0]) /\ SameWaiters(row'[c0], row[c0])
        /\ op[t].pc \in {"undo", "deinit"} /\ op'[t].pc = op[t].pc /\ g0 \in Rows
    <3>1. CASE UnlinkChild(t, c0)
      BY <1>b, <2>1, <3>1, UnlinkEffect
    <3>2. CASE UnlinkFromChild(t, c0)
      BY <1>b, <2>1, <3>2, UnlinkFromChildEffect
    <3>3. CASE UnlinkFromParent(t, c0)
      BY <1>b, <2>1, <3>3, UnlinkFromParentEffect
    <3> QED
      BY <1>7, <3>1, <3>2, <3>3
  <2>3. \A q \in Rows : /\ SameStatus(row'[q], row[q]) /\ SameWaiters(row'[q], row[q])
                        /\ row'[q].remaining = row[q].remaining
    BY <2>2 DEF OnlyRows, SameStatus, SameWaiters, SameCount
  <2>4. row'[g0].state = Invalid
    BY <1>b, <2>1, <2>2, <2>3 DEF Owned, Valid, SameStatus
  <2>5. \A s \in Callers \ {t} : op[s].pc = "link" => op[s].obj # g0
    BY <1>o, <2>1, <2>2 DEF Owner
  <2>6. \A q \in Rows : row'[q].state # Invalid => row[q].state # Invalid
    BY <2>3 DEF SameStatus
  <2> QED
    BY <1>b, <2>1, <2>2, <2>3, <2>4, <2>5, <2>6, ToldKept
<1>8. ASSUME NEW t \in Callers, MergeFails(t) \/ DeinitEnd(t)
      PROVE  Told'
  <2>1. PICK g0 : g0 = op[t].obj
    OBVIOUS
  <2>2. /\ op[t].pc \in {"undo", "deinit"} /\ g0 \in Rows /\ OnlyOp(t) /\ op'[t] = Idle
        /\ OnlyRows({g0}) /\ row'[g0].state \in {Invalid, row[g0].state}
    BY <1>8, <1>b, <2>1, MergeFailsEffect, DeinitEndEffect DEF SameStatus
  <2>3. row'[g0].state = Invalid
    BY <1>b, <2>1, <2>2 DEF Owned, Valid
  <2>4. \A q \in Rows \ {g0} : row'[q] = row[q]
    BY <2>2 DEF OnlyRows
  <2>5. \A s \in Callers \ {t} : op[s].pc = "link" => op[s].obj # g0
    BY <1>o, <2>1, <2>2 DEF Owner
  <2> QED
    BY <1>b, <1>i, <2>1, <2>2, <2>3, <2>4, <2>5, ToldKept DEF SameStatus, SameWaiters
<1>9. ASSUME NEW t \in Callers, NEW p \in Rows, TellParent(t, p)
      PROVE  Told'
  <2>1. /\ op[t].pc = "tell" /\ p \in op[t].todo /\ Unlocked(p) /\ OnlyRows({p}) /\ OnlyOp(t)
        /\ row'[p].remaining = row[p].remaining - 1
        /\ row'[p].state = UpdateParentState(row[p].state, op[t].status)
        /\ IF row'[p].remaining = 0 /\ row'[p].state # Invalid
             THEN row'[p].callbacks = {} /\ row'[p].payloads = {} /\ row'[p].done
             ELSE SameWaiters(row'[p], row[p])
        /\ op'[t] = Idle \/ op'[t].pc = "tell"
    BY <1>9, <1>b, TellEffect
  <2>2. IsSignaled(op[t].status) /\ row[p].state \in States
    BY <1>b, <2>1 DEF Owned, Types, RowType
  <2>3. row'[p].state # Invalid => row[p].state # Invalid /\ IsSignaled(row'[p].state)
    BY <2>1, <2>2, Names DEF UpdateParentState, IsSignaled, States
  <2>4. ASSUME row[p].state # Invalid
        PROVE  row[p].remaining # 0
    <3>1. Exact(p)
      BY <2>4 DEF Counts, Right, Valid
    <3>2. t \in Tellers(p)
      BY <2>1 DEF Tellers
    <3>3. Cardinality(Tellers(p)) # 0
      BY <3>2, FiniteCounts, FS_EmptySet
    <3>4. row[p].orphaned \in Nat /\ Cardinality(Kids(p)) \in Nat /\ Cardinality(Tellers(p)) \in Nat
      BY <1>b, FiniteCounts DEF Types, RowType
    <3> QED
      BY <3>1, <3>3, <3>4 DEF Exact
  <2>5. row'[p].state # Invalid => Served(row'[p])
    <3> SUFFICES ASSUME row'[p].state # Invalid PROVE Served(row'[p])
      OBVIOUS
    <3>1. row[p].state # Invalid /\ IsSignaled(row'[p].state) /\ row[p].remaining # 0
      BY <2>3, <2>4
    <3>2. Served(row[p])
      BY <2>1, <3>1 DEF Told, Valid
    <3>3. ~row[p].done
      BY <3>1, <3>2 DEF Served
    <3>4. CASE row'[p].remaining = 0
      BY <2>1, <3>1, <3>4 DEF Served
    <3>5. CASE row'[p].remaining # 0
      BY <2>1, <3>3, <3>5 DEF Served, SameWaiters
    <3> QED
      BY <3>4, <3>5
  <2>6. \A s \in Callers : op[s].pc = "link" => op[s].obj # p
    BY <1>b, <2>1 DEF Unlocked, CloserFree, Callers
  <2>7. \A q \in Rows \ {p} : row'[q] = row[q]
    BY <2>1 DEF OnlyRows
  <2>8. op'[t].pc # "link"
    BY <1>i, <2>1
  <2> QED
    BY <1>b, <2>1, <2>3, <2>5, <2>6, <2>7, <2>8, ToldKept DEF SameStatus, SameWaiters
<1> QED
  BY <1>b, <1>1, <1>2, <1>3, <1>4, <1>5, <1>6, <1>7, <1>8, <1>9, Steps

\* Who waits for an object is told when it is finally signaled and not before,
\* whichever way registration, merge and signal overlap, if no row is taken
\* while a signal is on its way to it.
THEOREM CamSyncNoneForgotten ==
  ASSUME QuietReuse
  PROVE  Spec => []NoneForgotten
<1> DEFINE I == Base /\ Pairs /\ Counts /\ Told
<1>1. Init => I
  BY BaseInit, PairsInit, CountsInit, ToldInit
<1>2. I /\ [Next]_vars => I'
  BY BaseStep, PairsStep, CountsStep, ToldStep DEF Base
<1>3. I => NoneForgotten
  BY DEF Told, Served, Done, NoneForgotten
<1> QED
  <2> HIDE DEF I
  <2> QED
    BY <1>1, <1>2, <1>3, PTL DEF Spec

=============================================================================
