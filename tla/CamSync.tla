------------------------------- MODULE CamSync -------------------------------
(***************************************************************************)
(* The camera's sync objects: rows of a table that are signaled once, with *)
(* success or with a failure, and groups that merge several of them.  A    *)
(* group counts the children that have not been signaled (remaining), and  *)
(* each child lists the groups it is part of (parents).  Kernel clients    *)
(* register callbacks, which a workqueue runs, user space registers        *)
(* payloads, which come back as events.                                    *)
(*                                                                         *)
(* A row has a spinlock of its own.  A step is what one thread does under  *)
(* one row lock; cam_sync_merge keeps the lock of the new row while it     *)
(* locks the children in turn, and every other call drops its lock before  *)
(* it goes on to the next row, which it remembers by its number only.      *)
(* Setting the bit of a row and initialising it is one step: in between    *)
(* the row is INVALID for everyone, as it is before.  A wait changes       *)
(* nothing and blocks on done.  The lists are sets: their order is that of *)
(* the caller's arguments, and any order is possible.  The counts are      *)
(* compared with zero only, so they are integers.  An event sent to user   *)
(* space leaves the model.  Left out: sync objects tied to a dma-fence,    *)
(* allocations that fail, trigger_cb_without_switch.                       *)
(***************************************************************************)
EXTENDS Integers, FiniteSets

CONSTANTS
  CAM_SYNC_MAX_OBJS,
  Threads,       \* threads that call the driver
  Closer,        \* the thread that closes the device
  Clients,       \* kernel callbacks
  Payloads,      \* user payloads
  Failures,      \* CAM_SYNC_STATE_SIGNALED_ERROR, CAM_SYNC_STATE_SIGNALED_CANCEL
  QuietReuse,    \* no row is taken while a signal is on its way to it
  MaxCreates     \* bound: the objects that are created

Invalid == "invalid"
Active == "active"
Success == "success"
Error == "error"
None == 0                        \* no sync object has the number 0
Rows == 1 .. CAM_SYNC_MAX_OBJS - 1
States == {Invalid, Active, Success} \cup Failures
Callers == Threads \cup {Closer}

ASSUME RowsAssumption == CAM_SYNC_MAX_OBJS \in Nat \ {0} /\ MaxCreates \in Nat
ASSUME NamesAssumption ==
  /\ Closer \notin Threads /\ IsFiniteSet(Threads)
  /\ Error \in Failures /\ {Invalid, Active, Success} \cap Failures = {}
  /\ QuietReuse \in BOOLEAN

VARIABLES
  bitmap,   \* the rows in use
  row,      \* sync_table
  op,       \* the call of each thread
  holds,    \* thread: the object it has a reference to and will signal or put
  workq,    \* callbacks that were queued and have not run
  phase,    \* of the device: "open", or what cam_sync_close is doing
  sweep,    \* the row cam_sync_close has come to
  created   \* how many objects were created

vars == <<bitmap, row, op, holds, workq, phase, sweep, created>>

Zero == [type |-> "indv", state |-> Invalid, remaining |-> 0, parents |-> {},
         children |-> {}, callbacks |-> {}, payloads |-> {}, ref_cnt |-> 0,
         done |-> FALSE,
         spoiled |-> FALSE, orphaned |-> 0]   \* history: a child failed; children
                                              \* destroyed before they were signaled
Idle == [pc |-> "idle", obj |-> None, todo |-> {}, seen |-> {}, status |-> Invalid]

\* cam_sync_init_row
InitRow(type) == [Zero EXCEPT !.type = type, !.state = Active]

Init ==
  /\ bitmap = {}
  /\ row = [r \in Rows |-> Zero]
  /\ op = [t \in Callers |-> Idle]
  /\ holds = [t \in Threads |-> None]
  /\ workq = {}
  /\ phase = "open" /\ sweep = 1 /\ created = 0

Valid(r) == row[r].state # Invalid
IsSignaled(state) == state \in {Success} \cup Failures

\* The object is finally signaled: a group when none of its children remains.
Done(r) == IsSignaled(row[r].state) /\ row[r].remaining = 0

\* cam_sync_merge holds the lock of the row it fills.
Unlocked(r) == \A t \in Threads : op[t].pc \in {"link", "undo"} => op[t].obj # r

Telling(r) == \E t \in Callers : op[t].pc = "tell" /\ r \in op[t].todo

FirstFree == CHOOSE r \in Rows \ bitmap : \A q \in Rows \ bitmap : r <= q

\* A row is taken: the first that is free.
TakeRow(type) ==
  /\ bitmap # Rows /\ created < MaxCreates
  /\ QuietReuse => ~Telling(FirstFree)
  /\ bitmap' = bitmap \cup {FirstFree}
  /\ row' = [row EXCEPT ![FirstFree] = InitRow(type)]
  /\ created' = created + 1

Ready(t) == op[t] = Idle
Set(t, o) == op' = [op EXCEPT ![t] = o]

\* A call with rows to go on to, or its end.
Continue(t, o) == Set(t, IF o.todo = {} THEN Idle ELSE o)

-----------------------------------------------------------------------------
(* Creating and merging. *)

cam_sync_create(t) ==
  /\ phase = "open" /\ Ready(t)
  /\ TakeRow("indv")
  /\ UNCHANGED <<op, holds, workq, phase, sweep>>

\* cam_sync_merge, up to the loop over the children.  A client has been given
\* the numbers it passes: none of them is that of a merge under way.
cam_sync_merge(t, objs) ==
  /\ phase = "open" /\ Ready(t)
  /\ \A c \in objs : c \in bitmap /\ Valid(c) /\ Unlocked(c)
  /\ TakeRow("group")
  /\ Set(t, [Idle EXCEPT !.pc = "link", !.obj = FirstFree, !.todo = objs])
  /\ UNCHANGED <<holds, workq, phase, sweep>>

\* Mutant: the failure of a child that is already signaled is not looked at.
LinkedBlindly(group, c, child) ==
  IF child.state = Active
    THEN [group EXCEPT !.remaining = @ + 1, !.children = @ \cup {c}]
    ELSE [group EXCEPT !.spoiled = @ \/ child.state \in Failures]

\* What the group takes over from a child: it counts the active ones.
Linked(group, c, child) ==
  IF child.state = Active
    THEN [group EXCEPT !.remaining = @ + 1, !.children = @ \cup {c}]
    ELSE [group EXCEPT !.state = IF child.state \in Failures THEN child.state ELSE @,
                       !.spoiled = @ \/ child.state \in Failures]

\* Mutant: the row of a merge that fails stays valid.
RefusedQuietly(group) == group

\* The row of a merge that fails.
Refused(group) == [group EXCEPT !.state = Invalid]

\* The loop of cam_sync_init_group_object, one child at a time
LinkChild(t, c) ==
  LET g == op[t].obj
      refused == row[c].type = "group" \/ ~Valid(c)
  IN /\ op[t].pc = "link" /\ c \in op[t].todo /\ Unlocked(c)
     /\ IF refused
          THEN /\ row' = [row EXCEPT ![g] = Refused(@)]
               /\ Set(t, [op[t] EXCEPT !.pc = "undo", !.todo = op[t].seen])
          ELSE /\ row' = [row EXCEPT
                            ![g] = Linked(row[g], c, row[c]),
                            ![c].parents = IF row[c].state = Active THEN @ \cup {g} ELSE @]
               /\ Set(t, [op[t] EXCEPT !.todo = @ \ {c}, !.seen = @ \cup {c}])
     /\ UNCHANGED <<bitmap, holds, workq, phase, sweep, created>>

MergeEnd(t) ==
  LET g == op[t].obj
  IN /\ op[t].pc = "link" /\ op[t].todo = {}
     /\ row' = IF row[g].remaining = 0
                 THEN [row EXCEPT ![g].state = IF @ \in Failures THEN @ ELSE Success,
                                  ![g].done = TRUE]
                 ELSE row
     /\ Set(t, Idle)
     /\ UNCHANGED <<bitmap, holds, workq, phase, sweep, created>>

\* clean_children_info
UnlinkChild(t, c) ==
  /\ op[t].pc = "undo" /\ c \in op[t].todo /\ Unlocked(c)
  /\ row' = [row EXCEPT ![c].parents = @ \ {op[t].obj}]
  /\ Set(t, [op[t] EXCEPT !.todo = @ \ {c}])
  /\ UNCHANGED <<bitmap, holds, workq, phase, sweep, created>>

MergeFails(t) ==
  /\ op[t].pc = "undo" /\ op[t].todo = {}
  /\ row' = [row EXCEPT ![op[t].obj].children = {}]
  /\ bitmap' = bitmap \ {op[t].obj}
  /\ Set(t, Idle)
  /\ UNCHANGED <<holds, workq, phase, sweep, created>>

-----------------------------------------------------------------------------
(* Callbacks and payloads. *)

Call(c, r, status) == [what |-> c, obj |-> r, status |-> status]

\* Bound: a client waits for one object at a time.
Waiting(c) ==
  \/ \E r \in Rows : c \in row[r].callbacks \cup row[r].payloads
  \/ \E e \in workq : e.what = c

\* Mutant: the remaining children of a group are not looked at.
CallAtOnceIfSignaled(r) == IsSignaled(row[r].state)

CallAtOnce(r) == Done(r)

cam_sync_register_callback(c, r) ==
  /\ phase = "open" /\ Valid(r) /\ Unlocked(r) /\ ~Waiting(c)
  /\ IF CallAtOnce(r)
       THEN /\ workq' = workq \cup {Call(c, r, row[r].state)}
            /\ UNCHANGED row
       ELSE /\ row' = [row EXCEPT ![r].callbacks = @ \cup {c}]
            /\ UNCHANGED workq
  /\ UNCHANGED <<bitmap, op, holds, phase, sweep, created>>

cam_sync_deregister_callback(c, r) ==
  /\ phase = "open" /\ Valid(r) /\ Unlocked(r) /\ c \in row[r].callbacks
  /\ row' = [row EXCEPT ![r].callbacks = @ \ {c}]
  /\ UNCHANGED <<bitmap, op, holds, workq, phase, sweep, created>>

\* cam_sync_handle_register_user_payload: remaining is not looked at, so that a
\* group answers as soon as its first child is signaled.
RegisterPayload(p, r) ==
  /\ phase = "open" /\ Valid(r) /\ Unlocked(r) /\ ~Waiting(p)
  /\ IF IsSignaled(row[r].state)
       THEN UNCHANGED row
       ELSE row' = [row EXCEPT ![r].payloads = @ \cup {p}]
  /\ UNCHANGED <<bitmap, op, holds, workq, phase, sweep, created>>

\* cam_sync_handle_deregister_user_payload
DeregisterPayload(p, r) ==
  /\ phase = "open" /\ Unlocked(r) /\ p \in row[r].payloads /\ Valid(r)
  /\ row' = [row EXCEPT ![r].payloads = @ \ {p}]
  /\ UNCHANGED <<bitmap, op, holds, workq, phase, sweep, created>>

\* cam_sync_util_cb_dispatch, in the workqueue
RunCallback(e) ==
  /\ e \in workq
  /\ workq' = workq \ {e}
  /\ UNCHANGED <<bitmap, row, op, holds, phase, sweep, created>>

\* cam_sync_util_dispatch_signaled_cb of row r, which becomes new; dispatch
\* says whether it is called.  An INVALID row is left as it is.
Update(r, new, dispatch) ==
  LET told == dispatch /\ new.state # Invalid
  IN /\ row' = [row EXCEPT ![r] = IF told
                                    THEN [new EXCEPT !.callbacks = {}, !.payloads = {}, !.done = TRUE]
                                    ELSE new]
     /\ workq' = workq \cup {Call(c, r, new.state) : c \in IF told THEN new.callbacks ELSE {}}

-----------------------------------------------------------------------------
(* References and signaling. *)

\* Only individual objects are signaled, and by who took a reference first.
cam_sync_get_obj_ref(t, r) ==
  /\ phase = "open" /\ Ready(t) /\ holds[t] = None
  /\ row[r].state = Active /\ row[r].type = "indv" /\ Unlocked(r)
  /\ row' = [row EXCEPT ![r].ref_cnt = @ + 1]
  /\ holds' = [holds EXCEPT ![t] = r]
  /\ UNCHANGED <<bitmap, op, workq, phase, sweep, created>>

\* No lock, and no look at the state of the row.
cam_sync_put_obj_ref(t) ==
  /\ Ready(t) /\ holds[t] # None
  /\ row' = [row EXCEPT ![holds[t]].ref_cnt = @ - 1]
  /\ holds' = [holds EXCEPT ![t] = None]
  /\ UNCHANGED <<bitmap, op, workq, phase, sweep, created>>

\* Mutant: the parents stay on the list of the row.
SignaledOnly(me, status) == [me EXCEPT !.ref_cnt = 0, !.state = status]

\* The row with its last reference gone; its parents move to a list of the call.
Signaled(me, status) == [me EXCEPT !.ref_cnt = 0, !.state = status, !.parents = {}]

\* cam_sync_signal of r under the lock of its row: only the last reference
\* signals, and takes the parents with it.
SignalRow(t, r, status) ==
  LET me == row[r]
      last == me.ref_cnt = 1
  IN IF me.state # Active \/ me.type = "group"
       THEN UNCHANGED <<row, op, workq>>
       ELSE IF ~last
         THEN /\ row' = [row EXCEPT ![r].ref_cnt = @ - 1]
              /\ UNCHANGED <<op, workq>>
         ELSE /\ Update(r, Signaled(me, status), TRUE)
              /\ Continue(t, [Idle EXCEPT !.pc = "tell", !.todo = me.parents, !.status = status])

cam_sync_signal(t, status) ==
  /\ Ready(t) /\ holds[t] # None /\ Unlocked(holds[t])
  /\ SignalRow(t, holds[t], status)
  /\ holds' = [holds EXCEPT ![t] = None]
  /\ UNCHANGED <<bitmap, phase, sweep, created>>

\* cam_sync_util_update_parent_state
UpdateParentState(state, status) ==
  IF state \in {Active, Success} THEN status ELSE state

\* Mutant: a failure signals the group at once.
NoneRemainsOrFailed(new) == new.remaining = 0 \/ new.state \in Failures

NoneRemains(new) == new.remaining = 0

\* One parent of cam_sync_signal_parent_util
TellParent(t, p) ==
  LET new == [row[p] EXCEPT
                !.remaining = @ - 1,
                !.state = UpdateParentState(@, op[t].status),
                !.spoiled = @ \/ (row[p].state # Invalid /\ op[t].status \in Failures)]
  IN /\ op[t].pc = "tell" /\ p \in op[t].todo /\ Unlocked(p)
     /\ Update(p, new, NoneRemains(new))
     /\ Continue(t, [op[t] EXCEPT !.todo = @ \ {p}])
     /\ UNCHANGED <<bitmap, holds, phase, sweep, created>>

-----------------------------------------------------------------------------
(* cam_sync_deinit_object *)

DeinitBegin(t, r) ==
  /\ Valid(r)
  /\ row' = [q \in Rows |->
               IF q = r THEN [row[r] EXCEPT !.state = Invalid, !.children = {}, !.parents = {}]
               ELSE IF q \in row[r].parents THEN [row[q] EXCEPT !.orphaned = @ + 1]
               ELSE row[q]]
  /\ Set(t, [Idle EXCEPT !.pc = "deinit", !.obj = r,
                         !.todo = row[r].children, !.seen = row[r].parents])

cam_sync_destroy(t, r) ==
  /\ phase = "open" /\ Ready(t) /\ Unlocked(r)
  /\ DeinitBegin(t, r)
  /\ UNCHANGED <<bitmap, holds, workq, phase, sweep, created>>

\* A child is unlinked from the group that goes, then a group from its child.
UnlinkFromChild(t, c) ==
  /\ op[t].pc = "deinit" /\ c \in op[t].todo /\ Unlocked(c)
  /\ row' = [row EXCEPT ![c].parents = IF Valid(c) THEN @ \ {op[t].obj} ELSE @]
  /\ Set(t, [op[t] EXCEPT !.todo = @ \ {c}])
  /\ UNCHANGED <<bitmap, holds, workq, phase, sweep, created>>

UnlinkFromParent(t, p) ==
  /\ op[t].pc = "deinit" /\ op[t].todo = {} /\ p \in op[t].seen /\ Unlocked(p)
  /\ row' = [row EXCEPT ![p].children = IF Valid(p) THEN @ \ {op[t].obj} ELSE @]
  /\ Set(t, [op[t] EXCEPT !.seen = @ \ {p}])
  /\ UNCHANGED <<bitmap, holds, workq, phase, sweep, created>>

DeinitEnd(t) ==
  /\ op[t].pc = "deinit" /\ op[t].todo = {} /\ op[t].seen = {}
  /\ row' = [row EXCEPT ![op[t].obj] = Zero]
  /\ bitmap' = bitmap \ {op[t].obj}
  /\ Set(t, Idle)
  /\ UNCHANGED <<holds, workq, phase, sweep, created>>

-----------------------------------------------------------------------------
(* cam_sync_close: no ioctl is left; kernel clients still hold references. *)

CloseBegin ==
  /\ phase = "open"
  /\ \A t \in Threads : op[t].pc \in {"idle", "tell"}
  /\ phase' = "signal" /\ sweep' = 1
  /\ UNCHANGED <<bitmap, row, op, holds, workq, created>>

CloseSignal ==
  /\ phase = "signal" /\ Ready(Closer) /\ sweep \in Rows
  /\ SignalRow(Closer, sweep, Error)
  /\ sweep' = sweep + 1
  /\ UNCHANGED <<bitmap, holds, phase, created>>

\* flush_workqueue
CloseFlush ==
  /\ phase = "signal" /\ Ready(Closer) /\ sweep \notin Rows /\ workq = {}
  /\ phase' = "destroy" /\ sweep' = 1
  /\ UNCHANGED <<bitmap, row, op, holds, workq, created>>

InUse(r) == Valid(r)

CloseDestroy ==
  /\ phase = "destroy" /\ Ready(Closer) /\ sweep \in Rows
  /\ IF InUse(sweep) THEN DeinitBegin(Closer, sweep) ELSE UNCHANGED <<row, op>>
  /\ sweep' = sweep + 1
  /\ UNCHANGED <<bitmap, holds, workq, phase, created>>

CloseEnd ==
  /\ phase = "destroy" /\ Ready(Closer) /\ sweep \notin Rows
  /\ phase' = "open" /\ sweep' = 1
  /\ UNCHANGED <<bitmap, row, op, holds, workq, created>>

CloseStep == CloseSignal \/ CloseFlush \/ CloseDestroy \/ CloseEnd

\* A call that has begun.
Step(t) ==
  \/ \E r \in Rows : \/ LinkChild(t, r) \/ UnlinkChild(t, r) \/ TellParent(t, r)
                     \/ UnlinkFromChild(t, r) \/ UnlinkFromParent(t, r)
  \/ MergeEnd(t) \/ MergeFails(t) \/ DeinitEnd(t)

Next ==
  \/ \E t \in Threads :
       \/ cam_sync_create(t)
       \/ \E objs \in SUBSET Rows : Cardinality(objs) > 1 /\ cam_sync_merge(t, objs)
       \/ \E r \in Rows : cam_sync_get_obj_ref(t, r) \/ cam_sync_destroy(t, r)
       \/ cam_sync_put_obj_ref(t)
       \/ \E status \in {Success} \cup Failures : cam_sync_signal(t, status)
  \/ \E r \in Rows, c \in Clients : cam_sync_register_callback(c, r) \/ cam_sync_deregister_callback(c, r)
  \/ \E r \in Rows, p \in Payloads : RegisterPayload(p, r) \/ DeregisterPayload(p, r)
  \/ \E e \in workq : RunCallback(e)
  \/ \E t \in Callers : Step(t)
  \/ CloseBegin \/ CloseStep

Spec == Init /\ [][Next]_vars

-----------------------------------------------------------------------------

TypeOK ==
  /\ bitmap \subseteq Rows
  /\ row \in [Rows -> [type : {"indv", "group"}, state : States, remaining : Int,
                       parents : SUBSET Rows, children : SUBSET Rows,
                       callbacks : SUBSET Clients, payloads : SUBSET Payloads,
                       ref_cnt : Int, done : BOOLEAN,
                       spoiled : BOOLEAN, orphaned : Nat]]
  /\ op \in [Callers -> [pc : {"idle", "link", "undo", "tell", "deinit"},
                         obj : Rows \cup {None}, todo : SUBSET Rows,
                         seen : SUBSET Rows, status : States]]
  /\ holds \in [Threads -> Rows \cup {None}]
  /\ workq \subseteq [what : Clients, obj : Rows, status : States]
  /\ phase \in {"open", "signal", "destroy"} /\ sweep \in 1 .. CAM_SYNC_MAX_OBJS /\ created \in 0 .. MaxCreates
  /\ \A r \in Rows : Valid(r) => r \in bitmap

\* remaining counts the children that still list the group as a parent, those
\* whose signal is on its way to it and those that were destroyed before they
\* were signaled (nothing counts these down): no child is counted down twice,
\* or by the signal of another object.
RemainingExact ==
  \A g \in {r \in Rows : Valid(r)} :
    row[g].remaining = Cardinality({c \in Rows : g \in row[c].parents})
                     + Cardinality({t \in Callers : op[t].pc = "tell" /\ g \in op[t].todo})
                     + row[g].orphaned

\* The count of a group covers its children that have not been signaled (the
\* comment on remaining in cam_sync_private.h): no group is signaled before them.
CountsChildren ==
  \A g \in {r \in Rows : Valid(r) /\ row[r].type = "group"} :
    row[g].remaining >= Cardinality({c \in Rows : row[c].state = Active /\ g \in row[c].parents})

\* Who waits for an object is told when it is signaled, for a group when no child
\* remains: the completion is done then and not before, and no callback or payload
\* is left on it, whichever way registration, merge and signal overlap.  (A payload
\* registered between the first and the last child is answered at once.)
NoneForgotten ==
  \A r \in {q \in Rows : Valid(q) /\ Unlocked(q)} :
    /\ Done(r) <=> row[r].done
    /\ Done(r) => row[r].callbacks = {} /\ row[r].payloads = {}

\* A group that is signaled is a success exactly if none of its children failed,
\* in whatever order they were signaled and before or after the merge.
GroupStatus ==
  \A g \in {r \in Rows : Done(r) /\ Unlocked(r) /\ row[r].type = "group"} :
    row[g].state = Success <=> ~row[g].spoiled

\* A callback is queued when its object is signaled, a group when none of its
\* children remains, and with the status the object has from then on.
CallbackFinal ==
  [][\A e \in workq' \ workq : Done(e.obj)' /\ row'[e.obj].state = e.status]_vars
=============================================================================
