------------------------------ MODULE Queues ------------------------------
(***************************************************************************)
(* The three queues of src/src/queues.c and every operation on them except *)
(* queues_update, whose loops are the steps of module Update.              *)
(*                                                                         *)
(* The state is one record, "store": the queues are sequences of pointers  *)
(* into a heap of reference counted notifications, because the code tells  *)
(* notifications apart by pointer in some places and by id in others.  An  *)
(* operation is an operator from a store to the next store.  The field     *)
(* "emitted" holds the NotificationClosed signals of the current step.     *)
(***************************************************************************)
EXTENDS Notification, Sequences, SequencesExt

CONSTANTS
  Ptr,               \* bound: the heap cells
  Freed,             \* content of a heap cell that is not allocated
  HistoryLength,     \* settings.history_length, 0: unlimited
  StickyHistory,     \* settings.sticky_history
  StackDuplicates    \* settings.stack_duplicates

ASSUME QueuesAssumption ==
  /\ Freed \notin Note
  /\ HistoryLength \in Nat
  /\ StickyHistory \in BOOLEAN /\ StackDuplicates \in BOOLEAN

VARIABLE store

displayed == store.displayed
waiting   == store.waiting
history   == store.history
heap      == store.heap

Store ==
  [ displayed : Seq(Ptr), waiting : Seq(Ptr), history : Seq(Ptr),
    heap : [Ptr -> Note \cup {Freed}], nextId : 1..MaxId,
    emitted : SUBSET ((0..MaxId) \X Reasons) ]

(* queues_init *)
EmptyStore ==
  [ displayed |-> <<>>, waiting |-> <<>>, history |-> <<>>,
    heap |-> [p \in Ptr |-> Freed], nextId |-> 1, emitted |-> {} ]

(* No notification is queued twice, and every queued one is allocated. *)
Owns(q) ==
  /\ IsInjective(q.displayed) /\ IsInjective(q.waiting) /\ IsInjective(q.history)
  /\ ToSet(q.displayed) \cap ToSet(q.waiting) = {}
  /\ ToSet(q.displayed) \cap ToSet(q.history) = {}
  /\ ToSet(q.waiting) \cap ToSet(q.history) = {}
  /\ \A p \in ToSet(q.displayed) \cup ToSet(q.waiting) \cup ToSet(q.history) :
       q.heap[p] # Freed

(* every step starts with no signal of its own *)
Quiet == [store EXCEPT !.emitted = {}]

---------------------------------------------------------------------------
(* Helpers of GLib's GQueue and of notification.c                          *)

FirstWithId(q, s, id) == SelectInSeq(s, LAMBDA p : q.heap[p].id = id)

Without(s, at) == IF at = 0 THEN s ELSE RemoveAt(s, at)

(* g_queue_insert_sorted: in front of the first element not before p *)
InsertSorted(q, s, p) ==
  LET at == SelectInSeq(s, LAMBDA e : Cmp(q.heap[e], q.heap[p]) >= 0)
  IN IF at = 0 THEN Append(s, p) ELSE InsertAt(s, at, p)

(* mutant: the queue is not sorted again *)
Sorted_NotAtAll(q, s) == s

(* g_queue_sort is stable; each order of places gives the elements in turn *)
Sorted(q, s) ==
  LET places == 1..Len(s)
      orders == { f \in [places -> places] :
                    /\ IsInjective(f)
                    /\ \A i, j \in places : i < j =>
                         LET c == Cmp(q.heap[s[f[i]]], q.heap[s[f[j]]])
                         IN c < 0 \/ (c = 0 /\ f[i] < f[j]) }
      order == CHOOSE f \in orders : TRUE
  IN IF orders = {} THEN s ELSE [i \in places |-> s[order[i]]]

(* notification_unref *)
Unref(q, p) ==
  LET n == q.heap[p]
      rest == IF n.refs = 1 THEN Freed ELSE [n EXCEPT !.refs = n.refs - 1]
  IN [q EXCEPT !.heap[p] = rest]

(* signal_notification_closed *)
SignalClosed(q, p, reason) ==
  IF q.heap[p].valid
  THEN [q EXCEPT !.heap[p].valid = FALSE,
                 !.emitted = @ \cup {<<q.heap[p].id, reason>>}]
  ELSE q

---------------------------------------------------------------------------
(* History                                                                 *)

(* queues_history_push: the oldest entry makes room for p *)
HistoryPush(q, p) ==
  LET full == HistoryLength > 0 /\ Len(q.history) >= HistoryLength
      room == IF full
              THEN [Unref(q, Head(q.history)) EXCEPT !.history = Tail(@)]
              ELSE q
  IN IF q.heap[p].kind.history_ignore
     THEN Unref(q, p)
     ELSE [room EXCEPT !.history = Append(@, p)]

(* mutant: the entry stays in history *)
Redisplay_KeepsEntry(q, at) ==
  [q EXCEPT !.waiting = InsertSorted(q, @, q.history[at])]

(* the common end of queues_history_pop and queues_history_pop_by_id *)
Redisplay(q, at) ==
  LET p  == q.history[at]
      q1 == [q EXCEPT !.history = RemoveAt(@, at),
                      !.heap[p].redisplayed = TRUE,
                      !.heap[p].timed = @ /\ ~StickyHistory]
  IN [q1 EXCEPT !.waiting = InsertSorted(q1, @, p)]

HistoryPop(q) ==
  IF q.history = <<>> THEN q ELSE Redisplay(q, Len(q.history))

HistoryPopById(q, id) ==
  LET at == FirstWithId(q, q.history, id)
  IN IF at = 0 THEN q ELSE Redisplay(q, at)

HistoryRemoveById(q, id) ==
  LET at == FirstWithId(q, q.history, id)
  IN IF at = 0 THEN q
     ELSE [Unref(q, q.history[at]) EXCEPT !.history = RemoveAt(@, at)]

HistoryClear(q) ==
  [q EXCEPT !.history = <<>>,
            !.heap = [p \in Ptr |-> IF p \in ToSet(q.history)
                                    THEN Unref(q, p).heap[p] ELSE q.heap[p]]]

---------------------------------------------------------------------------
(* Closing                                                                 *)

(* mutant: the test of redisplayed is negated *)
CloseId_SignalSwapped(q, id, reason) ==
  LET d == FirstWithId(q, q.displayed, id)
      w == FirstWithId(q, q.waiting, id)
      target == IF w # 0 THEN q.waiting[w] ELSE q.displayed[d]
      q1 == [q EXCEPT !.displayed = Without(@, d), !.waiting = Without(@, w)]
      q2 == IF q.heap[target].redisplayed THEN SignalClosed(q1, target, reason)
            ELSE q1
  IN IF d = 0 /\ w = 0 THEN q ELSE HistoryPush(q2, target)

(***************************************************************************)
(* queues_notification_close_id: takes the first match out of displayed    *)
(* AND the first match out of waiting; only the one found last is signalled*)
(* and pushed to history.                                                  *)
(***************************************************************************)
CloseId(q, id, reason) ==
  LET d == FirstWithId(q, q.displayed, id)
      w == FirstWithId(q, q.waiting, id)
      target == IF w # 0 THEN q.waiting[w] ELSE q.displayed[d]
      q1 == [q EXCEPT !.displayed = Without(@, d), !.waiting = Without(@, w)]
      q2 == IF q.heap[target].redisplayed THEN q1
            ELSE SignalClosed(q1, target, reason)
  IN IF d = 0 /\ w = 0 THEN q ELSE HistoryPush(q2, target)

NotificationClose(q, p, reason) == CloseId(q, q.heap[p].id, reason)

(* mutant: history is not searched *)
NotificationRemove_OnlyCloses(q, p, reason, lost) ==
  NotificationClose(q, p, reason)

(***************************************************************************)
(* queues_notification_remove.  It reads the id again after the closing,   *)
(* which frees p when p is not kept in history: the memory then still      *)
(* holds the id, or something else that matches nothing ("lost").          *)
(***************************************************************************)
NotificationRemove(q, p, reason, lost) ==
  LET q1 == NotificationClose(q, p, reason)
  IN IF q1.heap[p] = Freed /\ lost THEN q1
     ELSE HistoryRemoveById(q1, q.heap[p].id)

---------------------------------------------------------------------------
(* Inserting                                                               *)

(* mutant: the old notification is not unreferenced *)
Supersede_Leaks(q, old, tell) ==
  IF tell THEN SignalClosed(q, old, TIME) ELSE q

(* p takes the place of old, which the store no longer queues *)
Supersede(q, old, tell) ==
  Unref(IF tell THEN SignalClosed(q, old, TIME) ELSE q, old)

(***************************************************************************)
(* The loop shared by queues_notification_replace_id, queues_stack_by_tag  *)
(* and queues_stack_duplicate: the first match, in displayed before        *)
(* waiting, hands its place to p.                                          *)
(***************************************************************************)
TakeOver(q, d, w, p, tell) ==
  IF d # 0
  THEN Supersede([q EXCEPT !.displayed[d] = p], q.displayed[d], tell)
  ELSE Supersede([q EXCEPT !.waiting[w] = p], q.waiting[w], tell)

(* mutant: pushed to the tail, not sorted in *)
Enqueue_AtTail(q, p) == [q EXCEPT !.waiting = Append(@, p)]

Enqueue(q, p) == [q EXCEPT !.waiting = InsertSorted(q, @, p)]

FirstWithTag(q, s, p) ==
  SelectInSeq(s, LAMBDA old : SameTag(q.heap[old], q.heap[p]))

FirstDuplicate(q, s, p) ==
  SelectInSeq(s, LAMBDA old : IsDuplicate(q.heap[old], q.heap[p]))

(* mutant: the client is told of a replaced id *)
ReplaceId_Tells(q, p) ==
  LET d == FirstWithId(q, q.displayed, q.heap[p].id)
      w == FirstWithId(q, q.waiting, q.heap[p].id)
  IN IF d = 0 /\ w = 0 THEN Enqueue(q, p) ELSE TakeOver(q, d, w, p, TRUE)

(* a notification that asks for an id: queues_notification_replace_id *)
ReplaceId(q, p) ==
  LET d == FirstWithId(q, q.displayed, q.heap[p].id)
      w == FirstWithId(q, q.waiting, q.heap[p].id)
  IN IF d = 0 /\ w = 0 THEN Enqueue(q, p) ELSE TakeOver(q, d, w, p, FALSE)

(* a notification without one gets the next id, then tag, then duplicate *)
AssignId(q, p) ==
  [q EXCEPT !.nextId = @ + 1, !.heap[p].id = q.nextId + 1]

StackOrEnqueue(q, p) ==
  LET td == FirstWithTag(q, q.displayed, p)
      tw == FirstWithTag(q, q.waiting, p)
      dd == FirstDuplicate(q, q.displayed, p)
      dw == FirstDuplicate(q, q.waiting, p)
      stacked == TakeOver(q, dd, dw, p, TRUE)
  IN CASE td # 0 \/ tw # 0 -> TakeOver(q, td, tw, p, TRUE)
       [] td = 0 /\ tw = 0 /\ StackDuplicates /\ (dd # 0 \/ dw # 0) ->
            IF Sort = "update"
            THEN [stacked EXCEPT !.displayed = Sorted(stacked, @)]
            ELSE stacked
       [] OTHER -> Enqueue(q, p)

(* queues_notification_insert of the new notification p *)
Insert(q, p, st) ==
  LET placed == IF q.heap[p].id # 0 THEN ReplaceId(q, p)
                ELSE StackOrEnqueue(AssignId(q, p), p)
  IN CASE q.heap[p].kind.empty -> q
       [] ~q.heap[p].kind.empty /\ Suppressed(q.heap[p], st) ->
            NotificationClose(placed, p, UNDEF)
       [] OTHER -> placed
===========================================================================
