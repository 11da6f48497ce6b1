------------------------------ MODULE Update ------------------------------
(***************************************************************************)
(* queues_update (src/src/queues.c): what happens to the queues whenever   *)
(* dunst wakes up.  Its loops are taken apart into one action per          *)
(* iteration; "left" counts the elements the current loop has not visited  *)
(* yet, from the tail, because what a loop removes is never behind its     *)
(* place.                                                                  *)
(***************************************************************************)
EXTENDS Queues

CONSTANTS
  NotificationLimit,   \* settings.notification_limit, 0: unlimited
  IndicateHidden       \* settings.indicate_hidden

ASSUME UpdateAssumption ==
  /\ NotificationLimit \in Nat
  /\ IndicateHidden \in BOOLEAN

VARIABLES
  status,       \* the status run() hands to queues_update
  pc,           \* where the main thread is
  left,         \* elements the current loop still has to visit
  limit         \* cur_displayed_limit, 0 for INT_MAX

control == <<pc, left, limit>>

---------------------------------------------------------------------------
(* First loop: what has to leave displayed                                 *)

Visited == displayed[Len(displayed) - left + 1]

(* mutant: the place does not advance past what stays displayed *)
Retire_Continues(q) ==
  /\ store' = q
  /\ left' = IF q.displayed = displayed THEN left ELSE left - 1
  /\ UNCHANGED <<pc, limit>>

(* The visit of Visited turns the store into q.                            *)
Retire(q) ==
  /\ store' = q
  /\ left' = left - 1
  /\ UNCHANGED <<pc, limit>>

Retiring == pc = "retire" /\ left > 0

(* mutant: the mark stays *)
Unmark_Forgotten(q, p, field) == q

(* the mark is taken off again, unless the notification is freed by now *)
Unmark(q, p, field) ==
  IF q.heap[p] = Freed THEN q
  ELSE [q EXCEPT !.heap[p] = [@ EXCEPT ![field] = NotMarked]]

(* mutant: a lock does not count *)
RetireMarked_Locked ==
  LET n == heap[Visited] IN
  /\ Retiring
  /\ n.closing # NotMarked
  /\ Retire(Unmark(NotificationClose(Quiet, Visited, n.closing),
                   Visited, "closing"))

RetireMarked ==
  LET n == heap[Visited] IN
  /\ Retiring
  /\ ~n.locked
  /\ n.closing # NotMarked
  /\ Retire(Unmark(NotificationClose(Quiet, Visited, n.closing),
                   Visited, "closing"))

RetireRemoved ==
  LET n == heap[Visited] IN
  /\ Retiring
  /\ ~n.locked
  /\ n.closing = NotMarked /\ n.removing # NotMarked
  /\ \E lost \in BOOLEAN :
       Retire(Unmark(NotificationRemove(Quiet, Visited, n.removing, lost),
                     Visited, "removing"))

Stays(n) == ~n.locked /\ n.closing = NotMarked /\ n.removing = NotMarked

RetireFinished ==
  LET n == heap[Visited] IN
  /\ Retiring
  /\ Stays(n) /\ IsFinished(n, status)
  /\ Retire(NotificationClose(Quiet, Visited, TIME))

(* mutant: the timeout is held without a restart *)
Restarted_Not(q, p) == q

(* queues_notification_is_finished restarts a timeout that is held *)
Restarted(q, p) ==
  IF TimeoutHeld(q.heap[p], status) THEN [q EXCEPT !.heap[p].due = FALSE] ELSE q

RetireSuppressed ==
  LET n == heap[Visited] IN
  /\ Retiring
  /\ Stays(n) /\ ~IsFinished(n, status)
  /\ Suppressed(n, status)
  /\ Retire(NotificationClose(Restarted(Quiet, Visited), Visited, UNDEF))

RetirePushback ==
  LET n == heap[Visited] IN
  /\ Retiring
  /\ Stays(n) /\ ~IsFinished(n, status) /\ ~Suppressed(n, status)
  /\ ~IsReady(n, status, TRUE)
  /\ LET q == [Restarted(Quiet, Visited) EXCEPT
                 !.displayed = RemoveAt(@, Len(@) - left + 1)]
     IN Retire(Enqueue(q, Visited))

RetireKeep ==
  LET n == heap[Visited] IN
  /\ Retiring
  /\ ~n.locked => /\ Stays(n) /\ ~IsFinished(n, status)
                  /\ ~Suppressed(n, status) /\ IsReady(n, status, TRUE)
  /\ Retire(IF n.locked THEN Quiet ELSE Restarted(Quiet, Visited))

(* cur_displayed_limit *)
DisplayedLimit ==
  IF /\ IndicateHidden /\ NotificationLimit > 1
     /\ Len(displayed) + Len(waiting) > NotificationLimit
  THEN NotificationLimit - 1
  ELSE NotificationLimit

RetireDone ==
  /\ pc = "retire" /\ left = 0
  /\ limit' = DisplayedLimit
  /\ pc' = "fill" /\ left' = Len(waiting)
  /\ store' = Quiet

---------------------------------------------------------------------------
(* Second loop: fill displayed from waiting                                *)

HasRoom == limit = 0 \/ Len(displayed) < limit

Candidate == waiting[Len(waiting) - left + 1]

Filling == pc = "fill" /\ HasRoom /\ left > 0

(* mutant: advances twice *)
Fill_SkipsOne(q) ==
  /\ store' = q
  /\ left' = left - 2
  /\ UNCHANGED <<pc, limit>>

Fill(q) ==
  /\ store' = q
  /\ left' = left - 1
  /\ UNCHANGED <<pc, limit>>

(* n->start = time *)
Started(q, p) == [q EXCEPT !.heap[p].due = FALSE]

FillSuppressed ==
  /\ Filling
  /\ Suppressed(heap[Candidate], status)
  /\ Fill(NotificationClose(Started(Quiet, Candidate), Candidate, UNDEF))

(* mutant: "break" for "continue" *)
FillNotReady_Breaks ==
  /\ Filling
  /\ ~Suppressed(heap[Candidate], status)
  /\ ~IsReady(heap[Candidate], status, FALSE)
  /\ store' = Quiet /\ left' = 0
  /\ UNCHANGED <<pc, limit>>

FillNotReady ==
  /\ Filling
  /\ ~Suppressed(heap[Candidate], status)
  /\ ~IsReady(heap[Candidate], status, FALSE)
  /\ Fill(Quiet)

FillSkipsDisplay ==
  /\ Filling
  /\ ~Suppressed(heap[Candidate], status)
  /\ IsReady(heap[Candidate], status, FALSE)
  /\ SkipsDisplay(heap[Candidate])
  /\ Fill(NotificationClose(Started(Quiet, Candidate), Candidate, USER))

FillDisplay ==
  /\ Filling
  /\ ~Suppressed(heap[Candidate], status)
  /\ IsReady(heap[Candidate], status, FALSE)
  /\ ~SkipsDisplay(heap[Candidate])
  /\ LET q == Started(Quiet, Candidate)
     IN Fill([q EXCEPT !.waiting = RemoveAt(@, Len(@) - left + 1),
                       !.displayed = InsertSorted(q, @, Candidate)])

FillDone ==
  /\ pc = "fill" /\ (~HasRoom \/ left = 0)
  /\ pc' = "trim" /\ left' = 0
  /\ store' = Quiet
  /\ UNCHANGED limit

---------------------------------------------------------------------------
(* Third loop: what exceeds the limit waits again                          *)

(* mutant: compares with the setting, not with the limit *)
Overhang_OfSetting == limit # 0 /\ Len(displayed) > NotificationLimit

Overhang == limit # 0 /\ Len(displayed) > limit

TrimStep ==
  /\ pc = "trim" /\ Overhang
  /\ store' = [Quiet EXCEPT !.displayed = Front(@),
                            !.waiting = InsertSorted(store, @, Last(displayed))]
  /\ UNCHANGED control

TrimDone ==
  /\ pc = "trim" /\ ~Overhang
  /\ pc' = IF Sort # "id" /\ limit # 0 /\ Len(displayed) = limit
           THEN "seep" ELSE "finish"
  /\ store' = Quiet
  /\ UNCHANGED <<left, limit>>

---------------------------------------------------------------------------

(* mutant: the comparison is turned round *)
Seeps_WrongWay ==
  /\ waiting # <<>> /\ displayed # <<>>
  /\ IsReady(heap[waiting[1]], status, FALSE)
  /\ Cmp(heap[waiting[1]], heap[Last(displayed)]) > 0

(***************************************************************************)
(* Fourth loop: a swap at the border of the two queues.  Only the head of  *)
(* waiting is ever looked at: when it is not ready the code goes to its    *)
(* predecessor, and there is none.  (The branch for suppressed ones cannot *)
(* be reached: what is ready and not shown has fullscreen = show.)         *)
(***************************************************************************)
Seeps ==
  /\ waiting # <<>> /\ displayed # <<>>
  /\ IsReady(heap[waiting[1]], status, FALSE)
  /\ Cmp(heap[Last(displayed)], heap[waiting[1]]) > 0

(* queues_swap_notifications *)
SeepSwap ==
  /\ pc = "seep" /\ Seeps
  /\ LET q == Started(Quiet, waiting[1])
     IN store' = [q EXCEPT
          !.displayed = InsertSorted(q, Front(@), waiting[1]),
          !.waiting   = InsertSorted(q, Tail(@), Last(displayed))]
  /\ UNCHANGED control

SeepDone ==
  /\ pc = "seep" /\ ~Seeps
  /\ pc' = "finish"
  /\ store' = Quiet
  /\ UNCHANGED <<left, limit>>

---------------------------------------------------------------------------
UpdateStep ==
  \/ RetireMarked \/ RetireRemoved \/ RetireFinished \/ RetireSuppressed
  \/ RetirePushback \/ RetireKeep \/ RetireDone
  \/ FillSuppressed \/ FillNotReady \/ FillSkipsDisplay \/ FillDisplay
  \/ FillDone
  \/ TrimStep \/ TrimDone
  \/ SeepSwap \/ SeepDone
===========================================================================
