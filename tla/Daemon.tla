------------------------------ MODULE Daemon ------------------------------
(***************************************************************************)
(* The main loop of dunst: the D-Bus methods (src/src/dbus.c), the mouse   *)
(* (src/src/input.c), the timer and run() (src/src/dunst.c), around        *)
(* queues_update (module Update).                                          *)
(*                                                                         *)
(* Everything runs on one thread: a handler starts when pc = "idle",       *)
(* changes the queues and calls wake_up, which runs queues_update to its   *)
(* end before the next handler can start.                                  *)
(***************************************************************************)
EXTENDS Update

CONSTANTS
  IgnoreDbusClose,     \* settings.ignore_dbusclose
  ShowAge,             \* settings.show_age_threshold >= 0
  MouseActions,        \* settings.mouse_{left,middle,right}_click
  Fullscreens, Idles,  \* what output->have_fullscreen_window() and
                       \* output->is_idle() may answer
  MouseOvers,          \* whether the pointer may enter the window
  PauseLevels,         \* the pause levels users set
  ClientIds            \* the ids clients ask for (replaces_id): "none",
                       \* those of "open" notifications, or "any"

Acts == {"close_all", "close_current", "remove_current",
         "do_action", "open_url", "context", "context_all"} \* module Menu

ASSUME DaemonAssumption ==
  /\ {IgnoreDbusClose, ShowAge} \subseteq BOOLEAN
  /\ ClientIds \in {"none", "open", "any"}
  /\ MouseActions \subseteq Seq(Acts)
  /\ Fullscreens \subseteq BOOLEAN /\ Fullscreens # {}
  /\ Idles \subseteq BOOLEAN /\ Idles # {}
  /\ MouseOvers \subseteq BOOLEAN
  /\ PauseLevels \subseteq Nat

VARIABLES
  acts,         \* the mouse actions of a click still to perform
  clicked,      \* the place clicked on: an index into displayed
  clock,        \* time stamp of the newest notification
  timer,        \* next_timeout_id # 0
  advertised    \* last_{displayed,waiting,history} of dbus.c

mouse   == <<acts, clicked>>
vars    == <<store, status, control, mouse, clock, timer, advertised>>

Lengths == [ displayed : Nat, waiting : Nat, history : Nat ]

Init ==
  /\ store = EmptyStore
  /\ status = [ fullscreen |-> FALSE, idle |-> FALSE,
                mouse_over |-> FALSE, pause_level |-> 0 ]
  /\ pc = "idle" /\ left = 0 /\ limit = 0
  /\ acts = <<>> /\ clicked = 0
  /\ clock = -1
  /\ timer = FALSE
  /\ advertised = [ displayed |-> 0, waiting |-> 0, history |-> 0 ]

---------------------------------------------------------------------------
(***************************************************************************)
(* wake_up and the first half of run: with the queues of q and the pause   *)
(* level and mouse state of st it asks the output for the rest of the      *)
(* status, gives up the pending timer and enters queues_update.            *)
(***************************************************************************)
RunWith(q, st) ==
  /\ store' = q
  /\ \E f \in Fullscreens, i \in Idles :
       status' = [st EXCEPT !.fullscreen = f, !.idle = i]
  /\ pc' = "retire" /\ left' = Len(q.displayed)
  /\ timer' = FALSE
  /\ UNCHANGED <<limit, advertised>>

WakeUp(q) == RunWith(q, status)

---------------------------------------------------------------------------
(* D-Bus methods                                                           *)

OpenIds == { heap[p].id : p \in { r \in ToSet(displayed) \cup ToSet(waiting) :
                                    heap[r].valid } }

RequestableIds ==
  {0} \cup CASE ClientIds = "none" -> {}
            [] ClientIds = "open" -> OpenIds
            [] ClientIds = "any"  -> 1..MaxId

(* dbus_cb_Notify; a notification without text is discarded *)
Notify(kind, id, stamp) ==
  /\ pc = "idle"
  /\ id = 0 /\ ~kind.empty => store.nextId < MaxId
  /\ Sort = "update" => stamp > clock
  /\ \E p \in { r \in Ptr : heap[r] = Freed } :
       LET created  == [Quiet EXCEPT !.heap[p] = NewNote(kind, id, stamp)]
           inserted == Insert(created, p, status)
       IN WakeUp(IF kind.empty
                 THEN Unref(SignalClosed(inserted, p, USER), p)
                 ELSE inserted)
  /\ clock' = stamp
  /\ UNCHANGED mouse

(* queues_get_by_id *)
GetById(q, id) ==
  LET s  == q.displayed \o q.waiting \o q.history
      at == FirstWithId(q, s, id)
  IN IF at = 0 THEN {} ELSE {s[at]}

(* dbus_cb_CloseNotification; ignore_dbusclose only pretends to close *)
CloseNotification(id) ==
  /\ pc = "idle"
  /\ IF IgnoreDbusClose
     THEN WakeUp(IF GetById(store, id) = {} THEN Quiet
                 ELSE SignalClosed(Quiet, CHOOSE p \in GetById(store, id) : TRUE,
                                   SIG))
     ELSE WakeUp(CloseId(Quiet, id, SIG))
  /\ UNCHANGED <<mouse, clock>>

CloseLast ==
  /\ pc = "idle"
  /\ displayed # <<>>
  /\ WakeUp(NotificationClose(Quiet, displayed[1], USER))
  /\ UNCHANGED <<mouse, clock>>

Show ==
  /\ pc = "idle"
  /\ WakeUp(HistoryPop(Quiet))
  /\ UNCHANGED <<mouse, clock>>

PopHistory(id) ==
  /\ pc = "idle"
  /\ WakeUp(HistoryPopById(Quiet, id))
  /\ UNCHANGED <<mouse, clock>>

(* mutant: without wake_up *)
RemoveFromHistory_NoWakeUp(id) ==
  /\ pc = "idle"
  /\ FirstWithId(store, history, id) # 0
  /\ store' = HistoryRemoveById(Quiet, id)
  /\ UNCHANGED <<status, control, mouse, clock, timer, advertised>>

RemoveFromHistory(id) ==
  /\ pc = "idle"
  /\ FirstWithId(store, history, id) # 0
  /\ WakeUp(HistoryRemoveById(Quiet, id))
  /\ UNCHANGED <<mouse, clock>>

ClearHistory ==
  /\ pc = "idle"
  /\ WakeUp(HistoryClear(Quiet))
  /\ UNCHANGED <<mouse, clock>>

(* mutant: without wake_up *)
SetPauseLevel_NoWakeUp(level) ==
  /\ pc = "idle"
  /\ status' = [status EXCEPT !.pause_level = level]
  /\ store' = Quiet
  /\ UNCHANGED <<control, mouse, clock, timer, advertised>>

(* dbus_cb_dunst_Properties_Set, pause_signal and unpause_signal *)
SetPauseLevel(level) ==
  /\ pc = "idle"
  /\ RunWith(Quiet, [status EXCEPT !.pause_level = level])
  /\ UNCHANGED <<mouse, clock>>

---------------------------------------------------------------------------
(* The mouse                                                               *)

PointerMoves(over) ==
  /\ pc = "idle"
  /\ RunWith(Quiet, [status EXCEPT !.mouse_over = over])
  /\ UNCHANGED <<mouse, clock>>

(* input_handle_click on the notification at place i (none beyond the end) *)
Click(todo, i) ==
  /\ pc = "idle"
  /\ acts' = todo /\ clicked' = i
  /\ pc' = "click"
  /\ store' = Quiet
  /\ UNCHANGED <<status, left, limit, clock, timer, advertised>>

ClickAct(act) == pc = "click" /\ acts # <<>> /\ Head(acts) = act

ClickCloseAll ==
  /\ ClickAct("close_all")
  /\ pc' = "push_all" /\ acts' = Tail(acts)
  /\ store' = Quiet
  /\ UNCHANGED <<status, left, limit, clicked, clock, timer, advertised>>

(* the notification under the pointer, if there is one, gets the mark *)
Mark(act, field) ==
  /\ ClickAct(act)
  /\ store' = IF clicked \in 1..Len(displayed)
              THEN [Quiet EXCEPT !.heap[displayed[clicked]] =
                               [@ EXCEPT ![field] = USER]]
              ELSE Quiet
  /\ acts' = Tail(acts)
  /\ UNCHANGED <<status, control, clicked, clock, timer, advertised>>

ClickCloseCurrent == Mark("close_current", "closing")

ClickRemoveCurrent == Mark("remove_current", "removing")

ClickDone ==
  /\ pc = "click" /\ acts = <<>>
  /\ WakeUp(Quiet)
  /\ clicked' = 0
  /\ UNCHANGED <<acts, clock>>

(* dbus_cb_dunst_NotificationCloseAll: the same as a click that closes all *)
CloseAll ==
  /\ pc = "idle"
  /\ pc' = "push_all" /\ store' = Quiet
  /\ UNCHANGED <<status, left, limit, mouse, clock, timer, advertised>>

(* one iteration of queues_history_push_all *)
PushAllStep ==
  /\ pc = "push_all"
  /\ displayed \o waiting # <<>>
  /\ store' = NotificationClose(Quiet, Head(displayed \o waiting), USER)
  /\ UNCHANGED <<status, control, mouse, clock, timer, advertised>>

PushAllDone ==
  /\ pc = "push_all" /\ displayed \o waiting = <<>>
  /\ pc' = "click" /\ store' = Quiet
  /\ UNCHANGED <<status, left, limit, mouse, clock, timer, advertised>>

---------------------------------------------------------------------------
(* Time                                                                    *)

(* the timeout of a displayed notification runs out *)
TimePasses ==
  /\ pc = "idle"
  /\ \E p \in ToSet(displayed) :
       /\ heap[p].timed /\ ~heap[p].due
       /\ store' = [Quiet EXCEPT !.heap[p].due = TRUE]
  /\ UNCHANGED <<status, control, mouse, clock, timer, advertised>>

TimerFires ==
  /\ pc = "idle"
  /\ timer
  /\ WakeUp(Quiet)
  /\ UNCHANGED <<mouse, clock>>

(* The output wakes dunst up when a fullscreen window comes or goes.        *)
OutputChanges ==
  /\ pc = "idle"
  /\ WakeUp(Quiet)
  /\ UNCHANGED <<mouse, clock>>

---------------------------------------------------------------------------

(* mutant: timeouts are forgotten *)
NeedsTimer_OnlyForAge(n) == ShowAge

(***************************************************************************)
(* The rest of run: signal_length_propertieschanged, and a timer when      *)
(* queues_get_next_datachange finds something to wait for.                 *)
(***************************************************************************)
NeedsTimer(n) == (n.timed /\ ~n.locked) \/ ShowAge

Finish ==
  /\ pc = "finish"
  /\ advertised' = [ displayed |-> Len(displayed), waiting |-> Len(waiting),
                     history |-> Len(history) ]
  /\ timer' = \E p \in ToSet(displayed) : NeedsTimer(heap[p])
  /\ pc' = "idle"
  /\ store' = Quiet
  /\ UNCHANGED <<status, left, limit, mouse, clock>>

---------------------------------------------------------------------------
DBusMethod ==
  \/ \E kind \in Kinds, id \in RequestableIds, stamp \in Stamps :
       Notify(kind, id, stamp)
  \/ \E id \in 1..MaxId : CloseNotification(id)
  \/ CloseAll
  \/ CloseLast
  \/ Show
  \/ \E id \in 1..MaxId : PopHistory(id)
  \/ \E id \in 1..MaxId : RemoveFromHistory(id)
  \/ ClearHistory
  \/ \E level \in PauseLevels : SetPauseLevel(level)

MouseEvent ==
  \/ \E over \in MouseOvers : PointerMoves(over)
  \/ \E todo \in MouseActions, i \in 1..(Len(displayed) + 1) : Click(todo, i)

HandlerStep ==
  \/ ClickCloseAll \/ ClickCloseCurrent \/ ClickRemoveCurrent \/ ClickDone
  \/ PushAllStep \/ PushAllDone

(* The rest of run follows queues_update. *)
RunStep ==
  \/ UpdateStep /\ UNCHANGED <<status, mouse, clock, timer, advertised>>
  \/ Finish

Next ==
  \/ DBusMethod \/ MouseEvent \/ HandlerStep
  \/ TimePasses \/ TimerFires \/ OutputChanges
  \/ RunStep

Spec == Init /\ [][Next]_vars

(* The main loop runs a handler to its end, and glib fires a due timer. *)
FairSpec ==
  /\ Spec
  /\ WF_vars(HandlerStep) /\ WF_vars(RunStep) /\ WF_vars(TimerFires)

---------------------------------------------------------------------------
Open  == ToSet(displayed) \cup ToSet(waiting)
Owned == Open \cup ToSet(history)
AtRest == pc = "idle"

(* The state has the shape the code's declarations give it. *)
TypeOK ==
  /\ store \in Store
  /\ status \in Status
  /\ pc \in {"idle", "push_all", "click",
             "retire", "fill", "trim", "seep", "finish"}
  /\ left \in Nat /\ limit \in Nat
  /\ acts \in Seq(Acts) /\ clicked \in Nat
  /\ clock \in {-1} \cup Stamps
  /\ timer \in BOOLEAN
  /\ advertised \in Lengths

(* Whatever ids clients ask for and however closing, replacing, popping    *)
(* and queues_update move notifications, none is ever in two queues or     *)
(* twice in one, and none is freed while it is queued.                     *)
QueueOwnership == Owns(store)

(* Every notification in memory is in a queue (or held by a menu): no path *)
(* through the queues forgets one without notification_unref.              *)
NothingLost == \A p \in Ptr : heap[p] # Freed => p \in Owned \/ heap[p].locked

(* At rest displayed holds at most notification_limit notifications, and   *)
(* one less when there is a hidden count to show (indicate_hidden).        *)
DisplayLimit ==
  AtRest /\ NotificationLimit > 0 =>
    /\ Len(displayed) <= NotificationLimit
    /\ IndicateHidden /\ NotificationLimit > 1
         /\ Len(displayed) + Len(waiting) > NotificationLimit
       => Len(displayed) < NotificationLimit

(* On every way into history the oldest makes room, and nothing enters     *)
(* without its client having been told that it is closed.                  *)
HistorySound ==
  /\ HistoryLength > 0 => Len(history) <= HistoryLength
  /\ \A p \in ToSet(history) : ~heap[p].valid

(* displayed is full by the limit as it is, or by the one computed in the   *)
(* middle of queues_update: when what is closed after that leaves no hidden *)
(* count to show, the place kept for the count stays empty until the next   *)
(* wake-up.                                                                 *)
IsFull ==
  /\ NotificationLimit # 0
  /\ \/ Len(displayed) = DisplayedLimit
     \/ /\ IndicateHidden /\ NotificationLimit > 1
        /\ Len(displayed) = NotificationLimit - 1

(* When the main loop rests, everything displayed may be displayed: not    *)
(* marked by the mouse, not suppressed, paused or pushed back in the       *)
(* present state of the desktop.  One with skip_display is there only when *)
(* displayed is full and sorted: the swaps at the border do not ask for    *)
(* skip_display, and the next wake-up closes it.                           *)
RestingDisplay ==
  AtRest =>
    \A p \in ToSet(displayed) :
      LET n == heap[p] IN
      n.locked \/ /\ n.closing = NotMarked /\ n.removing = NotMarked
                  /\ SkipsDisplay(n) => Sort # "id" /\ IsFull
                  /\ ~Suppressed(n, status) /\ IsReady(n, status, TRUE)

(* When the main loop rests, a notification that may be shown waits only   *)
(* because displayed is full.                                              *)
WorkConserving ==
  AtRest /\ (\E p \in ToSet(waiting) : IsReady(heap[p], status, FALSE))
    => IsFull

(* With sorting, no notification waits that goes before a displayed one.   *)
ShownAreMostImportant ==
  AtRest /\ Sort # "id" =>
    \A p \in ToSet(displayed), r \in ToSet(waiting) :
      IsReady(heap[r], status, FALSE) => Cmp(heap[p], heap[r]) <= 0

(* Both queues are in the order of notification_cmp at every step:         *)
(* g_queue_insert_sorted and the tests on head and tail rely on it.        *)
QueuesSorted ==
  \A s \in {displayed, waiting} : \A i, j \in DOMAIN s :
    i < j => Cmp(heap[s[i]], heap[s[j]]) <= 0

(* With sort = update the newest of the displayed notifications is first   *)
(* (last with the window at the bottom).                                   *)
MostRecentOnTop ==
  AtRest /\ Sort = "update" /\ displayed # <<>> =>
    LET top == IF OriginBottom THEN Last(displayed) ELSE displayed[1]
    IN \A p \in ToSet(displayed) : heap[top].stamp >= heap[p].stamp

(* The lengths clients were last told in PropertiesChanged are the lengths *)
(* they would read: no handler changes a queue and forgets to wake up.     *)
AdvertisedLengths ==
  AtRest => advertised = [ displayed |-> Len(displayed),
                           waiting |-> Len(waiting), history |-> Len(history) ]

(* A mark of the mouse is used up by the wake-up that follows the click;   *)
(* one left on a notification would close it when it is shown again.       *)
NoStaleMark ==
  AtRest => \A p \in Owned : heap[p].closing = NotMarked
                             /\ heap[p].removing = NotMarked

(* What the mouse removes is in no queue afterwards, not even in history.  *)
RemovedIsGone ==
  [][ \A p \in ToSet(displayed) :
        heap[p].removing # NotMarked /\ p \notin ToSet(displayed')
          => p \notin Owned' ]_vars

(* While a timeout runs on the screen, the timer that ends it is armed. *)
NoLostTimeout ==
  AtRest /\ (\E p \in ToSet(displayed) : heap[p].timed /\ ~heap[p].locked)
    => timer

(* Every run of queues_update, and every handler, comes to its end. *)
UpdateTerminates == ~AtRest ~> AtRest

(* A timeout that has run out takes the notification off the screen or is  *)
(* started again (idle user, mouse over the window), with no other event.  *)
DueLeaves ==
  \A p \in Ptr :
    (AtRest /\ p \in ToSet(displayed) /\ heap[p].due)
      ~> (p \notin ToSet(displayed) \/ ~heap[p].due)

---------------------------------------------------------------------------
(* What a client that trusts the signals can conclude of an id; 2 is the   *)
(* first id dunst hands out.                                               *)
Ids == 2..MaxId

PhaseOf(id) ==
  CASE \E p \in Open : heap[p].id = id /\ heap[p].valid -> "open"
    [] OTHER -> IF id <= store.nextId THEN "closed" ELSE "unused"

Client == INSTANCE Lifecycle WITH
  phase <- [id \in Ids |-> PhaseOf(id)],
  told  <- { s[1] : s \in store.emitted } \ {0}

(* dunst keeps the promise of module Lifecycle to clients that ask only    *)
(* for ids of open notifications and send no empty ones (Notify answers an *)
(* empty one with NotificationClosed for the id it asks for, which stays   *)
(* open): an id is closed exactly once, and its client is told in the very *)
(* step that closes it.                                                    *)
ClientPromise == Client!Spec
===========================================================================
