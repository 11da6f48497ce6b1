------------------------------- MODULE Menu -------------------------------
(***************************************************************************)
(* Actions and the context menu (src/src/menu.c), composed with the main   *)
(* loop of module Daemon.                                                  *)
(*                                                                         *)
(* A menu locks its notifications, puts them into the global menu_ctx and  *)
(* starts a thread.  The thread reads them, feeds dmenu, waits for the     *)
(* answer and hands it to a timer of the main thread, which performs it    *)
(* and unlocks what menu_ctx holds at that time.                           *)
(***************************************************************************)
EXTENDS Daemon, FiniteSets

CONSTANTS
  Slots,          \* bound: the menu threads alive at a time
  MaxRefs,        \* bound: no menu is asked for with that many references
  ThreadStarts    \* what g_thread_try_new may answer: TRUE for success

ASSUME MenuAssumption ==
  /\ ThreadStarts \subseteq BOOLEAN /\ ThreadStarts # {}
  /\ MaxRefs \in Nat

VARIABLES
  ctx,            \* menu_ctx.locked_notifications, <<>> for NULL
  menu,           \* the menu threads
  invoked,        \* the id of the ActionInvoked of this step, or 0
  undisturbed     \* history: every menu so far had menu_ctx for itself

menuVars == <<ctx, menu, invoked, undisturbed>>

(* A line of the menu: an action of an id, or a URL; Nothing is NULL.      *)
Line == [ id : 0..MaxId, action : {"none", "default", "several", "url"} ]

UrlLine == [ id |-> 0, action |-> "url" ]
Nothing == [ id |-> 0, action |-> "none" ]

Thread == [ stage : {"none", "enter", "read", "answered"},
            cells : Seq(Ptr), lines : SUBSET Line, answer : Line ]

NoThread == [ stage |-> "none", cells |-> <<>>, lines |-> {},
              answer |-> Nothing ]

MenuInit ==
  /\ Init
  /\ ctx = <<>> /\ menu = [s \in Slots |-> NoThread]
  /\ invoked = 0 /\ undisturbed = TRUE

Free == { s \in Slots : menu[s].stage = "none" }

(* the bounds, for what may open a menu *)
MayOpen ==
  /\ Free # {}
  /\ \A p \in Ptr : heap[p] # Freed => heap[p].refs < MaxRefs

---------------------------------------------------------------------------
(* What a notification offers.  signal_notification_closed clears the      *)
(* table of actions; the URLs stay.                                        *)

ActionsOf(n) == IF n.valid THEN n.kind.actions ELSE "none"

Actionable(n) == ActionsOf(n) # "none" \/ n.kind.urls > 0

(* mutant: without a reference *)
Locked_NoRef(n) == [n EXCEPT !.locked = TRUE]

(* notification_lock *)
Locked(n) == [n EXCEPT !.locked = TRUE, !.refs = @ + 1]

(* mutant: keeps the reference *)
Unlock_KeepsRef(q, p) == [q EXCEPT !.heap[p].locked = FALSE]

(* notification_unlock *)
Unlock(q, p) == Unref([q EXCEPT !.heap[p].locked = FALSE], p)

(* the notifications of a menu, of which no one is in it twice *)
LockAll(q, ps) ==
  [q EXCEPT !.heap = [p \in Ptr |-> IF p \in ToSet(ps) THEN Locked(q.heap[p])
                                    ELSE q.heap[p]]]

(***************************************************************************)
(* context_menu_for.  A menu that finds another one in menu_ctx is refused *)
(* after its notifications were locked.  When no thread starts, menu_ctx   *)
(* stays as it was set.                                                    *)
(***************************************************************************)
OpenMenu(ps) ==
  /\ store' = LockAll(Quiet, ps)
  /\ IF ctx # <<>>
     THEN /\ UNCHANGED <<ctx, menu>>
          /\ undisturbed' = FALSE
     ELSE /\ ctx' = ps
          /\ \E starts \in ThreadStarts, s \in Free :
               /\ menu' = IF starts
                          THEN [menu EXCEPT ![s] = [NoThread EXCEPT !.stage = "enter"]]
                          ELSE menu
               /\ undisturbed' = (undisturbed /\ starts /\ Free = Slots)

NothingHappens ==
  store' = Quiet /\ invoked' = 0 /\ UNCHANGED <<ctx, menu, undisturbed>>

(* notification_open_url and the branch of notification_do_action for URLs *)
OpenUrl(p) ==
  \/ heap[p].kind.urls = 2 /\ OpenMenu(<<p>>) /\ invoked' = 0
  \/ heap[p].kind.urls # 2 /\ NothingHappens

(* notification_do_action: the default (or only) action, else the menu *)
DoAction(p) ==
  \/ /\ ActionsOf(heap[p]) = "default"
     /\ invoked' = heap[p].id
     /\ store' = Quiet
     /\ UNCHANGED <<ctx, menu, undisturbed>>
  \/ /\ ActionsOf(heap[p]) = "several"
     /\ OpenMenu(<<p>>) /\ invoked' = 0
  \/ /\ ActionsOf(heap[p]) = "none"
     /\ OpenUrl(p)

(* get_actionable_notifications *)
ActionableDisplayed ==
  LET found[i \in 0..Len(displayed)] ==
        IF i = 0 THEN <<>>
        ELSE IF Actionable(heap[displayed[i]])
             THEN Append(found[i - 1], displayed[i])
             ELSE found[i - 1]
  IN found[Len(displayed)]

---------------------------------------------------------------------------
(* The main thread: D-Bus methods and clicks                               *)

MainStays == UNCHANGED <<status, pc, left, limit, mouse, clock, timer, advertised>>

ContextMenuCall ==
  /\ pc = "idle" /\ MayOpen
  /\ OpenMenu(ActionableDisplayed) /\ invoked' = 0
  /\ MainStays

(* dbus_cb_dunst_NotificationAction compares with the number of waiting    *)
(* ones *)
AcceptsPosition(i) == i <= Len(waiting)

NotificationAction(i) ==
  /\ pc = "idle" /\ MayOpen
  /\ AcceptsPosition(i)
  /\ i < Len(displayed)
  /\ DoAction(displayed[i + 1])
  /\ MainStays

ClickOn(act) ==
  /\ ClickAct(act)
  /\ acts' = Tail(acts)
  /\ UNCHANGED <<status, control, clicked, clock, timer, advertised>>

Hit == clicked \in 1..Len(displayed)

Missed == ~Hit /\ NothingHappens

ClickDoAction ==
  /\ ClickOn("do_action")
  /\ Missed \/ (Hit /\ DoAction(displayed[clicked]))

ClickOpenUrl ==
  /\ ClickOn("open_url")
  /\ Missed \/ (Hit /\ OpenUrl(displayed[clicked]))

(* notification_open_context_menu *)
ClickContext ==
  /\ ClickOn("context")
  /\ Missed \/ (Hit /\ OpenMenu(<<displayed[clicked]>>) /\ invoked' = 0)

ClickContextAll ==
  /\ ClickAct("context_all")
  /\ acts' = Tail(acts)
  /\ OpenMenu(ActionableDisplayed) /\ invoked' = 0
  /\ UNCHANGED <<status, control, clicked, clock, timer, advertised>>

---------------------------------------------------------------------------
(* The menu threads                                                        *)

ThreadMoves(s, t) ==
  /\ menu' = [menu EXCEPT ![s] = t]
  /\ invoked' = 0
  /\ UNCHANGED <<vars, ctx, undisturbed>>

(* context_menu_thread begins to walk the list menu_ctx holds now. *)
ThreadEnters(s) ==
  /\ menu[s].stage = "enter"
  /\ ThreadMoves(s, [menu[s] EXCEPT !.stage = "read", !.cells = ctx])

LinesOf(n) ==
  (IF ActionsOf(n) # "none" THEN {[id |-> n.id, action |-> ActionsOf(n)]} ELSE {})
  \cup (IF n.kind.urls > 0 THEN {UrlLine} ELSE {})

(* One notification's lines; one freed in the meantime is read as garbage. *)
ThreadReads(s) ==
  LET n == heap[Head(menu[s].cells)] IN
  /\ menu[s].stage = "read" /\ menu[s].cells # <<>>
  /\ ThreadMoves(s, [menu[s] EXCEPT
       !.cells = Tail(@),
       !.lines = @ \cup (IF n = Freed THEN {} ELSE LinesOf(n))])

(* invoke_dmenu blocks until the user has chosen a line or none; without   *)
(* any line there is no dmenu and no answer.                               *)
InvokeDmenu(s) ==
  /\ menu[s].stage = "read" /\ menu[s].cells = <<>>
  /\ \E answer \in menu[s].lines \cup {Nothing} :
       ThreadMoves(s, [NoThread EXCEPT !.stage = "answered", !.answer = answer])

---------------------------------------------------------------------------
(* The answer arrives at the main thread                                   *)

(* mutant: what the menu names is invoked, without looking it up *)
InvokeAction_Trusting(line) == line.id

(* invoke_action: a displayed notification of that id that still has it *)
InvokeAction(line) ==
  IF \E p \in ToSet(displayed) :
       /\ heap[p].id = line.id
       /\ ActionsOf(heap[p]) = line.action
  THEN line.id ELSE 0

(***************************************************************************)
(* One turn of the loop of context_menu_result_dispatch.  It reads the     *)
(* marks after the unlock, which may have freed p: then they still hold    *)
(* what they held, or they match nothing ("lost").  An aborted menu takes  *)
(* the mark for closing off without closing.                               *)
(***************************************************************************)
Release(q, p, aborted, lost) ==
  LET n == q.heap[p]
      Lost(r) == lost /\ r.heap[p] = Freed
      q1 == Unlock(q, p)
      q2 == IF n.closing # NotMarked /\ ~aborted /\ ~Lost(q1)
            THEN CloseId(q1, n.id, n.closing) ELSE q1
      q3 == IF n.removing # NotMarked /\ ~Lost(q2)
            THEN CloseId(q2, n.id, n.removing) ELSE q2
      q4 == IF n.removing # NotMarked /\ ~Lost(q3)
            THEN HistoryRemoveById(q3, n.id) ELSE q3
  IN Unmark(Unmark(q4, p, "closing"), p, "removing")

(* its loop over menu_ctx *)
ReleaseAll(aborted, lost) ==
  LET turn[i \in 0..Len(ctx)] ==
        IF i = 0 THEN Quiet ELSE Release(turn[i - 1], ctx[i], aborted, lost[i])
  IN turn[Len(ctx)]

(* context_menu_result_dispatch *)
Dispatch(s) ==
  LET answer == menu[s].answer IN
  /\ pc = "idle"
  /\ menu[s].stage = "answered"
  /\ invoked' = IF answer \in {Nothing, UrlLine} THEN 0 ELSE InvokeAction(answer)
  /\ \E lost \in [1..Len(ctx) -> BOOLEAN] :
       WakeUp(ReleaseAll(answer = Nothing, lost))
  /\ ctx' = <<>>
  /\ menu' = [menu EXCEPT ![s] = NoThread]
  /\ UNCHANGED <<mouse, clock, undisturbed>>

---------------------------------------------------------------------------
OpensMenu ==
  \/ ContextMenuCall
  \/ \E i \in 0..Len(displayed) : NotificationAction(i)
  \/ ClickDoAction \/ ClickOpenUrl \/ ClickContext \/ ClickContextAll

ThreadStep(s) == ThreadEnters(s) \/ ThreadReads(s) \/ InvokeDmenu(s)

MenuNext ==
  \/ /\ Next /\ invoked' = 0 /\ UNCHANGED <<ctx, menu, undisturbed>>
     /\ pc = "idle" /\ pc' = "click" => MayOpen
  \/ OpensMenu
  \/ \E s \in Slots : ThreadStep(s) \/ Dispatch(s)

allVars == <<vars, menuVars>>

MenuSpec == MenuInit /\ [][MenuNext]_allVars

---------------------------------------------------------------------------
Count(p, s) == Cardinality({ i \in DOMAIN s : s[i] = p })

(* What a menu thread has still to read is not freed under it, whatever    *)
(* clients and the user do to these notifications on the main thread.      *)
ReaderIsSafe ==
  undisturbed =>
    \A s \in Slots : \A p \in ToSet(menu[s].cells) : heap[p] # Freed

(* Every reference is a queue's or a menu's: while no menu was refused and *)
(* no thread failed to start, no lock outlives its menu (the notification  *)
(* would stay on the screen for ever) and none is given back twice.        *)
(* However menus overlap, what is queued or in menu_ctx is allocated.      *)
ReferencesBalance ==
  /\ undisturbed =>
       \A p \in Ptr : heap[p] # Freed =>
         /\ heap[p].refs = Count(p, displayed \o waiting \o history \o ctx)
         /\ heap[p].locked <=> p \in ToSet(ctx)
  /\ \A p \in Owned \cup ToSet(ctx) : heap[p] # Freed

(* queues_update closes nothing on the screen that is locked: neither a    *)
(* timeout nor a mark nor fullscreen takes it from under its menu.         *)
LockHolds ==
  [][ RunStep => \A p \in ToSet(displayed) :
                   heap[p].locked => p \in Open' ]_allVars

(* An action is invoked only for an id that is open in that moment: never  *)
(* for one whose client has been told that it is closed.                   *)
InvokedIsOpen ==
  [][ invoked' # 0 =>
        \E p \in Open : heap[p].id = invoked' /\ heap[p].valid ]_allVars

===========================================================================
