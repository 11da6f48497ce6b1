------------------------------ MODULE Wayland ------------------------------
(***************************************************************************)
(* The Wayland output (src/src/wayland/wl.c, pool-buffer.c): one surface,  *)
(* two buffers and a frame callback, between run() and draw() on one side  *)
(* and the compositor on the other.                                        *)
(*                                                                         *)
(* draw() and win_hide() end in wl_display_roundtrip, which dispatches the *)
(* compositor's events inside of run(): a handler that wakes dunst up runs *)
(* run() within run().  stack holds the calls of run that are waiting in a *)
(* round trip; every event may arrive there as well as in the main loop.   *)
(***************************************************************************)
EXTENDS Desktop, FiniteSets

CONSTANTS
  UserSettings,         \* the settings users choose
  Contents,        \* what there may be to show; each has a size of its own
  Compositors,     \* what dunst may find at start
  CloseWaits,      \* no surface is closed that waits to be configured
  Stubborn,        \* what reload's pause may leave on the screen
  MaxDepth,        \* bound: calls of run in one another
  MaxTimers,       \* bound: timers
  MaxChanges       \* bound: changes of the desktop

ASSUME WaylandAssumption ==
  /\ UserSettings \subseteq Settings /\ UserSettings # {}
  /\ Contents \subseteq Nat \ {0}
  /\ Compositors \subseteq Compositor /\ Compositors # {}
  /\ CloseWaits \in BOOLEAN
  /\ Stubborn \subseteq Contents \cup {0} /\ 0 \in Stubborn
  /\ {MaxDepth, MaxTimers, MaxChanges} \subseteq Nat

VARIABLES
  wl,              \* ctx, and the compositor's side of the surface
  want,            \* what queues_update left to display; 0 for nothing
  stack,           \* run()s waiting in a round trip, the innermost first
  timers,          \* glib timeout sources; tracked: next_timeout_id # 0
  status,          \* what run() last learnt of the desktop
  server,          \* the compositor: monitors, and events still to come
  changes          \* how often the desktop changed

wlVars == <<desktop, wl, want, stack, timers, status, server, changes>>

Size == Contents \cup {0}

Ctx == [
  surface : BOOLEAN,           \* surface and layer_surface or xdg_surface
  layer_surface_output : Outputs \cup {NoOutput},
  configured : BOOLEAN,
  size : Size,                 \* width and height
  cur_dim : Size,
  dirty : BOOLEAN,
  frame_callback : {"none", "pending", "dead"},  \* dead: of a gone surface
  current_buffer : 0..2,
  busy : SUBSET (1..2),
  content : [1..2 -> Size],
  set_size : Size,             \* of the layer surface; 0 before the first
  attached : Size,             \* by wl_surface_attach, to be committed
  asked : Size,                \* configure to come
  closing : BOOLEAN,           \* closed to come
  screen : Size,               \* what the user sees
  dead : BOOLEAN ]             \* crashed, or thrown out by the compositor

NoCtx == [
  surface |-> FALSE, layer_surface_output |-> NoOutput,
  configured |-> FALSE, size |-> 0, cur_dim |-> 0, dirty |-> FALSE,
  frame_callback |-> "none", current_buffer |-> 0, busy |-> {},
  content |-> [b \in 1..2 |-> 0], set_size |-> 0, attached |-> 0, asked |-> 0,
  closing |-> FALSE, screen |-> 0, dead |-> FALSE ]

---------------------------------------------------------------------------
(* Requests                                                                *)

Destroy(w) ==
  [ w EXCEPT !.surface = FALSE, !.set_size = 0, !.attached = 0, !.asked = 0,
             !.closing = FALSE, !.screen = 0 ]

(* the first branch of send_frame; it does not look at frame_callback *)
TearDown(w) ==
  [ Destroy(w) EXCEPT !.size = 0, !.configured = FALSE,
      !.frame_callback = IF w.surface /\ @ = "pending" THEN "dead" ELSE @ ]

Commit(w) ==
  [ w EXCEPT !.screen = IF w.attached # 0 THEN w.attached ELSE @,
             !.attached = 0 ]

(* A commit that asks for a size, or a new surface's; a layer surface that *)
(* never set one is a protocol error.                                      *)
CommitUnconfigured(w) ==
  [ Commit(w) EXCEPT !.asked = IF compositor.layer_shell THEN w.set_size ELSE w.cur_dim,
                     !.dead = compositor.layer_shell /\ w.set_size = 0 ]

(* schedule_frame_and_commit on a surface; a pending frame is waited for *)
RequestFrame(w) ==
  IF w.frame_callback # "none" THEN w
  ELSE [Commit(w) EXCEPT !.frame_callback = "pending"]

Create(w, output) ==
  [ w EXCEPT !.surface = TRUE, !.layer_surface_output = output,
             !.closing = \/ server'.plugged = {}
                         \/ output \notin server'.plugged \cup {NoOutput} ]

Resize(w) ==
  IF compositor.layer_shell /\ w.size # w.cur_dim
  THEN [w EXCEPT !.set_size = w.cur_dim, !.configured = FALSE]
  ELSE w

(* current_buffer is used without asking whether there is one. *)
Attach(w) ==
  IF w.current_buffer = 0 THEN [w EXCEPT !.dead = TRUE]
  ELSE [w EXCEPT !.attached = w.content[w.current_buffer],
                 !.busy = @ \cup {w.current_buffer}]

(***************************************************************************)
(* send_frame, with the outputs and settings the step leaves behind.  Its  *)
(* own round trip has nothing to do afterwards, so it leaves no trace.     *)
(***************************************************************************)
SendFrame(w, outs) ==
  LET output == ConfiguredOutput(outs, settings')
      kept  == IF w.cur_dim = 0 \/ w.layer_surface_output # output
               THEN TearDown(w) ELSE w
      sized == Resize(IF kept.surface THEN kept
                      ELSE Create(kept, output))
  IN IF outs = <<>> THEN [w EXCEPT !.dirty = FALSE]
     ELSE IF w.cur_dim = 0 THEN [kept EXCEPT !.dirty = FALSE]
     ELSE IF ~sized.configured THEN CommitUnconfigured(sized)
     ELSE [RequestFrame(Attach(sized)) EXCEPT !.dirty = FALSE]

Schedule(w, outs) ==
  IF w.frame_callback = "none" /\ ~w.surface
  THEN SendFrame(w, outs) ELSE RequestFrame(w)

SetDirty(w, outs) ==
  IF w.dirty THEN w ELSE Schedule([w EXCEPT !.dirty = TRUE], outs)

---------------------------------------------------------------------------
(* run()                                                                   *)

(* get_next_buffer: the last one that is not busy *)
NextBuffer(w) ==
  CASE 2 \notin w.busy -> 2
    [] 2 \in w.busy /\ 1 \notin w.busy -> 1
    [] OTHER -> 0

(* draw: wl_win_get_context and, if there is a buffer, wl_display_surface *)
Draw(w, c, outs) ==
  LET b == NextBuffer(w) IN
  IF b = 0 THEN [w EXCEPT !.current_buffer = 0]
  ELSE SetDirty([w EXCEPT !.current_buffer = b, !.content[b] = c, !.cur_dim = c],
                outs)

(* wl_win_hide *)
WinHide(w, outs) == SetDirty([w EXCEPT !.cur_dim = 0], outs)

(* next_timeout_id is forgotten, and removed unless it is the reason *)
Disarm(t, reason) ==
  [ sources |-> IF reason = "timer" \/ t.tracked THEN t.sources - 1 ELSE t.sources,
    tracked |-> FALSE ]

(* g_timeout_add at the end of run: everything shown times out. *)
Arm(t) == [sources |-> t.sources + 1, tracked |-> TRUE]

(***************************************************************************)
(* run, up to its round trip, on the context w, with the calls of under    *)
(* waiting below it.  queues_update may leave anything of cs to display.   *)
(* A draw that finds no buffer returns at once.                            *)
(***************************************************************************)
RunOn(w, reason, cs, under) ==
  /\ \E c \in cs :
       LET drawn == Draw(w, c, outputs')
           t == Disarm(timers, reason)
       IN /\ want' = c
          /\ \/ /\ c = 0
                /\ wl' = WinHide(w, outputs')
                /\ stack' = <<"hide">> \o under /\ timers' = t
             \/ /\ c # 0 /\ drawn.current_buffer # 0
                /\ wl' = drawn
                /\ stack' = <<"show">> \o under /\ timers' = t
             \/ /\ c # 0 /\ drawn.current_buffer = 0
                /\ wl' = drawn
                /\ stack' = under /\ timers' = Arm(t)
  /\ status' = Status'

(* While reload pauses, only what ignores that is left to display. *)
Run(w, reason) ==
  RunOn(w, reason, IF "reload" \in ToSet(stack) THEN Stubborn ELSE Size, stack)

(* The handler does not wake up. *)
Quietly(w) ==
  wl' = w /\ UNCHANGED <<want, stack, timers, status>>

(* setup_done *)
SetupDone == "unpause" \notin ToSet(stack)

(* wake_up; MaxDepth and MaxTimers bound run() within run(). *)
WakeUp(w) ==
  \/ ~SetupDone /\ Quietly(w)
  \/ /\ SetupDone
     /\ Len(stack) < MaxDepth /\ timers.sources + Len(stack) < MaxTimers
     /\ Run(w, "wakeup")

(* mutant: the timer is given up after hiding the window, not before *)
ReturnToRun_DisarmsLate ==
  /\ stack # <<>> /\ Head(stack) \in {"show", "hide"} /\ ~wl.dead
  /\ timers' = IF Head(stack) = "show" /\ want # 0 THEN Arm(timers)
               ELSE Disarm(timers, "wakeup")
  /\ stack' = Tail(stack)
  /\ UNCHANGED <<desktop, wl, want, status, server, changes>>

(* the rest of run after the round trip *)
ReturnToRun ==
  /\ stack # <<>> /\ Head(stack) \in {"show", "hide"} /\ ~wl.dead
  /\ timers' = IF Head(stack) = "show" /\ want # 0 THEN Arm(timers) ELSE timers
  /\ stack' = Tail(stack)
  /\ UNCHANGED <<desktop, wl, want, status, server, changes>>

Idle == stack = <<>> /\ ~wl.dead

(* the main loop or a round trip dispatches the compositor's events *)
Dispatching == ~wl.dead /\ (stack # <<>> => Head(stack) # "reload")

(* a D-Bus method *)
QueuesChange ==
  /\ Idle
  /\ UNCHANGED <<desktop, server, changes>>
  /\ WakeUp(wl)

TimerFires ==
  /\ Idle /\ timers.sources > 0
  /\ UNCHANGED <<desktop, server, changes>>
  /\ Run(wl, "timer")

---------------------------------------------------------------------------
(* Reload: pause, draw_deinit, draw_setup, unpause                         *)

Change(n) == changes + n <= MaxChanges /\ changes' = changes + n

(* pause_signal; a monitor is there until wl_init has found it *)
Reload ==
  /\ Idle /\ server.plugged # {} /\ Change(1)
  /\ UNCHANGED <<desktop, server>>
  /\ RunOn(wl, "wakeup", Stubborn, <<"reload">>)

(* wl_deinit: the sizes and configured stay as they are *)
Deinit(w) ==
  [ Destroy(w) EXCEPT !.frame_callback = "none", !.current_buffer = 0,
      !.busy = {}, !.content = NoCtx.content, !.layer_surface_output = NoOutput ]

(* wl_init: the first output announced makes the context dirty *)
WlInit(w, outs) ==
  LET clean == [w EXCEPT !.dirty = FALSE]
  IN IF outs = <<>> THEN clean ELSE SetDirty(clean, <<Last(outs)>>)

(* load_settings may find other settings; unpause_signal runs again. *)
Reinit ==
  /\ stack # <<>> /\ Head(stack) = "reload" /\ ~wl.dead
  /\ settings' \in UserSettings
  /\ outputs' \in SetToSeqs(server.plugged)
  /\ toplevels' = toplevels
  /\ seats' = [seats EXCEPT !.idle = {}]
  /\ server' = [server EXCEPT !.scaling = {}]
  /\ UNCHANGED <<compositor, changes, want, timers, status>>
  /\ stack' = <<"unpause">>
  /\ wl' = WlInit(Deinit(wl), outputs')

(* unpause_signal, when wl_init has done its round trips *)
Unpause ==
  /\ stack = <<"unpause">> /\ ~wl.dead
  /\ UNCHANGED <<desktop, server, changes>>
  /\ RunOn(wl, "wakeup", Size, <<>>)

---------------------------------------------------------------------------
(* The surface's events                                                    *)

(* The compositor copies shared-memory buffers when they are committed and *)
(* releases them before it says anything else about the surface.           *)
Released == wl.busy = {}

Release(b) ==
  /\ b \in wl.busy /\ Dispatching
  /\ Quietly([wl EXCEPT !.busy = @ \ {b}])
  /\ UNCHANGED <<desktop, server, changes>>

(* layer_surface_handle_configure and xdg_surface_handle_configure *)
HandleConfigure(w, size) ==
  IF w.configured /\ (compositor.layer_shell => w.size = size) THEN Commit(w)
  ELSE SendFrame([w EXCEPT !.configured = TRUE,
                           !.size = IF compositor.layer_shell THEN size ELSE @],
                 outputs')

(* The compositor grants the size asked for, or repeats the last one. *)
Configure ==
  /\ wl.surface /\ Released /\ Dispatching
  /\ wl.asked # 0 \/ wl.configured
  /\ UNCHANGED <<desktop, server, changes>>
  /\ Quietly(HandleConfigure([wl EXCEPT !.asked = 0],
                             IF wl.asked # 0 THEN wl.asked ELSE wl.size))

(* mutant: the size of the surface is kept *)
HandleClosed_KeepsSize(w) ==
  LET gone == [Destroy(w) EXCEPT !.frame_callback = "none", !.configured = FALSE]
  IN IF w.configured \/ w.dirty THEN Schedule([gone EXCEPT !.dirty = TRUE], outputs')
     ELSE gone

(* surface_handle_closed *)
HandleClosed(w) ==
  LET gone == [Destroy(w) EXCEPT !.frame_callback = "none",
                 !.dirty = @ \/ w.frame_callback # "none"]
      reset == IF w.configured
               THEN [gone EXCEPT !.configured = FALSE, !.size = 0, !.dirty = TRUE]
               ELSE gone
  IN IF reset.dirty THEN Schedule(reset, outputs') ELSE reset

Closed ==
  /\ wl.surface /\ wl.closing /\ Released /\ Dispatching
  /\ CloseWaits => wl.asked = 0
  /\ UNCHANGED <<desktop, server, changes>>
  /\ Quietly(HandleClosed(wl))

(* mutant: a frame that became dirty in the meantime is not sent *)
HandleFrameDone_NoRedraw(w) == [w EXCEPT !.frame_callback = "none"]

(* frame_handle_done *)
HandleFrameDone(w) ==
  LET done == [w EXCEPT !.frame_callback = "none"]
  IN IF w.dirty THEN SendFrame(done, outputs') ELSE done

FrameDone ==
  /\ wl.frame_callback = "pending" /\ wl.screen # 0 /\ Released /\ Dispatching
  /\ UNCHANGED <<desktop, server, changes>>
  /\ Quietly(HandleFrameDone(wl))

(* The compositor closes the surface by itself. *)
CompositorCloses ==
  /\ wl.surface /\ ~wl.closing /\ ~wl.dead /\ Change(1)
  /\ Quietly([wl EXCEPT !.closing = TRUE])
  /\ UNCHANGED <<desktop, server>>

---------------------------------------------------------------------------
(* The desktop's events                                                    *)

(* create_output: the first output makes the context dirty. *)
OutputAppears(o) ==
  /\ o \notin server.plugged \cup ToSet(outputs) /\ ~wl.closing /\ Dispatching
  /\ Change(1)
  /\ outputs' = <<o>> \o outputs
  /\ server' = [plugged |-> server.plugged \cup {o}, scaling |-> server.scaling \cup {o}]
  /\ UNCHANGED <<compositor, settings, toplevels, seats>>
  /\ Quietly(IF outputs = <<>> THEN SetDirty(wl, outputs') ELSE wl)

(* output_handle_scale, which follows *)
OutputScale(o) ==
  /\ o \in server.scaling /\ Dispatching
  /\ server' = [server EXCEPT !.scaling = @ \ {o}]
  /\ UNCHANGED <<desktop, changes>>
  /\ WakeUp(wl)

(* The compositor closes surfaces of a monitor that goes; on which monitor *)
(* a surface without one is, it knows.                                     *)
OutputUnplugged(o) ==
  /\ o \in server.plugged /\ ~wl.dead
  /\ stack # <<>> /\ Last(stack) = "reload" => server.plugged # {o}
  /\ \A w \in Windows : o \notin toplevels[w].on
  /\ Change(1)
  /\ server' = [plugged |-> server.plugged \ {o}, scaling |-> server.scaling \ {o}]
  /\ \E there \in BOOLEAN :
       Quietly([wl EXCEPT !.closing =
         \/ @
         \/ /\ wl.surface
            /\ \/ wl.layer_surface_output = o
               \/ server'.plugged = {}
               \/ wl.layer_surface_output = NoOutput /\ there])
  /\ UNCHANGED desktop

(* handle_global_remove and destroy_output *)
OutputRemoved(o) ==
  /\ o \in ToSet(outputs) \ server.plugged /\ Dispatching
  /\ outputs' = SelectSeq(outputs, LAMBDA p : p # o)
  /\ Quietly([wl EXCEPT !.layer_surface_output = IF @ = o THEN NoOutput ELSE @])
  /\ UNCHANGED <<compositor, settings, toplevels, seats, server, changes>>

(* an event of a window; only done may wake dunst up *)
TopChanges(w, t) ==
  /\ toplevels' = [toplevels EXCEPT ![w] = t]
  /\ UNCHANGED <<compositor, settings, outputs, seats, server>>

TopAppears(w) ==
  /\ compositor.toplevel_manager
  /\ ~toplevels[w].open /\ Change(1) /\ Dispatching
  /\ TopChanges(w, NewToplevel) /\ Quietly(wl)

TopEnters(w, o) ==
  /\ toplevels[w].open /\ Dispatching
  /\ o \in (server.plugged \cap ToSet(outputs)) \ toplevels[w].on
  /\ TopChanges(w, [toplevels[w] EXCEPT !.on = @ \cup {o}])
  /\ Quietly(wl) /\ UNCHANGED changes

TopLeaves(w, o) ==
  /\ toplevels[w].open /\ o \in toplevels[w].on /\ Dispatching
  /\ TopChanges(w, OutputLeave(toplevels[w], o))
  /\ Quietly(wl) /\ UNCHANGED changes

(* toplevel_handle_state *)
TopSaysState(w, s) ==
  /\ toplevels[w].open /\ s # toplevels[w].current /\ Dispatching
  /\ TopChanges(w, [toplevels[w] EXCEPT !.pending = s])
  /\ Quietly(wl) /\ UNCHANGED changes

(* toplevel_handle_done *)
TopDone(w) ==
  /\ toplevels[w].open /\ toplevels[w].pending # "invalid" /\ Dispatching
  /\ TopChanges(w, CopyState(toplevels[w])) /\ UNCHANGED changes
  /\ IF Status'.fullscreen # Status.fullscreen THEN WakeUp(wl) ELSE Quietly(wl)

TopClosed(w) ==
  /\ toplevels[w].open /\ Dispatching
  /\ TopChanges(w, NoToplevel)
  /\ Quietly(wl) /\ UNCHANGED changes

SeatsChange(s) ==
  /\ seats' = s /\ Dispatching /\ Quietly(wl)
  /\ UNCHANGED <<compositor, settings, outputs, toplevels, server>>

SeatAppears(s) ==
  /\ s \notin seats.known /\ Change(1)
  /\ SeatsChange([known |-> seats.known \cup {s}, idle |-> seats.idle \ {s}])

SeatRemoved(s) ==
  /\ s \in seats.known /\ Change(1)
  /\ SeatsChange([known |-> seats.known \ {s}, idle |-> seats.idle \ {s}])

(* idle_start and idle_stop: known at the next run *)
SeatIdles(s) ==
  /\ s \in seats.known \ seats.idle /\ settings.idle_threshold /\ Change(1)
  /\ SeatsChange([seats EXCEPT !.idle = @ \cup {s}])

SeatResumes(s) ==
  /\ s \in seats.idle /\ UNCHANGED changes
  /\ SeatsChange([seats EXCEPT !.idle = @ \ {s}])

(* pointer_handle_enter, _leave and _button and touch_handle_up, on a      *)
(* window that is there to be touched *)
PointerEvent ==
  /\ wl.screen # 0 /\ seats.known # {} /\ Dispatching
  /\ UNCHANGED <<desktop, server, changes>>
  /\ WakeUp(wl)

---------------------------------------------------------------------------
WaylandInit ==
  /\ settings \in UserSettings
  /\ compositor \in Compositors
  /\ outputs \in SetToSeqs(compositor.monitors)
  /\ toplevels = [w \in Windows |-> NoToplevel]
  /\ seats = [known |-> compositor.seats, idle |-> {}]
  /\ server = [plugged |-> compositor.monitors, scaling |-> {}]
  /\ wl = NoCtx
  /\ want = 0 /\ stack = <<>> /\ changes = 0
  /\ timers = [sources |-> 0, tracked |-> FALSE]
  /\ status = [fullscreen |-> FALSE, idle |-> FALSE]

SurfaceEvent ==
  \/ \E b \in 1..2 : Release(b)
  \/ Configure \/ Closed \/ FrameDone

OutputEvent ==
  \E o \in Outputs : OutputScale(o) \/ OutputRemoved(o)

DesktopChange ==
  \/ CompositorCloses
  \/ \E o \in Outputs : OutputAppears(o) \/ OutputUnplugged(o)
  \/ \E w \in Windows :
       \/ TopAppears(w) \/ TopDone(w) \/ TopClosed(w)
       \/ \E o \in Outputs : TopEnters(w, o) \/ TopLeaves(w, o)
       \/ \E s \in TopState : TopSaysState(w, s)
  \/ \E s \in Seats :
       SeatAppears(s) \/ SeatRemoved(s) \/ SeatIdles(s) \/ SeatResumes(s)

MainLoop == QueuesChange \/ TimerFires \/ Reload \/ Reinit \/ Unpause \/ ReturnToRun

WaylandNext ==
  MainLoop \/ SurfaceEvent \/ OutputEvent \/ DesktopChange \/ PointerEvent

WaylandSpec == WaylandInit /\ [][WaylandNext]_wlVars

(* A round trip ends, the compositor sends what is due, and the frame      *)
(* callback comes while the surface is on a monitor.                       *)
WaylandFairSpec ==
  /\ WaylandSpec
  /\ WF_wlVars(ReturnToRun) /\ WF_wlVars(Reinit) /\ WF_wlVars(Unpause)
  /\ \A b \in 1..2 : WF_wlVars(Release(b))
  /\ WF_wlVars(Configure) /\ WF_wlVars(Closed) /\ WF_wlVars(FrameDone)
  /\ WF_wlVars(OutputEvent)

---------------------------------------------------------------------------
(* No frame is sent without a buffer, and no surface committed without a   *)
(* size: send_frame uses current_buffer as it is, and draw sets it to NULL *)
(* when both buffers are busy.                                             *)
NeverDies == ~wl.dead

(* When the main loop rests with something to time out on the screen, a    *)
(* timer is running, however runs were nested.                             *)
TimerArmed == stack = <<>> /\ want # 0 => timers.sources > 0

(* What the queues have settled on comes to the screen (or leaves it),     *)
(* through resizing, closing and moving surfaces, busy buffers and frames  *)
(* that become dirty while one is pending.                                 *)
ScreenCatchesUp ==
  \A c \in Size :
    <>[](want = c /\ server.plugged # {}) => <>[](wl.screen = c)

(* dunst.5.pod:934: new notifications are "held back and displayed when    *)
(* the focus to the fullscreen window is lost": when dunst rests, it knows *)
(* that no fullscreen window is left.                                      *)
FullscreenEndIsSeen ==
  stack = <<>> /\ (\A w \in Windows : toplevels[w].pending = "invalid")
    => (status.fullscreen => Status.fullscreen)

===========================================================================
