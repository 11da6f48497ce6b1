-------------------------------- MODULE X11 --------------------------------
(***************************************************************************)
(* The X11 output (src/src/x11/x.c, screen.c): one window, four keyboard   *)
(* shortcuts grabbed from everybody else, and the monitor to show on.      *)
(*                                                                         *)
(* dunst asks the X server for the focus, the pointer and fullscreen       *)
(* windows when it needs them, but is told of changes by events that it    *)
(* reads later, one after the other.  x is dunst's side, server the other. *)
(***************************************************************************)
EXTENDS Naturals, Sequences, SequencesExt

CONSTANTS
  Monitors,        \* the monitors there may be
  Nowhere,         \* no focused window; no name
  UserSettings,    \* the settings users choose
  Layouts,         \* the monitors that are connected at a time, in order
  Dpis,            \* values of the resource Xft.dpi
  Shortcuts,       \* those of the four that the settings define
  Rivals,          \* what another client may grab at once of a combination
  MaxEvents,       \* bound: events not yet read
  MaxChanges       \* bound: changes of the desktop that say nothing to dunst

Lock == {"plain", "numlock"}    \* a shortcut is grabbed with and without it

(* How monitors are found depends on the server, and on force_xinerama. *)
Settings == [ follow : {"none", "mouse", "keyboard"}, monitor : Monitors \cup 0..1,
              enumeration : {"randr", "xinerama", "fallback"} ]

ASSUME X11Assumption ==
  /\ Nowhere \notin Monitors
  /\ UserSettings \subseteq Settings /\ UserSettings # {}
  /\ Layouts \subseteq Seq(Monitors) \ {<<>>} /\ Layouts # {}
  /\ Shortcuts \subseteq {"close", "close_all", "context", "history"}
  /\ Rivals \subseteq SUBSET Lock
  /\ {MaxEvents, MaxChanges} \subseteq Nat

VARIABLES
  settings,        \* follow, monitor, and how monitors are found
  server,          \* the X server and the desktop
  x,               \* dunst's window and what it knows of the server
  want,            \* whether queues_update left something to display
  changes          \* how often the desktop changed

x11Vars == <<settings, server, x, want, changes>>

Combination == Shortcuts \X Lock

Event == {"expose", "more_exposed", "focus", "resource", "randr", "input"}

Server == [
  monitors : Seq(Monitors),        \* connected, in order
  xft : Dpis,
  pointer : Monitors,
  focus : Monitors \cup {Nowhere},
  fullscreen : BOOLEAN,            \* of the focused window
  rivals : SUBSET Combination,     \* grabbed by other clients
  grabs : SUBSET Combination,      \* grabbed by dunst
  mapped : BOOLEAN,
  blank : BOOLEAN,                 \* a part of the window is not drawn
  events : Seq(Event) ]

(* struct screen_info; only randr_update fills in the name and the dpi *)
Screen == [ name : Monitors \cup {Nowhere}, dpi : Dpis \cup {0}, at : Monitors ]

Window == [
  visible : BOOLEAN,
  cur_screen : Nat,                \* index in screens
  screens : Seq(Screen),
  fullscreen_last : BOOLEAN,
  valid : SUBSET Shortcuts,        \* is_valid of each
  at : Monitors \cup {Nowhere},    \* where the window was last put
  dpi : Dpis \cup {0} ]            \* and what it was scaled for

---------------------------------------------------------------------------
(* Monitors                                                                *)

(* randr_update, xinerama_update and screen_update_fallback *)
Screens(s, how) ==
  CASE how = "randr" ->
         [i \in DOMAIN s.monitors |->
            [name |-> s.monitors[i], dpi |-> s.xft, at |-> s.monitors[i]]]
    [] how = "xinerama" ->
         [i \in DOMAIN s.monitors |->
            [name |-> Nowhere, dpi |-> 0, at |-> s.monitors[i]]]
    [] OTHER -> <<[name |-> Nowhere, dpi |-> 0, at |-> Head(s.monitors)]>>

(* The last index that satisfies the condition, or the first of all. *)
LastOr1(indices) ==
  IF indices = {} THEN 1 ELSE CHOOSE i \in indices : \A j \in indices : j <= i

FirstOr1(indices) ==
  IF indices = {} THEN 1 ELSE CHOOSE i \in indices : \A j \in indices : i <= j

(* get_active_screen: the number is taken if there is such a screen, else  *)
(* the name counts; keyboard focus falls back to the pointer, and          *)
(* everything to the first screen. *)
Point(set, s) ==
  IF set.follow = "keyboard" /\ s.focus # Nowhere THEN s.focus ELSE s.pointer

ActiveScreen(set, s, screens) ==
  IF set.follow = "none"
  THEN FirstOr1({ i \in DOMAIN screens :
         set.monitor = i - 1 \/ set.monitor = screens[i].name })
  ELSE LastOr1({ i \in DOMAIN screens : screens[i].at = Point(set, s) })

---------------------------------------------------------------------------
(* Shortcuts                                                               *)

(* x_shortcut_grab asks for both combinations; one refused makes the       *)
(* shortcut invalid, and keeps the other. *)
Refused(s, k) == \E l \in Lock : <<k, l>> \in s.rivals

Grab(w, s, ks) ==
  LET tried == ks \cap w.valid IN
  <<[w EXCEPT !.valid = { k \in @ : k \notin tried \/ ~Refused(s, k) }],
    [s EXCEPT !.grabs = @ \cup ((tried \X Lock) \ s.rivals)]>>

(* x_shortcut_ungrab *)
Ungrab(w, s, ks) ==
  [s EXCEPT !.grabs = @ \ ((ks \cap w.valid) \X Lock)]

WindowKeys == Shortcuts \ {"history"}

---------------------------------------------------------------------------
(* Drawing, showing and hiding                                             *)

(* draw and x_display_surface: cur_screen is left alone *)
Draw(w, s) ==
  LET screen == w.screens[ActiveScreen(settings', s, w.screens)]
  IN [w EXCEPT !.at = screen.at, !.dpi = screen.dpi]

(* x_win_show; the server asks for the window to be drawn, unless it has   *)
(* asked before *)
Show(w, s) ==
  IF w.visible THEN <<w, s>>
  ELSE LET g == Grab(w, s, WindowKeys)
       IN <<[g[1] EXCEPT !.visible = TRUE],
            [g[2] EXCEPT !.mapped = TRUE, !.blank = TRUE,
                         !.events = IF "expose" \in ToSet(@) THEN @
                                    ELSE Append(@, "expose")]>>

(* mutant: the context shortcut stays grabbed *)
Hide_KeepsContext(w, s) ==
  IF ~w.visible THEN <<w, s>>
  ELSE <<[w EXCEPT !.visible = FALSE],
         [Ungrab(w, s, WindowKeys \ {"context"}) EXCEPT
            !.mapped = FALSE, !.blank = FALSE]>>

(* x_win_hide *)
Hide(w, s) ==
  IF ~w.visible THEN <<w, s>>
  ELSE <<[w EXCEPT !.visible = FALSE],
         [Ungrab(w, s, WindowKeys) EXCEPT !.mapped = FALSE, !.blank = FALSE]>>

(* run, by wake_up or the timer; what queues_update leaves to display is   *)
(* open here *)
Run(w, s) ==
  \E shown \in BOOLEAN :
    LET r == IF shown THEN Show(Draw(w, s), [s EXCEPT !.blank = FALSE])
             ELSE Hide(w, s)
    IN want' = shown /\ x' = r[1] /\ server' = r[2]

(* draw alone, in a handler *)
Redraw(w, s) ==
  /\ x' = Draw(w, s) /\ server' = [s EXCEPT !.blank = FALSE]
  /\ UNCHANGED want

Nothing(w, s) == x' = w /\ server' = s /\ UNCHANGED want

---------------------------------------------------------------------------
(* x_mainloop_fd_dispatch, one event of it                                 *)

Reading(e) == server.events # <<>> /\ Head(server.events) = e

Read == [server EXCEPT !.events = Tail(@)]

Still == UNCHANGED <<settings, changes>>

(* mutant: draws for the first part that was exposed *)
HandleExpose_First ==
  /\ Reading("more_exposed") \/ Reading("expose")
  /\ Still
  /\ IF x.visible /\ Reading("more_exposed") THEN Redraw(x, Read) ELSE Nothing(x, Read)

(* Expose; draws when no more of them follow *)
HandleExpose ==
  /\ Reading("more_exposed") \/ Reading("expose")
  /\ Still
  /\ IF x.visible /\ Reading("expose") THEN Redraw(x, Read) ELSE Nothing(x, Read)

(* ConfigureNotify, FocusIn, FocusOut and PropertyNotify of the root *)
HandleFocus ==
  /\ Reading("focus")
  /\ Still
  /\ LET i == ActiveScreen(settings, server, x.screens) IN
     IF server.fullscreen # x.fullscreen_last
     THEN Run([x EXCEPT !.fullscreen_last = server.fullscreen], Read)
     ELSE IF settings.follow # "none" /\ x.visible /\ i # x.cur_screen
     THEN Redraw([x EXCEPT !.cur_screen = i], Read)
     ELSE Nothing(x, Read)

(* PropertyNotify of RESOURCE_MANAGER: draws with the dpi the screens have *)
HandleResource ==
  /\ Reading("resource")
  /\ Still
  /\ IF x.visible THEN Redraw(x, Read) ELSE Nothing(x, Read)

(* mutant: a hidden window needs no monitors *)
HandleRandr_WhileVisible ==
  /\ Reading("randr")
  /\ Still
  /\ Nothing(IF x.visible
             THEN [x EXCEPT !.screens = Screens(server, settings.enumeration)]
             ELSE x, Read)

(* RRScreenChangeNotify *)
HandleRandr ==
  /\ Reading("randr")
  /\ Still
  /\ Nothing([x EXCEPT !.screens = Screens(server, settings.enumeration)], Read)

(* KeyPress: close needs something displayed; ButtonRelease wakes up *)
HandleInput ==
  /\ Reading("input")
  /\ Still
  /\ Run(x, Read) \/ Nothing(x, Read)

HandleEvent ==
  HandleExpose \/ HandleFocus \/ HandleResource \/ HandleRandr \/ HandleInput

---------------------------------------------------------------------------
(* The rest of dunst                                                       *)

(* a D-Bus method, or the timer: what is shown times out *)
QueuesChange == Still /\ Run(x, server)

TimerFires == x.visible /\ Still /\ Run(x, server)

(* x_setup and x_win_create: every shortcut is tried out, and history kept *)
(* if it is free; events of an earlier connection are lost. *)
Setup(w, s, how) ==
  LET valid == { k \in Shortcuts : ~Refused(s, k) }
      left  == { c \in Combination \ s.rivals : c[1] \in valid => c[1] = "history" }
  IN <<[w EXCEPT !.visible = FALSE, !.cur_screen = 1, !.valid = valid,
                 !.at = Nowhere, !.dpi = 0, !.screens = Screens(s, how)],
       [s EXCEPT !.grabs = left, !.events = <<>>, !.mapped = FALSE,
                 !.blank = FALSE]>>

Change == changes < MaxChanges /\ changes' = changes + 1

(* reload: the output is torn down and set up again, and unpausing runs. *)
Reload ==
  /\ Change
  /\ settings' \in UserSettings
  /\ LET r == Setup(x, server, settings'.enumeration) IN Run(r[1], r[2])

---------------------------------------------------------------------------
(* The X server, other clients and the user.  Only some changes make the   *)
(* server say something to dunst.                                          *)

Says(s, es) ==
  /\ Len(s.events) + Len(es) <= MaxEvents
  /\ server' = [s EXCEPT !.events = @ \o es]
  /\ UNCHANGED <<settings, x, want>>

Exposed ==
  /\ server.mapped /\ UNCHANGED changes
  /\ \E es \in { <<"expose">>, <<"more_exposed", "expose">> } :
       Says([server EXCEPT !.blank = TRUE], es)

(* A window gets the focus, becomes fullscreen or ceases to be. *)
FocusMoves ==
  /\ Change
  /\ \E m \in ToSet(server.monitors) \cup {Nowhere}, full \in BOOLEAN :
       /\ full => m # Nowhere
       /\ Says([server EXCEPT !.focus = m, !.fullscreen = full], <<"focus">>)

PointerMoves ==
  /\ Change
  /\ \E m \in ToSet(server.monitors) : Says([server EXCEPT !.pointer = m], <<>>)

ResourceChanges ==
  /\ Change
  /\ \E v \in Dpis : Says([server EXCEPT !.xft = v], <<"resource">>)

(* xinerama asks for no events. *)
MonitorsChange ==
  /\ Change
  /\ \E ms \in Layouts :
       /\ {server.pointer, server.focus} \subseteq ToSet(ms) \cup {Nowhere}
       /\ Says([server EXCEPT !.monitors = ms],
               IF settings.enumeration = "xinerama" THEN <<>> ELSE <<"randr">>)

RivalGrabs ==
  /\ Change
  /\ \E k \in Shortcuts, ls \in Rivals :
       /\ ({k} \X Lock) \cap server.grabs = {}
       /\ Says([server EXCEPT !.rivals = @ \cup ({k} \X ls)], <<>>)

RivalReleases ==
  /\ server.rivals # {} /\ UNCHANGED changes
  /\ Says([server EXCEPT !.rivals = {}], <<>>)

(* a key that dunst has grabbed, or a button on its window *)
Input ==
  /\ server.grabs # {} \/ server.mapped
  /\ UNCHANGED changes
  /\ Says(server, <<"input">>)

DesktopChange ==
  \/ Exposed \/ FocusMoves \/ PointerMoves \/ ResourceChanges
  \/ MonitorsChange \/ RivalGrabs \/ RivalReleases
  \/ Input

---------------------------------------------------------------------------
NoWindow == [ visible |-> FALSE, cur_screen |-> 1, screens |-> <<>>,
              fullscreen_last |-> FALSE, valid |-> {}, at |-> Nowhere, dpi |-> 0 ]

(* the desktop as dunst finds it at start *)
X11Init ==
  /\ settings \in UserSettings
  /\ want = FALSE /\ changes = 0
  /\ \E ms \in Layouts, v \in Dpis, ls \in Rivals :
       \E k \in Shortcuts :
         LET s == [ monitors |-> ms, xft |-> v, pointer |-> Head(ms), focus |-> Nowhere,
                    fullscreen |-> FALSE, rivals |-> {k} \X ls, grabs |-> {},
                    mapped |-> FALSE, blank |-> FALSE, events |-> <<>> ]
             r == Setup(NoWindow, s, settings.enumeration)
         IN x = r[1] /\ server = r[2]

X11Next == HandleEvent \/ QueuesChange \/ TimerFires \/ Reload \/ DesktopChange

X11Spec == X11Init /\ [][X11Next]_x11Vars

(* dunst reads its events, and the timer of what is shown goes off. *)
X11FairSpec ==
  X11Spec /\ WF_x11Vars(HandleEvent) /\ WF_x11Vars(TimerFires)

---------------------------------------------------------------------------
(* Shortcuts are taken from other programs only while the window shows     *)
(* them to be of use, history always; whatever was refused before, and     *)
(* through reloads.                                                        *)
GrabsMatchWindow ==
  server.grabs = { c \in Combination :
                     c[1] \in x.valid /\ (c[1] = "history" \/ x.visible) }

(* With all events read, no part of a window on the screen is undrawn. *)
NoBlankWindow == server.events = <<>> /\ x.visible => ~server.blank

(* The monitor notifications belong on, asked of the desktop directly. *)
Belongs ==
  LET byNumber == { i \in DOMAIN server.monitors : settings.monitor = i - 1 }
      byName   == { i \in DOMAIN server.monitors : settings.monitor = server.monitors[i] }
  IN IF settings.follow # "none" THEN Point(settings, server)
     ELSE server.monitors[FirstOr1(byNumber \cup byName)]

(* Through monitors that come and go, moving focus and reloads, what is    *)
(* displayed ends up on the monitor it belongs on, when RandR tells them.  *)
ReachesItsMonitor ==
  \A m \in Monitors :
    <>[](x.visible /\ settings.enumeration = "randr" /\ Belongs = m) => <>[](x.at = m)

===========================================================================
