------------------------------ MODULE Desktop ------------------------------
(***************************************************************************)
(* What dunst knows of a Wayland desktop: its monitors                     *)
(* (src/src/wayland/wl_output.c), the windows of other programs            *)
(* (foreign_toplevel.c) and the seats of its users (wl_seat.c), and what   *)
(* it concludes from them (wl.c).                                          *)
(*                                                                         *)
(* The compositor's events change these lists; the operators here are the  *)
(* handlers' effect on them.  Module Wayland has the actions, with what    *)
(* the handlers do to the window.                                          *)
(***************************************************************************)
EXTENDS Naturals, Sequences, SequencesExt

CONSTANTS
  Outputs,         \* the monitors
  NoOutput,        \* a NULL output; the compositor takes one
  Windows,         \* the windows of other programs
  Seats            \* the seats

VARIABLES
  compositor,      \* what the compositor offers
  settings,        \* follow, monitor and idle_threshold > 0
  outputs,         \* ctx.outputs, the newest first
  toplevels,       \* toplevel_list
  seats            \* ctx.seats: the known ones and those gone idle

desktop == <<compositor, settings, outputs, toplevels, seats>>

(***************************************************************************)
(* The globals wl_init finds: without a layer shell it takes xdg_shell,    *)
(* without a toplevel manager there is no fullscreen detection; wl_output  *)
(* tells names since version 4; and the monitors and seats there are.       *)
(***************************************************************************)
Compositor == [ layer_shell : BOOLEAN, toplevel_manager : BOOLEAN,
                output_names : BOOLEAN, monitors : SUBSET Outputs, seats : SUBSET Seats ]

Settings == [ follow : BOOLEAN, monitor : Outputs \cup 0..1,
              idle_threshold : BOOLEAN ]

(***************************************************************************)
(* struct toplevel_v1.  pending "invalid" stands for                       *)
(* TOPLEVEL_STATE_INVALID; "fullscreen" is activated and fullscreen.       *)
(***************************************************************************)
TopState == {"plain", "fullscreen"}

Toplevel == [ open : BOOLEAN, current : TopState,
              pending : TopState \cup {"invalid"}, on : SUBSET Outputs ]

NoToplevel == [ open |-> FALSE, current |-> "plain", pending |-> "invalid",
                on |-> {} ]

(* toplevel_manager_handle_toplevel: allocated with zeroes *)
NewToplevel == [ NoToplevel EXCEPT !.open = TRUE, !.pending = "plain" ]

(* copy_state *)
CopyState(t) ==
  [ t EXCEPT !.current = IF t.pending = "invalid" THEN @ ELSE t.pending,
             !.pending = "invalid" ]

(* toplevel_handle_output_leave compares the pointers to the names, which  *)
(* are all NULL when the compositor does not tell names.                   *)
OutputLeave(t, o) ==
  [ t EXCEPT !.on = IF compositor.output_names THEN @ \ {o} ELSE {} ]

---------------------------------------------------------------------------
(* get_configured_output: the monitor the user asks for by its place in    *)
(* the list or by its name; the last match counts.                         *)
ConfiguredOutput(outs, set) ==
  LET matches == SelectSeq([ i \in 1..Len(outs) |-> i ], LAMBDA i :
        \/ set.monitor = i - 1
        \/ compositor.output_names /\ set.monitor = outs[i])
  IN IF Len(outs) = 1 THEN outs[1]
     ELSE IF set.follow \/ matches = <<>> THEN NoOutput
     ELSE outs[Last(matches)]

(* wl_have_fullscreen_window: on the notifications' output, or on any when *)
(* that is not known *)
HaveFullscreenWindow(tops, outs, set) ==
  LET output == ConfiguredOutput(outs, set)
  IN \E w \in Windows :
       /\ tops[w].open /\ tops[w].current = "fullscreen"
       /\ IF output = NoOutput THEN tops[w].on # {} ELSE output \in tops[w].on

(* wl_is_idle: every seat is *)
IsIdle == settings.idle_threshold /\ seats.known # {} /\ seats.known \subseteq seats.idle

(* run asks for both before queues_update. *)
Status == [ fullscreen |-> HaveFullscreenWindow(toplevels, outputs, settings),
            idle |-> IsIdle ]
===========================================================================
