----------------------------- MODULE MCWayland -----------------------------
(***************************************************************************)
(* Values of the constants of Wayland for the model checker.               *)
(***************************************************************************)
EXTENDS Wayland

CONSTANTS o1, o2, s1

Follow  == [ follow |-> TRUE, monitor |-> 0, idle_threshold |-> TRUE ]
OnFirst == [ Follow EXCEPT !.follow = FALSE, !.monitor = o1 ]

MCUserSettings == { Follow, OnFirst }

Wlroots == [ layer_shell |-> TRUE, toplevel_manager |-> FALSE,
             output_names |-> TRUE, monitors |-> {o1, o2}, seats |-> {s1} ]

MCCompositors == {
  Wlroots,
  [ Wlroots EXCEPT !.layer_shell = FALSE, !.seats = {} ],
  [ Wlroots EXCEPT !.toplevel_manager = TRUE, !.monitors = {o1} ] }

Two       == 1..2
NoneOrOne == 0..1
OnlyNone  == {0}
===========================================================================
