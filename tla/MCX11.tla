------------------------------- MODULE MCX11 -------------------------------
(***************************************************************************)
(* Values of the constants of X11 for the model checker.                   *)
(***************************************************************************)
EXTENDS X11

CONSTANTS m1, m2

Second   == [ follow |-> "none", monitor |-> m2, enumeration |-> "randr" ]
Keyboard == [ Second EXCEPT !.follow = "keyboard" ]

MCUserSettings ==
  { Second, Keyboard,
    [ Second EXCEPT !.follow = "mouse", !.enumeration = "xinerama" ],
    [ Second EXCEPT !.monitor = 1, !.enumeration = "fallback" ] }

MCLayouts == { <<m1, m2>>, <<m2>> }

Keys      == {"context", "history"}
NoneOrBoth == { {}, Lock }
===========================================================================
