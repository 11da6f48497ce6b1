----------------------------- MODULE MCDaemon -----------------------------
(***************************************************************************)
(* Values of the constants of Daemon for the model checker: the kinds of   *)
(* notifications each run sends, and the users' and the desktop's choices. *)
(***************************************************************************)
EXTENDS Daemon, TLC

MCTags == {"t1"}
MCContents == {"c1", "c2"}

Plain ==
  [ tag |-> NoTag, content |-> "c1", urgency |-> 1, timed |-> TRUE,
    transient |-> FALSE, history_ignore |-> FALSE, skip_display |-> FALSE,
    empty |-> FALSE, fullscreen |-> "show",
    override_pause_level |-> 0, actions |-> "none", urls |-> 0 ]

Sticky        == [Plain EXCEPT !.timed = FALSE]
Critical      == [Sticky EXCEPT !.urgency = 2]
Tagged        == [Plain EXCEPT !.tag = "t1"]
Delayed       == [Plain EXCEPT !.fullscreen = "delay"]
PushedBack    == [Plain EXCEPT !.fullscreen = "pushback"]
SuppressedKind == [Plain EXCEPT !.fullscreen = "suppress"]
Overriding    == [Plain EXCEPT !.override_pause_level = 1]

KindsOrder     == { Sticky, Critical, [Sticky EXCEPT !.history_ignore = TRUE],
                    [Sticky EXCEPT !.skip_display = TRUE] }
KindsReplace   == { Plain, [Tagged EXCEPT !.content = "c2"] }
KindsModes     == { Overriding, [Delayed EXCEPT !.content = "c2"],
                    PushedBack, SuppressedKind,
                    [Overriding EXCEPT !.skip_display = TRUE] }
KindsTimeouts  == { Plain }

NoClicks == {}
Clicks   == { <<"close_current">>, <<"remove_current">>,
              <<"close_all", "close_current">> }

None     == {}
No       == {FALSE}
Booleans == BOOLEAN
Levels   == 0..1
Zero     == {0}
UpTo2    == 0..2
Apart    == {0, 3, 6}

Symmetry == Permutations(Ptr)
===========================================================================
