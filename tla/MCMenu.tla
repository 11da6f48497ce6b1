------------------------------ MODULE MCMenu ------------------------------
(***************************************************************************)
(* Values of the constants of Menu for the model checker.                  *)
(***************************************************************************)
EXTENDS Menu, TLC

MCTags == {"t1"}
MCContents == {"c1"}

Offering ==
  [ tag |-> NoTag, content |-> "c1", urgency |-> 1, timed |-> FALSE,
    transient |-> FALSE, history_ignore |-> TRUE, skip_display |-> FALSE,
    empty |-> FALSE, fullscreen |-> "show",
    override_pause_level |-> 0, actions |-> "several", urls |-> 0 ]

MCKinds == { Offering, [Offering EXCEPT !.actions = "default", !.urls = 2] }

MCClicks == { <<"context_all", "open_url">>, <<"context", "remove_current">>,
              <<"do_action", "close_current">> }

Nobody   == {}
No       == {FALSE}
Yes      == {TRUE}
Zero     == {0}

Symmetry == Permutations(Ptr) \cup Permutations(Slots)
===========================================================================
