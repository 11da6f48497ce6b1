----------------------------- MODULE Lifecycle -----------------------------
(***************************************************************************)
(* What dunst promises the clients about notification ids, whatever it     *)
(* does with them on the screen: an id is handed out once, stays open      *)
(* until it is closed, and in the very step in which it is closed - never  *)
(* before, never twice - its client gets NotificationClosed.               *)
(***************************************************************************)
CONSTANT Ids

VARIABLES
  phase,   \* what a client that trusts the signals believes of an id
  told     \* the ids for which the last step emitted NotificationClosed

Phases == {"unused", "open", "closed"}

Init ==
  /\ phase = [id \in Ids |-> "unused"]
  /\ told = {}

(* The ids of "opened" are handed out, those of "closed" are closed; a     *)
(* notification can be both at once when it goes straight to history.      *)
Change(opened, closed) ==
  /\ \A id \in opened : phase[id] = "unused"
  /\ \A id \in closed : phase[id] = "open" \/ id \in opened
  /\ phase' = [id \in Ids |-> CASE id \in closed -> "closed"
                                [] id \in opened \ closed -> "open"
                                [] OTHER -> phase[id]]
  /\ told' = closed

Next == \E opened, closed \in SUBSET Ids : Change(opened, closed)

Spec == Init /\ [][Next]_<<phase, told>>
============================================================================
