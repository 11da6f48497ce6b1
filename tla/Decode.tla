------------------------------- MODULE Decode ------------------------------
(***************************************************************************)
(* From the D-Bus message Notify to a notification                         *)
(* (dbus_message_to_notification in src/src/dbus.c, notification_create    *)
(* and notification_init in src/src/notification.c): which of several      *)
(* hints counts, what is sanitised, and in which order defaults, rules and *)
(* the client's own wishes are applied.                                    *)
(*                                                                         *)
(* A message is a function of its arguments and hints; a hint of the wrong *)
(* D-Bus type is one that is absent, Unset.                                *)
(***************************************************************************)
EXTENDS Integers, Rules

(* hints: "transient" is a boolean or, for notify-send, a number *)
Hint == { "urgency", "category", "transient", "value", "private-synchronous",
          "x-canonical-private-synchronous", "x-dunst-stack-tag", "synchronous",
          "image-path", "image_path", "image-data", "image_data", "icon_data",
          "fgcolor" }

(* stack_tag_hints: the first of them that is there counts *)
StackTagHints == << "synchronous", "private-synchronous",
                    "x-canonical-private-synchronous", "x-dunst-stack-tag" >>

IconPathHints == << "image-path", "image_path" >>
RawIconHints  == << "image-data", "image_data", "icon_data" >>

(* The first of these hints that the message has, otherwise the default. *)
FirstOf(hints, names, default) ==
  LET there == SelectSeq(names, LAMBDA h : hints[h] # Unset)
  IN IF there = <<>> THEN default ELSE hints[Head(there)]

(* The urgency is a byte; notification_init sends what is above the range  *)
(* to its end.                                                             *)
Urgency(hints) ==
  IF hints["urgency"] = Unset THEN 1
  ELSE IF hints["urgency"] > 2 THEN 2 ELSE hints["urgency"]

(* progress: an int32, or a uint32 put into an int; negative means none.   *)
(* Numbers have Width bits here.                                           *)
Width == 8

AsSigned(u) == IF u >= 2 ^ (Width - 1) THEN u - 2 ^ Width ELSE u

Progress(hints) ==
  LET p == IF hints["value"] = Unset THEN -1 ELSE AsSigned(hints["value"] % 2 ^ Width)
  IN IF p < 0 THEN -1 ELSE p

Truth(hint) == IF hint = Unset \/ hint = 0 THEN 0 ELSE 1

(* notification_create, what the message gives, and the defaults of        *)
(* notification_init up to the rules.  msg.timeout is in milliseconds,     *)
(* negative when the client leaves it to dunst; the unit is the same here. *)
Sent(msg, settings) ==
  LET hints   == msg.hints
      urgency == Urgency(hints)
      icon    == FirstOf(hints, IconPathHints, msg.app_icon)
      chosen  ==
        [f \in Field |->
           CASE f = "urgency"      -> urgency
             [] f = "category"     -> IF hints["category"] = Unset THEN "" ELSE hints["category"]
             [] f = "transient"    -> Truth(hints["transient"])
             [] f = "timeout"      -> settings.timeouts[urgency]
             [] f = "dbus_timeout" -> IF msg.timeout < 0 THEN Unset ELSE msg.timeout
             [] f = "stack_tag"    -> FirstOf(hints, StackTagHints, Unset)
             [] f = "iconname"     -> icon
             [] f = "default_icon" -> Unset
             [] f = "fg"           -> settings.colors[urgency]
             [] OTHER              -> settings.format ]
  IN [ field |-> chosen, appname |-> msg.appname, scripts |-> <<>>,
       raw |-> FirstOf(hints, RawIconHints, Unset) # Unset,
       progress |-> Progress(hints), original |-> NoOriginal ]

(* notification_init after the rules: an icon for who has none, and the    *)
(* timeout that the client (or a rule) asked for over the default one.     *)
WithIcon(n, settings) ==
  IF n.field["iconname"] # Unset THEN n
  ELSE [n EXCEPT !.field["iconname"] =
          IF n.field["default_icon"] # Unset THEN n.field["default_icon"]
          ELSE settings.icons[n.field["urgency"]]]

WithTimeout(n) ==
  IF n.field["dbus_timeout"] = Unset \/ n.field["dbus_timeout"] < 0 THEN n
  ELSE [n EXCEPT !.field["timeout"] = n.field["dbus_timeout"]]

(* The rules come before the timeout of the client is known. *)
Initialised_TimeoutFirst(n, rules, settings) ==
  WithIcon(RuleApplyAll(rules, WithTimeout(n)), settings)

Initialised(n, rules, settings) ==
  WithTimeout(WithIcon(RuleApplyAll(rules, n), settings))

(* The colour hints come last; what they replace is kept as if by a rule. *)
WithColour(n, hints) ==
  IF hints["fgcolor"] = Unset THEN n
  ELSE LET kept == KeepOriginal(n)
       IN [ n EXCEPT
              !.original = IF kept.set["fg"] # Unset THEN kept
                           ELSE [kept EXCEPT !.set["fg"] = n.field["fg"]],
              !.field["fg"] = hints["fgcolor"] ]

(* Raw icon data is only used when no rule put another icon. *)
Decoded(msg, rules, settings) ==
  WithColour(Initialised(Sent(msg, settings), rules, settings), msg.hints)

===========================================================================
