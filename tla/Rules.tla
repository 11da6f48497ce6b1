------------------------------- MODULE Rules -------------------------------
(***************************************************************************)
(* Rules (src/src/rules.c): a list of filters and of changes to the        *)
(* notifications that pass them, kept with what each change overwrote so   *)
(* that it can be taken back when the configuration is loaded again.       *)
(*                                                                         *)
(* A rule and a notification are functions of their fields.  All numbers,  *)
(* strings and colours a field can have are values like any other; Unset   *)
(* stands for every "no value" of the C code: -1 for a number, NULL for a  *)
(* string, an invalid colour.  That one mark serves rules and              *)
(* notifications alike matters: a notification field that has no value     *)
(* (no stack tag, no timeout asked for) saves as "nothing was saved".      *)
(***************************************************************************)
EXTENDS Naturals, Sequences, SequencesExt

CONSTANT Unset

(* The mark is none of the numbers and texts it could be taken for (two    *)
(* that the program gives itself are named: the provers do not know that   *)
(* they are in STRING).                                                    *)
ASSUME UnsetAssumption == Unset \notin Nat \cup STRING \cup {"", "default format"}

(* Fields of a notification that a rule changes.  "plain" stands for those *)
(* that always have a value and no filter looks at: fullscreen, word_wrap, *)
(* ellipsize, alignment, hide_text, history_ignore, skip_display, markup,  *)
(* the icon sizes and position, format, override_pause_level, action_name. *)
Field == { "urgency", "category", "transient", "timeout", "dbus_timeout",
           "stack_tag", "iconname", "default_icon", "fg", "plain" }

(* What rules look at.  "appname" stands for the texts that no rule can    *)
(* change: appname, summary, body and desktop_entry.                       *)
Filter == { "urgency", "category", "transient", "dbus_timeout", "stack_tag",
            "iconname", "appname" }

Nothing == [f \in Field |-> Unset]
NoFilter == [f \in Filter |-> Unset]

(* rule_apply_special_filters: [global] matches all notifications, the     *)
(* urgency sections those of their urgency.                                *)
SpecialFilters(name) ==
  CASE name = "urgency_low"      -> [NoFilter EXCEPT !["urgency"] = 0]
    [] name = "urgency_normal"   -> [NoFilter EXCEPT !["urgency"] = 1]
    [] name = "urgency_critical" -> [NoFilter EXCEPT !["urgency"] = 2]
    [] OTHER                     -> NoFilter

(* rule_new, without the insertion: empty_rule with a name *)
NewRule(name) ==
  [ name |-> name, enabled |-> TRUE, match |-> SpecialFilters(name),
    set |-> Nothing, script |-> Unset ]

(* get_rule: the first of that name *)
GetRule(rules, name) == SelectInSeq(rules, LAMBDA r : r.name = name)

---------------------------------------------------------------------------
(* A notification: its fields, the text no rule changes, the scripts to    *)
(* run, whether raw icon data is still to be used, and what rules          *)
(* overwrote (another rule, which is never matched).                       *)

(* rule_field_matches_string and the comparisons of rule_matches_...: a    *)
(* text without value never matches a pattern, numbers are compared.       *)
Passes(n, f, want) ==
  \/ want = Unset
  \/ (IF f = "appname" THEN n.appname ELSE n.field[f]) = want

RuleMatches(r, n) == r.enabled /\ \A f \in Filter : Passes(n, f, r.match[f])

(* rule_apply.  With save it remembers what it overwrites, once. *)
Overwrites(r) == {f \in Field : r.set[f] # Unset}

Remembered(original, r, n) ==
  [ original EXCEPT
      !.set = [f \in Field |->
                 IF f \in Overwrites(r) /\ original.set[f] = Unset
                 THEN n.field[f] ELSE original.set[f]],
      !.script = IF r.script = Unset \/ original.script # Unset THEN @
                 ELSE IF n.scripts # <<>> THEN Head(n.scripts) ELSE r.script ]

(* notification.original is NULL *)
NoOriginal == [ name |-> "no rule" ]

(* notification_keep_original *)
KeepOriginal(n) ==
  IF n.original = NoOriginal THEN NewRule("original") ELSE n.original

RuleApply(r, n, save) ==
  [ n EXCEPT
      !.field = [f \in Field |-> IF f \in Overwrites(r) THEN r.set[f] ELSE @[f]],
      !.scripts = IF r.script = Unset THEN @ ELSE Append(@, r.script),
      !.raw = @ /\ r.set["iconname"] = Unset,
      !.original = IF save THEN Remembered(KeepOriginal(n), r, n) ELSE @ ]

(* rule_apply_all: in the order of the list; what one rule changed is what *)
(* the next one looks at.                                                  *)
RuleApplyAll(rules, n) ==
  FoldLeft(LAMBDA m, r : IF RuleMatches(r, m) THEN RuleApply(r, m, TRUE) ELSE m,
           n, rules)

(* queues_reapply_all_rules, for one notification *)
Restored(n) ==
  IF n.original = NoOriginal THEN n ELSE RuleApply(n.original, n, FALSE)

(* The rules are applied on top of each other. *)
Reapplied_OnTop(rules, n) == RuleApplyAll(rules, n)

Reapplied(rules, n) == RuleApplyAll(rules, Restored(n))

===========================================================================
