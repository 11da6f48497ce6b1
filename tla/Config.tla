------------------------------- MODULE Config ------------------------------
(***************************************************************************)
(* The configuration: which files are read (src/src/settings.c), how lines *)
(* become sections and entries (src/src/ini.c), what an entry may set and  *)
(* how its text is read (src/src/settings_data.h, option_parser.c), and    *)
(* what is corrected or fatal after each file.                             *)
(*                                                                         *)
(* A text in a file is a record: the word it is, the number it begins with *)
(* (or NoNumber), the text after that number, and, between brackets, the   *)
(* two numbers of a length.  Paths, fonts, lists and colours are words.    *)
(***************************************************************************)
EXTENDS Rules, Integers, Functions

CONSTANTS
  Invalid,         \* what a parser that refuses returns
  NoNumber,        \* a text that does not begin with digits; an open end
  Colours          \* words that are #RGB, #RRGGBB, with or without alpha

INT_MIN == -1000   \* the ends of the range of int, far from any value used
INT_MAX == 1000

Word(w)    == [ word |-> w,  num |-> NoNumber, rest |-> "", pair |-> <<>> ]
Number(n)  == [ word |-> "", num |-> n, rest |-> "", pair |-> <<>> ]
Time(n, u) == [ word |-> "", num |-> n, rest |-> u, pair |-> <<>> ]
Pair(a, b) == [ word |-> "", num |-> NoNumber, rest |-> "", pair |-> <<a, b>> ]

Text == [ word : STRING, num : Int \cup {NoNumber}, rest : STRING,
          pair : Seq(Int \cup {NoNumber}) ]

---------------------------------------------------------------------------
(* f, and g for what f has no entry of *)
f ++ g == [x \in DOMAIN f \cup DOMAIN g |-> IF x \in DOMAIN f THEN f[x] ELSE g[x]]

(* The tables of settings_data.h: what a word may be, by type.             *)
(* boolean_enum_data: of the one-letter forms only Y is true.              *)
BooleanWords ==
  [w \in {"True", "true", "On", "on", "Yes", "yes", "1", "Y"} |-> 1]
    ++ [w \in {"False", "false", "Off", "off", "No", "no", "0", "n", "y", "N"} |-> 0]

(* sort_type_enum_data reads the same words, as it was once a boolean. *)
SortWords ==
  [w \in DOMAIN BooleanWords |-> IF BooleanWords[w] = 1 THEN "urgency_descending" ELSE "id"]
    ++ [w \in {"id", "urgency_ascending", "urgency_descending", "update"} |-> w]

UrgencyWords == [low |-> 0, normal |-> 1, critical |-> 2]

(* The other tables give every word a value of its own. *)
EnumWords(type) ==
  CASE type = "alignment"     -> {"left", "center", "right"}
    [] type = "ellipsize"     -> {"start", "middle", "end"}
    [] type = "follow"        -> {"mouse", "keyboard", "none"}
    [] type = "fullscreen"    -> {"suppress", "show", "delay", "pushback"}
    [] type = "icon_position" -> {"left", "right", "top", "off"}
    [] type = "vertical"      -> {"top", "center", "bottom"}
    [] type = "markup"        -> {"strip", "no", "full", "yes"}
    [] type = "layer"         -> {"bottom", "top", "overlay"}
    [] type = "origin"        -> {"top-left", "top-center", "top-right", "bottom-left",
                                  "bottom-center", "bottom-right", "left-center",
                                  "right-center", "center"}
    [] OTHER                  -> {}

(* Settings that rules have.  Filters first, then what rules change. *)
FilterType ==
  [ appname |-> "string", body |-> "string", category |-> "string",
    desktop_entry |-> "string", icon |-> "string", match_transient |-> "boolean",
    msg_urgency |-> "urgency", match_dbus_timeout |-> "time",
    stack_tag |-> "string", summary |-> "string" ]

ChangeType ==
  [ script |-> "path", background |-> "color", action_name |-> "string",
    foreground |-> "color", highlight |-> "gradient", default_icon |-> "path",
    format |-> "string", fullscreen |-> "fullscreen", new_icon |-> "path",
    set_stack_tag |-> "string", set_transient |-> "boolean",
    set_category |-> "string", timeout |-> "time",
    override_dbus_timeout |-> "time", urgency |-> "urgency",
    skip_display |-> "boolean", history_ignore |-> "boolean" ]

LookType ==
  [ word_wrap |-> "boolean", ellipsize |-> "ellipsize", alignment |-> "alignment",
    hide_text |-> "boolean", markup |-> "markup", icon_position |-> "icon_position",
    enabled |-> "boolean", progress_bar_horizontal_alignment |-> "alignment",
    min_icon_size |-> "int", max_icon_size |-> "int",
    override_pause_level |-> "int", frame_color |-> "color" ]

RuleType == FilterType ++ ChangeType ++ LookType

(* Settings of the program, in [global] or in [experimental]. *)
GeneralType ==
  [ per_monitor_dpi |-> "boolean", force_xinerama |-> "boolean",
    force_xwayland |-> "boolean", font |-> "string", sort |-> "sort",
    indicate_hidden |-> "boolean", ignore_dbusclose |-> "boolean",
    ignore_newline |-> "boolean", idle_threshold |-> "time",
    monitor |-> "maybe_int", title |-> "string", class |-> "string",
    shrink |-> "boolean", line_height |-> "int", show_age_threshold |-> "time",
    hide_duplicate_count |-> "boolean", sticky_history |-> "boolean",
    corners |-> "list", progress_bar_corners |-> "list", icon_corners |-> "list" ]

LayoutType ==
  [ history_length |-> "int", show_indicators |-> "boolean",
    separator_height |-> "int", padding |-> "int", horizontal_padding |-> "int",
    text_icon_padding |-> "int", transparency |-> "int", corner_radius |-> "int",
    progress_bar_height |-> "int", progress_bar_min_width |-> "int",
    progress_bar_max_width |-> "int", progress_bar_frame_width |-> "int",
    progress_bar_corner_radius |-> "int", icon_corner_radius |-> "int",
    progress_bar |-> "boolean" ]

ProgramType ==
  [ stack_duplicates |-> "boolean", dmenu |-> "path", browser |-> "path",
    always_run_script |-> "boolean", gap_size |-> "int",
    default_pause_level |-> "int", pause_on_mouse_over |-> "boolean",
    follow |-> "follow", scale |-> "double", separator_color |-> "color",
    vertical_alignment |-> "vertical", layer |-> "layer" ]

InputType ==
  [ mouse_left_click |-> "list", mouse_middle_click |-> "list",
    mouse_right_click |-> "list", icon_theme |-> "list", icon_path |-> "string",
    enable_recursive_icon_lookup |-> "boolean", enable_posix_regex |-> "boolean",
    enable_pcre_regex |-> "boolean", frame_width |-> "int" ]

PlaceType ==
  [ origin |-> "origin", width |-> "length", height |-> "length",
    offset |-> "length", notification_limit |-> "int", close |-> "string",
    close_all |-> "string", history |-> "string", context |-> "string" ]

PlainType == GeneralType ++ LayoutType ++ ProgramType ++ InputType ++ PlaceType

(* Of the urgency sections: the icon stands before the filter of that name, *)
(* the colours and the timeout behind the rule settings.                    *)
IconType == [icon |-> "string"]
UrgencyType ==
  [ background |-> "color", foreground |-> "color", highlight |-> "gradient",
    frame_color |-> "color", timeout |-> "time" ]

Experimental == {"per_monitor_dpi", "pause_on_mouse_over", "enable_pcre_regex"}
UrgencySections == {"urgency_low", "urgency_normal", "urgency_critical"}

(* special_sections and deprecated_sections (src/src/utils.c) *)
DeprecatedSections == {"frame", "shortcuts"}
SpecialSections == {"global", "experimental"} \cup DeprecatedSections \cup UrgencySections

(* get_setting_id: the setting that an entry of a section is about.  The   *)
(* icons of the urgency sections stand before the filter of that name, the *)
(* colours and timeouts after the rule settings, which are taken first.    *)
Section(key) == IF key \in Experimental THEN "experimental" ELSE "global"

SettingKind(key, section) ==
  IF key \in DOMAIN IconType /\ section \in UrgencySections THEN "plain"
  ELSE IF key \in DOMAIN RuleType THEN "rule"
  ELSE IF key \in DOMAIN PlainType /\ section = Section(key) THEN "plain"
  ELSE IF key \in DOMAIN UrgencyType /\ section \in UrgencySections THEN "plain"
  ELSE "none"

(* rule_offset_is_modifying goes by the place in struct rule, where enabled*)
(* and, of the filters, match_transient stand among the changes.           *)
IsModifying(key) == key \notin DOMAIN FilterType \/ key = "match_transient"

---------------------------------------------------------------------------
(* Reading a text (set_from_string). *)

(* string_to_time: in milliseconds *)
StringToTime(v) ==
  IF v.num = NoNumber \/ v.num < -1 THEN Invalid
  ELSE CASE v.rest = ""   -> v.num * 1000
         [] v.num < 0     -> Invalid
         [] v.rest = "ms" -> v.num
         [] v.rest = "s"  -> v.num * 1000
         [] v.rest = "m"  -> v.num * 60 * 1000
         [] v.rest = "h"  -> v.num * 60 * 60 * 1000
         [] v.rest = "d"  -> v.num * 24 * 60 * 60 * 1000
         [] OTHER         -> Invalid

(* safe_string_to_int *)
StringToInt(v) == IF v.num = NoNumber \/ v.rest # "" THEN Invalid ELSE v.num

(* string_parse_length, and the old meaning of a single number for height: *)
(* -1 between brackets is what an absent number is.                        *)
StringToLength(key, v) ==
  IF v.pair # <<>>
  THEN LET open == {NoNumber, -1}
       IN << IF v.pair[1] \in open THEN INT_MIN ELSE v.pair[1],
             IF v.pair[2] \in open THEN INT_MAX ELSE v.pair[2] >>
  ELSE LET n == StringToInt(v)
       IN IF n = Invalid THEN Invalid
          ELSE IF key = "height" /\ n >= 0 THEN <<0, n>> ELSE <<n, n>>

(* monitor (string_parse_maybe_int) takes a number or a name. *)
IsEmpty(v) == v = Word("")

Lookup(table, w) == IF w \in DOMAIN table THEN table[w] ELSE Invalid

Parse(key, type, v) ==
  IF IsEmpty(v) /\ type # "string" THEN Invalid
  ELSE CASE type \in {"string", "path", "list"} -> v.word
         [] type = "maybe_int"             -> v
         [] type \in {"int", "double"}     -> StringToInt(v)
         [] type = "time"                  -> StringToTime(v)
         [] type = "length"                -> StringToLength(key, v)
         [] type \in {"color", "gradient"} -> IF v.word \in Colours THEN v.word ELSE Invalid
         [] type = "boolean"               -> Lookup(BooleanWords, v.word)
         [] type = "sort"                  -> Lookup(SortWords, v.word)
         [] type = "urgency"               -> Lookup(UrgencyWords, v.word)
         [] OTHER -> IF v.word \in EnumWords(type) THEN v.word ELSE Invalid

---------------------------------------------------------------------------
(***************************************************************************)
(* Reading a file.  A line is a comment (or blank), a section header, or   *)
(* an entry; a header may lack its bracket, an entry its equals sign or    *)
(* its second quote, and then the line is skipped: what follows a broken   *)
(* header still belongs to the section before it.                          *)
(***************************************************************************)
Header(name)      == [ kind |-> "header", broken |-> FALSE, name |-> name, value |-> Word("") ]
BrokenHeader      == [ Header("") EXCEPT !.broken = TRUE ]
Entry(key, v)     == [ kind |-> "entry", broken |-> FALSE, name |-> key, value |-> v ]
BrokenEntry(key)  == [ Entry(key, Word("")) EXCEPT !.broken = TRUE ]
Comment           == [ Header("") EXCEPT !.kind = "comment" ]

Line == [ kind : {"header", "entry", "comment"}, broken : BOOLEAN,
          name : STRING, value : Text ]

(* Invalid: a file that is not there or cannot be read *)
File == {Invalid} \cup Seq(Line)

(* current_section is NULL *)
NoSection == Unset

(* add_entry: to the section of that name, which may be far above *)
AddEntry(ini, section, entry) ==
  LET i == SelectInSeq(ini, LAMBDA s : s.name = section)
  IN IF i = 0 THEN Append(ini, [ name |-> section, entries |-> <<entry>> ])
     ELSE [ini EXCEPT ![i].entries = Append(@, entry)]

ReadLine(reading, line) ==
  IF line.broken \/ line.kind = "comment" THEN reading
  ELSE IF line.kind = "header" THEN [reading EXCEPT !.section = line.name]
  ELSE IF reading.section = NoSection THEN reading
  ELSE [reading EXCEPT !.ini = AddEntry(@, reading.section,
                                        [ key |-> line.name, value |-> line.value ])]

(* load_ini_file *)
LoadIni(lines) ==
  FoldLeft(ReadLine, [ section |-> NoSection, ini |-> <<>> ], lines).ini

---------------------------------------------------------------------------
(***************************************************************************)
(* What was loaded: the rules, and the settings that were given a value    *)
(* (by section and key); the others have their default.                    *)
(***************************************************************************)
Default == [ progress_bar_height |-> 10, progress_bar_min_width |-> 150,
             progress_bar_max_width |-> 300, progress_bar_frame_width |-> 1,
             progress_bar_corner_radius |-> 0, width |-> <<300, 300>>,
             height |-> <<0, 300>>, default_pause_level |-> 0, sort |-> "urgency_descending",
             history_length |-> 20, force_xwayland |-> 0, idle_threshold |-> 0 ]

TypeOf(key) == (IconType ++ PlainType ++ UrgencyType)[key]

(* set_defaults, with no rules and nothing fatal so far *)
SetDefaults == [ settings |-> << >>, rules |-> <<>>, dead |-> FALSE ]

Setting(loaded, key) ==
  IF <<"global", key>> \in DOMAIN loaded.settings
  THEN loaded.settings[<<"global", key>>] ELSE Default[key]

SetSetting(loaded, section, key, v) ==
  LET value == Parse(key, TypeOf(key), v)
  IN IF value = Invalid THEN loaded
     ELSE [loaded EXCEPT !.settings = [id \in {<<section, key>>} |-> value] ++ @]

(* Where an entry goes in a rule (offsetof); what the model does not tell  *)
(* apart goes to the field or filter that stands for it.                   *)
FilterOf(key) ==
  CASE key = "msg_urgency"        -> "urgency"
    [] key = "match_transient"    -> "transient"
    [] key = "match_dbus_timeout" -> "dbus_timeout"
    [] key = "icon"               -> "iconname"
    [] key \in {"category", "stack_tag"} -> key
    [] OTHER                      -> "appname"

FieldOf(key) ==
  CASE key = "set_category"  -> "category"
    [] key = "set_transient" -> "transient"
    [] key = "override_dbus_timeout" -> "dbus_timeout"
    [] key = "set_stack_tag" -> "stack_tag"
    [] key = "new_icon"      -> "iconname"
    [] key = "foreground"    -> "fg"
    [] key \in {"urgency", "timeout", "default_icon"} -> key
    [] OTHER                 -> "plain"

(* A negative match_dbus_timeout matches everything; any other time of -1  *)
(* is a value: -1 second is not the -1 that means unset.                   *)
RuleValue(key, v) ==
  LET value == Parse(key, RuleType[key], v)
  IN IF key = "match_dbus_timeout" /\ value = -1000 THEN Unset ELSE value

SetRuleValue(r, key, v) ==
  LET value == RuleValue(key, v)
  IN IF value = Invalid THEN r
     ELSE IF key = "enabled" THEN [r EXCEPT !.enabled = (value = 1)]
     ELSE IF key = "script" THEN [r EXCEPT !.script = value]
     ELSE IF key \in DOMAIN FilterType THEN [r EXCEPT !.match[FilterOf(key)] = value]
     ELSE [r EXCEPT !.set[FieldOf(key)] = value]

(* A rule is made for every entry instead of every section. *)
SetRule_AlwaysNew(loaded, section, key, v) ==
  [loaded EXCEPT !.rules = Append(@, SetRuleValue(NewRule(section), key, v))]

(* set_rule: the rule of that section, a new one at the end of the list if *)
(* there is none yet                                                       *)
SetRule(loaded, section, key, v) ==
  LET there == GetRule(loaded.rules, section) # 0
      rules == IF there THEN loaded.rules ELSE Append(loaded.rules, NewRule(section))
  IN [loaded EXCEPT !.rules =
        [rules EXCEPT ![GetRule(rules, section)] = SetRuleValue(@, key, v)]]

(* save_settings, for one entry *)
SaveEntry(loaded, section, entry) ==
  LET kind == SettingKind(entry.key, section)
  IN IF kind = "plain" THEN SetSetting(loaded, section, entry.key, entry.value)
     ELSE IF kind = "rule" /\ (section \in SpecialSections => IsModifying(entry.key))
     THEN SetRule(loaded, section, entry.key, entry.value)
     ELSE loaded

SaveSection(loaded, s) ==
  IF s.name \in DeprecatedSections THEN loaded
  ELSE FoldLeft(LAMBDA l, e : SaveEntry(l, s.name, e), loaded, s.entries)

SaveSettings(loaded, ini) == FoldLeft(SaveSection, loaded, ini)

---------------------------------------------------------------------------
(* check_and_correct_settings: some combinations end the program, others   *)
(* are put right.  onXwayland: force_xwayland has an effect.               *)
Fatal(l) ==
  LET bar(key) == Setting(l, "progress_bar_" \o key)
      low(len)  == IF len[1] = INT_MIN THEN 0 ELSE len[1]
  IN \/ bar("height") < 2 * bar("frame_width")
     \/ bar("max_width") < 2 * bar("frame_width")
     \/ bar("max_width") < bar("min_width")
     \/ \E key \in {"width", "height"} :
          LET len == Setting(l, key)
          IN low(len) < 0 \/ len[2] < 0 \/ low(len) > len[2]

Corrections(l) ==
  LET radius == Setting(l, "progress_bar_height") \div 2
      closed(len) == IF len[1] = INT_MIN THEN <<0, len[2]>> ELSE len
  IN [ progress_bar_corner_radius |->
         IF Setting(l, "progress_bar_corner_radius") > radius THEN radius
         ELSE Setting(l, "progress_bar_corner_radius"),
       width  |-> closed(Setting(l, "width")),
       height |-> closed(Setting(l, "height")),
       idle_threshold |-> IF Setting(l, "force_xwayland") = 1 THEN 0
                          ELSE Setting(l, "idle_threshold") ]

CheckAndCorrect(l) ==
  IF Fatal(l) THEN [l EXCEPT !.dead = TRUE]
  ELSE LET right == Corrections(l)
           wrong == {key \in DOMAIN right : Setting(l, key) # right[key]}
       IN [l EXCEPT !.settings = [id \in {<<"global", key>> : key \in wrong} |-> right[id[2]]] ++ @]

(* process_conf_file: a file that cannot be read is passed over. *)
ProcessConfFile(loaded, file) ==
  IF loaded.dead \/ file = Invalid THEN loaded
  ELSE CheckAndCorrect(SaveSettings(loaded, LoadIni(file)))

(***************************************************************************)
(* get_conf_files: the first of the base directories that has a readable   *)
(* dunstrc, and its drop-ins in the order of their names; drop-ins without *)
(* a dunstrc are not looked at.                                            *)
(***************************************************************************)
ConfFiles(dirs) ==
  LET i == SelectInSeq(dirs, LAMBDA d : d.dunstrc # Invalid)
  IN IF i = 0 THEN <<>> ELSE <<dirs[i].dunstrc>> \o dirs[i].dropIns

(* load_settings *)
LoadSettings(files) == FoldLeft(ProcessConfFile, SetDefaults, files)

===========================================================================
