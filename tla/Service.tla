------------------------------ MODULE Service ------------------------------
(***************************************************************************)
(* The life of the program (src/src/dunst.c, the bus in src/src/dbus.c):   *)
(* it reads its configuration, gets its name on the bus, decodes what      *)
(* clients send by the rules it has at that time, lets rules be switched   *)
(* on and off, and can be told to read the configuration again, for the    *)
(* notifications it holds as well.  What is shown when is Daemon's matter. *)
(***************************************************************************)
EXTENDS Config, Decode

CONSTANTS
  Arguments,       \* command lines: sequences of options and paths
  Disks,           \* what the configuration files may contain
  Messages,        \* what clients send
  Paths,           \* lists of files that a reload may ask for
  PauseWords,      \* unsigned numbers of Width bits that clients set
  Switched,        \* names of rules that clients ask to enable or disable
  MaxNotes,        \* bound: notifications held
  MaxReloads       \* bound: reloads

MaxPauseLevel == 100

VARIABLES
  phase,           \* "off", "running", "ended" (by request), "dead" (exit(1))
  bus,             \* "none", "registered", "owner" (dbus_conn is set)
  disk,            \* the configuration files as they are now
  config_paths,    \* those of the command line
  loaded,          \* settings and rules
  source,          \* the files that loaded came from, in order
  notes,           \* the notifications held, with what was sent
  pause_level,
  announced,       \* the last level that PropertiesChanged told
  reloads

serviceVars == << phase, bus, disk, config_paths, loaded, source, notes,
                  pause_level, announced, reloads >>

(***************************************************************************)
(* config_paths: dunst_main asks for the next option after the last value, *)
(* one spelling after the other: all those of the first spelling that is   *)
(* left come before the others, which lose those they follow.              *)
(***************************************************************************)
ConfigOptions == << "-conf", "-config", "--config" >>

FindOption(args, start) ==
  LET places(key) == {j \in start..Len(args) : args[j] = key}
      used == SelectSeq(ConfigOptions, LAMBDA key : places(key) # {})
  IN IF used = <<>> THEN 0
     ELSE CHOOSE j \in places(Head(used)) : \A k \in places(Head(used)) : j <= k

ConfigPaths(args) ==
  LET from[start \in 1..Len(args) + 1] ==
        LET at == FindOption(args, start)
        IN IF at = 0 \/ at = Len(args) THEN <<>>
           ELSE <<args[at + 1]>> \o from[at + 1]
  IN from[1]

ASSUME ServiceAssumption ==
  /\ PauseWords \subseteq Nat
  /\ \A d \in Disks :
       /\ \A path \in DOMAIN d.files : d.files[path] \in File
       /\ d.dirs \in Seq([dunstrc : File, dropIns : Seq(File)])
       /\ Paths \cup {ConfigPaths(args) : args \in Arguments} \subseteq Seq(DOMAIN d.files)

(* load_settings: the named files, or those of the base directories *)
Files(d, paths) ==
  IF paths # <<>> THEN [i \in DOMAIN paths |-> d.files[paths[i]]]
  ELSE ConfFiles(d.dirs)

Load(paths) ==
  /\ loaded' = LoadSettings(Files(disk, paths))
  /\ source' = Files(disk, paths)

(* What notification_init takes from the settings; the timeouts and        *)
(* colours by urgency are always the defaults, as entries of those names   *)
(* in the urgency sections are read as rules.                              *)
UrgencySection == << "urgency_low", "urgency_normal", "urgency_critical" >>

Defaults(l) ==
  [ timeouts |-> [u \in 0..2 |-> IF u = 2 THEN 0 ELSE 10000],
    colors   |-> [u \in 0..2 |-> IF u = 2 THEN "critical colour" ELSE "default colour"],
    format   |-> "default format",
    icons    |-> [u \in 0..2 |->
                    LET id == <<UrgencySection[u + 1], "icon">>
                    IN IF id \in DOMAIN l.settings THEN l.settings[id] ELSE "no icon"] ]

ServiceInit ==
  /\ phase = "off" /\ bus = "none"
  /\ disk \in Disks
  /\ config_paths \in {ConfigPaths(args) : args \in Arguments}
  /\ loaded = SetDefaults /\ source = <<>> /\ notes = <<>>
  /\ pause_level = 0 /\ announced = Unset /\ reloads = 0

(* dunst_main up to the main loop; the default pause level is set last and *)
(* told to nobody.                                                         *)
Start ==
  /\ phase = "off"
  /\ Load(config_paths)
  /\ phase' = IF loaded'.dead THEN "dead" ELSE "running"
  /\ pause_level' = Setting(loaded', "default_pause_level")
  /\ UNCHANGED << bus, disk, config_paths, notes, announced, reloads >>

(* dbus_cb_bus_acquired, dbus_cb_name_acquired, dbus_cb_name_lost *)
BusAcquired ==
  /\ phase = "running" /\ bus = "none"
  /\ bus' = "registered"
  /\ UNCHANGED << phase, disk, config_paths, loaded, source, notes, pause_level,
                  announced, reloads >>

NameAcquired ==
  /\ phase = "running" /\ bus = "registered"
  /\ bus' = "owner"
  /\ UNCHANGED << phase, disk, config_paths, loaded, source, notes, pause_level,
                  announced, reloads >>

NameLost ==
  /\ phase = "running"
  /\ phase' = "dead"
  /\ UNCHANGED << bus, disk, config_paths, loaded, source, notes, pause_level,
                  announced, reloads >>

(* quit_signal and what dunst_main does after the main loop *)
Quit ==
  /\ phase = "running"
  /\ phase' = "ended" /\ bus' = "none" /\ notes' = <<>>
  /\ loaded' = SetDefaults /\ source' = <<>>
  /\ UNCHANGED << disk, config_paths, pause_level, announced, reloads >>

(* signal_paused_propertieschanged: only once there is a connection *)
SetPauseLevel(level) ==
  /\ pause_level' = level
  /\ announced' = IF bus = "owner" THEN level ELSE announced

(* pause_signal, unpause_signal *)
PauseSignal ==
  /\ phase = "running"
  /\ \E level \in {0, MaxPauseLevel} : SetPauseLevel(level)
  /\ UNCHANGED << phase, bus, disk, config_paths, loaded, source, notes, reloads >>

(* The level is clamped before it is an int. *)
TargetPauseLevel_Unclamped(word) == AsSigned(word)

(* dbus_cb_dunst_Properties_Set of pauseLevel: an unsigned number put into *)
(* an int, and refused when it came out negative.                          *)
TargetPauseLevel(word) ==
  LET level == AsSigned(word)
  IN IF level > MaxPauseLevel THEN MaxPauseLevel ELSE level

PropertiesSet ==
  /\ phase = "running" /\ bus = "owner"
  /\ \E word \in PauseWords :
       /\ TargetPauseLevel(word) >= 0
       /\ SetPauseLevel(TargetPauseLevel(word))
  /\ UNCHANGED << phase, bus, disk, config_paths, loaded, source, notes, reloads >>

(* dbus_cb_Notify, as far as the content goes; sent is what the rules were *)
(* applied to.                                                             *)
Notify(msg) ==
  /\ phase = "running" /\ bus = "owner" /\ Len(notes) < MaxNotes
  /\ notes' = Append(notes, [ msg |-> msg, sent |-> Sent(msg, Defaults(loaded)),
                              note |-> Decoded(msg, loaded.rules, Defaults(loaded)) ])
  /\ UNCHANGED << phase, bus, disk, config_paths, loaded, source, pause_level,
                  announced, reloads >>

(* dbus_cb_dunst_RuleEnable: 0 disables, 1 enables, 2 toggles; a name that *)
(* no rule has is an error.                                                *)
RuleEnable(name, state) ==
  /\ phase = "running" /\ bus = "owner"
  /\ GetRule(loaded.rules, name) # 0
  /\ loaded' = [loaded EXCEPT !.rules[GetRule(loaded.rules, name)].enabled =
                  IF state = 2 THEN ~@ ELSE state = 1]
  /\ UNCHANGED << phase, bus, disk, config_paths, source, notes, pause_level,
                  announced, reloads >>

(***************************************************************************)
(* dbus_cb_dunst_ConfigReload, reload: paused with the highest level,      *)
(* everything is read anew, the rules are applied to what is held, and the *)
(* level is 0 whatever it was.  A configuration that is fatal ends dunst.  *)
(***************************************************************************)
Reapply(rules) ==
  [i \in DOMAIN notes |-> [notes[i] EXCEPT !.note = Reapplied(rules, @)]]

ConfigReload(paths) ==
  /\ phase = "running" /\ bus = "owner" /\ reloads < MaxReloads
  /\ Load(IF paths # <<>> THEN paths ELSE config_paths)
  /\ IF loaded'.dead
     THEN /\ phase' = "dead"
          /\ pause_level' = MaxPauseLevel /\ announced' = MaxPauseLevel
          /\ UNCHANGED notes
     ELSE /\ SetPauseLevel(0)
          /\ notes' = Reapply(loaded'.rules)
          /\ UNCHANGED phase
  /\ reloads' = reloads + 1
  /\ UNCHANGED << bus, disk, config_paths >>

(* The user edits a file (external). *)
EditConfig ==
  /\ phase = "running" /\ reloads < MaxReloads
  /\ disk' \in Disks \ {disk}
  /\ UNCHANGED << phase, bus, config_paths, loaded, source, notes, pause_level,
                  announced, reloads >>

(* A notification is gone for good. *)
Forget ==
  /\ phase = "running" /\ notes # <<>>
  /\ notes' = Tail(notes)
  /\ UNCHANGED << phase, bus, disk, config_paths, loaded, source, pause_level,
                  announced, reloads >>

ServiceNext ==
  \/ Start
  \/ BusAcquired
  \/ NameAcquired
  \/ NameLost
  \/ Quit
  \/ PauseSignal
  \/ PropertiesSet
  \/ \E msg \in Messages : Notify(msg)
  \/ \E name \in Switched, state \in 0..2 : RuleEnable(name, state)
  \/ \E paths \in Paths : ConfigReload(paths)
  \/ EditConfig
  \/ Forget

ServiceSpec == ServiceInit /\ [][ServiceNext]_serviceVars

---------------------------------------------------------------------------
(***************************************************************************)
(* What the configuration means, said without the steps that read it: the  *)
(* entries of all files in order, each with its section.                   *)
(***************************************************************************)
HeaderOf(file, i) ==
  LET above == {h \in 1..i : file[h].kind = "header" /\ ~file[h].broken}
  IN IF above = {} THEN 0 ELSE CHOOSE h \in above : \A g \in above : g <= h

Entries(file) ==
  {i \in DOMAIN file : file[i].kind = "entry" /\ ~file[i].broken /\ HeaderOf(file, i) # 0}

SectionOf(file, i) == file[HeaderOf(file, i)].name

(* <<file, line>> of every entry for this section, ordered *)
Places(section) ==
  {p \in UNION {{f} \X Entries(source[f]) : f \in {g \in DOMAIN source : source[g] # Invalid}} :
     SectionOf(source[p[1]], p[2]) = section}

At(p) == source[p[1]][p[2]]
Before(p, q) == p[1] < q[1] \/ (p[1] = q[1] /\ p[2] < q[2])
LastOf(P) == CHOOSE p \in P : \A q \in P \ {p} : Before(q, p)

(* The places that put a value into this field of the section's rule. *)
Sets(section, f) ==
  {p \in Places(section) :
     /\ SettingKind(At(p).name, section) = "rule"
     /\ At(p).name \notin DOMAIN FilterType \cup {"enabled", "script"}
     /\ FieldOf(At(p).name) = f
     /\ RuleValue(At(p).name, At(p).value) # Invalid}

RulesAreAsWritten ==
  \A i \in DOMAIN loaded.rules :
    LET r == loaded.rules[i]
    IN /\ GetRule(loaded.rules, r.name) = i
       /\ \A f \in Field :
            LET places == Sets(r.name, f)
                p      == LastOf(places)
            IN r.set[f] = IF places = {} THEN Unset ELSE RuleValue(At(p).name, At(p).value)

Assigns(section, key) ==
  {p \in Places(section) :
     /\ At(p).name = key /\ SettingKind(key, section) = "plain"
     /\ Parse(key, PlainType[key], At(p).value) # Invalid}

(* Settings of the program that nothing corrects. *)
Observed == {"sort", "default_pause_level", "history_length"}

SettingsAreAsWritten ==
  \A key \in Observed :
    LET places == Assigns("global", key)
    IN Setting(loaded, key) =
         IF places = {} THEN Default[key]
         ELSE Parse(key, PlainType[key], At(LastOf(places)).value)

(***************************************************************************)
(* However the settings are spread over base file and drop-ins, sections   *)
(* that come again and lines that are broken, each section has one rule    *)
(* and it holds, field by field, the value that was written last and could *)
(* be read, and so do the settings of the program: nothing is left of      *)
(* files that were read before.  (A configuration that is fatal is not     *)
(* read to its end.)                                                       *)
(***************************************************************************)
ConfigurationIsAsWritten == ~loaded.dead => RulesAreAsWritten /\ SettingsAreAsWritten

(***************************************************************************)
(* Once a client has been told a pause level, the last level it was told   *)
(* is the one in force, in the range that is documented, whatever was set. *)
(***************************************************************************)
ToldLevelIsInForce ==
  announced # Unset => pause_level = announced /\ pause_level \in 0..MaxPauseLevel

(***************************************************************************)
(* Reading the configuration again is, for the fields that can always be   *)
(* put back, as if the notification had just arrived: no trace is left of  *)
(* the rules before, in whatever order they were changed, switched off or  *)
(* overwrote each other.  Rules that look at a field that may not be put   *)
(* back (see ReloadForgets) still find there what earlier rules left.      *)
(***************************************************************************)
Restorable == {"urgency", "category", "transient", "plain"}

LookOnlyAtRestorable(rules) ==
  \A i \in DOMAIN rules : \A f \in Filter \ (Restorable \cup {"appname"}) :
    rules[i].match[f] = Unset

IsReload == reloads' # reloads

Fresh(i) == RuleApplyAll(loaded'.rules, notes[i].sent)

ReloadStartsOver ==
  [][ IsReload /\ ~loaded'.dead /\ LookOnlyAtRestorable(loaded'.rules) =>
        \A i \in DOMAIN notes : \A f \in Restorable :
          notes'[i].note.field[f] = Fresh(i).field[f] ]_serviceVars

(***************************************************************************)
(* The timeout a client asks for is the one its notification gets, unless  *)
(* a rule overrides the timeouts of clients; the timeout of rules is for   *)
(* those who leave it to dunst.                                            *)
(***************************************************************************)
AskedTimeoutWins ==
  [][ Len(notes') > Len(notes) =>
        LET n == Last(notes')
            asked == RuleApplyAll(loaded.rules, n.sent).field["dbus_timeout"]
        IN asked \in Nat => n.note.field["timeout"] = asked ]_serviceVars

(***************************************************************************)
(* docs/dunstctl.pod:97: "When dunst is reloaded all the rules are         *)
(* reapplied to the original notification, so modifications made by        *)
(* previous rules are not taken into account."                             *)
(***************************************************************************)
ReloadForgets ==
  [][ IsReload /\ ~loaded'.dead =>
        \A i \in DOMAIN notes :
          /\ notes'[i].note.field["stack_tag"] = Fresh(i).field["stack_tag"]
          /\ notes'[i].note.scripts = Fresh(i).scripts ]_serviceVars

===========================================================================
