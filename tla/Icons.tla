------------------------------- MODULE Icons -------------------------------
(***************************************************************************)
(* Where a notification's picture comes from: the icon themes that         *)
(* draw_setup loads (icon-lookup.c), the lookup of a name in them or in    *)
(* the icon_path, and the size an image is scaled to (icon.c).             *)
(*                                                                         *)
(* Loading a theme loads the themes it inherits first-come, by recursion:  *)
(* the stack of calls is the variable loads, one frame for each call of    *)
(* load_icon_theme_from_dir that has not returned.                         *)
(***************************************************************************)
EXTENDS Integers, Sequences, FiniteSets, SequencesExt

CONSTANTS NoIcon       \* no path, no image, no surface (NULL)

VARIABLES
  disk,                \* location -> subdirectory -> theme, for the themes whose index can be read
  images,              \* path -> size of the image there
  settings,            \* the settings in force
  screen,              \* the monitor drawn on: its place, size and scale
  icon_themes,         \* the themes loaded, in the order of their indices
  default_themes_index,
  wanted,              \* names load_icon_themes has yet to load
  loads,               \* the calls of load_icon_theme_from_dir in progress
  phase                \* "configured", "fallback" or "loaded"

fixedVars == <<disk, images, screen>>
themeVars == <<icon_themes, default_themes_index, wanted, loads, phase>>

----------------------------------------------------------------------------
(* The search path. *)

FromEnv(dirs, alternative) == IF dirs = NoIcon THEN alternative ELSE dirs

ThemePath(env) ==
  <<"~/.icons">> \o FromEnv(env.data_home, <<"~/.local/share">>)
    \o FromEnv(env.data_dirs, <<"/usr/local/share", "/usr/share">>)
    \o <<"/usr/share/pixmaps">>

\* Where on the search path the index of a theme can be read; the first of them counts.
Places(name) ==
  LET path == ThemePath(settings.env)
  IN  {i \in DOMAIN path : path[i] \in DOMAIN disk /\ name \in DOMAIN disk[path[i]]}

IsOnDisk(name) == Places(name) # {}
Location(name) == ThemePath(settings.env)[Min(Places(name))]

Theme(t) == disk[t.location][t.subdir_theme]

\* Index of the loaded theme of that directory, -1 if there is none.
GetIconTheme_ByName(name) ==
  LET found == {i \in DOMAIN icon_themes : Theme(icon_themes[i]).name = name}
  IN  IF found = {} THEN -1 ELSE (CHOOSE i \in found : \A j \in found : i <= j) - 1

GetIconTheme(name) ==
  LET found == {i \in DOMAIN icon_themes : icon_themes[i].subdir_theme = name}
  IN  IF found = {} THEN -1 ELSE (CHOOSE i \in found : \A j \in found : i <= j) - 1

\* The names a theme inherits: hicolor when it names none, nothing for Hicolor itself.
Inherits(theme) ==
  IF theme.name = "Hicolor" THEN <<>>
  ELSE IF theme.inherits = <<>> THEN <<"hicolor">> ELSE theme.inherits

InheritedBy(name) == Inherits(disk[Location(name)][name])

----------------------------------------------------------------------------
(* Loading. *)

\* load_icon_theme opens the index: the theme takes its place in icon_themes before the
\* themes it inherits are looked at.
OpenTheme(name) ==
  /\ loads' = Append(loads, [theme |-> Len(icon_themes), left |-> InheritedBy(name)])
  /\ icon_themes' = Append(icon_themes,
       [subdir_theme |-> name, location |-> Location(name), inherits_index |-> <<>>])

\* load_icon_themes takes the next configured theme; it does not ask whether it is loaded.
LoadNext_SameAgain ==
  /\ loads = <<>> /\ wanted # <<>>
  /\ IF IsOnDisk(Head(wanted))
       THEN OpenTheme(Head(wanted)) /\ UNCHANGED wanted
       ELSE UNCHANGED <<wanted, loads, icon_themes>>
  /\ UNCHANGED <<fixedVars, settings, default_themes_index, phase>>

LoadNext ==
  /\ loads = <<>> /\ wanted # <<>>
  /\ IF IsOnDisk(Head(wanted))
       THEN OpenTheme(Head(wanted)) /\ UNCHANGED wanted
       ELSE wanted' = Tail(wanted) /\ UNCHANGED <<loads, icon_themes>>
  /\ UNCHANGED <<fixedVars, settings, default_themes_index, phase>>

\* The frame on top stores an index for the next name it inherits.
StoreInherited(stack, index) ==
  LET top == Last(stack)
  IN  /\ icon_themes' = [icon_themes EXCEPT ![top.theme + 1].inherits_index = Append(@, index)]
      /\ loads' = Append(Front(stack), [top EXCEPT !.left = Tail(@)])

InheritNext ==
  /\ loads # <<>> /\ Last(loads).left # <<>>
  /\ LET name  == Head(Last(loads).left)
         known == GetIconTheme(name)
     IN  IF known # -1 THEN StoreInherited(loads, known)
         ELSE IF IsOnDisk(name) THEN OpenTheme(name)
         ELSE StoreInherited(loads, -1)
  /\ UNCHANGED <<fixedVars, settings, default_themes_index, wanted, phase>>

\* A theme whose names are all stored returns its index: to the theme that inherits it, or
\* to load_icon_themes, which makes it a default theme.
ReturnIndex ==
  /\ loads # <<>> /\ Last(loads).left = <<>>
  /\ LET index == Last(loads).theme
     IN  IF Len(loads) > 1
           THEN StoreInherited(Front(loads), index) /\ UNCHANGED <<default_themes_index, wanted>>
           ELSE /\ loads' = <<>>
                /\ default_themes_index' = Append(default_themes_index, index)
                /\ wanted' = Tail(wanted)
                /\ UNCHANGED icon_themes
  /\ UNCHANGED <<fixedVars, settings, phase>>

\* No configured theme could be loaded: hicolor is tried, if it is missing nothing is added.
FinishLoading ==
  /\ loads = <<>> /\ wanted = <<>> /\ phase # "loaded"
  /\ IF phase = "configured" /\ default_themes_index = <<>>
       THEN phase' = "fallback" /\ wanted' = <<"hicolor">>
       ELSE phase' = "loaded" /\ UNCHANGED wanted
  /\ UNCHANGED <<fixedVars, settings, icon_themes, default_themes_index, loads>>

LoadIconThemes == LoadNext \/ InheritNext \/ ReturnIndex \/ FinishLoading

\* draw_setup starts loading; without the recursive lookup there is nothing to load.
StartThemes(s) ==
  /\ icon_themes' = <<>> /\ default_themes_index' = <<>> /\ loads' = <<>>
  /\ wanted' = (IF s.enable_recursive_icon_lookup THEN s.icon_theme ELSE <<>>)
  /\ phase' = (IF s.enable_recursive_icon_lookup THEN "configured" ELSE "loaded")

----------------------------------------------------------------------------
(* Looking a name up. *)

SizeMatches(dir, size) ==
  CASE dir.type = "fixed"     -> dir.size = size
    [] dir.type = "scalable"  -> dir.min_size <= size /\ size <= dir.max_size
    [] dir.type = "threshold" -> dir.size <= size * dir.threshold /\ size <= dir.size * dir.threshold

IconSuffixes == <<".svg", ".svgz", ".png", ".xpm">>

FirstOf(seq) == IF seq = <<>> THEN NoIcon ELSE Head(seq)

\* The first of these paths at which there is an image.
FirstReadable(paths) == FirstOf(SelectSeq(FlattenSeq(paths), LAMBDA p : p \in DOMAIN images))

\* The first of these answers that is a path.
FirstHit(answers) ==
  LET hits == {i \in DOMAIN answers : answers[i] # NoIcon}
  IN  IF hits = {} THEN NoIcon ELSE answers[Min(hits)]

\* What the folders of a theme have for a name and a size.
IconIn(name, location, subdir, size) ==
  LET dirs == SelectSeq(disk[location][subdir].dirs, LAMBDA d : SizeMatches(d, size))
      path(d, suffix) == <<location, subdir, d.name, name, suffix>>
  IN  FirstReadable([i \in DOMAIN dirs |->
        [k \in DOMAIN IconSuffixes |-> path(dirs[i], IconSuffixes[k])]])

FindIconInTheme(name, index, size) ==
  LET t == icon_themes[index + 1] IN IconIn(name, t.location, t.subdir_theme, size)

\* An index of 0 is skipped together with the -1 of a theme that is not there.
Follows_FromTwo(index) == index > 1
Follows(index)         == index > 0

FindIconInThemeWithInherit(name, index, size) ==
  LET own       == FindIconInTheme(name, index, size)
      inherited == icon_themes[index + 1].inherits_index
  IN  IF own # NoIcon THEN own
      ELSE FirstHit([i \in DOMAIN inherited |->
             IF Follows(inherited[i]) THEN FindIconInTheme(name, inherited[i], size) ELSE NoIcon])

FindIconPath(name, size) ==
  FirstHit([i \in DOMAIN default_themes_index |->
              FindIconInThemeWithInherit(name, default_themes_index[i], size)])

\* An icon is named by a uri, a path, or a name to search for.
GetPathFromIconName(icon, size) ==
  IF icon.kind = "empty" THEN NoIcon
  ELSE IF icon.kind \in {"uri", "path"} THEN icon.value
  ELSE IF settings.enable_recursive_icon_lookup THEN FindIconPath(icon.value, size)
  ELSE LET folder(i) == [k \in DOMAIN IconSuffixes |-> <<settings.icon_path[i], icon.value, IconSuffixes[k]>>]
       IN  FirstReadable([i \in DOMAIN settings.icon_path |-> folder(i)])

----------------------------------------------------------------------------
(* The size of an image. *)

Larger(size)  == IF size.w > size.h THEN size.w ELSE size.h
Smaller(size) == IF size.w > size.h THEN size.h ELSE size.w

\* [larger, smaller] as fractions of den: enlarged to the minimum, then reduced to the maximum.
Stretched(size, min) ==
  IF min # 0 /\ Smaller(size) < min
    THEN [larger |-> Larger(size) * min, smaller |-> min * Smaller(size), den |-> Smaller(size)]
    ELSE [larger |-> Larger(size), smaller |-> Smaller(size), den |-> 1]

Reduced(f, max) ==
  IF max # 0 /\ f.larger > max * f.den
    THEN [larger |-> max * f.larger, smaller |-> f.smaller * max, den |-> f.larger]
    ELSE f

IconSizeClamp(size, min, max) ==
  LET f == Reduced(Stretched(size, min), max)
      larger == f.larger \div f.den
      smaller == f.smaller \div f.den
  IN  IF larger = Larger(size) THEN [size |-> size, changed |-> FALSE]
      ELSE [size |-> IF size.w > size.h THEN [w |-> larger, h |-> smaller]
                     ELSE [w |-> smaller, h |-> larger],
            changed |-> TRUE]

Times(size, scale) == [w |-> size.w * scale, h |-> size.h * scale]

\* get_pixbuf_from_file: an unreadable image gives nothing.
PixbufFromFile(path, min, max) ==
  IF path \notin DOMAIN images THEN NoIcon
  ELSE Times(IconSizeClamp(images[path], min, max).size, screen.scale)

\* icon_get_for_data: raw data is multiplied by the scale only when it was clamped.
PixbufFromData(size, min, max) ==
  LET c == IconSizeClamp(size, min, max)
  IN  IF c.changed THEN Times(c.size, screen.scale) ELSE c.size

\* notification_icon_replace_path and notification_icon_replace_data: nothing is loaded for a
\* notification that hides its icon, and a name it already has is not loaded again.
ReplaceIcon(n, icon) ==
  IF n.icon_position = "off" THEN n
  ELSE IF icon.kind = "data"
    THEN [n EXCEPT !.icon = PixbufFromData(icon.value, n.min_icon_size, n.max_icon_size)]
  ELSE IF n.iconname = icon /\ n.icon # NoIcon THEN n
  ELSE [n EXCEPT !.iconname = icon,
                 !.icon = PixbufFromFile(GetPathFromIconName(icon, n.min_icon_size),
                                         n.min_icon_size, n.max_icon_size)]

\* get_icon_width and get_icon_height: the size on the layout, rounded.
IconWidth(icon)  == IF icon = NoIcon THEN 0 ELSE (2 * icon.w + screen.scale) \div (2 * screen.scale)
IconHeight(icon) == IF icon = NoIcon THEN 0 ELSE (2 * icon.h + screen.scale) \div (2 * screen.scale)

----------------------------------------------------------------------------
(* Properties. *)

\* load_icon_theme_from_dir recurses into what a theme inherits, and themes may inherit each
\* other in a circle: a theme is never being loaded twice at the same time, so the recursion
\* is no deeper than the number of themes on disk.
NoThemeWithinItself ==
  \A i, j \in DOMAIN loads : i # j =>
    icon_themes[loads[i].theme + 1].subdir_theme # icon_themes[loads[j].theme + 1].subdir_theme

\* draw_setup comes back: the themes are loaded in the end, whatever inherits what.
LoadingEnds == (phase = "configured") ~> (phase = "loaded")

\* The configured themes, or hicolor when none of them is there.
ConfiguredThemes ==
  IF \E i \in DOMAIN settings.icon_theme : IsOnDisk(settings.icon_theme[i])
    THEN settings.icon_theme ELSE <<"hicolor">>

\* The order icon-lookup.h promises, from the names on disk alone: the theme added first, then
\* what it inherits in the order it names it, then the next theme.
IconOnDisk(name, subdir, size) ==
  IF IsOnDisk(subdir) THEN IconIn(name, Location(subdir), subdir, size) ELSE NoIcon

IconWithInherited(name, subdir, size) ==
  LET own == IconOnDisk(name, subdir, size)
  IN  IF own # NoIcon \/ ~IsOnDisk(subdir) THEN own
      ELSE FirstHit([i \in DOMAIN InheritedBy(subdir) |->
                       IconOnDisk(name, InheritedBy(subdir)[i], size)])

PromisedIcon(name, size) ==
  FirstHit([i \in DOMAIN ConfiguredThemes |-> IconWithInherited(name, ConfiguredThemes[i], size)])

\* Looking a name up by the indices of the loaded themes (with the indices it skips, the
\* themes loaded twice and the ones that are missing) finds what the promised order of the
\* themes on disk finds: the first icon of that name and size, or nothing.
FoundInPromisedOrder ==
  phase = "loaded" /\ settings.enable_recursive_icon_lookup =>
    \A name \in {p[4] : p \in {q \in DOMAIN images : Len(q) = 5}}, size \in 1..5 :
      FindIconPath(name, size) = PromisedIcon(name, size)
============================================================================
