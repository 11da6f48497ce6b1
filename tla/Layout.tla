------------------------------- MODULE Layout -------------------------------
(***************************************************************************)
(* How the displayed notifications become a window (draw.c), and which of  *)
(* them a click in it means (input.c).  A notification is a card: the      *)
(* length of its text, its icon and what places them.  The height drawing  *)
(* measured stays in the card (displayed_height) and is all a click knows. *)
(*                                                                         *)
(* Every change of the queues is followed by a drawing in the same call of *)
(* run(), so a change and its drawing are one action.  Cards get their     *)
(* icons when they arrive, from the themes Icons has loaded.               *)
(***************************************************************************)
EXTENDS Icons

CONSTANTS MaxCards,    \* most cards displayed
          Settings,    \* the settings a configuration may give
          Disks,       \* what the themes on disk may be: [themes, images]
          Screens,     \* what the monitor may be: [x, y, w, h, scale]
          Requests,    \* what clients send: [card, icon]
          ClickedRows, \* where the pointer may click
          UnsignedRange, \* how many values an unsigned int has
          NoWindow     \* nothing is drawn

\* Sizes of what is on disk or sent, and of what it is scaled to.
Image == [w : Nat \ {0}, h : Nat \ {0}]
Icon  == [w : Nat, h : Nat]

\* What is laid out of a notification.
Cards ==
  [ text : Nat, icon : {NoIcon} \cup Icon,
    iconname : {NoIcon} \cup {r.icon : r \in Requests},
    icon_position : {"left", "right", "top", "off"},
    hide_text : BOOLEAN, word_wrap : BOOLEAN, progress : Int, displayed_height : Nat,
    progress_bar_alignment : {"left", "center", "right"},
    min_icon_size : Nat, max_icon_size : Nat ]

ASSUME LayoutAssumption ==
  /\ \A s \in Settings :
       /\ {s.padding, s.h_padding, s.text_icon_padding, s.frame_width, s.gap_size,
           s.separator_height, s.progress_bar_height, s.progress_bar_max_width,
           s.progress_bar_frame_width, s.xmore_length,
           s.height.min, s.height.max, s.width.min, s.width.max} \subseteq Nat
       /\ s.font_height \in Nat \ {0}
       /\ {s.offset.x, s.progress_bar_min_width} \subseteq Int
       /\ 2 * s.progress_bar_frame_width <= s.progress_bar_height
       /\ 2 * s.progress_bar_frame_width <= s.progress_bar_max_width
       /\ s.progress_bar_min_width <= s.progress_bar_max_width
       /\ s.height.min <= s.height.max /\ s.width.min <= s.width.max
       /\ {s.progress_bar_height, s.height.max} \subseteq 0..UnsignedRange - 1
       /\ s.vertical_alignment \in {"top", "center", "bottom"}
       /\ s.icon_theme \in Seq(STRING)
       /\ {s.env.data_home, s.env.data_dirs} \subseteq {NoIcon} \cup Seq(STRING)
  /\ \A d \in Disks : \A path \in DOMAIN d.images : d.images[path] \in Image
  /\ \A d \in Disks : \A l \in DOMAIN d.themes : \A name \in DOMAIN d.themes[l] :
       d.themes[l][name].inherits \in Seq(STRING)
  /\ \A s \in Screens : s.scale \in Nat \ {0} /\ s.w \in Int
  /\ UnsignedRange \in Nat \ {0}
  /\ \A s \in Settings, t \in Screens : t.w - s.offset.x < UnsignedRange
  /\ \A r \in Requests :
       r.card \in Cards /\ (r.icon.kind = "data" => r.icon.value \in Image)

VARIABLES displayed, waiting, window

layoutVars == <<themeVars, fixedVars, settings, displayed, waiting, window>>

Least(a, b)    == IF a < b THEN a ELSE b
Greatest(a, b) == IF a > b THEN a ELSE b
Ceiling(a, b)  == (a + b - 1) \div b

----------------------------------------------------------------------------
(* Text (Pango): letters one wide, lines settings.font_height high.        *)

\* The size of a text laid out in a width: wrapped into as many lines as fit the height, or a
\* single line.  No letter is cut in two, and a negative width means any width.
PangoSize(length, width, max_height, wrap) ==
  LET fits  == IF wrap THEN Greatest(1, max_height \div settings.font_height) ELSE 1
      room  == Greatest(1, IF width < 0 THEN length ELSE width)
      lines == Least(fits, Greatest(1, Ceiling(length, room)))
  IN  [w |-> Least(length, room), h |-> lines * settings.font_height]

----------------------------------------------------------------------------
(* One layout: a card, or the head of the waiting queue with "(N more)".   *)

LayoutFromNotification(n) ==
  [n |-> n, icon |-> IF n.icon_position # "off" THEN n.icon ELSE NoIcon,
   is_xmore |-> FALSE, text |-> n.text]

\* The icon is not shown, but the card is still the waiting one's.
DeriveXmore(n, qlen) ==
  [n |-> n, icon |-> NoIcon, is_xmore |-> TRUE, text |-> settings.xmore_length]

\* With a limit of one the count is appended to the only card's text.
CreateLayouts(cards, queue) ==
  LET xmore == Len(queue) > 0 /\ settings.indicate_hidden
      cut   == xmore /\ settings.notification_limit = 1
      text(i) == cards[i].text + (IF cut /\ i = Len(cards) THEN 1 + settings.xmore_length ELSE 0)
  IN  [i \in DOMAIN cards |-> LayoutFromNotification([cards[i] EXCEPT !.text = text(i)])]
        \o (IF xmore /\ settings.notification_limit # 1
              THEN <<DeriveXmore(Head(queue), Len(queue))>> ELSE <<>>)

HaveProgressBar(cl) == cl.n.progress >= 0 /\ settings.progress_bar /\ ~cl.is_xmore

ProgressBarHeight(cl) ==
  IF HaveProgressBar(cl) THEN settings.progress_bar_height + settings.padding ELSE 0

HorizontalTextIconPadding(n) ==
  IF settings.text_icon_padding # 0 /\ n.icon # NoIcon /\ n.icon_position \in {"left", "right"}
    THEN settings.text_icon_padding ELSE settings.h_padding

VerticalTextIconPadding(n) ==
  IF settings.text_icon_padding # 0 /\ n.icon # NoIcon /\ n.icon_position = "top"
    THEN settings.text_icon_padding ELSE settings.padding

IconSpace(cl) ==
  IF cl.icon = NoIcon THEN 0 ELSE IconWidth(cl.icon) + HorizontalTextIconPadding(cl.n)

\* layout_setup: the text as it is laid out in a card that wide.
TextSize(cl, width) ==
  PangoSize(cl.text,
    width - 2 * settings.h_padding - (IF cl.n.icon_position = "top" THEN 0 ELSE IconSpace(cl)),
    Greatest(0, settings.height.max - ProgressBarHeight(cl) - 2 * settings.padding),
    cl.n.word_wrap)

\* What is shown of it: hidden text takes no room.
ShownText(cl, width) == IF cl.n.hide_text THEN [w |-> 0, h |-> 0] ELSE TextSize(cl, width)

\* Text and icon one above the other with a gap between, or side by side.
ContentHeight_NoGap(cl, text_h) ==
  IF cl.n.icon_position = "top" /\ cl.n.icon # NoIcon
    THEN IconHeight(cl.icon) + text_h
    ELSE Greatest(IconHeight(cl.icon), text_h)

ContentHeight(cl, text_h) ==
  IF cl.n.icon_position = "top" /\ cl.n.icon # NoIcon
    THEN IconHeight(cl.icon) + text_h
           + (IF cl.n.hide_text THEN 0 ELSE VerticalTextIconPadding(cl.n))
    ELSE Greatest(IconHeight(cl.icon), text_h)

Clamp(x, range) == Least(range.max, Greatest(range.min, x))

\* calculate_notification_dimensions, without the frame.
NaturalHeight(cl) ==
  ContentHeight(cl, ShownText(cl, settings.width.max).h)
    + ProgressBarHeight(cl) + 2 * settings.padding

NaturalWidth(cl) ==
  LET w == ShownText(cl, settings.width.max).w + IconSpace(cl) + 2 * settings.h_padding
  IN  IF HaveProgressBar(cl) THEN Greatest(settings.progress_bar_min_width, w) ELSE w

CardHeight(cl) == Clamp(NaturalHeight(cl), settings.height)
CardWidth(cl)  == Clamp(NaturalWidth(cl), settings.width)

\* layout_get_height and layout_render: the height drawn, measured again on the same layout.
DrawnHeight_OfText(cl) ==
  Clamp(Greatest(ShownText(cl, settings.width.max).h, IconHeight(cl.icon))
          + 2 * settings.padding, settings.height)

DrawnHeight(cl) ==
  Clamp(ContentHeight(cl, ShownText(cl, settings.width.max).h)
          + ProgressBarHeight(cl) + 2 * settings.padding, settings.height)

----------------------------------------------------------------------------
(* The window.                                                             *)

SumOf(s) ==
  LET sum[i \in 0..Len(s)] == IF i = 0 THEN 0 ELSE sum[i - 1] + s[i]
  IN  sum[Len(s)]

\* calculate_dimensions
WindowWidth(cls) ==
  LET widest == Max({0} \cup {CardWidth(cls[i]) + settings.frame_width : i \in DOMAIN cls})
  IN  Least(widest + 2 * settings.frame_width, screen.w - settings.offset.x)

WindowHeight(cls) ==
  SumOf([i \in DOMAIN cls |-> CardHeight(cls[i])])
    + IF settings.gap_size # 0
        THEN Len(cls) * 2 * settings.frame_width + (Len(cls) - 1) * settings.gap_size
        ELSE 2 * settings.frame_width + (Len(cls) - 1) * settings.separator_height

\* The corners of a card that draw() rounds; with them come the frame's upper and lower edge.
Corners(i, count) ==
  IF settings.gap_size # 0 THEN settings.corners
  ELSE (IF i = 1 THEN {"first"} \cup (settings.corners \cap {"top"}) ELSE {})
         \cup (IF i = count THEN {"last"} \cup (settings.corners \cap {"bottom"}) ELSE {})

UpperFrame(corners) == IF corners \cap {"top", "first"} # {} THEN settings.frame_width ELSE 0
LowerFrame(corners) == IF corners \cap {"bottom", "last"} # {} THEN settings.frame_width ELSE 0

\* render_background: the rows of the window a card's background fills.
Background(y, corners, height) == [top |-> y + UpperFrame(corners), height |-> height]

\* layout_render: where the next card begins.
NextY(y, corners, height) ==
  y + UpperFrame(corners) + LowerFrame(corners) + height
    + (IF settings.gap_size # 0 THEN settings.gap_size ELSE settings.separator_height)

\* calc_window_pos
WindowX(width) ==
  LET shift == settings.offset.x * screen.scale
  IN  CASE settings.origin.x = "left"   -> screen.x + shift
        [] settings.origin.x = "right"  -> screen.x + (screen.w - width) - shift
        [] settings.origin.x = "center" -> screen.x + (screen.w - width) \div 2

WindowY(height) ==
  LET shift == settings.offset.y * screen.scale
  IN  CASE settings.origin.y = "top"    -> screen.y + shift
        [] settings.origin.y = "bottom" -> screen.y + (screen.h - height) - shift
        [] settings.origin.y = "center" -> screen.y + (screen.h - height) \div 2

----------------------------------------------------------------------------
(* What render_content puts into the background of a card.                 *)

HeightWithoutBar(cl, height) == height - ProgressBarHeight(cl)

\* The vertical place of the text before an icon moves it.
AlignedY(cl, height, text_h) ==
  LET free == HeightWithoutBar(cl, height)
  IN  CASE settings.vertical_alignment = "top"    -> settings.padding
        [] settings.vertical_alignment = "center" -> free \div 2 - text_h \div 2
        [] settings.vertical_alignment = "bottom" ->
             IF free - settings.padding - text_h < 0 THEN settings.padding
             ELSE free - settings.padding - text_h

IconBox(cl, width, height, text_h) ==
  LET size == [w |-> IconWidth(cl.icon), h |-> IconHeight(cl.icon)]
      y    == AlignedY(cl, height, text_h)
      step == size.h + VerticalTextIconPadding(cl.n)
      above == cl.n.icon_position = "top"
  IN  [ x |-> CASE above -> (width - size.w) \div 2
                [] cl.n.icon_position = "left" -> settings.h_padding
                [] cl.n.icon_position = "right" -> width - settings.h_padding - size.w,
        y |-> CASE settings.vertical_alignment = "top" -> y
                [] settings.vertical_alignment = "center" ->
                     IF above THEN y - step \div 2 ELSE y + text_h \div 2 - size.h \div 2
                [] settings.vertical_alignment = "bottom" ->
                     IF above THEN y - step ELSE y - (size.h - text_h),
        w |-> size.w, h |-> size.h ]

TextBox(cl, width, height) ==
  LET size == ShownText(cl, width)
      step == IconHeight(cl.icon) + VerticalTextIconPadding(cl.n)
      down == IF cl.icon = NoIcon \/ cl.n.icon_position # "top" THEN 0
              ELSE CASE settings.vertical_alignment = "top"    -> step
                     [] settings.vertical_alignment = "center" -> step \div 2
                     [] settings.vertical_alignment = "bottom" -> 0
  IN  [ x |-> settings.h_padding
                + (IF cl.icon # NoIcon /\ cl.n.icon_position = "left" THEN IconSpace(cl) ELSE 0),
        y |-> AlignedY(cl, height, size.h) + down,
        w |-> size.w, h |-> size.h ]

\* The bar is reckoned in unsigned int: what is negative becomes huge.
Unsigned(n) == n % UnsignedRange

BarBox(cl, width, height) ==
  LET w == Unsigned(Least(width - 2 * settings.h_padding, settings.progress_bar_max_width))
  IN  [ x |-> Unsigned(CASE cl.n.progress_bar_alignment = "left"   -> settings.h_padding
                         [] cl.n.progress_bar_alignment = "center" -> width \div 2 - w \div 2
                         [] cl.n.progress_bar_alignment = "right"  ->
                              width - w - settings.h_padding),
        y |-> Unsigned(HeightWithoutBar(cl, height)),
        w |-> w,
        h |-> Unsigned(settings.progress_bar_height - settings.progress_bar_frame_width) ]

\* The part of the bar's length that is filled, at most all of it.
BarFill(cl, width, height) ==
  Unsigned(Unsigned(BarBox(cl, width, height).w - 2 * settings.progress_bar_frame_width)
             * Least(cl.n.progress, 100)) \div 100

----------------------------------------------------------------------------
(* draw()                                                                  *)

RowOf(cls, i, y, width) ==
  [cl |-> cls[i], background |-> Background(y, Corners(i, Len(cls)), DrawnHeight(cls[i])),
   end |-> y + UpperFrame(Corners(i, Len(cls))) + LowerFrame(Corners(i, Len(cls)))
             + DrawnHeight(cls[i]),
   width |-> width - 2 * settings.frame_width]

RowTops(cls) ==
  LET top[i \in 1..Len(cls)] ==
        IF i = 1 THEN 0 ELSE NextY(top[i - 1], Corners(i - 1, Len(cls)), DrawnHeight(cls[i - 1]))
  IN  top

Drawing(cards, queue) ==
  LET cls == CreateLayouts(cards, queue)
      w   == WindowWidth(cls)
      h   == WindowHeight(cls)
  IN  [ w |-> w, h |-> h,
        x |-> WindowX(w * screen.scale), y |-> WindowY(h * screen.scale),
        rows |-> [i \in DOMAIN cls |-> RowOf(cls, i, RowTops(cls)[i], w)] ]

\* Measuring leaves the height in every card, for the clicks.
Measured(cards, queue) ==
  [i \in DOMAIN cards |->
     [cards[i] EXCEPT !.displayed_height = CardHeight(CreateLayouts(cards, queue)[i])]]

Draw(cards, queue) ==
  /\ displayed' = (IF cards = <<>> THEN cards ELSE Measured(cards, queue))
  /\ waiting' = queue
  /\ window' = (IF cards = <<>> THEN NoWindow ELSE Drawing(cards, queue))

----------------------------------------------------------------------------
(* input.c                                                                 *)

\* get_notification_clickable_height; the halves of an odd separator are cut off one by one.
AddHalf(size) == (2 * (size + settings.frame_width) - settings.separator_height) \div 2

ClickableHeight_NoFirst(n, first, last) ==
  IF settings.gap_size # 0 THEN n.displayed_height + 2 * settings.frame_width
  ELSE LET size == n.displayed_height + settings.separator_height
       IN  IF last THEN AddHalf(size) ELSE size

ClickableHeight(n, first, last) ==
  IF settings.gap_size # 0 THEN n.displayed_height + 2 * settings.frame_width
  ELSE LET size   == n.displayed_height + settings.separator_height
           ofFirst == IF first THEN AddHalf(size) ELSE size
       IN  IF last THEN AddHalf(ofFirst) ELSE ofFirst

\* get_notification_at: the rows a click must be in to mean a card, as it adds them up, and
\* the place in displayed of the card a click at y means, 0 for none.
ClickHeight(i) == ClickableHeight(displayed[i], i = 1, i = Len(displayed))

ClickTops ==
  LET top[i \in 1..Len(displayed)] ==
        IF i = 1 THEN 0 ELSE top[i - 1] + ClickHeight(i - 1) + settings.gap_size
  IN  top

NotificationAt(y) ==
  LET hit == {i \in 1..Len(displayed) :
                ClickTops[i] <= y /\ y < ClickTops[i] + ClickHeight(i)}
  IN  IF hit = {} THEN 0 ELSE CHOOSE i \in hit : TRUE

----------------------------------------------------------------------------
(* What happens.                                                           *)

Loaded == phase = "loaded" /\ loads = <<>>

\* A client's notification is displayed, or waits when there is no room.
Arrive(r) ==
  /\ Loaded
  /\ LET card == ReplaceIcon(r.card, r.icon)
     IN  IF Len(displayed) < (IF settings.notification_limit = 1 THEN 1 ELSE MaxCards)
           THEN Draw(Append(displayed, card), waiting)
           ELSE waiting = <<>> /\ Draw(displayed, <<card>>)
  /\ UNCHANGED <<fixedVars, settings, themeVars>>

\* A card is closed: by a click in its row, by its timeout or by its client.
Leave(i) ==
  /\ Loaded /\ displayed # <<>>
  /\ Draw(RemoveAt(displayed, i) \o waiting, <<>>)
  /\ UNCHANGED <<fixedVars, settings, themeVars>>

Click(y) ==
  /\ Loaded /\ window # NoWindow /\ y < window.h
  /\ NotificationAt(y) # 0
  /\ Leave(NotificationAt(y))

\* draw_deinit and draw_setup around new settings; the next run() draws.
Reload(s) ==
  /\ Loaded
  /\ settings' = s
  /\ StartThemes(s)
  /\ window' = NoWindow
  /\ UNCHANGED <<fixedVars, displayed, waiting>>

Load == LoadIconThemes /\ UNCHANGED <<displayed, waiting, window>>

Redraw ==
  /\ Loaded /\ displayed # <<>> /\ window = NoWindow
  /\ Draw(displayed, waiting)
  /\ UNCHANGED <<fixedVars, settings, themeVars>>

----------------------------------------------------------------------------
(* Properties.                                                             *)

RowsOf(i) == LET b == window.rows[i].background IN b.top..b.top + b.height - 1

\* Clicks are resolved by adding up the heights of cards, with halves of separators, while
\* draw() adds up frames, gaps and separators: a click on any row of a card's background
\* means that card, whatever is displayed and however it is laid out.
ClickMeansCardShown ==
  window # NoWindow => \A i \in DOMAIN displayed : \A y \in RowsOf(i) : NotificationAt(y) = i

\* The window is made as high as the cards were counted to be, the cards are drawn as high as
\* they are measured while drawing: they do not overlap and end where the window ends.
CardsFillWindow ==
  window # NoWindow =>
    /\ \A i \in DOMAIN window.rows : i > 1 =>
         window.rows[i].background.top >= window.rows[i - 1].end
    /\ Last(window.rows).end = window.h

\* Nothing is cut: the card is as high as it wants to be, wide enough for its icon and a
\* letter (Pango lays one out however narrow it gets) and for the frame of its bar, and its
\* text breaks into as many lines in the width it is drawn in as in the one it was measured in.
Uncut(row) ==
  /\ NaturalHeight(row.cl) <= settings.height.max
  /\ IconSpace(row.cl) + 2 * settings.h_padding < row.width
  /\ HaveProgressBar(row.cl) =>
       2 * settings.progress_bar_frame_width + 2 * settings.h_padding <= row.width
  /\ TextSize(row.cl, row.width).h = TextSize(row.cl, settings.width.max).h

\* Closer than this is rounding.
Slack == 1

\* Centered, the icon moves up and the text down by half of the icon and the gap: cut to
\* pixels, the halves of an odd icon without a gap are one short.
OverlapOfHalves(cl) == IF VerticalTextIconPadding(cl.n) = 0 THEN Slack ELSE 0

BetweenSides(box, row) ==
  /\ box.x >= settings.h_padding
  /\ box.x + box.w <= row.width - settings.h_padding

WithinPadding(box, row) ==
  /\ box.y >= settings.padding - Slack
  /\ box.y + box.h
       <= HeightWithoutBar(row.cl, row.background.height) - settings.padding + Slack
  /\ BetweenSides(box, row)

Apart(icon, text, cl) ==
  \/ icon.y + icon.h <= text.y + OverlapOfHalves(cl)
  \/ icon.x + icon.w <= text.x
  \/ text.x + text.w <= icon.x

RowFits(row) ==
  LET h    == row.background.height
      text == TextBox(row.cl, row.width, h)
      icon == IconBox(row.cl, row.width, h, text.h)
      bar  == BarBox(row.cl, row.width, h)
  IN  /\ WithinPadding(text, row)
      /\ row.cl.icon # NoIcon => WithinPadding(icon, row) /\ Apart(icon, text, row.cl)
      /\ HaveProgressBar(row.cl) =>
           /\ bar.y + bar.h <= h - settings.padding
           /\ BetweenSides(bar, row)
           /\ BarFill(row.cl, row.width, h) <= bar.w

\* render_content places text, icon and progress bar with other sums than the ones that
\* measured the card: in an uncut card they still lie within the padding, the text clear of
\* the icon above or beside it and of the bar below it.
ContentFits ==
  window # NoWindow => \A i \in DOMAIN window.rows :
    LET row == window.rows[i]
    IN  Uncut(row) /\ ~row.cl.n.hide_text => RowFits(row)

----------------------------------------------------------------------------
LayoutInit ==
  /\ \E d \in Disks : disk = d.themes /\ images = d.images
  /\ settings \in Settings
  /\ screen \in Screens
  /\ displayed = <<>> /\ waiting = <<>> /\ window = NoWindow
  /\ icon_themes = <<>> /\ default_themes_index = <<>> /\ loads = <<>>
  /\ wanted = (IF settings.enable_recursive_icon_lookup THEN settings.icon_theme ELSE <<>>)
  /\ phase = (IF settings.enable_recursive_icon_lookup THEN "configured" ELSE "loaded")

LayoutNext ==
  \/ Load
  \/ \E r \in Requests : Arrive(r)
  \/ \E i \in DOMAIN displayed : Leave(i)
  \/ \E y \in ClickedRows : Click(y)
  \/ \E s \in Settings : Reload(s)
  \/ Redraw

\* Loading is one call that does not wait for anything.
LayoutSpec == LayoutInit /\ [][LayoutNext]_layoutVars /\ WF_layoutVars(Load)
=============================================================================
