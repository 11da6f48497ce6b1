----------------------------- MODULE MCDisplay -----------------------------
(***************************************************************************)
(* Values of the constants of Layout (and of the Icons it extends) for the *)
(* model checker: a few pixels stand for many.                             *)
(***************************************************************************)
EXTENDS Layout

Dir(type, size) ==
  [name |-> type, type |-> type, size |-> size, min_size |-> 2, max_size |-> 4, threshold |-> 2]

Folder(inherits) ==
  [name |-> "Some", inherits |-> inherits, dirs |-> <<Dir("fixed", 2), Dir("scalable", 3)>>]
Hicolor == [name |-> "Hicolor", inherits |-> <<>>, dirs |-> <<Dir("threshold", 3)>>]

Home   == "~/.icons"
Shared == "/usr/share/icons"

Png(location, theme, dir, name) == <<location, theme, dir, name, ".png">>
Square(n) == [w |-> n, h |-> n]

Plain == <<"/img/wide.png">> :> [w |-> 9, h |-> 3] @@ <<"/icons", "mail", ".png">> :> Square(5)

\* The themes inherit each other; one of them is on disk twice.
Circle ==
  [ themes |-> Home :> ("a" :> Folder(<<"b">>))
               @@ Shared :> ("a" :> Folder(<<>>) @@ "b" :> Folder(<<"a", "gone">>)
                             @@ "hicolor" :> Hicolor),
    images |-> Plain @@ Png(Shared, "b", "scalable", "mail") :> Square(3)
                     @@ Png(Home, "a", "fixed", "disk") :> Square(2)
                     @@ Png(Shared, "hicolor", "threshold", "disk") :> Square(3) ]

\* What the second theme inherits was loaded for a theme the first one inherits; there is no
\* hicolor to fall back on.
Shares ==
  [ themes |-> Shared :> ("a" :> Folder(<<"d">>) @@ "d" :> Folder(<<"c">>) @@ "c" :> Folder(<<>>)
                          @@ "b" :> Folder(<<"c", "a">>)),
    images |-> Plain @@ Png(Shared, "c", "scalable", "mail") :> [w |-> 6, h |-> 2]
                     @@ Png(Shared, "d", "fixed", "disk") :> Square(2) ]

MCDisks == {Circle, Shares}

MCScreens ==
  { [x |-> 3, y |-> 1, w |-> 24, h |-> 80, scale |-> 1],
    [x |-> 0, y |-> 0, w |-> 60, h |-> 80, scale |-> 2] }

Standard ==
  [ enable_recursive_icon_lookup |-> TRUE, icon_theme |-> <<"a", "b">>, icon_path |-> <<"/icons">>,
    env |-> [data_home |-> NoIcon, data_dirs |-> <<"/usr/share/icons">>],
    font_height |-> 2, xmore_length |-> 8,
    height |-> [min |-> 0, max |-> 30], width |-> [min |-> 0, max |-> 24],
    padding |-> 2, h_padding |-> 2, text_icon_padding |-> 0, frame_width |-> 1,
    gap_size |-> 0, separator_height |-> 1, corners |-> {"top", "bottom"},
    progress_bar |-> TRUE, progress_bar_height |-> 4, progress_bar_min_width |-> 12,
    progress_bar_max_width |-> 12, progress_bar_frame_width |-> 1,
    indicate_hidden |-> TRUE, notification_limit |-> 0,
    offset |-> [x |-> 2, y |-> 1], origin |-> [x |-> "right", y |-> "top"],
    vertical_alignment |-> "center" ]

MCSettings ==
  { Standard,
    [Standard EXCEPT !.gap_size = 3, !.vertical_alignment = "top", !.text_icon_padding = 3,
                     !.icon_theme = <<"gone", "b">>],
    [Standard EXCEPT !.separator_height = 3, !.frame_width = 2, !.vertical_alignment = "bottom",
                     !.origin = [x |-> "left", y |-> "bottom"], !.corners = {},
                     !.icon_theme = <<"gone">>],
    [Standard EXCEPT !.notification_limit = 1, !.enable_recursive_icon_lookup = FALSE,
                     !.separator_height = 0, !.origin = [x |-> "center", y |-> "center"],
                     !.height = [min |-> 14, max |-> 20], !.width = [min |-> 20, max |-> 20],
                     !.indicate_hidden = TRUE] }

Card ==
  [ text |-> 6, icon |-> NoIcon, iconname |-> NoIcon, icon_position |-> "left",
    hide_text |-> FALSE, word_wrap |-> TRUE, progress |-> -1, displayed_height |-> 0,
    progress_bar_alignment |-> "center", min_icon_size |-> 3, max_icon_size |-> 6 ]

Named(name) == [kind |-> "name", value |-> name]

MCRequests ==
  { [card |-> Card, icon |-> [kind |-> "empty"]],
    [card |-> [Card EXCEPT !.text = 40, !.progress = 110], icon |-> Named("mail")],
    [card |-> [Card EXCEPT !.text = 23, !.icon_position = "top", !.min_icon_size = 2],
     icon |-> Named("disk")],
    [card |-> [Card EXCEPT !.icon_position = "right", !.word_wrap = FALSE, !.progress = 30,
                           !.progress_bar_alignment = "right"],
     icon |-> [kind |-> "path", value |-> <<"/img/wide.png">>]],
    [card |-> [Card EXCEPT !.hide_text = TRUE, !.max_icon_size = 0],
     icon |-> [kind |-> "data", value |-> [w |-> 4, h |-> 7]]] }
============================================================================
