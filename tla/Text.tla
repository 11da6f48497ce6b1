-------------------------------- MODULE Text --------------------------------
(***************************************************************************)
(* From what a client wrote to what its notification shows: the format     *)
(* (notification.c), markup (markup.c) and the string helpers (utils.c).   *)
(*                                                                         *)
(* A text is a sequence of pieces.  A piece is a letter or a run of        *)
(* letters that the code only ever looks at as a whole: "lt;" after "&",   *)
(* "/a" after "<", an address.  "nl" is a newline, "\\n" the two letters   *)
(* that stand for it in a format.                                          *)
(***************************************************************************)
EXTENDS Integers, Sequences, FiniteSets, SequencesExt

CONSTANTS Notes,       \* notifications as clients and rules make them
          MaxChars,    \* DUNST_NOTIF_MAX_CHARS, in pieces
          Ages,        \* how old, in seconds, a notification gets while it is shown
          MaxDups,     \* most duplicates that arrive
          NoText       \* NULL

VARIABLES n,           \* the notification
          stage,       \* "new", "format", "formatted", "rendered" or "shown"
          msg,         \* the formatted message
          needle,      \* where notification_format_message looks for the next %
          urls, text_to_render, shown

vars == <<n, stage, msg, needle, urls, text_to_render, shown>>

----------------------------------------------------------------------------
(* utils.c                                                                 *)

\* strstr: the first place of a needle from a place on, 0 if there is none.
Find(text, what, from) ==
  LET places == {i \in from..Len(text) - Len(what) + 1 :
                   SubSeq(text, i, i + Len(what) - 1) = what}
  IN  IF places = {} THEN 0 ELSE CHOOSE i \in places : \A j \in places : i <= j

StringReplaceAt(text, pos, len, repl) ==
  SubSeq(text, 1, pos - 1) \o repl \o SubSeq(text, pos + len, Len(text))

RECURSIVE ReplaceFrom(_, _, _, _)
ReplaceFrom(text, what, repl, from) ==
  LET i == Find(text, what, from)
  IN  IF i = 0 THEN text
      ELSE ReplaceFrom(StringReplaceAt(text, i, Len(what), repl), what, repl, i + Len(repl))

StringReplaceAll(what, repl, text) == ReplaceFrom(text, what, repl, 1)

StringAppend(a, b, sep) ==
  IF a \in {NoText, <<>>} THEN b ELSE IF b \in {NoText, <<>>} THEN a ELSE a \o sep \o b

\* string_strip_delimited: what lies between the delimiters goes, nested or not; what follows
\* a delimiter that is never closed stays.  skipped is cskip, which only a kept letter resets.
StripDelimited(text, a, b) ==
  LET step(s, c) ==
        LET open == IF c = a THEN s.open + 1
                    ELSE IF c = b /\ s.open > 0 THEN s.open - 1 ELSE s.open
            kept == c # a /\ ~(c = b /\ s.open > 0) /\ s.open = 0
        IN  [open |-> open, out |-> IF kept THEN Append(s.out, c) ELSE s.out,
             skipped |-> (IF kept THEN 0 ELSE s.skipped) + (IF open > 0 THEN 1 ELSE 0)]
      end == FoldLeft(step, [open |-> 0, out |-> <<>>, skipped |-> 0], text)
  IN  IF end.open = 0 THEN end.out
      ELSE end.out \o SubSeq(text, Len(text) - end.skipped + 1, Len(text))

Blank == {"nl", " "}

\* g_strchomp
Chomp(text) ==
  LET kept == {i \in DOMAIN text : text[i] \notin Blank}
  IN  IF kept = {} THEN <<>> ELSE SubSeq(text, 1, CHOOSE i \in kept : \A j \in kept : j <= i)

----------------------------------------------------------------------------
(* markup.c                                                                *)

Entity == [c \in {"\"", "'", "<", ">", "&"} |->
             CASE c = "\"" -> <<"&", "quot;">> [] c = "'" -> <<"&", "apos;">>
               [] c = "<" -> <<"&", "lt;">> [] c = ">" -> <<"&", "gt;">>
               [] c = "&" -> <<"&", "amp;">>]

MarkupQuote_AmpersandLast(text) ==
  FoldLeft(LAMBDA t, c : StringReplaceAll(<<c>>, Entity[c], t), text, <<"\"", "'", "<", ">", "&">>)

MarkupQuote(text) ==
  FoldLeft(LAMBDA t, c : StringReplaceAll(<<c>>, Entity[c], t), text, <<"&", "\"", "'", "<", ">">>)

MarkupUnquote(text) ==
  FoldLeft(LAMBDA t, c : StringReplaceAll(Entity[c], <<c>>, t), text, <<"\"", "'", "<", ">", "&">>)

MarkupBr2nl(text) ==
  FoldLeft(LAMBDA t, tag : StringReplaceAll(tag, <<"nl">>, t), text,
           <<<<"<", "br", ">">>, <<"<", "br/", ">">>, <<"<", "br", " ", "/", ">">>>>)

MarkupStrip(text) == MarkupUnquote(StripDelimited(text, "<", ">"))

\* The letter an entity Pango knows stands for.
LetterOf == [e \in {"amp;", "lt;", "gt;", "quot;", "apos;", "#65;"} |->
               CASE e = "amp;" -> "&" [] e = "lt;" -> "<" [] e = "gt;" -> ">"
                 [] e = "quot;" -> "\"" [] e = "apos;" -> "'" [] e = "#65;" -> "A"]

\* An & that begins an entity Pango knows, or a number's.
IsEntity(text, i) ==
  i < Len(text) /\ text[i + 1] \in DOMAIN LetterOf

MarkupEscapeUnsupported(text) ==
  FlattenSeq([i \in DOMAIN text |->
    IF text[i] = "&" /\ ~IsEntity(text, i) THEN <<"&", "amp;">> ELSE <<text[i]>>])

\* The label of a link in the menu: without the brackets and newlines dmenu's lines are made of.
Label_AsItIs(text) == StringReplaceAll(<<"[">>, <<>>, StringReplaceAll(<<"]">>, <<>>, text))

Label(text) ==
  StringReplaceAll(<<"nl">>, <<"\\n">>,
    StringReplaceAll(<<"[">>, <<>>, StringReplaceAll(<<"]">>, <<>>, text)))

MenuLine(label, url) == <<"[">> \o Label(label) \o <<"]", " ">> \o url

\* The value of an attribute that stands at a place: [from, to], to = 0 if it is not closed.
Value(text, attribute, start) ==
  LET at == Find(text, <<attribute, "\"">>, start)
  IN  IF at = 0 THEN [at |-> 0, from |-> 0, to |-> 0]
      ELSE [at |-> at, from |-> at + 2, to |-> Find(text, <<"\"">>, at + 2)]

Content(text, v) == SubSeq(text, v.from, v.to - 1)

\* markup_strip_a: links give way to what they enclose; a broken one is cut away and ends it.
RECURSIVE StripA(_, _)
StripA(text, found) ==
  LET tag  == Find(text, <<"<", "a">>, 1)
      end  == Find(text, <<">">>, tag)
      tag2 == Find(text, <<"<", "/a", ">">>, tag)
      href == Value(text, "href=", tag)
      label == SubSeq(text, end + 1, IF tag2 # 0 THEN tag2 - 1 ELSE Len(text))
      length == end - tag + 1 + Len(label) + (IF tag2 # 0 THEN 3 ELSE 0)
  IN  IF tag = 0 THEN [text |-> text, urls |-> found]
      ELSE IF end = 0 THEN [text |-> SubSeq(text, 1, tag - 1), urls |-> found]
      ELSE IF tag2 # 0 /\ tag2 < end
        THEN [text |-> StringReplaceAt(text, tag, tag2 + 3 - tag, <<>>), urls |-> found]
      ELSE StripA(StringReplaceAt(text, tag, length, label),
             IF href.at # 0 /\ href.at < end /\ href.to # 0 /\ href.to < end
               THEN StringAppend(found, MenuLine(label, Content(text, href)), <<"nl">>)
               ELSE found)

\* markup_strip_img: images give way to their alt text, or to "[image]".
RECURSIVE StripImg(_, _)
StripImg(text, found) ==
  LET tag == Find(text, <<"<", "img">>, 1)
      end == Find(text, <<">">>, tag)
      alt == Value(text, "alt=", tag)
      src == Value(text, "src=", tag)
      closed(v) == v.at # 0 /\ v.to # 0
      apart(v, w) == v.from < w.from /\ v.to < w.at /\ w.to < end
      both == closed(alt) /\ closed(src) /\ (apart(alt, src) \/ apart(src, alt))
      alone(v, w) == closed(v) /\ v.to < end /\ (w.at = 0 \/ w.from < v.from \/ v.to < w.at)
      hasAlt == both \/ alone(alt, src)
      hasSrc == both \/ (~alone(alt, src) /\ alone(src, alt))
      label  == IF hasAlt THEN Content(text, alt) ELSE <<"[", "image", "]">>
  IN  IF tag = 0 THEN [text |-> text, urls |-> found]
      ELSE IF end = 0 THEN [text |-> SubSeq(text, 1, tag - 1), urls |-> found]
      ELSE StripImg(StringReplaceAt(text, tag, end - tag + 1, label),
             IF hasSrc THEN StringAppend(found, MenuLine(label, Content(text, src)), <<"nl">>)
             ELSE found)

Newlines(text, ignore) == IF ignore THEN StringReplaceAll(<<"nl">>, <<" ">>, text) ELSE text

MarkupTransform(text, mode, ignore_newline) ==
  Newlines(CASE mode = "no"    -> MarkupQuote(text)
             [] mode = "strip" -> MarkupQuote(MarkupStrip(MarkupBr2nl(text)))
             [] mode = "full"  ->
                  StripImg(StripA(MarkupBr2nl(MarkupEscapeUnsupported(text)), NoText).text,
                           NoText).text,
           ignore_newline)

----------------------------------------------------------------------------
(* notification.c                                                          *)

IsAddress(piece) == piece \in {"http://x", "http://y"}

\* extract_urls: the addresses in a text, a line each.
ExtractUrls(text) ==
  FoldLeft(LAMBDA found, piece : StringAppend(found, <<piece>>, <<"nl">>), NoText,
           SelectSeq(text, IsAddress))

\* notification_extract_urls: links, images, then the plain addresses that are left.
UrlsOf(note) ==
  LET a   == StripA(StringAppend(note.summary, note.body, <<" ">>), NoText)
      img == StripImg(a.text, NoText)
  IN  StringAppend(StringAppend(a.urls, img.urls, <<"nl">>), ExtractUrls(img.text), <<"nl">>)

Letters == {"a", "s", "b", "c", "S", "I", "i", "p", "n", "%"}

Basename(path) ==
  LET slashes == {i \in DOMAIN path : path[i] = "/"}
  IN  IF slashes = {} THEN path
      ELSE SubSeq(path, 1 + CHOOSE i \in slashes : \A j \in slashes : j <= i, Len(path))

Field(note, letter) ==
  LET orEmpty(text) == IF text = NoText THEN <<>> ELSE text
  IN  CASE letter = "a" -> note.appname
        [] letter = "s" -> note.summary
        [] letter = "b" -> note.body
        [] letter = "c" -> note.category
        [] letter = "S" -> orEmpty(note.stack_tag)
        [] letter = "I" -> Basename(orEmpty(note.iconname))
        [] letter = "i" -> orEmpty(note.iconname)
        [] letter = "p" -> IF note.progress = NoText THEN <<>>
                           ELSE <<"[">> \o note.progress \o <<"%", "]">>
        [] letter = "n" -> orEmpty(note.progress)
        [] letter = "%" -> <<"%">>

\* Only the body has a markup mode of its own.
ModeOf(note, letter) == IF letter = "b" THEN note.markup ELSE "no"

\* notification_init: the addresses first, then the format with its escapes read.
Begin ==
  /\ stage = "new"
  /\ stage' = "format"
  /\ urls' = UrlsOf(n)
  /\ msg' = StringReplaceAll(<<"\\t">>, <<" ">>, StringReplaceAll(<<"\\n">>, <<"nl">>, n.format))
  /\ needle' = 1
  /\ UNCHANGED <<n, text_to_render, shown>>

\* notification_replace_single_field: the needle moves past what was put in.
ReplaceSingleField_ReadsAgain(at, repl) ==
  /\ msg' = StringReplaceAt(msg, at, 2, repl)
  /\ needle' = at + (IF repl = <<"%">> THEN 1 ELSE 0)

ReplaceSingleField(at, repl) ==
  /\ msg' = StringReplaceAt(msg, at, 2, repl)
  /\ needle' = at + Len(repl)

\* A letter that means nothing, or a % at the end, is left as it is.
SkipFormatter(at) == needle' = at + 1 /\ UNCHANGED msg

FormatStep ==
  /\ stage = "format"
  /\ LET at == Find(msg, <<"%">>, needle)
     IN  /\ at # 0
         /\ IF at < Len(msg) /\ msg[at + 1] \in Letters
              THEN ReplaceSingleField(at,
                     MarkupTransform(Field(n, msg[at + 1]), ModeOf(n, msg[at + 1]), n.ignore_newline))
              ELSE SkipFormatter(at)
  /\ UNCHANGED <<n, stage, urls, text_to_render, shown>>

Truncated(text) == SubSeq(text, 1, IF Len(text) > MaxChars THEN MaxChars ELSE Len(text))

FormatEnd ==
  /\ stage = "format"
  /\ Find(msg, <<"%">>, needle) = 0
  /\ msg' = Truncated(Chomp(msg))
  /\ stage' = "formatted"
  /\ UNCHANGED <<n, needle, urls, text_to_render, shown>>

\* notification_update_text_to_render: number of duplicates, actions and addresses before it ...
Indicators(note, found) ==
  LET count == note.dup_count > 0 /\ ~note.hide_duplicate_count
      marks == IF note.show_indicators
                 THEN (IF note.actions THEN <<"A">> ELSE <<>>)
                        \o (IF found # NoText THEN <<"U">> ELSE <<>>)
                 ELSE <<>>
  IN  IF ~count /\ marks = <<>> THEN <<>>
      ELSE <<"(">> \o (IF count THEN <<ToString(note.dup_count)>> ELSE <<>>) \o marks \o <<")", " ">>

\* ... and the age behind it.
AgeSuffix(note) ==
  LET h == note.age \div 3600
      m == (note.age \div 60) % 60
      s == note.age % 60
      parts == (IF h > 0 THEN <<ToString(h), "h", " ">> ELSE <<>>)
                 \o (IF h > 0 \/ m > 0 THEN <<ToString(m), "m", " ">> ELSE <<>>)
                 \o <<ToString(s), "s">>
  IN  IF note.show_age_threshold < 0 \/ note.age < note.show_age_threshold THEN <<>>
      ELSE <<" ", "(">> \o parts \o <<" ", "old", ")">>

UpdateTextToRender ==
  /\ stage = "formatted"
  /\ text_to_render' = Indicators(n, urls) \o Chomp(msg) \o AgeSuffix(n)
  /\ stage' = "rendered"
  /\ UNCHANGED <<n, msg, needle, urls, shown>>

Opening == <<"<", "b", ">">>
Closing == <<"<", "/b", ">">>

\* Pango takes markup whose entities it knows and whose tags it knows and are nested ...
PangoTakes(text) ==
  LET is(tag, k) == Find(text, tag, k) = k
      takes[k \in 1..Len(text) + 3, depth \in 0..Len(text)] ==
        IF k > Len(text) THEN depth = 0
        ELSE IF text[k] = "&" THEN IsEntity(text, k) /\ takes[k + 2, depth]
        ELSE IF is(Opening, k) THEN takes[k + 3, depth + 1]
        ELSE IF is(Closing, k) THEN depth > 0 /\ takes[k + 3, depth - 1]
        ELSE text[k] # "<" /\ takes[k + 1, depth]
  IN  takes[1, 0]

\* ... and shows the letters it stands for.
PangoShows(text) ==
  LET shows[k \in 1..Len(text) + 3] ==
        IF k > Len(text) THEN <<>>
        ELSE IF text[k] = "&" THEN <<LetterOf[text[k + 1]]>> \o shows[k + 2]
        ELSE IF text[k] = "<" THEN shows[k + 3]
        ELSE <<text[k]>> \o shows[k + 1]
  IN  shows[1]

\* layout_from_notification: markup Pango does not take is stripped and shown plain.
LayoutText ==
  /\ stage = "rendered"
  /\ IF PangoTakes(text_to_render)
       THEN shown' = PangoShows(text_to_render) /\ UNCHANGED text_to_render
       ELSE /\ text_to_render' = MarkupStrip(text_to_render)
            /\ shown' = text_to_render'
  /\ stage' = "shown"
  /\ UNCHANGED <<n, msg, needle, urls>>

\* Time passes or a duplicate is stacked on it; the next drawing renders it anew.
GrowOlder(age) ==
  /\ stage = "shown" /\ age > n.age
  /\ n' = [n EXCEPT !.age = age]
  /\ stage' = "formatted"
  /\ UNCHANGED <<msg, needle, urls, text_to_render, shown>>

StackDuplicate ==
  /\ stage = "shown" /\ n.dup_count < MaxDups
  /\ n' = [n EXCEPT !.dup_count = @ + 1, !.age = 0]
  /\ stage' = "new"
  /\ UNCHANGED <<msg, needle, urls, text_to_render, shown>>

Init ==
  /\ n \in Notes
  /\ stage = "new" /\ needle = 1
  /\ msg = <<>> /\ urls = NoText /\ text_to_render = <<>> /\ shown = <<>>

Next ==
  \/ Begin \/ FormatStep \/ FormatEnd \/ UpdateTextToRender \/ LayoutText
  \/ \E age \in Ages : GrowOlder(age)
  \/ StackDuplicate

Spec == Init /\ [][Next]_vars

----------------------------------------------------------------------------
(* Properties.                                                             *)

\* The format with every letter replaced on its own, read from the left.
Expansion(format, text) ==
  LET expand[k \in 1..Len(format) + 2] ==
        IF k > Len(format) THEN <<>>
        ELSE IF format[k] = "%" /\ k < Len(format) /\ format[k + 1] \in Letters
          THEN text[format[k + 1]] \o expand[k + 2]
        ELSE <<IF format[k] = "\\n" THEN "nl" ELSE IF format[k] = "\\t" THEN " " ELSE format[k]>>
               \o expand[k + 1]
  IN  expand[1]

\* Only the user's format is a format: a % in what a client wrote is never read as one, and
\* the message is the format with each formatter replaced on its own, however many there are.
FormatReadOnce ==
  [][stage = "format" /\ stage' = "formatted" =>
       msg' = Truncated(Chomp(Expansion(n.format,
                [c \in Letters |-> MarkupTransform(Field(n, c), ModeOf(n, c), n.ignore_newline)])))]_vars

\* Tags are closed and nested; what follows < is one of the tags clients use.
WellNested(text) ==
  LET closes == [c \in {"/a", "/b"} |-> IF c = "/a" THEN "a" ELSE "b"]
      nested[k \in 1..Len(text) + 1, open \in Seq({"a", "b"})] ==
        LET start == Find(text, <<"<">>, k)
            end   == Find(text, <<">">>, start)
            name  == text[start + 1]
        IN  IF start = 0 THEN open = <<>>
            ELSE /\ end # 0
                 /\ CASE name \in {"br", "br/", "img"} -> nested[end + 1, open]
                      [] name \in {"a", "b"} -> nested[end + 1, Append(open, name)]
                      [] name \in DOMAIN closes ->
                           open # <<>> /\ Last(open) = closes[name] /\ nested[end + 1, Front(open)]
                      [] OTHER -> FALSE
  IN  nested[1, <<>>]

WellFormed(note) == WellNested(note.body) /\ WellNested(note.summary)

\* Markup as its writer means it: an & that begins no entity is an &, a line break is a line
\* break, a link is what it encloses, other tags show nothing.  Where markup is shown, an
\* image is what describes it and a letter may be given by its number.
RECURSIVE Meant(_, _)
Meant(text, mode) ==
  LET image(k, end) ==
        LET alt == Value(SubSeq(text, k, end), "alt=", 1)
        IN  IF mode = "strip" THEN <<>>
            ELSE IF alt.at = 0 THEN <<"[", "image", "]">>
            ELSE Meant(Content(SubSeq(text, k, end), alt), mode)
      meant[k \in 1..Len(text) + 2] ==
        IF k > Len(text) THEN <<>>
        ELSE IF text[k] = "&" /\ IsEntity(text, k) /\ (mode = "full" \/ text[k + 1] # "#65;")
          THEN <<LetterOf[text[k + 1]]>> \o meant[k + 2]
        ELSE IF text[k] = "<"
          THEN LET end == Find(text, <<">">>, k)
               IN  (CASE text[k + 1] \in {"br", "br/"} -> <<"nl">>
                      [] text[k + 1] = "img" -> image(k, end)
                      [] OTHER -> <<>>) \o meant[end + 1]
        ELSE <<text[k]>> \o meant[k + 1]
  IN  meant[1]

MeantBy(note, letter) ==
  Newlines(IF letter = "b" /\ note.markup # "no" THEN Meant(note.body, note.markup)
           ELSE Field(note, letter),
           note.ignore_newline)

\* What the notification says reaches the screen: quoting, unquoting, escaping and stripping
\* and Pango's reading cancel out in every markup mode, for the text of well-formed markup.
ShownAsMeant ==
  [][stage' = "shown" /\ (n.markup = "no" \/ WellFormed(n)) /\ Len(msg) < MaxChars =>
       shown' = Indicators(n, urls)
                  \o Chomp(Expansion(Meant(n.format, "full"), [c \in Letters |-> MeantBy(n, c)]))
                  \o AgeSuffix(n)]_vars

\* dmenu is given the addresses a line each, and takes the line that is chosen for the
\* address: there are as many lines as addresses in what the client wrote, and each line
\* ends in one, whatever the links enclose.
OneLinePerAddress ==
  stage # "new" /\ WellFormed(n) =>
    LET text  == StringAppend(n.summary, n.body, <<" ">>)
        lines == IF urls = NoText THEN 0 ELSE 1 + Len(SelectSeq(urls, LAMBDA p : p = "nl"))
        ends  == {i \in DOMAIN urls : i = Len(urls) \/ urls[i + 1] = "nl"}
    IN  /\ lines = Len(SelectSeq(text, IsAddress))
        /\ lines > 0 => \A i \in ends : IsAddress(urls[i])
=============================================================================
