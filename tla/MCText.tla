------------------------------- MODULE MCText -------------------------------
(***************************************************************************)
(* Values of the constants of Text for the model checker.                  *)
(***************************************************************************)
EXTENDS Text

Bold(text) == <<"<", "b", ">">> \o text \o <<"<", "/b", ">">>
Link(text) == <<"<", "a", " ", "href=", "\"", "http://x", "\"", ">">> \o text \o <<"<", "/a", ">">>

Bodies ==
  { <<"100", "%", "s", " ", "%", "b">>,
    Bold(<<"x", "'">>) \o <<"&", "lt;", "\"", "nl", "y", "nl">>,
    <<"x", " ", "<", "3", " ", "&", " ", "y">>,
    Link(<<"[", "x", "nl", "y", "]">>) \o <<" ", "http://y">>,
    <<"<", "img", " ", "src=", "\"", "http://x", "\"", " ", "alt=", "\"", "x", "&", "amp;",
      "\"", "/", ">", "http://y">>,
    <<"<", "img", " ", "src=", "\"", "http://x", "\"", "/", ">", "<", "br", ">", "http://x">>,
    <<"&", "amp;", "lt;", " ", "&", "#65;", "&", "#;", "<", "br/", ">">>,
    <<"y", "<", "a", " ", "href=", "\"", "http://x">>,
    Bold(<<"x">>) \o <<"<", "3", "nl">>,
    <<>> }

Formats ==
  { Bold(<<"%", "s">>) \o <<"\\n", "%", "b">>,
    <<"%", "b", " ", "%", "p", "%", "q", "%">>,
    <<"%", "%", "a", "\\t", "%", "I", "%", "S", "%", "b", "%", "c", "%", "n", "%", "i">> }

Standard ==
  [ appname |-> <<"app">>, summary |-> <<"s", "&">>, body |-> <<>>, category |-> <<>>,
    stack_tag |-> NoText, iconname |-> NoText, progress |-> NoText, markup |-> "no",
    ignore_newline |-> FALSE, format |-> <<>>, dup_count |-> 0, actions |-> FALSE, age |-> 0,
    show_age_threshold |-> 60, show_indicators |-> TRUE, hide_duplicate_count |-> FALSE ]

Quiet ==
  [ Standard EXCEPT !.ignore_newline = TRUE, !.progress = <<"42">>, !.stack_tag = <<"t", "%", "s">>,
      !.iconname = <<"/", "dir", "/", "pic">>, !.actions = TRUE, !.show_age_threshold = -1,
      !.show_indicators = FALSE, !.hide_duplicate_count = TRUE, !.summary = <<>> ]

MCNotes ==
  { [base EXCEPT !.body = body, !.format = format, !.markup = mode, !.actions = TRUE] :
      base \in {Standard, Quiet}, body \in Bodies, format \in Formats,
      mode \in {"no", "strip", "full"} }
=============================================================================
