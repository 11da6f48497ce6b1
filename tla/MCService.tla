----------------------------- MODULE MCService -----------------------------
(***************************************************************************)
(* Values of the constants of Service for the model checker: small files,  *)
(* with sections that come again, values that cannot be read, and rules    *)
(* that look at what other rules change.                                   *)
(***************************************************************************)
EXTENDS Service

MCColours == {"#f00"}

(* The mail rule is put on top of the others by a change of urgency. *)
Base == << Comment,
  Header("mail"), Entry("category", Word("email")), Entry("urgency", Word("critical")),
  Header("global"), Entry("sort", Word("update")), Entry("format", Word("short")),
  Entry("history_length", Number(5)),
  BrokenHeader, Entry("format", Word("long")), BrokenEntry("sort"),
  Header("urgency_critical"), Entry("set_category", Word("im")), Entry("timeout", Time(5, "s")),
  Entry("category", Word("im")), Entry("icon", Word("alert")) >>

DropIn == << Entry("format", Word("nowhere")),
  Header("global"), Entry("sort", Word("sideways")), Entry("history_length", Word("many")),
  Header("mail"), Entry("urgency", Word("low")), Entry("set_transient", Word("Y")),
  Header("frame"), Entry("format", Word("old")),
  Header("later"), Entry("match_transient", Word("1")), Entry("set_category", Word("seen")) >>

Other == << Header("chat"), Entry("category", Word("im")), Entry("set_category", Word("email")),
  Entry("set_stack_tag", Word("chat")), Entry("script", Word("beep")),
  Header("global"), Entry("default_pause_level", Number(50)),
  Header("loud"), Entry("msg_urgency", Word("critical")), Entry("format", Word("loud")) >>

TooWide == << Header("global"), Entry("width", Pair(20, 10)) >>

OneDir(file, dropIns) == << [ dunstrc |-> Invalid, dropIns |-> <<TooWide>> ],
                            [ dunstrc |-> file, dropIns |-> dropIns ] >>

Disk(file, dropIns) ==
  [ dirs |-> OneDir(file, dropIns), files |-> ("a" :> Other @@ "b" :> DropIn @@ "bad" :> TooWide) ]

MCDisks == { Disk(Base, <<DropIn>>), Disk(Base, <<Other>>) }

MCArguments == { <<>>, <<"--config", "b", "-conf", "a">> }

MCPaths == { <<>>, <<"a">>, <<"bad", "a">> }

NoHints == [h \in Hint |-> Unset]

Plain == [ appname |-> "app", app_icon |-> Unset, timeout |-> -1, hints |-> NoHints ]
Mail  == [ Plain EXCEPT !.timeout = 3000, !.hints["category"] = "email" ]
Chat  == [ Plain EXCEPT !.timeout = 4000, !.hints["category"] = "im", !.hints["urgency"] = 7,
                        !.hints["synchronous"] = "tag", !.hints["transient"] = 1,
                        !.hints["fgcolor"] = "#f00", !.hints["image-data"] = "raw" ]

MCMessages == {Plain, Mail, Chat}

MCPauseWords == {0, 60, 101, 200}
===========================================================================
