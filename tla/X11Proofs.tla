----------------------------- MODULE X11Proofs -----------------------------
(***************************************************************************)
(* The X11 output for every value of the constants: it draws on a monitor  *)
(* it knows of, leaves no part of its window undrawn, and takes shortcuts  *)
(* from other programs only while they are of use.                         *)
(***************************************************************************)
EXTENDS X11, SequenceLemmas

(* Other clients grab a combination as dunst does, with and without the    *)
(* lock, or not at all.                                                    *)
AllOrNone == Rivals \subseteq { {}, Lock }

Typed(w, s) ==
  /\ w \in Window /\ s \in Server
  /\ w.screens # <<>> /\ s.monitors # <<>>

(* A part that is not drawn is on the screen, and dunst will be told.      *)
Drawn(w, s) ==
  /\ s.mapped = w.visible
  /\ s.blank => w.visible /\ "expose" \in ToSet(s.events)

Whole(s) ==
  \A k \in Shortcuts : <<k, "plain">> \in s.rivals <=> <<k, "numlock">> \in s.rivals

Matches(w, s) ==
  s.grabs = { c \in Combination : c[1] \in w.valid /\ (c[1] = "history" \/ w.visible) }

Agree(w, s) ==
  /\ Typed(w, s) /\ Drawn(w, s)
  /\ AllOrNone => Whole(s) /\ Matches(w, s)

X11Inv == settings \in UserSettings /\ Agree(x, server)

---------------------------------------------------------------------------
(* Monitors                                                                *)

(* get_active_screen finds a screen whenever there is one. *)
LEMMA ActiveScreenExists ==
  ASSUME NEW set, NEW s, NEW screens \in Seq(Screen), screens # <<>>
  PROVE  /\ ActiveScreen(set, s, screens) \in 1..Len(screens)
         /\ screens[ActiveScreen(set, s, screens)] \in Screen
<1> DEFINE n == Len(screens)
           F == { i \in DOMAIN screens :
                    set.monitor = i - 1 \/ set.monitor = screens[i].name }
           L == { i \in DOMAIN screens : screens[i].at = Point(set, s) }
<1>1. n \in Nat /\ DOMAIN screens = 1..n /\ n # 0  BY Elements, EmptySeq
<1>2. F \in SUBSET (1..n) /\ L \in SUBSET (1..n)  BY <1>1
<1>3. \A i \in 1..n : screens[i] \in Screen  BY <1>1, ElementOfSeq
<1> HIDE DEF n, F, L
<1>4. FirstOr1(F) \in 1..n
  <2>1. CASE F = {}  BY <2>1, <1>1 DEF FirstOr1
  <2>2. CASE F # {}
    <3>1. F \in SUBSET Nat  BY <1>1, <1>2
    <3>2. Min(F) \in F /\ \A i \in F : Min(F) <= i  BY <2>2, <3>1, MinExists
    <3>3. \E i \in F : \A j \in F : i <= j  BY <3>2
    <3> QED  BY <2>2, <3>3, <1>2 DEF FirstOr1
  <2> QED  BY <2>1, <2>2
<1>5. LastOr1(L) \in 1..n
  <2>1. CASE L = {}  BY <2>1, <1>1 DEF LastOr1
  <2>2. CASE L # {}
    <3>1. \E i \in L : \A j \in L : j <= i  BY <2>2, <1>1, <1>2, MaxExists
    <3> QED  BY <2>2, <3>1, <1>2 DEF LastOr1
  <2> QED  BY <2>1, <2>2
<1>6. ActiveScreen(set, s, screens) \in 1..n
  BY <1>4, <1>5 DEF ActiveScreen, F, L
<1> QED  BY <1>3, <1>6 DEF n

LEMMA ScreensFound ==
  ASSUME NEW s \in Server, s.monitors # <<>>, NEW how
  PROVE  Screens(s, how) \in Seq(Screen) /\ Screens(s, how) # <<>>
<1> DEFINE ms == s.monitors
           n  == Len(ms)
<1>1. ms \in Seq(Monitors) /\ s.xft \in Dpis  BY DEF Server
<1>2. n \in Nat /\ n # 0 /\ DOMAIN ms = 1..n  BY <1>1, Elements, EmptySeq
<1>3. \A i \in 1..n : ms[i] \in Monitors  BY <1>1, <1>2, ElementOfSeq
<1> HIDE DEF ms, n
<1>4. /\ [i \in DOMAIN ms |-> [name |-> ms[i], dpi |-> s.xft, at |-> ms[i]]]
           \in [1..n -> Screen]
      /\ [i \in DOMAIN ms |-> [name |-> Nowhere, dpi |-> 0, at |-> ms[i]]]
           \in [1..n -> Screen]
  BY <1>1, <1>2, <1>3 DEF Screen
<1>5. \A f \in [1..n -> Screen] : f \in Seq(Screen) /\ f # <<>>
  <2> TAKE f \in [1..n -> Screen]
  <2>1. f \in Seq(Screen)  BY <1>2, SeqDef
  <2>2. Len(f) = n  BY <1>2, <2>1, LenProperties
  <2> QED  BY <1>2, <2>1, <2>2, EmptySeq
<1>6. /\ Head(ms) \in Monitors
      /\ [name |-> Nowhere, dpi |-> 0, at |-> Head(ms)] \in Screen
  <2>1. Head(ms) \in Monitors  BY <1>1, <1>2, HeadTailProperties, EmptySeq DEF n
  <2> QED  BY <2>1 DEF Screen
<1>7. /\ <<[name |-> Nowhere, dpi |-> 0, at |-> Head(ms)]>> \in Seq(Screen)
      /\ <<[name |-> Nowhere, dpi |-> 0, at |-> Head(ms)]>> # <<>>
  BY <1>6
<1> QED  BY <1>4, <1>5, <1>7 DEF Screens, ms

---------------------------------------------------------------------------
(* What the operations do                                                  *)

(* Only the place and the scale of the window change when it is drawn. *)
SameWindow(w2, w) ==
  /\ w2.visible = w.visible /\ w2.valid = w.valid /\ w2.screens = w.screens

LEMMA DrawKeeps ==
  ASSUME NEW w \in Window, w.screens # <<>>, NEW s
  PROVE  Draw(w, s) \in Window /\ SameWindow(Draw(w, s), w)
<1> DEFINE screen == w.screens[ActiveScreen(settings', s, w.screens)]
<1>1. w.screens \in Seq(Screen)  BY DEF Window
<1>2. screen \in Screen  BY <1>1, ActiveScreenExists
<1>3. screen.at \in Monitors /\ screen.dpi \in Dpis \cup {0}
  BY <1>2 DEF Screen
<1> HIDE DEF screen
<1>4. [w EXCEPT !.at = screen.at, !.dpi = screen.dpi] \in Window
  BY <1>3 DEF Window
<1>5. SameWindow([w EXCEPT !.at = screen.at, !.dpi = screen.dpi], w)
  BY DEF Window, SameWindow
<1> QED  BY <1>4, <1>5 DEF Draw, screen

(* A window that is drawn in full agrees with the server if it did before, *)
(* or if only the drawing was missing.                                     *)
LEMMA DrawAgrees ==
  ASSUME NEW w, NEW s, Typed(w, s), s.mapped = w.visible,
         AllOrNone => Whole(s) /\ Matches(w, s)
  PROVE  Agree(Draw(w, s), [s EXCEPT !.blank = FALSE])
<1> DEFINE d == Draw(w, s)
           t == [s EXCEPT !.blank = FALSE]
<1>1. w \in Window /\ s \in Server /\ w.screens # <<>> /\ s.monitors # <<>>
  BY DEF Typed
<1>2. d \in Window /\ SameWindow(d, w)  BY <1>1, DrawKeeps
<1>3. /\ t \in Server /\ t.monitors = s.monitors /\ ~t.blank
      /\ t.mapped = s.mapped /\ t.rivals = s.rivals /\ t.grabs = s.grabs
  BY <1>1 DEF Server
<1> HIDE DEF d, t
<1>4. Typed(d, t)  BY <1>1, <1>2, <1>3 DEF Typed, SameWindow
<1>5. Drawn(d, t)  BY <1>2, <1>3 DEF Drawn, SameWindow
<1>6. AllOrNone => Whole(t) /\ Matches(d, t)
  BY <1>2, <1>3 DEF Whole, Matches, SameWindow
<1> QED  BY <1>4, <1>5, <1>6 DEF Agree, d, t

(* One event is one element more. *)
LEMMA EventAppended ==
  ASSUME NEW es \in Seq(Event), NEW e \in Event
  PROVE  Append(es, e) \in Seq(Event) /\ e \in ToSet(Append(es, e))
<1> DEFINE t == Append(es, e)
           n == Len(es)
<1>1. t \in Seq(Event) /\ Len(t) = n + 1 /\ t[n + 1] = e  BY AppendProperties
<1>2. n \in Nat  BY LenProperties
<1> HIDE DEF t, n
<1>3. n + 1 \in 1..Len(t)  BY <1>1, <1>2
<1>4. ToSet(t) = { t[j] : j \in 1..Len(t) }  BY <1>1, Elements
<1>5. e \in ToSet(t)  BY <1>1, <1>3, <1>4
<1> QED  BY <1>1, <1>5 DEF t

(* x_win_show takes what a visible window needs, and asks to be drawn. *)
LEMMA ShowAgrees ==
  ASSUME NEW w, NEW s, Agree(w, s)
  PROVE  Agree(Show(w, s)[1], Show(w, s)[2])
<1>1. CASE w.visible
  <2>1. Show(w, s) = <<w, s>>  BY <1>1 DEF Show
  <2> QED  BY <2>1
<1>2. CASE ~w.visible
  <2> DEFINE tried == WindowKeys \cap w.valid
             valid == { k \in w.valid : k \notin tried \/ ~Refused(s, k) }
             grabs == s.grabs \cup ((tried \X Lock) \ s.rivals)
             es == IF "expose" \in ToSet(s.events) THEN s.events
                   ELSE Append(s.events, "expose")
             v == [[w EXCEPT !.valid = valid] EXCEPT !.visible = TRUE]
             t == [[s EXCEPT !.grabs = grabs] EXCEPT
                     !.mapped = TRUE, !.blank = TRUE, !.events = es]
  <2>1. w \in Window /\ s \in Server /\ w.screens # <<>> /\ s.monitors # <<>>
    BY DEF Agree, Typed
  <2>2. w.valid \in SUBSET Shortcuts /\ s.grabs \in SUBSET Combination
        /\ s.events \in Seq(Event)
    BY <2>1 DEF Window, Server
  <2>3. valid \in SUBSET Shortcuts  BY <2>2
  <2>4. grabs \in SUBSET Combination  BY <2>2 DEF Combination
  <2>5. es \in Seq(Event) /\ "expose" \in ToSet(es)
    <3>1. "expose" \in Event  BY DEF Event
    <3> QED  BY <2>2, <3>1, EventAppended
  <2>6. Show(w, s) = <<v, t>>
    <3>1. Grab(w, s, WindowKeys)
            = <<[w EXCEPT !.valid = valid], [s EXCEPT !.grabs = grabs]>>
      BY DEF Grab
    <3>2. [s EXCEPT !.grabs = grabs].events = s.events  BY <2>1 DEF Server
    <3> DEFINE g == Grab(w, s, WindowKeys)
    <3>3. Show(w, s)
            = <<[g[1] EXCEPT !.visible = TRUE],
                [g[2] EXCEPT !.mapped = TRUE, !.blank = TRUE,
                   !.events = IF "expose" \in ToSet(@) THEN @
                              ELSE Append(@, "expose")]>>
      BY <1>2, Zenon DEF Show
    <3> HIDE DEF valid, grabs, g
    <3>4. g[1] = [w EXCEPT !.valid = valid] /\ g[2] = [s EXCEPT !.grabs = grabs]
      BY <3>1 DEF g
    <3> QED  BY <3>2, <3>3, <3>4
  <2> HIDE DEF es, valid, grabs
  <2>7. /\ v \in Window /\ v.visible /\ v.valid = valid /\ v.screens = w.screens
        /\ t \in Server /\ t.monitors = s.monitors /\ t.mapped /\ t.events = es
        /\ t.rivals = s.rivals /\ t.grabs = grabs
    BY <2>1, <2>3, <2>4, <2>5 DEF Window, Server
  <2>8. v.visible = TRUE /\ t.mapped = TRUE  BY <2>1 DEF Window, Server
  <2> HIDE DEF v, t
  <2>9. Typed(v, t)  BY <2>1, <2>7 DEF Typed
  <2>10. Drawn(v, t)  BY <2>5, <2>7, <2>8 DEF Drawn
  <2>11. ASSUME AllOrNone PROVE Whole(t) /\ Matches(v, t)
    <3>1. Whole(s) /\ Matches(w, s)  BY <2>11 DEF Agree
    <3>2. Whole(t)  BY <3>1, <2>7 DEF Whole
    <3>3. \A k \in tried : ~Refused(s, k)
            => <<k, "plain">> \notin s.rivals /\ <<k, "numlock">> \notin s.rivals
      BY DEF Refused, Lock
    <3>4. \A k \in tried : Refused(s, k)
            => <<k, "plain">> \in s.rivals /\ <<k, "numlock">> \in s.rivals
      BY <3>1, <2>2 DEF Refused, Lock, Whole
    <3>5. grabs = { c \in Combination : c[1] \in valid }
      <4>1. ASSUME NEW c \in Combination
            PROVE  c \in grabs <=> c[1] \in valid
        <5>1. PICK k \in Shortcuts, l \in Lock : c = <<k, l>>
          BY DEF Combination
        <5>2. c \in s.grabs <=> k \in w.valid /\ k = "history"
          BY <3>1, <5>1, <1>2 DEF Matches
        <5>3. c \in tried \X Lock <=> k \in tried  BY <5>1
        <5>4. k \in tried => (c \notin s.rivals <=> ~Refused(s, k))
          BY <5>1, <3>3, <3>4 DEF Lock
        <5>5. k \in tried <=> k \in w.valid /\ k # "history"
          BY <5>1 DEF WindowKeys
        <5>6. k \in valid <=> k \in w.valid /\ (k \notin tried \/ ~Refused(s, k))
          BY DEF valid
        <5>7. c \in grabs <=> c \in s.grabs \/ (k \in tried /\ c \notin s.rivals)
          BY <5>3 DEF grabs
        <5>8. c[1] = k  BY <5>1
        <5> QED  BY <5>2, <5>4, <5>5, <5>6, <5>7, <5>8
      <4> QED  BY <4>1, <2>4
    <3>6. Matches(v, t)  BY <3>5, <2>7 DEF Matches
    <3> QED  BY <3>2, <3>6
  <2> QED  BY <2>6, <2>9, <2>10, <2>11 DEF Agree
<1> QED  BY <1>1, <1>2

(* x_win_hide gives back what only a visible window needs. *)
LEMMA HideAgrees ==
  ASSUME NEW w, NEW s, Agree(w, s)
  PROVE  Agree(Hide(w, s)[1], Hide(w, s)[2])
<1>1. CASE ~w.visible
  <2>1. Hide(w, s) = <<w, s>>  BY <1>1 DEF Hide
  <2> QED  BY <2>1
<1>2. CASE w.visible
  <2> DEFINE grabs == s.grabs \ ((WindowKeys \cap w.valid) \X Lock)
             v == [w EXCEPT !.visible = FALSE]
             t == [[s EXCEPT !.grabs = grabs] EXCEPT
                     !.mapped = FALSE, !.blank = FALSE]
  <2>1. w \in Window /\ s \in Server /\ w.screens # <<>> /\ s.monitors # <<>>
    BY DEF Agree, Typed
  <2>2. grabs \in SUBSET Combination  BY <2>1 DEF Server
  <2>3. Hide(w, s) = <<v, t>>  BY <1>2 DEF Hide, Ungrab
  <2> HIDE DEF grabs
  <2>4. /\ v \in Window /\ v.visible = FALSE /\ v.valid = w.valid
        /\ v.screens = w.screens
        /\ t \in Server /\ t.monitors = s.monitors /\ t.mapped = FALSE
        /\ t.blank = FALSE /\ t.rivals = s.rivals /\ t.grabs = grabs
    BY <2>1, <2>2 DEF Window, Server
  <2> HIDE DEF v, t
  <2>5. Typed(v, t) /\ Drawn(v, t)  BY <2>1, <2>4 DEF Typed, Drawn
  <2>6. ASSUME AllOrNone PROVE Whole(t) /\ Matches(v, t)
    <3>1. Whole(s) /\ Matches(w, s)  BY <2>6 DEF Agree
    <3>2. Whole(t)  BY <3>1, <2>4 DEF Whole
    <3>3. \A c \in Combination : c \in grabs
            <=> c[1] \in w.valid /\ c[1] = "history"
      BY <3>1, <1>2 DEF Matches, grabs, Combination, WindowKeys
    <3>4. Matches(v, t)  BY <3>3, <2>2, <2>4 DEF Matches
    <3> QED  BY <3>2, <3>4
  <2> QED  BY <2>3, <2>5, <2>6 DEF Agree
<1> QED  BY <1>1, <1>2

(* x_setup: whatever the output knew before, it starts with all monitors,  *)
(* no window and only the shortcut for history.                            *)
LEMMA SetupAgrees ==
  ASSUME NEW w \in Window, NEW s \in Server, s.monitors # <<>>, NEW how,
         AllOrNone => Whole(s)
  PROVE  Agree(Setup(w, s, how)[1], Setup(w, s, how)[2])
<1> DEFINE valid == { k \in Shortcuts : ~Refused(s, k) }
           left  == { c \in Combination \ s.rivals :
                        c[1] \in valid => c[1] = "history" }
           screens == Screens(s, how)
           v == [w EXCEPT !.visible = FALSE, !.cur_screen = 1, !.valid = valid,
                          !.at = Nowhere, !.dpi = 0, !.screens = screens]
           t == [s EXCEPT !.grabs = left, !.events = <<>>, !.mapped = FALSE,
                          !.blank = FALSE]
<1>1. Setup(w, s, how) = <<v, t>>  BY DEF Setup
<1>2. screens \in Seq(Screen) /\ screens # <<>>  BY ScreensFound
<1>3. valid \in SUBSET Shortcuts /\ left \in SUBSET Combination  OBVIOUS
<1>4. <<>> \in Seq(Event)  OBVIOUS
<1> HIDE DEF valid, left, screens
<1>5. /\ v \in Window /\ v.visible = FALSE /\ v.valid = valid
      /\ v.screens = screens
  BY <1>2, <1>3 DEF Window
<1>6. /\ t \in Server /\ t.monitors = s.monitors /\ t.mapped = FALSE
      /\ t.blank = FALSE /\ t.rivals = s.rivals /\ t.grabs = left
  BY <1>3, <1>4 DEF Server
<1> HIDE DEF v, t
<1>7. Typed(v, t) /\ Drawn(v, t)  BY <1>2, <1>5, <1>6 DEF Typed, Drawn
<1>8. ASSUME AllOrNone PROVE Whole(t) /\ Matches(v, t)
  <2>1. Whole(s)  BY <1>8
  <2>2. Whole(t)  BY <2>1, <1>6 DEF Whole
  <2>3. ASSUME NEW c \in Combination
        PROVE  c \in left <=> c[1] \in valid /\ c[1] = "history"
    <3>1. PICK k \in Shortcuts, l \in Lock : c = <<k, l>>  BY DEF Combination
    <3>2. c[1] = k  BY <3>1
    <3>3. c \in s.rivals <=> Refused(s, k)
      BY <3>1, <2>1 DEF Whole, Refused, Lock
    <3>4. k \in valid <=> ~Refused(s, k)  BY DEF valid
    <3>5. c \in left <=> c \notin s.rivals /\ (k \in valid => k = "history")
      BY <3>2 DEF left
    <3> QED  BY <3>2, <3>3, <3>4, <3>5
  <2>4. Matches(v, t)  BY <2>3, <1>3, <1>5, <1>6 DEF Matches
  <2> QED  BY <2>2, <2>4
<1> QED  BY <1>1, <1>7, <1>8 DEF Agree

(* run draws and shows the window, or hides it. *)
LEMMA RunAgrees ==
  ASSUME NEW w, NEW s, Agree(w, s), Run(w, s)
  PROVE  Agree(x', server')
<1>1. Typed(w, s) /\ s.mapped = w.visible
  BY DEF Agree, Drawn
<1>2. AllOrNone => Whole(s) /\ Matches(w, s)  BY DEF Agree
<1> DEFINE d == Draw(w, s)
           t == [s EXCEPT !.blank = FALSE]
<1>3. Agree(d, t)  BY <1>1, <1>2, DrawAgrees
<1> HIDE DEF d, t
<1>4. \/ x' = Show(d, t)[1] /\ server' = Show(d, t)[2]
      \/ x' = Hide(w, s)[1] /\ server' = Hide(w, s)[2]
  BY DEF Run, d, t
<1>5. CASE x' = Show(d, t)[1] /\ server' = Show(d, t)[2]
  BY <1>3, <1>5, ShowAgrees
<1>6. CASE x' = Hide(w, s)[1] /\ server' = Hide(w, s)[2]
  BY <1>6, HideAgrees
<1> QED  BY <1>4, <1>5, <1>6

(* What dunst has not read stays to be read. *)
LEMMA EventTaken ==
  ASSUME NEW es \in Seq(Event), es # <<>>
  PROVE  /\ Tail(es) \in Seq(Event)
         /\ \A e \in ToSet(es) : e # Head(es) => e \in ToSet(Tail(es))
<1> DEFINE t == Tail(es)
           n == Len(es)
<1>1. t \in Seq(Event) /\ Narrowed(es, t, 1) /\ n \in Nat \ {0}
  BY TailNarrowed, EmptySeq, LenProperties
<1>2. Head(es) = es[1]  OBVIOUS
<1>3. ToSet(es) = { es[j] : j \in 1..n }  BY Elements
<1>4. Len(t) = n - 1 /\ \A j \in 1..(n - 1) : t[j] = IF j < 1 THEN es[j] ELSE es[j + 1]
  BY <1>1 DEF Narrowed
<1> HIDE DEF t, n
<1>6. ToSet(t) = { t[j] : j \in 1..Len(t) }  BY <1>1, Elements
<1>5. ASSUME NEW e \in ToSet(es), e # Head(es) PROVE e \in ToSet(t)
  <2>1. PICK j \in 1..n : e = es[j]  BY <1>3
  <2>2. j # 1  BY <2>1, <1>2, <1>5
  <2>3. j - 1 \in 1..Len(t)  BY <1>1, <1>4, <2>1, <2>2
  <2>4. t[j - 1] = es[j]  BY <1>1, <1>4, <2>1, <2>2
  <2> QED  BY <2>1, <2>3, <2>4, <1>6
<1> QED  BY <1>1, <1>5 DEF t

LEMMA EventsConcatenated ==
  ASSUME NEW es \in Seq(Event), NEW fs \in Seq(Event)
  PROVE  /\ es \o fs \in Seq(Event)
         /\ ToSet(es) \cup ToSet(fs) \subseteq ToSet(es \o fs)
<1> DEFINE u == es \o fs
           m == Len(es)
           n == Len(fs)
<1>1. /\ u \in Seq(Event) /\ Len(u) = m + n
      /\ \A i \in 1..(m + n) : u[i] = IF i <= m THEN es[i] ELSE fs[i - m]
  BY ConcatProperties
<1>2. m \in Nat /\ n \in Nat  BY LenProperties
<1>3. ToSet(es) = { es[j] : j \in 1..m } /\ ToSet(fs) = { fs[j] : j \in 1..n }
  BY Elements
<1> HIDE DEF u, m, n
<1>8. ToSet(u) = { u[j] : j \in 1..Len(u) }  BY <1>1, Elements
<1>4. \A j \in 1..m : j \in 1..Len(u) /\ u[j] = es[j]  BY <1>1, <1>2
<1>5. \A j \in 1..n : (m + j) \in 1..Len(u) /\ u[m + j] = fs[j]
  <2> TAKE j \in 1..n
  <2>1. (m + j) \in 1..(m + n) /\ ~((m + j) <= m) /\ (m + j) - m = j  BY <1>2
  <2> QED  BY <2>1, <1>1
<1>6. ToSet(es) \subseteq ToSet(u)  BY <1>3, <1>4, <1>8
<1>7. ToSet(fs) \subseteq ToSet(u)
  <2>1. \A j \in 1..n : \E i \in 1..Len(u) : u[i] = fs[j]  BY <1>5
  <2> QED  BY <2>1, <1>3, <1>8
<1> QED  BY <1>1, <1>6, <1>7 DEF u

---------------------------------------------------------------------------
(* The steps                                                               *)

(* v is w with other screens, or with what is known of the focus. *)
LEMMA WindowChanged ==
  ASSUME NEW w, NEW s, Agree(w, s), NEW v \in Window,
         v.visible = w.visible, v.valid = w.valid, v.screens # <<>>
  PROVE  Agree(v, s)
BY DEF Agree, Typed, Drawn, Matches

(* An event is taken that does not ask for the window to be drawn. *)
LEMMA ReadKeeps ==
  ASSUME Agree(x, server), server.events # <<>>
  PROVE  /\ Typed(x, Read) /\ Read.mapped = x.visible
         /\ AllOrNone => Whole(Read) /\ Matches(x, Read)
         /\ Head(server.events) # "expose" \/ ~x.visible => Agree(x, Read)
<1> DEFINE rest == Tail(server.events)
<1>1. Typed(x, server) /\ Drawn(x, server)  BY DEF Agree
<1>2. server \in Server /\ server.events \in Seq(Event)
  BY <1>1 DEF Typed, Server
<1>3. /\ rest \in Seq(Event)
      /\ \A e \in ToSet(server.events) :
           e # Head(server.events) => e \in ToSet(rest)
  BY <1>2, EventTaken
<1> HIDE DEF rest
<1>4. Read = [server EXCEPT !.events = rest]  BY DEF Read, rest
<1>5. /\ Read \in Server /\ Read.events = rest /\ Read.monitors = server.monitors
      /\ Read.mapped = server.mapped /\ Read.blank = server.blank
      /\ Read.rivals = server.rivals /\ Read.grabs = server.grabs
  BY <1>2, <1>3, <1>4 DEF Server
<1>6. Typed(x, Read) /\ Read.mapped = x.visible
  BY <1>1, <1>5 DEF Typed, Drawn
<1>7. AllOrNone => Whole(Read) /\ Matches(x, Read)
  BY <1>5 DEF Agree, Whole, Matches
<1>8. ASSUME Head(server.events) # "expose" \/ ~x.visible PROVE Drawn(x, Read)
  BY <1>1, <1>3, <1>5, <1>8 DEF Drawn
<1> QED  BY <1>6, <1>7, <1>8 DEF Agree

(* Whatever draws for an event leaves nothing undrawn. *)
LEMMA RedrawAgrees ==
  ASSUME NEW w, Typed(w, Read), Read.mapped = w.visible,
         AllOrNone => Whole(Read) /\ Matches(w, Read),
         Redraw(w, Read)
  PROVE  Agree(x', server')
<1>1. Agree(Draw(w, Read), [Read EXCEPT !.blank = FALSE])  BY DrawAgrees
<1>2. x' = Draw(w, Read) /\ server' = [Read EXCEPT !.blank = FALSE]
  BY DEF Redraw
<1> QED  BY <1>1, <1>2

LEMMA EventAgrees ==
  ASSUME Agree(x, server), HandleEvent
  PROVE  Agree(x', server')
<1>1. CASE HandleExpose
  <2>1. server.events # <<>>  BY <1>1 DEF HandleExpose, Reading
  <2>2. CASE x.visible /\ Reading("expose")
    <3>1. Redraw(x, Read)  BY <1>1, <2>2 DEF HandleExpose
    <3> QED  BY <2>1, <3>1, ReadKeeps, RedrawAgrees
  <2>3. CASE ~(x.visible /\ Reading("expose"))
    <3>1. x' = x /\ server' = Read  BY <1>1, <2>3 DEF HandleExpose, Nothing
    <3>2. Head(server.events) # "expose" \/ ~x.visible
      BY <2>1, <2>3 DEF Reading
    <3> QED  BY <2>1, <3>1, <3>2, ReadKeeps
  <2> QED  BY <2>2, <2>3
<1>2. CASE HandleFocus
  <2> DEFINE i == ActiveScreen(settings, server, x.screens)
             v == [x EXCEPT !.fullscreen_last = server.fullscreen]
             u == [x EXCEPT !.cur_screen = i]
  <2>1. server.events # <<>> /\ Head(server.events) = "focus"
    BY <1>2 DEF HandleFocus, Reading
  <2>2. Typed(x, Read) /\ Read.mapped = x.visible /\ Agree(x, Read)
    BY <2>1, ReadKeeps
  <2>3. x \in Window /\ x.screens # <<>> /\ server \in Server
    BY DEF Agree, Typed
  <2>4. i \in Nat
    <3>1. x.screens \in Seq(Screen)  BY <2>3 DEF Window
    <3>2. i \in 1..Len(x.screens)  BY <2>3, <3>1, ActiveScreenExists
    <3> QED  BY <3>2
  <2> HIDE DEF i
  <2>5. /\ v \in Window /\ v.visible = x.visible /\ v.valid = x.valid
        /\ v.screens = x.screens
    BY <2>3 DEF Window, Server
  <2>6. /\ u \in Window /\ u.visible = x.visible /\ u.valid = x.valid
        /\ u.screens = x.screens
    BY <2>3, <2>4 DEF Window
  <2>7. \/ Run(v, Read) \/ Redraw(u, Read) \/ Nothing(x, Read)
    BY <1>2 DEF HandleFocus, i
  <2> HIDE DEF u, v
  <2>8. Agree(v, Read) /\ Agree(u, Read)
    BY <2>2, <2>3, <2>5, <2>6, WindowChanged
  <2>9. CASE Run(v, Read)  BY <2>8, <2>9, RunAgrees
  <2>10. CASE Redraw(u, Read)
    <3>1. Typed(u, Read) /\ Read.mapped = u.visible
      BY <2>8 DEF Agree, Drawn
    <3>2. AllOrNone => Whole(Read) /\ Matches(u, Read)  BY <2>8 DEF Agree
    <3> QED  BY <2>10, <3>1, <3>2, RedrawAgrees
  <2>11. CASE Nothing(x, Read)  BY <2>2, <2>11 DEF Nothing
  <2> QED  BY <2>7, <2>9, <2>10, <2>11
<1>3. CASE HandleResource
  <2>1. server.events # <<>> /\ Head(server.events) = "resource"
    BY <1>3 DEF HandleResource, Reading
  <2>2. Redraw(x, Read) \/ Nothing(x, Read)  BY <1>3 DEF HandleResource
  <2>3. CASE Redraw(x, Read)  BY <2>1, <2>3, ReadKeeps, RedrawAgrees
  <2>4. CASE Nothing(x, Read)  BY <2>1, <2>4, ReadKeeps DEF Nothing
  <2> QED  BY <2>2, <2>3, <2>4
<1>4. CASE HandleRandr
  <2> DEFINE screens == Screens(server, settings.enumeration)
             v == [x EXCEPT !.screens = screens]
  <2>1. server.events # <<>> /\ Head(server.events) = "randr"
    BY <1>4 DEF HandleRandr, Reading
  <2>2. x \in Window /\ server \in Server /\ server.monitors # <<>>
    BY DEF Agree, Typed
  <2>3. screens \in Seq(Screen) /\ screens # <<>>  BY <2>2, ScreensFound
  <2>4. x' = v /\ server' = Read  BY <1>4 DEF HandleRandr, Nothing
  <2> HIDE DEF screens
  <2>5. /\ v \in Window /\ v.visible = x.visible /\ v.valid = x.valid
        /\ v.screens # <<>>
    BY <2>2, <2>3 DEF Window
  <2>6. Agree(x, Read)  BY <2>1, ReadKeeps
  <2> HIDE DEF v
  <2>7. Agree(v, Read)  BY <2>5, <2>6, WindowChanged
  <2> QED  BY <2>4, <2>7
<1>5. CASE HandleInput
  <2>1. server.events # <<>> /\ Head(server.events) = "input"
    BY <1>5 DEF HandleInput, Reading
  <2>2. Run(x, Read) \/ Nothing(x, Read)  BY <1>5 DEF HandleInput
  <2>3. Agree(x, Read)  BY <2>1, ReadKeeps
  <2> QED  BY <2>2, <2>3, RunAgrees DEF Nothing
<1> QED  BY <1>1, <1>2, <1>3, <1>4, <1>5 DEF HandleEvent

(* The server says es to dunst; s is what has become of it. *)
LEMMA SaysAgrees ==
  ASSUME NEW s, NEW es \in Seq(Event), Says(s, es),
         Typed(x, s), s.mapped = x.visible,
         s.blank => x.visible /\ "expose" \in ToSet(s.events) \cup ToSet(es),
         AllOrNone => Whole(s) /\ Matches(x, s)
  PROVE  Agree(x', server')
<1> DEFINE all == s.events \o es
           t == [s EXCEPT !.events = all]
<1>1. s \in Server /\ s.events \in Seq(Event)  BY DEF Typed, Server
<1>2. /\ all \in Seq(Event)
      /\ ToSet(s.events) \cup ToSet(es) \subseteq ToSet(all)
  BY <1>1, EventsConcatenated
<1>3. x' = x /\ server' = t  BY DEF Says
<1> HIDE DEF all
<1>4. /\ t \in Server /\ t.events = all /\ t.monitors = s.monitors
      /\ t.mapped = s.mapped /\ t.blank = s.blank
      /\ t.rivals = s.rivals /\ t.grabs = s.grabs
  BY <1>1, <1>2 DEF Server
<1> HIDE DEF t
<1>5. Typed(x, t) /\ Drawn(x, t)  BY <1>2, <1>4 DEF Typed, Drawn
<1>6. AllOrNone => Whole(t) /\ Matches(x, t)  BY <1>4 DEF Whole, Matches
<1> QED  BY <1>3, <1>5, <1>6 DEF Agree

(* s differs from the server in what only dunst's questions find out. *)
LEMMA QuietChange ==
  ASSUME Agree(x, server), NEW s \in Server, s.monitors # <<>>,
         s.mapped = server.mapped, s.blank = server.blank,
         s.events = server.events, s.rivals = server.rivals,
         s.grabs = server.grabs, NEW es \in Seq(Event), Says(s, es)
  PROVE  Agree(x', server')
<1>1. Typed(x, s) /\ s.mapped = x.visible  BY DEF Agree, Typed, Drawn
<1>2. s.blank => x.visible /\ "expose" \in ToSet(s.events)
  BY DEF Agree, Drawn
<1>3. AllOrNone => Whole(s) /\ Matches(x, s)  BY DEF Agree, Whole, Matches
<1> QED  BY <1>1, <1>2, <1>3, SaysAgrees

LEMMA DesktopAgrees ==
  ASSUME Agree(x, server), DesktopChange
  PROVE  Agree(x', server')
<1>1. Typed(x, server) /\ Drawn(x, server)  BY DEF Agree
<1>2. /\ server \in Server /\ server.monitors # <<>>
      /\ server.monitors \in Seq(Monitors)
  BY <1>1 DEF Typed, Server
<1>3. ToSet(server.monitors) \subseteq Monitors  BY <1>2, Elements
<1>4. /\ <<>> \in Seq(Event) /\ <<"expose">> \in Seq(Event)
      /\ <<"more_exposed", "expose">> \in Seq(Event)
      /\ <<"focus">> \in Seq(Event) /\ <<"resource">> \in Seq(Event)
      /\ <<"randr">> \in Seq(Event) /\ <<"input">> \in Seq(Event)
  BY DEF Event
<1>5. CASE Exposed
  <2> DEFINE s == [server EXCEPT !.blank = TRUE]
  <2>1. PICK es \in { <<"expose">>, <<"more_exposed", "expose">> } : Says(s, es)
    BY <1>5 DEF Exposed
  <2>2. es \in Seq(Event)  BY <1>4, <2>1
  <2>3. "expose" \in ToSet(es)
    <3>1. "expose" \in ToSet(<<"expose">>)  BY DEF ToSet
    <3>2. "expose" \in ToSet(<<"more_exposed", "expose">>)  BY DEF ToSet
    <3> QED  BY <2>1, <3>1, <3>2
  <2>4. /\ s \in Server /\ s.monitors = server.monitors
        /\ s.mapped = server.mapped /\ s.rivals = server.rivals
        /\ s.grabs = server.grabs
    BY <1>2 DEF Server
  <2>5. server.mapped  BY <1>5 DEF Exposed
  <2> HIDE DEF s
  <2>6. Typed(x, s) /\ s.mapped = x.visible /\ x.visible
    BY <1>1, <2>4, <2>5 DEF Typed, Drawn
  <2>7. AllOrNone => Whole(s) /\ Matches(x, s)
    BY <2>4 DEF Agree, Whole, Matches
  <2> QED  BY <2>1, <2>2, <2>3, <2>6, <2>7, SaysAgrees
<1>6. CASE FocusMoves
  <2>1. PICK m \in ToSet(server.monitors) \cup {Nowhere}, full \in BOOLEAN :
          Says([server EXCEPT !.focus = m, !.fullscreen = full], <<"focus">>)
    BY <1>6 DEF FocusMoves
  <2>2. m \in Monitors \cup {Nowhere}  BY <1>3
  <2> DEFINE s == [server EXCEPT !.focus = m, !.fullscreen = full]
  <2>3. /\ s \in Server /\ s.monitors = server.monitors /\ s.mapped = server.mapped
        /\ s.blank = server.blank /\ s.events = server.events
        /\ s.rivals = server.rivals /\ s.grabs = server.grabs
    BY <1>2, <2>2 DEF Server
  <2> HIDE DEF s
  <2>4. Says(s, <<"focus">>)  BY <2>1 DEF s
  <2> QED  BY <1>2, <1>4, <2>3, <2>4, QuietChange
<1>7. CASE PointerMoves
  <2>1. PICK m \in ToSet(server.monitors) : Says([server EXCEPT !.pointer = m], <<>>)
    BY <1>7 DEF PointerMoves
  <2>2. m \in Monitors  BY <1>3
  <2> DEFINE s == [server EXCEPT !.pointer = m]
  <2>3. /\ s \in Server /\ s.monitors = server.monitors /\ s.mapped = server.mapped
        /\ s.blank = server.blank /\ s.events = server.events
        /\ s.rivals = server.rivals /\ s.grabs = server.grabs
    BY <1>2, <2>2 DEF Server
  <2> HIDE DEF s
  <2>4. Says(s, <<>>)  BY <2>1 DEF s
  <2> QED  BY <1>2, <1>4, <2>3, <2>4, QuietChange
<1>8. CASE ResourceChanges
  <2>1. PICK v \in Dpis : Says([server EXCEPT !.xft = v], <<"resource">>)
    BY <1>8 DEF ResourceChanges
  <2> DEFINE s == [server EXCEPT !.xft = v]
  <2>3. /\ s \in Server /\ s.monitors = server.monitors /\ s.mapped = server.mapped
        /\ s.blank = server.blank /\ s.events = server.events
        /\ s.rivals = server.rivals /\ s.grabs = server.grabs
    BY <1>2 DEF Server
  <2> HIDE DEF s
  <2>4. Says(s, <<"resource">>)  BY <2>1 DEF s
  <2> QED  BY <1>2, <1>4, <2>3, <2>4, QuietChange
<1>9. CASE MonitorsChange
  <2>1. PICK ms \in Layouts :
          \E es \in {<<>>, <<"randr">>} : Says([server EXCEPT !.monitors = ms], es)
    BY <1>9 DEF MonitorsChange
  <2>2. PICK es \in {<<>>, <<"randr">>} : Says([server EXCEPT !.monitors = ms], es)
    BY <2>1
  <2> DEFINE s == [server EXCEPT !.monitors = ms]
  <2>3. ms \in Seq(Monitors) /\ ms # <<>>  BY X11Assumption
  <2>4. /\ s \in Server /\ s.monitors = ms /\ s.mapped = server.mapped
        /\ s.blank = server.blank /\ s.events = server.events
        /\ s.rivals = server.rivals /\ s.grabs = server.grabs
    BY <1>2, <2>3 DEF Server
  <2> HIDE DEF s
  <2>5. Says(s, es) /\ es \in Seq(Event)  BY <2>2, <1>4 DEF s
  <2> QED  BY <2>3, <2>4, <2>5, QuietChange
<1>10. CASE RivalGrabs
  <2>1. PICK k \in Shortcuts, ls \in Rivals :
          Says([server EXCEPT !.rivals = @ \cup ({k} \X ls)], <<>>)
    BY <1>10 DEF RivalGrabs
  <2> DEFINE rivals == server.rivals \cup ({k} \X ls)
             s == [server EXCEPT !.rivals = rivals]
  <2>2. rivals \in SUBSET Combination
    <3>1. ls \subseteq Lock  BY X11Assumption
    <3>2. server.rivals \in SUBSET Combination  BY <1>2 DEF Server
    <3> QED  BY <3>1, <3>2 DEF Combination
  <2>3. AllOrNone /\ Whole(server) => Whole(s)
    <3>1. SUFFICES ASSUME AllOrNone, Whole(server), NEW j \in Shortcuts
                   PROVE  <<j, "plain">> \in rivals <=> <<j, "numlock">> \in rivals
      BY <1>2 DEF Whole, Server
    <3>2. ls = {} \/ ls = Lock  BY <3>1 DEF AllOrNone
    <3>3. "plain" \in ls <=> "numlock" \in ls  BY <3>2 DEF Lock
    <3>4. \A l : <<j, l>> \in {k} \X ls <=> j = k /\ l \in ls  OBVIOUS
    <3>5. \A l : <<j, l>> \in rivals <=>
                   <<j, l>> \in server.rivals \/ <<j, l>> \in {k} \X ls
      OBVIOUS
    <3> HIDE DEF rivals
    <3> QED  BY <3>1, <3>3, <3>4, <3>5 DEF Whole
  <2>4. Says(s, <<>>)  BY <2>1
  <2> HIDE DEF rivals
  <2>5. /\ s \in Server /\ s.monitors = server.monitors /\ s.mapped = server.mapped
        /\ s.blank = server.blank /\ s.events = server.events
        /\ s.rivals = rivals /\ s.grabs = server.grabs
    BY <1>2, <2>2 DEF Server
  <2> HIDE DEF s
  <2>6. Typed(x, s) /\ s.mapped = x.visible
    BY <1>1, <2>5 DEF Typed, Drawn
  <2>7. s.blank => x.visible /\ "expose" \in ToSet(s.events)
    BY <1>1, <2>5 DEF Drawn
  <2>8. AllOrNone => Whole(s) /\ Matches(x, s)
    BY <2>3, <2>5 DEF Agree, Matches
  <2> QED  BY <1>4, <2>4, <2>6, <2>7, <2>8, SaysAgrees
<1>11. CASE RivalReleases
  <2> DEFINE s == [server EXCEPT !.rivals = {}]
  <2>1. Says(s, <<>>)  BY <1>11 DEF RivalReleases
  <2>2. /\ s \in Server /\ s.monitors = server.monitors /\ s.mapped = server.mapped
        /\ s.blank = server.blank /\ s.events = server.events
        /\ s.rivals = {} /\ s.grabs = server.grabs
    BY <1>2 DEF Server
  <2> HIDE DEF s
  <2>3. Typed(x, s) /\ s.mapped = x.visible
    BY <1>1, <2>2 DEF Typed, Drawn
  <2>4. s.blank => x.visible /\ "expose" \in ToSet(s.events)
    BY <1>1, <2>2 DEF Drawn
  <2>5. AllOrNone => Whole(s) /\ Matches(x, s)
    BY <2>2 DEF Agree, Whole, Matches
  <2> QED  BY <1>4, <2>1, <2>3, <2>4, <2>5, SaysAgrees
<1>12. CASE Input
  <2>1. Says(server, <<"input">>)  BY <1>12 DEF Input
  <2> QED  BY <1>2, <1>4, <2>1, QuietChange
<1> QED  BY <1>5, <1>6, <1>7, <1>8, <1>9, <1>10, <1>11, <1>12 DEF DesktopChange

LEMMA X11Starts == X11Init => X11Inv
<1> SUFFICES ASSUME X11Init PROVE X11Inv  OBVIOUS
<1>1. PICK ms \in Layouts, v \in Dpis, ls \in Rivals, k \in Shortcuts :
        LET s == [ monitors |-> ms, xft |-> v, pointer |-> Head(ms), focus |-> Nowhere,
                   fullscreen |-> FALSE, rivals |-> {k} \X ls, grabs |-> {},
                   mapped |-> FALSE, blank |-> FALSE, events |-> <<>> ]
            r == Setup(NoWindow, s, settings.enumeration)
        IN x = r[1] /\ server = r[2]
  BY DEF X11Init
<1> DEFINE s == [ monitors |-> ms, xft |-> v, pointer |-> Head(ms), focus |-> Nowhere,
                  fullscreen |-> FALSE, rivals |-> {k} \X ls, grabs |-> {},
                  mapped |-> FALSE, blank |-> FALSE, events |-> <<>> ]
<1>2. ms \in Seq(Monitors) /\ ms # <<>>  BY X11Assumption
<1>3. Head(ms) \in Monitors  BY <1>2
<1>4. {k} \X ls \in SUBSET Combination  BY X11Assumption DEF Combination
<1>5. <<>> \in Seq(Event)  OBVIOUS
<1>6. s \in Server  BY <1>2, <1>3, <1>4, <1>5 DEF Server
<1>7. s.monitors = ms /\ s.rivals = {k} \X ls  OBVIOUS
<1>8. NoWindow \in Window
  <2>1. <<>> \in Seq(Screen)  OBVIOUS
  <2> QED  BY <2>1 DEF NoWindow, Window
<1>9. AllOrNone => Whole(s)
  <2>1. AllOrNone => ls = {} \/ ls = Lock  BY DEF AllOrNone
  <2>2. AllOrNone => ("plain" \in ls <=> "numlock" \in ls)  BY <2>1 DEF Lock
  <2> QED  BY <2>2, <1>7 DEF Whole
<1>10. /\ x = Setup(NoWindow, s, settings.enumeration)[1]
       /\ server = Setup(NoWindow, s, settings.enumeration)[2]
  BY <1>1
<1> HIDE DEF s
<1>11. Agree(x, server)  BY <1>2, <1>6, <1>7, <1>8, <1>9, <1>10, SetupAgrees
<1> QED  BY <1>11 DEF X11Init, X11Inv

LEMMA X11StepKeeps == X11Inv /\ [X11Next]_x11Vars => X11Inv'
<1> SUFFICES ASSUME X11Inv, [X11Next]_x11Vars PROVE X11Inv'  OBVIOUS
<1>1. Agree(x, server) /\ settings \in UserSettings  BY DEF X11Inv
<1>2. CASE HandleEvent
  <2>1. settings' = settings
    BY <1>2 DEF HandleEvent, HandleExpose, HandleFocus, HandleResource,
                HandleRandr, HandleInput, Still
  <2>2. Agree(x', server')  BY <1>1, <1>2, EventAgrees
  <2> QED  BY <1>1, <2>1, <2>2 DEF X11Inv, Agree, Typed, Drawn, Whole, Matches
<1>3. CASE QueuesChange \/ TimerFires
  <2>1. settings' = settings /\ Run(x, server)
    BY <1>3 DEF QueuesChange, TimerFires, Still
  <2>2. Agree(x', server')  BY <1>1, <2>1, RunAgrees
  <2> QED  BY <1>1, <2>1, <2>2 DEF X11Inv, Agree, Typed, Drawn, Whole, Matches
<1>4. CASE Reload
  <2> DEFINE r == Setup(x, server, settings'.enumeration)
  <2>1. settings' \in UserSettings /\ Run(r[1], r[2])  BY <1>4 DEF Reload
  <2>2. /\ x \in Window /\ server \in Server /\ server.monitors # <<>>
        /\ AllOrNone => Whole(server)
    BY <1>1 DEF Agree, Typed
  <2>3. Agree(r[1], r[2])  BY <2>2, SetupAgrees
  <2> HIDE DEF r
  <2>4. Agree(x', server')  BY <2>1, <2>3, RunAgrees
  <2> QED  BY <2>1, <2>4 DEF X11Inv, Agree, Typed, Drawn, Whole, Matches
<1>5. CASE DesktopChange
  <2>1. settings' = settings
    BY <1>5 DEF DesktopChange, Exposed, FocusMoves, PointerMoves, ResourceChanges,
                MonitorsChange, RivalGrabs, RivalReleases, Input, Says
  <2>2. Agree(x', server')  BY <1>1, <1>5, DesktopAgrees
  <2> QED  BY <1>1, <2>1, <2>2 DEF X11Inv, Agree, Typed, Drawn, Whole, Matches
<1>6. CASE UNCHANGED x11Vars
  BY <1>6 DEF x11Vars, X11Inv, Agree, Typed, Drawn, Whole, Matches
<1> QED  BY <1>2, <1>3, <1>4, <1>5, <1>6 DEF X11Next

LEMMA X11Invariant == X11Spec => []X11Inv
<1> QED  BY X11Starts, X11StepKeeps, PTL DEF X11Spec

---------------------------------------------------------------------------
(* The output keeps its type, and what dunst draws, shows and hides never  *)
(* leaves a window open that the server does not show: through monitors    *)
(* that come and go, reloads and events of before, it always knows of a    *)
(* monitor to draw on (draw, x_setup and RRScreenChangeNotify in x.c).     *)
THEOREM OutputKnowsMonitor ==
  X11Spec => [](Typed(x, server) /\ server.mapped = x.visible)
<1>1. X11Inv => Typed(x, server) /\ server.mapped = x.visible
  BY DEF X11Inv, Agree, Drawn
<1> QED  BY <1>1, X11Invariant, PTL

(* NoBlankWindow: with all events read, no part of a window on the screen  *)
(* is undrawn, although x_win_show draws nothing and Expose is answered    *)
(* only when no more of them follow: what is undrawn has an event coming.  *)
THEOREM WindowIsDrawn == X11Spec => []NoBlankWindow
<1>1. X11Inv => NoBlankWindow
  <2>1. ToSet(<<>>) = {}  BY NoElements
  <2> QED  BY <2>1 DEF X11Inv, Agree, Drawn, NoBlankWindow
<1> QED  BY <1>1, X11Invariant, PTL

(* GrabsMatchWindow: dunst holds exactly the shortcuts that are of use,    *)
(* whatever was refused before, and through reloads, when other clients    *)
(* grab a shortcut like dunst: with and without NumLock, or not at all.    *)
(* With one of the two taken, x_shortcut_grab keeps the other one of a     *)
(* shortcut that it calls invalid, and x_shortcut_ungrab forgets it.       *)
THEOREM KeysAreOfUse ==
  ASSUME AllOrNone
  PROVE  X11Spec => []GrabsMatchWindow
<1>1. X11Inv => GrabsMatchWindow
  BY DEF X11Inv, Agree, Matches, GrabsMatchWindow
<1> QED  BY <1>1, X11Invariant, PTL
=============================================================================
