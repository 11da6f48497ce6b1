---------------------------- MODULE LayoutProofs ----------------------------
(***************************************************************************)
(* For every set of themes, settings, screens and requests: no theme is    *)
(* loaded within itself, an icon is found in the order that is promised, a *)
(* click on a card means that card, the cards fill the window that was     *)
(* made for them, and what is in them fits.                                *)
(***************************************************************************)
EXTENDS Layout, SequenceLemmas

---------------------------------------------------------------------------
(* The themes                                                              *)

AreThemes(themes) ==
  \E A, B, C :
    themes \in Seq([subdir_theme : A, location : B, inherits_index : C])

AreCalls(stack) == \E L : stack \in Seq([theme : Nat, left : L])

(* The calls on the stack load different themes. *)
Nested(stack, themes) ==
  /\ AreThemes(themes) /\ AreCalls(stack)
  /\ \A i \in 1..Len(stack) : stack[i].theme < Len(themes)
  /\ \A i, j \in 1..Len(stack) : i # j =>
       themes[stack[i].theme + 1].subdir_theme
         # themes[stack[j].theme + 1].subdir_theme

LEMMA NothingNested == Nested(<<>>, <<>>)
<1> DEFINE none == <<>>
<1>1. none \in Seq([subdir_theme : {}, location : {}, inherits_index : {}])
      /\ none \in Seq([theme : Nat, left : {}]) /\ Len(none) = 0
  BY EmptySeq
<1> HIDE DEF none
<1>2. 1..Len(none) = {}  BY <1>1
<1> QED  BY <1>1, <1>2, Zenon DEF Nested, AreThemes, AreCalls, none

LEMMA CallsHaveThemes ==
  ASSUME NEW stack, AreCalls(stack)
  PROVE  Len(stack) \in Nat /\ \A i \in 1..Len(stack) : stack[i].theme \in Nat
<1>1. PICK L : stack \in Seq([theme : Nat, left : L])  BY DEF AreCalls
<1>2. \A i \in 1..Len(stack) : stack[i] \in [theme : Nat, left : L]
  BY <1>1, ElementOfSeq
<1>3. \A call \in [theme : Nat, left : L] : call.theme \in Nat  OBVIOUS
<1>4. Len(stack) \in Nat  BY <1>1, LenProperties
<1> QED  BY <1>2, <1>3, <1>4

(* What opening a theme adds. *)
LEMMA Opened ==
  ASSUME Nested(loads, icon_themes), NEW name, OpenTheme(name)
  PROVE  /\ AreThemes(icon_themes') /\ AreCalls(loads')
         /\ Len(icon_themes) \in Nat /\ Len(loads) \in Nat
         /\ Len(icon_themes') = Len(icon_themes) + 1
         /\ \A i \in 1..Len(icon_themes) : icon_themes'[i] = icon_themes[i]
         /\ LET t == icon_themes'[Len(icon_themes) + 1]
            IN /\ t.subdir_theme = name /\ t.location = Location(name)
               /\ t.inherits_index = <<>>
         /\ Len(loads') = Len(loads) + 1
         /\ \A i \in 1..Len(loads) : loads'[i] = loads[i]
         /\ loads'[Len(loads) + 1].theme = Len(icon_themes)
         /\ loads'[Len(loads) + 1].left = InheritedBy(name)
<1> DEFINE t == [subdir_theme |-> name, location |-> Location(name), inherits_index |-> <<>>]
           call == [theme |-> Len(icon_themes), left |-> InheritedBy(name)]
<1>1. PICK A, B, C :
        icon_themes \in Seq([subdir_theme : A, location : B, inherits_index : C])
  BY DEF Nested, AreThemes
<1>2. PICK L : loads \in Seq([theme : Nat, left : L])  BY DEF Nested, AreCalls
<1>3. icon_themes' = Append(icon_themes, t) /\ loads' = Append(loads, call)
  BY DEF OpenTheme
<1>4. Len(icon_themes) \in Nat /\ Len(loads) \in Nat  BY <1>1, <1>2, LenProperties
<1> DEFINE R == [subdir_theme : A \cup {name}, location : B \cup {Location(name)},
                 inherits_index : C \cup {<<>>}]
           M == [theme : Nat, left : L \cup {InheritedBy(name)}]
<1>5. /\ t \in R /\ t.subdir_theme = name /\ t.location = Location(name)
      /\ t.inherits_index = <<>>
  OBVIOUS
<1>6. call \in M /\ call.theme = Len(icon_themes) /\ call.left = InheritedBy(name)
  BY <1>4
<1>7. [subdir_theme : A, location : B, inherits_index : C] \subseteq R
      /\ [theme : Nat, left : L] \subseteq M
  OBVIOUS
<1>8. icon_themes \in Seq(R) /\ loads \in Seq(M)
  BY <1>1, <1>2, <1>7, SeqMonotonic, Zenon
<1> HIDE DEF t, call, R, M
<1>9. /\ icon_themes' \in Seq(R) /\ Len(icon_themes') = Len(icon_themes) + 1
      /\ \A i \in 1..Len(icon_themes) : icon_themes'[i] = icon_themes[i]
      /\ icon_themes'[Len(icon_themes) + 1] = t
  BY <1>3, <1>5, <1>8, AppendProperties
<1>10. /\ loads' \in Seq(M) /\ Len(loads') = Len(loads) + 1
       /\ \A i \in 1..Len(loads) : loads'[i] = loads[i]
       /\ loads'[Len(loads) + 1] = call
  BY <1>3, <1>6, <1>8, AppendProperties
<1>11. AreThemes(icon_themes') /\ AreCalls(loads')
  BY <1>9, <1>10 DEF AreThemes, AreCalls, R, M
<1> QED  BY <1>4, <1>5, <1>6, <1>9, <1>10, <1>11

(* load_icon_theme_from_dir enters a theme that is not being loaded. *)
LEMMA OpenNests ==
  ASSUME Nested(loads, icon_themes), NEW name, OpenTheme(name),
         \A i \in 1..Len(loads) :
           icon_themes[loads[i].theme + 1].subdir_theme # name
  PROVE  Nested(loads', icon_themes')
<1> DEFINE n == Len(icon_themes)
           k == Len(loads)
<1>1. /\ AreThemes(icon_themes') /\ n \in Nat /\ Len(icon_themes') = n + 1
      /\ icon_themes'[n + 1].subdir_theme = name
      /\ \A i \in 1..n : icon_themes'[i] = icon_themes[i]
  BY Opened
<1>2. /\ AreCalls(loads') /\ k \in Nat /\ Len(loads') = k + 1
      /\ \A i \in 1..k : loads'[i] = loads[i]
      /\ loads'[k + 1].theme = n
  BY Opened
<1> HIDE DEF n, k
<1>3. \A i \in 1..k : loads[i].theme \in Nat
  BY CallsHaveThemes DEF k, Nested
<1>4. \A i \in 1..k : loads[i].theme < n  BY DEF Nested, k, n
<1> DEFINE nameOf(i) == icon_themes'[loads'[i].theme + 1].subdir_theme
<1>5. \A i \in 1..k :
         nameOf(i) = icon_themes[loads[i].theme + 1].subdir_theme
  <2> TAKE i \in 1..k
  <2>1. loads[i].theme + 1 \in 1..n  BY <1>1, <1>3, <1>4
  <2> QED  BY <1>1, <1>2, <2>1
<1>6. nameOf(k + 1) = name  BY <1>1, <1>2
<1>7. \A i, j \in 1..k : i # j => nameOf(i) # nameOf(j)
  BY <1>5 DEF Nested, k
<1>8. \A i \in 1..k : nameOf(i) # name  BY <1>5 DEF k
<1> HIDE DEF nameOf
<1>9. \A i, j \in 1..(k + 1) : i # j => nameOf(i) # nameOf(j)
  <2> TAKE i, j \in 1..(k + 1)
  <2>1. i \in 1..k \/ i = k + 1  BY <1>2
  <2>2. j \in 1..k \/ j = k + 1  BY <1>2
  <2> QED  BY <1>6, <1>7, <1>8, <2>1, <2>2
<1>10. \A i \in 1..(k + 1) : loads'[i].theme < n + 1
  <2> TAKE i \in 1..(k + 1)
  <2>1. CASE i \in 1..k  BY <1>1, <1>2, <1>3, <1>4, <2>1
  <2>2. CASE i = k + 1  BY <1>1, <1>2, <2>2
  <2> QED  BY <1>2, <2>1, <2>2
<1> QED  BY <1>1, <1>2, <1>9, <1>10 DEF Nested, nameOf

(* A call returns. *)
LEMMA FrontNests ==
  ASSUME NEW stack, NEW themes, Nested(stack, themes), stack # <<>>
  PROVE  Nested(Front(stack), themes)
<1>1. PICK L : stack \in Seq([theme : Nat, left : L])  BY DEF Nested, AreCalls
<1>2. /\ Front(stack) \in Seq([theme : Nat, left : L])
      /\ Narrowed(stack, Front(stack), Len(stack))
  BY <1>1, FrontNarrowed
<1> DEFINE k == Len(stack)
           f == Front(stack)
<1>3. k \in Nat /\ k # 0  BY <1>1, EmptySeq
<1>4. AreCalls(f)  BY <1>2 DEF AreCalls
<1> HIDE DEF k, f
<1>5. Narrowed(stack, f, k)  BY <1>2 DEF k, f
<1>6. Len(f) = k - 1 /\ \A i \in 1..(k - 1) : f[i] = stack[i]
  BY <1>3, <1>5 DEF Narrowed, k
<1>7. \A i \in 1..(k - 1) : i \in 1..k  BY <1>3
<1> QED  BY <1>4, <1>6, <1>7 DEF Nested, k, f

(* What storing an index changes. *)
LEMMA Stored ==
  ASSUME NEW stack, Nested(stack, icon_themes), stack # <<>>, NEW index,
         StoreInherited(stack, index)
  PROVE  LET n   == Len(icon_themes)
             k   == Len(stack)
             at  == stack[k].theme + 1
         IN /\ AreThemes(icon_themes') /\ AreCalls(loads')
            /\ n \in Nat /\ k \in Nat \ {0} /\ Last(stack) = stack[k] /\ at \in 1..n
            /\ Len(icon_themes') = n
            /\ \A i \in 1..n :
                 /\ icon_themes'[i].subdir_theme = icon_themes[i].subdir_theme
                 /\ icon_themes'[i].location = icon_themes[i].location
                 /\ icon_themes'[i].inherits_index
                      = IF i = at THEN Append(icon_themes[at].inherits_index, index)
                        ELSE icon_themes[i].inherits_index
            /\ Len(loads') = k
            /\ \A i \in 1..k :
                 /\ loads'[i].theme = stack[i].theme
                 /\ loads'[i].left = IF i = k THEN Tail(stack[k].left) ELSE stack[i].left
<1> DEFINE k == Len(stack)
           n == Len(icon_themes)
           top == Last(stack)
           at == top.theme + 1
           stored == Append(icon_themes[at].inherits_index, index)
           call == [top EXCEPT !.left = Tail(@)]
<1>1. PICK A, B, C :
        icon_themes \in Seq([subdir_theme : A, location : B, inherits_index : C])
  BY DEF Nested, AreThemes
<1>2. PICK L : stack \in Seq([theme : Nat, left : L])  BY DEF Nested, AreCalls
<1>3. k \in Nat /\ k # 0 /\ n \in Nat /\ k \in 1..k  BY <1>1, <1>2, EmptySeq
<1>4. /\ Front(stack) \in Seq([theme : Nat, left : L])
      /\ Narrowed(stack, Front(stack), k) /\ top = stack[k]
  BY <1>2, FrontNarrowed
<1>5. top \in [theme : Nat, left : L]
  <2>1. stack[k] \in [theme : Nat, left : L]  BY <1>2, <1>3, ElementOfSeq
  <2> QED  BY <1>4, <2>1, Zenon
<1>6. top.theme < n  BY <1>3, <1>4 DEF Nested
<1>7. at \in 1..n  BY <1>3, <1>5, <1>6
<1>8. icon_themes' = [icon_themes EXCEPT ![at].inherits_index
                        = Append(@, index)]
      /\ loads' = Append(Front(stack), call)
  BY DEF StoreInherited
<1> DEFINE R == [subdir_theme : A, location : B, inherits_index : C \cup {stored}]
           t == [icon_themes[at] EXCEPT !.inherits_index = stored]
<1>9. icon_themes[at] \in [subdir_theme : A, location : B, inherits_index : C]
  BY <1>1, <1>7, ElementOfSeq
<1>10. /\ t \in R /\ t.subdir_theme = icon_themes[at].subdir_theme
       /\ t.location = icon_themes[at].location /\ t.inherits_index = stored
  BY <1>9
<1>11. [subdir_theme : A, location : B, inherits_index : C] \subseteq R
  OBVIOUS
<1>12. icon_themes \in Seq(R)  BY <1>1, <1>11, SeqMonotonic, Zenon
<1>13. icon_themes' = [icon_themes EXCEPT ![at] = t]  BY <1>8
<1> HIDE DEF t, R, at, stored
<1>14. /\ icon_themes' \in Seq(R) /\ Len(icon_themes') = n
       /\ \A i \in 1..n : icon_themes'[i] = IF i = at THEN t ELSE icon_themes[i]
  BY <1>7, <1>10, <1>12, <1>13, ExceptSeq
<1>15. AreThemes(icon_themes')  BY <1>14 DEF AreThemes, R
<1> HIDE DEF n
<1>16. \A i \in 1..n :
         /\ icon_themes'[i].subdir_theme = icon_themes[i].subdir_theme
         /\ icon_themes'[i].location = icon_themes[i].location
         /\ icon_themes'[i].inherits_index = IF i = at THEN stored
                                             ELSE icon_themes[i].inherits_index
  BY <1>10, <1>14
<1> DEFINE f == Front(stack)
           M == [theme : Nat, left : L \cup {Tail(top.left)}]
<1>17. call \in M /\ call.theme = top.theme /\ call.left = Tail(top.left)  BY <1>5
<1>18. [theme : Nat, left : L] \subseteq M  OBVIOUS
<1>19. f \in Seq(M)  BY <1>4, <1>18, SeqMonotonic, Zenon
<1>20. Len(f) = k - 1 /\ \A i \in 1..(k - 1) : f[i] = stack[i]
  <2>1. Narrowed(stack, f, k)  BY <1>4
  <2> HIDE DEF f
  <2> QED  BY <1>3, <2>1 DEF Narrowed
<1> HIDE DEF call, M, f
<1>21. /\ loads' \in Seq(M) /\ Len(loads') = Len(f) + 1
       /\ \A i \in 1..Len(f) : loads'[i] = f[i]
       /\ loads'[Len(f) + 1] = call
  BY <1>8, <1>17, <1>19, AppendProperties DEF f
<1>22. AreCalls(loads')  BY <1>21 DEF AreCalls, M
<1> HIDE DEF k, top
<1>23. /\ Len(loads') = k
       /\ \A i \in 1..(k - 1) : loads'[i] = stack[i]
       /\ loads'[k] = call
  <2>1. Len(f) + 1 = k  BY <1>3, <1>20
  <2> QED  BY <1>20, <1>21, <2>1
<1>24. \A i \in 1..k : /\ loads'[i].theme = stack[i].theme
                       /\ loads'[i].left = IF i = k THEN Tail(top.left) ELSE stack[i].left
  <2> TAKE i \in 1..k
  <2>1. CASE i \in 1..(k - 1)
    <3>1. i # k  BY <1>3, <2>1
    <3> QED  BY <1>23, <2>1, <3>1
  <2>2. CASE i = k  BY <1>4, <1>17, <1>23, <2>2
  <2> QED  BY <1>3, <2>1, <2>2
<1>25. k \in Nat \ {0}  BY <1>3
<1> QED  BY <1>3, <1>4, <1>7, <1>14, <1>15, <1>16, <1>22, <1>23, <1>24, <1>25
         DEF n, k, top, at, stored

(* An index is stored in the theme on top. *)
LEMMA StoreNests ==
  ASSUME NEW stack, Nested(stack, icon_themes), stack # <<>>, NEW index,
         StoreInherited(stack, index)
  PROVE  Nested(loads', icon_themes')
<1> DEFINE k == Len(stack)
           n == Len(icon_themes)
<1>1. /\ AreThemes(icon_themes') /\ n \in Nat /\ Len(icon_themes') = n
      /\ \A i \in 1..n :
           icon_themes'[i].subdir_theme = icon_themes[i].subdir_theme
  BY Stored
<1>2. /\ AreCalls(loads') /\ k \in Nat /\ Len(loads') = k
      /\ \A i \in 1..k : loads'[i].theme = stack[i].theme
  BY Stored
<1> HIDE DEF k, n
<1>3. \A i \in 1..k : stack[i].theme + 1 \in 1..n
  <2>1. \A i \in 1..k : stack[i].theme \in Nat
    BY CallsHaveThemes DEF k, Nested
  <2>2. \A i \in 1..k : stack[i].theme < n  BY DEF Nested, k, n
  <2> QED  BY <1>1, <2>1, <2>2
<1>4. \A i, j \in 1..k : i # j =>
         icon_themes'[loads'[i].theme + 1].subdir_theme
           # icon_themes'[loads'[j].theme + 1].subdir_theme
  <2>1. \A i, j \in 1..k : i # j =>
          icon_themes[stack[i].theme + 1].subdir_theme
            # icon_themes[stack[j].theme + 1].subdir_theme
    BY DEF Nested, k
  <2>2. \A i \in 1..k : icon_themes'[loads'[i].theme + 1].subdir_theme
                          = icon_themes[stack[i].theme + 1].subdir_theme
    BY <1>1, <1>2, <1>3
  <2> QED  BY <2>1, <2>2
<1>5. \A i \in 1..k : loads'[i].theme < n  BY <1>2 DEF Nested, k, n
<1> QED  BY <1>1, <1>2, <1>4, <1>5 DEF Nested, n

(* A theme that is not found by its name has not been loaded. *)
LEMMA NotLoaded ==
  ASSUME AreThemes(icon_themes), NEW name, GetIconTheme(name) = -1
  PROVE  \A i \in 1..Len(icon_themes) : icon_themes[i].subdir_theme # name
<1> DEFINE found == {i \in DOMAIN icon_themes : icon_themes[i].subdir_theme = name}
<1>1. DOMAIN icon_themes = 1..Len(icon_themes) /\ Len(icon_themes) \in Nat
  BY LenProperties DEF AreThemes
<1>2. CASE found = {}  BY <1>1, <1>2
<1>3. CASE found # {}
  <2>1. found \in SUBSET Nat  BY <1>1
  <2>2. \E i \in found : \A j \in found : i <= j  BY <1>3, <2>1, MinExists
  <2> DEFINE first == CHOOSE i \in found : \A j \in found : i <= j
  <2>3. first \in found  BY <2>2
  <2>4. GetIconTheme(name) = first - 1  BY <1>3 DEF GetIconTheme
  <2>5. first \in 1..Len(icon_themes)  BY <1>1, <2>3
  <2> HIDE DEF first
  <2> QED  BY <1>1, <2>4, <2>5
<1> QED  BY <1>2, <1>3

LEMMA LoadStepNests ==
  ASSUME Nested(loads, icon_themes), LoadIconThemes
  PROVE  Nested(loads', icon_themes')
<1>1. CASE LoadNext
  <2>1. CASE IsOnDisk(Head(wanted))
    <3>1. OpenTheme(Head(wanted)) /\ loads = <<>>  BY <1>1, <2>1 DEF LoadNext
    <3>2. Len(loads) = 0  BY <3>1
    <3>3. 1..Len(loads) = {}  BY <3>2
    <3> QED  BY <3>1, <3>3, OpenNests
  <2>2. CASE ~IsOnDisk(Head(wanted))
    <3>1. loads' = loads /\ icon_themes' = icon_themes
      BY <1>1, <2>2 DEF LoadNext
    <3> QED  BY <3>1
  <2> QED  BY <2>1, <2>2
<1>2. CASE InheritNext
  <2> DEFINE name == Head(Last(loads).left)
  <2>0. loads # <<>>  BY <1>2 DEF InheritNext
  <2>1. CASE GetIconTheme(name) # -1
    <3>1. StoreInherited(loads, GetIconTheme(name))
      BY <1>2, <2>1 DEF InheritNext
    <3> QED  BY <2>0, <3>1, StoreNests
  <2>2. CASE GetIconTheme(name) = -1 /\ IsOnDisk(name)
    <3>1. OpenTheme(name)  BY <1>2, <2>2 DEF InheritNext
    <3> HIDE DEF name
    <3>2. \A i \in 1..Len(icon_themes) : icon_themes[i].subdir_theme # name
      BY <2>2, NotLoaded DEF Nested
    <3>3. \A i \in 1..Len(loads) : loads[i].theme + 1 \in 1..Len(icon_themes)
      <4>2. \A i \in 1..Len(loads) : loads[i].theme \in Nat
        BY CallsHaveThemes DEF Nested
      <4>3. Len(icon_themes) \in Nat  BY LenProperties DEF Nested, AreThemes
      <4>4. \A i \in 1..Len(loads) : loads[i].theme < Len(icon_themes)
        BY DEF Nested
      <4> QED  BY <4>2, <4>3, <4>4
    <3> QED  BY <3>1, <3>2, <3>3, OpenNests
  <2>3. CASE GetIconTheme(name) = -1 /\ ~IsOnDisk(name)
    <3>1. StoreInherited(loads, -1)  BY <1>2, <2>3 DEF InheritNext
    <3> QED  BY <2>0, <3>1, StoreNests
  <2> QED  BY <2>1, <2>2, <2>3
<1>3. CASE ReturnIndex
  <2>0. loads # <<>>  BY <1>3 DEF ReturnIndex
  <2>1. CASE Len(loads) > 1
    <3>1. StoreInherited(Front(loads), Last(loads).theme)
      BY <1>3, <2>1 DEF ReturnIndex
    <3>2. Nested(Front(loads), icon_themes)  BY <2>0, FrontNests
    <3>3. Front(loads) # <<>>
      <4>1. PICK L : loads \in Seq([theme : Nat, left : L])
        BY DEF Nested, AreCalls
      <4>2. /\ Front(loads) \in Seq([theme : Nat, left : L])
            /\ Narrowed(loads, Front(loads), Len(loads))
        BY <2>0, <4>1, FrontNarrowed
      <4>3. Len(Front(loads)) = Len(loads) - 1  BY <4>2 DEF Narrowed
      <4>4. Len(loads) \in Nat  BY <4>1
      <4> QED  BY <2>1, <4>2, <4>3, <4>4, EmptySeq
    <3> QED  BY <3>1, <3>2, <3>3, StoreNests
  <2>2. CASE ~(Len(loads) > 1)
    <3>1. loads' = <<>> /\ icon_themes' = icon_themes
      BY <1>3, <2>2 DEF ReturnIndex
    <3>2. 1..Len(<<>>) = {} /\ <<>> \in Seq([theme : Nat, left : {}])
      BY EmptySeq
    <3> QED  BY <3>1, <3>2, Zenon DEF Nested, AreCalls
  <2> QED  BY <2>1, <2>2
<1>4. CASE FinishLoading
  <2>1. loads' = loads /\ icon_themes' = icon_themes  BY <1>4 DEF FinishLoading
  <2> QED  BY <2>1
<1> QED  BY <1>1, <1>2, <1>3, <1>4 DEF LoadIconThemes

(* NoThemeWithinItself: load_icon_theme_from_dir recurses into the themes  *)
(* a theme inherits, and these may inherit each other in circles; because  *)
(* a theme takes its place in icon_themes before the themes it inherits    *)
(* are looked at, it is never loaded within itself.                        *)
THEOREM ThemesNest == LayoutSpec => []NoThemeWithinItself
<1>1. LayoutInit => Nested(loads, icon_themes)
  BY NothingNested DEF LayoutInit
<1>2. Nested(loads, icon_themes) => NoThemeWithinItself
  <2> SUFFICES ASSUME Nested(loads, icon_themes) PROVE NoThemeWithinItself
    OBVIOUS
  <2>1. DOMAIN loads = 1..Len(loads)  BY LenProperties DEF Nested, AreCalls
  <2> QED  BY <2>1 DEF Nested, NoThemeWithinItself
<1>3. Nested(loads, icon_themes) /\ [LayoutNext]_layoutVars
        => Nested(loads, icon_themes)'
  <2> SUFFICES ASSUME Nested(loads, icon_themes), [LayoutNext]_layoutVars
               PROVE  Nested(loads', icon_themes')
    OBVIOUS
  <2>1. CASE Load  BY <2>1, LoadStepNests DEF Load
  <2>2. CASE \E s \in Settings : Reload(s)
    <3>1. loads' = <<>> /\ icon_themes' = <<>>  BY <2>2 DEF Reload, StartThemes
    <3> QED  BY <3>1, NothingNested
  <2>3. ASSUME UNCHANGED themeVars  PROVE Nested(loads', icon_themes')
    <3>1. loads' = loads /\ icon_themes' = icon_themes  BY <2>3 DEF themeVars
    <3> QED  BY <3>1
  <2>4. CASE \/ \E r \in Requests : Arrive(r)
             \/ \E i \in DOMAIN displayed : Leave(i)
             \/ \E y \in ClickedRows : Click(y)
             \/ Redraw
    BY <2>3, <2>4 DEF Arrive, Leave, Click, Redraw
  <2>5. CASE UNCHANGED layoutVars  BY <2>3, <2>5 DEF layoutVars
  <2> QED  BY <2>1, <2>2, <2>4, <2>5 DEF LayoutNext
<1> QED  BY <1>1, <1>2, <1>3, PTL DEF LayoutSpec

---------------------------------------------------------------------------
(* Where an icon is found: the first of some answers                       *)

(* x is the first of n answers that is a path, or there is none. *)
IsFirst(x, n, h) ==
  \/ x = NoIcon /\ \A i \in 1..n : h[i] = NoIcon
  \/ \E k \in 1..n : /\ x = h[k] /\ h[k] # NoIcon
                     /\ \A i \in 1..(k - 1) : h[i] = NoIcon

LEMMA FirstHits ==
  ASSUME NEW n \in Nat, NEW h, DOMAIN h = 1..n
  PROVE  IsFirst(FirstHit(h), n, h)
<1> DEFINE hits == {i \in DOMAIN h : h[i] # NoIcon}
<1>1. CASE hits = {}
  <2>1. FirstHit(h) = NoIcon  BY <1>1 DEF FirstHit
  <2> QED  BY <1>1, <2>1 DEF IsFirst
<1>2. CASE hits # {}
  <2>1. hits \in SUBSET Nat  OBVIOUS
  <2>2. Min(hits) \in hits /\ \A i \in hits : Min(hits) <= i  BY <1>2, <2>1, MinExists
  <2>3. FirstHit(h) = h[Min(hits)]  BY <1>2 DEF FirstHit
  <2>4. PICK k \in 1..n : k = Min(hits) /\ h[k] # NoIcon  BY <2>2
  <2>5. ASSUME NEW i \in 1..(k - 1)  PROVE h[i] = NoIcon
    <3>1. i \in 1..n /\ ~(k <= i)  OBVIOUS
    <3>2. i \notin hits  BY <2>2, <2>4, <3>1
    <3> QED  BY <3>1, <3>2
  <2> QED  BY <2>3, <2>4, <2>5 DEF IsFirst
<1> QED  BY <1>1, <1>2 DEF IsFirst

(* The first answer that is a path is the one all before which are none.   *)
LEMMA FirstIsThis ==
  ASSUME NEW n \in Nat, NEW h, DOMAIN h = 1..n, NEW k \in 1..n, h[k] # NoIcon,
         \A i \in 1..(k - 1) : h[i] = NoIcon
  PROVE  FirstHit(h) = h[k]
<1>1. IsFirst(FirstHit(h), n, h)  BY FirstHits
<1>2. PICK l \in 1..n : /\ FirstHit(h) = h[l] /\ h[l] # NoIcon
                        /\ \A i \in 1..(l - 1) : h[i] = NoIcon
  BY <1>1 DEF IsFirst
<1>3. ~(k < l)
  <2> SUFFICES ASSUME k < l PROVE FALSE  OBVIOUS
  <2>1. k \in 1..(l - 1)  OBVIOUS
  <2> QED  BY <1>2, <2>1
<1>4. ~(l < k)
  <2> SUFFICES ASSUME l < k PROVE FALSE  OBVIOUS
  <2>1. l \in 1..(k - 1)  OBVIOUS
  <2> QED  BY <1>2, <2>1
<1>5. k = l  BY <1>3, <1>4
<1> QED  BY <1>2, <1>5

(* h are the answers of g at a row of places, the others being none.       *)
Along(at, h, n, g, m) ==
  /\ DOMAIN h = 1..n /\ DOMAIN g = 1..m
  /\ at \in [1..n -> 1..m]
  /\ \A j, k \in 1..n : j < k => at[j] < at[k]
  /\ \A k \in 1..n : h[k] = g[at[k]]
  /\ \A i \in 1..m : g[i] # NoIcon => \E k \in 1..n : at[k] = i

LEMMA FirstAlong ==
  ASSUME NEW n \in Nat, NEW h, NEW m \in Nat, NEW g, NEW at, Along(at, h, n, g, m)
  PROVE  FirstHit(h) = FirstHit(g)
<1> USE DEF Along
<1>0. IsFirst(FirstHit(h), n, h) /\ IsFirst(FirstHit(g), m, g)  BY FirstHits
<1>1. CASE FirstHit(g) = NoIcon /\ \A i \in 1..m : g[i] = NoIcon
  <2>1. \A k \in 1..n : h[k] = NoIcon  BY <1>1
  <2>2. FirstHit(h) = NoIcon
    <3>1. \A k \in 1..n : k \in 1..n  OBVIOUS
    <3> QED  BY <1>0, <2>1, <3>1 DEF IsFirst
  <2> QED  BY <1>1, <2>2
<1>2. CASE \E i \in 1..m : /\ FirstHit(g) = g[i] /\ g[i] # NoIcon
                           /\ \A j \in 1..(i - 1) : g[j] = NoIcon
  <2>1. PICK i \in 1..m : /\ FirstHit(g) = g[i] /\ g[i] # NoIcon
                          /\ \A j \in 1..(i - 1) : g[j] = NoIcon
    BY <1>2
  <2>2. PICK k \in 1..n : at[k] = i  BY <2>1
  <2>3. h[k] = g[i]  BY <2>2
  <2>4. PICK l \in 1..n : /\ FirstHit(h) = h[l] /\ h[l] # NoIcon
                          /\ \A j \in 1..(l - 1) : h[j] = NoIcon
    <3>1. ~(\A j \in 1..n : h[j] = NoIcon)  BY <2>1, <2>3
    <3> QED  BY <1>0, <3>1 DEF IsFirst
  <2>5. ~(k < l)
    <3> SUFFICES ASSUME k < l PROVE FALSE  OBVIOUS
    <3>1. k \in 1..(l - 1)  OBVIOUS
    <3> QED  BY <2>1, <2>3, <2>4, <3>1
  <2>6. ~(l < k)
    <3> SUFFICES ASSUME l < k PROVE FALSE  OBVIOUS
    <3>1. at[l] < i /\ at[l] \in 1..m  BY <2>2
    <3>2. at[l] \in 1..(i - 1)  BY <3>1
    <3>3. g[at[l]] = NoIcon  BY <2>1, <3>2
    <3> QED  BY <2>4, <3>3
  <2>7. k = l  BY <2>5, <2>6
  <2> QED  BY <2>1, <2>3, <2>4, <2>7
<1> QED  BY <1>0, <1>1, <1>2 DEF IsFirst

---------------------------------------------------------------------------
(* The themes on disk d under the settings s *)

(* The names of themes; the provers do not know that a literal is a string. *)
Names == STRING \cup {"hicolor"}

PlacesOf(d, s, n) ==
  {i \in DOMAIN ThemePath(s.env) :
     ThemePath(s.env)[i] \in DOMAIN d /\ n \in DOMAIN d[ThemePath(s.env)[i]]}
There(d, s, n)   == PlacesOf(d, s, n) # {}
At(d, s, n)      == ThemePath(s.env)[Min(PlacesOf(d, s, n))]
NamesOf(d, s, n) == Inherits(d[At(d, s, n)][n])

NamesAreRows(d, s) == \A n : There(d, s, n) => NamesOf(d, s, n) \in Seq(Names)

(* index is what get_icon_theme or load_icon_theme answer for that name. *)
Resolves(index, n, themes, d, s) ==
  \/ index = -1 /\ ~There(d, s, n)
  \/ /\ index \in 0..(Len(themes) - 1)
     /\ themes[index + 1].subdir_theme = n

(* A theme that is loaded has stored what its first names mean. *)
IsTheme(t, themes, d, s) ==
  /\ There(d, s, t.subdir_theme)
  /\ t.location = At(d, s, t.subdir_theme)
  /\ t.inherits_index \in Seq(Int)
  /\ Len(t.inherits_index) <= Len(NamesOf(d, s, t.subdir_theme))
  /\ \A j \in 1..Len(t.inherits_index) :
       Resolves(t.inherits_index[j], NamesOf(d, s, t.subdir_theme)[j], themes, d, s)

IsComplete(t, d, s) == Len(t.inherits_index) = Len(NamesOf(d, s, t.subdir_theme))

(* A call has left the names its theme has nothing stored for. *)
IsCall(call, themes, d, s) ==
  /\ call.theme \in 0..(Len(themes) - 1)
  /\ call.left \in Seq(Names)
  /\ LET t == themes[call.theme + 1]
     IN /\ Len(t.inherits_index) + Len(call.left) = Len(NamesOf(d, s, t.subdir_theme))
        /\ \A m \in 1..Len(call.left) :
             call.left[m] = NamesOf(d, s, t.subdir_theme)[Len(t.inherits_index) + m]

(* A call that loads what it inherits waits for the theme of the next call. *)
Awaits(call, next, themes) ==
  call.left # <<>> /\ Head(call.left) = themes[next.theme + 1].subdir_theme

Sound(stack, themes, d, s) ==
  /\ Nested(stack, themes)
  /\ \A k \in 1..Len(themes) : IsTheme(themes[k], themes, d, s)
  /\ \A i \in 1..Len(stack) : IsCall(stack[i], themes, d, s)
  /\ \A i \in 1..(Len(stack) - 1) : Awaits(stack[i], stack[i + 1], themes)
  /\ \A k \in 1..Len(themes) :
       (\A i \in 1..Len(stack) : stack[i].theme + 1 # k) => IsComplete(themes[k], d, s)

(* These are the operators of Icons. *)
LEMMA OnThisDisk ==
  \A n : /\ IsOnDisk(n) <=> There(disk, settings, n)
         /\ Location(n) = At(disk, settings, n)
         /\ InheritedBy(n) = NamesOf(disk, settings, n)
<1> TAKE n
<1>1. Places(n) = PlacesOf(disk, settings, n)  BY DEF Places, PlacesOf
<1>2. Location(n) = At(disk, settings, n)  BY <1>1 DEF Location, At
<1> QED  BY <1>1, <1>2 DEF IsOnDisk, There, InheritedBy, NamesOf

(* Whatever is inherited is a row of names. *)
LEMMA NamesAreRowsOfDisk ==
  ASSUME settings \in Settings, \E d \in Disks : disk = d.themes
  PROVE  NamesAreRows(disk, settings)
<1> DEFINE path == ThemePath(settings.env)
<1> SUFFICES ASSUME NEW n, There(disk, settings, n)
             PROVE  NamesOf(disk, settings, n) \in Seq(Names)
  BY DEF NamesAreRows
<1>1. DOMAIN path \subseteq Nat
  <2> DEFINE first == <<"~/.icons">>
             home == FromEnv(settings.env.data_home, <<"~/.local/share">>)
             dirs == FromEnv(settings.env.data_dirs, <<"/usr/local/share", "/usr/share">>)
             last == <<"/usr/share/pixmaps">>
             P == STRING \cup {"~/.icons", "~/.local/share", "/usr/local/share", "/usr/share",
                               "/usr/share/pixmaps"}
  <2>1. {settings.env.data_home, settings.env.data_dirs} \subseteq {NoIcon} \cup Seq(STRING)
    BY LayoutAssumption
  <2>2. Seq(STRING) \subseteq Seq(P)
    <3>1. STRING \subseteq P  OBVIOUS
    <3> HIDE DEF P
    <3> QED  BY <3>1, SeqMonotonic, Zenon
  <2>3. first \in Seq(P) /\ last \in Seq(P)  OBVIOUS
  <2>4. home \in Seq(P)
    <3>1. <<"~/.local/share">> \in Seq(P)  OBVIOUS
    <3> HIDE DEF P
    <3> QED  BY <2>1, <2>2, <3>1 DEF FromEnv
  <2>5. dirs \in Seq(P)
    <3>1. <<"/usr/local/share", "/usr/share">> \in Seq(P)  OBVIOUS
    <3> HIDE DEF P
    <3> QED  BY <2>1, <2>2, <3>1 DEF FromEnv
  <2> HIDE DEF P
  <2>6. path = first \o home \o dirs \o last  BY DEF ThemePath
  <2> HIDE DEF first, home, dirs, last
  <2>7. first \o home \in Seq(P)  BY <2>3, <2>4, ConcatProperties
  <2>8. (first \o home) \o dirs \in Seq(P)  BY <2>5, <2>7, ConcatProperties
  <2>9. path \in Seq(P)  BY <2>3, <2>6, <2>8, ConcatProperties
  <2> HIDE DEF path
  <2> QED  BY <2>9, LenProperties
<1> DEFINE found == PlacesOf(disk, settings, n)
<1>2. found \in SUBSET Nat /\ found # {}  BY <1>1 DEF PlacesOf, There
<1>3. Min(found) \in found  BY <1>2, MinExists
<1>4. At(disk, settings, n) \in DOMAIN disk /\ n \in DOMAIN disk[At(disk, settings, n)]
  BY <1>3 DEF PlacesOf, At
<1> DEFINE theme == disk[At(disk, settings, n)][n]
<1>5. theme.inherits \in Seq(STRING)  BY <1>4, LayoutAssumption
<1>6. Seq(STRING) \subseteq Seq(Names)
  <2>1. STRING \subseteq Names  BY DEF Names
  <2> QED  BY <2>1, SeqMonotonic, Zenon
<1>7. <<"hicolor">> \in Seq(Names) /\ <<>> \in Seq(Names)  BY DEF Names
<1> QED  BY <1>5, <1>6, <1>7 DEF NamesOf, Inherits

(* More themes, with the names they had, mean no less. *)
Grown(themes, more) ==
  /\ Len(themes) \in Nat /\ Len(more) \in Nat /\ Len(themes) <= Len(more)
  /\ \A i \in 1..Len(themes) : more[i].subdir_theme = themes[i].subdir_theme

LEMMA StillResolves ==
  ASSUME NEW themes, NEW more, Grown(themes, more), NEW d, NEW s, NEW n, NEW index,
         Resolves(index, n, themes, d, s)
  PROVE  Resolves(index, n, more, d, s)
<1>1. CASE index = -1 /\ ~There(d, s, n)  BY <1>1 DEF Resolves
<1>2. CASE index \in 0..(Len(themes) - 1) /\ themes[index + 1].subdir_theme = n
  <2>1. index \in 0..(Len(more) - 1) /\ index + 1 \in 1..Len(themes)  BY <1>2 DEF Grown
  <2> QED  BY <1>2, <2>1 DEF Resolves, Grown
<1> QED  BY <1>1, <1>2 DEF Resolves

LEMMA StillTheme ==
  ASSUME NEW themes, NEW more, Grown(themes, more), NEW d, NEW s, NEW t,
         IsTheme(t, themes, d, s)
  PROVE  IsTheme(t, more, d, s)
BY StillResolves DEF IsTheme

(* A call leaves what it is still to look at. *)
LEMMA StillCall ==
  ASSUME NEW themes, NEW more, Grown(themes, more), NEW d, NEW s, NEW call,
         IsCall(call, themes, d, s), NEW next, next.theme \in Nat, next.theme = call.theme,
         next.left = call.left,
         more[call.theme + 1].inherits_index = themes[call.theme + 1].inherits_index
  PROVE  IsCall(next, more, d, s)
<1>1. call.theme \in 0..(Len(more) - 1) /\ call.theme + 1 \in 1..Len(themes)
  BY DEF IsCall, Grown
<1>2. more[call.theme + 1].subdir_theme = themes[call.theme + 1].subdir_theme
  BY <1>1 DEF Grown
<1> QED  BY <1>1, <1>2 DEF IsCall

(* A call that has nothing left returns its theme to the call before. *)
LEMMA ReturnSound ==
  ASSUME NEW stack, NEW themes, NEW d, NEW s, Sound(stack, themes, d, s),
         stack # <<>>, Last(stack).left = <<>>
  PROVE  /\ Sound(Front(stack), themes, d, s)
         /\ Len(stack) \in Nat \ {0} /\ Len(Front(stack)) = Len(stack) - 1
         /\ Last(stack) = stack[Len(stack)]
         /\ Len(stack) > 1 =>
              /\ Front(stack) # <<>>
              /\ Last(Front(stack)).left # <<>>
              /\ Resolves(Last(stack).theme, Head(Last(Front(stack)).left), themes, d, s)
<1> DEFINE k == Len(stack)
           f == Front(stack)
<1>1. PICK L : stack \in Seq([theme : Nat, left : L])
  BY DEF Sound, Nested, AreCalls
<1>2. k \in Nat \ {0} /\ k \in Nat  BY <1>1, EmptySeq
<1>3. /\ f \in Seq([theme : Nat, left : L])
      /\ Narrowed(stack, f, k) /\ Last(stack) = stack[k]
  BY <1>1, FrontNarrowed
<1>4. Nested(f, themes)  BY FrontNests DEF Sound
<1> HIDE DEF f
<1>5. Len(f) = k - 1 /\ \A i \in 1..(k - 1) : f[i] = stack[i]
  BY <1>2, <1>3 DEF Narrowed
<1> HIDE DEF k
<1>6. /\ \A i \in 1..k : IsCall(stack[i], themes, d, s)
      /\ \A i \in 1..(k - 1) : Awaits(stack[i], stack[i + 1], themes)
      /\ \A i \in 1..Len(themes) : IsTheme(themes[i], themes, d, s)
      /\ \A j \in 1..Len(themes) :
           (\A i \in 1..k : stack[i].theme + 1 # j) => IsComplete(themes[j], d, s)
  BY DEF Sound, k
<1>7. \A i \in 1..(k - 1) : i \in 1..k /\ i + 1 \in 1..k  BY <1>2
<1>8. \A i \in 1..Len(f) : IsCall(f[i], themes, d, s)  BY <1>5, <1>6, <1>7
<1>9. ASSUME NEW i \in 1..(Len(f) - 1)  PROVE Awaits(f[i], f[i + 1], themes)
  <2>1. i \in 1..(k - 1) /\ i + 1 \in 1..(k - 1)  BY <1>2, <1>5
  <2> QED  BY <1>5, <1>6, <2>1
<1>10. k \in 1..k  BY <1>2
<1>11. IsCall(stack[k], themes, d, s)  BY <1>6, <1>10
<1>12. ASSUME NEW j \in 1..Len(themes), \A i \in 1..Len(f) : f[i].theme + 1 # j
       PROVE  IsComplete(themes[j], d, s)
  <2>1. CASE stack[k].theme + 1 = j
    <3>1. /\ stack[k].left = <<>>
          /\ Len(themes[j].inherits_index) + Len(stack[k].left)
               = Len(NamesOf(d, s, themes[j].subdir_theme))
          /\ themes[j].inherits_index \in Seq(Int)
      BY <1>3, <1>6, <1>11, <2>1 DEF IsCall, IsTheme
    <3>2. Len(<<>>) = 0 /\ Len(themes[j].inherits_index) \in Nat  BY <3>1, EmptySeq
    <3> QED  BY <3>1, <3>2 DEF IsComplete
  <2>2. CASE stack[k].theme + 1 # j
    <3>1. ASSUME NEW i \in 1..k  PROVE stack[i].theme + 1 # j
      <4>1. CASE i = k  BY <2>2, <4>1
      <4>2. CASE i # k
        <5>1. i \in 1..(k - 1)  BY <1>2, <4>2
        <5> QED  BY <1>5, <1>12, <5>1
      <4> QED  BY <4>1, <4>2
    <3> QED  BY <1>6, <3>1
  <2> QED  BY <2>1, <2>2
<1>13. Sound(f, themes, d, s)  BY <1>4, <1>6, <1>8, <1>9, <1>12 DEF Sound
<1>14. ASSUME k > 1
       PROVE  /\ f # <<>> /\ Last(f).left # <<>>
              /\ Resolves(Last(stack).theme, Head(Last(f).left), themes, d, s)
  <2>1. Len(f) # 0 /\ k - 1 \in 1..(k - 1) /\ (k - 1) + 1 = k  BY <1>2, <1>5, <1>14
  <2>2. f # <<>>
    <3>1. Len(<<>>) = 0  BY EmptySeq
    <3> QED  BY <2>1, <3>1
  <2>3. Last(f) = stack[k - 1]  BY <1>5, <2>1 DEF Last
  <2>4. Awaits(stack[k - 1], stack[k], themes)  BY <1>6, <2>1
  <2> QED  BY <1>3, <1>11, <2>2, <2>3, <2>4 DEF Awaits, IsCall, Resolves
<1> QED  BY <1>2, <1>3, <1>5, <1>13, <1>14 DEF f, k

(* A theme that is opened has stored nothing and has all its names left. *)
LEMMA OpenSound ==
  ASSUME NEW d, NEW s, NamesAreRows(d, s), Sound(loads, icon_themes, d, s),
         NEW name, There(d, s, name), Location(name) = At(d, s, name),
         InheritedBy(name) = NamesOf(d, s, name),
         loads # <<>> => Last(loads).left # <<>> /\ Head(Last(loads).left) = name,
         \A i \in 1..Len(loads) :
           icon_themes[loads[i].theme + 1].subdir_theme # name,
         OpenTheme(name)
  PROVE  Sound(loads', icon_themes', d, s) /\ Grown(icon_themes, icon_themes')
<1> DEFINE n == Len(icon_themes)
           k == Len(loads)
           t == icon_themes'[n + 1]
<1>1. Nested(loads, icon_themes)  BY DEF Sound
<1>2. /\ n \in Nat /\ k \in Nat /\ Len(icon_themes') = n + 1
      /\ \A i \in 1..n : icon_themes'[i] = icon_themes[i]
      /\ t.subdir_theme = name /\ t.location = Location(name) /\ t.inherits_index = <<>>
      /\ Len(loads') = k + 1
      /\ \A i \in 1..k : loads'[i] = loads[i]
      /\ loads'[k + 1].theme = n /\ loads'[k + 1].left = InheritedBy(name)
  BY <1>1, Opened
<1>3. Nested(loads', icon_themes')  BY <1>1, OpenNests
<1>4. \A i \in 1..k : IsCall(loads[i], icon_themes, d, s)  BY DEF Sound
<1>5. \A i \in 1..(k - 1) : Awaits(loads[i], loads[i + 1], icon_themes)  BY DEF Sound
<1>6. \A i \in 1..n : IsTheme(icon_themes[i], icon_themes, d, s)  BY DEF Sound
<1>7. \A j \in 1..n : (\A i \in 1..k : loads[i].theme + 1 # j)
                         => IsComplete(icon_themes[j], d, s)
  BY DEF Sound
<1>8. k # 0 => Last(loads) = loads[k] /\ loads # <<>>
  <2>1. Len(<<>>) = 0  BY EmptySeq
  <2> QED  BY <2>1 DEF Last
<1> HIDE DEF n, k, t
<1>9. Grown(icon_themes, icon_themes')
  <2>1. n <= n + 1 /\ n + 1 \in Nat  BY <1>2
  <2> QED  BY <1>2, <2>1 DEF Grown, n
<1>10. /\ NamesOf(d, s, name) \in Seq(Names) /\ Len(<<>>) = 0 /\ <<>> \in Seq(Int)
       /\ Len(NamesOf(d, s, name)) \in Nat
  BY EmptySeq, LenProperties DEF NamesAreRows
<1>11. IsTheme(t, icon_themes', d, s)
  <2>1. 1..0 = {} /\ 0 <= Len(NamesOf(d, s, name))  BY <1>10
  <2> QED  BY <1>2, <1>10, <2>1 DEF IsTheme
<1>12. ASSUME NEW i \in 1..(n + 1)  PROVE IsTheme(icon_themes'[i], icon_themes', d, s)
  <2>1. CASE i \in 1..n  BY <1>2, <1>6, <1>9, <2>1, StillTheme
  <2>2. CASE i = n + 1  BY <1>11, <2>2 DEF t
  <2> QED  BY <1>2, <2>1, <2>2
<1>13. IsCall(loads'[k + 1], icon_themes', d, s)
  <2>1. n \in 0..((n + 1) - 1)  BY <1>2
  <2>2. \A m \in 1..Len(NamesOf(d, s, name)) : 0 + m = m  BY <1>10
  <2>3. 0 + Len(NamesOf(d, s, name)) = Len(NamesOf(d, s, name))  BY <1>10
  <2> QED  BY <1>2, <1>10, <2>1, <2>2, <2>3 DEF IsCall, t
<1>14. ASSUME NEW i \in 1..(k + 1)  PROVE IsCall(loads'[i], icon_themes', d, s)
  <2>1. CASE i \in 1..k
    <3>1. loads'[i] = loads[i] /\ IsCall(loads[i], icon_themes, d, s)  BY <1>2, <1>4, <2>1
    <3>2. loads[i].theme \in Nat /\ loads[i].theme + 1 \in 1..n
      BY <1>2, <3>1 DEF IsCall, n
    <3>3. icon_themes'[loads[i].theme + 1] = icon_themes[loads[i].theme + 1]
      BY <1>2, <3>2
    <3> QED  BY <1>9, <3>1, <3>2, <3>3, StillCall
  <2>2. CASE i = k + 1  BY <1>13, <2>2
  <2> QED  BY <1>2, <2>1, <2>2
<1>15. ASSUME NEW i \in 1..((k + 1) - 1)
       PROVE  Awaits(loads'[i], loads'[i + 1], icon_themes')
  <2>0. i \in 1..k /\ loads'[i] = loads[i]  BY <1>2
  <2>1. CASE i \in 1..(k - 1)
    <3>1. i + 1 \in 1..k /\ loads'[i + 1] = loads[i + 1]  BY <1>2, <2>1
    <3>2. Awaits(loads[i], loads[i + 1], icon_themes)  BY <1>5, <2>1
    <3>3. loads[i + 1].theme + 1 \in 1..n
      <4>1. IsCall(loads[i + 1], icon_themes, d, s)  BY <1>4, <3>1
      <4> QED  BY <1>2, <4>1 DEF IsCall, n
    <3> QED  BY <1>2, <2>0, <3>1, <3>2, <3>3 DEF Awaits
  <2>2. CASE i = k
    <3>1. loads[k].left # <<>> /\ Head(loads[k].left) = name
      <4>1. k # 0  BY <1>2, <2>0
      <4> QED  BY <1>8, <4>1
    <3> QED  BY <1>2, <2>0, <2>2, <3>1 DEF Awaits, t
  <2> QED  BY <1>2, <2>0, <2>1, <2>2
<1>16. ASSUME NEW j \in 1..(n + 1), \A i \in 1..(k + 1) : loads'[i].theme + 1 # j
       PROVE  IsComplete(icon_themes'[j], d, s)
  <2>1. k + 1 \in 1..(k + 1) /\ \A i \in 1..k : i \in 1..(k + 1)  BY <1>2
  <2>2. j # n + 1  BY <1>2, <1>16, <2>1
  <2>3. j \in 1..n  BY <1>2, <2>2
  <2>4. \A i \in 1..k : loads[i].theme + 1 # j  BY <1>2, <1>16, <2>1
  <2> QED  BY <1>2, <1>7, <2>3, <2>4
<1> QED  BY <1>2, <1>3, <1>9, <1>12, <1>14, <1>15, <1>16 DEF Sound

(* An index that is stored is what the next name means. *)
LEMMA StoreSound ==
  ASSUME NEW d, NEW s, NEW stack, Sound(stack, icon_themes, d, s), stack # <<>>,
         Last(stack).left # <<>>, NEW index,
         Resolves(index, Head(Last(stack).left), icon_themes, d, s),
         StoreInherited(stack, index)
  PROVE  Sound(loads', icon_themes', d, s) /\ Grown(icon_themes, icon_themes')
<1> DEFINE n == Len(icon_themes)
           k == Len(stack)
           at == stack[k].theme + 1
           left == stack[k].left
           old == icon_themes[at].inherits_index
           names == NamesOf(d, s, icon_themes[at].subdir_theme)
<1>0. Nested(stack, icon_themes)  BY DEF Sound
<1>1. /\ n \in Nat /\ k \in Nat \ {0} /\ Last(stack) = stack[k] /\ at \in 1..n
      /\ Len(icon_themes') = n
      /\ \A i \in 1..n :
           /\ icon_themes'[i].subdir_theme = icon_themes[i].subdir_theme
           /\ icon_themes'[i].location = icon_themes[i].location
           /\ icon_themes'[i].inherits_index
                = IF i = at THEN Append(old, index) ELSE icon_themes[i].inherits_index
      /\ Len(loads') = k
      /\ \A i \in 1..k :
           /\ loads'[i].theme = stack[i].theme
           /\ loads'[i].left = IF i = k THEN Tail(left) ELSE stack[i].left
  BY <1>0, Stored
<1>2. Nested(loads', icon_themes')  BY <1>0, StoreNests
<1>3. /\ \A i \in 1..k : IsCall(stack[i], icon_themes, d, s)
      /\ \A i \in 1..(k - 1) : Awaits(stack[i], stack[i + 1], icon_themes)
      /\ \A i \in 1..n : IsTheme(icon_themes[i], icon_themes, d, s)
      /\ \A j \in 1..n : (\A i \in 1..k : stack[i].theme + 1 # j)
                            => IsComplete(icon_themes[j], d, s)
  BY DEF Sound
<1>4. \A i, j \in 1..k : i # j => stack[i].theme # stack[j].theme
  BY <1>0 DEF Nested
<1>5. Grown(icon_themes, icon_themes')
  <2>1. n <= n  BY <1>1
  <2> QED  BY <1>1, <2>1 DEF Grown
<1>6. k \in 1..k /\ k \in Nat  BY <1>1
<1>7. /\ left \in Seq(Names) /\ left # <<>>
      /\ Len(old) + Len(left) = Len(names)
      /\ \A m \in 1..Len(left) : left[m] = names[Len(old) + m]
  BY <1>1, <1>3, <1>6 DEF IsCall
<1>8. /\ old \in Seq(Int)
      /\ \A j \in 1..Len(old) : Resolves(old[j], names[j], icon_themes, d, s)
  BY <1>1, <1>3 DEF IsTheme
<1>9. /\ Tail(left) \in Seq(Names) /\ Len(Tail(left)) = Len(left) - 1
      /\ \A m \in 1..(Len(left) - 1) : Tail(left)[m] = left[m + 1]
      /\ Head(left) = left[1] /\ Len(left) \in Nat \ {0}
  <2>1. /\ Tail(left) \in Seq(Names) /\ Narrowed(left, Tail(left), 1)
        /\ Len(left) \in Nat \ {0} /\ Head(left) = left[1]
    BY <1>7, TailNarrowed, EmptySeq, HeadTailProperties
  <2> HIDE DEF left
  <2>2. \A m \in 1..(Len(left) - 1) : ~(m < 1)  BY <2>1
  <2> QED  BY <2>1, <2>2 DEF Narrowed
<1>10. Resolves(index, left[1], icon_themes, d, s)  BY <1>1, <1>9
<1> HIDE DEF n, k, at, left, old, names
<1>11. index \in Int  BY <1>10 DEF Resolves
<1>12. /\ Append(old, index) \in Seq(Int) /\ Len(Append(old, index)) = Len(old) + 1
       /\ \A j \in 1..Len(old) : Append(old, index)[j] = old[j]
       /\ Append(old, index)[Len(old) + 1] = index
       /\ Len(old) \in Nat
  BY <1>8, <1>11, AppendProperties, LenProperties
<1>13. IsTheme(icon_themes'[at], icon_themes', d, s)
  <2>1. IsTheme(icon_themes[at], icon_themes, d, s)  BY <1>1, <1>3
  <2>2. Len(old) + 1 <= Len(names)  BY <1>7, <1>9, <1>12
  <2>3. ASSUME NEW j \in 1..(Len(old) + 1)
        PROVE  Resolves(Append(old, index)[j], names[j], icon_themes', d, s)
    <3>1. CASE j \in 1..Len(old)
      <4>1. Resolves(old[j], names[j], icon_themes, d, s)  BY <1>8, <3>1
      <4>2. Resolves(old[j], names[j], icon_themes', d, s)  BY <1>5, <4>1, StillResolves
      <4> QED  BY <1>12, <3>1, <4>2
    <3>2. CASE j = Len(old) + 1
      <4>1. 1 \in 1..Len(left)  BY <1>9
      <4>2. left[1] = names[Len(old) + 1]  BY <1>7, <4>1
      <4>3. Resolves(index, left[1], icon_themes', d, s)  BY <1>5, <1>10, StillResolves
      <4> QED  BY <1>12, <3>2, <4>2, <4>3
    <3> QED  BY <1>12, <3>1, <3>2
  <2>4. /\ icon_themes'[at].subdir_theme = icon_themes[at].subdir_theme
        /\ icon_themes'[at].location = icon_themes[at].location
        /\ icon_themes'[at].inherits_index = Append(old, index)
    BY <1>1
  <2> QED  BY <1>12, <2>1, <2>2, <2>3, <2>4 DEF IsTheme, names
<1>14. ASSUME NEW i \in 1..n  PROVE IsTheme(icon_themes'[i], icon_themes', d, s)
  <2>1. CASE i = at  BY <1>13, <2>1
  <2>2. CASE i # at
    <3>1. IsTheme(icon_themes[i], icon_themes', d, s)  BY <1>3, <1>5, StillTheme
    <3>2. /\ icon_themes'[i].subdir_theme = icon_themes[i].subdir_theme
          /\ icon_themes'[i].location = icon_themes[i].location
          /\ icon_themes'[i].inherits_index = icon_themes[i].inherits_index
      BY <1>1, <2>2
    <3> QED  BY <3>1, <3>2 DEF IsTheme
  <2> QED  BY <2>1, <2>2
<1>15. IsCall(loads'[k], icon_themes', d, s)
  <2>1. loads'[k].theme = stack[k].theme /\ loads'[k].left = Tail(left)
    BY <1>1, <1>6
  <2>2. stack[k].theme \in 0..(n - 1)  BY <1>3, <1>6 DEF IsCall, n
  <2>3. stack[k].theme + 1 = at  BY DEF at
  <2>4. /\ icon_themes'[at].subdir_theme = icon_themes[at].subdir_theme
        /\ icon_themes'[at].inherits_index = Append(old, index)
    BY <1>1
  <2>5. (Len(old) + 1) + (Len(left) - 1) = Len(names)
    <3>1. (Len(old) + 1) + (Len(left) - 1) = Len(old) + Len(left)  BY <1>9, <1>12
    <3> QED  BY <1>7, <3>1
  <2>6. ASSUME NEW m \in 1..(Len(left) - 1)
        PROVE  Tail(left)[m] = names[(Len(old) + 1) + m]
    <3>1. m + 1 \in 1..Len(left) /\ Len(old) + (m + 1) = (Len(old) + 1) + m
      BY <1>9, <1>12
    <3> QED  BY <1>7, <1>9, <3>1
  <2> DEFINE new == Append(old, index)
             rest == Tail(left)
  <2>7. Len(new) = Len(old) + 1 /\ Len(rest) = Len(left) - 1 /\ rest \in Seq(Names)
    BY <1>9, <1>12
  <2>8. /\ loads'[k].theme = stack[k].theme /\ loads'[k].left = rest
        /\ icon_themes'[at].inherits_index = new
    BY <2>1, <2>4
  <2>9. Len(new) + Len(rest) = Len(names)  BY <2>5, <2>7
  <2>10. \A m \in 1..Len(rest) : rest[m] = names[Len(new) + m]  BY <2>6, <2>7
  <2> HIDE DEF new, rest
  <2>11. NamesOf(d, s, icon_themes'[at].subdir_theme) = names  BY <2>4 DEF names
  <2> QED  BY <1>1, <2>2, <2>3, <2>7, <2>8, <2>9, <2>10, <2>11 DEF IsCall
<1>16. ASSUME NEW i \in 1..k  PROVE IsCall(loads'[i], icon_themes', d, s)
  <2>1. CASE i = k  BY <1>15, <2>1
  <2>2. CASE i # k
    <3>1. loads'[i].theme = stack[i].theme /\ loads'[i].left = stack[i].left
      BY <1>1, <2>2
    <3>2. IsCall(stack[i], icon_themes, d, s)  BY <1>3
    <3>3. stack[i].theme \in Nat /\ stack[i].theme + 1 \in 1..n
      BY <1>1, <3>2 DEF IsCall, n
    <3>4. stack[i].theme + 1 # at
      <4>1. stack[i].theme # stack[k].theme  BY <1>4, <1>6, <2>2 DEF k
      <4>2. stack[k].theme \in Nat
        <5>1. IsCall(stack[k], icon_themes, d, s)  BY <1>3, <1>6
        <5> QED  BY <1>1, <5>1 DEF IsCall, n
      <4> QED  BY <3>3, <4>1, <4>2 DEF at
    <3>5. icon_themes'[stack[i].theme + 1].inherits_index
            = icon_themes[stack[i].theme + 1].inherits_index
      BY <1>1, <3>3, <3>4
    <3> QED  BY <1>5, <3>1, <3>2, <3>3, <3>5, StillCall
  <2> QED  BY <2>1, <2>2
<1>17. ASSUME NEW i \in 1..(k - 1)
       PROVE  Awaits(loads'[i], loads'[i + 1], icon_themes')
  <2>1. i \in 1..k /\ i + 1 \in 1..k /\ i # k  BY <1>6
  <2>2. Awaits(stack[i], stack[i + 1], icon_themes)  BY <1>3
  <2>3. /\ loads'[i].left = stack[i].left
        /\ loads'[i + 1].theme = stack[i + 1].theme
    BY <1>1, <2>1
  <2>4. stack[i + 1].theme + 1 \in 1..n
    <3>1. IsCall(stack[i + 1], icon_themes, d, s)  BY <1>3, <2>1
    <3> QED  BY <1>1, <3>1 DEF IsCall, n
  <2> QED  BY <1>1, <2>2, <2>3, <2>4 DEF Awaits
<1>18. ASSUME NEW j \in 1..n, \A i \in 1..k : loads'[i].theme + 1 # j
       PROVE  IsComplete(icon_themes'[j], d, s)
  <2>1. \A i \in 1..k : stack[i].theme + 1 # j  BY <1>1, <1>18
  <2>2. j # at  BY <1>6, <2>1 DEF at
  <2>3. IsComplete(icon_themes[j], d, s)  BY <1>3, <2>1
  <2> QED  BY <1>1, <2>2, <2>3 DEF IsComplete
<1> QED  BY <1>1, <1>2, <1>5, <1>14, <1>16, <1>17, <1>18 DEF Sound

---------------------------------------------------------------------------
(* The default themes                                                      *)

Chosen(d, s) ==
  IF \E i \in DOMAIN s.icon_theme : There(d, s, s.icon_theme[i])
    THEN s.icon_theme ELSE <<"hicolor">>

(* The names load_icon_themes goes through in each phase *)
ListOf(ph, d, s) ==
  CASE ph = "configured" -> s.icon_theme
    [] ph = "fallback"   -> <<"hicolor">>
    [] ph = "loaded"     -> Chosen(d, s)

(* at[k] is the place in the list of the k-th default theme; all that is   *)
(* there of the first names of the list has become a default theme.        *)
Leads(at, done, list, themes, defaults, d, s) ==
  /\ at \in [1..Len(defaults) -> 1..done]
  /\ \A j, k \in 1..Len(defaults) : j < k => at[j] < at[k]
  /\ \A k \in 1..Len(defaults) : themes[defaults[k] + 1].subdir_theme = list[at[k]]
  /\ \A i \in 1..done : There(d, s, list[i]) => \E k \in 1..Len(defaults) : at[k] = i

Taken(list, rest, themes, defaults, d, s) ==
  /\ list \in Seq(Names) /\ rest \in Seq(Names) /\ Len(rest) <= Len(list)
  /\ \A m \in 1..Len(rest) : rest[m] = list[(Len(list) - Len(rest)) + m]
  /\ defaults \in Seq(Nat) /\ \A k \in 1..Len(defaults) : defaults[k] < Len(themes)
  /\ \E at : Leads(at, Len(list) - Len(rest), list, themes, defaults, d, s)

LEMMA TakenGrows ==
  ASSUME NEW themes, NEW more, Grown(themes, more), NEW list, NEW rest, NEW defaults,
         NEW d, NEW s, Taken(list, rest, themes, defaults, d, s)
  PROVE  Taken(list, rest, more, defaults, d, s)
<1> DEFINE done == Len(list) - Len(rest)
<1>1. defaults \in Seq(Nat) /\ \A k \in 1..Len(defaults) : defaults[k] < Len(themes)
  BY DEF Taken
<1>2. ASSUME NEW k \in 1..Len(defaults)
      PROVE  defaults[k] < Len(more) /\ defaults[k] + 1 \in 1..Len(themes)
  <2>1. defaults[k] \in Nat /\ defaults[k] < Len(themes)  BY <1>1, ElementOfSeq
  <2> QED  BY <2>1 DEF Grown
<1>3. PICK at : Leads(at, done, list, themes, defaults, d, s)  BY DEF Taken
<1>4. Leads(at, done, list, more, defaults, d, s)
  BY <1>2, <1>3 DEF Leads, Grown
<1> QED  BY <1>2, <1>4 DEF Taken

LEMMA TakenStarts ==
  ASSUME NEW list \in Seq(Names), NEW themes, NEW d, NEW s
  PROVE  Taken(list, list, themes, <<>>, d, s)
<1> DEFINE none == <<>>
           at == [k \in 1..0 |-> 1]
<1>1. none \in Seq(Nat) /\ Len(none) = 0 /\ Len(list) \in Nat  BY EmptySeq, LenProperties
<1> HIDE DEF none
<1>2. 1..0 = {} /\ Len(list) - Len(list) = 0 /\ Len(list) <= Len(list)  BY <1>1
<1>3. at \in [1..Len(none) -> 1..0]  BY <1>1, <1>2
<1> HIDE DEF at
<1>4. Leads(at, 0, list, themes, none, d, s)  BY <1>1, <1>2, <1>3 DEF Leads
<1>5. \A m \in 1..Len(list) : list[m] = list[0 + m]  BY <1>1
<1> QED  BY <1>1, <1>2, <1>4, <1>5 DEF Taken, none

(* The next name, when no theme of that name is there. *)
LEMMA TailOfRest ==
  ASSUME NEW list \in Seq(Names), NEW rest \in Seq(Names), Len(rest) <= Len(list),
         \A m \in 1..Len(rest) : rest[m] = list[(Len(list) - Len(rest)) + m],
         rest # <<>>
  PROVE  /\ Tail(rest) \in Seq(Names) /\ Len(Tail(rest)) <= Len(list)
         /\ Len(list) - Len(rest) \in Nat
         /\ Len(list) - Len(Tail(rest)) = (Len(list) - Len(rest)) + 1
         /\ \A m \in 1..Len(Tail(rest)) :
              Tail(rest)[m] = list[(Len(list) - Len(Tail(rest))) + m]
         /\ Head(rest) = list[(Len(list) - Len(rest)) + 1]
<1> DEFINE t == Tail(rest)
           r == Len(rest)
           l == Len(list)
<1>1. t \in Seq(Names) /\ Narrowed(rest, t, 1) /\ r \in Nat \ {0} /\ l \in Nat
      /\ Head(rest) = rest[1]
  BY TailNarrowed, EmptySeq, HeadTailProperties, LenProperties
<1> HIDE DEF t
<1>2. Len(t) = r - 1 /\ \A m \in 1..(r - 1) : t[m] = rest[m + 1]
  <2>1. \A m \in 1..(r - 1) : ~(m < 1)  BY <1>1
  <2> QED  BY <1>1, <2>1 DEF Narrowed
<1>3. \A m \in 1..r : rest[m] = list[(l - r) + m]  OBVIOUS
<1> HIDE DEF r, l
<1>4. l - r \in Nat /\ l - (r - 1) = (l - r) + 1 /\ r - 1 <= l /\ 1 \in 1..r
  BY <1>1 DEF r, l
<1>5. ASSUME NEW m \in 1..(r - 1)  PROVE t[m] = list[((l - r) + 1) + m]
  <2>1. m + 1 \in 1..r /\ (l - r) + (m + 1) = ((l - r) + 1) + m  BY <1>1, <1>4
  <2> QED  BY <1>2, <1>3, <2>1
<1> QED  BY <1>1, <1>2, <1>3, <1>4, <1>5 DEF t, r, l

LEMMA TakenSkips ==
  ASSUME NEW themes, NEW list, NEW rest, NEW defaults, NEW d, NEW s,
         Taken(list, rest, themes, defaults, d, s), rest # <<>>, ~There(d, s, Head(rest))
  PROVE  Taken(list, Tail(rest), themes, defaults, d, s)
<1> DEFINE done == Len(list) - Len(rest)
           t == Tail(rest)
<1>1. /\ t \in Seq(Names) /\ Len(t) <= Len(list) /\ done \in Nat
      /\ Len(list) - Len(t) = done + 1
      /\ \A m \in 1..Len(t) : t[m] = list[(Len(list) - Len(t)) + m]
      /\ Head(rest) = list[done + 1]
  BY TailOfRest DEF Taken
<1>2. PICK at : Leads(at, done, list, themes, defaults, d, s)  BY DEF Taken
<1> HIDE DEF done, t
<1>3. 1..done \subseteq 1..(done + 1)  BY <1>1
<1>4. at \in [1..Len(defaults) -> 1..(done + 1)]  BY <1>2, <1>3 DEF Leads
<1>5. \A i \in 1..(done + 1) : i \in 1..done \/ i = done + 1  BY <1>1
<1>6. Leads(at, done + 1, list, themes, defaults, d, s)
  BY <1>1, <1>2, <1>4, <1>5 DEF Leads
<1> QED  BY <1>1, <1>6 DEF Taken, t

(* The next name, when its theme has been loaded. *)
LEMMA TakenAdds ==
  ASSUME NEW themes, NEW list, NEW rest, NEW defaults, NEW d, NEW s,
         Taken(list, rest, themes, defaults, d, s), rest # <<>>,
         NEW index \in Nat, index < Len(themes),
         themes[index + 1].subdir_theme = Head(rest)
  PROVE  Taken(list, Tail(rest), themes, Append(defaults, index), d, s)
<1> DEFINE done == Len(list) - Len(rest)
           t == Tail(rest)
           n == Len(defaults)
           more == Append(defaults, index)
<1>1. /\ t \in Seq(Names) /\ Len(t) <= Len(list) /\ done \in Nat
      /\ Len(list) - Len(t) = done + 1
      /\ \A m \in 1..Len(t) : t[m] = list[(Len(list) - Len(t)) + m]
      /\ Head(rest) = list[done + 1]
  BY TailOfRest DEF Taken
<1>2. PICK at : Leads(at, done, list, themes, defaults, d, s)  BY DEF Taken
<1>3. defaults \in Seq(Nat) /\ \A k \in 1..n : defaults[k] < Len(themes)  BY DEF Taken
<1>4. /\ more \in Seq(Nat) /\ Len(more) = n + 1 /\ n \in Nat
      /\ \A k \in 1..n : more[k] = defaults[k]
      /\ more[n + 1] = index
  BY <1>3, AppendProperties, LenProperties
<1> HIDE DEF done, t, more
<1> DEFINE to == [k \in 1..(n + 1) |-> IF k = n + 1 THEN done + 1 ELSE at[k]]
<1>5. /\ at \in [1..n -> 1..done]
      /\ \A j, k \in 1..n : j < k => at[j] < at[k]
      /\ \A k \in 1..n : themes[defaults[k] + 1].subdir_theme = list[at[k]]
      /\ \A i \in 1..done : There(d, s, list[i]) => \E k \in 1..n : at[k] = i
  BY <1>2 DEF Leads
<1> HIDE DEF n
<1>6. /\ \A k \in 1..n : k \in 1..(n + 1) /\ k # n + 1
      /\ \A k \in 1..(n + 1) : k \in 1..n \/ k = n + 1
      /\ n + 1 \in 1..(n + 1)
  BY <1>4
<1>7. (\A k \in 1..n : to[k] = at[k] /\ at[k] \in 1..done) /\ to[n + 1] = done + 1
  BY <1>5, <1>6
<1>8. to \in [1..(n + 1) -> 1..(done + 1)]
  <2>1. \A k \in 1..(n + 1) : to[k] \in 1..(done + 1)
    <3> TAKE k \in 1..(n + 1)
    <3>1. CASE k \in 1..n
      <4>1. to[k] \in 1..done  BY <1>7, <3>1
      <4> QED  BY <1>1, <4>1
    <3>2. CASE k = n + 1  BY <1>1, <1>7, <3>2
    <3> QED  BY <1>6, <3>1, <3>2
  <2>2. to = [k \in 1..(n + 1) |-> to[k]]  OBVIOUS
  <2> HIDE DEF to
  <2> QED  BY <2>1, <2>2
<1> HIDE DEF to
<1>9. ASSUME NEW j \in 1..(n + 1), NEW k \in 1..(n + 1), j < k  PROVE to[j] < to[k]
  <2>1. j \in 1..n  BY <1>4, <1>9
  <2>2. CASE k \in 1..n  BY <1>5, <1>7, <1>9, <2>1, <2>2
  <2>3. CASE k = n + 1
    <3>1. to[j] \in 1..done  BY <1>7, <2>1
    <3> QED  BY <1>1, <1>7, <2>3, <3>1
  <2> QED  BY <1>6, <2>2, <2>3
<1>10. \A k \in 1..(n + 1) : themes[more[k] + 1].subdir_theme = list[to[k]]
  BY <1>1, <1>4, <1>5, <1>6, <1>7
<1>11. \A i \in 1..(done + 1) : There(d, s, list[i]) => \E k \in 1..(n + 1) : to[k] = i
  <2> SUFFICES ASSUME NEW i \in 1..(done + 1), There(d, s, list[i])
               PROVE  \E k \in 1..(n + 1) : to[k] = i
    OBVIOUS
  <2>1. i \in 1..done \/ i = done + 1  BY <1>1
  <2>2. CASE i = done + 1  BY <1>6, <1>7, <2>2
  <2>3. CASE i \in 1..done
    <3>1. PICK k \in 1..n : at[k] = i  BY <1>5, <2>3
    <3> QED  BY <1>6, <1>7, <3>1
  <2> QED  BY <2>1, <2>2, <2>3
<1>12. Leads(to, done + 1, list, themes, more, d, s)
  BY <1>4, <1>8, <1>9, <1>10, <1>11 DEF Leads
<1>13. \A k \in 1..(n + 1) : more[k] < Len(themes)  BY <1>3, <1>4, <1>6 DEF n
<1>14. list \in Seq(Names)  BY DEF Taken
<1> QED  BY <1>1, <1>4, <1>12, <1>13, <1>14 DEF Taken, t, more

(* Without a default theme after the last name, none of the names is there. *)
LEMMA NoneTaken ==
  ASSUME NEW themes, NEW list, NEW defaults, NEW d, NEW s,
         Taken(list, <<>>, themes, defaults, d, s), defaults = <<>>
  PROVE  ~ \E i \in DOMAIN list : There(d, s, list[i])
<1>1. PICK at : Leads(at, Len(list) - Len(<<>>), list, themes, defaults, d, s)  BY DEF Taken
<1>2. Len(<<>>) = 0 /\ Len(list) \in Nat /\ DOMAIN list = 1..Len(list)
  BY EmptySeq, LenProperties DEF Taken
<1>3. 1..Len(defaults) = {} /\ Len(list) - 0 = Len(list)  BY <1>2
<1> QED  BY <1>1, <1>2, <1>3 DEF Leads

(* With one, a name is there. *)
LEMMA SomeTaken ==
  ASSUME NEW themes, NEW list, NEW rest, NEW defaults, NEW d, NEW s,
         Taken(list, rest, themes, defaults, d, s), defaults # <<>>,
         \A k \in 1..Len(themes) : IsTheme(themes[k], themes, d, s), Len(themes) \in Nat
  PROVE  \E i \in DOMAIN list : There(d, s, list[i])
<1>1. PICK at : Leads(at, Len(list) - Len(rest), list, themes, defaults, d, s)  BY DEF Taken
<1>2. /\ Len(list) \in Nat /\ DOMAIN list = 1..Len(list) /\ Len(rest) \in Nat
      /\ Len(defaults) \in Nat \ {0}
  BY EmptySeq, LenProperties DEF Taken
<1>3. 1 \in 1..Len(defaults)  BY <1>2
<1>4. at[1] \in 1..(Len(list) - Len(rest))  BY <1>1, <1>3 DEF Leads
<1>5. at[1] \in DOMAIN list  BY <1>2, <1>4
<1>6. defaults[1] + 1 \in 1..Len(themes)
  <2>1. defaults[1] \in Nat /\ defaults[1] < Len(themes)  BY <1>3, ElementOfSeq DEF Taken
  <2> QED  BY <2>1
<1>7. There(d, s, themes[defaults[1] + 1].subdir_theme)  BY <1>6 DEF IsTheme
<1>8. themes[defaults[1] + 1].subdir_theme = list[at[1]]  BY <1>1, <1>3 DEF Leads
<1> QED  BY <1>5, <1>7, <1>8

---------------------------------------------------------------------------
(* Loading                                                                 *)

(* The first call loads the theme that is wanted next. *)
Bottom(stack, rest, themes) ==
  stack # <<>> =>
    rest # <<>> /\ Head(rest) = themes[stack[1].theme + 1].subdir_theme

(* The theme of index 0, which find_icon_in_theme_with_inherit skips, is   *)
(* the first default theme, or becomes it.                                 *)
FirstIsDefault(themes, defaults, stack) ==
  Len(themes) > 0 =>
    IF defaults = <<>> THEN stack # <<>> /\ stack[1].theme = 0 ELSE defaults[1] = 0

Lookup(themes, defaults, rest, stack, ph, d, s) ==
  /\ Sound(stack, themes, d, s)
  /\ s.enable_recursive_icon_lookup =>
       /\ ph \in {"configured", "fallback", "loaded"}
       /\ Taken(ListOf(ph, d, s), rest, themes, defaults, d, s)
       /\ Bottom(stack, rest, themes)
       /\ FirstIsDefault(themes, defaults, stack)
       /\ ph = "fallback" => ~ \E i \in DOMAIN s.icon_theme : There(d, s, s.icon_theme[i])
  /\ ph = "loaded" => stack = <<>> /\ rest = <<>>
  /\ ~s.enable_recursive_icon_lookup => ph = "loaded"

(* get_icon_theme answers with the index of a theme of that name. *)
LEMMA KnownResolves ==
  ASSUME AreThemes(icon_themes), NEW name, GetIconTheme(name) # -1, NEW d, NEW s
  PROVE  Resolves(GetIconTheme(name), name, icon_themes, d, s)
<1> DEFINE found == {i \in DOMAIN icon_themes : icon_themes[i].subdir_theme = name}
           first == CHOOSE i \in found : \A j \in found : i <= j
<1>1. DOMAIN icon_themes = 1..Len(icon_themes) /\ Len(icon_themes) \in Nat
  BY LenProperties DEF AreThemes
<1>2. found # {}  BY DEF GetIconTheme
<1>3. found \in SUBSET Nat  BY <1>1
<1>4. \E i \in found : \A j \in found : i <= j  BY <1>2, <1>3, MinExists
<1>5. first \in found  BY <1>4
<1>6. GetIconTheme(name) = first - 1  BY <1>2 DEF GetIconTheme
<1>7. first \in 1..Len(icon_themes) /\ icon_themes[first].subdir_theme = name
  BY <1>1, <1>5
<1> HIDE DEF first
<1>8. first - 1 \in 0..(Len(icon_themes) - 1) /\ (first - 1) + 1 = first  BY <1>1, <1>7
<1> QED  BY <1>6, <1>7, <1>8 DEF Resolves

(* Nothing is loaded yet. *)
LEMMA NothingSound ==
  ASSUME NEW d, NEW s
  PROVE  Sound(<<>>, <<>>, d, s)
<1> DEFINE none == <<>>
<1>1. Len(none) = 0  BY EmptySeq
<1>2. Nested(none, none)  BY NothingNested
<1> HIDE DEF none
<1>3. 1..Len(none) = {} /\ 1..(Len(none) - 1) = {}  BY <1>1
<1>4. Sound(none, none, d, s)  BY <1>2, <1>3 DEF Sound
<1> QED  BY <1>4 DEF none

LEMMA LookupStarts ==
  ASSUME NEW d, NEW s, s.icon_theme \in Seq(Names), NEW ph, NEW rest,
         ph = (IF s.enable_recursive_icon_lookup THEN "configured" ELSE "loaded"),
         rest = (IF s.enable_recursive_icon_lookup THEN s.icon_theme ELSE <<>>)
  PROVE  Lookup(<<>>, <<>>, rest, <<>>, ph, d, s)
<1>1. Sound(<<>>, <<>>, d, s)  BY NothingSound
<1>2. CASE s.enable_recursive_icon_lookup
  <2>1. ph = "configured" /\ rest = s.icon_theme  BY <1>2
  <2>2. Taken(s.icon_theme, s.icon_theme, <<>>, <<>>, d, s)  BY TakenStarts
  <2>3. ListOf(ph, d, s) = s.icon_theme  BY <2>1 DEF ListOf
  <2>4. ~(Len(<<>>) > 0)  BY EmptySeq
  <2> QED  BY <1>1, <1>2, <2>1, <2>2, <2>3, <2>4 DEF Lookup, Bottom, FirstIsDefault
<1>3. CASE ~s.enable_recursive_icon_lookup
  BY <1>1, <1>3 DEF Lookup
<1> QED  BY <1>2, <1>3

(* What is loaded next is a theme of a configured name. *)
LEMMA LoadNextFinds ==
  ASSUME NamesAreRows(disk, settings),
         Lookup(icon_themes, default_themes_index, wanted, loads, phase, disk, settings),
         settings.enable_recursive_icon_lookup, LoadNext
  PROVE  Lookup(icon_themes', default_themes_index', wanted', loads', phase', disk, settings)
<1> DEFINE name == Head(wanted)
           list == ListOf(phase, disk, settings)
<1>1. /\ loads = <<>> /\ wanted # <<>> /\ default_themes_index' = default_themes_index
      /\ phase' = phase
  BY DEF LoadNext
<1>2. /\ Sound(loads, icon_themes, disk, settings)
      /\ Taken(list, wanted, icon_themes, default_themes_index, disk, settings)
      /\ FirstIsDefault(icon_themes, default_themes_index, loads)
      /\ phase \in {"configured", "fallback", "loaded"}
      /\ phase # "loaded"
      /\ phase = "fallback" =>
           ~ \E i \in DOMAIN settings.icon_theme : There(disk, settings, settings.icon_theme[i])
  BY <1>1 DEF Lookup
<1> HIDE DEF list
<1>3. CASE IsOnDisk(name)
  <2>1. OpenTheme(name) /\ wanted' = wanted  BY <1>3 DEF LoadNext
  <2>2. Len(loads) = 0  BY <1>1, EmptySeq
  <2>3. 1..Len(loads) = {}  BY <2>2
  <2>4. /\ Sound(loads', icon_themes', disk, settings) /\ Grown(icon_themes, icon_themes')
    <3> HIDE DEF name
    <3> QED  BY <1>1, <1>2, <1>3, <2>1, <2>3, OpenSound, OnThisDisk
  <2>5. /\ Len(icon_themes) \in Nat /\ Len(loads') = 1
        /\ icon_themes'[Len(icon_themes) + 1].subdir_theme = name
        /\ loads'[1].theme = Len(icon_themes)
        /\ Len(icon_themes') = Len(icon_themes) + 1
    <3> HIDE DEF name
    <3>1. Nested(loads, icon_themes)  BY <1>2 DEF Sound
    <3> QED  BY <2>1, <2>2, <3>1, Opened
  <2>6. loads' # <<>>
    <3>1. Len(<<>>) = 0  BY EmptySeq
    <3>2. Len(loads') = 1  BY <2>5
    <3>3. Len(loads') # Len(<<>>)  BY <3>1, <3>2
    <3> QED  BY <3>3
  <2>7. Taken(list, wanted', icon_themes', default_themes_index', disk, settings)
    BY <1>1, <1>2, <2>1, <2>4, TakenGrows
  <2>8. Bottom(loads', wanted', icon_themes')  BY <1>1, <2>1, <2>5 DEF Bottom
  <2>9. FirstIsDefault(icon_themes', default_themes_index', loads')
    <3>1. CASE Len(icon_themes) > 0
      <4>1. default_themes_index # <<>> /\ default_themes_index[1] = 0
        BY <1>1, <1>2, <3>1 DEF FirstIsDefault
      <4> QED  BY <1>1, <4>1 DEF FirstIsDefault
    <3>2. CASE Len(icon_themes) = 0
      <4>1. default_themes_index = <<>>
        <5>1. /\ default_themes_index \in Seq(Nat)
              /\ \A k \in 1..Len(default_themes_index) : default_themes_index[k] < 0
          BY <1>2, <3>2 DEF Taken
        <5>2. \A k \in 1..Len(default_themes_index) : default_themes_index[k] \in Nat
          BY <5>1, ElementOfSeq
        <5>3. 1..Len(default_themes_index) = {}  BY <5>1, <5>2
        <5>4. Len(default_themes_index) \in Nat  BY <5>1, LenProperties
        <5>5. Len(default_themes_index) = 0
          <6>1. 1 \notin 1..Len(default_themes_index)  BY <5>3
          <6> QED  BY <5>4, <6>1
        <5> QED  BY <5>1, <5>5, EmptySeq
      <4> QED  BY <1>1, <2>5, <2>6, <3>2, <4>1 DEF FirstIsDefault
    <3> QED  BY <2>5, <3>1, <3>2
  <2> QED  BY <1>1, <1>2, <2>4, <2>7, <2>8, <2>9 DEF Lookup, list
<1>4. CASE ~IsOnDisk(name)
  <2>1. wanted' = Tail(wanted) /\ loads' = loads /\ icon_themes' = icon_themes
    BY <1>4 DEF LoadNext
  <2>2. ~There(disk, settings, Head(wanted))  BY <1>4, OnThisDisk
  <2>3. Taken(list, Tail(wanted), icon_themes, default_themes_index, disk, settings)
    BY <1>1, <1>2, <2>2, TakenSkips
  <2> QED  BY <1>1, <1>2, <2>1, <2>3 DEF Lookup, Bottom, list
<1> QED  BY <1>3, <1>4

(* What a step of the recursion leaves alone. *)
LEMMA GrownStays ==
  ASSUME NEW themes, NEW more, NEW stack, NEW next, NEW d, NEW s,
         Sound(stack, themes, d, s), Sound(next, more, d, s), Grown(themes, more),
         stack # <<>>, next # <<>>, next[1].theme = stack[1].theme,
         NEW defaults, NEW rest, NEW ph,
         Lookup(themes, defaults, rest, stack, ph, d, s),
         s.enable_recursive_icon_lookup
  PROVE  Lookup(more, defaults, rest, next, ph, d, s)
<1>1. /\ Taken(ListOf(ph, d, s), rest, themes, defaults, d, s)
      /\ Bottom(stack, rest, themes) /\ FirstIsDefault(themes, defaults, stack)
      /\ ph # "loaded"
  BY DEF Lookup
<1>2. Taken(ListOf(ph, d, s), rest, more, defaults, d, s)  BY <1>1, TakenGrows
<1>3. stack[1].theme \in Nat /\ stack[1].theme + 1 \in 1..Len(themes)
  <2>1. PICK L : stack \in Seq([theme : Nat, left : L])  BY DEF Sound, Nested, AreCalls
  <2>2. Len(stack) \in Nat \ {0}  BY <2>1, EmptySeq
  <2>3. 1 \in 1..Len(stack)  BY <2>2
  <2>4. IsCall(stack[1], themes, d, s)  BY <2>3 DEF Sound
  <2>5. Len(themes) \in Nat  BY DEF Grown
  <2> QED  BY <2>4, <2>5 DEF IsCall
<1>4. Bottom(next, rest, more)  BY <1>1, <1>3 DEF Bottom, Grown
<1>5. FirstIsDefault(more, defaults, next)
  <2>1. Len(themes) > 0
    <3>1. Len(themes) \in Nat  BY DEF Grown
    <3> QED  BY <1>3, <3>1
  <2> QED  BY <1>1, <2>1 DEF FirstIsDefault
<1> QED  BY <1>1, <1>2, <1>4, <1>5 DEF Lookup

LEMMA InheritNextFinds ==
  ASSUME NamesAreRows(disk, settings),
         Lookup(icon_themes, default_themes_index, wanted, loads, phase, disk, settings),
         settings.enable_recursive_icon_lookup, InheritNext
  PROVE  Lookup(icon_themes', default_themes_index', wanted', loads', phase', disk, settings)
<1> DEFINE name == Head(Last(loads).left)
<1>1. /\ loads # <<>> /\ Last(loads).left # <<>>
      /\ UNCHANGED <<default_themes_index, wanted, phase>>
  BY DEF InheritNext
<1>2. Sound(loads, icon_themes, disk, settings) /\ Nested(loads, icon_themes)
  BY DEF Lookup, Sound
<1>3. ASSUME NEW index, Resolves(index, name, icon_themes, disk, settings),
             StoreInherited(loads, index)
      PROVE  /\ Sound(loads', icon_themes', disk, settings)
             /\ Grown(icon_themes, icon_themes')
             /\ loads' # <<>> /\ loads'[1].theme = loads[1].theme
  <2>1. /\ Sound(loads', icon_themes', disk, settings)
        /\ Grown(icon_themes, icon_themes')
    BY <1>1, <1>2, <1>3, StoreSound
  <2>2. /\ Len(loads) \in Nat \ {0} /\ Len(loads') = Len(loads)
        /\ \A i \in 1..Len(loads) : loads'[i].theme = loads[i].theme
    BY <1>1, <1>2, <1>3, Stored
  <2>3. 1 \in 1..Len(loads) /\ Len(loads') # 0  BY <2>2
  <2> QED  BY <2>1, <2>2, <2>3, EmptySeq
<1>4. CASE GetIconTheme(name) # -1
  <2>1. StoreInherited(loads, GetIconTheme(name))  BY <1>4 DEF InheritNext
  <2>2. Resolves(GetIconTheme(name), name, icon_themes, disk, settings)
    <3> HIDE DEF name
    <3> QED  BY <1>2, <1>4, KnownResolves DEF Nested
  <2>3. /\ Sound(loads', icon_themes', disk, settings)
        /\ Grown(icon_themes, icon_themes')
        /\ loads' # <<>> /\ loads'[1].theme = loads[1].theme
    BY <1>3, <2>1, <2>2
  <2> QED  BY <1>1, <1>2, <2>3, GrownStays
<1>5. CASE GetIconTheme(name) = -1 /\ IsOnDisk(name)
  <2>1. OpenTheme(name)  BY <1>5 DEF InheritNext
  <2> HIDE DEF name
  <2>2. \A i \in 1..Len(icon_themes) : icon_themes[i].subdir_theme # name
    BY <1>2, <1>5, NotLoaded DEF Nested
  <2>3. \A i \in 1..Len(loads) : loads[i].theme + 1 \in 1..Len(icon_themes)
    <3>1. \A i \in 1..Len(loads) : loads[i].theme \in Nat
      BY <1>2, CallsHaveThemes DEF Nested
    <3>2. Len(icon_themes) \in Nat  BY <1>2, LenProperties DEF Nested, AreThemes
    <3>3. \A i \in 1..Len(loads) : loads[i].theme < Len(icon_themes)
      BY <1>2 DEF Nested
    <3> QED  BY <3>1, <3>2, <3>3
  <2>4. \A i \in 1..Len(loads) : icon_themes[loads[i].theme + 1].subdir_theme # name
    BY <2>2, <2>3
  <2>5. Last(loads).left # <<>> /\ Head(Last(loads).left) = name  BY <1>1 DEF name
  <2>6. /\ Sound(loads', icon_themes', disk, settings)
        /\ Grown(icon_themes, icon_themes')
    BY <1>2, <1>5, <2>1, <2>4, <2>5, OpenSound, OnThisDisk
  <2>7. /\ Len(loads) \in Nat /\ Len(loads') = Len(loads) + 1
        /\ \A i \in 1..Len(loads) : loads'[i] = loads[i]
    BY <1>2, <2>1, Opened
  <2>8. Len(loads) # 0
    <3>1. PICK L : loads \in Seq([theme : Nat, left : L])  BY <1>2 DEF Nested, AreCalls
    <3> QED  BY <1>1, <3>1, EmptySeq
  <2>9. 1 \in 1..Len(loads) /\ Len(loads') # 0  BY <2>7, <2>8
  <2>10. loads' # <<>> /\ loads'[1].theme = loads[1].theme
    BY <2>7, <2>9, EmptySeq
  <2> QED  BY <1>1, <1>2, <2>6, <2>10, GrownStays
<1>6. CASE GetIconTheme(name) = -1 /\ ~IsOnDisk(name)
  <2>1. StoreInherited(loads, -1)  BY <1>6 DEF InheritNext
  <2>2. Resolves(-1, name, icon_themes, disk, settings)
    <3> HIDE DEF name
    <3> QED  BY <1>6, OnThisDisk DEF Resolves
  <2>3. /\ Sound(loads', icon_themes', disk, settings)
        /\ Grown(icon_themes, icon_themes')
        /\ loads' # <<>> /\ loads'[1].theme = loads[1].theme
    BY <1>3, <2>1, <2>2
  <2> QED  BY <1>1, <1>2, <2>3, GrownStays
<1> QED  BY <1>4, <1>5, <1>6

(* A theme that is loaded becomes a default theme, or is inherited.        *)
LEMMA ReturnIndexFinds ==
  ASSUME Lookup(icon_themes, default_themes_index, wanted, loads, phase, disk, settings),
         settings.enable_recursive_icon_lookup, ReturnIndex
  PROVE  Lookup(icon_themes', default_themes_index', wanted', loads', phase', disk, settings)
<1> DEFINE f == Front(loads)
           k == Len(loads)
           index == Last(loads).theme
           list == ListOf(phase, disk, settings)
<1>1. /\ loads # <<>> /\ Last(loads).left = <<>> /\ phase' = phase
  BY DEF ReturnIndex
<1>2. /\ Sound(loads, icon_themes, disk, settings) /\ Nested(loads, icon_themes)
      /\ Taken(list, wanted, icon_themes, default_themes_index, disk, settings)
      /\ Bottom(loads, wanted, icon_themes)
      /\ FirstIsDefault(icon_themes, default_themes_index, loads)
      /\ phase \in {"configured", "fallback", "loaded"} /\ phase # "loaded"
      /\ phase = "fallback" =>
           ~ \E i \in DOMAIN settings.icon_theme : There(disk, settings, settings.icon_theme[i])
  BY <1>1 DEF Lookup, Sound
<1>3. /\ Sound(f, icon_themes, disk, settings)
      /\ k \in Nat \ {0} /\ Len(f) = k - 1 /\ Last(loads) = loads[k]
      /\ k > 1 => /\ f # <<>> /\ Last(f).left # <<>>
                  /\ Resolves(index, Head(Last(f).left), icon_themes, disk, settings)
  BY <1>1, <1>2, ReturnSound
<1>4. Nested(f, icon_themes)  BY <1>3 DEF Sound
<1>5. \A i \in 1..(k - 1) : f[i] = loads[i]
  <2>1. PICK L : loads \in Seq([theme : Nat, left : L])  BY <1>2 DEF Nested, AreCalls
  <2>2. Narrowed(loads, f, k)  BY <1>3, <2>1, FrontNarrowed
  <2> QED  BY <1>3, <2>2 DEF Narrowed
<1>6. CASE k > 1
  <2>1. StoreInherited(f, index) /\ UNCHANGED <<default_themes_index, wanted>>
    BY <1>6 DEF ReturnIndex
  <2> HIDE DEF f, index, k
  <2>2. Sound(loads', icon_themes', disk, settings) /\ Grown(icon_themes, icon_themes')
    BY <1>3, <1>6, <2>1, StoreSound
  <2>3. /\ Len(f) \in Nat \ {0} /\ Len(loads') = Len(f)
        /\ \A i \in 1..Len(f) : loads'[i].theme = f[i].theme
    BY <1>3, <1>4, <1>6, <2>1, Stored
  <2>4. 1 \in 1..Len(f) /\ 1 \in 1..(k - 1)  BY <1>3, <2>3
  <2>5. loads'[1].theme = loads[1].theme  BY <1>5, <2>3, <2>4
  <2>6. loads' # <<>>
    <3>1. Len(<<>>) = 0  BY EmptySeq
    <3>2. Len(loads') # Len(<<>>)  BY <2>3, <3>1
    <3> QED  BY <3>2
  <2> QED  BY <1>1, <1>2, <2>1, <2>2, <2>5, <2>6, GrownStays
<1>7. CASE k = 1
  <2>1. /\ loads' = <<>> /\ default_themes_index' = Append(default_themes_index, index)
        /\ wanted' = Tail(wanted) /\ icon_themes' = icon_themes
    BY <1>7 DEF ReturnIndex
  <2>2. f = <<>>
    <3>1. PICK L : f \in Seq([theme : Nat, left : L])  BY <1>4 DEF Nested, AreCalls
    <3>2. Len(f) = 0  BY <1>3, <1>7
    <3> QED  BY <3>1, <3>2, EmptySeq
  <2>3. /\ wanted # <<>> /\ Head(wanted) = icon_themes[index + 1].subdir_theme
        /\ index = loads[1].theme
    BY <1>1, <1>2, <1>3, <1>7 DEF Bottom
  <2>4. index \in Nat /\ index < Len(icon_themes) /\ Len(icon_themes) \in Nat
    <3>1. 1 \in 1..k  BY <1>3
    <3>2. IsCall(loads[1], icon_themes, disk, settings)  BY <1>2, <3>1 DEF Sound
    <3>3. Len(icon_themes) \in Nat  BY <1>2, LenProperties DEF Nested, AreThemes
    <3> QED  BY <2>3, <3>2, <3>3 DEF IsCall
  <2> HIDE DEF f, index, k, list
  <2>5. Taken(list, Tail(wanted), icon_themes, Append(default_themes_index, index), disk, settings)
    BY <1>2, <2>3, <2>4, TakenAdds
  <2>6. FirstIsDefault(icon_themes, Append(default_themes_index, index), <<>>)
    <3> DEFINE more == Append(default_themes_index, index)
               n == Len(default_themes_index)
    <3>1. default_themes_index \in Seq(Nat) /\ n \in Nat  BY <1>2, LenProperties DEF Taken
    <3>2. /\ Len(more) = n + 1 /\ more[n + 1] = index
          /\ \A i \in 1..n : more[i] = default_themes_index[i]
      BY <2>4, <3>1, AppendProperties
    <3> HIDE DEF more
    <3>3. more # <<>>
      <4>1. Len(<<>>) = 0  BY EmptySeq
      <4>2. Len(more) # Len(<<>>)  BY <3>1, <3>2, <4>1
      <4> QED  BY <4>2
    <3>4. more[1] = 0
      <4>1. Len(icon_themes) > 0  BY <2>4
      <4>2. CASE default_themes_index = <<>>
        <5>1. n = 0  BY <4>2, EmptySeq
        <5>2. loads[1].theme = 0  BY <1>2, <4>1, <4>2 DEF FirstIsDefault
        <5> QED  BY <2>3, <3>2, <5>1, <5>2
      <4>3. CASE default_themes_index # <<>>
        <5>1. n # 0  BY <3>1, <4>3, EmptySeq
        <5>2. 1 \in 1..n  BY <3>1, <5>1
        <5>3. default_themes_index[1] = 0  BY <1>2, <4>1, <4>3 DEF FirstIsDefault
        <5> QED  BY <3>2, <5>2, <5>3
      <4> QED  BY <4>2, <4>3
    <3> QED  BY <3>3, <3>4 DEF FirstIsDefault, more
  <2>7. Sound(loads', icon_themes', disk, settings)  BY <1>3, <2>1, <2>2
  <2>8. Taken(ListOf(phase', disk, settings), wanted', icon_themes', default_themes_index',
              disk, settings)
    BY <1>1, <2>1, <2>5 DEF list
  <2>9. FirstIsDefault(icon_themes', default_themes_index', loads')  BY <2>1, <2>6
  <2>10. Bottom(loads', wanted', icon_themes')  BY <2>1 DEF Bottom
  <2> QED  BY <1>1, <1>2, <2>7, <2>8, <2>9, <2>10 DEF Lookup
<1>8. k > 1 \/ k = 1  BY <1>3
<1> QED  BY <1>6, <1>7, <1>8

(* hicolor is looked for when none of the configured themes is there.      *)
LEMMA FinishLoadingFinds ==
  ASSUME Lookup(icon_themes, default_themes_index, wanted, loads, phase, disk, settings),
         settings.enable_recursive_icon_lookup, FinishLoading
  PROVE  Lookup(icon_themes', default_themes_index', wanted', loads', phase', disk, settings)
<1>1. /\ loads = <<>> /\ wanted = <<>> /\ phase # "loaded"
      /\ UNCHANGED <<icon_themes, default_themes_index, loads>>
  BY DEF FinishLoading
<1>2. /\ Sound(loads, icon_themes, disk, settings)
      /\ Taken(ListOf(phase, disk, settings), wanted, icon_themes, default_themes_index,
               disk, settings)
      /\ FirstIsDefault(icon_themes, default_themes_index, loads)
      /\ phase \in {"configured", "fallback", "loaded"}
      /\ phase = "fallback" =>
           ~ \E i \in DOMAIN settings.icon_theme : There(disk, settings, settings.icon_theme[i])
  BY DEF Lookup
<1>3. Bottom(loads', wanted', icon_themes')  BY <1>1 DEF Bottom
<1>4. CASE phase = "configured" /\ default_themes_index = <<>>
  <2>1. phase' = "fallback" /\ wanted' = <<"hicolor">>  BY <1>4 DEF FinishLoading
  <2>2. Taken(settings.icon_theme, <<>>, icon_themes, <<>>, disk, settings)
    BY <1>1, <1>2, <1>4 DEF ListOf
  <2>3. ~ \E i \in DOMAIN settings.icon_theme : There(disk, settings, settings.icon_theme[i])
    BY <2>2, NoneTaken
  <2>4. <<"hicolor">> \in Seq(Names)  BY DEF Names
  <2>5. Taken(<<"hicolor">>, <<"hicolor">>, icon_themes, <<>>, disk, settings)
    BY <2>4, TakenStarts
  <2>6. ListOf(phase', disk, settings) = wanted'  BY <2>1 DEF ListOf
  <2>7. Taken(ListOf(phase', disk, settings), wanted', icon_themes', default_themes_index',
              disk, settings)
    BY <1>1, <1>4, <2>1, <2>5, <2>6
  <2> QED  BY <1>1, <1>2, <1>3, <2>1, <2>3, <2>7 DEF Lookup
<1>5. CASE ~(phase = "configured" /\ default_themes_index = <<>>)
  <2>1. phase' = "loaded" /\ wanted' = <<>>  BY <1>1, <1>5 DEF FinishLoading
  <2>2. ListOf(phase', disk, settings) = ListOf(phase, disk, settings)
    <3>1. ListOf(phase', disk, settings) = Chosen(disk, settings)  BY <2>1 DEF ListOf
    <3>2. CASE phase = "configured"
      <4>1. default_themes_index # <<>> /\ ListOf(phase, disk, settings) = settings.icon_theme
        BY <1>5, <3>2 DEF ListOf
      <4>2. /\ \A k \in 1..Len(icon_themes) : IsTheme(icon_themes[k], icon_themes, disk, settings)
            /\ Len(icon_themes) \in Nat
        BY <1>2, LenProperties DEF Sound, Nested, AreThemes
      <4>3. Taken(settings.icon_theme, wanted, icon_themes, default_themes_index, disk, settings)
        BY <1>2, <4>1
      <4>4. \E i \in DOMAIN settings.icon_theme : There(disk, settings, settings.icon_theme[i])
        BY <4>1, <4>2, <4>3, SomeTaken
      <4> QED  BY <3>1, <4>1, <4>4 DEF Chosen
    <3>3. CASE phase = "fallback"
      <4>1. ListOf(phase, disk, settings) = <<"hicolor">>  BY <3>3 DEF ListOf
      <4> QED  BY <1>2, <3>1, <3>3, <4>1 DEF Chosen
    <3> QED  BY <1>1, <1>2, <3>2, <3>3
  <2> QED  BY <1>1, <1>2, <1>3, <2>1, <2>2 DEF Lookup
<1> QED  BY <1>4, <1>5

LEMMA LoadStepFinds ==
  ASSUME NamesAreRows(disk, settings),
         Lookup(icon_themes, default_themes_index, wanted, loads, phase, disk, settings),
         LoadIconThemes
  PROVE  Lookup(icon_themes', default_themes_index', wanted', loads', phase', disk, settings)
<1>1. settings.enable_recursive_icon_lookup
  <2> SUFFICES ASSUME ~settings.enable_recursive_icon_lookup PROVE FALSE  OBVIOUS
  <2>1. phase = "loaded" /\ loads = <<>> /\ wanted = <<>>  BY DEF Lookup
  <2> QED
    BY <2>1 DEF LoadIconThemes, LoadNext, InheritNext, ReturnIndex, FinishLoading
<1> QED
  BY <1>1, LoadNextFinds, InheritNextFinds, ReturnIndexFinds, FinishLoadingFinds
     DEF LoadIconThemes

(* The inductive invariant: what has been loaded and stored so far is what *)
(* the names on disk mean.                                                 *)
LookupInv ==
  /\ settings \in Settings /\ \E d \in Disks : disk = d.themes
  /\ Lookup(icon_themes, default_themes_index, wanted, loads, phase, disk, settings)

LEMMA ConfiguredNames ==
  ASSUME NEW s \in Settings
  PROVE  s.icon_theme \in Seq(Names)
<1>1. s.icon_theme \in Seq(STRING)  BY LayoutAssumption
<1>2. Seq(STRING) \subseteq Seq(Names)
  <2>1. STRING \subseteq Names  BY DEF Names
  <2> QED  BY <2>1, SeqMonotonic, Zenon
<1> QED  BY <1>1, <1>2

LEMMA LookupInitHolds == LayoutInit => LookupInv
<1> SUFFICES ASSUME LayoutInit PROVE LookupInv  OBVIOUS
<1>1. settings \in Settings /\ \E d \in Disks : disk = d.themes  BY DEF LayoutInit
<1>2. settings.icon_theme \in Seq(Names)  BY <1>1, ConfiguredNames
<1>3. /\ icon_themes = <<>> /\ default_themes_index = <<>> /\ loads = <<>>
      /\ wanted = (IF settings.enable_recursive_icon_lookup THEN settings.icon_theme ELSE <<>>)
      /\ phase = (IF settings.enable_recursive_icon_lookup THEN "configured" ELSE "loaded")
  BY DEF LayoutInit
<1>4. Lookup(<<>>, <<>>, wanted, <<>>, phase, disk, settings)
  BY <1>2, <1>3, LookupStarts
<1> QED  BY <1>1, <1>3, <1>4 DEF LookupInv

LEMMA LookupStepHolds ==
  ASSUME LookupInv, [LayoutNext]_layoutVars
  PROVE  LookupInv'
<1>1. /\ settings \in Settings /\ \E d \in Disks : disk = d.themes
      /\ Lookup(icon_themes, default_themes_index, wanted, loads, phase, disk, settings)
  BY DEF LookupInv
<1>2. CASE Load
  <2>1. LoadIconThemes  BY <1>2 DEF Load
  <2>2. disk' = disk /\ settings' = settings
    BY <2>1 DEF LoadIconThemes, LoadNext, InheritNext, ReturnIndex, FinishLoading, fixedVars
  <2>3. NamesAreRows(disk, settings)  BY <1>1, NamesAreRowsOfDisk
  <2>4. Lookup(icon_themes', default_themes_index', wanted', loads', phase', disk, settings)
    BY <1>1, <2>1, <2>3, LoadStepFinds
  <2> QED  BY <1>1, <2>2, <2>4 DEF LookupInv
<1>3. ASSUME NEW s \in Settings, Reload(s)  PROVE LookupInv'
  <2>1. /\ settings' = s /\ disk' = disk
        /\ icon_themes' = <<>> /\ default_themes_index' = <<>> /\ loads' = <<>>
        /\ wanted' = (IF s.enable_recursive_icon_lookup THEN s.icon_theme ELSE <<>>)
        /\ phase' = (IF s.enable_recursive_icon_lookup THEN "configured" ELSE "loaded")
    BY <1>3 DEF Reload, StartThemes, fixedVars
  <2>2. s.icon_theme \in Seq(Names)  BY ConfiguredNames
  <2>3. Lookup(<<>>, <<>>, wanted', <<>>, phase', disk, s)
    BY <2>1, <2>2, LookupStarts
  <2> QED  BY <1>1, <2>1, <2>3 DEF LookupInv
<1>4. ASSUME UNCHANGED <<fixedVars, settings, themeVars>>  PROVE LookupInv'
  <2>1. /\ disk' = disk /\ settings' = settings /\ icon_themes' = icon_themes
        /\ default_themes_index' = default_themes_index /\ wanted' = wanted
        /\ loads' = loads /\ phase' = phase
    BY <1>4 DEF fixedVars, themeVars
  <2> QED  BY <1>1, <2>1 DEF LookupInv
<1>5. CASE \/ \E r \in Requests : Arrive(r)
           \/ \E i \in DOMAIN displayed : Leave(i)
           \/ \E y \in ClickedRows : Click(y)
           \/ Redraw
  BY <1>4, <1>5 DEF Arrive, Leave, Click, Redraw
<1>6. CASE UNCHANGED layoutVars  BY <1>4, <1>6 DEF layoutVars
<1> QED  BY <1>2, <1>3, <1>5, <1>6 DEF LayoutNext

---------------------------------------------------------------------------
(* Looking a name up                                                       *)

(* The themes when loading has ended: nothing is missing in any of them.   *)
AllLoaded ==
  /\ \A k \in 1..Len(icon_themes) :
       /\ IsTheme(icon_themes[k], icon_themes, disk, settings)
       /\ IsComplete(icon_themes[k], disk, settings)
  /\ Len(icon_themes) \in Nat
  /\ Taken(Chosen(disk, settings), <<>>, icon_themes, default_themes_index, disk, settings)
  /\ FirstIsDefault(icon_themes, default_themes_index, <<>>)
  /\ NamesAreRows(disk, settings)

LEMMA AllIsLoaded ==
  ASSUME LookupInv, phase = "loaded", settings.enable_recursive_icon_lookup
  PROVE  AllLoaded
<1>1. /\ Sound(loads, icon_themes, disk, settings) /\ loads = <<>> /\ wanted = <<>>
      /\ Taken(ListOf(phase, disk, settings), wanted, icon_themes, default_themes_index,
               disk, settings)
      /\ FirstIsDefault(icon_themes, default_themes_index, loads)
  BY DEF LookupInv, Lookup
<1>2. ListOf(phase, disk, settings) = Chosen(disk, settings)  BY DEF ListOf
<1>3. NamesAreRows(disk, settings)  BY NamesAreRowsOfDisk DEF LookupInv
<1>4. Len(icon_themes) \in Nat  BY <1>1, LenProperties DEF Sound, Nested, AreThemes
<1>5. Len(loads) = 0  BY <1>1, EmptySeq
<1>6. \A i \in 1..Len(loads) : FALSE  BY <1>5
<1>7. \A k \in 1..Len(icon_themes) :
        /\ IsTheme(icon_themes[k], icon_themes, disk, settings)
        /\ IsComplete(icon_themes[k], disk, settings)
  BY <1>1, <1>6 DEF Sound
<1> QED  BY <1>1, <1>2, <1>3, <1>4, <1>7 DEF AllLoaded

(* A loaded theme has the icons of its folder on disk.                     *)
LEMMA SameIcon ==
  ASSUME AllLoaded, NEW index \in Int, index \in 0..(Len(icon_themes) - 1), NEW name, NEW size
  PROVE  /\ There(disk, settings, icon_themes[index + 1].subdir_theme)
         /\ FindIconInTheme(name, index, size)
              = IconOnDisk(name, icon_themes[index + 1].subdir_theme, size)
<1> DEFINE t == icon_themes[index + 1]
<1>1. index + 1 \in 1..Len(icon_themes)  BY DEF AllLoaded
<1>2. IsTheme(t, icon_themes, disk, settings)  BY <1>1 DEF AllLoaded
<1>3. /\ There(disk, settings, t.subdir_theme)
      /\ t.location = At(disk, settings, t.subdir_theme)
  BY <1>2 DEF IsTheme
<1>4. FindIconInTheme(name, index, size) = IconIn(name, t.location, t.subdir_theme, size)
  BY DEF FindIconInTheme
<1> HIDE DEF t
<1>5. IconOnDisk(name, t.subdir_theme, size) = IconIn(name, t.location, t.subdir_theme, size)
  BY <1>3, OnThisDisk DEF IconOnDisk
<1> QED  BY <1>3, <1>4, <1>5 DEF t

(* What find_icon_in_theme_with_inherit finds, when the theme it skips has *)
(* nothing.                                                                *)
LEMMA SameWithInherited ==
  ASSUME AllLoaded, NEW index \in Int, index \in 0..(Len(icon_themes) - 1), NEW name, NEW size,
         \/ FindIconInTheme(name, index, size) # NoIcon
         \/ FindIconInTheme(name, 0, size) = NoIcon
  PROVE  FindIconInThemeWithInherit(name, index, size)
           = IconWithInherited(name, icon_themes[index + 1].subdir_theme, size)
<1> DEFINE n == icon_themes[index + 1].subdir_theme
           own == FindIconInTheme(name, index, size)
           inherited == icon_themes[index + 1].inherits_index
           names == NamesOf(disk, settings, n)
           found == [i \in DOMAIN inherited |->
                       IF Follows(inherited[i]) THEN FindIconInTheme(name, inherited[i], size)
                       ELSE NoIcon]
           there == [i \in DOMAIN InheritedBy(n) |-> IconOnDisk(name, InheritedBy(n)[i], size)]
<1>1. There(disk, settings, n) /\ own = IconOnDisk(name, n, size)  BY SameIcon
<1>2. IsOnDisk(n) /\ InheritedBy(n) = names  BY <1>1, OnThisDisk
<1>3. FindIconInThemeWithInherit(name, index, size)
        = IF own # NoIcon THEN own ELSE FirstHit(found)
  BY DEF FindIconInThemeWithInherit
<1>4. IconWithInherited(name, n, size) = IF own # NoIcon THEN own ELSE FirstHit(there)
  BY <1>1, <1>2 DEF IconWithInherited
<1>5. ASSUME own = NoIcon  PROVE found = there
  <2>1. index + 1 \in 1..Len(icon_themes)  BY DEF AllLoaded
  <2>2. /\ IsTheme(icon_themes[index + 1], icon_themes, disk, settings)
        /\ IsComplete(icon_themes[index + 1], disk, settings)
    BY <2>1 DEF AllLoaded
  <2>3. /\ inherited \in Seq(Int) /\ Len(inherited) = Len(names)
        /\ \A j \in 1..Len(inherited) :
             Resolves(inherited[j], names[j], icon_themes, disk, settings)
    BY <2>2 DEF IsTheme, IsComplete
  <2>4. names \in Seq(Names)  BY <1>1 DEF AllLoaded, NamesAreRows
  <2>5. DOMAIN inherited = 1..Len(inherited) /\ DOMAIN names = 1..Len(inherited)
    BY <2>3, <2>4, LenProperties
  <2>6. ASSUME NEW j \in 1..Len(inherited)
        PROVE  (IF Follows(inherited[j]) THEN FindIconInTheme(name, inherited[j], size) ELSE NoIcon)
                 = IconOnDisk(name, names[j], size)
    <3> DEFINE k == inherited[j]
    <3>1. k \in Int /\ Resolves(k, names[j], icon_themes, disk, settings)
      BY <2>3, ElementOfSeq
    <3>2. CASE k = -1 /\ ~There(disk, settings, names[j])
      <4>1. IconOnDisk(name, names[j], size) = NoIcon  BY <3>2, OnThisDisk DEF IconOnDisk
      <4>2. ~Follows(k)  BY <3>2 DEF Follows
      <4> QED  BY <4>1, <4>2
    <3>3. CASE k \in 0..(Len(icon_themes) - 1) /\ icon_themes[k + 1].subdir_theme = names[j]
      <4>1. FindIconInTheme(name, k, size) = IconOnDisk(name, names[j], size)
        BY <3>1, <3>3, SameIcon
      <4>2. CASE k > 0
        <5>1. Follows(k)  BY <4>2 DEF Follows
        <5> QED  BY <4>1, <5>1
      <4>3. CASE k = 0
        <5>1. ~Follows(k)  BY <4>3 DEF Follows
        <5>2. FindIconInTheme(name, 0, size) = NoIcon  BY <1>5
        <5> QED  BY <4>1, <4>3, <5>1, <5>2
      <4>4. k > 0 \/ k = 0  BY <3>3
      <4> QED  BY <4>2, <4>3, <4>4
    <3> QED  BY <3>1, <3>2, <3>3 DEF Resolves
  <2> HIDE DEF inherited, names
  <2>7. DOMAIN found = 1..Len(inherited) /\ there = [i \in 1..Len(inherited) |-> IconOnDisk(name, names[i], size)]
    BY <1>2, <2>5
  <2> QED  BY <2>5, <2>6, <2>7
<1> HIDE DEF own, found, there
<1> QED  BY <1>3, <1>4, <1>5

(* What find_icon_path finds.                                              *)
LEMMA LookupFindsPromised ==
  ASSUME AllLoaded, NEW name, NEW size
  PROVE  FindIconPath(name, size) = PromisedIcon(name, size)
<1> DEFINE defaults == default_themes_index
           chosen == Chosen(disk, settings)
           n == Len(defaults)
           m == Len(chosen)
           h == [k \in 1..n |-> FindIconInThemeWithInherit(name, defaults[k], size)]
           g == [i \in 1..m |-> IconWithInherited(name, chosen[i], size)]
<1>1. /\ chosen \in Seq(Names) /\ defaults \in Seq(Nat)
      /\ \A k \in 1..n : defaults[k] < Len(icon_themes)
      /\ \E at : Leads(at, m - Len(<<>>), chosen, icon_themes, defaults, disk, settings)
  BY DEF AllLoaded, Taken
<1>2. /\ n \in Nat /\ DOMAIN defaults = 1..n /\ m \in Nat /\ DOMAIN chosen = 1..m
      /\ Len(icon_themes) \in Nat
  BY <1>1, LenProperties DEF AllLoaded
<1>3. m - Len(<<>>) = m
  <2>1. Len(<<>>) = 0  BY EmptySeq
  <2> HIDE DEF m
  <2> QED  BY <1>2, <2>1
<1>4. PICK at : Leads(at, m, chosen, icon_themes, defaults, disk, settings)  BY <1>1, <1>3
<1>5. ConfiguredThemes = chosen  BY OnThisDisk DEF ConfiguredThemes, Chosen
<1>6. FindIconPath(name, size) = FirstHit(h)  BY <1>2 DEF FindIconPath
<1>7. PromisedIcon(name, size) = FirstHit(g)  BY <1>2, <1>5 DEF PromisedIcon
<1> HIDE DEF chosen, defaults, n, m
<1>8. \A k \in 1..n : defaults[k] \in Int /\ defaults[k] \in 0..(Len(icon_themes) - 1)
  <2>1. \A k \in 1..n : defaults[k] \in Nat  BY <1>1, <1>2
  <2> QED  BY <1>1, <1>2, <2>1
<1>9. ASSUME NEW k \in 1..n,
             \/ FindIconInTheme(name, defaults[k], size) # NoIcon
             \/ FindIconInTheme(name, 0, size) = NoIcon
      PROVE  at[k] \in 1..m /\ h[k] = g[at[k]]
  <2>1. at[k] \in 1..m /\ icon_themes[defaults[k] + 1].subdir_theme = chosen[at[k]]
    BY <1>4 DEF Leads, n
  <2>2. FindIconInThemeWithInherit(name, defaults[k], size)
          = IconWithInherited(name, icon_themes[defaults[k] + 1].subdir_theme, size)
    BY <1>8, <1>9, SameWithInherited
  <2> QED  BY <2>1, <2>2
<1>10. ASSUME NEW i \in 1..m, g[i] # NoIcon  PROVE \E k \in 1..n : at[k] = i
  <2>1. g[i] = IconWithInherited(name, chosen[i], size)  OBVIOUS
  <2>2. IsOnDisk(chosen[i])
    BY <1>10, <2>1 DEF IconWithInherited, IconOnDisk
  <2>3. There(disk, settings, chosen[i])  BY <2>2, OnThisDisk
  <2> QED  BY <1>4, <2>3 DEF Leads, n
<1>11. \A j, k \in 1..n : j < k => at[j] < at[k]  BY <1>4 DEF Leads, n
<1>12. CASE n > 0 /\ FindIconInTheme(name, 0, size) # NoIcon
  <2>1. 1 \in 1..n  BY <1>2, <1>12
  <2>2. defaults[1] = 0
    <3>1. Len(icon_themes) > 0
      <4>1. defaults[1] \in 0..(Len(icon_themes) - 1)  BY <1>8, <2>1
      <4> QED  BY <1>2, <4>1
    <3> QED  BY <3>1 DEF AllLoaded, FirstIsDefault, defaults
  <2>3. at[1] \in 1..m /\ h[1] = g[at[1]]  BY <1>9, <1>12, <2>1, <2>2
  <2>4. h[1] # NoIcon
    <3>1. h[1] = FindIconInThemeWithInherit(name, 0, size)  BY <2>1, <2>2
    <3> HIDE DEF h
    <3> QED  BY <1>12, <3>1 DEF FindIconInThemeWithInherit
  <2>5. ASSUME NEW i \in 1..(at[1] - 1)  PROVE g[i] = NoIcon
    <3> SUFFICES ASSUME g[i] # NoIcon PROVE FALSE  OBVIOUS
    <3>1. i \in 1..m /\ i < at[1]  BY <1>2, <2>3
    <3> HIDE DEF g
    <3>2. PICK k \in 1..n : at[k] = i  BY <1>10, <3>1
    <3>3. k = 1 \/ 1 < k  BY <3>2
    <3>4. ~(at[1] < i) /\ at[1] # i  BY <2>3, <3>1
    <3> QED  BY <1>11, <2>1, <3>2, <3>3, <3>4
  <2>6. FirstHit(h) = h[1]
    <3>1. DOMAIN h = 1..n /\ 1..(1 - 1) = {}  OBVIOUS
    <3> HIDE DEF h
    <3> QED  BY <1>2, <2>1, <2>4, <3>1, FirstIsThis
  <2>7. FirstHit(g) = g[at[1]]
    <3>1. DOMAIN g = 1..m  OBVIOUS
    <3> HIDE DEF g
    <3> QED  BY <1>2, <2>3, <2>4, <2>5, <3>1, FirstIsThis
  <2> QED  BY <1>6, <1>7, <2>3, <2>6, <2>7
<1>13. CASE ~(n > 0 /\ FindIconInTheme(name, 0, size) # NoIcon)
  <2>1. \A k \in 1..n : FindIconInTheme(name, 0, size) = NoIcon  BY <1>2, <1>13
  <2>2. \A k \in 1..n : h[k] = g[at[k]]
    <3> HIDE DEF h, g
    <3> QED  BY <1>9, <2>1
  <2>3. DOMAIN h = 1..n /\ DOMAIN g = 1..m  OBVIOUS
  <2>4. at \in [1..n -> 1..m]  BY <1>4 DEF Leads, n
  <2>5. \A i \in 1..m : g[i] # NoIcon => \E k \in 1..n : at[k] = i
    <3> HIDE DEF g
    <3> QED  BY <1>10
  <2> HIDE DEF h, g
  <2>6. FirstHit(h) = FirstHit(g)
    <3>1. n \in Nat /\ m \in Nat  BY <1>2
    <3>2. Along(at, h, n, g, m)  BY <1>11, <2>2, <2>3, <2>4, <2>5 DEF Along
    <3> QED  BY <3>1, <3>2, FirstAlong
  <2> QED  BY <1>6, <1>7, <2>6
<1> QED  BY <1>12, <1>13

(* FoundInPromisedOrder: load_icon_theme_from_dir stores indices while the *)
(* themes it inherits are still being loaded, -1 for the ones that are     *)
(* missing, and find_icon_in_theme_with_inherit skips the index 0 with     *)
(* them; whatever themes inherit whatever, a name is found where the order *)
(* icon-lookup.h promises has it.                                          *)
THEOREM IconsAreFound == LayoutSpec => []FoundInPromisedOrder
<1>1. LookupInv => FoundInPromisedOrder
  BY AllIsLoaded, LookupFindsPromised DEF FoundInPromisedOrder
<1>2. LookupInv /\ [LayoutNext]_layoutVars => LookupInv'  BY LookupStepHolds
<1> QED  BY <1>1, <1>2, LookupInitHolds, PTL DEF LayoutSpec

---------------------------------------------------------------------------
(* A click and the rows that were drawn                                    *)

(* With gaps between the cards every card has a frame of its own, but      *)
(* draw() leaves out its upper (lower) edge where neither upper (lower)    *)
(* corner is rounded, which nobody else knows.                             *)
EdgesAreDrawn ==
  \A s \in Settings :
    s.gap_size # 0 => s.frame_width = 0 \/ {"top", "bottom"} \subseteq s.corners

(* get_notification_clickable_height cuts half a row off at both ends for  *)
(* an odd separator: the frame has to make up for it.                      *)
FrameCoversHalves ==
  \A s \in Settings :
    s.gap_size = 0 => s.frame_width # 0 \/ s.separator_height % 2 = 0

UpperEdge(s, i)    == IF s.gap_size # 0 \/ i = 1 THEN s.frame_width ELSE 0
LowerEdge(s, i, m) == IF s.gap_size # 0 \/ i = m THEN s.frame_width ELSE 0
Between(s) == IF s.gap_size # 0 THEN s.gap_size ELSE s.separator_height

(* t has the tops of layouts of these heights, under the settings s. *)
AreTops(t, s, heights) ==
  LET m == Len(heights)
  IN /\ t \in [1..m -> Int]
     /\ m > 0 => t[1] = 0
     /\ \A i \in 1..(m - 1) :
          t[i + 1] = t[i] + UpperEdge(s, i) + LowerEdge(s, i, m)
                       + heights[i] + Between(s)

(* What the clicks need of the settings. *)
LEMMA SettingsAreNumbers ==
  ASSUME settings \in Settings
  PROVE  /\ settings.frame_width \in Nat /\ settings.gap_size \in Nat
         /\ settings.separator_height \in Nat
BY LayoutAssumption

LEMMA AddHalfCuts ==
  ASSUME settings \in Settings, NEW size \in Nat
  PROVE  LET up == settings.separator_height - settings.separator_height \div 2
         IN AddHalf(size) = size + settings.frame_width - up
<1> DEFINE f == settings.frame_width
           sep == settings.separator_height
<1>1. f \in Nat /\ sep \in Nat  BY SettingsAreNumbers
<1> HIDE DEF f, sep
<1>2. (2 * (size + f) - sep) \div 2 = size + f - (sep - sep \div 2)
  BY <1>1
<1> QED  BY <1>2 DEF AddHalf, f, sep

(* x rows mean the card of height h at place i of n; sep is twice half, or *)
(* one more.                                                             *)
MeantHeight(x, i, h, n, f, g, sep, half) ==
  /\ g # 0 => x = h + 2 * f
  /\ g = 0 /\ i # 1 /\ i # n => x = h + sep
  /\ g = 0 /\ (i = 1 \/ i = n) /\ n > 1 => x = h + f + half
  /\ g = 0 /\ n = 1 => x >= h + f

(* Of displayed: the heights, and the rows that a click adds up from them. *)
LEMMA ClickHeights ==
  ASSUME settings \in Settings, FrameCoversHalves,
         NEW i, NEW n \in Nat, i \in 1..n, n = Len(displayed),
         NEW h \in Nat, displayed[i].displayed_height = h
  PROVE  /\ ClickHeight(i) \in Nat
         /\ MeantHeight(ClickHeight(i), i, h, n, settings.frame_width,
                        settings.gap_size, settings.separator_height,
                        settings.separator_height \div 2)
<1> DEFINE f == settings.frame_width
           g == settings.gap_size
           sep == settings.separator_height
           half == sep \div 2
           up == sep - half
           size == h + sep
<1>1. f \in Nat /\ g \in Nat /\ sep \in Nat  BY SettingsAreNumbers
<1>2. g = 0 => f # 0 \/ sep % 2 = 0  BY DEF FrameCoversHalves
<1>3. \A x \in Nat : AddHalf(x) = x + f - up  BY AddHalfCuts
<1> SUFFICES /\ ClickHeight(i) \in Nat
             /\ MeantHeight(ClickHeight(i), i, h, n, f, g, sep, half)
  BY DEF f, g, sep, half
<1> HIDE DEF f, g, sep
<1>4. half \in Nat /\ up \in Nat /\ sep = half + up /\ half <= up
      /\ up <= half + 1 /\ (sep % 2 = 0 => half = up)
  BY <1>1
<1>5. size \in Nat  BY <1>1
<1>6. AddHalf(size) = size + f - up  BY <1>5, <1>3
<1>7. size + f - up \in Nat  BY <1>1, <1>4
<1>8. AddHalf(size + f - up) = size + f - up + f - up  BY <1>7, <1>3
<1>9. ClickHeight(i)
        = IF g # 0 THEN h + 2 * f
          ELSE LET first == IF i = 1 THEN AddHalf(size) ELSE size
               IN  IF i = n THEN AddHalf(first) ELSE first
  BY DEF ClickHeight, ClickableHeight, f, g, sep
<1> HIDE DEF half, up, size
<1>10. size = h + half + up  BY <1>1, <1>4 DEF size
<1>11. CASE g # 0  BY <1>1, <1>9, <1>11 DEF MeantHeight
<1>12. CASE g = 0 /\ n = 1
  <2>1. ClickHeight(i) = size + f - up + f - up
    BY <1>6, <1>8, <1>9, <1>12
  <2>2. ClickHeight(i) = h + f + (f + half - up)  BY <1>1, <1>4, <1>10, <2>1
  <2>3. f + half >= up  BY <1>1, <1>4, <1>2, <1>12
  <2>4. ClickHeight(i) \in Nat /\ ClickHeight(i) >= h + f
    BY <1>1, <1>4, <2>2, <2>3
  <2> QED  BY <1>12, <2>4 DEF MeantHeight
<1>13. CASE g = 0 /\ n > 1 /\ (i = 1 \/ i = n)
  <2>1. ClickHeight(i) = size + f - up  BY <1>6, <1>9, <1>13
  <2>2. ClickHeight(i) = h + f + half  BY <1>1, <1>4, <1>10, <2>1
  <2> QED  BY <1>1, <1>4, <1>13, <2>2 DEF MeantHeight
<1>14. CASE g = 0 /\ i # 1 /\ i # n
  <2>1. ClickHeight(i) = h + sep  BY <1>9, <1>14 DEF size
  <2> QED  BY <1>1, <1>14, <2>1 DEF MeantHeight
<1> QED  BY <1>11, <1>12, <1>13, <1>14

LEMMA ClickTopsAdd ==
  ASSUME NEW n \in Nat, n = Len(displayed),
         \A i \in 1..n : ClickHeight(i) \in Nat, settings.gap_size \in Nat
  PROVE  /\ ClickTops \in [1..n -> Int]
         /\ n > 0 => ClickTops[1] = 0
         /\ \A i \in 1..(n - 1) :
              ClickTops[i + 1] = ClickTops[i] + ClickHeight(i) + settings.gap_size
<1> DEFINE g == settings.gap_size
           d == [i \in 1..n |-> ClickHeight(i) + g]
           IsTops(t) == t = [i \in 1..n |->
                              IF i = 1 THEN 0
                              ELSE t[i - 1] + ClickHeight(i - 1) + g]
<1>1. d \in [1..n -> Int]  OBVIOUS
<1> HIDE DEF d
<1>2. PICK t : Adds(t, n, d)  BY <1>1, SumsExist
<1>3. /\ t \in [1..n -> Int]
      /\ n > 0 => t[1] = 0
      /\ \A i \in 1..(n - 1) : t[i + 1] = t[i] + d[i]
  BY <1>2 DEF Adds
<1>4. \A i \in 1..(n - 1) : t[i + 1] = t[i] + ClickHeight(i) + g
  <2> TAKE i \in 1..(n - 1)
  <2>1. i \in 1..n /\ d[i] = ClickHeight(i) + g  BY DEF d
  <2>2. t[i] \in Int /\ ClickHeight(i) \in Int /\ g \in Int  BY <1>3, <2>1
  <2> QED  BY <1>3, <2>1, <2>2
<1> HIDE DEF g
<1>5. IsTops(t)
  <2> DEFINE u == [i \in 1..n |-> IF i = 1 THEN 0
                                  ELSE t[i - 1] + ClickHeight(i - 1) + g]
  <2>1. \A i \in 1..n : t[i] = u[i]
    <3> TAKE i \in 1..n
    <3>1. CASE i = 1  BY <1>3, <3>1
    <3>2. CASE i # 1
      <4>1. i - 1 \in 1..(n - 1) /\ (i - 1) + 1 = i  BY <3>2
      <4>2. t[(i - 1) + 1] = t[i - 1] + ClickHeight(i - 1) + g  BY <1>4, <4>1
      <4> QED  BY <3>2, <4>1, <4>2
    <3> QED  BY <3>1, <3>2
  <2> QED  BY <1>3, <2>1
<1>6. ClickTops = CHOOSE top : IsTops(top)  BY Zenon DEF ClickTops, g
<1>7. IsTops(ClickTops)  BY <1>5, <1>6
<1> DEFINE c == ClickTops
<1> HIDE DEF c
<1>8. /\ DOMAIN c = 1..n
      /\ \A i \in 1..n : c[i] = IF i = 1 THEN 0
                                ELSE c[i - 1] + ClickHeight(i - 1) + g
  BY <1>7 DEF c
<1>9. n > 0 => c[1] = 0  BY <1>8
<1>10. \A i \in 1..(n - 1) : c[i + 1] = c[i] + ClickHeight(i) + g
  <2> TAKE i \in 1..(n - 1)
  <2>1. i + 1 \in 1..n /\ i + 1 # 1 /\ (i + 1) - 1 = i  OBVIOUS
  <2> QED  BY <1>8, <2>1
<1>11. c \in [1..n -> Int]
  <2> DEFINE P == {i \in 1..n : c[i] \in Int}
  <2>1. n > 0 => 1 \in P  BY <1>9
  <2>2. ASSUME NEW i \in 1..(n - 1), i \in P  PROVE i + 1 \in P
    <3>1. i + 1 \in 1..n /\ i \in 1..n  OBVIOUS
    <3>2. c[i] \in Int /\ ClickHeight(i) \in Int /\ g \in Int
      BY <2>2, <3>1 DEF g
    <3>3. c[i + 1] \in Int  BY <1>10, <3>2
    <3> QED  BY <3>1, <3>3
  <2> HIDE DEF P
  <2>3. \A i \in 1..n : i \in P  BY <2>1, <2>2, EveryPlace
  <2>4. \A i \in 1..n : c[i] \in Int  BY <2>3 DEF P
  <2>5. c = [i \in 1..n |-> c[i]]
    <3>1. c = [i \in 1..n |-> IF i = 1 THEN 0
                              ELSE c[i - 1] + ClickHeight(i - 1) + g]
      BY <1>7 DEF c
    <3> QED  BY <1>8, <3>1, Zenon
  <2> QED  BY <2>4, <2>5
<1> QED  BY <1>9, <1>10, <1>11 DEF c, g

(* The halves of a separator that two cards share, and their frame. *)
AreHalves(sep, half, up, f, g) ==
  /\ sep = half + up /\ half <= up /\ up <= half + 1
  /\ g = 0 => f + half >= up

(* The sums of the clicks, c of heights s, and those of the drawing, t of  *)
(* heights h; sep is half and up.                                          *)
AreNumbers(h, s, c, t, n) ==
  \A k \in 1..n : h[k] \in Nat /\ s[k] \in Nat /\ c[k] \in Int /\ t[k] \in Int

MeantHeights(s, h, n, f, g, sep, half) ==
  \A k \in 1..n : MeantHeight(s[k], k, h[k], n, f, g, sep, half)

MeantTops(c, s, n, g) ==
  /\ n > 0 => c[1] = 0
  /\ \A k \in 1..(n - 1) : c[k + 1] = c[k] + s[k] + g

DrawnTops(t, h, n, f, g, sep) ==
  /\ n > 0 => t[1] = 0
  /\ \A k \in 1..(n - 1) :
       t[k + 1] = t[k] + (IF g # 0 \/ k = 1 THEN f ELSE 0)
                    + (IF g # 0 THEN f ELSE 0)
                    + h[k] + (IF g # 0 THEN g ELSE sep)

(* The card at place k is drawn on rows that mean it. *)
Within(k, h, s, c, t, f, g) ==
  LET top == t[k] + (IF g # 0 \/ k = 1 THEN f ELSE 0)
  IN  c[k] <= top /\ top + h[k] <= c[k] + s[k]

(* A card is drawn on some of the rows that mean it, and no row means two. *)
LEMMA SumsAgree ==
  ASSUME NEW n \in Nat, NEW f \in Nat, NEW g \in Nat, NEW sep \in Nat,
         NEW half \in Nat, NEW up \in Nat, AreHalves(sep, half, up, f, g),
         NEW h, NEW s, NEW c, NEW t, AreNumbers(h, s, c, t, n),
         MeantHeights(s, h, n, f, g, sep, half), MeantTops(c, s, n, g),
         DrawnTops(t, h, n, f, g, sep)
  PROVE  /\ \A k \in 1..n : Within(k, h, s, c, t, f, g)
         /\ \A j, k \in 1..n : j < k => c[j] + s[j] <= c[k]
(* the rows drawn and the rows clicked start together, or half a separator *)
(* apart                                                                   *)
<1>1. \A k \in 1..n :
        c[k] = IF g # 0 \/ k = 1 THEN t[k] ELSE t[k] - up
  <2> DEFINE P == {k \in 1..n : c[k] = IF g # 0 \/ k = 1 THEN t[k] ELSE t[k] - up}
  <2>1. n > 0 => 1 \in P  BY DEF MeantTops, DrawnTops
  <2>2. ASSUME NEW k \in 1..(n - 1), k \in P  PROVE k + 1 \in P
    <3>1. k \in 1..n /\ k + 1 \in 1..n /\ k + 1 # 1 /\ n > 1  OBVIOUS
    <3>2. /\ c[k] \in Int /\ t[k] \in Int /\ s[k] \in Nat /\ h[k] \in Nat
          /\ c[k] = IF g # 0 \/ k = 1 THEN t[k] ELSE t[k] - up
          /\ c[k + 1] = c[k] + s[k] + g
      BY <2>2, <3>1 DEF MeantTops, AreNumbers
    <3>3. CASE g # 0
      <4>1. s[k] = h[k] + 2 * f  BY <3>1, <3>3 DEF MeantHeights, MeantHeight
      <4>2. t[k + 1] = t[k] + f + f + h[k] + g  BY <3>3 DEF DrawnTops
      <4> QED  BY <3>1, <3>2, <3>3, <4>1, <4>2
    <3>4. CASE g = 0 /\ k = 1
      <4>1. s[k] = h[k] + f + half  BY <3>1, <3>4 DEF MeantHeights, MeantHeight
      <4>2. t[k + 1] = t[k] + f + 0 + h[k] + sep  BY <3>4 DEF DrawnTops
      <4> QED  BY <3>1, <3>2, <3>4, <4>1, <4>2 DEF AreHalves
    <3>5. CASE g = 0 /\ k # 1
      <4>1. k # n  BY <3>1
      <4>2. s[k] = h[k] + sep  BY <3>1, <3>5, <4>1 DEF MeantHeights, MeantHeight
      <4>3. t[k + 1] = t[k] + 0 + 0 + h[k] + sep  BY <3>5 DEF DrawnTops
      <4> QED  BY <3>1, <3>2, <3>5, <4>2, <4>3
    <3> QED  BY <3>3, <3>4, <3>5
  <2> HIDE DEF P
  <2>3. \A k \in 1..n : k \in P  BY <2>1, <2>2, EveryPlace
  <2> QED  BY <2>3 DEF P
<1>2. ASSUME NEW k \in 1..n
      PROVE  Within(k, h, s, c, t, f, g)
  <2>1. /\ c[k] \in Int /\ t[k] \in Int /\ s[k] \in Nat /\ h[k] \in Nat
        /\ c[k] = IF g # 0 \/ k = 1 THEN t[k] ELSE t[k] - up
    BY <1>1 DEF AreNumbers
  <2>2. CASE g # 0
    <3>1. s[k] = h[k] + 2 * f  BY <2>2 DEF MeantHeights, MeantHeight
    <3> QED  BY <2>1, <2>2, <3>1 DEF Within
  <2>3. CASE g = 0 /\ n = 1
    <3>1. s[k] >= h[k] + f /\ k = 1  BY <2>3 DEF MeantHeights, MeantHeight
    <3> QED  BY <2>1, <2>3, <3>1 DEF Within
  <2>4. CASE g = 0 /\ n > 1 /\ k = 1
    <3>1. s[k] = h[k] + f + half  BY <2>4 DEF MeantHeights, MeantHeight
    <3> QED  BY <2>1, <2>4, <3>1 DEF Within
  <2>5. CASE g = 0 /\ k # 1 /\ k # n
    <3>1. s[k] = h[k] + sep  BY <2>5 DEF MeantHeights, MeantHeight
    <3> QED  BY <2>1, <2>5, <3>1 DEF Within, AreHalves
  <2>6. CASE g = 0 /\ n > 1 /\ k # 1 /\ k = n
    <3>1. s[k] = h[k] + f + half  BY <2>6 DEF MeantHeights, MeantHeight
    <3> QED  BY <2>1, <2>6, <3>1 DEF Within, AreHalves
  <2> QED  BY <2>2, <2>3, <2>4, <2>5, <2>6
(* what means a card ends before what means the next begins *)
<1>3. ASSUME NEW j \in 1..n  PROVE \A k \in 1..n : j < k => c[j] + s[j] <= c[k]
  <2> DEFINE P == {k \in 1..n : j < k => c[j] + s[j] <= c[k]}
  <2>1. n > 0 => 1 \in P  OBVIOUS
  <2>2. ASSUME NEW k \in 1..(n - 1), k \in P  PROVE k + 1 \in P
    <3>1. k \in 1..n /\ k + 1 \in 1..n  OBVIOUS
    <3>2. /\ c[k] \in Int /\ s[k] \in Nat /\ c[j] \in Int /\ s[j] \in Nat
          /\ c[k + 1] = c[k] + s[k] + g
      BY <3>1 DEF MeantTops, AreNumbers
    <3>3. j < k => c[j] + s[j] <= c[k]  BY <2>2
    <3>4. j < k + 1 => c[j] + s[j] <= c[k + 1]
      <4>1. CASE j < k  BY <3>2, <3>3, <4>1
      <4>2. CASE j = k  BY <3>2, <4>2
      <4>3. CASE k < j  BY <4>3
      <4> QED  BY <4>1, <4>2, <4>3
    <3> QED  BY <3>1, <3>4
  <2> HIDE DEF P
  <2>3. \A k \in 1..n : k \in P  BY <2>1, <2>2, EveryPlace
  <2> QED  BY <2>3 DEF P
<1> QED  BY <1>2, <1>3

Summed(n, f, g, sep, half, up, h, s, c, t) ==
  /\ n \in Nat /\ f \in Nat /\ g \in Nat /\ sep \in Nat /\ half \in Nat
  /\ up \in Nat /\ AreHalves(sep, half, up, f, g) /\ AreNumbers(h, s, c, t, n)
  /\ MeantHeights(s, h, n, f, g, sep, half) /\ MeantTops(c, s, n, g)
  /\ DrawnTops(t, h, n, f, g, sep)

LEMMA SummedAgree ==
  ASSUME NEW n, NEW f, NEW g, NEW sep, NEW half, NEW up, NEW h, NEW s, NEW c,
         NEW t, Summed(n, f, g, sep, half, up, h, s, c, t)
  PROVE  /\ \A k \in 1..n : Within(k, h, s, c, t, f, g)
         /\ \A j, k \in 1..n : j < k => c[j] + s[j] <= c[k]
BY SumsAgree DEF Summed

(* y is a row of the background of card i, when cards of these heights are *)
(* drawn from the tops t.                                                  *)
OnCard(y, i, t, heights) ==
  /\ y \in Int /\ i \in 1..Len(displayed)
  /\ Len(displayed) \in Nat
  /\ heights \in Seq(Nat) /\ Len(heights) \in Nat
  /\ Len(displayed) <= Len(heights)
  /\ AreTops(t, settings, heights)
  /\ \A k \in 1..Len(displayed) : displayed[k].displayed_height = heights[k]
  /\ t[i] + UpperEdge(settings, i) <= y
  /\ y < t[i] + UpperEdge(settings, i) + heights[i]

(* Every row of a card's background means that card. *)
LEMMA RowsMeanCards ==
  ASSUME settings \in Settings, FrameCoversHalves, NEW y, NEW i, NEW t,
         NEW heights, OnCard(y, i, t, heights)
  PROVE  NotificationAt(y) = i
<1> DEFINE n == Len(displayed)
           m == Len(heights)
<1>1. /\ n \in Nat /\ n = Len(displayed) /\ heights \in Seq(Nat)
      /\ m \in Nat /\ m = Len(heights) /\ n <= m
      /\ AreTops(t, settings, heights)
      /\ \A k \in 1..n : displayed[k].displayed_height = heights[k]
      /\ i \in 1..n /\ y \in Int
      /\ t[i] + UpperEdge(settings, i) <= y
      /\ y < t[i] + UpperEdge(settings, i) + heights[i]
  BY DEF OnCard
<1> HIDE DEF n, m
<1> USE <1>1
<1> DEFINE f == settings.frame_width
           g == settings.gap_size
           sep == settings.separator_height
           half == sep \div 2
           up == sep - half
           c == ClickTops
           s == [k \in 1..n |-> ClickHeight(k)]
<1>2. f \in Nat /\ g \in Nat /\ sep \in Nat  BY SettingsAreNumbers
<1>3. \A k \in 1..n : k \in 1..m  OBVIOUS
<1>4. \A k \in 1..n : heights[k] \in Nat  BY <1>3, ElementOfSeq
<1>5. \A k \in 1..n :
        /\ ClickHeight(k) \in Nat
        /\ MeantHeight(ClickHeight(k), k, heights[k], n, f, g, sep, half)
  <2> TAKE k \in 1..n
  <2>1. heights[k] \in Nat /\ displayed[k].displayed_height = heights[k]
    BY <1>4
  <2> QED  BY <2>1, ClickHeights
<1>6. MeantHeights(s, heights, n, f, g, sep, half)
  BY <1>5, Zenon DEF MeantHeights
<1>7. /\ c \in [1..n -> Int]
      /\ n > 0 => c[1] = 0
      /\ \A k \in 1..(n - 1) : c[k + 1] = c[k] + ClickHeight(k) + g
  BY <1>2, <1>5, ClickTopsAdd
<1>8. MeantTops(c, s, n, g)
  <2>1. \A k \in 1..(n - 1) : s[k] = ClickHeight(k)  OBVIOUS
  <2> HIDE DEF s, c
  <2> QED  BY <1>7, <2>1 DEF MeantTops
<1>9. /\ \A k \in 1..m : t[k] \in Int
      /\ m > 0 => t[1] = 0
      /\ \A k \in 1..(m - 1) :
           t[k + 1] = t[k] + UpperEdge(settings, k) + LowerEdge(settings, k, m)
                        + heights[k] + Between(settings)
  BY DEF AreTops
<1>10. DrawnTops(t, heights, n, f, g, sep)
  <2>1. \A k \in 1..(n - 1) : k \in 1..(m - 1) /\ k # m  OBVIOUS
  <2>2. n > 0 => t[1] = 0  BY <1>9
  <2> QED  BY <1>9, <2>1, <2>2 DEF UpperEdge, LowerEdge, Between, DrawnTops
<1>11. AreNumbers(heights, s, c, t, n)
  BY <1>3, <1>4, <1>5, <1>7, <1>9 DEF AreNumbers
<1>12. UpperEdge(settings, i) = IF g # 0 \/ i = 1 THEN f ELSE 0
  BY DEF UpperEdge
<1>13. g = 0 => f # 0 \/ sep % 2 = 0  BY DEF FrameCoversHalves
<1>14. NotificationAt(y)
         = LET hit == {k \in 1..n : c[k] <= y /\ y < c[k] + s[k]}
           IN  IF hit = {} THEN 0 ELSE CHOOSE k \in hit : TRUE
  <2>1. {k \in 1..n : c[k] <= y /\ y < c[k] + s[k]}
          = {k \in 1..n : c[k] <= y /\ y < c[k] + ClickHeight(k)}
    <3>1. \A k \in 1..n : s[k] = ClickHeight(k)  OBVIOUS
    <3> HIDE DEF s
    <3> QED  BY <3>1
  <2>2. NotificationAt(y)
          = IF {k \in 1..n : c[k] <= y /\ y < c[k] + ClickHeight(k)} = {} THEN 0
            ELSE CHOOSE k \in {k \in 1..n : c[k] <= y /\ y < c[k] + ClickHeight(k)} : TRUE
    BY DEF NotificationAt
  <2> HIDE DEF s, c
  <2> QED  BY <2>1, <2>2, Zenon
<1> HIDE DEF f, g, sep, c, s
<1>15. half \in Nat /\ up \in Nat /\ sep = half + up /\ half <= up
       /\ up <= half + 1 /\ (sep % 2 = 0 => half = up)
  BY <1>2
<1> HIDE DEF half, up
<1>16. g = 0 => f + half >= up  BY <1>2, <1>13, <1>15
<1>17. /\ \A k \in 1..n : Within(k, heights, s, c, t, f, g)
       /\ \A j, k \in 1..n : j < k => c[j] + s[j] <= c[k]
  <2>1. AreHalves(sep, half, up, f, g)  BY <1>15, <1>16 DEF AreHalves
  <2>2. half \in Nat /\ up \in Nat  BY <1>15
  <2>3. Summed(n, f, g, sep, half, up, heights, s, c, t)
    BY <1>2, <1>6, <1>8, <1>10, <1>11, <2>1, <2>2 DEF Summed
  <2> QED  BY <2>3, SummedAgree
<1> DEFINE hit == {k \in 1..n : c[k] <= y /\ y < c[k] + s[k]}
<1>18. \A k \in 1..n : c[k] \in Int /\ s[k] \in Nat /\ t[k] \in Int
                        /\ heights[k] \in Nat
  BY <1>11 DEF AreNumbers
<1>19. i \in hit
  <2> DEFINE top == t[i] + (IF g # 0 \/ i = 1 THEN f ELSE 0)
  <2>1. c[i] <= top /\ top + heights[i] <= c[i] + s[i]  BY <1>17 DEF Within
  <2>2. top <= y /\ y < top + heights[i]  BY <1>12
  <2>3. top \in Int  BY <1>2, <1>18
  <2> HIDE DEF top
  <2> QED  BY <1>18, <2>1, <2>2, <2>3
<1>20. ASSUME NEW k \in hit  PROVE k = i
  <2>1. k \in 1..n /\ c[k] <= y /\ y < c[k] + s[k]  OBVIOUS
  <2>2. c[i] <= y /\ y < c[i] + s[i]  BY <1>19
  <2>3. ~(k < i)
    <3> SUFFICES ASSUME k < i PROVE FALSE  OBVIOUS
    <3>1. c[k] + s[k] <= c[i]  BY <1>17, <2>1
    <3>2. c[k] \in Int /\ s[k] \in Nat /\ c[i] \in Int /\ s[i] \in Nat
      BY <1>18, <2>1
    <3> DEFINE a == c[k]
               b == s[k]
               d == c[i]
               e == s[i]
    <3>3. /\ a \in Int /\ b \in Nat /\ d \in Int /\ e \in Nat
          /\ a + b <= d /\ y < a + b /\ d <= y
      BY <2>1, <2>2, <3>1, <3>2
    <3> HIDE DEF a, b, d, e
    <3> QED  BY <3>3
  <2>4. ~(i < k)
    <3> SUFFICES ASSUME i < k PROVE FALSE  OBVIOUS
    <3>1. c[i] + s[i] <= c[k]  BY <1>17, <2>1
    <3>2. c[k] \in Int /\ s[k] \in Nat /\ c[i] \in Int /\ s[i] \in Nat
      BY <1>18, <2>1
    <3> DEFINE a == c[k]
               b == s[k]
               d == c[i]
               e == s[i]
    <3>3. /\ a \in Int /\ b \in Nat /\ d \in Int /\ e \in Nat
          /\ d + e <= a /\ y < d + e /\ a <= y
      BY <2>1, <2>2, <3>1, <3>2
    <3> HIDE DEF a, b, d, e
    <3> QED  BY <3>3
  <2> QED  BY <2>1, <2>3, <2>4
<1>21. hit = {i}  BY <1>19, <1>20
<1> HIDE DEF hit
<1>22. NotificationAt(y) = IF hit = {} THEN 0 ELSE CHOOSE k \in hit : TRUE
  BY <1>14 DEF hit
<1> QED  BY <1>21, <1>22

---------------------------------------------------------------------------
(* What is drawn                                                           *)

(* Pictures: what scaling makes of a size is a size again. *)
LEMMA Scaled ==
  ASSUME NEW size \in Image, NEW min \in Nat, NEW max \in Nat
  PROVE  IconSizeClamp(size, min, max).size \in Icon
<1> DEFINE l == Larger(size)
           s == Smaller(size)
           p == Stretched(size, min)
           f == Reduced(p, max)
<1>1. size.w \in Nat \ {0} /\ size.h \in Nat \ {0} /\ size \in Icon
  BY DEF Image, Icon
<1>2. l \in Nat \ {0} /\ s \in Nat \ {0}  BY <1>1 DEF Larger, Smaller
<1>3. p.larger \in Nat \ {0} /\ p.smaller \in Nat /\ p.den \in Nat \ {0}
  <2>1. p = IF min # 0 /\ s < min
              THEN [larger |-> l * min, smaller |-> min * s, den |-> s]
              ELSE [larger |-> l, smaller |-> s, den |-> 1]
    BY DEF Stretched
  <2> HIDE DEF l, s, p
  <2>2. CASE min # 0 /\ s < min
    <3>1. l * min \in Nat /\ l * min # 0 /\ min * s \in Nat  BY <1>2, <2>2
    <3> QED  BY <1>2, <2>1, <2>2, <3>1
  <2>3. CASE ~(min # 0 /\ s < min)  BY <1>2, <2>1, <2>3
  <2> QED  BY <2>2, <2>3
<1>4. f.larger \in Nat /\ f.smaller \in Nat /\ f.den \in Nat \ {0}
  <2>1. f = IF max # 0 /\ p.larger > max * p.den
              THEN [larger |-> max * p.larger, smaller |-> p.smaller * max,
                    den |-> p.larger]
              ELSE p
    BY DEF Reduced
  <2> DEFINE a == p.larger
             b == p.smaller
  <2> HIDE DEF p, f
  <2>2. max * p.larger \in Nat /\ p.smaller * max \in Nat
    <3>1. a \in Nat /\ b \in Nat  BY <1>3
    <3> HIDE DEF a, b
    <3>2. max * a \in Nat /\ b * max \in Nat  BY <3>1
    <3> QED  BY <3>2 DEF a, b
  <2> QED  BY <1>3, <2>1, <2>2
<1> HIDE DEF l, s, p, f
<1>5. f.larger \div f.den \in Nat /\ f.smaller \div f.den \in Nat
  <2> DEFINE a == f.larger
             b == f.smaller
             d == f.den
  <2>1. a \in Nat /\ b \in Nat /\ d \in Nat \ {0}  BY <1>4
  <2> HIDE DEF a, b, d
  <2>2. a \div d \in Nat /\ b \div d \in Nat  BY <2>1
  <2> QED  BY <2>2 DEF a, b, d
<1>6. IconSizeClamp(size, min, max)
        = IF f.larger \div f.den = l THEN [size |-> size, changed |-> FALSE]
          ELSE [size |-> IF size.w > size.h
                           THEN [w |-> f.larger \div f.den, h |-> f.smaller \div f.den]
                           ELSE [w |-> f.smaller \div f.den, h |-> f.larger \div f.den],
                changed |-> TRUE]
  BY DEF IconSizeClamp, f, p, l
<1> QED  BY <1>1, <1>5, <1>6 DEF Icon

SizesAreKnown ==
  /\ screen \in Screens
  /\ \A path \in DOMAIN images : images[path] \in Image

LEMMA CardGetsIcon ==
  ASSUME NEW r \in Requests, SizesAreKnown
  PROVE  ReplaceIcon(r.card, r.icon) \in Cards
<1> DEFINE n == r.card
           scale == screen.scale
<1>1. scale \in Nat \ {0}  BY LayoutAssumption DEF SizesAreKnown
<1>2. n \in Cards /\ (r.icon.kind = "data" => r.icon.value \in Image)
  BY LayoutAssumption
<1>3. n.min_icon_size \in Nat /\ n.max_icon_size \in Nat  BY <1>2 DEF Cards
<1>4. \A size \in Icon : Times(size, scale) \in Icon
  <2> TAKE size \in Icon
  <2> DEFINE w == size.w
             h == size.h
  <2>1. w \in Nat /\ h \in Nat  BY DEF Icon
  <2>2. Times(size, scale) = [w |-> w * scale, h |-> h * scale]  BY DEF Times
  <2> HIDE DEF w, h, scale
  <2>3. w * scale \in Nat /\ h * scale \in Nat  BY <1>1, <2>1
  <2> QED  BY <2>2, <2>3 DEF Icon
<1> HIDE DEF n, scale
<1>5. CASE n.icon_position = "off"  BY <1>2, <1>5 DEF ReplaceIcon, n
<1>6. CASE n.icon_position # "off" /\ r.icon.kind = "data"
  <2> DEFINE p == PixbufFromData(r.icon.value, n.min_icon_size, n.max_icon_size)
  <2>1. p \in Icon
    <3> DEFINE c == IconSizeClamp(r.icon.value, n.min_icon_size, n.max_icon_size)
    <3>1. c.size \in Icon  BY <1>2, <1>3, <1>6, Scaled
    <3>2. p = IF c.changed THEN Times(c.size, scale) ELSE c.size
      BY DEF PixbufFromData, scale
    <3> HIDE DEF c, p
    <3> QED  BY <1>4, <3>1, <3>2
  <2>2. ReplaceIcon(r.card, r.icon) = [n EXCEPT !.icon = p]
    BY <1>6 DEF ReplaceIcon, n
  <2> HIDE DEF p
  <2> QED  BY <1>2, <2>1, <2>2 DEF Cards
<1>7. CASE n.icon_position # "off" /\ r.icon.kind # "data"
  <2> DEFINE path == GetPathFromIconName(r.icon, n.min_icon_size)
             p == PixbufFromFile(path, n.min_icon_size, n.max_icon_size)
  <2> HIDE DEF path
  <2>1. p \in {NoIcon} \cup Icon
    <3>1. CASE path \notin DOMAIN images  BY <3>1 DEF PixbufFromFile
    <3>2. CASE path \in DOMAIN images
      <4>1. images[path] \in Image  BY <3>2 DEF SizesAreKnown
      <4>2. IconSizeClamp(images[path], n.min_icon_size, n.max_icon_size).size \in Icon
        BY <1>3, <4>1, Scaled
      <4> QED  BY <1>4, <3>2, <4>2 DEF PixbufFromFile, scale
    <3> QED  BY <3>1, <3>2
  <2>2. ReplaceIcon(r.card, r.icon)
          = IF n.iconname = r.icon /\ n.icon # NoIcon THEN n
            ELSE [n EXCEPT !.iconname = r.icon, !.icon = p]
    BY <1>7 DEF ReplaceIcon, n, path
  <2>3. r.icon \in {NoIcon} \cup {q.icon : q \in Requests}  OBVIOUS
  <2> HIDE DEF p
  <2> QED  BY <1>2, <2>1, <2>2, <2>3 DEF Cards
<1> QED  BY <1>5, <1>6, <1>7

(* The layouts: an icon that is shown is the card's, and has a place. *)
Layouts ==
  { cl \in [n : Cards, icon : {NoIcon} \cup Icon, is_xmore : BOOLEAN, text : Nat] :
      cl.icon # NoIcon => cl.icon = cl.n.icon /\ cl.n.icon_position # "off" }

LEMMA LayoutsCreated ==
  ASSUME settings \in Settings, NEW cards \in Seq(Cards),
         NEW queue \in Seq(Cards)
  PROVE  /\ CreateLayouts(cards, queue) \in Seq(Layouts)
         /\ Len(CreateLayouts(cards, queue)) \in Nat
         /\ Len(cards) <= Len(CreateLayouts(cards, queue))
<1> DEFINE more == settings.xmore_length
           xmore == Len(queue) > 0 /\ settings.indicate_hidden
           cut   == xmore /\ settings.notification_limit = 1
           text(i) == cards[i].text + (IF cut /\ i = Len(cards) THEN 1 + more ELSE 0)
           all == [i \in DOMAIN cards |->
                     LayoutFromNotification([cards[i] EXCEPT !.text = text(i)])]
           last == IF xmore /\ settings.notification_limit # 1
                     THEN <<DeriveXmore(Head(queue), Len(queue))>> ELSE <<>>
<1>1. more \in Nat  BY LayoutAssumption
<1>2. DOMAIN cards = 1..Len(cards) /\ Len(cards) \in Nat  BY LenProperties
<1>3. \A i \in DOMAIN cards : all[i] \in Layouts
  <2> TAKE i \in DOMAIN cards
  <2> DEFINE t == text(i)
             c == [cards[i] EXCEPT !.text = t]
  <2>1. cards[i] \in Cards  BY <1>2, ElementOfSeq
  <2>2. cards[i].text \in Nat  BY <2>1 DEF Cards
  <2> HIDE DEF more, cut
  <2>3. t \in Nat  BY <1>1, <2>2
  <2> HIDE DEF t
  <2>4. c \in Cards /\ c.text = t  BY <2>1, <2>3 DEF Cards
  <2>5. c.icon \in {NoIcon} \cup Icon  BY <2>4 DEF Cards
  <2> HIDE DEF c
  <2>6. LayoutFromNotification(c) \in Layouts
    BY <2>3, <2>4, <2>5 DEF LayoutFromNotification, Layouts
  <2> QED  BY <2>6 DEF c, t
<1>4. all \in Seq(Layouts) /\ Len(all) = Len(cards)
  <2> DEFINE n == Len(cards)
             e(i) == LayoutFromNotification([cards[i] EXCEPT !.text = text(i)])
  <2>1. \A i \in 1..n : e(i) \in Layouts  BY <1>2, <1>3
  <2>2. all = [i \in 1..n |-> e(i)]  BY <1>2
  <2>3. n \in Nat  BY <1>2
  <2> HIDE DEF all, e, n
  <2>4. all \in [1..n -> Layouts]  BY <2>1, <2>2
  <2>5. all \in Seq(Layouts) /\ Len(all) = n  BY <2>3, <2>4
  <2> QED  BY <2>5 DEF n
<1>5. last \in Seq(Layouts)
  <2>1. CASE xmore
    <3>1. Len(queue) \in Nat /\ Len(queue) > 0  BY <2>1
    <3>2. Head(queue) \in Cards  BY <3>1
    <3>3. DeriveXmore(Head(queue), Len(queue)) \in Layouts
      BY <1>1, <3>2 DEF DeriveXmore, Layouts
    <3> QED  BY <3>3
  <2>2. CASE ~xmore
    <3>1. last = <<>>  BY <2>2
    <3> QED  BY <3>1
  <2> QED  BY <2>1, <2>2
<1>6. CreateLayouts(cards, queue) = all \o last  BY Zenon DEF CreateLayouts
<1> HIDE DEF all, last
<1>7. all \o last \in Seq(Layouts) /\ Len(all \o last) = Len(all) + Len(last)
  BY <1>4, <1>5, ConcatProperties
<1>8. Len(last) \in Nat  BY <1>5
<1> QED  BY <1>2, <1>4, <1>6, <1>7, <1>8

(* The pixels of an icon. *)
LEMMA IconsHaveSize ==
  ASSUME SizesAreKnown, NEW icon \in {NoIcon} \cup Icon
  PROVE  IconWidth(icon) \in Nat /\ IconHeight(icon) \in Nat
<1> DEFINE scale == screen.scale
<1>1. scale \in Nat \ {0}  BY LayoutAssumption DEF SizesAreKnown
<1>2. CASE icon = NoIcon  BY <1>2 DEF IconHeight, IconWidth
<1>3. CASE icon \in Icon /\ icon # NoIcon
  <2> DEFINE h == icon.h
             w == icon.w
             a == 2 * h + scale
             b == 2 * w + scale
             d == 2 * scale
  <2>1. h \in Nat /\ w \in Nat  BY <1>3 DEF Icon
  <2>2. IconHeight(icon) = a \div d /\ IconWidth(icon) = b \div d
    BY <1>3 DEF IconHeight, IconWidth
  <2> HIDE DEF h, w, scale
  <2>3. a \in Nat /\ b \in Nat /\ d \in Nat \ {0}  BY <1>1, <2>1
  <2> HIDE DEF a, b, d
  <2>4. a \div d \in Nat /\ b \div d \in Nat  BY <2>3
  <2> QED  BY <2>2, <2>4
<1> QED  BY <1>2, <1>3

(* The numbers among the settings. *)
LEMMA SettingsOfCards ==
  ASSUME settings \in Settings
  PROVE  /\ settings.padding \in Nat /\ settings.h_padding \in Nat
         /\ settings.text_icon_padding \in Nat /\ settings.font_height \in Nat \ {0}
         /\ settings.progress_bar_height \in Nat /\ settings.frame_width \in Nat
         /\ settings.progress_bar_max_width \in Nat
         /\ settings.progress_bar_frame_width \in Nat
         /\ settings.progress_bar_min_width \in Int /\ settings.offset.x \in Int
         /\ settings.height.min \in Nat /\ settings.height.max \in Nat
         /\ settings.width.min \in Nat /\ settings.width.max \in Nat
         /\ settings.vertical_alignment \in {"top", "center", "bottom"}
BY LayoutAssumption

LEMMA GapsAreNumbers ==
  ASSUME settings \in Settings, SizesAreKnown, NEW cl \in Layouts
  PROVE  /\ HorizontalTextIconPadding(cl.n) \in Nat
         /\ VerticalTextIconPadding(cl.n) \in Nat
         /\ ProgressBarHeight(cl) \in Nat
         /\ IconWidth(cl.icon) \in Nat /\ IconHeight(cl.icon) \in Nat
         /\ IconSpace(cl) \in Nat
<1>1. cl.icon \in {NoIcon} \cup Icon  BY DEF Layouts
<1>2. IconWidth(cl.icon) \in Nat /\ IconHeight(cl.icon) \in Nat
  BY <1>1, IconsHaveSize
<1>3. HorizontalTextIconPadding(cl.n) \in Nat /\ VerticalTextIconPadding(cl.n) \in Nat
  BY SettingsOfCards DEF HorizontalTextIconPadding, VerticalTextIconPadding
<1>4. ProgressBarHeight(cl) \in Nat  BY SettingsOfCards DEF ProgressBarHeight
<1>5. IconSpace(cl) \in Nat  BY <1>2, <1>3 DEF IconSpace
<1> QED  BY <1>2, <1>3, <1>4, <1>5

(* Pango: lines as wide as the room there is, or as a letter. *)
LEMMA PangoMeasures ==
  ASSUME settings \in Settings, NEW length \in Nat, NEW width \in Int,
         NEW max_height \in Int, NEW wrap \in BOOLEAN
  PROVE  /\ PangoSize(length, width, max_height, wrap).w \in Nat
         /\ PangoSize(length, width, max_height, wrap).h \in Nat
         /\ width > 0 => PangoSize(length, width, max_height, wrap).w <= width
<1> DEFINE font == settings.font_height
           fits == IF wrap THEN Greatest(1, max_height \div font) ELSE 1
           room == Greatest(1, IF width < 0 THEN length ELSE width)
           lines == Least(fits, Greatest(1, Ceiling(length, room)))
<1>1. font \in Nat \ {0}  BY SettingsOfCards
<1>2. PangoSize(length, width, max_height, wrap)
        = [w |-> Least(length, room), h |-> lines * font]
  BY DEF PangoSize
<1> HIDE DEF font
<1>3. max_height \div font \in Int  BY <1>1
<1>4. fits \in Nat  BY <1>3 DEF Greatest
<1>5. room \in Nat /\ room > 0 /\ (width > 0 => room = width)  BY DEF Greatest
<1> HIDE DEF fits, room
<1>6. Ceiling(length, room) \in Int
  <2> DEFINE a == length + room - 1
  <2>1. a \in Int  BY <1>5
  <2> HIDE DEF a
  <2>2. a \div room \in Int  BY <1>5, <2>1
  <2> QED  BY <2>2 DEF Ceiling, a
<1>7. lines \in Nat  BY <1>4, <1>6 DEF Least, Greatest
<1> HIDE DEF lines
<1>8. lines * font \in Nat  BY <1>1, <1>7
<1>9. /\ Least(length, room) \in Nat
      /\ width > 0 => Least(length, room) <= width
  BY <1>5 DEF Least
<1> QED  BY <1>2, <1>8, <1>9

(* The width left for a text beside the icon, or below it. *)
TextRoom(cl, width) ==
  width - 2 * settings.h_padding - (IF cl.n.icon_position = "top" THEN 0 ELSE IconSpace(cl))

LEMMA TextsHaveSize ==
  ASSUME settings \in Settings, SizesAreKnown, NEW cl \in Layouts, NEW width \in Int
  PROVE  /\ TextSize(cl, width).w \in Nat /\ TextSize(cl, width).h \in Nat
         /\ TextRoom(cl, width) > 0 => TextSize(cl, width).w <= TextRoom(cl, width)
         /\ ShownText(cl, width).w \in Nat /\ ShownText(cl, width).h \in Nat
<1> DEFINE w == TextRoom(cl, width)
           h == Greatest(0, settings.height.max - ProgressBarHeight(cl) - 2 * settings.padding)
           length == cl.text
           wrap == cl.n.word_wrap
<1>1. cl.n \in Cards /\ length \in Nat  BY DEF Layouts
<1>2. wrap \in BOOLEAN  BY <1>1 DEF Cards
<1>3. w \in Int  BY SettingsOfCards, GapsAreNumbers DEF TextRoom
<1>4. h \in Int  BY SettingsOfCards, GapsAreNumbers DEF Greatest
<1>5. TextSize(cl, width) = PangoSize(length, w, h, wrap)
  BY Zenon DEF TextSize, TextRoom
<1> HIDE DEF w, h, length, wrap
<1>6. /\ TextSize(cl, width).w \in Nat /\ TextSize(cl, width).h \in Nat
      /\ w > 0 => TextSize(cl, width).w <= w
  BY <1>1, <1>2, <1>3, <1>4, <1>5, PangoMeasures
<1>7. ShownText(cl, width) = IF cl.n.hide_text THEN [w |-> 0, h |-> 0] ELSE TextSize(cl, width)
  BY DEF ShownText
<1> QED  BY <1>6, <1>7 DEF w

(* A card is measured with some height and width, and drawn as high as it  *)
(* is measured.                                                            *)
LEMMA CardsAreNumbers ==
  ASSUME settings \in Settings, SizesAreKnown, NEW cl \in Layouts
  PROVE  /\ NaturalHeight(cl) \in Nat
         /\ CardHeight(cl) \in Nat /\ DrawnHeight(cl) = CardHeight(cl)
         /\ CardWidth(cl) \in 0..settings.width.max
<1> DEFINE text == ShownText(cl, settings.width.max)
           icon_h == IconHeight(cl.icon)
           bar == ProgressBarHeight(cl)
           content == ContentHeight(cl, text.h)
           natural == NaturalHeight(cl)
           v == VerticalTextIconPadding(cl.n)
           wide == NaturalWidth(cl)
<1>1. text.w \in Nat /\ text.h \in Nat  BY SettingsOfCards, TextsHaveSize
<1>2. bar \in Nat /\ icon_h \in Nat /\ v \in Nat /\ IconSpace(cl) \in Nat
  BY GapsAreNumbers
<1> HIDE DEF bar, icon_h, v, text
<1>3. content \in Nat
  <2>1. content = IF cl.n.icon_position = "top" /\ cl.n.icon # NoIcon
                    THEN icon_h + text.h + (IF cl.n.hide_text THEN 0 ELSE v)
                    ELSE Greatest(icon_h, text.h)
    BY DEF ContentHeight, icon_h, v
  <2> HIDE DEF content
  <2> QED  BY <1>1, <1>2, <2>1 DEF Greatest
<1>4. natural = content + bar + 2 * settings.padding
  BY DEF NaturalHeight, bar, text
<1> HIDE DEF content
<1>5. natural \in Nat  BY <1>2, <1>3, <1>4, SettingsOfCards
<1>6. DrawnHeight(cl) = Clamp(natural, settings.height)
  BY <1>4 DEF DrawnHeight, content, bar, text
<1>7. wide \in Int
  <2> DEFINE w == text.w + IconSpace(cl) + 2 * settings.h_padding
  <2>1. w \in Int  BY <1>1, <1>2, SettingsOfCards
  <2>2. wide = IF HaveProgressBar(cl) THEN Greatest(settings.progress_bar_min_width, w) ELSE w
    BY DEF NaturalWidth, text
  <2> HIDE DEF w, wide
  <2> QED  BY <2>1, <2>2, SettingsOfCards DEF Greatest
<1> HIDE DEF natural, wide
<1>8. /\ CardHeight(cl) = Clamp(natural, settings.height)
      /\ CardWidth(cl) = Clamp(wide, settings.width)
  BY DEF CardHeight, CardWidth, natural, wide
<1>9. Clamp(natural, settings.height) \in Nat
  BY <1>5, SettingsOfCards DEF Clamp, Least, Greatest
<1>10. Clamp(wide, settings.width) \in 0..settings.width.max
  BY <1>7, SettingsOfCards DEF Clamp, Least, Greatest
<1> QED  BY <1>5, <1>6, <1>8, <1>9, <1>10 DEF natural

(* The window is some number of pixels wide, and no wider than its screen. *)
LEMMA WidthsAreNumbers ==
  ASSUME settings \in Settings, SizesAreKnown, NEW cls \in Seq(Layouts)
  PROVE  WindowWidth(cls) \in Int /\ WindowWidth(cls) < UnsignedRange
<1> DEFINE n == settings.width.max + settings.frame_width
           I == {0} \cup {CardWidth(cls[i]) + settings.frame_width : i \in DOMAIN cls}
           J == {n - w : w \in I}
           widest == Max(I)
<1>1. /\ settings.width.max \in Nat /\ settings.frame_width \in Nat
      /\ settings.offset.x \in Int
  BY SettingsOfCards
<1>2. n \in Nat  BY <1>1
<1>3. /\ screen.w \in Int /\ UnsignedRange \in Nat
      /\ screen.w - settings.offset.x < UnsignedRange
  BY LayoutAssumption DEF SizesAreKnown
<1>4. \A w \in I : w \in 0..n
  <2>1. \A i \in DOMAIN cls : CardWidth(cls[i]) \in 0..settings.width.max
    <3> TAKE i \in DOMAIN cls
    <3>1. cls[i] \in Layouts  BY LenProperties, ElementOfSeq
    <3> QED  BY <3>1, CardsAreNumbers
  <2>2. \A i \in DOMAIN cls : CardWidth(cls[i]) + settings.frame_width \in 0..n
    <3> TAKE i \in DOMAIN cls
    <3> DEFINE w == CardWidth(cls[i])
               a == settings.width.max
               b == settings.frame_width
    <3>1. w \in 0..a /\ a \in Nat /\ b \in Nat  BY <1>1, <2>1
    <3> HIDE DEF w, a, b
    <3>2. w + b \in 0..(a + b)  BY <3>1
    <3> QED  BY <3>2 DEF w, a, b
  <2>3. 0 \in 0..n  BY <1>2
  <2> HIDE DEF n
  <2> QED  BY <2>2, <2>3
<1>5. 0 \in I  OBVIOUS
<1> HIDE DEF I, n
<1>6. J \in SUBSET Nat /\ J # {}  BY <1>2, <1>4, <1>5
<1>7. Min(J) \in J /\ \A j \in J : Min(J) <= j  BY <1>6, MinExists
<1>8. PICK m \in I : Min(J) = n - m  BY <1>7
<1>9. \A w \in I : m >= w
  <2> TAKE w \in I
  <2>1. n - m <= n - w  BY <1>7, <1>8
  <2> QED  BY <1>2, <1>4, <2>1
<1>10. \E x \in I : \A y \in I : x >= y  BY <1>9
<1>11. widest \in I  BY <1>10 DEF Max
<1>12. widest \in Int  BY <1>2, <1>4, <1>11
<1>13. WindowWidth(cls) = Least(widest + 2 * settings.frame_width, screen.w - settings.offset.x)
  BY DEF WindowWidth, I
<1> HIDE DEF widest
<1> QED  BY <1>1, <1>3, <1>12, <1>13 DEF Least

(* Measuring leaves cards. *)
LEMMA CardsAreMeasured ==
  ASSUME settings \in Settings, SizesAreKnown,
         NEW cards \in Seq(Cards), NEW queue \in Seq(Cards)
  PROVE  /\ Measured(cards, queue) \in Seq(Cards)
         /\ Len(Measured(cards, queue)) = Len(cards)
         /\ \A i \in 1..Len(cards) :
              Measured(cards, queue)[i].displayed_height
                = CardHeight(CreateLayouts(cards, queue)[i])
<1> DEFINE n == Len(cards)
           cls == CreateLayouts(cards, queue)
           h(i) == CardHeight(cls[i])
           measured == Measured(cards, queue)
<1>1. n \in Nat /\ DOMAIN cards = 1..n  BY LenProperties
<1>2. cls \in Seq(Layouts) /\ Len(cls) \in Nat /\ n <= Len(cls)  BY LayoutsCreated
<1>3. measured = [i \in 1..n |-> [cards[i] EXCEPT !.displayed_height = h(i)]]
  BY <1>1 DEF Measured
<1> HIDE DEF cls, measured
<1>4. \A i \in 1..n : h(i) \in Nat
  <2> TAKE i \in 1..n
  <2>1. i \in 1..Len(cls)  BY <1>1, <1>2
  <2>2. cls[i] \in Layouts  BY <1>2, <2>1, ElementOfSeq
  <2> QED  BY <2>2, CardsAreNumbers
<1>5. \A i \in 1..n : cards[i] \in Cards  BY ElementOfSeq
<1> HIDE DEF n, h
<1>6. \A i \in 1..n : /\ [cards[i] EXCEPT !.displayed_height = h(i)] \in Cards
                      /\ [cards[i] EXCEPT !.displayed_height = h(i)].displayed_height = h(i)
  BY <1>4, <1>5 DEF Cards
<1>7. measured \in [1..n -> Cards] /\ \A i \in 1..n : measured[i].displayed_height = h(i)
  BY <1>3, <1>6
<1>8. measured \in Seq(Cards) /\ Len(measured) = n  BY <1>1, <1>7
<1> QED  BY <1>7, <1>8 DEF n, h, cls, measured

(* The sums of heights. *)
AreSums(sum, heights) ==
  /\ sum \in [0..Len(heights) -> Int]
  /\ sum[0] = 0
  /\ \A i \in 1..Len(heights) : sum[i] = sum[i - 1] + heights[i]

LEMMA SumOfHeights ==
  ASSUME NEW heights \in Seq(Nat)
  PROVE  \E sum : AreSums(sum, heights) /\ SumOf(heights) = sum[Len(heights)]
<1> DEFINE n == Len(heights)
           d == [i \in 1..(n + 1) |-> IF i <= n THEN heights[i] ELSE 0]
           IsSum(sum) == sum = [i \in 0..n |-> IF i = 0 THEN 0
                                               ELSE sum[i - 1] + heights[i]]
           total == CHOOSE sum : IsSum(sum)
<1>1. n \in Nat  BY LenProperties
<1>2. \A i \in 1..n : heights[i] \in Nat  BY ElementOfSeq
<1>3. SumOf(heights) = total[n]  BY Zenon DEF SumOf
<1> HIDE DEF n
<1>4. d \in [1..(n + 1) -> Int]  BY <1>1, <1>2
<1>5. \A i \in 1..n : d[i] = heights[i]  BY <1>1
<1> HIDE DEF d
<1>6. n + 1 \in Nat /\ n + 1 > 0 /\ (n + 1) - 1 = n  BY <1>1
<1>7. PICK t : Adds(t, n + 1, d)  BY <1>4, <1>6, SumsExist
<1>8. /\ t \in [1..(n + 1) -> Int] /\ t[1] = 0
      /\ \A i \in 1..n : t[i + 1] = t[i] + d[i]
  BY <1>6, <1>7 DEF Adds
<1> DEFINE u == [i \in 0..n |-> t[i + 1]]
<1>9. u \in [0..n -> Int] /\ u[0] = 0  BY <1>1, <1>8
<1>10. \A i \in 1..n : u[i] = u[i - 1] + heights[i]
  <2> TAKE i \in 1..n
  <2>1. i \in 0..n /\ i - 1 \in 0..n /\ (i - 1) + 1 = i  BY <1>1
  <2>2. u[i] = t[i + 1] /\ u[i - 1] = t[i]  BY <2>1
  <2> HIDE DEF u
  <2> QED  BY <1>5, <1>8, <2>2
<1> HIDE DEF u
<1>11. IsSum(u)
  <2> DEFINE v == [i \in 0..n |-> IF i = 0 THEN 0 ELSE u[i - 1] + heights[i]]
  <2>1. \A i \in 0..n : u[i] = v[i]
    <3> TAKE i \in 0..n
    <3>1. CASE i = 0  BY <1>9, <3>1
    <3>2. CASE i # 0
      <4>1. i \in 1..n  BY <1>1, <3>2
      <4> QED  BY <1>10, <3>2, <4>1
    <3> QED  BY <3>1, <3>2
  <2> QED  BY <1>9, <2>1
<1>12. IsSum(total)  BY <1>11
<1> HIDE DEF total
<1>13. \A i \in 0..n : total[i] = IF i = 0 THEN 0 ELSE total[i - 1] + heights[i]
  BY <1>12
<1>14. \A i \in 1..n : i \in 0..n /\ i # 0 /\ i - 1 \in 0..n  BY <1>1
<1>15. total[0] = 0  BY <1>1, <1>13
<1>16. \A i \in 1..n : total[i] = total[i - 1] + heights[i]  BY <1>13, <1>14
<1>17. total \in [0..n -> Int]
  <2> DEFINE P == {i \in 1..n : total[i - 1] \in Int /\ total[i] \in Int}
  <2>1. ASSUME n > 0  PROVE 1 \in P
    <3>1. 1 \in 1..n /\ 1 - 1 = 0 /\ heights[1] \in Nat  BY <1>1, <1>2, <2>1
    <3>2. total[1] = total[0] + heights[1]  BY <1>16, <3>1
    <3> QED  BY <1>15, <3>1, <3>2
  <2>2. ASSUME NEW i \in 1..(n - 1), i \in P  PROVE i + 1 \in P
    <3>1. i + 1 \in 1..n /\ (i + 1) - 1 = i /\ heights[i + 1] \in Nat
      BY <1>1, <1>2
    <3>2. total[i + 1] = total[i] + heights[i + 1]  BY <1>16, <3>1
    <3>3. total[i] \in Int  BY <2>2
    <3>4. total[i + 1] \in Int  BY <3>1, <3>2, <3>3
    <3> QED  BY <3>1, <3>3, <3>4
  <2> HIDE DEF P
  <2>3. \A i \in 1..n : i \in P  BY <1>1, <2>1, <2>2, EveryPlace
  <2>4. \A i \in 0..n : total[i] \in Int
    <3> TAKE i \in 0..n
    <3>1. i = 0 \/ i \in 1..n  BY <1>1
    <3>2. \A j \in 1..n : total[j] \in Int  BY <2>3 DEF P
    <3> QED  BY <1>15, <3>1, <3>2
  <2>5. total = [i \in 0..n |-> total[i]]
    <3>1. \E e : total = e /\ DOMAIN e = 0..n /\ e = [i \in 0..n |-> e[i]]
      BY <1>12
    <3> QED  BY <3>1, Zenon
  <2> QED  BY <2>4, <2>5
<1> QED  BY <1>3, <1>15, <1>16, <1>17 DEF AreSums, n

(* The rows of a window for cards of these heights, under the settings s. *)
RowAt(row, top, height, upper, lower) ==
  /\ row.background = [top |-> top + upper, height |-> height]
  /\ row.end = top + upper + lower + height

HeightOfAll(sum, s, m) ==
  sum + IF s.gap_size # 0
          THEN m * 2 * s.frame_width + (m - 1) * s.gap_size
          ELSE 2 * s.frame_width + (m - 1) * s.separator_height

RowsFor(s, win, heights) ==
  LET m == Len(heights)
  IN /\ heights \in Seq(Nat) /\ m # 0
     /\ Len(win.rows) = m /\ DOMAIN win.rows = 1..m
     /\ \E t : /\ AreTops(t, s, heights)
               /\ \A i \in 1..m : RowAt(win.rows[i], t[i], heights[i],
                                        UpperEdge(s, i), LowerEdge(s, i, m))
     /\ \E sum : AreSums(sum, heights) /\ win.h = HeightOfAll(sum[m], s, m)

(* What draw() rounds and frames is what the sums count. *)
LEMMA FramesCounted ==
  ASSUME settings \in Settings, EdgesAreDrawn, NEW m \in Nat, NEW i \in 1..m
  PROVE  /\ UpperFrame(Corners(i, m)) = UpperEdge(settings, i)
         /\ LowerFrame(Corners(i, m)) = LowerEdge(settings, i, m)
<1>1. CASE settings.gap_size # 0 /\ settings.frame_width = 0
  BY <1>1 DEF UpperFrame, LowerFrame, UpperEdge, LowerEdge
<1>2. CASE settings.gap_size # 0 /\ settings.frame_width # 0
  <2>1. {"top", "bottom"} \subseteq settings.corners
    BY <1>2 DEF EdgesAreDrawn
  <2>2. Corners(i, m) = settings.corners  BY <1>2 DEF Corners
  <2>3. "top" \in Corners(i, m) /\ "bottom" \in Corners(i, m)  BY <2>1, <2>2
  <2> QED  BY <1>2, <2>3 DEF UpperFrame, LowerFrame, UpperEdge, LowerEdge
<1>3. CASE settings.gap_size = 0
  <2> DEFINE c == Corners(i, m)
  <2>1. c = (IF i = 1 THEN {"first"} \cup (settings.corners \cap {"top"}) ELSE {})
              \cup (IF i = m THEN {"last"} \cup (settings.corners \cap {"bottom"}) ELSE {})
    BY <1>3 DEF Corners
  <2>2. i = 1 => "first" \in c  BY <2>1
  <2>3. i = m => "last" \in c  BY <2>1
  <2>4. i # 1 => "first" \notin c /\ "top" \notin c  BY <2>1
  <2>5. i # m => "last" \notin c /\ "bottom" \notin c  BY <2>1
  <2> HIDE DEF c
  <2>6. UpperFrame(c) = IF i = 1 THEN settings.frame_width ELSE 0
    BY <2>2, <2>4 DEF UpperFrame
  <2>7. LowerFrame(c) = IF i = m THEN settings.frame_width ELSE 0
    BY <2>3, <2>5 DEF LowerFrame
  <2> QED  BY <1>3, <2>6, <2>7 DEF UpperEdge, LowerEdge, c
<1> QED  BY <1>1, <1>2, <1>3

(* Where draw() lets the cards begin. *)
LEMMA RowTopsAdd ==
  ASSUME settings \in Settings, EdgesAreDrawn, NEW cls, NEW m \in Nat,
         Len(cls) = m, NEW heights \in Seq(Nat), Len(heights) = m,
         \A i \in 1..m : DrawnHeight(cls[i]) = heights[i]
  PROVE  AreTops(RowTops(cls), settings, heights)
<1> DEFINE next(i, y) == NextY(y, Corners(i, m), DrawnHeight(cls[i]))
           IsTops(t) == t = [i \in 1..m |->
                              IF i = 1 THEN 0 ELSE next(i - 1, t[i - 1])]
           step(i) == UpperEdge(settings, i) + LowerEdge(settings, i, m)
                        + heights[i] + Between(settings)
           d == [i \in 1..m |-> step(i)]
           r == RowTops(cls)
<1>1. settings.frame_width \in Nat /\ Between(settings) \in Nat
  BY SettingsAreNumbers DEF Between
<1>2. \A i \in 1..m : heights[i] \in Nat  BY ElementOfSeq
<1>3. \A i \in 1..m : step(i) \in Int
                      /\ UpperEdge(settings, i) \in Nat /\ LowerEdge(settings, i, m) \in Nat
  BY <1>1, <1>2 DEF UpperEdge, LowerEdge
<1>4. \A i \in 1..m : \A y \in Int : next(i, y) = y + step(i)
  <2> TAKE i \in 1..m
  <2> TAKE y \in Int
  <2>1. /\ UpperFrame(Corners(i, m)) = UpperEdge(settings, i)
        /\ LowerFrame(Corners(i, m)) = LowerEdge(settings, i, m)
    BY FramesCounted
  <2>2. next(i, y) = y + UpperEdge(settings, i) + LowerEdge(settings, i, m)
                       + heights[i] + Between(settings)
    BY <2>1 DEF NextY, Between
  <2> DEFINE a == UpperEdge(settings, i)
             b == LowerEdge(settings, i, m)
             c == heights[i]
             e == Between(settings)
  <2>3. a \in Int /\ b \in Int /\ c \in Int /\ e \in Int
    <3>1. a \in Int /\ b \in Int  BY <1>3
    <3>2. c \in Int  BY <1>2
    <3>3. e \in Int  BY <1>1
    <3> QED  BY <3>1, <3>2, <3>3
  <2>4. next(i, y) = y + a + b + c + e /\ step(i) = a + b + c + e  BY <2>2
  <2> HIDE DEF next, step, a, b, c, e
  <2> QED  BY <2>3, <2>4
<1>5. r = CHOOSE t : IsTops(t)  BY Zenon DEF RowTops
<1> HIDE DEF step, next, r
<1>6. d \in [1..m -> Int] /\ \A i \in 1..m : d[i] = step(i)  BY <1>3
<1> HIDE DEF d
<1>7. PICK t : Adds(t, m, d)  BY <1>6, SumsExist
<1>8. /\ t \in [1..m -> Int]
      /\ m > 0 => t[1] = 0
      /\ \A i \in 1..(m - 1) : t[i + 1] = t[i] + d[i]
  BY <1>7 DEF Adds
<1>9. IsTops(t)
  <2> DEFINE u == [i \in 1..m |-> IF i = 1 THEN 0 ELSE next(i - 1, t[i - 1])]
  <2>1. \A i \in 1..m : t[i] = u[i]
    <3> TAKE i \in 1..m
    <3>1. CASE i = 1  BY <1>8, <3>1
    <3>2. CASE i # 1
      <4>1. i - 1 \in 1..(m - 1) /\ i - 1 \in 1..m /\ (i - 1) + 1 = i  BY <3>2
      <4>2. t[(i - 1) + 1] = t[i - 1] + d[i - 1]  BY <1>8, <4>1
      <4>3. t[i - 1] \in Int  BY <1>8, <4>1
      <4>4. next(i - 1, t[i - 1]) = t[i - 1] + step(i - 1)  BY <1>4, <4>1, <4>3
      <4>5. t[i] = next(i - 1, t[i - 1])  BY <1>6, <4>1, <4>2, <4>4
      <4> QED  BY <3>2, <4>5
    <3> QED  BY <3>1, <3>2
  <2> QED  BY <1>8, <2>1
<1>10. IsTops(r)  BY <1>5, <1>9
<1>11. \A i \in 1..m : r[i] = IF i = 1 THEN 0 ELSE next(i - 1, r[i - 1])
  BY <1>10
<1>12. m > 0 => r[1] = 0  BY <1>11
<1>13. \A i \in 1..(m - 1) : r[i] \in Int => r[i + 1] = r[i] + step(i)
  <2> TAKE i \in 1..(m - 1)
  <2>1. i \in 1..m /\ i + 1 \in 1..m /\ i + 1 # 1 /\ (i + 1) - 1 = i  OBVIOUS
  <2>2. r[i + 1] = next(i, r[i])  BY <1>11, <2>1
  <2> QED  BY <1>4, <2>1, <2>2
<1> DEFINE P == {i \in 1..m : r[i] \in Int}
<1>14. m > 0 => 1 \in P  BY <1>12
<1>15. ASSUME NEW i \in 1..(m - 1), i \in P  PROVE i + 1 \in P
  <2>1. i \in 1..m /\ i + 1 \in 1..m  OBVIOUS
  <2>2. r[i] \in Int  BY <1>15
  <2>3. r[i + 1] = r[i] + step(i)  BY <1>13, <2>2
  <2>4. step(i) \in Int  BY <1>3, <2>1
  <2>5. r[i + 1] \in Int  BY <2>2, <2>3, <2>4
  <2> QED  BY <2>1, <2>5
<1> HIDE DEF P
<1>16. \A i \in 1..m : i \in P  BY <1>14, <1>15, EveryPlace
<1>17. \A i \in 1..m : r[i] \in Int  BY <1>16 DEF P
<1>18. r \in [1..m -> Int]
  <2>1. \E e : r = e /\ DOMAIN e = 1..m /\ e = [i \in 1..m |-> e[i]]  BY <1>10
  <2> QED  BY <1>17, <2>1
<1>19. \A i \in 1..(m - 1) :
         r[i + 1] = r[i] + UpperEdge(settings, i) + LowerEdge(settings, i, m)
                      + heights[i] + Between(settings)
  <2> TAKE i \in 1..(m - 1)
  <2>1. i \in 1..m  OBVIOUS
  <2>2. r[i] \in Int /\ r[i + 1] = r[i] + step(i)  BY <1>13, <1>17, <2>1
  <2> DEFINE a == UpperEdge(settings, i)
             b == LowerEdge(settings, i, m)
             c == heights[i]
             e == Between(settings)
             x == r[i]
  <2>3. a \in Int /\ b \in Int /\ c \in Int /\ e \in Int
    <3>1. a \in Int /\ b \in Int  BY <1>3, <2>1
    <3>2. c \in Int  BY <1>2, <2>1
    <3>3. e \in Int  BY <1>1
    <3> QED  BY <3>1, <3>2, <3>3
  <2>4. r[i + 1] = x + (a + b + c + e)  BY <2>2 DEF step
  <2>5. x \in Int  BY <2>2
  <2> HIDE DEF a, b, c, e, x
  <2>6. r[i + 1] = x + a + b + c + e  BY <2>3, <2>4, <2>5
  <2> QED  BY <2>6 DEF a, b, c, e, x
<1> QED  BY <1>12, <1>18, <1>19 DEF AreTops, r

(* draw() draws rows of the heights it measured, and leaves them in the    *)
(* cards.                                                                  *)
LEMMA RowsAreDrawn ==
  ASSUME settings \in Settings, EdgesAreDrawn, SizesAreKnown,
         NEW cards \in Seq(Cards), cards # <<>>, NEW queue \in Seq(Cards)
  PROVE  /\ Measured(cards, queue) \in Seq(Cards)
         /\ Len(Measured(cards, queue)) = Len(cards)
         /\ \E heights :
              /\ RowsFor(settings, Drawing(cards, queue), heights)
              /\ Len(cards) <= Len(heights)
              /\ \A i \in 1..Len(cards) :
                   Measured(cards, queue)[i].displayed_height = heights[i]
<1> DEFINE cls == CreateLayouts(cards, queue)
           m == Len(cls)
           n == Len(cards)
           win == Drawing(cards, queue)
           h == [i \in DOMAIN cls |-> CardHeight(cls[i])]
           measured == Measured(cards, queue)
           w == WindowWidth(cls)
           r == RowTops(cls)
<1>1. cls \in Seq(Layouts) /\ m \in Nat /\ n <= m  BY LayoutsCreated
<1>2. n \in Nat /\ n # 0 /\ DOMAIN cards = 1..n  BY EmptySeq, LenProperties
<1>3. /\ win.rows = [i \in DOMAIN cls |-> RowOf(cls, i, r[i], w)]
      /\ win.h = WindowHeight(cls)
  BY DEF Drawing
<1> HIDE DEF cls, win, measured, r, w, n
<1>4. DOMAIN cls = 1..m  BY <1>1, LenProperties
<1>5. \A i \in 1..m : CardHeight(cls[i]) \in Nat
                      /\ DrawnHeight(cls[i]) = CardHeight(cls[i])
  <2> TAKE i \in 1..m
  <2>1. cls[i] \in Layouts  BY <1>1, ElementOfSeq
  <2> QED  BY <2>1, CardsAreNumbers
<1> HIDE DEF m
<1>6. /\ h \in [1..m -> Nat] /\ h \in Seq(Nat) /\ Len(h) = m
      /\ \A i \in 1..m : h[i] = CardHeight(cls[i])
  <2>1. h = [i \in 1..m |-> CardHeight(cls[i])]  BY <1>4
  <2> HIDE DEF h
  <2>2. h \in [1..m -> Nat]  BY <1>5, <2>1
  <2> QED  BY <1>1, <2>1, <2>2
<1>7. WindowHeight(cls) = HeightOfAll(SumOf(h), settings, m)
  BY DEF WindowHeight, HeightOfAll, m
<1> HIDE DEF h
<1>8. AreTops(r, settings, h)
  <2>1. \A i \in 1..m : DrawnHeight(cls[i]) = h[i]  BY <1>5, <1>6
  <2>2. m = Len(cls)  BY DEF m
  <2> QED  BY <1>1, <1>6, <2>1, <2>2, RowTopsAdd DEF r
<1>9. \A i \in 1..m : RowAt(win.rows[i], r[i], h[i], UpperEdge(settings, i),
                             LowerEdge(settings, i, m))
  <2> TAKE i \in 1..m
  <2>1. /\ UpperFrame(Corners(i, m)) = UpperEdge(settings, i)
        /\ LowerFrame(Corners(i, m)) = LowerEdge(settings, i, m)
    BY <1>1, FramesCounted
  <2>2. win.rows[i] = RowOf(cls, i, r[i], w)  BY <1>3, <1>4
  <2>3. DrawnHeight(cls[i]) = h[i]  BY <1>5, <1>6
  <2> QED  BY <2>1, <2>2, <2>3 DEF RowOf, RowAt, Background, m
<1>10. DOMAIN win.rows = 1..m /\ Len(win.rows) = m
  <2>1. win.rows = [i \in 1..m |-> RowOf(cls, i, r[i], w)]  BY <1>3, <1>4
  <2> QED  BY <1>1, <2>1
<1>11. PICK sum : AreSums(sum, h) /\ SumOf(h) = sum[Len(h)]
  BY <1>6, SumOfHeights
<1>12. win.h = HeightOfAll(sum[m], settings, m)  BY <1>3, <1>6, <1>7, <1>11
<1>13. m # 0  BY <1>1, <1>2
<1>14. RowsFor(settings, win, h)
  <2>1. \E t : /\ AreTops(t, settings, h)
               /\ \A i \in 1..m : RowAt(win.rows[i], t[i], h[i],
                                        UpperEdge(settings, i), LowerEdge(settings, i, m))
    BY <1>8, <1>9
  <2>2. \E s : AreSums(s, h) /\ win.h = HeightOfAll(s[m], settings, m)
    BY <1>11, <1>12
  <2> QED  BY <1>6, <1>10, <1>13, <2>1, <2>2 DEF RowsFor
<1>15. \A i \in 1..n : i \in 1..m  BY <1>1, <1>2
<1>16. /\ measured \in Seq(Cards) /\ Len(measured) = n
       /\ \A i \in 1..n : measured[i].displayed_height = h[i]
  <2>1. /\ measured \in Seq(Cards) /\ Len(measured) = n
        /\ \A i \in 1..n : measured[i].displayed_height = CardHeight(cls[i])
    BY CardsAreMeasured DEF measured, n, cls
  <2> QED  BY <1>6, <1>15, <2>1
<1>17. n <= Len(h)  BY <1>1, <1>6
<1> QED  BY <1>14, <1>16, <1>17 DEF n, win, measured

(* The rows of the window are those of the cards displayed. *)
ShowsCards(s, win, cards) ==
  win # NoWindow =>
    \E heights :
      /\ RowsFor(s, win, heights)
      /\ Len(cards) <= Len(heights)
      /\ \A i \in 1..Len(cards) : cards[i].displayed_height = heights[i]

LayoutInv ==
  /\ settings \in Settings
  /\ SizesAreKnown
  /\ displayed \in Seq(Cards) /\ waiting \in Seq(Cards)
  /\ ShowsCards(settings, window, displayed)

LEMMA DrawShowsCards ==
  ASSUME settings \in Settings, EdgesAreDrawn, SizesAreKnown,
         NEW cards \in Seq(Cards), NEW queue \in Seq(Cards), Draw(cards, queue)
  PROVE  /\ displayed' \in Seq(Cards) /\ waiting' \in Seq(Cards)
         /\ ShowsCards(settings, window', displayed')
<1>1. waiting' = queue  BY DEF Draw
<1>2. CASE cards = <<>>
  <2>1. displayed' = cards /\ window' = NoWindow  BY <1>2, Zenon DEF Draw
  <2> QED  BY <1>1, <2>1, Zenon DEF ShowsCards
<1>3. CASE cards # <<>>
  <2> DEFINE m == Measured(cards, queue)
             w == Drawing(cards, queue)
  <2>1. displayed' = m /\ window' = w  BY <1>3, Zenon DEF Draw
  <2>2. /\ m \in Seq(Cards) /\ Len(m) = Len(cards)
        /\ \E heights :
             /\ RowsFor(settings, w, heights)
             /\ Len(cards) <= Len(heights)
             /\ \A i \in 1..Len(cards) : m[i].displayed_height = heights[i]
    BY <1>3, RowsAreDrawn
  <2> HIDE DEF m, w
  <2>3. ShowsCards(settings, w, m)  BY <2>2 DEF ShowsCards
  <2> QED  BY <1>1, <2>1, <2>2, <2>3
<1> QED  BY <1>2, <1>3

LEMMA LayoutInitHolds == LayoutInit => LayoutInv
<1> SUFFICES ASSUME LayoutInit PROVE LayoutInv  OBVIOUS
<1>1. settings \in Settings /\ screen \in Screens  BY DEF LayoutInit
<1>2. \A path \in DOMAIN images : images[path] \in Image
  <2>1. PICK d \in Disks : images = d.images  BY DEF LayoutInit
  <2> QED  BY <2>1, LayoutAssumption
<1>3. displayed = <<>> /\ waiting = <<>> /\ window = NoWindow
  BY DEF LayoutInit
<1>4. <<>> \in Seq(Cards)  OBVIOUS
<1> QED  BY <1>1, <1>2, <1>3, <1>4, Zenon DEF LayoutInv, SizesAreKnown, ShowsCards

(* Whatever happens, the cards are drawn, or they stay as they are. *)
LEMMA StepsDraw ==
  ASSUME settings \in Settings, SizesAreKnown,
         displayed \in Seq(Cards), waiting \in Seq(Cards), [LayoutNext]_layoutVars
  PROVE  /\ SizesAreKnown' /\ UNCHANGED fixedVars
         /\ \/ /\ settings' = settings
               /\ \E cards, queue \in Seq(Cards) : Draw(cards, queue)
            \/ settings' \in Settings /\ window' = NoWindow /\ UNCHANGED <<displayed, waiting>>
            \/ UNCHANGED <<settings, displayed, waiting, window>>
<1> DEFINE Goal == /\ UNCHANGED fixedVars
                   /\ \/ /\ settings' = settings
                         /\ \E cards, queue \in Seq(Cards) : Draw(cards, queue)
                      \/ /\ settings' \in Settings /\ window' = NoWindow
                         /\ UNCHANGED <<displayed, waiting>>
                      \/ UNCHANGED <<settings, displayed, waiting, window>>
<1>1. ASSUME UNCHANGED fixedVars PROVE SizesAreKnown'
  BY <1>1 DEF SizesAreKnown, fixedVars
<1>2. ASSUME NEW cards \in Seq(Cards), NEW queue \in Seq(Cards),
             Draw(cards, queue), UNCHANGED <<fixedVars, settings, themeVars>>
      PROVE  Goal
  BY <1>2, Zenon
<1>3. ASSUME NEW r \in Requests, Arrive(r)  PROVE Goal
  <2> DEFINE card == ReplaceIcon(r.card, r.icon)
  <2>1. card \in Cards  BY CardGetsIcon
  <2>2. /\ \/ Draw(Append(displayed, card), waiting)
           \/ Draw(displayed, <<card>>)
        /\ UNCHANGED <<fixedVars, settings, themeVars>>
    BY <1>3 DEF Arrive
  <2> HIDE DEF card, Goal
  <2>3. Append(displayed, card) \in Seq(Cards) /\ <<card>> \in Seq(Cards)
    BY <2>1
  <2> QED  BY <1>2, <2>2, <2>3
<1>4. ASSUME NEW i \in DOMAIN displayed, Leave(i)  PROVE Goal
  <2>1. i \in 1..Len(displayed)  BY LenProperties
  <2>2. RemoveAt(displayed, i) \in Seq(Cards)  BY <2>1, RemoveAtProperties
  <2>3. RemoveAt(displayed, i) \o waiting \in Seq(Cards)
    BY <2>2, ConcatProperties
  <2>4. <<>> \in Seq(Cards)  OBVIOUS
  <2>5. Draw(RemoveAt(displayed, i) \o waiting, <<>>)
        /\ UNCHANGED <<fixedVars, settings, themeVars>>
    BY <1>4 DEF Leave
  <2> HIDE DEF Goal
  <2> QED  BY <1>2, <2>3, <2>4, <2>5
<1>5. ASSUME NEW y \in ClickedRows, Click(y)  PROVE Goal
  <2> DEFINE hit == {i \in 1..Len(displayed) :
                       ClickTops[i] <= y /\ y < ClickTops[i] + ClickHeight(i)}
             i == NotificationAt(y)
  <2>1. i # 0 /\ Leave(i)  BY <1>5 DEF Click
  <2>2. i = IF hit = {} THEN 0 ELSE CHOOSE j \in hit : TRUE
    BY DEF NotificationAt
  <2> HIDE DEF i, Goal
  <2>3. i \in 1..Len(displayed)
    <3>1. hit # {}  BY <2>1, <2>2
    <3>2. \E j : j \in hit  BY <3>1, Zenon
    <3>3. hit \subseteq 1..Len(displayed)  OBVIOUS
    <3> HIDE DEF hit
    <3>4. i \in hit  BY <2>2, <3>1, <3>2
    <3> QED  BY <3>3, <3>4
  <2>4. i \in DOMAIN displayed  BY <2>3, LenProperties
  <2> QED  BY <1>4, <2>1, <2>4
<1>6. ASSUME NEW s \in Settings, Reload(s)  PROVE Goal
  BY <1>6 DEF Reload
<1>7. ASSUME Load  PROVE Goal
  BY <1>7 DEF Load, LoadIconThemes, LoadNext, InheritNext, ReturnIndex, FinishLoading
<1>8. ASSUME Redraw  PROVE Goal
  <2>1. Draw(displayed, waiting) /\ UNCHANGED <<fixedVars, settings, themeVars>>
    BY <1>8 DEF Redraw
  <2> HIDE DEF Goal
  <2> QED  BY <1>2, <2>1
<1>9. ASSUME UNCHANGED layoutVars  PROVE Goal
  BY <1>9 DEF layoutVars
<1> HIDE DEF Goal
<1>10. Goal  BY <1>3, <1>4, <1>5, <1>6, <1>7, <1>8, <1>9 DEF LayoutNext
<1> QED  BY <1>1, <1>10 DEF Goal

LEMMA LayoutStepHolds ==
  ASSUME EdgesAreDrawn, LayoutInv, [LayoutNext]_layoutVars
  PROVE  LayoutInv'
<1>1. /\ settings \in Settings /\ SizesAreKnown
      /\ displayed \in Seq(Cards) /\ waiting \in Seq(Cards)
      /\ ShowsCards(settings, window, displayed)
  BY DEF LayoutInv
<1>2. SizesAreKnown'  BY <1>1, StepsDraw
<1>3. CASE settings' = settings /\ \E cards, queue \in Seq(Cards) : Draw(cards, queue)
  <2>1. PICK cards, queue \in Seq(Cards) : Draw(cards, queue)  BY <1>3
  <2>2. /\ displayed' \in Seq(Cards) /\ waiting' \in Seq(Cards)
        /\ ShowsCards(settings, window', displayed')
    BY <1>1, <2>1, DrawShowsCards
  <2> QED  BY <1>1, <1>2, <1>3, <2>2 DEF LayoutInv
<1>4. CASE settings' \in Settings /\ window' = NoWindow /\ UNCHANGED <<displayed, waiting>>
  <2>1. ShowsCards(settings', window', displayed')  BY <1>4 DEF ShowsCards
  <2> QED  BY <1>1, <1>2, <1>4, <2>1 DEF LayoutInv
<1>5. CASE UNCHANGED <<settings, displayed, waiting, window>>
  <2>1. ShowsCards(settings', window', displayed')  BY <1>1, <1>5
  <2> QED  BY <1>1, <1>2, <1>5, <2>1 DEF LayoutInv
<1> QED  BY <1>1, <1>3, <1>4, <1>5, StepsDraw

(* ClickMeansCardShown: get_notification_at adds up displayed heights and  *)
(* halves of separators, draw() adds up frames, gaps and separators; with  *)
(* settings under which the frame is drawn where it is counted and covers  *)
(* the halves, every row of a card's background is clicked as that card,   *)
(* for any cards, whatever has been displayed, closed and reloaded before. *)
THEOREM ClicksMeanTheirCards ==
  ASSUME EdgesAreDrawn, FrameCoversHalves
  PROVE  LayoutSpec => []ClickMeansCardShown
<1>1. LayoutInv => ClickMeansCardShown
  <2> SUFFICES ASSUME LayoutInv, window # NoWindow, NEW i \in DOMAIN displayed,
                      NEW y \in RowsOf(i)
               PROVE  NotificationAt(y) = i
    BY DEF ClickMeansCardShown
  <2>1. /\ settings \in Settings /\ displayed \in Seq(Cards)
        /\ ShowsCards(settings, window, displayed)
    BY DEF LayoutInv
  <2>2. PICK heights : /\ RowsFor(settings, window, heights)
                       /\ Len(displayed) <= Len(heights)
                       /\ \A j \in 1..Len(displayed) :
                            displayed[j].displayed_height = heights[j]
    BY <2>1 DEF ShowsCards
  <2> DEFINE n == Len(displayed)
             m == Len(heights)
             row == window.rows[i]
  <2>3. n \in Nat /\ i \in 1..n  BY <2>1, LenProperties
  <2>4. heights \in Seq(Nat) /\ m \in Nat  BY <2>2, LenProperties DEF RowsFor
  <2>5. PICK t : /\ AreTops(t, settings, heights)
                 /\ \A j \in 1..m : RowAt(window.rows[j], t[j], heights[j],
                                          UpperEdge(settings, j), LowerEdge(settings, j, m))
    BY <2>2 DEF RowsFor
  <2>6. i \in 1..m  BY <2>2, <2>3, <2>4
  <2> DEFINE top == t[i] + UpperEdge(settings, i)
             h == heights[i]
  <2>7. row.background = [top |-> top, height |-> h]
    BY <2>5, <2>6 DEF RowAt
  <2>8. RowsOf(i) = top..top + h - 1  BY <2>7 DEF RowsOf
  <2>9. top \in Int /\ h \in Nat
    <3>1. t[i] \in Int  BY <2>5, <2>6 DEF AreTops
    <3>2. UpperEdge(settings, i) \in Int
      BY <2>1, SettingsAreNumbers DEF UpperEdge
    <3>3. h \in Nat  BY <2>4, <2>6, ElementOfSeq
    <3> QED  BY <3>1, <3>2, <3>3
  <2> HIDE DEF top, h
  <2>10. y \in Int /\ top <= y /\ y < top + h
    BY <2>8, <2>9
  <2>11. t[i] + UpperEdge(settings, i) <= y
         /\ y < t[i] + UpperEdge(settings, i) + heights[i]
    BY <2>10 DEF top, h
  <2>12. \A j \in 1..n : displayed[j].displayed_height = heights[j]
    BY <2>2
  <2>13. n = Len(displayed) /\ m = Len(heights) /\ n <= m  BY <2>2
  <2>14. OnCard(y, i, t, heights)
    BY <2>3, <2>4, <2>5, <2>10, <2>11, <2>12, <2>13 DEF OnCard
  <2> QED  BY <2>1, <2>14, RowsMeanCards
<1>2. LayoutInv /\ [LayoutNext]_layoutVars => LayoutInv'  BY LayoutStepHolds
<1> QED  BY <1>1, <1>2, LayoutInitHolds, PTL DEF LayoutSpec

(* The frames, gaps and separators down to the end of card i of m. *)
EdgesDownTo(i, m, f, g, sep) ==
  IF g # 0 THEN i * 2 * f + (i - 1) * g
  ELSE f + (IF i = m THEN f ELSE 0) + (i - 1) * sep

EdgesAdd(m, f, g, sep) ==
  /\ \A i \in 1..m : EdgesDownTo(i, m, f, g, sep) \in Int
  /\ EdgesDownTo(1, m, f, g, sep)
       = IF g # 0 THEN f + f ELSE f + (IF 1 = m THEN f ELSE 0)
  /\ \A i \in 1..(m - 1) :
       EdgesDownTo(i + 1, m, f, g, sep)
         = EdgesDownTo(i, m, f, g, sep)
             + (IF g # 0 THEN g ELSE sep)
             + (IF g # 0 THEN f + f ELSE IF i + 1 = m THEN f ELSE 0)

LEMMA EdgesAddUp ==
  ASSUME NEW m \in Nat, NEW f \in Nat, NEW g \in Nat, NEW sep \in Nat
  PROVE  EdgesAdd(m, f, g, sep)
<1>1. \A i \in Nat : /\ i * 2 * f \in Int /\ i * g \in Int /\ i * sep \in Int
                     /\ (i - 1) * g \in Int /\ (i - 1) * sep \in Int
  OBVIOUS
<1>2. \A i \in Nat : /\ (i + 1) * 2 * f = i * 2 * f + (f + f)
                     /\ ((i + 1) - 1) * g = (i - 1) * g + g
                     /\ ((i + 1) - 1) * sep = (i - 1) * sep + sep
  <2> TAKE i \in Nat
  <2>1. (i + 1) * 2 * f = i * 2 * f + (f + f)  OBVIOUS
  <2>2. ((i + 1) - 1) * g = (i - 1) * g + g  OBVIOUS
  <2>3. ((i + 1) - 1) * sep = (i - 1) * sep + sep  OBVIOUS
  <2> QED  BY <2>1, <2>2, <2>3
<1>3. \A i \in 1..m : EdgesDownTo(i, m, f, g, sep) \in Int
  <2> TAKE i \in 1..m
  <2> DEFINE a == i * 2 * f
             b == (i - 1) * g
             c == (i - 1) * sep
  <2>1. a \in Int /\ b \in Int /\ c \in Int  BY <1>1
  <2>2. EdgesDownTo(i, m, f, g, sep)
          = IF g # 0 THEN a + b ELSE f + (IF i = m THEN f ELSE 0) + c
    BY DEF EdgesDownTo
  <2> HIDE DEF a, b, c
  <2> QED  BY <2>1, <2>2
<1>4. EdgesDownTo(1, m, f, g, sep)
        = IF g # 0 THEN f + f ELSE f + (IF 1 = m THEN f ELSE 0)
  <2>1. 1 * 2 * f = f + f /\ (1 - 1) * g = 0 /\ (1 - 1) * sep = 0  OBVIOUS
  <2>2. EdgesDownTo(1, m, f, g, sep)
          = IF g # 0 THEN f + f + 0 ELSE f + (IF 1 = m THEN f ELSE 0) + 0
    BY <2>1 DEF EdgesDownTo
  <2> QED  BY <2>2
<1>5. ASSUME NEW i \in 1..(m - 1)
      PROVE  EdgesDownTo(i + 1, m, f, g, sep)
               = EdgesDownTo(i, m, f, g, sep)
                   + (IF g # 0 THEN g ELSE sep)
                   + (IF g # 0 THEN f + f ELSE IF i + 1 = m THEN f ELSE 0)
  <2> DEFINE a == i * 2 * f
             b == (i - 1) * g
             c == (i - 1) * sep
  <2>1. a \in Int /\ b \in Int /\ c \in Int  BY <1>1
  <2>2. EdgesDownTo(i, m, f, g, sep)
          = IF g # 0 THEN a + b ELSE f + (IF i = m THEN f ELSE 0) + c
    BY DEF EdgesDownTo
  <2>3. /\ (i + 1) * 2 * f = a + (f + f) /\ ((i + 1) - 1) * g = b + g
        /\ ((i + 1) - 1) * sep = c + sep
    BY <1>2
  <2>4. EdgesDownTo(i + 1, m, f, g, sep)
          = IF g # 0 THEN a + (f + f) + (b + g)
            ELSE f + (IF i + 1 = m THEN f ELSE 0) + (c + sep)
    BY <2>3 DEF EdgesDownTo
  <2>5. i # m  OBVIOUS
  <2> HIDE DEF a, b, c
  <2> QED  BY <2>1, <2>2, <2>4, <2>5
<1> QED  BY <1>3, <1>4, <1>5 DEF EdgesAdd

(* The rows of the cards follow each other and fill the window. *)
LEMMA RowsFill ==
  ASSUME NEW s \in Settings, NEW win, NEW heights, RowsFor(s, win, heights)
  PROVE  /\ \A i \in DOMAIN win.rows : i > 1 =>
              win.rows[i].background.top >= win.rows[i - 1].end
         /\ Last(win.rows).end = win.h
<1> DEFINE m == Len(heights)
           f == s.frame_width
           g == s.gap_size
           sep == s.separator_height
           up(i) == UpperEdge(s, i)
           low(i) == LowerEdge(s, i, m)
           between == Between(s)
           e(i) == EdgesDownTo(i, m, f, g, sep)
<1>1. f \in Nat /\ g \in Nat /\ sep \in Nat  BY LayoutAssumption
<1>2. /\ heights \in Seq(Nat) /\ m \in Nat /\ m # 0
      /\ Len(win.rows) = m /\ DOMAIN win.rows = 1..m
  BY LenProperties DEF RowsFor
<1>3. PICK t : /\ AreTops(t, s, heights)
               /\ \A i \in 1..m : RowAt(win.rows[i], t[i], heights[i], up(i), low(i))
  BY DEF RowsFor
<1>4. PICK sum : AreSums(sum, heights) /\ win.h = HeightOfAll(sum[m], s, m)
  BY DEF RowsFor
<1>5. \A i \in 1..m : heights[i] \in Nat  BY <1>2, ElementOfSeq
<1>6. /\ \A i \in 1..m : t[i] \in Int
      /\ m > 0 => t[1] = 0
      /\ \A i \in 1..(m - 1) : t[i + 1] = t[i] + up(i) + low(i) + heights[i] + between
  BY <1>3 DEF AreTops
<1>7. /\ \A i \in 0..m : sum[i] \in Int
      /\ sum[0] = 0
      /\ \A i \in 1..m : sum[i] = sum[i - 1] + heights[i]
  BY <1>4 DEF AreSums
<1>8. /\ up(1) = f /\ between = (IF g # 0 THEN g ELSE sep)
      /\ \A i \in 1..m : up(i) \in Int /\ low(i) \in Int
      /\ \A i \in 1..m : low(i) = (IF g # 0 \/ i = m THEN f ELSE 0)
      /\ \A i \in 1..m : i # 1 => up(i) = (IF g # 0 THEN f ELSE 0)
  BY <1>1 DEF UpperEdge, LowerEdge, Between
<1>9. /\ \A i \in 1..m : e(i) \in Int
      /\ e(1) = IF g # 0 THEN f + f ELSE f + (IF 1 = m THEN f ELSE 0)
      /\ \A i \in 1..(m - 1) :
           e(i + 1) = e(i) + (IF g # 0 THEN g ELSE sep)
                        + (IF g # 0 THEN f + f ELSE IF i + 1 = m THEN f ELSE 0)
  <2> HIDE DEF m, f, g, sep
  <2>1. EdgesAdd(m, f, g, sep)  BY <1>1, <1>2, EdgesAddUp
  <2> QED  BY <2>1 DEF EdgesAdd
<1>10. win.h = sum[m] + e(m)
  <2>1. f + f = 2 * f  BY <1>1
  <2>2. e(m) = IF g # 0 THEN m * 2 * f + (m - 1) * g ELSE 2 * f + (m - 1) * sep
    BY <2>1 DEF EdgesDownTo
  <2> HIDE DEF e
  <2> QED  BY <1>4, <2>2 DEF HeightOfAll
<1>11. \A i \in 1..m :
         /\ win.rows[i].background.top = t[i] + up(i)
         /\ win.rows[i].end = t[i] + up(i) + low(i) + heights[i]
  <2> TAKE i \in 1..m
  <2> DEFINE row == win.rows[i]
             top == t[i] + up(i)
             end == t[i] + up(i) + low(i) + heights[i]
             h == heights[i]
  <2>1. row.background = [top |-> top, height |-> h] /\ row.end = end
    BY <1>3 DEF RowAt
  <2> HIDE DEF row, top, end, h
  <2>2. row.background.top = top /\ row.end = end  BY <2>1
  <2> QED  BY <2>2 DEF row, top, end
<1>12. \A i \in 1..m : /\ t[i] + up(i) \in Int
                       /\ t[i] + up(i) + low(i) + heights[i] \in Int
  BY <1>5, <1>6, <1>8
<1> HIDE DEF m, f, g, sep, up, low, between, e
<1> DEFINE last(i) == t[i] + up(i) + low(i) + heights[i]
<1>13. \A i \in 1..(m - 1) : t[i + 1] = last(i) + between  BY <1>6
<1>14. between \in Nat  BY <1>1, <1>8
<1>15. \A i \in 1..m : last(i) \in Int  BY <1>12
<1> DEFINE P == {i \in 1..m : last(i) = sum[i] + e(i)}
<1>16. ASSUME m > 0  PROVE 1 \in P
  <2>1. 1 \in 1..m /\ 1 - 1 = 0  BY <1>2
  <2>2. sum[1] = heights[1] /\ heights[1] \in Nat
    BY <1>5, <1>7, <2>1
  <2>3. last(1) = 0 + f + (IF g # 0 \/ 1 = m THEN f ELSE 0) + heights[1]
    BY <1>6, <1>8, <1>16, <2>1
  <2>4. e(1) = f + (IF g # 0 \/ 1 = m THEN f ELSE 0)  BY <1>9
  <2> HIDE DEF last
  <2>5. last(1) = sum[1] + e(1)  BY <1>1, <2>2, <2>3, <2>4
  <2> QED  BY <2>1, <2>5
<1>17. ASSUME NEW i \in 1..(m - 1), i \in P  PROVE i + 1 \in P
  <2> DEFINE a == sum[i]
             b == e(i)
             h == heights[i + 1]
             u == up(i + 1)
             l == low(i + 1)
  <2>1. i \in 1..m /\ i + 1 \in 1..m /\ i \in 0..m /\ (i + 1) - 1 = i /\ i + 1 # 1
    BY <1>2
  <2>2. a \in Int /\ b \in Int /\ h \in Nat /\ u \in Int /\ l \in Int
    BY <1>5, <1>7, <1>8, <1>9, <2>1
  <2>3. last(i) = a + b  BY <1>17
  <2>4. t[i + 1] = a + b + between  BY <1>13, <2>3
  <2>5. last(i + 1) = a + b + between + u + l + h  BY <2>4
  <2>6. sum[i + 1] = a + h  BY <1>7, <2>1
  <2>7. e(i + 1) = b + between + (u + l)
    <3>1. u + l = IF g # 0 THEN f + f ELSE IF i + 1 = m THEN f ELSE 0
      BY <1>1, <1>8, <2>1
    <3>2. e(i + 1) = b + (IF g # 0 THEN g ELSE sep)
                       + (IF g # 0 THEN f + f ELSE IF i + 1 = m THEN f ELSE 0)
      BY <1>9
    <3> QED  BY <1>8, <3>1, <3>2
  <2> HIDE DEF a, b, h, u, l, last
  <2>8. last(i + 1) = sum[i + 1] + e(i + 1)  BY <1>14, <2>2, <2>5, <2>6, <2>7
  <2> QED  BY <2>1, <2>8
<1> HIDE DEF P
<1>18. \A i \in 1..m : i \in P  BY <1>2, <1>16, <1>17, EveryPlace
<1>19. last(m) = win.h
  <2>1. m \in P  BY <1>2, <1>18
  <2> QED  BY <1>10, <2>1 DEF P
<1>20. Last(win.rows).end = win.h
  <2>1. m \in 1..m  BY <1>2
  <2>2. Last(win.rows) = win.rows[m]  BY <1>2 DEF Last
  <2>3. win.rows[m].end = last(m)  BY <1>11, <2>1
  <2> QED  BY <1>19, <2>2, <2>3
<1>21. ASSUME NEW i \in 1..m, i > 1
       PROVE  win.rows[i].background.top >= win.rows[i - 1].end
  <2>1. i - 1 \in 1..(m - 1) /\ i - 1 \in 1..m /\ (i - 1) + 1 = i
    BY <1>2, <1>21
  <2>2. win.rows[i - 1].end = last(i - 1)  BY <1>11, <2>1
  <2>3. t[(i - 1) + 1] = last(i - 1) + between  BY <1>13, <2>1
  <2>4. last(i - 1) \in Int  BY <1>15, <2>1
  <2> DEFINE x == last(i - 1)
             u == up(i)
  <2>5. win.rows[i].background.top = (x + between) + u
    BY <1>11, <2>1, <2>3
  <2>6. u \in Nat  BY <1>1, <1>8
  <2>7. x \in Int /\ win.rows[i - 1].end = x  BY <2>2, <2>4
  <2> HIDE DEF x, u
  <2>8. (x + between) + u >= x  BY <1>14, <2>6, <2>7
  <2> QED  BY <2>5, <2>7, <2>8
<1> QED  BY <1>2, <1>20, <1>21

(* CardsFillWindow: calculate_dimensions counts the heights of the cards,  *)
(* their frames, gaps and separators to make the window, layout_render     *)
(* moves down by them one card after the other: no card is drawn over      *)
(* another one, and the last one ends where the window ends.               *)
THEOREM CardsFillTheirWindow ==
  ASSUME EdgesAreDrawn
  PROVE  LayoutSpec => []CardsFillWindow
<1>1. LayoutInv => CardsFillWindow
  <2> SUFFICES ASSUME LayoutInv, window # NoWindow  PROVE CardsFillWindow
    BY DEF CardsFillWindow
  <2>1. settings \in Settings /\ ShowsCards(settings, window, displayed)
    BY DEF LayoutInv
  <2>2. PICK heights : RowsFor(settings, window, heights)
    BY <2>1 DEF ShowsCards
  <2> QED  BY <2>1, <2>2, RowsFill DEF CardsFillWindow
<1>2. LayoutInv /\ [LayoutNext]_layoutVars => LayoutInv'  BY LayoutStepHolds
<1> QED  BY <1>1, <1>2, LayoutInitHolds, PTL DEF LayoutSpec

---------------------------------------------------------------------------
(* What lies in a card                                                     *)

(* A row shows a layout, as high as it is drawn. *)
IsRow(row) ==
  /\ row.cl \in Layouts
  /\ row.width \in Int /\ row.width < UnsignedRange
  /\ row.background.height = DrawnHeight(row.cl)

RowsAreLaidOut ==
  window # NoWindow => \A i \in DOMAIN window.rows : IsRow(window.rows[i])

FitInv ==
  /\ settings \in Settings
  /\ SizesAreKnown
  /\ displayed \in Seq(Cards) /\ waiting \in Seq(Cards)
  /\ RowsAreLaidOut

LEMMA LayoutsAreRows ==
  ASSUME settings \in Settings, SizesAreKnown,
         NEW cards \in Seq(Cards), NEW queue \in Seq(Cards)
  PROVE  \A i \in DOMAIN Drawing(cards, queue).rows : IsRow(Drawing(cards, queue).rows[i])
<1> DEFINE cls == CreateLayouts(cards, queue)
           w == WindowWidth(cls)
           r == RowTops(cls)
           win == Drawing(cards, queue)
<1>1. cls \in Seq(Layouts)  BY LayoutsCreated
<1>2. w \in Int /\ w < UnsignedRange  BY <1>1, WidthsAreNumbers
<1>3. win.rows = [i \in DOMAIN cls |-> RowOf(cls, i, r[i], w)]
  BY DEF Drawing
<1> HIDE DEF cls, w, r, win
<1> SUFFICES ASSUME NEW i \in DOMAIN cls PROVE IsRow(win.rows[i])
  BY <1>3 DEF win
<1>4. cls[i] \in Layouts  BY <1>1, LenProperties, ElementOfSeq
<1>5. win.rows[i] = RowOf(cls, i, r[i], w)  BY <1>3
<1>6. w - 2 * settings.frame_width \in Int /\ w - 2 * settings.frame_width < UnsignedRange
  <2> DEFINE f == settings.frame_width
  <2>1. f \in Nat  BY SettingsOfCards
  <2>2. UnsignedRange \in Nat  BY LayoutAssumption
  <2> HIDE DEF f
  <2>3. w - 2 * f \in Int /\ w - 2 * f < UnsignedRange  BY <1>2, <2>1, <2>2
  <2> QED  BY <2>3 DEF f
<1>7. /\ RowOf(cls, i, r[i], w).cl = cls[i]
      /\ RowOf(cls, i, r[i], w).width = w - 2 * settings.frame_width
      /\ RowOf(cls, i, r[i], w).background.height = DrawnHeight(cls[i])
  BY DEF RowOf, Background
<1> QED  BY <1>4, <1>5, <1>6, <1>7 DEF IsRow

LEMMA FitInitHolds == LayoutInit => FitInv
<1> SUFFICES ASSUME LayoutInit PROVE FitInv  OBVIOUS
<1>1. settings \in Settings /\ screen \in Screens  BY DEF LayoutInit
<1>2. \A path \in DOMAIN images : images[path] \in Image
  <2>1. PICK d \in Disks : images = d.images  BY DEF LayoutInit
  <2> QED  BY <2>1, LayoutAssumption
<1>3. displayed = <<>> /\ waiting = <<>> /\ window = NoWindow
  BY DEF LayoutInit
<1>4. <<>> \in Seq(Cards)  OBVIOUS
<1> QED  BY <1>1, <1>2, <1>3, <1>4, Zenon DEF FitInv, SizesAreKnown, RowsAreLaidOut

(* The same settings and screen draw a card as high as before. *)
LEMMA HeightStays ==
  ASSUME settings' = settings, screen' = screen, NEW cl
  PROVE  DrawnHeight(cl)' = DrawnHeight(cl)
<1>1. /\ IconHeight(cl.icon)' = IconHeight(cl.icon)
      /\ IconWidth(cl.icon)' = IconWidth(cl.icon)
  BY DEF IconHeight, IconWidth
<1>2. ProgressBarHeight(cl)' = ProgressBarHeight(cl)
  BY DEF ProgressBarHeight, HaveProgressBar
<1>3. /\ HorizontalTextIconPadding(cl.n)' = HorizontalTextIconPadding(cl.n)
      /\ VerticalTextIconPadding(cl.n)' = VerticalTextIconPadding(cl.n)
  BY DEF HorizontalTextIconPadding, VerticalTextIconPadding
<1>4. IconSpace(cl)' = IconSpace(cl)  BY <1>1, <1>3 DEF IconSpace
<1>5. \A length, width, max_height, wrap :
        PangoSize(length, width, max_height, wrap)' = PangoSize(length, width, max_height, wrap)
  BY DEF PangoSize
<1>6. TextSize(cl, settings.width.max)' = TextSize(cl, settings.width.max)
  BY <1>2, <1>4, <1>5 DEF TextSize
<1>7. ShownText(cl, settings.width.max)' = ShownText(cl, settings.width.max)
  BY <1>6 DEF ShownText
<1>8. ContentHeight(cl, ShownText(cl, settings.width.max).h)'
        = ContentHeight(cl, ShownText(cl, settings.width.max).h)
  BY <1>1, <1>3, <1>7 DEF ContentHeight
<1> QED  BY <1>2, <1>8 DEF DrawnHeight, Clamp

LEMMA FitStepHolds ==
  ASSUME FitInv, [LayoutNext]_layoutVars
  PROVE  FitInv'
<1>1. /\ settings \in Settings /\ SizesAreKnown
      /\ displayed \in Seq(Cards) /\ waiting \in Seq(Cards) /\ RowsAreLaidOut
  BY DEF FitInv
<1>2. SizesAreKnown' /\ screen' = screen  BY <1>1, StepsDraw DEF fixedVars
<1>3. ASSUME settings' = settings, NEW row, IsRow(row)  PROVE IsRow(row)'
  <2>1. DrawnHeight(row.cl)' = DrawnHeight(row.cl)  BY <1>2, <1>3, HeightStays
  <2> QED  BY <1>3, <2>1 DEF IsRow, Layouts, Cards
<1>4. CASE settings' = settings /\ \E cards, queue \in Seq(Cards) : Draw(cards, queue)
  <2>1. PICK cards, queue \in Seq(Cards) : Draw(cards, queue)  BY <1>4
  <2>2. waiting' = queue  BY <2>1 DEF Draw
  <2>3. CASE cards = <<>>
    <3>1. displayed' = cards /\ window' = NoWindow  BY <2>1, <2>3, Zenon DEF Draw
    <3>2. RowsAreLaidOut'  BY <3>1 DEF RowsAreLaidOut
    <3> QED  BY <1>1, <1>2, <1>4, <2>2, <3>1, <3>2 DEF FitInv
  <2>4. CASE cards # <<>>
    <3> DEFINE m == Measured(cards, queue)
               w == Drawing(cards, queue)
    <3>1. displayed' = m /\ window' = w  BY <2>1, <2>4, Zenon DEF Draw
    <3>2. m \in Seq(Cards)  BY <1>1, CardsAreMeasured
    <3>3. \A i \in DOMAIN w.rows : IsRow(w.rows[i])  BY <1>1, LayoutsAreRows
    <3> HIDE DEF m, w
    <3>4. RowsAreLaidOut'
      <4> SUFFICES ASSUME NEW i \in DOMAIN window'.rows  PROVE IsRow(window.rows[i])'
        BY DEF RowsAreLaidOut
      <4>1. IsRow(w.rows[i])  BY <3>1, <3>3
      <4>2. PICK row : row = w.rows[i]  OBVIOUS
      <4>3. IsRow(row)'  BY <1>3, <1>4, <4>1, <4>2
      <4>4. window.rows[i]' = row  BY <3>1, <4>2
      <4> QED  BY <4>3, <4>4 DEF IsRow
    <3> QED  BY <1>1, <1>2, <1>4, <2>2, <3>1, <3>2, <3>4 DEF FitInv
  <2> QED  BY <2>3, <2>4
<1>5. CASE settings' \in Settings /\ window' = NoWindow /\ UNCHANGED <<displayed, waiting>>
  <2>1. RowsAreLaidOut'  BY <1>5 DEF RowsAreLaidOut
  <2> QED  BY <1>1, <1>2, <1>5, <2>1 DEF FitInv
<1>6. CASE UNCHANGED <<settings, displayed, waiting, window>>
  <2>1. RowsAreLaidOut'
    <3> SUFFICES ASSUME window # NoWindow, NEW i \in DOMAIN window.rows
                 PROVE  IsRow(window.rows[i])'
      BY <1>6 DEF RowsAreLaidOut
    <3>1. IsRow(window.rows[i])  BY <1>1 DEF RowsAreLaidOut
    <3>2. PICK row : row = window.rows[i]  OBVIOUS
    <3>3. IsRow(row)'  BY <1>3, <1>6, <3>1, <3>2
    <3>4. window.rows[i]' = window.rows[i]  BY <1>6
    <3> QED  BY <3>2, <3>3, <3>4 DEF IsRow
  <2> QED  BY <1>1, <1>2, <1>6, <2>1 DEF FitInv
<1> QED  BY <1>1, <1>4, <1>5, <1>6, StepsDraw

(* What is neither negative nor too large stays itself. *)
LEMMA SmallIsUnsigned ==
  ASSUME NEW n \in 0..(UnsignedRange - 1)
  PROVE  Unsigned(n) = n
<1> DEFINE m == UnsignedRange
           q == n \div m
           r == n % m
<1>1. m \in Nat \ {0}  BY LayoutAssumption
<1> HIDE DEF m
<1>2. n \in 0..(m - 1)  BY DEF m
<1>3. n % m = n  BY <1>1, <1>2
<1> QED  BY <1>3 DEF Unsigned, m

LEMMA UnsignedIsNoMore ==
  ASSUME NEW n \in Nat
  PROVE  Unsigned(n) \in Nat /\ Unsigned(n) <= n
<1> DEFINE m == UnsignedRange
<1>1. m \in Nat \ {0}  BY LayoutAssumption
<1> HIDE DEF m
<1>2. n % m \in Nat /\ n % m <= n  BY <1>1
<1> QED  BY <1>2 DEF Unsigned, m

(* Halves. *)
LEMMA Halves ==
  ASSUME NEW n \in Int
  PROVE  n \div 2 \in Int /\ 2 * (n \div 2) <= n /\ n <= 2 * (n \div 2) + 1
OBVIOUS

(* A row that is not cut: the numbers its boxes are placed with. *)
Room(cl, h, text_h) ==
  /\ h \in Nat /\ text_h \in Nat
  /\ HeightWithoutBar(cl, h) \in 0..h
  /\ text_h + 2 * settings.padding <= HeightWithoutBar(cl, h)
  /\ IconHeight(cl.icon) + 2 * settings.padding <= HeightWithoutBar(cl, h)
  /\ cl.icon # NoIcon /\ cl.n.icon_position = "top" =>
       IconHeight(cl.icon) + VerticalTextIconPadding(cl.n) + text_h + 2 * settings.padding
         <= HeightWithoutBar(cl, h)

LEMMA UncutHasRoom ==
  ASSUME settings \in Settings, SizesAreKnown, NEW cl \in Layouts,
         NaturalHeight(cl) <= settings.height.max, ~cl.n.hide_text
  PROVE  /\ Room(cl, DrawnHeight(cl), TextSize(cl, settings.width.max).h)
         /\ DrawnHeight(cl) <= settings.height.max
<1> DEFINE t == TextSize(cl, settings.width.max).h
           i == IconHeight(cl.icon)
           v == VerticalTextIconPadding(cl.n)
           bar == ProgressBarHeight(cl)
           p == settings.padding
           h == DrawnHeight(cl)
           content == ContentHeight(cl, t)
           natural == content + bar + 2 * p
           least == settings.height.min
           most == settings.height.max
<1>1. /\ t \in Nat /\ i \in Nat /\ v \in Nat /\ bar \in Nat /\ p \in Nat
      /\ least \in Nat /\ most \in Nat
  BY SettingsOfCards, GapsAreNumbers, TextsHaveSize
<1>2. ShownText(cl, settings.width.max).h = t  BY DEF ShownText
<1>3. NaturalHeight(cl) = natural  BY <1>2 DEF NaturalHeight
<1>4. h = Clamp(natural, settings.height)  BY <1>2 DEF DrawnHeight
<1>5. content = IF cl.n.icon_position = "top" /\ cl.n.icon # NoIcon THEN i + t + v
                ELSE Greatest(i, t)
  BY DEF ContentHeight
<1>6. cl.icon # NoIcon => cl.n.icon # NoIcon  BY DEF Layouts
<1>7. HeightWithoutBar(cl, h) = h - bar  BY DEF HeightWithoutBar
<1> HIDE DEF t, i, v, bar, p, h, content, least, most
<1>8. content \in Nat /\ t <= content /\ i <= content  BY <1>1, <1>5 DEF Greatest
<1>9. natural <= most  BY <1>3 DEF most
<1>10. natural \in Nat  BY <1>1, <1>8
<1> HIDE DEF natural
<1>11. h \in Nat /\ natural <= h /\ h <= most
  BY <1>1, <1>4, <1>9, <1>10 DEF Clamp, Least, Greatest, least, most
<1>12. content + bar + 2 * p <= h  BY <1>11 DEF natural
<1>13. h - bar \in 0..h /\ t + 2 * p <= h - bar /\ i + 2 * p <= h - bar
  BY <1>1, <1>8, <1>11, <1>12
<1>14. ASSUME cl.icon # NoIcon, cl.n.icon_position = "top"
       PROVE  i + v + t + 2 * p <= h - bar
  <2>1. content = i + t + v  BY <1>5, <1>6, <1>14
  <2> QED  BY <1>1, <1>11, <1>12, <2>1
<1> QED  BY <1>1, <1>7, <1>11, <1>13, <1>14 DEF Room, t, i, v, bar, p, h, most

(* The vertical place of the text, which the icon follows. *)
LEMMA TextAligned ==
  ASSUME settings \in Settings, NEW cl, NEW h, NEW text_h, Room(cl, h, text_h)
  PROVE  LET free == HeightWithoutBar(cl, h)
             y == AlignedY(cl, h, text_h)
         IN /\ y \in Int
            /\ settings.vertical_alignment = "top" => y = settings.padding
            /\ settings.vertical_alignment = "center" => y = free \div 2 - text_h \div 2
            /\ settings.vertical_alignment = "bottom" => y = free - settings.padding - text_h
<1> DEFINE free == HeightWithoutBar(cl, h)
           y == AlignedY(cl, h, text_h)
           p == settings.padding
           a == settings.vertical_alignment
<1>1. p \in Nat /\ a \in {"top", "center", "bottom"}  BY SettingsOfCards
<1>2. text_h \in Nat /\ h \in Nat /\ free \in 0..h /\ text_h + 2 * p <= free  BY DEF Room
<1>3. y = CASE a = "top" -> p
            [] a = "center" -> free \div 2 - text_h \div 2
            [] a = "bottom" -> IF free - p - text_h < 0 THEN p ELSE free - p - text_h
  BY DEF AlignedY
<1> HIDE DEF free, y, p, a
<1>4. free \in Int /\ ~(free - p - text_h < 0)  BY <1>1, <1>2
<1>5. free \div 2 \in Int /\ text_h \div 2 \in Int  BY <1>2, <1>4
<1>6. /\ a = "top" => y = p
      /\ a = "center" => y = free \div 2 - text_h \div 2
      /\ a = "bottom" => y = free - p - text_h
  BY <1>3, <1>4
<1>7. y \in Int  BY <1>1, <1>2, <1>4, <1>5, <1>6
<1> QED  BY <1>6, <1>7 DEF free, y, p, a

(* Where the icon and the text beside or below it stand, from the place of *)
(* the text and the step an icon above it takes.                           *)
Step(cl) == IconHeight(cl.icon) + VerticalTextIconPadding(cl.n)
Above(cl) == cl.icon # NoIcon /\ cl.n.icon_position = "top"

LEMMA TextStandsWithin ==
  ASSUME settings \in Settings, SizesAreKnown, NEW cl \in Layouts, NEW width \in Int,
         NEW h, Room(cl, h, TextBox(cl, width, h).h)
  PROVE  LET text == TextBox(cl, width, h)
             free == HeightWithoutBar(cl, h)
             y == AlignedY(cl, h, text.h)
             a == settings.vertical_alignment
         IN /\ text.y = y + (IF ~Above(cl) THEN 0
                             ELSE IF a = "top" THEN Step(cl)
                             ELSE IF a = "center" THEN Step(cl) \div 2 ELSE 0)
            /\ text.y >= settings.padding - Slack
            /\ text.y + text.h <= free - settings.padding + Slack
<1> DEFINE text == TextBox(cl, width, h)
           t == text.h
           free == HeightWithoutBar(cl, h)
           y == AlignedY(cl, h, t)
           p == settings.padding
           a == settings.vertical_alignment
           s == Step(cl)
           i == IconHeight(cl.icon)
           above == Above(cl)
           y2 == text.y
<1>1. p \in Nat /\ a \in {"top", "center", "bottom"}  BY SettingsOfCards
<1>2. /\ i \in Nat /\ VerticalTextIconPadding(cl.n) \in Nat
  BY GapsAreNumbers
<1>3. s \in Nat /\ i <= s  BY <1>2 DEF Step
<1>4. /\ t \in Nat /\ free \in Int /\ t + 2 * p <= free
      /\ above => s + t + 2 * p <= free
  BY DEF Room, Above, Step
<1>5. /\ y \in Int
      /\ a = "top" => y = p
      /\ a = "center" => y = free \div 2 - t \div 2
      /\ a = "bottom" => y = free - p - t
  BY TextAligned
<1>6. t = ShownText(cl, width).h  BY DEF TextBox
<1>7. y2 = y + (IF ~above THEN 0
                ELSE CASE a = "top" -> s [] a = "center" -> s \div 2 [] a = "bottom" -> 0)
  <2> DEFINE size == ShownText(cl, width).h
             step == IconHeight(cl.icon) + VerticalTextIconPadding(cl.n)
             down == IF cl.icon = NoIcon \/ cl.n.icon_position # "top" THEN 0
                     ELSE CASE a = "top" -> step [] a = "center" -> step \div 2
                            [] a = "bottom" -> 0
  <2>1. y2 = AlignedY(cl, h, size) + down  BY DEF TextBox
  <2>2. y = AlignedY(cl, h, size)  BY <1>6
  <2>3. step = s  BY DEF Step
  <2>4. above <=> ~(cl.icon = NoIcon \/ cl.n.icon_position # "top")  BY DEF Above
  <2> HIDE DEF y2, y, size, s, above, step, a
  <2>5. down = IF ~above THEN 0
               ELSE CASE a = "top" -> s [] a = "center" -> s \div 2 [] a = "bottom" -> 0
    BY <1>1, <2>3, <2>4
  <2> QED  BY <2>1, <2>2, <2>5
<1> HIDE DEF text, t, free, y, p, a, s, i, above, y2
<1>8. y2 = y + (IF ~above THEN 0
                ELSE IF a = "top" THEN s ELSE IF a = "center" THEN s \div 2 ELSE 0)
  BY <1>1, <1>7
<1>9. /\ 2 * (free \div 2) <= free /\ free <= 2 * (free \div 2) + 1 /\ free \div 2 \in Int
      /\ 2 * (t \div 2) <= t /\ t <= 2 * (t \div 2) + 1 /\ t \div 2 \in Int
      /\ 2 * (s \div 2) <= s /\ s <= 2 * (s \div 2) + 1 /\ s \div 2 \in Int
  BY <1>3, <1>4, Halves
<1>10. CASE a = "top"  BY <1>1, <1>3, <1>4, <1>5, <1>8, <1>10 DEF Slack, y2, text, free, y, p, a, s, t, above
<1>11. CASE a = "center"
  <2>1. y = free \div 2 - t \div 2 /\ y2 = y + (IF ~above THEN 0 ELSE s \div 2)
    BY <1>5, <1>8, <1>11
  <2>2. y2 >= p - 1 /\ y2 + t <= free - p + 1
    BY <1>1, <1>3, <1>4, <1>9, <2>1
  <2> QED  BY <1>8, <2>2 DEF Slack, y2, text, free, y, p, a, s, t, above
<1>12. CASE a = "bottom"
  <2>1. y = free - p - t /\ y2 = y + 0  BY <1>5, <1>8, <1>12
  <2>2. y2 >= p - 1 /\ y2 + t <= free - p + 1
    BY <1>1, <1>4, <2>1
  <2> QED  BY <1>8, <2>2 DEF Slack, y2, text, free, y, p, a, s, t, above
<1> QED  BY <1>1, <1>10, <1>11, <1>12

LEMMA IconStandsWithin ==
  ASSUME settings \in Settings, SizesAreKnown, NEW cl \in Layouts, NEW width \in Int,
         NEW h, NEW text_h, Room(cl, h, text_h), cl.icon # NoIcon
  PROVE  LET icon == IconBox(cl, width, h, text_h)
             free == HeightWithoutBar(cl, h)
             y == AlignedY(cl, h, text_h)
             a == settings.vertical_alignment
         IN /\ icon.y \in Int /\ icon.h = IconHeight(cl.icon)
            /\ Above(cl) => icon.y = IF a = "top" THEN y
                                     ELSE IF a = "center" THEN y - Step(cl) \div 2
                                     ELSE y - Step(cl)
            /\ icon.y >= settings.padding - Slack
            /\ icon.y + icon.h <= free - settings.padding + Slack
<1> DEFINE icon == IconBox(cl, width, h, text_h)
           free == HeightWithoutBar(cl, h)
           y == AlignedY(cl, h, text_h)
           p == settings.padding
           a == settings.vertical_alignment
           s == Step(cl)
           i == IconHeight(cl.icon)
           above == Above(cl)
           y2 == icon.y
           t == text_h
<1>1. p \in Nat /\ a \in {"top", "center", "bottom"}  BY SettingsOfCards
<1>2. /\ i \in Nat /\ VerticalTextIconPadding(cl.n) \in Nat
  BY GapsAreNumbers
<1>3. s \in Nat /\ i <= s  BY <1>2 DEF Step
<1>4. /\ t \in Nat /\ free \in Int /\ t + 2 * p <= free /\ i + 2 * p <= free
      /\ above => s + t + 2 * p <= free
  BY DEF Room, Above, Step
<1>5. /\ y \in Int
      /\ a = "top" => y = p
      /\ a = "center" => y = free \div 2 - t \div 2
      /\ a = "bottom" => y = free - p - t
  BY TextAligned
<1>6. icon.h = i  BY DEF IconBox
<1>7. y2 = CASE a = "top" -> y
             [] a = "center" -> IF above THEN y - s \div 2 ELSE y + t \div 2 - i \div 2
             [] a = "bottom" -> IF above THEN y - s ELSE y - (i - t)
  BY DEF IconBox, Above, Step
<1> HIDE DEF icon, t, free, y, p, a, s, i, above, y2
<1>8. /\ 2 * (free \div 2) <= free /\ free <= 2 * (free \div 2) + 1 /\ free \div 2 \in Int
      /\ 2 * (t \div 2) <= t /\ t <= 2 * (t \div 2) + 1 /\ t \div 2 \in Int
      /\ 2 * (s \div 2) <= s /\ s <= 2 * (s \div 2) + 1 /\ s \div 2 \in Int
      /\ 2 * (i \div 2) <= i /\ i <= 2 * (i \div 2) + 1 /\ i \div 2 \in Int
  BY <1>2, <1>3, <1>4, Halves
<1>9. ASSUME a = "top"
       PROVE  y2 = y /\ y2 \in Int /\ y2 >= p - 1 /\ y2 + i <= free - p + 1
  BY <1>1, <1>2, <1>4, <1>5, <1>7, <1>9
<1>10. ASSUME a = "center"
       PROVE  /\ above => y2 = y - s \div 2
              /\ y2 \in Int /\ y2 >= p - 1 /\ y2 + i <= free - p + 1
  <2>1. y = free \div 2 - t \div 2 /\ y2 = IF above THEN y - s \div 2 ELSE y + t \div 2 - i \div 2
    BY <1>5, <1>7, <1>10
  <2>2. CASE above
    <3>1. y2 = free \div 2 - t \div 2 - s \div 2  BY <2>1, <2>2
    <3> QED  BY <1>1, <1>2, <1>3, <1>4, <1>8, <2>1, <2>2, <3>1
  <2>3. CASE ~above
    <3>1. y2 = free \div 2 - t \div 2 + t \div 2 - i \div 2  BY <2>1, <2>3
    <3> QED  BY <1>1, <1>2, <1>4, <1>8, <2>1, <2>3, <3>1
  <2> QED  BY <2>2, <2>3
<1>11. ASSUME a = "bottom"
       PROVE  /\ above => y2 = y - s
              /\ y2 \in Int /\ y2 >= p - 1 /\ y2 + i <= free - p + 1
  <2>1. y = free - p - t /\ y2 = IF above THEN y - s ELSE y - (i - t)
    BY <1>5, <1>7, <1>11
  <2> QED  BY <1>1, <1>2, <1>3, <1>4, <2>1
<1>12. /\ y2 \in Int /\ y2 >= p - Slack /\ y2 + i <= free - p + Slack
       /\ above => y2 = IF a = "top" THEN y ELSE IF a = "center" THEN y - s \div 2 ELSE y - s
  BY <1>1, <1>9, <1>10, <1>11 DEF Slack
<1> QED  BY <1>6, <1>12 DEF icon, t, free, y, p, a, s, i, above, y2

(* Between the sides: the room a card has for its icon and the text. *)
LEMMA TextLiesBetween ==
  ASSUME settings \in Settings, SizesAreKnown, NEW row, IsRow(row), Uncut(row),
         ~row.cl.n.hide_text, NEW h
  PROVE  LET text == TextBox(row.cl, row.width, h)
         IN BetweenSides(text, row) /\ text.x \in Int /\ text.w \in Nat
<1> DEFINE cl == row.cl
           width == row.width
           text == TextBox(cl, width, h)
           p == settings.h_padding
           space == IconSpace(cl)
           top == cl.n.icon_position = "top"
           left == cl.icon # NoIcon /\ cl.n.icon_position = "left"
           x == text.x
           w == text.w
           room == TextRoom(cl, width)
<1>1. cl \in Layouts /\ width \in Int  BY DEF IsRow
<1>2. p \in Nat /\ space \in Nat  BY <1>1, SettingsOfCards, GapsAreNumbers
<1>3. space + 2 * p < width  BY DEF Uncut
<1>4. w = TextSize(cl, width).w  BY DEF TextBox, ShownText
<1>5. w \in Nat /\ (room > 0 => w <= room)  BY <1>1, <1>4, TextsHaveSize
<1>6. x = p + (IF left THEN space ELSE 0)  BY DEF TextBox
<1>7. room = width - 2 * p - (IF top THEN 0 ELSE space)  BY DEF TextRoom
<1>8. left => ~top  OBVIOUS
<1> HIDE DEF cl, width, text, p, space, top, left, x, w, room
<1>9. room > 0  BY <1>1, <1>2, <1>3, <1>7
<1>10. x \in Int /\ x >= p /\ x + w <= width - p
  BY <1>1, <1>2, <1>3, <1>5, <1>6, <1>7, <1>8, <1>9
<1> QED  BY <1>5, <1>10 DEF BetweenSides, cl, width, text, p, x, w

LEMMA IconLiesBetween ==
  ASSUME settings \in Settings, SizesAreKnown, NEW row, IsRow(row), Uncut(row),
         row.cl.icon # NoIcon, NEW h, NEW text_h
  PROVE  BetweenSides(IconBox(row.cl, row.width, h, text_h), row)
<1> DEFINE cl == row.cl
           width == row.width
           icon == IconBox(cl, width, h, text_h)
           p == settings.h_padding
           gap == HorizontalTextIconPadding(cl.n)
           x == icon.x
           w == IconWidth(cl.icon)
           at == cl.n.icon_position
<1>1. cl \in Layouts /\ width \in Int  BY DEF IsRow
<1>2. p \in Nat /\ gap \in Nat /\ w \in Nat  BY <1>1, SettingsOfCards, GapsAreNumbers
<1>3. w + gap + 2 * p < width  BY DEF Uncut, IconSpace
<1>4. at \in {"top", "left", "right"}
  <2>1. cl.n \in Cards /\ at # "off"  BY <1>1 DEF Layouts
  <2> QED  BY <2>1 DEF Cards
<1>5. icon.w = w  BY DEF IconBox
<1>6. x = CASE at = "top" -> (width - w) \div 2
            [] at = "left" -> p
            [] at = "right" -> width - p - w
  BY DEF IconBox
<1> HIDE DEF cl, width, icon, p, gap, x, w, at
<1>7. x >= p /\ x + w <= width - p
  <2>1. CASE at = "top"
    <3> DEFINE rest == width - w
    <3>1. x = rest \div 2  BY <1>6, <2>1
    <3>2. rest \in Int /\ 2 * p < rest /\ width = rest + w  BY <1>1, <1>2, <1>3
    <3> HIDE DEF rest
    <3>3. x \in Int /\ 2 * x <= rest /\ rest <= 2 * x + 1  BY <3>1, <3>2, Halves
    <3> QED  BY <1>2, <3>2, <3>3
  <2>2. CASE at = "left"
    <3>1. x = p  BY <1>6, <2>2
    <3> QED  BY <1>1, <1>2, <1>3, <3>1
  <2>3. CASE at = "right"
    <3>1. x = width - p - w  BY <1>6, <2>3
    <3> QED  BY <1>1, <1>2, <1>3, <3>1
  <2> QED  BY <1>4, <2>1, <2>2, <2>3
<1> QED  BY <1>5, <1>7 DEF BetweenSides, cl, width, icon, p, x, w

LEMMA IconAndTextAreApart ==
  ASSUME settings \in Settings, SizesAreKnown, NEW row, IsRow(row), Uncut(row),
         ~row.cl.n.hide_text, row.cl.icon # NoIcon, NEW h,
         Room(row.cl, h, TextBox(row.cl, row.width, h).h)
  PROVE  LET text == TextBox(row.cl, row.width, h)
         IN Apart(IconBox(row.cl, row.width, h, text.h), text, row.cl)
<1> DEFINE cl == row.cl
           width == row.width
           text == TextBox(cl, width, h)
           icon == IconBox(cl, width, h, text.h)
           p == settings.h_padding
           gap == HorizontalTextIconPadding(cl.n)
           at == cl.n.icon_position
           iw == IconWidth(cl.icon)
           tw == text.w
           ix == icon.x
           tx == text.x
<1>1. cl \in Layouts /\ width \in Int  BY DEF IsRow
<1>2. at \in {"top", "left", "right"}
  <2>1. cl.n \in Cards /\ at # "off"  BY <1>1 DEF Layouts
  <2> QED  BY <2>1 DEF Cards
<1>3. CASE at = "top"
  <2> DEFINE y == AlignedY(cl, h, text.h)
             s == Step(cl)
             i == IconHeight(cl.icon)
             v == VerticalTextIconPadding(cl.n)
             a == settings.vertical_alignment
             iy == icon.y
             ty == text.y
             o == OverlapOfHalves(cl)
  <2>1. /\ i \in Nat /\ v \in Nat /\ s = i + v  BY <1>1, GapsAreNumbers DEF Step
  <2>2. Above(cl)  BY <1>3 DEF Above
  <2>3. /\ icon.h = i
        /\ iy = IF a = "top" THEN y ELSE IF a = "center" THEN y - s \div 2 ELSE y - s
    BY <1>1, <2>2, IconStandsWithin
  <2>4. ty = y + (IF a = "top" THEN s ELSE IF a = "center" THEN s \div 2 ELSE 0)
    BY <1>1, <2>2, TextStandsWithin
  <2>5. y \in Int  BY TextAligned
  <2>6. o = IF v = 0 THEN 1 ELSE 0  BY DEF OverlapOfHalves, Slack
  <2> HIDE DEF y, s, i, v, a, iy, ty, icon, text, o
  <2>7. s \div 2 \in Int /\ 2 * (s \div 2) <= s /\ s <= 2 * (s \div 2) + 1
    BY <2>1, Halves
  <2>8. iy + i <= ty + o  BY <2>1, <2>3, <2>4, <2>5, <2>6, <2>7
  <2> QED  BY <2>3, <2>8 DEF Apart, iy, ty, icon, text, o
<1>4. p \in Nat /\ gap \in Nat /\ iw \in Nat  BY <1>1, SettingsOfCards, GapsAreNumbers
<1>5. IconSpace(cl) = iw + gap  BY DEF IconSpace
<1>6. icon.w = iw  BY DEF IconBox
<1>7. CASE at = "left"
  <2>1. ix = p  BY <1>7 DEF IconBox
  <2>2. tx = p + IconSpace(cl)  BY <1>7 DEF TextBox
  <2> HIDE DEF ix, tx, iw, gap, p
  <2>3. ix + iw <= tx  BY <1>4, <1>5, <2>1, <2>2
  <2> QED  BY <1>6, <2>3 DEF Apart, ix, tx
<1>8. CASE at = "right"
  <2>1. ix = width - p - iw  BY <1>8 DEF IconBox
  <2>2. tx = p + 0  BY <1>8 DEF TextBox
  <2>3. tw = TextSize(cl, width).w  BY DEF TextBox, ShownText
  <2>4. TextRoom(cl, width) = width - 2 * p - (iw + gap)  BY <1>5, <1>8 DEF TextRoom
  <2>5. iw + gap + 2 * p < width  BY <1>5 DEF Uncut
  <2>6. tw \in Nat /\ (TextRoom(cl, width) > 0 => tw <= TextRoom(cl, width))
    BY <1>1, <2>3, TextsHaveSize
  <2> HIDE DEF ix, tx, iw, gap, p, tw, width
  <2>7. tw <= width - 2 * p - (iw + gap)  BY <1>1, <1>4, <2>4, <2>5, <2>6
  <2>8. tx + tw <= ix  BY <1>1, <1>4, <2>1, <2>2, <2>6, <2>7
  <2> QED  BY <2>8 DEF Apart, ix, tx, tw, width
<1> QED  BY <1>2, <1>3, <1>7, <1>8

LEMMA BarFits ==
  ASSUME settings \in Settings, SizesAreKnown, NEW row, IsRow(row), Uncut(row),
         HaveProgressBar(row.cl), NEW text_h, Room(row.cl, row.background.height, text_h),
         row.background.height <= settings.height.max
  PROVE  LET h == row.background.height
             bar == BarBox(row.cl, row.width, h)
         IN /\ bar.y + bar.h <= h - settings.padding
            /\ BetweenSides(bar, row)
            /\ BarFill(row.cl, row.width, h) <= bar.w
<1> DEFINE cl == row.cl
           width == row.width
           h == row.background.height
           bar == BarBox(cl, width, h)
           p == settings.padding
           hp == settings.h_padding
           f == settings.progress_bar_frame_width
           high == settings.progress_bar_height
           most == settings.progress_bar_max_width
           at == cl.n.progress_bar_alignment
           free == HeightWithoutBar(cl, h)
           w0 == Least(width - 2 * hp, most)
           w == bar.w
           M == UnsignedRange
<1>1. cl \in Layouts /\ width \in Int /\ width < M  BY DEF IsRow
<1>2. /\ p \in Nat /\ hp \in Nat /\ f \in Nat /\ high \in Nat /\ most \in Nat
      /\ M \in Nat
  BY SettingsOfCards, LayoutAssumption
<1>3. 2 * f <= high /\ 2 * f <= most /\ high < M /\ settings.height.max < M
  <2>1. /\ 2 * f <= high /\ 2 * f <= most
        /\ high \in 0..(M - 1) /\ settings.height.max \in 0..(M - 1)
    BY LayoutAssumption
  <2> HIDE DEF f, high, most, M
  <2> QED  BY <1>2, <2>1
<1>4. 2 * hp < width
  <2>1. IconSpace(cl) \in Nat  BY <1>1, GapsAreNumbers
  <2>2. IconSpace(cl) + 2 * hp < width  BY DEF Uncut
  <2> HIDE DEF cl, hp, width
  <2> QED  BY <1>1, <1>2, <2>1, <2>2
<1>5. 2 * f + 2 * hp <= width  BY DEF Uncut
<1>6. at \in {"left", "center", "right"} /\ cl.n.progress \in Nat
  <2>1. cl.n \in Cards  BY <1>1 DEF Layouts
  <2>2. cl.n.progress \in Int /\ cl.n.progress >= 0  BY <2>1 DEF Cards, HaveProgressBar
  <2> QED  BY <2>1, <2>2 DEF Cards
<1>7. free = h - (high + p)
  BY DEF HeightWithoutBar, ProgressBarHeight
<1>8. free \in 0..h /\ h \in Nat /\ h < M
  <2>1. free \in 0..h /\ h \in Nat /\ h <= settings.height.max  BY DEF Room
  <2>2. settings.height.max \in Nat  BY SettingsOfCards
  <2> HIDE DEF free, h, M
  <2> QED  BY <1>2, <1>3, <2>1, <2>2
<1>9. /\ w = Unsigned(w0)
      /\ bar.x = Unsigned(CASE at = "left"   -> hp
                            [] at = "center" -> width \div 2 - w \div 2
                            [] at = "right"  -> width - w - hp)
      /\ bar.y = Unsigned(free)
      /\ bar.h = Unsigned(high - f)
  BY DEF BarBox
<1>10. BarFill(cl, width, h) = Unsigned(Unsigned(w - 2 * f) * Least(cl.n.progress, 100)) \div 100
  BY DEF BarFill
<1> DEFINE x0 == CASE at = "left"   -> hp
                   [] at = "center" -> width \div 2 - w \div 2
                   [] at = "right"  -> width - w - hp
           x == bar.x
<1> HIDE DEF cl, width, h, bar, p, hp, f, high, most, at, free, w0, w, M, x, x0
<1>11. w0 \in Nat /\ w0 <= width - 2 * hp /\ 2 * f <= w0 /\ w0 < M
  BY <1>1, <1>2, <1>3, <1>4, <1>5 DEF Least, w0
<1>12. w = w0
  <2>1. w0 \in 0..(M - 1)  BY <1>2, <1>11
  <2> QED  BY <1>9, <2>1, SmallIsUnsigned DEF M
<1>13. w \in Nat /\ w <= width - 2 * hp /\ 2 * f <= w  BY <1>11, <1>12
<1>14. x0 \in Int /\ x0 >= hp /\ x0 + w <= width - hp
  <2>1. /\ width \div 2 \in Int /\ w \div 2 \in Int
        /\ 2 * (width \div 2) <= width /\ width <= 2 * (width \div 2) + 1
        /\ 2 * (w \div 2) <= w /\ w <= 2 * (w \div 2) + 1
    BY <1>1, <1>13, Halves
  <2>2. CASE at = "left"
    <3>1. x0 = hp  BY <2>2 DEF x0
    <3> QED  BY <1>1, <1>2, <1>13, <3>1
  <2>3. CASE at = "center"
    <3>1. x0 = width \div 2 - w \div 2  BY <2>3 DEF x0
    <3> QED  BY <1>1, <1>2, <1>13, <2>1, <3>1
  <2>4. CASE at = "right"
    <3>1. x0 = width - w - hp  BY <2>4 DEF x0
    <3> QED  BY <1>1, <1>2, <1>13, <3>1
  <2> QED  BY <1>6, <2>2, <2>3, <2>4
<1>15. x = x0
  <2>1. x0 \in 0..(M - 1)  BY <1>1, <1>2, <1>13, <1>14
  <2>2. x = Unsigned(x0)  BY <1>9 DEF x, x0
  <2> QED  BY <2>1, <2>2, SmallIsUnsigned DEF M
<1>16. bar.y = free
  <2>1. free \in 0..(M - 1)  BY <1>2, <1>8
  <2> QED  BY <1>9, <2>1, SmallIsUnsigned DEF M
<1>17. bar.h = high - f
  <2>1. high - f \in 0..(M - 1)  BY <1>2, <1>3
  <2> QED  BY <1>9, <2>1, SmallIsUnsigned DEF M
<1>18. bar.y + bar.h <= h - p
  BY <1>2, <1>7, <1>8, <1>16, <1>17
<1>19. BarFill(cl, width, h) <= w
  <2> DEFINE d0 == w - 2 * f
             d == Unsigned(d0)
             q == Least(cl.n.progress, 100)
             m == d * q
             u == Unsigned(m)
  <2>1. d0 \in Nat /\ d0 <= w  BY <1>2, <1>13
  <2>2. d \in Nat /\ d <= d0  BY <2>1, UnsignedIsNoMore
  <2>3. q \in 0..100  BY <1>6 DEF Least
  <2> HIDE DEF d0, d, q
  <2>4. d <= w  BY <1>13, <2>1, <2>2
  <2>5. m \in Nat /\ m <= d * 100
    <3>1. q \in Nat /\ 100 - q \in Nat  BY <2>3
    <3>2. d * q \in Nat /\ d * (100 - q) \in Nat  BY <2>2, <3>1
    <3>3. d * (100 - q) = d * 100 - d * q  BY <2>2, <3>1
    <3> QED  BY <2>2, <3>2, <3>3
  <2> HIDE DEF m
  <2>6. u \in Nat /\ u <= m  BY <2>5, UnsignedIsNoMore
  <2> HIDE DEF u
  <2>7. u <= w * 100  BY <1>13, <2>2, <2>4, <2>5, <2>6
  <2>8. u \div 100 <= w  BY <1>13, <2>6, <2>7
  <2>9. BarFill(cl, width, h) = u \div 100  BY <1>10 DEF u, m, d, q, d0
  <2> QED  BY <2>8, <2>9
<1>20. x >= hp /\ x + w <= width - hp  BY <1>14, <1>15
<1> QED  BY <1>18, <1>19, <1>20 DEF BetweenSides, cl, width, h, bar, p, hp, w, x

LEMMA UncutRowsFit ==
  ASSUME settings \in Settings, SizesAreKnown, NEW row, IsRow(row), Uncut(row),
         ~row.cl.n.hide_text
  PROVE  RowFits(row)
<1> DEFINE cl == row.cl
           h == row.background.height
           text == TextBox(cl, row.width, h)
           icon == IconBox(cl, row.width, h, text.h)
<1>1. cl \in Layouts /\ row.width \in Int /\ h = DrawnHeight(cl)  BY DEF IsRow
<1>2. NaturalHeight(cl) <= settings.height.max
      /\ TextSize(cl, row.width).h = TextSize(cl, settings.width.max).h
  BY DEF Uncut
<1>3. text.h = TextSize(cl, row.width).h  BY DEF TextBox, ShownText
<1>4. Room(cl, h, text.h) /\ h <= settings.height.max
  BY <1>1, <1>2, <1>3, UncutHasRoom
<1>5. WithinPadding(text, row)
  <2>1. /\ text.y >= settings.padding - Slack
        /\ text.y + text.h <= HeightWithoutBar(cl, h) - settings.padding + Slack
    BY <1>1, <1>4, TextStandsWithin
  <2>2. BetweenSides(text, row)  BY TextLiesBetween
  <2> QED  BY <2>1, <2>2 DEF WithinPadding
<1>6. ASSUME cl.icon # NoIcon  PROVE WithinPadding(icon, row) /\ Apart(icon, text, cl)
  <2>1. /\ icon.y >= settings.padding - Slack
        /\ icon.y + icon.h <= HeightWithoutBar(cl, h) - settings.padding + Slack
    BY <1>1, <1>4, <1>6, IconStandsWithin
  <2>2. BetweenSides(icon, row)  BY <1>6, IconLiesBetween
  <2>3. Apart(icon, text, cl)  BY <1>4, <1>6, IconAndTextAreApart
  <2> QED  BY <2>1, <2>2, <2>3 DEF WithinPadding
<1>7. ASSUME HaveProgressBar(cl)
      PROVE  /\ BarBox(cl, row.width, h).y + BarBox(cl, row.width, h).h
                  <= h - settings.padding
             /\ BetweenSides(BarBox(cl, row.width, h), row)
             /\ BarFill(cl, row.width, h) <= BarBox(cl, row.width, h).w
  BY <1>4, <1>7, BarFits
<1> HIDE DEF text, icon
<1> QED  BY <1>5, <1>6, <1>7 DEF RowFits, text, icon

(* ContentFits: calculate_notification_dimensions measures a card,         *)
(* layout_render and render_content place text, icon and bar in it with    *)
(* sums of their own, with halves cut off and in unsigned numbers; in a    *)
(* card that is neither too high nor too narrow everything lies within the *)
(* padding and nothing lies over anything else, for any settings, icons    *)
(* and texts.                                                              *)
THEOREM ContentsFit == LayoutSpec => []ContentFits
<1>1. FitInv => ContentFits
  <2> SUFFICES ASSUME FitInv, window # NoWindow, NEW i \in DOMAIN window.rows,
                      Uncut(window.rows[i]), ~window.rows[i].cl.n.hide_text
               PROVE  RowFits(window.rows[i])
    BY DEF ContentFits
  <2>1. settings \in Settings /\ SizesAreKnown /\ IsRow(window.rows[i])
    BY DEF FitInv, RowsAreLaidOut
  <2> QED  BY <2>1, UncutRowsFit
<1>2. FitInv /\ [LayoutNext]_layoutVars => FitInv'  BY FitStepHolds
<1> QED  BY <1>1, <1>2, FitInitHolds, PTL DEF LayoutSpec
=============================================================================
