--------------------------- MODULE WaylandProofs ---------------------------
(***************************************************************************)
(* The Wayland output for every value of the constants: a timer runs       *)
(* whenever something on the screen has to go, however run() was nested,   *)
(* and no frame is sent without a buffer or a size.                        *)
(***************************************************************************)
EXTENDS Wayland, SequenceLemmas, FiniteSetTheorems

Calls == {"show", "hide", "reload", "unpause"}

(* reload is nested in nothing: only calls of run wait above it. *)
Stacked(s) == \A i \in 1..(Len(s) - 1) : s[i] \in {"show", "hide"}

---------------------------------------------------------------------------
(* The timer                                                               *)

(* What is displayed has a timer, or a call of run that will start one. *)
TimerInv ==
  /\ stack \in Seq(Calls) /\ Stacked(stack)
  /\ timers \in [sources : Nat, tracked : BOOLEAN]
  /\ timers.tracked => timers.sources > 0
  /\ want # 0 => timers.tracked \/ "show" \in ToSet(stack)

LEMMA Pushed ==
  ASSUME NEW e \in Calls, NEW s \in Seq(Calls)
  PROVE  /\ <<e>> \o s \in Seq(Calls)
         /\ ToSet(<<e>> \o s) = {e} \cup ToSet(s)
         /\ <<e>> \o s # <<>> /\ Head(<<e>> \o s) = e
         /\ Last(<<e>> \o s) = IF s = <<>> THEN e ELSE Last(s)
         /\ e \in {"show", "hide"} /\ Stacked(s) => Stacked(<<e>> \o s)
<1> DEFINE u == <<e>> \o s
           n == Len(s)
<1>0. <<e>> \in Seq(Calls) /\ Len(<<e>>) = 1 /\ <<e>>[1] = e  OBVIOUS
<1>1. n \in Nat  BY LenProperties
<1>2. u \in Seq(Calls) /\ Len(u) = 1 + n
  BY <1>0, ConcatProperties
<1>3. \A i \in 1..(1 + n) : u[i] = IF i <= 1 THEN <<e>>[i] ELSE s[i - 1]
  BY <1>0, ConcatProperties
<1>4. ToSet(s) = { s[j] : j \in 1..n }  BY Elements
<1>5. s = <<>> <=> n = 0  BY EmptySeq
<1> HIDE DEF u, n
<1>6. ToSet(u) = { u[j] : j \in 1..(1 + n) }  BY <1>2, Elements
<1>7. u[1] = e /\ u # <<>> /\ Head(u) = e
  <2>1. u[1] = e  BY <1>0, <1>1, <1>3
  <2>2. u # <<>>  BY <1>1, <1>2, EmptySeq
  <2> QED  BY <2>1, <2>2, <1>2, HeadTailProperties
<1>8. \A j \in 1..n : u[j + 1] = s[j]
  <2> TAKE j \in 1..n
  <2>1. j + 1 \in 1..(1 + n) /\ ~(j + 1 <= 1) /\ (j + 1) - 1 = j  BY <1>1
  <2> QED  BY <2>1, <1>3
<1>9. ToSet(u) = {e} \cup ToSet(s)
  <2>1. \A j \in 1..(1 + n) : j = 1 \/ (j - 1 \in 1..n /\ (j - 1) + 1 = j)
    BY <1>1
  <2>2. \A j \in 1..n : j + 1 \in 1..(1 + n)  BY <1>1
  <2>3. 1 \in 1..(1 + n)  BY <1>1
  <2>4. \A j \in 1..(1 + n) : u[j] \in {e} \cup ToSet(s)
    <3> TAKE j \in 1..(1 + n)
    <3>1. CASE j = 1  BY <3>1, <1>7
    <3>2. CASE j # 1
      <4>1. j - 1 \in 1..n /\ u[j] = s[j - 1]  BY <3>2, <2>1, <1>8
      <4> QED  BY <4>1, <1>4
    <3> QED  BY <3>1, <3>2
  <2>5. \A j \in 1..n : s[j] \in ToSet(u)
    <3> TAKE j \in 1..n
    <3>1. s[j] = u[j + 1] /\ j + 1 \in 1..(1 + n)  BY <1>8, <2>2
    <3> QED  BY <3>1, <1>6
  <2>6. e \in ToSet(u)  BY <2>3, <1>6, <1>7
  <2> QED  BY <2>4, <2>5, <2>6, <1>4, <1>6
<1>10. Last(u) = IF s = <<>> THEN e ELSE Last(s)
  <2>1. CASE n = 0
    <3>1. Last(u) = u[1]  BY <2>1, <1>2 DEF Last
    <3> QED  BY <3>1, <2>1, <1>5, <1>7
  <2>2. CASE n # 0
    <3>1. n \in 1..n  BY <2>2, <1>1
    <3>2. Last(u) = u[n + 1]  BY <1>1, <1>2 DEF Last
    <3>3. Last(s) = s[n]  BY DEF Last, n
    <3> QED  BY <3>1, <3>2, <3>3, <2>2, <1>5, <1>8
  <2> QED  BY <2>1, <2>2
<1>11. ASSUME e \in {"show", "hide"}, Stacked(s) PROVE Stacked(u)
  <2>1. Len(u) - 1 = n  BY <1>1, <1>2
  <2>2. \A i \in 1..(n - 1) : s[i] \in {"show", "hide"}  BY <1>11 DEF Stacked, n
  <2>3. ASSUME NEW i \in 1..n PROVE u[i] \in {"show", "hide"}
    <3>1. CASE i = 1  BY <3>1, <1>7, <1>11
    <3>2. CASE i # 1
      <4>1. i - 1 \in 1..n /\ i - 1 \in 1..(n - 1) /\ (i - 1) + 1 = i
        BY <3>2, <1>1
      <4>2. u[i] = s[i - 1]  BY <4>1, <1>8
      <4> QED  BY <4>1, <4>2, <2>2
    <3> QED  BY <3>1, <3>2
  <2> QED  BY <2>1, <2>3 DEF Stacked
<1> QED  BY <1>2, <1>7, <1>9, <1>10, <1>11 DEF u

LEMMA Popped ==
  ASSUME NEW s \in Seq(Calls), s # <<>>
  PROVE  /\ Tail(s) \in Seq(Calls)
         /\ ToSet(Tail(s)) \subseteq ToSet(s)
         /\ \A e \in ToSet(s) : e # Head(s) => e \in ToSet(Tail(s))
         /\ Tail(s) # <<>> => Last(Tail(s)) = Last(s)
         /\ Stacked(s) => Stacked(Tail(s))
<1> DEFINE t == Tail(s)
           n == Len(s)
<1>1. t \in Seq(Calls) /\ Narrowed(s, t, 1) /\ n \in Nat \ {0}
  BY TailNarrowed, EmptySeq, LenProperties
<1>2. Head(s) = s[1]  OBVIOUS
<1>3. ToSet(s) = { s[j] : j \in 1..n }  BY Elements
<1>4. Len(t) = n - 1 /\ \A j \in 1..(n - 1) : t[j] = IF j < 1 THEN s[j] ELSE s[j + 1]
  BY <1>1 DEF Narrowed
<1>5. Last(s) = s[n]  BY DEF Last
<1> HIDE DEF t, n
<1>6. ToSet(t) = { t[j] : j \in 1..Len(t) } /\ (t = <<>> <=> Len(t) = 0)
  BY <1>1, Elements, EmptySeq
<1>7. \A j \in 1..Len(t) : t[j] = s[j + 1] /\ j + 1 \in 1..n
  <2> TAKE j \in 1..Len(t)
  <2>1. j \in 1..(n - 1) /\ ~(j < 1) /\ j + 1 \in 1..n  BY <1>1, <1>4
  <2> QED  BY <2>1, <1>4
<1>8. ToSet(t) \subseteq ToSet(s)  BY <1>3, <1>6, <1>7
<1>9. ASSUME NEW e \in ToSet(s), e # Head(s) PROVE e \in ToSet(t)
  <2>1. PICK j \in 1..n : e = s[j]  BY <1>3
  <2>2. j # 1  BY <2>1, <1>2, <1>9
  <2>3. j - 1 \in 1..Len(t) /\ (j - 1) + 1 = j  BY <1>1, <1>4, <2>1, <2>2
  <2>4. t[j - 1] = s[j]  BY <1>7, <2>3
  <2> QED  BY <2>1, <2>3, <2>4, <1>6
<1>10. ASSUME t # <<>> PROVE Last(t) = Last(s)
  <2> DEFINE m == Len(t)
  <2>1. m \in Nat /\ m # 0  BY <1>1, <1>6, <1>10, LenProperties
  <2>2. Last(t) = t[m]  BY DEF Last
  <2>3. m = n - 1  BY <1>4
  <2> HIDE DEF m
  <2>4. m \in 1..Len(t) /\ m + 1 = n  BY <2>1, <2>3, <1>1, <1>4
  <2> QED  BY <2>2, <2>4, <1>5, <1>7
<1>11. ASSUME Stacked(s) PROVE Stacked(t)
  <2>1. \A i \in 1..(n - 1) : s[i] \in {"show", "hide"}  BY <1>11 DEF Stacked, n
  <2>2. \A i \in 1..(Len(t) - 1) :
          i \in 1..Len(t) /\ i + 1 \in 1..(n - 1)
    BY <1>1, <1>4
  <2> QED  BY <2>1, <2>2, <1>7 DEF Stacked
<1> QED  BY <1>1, <1>8, <1>9, <1>10, <1>11 DEF t

LEMMA StackBottom ==
  ASSUME NEW s \in Seq(Calls), s # <<>>, Stacked(s)
  PROVE  /\ Head(s) \notin {"show", "hide"} => ToSet(s) = {Head(s)}
         /\ "reload" \in ToSet(s) => Last(s) = "reload"
<1> DEFINE n == Len(s)
<1>1. n \in Nat \ {0}  BY EmptySeq, LenProperties
<1>2. ToSet(s) = { s[j] : j \in 1..n }  BY Elements
<1>3. \A i \in 1..(n - 1) : s[i] \in {"show", "hide"}  BY DEF Stacked
<1>4. Head(s) = s[1] /\ Last(s) = s[n]  BY DEF Last
<1> HIDE DEF n
<1>5. ASSUME Head(s) \notin {"show", "hide"} PROVE ToSet(s) = {Head(s)}
  <2>1. ~(1 \in 1..(n - 1))  BY <1>3, <1>4, <1>5
  <2>2. n = 1  BY <2>1, <1>1
  <2>3. 1..n = {1}  BY <2>2
  <2> QED  BY <2>3, <1>2, <1>4
<1>6. ASSUME "reload" \in ToSet(s) PROVE Last(s) = "reload"
  <2>1. PICK j \in 1..n : s[j] = "reload"  BY <1>2, <1>6
  <2>2. ~(j \in 1..(n - 1))  BY <2>1, <1>3
  <2>3. j = n  BY <2>2, <1>1
  <2> QED  BY <2>1, <2>3, <1>4
<1> QED  BY <1>5, <1>6

LEMMA DisarmKeeps ==
  ASSUME TimerInv, NEW reason, reason = "timer" => timers.sources > 0
  PROVE  /\ Disarm(timers, reason) \in [sources : Nat, tracked : BOOLEAN]
         /\ ~Disarm(timers, reason).tracked
         /\ Arm(Disarm(timers, reason)) \in [sources : Nat, tracked : BOOLEAN]
         /\ Arm(Disarm(timers, reason)).tracked
         /\ Arm(Disarm(timers, reason)).sources > 0
<1> DEFINE k == IF reason = "timer" \/ timers.tracked THEN timers.sources - 1
                ELSE timers.sources
<1>1. /\ timers \in [sources : Nat, tracked : BOOLEAN]
      /\ timers.tracked => timers.sources > 0
  BY DEF TimerInv
<1>2. timers.sources \in Nat  BY <1>1
<1>3. k \in Nat  BY <1>1, <1>2
<1>4. Disarm(timers, reason) = [sources |-> k, tracked |-> FALSE]  BY DEF Disarm
<1> HIDE DEF k
<1>5. Arm(Disarm(timers, reason)) = [sources |-> k + 1, tracked |-> TRUE]
  BY <1>4 DEF Arm
<1>6. k + 1 \in Nat /\ k + 1 > 0  BY <1>3
<1>7. /\ [sources |-> k, tracked |-> FALSE] \in [sources : Nat, tracked : BOOLEAN]
      /\ ~[sources |-> k, tracked |-> FALSE].tracked
  BY <1>3
<1>8. /\ [sources |-> k + 1, tracked |-> TRUE] \in [sources : Nat, tracked : BOOLEAN]
      /\ [sources |-> k + 1, tracked |-> TRUE].tracked
      /\ [sources |-> k + 1, tracked |-> TRUE].sources > 0
  BY <1>6
<1> QED  BY <1>4, <1>5, <1>7, <1>8

LEMMA RunOnKeepsTimer ==
  ASSUME TimerInv, NEW w, NEW reason, NEW cs,
         NEW under \in Seq(Calls), Stacked(under),
         reason = "timer" => timers.sources > 0,
         RunOn(w, reason, cs, under)
  PROVE  TimerInv'
<1> DEFINE t == Disarm(timers, reason)
<1>1. /\ t \in [sources : Nat, tracked : BOOLEAN] /\ ~t.tracked
      /\ Arm(t) \in [sources : Nat, tracked : BOOLEAN] /\ Arm(t).tracked
      /\ Arm(t).sources > 0
  BY DisarmKeeps
<1>2. \/ want' = 0 /\ stack' = <<"hide">> \o under /\ timers' = t
      \/ stack' = <<"show">> \o under /\ timers' = t
      \/ stack' = under /\ timers' = Arm(t)
  BY DEF RunOn
<1> HIDE DEF t
<1>3. "show" \in Calls /\ "hide" \in Calls  BY DEF Calls
<1>4. CASE want' = 0 /\ stack' = <<"hide">> \o under /\ timers' = t
  <2>1. <<"hide">> \o under \in Seq(Calls) /\ Stacked(<<"hide">> \o under)
    BY <1>3, Pushed
  <2>2. stack' \in Seq(Calls) /\ Stacked(stack)'  BY <2>1, <1>4 DEF Stacked
  <2> QED  BY <2>2, <1>1, <1>4 DEF TimerInv
<1>5. CASE stack' = <<"show">> \o under /\ timers' = t
  <2>5. <<"show">> \o under \in Seq(Calls) /\ Stacked(<<"show">> \o under)
    BY <1>3, Pushed
  <2>1. stack' \in Seq(Calls) /\ Stacked(stack)'  BY <2>5, <1>5 DEF Stacked
  <2>2. ToSet(<<"show">> \o under) = {"show"} \cup ToSet(under)
    BY <1>3, Pushed
  <2>3. "show" \in ToSet(stack')  BY <2>2, <1>5
  <2>4. ToSet(stack)' = ToSet(stack')  BY DEF ToSet
  <2> QED  BY <2>1, <2>3, <2>4, <1>1, <1>5 DEF TimerInv
<1>6. CASE stack' = under /\ timers' = Arm(t)
  BY <1>1, <1>6 DEF TimerInv, Stacked
<1> QED  BY <1>2, <1>4, <1>5, <1>6

LEMMA WakeUpKeepsTimer ==
  ASSUME TimerInv, NEW w, WakeUp(w)
  PROVE  TimerInv'
<1>1. stack \in Seq(Calls) /\ Stacked(stack)  BY DEF TimerInv
<1>2. CASE Quietly(w)  BY <1>2 DEF Quietly, TimerInv, ToSet, Stacked
<1>3. CASE Run(w, "wakeup")
  <2>1. PICK cs : RunOn(w, "wakeup", cs, stack)  BY <1>3 DEF Run
  <2> QED  BY <2>1, <1>1, RunOnKeepsTimer
<1> QED  BY <1>2, <1>3 DEF WakeUp

(* Most events leave the calls and the timer alone. *)
LEMMA QuietKeepsTimer ==
  ASSUME TimerInv, UNCHANGED <<want, stack, timers>>
  PROVE  TimerInv'
BY DEF TimerInv, ToSet, Stacked

LEMMA ReturnKeepsTimer ==
  ASSUME TimerInv, ReturnToRun
  PROVE  TimerInv'
<1>1. /\ stack \in Seq(Calls) /\ stack # <<>>
      /\ Head(stack) \in {"show", "hide"} /\ stack' = Tail(stack) /\ want' = want
  BY DEF TimerInv, ReturnToRun
<1>0. Stacked(stack)  BY DEF TimerInv
<1>2. /\ Tail(stack) \in Seq(Calls) /\ Stacked(Tail(stack))
      /\ \A e \in ToSet(stack) : e # Head(stack) => e \in ToSet(Tail(stack))
  BY <1>0, <1>1, Popped
<1>3. ToSet(stack)' = ToSet(Tail(stack)) /\ Stacked(stack)'
  BY <1>1, <1>2 DEF ToSet, Stacked
<1>4. timers \in [sources : Nat, tracked : BOOLEAN]  BY DEF TimerInv
<1>5. CASE Head(stack) = "show" /\ want # 0
  <2>1. timers' = [sources |-> timers.sources + 1, tracked |-> TRUE]
    BY <1>5 DEF ReturnToRun, Arm
  <2>2. timers.sources \in Nat  BY <1>4
  <2>3. /\ timers' \in [sources : Nat, tracked : BOOLEAN] /\ timers'.tracked
        /\ timers'.sources > 0
    BY <2>1, <2>2
  <2> QED  BY <2>3, <1>1, <1>2, <1>3 DEF TimerInv
<1>6. CASE ~(Head(stack) = "show" /\ want # 0)
  <2>1. timers' = timers  BY <1>6 DEF ReturnToRun
  <2>2. want # 0 => timers.tracked \/ "show" \in ToSet(Tail(stack))
    BY <1>1, <1>2, <1>6 DEF TimerInv
  <2> QED  BY <2>1, <2>2, <1>1, <1>2, <1>3 DEF TimerInv
<1> QED  BY <1>5, <1>6

LEMMA TimerStep == TimerInv /\ [WaylandNext]_wlVars => TimerInv'
<1> SUFFICES ASSUME TimerInv, [WaylandNext]_wlVars PROVE TimerInv'  OBVIOUS
<1>1. stack \in Seq(Calls) /\ Stacked(stack)  BY DEF TimerInv
<1>2. CASE QueuesChange  BY <1>2, WakeUpKeepsTimer DEF QueuesChange
<1>3. CASE TimerFires
  <2>1. timers.sources > 0 /\ Run(wl, "timer")  BY <1>3 DEF TimerFires
  <2>2. PICK cs : RunOn(wl, "timer", cs, stack)  BY <2>1 DEF Run
  <2> QED  BY <2>1, <2>2, <1>1, RunOnKeepsTimer
<1>4. CASE Reload
  <2>1. RunOn(wl, "wakeup", Stubborn, <<"reload">>)  BY <1>4 DEF Reload
  <2>2. <<"reload">> \in Seq(Calls) /\ Stacked(<<"reload">>)
    BY DEF Calls, Stacked
  <2> QED  BY <2>1, <2>2, RunOnKeepsTimer
<1>5. CASE Reinit
  <2>1. /\ stack # <<>> /\ Head(stack) = "reload" /\ stack' = <<"unpause">>
        /\ want' = want /\ timers' = timers
    BY <1>5 DEF Reinit
  <2>2. ToSet(stack) = {"reload"}  BY <2>1, <1>1, StackBottom
  <2>3. want # 0 => timers.tracked  BY <2>2 DEF TimerInv
  <2>4. stack' \in Seq(Calls) /\ Stacked(stack)'  BY <2>1 DEF Calls, Stacked
  <2> QED  BY <2>1, <2>3, <2>4 DEF TimerInv
<1>6. CASE Unpause
  <2>1. RunOn(wl, "wakeup", Size, <<>>)  BY <1>6 DEF Unpause
  <2>2. <<>> \in Seq(Calls) /\ Stacked(<<>>)  BY DEF Stacked
  <2> QED  BY <2>1, <2>2, RunOnKeepsTimer
<1>7. CASE ReturnToRun  BY <1>7, ReturnKeepsTimer
<1>8. CASE SurfaceEvent
  BY <1>8, QuietKeepsTimer
     DEF SurfaceEvent, Release, Configure, Closed, FrameDone, Quietly
<1>9. CASE OutputEvent
  <2>1. PICK o \in Outputs : OutputScale(o) \/ OutputRemoved(o)
    BY <1>9 DEF OutputEvent
  <2>2. CASE OutputScale(o)  BY <2>2, WakeUpKeepsTimer DEF OutputScale
  <2>3. CASE OutputRemoved(o)
    BY <2>3, QuietKeepsTimer DEF OutputRemoved, Quietly
  <2> QED  BY <2>1, <2>2, <2>3
<1>10. CASE DesktopChange
  <2>1. CASE CompositorCloses
    BY <2>1, QuietKeepsTimer DEF CompositorCloses, Quietly
  <2>2. CASE \E o \in Outputs : OutputAppears(o) \/ OutputUnplugged(o)
    BY <2>2, QuietKeepsTimer DEF OutputAppears, OutputUnplugged, Quietly
  <2>3. CASE \E w \in Windows : TopDone(w)
    <3>1. PICK w \in Windows : TopDone(w)  BY <2>3
    <3>2. WakeUp(wl) \/ Quietly(wl)  BY <3>1 DEF TopDone
    <3>3. CASE Quietly(wl)  BY <3>3, QuietKeepsTimer DEF Quietly
    <3> QED  BY <3>2, <3>3, WakeUpKeepsTimer
  <2>4. CASE \E w \in Windows :
               \/ TopAppears(w) \/ TopClosed(w)
               \/ \E o \in Outputs : TopEnters(w, o) \/ TopLeaves(w, o)
               \/ \E s \in TopState : TopSaysState(w, s)
    BY <2>4, QuietKeepsTimer
       DEF TopAppears, TopClosed, TopEnters, TopLeaves, TopSaysState, Quietly
  <2>5. CASE \E s \in Seats :
               SeatAppears(s) \/ SeatRemoved(s) \/ SeatIdles(s) \/ SeatResumes(s)
    BY <2>5, QuietKeepsTimer
       DEF SeatAppears, SeatRemoved, SeatIdles, SeatResumes, SeatsChange, Quietly
  <2> QED  BY <1>10, <2>1, <2>2, <2>3, <2>4, <2>5 DEF DesktopChange
<1>11. CASE PointerEvent  BY <1>11, WakeUpKeepsTimer DEF PointerEvent
<1>12. CASE UNCHANGED wlVars  BY <1>12, QuietKeepsTimer DEF wlVars
<1> QED
  BY <1>2, <1>3, <1>4, <1>5, <1>6, <1>7, <1>8, <1>9, <1>10, <1>11, <1>12
     DEF WaylandNext, MainLoop

(* TimerArmed: the first thing run() does is to give up the timer, and     *)
(* draw() may dispatch events that run it again; yet when all of them have *)
(* returned and something is displayed, a timer is running.                *)
THEOREM TimerIsArmed == WaylandSpec => []TimerArmed
<1>1. WaylandInit => TimerInv
  <2>1. <<>> \in Seq(Calls) /\ Stacked(<<>>)  BY DEF Stacked
  <2> QED  BY <2>1 DEF WaylandInit, TimerInv
<1>2. TimerInv => TimerArmed
  <2>1. ToSet(<<>>) = {}  BY NoElements
  <2> QED  BY <2>1 DEF TimerInv, TimerArmed
<1> QED  BY <1>1, <1>2, TimerStep, PTL DEF WaylandSpec

---------------------------------------------------------------------------
(* The surface                                                             *)

(* A context, whatever its output. *)
Shaped(w) ==
  w \in [ surface : BOOLEAN, layer_surface_output : {w.layer_surface_output},
          configured : BOOLEAN, size : Size, cur_dim : Size, dirty : BOOLEAN,
          frame_callback : {"none", "pending", "dead"}, current_buffer : 0..2,
          busy : SUBSET (1..2), content : [1..2 -> Size], set_size : Size,
          attached : Size, asked : Size, closing : BOOLEAN, screen : Size,
          dead : BOOLEAN ]

(* Nothing of what a request may end in is amiss: there is a buffer to     *)
(* attach, at most one is with the compositor, and a surface has asked for *)
(* a size, which one that is gone has forgotten.                           *)
Sane(w) ==
  /\ Shaped(w) /\ ~w.dead
  /\ \E b \in 1..2 : w.busy \subseteq {b}
  /\ w.cur_dim # 0 => w.current_buffer # 0
  /\ ~w.surface => ~w.configured /\ w.size = 0
  /\ w.surface => w.configured \/ w.asked # 0
  /\ w.surface /\ compositor.layer_shell => w.set_size # 0

LEMMA SizeIsNat == Size \subseteq Nat /\ 0 \in Size
BY WaylandAssumption DEF Size

LEMMA TearDownSane ==
  ASSUME NEW w, Shaped(w), ~w.dead, \E b \in 1..2 : w.busy \subseteq {b},
         w.cur_dim # 0 => w.current_buffer # 0
  PROVE  /\ Sane(TearDown(w)) /\ TearDown(w).cur_dim = w.cur_dim
         /\ TearDown(w).busy = w.busy /\ ~TearDown(w).surface
         /\ TearDown(w).current_buffer = w.current_buffer
BY SizeIsNat DEF Shaped, Sane, TearDown, Destroy

LEMMA CleanSane ==
  ASSUME NEW w, Sane(w), NEW d \in BOOLEAN
  PROVE  /\ Sane([w EXCEPT !.dirty = d])
         /\ [w EXCEPT !.dirty = d].cur_dim = w.cur_dim
BY DEF Sane, Shaped

LEMMA CommitSane ==
  ASSUME NEW w, Sane(w)
  PROVE  Sane(Commit(w)) /\ Commit(w).cur_dim = w.cur_dim
<1>1. 0 \in Size  BY SizeIsNat
<1>2. Shaped(Commit(w))  BY <1>1 DEF Sane, Shaped, Commit
<1>3. /\ Commit(w).dead = w.dead /\ Commit(w).busy = w.busy
      /\ Commit(w).cur_dim = w.cur_dim
      /\ Commit(w).current_buffer = w.current_buffer
      /\ Commit(w).surface = w.surface /\ Commit(w).configured = w.configured
      /\ Commit(w).size = w.size /\ Commit(w).asked = w.asked
      /\ Commit(w).set_size = w.set_size
  BY DEF Sane, Shaped, Commit
<1> QED  BY <1>2, <1>3 DEF Sane

LEMMA RequestSane ==
  ASSUME NEW w, Sane(w)
  PROVE  Sane(RequestFrame(w)) /\ RequestFrame(w).cur_dim = w.cur_dim
<1> DEFINE c == Commit(w)
           r == [c EXCEPT !.frame_callback = "pending"]
<1>1. Sane(c) /\ c.cur_dim = w.cur_dim  BY CommitSane
<1> HIDE DEF c
<1>2. Sane(r) /\ r.cur_dim = c.cur_dim  BY <1>1 DEF Sane, Shaped
<1> QED  BY <1>1, <1>2 DEF RequestFrame, c

(* A surface with a size to ask for. *)
Sized(w) ==
  /\ Shaped(w) /\ ~w.dead /\ w.surface
  /\ \E b \in 1..2 : w.busy \subseteq {b}
  /\ w.cur_dim # 0 /\ w.current_buffer # 0
  /\ compositor.layer_shell => w.set_size # 0

LEMMA ResizeSized ==
  ASSUME NEW w, Shaped(w), ~w.dead, w.surface,
         \E b \in 1..2 : w.busy \subseteq {b},
         w.cur_dim # 0, w.current_buffer # 0,
         compositor.layer_shell => w.set_size # 0 \/ w.size # w.cur_dim
  PROVE  /\ Sized(Resize(w)) /\ Resize(w).cur_dim = w.cur_dim
         /\ Resize(w).busy = w.busy
         /\ Resize(w).configured => w.configured
BY DEF Shaped, Sized, Resize

LEMMA CreateShaped ==
  ASSUME NEW w, Shaped(w), NEW output
  PROVE  LET c == Create(w, output)
         IN /\ Shaped(c) /\ c.surface /\ c.dead = w.dead /\ c.busy = w.busy
            /\ c.cur_dim = w.cur_dim /\ c.current_buffer = w.current_buffer
            /\ c.size = w.size /\ c.configured = w.configured
BY DEF Shaped, Create

(* The end of send_frame: the size is asked for, or the buffer is sent. *)
LEMMA SentSane ==
  ASSUME NEW w, Sized(w), w.configured => w.busy = {}
  PROVE  /\ ~w.configured =>
              /\ Sane(CommitUnconfigured(w))
              /\ CommitUnconfigured(w).cur_dim = w.cur_dim
         /\ w.configured =>
              /\ Sane([RequestFrame(Attach(w)) EXCEPT !.dirty = FALSE])
              /\ [RequestFrame(Attach(w)) EXCEPT !.dirty = FALSE].cur_dim
                   = w.cur_dim
<1>1. 0 \in Size  BY SizeIsNat
<1>2. ASSUME ~w.configured
      PROVE  /\ Sane(CommitUnconfigured(w))
             /\ CommitUnconfigured(w).cur_dim = w.cur_dim
  <2> DEFINE c == Commit(w)
             asked == IF compositor.layer_shell THEN w.set_size ELSE w.cur_dim
             u == [c EXCEPT !.asked = asked,
                            !.dead = compositor.layer_shell /\ w.set_size = 0]
  <2>1. Shaped(c)  BY <1>1 DEF Sized, Shaped, Commit
  <2>2. /\ c.busy = w.busy /\ c.cur_dim = w.cur_dim
        /\ c.current_buffer = w.current_buffer /\ c.surface = w.surface
        /\ c.set_size = w.set_size
    BY DEF Sized, Shaped, Commit
  <2>3. asked \in Size /\ asked # 0  BY DEF Sized, Shaped
  <2>4. (compositor.layer_shell /\ w.set_size = 0) = FALSE  BY DEF Sized
  <2> HIDE DEF c, asked
  <2>5. Shaped(u) /\ u.dead = FALSE /\ u.asked = asked /\ u.busy = c.busy
        /\ u.cur_dim = c.cur_dim /\ u.current_buffer = c.current_buffer
        /\ u.surface = c.surface /\ u.set_size = c.set_size
    BY <2>1, <2>3, <2>4 DEF Shaped
  <2>6. CommitUnconfigured(w) = u  BY DEF CommitUnconfigured, c, asked
  <2> HIDE DEF u
  <2> QED  BY <2>2, <2>3, <2>5, <2>6 DEF Sane, Sized
<1>3. ASSUME w.configured
      PROVE  /\ Sane([RequestFrame(Attach(w)) EXCEPT !.dirty = FALSE])
             /\ [RequestFrame(Attach(w)) EXCEPT !.dirty = FALSE].cur_dim = w.cur_dim
  <2> DEFINE a == Attach(w)
             b == w.current_buffer
             held == w.content[b]
             busy == w.busy \cup {b}
  <2>0. w.busy = {} /\ b # 0  BY <1>3 DEF Sized
  <2>1. b \in 1..2 /\ held \in Size
    <3>1. w.current_buffer \in 0..2 /\ w.content \in [1..2 -> Size]
      BY DEF Sized, Shaped
    <3>2. b \in 1..2  BY <2>0, <3>1
    <3> QED  BY <3>1, <3>2
  <2>2. a = [w EXCEPT !.attached = held, !.busy = busy]
    BY <2>0 DEF Attach
  <2>7. busy = {b} /\ busy \in SUBSET (1..2)  BY <2>0, <2>1
  <2> HIDE DEF b, held, busy
  <2>3. Shaped(a) /\ ~a.dead /\ a.busy = {b} /\ a.cur_dim = w.cur_dim
        /\ a.current_buffer = w.current_buffer /\ a.surface = w.surface
        /\ a.set_size = w.set_size /\ a.configured = w.configured
    <3> HIDE DEF a
    <3> QED  BY <2>1, <2>2, <2>7 DEF Sized, Shaped
  <2> HIDE DEF a
  <2>4. Sane(a)  BY <1>3, <2>1, <2>3 DEF Sane, Sized
  <2>5. Sane(RequestFrame(a)) /\ RequestFrame(a).cur_dim = a.cur_dim
    BY <2>4, RequestSane
  <2>6. /\ Sane([RequestFrame(a) EXCEPT !.dirty = FALSE])
        /\ [RequestFrame(a) EXCEPT !.dirty = FALSE].cur_dim = RequestFrame(a).cur_dim
    BY <2>5, CleanSane
  <2> QED  BY <2>3, <2>5, <2>6 DEF a
<1> QED  BY <1>2, <1>3

(* send_frame with a buffer at the compositor only sends another one if    *)
(* there is a surface and it is configured.                                *)
LEMMA SendFrameSane ==
  ASSUME NEW w, Sane(w), NEW outs, w.surface => w.busy = {}
  PROVE  Sane(SendFrame(w, outs)) /\ SendFrame(w, outs).cur_dim = w.cur_dim
<1> DEFINE output == ConfiguredOutput(outs, settings')
           torn == TearDown(w)
           kept == IF w.cur_dim = 0 \/ w.layer_surface_output # output
                   THEN torn ELSE w
           made == Create(kept, output)
           sized == Resize(IF kept.surface THEN kept ELSE made)
<1>1. SendFrame(w, outs)
        = IF outs = <<>> THEN [w EXCEPT !.dirty = FALSE]
          ELSE IF w.cur_dim = 0 THEN [kept EXCEPT !.dirty = FALSE]
          ELSE IF ~sized.configured THEN CommitUnconfigured(sized)
          ELSE [RequestFrame(Attach(sized)) EXCEPT !.dirty = FALSE]
  BY DEF SendFrame
<1> HIDE DEF output
<1>2. /\ Sane(torn) /\ torn.cur_dim = w.cur_dim /\ torn.busy = w.busy
      /\ ~torn.surface /\ torn.current_buffer = w.current_buffer
  BY TearDownSane DEF Sane
<1> HIDE DEF torn
<1>3. /\ Sane(kept) /\ kept.cur_dim = w.cur_dim /\ kept.busy = w.busy
      /\ kept.surface => w.surface
      /\ kept.current_buffer = w.current_buffer
  BY <1>2
<1> HIDE DEF kept
<1>4. CASE outs = <<>>  BY <1>1, <1>4, CleanSane
<1>5. CASE outs # <<>> /\ w.cur_dim = 0
  BY <1>1, <1>3, <1>5, CleanSane
<1>6. CASE outs # <<>> /\ w.cur_dim # 0
  <2>1. /\ Shaped(made) /\ made.surface /\ made.dead = kept.dead
        /\ made.busy = kept.busy /\ made.cur_dim = kept.cur_dim
        /\ made.current_buffer = kept.current_buffer /\ made.size = kept.size
        /\ made.configured = kept.configured
    BY <1>3, CreateShaped DEF Sane
  <2> HIDE DEF made
  <2>2. kept.cur_dim # 0 /\ kept.current_buffer # 0  BY <1>3, <1>6 DEF Sane
  <2>3. /\ Sized(sized) /\ sized.cur_dim = w.cur_dim
        /\ sized.configured => sized.busy = {}
    <3>1. CASE kept.surface
      <4>1. sized = Resize(kept)  BY <3>1
      <4>2. /\ Sized(Resize(kept)) /\ Resize(kept).cur_dim = kept.cur_dim
            /\ Resize(kept).busy = kept.busy
        BY <1>3, <2>2, <3>1, ResizeSized DEF Sane
      <4> QED  BY <4>1, <4>2, <1>3, <3>1
    <3>2. CASE ~kept.surface
      <4>1. sized = Resize(made)  BY <3>2
      <4>2. ~made.configured /\ made.size # made.cur_dim
        BY <2>1, <2>2, <3>2, <1>3 DEF Sane
      <4>3. \E b \in 1..2 : made.busy \subseteq {b}  BY <2>1, <1>3 DEF Sane
      <4>4. ~made.dead /\ made.cur_dim # 0 /\ made.current_buffer # 0
        BY <2>1, <2>2, <1>3 DEF Sane
      <4>5. /\ Sized(Resize(made)) /\ Resize(made).cur_dim = made.cur_dim
            /\ Resize(made).configured => made.configured
        BY <2>1, <4>2, <4>3, <4>4, ResizeSized
      <4> QED  BY <4>1, <4>2, <4>5, <2>1, <1>3
    <3> QED  BY <3>1, <3>2
  <2> HIDE DEF sized
  <2>4. CASE ~sized.configured
    <3>1. SendFrame(w, outs) = CommitUnconfigured(sized)  BY <1>1, <1>6, <2>4
    <3> QED  BY <3>1, <2>3, <2>4, SentSane
  <2>5. CASE sized.configured
    <3>1. SendFrame(w, outs)
            = [RequestFrame(Attach(sized)) EXCEPT !.dirty = FALSE]
      BY <1>1, <1>6, <2>5
    <3> QED  BY <3>1, <2>3, <2>5, SentSane
  <2> QED  BY <2>4, <2>5
<1> QED  BY <1>4, <1>5, <1>6

LEMMA ScheduleSane ==
  ASSUME NEW w, Sane(w), NEW outs
  PROVE  Sane(Schedule(w, outs)) /\ Schedule(w, outs).cur_dim = w.cur_dim
<1>1. CASE w.frame_callback = "none" /\ ~w.surface
  <2>1. Schedule(w, outs) = SendFrame(w, outs)  BY <1>1 DEF Schedule
  <2> QED  BY <2>1, <1>1, SendFrameSane
<1>2. CASE ~(w.frame_callback = "none" /\ ~w.surface)
  <2>1. Schedule(w, outs) = RequestFrame(w)  BY <1>2 DEF Schedule
  <2> QED  BY <2>1, RequestSane
<1> QED  BY <1>1, <1>2

LEMMA SetDirtySane ==
  ASSUME NEW w, Sane(w), NEW outs
  PROVE  Sane(SetDirty(w, outs)) /\ SetDirty(w, outs).cur_dim = w.cur_dim
<1> DEFINE d == [w EXCEPT !.dirty = TRUE]
<1>1. Sane(d) /\ d.cur_dim = w.cur_dim  BY CleanSane
<1> HIDE DEF d
<1>2. Sane(Schedule(d, outs)) /\ Schedule(d, outs).cur_dim = d.cur_dim
  BY <1>1, ScheduleSane
<1> QED  BY <1>1, <1>2 DEF SetDirty, d

(* draw always has a buffer: the compositor holds one at most. *)
LEMMA DrawSane ==
  ASSUME NEW w, Sane(w), NEW c \in Size, NEW outs
  PROVE  Sane(Draw(w, c, outs))
<1> DEFINE b == NextBuffer(w)
           d == [w EXCEPT !.current_buffer = b, !.content[b] = c, !.cur_dim = c]
<1>1. b \in 1..2 /\ b # 0  BY DEF Sane, NextBuffer
<1> HIDE DEF b
<1>2. Shaped(d)
  <2> DEFINE content == [w.content EXCEPT ![b] = c]
  <2>1. w.content \in [1..2 -> Size]  BY DEF Sane, Shaped
  <2>2. content \in [1..2 -> Size]  BY <2>1
  <2>3. d = [w EXCEPT !.current_buffer = b, !.content = content, !.cur_dim = c]
    BY DEF Sane, Shaped
  <2>4. b \in 0..2  BY <1>1
  <2> HIDE DEF content, d
  <2> QED  BY <2>2, <2>3, <2>4 DEF Sane, Shaped
<1>3. /\ d.dead = w.dead /\ d.busy = w.busy /\ d.current_buffer = b
      /\ d.surface = w.surface /\ d.configured = w.configured
      /\ d.size = w.size /\ d.asked = w.asked /\ d.set_size = w.set_size
  BY DEF Sane, Shaped
<1> HIDE DEF d
<1>4. Sane(d)  BY <1>1, <1>2, <1>3 DEF Sane
<1>5. Draw(w, c, outs) = SetDirty(d, outs)  BY <1>1 DEF Draw, b, d
<1> QED  BY <1>4, <1>5, SetDirtySane

LEMMA WinHideSane ==
  ASSUME NEW w, Sane(w), NEW outs
  PROVE  Sane(WinHide(w, outs)) /\ WinHide(w, outs).cur_dim = 0
<1> DEFINE d == [w EXCEPT !.cur_dim = 0]
<1>1. Sane(d) /\ d.cur_dim = 0  BY SizeIsNat DEF Sane, Shaped
<1> HIDE DEF d
<1>2. Sane(SetDirty(d, outs)) /\ SetDirty(d, outs).cur_dim = d.cur_dim
  BY <1>1, SetDirtySane
<1> QED  BY <1>1, <1>2 DEF WinHide, d

LEMMA ConfigureSane ==
  ASSUME NEW w, Sane(w), w.surface, w.busy = {}, NEW size \in Size
  PROVE  LET r == HandleConfigure([w EXCEPT !.asked = 0], size)
         IN Sane(r) /\ r.cur_dim = w.cur_dim
<1> DEFINE v == [w EXCEPT !.asked = 0]
           to == IF compositor.layer_shell THEN size ELSE v.size
           u == [v EXCEPT !.configured = TRUE, !.size = to]
           r == HandleConfigure(v, size)
<1>1. v.cur_dim = w.cur_dim /\ v.configured = w.configured /\ Shaped(v)
  BY SizeIsNat DEF Sane, Shaped
<1>2. CASE v.configured /\ (compositor.layer_shell => v.size = size)
  <2>1. Sane(v)  BY <1>1, <1>2 DEF Sane, Shaped
  <2>2. r = Commit(v)  BY <1>2 DEF HandleConfigure
  <2> HIDE DEF v
  <2>3. Sane(Commit(v)) /\ Commit(v).cur_dim = v.cur_dim  BY <2>1, CommitSane
  <2> QED  BY <2>2, <2>3, <1>1 DEF v
<1>3. CASE ~(v.configured /\ (compositor.layer_shell => v.size = size))
  <2>1. to \in Size  BY <1>1 DEF Shaped
  <2>2. r = SendFrame(u, outputs')
    <3> HIDE DEF v
    <3>1. [v EXCEPT !.configured = TRUE,
                    !.size = IF compositor.layer_shell THEN size ELSE @] = u
      BY <1>1 DEF Shaped
    <3>2. HandleConfigure(v, size)
            = SendFrame([v EXCEPT !.configured = TRUE,
                           !.size = IF compositor.layer_shell THEN size ELSE @],
                        outputs')
      BY <1>3 DEF HandleConfigure
    <3> HIDE DEF u
    <3> QED  BY <3>1, <3>2
  <2>3. v.surface = TRUE /\ v.busy = {} /\ v.dead = FALSE
        /\ v.set_size = w.set_size /\ v.current_buffer = w.current_buffer
    BY DEF Sane, Shaped
  <2> HIDE DEF v, to
  <2>4. /\ Shaped(u) /\ u.surface = v.surface /\ u.busy = v.busy
        /\ u.dead = v.dead /\ u.set_size = v.set_size /\ u.cur_dim = v.cur_dim
        /\ u.current_buffer = v.current_buffer /\ u.configured = TRUE
    BY <1>1, <2>1 DEF Shaped
  <2> HIDE DEF u
  <2>5. Sane(u)  BY <1>1, <2>3, <2>4 DEF Sane
  <2>6. Sane(SendFrame(u, outputs')) /\ SendFrame(u, outputs').cur_dim = u.cur_dim
    BY <2>3, <2>4, <2>5, SendFrameSane
  <2> HIDE DEF r
  <2>7. Sane(r) /\ r.cur_dim = w.cur_dim  BY <1>1, <2>2, <2>4, <2>6
  <2> QED  BY <2>7 DEF r, v
<1> QED  BY <1>2, <1>3

(* What destroy_surface leaves is as well formed as what it was given.     *)
LEMMA DestroyShaped ==
  ASSUME NEW w, Shaped(w)
  PROVE  /\ Shaped(Destroy(w)) /\ Destroy(w).surface = FALSE
         /\ Destroy(w).dead = w.dead /\ Destroy(w).busy = w.busy
         /\ Destroy(w).cur_dim = w.cur_dim
         /\ Destroy(w).current_buffer = w.current_buffer
<1>1. 0 \in Size  BY SizeIsNat
<1> QED  BY <1>1 DEF Shaped, Destroy

(* A surface that is closed has been configured, and forgets its size. *)
LEMMA ClosedSane ==
  ASSUME NEW w, Sane(w), w.surface, w.asked = 0
  PROVE  Sane(HandleClosed(w)) /\ HandleClosed(w).cur_dim = w.cur_dim
<1> DEFINE gone == [Destroy(w) EXCEPT !.frame_callback = "none",
                      !.dirty = @ \/ w.frame_callback # "none"]
           reset == [gone EXCEPT !.configured = FALSE, !.size = 0, !.dirty = TRUE]
<1>1. w.configured  BY DEF Sane
<1>2. 0 \in Size  BY SizeIsNat
<1>3. Shaped(Destroy(w)) /\ Destroy(w).surface = FALSE
      /\ Destroy(w).dead = w.dead /\ Destroy(w).busy = w.busy
      /\ Destroy(w).cur_dim = w.cur_dim
      /\ Destroy(w).current_buffer = w.current_buffer
  BY DestroyShaped DEF Sane
<1>4. /\ Shaped(gone) /\ gone.surface = FALSE /\ gone.dead = w.dead
      /\ gone.busy = w.busy /\ gone.cur_dim = w.cur_dim
      /\ gone.current_buffer = w.current_buffer
  BY <1>3 DEF Shaped
<1> HIDE DEF gone
<1>5. /\ Shaped(reset) /\ reset.surface = FALSE /\ reset.dead = w.dead
      /\ reset.busy = w.busy /\ reset.cur_dim = w.cur_dim
      /\ reset.current_buffer = w.current_buffer
      /\ reset.configured = FALSE /\ reset.size = 0 /\ reset.dirty = TRUE
  BY <1>2, <1>4 DEF Shaped
<1>6. HandleClosed(w) = Schedule(reset, outputs')
  BY <1>1, <1>5 DEF HandleClosed, gone
<1> HIDE DEF reset
<1>7. Sane(reset)  BY <1>5 DEF Sane
<1> QED  BY <1>5, <1>6, <1>7, ScheduleSane

LEMMA FrameDoneSane ==
  ASSUME NEW w, Sane(w), w.busy = {}
  PROVE  Sane(HandleFrameDone(w)) /\ HandleFrameDone(w).cur_dim = w.cur_dim
<1> DEFINE done == [w EXCEPT !.frame_callback = "none"]
<1>1. Sane(done) /\ done.cur_dim = w.cur_dim /\ done.busy = {}
  BY DEF Sane, Shaped
<1> HIDE DEF done
<1>2. Sane(SendFrame(done, outputs'))
      /\ SendFrame(done, outputs').cur_dim = done.cur_dim
  BY <1>1, SendFrameSane
<1> QED  BY <1>1, <1>2 DEF HandleFrameDone, done

(* wl_init finds a window that was hidden, whatever sizes are left of the  *)
(* surface that wl_deinit destroyed.                                       *)
LEMMA InitSane ==
  ASSUME NEW w, Sane(w), w.cur_dim = 0, NEW outs, outs # <<>>
  PROVE  Sane(WlInit(Deinit(w), outs))
<1> DEFINE de == Deinit(w)
           clean == [de EXCEPT !.dirty = FALSE]
           d == [clean EXCEPT !.dirty = TRUE]
           one == <<Last(outs)>>
<1>1. 0 \in Size  BY SizeIsNat
<1>2. Shaped(Destroy(w)) /\ Destroy(w).dead = w.dead
      /\ Destroy(w).cur_dim = w.cur_dim /\ Destroy(w).surface = FALSE
  <2>1. Shaped(w)  BY DEF Sane
  <2>2. Shaped(Destroy(w))  BY <1>1, <2>1 DEF Shaped, Destroy
  <2>3. Destroy(w).dead = w.dead /\ Destroy(w).surface = FALSE
    BY <2>1 DEF Shaped, Destroy
  <2>4. Destroy(w).cur_dim = w.cur_dim  BY <2>1 DEF Shaped, Destroy
  <2> QED  BY <2>2, <2>3, <2>4
<1>3. NoCtx.content \in [1..2 -> Size]  BY <1>1 DEF NoCtx
<1>4. /\ Shaped(de) /\ de.dead = w.dead /\ de.cur_dim = 0 /\ de.busy = {}
      /\ de.surface = FALSE /\ de.frame_callback = "none"
  <2> DEFINE content == NoCtx.content
             gone == Destroy(w)
             no == NoOutput
  <2>1. de = [gone EXCEPT !.frame_callback = "none", !.current_buffer = 0,
                !.busy = {}, !.content = content, !.layer_surface_output = no]
    BY DEF Deinit
  <2>2. 0 \in 0..2 /\ {} \in SUBSET (1..2)  OBVIOUS
  <2> HIDE DEF content, gone, no, de
  <2>3. Shaped(gone) /\ gone.dead = w.dead /\ gone.cur_dim = 0
        /\ gone.surface = FALSE /\ content \in [1..2 -> Size]
    BY <1>2, <1>3 DEF gone, content
  <2> QED  BY <2>1, <2>2, <2>3 DEF Shaped
<1> HIDE DEF de
<1>5. /\ Shaped(d) /\ d.dead = w.dead /\ d.cur_dim = 0 /\ d.busy = {}
      /\ d.surface = FALSE /\ d.frame_callback = "none" /\ clean.dirty = FALSE
  BY <1>4 DEF Shaped
<1>6. WlInit(de, outs) = Schedule(d, one)
  BY <1>5 DEF WlInit, SetDirty
<1> HIDE DEF d, clean
<1>7. Schedule(d, one) = SendFrame(d, one)  BY <1>5 DEF Schedule
<1>8. one # <<>>  OBVIOUS
<1> HIDE DEF one
<1>9. SendFrame(d, one) = [TearDown(d) EXCEPT !.dirty = FALSE]
  BY <1>5, <1>8 DEF SendFrame
<1>10. Sane(TearDown(d))
  <2>1. d.busy \subseteq {1} /\ 1 \in 1..2  BY <1>5
  <2>2. ~d.dead  BY <1>5 DEF Sane
  <2> QED  BY <2>1, <2>2, <1>5, TearDownSane
<1>11. Sane([TearDown(d) EXCEPT !.dirty = FALSE])  BY <1>10, CleanSane
<1> QED  BY <1>6, <1>7, <1>9, <1>11 DEF de

---------------------------------------------------------------------------
(* The steps                                                               *)

(* When output is set up again, nothing is on the screen and there is a    *)
(* monitor. *)
Hidden ==
  "reload" \in ToSet(stack) => wl.cur_dim = 0 /\ server.plugged # {}

SurfaceInv ==
  /\ TimerInv /\ Sane(wl) /\ Hidden
  /\ server \in [plugged : SUBSET Outputs, scaling : SUBSET Outputs]

LEMMA RunOnSane ==
  ASSUME NEW w, Sane(w), NEW reason, NEW cs, cs \subseteq Size, NEW under,
         RunOn(w, reason, cs, under)
  PROVE  /\ Sane(wl')
         /\ cs = {0} => wl'.cur_dim = 0
         /\ stack' \in {<<"hide">> \o under, <<"show">> \o under, under}
<1>1. PICK c \in cs :
        \/ c = 0 /\ wl' = WinHide(w, outputs') /\ stack' = <<"hide">> \o under
        \/ c # 0 /\ wl' = Draw(w, c, outputs') /\ stack' = <<"show">> \o under
        \/ c # 0 /\ wl' = Draw(w, c, outputs') /\ stack' = under
  BY DEF RunOn
<1>2. CASE c = 0
  <2>1. wl' = WinHide(w, outputs') /\ stack' = <<"hide">> \o under  BY <1>1, <1>2
  <2>2. Sane(WinHide(w, outputs')) /\ WinHide(w, outputs').cur_dim = 0
    BY WinHideSane
  <2> QED  BY <2>1, <2>2
<1>3. CASE c # 0
  <2>1. wl' = Draw(w, c, outputs')
        /\ stack' \in {<<"show">> \o under, under}
    BY <1>1, <1>3
  <2>2. Sane(Draw(w, c, outputs'))  BY DrawSane
  <2> QED  BY <2>1, <2>2, <1>3
<1> QED  BY <1>2, <1>3

(* The calls of run do not change what lies below them. *)
LEMMA SameBottom ==
  ASSUME NEW under \in Seq(Calls),
         NEW s \in {<<"hide">> \o under, <<"show">> \o under, under}
  PROVE  "reload" \in ToSet(s) => "reload" \in ToSet(under)
<1>1. "hide" \in Calls /\ "show" \in Calls  BY DEF Calls
<1>2. /\ ToSet(<<"hide">> \o under) = {"hide"} \cup ToSet(under)
      /\ ToSet(<<"show">> \o under) = {"show"} \cup ToSet(under)
  BY <1>1, Pushed
<1> QED  BY <1>2

(* A step that leaves the calls alone and the window as large as it was. *)
LEMMA SurfaceStays ==
  ASSUME SurfaceInv, TimerInv', compositor' = compositor, Sane(wl'),
         wl'.cur_dim = wl.cur_dim, stack' = stack,
         server' \in [plugged : SUBSET Outputs, scaling : SUBSET Outputs],
         "reload" \in ToSet(stack) /\ server.plugged # {} => server'.plugged # {}
  PROVE  SurfaceInv'
<1>1. Sane(wl)'  BY DEF Sane, Shaped
<1>2. Hidden'  BY DEF SurfaceInv, Hidden, ToSet
<1> QED  BY <1>1, <1>2 DEF SurfaceInv

LEMMA RunKeepsSurface ==
  ASSUME SurfaceInv, TimerInv', compositor' = compositor, server' = server,
         Stubborn = {0}, NEW reason, Run(wl, reason)
  PROVE  SurfaceInv'
<1>1. 0 \in Size /\ stack \in Seq(Calls)  BY SizeIsNat DEF SurfaceInv, TimerInv
<1> DEFINE cs == IF "reload" \in ToSet(stack) THEN Stubborn ELSE Size
<1>2. RunOn(wl, reason, cs, stack) /\ cs \subseteq Size  BY <1>1 DEF Run
<1>3. "reload" \in ToSet(stack) => cs = {0}  OBVIOUS
<1> HIDE DEF cs
<1>4. /\ Sane(wl')
      /\ cs = {0} => wl'.cur_dim = 0
      /\ stack' \in {<<"hide">> \o stack, <<"show">> \o stack, stack}
  BY <1>2, RunOnSane DEF SurfaceInv
<1>5. "reload" \in ToSet(stack') => "reload" \in ToSet(stack)
  BY <1>1, <1>4, SameBottom
<1>6. Sane(wl)'  BY <1>4 DEF Sane, Shaped
<1>7. Hidden'  BY <1>3, <1>4, <1>5 DEF SurfaceInv, Hidden, ToSet
<1> QED  BY <1>6, <1>7 DEF SurfaceInv

LEMMA QuietKeepsSurface ==
  ASSUME SurfaceInv, TimerInv', compositor' = compositor, server' = server,
         NEW w, Sane(w), w.cur_dim = wl.cur_dim, Quietly(w)
  PROVE  SurfaceInv'
<1>1. wl' = w /\ stack' = stack  BY DEF Quietly
<1> QED  BY <1>1, SurfaceStays DEF SurfaceInv

LEMMA WakeUpKeepsSurface ==
  ASSUME SurfaceInv, TimerInv', compositor' = compositor, server' = server,
         Stubborn = {0}, WakeUp(wl)
  PROVE  SurfaceInv'
<1>1. CASE Quietly(wl)  BY <1>1, QuietKeepsSurface DEF SurfaceInv
<1>2. CASE Run(wl, "wakeup")  BY <1>2, RunKeepsSurface
<1> QED  BY <1>1, <1>2 DEF WakeUp

LEMMA ClosingSane ==
  ASSUME NEW w, Sane(w), NEW c \in BOOLEAN
  PROVE  /\ Sane([w EXCEPT !.closing = c])
         /\ [w EXCEPT !.closing = c].cur_dim = w.cur_dim
BY DEF Sane, Shaped

LEMMA ReleaseSane ==
  ASSUME NEW w, Sane(w), NEW b
  PROVE  /\ Sane([w EXCEPT !.busy = @ \ {b}])
         /\ [w EXCEPT !.busy = @ \ {b}].cur_dim = w.cur_dim
BY DEF Sane, Shaped

LEMMA OutputForgotten ==
  ASSUME NEW w, Sane(w), NEW o
  PROVE  /\ Sane([w EXCEPT !.layer_surface_output = o])
         /\ [w EXCEPT !.layer_surface_output = o].cur_dim = w.cur_dim
BY DEF Sane, Shaped

LEMMA OutputsFound ==
  ASSUME NEW S, IsFiniteSet(S), S # {}, NEW outs \in SetToSeqs(S)
  PROVE  outs # <<>>
<1>1. Cardinality(S) \in Nat /\ Cardinality(S) # 0
  BY FS_CardinalityType, FS_EmptySet
<1>2. outs \in [1..Cardinality(S) -> S]  BY DEF SetToSeqs
<1>3. 1 \in DOMAIN outs  BY <1>1, <1>2
<1> QED  BY <1>3

(* pause_signal, and unpause_signal after the output is set up again *)
LEMMA ReloadKeepsSurface ==
  ASSUME SurfaceInv, TimerInv', Stubborn = {0}, IsFiniteSet(Outputs),
         Reload \/ Reinit \/ Unpause
  PROVE  SurfaceInv'
<1>1. Sane(wl) /\ stack \in Seq(Calls) /\ Stacked(stack)
      /\ server \in [plugged : SUBSET Outputs, scaling : SUBSET Outputs]
  BY DEF SurfaceInv, TimerInv
<1>2. 0 \in Size  BY SizeIsNat
<1>3. CASE Reload
  <2>1. /\ server.plugged # {} /\ compositor' = compositor /\ server' = server
        /\ RunOn(wl, "wakeup", Stubborn, <<"reload">>)
    BY <1>3 DEF Reload, desktop
  <2>2. Sane(wl') /\ wl'.cur_dim = 0
    BY <1>1, <1>2, <2>1, RunOnSane
  <2>3. Sane(wl)'  BY <2>1, <2>2 DEF Sane, Shaped
  <2> QED  BY <1>1, <2>1, <2>2, <2>3 DEF SurfaceInv, Hidden
<1>4. CASE Reinit
  <2>1. /\ stack # <<>> /\ Head(stack) = "reload" /\ stack' = <<"unpause">>
        /\ outputs' \in SetToSeqs(server.plugged) /\ compositor' = compositor
        /\ server' = [server EXCEPT !.scaling = {}]
        /\ wl' = WlInit(Deinit(wl), outputs')
    BY <1>4 DEF Reinit
  <2>2. ToSet(stack) = {"reload"}  BY <1>1, <2>1, StackBottom
  <2>3. wl.cur_dim = 0 /\ server.plugged # {}  BY <2>2 DEF SurfaceInv, Hidden
  <2>4. IsFiniteSet(server.plugged)  BY <1>1, FS_Subset
  <2>5. outputs' # <<>>  BY <2>1, <2>3, <2>4, OutputsFound
  <2>6. Sane(wl')  BY <1>1, <2>1, <2>3, <2>5, InitSane
  <2>7. Sane(wl)'  BY <2>1, <2>6 DEF Sane, Shaped
  <2>8. server' \in [plugged : SUBSET Outputs, scaling : SUBSET Outputs]
    BY <1>1, <2>1
  <2>9. Hidden'
    <3>1. ToSet(<<"unpause">>) = {"unpause"}  BY DEF ToSet
    <3>2. ToSet(stack)' = ToSet(<<"unpause">>)  BY <2>1 DEF ToSet
    <3> QED  BY <3>1, <3>2 DEF Hidden
  <2> QED  BY <2>7, <2>8, <2>9 DEF SurfaceInv
<1>5. CASE Unpause
  <2>1. /\ compositor' = compositor /\ server' = server
        /\ RunOn(wl, "wakeup", Size, <<>>)
    BY <1>5 DEF Unpause, desktop
  <2>2. /\ Sane(wl')
        /\ stack' \in {<<"hide">> \o <<>>, <<"show">> \o <<>>, <<>>}
    BY <1>1, <2>1, RunOnSane
  <2>3. "reload" \in ToSet(stack') => "reload" \in ToSet(<<>>)
    <3>1. <<>> \in Seq(Calls)  OBVIOUS
    <3> QED  BY <3>1, <2>2, SameBottom
  <2>4. ToSet(<<>>) = {}  BY NoElements
  <2>5. Hidden'  BY <2>3, <2>4 DEF Hidden, ToSet
  <2>6. Sane(wl)'  BY <2>1, <2>2 DEF Sane, Shaped
  <2> QED  BY <1>1, <2>1, <2>5, <2>6 DEF SurfaceInv
<1> QED  BY <1>3, <1>4, <1>5

LEMMA SurfaceEventKeeps ==
  ASSUME SurfaceInv, TimerInv', CloseWaits, SurfaceEvent
  PROVE  SurfaceInv'
<1>0. Sane(wl) /\ Shaped(wl)  BY DEF SurfaceInv, Sane
<1>1. compositor' = compositor /\ server' = server
  BY DEF SurfaceEvent, Release, Configure, Closed, FrameDone, desktop
<1>2. CASE \E b \in 1..2 : Release(b)
  <2>1. PICK b \in 1..2 : Quietly([wl EXCEPT !.busy = @ \ {b}])
    BY <1>2 DEF Release
  <2> DEFINE w == [wl EXCEPT !.busy = @ \ {b}]
  <2>2. Sane(w) /\ w.cur_dim = wl.cur_dim  BY <1>0, ReleaseSane
  <2>3. Quietly(w)  BY <2>1
  <2> HIDE DEF w
  <2> QED  BY <1>1, <2>2, <2>3, QuietKeepsSurface
<1>3. CASE Configure
  <2> DEFINE size == IF wl.asked # 0 THEN wl.asked ELSE wl.size
             w == HandleConfigure([wl EXCEPT !.asked = 0], size)
  <2>1. wl.surface /\ wl.busy = {} /\ Quietly(w)
    BY <1>3 DEF Configure, Released
  <2>2. size \in Size  BY <1>0 DEF Shaped
  <2> HIDE DEF size
  <2>3. Sane(w) /\ w.cur_dim = wl.cur_dim  BY <1>0, <2>1, <2>2, ConfigureSane
  <2> HIDE DEF w
  <2> QED  BY <1>1, <2>1, <2>3, QuietKeepsSurface
<1>4. CASE Closed
  <2>1. wl.surface /\ wl.asked = 0 /\ Quietly(HandleClosed(wl))
    BY <1>4 DEF Closed
  <2>2. Sane(HandleClosed(wl)) /\ HandleClosed(wl).cur_dim = wl.cur_dim
    BY <1>0, <2>1, ClosedSane
  <2> QED  BY <1>1, <2>1, <2>2, QuietKeepsSurface
<1>5. CASE FrameDone
  <2>1. wl.busy = {} /\ Quietly(HandleFrameDone(wl))
    BY <1>5 DEF FrameDone, Released
  <2>2. Sane(HandleFrameDone(wl)) /\ HandleFrameDone(wl).cur_dim = wl.cur_dim
    BY <1>0, <2>1, FrameDoneSane
  <2> QED  BY <1>1, <2>1, <2>2, QuietKeepsSurface
<1> QED  BY <1>2, <1>3, <1>4, <1>5 DEF SurfaceEvent

LEMMA OutputsKeepSurface ==
  ASSUME SurfaceInv, TimerInv', Stubborn = {0}, NEW o \in Outputs,
         \/ OutputScale(o) \/ OutputRemoved(o)
         \/ OutputAppears(o) \/ OutputUnplugged(o)
  PROVE  SurfaceInv'
<1>0. Sane(wl) /\ Shaped(wl)
      /\ server \in [plugged : SUBSET Outputs, scaling : SUBSET Outputs]
  BY DEF SurfaceInv, Sane
<1>1. compositor' = compositor
  BY DEF OutputScale, OutputRemoved, OutputAppears, OutputUnplugged, desktop
<1>2. CASE OutputScale(o)
  <2>1. server' = [server EXCEPT !.scaling = @ \ {o}] /\ WakeUp(wl)
    BY <1>2 DEF OutputScale
  <2>2. server' \in [plugged : SUBSET Outputs, scaling : SUBSET Outputs]
        /\ server'.plugged = server.plugged
    BY <1>0, <2>1
  <2>3. CASE Quietly(wl)
    <3>1. wl' = wl /\ stack' = stack  BY <2>3 DEF Quietly
    <3> QED  BY <3>1, <2>2, <1>0, <1>1, SurfaceStays
  <2>4. CASE Run(wl, "wakeup")
    <3> DEFINE cs == IF "reload" \in ToSet(stack) THEN Stubborn ELSE Size
    <3>1. 0 \in Size /\ stack \in Seq(Calls)
      BY SizeIsNat DEF SurfaceInv, TimerInv
    <3>2. RunOn(wl, "wakeup", cs, stack) /\ cs \subseteq Size
      BY <2>4, <3>1 DEF Run
    <3>3. "reload" \in ToSet(stack) => cs = {0}  OBVIOUS
    <3> HIDE DEF cs
    <3>4. /\ Sane(wl')
          /\ cs = {0} => wl'.cur_dim = 0
          /\ stack' \in {<<"hide">> \o stack, <<"show">> \o stack, stack}
      BY <1>0, <3>2, RunOnSane
    <3>5. "reload" \in ToSet(stack') => "reload" \in ToSet(stack)
      BY <3>1, <3>4, SameBottom
    <3>6. Sane(wl)'  BY <1>1, <3>4 DEF Sane, Shaped
    <3>7. Hidden'  BY <2>2, <3>3, <3>4, <3>5 DEF SurfaceInv, Hidden, ToSet
    <3> QED  BY <2>2, <3>6, <3>7 DEF SurfaceInv
  <2> QED  BY <2>1, <2>3, <2>4 DEF WakeUp
<1>3. CASE OutputRemoved(o)
  <2> DEFINE other == IF wl.layer_surface_output = o THEN NoOutput
                      ELSE wl.layer_surface_output
             w == [wl EXCEPT !.layer_surface_output = other]
  <2>1. Quietly(w) /\ server' = server  BY <1>3 DEF OutputRemoved
  <2> HIDE DEF other
  <2>2. Sane(w) /\ w.cur_dim = wl.cur_dim  BY <1>0, OutputForgotten
  <2> HIDE DEF w
  <2> QED  BY <1>1, <2>1, <2>2, QuietKeepsSurface
<1>4. CASE OutputAppears(o)
  <2>1. /\ server' = [plugged |-> server.plugged \cup {o},
                      scaling |-> server.scaling \cup {o}]
        /\ Quietly(IF outputs = <<>> THEN SetDirty(wl, outputs') ELSE wl)
    BY <1>4 DEF OutputAppears
  <2>2. server' \in [plugged : SUBSET Outputs, scaling : SUBSET Outputs]
        /\ server'.plugged # {}
    BY <1>0, <2>1
  <2>3. Sane(SetDirty(wl, outputs')) /\ SetDirty(wl, outputs').cur_dim = wl.cur_dim
    BY <1>0, SetDirtySane
  <2>4. Sane(wl') /\ wl'.cur_dim = wl.cur_dim /\ stack' = stack
    BY <1>0, <2>1, <2>3 DEF Quietly
  <2> QED  BY <1>1, <2>2, <2>4, SurfaceStays
<1>5. CASE OutputUnplugged(o)
  <2>1. /\ stack # <<>> /\ Last(stack) = "reload" => server.plugged # {o}
        /\ o \in server.plugged
        /\ server' = [plugged |-> server.plugged \ {o},
                      scaling |-> server.scaling \ {o}]
    BY <1>5 DEF OutputUnplugged
  <2>2. PICK there \in BOOLEAN :
          Quietly([wl EXCEPT !.closing =
            \/ @
            \/ /\ wl.surface
               /\ \/ wl.layer_surface_output = o
                  \/ server'.plugged = {}
                  \/ wl.layer_surface_output = NoOutput /\ there])
    BY <1>5 DEF OutputUnplugged
  <2> DEFINE c == \/ wl.closing
                  \/ /\ wl.surface
                     /\ \/ wl.layer_surface_output = o
                        \/ server'.plugged = {}
                        \/ wl.layer_surface_output = NoOutput /\ there
             w == [wl EXCEPT !.closing = c]
  <2>3. Quietly(w) /\ c \in BOOLEAN  BY <2>2
  <2> HIDE DEF c
  <2>4. Sane(w) /\ w.cur_dim = wl.cur_dim  BY <1>0, <2>3, ClosingSane
  <2> HIDE DEF w
  <2>5. wl' = w /\ stack' = stack  BY <2>3 DEF Quietly
  <2>6. server' \in [plugged : SUBSET Outputs, scaling : SUBSET Outputs]
    BY <1>0, <2>1
  <2>7. "reload" \in ToSet(stack) => server'.plugged # {}
    <3>1. ASSUME "reload" \in ToSet(stack) PROVE server'.plugged # {}
      <4>1. stack \in Seq(Calls) /\ Stacked(stack)  BY DEF SurfaceInv, TimerInv
      <4>2. stack # <<>>  BY <3>1, NoElements
      <4>3. Last(stack) = "reload"  BY <3>1, <4>1, <4>2, StackBottom
      <4>4. server.plugged # {o}  BY <2>1, <4>2, <4>3
      <4> QED  BY <2>1, <4>4
    <3> QED  BY <3>1
  <2> QED  BY <1>1, <2>4, <2>5, <2>6, <2>7, SurfaceStays
<1> QED  BY <1>2, <1>3, <1>4, <1>5

LEMMA SurfaceStep ==
  ASSUME Stubborn = {0}, CloseWaits, IsFiniteSet(Outputs)
  PROVE  SurfaceInv /\ [WaylandNext]_wlVars => SurfaceInv'
<1> SUFFICES ASSUME SurfaceInv, [WaylandNext]_wlVars PROVE SurfaceInv'  OBVIOUS
<1>0. Sane(wl) /\ Shaped(wl) /\ TimerInv' /\ stack \in Seq(Calls) /\ Stacked(stack)
  BY TimerStep DEF SurfaceInv, TimerInv, Sane
<1>1. CASE QueuesChange
  BY <1>0, <1>1, WakeUpKeepsSurface DEF QueuesChange, desktop
<1>2. CASE TimerFires
  BY <1>0, <1>2, RunKeepsSurface DEF TimerFires, desktop
<1>3. CASE Reload \/ Reinit \/ Unpause  BY <1>0, <1>3, ReloadKeepsSurface
<1>4. CASE ReturnToRun
  <2>1. /\ compositor' = compositor /\ server' = server /\ wl' = wl
        /\ stack # <<>> /\ stack' = Tail(stack)
    BY <1>4 DEF ReturnToRun, desktop
  <2>2. ToSet(Tail(stack)) \subseteq ToSet(stack)  BY <1>0, <2>1, Popped
  <2>3. Sane(wl)'  BY <1>0, <2>1 DEF Sane, Shaped
  <2>4. ToSet(stack)' = ToSet(Tail(stack))  BY <2>1 DEF ToSet
  <2>5. Hidden'  BY <2>1, <2>2, <2>4 DEF SurfaceInv, Hidden
  <2> QED  BY <1>0, <2>1, <2>3, <2>5 DEF SurfaceInv
<1>5. CASE SurfaceEvent  BY <1>0, <1>5, SurfaceEventKeeps
<1>6. CASE OutputEvent
  <2>1. PICK o \in Outputs : OutputScale(o) \/ OutputRemoved(o)
    BY <1>6 DEF OutputEvent
  <2> QED  BY <1>0, <2>1, OutputsKeepSurface
<1>7. CASE DesktopChange
  <2>1. CASE CompositorCloses
    <3>1. /\ compositor' = compositor /\ server' = server
          /\ Quietly([wl EXCEPT !.closing = TRUE])
      BY <2>1 DEF CompositorCloses, desktop
    <3> DEFINE w == [wl EXCEPT !.closing = TRUE]
    <3>2. Sane(w) /\ w.cur_dim = wl.cur_dim  BY <1>0, ClosingSane
    <3>3. Quietly(w)  BY <3>1
    <3> HIDE DEF w
    <3> QED  BY <1>0, <3>1, <3>2, <3>3, QuietKeepsSurface
  <2>2. CASE \E o \in Outputs : OutputAppears(o) \/ OutputUnplugged(o)
    BY <1>0, <2>2, OutputsKeepSurface
  <2>3. CASE \E w \in Windows :
               \/ TopAppears(w) \/ TopClosed(w)
               \/ \E o \in Outputs : TopEnters(w, o) \/ TopLeaves(w, o)
               \/ \E s \in TopState : TopSaysState(w, s)
    <3>1. compositor' = compositor /\ server' = server /\ Quietly(wl)
      BY <2>3 DEF TopAppears, TopClosed, TopEnters, TopLeaves, TopSaysState,
                  TopChanges
    <3> QED  BY <1>0, <3>1, QuietKeepsSurface
  <2>4. CASE \E w \in Windows : TopDone(w)
    <3>1. compositor' = compositor /\ server' = server
          /\ (WakeUp(wl) \/ Quietly(wl))
      BY <2>4 DEF TopDone, TopChanges
    <3> QED  BY <1>0, <3>1, QuietKeepsSurface, WakeUpKeepsSurface
  <2>5. CASE \E s \in Seats :
               SeatAppears(s) \/ SeatRemoved(s) \/ SeatIdles(s) \/ SeatResumes(s)
    <3>1. compositor' = compositor /\ server' = server /\ Quietly(wl)
      BY <2>5 DEF SeatAppears, SeatRemoved, SeatIdles, SeatResumes, SeatsChange
    <3> QED  BY <1>0, <3>1, QuietKeepsSurface
  <2> QED  BY <1>7, <2>1, <2>2, <2>3, <2>4, <2>5 DEF DesktopChange
<1>8. CASE PointerEvent
  BY <1>0, <1>8, WakeUpKeepsSurface DEF PointerEvent, desktop
<1>9. CASE UNCHANGED wlVars
  <2>1. /\ compositor' = compositor /\ server' = server /\ wl' = wl
        /\ stack' = stack
    BY <1>9 DEF wlVars, desktop
  <2> QED  BY <1>0, <2>1, SurfaceStays DEF SurfaceInv
<1> QED
  BY <1>1, <1>2, <1>3, <1>4, <1>5, <1>6, <1>7, <1>8, <1>9
     DEF WaylandNext, MainLoop

(* NeverDies: send_frame uses the buffer and the size it finds in the      *)
(* context, and draw() may leave none; still no frame is sent without a    *)
(* buffer and no surface committed without a size, through closed and      *)
(* moved surfaces, busy buffers, nested runs and reloads.  It rests on     *)
(* what README.md says of compositors (CloseWaits) and of reload: that its *)
(* pause leaves nothing on the screen.                                     *)
THEOREM SurfaceNeverDies ==
  ASSUME Stubborn = {0}, CloseWaits, IsFiniteSet(Outputs)
  PROVE  WaylandSpec => []NeverDies
<1>1. WaylandInit => SurfaceInv
  <2> SUFFICES ASSUME WaylandInit PROVE SurfaceInv  OBVIOUS
  <2>1. <<>> \in Seq(Calls) /\ Stacked(<<>>)  BY DEF Stacked
  <2>2. TimerInv  BY <2>1 DEF WaylandInit, TimerInv
  <2>3. 0 \in Size  BY SizeIsNat
  <2>4. Shaped(NoCtx)  BY <2>3 DEF NoCtx, Shaped
  <2>5. 1 \in 1..2 /\ NoCtx.busy \subseteq {1}  BY DEF NoCtx
  <2>6. Sane(NoCtx)  BY <2>4, <2>5 DEF Sane, NoCtx
  <2>7. ToSet(stack) = {}  BY NoElements DEF WaylandInit
  <2>8. compositor.monitors \in SUBSET Outputs
    BY WaylandAssumption DEF WaylandInit, Compositor
  <2>9. server \in [plugged : SUBSET Outputs, scaling : SUBSET Outputs]
    BY <2>8 DEF WaylandInit
  <2> QED  BY <2>2, <2>6, <2>7, <2>9 DEF WaylandInit, SurfaceInv, Hidden
<1>2. SurfaceInv => NeverDies  BY DEF SurfaceInv, Sane, NeverDies
<1>3. SurfaceInv /\ [WaylandNext]_wlVars => SurfaceInv'  BY SurfaceStep
<1> QED  BY <1>1, <1>2, <1>3, PTL DEF WaylandSpec
=============================================================================
