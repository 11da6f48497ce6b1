--------------------------- MODULE ServiceProofs ---------------------------
(***************************************************************************)
(* The service for every command line, configuration and client: what      *)
(* clients were told last of the pause level is what is in force, the      *)
(* configuration is what is written in the files, a reload applies it as   *)
(* if everything had just arrived, and the timeout clients ask for counts. *)
(***************************************************************************)
EXTENDS Service, SequenceLemmas

(* Clients are told a level only over the bus, and as long as dunst runs   *)
(* with its name every change is told.                                     *)
LevelInv ==
  /\ phase = "off" => announced = Unset
  /\ announced # Unset =>
       /\ phase = "running" => bus = "owner"
       /\ pause_level = announced
       /\ pause_level \in 0..MaxPauseLevel

(* What is asked for is in the range or refused. *)
LEMMA LevelInRange ==
  ASSUME NEW word \in PauseWords, TargetPauseLevel(word) >= 0
  PROVE  TargetPauseLevel(word) \in 0..MaxPauseLevel
<1> DEFINE level == AsSigned(word)
<1>1. word \in Nat  BY ServiceAssumption
<1>2. 2 ^ Width \in Int  BY DEF Width
<1>3. level \in Int  BY <1>1, <1>2 DEF AsSigned
<1> HIDE DEF level
<1>4. TargetPauseLevel(word) = IF level > 100 THEN 100 ELSE level
  BY DEF TargetPauseLevel, MaxPauseLevel, level
<1> QED  BY <1>3, <1>4 DEF MaxPauseLevel

(* ToldLevelIsInForce: the level is changed by signals, by a property and  *)
(* by a reload, which pauses and unpauses on its own; told are only the    *)
(* clients of a dunst that has its name.  Still what they were told last   *)
(* is in force, also when dunst has ended since, and it is from 0 to 100   *)
(* whatever number was set.                                                *)
THEOREM ToldLevelStays == ServiceSpec => []ToldLevelIsInForce
<1>1. ServiceInit => LevelInv  BY DEF ServiceInit, LevelInv
<1>2. LevelInv => ToldLevelIsInForce  BY DEF LevelInv, ToldLevelIsInForce
<1>3. LevelInv /\ [ServiceNext]_serviceVars => LevelInv'
  <2> SUFFICES ASSUME LevelInv, [ServiceNext]_serviceVars PROVE LevelInv'
    OBVIOUS
  <2>1. ASSUME NEW level \in 0..MaxPauseLevel, SetPauseLevel(level),
               phase = "running", phase' \in {"running", "dead"}, bus' = bus
        PROVE  LevelInv'
    BY <2>1 DEF LevelInv, SetPauseLevel
  <2>2. ASSUME pause_level' = pause_level, announced' = announced,
               phase' # "off" \/ phase = "off",
               phase' = "running" => phase = "running" /\ (bus = "owner" => bus' = "owner")
        PROVE  LevelInv'
    BY <2>2 DEF LevelInv
  <2>3. CASE Start
    <3>1. /\ announced = Unset /\ announced' = announced /\ phase' # "off"
      BY <2>3 DEF Start, LevelInv
    <3> QED  BY <3>1 DEF LevelInv
  <2>4. CASE BusAcquired  BY <2>2, <2>4 DEF BusAcquired
  <2>5. CASE NameAcquired  BY <2>2, <2>5 DEF NameAcquired
  <2>6. CASE NameLost  BY <2>2, <2>6 DEF NameLost
  <2>7. CASE Quit  BY <2>2, <2>7 DEF Quit
  <2>8. CASE PauseSignal
    <3>1. PICK level \in {0, MaxPauseLevel} : SetPauseLevel(level)
      BY <2>8 DEF PauseSignal
    <3>2. level \in 0..MaxPauseLevel  BY DEF MaxPauseLevel
    <3>3. phase = "running" /\ phase' = "running" /\ bus' = bus
      BY <2>8 DEF PauseSignal
    <3> QED  BY <2>1, <3>1, <3>2, <3>3
  <2>9. CASE PropertiesSet
    <3>1. PICK word \in PauseWords : /\ TargetPauseLevel(word) >= 0
                                     /\ SetPauseLevel(TargetPauseLevel(word))
      BY <2>9 DEF PropertiesSet
    <3>2. TargetPauseLevel(word) \in 0..MaxPauseLevel  BY <3>1, LevelInRange
    <3>3. phase = "running" /\ phase' = "running" /\ bus' = bus
      BY <2>9 DEF PropertiesSet
    <3> QED  BY <2>1, <3>1, <3>2, <3>3
  <2>10. CASE \E paths \in Paths : ConfigReload(paths)
    <3>1. PICK paths \in Paths : ConfigReload(paths)  BY <2>10
    <3>2. /\ phase = "running" /\ bus = "owner" /\ bus' = bus
          /\ \/ /\ phase' = "dead"
                /\ pause_level' = MaxPauseLevel /\ announced' = MaxPauseLevel
             \/ SetPauseLevel(0) /\ phase' = phase
      BY <3>1 DEF ConfigReload
    <3>3. CASE SetPauseLevel(0) /\ phase' = phase
      <4>1. 0 \in 0..MaxPauseLevel  BY DEF MaxPauseLevel
      <4> QED  BY <2>1, <3>2, <3>3, <4>1
    <3>4. CASE /\ phase' = "dead"
               /\ pause_level' = MaxPauseLevel /\ announced' = MaxPauseLevel
      <4>1. MaxPauseLevel \in 0..MaxPauseLevel  BY DEF MaxPauseLevel
      <4> QED  BY <3>4, <4>1 DEF LevelInv
    <3> QED  BY <3>2, <3>3, <3>4
  <2>11. CASE \/ \E msg \in Messages : Notify(msg)
              \/ \E name \in Switched, state \in 0..2 : RuleEnable(name, state)
              \/ EditConfig \/ Forget
    BY <2>2, <2>11 DEF Notify, RuleEnable, EditConfig, Forget
  <2>12. CASE UNCHANGED serviceVars  BY <2>2, <2>12 DEF serviceVars
  <2> QED
    BY <2>3, <2>4, <2>5, <2>6, <2>7, <2>8, <2>9, <2>10, <2>11, <2>12
    DEF ServiceNext
<1> QED  BY <1>1, <1>2, <1>3, PTL DEF ServiceSpec

---------------------------------------------------------------------------
(* The folds.                                                              *)

(* The five folds over rules, lines, entries, sections and files, by name, *)
(* as no lemma can take an operator as its parameter.                      *)
OneStep(fold, arg, m, e) ==
  CASE fold = "rules"    -> IF RuleMatches(e, m) THEN RuleApply(e, m, TRUE) ELSE m
    [] fold = "lines"    -> ReadLine(m, e)
    [] fold = "entries"  -> SaveEntry(m, arg, e)
    [] fold = "sections" -> SaveSection(m, e)
    [] fold = "files"    -> ProcessConfFile(m, e)

(* What FoldLeft is by its definition *)
Unfolded(fold, arg, start, es) ==
  LET iter[s \in SUBSET (DOMAIN es)] ==
        IF s = {} THEN start ELSE OneStep(fold, arg, iter[s \ {Max(s)}], es[Max(s)])
  IN  iter[DOMAIN es]

(* u[k] is what the first k elements made of the start. *)
Runs(u, n, fold, arg, start, es) ==
  /\ u[0] = start
  /\ \A k \in 1..n : u[k] = OneStep(fold, arg, u[k - 1], es[k])

(* A fold over a sequence is the end of a run through its elements. *)
LEMMA FoldRuns ==
  ASSUME NEW fold, NEW arg, NEW start, NEW es, NEW n \in Nat, DOMAIN es = 1..n
  PROVE  \E u : Runs(u, n, fold, arg, start, es) /\ u[n] = Unfolded(fold, arg, start, es)
<1> DEFINE next(m, k) == OneStep(fold, arg, m, es[k])
           Is(g, k) == g = [s \in SUBSET (1..k) |->
                              IF s = {} THEN start ELSE next(g[s \ {Max(s)}], Max(s))]
           P == {k \in 1..(n + 1) : \E g : Is(g, k - 1)}
<1>0. n + 1 \in Nat /\ n + 1 > 0 /\ (n + 1) - 1 = n  OBVIOUS
<1>1. 1 \in P
  <2> DEFINE g == [s \in SUBSET (1..0) |-> start]
  <2>1. 1..0 = {}  OBVIOUS
  <2>2. \A s \in SUBSET (1..0) : s = {}  BY <2>1
  <2>3. g = [s \in SUBSET (1..0) |-> IF s = {} THEN start ELSE next(g[s \ {Max(s)}], Max(s))]
    BY <2>2
  <2>4. 1 \in 1..(n + 1) /\ 1 - 1 = 0  OBVIOUS
  <2> QED  BY <2>3, <2>4
<1>2. ASSUME NEW k \in 1..((n + 1) - 1), k \in P  PROVE k + 1 \in P
  <2>0. k \in 1..n /\ k - 1 \in Nat /\ (k + 1) - 1 = k /\ k + 1 \in 1..(n + 1)  OBVIOUS
  <2>1. PICK g : Is(g, k - 1)  BY <1>2
  <2> HIDE DEF next
  <2> DEFINE h == [s \in SUBSET (1..k) |-> IF k \in s THEN next(g[s \ {k}], k) ELSE g[s]]
  <2>2. ASSUME NEW s \in SUBSET (1..k)
        PROVE  h[s] = IF s = {} THEN start ELSE next(h[s \ {Max(s)}], Max(s))
    <3>1. CASE k \in s
      <4>0. k \in Nat /\ s # {}  BY <3>1
      <4>1. Max(s) \in s /\ \A i \in s : i <= Max(s)  BY <4>0, MaxExists
      <4>2. Max(s) = k
        <5>1. Max(s) \in 1..k /\ k <= Max(s)  BY <3>1, <4>1
        <5> QED  BY <5>1
      <4>3. s \ {k} \in SUBSET (1..k) /\ k \notin s \ {k}  OBVIOUS
      <4>4. h[s \ {k}] = g[s \ {k}]  BY <4>3
      <4>5. h[s] = next(g[s \ {k}], k)  BY <3>1
      <4> QED  BY <3>1, <4>2, <4>4, <4>5
    <3>2. CASE k \notin s
      <4>1. s \in SUBSET (1..(k - 1))
        <5> SUFFICES ASSUME NEW i \in s PROVE i \in 1..(k - 1)  OBVIOUS
        <5>1. i \in 1..k /\ i # k  BY <3>2
        <5> QED  BY <2>0, <5>1
      <4>2. h[s] = g[s]  BY <3>2
      <4>3. g[s] = IF s = {} THEN start ELSE next(g[s \ {Max(s)}], Max(s))
        BY <2>1, <4>1
      <4>4. s \ {Max(s)} \in SUBSET (1..k) /\ k \notin s \ {Max(s)}  BY <3>2
      <4>5. h[s \ {Max(s)}] = g[s \ {Max(s)}]  BY <4>4
      <4> QED  BY <4>2, <4>3, <4>5
    <3> QED  BY <3>1, <3>2
  <2>3. Is(h, k)  BY <2>2
  <2> QED  BY <2>0, <2>3
<1> HIDE DEF P
<1>3. \A i \in 1..(n + 1) : i \in P  BY <1>0, <1>1, <1>2, EveryPlace
<1>4. \E g : Is(g, n)
  <2>1. n + 1 \in P  BY <1>0, <1>3
  <2> QED  BY <1>0, <2>1 DEF P
<1> DEFINE iter == CHOOSE g : Is(g, n)
<1>5. Is(iter, n)  BY <1>4
<1>6. Unfolded(fold, arg, start, es) = iter[1..n]  BY DEF Unfolded
<1> HIDE DEF iter, next
<1>7. ASSUME NEW s \in SUBSET (1..n)
      PROVE iter[s] = IF s = {} THEN start ELSE next(iter[s \ {Max(s)}], Max(s))
  BY <1>5
<1> DEFINE u == [k \in 0..n |-> iter[1..k]]
<1>8. u[0] = start
  <2>1. 1..0 = {} /\ {} \in SUBSET (1..n)  OBVIOUS
  <2> QED  BY <1>7, <2>1
<1>9. ASSUME NEW k \in 1..n PROVE u[k] = next(u[k - 1], k)
  <2>1. 1..k \in SUBSET (1..n) /\ k \in 1..k /\ k \in Nat  OBVIOUS
  <2>2. Max(1..k) \in 1..k /\ \A i \in 1..k : i <= Max(1..k)  BY <2>1, MaxExists
  <2>3. Max(1..k) = k  BY <2>1, <2>2
  <2>4. (1..k) \ {k} = 1..(k - 1)  BY <2>1
  <2>5. iter[1..k] = next(iter[1..(k - 1)], k)  BY <1>7, <2>1, <2>3, <2>4
  <2>6. k \in 0..n /\ k - 1 \in 0..n  OBVIOUS
  <2> QED  BY <2>5, <2>6
<1>10. u[n] = iter[1..n]  OBVIOUS
<1> HIDE DEF u
<1>11. \A k \in 1..n : u[k] = OneStep(fold, arg, u[k - 1], es[k])  BY <1>9 DEF next
<1>12. Runs(u, n, fold, arg, start, es)  BY <1>8, <1>11 DEF Runs
<1> QED  BY <1>6, <1>10, <1>12

(* All that the configuration and the rules do one after the other is      *)
(* such a fold: then every lemma about one step can be used along a run.   *)
LEMMA FoldsUnfold ==
  /\ \A rules, n : RuleApplyAll(rules, n) = Unfolded("rules", Unset, n, rules)
  /\ \A ls : LoadIni(ls) = Unfolded("lines", Unset, [section |-> NoSection, ini |-> <<>>], ls).ini
  /\ \A l, s : SaveSection(l, s) = IF s.name \in DeprecatedSections THEN l
                                  ELSE Unfolded("entries", s.name, l, s.entries)
  /\ \A l, ini : SaveSettings(l, ini) = Unfolded("sections", Unset, l, ini)
  /\ \A files : LoadSettings(files) = Unfolded("files", Unset, SetDefaults, files)
<1>1. ASSUME NEW rules, NEW n PROVE RuleApplyAll(rules, n) = Unfolded("rules", Unset, n, rules)
  BY DEF RuleApplyAll, FoldLeft, MapThenFoldSet, OneStep, Unfolded
<1>2. ASSUME NEW ls
      PROVE  LoadIni(ls) = Unfolded("lines", Unset, [section |-> NoSection, ini |-> <<>>], ls).ini
  BY DEF LoadIni, FoldLeft, MapThenFoldSet, OneStep, Unfolded
<1>3. ASSUME NEW l, NEW s
      PROVE  SaveSection(l, s) = IF s.name \in DeprecatedSections THEN l
                                  ELSE Unfolded("entries", s.name, l, s.entries)
  BY DEF SaveSection, FoldLeft, MapThenFoldSet, OneStep, Unfolded
<1>4. ASSUME NEW l, NEW ini PROVE SaveSettings(l, ini) = Unfolded("sections", Unset, l, ini)
  BY DEF SaveSettings, FoldLeft, MapThenFoldSet, OneStep, Unfolded
<1>5. ASSUME NEW files PROVE LoadSettings(files) = Unfolded("files", Unset, SetDefaults, files)
  BY DEF LoadSettings, FoldLeft, MapThenFoldSet, OneStep, Unfolded
<1> QED  BY <1>1, <1>2, <1>3, <1>4, <1>5

---------------------------------------------------------------------------
(* Rules and notifications.                                                *)

(* A notification as notification_create makes it. *)
IsNote(n) ==
  /\ n = [ field |-> n.field, appname |-> n.appname, scripts |-> n.scripts, raw |-> n.raw,
           progress |-> n.progress, original |-> n.original ]
  /\ n.field = [f \in Field |-> n.field[f]]

(* A rule as rule_new makes it *)
IsRule(r) ==
  /\ r = [ name |-> r.name, enabled |-> r.enabled, match |-> r.match, set |-> r.set,
           script |-> r.script ]
  /\ r.set = [f \in Field |-> r.set[f]]

(* m is n with what the rule overwrites. *)
Changed(m, r, n) ==
  /\ IsNote(m)
  /\ \A f \in Field : m.field[f] = IF f \in Overwrites(r) THEN r.set[f] ELSE n.field[f]
  /\ m.appname = n.appname

(* What a rule does to a notification, and what it leaves. *)
LEMMA RuleApplied ==
  ASSUME NEW r, NEW n, IsNote(n), NEW save
  PROVE  /\ Changed(RuleApply(r, n, save), r, n)
         /\ save = TRUE => RuleApply(r, n, save).original = Remembered(KeepOriginal(n), r, n)
         /\ save = FALSE => RuleApply(r, n, save).original = n.original
<1> DEFINE field == [f \in Field |-> IF f \in Overwrites(r) THEN r.set[f] ELSE n.field[f]]
           scripts == IF r.script = Unset THEN n.scripts ELSE Append(n.scripts, r.script)
           raw == n.raw /\ r.set["iconname"] = Unset
           original == IF save THEN Remembered(KeepOriginal(n), r, n) ELSE n.original
           m == RuleApply(r, n, save)
<1>1. m = [n EXCEPT !.field = field, !.scripts = scripts, !.raw = raw, !.original = original]
  BY DEF RuleApply
<1> HIDE DEF field, scripts, raw, original, m
<1>2. m = [ field |-> field, appname |-> n.appname, scripts |-> scripts, raw |-> raw,
            progress |-> n.progress, original |-> original ]
  BY <1>1 DEF IsNote
<1>3. m.field = field /\ m.appname = n.appname /\ m.original = original
  BY <1>2
<1>4. field = [f \in Field |-> field[f]]  BY DEF field
<1>5. IsNote(m)
  <2>1. m.field = [f \in Field |-> m.field[f]]  BY <1>3, <1>4
  <2>2. m = [ field |-> m.field, appname |-> m.appname, scripts |-> m.scripts, raw |-> m.raw,
              progress |-> m.progress, original |-> m.original ]
    BY <1>2
  <2> QED  BY <2>1, <2>2 DEF IsNote
<1>6. \A f \in Field : m.field[f] = IF f \in Overwrites(r) THEN r.set[f] ELSE n.field[f]
  BY <1>3 DEF field
<1> QED  BY <1>3, <1>5, <1>6 DEF m, original, Changed

(* What is remembered is a rule, whose changes are what was there before. *)
LEMMA RuleRemembers ==
  ASSUME NEW r, NEW n, IsNote(n), n.original = NoOriginal \/ IsRule(n.original)
  PROVE  LET kept == KeepOriginal(n)
             o    == Remembered(kept, r, n)
         IN /\ IsRule(kept) /\ IsRule(o)
            /\ \A f \in Field :
                 o.set[f] = IF f \in Overwrites(r) /\ kept.set[f] = Unset
                            THEN n.field[f] ELSE kept.set[f]
            /\ n.original = NoOriginal => \A f \in Field : kept.set[f] = Unset
<1> DEFINE kept == KeepOriginal(n)
           o    == Remembered(kept, r, n)
<1>1. IsRule(NewRule("original"))  BY DEF IsRule, NewRule, Nothing
<1>2. \A f \in Field : NewRule("original").set[f] = Unset  BY DEF NewRule, Nothing
<1>3. IsRule(kept)  BY <1>1 DEF KeepOriginal
<1>4. n.original = NoOriginal => \A f \in Field : kept.set[f] = Unset
  BY <1>2 DEF KeepOriginal
<1> DEFINE set == [f \in Field |-> IF f \in Overwrites(r) /\ kept.set[f] = Unset
                                    THEN n.field[f] ELSE kept.set[f]]
           script == IF r.script = Unset \/ kept.script # Unset THEN kept.script
                     ELSE IF n.scripts # <<>> THEN Head(n.scripts) ELSE r.script
<1>5. o = [kept EXCEPT !.set = set, !.script = script]  BY DEF Remembered
<1> HIDE DEF set, script, kept, o
<1>6. o = [ name |-> kept.name, enabled |-> kept.enabled, match |-> kept.match, set |-> set,
            script |-> script ]
  BY <1>3, <1>5 DEF IsRule
<1>7. o.set = set  BY <1>6
<1>8. set = [f \in Field |-> set[f]]  BY DEF set
<1>9. IsRule(o)
  <2>1. o.set = [f \in Field |-> o.set[f]]  BY <1>7, <1>8
  <2>2. o = [ name |-> o.name, enabled |-> o.enabled, match |-> o.match, set |-> o.set,
              script |-> o.script ]
    BY <1>6
  <2> QED  BY <2>1, <2>2 DEF IsRule
<1>10. \A f \in Field : o.set[f] = IF f \in Overwrites(r) /\ kept.set[f] = Unset
                                   THEN n.field[f] ELSE kept.set[f]
  BY <1>7 DEF set
<1> QED  BY <1>3, <1>4, <1>9, <1>10 DEF o, kept

(* Every field of Restorable is as it was sent, or remembered as sent. *)
Kept(n, sent) ==
  /\ IsNote(n)
  /\ n.original = NoOriginal \/ IsRule(n.original)
  /\ n.appname = sent.appname
  /\ \A f \in Restorable :
       \/ n.field[f] = sent.field[f] /\ (n.original = NoOriginal \/ n.original.set[f] = Unset)
       \/ n.original # NoOriginal /\ n.original.set[f] = sent.field[f]

(* A notification before rules: nothing of Restorable is without a value. *)
IsSent(sent) ==
  /\ IsNote(sent) /\ sent.original = NoOriginal
  /\ \A f \in Restorable : sent.field[f] # Unset

(* rule_apply overwrites only what is remembered first, once, so that what *)
(* was sent is never lost.                                                 *)
LEMMA RuleKeeps ==
  ASSUME NEW r, NEW n, NEW sent, IsSent(sent), Kept(n, sent)
  PROVE  Kept(RuleApply(r, n, TRUE), sent)
<1> DEFINE m == RuleApply(r, n, TRUE)
           kept == KeepOriginal(n)
           o == Remembered(kept, r, n)
<1>1. IsNote(n) /\ (n.original = NoOriginal \/ IsRule(n.original))  BY DEF Kept
<1>2. /\ IsNote(m) /\ m.appname = n.appname /\ m.original = o
      /\ \A f \in Field : m.field[f] = IF f \in Overwrites(r) THEN r.set[f] ELSE n.field[f]
  <2>1. /\ Changed(RuleApply(r, n, TRUE), r, n)
        /\ RuleApply(r, n, TRUE).original = Remembered(KeepOriginal(n), r, n)
    BY <1>1, RuleApplied
  <2> QED  BY <2>1 DEF Changed
<1>3. /\ IsRule(kept) /\ IsRule(o)
      /\ \A f \in Field :
           o.set[f] = IF f \in Overwrites(r) /\ kept.set[f] = Unset
                      THEN n.field[f] ELSE kept.set[f]
      /\ n.original = NoOriginal => \A f \in Field : kept.set[f] = Unset
  BY <1>1, RuleRemembers
<1>4. n.original # NoOriginal => kept = n.original  BY DEF KeepOriginal
<1> HIDE DEF m, kept, o
<1>5. ASSUME NEW f \in Restorable
      PROVE  \/ m.field[f] = sent.field[f] /\ o.set[f] = Unset
             \/ o.set[f] = sent.field[f]
  <2>1. f \in Field  BY DEF Restorable, Field
  <2>2. sent.field[f] # Unset  BY DEF IsSent
  <2>3. \/ n.field[f] = sent.field[f] /\ kept.set[f] = Unset
        \/ kept.set[f] = sent.field[f]
    BY <1>3, <1>4, <2>1 DEF Kept
  <2> QED  BY <1>2, <1>3, <2>1, <2>2, <2>3
<1>6. o # NoOriginal
  <2>1. "set" \in DOMAIN o  BY <1>3 DEF IsRule
  <2>2. "set" \notin DOMAIN NoOriginal  BY DEF NoOriginal
  <2> QED  BY <2>1, <2>2
<1>7. m.appname = sent.appname  BY <1>2 DEF Kept
<1> QED  BY <1>2, <1>3, <1>5, <1>6, <1>7 DEF Kept, m

(* A sequence, of whatever elements *)
IsList(s) == DOMAIN s = 1..Len(s) /\ Len(s) \in Nat

(* Nor do all the rules in their order lose it. *)
LEMMA RulesKeep ==
  ASSUME NEW rules, IsList(rules), NEW n, NEW sent, IsSent(sent), Kept(n, sent)
  PROVE  Kept(RuleApplyAll(rules, n), sent)
<1> DEFINE N == Len(rules)
<1>1. PICK u : /\ Runs(u, N, "rules", Unset, n, rules)
               /\ u[N] = Unfolded("rules", Unset, n, rules)
  BY FoldRuns DEF IsList
<1> DEFINE P == {k \in 0..N : Kept(u[k], sent)}
<1>2. 0 \in P  BY <1>1 DEF Runs, IsList
<1>3. ASSUME NEW k \in 1..N, k - 1 \in P  PROVE k \in P
  <2>1. u[k] = OneStep("rules", Unset, u[k - 1], rules[k])  BY <1>1 DEF Runs
  <2>2. u[k] = u[k - 1] \/ u[k] = RuleApply(rules[k], u[k - 1], TRUE)
    BY <2>1 DEF OneStep
  <2>3. Kept(u[k - 1], sent)  BY <1>3
  <2>4. Kept(u[k], sent)  BY <2>2, <2>3, RuleKeeps
  <2> QED  BY <2>4
<1>4. N \in 0..N /\ N \in Nat  BY DEF IsList
<1> HIDE DEF P
<1>5. N \in P  BY <1>2, <1>3, <1>4, EveryStep
<1> QED  BY <1>1, <1>5, FoldsUnfold DEF P

(* Rules that look only at these cannot tell the two apart. *)
Alike(m, n) ==
  /\ IsNote(m) /\ IsNote(n)
  /\ m.appname = n.appname
  /\ \A f \in Restorable : m.field[f] = n.field[f]

(* The same rules make of two notifications that they cannot tell apart    *)
(* two that are alike again, though they differ elsewhere.                 *)
LEMMA RulesTreatAlike ==
  ASSUME NEW rules, IsList(rules), LookOnlyAtRestorable(rules), NEW m, NEW n, Alike(m, n)
  PROVE  Alike(RuleApplyAll(rules, m), RuleApplyAll(rules, n))
<1> DEFINE N == Len(rules)
<1>1. PICK u : /\ Runs(u, N, "rules", Unset, m, rules)
               /\ u[N] = Unfolded("rules", Unset, m, rules)
  BY FoldRuns DEF IsList
<1>2. PICK v : /\ Runs(v, N, "rules", Unset, n, rules)
               /\ v[N] = Unfolded("rules", Unset, n, rules)
  BY FoldRuns DEF IsList
<1> DEFINE P == {k \in 0..N : Alike(u[k], v[k])}
<1>3. 0 \in P  BY <1>1, <1>2 DEF Runs, IsList
<1>4. ASSUME NEW k \in 1..N, k - 1 \in P  PROVE k \in P
  <2> DEFINE r == rules[k]  a == u[k - 1]  b == v[k - 1]
  <2>1. /\ u[k] = OneStep("rules", Unset, a, r)
        /\ v[k] = OneStep("rules", Unset, b, r)
    BY <1>1, <1>2 DEF Runs
  <2>2. Alike(a, b)  BY <1>4
  <2>3. \A f \in Filter \ (Restorable \cup {"appname"}) : r.match[f] = Unset
    BY DEF LookOnlyAtRestorable, IsList
  <2> HIDE DEF r, a, b
  <2>4. \A f \in Filter : Passes(a, f, r.match[f]) <=> Passes(b, f, r.match[f])
    <3> TAKE f \in Filter
    <3>1. CASE f = "appname"  BY <2>2, <3>1 DEF Passes, Alike
    <3>2. CASE f \in Restorable /\ f # "appname"
      BY <2>2, <3>2 DEF Passes, Alike
    <3>3. CASE f \notin Restorable \cup {"appname"}
      BY <2>3, <3>3 DEF Passes
    <3> QED  BY <3>1, <3>2, <3>3
  <2>5. RuleMatches(r, a) <=> RuleMatches(r, b)  BY <2>4 DEF RuleMatches
  <2>6. Alike(RuleApply(r, a, TRUE), RuleApply(r, b, TRUE))
    <3>1. Changed(RuleApply(r, a, TRUE), r, a) /\ Changed(RuleApply(r, b, TRUE), r, b)
      BY <2>2, RuleApplied DEF Alike
    <3>2. Restorable \subseteq Field  BY DEF Restorable, Field
    <3> QED  BY <2>2, <3>1, <3>2 DEF Alike, Changed
  <2>7. Alike(u[k], v[k])  BY <2>1, <2>2, <2>5, <2>6 DEF OneStep
  <2> QED  BY <2>7
<1>5. N \in 0..N /\ N \in Nat  BY DEF IsList
<1> HIDE DEF P
<1>6. N \in P  BY <1>3, <1>4, <1>5, EveryStep
<1> QED  BY <1>1, <1>2, <1>6, FoldsUnfold DEF P

(* queues_reapply_all_rules puts back what was sent. *)
LEMMA RestoredAsSent ==
  ASSUME NEW n, NEW sent, IsSent(sent), Kept(n, sent)
  PROVE  Kept(Restored(n), sent) /\ Alike(Restored(n), sent)
<1>1. CASE n.original = NoOriginal
  <2>1. Restored(n) = n  BY <1>1 DEF Restored
  <2> QED  BY <1>1, <2>1 DEF Kept, IsSent, Alike
<1>2. CASE n.original # NoOriginal
  <2> DEFINE o == n.original
             m == RuleApply(o, n, FALSE)
  <2>1. Changed(m, o, n) /\ m.original = o
    <3>1. IsNote(n)  BY DEF Kept
    <3>2. Changed(RuleApply(o, n, FALSE), o, n) /\ RuleApply(o, n, FALSE).original = n.original
      BY <3>1, RuleApplied
    <3> QED  BY <3>2
  <2>2. Restored(n) = m  BY <1>2 DEF Restored
  <2> HIDE DEF m
  <2>3. ASSUME NEW f \in Restorable PROVE m.field[f] = sent.field[f]
    <3>1. f \in Field  BY DEF Restorable, Field
    <3>2. sent.field[f] # Unset  BY DEF IsSent
    <3>3. \/ n.field[f] = sent.field[f] /\ o.set[f] = Unset
          \/ o.set[f] = sent.field[f]
      BY <1>2 DEF Kept
    <3> QED  BY <2>1, <3>1, <3>2, <3>3 DEF Changed, Overwrites
  <2>4. \A f \in Restorable : o.set[f] = Unset \/ o.set[f] = sent.field[f]
    BY <1>2 DEF Kept
  <2> QED  BY <1>2, <2>1, <2>2, <2>3, <2>4 DEF Changed, Kept, Alike, IsSent
<1> QED  BY <1>1, <1>2

---------------------------------------------------------------------------
(* What is written: one entry.                                             *)

(* The rules of a configuration: one for each section that has any. *)
GoodRules(rules) ==
  /\ \E S : rules \in Seq(S)
  /\ \A i \in 1..Len(rules) : IsRule(rules[i]) /\ rules[i].name \notin DeprecatedSections
  /\ \A i, j \in 1..Len(rules) : rules[i].name = rules[j].name => i = j

(* What the rule of a section sets for a field *)
RuleField(rules, s, f) ==
  IF GetRule(rules, s) = 0 THEN Unset ELSE rules[GetRule(rules, s)].set[f]

(* get_rule finds a rule of that name when there is one. *)
LEMMA RuleFound ==
  ASSUME NEW rules, NEW S, rules \in Seq(S), NEW name
  PROVE  /\ (\A i \in 1..Len(rules) : rules[i].name # name) => GetRule(rules, name) = 0
         /\ \A i \in 1..Len(rules) : rules[i].name = name =>
              /\ GetRule(rules, name) \in 1..Len(rules)
              /\ rules[GetRule(rules, name)].name = name
<1> DEFINE I == {i \in 1..Len(rules) : rules[i].name = name}
<1>1. GetRule(rules, name) = IF I # {} THEN Min(I) ELSE 0
  BY Zenon DEF GetRule, SelectInSeq
<1>2. I \in SUBSET Nat  OBVIOUS
<1>3. I # {} => Min(I) \in I  BY <1>2, MinExists
<1> QED  BY <1>1, <1>3

(* There is one only. *)
LEMMA RuleOfSection ==
  ASSUME NEW rules, GoodRules(rules), NEW i \in 1..Len(rules)
  PROVE  GetRule(rules, rules[i].name) = i
<1>1. PICK S : rules \in Seq(S)  BY DEF GoodRules
<1>2. /\ GetRule(rules, rules[i].name) \in 1..Len(rules)
      /\ rules[GetRule(rules, rules[i].name)].name = rules[i].name
  BY <1>1, RuleFound
<1> QED  BY <1>2 DEF GoodRules

(* set_rule_value for the entries that change what the rule sets *)
Changes(section, key, v, f) ==
  /\ SettingKind(key, section) = "rule"
  /\ key \notin DOMAIN FilterType \cup {"enabled", "script"}
  /\ FieldOf(key) = f
  /\ RuleValue(key, v) # Invalid

(* An entry changes the field it is for, and no other. *)
LEMMA RuleValueSet ==
  ASSUME NEW r, NEW key, NEW v, NEW section, IsRule(r), SettingKind(key, section) = "rule"
  PROVE  /\ IsRule(SetRuleValue(r, key, v)) /\ SetRuleValue(r, key, v).name = r.name
         /\ \A f \in Field : SetRuleValue(r, key, v).set[f] =
              IF Changes(section, key, v, f) THEN RuleValue(key, v) ELSE r.set[f]
<1> DEFINE t == SetRuleValue(r, key, v)
           value == RuleValue(key, v)
<1>1. FieldOf(key) \in Field  BY DEF FieldOf, Field
<1> HIDE DEF value
<1>2. t = IF value = Invalid THEN r
          ELSE IF key = "enabled" THEN [r EXCEPT !.enabled = (value = 1)]
          ELSE IF key = "script" THEN [r EXCEPT !.script = value]
          ELSE IF key \in DOMAIN FilterType THEN [r EXCEPT !.match[FilterOf(key)] = value]
          ELSE [r EXCEPT !.set[FieldOf(key)] = value]
  BY DEF SetRuleValue, value
<1> HIDE DEF t
<1>3. CASE value # Invalid /\ key \notin DOMAIN FilterType \cup {"enabled", "script"}
  <2> DEFINE set == [r.set EXCEPT ![FieldOf(key)] = value]
  <2>1. t = [r EXCEPT !.set = set]  BY <1>2, <1>3
  <2>2. set = [f \in Field |-> IF f = FieldOf(key) THEN value ELSE r.set[f]]
    BY DEF IsRule
  <2>3. set = [f \in Field |-> set[f]]  BY <2>2
  <2> HIDE DEF set
  <2>4. t = [name |-> r.name, enabled |-> r.enabled, match |-> r.match, set |-> set,
             script |-> r.script]
    BY <2>1 DEF IsRule
  <2>5. IsRule(t) /\ t.name = r.name /\ t.set = set
    BY <2>3, <2>4 DEF IsRule
  <2>6. \A f \in Field : Changes(section, key, v, f) <=> f = FieldOf(key)
    BY <1>3 DEF Changes, value
  <2> QED  BY <2>2, <2>5, <2>6 DEF t, value
<1>4. CASE ~(value # Invalid /\ key \notin DOMAIN FilterType \cup {"enabled", "script"})
  <2>1. \A f \in Field : ~Changes(section, key, v, f)  BY <1>4 DEF Changes, value
  <2> DEFINE match == [r.match EXCEPT ![FilterOf(key)] = value]
  <2>2. \/ t = r
        \/ t = [r EXCEPT !.enabled = (value = 1)]
        \/ t = [r EXCEPT !.script = value]
        \/ t = [r EXCEPT !.match = match]
    BY <1>2, <1>4
  <2> DEFINE enabled == value = 1
  <2> HIDE DEF match, enabled
  <2>3. \/ t = r
        \/ t = [name |-> r.name, enabled |-> enabled, match |-> r.match, set |-> r.set,
                script |-> r.script]
        \/ t = [name |-> r.name, enabled |-> r.enabled, match |-> r.match, set |-> r.set,
                script |-> value]
        \/ t = [name |-> r.name, enabled |-> r.enabled, match |-> match, set |-> r.set,
                script |-> r.script]
    BY <2>2 DEF IsRule, enabled
  <2>4. IsRule(t) /\ t.name = r.name /\ t.set = r.set
    <3>1. t.set = r.set /\ t.name = r.name  BY <2>3
    <3>2. t = [name |-> t.name, enabled |-> t.enabled, match |-> t.match, set |-> t.set,
               script |-> t.script]
      BY <2>3 DEF IsRule
    <3> QED  BY <3>1, <3>2 DEF IsRule
  <2> QED  BY <2>1, <2>4 DEF t
<1> QED  BY <1>3, <1>4

(* set_rule changes that field of the rule of its section, which it makes  *)
(* when there is none, and no other field of any rule.                     *)
LEMMA RuleSet ==
  ASSUME NEW l, l = [settings |-> l.settings, rules |-> l.rules, dead |-> l.dead],
         GoodRules(l.rules), NEW section, section \notin DeprecatedSections,
         NEW key, NEW v, SettingKind(key, section) = "rule"
  PROVE  /\ SetRule(l, section, key, v) =
              [settings |-> l.settings, rules |-> SetRule(l, section, key, v).rules, dead |-> l.dead]
         /\ GoodRules(SetRule(l, section, key, v).rules)
         /\ \A s : \A f \in Field :
              RuleField(SetRule(l, section, key, v).rules, s, f) =
                IF s = section /\ Changes(section, key, v, f) THEN RuleValue(key, v)
                ELSE RuleField(l.rules, s, f)
<1> DEFINE rules == IF GetRule(l.rules, section) # 0 THEN l.rules
                    ELSE Append(l.rules, NewRule(section))
           i == GetRule(rules, section)
           m == SetRule(l, section, key, v)
           new == NewRule(section)
<1>0. PICK S : l.rules \in Seq(S)  BY DEF GoodRules
<1>1. m = [l EXCEPT !.rules = [rules EXCEPT ![i] = SetRuleValue(@, key, v)]]
  BY DEF SetRule
<1>2. /\ IsRule(new) /\ new.name = section /\ \A f \in Field : new.set[f] = Unset
  BY DEF NewRule, IsRule, Nothing
<1>3. /\ GoodRules(rules) /\ i \in 1..Len(rules) /\ rules[i].name = section
      /\ \A s : \A f \in Field : RuleField(rules, s, f) = RuleField(l.rules, s, f)
  <2>1. CASE GetRule(l.rules, section) # 0
    <3>1. rules = l.rules  BY <2>1
    <3>2. PICK j \in 1..Len(l.rules) : l.rules[j].name = section
      BY <1>0, <2>1, RuleFound
    <3>3. i \in 1..Len(rules) /\ rules[i].name = section  BY <1>0, <3>1, <3>2, RuleFound
    <3> QED  BY <3>1, <3>3
  <2>2. CASE GetRule(l.rules, section) = 0
    <3> DEFINE n == Len(l.rules) + 1
    <3>1. rules = Append(l.rules, new)  BY <2>2
    <3>2. \A j \in 1..Len(l.rules) : l.rules[j].name # section
      BY <1>0, <2>2, RuleFound
    <3> HIDE DEF rules, new, i
    <3>3. /\ rules \in Seq(S \cup {new}) /\ Len(rules) = n /\ n \in Nat /\ Len(l.rules) \in Nat
          /\ \A j \in 1..Len(l.rules) : rules[j] = l.rules[j]
          /\ rules[n] = new
      BY <1>0, <3>1
    <3> HIDE DEF n
    <3>4. \A j \in 1..n : j \in 1..Len(l.rules) \/ j = n  BY <3>3 DEF n
    <3>5. GoodRules(rules)
      <4>1. \A j \in 1..n : IsRule(rules[j]) /\ rules[j].name \notin DeprecatedSections
        BY <1>2, <3>3, <3>4 DEF GoodRules
      <4>2. \A j, k \in 1..n : rules[j].name = rules[k].name => j = k
        BY <1>2, <3>2, <3>3, <3>4 DEF GoodRules
      <4>3. \E T : rules \in Seq(T)  BY <3>3
      <4> QED  BY <3>3, <4>1, <4>2, <4>3 DEF GoodRules
    <3>6. n \in 1..n  BY <3>3 DEF n
    <3>7. i = n /\ rules[i].name = section
      <4>1. rules[n].name = section  BY <1>2, <3>3
      <4> QED  BY <3>3, <3>5, <3>6, <4>1, RuleOfSection DEF i
    <3>8. ASSUME NEW s, NEW f \in Field
          PROVE  RuleField(rules, s, f) = RuleField(l.rules, s, f)
      <4>1. CASE s = section
        <5>1. GetRule(rules, s) = n /\ n # 0 /\ GetRule(l.rules, s) = 0
          BY <2>2, <3>3, <3>7, <4>1 DEF n, i
        <5> QED  BY <1>2, <3>3, <5>1 DEF RuleField
      <4>2. CASE \E j \in 1..Len(l.rules) : l.rules[j].name = s
        <5>1. PICK j \in 1..Len(l.rules) : l.rules[j].name = s  BY <4>2
        <5>2. GetRule(l.rules, s) = j  BY <5>1, RuleOfSection
        <5>3. j \in 1..Len(rules) /\ rules[j] = l.rules[j]  BY <3>3, <5>1 DEF n
        <5>4. GetRule(rules, s) = j  BY <3>5, <5>1, <5>3, RuleOfSection
        <5> QED  BY <5>2, <5>3, <5>4 DEF RuleField
      <4>3. CASE s # section /\ \A j \in 1..Len(l.rules) : l.rules[j].name # s
        <5>1. GetRule(l.rules, s) = 0  BY <1>0, <4>3, RuleFound
        <5>2. \A j \in 1..n : rules[j].name # s  BY <1>2, <3>3, <3>4, <4>3
        <5>3. GetRule(rules, s) = 0  BY <3>3, <5>2, RuleFound
        <5> QED  BY <5>1, <5>3 DEF RuleField
      <4> QED  BY <4>1, <4>2, <4>3
    <3>9. i \in 1..Len(rules)  BY <3>3, <3>6, <3>7
    <3> QED  BY <3>5, <3>7, <3>8, <3>9
  <2> QED  BY <2>1, <2>2
<1> HIDE DEF rules, new, i, m
<1> DEFINE t == SetRuleValue(rules[i], key, v)
           set == [rules EXCEPT ![i] = t]
<1>4. IsRule(rules[i])  BY <1>3 DEF GoodRules
<1>5. /\ IsRule(t) /\ t.name = section
      /\ \A f \in Field :
           t.set[f] = IF Changes(section, key, v, f) THEN RuleValue(key, v) ELSE rules[i].set[f]
  BY <1>3, <1>4, RuleValueSet
<1> HIDE DEF t
<1>6. PICK T : rules \in Seq(T)  BY <1>3 DEF GoodRules
<1>7. /\ set \in Seq(T \cup {t}) /\ Len(set) = Len(rules)
      /\ \A j \in 1..Len(rules) : set[j] = IF j = i THEN t ELSE rules[j]
  BY <1>3, <1>6
<1>8. m = [l EXCEPT !.rules = set]  BY <1>1 DEF t
<1> HIDE DEF set
<1>9. m = [settings |-> l.settings, rules |-> set, dead |-> l.dead]  BY <1>8
<1>10. m.rules = set  BY <1>9
<1>11. \A j \in 1..Len(rules) : IsRule(set[j]) /\ set[j].name = rules[j].name
  BY <1>3, <1>5, <1>7 DEF GoodRules
<1>12. GoodRules(set)
  <2>1. \A j \in 1..Len(set) : IsRule(set[j]) /\ set[j].name \notin DeprecatedSections
    BY <1>3, <1>7, <1>11 DEF GoodRules
  <2>2. \A j, k \in 1..Len(set) : set[j].name = set[k].name => j = k
    BY <1>3, <1>7, <1>11 DEF GoodRules
  <2>3. \E U : set \in Seq(U)  BY <1>7
  <2> QED  BY <2>1, <2>2, <2>3 DEF GoodRules
<1>13. ASSUME NEW s PROVE GetRule(set, s) = GetRule(rules, s) /\ GetRule(rules, s) \in 0..Len(rules)
  <2>0. Len(rules) \in Nat  BY <1>6
  <2>1. CASE \E j \in 1..Len(rules) : rules[j].name = s
    <3>1. PICK j \in 1..Len(rules) : rules[j].name = s  BY <2>1
    <3>2. set[j].name = s /\ j \in 1..Len(set)  BY <1>7, <1>11, <3>1
    <3>3. GetRule(set, s) = j /\ GetRule(rules, s) = j
      BY <1>3, <1>12, <3>1, <3>2, RuleOfSection
    <3> QED  BY <2>0, <3>3
  <2>2. CASE \A j \in 1..Len(rules) : rules[j].name # s
    <3>1. \A j \in 1..Len(set) : set[j].name # s  BY <1>7, <1>11, <2>2
    <3>2. GetRule(set, s) = 0 /\ GetRule(rules, s) = 0
      BY <1>6, <1>7, <2>2, <3>1, RuleFound
    <3> QED  BY <2>0, <3>2
  <2> QED  BY <2>1, <2>2
<1>14. ASSUME NEW s, NEW f \in Field
       PROVE  RuleField(set, s, f) =
                IF s = section /\ Changes(section, key, v, f) THEN RuleValue(key, v)
                ELSE RuleField(rules, s, f)
  <2> DEFINE g == GetRule(rules, s)
  <2>1. GetRule(set, s) = g /\ g \in 0..Len(rules)  BY <1>13
  <2>2. Len(rules) \in Nat  BY <1>6
  <2>3. CASE s = section
    <3>1. g = i  BY <2>3 DEF i
    <3>2. i # 0 /\ set[i] = t  BY <1>3, <1>7, <2>2
    <3> QED  BY <1>5, <2>1, <2>3, <3>1, <3>2 DEF RuleField
  <2>4. CASE s # section
    <3>1. CASE g = 0  BY <2>1, <2>4, <3>1 DEF RuleField
    <3>2. CASE g # 0
      <4>1. g \in 1..Len(rules)  BY <2>1, <2>2, <3>2
      <4>2. rules[g].name = s
        <5>1. PICK j \in 1..Len(rules) : rules[j].name = s  BY <1>6, <3>2, RuleFound
        <5> QED  BY <1>6, <5>1, RuleFound
      <4>3. g # i  BY <1>3, <2>4, <4>2
      <4>4. set[g] = rules[g]  BY <1>7, <4>1, <4>3
      <4> QED  BY <2>1, <2>4, <3>2, <4>4 DEF RuleField
    <3> QED  BY <3>1, <3>2
  <2> QED  BY <2>3, <2>4
<1>15. ASSUME NEW s, NEW f \in Field
       PROVE  RuleField(m.rules, s, f) =
                IF s = section /\ Changes(section, key, v, f) THEN RuleValue(key, v)
                ELSE RuleField(l.rules, s, f)
  BY <1>3, <1>10, <1>14
<1>16. m = [settings |-> l.settings, rules |-> m.rules, dead |-> l.dead]  BY <1>9, <1>10
<1>17. GoodRules(m.rules)  BY <1>10, <1>12
<1> QED  BY <1>15, <1>16, <1>17 DEF m

(* What load_settings works on *)
GoodLoaded(l) ==
  /\ l = [settings |-> l.settings, rules |-> l.rules, dead |-> l.dead]
  /\ GoodRules(l.rules)

(* What is written: a field of the rule of a section, or a setting. *)
IsTarget(x) ==
  \/ x.kind = "field" /\ x.section \notin DeprecatedSections /\ x.key \in Field
  \/ x.kind = "setting" /\ x.section = "global" /\ x.key \in Observed

(* What a target holds *)
Value(l, x) ==
  IF x.kind = "field" THEN RuleField(l.rules, x.section, x.key) ELSE Setting(l, x.key)

(* An entry of a section writes a target, and this value. *)
Writes(x, section, e) ==
  /\ section = x.section
  /\ \/ x.kind = "field" /\ Changes(section, e.key, e.value, x.key)
     \/ /\ x.kind = "setting" /\ e.key = x.key /\ SettingKind(x.key, section) = "plain"
        /\ Parse(x.key, PlainType[x.key], e.value) # Invalid

Given(x, e) ==
  IF x.kind = "field" THEN RuleValue(e.key, e.value) ELSE Parse(x.key, PlainType[x.key], e.value)

(* What f ++ g consists of *)
LEMMA Joined ==
  ASSUME NEW f, NEW g
  PROVE  /\ DOMAIN (f ++ g) = DOMAIN f \cup DOMAIN g
         /\ \A x \in DOMAIN f : (f ++ g)[x] = f[x]
         /\ \A x \in DOMAIN g \ DOMAIN f : (f ++ g)[x] = g[x]
BY DEF ++

(* The settings that are observed are in the tables of that name. *)
LEMMA ObservedArePlain ==
  ASSUME NEW k \in Observed
  PROVE  k \in DOMAIN PlainType /\ TypeOf(k) = PlainType[k]
<1>1. "sort" \in DOMAIN GeneralType  BY DEF GeneralType
<1>2. "history_length" \in DOMAIN LayoutType  BY DEF LayoutType
<1>3. "default_pause_level" \in DOMAIN ProgramType  BY DEF ProgramType
<1>4. DOMAIN PlainType = DOMAIN GeneralType \cup DOMAIN LayoutType \cup DOMAIN ProgramType
                          \cup DOMAIN InputType \cup DOMAIN PlaceType
  BY DEF PlainType, ++
<1>5. k \in DOMAIN PlainType  BY <1>1, <1>2, <1>3, <1>4 DEF Observed
<1>6. DOMAIN IconType = {"icon"}  BY DEF IconType
<1>7. k \notin DOMAIN IconType  BY <1>6 DEF Observed
<1>8. (IconType ++ PlainType)[k] = PlainType[k]  BY <1>5, <1>7 DEF ++
<1>9. k \in DOMAIN (IconType ++ PlainType)  BY <1>5, Joined
<1>10. TypeOf(k) = (IconType ++ PlainType)[k]  BY <1>9, Joined DEF TypeOf
<1> QED  BY <1>5, <1>8, <1>10

(* set_setting changes the setting it is for, and no other. *)
LEMMA SettingSaved ==
  ASSUME NEW l, NEW section, NEW key, NEW v, NEW k \in Observed, GoodLoaded(l),
         SettingKind(key, section) = "plain"
  PROVE  /\ GoodLoaded(SetSetting(l, section, key, v))
         /\ SetSetting(l, section, key, v).dead = l.dead
         /\ SetSetting(l, section, key, v).rules = l.rules
         /\ Setting(SetSetting(l, section, key, v), k) =
              IF section = "global" /\ key = k /\ Parse(k, PlainType[k], v) # Invalid
              THEN Parse(k, PlainType[k], v) ELSE Setting(l, k)
<1> DEFINE value == Parse(key, TypeOf(key), v)
           settings == [id \in {<<section, key>>} |-> value] ++ l.settings
           m == SetSetting(l, section, key, v)
<1>2. TypeOf(k) = PlainType[k]  BY ObservedArePlain
<1>3. section = "global" /\ key = k => value = Parse(k, PlainType[k], v)  BY <1>2
<1> HIDE DEF value
<1>4. m = IF value = Invalid THEN l ELSE [l EXCEPT !.settings = settings]
  BY DEF SetSetting, value
<1>5. /\ <<"global", k>> \in DOMAIN settings <=>
           (section = "global" /\ key = k) \/ <<"global", k>> \in DOMAIN l.settings
      /\ section = "global" /\ key = k => settings[<<"global", k>>] = value
      /\ ~(section = "global" /\ key = k) /\ <<"global", k>> \in DOMAIN l.settings
           => settings[<<"global", k>>] = l.settings[<<"global", k>>]
  BY DEF ++
<1> HIDE DEF settings, m
<1>6. CASE value = Invalid  BY <1>3, <1>4, <1>6 DEF m
<1>7. CASE value # Invalid
  <2>1. m = [settings |-> settings, rules |-> l.rules, dead |-> l.dead]
    BY <1>4, <1>7 DEF GoodLoaded
  <2>2. m.settings = settings /\ m.rules = l.rules /\ m.dead = l.dead  BY <2>1
  <2>3. GoodLoaded(m)  BY <2>1, <2>2 DEF GoodLoaded
  <2>4. Setting(m, k) = IF section = "global" /\ key = k THEN value ELSE Setting(l, k)
    BY <1>5, <2>2 DEF Setting
  <2> QED  BY <1>3, <1>7, <2>2, <2>3, <2>4 DEF m
<1> QED  BY <1>6, <1>7

(* save_settings, for one entry: it writes its target or leaves it alone. *)
LEMMA EntrySaved ==
  ASSUME NEW l, NEW section, NEW e, NEW x, GoodLoaded(l), section \notin DeprecatedSections,
         IsTarget(x)
  PROVE  /\ GoodLoaded(SaveEntry(l, section, e))
         /\ SaveEntry(l, section, e).dead = l.dead
         /\ Writes(x, section, e) => Value(SaveEntry(l, section, e), x) = Given(x, e)
         /\ ~Writes(x, section, e) => Value(SaveEntry(l, section, e), x) = Value(l, x)
<1> DEFINE kind == SettingKind(e.key, section)
           m == SaveEntry(l, section, e)
<1>1. CASE kind = "plain"
  <2>1. m = SetSetting(l, section, e.key, e.value)  BY <1>1 DEF SaveEntry
  <2>2. PICK k : k \in Observed  BY DEF Observed
  <2>3. GoodLoaded(m) /\ m.dead = l.dead /\ m.rules = l.rules
    BY <1>1, <2>1, SettingSaved DEF Observed
  <2>4. CASE x.kind = "field"
    <3>1. ~Writes(x, section, e)  BY <1>1, <2>4 DEF Writes, Changes
    <3> QED  BY <2>3, <2>4, <3>1 DEF Value
  <2>5. CASE x.kind = "setting"
    <3>1. x.section = "global" /\ x.key \in Observed  BY <2>5 DEF IsTarget
    <3>2. Setting(m, x.key) =
            IF section = "global" /\ e.key = x.key /\ Parse(x.key, PlainType[x.key], e.value) # Invalid
            THEN Parse(x.key, PlainType[x.key], e.value) ELSE Setting(l, x.key)
      BY <1>1, <2>1, <3>1, SettingSaved
    <3>3. Writes(x, section, e) <=>
            section = "global" /\ e.key = x.key /\ Parse(x.key, PlainType[x.key], e.value) # Invalid
      BY <1>1, <2>5, <3>1 DEF Writes
    <3> QED  BY <2>3, <2>5, <3>2, <3>3 DEF Value, Given
  <2> QED  BY <2>4, <2>5 DEF IsTarget
<1>2. CASE kind = "rule" /\ (section \in SpecialSections => IsModifying(e.key))
  <2>1. m = SetRule(l, section, e.key, e.value)  BY <1>2 DEF SaveEntry
  <2>2. /\ m = [settings |-> l.settings, rules |-> m.rules, dead |-> l.dead]
        /\ GoodRules(m.rules)
        /\ \A s : \A f \in Field :
             RuleField(m.rules, s, f) =
               IF s = section /\ Changes(section, e.key, e.value, f) THEN RuleValue(e.key, e.value)
               ELSE RuleField(l.rules, s, f)
    <3>1. GoodRules(l.rules) /\ l = [settings |-> l.settings, rules |-> l.rules, dead |-> l.dead]
      BY DEF GoodLoaded
    <3> HIDE DEF m
    <3> QED  BY <1>2, <2>1, <3>1, RuleSet
  <2> HIDE DEF m
  <2>3. m.settings = l.settings /\ m.dead = l.dead  BY <2>2
  <2>4. GoodLoaded(m)  BY <2>2, <2>3 DEF GoodLoaded
  <2>5. CASE x.kind = "field"
    <3>1. x.key \in Field  BY <2>5 DEF IsTarget
    <3>2. Writes(x, section, e) <=> section = x.section /\ Changes(section, e.key, e.value, x.key)
      BY <2>5 DEF Writes
    <3> QED  BY <2>2, <2>3, <2>4, <2>5, <3>1, <3>2 DEF Value, Given, m
  <2>6. CASE x.kind = "setting"
    <3>1. ~Writes(x, section, e)  BY <1>2, <2>6 DEF Writes
    <3> QED  BY <2>3, <2>4, <2>6, <3>1 DEF Value, Setting, m
  <2> QED  BY <2>5, <2>6 DEF IsTarget
<1>3. CASE kind # "plain" /\ ~(kind = "rule" /\ (section \in SpecialSections => IsModifying(e.key)))
  <2>1. m = l  BY <1>3 DEF SaveEntry
  <2>2. CASE x.kind = "field"
    <3>1. ~Writes(x, section, e)  BY <1>3, <2>2 DEF Writes, Changes, IsModifying
    <3> QED  BY <2>1, <3>1
  <2>3. CASE x.kind = "setting"
    <3>1. ~Writes(x, section, e)  BY <1>3, <2>3 DEF Writes
    <3> QED  BY <2>1, <3>1
  <2> QED  BY <2>2, <2>3 DEF IsTarget
<1> QED  BY <1>1, <1>2, <1>3

(* What was written last, at the places I *)
Latest(I, base, v) == IF I = {} THEN base ELSE v[Max(I)]

(* The steps of hit write their value, the others none. *)
WrittenBy(a, n, hit, v) ==
  /\ n \in Nat /\ hit \in SUBSET (1..n)
  /\ \A k \in hit : a[k] = v[k]
  /\ \A k \in (1..n) \ hit : a[k] = a[k - 1]

---------------------------------------------------------------------------
(* What is written: a section, a file, all files.                          *)

(* Where each step writes a value or leaves it alone, it ends as the last  *)
(* step left it that wrote: this is used for the entries of a section, the *)
(* lines of a file and the files.                                          *)
LEMMA LastWritten ==
  ASSUME NEW a, NEW n, NEW hit, NEW v, WrittenBy(a, n, hit, v)
  PROVE  a[n] = Latest(hit, a[0], v)
<1>0. /\ n \in Nat /\ hit \in SUBSET (1..n)
      /\ \A k \in hit : a[k] = v[k]
      /\ \A k \in (1..n) \ hit : a[k] = a[k - 1]
  BY DEF WrittenBy
<1> DEFINE base == a[0]
           upto(k) == hit \cap 1..k
           P == {k \in 0..n : a[k] = Latest(upto(k), base, v)}
<1>1. 0 \in P
  <2>1. upto(0) = {}  OBVIOUS
  <2>2. 0 \in 0..n  BY <1>0
  <2> QED  BY <2>1, <2>2 DEF Latest
<1>2. ASSUME NEW k \in 1..n, k - 1 \in P  PROVE k \in P
  <2>0. k \in Nat /\ k - 1 \in Nat /\ k \in 0..n  BY <1>0
  <2>1. CASE k \in hit
    <3>1. upto(k) \in SUBSET (1..k) /\ k \in upto(k)  BY <2>0, <2>1
    <3>2. Max(upto(k)) \in upto(k) /\ k <= Max(upto(k))  BY <2>0, <3>1, MaxExists
    <3>3. Max(upto(k)) \in 1..k  BY <3>1, <3>2
    <3>4. Max(upto(k)) = k  BY <2>0, <3>2, <3>3
    <3>5. a[k] = v[k]  BY <1>0, <2>1
    <3> QED  BY <2>0, <3>1, <3>4, <3>5 DEF Latest
  <2>2. CASE k \notin hit
    <3>1. upto(k) = upto(k - 1)  BY <2>0, <2>2
    <3>2. a[k] = a[k - 1]  BY <1>0, <2>2
    <3>3. a[k - 1] = Latest(upto(k - 1), base, v)  BY <1>2
    <3> QED  BY <2>0, <3>1, <3>2, <3>3
  <2> QED  BY <2>1, <2>2
<1>3. n \in 0..n /\ n \in Nat  BY <1>0
<1>4. upto(n) = hit  BY <1>0
<1> HIDE DEF P
<1>5. n \in P  BY <1>1, <1>2, <1>3, EveryStep
<1> QED  BY <1>4, <1>5 DEF P

(* What a list of entries of a section makes of a target. *)
SectionValue(es, section, x, base) ==
  Latest({j \in 1..Len(es) : Writes(x, section, es[j])}, base, [j \in 1..Len(es) |-> Given(x, es[j])])

(* So it ends with a section saved. *)
LEMMA SectionSaved ==
  ASSUME NEW l, NEW s, NEW x, GoodLoaded(l), IsList(s.entries), IsTarget(x)
  PROVE  /\ GoodLoaded(SaveSection(l, s))
         /\ SaveSection(l, s).dead = l.dead
         /\ Value(SaveSection(l, s), x) = SectionValue(s.entries, s.name, x, Value(l, x))
<1> DEFINE es == s.entries  N == Len(es)
           hit == {j \in 1..N : Writes(x, s.name, es[j])}
           v == [j \in 1..N |-> Given(x, es[j])]
<1>0. N \in Nat  BY DEF IsList
<1>1. CASE s.name \in DeprecatedSections
  <2>1. SaveSection(l, s) = l  BY <1>1 DEF SaveSection
  <2>2. x.section \notin DeprecatedSections  BY DEF IsTarget, DeprecatedSections
  <2>3. hit = {}  BY <1>1, <2>2 DEF Writes
  <2> QED  BY <2>1, <2>3 DEF SectionValue, Latest
<1>2. CASE s.name \notin DeprecatedSections
  <2>1. PICK u : /\ Runs(u, N, "entries", s.name, l, es)
                 /\ u[N] = Unfolded("entries", s.name, l, es)
    BY <1>0, FoldRuns DEF IsList
  <2>2. SaveSection(l, s) = u[N]  BY <1>2, <2>1, FoldsUnfold
  <2> DEFINE P == {k \in 0..N : GoodLoaded(u[k]) /\ u[k].dead = l.dead}
             a == [k \in 0..N |-> Value(u[k], x)]
  <2>3. \A k \in 1..N : u[k] = SaveEntry(u[k - 1], s.name, es[k])
    BY <2>1 DEF Runs, OneStep
  <2>4. 0 \in P  BY <1>0, <2>1 DEF Runs
  <2>5. ASSUME NEW k \in 1..N, k - 1 \in P  PROVE k \in P
    <3>1. GoodLoaded(u[k - 1]) /\ u[k - 1].dead = l.dead  BY <2>5
    <3> DEFINE b == u[k - 1]  e == es[k]
    <3>2. u[k] = SaveEntry(b, s.name, e)  BY <2>3
    <3> HIDE DEF b, e
    <3>3. GoodLoaded(SaveEntry(b, s.name, e)) /\ SaveEntry(b, s.name, e).dead = b.dead
      BY <1>2, <3>1, EntrySaved DEF b
    <3>4. GoodLoaded(u[k]) /\ u[k].dead = l.dead  BY <3>1, <3>2, <3>3 DEF b
    <3> QED  BY <3>4
  <2> HIDE DEF P
  <2>6. \A k \in 0..N : k \in P  BY <1>0, <2>4, <2>5, EveryStep
  <2>7. ASSUME NEW k \in 1..N
        PROVE  /\ k \in hit => a[k] = v[k]
               /\ k \notin hit => a[k] = a[k - 1]
    <3>1. k - 1 \in 0..N /\ k \in 0..N  BY <1>0
    <3>2. GoodLoaded(u[k - 1])  BY <2>6, <3>1 DEF P
    <3>3. /\ Writes(x, s.name, es[k]) => Value(u[k], x) = Given(x, es[k])
          /\ ~Writes(x, s.name, es[k]) => Value(u[k], x) = Value(u[k - 1], x)
      BY <1>2, <2>3, <3>2, EntrySaved
    <3> QED  BY <3>1, <3>3
  <2>8. a[0] = Value(l, x)  BY <1>0, <2>1 DEF Runs
  <2>9. hit \in SUBSET (1..N)  OBVIOUS
  <2>10. N \in 0..N  BY <1>0
  <2>11. a[N] = Value(u[N], x)  BY <2>10
  <2>12. \A k \in hit : a[k] = v[k]  BY <2>7
  <2>13. \A k \in (1..N) \ hit : a[k] = a[k - 1]  BY <2>7
  <2>14. WrittenBy(a, N, hit, v)  BY <1>0, <2>9, <2>12, <2>13 DEF WrittenBy
  <2> HIDE DEF a, hit, v, N
  <2>15. a[N] = Latest(hit, Value(l, x), v)  BY <2>8, <2>14, LastWritten
  <2>16. GoodLoaded(u[N]) /\ u[N].dead = l.dead  BY <2>6, <2>10 DEF P
  <2> QED  BY <2>2, <2>11, <2>15, <2>16 DEF SectionValue, hit, v, N
<1> QED  BY <1>1, <1>2

(* The sections of a file, each once. *)
GoodIni(ini) ==
  /\ \E S : ini \in Seq(S)
  /\ \A i \in 1..Len(ini) :
       /\ ini[i] = [name |-> ini[i].name, entries |-> ini[i].entries]
       /\ \E T : ini[i].entries \in Seq(T)
  /\ \A i, j \in 1..Len(ini) : ini[i].name = ini[j].name => i = j

(* What a file that is read makes of a target *)
IniValue(ini, x, base) ==
  LET I == {i \in 1..Len(ini) : ini[i].name = x.section}
  IN  IF I = {} THEN base
      ELSE SectionValue(ini[CHOOSE i \in I : TRUE].entries, x.section, x, base)

(* That is what its section makes of it, if it has one. *)
LEMMA IniValueOf ==
  ASSUME NEW ini, NEW x, NEW base, GoodIni(ini)
  PROVE  /\ \A i \in 1..Len(ini) : ini[i].name = x.section =>
              IniValue(ini, x, base) = SectionValue(ini[i].entries, x.section, x, base)
         /\ (\A i \in 1..Len(ini) : ini[i].name # x.section) => IniValue(ini, x, base) = base
<1> DEFINE I == {i \in 1..Len(ini) : ini[i].name = x.section}
<1>1. ASSUME NEW i \in I PROVE I = {i}  BY DEF GoodIni
<1>2. ASSUME NEW i \in I PROVE (CHOOSE j \in I : TRUE) = i  BY <1>1
<1>3. IniValue(ini, x, base) =
        IF I = {} THEN base
        ELSE SectionValue(ini[CHOOSE i \in I : TRUE].entries, x.section, x, base)
  BY DEF IniValue
<1> QED  BY <1>2, <1>3

(* save_settings, for a file *)
LEMMA IniSaved ==
  ASSUME NEW l, NEW ini, NEW x, GoodLoaded(l), GoodIni(ini), IsTarget(x)
  PROVE  /\ GoodLoaded(SaveSettings(l, ini))
         /\ SaveSettings(l, ini).dead = l.dead
         /\ Value(SaveSettings(l, ini), x) = IniValue(ini, x, Value(l, x))
<1> DEFINE N == Len(ini)
<1>0. PICK S : ini \in Seq(S)  BY DEF GoodIni
<1>1. N \in Nat /\ DOMAIN ini = 1..N  BY <1>0
<1>2. PICK u : /\ Runs(u, N, "sections", Unset, l, ini)
               /\ u[N] = Unfolded("sections", Unset, l, ini)
  BY <1>1, FoldRuns
<1>3. SaveSettings(l, ini) = u[N]  BY <1>2, FoldsUnfold
<1>4. u[0] = l /\ \A k \in 1..N : u[k] = SaveSection(u[k - 1], ini[k])
  BY <1>2 DEF Runs, OneStep
<1>5. \A k \in 1..N : IsList(ini[k].entries)
  <2> TAKE k \in 1..N
  <2>1. PICK T : ini[k].entries \in Seq(T)  BY DEF GoodIni
  <2> QED  BY <2>1 DEF IsList
<1> DEFINE P == {k \in 0..N : GoodLoaded(u[k]) /\ u[k].dead = l.dead}
<1>6. 0 \in P  BY <1>1, <1>4
<1>7. ASSUME NEW k \in 1..N, k - 1 \in P  PROVE k \in P
  <2>1. GoodLoaded(u[k - 1]) /\ u[k - 1].dead = l.dead  BY <1>7
  <2> DEFINE b == u[k - 1]  s == ini[k]
  <2>2. u[k] = SaveSection(b, s) /\ IsList(s.entries)  BY <1>4, <1>5
  <2> HIDE DEF b, s
  <2>3. GoodLoaded(SaveSection(b, s)) /\ SaveSection(b, s).dead = b.dead
    BY <2>1, <2>2, SectionSaved DEF b
  <2>4. GoodLoaded(u[k]) /\ u[k].dead = l.dead  BY <2>1, <2>2, <2>3 DEF b
  <2> QED  BY <2>4
<1> HIDE DEF P
<1>8. \A k \in 0..N : k \in P  BY <1>1, <1>6, <1>7, EveryStep
<1>9. \A k \in 1..N : Value(u[k], x) = SectionValue(ini[k].entries, ini[k].name, x, Value(u[k - 1], x))
  <2> TAKE k \in 1..N
  <2>1. k - 1 \in 0..N  BY <1>1
  <2>2. GoodLoaded(u[k - 1])  BY <1>8, <2>1 DEF P
  <2> QED  BY <1>4, <1>5, <2>2, SectionSaved
<1>10. ASSUME NEW k \in 1..N, ini[k].name # x.section  PROVE Value(u[k], x) = Value(u[k - 1], x)
  <2>1. \A j : ~Writes(x, ini[k].name, ini[k].entries[j])  BY <1>10 DEF Writes
  <2> QED  BY <1>9, <2>1 DEF SectionValue, Latest
<1> DEFINE base == Value(l, x)
           end(k) == IF \E i \in 1..k : ini[i].name = x.section
                     THEN IniValue(ini, x, base) ELSE base
           Q == {k \in 0..N : Value(u[k], x) = end(k)}
<1>11. 0 \in Q  BY <1>1, <1>4
<1>12. ASSUME NEW k \in 1..N, k - 1 \in Q  PROVE k \in Q
  <2>0. k \in 0..N /\ k \in Nat  BY <1>1
  <2>1. Value(u[k - 1], x) = end(k - 1)  BY <1>12
  <2>2. CASE ini[k].name = x.section
    <3>1. \A i \in 1..(k - 1) : ini[i].name # x.section
      <4> TAKE i \in 1..(k - 1)
      <4>1. i \in 1..N /\ i # k  BY <2>0
      <4> QED  BY <2>2, <4>1 DEF GoodIni
    <3>2. Value(u[k - 1], x) = base  BY <2>1, <3>1
    <3>3. Value(u[k], x) = SectionValue(ini[k].entries, x.section, x, base)
      BY <1>9, <2>2, <3>2
    <3>4. Value(u[k], x) = IniValue(ini, x, base)  BY <2>2, <3>3, IniValueOf
    <3>5. k \in 1..k  BY <2>0
    <3> QED  BY <2>0, <2>2, <3>4, <3>5
  <2>3. CASE ini[k].name # x.section
    <3>1. Value(u[k], x) = end(k - 1)  BY <1>10, <2>1, <2>3
    <3>2. (\E i \in 1..k : ini[i].name = x.section) <=> \E i \in 1..(k - 1) : ini[i].name = x.section
      <4>1. \A i \in 1..k : i = k \/ i \in 1..(k - 1)  BY <2>0
      <4>2. \A i \in 1..(k - 1) : i \in 1..k  BY <2>0
      <4> QED  BY <2>3, <4>1, <4>2
    <3> QED  BY <2>0, <3>1, <3>2
  <2> QED  BY <2>2, <2>3
<1> HIDE DEF Q
<1>13. N \in 0..N  BY <1>1
<1>14. N \in Q /\ N \in P  BY <1>1, <1>8, <1>11, <1>12, <1>13, EveryStep
<1>15. Value(u[N], x) = end(N)  BY <1>14 DEF Q
<1>16. end(N) = IniValue(ini, x, base)  BY IniValueOf
<1>17. GoodLoaded(u[N]) /\ u[N].dead = l.dead  BY <1>14 DEF P
<1> QED  BY <1>3, <1>15, <1>16, <1>17

(* add_entry: an entry comes behind those of its section, wherever that    *)
(* section began, and is therefore the one that counts.                    *)
LEMMA EntryAdded ==
  ASSUME NEW ini, NEW section, NEW e, NEW x, NEW base, GoodIni(ini), IsTarget(x)
  PROVE  /\ GoodIni(AddEntry(ini, section, e))
         /\ Writes(x, section, e) => IniValue(AddEntry(ini, section, e), x, base) = Given(x, e)
         /\ ~Writes(x, section, e) =>
              IniValue(AddEntry(ini, section, e), x, base) = IniValue(ini, x, base)
<1> DEFINE N == Len(ini)
           I == {i \in 1..N : ini[i].name = section}
           at == SelectInSeq(ini, LAMBDA s : s.name = section)
           new == AddEntry(ini, section, e)
           one == [name |-> section, entries |-> <<e>>]
<1>0. PICK S : ini \in Seq(S)  BY DEF GoodIni
<1>1. N \in Nat  BY <1>0
<1>2. at = IF I # {} THEN Min(I) ELSE 0  BY Zenon DEF SelectInSeq
<1>3. new = IF at = 0 THEN Append(ini, one)
            ELSE [ini EXCEPT ![at] = [ini[at] EXCEPT !.entries = Append(ini[at].entries, e)]]
  BY Zenon DEF AddEntry
<1> HIDE DEF at, new
<1>4. CASE I # {}
  <2>1. Min(I) \in I  BY <1>4, MinExists
  <2>2. at \in 1..N /\ ini[at].name = section /\ at # 0  BY <1>1, <1>2, <1>4, <2>1
  <2> DEFINE old == ini[at]  es == old.entries  more == [name |-> section, entries |-> Append(es, e)]
  <2>3. old = [name |-> section, entries |-> es]  BY <2>2 DEF GoodIni
  <2>4. PICK T : es \in Seq(T)  BY <2>2 DEF GoodIni
  <2>5. [old EXCEPT !.entries = Append(old.entries, e)] = more  BY <2>3
  <2>6. new = [ini EXCEPT ![at] = more]  BY <1>3, <2>2, <2>5
  <2> HIDE DEF old, more
  <2>7. /\ new \in Seq(S \cup {more}) /\ Len(new) = N
        /\ \A i \in 1..N : new[i] = IF i = at THEN more ELSE ini[i]
    BY <1>0, <2>2, <2>6
  <2>8. more.name = section /\ more.entries = Append(es, e) /\ Append(es, e) \in Seq(T \cup {e})
    BY <2>4 DEF more
  <2>9. \A i \in 1..N : new[i].name = ini[i].name  BY <2>2, <2>7, <2>8
  <2>10. GoodIni(new)
    <3>1. \A i \in 1..N : /\ new[i] = [name |-> new[i].name, entries |-> new[i].entries]
                          /\ \E U : new[i].entries \in Seq(U)
      <4> TAKE i \in 1..N
      <4>1. CASE i = at  BY <2>7, <2>8, <4>1 DEF more
      <4>2. CASE i # at  BY <2>7, <4>2 DEF GoodIni
      <4> QED  BY <4>1, <4>2
    <3>2. \A i, j \in 1..N : new[i].name = new[j].name => i = j  BY <2>9 DEF GoodIni
    <3>3. \E U : new \in Seq(U)  BY <2>7
    <3> QED  BY <2>7, <3>1, <3>2, <3>3 DEF GoodIni
  <2>11. CASE section = x.section
    <3> DEFINE n == Len(es)
               all == Append(es, e)
               hit == {j \in 1..n : Writes(x, section, es[j])}
               hit2 == {j \in 1..(n + 1) : Writes(x, section, all[j])}
               v == [j \in 1..n |-> Given(x, es[j])]
               v2 == [j \in 1..(n + 1) |-> Given(x, all[j])]
    <3>1. /\ n \in Nat /\ Len(all) = n + 1 /\ all[n + 1] = e
          /\ \A j \in 1..n : all[j] = es[j]
      BY <2>4
    <3>2. IniValue(ini, x, base) = Latest(hit, base, v)
      BY <2>2, <2>11, IniValueOf DEF SectionValue, old
    <3>3. IniValue(new, x, base) = Latest(hit2, base, v2)
      <4>1. new[at].name = x.section /\ at \in 1..Len(new) /\ new[at].entries = all
        BY <2>2, <2>7, <2>8, <2>11
      <4>2. IniValue(new, x, base) = SectionValue(all, x.section, x, base)
        BY <2>10, <4>1, IniValueOf
      <4>3. SectionValue(all, section, x, base) = Latest(hit2, base, v2)
        BY <3>1 DEF SectionValue
      <4> QED  BY <2>11, <4>2, <4>3
    <3>4. CASE Writes(x, section, e)
      <4>1. n + 1 \in hit2 /\ hit2 \in SUBSET (1..(n + 1)) /\ n + 1 \in Nat  BY <3>1, <3>4
      <4> HIDE DEF hit2
      <4>2. Max(hit2) \in hit2 /\ n + 1 <= Max(hit2)  BY <4>1, MaxExists
      <4>3. Max(hit2) \in 1..(n + 1)  BY <4>1, <4>2
      <4>4. Max(hit2) = n + 1  BY <3>1, <4>2, <4>3
      <4>5. v2[n + 1] = Given(x, e)  BY <3>1
      <4>6. IniValue(new, x, base) = Given(x, e)  BY <3>3, <4>1, <4>4, <4>5 DEF Latest
      <4> QED  BY <2>10, <3>4, <4>6 DEF new
    <3>5. CASE ~Writes(x, section, e)
      <4>1. hit2 = hit
        <5>1. \A j \in 1..(n + 1) : j = n + 1 \/ j \in 1..n  BY <3>1
        <5>2. \A j \in 1..n : j \in 1..(n + 1)  BY <3>1
        <5> QED  BY <3>1, <3>5, <5>1, <5>2
      <4>2. ASSUME hit # {} PROVE v2[Max(hit)] = v[Max(hit)]
        <5>1. Max(hit) \in hit  BY <3>1, <4>2, MaxExists
        <5>2. Max(hit) \in 1..n /\ Max(hit) \in 1..(n + 1)  BY <3>1, <5>1
        <5> QED  BY <3>1, <5>2
      <4> HIDE DEF hit, hit2, v, v2
      <4>3. IniValue(new, x, base) = IniValue(ini, x, base)
        BY <3>2, <3>3, <4>1, <4>2 DEF Latest
      <4> QED  BY <2>10, <3>5, <4>3 DEF new
    <3> HIDE DEF n, all, hit, hit2, v, v2
    <3> QED  BY <3>4, <3>5
  <2>12. CASE section # x.section
    <3>1. ~Writes(x, section, e)  BY <2>12 DEF Writes
    <3>2. IniValue(new, x, base) = IniValue(ini, x, base)
      <4>1. CASE \E i \in 1..N : ini[i].name = x.section
        <5>1. PICK i \in 1..N : ini[i].name = x.section  BY <4>1
        <5>2. new[i] = ini[i] /\ i \in 1..Len(new)  BY <2>2, <2>7, <2>12, <5>1
        <5>3. IniValue(ini, x, base) = SectionValue(ini[i].entries, x.section, x, base)
          BY <5>1, IniValueOf
        <5>4. IniValue(new, x, base) = SectionValue(new[i].entries, x.section, x, base)
          BY <2>10, <5>1, <5>2, IniValueOf
        <5> QED  BY <5>2, <5>3, <5>4
      <4>2. CASE \A i \in 1..N : ini[i].name # x.section
        <5>1. \A i \in 1..Len(new) : new[i].name # x.section  BY <2>7, <2>9, <4>2
        <5> QED  BY <2>10, <4>2, <5>1, IniValueOf
      <4> QED  BY <4>1, <4>2
    <3> QED  BY <2>10, <3>1, <3>2 DEF new
  <2> QED  BY <2>11, <2>12
<1>5. CASE I = {}
  <2>1. at = 0  BY <1>2, <1>5
  <2>2. new = Append(ini, one)  BY <1>3, <2>1
  <2>3. /\ new \in Seq(S \cup {one}) /\ Len(new) = N + 1 /\ new[N + 1] = one
        /\ \A i \in 1..N : new[i] = ini[i]
    BY <1>0, <2>2
  <2>4. one.name = section /\ one.entries = <<e>>  OBVIOUS
  <2>5. \A i \in 1..(N + 1) : i = N + 1 \/ i \in 1..N  BY <1>1
  <2>6. \A i \in 1..N : ini[i].name # section  BY <1>5
  <2>7. GoodIni(new)
    <3>1. \A i \in 1..(N + 1) : /\ new[i] = [name |-> new[i].name, entries |-> new[i].entries]
                                /\ \E U : new[i].entries \in Seq(U)
      <4> TAKE i \in 1..(N + 1)
      <4>1. CASE i = N + 1
        <5>1. <<e>> \in Seq({e})  OBVIOUS
        <5> QED  BY <2>3, <2>4, <4>1, <5>1
      <4>2. CASE i \in 1..N  BY <2>3, <4>2 DEF GoodIni
      <4> QED  BY <2>5, <4>1, <4>2
    <3>2. \A i, j \in 1..(N + 1) : new[i].name = new[j].name => i = j
      BY <2>3, <2>4, <2>5, <2>6 DEF GoodIni
    <3>3. \E U : new \in Seq(U)  BY <2>3
    <3> QED  BY <2>3, <3>1, <3>2, <3>3 DEF GoodIni
  <2> HIDE DEF one
  <2>8. CASE section = x.section
    <3>1. IniValue(ini, x, base) = base  BY <2>6, <2>8, IniValueOf
    <3>2. IniValue(new, x, base) = SectionValue(<<e>>, x.section, x, base)
      <4>1. N + 1 \in 1..Len(new) /\ new[N + 1].name = x.section /\ new[N + 1].entries = <<e>>
        BY <1>1, <2>3, <2>4, <2>8
      <4> QED  BY <2>7, <4>1, IniValueOf
    <3> DEFINE hit == {j \in 1..1 : Writes(x, section, <<e>>[j])}
               v == [j \in 1..1 |-> Given(x, <<e>>[j])]
    <3>3. IniValue(new, x, base) = Latest(hit, base, v)  BY <2>8, <3>2 DEF SectionValue
    <3>4. 1..1 = {1} /\ <<e>>[1] = e  OBVIOUS
    <3>5. CASE Writes(x, section, e)
      <4>1. hit \in SUBSET (1..1) /\ 1 \in hit  BY <3>4, <3>5
      <4>2. Max(hit) \in hit  BY <4>1, MaxExists
      <4>3. Max(hit) = 1  BY <3>4, <4>1, <4>2
      <4>4. v[1] = Given(x, e)  BY <3>4
      <4> QED  BY <2>7, <3>3, <3>5, <4>1, <4>3, <4>4 DEF Latest, new
    <3>6. CASE ~Writes(x, section, e)
      <4>1. hit = {}  BY <3>4, <3>6
      <4> QED  BY <2>7, <3>1, <3>3, <3>6, <4>1 DEF Latest, new
    <3> QED  BY <3>5, <3>6
  <2>9. CASE section # x.section
    <3>1. ~Writes(x, section, e)  BY <2>9 DEF Writes
    <3>2. IniValue(new, x, base) = IniValue(ini, x, base)
      <4>1. CASE \E i \in 1..N : ini[i].name = x.section
        <5>1. PICK i \in 1..N : ini[i].name = x.section  BY <4>1
        <5>2. new[i] = ini[i] /\ i \in 1..Len(new)  BY <1>1, <2>3, <5>1
        <5>3. IniValue(ini, x, base) = SectionValue(ini[i].entries, x.section, x, base)
          BY <5>1, IniValueOf
        <5>4. IniValue(new, x, base) = SectionValue(new[i].entries, x.section, x, base)
          BY <2>7, <5>1, <5>2, IniValueOf
        <5> QED  BY <5>2, <5>3, <5>4
      <4>2. CASE \A i \in 1..N : ini[i].name # x.section
        <5>1. \A i \in 1..Len(new) : new[i].name # x.section
          BY <2>3, <2>4, <2>5, <2>9, <4>2
        <5> QED  BY <2>7, <4>2, <5>1, IniValueOf
      <4> QED  BY <4>1, <4>2
    <3> QED  BY <2>7, <3>1, <3>2 DEF new
  <2> QED  BY <2>8, <2>9
<1> QED  BY <1>4, <1>5

(* The lines of a file that write a target, and what they write *)
EntryAt(lines, p) == [key |-> lines[p].name, value |-> lines[p].value]

LinesFor(lines, x) ==
  {p \in Entries(lines) : Writes(x, SectionOf(lines, p), EntryAt(lines, p))}

(* What a file makes of a target, said of its lines *)
FileValue(lines, x, base) ==
  Latest(LinesFor(lines, x), base, [p \in 1..Len(lines) |-> Given(x, EntryAt(lines, p))])

(* The section of a line is that of the line before, unless it is a header *)
(* itself.                                                                 *)
LEMMA HeaderAbove ==
  ASSUME NEW lines \in Seq(Line), NEW k \in 1..Len(lines)
  PROVE  /\ lines[k].kind = "header" /\ ~lines[k].broken => HeaderOf(lines, k) = k
         /\ ~(lines[k].kind = "header" /\ ~lines[k].broken) =>
              HeaderOf(lines, k) = HeaderOf(lines, k - 1)
         /\ HeaderOf(lines, k - 1) \in 0..(k - 1)
<1> DEFINE above(i) == {h \in 1..i : lines[h].kind = "header" /\ ~lines[h].broken}
<1>0. k \in Nat /\ k - 1 \in Nat  OBVIOUS
<1>1. \A i : HeaderOf(lines, i) =
        IF above(i) = {} THEN 0 ELSE CHOOSE h \in above(i) : \A g \in above(i) : g <= h
  BY DEF HeaderOf
<1>2. ASSUME lines[k].kind = "header", ~lines[k].broken  PROVE HeaderOf(lines, k) = k
  <2> DEFINE A == above(k)
  <2>1. k \in A /\ \A g \in A : g <= k /\ g \in 1..k  BY <1>0, <1>2
  <2>2. HeaderOf(lines, k) = CHOOSE h \in A : \A g \in A : g <= h  BY <1>1, <2>1
  <2> HIDE DEF A
  <2>3. \A h \in A : (\A g \in A : g <= h) => h = k
    <3> TAKE h \in A
    <3>1. h \in 1..k  BY <2>1
    <3> QED  BY <1>0, <2>1, <3>1
  <2>4. (CHOOSE h \in A : \A g \in A : g <= h) = k  BY <2>1, <2>3
  <2> QED  BY <2>2, <2>4
<1>3. ASSUME ~(lines[k].kind = "header" /\ ~lines[k].broken)
      PROVE  HeaderOf(lines, k) = HeaderOf(lines, k - 1)
  <2>1. \A h \in 1..k : h = k \/ h \in 1..(k - 1)  BY <1>0
  <2>2. \A h \in 1..(k - 1) : h \in 1..k  BY <1>0
  <2>3. above(k) = above(k - 1)  BY <1>3, <2>1, <2>2
  <2> QED  BY <1>1, <2>3
<1>4. HeaderOf(lines, k - 1) \in 0..(k - 1)
  <2> DEFINE A == above(k - 1)
  <2>1. CASE A = {}  BY <1>0, <1>1, <2>1
  <2>2. CASE A # {}
    <3>1. A \in SUBSET (1..(k - 1))  OBVIOUS
    <3>2. HeaderOf(lines, k - 1) = CHOOSE h \in A : \A g \in A : g <= h  BY <1>1, <2>2
    <3> HIDE DEF A
    <3>3. Max(A) \in A /\ \A g \in A : g <= Max(A)  BY <1>0, <2>2, <3>1, MaxExists
    <3>4. HeaderOf(lines, k - 1) \in A  BY <3>2, <3>3
    <3>5. HeaderOf(lines, k - 1) \in 1..(k - 1)  BY <3>1, <3>4
    <3> QED  BY <1>0, <3>5
  <2> QED  BY <2>1, <2>2
<1> QED  BY <1>2, <1>3, <1>4

(* A file that can be read *)
IsFile(lines) == lines \in Seq(Line)

(* load_ini_file gathers the entries of sections that come again, and the  *)
(* last line that writes a target is still the last.                       *)
LEMMA IniLoaded ==
  ASSUME NEW lines, NEW x, NEW base, IsFile(lines), IsTarget(x)
  PROVE  GoodIni(LoadIni(lines)) /\ IniValue(LoadIni(lines), x, base) = FileValue(lines, x, base)
<1> DEFINE N == Len(lines)
           start == [section |-> NoSection, ini |-> <<>>]
           current(k) == IF HeaderOf(lines, k) = 0 THEN NoSection
                         ELSE lines[HeaderOf(lines, k)].name
<1>0. N \in Nat /\ DOMAIN lines = 1..N /\ \A k \in 1..N : lines[k] \in Line  BY DEF IsFile
<1>1. PICK u : /\ Runs(u, N, "lines", Unset, start, lines)
               /\ u[N] = Unfolded("lines", Unset, start, lines)
  BY <1>0, FoldRuns
<1>2. LoadIni(lines) = u[N].ini  BY <1>1, FoldsUnfold
<1>3. u[0] = start /\ \A k \in 1..N : u[k] = ReadLine(u[k - 1], lines[k])
  BY <1>1 DEF Runs, OneStep
<1> DEFINE P == {k \in 0..N : /\ u[k] = [section |-> current(k), ini |-> u[k].ini]
                              /\ GoodIni(u[k].ini)}
           a == [k \in 0..N |-> IniValue(u[k].ini, x, base)]
           hit == LinesFor(lines, x)
           v == [p \in 1..N |-> Given(x, EntryAt(lines, p))]
<1>4. 0 \in P
  <2>1. 1..0 = {}  OBVIOUS
  <2>2. HeaderOf(lines, 0) = 0  BY <2>1 DEF HeaderOf
  <2>3. u[0].ini = <<>>  BY <1>3
  <2>4. Len(<<>>) = 0 /\ <<>> \in Seq({})  OBVIOUS
  <2>5. GoodIni(<<>>)  BY <2>1, <2>4 DEF GoodIni
  <2>6. u[0] = [section |-> current(0), ini |-> u[0].ini]  BY <1>3, <2>2
  <2> QED  BY <1>0, <2>3, <2>5, <2>6
<1>5. ASSUME NEW k \in 1..N, k - 1 \in P
      PROVE  /\ k \in P
             /\ k \in hit => a[k] = v[k]
             /\ k \notin hit => a[k] = a[k - 1]
  <2> DEFINE b == u[k - 1]  line == lines[k]  s == current(k - 1)
  <2>0. k \in 0..N /\ k - 1 \in 0..N /\ k - 1 \in Nat /\ k \in Nat  BY <1>0
  <2>1. b = [section |-> s, ini |-> b.ini] /\ GoodIni(b.ini)  BY <1>5
  <2>2. u[k] = ReadLine(b, line)  BY <1>3
  <2>3. line \in Line  BY <1>0
  <2>4. /\ line.kind = "header" /\ ~line.broken => HeaderOf(lines, k) = k
        /\ ~(line.kind = "header" /\ ~line.broken) => HeaderOf(lines, k) = HeaderOf(lines, k - 1)
        /\ HeaderOf(lines, k - 1) \in 0..(k - 1)
    BY HeaderAbove DEF IsFile
  <2>5. s = NoSection <=> HeaderOf(lines, k - 1) = 0
    <3>1. ASSUME HeaderOf(lines, k - 1) # 0 PROVE s # NoSection
      <4>1. HeaderOf(lines, k - 1) \in 1..N  BY <1>0, <2>0, <2>4, <3>1
      <4>2. lines[HeaderOf(lines, k - 1)] \in Line  BY <1>0, <4>1
      <4>3. s \in STRING  BY <3>1, <4>2 DEF Line
      <4> QED  BY <4>3, UnsetAssumption DEF NoSection
    <3> QED  BY <3>1
  <2>6. b.section = s  BY <2>1
  <2>7. k \in hit <=> /\ line.kind = "entry" /\ ~line.broken /\ HeaderOf(lines, k) # 0
                      /\ Writes(x, SectionOf(lines, k), EntryAt(lines, k))
    BY <1>0 DEF LinesFor, Entries
  <2>8. a[k] = IniValue(u[k].ini, x, base) /\ a[k - 1] = IniValue(b.ini, x, base)  BY <2>0
  <2>9. v[k] = Given(x, EntryAt(lines, k))  OBVIOUS
  <2> HIDE DEF b, a, hit, v
  <2>10. CASE line.broken \/ line.kind = "comment"
    <3>1. u[k] = b  BY <2>2, <2>10 DEF ReadLine
    <3>2. current(k) = s  BY <2>4, <2>10
    <3>3. k \notin hit  BY <2>7, <2>10
    <3> QED  BY <2>0, <2>1, <2>8, <3>1, <3>2, <3>3
  <2>11. CASE ~line.broken /\ line.kind = "header"
    <3>1. u[k] = [b EXCEPT !.section = line.name]  BY <2>2, <2>11 DEF ReadLine
    <3>2. u[k] = [section |-> line.name, ini |-> b.ini]  BY <2>1, <3>1
    <3>3. HeaderOf(lines, k) = k /\ k # 0  BY <2>4, <2>11
    <3>4. current(k) = line.name  BY <3>3
    <3>5. u[k].ini = b.ini  BY <3>2
    <3>6. k \notin hit  BY <2>7, <2>11
    <3> QED  BY <2>0, <2>1, <2>8, <3>2, <3>4, <3>5, <3>6
  <2>12. CASE ~line.broken /\ line.kind = "entry"
    <3>1. HeaderOf(lines, k) = HeaderOf(lines, k - 1) /\ current(k) = s  BY <2>4, <2>12
    <3>2. CASE s = NoSection
      <4>1. u[k] = b  BY <2>2, <2>6, <2>12, <3>2 DEF ReadLine
      <4>2. k \notin hit  BY <2>5, <2>7, <3>1, <3>2
      <4> QED  BY <2>0, <2>1, <2>8, <3>1, <4>1, <4>2
    <3>3. CASE s # NoSection
      <4> DEFINE e == EntryAt(lines, k)  new == AddEntry(b.ini, s, e)
      <4>1. u[k] = [b EXCEPT !.ini = new]
        BY <2>2, <2>6, <2>12, <3>3 DEF ReadLine, EntryAt
      <4>2. /\ GoodIni(new)
            /\ Writes(x, s, e) => IniValue(new, x, base) = Given(x, e)
            /\ ~Writes(x, s, e) => IniValue(new, x, base) = IniValue(b.ini, x, base)
        BY <2>1, EntryAdded
      <4> HIDE DEF new
      <4>3. u[k] = [section |-> s, ini |-> new]  BY <2>1, <4>1
      <4>4. u[k].ini = new  BY <4>3
      <4>5. k \in hit <=> Writes(x, s, e)
        <5>1. HeaderOf(lines, k) # 0 /\ SectionOf(lines, k) = s
          BY <2>5, <3>1, <3>3 DEF SectionOf
        <5> QED  BY <2>7, <2>12, <5>1
      <4> QED  BY <2>0, <2>8, <2>9, <3>1, <4>2, <4>3, <4>4, <4>5
    <3> QED  BY <3>2, <3>3
  <2> QED  BY <2>3, <2>10, <2>11, <2>12 DEF Line
<1> HIDE DEF P
<1>6. \A k \in 0..N : k \in P
  <2>1. \A k \in 1..N : k - 1 \in P => k \in P  BY <1>5
  <2> QED  BY <1>0, <1>4, <2>1, EveryStep
<1>7. ASSUME NEW k \in 1..N
      PROVE  (k \in hit => a[k] = v[k]) /\ (k \notin hit => a[k] = a[k - 1])
  <2>1. k - 1 \in 0..N  BY <1>0
  <2>2. k - 1 \in P  BY <1>6, <2>1
  <2> QED  BY <1>5, <2>2
<1>8. hit \in SUBSET (1..N)  BY <1>0 DEF LinesFor, Entries
<1>9. a[0] = base
  <2>1. u[0].ini = <<>>  BY <1>3
  <2>2. IniValue(<<>>, x, base) = base  BY DEF IniValue
  <2> QED  BY <1>0, <2>1, <2>2
<1>10. \A k \in hit : a[k] = v[k]  BY <1>7, <1>8
<1>11. \A k \in (1..N) \ hit : a[k] = a[k - 1]  BY <1>7
<1>12. N \in 0..N /\ a[N] = IniValue(u[N].ini, x, base)  BY <1>0
<1> HIDE DEF a, hit, v, N, start, current
<1>13. a[N] = Latest(hit, base, v)
  <2>1. WrittenBy(a, N, hit, v)  BY <1>0, <1>8, <1>10, <1>11 DEF WrittenBy
  <2> QED  BY <1>9, <2>1, LastWritten
<1>14. N \in P  BY <1>6, <1>12
<1>15. GoodIni(u[N].ini)  BY <1>14 DEF P
<1>16. Latest(hit, base, v) = FileValue(lines, x, base)  BY DEF FileValue, hit, v, N
<1> QED  BY <1>2, <1>12, <1>13, <1>15, <1>16

(* check_and_correct_settings touches no rule and none of Observed. *)
LEMMA Corrected ==
  ASSUME NEW l, NEW x, GoodLoaded(l), IsTarget(x)
  PROVE  GoodLoaded(CheckAndCorrect(l)) /\ Value(CheckAndCorrect(l), x) = Value(l, x)
<1> DEFINE right == Corrections(l)
           wrong == {key \in DOMAIN right : Setting(l, key) # right[key]}
           put == [id \in {<<"global", key>> : key \in wrong} |-> right[id[2]]]
           settings == put ++ l.settings
           m == CheckAndCorrect(l)
<1>1. CASE Fatal(l)
  <2>1. m = [l EXCEPT !.dead = TRUE]  BY <1>1 DEF CheckAndCorrect
  <2> HIDE DEF m
  <2>2. m = [settings |-> l.settings, rules |-> l.rules, dead |-> TRUE]
    BY <2>1 DEF GoodLoaded
  <2>3. m.settings = l.settings /\ m.rules = l.rules /\ m.dead = TRUE  BY <2>2
  <2>4. GoodLoaded(m)  BY <2>2, <2>3 DEF GoodLoaded
  <2> QED  BY <2>3, <2>4 DEF Value, Setting, m
<1>2. CASE ~Fatal(l)
  <2>1. m = [l EXCEPT !.settings = settings]  BY <1>2 DEF CheckAndCorrect
  <2>2. DOMAIN right = {"progress_bar_corner_radius", "width", "height", "idle_threshold"}
    BY DEF Corrections
  <2> HIDE DEF m, right
  <2>3. wrong \cap Observed = {}  BY <2>2 DEF Observed
  <2>4. DOMAIN put = {<<"global", key>> : key \in wrong}  OBVIOUS
  <2> HIDE DEF put, wrong
  <2>5. \A key \in Observed : <<"global", key>> \notin DOMAIN put  BY <2>3, <2>4
  <2>6. \A key \in Observed : /\ <<"global", key>> \in DOMAIN settings <=>
                                   <<"global", key>> \in DOMAIN l.settings
                              /\ <<"global", key>> \in DOMAIN l.settings =>
                                   settings[<<"global", key>>] = l.settings[<<"global", key>>]
    <3> TAKE key \in Observed
    <3> DEFINE id == <<"global", key>>
    <3>1. id \notin DOMAIN put  BY <2>5
    <3> HIDE DEF id
    <3>2. /\ DOMAIN settings = DOMAIN put \cup DOMAIN l.settings
          /\ \A i \in DOMAIN l.settings \ DOMAIN put : settings[i] = l.settings[i]
      BY Joined
    <3> HIDE DEF settings
    <3> QED  BY <3>1, <3>2 DEF id
  <2> HIDE DEF settings
  <2>7. m = [settings |-> settings, rules |-> l.rules, dead |-> l.dead]
    BY <2>1 DEF GoodLoaded
  <2>8. m.settings = settings /\ m.rules = l.rules /\ m.dead = l.dead  BY <2>7
  <2>9. GoodLoaded(m)  BY <2>7, <2>8 DEF GoodLoaded
  <2>10. \A key \in Observed : Setting(m, key) = Setting(l, key)
    BY <2>6, <2>8 DEF Setting
  <2>11. Value(m, x) = Value(l, x)  BY <2>8, <2>10 DEF Value, IsTarget
  <2> QED  BY <2>9, <2>11 DEF m
<1> QED  BY <1>1, <1>2

(* Whether it can be read or not *)
IsConf(file) == file = Invalid \/ IsFile(file)

(* process_conf_file; after a fatal file nothing is read. *)
LEMMA FileProcessed ==
  ASSUME NEW l, NEW file, NEW x, GoodLoaded(l), IsConf(file), IsTarget(x)
  PROVE  /\ GoodLoaded(ProcessConfFile(l, file))
         /\ l.dead => ProcessConfFile(l, file).dead
         /\ file = Invalid => Value(ProcessConfFile(l, file), x) = Value(l, x)
         /\ ~l.dead /\ file # Invalid =>
              Value(ProcessConfFile(l, file), x) = FileValue(file, x, Value(l, x))
<1>1. CASE l.dead \/ file = Invalid  BY <1>1 DEF ProcessConfFile
<1>2. CASE ~l.dead /\ file # Invalid
  <2> DEFINE ini == LoadIni(file)  s == SaveSettings(l, ini)
  <2>1. ProcessConfFile(l, file) = CheckAndCorrect(s)  BY <1>2 DEF ProcessConfFile
  <2>2. GoodIni(ini) /\ IniValue(ini, x, Value(l, x)) = FileValue(file, x, Value(l, x))
    BY <1>2, IniLoaded DEF IsConf
  <2> HIDE DEF ini
  <2>3. GoodLoaded(s) /\ Value(s, x) = FileValue(file, x, Value(l, x))  BY <2>2, IniSaved
  <2> HIDE DEF s
  <2>4. GoodLoaded(CheckAndCorrect(s)) /\ Value(CheckAndCorrect(s), x) = Value(s, x)
    BY <2>3, Corrected
  <2> QED  BY <1>2, <2>1, <2>3, <2>4
<1> QED  BY <1>1, <1>2

(* The files that write a target, and what each of them makes of it. *)
FilesFor(files, x) ==
  {f \in 1..Len(files) : files[f] # Invalid /\ LinesFor(files[f], x) # {}}

(* The last of the lines that write a target *)
LastLine(lines, x) == Max(LinesFor(lines, x))

(* It is one of them, with none behind it. *)
LEMMA LastLineIs ==
  ASSUME NEW lines, NEW x, IsFile(lines), LinesFor(lines, x) # {}
  PROVE  /\ LastLine(lines, x) \in LinesFor(lines, x)
         /\ \A p \in LinesFor(lines, x) : p <= LastLine(lines, x) /\ p \in 1..Len(lines)
<1>1. LinesFor(lines, x) \in SUBSET (1..Len(lines)) /\ Len(lines) \in Nat
  BY DEF IsFile, LinesFor, Entries
<1> QED  BY <1>1, MaxExists DEF LastLine

(* set_defaults: no rules, and the defaults for the settings *)
LEMMA DefaultsAreGood ==
  /\ GoodLoaded(SetDefaults)
  /\ \A x : IsTarget(x) =>
       Value(SetDefaults, x) = IF x.kind = "field" THEN Unset ELSE Default[x.key]
<1>1. SetDefaults.rules = <<>> /\ SetDefaults.settings = <<>>  BY DEF SetDefaults
<1>2. <<>> \in Seq({}) /\ Len(<<>>) = 0 /\ 1..0 = {} /\ DOMAIN <<>> = {}  OBVIOUS
<1>3. GoodRules(<<>>)  BY <1>2 DEF GoodRules
<1>4. SetDefaults = [settings |-> SetDefaults.settings, rules |-> SetDefaults.rules,
                     dead |-> SetDefaults.dead]
  BY DEF SetDefaults
<1>5. GoodLoaded(SetDefaults)  BY <1>1, <1>3, <1>4 DEF GoodLoaded
<1>6. \A s, f : RuleField(<<>>, s, f) = Unset
  <2>1. \A s : GetRule(<<>>, s) = 0  BY <1>2, RuleFound
  <2> QED  BY <2>1 DEF RuleField
<1>7. \A key : Setting(SetDefaults, key) = Default[key]  BY <1>1, <1>2 DEF Setting
<1> QED  BY <1>1, <1>5, <1>6, <1>7 DEF Value

(* What get_conf_files returns *)
AreConf(files) == IsList(files) /\ \A f \in 1..Len(files) : IsConf(files[f])

(* load_settings: unless it was fatal, what was written last, in the last  *)
(* of the files that wrote it, is the value of every target.               *)
LEMMA SettingsLoaded ==
  ASSUME NEW files, NEW x, AreConf(files), IsTarget(x)
  PROVE  /\ GoodLoaded(LoadSettings(files))
         /\ ~LoadSettings(files).dead =>
              Value(LoadSettings(files), x) =
                Latest(FilesFor(files, x), Value(SetDefaults, x),
                       [f \in 1..Len(files) |->
                          Given(x, EntryAt(files[f], LastLine(files[f], x)))])
<1> DEFINE N == Len(files)
<1>1. N \in Nat /\ DOMAIN files = 1..N /\ \A f \in 1..N : IsConf(files[f])
  BY DEF AreConf, IsList
<1>2. PICK u : /\ Runs(u, N, "files", Unset, SetDefaults, files)
               /\ u[N] = Unfolded("files", Unset, SetDefaults, files)
  BY <1>1, FoldRuns
<1>3. LoadSettings(files) = u[N]  BY <1>2, FoldsUnfold
<1>4. u[0] = SetDefaults /\ \A k \in 1..N : u[k] = ProcessConfFile(u[k - 1], files[k])
  BY <1>2 DEF Runs, OneStep
<1> DEFINE P == {k \in 0..N : GoodLoaded(u[k])}
<1>5. 0 \in P  BY <1>1, <1>4, DefaultsAreGood
<1>6. ASSUME NEW k \in 1..N, k - 1 \in P  PROVE k \in P
  <2>1. GoodLoaded(ProcessConfFile(u[k - 1], files[k]))  BY <1>1, <1>6, FileProcessed
  <2> QED  BY <1>4, <2>1
<1> HIDE DEF P
<1>7. \A k \in 0..N : k \in P  BY <1>1, <1>5, <1>6, EveryStep
<1>8. ASSUME NEW k \in 1..N
      PROVE  /\ GoodLoaded(u[k - 1])
             /\ u[k - 1].dead => u[k].dead
             /\ files[k] = Invalid => Value(u[k], x) = Value(u[k - 1], x)
             /\ ~u[k - 1].dead /\ files[k] # Invalid =>
                  Value(u[k], x) = FileValue(files[k], x, Value(u[k - 1], x))
  <2>1. k - 1 \in 0..N  BY <1>1
  <2>2. GoodLoaded(u[k - 1])  BY <1>7, <2>1 DEF P
  <2>3. IsConf(files[k]) /\ u[k] = ProcessConfFile(u[k - 1], files[k])  BY <1>1, <1>4
  <2> DEFINE b == u[k - 1]  file == files[k]
  <2>4. IsConf(file) /\ GoodLoaded(b)  BY <2>2, <2>3
  <2> HIDE DEF b, file
  <2>5. /\ b.dead => ProcessConfFile(b, file).dead
        /\ file = Invalid => Value(ProcessConfFile(b, file), x) = Value(b, x)
        /\ ~b.dead /\ file # Invalid =>
             Value(ProcessConfFile(b, file), x) = FileValue(file, x, Value(b, x))
    BY <2>4, FileProcessed
  <2> QED  BY <2>2, <2>3, <2>5 DEF b, file
<1>9. ASSUME ~u[N].dead, NEW k \in 1..N  PROVE ~u[k - 1].dead
  <2> DEFINE Q == {j \in 0..N : ~u[N - j].dead}
  <2>1. 0 \in Q  BY <1>1, <1>9
  <2>2. ASSUME NEW j \in 1..N, j - 1 \in Q  PROVE j \in Q
    <3>1. N - (j - 1) \in 1..N /\ (N - (j - 1)) - 1 = N - j  BY <1>1
    <3>2. u[(N - (j - 1)) - 1].dead => u[N - (j - 1)].dead  BY <1>8, <3>1
    <3> QED  BY <1>1, <2>2, <3>1, <3>2
  <2> HIDE DEF Q
  <2>3. N - (k - 1) \in 0..N /\ N - (N - (k - 1)) = k - 1  BY <1>1
  <2>4. N - (k - 1) \in Q  BY <1>1, <2>1, <2>2, <2>3, EveryStep
  <2> QED  BY <2>3, <2>4 DEF Q
<1> DEFINE a == [k \in 0..N |-> Value(u[k], x)]
           hit == FilesFor(files, x)
           v == [f \in 1..N |-> Given(x, EntryAt(files[f], LastLine(files[f], x)))]
           base == Value(SetDefaults, x)
<1>10. ASSUME ~u[N].dead, NEW k \in 1..N
       PROVE  (k \in hit => a[k] = v[k]) /\ (k \notin hit => a[k] = a[k - 1])
  <2> DEFINE b == Value(u[k - 1], x)  lines == files[k]
  <2>1. k \in 0..N /\ k - 1 \in 0..N  BY <1>1
  <2>2. a[k] = Value(u[k], x) /\ a[k - 1] = b  BY <2>1
  <2>3. CASE lines = Invalid  BY <1>8, <2>2, <2>3 DEF FilesFor
  <2>4. CASE lines # Invalid
    <3>1. Value(u[k], x) = FileValue(lines, x, b)  BY <1>8, <1>9, <1>10, <2>4
    <3>2. k \in hit <=> LinesFor(lines, x) # {}  BY <2>4 DEF FilesFor
    <3>3. IsFile(lines)  BY <1>1, <2>4 DEF IsConf
    <3>4. v[k] = Given(x, EntryAt(lines, LastLine(lines, x)))  OBVIOUS
    <3> HIDE DEF lines, b, hit, v, a
    <3>5. CASE LinesFor(lines, x) = {}
      BY <2>2, <3>1, <3>2, <3>5 DEF FileValue, Latest
    <3>6. CASE LinesFor(lines, x) # {}
      <4>1. LastLine(lines, x) \in 1..Len(lines)  BY <3>3, <3>6, LastLineIs
      <4> DEFINE w == [p \in 1..Len(lines) |-> Given(x, EntryAt(lines, p))]
      <4>2. w[LastLine(lines, x)] = Given(x, EntryAt(lines, LastLine(lines, x)))
        BY <4>1
      <4>3. FileValue(lines, x, b) = w[LastLine(lines, x)]
        BY <3>6 DEF FileValue, Latest, LastLine
      <4> QED  BY <2>2, <3>1, <3>2, <3>4, <3>6, <4>2, <4>3
    <3> QED  BY <3>5, <3>6
  <2> QED  BY <2>3, <2>4
<1>11. hit \in SUBSET (1..N)  BY DEF FilesFor
<1>12. a[0] = base /\ N \in 0..N  BY <1>1, <1>4
<1>13. ASSUME ~u[N].dead
       PROVE  Value(u[N], x) = Latest(hit, base, v)
  <2>1. \A k \in hit : a[k] = v[k]  BY <1>10, <1>11, <1>13
  <2>2. \A k \in (1..N) \ hit : a[k] = a[k - 1]  BY <1>10, <1>13
  <2>3. a[N] = Value(u[N], x)  BY <1>12
  <2>4. WrittenBy(a, N, hit, v)  BY <1>1, <1>11, <2>1, <2>2 DEF WrittenBy
  <2> HIDE DEF a, hit, v, N, base
  <2>5. a[N] = Latest(hit, base, v)
    BY <1>12, <2>4, LastWritten
  <2> QED  BY <2>3, <2>5
<1>14. GoodLoaded(u[N])  BY <1>7, <1>12 DEF P
<1> QED  BY <1>3, <1>13, <1>14

(* The files, named or found, are files. *)
LEMMA FilesRead ==
  ASSUME NEW d \in Disks, NEW paths \in Seq(DOMAIN d.files)
  PROVE  AreConf(Files(d, paths))
<1>1. /\ \A path \in DOMAIN d.files : d.files[path] \in File
      /\ d.dirs \in Seq([dunstrc : File, dropIns : Seq(File)])
  BY ServiceAssumption
<1>2. \A file \in File : IsConf(file)  BY DEF File, IsConf, IsFile
<1>3. Files(d, paths) \in Seq(File)
  <2>1. CASE paths # <<>>
    <3>1. Files(d, paths) = [i \in DOMAIN paths |-> d.files[paths[i]]]  BY <2>1 DEF Files
    <3> QED  BY <1>1, <3>1
  <2>2. CASE paths = <<>>
    <3> DEFINE dirs == d.dirs
               I == {i \in 1..Len(dirs) : dirs[i].dunstrc # Invalid}
               at == SelectInSeq(dirs, LAMBDA dir : dir.dunstrc # Invalid)
    <3>1. at = IF I # {} THEN Min(I) ELSE 0  BY Zenon DEF SelectInSeq
    <3>2. Files(d, paths) = ConfFiles(dirs)  BY <2>2 DEF Files
    <3>3. ConfFiles(dirs) = IF at = 0 THEN <<>> ELSE <<dirs[at].dunstrc>> \o dirs[at].dropIns
      BY Zenon DEF ConfFiles
    <3> HIDE DEF at
    <3>4. CASE I = {}
      <4>1. at = 0  BY <3>1, <3>4
      <4>2. Files(d, paths) = <<>>  BY <3>2, <3>3, <4>1
      <4> QED  BY <4>2
    <3>5. CASE I # {}
      <4>1. I \in SUBSET Nat  OBVIOUS
      <4>2. Min(I) \in I  BY <3>5, <4>1, MinExists
      <4>3. at \in 1..Len(dirs) /\ at # 0  BY <3>1, <3>5, <4>2
      <4> DEFINE Dir == [dunstrc : File, dropIns : Seq(File)]
      <4>4. dirs \in Seq(Dir)  BY <1>1
      <4> HIDE DEF dirs, Dir
      <4>5. dirs[at] \in Dir  BY <4>3, <4>4
      <4>6. dirs[at].dunstrc \in File /\ dirs[at].dropIns \in Seq(File)  BY <4>5 DEF Dir
      <4>7. <<dirs[at].dunstrc>> \in Seq(File)  BY <4>6
      <4>8. <<dirs[at].dunstrc>> \o dirs[at].dropIns \in Seq(File)  BY <4>6, <4>7
      <4> QED  BY <3>2, <3>3, <4>3, <4>8
    <3> QED  BY <3>4, <3>5
  <2> QED  BY <2>1, <2>2
<1> QED  BY <1>2, <1>3 DEF AreConf, IsList

(* The value of every target is the one that was written last. *)
AsWritten(l, files) ==
  \A x : IsTarget(x) =>
    Value(l, x) = Latest(FilesFor(files, x), Value(SetDefaults, x),
                         [f \in 1..Len(files) |-> Given(x, EntryAt(files[f], LastLine(files[f], x)))])

(* So whatever is read is as written. *)
LEMMA ReadAsWritten ==
  ASSUME NEW d \in Disks, NEW paths \in Seq(DOMAIN d.files)
  PROVE  /\ AreConf(Files(d, paths))
         /\ GoodLoaded(LoadSettings(Files(d, paths)))
         /\ ~LoadSettings(Files(d, paths)).dead =>
              AsWritten(LoadSettings(Files(d, paths)), Files(d, paths))
<1> DEFINE files == Files(d, paths)
<1>1. AreConf(files)  BY FilesRead
<1> HIDE DEF files
<1>2. \A x : IsTarget(x) => GoodLoaded(LoadSettings(files))  BY <1>1, SettingsLoaded
<1>3. IsTarget([kind |-> "setting", section |-> "global", key |-> "sort"])
  BY DEF IsTarget, Observed
<1>4. GoodLoaded(LoadSettings(files))  BY <1>2, <1>3
<1>5. ~LoadSettings(files).dead => AsWritten(LoadSettings(files), files)
  BY <1>1, SettingsLoaded DEF AsWritten
<1> QED  BY <1>1, <1>4, <1>5 DEF files

(* A rule that is switched on or off sets what it did. *)
LEMMA RuleSwitched ==
  ASSUME NEW l, NEW name, NEW on, GoodLoaded(l), GetRule(l.rules, name) # 0
  PROVE  LET m == [l EXCEPT !.rules[GetRule(l.rules, name)].enabled = on]
         IN GoodLoaded(m) /\ m.dead = l.dead /\ \A x : Value(m, x) = Value(l, x)
<1> DEFINE i == GetRule(l.rules, name)
           r == l.rules[i]
           t == [r EXCEPT !.enabled = on]
           rules == [l.rules EXCEPT ![i] = t]
           m == [l EXCEPT !.rules = rules]
<1>1. PICK S : l.rules \in Seq(S)  BY DEF GoodLoaded, GoodRules
<1>2. i \in 1..Len(l.rules)
  <2>1. PICK j \in 1..Len(l.rules) : l.rules[j].name = name  BY <1>1, RuleFound
  <2> QED  BY <1>1, <2>1, RuleFound
<1>3. IsRule(r)  BY <1>2 DEF GoodLoaded, GoodRules
<1> HIDE DEF r, i
<1>4. t = [name |-> r.name, enabled |-> on, match |-> r.match, set |-> r.set,
           script |-> r.script]
  BY <1>3 DEF IsRule
<1> HIDE DEF t
<1>5. IsRule(t) /\ t.name = r.name /\ t.set = r.set
  <2>1. t.name = r.name /\ t.set = r.set  BY <1>4
  <2>2. t = [name |-> t.name, enabled |-> t.enabled, match |-> t.match, set |-> t.set,
             script |-> t.script]
    BY <1>4
  <2> QED  BY <1>3, <2>1, <2>2 DEF IsRule
<1>6. /\ rules \in Seq(S \cup {t}) /\ Len(rules) = Len(l.rules)
      /\ \A j \in 1..Len(l.rules) : rules[j] = IF j = i THEN t ELSE l.rules[j]
  BY <1>1, <1>2
<1> HIDE DEF rules
<1>7. \A j \in 1..Len(l.rules) : /\ IsRule(rules[j]) /\ rules[j].name = l.rules[j].name
                                 /\ rules[j].set = l.rules[j].set
  BY <1>2, <1>5, <1>6 DEF GoodLoaded, GoodRules, r
<1>8. GoodRules(rules)
  <2>1. \A j \in 1..Len(rules) : IsRule(rules[j]) /\ rules[j].name \notin DeprecatedSections
    BY <1>6, <1>7 DEF GoodLoaded, GoodRules
  <2>2. \A j, k \in 1..Len(rules) : rules[j].name = rules[k].name => j = k
    BY <1>6, <1>7 DEF GoodLoaded, GoodRules
  <2>3. \E T : rules \in Seq(T)  BY <1>6
  <2> QED  BY <2>1, <2>2, <2>3 DEF GoodRules
<1>9. m = [settings |-> l.settings, rules |-> rules, dead |-> l.dead]  BY DEF GoodLoaded
<1>10. m.settings = l.settings /\ m.rules = rules /\ m.dead = l.dead  BY <1>9
<1>11. GoodLoaded(m)  BY <1>8, <1>9, <1>10 DEF GoodLoaded
<1>12. ASSUME NEW s, NEW f  PROVE RuleField(rules, s, f) = RuleField(l.rules, s, f)
  <2>0. GoodRules(l.rules)  BY DEF GoodLoaded
  <2>1. CASE \E j \in 1..Len(l.rules) : l.rules[j].name = s
    <3>1. PICK j \in 1..Len(l.rules) : l.rules[j].name = s  BY <2>1
    <3>2. j \in 1..Len(rules) /\ rules[j].name = s /\ rules[j].set = l.rules[j].set
      BY <1>6, <1>7, <3>1
    <3>3. GetRule(l.rules, s) = j /\ GetRule(rules, s) = j
      BY <1>8, <2>0, <3>1, <3>2, RuleOfSection
    <3> QED  BY <3>2, <3>3 DEF RuleField
  <2>2. CASE \A j \in 1..Len(l.rules) : l.rules[j].name # s
    <3>1. \A j \in 1..Len(rules) : rules[j].name # s  BY <1>6, <1>7, <2>2
    <3>2. GetRule(l.rules, s) = 0 /\ GetRule(rules, s) = 0
      BY <1>1, <1>6, <2>2, <3>1, RuleFound
    <3> QED  BY <3>2 DEF RuleField
  <2> QED  BY <2>1, <2>2
<1>13. \A x : Value(m, x) = Value(l, x)  BY <1>10, <1>12 DEF Value, Setting
<1> QED  BY <1>10, <1>11, <1>13 DEF rules, t, r, i

---------------------------------------------------------------------------
(* The configuration of the service.                                       *)

(* Where a target is written, in all the files *)
PlacesOf(x) ==
  {p \in Places(x.section) : Writes(x, x.section, EntryAt(source[p[1]], p[2]))}

(* Those places are the lines for it in the files for it, *)
LEMMA PlaceOf ==
  ASSUME AreConf(source), NEW x
  PROVE  /\ \A p \in PlacesOf(x) : /\ p = <<p[1], p[2]>> /\ p[1] \in FilesFor(source, x)
                                   /\ p[2] \in LinesFor(source[p[1]], x)
         /\ \A f \in FilesFor(source, x) : \A i \in LinesFor(source[f], x) :
              <<f, i>> \in PlacesOf(x)
<1>0. DOMAIN source = 1..Len(source)  BY DEF AreConf, IsList
<1>1. ASSUME NEW p \in PlacesOf(x)
      PROVE  /\ p = <<p[1], p[2]>> /\ p[1] \in FilesFor(source, x)
             /\ p[2] \in LinesFor(source[p[1]], x)
  <2>1. /\ \E f \in {g \in DOMAIN source : source[g] # Invalid} : p \in {f} \X Entries(source[f])
        /\ SectionOf(source[p[1]], p[2]) = x.section
        /\ Writes(x, x.section, EntryAt(source[p[1]], p[2]))
    BY DEF PlacesOf, Places
  <2>2. PICK f \in DOMAIN source : source[f] # Invalid /\ p \in {f} \X Entries(source[f])
    BY <2>1
  <2>3. p = <<p[1], p[2]>> /\ p[1] = f /\ p[2] \in Entries(source[f])  BY <2>2
  <2>4. p[2] \in LinesFor(source[p[1]], x)  BY <2>1, <2>3 DEF LinesFor
  <2> QED  BY <1>0, <2>2, <2>3, <2>4 DEF FilesFor
<1>2. ASSUME NEW f \in FilesFor(source, x), NEW i \in LinesFor(source[f], x)
      PROVE  <<f, i>> \in PlacesOf(x)
  <2> DEFINE p == <<f, i>>
  <2>1. p[1] = f /\ p[2] = i  OBVIOUS
  <2>2. f \in {g \in DOMAIN source : source[g] # Invalid}  BY <1>0 DEF FilesFor
  <2>3. i \in Entries(source[f]) /\ Writes(x, SectionOf(source[f], i), EntryAt(source[f], i))
    BY DEF LinesFor
  <2>4. SectionOf(source[f], i) = x.section  BY <2>3 DEF Writes
  <2>5. p \in {f} \X Entries(source[f])  BY <2>3
  <2> HIDE DEF p
  <2>6. p \in Places(x.section)  BY <2>1, <2>2, <2>4, <2>5 DEF Places
  <2> QED  BY <2>1, <2>3, <2>4, <2>6 DEF PlacesOf, p
<1> QED  BY <1>1, <1>2

(* and the last place of all is the last line of the last file. *)
LEMMA LastPlace ==
  ASSUME AreConf(source), NEW x
  PROVE  /\ PlacesOf(x) = {} <=> FilesFor(source, x) = {}
         /\ FilesFor(source, x) # {} =>
              /\ LastOf(PlacesOf(x)) = << Max(FilesFor(source, x)),
                                          LastLine(source[Max(FilesFor(source, x))], x) >>
              /\ Max(FilesFor(source, x)) \in 1..Len(source)
<1> DEFINE F == FilesFor(source, x)  P == PlacesOf(x)  m == Max(F)  k == LastLine(source[m], x)
<1>1. F \in SUBSET (1..Len(source)) /\ Len(source) \in Nat
  BY DEF FilesFor, AreConf, IsList
<1>2. P = {} <=> F = {}
  <2>1. ASSUME NEW f \in F PROVE P # {}
    <3>1. PICK i : i \in LinesFor(source[f], x)  BY DEF FilesFor
    <3> QED  BY <3>1, PlaceOf
  <2> QED  BY <2>1, PlaceOf
<1>3. ASSUME F # {}
      PROVE  LastOf(P) = <<m, k>> /\ m \in 1..Len(source)
  <2>1. m \in F /\ \A f \in F : f <= m  BY <1>1, <1>3, MaxExists
  <2>2. IsFile(source[m]) /\ LinesFor(source[m], x) # {}
    BY <1>1, <2>1 DEF FilesFor, AreConf, IsConf
  <2>3. /\ k \in LinesFor(source[m], x)
        /\ \A i \in LinesFor(source[m], x) : i <= k /\ i \in 1..Len(source[m])
    BY <2>2, LastLineIs
  <2>4. Len(source[m]) \in Nat  BY <2>2 DEF IsFile
  <2> DEFINE last == <<m, k>>
  <2>5. last \in P  BY <2>1, <2>3, PlaceOf
  <2>6. \A q \in P : q = <<q[1], q[2]>> /\ q[1] \in F /\ q[2] \in LinesFor(source[q[1]], x)
    BY PlaceOf
  <2>7. last[1] = m /\ last[2] = k  OBVIOUS
  <2> HIDE DEF P, F, m, k, last
  <2>8. \A q \in P \ {last} : Before(q, last)
    <3> SUFFICES ASSUME NEW q \in P, q # last PROVE Before(q, last)  OBVIOUS
    <3>1. q = <<q[1], q[2]>> /\ q[1] \in F /\ q[1] <= m  BY <2>1, <2>6
    <3>2. q[1] \in Nat /\ m \in Nat  BY <1>1, <2>1, <3>1
    <3>3. CASE q[1] # m  BY <2>7, <3>1, <3>2, <3>3 DEF Before
    <3>4. CASE q[1] = m
      <4>1. q[2] \in LinesFor(source[m], x)  BY <2>6, <3>4
      <4>2. q[2] <= k /\ q[2] \in 1..Len(source[m]) /\ k \in 1..Len(source[m])
        BY <2>3, <4>1
      <4>3. q[2] # k  BY <3>1, <3>4 DEF last
      <4>4. q[2] < k  BY <2>4, <4>2, <4>3
      <4> QED  BY <2>7, <3>4, <4>4 DEF Before
    <3> QED  BY <3>3, <3>4
  <2>9. ASSUME NEW p \in P, \A q \in P \ {p} : Before(q, p)  PROVE p = last
    <3> SUFFICES ASSUME p # last PROVE FALSE  OBVIOUS
    <3>1. Before(p, last) /\ Before(last, p)  BY <2>5, <2>8, <2>9
    <3>2. p[1] \in 1..Len(source) /\ m \in 1..Len(source)  BY <1>1, <2>1, <2>6
    <3>3. p[1] \in Nat /\ m \in Nat  BY <1>1, <3>2
    <3>4. p[1] = m /\ p[2] < k /\ k < p[2]  BY <2>7, <3>1, <3>3 DEF Before
    <3>5. p[2] \in 1..Len(source[m]) /\ k \in 1..Len(source[m])  BY <2>3, <2>6, <3>4
    <3> QED  BY <2>4, <3>4, <3>5
  <2>10. LastOf(P) = last  BY <2>5, <2>8, <2>9 DEF LastOf
  <2>11. m \in 1..Len(source)  BY <1>1, <2>1
  <2> QED  BY <2>10, <2>11 DEF last
<1> QED  BY <1>2, <1>3

(* A target has the value at the last place, or its default. *)
LEMMA WrittenLast ==
  ASSUME AreConf(source), AsWritten(loaded, source), NEW x, IsTarget(x)
  PROVE  Value(loaded, x) =
           IF PlacesOf(x) = {} THEN IF x.kind = "field" THEN Unset ELSE Default[x.key]
           ELSE Given(x, EntryAt(source[LastOf(PlacesOf(x))[1]], LastOf(PlacesOf(x))[2]))
<1> DEFINE F == FilesFor(source, x)  m == Max(F)
           v == [f \in 1..Len(source) |-> Given(x, EntryAt(source[f], LastLine(source[f], x)))]
<1>1. Value(loaded, x) = Latest(F, Value(SetDefaults, x), v)  BY DEF AsWritten
<1>2. CASE F = {}
  <2>1. PlacesOf(x) = {}  BY <1>2, LastPlace
  <2>2. Value(loaded, x) = Value(SetDefaults, x)  BY <1>1, <1>2 DEF Latest
  <2> QED  BY <2>1, <2>2, DefaultsAreGood
<1>3. CASE F # {}
  <2> DEFINE last == LastOf(PlacesOf(x))
  <2>1. last = <<m, LastLine(source[m], x)>> /\ m \in 1..Len(source) /\ PlacesOf(x) # {}
    BY <1>3, LastPlace
  <2>2. Value(loaded, x) = v[m]  BY <1>1, <1>3 DEF Latest
  <2>3. v[m] = Given(x, EntryAt(source[m], LastLine(source[m], x)))  BY <2>1
  <2>4. last[1] = m /\ last[2] = LastLine(source[m], x)  BY <2>1
  <2> QED  BY <2>1, <2>2, <2>3, <2>4
<1> QED  BY <1>2, <1>3

(* Of the fields of the rules this is what RulesAreAsWritten says, *)
LEMMA WrittenInRules ==
  ASSUME AreConf(source), GoodLoaded(loaded), AsWritten(loaded, source)
  PROVE  RulesAreAsWritten
<1>1. GoodRules(loaded.rules)  BY DEF GoodLoaded
<1>2. PICK S : loaded.rules \in Seq(S)  BY <1>1 DEF GoodRules
<1>0. DOMAIN loaded.rules = 1..Len(loaded.rules)  BY <1>2
<1> SUFFICES ASSUME NEW i \in 1..Len(loaded.rules)
             PROVE  /\ GetRule(loaded.rules, loaded.rules[i].name) = i
                    /\ \A f \in Field :
                         loaded.rules[i].set[f] =
                           IF Sets(loaded.rules[i].name, f) = {} THEN Unset
                           ELSE RuleValue(At(LastOf(Sets(loaded.rules[i].name, f))).name,
                                          At(LastOf(Sets(loaded.rules[i].name, f))).value)
  BY <1>0 DEF RulesAreAsWritten
<1> DEFINE s == loaded.rules[i].name
<1>3. GetRule(loaded.rules, s) = i /\ i # 0  BY <1>1, <1>2, RuleOfSection
<1>4. s \notin DeprecatedSections  BY <1>1 DEF GoodRules
<1>5. ASSUME NEW f \in Field
      PROVE  loaded.rules[i].set[f] =
               IF Sets(s, f) = {} THEN Unset
               ELSE RuleValue(At(LastOf(Sets(s, f))).name, At(LastOf(Sets(s, f))).value)
  <2> DEFINE x == [kind |-> "field", section |-> s, key |-> f]
  <2>1. x.kind = "field" /\ x.section = s /\ x.key = f  OBVIOUS
  <2> HIDE DEF x, s
  <2>2. IsTarget(x)  BY <1>4, <2>1 DEF IsTarget
  <2>3. PlacesOf(x) = Sets(s, f)
    <3>1. \A p : /\ At(p).name = EntryAt(source[p[1]], p[2]).key
                  /\ At(p).value = EntryAt(source[p[1]], p[2]).value
      BY DEF At, EntryAt
    <3>2. \A p : Writes(x, s, EntryAt(source[p[1]], p[2])) <=>
                   /\ SettingKind(At(p).name, s) = "rule"
                   /\ At(p).name \notin DOMAIN FilterType \cup {"enabled", "script"}
                   /\ FieldOf(At(p).name) = f
                   /\ RuleValue(At(p).name, At(p).value) # Invalid
      BY <2>1, <3>1 DEF Writes, Changes
    <3> QED  BY <2>1, <3>2 DEF PlacesOf, Sets
  <2>4. Value(loaded, x) = loaded.rules[i].set[f]
    BY <1>3, <2>1 DEF Value, RuleField, s
  <2>5. \A p : Given(x, EntryAt(source[p[1]], p[2])) = RuleValue(At(p).name, At(p).value)
    BY <2>1 DEF Given, EntryAt, At
  <2> QED  BY <2>1, <2>2, <2>3, <2>4, <2>5, WrittenLast
<1> QED  BY <1>3, <1>5

(* and of the settings SettingsAreAsWritten. *)
LEMMA WrittenInSettings ==
  ASSUME AreConf(source), AsWritten(loaded, source)
  PROVE  SettingsAreAsWritten
<1> SUFFICES ASSUME NEW key \in Observed
             PROVE  Setting(loaded, key) =
                      IF Assigns("global", key) = {} THEN Default[key]
                      ELSE Parse(key, PlainType[key], At(LastOf(Assigns("global", key))).value)
  BY DEF SettingsAreAsWritten
<1> DEFINE x == [kind |-> "setting", section |-> "global", key |-> key]
<1>1. x.kind = "setting" /\ x.section = "global" /\ x.key = key  OBVIOUS
<1> HIDE DEF x
<1>2. IsTarget(x)  BY <1>1 DEF IsTarget
<1>3. PlacesOf(x) = Assigns("global", key)
  <2>1. \A p : /\ At(p).name = EntryAt(source[p[1]], p[2]).key
                  /\ At(p).value = EntryAt(source[p[1]], p[2]).value
    BY DEF At, EntryAt
  <2>2. \A p : Writes(x, "global", EntryAt(source[p[1]], p[2])) <=>
                 /\ At(p).name = key /\ SettingKind(key, "global") = "plain"
                 /\ Parse(key, PlainType[key], At(p).value) # Invalid
    BY <1>1, <2>1 DEF Writes
  <2> QED  BY <1>1, <2>2 DEF PlacesOf, Assigns
<1>4. Value(loaded, x) = Setting(loaded, key)  BY <1>1 DEF Value
<1>5. \A p : Given(x, EntryAt(source[p[1]], p[2])) = Parse(key, PlainType[key], At(p).value)
  BY <1>1 DEF Given, EntryAt, At
<1> QED  BY <1>1, <1>2, <1>3, <1>4, <1>5, WrittenLast

(* What dunst has read is what is in the files it was read from. *)
ReadInv ==
  /\ disk \in Disks
  /\ config_paths \in {ConfigPaths(args) : args \in Arguments}
  /\ AreConf(source) /\ GoodLoaded(loaded)
  /\ ~loaded.dead => AsWritten(loaded, source)

(* Before anything is read *)
LEMMA StartsRead == ServiceInit => ReadInv
<1> SUFFICES ASSUME ServiceInit PROVE ReadInv  OBVIOUS
<1>1. loaded = SetDefaults /\ source = <<>>  BY DEF ServiceInit
<1>2. <<>> = << >> /\ Len(<<>>) = 0 /\ 1..0 = {} /\ DOMAIN <<>> = {} /\ 0 \in Nat  OBVIOUS
<1>3. AreConf(source)  BY <1>1, <1>2 DEF AreConf, IsList
<1>4. \A x : FilesFor(source, x) = {}  BY <1>1, <1>2 DEF FilesFor
<1>5. AsWritten(loaded, source)  BY <1>1, <1>4 DEF AsWritten, Latest
<1> QED  BY <1>1, <1>3, <1>5, DefaultsAreGood DEF ReadInv, ServiceInit

(* A start or a reload reads files, those of the command line when none    *)
(* are asked for.                                                          *)
LEMMA LoadReads ==
  ASSUME NEW paths, Load(paths), ReadInv, paths \in Paths \cup {config_paths}, disk' = disk,
         config_paths' = config_paths
  PROVE  ReadInv'
<1>1. paths \in Seq(DOMAIN disk.files)
  <2>1. Paths \cup {ConfigPaths(args) : args \in Arguments} \subseteq Seq(DOMAIN disk.files)
    BY ServiceAssumption DEF ReadInv
  <2> QED  BY <2>1 DEF ReadInv
<1>2. disk \in Disks  BY DEF ReadInv
<1>3. loaded' = LoadSettings(Files(disk, paths)) /\ source' = Files(disk, paths)  BY DEF Load
<1>4. /\ AreConf(Files(disk, paths))
      /\ GoodLoaded(LoadSettings(Files(disk, paths)))
      /\ ~LoadSettings(Files(disk, paths)).dead =>
           AsWritten(LoadSettings(Files(disk, paths)), Files(disk, paths))
  BY <1>1, <1>2, ReadAsWritten
<1> QED  BY <1>3, <1>4 DEF ReadInv

(* Clients switch rules on and off, which is not written anywhere; no      *)
(* other step but a reload and the end changes what was read.              *)
LEMMA StepsRead == ReadInv /\ [ServiceNext]_serviceVars => ReadInv'
<1> SUFFICES ASSUME ReadInv, [ServiceNext]_serviceVars PROVE ReadInv'  OBVIOUS
<1>1. CASE Start
  <2>1. Load(config_paths) /\ disk' = disk /\ config_paths' = config_paths  BY <1>1 DEF Start
  <2> QED  BY <2>1, LoadReads
<1>2. CASE \E paths \in Paths : ConfigReload(paths)
  <2>1. PICK paths \in Paths : ConfigReload(paths)  BY <1>2
  <2> DEFINE read == IF paths # <<>> THEN paths ELSE config_paths
  <2>2. Load(read) /\ disk' = disk /\ config_paths' = config_paths  BY <2>1 DEF ConfigReload
  <2>3. read \in Paths \cup {config_paths}  OBVIOUS
  <2> HIDE DEF read
  <2> QED  BY <2>2, <2>3, LoadReads
<1>3. CASE Quit
  <2>1. loaded' = SetDefaults /\ source' = <<>> /\ disk' = disk /\ config_paths' = config_paths
    BY <1>3 DEF Quit
  <2>2. Len(<<>>) = 0 /\ 1..0 = {} /\ DOMAIN <<>> = {} /\ 0 \in Nat  OBVIOUS
  <2>3. AreConf(<<>>)  BY <2>2 DEF AreConf, IsList
  <2>4. \A x : FilesFor(<<>>, x) = {}  BY <2>2 DEF FilesFor
  <2>5. AsWritten(SetDefaults, <<>>)  BY <2>4 DEF AsWritten, Latest
  <2> QED  BY <2>1, <2>3, <2>5, DefaultsAreGood DEF ReadInv
<1>4. CASE \E name \in Switched, state \in 0..2 : RuleEnable(name, state)
  <2>1. PICK name \in Switched, state \in 0..2 : RuleEnable(name, state)  BY <1>4
  <2> DEFINE i == GetRule(loaded.rules, name)
             on == IF state = 2 THEN ~loaded.rules[i].enabled ELSE state = 1
             m == [loaded EXCEPT !.rules[i].enabled = on]
  <2>2. /\ i # 0 /\ loaded' = m /\ source' = source /\ disk' = disk
        /\ config_paths' = config_paths
    BY <2>1 DEF RuleEnable
  <2> HIDE DEF on
  <2>3. GoodLoaded(m) /\ m.dead = loaded.dead /\ \A x : Value(m, x) = Value(loaded, x)
    BY <2>2, RuleSwitched DEF ReadInv
  <2> HIDE DEF m
  <2>4. ~m.dead => AsWritten(m, source)  BY <2>3 DEF ReadInv, AsWritten
  <2> QED  BY <2>2, <2>3, <2>4 DEF ReadInv
<1>5. CASE EditConfig  BY <1>5 DEF EditConfig, ReadInv
<1>6. CASE \/ BusAcquired \/ NameAcquired \/ NameLost \/ PauseSignal \/ PropertiesSet
           \/ \E msg \in Messages : Notify(msg)
           \/ Forget \/ UNCHANGED serviceVars
  <2>1. /\ loaded' = loaded /\ source' = source /\ disk' = disk
        /\ config_paths' = config_paths
    BY <1>6 DEF BusAcquired, NameAcquired, NameLost, PauseSignal, PropertiesSet, Notify, Forget,
       serviceVars
  <2> QED  BY <2>1 DEF ReadInv
<1> QED  BY <1>1, <1>2, <1>3, <1>4, <1>5, <1>6 DEF ServiceNext

(* ConfigurationIsAsWritten: the steps of set_defaults, load_ini_file,     *)
(* save_settings, set_rule and check_and_correct_settings, for any files,  *)
(* leave each section with one rule, and every field of it and the         *)
(* settings with the value written last that could be read.                *)
THEOREM ConfigurationStays == ServiceSpec => []ConfigurationIsAsWritten
<1>1. ReadInv => ConfigurationIsAsWritten
  BY WrittenInRules, WrittenInSettings DEF ReadInv, ConfigurationIsAsWritten
<1> QED  BY <1>1, StartsRead, StepsRead, PTL DEF ServiceSpec

---------------------------------------------------------------------------
(* The notifications held.                                                 *)

(* notification_create and the defaults of notification_init: all that can *)
(* be put back has a value.                                                *)
LEMMA SentIsSent ==
  ASSUME NEW msg, NEW l
  PROVE  IsSent(Sent(msg, Defaults(l))) /\ Kept(Sent(msg, Defaults(l)), Sent(msg, Defaults(l)))
<1> DEFINE settings == Defaults(l)
           hints == msg.hints
           urgency == Urgency(hints)
           icon == FirstOf(hints, IconPathHints, msg.app_icon)
           tag == FirstOf(hints, StackTagHints, Unset)
           raw == FirstOf(hints, RawIconHints, Unset) # Unset
           chosen ==
             [f \in Field |->
               CASE f = "urgency"      -> urgency
                 [] f = "category"     -> IF hints["category"] = Unset THEN "" ELSE hints["category"]
                 [] f = "transient"    -> Truth(hints["transient"])
                 [] f = "timeout"      -> settings.timeouts[urgency]
                 [] f = "dbus_timeout" -> IF msg.timeout < 0 THEN Unset ELSE msg.timeout
                 [] f = "stack_tag"    -> tag
                 [] f = "iconname"     -> icon
                 [] f = "default_icon" -> Unset
                 [] f = "fg"           -> settings.colors[urgency]
                 [] OTHER              -> settings.format]
           sent == Sent(msg, settings)
<1>1. settings.format = "default format"  BY DEF Defaults
<1>2. 0 # Unset /\ 1 # Unset /\ 2 # Unset /\ "" # Unset /\ "default format" # Unset
  <2>1. 0 \in Nat /\ 1 \in Nat /\ 2 \in Nat  OBVIOUS
  <2> QED  BY <2>1, UnsetAssumption
<1>3. urgency # Unset  BY <1>2 DEF Urgency
<1>4. Truth(hints["transient"]) # Unset  BY <1>2 DEF Truth
<1> HIDE DEF settings, urgency, icon, tag, raw
<1>5. sent = [ field |-> chosen, appname |-> msg.appname, scripts |-> <<>>, raw |-> raw,
               progress |-> Progress(hints), original |-> NoOriginal ]
  BY DEF Sent, urgency, icon, tag, raw
<1>6. ASSUME NEW f \in Restorable PROVE chosen[f] # Unset
  <2>1. f \in Field  BY DEF Restorable, Field
  <2>2. CASE f = "urgency"  BY <1>3, <2>1, <2>2
  <2>3. CASE f = "category"  BY <1>2, <2>1, <2>3
  <2>4. CASE f = "transient"  BY <1>4, <2>1, <2>4
  <2>5. CASE f = "plain"  BY <1>1, <1>2, <2>1, <2>5
  <2> QED  BY <2>2, <2>3, <2>4, <2>5 DEF Restorable
<1>7. chosen = [f \in Field |-> chosen[f]]  OBVIOUS
<1> HIDE DEF chosen, sent
<1>8. sent.field = chosen /\ sent.original = NoOriginal  BY <1>5
<1>9. IsNote(sent)
  <2>1. sent = [ field |-> sent.field, appname |-> sent.appname, scripts |-> sent.scripts,
                 raw |-> sent.raw, progress |-> sent.progress, original |-> sent.original ]
    BY <1>5
  <2> QED  BY <1>7, <1>8, <2>1 DEF IsNote
<1>10. IsSent(sent)  BY <1>6, <1>8, <1>9 DEF IsSent
<1>11. Kept(sent, sent)  BY <1>8, <1>9 DEF Kept
<1> QED  BY <1>10, <1>11 DEF sent, settings

(* A change of a field that is not to be put back *)
LEMMA ElsewhereKept ==
  ASSUME NEW n, NEW sent, NEW f \in Field \ Restorable, NEW v, Kept(n, sent)
  PROVE  /\ Kept([n EXCEPT !.field[f] = v], sent)
         /\ \A g \in Field : [n EXCEPT !.field[f] = v].field[g] = IF g = f THEN v ELSE n.field[g]
<1> DEFINE field == [n.field EXCEPT ![f] = v]
           m == [n EXCEPT !.field = field]
<1>1. IsNote(n)  BY DEF Kept
<1>2. field = [g \in Field |-> IF g = f THEN v ELSE n.field[g]]  BY <1>1 DEF IsNote
<1>3. field = [g \in Field |-> field[g]]  BY <1>2
<1>4. \A g \in Field : field[g] = IF g = f THEN v ELSE n.field[g]  BY <1>2
<1> HIDE DEF field
<1>5. m = [ field |-> field, appname |-> n.appname, scripts |-> n.scripts, raw |-> n.raw,
            progress |-> n.progress, original |-> n.original ]
  BY <1>1 DEF IsNote
<1> HIDE DEF m
<1>6. m.field = field /\ m.appname = n.appname /\ m.original = n.original  BY <1>5
<1>7. IsNote(m)
  <2>1. m = [ field |-> m.field, appname |-> m.appname, scripts |-> m.scripts, raw |-> m.raw,
              progress |-> m.progress, original |-> m.original ]
    BY <1>5
  <2> QED  BY <1>3, <1>6, <2>1 DEF IsNote
<1>8. \A g \in Restorable : m.field[g] = n.field[g]
  BY <1>4, <1>6 DEF Restorable, Field
<1>9. Kept(m, sent)  BY <1>6, <1>7, <1>8 DEF Kept
<1> QED  BY <1>4, <1>6, <1>9 DEF m, field

(* The colours of the client keep what they replace, and nothing else. *)
LEMMA ColourKept ==
  ASSUME NEW n, NEW sent, NEW hints, Kept(n, sent)
  PROVE  /\ Kept(WithColour(n, hints), sent)
         /\ WithColour(n, hints).field["timeout"] = n.field["timeout"]
<1>1. CASE hints["fgcolor"] = Unset  BY <1>1 DEF WithColour
<1>2. CASE hints["fgcolor"] # Unset
  <2> DEFINE kept == KeepOriginal(n)
             set == [kept.set EXCEPT !["fg"] = n.field["fg"]]
             o == IF kept.set["fg"] # Unset THEN kept ELSE [kept EXCEPT !.set = set]
             c == [n EXCEPT !.original = o]
             v == hints["fgcolor"]
  <2>0. IsNote(n)  BY DEF Kept
  <2>1. WithColour(n, hints) = [n EXCEPT !.original = o, !.field["fg"] = v]
    BY <1>2 DEF WithColour
  <2>2. IsRule(kept) /\ (n.original = NoOriginal => \A f \in Field : kept.set[f] = Unset)
    BY <2>0, RuleRemembers DEF Kept
  <2>3. n.original # NoOriginal => kept = n.original  BY DEF KeepOriginal
  <2>4. IsRule(o) /\ \A f \in Field : f # "fg" => o.set[f] = kept.set[f]
    <3>1. CASE kept.set["fg"] # Unset  BY <2>2, <3>1
    <3>2. CASE kept.set["fg"] = Unset
      <4>1. set = [f \in Field |-> IF f = "fg" THEN n.field["fg"] ELSE kept.set[f]]
        BY <2>2 DEF IsRule
      <4>2. set = [f \in Field |-> set[f]]  BY <4>1
      <4>3. o = [kept EXCEPT !.set = set]  BY <3>2
      <4>4. \A f \in Field : f # "fg" => set[f] = kept.set[f]  BY <4>1
      <4> HIDE DEF set, o, kept
      <4>5. o = [ name |-> kept.name, enabled |-> kept.enabled, match |-> kept.match,
                  set |-> set, script |-> kept.script ]
        BY <2>2, <4>3 DEF IsRule
      <4>6. o.set = set  BY <4>5
      <4>7. o = [ name |-> o.name, enabled |-> o.enabled, match |-> o.match, set |-> o.set,
                  script |-> o.script ]
        BY <4>5
      <4>8. IsRule(o)  BY <4>2, <4>6, <4>7 DEF IsRule
      <4> QED  BY <4>4, <4>6, <4>8
    <3> QED  BY <3>1, <3>2
  <2> HIDE DEF o, kept
  <2>5. c = [ field |-> n.field, appname |-> n.appname, scripts |-> n.scripts, raw |-> n.raw,
              progress |-> n.progress, original |-> o ]
    BY <2>0 DEF IsNote
  <2>6. c.field = n.field /\ c.appname = n.appname /\ c.original = o  BY <2>5
  <2>7. [n EXCEPT !.original = o, !.field["fg"] = v] = [c EXCEPT !.field["fg"] = v]
    BY <2>0 DEF IsNote
  <2> HIDE DEF c
  <2>8. IsNote(c)
    <3>1. c = [ field |-> c.field, appname |-> c.appname, scripts |-> c.scripts, raw |-> c.raw,
                progress |-> c.progress, original |-> c.original ]
      BY <2>5
    <3> QED  BY <2>0, <2>6, <3>1 DEF IsNote
  <2>9. o # NoOriginal
    <3>1. "set" \in DOMAIN o  BY <2>4 DEF IsRule
    <3>2. "set" \notin DOMAIN NoOriginal  BY DEF NoOriginal
    <3> QED  BY <3>1, <3>2
  <2>10. Kept(c, sent)
    <3>1. ASSUME NEW f \in Restorable
          PROVE  \/ c.field[f] = sent.field[f] /\ c.original.set[f] = Unset
                 \/ c.original.set[f] = sent.field[f]
      <4>1. f \in Field /\ f # "fg"  BY DEF Restorable, Field
      <4>2. \/ n.field[f] = sent.field[f] /\ kept.set[f] = Unset
            \/ kept.set[f] = sent.field[f]
        BY <2>2, <2>3, <4>1 DEF Kept
      <4> QED  BY <2>4, <2>6, <4>1, <4>2
    <3> QED  BY <2>4, <2>6, <2>8, <2>9, <3>1 DEF Kept
  <2>11. "fg" \in Field \ Restorable /\ "timeout" \in Field  BY DEF Field, Restorable
  <2>12. /\ Kept([c EXCEPT !.field["fg"] = v], sent)
         /\ [c EXCEPT !.field["fg"] = v].field["timeout"] = c.field["timeout"]
    BY <2>10, <2>11, ElsewhereKept
  <2> QED  BY <2>1, <2>6, <2>7, <2>12
<1> QED  BY <1>1, <1>2

(* dbus_message_to_notification: what comes before and after the rules     *)
(* loses nothing of what was sent, and the timeout a client asked for is   *)
(* put in when the rules have had their say.                               *)
LEMMA DecodedKept ==
  ASSUME NEW msg, NEW rules, NEW l, IsList(rules)
  PROVE  /\ Kept(Decoded(msg, rules, Defaults(l)), Sent(msg, Defaults(l)))
         /\ RuleApplyAll(rules, Sent(msg, Defaults(l))).field["dbus_timeout"] \in Nat =>
              Decoded(msg, rules, Defaults(l)).field["timeout"] =
                RuleApplyAll(rules, Sent(msg, Defaults(l))).field["dbus_timeout"]
<1> DEFINE settings == Defaults(l)
           sent == Sent(msg, settings)
           a == RuleApplyAll(rules, sent)
           b == WithIcon(a, settings)
           c == WithTimeout(b)
           asked == a.field["dbus_timeout"]
<1>1. IsSent(sent) /\ Kept(sent, sent)  BY SentIsSent
<1> HIDE DEF settings, sent
<1>2. Kept(a, sent)  BY <1>1, RulesKeep
<1> HIDE DEF a
<1>3. "iconname" \in Field \ Restorable /\ "timeout" \in Field \ Restorable /\ "dbus_timeout" \in Field
  BY DEF Field, Restorable
<1>4. Kept(b, sent) /\ b.field["dbus_timeout"] = asked
  <2>1. CASE a.field["iconname"] # Unset  BY <1>2, <2>1 DEF WithIcon
  <2>2. CASE a.field["iconname"] = Unset
    <3> DEFINE v == IF a.field["default_icon"] # Unset THEN a.field["default_icon"]
                    ELSE settings.icons[a.field["urgency"]]
    <3>1. b = [a EXCEPT !.field["iconname"] = v]  BY <2>2 DEF WithIcon
    <3> HIDE DEF v, b
    <3> QED  BY <1>2, <1>3, <3>1, ElsewhereKept
  <2> QED  BY <2>1, <2>2
<1> HIDE DEF b
<1>5. Kept(c, sent) /\ (asked \in Nat => c.field["timeout"] = asked)
  <2>1. CASE asked = Unset \/ asked < 0
    <3>1. c = b  BY <1>4, <2>1 DEF WithTimeout
    <3>2. asked \notin Nat
      <4>1. CASE asked = Unset  BY <4>1, UnsetAssumption
      <4>2. CASE asked < 0  BY <4>2
      <4> QED  BY <2>1, <4>1, <4>2
    <3> QED  BY <1>4, <3>1, <3>2
  <2>2. CASE ~(asked = Unset \/ asked < 0)
    <3>1. c = [b EXCEPT !.field["timeout"] = asked]  BY <1>4, <2>2 DEF WithTimeout
    <3> HIDE DEF c, asked
    <3> HIDE DEF sent, settings
    <3>2. /\ Kept([b EXCEPT !.field["timeout"] = asked], sent)
          /\ \A g \in Field : [b EXCEPT !.field["timeout"] = asked].field[g] =
                                IF g = "timeout" THEN asked ELSE b.field[g]
      BY <1>3, <1>4, ElsewhereKept
    <3> QED  BY <1>3, <3>1, <3>2
  <2> QED  BY <2>1, <2>2
<1>6. Decoded(msg, rules, settings) = WithColour(c, msg.hints)
  BY DEF Decoded, Initialised, a, b, c, sent
<1> HIDE DEF c
<1>7. /\ Kept(WithColour(c, msg.hints), sent)
      /\ WithColour(c, msg.hints).field["timeout"] = c.field["timeout"]
  BY <1>5, ColourKept
<1> QED  BY <1>5, <1>6, <1>7 DEF sent, settings, a

(* Every note is as it was sent, or what was sent is remembered. *)
NotesKept ==
  /\ \E S : notes \in Seq(S)
  /\ \A i \in 1..Len(notes) :
       /\ notes[i] = [ msg |-> notes[i].msg, sent |-> notes[i].sent, note |-> notes[i].note ]
       /\ IsSent(notes[i].sent) /\ Kept(notes[i].note, notes[i].sent)

(* queues_reapply_all_rules, for one notification *)
LEMMA ReappliedKept ==
  ASSUME NEW rules, IsList(rules), NEW n, NEW sent, IsSent(sent), Kept(n, sent)
  PROVE  /\ Kept(Reapplied(rules, n), sent)
         /\ LookOnlyAtRestorable(rules) =>
              Alike(Reapplied(rules, n), RuleApplyAll(rules, sent))
<1>1. Kept(Restored(n), sent) /\ Alike(Restored(n), sent)  BY RestoredAsSent
<1>2. Reapplied(rules, n) = RuleApplyAll(rules, Restored(n))  BY DEF Reapplied
<1> QED  BY <1>1, <1>2, RulesKeep, RulesTreatAlike

(* The rules of a configuration are a sequence. *)
LEMMA RulesAreList ==
  ASSUME NEW l, GoodLoaded(l)
  PROVE  IsList(l.rules)
<1>1. PICK S : l.rules \in Seq(S)  BY DEF GoodLoaded, GoodRules
<1> QED  BY <1>1 DEF IsList

(* Whatever happens, what was sent is not lost. *)
LEMMA NotesStep ==
  ReadInv /\ NotesKept /\ [ServiceNext]_serviceVars => NotesKept'
<1> SUFFICES ASSUME ReadInv, NotesKept, [ServiceNext]_serviceVars PROVE NotesKept'  OBVIOUS
<1> DEFINE N == Len(notes)
<1>1. PICK S : notes \in Seq(S)  BY DEF NotesKept
<1>2. N \in Nat /\ DOMAIN notes = 1..N  BY <1>1
<1>3. CASE \E msg \in Messages : Notify(msg)
  <2>1. PICK msg \in Messages : Notify(msg)  BY <1>3
  <2> DEFINE sent == Sent(msg, Defaults(loaded))
             note == Decoded(msg, loaded.rules, Defaults(loaded))
             new == [ msg |-> msg, sent |-> sent, note |-> note ]
  <2>2. notes' = Append(notes, new)  BY <2>1 DEF Notify
  <2>3. IsSent(sent) /\ Kept(note, sent)
    BY SentIsSent, DecodedKept, RulesAreList DEF ReadInv
  <2> HIDE DEF sent, note
  <2>4. new.sent = sent /\ new.note = note /\ new = [ msg |-> new.msg, sent |-> new.sent, note |-> new.note ]
    OBVIOUS
  <2> HIDE DEF new
  <2>5. /\ notes' \in Seq(S \cup {new}) /\ Len(notes') = N + 1 /\ notes'[N + 1] = new
        /\ \A i \in 1..N : notes'[i] = notes[i]
    BY <1>1, <2>2
  <2>6. \A i \in 1..(N + 1) : i = N + 1 \/ i \in 1..N  BY <1>2
  <2> QED  BY <2>3, <2>4, <2>5, <2>6 DEF NotesKept
<1>4. CASE \E paths \in Paths : ConfigReload(paths)
  <2>1. PICK paths \in Paths : ConfigReload(paths)  BY <1>4
  <2>2. CASE notes' = notes  BY <2>2 DEF NotesKept
  <2>3. CASE notes' = Reapply(loaded'.rules)
    <3> DEFINE rules == loaded'.rules
               again(i) == Reapplied(rules, notes[i].note)
    <3>1. IsList(rules)  BY StepsRead, RulesAreList DEF ReadInv
    <3>2. notes' = [i \in 1..N |-> [notes[i] EXCEPT !.note = again(i)]]
      BY <1>2, <2>3 DEF Reapply
    <3> HIDE DEF rules
    <3>3. ASSUME NEW i \in 1..N
          PROVE  /\ notes'[i] = [ msg |-> notes[i].msg, sent |-> notes[i].sent, note |-> again(i) ]
                 /\ IsSent(notes[i].sent) /\ Kept(again(i), notes[i].sent)
      <4>1. notes[i] = [ msg |-> notes[i].msg, sent |-> notes[i].sent, note |-> notes[i].note ]
        BY DEF NotesKept
      <4>2. IsSent(notes[i].sent) /\ Kept(notes[i].note, notes[i].sent)  BY DEF NotesKept
      <4>3. Kept(again(i), notes[i].sent)  BY <3>1, <4>2, ReappliedKept
      <4>4. notes'[i] = [notes[i] EXCEPT !.note = again(i)]  BY <3>2
      <4> HIDE DEF again
      <4> QED  BY <4>1, <4>2, <4>3, <4>4
    <3> HIDE DEF again
    <3>4. Len(notes') = N /\ notes' \in Seq({notes'[i] : i \in 1..N})  BY <1>2, <3>2
    <3>5. \A i \in 1..N : /\ notes'[i].sent = notes[i].sent /\ notes'[i].note = again(i)
                          /\ notes'[i] = [ msg |-> notes'[i].msg, sent |-> notes'[i].sent,
                                           note |-> notes'[i].note ]
      <4> TAKE i \in 1..N
      <4> DEFINE m == notes[i].msg  sent == notes[i].sent  note == again(i)  new == notes'[i]
      <4>1. new = [ msg |-> m, sent |-> sent, note |-> note ]  BY <3>3
      <4> HIDE DEF m, sent, note, new
      <4>2. /\ new.sent = sent /\ new.note = note
            /\ new = [ msg |-> new.msg, sent |-> new.sent, note |-> new.note ]
        BY <4>1
      <4> QED  BY <4>2 DEF sent, note, new
    <3> QED  BY <3>3, <3>4, <3>5 DEF NotesKept
  <2> QED  BY <2>1, <2>2, <2>3 DEF ConfigReload
<1>5. CASE Forget
  <2>1. notes' = Tail(notes) /\ notes # <<>>  BY <1>5 DEF Forget
  <2>2. /\ N # 0 /\ Len(notes') = N - 1 /\ notes' \in Seq(S)
        /\ \A i \in 1..(N - 1) : notes'[i] = notes[i + 1]
    BY <1>1, <2>1
  <2>3. \A i \in 1..(N - 1) : i + 1 \in 1..N  BY <1>2
  <2> QED  BY <2>2, <2>3 DEF NotesKept
<1>6. CASE Quit
  <2>1. notes' = <<>>  BY <1>6 DEF Quit
  <2>2. <<>> \in Seq({}) /\ Len(<<>>) = 0 /\ 1..0 = {}  OBVIOUS
  <2> QED  BY <2>1, <2>2 DEF NotesKept
<1>7. CASE \/ Start \/ BusAcquired \/ NameAcquired \/ NameLost \/ PauseSignal \/ PropertiesSet
           \/ \E name \in Switched, state \in 0..2 : RuleEnable(name, state)
           \/ EditConfig \/ UNCHANGED serviceVars
  <2>1. notes' = notes
    BY <1>7 DEF Start, BusAcquired, NameAcquired, NameLost, PauseSignal, PropertiesSet,
       RuleEnable, EditConfig, serviceVars
  <2> QED  BY <2>1 DEF NotesKept
<1> QED  BY <1>3, <1>4, <1>5, <1>6, <1>7 DEF ServiceNext

(* There is nothing to lose at first. *)
LEMMA NotesStart == ServiceInit => NotesKept
<1> SUFFICES ASSUME ServiceInit PROVE NotesKept  OBVIOUS
<1>1. notes = <<>>  BY DEF ServiceInit
<1>2. <<>> \in Seq({}) /\ Len(<<>>) = 0 /\ 1..0 = {}  OBVIOUS
<1> QED  BY <1>1, <1>2 DEF NotesKept

(* ReloadStartsOver: by however many configurations a notification was     *)
(* changed since it arrived, after a reload the fields that can be put     *)
(* back are those of a notification that has just arrived.                 *)
THEOREM ReloadsStartOver == ServiceSpec => ReloadStartsOver
<1> DEFINE Step == IsReload /\ ~loaded'.dead /\ LookOnlyAtRestorable(loaded'.rules) =>
                     \A i \in DOMAIN notes : \A f \in Restorable :
                       notes'[i].note.field[f] = Fresh(i).field[f]
<1>1. ReadInv /\ NotesKept /\ [ServiceNext]_serviceVars => [Step]_serviceVars
  <2> SUFFICES ASSUME ReadInv, NotesKept, [ServiceNext]_serviceVars, IsReload,
                      ~loaded'.dead, LookOnlyAtRestorable(loaded'.rules),
                      NEW i \in DOMAIN notes, NEW f \in Restorable
               PROVE  notes'[i].note.field[f] = Fresh(i).field[f]
    OBVIOUS
  <2>1. PICK paths \in Paths : ConfigReload(paths)
    BY DEF IsReload, ServiceNext, Start, BusAcquired, NameAcquired, NameLost, Quit, PauseSignal,
       PropertiesSet, Notify, RuleEnable, EditConfig, Forget, serviceVars
  <2> DEFINE rules == loaded'.rules  n == notes[i].note  sent == notes[i].sent
  <2>2. notes' = Reapply(rules)  BY <2>1 DEF ConfigReload
  <2>3. notes'[i] = [notes[i] EXCEPT !.note = Reapplied(rules, n)]  BY <2>2 DEF Reapply
  <2>4. /\ notes[i] = [ msg |-> notes[i].msg, sent |-> sent, note |-> n ]
        /\ IsSent(sent) /\ Kept(n, sent)
    <3>1. PICK S : notes \in Seq(S)  BY DEF NotesKept
    <3>2. i \in 1..Len(notes)  BY <3>1
    <3> QED  BY <3>2 DEF NotesKept
  <2>5. IsList(rules)  BY StepsRead, RulesAreList DEF ReadInv
  <2>6. Fresh(i) = RuleApplyAll(rules, sent)  BY DEF Fresh
  <2>7. LookOnlyAtRestorable(rules)  OBVIOUS
  <2> HIDE DEF rules, n, sent
  <2>8. notes'[i].note = Reapplied(rules, n)  BY <2>3, <2>4
  <2>9. Alike(Reapplied(rules, n), RuleApplyAll(rules, sent))
    BY <2>4, <2>5, <2>7, ReappliedKept
  <2> QED  BY <2>6, <2>8, <2>9 DEF Alike
<1>2. ReadInv /\ NotesKept /\ [ServiceNext]_serviceVars => ReadInv' /\ NotesKept'
  BY StepsRead, NotesStep
<1>3. ServiceInit => ReadInv /\ NotesKept  BY StartsRead, NotesStart
<1> QED  BY <1>1, <1>2, <1>3, PTL DEF ServiceSpec, ReloadStartsOver

(* AskedTimeoutWins: for all messages and rules, the order of              *)
(* notification_init gives a notification the timeout asked for.           *)
THEOREM AskedTimeoutsWin == ServiceSpec => AskedTimeoutWins
<1> DEFINE asked == RuleApplyAll(loaded.rules, Last(notes').sent).field["dbus_timeout"]
           Step == Len(notes') > Len(notes) =>
                     LET n == Last(notes')
                         asks == RuleApplyAll(loaded.rules, n.sent).field["dbus_timeout"]
                     IN asks \in Nat => n.note.field["timeout"] = asks
<1>1. ReadInv /\ NotesKept /\ [ServiceNext]_serviceVars => [Step]_serviceVars
  <2> SUFFICES ASSUME ReadInv, NotesKept, [ServiceNext]_serviceVars, Len(notes') > Len(notes),
                      asked \in Nat
               PROVE  Last(notes').note.field["timeout"] = asked
    OBVIOUS
  <2>0. PICK S : notes \in Seq(S)  BY DEF NotesKept
  <2>1. PICK msg \in Messages : Notify(msg)
    <3>1. Len(notes) \in Nat  BY <2>0
    <3>2. Len(notes') # Len(notes)  BY <3>1
    <3>3. notes' # notes  BY <3>2
    <3>4. CASE Quit
      <4>1. Len(notes') = 0  BY <3>4 DEF Quit
      <4> QED  BY <3>1, <4>1
    <3>5. CASE Forget
      <4>1. notes # <<>> /\ notes' = Tail(notes)  BY <3>5 DEF Forget
      <4>2. Len(notes') = Len(notes) - 1  BY <2>0, <4>1
      <4> QED  BY <3>1, <4>2
    <3>6. CASE \E paths \in Paths : ConfigReload(paths)
      <4>1. notes' = Reapply(loaded'.rules)  BY <3>3, <3>6 DEF ConfigReload
      <4>2. DOMAIN notes' = DOMAIN notes  BY <4>1 DEF Reapply
      <4>3. DOMAIN notes = 1..Len(notes)  BY <2>0
      <4>4. notes' = [i \in 1..Len(notes) |-> [notes[i] EXCEPT !.note = Reapplied(loaded'.rules, @)]]
        BY <4>1, <4>3 DEF Reapply
      <4>5. Len(notes') = Len(notes)  BY <3>1, <4>4
      <4> QED  BY <3>2, <4>5
    <3> QED
      BY <3>3, <3>4, <3>5, <3>6
      DEF ServiceNext, Start, BusAcquired, NameAcquired, NameLost, PauseSignal,
          PropertiesSet, RuleEnable, EditConfig, serviceVars
  <2> DEFINE sent == Sent(msg, Defaults(loaded))
             note == Decoded(msg, loaded.rules, Defaults(loaded))
             new == [ msg |-> msg, sent |-> sent, note |-> note ]
  <2>2. notes' = Append(notes, new)  BY <2>1 DEF Notify
  <2> HIDE DEF new
  <2>3. Last(notes') = new  BY <2>0, <2>2 DEF Last
  <2>4. new.sent = sent /\ new.note = note  BY DEF new
  <2>5. asked = RuleApplyAll(loaded.rules, sent).field["dbus_timeout"]  BY <2>3, <2>4
  <2>6. IsList(loaded.rules)  BY RulesAreList DEF ReadInv
  <2>7. RuleApplyAll(loaded.rules, sent).field["dbus_timeout"] \in Nat =>
          note.field["timeout"] = RuleApplyAll(loaded.rules, sent).field["dbus_timeout"]
    BY <2>6, DecodedKept
  <2> QED  BY <2>3, <2>4, <2>5, <2>7
<1>2. ReadInv /\ NotesKept /\ [ServiceNext]_serviceVars => ReadInv' /\ NotesKept'
  BY StepsRead, NotesStep
<1>3. ServiceInit => ReadInv /\ NotesKept  BY StartsRead, NotesStart
<1> QED  BY <1>1, <1>2, <1>3, PTL DEF ServiceSpec, AskedTimeoutWins
=============================================================================
