--------------------------- MODULE PromiseProofs ---------------------------
(***************************************************************************)
(* What clients and users may rely on, for every value of the constants:   *)
(* history is sound, no notification is forgotten in memory, and an id is  *)
(* closed exactly once and with a signal (module Lifecycle).  DaemonProofs *)
(* has what every operation does; here is the arrival of a notification,   *)
(* which is the only step that creates one.                                *)
(* Then what holds whenever the main loop rests: the lengths clients were  *)
(* told, the timer, the limit of displayed notifications, and that none    *)
(* waits while there is room.  Last the context menu (module Menu): who    *)
(* holds references, what a menu thread may read, and what its lock keeps. *)
(***************************************************************************)
EXTENDS DaemonProofs, Menu, FiniteSetTheorems

---------------------------------------------------------------------------
(* Getting into the queues                                                 *)

(* r is q with p in the place of old. *)
InPlaceOf(r, q, p, old, tell) ==
  /\ OpenIn(r) = (OpenIn(q) \ {old}) \cup {p}
  /\ \A o \in Ptr \ {old} : r.heap[o] = q.heap[o]
  /\ LetGo(r, q, old)
  /\ r.emitted = IF tell /\ q.heap[old].valid
                 THEN q.emitted \cup {<<q.heap[old].id, TIME>>} ELSE q.emitted
  /\ ~tell => q.heap[old].id = q.heap[p].id

(* r is q with p among the open notifications, perhaps in the place of one *)
(* that is told, or whose id p has.                                        *)
Placed(r, q, p) ==
  /\ r.history = q.history /\ r.nextId = q.nextId
  /\ \/ OpenIn(r) = OpenIn(q) \cup {p} /\ r.heap = q.heap /\ r.emitted = q.emitted
     \/ \E old \in OpenIn(q), tell \in BOOLEAN : InPlaceOf(r, q, p, old, tell)

LEMMA EnqueuePlaces ==
  ASSUME NEW q, Good(q), NEW p, Adrift(q, p)
  PROVE  Placed(Enqueue(q, p), q, p)
<1> DEFINE w == InsertSorted(q, q.waiting, p)
           r == Enqueue(q, p)
<1>0. /\ q \in Store /\ q.waiting \in Seq(Ptr) /\ IsInjective(q.waiting)
      /\ p \in Ptr /\ p \notin ToSet(q.waiting)
  BY GoodFacts, AdriftFacts
<1>1. ToSet(w) = ToSet(q.waiting) \cup {p}  BY <1>0, InsertSortedProperties
<1> HIDE DEF w
<1>2. r = [q EXCEPT !.waiting = w]  BY DEF Enqueue, w
<1>3. /\ r.displayed = q.displayed /\ r.waiting = w /\ r.history = q.history
      /\ r.heap = q.heap /\ r.nextId = q.nextId /\ r.emitted = q.emitted
  BY <1>0, <1>2 DEF Store
<1> HIDE DEF r
<1> QED  BY <1>1, <1>3 DEF Placed, OpenIn, r

(* unreferencing the superseded notification, after a signal or without *)
LEMMA SupersedeEffect ==
  ASSUME NEW q \in Store, NEW old \in Ptr, q.heap[old] \in Note,
         NEW tell \in BOOLEAN
  PROVE  LET r == Supersede(q, old, tell)
         IN /\ SameQueues(r, q) /\ r.nextId = q.nextId
            /\ \A o \in Ptr \ {old} : r.heap[o] = q.heap[o]
            /\ LetGo(r, q, old)
            /\ r.emitted = IF tell /\ q.heap[old].valid
                           THEN q.emitted \cup {<<q.heap[old].id, TIME>>}
                           ELSE q.emitted
<1> DEFINE signalled == tell /\ q.heap[old].valid
           n  == IF signalled THEN [q.heap[old] EXCEPT !.valid = FALSE]
                 ELSE q.heap[old]
           e  == IF signalled THEN q.emitted \cup {<<q.heap[old].id, TIME>>}
                 ELSE q.emitted
           q1 == [q EXCEPT !.heap = [q.heap EXCEPT ![old] = n], !.emitted = e]
           r  == Supersede(q, old, tell)
<1>1. (IF tell THEN SignalClosed(q, old, TIME) ELSE q) = q1
  <2>1. CASE signalled
    <3>1. SignalClosed(q, old, TIME) =
            [q EXCEPT !.heap[old].valid = FALSE,
                      !.emitted = q.emitted \cup {<<q.heap[old].id, TIME>>}]
      BY <2>1 DEF SignalClosed
    <3> QED  BY <2>1, <3>1 DEF Store
  <2>2. CASE ~signalled
    <3>1. (IF tell THEN SignalClosed(q, old, TIME) ELSE q) = q
      BY <2>2 DEF SignalClosed
    <3>2. q1 = q  BY <2>2 DEF Store
    <3> QED  BY <3>1, <3>2
  <2> QED  BY <2>1, <2>2
<1>2. r = Unref(q1, old)  BY <1>1 DEF Supersede
<1>3. /\ n \in Note /\ n.refs = q.heap[old].refs
      /\ n.locked = q.heap[old].locked
  BY DEF Note
<1> HIDE DEF n, e
<1>4. /\ SameQueues(q1, q) /\ q1.nextId = q.nextId /\ q1.emitted = e
      /\ q1.heap = [q.heap EXCEPT ![old] = n]
  BY DEF Store, SameQueues
<1>5. r = [q1 EXCEPT !.heap[old] = Dropped(q1.heap[old])]
  BY <1>2 DEF Unref, Dropped
<1>6. /\ SameQueues(r, q) /\ r.nextId = q.nextId /\ r.emitted = e
      /\ r.heap = [q.heap EXCEPT ![old] = Dropped(n)]
  BY <1>4, <1>5 DEF Store, SameQueues
<1> HIDE DEF r, q1
<1>7. /\ r.heap[old] = Dropped(n)
      /\ \A o \in Ptr \ {old} : r.heap[o] = q.heap[o]
  BY <1>6 DEF Store
<1>8. LetGo(r, q, old)  BY <1>3, <1>7, DroppedLetsGo
<1> QED  BY <1>6, <1>7, <1>8 DEF r, e

LEMMA TakeOverPlaces ==
  ASSUME NEW q, Good(q), NEW p, Adrift(q, p), NEW tell \in BOOLEAN,
         NEW d, PlaceIn(d, q.displayed), NEW w, PlaceIn(w, q.waiting),
         d # 0 \/ w # 0,
         d # 0 => tell \/ q.heap[q.displayed[d]].id = q.heap[p].id,
         w # 0 => tell \/ q.heap[q.waiting[w]].id = q.heap[p].id
  PROVE  /\ TakeOver(q, d, w, p, tell).history = q.history
         /\ TakeOver(q, d, w, p, tell).nextId = q.nextId
         /\ \E old \in OpenIn(q) :
              InPlaceOf(TakeOver(q, d, w, p, tell), q, p, old, tell)
<1> DEFINE old == IF d # 0 THEN q.displayed[d] ELSE q.waiting[w]
           r   == TakeOver(q, d, w, p, tell)
<1>0. /\ q \in Store /\ q.displayed \in Seq(Ptr) /\ q.waiting \in Seq(Ptr)
      /\ IsInjective(q.displayed) /\ IsInjective(q.waiting)
      /\ ToSet(q.displayed) \cap ToSet(q.waiting) = {}
      /\ \A o \in Queued(q) : o \in Ptr /\ q.heap[o] \in Note
      /\ p \in Ptr /\ p \notin ToSet(q.displayed) /\ p \notin ToSet(q.waiting)
  BY GoodFacts, AdriftFacts
<1>1. \E q1 \in Store :
        /\ r = Supersede(q1, old, tell)
        /\ OpenIn(q1) = (OpenIn(q) \ {old}) \cup {p}
        /\ old \in OpenIn(q)
        /\ q1.history = q.history /\ q1.nextId = q.nextId
        /\ q1.heap = q.heap /\ q1.emitted = q.emitted
  <2>1. CASE d # 0
    <3> DEFINE s  == [q.displayed EXCEPT ![d] = p]
               q1 == [q EXCEPT !.displayed = s]
    <3>1. d \in 1..Len(q.displayed)
      BY <1>0, <2>1, LenProperties DEF PlaceIn
    <3>2. old \in ToSet(q.displayed)  BY <1>0, <2>1, <3>1, Elements
    <3>3. /\ s \in Seq(Ptr) /\ ToSet(s) = (ToSet(q.displayed) \ {old}) \cup {p}
      BY <1>0, <2>1, <3>1, Replaced
    <3>4. r = Supersede(q1, old, tell)
      BY <1>0, <2>1 DEF TakeOver, Store
    <3> HIDE DEF s, old
    <3>5. /\ q1 \in Store /\ q1.displayed = s /\ q1.waiting = q.waiting
          /\ q1.history = q.history /\ q1.nextId = q.nextId
          /\ q1.heap = q.heap /\ q1.emitted = q.emitted
      BY <1>0, <3>3 DEF Store
    <3>6. old \notin ToSet(q.waiting)  BY <1>0, <3>2
    <3> HIDE DEF q1, r
    <3>7. OpenIn(q1) = (OpenIn(q) \ {old}) \cup {p}
      BY <3>3, <3>5, <3>6 DEF OpenIn
    <3> QED  BY <3>2, <3>4, <3>5, <3>7 DEF OpenIn
  <2>2. CASE d = 0
    <3> DEFINE s  == [q.waiting EXCEPT ![w] = p]
               q1 == [q EXCEPT !.waiting = s]
    <3>1. w \in 1..Len(q.waiting)
      BY <1>0, <2>2, LenProperties DEF PlaceIn
    <3>2. old \in ToSet(q.waiting)  BY <1>0, <2>2, <3>1, Elements
    <3>3. /\ s \in Seq(Ptr) /\ ToSet(s) = (ToSet(q.waiting) \ {old}) \cup {p}
      BY <1>0, <2>2, <3>1, Replaced
    <3>4. r = Supersede(q1, old, tell)
      BY <1>0, <2>2 DEF TakeOver, Store
    <3> HIDE DEF s, old
    <3>5. /\ q1 \in Store /\ q1.displayed = q.displayed /\ q1.waiting = s
          /\ q1.history = q.history /\ q1.nextId = q.nextId
          /\ q1.heap = q.heap /\ q1.emitted = q.emitted
      BY <1>0, <3>3 DEF Store
    <3>6. old \notin ToSet(q.displayed)  BY <1>0, <3>2
    <3> HIDE DEF q1, r
    <3>7. OpenIn(q1) = (OpenIn(q) \ {old}) \cup {p}
      BY <3>3, <3>5, <3>6 DEF OpenIn
    <3> QED  BY <3>2, <3>4, <3>5, <3>7 DEF OpenIn
  <2> QED  BY <2>1, <2>2
<1>2. PICK q1 \in Store :
        /\ r = Supersede(q1, old, tell)
        /\ OpenIn(q1) = (OpenIn(q) \ {old}) \cup {p}
        /\ old \in OpenIn(q)
        /\ q1.history = q.history /\ q1.nextId = q.nextId
        /\ q1.heap = q.heap /\ q1.emitted = q.emitted
  BY <1>1
<1>7. tell \/ q.heap[old].id = q.heap[p].id  OBVIOUS
<1> HIDE DEF old, r
<1>3. old \in Ptr /\ q1.heap[old] \in Note
  BY <1>0, <1>2 DEF OpenIn, Queued
<1>4. /\ SameQueues(r, q1) /\ r.nextId = q1.nextId
      /\ \A o \in Ptr \ {old} : r.heap[o] = q1.heap[o]
      /\ LetGo(r, q1, old)
      /\ r.emitted = IF tell /\ q1.heap[old].valid
                     THEN q1.emitted \cup {<<q1.heap[old].id, TIME>>}
                     ELSE q1.emitted
  BY <1>2, <1>3, SupersedeEffect
<1>5. OpenIn(r) = OpenIn(q1)  BY <1>4 DEF OpenIn, SameQueues
<1>6. InPlaceOf(r, q, p, old, tell)
  BY <1>2, <1>4, <1>5, <1>7 DEF InPlaceOf, LetGo
<1> QED  BY <1>2, <1>4, <1>6 DEF SameQueues, r

LEMMA TakeOverTells ==
  ASSUME NEW q, NEW d, NEW w, NEW p
  PROVE  /\ \E tell \in BOOLEAN :
              tell /\ TakeOver(q, d, w, p, TRUE) = TakeOver(q, d, w, p, tell)
         /\ \E tell \in BOOLEAN :
              ~tell /\ TakeOver(q, d, w, p, FALSE) = TakeOver(q, d, w, p, tell)
<1>1. \E tell \in BOOLEAN :
        tell /\ TakeOver(q, d, w, p, TRUE) = TakeOver(q, d, w, p, tell)
  <2> WITNESS TRUE \in BOOLEAN
  <2> QED  OBVIOUS
<1>2. \E tell \in BOOLEAN :
        ~tell /\ TakeOver(q, d, w, p, FALSE) = TakeOver(q, d, w, p, tell)
  <2> WITNESS FALSE \in BOOLEAN
  <2> QED  OBVIOUS
<1> QED  BY <1>1, <1>2

(* sorting displayed loses none of it *)
LEMMA SortedSame ==
  ASSUME NEW q, NEW s \in Seq(Ptr), IsInjective(s)
  PROVE  ToSet(Sorted(q, s)) = ToSet(s)
<1> DEFINE places == 1..Len(s)
           orders == { f \in [places -> places] :
                         /\ IsInjective(f)
                         /\ \A i, j \in places : i < j =>
                              LET c == Cmp(q.heap[s[f[i]]], q.heap[s[f[j]]])
                              IN c < 0 \/ (c = 0 /\ f[i] < f[j]) }
           order == CHOOSE f \in orders : TRUE
           t == [i \in places |-> s[order[i]]]
<1>1. Sorted(q, s) = IF orders = {} THEN s ELSE t
  BY Zenon DEF Sorted
<1>2. CASE orders = {}  BY <1>1, <1>2
<1>3. CASE orders # {}
  <2>1. order \in orders  BY <1>3
  <2>2. order \in Injection(places, places)  BY <2>1 DEF Injection
  <2> HIDE DEF order
  <2>3. IsFiniteSet(places)
    BY LenProperties, FS_Interval
  <2>4. order \in Surjection(places, places)  BY <2>2, <2>3, FS_Injection
  <2>5. \A j \in places : \E i \in places : order[i] = j
    BY <2>4 DEF Surjection
  <2>6. ToSet(s) = { s[j] : j \in places }  BY Elements
  <2>7. Sorted(q, s) = t  BY <1>1, <1>3
  <2>8. Sorted(q, s) \in Seq(Ptr)  BY SortedProperties
  <2>9. DOMAIN t = places  OBVIOUS
  <2>10. DOMAIN t = 1..Len(t) /\ ToSet(t) = { t[j] : j \in 1..Len(t) }
    <3> HIDE DEF t
    <3> QED  BY <2>7, <2>8, Elements
  <2>11. ToSet(t) = { t[j] : j \in places }  BY <2>9, <2>10
  <2>12. \A j \in places : t[j] = s[order[j]]  OBVIOUS
  <2>13. order \in [places -> places]  BY <2>4 DEF Surjection
  <2> HIDE DEF t, places
  <2>14. ToSet(t) = ToSet(s)  BY <2>5, <2>6, <2>11, <2>12, <2>13
  <2> QED  BY <2>7, <2>14
<1> QED  BY <1>2, <1>3

LEMMA ReplaceIdPlaces ==
  ASSUME NEW q, Good(q), NEW p, Adrift(q, p)
  PROVE  /\ Placed(ReplaceId(q, p), q, p)
         /\ (\E o \in OpenIn(q) : q.heap[o].id = q.heap[p].id)
              => \E old \in OpenIn(q), tell \in BOOLEAN :
                   ~tell /\ InPlaceOf(ReplaceId(q, p), q, p, old, tell)
<1> DEFINE id == q.heap[p].id
           d == FirstWithId(q, q.displayed, id)
           w == FirstWithId(q, q.waiting, id)
           r == ReplaceId(q, p)
<1>0. q.displayed \in Seq(Ptr) /\ q.waiting \in Seq(Ptr)
  BY GoodFacts
<1>1. r = IF d = 0 /\ w = 0 THEN Enqueue(q, p) ELSE TakeOver(q, d, w, p, FALSE)
  BY Zenon DEF ReplaceId
<1>2. PlaceIn(d, q.displayed) /\ PlaceIn(w, q.waiting)
  BY <1>0, FirstWithIdPlace
<1>3. CASE d = 0 /\ w = 0
  <2>1. /\ \A o \in ToSet(q.displayed) : q.heap[o].id # id
        /\ \A o \in ToSet(q.waiting) : q.heap[o].id # id
    BY <1>0, <1>3, NotFound
  <2> HIDE DEF d, w
  <2> QED  BY <1>1, <1>3, <2>1, EnqueuePlaces DEF OpenIn
<1>4. CASE d # 0 \/ w # 0
  <2>1. d # 0 => q.heap[q.displayed[d]].id = id
    <3>1. ASSUME d # 0 PROVE q.heap[q.displayed[d]].id = id
      BY <1>0, <3>1, FoundHasId
    <3> QED  BY <3>1
  <2>2. w # 0 => q.heap[q.waiting[w]].id = id
    <3>1. ASSUME w # 0 PROVE q.heap[q.waiting[w]].id = id
      BY <1>0, <3>1, FoundHasId
    <3> QED  BY <3>1
  <2> HIDE DEF d, w, r
  <2>3. \E tell \in BOOLEAN : ~tell /\ r = TakeOver(q, d, w, p, tell)
    BY <1>1, <1>4, TakeOverTells, Zenon
  <2>4. PICK tell \in BOOLEAN : ~tell /\ r = TakeOver(q, d, w, p, tell)
    BY <2>3
  <2>5. /\ r.history = q.history /\ r.nextId = q.nextId
        /\ \E old \in OpenIn(q) : InPlaceOf(r, q, p, old, tell)
    BY <1>2, <1>4, <2>1, <2>2, <2>4, TakeOverPlaces
  <2> QED  BY <2>4, <2>5 DEF Placed, r
<1> QED  BY <1>3, <1>4

LEMMA StackOrEnqueuePlaces ==
  ASSUME NEW q, Good(q), NEW p, Adrift(q, p)
  PROVE  Placed(StackOrEnqueue(q, p), q, p)
<1> DEFINE td == FirstWithTag(q, q.displayed, p)
           tw == FirstWithTag(q, q.waiting, p)
           dd == FirstDuplicate(q, q.displayed, p)
           dw == FirstDuplicate(q, q.waiting, p)
           stacked == TakeOver(q, dd, dw, p, TRUE)
           sorted  == [stacked EXCEPT !.displayed = Sorted(stacked, stacked.displayed)]
           r  == StackOrEnqueue(q, p)
<1>0. q.displayed \in Seq(Ptr) /\ q.waiting \in Seq(Ptr)
  BY GoodFacts
<1>1. /\ PlaceIn(td, q.displayed) /\ PlaceIn(tw, q.waiting)
      /\ PlaceIn(dd, q.displayed) /\ PlaceIn(dw, q.waiting)
  BY <1>0, FirstWithTagPlace, FirstDuplicatePlace
<1>2. \/ (td # 0 \/ tw # 0) /\ r = TakeOver(q, td, tw, p, TRUE)
      \/ (dd # 0 \/ dw # 0) /\ (r = stacked \/ r = sorted)
      \/ r = Enqueue(q, p)
  BY DEF StackOrEnqueue
<1>6. Good(stacked) \/ (dd = 0 /\ dw = 0)  BY <1>1, TakeOverKeeps
<1> HIDE DEF td, tw, dd, dw, r
<1>3. CASE (td # 0 \/ tw # 0) /\ r = TakeOver(q, td, tw, p, TRUE)
  <2>3. \E tell \in BOOLEAN : tell /\ r = TakeOver(q, td, tw, p, tell)
    BY <1>3, TakeOverTells, Zenon
  <2>4. PICK tell \in BOOLEAN : tell /\ r = TakeOver(q, td, tw, p, tell)
    BY <2>3
  <2>5. /\ r.history = q.history /\ r.nextId = q.nextId
        /\ \E old \in OpenIn(q) : InPlaceOf(r, q, p, old, tell)
    <3>1. /\ td # 0 => tell \/ q.heap[q.displayed[td]].id = q.heap[p].id
          /\ tw # 0 => tell \/ q.heap[q.waiting[tw]].id = q.heap[p].id
      BY <2>4
    <3>2. PlaceIn(td, q.displayed) /\ PlaceIn(tw, q.waiting)  BY <1>1
    <3>3. td # 0 \/ tw # 0  BY <1>3
    <3>4. r = TakeOver(q, td, tw, p, tell)  BY <2>4
    <3> QED  BY <3>1, <3>2, <3>3, <3>4, TakeOverPlaces
  <2> QED  BY <2>5 DEF Placed, r
<1>4. CASE (dd # 0 \/ dw # 0) /\ (r = stacked \/ r = sorted)
  <2>1. \E tell \in BOOLEAN : tell /\ stacked = TakeOver(q, dd, dw, p, tell)
    BY <1>4, TakeOverTells, Zenon
  <2> HIDE DEF stacked
  <2>2. PICK tell \in BOOLEAN : tell /\ stacked = TakeOver(q, dd, dw, p, tell)
    BY <2>1
  <2>3. /\ stacked.history = q.history /\ stacked.nextId = q.nextId
        /\ \E old \in OpenIn(q) : InPlaceOf(stacked, q, p, old, tell)
    <3>1. /\ dd # 0 => tell \/ q.heap[q.displayed[dd]].id = q.heap[p].id
          /\ dw # 0 => tell \/ q.heap[q.waiting[dw]].id = q.heap[p].id
      BY <2>2
    <3>2. PlaceIn(dd, q.displayed) /\ PlaceIn(dw, q.waiting)  BY <1>1
    <3>3. dd # 0 \/ dw # 0  BY <1>4
    <3>4. stacked = TakeOver(q, dd, dw, p, tell)  BY <2>2
    <3> QED  BY <3>1, <3>2, <3>3, <3>4, TakeOverPlaces
  <2>4. /\ stacked \in Store
        /\ stacked.displayed \in Seq(Ptr) /\ IsInjective(stacked.displayed)
    BY <1>4, <1>6, GoodFacts
  <2>5. ToSet(Sorted(stacked, stacked.displayed)) = ToSet(stacked.displayed)
    BY <2>4, SortedSame
  <2>6. /\ ToSet(sorted.displayed) = ToSet(stacked.displayed)
        /\ sorted.waiting = stacked.waiting
        /\ sorted.history = stacked.history /\ sorted.heap = stacked.heap
        /\ sorted.nextId = stacked.nextId /\ sorted.emitted = stacked.emitted
    BY <2>4, <2>5 DEF Store
  <2> HIDE DEF sorted
  <2>7. \E old \in OpenIn(q) : InPlaceOf(sorted, q, p, old, tell)
    BY <2>3, <2>6 DEF InPlaceOf, LetGo, OpenIn
  <2> QED  BY <1>4, <2>3, <2>6, <2>7 DEF Placed, r
<1>5. CASE r = Enqueue(q, p)  BY <1>5, EnqueuePlaces DEF r
<1> QED  BY <1>2, <1>3, <1>4, <1>5


---------------------------------------------------------------------------
(* The arrival of a notification                                           *)

(* q is the store as it was, quiet, with the new notification p outside of *)
(* the queues; p has the id its client asked for, or the next one.         *)
Newcomer(q, p, id) ==
  /\ Good(q) /\ Adrift(q, p) /\ SameQueues(q, store) /\ q.emitted = {}
  /\ store.heap[p] = Freed /\ \A o \in Ptr \ {p} : q.heap[o] = store.heap[o]
  /\ q.heap[p].refs = 1 /\ q.heap[p].valid
  /\ ~q.heap[p].redisplayed /\ ~q.heap[p].locked
  /\ q.heap[p].closing = NotMarked /\ q.heap[p].removing = NotMarked
  /\ \/ id = 0 /\ q.nextId = store.nextId + 1 /\ q.heap[p].id = q.nextId
     \/ id # 0 /\ q.nextId = store.nextId /\ q.heap[p].id = id

(* a requested id that is open is taken over without a signal *)
Inherits(r, q, p, id) ==
  id # 0 /\ (\E o \in OpenIn(q) : q.heap[o].id = id)
    => \E old \in OpenIn(q), tell \in BOOLEAN : ~tell /\ InPlaceOf(r, q, p, old, tell)

LEMMA AssignedNewcomer ==
  ASSUME NEW q, NEW p,
         Good(q), Adrift(q, p), SameQueues(q, store), q.emitted = {},
         store.heap[p] = Freed, \A o \in Ptr \ {p} : q.heap[o] = store.heap[o],
         q.heap[p].refs = 1, q.heap[p].valid,
         ~q.heap[p].redisplayed, ~q.heap[p].locked,
         q.heap[p].closing = NotMarked, q.heap[p].removing = NotMarked,
         q.nextId = store.nextId, q.nextId < MaxId
  PROVE  Newcomer(AssignId(q, p), p, 0)
<1> DEFINE r == AssignId(q, p)
           n == [q.heap[p] EXCEPT !.id = q.nextId + 1]
<1>1. Good(r) /\ Adrift(r, p)  BY AssignIdKeeps
<1>2. q \in Store /\ p \in Ptr /\ q.heap[p] \in Note
  BY GoodFacts, AdriftFacts
<1>3. /\ SameQueues(r, q) /\ r.emitted = q.emitted /\ r.nextId = q.nextId + 1
      /\ r.heap = [q.heap EXCEPT ![p] = n]
  BY <1>2 DEF AssignId, Store, SameQueues
<1>4. /\ n.id = q.nextId + 1 /\ n.refs = q.heap[p].refs
      /\ n.valid = q.heap[p].valid /\ n.locked = q.heap[p].locked
      /\ n.redisplayed = q.heap[p].redisplayed
      /\ n.closing = q.heap[p].closing /\ n.removing = q.heap[p].removing
  BY <1>2 DEF Note
<1> HIDE DEF r, n
<1>5. r.heap[p] = n /\ \A o \in Ptr \ {p} : r.heap[o] = q.heap[o]
  BY <1>2, <1>3 DEF Store
<1>6. SameQueues(r, store)  BY <1>3 DEF SameQueues
<1>7. r.nextId = store.nextId + 1 /\ r.heap[p].id = r.nextId
  BY <1>3, <1>4, <1>5
<1>8. /\ r.heap[p].refs = 1 /\ r.heap[p].valid
      /\ ~r.heap[p].redisplayed /\ ~r.heap[p].locked
      /\ r.heap[p].closing = NotMarked /\ r.heap[p].removing = NotMarked
  BY <1>4, <1>5
<1>9. \A o \in Ptr \ {p} : r.heap[o] = store.heap[o]  BY <1>5
<1> QED  BY <1>1, <1>3, <1>6, <1>7, <1>8, <1>9 DEF Newcomer, r

(* An empty notification leaves nothing but its signal; another one finds  *)
(* its place, and may then be closed at once.                              *)
LEMMA ArrivalEffect ==
  ASSUME UpdateInv, NEW kind \in Kinds, NEW id \in RequestableIds,
         NEW stamp \in Stamps, Notify(kind, id, stamp)
  PROVE  \/ /\ kind.empty
            /\ SameQueues(store', store) /\ store'.heap = store.heap
            /\ store'.nextId = store.nextId
            /\ store'.emitted = {<<id, USER>>}
         \/ /\ ~kind.empty
            /\ \E p \in Ptr, q \in Store, r \in Store :
                 /\ Newcomer(q, p, id) /\ Placed(r, q, p) /\ Good(r)
                 /\ Inherits(r, q, p, id)
                 /\ store' = r \/ store' = NotificationClose(r, p, UNDEF)
<1>1. PICK p \in { r \in Ptr : heap[r] = Freed } :
        LET created  == [Quiet EXCEPT !.heap[p] = NewNote(kind, id, stamp)]
            inserted == Insert(created, p, status)
        IN WakeUp(IF kind.empty
                  THEN Unref(SignalClosed(inserted, p, USER), p)
                  ELSE inserted)
  BY DEF Notify
<1> DEFINE n == NewNote(kind, id, stamp)
           created  == [Quiet EXCEPT !.heap[p] = n]
           inserted == Insert(created, p, status)
           told == SignalClosed(created, p, USER)
<1>2. /\ Good(Quiet) /\ SameQueues(Quiet, store) /\ Quiet.emitted = {}
      /\ Quiet.heap = store.heap /\ Quiet.nextId = store.nextId
  BY QuietKeeps DEF UpdateInv, Quiet, Good, Store
<1>3. p \in Ptr /\ store.heap[p] = Freed  BY DEF heap
<1>4. p \notin Queued(Quiet)  BY <1>2, <1>3, GoodFacts
<1>5. /\ n \in Note /\ n.id = id /\ n.kind = kind /\ n.refs = 1 /\ n.valid
      /\ ~n.redisplayed /\ ~n.locked
      /\ n.closing = NotMarked /\ n.removing = NotMarked
  <2>1. id \in 0..MaxId  BY RequestableIdsTyped
  <2>2. kind.timed \in BOOLEAN  BY NotificationAssumption DEF KindType
  <2> QED  BY <2>1, <2>2 DEF NewNote, Note
<1> HIDE DEF n
<1>6. /\ Good(created) /\ SameQueues(created, Quiet)
      /\ created.heap[p] = n
  BY <1>2, <1>3, <1>5, CellChanged
<1>7. /\ created.nextId = store.nextId /\ created.emitted = {}
      /\ created.heap = [store.heap EXCEPT ![p] = n]
  BY <1>2, GoodFacts DEF Store
<1> HIDE DEF created
<1>8. Adrift(created, p)
  BY <1>3, <1>4, <1>5, <1>6 DEF Adrift, Queued, SameQueues
<1>9. /\ created \in Store /\ store.heap \in [Ptr -> Note \cup {Freed}]
      /\ SameQueues(created, store)
      /\ \A o \in Ptr \ {p} : created.heap[o] = store.heap[o]
  BY <1>2, <1>3, <1>6, <1>7, GoodFacts DEF UpdateInv, SameQueues
<1>10. CASE kind.empty
  <2>1. inserted = created  BY <1>5, <1>6, <1>10 DEF Insert
  <2>2. store' = Unref(told, p)
    BY <1>1, <1>10, <2>1 DEF created, n, WakeUp, RunWith
  <2>3. told = [created EXCEPT !.heap[p].valid = FALSE, !.emitted = {<<id, USER>>}]
    BY <1>5, <1>6, <1>7 DEF SignalClosed
  <2>4. /\ SameQueues(told, created) /\ told.emitted = {<<id, USER>>}
        /\ told.nextId = created.nextId
        /\ told.heap = [created.heap EXCEPT ![p] = [n EXCEPT !.valid = FALSE]]
        /\ told \in Store
    <3>1. [n EXCEPT !.valid = FALSE] \in Note  BY <1>5 DEF Note
    <3>2. <<id, USER>> \in (0..MaxId) \X Reasons
      BY RequestableIdsTyped DEF Reasons
    <3> DEFINE m == [n EXCEPT !.valid = FALSE]
               h == [created.heap EXCEPT ![p] = m]
    <3>3. told = [created EXCEPT !.heap = h, !.emitted = {<<id, USER>>}]
      BY <1>6, <1>9, <2>3 DEF Store
    <3> HIDE DEF m, told
    <3>4. h \in [Ptr -> Note \cup {Freed}]  BY <1>9, <3>1 DEF Store, m
    <3> HIDE DEF h
    <3>5. /\ SameQueues(told, created) /\ told.emitted = {<<id, USER>>}
          /\ told.nextId = created.nextId /\ told.heap = h /\ told \in Store
      BY <1>9, <3>2, <3>3, <3>4 DEF Store, SameQueues
    <3> QED  BY <3>5 DEF h, m
  <2> HIDE DEF told
  <2>5. /\ SameQueues(Unref(told, p), told)
        /\ Unref(told, p).heap = [told.heap EXCEPT ![p] = Dropped(told.heap[p])]
        /\ Unref(told, p).nextId = told.nextId
        /\ Unref(told, p).emitted = told.emitted
    BY <1>3, <2>4, UnrefEffect
  <2>6. [n EXCEPT !.valid = FALSE].refs = 1  BY <1>5 DEF Note
  <2>7. Dropped(told.heap[p]) = Freed
    BY <1>3, <1>7, <1>9, <2>4, <2>6 DEF Dropped
  <2>8. Unref(told, p).heap = store.heap
    <3> DEFINE h == Unref(told, p).heap
    <3>1. h = [told.heap EXCEPT ![p] = Freed]  BY <2>5, <2>7
    <3> HIDE DEF h
    <3>2. h \in [Ptr -> Note \cup {Freed}] /\ h[p] = store.heap[p]
      BY <1>3, <2>4, <3>1 DEF Store
    <3>3. \A o \in Ptr : h[o] = store.heap[o]
      BY <1>3, <1>7, <1>9, <2>4, <3>1, <3>2
    <3>4. h = store.heap  BY <1>9, <3>2, <3>3
    <3> QED  BY <3>4 DEF h
  <2> QED  BY <1>7, <1>9, <1>10, <2>2, <2>4, <2>5, <2>8 DEF SameQueues
<1>11. CASE ~kind.empty
  <2>1. store' = inserted
    BY <1>1, <1>11 DEF created, n, WakeUp, RunWith
  <2>2. id = 0 => created.nextId < MaxId  BY <1>7, <1>11 DEF Notify
  <2>3. ASSUME NEW r \in Store, Good(r),
               store' = r \/ store' = NotificationClose(r, p, UNDEF),
               NEW q \in Store, Newcomer(q, p, id), Placed(r, q, p),
               Inherits(r, q, p, id)
        PROVE  \E o \in Ptr, b \in Store, c \in Store :
                 /\ Newcomer(b, o, id) /\ Placed(c, b, o) /\ Good(c)
                 /\ Inherits(c, b, o, id)
                 /\ store' = c \/ store' = NotificationClose(c, o, UNDEF)
    BY <1>3, <2>3
  <2>4. CASE id # 0
    <3> DEFINE r == ReplaceId(created, p)
    <3>1. store' = r \/ store' = NotificationClose(r, p, UNDEF)
      BY <1>5, <1>6, <1>11, <2>1, <2>4 DEF Insert
    <3>2. Good(r) /\ r \in Store  BY <1>6, <1>8, ReplaceIdKeeps DEF Good
    <3>3. Newcomer(created, p, id)
      BY <1>3, <1>5, <1>6, <1>7, <1>8, <1>9, <2>4 DEF Newcomer
    <3>4. Placed(r, created, p) /\ Inherits(r, created, p, id)
      BY <1>5, <1>6, <1>8, ReplaceIdPlaces DEF Inherits
    <3> HIDE DEF r
    <3> QED  BY <1>9, <1>11, <2>3, <3>1, <3>2, <3>3, <3>4
  <2>5. CASE id = 0
    <3> DEFINE q == AssignId(created, p)
               r == StackOrEnqueue(q, p)
    <3>1. store' = r \/ store' = NotificationClose(r, p, UNDEF)
      BY <1>5, <1>6, <1>11, <2>1, <2>5 DEF Insert
    <3>2. Newcomer(q, p, 0)
      BY <1>3, <1>5, <1>6, <1>7, <1>8, <1>9, <2>2, <2>5, AssignedNewcomer
    <3> HIDE DEF q
    <3>3. Good(q) /\ q \in Store /\ Adrift(q, p)
      BY <3>2 DEF Newcomer, Good
    <3>4. Good(r) /\ r \in Store  BY <3>3, StackOrEnqueueKeeps DEF Good
    <3>5. Placed(r, q, p)  BY <3>3, StackOrEnqueuePlaces
    <3>6. Inherits(r, q, p, id)  BY <2>5 DEF Inherits
    <3> HIDE DEF r
    <3> QED  BY <1>11, <2>3, <2>5, <3>1, <3>2, <3>3, <3>4, <3>5, <3>6
  <2> QED  BY <2>4, <2>5
<1> QED  BY <1>10, <1>11


LEMMA NewcomerFacts ==
  ASSUME Good(store), NEW q, NEW p, NEW id, Newcomer(q, p, id)
  PROVE  /\ p \in Ptr /\ p \notin Queued(store)
         /\ Queued(q) = Queued(store) /\ OpenIn(q) = OpenIn(store)
         /\ Queued(store) \subseteq Ptr /\ OpenIn(store) \subseteq Queued(store)
         /\ \A o \in Queued(store) : q.heap[o] = store.heap[o]
<1>1. SameQueues(q, store) /\ Adrift(q, p) /\ p \in Ptr
  BY AdriftFacts DEF Newcomer
<1>2. Queued(q) = Queued(store) /\ OpenIn(q) = OpenIn(store)
  BY <1>1 DEF SameQueues, Queued, OpenIn
<1>3. p \notin Queued(store)  BY <1>1, <1>2 DEF Adrift
<1>4. Queued(store) \subseteq Ptr  BY GoodFacts
<1>5. \A o \in Queued(store) : q.heap[o] = store.heap[o]
  BY <1>3, <1>4 DEF Newcomer
<1> QED  BY <1>1, <1>2, <1>3, <1>4, <1>5 DEF OpenIn, Queued

(* What Placed keeps, in one form for its two cases: gone is the set of    *)
(* the replaced, which is empty or a singleton.                            *)
LEMMA PlacedFacts ==
  ASSUME NEW q, Good(q), NEW p, Adrift(q, p), NEW r, Placed(r, q, p)
  PROVE  \E gone \in SUBSET OpenIn(q) :
           /\ Queued(r) = (Queued(q) \ gone) \cup {p}
           /\ OpenIn(r) = (OpenIn(q) \ gone) \cup {p}
           /\ r.history = q.history /\ r.nextId = q.nextId
           /\ \A o \in Ptr \ gone : r.heap[o] = q.heap[o]
           /\ \A o \in gone : LetGo(r, q, o)
           /\ p \notin gone
<1>1. OpenIn(q) \cap ToSet(q.history) = {}  BY GoodFacts DEF OpenIn
<1>2. p \notin OpenIn(q)  BY AdriftFacts DEF OpenIn
<1>3. CASE OpenIn(r) = OpenIn(q) \cup {p} /\ r.heap = q.heap
  <2>1. Queued(r) = Queued(q) \cup {p}
    BY <1>3 DEF Placed, Queued, OpenIn
  <2> WITNESS {} \in SUBSET OpenIn(q)
  <2> QED  BY <1>3, <2>1 DEF Placed
<1>4. CASE \E old \in OpenIn(q), tell \in BOOLEAN : InPlaceOf(r, q, p, old, tell)
  <2>1. PICK old \in OpenIn(q), tell \in BOOLEAN : InPlaceOf(r, q, p, old, tell)
    BY <1>4
  <2>2. /\ OpenIn(r) = (OpenIn(q) \ {old}) \cup {p}
        /\ \A o \in Ptr \ {old} : r.heap[o] = q.heap[o]
        /\ LetGo(r, q, old)
    BY <2>1 DEF InPlaceOf
  <2>3. Queued(r) = (Queued(q) \ {old}) \cup {p}
    BY <1>1, <2>2 DEF Placed, Queued, OpenIn
  <2> WITNESS {old} \in SUBSET OpenIn(q)
  <2> QED  BY <1>2, <2>2, <2>3 DEF Placed
<1> QED  BY <1>3, <1>4 DEF Placed

LEMMA ToldPlaced ==
  ASSUME Good(store), Told(store), NEW q, NEW p, NEW id, Newcomer(q, p, id),
         NEW r, Good(r), Placed(r, q, p)
  PROVE  Told(r)
<1>1. Good(q) /\ Adrift(q, p) /\ SameQueues(q, store)  BY DEF Newcomer
<1>2. PICK gone \in SUBSET OpenIn(q) :
        /\ Queued(r) = (Queued(q) \ gone) \cup {p}
        /\ r.history = q.history
        /\ \A o \in Ptr \ gone : r.heap[o] = q.heap[o]
        /\ p \notin gone
  BY <1>1, PlacedFacts
<1>3. /\ p \in Ptr /\ p \notin Queued(store)
      /\ Queued(q) = Queued(store) /\ Queued(store) \subseteq Ptr
      /\ \A o \in Queued(store) : q.heap[o] = store.heap[o]
  BY NewcomerFacts
<1>4. \A o \in Queued(r) : \/ o = p
                           \/ o \in Queued(store) /\ r.heap[o] = store.heap[o]
  BY <1>2, <1>3
<1>5. r.heap[p] = q.heap[p]  BY <1>2, <1>3
<1>6. ~r.heap[p].redisplayed  BY <1>5 DEF Newcomer
<1>7. r.history = store.history  BY <1>1, <1>2 DEF SameQueues
<1>8. \A o \in ToSet(r.history) : o # p /\ o \in Queued(r)
  BY <1>3, <1>7 DEF Queued
<1> QED  BY <1>4, <1>6, <1>7, <1>8 DEF Told

LEMMA ToldArrives ==
  ASSUME UpdateInv, Told(store), Arrives, Good(store')
  PROVE  Told(store')
<1>0. Good(store)  BY DEF UpdateInv
<1>1. PICK kind \in Kinds, id \in RequestableIds, stamp \in Stamps :
        Notify(kind, id, stamp)
  BY DEF Arrives
<1>2. CASE SameQueues(store', store) /\ store'.heap = store.heap
  BY <1>2 DEF Told, SameQueues, Queued
<1>3. CASE \E p \in Ptr, q \in Store, r \in Store :
             /\ Newcomer(q, p, id) /\ Placed(r, q, p) /\ Good(r)
             /\ store' = r \/ store' = NotificationClose(r, p, UNDEF)
  <2>1. PICK p \in Ptr, q \in Store, r \in Store :
             /\ Newcomer(q, p, id) /\ Placed(r, q, p) /\ Good(r)
             /\ store' = r \/ store' = NotificationClose(r, p, UNDEF)
    BY <1>3
  <2>2. Told(r)  BY <1>0, <2>1, ToldPlaced
  <2>3. CASE store' = r  BY <2>2, <2>3
  <2>4. CASE store' = NotificationClose(r, p, UNDEF)
    <3>2. Orderly(store', r)
      BY <2>1, <2>4, CloseIdOrderly DEF NotificationClose, Reasons
    <3> QED  BY <2>1, <2>2, <3>2, ToldKept DEF Orderly
  <2> QED  BY <2>1, <2>3, <2>4
<1> QED  BY <1>1, <1>2, <1>3, ArrivalEffect

---------------------------------------------------------------------------
(* History                                                                 *)

LEMMA ToldQuiet ==
  ASSUME Good(store), Told(store)
  PROVE  Told(Quiet)
BY QuietKeeps DEF Told, SameQueues, Queued

LEMMA ToldStep ==
  ASSUME UpdateInv, Good(store'), Told(store), Next
  PROVE  Told(store')
<1> DEFINE S == { q \in Store : Good(q) /\ Told(q) }
<1>1. \A q \in S : \A r : Orderly(r, q) => r \in S
  <2>1. ASSUME NEW q \in S, NEW r, Orderly(r, q)
        PROVE  r \in S
    <3>1. Good(r) /\ Kept(r, q)  BY <2>1 DEF Orderly
    <3>2. Told(r)  BY <3>1, ToldKept
    <3> QED  BY <3>1, <3>2 DEF Good
  <2> QED  BY <2>1
<1>2. \A q \in S : Good(q)  OBVIOUS
<1>3. Quiet \in S
  BY QuietKeeps, ToldQuiet DEF UpdateInv, Good
<1> HIDE DEF S
<1>4. Closed(S)  BY <1>1, <1>2, ClosedByOrderly
<1>5. Arrives \/ store' \in S  BY <1>3, <1>4, StepStaysIn
<1> QED  BY <1>5, ToldArrives DEF S

LEMMA ToldHolds == Spec => []Told(store)
<1>1. Init => Told(store)
  <2> SUFFICES ASSUME Init PROVE Told(store)
    OBVIOUS
  <2>1. /\ store.displayed = <<>> /\ store.waiting = <<>>
        /\ store.history = <<>>
    BY DEF Init, EmptyStore
  <2>2. Queued(store) = {} /\ ToSet(store.history) = {}
    BY <2>1, NoElements DEF Queued
  <2>3. Len(store.history) = 0  BY <2>1
  <2>4. HistoryLength > 0 => Len(store.history) <= HistoryLength
    BY <2>3, QueuesAssumption
  <2> QED  BY <2>2, <2>4 DEF Told
<1>2. IInv /\ IInv' /\ Told(store) /\ [Next]_vars => Told(store)'
  <2> SUFFICES ASSUME IInv, IInv', Told(store), [Next]_vars
               PROVE  Told(store')
    OBVIOUS
  <2>1. UpdateInv /\ Good(store')
    BY IInvParts, IInvPartsNext DEF UpdateInv
  <2>2. CASE Next  BY <2>1, <2>2, ToldStep
  <2>3. CASE UNCHANGED vars  BY <2>3 DEF vars, Told, Queued
  <2> QED  BY <2>2, <2>3
<1> QED  BY <1>1, <1>2, IInvHolds, PTL DEF Spec

(* History is never longer than history_length, and whoever is in it is    *)
(* closed for its client.  The second is not inductive: a notification     *)
(* shown again from history goes back without a signal                     *)
(* (queues_notification_close_id), so it must be that one that was shown   *)
(* again had its signal before (Told).                                     *)
THEOREM HistoryIsSound == Spec => []HistorySound
<1>1. Told(store) => HistorySound  BY DEF Told, HistorySound, history, heap
<1> QED  BY <1>1, ToldHolds, PTL


---------------------------------------------------------------------------
(* Memory                                                                  *)

(* Every reference to a notification is its queue's or one of the held[p]  *)
(* that others have, and those in locked are locked; what is queued has an *)
(* id of its own that dunst has handed out.                                *)
Balanced(q, held, locked) ==
  /\ \A p \in Ptr : q.heap[p] # Freed =>
       /\ q.heap[p].refs = held[p] + (IF p \in Queued(q) THEN 1 ELSE 0)
       /\ q.heap[p].locked <=> p \in locked
  /\ \A p \in Ptr : held[p] > 0 => q.heap[p] # Freed
  /\ \A p \in Queued(q) : q.heap[p].id \in 2..q.nextId
  /\ Unique(q)

(* Locks come with references. *)
Holding(held, locked) ==
  /\ held \in [Ptr -> Nat]
  /\ \A p \in locked : p \in Ptr /\ held[p] > 0

(* Without the menus the queues hold all references.                       *)
Tidy(q) ==
  /\ \A p \in Ptr : q.heap[p] # Freed =>
       /\ p \in Queued(q)
       /\ q.heap[p].refs = 1 /\ ~q.heap[p].locked
       /\ q.heap[p].id \in 2..q.nextId
  /\ Unique(q)

NoneHeld == [p \in Ptr |-> 0]

LEMMA NothingHeld == Holding(NoneHeld, {})
BY DEF Holding, NoneHeld

LEMMA TidyIsBalanced ==
  ASSUME NEW q, Good(q)
  PROVE  Tidy(q) <=> Balanced(q, NoneHeld, {})
<1>1. ASSUME Tidy(q) PROVE Balanced(q, NoneHeld, {})
  <2>1. \A p \in Queued(q) : p \in Ptr /\ q.heap[p] # Freed  BY GoodFacts
  <2>2. \A p \in Ptr : NoneHeld[p] = 0  BY DEF NoneHeld
  <2> HIDE DEF NoneHeld
  <2> QED  BY <1>1, <2>1, <2>2 DEF Tidy, Balanced
<1>2. ASSUME Balanced(q, NoneHeld, {}) PROVE Tidy(q)
  <2>1. \A p \in Ptr : NoneHeld[p] = 0  BY DEF NoneHeld
  <2> HIDE DEF NoneHeld
  <2>2. ASSUME NEW p \in Ptr, q.heap[p] # Freed
        PROVE  p \in Queued(q) /\ q.heap[p].refs = 1 /\ ~q.heap[p].locked
    <3>1. q.heap[p].refs \in Nat \ {0}
      <4>1. q.heap[p] \in Note  BY <2>2, GoodFacts
      <4> QED  BY <4>1 DEF Note
    <3>2. /\ q.heap[p].refs = IF p \in Queued(q) THEN 1 ELSE 0
          /\ ~q.heap[p].locked
      BY <1>2, <2>1, <2>2 DEF Balanced
    <3> QED  BY <3>1, <3>2
  <2> QED  BY <1>2, <2>2 DEF Tidy, Balanced
<1> QED  BY <1>1, <1>2

LEMMA BalancedKept ==
  ASSUME NEW q, Good(q), NEW held, NEW locked, Holding(held, locked),
         Balanced(q, held, locked), NEW r, Orderly(r, q)
  PROVE  Balanced(r, held, locked)
<1>0. Good(r) /\ Kept(r, q) /\ Releases(r, q)  BY DEF Orderly, Balanced
<1>1. /\ Queued(r) \subseteq Queued(q) /\ r.nextId = q.nextId
      /\ \A p \in Queued(r) : /\ r.heap[p].id = q.heap[p].id
                              /\ r.heap[p].refs = q.heap[p].refs
                              /\ r.heap[p].locked = q.heap[p].locked
  BY <1>0 DEF Kept
<1>2. /\ \A p \in Queued(q) : p \in Ptr /\ q.heap[p] # Freed
      /\ \A p \in Queued(r) : r.heap[p] # Freed
  BY <1>0, GoodFacts
<1>3. \A p \in Ptr : held[p] \in Nat  BY DEF Holding
<1>4. ASSUME NEW p \in Ptr
      PROVE  /\ r.heap[p] # Freed =>
                  /\ r.heap[p].refs = held[p] + (IF p \in Queued(r) THEN 1 ELSE 0)
                  /\ r.heap[p].locked <=> p \in locked
             /\ held[p] > 0 => r.heap[p] # Freed
  <2>1. CASE p \in Queued(r)
    <3>1. /\ q.heap[p].refs = held[p] + 1
          /\ q.heap[p].locked <=> p \in locked
      BY <1>1, <1>2, <2>1 DEF Balanced
    <3> QED  BY <1>1, <1>2, <2>1, <3>1
  <2>2. CASE p \in Queued(q) \ Queued(r)
    <3>1. /\ q.heap[p].refs = held[p] + 1
          /\ q.heap[p].locked <=> p \in locked
      BY <1>2, <2>2 DEF Balanced
    <3>2. LetGo(r, q, p)  BY <1>0, <2>2 DEF Releases
    <3>3. CASE q.heap[p].refs = 1 /\ r.heap[p] = Freed
      BY <1>3, <3>1, <3>3
    <3>4. CASE /\ q.heap[p].refs # 1 /\ r.heap[p] \in Note
               /\ r.heap[p].refs = q.heap[p].refs - 1
               /\ r.heap[p].locked = q.heap[p].locked
      <4>1. r.heap[p] # Freed  BY <3>4, QueuesAssumption
      <4> QED  BY <1>3, <2>2, <3>1, <3>4, <4>1
    <3> QED  BY <3>2, <3>3, <3>4 DEF LetGo
  <2>3. CASE p \notin Queued(q)
    <3>1. p \notin Queued(r)  BY <1>1, <2>3
    <3>2. /\ q.heap[p] # Freed => /\ q.heap[p].refs = held[p] + 0
                                  /\ q.heap[p].locked <=> p \in locked
          /\ held[p] > 0 => q.heap[p] # Freed
      BY <2>3 DEF Balanced
    <3>3. CASE r.heap[p] = q.heap[p]  BY <3>1, <3>2, <3>3
    <3>4. CASE q.heap[p] \in Note /\ r.heap[p] \in Note
               /\ Alike(r.heap[p], q.heap[p])
      <4>1. q.heap[p] # Freed /\ r.heap[p] # Freed
        BY <3>4, QueuesAssumption
      <4> QED  BY <3>1, <3>2, <3>4, <4>1 DEF Alike
    <3> QED  BY <1>0, <2>3, <3>3, <3>4 DEF Releases
  <2> QED  BY <2>1, <2>2, <2>3
<1>5. \A p \in Queued(r) : r.heap[p].id \in 2..r.nextId
  BY <1>1 DEF Balanced
<1>6. Unique(r)  BY <1>1 DEF Balanced, Unique
<1> QED  BY <1>4, <1>5, <1>6 DEF Balanced

LEMMA TidyKept ==
  ASSUME NEW q, Good(q), Tidy(q), NEW r, Orderly(r, q)
  PROVE  Tidy(r)
<1>1. Balanced(r, NoneHeld, {})
  BY TidyIsBalanced, NothingHeld, BalancedKept
<1> QED  BY <1>1, TidyIsBalanced DEF Orderly

(* Clients that ask only for ids that are open leave every id with one     *)
(* notification: the one that has it makes way.                            *)
LEMMA RequestedIsTakenOver ==
  ASSUME ClientIds # "any", Good(store), Unique(store),
         NEW id \in RequestableIds, id # 0,
         NEW q, NEW p, Newcomer(q, p, id), NEW r, Inherits(r, q, p, id)
  PROVE  \E old \in OpenIn(q), tell \in BOOLEAN :
           /\ ~tell /\ InPlaceOf(r, q, p, old, tell)
           /\ store.heap[old].id = id /\ store.heap[old].valid
<1>1. ClientIds = "open" \/ ClientIds = "none"  BY DaemonAssumption
<1>2. id \in OpenIds  BY <1>1 DEF RequestableIds
<1>3. PICK o \in OpenIn(store) : store.heap[o].valid /\ store.heap[o].id = id
  BY <1>2 DEF OpenIds, OpenIn, heap, displayed, waiting
<1>4. /\ OpenIn(q) = OpenIn(store) /\ OpenIn(store) \subseteq Queued(store)
      /\ \A e \in Queued(store) : q.heap[e] = store.heap[e]
  BY NewcomerFacts
<1>5. PICK old \in OpenIn(q), tell \in BOOLEAN :
        ~tell /\ InPlaceOf(r, q, p, old, tell)
  BY <1>3, <1>4 DEF Inherits
<1>6. q.heap[old].id = q.heap[p].id /\ q.heap[p].id = id
  BY <1>5 DEF InPlaceOf, Newcomer
<1>7. old = o  BY <1>3, <1>4, <1>6 DEF Unique
<1> QED  BY <1>3, <1>5, <1>7

LEMMA BalancedPlaced ==
  ASSUME ClientIds # "any", Good(store),
         NEW held, NEW locked, Holding(held, locked),
         Balanced(store, held, locked),
         NEW id \in RequestableIds, NEW q, NEW p, Newcomer(q, p, id),
         NEW r, Good(r), Placed(r, q, p), Inherits(r, q, p, id)
  PROVE  Balanced(r, held, locked)
<1>0. Unique(store)  BY DEF Balanced
<1>1. Good(q) /\ Adrift(q, p)  BY DEF Newcomer
<1>2. PICK gone \in SUBSET OpenIn(q) :
        /\ Queued(r) = (Queued(q) \ gone) \cup {p}
        /\ r.nextId = q.nextId
        /\ \A o \in Ptr \ gone : r.heap[o] = q.heap[o]
        /\ \A o \in gone : LetGo(r, q, o)
        /\ p \notin gone
        /\ id # 0 => \A o \in Queued(r) \ {p} : q.heap[o].id # id
  <2>1. CASE id = 0
    <3>1. PICK gone \in SUBSET OpenIn(q) :
            /\ Queued(r) = (Queued(q) \ gone) \cup {p}
            /\ r.nextId = q.nextId
            /\ \A o \in Ptr \ gone : r.heap[o] = q.heap[o]
            /\ \A o \in gone : LetGo(r, q, o)
            /\ p \notin gone
      BY <1>1, PlacedFacts
    <3> WITNESS gone \in SUBSET OpenIn(q)
    <3> QED  BY <2>1, <3>1
  <2>2. CASE id # 0
    <3>1. PICK old \in OpenIn(q), tell \in BOOLEAN :
            /\ ~tell /\ InPlaceOf(r, q, p, old, tell)
            /\ store.heap[old].id = id
      BY <1>0, <2>2, RequestedIsTakenOver
    <3>2. /\ OpenIn(r) = (OpenIn(q) \ {old}) \cup {p}
          /\ \A o \in Ptr \ {old} : r.heap[o] = q.heap[o]
          /\ LetGo(r, q, old)
      BY <3>1 DEF InPlaceOf
    <3>3. OpenIn(q) \cap ToSet(q.history) = {} /\ p \notin OpenIn(q)
      BY <1>1, GoodFacts, AdriftFacts DEF OpenIn
    <3>4. Queued(r) = (Queued(q) \ {old}) \cup {p}
      BY <3>2, <3>3 DEF Placed, Queued, OpenIn
    <3>5. /\ Queued(q) = Queued(store) /\ OpenIn(q) = OpenIn(store)
          /\ OpenIn(store) \subseteq Queued(store)
          /\ \A o \in Queued(store) : q.heap[o] = store.heap[o]
      BY NewcomerFacts
    <3>6. \A o \in Queued(r) \ {p} : q.heap[o].id # id
      BY <1>0, <3>1, <3>4, <3>5 DEF Unique
    <3> WITNESS {old} \in SUBSET OpenIn(q)
    <3> QED  BY <3>2, <3>3, <3>4, <3>6 DEF Placed
  <2> QED  BY <2>1, <2>2
<1>3. /\ p \in Ptr /\ p \notin Queued(store)
      /\ Queued(q) = Queued(store) /\ Queued(store) \subseteq Ptr
      /\ OpenIn(q) \subseteq Queued(store)
      /\ \A o \in Queued(store) : q.heap[o] = store.heap[o]
  BY NewcomerFacts
<1>4. store.nextId \in 1..MaxId /\ MaxId \in Nat
  BY GoodFacts, NotificationAssumption
<1>5. /\ \A o \in Ptr : held[o] \in Nat
      /\ store.heap[p] = Freed /\ held[p] = 0 /\ p \notin locked
  <2>1. store.heap[p] = Freed /\ \A o \in Ptr : held[o] \in Nat
    BY DEF Newcomer, Holding
  <2>2. ~(held[p] > 0)  BY <1>3, <2>1 DEF Balanced
  <2> QED  BY <1>3, <2>1, <2>2 DEF Holding
<1>6. /\ q.heap[p].refs = 1 /\ ~q.heap[p].locked
      /\ q.nextId >= store.nextId /\ q.nextId \in Nat
      /\ q.heap[p].id \in 2..q.nextId
      /\ id = 0 => q.heap[p].id = store.nextId + 1
      /\ id # 0 => q.heap[p].id = id
  <2>1. q.heap[p].refs = 1 /\ ~q.heap[p].locked  BY DEF Newcomer
  <2>2. CASE id = 0
    <3>1. q.nextId = store.nextId + 1 /\ q.heap[p].id = q.nextId
      BY <2>2 DEF Newcomer
    <3> HIDE DEF Newcomer
    <3> QED  BY <1>4, <2>1, <2>2, <3>1
  <2>3. CASE id # 0
    <3>1. q.nextId = store.nextId /\ q.heap[p].id = id
      BY <2>3 DEF Newcomer
    <3>2. PICK old \in OpenIn(q), tell \in BOOLEAN : store.heap[old].id = id
      BY <1>0, <2>3, RequestedIsTakenOver
    <3>3. id \in 2..store.nextId  BY <1>3, <3>2 DEF Balanced
    <3> QED  BY <1>4, <2>1, <2>3, <3>1, <3>3
  <2> QED  BY <2>2, <2>3
<1>7. r.heap[p] = q.heap[p] /\ p \in Queued(r)  BY <1>2, <1>3
<1>8. \A o \in Queued(r) \ {p} :
        o \in Queued(store) /\ r.heap[o] = store.heap[o]
  BY <1>2, <1>3
<1>9. \A o \in Queued(store) : store.heap[o].id \in 2..store.nextId
  BY DEF Balanced
<1>10. \A o \in Queued(r) \ {p} : r.heap[o].id # r.heap[p].id
  <2>1. CASE id = 0  BY <1>4, <1>6, <1>7, <1>8, <1>9, <2>1
  <2>2. CASE id # 0  BY <1>2, <1>3, <1>6, <1>7, <1>8, <2>2
  <2> QED  BY <2>1, <2>2
<1>11. ASSUME NEW o \in Ptr
       PROVE  /\ r.heap[o] # Freed =>
                   /\ r.heap[o].refs = held[o] + (IF o \in Queued(r) THEN 1 ELSE 0)
                   /\ r.heap[o].locked <=> o \in locked
              /\ held[o] > 0 => r.heap[o] # Freed
  <2>1. CASE o = p  BY <1>5, <1>6, <1>7, <2>1
  <2>2. CASE o # p /\ o \in gone
    <3>1. o \in Queued(store) /\ o \notin Queued(r) /\ q.heap[o] = store.heap[o]
      BY <1>2, <1>3, <2>2
    <3>2. store.heap[o] # Freed  BY <3>1, GoodFacts
    <3>3. /\ q.heap[o].refs = held[o] + 1
          /\ q.heap[o].locked <=> o \in locked
      BY <3>1, <3>2 DEF Balanced
    <3>4. LetGo(r, q, o)  BY <1>2, <2>2
    <3>5. CASE q.heap[o].refs = 1 /\ r.heap[o] = Freed
      BY <1>5, <3>3, <3>5
    <3>6. CASE /\ q.heap[o].refs # 1 /\ r.heap[o] \in Note
               /\ r.heap[o].refs = q.heap[o].refs - 1
               /\ r.heap[o].locked = q.heap[o].locked
      <4>1. r.heap[o] # Freed  BY <3>6, QueuesAssumption
      <4> QED  BY <1>5, <3>1, <3>3, <3>6, <4>1
    <3> QED  BY <3>4, <3>5, <3>6 DEF LetGo
  <2>3. CASE o # p /\ o \notin gone
    <3>1. o \in Queued(r) <=> o \in Queued(store)  BY <1>2, <1>3, <2>3
    <3>2. r.heap[o] = store.heap[o]  BY <1>2, <2>3 DEF Newcomer
    <3> QED  BY <3>1, <3>2 DEF Balanced
  <2> QED  BY <2>1, <2>2, <2>3
<1>12. ASSUME NEW o \in Queued(r)
       PROVE  r.heap[o].id \in 2..r.nextId
  <2>1. CASE o = p  BY <1>2, <1>6, <1>7, <2>1
  <2>2. CASE o # p
    <3>1. store.heap[o].id \in 2..store.nextId /\ r.heap[o] = store.heap[o]
      BY <1>8, <1>9, <2>2
    <3> QED  BY <1>2, <1>4, <1>6, <3>1
  <2> QED  BY <2>1, <2>2
<1>13. Unique(r)
  <2>1. \A o, e \in Queued(r) : r.heap[o].id = r.heap[e].id => o = e
    BY <1>0, <1>8, <1>10 DEF Unique
  <2> QED  BY <2>1 DEF Unique
<1> QED  BY <1>11, <1>12, <1>13 DEF Balanced

LEMMA TidyPlaced ==
  ASSUME ClientIds # "any", Good(store), Tidy(store),
         NEW id \in RequestableIds, NEW q, NEW p, Newcomer(q, p, id),
         NEW r, Good(r), Placed(r, q, p), Inherits(r, q, p, id)
  PROVE  Tidy(r)
<1>1. Balanced(r, NoneHeld, {})
  BY TidyIsBalanced, NothingHeld, BalancedPlaced
<1> QED  BY <1>1, TidyIsBalanced

LEMMA BalancedArrives ==
  ASSUME ClientIds # "any", UpdateInv,
         NEW held, NEW locked, Holding(held, locked),
         Balanced(store, held, locked), Arrives
  PROVE  Balanced(store', held, locked)
<1>0. Good(store)  BY DEF UpdateInv
<1>1. PICK kind \in Kinds, id \in RequestableIds, stamp \in Stamps :
        Notify(kind, id, stamp)
  BY DEF Arrives
<1>2. CASE /\ SameQueues(store', store) /\ store'.heap = store.heap
           /\ store'.nextId = store.nextId
  BY <1>2 DEF Balanced, Unique, SameQueues, Queued
<1>3. CASE \E p \in Ptr, q \in Store, r \in Store :
             /\ Newcomer(q, p, id) /\ Placed(r, q, p) /\ Good(r)
             /\ Inherits(r, q, p, id)
             /\ store' = r \/ store' = NotificationClose(r, p, UNDEF)
  <2>1. PICK p \in Ptr, q \in Store, r \in Store :
             /\ Newcomer(q, p, id) /\ Placed(r, q, p) /\ Good(r)
             /\ Inherits(r, q, p, id)
             /\ store' = r \/ store' = NotificationClose(r, p, UNDEF)
    BY <1>3
  <2>2. Balanced(r, held, locked)  BY <1>0, <2>1, BalancedPlaced
  <2>3. CASE store' = r  BY <2>2, <2>3
  <2>4. CASE store' = NotificationClose(r, p, UNDEF)
    <3>1. Orderly(store', r)
      BY <2>1, <2>4, CloseIdOrderly DEF NotificationClose, Reasons
    <3> QED  BY <2>1, <2>2, <3>1, BalancedKept
  <2> QED  BY <2>1, <2>3, <2>4
<1> QED  BY <1>1, <1>2, <1>3, ArrivalEffect

LEMMA BalancedQuiet ==
  ASSUME Good(store), NEW held, NEW locked, Balanced(store, held, locked)
  PROVE  Balanced(Quiet, held, locked)
BY QuietKeeps DEF Balanced, Unique, SameQueues, Queued

LEMMA BalancedStep ==
  ASSUME ClientIds # "any", UpdateInv,
         NEW held, NEW locked, Holding(held, locked),
         Balanced(store, held, locked), Next
  PROVE  Balanced(store', held, locked)
<1> DEFINE S == { q \in Store : Good(q) /\ Balanced(q, held, locked) }
<1>1. \A q \in S : \A r : Orderly(r, q) => r \in S
  <2>1. ASSUME NEW q \in S, NEW r, Orderly(r, q)
        PROVE  r \in S
    <3>1. Good(r)  BY <2>1 DEF Orderly
    <3>2. Balanced(r, held, locked)  BY <2>1, BalancedKept
    <3> QED  BY <3>1, <3>2 DEF Good
  <2> QED  BY <2>1
<1>2. \A q \in S : Good(q)  OBVIOUS
<1>3. Quiet \in S
  BY QuietKeeps, BalancedQuiet DEF UpdateInv, Good
<1> HIDE DEF S
<1>4. Closed(S)  BY <1>1, <1>2, ClosedByOrderly
<1>5. Arrives \/ store' \in S  BY <1>3, <1>4, StepStaysIn
<1> QED  BY <1>5, BalancedArrives DEF S

LEMMA TidyQuiet ==
  ASSUME Good(store), Tidy(store)
  PROVE  Tidy(Quiet)
BY QuietKeeps DEF Tidy, Unique, SameQueues, Queued

LEMMA TidyStep ==
  ASSUME ClientIds # "any", UpdateInv, Good(store'), Tidy(store), Next
  PROVE  Tidy(store')
<1>1. Balanced(store, NoneHeld, {})  BY TidyIsBalanced DEF UpdateInv
<1>2. Balanced(store', NoneHeld, {})  BY <1>1, NothingHeld, BalancedStep
<1> QED  BY <1>2, TidyIsBalanced

LEMMA TidyHolds ==
  ASSUME ClientIds # "any"
  PROVE  Spec => []Tidy(store)
<1>1. Init => Tidy(store)
  <2> SUFFICES ASSUME Init PROVE Tidy(store)
    OBVIOUS
  <2>1. /\ store.displayed = <<>> /\ store.waiting = <<>>
        /\ store.history = <<>> /\ store.heap = [p \in Ptr |-> Freed]
    BY DEF Init, EmptyStore
  <2>2. Queued(store) = {}
    BY <2>1, NoElements DEF Queued
  <2> QED  BY <2>1, <2>2 DEF Tidy, Unique
<1>2. IInv /\ IInv' /\ Tidy(store) /\ [Next]_vars => Tidy(store)'
  <2> SUFFICES ASSUME IInv, IInv', Tidy(store), [Next]_vars
               PROVE  Tidy(store')
    OBVIOUS
  <2>1. UpdateInv /\ Good(store')
    BY IInvParts, IInvPartsNext DEF UpdateInv
  <2>2. CASE Next  BY <2>1, <2>2, TidyStep
  <2>3. CASE UNCHANGED vars  BY <2>3 DEF vars, Tidy, Unique, Queued
  <2> QED  BY <2>2, <2>3
<1> QED  BY <1>1, <1>2, IInvHolds, PTL DEF Spec

(* No path through the queues forgets a notification without unreferencing *)
(* it, as long as clients ask only for ids that are open: what is dropped  *)
(* is freed because the queues hold its only reference, and nothing is     *)
(* dropped unnoticed because no two queued notifications share an id,      *)
(* which is how queues_notification_close_id finds them (Tidy).            *)
THEOREM NothingIsLost ==
  ASSUME ClientIds # "any"
  PROVE  Spec => []NothingLost
<1>1. Tidy(store) => NothingLost
  BY DEF Tidy, NothingLost, Owned, Open, Queued, heap, displayed, waiting, history
<1> QED  BY <1>1, TidyHolds, PTL


---------------------------------------------------------------------------
(* The promise to clients                                                  *)

IdsOpen(q) == { q.heap[p].id : p \in StillOpen(q) }

(* the ids dunst hands out between q and r *)
HandedOut(r, q) == (q.nextId + 1)..r.nextId

(* Between q and r exactly the ids of r's signals were closed. *)
Changes(r, q) ==
  /\ r.nextId >= q.nextId
  /\ ToldIds(r) \ {0} \subseteq IdsOpen(q) \cup HandedOut(r, q)
  /\ IdsOpen(r) = (IdsOpen(q) \cup HandedOut(r, q)) \ ToldIds(r)

Trusted(q) == Good(q) /\ Told(q) /\ Tidy(q)

LEMMA IdsOpenFacts ==
  ASSUME NEW q, Trusted(q)
  PROVE  /\ IdsOpen(q) \subseteq 2..q.nextId
         /\ \A p, o \in StillOpen(q) : q.heap[p].id = q.heap[o].id => p = o
<1>1. StillOpen(q) \subseteq Queued(q)  BY DEF StillOpen, OpenIn, Queued
<1>2. \A p \in Queued(q) : p \in Ptr /\ q.heap[p] # Freed
  BY GoodFacts DEF Trusted
<1> QED  BY <1>1, <1>2 DEF IdsOpen, Tidy, Unique, Trusted

LEMMA OrderlyChanges ==
  ASSUME NEW o, NEW q, Trusted(q), Changes(q, o), NEW r, Orderly(r, q)
  PROVE  Trusted(r) /\ Changes(r, o)
<1>1. Good(q) /\ Told(q) /\ Tidy(q)  BY DEF Trusted
<1>2. Good(r) /\ Kept(r, q) /\ Signals(r, q)  BY <1>1 DEF Orderly, Tidy
<1>3. Trusted(r)  BY <1>1, <1>2, ToldKept, TidyKept DEF Trusted
<1>4. r.nextId = q.nextId  BY <1>2 DEF Kept
<1>5. \A p \in StillOpen(r) : r.heap[p].id = q.heap[p].id
  BY <1>2 DEF Kept, StillOpen, OpenIn, Queued
<1> DEFINE closed == { q.heap[p].id : p \in StillOpen(q) \ StillOpen(r) }
<1>6. /\ StillOpen(r) \subseteq StillOpen(q)
      /\ ToldIds(r) = ToldIds(q) \cup closed
  BY <1>2 DEF Signals
<1>7. closed \subseteq IdsOpen(q)  BY DEF IdsOpen
<1>8. IdsOpen(r) = IdsOpen(q) \ closed
  BY <1>5, <1>6, IdsOpenFacts DEF IdsOpen
<1> HIDE DEF closed
<1>9. HandedOut(r, o) = HandedOut(q, o)  BY <1>4 DEF HandedOut
<1>10. Changes(r, o)
  BY <1>4, <1>6, <1>7, <1>8, <1>9 DEF Changes
<1> QED  BY <1>3, <1>10

LEMMA QuietChanges ==
  ASSUME Trusted(store)
  PROVE  Trusted(Quiet) /\ Changes(Quiet, store)
<1>1. Good(store) /\ Told(store) /\ Tidy(store)  BY DEF Trusted
<1>2. /\ Good(Quiet) /\ SameQueues(Quiet, store)
      /\ Quiet.heap = store.heap /\ Quiet.nextId = store.nextId
      /\ Quiet.emitted = {}
  BY <1>1, QuietKeeps DEF Quiet, Good, Store
<1>3. Trusted(Quiet)  BY <1>1, <1>2, ToldQuiet, TidyQuiet DEF Trusted
<1>4. IdsOpen(Quiet) = IdsOpen(store) /\ ToldIds(Quiet) = {}
  BY <1>2 DEF IdsOpen, StillOpen, OpenIn, SameQueues, ToldIds
<1>5. store.nextId \in Nat  BY <1>1, GoodFacts
<1>6. HandedOut(Quiet, store) = {}
  BY <1>2, <1>5 DEF HandedOut
<1>7. Quiet.nextId >= store.nextId  BY <1>2, <1>5
<1> QED  BY <1>3, <1>4, <1>6, <1>7 DEF Changes

(* what is open after p came in the place of gone *)
LEMMA IdsOpenPlaced ==
  ASSUME Trusted(store), NEW q, NEW p, NEW id, Newcomer(q, p, id),
         NEW r, NEW gone \in SUBSET OpenIn(q),
         OpenIn(r) = (OpenIn(q) \ gone) \cup {p}, p \notin gone,
         \A o \in Ptr \ gone : r.heap[o] = q.heap[o]
  PROVE  IdsOpen(r) =
           (IdsOpen(store) \ { store.heap[o].id : o \in gone \cap StillOpen(store) })
             \cup {q.heap[p].id}
<1>1. Good(store)  BY DEF Trusted
<1>2. /\ p \in Ptr /\ p \notin Queued(store)
      /\ OpenIn(q) = OpenIn(store) /\ Queued(store) \subseteq Ptr
      /\ OpenIn(store) \subseteq Queued(store)
      /\ \A o \in Queued(store) : q.heap[o] = store.heap[o]
  BY <1>1, NewcomerFacts
<1>3. r.heap[p] = q.heap[p] /\ q.heap[p].valid
  BY <1>2 DEF Newcomer
<1>4. \A o \in OpenIn(store) \ gone : r.heap[o] = store.heap[o]
  BY <1>2
<1>5. StillOpen(r) = (StillOpen(store) \ gone) \cup {p}
  BY <1>2, <1>3, <1>4 DEF StillOpen
<1>6. \A o \in StillOpen(store) \ gone : r.heap[o].id = store.heap[o].id
  BY <1>4 DEF StillOpen
<1>7. p \notin StillOpen(store)  BY <1>2 DEF StillOpen
<1>8. \A e, o \in StillOpen(store) : store.heap[e].id = store.heap[o].id => e = o
  BY IdsOpenFacts
<1>9. IdsOpen(r) = { store.heap[o].id : o \in StillOpen(store) \ gone }
                     \cup {q.heap[p].id}
  BY <1>3, <1>5, <1>6, <1>7 DEF IdsOpen
<1>10. { store.heap[o].id : o \in StillOpen(store) \ gone } =
         IdsOpen(store) \ { store.heap[o].id : o \in gone \cap StillOpen(store) }
  BY <1>8 DEF IdsOpen
<1> QED  BY <1>9, <1>10

LEMMA PlacedChanges ==
  ASSUME ClientIds # "any", Trusted(store),
         NEW id \in RequestableIds, NEW q, NEW p, Newcomer(q, p, id),
         NEW r, Good(r), Placed(r, q, p), Inherits(r, q, p, id)
  PROVE  Changes(r, store)
<1>0. Good(store) /\ Told(store) /\ Tidy(store)  BY DEF Trusted
<1>1. Good(q) /\ Adrift(q, p) /\ q.emitted = {}  BY DEF Newcomer
<1>2. /\ p \in Ptr /\ p \notin OpenIn(q)
      /\ OpenIn(q) = OpenIn(store) /\ OpenIn(store) \subseteq Queued(store)
      /\ \A o \in OpenIn(store) : q.heap[o] = store.heap[o]
  BY <1>0, <1>1, NewcomerFacts, AdriftFacts DEF OpenIn
<1>3. store.nextId \in Nat /\ IdsOpen(store) \subseteq 2..store.nextId
      /\ \A o \in OpenIn(store) : store.heap[o].id \in 2..store.nextId
  <2>1. \A o \in OpenIn(store) : o \in Ptr /\ store.heap[o] # Freed
    BY <1>0, <1>2, GoodFacts
  <2> QED  BY <1>0, <2>1, GoodFacts, IdsOpenFacts DEF Tidy, Unique
<1>4. r.nextId = q.nextId  BY DEF Placed
<1>5. CASE id # 0
  <2>1. PICK old \in OpenIn(q), tell \in BOOLEAN :
          /\ ~tell /\ InPlaceOf(r, q, p, old, tell)
          /\ store.heap[old].id = id /\ store.heap[old].valid
    BY <1>0, <1>5, RequestedIsTakenOver DEF Tidy
  <2>2. /\ OpenIn(r) = (OpenIn(q) \ {old}) \cup {p}
        /\ \A o \in Ptr \ {old} : r.heap[o] = q.heap[o]
        /\ r.emitted = {}
    BY <1>1, <2>1 DEF InPlaceOf
  <2>3. q.nextId = store.nextId /\ q.heap[p].id = id
    BY <1>5 DEF Newcomer
  <2>4. old \in StillOpen(store)  BY <1>2, <2>1 DEF StillOpen
  <2>5. { store.heap[o].id : o \in {old} \cap StillOpen(store) } = {id}
    BY <2>1, <2>4
  <2>6. IdsOpen(r) = (IdsOpen(store) \ {id}) \cup {id}
    <3> DEFINE gone == {old}
    <3>1. /\ gone \in SUBSET OpenIn(q) /\ p \notin gone
          /\ OpenIn(r) = (OpenIn(q) \ gone) \cup {p}
          /\ \A o \in Ptr \ gone : r.heap[o] = q.heap[o]
      BY <1>2, <2>2
    <3>2. { store.heap[o].id : o \in gone \cap StillOpen(store) } = {id}
      BY <2>5
    <3> HIDE DEF gone
    <3>3. IdsOpen(r) = (IdsOpen(store) \ { store.heap[o].id :
                          o \in gone \cap StillOpen(store) }) \cup {q.heap[p].id}
      BY <3>1, IdsOpenPlaced
    <3> QED  BY <2>3, <3>2, <3>3
  <2>7. id \in IdsOpen(store)  BY <2>1, <2>4 DEF IdsOpen
  <2>8. ToldIds(r) = {}  BY <2>2 DEF ToldIds
  <2>9. HandedOut(r, store) = {} /\ r.nextId >= store.nextId
    BY <1>3, <1>4, <2>3 DEF HandedOut
  <2> QED  BY <2>6, <2>7, <2>8, <2>9 DEF Changes
<1>6. CASE id = 0
  <2>1. q.nextId = store.nextId + 1 /\ q.heap[p].id = store.nextId + 1
    BY <1>6 DEF Newcomer
  <2>2. /\ HandedOut(r, store) = {store.nextId + 1} /\ r.nextId >= store.nextId
        /\ store.nextId + 1 \notin IdsOpen(store)
    BY <1>3, <1>4, <2>1 DEF HandedOut
  <2>3. CASE OpenIn(r) = OpenIn(q) \cup {p} /\ r.heap = q.heap /\ r.emitted = q.emitted
    <3> DEFINE gone == {}
    <3>1. { store.heap[o].id : o \in gone \cap StillOpen(store) } = {}
      OBVIOUS
    <3>2. /\ gone \in SUBSET OpenIn(q) /\ p \notin gone
          /\ OpenIn(r) = (OpenIn(q) \ gone) \cup {p}
          /\ \A o \in Ptr \ gone : r.heap[o] = q.heap[o]
      BY <2>3
    <3> HIDE DEF gone
    <3>3. IdsOpen(r) = (IdsOpen(store) \ { store.heap[o].id :
                          o \in gone \cap StillOpen(store) }) \cup {q.heap[p].id}
      BY <3>2, IdsOpenPlaced
    <3>4. ToldIds(r) = {}  BY <1>1, <2>3 DEF ToldIds
    <3> QED  BY <2>1, <2>2, <3>1, <3>3, <3>4 DEF Changes
  <2>4. CASE \E old \in OpenIn(q), tell \in BOOLEAN : InPlaceOf(r, q, p, old, tell)
    <3>1. PICK old \in OpenIn(q), tell \in BOOLEAN : InPlaceOf(r, q, p, old, tell)
      BY <2>4
    <3>2. /\ OpenIn(r) = (OpenIn(q) \ {old}) \cup {p}
          /\ \A o \in Ptr \ {old} : r.heap[o] = q.heap[o]
          /\ r.emitted = IF tell /\ q.heap[old].valid
                         THEN q.emitted \cup {<<q.heap[old].id, TIME>>}
                         ELSE q.emitted
          /\ ~tell => q.heap[old].id = q.heap[p].id
      BY <3>1 DEF InPlaceOf
    <3>3. q.heap[old] = store.heap[old] /\ store.heap[old].id \in 2..store.nextId
      BY <1>2, <1>3
    <3>4. tell  BY <1>3, <2>1, <3>2, <3>3
    <3>5. IdsOpen(r) = (IdsOpen(store) \ { store.heap[o].id :
                          o \in {old} \cap StillOpen(store) }) \cup {q.heap[p].id}
      <4> DEFINE gone == {old}
      <4>1. /\ gone \in SUBSET OpenIn(q) /\ p \notin gone
            /\ OpenIn(r) = (OpenIn(q) \ gone) \cup {p}
            /\ \A o \in Ptr \ gone : r.heap[o] = q.heap[o]
        BY <1>2, <3>2
      <4> HIDE DEF gone
      <4>2. IdsOpen(r) = (IdsOpen(store) \ { store.heap[o].id :
                            o \in gone \cap StillOpen(store) }) \cup {q.heap[p].id}
        BY <4>1, IdsOpenPlaced
      <4> QED  BY <4>2 DEF gone
    <3>6. CASE store.heap[old].valid
      <4>1. r.emitted = {<<store.heap[old].id, TIME>>}
        BY <1>1, <3>2, <3>3, <3>4, <3>6
      <4>2. ToldIds(r) = {store.heap[old].id}
        <5>1. <<store.heap[old].id, TIME>>[1] = store.heap[old].id  OBVIOUS
        <5> QED  BY <4>1, <5>1 DEF ToldIds
      <4>3. old \in StillOpen(store)  BY <1>2, <3>6 DEF StillOpen
      <4>4. { store.heap[o].id : o \in {old} \cap StillOpen(store) }
              = {store.heap[old].id}
        BY <4>3
      <4>5. store.heap[old].id \in IdsOpen(store)  BY <4>3 DEF IdsOpen
      <4> QED  BY <2>1, <2>2, <3>5, <4>2, <4>4, <4>5 DEF Changes
    <3>7. CASE ~store.heap[old].valid
      <4>1. r.emitted = {}  BY <1>1, <3>2, <3>3, <3>7
      <4>2. ToldIds(r) = {}  BY <4>1 DEF ToldIds
      <4>3. { store.heap[o].id : o \in {old} \cap StillOpen(store) } = {}
        BY <3>7 DEF StillOpen
      <4> QED  BY <2>1, <2>2, <3>5, <4>2, <4>3 DEF Changes
    <3> QED  BY <3>6, <3>7
  <2> QED  BY <2>3, <2>4 DEF Placed
<1> QED  BY <1>5, <1>6


(* What clients ask for, whether or not closing is ignored, what the mouse *)
(* does and the steps of queues_update are all made of orderly changes.    *)
LEMMA StepChanges ==
  ASSUME ClientIds # "any",
         ClientIds = "none" \/ \A kind \in Kinds : ~kind.empty,
         UpdateInv, Trusted(store), Next
  PROVE  /\ store'.nextId >= store.nextId
         /\ ToldIds(store') \ {0} \subseteq IdsOpen(store) \cup HandedOut(store', store)
         /\ IdsOpen(store') =
              (IdsOpen(store) \cup HandedOut(store', store)) \ ToldIds(store')
<1> DEFINE S == { q \in Store : Trusted(q) /\ Changes(q, store) }
<1>0. Good(store)  BY DEF Trusted
<1>1. \A q \in S : \A r : Orderly(r, q) => r \in S
  <2>1. ASSUME NEW q \in S, NEW r, Orderly(r, q)
        PROVE  r \in S
    <3>1. Trusted(r) /\ Changes(r, store)  BY <2>1, OrderlyChanges
    <3> QED  BY <3>1 DEF Trusted, Good
  <2> QED  BY <2>1
<1>2. \A q \in S : Good(q)  BY DEF Trusted
<1>3. Quiet \in S
  BY QuietChanges DEF Trusted, Good
<1>4. \A q \in S : Changes(q, store)  OBVIOUS
<1> HIDE DEF S
<1>5. Closed(S)  BY <1>1, <1>2, ClosedByOrderly
<1>6. Arrives \/ store' \in S  BY <1>3, <1>5, StepStaysIn
<1>7. CASE store' \in S  BY <1>4, <1>7 DEF Changes
<1>8. CASE Arrives
  <2>1. PICK kind \in Kinds, id \in RequestableIds, stamp \in Stamps :
          Notify(kind, id, stamp)
    BY <1>8 DEF Arrives
  <2>2. CASE /\ kind.empty
             /\ SameQueues(store', store) /\ store'.heap = store.heap
             /\ store'.nextId = store.nextId
             /\ store'.emitted = {<<id, USER>>}
    <3>1. ClientIds = "none"  BY <2>2
    <3>2. id = 0  BY <3>1 DEF RequestableIds
    <3>3. ToldIds(store') = {0}
      <4>1. <<id, USER>>[1] = 0  BY <3>2
      <4> QED  BY <2>2, <4>1 DEF ToldIds
    <3>4. IdsOpen(store') = IdsOpen(store)
      BY <2>2 DEF IdsOpen, StillOpen, OpenIn, SameQueues
    <3>5. store.nextId \in Nat /\ IdsOpen(store) \subseteq 2..store.nextId
      BY <1>0, GoodFacts, IdsOpenFacts
    <3>6. HandedOut(store', store) = {} /\ store'.nextId >= store.nextId
          /\ 0 \notin IdsOpen(store)
      BY <2>2, <3>5 DEF HandedOut
    <3> QED  BY <3>3, <3>4, <3>6
  <2>3. CASE \E p \in Ptr, q \in Store, r \in Store :
               /\ Newcomer(q, p, id) /\ Placed(r, q, p) /\ Good(r)
               /\ Inherits(r, q, p, id)
               /\ store' = r \/ store' = NotificationClose(r, p, UNDEF)
    <3>1. PICK p \in Ptr, q \in Store, r \in Store :
               /\ Newcomer(q, p, id) /\ Placed(r, q, p) /\ Good(r)
               /\ Inherits(r, q, p, id)
               /\ store' = r \/ store' = NotificationClose(r, p, UNDEF)
      BY <2>3
    <3>2. Changes(r, store)  BY <3>1, PlacedChanges
    <3>3. Trusted(r)
      BY <1>0, <3>1, ToldPlaced, TidyPlaced DEF Trusted
    <3>4. CASE store' = r  BY <3>2, <3>4 DEF Changes
    <3>5. CASE store' = NotificationClose(r, p, UNDEF)
      <4>1. Orderly(store', r)
        BY <3>1, <3>5, CloseIdOrderly DEF NotificationClose, Reasons
      <4>2. Changes(store', store)
        <5>1. ASSUME NEW c, Orderly(c, r) PROVE Changes(c, store)
          BY <3>2, <3>3, <5>1, OrderlyChanges
        <5> QED  BY <4>1, <5>1
      <4> QED  BY <4>2 DEF Changes
    <3> QED  BY <3>1, <3>4, <3>5
  <2> QED  BY <2>1, <2>2, <2>3, ArrivalEffect
<1> QED  BY <1>6, <1>7, <1>8

Phase(q, id) ==
  IF id \in IdsOpen(q) THEN "open"
  ELSE IF id <= q.nextId THEN "closed" ELSE "unused"

LEMMA PhaseNow == \A id \in Ids : PhaseOf(id) = Phase(store, id)
<1> SUFFICES ASSUME NEW id \in Ids PROVE PhaseOf(id) = Phase(store, id)
  OBVIOUS
<1>1. (\E p \in Open : heap[p].id = id /\ heap[p].valid) <=> id \in IdsOpen(store)
  BY DEF Open, heap, displayed, waiting, IdsOpen, StillOpen, OpenIn
<1> QED  BY <1>1 DEF PhaseOf, Phase

LEMMA PhaseThen == \A id \in Ids : PhaseOf(id)' = Phase(store', id)
<1> SUFFICES ASSUME NEW id \in Ids PROVE PhaseOf(id)' = Phase(store', id)
  OBVIOUS
<1>1. (\E p \in Open' : heap'[p].id = id /\ heap'[p].valid)
        <=> id \in IdsOpen(store')
  BY DEF Open, heap, displayed, waiting, IdsOpen, StillOpen, OpenIn
<1> QED  BY <1>1 DEF PhaseOf, Phase

LEMMA StepIsChange ==
  ASSUME ClientIds # "any",
         ClientIds = "none" \/ \A kind \in Kinds : ~kind.empty,
         UpdateInv, Trusted(store), Good(store'), Next
  PROVE  Client!Next
<1> DEFINE opened == HandedOut(store', store)
           closed == ToldIds(store') \ {0}
           open   == IdsOpen(store)
           open2  == IdsOpen(store')
           last   == store.nextId
           last2  == store'.nextId
<1>1. /\ last2 >= last /\ closed \subseteq open \cup opened
      /\ open2 = (open \cup opened) \ ToldIds(store')
  BY StepChanges
<1>2. /\ last \in 1..MaxId /\ last2 \in 1..MaxId /\ MaxId \in Nat
      /\ open \subseteq 2..last
  BY GoodFacts, IdsOpenFacts, NotificationAssumption DEF Trusted
<1>3. opened = (last + 1)..last2  BY DEF HandedOut
<1>4. 0 \notin open /\ 0 \notin opened
  BY <1>2, <1>3
<1>5. open2 = (open \cup opened) \ closed  BY <1>1, <1>4
<1>6. \A id \in Ids :
        /\ PhaseOf(id) = IF id \in open THEN "open"
                         ELSE IF id <= last THEN "closed" ELSE "unused"
        /\ PhaseOf(id)' = IF id \in open2 THEN "open"
                          ELSE IF id <= last2 THEN "closed" ELSE "unused"
  BY PhaseNow, PhaseThen DEF Phase
<1>7. ({ s[1] : s \in store.emitted } \ {0})' = closed  BY DEF ToldIds
<1> HIDE DEF opened, closed, open, open2, last, last2
<1>8. opened \in SUBSET Ids /\ closed \in SUBSET Ids
  BY <1>1, <1>2, <1>3 DEF Ids
<1>9. \A id \in opened : PhaseOf(id) = "unused"
  BY <1>2, <1>3, <1>6, <1>8
<1>10. \A id \in closed : PhaseOf(id) = "open" \/ id \in opened
  BY <1>1, <1>6, <1>8
<1>11. ASSUME NEW id \in Ids
       PROVE  PhaseOf(id)' = IF id \in closed THEN "closed"
                             ELSE IF id \in opened \ closed THEN "open"
                             ELSE PhaseOf(id)
  <2>1. id \in Int /\ last \in Int /\ last2 \in Int  BY <1>2 DEF Ids
  <2>2. CASE id \in closed
    <3>1. id \notin open2 /\ id <= last2
      BY <1>1, <1>2, <1>3, <1>5, <2>1, <2>2
    <3> QED  BY <1>6, <2>2, <3>1
  <2>3. CASE id \in opened \ closed  BY <1>5, <1>6, <2>3
  <2>4. CASE id \notin closed /\ id \notin opened
    <3>1. id \in open2 <=> id \in open  BY <1>5, <2>4
    <3>2. id <= last2 <=> id <= last  BY <1>1, <1>3, <2>1, <2>4
    <3> QED  BY <1>6, <2>4, <3>1, <3>2
  <2> QED  BY <2>2, <2>3, <2>4
<1> DEFINE phase  == [i \in Ids |-> PhaseOf(i)]
           phase2 == [i \in Ids |-> PhaseOf(i)']
           told2  == ({ s[1] : s \in store.emitted } \ {0})'
<1>12. /\ \A id \in opened : phase[id] = "unused"
       /\ \A id \in closed : phase[id] = "open" \/ id \in opened
       /\ phase2 = [id \in Ids |-> CASE id \in closed -> "closed"
                                     [] id \in opened \ closed -> "open"
                                     [] OTHER -> phase[id]]
       /\ told2 = closed
  BY <1>7, <1>8, <1>9, <1>10, <1>11
<1> HIDE DEF phase, phase2, told2
<1>13. \E o, c \in SUBSET Ids :
         /\ \A id \in o : phase[id] = "unused"
         /\ \A id \in c : phase[id] = "open" \/ id \in o
         /\ phase2 = [id \in Ids |-> CASE id \in c -> "closed"
                                       [] id \in o \ c -> "open"
                                       [] OTHER -> phase[id]]
         /\ told2 = c
  <2> opened \in SUBSET Ids /\ closed \in SUBSET Ids  BY <1>8
  <2> WITNESS opened \in SUBSET Ids, closed \in SUBSET Ids
  <2> QED  BY <1>12
<1> QED  BY <1>13 DEF Client!Next, Client!Change, phase, phase2, told2

(* dunst keeps the promise of module Lifecycle to clients that ask only    *)
(* for ids of open notifications, and to those that ask for none even when *)
(* they send empty notifications: every id is closed exactly once, and its *)
(* client is told of it in the very step that closes it.                   *)
THEOREM PromiseIsKept ==
  ASSUME ClientIds # "any",
         ClientIds = "none" \/ \A kind \in Kinds : ~kind.empty
  PROVE  Spec => ClientPromise
<1>1. Init => Client!Init
  <2> SUFFICES ASSUME Init PROVE Client!Init
    OBVIOUS
  <2>1. /\ store.displayed = <<>> /\ store.waiting = <<>>
        /\ store.nextId = 1 /\ store.emitted = {}
    BY DEF Init, EmptyStore
  <2>2. IdsOpen(store) = {}
    BY <2>1, NoElements DEF IdsOpen, StillOpen, OpenIn
  <2>3. \A id \in Ids : PhaseOf(id) = "unused"
    <3>1. \A id \in Ids : ~(id <= 1)  BY NotificationAssumption DEF Ids
    <3> QED  BY <2>1, <2>2, <3>1, PhaseNow DEF Phase
  <2> QED  BY <2>1, <2>3 DEF Client!Init
<1>2. IInv /\ IInv' /\ Told(store) /\ Tidy(store) /\ [Next]_vars =>
        [Client!Next]_<<[id \in Ids |-> PhaseOf(id)],
                        { s[1] : s \in store.emitted } \ {0}>>
  <2> SUFFICES ASSUME IInv, IInv', Told(store), Tidy(store), [Next]_vars
               PROVE  [Client!Next]_<<[id \in Ids |-> PhaseOf(id)],
                                      { s[1] : s \in store.emitted } \ {0}>>
    OBVIOUS
  <2>1. UpdateInv /\ Trusted(store) /\ Good(store')
    BY IInvParts, IInvPartsNext DEF UpdateInv, Trusted
  <2>2. CASE Next  BY <2>1, <2>2, StepIsChange
  <2>3. CASE UNCHANGED vars
    <3>1. store' = store  BY <2>3 DEF vars
    <3>2. \A id \in Ids : PhaseOf(id)' = PhaseOf(id)
      BY <3>1, PhaseNow, PhaseThen
    <3> QED  BY <3>1, <3>2
  <2> QED  BY <2>2, <2>3
<1>3. Spec => []IInv /\ []Told(store) /\ []Tidy(store)
  BY IInvHolds, ToldHolds, TidyHolds, PTL
<1> QED  BY <1>1, <1>2, <1>3, PTL DEF Spec, ClientPromise, Client!Spec

---------------------------------------------------------------------------
(* When the main loop rests                                                *)

(* Coming to rest                                                          *)

(* Only the end of run comes to rest, and only the clock lets it rest on.  *)
LEMMA RestingSteps ==
  ASSUME Next, pc' = "idle"
  PROVE  Finish \/ (TimePasses /\ pc = "idle")
<1>1. ASSUME NEW q, NEW st, RunWith(q, st)  PROVE FALSE
  BY <1>1 DEF RunWith
<1>2. CASE DBusMethod
  BY <1>1, <1>2 DEF DBusMethod, Notify, CloseNotification, CloseLast, Show,
       PopHistory, RemoveFromHistory, ClearHistory, SetPauseLevel, CloseAll,
       WakeUp
<1>3. CASE MouseEvent
  BY <1>1, <1>3 DEF MouseEvent, PointerMoves, Click
<1>4. CASE HandlerStep
  BY <1>1, <1>4 DEF HandlerStep, ClickCloseAll, ClickCloseCurrent,
       ClickRemoveCurrent, ClickDone, PushAllStep, PushAllDone, Mark, ClickAct,
       WakeUp, control
<1>5. CASE TimePasses  BY <1>5 DEF TimePasses
<1>6. CASE TimerFires \/ OutputChanges
  BY <1>1, <1>6 DEF TimerFires, OutputChanges, WakeUp
<1>7. CASE UpdateStep
  BY <1>7 DEF UpdateStep, RetireMarked, RetireRemoved, RetireFinished,
       RetireSuppressed, RetirePushback, RetireKeep, RetireDone, Retire, Retiring,
       FillSuppressed, FillNotReady, FillSkipsDisplay, FillDisplay, FillDone,
       Fill, Filling, TrimStep, TrimDone, SeepSwap, SeepDone, control
<1>8. CASE Finish  BY <1>8
<1> QED  BY <1>2, <1>3, <1>4, <1>5, <1>6, <1>7, <1>8 DEF Next, RunStep

(* The end of run leaves the queues, the heap and the limit as they are. *)
LEMMA FinishEffect ==
  ASSUME Good(store), Finish
  PROVE  /\ SameQueues(store', store) /\ store'.heap = store.heap
         /\ pc = "finish" /\ limit' = limit
BY QuietKeeps DEF Finish

(* and time makes nothing but a timeout run out. *)
LEMMA TimePassesEffect ==
  ASSUME Good(store), TimePasses
  PROVE  /\ SameQueues(store', store)
         /\ \A p \in Queued(store) : Alike(store'.heap[p], store.heap[p])
         /\ pc = "idle" /\ UNCHANGED <<control, timer, advertised, status>>
<1>1. PICK p \in ToSet(displayed) :
        store' = [Quiet EXCEPT !.heap[p].due = TRUE]
  BY DEF TimePasses
<1>2. /\ SameQueues(Quiet, store) /\ Quiet.heap = store.heap /\ Quiet \in Store
  BY QuietKeeps DEF Good
<1>3. p \in Queued(store) /\ p \in Ptr /\ store.heap[p] \in Note
  BY GoodFacts DEF displayed, Queued
<1>4. /\ SameQueues(store', store)
      /\ store'.heap = [store.heap EXCEPT ![p] = [store.heap[p] EXCEPT !.due = TRUE]]
  BY <1>1, <1>2 DEF Store, SameQueues
<1>5. Alike([store.heap[p] EXCEPT !.due = TRUE], store.heap[p])
  BY <1>3 DEF Note, Alike
<1>6. \A o \in Queued(store) : Alike(store.heap[o], store.heap[o])
  BY DEF Alike
<1>7. \A o \in Queued(store) :
        \/ store'.heap[o] = store.heap[o]
        \/ o = p /\ store'.heap[o] = [store.heap[p] EXCEPT !.due = TRUE]
  BY <1>3, <1>4, GoodFacts
<1>8. \A o \in Queued(store) : Alike(store'.heap[o], store.heap[o])
  BY <1>5, <1>6, <1>7
<1> QED  BY <1>4, <1>8 DEF TimePasses

---------------------------------------------------------------------------
(* What clients are told, and the timer                                    *)

(* The lengths in the last PropertiesChanged are the lengths of the queues *)
(* whenever dunst rests: every handler that changes a queue wakes up, and  *)
(* the run that follows compares and tells.                                *)
THEOREM LengthsAreAdvertised == Spec => []AdvertisedLengths
<1>1. Init => AdvertisedLengths
  BY DEF Init, EmptyStore, AdvertisedLengths, displayed, waiting, history
<1>2. IInv /\ AdvertisedLengths /\ [Next]_vars => AdvertisedLengths'
  <2> SUFFICES ASSUME IInv, AdvertisedLengths, [Next]_vars, pc' = "idle"
               PROVE  advertised' = [ displayed |-> Len(store'.displayed),
                                      waiting |-> Len(store'.waiting),
                                      history |-> Len(store'.history) ]
    BY DEF AdvertisedLengths, AtRest, displayed, waiting, history
  <2>1. Good(store)  BY IInvParts DEF UpdateInv
  <2>2. CASE Finish
    <3>1. SameQueues(store', store)  BY <2>1, <2>2, FinishEffect
    <3> QED  BY <2>2, <3>1
      DEF Finish, SameQueues, displayed, waiting, history
  <2>3. CASE TimePasses /\ pc = "idle"
    <3>1. SameQueues(store', store) /\ advertised' = advertised
      BY <2>1, <2>3, TimePassesEffect
    <3> QED  BY <2>3, <3>1
      DEF AdvertisedLengths, AtRest, SameQueues, displayed, waiting, history
  <2>4. CASE UNCHANGED vars
    BY <2>4 DEF vars, control, AdvertisedLengths, AtRest, displayed, waiting,
         history
  <2> QED  BY <2>2, <2>3, <2>4, RestingSteps
<1> QED  BY <1>1, <1>2, IInvHolds, PTL DEF Spec

(* Whenever dunst rests and a timeout runs on the screen, the timer that   *)
(* ends it is armed: run gives the timer up at its start and looks for a   *)
(* reason to arm it again at its end.                                      *)
THEOREM NoTimeoutIsLost == Spec => []NoLostTimeout
<1>1. Init => NoLostTimeout
  BY NoElements DEF Init, EmptyStore, NoLostTimeout, displayed
<1>2. IInv /\ NoLostTimeout /\ [Next]_vars => NoLostTimeout'
  <2> SUFFICES ASSUME IInv, NoLostTimeout, [Next]_vars, pc' = "idle",
                      NEW p \in ToSet(store'.displayed),
                      store'.heap[p].timed, ~store'.heap[p].locked
               PROVE  timer'
    BY DEF NoLostTimeout, AtRest, displayed, heap
  <2>1. Good(store)  BY IInvParts DEF UpdateInv
  <2>2. CASE Finish
    <3>1. SameQueues(store', store) /\ store'.heap = store.heap
      BY <2>1, <2>2, FinishEffect
    <3>2. p \in ToSet(store.displayed)  BY <3>1 DEF SameQueues
    <3>3. NeedsTimer(store.heap[p])  BY <3>1 DEF NeedsTimer
    <3>4. timer' = \E o \in ToSet(store.displayed) : NeedsTimer(store.heap[o])
      BY <2>2 DEF Finish, displayed, heap
    <3> QED  BY <3>2, <3>3, <3>4
  <2>3. CASE TimePasses /\ pc = "idle"
    <3>1. /\ SameQueues(store', store) /\ timer' = timer
          /\ \A o \in Queued(store) : Alike(store'.heap[o], store.heap[o])
      BY <2>1, <2>3, TimePassesEffect
    <3>2. p \in ToSet(store.displayed) /\ p \in Queued(store)
      BY <3>1 DEF SameQueues, Queued
    <3>3. store.heap[p].timed /\ ~store.heap[p].locked
      BY <3>1, <3>2 DEF Alike
    <3> QED  BY <2>3, <3>1, <3>2, <3>3
      DEF NoLostTimeout, AtRest, displayed, heap
  <2>4. CASE UNCHANGED vars
    BY <2>4 DEF vars, control, NoLostTimeout, AtRest, displayed, heap
  <2> QED  BY <2>2, <2>3, <2>4, RestingSteps
<1> QED  BY <1>1, <1>2, IInvHolds, PTL DEF Spec


---------------------------------------------------------------------------
(* The limit of displayed notifications                                    *)

Loops == {"fill", "trim", "seep", "finish"}

(* The loops behind the first are left to queues_update and run. *)
LEMMA LoopSteps ==
  ASSUME Next, pc' \in Loops
  PROVE  UpdateStep /\ UNCHANGED status
<1>1. ASSUME NEW q, NEW st, RunWith(q, st)  PROVE FALSE
  BY <1>1 DEF RunWith, Loops
<1>2. CASE DBusMethod
  BY <1>1, <1>2 DEF DBusMethod, Notify, CloseNotification, CloseLast, Show,
       PopHistory, RemoveFromHistory, ClearHistory, SetPauseLevel, CloseAll,
       WakeUp, Loops
<1>3. CASE MouseEvent
  BY <1>1, <1>3 DEF MouseEvent, PointerMoves, Click, Loops
<1>4. CASE HandlerStep
  BY <1>1, <1>4 DEF HandlerStep, ClickCloseAll, ClickCloseCurrent,
       ClickRemoveCurrent, ClickDone, PushAllStep, PushAllDone, Mark, ClickAct,
       WakeUp, control, Loops
<1>5. CASE TimePasses  BY <1>5 DEF TimePasses, control, Loops
<1>6. CASE TimerFires \/ OutputChanges
  BY <1>1, <1>6 DEF TimerFires, OutputChanges, WakeUp
<1>7. CASE Finish  BY <1>7 DEF Finish, Loops
<1>8. CASE RunStep /\ UpdateStep  BY <1>7, <1>8 DEF RunStep
<1> QED
  BY <1>2, <1>3, <1>4, <1>5, <1>6, <1>7, <1>8 DEF Next, RunStep

TotalIn(q) == Len(q.displayed) + Len(q.waiting)

LEMMA WithoutShortens ==
  ASSUME NEW s \in Seq(Ptr), NEW at \in 0..Len(s)
  PROVE  Len(Without(s, at)) <= Len(s) /\ Len(Without(s, at)) \in Nat
<1>0. Len(s) \in Nat  BY LenProperties
<1>1. CASE at = 0  BY <1>0, <1>1 DEF Without
<1>2. CASE at # 0
  <2>1. at \in 1..Len(s)  BY <1>0, <1>2
  <2> DEFINE t == RemoveAt(s, at)
  <2>2. Len(t) = Len(s) - 1  BY <2>1, RemoveAtProperties DEF Narrowed
  <2>3. Len(s) - 1 \in Nat  BY <1>0, <2>1
  <2>4. Without(s, at) = t  BY <1>2 DEF Without
  <2> HIDE DEF t
  <2> QED  BY <1>0, <2>2, <2>3, <2>4
<1> QED  BY <1>1, <1>2

LEMMA TotalTyped ==
  ASSUME NEW q, Good(q)
  PROVE  /\ Len(q.displayed) \in Nat /\ Len(q.waiting) \in Nat
         /\ TotalIn(q) \in Nat
<1>1. Len(q.displayed) \in Nat /\ Len(q.waiting) \in Nat
  BY GoodFacts, LenProperties
<1> DEFINE d == Len(q.displayed)
           w == Len(q.waiting)
<1>2. TotalIn(q) = d + w  BY DEF TotalIn
<1> HIDE DEF d, w
<1>3. d \in Nat /\ w \in Nat => d + w \in Nat  OBVIOUS
<1> QED  BY <1>1, <1>2, <1>3 DEF d, w

(* Closing takes notifications off the screen and the queue. *)
LEMMA CloseIdShortens ==
  ASSUME NEW q, Good(q), NEW id, NEW reason \in Reasons
  PROVE  TotalIn(CloseId(q, id, reason)) <= TotalIn(q)
<1> DEFINE d == FirstWithId(q, q.displayed, id)
           w == FirstWithId(q, q.waiting, id)
           r == CloseId(q, id, reason)
           rd == Len(r.displayed)
           rw == Len(r.waiting)
           qd == Len(q.displayed)
           qw == Len(q.waiting)
<1>0. /\ q.displayed \in Seq(Ptr) /\ q.waiting \in Seq(Ptr)
      /\ qd \in Nat /\ qw \in Nat /\ TotalIn(q) \in Nat
  BY GoodFacts, TotalTyped
<1>1. \/ r = q
      \/ /\ r.displayed = Without(q.displayed, d)
         /\ r.waiting = Without(q.waiting, w)
  BY CloseIdEffect
<1>2. d \in 0..qd /\ w \in 0..qw
  BY <1>0, FirstWithIdPlace DEF PlaceIn
<1>3. /\ Len(Without(q.displayed, d)) <= qd /\ Len(Without(q.displayed, d)) \in Nat
      /\ Len(Without(q.waiting, w)) <= qw /\ Len(Without(q.waiting, w)) \in Nat
  <2> HIDE DEF d, w
  <2> QED  BY <1>0, <1>2, WithoutShortens
<1>4. rd <= qd /\ rw <= qw /\ rd \in Nat /\ rw \in Nat
  <2> HIDE DEF d, w, r
  <2> QED  BY <1>0, <1>1, <1>3
<1>5. TotalIn(r) = rd + rw /\ TotalIn(q) = qd + qw  BY DEF TotalIn
<1> HIDE DEF rd, rw, qd, qw
<1>6. rd + rw <= qd + qw  BY <1>0, <1>4
<1> QED  BY <1>5, <1>6

(* queues_update never adds to the two queues. *)
LEMMA UpdateShortens ==
  ASSUME UpdateInv, UpdateStep
  PROVE  TotalIn(store') <= TotalIn(store)
<1> DEFINE n == TotalIn(store)
           S == { q \in Store : Good(q) /\ TotalIn(q) <= n }
<1>0. Good(store) /\ n \in Nat  BY TotalTyped DEF UpdateInv
<1> HIDE DEF n
<1>1. ASSUME NEW q \in S, NEW r, Good(r), TotalIn(r) <= TotalIn(q)
      PROVE  r \in S
  <2>1. TotalIn(q) <= n /\ TotalIn(q) \in Nat /\ TotalIn(r) \in Nat
    BY <1>1, TotalTyped
  <2>2. TotalIn(r) <= n  BY <1>0, <1>1, <2>1
  <2> QED  BY <1>1, <2>2 DEF Good
<1>2. ASSUME NEW q \in S, NEW r, Good(r),
             r.displayed = q.displayed, r.waiting = q.waiting
      PROVE  r \in S
  <2>1. TotalIn(r) = TotalIn(q) /\ TotalIn(q) \in Nat
    BY <1>2, TotalTyped DEF TotalIn
  <2>2. TotalIn(r) <= TotalIn(q)  BY <2>1
  <2> QED  BY <1>1, <1>2, <2>2
<1>3. ASSUME NEW q \in S, NEW r, Good(r), Moved(r, q)
      PROVE  r \in S
  <2>1. TotalIn(r) = TotalIn(q) /\ TotalIn(q) \in Nat
    BY <1>3, TotalTyped DEF TotalIn, Moved
  <2>2. TotalIn(r) <= TotalIn(q)  BY <2>1
  <2> QED  BY <1>1, <1>3, <2>2
<1>4. \A q \in S : Good(q)  OBVIOUS
<1>5. Quiet \in S
  <2>1. Good(Quiet) /\ SameQueues(Quiet, store)  BY <1>0, QuietKeeps
  <2>2. TotalIn(Quiet) = n  BY <2>1 DEF SameQueues, TotalIn, n
  <2>3. TotalIn(Quiet) <= n  BY <1>0, <2>2
  <2> QED  BY <2>1, <2>3 DEF Good
<1>6. \A q \in S : TotalIn(q) <= n  OBVIOUS
<1> HIDE DEF S
<1>7. ASSUME NEW q \in S, NEW p \in Ptr, NEW m \in Note
      PROVE  [q EXCEPT !.heap[p] = m] \in S
  <2>1. /\ Good([q EXCEPT !.heap[p] = m])
        /\ SameQueues([q EXCEPT !.heap[p] = m], q)
    BY <1>4, CellChanged
  <2> QED  BY <1>2, <2>1 DEF SameQueues
<1>8. ASSUME NEW q \in S, NEW id \in 0..MaxId, NEW reason \in Reasons
      PROVE  CloseId(q, id, reason) \in S
  BY <1>1, <1>4, CloseIdKeeps, CloseIdShortens
<1>9. ASSUME NEW q \in S, NEW id \in 0..MaxId
      PROVE  HistoryRemoveById(q, id) \in S
  BY <1>2, <1>4, HistoryRemoveByIdKeeps
<1>10. ASSUME NEW q \in S
       PROVE  /\ \A at \in 1..Len(q.displayed) : PushedBack(q, at) \in S
              /\ \A at \in 1..Len(q.waiting) : Shown(q, at) \in S
              /\ q.displayed # <<>> => Trimmed(q) \in S
              /\ q.displayed # <<>> /\ q.waiting # <<>> => Swapped(q) \in S
  BY <1>3, <1>4, PushedBackMoves, ShownMoves, TrimmedMoves, SwappedMoves
<1>11. ClosedUnderUpdate(S)
  BY <1>4, <1>7, <1>8, <1>9, <1>10 DEF ClosedUnderUpdate
<1>12. store' \in S  BY <1>5, <1>11, UpdateStaysIn
<1> QED  BY <1>6, <1>12 DEF n

(* The limit queues_update works with is one less than the setting when    *)
(* there is a hidden count to show, and may be so when there was one.      *)
LimitInv ==
  /\ pc \in Loops =>
       \/ /\ limit = NotificationLimit
          /\ IndicateHidden /\ NotificationLimit > 1
               => TotalIn(store) <= NotificationLimit
       \/ limit = NotificationLimit - 1 /\ IndicateHidden /\ NotificationLimit > 1
  /\ pc = "seep" => limit # 0 /\ Len(store.displayed) = limit
  /\ pc = "finish" => limit = 0 \/ Len(store.displayed) <= limit

(* Where the loops go, and that they keep their limit. *)
LEMMA LoopMoves ==
  ASSUME UpdateStep, pc' \in Loops
  PROVE  \/ RetireDone
         \/ pc \in Loops /\ limit' = limit
BY DEF UpdateStep, RetireMarked, RetireRemoved, RetireFinished,
       RetireSuppressed, RetirePushback, RetireKeep, Retire, Retiring,
       FillSuppressed, FillNotReady, FillSkipsDisplay, FillDisplay, FillDone,
       Fill, Filling, TrimStep, TrimDone, SeepSwap, SeepDone, control, Loops

(* Only the end of the third loop, and a swap, lead to a swap. *)
LEMMA SeepMoves ==
  ASSUME UpdateStep, pc' = "seep"
  PROVE  TrimDone \/ SeepSwap
BY DEF UpdateStep, RetireMarked, RetireRemoved, RetireFinished,
       RetireSuppressed, RetirePushback, RetireKeep, RetireDone, Retire,
       Retiring, FillSuppressed, FillNotReady, FillSkipsDisplay, FillDisplay,
       FillDone, Fill, Filling, TrimStep, SeepDone, control

(* The loops end behind the third or the fourth. *)
LEMMA FinishMoves ==
  ASSUME UpdateStep, pc' = "finish"
  PROVE  TrimDone \/ SeepDone
BY DEF UpdateStep, RetireMarked, RetireRemoved, RetireFinished,
       RetireSuppressed, RetirePushback, RetireKeep, RetireDone, Retire,
       Retiring, FillSuppressed, FillNotReady, FillSkipsDisplay, FillDisplay,
       FillDone, Fill, Filling, TrimStep, SeepSwap, control

LEMMA SwapKeepsLength ==
  ASSUME UpdateInv, SeepSwap
  PROVE  Len(store'.displayed) = Len(store.displayed)
<1> DEFINE up == store.waiting[1]
           r  == Started(Quiet, up)
           f  == Front(store.displayed)
           n  == Len(store.displayed)
<1>1. /\ store.displayed \in Seq(Ptr) /\ IsInjective(store.displayed)
      /\ store.waiting \in Seq(Ptr) /\ store.displayed # <<>>
      /\ store.waiting # <<>>
      /\ ToSet(store.displayed) \cap ToSet(store.waiting) = {}
      /\ Len(store.displayed) \in Nat
  BY GoodFacts, LenProperties DEF UpdateInv, SeepSwap, Seeps, displayed, waiting
<1>2. up \in Ptr /\ up \notin ToSet(store.displayed)
      /\ up \in ToSet(store.waiting)
  <2>1. Len(store.waiting) \in Nat /\ Len(store.waiting) # 0
    BY <1>1, EmptySeq, LenProperties
  <2>2. 1 \in 1..Len(store.waiting)  BY <2>1
  <2>3. up \in ToSet(store.waiting)  BY <1>1, <2>2, Elements
  <2> QED  BY <1>1, <2>3, Elements
<1>3. /\ f \in Seq(Ptr) /\ Len(f) = n - 1 /\ IsInjective(f)
      /\ ToSet(f) = ToSet(store.displayed) \ {Last(store.displayed)}
  BY <1>1, FrontTaken
<1>4. up \notin ToSet(f)  BY <1>2, <1>3
<1>5. /\ Good(Quiet) /\ SameQueues(Quiet, store) /\ Quiet.heap = store.heap
  BY QuietKeeps DEF UpdateInv
<1>6. Quiet.heap[up] \in Note
  BY <1>2, <1>5, GoodFacts DEF UpdateInv, Queued
<1>7. SameQueues(r, store) /\ r \in Store
  <2>1. Good(r) /\ SameQueues(r, Quiet)  BY <1>2, <1>5, <1>6, HeldKeeps
  <2> QED  BY <1>5, <2>1, GoodFacts DEF SameQueues
<1>8. store' = [r EXCEPT !.displayed = InsertSorted(r, Front(r.displayed), up),
                         !.waiting = InsertSorted(r, Tail(r.waiting),
                                                  Last(store.displayed))]
  BY DEF SeepSwap, displayed, waiting
<1> HIDE DEF r
<1>9. store'.displayed = InsertSorted(r, f, up)
  BY <1>7, <1>8 DEF Store, SameQueues
<1> HIDE DEF f, n, up
<1>10. Len(InsertSorted(r, f, up)) = Len(f) + 1
  BY <1>2, <1>3, <1>4, InsertSortedProperties
<1>11. n \in Nat  BY <1>1 DEF n
<1>12. Len(store'.displayed) = (n - 1) + 1  BY <1>3, <1>9, <1>10
<1> QED  BY <1>11, <1>12 DEF n

LEMMA LimitKept == IInv /\ LimitInv /\ [Next]_vars => LimitInv'
<1> SUFFICES ASSUME IInv, LimitInv, [Next]_vars  PROVE LimitInv'
  OBVIOUS
<1>0. UpdateInv /\ Good(store)  BY IInvParts DEF UpdateInv
<1>1. CASE pc' \notin Loops
  BY <1>1 DEF LimitInv, Loops
<1>2. CASE UNCHANGED vars
  BY <1>2 DEF vars, control, LimitInv, TotalIn
<1>3. CASE Next /\ pc' \in Loops
  <2> DEFINE t == TotalIn(store)
             u == TotalIn(store')
             d == Len(store.displayed)
             e == Len(store'.displayed)
  <2>0. UpdateStep  BY <1>3, LoopSteps
  <2>1. u <= t  BY <1>0, <2>0, UpdateShortens
  <2>2. UpdateInv'  BY <1>0, <2>0, UpdateStepKeeps
  <2>3. t \in Nat /\ u \in Nat /\ d \in Nat /\ e \in Nat
    BY <1>0, <2>2, TotalTyped DEF UpdateInv
  <2>4. /\ Good(Quiet) /\ SameQueues(Quiet, store)
    BY <1>0, QuietKeeps
  <2>5. /\ NotificationLimit \in Nat /\ limit \in Nat
    BY <1>0, UpdateAssumption DEF UpdateInv
  <2>6. \/ /\ limit' = NotificationLimit
           /\ IndicateHidden /\ NotificationLimit > 1 => u <= NotificationLimit
        \/ /\ limit' = NotificationLimit - 1
           /\ IndicateHidden /\ NotificationLimit > 1
    <3>1. CASE RetireDone
      <4>1. limit' = DisplayedLimit /\ store' = Quiet
        BY <3>1 DEF RetireDone
      <4>2. u = t  BY <2>4, <4>1 DEF SameQueues, TotalIn
      <4>3. Len(displayed) + Len(waiting) = t
        BY DEF TotalIn, displayed, waiting
      <4> HIDE DEF u, t
      <4> QED  BY <2>3, <2>5, <4>1, <4>2, <4>3 DEF DisplayedLimit
    <3>2. CASE pc \in Loops /\ limit' = limit
      <4>1. \/ /\ limit' = NotificationLimit
               /\ IndicateHidden /\ NotificationLimit > 1
                    => t <= NotificationLimit
            \/ /\ limit' = NotificationLimit - 1
               /\ IndicateHidden /\ NotificationLimit > 1
        BY <3>2 DEF LimitInv
      <4> HIDE DEF u, t
      <4> QED  BY <2>1, <2>3, <2>5, <4>1
    <3> QED  BY <1>3, <2>0, <3>1, <3>2, LoopMoves
  <2>7. ASSUME pc' = "seep"  PROVE limit' # 0 /\ e = limit'
    <3>1. CASE TrimDone
      <4>1. limit' = limit /\ store' = Quiet /\ limit # 0 /\ d = limit
        BY <2>7, <3>1 DEF TrimDone, displayed
      <4> QED  BY <2>4, <4>1 DEF SameQueues
    <3>2. CASE SeepSwap
      <4>1. pc = "seep" /\ limit' = limit  BY <3>2 DEF SeepSwap, control
      <4>2. limit # 0 /\ d = limit  BY <4>1 DEF LimitInv
      <4>3. e = d  BY <1>0, <3>2, SwapKeepsLength
      <4> QED  BY <4>1, <4>2, <4>3
    <3> QED  BY <2>0, <2>7, <3>1, <3>2, SeepMoves
  <2>8. ASSUME pc' = "finish"  PROVE limit' = 0 \/ e <= limit'
    <3>1. e = d
      <4>1. store' = Quiet
        BY <2>0, <2>8, FinishMoves DEF TrimDone, SeepDone
      <4> QED  BY <2>4, <4>1 DEF SameQueues
    <3>2. CASE TrimDone
      <4>1. limit' = limit /\ ~(limit # 0 /\ d > limit)
        BY <3>2 DEF TrimDone, Overhang, displayed
      <4> HIDE DEF d, e
      <4> QED  BY <2>3, <2>5, <3>1, <4>1
    <3>3. CASE SeepDone
      <4>1. limit' = limit /\ d = limit
        BY <3>3 DEF SeepDone, LimitInv
      <4> HIDE DEF d, e
      <4> QED  BY <2>3, <2>5, <3>1, <4>1
    <3> QED  BY <2>0, <2>8, <3>2, <3>3, FinishMoves
  <2> QED  BY <2>6, <2>7, <2>8 DEF LimitInv
<1> QED  BY <1>1, <1>2, <1>3

LEMMA LimitHolds == Spec => []LimitInv
<1>1. Init => LimitInv
  BY DEF Init, LimitInv, Loops
<1> QED  BY <1>1, LimitKept, IInvHolds, PTL DEF Spec

(* At rest displayed is within notification_limit, and leaves a place for  *)
(* the hidden count when there is one: whatever is closed, replaced or     *)
(* swapped after the limit is computed in the middle of queues_update.     *)
THEOREM LimitIsKept == Spec => []DisplayLimit
<1>1. Init => DisplayLimit
  BY UpdateAssumption, NoElements, LenProperties, EmptySeq
    DEF Init, EmptyStore, DisplayLimit, displayed, waiting
<1>2. IInv /\ LimitInv /\ DisplayLimit /\ [Next]_vars => DisplayLimit'
  <2> SUFFICES ASSUME IInv, LimitInv, DisplayLimit, [Next]_vars,
                      pc' = "idle", NotificationLimit > 0
               PROVE  /\ Len(store'.displayed) <= NotificationLimit
                      /\ IndicateHidden /\ NotificationLimit > 1
                           /\ Len(store'.displayed) + Len(store'.waiting)
                                > NotificationLimit
                         => Len(store'.displayed) < NotificationLimit
    BY DEF DisplayLimit, AtRest, displayed, waiting
  <2>1. Good(store)  BY IInvParts DEF UpdateInv
  <2>2. CASE Finish
    <3> DEFINE d == Len(store.displayed)
               w == Len(store.waiting)
    <3>1. SameQueues(store', store) /\ pc = "finish"
      BY <2>1, <2>2, FinishEffect
    <3>2. Len(store'.displayed) = d /\ Len(store'.waiting) = w
      BY <3>1 DEF SameQueues
    <3>3. /\ \/ /\ limit = NotificationLimit
                /\ IndicateHidden /\ NotificationLimit > 1
                     => d + w <= NotificationLimit
             \/ /\ limit = NotificationLimit - 1
                /\ IndicateHidden /\ NotificationLimit > 1
          /\ limit = 0 \/ d <= limit
      BY <3>1 DEF LimitInv, Loops, TotalIn
    <3>4. d \in Nat /\ w \in Nat /\ NotificationLimit \in Nat
      BY <2>1, TotalTyped, UpdateAssumption
    <3> HIDE DEF d, w
    <3> QED  BY <3>2, <3>3, <3>4
  <2>3. CASE TimePasses /\ pc = "idle"
    <3>1. SameQueues(store', store)  BY <2>1, <2>3, TimePassesEffect
    <3> QED  BY <2>3, <3>1
      DEF DisplayLimit, AtRest, SameQueues, displayed, waiting
  <2>4. CASE UNCHANGED vars
    BY <2>4 DEF vars, control, DisplayLimit, AtRest, displayed, waiting
  <2> QED  BY <2>2, <2>3, <2>4, RestingSteps
<1> QED  BY <1>1, <1>2, IInvHolds, LimitHolds, PTL DEF Spec

---------------------------------------------------------------------------
(* None waits while there is room                                          *)

Ready(q, p) == IsReady(q.heap[p], status, FALSE)

NoneReady(q) == \A p \in ToSet(q.waiting) : ~Ready(q, p)

(* The second loop leaves behind it only what may not be shown, so when it *)
(* ends with room to spare, nothing that waits may be shown; the third     *)
(* never empties displayed below the limit.                                *)
WorkInv ==
  /\ pc = "fill" =>
       \A i \in 1..(Len(store.waiting) - left) : ~Ready(store, store.waiting[i])
  /\ pc = "trim" =>
       NoneReady(store) \/ (limit # 0 /\ Len(store.displayed) >= limit)
  /\ pc = "finish" =>
       NoneReady(store) \/ (limit # 0 /\ Len(store.displayed) = limit)

(* Whether a notification may be shown depends on what was sent. *)
LEMMA ReadyByKind ==
  ASSUME NEW n, NEW m, n.kind = m.kind, NEW st, NEW shown
  PROVE  IsReady(n, st, shown) = IsReady(m, st, shown)
BY DEF IsReady

LEMMA StartedEffect ==
  ASSUME NEW q, Good(q), NEW p \in Ptr, q.heap[p] \in Note
  PROVE  \A o \in Ptr : /\ q.heap[o] \in Note => Started(q, p).heap[o] \in Note
                        /\ q.heap[o] \in Note =>
                             Alike(Started(q, p).heap[o], q.heap[o])
                        /\ q.heap[o] = Freed <=> Started(q, p).heap[o] = Freed
<1>1. /\ q \in Store /\ q.heap \in [Ptr -> Note \cup {Freed}]
  BY GoodFacts
<1> DEFINE n == [q.heap[p] EXCEPT !.due = FALSE]
<1>2. n \in Note /\ Alike(n, q.heap[p])  BY DEF Note, Alike
<1>3. Started(q, p).heap = [q.heap EXCEPT ![p] = n]
  BY <1>1 DEF Started, Store
<1>4. \A o : Alike(q.heap[o], q.heap[o])  BY DEF Alike
<1> HIDE DEF n
<1>5. \A o \in Ptr : \/ Started(q, p).heap[o] = q.heap[o]
                     \/ o = p /\ Started(q, p).heap[o] = n
  BY <1>1, <1>3
<1>6. n # Freed /\ q.heap[p] # Freed  BY <1>2, QueuesAssumption
<1> QED  BY <1>2, <1>4, <1>5, <1>6

(* When no id is queued twice, closing a waiting notification by its id    *)
(* takes that one, and nothing else.                                       *)
LEMMA ClosesTheOne ==
  ASSUME NEW q, Good(q), Tidy(q), NEW at \in 1..Len(q.waiting),
         NEW reason \in Reasons
  PROVE  LET r == NotificationClose(q, q.waiting[at], reason)
         IN /\ Good(r) /\ Kept(r, q)
            /\ r.displayed = q.displayed
            /\ r.waiting = RemoveAt(q.waiting, at)
<1> DEFINE p  == q.waiting[at]
           id == q.heap[p].id
           d  == FirstWithId(q, q.displayed, id)
           w  == FirstWithId(q, q.waiting, id)
           r  == CloseId(q, id, reason)
<1>0. /\ q.displayed \in Seq(Ptr) /\ q.waiting \in Seq(Ptr)
      /\ IsInjective(q.waiting)
      /\ ToSet(q.displayed) \cap ToSet(q.waiting) = {}
  BY GoodFacts
<1>1. p \in ToSet(q.waiting) /\ p \in Queued(q) /\ q.heap[p].id = id
  BY <1>0, Elements DEF Queued
<1> HIDE DEF id
<1> DEFINE s == q.displayed
           u == q.waiting
<1>2. s \in Seq(Ptr) /\ u \in Seq(Ptr)  BY <1>0
<1>3. /\ FirstWithId(q, s, id) # 0 =>
           /\ s[FirstWithId(q, s, id)] \in ToSet(s)
           /\ q.heap[s[FirstWithId(q, s, id)]].id = id
      /\ FirstWithId(q, u, id) # 0 =>
           /\ u[FirstWithId(q, u, id)] \in ToSet(u)
           /\ q.heap[u[FirstWithId(q, u, id)]].id = id
           /\ FirstWithId(q, u, id) \in 1..Len(u)
  <2> HIDE DEF s, u
  <2> QED  BY <1>2, FoundHasId
<1>4. d = 0
  <2> SUFFICES ASSUME d # 0  PROVE FALSE  OBVIOUS
  <2>1. q.displayed[d] \in ToSet(q.displayed) /\ q.heap[q.displayed[d]].id = id
    BY <1>3
  <2>2. q.displayed[d] \in Queued(q)  BY <2>1 DEF Queued
  <2>3. q.displayed[d] = p  BY <1>1, <2>1, <2>2 DEF Tidy, Unique
  <2> QED  BY <1>0, <1>1, <2>1, <2>3
<1>5. w = at
  <2>1. w # 0  BY <1>0, <1>1, NotFound
  <2>2. /\ w \in 1..Len(q.waiting) /\ q.heap[q.waiting[w]].id = id
        /\ q.waiting[w] \in ToSet(q.waiting)
    BY <1>3, <2>1
  <2>3. q.waiting[w] \in Queued(q)  BY <2>2 DEF Queued
  <2>4. q.waiting[w] = q.waiting[at]  BY <1>1, <2>2, <2>3 DEF Tidy, Unique
  <2> QED  BY <1>0, <2>2, <2>4, Elements
<1>6. Good(r) /\ Kept(r, q)  BY CloseIdOrderly DEF Orderly
<1>7. r.displayed = Without(q.displayed, d) /\ r.waiting = Without(q.waiting, w)
  <2>1. w # 0  BY <1>5
  <2> QED  BY <2>1, CloseIdEffect
<1>8. at # 0  BY <1>0, LenProperties
<1> HIDE DEF d, w, r
<1>9. r.displayed = q.displayed /\ r.waiting = RemoveAt(q.waiting, at)
  BY <1>4, <1>5, <1>7, <1>8 DEF Without
<1> QED  BY <1>6, <1>9 DEF r, id, NotificationClose

(* A visit of the second loop that takes its candidate out of waiting. *)
LEMMA CandidateTaken ==
  ASSUME UpdateInv, WorkInv, Filling, UNCHANGED <<pc, status>>, left' = left - 1,
         store'.waiting = RemoveAt(store.waiting, Len(store.waiting) - left + 1),
         \A p \in ToSet(store'.waiting) : store'.heap[p].kind = store.heap[p].kind
  PROVE  WorkInv'
<1> DEFINE s == store.waiting
           t == store'.waiting
           n == Len(s)
           at == n - left + 1
<1>0. /\ s \in Seq(Ptr) /\ n \in Nat /\ at \in 1..n /\ pc = "fill" /\ left \in Nat
  BY CandidateIsThere, GoodFacts, LenProperties
    DEF UpdateInv, Filling, waiting
<1>1. t \in Seq(Ptr) /\ Len(t) = n - 1 /\ \A i \in 1..(at - 1) : t[i] = s[i]
  <2>1. t = RemoveAt(s, at)  OBVIOUS
  <2>2. RemoveAt(s, at) \in Seq(Ptr) /\ Narrowed(s, RemoveAt(s, at), at)
    <3> HIDE DEF at, s
    <3> QED  BY <1>0, RemoveAtProperties
  <2> DEFINE u == RemoveAt(s, at)
  <2>3. Len(u) = Len(s) - 1 /\ \A i \in 1..(at - 1) : u[i] = s[i]
    <3>1. Narrowed(s, u, at)  BY <2>2
    <3> HIDE DEF s, at, u
    <3>2. /\ Len(u) = Len(s) - 1
          /\ \A i \in 1..Len(u) : u[i] = IF i < at THEN s[i] ELSE s[i + 1]
      BY <3>1 DEF Narrowed
    <3>3. \A i \in 1..(at - 1) : i \in 1..Len(u) /\ i < at
      BY <1>0, <3>2 DEF n
    <3> QED  BY <3>2, <3>3
  <2> QED  BY <2>1, <2>2, <2>3
<1>2. \A i \in 1..(at - 1) : ~Ready(store, s[i])
  <2>1. n - left = at - 1  BY <1>0
  <2> QED  BY <1>0, <2>1 DEF WorkInv
<1>3. Len(t) - left' = at - 1
  <2>1. Len(t) = n - 1 /\ left' = left - 1  BY <1>1
  <2> HIDE DEF t, n
  <2> QED  BY <1>0, <2>1
<1>4. ASSUME NEW i \in 1..(at - 1)  PROVE ~Ready(store, s[i])'
  <2>1. i \in 1..Len(t)
    <3>1. Len(t) = n - 1  BY <1>1
    <3> HIDE DEF t, n
    <3> QED  BY <1>0, <3>1
  <2>2. t[i] \in ToSet(t) /\ t[i] = s[i]  BY <1>1, <2>1, Elements
  <2>3. store'.heap[t[i]].kind = store.heap[t[i]].kind  BY <2>2
  <2>4. ~IsReady(store.heap[t[i]], status, FALSE)
    BY <1>2, <2>2 DEF Ready
  <2>5. ~IsReady(store'.heap[t[i]], status, FALSE)
    BY <2>3, <2>4 DEF IsReady
  <2>6. status' = status  OBVIOUS
  <2> QED  BY <2>5, <2>6 DEF Ready
<1>5. pc' = "fill" /\ \A i \in 1..(Len(t) - left') : ~Ready(store, s[i])'
  <2> HIDE DEF t, at, s
  <2> QED  BY <1>0, <1>3, <1>4
<1> QED  BY <1>5 DEF WorkInv

(* What each visit of the second loop does. *)
LEMMA FillWorks ==
  ASSUME UpdateInv, Tidy(store), WorkInv, UNCHANGED status,
         FillSuppressed \/ FillNotReady \/ FillSkipsDisplay \/ FillDisplay
  PROVE  WorkInv'
<1> DEFINE at == Len(store.waiting) - left + 1
           r  == Started(Quiet, Candidate)
<1>0. Filling /\ UNCHANGED pc /\ left' = left - 1
  BY DEF FillSuppressed, FillNotReady, FillSkipsDisplay, FillDisplay, Fill
<1>1. /\ at \in 1..Len(store.waiting) /\ store.waiting[at] = Candidate
      /\ Candidate \in Ptr /\ store.heap[Candidate] \in Note
  BY <1>0, CandidateIsThere DEF waiting, heap, Candidate
<1>2. /\ Good(Quiet) /\ SameQueues(Quiet, store) /\ Quiet.heap = store.heap
      /\ Quiet.nextId = store.nextId /\ Good(store)
  BY QuietKeeps DEF UpdateInv
<1>3. /\ Good(r) /\ SameQueues(r, store)
  BY <1>0, StartedCandidate
<1>4. \A o \in Ptr : /\ store.heap[o] \in Note => r.heap[o] \in Note
                     /\ store.heap[o] \in Note => Alike(r.heap[o], store.heap[o])
                     /\ store.heap[o] = Freed <=> r.heap[o] = Freed
  BY <1>1, <1>2, StartedEffect
<1>5. r.nextId = store.nextId
  BY <1>2, GoodFacts DEF Started, Store
<1> HIDE DEF r
<1>6. Queued(r) = Queued(store)  BY <1>3 DEF SameQueues, Queued
<1>7. \A o \in Queued(r) : o \in Ptr /\ Alike(r.heap[o], store.heap[o])
  BY <1>2, <1>4, <1>6, GoodFacts
<1>8. CASE FillNotReady
  <2>1. store' = Quiet /\ ~Ready(store, Candidate)
    BY <1>8 DEF FillNotReady, Fill, Ready, heap
  <2> DEFINE n == Len(store.waiting)
  <2>2. \A i \in 1..(n - left) : ~Ready(store, store.waiting[i])
    BY <1>0 DEF WorkInv, Filling
  <2>3. \A i \in 1..(n - left') : ~Ready(store, store.waiting[i])
    <3>1. n \in Nat /\ left \in Nat /\ n - left + 1 \in 1..n
      BY <1>1, <1>2, TotalTyped DEF UpdateInv
    <3>2. ~Ready(store, store.waiting[n - left + 1])  BY <1>1, <2>1
    <3> HIDE DEF n
    <3>3. \A i \in 1..(n - left') : i \in 1..(n - left) \/ i = n - left + 1
      BY <1>0, <3>1
    <3> QED  BY <2>2, <3>2, <3>3
  <2>4. store'.waiting = store.waiting /\ store'.heap = store.heap
    BY <1>2, <2>1 DEF SameQueues
  <2>5. pc' = "fill"  BY <1>0 DEF Filling
  <2> QED  BY <2>3, <2>4, <2>5 DEF WorkInv, Ready
<1>9. CASE FillSuppressed \/ FillSkipsDisplay
  <2>1. PICK reason \in Reasons : store' = NotificationClose(r, Candidate, reason)
    BY <1>9 DEF FillSuppressed, FillSkipsDisplay, Fill, Reasons, r
  <2>2. Tidy(r)
    <3>1. \A p \in Ptr : r.heap[p] # Freed =>
            /\ p \in Queued(r)
            /\ r.heap[p].refs = 1 /\ ~r.heap[p].locked
            /\ r.heap[p].id \in 2..r.nextId
      BY <1>4, <1>5, <1>6, <1>7 DEF Tidy, Alike
    <3>2. \A p, o \in Queued(r) : r.heap[p].id = r.heap[o].id => p = o
      BY <1>6, <1>7 DEF Tidy, Unique, Alike
    <3> QED  BY <3>1, <3>2 DEF Tidy, Unique
  <2>3. at \in 1..Len(r.waiting) /\ r.waiting[at] = Candidate
    BY <1>1, <1>3 DEF SameQueues
  <2> HIDE DEF at
  <2>4. /\ Good(store') /\ Kept(store', r)
        /\ store'.waiting = RemoveAt(r.waiting, at)
    BY <1>3, <2>1, <2>2, <2>3, ClosesTheOne
  <2>5. \A p \in ToSet(store'.waiting) : store'.heap[p].kind = store.heap[p].kind
    <3> SUFFICES ASSUME NEW p \in ToSet(store'.waiting)
                 PROVE  store'.heap[p].kind = store.heap[p].kind
      OBVIOUS
    <3>1. p \in Queued(store') /\ p \in Queued(r)
      BY <2>4 DEF Queued, Kept
    <3>2. store'.heap[p].kind = r.heap[p].kind  BY <2>4, <3>1 DEF Kept
    <3> QED  BY <1>7, <3>1, <3>2 DEF Alike
  <2>6. store'.waiting = RemoveAt(store.waiting, at)
    BY <1>3, <2>4 DEF SameQueues
  <2> QED  BY <1>0, <2>5, <2>6, CandidateTaken DEF at
<1>10. CASE FillDisplay
  <2>1. store' = [r EXCEPT !.waiting = RemoveAt(r.waiting, Len(r.waiting) - left + 1),
                           !.displayed = InsertSorted(r, r.displayed, Candidate)]
    BY <1>10 DEF FillDisplay, Fill, r
  <2>2. store'.waiting = RemoveAt(store.waiting, at) /\ store'.heap = r.heap
    BY <1>3, <2>1, GoodFacts DEF SameQueues, Store
  <2>3. /\ RemoveAt(store.waiting, at) \in Seq(Ptr)
        /\ ToSet(RemoveAt(store.waiting, at)) \subseteq ToSet(store.waiting)
    <3> HIDE DEF at
    <3> QED  BY <1>1, <1>2, Removed, GoodFacts
  <2>4. \A p \in ToSet(store'.waiting) : store'.heap[p].kind = store.heap[p].kind
    BY <1>6, <1>7, <2>2, <2>3 DEF Queued, Alike
  <2> QED  BY <1>0, <2>2, <2>4, CandidateTaken
<1> QED  BY <1>8, <1>9, <1>10

LEMMA TrimShortens ==
  ASSUME UpdateInv, TrimStep
  PROVE  Len(store'.displayed) = Len(store.displayed) - 1
<1>1. /\ store.displayed \in Seq(Ptr) /\ IsInjective(store.displayed)
      /\ Len(store.displayed) \in Nat /\ limit \in Nat /\ Quiet \in Store
      /\ Quiet.displayed = store.displayed
  BY GoodFacts, QuietKeeps, LenProperties DEF UpdateInv, SameQueues
<1>2. Len(store.displayed) > limit  BY DEF TrimStep, Overhang, displayed
<1>3. store.displayed # <<>>
  <2>1. Len(store.displayed) # 0  BY <1>1, <1>2
  <2> QED  BY <1>1, <2>1, EmptySeq
<1>4. store'.displayed = Front(store.displayed)
  BY <1>1 DEF TrimStep, Store
<1> QED  BY <1>1, <1>3, <1>4, FrontTaken

LEMMA WorkKept ==
  ASSUME IInv, Tidy(store), LimitInv, WorkInv, [Next]_vars
  PROVE  WorkInv'
<1>0. UpdateInv /\ Good(store)  BY IInvParts DEF UpdateInv
<1>1. CASE pc' \notin Loops
  BY <1>1 DEF WorkInv, Loops
<1>2. CASE UNCHANGED vars
  BY <1>2 DEF vars, control, WorkInv, NoneReady, Ready
<1>3. CASE Next /\ pc' \in Loops
  <2> DEFINE d == Len(store.displayed)
             w == Len(store.waiting)
  <2>0. UpdateStep /\ UNCHANGED status  BY <1>3, LoopSteps
  <2>1. /\ SameQueues(Quiet, store) /\ Quiet.heap = store.heap
        /\ d \in Nat /\ w \in Nat /\ limit \in Nat /\ left \in Nat
    BY <1>0, QuietKeeps, TotalTyped DEF UpdateInv
  <2>2. store' = Quiet => /\ Len(store'.displayed) = d /\ Len(store'.waiting) = w
                          /\ NoneReady(store) => NoneReady(store)'
    BY <2>0, <2>1 DEF SameQueues, NoneReady, Ready
  <2>3. CASE RetireDone
    <3>1. pc' = "fill" /\ left' = w /\ Len(store'.waiting) = w
      BY <2>2, <2>3 DEF RetireDone, waiting
    <3> HIDE DEF w
    <3>2. 1..(Len(store'.waiting) - left') = {}  BY <2>1, <3>1
    <3> QED  BY <3>1, <3>2 DEF WorkInv
  <2>4. CASE FillSuppressed \/ FillNotReady \/ FillSkipsDisplay \/ FillDisplay
    BY <1>0, <2>0, <2>4, FillWorks
  <2>5. CASE FillDone
    <3>1. /\ pc' = "trim" /\ limit' = limit /\ store' = Quiet /\ pc = "fill"
          /\ ~(limit = 0 \/ d < limit) \/ left = 0
      BY <2>5 DEF FillDone, HasRoom, displayed
    <3>2. CASE left = 0
      <4>1. \A i \in 1..w : ~Ready(store, store.waiting[i])
        <5>1. \A i \in 1..(w - left) : ~Ready(store, store.waiting[i])
          BY <3>1 DEF WorkInv
        <5> HIDE DEF w
        <5>2. w - left = w  BY <2>1, <3>2
        <5> QED  BY <5>1, <5>2
      <4>2. NoneReady(store)
        BY <1>0, <4>1, Elements, GoodFacts DEF NoneReady
      <4> QED  BY <2>2, <3>1, <4>2 DEF WorkInv
    <3>3. CASE ~(limit = 0 \/ d < limit)
      <4>1. Len(store'.displayed) = d  BY <2>2, <3>1
      <4> HIDE DEF d
      <4>2. limit' # 0 /\ Len(store'.displayed) >= limit'
        BY <2>1, <3>1, <3>3, <4>1
      <4> QED  BY <3>1, <4>2 DEF WorkInv
    <3> QED  BY <3>1, <3>2, <3>3
  <2>6. CASE TrimStep
    <3>1. /\ pc' = "trim" /\ limit' = limit /\ limit # 0 /\ d > limit
          /\ Len(store'.displayed) = d - 1
      BY <1>0, <2>6, TrimShortens DEF TrimStep, Overhang, control, displayed
    <3> HIDE DEF d
    <3>2. limit' # 0 /\ Len(store'.displayed) >= limit'
      BY <2>1, <3>1
    <3> QED  BY <3>1, <3>2 DEF WorkInv
  <2>7. CASE TrimDone
    <3>1. /\ pc = "trim" /\ pc' \in {"seep", "finish"} /\ limit' = limit
          /\ store' = Quiet /\ ~(limit # 0 /\ d > limit)
      BY <2>7 DEF TrimDone, Overhang, displayed
    <3>2. NoneReady(store) \/ (limit # 0 /\ d >= limit)
      BY <3>1 DEF WorkInv
    <3>3. Len(store'.displayed) = d /\ (NoneReady(store) => NoneReady(store)')
      BY <2>2, <3>1
    <3>4. NoneReady(store)' \/ (limit' # 0 /\ Len(store'.displayed) = limit')
      <4> HIDE DEF d
      <4> QED  BY <2>1, <3>1, <3>2, <3>3
    <3> QED  BY <3>1, <3>4 DEF WorkInv
  <2>8. CASE SeepSwap
    BY <2>8 DEF SeepSwap, control, WorkInv
  <2>9. CASE SeepDone
    <3>1. /\ pc = "seep" /\ pc' = "finish" /\ limit' = limit /\ store' = Quiet
      BY <2>9 DEF SeepDone
    <3>2. limit' # 0 /\ Len(store'.displayed) = limit'
      BY <2>2, <3>1 DEF LimitInv
    <3> QED  BY <3>1, <3>2 DEF WorkInv
  <2>10. CASE \/ RetireMarked \/ RetireRemoved \/ RetireFinished
              \/ RetireSuppressed \/ RetirePushback \/ RetireKeep
    <3>1. pc' = "retire"
      BY <2>10 DEF RetireMarked, RetireRemoved, RetireFinished, RetireSuppressed,
           RetirePushback, RetireKeep, Retire, Retiring
    <3> QED  BY <1>3, <3>1 DEF Loops
  <2> QED  BY <2>0, <2>3, <2>4, <2>5, <2>6, <2>7, <2>8, <2>9, <2>10
             DEF UpdateStep
<1> QED  BY <1>1, <1>2, <1>3

LEMMA WorkHolds ==
  ASSUME ClientIds # "any"
  PROVE  Spec => []WorkInv
<1>1. Init => WorkInv
  BY DEF Init, WorkInv
<1> QED  BY <1>1, WorkKept, IInvHolds, TidyHolds, LimitHolds, PTL DEF Spec

(* At rest a notification that may be shown waits only because displayed   *)
(* is full.  Clients that ask for ids that are not open could break it:    *)
(* with one id queued twice, closing a notification that is not to be      *)
(* displayed takes another off the queue, and the loop has then passed one *)
(* that it did not look at.                                                *)
THEOREM NoneWaitsInVain ==
  ASSUME ClientIds # "any"
  PROVE  Spec => []WorkConserving
<1>1. Init => WorkConserving
  <2> SUFFICES ASSUME Init  PROVE WorkConserving  OBVIOUS
  <2>1. store.waiting = <<>>  BY DEF Init, EmptyStore
  <2>2. ToSet(store.waiting) = {}
    <3>1. ToSet(<<>>) = {}  BY NoElements
    <3> QED  BY <2>1, <3>1
  <2> QED  BY <2>2 DEF WorkConserving, waiting
<1>2. IInv /\ LimitInv /\ WorkInv /\ WorkConserving /\ [Next]_vars
        => WorkConserving'
  <2> SUFFICES ASSUME IInv, LimitInv, WorkInv, WorkConserving, [Next]_vars,
                      pc' = "idle",
                      NEW p \in ToSet(store'.waiting), Ready(store, p)'
               PROVE  /\ NotificationLimit # 0
                      /\ \/ Len(store'.displayed) = DisplayedLimit'
                         \/ /\ IndicateHidden /\ NotificationLimit > 1
                            /\ Len(store'.displayed) = NotificationLimit - 1
    BY DEF WorkConserving, IsFull, AtRest, Ready, displayed, waiting, heap
  <2>1. Good(store)  BY IInvParts DEF UpdateInv
  <2>2. CASE Finish
    <3> DEFINE d == Len(store.displayed)
               w == Len(store.waiting)
    <3>1. /\ SameQueues(store', store) /\ store'.heap = store.heap
          /\ pc = "finish" /\ status' = status
      BY <2>1, <2>2, FinishEffect DEF Finish
    <3>2. Len(store'.displayed) = d /\ Len(store'.waiting) = w
      BY <3>1 DEF SameQueues
    <3>3. ~NoneReady(store)
      BY <3>1 DEF SameQueues, NoneReady, Ready
    <3>4. limit # 0 /\ d = limit
      BY <3>1, <3>3 DEF WorkInv
    <3>5. \/ /\ limit = NotificationLimit
             /\ IndicateHidden /\ NotificationLimit > 1
                  => d + w <= NotificationLimit
          \/ /\ limit = NotificationLimit - 1
             /\ IndicateHidden /\ NotificationLimit > 1
      BY <3>1 DEF LimitInv, Loops, TotalIn
    <3>6. d \in Nat /\ w \in Nat /\ NotificationLimit \in Nat
      BY <2>1, TotalTyped, UpdateAssumption
    <3>7. DisplayedLimit' = IF /\ IndicateHidden /\ NotificationLimit > 1
                               /\ d + w > NotificationLimit
                            THEN NotificationLimit - 1 ELSE NotificationLimit
      BY <3>2 DEF DisplayedLimit, displayed, waiting
    <3> HIDE DEF d, w
    <3> QED  BY <3>2, <3>4, <3>5, <3>6, <3>7
  <2>3. CASE TimePasses /\ pc = "idle"
    <3>1. /\ SameQueues(store', store) /\ status' = status
          /\ \A o \in Queued(store) : Alike(store'.heap[o], store.heap[o])
      BY <2>1, <2>3, TimePassesEffect
    <3>2. p \in ToSet(store.waiting) /\ p \in Queued(store)
      BY <3>1 DEF SameQueues, Queued
    <3>3. store'.heap[p].kind = store.heap[p].kind  BY <3>1, <3>2 DEF Alike
    <3>4. IsReady(store'.heap[p], status, FALSE)  BY <3>1 DEF Ready
    <3>5. IsReady(store.heap[p], status, FALSE)
      BY <3>3, <3>4 DEF IsReady
    <3> QED  BY <2>3, <3>1, <3>2, <3>5
      DEF WorkConserving, IsFull, AtRest, SameQueues, DisplayedLimit, displayed,
          waiting, heap
  <2>4. CASE UNCHANGED vars
    BY <2>4 DEF vars, control, WorkConserving, IsFull, AtRest, DisplayedLimit, Ready,
         displayed, waiting, heap
  <2> QED  BY <2>2, <2>3, <2>4, RestingSteps
<1> QED  BY <1>1, <1>2, IInvHolds, LimitHolds, WorkHolds, PTL DEF Spec

---------------------------------------------------------------------------
(* The context menu                                                        *)

(* one reference for what is in s *)
Once(s) == [p \in Ptr |-> IF p \in ToSet(s) THEN 1 ELSE 0]

(* Only a thread that reads has something to read, and every line names    *)
(* an action.                                                              *)
Honest(t) ==
  /\ t.stage # "read" => t.cells = <<>>
  /\ \A line \in t.lines \cup {t.answer} : line.action = "none" => line = Nothing

MenuTyped ==
  /\ ctx \in Seq(Ptr) /\ IsInjective(ctx)
  /\ menu \in [Slots -> Thread] /\ \A s \in Slots : Honest(menu[s])
  /\ undisturbed \in BOOLEAN

(* There is a way to count the references of the menus: what is in         *)
(* menu_ctx has one, and an undisturbed menu has no others.                *)
References ==
  \E held \in [Ptr -> Nat], locked \in SUBSET Ptr :
    /\ Holding(held, locked) /\ Balanced(store, held, locked)
    /\ \A p \in ToSet(ctx) : held[p] > 0
    /\ undisturbed => held = Once(ctx) /\ locked = ToSet(ctx)

(* An undisturbed menu is the only one, and reads what is in menu_ctx.     *)
Alone ==
  undisturbed =>
    /\ \A s \in Slots : ToSet(menu[s].cells) \subseteq ToSet(ctx)
    /\ \A s, t \in Slots :
         menu[s].stage # "none" /\ menu[t].stage # "none" => s = t

(* None of the properties of the menus is inductive on its own: that a     *)
(* reference may be given back is only known from all the others.          *)
MenuInv == IInv /\ MenuTyped /\ References /\ Alone

LEMMA LockAllKeeps ==
  ASSUME Good(store), NEW ps \in Seq(Ptr), ToSet(ps) \subseteq Queued(store),
         NEW held, NEW locked, Holding(held, locked),
         Balanced(store, held, locked)
  PROVE  LET r == LockAll(Quiet, ps)
             more == [p \in Ptr |-> held[p] + (IF p \in ToSet(ps) THEN 1 ELSE 0)]
             all == locked \cup ToSet(ps)
         IN /\ Good(r) /\ SameQueues(r, store)
            /\ more \in [Ptr -> Nat] /\ all \in SUBSET Ptr
            /\ Holding(more, all) /\ Balanced(r, more, all)
<1> DEFINE r == LockAll(Quiet, ps)
           more == [p \in Ptr |-> held[p] + (IF p \in ToSet(ps) THEN 1 ELSE 0)]
           all == locked \cup ToSet(ps)
           h == [p \in Ptr |-> IF p \in ToSet(ps) THEN Locked(Quiet.heap[p])
                               ELSE Quiet.heap[p]]
<1>1. /\ Good(Quiet) /\ SameQueues(Quiet, store)
      /\ Quiet.heap = store.heap /\ Quiet.nextId = store.nextId
  BY QuietKeeps
<1>2. /\ Quiet \in Store
      /\ Quiet.heap \in [Ptr -> Note \cup {Freed}]
      /\ \A p \in Queued(Quiet) :
           p \in Ptr /\ Quiet.heap[p] \in Note /\ Quiet.heap[p] # Freed
      /\ Queued(Quiet) = Queued(store)
  BY <1>1, GoodFacts DEF SameQueues, Queued
<1>3. r = [Quiet EXCEPT !.heap = h]  BY DEF LockAll
<1>4. \A n \in Note : /\ Locked(n) \in Note /\ Locked(n).locked
                      /\ Locked(n).refs = n.refs + 1 /\ Locked(n).id = n.id
                      /\ n.refs \in Nat
  <2> TAKE n \in Note
  <2>1. n.refs \in Nat /\ n.refs + 1 \in Nat \ {0}  BY DEF Note
  <2>2. Locked(n) = [n EXCEPT !.locked = TRUE, !.refs = n.refs + 1]
    BY DEF Locked
  <2> DEFINE count == n.refs + 1
  <2> HIDE DEF count
  <2>3. Locked(n) = [n EXCEPT !.locked = TRUE, !.refs = count]  BY <2>2 DEF count
  <2>4. count \in Nat \ {0}  BY <2>1 DEF count
  <2>5. /\ Locked(n) \in Note /\ Locked(n).locked /\ Locked(n).refs = count
        /\ Locked(n).id = n.id
    BY <2>3, <2>4 DEF Note
  <2> QED  BY <2>1, <2>5 DEF count
<1>5. /\ \A p \in ToSet(ps) : /\ p \in Ptr /\ p \in Queued(store)
                              /\ Quiet.heap[p] \in Note /\ h[p] \in Note
                              /\ h[p] = Locked(Quiet.heap[p])
      /\ \A p \in Ptr \ ToSet(ps) : h[p] = store.heap[p]
      /\ \A p \in Ptr : p \in ToSet(ps) \/ p \in Ptr \ ToSet(ps)
  BY <1>1, <1>2, <1>4
<1>6. h \in [Ptr -> Note \cup {Freed}]
  <2>1. \A p \in Ptr : h[p] \in Note \cup {Freed}  BY <1>1, <1>2, <1>5
  <2> QED  BY <2>1
<1> HIDE DEF h
<1>7. \A p \in Queued(Quiet) : h[p] # Freed
  BY <1>1, <1>2, <1>5, QueuesAssumption
<1>8. Good(r) /\ Queued(r) = Queued(Quiet)  BY <1>1, <1>3, <1>6, <1>7, GoodHeap
<1>9. /\ SameQueues(r, store) /\ r.heap = h /\ r.nextId = store.nextId
  BY <1>1, <1>2, <1>3 DEF Store, SameQueues
<1> HIDE DEF r
<1>10. \A p \in Ptr : held[p] \in Nat  BY DEF Holding
<1>11. more \in [Ptr -> Nat] /\ all \in SUBSET Ptr /\ Holding(more, all)
  BY <1>5, <1>10 DEF Holding
<1>12. ASSUME NEW p \in Ptr
       PROVE  /\ r.heap[p] # Freed =>
                   /\ r.heap[p].refs = more[p] + (IF p \in Queued(r) THEN 1 ELSE 0)
                   /\ r.heap[p].locked <=> p \in all
              /\ more[p] > 0 => r.heap[p] # Freed
  <2>1. CASE p \in ToSet(ps)
    <3>1. p \in Queued(r) /\ store.heap[p] # Freed /\ store.heap[p] \in Note
      BY <1>1, <1>2, <1>5, <1>8, <2>1
    <3>2. store.heap[p].refs = held[p] + 1
      BY <1>2, <1>8, <3>1 DEF Balanced
    <3>3. /\ r.heap[p].refs = store.heap[p].refs + 1 /\ r.heap[p].locked
          /\ r.heap[p] # Freed
      BY <1>1, <1>4, <1>5, <1>9, <2>1, QueuesAssumption
    <3>4. more[p] = held[p] + 1 /\ p \in all  BY <2>1
    <3> HIDE DEF more, all
    <3> QED  BY <1>10, <3>1, <3>2, <3>3, <3>4
  <2>2. CASE p \notin ToSet(ps)
    <3>1. r.heap[p] = store.heap[p]  BY <1>5, <1>9, <2>2
    <3>2. more[p] = held[p] /\ (p \in all <=> p \in locked)
      BY <1>10, <2>2
    <3>3. p \in Queued(r) <=> p \in Queued(store)  BY <1>2, <1>8
    <3> HIDE DEF more, all
    <3> QED  BY <3>1, <3>2, <3>3 DEF Balanced
  <2> QED  BY <2>1, <2>2
<1>13. \A p \in Queued(r) : r.heap[p].id = store.heap[p].id /\ p \in Queued(store)
  BY <1>1, <1>2, <1>4, <1>5, <1>8, <1>9
<1>14. \A p \in Queued(r) : r.heap[p].id \in 2..r.nextId
  BY <1>9, <1>13 DEF Balanced
<1>15. Unique(r)  BY <1>13 DEF Balanced, Unique
<1>16. Balanced(r, more, all)
  <2> HIDE DEF more, all
  <2> QED  BY <1>12, <1>14, <1>15 DEF Balanced
<1> QED  BY <1>8, <1>9, <1>11, <1>16 DEF r

(* The list of all displayed notifications with something to choose.       *)
LEMMA ActionableAreDisplayed ==
  ASSUME Good(store)
  PROVE  /\ ActionableDisplayed \in Seq(Ptr) /\ IsInjective(ActionableDisplayed)
         /\ ToSet(ActionableDisplayed) \subseteq ToSet(displayed)
<1> DEFINE n == Len(displayed)
           IsFound(f) ==
             f = [i \in 0..n |->
                    IF i = 0 THEN <<>>
                    ELSE IF Actionable(heap[displayed[i]])
                         THEN Append(f[i - 1], displayed[i])
                         ELSE f[i - 1]]
           found == CHOOSE f : IsFound(f)
           d == [i \in 1..n |-> [s \in Seq(Ptr) |->
                    IF Actionable(heap[displayed[i]])
                    THEN Append(s, displayed[i]) ELSE s]]
<1>1. displayed \in Seq(Ptr) /\ IsInjective(displayed)
  BY GoodFacts DEF displayed
<1>2. n \in Nat /\ \A i \in 1..n : displayed[i] \in Ptr
  BY <1>1, LenProperties, ElementOfSeq
<1>3. ActionableDisplayed = found[n]  BY Zenon DEF ActionableDisplayed
<1>4. d \in [1..n -> [Seq(Ptr) -> Seq(Ptr)]]
  <2>1. ASSUME NEW i \in 1..n, NEW s \in Seq(Ptr)
        PROVE  (IF Actionable(heap[displayed[i]]) THEN Append(s, displayed[i])
                ELSE s) \in Seq(Ptr)
    BY <1>2, <2>1, AppendProperties
  <2> QED  BY <2>1
<1>5. <<>> \in Seq(Ptr) /\ IsInjective(<<>>) /\ ToSet(<<>>) = {}
  BY NoElements
<1>6. PICK u : Iterates(u, n, Seq(Ptr), <<>>, d)
  <2> HIDE DEF d, n
  <2> QED  BY <1>2, <1>4, <1>5, IterationExists
<1>7. IsFound(u)
  <2>1. /\ u \in [0..n -> Seq(Ptr)] /\ u[0] = <<>>
        /\ \A i \in 1..n : u[i] = d[i][u[i - 1]]
    BY <1>6 DEF Iterates
  <2>2. \A i \in 0..n :
          u[i] = IF i = 0 THEN <<>>
                 ELSE IF Actionable(heap[displayed[i]])
                      THEN Append(u[i - 1], displayed[i]) ELSE u[i - 1]
    <3> TAKE i \in 0..n
    <3>1. CASE i = 0  BY <2>1, <3>1
    <3>2. CASE i # 0
      <4>1. i \in 1..n /\ u[i - 1] \in Seq(Ptr)  BY <1>2, <2>1, <3>2
      <4>2. d[i][u[i - 1]] = IF Actionable(heap[displayed[i]])
                             THEN Append(u[i - 1], displayed[i]) ELSE u[i - 1]
        BY <4>1
      <4> HIDE DEF d
      <4> QED  BY <2>1, <3>2, <4>1, <4>2
    <3> QED  BY <3>1, <3>2
  <2> HIDE DEF n, d
  <2> QED  BY <2>1, <2>2
<1>8. IsFound(found)
  <2> HIDE DEF IsFound
  <2> QED  BY <1>7
<1>9. /\ found[0] = <<>>
      /\ \A i \in 1..n : found[i] = IF Actionable(heap[displayed[i]])
                                    THEN Append(found[i - 1], displayed[i])
                                    ELSE found[i - 1]
  <2> HIDE DEF found
  <2>1. 0 \in 0..n /\ \A i \in 1..n : i \in 0..n /\ i # 0  BY <1>2
  <2> HIDE DEF n
  <2> QED  BY <1>8, <2>1
<1> HIDE DEF found, n
<1> DEFINE Some(i) == /\ found[i] \in Seq(Ptr) /\ IsInjective(found[i])
                      /\ ToSet(found[i]) \subseteq { displayed[j] : j \in 1..i }
           P == { i \in 1..n : Some(i) }
<1>10. \A i, j \in 1..n : displayed[i] = displayed[j] => i = j
  BY <1>1, Elements DEF n
<1>11. ASSUME NEW i \in 1..n, Some(i - 1) PROVE Some(i)
  <2>1. /\ { displayed[j] : j \in 1..(i - 1) } \subseteq { displayed[j] : j \in 1..i }
        /\ displayed[i] \in { displayed[j] : j \in 1..i }
        /\ displayed[i] \notin { displayed[j] : j \in 1..(i - 1) }
    BY <1>2, <1>10
  <2>2. CASE Actionable(heap[displayed[i]])
    <3>1. found[i] = Append(found[i - 1], displayed[i])  BY <1>9, <2>2
    <3>2. displayed[i] \notin ToSet(found[i - 1])  BY <1>11, <2>1
    <3>3. /\ found[i] \in Seq(Ptr) /\ IsInjective(found[i])
          /\ ToSet(found[i]) = ToSet(found[i - 1]) \cup {displayed[i]}
      BY <1>2, <1>11, <3>1, <3>2, Appended
    <3> QED  BY <1>11, <2>1, <3>3
  <2>3. CASE ~Actionable(heap[displayed[i]])
    BY <1>9, <1>11, <2>1, <2>3
  <2> QED  BY <2>2, <2>3
<1>12. Some(0)  BY <1>5, <1>9
<1>13. \A i \in 1..n : Some(i)
  <2>1. n > 0 => 1 \in P
    <3>1. n > 0 => 1 \in 1..n /\ 1 - 1 = 0  BY <1>2
    <3> HIDE DEF Some
    <3> QED  BY <1>11, <1>12, <3>1
  <2>2. \A i \in 1..(n - 1) : i \in P => i + 1 \in P
    <3> TAKE i \in 1..(n - 1)
    <3>1. i + 1 \in 1..n /\ (i + 1) - 1 = i  BY <1>2
    <3> HIDE DEF Some
    <3>2. i \in P => Some((i + 1) - 1)  BY <3>1
    <3> QED  BY <1>11, <3>1, <3>2
  <2> HIDE DEF P
  <2>3. \A i \in 1..n : i \in P  BY <1>2, <2>1, <2>2, EveryPlace
  <2> QED  BY <2>3 DEF P
<1>14. Some(n)
  <2>1. n = 0 \/ n \in 1..n  BY <1>2
  <2> HIDE DEF Some
  <2> QED  BY <1>12, <1>13, <2>1
<1>15. { displayed[j] : j \in 1..n } = ToSet(displayed)
  BY <1>1, Elements DEF n
<1> QED  BY <1>3, <1>14, <1>15

(* what is left of held and locked when p is given back *)
Less(held, p) == [o \in Ptr |-> IF o = p THEN held[o] - 1 ELSE held[o]]

LEMMA LessHeld ==
  ASSUME NEW held, NEW locked, Holding(held, locked), NEW p \in Ptr, held[p] > 0
  PROVE  /\ Less(held, p) \in [Ptr -> Nat]
         /\ Holding(Less(held, p), locked \ {p})
<1>1. \A o \in Ptr : held[o] \in Nat  BY DEF Holding
<1>2. held[p] - 1 \in Nat  BY <1>1
<1>3. Less(held, p) \in [Ptr -> Nat]  BY <1>1, <1>2 DEF Less
<1>4. \A o \in locked \ {p} : o \in Ptr /\ Less(held, p)[o] > 0
  BY DEF Holding, Less
<1> QED  BY <1>3, <1>4 DEF Holding

LEMMA UnlockKeeps ==
  ASSUME NEW q, Good(q), NEW held, NEW locked, Holding(held, locked),
         Balanced(q, held, locked), NEW p \in Ptr, held[p] > 0
  PROVE  /\ Good(Unlock(q, p))
         /\ Balanced(Unlock(q, p), Less(held, p), locked \ {p})
<1> DEFINE n == [q.heap[p] EXCEPT !.locked = FALSE]
           q1 == [q EXCEPT !.heap = [q.heap EXCEPT ![p] = n]]
           r == Unlock(q, p)
           h == [q.heap EXCEPT ![p] = Dropped(n)]
<1>1. /\ q \in Store /\ q.heap \in [Ptr -> Note \cup {Freed}]
      /\ \A o \in Queued(q) : o \in Ptr /\ q.heap[o] # Freed
  BY GoodFacts
<1>2. /\ q.heap[p] # Freed /\ q.heap[p] \in Note
      /\ q.heap[p].refs = held[p] + (IF p \in Queued(q) THEN 1 ELSE 0)
  BY <1>1 DEF Balanced
<1>3. /\ n \in Note /\ n.refs = q.heap[p].refs /\ n.id = q.heap[p].id
      /\ ~n.locked
  BY <1>2 DEF Note
<1>4. q1 = [q EXCEPT !.heap[p].locked = FALSE]  BY <1>1, <1>2 DEF Store
<1>5. r = Unref(q1, p)  BY <1>4 DEF Unlock
<1> HIDE DEF n
<1>6. q1 \in Store /\ q1.heap = [q.heap EXCEPT ![p] = n]
      /\ SameQueues(q1, q) /\ q1.nextId = q.nextId /\ q1.heap[p] = n
  BY <1>1, <1>3 DEF Store, SameQueues
<1>7. /\ SameQueues(r, q1) /\ r.nextId = q1.nextId
      /\ r.heap = [q1.heap EXCEPT ![p] = Dropped(q1.heap[p])]
  <2> HIDE DEF q1, r
  <2>1. q1 \in Store /\ p \in Ptr  BY <1>6
  <2> QED  BY <1>5, <2>1, UnrefEffect
<1>8. SameQueues(r, q) /\ r.heap = h /\ r.nextId = q.nextId
  BY <1>1, <1>6, <1>7 DEF SameQueues
<1>9. \/ n.refs = 1 /\ Dropped(n) = Freed
      \/ /\ n.refs # 1 /\ Dropped(n) \in Note /\ Dropped(n) # Freed
         /\ Dropped(n).refs = n.refs - 1 /\ ~Dropped(n).locked
         /\ Dropped(n).id = n.id
  <2>1. CASE n.refs = 1  BY <1>3, <2>1, DroppedFacts
  <2>2. CASE n.refs # 1
    <3>1. /\ Dropped(n) \in Note /\ Dropped(n).locked = n.locked
          /\ Dropped(n).id = n.id
      BY <1>3, <2>2, DroppedFacts
    <3>2. Dropped(n) = [n EXCEPT !.refs = n.refs - 1]  BY <2>2 DEF Dropped
    <3>3. Dropped(n).refs = n.refs - 1  BY <1>3, <3>2 DEF Note
    <3> QED  BY <1>3, <2>2, <3>1, <3>3, QueuesAssumption
  <2> QED  BY <2>1, <2>2
<1>10. held[p] \in Nat /\ n.refs \in Nat /\ \A o \in Ptr : held[o] \in Nat
  BY <1>3 DEF Holding, Note
<1>11. p \in Queued(q) => n.refs = held[p] + 1 /\ n.refs # 1
  BY <1>2, <1>3, <1>10
<1>12. /\ h \in [Ptr -> Note \cup {Freed}] /\ h[p] = Dropped(n)
       /\ \A o \in Ptr \ {p} : h[o] = q.heap[o]
  BY <1>1, <1>9
<1> HIDE DEF h, q1, r
<1>13. \A o \in Queued(q) : h[o] # Freed
  BY <1>1, <1>9, <1>11, <1>12
<1>14. Good(r)
  <2>1. Owns(r)  BY <1>8, <1>13 DEF Good, Owns, SameQueues, Queued
  <2>2. r \in Store
    <3>1. q1 = [q EXCEPT !.heap = [q.heap EXCEPT ![p] = n]]  BY DEF q1
    <3>2. Unref(q1, p) = [q1 EXCEPT !.heap[p] = Dropped(q1.heap[p])]
      BY DEF Unref, Dropped
    <3>3. Unref(q1, p) = [q1 EXCEPT !.heap = h]
      BY <1>6, <1>7, <1>8, <3>2 DEF Store, r
    <3> QED  BY <1>5, <1>6, <1>12, <3>3 DEF Store
  <2> QED  BY <2>1, <2>2 DEF Good
<1>15. Queued(r) = Queued(q)  BY <1>8 DEF SameQueues, Queued
<1>16. ASSUME NEW o \in Ptr
       PROVE  /\ r.heap[o] # Freed =>
                   /\ r.heap[o].refs = Less(held, p)[o]
                                         + (IF o \in Queued(r) THEN 1 ELSE 0)
                   /\ r.heap[o].locked <=> o \in locked \ {p}
              /\ Less(held, p)[o] > 0 => r.heap[o] # Freed
  <2>1. CASE o = p
    <3>1. Less(held, p)[o] = held[p] - 1  BY <2>1 DEF Less
    <3>2. r.heap[o] = Dropped(n)  BY <1>8, <1>12, <2>1
    <3>3. n.refs = held[p] + (IF o \in Queued(r) THEN 1 ELSE 0)
      BY <1>2, <1>3, <1>15, <2>1
    <3> QED  BY <1>9, <1>10, <2>1, <3>1, <3>2, <3>3
  <2>2. CASE o # p
    <3>1. Less(held, p)[o] = held[o]  BY <2>2 DEF Less
    <3>2. r.heap[o] = q.heap[o]  BY <1>8, <1>12, <2>2
    <3> QED  BY <1>15, <2>2, <3>1, <3>2 DEF Balanced
  <2> QED  BY <2>1, <2>2
<1>17. \A o \in Queued(r) : r.heap[o].id = q.heap[o].id
  BY <1>1, <1>3, <1>8, <1>9, <1>11, <1>12, <1>15
<1>18. \A o \in Queued(r) : r.heap[o].id \in 2..r.nextId
  BY <1>8, <1>15, <1>17 DEF Balanced
<1>19. Unique(r)  BY <1>15, <1>17 DEF Balanced, Unique
<1> QED  BY <1>14, <1>16, <1>18, <1>19 DEF Balanced, r

LEMMA UnmarkOrderly ==
  ASSUME NEW q, Good(q), NEW p \in Ptr, NEW field \in {"closing", "removing"}
  PROVE  Unmark(q, p, field) = q \/ Orderly(Unmark(q, p, field), q)
<1>1. CASE q.heap[p] = Freed  BY <1>1 DEF Unmark
<1>2. CASE q.heap[p] # Freed
  <2> DEFINE m == q.heap[p]
             n == [m EXCEPT ![field] = NotMarked]
  <2>1. q.heap[p] \in Note  BY <1>2, GoodFacts
  <2>2. n \in Note /\ Alike(n, m)
    <3>1. CASE field = "closing"  BY <2>1, <3>1 DEF Alike, Note
    <3>2. CASE field = "removing"  BY <2>1, <3>2 DEF Alike, Note
    <3> QED  BY <3>1, <3>2
  <2>3. Unmark(q, p, field) = [q EXCEPT !.heap[p] = n]
    BY <1>2, GoodFacts DEF Unmark, Store
  <2> QED  BY <2>1, <2>2, <2>3, AlikeOrderly
<1> QED  BY <1>1, <1>2

(* Whatever the marks are, one turn gives back one reference and loses     *)
(* none.                                                                   *)
LEMMA ReleaseKeeps ==
  ASSUME NEW q, Good(q), NEW held, NEW locked, Holding(held, locked),
         Balanced(q, held, locked), NEW p \in Ptr, held[p] > 0,
         NEW aborted \in BOOLEAN, NEW lost \in BOOLEAN
  PROVE  /\ Good(Release(q, p, aborted, lost))
         /\ Balanced(Release(q, p, aborted, lost), Less(held, p), locked \ {p})
<1> DEFINE K(x) == Good(x) /\ Balanced(x, Less(held, p), locked \ {p})
           n == q.heap[p]
           q1 == Unlock(q, p)
           q2 == IF n.closing # NotMarked /\ ~aborted
                    /\ ~(lost /\ q1.heap[p] = Freed)
                 THEN CloseId(q1, n.id, n.closing) ELSE q1
           q3 == IF n.removing # NotMarked /\ ~(lost /\ q2.heap[p] = Freed)
                 THEN CloseId(q2, n.id, n.removing) ELSE q2
           q4 == IF n.removing # NotMarked /\ ~(lost /\ q3.heap[p] = Freed)
                 THEN HistoryRemoveById(q3, n.id) ELSE q3
           q5 == Unmark(q4, p, "closing")
           q6 == Unmark(q5, p, "removing")
<1>1. Release(q, p, aborted, lost) = q6  BY DEF Release
<1>2. /\ n.closing \in {NotMarked} \cup Reasons
      /\ n.removing \in {NotMarked} \cup Reasons
  <2>1. q.heap[p] # Freed /\ q.heap[p] \in Note  BY GoodFacts DEF Balanced
  <2> QED  BY <2>1 DEF Note
<1> HIDE DEF n
<1>3. \A x, y : K(x) /\ (y = x \/ Orderly(y, x)) => K(y)
  <2>1. ASSUME NEW x, NEW y, K(x), Orderly(y, x) PROVE K(y)
    <3>1. Good(y)  BY <2>1 DEF Orderly
    <3>2. Holding(Less(held, p), locked \ {p})  BY LessHeld
    <3>3. Balanced(y, Less(held, p), locked \ {p})
      BY <2>1, <3>2, BalancedKept
    <3> QED  BY <3>1, <3>3
  <2> HIDE DEF K
  <2> QED  BY <2>1
<1>4. K(q1)  BY UnlockKeeps
<1>5. \A x : K(x) => Good(x)  OBVIOUS
<1> HIDE DEF K, q1
<1>6. K(q2)  BY <1>2, <1>3, <1>4, <1>5, CloseIdOrderly
<1> HIDE DEF q2
<1>7. K(q3)  BY <1>2, <1>3, <1>5, <1>6, CloseIdOrderly
<1> HIDE DEF q3
<1>8. K(q4)  BY <1>3, <1>5, <1>7, HistoryRemoveOrderly
<1> HIDE DEF q4
<1>9. K(q5)  BY <1>3, <1>5, <1>8, UnmarkOrderly
<1> HIDE DEF q5
<1>10. K(q6)  BY <1>3, <1>5, <1>9, UnmarkOrderly
<1> QED  BY <1>1, <1>10 DEF K

(* what is left when all of s is given back *)
Rest(held, s) == [p \in Ptr |-> IF p \in ToSet(s) THEN held[p] - 1 ELSE held[p]]

(* The end of a menu gives back every reference menu_ctx has, once.        *)
LEMMA ReleaseAllKeeps ==
  ASSUME Good(store), MenuTyped,
         NEW held, NEW locked, Holding(held, locked),
         Balanced(store, held, locked),
         \A p \in ToSet(ctx) : held[p] > 0,
         NEW aborted \in BOOLEAN, NEW lost \in [1..Len(ctx) -> BOOLEAN]
  PROVE  LET r == ReleaseAll(aborted, lost)
         IN /\ Good(r)
            /\ Holding(Rest(held, ctx), locked \ ToSet(ctx))
            /\ Balanced(r, Rest(held, ctx), locked \ ToSet(ctx))
<1> DEFINE n == Len(ctx)
           Past(i) == { ctx[j] : j \in 1..i }
           Held(i) == [p \in Ptr |-> IF p \in Past(i) THEN held[p] - 1 ELSE held[p]]
           Lock(i) == locked \ Past(i)
           Step(i, x) == Release(x, ctx[i], aborted, lost[i])
           IsTurn(f) ==
             f = [i \in 0..n |->
                    IF i = 0 THEN Quiet
                    ELSE Release(f[i - 1], ctx[i], aborted, lost[i])]
           turn == CHOOSE f : IsTurn(f)
           Turning(f) ==
             /\ f[0] = Quiet
             /\ \A i \in 1..n : Step(i, f[i - 1]) \in Store =>
                                  f[i] = Step(i, f[i - 1])
           d == [i \in 1..n |-> [x \in Store |->
                    IF Step(i, x) \in Store THEN Step(i, x) ELSE x]]
           K(x, i) == /\ Good(x) /\ Holding(Held(i), Lock(i))
                      /\ Balanced(x, Held(i), Lock(i))
<1>1. ctx \in Seq(Ptr) /\ IsInjective(ctx)  BY DEF MenuTyped
<1>2. n \in Nat /\ \A i \in 1..n : /\ ctx[i] \in Ptr /\ ctx[i] \in ToSet(ctx)
                                   /\ lost[i] \in BOOLEAN
  BY <1>1, LenProperties, Elements
<1>3. ReleaseAll(aborted, lost) = turn[n]  BY Zenon DEF ReleaseAll
<1>4. \A i, j \in 1..n : ctx[i] = ctx[j] => i = j
  BY <1>1, Elements
<1>5. Past(0) = {} /\ Past(n) = ToSet(ctx)
  <2>1. 1..0 = {}  OBVIOUS
  <2> QED  BY <1>1, <2>1, Elements
<1>6. \A p \in Ptr : held[p] \in Nat  BY DEF Holding
<1>7. Held(0) = held /\ Lock(0) = locked
  <2> DEFINE h == [p \in Ptr |-> held[p]]
  <2>1. Held(0) = h  BY <1>5
  <2>2. h = held  BY DEF Holding
  <2> QED  BY <1>5, <2>1, <2>2
<1>8. Held(n) = Rest(held, ctx) /\ Lock(n) = locked \ ToSet(ctx)
  <2>1. Past(n) = ToSet(ctx)  BY <1>5
  <2> HIDE DEF Past, n
  <2> QED  BY <2>1 DEF Rest
<1>9. K(Quiet, 0)
  <2>1. Good(Quiet) /\ Balanced(Quiet, held, locked)
    BY QuietKeeps, BalancedQuiet
  <2> HIDE DEF Held, Lock
  <2> QED  BY <1>7, <2>1
<1>10. ASSUME NEW i \in 1..n
       PROVE  /\ Held(i) = Less(Held(i - 1), ctx[i])
              /\ Lock(i) = Lock(i - 1) \ {ctx[i]}
              /\ Held(i - 1)[ctx[i]] > 0
  <2>1. Past(i) = Past(i - 1) \cup {ctx[i]}
    <3>1. i \in 1..n /\ n \in Nat  BY <1>2
    <3>2. 1..i = (1..(i - 1)) \cup {i}  BY <3>1
    <3> QED  BY <3>2
  <2>2. ctx[i] \notin Past(i - 1)
    <3>1. \A j \in 1..(i - 1) : j \in 1..n /\ j # i  BY <1>2
    <3> QED  BY <1>4, <3>1
  <2> HIDE DEF Past, n
  <2>3. ctx[i] \in Ptr /\ held[ctx[i]] > 0  BY <1>2
  <2>4. Held(i - 1)[ctx[i]] = held[ctx[i]]  BY <2>2, <2>3
  <2>5. \A o \in Ptr : Held(i)[o] = Less(Held(i - 1), ctx[i])[o]
    BY <2>1, <2>2 DEF Less
  <2>6. Held(i) = Less(Held(i - 1), ctx[i])  BY <2>5 DEF Less
  <2> QED  BY <2>1, <2>3, <2>4, <2>6
<1> HIDE DEF Held, Lock, Past
<1>11. ASSUME NEW i \in 1..n, NEW x, K(x, i - 1)
       PROVE  K(Step(i, x), i)
  <2>1. ctx[i] \in Ptr /\ lost[i] \in BOOLEAN  BY <1>2
  <2>2. /\ Good(x) /\ Holding(Held(i - 1), Lock(i - 1))
        /\ Balanced(x, Held(i - 1), Lock(i - 1))
    BY <1>11
  <2>3. /\ Good(Step(i, x))
        /\ Balanced(Step(i, x), Less(Held(i - 1), ctx[i]), Lock(i - 1) \ {ctx[i]})
    BY <1>10, <2>1, <2>2, ReleaseKeeps
  <2>4. Holding(Less(Held(i - 1), ctx[i]), Lock(i - 1) \ {ctx[i]})
    BY <1>10, <2>1, <2>2, LessHeld
  <2> HIDE DEF Step
  <2> QED  BY <1>10, <2>3, <2>4
<1> HIDE DEF Step
<1>12. ASSUME NEW f, Turning(f)
       PROVE  \A i \in 0..n : K(f[i], i)
  <2> DEFINE P == { i \in 1..n : K(f[i], i) }
  <2>1. K(f[0], 0)  BY <1>9, <1>12
  <2>2. ASSUME NEW i \in 1..n, K(f[i - 1], i - 1)
        PROVE  K(f[i], i)
    <3>1. K(Step(i, f[i - 1]), i)  BY <1>11, <2>2
    <3>2. Step(i, f[i - 1]) \in Store  BY <3>1 DEF Good
    <3>3. f[i] = Step(i, f[i - 1])  BY <1>12, <3>2
    <3> HIDE DEF K
    <3> QED  BY <3>1, <3>3
  <2> HIDE DEF K, Turning
  <2>3. n > 0 => 1 \in P
    <3>1. n > 0 => 1 \in 1..n /\ 1 - 1 = 0  BY <1>2
    <3> QED  BY <2>1, <2>2, <3>1
  <2>4. \A i \in 1..(n - 1) : i \in P => i + 1 \in P
    <3> TAKE i \in 1..(n - 1)
    <3>1. i + 1 \in 1..n /\ (i + 1) - 1 = i  BY <1>2
    <3>2. i \in P => K(f[(i + 1) - 1], (i + 1) - 1)  BY <3>1
    <3> QED  BY <2>2, <3>1, <3>2
  <2>5. \A i \in 1..n : i \in P
    <3> HIDE DEF P
    <3> QED  BY <1>2, <2>3, <2>4, EveryPlace
  <2>6. \A i \in 0..n : i = 0 \/ i \in 1..n  BY <1>2
  <2> QED  BY <2>1, <2>5, <2>6
<1>13. Quiet \in Store  BY QuietKeeps DEF Good
<1>14. PICK u : Iterates(u, n, Store, Quiet, d)
  <2>1. d \in [1..n -> [Store -> Store]]  OBVIOUS
  <2> HIDE DEF d, n
  <2> QED  BY <1>2, <1>13, <2>1, IterationExists
<1>15. /\ u \in [0..n -> Store] /\ u[0] = Quiet
       /\ \A i \in 1..n : u[i] = d[i][u[i - 1]]
  <2> HIDE DEF d, n
  <2> QED  BY <1>14 DEF Iterates
<1>16. \A i \in 1..n : /\ i - 1 \in 0..n /\ i \in 0..n /\ i # 0  BY <1>2
<1> HIDE DEF n
<1>17. \A i \in 1..n : u[i - 1] \in Store  BY <1>15, <1>16
<1>18. \A i \in 1..n : u[i] = IF Step(i, u[i - 1]) \in Store
                              THEN Step(i, u[i - 1]) ELSE u[i - 1]
  BY <1>15, <1>17
<1> HIDE DEF d
<1>19. \A i \in 0..n : K(u[i], i)
  <2>1. Turning(u)  BY <1>15, <1>18
  <2> QED  BY <1>12, <2>1
<1>20. \A i \in 1..n : u[i] = Step(i, u[i - 1])
  <2> TAKE i \in 1..n
  <2>1. K(u[i - 1], i - 1)  BY <1>16, <1>19
  <2>2. K(Step(i, u[i - 1]), i)  BY <1>11, <2>1
  <2>3. Step(i, u[i - 1]) \in Store  BY <2>2 DEF Good
  <2> QED  BY <1>18, <2>3
<1>21. IsTurn(u)
  <2>1. \A i \in 0..n : i = 0 \/ i \in 1..n  BY <1>2
  <2>2. \A i \in 0..n :
          u[i] = IF i = 0 THEN Quiet
                 ELSE Release(u[i - 1], ctx[i], aborted, lost[i])
    BY <1>15, <1>20, <2>1 DEF Step
  <2> QED  BY <1>15, <2>2
<1>22. IsTurn(turn)
  <2> HIDE DEF IsTurn
  <2> QED  BY <1>21
<1>23. Turning(turn)
  <2> HIDE DEF turn
  <2>1. 0 \in 0..n  BY <1>2
  <2>2. turn[0] = Quiet  BY <1>22, <2>1
  <2>3. \A i \in 1..n : turn[i] = Step(i, turn[i - 1])
    BY <1>16, <1>22 DEF Step
  <2> QED  BY <2>2, <2>3
<1> HIDE DEF turn, Turning
<1>24. K(turn[n], n)
  <2>1. n \in 0..n  BY <1>2
  <2> QED  BY <1>12, <1>23, <2>1
<1> QED  BY <1>3, <1>8, <1>24

---------------------------------------------------------------------------
(* The steps of the menus                                                  *)

LEMMA OneElement ==
  ASSUME NEW p \in Ptr
  PROVE  <<p>> \in Seq(Ptr) /\ IsInjective(<<p>>) /\ ToSet(<<p>>) = {p}
<1> DEFINE s == <<p>>
<1>1. s \in Seq(Ptr) /\ Len(s) = 1 /\ s[1] = p  OBVIOUS
<1> HIDE DEF s
<1>2. \A j \in 1..Len(s) : j = 1  BY <1>1
<1>3. { s[j] : j \in 1..Len(s) } = {p}  BY <1>1, <1>2
<1>4. \A a, b \in 1..Len(s) : s[a] = s[b] => a = b  BY <1>2
<1>5. IsInjective(s) /\ ToSet(s) = {p}  BY <1>1, <1>3, <1>4, Elements
<1> QED  BY <1>1, <1>5 DEF s

LEMMA LinesTyped ==
  /\ Nothing \in Line /\ UrlLine \in Line /\ UrlLine.action # "none"
  /\ Nothing.action = "none"
  /\ \A n \in Note : /\ LinesOf(n) \subseteq Line
                     /\ \A line \in LinesOf(n) : line.action # "none"
<1>1. MaxId \in Nat /\ Kinds \subseteq KindType  BY NotificationAssumption
<1>2. 0 \in 0..MaxId  BY <1>1
<1>3. Nothing \in Line /\ UrlLine \in Line  BY <1>2 DEF Nothing, UrlLine, Line
<1>4. UrlLine.action # "none" /\ Nothing.action = "none"
  BY DEF Nothing, UrlLine
<1>5. ASSUME NEW n \in Note, NEW line \in LinesOf(n)
      PROVE  line \in Line /\ line.action # "none"
  <2>1. ActionsOf(n) \in {"none", "default", "several"} /\ n.id \in 0..MaxId
    BY <1>1 DEF Note, KindType, ActionsOf
  <2>2. CASE line = UrlLine  BY <1>3, <1>4, <2>2
  <2>3. CASE /\ line = [id |-> n.id, action |-> ActionsOf(n)]
             /\ ActionsOf(n) # "none"
    BY <2>1, <2>3 DEF Line
  <2> QED  BY <2>2, <2>3 DEF LinesOf
<1> QED  BY <1>3, <1>4, <1>5

LEMMA NoThreadHonest ==
  /\ NoThread \in Thread /\ Honest(NoThread)
  /\ NoThread.stage = "none" /\ NoThread.cells = <<>>
<1>1. <<>> \in Seq(Ptr)  BY NoElements
<1>2. NoThread \in Thread  BY <1>1, LinesTyped DEF NoThread, Thread
<1> QED  BY <1>2 DEF NoThread, Honest

LEMMA ThreadChanged ==
  ASSUME MenuTyped, NEW s \in Slots, NEW t \in Thread, Honest(t)
  PROVE  /\ [menu EXCEPT ![s] = t] \in [Slots -> Thread]
         /\ \A o \in Slots : Honest([menu EXCEPT ![s] = t][o])
         /\ [menu EXCEPT ![s] = t][s] = t
         /\ \A o \in Slots \ {s} : [menu EXCEPT ![s] = t][o] = menu[o]
<1> DEFINE m == [menu EXCEPT ![s] = t]
<1>1. menu \in [Slots -> Thread] /\ \A o \in Slots : Honest(menu[o])
  BY DEF MenuTyped
<1>2. /\ m \in [Slots -> Thread] /\ m[s] = t
      /\ \A o \in Slots \ {s} : m[o] = menu[o]
  BY <1>1
<1> HIDE DEF m
<1>3. \A o \in Slots : Honest(m[o])  BY <1>1, <1>2
<1> QED  BY <1>2, <1>3 DEF m

(* What an event does that may open a menu: nothing, the default action of *)
(* a displayed notification, or a menu for some of the displayed ones.     *)
LEMMA DoActionEffect ==
  ASSUME Good(store), NEW p \in ToSet(displayed), DoAction(p) \/ OpenUrl(p)
  PROVE  \/ /\ store' = Quiet /\ UNCHANGED <<ctx, menu, undisturbed>>
            /\ invoked' = 0 \/ (heap[p].valid /\ invoked' = heap[p].id)
         \/ OpenMenu(<<p>>) /\ invoked' = 0
<1>1. CASE OpenUrl(p)  BY <1>1 DEF OpenUrl, NothingHappens
<1>2. CASE DoAction(p)
  <2>1. CASE /\ ActionsOf(heap[p]) = "default" /\ invoked' = heap[p].id
             /\ store' = Quiet /\ UNCHANGED <<ctx, menu, undisturbed>>
    <3>1. heap[p].valid  BY <2>1 DEF ActionsOf
    <3> QED  BY <2>1, <3>1
  <2>2. CASE OpenMenu(<<p>>) /\ invoked' = 0  BY <2>2
  <2>3. CASE OpenUrl(p)  BY <1>1, <2>3
  <2> QED  BY <1>2, <2>1, <2>2, <2>3 DEF DoAction
<1> QED  BY <1>1, <1>2

Invokes == \E p \in ToSet(displayed) : heap[p].valid /\ invoked' = heap[p].id

Opens ==
  /\ invoked' = 0
  /\ \E ps \in Seq(Ptr) : /\ IsInjective(ps) /\ ToSet(ps) \subseteq ToSet(displayed)
                          /\ OpenMenu(ps)

LEMMA OpeningEffect ==
  ASSUME UpdateInv, OpensMenu
  PROVE  /\ \/ /\ store' = Quiet /\ UNCHANGED <<ctx, menu, undisturbed>>
               /\ invoked' = 0 \/ Invokes
            \/ Opens
         /\ pc \in {"idle", "click"}
         /\ UNCHANGED <<status, control, clicked, clock, timer, advertised>>
         /\ acts' = acts \/ (acts # <<>> /\ acts' = Tail(acts))
<1> DEFINE Effect == \/ /\ store' = Quiet /\ UNCHANGED <<ctx, menu, undisturbed>>
                        /\ invoked' = 0 \/ Invokes
                     \/ Opens
<1>0. Good(store) /\ displayed \in Seq(Ptr)  BY GoodFacts DEF UpdateInv, displayed
<1>1. ASSUME NEW i \in 1..Len(displayed),
             \/ DoAction(displayed[i]) \/ OpenUrl(displayed[i])
             \/ OpenMenu(<<displayed[i]>>) /\ invoked' = 0
      PROVE  Effect
  <2> DEFINE p == displayed[i]
  <2>1. p \in Ptr /\ p \in ToSet(displayed)  BY <1>0, Elements
  <2>2. <<p>> \in Seq(Ptr) /\ IsInjective(<<p>>) /\ ToSet(<<p>>) = {p}
    BY <2>1, OneElement
  <2> HIDE DEF p
  <2>3. CASE OpenMenu(<<p>>) /\ invoked' = 0
    BY <2>1, <2>2, <2>3 DEF Opens
  <2>4. CASE DoAction(p) \/ OpenUrl(p)
    BY <1>0, <2>1, <2>3, <2>4, DoActionEffect DEF Invokes
  <2> QED  BY <1>1, <2>3, <2>4 DEF p
<1>2. Missed => Effect  BY DEF Missed, NothingHappens
<1>3. OpenMenu(ActionableDisplayed) /\ invoked' = 0 => Effect
  BY <1>0, ActionableAreDisplayed DEF Opens
<1>4. CASE ContextMenuCall
  BY <1>3, <1>4 DEF ContextMenuCall, MainStays, control, mouse
<1>5. CASE \E i \in 0..Len(displayed) : NotificationAction(i)
  <2>1. PICK i \in 0..Len(displayed) : NotificationAction(i)  BY <1>5
  <2>2. i + 1 \in 1..Len(displayed)
    <3>1. Len(displayed) \in Nat  BY <1>0, LenProperties
    <3>2. i < Len(displayed)  BY <2>1 DEF NotificationAction
    <3> QED  BY <3>1, <3>2
  <2>3. DoAction(displayed[i + 1]) /\ pc = "idle" /\ MainStays
    BY <2>1 DEF NotificationAction
  <2>4. Effect  BY <1>1, <2>2, <2>3
  <2> QED  BY <2>3, <2>4 DEF MainStays, control, mouse
<1>6. CASE ClickDoAction \/ ClickOpenUrl \/ ClickContext
  <2>1. \E act : ClickOn(act)
    BY <1>6 DEF ClickDoAction, ClickOpenUrl, ClickContext
  <2>2. Effect
    BY <1>1, <1>2, <1>6 DEF ClickDoAction, ClickOpenUrl, ClickContext, Hit
  <2> QED  BY <2>1, <2>2 DEF ClickOn, ClickAct
<1>7. CASE ClickContextAll
  BY <1>3, <1>7 DEF ClickContextAll, ClickAct
<1> QED  BY <1>4, <1>5, <1>6, <1>7 DEF OpensMenu

(* context_menu_for takes one reference to each, and puts them into        *)
(* menu_ctx unless there is a menu.                                        *)
LEMMA OpenMenuKeeps ==
  ASSUME Good(store), MenuTyped, References, Alone,
         NEW ps \in Seq(Ptr), IsInjective(ps),
         ToSet(ps) \subseteq ToSet(displayed), OpenMenu(ps)
  PROVE  Good(store') /\ MenuTyped' /\ References' /\ Alone'
<1> DEFINE n == [NoThread EXCEPT !.stage = "enter"]
           starting(s) == [menu EXCEPT ![s] = n]
<1>1. ToSet(ps) \subseteq Queued(store)  BY DEF Queued, displayed
<1>2. PICK held \in [Ptr -> Nat], locked \in SUBSET Ptr :
        /\ Holding(held, locked) /\ Balanced(store, held, locked)
        /\ \A p \in ToSet(ctx) : held[p] > 0
        /\ undisturbed => held = Once(ctx) /\ locked = ToSet(ctx)
  BY DEF References
<1> DEFINE more == [p \in Ptr |-> held[p] + (IF p \in ToSet(ps) THEN 1 ELSE 0)]
           all == locked \cup ToSet(ps)
<1>3. store' = LockAll(Quiet, ps)  BY DEF OpenMenu
<1>4. /\ Good(store')
      /\ more \in [Ptr -> Nat] /\ all \in SUBSET Ptr
      /\ Holding(more, all) /\ Balanced(store', more, all)
  BY <1>1, <1>2, <1>3, LockAllKeeps
<1>5. \A p \in Ptr : held[p] \in Nat  BY <1>2 DEF Holding
<1>6. ToSet(ps) \subseteq Ptr /\ ToSet(ctx) \subseteq Ptr
  BY Elements DEF MenuTyped
<1>7. \A p \in Ptr : more[p] >= held[p] /\ (p \in ToSet(ps) => more[p] > 0)
  BY <1>5
<1>8. CASE /\ UNCHANGED <<ctx, menu>> /\ undisturbed' = FALSE
  <2>1. MenuTyped' /\ Alone'  BY <1>8 DEF MenuTyped, Alone
  <2>2. \A p \in ToSet(ctx) : more[p] > 0
    <3> HIDE DEF more
    <3> QED  BY <1>2, <1>4, <1>5, <1>6, <1>7
  <2> HIDE DEF more, all
  <2>3. \A p \in ToSet(ctx') : more[p] > 0  BY <1>8, <2>2
  <2>4. References'
    BY <1>4, <1>8, <2>3 DEF References, Holding, Balanced, Unique
  <2> QED  BY <1>4, <2>1, <2>4
<1>9. CASE /\ ctx = <<>> /\ ctx' = ps
           /\ \E starts \in ThreadStarts, s \in Free :
                /\ menu' = IF starts THEN starting(s) ELSE menu
                /\ undisturbed' = (undisturbed /\ starts /\ Free = Slots)
  <2>1. PICK starts \in ThreadStarts, s \in Free :
          /\ menu' = IF starts THEN starting(s) ELSE menu
          /\ undisturbed' = (undisturbed /\ starts /\ Free = Slots)
    BY <1>9
  <2>2. s \in Slots /\ undisturbed' \in BOOLEAN /\ ctx' = ps /\ ctx = <<>>
    BY <1>9, <2>1 DEF Free
  <2>3. n \in Thread /\ Honest(n) /\ n.cells = <<>>
    <3>1. NoThread \in Thread /\ Honest(NoThread) /\ NoThread.cells = <<>>
      BY NoThreadHonest
    <3>2. /\ n \in Thread /\ n.stage = "enter" /\ n.cells = NoThread.cells
          /\ n.lines = NoThread.lines /\ n.answer = NoThread.answer
      BY <3>1 DEF Thread
    <3> HIDE DEF n
    <3> QED  BY <3>1, <3>2 DEF Honest
  <2> HIDE DEF n
  <2>4. /\ starting(s) \in [Slots -> Thread]
        /\ \A o \in Slots : Honest(starting(s)[o])
        /\ starting(s)[s] = n
        /\ \A o \in Slots \ {s} : starting(s)[o] = menu[o]
    BY <2>2, <2>3, ThreadChanged
  <2> HIDE DEF starting
  <2>5. MenuTyped'  BY <2>1, <2>2, <2>4 DEF MenuTyped
  <2>6. Alone'
    <3> SUFFICES ASSUME undisturbed'  PROVE
          /\ \A o \in Slots : ToSet(menu'[o].cells) \subseteq ToSet(ctx')
          /\ \A o, t \in Slots :
               menu'[o].stage # "none" /\ menu'[t].stage # "none" => o = t
      BY DEF Alone
    <3>1. menu' = starting(s) /\ Free = Slots  BY <2>1
    <3>2. \A o \in Slots \ {s} : menu'[o].stage = "none" /\ menu'[o].cells = <<>>
      BY <2>4, <3>1 DEF Free, MenuTyped, Honest
    <3>3. menu'[s].cells = <<>>  BY <2>3, <2>4, <3>1
    <3>4. ToSet(<<>>) = {}  BY NoElements
    <3>5. \A o \in Slots : menu'[o].cells = <<>>  BY <3>2, <3>3
    <3> QED  BY <3>2, <3>4, <3>5
  <2>7. References'
    <3>1. undisturbed' => more = Once(ctx') /\ all = ToSet(ctx')
      <4> SUFFICES ASSUME undisturbed'
                   PROVE  more = Once(ctx') /\ all = ToSet(ctx')
        OBVIOUS
      <4>1. undisturbed  BY <2>1
      <4>2. ToSet(ctx) = {}  BY <2>2, NoElements
      <4>3. held = Once(ctx) /\ locked = {}  BY <1>2, <4>1, <4>2
      <4>4. \A p \in Ptr : held[p] = 0  BY <4>2, <4>3 DEF Once
      <4>5. \A p \in Ptr : more[p] = Once(ps)[p]  BY <4>4 DEF Once
      <4>6. more = Once(ps)  BY <4>5 DEF Once
      <4> QED  BY <2>2, <4>3, <4>6
    <3>2. \A p \in ToSet(ctx') : more[p] > 0
      <4> HIDE DEF more
      <4> QED  BY <1>6, <1>7, <2>2
    <3> HIDE DEF more, all
    <3> QED
      BY <1>4, <3>1, <3>2 DEF References, Holding, Balanced, Unique, Once
  <2> QED  BY <1>4, <2>5, <2>6, <2>7
<1> QED  BY <1>8, <1>9 DEF OpenMenu

LEMMA OpeningKeeps ==
  ASSUME MenuInv, OpensMenu
  PROVE  MenuInv'
<1>1. /\ UpdateInv /\ Surroundings /\ MenuTyped /\ References /\ Alone
      /\ Good(store)
  BY IInvParts DEF MenuInv, UpdateInv
<1>2. /\ \/ store' = Quiet /\ UNCHANGED <<ctx, menu, undisturbed>>
         \/ Opens
      /\ pc \in {"idle", "click"}
      /\ UNCHANGED <<status, control, clicked, clock, timer, advertised>>
      /\ acts' = acts \/ (acts # <<>> /\ acts' = Tail(acts))
  BY <1>1, OpeningEffect
<1>3. Good(store') /\ MenuTyped' /\ References' /\ Alone'
  <2>1. CASE Opens
    BY <1>1, <2>1, OpenMenuKeeps DEF Opens
  <2>2. CASE store' = Quiet /\ UNCHANGED <<ctx, menu, undisturbed>>
    <3>1. Good(Quiet)  BY <1>1, QuietKeeps
    <3>2. MenuTyped' /\ Alone'  BY <1>1, <2>2 DEF MenuTyped, Alone
    <3>3. References'
      <4>1. PICK held \in [Ptr -> Nat], locked \in SUBSET Ptr :
              /\ Holding(held, locked) /\ Balanced(store, held, locked)
              /\ \A p \in ToSet(ctx) : held[p] > 0
              /\ undisturbed => held = Once(ctx) /\ locked = ToSet(ctx)
        BY <1>1 DEF References
      <4>2. Balanced(Quiet, held, locked)  BY <1>1, <4>1, BalancedQuiet
      <4>3. Balanced(store', held, locked)  BY <2>2, <4>2
      <4>4. /\ \A p \in ToSet(ctx') : held[p] > 0
            /\ undisturbed' => held = Once(ctx') /\ locked = ToSet(ctx')
        BY <2>2, <4>1
      <4>5. Holding(held, locked)  BY <4>1
      <4> QED  BY <4>3, <4>4, <4>5 DEF References, Holding, Balanced, Unique, Once
    <3> QED  BY <2>2, <3>1, <3>2, <3>3
  <2> QED  BY <1>2, <2>1, <2>2
<1>4. pc' \in {"idle", "push_all", "click"} /\ UNCHANGED <<left, limit>>
  BY <1>2 DEF control
<1>5. UpdateInv'  BY <1>1, <1>3, <1>4, HandlerKeeps
<1>6. acts' \in Seq(Acts)  BY <1>1, <1>2, ActsShorten DEF Surroundings
<1>7. Surroundings'  BY <1>1, <1>2, <1>6 DEF Surroundings
<1> QED  BY <1>3, <1>5, <1>7, IInvPartsNext DEF MenuInv

LEMMA ThreadStepKeeps ==
  ASSUME MenuInv, NEW s \in Slots, ThreadStep(s)
  PROVE  MenuInv'
<1>1. /\ UpdateInv /\ Surroundings /\ MenuTyped /\ References /\ Alone
      /\ Good(store)
  BY IInvParts DEF MenuInv, UpdateInv
<1>2. ASSUME NEW t \in Thread, Honest(t), ThreadMoves(s, t),
             menu[s].stage # "none",
             undisturbed => ToSet(t.cells) \subseteq ToSet(ctx)
      PROVE  MenuInv'
  <2>1. UNCHANGED <<vars, ctx, undisturbed>> /\ menu' = [menu EXCEPT ![s] = t]
    BY <1>2 DEF ThreadMoves
  <2>2. IInv'
    <3>1. UNCHANGED vars /\ IInv  BY <2>1 DEF MenuInv
    <3> QED  BY <3>1, NextKeeps
  <2>3. References'
    BY <1>1, <2>1 DEF vars, References, Holding, Balanced, Unique, Queued, Once
  <2>4. /\ menu' \in [Slots -> Thread] /\ \A o \in Slots : Honest(menu'[o])
        /\ menu'[s] = t /\ \A o \in Slots \ {s} : menu'[o] = menu[o]
    BY <1>1, <1>2, <2>1, ThreadChanged
  <2>5. MenuTyped'  BY <1>1, <2>1, <2>4 DEF MenuTyped
  <2>6. Alone'
    <3> SUFFICES ASSUME undisturbed  PROVE
          /\ \A o \in Slots : ToSet(menu'[o].cells) \subseteq ToSet(ctx)
          /\ \A o, r \in Slots :
               menu'[o].stage # "none" /\ menu'[r].stage # "none" => o = r
      BY <2>1 DEF Alone
    <3>1. \A o \in Slots : o = s \/ o \in Slots \ {s}  OBVIOUS
    <3> QED  BY <1>1, <1>2, <2>4, <3>1 DEF Alone
  <2> QED  BY <2>2, <2>3, <2>5, <2>6 DEF MenuInv
<1>3. menu[s] \in Thread /\ Honest(menu[s]) /\ ctx \in Seq(Ptr)
  BY <1>1 DEF MenuTyped
<1>4. CASE ThreadEnters(s)
  <2> DEFINE m == menu[s]
             t == [m EXCEPT !.stage = "read", !.cells = ctx]
  <2>1. ThreadMoves(s, t) /\ menu[s].stage # "none"
    BY <1>4 DEF ThreadEnters
  <2> HIDE DEF m
  <2>2. m \in Thread /\ Honest(m)  BY <1>3 DEF m
  <2>3. /\ t \in Thread /\ t.stage = "read" /\ t.cells = ctx
        /\ t.lines = m.lines /\ t.answer = m.answer
    BY <1>3, <2>2 DEF Thread
  <2> HIDE DEF t
  <2>4. Honest(t)  BY <2>2, <2>3 DEF Honest
  <2> QED  BY <1>2, <2>1, <2>3, <2>4
<1>5. CASE ThreadReads(s)
  <2> DEFINE m == menu[s]
             n == heap[Head(menu[s].cells)]
             new == IF n = Freed THEN {} ELSE LinesOf(n)
             t == [m EXCEPT !.cells = Tail(m.cells), !.lines = m.lines \cup new]
  <2>1. /\ ThreadMoves(s, t) /\ menu[s].stage = "read" /\ menu[s].cells # <<>>
    BY <1>5 DEF ThreadReads
  <2>2. /\ m.cells \in Seq(Ptr) /\ m.lines \in SUBSET Line /\ m \in Thread
        /\ Honest(m) /\ m.cells # <<>> /\ m.stage = "read"
    BY <1>3, <2>1 DEF Thread
  <2>3. /\ Tail(m.cells) \in Seq(Ptr) /\ Head(m.cells) \in Ptr
        /\ ToSet(Tail(m.cells)) \subseteq ToSet(m.cells)
    <3> HIDE DEF m
    <3>1. Tail(m.cells) \in Seq(Ptr) /\ Head(m.cells) \in Ptr
      BY <2>2, HeadTailProperties
    <3>2. /\ Len(Tail(m.cells)) = Len(m.cells) - 1 /\ Len(m.cells) \in Nat
          /\ \A j \in 1..(Len(m.cells) - 1) : Tail(m.cells)[j] = m.cells[j + 1]
      BY <2>2, TailNarrowed, LenProperties DEF Narrowed
    <3>3. \A j \in 1..(Len(m.cells) - 1) : j + 1 \in 1..Len(m.cells)
      BY <3>2
    <3>4. ToSet(Tail(m.cells)) = { Tail(m.cells)[j] : j \in 1..(Len(m.cells) - 1) }
      BY <3>1, <3>2, Elements
    <3>5. ToSet(m.cells) = { m.cells[j] : j \in 1..Len(m.cells) }
      BY <2>2, Elements
    <3> QED  BY <3>1, <3>2, <3>3, <3>4, <3>5
  <2>4. n \in Note \cup {Freed}
    <3>1. store.heap \in [Ptr -> Note \cup {Freed}]  BY <1>1, GoodFacts
    <3> QED  BY <2>3, <3>1 DEF heap
  <2>5. new \subseteq Line /\ \A line \in new : line.action # "none"
    <3> HIDE DEF n
    <3> QED  BY <2>4, LinesTyped
  <2> HIDE DEF m, new
  <2>6. /\ t \in Thread /\ t.stage = "read" /\ t.cells = Tail(m.cells)
        /\ t.lines = m.lines \cup new /\ t.answer = m.answer
    BY <2>2, <2>3, <2>5 DEF Thread
  <2> HIDE DEF t
  <2>7. Honest(t)  BY <2>2, <2>5, <2>6 DEF Honest
  <2>8. undisturbed => ToSet(t.cells) \subseteq ToSet(ctx)
    BY <1>1, <2>3, <2>6 DEF Alone, m
  <2> QED  BY <1>2, <2>1, <2>6, <2>7, <2>8
<1>6. CASE InvokeDmenu(s)
  <2>1. PICK answer \in menu[s].lines \cup {Nothing} :
          ThreadMoves(s, [NoThread EXCEPT !.stage = "answered", !.answer = answer])
    BY <1>6 DEF InvokeDmenu
  <2> DEFINE t == [NoThread EXCEPT !.stage = "answered", !.answer = answer]
  <2>2. answer \in Line /\ (answer.action = "none" => answer = Nothing)
    BY <1>3, <2>1, LinesTyped DEF Thread, Honest
  <2>3. /\ t \in Thread /\ t.stage = "answered" /\ t.cells = <<>>
        /\ t.lines = {} /\ t.answer = answer
    BY <2>2, NoThreadHonest DEF NoThread, Thread
  <2>4. ThreadMoves(s, t) /\ menu[s].stage # "none"
    BY <1>6, <2>1 DEF InvokeDmenu
  <2> HIDE DEF t
  <2>5. Honest(t)  BY <2>2, <2>3 DEF Honest
  <2>6. ToSet(t.cells) = {}  BY <2>3, NoElements
  <2> QED  BY <1>2, <2>3, <2>4, <2>5, <2>6
<1> QED  BY <1>4, <1>5, <1>6 DEF ThreadStep

LEMMA DispatchKeeps ==
  ASSUME MenuInv, NEW s \in Slots, Dispatch(s)
  PROVE  MenuInv'
<1>1. /\ UpdateInv /\ Surroundings /\ MenuTyped /\ References /\ Alone
      /\ Good(store)
  BY IInvParts DEF MenuInv, UpdateInv
<1>2. PICK held \in [Ptr -> Nat], locked \in SUBSET Ptr :
        /\ Holding(held, locked) /\ Balanced(store, held, locked)
        /\ \A p \in ToSet(ctx) : held[p] > 0
        /\ undisturbed => held = Once(ctx) /\ locked = ToSet(ctx)
  BY <1>1 DEF References
<1> DEFINE aborted == menu[s].answer = Nothing
<1>3. PICK lost \in [1..Len(ctx) -> BOOLEAN] : WakeUp(ReleaseAll(aborted, lost))
  BY DEF Dispatch
<1>4. aborted \in BOOLEAN  OBVIOUS
<1> HIDE DEF aborted
<1> DEFINE r == ReleaseAll(aborted, lost)
           rest == Rest(held, ctx)
           kept == locked \ ToSet(ctx)
<1>5. Good(r) /\ Holding(rest, kept) /\ Balanced(r, rest, kept)
  BY <1>1, <1>2, <1>4, ReleaseAllKeeps
<1> HIDE DEF r
<1>6. /\ WakeUp(r) /\ ctx' = <<>> /\ menu' = [menu EXCEPT ![s] = NoThread]
      /\ UNCHANGED <<mouse, clock, undisturbed>>
  BY <1>3 DEF Dispatch, r
<1>7. IInv'
  <2>1. UpdateInv' /\ Surroundings'  BY <1>1, <1>5, <1>6, WakeUpKeeps
  <2> QED  BY <2>1, IInvPartsNext
<1>8. store' = r  BY <1>6 DEF WakeUp, RunWith
<1>9. ctx' \in Seq(Ptr) /\ IsInjective(ctx') /\ ToSet(ctx') = {}
  BY <1>6, NoElements
<1>10. References'
  <2>1. rest \in [Ptr -> Nat] /\ kept \in SUBSET Ptr  BY <1>5 DEF Holding
  <2>2. undisturbed' => rest = Once(ctx') /\ kept = ToSet(ctx')
    <3> SUFFICES ASSUME undisturbed  PROVE rest = Once(ctx') /\ kept = ToSet(ctx')
      BY <1>6
    <3>1. held = Once(ctx) /\ locked = ToSet(ctx)  BY <1>2
    <3>2. kept = ToSet(ctx')  BY <1>9, <3>1
    <3>3. \A p \in Ptr : rest[p] = 0 /\ Once(ctx')[p] = 0
      BY <1>9, <3>1 DEF Rest, Once
    <3>4. rest = Once(ctx')  BY <3>3 DEF Rest, Once
    <3> QED  BY <3>2, <3>4
  <2> HIDE DEF rest, kept
  <2>3. Balanced(store', rest, kept)  BY <1>5, <1>8
  <2>4. \A p \in ToSet(ctx') : rest[p] > 0  BY <1>9
  <2> QED
    BY <1>5, <2>1, <2>2, <2>3, <2>4 DEF References, Holding, Balanced, Unique, Once
<1>11. /\ menu' \in [Slots -> Thread] /\ \A o \in Slots : Honest(menu'[o])
       /\ menu'[s] = NoThread /\ \A o \in Slots \ {s} : menu'[o] = menu[o]
  BY <1>1, <1>6, NoThreadHonest, ThreadChanged
<1>12. MenuTyped'  BY <1>1, <1>6, <1>9, <1>11 DEF MenuTyped
<1>13. Alone'
  <2> SUFFICES ASSUME undisturbed  PROVE
        \A o \in Slots : menu'[o].cells = <<>> /\ menu'[o].stage = "none"
    BY <1>6, <1>9 DEF Alone
  <2>1. menu[s].stage = "answered"  BY DEF Dispatch
  <2>2. \A o \in Slots \ {s} : menu[o].stage = "none" /\ menu[o].cells = <<>>
    BY <1>1, <2>1 DEF Alone, MenuTyped, Honest
  <2>3. \A o \in Slots : o = s \/ o \in Slots \ {s}  OBVIOUS
  <2> QED  BY <1>11, <2>2, <2>3, NoThreadHonest
<1> QED  BY <1>7, <1>10, <1>12, <1>13 DEF MenuInv

LEMMA MenuNextKeeps ==
  ASSUME ClientIds # "any"
  PROVE  MenuInv /\ [MenuNext]_allVars => MenuInv'
<1> SUFFICES ASSUME MenuInv, [MenuNext]_allVars  PROVE MenuInv'
  OBVIOUS
<1>1. CASE [Next]_vars /\ UNCHANGED <<ctx, menu, undisturbed>>
  <2>1. IInv /\ MenuTyped /\ References /\ Alone /\ UpdateInv
    BY IInvParts DEF MenuInv
  <2>2. IInv'  BY <1>1, <2>1, NextKeeps
  <2>3. MenuTyped' /\ Alone'  BY <1>1, <2>1 DEF MenuTyped, Alone
  <2>4. References'
    <3>1. PICK held \in [Ptr -> Nat], locked \in SUBSET Ptr :
            /\ Holding(held, locked) /\ Balanced(store, held, locked)
            /\ \A p \in ToSet(ctx) : held[p] > 0
            /\ undisturbed => held = Once(ctx) /\ locked = ToSet(ctx)
      BY <2>1 DEF References
    <3>2. Balanced(store', held, locked)
      <4>1. CASE Next  BY <2>1, <3>1, <4>1, BalancedStep
      <4>2. CASE store' = store  BY <3>1, <4>2
      <4> QED  BY <1>1, <4>1, <4>2 DEF vars
    <3>3. Holding(held, locked)  BY <3>1
    <3>4. /\ \A p \in ToSet(ctx') : held[p] > 0
          /\ undisturbed' => held = Once(ctx') /\ locked = ToSet(ctx')
      BY <1>1, <3>1
    <3> QED  BY <3>2, <3>3, <3>4 DEF References, Holding, Balanced, Unique, Once
  <2> QED  BY <2>2, <2>3, <2>4 DEF MenuInv
<1>2. CASE OpensMenu  BY <1>2, OpeningKeeps
<1>3. CASE \E s \in Slots : ThreadStep(s) \/ Dispatch(s)
  BY <1>3, ThreadStepKeeps, DispatchKeeps
<1>4. CASE UNCHANGED allVars
  BY <1>1, <1>4 DEF allVars, menuVars
<1> QED  BY <1>1, <1>2, <1>3, <1>4 DEF MenuNext

LEMMA MenuInitHolds == MenuInit => MenuInv
<1> SUFFICES ASSUME MenuInit  PROVE MenuInv
  OBVIOUS
<1>1. Init /\ ctx = <<>> /\ menu = [s \in Slots |-> NoThread] /\ undisturbed = TRUE
  BY DEF MenuInit
<1>2. IInv  BY <1>1, InitHolds
<1>3. ctx \in Seq(Ptr) /\ IsInjective(ctx) /\ ToSet(ctx) = {} /\ ToSet(<<>>) = {}
  BY <1>1, NoElements
<1>4. \A s \in Slots : menu[s] = NoThread  BY <1>1
<1>5. MenuTyped
  <2>1. menu \in [Slots -> Thread]  BY <1>1, NoThreadHonest
  <2> QED  BY <1>1, <1>3, <1>4, <2>1, NoThreadHonest DEF MenuTyped
<1>6. Alone  BY <1>3, <1>4, NoThreadHonest DEF Alone
<1>7. References
  <2>1. Holding(NoneHeld, {})  BY NothingHeld
  <2>2. Balanced(store, NoneHeld, {})
    <3>1. /\ store.displayed = <<>> /\ store.waiting = <<>>
          /\ store.history = <<>> /\ store.heap = [p \in Ptr |-> Freed]
      BY <1>1 DEF Init, EmptyStore
    <3>2. Queued(store) = {}
      <4> DEFINE e == <<>>
      <4>1. ToSet(e) = {}  BY <1>3
      <4>2. store.displayed = e /\ store.waiting = e /\ store.history = e
        BY <3>1
      <4> HIDE DEF e
      <4> QED  BY <4>1, <4>2 DEF Queued
    <3>3. \A p \in Ptr : NoneHeld[p] = 0  BY DEF NoneHeld
    <3> QED  BY <3>1, <3>2, <3>3 DEF Balanced, Unique
  <2>3. NoneHeld = Once(ctx)  BY <1>3 DEF NoneHeld, Once
  <2>4. NoneHeld \in [Ptr -> Nat]  BY <2>1 DEF Holding
  <2> QED  BY <1>3, <2>1, <2>2, <2>3, <2>4 DEF References
<1> QED  BY <1>2, <1>5, <1>6, <1>7 DEF MenuInv

LEMMA MenuInvHolds ==
  ASSUME ClientIds # "any"
  PROVE  MenuSpec => []MenuInv
<1>1. MenuInv /\ [MenuNext]_allVars => MenuInv'  BY MenuNextKeeps
<1> QED  BY <1>1, MenuInitHolds, PTL DEF MenuSpec

(* What a menu thread has still to read is allocated when it reads it:     *)
(* while a menu has menu_ctx for itself, no client, click, timeout or      *)
(* limit of history frees a notification under it.                         *)
THEOREM ReadersAreSafe ==
  ASSUME ClientIds # "any"
  PROVE  MenuSpec => []ReaderIsSafe
<1>1. MenuInv => ReaderIsSafe
  <2> SUFFICES ASSUME MenuInv, undisturbed, NEW s \in Slots,
                      NEW p \in ToSet(menu[s].cells)
               PROVE  heap[p] # Freed
    BY DEF ReaderIsSafe
  <2>1. p \in ToSet(ctx)  BY DEF MenuInv, Alone
  <2>2. p \in Ptr  BY <2>1, Elements DEF MenuInv, MenuTyped
  <2> QED  BY <2>1, <2>2 DEF MenuInv, References, Balanced, heap
<1> QED  BY <1>1, MenuInvHolds, PTL

LEMMA Joined ==
  ASSUME NEW S, NEW s \in Seq(S), NEW t \in Seq(S)
  PROVE  /\ s \o t \in Seq(S)
         /\ ToSet(s \o t) = ToSet(s) \cup ToSet(t)
         /\ IsInjective(s) /\ IsInjective(t) /\ ToSet(s) \cap ToSet(t) = {}
              => IsInjective(s \o t)
<1> DEFINE u == s \o t
           m == Len(s)
           n == Len(t)
<1>1. /\ m \in Nat /\ n \in Nat /\ u \in Seq(S) /\ Len(u) = m + n
      /\ \A i \in 1..(m + n) : u[i] = IF i <= m THEN s[i] ELSE t[i - m]
  BY ConcatProperties, LenProperties
<1> HIDE DEF u
<1>2. /\ ToSet(s) = { s[j] : j \in 1..m } /\ ToSet(t) = { t[j] : j \in 1..n }
      /\ ToSet(u) = { u[j] : j \in 1..(m + n) }
      /\ IsInjective(s) <=> \A a, b \in 1..m : s[a] = s[b] => a = b
      /\ IsInjective(t) <=> \A a, b \in 1..n : t[a] = t[b] => a = b
      /\ IsInjective(u) <=> \A a, b \in 1..(m + n) : u[a] = u[b] => a = b
  BY <1>1, Elements
<1> HIDE DEF m, n
<1>3. \A j \in 1..m : j \in 1..(m + n) /\ u[j] = s[j]  BY <1>1
<1>4. \A j \in 1..n : m + j \in 1..(m + n) /\ u[m + j] = t[j]
  <2> TAKE j \in 1..n
  <2>1. m + j \in 1..(m + n) /\ ~(m + j <= m) /\ (m + j) - m = j  BY <1>1
  <2> QED  BY <1>1, <2>1
<1>5. \A i \in 1..(m + n) : \/ i \in 1..m /\ u[i] = s[i]
                            \/ i - m \in 1..n /\ u[i] = t[i - m]
  BY <1>1
<1>6. ToSet(u) = ToSet(s) \cup ToSet(t)
  <2>1. ToSet(u) \subseteq ToSet(s) \cup ToSet(t)  BY <1>2, <1>5
  <2>2. ToSet(s) \subseteq ToSet(u)  BY <1>2, <1>3
  <2>3. ToSet(t) \subseteq ToSet(u)  BY <1>2, <1>4
  <2> QED  BY <2>1, <2>2, <2>3
<1>7. ASSUME IsInjective(s), IsInjective(t), ToSet(s) \cap ToSet(t) = {}
      PROVE  IsInjective(u)
  <2> SUFFICES ASSUME NEW a \in 1..(m + n), NEW b \in 1..(m + n), u[a] = u[b]
               PROVE  a = b
    BY <1>2
  <2>1. CASE a \in 1..m /\ u[a] = s[a] /\ b \in 1..m /\ u[b] = s[b]
    BY <1>2, <1>7, <2>1
  <2>2. CASE /\ a - m \in 1..n /\ u[a] = t[a - m]
             /\ b - m \in 1..n /\ u[b] = t[b - m]
    <3>1. a - m = b - m  BY <1>2, <1>7, <2>2
    <3> QED  BY <1>1, <3>1
  <2>3. CASE a \in 1..m /\ u[a] = s[a] /\ b - m \in 1..n /\ u[b] = t[b - m]
    <3>1. u[a] \in ToSet(s) /\ u[b] \in ToSet(t)  BY <1>2, <2>3
    <3> QED  BY <1>7, <3>1
  <2>4. CASE a - m \in 1..n /\ u[a] = t[a - m] /\ b \in 1..m /\ u[b] = s[b]
    <3>1. u[a] \in ToSet(t) /\ u[b] \in ToSet(s)  BY <1>2, <2>4
    <3> QED  BY <1>7, <3>1
  <2> QED  BY <1>5, <2>1, <2>2, <2>3, <2>4
<1> QED  BY <1>1, <1>6, <1>7 DEF u

(* how often p is in two sequences that have nothing twice *)
LEMMA CountTwo ==
  ASSUME NEW s \in Seq(Ptr), IsInjective(s), NEW t \in Seq(Ptr), IsInjective(t),
         NEW p
  PROVE  Count(p, s \o t) = (IF p \in ToSet(s) THEN 1 ELSE 0)
                              + (IF p \in ToSet(t) THEN 1 ELSE 0)
<1> DEFINE u == s \o t
           m == Len(s)
           n == Len(t)
           A == { i \in DOMAIN u : u[i] = p }
<1>1. /\ m \in Nat /\ n \in Nat /\ u \in Seq(Ptr) /\ Len(u) = m + n
      /\ \A i \in 1..(m + n) : u[i] = IF i <= m THEN s[i] ELSE t[i - m]
  BY ConcatProperties, LenProperties
<1>2. Count(p, u) = Cardinality(A)  BY DEF Count
<1> HIDE DEF u
<1>3. /\ ToSet(s) = { s[j] : j \in 1..m } /\ ToSet(t) = { t[j] : j \in 1..n }
      /\ \A a, b \in 1..m : s[a] = s[b] => a = b
      /\ \A a, b \in 1..n : t[a] = t[b] => a = b
      /\ DOMAIN u = 1..(m + n)
  BY <1>1, Elements
<1> HIDE DEF m, n
<1> DEFINE front == { j \in 1..m : s[j] = p }
           back == { i \in (m + 1)..(m + n) : t[i - m] = p }
<1>4. A = front \cup back
  <2>1. \A i \in 1..(m + n) : /\ i <= m => i \in 1..m
                              /\ i <= m \/ i \in (m + 1)..(m + n)
    BY <1>1
  <2>2. \A i \in A : i \in front \cup back  BY <1>1, <1>3, <2>1
  <2>3. \A i \in front : i \in A  BY <1>1, <1>3
  <2>4. \A i \in back : i \in 1..(m + n) /\ ~(i <= m)  BY <1>1
  <2>5. \A i \in back : i \in A  BY <1>1, <1>3, <2>4
  <2> QED  BY <2>2, <2>3, <2>5
<1> HIDE DEF A
<1>5. /\ p \notin ToSet(s) => front = {}
      /\ p \in ToSet(s) => \E a \in 1..m : front = {a}
  BY <1>3
<1>6. p \notin ToSet(t) => back = {}
  <2>1. \A i \in (m + 1)..(m + n) : i - m \in 1..n  BY <1>1
  <2> QED  BY <1>3, <2>1
<1>7. p \in ToSet(t) => \E b \in (m + 1)..(m + n) : back = {b}
  <2> SUFFICES ASSUME p \in ToSet(t)
               PROVE  \E b \in (m + 1)..(m + n) : back = {b}
    OBVIOUS
  <2>1. PICK j \in 1..n : t[j] = p  BY <1>3
  <2>2. m + j \in (m + 1)..(m + n) /\ (m + j) - m = j  BY <1>1
  <2>3. m + j \in back  BY <2>1, <2>2
  <2>4. \A i \in back : i - m \in 1..n /\ i - m = j /\ i \in Int
    BY <1>1, <1>3, <2>1
  <2>5. \A i \in back : i = m + j  BY <1>1, <2>4
  <2> HIDE DEF back
  <2>6. back = {m + j}  BY <2>3, <2>5
  <2> QED  BY <2>2, <2>6
<1> HIDE DEF front, back
<1>8. CASE p \notin ToSet(s) /\ p \notin ToSet(t)
  <2>1. A = {}  BY <1>4, <1>5, <1>6, <1>8
  <2>2. Cardinality(A) = 0  BY <2>1, FS_EmptySet
  <2> QED  BY <1>2, <1>8, <2>2 DEF u
<1>9. CASE p \in ToSet(s) /\ p \notin ToSet(t)
  <2>1. PICK a : A = {a}  BY <1>4, <1>5, <1>6, <1>9
  <2>2. Cardinality(A) = 1  BY <2>1, FS_Singleton
  <2> QED  BY <1>2, <1>9, <2>2 DEF u
<1>10. CASE p \notin ToSet(s) /\ p \in ToSet(t)
  <2>1. PICK b : A = {b}  BY <1>4, <1>5, <1>7, <1>10
  <2>2. Cardinality(A) = 1  BY <2>1, FS_Singleton
  <2> QED  BY <1>2, <1>10, <2>2 DEF u
<1>11. CASE p \in ToSet(s) /\ p \in ToSet(t)
  <2>1. PICK a \in 1..m, b \in (m + 1)..(m + n) : front = {a} /\ back = {b}
    BY <1>5, <1>7, <1>11
  <2>2. a # b  BY <1>1
  <2>3. A = {a} \cup {b}  BY <1>4, <2>1
  <2>4. IsFiniteSet({a}) /\ Cardinality({a}) = 1  BY FS_Singleton
  <2>5. b \notin {a}  BY <2>2
  <2> DEFINE one == {a}
             both == one \cup {b}
  <2>6. IsFiniteSet(one) /\ Cardinality(one) = 1 /\ b \notin one
    BY <2>4, <2>5
  <2> HIDE DEF one
  <2>7. Cardinality(both) = Cardinality(one) + 1  BY <2>6, FS_AddElement
  <2>8. A = both  BY <2>3 DEF one
  <2> HIDE DEF both
  <2>9. Cardinality(A) = 2  BY <2>6, <2>7, <2>8
  <2> QED  BY <1>2, <1>11, <2>9 DEF u
<1> QED  BY <1>8, <1>9, <1>10, <1>11

(* The references of a notification are one for its queue and one for each *)
(* menu that lists it, and it is locked as long as a menu lists it: no way *)
(* through menus, queues and history loses one or gives one back twice.    *)
(* However menus overlap, what is queued or in menu_ctx is allocated.      *)
THEOREM ReferencesAreBalanced ==
  ASSUME ClientIds # "any"
  PROVE  MenuSpec => []ReferencesBalance
<1>1. MenuInv => ReferencesBalance
  <2> SUFFICES ASSUME MenuInv  PROVE ReferencesBalance
    OBVIOUS
  <2>1. /\ Good(store) /\ ctx \in Seq(Ptr) /\ IsInjective(ctx)
        /\ ToSet(ctx) \subseteq Ptr
    BY IInvParts, Elements DEF MenuInv, UpdateInv, MenuTyped
  <2>2. PICK held \in [Ptr -> Nat], locked \in SUBSET Ptr :
          /\ Holding(held, locked) /\ Balanced(store, held, locked)
          /\ \A p \in ToSet(ctx) : held[p] > 0
          /\ undisturbed => held = Once(ctx) /\ locked = ToSet(ctx)
    BY DEF MenuInv, References
  <2>3. \A p \in Owned \cup ToSet(ctx) : heap[p] # Freed
    <3>1. \A p \in ToSet(ctx) : heap[p] # Freed
      BY <2>1, <2>2 DEF Balanced, heap
    <3>2. Owned = Queued(store)
      BY DEF Owned, Open, Queued, displayed, waiting, history
    <3>3. \A p \in Owned : heap[p] # Freed  BY <2>1, <3>2, GoodFacts DEF heap
    <3> QED  BY <3>1, <3>3
  <2>4. ASSUME undisturbed, NEW p \in Ptr, heap[p] # Freed
        PROVE  /\ heap[p].refs = Count(p, displayed \o waiting \o history \o ctx)
               /\ heap[p].locked <=> p \in ToSet(ctx)
    <3> DEFINE d == displayed
               w == waiting
               h == history
    <3>1. /\ d \in Seq(Ptr) /\ w \in Seq(Ptr) /\ h \in Seq(Ptr)
          /\ IsInjective(d) /\ IsInjective(w) /\ IsInjective(h)
          /\ ToSet(d) \cap ToSet(w) = {} /\ ToSet(d) \cap ToSet(h) = {}
          /\ ToSet(w) \cap ToSet(h) = {}
          /\ Queued(store) = ToSet(d) \cup ToSet(w) \cup ToSet(h)
      BY <2>1, GoodFacts DEF displayed, waiting, history, Queued
    <3> HIDE DEF d, w, h
    <3> DEFINE dw == d \o w
    <3>2. dw \in Seq(Ptr) /\ ToSet(dw) = ToSet(d) \cup ToSet(w) /\ IsInjective(dw)
      BY <3>1, Joined
    <3> HIDE DEF dw
    <3> DEFINE dwh == dw \o h
    <3>3. /\ dwh \in Seq(Ptr) /\ ToSet(dwh) = ToSet(dw) \cup ToSet(h)
          /\ IsInjective(dwh)
      <4>1. ToSet(dw) \cap ToSet(h) = {}  BY <3>1, <3>2
      <4> QED  BY <3>1, <3>2, <4>1, Joined
    <3> HIDE DEF dwh
    <3>4. Count(p, dwh \o ctx) = (IF p \in ToSet(dwh) THEN 1 ELSE 0)
                                   + (IF p \in ToSet(ctx) THEN 1 ELSE 0)
      BY <2>1, <3>3, CountTwo
    <3>5. p \in ToSet(dwh) <=> p \in Queued(store)  BY <3>1, <3>2, <3>3
    <3>6. /\ heap[p].refs = held[p] + (IF p \in Queued(store) THEN 1 ELSE 0)
          /\ heap[p].locked <=> p \in locked
      BY <2>2, <2>4 DEF Balanced, heap
    <3>7. held[p] = (IF p \in ToSet(ctx) THEN 1 ELSE 0) /\ locked = ToSet(ctx)
      BY <2>2, <2>4 DEF Once
    <3>8. heap[p].refs = Count(p, dwh \o ctx)
      <4>1. CASE p \in ToSet(ctx) /\ p \in Queued(store)
        BY <3>4, <3>5, <3>6, <3>7, <4>1
      <4>2. CASE p \in ToSet(ctx) /\ p \notin Queued(store)
        BY <3>4, <3>5, <3>6, <3>7, <4>2
      <4>3. CASE p \notin ToSet(ctx)
        BY <3>4, <3>5, <3>6, <3>7, <4>3
      <4> QED  BY <4>1, <4>2, <4>3
    <3> QED  BY <3>6, <3>7, <3>8 DEF dwh, dw, d, w, h
  <2> QED  BY <2>3, <2>4 DEF ReferencesBalance
<1> QED  BY <1>1, MenuInvHolds, PTL

---------------------------------------------------------------------------
(* The lock                                                                *)

LEMMA WithoutAnother ==
  ASSUME NEW s \in Seq(Ptr), IsInjective(s), NEW at, PlaceIn(at, s),
         NEW p \in ToSet(s), at # 0 => s[at] # p
  PROVE  p \in ToSet(Without(s, at))
<1>1. CASE at = 0  BY <1>1 DEF Without
<1>2. CASE at # 0
  <2>1. at \in 1..Len(s)  BY <1>2, LenProperties DEF PlaceIn
  <2>2. ToSet(RemoveAt(s, at)) = ToSet(s) \ {s[at]}  BY <2>1, Removed
  <2>3. Without(s, at) = RemoveAt(s, at)  BY <1>2 DEF Without
  <2> QED  BY <1>2, <2>2, <2>3
<1> QED  BY <1>1, <1>2

(* queues_notification_close_id closes nothing of another id. *)
LEMMA CloseIdSparesOthers ==
  ASSUME NEW q, Good(q), NEW id, NEW reason \in Reasons,
         NEW p \in OpenIn(q), q.heap[p].id # id
  PROVE  p \in OpenIn(CloseId(q, id, reason))
<1> DEFINE d == FirstWithId(q, q.displayed, id)
           w == FirstWithId(q, q.waiting, id)
           r == CloseId(q, id, reason)
<1>1. \/ r = q
      \/ /\ r.displayed = Without(q.displayed, d)
         /\ r.waiting = Without(q.waiting, w)
  BY CloseIdEffect
<1>2. /\ q.displayed \in Seq(Ptr) /\ IsInjective(q.displayed)
      /\ q.waiting \in Seq(Ptr) /\ IsInjective(q.waiting)
  BY GoodFacts
<1>3. /\ PlaceIn(d, q.displayed) /\ (d # 0 => q.displayed[d] # p)
      /\ PlaceIn(w, q.waiting) /\ (w # 0 => q.waiting[w] # p)
  <2>1. PlaceIn(d, q.displayed) /\ PlaceIn(w, q.waiting)
    BY <1>2, FirstWithIdPlace
  <2>2. d # 0 => q.heap[q.displayed[d]].id = id  BY <1>2, FoundHasId
  <2>3. w # 0 => q.heap[q.waiting[w]].id = id  BY <1>2, FoundHasId
  <2> HIDE DEF d, w
  <2> QED  BY <2>1, <2>2, <2>3
<1> HIDE DEF d, w, r
<1>4. CASE r = q  BY <1>4 DEF r
<1>5. CASE /\ r.displayed = Without(q.displayed, d)
           /\ r.waiting = Without(q.waiting, w)
  <2>1. p \in ToSet(q.displayed) => p \in ToSet(r.displayed)
    BY <1>2, <1>3, <1>5, WithoutAnother
  <2>2. p \in ToSet(q.waiting) => p \in ToSet(r.waiting)
    BY <1>2, <1>3, <1>5, WithoutAnother
  <2> QED  BY <2>1, <2>2 DEF OpenIn, r
<1> QED  BY <1>1, <1>4, <1>5

LEMMA RetireSparesLocked ==
  ASSUME UpdateInv, Unique(store), NEW p \in ToSet(displayed), heap[p].locked,
         \/ RetireMarked \/ RetireRemoved \/ RetireFinished
         \/ RetireSuppressed \/ RetirePushback \/ RetireKeep
  PROVE  p \in OpenIn(store')
<1> DEFINE n == heap[Visited]
           r == Restarted(Quiet, Visited)
<1>0. Retiring
  BY DEF RetireMarked, RetireRemoved, RetireFinished, RetireSuppressed,
         RetirePushback, RetireKeep
<1>1. /\ Len(displayed) - left + 1 \in 1..Len(displayed)
      /\ Visited \in Ptr /\ n \in Note
  BY <1>0, VisitedIsThere
<1>2. /\ Good(store) /\ Good(Quiet) /\ SameQueues(Quiet, store)
      /\ Quiet.heap = store.heap
  BY QuietKeeps DEF UpdateInv
<1>3. Visited \in ToSet(displayed) /\ p \in OpenIn(store)
  BY <1>1, <1>2, Elements, GoodFacts DEF Visited, displayed, OpenIn
<1>4. /\ Good(r) /\ SameQueues(r, store) /\ r \in Store
      /\ r.heap[Visited].id = n.id
      /\ \A o \in Ptr \ {Visited} : r.heap[o] = store.heap[o]
  <2>1. Good(r) /\ SameQueues(r, store) /\ r \in Store
    BY <1>0, RestartedVisited, GoodFacts
  <2>2. Quiet \in Store /\ Quiet.heap \in [Ptr -> Note \cup {Freed}]
    BY <1>2, GoodFacts
  <2>3. /\ r.heap[Visited].id = Quiet.heap[Visited].id
        /\ \A o \in Ptr \ {Visited} : r.heap[o] = Quiet.heap[o]
    BY <1>1, <1>2, <2>2 DEF Restarted, Store, Note, heap
  <2> QED  BY <1>2, <2>1, <2>3 DEF heap
<1>5. p \in Ptr  BY <1>2, <1>3, GoodFacts DEF OpenIn, Queued
<1>6. CASE ~n.locked
  <2>1. p # Visited  BY <1>6
  <2>2. store.heap[p].id # n.id
    <3>1. p \in Queued(store) /\ Visited \in Queued(store)
      BY <1>3 DEF Queued, displayed
    <3> QED  BY <2>1, <3>1 DEF Unique, heap
  <2>3. \A reason \in Reasons :
          /\ p \in OpenIn(NotificationClose(Quiet, Visited, reason))
          /\ p \in OpenIn(NotificationClose(r, Visited, reason))
          /\ Good(NotificationClose(Quiet, Visited, reason))
    <3> TAKE reason \in Reasons
    <3>1. p \in OpenIn(Quiet) /\ p \in OpenIn(r)
      BY <1>2, <1>3, <1>4 DEF OpenIn, SameQueues
    <3>2. /\ Quiet.heap[Visited].id = n.id /\ Quiet.heap[p].id # n.id
          /\ r.heap[Visited].id = n.id /\ r.heap[p].id # n.id
      BY <1>2, <1>4, <1>5, <2>1, <2>2 DEF heap
    <3> HIDE DEF r, n
    <3> QED
      BY <1>2, <1>4, <3>1, <3>2, CloseIdSparesOthers, CloseIdKeeps
        DEF NotificationClose
  <2>4. CASE RetireMarked
    <3> DEFINE q == NotificationClose(Quiet, Visited, n.closing)
    <3>1. n.closing \in Reasons  BY <1>1, <2>4 DEF RetireMarked, Note
    <3>2. store' = Unmark(q, Visited, "closing")
      BY <2>4 DEF RetireMarked, Retire
    <3>3. Good(q) /\ p \in OpenIn(q)  BY <2>3, <3>1
    <3> HIDE DEF q
    <3>4. SameQueues(store', q)  BY <1>1, <3>2, <3>3, UnmarkKeeps
    <3> QED  BY <3>3, <3>4 DEF OpenIn, SameQueues
  <2>5. CASE RetireRemoved
    <3>1. n.removing \in Reasons  BY <1>1, <2>5 DEF RetireRemoved, Note
    <3> DEFINE q == NotificationClose(Quiet, Visited, n.removing)
    <3>2. PICK lost \in BOOLEAN :
            store' = Unmark(NotificationRemove(Quiet, Visited, n.removing, lost),
                            Visited, "removing")
      BY <2>5 DEF RetireRemoved, Retire
    <3> DEFINE t == NotificationRemove(Quiet, Visited, n.removing, lost)
    <3>3. Good(q) /\ p \in OpenIn(q)  BY <2>3, <3>1
    <3>4. t = q \/ t = HistoryRemoveById(q, Quiet.heap[Visited].id)
      BY DEF NotificationRemove
    <3> HIDE DEF q
    <3>5. Good(t) /\ p \in OpenIn(t)
      BY <3>3, <3>4, HistoryRemoveByIdKeeps DEF OpenIn
    <3>6. store' = Unmark(t, Visited, "removing")  BY <3>2
    <3> HIDE DEF t
    <3>7. SameQueues(store', t)  BY <1>1, <3>5, <3>6, UnmarkKeeps
    <3> QED  BY <3>5, <3>7 DEF OpenIn, SameQueues
  <2>6. CASE RetireFinished
    BY <2>3, <2>6 DEF RetireFinished, Retire, Reasons
  <2>7. CASE RetireSuppressed
    BY <2>3, <2>7 DEF RetireSuppressed, Retire, Reasons
  <2>8. CASE RetirePushback
    <3> DEFINE at == Len(r.displayed) - left + 1
    <3>1. at \in 1..Len(r.displayed) /\ r.displayed[at] = Visited
      BY <1>1, <1>4 DEF SameQueues, Visited, displayed
    <3>2. store' = Enqueue([r EXCEPT !.displayed = RemoveAt(r.displayed, at)],
                           Visited)
      BY <2>8 DEF RetirePushback, Retire
    <3> HIDE DEF at, r
    <3>3. store' = PushedBack(r, at)  BY <3>1, <3>2 DEF PushedBack
    <3>4. OpenIn(store') = OpenIn(r)
      BY <1>4, <3>1, <3>3, PushedBackMoves DEF Moved
    <3> QED  BY <1>3, <1>4, <3>4 DEF OpenIn, SameQueues
  <2>9. CASE RetireKeep
    <3>1. store' = Quiet \/ store' = r  BY <2>9 DEF RetireKeep, Retire
    <3> QED  BY <1>2, <1>3, <1>4, <3>1 DEF OpenIn, SameQueues
  <2> QED  BY <2>4, <2>5, <2>6, <2>7, <2>8, <2>9
<1>7. CASE n.locked
  <2>1. store' = Quiet
    BY <1>7 DEF RetireMarked, RetireRemoved, RetireFinished, RetireSuppressed,
         RetirePushback, RetireKeep, Stays, Retire
  <2> QED  BY <1>2, <1>3, <2>1 DEF OpenIn, SameQueues
<1>8. n.locked \in BOOLEAN  BY <1>1 DEF Note
<1> QED  BY <1>6, <1>7, <1>8

(* The other loops close only what waits. *)
LEMMA FillSparesDisplayed ==
  ASSUME UpdateInv, Unique(store), NEW p \in ToSet(displayed),
         FillSuppressed \/ FillNotReady \/ FillSkipsDisplay \/ FillDisplay
  PROVE  p \in OpenIn(store')
<1> DEFINE r == Started(Quiet, Candidate)
<1>0. Filling
  BY DEF FillSuppressed, FillNotReady, FillSkipsDisplay, FillDisplay
<1>1. /\ Len(waiting) - left + 1 \in 1..Len(waiting)
      /\ Candidate \in Ptr /\ heap[Candidate] \in Note
  BY <1>0, CandidateIsThere
<1>2. /\ Good(store) /\ Good(Quiet) /\ SameQueues(Quiet, store)
      /\ Quiet.heap = store.heap
  BY QuietKeeps DEF UpdateInv
<1>3. Candidate \in ToSet(waiting) /\ p \in OpenIn(store)
  BY <1>1, <1>2, Elements, GoodFacts
    DEF Candidate, displayed, waiting, OpenIn
<1>4. p # Candidate  BY <1>2, <1>3, GoodFacts DEF displayed, waiting
<1>5. p \in Ptr  BY <1>2, <1>3, GoodFacts DEF OpenIn, Queued
<1>6. /\ Good(r) /\ SameQueues(r, store) /\ r \in Store
      /\ r.heap[Candidate].id = store.heap[Candidate].id
      /\ r.heap[p] = store.heap[p]
  <2>1. Good(r) /\ SameQueues(r, store) /\ r \in Store
    BY <1>0, StartedCandidate, GoodFacts
  <2>2. Quiet \in Store /\ Quiet.heap \in [Ptr -> Note \cup {Freed}]
    BY <1>2, GoodFacts
  <2>3. /\ r.heap[Candidate].id = Quiet.heap[Candidate].id
        /\ r.heap[p] = Quiet.heap[p]
    BY <1>1, <1>2, <1>4, <1>5, <2>2 DEF Started, Store, Note, heap
  <2> QED  BY <1>2, <2>1, <2>3
<1>7. store.heap[p].id # store.heap[Candidate].id
  <2>1. p \in Queued(store) /\ Candidate \in Queued(store)
    BY <1>3 DEF Queued, displayed, waiting
  <2> QED  BY <1>4, <2>1 DEF Unique
<1>8. p \in OpenIn(r)  BY <1>3, <1>6 DEF OpenIn, SameQueues
<1>9. CASE FillNotReady
  <2>1. store' = Quiet  BY <1>9 DEF FillNotReady, Fill
  <2> QED  BY <1>2, <1>3, <2>1 DEF OpenIn, SameQueues
<1>10. CASE FillSuppressed \/ FillSkipsDisplay
  <2>1. PICK reason \in Reasons : store' = NotificationClose(r, Candidate, reason)
    BY <1>10 DEF FillSuppressed, FillSkipsDisplay, Fill, Reasons
  <2> HIDE DEF r
  <2> QED
    BY <1>6, <1>7, <1>8, <2>1, CloseIdSparesOthers DEF NotificationClose
<1>11. CASE FillDisplay
  <2> DEFINE at == Len(r.waiting) - left + 1
  <2>1. at \in 1..Len(r.waiting) /\ r.waiting[at] = Candidate
    BY <1>1, <1>6 DEF SameQueues, Candidate, waiting
  <2>2. store' = [r EXCEPT !.waiting = RemoveAt(r.waiting, at),
                           !.displayed = InsertSorted(r, r.displayed, Candidate)]
    BY <1>11 DEF FillDisplay, Fill
  <2> HIDE DEF at, r
  <2>3. store' = Shown(r, at)  BY <1>6, <2>1, <2>2 DEF Shown, Store
  <2>4. OpenIn(store') = OpenIn(r)  BY <1>6, <2>1, <2>3, ShownMoves DEF Moved
  <2> QED  BY <1>8, <2>4
<1> QED  BY <1>9, <1>10, <1>11

LEMMA RunSparesLocked ==
  ASSUME UpdateInv, Unique(store), NEW p \in ToSet(displayed), heap[p].locked,
         RunStep
  PROVE  p \in OpenIn(store')
<1>1. /\ Good(store) /\ Good(Quiet) /\ SameQueues(Quiet, store)
      /\ Quiet.heap = store.heap /\ Quiet \in Store
      /\ p \in OpenIn(store)
  BY QuietKeeps, GoodFacts DEF UpdateInv, OpenIn, displayed
<1>2. CASE \/ RetireMarked \/ RetireRemoved \/ RetireFinished
           \/ RetireSuppressed \/ RetirePushback \/ RetireKeep
  BY <1>2, RetireSparesLocked
<1>3. CASE FillSuppressed \/ FillNotReady \/ FillSkipsDisplay \/ FillDisplay
  BY <1>3, FillSparesDisplayed
<1>4. CASE RetireDone \/ FillDone \/ TrimDone \/ SeepDone \/ Finish
  <2>1. store' = Quiet
    BY <1>4 DEF RetireDone, FillDone, TrimDone, SeepDone, Finish
  <2> QED  BY <1>1, <2>1 DEF OpenIn, SameQueues
<1>5. CASE TrimStep
  <2>1. Quiet.displayed # <<>>
    <3>1. Len(store.displayed) > limit /\ limit \in Nat
      BY <1>5 DEF TrimStep, Overhang, UpdateInv, displayed
    <3>2. store.displayed # <<>>
      BY <3>1, EmptySeq, LengthsTyped DEF UpdateInv
    <3> QED  BY <1>1, <3>2 DEF SameQueues
  <2>2. InsertSorted(store, Quiet.waiting, Last(Quiet.displayed))
          = InsertSorted(Quiet, Quiet.waiting, Last(Quiet.displayed))
    BY <1>1, SameInsertion
  <2>3. store' = Trimmed(Quiet)
    BY <1>1, <1>5, <2>2 DEF TrimStep, Trimmed, SameQueues, displayed
  <2>4. OpenIn(store') = OpenIn(Quiet)
    BY <1>1, <2>1, <2>3, TrimmedMoves DEF Moved
  <2> QED  BY <1>1, <2>4 DEF OpenIn, SameQueues
<1>6. CASE SeepSwap
  <2> DEFINE up == store.waiting[1]
             r  == Started(Quiet, up)
  <2>1. store.displayed # <<>> /\ store.waiting # <<>>
    BY <1>6 DEF SeepSwap, Seeps, displayed, waiting
  <2>2. up \in Ptr /\ Quiet.heap[up] \in Note
    <3>1. store.waiting \in Seq(Ptr) /\ Len(store.waiting) \in Nat
      BY <1>1, GoodFacts, LenProperties
    <3>2. Len(store.waiting) # 0  BY <2>1, <3>1, EmptySeq
    <3>3. 1 \in 1..Len(store.waiting)  BY <3>1, <3>2
    <3>4. up \in ToSet(store.waiting)  BY <3>1, <3>3, Elements
    <3> QED  BY <1>1, <3>4, GoodFacts DEF Queued
  <2>3. Good(r) /\ r \in Store /\ SameQueues(r, store)
    BY <1>1, <2>2, HeldKeeps, GoodFacts DEF SameQueues
  <2>4. store' = [r EXCEPT !.displayed = InsertSorted(r, Front(r.displayed), up),
                           !.waiting = InsertSorted(r, Tail(r.waiting),
                                                    Last(store.displayed))]
    BY <1>6 DEF SeepSwap, displayed, waiting
  <2> HIDE DEF r
  <2>5. store' = Swapped(r)  BY <2>3, <2>4 DEF Swapped, SameQueues
  <2>6. r.displayed # <<>> /\ r.waiting # <<>>  BY <2>1, <2>3 DEF SameQueues
  <2>7. OpenIn(store') = OpenIn(r)  BY <2>3, <2>5, <2>6, SwappedMoves DEF Moved
  <2> QED  BY <1>1, <2>3, <2>7 DEF OpenIn, SameQueues
<1> QED  BY <1>2, <1>3, <1>4, <1>5, <1>6 DEF RunStep, UpdateStep

(* No run of queues_update takes a notification off the screen and out of  *)
(* the queues while a menu lists it: neither its timeout, nor a click, nor *)
(* fullscreen, nor a notification of the same id.                          *)
THEOREM LocksHold ==
  ASSUME ClientIds # "any"
  PROVE  MenuSpec => LockHolds
<1>1. MenuInv => UpdateInv /\ Unique(store)
  BY IInvParts DEF MenuInv, References, Balanced
<1>2. MenuInv /\ [MenuNext]_allVars =>
        [RunStep => \A p \in ToSet(displayed) :
                      heap[p].locked => p \in Open']_allVars
  <2> SUFFICES ASSUME MenuInv, RunStep, NEW p \in ToSet(displayed), heap[p].locked
               PROVE  p \in Open'
    OBVIOUS
  <2>1. p \in OpenIn(store')  BY <1>1, RunSparesLocked
  <2> QED  BY <2>1 DEF Open, OpenIn, displayed, waiting
<1> QED  BY <1>2, MenuInvHolds, PTL DEF MenuSpec, LockHolds

(* What dunst reports as ActionInvoked is open in that moment, whichever   *)
(* way it was chosen: a click, a D-Bus call, or a menu that was opened     *)
(* before other notifications came, replaced it or timed out.              *)
THEOREM OnlyOpenIsInvoked ==
  ASSUME ClientIds # "any"
  PROVE  MenuSpec => InvokedIsOpen
<1>1. MenuInv /\ [MenuNext]_allVars =>
        [invoked' # 0 =>
           \E p \in Open : heap[p].id = invoked' /\ heap[p].valid]_allVars
  <2> SUFFICES ASSUME MenuInv, MenuNext, invoked' # 0
               PROVE  \E p \in Open : heap[p].id = invoked' /\ heap[p].valid
    OBVIOUS
  <2>1. UpdateInv /\ MenuTyped  BY IInvParts DEF MenuInv
  <2>2. CASE OpensMenu
    <3>1. Invokes  BY <2>1, <2>2, OpeningEffect DEF Opens
    <3> QED  BY <3>1 DEF Invokes, Open
  <2>3. CASE \E s \in Slots : ThreadStep(s)
    BY <2>3 DEF ThreadStep, ThreadEnters, ThreadReads, InvokeDmenu, ThreadMoves
  <2>4. CASE \E s \in Slots : Dispatch(s)
    <3>1. PICK s \in Slots : Dispatch(s)  BY <2>4
    <3> DEFINE answer == menu[s].answer
    <3>2. answer # Nothing /\ invoked' = InvokeAction(answer)
      BY <3>1 DEF Dispatch
    <3>3. answer.action # "none"  BY <2>1, <3>2 DEF MenuTyped, Honest
    <3> HIDE DEF answer
    <3>4. PICK p \in ToSet(displayed) :
            heap[p].id = answer.id /\ ActionsOf(heap[p]) = answer.action
      BY <3>2 DEF InvokeAction
    <3>5. heap[p].id = invoked'  BY <3>2, <3>4 DEF InvokeAction
    <3>6. heap[p].valid  BY <3>3, <3>4 DEF ActionsOf
    <3> QED  BY <3>5, <3>6 DEF Open
  <2> QED  BY <2>2, <2>3, <2>4 DEF MenuNext
<1> QED  BY <1>1, MenuInvHolds, PTL DEF MenuSpec, InvokedIsOpen
=============================================================================
