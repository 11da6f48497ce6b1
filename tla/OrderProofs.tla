---------------------------- MODULE OrderProofs ----------------------------
(***************************************************************************)
(* The order of the queues.  notification_cmp is a total preorder as long  *)
(* as no two creation times are further apart than an int can hold, and    *)
(* everything that moves a notification sorts it in; so the queues stay in *)
(* order unless a notification takes the place of another one.  With both  *)
(* in order the swaps at the border of the two queues leave the most       *)
(* important notifications on the screen.                                  *)
(* Then the marks: what clicks and menus ask for is done by the time the   *)
(* main loop rests, and what is on the screen then may be there.           *)
(***************************************************************************)
EXTENDS PromiseProofs

(* The differences of creation times fit into the int that                 *)
(* notification_cmp returns: they are within half its range, 36 minutes.   *)
Comparable ==
  Sort = "update" => \A a, b \in Stamps : a - b < WordUnits \div 2

(* h orders s as notification_cmp does. *)
InOrder(h, s) ==
  \A i, j \in 1..Len(s) : i < j => Cmp(h[s[i]], h[s[j]]) <= 0

SameKeys(n, m) == n.kind = m.kind /\ n.id = m.id /\ n.stamp = m.stamp

---------------------------------------------------------------------------
(* notification_cmp                                                        *)

LEMMA CmpReadsKeys ==
  ASSUME NEW a, NEW b, NEW c, NEW d, SameKeys(a, c), SameKeys(b, d)
  PROVE  Cmp(a, b) = Cmp(c, d)
BY DEF Cmp, SameKeys

LEMMA IntKeepsDifference ==
  ASSUME Comparable, Sort = "update", NEW a \in Stamps, NEW b \in Stamps
  PROVE  AsInt(a - b) = a - b
<1>1. a \in Int /\ b \in Int  BY NotificationAssumption
<1>2. WordUnits = 8 /\ WordUnits \div 2 = 4  BY DEF WordUnits
<1>3. a - b < 4 /\ b - a < 4  BY <1>2 DEF Comparable
<1>4. (a - b) + 4 \in 0..7  BY <1>1, <1>3
<1>5. ((a - b) + 4) % 8 = (a - b) + 4  BY <1>4
<1> QED  BY <1>1, <1>2, <1>5 DEF AsInt

LEMMA CmpIsPreorder ==
  ASSUME Comparable, NEW a \in Note, NEW b \in Note, NEW c \in Note
  PROVE  /\ Cmp(a, b) \in Int
         /\ Cmp(b, a) = -Cmp(a, b)
         /\ Cmp(a, b) <= 0 /\ Cmp(b, c) <= 0 => Cmp(a, c) <= 0
<1>1. /\ a.id \in Int /\ b.id \in Int /\ c.id \in Int
      /\ a.kind.urgency \in Int /\ b.kind.urgency \in Int
      /\ c.kind.urgency \in Int
      /\ a.stamp \in Stamps /\ b.stamp \in Stamps /\ c.stamp \in Stamps
      /\ a.stamp \in Int /\ b.stamp \in Int /\ c.stamp \in Int
  <2>1. \A n \in Note : n.kind \in Kinds /\ n.id \in 0..MaxId /\ n.stamp \in Stamps
    BY DEF Note
  <2>2. \A k \in Kinds : k.urgency \in 0..2
    <3>1. \A k \in KindType : k.urgency \in 0..2  BY DEF KindType
    <3> QED  BY <3>1, NotificationAssumption
  <2>3. \A n \in Note : n.kind.urgency \in Int  BY <2>1, <2>2
  <2>4. \A n \in Note : n.id \in Int  BY <2>1
  <2>5. \A n \in Note : n.stamp \in Int
    <3>1. \A t \in Stamps : t \in Int  BY NotificationAssumption
    <3> QED  BY <2>1, <3>1
  <2> QED  BY <2>1, <2>3, <2>4, <2>5
<1>2. CASE Sort = "id"
  BY <1>1, <1>2 DEF Cmp
<1>3. CASE Sort = "urgency_ascending"
  BY <1>1, <1>3 DEF Cmp
<1>4. CASE Sort = "urgency_descending"
  BY <1>1, <1>4 DEF Cmp
<1>5. CASE Sort = "update"
  <2>1. \A x, y \in {a, b, c} : AsInt(x.stamp - y.stamp) = x.stamp - y.stamp
    BY <1>1, <1>5, IntKeepsDifference
  <2>2. \A x, y \in {a, b, c} :
          Cmp(x, y) = IF OriginBottom THEN x.stamp - y.stamp
                                      ELSE y.stamp - x.stamp
    BY <1>5, <2>1 DEF Cmp
  <2> QED  BY <1>1, <2>2
<1> QED  BY <1>2, <1>3, <1>4, <1>5, NotificationAssumption DEF SortTypes

---------------------------------------------------------------------------
(* What keeps a sequence in order                                          *)

(* nothing that notification_cmp reads has changed *)
LEMMA OrderReadsKeys ==
  ASSUME NEW h, NEW g, NEW s \in Seq(Ptr), InOrder(h, s),
         \A p \in ToSet(s) : SameKeys(g[p], h[p])
  PROVE  InOrder(g, s)
<1> SUFFICES ASSUME NEW i \in 1..Len(s), NEW j \in 1..Len(s), i < j
             PROVE  Cmp(g[s[i]], g[s[j]]) <= 0
  BY DEF InOrder
<1>1. s[i] \in ToSet(s) /\ s[j] \in ToSet(s)  BY Elements
<1>2. SameKeys(g[s[i]], h[s[i]]) /\ SameKeys(g[s[j]], h[s[j]])  BY <1>1
<1>3. Cmp(g[s[i]], g[s[j]]) = Cmp(h[s[i]], h[s[j]])
  BY <1>2, CmpReadsKeys
<1> QED  BY <1>3 DEF InOrder

(* an element is taken out *)
LEMMA OrderNarrowed ==
  ASSUME NEW h, NEW s \in Seq(Ptr), NEW t \in Seq(Ptr), NEW at \in 1..Len(s),
         InOrder(h, s), Narrowed(s, t, at)
  PROVE  InOrder(h, t)
<1> SUFFICES ASSUME NEW i \in 1..Len(t), NEW j \in 1..Len(t), i < j
             PROVE  Cmp(h[t[i]], h[t[j]]) <= 0
  BY DEF InOrder
<1> DEFINE n == Len(s)
           a == IF i < at THEN i ELSE i + 1
           b == IF j < at THEN j ELSE j + 1
<1>1. n \in Nat /\ Len(t) = n - 1  BY LenProperties DEF Narrowed
<1>2. i \in 1..(n - 1) /\ j \in 1..(n - 1)  BY <1>1
<1>3. a \in 1..n /\ b \in 1..n /\ a < b
  <2> HIDE DEF n
  <2> QED  BY <1>1, <1>2
<1>4. t[i] = s[a] /\ t[j] = s[b]
  BY <1>2 DEF Narrowed
<1> HIDE DEF a, b
<1>5. Cmp(h[s[a]], h[s[b]]) <= 0  BY <1>3 DEF InOrder
<1> QED  BY <1>4, <1>5

LEMMA NarrowedElements ==
  ASSUME NEW s \in Seq(Ptr), NEW t \in Seq(Ptr), NEW at \in 1..Len(s),
         Narrowed(s, t, at)
  PROVE  ToSet(t) \subseteq ToSet(s)
<1>1. Len(s) \in Nat /\ Len(t) = Len(s) - 1
  BY LenProperties DEF Narrowed
<1>2. ASSUME NEW i \in 1..Len(t)  PROVE t[i] \in ToSet(s)
  <2> DEFINE n == Len(s)
             a == IF i < at THEN i ELSE i + 1
  <2>1. i \in 1..(n - 1) /\ n \in Nat  BY <1>1
  <2>2. t[i] = s[a]  BY <2>1 DEF Narrowed
  <2>3. a \in 1..n
    <3> HIDE DEF n
    <3> QED  BY <2>1
  <2> HIDE DEF a
  <2> QED  BY <2>2, <2>3, Elements
<1> QED  BY <1>2, Elements

(* an element is put in between those before and those behind it *)
LEMMA OrderWidened ==
  ASSUME NEW h, NEW s \in Seq(Ptr), NEW t \in Seq(Ptr), NEW p,
         NEW at \in 1..(Len(s) + 1), InOrder(h, s), Widened(s, t, at, p),
         \A i \in 1..(at - 1) : Cmp(h[s[i]], h[p]) <= 0,
         \A i \in at..Len(s) : Cmp(h[p], h[s[i]]) <= 0
  PROVE  InOrder(h, t)
<1> SUFFICES ASSUME NEW i \in 1..Len(t), NEW j \in 1..Len(t), i < j
             PROVE  Cmp(h[t[i]], h[t[j]]) <= 0
  BY DEF InOrder
<1> DEFINE n == Len(s)
<1>1. n \in Nat /\ Len(t) = n + 1  BY LenProperties DEF Widened
<1>2. i \in 1..(n + 1) /\ j \in 1..(n + 1) /\ at \in 1..(n + 1)  BY <1>1
<1>3. /\ t[i] = IF i < at THEN s[i] ELSE IF i = at THEN p ELSE s[i - 1]
      /\ t[j] = IF j < at THEN s[j] ELSE IF j = at THEN p ELSE s[j - 1]
  BY <1>2 DEF Widened
<1>4. \A a, b \in 1..n : a < b => Cmp(h[s[a]], h[s[b]]) <= 0
  BY DEF InOrder
<1>5. \A a \in at..n : Cmp(h[p], h[s[a]]) <= 0  OBVIOUS
<1> HIDE DEF n
<1>6. CASE j < at
  <2>1. i \in 1..n /\ j \in 1..n /\ t[i] = s[i] /\ t[j] = s[j]
    BY <1>1, <1>2, <1>3, <1>6
  <2> QED  BY <1>4, <2>1
<1>7. CASE j = at
  <2>1. i \in 1..(at - 1) /\ t[i] = s[i] /\ t[j] = p
    BY <1>1, <1>2, <1>3, <1>7
  <2> QED  BY <2>1
<1>8. CASE j > at /\ i < at
  <2>1. i \in 1..n /\ j - 1 \in 1..n /\ i < j - 1
        /\ t[i] = s[i] /\ t[j] = s[j - 1]
    BY <1>1, <1>2, <1>3, <1>8
  <2> QED  BY <1>4, <2>1
<1>9. CASE j > at /\ i = at
  <2>1. j - 1 \in at..n /\ t[i] = p /\ t[j] = s[j - 1]
    BY <1>1, <1>2, <1>3, <1>9
  <2> QED  BY <1>5, <2>1
<1>10. CASE j > at /\ i > at
  <2>1. i - 1 \in 1..n /\ j - 1 \in 1..n /\ i - 1 < j - 1
        /\ t[i] = s[i - 1] /\ t[j] = s[j - 1]
    BY <1>1, <1>2, <1>3, <1>10
  <2> QED  BY <1>4, <2>1
<1> QED  BY <1>2, <1>6, <1>7, <1>8, <1>9, <1>10

(* g_queue_insert_sorted *)
LEMMA OrderInserted ==
  ASSUME Comparable, NEW q, NEW s \in Seq(Ptr), NEW p \in Ptr,
         q.heap[p] \in Note, \A o \in ToSet(s) : q.heap[o] \in Note,
         InOrder(q.heap, s)
  PROVE  InOrder(q.heap, InsertSorted(q, s, p))
<1> DEFINE h  == q.heap
           n  == Len(s)
           I  == { i \in 1..n : Cmp(h[s[i]], h[p]) >= 0 }
           at == IF I # {} THEN Min(I) ELSE 0
<1>0. n \in Nat  BY LenProperties
<1>1. InsertSorted(q, s, p) =
        IF at = 0 THEN Append(s, p) ELSE InsertAt(s, at, p)
  BY Zenon DEF InsertSorted, SelectInSeq
<1>2. \A i \in 1..n : h[s[i]] \in Note /\ Cmp(h[s[i]], h[p]) \in Int
  <2>1. \A i \in 1..n : h[s[i]] \in Note  BY Elements
  <2> QED  BY <2>1, CmpIsPreorder
<1>3. \A i \in 1..n : i \notin I => Cmp(h[s[i]], h[p]) <= 0
  BY <1>2
<1>4. I \in SUBSET Nat  BY <1>0
<1>5. CASE I = {}
  <2>1. InsertSorted(q, s, p) = Append(s, p)  BY <1>1, <1>5
  <2>2. Append(s, p) \in Seq(Ptr) /\ Widened(s, Append(s, p), n + 1, p)
    <3>1. /\ Append(s, p) \in Seq(Ptr) /\ Len(Append(s, p)) = n + 1
          /\ \A i \in 1..n : Append(s, p)[i] = s[i]
          /\ Append(s, p)[n + 1] = p
      BY AppendProperties
    <3> QED  BY <1>0, <3>1 DEF Widened
  <2>3. \A i \in 1..((n + 1) - 1) : Cmp(h[s[i]], h[p]) <= 0
    <3> HIDE DEF I
    <3>1. (n + 1) - 1 = n  BY <1>0
    <3> QED  BY <1>3, <1>5, <3>1
  <2>4. \A i \in (n + 1)..n : Cmp(h[p], h[s[i]]) <= 0  BY <1>0
  <2>5. n + 1 \in 1..(n + 1)  BY <1>0
  <2> DEFINE t == Append(s, p)
             k == n + 1
  <2>6. t \in Seq(Ptr) /\ Widened(s, t, k, p) /\ k \in 1..(Len(s) + 1)
    BY <2>2, <2>5
  <2>7. /\ \A i \in 1..(k - 1) : Cmp(h[s[i]], h[p]) <= 0
        /\ \A i \in k..Len(s) : Cmp(h[p], h[s[i]]) <= 0
    BY <2>3, <2>4
  <2>8. InsertSorted(q, s, p) = t  BY <2>1
  <2> HIDE DEF t, k, I
  <2>9. InOrder(h, t)  BY <2>6, <2>7, OrderWidened
  <2> QED  BY <2>8, <2>9
<1>6. CASE I # {}
  <2>1. at \in I /\ \A i \in I : at <= i  BY <1>4, <1>6, MinExists
  <2>2. at \in 1..n /\ Cmp(h[s[at]], h[p]) >= 0  BY <2>1
  <2>3. \A i \in 1..(at - 1) : Cmp(h[s[i]], h[p]) <= 0
    <3> HIDE DEF I, at
    <3>1. \A i \in 1..(at - 1) : i \in 1..n /\ i \notin I  BY <1>0, <2>1, <2>2
    <3> QED  BY <1>3, <3>1
  <2> HIDE DEF I, at
  <2>4. Cmp(h[p], h[s[at]]) <= 0
    BY <1>2, <2>2, CmpIsPreorder
  <2>5. ASSUME NEW i \in at..n  PROVE Cmp(h[p], h[s[i]]) <= 0
    <3>1. i \in 1..n  BY <1>0, <2>2
    <3>2. CASE i = at  BY <2>4, <3>2
    <3>3. CASE i # at
      <4>1. at < i  BY <1>0, <2>2, <3>3
      <4>2. Cmp(h[s[at]], h[s[i]]) <= 0  BY <2>2, <3>1, <4>1 DEF InOrder
      <4>3. h[s[at]] \in Note /\ h[s[i]] \in Note /\ h[p] \in Note
        BY <1>2, <2>2, <3>1
      <4> QED  BY <2>4, <4>2, <4>3, CmpIsPreorder
    <3> QED  BY <3>2, <3>3
  <2>6. at # 0 /\ at \in 1..(Len(s) + 1)  BY <1>0, <2>2
  <2>7. InsertSorted(q, s, p) = InsertAt(s, at, p)  BY <1>1, <2>6
  <2> DEFINE t == InsertAt(s, at, p)
  <2>8. t \in Seq(Ptr) /\ Widened(s, t, at, p)
    BY <2>6, InsertAtProperties
  <2> HIDE DEF t
  <2>9. InOrder(h, t)  BY <2>3, <2>5, <2>6, <2>8, OrderWidened
  <2> QED  BY <2>7, <2>9 DEF t
<1> QED  BY <1>5, <1>6


---------------------------------------------------------------------------
(* The operations on the queues                                            *)

(* r has each queue in order if q has. *)
KeepsOrder(r, q) ==
  /\ InOrder(q.heap, q.displayed) => InOrder(r.heap, r.displayed)
  /\ InOrder(q.heap, q.waiting) => InOrder(r.heap, r.waiting)

LEMMA OrderKept ==
  ASSUME NEW q, NEW r, Kept(r, q),
         NEW s \in Seq(Ptr), ToSet(s) \subseteq Queued(r), InOrder(q.heap, s)
  PROVE  InOrder(r.heap, s)
<1>1. \A p \in ToSet(s) : SameKeys(r.heap[p], q.heap[p])
  BY DEF Kept, SameKeys
<1> QED  BY <1>1, OrderReadsKeys

LEMMA OrderUntouched ==
  ASSUME NEW q, NEW r, Good(r), Kept(r, q),
         r.displayed = q.displayed, r.waiting = q.waiting
  PROVE  KeepsOrder(r, q)
<1>1. /\ q.displayed \in Seq(Ptr) /\ ToSet(q.displayed) \subseteq Queued(r)
      /\ q.waiting \in Seq(Ptr) /\ ToSet(q.waiting) \subseteq Queued(r)
  BY GoodFacts DEF Queued
<1> QED  BY <1>1, OrderKept DEF KeepsOrder

LEMMA OrderWithout ==
  ASSUME NEW h, NEW s \in Seq(Ptr), NEW at, PlaceIn(at, s), InOrder(h, s)
  PROVE  InOrder(h, Without(s, at))
<1>1. CASE at = 0  BY <1>1 DEF Without
<1>2. CASE at # 0
  <2>1. at \in 1..Len(s)  BY <1>2, LenProperties DEF PlaceIn
  <2>2. /\ RemoveAt(s, at) \in Seq(Ptr) /\ Narrowed(s, RemoveAt(s, at), at)
    BY <2>1, RemoveAtProperties
  <2> DEFINE t == RemoveAt(s, at)
  <2> HIDE DEF t
  <2>3. t \in Seq(Ptr) /\ Narrowed(s, t, at)  BY <2>2 DEF t
  <2>4. InOrder(h, t)  BY <2>1, <2>3, OrderNarrowed
  <2> QED  BY <1>2, <2>4 DEF Without, t
<1> QED  BY <1>1, <1>2

LEMMA CloseIdKeepsOrder ==
  ASSUME NEW q, Good(q), NEW id, NEW reason \in Reasons
  PROVE  KeepsOrder(CloseId(q, id, reason), q)
<1> DEFINE d == FirstWithId(q, q.displayed, id)
           w == FirstWithId(q, q.waiting, id)
           r == CloseId(q, id, reason)
<1>1. /\ q.displayed \in Seq(Ptr) /\ q.waiting \in Seq(Ptr)
      /\ PlaceIn(d, q.displayed) /\ PlaceIn(w, q.waiting)
  BY GoodFacts, FirstWithIdPlace
<1>2. Good(r) /\ Kept(r, q)  BY CloseIdOrderly DEF Orderly
<1>3. \/ r = q
      \/ /\ r.displayed = Without(q.displayed, d)
         /\ r.waiting = Without(q.waiting, w)
  BY CloseIdEffect
<1>4. /\ r.displayed \in Seq(Ptr) /\ ToSet(r.displayed) \subseteq Queued(r)
      /\ r.waiting \in Seq(Ptr) /\ ToSet(r.waiting) \subseteq Queued(r)
  BY <1>2, GoodFacts DEF Queued
<1> HIDE DEF d, w, r
<1>5. ASSUME InOrder(q.heap, q.displayed)  PROVE InOrder(r.heap, r.displayed)
  <2>1. InOrder(q.heap, r.displayed)  BY <1>1, <1>3, <1>5, OrderWithout
  <2> QED  BY <1>2, <1>4, <2>1, OrderKept
<1>6. ASSUME InOrder(q.heap, q.waiting)  PROVE InOrder(r.heap, r.waiting)
  <2>1. InOrder(q.heap, r.waiting)  BY <1>1, <1>3, <1>6, OrderWithout
  <2> QED  BY <1>2, <1>4, <2>1, OrderKept
<1> QED  BY <1>5, <1>6 DEF KeepsOrder, r


LEMMA OrderGains ==
  ASSUME Comparable, NEW q, Good(q), NEW s \in Seq(Ptr),
         ToSet(s) \subseteq Queued(q), NEW p \in Queued(q), InOrder(q.heap, s)
  PROVE  InOrder(q.heap, InsertSorted(q, s, p))
<1>1. p \in Ptr /\ q.heap[p] \in Note /\ \A o \in ToSet(s) : q.heap[o] \in Note
  BY GoodFacts
<1> QED  BY <1>1, OrderInserted

LEMMA OpenAreQueued ==
  ASSUME NEW q, Good(q)
  PROVE  /\ q.displayed \in Seq(Ptr) /\ ToSet(q.displayed) \subseteq Queued(q)
         /\ q.waiting \in Seq(Ptr) /\ ToSet(q.waiting) \subseteq Queued(q)
         /\ \A i \in 1..Len(q.displayed) : q.displayed[i] \in Queued(q)
         /\ \A i \in 1..Len(q.waiting) : q.waiting[i] \in Queued(q)
<1>1. q.displayed \in Seq(Ptr) /\ q.waiting \in Seq(Ptr)  BY GoodFacts
<1> QED  BY <1>1, Elements DEF Queued

LEMMA OrderWithoutOne ==
  ASSUME NEW h, NEW s \in Seq(Ptr), NEW at \in 1..Len(s), InOrder(h, s)
  PROVE  /\ InOrder(h, RemoveAt(s, at))
         /\ RemoveAt(s, at) \in Seq(Ptr)
         /\ ToSet(RemoveAt(s, at)) \subseteq ToSet(s)
<1> DEFINE t == RemoveAt(s, at)
<1>1. t \in Seq(Ptr) /\ Narrowed(s, t, at)  BY RemoveAtProperties
<1> HIDE DEF t
<1>2. InOrder(h, t)  BY <1>1, OrderNarrowed
<1>3. ToSet(t) \subseteq ToSet(s)  BY <1>1, NarrowedElements
<1> QED  BY <1>1, <1>2, <1>3 DEF t

LEMMA PushedBackKeepsOrder ==
  ASSUME Comparable, NEW q, Good(q), NEW at \in 1..Len(q.displayed)
  PROVE  KeepsOrder(PushedBack(q, at), q)
<1> DEFINE p  == q.displayed[at]
           d  == RemoveAt(q.displayed, at)
           q1 == [q EXCEPT !.displayed = d]
           w  == InsertSorted(q, q.waiting, p)
           r  == PushedBack(q, at)
<1>1. q \in Store  BY GoodFacts
<1>2. p \in Queued(q)  BY OpenAreQueued
<1>3. r.displayed = d /\ r.waiting = w /\ r.heap = q.heap
  <2>1. q1.heap = q.heap /\ q1.waiting = q.waiting  BY <1>1 DEF Store
  <2>2. InsertSorted(q1, q.waiting, p) = w
    <3> HIDE DEF q1, p
    <3> QED  BY <2>1, SameInsertion
  <2>3. r = [q1 EXCEPT !.waiting = InsertSorted(q1, q.waiting, p)]
    BY <2>1 DEF PushedBack, Enqueue
  <2> HIDE DEF d, w, p
  <2> QED  BY <1>1, <2>2, <2>3 DEF Store
<1>4. InOrder(q.heap, q.displayed) => InOrder(q.heap, d)
  BY OpenAreQueued, OrderWithoutOne
<1> HIDE DEF p, r
<1>5. InOrder(q.heap, q.waiting) => InOrder(q.heap, w)
  BY <1>2, OpenAreQueued, OrderGains
<1> QED  BY <1>3, <1>4, <1>5 DEF KeepsOrder, r

LEMMA ShownKeepsOrder ==
  ASSUME Comparable, NEW q, Good(q), NEW at \in 1..Len(q.waiting)
  PROVE  KeepsOrder(Shown(q, at), q)
<1> DEFINE p == q.waiting[at]
           w == RemoveAt(q.waiting, at)
           d == InsertSorted(q, q.displayed, p)
           r == Shown(q, at)
<1>1. q \in Store  BY GoodFacts
<1>2. p \in Queued(q)  BY OpenAreQueued
<1>3. r.displayed = d /\ r.waiting = w /\ r.heap = q.heap
  BY <1>1 DEF Shown, Store
<1>4. InOrder(q.heap, q.waiting) => InOrder(q.heap, w)
  BY OpenAreQueued, OrderWithoutOne
<1> HIDE DEF p, r
<1>5. InOrder(q.heap, q.displayed) => InOrder(q.heap, d)
  BY <1>2, OpenAreQueued, OrderGains
<1> QED  BY <1>3, <1>4, <1>5 DEF KeepsOrder, r

(* the last element of displayed, the first of waiting *)
LEMMA OrderAtTheBorder ==
  ASSUME NEW h, NEW s \in Seq(Ptr), s # <<>>, InOrder(h, s)
  PROVE  /\ InOrder(h, Front(s)) /\ Front(s) \in Seq(Ptr)
         /\ ToSet(Front(s)) \subseteq ToSet(s)
         /\ InOrder(h, Tail(s)) /\ Tail(s) \in Seq(Ptr)
         /\ ToSet(Tail(s)) \subseteq ToSet(s)
<1> DEFINE t == Front(s)
           u == Tail(s)
           n == Len(s)
<1>1. /\ t \in Seq(Ptr) /\ Narrowed(s, t, n) /\ n \in 1..Len(s)
      /\ u \in Seq(Ptr) /\ Narrowed(s, u, 1) /\ 1 \in 1..Len(s)
  BY FrontNarrowed, TailNarrowed
<1> HIDE DEF t, u, n
<1>2. InOrder(h, t) /\ InOrder(h, u)  BY <1>1, OrderNarrowed
<1>3. ToSet(t) \subseteq ToSet(s) /\ ToSet(u) \subseteq ToSet(s)
  BY <1>1, NarrowedElements
<1> QED  BY <1>1, <1>2, <1>3 DEF t, u

LEMMA BorderIsQueued ==
  ASSUME NEW q, Good(q)
  PROVE  /\ q.displayed # <<>> => Last(q.displayed) \in Queued(q)
         /\ q.waiting # <<>> => q.waiting[1] \in Queued(q)
<1>1. q.displayed \in Seq(Ptr) /\ q.waiting \in Seq(Ptr)  BY GoodFacts
<1> QED  BY <1>1, OpenAreQueued, FrontNarrowed, TailNarrowed

LEMMA TrimmedKeepsOrder ==
  ASSUME Comparable, NEW q, Good(q), q.displayed # <<>>
  PROVE  KeepsOrder(Trimmed(q), q)
<1> DEFINE p == Last(q.displayed)
           d == Front(q.displayed)
           w == InsertSorted(q, q.waiting, p)
           r == Trimmed(q)
<1>1. q \in Store  BY GoodFacts
<1>2. p \in Queued(q)  BY BorderIsQueued
<1>3. r.displayed = d /\ r.waiting = w /\ r.heap = q.heap
  BY <1>1 DEF Trimmed, Store
<1>4. InOrder(q.heap, q.displayed) => InOrder(q.heap, d)
  BY OpenAreQueued, OrderAtTheBorder
<1> HIDE DEF p, r
<1>5. InOrder(q.heap, q.waiting) => InOrder(q.heap, w)
  BY <1>2, OpenAreQueued, OrderGains
<1> QED  BY <1>3, <1>4, <1>5 DEF KeepsOrder, r

LEMMA SwappedKeepsOrder ==
  ASSUME Comparable, NEW q, Good(q), q.displayed # <<>>, q.waiting # <<>>
  PROVE  KeepsOrder(Swapped(q), q)
<1> DEFINE down == Last(q.displayed)
           up   == q.waiting[1]
           t    == Front(q.displayed)
           u    == Tail(q.waiting)
           d    == InsertSorted(q, t, up)
           w    == InsertSorted(q, u, down)
           r    == Swapped(q)
<1>1. q \in Store  BY GoodFacts
<1>2. down \in Queued(q) /\ up \in Queued(q)  BY BorderIsQueued
<1>3. r.displayed = d /\ r.waiting = w /\ r.heap = q.heap
  BY <1>1 DEF Swapped, Store
<1>4. InOrder(q.heap, q.displayed) =>
        InOrder(q.heap, t) /\ t \in Seq(Ptr) /\ ToSet(t) \subseteq Queued(q)
  BY OpenAreQueued, OrderAtTheBorder
<1>5. InOrder(q.heap, q.waiting) =>
        InOrder(q.heap, u) /\ u \in Seq(Ptr) /\ ToSet(u) \subseteq Queued(q)
  BY OpenAreQueued, OrderAtTheBorder
<1> HIDE DEF down, up, t, u, r
<1>6. InOrder(q.heap, q.displayed) => InOrder(q.heap, d)
  BY <1>2, <1>4, OrderGains
<1>7. InOrder(q.heap, q.waiting) => InOrder(q.heap, w)
  BY <1>2, <1>5, OrderGains
<1> QED  BY <1>3, <1>6, <1>7 DEF KeepsOrder, r


LEMMA RedisplayKeepsOrder ==
  ASSUME Comparable, NEW q, Good(q), NEW at \in 1..Len(q.history)
  PROVE  KeepsOrder(Redisplay(q, at), q)
<1> DEFINE p  == q.history[at]
           n  == [q.heap[p] EXCEPT !.redisplayed = TRUE,
                                   !.timed = @ /\ ~StickyHistory]
           h  == [q.heap EXCEPT ![p] = n]
           q1 == [q EXCEPT !.history = RemoveAt(q.history, at), !.heap[p] = n]
           w  == InsertSorted(q1, q.waiting, p)
           r  == Redisplay(q, at)
<1>1. q \in Store  BY GoodFacts
<1>2. p \in Queued(q) /\ p \in Ptr /\ q.heap[p] \in Note
  <2>1. q.history \in Seq(Ptr)  BY GoodFacts
  <2>2. p \in Queued(q)  BY <2>1, Elements DEF Queued
  <2> QED  BY <2>2, GoodFacts
<1>3. /\ r.displayed = q.displayed /\ r.waiting = w /\ r.heap = h
      /\ q1.heap = h
  <2>1. q1 = [q EXCEPT !.history = RemoveAt(q.history, at),
                       !.heap[p].redisplayed = TRUE,
                       !.heap[p].timed = @ /\ ~StickyHistory]
    BY <1>1, <1>2 DEF Store, Note
  <2> HIDE DEF n
  <2>2. q1.waiting = q.waiting /\ q1.heap = h  BY <1>1 DEF Store
  <2>3. r = [q1 EXCEPT !.waiting = w]
    <3> HIDE DEF q1, h
    <3> QED  BY <2>1, <2>2 DEF Redisplay
  <2>4. [q1 EXCEPT !.waiting = w].heap = q1.heap
        /\ [q1 EXCEPT !.waiting = w].displayed = q.displayed
        /\ [q1 EXCEPT !.waiting = w].waiting = w
    <3> HIDE DEF w
    <3> QED  BY <1>1 DEF Store
  <2> HIDE DEF q1, w, r, h
  <2> QED  BY <2>2, <2>3, <2>4
<1>4. n \in Note /\ SameKeys(n, q.heap[p])
  BY <1>2, QueuesAssumption DEF Note, SameKeys
<1> HIDE DEF n, q1, r
<1>5. h[p] = n /\ \A o \in Ptr \ {p} : h[o] = q.heap[o]
  BY <1>1, <1>2 DEF Store
<1> HIDE DEF h
<1>6. \A o \in Queued(q) : h[o] \in Note /\ SameKeys(h[o], q.heap[o])
  <2>1. \A o \in Queued(q) : o \in Ptr /\ q.heap[o] \in Note  BY GoodFacts
  <2>2. \A m : SameKeys(m, m)  BY DEF SameKeys
  <2> QED  BY <1>4, <1>5, <2>1, <2>2
<1>7. /\ InOrder(q.heap, q.displayed) => InOrder(h, q.displayed)
      /\ InOrder(q.heap, q.waiting) => InOrder(h, q.waiting)
  BY <1>6, OpenAreQueued, OrderReadsKeys
<1>8. InOrder(h, q.waiting) => InOrder(h, w)
  <2>1. q1.heap[p] \in Note /\ \A o \in ToSet(q.waiting) : q1.heap[o] \in Note
    BY <1>2, <1>3, <1>6, OpenAreQueued
  <2> HIDE DEF p
  <2>2. InOrder(q1.heap, q.waiting) => InOrder(q1.heap, w)
    BY <1>2, <2>1, OpenAreQueued, OrderInserted
  <2> QED  BY <1>3, <2>2
<1> QED  BY <1>3, <1>7, <1>8 DEF KeepsOrder, r

LEMMA AlikeKeepsOrder ==
  ASSUME NEW q, Good(q), NEW p \in Ptr, q.heap[p] \in Note,
         NEW n \in Note, Alike(n, q.heap[p])
  PROVE  Good([q EXCEPT !.heap[p] = n]) /\ KeepsOrder([q EXCEPT !.heap[p] = n], q)
<1> DEFINE r == [q EXCEPT !.heap[p] = n]
<1>1. Good(r) /\ Kept(r, q)  BY AlikeOrderly DEF Orderly
<1>2. r.displayed = q.displayed /\ r.waiting = q.waiting
  BY GoodFacts DEF Store
<1> HIDE DEF r
<1>3. KeepsOrder(r, q)  BY <1>1, <1>2, OrderUntouched
<1> QED  BY <1>1, <1>3 DEF r

LEMMA HistoryKeepsOrder ==
  ASSUME NEW q, Good(q)
  PROVE  /\ \A id : KeepsOrder(HistoryRemoveById(q, id), q)
         /\ KeepsOrder(HistoryClear(q), q)
         /\ \A p \in Queued(q) : KeepsOrder(SignalClosed(q, p, SIG), q)
<1>1. ASSUME NEW id  PROVE KeepsOrder(HistoryRemoveById(q, id), q)
  <2>1. Good(HistoryRemoveById(q, id)) /\ Kept(HistoryRemoveById(q, id), q)
    BY HistoryRemoveOrderly DEF Orderly
  <2>2. /\ HistoryRemoveById(q, id).displayed = q.displayed
        /\ HistoryRemoveById(q, id).waiting = q.waiting
    BY HistoryRemoveByIdKeeps
  <2> QED  BY <2>1, <2>2, OrderUntouched
<1>2. KeepsOrder(HistoryClear(q), q)
  <2>1. Good(HistoryClear(q)) /\ Kept(HistoryClear(q), q)
    BY HistoryClearOrderly DEF Orderly
  <2>2. /\ HistoryClear(q).displayed = q.displayed
        /\ HistoryClear(q).waiting = q.waiting
    BY GoodFacts DEF HistoryClear, Store
  <2> QED  BY <2>1, <2>2, OrderUntouched
<1>3. ASSUME NEW p \in Queued(q)  PROVE KeepsOrder(SignalClosed(q, p, SIG), q)
  <2>1. SIG \in Reasons  BY DEF Reasons
  <2>2. Good(SignalClosed(q, p, SIG)) /\ Kept(SignalClosed(q, p, SIG), q)
    BY <2>1, SignalClosedOrderly DEF Orderly
  <2>3. SameQueues(SignalClosed(q, p, SIG), q)
    <3>1. p \in Ptr /\ q.heap[p] \in Note  BY GoodFacts
    <3> QED  BY <2>1, <3>1, SignalClosedKeeps
  <2> QED  BY <2>2, <2>3, OrderUntouched DEF SameQueues
<1> QED  BY <1>1, <1>2, <1>3


---------------------------------------------------------------------------
(* Everything but the arrival of a notification                            *)

LEMMA ClosedByOrder ==
  ASSUME Comparable, NEW S, \A q \in S : Good(q),
         \A q \in S : \A r : Good(r) /\ KeepsOrder(r, q) => r \in S
  PROVE  Closed(S)
<1>1. ASSUME NEW q \in S, NEW p \in Ptr, NEW n \in Note,
             q.heap[p] \in Note, Alike(n, q.heap[p])
      PROVE  [q EXCEPT !.heap[p] = n] \in S
  BY <1>1, AlikeKeepsOrder
<1>2. ASSUME NEW q \in S, NEW id \in 0..MaxId
      PROVE  /\ \A reason \in Reasons : CloseId(q, id, reason) \in S
             /\ HistoryRemoveById(q, id) \in S
  BY CloseIdKeeps, CloseIdKeepsOrder, HistoryRemoveByIdKeeps, HistoryKeepsOrder
<1>3. ASSUME NEW q \in S
      PROVE  /\ \A at \in 1..Len(q.displayed) : PushedBack(q, at) \in S
             /\ \A at \in 1..Len(q.waiting) : Shown(q, at) \in S
  BY PushedBackMoves, PushedBackKeepsOrder, ShownMoves, ShownKeepsOrder
<1>4. ASSUME NEW q \in S, q.displayed # <<>>
      PROVE  Trimmed(q) \in S /\ (q.waiting # <<>> => Swapped(q) \in S)
  BY <1>4, TrimmedMoves, TrimmedKeepsOrder, SwappedMoves, SwappedKeepsOrder
<1>5. ASSUME NEW q \in S
      PROVE  /\ \A at \in 1..Len(q.history) : Redisplay(q, at) \in S
             /\ HistoryClear(q) \in S
  BY RedisplayKeeps, RedisplayKeepsOrder, HistoryClearKeeps, HistoryKeepsOrder
<1>6. ASSUME NEW q \in S, NEW p \in Queued(q)
      PROVE  SignalClosed(q, p, SIG) \in S
  <2>1. Good(SignalClosed(q, p, SIG))
    <3>1. p \in Ptr /\ q.heap[p] \in Note /\ SIG \in Reasons
      BY GoodFacts DEF Reasons
    <3> QED  BY <3>1, SignalClosedKeeps
  <2> QED  BY <2>1, HistoryKeepsOrder
<1>7. ClosedUnderUpdate(S)
  <2>1. \A q \in S, p \in Ptr, n \in Note :
          q.heap[p] \in Note /\ Alike(n, q.heap[p]) => [q EXCEPT !.heap[p] = n] \in S
    BY <1>1
  <2>2. /\ \A q \in S, id \in 0..MaxId, reason \in Reasons :
             CloseId(q, id, reason) \in S
        /\ \A q \in S, id \in 0..MaxId : HistoryRemoveById(q, id) \in S
    BY <1>2
  <2>3. /\ \A q \in S : \A at \in 1..Len(q.displayed) : PushedBack(q, at) \in S
        /\ \A q \in S : \A at \in 1..Len(q.waiting) : Shown(q, at) \in S
        /\ \A q \in S : q.displayed # <<>> => Trimmed(q) \in S
        /\ \A q \in S : q.displayed # <<>> /\ q.waiting # <<>> => Swapped(q) \in S
    BY <1>3, <1>4
  <2> QED  BY <2>1, <2>2, <2>3 DEF ClosedUnderUpdate
<1> QED  BY <1>1, <1>5, <1>6, <1>7 DEF Closed, ClosedCalmly

---------------------------------------------------------------------------
(* The arrival of a notification                                           *)

(* No notification takes the place of another one, unless as a duplicate.  *)
NoneReplaced == ClientIds = "none" /\ \A kind \in Kinds : kind.tag = NoTag

(* A new notification gets an id and finds its place; a suppressed one is  *)
(* then closed at once, and an empty one never gets that far.              *)
LEMMA NewcomerIsStacked ==
  ASSUME UpdateInv, ClientIds = "none", Arrives
  PROVE  \/ SameQueues(store', store) /\ store'.heap = store.heap
         \/ \E p \in Ptr, q \in Store :
              /\ Newcomer(q, p, 0)
              /\ \/ store' = StackOrEnqueue(q, p)
                 \/ store' = NotificationClose(StackOrEnqueue(q, p), p, UNDEF)
<1>1. PICK kind \in Kinds, id \in RequestableIds, stamp \in Stamps :
        Notify(kind, id, stamp)
  BY DEF Arrives
<1>2. id = 0  BY DEF RequestableIds
<1>3. CASE kind.empty
  BY <1>1, <1>3, ArrivalEffect
<1>4. CASE ~kind.empty
  <2>1. PICK p \in { r \in Ptr : heap[r] = Freed } :
          LET created  == [Quiet EXCEPT !.heap[p] = NewNote(kind, id, stamp)]
              inserted == Insert(created, p, status)
          IN WakeUp(IF kind.empty
                    THEN Unref(SignalClosed(inserted, p, USER), p)
                    ELSE inserted)
    BY <1>1 DEF Notify
  <2> DEFINE n == NewNote(kind, id, stamp)
             created  == [Quiet EXCEPT !.heap[p] = n]
             q == AssignId(created, p)
             r == StackOrEnqueue(q, p)
  <2>2. store' = Insert(created, p, status)
    BY <1>4, <2>1 DEF WakeUp, RunWith
  <2>3. /\ Good(Quiet) /\ SameQueues(Quiet, store) /\ Quiet.emitted = {}
        /\ Quiet.heap = store.heap /\ Quiet.nextId = store.nextId
    BY QuietKeeps DEF UpdateInv, Quiet, Good, Store
  <2>4. p \in Ptr /\ store.heap[p] = Freed  BY DEF heap
  <2>5. p \notin Queued(Quiet)  BY <2>3, <2>4, GoodFacts
  <2>6. /\ n \in Note /\ n.id = 0 /\ n.kind = kind /\ n.refs = 1 /\ n.valid
        /\ ~n.redisplayed /\ ~n.locked
        /\ n.closing = NotMarked /\ n.removing = NotMarked
    <3>1. kind.timed \in BOOLEAN  BY NotificationAssumption DEF KindType
    <3>2. 0 \in 0..MaxId  BY NotificationAssumption
    <3> QED  BY <1>2, <3>1, <3>2 DEF NewNote, Note
  <2> HIDE DEF n
  <2>7. /\ Good(created) /\ SameQueues(created, Quiet) /\ created.heap[p] = n
    BY <2>3, <2>4, <2>6, CellChanged
  <2>8. /\ created.nextId = store.nextId /\ created.emitted = {}
        /\ created.heap = [store.heap EXCEPT ![p] = n]
    BY <2>3, GoodFacts DEF Store
  <2> HIDE DEF created
  <2>9. Adrift(created, p)
    BY <2>4, <2>5, <2>6, <2>7 DEF Adrift, Queued, SameQueues
  <2>10. SameQueues(created, store)  BY <2>3, <2>7 DEF SameQueues
  <2>11. \A o \in Ptr \ {p} : created.heap[o] = store.heap[o]
    BY <2>3, <2>4, <2>8, GoodFacts DEF UpdateInv
  <2>12. created.nextId < MaxId  BY <1>1, <1>2, <1>4, <2>8 DEF Notify
  <2>13. Newcomer(q, p, 0)
    BY <2>4, <2>6, <2>7, <2>8, <2>9, <2>10, <2>11, <2>12, AssignedNewcomer
  <2> HIDE DEF q
  <2>14. q \in Store  BY <2>13 DEF Newcomer, Good
  <2>15. store' = r \/ store' = NotificationClose(r, p, UNDEF)
    BY <1>4, <2>2, <2>6, <2>7 DEF Insert, q
  <2> QED  BY <2>4, <2>13, <2>14, <2>15
<1> QED  BY <1>3, <1>4


---------------------------------------------------------------------------
(* g_queue_sort after a duplicate has taken a place in displayed           *)

(* f lists the places of s in an order that sorts s and is stable. *)
Sorts(f, h, s) ==
  /\ f \in [1..Len(s) -> 1..Len(s)] /\ IsInjective(f)
  /\ \A i, j \in 1..Len(s) : i < j =>
       LET c == Cmp(h[s[f[i]]], h[s[f[j]]])
       IN c < 0 \/ (c = 0 /\ f[i] < f[j])

LEMMA SortedBySome ==
  ASSUME Comparable, NEW q, NEW s \in Seq(Ptr),
         \A p \in ToSet(s) : q.heap[p] \in Note, NEW f, Sorts(f, q.heap, s)
  PROVE  InOrder(q.heap, Sorted(q, s))
<1> DEFINE places == 1..Len(s)
           orders == { g \in [places -> places] :
                         /\ IsInjective(g)
                         /\ \A i, j \in places : i < j =>
                              LET c == Cmp(q.heap[s[g[i]]], q.heap[s[g[j]]])
                              IN c < 0 \/ (c = 0 /\ g[i] < g[j]) }
           order == CHOOSE g \in orders : TRUE
           t == [i \in places |-> s[order[i]]]
<1>0. Len(s) \in Nat  BY LenProperties
<1>1. f \in orders  BY Zenon DEF Sorts
<1>2. order \in orders  BY <1>1
<1>3. Sorted(q, s) = t  BY <1>1 DEF Sorted
<1>4. /\ order \in [places -> places]
      /\ \A i, j \in places : i < j =>
           Cmp(q.heap[s[order[i]]], q.heap[s[order[j]]]) <= 0
  <2>1. /\ order \in [places -> places]
        /\ \A i, j \in places : i < j =>
             LET c == Cmp(q.heap[s[order[i]]], q.heap[s[order[j]]])
             IN c < 0 \/ (c = 0 /\ order[i] < order[j])
    BY <1>2
  <2> HIDE DEF order
  <2>2. \A i, j \in places : Cmp(q.heap[s[order[i]]], q.heap[s[order[j]]]) \in Int
    <3>1. \A i \in places : q.heap[s[order[i]]] \in Note
      <4>1. \A i \in places : s[i] \in ToSet(s)  BY Elements
      <4> QED  BY <2>1, <4>1
    <3> QED  BY <3>1, CmpIsPreorder
  <2> DEFINE D(i, j) == Cmp(q.heap[s[order[i]]], q.heap[s[order[j]]])
  <2>3. \A i, j \in places :
          /\ D(i, j) \in Int
          /\ i < j => D(i, j) < 0 \/ (D(i, j) = 0 /\ order[i] < order[j])
    BY <2>1, <2>2
  <2>4. ASSUME NEW i \in places, NEW j \in places, i < j
        PROVE  D(i, j) <= 0
    <3> HIDE DEF D
    <3>1. D(i, j) \in Int /\ (D(i, j) < 0 \/ D(i, j) = 0)  BY <2>3, <2>4
    <3> QED  BY <3>1
  <2> QED  BY <2>1, <2>4
<1> HIDE DEF order, orders
<1>5. 1..Len(t) = places
  <2>1. t \in [places -> Ptr] /\ DOMAIN t = places  BY <1>4, ElementOfSeq
  <2> HIDE DEF t
  <2>2. t \in Seq(Ptr)  BY <1>0, <2>1, SeqDef
  <2> QED  BY <2>1, <2>2, LenProperties
<1> HIDE DEF t
<1>6. InOrder(q.heap, t)
  <2>1. \A i \in places : t[i] = s[order[i]]  BY DEF t
  <2> QED  BY <1>4, <1>5, <2>1 DEF InOrder
<1> QED  BY <1>3, <1>6

(* All of s is in order, except perhaps the element at place d.            *)
LEMMA SortedAfterOne ==
  ASSUME Comparable, NEW q, NEW s \in Seq(Ptr), NEW d \in 1..Len(s),
         \A p \in ToSet(s) : q.heap[p] \in Note,
         \A i, j \in 1..Len(s) \ {d} :
           i < j => Cmp(q.heap[s[i]], q.heap[s[j]]) <= 0
  PROVE  InOrder(q.heap, Sorted(q, s))
<1> DEFINE n == Len(s)
           C(i, j) == Cmp(q.heap[s[i]], q.heap[s[j]])
           B == { i \in 1..n \ {d} : C(i, d) < 0 \/ (C(i, d) = 0 /\ i < d) }
           e(j) == IF j < d THEN j ELSE j + 1
           K == { j \in 1..(n - 1) : e(j) \notin B }
           k == IF K = {} THEN n ELSE Min(K)
           f == [j \in 1..n |-> IF j < k THEN e(j) ELSE IF j = k THEN d ELSE e(j - 1)]
<1>1. n \in Nat /\ d \in 1..n  BY LenProperties
<1>2. \A i, j, l \in 1..n :
        /\ C(i, j) \in Int /\ C(j, i) = -C(i, j)
        /\ C(i, j) <= 0 /\ C(j, l) <= 0 => C(i, l) <= 0
  <2>1. \A i \in 1..n : q.heap[s[i]] \in Note  BY Elements
  <2> HIDE DEF n
  <2>2. ASSUME NEW i \in 1..n, NEW j \in 1..n, NEW l \in 1..n
        PROVE  /\ C(i, j) \in Int /\ C(j, i) = -C(i, j)
               /\ C(i, j) <= 0 /\ C(j, l) <= 0 => C(i, l) <= 0
    <3> DEFINE x == q.heap[s[i]]
               y == q.heap[s[j]]
               z == q.heap[s[l]]
    <3>1. x \in Note /\ y \in Note /\ z \in Note  BY <2>1
    <3>2. /\ C(i, j) = Cmp(x, y) /\ C(j, i) = Cmp(y, x)
          /\ C(j, l) = Cmp(y, z) /\ C(i, l) = Cmp(x, z)
      OBVIOUS
    <3> HIDE DEF x, y, z, C
    <3>3. /\ Cmp(x, y) \in Int /\ Cmp(y, x) = -Cmp(x, y)
          /\ Cmp(x, y) <= 0 /\ Cmp(y, z) <= 0 => Cmp(x, z) <= 0
      BY <3>1, CmpIsPreorder
    <3> QED  BY <3>2, <3>3
  <2> QED  BY <2>2
<1>3. \A i, j \in 1..n \ {d} : i < j => C(i, j) <= 0  OBVIOUS
<1> HIDE DEF C, n
<1>4. \A j \in 1..(n - 1) : e(j) \in 1..n /\ e(j) # d
  BY <1>1
<1>5. \A i, j \in 1..(n - 1) : i < j => e(i) < e(j)
  BY <1>1
<1> HIDE DEF e
<1>6. ASSUME NEW i \in B, NEW j \in 1..n \ {d}, j < i  PROVE j \in B
  <2>1. /\ i \in 1..n \ {d} /\ C(j, i) <= 0 /\ C(i, d) <= 0
        /\ C(i, d) < 0 \/ i < d
    <3>1. i \in 1..n \ {d} /\ (C(i, d) < 0 \/ (C(i, d) = 0 /\ i < d))
      OBVIOUS
    <3>2. C(j, i) <= 0  BY <1>3, <1>6, <3>1
    <3>3. C(i, d) \in Int  BY <1>1, <1>2, <3>1
    <3> QED  BY <3>1, <3>2, <3>3
  <2>2. C(j, d) <= 0  BY <1>1, <1>2, <2>1
  <2>3. CASE i < d
    <3>1. j < d  BY <1>1, <1>6, <2>1, <2>3
    <3> QED  BY <1>1, <1>2, <2>2, <3>1
  <2>4. CASE C(i, d) < 0
    <3>1. ASSUME C(j, d) = 0  PROVE FALSE
      <4>1. C(d, j) <= 0  BY <1>1, <1>2, <3>1
      <4>2. C(d, i) <= 0  BY <1>1, <1>2, <2>1, <4>1
      <4>3. C(d, i) = -C(i, d) /\ C(i, d) \in Int  BY <1>1, <1>2, <2>1
      <4> QED  BY <2>4, <4>2, <4>3
    <3> QED  BY <1>1, <1>2, <2>2, <3>1
  <2> QED  BY <2>1, <2>3, <2>4
<1>7. \A i \in 1..n \ {d} : i \in B => C(i, d) < 0 \/ (C(i, d) = 0 /\ i < d)
  OBVIOUS
<1>8. \A i \in 1..n \ {d} : i \notin B => C(d, i) < 0 \/ (C(d, i) = 0 /\ d < i)
  BY <1>1, <1>2
<1> HIDE DEF B
<1>9. /\ k \in 1..n
      /\ \A j \in 1..(n - 1) : j < k => e(j) \in B
      /\ \A j \in 1..(n - 1) : j >= k => e(j) \notin B
  <2>1. CASE K = {}
    <3>1. \A j \in 1..(n - 1) : e(j) \in B  BY <2>1
    <3> HIDE DEF K
    <3> QED  BY <1>1, <2>1, <3>1
  <2>2. CASE K # {}
    <3>1. K \in SUBSET Nat  BY <1>1
    <3>2. k \in K /\ \A j \in K : k <= j  BY <2>2, <3>1, MinExists
    <3> HIDE DEF k
    <3>3. k \in 1..(n - 1) /\ e(k) \notin B  BY <3>2
    <3>4. \A j \in 1..(n - 1) : j < k => e(j) \in B  BY <1>1, <3>2, <3>3
    <3>5. ASSUME NEW j \in 1..(n - 1), j > k, e(j) \in B  PROVE FALSE
      <4>1. e(k) < e(j) /\ e(k) \in 1..n \ {d}  BY <1>4, <1>5, <3>3, <3>5
      <4> QED  BY <1>6, <3>3, <3>5, <4>1
    <3> QED  BY <1>1, <3>3, <3>4, <3>5
  <2> QED  BY <2>1, <2>2
<1> HIDE DEF k, K
<1>10. \A j \in 1..n : /\ j < k => j \in 1..(n - 1) /\ f[j] = e(j)
                       /\ j = k => f[j] = d
                       /\ j > k => j - 1 \in 1..(n - 1) /\ f[j] = e(j - 1)
  BY <1>1, <1>9
<1>11. f \in [1..n -> 1..n]  BY <1>1, <1>4, <1>9
<1> HIDE DEF f
<1>12. ASSUME NEW i \in 1..n, NEW j \in 1..n, i < j
       PROVE  /\ f[i] # f[j]
              /\ C(f[i], f[j]) < 0 \/ (C(f[i], f[j]) = 0 /\ f[i] < f[j])
  <2>1. CASE i = k
    <3>1. /\ j - 1 \in 1..(n - 1) /\ j - 1 >= k
          /\ f[i] = d /\ f[j] = e(j - 1)
      BY <1>1, <1>9, <1>10, <1>12, <2>1
    <3>2. e(j - 1) \in 1..n \ {d} /\ e(j - 1) \notin B  BY <1>4, <1>9, <3>1
    <3> QED  BY <1>8, <3>1, <3>2
  <2>2. CASE j = k
    <3>1. i \in 1..(n - 1) /\ i < k /\ f[i] = e(i) /\ f[j] = d
      BY <1>1, <1>9, <1>10, <1>12, <2>2
    <3>2. e(i) \in 1..n \ {d} /\ e(i) \in B  BY <1>4, <1>9, <3>1
    <3> QED  BY <1>7, <3>1, <3>2
  <2>3. CASE i # k /\ j # k
    <3>1. PICK a \in 1..(n - 1), b \in 1..(n - 1) :
            a < b /\ f[i] = e(a) /\ f[j] = e(b)
      <4>1. CASE j < k
        BY <1>1, <1>9, <1>10, <1>12, <4>1
      <4>2. CASE i < k /\ j > k
        <5>1. i \in 1..(n - 1) /\ j - 1 \in 1..(n - 1) /\ i < j - 1
              /\ f[i] = e(i) /\ f[j] = e(j - 1)
          BY <1>1, <1>9, <1>10, <4>2
        <5> QED  BY <5>1
      <4>3. CASE i > k
        <5>1. i - 1 \in 1..(n - 1) /\ j - 1 \in 1..(n - 1) /\ i - 1 < j - 1
              /\ f[i] = e(i - 1) /\ f[j] = e(j - 1)
          BY <1>1, <1>9, <1>10, <1>12, <4>3
        <5> QED  BY <5>1
      <4> QED  BY <1>1, <1>9, <1>12, <2>3, <4>1, <4>2, <4>3
    <3>2. e(a) \in 1..n \ {d} /\ e(b) \in 1..n \ {d} /\ e(a) < e(b)
      BY <1>4, <1>5, <3>1
    <3>3. C(e(a), e(b)) <= 0 /\ C(e(a), e(b)) \in Int  BY <1>2, <1>3, <3>2
    <3> QED  BY <3>1, <3>2, <3>3
  <2> QED  BY <2>1, <2>2, <2>3
<1>13. IsInjective(f)
  <2>1. \A i, j \in 1..n : f[i] = f[j] => i = j
    <3> SUFFICES ASSUME NEW i \in 1..n, NEW j \in 1..n, f[i] = f[j], i # j
                 PROVE  FALSE
      OBVIOUS
    <3>1. i < j \/ j < i  BY <1>1
    <3> QED  BY <1>12, <3>1
  <2>2. DOMAIN f = 1..n  BY <1>11
  <2> QED  BY <2>1, <2>2 DEF IsInjective
<1>14. Sorts(f, q.heap, s)
  <2>1. \A i, j \in 1..n : i < j =>
          C(f[i], f[j]) < 0 \/ (C(f[i], f[j]) = 0 /\ f[i] < f[j])
    BY <1>12
  <2> QED  BY <1>11, <1>13, <2>1, Zenon DEF Sorts, n, C
<1> QED  BY <1>14, SortedBySome


---------------------------------------------------------------------------
(* The places of a new notification                                        *)

LEMMA EnqueueKeepsOrder ==
  ASSUME Comparable, NEW q, Good(q), NEW p, Adrift(q, p)
  PROVE  KeepsOrder(Enqueue(q, p), q)
<1> DEFINE w == InsertSorted(q, q.waiting, p)
           r == Enqueue(q, p)
<1>1. q \in Store /\ p \in Ptr /\ q.heap[p] \in Note
  BY GoodFacts, AdriftFacts
<1>2. r.displayed = q.displayed /\ r.waiting = w /\ r.heap = q.heap
  BY <1>1 DEF Enqueue, Store
<1>3. /\ q.waiting \in Seq(Ptr)
      /\ \A o \in ToSet(q.waiting) : q.heap[o] \in Note
  BY OpenAreQueued, GoodFacts
<1>4. InOrder(q.heap, q.waiting) => InOrder(q.heap, w)
  BY <1>1, <1>3, OrderInserted
<1> HIDE DEF w, r
<1> QED  BY <1>2, <1>4 DEF KeepsOrder, w, r

LEMMA NoTagFound ==
  ASSUME NoneReplaced, NEW q, NEW p, q.heap[p] \in Note, NEW s
  PROVE  FirstWithTag(q, s, p) = 0
<1> DEFINE I == { i \in 1..Len(s) : SameTag(q.heap[s[i]], q.heap[p]) }
<1>1. FirstWithTag(q, s, p) = IF I # {} THEN Min(I) ELSE 0
  BY Zenon DEF FirstWithTag, SelectInSeq
<1>2. q.heap[p].kind.tag = NoTag  BY DEF NoneReplaced, Note
<1>3. I = {}  BY <1>2 DEF SameTag
<1> QED  BY <1>1, <1>3

LEMMA UnstackedKeepsOrder ==
  ASSUME Comparable, NoneReplaced, ~StackDuplicates,
         NEW q, Good(q), NEW p, Adrift(q, p)
  PROVE  KeepsOrder(StackOrEnqueue(q, p), q)
<1>1. q.heap[p] \in Note  BY AdriftFacts
<1>2. FirstWithTag(q, q.displayed, p) = 0 /\ FirstWithTag(q, q.waiting, p) = 0
  BY <1>1, NoTagFound
<1>3. StackOrEnqueue(q, p) = Enqueue(q, p)  BY <1>2 DEF StackOrEnqueue
<1> QED  BY <1>3, EnqueueKeepsOrder

(* p takes the place d of displayed, or one in waiting if d = 0. *)
TakesPlace(r, q, d, p) ==
  /\ Good(r)
  /\ d # 0 => /\ d \in 1..Len(q.displayed)
              /\ r.displayed = [q.displayed EXCEPT ![d] = p]
              /\ \A o \in Ptr \ {q.displayed[d]} : r.heap[o] = q.heap[o]
  /\ d = 0 => /\ r.displayed = q.displayed
              /\ \A o \in ToSet(q.displayed) : r.heap[o] = q.heap[o]

LEMMA TakeOverEffect ==
  ASSUME NEW q, Good(q), NEW p, Adrift(q, p), NEW tell \in BOOLEAN,
         NEW d, PlaceIn(d, q.displayed), NEW w, PlaceIn(w, q.waiting),
         d # 0 \/ w # 0
  PROVE  TakesPlace(TakeOver(q, d, w, p, tell), q, d, p)
<1> DEFINE r == TakeOver(q, d, w, p, tell)
<1>0. /\ q \in Store /\ q.displayed \in Seq(Ptr) /\ q.waiting \in Seq(Ptr)
      /\ IsInjective(q.displayed) /\ IsInjective(q.waiting)
      /\ ToSet(q.displayed) \cap ToSet(q.waiting) = {}
      /\ \A o \in Queued(q) : o \in Ptr /\ q.heap[o] \in Note
      /\ p \in Ptr /\ p \notin ToSet(q.displayed) /\ p \notin ToSet(q.waiting)
  BY GoodFacts, AdriftFacts
<1>1. Good(r)  BY TakeOverKeeps
<1>2. CASE d # 0
  <2> DEFINE s   == [q.displayed EXCEPT ![d] = p]
             q1  == [q EXCEPT !.displayed = s]
             old == q.displayed[d]
  <2>1. d \in 1..Len(q.displayed)
    BY <1>0, <1>2, LenProperties DEF PlaceIn
  <2>2. old \in ToSet(q.displayed) /\ s \in Seq(Ptr)
    BY <1>0, <2>1, Elements, Replaced
  <2>3. old \in Ptr /\ q.heap[old] \in Note  BY <1>0, <2>2 DEF Queued
  <2>4. r = Supersede(q1, old, tell)  BY <1>0, <1>2 DEF TakeOver, Store
  <2> HIDE DEF s, old
  <2>5. q1 \in Store /\ q1.displayed = s /\ q1.heap = q.heap
    BY <1>0, <2>2 DEF Store
  <2> HIDE DEF q1, r
  <2>6. /\ SameQueues(r, q1)
        /\ \A o \in Ptr \ {old} : r.heap[o] = q1.heap[o]
    <3>1. q1 \in Store /\ old \in Ptr /\ q1.heap[old] \in Note
      BY <2>3, <2>5
    <3>2. /\ SameQueues(Supersede(q1, old, tell), q1)
          /\ \A o \in Ptr \ {old} : Supersede(q1, old, tell).heap[o] = q1.heap[o]
      BY <3>1, SupersedeEffect
    <3> QED  BY <2>4, <3>2
  <2>7. /\ r.displayed = s
        /\ \A o \in Ptr \ {old} : r.heap[o] = q.heap[o]
    BY <2>5, <2>6 DEF SameQueues
  <2> QED  BY <1>1, <1>2, <2>1, <2>7 DEF TakesPlace, r, s, old
<1>3. CASE d = 0
  <2> DEFINE s   == [q.waiting EXCEPT ![w] = p]
             q1  == [q EXCEPT !.waiting = s]
             old == q.waiting[w]
  <2>1. w \in 1..Len(q.waiting)
    BY <1>0, <1>3, LenProperties DEF PlaceIn
  <2>2. old \in ToSet(q.waiting) /\ s \in Seq(Ptr)
    BY <1>0, <2>1, Elements, Replaced
  <2>3. old \in Ptr /\ q.heap[old] \in Note  BY <1>0, <2>2 DEF Queued
  <2>4. r = Supersede(q1, old, tell)  BY <1>0, <1>3 DEF TakeOver, Store
  <2> HIDE DEF s, old
  <2>5. q1 \in Store /\ q1.displayed = q.displayed /\ q1.heap = q.heap
    BY <1>0, <2>2 DEF Store
  <2> HIDE DEF q1, r
  <2>6. /\ SameQueues(r, q1)
        /\ \A o \in Ptr \ {old} : r.heap[o] = q1.heap[o]
    <3>1. q1 \in Store /\ old \in Ptr /\ q1.heap[old] \in Note
      BY <2>3, <2>5
    <3>2. /\ SameQueues(Supersede(q1, old, tell), q1)
          /\ \A o \in Ptr \ {old} : Supersede(q1, old, tell).heap[o] = q1.heap[o]
      BY <3>1, SupersedeEffect
    <3> QED  BY <2>4, <3>2
  <2>7. old \notin ToSet(q.displayed) /\ ToSet(q.displayed) \subseteq Ptr
    BY <1>0, <2>2 DEF Queued
  <2>8. /\ r.displayed = q.displayed
        /\ \A o \in ToSet(q.displayed) : r.heap[o] = q.heap[o]
    BY <2>5, <2>6, <2>7 DEF SameQueues
  <2> QED  BY <1>1, <1>3, <2>8 DEF TakesPlace, r
<1> QED  BY <1>2, <1>3

LEMMA StackedDisplayedInOrder ==
  ASSUME Comparable, NoneReplaced, StackDuplicates => Sort = "update",
         NEW q, Good(q), NEW p, Adrift(q, p), InOrder(q.heap, q.displayed)
  PROVE  InOrder(StackOrEnqueue(q, p).heap, StackOrEnqueue(q, p).displayed)
<1> DEFINE dd == FirstDuplicate(q, q.displayed, p)
           dw == FirstDuplicate(q, q.waiting, p)
           stacked == TakeOver(q, dd, dw, p, TRUE)
           sorted == Sorted(stacked, stacked.displayed)
           r == StackOrEnqueue(q, p)
<1>1. q.displayed \in Seq(Ptr) /\ q.waiting \in Seq(Ptr)  BY GoodFacts
<1>2. PlaceIn(dd, q.displayed) /\ PlaceIn(dw, q.waiting)
  BY <1>1, FirstDuplicatePlace
<1>3. q.heap[p] \in Note /\ p \in Ptr  BY AdriftFacts
<1>4. FirstWithTag(q, q.displayed, p) = 0 /\ FirstWithTag(q, q.waiting, p) = 0
  BY <1>3, NoTagFound
<1>5. \/ r = Enqueue(q, p)
      \/ /\ dd # 0 \/ dw # 0
         /\ r = [stacked EXCEPT !.displayed = sorted]
  BY <1>4 DEF StackOrEnqueue
<1> HIDE DEF dd, dw, r
<1>6. CASE r = Enqueue(q, p)
  BY <1>6, EnqueueKeepsOrder DEF KeepsOrder, r
<1>7. CASE (dd # 0 \/ dw # 0) /\ r = [stacked EXCEPT !.displayed = sorted]
  <2>1. \E tell \in BOOLEAN : tell /\ stacked = TakeOver(q, dd, dw, p, tell)
    BY TakeOverTells, Zenon
  <2> HIDE DEF stacked
  <2>2. PICK tell \in BOOLEAN : stacked = TakeOver(q, dd, dw, p, tell)
    BY <2>1
  <2>3. dd # 0 \/ dw # 0  BY <1>7
  <2>4. /\ Good(stacked)
        /\ dd # 0 => /\ dd \in 1..Len(q.displayed)
                     /\ stacked.displayed = [q.displayed EXCEPT ![dd] = p]
                     /\ \A o \in Ptr \ {q.displayed[dd]} :
                          stacked.heap[o] = q.heap[o]
        /\ dd = 0 => /\ stacked.displayed = q.displayed
                     /\ \A o \in ToSet(q.displayed) :
                          stacked.heap[o] = q.heap[o]
    <3>1. PlaceIn(dd, q.displayed)  BY <1>2
    <3>2. PlaceIn(dw, q.waiting)  BY <1>2
    <3>3. TakesPlace(TakeOver(q, dd, dw, p, tell), q, dd, p)
      BY <2>3, <3>1, <3>2, TakeOverEffect
    <3> QED  BY <2>2, <3>3 DEF TakesPlace
  <2> DEFINE s == stacked.displayed
             n == Len(q.displayed)
  <2>5. /\ stacked \in Store /\ s \in Seq(Ptr)
        /\ \A o \in ToSet(s) : stacked.heap[o] \in Note
    BY <2>4, GoodFacts, OpenAreQueued
  <2>6. r.displayed = Sorted(stacked, s) /\ r.heap = stacked.heap
    BY <1>7, <2>5 DEF Store
  <2>7. \A i, j \in 1..n : i < j =>
          Cmp(q.heap[q.displayed[i]], q.heap[q.displayed[j]]) <= 0
    BY DEF InOrder
  <2>8. CASE dd # 0
    <3>1. dd \in 1..n /\ s = [q.displayed EXCEPT ![dd] = p]  BY <2>4, <2>8
    <3>2. /\ Len(s) = n
          /\ \A i \in 1..n \ {dd} : s[i] = q.displayed[i]
      BY <1>1, <1>3, <3>1, ExceptSeq
    <3>3. \A i \in 1..n \ {dd} : stacked.heap[s[i]] = q.heap[q.displayed[i]]
      <4>1. IsInjective(q.displayed)  BY GoodFacts
      <4>2. \A i \in 1..n \ {dd} : /\ q.displayed[i] \in Ptr
                                   /\ q.displayed[i] # q.displayed[dd]
        BY <1>1, <3>1, <4>1, Elements, ElementOfSeq
      <4> QED  BY <2>4, <2>8, <3>2, <4>2
    <3> HIDE DEF s
    <3>4. \A i, j \in 1..n \ {dd} : i < j =>
            Cmp(stacked.heap[s[i]], stacked.heap[s[j]]) <= 0
      <4> SUFFICES ASSUME NEW i \in 1..n \ {dd}, NEW j \in 1..n \ {dd}, i < j
                   PROVE  Cmp(stacked.heap[s[i]], stacked.heap[s[j]]) <= 0
        OBVIOUS
      <4>1. Cmp(q.heap[q.displayed[i]], q.heap[q.displayed[j]]) <= 0  BY <2>7
      <4> QED  BY <3>3, <4>1
    <3>5. InOrder(stacked.heap, Sorted(stacked, s))
      <4>1. dd \in 1..Len(s)  BY <3>1, <3>2
      <4>2. \A i, j \in 1..Len(s) \ {dd} : i < j =>
              Cmp(stacked.heap[s[i]], stacked.heap[s[j]]) <= 0
        BY <3>2, <3>4
      <4> QED  BY <2>5, <4>1, <4>2, SortedAfterOne
    <3> QED  BY <2>6, <3>5 DEF r
  <2>9. CASE dd = 0
    <3>1. s = q.displayed /\ \A o \in ToSet(s) : stacked.heap[o] = q.heap[o]
      BY <2>4, <2>9
    <3> HIDE DEF s
    <3>2. \A i \in 1..Len(s) : stacked.heap[s[i]] = q.heap[s[i]]
      BY <2>5, <3>1, Elements
    <3>3. \A i, j \in 1..Len(s) : i < j =>
            Cmp(stacked.heap[s[i]], stacked.heap[s[j]]) <= 0
      <4> SUFFICES ASSUME NEW i \in 1..Len(s), NEW j \in 1..Len(s), i < j
                   PROVE  Cmp(stacked.heap[s[i]], stacked.heap[s[j]]) <= 0
        OBVIOUS
      <4>1. Cmp(q.heap[s[i]], q.heap[s[j]]) <= 0  BY <2>7, <3>1
      <4> QED  BY <3>2, <4>1
    <3>4. CASE s = <<>>
      <4> DEFINE t == Sorted(stacked, s)
      <4>1. IsInjective(s)  BY <3>1, GoodFacts
      <4>2. t \in Seq(Ptr) /\ ToSet(t) \subseteq ToSet(s)
        BY <2>5, <4>1, SortedProperties
      <4>3. ToSet(s) = {}  BY <3>4, NoElements
      <4> HIDE DEF t
      <4>4. \A i \in 1..Len(t) : FALSE
        <5>1. \A i \in 1..Len(t) : t[i] \in ToSet(t)  BY <4>2, Elements
        <5> QED  BY <4>2, <4>3, <5>1
      <4>5. InOrder(stacked.heap, t)  BY <4>4 DEF InOrder
      <4> QED  BY <2>6, <4>5 DEF t, r
    <3>5. CASE s # <<>>
      <4>1. 1 \in 1..Len(s)  BY <2>5, <3>5, TailNarrowed
      <4>2. InOrder(stacked.heap, Sorted(stacked, s))
        BY <2>5, <3>3, <4>1, SortedAfterOne
      <4> QED  BY <2>6, <4>2 DEF r
    <3> QED  BY <3>4, <3>5
  <2> QED  BY <2>8, <2>9
<1> QED  BY <1>5, <1>6, <1>7


---------------------------------------------------------------------------
(* The order of the queues                                                 *)

(* The queues are as they were, with p still outside of them.              *)
LEMMA NewcomerKeepsOrder ==
  ASSUME Good(store), NEW q, NEW p, NEW id, Newcomer(q, p, id)
  PROVE  KeepsOrder(q, store)
<1>1. SameQueues(q, store)  BY DEF Newcomer
<1>2. \A o \in Queued(store) : q.heap[o] = store.heap[o]  BY NewcomerFacts
<1>3. /\ store.displayed \in Seq(Ptr)
      /\ \A o \in ToSet(store.displayed) : SameKeys(q.heap[o], store.heap[o])
      /\ store.waiting \in Seq(Ptr)
      /\ \A o \in ToSet(store.waiting) : SameKeys(q.heap[o], store.heap[o])
  BY <1>2, OpenAreQueued DEF SameKeys
<1> QED  BY <1>1, <1>3, OrderReadsKeys DEF KeepsOrder, SameQueues

LEMMA StackedThenClosed ==
  ASSUME NEW q, Good(q), NEW p, Adrift(q, p)
  PROVE  LET r == StackOrEnqueue(q, p)
         IN Good(r) /\ KeepsOrder(NotificationClose(r, p, UNDEF), r)
<1> DEFINE r == StackOrEnqueue(q, p)
<1>1. Good(r)  BY StackOrEnqueueKeeps
<1>2. UNDEF \in Reasons  BY DEF Reasons
<1> HIDE DEF r
<1>3. KeepsOrder(NotificationClose(r, p, UNDEF), r)
  BY <1>1, <1>2, CloseIdKeepsOrder DEF NotificationClose
<1> QED  BY <1>1, <1>3 DEF r

LEMMA DisplayedArrives ==
  ASSUME Comparable, NoneReplaced, StackDuplicates => Sort = "update",
         UpdateInv, InOrder(store.heap, store.displayed), Arrives
  PROVE  InOrder(store'.heap, store'.displayed)
<1>1. Good(store) /\ ClientIds = "none"  BY DEF UpdateInv, NoneReplaced
<1>2. CASE SameQueues(store', store) /\ store'.heap = store.heap
  BY <1>2 DEF SameQueues
<1>3. ASSUME NEW p \in Ptr, NEW q \in Store, Newcomer(q, p, 0),
             \/ store' = StackOrEnqueue(q, p)
             \/ store' = NotificationClose(StackOrEnqueue(q, p), p, UNDEF)
      PROVE  InOrder(store'.heap, store'.displayed)
  <2> DEFINE r == StackOrEnqueue(q, p)
  <2>1. Good(q) /\ Adrift(q, p)  BY <1>3 DEF Newcomer
  <2>2. KeepsOrder(q, store)  BY <1>1, <1>3, NewcomerKeepsOrder
  <2>3. InOrder(q.heap, q.displayed)  BY <2>2 DEF KeepsOrder
  <2>4. InOrder(r.heap, r.displayed)  BY <2>1, <2>3, StackedDisplayedInOrder
  <2>5. KeepsOrder(NotificationClose(r, p, UNDEF), r)
    BY <2>1, StackedThenClosed
  <2> HIDE DEF r
  <2>6. store' = r \/ store' = NotificationClose(r, p, UNDEF)  BY <1>3 DEF r
  <2> QED  BY <2>4, <2>5, <2>6 DEF KeepsOrder
<1> QED  BY <1>1, <1>2, <1>3, NewcomerIsStacked

LEMMA WaitingArrives ==
  ASSUME Comparable, NoneReplaced, ~StackDuplicates,
         UpdateInv, InOrder(store.heap, store.waiting), Arrives
  PROVE  InOrder(store'.heap, store'.waiting)
<1>1. Good(store) /\ ClientIds = "none"  BY DEF UpdateInv, NoneReplaced
<1>2. CASE SameQueues(store', store) /\ store'.heap = store.heap
  BY <1>2 DEF SameQueues
<1>3. ASSUME NEW p \in Ptr, NEW q \in Store, Newcomer(q, p, 0),
             \/ store' = StackOrEnqueue(q, p)
             \/ store' = NotificationClose(StackOrEnqueue(q, p), p, UNDEF)
      PROVE  InOrder(store'.heap, store'.waiting)
  <2> DEFINE r == StackOrEnqueue(q, p)
  <2>1. Good(q) /\ Adrift(q, p)  BY <1>3 DEF Newcomer
  <2>2. KeepsOrder(q, store)  BY <1>1, <1>3, NewcomerKeepsOrder
  <2>3. KeepsOrder(r, q)  BY <2>1, UnstackedKeepsOrder
  <2>4. InOrder(r.heap, r.waiting)  BY <2>2, <2>3 DEF KeepsOrder
  <2>5. KeepsOrder(NotificationClose(r, p, UNDEF), r)
    BY <2>1, StackedThenClosed
  <2> HIDE DEF r
  <2>6. store' = r \/ store' = NotificationClose(r, p, UNDEF)  BY <1>3 DEF r
  <2> QED  BY <2>4, <2>5, <2>6 DEF KeepsOrder
<1> QED  BY <1>1, <1>2, <1>3, NewcomerIsStacked

LEMMA DisplayedStep ==
  ASSUME Comparable, NoneReplaced, StackDuplicates => Sort = "update",
         UpdateInv, InOrder(store.heap, store.displayed), Next
  PROVE  InOrder(store'.heap, store'.displayed)
<1> DEFINE S == { q \in Store : Good(q) /\ InOrder(q.heap, q.displayed) }
<1>1. \A q \in S : Good(q)  OBVIOUS
<1>2. \A q \in S : \A r : Good(r) /\ KeepsOrder(r, q) => r \in S
  BY DEF KeepsOrder, Good
<1>3. Quiet \in S
  BY QuietKeeps DEF UpdateInv, Good, SameQueues
<1>4. \A q \in S : InOrder(q.heap, q.displayed)  OBVIOUS
<1> HIDE DEF S
<1>5. Closed(S)  BY <1>1, <1>2, ClosedByOrder
<1>6. Arrives \/ store' \in S  BY <1>3, <1>5, StepStaysIn
<1> QED  BY <1>4, <1>6, DisplayedArrives

LEMMA WaitingStep ==
  ASSUME Comparable, NoneReplaced, ~StackDuplicates,
         UpdateInv, InOrder(store.heap, store.waiting), Next
  PROVE  InOrder(store'.heap, store'.waiting)
<1> DEFINE S == { q \in Store : Good(q) /\ InOrder(q.heap, q.waiting) }
<1>1. \A q \in S : Good(q)  OBVIOUS
<1>2. \A q \in S : \A r : Good(r) /\ KeepsOrder(r, q) => r \in S
  BY DEF KeepsOrder, Good
<1>3. Quiet \in S
  BY QuietKeeps DEF UpdateInv, Good, SameQueues
<1>4. \A q \in S : InOrder(q.heap, q.waiting)  OBVIOUS
<1> HIDE DEF S
<1>5. Closed(S)  BY <1>1, <1>2, ClosedByOrder
<1>6. Arrives \/ store' \in S  BY <1>3, <1>5, StepStaysIn
<1> QED  BY <1>4, <1>6, WaitingArrives

DisplayedInOrder == InOrder(store.heap, store.displayed)

WaitingInOrder == InOrder(store.heap, store.waiting)

LEMMA EmptyInOrder == \A h : InOrder(h, <<>>)
<1>1. Len(<<>>) = 0  BY EmptySeq
<1> QED  BY <1>1 DEF InOrder

LEMMA DisplayedOrderHolds ==
  ASSUME Comparable, NoneReplaced, StackDuplicates => Sort = "update"
  PROVE  Spec => []DisplayedInOrder
<1>1. Init => DisplayedInOrder
  BY EmptyInOrder DEF Init, EmptyStore, DisplayedInOrder
<1>2. IInv /\ DisplayedInOrder /\ [Next]_vars => DisplayedInOrder'
  <2> SUFFICES ASSUME IInv, DisplayedInOrder, [Next]_vars
               PROVE  DisplayedInOrder'
    OBVIOUS
  <2>1. UpdateInv  BY IInvParts
  <2>2. CASE Next  BY <2>1, <2>2, DisplayedStep DEF DisplayedInOrder
  <2>3. CASE UNCHANGED vars  BY <2>3 DEF vars, DisplayedInOrder
  <2> QED  BY <2>2, <2>3
<1> QED  BY <1>1, <1>2, IInvHolds, PTL DEF Spec

LEMMA WaitingOrderHolds ==
  ASSUME Comparable, NoneReplaced, ~StackDuplicates
  PROVE  Spec => []WaitingInOrder
<1>1. Init => WaitingInOrder
  BY EmptyInOrder DEF Init, EmptyStore, WaitingInOrder
<1>2. IInv /\ WaitingInOrder /\ [Next]_vars => WaitingInOrder'
  <2> SUFFICES ASSUME IInv, WaitingInOrder, [Next]_vars
               PROVE  WaitingInOrder'
    OBVIOUS
  <2>1. UpdateInv  BY IInvParts
  <2>2. CASE Next  BY <2>1, <2>2, WaitingStep DEF WaitingInOrder
  <2>3. CASE UNCHANGED vars  BY <2>3 DEF vars, WaitingInOrder
  <2> QED  BY <2>2, <2>3
<1> QED  BY <1>1, <1>2, IInvHolds, PTL DEF Spec

(* Both queues are in the order of notification_cmp at every step, when no *)
(* notification takes the place of another one (replacing by id or tag and *)
(* stacking duplicates keep the place, src/src/queues.c) and the creation  *)
(* times are near enough for their differences to fit into an int.         *)
THEOREM QueuesStaySorted ==
  ASSUME Comparable, NoneReplaced, ~StackDuplicates
  PROVE  Spec => []QueuesSorted
<1>1. IInv /\ DisplayedInOrder /\ WaitingInOrder => QueuesSorted
  <2> SUFFICES ASSUME IInv, DisplayedInOrder, WaitingInOrder
               PROVE  QueuesSorted
    OBVIOUS
  <2>1. store.displayed \in Seq(Ptr) /\ store.waiting \in Seq(Ptr)
    BY IInvParts, GoodFacts DEF UpdateInv
  <2>2. /\ DOMAIN store.displayed = 1..Len(store.displayed)
        /\ DOMAIN store.waiting = 1..Len(store.waiting)
    BY <2>1, LenProperties
  <2> QED  BY <2>2 DEF QueuesSorted, DisplayedInOrder, WaitingInOrder, InOrder,
                       displayed, waiting, heap
<1> QED  BY <1>1, IInvHolds, DisplayedOrderHolds, WaitingOrderHolds, PTL

(* With sort = update the newest displayed notification is on top, also    *)
(* when duplicates are stacked: the new one takes the place of the old, and*)
(* displayed is sorted again.  This needs that g_queue_sort finds an order *)
(* for a queue of which one element is out of place.                       *)
THEOREM NewestStaysOnTop ==
  ASSUME Comparable, NoneReplaced
  PROVE  Spec => []MostRecentOnTop
<1>1. CASE Sort = "update"
  <2>1. IInv /\ DisplayedInOrder => MostRecentOnTop
    <3> SUFFICES ASSUME IInv, DisplayedInOrder, displayed # <<>>,
                        NEW p \in ToSet(displayed)
                 PROVE  LET top == IF OriginBottom THEN Last(displayed)
                                   ELSE displayed[1]
                        IN heap[top].stamp >= heap[p].stamp
      BY DEF MostRecentOnTop
    <3> DEFINE s == store.displayed
               n == Len(s)
    <3>1. /\ s \in Seq(Ptr) /\ s # <<>>
          /\ \A i \in 1..n : store.heap[s[i]] \in Note
      BY IInvParts, OpenAreQueued, GoodFacts DEF UpdateInv, displayed
    <3>2. n \in Nat /\ 1 \in 1..n /\ n \in 1..n /\ Last(s) = s[n]
      BY <3>1, FrontNarrowed, TailNarrowed, LenProperties
    <3>3. PICK i \in 1..n : p = s[i]
      BY <3>1, Elements DEF displayed
    <3>4. \A j \in 1..n : store.heap[s[j]].stamp \in Int
      <4>1. \A m \in Note : m.stamp \in Stamps  BY DEF Note
      <4>2. \A t \in Stamps : t \in Int  BY NotificationAssumption
      <4> QED  BY <3>1, <4>1, <4>2
    <3>5. \A j, l \in 1..n :
            Cmp(store.heap[s[j]], store.heap[s[l]]) =
              IF OriginBottom
              THEN store.heap[s[j]].stamp - store.heap[s[l]].stamp
              ELSE store.heap[s[l]].stamp - store.heap[s[j]].stamp
      <4>1. \A j \in 1..n : store.heap[s[j]].stamp \in Stamps
        BY <3>1 DEF Note
      <4>2. \A j, l \in 1..n :
              AsInt(store.heap[s[j]].stamp - store.heap[s[l]].stamp)
                = store.heap[s[j]].stamp - store.heap[s[l]].stamp
        BY <1>1, <4>1, IntKeepsDifference
      <4> QED  BY <1>1, <4>2 DEF Cmp
    <3>6. \A j, l \in 1..n : j < l => Cmp(store.heap[s[j]], store.heap[s[l]]) <= 0
      BY DEF DisplayedInOrder, InOrder
    <3> HIDE DEF s, n
    <3>7. CASE OriginBottom
      <4>1. CASE i = n  BY <3>2, <3>3, <3>4, <3>7, <4>1 DEF displayed, heap, s
      <4>2. CASE i # n
        <5>1. i < n  BY <3>2, <4>2
        <5>2. store.heap[s[i]].stamp - store.heap[s[n]].stamp <= 0
          BY <3>2, <3>5, <3>6, <3>7, <5>1
        <5>3. store.heap[s[n]].stamp >= store.heap[s[i]].stamp
          BY <3>2, <3>4, <5>2
        <5> QED  BY <3>2, <3>3, <3>7, <5>3 DEF displayed, heap, s
      <4> QED  BY <4>1, <4>2
    <3>8. CASE ~OriginBottom
      <4>1. CASE i = 1  BY <3>2, <3>3, <3>4, <3>8, <4>1 DEF displayed, heap, s
      <4>2. CASE i # 1
        <5>1. 1 < i  BY <3>2, <4>2
        <5>2. store.heap[s[i]].stamp - store.heap[s[1]].stamp <= 0
          BY <3>2, <3>5, <3>6, <3>8, <5>1
        <5>3. store.heap[s[1]].stamp >= store.heap[s[i]].stamp
          BY <3>2, <3>4, <5>2
        <5> QED  BY <3>3, <3>8, <5>3 DEF displayed, heap, s
      <4> QED  BY <4>1, <4>2
    <3> QED  BY <3>7, <3>8
  <2> QED  BY <1>1, <2>1, IInvHolds, DisplayedOrderHolds, PTL
<1>2. CASE Sort # "update"
  <2>1. IInv => MostRecentOnTop  BY <1>2 DEF MostRecentOnTop
  <2> QED  BY <2>1, IInvHolds, PTL
<1> QED  BY <1>1, <1>2

---------------------------------------------------------------------------
(* The border of the two queues                                            *)

(* No two notifications differ in whether they may be shown: no rule sets  *)
(* fullscreen or override_pause_level for some of them only.               *)
EquallyReady ==
  \A a, b \in Kinds :
    /\ a.fullscreen = "show" <=> b.fullscreen = "show"
    /\ a.override_pause_level = b.override_pause_level

(* The swaps go on until the head of waiting does not go before the tail   *)
(* of displayed, or may not be shown.                                      *)
Settled(q) ==
  q.displayed # <<>> /\ q.waiting # <<>> /\ Ready(q, q.waiting[1])
    => Cmp(q.heap[Last(q.displayed)], q.heap[q.waiting[1]]) <= 0

BorderInv == pc = "finish" /\ Sort # "id" => Settled(store)

LEMMA BorderKept ==
  ASSUME Comparable, IInv, WorkInv', BorderInv, [Next]_vars
  PROVE  BorderInv'
<1>0. Good(store)  BY IInvParts DEF UpdateInv
<1>1. CASE UNCHANGED vars
  BY <1>1 DEF vars, control, BorderInv, Settled, Ready
<1>2. CASE Next /\ pc' = "finish" /\ Sort # "id"
  <2>1. UpdateStep /\ UNCHANGED status  BY <1>2, LoopSteps DEF Loops
  <2>2. TrimDone \/ SeepDone  BY <1>2, <2>1, FinishMoves
  <2>3. store' = Quiet /\ limit' = limit  BY <2>2 DEF TrimDone, SeepDone
  <2>4. /\ store'.displayed = store.displayed /\ store'.waiting = store.waiting
        /\ store'.heap = store.heap
    BY <1>0, <2>3, QuietKeeps DEF SameQueues
  <2>5. Settled(store) => Settled(store)'
    BY <2>1, <2>4 DEF Settled, Ready
  <2>6. CASE SeepDone
    <3>1. /\ store.heap \in [Ptr -> Note \cup {Freed}]
          /\ store.displayed # <<>> => store.heap[Last(store.displayed)] \in Note
          /\ store.waiting # <<>> => store.heap[store.waiting[1]] \in Note
      BY <1>0, GoodFacts, BorderIsQueued
    <3>2. ~Seeps  BY <2>6 DEF SeepDone
    <3>3. Settled(store)
      <4> SUFFICES ASSUME store.displayed # <<>>, store.waiting # <<>>,
                          Ready(store, store.waiting[1])
                   PROVE  Cmp(store.heap[Last(store.displayed)],
                              store.heap[store.waiting[1]]) <= 0
        BY DEF Settled
      <4> DEFINE c == Cmp(store.heap[Last(store.displayed)],
                          store.heap[store.waiting[1]])
      <4>1. c \in Int  BY <3>1, CmpIsPreorder
      <4>2. ~(c > 0)
        BY <3>2 DEF Seeps, Ready, displayed, waiting, heap
      <4> HIDE DEF c
      <4>3. c <= 0  BY <4>1, <4>2
      <4> QED  BY <4>3 DEF c
    <3> QED  BY <2>5, <3>3 DEF BorderInv
  <2>7. CASE TrimDone
    <3>1. ~(limit # 0 /\ Len(store.displayed) = limit)
      BY <1>2, <2>7 DEF TrimDone, displayed
    <3>2. NoneReady(store)'
      BY <1>2, <2>3, <2>4, <3>1 DEF WorkInv
    <3>3. store.waiting # <<>> => store.waiting[1] \in ToSet(store.waiting)
      BY <1>0, OpenAreQueued, TailNarrowed, Elements
    <3>4. store'.waiting # <<>> => ~Ready(store, store.waiting[1])'
      BY <2>4, <3>2, <3>3 DEF NoneReady
    <3> QED  BY <2>4, <3>4 DEF BorderInv, Settled
  <2> QED  BY <2>2, <2>6, <2>7
<1>3. CASE pc' # "finish" \/ Sort = "id"
  BY <1>3 DEF BorderInv
<1> QED  BY <1>1, <1>2, <1>3

LEMMA BorderHolds ==
  ASSUME Comparable, ClientIds # "any"
  PROVE  Spec => []BorderInv
<1>1. Init => BorderInv
  BY DEF Init, BorderInv
<1>2. IInv /\ WorkInv' /\ BorderInv /\ [Next]_vars => BorderInv'
  BY BorderKept
<1> QED  BY <1>1, <1>2, IInvHolds, WorkHolds, PTL DEF Spec

(* When both queues are in order and the border is settled, no             *)
(* notification that may be shown waits behind one that it goes before.    *)
LEMMA SettledShowsFirst ==
  ASSUME Comparable, EquallyReady, NEW q, Good(q), Settled(q),
         InOrder(q.heap, q.displayed), InOrder(q.heap, q.waiting),
         NEW p \in ToSet(q.displayed), NEW r \in ToSet(q.waiting), Ready(q, r)
  PROVE  Cmp(q.heap[p], q.heap[r]) <= 0
<1> DEFINE s == q.displayed
           t == q.waiting
           a == q.heap[p]
           b == q.heap[Last(s)]
           c == q.heap[t[1]]
           d == q.heap[r]
           n == Len(s)
           m == Len(t)
<1>1. s \in Seq(Ptr) /\ t \in Seq(Ptr)  BY OpenAreQueued
<1>2. PICK i \in 1..n : s[i] = p  BY <1>1, Elements
<1>3. PICK j \in 1..m : t[j] = r  BY <1>1, Elements
<1>4. n \in Nat /\ m \in Nat  BY <1>1, LenProperties
<1>5. s # <<>> /\ t # <<>>
  <2>1. n # 0 /\ m # 0  BY <1>2, <1>3, <1>4
  <2> QED  BY <1>1, <2>1, EmptySeq
<1>6. /\ n \in 1..n /\ Last(s) = s[n]
      /\ 1 \in 1..m
  BY <1>1, <1>5, FrontNarrowed, TailNarrowed
<1>7. a \in Note /\ b \in Note /\ c \in Note /\ d \in Note
  BY <1>2, <1>3, <1>6, OpenAreQueued, GoodFacts
<1>8. Cmp(a, a) <= 0 /\ Cmp(c, c) <= 0
  <2>1. \A x \in Note : Cmp(x, x) \in Int /\ Cmp(x, x) = -Cmp(x, x)
    BY CmpIsPreorder
  <2>2. \A x \in Int : x = -x => x <= 0  OBVIOUS
  <2> QED  BY <1>7, <2>1, <2>2
<1>9. Cmp(a, b) <= 0
  <2>1. CASE i = n  BY <1>2, <1>6, <1>8, <2>1
  <2>2. CASE i # n
    <3>1. i < n  BY <1>2, <1>4, <2>2
    <3> QED  BY <1>2, <1>6, <3>1 DEF InOrder
  <2> QED  BY <2>1, <2>2
<1>10. Cmp(c, d) <= 0
  <2>1. CASE j = 1  BY <1>3, <1>8, <2>1
  <2>2. CASE j # 1
    <3>1. 1 < j  BY <1>3, <1>4, <2>2
    <3> QED  BY <1>3, <1>6, <3>1 DEF InOrder
  <2> QED  BY <2>1, <2>2
<1>11. Ready(q, t[1])
  <2>1. c.kind \in Kinds /\ d.kind \in Kinds  BY <1>7 DEF Note
  <2>2. IsReady(d, status, FALSE)  BY DEF Ready
  <2>3. IsReady(c, status, FALSE)
    <3> HIDE DEF c, d
    <3> QED  BY <2>1, <2>2 DEF IsReady, EquallyReady
  <2> QED  BY <2>3 DEF Ready
<1>12. Cmp(b, c) <= 0  BY <1>5, <1>11 DEF Settled
<1> HIDE DEF a, b, c, d
<1>13. Cmp(a, c) <= 0  BY <1>7, <1>9, <1>12, CmpIsPreorder
<1>14. Cmp(a, d) <= 0  BY <1>7, <1>10, <1>13, CmpIsPreorder
<1> QED  BY <1>14 DEF a, d

(* With sorting, no notification waits that goes before a displayed one    *)
(* and may be shown.  The loop that swaps looks at the head of waiting     *)
(* only (i_waiting->prev of a head is NULL), so this needs that the head   *)
(* may be shown when any other may: otherwise a head that is paused or     *)
(* delayed holds back the more important ones behind it.                   *)
THEOREM ShownGoFirst ==
  ASSUME Comparable, NoneReplaced, ~StackDuplicates, EquallyReady
  PROVE  Spec => []ShownAreMostImportant
<1>0. ClientIds # "any"  BY DEF NoneReplaced
<1>1. Init => ShownAreMostImportant
  <2> SUFFICES ASSUME Init  PROVE ShownAreMostImportant  OBVIOUS
  <2>1. store.waiting = <<>>  BY DEF Init, EmptyStore
  <2>2. ToSet(store.waiting) = {}
    <3>1. ToSet(<<>>) = {}  BY NoElements
    <3> QED  BY <2>1, <3>1
  <2> QED  BY <2>2 DEF ShownAreMostImportant, waiting
<1>2. IInv /\ BorderInv /\ DisplayedInOrder /\ WaitingInOrder
        /\ ShownAreMostImportant /\ [Next]_vars
        => ShownAreMostImportant'
  <2> SUFFICES ASSUME IInv, BorderInv, DisplayedInOrder, WaitingInOrder,
                      ShownAreMostImportant, [Next]_vars,
                      pc' = "idle", Sort # "id",
                      NEW p \in ToSet(store'.displayed),
                      NEW r \in ToSet(store'.waiting), Ready(store, r)'
               PROVE  Cmp(store'.heap[p], store'.heap[r]) <= 0
    BY DEF ShownAreMostImportant, AtRest, Ready, displayed, waiting, heap
  <2>1. Good(store)  BY IInvParts DEF UpdateInv
  <2>2. CASE Finish
    <3>1. /\ SameQueues(store', store) /\ store'.heap = store.heap
          /\ pc = "finish" /\ status' = status
      BY <2>1, <2>2, FinishEffect DEF Finish
    <3>2. /\ p \in ToSet(store.displayed) /\ r \in ToSet(store.waiting)
          /\ Ready(store, r)
      BY <3>1 DEF SameQueues, Ready
    <3>3. Settled(store)  BY <3>1 DEF BorderInv
    <3>4. InOrder(store.heap, store.displayed) /\ InOrder(store.heap, store.waiting)
      BY DEF DisplayedInOrder, WaitingInOrder
    <3> QED  BY <2>1, <3>1, <3>2, <3>3, <3>4, SettledShowsFirst
  <2>3. CASE TimePasses /\ pc = "idle"
    <3>1. /\ SameQueues(store', store) /\ status' = status
          /\ \A o \in Queued(store) : Alike(store'.heap[o], store.heap[o])
      BY <2>1, <2>3, TimePassesEffect
    <3>2. /\ p \in ToSet(store.displayed) /\ p \in Queued(store)
          /\ r \in ToSet(store.waiting) /\ r \in Queued(store)
      BY <3>1 DEF SameQueues, Queued
    <3>3. /\ SameKeys(store'.heap[p], store.heap[p])
          /\ SameKeys(store'.heap[r], store.heap[r])
      BY <3>1, <3>2 DEF Alike, SameKeys
    <3>4. IsReady(store'.heap[r], status, FALSE)  BY <3>1 DEF Ready
    <3>5. IsReady(store.heap[r], status, FALSE)
      BY <3>3, <3>4 DEF IsReady, SameKeys
    <3>6. Cmp(store.heap[p], store.heap[r]) <= 0
      BY <2>3, <3>2, <3>5
        DEF ShownAreMostImportant, AtRest, displayed, waiting, heap
    <3>7. Cmp(store'.heap[p], store'.heap[r]) = Cmp(store.heap[p], store.heap[r])
      BY <3>3, CmpReadsKeys
    <3> QED  BY <3>6, <3>7
  <2>4. CASE UNCHANGED vars
    BY <2>4 DEF vars, control, ShownAreMostImportant, AtRest, Ready,
         displayed, waiting, heap
  <2> QED  BY <2>2, <2>3, <2>4, RestingSteps
<1> QED  BY <1>0, <1>1, <1>2, IInvHolds, BorderHolds, DisplayedOrderHolds,
            WaitingOrderHolds, PTL DEF Spec

---------------------------------------------------------------------------
(* Marks                                                                   *)

Marked(n) == n.closing # NotMarked \/ n.removing # NotMarked

Clean(q) == \A p \in Queued(q) : ~Marked(q.heap[p])

(* What r queues was queued in q, and has no new mark; what was shown once *)
(* stays shown once.                                                       *)
Calm(r, q) ==
  \A p \in Queued(r) :
    /\ p \in Queued(q)
    /\ r.heap[p].kind = q.heap[p].kind
    /\ Calmed(r.heap[p], q.heap[p])
    /\ q.heap[p].redisplayed => r.heap[p].redisplayed

LEMMA CalmTransitive ==
  ASSUME NEW a, NEW b, NEW c, Calm(a, b), Calm(b, c)
  PROVE  Calm(a, c)
<1> SUFFICES ASSUME NEW p \in Queued(a)
             PROVE  /\ p \in Queued(c)
                    /\ a.heap[p].kind = c.heap[p].kind
                    /\ Calmed(a.heap[p], c.heap[p])
                    /\ c.heap[p].redisplayed => a.heap[p].redisplayed
  BY DEF Calm
<1>1. /\ p \in Queued(b)
      /\ a.heap[p].kind = b.heap[p].kind
      /\ Calmed(a.heap[p], b.heap[p])
      /\ b.heap[p].redisplayed => a.heap[p].redisplayed
  BY DEF Calm
<1>2. /\ p \in Queued(c)
      /\ b.heap[p].kind = c.heap[p].kind
      /\ Calmed(b.heap[p], c.heap[p])
      /\ c.heap[p].redisplayed => b.heap[p].redisplayed
  BY <1>1 DEF Calm
<1>3. Calmed(a.heap[p], c.heap[p])  BY <1>1, <1>2 DEF Calmed
<1> QED  BY <1>1, <1>2, <1>3

LEMMA CalmSame ==
  ASSUME NEW r, NEW q, Queued(r) \subseteq Queued(q),
         \A p \in Queued(r) : r.heap[p] = q.heap[p]
  PROVE  Calm(r, q)
BY DEF Calm, Calmed

(* one notification of q is another one in r *)
LEMMA CalmCell ==
  ASSUME NEW r, NEW q, Queued(r) \subseteq Queued(q), NEW p,
         \A o \in Queued(r) \ {p} : r.heap[o] = q.heap[o],
         r.heap[p].kind = q.heap[p].kind, Calmed(r.heap[p], q.heap[p]),
         q.heap[p].redisplayed => r.heap[p].redisplayed
  PROVE  Calm(r, q)
BY DEF Calm, Calmed

LEMMA CleanKept ==
  ASSUME NEW q, Clean(q), NEW r, Calm(r, q)
  PROVE  Clean(r)
BY DEF Clean, Calm, Calmed, Marked

LEMMA CloseIdOpen ==
  ASSUME NEW q, Good(q), NEW id, NEW reason \in Reasons
  PROVE  /\ ToSet(CloseId(q, id, reason).displayed) \subseteq ToSet(q.displayed)
         /\ ToSet(CloseId(q, id, reason).waiting) \subseteq ToSet(q.waiting)
<1> DEFINE d == FirstWithId(q, q.displayed, id)
           w == FirstWithId(q, q.waiting, id)
           r == CloseId(q, id, reason)
           s == q.displayed
           u == q.waiting
<1>0. /\ s \in Seq(Ptr) /\ IsInjective(s)
      /\ u \in Seq(Ptr) /\ IsInjective(u)
  BY GoodFacts
<1>1. \/ r = q
      \/ /\ r.displayed = Without(s, d)
         /\ r.waiting = Without(u, w)
  BY CloseIdEffect
<1>2. PlaceIn(d, s) /\ PlaceIn(w, u)
  BY <1>0, FirstWithIdPlace
<1> HIDE DEF d, w, r, s, u
<1>3. /\ ToSet(Without(s, d)) \subseteq ToSet(s)
      /\ ToSet(Without(u, w)) \subseteq ToSet(u)
  BY <1>0, <1>2, WithoutProperties
<1> QED  BY <1>1, <1>3 DEF r, s, u

LEMMA CloseIdCalm ==
  ASSUME NEW q, Good(q), NEW id, NEW reason \in Reasons
  PROVE  Calm(CloseId(q, id, reason), q)
<1> DEFINE d == FirstWithId(q, q.displayed, id)
           w == FirstWithId(q, q.waiting, id)
           t == IF w # 0 THEN q.waiting[w] ELSE q.displayed[d]
           n == AfterClose(q.heap[t])
           r == CloseId(q, id, reason)
<1>0. /\ ToSet(q.displayed) \cap ToSet(q.history) = {}
      /\ ToSet(q.waiting) \cap ToSet(q.history) = {}
      /\ \A p \in Queued(q) : p \in Ptr /\ q.heap[p] \in Note
  BY GoodFacts
<1>1. CASE r = q
  <2>1. Calm(q, q)  BY CalmSame
  <2> QED  BY <1>1, <2>1
<1>2. CASE r # q
  <2>1. Closes(r, q, t, reason)  BY <1>2, CloseIdEffect
  <2>2. Kept(r, q)  BY CloseIdOrderly DEF Orderly
  <2>3. Pushed(r, q, t, n)  BY <2>1 DEF Closes
  <2> HIDE DEF r, d, w
  <2>4. /\ t \in ToSet(q.displayed) \cup ToSet(q.waiting)
        /\ t \notin ToSet(r.displayed) \cup ToSet(r.waiting)
    BY <2>1 DEF Closes
  <2> HIDE DEF t
  <2>5. /\ t \in Ptr /\ q.heap[t] \in Note /\ t \notin ToSet(q.history)
    BY <1>0, <2>4 DEF Queued
  <2>6. /\ n \in Note /\ n.kind = q.heap[t].kind /\ Calmed(n, q.heap[t])
        /\ n.redisplayed = q.heap[t].redisplayed
    BY <2>5 DEF AfterClose, Note, Calmed
  <2> HIDE DEF n
  <2>7. /\ ToSet(r.history) \subseteq ToSet(q.history) \cup {t}
        /\ r.heap[t] = IF t \in ToSet(r.history) THEN n ELSE Dropped(n)
        /\ \A p \in Ptr \ {t} :
             r.heap[p] = IF p \in ToSet(q.history) \ ToSet(r.history)
                         THEN Dropped(q.heap[p]) ELSE q.heap[p]
    BY <2>3, <2>5, <2>6, PushedFacts
  <2>8. Queued(r) \subseteq Queued(q)  BY <2>2 DEF Kept
  <2>9. ASSUME NEW p \in Queued(r), p # t
        PROVE  r.heap[p] = q.heap[p]
    <3>1. p \in Ptr /\ p \in Queued(q)  BY <1>0, <2>8
    <3>2. p \in ToSet(q.history) => p \in ToSet(r.history)
      <4>1. CASE p \in ToSet(r.history)  BY <4>1
      <4>2. CASE p \notin ToSet(r.history)
        <5>1. p \in OpenIn(r)  BY <4>2 DEF Queued, OpenIn
        <5>2. OpenIn(r) \subseteq OpenIn(q)
          BY CloseIdOpen DEF r, OpenIn
        <5> QED  BY <1>0, <5>1, <5>2 DEF OpenIn
      <4> QED  BY <4>1, <4>2
    <3> QED  BY <2>7, <2>9, <3>1, <3>2
  <2>10. t \in Queued(r) => r.heap[t] = n
    BY <2>4, <2>7 DEF Queued
  <2>11. ASSUME t \in Queued(r)  PROVE Calm(r, q)
    BY <2>6, <2>8, <2>9, <2>10, <2>11, CalmCell
  <2>12. ASSUME t \notin Queued(r)  PROVE Calm(r, q)
    <3>1. \A p \in Queued(r) : r.heap[p] = q.heap[p]  BY <2>9, <2>12
    <3> QED  BY <2>8, <3>1, CalmSame
  <2> QED  BY <2>11, <2>12 DEF r
<1> QED  BY <1>1, <1>2

LEMMA HistoryRemoveCalm ==
  ASSUME NEW q, Good(q), NEW id
  PROVE  Calm(HistoryRemoveById(q, id), q)
<1> DEFINE at == FirstWithId(q, q.history, id)
           p  == q.history[at]
           r  == HistoryRemoveById(q, id)
           h  == RemoveAt(q.history, at)
<1>0. /\ q \in Store /\ q.history \in Seq(Ptr) /\ IsInjective(q.history)
      /\ ToSet(q.displayed) \cap ToSet(q.history) = {}
      /\ ToSet(q.waiting) \cap ToSet(q.history) = {}
      /\ Queued(q) \subseteq Ptr
  BY GoodFacts
<1>1. CASE at = 0
  <2>1. r = q  BY <1>1 DEF HistoryRemoveById
  <2> QED  BY <2>1, CalmSame
<1>2. CASE at # 0
  <2>1. at \in 1..Len(q.history) /\ p \in ToSet(q.history)
    BY <1>0, <1>2, FoundHasId
  <2>2. r = [Unref(q, p) EXCEPT !.history = RemoveAt(Unref(q, p).history, at)]
    BY <1>2 DEF HistoryRemoveById
  <2> HIDE DEF at, p
  <2>3. p \in Ptr  BY <1>0, <2>1, Elements
  <2>4. /\ r.displayed = q.displayed /\ r.waiting = q.waiting /\ r.history = h
        /\ r.heap = [q.heap EXCEPT ![p] = Dropped(q.heap[p])]
    BY <1>0, <2>2, <2>3 DEF Unref, Dropped, Store
  <2> HIDE DEF r, h
  <2>5. ToSet(h) = ToSet(q.history) \ {p}
    BY <1>0, <2>1, Removed DEF h, p
  <2>6. Queued(r) = Queued(q) \ {p}
    BY <1>0, <2>1, <2>4, <2>5 DEF Queued
  <2>7. \A o \in Queued(r) : r.heap[o] = q.heap[o]
    BY <1>0, <2>4, <2>6 DEF Store
  <2> QED  BY <2>6, <2>7, CalmSame DEF r
<1> QED  BY <1>1, <1>2

LEMMA HistoryClearCalm ==
  ASSUME NEW q, Good(q)
  PROVE  Calm(HistoryClear(q), q)
<1> DEFINE r == HistoryClear(q)
<1>0. /\ q \in Store
      /\ ToSet(q.displayed) \cap ToSet(q.history) = {}
      /\ ToSet(q.waiting) \cap ToSet(q.history) = {}
      /\ Queued(q) \subseteq Ptr
  BY GoodFacts
<1>1. /\ r.displayed = q.displayed /\ r.waiting = q.waiting
      /\ r.history = <<>>
      /\ r.heap = [p \in Ptr |-> IF p \in ToSet(q.history)
                                 THEN Unref(q, p).heap[p] ELSE q.heap[p]]
  BY <1>0 DEF HistoryClear, Store
<1> HIDE DEF r
<1>2. ToSet(r.history) = {}  BY <1>1, NoElements
<1>3. Queued(r) = ToSet(q.displayed) \cup ToSet(q.waiting)
  BY <1>1, <1>2 DEF Queued
<1>4. Queued(r) \subseteq Queued(q)  BY <1>3 DEF Queued
<1>5. \A p \in Queued(r) : r.heap[p] = q.heap[p]
  BY <1>0, <1>1, <1>3, <1>4
<1> QED  BY <1>4, <1>5, CalmSame DEF r

LEMMA RedisplayCalm ==
  ASSUME NEW q, Good(q), NEW at \in 1..Len(q.history)
  PROVE  Calm(Redisplay(q, at), q)
<1> DEFINE p  == q.history[at]
           n  == [q.heap[p] EXCEPT !.redisplayed = TRUE,
                                   !.timed = @ /\ ~StickyHistory]
           r  == Redisplay(q, at)
<1>0. /\ q \in Store /\ q.history \in Seq(Ptr) /\ Queued(q) \subseteq Ptr
      /\ Queued(r) \subseteq Queued(q)
  BY GoodFacts, RedisplayOrderly DEF Orderly, Kept
<1>1. p \in ToSet(q.history)  BY <1>0, Elements
<1>2. p \in Ptr /\ p \in Queued(q) /\ q.heap[p] \in Note
  BY <1>1, GoodFacts DEF Queued
<1>3. r.heap = [q.heap EXCEPT ![p] = n]
  BY <1>0, <1>2 DEF Redisplay, Store, Note
<1>4. /\ n.kind = q.heap[p].kind /\ n.redisplayed
      /\ Calmed(n, q.heap[p])
  BY <1>2 DEF Note, Calmed
<1> HIDE DEF p, n, r
<1>5. /\ r.heap[p] = n /\ \A o \in Queued(r) \ {p} : r.heap[o] = q.heap[o]
  BY <1>0, <1>2, <1>3 DEF Store
<1>6. Calm(r, q)  BY <1>0, <1>4, <1>5, CalmCell
<1> QED  BY <1>6 DEF r

LEMMA SignalClosedCalm ==
  ASSUME NEW q, Good(q), NEW p \in Queued(q), NEW reason \in Reasons
  PROVE  Calm(SignalClosed(q, p, reason), q)
<1> DEFINE r == SignalClosed(q, p, reason)
           n == [q.heap[p] EXCEPT !.valid = FALSE]
<1>0. /\ q \in Store /\ p \in Ptr /\ q.heap[p] \in Note
      /\ Queued(q) \subseteq Ptr
  BY GoodFacts
<1>1. CASE ~q.heap[p].valid
  <2>1. r = q  BY <1>1 DEF SignalClosed
  <2> QED  BY <2>1, CalmSame
<1>2. CASE q.heap[p].valid
  <2>1. r = [q EXCEPT !.heap[p].valid = FALSE,
                      !.emitted = q.emitted \cup {<<q.heap[p].id, reason>>}]
    BY <1>2 DEF SignalClosed
  <2>2. SameQueues(r, q) /\ r.heap = [q.heap EXCEPT ![p] = n]
    BY <1>0, <2>1 DEF Store, SameQueues
  <2>3. /\ n.kind = q.heap[p].kind /\ n.redisplayed = q.heap[p].redisplayed
        /\ Calmed(n, q.heap[p])
    BY <1>0 DEF Note, Calmed
  <2> HIDE DEF r, n
  <2>4. Queued(r) = Queued(q)  BY <2>2 DEF SameQueues, Queued
  <2>5. /\ r.heap[p] = n /\ \A o \in Queued(r) \ {p} : r.heap[o] = q.heap[o]
    BY <1>0, <2>2, <2>4 DEF Store
  <2>6. Calm(r, q)  BY <2>3, <2>4, <2>5, CalmCell
  <2> QED  BY <2>6 DEF r
<1> QED  BY <1>1, <1>2

LEMMA MovedCalm ==
  ASSUME NEW q, NEW r, Moved(r, q)
  PROVE  Calm(r, q)
<1>1. Queued(r) = Queued(q)  BY DEF Moved, OpenIn, Queued
<1> QED  BY <1>1, CalmSame DEF Moved

(* Every operation but a mark and the arrival of a notification is calm. *)
LEMMA ClosedByCalm ==
  ASSUME NEW S, \A q \in S : Good(q),
         \A q \in S : \A r : Good(r) /\ Calm(r, q) => r \in S
  PROVE  ClosedCalmly(S)
<1>1. ASSUME NEW q \in S, NEW p \in Ptr, NEW n \in Note,
             q.heap[p] \in Note, Alike(n, q.heap[p]), Calmed(n, q.heap[p])
      PROVE  [q EXCEPT !.heap[p] = n] \in S
  <2> DEFINE r == [q EXCEPT !.heap[p] = n]
  <2>1. Good(r) /\ SameQueues(r, q)  BY CellChanged
  <2>2. /\ r.heap[p] = n /\ \A o \in Ptr \ {p} : r.heap[o] = q.heap[o]
        /\ Queued(q) \subseteq Ptr
    BY GoodFacts DEF Store
  <2> HIDE DEF r
  <2>3. Queued(r) = Queued(q)  BY <2>1 DEF SameQueues, Queued
  <2>4. \A o \in Queued(r) \ {p} : r.heap[o] = q.heap[o]
    BY <2>2, <2>3
  <2>5. r.heap[p].kind = q.heap[p].kind /\ Calmed(r.heap[p], q.heap[p])
        /\ (q.heap[p].redisplayed => r.heap[p].redisplayed)
    BY <1>1, <2>2 DEF Alike
  <2>6. Calm(r, q)  BY <2>3, <2>4, <2>5, CalmCell
  <2> QED  BY <2>1, <2>6 DEF r
<1>2. ASSUME NEW q \in S, NEW id \in 0..MaxId, NEW reason \in Reasons
      PROVE  CloseId(q, id, reason) \in S
  BY CloseIdKeeps, CloseIdCalm
<1>3. ASSUME NEW q \in S, NEW id \in 0..MaxId
      PROVE  HistoryRemoveById(q, id) \in S
  BY HistoryRemoveByIdKeeps, HistoryRemoveCalm
<1>4. ASSUME NEW q \in S
      PROVE  /\ \A at \in 1..Len(q.displayed) : PushedBack(q, at) \in S
             /\ \A at \in 1..Len(q.waiting) : Shown(q, at) \in S
             /\ q.displayed # <<>> => Trimmed(q) \in S
             /\ q.displayed # <<>> /\ q.waiting # <<>> => Swapped(q) \in S
  BY PushedBackMoves, ShownMoves, TrimmedMoves, SwappedMoves, MovedCalm
<1>5. ASSUME NEW q \in S
      PROVE  /\ \A at \in 1..Len(q.history) : Redisplay(q, at) \in S
             /\ HistoryClear(q) \in S
             /\ \A p \in Queued(q) : SignalClosed(q, p, SIG) \in S
  <2>1. SIG \in Reasons  BY DEF Reasons
  <2>2. \A at \in 1..Len(q.history) : Redisplay(q, at) \in S
    BY RedisplayKeeps, RedisplayCalm
  <2>3. HistoryClear(q) \in S  BY HistoryClearKeeps, HistoryClearCalm
  <2>4. \A p \in Queued(q) : SignalClosed(q, p, SIG) \in S
    BY <2>1, SignalClosedOrderly, SignalClosedCalm DEF Orderly
  <2> QED  BY <2>2, <2>3, <2>4
<1>6. ClosedUnderUpdate(S)
  BY <1>1, <1>2, <1>3, <1>4 DEF ClosedUnderUpdate
<1> QED  BY <1>5, <1>6 DEF ClosedCalmly

LEMMA CalmSoFar ==
  ASSUME UpdateInv
  PROVE  /\ ClosedCalmly({ q \in Store : Good(q) /\ Calm(q, store) })
         /\ Quiet \in { q \in Store : Good(q) /\ Calm(q, store) }
<1> DEFINE S == { q \in Store : Good(q) /\ Calm(q, store) }
<1>1. /\ Good(Quiet) /\ SameQueues(Quiet, store) /\ Quiet.heap = store.heap
  BY QuietKeeps DEF UpdateInv
<1>2. Calm(Quiet, store)
  <2>1. Queued(Quiet) = Queued(store)  BY <1>1 DEF SameQueues, Queued
  <2> QED  BY <1>1, <2>1, CalmSame
<1>3. Quiet \in S  BY <1>1, <1>2 DEF Good
<1>4. \A q \in S : \A r : Good(r) /\ Calm(r, q) => r \in S
  <2>1. ASSUME NEW q \in S, NEW r, Good(r), Calm(r, q)  PROVE r \in S
    <3>1. Calm(r, store)  BY <2>1, CalmTransitive
    <3> QED  BY <2>1, <3>1 DEF Good
  <2> QED  BY <2>1
<1>5. \A q \in S : Good(q)  OBVIOUS
<1> HIDE DEF S
<1> QED  BY <1>3, <1>4, <1>5, ClosedByCalm DEF S

(* queues_update marks nothing, *)
LEMMA CalmUpdate ==
  ASSUME UpdateInv, UpdateStep
  PROVE  Calm(store', store)
<1> DEFINE S == { q \in Store : Good(q) /\ Calm(q, store) }
<1>1. ClosedCalmly(S) /\ Quiet \in S  BY CalmSoFar
<1>2. ClosedUnderUpdate(S)  BY <1>1 DEF ClosedCalmly
<1> HIDE DEF S
<1>3. store' \in S  BY <1>1, <1>2, UpdateStaysIn
<1> QED  BY <1>3 DEF S

(* nor does any step but the marks. *)
LEMMA CalmStep ==
  ASSUME UpdateInv, Next
  PROVE  Arrives \/ Marks \/ Calm(store', store)
<1> DEFINE S == { q \in Store : Good(q) /\ Calm(q, store) }
<1>1. ClosedCalmly(S) /\ Quiet \in S  BY CalmSoFar
<1> HIDE DEF S
<1>2. Arrives \/ Marks \/ store' \in S  BY <1>1, CalmStepStaysIn
<1> QED  BY <1>2 DEF S

LEMMA CleanPlaced ==
  ASSUME Good(store), Clean(store), NEW q, NEW p, NEW id, Newcomer(q, p, id),
         NEW r, Good(r), Placed(r, q, p)
  PROVE  Clean(r)
<1>1. Good(q) /\ Adrift(q, p)  BY DEF Newcomer
<1>2. PICK gone \in SUBSET OpenIn(q) :
        /\ Queued(r) = (Queued(q) \ gone) \cup {p}
        /\ \A o \in Ptr \ gone : r.heap[o] = q.heap[o]
        /\ p \notin gone
  BY <1>1, PlacedFacts
<1>3. /\ p \in Ptr /\ p \notin Queued(store)
      /\ Queued(q) = Queued(store) /\ Queued(store) \subseteq Ptr
      /\ \A o \in Queued(store) : q.heap[o] = store.heap[o]
  BY NewcomerFacts
<1>4. \A o \in Queued(r) : \/ o = p
                           \/ o \in Queued(store) /\ r.heap[o] = store.heap[o]
  BY <1>2, <1>3
<1>5. r.heap[p] = q.heap[p]  BY <1>2, <1>3
<1>6. ~Marked(r.heap[p])  BY <1>5 DEF Newcomer, Marked
<1> QED  BY <1>4, <1>6 DEF Clean

LEMMA CleanArrives ==
  ASSUME UpdateInv, Clean(store), Arrives
  PROVE  Clean(store')
<1>0. Good(store)  BY DEF UpdateInv
<1>1. PICK kind \in Kinds, id \in RequestableIds, stamp \in Stamps :
        Notify(kind, id, stamp)
  BY DEF Arrives
<1>2. CASE SameQueues(store', store) /\ store'.heap = store.heap
  BY <1>2 DEF Clean, SameQueues, Queued
<1>3. CASE \E p \in Ptr, q \in Store, r \in Store :
             /\ Newcomer(q, p, id) /\ Placed(r, q, p) /\ Good(r)
             /\ store' = r \/ store' = NotificationClose(r, p, UNDEF)
  <2>1. PICK p \in Ptr, q \in Store, r \in Store :
             /\ Newcomer(q, p, id) /\ Placed(r, q, p) /\ Good(r)
             /\ store' = r \/ store' = NotificationClose(r, p, UNDEF)
    BY <1>3
  <2>2. Clean(r)  BY <1>0, <2>1, CleanPlaced
  <2>3. CASE store' = r  BY <2>2, <2>3
  <2>4. CASE store' = NotificationClose(r, p, UNDEF)
    <3>1. Calm(store', r)
      BY <2>1, <2>4, CloseIdCalm DEF NotificationClose, Reasons
    <3> QED  BY <2>2, <3>1, CleanKept
  <2> QED  BY <2>1, <2>3, <2>4
<1> QED  BY <1>1, <1>2, <1>3, ArrivalEffect

(* Where nothing is marked, only a click marks. *)
LEMMA CleanStep ==
  ASSUME UpdateInv, Clean(store), Next
  PROVE  Marks \/ Clean(store')
BY CalmStep, CleanArrives, CleanKept

---------------------------------------------------------------------------
(* The visits of the first loop                                            *)

RetireVisit ==
  \/ RetireMarked \/ RetireRemoved \/ RetireFinished
  \/ RetireSuppressed \/ RetirePushback \/ RetireKeep

(* When no id is queued twice, closing a displayed notification by its id  *)
(* takes that one off displayed, and nothing else.                         *)
LEMMA ClosesTheShown ==
  ASSUME NEW q, Good(q), Tidy(q), NEW at \in 1..Len(q.displayed),
         NEW reason \in Reasons
  PROVE  LET r == NotificationClose(q, q.displayed[at], reason)
         IN /\ Good(r) /\ Orderly(r, q)
            /\ r.displayed = RemoveAt(q.displayed, at)
            /\ q.displayed[at] \notin ToSet(r.displayed) \cup ToSet(r.waiting)
<1> DEFINE p  == q.displayed[at]
           id == q.heap[p].id
           d  == FirstWithId(q, q.displayed, id)
           w  == FirstWithId(q, q.waiting, id)
           r  == CloseId(q, id, reason)
<1>0. /\ q.displayed \in Seq(Ptr) /\ q.waiting \in Seq(Ptr)
      /\ IsInjective(q.displayed)
      /\ ToSet(q.displayed) \cap ToSet(q.waiting) = {}
  BY GoodFacts
<1>1. p \in ToSet(q.displayed) /\ p \in Queued(q) /\ q.heap[p].id = id
  BY <1>0, Elements DEF Queued
<1> HIDE DEF id
<1> DEFINE s == q.displayed
           u == q.waiting
<1>2. s \in Seq(Ptr) /\ u \in Seq(Ptr)  BY <1>0
<1>3. /\ FirstWithId(q, s, id) # 0 =>
           /\ s[FirstWithId(q, s, id)] \in ToSet(s)
           /\ q.heap[s[FirstWithId(q, s, id)]].id = id
           /\ FirstWithId(q, s, id) \in 1..Len(s)
      /\ FirstWithId(q, u, id) # 0 =>
           /\ u[FirstWithId(q, u, id)] \in ToSet(u)
           /\ q.heap[u[FirstWithId(q, u, id)]].id = id
  <2> HIDE DEF s, u
  <2> QED  BY <1>2, FoundHasId
<1>4. w = 0
  <2> SUFFICES ASSUME w # 0  PROVE FALSE  OBVIOUS
  <2>1. q.waiting[w] \in ToSet(q.waiting) /\ q.heap[q.waiting[w]].id = id
    BY <1>3
  <2>2. q.waiting[w] \in Queued(q)  BY <2>1 DEF Queued
  <2>3. q.waiting[w] = p  BY <1>1, <2>1, <2>2 DEF Tidy, Unique
  <2> QED  BY <1>0, <1>1, <2>1, <2>3
<1>5. d = at
  <2>1. d # 0  BY <1>0, <1>1, NotFound
  <2>2. /\ d \in 1..Len(q.displayed) /\ q.heap[q.displayed[d]].id = id
        /\ q.displayed[d] \in ToSet(q.displayed)
    BY <1>3, <2>1
  <2>3. q.displayed[d] \in Queued(q)  BY <2>2 DEF Queued
  <2>4. q.displayed[d] = q.displayed[at]  BY <1>1, <2>2, <2>3 DEF Tidy, Unique
  <2> QED  BY <1>0, <2>2, <2>4, Elements
<1>6. Good(r) /\ Orderly(r, q)  BY CloseIdOrderly DEF Orderly
<1>7. /\ r.displayed = Without(q.displayed, d)
      /\ Closes(r, q, q.displayed[d], reason)
  <2>1. d # 0
    <3>1. at # 0  BY <1>0, LenProperties
    <3> QED  BY <1>5, <3>1
  <2> QED  BY <1>4, <2>1, CloseIdEffect
<1>8. at # 0  BY <1>0, LenProperties
<1> HIDE DEF d, w, r
<1>9. r.displayed = RemoveAt(q.displayed, at)
  BY <1>5, <1>7, <1>8 DEF Without
<1>10. p \notin ToSet(r.displayed) \cup ToSet(r.waiting)
  BY <1>5, <1>7 DEF Closes
<1> QED  BY <1>6, <1>9, <1>10 DEF r, id, NotificationClose

LEMMA UnmarkEffect ==
  ASSUME NEW q, Good(q), NEW p \in Ptr, NEW field \in {"closing", "removing"}
  PROVE  /\ SameQueues(Unmark(q, p, field), q)
         /\ q.heap[p] = Freed => Unmark(q, p, field) = q
         /\ q.heap[p] # Freed => Unmark(q, p, field).heap[p][field] = NotMarked
<1>1. q \in Store /\ q.heap \in [Ptr -> Note \cup {Freed}]
  BY GoodFacts
<1>2. CASE q.heap[p] = Freed
  BY <1>2 DEF Unmark, SameQueues
<1>3. CASE q.heap[p] # Freed
  <2> DEFINE n == [q.heap[p] EXCEPT ![field] = NotMarked]
  <2>1. q.heap[p] \in Note  BY <1>1, <1>3
  <2>2. n[field] = NotMarked
    <3>1. CASE field = "closing"  BY <2>1, <3>1 DEF Note
    <3>2. CASE field = "removing"  BY <2>1, <3>2 DEF Note
    <3> QED  BY <3>1, <3>2
  <2>3. Unmark(q, p, field) = [q EXCEPT !.heap[p] = n]
    BY <1>1, <1>3 DEF Unmark, Store
  <2> HIDE DEF n
  <2>4. /\ SameQueues(Unmark(q, p, field), q)
        /\ Unmark(q, p, field).heap[p] = n
    BY <1>1, <2>3 DEF Store, SameQueues
  <2> QED  BY <1>3, <2>2, <2>4
<1> QED  BY <1>2, <1>3

LEMMA QuietTidy ==
  ASSUME Good(store), Tidy(store)
  PROVE  /\ Good(Quiet) /\ Tidy(Quiet) /\ SameQueues(Quiet, store)
         /\ Quiet.heap = store.heap
BY QuietKeeps, TidyQuiet

(* a restarted timeout changes neither the queues nor who is who *)
LEMMA RestartedTidy ==
  ASSUME Good(store), Tidy(store), NEW p \in Ptr, store.heap[p] \in Note
  PROVE  LET r == Restarted(Quiet, p)
         IN Good(r) /\ Tidy(r) /\ SameQueues(r, store)
<1> DEFINE r == Restarted(Quiet, p)
           n == [Quiet.heap[p] EXCEPT !.due = FALSE]
           s == [Quiet EXCEPT !.heap[p] = n]
<1>1. /\ Good(Quiet) /\ Tidy(Quiet) /\ SameQueues(Quiet, store)
      /\ Quiet.heap = store.heap
  BY QuietTidy
<1>2. Quiet \in Store  BY <1>1, GoodFacts
<1>3. n \in Note /\ Alike(n, Quiet.heap[p]) /\ Quiet.heap[p] \in Note
  BY <1>1 DEF Note, Alike
<1>4. r = Quiet \/ r = s
  BY <1>2 DEF Restarted, Store
<1> HIDE DEF n, r
<1>5. Orderly(s, Quiet)  BY <1>1, <1>3, AlikeOrderly
<1>6. Good(s) /\ SameQueues(s, Quiet)  BY <1>1, <1>3, CellChanged
<1>7. Tidy(s)  BY <1>1, <1>5, TidyKept
<1> HIDE DEF s
<1>8. Good(r) /\ Tidy(r) /\ SameQueues(r, store)
  BY <1>1, <1>4, <1>6, <1>7 DEF SameQueues
<1> QED  BY <1>8 DEF r

(* A visit passes what stays, or takes it off displayed. *)
LEMMA VisitEffect ==
  ASSUME UpdateInv, Tidy(store), RetireVisit
  PROVE  /\ Retiring /\ left' = left - 1 /\ pc' = pc
         /\ \/ RetireKeep /\ store'.displayed = store.displayed
            \/ store'.displayed
                 = RemoveAt(store.displayed, Len(store.displayed) - left + 1)
<1> DEFINE at == Len(store.displayed) - left + 1
           p  == store.displayed[at]
           n  == store.heap[p]
           r  == Restarted(Quiet, p)
<1>0. Retiring /\ left' = left - 1 /\ pc' = pc
  BY DEF RetireVisit, RetireMarked, RetireRemoved, RetireFinished,
         RetireSuppressed, RetirePushback, RetireKeep, Retire
<1>1. /\ at \in 1..Len(store.displayed) /\ p = Visited
      /\ p \in Ptr /\ n \in Note /\ Good(store) /\ heap[Visited] = n
  BY <1>0, VisitedIsThere DEF Visited, displayed, heap, UpdateInv
<1>2. /\ Good(Quiet) /\ Tidy(Quiet) /\ SameQueues(Quiet, store)
      /\ Quiet.heap = store.heap
  BY <1>1, QuietTidy
<1>3. Good(r) /\ Tidy(r) /\ SameQueues(r, store)
  BY <1>1, RestartedTidy
<1>4. Quiet.displayed = store.displayed /\ r.displayed = store.displayed
  BY <1>2, <1>3 DEF SameQueues
<1> HIDE DEF at, r
<1>5. ASSUME NEW reason \in Reasons
      PROVE  /\ Good(NotificationClose(Quiet, p, reason))
             /\ NotificationClose(Quiet, p, reason).displayed
                  = RemoveAt(store.displayed, at)
             /\ Good(NotificationClose(r, p, reason))
             /\ NotificationClose(r, p, reason).displayed
                  = RemoveAt(store.displayed, at)
  <2>1. at \in 1..Len(Quiet.displayed) /\ Quiet.displayed[at] = p
        /\ at \in 1..Len(r.displayed) /\ r.displayed[at] = p
    BY <1>1, <1>4
  <2> HIDE DEF p
  <2> QED  BY <1>2, <1>3, <1>4, <2>1, ClosesTheShown
<1>6. CASE RetireMarked
  <2>1. n.closing \in Reasons  BY <1>1, <1>6 DEF RetireMarked, Note
  <2>2. store' = Unmark(NotificationClose(Quiet, p, n.closing), p, "closing")
    BY <1>1, <1>6 DEF RetireMarked, Retire
  <2>3. SameQueues(store', NotificationClose(Quiet, p, n.closing))
    BY <1>1, <1>5, <2>1, <2>2, UnmarkEffect
  <2> QED  BY <1>0, <1>5, <2>1, <2>3 DEF SameQueues, at
<1>7. CASE RetireRemoved
  <2>1. n.removing \in Reasons  BY <1>1, <1>7 DEF RetireRemoved, Note
  <2> DEFINE q == NotificationClose(Quiet, p, n.removing)
             h == HistoryRemoveById(q, Quiet.heap[p].id)
  <2>2. store' = Unmark(q, p, "removing") \/ store' = Unmark(h, p, "removing")
    BY <1>1, <1>7 DEF RetireRemoved, Retire, NotificationRemove
  <2>3. Good(q) /\ q.displayed = RemoveAt(store.displayed, at)
    BY <1>5, <2>1
  <2> HIDE DEF q
  <2>4. Good(h) /\ h.displayed = q.displayed
    BY <2>3, HistoryRemoveByIdKeeps
  <2> HIDE DEF h
  <2>5. SameQueues(store', q) \/ SameQueues(store', h)
    BY <1>1, <2>2, <2>3, <2>4, UnmarkEffect
  <2> QED  BY <1>0, <2>3, <2>4, <2>5 DEF SameQueues, at
<1>8. CASE RetireFinished
  <2>1. store' = NotificationClose(Quiet, p, TIME)
    BY <1>1, <1>8 DEF RetireFinished, Retire
  <2> QED  BY <1>0, <1>5, <2>1 DEF Reasons, at
<1>9. CASE RetireSuppressed
  <2>1. store' = NotificationClose(r, p, UNDEF)
    BY <1>1, <1>9 DEF RetireSuppressed, Retire, r
  <2> QED  BY <1>0, <1>5, <2>1 DEF Reasons, at
<1>10. CASE RetirePushback
  <2>1. store' = Enqueue([r EXCEPT !.displayed =
                            RemoveAt(r.displayed, Len(r.displayed) - left + 1)], p)
    BY <1>1, <1>10 DEF RetirePushback, Retire, r
  <2>2. store'.displayed = RemoveAt(r.displayed, Len(r.displayed) - left + 1)
    BY <1>3, <2>1, GoodFacts DEF Enqueue, Store
  <2> QED  BY <1>0, <1>4, <2>2 DEF at
<1>11. CASE RetireKeep
  <2>1. store' = Quiet \/ store' = r
    BY <1>1, <1>11 DEF RetireKeep, Retire, r
  <2> QED  BY <1>0, <1>4, <1>11, <2>1
<1> QED  BY <1>6, <1>7, <1>8, <1>9, <1>10, <1>11 DEF RetireVisit

---------------------------------------------------------------------------
(* What a mark leads to                                                    *)

(* What the first loop has passed when l are left to visit.                *)
PassedBy(q, l) == { q.displayed[i] : i \in 1..(Len(q.displayed) - l) }

LEMMA PassedAreShown ==
  ASSUME NEW q, Good(q), NEW l \in Nat
  PROVE  /\ PassedBy(q, l) \subseteq ToSet(q.displayed)
         /\ l = 0 => PassedBy(q, l) = ToSet(q.displayed)
         /\ l = Len(q.displayed) => PassedBy(q, l) = {}
<1> DEFINE s == q.displayed
           n == Len(s)
<1>1. n \in Nat /\ ToSet(s) = { s[j] : j \in 1..n }
  BY GoodFacts, Elements
<1>2. PassedBy(q, l) = { s[i] : i \in 1..(n - l) }  BY DEF PassedBy
<1> HIDE DEF s, n
<1>3. 1..(n - l) \subseteq 1..n  BY <1>1
<1>4. l = 0 => 1..(n - l) = 1..n  BY <1>1
<1>5. l = n => 1..(n - l) = {}  BY <1>1
<1> QED  BY <1>1, <1>2, <1>3, <1>4, <1>5 DEF s, n

(* A visit passes nothing but what it keeps, and takes nothing but the     *)
(* visited one off displayed.                                              *)
LEMMA VisitPasses ==
  ASSUME UpdateInv, Tidy(store), RetireVisit
  PROVE  /\ \A p \in PassedBy(store', left') :
              p \in PassedBy(store, left) \/ (RetireKeep /\ p = Visited)
         /\ ToSet(store.displayed) \ {Visited} \subseteq ToSet(store'.displayed)
         /\ Visited \in ToSet(store.displayed)
<1> DEFINE s == store.displayed
           t == store'.displayed
           n == Len(s)
           at == n - left + 1
<1>0. /\ Retiring /\ left' = left - 1
      /\ (RetireKeep /\ t = s) \/ t = RemoveAt(s, at)
  BY VisitEffect
<1>1. /\ s \in Seq(Ptr) /\ IsInjective(s) /\ n \in Nat /\ left \in Nat
      /\ at \in 1..n /\ Visited = s[at]
  BY <1>0, VisitedIsThere, GoodFacts, LenProperties
    DEF UpdateInv, Visited, displayed
<1>2. Visited \in ToSet(s)  BY <1>1, Elements
<1>3. /\ PassedBy(store, left) = { s[i] : i \in 1..(n - left) }
      /\ PassedBy(store', left') = { t[i] : i \in 1..(Len(t) - left') }
  BY DEF PassedBy
<1>4. CASE RetireKeep /\ t = s
  <2>1. Len(t) - left' = at  BY <1>0, <1>1, <1>4
  <2> HIDE DEF t, s
  <2>2. n = Len(s)  OBVIOUS
  <2> HIDE DEF n
  <2>3. \A i \in 1..at : i \in 1..(n - left) \/ i = at  BY <1>1
  <2> QED  BY <1>1, <1>2, <1>3, <1>4, <2>1, <2>3 DEF s, t
<1>5. CASE t = RemoveAt(s, at)
  <2>0. at - 1 = n - left  BY <1>1
  <2> HIDE DEF t, s
  <2> HIDE DEF at
  <2>1. /\ RemoveAt(s, at) \in Seq(Ptr) /\ Narrowed(s, RemoveAt(s, at), at)
        /\ ToSet(RemoveAt(s, at)) = ToSet(s) \ {s[at]}
    BY <1>1, RemoveAtProperties, Removed
  <2>2. /\ Len(t) = n - 1
        /\ \A i \in 1..Len(t) : i < at => t[i] = s[i]
    BY <1>5, <2>1 DEF Narrowed
  <2> HIDE DEF n
  <2>3. Len(t) - left' = n - left  BY <1>0, <1>1, <2>2
  <2>4. \A i \in 1..(n - left) : i \in 1..Len(t) /\ i < at
    BY <1>1, <2>0, <2>2
  <2>5. PassedBy(store', left') \subseteq PassedBy(store, left)
    BY <1>3, <2>2, <2>3, <2>4
  <2> QED  BY <1>1, <1>2, <1>5, <2>1, <2>5 DEF s, t
<1> QED  BY <1>0, <1>4, <1>5

(* What carried one mark before its visit carries none afterwards.         *)
LEMMA VisitUnmarks ==
  ASSUME UpdateInv, UpdateInv', Tidy(store), RetireVisit,
         \/ heap[Visited].closing = NotMarked
         \/ heap[Visited].removing = NotMarked,
         Visited \in Queued(store')
  PROVE  ~Marked(store'.heap[Visited])
<1> DEFINE p  == Visited
           n  == store.heap[p]
           at == Len(store.displayed) - left + 1
<1>0. /\ Retiring /\ UpdateStep
  BY DEF RetireVisit, RetireMarked, RetireRemoved, RetireFinished,
         RetireSuppressed, RetirePushback, RetireKeep, UpdateStep
<1>1. /\ p \in Ptr /\ n \in Note /\ Good(store) /\ Good(store')
      /\ at \in 1..Len(store.displayed) /\ p = store.displayed[at]
      /\ n = heap[Visited]
  BY <1>0, VisitedIsThere DEF UpdateInv, heap, displayed, Visited
<1>2. Calmed(store'.heap[p], n)
  BY <1>0, CalmUpdate DEF Calm
<1>3. store'.heap[p] # Freed  BY <1>1, GoodFacts
<1>4. n # Freed /\ p \in ToSet(store.displayed) /\ p \in Queued(store)
  BY <1>1, Elements, GoodFacts, QueuesAssumption DEF Queued
<1>5. ~n.locked
  BY <1>1, <1>4 DEF Tidy
<1>6. /\ Good(Quiet) /\ Tidy(Quiet) /\ SameQueues(Quiet, store)
      /\ Quiet.heap = store.heap
  BY <1>1, QuietTidy
<1>7. ASSUME NEW reason \in Reasons
      PROVE  Good(NotificationClose(Quiet, p, reason))
  BY <1>6, NotificationCloseKeeps
<1> HIDE DEF at
<1>8. ASSUME NEW q, Good(q), NEW field \in {"closing", "removing"},
             store' = Unmark(q, p, field)
      PROVE  store'.heap[p][field] = NotMarked
  <2> HIDE DEF p
  <2> QED  BY <1>1, <1>3, <1>8, UnmarkEffect
<1>9. CASE RetireMarked
  <2>1. n.closing \in Reasons /\ n.closing # NotMarked
    BY <1>1, <1>9 DEF RetireMarked, Note
  <2>2. store' = Unmark(NotificationClose(Quiet, p, n.closing), p, "closing")
    BY <1>1, <1>9 DEF RetireMarked, Retire
  <2>3. Good(NotificationClose(Quiet, p, n.closing))  BY <1>7, <2>1
  <2>4. store'.heap[p]["closing"] = NotMarked  BY <1>8, <2>2, <2>3
  <2>5. n.removing = NotMarked  BY <1>1, <2>1
  <2> QED  BY <1>2, <2>4, <2>5 DEF Calmed, Marked
<1>10. CASE RetireRemoved
  <2>1. /\ n.removing \in Reasons /\ n.closing = NotMarked
    BY <1>1, <1>10 DEF RetireRemoved, Note
  <2> DEFINE q == NotificationClose(Quiet, p, n.removing)
             h == HistoryRemoveById(q, Quiet.heap[p].id)
  <2>2. store' = Unmark(q, p, "removing") \/ store' = Unmark(h, p, "removing")
    BY <1>1, <1>10 DEF RetireRemoved, Retire, NotificationRemove
  <2>3. Good(q)  BY <1>7, <2>1
  <2> HIDE DEF q
  <2>4. Good(h)  BY <2>3, HistoryRemoveByIdKeeps
  <2> HIDE DEF h
  <2>5. store'.heap[p]["removing"] = NotMarked  BY <1>8, <2>2, <2>3, <2>4
  <2> QED  BY <1>2, <2>1, <2>5 DEF Calmed, Marked
<1>11. CASE \/ RetireFinished \/ RetireSuppressed \/ RetirePushback
            \/ RetireKeep
  <2>1. Stays(n)
    BY <1>1, <1>5, <1>11 DEF RetireFinished, RetireSuppressed, RetirePushback,
                             RetireKeep
  <2> QED  BY <1>2, <2>1 DEF Stays, Calmed, Marked
<1> QED  BY <1>9, <1>10, <1>11 DEF RetireVisit

---------------------------------------------------------------------------
(* No mark is left behind                                                  *)

(* No action list closes everything behind a mark, or both closes and      *)
(* removes the notification clicked on.                                    *)
Sound(todo) ==
  \A i, j \in 1..Len(todo) :
    /\ i < j /\ todo[i] \in {"close_current", "remove_current"}
         => todo[j] # "close_all"
    /\ todo[i] = "close_current" => todo[j] # "remove_current"

MarksAlone == \A todo \in MouseActions : Sound(todo)

(* A marked notification is on the screen, has one mark, and nothing that  *)
(* the click still has to do takes it off the screen or marks it again.    *)
Fresh(p) ==
  LET n == store.heap[p] IN
  /\ pc \in {"click", "retire"}
  /\ p \in ToSet(store.displayed)
  /\ n.closing = NotMarked \/ n.removing = NotMarked
  /\ pc = "click" => \A i \in 1..Len(acts) :
       /\ acts[i] # "close_all"
       /\ n.closing # NotMarked => acts[i] # "remove_current"
       /\ n.removing # NotMarked => acts[i] # "close_current"

MarkInv ==
  /\ Sound(acts)
  /\ pc = "retire" => \A p \in PassedBy(store, left) : ~Marked(store.heap[p])
  /\ \A p \in Queued(store) : Marked(store.heap[p]) => Fresh(p)

(* A click is done with its first action when it performs the next. *)
LEMMA ActsMove ==
  ASSUME Next
  PROVE  \/ acts' = acts
         \/ acts # <<>> /\ acts' = Tail(acts)
         \/ acts' \in MouseActions
BY DEF Next, DBusMethod, MouseEvent, HandlerStep, RunStep, Notify,
       CloseNotification, CloseAll, CloseLast, Show, PopHistory,
       RemoveFromHistory, ClearHistory, SetPauseLevel, PointerMoves, Click,
       ClickCloseAll, ClickCloseCurrent, ClickRemoveCurrent, Mark, ClickAct,
       ClickDone, PushAllStep, PushAllDone, TimePasses, TimerFires,
       OutputChanges, Finish, mouse

LEMMA TailFollows ==
  ASSUME acts \in Seq(Acts), acts # <<>>
  PROVE  /\ 1 \in 1..Len(acts) /\ Head(acts) = acts[1]
         /\ \A i \in 1..Len(Tail(acts)) :
              i + 1 \in 1..Len(acts) /\ Tail(acts)[i] = acts[i + 1]
<1>1. /\ Tail(acts) \in Seq(Acts) /\ Narrowed(acts, Tail(acts), 1)
      /\ 1 \in 1..Len(acts)
  BY TailNarrowed
<1>2. Len(acts) \in Nat  BY LenProperties
<1> DEFINE t == Tail(acts)
<1>3. /\ Len(t) = Len(acts) - 1
      /\ \A i \in 1..Len(t) : t[i] = IF i < 1 THEN acts[i] ELSE acts[i + 1]
  BY <1>1 DEF Narrowed
<1>4. Head(acts) = acts[1]  BY HeadTailProperties
<1> HIDE DEF t
<1>5. \A i \in 1..Len(t) : ~(i < 1) /\ i + 1 \in 1..Len(acts)
  BY <1>2, <1>3
<1> QED  BY <1>1, <1>3, <1>4, <1>5 DEF t

LEMMA ActsStaySound ==
  ASSUME MarksAlone, acts \in Seq(Acts), Sound(acts), Next
  PROVE  Sound(acts')
<1>1. CASE acts' = acts  BY <1>1 DEF Sound
<1>2. CASE acts # <<>> /\ acts' = Tail(acts)
  <2>1. \A i \in 1..Len(acts') :
          i \in Int /\ i + 1 \in 1..Len(acts) /\ acts'[i] = acts[i + 1]
    BY <1>2, TailFollows
  <2> SUFFICES ASSUME NEW i \in 1..Len(acts'), NEW j \in 1..Len(acts')
               PROVE  /\ i < j /\ acts'[i] \in {"close_current", "remove_current"}
                           => acts'[j] # "close_all"
                      /\ acts'[i] = "close_current" => acts'[j] # "remove_current"
    BY DEF Sound
  <2>2. /\ i + 1 < j + 1 /\ acts[i + 1] \in {"close_current", "remove_current"}
             => acts[j + 1] # "close_all"
        /\ acts[i + 1] = "close_current" => acts[j + 1] # "remove_current"
    BY <2>1 DEF Sound
  <2> QED  BY <2>1, <2>2
<1>3. CASE acts' \in MouseActions  BY <1>3 DEF MarksAlone
<1> QED  BY <1>1, <1>2, <1>3, ActsMove

(* With nothing marked there is nothing to say but of the actions to come. *)
LEMMA CleanIsEnough ==
  ASSUME UpdateInv', Clean(store'), Sound(acts')
  PROVE  MarkInv'
<1>1. \A p \in Queued(store') : ~Marked(store'.heap[p])
  BY DEF Clean
<1>2. PassedBy(store', left') \subseteq ToSet(store'.displayed)
  BY PassedAreShown DEF UpdateInv
<1>3. PassedBy(store', left') \subseteq Queued(store')
  BY <1>2 DEF Queued
<1> QED  BY <1>1, <1>3 DEF MarkInv

LEMMA ClickSteps ==
  ASSUME Next, pc = "click"
  PROVE  Marks \/ ClickDone \/ ClickCloseAll
BY DEF Next, DBusMethod, MouseEvent, HandlerStep, RunStep, Notify,
       CloseNotification, CloseAll, CloseLast, Show, PopHistory,
       RemoveFromHistory, ClearHistory, SetPauseLevel, PointerMoves, Click,
       PushAllStep, PushAllDone, TimePasses, TimerFires, OutputChanges, Finish,
       Marks, UpdateStep, RetireMarked, RetireRemoved, RetireFinished,
       RetireSuppressed, RetirePushback, RetireKeep, RetireDone, Retiring,
       FillSuppressed, FillNotReady, FillSkipsDisplay, FillDisplay, FillDone,
       Filling, TrimStep, TrimDone, SeepSwap, SeepDone

LEMMA RetireSteps ==
  ASSUME Next, pc = "retire"
  PROVE  /\ RetireVisit \/ RetireDone
         /\ UNCHANGED <<status, acts>>
BY DEF Next, DBusMethod, MouseEvent, HandlerStep, RunStep, Notify,
       CloseNotification, CloseAll, CloseLast, Show, PopHistory,
       RemoveFromHistory, ClearHistory, SetPauseLevel, PointerMoves, Click,
       ClickCloseAll, ClickCloseCurrent, ClickRemoveCurrent, Mark, ClickAct,
       ClickDone, PushAllStep, PushAllDone, TimePasses, TimerFires,
       OutputChanges, Finish, mouse, RetireVisit, UpdateStep,
       FillSuppressed, FillNotReady, FillSkipsDisplay, FillDisplay, FillDone,
       Filling, TrimStep, TrimDone, SeepSwap, SeepDone

(* The mark of a click: it is the only one of its notification, and what   *)
(* the click has still to do goes with it.                                 *)
LEMMA MarkMarks ==
  ASSUME UpdateInv, Surroundings, MarkInv, Marks, Sound(acts')
  PROVE  MarkInv'
<1> DEFINE n(p) == store.heap[p]
<1>1. /\ pc = "click" /\ pc' = "click" /\ acts # <<>> /\ acts' = Tail(acts)
      /\ ClickCloseCurrent => acts[1] = "close_current"
      /\ ClickRemoveCurrent => acts[1] = "remove_current"
      /\ acts \in Seq(Acts)
  <2>1. acts \in Seq(Acts)  BY DEF Surroundings
  <2> QED
    BY <2>1, TailFollows
      DEF Marks, ClickCloseCurrent, ClickRemoveCurrent, Mark, ClickAct, control
<1>2. /\ 1 \in 1..Len(acts)
      /\ \A i \in 1..Len(acts') :
           i + 1 \in 1..Len(acts) /\ acts'[i] = acts[i + 1] /\ 1 < i + 1
  BY <1>1, TailFollows
<1>3. /\ Good(Quiet) /\ SameQueues(Quiet, store) /\ Quiet.heap = store.heap
      /\ Quiet \in Store
  BY QuietKeeps DEF UpdateInv, Good
<1>4. ASSUME NEW p \in Queued(store), Marked(store.heap[p]),
             p \in ToSet(store'.displayed), store'.heap[p] = store.heap[p]
      PROVE  Fresh(p)'
  <2>1. Fresh(p)  BY <1>4 DEF MarkInv
  <2>2. \A i \in 1..Len(acts) :
           /\ acts[i] # "close_all"
           /\ store.heap[p].closing # NotMarked => acts[i] # "remove_current"
           /\ store.heap[p].removing # NotMarked => acts[i] # "close_current"
    BY <1>1, <2>1 DEF Fresh
  <2>3. \A i \in 1..Len(acts') :
           /\ acts'[i] # "close_all"
           /\ store.heap[p].closing # NotMarked => acts'[i] # "remove_current"
           /\ store.heap[p].removing # NotMarked => acts'[i] # "close_current"
    BY <1>2, <2>2
  <2> QED  BY <1>1, <1>4, <2>1, <2>3 DEF Fresh
<1>5. CASE store' = Quiet
  <2>1. SameQueues(store', store) /\ store'.heap = store.heap  BY <1>3, <1>5
  <2>2. Queued(store') = Queued(store) /\ store'.displayed = store.displayed
    BY <2>1 DEF SameQueues, Queued
  <2>3. \A p \in Queued(store') : Marked(store'.heap[p]) => Fresh(p)'
    <3> SUFFICES ASSUME NEW p \in Queued(store'), Marked(store'.heap[p])
                 PROVE  Fresh(p)'
      OBVIOUS
    <3>1. p \in Queued(store) /\ Marked(store.heap[p])  BY <2>1, <2>2
    <3>2. p \in ToSet(store'.displayed)  BY <2>2, <3>1 DEF MarkInv, Fresh
    <3> QED  BY <1>4, <2>1, <3>1, <3>2
  <2> QED  BY <1>1, <2>3 DEF MarkInv
<1>6. ASSUME NEW o \in ToSet(displayed), NEW m \in Note,
             o \in Ptr, store.heap[o] \in Note, Alike(m, store.heap[o]),
             store' = [Quiet EXCEPT !.heap[o] = m],
             \/ ClickCloseCurrent /\ m = [store.heap[o] EXCEPT !.closing = USER]
             \/ ClickRemoveCurrent /\ m = [store.heap[o] EXCEPT !.removing = USER]
      PROVE  MarkInv'
  <2>1. /\ SameQueues(store', store) /\ store'.heap[o] = m
        /\ \A p \in Ptr \ {o} : store'.heap[p] = store.heap[p]
    BY <1>3, <1>6 DEF Store, SameQueues
  <2>2. Queued(store') = Queued(store) /\ store'.displayed = store.displayed
        /\ Queued(store) \subseteq Ptr
    BY <2>1, GoodFacts DEF SameQueues, Queued, UpdateInv
  <2>3. o \in Queued(store) /\ o \in ToSet(store'.displayed)
    BY <1>6, <2>2 DEF Queued, displayed
  <2>4. Marked(store.heap[o]) =>
          /\ store.heap[o].closing # NotMarked => acts[1] # "remove_current"
          /\ store.heap[o].removing # NotMarked => acts[1] # "close_current"
    BY <1>1, <1>2, <2>3 DEF MarkInv, Fresh
  <2>5. Fresh(o)'
    <3>1. CASE ClickCloseCurrent /\ m = [store.heap[o] EXCEPT !.closing = USER]
      <4>1. m.removing = NotMarked
        BY <1>1, <1>6, <2>4, <3>1 DEF Note, Marked
      <4>2. \A i \in 1..Len(acts') :
              acts'[i] # "close_all" /\ acts'[i] # "remove_current"
        BY <1>1, <1>2, <3>1 DEF MarkInv, Sound
      <4> QED  BY <1>1, <2>1, <2>3, <4>1, <4>2 DEF Fresh
    <3>2. CASE ClickRemoveCurrent /\ m = [store.heap[o] EXCEPT !.removing = USER]
      <4>1. m.closing = NotMarked
        BY <1>1, <1>6, <2>4, <3>2 DEF Note, Marked
      <4>2. \A i \in 1..Len(acts') :
              acts'[i] # "close_all" /\ acts'[i] # "close_current"
        BY <1>1, <1>2, <3>2 DEF MarkInv, Sound
      <4> QED  BY <1>1, <2>1, <2>3, <4>1, <4>2 DEF Fresh
    <3> QED  BY <1>6, <3>1, <3>2
  <2>6. \A p \in Queued(store') : Marked(store'.heap[p]) => Fresh(p)'
    <3> SUFFICES ASSUME NEW p \in Queued(store'), Marked(store'.heap[p]), p # o
                 PROVE  Fresh(p)'
      BY <2>5
    <3>1. /\ p \in Queued(store) /\ Marked(store.heap[p])
          /\ store'.heap[p] = store.heap[p]
      BY <2>1, <2>2
    <3>2. p \in ToSet(store'.displayed)  BY <2>2, <3>1 DEF MarkInv, Fresh
    <3> QED  BY <1>4, <3>1, <3>2
  <2> QED  BY <1>1, <2>6 DEF MarkInv
<1> QED  BY <1>5, <1>6, MarksEffect

(* A visit of the first loop uses the mark of what it visits up. *)
LEMMA VisitMarks ==
  ASSUME UpdateInv, UpdateInv', Tidy(store), MarkInv, RetireVisit, Sound(acts')
  PROVE  MarkInv'
<1>1. /\ Retiring /\ pc' = pc /\ pc = "retire" /\ UpdateStep
  BY VisitEffect
    DEF Retiring, RetireVisit, UpdateStep
<1>2. /\ \A p \in PassedBy(store', left') :
              p \in PassedBy(store, left) \/ (RetireKeep /\ p = Visited)
      /\ ToSet(store.displayed) \ {Visited} \subseteq ToSet(store'.displayed)
      /\ Visited \in ToSet(store.displayed)
  BY VisitPasses
<1>3. Calm(store', store)  BY <1>1, CalmUpdate
<1>4. Visited \in Queued(store') => ~Marked(store'.heap[Visited])
  <2>1. Visited \in Queued(store)  BY <1>2 DEF Queued
  <2>2. heap[Visited].closing = NotMarked \/ heap[Visited].removing = NotMarked
    BY <2>1 DEF MarkInv, Fresh, Marked, heap
  <2> QED  BY <2>2, VisitUnmarks
<1>5. /\ PassedBy(store', left') \subseteq Queued(store')
      /\ PassedBy(store, left) \subseteq Queued(store)
  <2>1. /\ PassedBy(store', left') \subseteq ToSet(store'.displayed)
        /\ PassedBy(store, left) \subseteq ToSet(store.displayed)
    BY PassedAreShown DEF UpdateInv
  <2> QED  BY <2>1 DEF Queued
<1>6. ASSUME NEW p \in Queued(store')
      PROVE  /\ p \in Queued(store)
             /\ Marked(store'.heap[p]) => Marked(store.heap[p])
             /\ store.heap[p].closing = NotMarked => store'.heap[p].closing = NotMarked
             /\ store.heap[p].removing = NotMarked => store'.heap[p].removing = NotMarked
  BY <1>3 DEF Calm, Calmed, Marked
<1>7. \A p \in PassedBy(store', left') : ~Marked(store'.heap[p])
  BY <1>1, <1>2, <1>4, <1>5, <1>6 DEF MarkInv
<1>8. \A p \in Queued(store') : Marked(store'.heap[p]) => Fresh(p)'
  <2> SUFFICES ASSUME NEW p \in Queued(store'), Marked(store'.heap[p])
               PROVE  Fresh(p)'
    OBVIOUS
  <2>1. p \in Queued(store) /\ Marked(store.heap[p])  BY <1>6
  <2>2. Fresh(p)  BY <2>1 DEF MarkInv
  <2>3. p # Visited  BY <1>4
  <2>4. p \in ToSet(store'.displayed)  BY <1>2, <2>2, <2>3 DEF Fresh
  <2>5. store'.heap[p].closing = NotMarked \/ store'.heap[p].removing = NotMarked
    BY <1>6, <2>2 DEF Fresh
  <2> QED  BY <1>1, <2>4, <2>5 DEF Fresh
<1> QED  BY <1>7, <1>8 DEF MarkInv

LEMMA MarkKept ==
  ASSUME MarksAlone, IInv, IInv', Tidy(store), MarkInv, [Next]_vars
  PROVE  MarkInv'
<1>0. UpdateInv /\ Surroundings /\ UpdateInv' /\ Good(store)
  BY IInvParts, IInvPartsNext DEF UpdateInv
<1>1. CASE UNCHANGED vars
  BY <1>1 DEF vars, control, mouse, MarkInv, Fresh, Sound
<1>2. CASE Next
  <2>0. Sound(acts')
    BY <1>0, <1>2, ActsStaySound DEF MarkInv, Surroundings
  <2>1. CASE Marks  BY <1>0, <2>0, <2>1, MarkMarks
  <2>2. CASE RetireVisit  BY <1>0, <2>0, <2>2, VisitMarks
  <2>3. CASE ClickDone
    <3>1. /\ store' = Quiet /\ pc' = "retire" /\ left' = Len(Quiet.displayed)
          /\ acts' = acts
      BY <2>3 DEF ClickDone, WakeUp, RunWith
    <3>2. /\ SameQueues(store', store) /\ store'.heap = store.heap
      BY <1>0, <3>1, QuietKeeps
    <3>3. Queued(store') = Queued(store)  BY <3>2 DEF SameQueues, Queued
    <3>4. left' = Len(store'.displayed)  BY <3>1
    <3>5. PassedBy(store', left') = {}
      <4>1. Good(store') /\ left' \in Nat  BY <1>0 DEF UpdateInv
      <4> QED  BY <3>4, <4>1, PassedAreShown
    <3>6. \A p \in Queued(store') : Marked(store'.heap[p]) => Fresh(p)'
      BY <3>1, <3>2, <3>3 DEF MarkInv, Fresh, SameQueues
    <3> QED  BY <2>0, <3>5, <3>6 DEF MarkInv
  <2>4. CASE ~Marks /\ ~RetireVisit /\ ~ClickDone
    <3>1. Clean(store)
      <4> SUFFICES ASSUME NEW p \in Queued(store), Marked(store.heap[p])
                   PROVE  FALSE
        BY DEF Clean
      <4>1. Fresh(p)  BY DEF MarkInv
      <4>2. CASE pc = "click"
        <5>1. ClickCloseAll  BY <1>2, <2>4, <4>2, ClickSteps
        <5>2. acts # <<>> /\ Head(acts) = "close_all"
          BY <5>1 DEF ClickCloseAll, ClickAct
        <5>3. acts \in Seq(Acts)  BY <1>0 DEF Surroundings
        <5>4. 1 \in 1..Len(acts) /\ Head(acts) = acts[1]
          BY <5>2, <5>3, TailFollows
        <5> QED  BY <4>1, <4>2, <5>2, <5>4 DEF Fresh
      <4>3. CASE pc = "retire"
        <5>1. RetireDone  BY <1>2, <2>4, <4>3, RetireSteps
        <5>2. left = 0 /\ left \in Nat  BY <5>1 DEF RetireDone
        <5>3. PassedBy(store, left) = ToSet(store.displayed)
          BY <1>0, <5>2, PassedAreShown
        <5> QED  BY <4>1, <4>3, <5>3 DEF MarkInv, Fresh
      <4> QED  BY <4>1, <4>2, <4>3 DEF Fresh
    <3>2. Clean(store')  BY <1>0, <1>2, <2>4, <3>1, CleanStep
    <3> QED  BY <1>0, <2>0, <3>2, CleanIsEnough
  <2> QED  BY <2>1, <2>2, <2>3, <2>4
<1> QED  BY <1>1, <1>2

LEMMA MarkHolds ==
  ASSUME ClientIds # "any", MarksAlone
  PROVE  Spec => []MarkInv
<1>1. Init => MarkInv
  <2> SUFFICES ASSUME Init  PROVE MarkInv  OBVIOUS
  <2>1. Queued(store) = {}
    BY NoElements DEF Init, EmptyStore, Queued
  <2>2. Sound(acts)
    <3>1. Len(acts) = 0  BY EmptySeq DEF Init
    <3> QED  BY <3>1 DEF Sound
  <2> QED  BY <2>1, <2>2 DEF MarkInv, Init
<1>2. IInv /\ IInv' /\ Tidy(store) /\ MarkInv /\ [Next]_vars => MarkInv'
  BY MarkKept
<1> QED  BY <1>1, <1>2, IInvHolds, TidyHolds, PTL DEF Spec

(* A mark of the mouse is used up by the wake-up that follows the click,   *)
(* when no action list closes everything behind a mark, or both closes and *)
(* removes: close_all pushes a marked notification to history with its     *)
(* mark, and closing one by its first mark leaves it the second.           *)
THEOREM MarksAreUsedUp ==
  ASSUME ClientIds # "any", MarksAlone
  PROVE  Spec => []NoStaleMark
<1>1. MarkInv => NoStaleMark
  <2> SUFFICES ASSUME MarkInv, pc = "idle", NEW p \in Queued(store)
               PROVE  ~Marked(store.heap[p])
    BY DEF NoStaleMark, AtRest, Owned, Open, Queued, Marked, displayed, waiting,
           history, heap
  <2> QED  BY DEF MarkInv, Fresh
<1> QED  BY <1>1, MarkHolds, PTL

---------------------------------------------------------------------------
(* What is removed                                                         *)

(* The search of history for the id of a closed notification finds it.     *)
LEMMA HistoryForgets ==
  ASSUME NEW q, Good(q), Tidy(q), NEW p, NEW id,
         p \notin ToSet(q.displayed) \cup ToSet(q.waiting),
         p \in Queued(q) => q.heap[p].id = id
  PROVE  p \notin Queued(HistoryRemoveById(q, id))
<1> DEFINE at == FirstWithId(q, q.history, id)
           h  == HistoryRemoveById(q, id)
<1>0. /\ q \in Store /\ q.history \in Seq(Ptr) /\ IsInjective(q.history)
      /\ Queued(q) \subseteq Ptr
  BY GoodFacts
<1>1. h.displayed = q.displayed /\ h.waiting = q.waiting
  BY HistoryRemoveByIdKeeps
<1>2. Queued(h) \subseteq Queued(q)
  BY HistoryRemoveOrderly DEF Orderly, Kept
<1>3. CASE p \notin Queued(q)  BY <1>2, <1>3
<1>4. CASE p \in Queued(q)
  <2>1. p \in ToSet(q.history) /\ q.heap[p].id = id  BY <1>4 DEF Queued
  <2>2. at # 0  BY <1>0, <2>1, NotFound
  <2> DEFINE s == q.history
  <2>3. at \in 1..Len(s) /\ q.heap[s[at]].id = id /\ s[at] \in ToSet(s)
    <3>1. s \in Seq(Ptr) /\ FirstWithId(q, s, id) # 0  BY <1>0, <2>2
    <3>2. at = FirstWithId(q, s, id)  OBVIOUS
    <3> HIDE DEF s
    <3>3. /\ FirstWithId(q, s, id) \in 1..Len(s)
          /\ q.heap[s[FirstWithId(q, s, id)]].id = id
          /\ s[FirstWithId(q, s, id)] \in ToSet(s)
      BY <3>1, FoundHasId
    <3> HIDE DEF at
    <3> QED  BY <3>2, <3>3
  <2>4. s[at] = p  BY <1>4, <2>1, <2>3 DEF Tidy, Unique, Queued
  <2>5. h = [Unref(q, p) EXCEPT !.history = RemoveAt(Unref(q, p).history, at)]
    BY <2>2, <2>4 DEF HistoryRemoveById
  <2> HIDE DEF at
  <2>6. h.history = RemoveAt(s, at)
    BY <1>0, <2>5 DEF Unref, Store
  <2> HIDE DEF h
  <2>7. ToSet(RemoveAt(s, at)) = ToSet(s) \ {p}
    <3> HIDE DEF s
    <3>1. s \in Seq(Ptr) /\ IsInjective(s)  BY <1>0 DEF s
    <3> QED  BY <2>3, <2>4, <3>1, Removed
  <2> QED  BY <1>1, <2>6, <2>7 DEF Queued, h
<1> QED  BY <1>3, <1>4

LEMMA RemovedLeaves ==
  ASSUME UpdateInv, Tidy(store), RetireRemoved
  PROVE  Visited \notin Queued(store')
<1> DEFINE p  == Visited
           n  == store.heap[p]
           at == Len(store.displayed) - left + 1
           q  == NotificationClose(Quiet, p, n.removing)
           h  == HistoryRemoveById(q, n.id)
<1>1. /\ p \in Ptr /\ n \in Note /\ Good(store)
      /\ at \in 1..Len(store.displayed) /\ p = store.displayed[at]
      /\ n = heap[Visited]
  BY VisitedIsThere DEF RetireRemoved, UpdateInv, heap, displayed, Visited
<1>2. /\ Good(Quiet) /\ Tidy(Quiet) /\ SameQueues(Quiet, store)
      /\ Quiet.heap = store.heap
  BY <1>1, QuietTidy
<1>3. n.removing \in Reasons  BY <1>1 DEF RetireRemoved, Note
<1>4. /\ Good(q) /\ Orderly(q, Quiet)
      /\ p \notin ToSet(q.displayed) \cup ToSet(q.waiting)
  <2>1. at \in 1..Len(Quiet.displayed) /\ Quiet.displayed[at] = p
    BY <1>1, <1>2 DEF SameQueues
  <2> HIDE DEF p, n, at
  <2> QED  BY <1>2, <1>3, <2>1, ClosesTheShown
<1>5. \/ store' = Unmark(q, p, "removing") /\ q.heap[p] = Freed
      \/ store' = Unmark(h, p, "removing")
  BY <1>1, <1>2 DEF RetireRemoved, Retire, NotificationRemove
<1>6. p \in Queued(q) => q.heap[p].id = n.id
  BY <1>2, <1>4 DEF Orderly, Kept
<1> HIDE DEF q
<1>7. Tidy(q)  BY <1>2, <1>4, TidyKept
<1>8. Good(h) /\ p \notin Queued(h)
  BY <1>4, <1>6, <1>7, HistoryForgets, HistoryRemoveByIdKeeps
<1> HIDE DEF h
<1>9. q.heap[p] = Freed => p \notin Queued(q)
  BY <1>4, GoodFacts
<1> HIDE DEF p, n, at
<1>10. /\ SameQueues(Unmark(q, p, "removing"), q)
       /\ SameQueues(Unmark(h, p, "removing"), h)
  BY <1>1, <1>4, <1>8, UnmarkEffect
<1>11. p \notin Queued(store')
  BY <1>5, <1>8, <1>9, <1>10 DEF SameQueues, Queued
<1> QED  BY <1>11 DEF p

(* What the mouse removes is in no queue afterwards, not even in history:  *)
(* the id queues_notification_remove searches history for is the id of no  *)
(* other notification.                                                     *)
THEOREM RemovedStaysAway ==
  ASSUME ClientIds # "any", MarksAlone
  PROVE  Spec => RemovedIsGone
<1>1. /\ IInv /\ Tidy(store) /\ MarkInv /\ [Next]_vars
      => [\A p \in ToSet(displayed) :
            heap[p].removing # NotMarked /\ p \notin ToSet(displayed')
              => p \notin Owned']_vars
  <2> SUFFICES ASSUME IInv, Tidy(store), MarkInv, Next,
                      NEW p \in ToSet(store.displayed),
                      store.heap[p].removing # NotMarked,
                      p \notin ToSet(store'.displayed)
               PROVE  p \notin Queued(store')
    BY DEF displayed, heap, Owned, Open, Queued, waiting, history
  <2>0. UpdateInv /\ Good(store)  BY IInvParts DEF UpdateInv
  <2>1. p \in Queued(store)  BY DEF Queued
  <2>2. Fresh(p) /\ store.heap[p].closing = NotMarked /\ ~store.heap[p].locked
    <3>1. Fresh(p)  BY <2>1 DEF MarkInv, Marked
    <3>2. store.heap[p] # Freed /\ p \in Ptr  BY <2>0, <2>1, GoodFacts
    <3> QED  BY <3>1, <3>2 DEF Fresh, Tidy
  <2>3. Quiet.displayed = store.displayed
    BY <2>0, QuietKeeps DEF SameQueues
  <2>4. CASE pc = "click"
    <3>1. ~ClickDone /\ ~ClickCloseAll
      BY <2>3 DEF ClickDone, WakeUp, RunWith, ClickCloseAll
    <3>2. Marks  BY <2>4, <3>1, ClickSteps
    <3>3. \/ store' = Quiet
          \/ \E o \in ToSet(displayed), m \in Note :
               o \in Ptr /\ store' = [Quiet EXCEPT !.heap[o] = m]
      BY <2>0, <3>2, MarksEffect
    <3>4. store'.displayed = Quiet.displayed
      BY <2>0, <3>3, QuietKeeps DEF Good, Store
    <3> QED  BY <2>3, <3>4
  <2>5. CASE pc = "retire"
    <3>1. ~RetireDone  BY <2>3 DEF RetireDone
    <3>2. RetireVisit  BY <2>5, <3>1, RetireSteps
    <3>3. p = Visited  BY <2>0, <3>2, VisitPasses
    <3>4. RetireRemoved
      BY <2>2, <3>2, <3>3
        DEF RetireVisit, RetireMarked, RetireFinished, RetireSuppressed,
            RetirePushback, RetireKeep, Stays, heap
    <3> QED  BY <2>0, <3>3, <3>4, RemovedLeaves
  <2> QED  BY <2>2, <2>4, <2>5 DEF Fresh
<1> QED
  BY <1>1, IInvHolds, TidyHolds, MarkHolds, PTL DEF Spec, RemovedIsGone

---------------------------------------------------------------------------
(* What is displayed at rest                                               *)

(* n may be on the screen in the present state of the desktop, *)
Shows(n, st) == ~Suppressed(n, st) /\ IsReady(n, st, TRUE)

(* and was not sent to stay off it. *)
Fine(n, st) == Shows(n, st) /\ ~SkipsDisplay(n)

(* The first loop passes, and the second adds, only what may be displayed; *)
(* the swaps of the fourth do not ask for skip_display.                    *)
DispInv ==
  /\ pc = "retire" => \A p \in PassedBy(store, left) : Fine(store.heap[p], status)
  /\ pc \in {"fill", "trim"} =>
       \A p \in ToSet(store.displayed) : Fine(store.heap[p], status)
  /\ pc = "seep" =>
       Sort # "id" /\ \A p \in ToSet(store.displayed) : Shows(store.heap[p], status)
  /\ pc = "finish" => \A p \in ToSet(store.displayed) :
       /\ Shows(store.heap[p], status)
       /\ SkipsDisplay(store.heap[p]) =>
            Sort # "id" /\ limit # 0 /\ Len(store.displayed) = limit

LEMMA ReadyShows ==
  ASSUME NEW n, IsReady(n, status, FALSE)
  PROVE  Shows(n, status)
BY DEF IsReady, Shows, Suppressed

LEMMA FineStays ==
  ASSUME NEW n, NEW m, status' = status, m.kind = n.kind,
         n.redisplayed => m.redisplayed
  PROVE  (Shows(n, status) => Shows(m, status')) /\ (Fine(n, status) => Fine(m, status'))
BY DEF Shows, Fine, Suppressed, IsReady, SkipsDisplay

(* run starts queues_update with everything still to visit. *)
LEMMA RunStarts ==
  ASSUME Next, pc # "retire", pc' = "retire"
  PROVE  left' = Len(store'.displayed)
<1>1. ASSUME NEW q, NEW st, RunWith(q, st)  PROVE left' = Len(store'.displayed)
  BY <1>1 DEF RunWith
<1>2. CASE DBusMethod
  BY <1>1, <1>2 DEF DBusMethod, Notify, CloseNotification, CloseLast, Show,
       PopHistory, RemoveFromHistory, ClearHistory, SetPauseLevel, CloseAll,
       WakeUp
<1>3. CASE MouseEvent
  BY <1>1, <1>3 DEF MouseEvent, PointerMoves, Click
<1>4. CASE HandlerStep
  BY <1>1, <1>4 DEF HandlerStep, ClickCloseAll, ClickCloseCurrent,
       ClickRemoveCurrent, ClickDone, PushAllStep, PushAllDone, Mark, ClickAct,
       WakeUp, control
<1>5. CASE TimePasses  BY <1>5 DEF TimePasses, control
<1>6. CASE TimerFires \/ OutputChanges
  BY <1>1, <1>6 DEF TimerFires, OutputChanges, WakeUp
<1>7. CASE UpdateStep
  BY <1>7 DEF UpdateStep, RetireMarked, RetireRemoved, RetireFinished,
       RetireSuppressed, RetirePushback, RetireKeep, RetireDone, Retire, Retiring,
       FillSuppressed, FillNotReady, FillSkipsDisplay, FillDisplay, FillDone,
       Fill, Filling, TrimStep, TrimDone, SeepSwap, SeepDone, control
<1>8. CASE Finish  BY <1>8 DEF Finish
<1> QED
  BY <1>2, <1>3, <1>4, <1>5, <1>6, <1>7, <1>8 DEF Next, RunStep

LEMMA InsertedOnes ==
  ASSUME NEW q, NEW s \in Seq(Ptr), NEW p \in Ptr, IsInjective(s),
         p \notin ToSet(s)
  PROVE  ToSet(InsertSorted(q, s, p)) = ToSet(s) \cup {p}
BY InsertSortedProperties

(* The loops behind the first display nothing that may not be displayed. *)
LEMMA LoopDisplays ==
  ASSUME UpdateInv, UpdateStep, ~RetireVisit
  PROVE  \A p \in ToSet(store'.displayed) :
           \/ p \in ToSet(store.displayed)
           \/ /\ pc = "fill" /\ p \in Queued(store) /\ Fine(store.heap[p], status)
           \/ /\ pc = "seep" /\ p \in Queued(store) /\ Shows(store.heap[p], status)
<1>0. /\ Good(store) /\ Good(Quiet) /\ SameQueues(Quiet, store)
      /\ Quiet.heap = store.heap
  BY QuietKeeps DEF UpdateInv
<1>1. CASE store' = Quiet
  BY <1>0, <1>1 DEF SameQueues
<1>2. CASE FillSuppressed \/ FillSkipsDisplay
  <2> DEFINE r == Started(Quiet, Candidate)
  <2>1. Filling  BY <1>2 DEF FillSuppressed, FillSkipsDisplay
  <2>2. Good(r) /\ SameQueues(r, store)  BY <2>1, StartedCandidate
  <2>3. PICK reason \in Reasons : store' = NotificationClose(r, Candidate, reason)
    BY <1>2 DEF FillSuppressed, FillSkipsDisplay, Fill, Reasons
  <2> HIDE DEF r
  <2>4. ToSet(store'.displayed) \subseteq ToSet(r.displayed)
    BY <2>2, <2>3, CloseIdOpen DEF NotificationClose
  <2> QED  BY <2>2, <2>4 DEF SameQueues
<1>3. CASE FillDisplay
  <2> DEFINE r == Started(Quiet, Candidate)
             at == Len(waiting) - left + 1
  <2>1. Filling /\ pc = "fill"  BY <1>3 DEF FillDisplay, Filling
  <2>2. /\ Good(r) /\ SameQueues(r, store)
        /\ at \in 1..Len(waiting) /\ Candidate \in Ptr /\ Candidate = waiting[at]
    BY <2>1, StartedCandidate, CandidateIsThere DEF Candidate
  <2> HIDE DEF at
  <2>3. Candidate \in ToSet(store.waiting)
    <3>1. waiting \in Seq(Ptr)  BY <1>0, GoodFacts DEF waiting
    <3> QED  BY <2>2, <3>1, Elements DEF waiting
  <2>4. Candidate \in Queued(store) /\ Fine(store.heap[Candidate], status)
    <3>1. IsReady(heap[Candidate], status, FALSE) /\ ~SkipsDisplay(heap[Candidate])
      BY <1>3 DEF FillDisplay
    <3>2. Shows(heap[Candidate], status)  BY <3>1, ReadyShows
    <3> QED  BY <2>3, <3>1, <3>2 DEF Queued, Fine, heap
  <2>5. store'.displayed = InsertSorted(r, r.displayed, Candidate)
    <3>1. store' = [r EXCEPT
                !.waiting = RemoveAt(r.waiting, Len(r.waiting) - left + 1),
                !.displayed = InsertSorted(r, r.displayed, Candidate)]
      BY <1>3 DEF FillDisplay, Fill
    <3> HIDE DEF r
    <3> QED  BY <2>2, <3>1, GoodFacts DEF Store
  <2>6. /\ r.displayed \in Seq(Ptr) /\ IsInjective(r.displayed)
        /\ Candidate \notin ToSet(r.displayed)
    BY <1>0, <2>2, <2>3, GoodFacts DEF SameQueues
  <2> HIDE DEF r
  <2>7. ToSet(store'.displayed) = ToSet(store.displayed) \cup {Candidate}
    BY <2>2, <2>5, <2>6, InsertedOnes DEF SameQueues
  <2> QED  BY <2>1, <2>4, <2>7
<1>4. CASE TrimStep
  <2>1. /\ store.displayed \in Seq(Ptr) /\ IsInjective(store.displayed)
        /\ Len(store.displayed) \in Nat /\ limit \in Nat /\ Quiet \in Store
        /\ Quiet.displayed = store.displayed
    BY <1>0, GoodFacts, LenProperties DEF UpdateInv, SameQueues
  <2>2. Len(store.displayed) > limit
    BY <1>4 DEF TrimStep, Overhang, displayed
  <2>3. store.displayed # <<>>
    <3>1. Len(store.displayed) # 0  BY <2>1, <2>2
    <3> QED  BY <2>1, <3>1, EmptySeq
  <2>4. store'.displayed = Front(store.displayed)
    BY <1>4, <2>1 DEF TrimStep, Store
  <2> QED  BY <2>1, <2>3, <2>4, FrontTaken
<1>5. CASE SeepSwap
  <2> DEFINE up == store.waiting[1]
             r  == Started(Quiet, up)
             f  == Front(store.displayed)
  <2>1. /\ store.displayed \in Seq(Ptr) /\ IsInjective(store.displayed)
        /\ store.waiting \in Seq(Ptr) /\ store.displayed # <<>>
        /\ store.waiting # <<>>
        /\ ToSet(store.displayed) \cap ToSet(store.waiting) = {}
    BY <1>0, <1>5, GoodFacts DEF SeepSwap, Seeps, displayed, waiting
  <2>2. up \in Ptr /\ up \in ToSet(store.waiting)
    <3>1. Len(store.waiting) \in Nat /\ Len(store.waiting) # 0
      BY <2>1, EmptySeq, LenProperties
    <3>2. 1 \in 1..Len(store.waiting)  BY <3>1
    <3> QED  BY <2>1, <3>2, Elements
  <2>3. pc = "seep" /\ up \in Queued(store) /\ Shows(store.heap[up], status)
    <3>1. pc = "seep" /\ IsReady(store.heap[up], status, FALSE)
      BY <1>5 DEF SeepSwap, Seeps, heap, waiting
    <3> QED  BY <2>2, <3>1, ReadyShows DEF Queued
  <2>4. /\ f \in Seq(Ptr) /\ IsInjective(f)
        /\ ToSet(f) \subseteq ToSet(store.displayed) /\ up \notin ToSet(f)
    BY <2>1, <2>2, FrontTaken
  <2>5. Quiet.heap[up] \in Note
    BY <1>0, <2>2, GoodFacts DEF Queued
  <2>6. SameQueues(r, store) /\ r \in Store
    <3>1. Good(r) /\ SameQueues(r, Quiet)  BY <1>0, <2>2, <2>5, HeldKeeps
    <3> QED  BY <1>0, <3>1, GoodFacts DEF SameQueues
  <2>7. store' = [r EXCEPT !.displayed = InsertSorted(r, Front(r.displayed), up),
                           !.waiting = InsertSorted(r, Tail(r.waiting),
                                                    Last(store.displayed))]
    BY <1>5 DEF SeepSwap, displayed, waiting
  <2> HIDE DEF r
  <2>8. store'.displayed = InsertSorted(r, f, up)
    BY <2>6, <2>7 DEF Store, SameQueues
  <2> HIDE DEF f, up
  <2>9. ToSet(store'.displayed) = ToSet(f) \cup {up}
    BY <2>2, <2>4, <2>8, InsertedOnes
  <2> QED  BY <2>3, <2>4, <2>9
<1>6. CASE FillNotReady \/ FillDone \/ RetireDone \/ TrimDone \/ SeepDone
  <2>1. store' = Quiet
    BY <1>6 DEF FillNotReady, Fill, FillDone, RetireDone, TrimDone, SeepDone
  <2> QED  BY <1>1, <2>1
<1> QED
  BY <1>2, <1>3, <1>4, <1>5, <1>6 DEF UpdateStep, RetireVisit

LEMMA LoopsFollow ==
  ASSUME UpdateStep
  PROVE  /\ pc' = "fill" => RetireDone \/ pc = "fill"
         /\ pc' = "trim" => pc \in {"fill", "trim"}
         /\ pc' \in Loops => ~RetireVisit
BY DEF UpdateStep, RetireVisit, RetireMarked, RetireRemoved, RetireFinished,
       RetireSuppressed, RetirePushback, RetireKeep, RetireDone, Retire,
       Retiring, FillSuppressed, FillNotReady, FillSkipsDisplay, FillDisplay,
       FillDone, Fill, Filling, TrimStep, TrimDone, SeepSwap, SeepDone, control, Loops

LEMMA VisitDisplays ==
  ASSUME UpdateInv, UpdateInv', Tidy(store), DispInv, RetireVisit,
         status' = status
  PROVE  DispInv'
<1>1. /\ pc' = "retire" /\ pc = "retire" /\ UpdateStep
  BY VisitEffect DEF Retiring, RetireVisit, UpdateStep
<1>2. /\ \A p \in PassedBy(store', left') :
           p \in PassedBy(store, left) \/ (RetireKeep /\ p = Visited)
      /\ Visited \in ToSet(store.displayed)
  BY VisitPasses
<1>3. Calm(store', store)  BY <1>1, CalmUpdate
<1>4. PassedBy(store', left') \subseteq Queued(store')
  <2>1. PassedBy(store', left') \subseteq ToSet(store'.displayed)
    BY PassedAreShown DEF UpdateInv
  <2> QED  BY <2>1 DEF Queued
<1>5. RetireKeep => Fine(store.heap[Visited], status)
  <2>1. Visited \in Queued(store)  BY <1>2 DEF Queued
  <2>2. ~store.heap[Visited].locked
    BY <2>1, GoodFacts DEF UpdateInv, Tidy
  <2> QED  BY <2>2 DEF RetireKeep, IsFinished, Fine, Shows, heap
<1>6. \A p \in PassedBy(store', left') : Fine(store.heap[p], status)
  BY <1>1, <1>2, <1>5 DEF DispInv
<1>7. \A p \in PassedBy(store', left') : Fine(store'.heap[p], status')
  BY <1>3, <1>4, <1>6, FineStays DEF Calm
<1> QED  BY <1>1, <1>7 DEF DispInv

LEMMA DispKept ==
  ASSUME IInv, IInv', Tidy(store), LimitInv, DispInv, [Next]_vars
  PROVE  DispInv'
<1>0. UpdateInv /\ UpdateInv' /\ Good(store)
  BY IInvParts, IInvPartsNext DEF UpdateInv
<1>1. CASE UNCHANGED vars
  BY <1>1 DEF vars, control, DispInv, Fine, Shows
<1>2. CASE pc' \notin Loops \cup {"retire"}
  BY <1>2 DEF DispInv, Loops
<1>3. CASE Next /\ pc' = "retire"
  <2>1. CASE pc = "retire"
    <3>1. RetireVisit /\ status' = status
      BY <1>3, <2>1, RetireSteps DEF RetireDone
    <3> QED  BY <1>0, <3>1, VisitDisplays
  <2>2. CASE pc # "retire"
    <3>1. left' = Len(store'.displayed)  BY <1>3, <2>2, RunStarts
    <3>2. PassedBy(store', left') = {}
      <4>1. Good(store') /\ left' \in Nat  BY <1>0 DEF UpdateInv
      <4> QED  BY <3>1, <4>1, PassedAreShown
    <3> QED  BY <1>3, <3>2 DEF DispInv
  <2> QED  BY <2>1, <2>2
<1>4. CASE Next /\ pc' \in Loops
  <2>0. UpdateStep /\ status' = status /\ ~RetireVisit
    BY <1>4, LoopSteps, LoopsFollow DEF Loops
  <2>1. Calm(store', store)  BY <1>0, <2>0, CalmUpdate
  <2>2. \A p \in ToSet(store'.displayed) :
           \/ p \in ToSet(store.displayed)
           \/ /\ pc = "fill" /\ p \in Queued(store) /\ Fine(store.heap[p], status)
           \/ /\ pc = "seep" /\ p \in Queued(store) /\ Shows(store.heap[p], status)
    BY <1>0, <2>0, LoopDisplays
  <2>3. ASSUME NEW p \in ToSet(store'.displayed)
        PROVE  /\ Shows(store.heap[p], status) => Shows(store'.heap[p], status')
               /\ Fine(store.heap[p], status) => Fine(store'.heap[p], status')
    <3>1. p \in Queued(store')  BY DEF Queued
    <3> QED  BY <2>0, <2>1, <3>1, FineStays DEF Calm
  <2>4. Good(Quiet) /\ SameQueues(Quiet, store) /\ Quiet.heap = store.heap
    BY <1>0, QuietKeeps
  <2>5. CASE pc' = "fill"
    <3>1. \A p \in ToSet(store.displayed) : Fine(store.heap[p], status)
      <4>1. CASE RetireDone
        <5>1. pc = "retire" /\ left = 0 /\ left \in Nat
          BY <4>1 DEF RetireDone
        <5>2. PassedBy(store, left) = ToSet(store.displayed)
          BY <1>0, <5>1, PassedAreShown
        <5> QED  BY <5>1, <5>2 DEF DispInv
      <4>2. CASE pc = "fill"  BY <4>2 DEF DispInv
      <4> QED  BY <2>0, <2>5, <4>1, <4>2, LoopsFollow
    <3>2. pc # "seep"
      BY <2>0, <2>5, LoopsFollow DEF RetireDone
    <3>3. \A p \in ToSet(store'.displayed) : Fine(store'.heap[p], status')
      BY <2>2, <2>3, <3>1, <3>2
    <3> QED  BY <2>5, <3>3 DEF DispInv
  <2>6. CASE pc' = "trim"
    <3>1. pc \in {"fill", "trim"}  BY <2>0, <2>6, LoopsFollow
    <3>2. \A p \in ToSet(store'.displayed) : Fine(store'.heap[p], status')
      BY <2>2, <2>3, <3>1 DEF DispInv
    <3> QED  BY <2>6, <3>2 DEF DispInv
  <2>7. CASE pc' = "seep"
    <3>1. \/ pc = "trim" /\ Sort # "id"
          \/ pc = "seep"
      BY <2>0, <2>7, SeepMoves DEF TrimDone, SeepSwap
    <3>2. Sort # "id" /\ \A p \in ToSet(store.displayed) : Shows(store.heap[p], status)
      BY <3>1 DEF DispInv, Fine
    <3>3. \A p \in ToSet(store'.displayed) : Shows(store'.heap[p], status')
      BY <2>2, <2>3, <3>2 DEF Fine
    <3> QED  BY <2>7, <3>2, <3>3 DEF DispInv
  <2>8. CASE pc' = "finish"
    <3>1. store' = Quiet /\ limit' = limit
      BY <2>0, <2>8, FinishMoves DEF TrimDone, SeepDone
    <3>2. store'.displayed = store.displayed /\ store'.heap = store.heap
      BY <2>4, <3>1 DEF SameQueues
    <3>3. \/ pc = "trim"
          \/ pc = "seep" /\ limit # 0 /\ Len(store.displayed) = limit
      BY <2>0, <2>8, FinishMoves DEF TrimDone, SeepDone, LimitInv
    <3>4. \A p \in ToSet(store.displayed) :
            /\ Shows(store.heap[p], status)
            /\ SkipsDisplay(store.heap[p]) =>
                 Sort # "id" /\ limit # 0 /\ Len(store.displayed) = limit
      BY <3>3 DEF DispInv, Fine
    <3>5. \A p \in ToSet(store'.displayed) : Shows(store'.heap[p], status')
      BY <2>3, <3>2, <3>4
    <3> QED  BY <2>8, <3>1, <3>2, <3>4, <3>5 DEF DispInv
  <2> QED  BY <1>4, <2>5, <2>6, <2>7, <2>8 DEF Loops
<1> QED  BY <1>1, <1>2, <1>3, <1>4

LEMMA DispHolds ==
  ASSUME ClientIds # "any"
  PROVE  Spec => []DispInv
<1>1. Init => DispInv  BY DEF Init, DispInv
<1>2. /\ IInv /\ IInv' /\ Tidy(store) /\ LimitInv /\ DispInv /\ [Next]_vars
      => DispInv'
  BY DispKept
<1> QED  BY <1>1, <1>2, IInvHolds, TidyHolds, LimitHolds, PTL DEF Spec

(* The limit the loops end with is what IsFull asks for. *)
LEMMA FullByLimit ==
  ASSUME UpdateInv, LimitInv, pc = "finish", limit # 0,
         Len(store.displayed) = limit
  PROVE  IsFull
<1> DEFINE d == Len(store.displayed)
           w == Len(store.waiting)
<1>1. \/ /\ limit = NotificationLimit
         /\ IndicateHidden /\ NotificationLimit > 1 => d + w <= NotificationLimit
      \/ limit = NotificationLimit - 1 /\ IndicateHidden /\ NotificationLimit > 1
  BY DEF LimitInv, Loops, TotalIn
<1>2. d \in Nat /\ w \in Nat /\ NotificationLimit \in Nat /\ d = limit
  BY TotalTyped, UpdateAssumption DEF UpdateInv
<1>3. DisplayedLimit = IF /\ IndicateHidden /\ NotificationLimit > 1
                          /\ d + w > NotificationLimit
                       THEN NotificationLimit - 1 ELSE NotificationLimit
  BY DEF DisplayedLimit, displayed, waiting
<1>4. Len(displayed) = d  BY DEF displayed
<1> HIDE DEF d, w
<1>5. NotificationLimit # 0
  BY <1>1, <1>2
<1>6. d = DisplayedLimit
      \/ (IndicateHidden /\ NotificationLimit > 1 /\ d = NotificationLimit - 1)
  BY <1>1, <1>2, <1>3
<1> QED  BY <1>4, <1>5, <1>6 DEF IsFull

(* At rest everything displayed may be displayed: not marked, suppressed,  *)
(* paused or pushed back in the present state of the desktop, and with     *)
(* skip_display only where the fourth loop has swapped it in.              *)
THEOREM DisplayedMayBeShown ==
  ASSUME ClientIds # "any", MarksAlone
  PROVE  Spec => []RestingDisplay
<1>1. Init => RestingDisplay
  BY NoElements DEF Init, EmptyStore, RestingDisplay, displayed
<1>2. /\ IInv /\ IInv' /\ LimitInv /\ DispInv /\ MarkInv' /\ RestingDisplay
      /\ [Next]_vars
      => RestingDisplay'
  <2> SUFFICES ASSUME IInv, IInv', LimitInv, DispInv, MarkInv', RestingDisplay,
                      [Next]_vars, pc' = "idle",
                      NEW p \in ToSet(store'.displayed), ~store'.heap[p].locked
               PROVE  LET n == store'.heap[p] IN
                      /\ n.closing = NotMarked /\ n.removing = NotMarked
                      /\ SkipsDisplay(n) => Sort # "id" /\ IsFull'
                      /\ ~Suppressed(n, status') /\ IsReady(n, status', TRUE)
    BY DEF RestingDisplay, AtRest, displayed, heap
  <2>0. UpdateInv /\ Good(store)  BY IInvParts DEF UpdateInv
  <2>1. store'.heap[p].closing = NotMarked /\ store'.heap[p].removing = NotMarked
    <3>1. p \in Queued(store')  BY DEF Queued
    <3> QED  BY <3>1 DEF MarkInv, Marked, Fresh
  <2>2. CASE Finish
    <3>1. /\ SameQueues(store', store) /\ store'.heap = store.heap
          /\ pc = "finish" /\ status' = status
      BY <2>0, <2>2, FinishEffect DEF Finish
    <3>2. /\ Shows(store.heap[p], status)
          /\ SkipsDisplay(store.heap[p]) =>
               Sort # "id" /\ limit # 0 /\ Len(store.displayed) = limit
      BY <3>1 DEF DispInv, SameQueues
    <3>3. SkipsDisplay(store.heap[p]) => Sort # "id" /\ IsFull
      BY <2>0, <3>1, <3>2, FullByLimit
    <3>4. IsFull' = IsFull
      BY <3>1 DEF SameQueues, IsFull, DisplayedLimit, displayed, waiting
    <3> QED  BY <2>1, <3>1, <3>2, <3>3, <3>4 DEF Shows
  <2>3. CASE TimePasses /\ pc = "idle"
    <3>1. /\ SameQueues(store', store) /\ status' = status
          /\ \A o \in Queued(store) : Alike(store'.heap[o], store.heap[o])
      BY <2>0, <2>3, TimePassesEffect
    <3>2. p \in ToSet(store.displayed) /\ p \in Queued(store)
      BY <3>1 DEF SameQueues, Queued
    <3> DEFINE m == store.heap[p]
               n == store'.heap[p]
    <3>3. n.kind = m.kind /\ n.redisplayed = m.redisplayed /\ n.locked = m.locked
      BY <3>1, <3>2 DEF Alike
    <3>4. /\ SkipsDisplay(m) => Sort # "id" /\ IsFull
          /\ ~Suppressed(m, status) /\ IsReady(m, status, TRUE)
      BY <2>3, <3>2, <3>3 DEF RestingDisplay, AtRest, displayed, heap
    <3>5. IsFull' = IsFull
      BY <3>1 DEF SameQueues, IsFull, DisplayedLimit, displayed, waiting
    <3> HIDE DEF m, n
    <3>6. /\ SkipsDisplay(n) => Sort # "id" /\ IsFull'
          /\ ~Suppressed(n, status') /\ IsReady(n, status', TRUE)
      BY <3>1, <3>3, <3>4, <3>5 DEF SkipsDisplay, Suppressed, IsReady
    <3> QED  BY <2>1, <3>6 DEF n
  <2>4. CASE UNCHANGED vars
    BY <2>4 DEF vars, control, RestingDisplay, IsFull, AtRest, DisplayedLimit,
         displayed, waiting, heap
  <2> QED  BY <2>2, <2>3, <2>4, RestingSteps
<1> QED  BY <1>1, <1>2, IInvHolds, LimitHolds, DispHolds, MarkHolds, PTL DEF Spec
=============================================================================
