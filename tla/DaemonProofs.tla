---------------------------- MODULE DaemonProofs ----------------------------
(***************************************************************************)
(* For every value of the constants: the state of dunst keeps its type,    *)
(* and no notification is ever queued twice or freed while it is queued.   *)
(*                                                                         *)
(* First the operations of module Queues: each maps a store of the right   *)
(* shape in which no notification is queued twice or freed while queued to *)
(* another such store.  Then the steps of queues_update, whose loops never *)
(* visit more elements than their queue still has; then those of the       *)
(* daemon.                                                                 *)
(*                                                                         *)
(* Last what the steps of dunst do to the queues, once for every invariant *)
(* of the queues: a handler or a step of queues_update makes its change by *)
(* a handful of operations, so a set of stores that is closed under these  *)
(* is never left.  An invariant of the queues is proved by showing that    *)
(* the stores that have it are such a set.                                 *)
(***************************************************************************)
EXTENDS Daemon, SequenceLemmas

Good(q) == q \in Store /\ Owns(q)

Queued(q) == ToSet(q.displayed) \cup ToSet(q.waiting) \cup ToSet(q.history)

(* p is allocated and in no queue *)
Adrift(q, p) == /\ p \in Ptr /\ q.heap[p] \in Note
                /\ p \notin Queued(q)

(* at is a place in s, or 0 *)
PlaceIn(at, s) == at \in 0..Len(s)

---------------------------------------------------------------------------
(* Searching                                                               *)

LEMMA LeastPlace ==
  ASSUME NEW s \in Seq(Ptr), NEW I \in SUBSET (1..Len(s))
  PROVE  PlaceIn(IF I # {} THEN Min(I) ELSE 0, s)
<1>0. Len(s) \in Nat  BY LenProperties
<1>1. CASE I = {}  BY <1>0, <1>1 DEF PlaceIn
<1>2. CASE I # {}
  <2>1. I \in SUBSET Nat  BY <1>0
  <2>2. Min(I) \in I  BY <1>2, <2>1, MinExists
  <2>3. Min(I) \in 1..Len(s)  BY <2>2
  <2>4. Min(I) \in 0..Len(s)  BY <2>3, <1>0
  <2> QED  BY <1>2, <2>4, Zenon DEF PlaceIn
<1> QED  BY <1>1, <1>2

LEMMA FirstWithIdPlace ==
  ASSUME NEW q, NEW s \in Seq(Ptr), NEW id
  PROVE  PlaceIn(FirstWithId(q, s, id), s)
<1> DEFINE I == { i \in 1..Len(s) : q.heap[s[i]].id = id }
<1>1. FirstWithId(q, s, id) = IF I # {} THEN Min(I) ELSE 0
  BY Zenon DEF FirstWithId, SelectInSeq
<1>2. I \in SUBSET (1..Len(s))  OBVIOUS
<1> HIDE DEF I
<1> QED  BY <1>1, <1>2, LeastPlace

LEMMA FirstWithTagPlace ==
  ASSUME NEW q, NEW s \in Seq(Ptr), NEW p
  PROVE  PlaceIn(FirstWithTag(q, s, p), s)
<1> DEFINE I == { i \in 1..Len(s) : SameTag(q.heap[s[i]], q.heap[p]) }
<1>1. FirstWithTag(q, s, p) = IF I # {} THEN Min(I) ELSE 0
  BY Zenon DEF FirstWithTag, SelectInSeq
<1>2. I \in SUBSET (1..Len(s))  OBVIOUS
<1> HIDE DEF I
<1> QED  BY <1>1, <1>2, LeastPlace

LEMMA FirstDuplicatePlace ==
  ASSUME NEW q, NEW s \in Seq(Ptr), NEW p
  PROVE  PlaceIn(FirstDuplicate(q, s, p), s)
<1> DEFINE I == { i \in 1..Len(s) : IsDuplicate(q.heap[s[i]], q.heap[p]) }
<1>1. FirstDuplicate(q, s, p) = IF I # {} THEN Min(I) ELSE 0
  BY Zenon DEF FirstDuplicate, SelectInSeq
<1>2. I \in SUBSET (1..Len(s))  OBVIOUS
<1> HIDE DEF I
<1> QED  BY <1>1, <1>2, LeastPlace

(* g_queue_insert_sorted adds exactly p. *)
LEMMA InsertSortedProperties ==
  ASSUME NEW q, NEW s \in Seq(Ptr), NEW p \in Ptr,
         IsInjective(s), p \notin ToSet(s)
  PROVE  /\ InsertSorted(q, s, p) \in Seq(Ptr)
         /\ Len(InsertSorted(q, s, p)) = Len(s) + 1
         /\ IsInjective(InsertSorted(q, s, p))
         /\ ToSet(InsertSorted(q, s, p)) = ToSet(s) \cup {p}
<1> DEFINE I  == { i \in 1..Len(s) : Cmp(q.heap[s[i]], q.heap[p]) >= 0 }
           at == IF I # {} THEN Min(I) ELSE 0
<1>1. InsertSorted(q, s, p) =
        IF at = 0 THEN Append(s, p) ELSE InsertAt(s, at, p)
  BY Zenon DEF InsertSorted, SelectInSeq
<1>2. I \in SUBSET (1..Len(s))  OBVIOUS
<1> HIDE DEF I
<1>3. PlaceIn(at, s)  BY <1>2, LeastPlace
<1> HIDE DEF at
<1>4. CASE at = 0  BY <1>1, <1>4, Appended
<1>5. CASE at # 0
  <2>1. at \in 1..(Len(s) + 1)
    BY <1>3, <1>5, LenProperties DEF PlaceIn
  <2> QED  BY <2>1, <1>1, <1>5, Inserted
<1> QED  BY <1>4, <1>5

---------------------------------------------------------------------------
(* What Good says                                                          *)

LEMMA GoodFacts ==
  ASSUME NEW q, Good(q)
  PROVE  /\ q \in Store
         /\ q.displayed \in Seq(Ptr) /\ IsInjective(q.displayed)
         /\ q.waiting \in Seq(Ptr) /\ IsInjective(q.waiting)
         /\ q.history \in Seq(Ptr) /\ IsInjective(q.history)
         /\ ToSet(q.displayed) \cap ToSet(q.waiting) = {}
         /\ ToSet(q.displayed) \cap ToSet(q.history) = {}
         /\ ToSet(q.waiting) \cap ToSet(q.history) = {}
         /\ q.heap \in [Ptr -> Note \cup {Freed}]
         /\ q.nextId \in 1..MaxId
         /\ q.emitted \subseteq (0..MaxId) \X Reasons
         /\ \A p \in Queued(q) :
              p \in Ptr /\ q.heap[p] \in Note /\ q.heap[p] # Freed
<1>1. q \in Store /\ Owns(q)  BY DEF Good
<1>2. /\ q.displayed \in Seq(Ptr) /\ q.waiting \in Seq(Ptr)
      /\ q.history \in Seq(Ptr) /\ q.heap \in [Ptr -> Note \cup {Freed}]
      /\ q.nextId \in 1..MaxId
      /\ q.emitted \subseteq (0..MaxId) \X Reasons
  BY <1>1 DEF Store
<1>3. Queued(q) \subseteq Ptr  BY <1>2, Elements DEF Queued
<1>4. \A p \in Queued(q) : q.heap[p] # Freed  BY <1>1 DEF Owns, Queued
<1>5. \A p \in Queued(q) : p \in Ptr /\ q.heap[p] \in Note
  BY <1>2, <1>3, <1>4
<1> QED  BY <1>1, <1>2, <1>4, <1>5 DEF Owns

(* a change of the heap that frees nothing queued *)
LEMMA GoodHeap ==
  ASSUME NEW q, Good(q), NEW h \in [Ptr -> Note \cup {Freed}],
         \A p \in Queued(q) : h[p] # Freed
  PROVE  /\ Good([q EXCEPT !.heap = h])
         /\ Queued([q EXCEPT !.heap = h]) = Queued(q)
<1> DEFINE r == [q EXCEPT !.heap = h]
<1>0. q \in Store /\ Owns(q)  BY DEF Good
<1>1. r \in Store  BY <1>0 DEF Store
<1>2. /\ r.displayed = q.displayed /\ r.waiting = q.waiting
      /\ r.history = q.history /\ r.heap = h
  BY <1>0 DEF Store
<1> HIDE DEF r
<1>3. Queued(r) = Queued(q)  BY <1>2 DEF Queued
<1>4. Owns(r)  BY <1>0, <1>2 DEF Owns, Queued
<1> QED  BY <1>1, <1>3, <1>4 DEF Good, r

(* a change of the queues that queues nothing twice and nothing freed *)
LEMMA GoodQueues ==
  ASSUME NEW q, q \in Store,
         NEW d \in Seq(Ptr), NEW w \in Seq(Ptr), NEW h \in Seq(Ptr),
         IsInjective(d), IsInjective(w), IsInjective(h),
         ToSet(d) \cap ToSet(w) = {}, ToSet(d) \cap ToSet(h) = {},
         ToSet(w) \cap ToSet(h) = {},
         \A p \in ToSet(d) \cup ToSet(w) \cup ToSet(h) : q.heap[p] # Freed
  PROVE  Good([q EXCEPT !.displayed = d, !.waiting = w, !.history = h])
<1> DEFINE r == [q EXCEPT !.displayed = d, !.waiting = w, !.history = h]
<1>1. r \in Store  BY DEF Store
<1>2. r.displayed = d /\ r.waiting = w /\ r.history = h /\ r.heap = q.heap
  BY DEF Store
<1> HIDE DEF r
<1>3. Owns(r)  BY <1>2 DEF Owns
<1> QED  BY <1>1, <1>3 DEF Good, r

---------------------------------------------------------------------------
(* Changes of the heap alone                                               *)

SameQueues(r, q) ==
  /\ r.displayed = q.displayed /\ r.waiting = q.waiting
  /\ r.history = q.history

LEMMA CellChanged ==
  ASSUME NEW q, Good(q), NEW p \in Ptr, NEW n \in Note
  PROVE  /\ Good([q EXCEPT !.heap[p] = n])
         /\ SameQueues([q EXCEPT !.heap[p] = n], q)
         /\ [q EXCEPT !.heap[p] = n].heap[p] = n
<1> DEFINE h == [q.heap EXCEPT ![p] = n]
           r == [q EXCEPT !.heap = h]
<1>1. /\ q.heap \in [Ptr -> Note \cup {Freed}] /\ q \in Store
      /\ \A o \in Queued(q) : o \in Ptr /\ q.heap[o] \in Note
  BY GoodFacts
<1>2. h \in [Ptr -> Note \cup {Freed}] /\ h[p] = n  BY <1>1
<1>3. \A o \in Queued(q) : h[o] \in Note  BY <1>1
<1>4. \A o \in Queued(q) : h[o] # Freed  BY <1>3, QueuesAssumption
<1>5. [q EXCEPT !.heap[p] = n] = r  BY <1>1 DEF Store
<1> HIDE DEF h
<1>6. Good(r)  BY <1>2, <1>4, GoodHeap
<1>7. SameQueues(r, q) /\ r.heap = h  BY <1>1 DEF SameQueues, Store
<1> QED  BY <1>2, <1>5, <1>6, <1>7

LEMMA SignalClosedKeeps ==
  ASSUME NEW q, Good(q), NEW p \in Ptr, q.heap[p] \in Note,
         NEW reason \in Reasons
  PROVE  /\ Good(SignalClosed(q, p, reason))
         /\ SameQueues(SignalClosed(q, p, reason), q)
         /\ SignalClosed(q, p, reason).heap[p] \in Note
<1>1. CASE ~q.heap[p].valid
  BY <1>1 DEF SignalClosed, SameQueues
<1>2. CASE q.heap[p].valid
  <2> DEFINE n == [q.heap[p] EXCEPT !.valid = FALSE]
             q1 == [q EXCEPT !.heap[p] = n]
             e  == q1.emitted \cup {<<q.heap[p].id, reason>>}
             r  == [q1 EXCEPT !.emitted = e]
  <2>1. n \in Note  BY DEF Note
  <2>2. q \in Store  BY GoodFacts
  <2>3. SignalClosed(q, p, reason) = r
    BY <1>2, <2>2 DEF SignalClosed, Store
  <2>4. q.heap[p].id \in 0..MaxId  BY DEF Note
  <2> HIDE DEF n
  <2>5. Good(q1) /\ SameQueues(q1, q) /\ q1.heap[p] = n
    BY <2>1, CellChanged
  <2> HIDE DEF q1
  <2>6. q1 \in Store /\ Owns(q1)  BY <2>5 DEF Good
  <2>7. q1.emitted \subseteq (0..MaxId) \X Reasons  BY <2>6 DEF Store
  <2>8. e \subseteq (0..MaxId) \X Reasons  BY <2>4, <2>7
  <2> HIDE DEF e
  <2>9. /\ r \in Store /\ r.displayed = q1.displayed
        /\ r.waiting = q1.waiting /\ r.history = q1.history
        /\ r.heap = q1.heap
    BY <2>6, <2>8 DEF Store
  <2> HIDE DEF r
  <2>10. Owns(r)  BY <2>6, <2>9 DEF Owns
  <2>11. SameQueues(r, q)  BY <2>5, <2>9 DEF SameQueues
  <2> QED  BY <2>1, <2>3, <2>5, <2>9, <2>10, <2>11 DEF Good
<1> QED  BY <1>1, <1>2

LEMMA CellUnreferenced ==
  ASSUME NEW q \in Store, NEW p \in Ptr, q.heap[p] \in Note
  PROVE  Unref(q, p).heap[p] \in Note \cup {Freed}
<1>1. q.heap[p].refs \in Nat /\ q.heap[p].refs # 0  BY DEF Note
<1>2. CASE q.heap[p].refs = 1  BY <1>2 DEF Unref, Store
<1>3. CASE q.heap[p].refs # 1
  <2>1. q.heap[p].refs - 1 \in Nat /\ q.heap[p].refs - 1 # 0
    BY <1>1, <1>3
  <2>2. [q.heap[p] EXCEPT !.refs = q.heap[p].refs - 1] \in Note
    BY <2>1 DEF Note
  <2>3. Unref(q, p).heap[p] = [q.heap[p] EXCEPT !.refs = q.heap[p].refs - 1]
    BY <1>3 DEF Unref, Store
  <2> QED  BY <2>2, <2>3
<1> QED  BY <1>2, <1>3

(* Unreferencing what is in no queue leaves the queues as they are. *)
LEMMA UnrefKeeps ==
  ASSUME NEW q, Good(q), NEW p, Adrift(q, p)
  PROVE  /\ Good(Unref(q, p))
         /\ SameQueues(Unref(q, p), q)
         /\ \A o \in Ptr \ {p} : Unref(q, p).heap[o] = q.heap[o]
<1> DEFINE h == Unref(q, p).heap
<1>0. p \in Ptr /\ q.heap[p] \in Note /\ p \notin Queued(q)  BY DEF Adrift
<1>1. /\ q.heap \in [Ptr -> Note \cup {Freed}] /\ q \in Store
      /\ \A o \in Queued(q) : o \in Ptr /\ q.heap[o] # Freed
  BY GoodFacts
<1>2. /\ Unref(q, p) = [q EXCEPT !.heap = h]
      /\ h = [q.heap EXCEPT ![p] = h[p]]
  BY <1>0, <1>1 DEF Unref, Store
<1>3. h[p] \in Note \cup {Freed}  BY <1>0, <1>1, CellUnreferenced
<1>4. SameQueues(Unref(q, p), q)  BY <1>1 DEF Unref, Store, SameQueues
<1> HIDE DEF h
<1>5. h \in [Ptr -> Note \cup {Freed}]  BY <1>1, <1>2, <1>3
<1>6. \A o \in Ptr \ {p} : h[o] = q.heap[o]  BY <1>1, <1>2
<1>7. \A o \in Queued(q) : h[o] # Freed  BY <1>0, <1>1, <1>6
<1>8. Good(Unref(q, p))  BY <1>2, <1>5, <1>7, GoodHeap
<1> QED  BY <1>4, <1>6, <1>8 DEF h

---------------------------------------------------------------------------
(* Changes of one queue                                                    *)

LEMMA DisplayedChanged ==
  ASSUME NEW q, Good(q), NEW s \in Seq(Ptr), IsInjective(s),
         ToSet(s) \cap ToSet(q.waiting) = {}, ToSet(s) \cap ToSet(q.history) = {},
         \A p \in ToSet(s) : q.heap[p] # Freed
  PROVE  Good([q EXCEPT !.displayed = s])
<1>0. /\ q \in Store
      /\ q.displayed \in Seq(Ptr) /\ IsInjective(q.displayed)
      /\ q.waiting \in Seq(Ptr) /\ IsInjective(q.waiting)
      /\ q.history \in Seq(Ptr) /\ IsInjective(q.history)
      /\ ToSet(q.displayed) \cap ToSet(q.waiting) = {}
      /\ ToSet(q.displayed) \cap ToSet(q.history) = {}
      /\ ToSet(q.waiting) \cap ToSet(q.history) = {}
      /\ \A p \in Queued(q) : q.heap[p] # Freed
  BY GoodFacts
<1>1. Good([q EXCEPT !.displayed = s, !.waiting = q.waiting,
                     !.history = q.history])
  BY <1>0, GoodQueues DEF Queued
<1>2. [q EXCEPT !.displayed = s, !.waiting = q.waiting,
                !.history = q.history] = [q EXCEPT !.displayed = s]
  BY GoodFacts DEF Store
<1> QED  BY <1>1, <1>2

LEMMA WaitingChanged ==
  ASSUME NEW q, Good(q), NEW s \in Seq(Ptr), IsInjective(s),
         ToSet(s) \cap ToSet(q.displayed) = {}, ToSet(s) \cap ToSet(q.history) = {},
         \A p \in ToSet(s) : q.heap[p] # Freed
  PROVE  Good([q EXCEPT !.waiting = s])
<1>0. /\ q \in Store
      /\ q.displayed \in Seq(Ptr) /\ IsInjective(q.displayed)
      /\ q.waiting \in Seq(Ptr) /\ IsInjective(q.waiting)
      /\ q.history \in Seq(Ptr) /\ IsInjective(q.history)
      /\ ToSet(q.displayed) \cap ToSet(q.waiting) = {}
      /\ ToSet(q.displayed) \cap ToSet(q.history) = {}
      /\ ToSet(q.waiting) \cap ToSet(q.history) = {}
      /\ \A p \in Queued(q) : q.heap[p] # Freed
  BY GoodFacts
<1>1. Good([q EXCEPT !.displayed = q.displayed, !.waiting = s,
                     !.history = q.history])
  BY <1>0, GoodQueues DEF Queued
<1>2. [q EXCEPT !.displayed = q.displayed, !.waiting = s,
                !.history = q.history] = [q EXCEPT !.waiting = s]
  BY GoodFacts DEF Store
<1> QED  BY <1>1, <1>2

LEMMA HistoryChanged ==
  ASSUME NEW q, Good(q), NEW s \in Seq(Ptr), IsInjective(s),
         ToSet(s) \cap ToSet(q.displayed) = {}, ToSet(s) \cap ToSet(q.waiting) = {},
         \A p \in ToSet(s) : q.heap[p] # Freed
  PROVE  Good([q EXCEPT !.history = s])
<1>0. /\ q \in Store
      /\ q.displayed \in Seq(Ptr) /\ IsInjective(q.displayed)
      /\ q.waiting \in Seq(Ptr) /\ IsInjective(q.waiting)
      /\ q.history \in Seq(Ptr) /\ IsInjective(q.history)
      /\ ToSet(q.displayed) \cap ToSet(q.waiting) = {}
      /\ ToSet(q.displayed) \cap ToSet(q.history) = {}
      /\ ToSet(q.waiting) \cap ToSet(q.history) = {}
      /\ \A p \in Queued(q) : q.heap[p] # Freed
  BY GoodFacts
<1>1. Good([q EXCEPT !.displayed = q.displayed, !.waiting = q.waiting,
                     !.history = s])
  BY <1>0, GoodQueues DEF Queued
<1>2. [q EXCEPT !.displayed = q.displayed, !.waiting = q.waiting,
                !.history = s] = [q EXCEPT !.history = s]
  BY GoodFacts DEF Store
<1> QED  BY <1>1, <1>2

LEMMA AdriftFacts ==
  ASSUME NEW q, NEW p, Adrift(q, p)
  PROVE  /\ p \in Ptr /\ q.heap[p] \in Note /\ q.heap[p] # Freed
         /\ p \notin ToSet(q.displayed) /\ p \notin ToSet(q.waiting)
         /\ p \notin ToSet(q.history)
BY QueuesAssumption DEF Adrift, Queued

LEMMA EnqueueKeeps ==
  ASSUME NEW q, Good(q), NEW p, Adrift(q, p)
  PROVE  /\ Good(Enqueue(q, p))
         /\ Enqueue(q, p).displayed = q.displayed
         /\ Len(Enqueue(q, p).waiting) = Len(q.waiting) + 1
<1> DEFINE w == InsertSorted(q, q.waiting, p)
<1>0. p \in Ptr /\ q.heap[p] \in Note /\ p \notin Queued(q)  BY DEF Adrift
<1>1. /\ q \in Store /\ q.waiting \in Seq(Ptr) /\ IsInjective(q.waiting)
      /\ p \notin ToSet(q.waiting)
  BY <1>0, GoodFacts DEF Queued
<1>2. /\ w \in Seq(Ptr) /\ IsInjective(w) /\ Len(w) = Len(q.waiting) + 1
      /\ ToSet(w) = ToSet(q.waiting) \cup {p}
  BY <1>0, <1>1, InsertSortedProperties
<1>3. Enqueue(q, p) = [q EXCEPT !.waiting = w]  BY <1>1 DEF Enqueue, Store
<1> HIDE DEF w
<1>4. ToSet(w) \cap ToSet(q.displayed) = {} /\ ToSet(w) \cap ToSet(q.history) = {}
  BY <1>0, <1>2, GoodFacts DEF Queued
<1>5. \A o \in ToSet(w) : q.heap[o] # Freed
  BY <1>2, GoodFacts, AdriftFacts DEF Queued
<1>6. Good([q EXCEPT !.waiting = w])  BY <1>2, <1>4, <1>5, WaitingChanged
<1> QED  BY <1>1, <1>2, <1>3, <1>6 DEF Store

LEMMA HistoryPushKeeps ==
  ASSUME NEW q, Good(q), NEW p, Adrift(q, p)
  PROVE  /\ Good(HistoryPush(q, p))
         /\ HistoryPush(q, p).displayed = q.displayed
         /\ HistoryPush(q, p).waiting = q.waiting
<1> DEFINE full == HistoryLength > 0 /\ Len(q.history) >= HistoryLength
           o    == Head(q.history)
           cut  == [q EXCEPT !.history = Tail(q.history)]
           freed == Unref(cut, o)
           room == IF full THEN freed ELSE q
<1>0. p \in Ptr /\ q.heap[p] \in Note /\ p \notin Queued(q)  BY DEF Adrift
<1>1. q \in Store /\ q.history \in Seq(Ptr) /\ IsInjective(q.history)
  BY GoodFacts
<1>2. CASE q.heap[p].kind.history_ignore
  <2>1. HistoryPush(q, p) = Unref(q, p)  BY <1>2 DEF HistoryPush
  <2> QED  BY <2>1, UnrefKeeps DEF SameQueues
<1>3. CASE ~q.heap[p].kind.history_ignore
  <2>1. /\ Good(room) /\ Adrift(room, p)
        /\ room.displayed = q.displayed /\ room.waiting = q.waiting
    <3>1. CASE ~full  BY <3>1
    <3>2. CASE full
      <4>1. q.history # <<>>
        <5>1. Len(q.history) \in Nat /\ HistoryLength \in Nat
          BY <1>1, LenProperties, QueuesAssumption
        <5>2. Len(q.history) # 0  BY <3>2, <5>1
        <5> QED  BY <5>2, EmptySeq
      <4>2. /\ Tail(q.history) \in Seq(Ptr) /\ IsInjective(Tail(q.history))
            /\ ToSet(Tail(q.history)) = ToSet(q.history) \ {o}
            /\ o \in ToSet(q.history)
        <5>1. o = q.history[1] /\ 1 \in 1..Len(q.history)
          BY <4>1, <1>1, EmptySeq
        <5> QED  BY <5>1, <4>1, <1>1, TailTaken, Elements
      <4>3. Good(cut)
        <5>1. ToSet(Tail(q.history)) \subseteq ToSet(q.history)  BY <4>2
        <5>2. /\ ToSet(Tail(q.history)) \cap ToSet(q.displayed) = {}
              /\ ToSet(Tail(q.history)) \cap ToSet(q.waiting) = {}
              /\ \A r \in ToSet(Tail(q.history)) : q.heap[r] # Freed
          BY <5>1, GoodFacts DEF Queued
        <5> QED  BY <4>2, <5>2, HistoryChanged
      <4>4. /\ cut.displayed = q.displayed /\ cut.waiting = q.waiting
            /\ cut.history = Tail(q.history) /\ cut.heap = q.heap
        BY <1>1 DEF Store
      <4> HIDE DEF cut, o
      <4>5. Adrift(cut, o)
        BY <4>2, <4>4, GoodFacts DEF Adrift, Queued
      <4>6. /\ Good(freed) /\ SameQueues(freed, cut)
            /\ \A r \in Ptr \ {o} : freed.heap[r] = cut.heap[r]
        BY <4>3, <4>5, UnrefKeeps
      <4> HIDE DEF freed
      <4>7. p # o /\ p \notin Queued(freed)
        BY <1>0, <4>2, <4>4, <4>6 DEF Queued, SameQueues
      <4>8. freed.heap[p] \in Note  BY <1>0, <4>4, <4>6, <4>7
      <4> QED  BY <1>0, <3>2, <4>4, <4>6, <4>7, <4>8 DEF Adrift, SameQueues
    <3> QED  BY <3>1, <3>2
  <2>2. HistoryPush(q, p) = [room EXCEPT !.history = Append(room.history, p)]
    <3>1. CASE ~full
      BY <1>3, <3>1, <1>1 DEF HistoryPush, Store
    <3>2. CASE full
      <4>1. [Unref(q, o) EXCEPT !.history = Tail(Unref(q, o).history)]
              = Unref(cut, o)
        BY <1>1 DEF Unref, Store
      <4> QED
        BY <1>1, <1>3, <3>2, <4>1 DEF HistoryPush, Store
    <3> QED  BY <3>1, <3>2
  <2> HIDE DEF room
  <2>3. /\ room.history \in Seq(Ptr) /\ IsInjective(room.history)
        /\ p \notin ToSet(room.history)
    BY <2>1, GoodFacts DEF Adrift, Queued
  <2> DEFINE h == Append(room.history, p)
  <2>4. /\ h \in Seq(Ptr) /\ IsInjective(h)
        /\ ToSet(h) = ToSet(room.history) \cup {p}
    BY <1>0, <2>3, Appended
  <2> HIDE DEF h
  <2>5. /\ ToSet(h) \cap ToSet(room.displayed) = {}
        /\ ToSet(h) \cap ToSet(room.waiting) = {}
        /\ \A r \in ToSet(h) : room.heap[r] # Freed
    <3>1. /\ ToSet(room.history) \cap ToSet(room.displayed) = {}
          /\ ToSet(room.history) \cap ToSet(room.waiting) = {}
          /\ \A r \in ToSet(room.history) : room.heap[r] # Freed
      BY <2>1, GoodFacts DEF Queued
    <3>2. /\ room.heap[p] # Freed /\ p \notin ToSet(room.displayed)
          /\ p \notin ToSet(room.waiting)
      BY <2>1, AdriftFacts
    <3> QED  BY <2>4, <3>1, <3>2
  <2>6. Good([room EXCEPT !.history = h])
    BY <2>1, <2>4, <2>5, HistoryChanged
  <2>7. room \in Store  BY <2>1, GoodFacts
  <2> QED  BY <2>1, <2>2, <2>6, <2>7 DEF h, Store
<1> QED  BY <1>2, <1>3

---------------------------------------------------------------------------
(* History                                                                 *)

(* An entry taken out of history is in no queue. *)
LEMMA HistoryTaken ==
  ASSUME NEW q, Good(q), NEW at \in 1..Len(q.history)
  PROVE  LET cut == [q EXCEPT !.history = RemoveAt(q.history, at)]
         IN /\ Good(cut) /\ Adrift(cut, q.history[at])
            /\ cut.displayed = q.displayed /\ cut.waiting = q.waiting
            /\ cut.heap = q.heap
<1> DEFINE h   == RemoveAt(q.history, at)
           p   == q.history[at]
           cut == [q EXCEPT !.history = h]
<1>1. q \in Store /\ q.history \in Seq(Ptr) /\ IsInjective(q.history)
  BY GoodFacts
<1>2. p \in ToSet(q.history)  BY <1>1, Elements
<1>3. h \in Seq(Ptr) /\ IsInjective(h) /\ ToSet(h) = ToSet(q.history) \ {p}
  BY <1>1, Removed
<1>4. /\ cut.displayed = q.displayed /\ cut.waiting = q.waiting
      /\ cut.history = h /\ cut.heap = q.heap
  BY <1>1 DEF Store
<1> HIDE DEF h, p
<1>5. /\ ToSet(q.displayed) \cap ToSet(q.history) = {}
      /\ ToSet(q.waiting) \cap ToSet(q.history) = {}
      /\ \A o \in ToSet(q.history) : q.heap[o] # Freed /\ q.heap[o] \in Note
      /\ \A o \in ToSet(q.history) : o \in Ptr
  BY GoodFacts DEF Queued
<1>6. Good(cut)
  <2>1. /\ ToSet(h) \cap ToSet(q.displayed) = {}
        /\ ToSet(h) \cap ToSet(q.waiting) = {}
        /\ \A o \in ToSet(h) : q.heap[o] # Freed
    BY <1>3, <1>5
  <2> QED  BY <1>3, <2>1, HistoryChanged
<1> HIDE DEF cut
<1>7. Adrift(cut, p)  BY <1>2, <1>3, <1>4, <1>5 DEF Adrift, Queued
<1> QED  BY <1>4, <1>6, <1>7 DEF cut, h, p

(* The same of displayed and of waiting. *)
LEMMA DisplayedTaken ==
  ASSUME NEW q, Good(q), NEW at \in 1..Len(q.displayed)
  PROVE  LET cut == [q EXCEPT !.displayed = RemoveAt(q.displayed, at)]
         IN /\ Good(cut) /\ Adrift(cut, q.displayed[at])
            /\ cut.waiting = q.waiting /\ cut.history = q.history
            /\ cut.heap = q.heap
<1> DEFINE h   == RemoveAt(q.displayed, at)
           p   == q.displayed[at]
           cut == [q EXCEPT !.displayed = h]
<1>1. q \in Store /\ q.displayed \in Seq(Ptr) /\ IsInjective(q.displayed)
  BY GoodFacts
<1>2. p \in ToSet(q.displayed)  BY <1>1, Elements
<1>3. h \in Seq(Ptr) /\ IsInjective(h) /\ ToSet(h) = ToSet(q.displayed) \ {p}
  BY <1>1, Removed
<1>4. /\ cut.waiting = q.waiting /\ cut.history = q.history
      /\ cut.displayed = h /\ cut.heap = q.heap
  BY <1>1 DEF Store
<1> HIDE DEF h, p
<1>5. /\ ToSet(q.waiting) \cap ToSet(q.displayed) = {}
      /\ ToSet(q.history) \cap ToSet(q.displayed) = {}
      /\ \A o \in ToSet(q.displayed) : q.heap[o] # Freed /\ q.heap[o] \in Note
      /\ \A o \in ToSet(q.displayed) : o \in Ptr
  BY GoodFacts DEF Queued
<1>6. Good(cut)
  <2>1. /\ ToSet(h) \cap ToSet(q.waiting) = {}
        /\ ToSet(h) \cap ToSet(q.history) = {}
        /\ \A o \in ToSet(h) : q.heap[o] # Freed
    BY <1>3, <1>5
  <2> QED  BY <1>3, <2>1, DisplayedChanged
<1> HIDE DEF cut
<1>7. Adrift(cut, p)  BY <1>2, <1>3, <1>4, <1>5 DEF Adrift, Queued
<1> QED  BY <1>4, <1>6, <1>7 DEF cut, h, p

LEMMA WaitingTaken ==
  ASSUME NEW q, Good(q), NEW at \in 1..Len(q.waiting)
  PROVE  LET cut == [q EXCEPT !.waiting = RemoveAt(q.waiting, at)]
         IN /\ Good(cut) /\ Adrift(cut, q.waiting[at])
            /\ cut.displayed = q.displayed /\ cut.history = q.history
            /\ cut.heap = q.heap
<1> DEFINE h   == RemoveAt(q.waiting, at)
           p   == q.waiting[at]
           cut == [q EXCEPT !.waiting = h]
<1>1. q \in Store /\ q.waiting \in Seq(Ptr) /\ IsInjective(q.waiting)
  BY GoodFacts
<1>2. p \in ToSet(q.waiting)  BY <1>1, Elements
<1>3. h \in Seq(Ptr) /\ IsInjective(h) /\ ToSet(h) = ToSet(q.waiting) \ {p}
  BY <1>1, Removed
<1>4. /\ cut.displayed = q.displayed /\ cut.history = q.history
      /\ cut.waiting = h /\ cut.heap = q.heap
  BY <1>1 DEF Store
<1> HIDE DEF h, p
<1>5. /\ ToSet(q.displayed) \cap ToSet(q.waiting) = {}
      /\ ToSet(q.history) \cap ToSet(q.waiting) = {}
      /\ \A o \in ToSet(q.waiting) : q.heap[o] # Freed /\ q.heap[o] \in Note
      /\ \A o \in ToSet(q.waiting) : o \in Ptr
  BY GoodFacts DEF Queued
<1>6. Good(cut)
  <2>1. /\ ToSet(h) \cap ToSet(q.displayed) = {}
        /\ ToSet(h) \cap ToSet(q.history) = {}
        /\ \A o \in ToSet(h) : q.heap[o] # Freed
    BY <1>3, <1>5
  <2> QED  BY <1>3, <2>1, WaitingChanged
<1> HIDE DEF cut
<1>7. Adrift(cut, p)  BY <1>2, <1>3, <1>4, <1>5 DEF Adrift, Queued
<1> QED  BY <1>4, <1>6, <1>7 DEF cut, h, p

LEMMA RedisplayKeeps ==
  ASSUME NEW q, Good(q), NEW at \in 1..Len(q.history)
  PROVE  Good(Redisplay(q, at))
<1> DEFINE p   == q.history[at]
           cut == [q EXCEPT !.history = RemoveAt(q.history, at)]
           n   == [cut.heap[p] EXCEPT !.redisplayed = TRUE,
                                      !.timed = cut.heap[p].timed /\ ~StickyHistory]
           q1  == [cut EXCEPT !.heap[p] = n]
<1>1. Good(cut) /\ Adrift(cut, p) /\ cut.heap = q.heap  BY HistoryTaken
<1>2. q \in Store  BY GoodFacts
<1>3. Redisplay(q, at) = Enqueue(q1, p)
  <2>1. p \in Ptr /\ q.heap[p] \in Note  BY <1>1 DEF Adrift
  <2>2. q.heap \in [Ptr -> Note \cup {Freed}]  BY <1>2 DEF Store
  <2>3. n = [q.heap[p] EXCEPT !.redisplayed = TRUE,
                              !.timed = q.heap[p].timed /\ ~StickyHistory]
    BY <1>1
  <2>4. [q.heap EXCEPT ![p].redisplayed = TRUE,
                       ![p].timed = q.heap[p].timed /\ ~StickyHistory]
          = [q.heap EXCEPT ![p] = n]
    <3> HIDE DEF p, n
    <3> QED  BY <2>1, <2>2, <2>3 DEF Note
  <2>5. q1 = [q EXCEPT !.history = RemoveAt(q.history, at),
                       !.heap = [q.heap EXCEPT ![p] = n]]
    <3> HIDE DEF p, n
    <3> QED  BY <1>2 DEF Store
  <2>6. [q EXCEPT !.history = RemoveAt(@, at), !.heap[p].redisplayed = TRUE,
                  !.heap[p].timed = @ /\ ~StickyHistory]
          = [q EXCEPT !.history = RemoveAt(q.history, at),
                      !.heap = [q.heap EXCEPT ![p].redisplayed = TRUE,
                                ![p].timed = q.heap[p].timed /\ ~StickyHistory]]
    <3> HIDE DEF p
    <3> QED  BY <1>2, <2>1, <2>2 DEF Store
  <2>7. [q EXCEPT !.history = RemoveAt(@, at), !.heap[p].redisplayed = TRUE,
                  !.heap[p].timed = @ /\ ~StickyHistory] = q1
    BY <2>4, <2>5, <2>6
  <2> HIDE DEF q1
  <2> QED  BY <2>7, Zenon DEF Redisplay, Enqueue
<1> HIDE DEF cut, p
<1>4. p \in Ptr /\ cut.heap[p] \in Note  BY <1>1 DEF Adrift
<1>5. n \in Note  BY <1>4 DEF Note
<1> HIDE DEF n
<1>6. Good(q1) /\ SameQueues(q1, cut) /\ q1.heap[p] = n
  BY <1>1, <1>4, <1>5, CellChanged
<1> HIDE DEF q1
<1>7. Adrift(q1, p)
  BY <1>1, <1>4, <1>5, <1>6 DEF Adrift, Queued, SameQueues
<1> QED  BY <1>3, <1>6, <1>7, EnqueueKeeps

LEMMA HistoryPopKeeps ==
  ASSUME NEW q, Good(q)
  PROVE  Good(HistoryPop(q))
<1>1. CASE q.history = <<>>  BY <1>1 DEF HistoryPop
<1>2. CASE q.history # <<>>
  <2>1. Len(q.history) \in Nat /\ Len(q.history) # 0
    BY <1>2, GoodFacts, EmptySeq
  <2>2. Len(q.history) \in 1..Len(q.history)  BY <2>1
  <2> QED  BY <1>2, <2>2, RedisplayKeeps DEF HistoryPop
<1> QED  BY <1>1, <1>2

LEMMA HistoryPopByIdKeeps ==
  ASSUME NEW q, Good(q), NEW id
  PROVE  Good(HistoryPopById(q, id))
<1> DEFINE at == FirstWithId(q, q.history, id)
<1>1. PlaceIn(at, q.history) /\ Len(q.history) \in Nat
  BY GoodFacts, FirstWithIdPlace, LenProperties
<1> HIDE DEF at
<1>2. CASE at = 0  BY <1>2 DEF HistoryPopById, at
<1>3. CASE at # 0
  <2>1. at \in 1..Len(q.history)  BY <1>1, <1>3 DEF PlaceIn
  <2> QED  BY <2>1, <1>3, RedisplayKeeps DEF HistoryPopById, at
<1> QED  BY <1>2, <1>3

LEMMA HistoryRemoveByIdKeeps ==
  ASSUME NEW q, Good(q), NEW id
  PROVE  /\ Good(HistoryRemoveById(q, id))
         /\ HistoryRemoveById(q, id).displayed = q.displayed
         /\ HistoryRemoveById(q, id).waiting = q.waiting
<1> DEFINE at  == FirstWithId(q, q.history, id)
           p   == q.history[at]
           cut == [q EXCEPT !.history = RemoveAt(q.history, at)]
<1>1. PlaceIn(at, q.history) /\ Len(q.history) \in Nat /\ q \in Store
  BY GoodFacts, FirstWithIdPlace, LenProperties
<1> HIDE DEF at
<1>2. CASE at = 0  BY <1>2 DEF HistoryRemoveById, at
<1>3. CASE at # 0
  <2>1. at \in 1..Len(q.history)  BY <1>1, <1>3 DEF PlaceIn
  <2>2. /\ Good(cut) /\ Adrift(cut, p)
        /\ cut.displayed = q.displayed /\ cut.waiting = q.waiting
    BY <2>1, HistoryTaken
  <2>3. HistoryRemoveById(q, id) = Unref(cut, p)
    <3>1. [Unref(q, p) EXCEPT !.history = RemoveAt(Unref(q, p).history, at)]
            = Unref(cut, p)
      BY <1>1 DEF Unref, Store
    <3> QED  BY <3>1, <1>3 DEF HistoryRemoveById, at
  <2> HIDE DEF p, cut
  <2> QED  BY <2>2, <2>3, UnrefKeeps DEF SameQueues
<1> QED  BY <1>2, <1>3

LEMMA HistoryClearKeeps ==
  ASSUME NEW q, Good(q)
  PROVE  Good(HistoryClear(q))
<1> DEFINE h == [p \in Ptr |-> IF p \in ToSet(q.history)
                               THEN Unref(q, p).heap[p] ELSE q.heap[p]]
           cut == [q EXCEPT !.history = <<>>]
<1>1. /\ q \in Store /\ q.heap \in [Ptr -> Note \cup {Freed}]
      /\ ToSet(q.displayed) \cap ToSet(q.history) = {}
      /\ ToSet(q.waiting) \cap ToSet(q.history) = {}
      /\ \A p \in Queued(q) : /\ p \in Ptr /\ q.heap[p] \in Note
                              /\ q.heap[p] # Freed
  BY GoodFacts
<1>2. ASSUME NEW p \in Ptr, p \in ToSet(q.history)
      PROVE  Unref(q, p).heap[p] \in Note \cup {Freed}
  BY <1>1, <1>2, CellUnreferenced DEF Queued
<1>3. h \in [Ptr -> Note \cup {Freed}]  BY <1>1, <1>2
<1>4. \A p \in Ptr : p \notin ToSet(q.history) => h[p] = q.heap[p]
  OBVIOUS
<1>5. HistoryClear(q) = [cut EXCEPT !.heap = h]
  BY <1>1 DEF HistoryClear, Store
<1> HIDE DEF h
<1>6. Good(cut)
  <2>1. <<>> \in Seq(Ptr) /\ IsInjective(<<>>) /\ ToSet(<<>>) = {}
    BY NoElements
  <2> QED  BY <2>1, HistoryChanged
<1>7. /\ cut.displayed = q.displayed /\ cut.waiting = q.waiting
      /\ cut.history = <<>>
  BY <1>1 DEF Store
<1>8. ToSet(cut.history) = {}  BY <1>7, NoElements
<1> HIDE DEF cut
<1>9. \A p \in Queued(cut) : p \in Queued(q) /\ p \notin ToSet(q.history)
  BY <1>1, <1>7, <1>8 DEF Queued
<1>10. \A p \in Queued(cut) : h[p] # Freed  BY <1>1, <1>4, <1>9
<1> QED  BY <1>3, <1>5, <1>6, <1>10, GoodHeap

---------------------------------------------------------------------------
(* Closing                                                                 *)

(* A queue update may visit the rest of both queues after a closing. *)
Shrinks(r, q) ==
  /\ Len(q.displayed) <= Len(r.displayed) + 1
  /\ Len(q.waiting) <= Len(r.waiting) + 1

LEMMA WithoutProperties ==
  ASSUME NEW s \in Seq(Ptr), IsInjective(s), NEW at, PlaceIn(at, s)
  PROVE  /\ Without(s, at) \in Seq(Ptr) /\ IsInjective(Without(s, at))
         /\ ToSet(Without(s, at)) \subseteq ToSet(s)
         /\ Len(s) <= Len(Without(s, at)) + 1
         /\ at # 0 => s[at] \in ToSet(s) /\ s[at] \notin ToSet(Without(s, at))
<1>0. Len(s) \in Nat  BY LenProperties
<1>1. CASE at = 0  BY <1>0, <1>1 DEF Without
<1>2. CASE at # 0
  <2>1. at \in 1..Len(s)  BY <1>0, <1>2 DEF PlaceIn
  <2>2. s[at] \in ToSet(s)  BY <2>1, Elements
  <2> DEFINE t == RemoveAt(s, at)
  <2>3. /\ t \in Seq(Ptr) /\ Len(t) = Len(s) - 1 /\ IsInjective(t)
        /\ ToSet(t) = ToSet(s) \ {s[at]}
    BY <2>1, Removed
  <2>4. Without(s, at) = t  BY <1>2 DEF Without
  <2> HIDE DEF t
  <2>5. Len(s) <= Len(t) + 1  BY <1>0, <2>3
  <2> QED  BY <2>2, <2>3, <2>4, <2>5
<1> QED  BY <1>1, <1>2

LEMMA CloseIdKeeps ==
  ASSUME NEW q, Good(q), NEW id, NEW reason \in Reasons
  PROVE  Good(CloseId(q, id, reason)) /\ Shrinks(CloseId(q, id, reason), q)
<1> DEFINE d  == FirstWithId(q, q.displayed, id)
           w  == FirstWithId(q, q.waiting, id)
           target == IF w # 0 THEN q.waiting[w] ELSE q.displayed[d]
           sd == Without(q.displayed, d)
           sw == Without(q.waiting, w)
           q1 == [q EXCEPT !.displayed = sd, !.waiting = sw]
           q2 == IF q.heap[target].redisplayed THEN q1
                 ELSE SignalClosed(q1, target, reason)
<1>0. /\ q \in Store
      /\ q.displayed \in Seq(Ptr) /\ IsInjective(q.displayed)
      /\ q.waiting \in Seq(Ptr) /\ IsInjective(q.waiting)
      /\ q.history \in Seq(Ptr) /\ IsInjective(q.history)
      /\ ToSet(q.displayed) \cap ToSet(q.waiting) = {}
      /\ ToSet(q.displayed) \cap ToSet(q.history) = {}
      /\ ToSet(q.waiting) \cap ToSet(q.history) = {}
      /\ \A p \in Queued(q) : /\ p \in Ptr /\ q.heap[p] \in Note
                              /\ q.heap[p] # Freed
  BY GoodFacts
<1>1. PlaceIn(d, q.displayed) /\ PlaceIn(w, q.waiting)
  BY <1>0, FirstWithIdPlace
<1>2. CloseId(q, id, reason) =
        IF d = 0 /\ w = 0 THEN q ELSE HistoryPush(q2, target)
  BY <1>0, Zenon DEF CloseId
<1> HIDE DEF d, w
<1>3. CASE d = 0 /\ w = 0
  <2>1. Len(q.displayed) \in Nat /\ Len(q.waiting) \in Nat
    BY <1>0, LenProperties
  <2> QED  BY <1>2, <1>3, <2>1 DEF Shrinks
<1>4. CASE ~(d = 0 /\ w = 0)
  <2>1. /\ sd \in Seq(Ptr) /\ IsInjective(sd)
        /\ ToSet(sd) \subseteq ToSet(q.displayed)
        /\ Len(q.displayed) <= Len(sd) + 1
        /\ d # 0 => /\ q.displayed[d] \in ToSet(q.displayed)
                    /\ q.displayed[d] \notin ToSet(sd)
    BY <1>0, <1>1, WithoutProperties
  <2>2. /\ sw \in Seq(Ptr) /\ IsInjective(sw)
        /\ ToSet(sw) \subseteq ToSet(q.waiting)
        /\ Len(q.waiting) <= Len(sw) + 1
        /\ w # 0 => /\ q.waiting[w] \in ToSet(q.waiting)
                    /\ q.waiting[w] \notin ToSet(sw)
    BY <1>0, <1>1, WithoutProperties
  <2> HIDE DEF sd, sw
  <2>3. /\ ToSet(sd) \cap ToSet(sw) = {} /\ ToSet(sd) \cap ToSet(q.history) = {}
        /\ ToSet(sw) \cap ToSet(q.history) = {}
        /\ \A p \in ToSet(sd) \cup ToSet(sw) \cup ToSet(q.history) :
             q.heap[p] # Freed
    BY <1>0, <2>1, <2>2 DEF Queued
  <2>4. q1 = [q EXCEPT !.displayed = sd, !.waiting = sw, !.history = q.history]
    BY <1>0 DEF Store
  <2>5. Good(q1)  BY <1>0, <2>1, <2>2, <2>3, <2>4, GoodQueues
  <2>6. /\ q1.displayed = sd /\ q1.waiting = sw /\ q1.history = q.history
        /\ q1.heap = q.heap
    BY <1>0 DEF Store
  <2> HIDE DEF q1
  <2>7. /\ target \notin ToSet(sd) /\ target \notin ToSet(sw)
        /\ target \in ToSet(q.displayed) \cup ToSet(q.waiting)
    <3>1. CASE w # 0  BY <1>0, <2>1, <2>2, <3>1
    <3>2. CASE w = 0  BY <1>0, <1>4, <2>1, <2>2, <3>2
    <3> QED  BY <3>1, <3>2
  <2> HIDE DEF target
  <2>8. target \in Ptr /\ q.heap[target] \in Note /\ target \notin ToSet(q.history)
    BY <1>0, <2>7 DEF Queued
  <2>9. /\ Good(q2) /\ SameQueues(q2, q1) /\ q2.heap[target] \in Note
    <3>1. CASE q.heap[target].redisplayed
      BY <2>5, <2>6, <2>8, <3>1 DEF SameQueues
    <3>2. CASE ~q.heap[target].redisplayed
      <4>1. q2 = SignalClosed(q1, target, reason)  BY <3>2
      <4>2. q1.heap[target] \in Note  BY <2>6, <2>8
      <4> QED  BY <2>5, <2>8, <4>1, <4>2, SignalClosedKeeps
    <3> QED  BY <3>1, <3>2
  <2> HIDE DEF q2
  <2>10. Adrift(q2, target)
    BY <2>6, <2>7, <2>8, <2>9 DEF Adrift, Queued, SameQueues
  <2>11. /\ Good(HistoryPush(q2, target))
         /\ HistoryPush(q2, target).displayed = sd
         /\ HistoryPush(q2, target).waiting = sw
    BY <2>6, <2>9, <2>10, HistoryPushKeeps DEF SameQueues
  <2>12. CloseId(q, id, reason) = HistoryPush(q2, target)  BY <1>2, <1>4
  <2> QED  BY <2>1, <2>2, <2>11, <2>12 DEF Shrinks
<1> QED  BY <1>3, <1>4

LEMMA NotificationCloseKeeps ==
  ASSUME NEW q, Good(q), NEW p, NEW reason \in Reasons
  PROVE  /\ Good(NotificationClose(q, p, reason))
         /\ Shrinks(NotificationClose(q, p, reason), q)
BY CloseIdKeeps DEF NotificationClose

LEMMA NotificationRemoveKeeps ==
  ASSUME NEW q, Good(q), NEW p, NEW reason \in Reasons, NEW lost \in BOOLEAN
  PROVE  /\ Good(NotificationRemove(q, p, reason, lost))
         /\ Shrinks(NotificationRemove(q, p, reason, lost), q)
<1> DEFINE q1 == NotificationClose(q, p, reason)
           q2 == HistoryRemoveById(q1, q.heap[p].id)
<1>1. Good(q1) /\ Shrinks(q1, q)  BY NotificationCloseKeeps
<1> HIDE DEF q1
<1>2. Good(q2) /\ q2.displayed = q1.displayed /\ q2.waiting = q1.waiting
  BY <1>1, HistoryRemoveByIdKeeps
<1>3. Shrinks(q2, q)  BY <1>1, <1>2 DEF Shrinks
<1>4. NotificationRemove(q, p, reason, lost) \in {q1, q2}
  BY DEF NotificationRemove, q1
<1> QED  BY <1>1, <1>2, <1>3, <1>4

---------------------------------------------------------------------------
(* Inserting                                                               *)

LEMMA SupersedeKeeps ==
  ASSUME NEW q, Good(q), NEW old, Adrift(q, old), NEW tell \in BOOLEAN
  PROVE  Good(Supersede(q, old, tell))
<1> DEFINE q1 == IF tell THEN SignalClosed(q, old, TIME) ELSE q
<1>0. old \in Ptr /\ q.heap[old] \in Note /\ old \notin Queued(q)
  BY DEF Adrift
<1>1. Good(q1) /\ SameQueues(q1, q) /\ q1.heap[old] \in Note
  <2>1. TIME \in Reasons  BY DEF Reasons
  <2>2. CASE tell  BY <1>0, <2>1, <2>2, SignalClosedKeeps
  <2>3. CASE ~tell  BY <1>0, <2>3 DEF SameQueues
  <2> QED  BY <2>2, <2>3
<1>2. Supersede(q, old, tell) = Unref(q1, old)  BY DEF Supersede
<1> HIDE DEF q1
<1>3. Adrift(q1, old)  BY <1>0, <1>1 DEF Adrift, Queued, SameQueues
<1> QED  BY <1>1, <1>2, <1>3, UnrefKeeps

LEMMA TakeOverDisplayedKeeps ==
  ASSUME NEW q, Good(q), NEW p, Adrift(q, p), NEW d \in 1..Len(q.displayed),
         NEW tell \in BOOLEAN
  PROVE  Good(Supersede([q EXCEPT !.displayed[d] = p], q.displayed[d], tell))
<1> DEFINE s   == [q.displayed EXCEPT ![d] = p]
           old == q.displayed[d]
           q1  == [q EXCEPT !.displayed = s]
<1>0. /\ p \in Ptr /\ q.heap[p] # Freed
      /\ p \notin ToSet(q.displayed) /\ p \notin ToSet(q.waiting)
      /\ p \notin ToSet(q.history)
  BY AdriftFacts
<1>1. /\ q \in Store /\ q.displayed \in Seq(Ptr) /\ IsInjective(q.displayed)
      /\ ToSet(q.displayed) \cap ToSet(q.waiting) = {}
      /\ ToSet(q.displayed) \cap ToSet(q.history) = {}
      /\ \A o \in Queued(q) : /\ o \in Ptr /\ q.heap[o] \in Note
                              /\ q.heap[o] # Freed
  BY GoodFacts
<1>2. old \in ToSet(q.displayed)  BY <1>1, Elements
<1>3. /\ s \in Seq(Ptr) /\ IsInjective(s)
      /\ ToSet(s) = (ToSet(q.displayed) \ {old}) \cup {p}
  BY <1>0, <1>1, Replaced
<1>4. [q EXCEPT !.displayed[d] = p] = q1  BY <1>1 DEF Store
<1>5. /\ q1.displayed = s /\ q1.waiting = q.waiting /\ q1.history = q.history
      /\ q1.heap = q.heap
  BY <1>1 DEF Store
<1> HIDE DEF s, old
<1>6. Good(q1)
  <2>1. /\ ToSet(s) \cap ToSet(q.waiting) = {}
        /\ ToSet(s) \cap ToSet(q.history) = {}
        /\ \A o \in ToSet(s) : q.heap[o] # Freed
    BY <1>0, <1>1, <1>3 DEF Queued
  <2> QED  BY <1>3, <2>1, DisplayedChanged, WaitingChanged
<1> HIDE DEF q1
<1>7. Adrift(q1, old)
  BY <1>0, <1>1, <1>2, <1>3, <1>5 DEF Adrift, Queued
<1> QED  BY <1>4, <1>6, <1>7, SupersedeKeeps DEF old

LEMMA TakeOverWaitingKeeps ==
  ASSUME NEW q, Good(q), NEW p, Adrift(q, p), NEW w \in 1..Len(q.waiting),
         NEW tell \in BOOLEAN
  PROVE  Good(Supersede([q EXCEPT !.waiting[w] = p], q.waiting[w], tell))
<1> DEFINE s   == [q.waiting EXCEPT ![w] = p]
           old == q.waiting[w]
           q1  == [q EXCEPT !.waiting = s]
<1>0. /\ p \in Ptr /\ q.heap[p] # Freed
      /\ p \notin ToSet(q.waiting) /\ p \notin ToSet(q.displayed)
      /\ p \notin ToSet(q.history)
  BY AdriftFacts
<1>1. /\ q \in Store /\ q.waiting \in Seq(Ptr) /\ IsInjective(q.waiting)
      /\ ToSet(q.displayed) \cap ToSet(q.waiting) = {}
      /\ ToSet(q.waiting) \cap ToSet(q.history) = {}
      /\ \A o \in Queued(q) : /\ o \in Ptr /\ q.heap[o] \in Note
                              /\ q.heap[o] # Freed
  BY GoodFacts
<1>2. old \in ToSet(q.waiting)  BY <1>1, Elements
<1>3. /\ s \in Seq(Ptr) /\ IsInjective(s)
      /\ ToSet(s) = (ToSet(q.waiting) \ {old}) \cup {p}
  BY <1>0, <1>1, Replaced
<1>4. [q EXCEPT !.waiting[w] = p] = q1  BY <1>1 DEF Store
<1>5. /\ q1.waiting = s /\ q1.displayed = q.displayed /\ q1.history = q.history
      /\ q1.heap = q.heap
  BY <1>1 DEF Store
<1> HIDE DEF s, old
<1>6. Good(q1)
  <2>1. /\ ToSet(s) \cap ToSet(q.displayed) = {}
        /\ ToSet(s) \cap ToSet(q.history) = {}
        /\ \A o \in ToSet(s) : q.heap[o] # Freed
    BY <1>0, <1>1, <1>3 DEF Queued
  <2> QED  BY <1>3, <2>1, DisplayedChanged, WaitingChanged
<1> HIDE DEF q1
<1>7. Adrift(q1, old)
  BY <1>0, <1>1, <1>2, <1>3, <1>5 DEF Adrift, Queued
<1> QED  BY <1>4, <1>6, <1>7, SupersedeKeeps DEF old

LEMMA TakeOverKeeps ==
  ASSUME NEW q, Good(q), NEW p, Adrift(q, p), NEW tell \in BOOLEAN,
         NEW d, PlaceIn(d, q.displayed), NEW w, PlaceIn(w, q.waiting),
         d # 0 \/ w # 0
  PROVE  Good(TakeOver(q, d, w, p, tell))
<1>1. Len(q.displayed) \in Nat /\ Len(q.waiting) \in Nat
  BY GoodFacts, LenProperties
<1>2. CASE d # 0
  <2>1. d \in 1..Len(q.displayed)  BY <1>1, <1>2 DEF PlaceIn
  <2> QED  BY <1>2, <2>1, TakeOverDisplayedKeeps DEF TakeOver
<1>3. CASE d = 0
  <2>1. w \in 1..Len(q.waiting)  BY <1>1, <1>3 DEF PlaceIn
  <2> QED  BY <1>3, <2>1, TakeOverWaitingKeeps DEF TakeOver
<1> QED  BY <1>2, <1>3

LEMMA ReplaceIdKeeps ==
  ASSUME NEW q, Good(q), NEW p, Adrift(q, p)
  PROVE  Good(ReplaceId(q, p))
<1> DEFINE d == FirstWithId(q, q.displayed, q.heap[p].id)
           w == FirstWithId(q, q.waiting, q.heap[p].id)
<1>1. PlaceIn(d, q.displayed) /\ PlaceIn(w, q.waiting)
  BY GoodFacts, FirstWithIdPlace
<1>2. ReplaceId(q, p) = IF d = 0 /\ w = 0 THEN Enqueue(q, p)
                        ELSE TakeOver(q, d, w, p, FALSE)
  BY DEF ReplaceId
<1> HIDE DEF d, w
<1>3. CASE d = 0 /\ w = 0  BY <1>2, <1>3, EnqueueKeeps
<1>4. CASE ~(d = 0 /\ w = 0)
  BY <1>1, <1>2, <1>4, TakeOverKeeps
<1> QED  BY <1>3, <1>4

(* g_queue_sort brings in nothing new. *)
LEMMA SortedProperties ==
  ASSUME NEW q, NEW s \in Seq(Ptr), IsInjective(s)
  PROVE  /\ Sorted(q, s) \in Seq(Ptr) /\ IsInjective(Sorted(q, s))
         /\ ToSet(Sorted(q, s)) \subseteq ToSet(s)
<1> DEFINE places == 1..Len(s)
           orders == { f \in [places -> places] :
                         /\ IsInjective(f)
                         /\ \A i, j \in places : i < j =>
                              LET c == Cmp(q.heap[s[f[i]]], q.heap[s[f[j]]])
                              IN c < 0 \/ (c = 0 /\ f[i] < f[j]) }
           order == CHOOSE f \in orders : TRUE
           t == [i \in places |-> s[order[i]]]
<1>1. Sorted(q, s) = IF orders = {} THEN s ELSE t
  BY Zenon DEF Sorted
<1>2. CASE orders = {}  BY <1>1, <1>2
<1>3. CASE orders # {}
  <2>1. order \in orders  BY <1>3
  <2>2. order \in [places -> places] /\ IsInjective(order)  BY <2>1
  <2> HIDE DEF order
  <2>3. \A a, b \in places : order[a] = order[b] => a = b
    BY <2>2 DEF IsInjective
  <2>4. /\ \A i \in places : s[i] \in ToSet(s)
        /\ \A a, b \in places : s[a] = s[b] => a = b
    BY Elements
  <2>5. t \in [places -> ToSet(s)]  BY <2>2, <2>4
  <2>6. ASSUME NEW a \in places, NEW b \in places, t[a] = t[b] PROVE a = b
    BY <2>2, <2>3, <2>4, <2>6
  <2>7. DOMAIN t = places  OBVIOUS
  <2> HIDE DEF t
  <2>8. IsInjective(t)  BY <2>6, <2>7, Zenon DEF IsInjective
  <2>9. Len(s) \in Nat  BY LenProperties
  <2>10. t \in Seq(ToSet(s))  BY <2>5, <2>9, SeqDef
  <2>11. ToSet(t) \subseteq ToSet(s)  BY <2>10, Elements
  <2>12. t \in Seq(Ptr)
    <3>1. ToSet(s) \subseteq Ptr  BY Elements
    <3> QED  BY <2>10, <3>1, SeqMonotonic
  <2> QED  BY <1>1, <1>3, <2>8, <2>11, <2>12
<1> QED  BY <1>2, <1>3

LEMMA DisplayedSortedKeeps ==
  ASSUME NEW q, Good(q)
  PROVE  Good([q EXCEPT !.displayed = Sorted(q, q.displayed)])
<1> DEFINE s == Sorted(q, q.displayed)
<1>0. /\ q.displayed \in Seq(Ptr) /\ IsInjective(q.displayed)
      /\ ToSet(q.displayed) \cap ToSet(q.waiting) = {}
      /\ ToSet(q.displayed) \cap ToSet(q.history) = {}
      /\ \A p \in ToSet(q.displayed) : q.heap[p] # Freed
  BY GoodFacts DEF Queued
<1>1. /\ s \in Seq(Ptr) /\ IsInjective(s) /\ ToSet(s) \subseteq ToSet(q.displayed)
  BY <1>0, SortedProperties
<1> HIDE DEF s
<1>2. /\ ToSet(s) \cap ToSet(q.waiting) = {} /\ ToSet(s) \cap ToSet(q.history) = {}
      /\ \A p \in ToSet(s) : q.heap[p] # Freed
  BY <1>0, <1>1
<1>3. Good([q EXCEPT !.displayed = s])  BY <1>1, <1>2, DisplayedChanged
<1> QED  BY <1>3 DEF s

LEMMA AssignIdKeeps ==
  ASSUME NEW q, Good(q), NEW p, Adrift(q, p), q.nextId < MaxId
  PROVE  Good(AssignId(q, p)) /\ Adrift(AssignId(q, p), p)
<1> DEFINE id == q.nextId + 1
           n  == [q.heap[p] EXCEPT !.id = id]
           q1 == [q EXCEPT !.heap[p] = n]
           r  == [q1 EXCEPT !.nextId = id]
<1>0. p \in Ptr /\ q.heap[p] \in Note /\ p \notin Queued(q)  BY DEF Adrift
<1>1. q \in Store /\ q.nextId \in 1..MaxId /\ MaxId \in Nat
  BY GoodFacts, NotificationAssumption
<1>2. id \in 1..MaxId /\ id \in 0..MaxId  BY <1>1
<1>3. AssignId(q, p) = r  BY <1>1 DEF AssignId, Store
<1> HIDE DEF id
<1>4. n \in Note  BY <1>0, <1>2 DEF Note
<1> HIDE DEF n
<1>5. Good(q1) /\ SameQueues(q1, q) /\ q1.heap[p] = n
  BY <1>0, <1>4, CellChanged
<1> HIDE DEF q1
<1>6. q1 \in Store /\ Owns(q1)  BY <1>5 DEF Good
<1>7. /\ r \in Store /\ r.displayed = q1.displayed /\ r.waiting = q1.waiting
      /\ r.history = q1.history /\ r.heap = q1.heap
  BY <1>2, <1>6 DEF Store
<1> HIDE DEF r
<1>8. Owns(r)  BY <1>6, <1>7 DEF Owns
<1>9. Adrift(r, p)
  BY <1>0, <1>4, <1>5, <1>7 DEF Adrift, Queued, SameQueues
<1> QED  BY <1>3, <1>7, <1>8, <1>9 DEF Good

LEMMA StackOrEnqueueKeeps ==
  ASSUME NEW q, Good(q), NEW p, Adrift(q, p)
  PROVE  Good(StackOrEnqueue(q, p))
<1> DEFINE td == FirstWithTag(q, q.displayed, p)
           tw == FirstWithTag(q, q.waiting, p)
           dd == FirstDuplicate(q, q.displayed, p)
           dw == FirstDuplicate(q, q.waiting, p)
           tagged  == TakeOver(q, td, tw, p, TRUE)
           stacked == TakeOver(q, dd, dw, p, TRUE)
           resorted == [stacked EXCEPT !.displayed = Sorted(stacked, stacked.displayed)]
<1>0. q.displayed \in Seq(Ptr) /\ q.waiting \in Seq(Ptr)  BY GoodFacts
<1>1. /\ PlaceIn(td, q.displayed) /\ PlaceIn(tw, q.waiting)
      /\ PlaceIn(dd, q.displayed) /\ PlaceIn(dw, q.waiting)
  BY <1>0, FirstWithTagPlace, FirstDuplicatePlace
<1>2. /\ td # 0 \/ tw # 0 => StackOrEnqueue(q, p) = tagged
      /\ ~(td # 0 \/ tw # 0) /\ StackDuplicates /\ (dd # 0 \/ dw # 0) =>
           StackOrEnqueue(q, p) \in {stacked, resorted}
      /\ ~(td # 0 \/ tw # 0) /\ ~(StackDuplicates /\ (dd # 0 \/ dw # 0)) =>
           StackOrEnqueue(q, p) = Enqueue(q, p)
  BY DEF StackOrEnqueue
<1> HIDE DEF td, tw, dd, dw
<1>3. td # 0 \/ tw # 0 => Good(tagged)  BY <1>1, TakeOverKeeps
<1>4. dd # 0 \/ dw # 0 => Good(stacked)  BY <1>1, TakeOverKeeps
<1> HIDE DEF tagged, stacked
<1>5. dd # 0 \/ dw # 0 => Good(resorted)  BY <1>4, DisplayedSortedKeeps
<1>6. Good(Enqueue(q, p))  BY EnqueueKeeps
<1> HIDE DEF resorted
<1> QED  BY <1>2, <1>3, <1>4, <1>5, <1>6

(* An empty notification is left to dbus_cb_Notify. *)
LEMMA InsertKeeps ==
  ASSUME NEW q, Good(q), NEW p, Adrift(q, p), NEW st,
         q.heap[p].id = 0 /\ ~q.heap[p].kind.empty => q.nextId < MaxId
  PROVE  Good(Insert(q, p, st))
<1> DEFINE n == q.heap[p]
           placed == IF n.id # 0 THEN ReplaceId(q, p)
                     ELSE StackOrEnqueue(AssignId(q, p), p)
           closed == NotificationClose(placed, p, UNDEF)
<1>1. CASE n.kind.empty  BY <1>1 DEF Insert
<1>2. CASE ~n.kind.empty
  <2>1. Good(placed)
    <3>1. CASE n.id # 0  BY <3>1, ReplaceIdKeeps
    <3>2. CASE n.id = 0
      BY <1>2, <3>2, AssignIdKeeps, StackOrEnqueueKeeps
    <3> QED  BY <3>1, <3>2
  <2>2. Insert(q, p, st) \in {placed, closed}  BY <1>2 DEF Insert
  <2> HIDE DEF placed
  <2>3. Good(closed)
    BY <2>1, NotificationCloseKeeps DEF Reasons
  <2> QED  BY <2>1, <2>2, <2>3
<1> QED  BY <1>1, <1>2

---------------------------------------------------------------------------
(* The steps of queues_update                                              *)

Places == {"idle", "push_all", "click",
           "retire", "fill", "trim", "seep", "finish"}

(* What a loop has still to visit is there, however many notifications the *)
(* visits before have taken out of the queue.                              *)
Within ==
  /\ pc = "retire" => left <= Len(displayed)
  /\ pc = "fill" => left <= Len(waiting)

UpdateInv ==
  /\ Good(store)
  /\ pc \in Places /\ left \in Nat /\ limit \in Nat
  /\ Within

---------------------------------------------------------------------------
LEMMA QuietKeeps ==
  ASSUME Good(store)
  PROVE  /\ Good(Quiet) /\ SameQueues(Quiet, store)
         /\ Quiet.heap = store.heap /\ Quiet.nextId = store.nextId
<1>1. store \in Store /\ Owns(store)  BY DEF Good
<1>2. /\ Quiet \in Store /\ SameQueues(Quiet, store)
      /\ Quiet.heap = store.heap /\ Quiet.nextId = store.nextId
  BY <1>1 DEF Quiet, Store, SameQueues
<1>3. Owns(Quiet)  BY <1>1, <1>2 DEF Owns, SameQueues
<1> QED  BY <1>2, <1>3 DEF Good

LEMMA LengthsTyped ==
  ASSUME NEW q, Good(q)
  PROVE  /\ Len(q.displayed) \in Nat /\ Len(q.waiting) \in Nat
         /\ Shrinks(q, q)
<1>1. Len(q.displayed) \in Nat /\ Len(q.waiting) \in Nat
  BY GoodFacts, LenProperties
<1> QED  BY <1>1 DEF Shrinks

LEMMA ShrinksFrom ==
  ASSUME NEW r, NEW q, NEW o, Shrinks(r, q), SameQueues(q, o)
  PROVE  Shrinks(r, o)
BY DEF Shrinks, SameQueues

LEMMA HeldKeeps ==
  ASSUME NEW q, Good(q), NEW p \in Ptr, q.heap[p] \in Note
  PROVE  /\ Good(Restarted(q, p)) /\ SameQueues(Restarted(q, p), q)
         /\ Restarted(q, p).heap[p] \in Note
         /\ Good(Started(q, p)) /\ SameQueues(Started(q, p), q)
         /\ Started(q, p).heap[p] \in Note
<1> DEFINE n == [q.heap[p] EXCEPT !.due = FALSE]
           r == [q EXCEPT !.heap[p] = n]
<1>1. n \in Note  BY DEF Note
<1>2. q \in Store  BY GoodFacts
<1>3. [q EXCEPT !.heap[p].due = FALSE] = r  BY <1>2 DEF Store
<1> HIDE DEF n
<1>4. Good(r) /\ SameQueues(r, q) /\ r.heap[p] = n
  BY <1>1, CellChanged
<1>5. Started(q, p) = r /\ Restarted(q, p) \in {q, r}
  BY <1>3 DEF Started, Restarted
<1> HIDE DEF r
<1> QED  BY <1>1, <1>4, <1>5 DEF SameQueues

LEMMA UnmarkKeeps ==
  ASSUME NEW q, Good(q), NEW p \in Ptr, NEW field \in {"closing", "removing"}
  PROVE  Good(Unmark(q, p, field)) /\ SameQueues(Unmark(q, p, field), q)
<1> DEFINE n == [q.heap[p] EXCEPT ![field] = NotMarked]
           r == [q EXCEPT !.heap[p] = n]
<1>1. q \in Store /\ q.heap \in [Ptr -> Note \cup {Freed}]  BY GoodFacts
<1>2. CASE q.heap[p] = Freed  BY <1>2 DEF Unmark, SameQueues
<1>3. CASE q.heap[p] # Freed
  <2>1. q.heap[p] \in Note  BY <1>1, <1>3
  <2>2. n \in Note
    <3>1. CASE field = "closing"  BY <2>1, <3>1 DEF Note
    <3>2. CASE field = "removing"  BY <2>1, <3>2 DEF Note
    <3> QED  BY <3>1, <3>2
  <2>3. Unmark(q, p, field) = r  BY <1>1, <1>3 DEF Unmark, Store
  <2> HIDE DEF n
  <2> QED  BY <2>2, <2>3, CellChanged
<1> QED  BY <1>2, <1>3

---------------------------------------------------------------------------
(* The first loop                                                          *)

LEMMA VisitedIsThere ==
  ASSUME UpdateInv, Retiring
  PROVE  /\ Len(displayed) - left + 1 \in 1..Len(displayed)
         /\ Visited \in Ptr /\ heap[Visited] \in Note
<1>1. left \in Nat /\ left > 0 /\ left <= Len(displayed)
  BY DEF UpdateInv, Within, Retiring
<1>2. Len(displayed) \in Nat /\ displayed \in Seq(Ptr)
  BY LengthsTyped, GoodFacts DEF UpdateInv, displayed
<1>3. Len(displayed) - left + 1 \in 1..Len(displayed)  BY <1>1, <1>2
<1>4. Visited \in ToSet(displayed)  BY <1>2, <1>3, Elements DEF Visited
<1> QED
  BY <1>3, <1>4, GoodFacts DEF UpdateInv, Queued, displayed, heap

LEMMA RetireKeeps ==
  ASSUME UpdateInv, Retiring, NEW q, Good(q), Shrinks(q, store), Retire(q)
  PROVE  UpdateInv'
<1>1. /\ store' = q /\ left' = left - 1 /\ pc' = "retire" /\ limit' = limit
      /\ left \in Nat /\ left > 0 /\ left <= Len(store.displayed)
  BY DEF UpdateInv, Within, Retiring, Retire, displayed
<1>2. left' \in Nat  BY <1>1
<1>3. Len(q.displayed) \in Nat /\ Len(store.displayed) \in Nat
  BY LengthsTyped DEF UpdateInv
<1>4. left' <= Len(q.displayed)  BY <1>1, <1>3 DEF Shrinks
<1> QED
  BY <1>1, <1>2, <1>4 DEF UpdateInv, Within, displayed, Places

LEMMA RetireMarkedKeeps ==
  ASSUME UpdateInv, RetireMarked  PROVE  UpdateInv'
<1> DEFINE n  == heap[Visited]
           q1 == NotificationClose(Quiet, Visited, n.closing)
           q2 == Unmark(q1, Visited, "closing")
<1>1. Retiring /\ n.closing # NotMarked /\ Retire(q2)  BY DEF RetireMarked
<1>2. Visited \in Ptr /\ n \in Note  BY <1>1, VisitedIsThere
<1>3. n.closing \in Reasons  BY <1>1, <1>2 DEF Note
<1>4. Good(Quiet) /\ SameQueues(Quiet, store)  BY QuietKeeps DEF UpdateInv
<1>5. Good(q1) /\ Shrinks(q1, store)
  BY <1>3, <1>4, NotificationCloseKeeps, ShrinksFrom
<1> HIDE DEF q1
<1>6. Good(q2) /\ SameQueues(q2, q1)  BY <1>2, <1>5, UnmarkKeeps
<1>7. Shrinks(q2, store)  BY <1>5, <1>6 DEF Shrinks, SameQueues
<1> QED  BY <1>1, <1>6, <1>7, RetireKeeps

LEMMA RetireRemovedKeeps ==
  ASSUME UpdateInv, RetireRemoved  PROVE  UpdateInv'
<1> DEFINE n  == heap[Visited]
           q1(lost) == NotificationRemove(Quiet, Visited, n.removing, lost)
           q2(lost) == Unmark(q1(lost), Visited, "removing")
<1>1. /\ Retiring /\ n.removing # NotMarked
      /\ \E lost \in BOOLEAN : Retire(q2(lost))
  BY DEF RetireRemoved
<1>2. PICK lost \in BOOLEAN : Retire(q2(lost))  BY <1>1
<1>3. Visited \in Ptr /\ n \in Note  BY <1>1, VisitedIsThere
<1>4. n.removing \in Reasons  BY <1>1, <1>3 DEF Note
<1>5. Good(Quiet) /\ SameQueues(Quiet, store)  BY QuietKeeps DEF UpdateInv
<1>6. Good(q1(lost)) /\ Shrinks(q1(lost), store)
  BY <1>4, <1>5, NotificationRemoveKeeps, ShrinksFrom
<1> HIDE DEF q1
<1>7. Good(q2(lost)) /\ SameQueues(q2(lost), q1(lost))
  BY <1>3, <1>6, UnmarkKeeps
<1>8. Shrinks(q2(lost), store)  BY <1>6, <1>7 DEF Shrinks, SameQueues
<1> QED  BY <1>1, <1>2, <1>7, <1>8, RetireKeeps

LEMMA RetireFinishedKeeps ==
  ASSUME UpdateInv, RetireFinished  PROVE  UpdateInv'
<1> DEFINE q == NotificationClose(Quiet, Visited, TIME)
<1>1. Retiring /\ Retire(q)  BY DEF RetireFinished
<1>2. Good(Quiet) /\ SameQueues(Quiet, store)  BY QuietKeeps DEF UpdateInv
<1>3. Good(q) /\ Shrinks(q, store)
  BY <1>2, NotificationCloseKeeps, ShrinksFrom DEF Reasons
<1> QED  BY <1>1, <1>3, RetireKeeps

LEMMA RestartedVisited ==
  ASSUME UpdateInv, Retiring
  PROVE  /\ Good(Restarted(Quiet, Visited))
         /\ SameQueues(Restarted(Quiet, Visited), store)
<1>1. /\ Good(Quiet) /\ SameQueues(Quiet, store) /\ Quiet.heap = store.heap
  BY QuietKeeps DEF UpdateInv
<1>2. Visited \in Ptr /\ Quiet.heap[Visited] \in Note
  BY <1>1, VisitedIsThere DEF heap
<1> QED  BY <1>1, <1>2, HeldKeeps DEF SameQueues

LEMMA RetireSuppressedKeeps ==
  ASSUME UpdateInv, RetireSuppressed  PROVE  UpdateInv'
<1> DEFINE r == Restarted(Quiet, Visited)
           q == NotificationClose(r, Visited, UNDEF)
<1>1. Retiring /\ Retire(q)  BY DEF RetireSuppressed
<1>2. Good(r) /\ SameQueues(r, store)  BY <1>1, RestartedVisited
<1> HIDE DEF r
<1>3. Good(q) /\ Shrinks(q, store)
  BY <1>2, NotificationCloseKeeps, ShrinksFrom DEF Reasons
<1> QED  BY <1>1, <1>3, RetireKeeps

LEMMA RetirePushbackKeeps ==
  ASSUME UpdateInv, RetirePushback  PROVE  UpdateInv'
<1> DEFINE r   == Restarted(Quiet, Visited)
           at  == Len(r.displayed) - left + 1
           cut == [r EXCEPT !.displayed = RemoveAt(r.displayed, at)]
           q   == Enqueue(cut, Visited)
<1>1. Retiring /\ Retire(q)  BY DEF RetirePushback
<1>2. Good(r) /\ SameQueues(r, store)  BY <1>1, RestartedVisited
<1> HIDE DEF r
<1>3. at \in 1..Len(r.displayed) /\ r.displayed[at] = Visited
  BY <1>1, <1>2, VisitedIsThere DEF SameQueues, Visited, displayed
<1>4. r.displayed \in Seq(Ptr) /\ IsInjective(r.displayed) /\ r \in Store
  BY <1>2, GoodFacts
<1> HIDE DEF at
<1>5. Good(cut) /\ Adrift(cut, Visited) /\ cut.waiting = r.waiting
  BY <1>2, <1>3, DisplayedTaken
<1>6. cut.displayed = RemoveAt(r.displayed, at)  BY <1>4 DEF Store
<1>7. Len(cut.displayed) = Len(r.displayed) - 1
  BY <1>3, <1>4, <1>6, Removed
<1> HIDE DEF cut
<1>8. /\ Good(q) /\ q.displayed = cut.displayed
      /\ Len(q.waiting) = Len(cut.waiting) + 1
  BY <1>5, EnqueueKeeps
<1>9. Len(r.displayed) \in Nat /\ Len(r.waiting) \in Nat
  BY <1>2, LengthsTyped
<1>10. /\ Len(r.displayed) <= Len(q.displayed) + 1
       /\ Len(r.waiting) <= Len(q.waiting) + 1
  BY <1>5, <1>7, <1>8, <1>9
<1>11. Shrinks(q, store)  BY <1>2, <1>10 DEF Shrinks, SameQueues
<1> QED  BY <1>1, <1>8, <1>11, RetireKeeps

LEMMA RetireKeepKeeps ==
  ASSUME UpdateInv, RetireKeep  PROVE  UpdateInv'
<1> DEFINE q == IF heap[Visited].locked THEN Quiet
                ELSE Restarted(Quiet, Visited)
<1>1. Retiring /\ Retire(q)  BY DEF RetireKeep
<1>2. Good(q) /\ SameQueues(q, store)
  BY <1>1, RestartedVisited, QuietKeeps DEF UpdateInv
<1> HIDE DEF q
<1>3. Shrinks(q, store)
  BY <1>2, LengthsTyped, ShrinksFrom
<1> QED  BY <1>1, <1>2, <1>3, RetireKeeps

LEMMA RetireDoneKeeps ==
  ASSUME UpdateInv, RetireDone  PROVE  UpdateInv'
<1>1. Good(Quiet) /\ SameQueues(Quiet, store)  BY QuietKeeps DEF UpdateInv
<1>2. Len(waiting) \in Nat  BY LengthsTyped DEF UpdateInv, waiting
<1>3. DisplayedLimit \in Nat
  <2>1. NotificationLimit \in Nat  BY UpdateAssumption
  <2>2. NotificationLimit > 1 => NotificationLimit - 1 \in Nat  BY <2>1
  <2> QED  BY <2>1, <2>2 DEF DisplayedLimit
<1>4. /\ store' = Quiet /\ limit' = DisplayedLimit /\ pc' = "fill"
      /\ left' = Len(waiting)
  BY DEF RetireDone
<1>5. left' <= Len(waiting')
  BY <1>1, <1>2, <1>4 DEF waiting, SameQueues
<1> QED
  BY <1>1, <1>2, <1>3, <1>4, <1>5 DEF UpdateInv, Within, Places

---------------------------------------------------------------------------
(* The second loop                                                         *)

LEMMA CandidateIsThere ==
  ASSUME UpdateInv, Filling
  PROVE  /\ Len(waiting) - left + 1 \in 1..Len(waiting)
         /\ Candidate \in Ptr /\ heap[Candidate] \in Note
<1>1. left \in Nat /\ left > 0 /\ left <= Len(waiting)
  BY DEF UpdateInv, Within, Filling
<1>2. Len(waiting) \in Nat /\ waiting \in Seq(Ptr)
  BY LengthsTyped, GoodFacts DEF UpdateInv, waiting
<1>3. Len(waiting) - left + 1 \in 1..Len(waiting)  BY <1>1, <1>2
<1>4. Candidate \in ToSet(waiting)  BY <1>2, <1>3, Elements DEF Candidate
<1> QED
  BY <1>3, <1>4, GoodFacts DEF UpdateInv, Queued, waiting, heap

LEMMA FillKeeps ==
  ASSUME UpdateInv, Filling, NEW q, Good(q), Fill(q),
         Len(store.waiting) <= Len(q.waiting) + 1
  PROVE  UpdateInv'
<1>1. /\ store' = q /\ left' = left - 1 /\ pc' = "fill" /\ limit' = limit
      /\ left \in Nat /\ left > 0 /\ left <= Len(store.waiting)
  BY DEF UpdateInv, Within, Filling, Fill, waiting
<1>2. left' \in Nat  BY <1>1
<1>3. Len(q.waiting) \in Nat /\ Len(store.waiting) \in Nat
  BY LengthsTyped DEF UpdateInv
<1>4. left' <= Len(q.waiting)  BY <1>1, <1>3
<1> QED
  BY <1>1, <1>2, <1>4 DEF UpdateInv, Within, waiting, Places

LEMMA StartedCandidate ==
  ASSUME UpdateInv, Filling
  PROVE  /\ Good(Started(Quiet, Candidate))
         /\ SameQueues(Started(Quiet, Candidate), store)
<1>1. /\ Good(Quiet) /\ SameQueues(Quiet, store) /\ Quiet.heap = store.heap
  BY QuietKeeps DEF UpdateInv
<1>2. Candidate \in Ptr /\ Quiet.heap[Candidate] \in Note
  BY <1>1, CandidateIsThere DEF heap
<1> QED  BY <1>1, <1>2, HeldKeeps DEF SameQueues

(* FillSuppressed and FillSkipsDisplay *)
LEMMA FillClosesKeeps ==
  ASSUME UpdateInv, Filling, NEW reason \in Reasons,
         Fill(NotificationClose(Started(Quiet, Candidate), Candidate, reason))
  PROVE  UpdateInv'
<1> DEFINE r == Started(Quiet, Candidate)
           q == NotificationClose(r, Candidate, reason)
<1>1. Good(r) /\ SameQueues(r, store)  BY StartedCandidate
<1> HIDE DEF r
<1>2. Good(q) /\ Shrinks(q, store)
  BY <1>1, NotificationCloseKeeps, ShrinksFrom
<1> HIDE DEF q
<1>3. Len(store.waiting) <= Len(q.waiting) + 1  BY <1>2 DEF Shrinks
<1>4. Fill(q)  BY DEF q, r
<1> QED  BY <1>2, <1>3, <1>4, FillKeeps

LEMMA FillNotReadyKeeps ==
  ASSUME UpdateInv, FillNotReady  PROVE  UpdateInv'
<1>1. Filling /\ Fill(Quiet)  BY DEF FillNotReady
<1>2. Good(Quiet) /\ SameQueues(Quiet, store)  BY QuietKeeps DEF UpdateInv
<1>3. Len(store.waiting) <= Len(Quiet.waiting) + 1
  BY <1>2, LengthsTyped DEF SameQueues
<1> QED  BY <1>1, <1>2, <1>3, FillKeeps

(* what is put in displayed was in no queue *)
LEMMA ShownKeeps ==
  ASSUME NEW q, Good(q), NEW p, Adrift(q, p), NEW o
  PROVE  Good([q EXCEPT !.displayed = InsertSorted(o, q.displayed, p)])
<1> DEFINE d == InsertSorted(o, q.displayed, p)
<1>0. /\ p \in Ptr /\ q.heap[p] # Freed
      /\ p \notin ToSet(q.displayed) /\ p \notin ToSet(q.waiting)
      /\ p \notin ToSet(q.history)
  BY AdriftFacts
<1>1. /\ q.displayed \in Seq(Ptr) /\ IsInjective(q.displayed)
      /\ ToSet(q.displayed) \cap ToSet(q.waiting) = {}
      /\ ToSet(q.displayed) \cap ToSet(q.history) = {}
      /\ \A r \in ToSet(q.displayed) : q.heap[r] # Freed
  BY GoodFacts DEF Queued
<1>2. /\ d \in Seq(Ptr) /\ IsInjective(d)
      /\ ToSet(d) = ToSet(q.displayed) \cup {p}
  BY <1>0, <1>1, InsertSortedProperties
<1> HIDE DEF d
<1>3. /\ ToSet(d) \cap ToSet(q.waiting) = {} /\ ToSet(d) \cap ToSet(q.history) = {}
      /\ \A r \in ToSet(d) : q.heap[r] # Freed
  BY <1>0, <1>1, <1>2
<1>4. Good([q EXCEPT !.displayed = d])  BY <1>2, <1>3, DisplayedChanged
<1> QED  BY <1>4 DEF d

LEMMA FillDisplayKeeps ==
  ASSUME UpdateInv, FillDisplay  PROVE  UpdateInv'
<1> DEFINE r   == Started(Quiet, Candidate)
           at  == Len(r.waiting) - left + 1
           cut == [r EXCEPT !.waiting = RemoveAt(r.waiting, at)]
           q   == [cut EXCEPT !.displayed = InsertSorted(r, cut.displayed, Candidate)]
<1>1. Filling  BY DEF FillDisplay
<1>2. Good(r) /\ SameQueues(r, store)  BY <1>1, StartedCandidate
<1>3. r \in Store  BY <1>2, GoodFacts
<1>4. Fill([r EXCEPT !.waiting = RemoveAt(r.waiting, at),
                     !.displayed = InsertSorted(r, r.displayed, Candidate)])
  BY DEF FillDisplay
<1> HIDE DEF r
<1>5. [r EXCEPT !.waiting = RemoveAt(r.waiting, at),
                !.displayed = InsertSorted(r, r.displayed, Candidate)] = q
  BY <1>3 DEF Store
<1>6. at \in 1..Len(r.waiting) /\ r.waiting[at] = Candidate
  BY <1>1, <1>2, CandidateIsThere DEF SameQueues, Candidate, waiting
<1>7. r.waiting \in Seq(Ptr) /\ IsInjective(r.waiting)
  BY <1>2, GoodFacts
<1>8. Fill(q)  BY <1>4, <1>5
<1> HIDE DEF at
<1>9. Good(cut) /\ Adrift(cut, Candidate)  BY <1>2, <1>6, WaitingTaken
<1>10. cut.waiting = RemoveAt(r.waiting, at)  BY <1>3 DEF Store
<1>11. Len(cut.waiting) = Len(r.waiting) - 1  BY <1>6, <1>7, <1>10, Removed
<1> HIDE DEF cut
<1>12. Good(q)  BY <1>9, ShownKeeps
<1>13. q.waiting = cut.waiting  BY <1>9, GoodFacts DEF Store
<1> HIDE DEF q
<1>14. Len(r.waiting) \in Nat  BY <1>2, LengthsTyped
<1>15. Len(store.waiting) <= Len(q.waiting) + 1
  BY <1>2, <1>11, <1>13, <1>14 DEF SameQueues
<1> QED  BY <1>1, <1>8, <1>12, <1>15, FillKeeps

---------------------------------------------------------------------------
(* The third and the fourth loop                                           *)

(* outside the first two loops the queues need only be in order *)
LEMMA LaterKeeps ==
  ASSUME UpdateInv, Good(store'), pc' \in {"trim", "seep", "finish", "idle"},
         left' \in Nat, limit' \in Nat
  PROVE  UpdateInv'
BY DEF UpdateInv, Within, Places

LEMMA FillDoneKeeps ==
  ASSUME UpdateInv, FillDone  PROVE  UpdateInv'
<1>1. Good(Quiet)  BY QuietKeeps DEF UpdateInv
<1> QED  BY <1>1, LaterKeeps DEF FillDone, UpdateInv

LEMMA TrimStepKeeps ==
  ASSUME UpdateInv, TrimStep  PROVE  UpdateInv'
<1> DEFINE d == Front(store.displayed)
           w == InsertSorted(store, store.waiting, Last(store.displayed))
           q == [Quiet EXCEPT !.displayed = d, !.waiting = w]
<1>1. /\ Good(Quiet) /\ SameQueues(Quiet, store) /\ Quiet.heap = store.heap
      /\ Quiet \in Store
  BY QuietKeeps, GoodFacts DEF UpdateInv
<1>2. /\ store.displayed \in Seq(Ptr) /\ IsInjective(store.displayed)
      /\ store.waiting \in Seq(Ptr) /\ IsInjective(store.waiting)
      /\ store.history \in Seq(Ptr) /\ IsInjective(store.history)
      /\ ToSet(store.displayed) \cap ToSet(store.waiting) = {}
      /\ ToSet(store.displayed) \cap ToSet(store.history) = {}
      /\ ToSet(store.waiting) \cap ToSet(store.history) = {}
      /\ \A p \in Queued(store) : p \in Ptr /\ store.heap[p] # Freed
  BY GoodFacts DEF UpdateInv
<1>3. store.displayed # <<>>
  <2>1. Len(store.displayed) > limit /\ limit \in Nat
    BY DEF TrimStep, Overhang, UpdateInv, displayed
  <2>2. Len(store.displayed) \in Nat  BY <1>2, LenProperties
  <2>3. Len(store.displayed) # 0  BY <2>1, <2>2
  <2> QED  BY <2>3, EmptySeq
<1>4. /\ d \in Seq(Ptr) /\ IsInjective(d)
      /\ ToSet(d) = ToSet(store.displayed) \ {Last(store.displayed)}
      /\ Last(store.displayed) \in ToSet(store.displayed)
  BY <1>2, <1>3, FrontTaken
<1>5. /\ Last(store.displayed) \in Ptr
      /\ Last(store.displayed) \notin ToSet(store.waiting)
  BY <1>2, <1>4 DEF Queued
<1>6. /\ w \in Seq(Ptr) /\ IsInjective(w)
      /\ ToSet(w) = ToSet(store.waiting) \cup {Last(store.displayed)}
  BY <1>2, <1>5, InsertSortedProperties
<1>7. store' = q
  BY <1>1 DEF TrimStep, SameQueues, displayed
<1>8. q = [Quiet EXCEPT !.displayed = d, !.waiting = w,
                        !.history = store.history]
  BY <1>1 DEF Store, SameQueues
<1> HIDE DEF d, w
<1>9. /\ ToSet(d) \cap ToSet(w) = {} /\ ToSet(d) \cap ToSet(store.history) = {}
      /\ ToSet(w) \cap ToSet(store.history) = {}
      /\ \A p \in ToSet(d) \cup ToSet(w) \cup ToSet(store.history) :
           Quiet.heap[p] # Freed
  BY <1>1, <1>2, <1>4, <1>6 DEF Queued
<1>10. Good([Quiet EXCEPT !.displayed = d, !.waiting = w,
                          !.history = store.history])
  BY <1>1, <1>2, <1>4, <1>6, <1>9, GoodQueues
<1>11. Good(q)  BY <1>8, <1>10
<1> HIDE DEF q
<1> QED  BY <1>7, <1>11, LaterKeeps DEF TrimStep, control, UpdateInv

LEMMA TrimDoneKeeps ==
  ASSUME UpdateInv, TrimDone  PROVE  UpdateInv'
<1>1. Good(Quiet)  BY QuietKeeps DEF UpdateInv
<1> QED  BY <1>1, LaterKeeps DEF TrimDone, UpdateInv

LEMMA SeepSwapKeeps ==
  ASSUME UpdateInv, SeepSwap  PROVE  UpdateInv'
<1> DEFINE up   == store.waiting[1]
           down == Last(store.displayed)
           r == Started(Quiet, up)
           d == InsertSorted(r, Front(store.displayed), up)
           w == InsertSorted(r, Tail(store.waiting), down)
           q == [r EXCEPT !.displayed = d, !.waiting = w]
<1>1. /\ Good(Quiet) /\ SameQueues(Quiet, store) /\ Quiet.heap = store.heap
  BY QuietKeeps DEF UpdateInv
<1>2. /\ store.displayed \in Seq(Ptr) /\ IsInjective(store.displayed)
      /\ store.waiting \in Seq(Ptr) /\ IsInjective(store.waiting)
      /\ store.history \in Seq(Ptr) /\ IsInjective(store.history)
      /\ ToSet(store.displayed) \cap ToSet(store.waiting) = {}
      /\ ToSet(store.displayed) \cap ToSet(store.history) = {}
      /\ ToSet(store.waiting) \cap ToSet(store.history) = {}
      /\ \A p \in Queued(store) : /\ p \in Ptr /\ store.heap[p] \in Note
                                  /\ store.heap[p] # Freed
  BY GoodFacts DEF UpdateInv
<1>3. store.displayed # <<>> /\ store.waiting # <<>>
  BY DEF SeepSwap, Seeps, displayed, waiting
<1>4. up \in ToSet(store.waiting)
  <2>1. Len(store.waiting) \in Nat /\ Len(store.waiting) # 0
    BY <1>2, <1>3, EmptySeq
  <2>2. 1 \in 1..Len(store.waiting)  BY <2>1
  <2> QED  BY <1>2, <2>2, Elements
<1>5. /\ Front(store.displayed) \in Seq(Ptr)
      /\ IsInjective(Front(store.displayed))
      /\ ToSet(Front(store.displayed)) = ToSet(store.displayed) \ {down}
      /\ down \in ToSet(store.displayed)
  BY <1>2, <1>3, FrontTaken
<1>6. /\ Tail(store.waiting) \in Seq(Ptr) /\ IsInjective(Tail(store.waiting))
      /\ ToSet(Tail(store.waiting)) = ToSet(store.waiting) \ {up}
  BY <1>2, <1>3, TailTaken
<1>7. Good(r) /\ SameQueues(r, store)
  <2>1. up \in Ptr /\ Quiet.heap[up] \in Note  BY <1>1, <1>2, <1>4 DEF Queued
  <2> HIDE DEF up
  <2> QED  BY <1>1, <2>1, HeldKeeps DEF SameQueues
<1>8. store' = [r EXCEPT !.displayed = InsertSorted(r, Front(r.displayed), up),
                         !.waiting = InsertSorted(r, Tail(r.waiting), down)]
  BY DEF SeepSwap, displayed, waiting
<1> HIDE DEF up, down, r
<1>9. store' = q  BY <1>7, <1>8 DEF SameQueues
<1>10. /\ up \in Ptr /\ down \in Ptr
       /\ up \notin ToSet(store.displayed) /\ down \notin ToSet(store.waiting)
       /\ up \notin ToSet(store.history) /\ down \notin ToSet(store.history)
       /\ up # down
  BY <1>2, <1>4, <1>5 DEF Queued
<1>11. /\ d \in Seq(Ptr) /\ IsInjective(d)
       /\ ToSet(d) = (ToSet(store.displayed) \ {down}) \cup {up}
  BY <1>5, <1>10, InsertSortedProperties
<1>12. /\ w \in Seq(Ptr) /\ IsInjective(w)
       /\ ToSet(w) = (ToSet(store.waiting) \ {up}) \cup {down}
  <2> DEFINE rest == Tail(store.waiting)
  <2>1. /\ rest \in Seq(Ptr) /\ IsInjective(rest)
        /\ ToSet(rest) = ToSet(store.waiting) \ {up}
        /\ w = InsertSorted(r, rest, down)
    BY <1>6
  <2> HIDE DEF rest, w
  <2>2. down \notin ToSet(rest) /\ down \in Ptr  BY <2>1, <1>10
  <2>3. /\ w \in Seq(Ptr) /\ IsInjective(w)
        /\ ToSet(w) = ToSet(rest) \cup {down}
    BY <2>1, <2>2, InsertSortedProperties
  <2> QED  BY <2>1, <2>3
<1> HIDE DEF d, w
<1>13. r \in Store /\ \A p \in Queued(store) : r.heap[p] # Freed
  BY <1>7, GoodFacts DEF Queued, SameQueues
<1>14. /\ ToSet(d) \cap ToSet(w) = {} /\ ToSet(d) \cap ToSet(store.history) = {}
       /\ ToSet(w) \cap ToSet(store.history) = {}
  BY <1>2, <1>10, <1>11, <1>12
<1>15. \A p \in ToSet(d) \cup ToSet(w) \cup ToSet(store.history) :
         r.heap[p] # Freed
  BY <1>4, <1>5, <1>11, <1>12, <1>13 DEF Queued
<1>16. q = [r EXCEPT !.displayed = d, !.waiting = w, !.history = store.history]
  BY <1>7, <1>13 DEF Store, SameQueues
<1>17. Good(q)
  <2>1. Good([r EXCEPT !.displayed = d, !.waiting = w,
                       !.history = store.history])
    BY <1>2, <1>11, <1>12, <1>13, <1>14, <1>15, GoodQueues
  <2> QED  BY <2>1, <1>16
<1> HIDE DEF q
<1> QED  BY <1>9, <1>17, LaterKeeps DEF SeepSwap, control, UpdateInv

LEMMA SeepDoneKeeps ==
  ASSUME UpdateInv, SeepDone  PROVE  UpdateInv'
<1>1. Good(Quiet)  BY QuietKeeps DEF UpdateInv
<1> QED  BY <1>1, LaterKeeps DEF SeepDone, UpdateInv

---------------------------------------------------------------------------
(* No step of queues_update queues a notification twice, loses its place   *)
(* in a loop or lets a queued notification be freed.                       *)
THEOREM UpdateStepKeeps ==
  ASSUME UpdateInv, UpdateStep  PROVE  UpdateInv'
<1>1. CASE RetireMarked  BY <1>1, RetireMarkedKeeps
<1>2. CASE RetireRemoved  BY <1>2, RetireRemovedKeeps
<1>3. CASE RetireFinished  BY <1>3, RetireFinishedKeeps
<1>4. CASE RetireSuppressed  BY <1>4, RetireSuppressedKeeps
<1>5. CASE RetirePushback  BY <1>5, RetirePushbackKeeps
<1>6. CASE RetireKeep  BY <1>6, RetireKeepKeeps
<1>7. CASE RetireDone  BY <1>7, RetireDoneKeeps
<1>8. CASE FillSuppressed
  BY <1>8, FillClosesKeeps DEF FillSuppressed, Reasons
<1>9. CASE FillNotReady  BY <1>9, FillNotReadyKeeps
<1>10. CASE FillSkipsDisplay
  BY <1>10, FillClosesKeeps DEF FillSkipsDisplay, Reasons
<1>11. CASE FillDisplay  BY <1>11, FillDisplayKeeps
<1>12. CASE FillDone  BY <1>12, FillDoneKeeps
<1>13. CASE TrimStep  BY <1>13, TrimStepKeeps
<1>14. CASE TrimDone  BY <1>14, TrimDoneKeeps
<1>15. CASE SeepSwap  BY <1>15, SeepSwapKeeps
<1>16. CASE SeepDone  BY <1>16, SeepDoneKeeps
<1> QED
  BY <1>1, <1>2, <1>3, <1>4, <1>5, <1>6, <1>7, <1>8, <1>9, <1>10, <1>11,
     <1>12, <1>13, <1>14, <1>15, <1>16 DEF UpdateStep

---------------------------------------------------------------------------
(* The steps of the daemon                                                 *)

(* Neither the type nor ownership is inductive on its own, because the     *)
(* loops of queues_update index the queues by "left": IInv adds that they  *)
(* stay within them.                                                       *)
IInv == TypeOK /\ QueueOwnership /\ Within

(* The part of IInv that queues_update does not touch. *)
Surroundings ==
  /\ status \in Status
  /\ acts \in Seq(Acts) /\ clicked \in Nat
  /\ clock \in {-1} \cup Stamps
  /\ timer \in BOOLEAN
  /\ advertised \in Lengths

LEMMA IInvParts == IInv <=> UpdateInv /\ Surroundings
BY DEF IInv, TypeOK, QueueOwnership, UpdateInv, Surroundings, Good, Places

LEMMA IInvPartsNext == IInv' <=> UpdateInv' /\ Surroundings'
BY DEF IInv, TypeOK, QueueOwnership, UpdateInv, Surroundings, Good, Places

LEMMA InitHolds == Init => IInv
<1> SUFFICES ASSUME Init PROVE IInv
  OBVIOUS
<1>1. store = EmptyStore /\ pc = "idle" /\ left = 0 /\ limit = 0
  BY DEF Init
<1>2. /\ <<>> \in Seq(Ptr) /\ IsInjective(<<>>) /\ ToSet(<<>>) = {}
  BY NoElements
<1>3. 1 \in 1..MaxId
  <2>1. MaxId \in Nat /\ MaxId # 0  BY NotificationAssumption
  <2> QED  BY <2>1
<1>4. EmptyStore \in Store  BY <1>2, <1>3 DEF EmptyStore, Store
<1>5. Owns(EmptyStore)  BY <1>2 DEF EmptyStore, Owns
<1>6. UpdateInv
  BY <1>1, <1>4, <1>5 DEF UpdateInv, Good, Places, Within
<1>7. Surroundings
  <2>1. <<>> \in Seq(Acts)  BY EmptySeq
  <2> QED  BY <2>1 DEF Init, Surroundings, Status, Lengths
<1> QED  BY <1>6, <1>7, IInvParts

---------------------------------------------------------------------------
(* wake_up starts queues_update on queues that are in order. *)
LEMMA RunWithKeeps ==
  ASSUME UpdateInv, Surroundings, NEW q, Good(q), NEW st \in Status,
         RunWith(q, st)
  PROVE  /\ UpdateInv'
         /\ status' \in Status /\ timer' \in BOOLEAN /\ advertised' \in Lengths
<1>1. /\ store' = q /\ pc' = "retire" /\ left' = Len(q.displayed)
      /\ limit' = limit /\ timer' = FALSE /\ advertised' = advertised
  BY DEF RunWith
<1>2. Len(q.displayed) \in Nat  BY LengthsTyped
<1>3. left' <= Len(displayed')  BY <1>1, <1>2 DEF displayed
<1>4. status' \in Status
  <2>1. PICK f \in Fullscreens, i \in Idles :
          status' = [st EXCEPT !.fullscreen = f, !.idle = i]
    BY DEF RunWith
  <2>2. f \in BOOLEAN /\ i \in BOOLEAN  BY DaemonAssumption
  <2> QED  BY <2>1, <2>2 DEF Status
<1> QED
  BY <1>1, <1>2, <1>3, <1>4 DEF UpdateInv, Surroundings, Within, Places

LEMMA WakeUpKeeps ==
  ASSUME UpdateInv, Surroundings, NEW q, Good(q), WakeUp(q),
         UNCHANGED <<mouse, clock>>
  PROVE  UpdateInv' /\ Surroundings'
<1>1. status \in Status /\ RunWith(q, status)  BY DEF Surroundings, WakeUp
<1>2. /\ UpdateInv'
      /\ status' \in Status /\ timer' \in BOOLEAN /\ advertised' \in Lengths
  BY <1>1, RunWithKeeps
<1> QED  BY <1>2 DEF Surroundings, mouse

(* a step of a handler that leaves the loops alone *)
LEMMA HandlerKeeps ==
  ASSUME UpdateInv, Good(store'), pc' \in {"idle", "push_all", "click"},
         UNCHANGED <<left, limit>>
  PROVE  UpdateInv'
BY DEF UpdateInv, Within, Places

---------------------------------------------------------------------------
(* The D-Bus methods                                                       *)

LEMMA RequestableIdsTyped ==
  ASSUME UpdateInv
  PROVE  RequestableIds \subseteq 0..MaxId
<1>1. MaxId \in Nat  BY NotificationAssumption
<1>2. OpenIds \subseteq 0..MaxId
  <2>1. \A p \in ToSet(displayed) \cup ToSet(waiting) : heap[p] \in Note
    BY GoodFacts DEF UpdateInv, Queued, displayed, waiting, heap
  <2> QED  BY <2>1 DEF OpenIds, Note
<1>3. 0 \in 0..MaxId /\ 1..MaxId \subseteq 0..MaxId  BY <1>1
<1> QED  BY <1>2, <1>3, DaemonAssumption DEF RequestableIds

LEMMA NotifyKeeps ==
  ASSUME UpdateInv, Surroundings, NEW kind \in Kinds,
         NEW id \in RequestableIds, NEW stamp \in Stamps,
         Notify(kind, id, stamp)
  PROVE  UpdateInv' /\ Surroundings'
<1>1. PICK p \in { r \in Ptr : heap[r] = Freed } :
        LET created  == [Quiet EXCEPT !.heap[p] = NewNote(kind, id, stamp)]
            inserted == Insert(created, p, status)
        IN WakeUp(IF kind.empty
                  THEN Unref(SignalClosed(inserted, p, USER), p)
                  ELSE inserted)
  BY DEF Notify
<1> DEFINE n == NewNote(kind, id, stamp)
           created  == [Quiet EXCEPT !.heap[p] = n]
           inserted == Insert(created, p, status)
           told == SignalClosed(created, p, USER)
<1>2. /\ Good(Quiet) /\ SameQueues(Quiet, store)
      /\ Quiet.heap = store.heap /\ Quiet.nextId = store.nextId
  BY QuietKeeps DEF UpdateInv
<1>3. p \in Ptr /\ store.heap[p] = Freed  BY DEF heap
<1>4. p \notin Queued(Quiet)  BY <1>2, <1>3, GoodFacts
<1>5. n \in Note /\ n.id = id /\ n.kind = kind
  <2>1. id \in 0..MaxId  BY RequestableIdsTyped
  <2>2. kind.timed \in BOOLEAN  BY NotificationAssumption DEF KindType
  <2> QED  BY <2>1, <2>2 DEF NewNote, Note
<1> HIDE DEF n
<1>6. /\ Good(created) /\ SameQueues(created, Quiet)
      /\ created.heap[p] = n
  BY <1>2, <1>3, <1>5, CellChanged
<1>7. created.nextId = store.nextId
  BY <1>2, GoodFacts DEF Store
<1> HIDE DEF created
<1>8. Adrift(created, p)
  BY <1>3, <1>4, <1>5, <1>6 DEF Adrift, Queued, SameQueues
<1>9. CASE kind.empty
  <2>1. inserted = created  BY <1>5, <1>6, <1>9 DEF Insert
  <2>2. WakeUp(Unref(told, p))  BY <1>1, <1>9, <2>1 DEF created, n
  <2>3. /\ Good(told) /\ SameQueues(told, created)
        /\ told.heap[p] \in Note
    BY <1>3, <1>5, <1>6, SignalClosedKeeps DEF Reasons
  <2> HIDE DEF told
  <2>4. Adrift(told, p)
    BY <1>8, <2>3 DEF Adrift, Queued, SameQueues
  <2>5. Good(Unref(told, p))  BY <2>3, <2>4, UnrefKeeps
  <2>6. status \in Status /\ RunWith(Unref(told, p), status)
    BY <2>2 DEF Surroundings, WakeUp
  <2>7. /\ UpdateInv'
        /\ status' \in Status /\ timer' \in BOOLEAN /\ advertised' \in Lengths
    BY <2>5, <2>6, RunWithKeeps
  <2> QED  BY <2>7 DEF Surroundings, Notify, mouse
<1>10. CASE ~kind.empty
  <2>1. WakeUp(inserted)  BY <1>1, <1>10 DEF created, n
  <2>2. id = 0 => store.nextId < MaxId  BY <1>10 DEF Notify
  <2>3. Good(inserted)
    BY <1>5, <1>6, <1>7, <1>8, <2>2, InsertKeeps
  <2> HIDE DEF inserted
  <2>4. status \in Status /\ RunWith(inserted, status)
    BY <2>1 DEF Surroundings, WakeUp
  <2>5. /\ UpdateInv'
        /\ status' \in Status /\ timer' \in BOOLEAN /\ advertised' \in Lengths
    BY <2>3, <2>4, RunWithKeeps
  <2> QED  BY <2>5 DEF Surroundings, Notify, mouse
<1> QED  BY <1>9, <1>10

LEMMA GetByIdTyped ==
  ASSUME NEW q, Good(q), NEW id
  PROVE  \A p \in GetById(q, id) :
           p \in Queued(q) /\ p \in Ptr /\ q.heap[p] \in Note
<1> DEFINE s  == q.displayed \o q.waiting \o q.history
           at == FirstWithId(q, s, id)
<1>1. /\ q.displayed \in Seq(Ptr) /\ q.waiting \in Seq(Ptr)
      /\ q.history \in Seq(Ptr)
      /\ \A p \in Queued(q) : p \in Ptr /\ q.heap[p] \in Note
  BY GoodFacts
<1>2. q.displayed \o q.waiting \in Seq(Ptr)  BY <1>1, ConcatProperties
<1>3. s \in Seq(Ptr)  BY <1>1, <1>2, ConcatProperties
<1>4. ToSet(s) \subseteq Queued(q)
  <2>1. ToSet(q.displayed \o q.waiting)
          \subseteq ToSet(q.displayed) \cup ToSet(q.waiting)
    BY <1>1, ConcatenatedElements
  <2>2. ToSet(s) \subseteq ToSet(q.displayed \o q.waiting) \cup ToSet(q.history)
    BY <1>1, <1>2, ConcatenatedElements
  <2> QED  BY <2>1, <2>2 DEF Queued
<1>5. GetById(q, id) = IF at = 0 THEN {} ELSE {s[at]}
  BY Zenon DEF GetById
<1> HIDE DEF s
<1>6. PlaceIn(at, s) /\ Len(s) \in Nat
  BY <1>3, FirstWithIdPlace, LenProperties
<1> HIDE DEF at
<1>7. at # 0 => s[at] \in ToSet(s)
  <2>1. at # 0 => at \in 1..Len(s)  BY <1>6 DEF PlaceIn
  <2> QED  BY <1>3, <2>1, Elements
<1> QED  BY <1>1, <1>4, <1>5, <1>7

LEMMA CloseNotificationKeeps ==
  ASSUME UpdateInv, Surroundings, NEW id, CloseNotification(id)
  PROVE  UpdateInv' /\ Surroundings'
<1> DEFINE pretended == CHOOSE p \in GetById(store, id) : TRUE
           told   == SignalClosed(Quiet, pretended, SIG)
           closed == CloseId(Quiet, id, SIG)
<1>1. /\ Good(Quiet) /\ Quiet.heap = store.heap /\ Good(store)
  BY QuietKeeps DEF UpdateInv
<1>2. SIG \in Reasons  BY DEF Reasons
<1>3. Good(closed)  BY <1>1, <1>2, CloseIdKeeps
<1>4. GetById(store, id) # {} => Good(told)
  <2>1. GetById(store, id) # {} => pretended \in GetById(store, id)
    OBVIOUS
  <2> HIDE DEF pretended
  <2>2. GetById(store, id) # {} =>
          pretended \in Ptr /\ Quiet.heap[pretended] \in Note
    BY <1>1, <2>1, GetByIdTyped
  <2> QED  BY <1>1, <1>2, <2>2, SignalClosedKeeps
<1>5. \E q : Good(q) /\ WakeUp(q)
  <2>1. \/ WakeUp(closed)
        \/ GetById(store, id) = {} /\ WakeUp(Quiet)
        \/ GetById(store, id) # {} /\ WakeUp(told)
    BY DEF CloseNotification
  <2> HIDE DEF closed, told
  <2> QED  BY <1>1, <1>3, <1>4, <2>1
<1>6. UNCHANGED <<mouse, clock>>  BY DEF CloseNotification
<1> QED  BY <1>5, <1>6, WakeUpKeeps

LEMMA DBusMethodKeeps ==
  ASSUME UpdateInv, Surroundings, DBusMethod
  PROVE  UpdateInv' /\ Surroundings'
<1>0. Good(Quiet)  BY QuietKeeps DEF UpdateInv
<1>1. ASSUME NEW kind \in Kinds, NEW id \in RequestableIds,
             NEW stamp \in Stamps, Notify(kind, id, stamp)
      PROVE  UpdateInv' /\ Surroundings'
  BY <1>1, NotifyKeeps
<1>2. ASSUME NEW id \in 1..MaxId, CloseNotification(id)
      PROVE  UpdateInv' /\ Surroundings'
  BY <1>2, CloseNotificationKeeps
<1>3. ASSUME CloseAll PROVE UpdateInv' /\ Surroundings'
  <2>1. UpdateInv'  BY <1>0, <1>3, HandlerKeeps DEF CloseAll
  <2> QED  BY <1>3, <2>1 DEF CloseAll, Surroundings, mouse
<1>4. ASSUME CloseLast PROVE UpdateInv' /\ Surroundings'
  <2>1. Good(NotificationClose(Quiet, displayed[1], USER))
    BY <1>0, NotificationCloseKeeps DEF Reasons
  <2> QED  BY <1>4, <2>1, WakeUpKeeps DEF CloseLast
<1>5. ASSUME Show PROVE UpdateInv' /\ Surroundings'
  <2>1. Good(HistoryPop(Quiet))  BY <1>0, HistoryPopKeeps
  <2> QED  BY <1>5, <2>1, WakeUpKeeps DEF Show
<1>6. ASSUME NEW id \in 1..MaxId, PopHistory(id)
      PROVE  UpdateInv' /\ Surroundings'
  <2>1. Good(HistoryPopById(Quiet, id))  BY <1>0, HistoryPopByIdKeeps
  <2> QED  BY <1>6, <2>1, WakeUpKeeps DEF PopHistory
<1>7. ASSUME NEW id \in 1..MaxId, RemoveFromHistory(id)
      PROVE  UpdateInv' /\ Surroundings'
  <2>1. Good(HistoryRemoveById(Quiet, id))  BY <1>0, HistoryRemoveByIdKeeps
  <2> QED  BY <1>7, <2>1, WakeUpKeeps DEF RemoveFromHistory
<1>8. ASSUME ClearHistory PROVE UpdateInv' /\ Surroundings'
  <2>1. Good(HistoryClear(Quiet))  BY <1>0, HistoryClearKeeps
  <2> QED  BY <1>8, <2>1, WakeUpKeeps DEF ClearHistory
<1>9. ASSUME NEW level \in PauseLevels, SetPauseLevel(level)
      PROVE  UpdateInv' /\ Surroundings'
  <2>1. [status EXCEPT !.pause_level = level] \in Status
    BY DaemonAssumption DEF Surroundings, Status
  <2>2. /\ UpdateInv'
        /\ status' \in Status /\ timer' \in BOOLEAN /\ advertised' \in Lengths
    BY <1>0, <1>9, <2>1, RunWithKeeps DEF SetPauseLevel
  <2> QED  BY <1>9, <2>2 DEF SetPauseLevel, Surroundings, mouse
<1> QED
  BY <1>1, <1>2, <1>3, <1>4, <1>5, <1>6, <1>7, <1>8, <1>9 DEF DBusMethod

---------------------------------------------------------------------------
(* The mouse                                                               *)

LEMMA MouseEventKeeps ==
  ASSUME UpdateInv, Surroundings, MouseEvent
  PROVE  UpdateInv' /\ Surroundings'
<1>0. Good(Quiet)  BY QuietKeeps DEF UpdateInv
<1>1. ASSUME NEW over \in MouseOvers, PointerMoves(over)
      PROVE  UpdateInv' /\ Surroundings'
  <2>1. [status EXCEPT !.mouse_over = over] \in Status
    BY DaemonAssumption DEF Surroundings, Status
  <2>2. /\ UpdateInv'
        /\ status' \in Status /\ timer' \in BOOLEAN /\ advertised' \in Lengths
    BY <1>0, <1>1, <2>1, RunWithKeeps DEF PointerMoves
  <2> QED  BY <1>1, <2>2 DEF PointerMoves, Surroundings, mouse
<1>2. ASSUME NEW todo \in MouseActions, NEW i \in 1..(Len(displayed) + 1),
             Click(todo, i)
      PROVE  UpdateInv' /\ Surroundings'
  <2>1. UpdateInv'  BY <1>0, <1>2, HandlerKeeps DEF Click
  <2>2. todo \in Seq(Acts)  BY DaemonAssumption
  <2>3. i \in Nat
    <3>1. Len(displayed) \in Nat  BY LengthsTyped DEF UpdateInv, displayed
    <3> QED  BY <3>1
  <2> QED  BY <1>2, <2>1, <2>2, <2>3 DEF Click, Surroundings
<1> QED  BY <1>1, <1>2 DEF MouseEvent

LEMMA ActsShorten ==
  ASSUME Surroundings, acts # <<>>
  PROVE  Tail(acts) \in Seq(Acts)
BY HeadTailProperties DEF Surroundings

(* a mark on the notification clicked on *)
LEMMA MarkedKeeps ==
  ASSUME UpdateInv, NEW n \in Note,
         clicked \in 1..Len(displayed)
  PROVE  Good([Quiet EXCEPT !.heap[displayed[clicked]] = n])
<1>1. Good(Quiet)  BY QuietKeeps DEF UpdateInv
<1>2. displayed[clicked] \in Ptr
  BY GoodFacts, ElementOfSeq DEF UpdateInv, displayed
<1> QED  BY <1>1, <1>2, CellChanged

LEMMA ClickedIsThere ==
  ASSUME UpdateInv, clicked \in 1..Len(displayed)
  PROVE  /\ displayed[clicked] \in Ptr
         /\ Quiet.heap[displayed[clicked]] \in Note
<1>1. displayed \in Seq(Ptr)  BY GoodFacts DEF UpdateInv, displayed
<1>2. displayed[clicked] \in ToSet(displayed)  BY <1>1, Elements
<1>3. displayed[clicked] \in Queued(store)
  BY <1>2 DEF Queued, displayed
<1>4. Quiet.heap = store.heap  BY QuietKeeps DEF UpdateInv
<1> QED  BY <1>3, <1>4, GoodFacts DEF UpdateInv

LEMMA MarkStepKeeps ==
  ASSUME UpdateInv, Surroundings, ClickCloseCurrent \/ ClickRemoveCurrent
  PROVE  UpdateInv' /\ Surroundings'
<1> DEFINE p == displayed[clicked]
           closing  == [Quiet.heap[p] EXCEPT !.closing = USER]
           removing == [Quiet.heap[p] EXCEPT !.removing = USER]
<1>1. /\ pc = "click" /\ acts # <<>> /\ acts' = Tail(acts)
      /\ UNCHANGED <<status, control, clicked, clock, timer, advertised>>
  BY DEF ClickCloseCurrent, ClickRemoveCurrent, Mark, ClickAct
<1>2. Good(Quiet) /\ Quiet \in Store  BY QuietKeeps, GoodFacts DEF UpdateInv
<1>3. \/ store' = Quiet
      \/ /\ clicked \in 1..Len(displayed)
         /\ \/ store' = [Quiet EXCEPT !.heap[p] = closing]
            \/ store' = [Quiet EXCEPT !.heap[p] = removing]
  BY <1>2 DEF ClickCloseCurrent, ClickRemoveCurrent, Mark
<1>4. clicked \in 1..Len(displayed) =>
        closing \in Note /\ removing \in Note
  <2>1. USER \in {NotMarked} \cup Reasons  BY DEF Reasons
  <2>2. clicked \in 1..Len(displayed) => Quiet.heap[p] \in Note
    BY ClickedIsThere
  <2> HIDE DEF p
  <2> QED  BY <2>1, <2>2 DEF Note
<1> HIDE DEF closing, removing
<1>5. Good(store')  BY <1>2, <1>3, <1>4, MarkedKeeps
<1>6. UpdateInv'  BY <1>1, <1>5, HandlerKeeps DEF control
<1> QED  BY <1>1, <1>6, ActsShorten DEF Surroundings

LEMMA HandlerStepKeeps ==
  ASSUME UpdateInv, Surroundings, HandlerStep
  PROVE  UpdateInv' /\ Surroundings'
<1>0. Good(Quiet)  BY QuietKeeps DEF UpdateInv
<1>1. ASSUME ClickCloseAll PROVE UpdateInv' /\ Surroundings'
  <2>1. UpdateInv'  BY <1>0, <1>1, HandlerKeeps DEF ClickCloseAll
  <2> QED
    BY <1>1, <2>1, ActsShorten DEF ClickCloseAll, ClickAct, Surroundings
<1>2. ASSUME ClickCloseCurrent \/ ClickRemoveCurrent
      PROVE  UpdateInv' /\ Surroundings'
  BY <1>2, MarkStepKeeps
<1>3. ASSUME ClickDone PROVE UpdateInv' /\ Surroundings'
  <2>1. status \in Status /\ RunWith(Quiet, status)
    BY <1>3 DEF ClickDone, WakeUp, Surroundings
  <2>2. /\ UpdateInv'
        /\ status' \in Status /\ timer' \in BOOLEAN /\ advertised' \in Lengths
    BY <1>0, <2>1, RunWithKeeps
  <2> QED  BY <1>3, <2>2 DEF ClickDone, Surroundings
<1>4. ASSUME PushAllStep PROVE UpdateInv' /\ Surroundings'
  <2>1. Good(store')
    BY <1>0, <1>4, NotificationCloseKeeps DEF PushAllStep, Reasons
  <2>2. UpdateInv'
    BY <1>4, <2>1, HandlerKeeps DEF PushAllStep, control
  <2> QED  BY <1>4, <2>2 DEF PushAllStep, Surroundings, mouse
<1>5. ASSUME PushAllDone PROVE UpdateInv' /\ Surroundings'
  <2>1. UpdateInv'  BY <1>0, <1>5, HandlerKeeps DEF PushAllDone
  <2> QED  BY <1>5, <2>1 DEF PushAllDone, Surroundings, mouse
<1> QED  BY <1>1, <1>2, <1>3, <1>4, <1>5 DEF HandlerStep

---------------------------------------------------------------------------
(* Time, and the end of run                                                *)

LEMMA TimePassesKeeps ==
  ASSUME UpdateInv, Surroundings, TimePasses
  PROVE  UpdateInv' /\ Surroundings'
<1>1. PICK p \in ToSet(displayed) : store' = [Quiet EXCEPT !.heap[p].due = TRUE]
  BY DEF TimePasses
<1> DEFINE n == [Quiet.heap[p] EXCEPT !.due = TRUE]
<1>2. Good(Quiet) /\ Quiet \in Store /\ Quiet.heap = store.heap
  BY QuietKeeps, GoodFacts DEF UpdateInv
<1>3. p \in Ptr /\ Quiet.heap[p] \in Note
  <2>1. p \in Queued(store)  BY DEF Queued, displayed
  <2> QED  BY <1>2, <2>1, GoodFacts DEF UpdateInv
<1>4. n \in Note  BY <1>3 DEF Note
<1>5. store' = [Quiet EXCEPT !.heap[p] = n]  BY <1>1, <1>2 DEF Store
<1> HIDE DEF n
<1>6. Good(store')  BY <1>2, <1>3, <1>4, <1>5, CellChanged
<1>7. UpdateInv'  BY <1>6, HandlerKeeps DEF TimePasses, control
<1> QED  BY <1>7 DEF TimePasses, Surroundings, mouse

LEMMA FinishKeeps ==
  ASSUME UpdateInv, Surroundings, Finish
  PROVE  UpdateInv' /\ Surroundings'
<1>1. Good(Quiet)  BY QuietKeeps DEF UpdateInv
<1>2. UpdateInv'  BY <1>1, HandlerKeeps DEF Finish
<1>3. advertised' \in Lengths
  <2>1. /\ Len(displayed) \in Nat /\ Len(waiting) \in Nat
        /\ Len(history) \in Nat
    BY GoodFacts, LenProperties DEF UpdateInv, displayed, waiting, history
  <2> QED  BY <2>1 DEF Finish, Lengths
<1>4. timer' \in BOOLEAN  BY DEF Finish
<1> QED  BY <1>2, <1>3, <1>4 DEF Finish, Surroundings, mouse

---------------------------------------------------------------------------
(* IInv is inductive. *)
LEMMA NextKeeps == IInv /\ [Next]_vars => IInv'
<1> SUFFICES ASSUME UpdateInv, Surroundings, [Next]_vars
             PROVE  UpdateInv' /\ Surroundings'
  BY IInvParts, IInvPartsNext
<1>0. Good(Quiet)  BY QuietKeeps DEF UpdateInv
<1>1. CASE DBusMethod  BY <1>1, DBusMethodKeeps
<1>2. CASE MouseEvent  BY <1>2, MouseEventKeeps
<1>3. CASE HandlerStep  BY <1>3, HandlerStepKeeps
<1>4. CASE TimePasses  BY <1>4, TimePassesKeeps
<1>5. CASE TimerFires \/ OutputChanges
  BY <1>0, <1>5, WakeUpKeeps DEF TimerFires, OutputChanges
<1>6. CASE UpdateStep /\ UNCHANGED <<status, mouse, clock, timer, advertised>>
  <2>1. UpdateInv'  BY <1>6, UpdateStepKeeps
  <2> QED  BY <1>6, <2>1 DEF Surroundings, mouse
<1>7. CASE Finish  BY <1>7, FinishKeeps
<1>8. CASE UNCHANGED vars
  BY <1>8 DEF vars, control, mouse, UpdateInv, Surroundings, Within,
              displayed, waiting
<1> QED
  BY <1>1, <1>2, <1>3, <1>4, <1>5, <1>6, <1>7, <1>8 DEF Next, RunStep

LEMMA IInvHolds == Spec => []IInv
<1>1. Init => IInv  BY InitHolds
<1>2. IInv /\ [Next]_vars => IInv'  BY NextKeeps
<1> QED  BY <1>1, <1>2, PTL DEF Spec

(* The state of the daemon keeps the type its declarations give it; above  *)
(* all no index runs out of a queue and no reference count below one.      *)
THEOREM TypeCorrect == Spec => []TypeOK
<1>1. IInv => TypeOK  BY DEF IInv
<1> QED  BY <1>1, IInvHolds, PTL

(* Whatever clients, users and time do, with any limits and settings, no   *)
(* notification is in two queues or twice in one, and none that is queued  *)
(* has been freed.                                                         *)
THEOREM Ownership == Spec => []QueueOwnership
<1>1. IInv => QueueOwnership  BY DEF IInv
<1> QED  BY <1>1, IInvHolds, PTL

(* No loop of queues_update has more elements to visit than are left of    *)
(* its queue: what a visit removes is never behind its place.              *)
THEOREM LoopsStayWithin == Spec => []Within
<1>1. IInv => Within  BY DEF IInv
<1> QED  BY <1>1, IInvHolds, PTL

---------------------------------------------------------------------------
(* What a step does to the queues                                          *)

(* n is m with other marks of the mouse, or with its timeout restarted.    *)
Alike(n, m) ==
  /\ n.kind = m.kind /\ n.id = m.id /\ n.stamp = m.stamp
  /\ n.refs = m.refs /\ n.valid = m.valid /\ n.locked = m.locked
  /\ n.redisplayed = m.redisplayed /\ n.timed = m.timed

(* None of its marks is a new one.                                         *)
Calmed(n, m) ==
  /\ n.closing \in {m.closing, NotMarked}
  /\ n.removing \in {m.removing, NotMarked}

(* The moves of queues_update between displayed and waiting.               *)
PushedBack(q, at) ==
  Enqueue([q EXCEPT !.displayed = RemoveAt(@, at)], q.displayed[at])

Shown(q, at) ==
  [q EXCEPT !.waiting = RemoveAt(@, at),
            !.displayed = InsertSorted(q, @, q.waiting[at])]

Trimmed(q) ==
  [q EXCEPT !.displayed = Front(@),
            !.waiting = InsertSorted(q, @, Last(q.displayed))]

Swapped(q) ==
  [q EXCEPT !.displayed = InsertSorted(q, Front(@), q.waiting[1]),
            !.waiting = InsertSorted(q, Tail(@), Last(q.displayed))]

(* What queues_update does never leads out of S.                           *)
ClosedUnderUpdate(S) ==
  /\ \A q \in S : Good(q)
  /\ \A q \in S, p \in Ptr, n \in Note :
       q.heap[p] \in Note /\ Alike(n, q.heap[p]) /\ Calmed(n, q.heap[p])
         => [q EXCEPT !.heap[p] = n] \in S
  /\ \A q \in S, id \in 0..MaxId, reason \in Reasons : CloseId(q, id, reason) \in S
  /\ \A q \in S, id \in 0..MaxId : HistoryRemoveById(q, id) \in S
  /\ \A q \in S : \A at \in 1..Len(q.displayed) : PushedBack(q, at) \in S
  /\ \A q \in S : \A at \in 1..Len(q.waiting) : Shown(q, at) \in S
  /\ \A q \in S : q.displayed # <<>> => Trimmed(q) \in S
  /\ \A q \in S : q.displayed # <<>> /\ q.waiting # <<>> => Swapped(q) \in S

(* What the handlers do, other than Notify and the marks of a click, never *)
(* leads out of S either.                                                  *)
ClosedCalmly(S) ==
  /\ ClosedUnderUpdate(S)
  /\ \A q \in S : \A at \in 1..Len(q.history) : Redisplay(q, at) \in S
  /\ \A q \in S : HistoryClear(q) \in S
  /\ \A q \in S : \A p \in Queued(q) : SignalClosed(q, p, SIG) \in S

(* Nor do the marks.                                                       *)
Closed(S) ==
  /\ ClosedCalmly(S)
  /\ \A q \in S, p \in Ptr, n \in Note :
       q.heap[p] \in Note /\ Alike(n, q.heap[p]) => [q EXCEPT !.heap[p] = n] \in S

(* A click marks the notification under the pointer.                       *)
Marks == ClickCloseCurrent \/ ClickRemoveCurrent

---------------------------------------------------------------------------
(* queues_update                                                           *)

LEMMA Touched ==
  ASSUME NEW S, ClosedUnderUpdate(S), NEW q \in S, NEW p \in Ptr
  PROVE  /\ \A field \in {"closing", "removing"} : Unmark(q, p, field) \in S
         /\ q.heap[p] \in Note => Restarted(q, p) \in S /\ Started(q, p) \in S
<1>0. /\ q \in Store /\ q.heap \in [Ptr -> Note \cup {Freed}]
      /\ \A n \in Note :
           q.heap[p] \in Note /\ Alike(n, q.heap[p]) /\ Calmed(n, q.heap[p])
             => [q EXCEPT !.heap[p] = n] \in S
  BY GoodFacts DEF ClosedUnderUpdate
<1>1. ASSUME NEW field \in {"closing", "removing"}
      PROVE  Unmark(q, p, field) \in S
  <2> DEFINE n == [q.heap[p] EXCEPT ![field] = NotMarked]
  <2>1. CASE q.heap[p] = Freed  BY <2>1 DEF Unmark
  <2>2. CASE q.heap[p] # Freed
    <3>1. q.heap[p] \in Note  BY <1>0, <2>2
    <3>2. n \in Note /\ Alike(n, q.heap[p]) /\ Calmed(n, q.heap[p])
      <4>1. CASE field = "closing"  BY <3>1, <4>1 DEF Note, Alike, Calmed
      <4>2. CASE field = "removing"  BY <3>1, <4>2 DEF Note, Alike, Calmed
      <4> QED  BY <1>1, <4>1, <4>2
    <3>3. Unmark(q, p, field) = [q EXCEPT !.heap[p] = n]
      BY <1>0, <2>2 DEF Unmark, Store
    <3> HIDE DEF n
    <3> QED  BY <1>0, <3>1, <3>2, <3>3
  <2> QED  BY <2>1, <2>2
<1>2. ASSUME q.heap[p] \in Note
      PROVE  Restarted(q, p) \in S /\ Started(q, p) \in S
  <2> DEFINE n == [q.heap[p] EXCEPT !.due = FALSE]
  <2>1. n \in Note /\ Alike(n, q.heap[p]) /\ Calmed(n, q.heap[p])
    BY <1>2 DEF Note, Alike, Calmed
  <2>2. [q EXCEPT !.heap[p].due = FALSE] = [q EXCEPT !.heap[p] = n]
    BY <1>0 DEF Store
  <2> HIDE DEF n
  <2>3. [q EXCEPT !.heap[p].due = FALSE] \in S  BY <1>0, <1>2, <2>1, <2>2
  <2> QED  BY <2>3 DEF Restarted, Started
<1> QED  BY <1>1, <1>2

(* queues_notification_close and queues_notification_remove *)
LEMMA ClosedAndRemoved ==
  ASSUME NEW S, ClosedUnderUpdate(S), NEW q \in S, NEW p \in Ptr,
         q.heap[p] \in Note, NEW reason \in Reasons
  PROVE  /\ NotificationClose(q, p, reason) \in S
         /\ \A lost \in BOOLEAN : NotificationRemove(q, p, reason, lost) \in S
<1>1. q.heap[p].id \in 0..MaxId  BY DEF Note
<1>2. NotificationClose(q, p, reason) \in S
  BY <1>1 DEF NotificationClose, ClosedUnderUpdate
<1>3. HistoryRemoveById(NotificationClose(q, p, reason), q.heap[p].id) \in S
  BY <1>1, <1>2 DEF ClosedUnderUpdate
<1> QED  BY <1>2, <1>3 DEF NotificationRemove

LEMMA RetireStaysIn ==
  ASSUME UpdateInv, NEW S, ClosedUnderUpdate(S), Quiet \in S,
         \/ RetireMarked \/ RetireRemoved \/ RetireFinished
         \/ RetireSuppressed \/ RetirePushback \/ RetireKeep
  PROVE  store' \in S
<1> DEFINE n == heap[Visited]
<1>0. Retiring
  BY DEF RetireMarked, RetireRemoved, RetireFinished, RetireSuppressed,
         RetirePushback, RetireKeep
<1>1. /\ Len(displayed) - left + 1 \in 1..Len(displayed)
      /\ Visited \in Ptr /\ n \in Note
  BY <1>0, VisitedIsThere
<1>2. /\ Good(Quiet) /\ SameQueues(Quiet, store) /\ Quiet.heap = store.heap
  BY QuietKeeps DEF UpdateInv
<1>3. Quiet.heap[Visited] = n /\ n = store.heap[Visited]
  BY <1>2 DEF heap
<1> DEFINE r == Restarted(Quiet, Visited)
<1>4. /\ r \in S /\ r \in Store /\ SameQueues(r, store)
      /\ r.heap[Visited] \in Note
  BY <1>0, <1>1, <1>2, <1>3, Touched, RestartedVisited, HeldKeeps, GoodFacts
<1>5. CASE RetireMarked
  <2>1. n.closing \in Reasons  BY <1>1, <1>5 DEF RetireMarked, Note
  <2>2. NotificationClose(Quiet, Visited, n.closing) \in S
    BY <1>1, <1>3, <2>1, ClosedAndRemoved
  <2>3. store' = Unmark(NotificationClose(Quiet, Visited, n.closing),
                        Visited, "closing")
    BY <1>5 DEF RetireMarked, Retire
  <2> QED  BY <1>1, <2>2, <2>3, Touched
<1>6. CASE RetireRemoved
  <2>1. n.removing \in Reasons  BY <1>1, <1>6 DEF RetireRemoved, Note
  <2>2. PICK lost \in BOOLEAN :
          store' = Unmark(NotificationRemove(Quiet, Visited, n.removing, lost),
                          Visited, "removing")
    BY <1>6 DEF RetireRemoved, Retire
  <2>3. NotificationRemove(Quiet, Visited, n.removing, lost) \in S
    BY <1>1, <1>3, <2>1, ClosedAndRemoved
  <2> QED  BY <1>1, <2>2, <2>3, Touched
<1>7. CASE RetireFinished
  BY <1>1, <1>3, <1>7, ClosedAndRemoved DEF RetireFinished, Retire, Reasons
<1>8. CASE RetireSuppressed
  <2>1. store' = NotificationClose(r, Visited, UNDEF)
    BY <1>8 DEF RetireSuppressed, Retire
  <2> HIDE DEF r, n
  <2> QED  BY <1>1, <1>4, <2>1, ClosedAndRemoved DEF Reasons
<1>9. CASE RetirePushback
  <2> DEFINE at == Len(r.displayed) - left + 1
  <2>1. at \in 1..Len(r.displayed) /\ r.displayed[at] = Visited
    BY <1>1, <1>4 DEF SameQueues, Visited, displayed
  <2>2. store' = Enqueue([r EXCEPT !.displayed = RemoveAt(r.displayed, at)],
                         Visited)
    BY <1>9 DEF RetirePushback, Retire
  <2> HIDE DEF at, r
  <2>3. store' = PushedBack(r, at)  BY <2>1, <2>2 DEF PushedBack
  <2> QED  BY <1>4, <2>1, <2>3 DEF ClosedUnderUpdate
<1>10. CASE RetireKeep
  <2>1. store' = Quiet \/ store' = r  BY <1>10 DEF RetireKeep, Retire
  <2> QED  BY <1>4, <2>1
<1> QED  BY <1>5, <1>6, <1>7, <1>8, <1>9, <1>10

LEMMA FillStaysIn ==
  ASSUME UpdateInv, NEW S, ClosedUnderUpdate(S), Quiet \in S,
         FillSuppressed \/ FillNotReady \/ FillSkipsDisplay \/ FillDisplay
  PROVE  store' \in S
<1>0. Filling
  BY DEF FillSuppressed, FillNotReady, FillSkipsDisplay, FillDisplay
<1>1. /\ Len(waiting) - left + 1 \in 1..Len(waiting)
      /\ Candidate \in Ptr /\ heap[Candidate] \in Note
  BY <1>0, CandidateIsThere
<1>2. /\ Good(Quiet) /\ SameQueues(Quiet, store)
      /\ Quiet.heap[Candidate] \in Note
  BY <1>1, QuietKeeps DEF UpdateInv, heap
<1> DEFINE r == Started(Quiet, Candidate)
<1>4. /\ r \in S /\ r \in Store /\ SameQueues(r, store)
      /\ r.heap[Candidate] \in Note
  BY <1>0, <1>1, <1>2, Touched, StartedCandidate, HeldKeeps, GoodFacts
<1>5. CASE FillNotReady  BY <1>5 DEF FillNotReady, Fill
<1>6. CASE FillSuppressed \/ FillSkipsDisplay
  <2>1. \E reason \in Reasons : store' = NotificationClose(r, Candidate, reason)
    BY <1>6 DEF FillSuppressed, FillSkipsDisplay, Fill, Reasons
  <2> HIDE DEF r
  <2> QED  BY <1>1, <1>4, <2>1, ClosedAndRemoved
<1>7. CASE FillDisplay
  <2> DEFINE at == Len(r.waiting) - left + 1
  <2>1. at \in 1..Len(r.waiting) /\ r.waiting[at] = Candidate
    BY <1>1, <1>4 DEF SameQueues, Candidate, waiting
  <2>2. store' = [r EXCEPT !.waiting = RemoveAt(r.waiting, at),
                           !.displayed = InsertSorted(r, r.displayed, Candidate)]
    BY <1>7 DEF FillDisplay, Fill
  <2> HIDE DEF at, r
  <2>3. store' = Shown(r, at)  BY <1>4, <2>1, <2>2 DEF Shown, Store
  <2> QED  BY <1>4, <2>1, <2>3 DEF ClosedUnderUpdate
<1> QED  BY <1>5, <1>6, <1>7

(* an insertion reads no more of the store than the notifications *)
LEMMA SameInsertion ==
  ASSUME NEW q, NEW r, q.heap = r.heap, NEW s, NEW p
  PROVE  InsertSorted(q, s, p) = InsertSorted(r, s, p)
BY DEF InsertSorted

LEMMA TrimStaysIn ==
  ASSUME UpdateInv, NEW S, ClosedUnderUpdate(S), Quiet \in S, TrimStep
  PROVE  store' \in S
<1>1. /\ Good(Quiet) /\ SameQueues(Quiet, store) /\ Quiet.heap = store.heap
      /\ Quiet \in Store
  BY QuietKeeps, GoodFacts DEF UpdateInv
<1>2. Quiet.displayed # <<>>
  <2>1. Len(store.displayed) > limit /\ limit \in Nat
    BY DEF TrimStep, Overhang, UpdateInv, displayed
  <2>2. store.displayed # <<>>
    BY <2>1, EmptySeq, LengthsTyped DEF UpdateInv
  <2> QED  BY <1>1, <2>2 DEF SameQueues
<1>3. InsertSorted(store, Quiet.waiting, Last(Quiet.displayed))
        = InsertSorted(Quiet, Quiet.waiting, Last(Quiet.displayed))
  BY <1>1, SameInsertion
<1>4. store' = Trimmed(Quiet)
  BY <1>1, <1>3 DEF TrimStep, Trimmed, SameQueues, displayed
<1> QED  BY <1>2, <1>4 DEF ClosedUnderUpdate

LEMMA SeepStaysIn ==
  ASSUME UpdateInv, NEW S, ClosedUnderUpdate(S), Quiet \in S, SeepSwap
  PROVE  store' \in S
<1> DEFINE up == store.waiting[1]
           r  == Started(Quiet, up)
<1>1. /\ Good(Quiet) /\ SameQueues(Quiet, store) /\ Quiet.heap = store.heap
  BY QuietKeeps DEF UpdateInv
<1>2. store.displayed # <<>> /\ store.waiting # <<>>
  BY DEF SeepSwap, Seeps, displayed, waiting
<1>3. up \in Ptr /\ Quiet.heap[up] \in Note
  <2>1. store.waiting \in Seq(Ptr) /\ Len(store.waiting) \in Nat
    BY GoodFacts, LenProperties DEF UpdateInv
  <2>2. Len(store.waiting) # 0  BY <1>2, <2>1, EmptySeq
  <2>3. 1 \in 1..Len(store.waiting)  BY <2>1, <2>2
  <2>4. up \in ToSet(store.waiting)  BY <2>1, <2>3, Elements
  <2> QED  BY <1>1, <2>4, GoodFacts DEF UpdateInv, Queued
<1>4. r \in S /\ r \in Store /\ SameQueues(r, store)
  <2>1. r \in S /\ SameQueues(r, Quiet)
    BY <1>1, <1>3, Touched, HeldKeeps
  <2> QED  BY <1>1, <2>1, GoodFacts DEF SameQueues, ClosedUnderUpdate
<1>5. store' = [r EXCEPT !.displayed = InsertSorted(r, Front(r.displayed), up),
                         !.waiting = InsertSorted(r, Tail(r.waiting),
                                                  Last(store.displayed))]
  BY DEF SeepSwap, displayed, waiting
<1> HIDE DEF r
<1>6. store' = Swapped(r)  BY <1>4, <1>5 DEF Swapped, SameQueues
<1>7. r.displayed # <<>> /\ r.waiting # <<>>  BY <1>2, <1>4 DEF SameQueues
<1> QED  BY <1>4, <1>6, <1>7 DEF ClosedUnderUpdate

LEMMA UpdateStaysIn ==
  ASSUME UpdateInv, NEW S, ClosedUnderUpdate(S), Quiet \in S, UpdateStep
  PROVE  store' \in S
<1>1. CASE \/ RetireMarked \/ RetireRemoved \/ RetireFinished
           \/ RetireSuppressed \/ RetirePushback \/ RetireKeep
  BY <1>1, RetireStaysIn
<1>2. CASE FillSuppressed \/ FillNotReady \/ FillSkipsDisplay \/ FillDisplay
  BY <1>2, FillStaysIn
<1>3. CASE TrimStep  BY <1>3, TrimStaysIn
<1>4. CASE SeepSwap  BY <1>4, SeepStaysIn
<1>5. CASE RetireDone \/ FillDone \/ TrimDone \/ SeepDone
  BY <1>5 DEF RetireDone, FillDone, TrimDone, SeepDone
<1> QED  BY <1>1, <1>2, <1>3, <1>4, <1>5 DEF UpdateStep

---------------------------------------------------------------------------
(* The handlers                                                            *)

Arrives ==
  \E kind \in Kinds, id \in RequestableIds, stamp \in Stamps :
    Notify(kind, id, stamp)

LEMMA MethodStaysIn ==
  ASSUME UpdateInv, NEW S, ClosedCalmly(S), Quiet \in S, DBusMethod
  PROVE  Arrives \/ store' \in S
<1>0. /\ ClosedUnderUpdate(S)
      /\ Good(Quiet) /\ SameQueues(Quiet, store) /\ Quiet.heap = store.heap
  BY QuietKeeps DEF UpdateInv, ClosedCalmly
<1>1. ASSUME NEW id \in 1..MaxId, CloseNotification(id)  PROVE store' \in S
  <2> DEFINE pretended == CHOOSE p \in GetById(store, id) : TRUE
             told == SignalClosed(Quiet, pretended, SIG)
  <2>1. id \in 0..MaxId /\ SIG \in Reasons
    BY NotificationAssumption DEF Reasons
  <2>2. CloseId(Quiet, id, SIG) \in S  BY <1>0, <2>1 DEF ClosedUnderUpdate
  <2>3. GetById(store, id) # {} => told \in S
    <3>1. GetById(store, id) # {} => pretended \in GetById(store, id)
      OBVIOUS
    <3> HIDE DEF pretended
    <3>2. GetById(store, id) # {} => pretended \in Queued(Quiet)
      BY <1>0, <3>1, GetByIdTyped DEF UpdateInv, Queued, SameQueues
    <3> QED  BY <3>2 DEF ClosedCalmly
  <2>4. \/ store' = CloseId(Quiet, id, SIG)
        \/ store' = Quiet
        \/ GetById(store, id) # {} /\ store' = told
    BY <1>1 DEF CloseNotification, WakeUp, RunWith
  <2> HIDE DEF told
  <2> QED  BY <2>2, <2>3, <2>4
<1>2. ASSUME CloseLast  PROVE store' \in S
  <2>1. displayed[1] \in Ptr /\ Quiet.heap[displayed[1]] \in Note
    <3>1. displayed \in Seq(Ptr) /\ Len(displayed) \in Nat
      BY GoodFacts, LenProperties DEF UpdateInv, displayed
    <3>2. Len(displayed) # 0  BY <1>2, <3>1, EmptySeq DEF CloseLast
    <3>3. 1 \in 1..Len(displayed)  BY <3>1, <3>2
    <3>4. displayed[1] \in ToSet(displayed)  BY <3>1, <3>3, Elements
    <3> QED  BY <1>0, <3>4, GoodFacts DEF UpdateInv, Queued, displayed
  <2>2. store' = NotificationClose(Quiet, displayed[1], USER)
    BY <1>2 DEF CloseLast, WakeUp, RunWith
  <2> QED  BY <1>0, <2>1, <2>2, ClosedAndRemoved DEF Reasons
<1>3. ASSUME Show  PROVE store' \in S
  <2>1. store' = HistoryPop(Quiet)  BY <1>3 DEF Show, WakeUp, RunWith
  <2>2. CASE Quiet.history = <<>>  BY <2>1, <2>2 DEF HistoryPop
  <2>3. CASE Quiet.history # <<>>
    <3>1. Len(Quiet.history) \in Nat /\ Len(Quiet.history) # 0
      BY <1>0, <2>3, GoodFacts, EmptySeq
    <3>2. Len(Quiet.history) \in 1..Len(Quiet.history)  BY <3>1
    <3> QED  BY <2>1, <2>3, <3>2 DEF HistoryPop, ClosedCalmly
  <2> QED  BY <2>2, <2>3
<1>4. ASSUME NEW id \in 1..MaxId, PopHistory(id)  PROVE store' \in S
  <2> DEFINE at == FirstWithId(Quiet, Quiet.history, id)
  <2>1. store' = HistoryPopById(Quiet, id)
    BY <1>4 DEF PopHistory, WakeUp, RunWith
  <2>2. PlaceIn(at, Quiet.history) /\ Len(Quiet.history) \in Nat
    BY <1>0, GoodFacts, FirstWithIdPlace, LenProperties
  <2>3. store' = IF at = 0 THEN Quiet ELSE Redisplay(Quiet, at)
    BY <2>1 DEF HistoryPopById
  <2> HIDE DEF at
  <2>4. at # 0 => at \in 1..Len(Quiet.history)  BY <2>2 DEF PlaceIn
  <2> QED  BY <2>3, <2>4 DEF ClosedCalmly
<1>5. ASSUME NEW id \in 1..MaxId, RemoveFromHistory(id)  PROVE store' \in S
  <2>1. id \in 0..MaxId  BY NotificationAssumption
  <2> QED
    BY <1>0, <1>5, <2>1 DEF RemoveFromHistory, WakeUp, RunWith, ClosedUnderUpdate
<1>6. ASSUME ClearHistory  PROVE store' \in S
  BY <1>6 DEF ClearHistory, WakeUp, RunWith, ClosedCalmly
<1>7. ASSUME CloseAll  PROVE store' \in S  BY <1>7 DEF CloseAll
<1>8. ASSUME NEW level \in PauseLevels, SetPauseLevel(level)
      PROVE  store' \in S
  BY <1>8 DEF SetPauseLevel, RunWith
<1> QED
  BY <1>1, <1>2, <1>3, <1>4, <1>5, <1>6, <1>7, <1>8 DEF DBusMethod, Arrives

(* a change of one queued notification that adds no mark *)
LEMMA QueuedTouched ==
  ASSUME UpdateInv, NEW S, ClosedUnderUpdate(S), Quiet \in S,
         NEW p \in ToSet(displayed), NEW n \in Note,
         Alike(n, store.heap[p]), Calmed(n, store.heap[p])
  PROVE  [Quiet EXCEPT !.heap[p] = n] \in S
<1>1. Quiet.heap = store.heap  BY QuietKeeps DEF UpdateInv
<1>2. p \in Ptr /\ store.heap[p] \in Note
  BY GoodFacts DEF UpdateInv, Queued, displayed
<1> QED  BY <1>1, <1>2 DEF ClosedUnderUpdate

LEMMA HandlerStaysIn ==
  ASSUME UpdateInv, NEW S, ClosedCalmly(S), Quiet \in S,
         MouseEvent \/ HandlerStep \/ TimePasses
  PROVE  Marks \/ store' \in S
<1>0. /\ ClosedUnderUpdate(S) /\ Quiet \in Store
      /\ Good(Quiet) /\ SameQueues(Quiet, store) /\ Quiet.heap = store.heap
      /\ displayed \in Seq(Ptr) /\ waiting \in Seq(Ptr)
  BY QuietKeeps, GoodFacts DEF UpdateInv, ClosedCalmly, displayed, waiting
<1>1. CASE MouseEvent  BY <1>1 DEF MouseEvent, PointerMoves, Click, RunWith
<1>2. CASE ClickCloseAll \/ ClickDone \/ PushAllDone
  BY <1>2 DEF ClickCloseAll, ClickDone, PushAllDone, WakeUp, RunWith
<1>3. CASE ClickCloseCurrent \/ ClickRemoveCurrent  BY <1>3 DEF Marks
<1>4. CASE PushAllStep
  <2> DEFINE all == displayed \o waiting
  <2>1. all \in Seq(Ptr) /\ all # <<>>
        /\ store' = NotificationClose(Quiet, Head(all), USER)
    BY <1>0, <1>4, ConcatProperties DEF PushAllStep
  <2>2. ToSet(all) \subseteq Queued(store)
    BY <1>0, ConcatenatedElements DEF Queued, displayed, waiting
  <2> HIDE DEF all
  <2>3. Head(all) \in ToSet(all)
    <3>1. Len(all) \in Nat /\ Len(all) # 0 /\ Head(all) = all[1]
      BY <2>1, EmptySeq, LenProperties
    <3>2. 1 \in 1..Len(all)  BY <3>1
    <3> QED  BY <2>1, <3>1, <3>2, Elements
  <2>4. Head(all) \in Ptr /\ Quiet.heap[Head(all)] \in Note
    BY <1>0, <2>2, <2>3, GoodFacts DEF UpdateInv
  <2> QED  BY <1>0, <2>1, <2>4, ClosedAndRemoved DEF Reasons
<1>5. CASE TimePasses
  <2>1. PICK p \in ToSet(displayed) :
          store' = [Quiet EXCEPT !.heap[p].due = TRUE]
    BY <1>5 DEF TimePasses
  <2> DEFINE n == [Quiet.heap[p] EXCEPT !.due = TRUE]
  <2>2. Quiet.heap[p] \in Note
    BY <1>0, GoodFacts DEF UpdateInv, Queued, displayed
  <2>3. n \in Note /\ Alike(n, store.heap[p]) /\ Calmed(n, store.heap[p])
    BY <1>0, <2>2 DEF Note, Alike, Calmed
  <2>4. store' = [Quiet EXCEPT !.heap[p] = n]  BY <1>0, <2>1 DEF Store
  <2> HIDE DEF n
  <2> QED  BY <1>0, <2>3, <2>4, QueuedTouched
<1> QED  BY <1>1, <1>2, <1>3, <1>4, <1>5 DEF HandlerStep

(* Every step of the daemon but the arrival of a notification and a click. *)
LEMMA CalmStepStaysIn ==
  ASSUME UpdateInv, NEW S, ClosedCalmly(S), Quiet \in S, Next
  PROVE  Arrives \/ Marks \/ store' \in S
<1>0. ClosedUnderUpdate(S)  BY DEF ClosedCalmly
<1>1. CASE DBusMethod  BY <1>1, MethodStaysIn
<1>2. CASE MouseEvent \/ HandlerStep \/ TimePasses  BY <1>2, HandlerStaysIn
<1>3. CASE TimerFires \/ OutputChanges
  BY <1>3 DEF TimerFires, OutputChanges, WakeUp, RunWith
<1>4. CASE UpdateStep  BY <1>0, <1>4, UpdateStaysIn
<1>5. CASE Finish  BY <1>5 DEF Finish
<1> QED  BY <1>1, <1>2, <1>3, <1>4, <1>5 DEF Next, RunStep

(* A click marks the notification at its place, if it is still there.      *)
LEMMA MarksEffect ==
  ASSUME UpdateInv, Marks
  PROVE  \/ store' = Quiet
         \/ \E p \in ToSet(displayed), n \in Note :
              /\ p \in Ptr /\ store.heap[p] \in Note /\ Alike(n, store.heap[p])
              /\ store' = [Quiet EXCEPT !.heap[p] = n]
              /\ \/ ClickCloseCurrent /\ n = [store.heap[p] EXCEPT !.closing = USER]
                 \/ ClickRemoveCurrent /\ n = [store.heap[p] EXCEPT !.removing = USER]
<1>0. /\ Quiet \in Store /\ Quiet.heap = store.heap /\ displayed \in Seq(Ptr)
  BY QuietKeeps, GoodFacts DEF UpdateInv, displayed
<1> DEFINE p == displayed[clicked]
           closing  == [store.heap[p] EXCEPT !.closing = USER]
           removing == [store.heap[p] EXCEPT !.removing = USER]
<1>1. \/ store' = Quiet
      \/ /\ clicked \in 1..Len(displayed)
         /\ \/ ClickCloseCurrent /\ store' = [Quiet EXCEPT !.heap[p] = closing]
            \/ ClickRemoveCurrent /\ store' = [Quiet EXCEPT !.heap[p] = removing]
  BY <1>0 DEF Marks, ClickCloseCurrent, ClickRemoveCurrent, Mark
<1>2. CASE clicked \in 1..Len(displayed)
  <2>1. p \in ToSet(displayed)  BY <1>0, <1>2, Elements
  <2>2. p \in Ptr /\ store.heap[p] \in Note  BY <1>0, <1>2, ClickedIsThere
  <2> HIDE DEF p
  <2>3. /\ closing \in Note /\ Alike(closing, store.heap[p])
        /\ removing \in Note /\ Alike(removing, store.heap[p])
    BY <2>2 DEF Note, Alike, Reasons
  <2>4. CASE ClickCloseCurrent /\ store' = [Quiet EXCEPT !.heap[p] = closing]
    BY <2>1, <2>2, <2>3, <2>4
  <2>5. CASE ClickRemoveCurrent /\ store' = [Quiet EXCEPT !.heap[p] = removing]
    BY <2>1, <2>2, <2>3, <2>5
  <2>6. CASE store' = Quiet  BY <2>6
  <2> QED  BY <1>1, <2>4, <2>5, <2>6 DEF p
<1> QED  BY <1>1, <1>2

(* Every step of the daemon but the arrival of a notification. *)
LEMMA StepStaysIn ==
  ASSUME UpdateInv, NEW S, Closed(S), Quiet \in S, Next
  PROVE  Arrives \/ store' \in S
<1>1. Arrives \/ Marks \/ store' \in S
  BY CalmStepStaysIn DEF Closed
<1>2. ASSUME Marks  PROVE store' \in S
  <2>1. Quiet.heap = store.heap  BY QuietKeeps DEF UpdateInv
  <2> QED  BY <1>2, <2>1, MarksEffect DEF Closed
<1> QED  BY <1>1, <1>2

---------------------------------------------------------------------------
(* What the operations change                                              *)

(* a notification with one reference less *)
Dropped(n) == IF n.refs = 1 THEN Freed ELSE [n EXCEPT !.refs = n.refs - 1]

Full(q) == HistoryLength > 0 /\ Len(q.history) >= HistoryLength

LEMMA UnrefEffect ==
  ASSUME NEW q \in Store, NEW p \in Ptr
  PROVE  /\ SameQueues(Unref(q, p), q)
         /\ Unref(q, p).heap = [q.heap EXCEPT ![p] = Dropped(q.heap[p])]
         /\ Unref(q, p).nextId = q.nextId /\ Unref(q, p).emitted = q.emitted
BY DEF Unref, Dropped, Store, SameQueues

(* what is dropped keeps everything but its count *)
LEMMA DroppedFacts ==
  ASSUME NEW n \in Note
  PROVE  \/ n.refs = 1 /\ Dropped(n) = Freed
         \/ /\ n.refs # 1 /\ Dropped(n) \in Note
            /\ Dropped(n).kind = n.kind /\ Dropped(n).id = n.id
            /\ Dropped(n).stamp = n.stamp /\ Dropped(n).valid = n.valid
            /\ Dropped(n).redisplayed = n.redisplayed
            /\ Dropped(n).locked = n.locked
<1>1. CASE n.refs = 1  BY <1>1 DEF Dropped
<1>2. CASE n.refs # 1
  <2>1. n.refs - 1 \in Nat \ {0}  BY <1>2 DEF Note
  <2>2. Dropped(n) = [n EXCEPT !.refs = n.refs - 1]  BY <1>2 DEF Dropped
  <2> QED  BY <1>2, <2>1, <2>2 DEF Note
<1> QED  BY <1>1, <1>2

(* queues_history_push drops what is not kept: p itself, or the oldest. *)
LEMMA HistoryPushEffect ==
  ASSUME NEW q \in Store, NEW p \in Ptr
  PROVE  LET r == HistoryPush(q, p)
             first == Head(q.history)
         IN /\ r.displayed = q.displayed /\ r.waiting = q.waiting
            /\ r.nextId = q.nextId /\ r.emitted = q.emitted
            /\ q.heap[p].kind.history_ignore =>
                 /\ r.history = q.history
                 /\ r.heap = [q.heap EXCEPT ![p] = Dropped(q.heap[p])]
            /\ ~q.heap[p].kind.history_ignore /\ ~Full(q) =>
                 r.history = Append(q.history, p) /\ r.heap = q.heap
            /\ ~q.heap[p].kind.history_ignore /\ Full(q) =>
                 /\ r.history = Append(Tail(q.history), p)
                 /\ r.heap = [q.heap EXCEPT ![first] = Dropped(q.heap[first])]
<1> DEFINE r == HistoryPush(q, p)
           first == Head(q.history)
           freed == Unref(q, first)
<1>1. CASE q.heap[p].kind.history_ignore
  <2>1. r = Unref(q, p)  BY <1>1 DEF HistoryPush
  <2> QED  BY <1>1, <2>1, UnrefEffect DEF SameQueues
<1>2. CASE ~q.heap[p].kind.history_ignore /\ ~Full(q)
  <2>1. r = [q EXCEPT !.history = Append(q.history, p)]
    BY <1>2 DEF HistoryPush, Full, Store
  <2> QED  BY <1>2, <2>1 DEF Store
<1>3. CASE ~q.heap[p].kind.history_ignore /\ Full(q)
  <2>1. r = [freed EXCEPT !.history = Append(Tail(freed.history), p)]
    BY <1>3 DEF HistoryPush, Full, Unref, Store
  <2>2. /\ freed.displayed = q.displayed /\ freed.waiting = q.waiting
        /\ freed.history = q.history /\ freed.nextId = q.nextId
        /\ freed.emitted = q.emitted
        /\ freed.heap = [q.heap EXCEPT ![first] = Dropped(q.heap[first])]
    BY DEF Unref, Dropped, Store
  <2>3. /\ r.displayed = freed.displayed /\ r.waiting = freed.waiting
        /\ r.history = Append(Tail(freed.history), p)
        /\ r.heap = freed.heap /\ r.nextId = freed.nextId
        /\ r.emitted = freed.emitted
    BY <2>1 DEF Unref, Store
  <2> QED  BY <1>3, <2>2, <2>3
<1> QED  BY <1>1, <1>2, <1>3

(* r is q after t, which has become n, was pushed to history.               *)
Pushed(r, q, t, n) ==
  \/ r.history = q.history /\ r.heap = [q.heap EXCEPT ![t] = Dropped(n)]
  \/ /\ ~Full(q)
     /\ r.history = Append(q.history, t)
     /\ r.heap = [q.heap EXCEPT ![t] = n]
  \/ /\ Full(q)
     /\ r.history = Append(Tail(q.history), t)
     /\ r.heap = [q.heap EXCEPT ![t] = n,
                                ![Head(q.history)] = Dropped(q.heap[Head(q.history)])]

(* what queues_notification_close_id makes of a notification *)
AfterClose(n) == IF n.redisplayed THEN n ELSE [n EXCEPT !.valid = FALSE]

(* r is q after t was closed. *)
Closes(r, q, t, reason) ==
  /\ t \in ToSet(q.displayed) \cup ToSet(q.waiting)
  /\ t \notin ToSet(r.displayed) \cup ToSet(r.waiting)
  /\ Pushed(r, q, t, AfterClose(q.heap[t]))
  /\ r.nextId = q.nextId
  /\ r.emitted = IF q.heap[t].redisplayed \/ ~q.heap[t].valid THEN q.emitted
                 ELSE q.emitted \cup {<<q.heap[t].id, reason>>}

LEMMA FoundHasId ==
  ASSUME NEW q, NEW s \in Seq(Ptr), NEW id, FirstWithId(q, s, id) # 0
  PROVE  /\ FirstWithId(q, s, id) \in 1..Len(s)
         /\ q.heap[s[FirstWithId(q, s, id)]].id = id
         /\ s[FirstWithId(q, s, id)] \in ToSet(s)
<1> DEFINE I == { i \in 1..Len(s) : q.heap[s[i]].id = id }
<1>1. FirstWithId(q, s, id) = IF I # {} THEN Min(I) ELSE 0
  BY Zenon DEF FirstWithId, SelectInSeq
<1>2. I # {} /\ I \in SUBSET Nat  BY <1>1, LenProperties
<1>3. Min(I) \in I  BY <1>2, MinExists
<1> QED  BY <1>1, <1>2, <1>3, Elements

LEMMA NotFound ==
  ASSUME NEW q, NEW s \in Seq(Ptr), NEW id, FirstWithId(q, s, id) = 0
  PROVE  \A p \in ToSet(s) : q.heap[p].id # id
<1> DEFINE I == { i \in 1..Len(s) : q.heap[s[i]].id = id }
<1>1. FirstWithId(q, s, id) = IF I # {} THEN Min(I) ELSE 0
  BY Zenon DEF FirstWithId, SelectInSeq
<1>2. I \in SUBSET Nat /\ Len(s) \in Nat  BY LenProperties
<1>3. I # {} => Min(I) \in I  BY <1>2, MinExists
<1>4. I = {}  BY <1>1, <1>2, <1>3
<1> QED  BY <1>4, Elements

LEMMA CloseIdEffect ==
  ASSUME NEW q, Good(q), NEW id, NEW reason \in Reasons
  PROVE  LET d == FirstWithId(q, q.displayed, id)
             w == FirstWithId(q, q.waiting, id)
             r == CloseId(q, id, reason)
         IN \/ d = 0 /\ w = 0 /\ r = q
            \/ /\ d # 0 \/ w # 0
               /\ r.displayed = Without(q.displayed, d)
               /\ r.waiting = Without(q.waiting, w)
               /\ Closes(r, q, IF w # 0 THEN q.waiting[w] ELSE q.displayed[d],
                         reason)
<1> DEFINE d  == FirstWithId(q, q.displayed, id)
           w  == FirstWithId(q, q.waiting, id)
           t  == IF w # 0 THEN q.waiting[w] ELSE q.displayed[d]
           sd == Without(q.displayed, d)
           sw == Without(q.waiting, w)
           q1 == [q EXCEPT !.displayed = sd, !.waiting = sw]
           q2 == IF q.heap[t].redisplayed THEN q1
                 ELSE SignalClosed(q1, t, reason)
           r  == CloseId(q, id, reason)
<1>0. /\ q \in Store
      /\ q.displayed \in Seq(Ptr) /\ IsInjective(q.displayed)
      /\ q.waiting \in Seq(Ptr) /\ IsInjective(q.waiting)
      /\ q.history \in Seq(Ptr)
      /\ ToSet(q.displayed) \cap ToSet(q.waiting) = {}
      /\ ToSet(q.displayed) \cap ToSet(q.history) = {}
      /\ ToSet(q.waiting) \cap ToSet(q.history) = {}
      /\ \A p \in Queued(q) : p \in Ptr /\ q.heap[p] \in Note
  BY GoodFacts
<1>1. /\ PlaceIn(d, q.displayed) /\ PlaceIn(w, q.waiting)
      /\ d # 0 => q.displayed[d] \in ToSet(q.displayed)
      /\ w # 0 => q.waiting[w] \in ToSet(q.waiting)
  BY <1>0, FirstWithIdPlace, FoundHasId
<1>2. r = IF d = 0 /\ w = 0 THEN q ELSE HistoryPush(q2, t)
  BY <1>0, Zenon DEF CloseId
<1> HIDE DEF d, w, r
<1>3. CASE d = 0 /\ w = 0  BY <1>2, <1>3 DEF d, w, r
<1>4. CASE d # 0 \/ w # 0
  <2>1. /\ sd \in Seq(Ptr) /\ sw \in Seq(Ptr)
        /\ ToSet(sd) \subseteq ToSet(q.displayed)
        /\ ToSet(sw) \subseteq ToSet(q.waiting)
        /\ d # 0 => q.displayed[d] \notin ToSet(sd)
        /\ w # 0 => q.waiting[w] \notin ToSet(sw)
    BY <1>0, <1>1, WithoutProperties
  <2> HIDE DEF sd, sw
  <2>2. t \in ToSet(q.displayed) \cup ToSet(q.waiting)  BY <1>1, <1>4
  <2>3. t \notin ToSet(sd) /\ t \notin ToSet(sw)  BY <1>0, <1>1, <1>4, <2>1
  <2> HIDE DEF t
  <2>4. /\ t \in Ptr /\ q.heap[t] \in Note /\ t \notin ToSet(q.history)
    BY <1>0, <2>2 DEF Queued
  <2>5. /\ q1 \in Store /\ q1.displayed = sd /\ q1.waiting = sw
        /\ q1.history = q.history /\ q1.heap = q.heap
        /\ q1.nextId = q.nextId /\ q1.emitted = q.emitted
    BY <1>0, <2>1 DEF Store
  <2> HIDE DEF q1
  <2> DEFINE n == AfterClose(q.heap[t])
  <2>6. /\ n \in Note
        /\ SameQueues(q2, q1) /\ q2.nextId = q.nextId
        /\ q2.heap = [q.heap EXCEPT ![t] = n]
        /\ q2.emitted = IF q.heap[t].redisplayed \/ ~q.heap[t].valid
                        THEN q.emitted
                        ELSE q.emitted \cup {<<q.heap[t].id, reason>>}
    <3>1. CASE q.heap[t].redisplayed
      BY <1>0, <2>4, <2>5, <3>1 DEF AfterClose, SameQueues, Store
    <3>2. CASE ~q.heap[t].redisplayed /\ q.heap[t].valid
      <4>1. q2 = [q1 EXCEPT !.heap[t].valid = FALSE,
                            !.emitted = @ \cup {<<q.heap[t].id, reason>>}]
        BY <2>5, <3>2 DEF SignalClosed
      <4>2. n = [q.heap[t] EXCEPT !.valid = FALSE] /\ n \in Note
        BY <2>4, <3>2 DEF AfterClose, Note
      <4>3. /\ q2.displayed = q1.displayed /\ q2.waiting = q1.waiting
            /\ q2.history = q1.history /\ q2.nextId = q1.nextId
            /\ q2.emitted = q1.emitted \cup {<<q.heap[t].id, reason>>}
            /\ q2.heap = [q1.heap EXCEPT ![t] = [@ EXCEPT !.valid = FALSE]]
        BY <2>5, <4>1 DEF Store
      <4> QED  BY <1>0, <2>5, <3>2, <4>2, <4>3 DEF SameQueues
    <3>3. CASE ~q.heap[t].redisplayed /\ ~q.heap[t].valid
      <4>1. q2 = q1  BY <2>5, <3>3 DEF SignalClosed
      <4>2. n = q.heap[t] /\ n \in Note
        BY <2>4, <3>3 DEF AfterClose, Note
      <4> QED  BY <1>0, <2>4, <2>5, <3>3, <4>1, <4>2 DEF SameQueues, Store
    <3> QED  BY <3>1, <3>2, <3>3
  <2>7. q2 \in Store
    <3> DEFINE h == [q.heap EXCEPT ![t] = n]
               e == q.emitted \cup {<<q.heap[t].id, reason>>}
    <3>1. h \in [Ptr -> Note \cup {Freed}]  BY <1>0, <2>4, <2>6 DEF Store
    <3>2. e \in SUBSET ((0..MaxId) \X Reasons)  BY <1>0, <2>4 DEF Store, Note
    <3>3. CASE q2 = q1  BY <2>5, <3>3
    <3>4. CASE q2 # q1
      <4>1. /\ ~q.heap[t].redisplayed
            /\ q2 = [q1 EXCEPT !.heap[t].valid = FALSE,
                               !.emitted = q1.emitted \cup {<<q1.heap[t].id, reason>>}]
        BY <2>5, <3>4 DEF SignalClosed
      <4>2. n = [q.heap[t] EXCEPT !.valid = FALSE]  BY <4>1 DEF AfterClose
      <4>3. [q1.heap EXCEPT ![t].valid = FALSE] = h
        BY <1>0, <2>4, <2>5, <4>2 DEF Store
      <4>4. q1.emitted \cup {<<q1.heap[t].id, reason>>} = e  BY <2>5
      <4> HIDE DEF h, e, n, q2
      <4>5. q2 = [q1 EXCEPT !.heap = h, !.emitted = e]
        BY <4>1, <4>3, <4>4, Zenon
      <4> QED  BY <2>5, <3>1, <3>2, <4>5 DEF Store
    <3> QED  BY <3>3, <3>4
  <2> HIDE DEF n, q2
  <2>8. Closes(r, q, t, reason)
    <3>1. r = HistoryPush(q2, t)  BY <1>2, <1>4
    <3>2. /\ r.displayed = sd /\ r.waiting = sw
          /\ r.nextId = q2.nextId /\ r.emitted = q2.emitted
      BY <2>4, <2>5, <2>6, <2>7, <3>1, HistoryPushEffect DEF SameQueues
    <3>3. Pushed(r, q, t, n)
      <4>1. /\ q2.history = q.history /\ q2.heap = [q.heap EXCEPT ![t] = n]
            /\ q2.heap[t] = n
        BY <1>0, <2>4, <2>5, <2>6 DEF SameQueues, Store
      <4>2. Full(q2) <=> Full(q)  BY <4>1 DEF Full
      <4>3. CASE n.kind.history_ignore
        <5>1. r.history = q2.history
              /\ r.heap = [q2.heap EXCEPT ![t] = Dropped(n)]
          BY <2>4, <2>7, <3>1, <4>1, <4>3, HistoryPushEffect
        <5>2. r.heap = [q.heap EXCEPT ![t] = Dropped(n)]
          BY <1>0, <4>1, <5>1 DEF Store
        <5> QED  BY <4>1, <5>1, <5>2 DEF Pushed
      <4>4. CASE ~n.kind.history_ignore /\ ~Full(q)
        <5>1. ~q2.heap[t].kind.history_ignore /\ ~Full(q2)
          BY <4>1, <4>2, <4>4
        <5>2. r.history = Append(q2.history, t) /\ r.heap = q2.heap
          BY <2>4, <2>7, <3>1, <5>1, HistoryPushEffect
        <5> QED  BY <4>1, <4>4, <5>2 DEF Pushed
      <4>5. CASE ~n.kind.history_ignore /\ Full(q)
        <5> DEFINE o == Head(q.history)
        <5>1. o # t
          <6>1. Len(q.history) \in Nat /\ Len(q.history) # 0
            BY <1>0, <4>5, LenProperties, QueuesAssumption DEF Full
          <6>2. 1 \in 1..Len(q.history) /\ o = q.history[1]
            BY <1>0, <6>1, EmptySeq
          <6>3. o \in ToSet(q.history)  BY <1>0, <6>2, Elements
          <6> QED  BY <2>4, <6>3
        <5>2. /\ r.history = Append(Tail(q.history), t)
              /\ r.heap = [q2.heap EXCEPT ![o] = Dropped(q2.heap[o])]
          <6>1. ~q2.heap[t].kind.history_ignore /\ Full(q2)
            BY <4>1, <4>2, <4>5
          <6>2. /\ r.history = Append(Tail(q2.history), t)
                /\ r.heap = [q2.heap EXCEPT ![Head(q2.history)] =
                               Dropped(q2.heap[Head(q2.history)])]
            BY <2>4, <2>7, <3>1, <6>1, HistoryPushEffect
          <6> QED  BY <4>1, <6>2
        <5>3. q2.heap[o] = q.heap[o]  BY <1>0, <4>1, <5>1 DEF Store
        <5>4. r.heap = [q.heap EXCEPT ![t] = n, ![o] = Dropped(q.heap[o])]
          BY <1>0, <4>1, <5>2, <5>3 DEF Store
        <5> QED  BY <4>5, <5>2, <5>4 DEF Pushed
      <4> QED  BY <4>3, <4>4, <4>5
    <3> QED  BY <2>2, <2>3, <2>6, <3>2, <3>3 DEF Closes, n
  <2>9. r.displayed = sd /\ r.waiting = sw
    BY <1>2, <1>4, <2>4, <2>5, <2>6, <2>7, HistoryPushEffect DEF SameQueues
  <2> QED  BY <1>4, <2>8, <2>9 DEF d, w, r, t, sd, sw
<1> QED  BY <1>3, <1>4

(* what a push to history leaves in memory and in the queue *)
LEMMA PushedFacts ==
  ASSUME NEW q, Good(q), NEW r, NEW t \in Ptr, t \notin ToSet(q.history),
         NEW n \in Note, Pushed(r, q, t, n)
  PROVE  /\ r.history \in Seq(Ptr)
         /\ ToSet(r.history) \subseteq ToSet(q.history) \cup {t}
         /\ HistoryLength > 0 /\ Len(q.history) <= HistoryLength
              => Len(r.history) <= HistoryLength
         /\ r.heap[t] = IF t \in ToSet(r.history) THEN n ELSE Dropped(n)
         /\ \A p \in Ptr \ {t} :
              r.heap[p] = IF p \in ToSet(q.history) \ ToSet(r.history)
                          THEN Dropped(q.heap[p]) ELSE q.heap[p]
<1>0. /\ q.history \in Seq(Ptr) /\ IsInjective(q.history)
      /\ q.heap \in [Ptr -> Note \cup {Freed}]
      /\ ToSet(q.history) \subseteq Ptr /\ Len(q.history) \in Nat
      /\ HistoryLength \in Nat
  BY GoodFacts, Elements, QueuesAssumption
<1>1. CASE r.history = q.history /\ r.heap = [q.heap EXCEPT ![t] = Dropped(n)]
  BY <1>0, <1>1
<1>2. CASE /\ ~Full(q) /\ r.history = Append(q.history, t)
           /\ r.heap = [q.heap EXCEPT ![t] = n]
  <2>1. /\ r.history \in Seq(Ptr) /\ Len(r.history) = Len(q.history) + 1
        /\ ToSet(r.history) = ToSet(q.history) \cup {t}
    BY <1>0, <1>2, Appended
  <2>2. HistoryLength > 0 => Len(q.history) < HistoryLength
    BY <1>0, <1>2 DEF Full
  <2> QED  BY <1>0, <1>2, <2>1, <2>2
<1>3. CASE /\ Full(q) /\ r.history = Append(Tail(q.history), t)
           /\ r.heap = [q.heap EXCEPT ![t] = n,
                          ![Head(q.history)] = Dropped(q.heap[Head(q.history)])]
  <2> DEFINE o == Head(q.history)
  <2>1. Len(q.history) # 0 /\ q.history # <<>> /\ o = q.history[1]
    <3>1. Len(q.history) # 0  BY <1>0, <1>3 DEF Full
    <3> QED  BY <1>0, <3>1, EmptySeq
  <2>2. 1 \in 1..Len(q.history)  BY <1>0, <2>1
  <2>3. o \in ToSet(q.history)  BY <1>0, <2>1, <2>2, Elements
  <2>4. /\ Tail(q.history) \in Seq(Ptr) /\ IsInjective(Tail(q.history))
        /\ Len(Tail(q.history)) = Len(q.history) - 1
        /\ ToSet(Tail(q.history)) = ToSet(q.history) \ {o}
    BY <1>0, <2>1, TailTaken
  <2>5. t \notin ToSet(Tail(q.history))  BY <2>4
  <2>6. /\ r.history \in Seq(Ptr)
        /\ Len(r.history) = Len(Tail(q.history)) + 1
        /\ ToSet(r.history) = (ToSet(q.history) \ {o}) \cup {t}
    <3> HIDE DEF o
    <3>1. r.history = Append(Tail(q.history), t)  BY <1>3
    <3> DEFINE s == Tail(q.history)
    <3>2. s \in Seq(Ptr) /\ IsInjective(s) /\ t \notin ToSet(s)  BY <2>4, <2>5
    <3> HIDE DEF s
    <3>3. /\ Append(s, t) \in Seq(Ptr) /\ Len(Append(s, t)) = Len(s) + 1
          /\ ToSet(Append(s, t)) = ToSet(s) \cup {t}
      BY <3>2, Appended
    <3> QED  BY <2>4, <3>1, <3>3 DEF s
  <2>7. o # t /\ o \in Ptr  BY <1>0, <2>3
  <2>8. r.heap = [q.heap EXCEPT ![t] = n, ![o] = Dropped(q.heap[o])]
    BY <1>3
  <2> HIDE DEF o
  <2>9. /\ r.heap[t] = n /\ r.heap[o] = Dropped(q.heap[o])
        /\ \A p \in Ptr \ {t, o} : r.heap[p] = q.heap[p]
    BY <1>0, <2>7, <2>8
  <2>10. ToSet(q.history) \ ToSet(r.history) = {o}  BY <2>3, <2>6, <2>7
  <2>11. Len(r.history) = Len(q.history)  BY <1>0, <2>4, <2>6
  <2> QED  BY <2>3, <2>6, <2>7, <2>9, <2>10, <2>11
<1> QED  BY <1>1, <1>2, <1>3 DEF Pushed

---------------------------------------------------------------------------
(* What no operation but the arrival of a notification does: create one,   *)
(* forget one, revive a closed one, change an id, or put one into history  *)
(* whose client has not been told.                                         *)

OpenIn(q) == ToSet(q.displayed) \cup ToSet(q.waiting)

(* What r keeps of what q queues is still what it was. *)
Kept(r, q) ==
  /\ r.nextId = q.nextId
  /\ Queued(r) \subseteq Queued(q)
  /\ \A p \in Ptr \ Queued(q) : q.heap[p] = Freed => r.heap[p] = Freed
  /\ \A p \in Queued(r) :
       LET n == r.heap[p]
           m == q.heap[p]
       IN /\ n.kind = m.kind /\ n.id = m.id /\ n.stamp = m.stamp
          /\ n.refs = m.refs /\ n.locked = m.locked
          /\ n.valid => m.valid
          /\ n.redisplayed => m.redisplayed \/ p \in ToSet(q.history)
          /\ p \in ToSet(r.history) =>
               p \in ToSet(q.history) \/ m.redisplayed \/ ~n.valid
  /\ HistoryLength > 0 /\ Len(q.history) <= HistoryLength
       => Len(r.history) <= HistoryLength

(* History is never over its length, and whoever is in it, or was in it    *)
(* and has been shown again, is closed for its client.                     *)
Told(q) ==
  /\ HistoryLength > 0 => Len(q.history) <= HistoryLength
  /\ \A p \in ToSet(q.history) : ~q.heap[p].valid
  /\ \A p \in Queued(q) : q.heap[p].redisplayed => ~q.heap[p].valid

LEMMA ToldKept ==
  ASSUME NEW q, Good(q), Told(q), NEW r, Good(r), Kept(r, q)
  PROVE  Told(r)
<1>1. HistoryLength > 0 => Len(r.history) <= HistoryLength
  BY DEF Told, Kept
<1>2. ASSUME NEW p \in Queued(r)
      PROVE  /\ p \in ToSet(r.history) => ~r.heap[p].valid
             /\ r.heap[p].redisplayed => ~r.heap[p].valid
  <2> DEFINE n == r.heap[p]
             m == q.heap[p]
  <2>1. p \in Queued(q)  BY DEF Kept
  <2>2. /\ m.redisplayed => ~m.valid
        /\ p \in ToSet(q.history) => ~m.valid
    BY <2>1 DEF Told
  <2>3. /\ n.valid => m.valid
        /\ n.redisplayed => m.redisplayed \/ p \in ToSet(q.history)
        /\ p \in ToSet(r.history) =>
             p \in ToSet(q.history) \/ m.redisplayed \/ ~n.valid
    BY DEF Kept
  <2> HIDE DEF n, m
  <2>4. (p \in ToSet(r.history) => ~n.valid) /\ (n.redisplayed => ~n.valid)
    BY <2>2, <2>3, Zenon
  <2> QED  BY <2>4 DEF n
<1> QED  BY <1>1, <1>2 DEF Told, Queued

---------------------------------------------------------------------------
(* The operations, each against Kept                                       *)

(* r is q with notifications moved between displayed and waiting. *)
Moved(r, q) ==
  /\ OpenIn(r) = OpenIn(q) /\ r.history = q.history /\ r.heap = q.heap
  /\ r.nextId = q.nextId /\ r.emitted = q.emitted
  /\ Len(r.displayed) + Len(r.waiting) = Len(q.displayed) + Len(q.waiting)

LEMMA MovedAcross ==
  ASSUME NEW q, Good(q),
         NEW d \in Seq(Ptr), IsInjective(d), NEW w \in Seq(Ptr), IsInjective(w),
         ToSet(d) \cap ToSet(w) = {}, ToSet(d) \cup ToSet(w) = OpenIn(q),
         Len(d) + Len(w) = Len(q.displayed) + Len(q.waiting),
         NEW r, r = [q EXCEPT !.displayed = d, !.waiting = w]
  PROVE  Good(r) /\ Moved(r, q)
<1>1. r = [q EXCEPT !.displayed = d, !.waiting = w, !.history = q.history]
  BY GoodFacts DEF Store
<1>2. Good(r)
  <2>1. ToSet(d) \cap ToSet(q.history) = {} /\ ToSet(w) \cap ToSet(q.history) = {}
    BY GoodFacts DEF OpenIn
  <2>2. \A p \in ToSet(d) \cup ToSet(w) \cup ToSet(q.history) :
          q.heap[p] # Freed
    BY GoodFacts DEF OpenIn, Queued
  <2>3. q \in Store /\ q.history \in Seq(Ptr) /\ IsInjective(q.history)
    BY GoodFacts
  <2>4. Good([q EXCEPT !.displayed = d, !.waiting = w, !.history = q.history])
    BY <2>1, <2>2, <2>3, GoodQueues
  <2> QED  BY <1>1, <2>4
<1>3. Moved(r, q)  BY GoodFacts DEF Moved, OpenIn, Store
<1> QED  BY <1>2, <1>3

LEMMA PushedBackMoves ==
  ASSUME NEW q, Good(q), NEW at \in 1..Len(q.displayed)
  PROVE  Good(PushedBack(q, at)) /\ Moved(PushedBack(q, at), q)
<1> DEFINE p  == q.displayed[at]
           d  == RemoveAt(q.displayed, at)
           q1 == [q EXCEPT !.displayed = d]
           w  == InsertSorted(q1, q.waiting, p)
<1>0. /\ q \in Store
      /\ q.displayed \in Seq(Ptr) /\ IsInjective(q.displayed)
      /\ q.waiting \in Seq(Ptr) /\ IsInjective(q.waiting)
      /\ ToSet(q.displayed) \cap ToSet(q.waiting) = {}
  BY GoodFacts
<1>1. p \in ToSet(q.displayed) /\ p \in Ptr  BY <1>0, Elements
<1>2. /\ d \in Seq(Ptr) /\ IsInjective(d) /\ Len(d) = Len(q.displayed) - 1
      /\ ToSet(d) = ToSet(q.displayed) \ {p}
  BY <1>0, Removed
<1>3. PushedBack(q, at) = [q EXCEPT !.displayed = d, !.waiting = w]
  BY <1>0 DEF PushedBack, Enqueue, Store
<1> HIDE DEF p, d, q1
<1>4. /\ w \in Seq(Ptr) /\ IsInjective(w) /\ Len(w) = Len(q.waiting) + 1
      /\ ToSet(w) = ToSet(q.waiting) \cup {p}
  BY <1>0, <1>1, InsertSortedProperties
<1> HIDE DEF w
<1>5. /\ ToSet(d) \cap ToSet(w) = {} /\ ToSet(d) \cup ToSet(w) = OpenIn(q)
  BY <1>0, <1>1, <1>2, <1>4 DEF OpenIn
<1>6. Len(d) + Len(w) = Len(q.displayed) + Len(q.waiting)
  <2> DEFINE x == Len(q.displayed)
             y == Len(q.waiting)
  <2>1. /\ x \in Nat /\ y \in Nat
    BY <1>0, LenProperties
  <2>2. Len(d) = x - 1  BY <1>2
  <2>3. Len(w) = y + 1  BY <1>4
  <2> HIDE DEF x, y
  <2>4. Len(d) + Len(w) = x + y  BY <2>1, <2>2, <2>3
  <2> QED  BY <2>4 DEF x, y
<1> QED  BY <1>2, <1>3, <1>4, <1>5, <1>6, MovedAcross

LEMMA ShownMoves ==
  ASSUME NEW q, Good(q), NEW at \in 1..Len(q.waiting)
  PROVE  Good(Shown(q, at)) /\ Moved(Shown(q, at), q)
<1> DEFINE p == q.waiting[at]
           w == RemoveAt(q.waiting, at)
           d == InsertSorted(q, q.displayed, p)
<1>0. /\ q \in Store
      /\ q.displayed \in Seq(Ptr) /\ IsInjective(q.displayed)
      /\ q.waiting \in Seq(Ptr) /\ IsInjective(q.waiting)
      /\ ToSet(q.displayed) \cap ToSet(q.waiting) = {}
  BY GoodFacts
<1>1. p \in ToSet(q.waiting) /\ p \in Ptr  BY <1>0, Elements
<1>2. /\ w \in Seq(Ptr) /\ IsInjective(w) /\ Len(w) = Len(q.waiting) - 1
      /\ ToSet(w) = ToSet(q.waiting) \ {p}
  BY <1>0, Removed
<1>3. Shown(q, at) = [q EXCEPT !.displayed = d, !.waiting = w]
  BY <1>0 DEF Shown, Store
<1> HIDE DEF p, w
<1>4. /\ d \in Seq(Ptr) /\ IsInjective(d) /\ Len(d) = Len(q.displayed) + 1
      /\ ToSet(d) = ToSet(q.displayed) \cup {p}
  BY <1>0, <1>1, InsertSortedProperties
<1> HIDE DEF d
<1>5. /\ ToSet(d) \cap ToSet(w) = {} /\ ToSet(d) \cup ToSet(w) = OpenIn(q)
  BY <1>0, <1>1, <1>2, <1>4 DEF OpenIn
<1>6. Len(d) + Len(w) = Len(q.displayed) + Len(q.waiting)
  <2> DEFINE x == Len(q.displayed)
             y == Len(q.waiting)
  <2>1. /\ x \in Nat /\ y \in Nat
    BY <1>0, LenProperties
  <2>2. Len(d) = x + 1  BY <1>4
  <2>3. Len(w) = y - 1  BY <1>2
  <2> HIDE DEF x, y
  <2>4. Len(d) + Len(w) = x + y  BY <2>1, <2>2, <2>3
  <2> QED  BY <2>4 DEF x, y
<1> QED  BY <1>2, <1>3, <1>4, <1>5, <1>6, MovedAcross

LEMMA TrimmedMoves ==
  ASSUME NEW q, Good(q), q.displayed # <<>>
  PROVE  Good(Trimmed(q)) /\ Moved(Trimmed(q), q)
<1> DEFINE p == Last(q.displayed)
           d == Front(q.displayed)
           w == InsertSorted(q, q.waiting, p)
<1>0. /\ q \in Store
      /\ q.displayed \in Seq(Ptr) /\ IsInjective(q.displayed)
      /\ q.waiting \in Seq(Ptr) /\ IsInjective(q.waiting)
      /\ ToSet(q.displayed) \cap ToSet(q.waiting) = {}
  BY GoodFacts
<1>1. /\ d \in Seq(Ptr) /\ IsInjective(d) /\ Len(d) = Len(q.displayed) - 1
      /\ ToSet(d) = ToSet(q.displayed) \ {p}
      /\ p \in ToSet(q.displayed)
  BY <1>0, FrontTaken
<1>2. p \in Ptr  BY <1>0, <1>1, Elements
<1>3. Trimmed(q) = [q EXCEPT !.displayed = d, !.waiting = w]
  BY <1>0 DEF Trimmed, Store
<1> HIDE DEF p, d
<1>4. /\ w \in Seq(Ptr) /\ IsInjective(w) /\ Len(w) = Len(q.waiting) + 1
      /\ ToSet(w) = ToSet(q.waiting) \cup {p}
  BY <1>0, <1>1, <1>2, InsertSortedProperties
<1> HIDE DEF w
<1>5. /\ ToSet(d) \cap ToSet(w) = {} /\ ToSet(d) \cup ToSet(w) = OpenIn(q)
  BY <1>0, <1>1, <1>4 DEF OpenIn
<1>6. Len(d) + Len(w) = Len(q.displayed) + Len(q.waiting)
  <2> DEFINE x == Len(q.displayed)
             y == Len(q.waiting)
  <2>1. /\ x \in Nat /\ y \in Nat
    BY <1>0, LenProperties
  <2>2. Len(d) = x - 1  BY <1>1
  <2>3. Len(w) = y + 1  BY <1>4
  <2> HIDE DEF x, y
  <2>4. Len(d) + Len(w) = x + y  BY <2>1, <2>2, <2>3
  <2> QED  BY <2>4 DEF x, y
<1> QED  BY <1>1, <1>3, <1>4, <1>5, <1>6, MovedAcross

LEMMA SwappedMoves ==
  ASSUME NEW q, Good(q), q.displayed # <<>>, q.waiting # <<>>
  PROVE  Good(Swapped(q)) /\ Moved(Swapped(q), q)
<1> DEFINE down == Last(q.displayed)
           up   == q.waiting[1]
           d    == InsertSorted(q, Front(q.displayed), up)
           w    == InsertSorted(q, Tail(q.waiting), down)
<1>0. /\ q \in Store
      /\ q.displayed \in Seq(Ptr) /\ IsInjective(q.displayed)
      /\ q.waiting \in Seq(Ptr) /\ IsInjective(q.waiting)
      /\ ToSet(q.displayed) \cap ToSet(q.waiting) = {}
  BY GoodFacts
<1>1. /\ Front(q.displayed) \in Seq(Ptr) /\ IsInjective(Front(q.displayed))
      /\ Len(Front(q.displayed)) = Len(q.displayed) - 1
      /\ ToSet(Front(q.displayed)) = ToSet(q.displayed) \ {down}
      /\ down \in ToSet(q.displayed)
  BY <1>0, FrontTaken
<1>2. /\ Tail(q.waiting) \in Seq(Ptr) /\ IsInjective(Tail(q.waiting))
      /\ Len(Tail(q.waiting)) = Len(q.waiting) - 1
      /\ ToSet(Tail(q.waiting)) = ToSet(q.waiting) \ {up}
  BY <1>0, TailTaken
<1>3. up \in ToSet(q.waiting)
  <2>1. Len(q.waiting) \in Nat /\ Len(q.waiting) # 0
    BY <1>0, EmptySeq, LenProperties
  <2>2. 1 \in 1..Len(q.waiting)  BY <2>1
  <2> QED  BY <1>0, <2>2, Elements
<1>4. up \in Ptr /\ down \in Ptr  BY <1>0, <1>1, <1>3, Elements
<1>5. Swapped(q) = [q EXCEPT !.displayed = d, !.waiting = w]
  BY <1>0 DEF Swapped, Store
<1> HIDE DEF up, down
<1>6. /\ d \in Seq(Ptr) /\ IsInjective(d)
      /\ Len(d) = Len(Front(q.displayed)) + 1
      /\ ToSet(d) = ToSet(Front(q.displayed)) \cup {up}
  <2>1. up \notin ToSet(Front(q.displayed))  BY <1>0, <1>1, <1>3
  <2> QED  BY <1>1, <1>4, <2>1, InsertSortedProperties
<1>7. /\ w \in Seq(Ptr) /\ IsInjective(w)
      /\ Len(w) = Len(Tail(q.waiting)) + 1
      /\ ToSet(w) = ToSet(Tail(q.waiting)) \cup {down}
  <2> DEFINE rest == Tail(q.waiting)
  <2>1. /\ rest \in Seq(Ptr) /\ IsInjective(rest)
        /\ down \notin ToSet(rest)
    BY <1>0, <1>1, <1>2
  <2> HIDE DEF rest
  <2>2. w = InsertSorted(q, rest, down)  BY DEF rest
  <2> HIDE DEF w
  <2>3. /\ w \in Seq(Ptr) /\ IsInjective(w) /\ Len(w) = Len(rest) + 1
        /\ ToSet(w) = ToSet(rest) \cup {down}
    BY <1>4, <2>1, <2>2, InsertSortedProperties
  <2> QED  BY <2>3 DEF rest
<1> HIDE DEF d, w
<1>8. /\ ToSet(d) \cap ToSet(w) = {} /\ ToSet(d) \cup ToSet(w) = OpenIn(q)
  BY <1>0, <1>1, <1>2, <1>3, <1>6, <1>7 DEF OpenIn
<1>9. Len(d) + Len(w) = Len(q.displayed) + Len(q.waiting)
  <2>1. Len(q.displayed) \in Nat /\ Len(q.waiting) \in Nat
    BY <1>0, LenProperties
  <2>2. Len(d) = Len(q.displayed)  BY <1>1, <1>6, <2>1
  <2>3. Len(w) = Len(q.waiting)  BY <1>2, <1>7, <2>1
  <2> QED  BY <2>2, <2>3
<1> QED  BY <1>5, <1>6, <1>7, <1>8, <1>9, MovedAcross

LEMMA MovedKept ==
  ASSUME NEW q, Good(q), NEW r, Moved(r, q)
  PROVE  Kept(r, q)
<1>1. Queued(r) = Queued(q)  BY DEF Moved, OpenIn, Queued
<1> QED  BY <1>1 DEF Moved, Kept

---------------------------------------------------------------------------
(* and against the signals a client gets                                   *)

(* Every queued notification has an id of its own. *)
Unique(q) == \A p, o \in Queued(q) : q.heap[p].id = q.heap[o].id => p = o

(* what clients believe to be open *)
StillOpen(q) == { p \in OpenIn(q) : q.heap[p].valid }

ToldIds(q) == { s[1] : s \in q.emitted }

(* r holds p by one reference less than q; the last one frees it. *)
LetGo(r, q, p) ==
  \/ q.heap[p].refs = 1 /\ r.heap[p] = Freed
  \/ /\ q.heap[p].refs # 1 /\ r.heap[p] \in Note
     /\ r.heap[p].refs = q.heap[p].refs - 1
     /\ r.heap[p].locked = q.heap[p].locked

(* What r does not queue any more has lost a reference, and what neither   *)
(* queues has lost none.                                                   *)
Releases(r, q) ==
  /\ \A p \in Queued(q) \ Queued(r) : LetGo(r, q, p)
  /\ \A p \in Ptr \ Queued(q) :
       \/ r.heap[p] = q.heap[p]
       \/ /\ q.heap[p] \in Note /\ r.heap[p] \in Note
          /\ Alike(r.heap[p], q.heap[p])

(* Clients are told of exactly those r closes. *)
Signals(r, q) ==
  /\ StillOpen(r) \subseteq StillOpen(q)
  /\ ToldIds(r) = ToldIds(q)
                    \cup { q.heap[p].id : p \in StillOpen(q) \ StillOpen(r) }

Orderly(r, q) ==
  /\ Good(r) /\ Kept(r, q)
  /\ Unique(q) => Releases(r, q)
  /\ Told(q) /\ Unique(q) => Signals(r, q)

LEMMA DroppedLetsGo ==
  ASSUME NEW r, NEW q, NEW p, NEW n \in Note, n.refs = q.heap[p].refs,
         n.locked = q.heap[p].locked, r.heap[p] = Dropped(n)
  PROVE  LetGo(r, q, p)
<1>1. CASE n.refs = 1  BY <1>1 DEF Dropped, LetGo
<1>2. CASE n.refs # 1
  <2>1. /\ Dropped(n) \in Note /\ Dropped(n).locked = n.locked
        /\ Dropped(n) = [n EXCEPT !.refs = n.refs - 1]
    BY <1>2, DroppedFacts DEF Dropped
  <2>2. Dropped(n).refs = n.refs - 1  BY <2>1 DEF Note
  <2> QED  BY <1>2, <2>1, <2>2 DEF LetGo
<1> QED  BY <1>1, <1>2

LEMMA NothingToTell ==
  ASSUME NEW r, NEW q, StillOpen(r) = StillOpen(q), r.emitted = q.emitted
  PROVE  Signals(r, q)
BY DEF Signals, ToldIds

LEMMA OneToTell ==
  ASSUME NEW r, NEW q, NEW p \in StillOpen(q), NEW reason,
         StillOpen(r) = StillOpen(q) \ {p},
         r.emitted = q.emitted \cup {<<q.heap[p].id, reason>>}
  PROVE  Signals(r, q)
<1>1. StillOpen(q) \ StillOpen(r) = {p}  OBVIOUS
<1>2. ToldIds(r) = ToldIds(q) \cup {q.heap[p].id}
  <2>1. <<q.heap[p].id, reason>>[1] = q.heap[p].id  OBVIOUS
  <2> QED  BY <2>1 DEF ToldIds
<1> QED  BY <1>1, <1>2 DEF Signals

LEMMA MovedOrderly ==
  ASSUME NEW q, Good(q), NEW r, Good(r), Moved(r, q)
  PROVE  Orderly(r, q)
<1>1. StillOpen(r) = StillOpen(q)  BY DEF Moved, StillOpen
<1>2. r.emitted = q.emitted  BY DEF Moved
<1>3. Queued(r) = Queued(q)  BY DEF Moved, OpenIn, Queued
<1>4. Releases(r, q)  BY <1>3 DEF Moved, Releases
<1> QED  BY <1>1, <1>2, <1>4, MovedKept, NothingToTell DEF Orderly

LEMMA AlikeOrderly ==
  ASSUME NEW q, Good(q), NEW p \in Ptr, q.heap[p] \in Note,
         NEW n \in Note, Alike(n, q.heap[p])
  PROVE  Orderly([q EXCEPT !.heap[p] = n], q)
<1> DEFINE r == [q EXCEPT !.heap[p] = n]
<1>1. Good(r) /\ SameQueues(r, q)  BY CellChanged
<1>2. /\ r.nextId = q.nextId /\ r.emitted = q.emitted
      /\ r.heap[p] = n /\ \A o \in Ptr \ {p} : r.heap[o] = q.heap[o]
  BY GoodFacts DEF Store
<1> HIDE DEF r
<1>3. /\ Queued(r) = Queued(q) /\ OpenIn(r) = OpenIn(q)
      /\ Queued(q) \subseteq Ptr
  BY <1>1, GoodFacts DEF SameQueues, Queued, OpenIn
<1>4. \A o \in Ptr : o = p \/ r.heap[o] = q.heap[o]  BY <1>2
<1>5. Kept(r, q)
  <2>1. ASSUME NEW o \in Queued(r)
        PROVE  r.heap[o] = q.heap[o] \/ Alike(r.heap[o], q.heap[o])
    BY <1>2, <1>3, <1>4
  <2>2. ASSUME NEW o \in Ptr \ Queued(q), q.heap[o] = Freed
        PROVE  r.heap[o] = Freed
    BY <1>4, <2>2, QueuesAssumption
  <2> QED  BY <1>1, <1>2, <1>3, <2>1, <2>2 DEF Kept, Alike, SameQueues
<1>6. StillOpen(r) = StillOpen(q)
  BY <1>2, <1>3, <1>4 DEF StillOpen, OpenIn, Queued, Alike
<1>7. Releases(r, q)  BY <1>2, <1>3, <1>4 DEF Releases
<1> QED
  BY <1>1, <1>2, <1>5, <1>6, <1>7, NothingToTell DEF Orderly, r

LEMMA SignalClosedOrderly ==
  ASSUME NEW q, Good(q), NEW p \in Queued(q), NEW reason \in Reasons
  PROVE  Orderly(SignalClosed(q, p, reason), q)
<1> DEFINE r == SignalClosed(q, p, reason)
           n == [q.heap[p] EXCEPT !.valid = FALSE]
<1>0. /\ q \in Store /\ p \in Ptr /\ q.heap[p] \in Note
      /\ Queued(q) \subseteq Ptr
  BY GoodFacts
<1>1. CASE ~q.heap[p].valid
  <2>1. r = q  BY <1>1 DEF SignalClosed
  <2>2. Moved(q, q)  BY DEF Moved
  <2> QED  BY <2>1, <2>2, MovedOrderly
<1>2. CASE q.heap[p].valid
  <2>1. r = [q EXCEPT !.heap[p].valid = FALSE,
                      !.emitted = q.emitted \cup {<<q.heap[p].id, reason>>}]
    BY <1>2 DEF SignalClosed
  <2>2. /\ SameQueues(r, q) /\ r.nextId = q.nextId
        /\ r.emitted = q.emitted \cup {<<q.heap[p].id, reason>>}
        /\ r.heap = [q.heap EXCEPT ![p] = n]
    BY <1>0, <2>1 DEF Store, SameQueues
  <2>3. Good(r)  BY <1>0, SignalClosedKeeps
  <2> HIDE DEF r
  <2>4. /\ r.heap[p] = n /\ \A o \in Ptr \ {p} : r.heap[o] = q.heap[o]
    BY <1>0, <2>2 DEF Store
  <2>5. /\ n.kind = q.heap[p].kind /\ n.id = q.heap[p].id
        /\ n.stamp = q.heap[p].stamp /\ n.refs = q.heap[p].refs
        /\ n.locked = q.heap[p].locked
        /\ n.redisplayed = q.heap[p].redisplayed /\ ~n.valid
    BY <1>0 DEF Note
  <2> HIDE DEF n
  <2>6. /\ Queued(r) = Queued(q) /\ OpenIn(r) = OpenIn(q)
        /\ ToSet(r.history) = ToSet(q.history)
    BY <2>2 DEF SameQueues, Queued, OpenIn
  <2>7. Kept(r, q)
    <3>1. \A o \in Ptr : o = p \/ r.heap[o] = q.heap[o]  BY <2>4
    <3> QED  BY <1>0, <1>2, <2>2, <2>4, <2>5, <2>6, <3>1 DEF Kept, SameQueues
  <2>8. ASSUME Told(q)  PROVE  Signals(r, q)
    <3>1. p \in StillOpen(q)
      BY <1>2, <2>8 DEF Told, StillOpen, OpenIn, Queued
    <3>2. OpenIn(q) \subseteq Ptr  BY <1>0 DEF OpenIn, Queued
    <3>3. StillOpen(r) = StillOpen(q) \ {p}
      BY <2>4, <2>5, <2>6, <3>2 DEF StillOpen
    <3> QED  BY <2>2, <3>1, <3>3, OneToTell
  <2>9. Releases(r, q)  BY <1>0, <2>4, <2>6 DEF Releases
  <2> QED  BY <2>3, <2>7, <2>8, <2>9 DEF Orderly, r
<1> QED  BY <1>1, <1>2

(* the common end of the two that follow: history shrinks *)
LEMMA HistoryShrinks ==
  ASSUME NEW q, Good(q), NEW r, Good(r),
         r.displayed = q.displayed, r.waiting = q.waiting,
         r.nextId = q.nextId, r.emitted = q.emitted,
         ToSet(r.history) \subseteq ToSet(q.history),
         Len(r.history) <= Len(q.history),
         \A p \in Ptr : p \notin ToSet(q.history) \/ p \in ToSet(r.history)
                          => r.heap[p] = q.heap[p],
         \A p \in ToSet(q.history) \ ToSet(r.history) :
           r.heap[p] = Dropped(q.heap[p])
  PROVE  Orderly(r, q)
<1>0. /\ Queued(q) \subseteq Ptr
      /\ ToSet(q.displayed) \cap ToSet(q.history) = {}
      /\ ToSet(q.waiting) \cap ToSet(q.history) = {}
      /\ Len(q.history) \in Nat /\ Len(r.history) \in Nat
      /\ HistoryLength \in Nat
  BY GoodFacts, LenProperties, QueuesAssumption
<1>1. /\ OpenIn(r) = OpenIn(q) /\ Queued(r) \subseteq Queued(q)
      /\ \A p \in Queued(r) : r.heap[p] = q.heap[p]
      /\ \A p \in Ptr \ Queued(q) : r.heap[p] = q.heap[p]
      /\ \A p \in Queued(q) \ Queued(r) : r.heap[p] = Dropped(q.heap[p])
  BY <1>0 DEF OpenIn, Queued
<1>2. HistoryLength > 0 /\ Len(q.history) <= HistoryLength
        => Len(r.history) <= HistoryLength
  BY <1>0
<1>3. Kept(r, q)
  BY <1>0, <1>1, <1>2 DEF Kept
<1>4. Releases(r, q)
  <2>1. \A p \in Queued(q) \ Queued(r) : q.heap[p] \in Note
    BY GoodFacts
  <2>2. \A p \in Queued(q) \ Queued(r) : LetGo(r, q, p)
    BY <1>1, <2>1, DroppedLetsGo
  <2> QED  BY <1>1, <2>2 DEF Releases
<1>5. StillOpen(r) = StillOpen(q)
  BY <1>1 DEF StillOpen, OpenIn, Queued
<1> QED  BY <1>3, <1>4, <1>5, NothingToTell DEF Orderly

LEMMA HistoryRemoveOrderly ==
  ASSUME NEW q, Good(q), NEW id
  PROVE  Orderly(HistoryRemoveById(q, id), q)
<1> DEFINE at == FirstWithId(q, q.history, id)
           p  == q.history[at]
           r  == HistoryRemoveById(q, id)
           h  == RemoveAt(q.history, at)
<1>0. q \in Store /\ q.history \in Seq(Ptr) /\ IsInjective(q.history)
  BY GoodFacts
<1>1. CASE at = 0
  <2>1. r = q  BY <1>1 DEF HistoryRemoveById
  <2>2. Moved(q, q)  BY DEF Moved
  <2> QED  BY <2>1, <2>2, MovedOrderly
<1>2. CASE at # 0
  <2>1. at \in 1..Len(q.history) /\ p \in ToSet(q.history)
    BY <1>0, <1>2, FoundHasId
  <2>2. r = [Unref(q, p) EXCEPT !.history = RemoveAt(Unref(q, p).history, at)]
    BY <1>2 DEF HistoryRemoveById
  <2> HIDE DEF at, p
  <2>3. p \in Ptr  BY <1>0, <2>1, Elements
  <2>4. /\ Unref(q, p).history = q.history
        /\ r = [Unref(q, p) EXCEPT !.history = h]
    BY <1>0, <2>2, <2>3, UnrefEffect DEF SameQueues
  <2>5. /\ r.displayed = q.displayed /\ r.waiting = q.waiting
        /\ r.history = h /\ r.nextId = q.nextId /\ r.emitted = q.emitted
        /\ r.heap = [q.heap EXCEPT ![p] = Dropped(q.heap[p])]
    BY <1>0, <2>4 DEF Unref, Dropped, Store
  <2>6. Good(r)  BY HistoryRemoveByIdKeeps
  <2> HIDE DEF r, h
  <2>7. /\ ToSet(h) = ToSet(q.history) \ {p}
        /\ Len(h) = Len(q.history) - 1 /\ Len(q.history) \in Nat
    BY <1>0, <2>1, Removed, LenProperties DEF h, p
  <2>8. Len(h) <= Len(q.history)  BY <2>7
  <2>9. /\ r.heap[p] = Dropped(q.heap[p])
        /\ \A o \in Ptr \ {p} : r.heap[o] = q.heap[o]
    BY <1>0, <2>3, <2>5 DEF Store
  <2> QED  BY <2>1, <2>5, <2>6, <2>7, <2>8, <2>9, HistoryShrinks DEF r
<1> QED  BY <1>1, <1>2

LEMMA HistoryClearOrderly ==
  ASSUME NEW q, Good(q)
  PROVE  Orderly(HistoryClear(q), q)
<1> DEFINE r == HistoryClear(q)
<1>0. q \in Store /\ q.history \in Seq(Ptr) /\ Len(q.history) \in Nat
  BY GoodFacts, LenProperties
<1>1. Good(r)  BY HistoryClearKeeps
<1>2. /\ r.displayed = q.displayed /\ r.waiting = q.waiting
      /\ r.history = <<>> /\ r.nextId = q.nextId /\ r.emitted = q.emitted
      /\ r.heap = [p \in Ptr |-> IF p \in ToSet(q.history)
                                 THEN Unref(q, p).heap[p] ELSE q.heap[p]]
  BY <1>0 DEF HistoryClear, Store
<1> HIDE DEF r
<1>3. ToSet(r.history) = {} /\ Len(r.history) = 0
  BY <1>2, NoElements, EmptySeq
<1>4. \A p \in Ptr : Unref(q, p).heap[p] = Dropped(q.heap[p])
  BY <1>0, UnrefEffect DEF Store
<1>5. ToSet(q.history) \subseteq Ptr  BY <1>0, Elements
<1> QED  BY <1>0, <1>1, <1>2, <1>3, <1>4, <1>5, HistoryShrinks DEF r

LEMMA RedisplayOrderly ==
  ASSUME NEW q, Good(q), NEW at \in 1..Len(q.history)
  PROVE  Orderly(Redisplay(q, at), q)
<1> DEFINE p  == q.history[at]
           n  == [q.heap[p] EXCEPT !.redisplayed = TRUE,
                                   !.timed = @ /\ ~StickyHistory]
           h  == RemoveAt(q.history, at)
           q1 == [q EXCEPT !.history = h, !.heap[p] = n]
           w  == InsertSorted(q1, q.waiting, p)
           r  == Redisplay(q, at)
<1>0. /\ q \in Store /\ q.history \in Seq(Ptr) /\ IsInjective(q.history)
      /\ q.waiting \in Seq(Ptr) /\ IsInjective(q.waiting)
      /\ ToSet(q.displayed) \cap ToSet(q.history) = {}
      /\ ToSet(q.waiting) \cap ToSet(q.history) = {}
      /\ Queued(q) \subseteq Ptr
      /\ HistoryLength \in Nat
  BY GoodFacts, QueuesAssumption
<1>1. p \in ToSet(q.history)  BY <1>0, Elements
<1>2. p \in Ptr /\ p \in Queued(q) /\ q.heap[p] \in Note
  BY <1>1, GoodFacts DEF Queued
<1>3. r = [q1 EXCEPT !.waiting = w]
  <2>1. q1 = [q EXCEPT !.history = RemoveAt(q.history, at),
                       !.heap[p].redisplayed = TRUE,
                       !.heap[p].timed = @ /\ ~StickyHistory]
    BY <1>0, <1>2 DEF Store, Note
  <2> HIDE DEF n, h
  <2>2. q1.waiting = q.waiting  BY <1>0 DEF Store
  <2> HIDE DEF q1
  <2> QED  BY <2>1, <2>2 DEF Redisplay
<1>4. /\ r.displayed = q.displayed /\ r.waiting = w /\ r.history = h
      /\ r.nextId = q.nextId /\ r.emitted = q.emitted
      /\ r.heap = [q.heap EXCEPT ![p] = n]
  BY <1>0, <1>3 DEF Store
<1>5. Good(r)  BY RedisplayKeeps
<1> HIDE DEF q1, r
<1>6. /\ ToSet(h) = ToSet(q.history) \ {p} /\ Len(h) = Len(q.history) - 1
  BY <1>0, Removed
<1>7. n.kind = q.heap[p].kind /\ n.id = q.heap[p].id
      /\ n.stamp = q.heap[p].stamp /\ n.refs = q.heap[p].refs
      /\ n.locked = q.heap[p].locked /\ n.valid = q.heap[p].valid
  BY <1>2 DEF Note
<1> HIDE DEF n, h
<1>8. ToSet(w) = ToSet(q.waiting) \cup {p}
  <2>1. p \notin ToSet(q.waiting)  BY <1>0, <1>1
  <2> HIDE DEF p
  <2> QED  BY <1>0, <1>2, <2>1, InsertSortedProperties
<1> HIDE DEF w, p
<1>9. /\ r.heap[p] = n /\ \A o \in Ptr \ {p} : r.heap[o] = q.heap[o]
  BY <1>0, <1>2, <1>4 DEF Store
<1>10. Queued(r) = Queued(q)
  BY <1>1, <1>4, <1>6, <1>8 DEF Queued
<1>11. HistoryLength > 0 /\ Len(q.history) <= HistoryLength
         => Len(r.history) <= HistoryLength
  <2>1. Len(q.history) \in Nat  BY <1>0, LenProperties
  <2> QED  BY <1>0, <1>4, <1>6, <2>1
<1>12. Kept(r, q)
  <2>1. \A o \in Ptr : o = p \/ r.heap[o] = q.heap[o]  BY <1>9
  <2>2. ToSet(r.history) = ToSet(q.history) \ {p}  BY <1>4, <1>6
  <2> QED
    BY <1>0, <1>1, <1>2, <1>4, <1>7, <1>9, <1>10, <1>11, <2>1, <2>2 DEF Kept
<1>13. ASSUME Told(q)  PROVE  Signals(r, q)
  <2>1. ~q.heap[p].valid  BY <1>1, <1>13 DEF Told
  <2>2. OpenIn(r) = OpenIn(q) \cup {p} /\ OpenIn(q) \subseteq Ptr
    BY <1>0, <1>4, <1>8 DEF OpenIn, Queued
  <2>3. StillOpen(r) = StillOpen(q)
    BY <1>7, <1>9, <2>1, <2>2 DEF StillOpen
  <2> QED  BY <1>4, <2>3, NothingToTell
<1>14. Releases(r, q)  BY <1>2, <1>9, <1>10 DEF Releases
<1> QED  BY <1>5, <1>12, <1>13, <1>14 DEF Orderly, r

LEMMA CloseIdOrderly ==
  ASSUME NEW q, Good(q), NEW id, NEW reason \in Reasons
  PROVE  Orderly(CloseId(q, id, reason), q)
<1> DEFINE d == FirstWithId(q, q.displayed, id)
           w == FirstWithId(q, q.waiting, id)
           t == IF w # 0 THEN q.waiting[w] ELSE q.displayed[d]
           n == AfterClose(q.heap[t])
           r == CloseId(q, id, reason)
<1>0. /\ q \in Store
      /\ q.displayed \in Seq(Ptr) /\ IsInjective(q.displayed)
      /\ q.waiting \in Seq(Ptr) /\ IsInjective(q.waiting)
      /\ ToSet(q.displayed) \cap ToSet(q.waiting) = {}
      /\ ToSet(q.displayed) \cap ToSet(q.history) = {}
      /\ ToSet(q.waiting) \cap ToSet(q.history) = {}
      /\ Queued(q) \subseteq Ptr
      /\ \A p \in Queued(q) : p \in Ptr /\ q.heap[p] \in Note
  BY GoodFacts
<1>1. CASE d = 0 /\ w = 0
  <2>1. r = q  BY <1>1, CloseIdEffect
  <2>2. Moved(q, q)  BY DEF Moved
  <2> QED  BY <2>1, <2>2, MovedOrderly
<1>2. CASE d # 0 \/ w # 0
  <2>1. /\ r.displayed = Without(q.displayed, d)
        /\ r.waiting = Without(q.waiting, w)
        /\ Closes(r, q, t, reason)
    BY <1>2, CloseIdEffect
  <2>2. Good(r)  BY CloseIdKeeps
  <2>3. /\ PlaceIn(d, q.displayed) /\ PlaceIn(w, q.waiting)
        /\ d # 0 => /\ q.heap[q.displayed[d]].id = id
                    /\ q.displayed[d] \in ToSet(q.displayed)
                    /\ d \in 1..Len(q.displayed)
        /\ w # 0 => /\ q.heap[q.waiting[w]].id = id
                    /\ q.waiting[w] \in ToSet(q.waiting)
                    /\ w \in 1..Len(q.waiting)
    <3>1. PlaceIn(d, q.displayed) /\ PlaceIn(w, q.waiting)
      BY <1>0, FirstWithIdPlace
    <3>2. q.displayed \in Seq(Ptr) /\ q.waiting \in Seq(Ptr)  BY <1>0
    <3>3. ASSUME d # 0
          PROVE  /\ q.heap[q.displayed[d]].id = id
                 /\ q.displayed[d] \in ToSet(q.displayed)
                 /\ d \in 1..Len(q.displayed)
      BY <3>2, <3>3, FoundHasId
    <3>4. ASSUME w # 0
          PROVE  /\ q.heap[q.waiting[w]].id = id
                 /\ q.waiting[w] \in ToSet(q.waiting)
                 /\ w \in 1..Len(q.waiting)
      BY <3>2, <3>4, FoundHasId
    <3> QED  BY <3>1, <3>3, <3>4
  <2> HIDE DEF d, w, r
  <2>4. /\ ToSet(r.displayed) = IF d = 0 THEN ToSet(q.displayed)
                                ELSE ToSet(q.displayed) \ {q.displayed[d]}
        /\ ToSet(r.waiting) = IF w = 0 THEN ToSet(q.waiting)
                              ELSE ToSet(q.waiting) \ {q.waiting[w]}
    <3>1. d # 0 => ToSet(r.displayed) = ToSet(q.displayed) \ {q.displayed[d]}
      BY <1>0, <2>1, <2>3, Removed DEF Without
    <3>2. w # 0 => ToSet(r.waiting) = ToSet(q.waiting) \ {q.waiting[w]}
      BY <1>0, <2>1, <2>3, Removed DEF Without
    <3> QED  BY <2>1, <3>1, <3>2 DEF Without
  <2>5. /\ t \in OpenIn(q) /\ t \notin OpenIn(r)
        /\ OpenIn(r) \subseteq OpenIn(q)
        /\ Pushed(r, q, t, n) /\ r.nextId = q.nextId
        /\ r.emitted = IF q.heap[t].redisplayed \/ ~q.heap[t].valid
                       THEN q.emitted
                       ELSE q.emitted \cup {<<q.heap[t].id, reason>>}
    BY <2>1, <2>4 DEF Closes, OpenIn
  <2>6. d # 0 /\ w # 0 => q.heap[q.displayed[d]].id = q.heap[q.waiting[w]].id
    BY <2>3
  <2>7. d # 0 /\ w # 0 => q.displayed[d] # q.waiting[w]
    BY <1>0, <2>3
  <2>8. (d = 0 \/ w = 0) => OpenIn(r) = OpenIn(q) \ {t}
    BY <1>0, <1>2, <2>3, <2>4 DEF OpenIn
  <2>9. d # 0 /\ w # 0 => ~Unique(q)
    BY <2>3, <2>6, <2>7 DEF Unique, Queued
  <2> HIDE DEF t
  <2>10. /\ t \in Ptr /\ q.heap[t] \in Note /\ t \in Queued(q)
         /\ t \notin ToSet(q.history)
    BY <1>0, <2>5 DEF OpenIn, Queued
  <2>11. /\ n \in Note /\ n.kind = q.heap[t].kind /\ n.id = q.heap[t].id
         /\ n.stamp = q.heap[t].stamp /\ n.refs = q.heap[t].refs
         /\ n.locked = q.heap[t].locked
         /\ n.redisplayed = q.heap[t].redisplayed
         /\ n.redisplayed \/ ~n.valid
         /\ n.valid => q.heap[t].valid
    BY <2>10 DEF AfterClose, Note
  <2> HIDE DEF n
  <2>12. /\ ToSet(r.history) \subseteq ToSet(q.history) \cup {t}
         /\ HistoryLength > 0 /\ Len(q.history) <= HistoryLength
              => Len(r.history) <= HistoryLength
         /\ r.heap[t] = IF t \in ToSet(r.history) THEN n ELSE Dropped(n)
         /\ \A p \in Ptr \ {t} :
              r.heap[p] = IF p \in ToSet(q.history) \ ToSet(r.history)
                          THEN Dropped(q.heap[p]) ELSE q.heap[p]
    BY <2>5, <2>10, <2>11, PushedFacts
  <2>13. /\ Queued(r) \subseteq Queued(q)
         /\ \A p \in Queued(r) : r.heap[p] = IF p = t THEN n ELSE q.heap[p]
    <3>1. Queued(r) \subseteq Queued(q)
      BY <2>5, <2>10, <2>12 DEF Queued, OpenIn
    <3> QED  BY <1>0, <2>5, <2>12, <3>1 DEF Queued, OpenIn
  <2>14. Kept(r, q)
    <3>1. \A p \in Ptr \ Queued(q) : r.heap[p] = q.heap[p]
      BY <2>10, <2>12 DEF Queued
    <3>2. \A p \in ToSet(r.history) : p = t \/ p \in ToSet(q.history)
      BY <2>12
    <3> QED
      BY <2>5, <2>10, <2>11, <2>12, <2>13, <3>1, <3>2 DEF Kept
  <2>15. ASSUME Unique(q)
         PROVE  Releases(r, q)
    <3>1. \A p \in Queued(q) \ Queued(r) :
            r.heap[p] = IF p = t THEN Dropped(n) ELSE Dropped(q.heap[p])
      BY <1>0, <2>8, <2>9, <2>12, <2>15 DEF Queued, OpenIn
    <3>2. \A p \in Queued(q) \ Queued(r) : LetGo(r, q, p)
      BY <1>0, <2>11, <3>1, DroppedLetsGo
    <3>3. \A p \in Ptr \ Queued(q) : r.heap[p] = q.heap[p]
      BY <2>10, <2>12 DEF Queued
    <3> QED  BY <3>2, <3>3 DEF Releases
  <2>16. ASSUME Told(q), Unique(q)
         PROVE  Signals(r, q)
    <3>1. OpenIn(r) = OpenIn(q) \ {t}  BY <2>8, <2>9, <2>16
    <3>2. \A p \in OpenIn(r) : r.heap[p] = q.heap[p]
      BY <1>0, <2>12, <3>1 DEF OpenIn, Queued
    <3>3. StillOpen(r) = StillOpen(q) \ {t}
      BY <3>1, <3>2 DEF StillOpen
    <3>4. CASE q.heap[t].redisplayed \/ ~q.heap[t].valid
      <4>1. ~q.heap[t].valid  BY <2>10, <2>16, <3>4 DEF Told
      <4>2. StillOpen(r) = StillOpen(q)  BY <3>3, <4>1 DEF StillOpen
      <4> QED  BY <2>5, <3>4, <4>2, NothingToTell
    <3>5. CASE ~q.heap[t].redisplayed /\ q.heap[t].valid
      <4>1. t \in StillOpen(q)  BY <2>5, <3>5 DEF StillOpen
      <4> QED  BY <2>5, <3>3, <3>5, <4>1, OneToTell
    <3> QED  BY <3>4, <3>5
  <2> QED  BY <2>2, <2>14, <2>15, <2>16 DEF Orderly, r
<1> QED  BY <1>1, <1>2

---------------------------------------------------------------------------
(* To show that the handlers never lead out of S it is enough that orderly *)
(* changes do not.                                                         *)
LEMMA ClosedByOrderly ==
  ASSUME NEW S, \A q \in S : Good(q),
         \A q \in S : \A r : Orderly(r, q) => r \in S
  PROVE  Closed(S)
<1>1. ASSUME NEW q \in S, NEW p \in Ptr, NEW n \in Note,
             q.heap[p] \in Note, Alike(n, q.heap[p])
      PROVE  [q EXCEPT !.heap[p] = n] \in S
  BY <1>1, AlikeOrderly
<1>2. ASSUME NEW q \in S, NEW id \in 0..MaxId, NEW reason \in Reasons
      PROVE  CloseId(q, id, reason) \in S /\ HistoryRemoveById(q, id) \in S
  BY CloseIdOrderly, HistoryRemoveOrderly
<1>3. ASSUME NEW q \in S
      PROVE  \A at \in 1..Len(q.displayed) : PushedBack(q, at) \in S
  BY PushedBackMoves, MovedOrderly
<1>4. ASSUME NEW q \in S
      PROVE  \A at \in 1..Len(q.waiting) : Shown(q, at) \in S
  BY ShownMoves, MovedOrderly
<1>5. ASSUME NEW q \in S, q.displayed # <<>>
      PROVE  Trimmed(q) \in S
  BY <1>5, TrimmedMoves, MovedOrderly
<1>6. ASSUME NEW q \in S, q.displayed # <<>>, q.waiting # <<>>
      PROVE  Swapped(q) \in S
  BY <1>6, SwappedMoves, MovedOrderly
<1>7. ASSUME NEW q \in S
      PROVE  /\ \A at \in 1..Len(q.history) : Redisplay(q, at) \in S
             /\ HistoryClear(q) \in S
             /\ \A p \in Queued(q) : SignalClosed(q, p, SIG) \in S
  <2>1. SIG \in Reasons  BY DEF Reasons
  <2> QED
    BY <2>1, RedisplayOrderly, HistoryClearOrderly, SignalClosedOrderly
<1>8. ClosedUnderUpdate(S)
  <2>1. \A q \in S, p \in Ptr, n \in Note :
          q.heap[p] \in Note /\ Alike(n, q.heap[p])
            => [q EXCEPT !.heap[p] = n] \in S
    BY <1>1
  <2>2. /\ \A q \in S, id \in 0..MaxId, reason \in Reasons :
             CloseId(q, id, reason) \in S
        /\ \A q \in S, id \in 0..MaxId : HistoryRemoveById(q, id) \in S
    BY <1>2 DEF Reasons
  <2>3. /\ \A q \in S : \A at \in 1..Len(q.displayed) : PushedBack(q, at) \in S
        /\ \A q \in S : \A at \in 1..Len(q.waiting) : Shown(q, at) \in S
        /\ \A q \in S : q.displayed # <<>> => Trimmed(q) \in S
        /\ \A q \in S : q.displayed # <<>> /\ q.waiting # <<>> => Swapped(q) \in S
    BY <1>3, <1>4, <1>5, <1>6
  <2> QED  BY <2>1, <2>2, <2>3 DEF ClosedUnderUpdate
<1> QED  BY <1>1, <1>7, <1>8 DEF Closed, ClosedCalmly

=============================================================================
