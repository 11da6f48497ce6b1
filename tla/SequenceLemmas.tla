-------------------------- MODULE SequenceLemmas --------------------------
(***************************************************************************)
(* What taking an element out of a sequence, putting one in and searching  *)
(* one do to its elements, for the queues, the outputs and the themes.     *)
(***************************************************************************)
EXTENDS Integers, Sequences, SequencesExt, SequenceTheorems,
        WellFoundedInduction, TLAPS

(* t is s with e put in at place i *)
Widened(s, t, i, e) ==
  /\ Len(t) = Len(s) + 1
  /\ \A j \in 1..(Len(s) + 1) :
       t[j] = IF j < i THEN s[j] ELSE IF j = i THEN e ELSE s[j - 1]

(* t is s without its element at place i *)
Narrowed(s, t, i) ==
  /\ Len(t) = Len(s) - 1
  /\ \A j \in 1..(Len(s) - 1) : t[j] = IF j < i THEN s[j] ELSE s[j + 1]

(* SelectInSeq and g_queue_insert_sorted look for a smallest index. *)
LEMMA MinExists ==
  ASSUME NEW I \in SUBSET Nat, I # {}
  PROVE  Min(I) \in I /\ \A i \in I : Min(I) <= i
<1>1. \E m \in I : \A i \in I : ~ (<<i, m>> \in OpToRel(<, Nat))
  BY NatLessThanWellFounded, WFMin
<1>2. PICK m \in I : \A i \in I : ~ (<<i, m>> \in OpToRel(<, Nat))
  BY <1>1
<1>3. ASSUME NEW i \in I PROVE m <= i
  <2>1. i \in Nat /\ m \in Nat  OBVIOUS
  <2>2. i < m => <<i, m>> \in OpToRel(<, Nat)  BY <2>1, Zenon DEF OpToRel
  <2>3. ~ (i < m)  BY <2>2, <1>2
  <2> QED  BY <2>1, <2>3
<1> QED  BY <1>3 DEF Min

(* InsertAt adds exactly one element. *)
LEMMA InsertAtProperties ==
  ASSUME NEW S, NEW s \in Seq(S), NEW e \in S, NEW i \in 1..(Len(s) + 1)
  PROVE  InsertAt(s, i, e) \in Seq(S) /\ Widened(s, InsertAt(s, i, e), i, e)
<1> DEFINE front == SubSeq(s, 1, i - 1)
           back  == SubSeq(s, i, Len(s))
           mid   == front \o <<e>>
<1>0. Len(s) \in Nat /\ i \in Nat  OBVIOUS
<1>1. /\ front \in Seq(S) /\ Len(front) = i - 1
      /\ \A j \in 1..(i - 1) : front[j] = s[j]
  <2>1. \A j \in 1..(i - 1) : s[j] \in S  BY <1>0, ElementOfSeq
  <2> QED  BY <2>1, <1>0, SubSeqProperties
<1>2. /\ back \in Seq(S) /\ Len(back) = Len(s) - i + 1
      /\ \A j \in 1..(Len(s) - i + 1) : back[j] = s[i + j - 1]
  <2>1. \A j \in i..Len(s) : s[j] \in S  BY <1>0, ElementOfSeq
  <2> QED  BY <2>1, <1>0, SubSeqProperties
<1>3. <<e>> \in Seq(S) /\ Len(<<e>>) = 1 /\ <<e>>[1] = e  OBVIOUS
<1> HIDE DEF front, back
<1>4. /\ mid \in Seq(S) /\ Len(mid) = i
      /\ \A j \in 1..i : mid[j] = IF j < i THEN s[j] ELSE e
  <2>1. /\ mid \in Seq(S) /\ Len(mid) = Len(front) + Len(<<e>>)
        /\ \A j \in 1..(Len(front) + Len(<<e>>)) :
             mid[j] = IF j <= Len(front) THEN front[j] ELSE <<e>>[j - Len(front)]
    BY <1>1, <1>3, ConcatProperties
  <2>2. Len(front) + Len(<<e>>) = i  BY <1>1, <1>3, <1>0
  <2>3. ASSUME NEW j \in 1..i PROVE mid[j] = IF j < i THEN s[j] ELSE e
    <3>1. mid[j] = IF j <= i - 1 THEN front[j] ELSE <<e>>[j - (i - 1)]
      BY <2>1, <2>2, <1>1
    <3>2. CASE j < i  BY <3>1, <3>2, <1>1, <1>0
    <3>3. CASE j = i
      <4>1. j - (i - 1) = 1 /\ ~ (j <= i - 1) /\ ~ (j < i)  BY <3>3, <1>0
      <4>2. mid[j] = <<e>>[1]  BY <3>1, <4>1
      <4> QED  BY <4>1, <4>2, <1>3
    <3>4. j < i \/ j = i  BY <1>0
    <3> QED  BY <3>2, <3>3, <3>4, Zenon
  <2> QED  BY <2>1, <2>2, <2>3
<1> HIDE DEF mid
<1>5. /\ mid \o back \in Seq(S) /\ Len(mid \o back) = Len(mid) + Len(back)
      /\ \A j \in 1..(Len(mid) + Len(back)) :
           (mid \o back)[j] = IF j <= Len(mid) THEN mid[j] ELSE back[j - Len(mid)]
  BY <1>4, <1>2, ConcatProperties
<1>6. InsertAt(s, i, e) = mid \o back
  BY DEF InsertAt, mid, front, back
<1>7. ASSUME NEW j \in 1..(Len(s) + 1)
      PROVE  (mid \o back)[j] =
               IF j < i THEN s[j] ELSE IF j = i THEN e ELSE s[j - 1]
  <2>1. CASE j <= i  BY <2>1, <1>4, <1>5, <1>2, <1>0
  <2>2. CASE j > i
    <3>1. (mid \o back)[j] = back[j - i]  BY <2>2, <1>4, <1>5, <1>2, <1>0
    <3>2. j - i \in 1..(Len(s) - i + 1)  BY <2>2, <1>0
    <3>3. back[j - i] = s[i + (j - i) - 1]  BY <3>2, <1>2
    <3> QED  BY <3>1, <3>3, <2>2, <1>0
  <2>3. j <= i \/ j > i  BY <1>0
  <2> QED  BY <2>1, <2>2, <2>3, Zenon
<1>8. Len(mid) + Len(back) = Len(s) + 1  BY <1>4, <1>2, <1>0
<1> QED  BY <1>5, <1>6, <1>7, <1>8 DEF Widened

(* RemoveAt takes exactly one element away. *)
LEMMA RemoveAtProperties ==
  ASSUME NEW S, NEW s \in Seq(S), NEW i \in 1..Len(s)
  PROVE  RemoveAt(s, i) \in Seq(S) /\ Narrowed(s, RemoveAt(s, i), i)
<1> DEFINE front == SubSeq(s, 1, i - 1)
           back  == SubSeq(s, i + 1, Len(s))
<1>0. Len(s) \in Nat /\ i \in Nat  OBVIOUS
<1>1. /\ front \in Seq(S) /\ Len(front) = i - 1
      /\ \A j \in 1..(i - 1) : front[j] = s[j]
  <2>1. \A j \in 1..(i - 1) : s[j] \in S  BY <1>0, ElementOfSeq
  <2> QED  BY <2>1, <1>0, SubSeqProperties
<1>2. /\ back \in Seq(S) /\ Len(back) = Len(s) - i
      /\ \A j \in 1..(Len(s) - i) : back[j] = s[i + j]
  <2>1. \A j \in (i + 1)..Len(s) : s[j] \in S  BY <1>0, ElementOfSeq
  <2> QED  BY <2>1, <1>0, SubSeqProperties
<1> HIDE DEF front, back
<1>3. /\ front \o back \in Seq(S) /\ Len(front \o back) = Len(front) + Len(back)
      /\ \A j \in 1..(Len(front) + Len(back)) : (front \o back)[j] =
           IF j <= Len(front) THEN front[j] ELSE back[j - Len(front)]
  BY <1>1, <1>2, ConcatProperties
<1>4. RemoveAt(s, i) = front \o back
  BY DEF RemoveAt, front, back
<1>5. ASSUME NEW j \in 1..(Len(s) - 1)
      PROVE  (front \o back)[j] = IF j < i THEN s[j] ELSE s[j + 1]
  <2>1. CASE j < i  BY <2>1, <1>1, <1>2, <1>3, <1>0
  <2>2. CASE j >= i
    <3>0. /\ j \in 1..(Len(front) + Len(back))
          /\ ~ (j <= Len(front)) /\ Len(front) = i - 1
      BY <2>2, <1>1, <1>2, <1>0
    <3>1. (front \o back)[j] = back[j - (i - 1)]  BY <3>0, <1>3
    <3>2. j - (i - 1) \in 1..(Len(s) - i)  BY <2>2, <1>0
    <3>3. back[j - (i - 1)] = s[i + (j - (i - 1))]  BY <3>2, <1>2
    <3>4. i + (j - (i - 1)) = j + 1 /\ ~ (j < i)  BY <2>2, <1>0
    <3> QED  BY <3>1, <3>3, <3>4
  <2>3. j < i \/ j >= i  BY <1>0
  <2> QED  BY <2>1, <2>2, <2>3, Zenon
<1>6. Len(front) + Len(back) = Len(s) - 1  BY <1>1, <1>2, <1>0
<1> QED  BY <1>3, <1>4, <1>5, <1>6 DEF Narrowed

---------------------------------------------------------------------------
(* ToSet and IsInjective by index *)
LEMMA Elements ==
  ASSUME NEW S, NEW s \in Seq(S)
  PROVE  /\ Len(s) \in Nat
         /\ DOMAIN s = 1..Len(s)
         /\ ToSet(s) = { s[j] : j \in 1..Len(s) }
         /\ ToSet(s) \subseteq S
         /\ IsInjective(s) <=> \A a, b \in 1..Len(s) : s[a] = s[b] => a = b
<1>1. Len(s) \in Nat /\ DOMAIN s = 1..Len(s)  BY LenProperties
<1>2. ToSet(s) = { s[j] : j \in 1..Len(s) }  BY <1>1, Zenon DEF ToSet
<1>3. \A j \in 1..Len(s) : s[j] \in S  BY ElementOfSeq
<1>4. IsInjective(s) <=> \A a, b \in 1..Len(s) : s[a] = s[b] => a = b
  BY <1>1, Zenon DEF IsInjective
<1> QED  BY <1>1, <1>2, <1>3, <1>4

LEMMA NoElements ==
  ASSUME NEW S
  PROVE  <<>> \in Seq(S) /\ IsInjective(<<>>) /\ ToSet(<<>>) = {}
<1> DEFINE s == <<>>
<1>1. s \in Seq(S) /\ Len(s) = 0  BY EmptySeq
<1> HIDE DEF s
<1>2. 1..Len(s) = {}  BY <1>1
<1>3. DOMAIN s = {}  BY <1>1, <1>2, Elements
<1>4. ToSet(s) = {}  BY <1>3 DEF ToSet
<1>5. IsInjective(s)  BY <1>3 DEF IsInjective
<1> QED  BY <1>1, <1>4, <1>5 DEF s

LEMMA ConcatenatedElements ==
  ASSUME NEW S, NEW s \in Seq(S), NEW t \in Seq(S)
  PROVE  ToSet(s \o t) \subseteq ToSet(s) \cup ToSet(t)
<1> DEFINE u == s \o t
<1>1. /\ u \in Seq(S) /\ Len(u) = Len(s) + Len(t)
      /\ \A i \in 1..(Len(s) + Len(t)) :
           u[i] = IF i <= Len(s) THEN s[i] ELSE t[i - Len(s)]
  BY ConcatProperties
<1>2. Len(s) \in Nat /\ Len(t) \in Nat  BY LenProperties
<1> HIDE DEF u
<1>3. ASSUME NEW i \in 1..(Len(s) + Len(t))
      PROVE  u[i] \in ToSet(s) \cup ToSet(t)
  <2>1. CASE i <= Len(s)
    <3>1. i \in 1..Len(s) /\ u[i] = s[i]  BY <1>1, <1>2, <2>1
    <3> QED  BY <3>1, Elements
  <2>2. CASE ~ (i <= Len(s))
    <3>1. i - Len(s) \in 1..Len(t) /\ u[i] = t[i - Len(s)]
      BY <1>1, <1>2, <2>2
    <3> QED  BY <3>1, Elements
  <2> QED  BY <2>1, <2>2
<1>4. ToSet(u) = { u[i] : i \in 1..(Len(s) + Len(t)) }  BY <1>1, Elements
<1>5. ToSet(u) \subseteq ToSet(s) \cup ToSet(t)  BY <1>3, <1>4, Zenon
<1> QED  BY <1>5 DEF u

(* t is s with e put in at place i. *)
LEMMA OneMore ==
  ASSUME NEW S, NEW s \in Seq(S), NEW t \in Seq(S), NEW e \in S,
         NEW i \in 1..(Len(s) + 1),
         IsInjective(s), e \notin ToSet(s), Widened(s, t, i, e)
  PROVE  IsInjective(t) /\ ToSet(t) = ToSet(s) \cup {e}
<1> DEFINE n == Len(s)
<1>1. n \in Nat  BY LenProperties
<1>2. \A a, b \in 1..n : s[a] = s[b] => a = b  BY Elements
<1>3. \A a \in 1..n : s[a] # e  BY Elements
<1>4. \A j \in 1..(n + 1) : /\ j < i => t[j] = s[j] /\ j \in 1..n
                            /\ j = i => t[j] = e
                            /\ j > i => t[j] = s[j - 1] /\ j - 1 \in 1..n
  BY <1>1 DEF Widened
<1> HIDE DEF n
<1>5. ASSUME NEW a \in 1..(n + 1), NEW b \in 1..(n + 1), t[a] = t[b]
      PROVE  a = b
  <2>1. CASE a < i  BY <2>1, <1>1, <1>2, <1>3, <1>4, <1>5
  <2>2. CASE a = i
    <3>1. t[a] = e  BY <2>2, <1>4
    <3>2. CASE b < i  BY <3>1, <3>2, <1>3, <1>4, <1>5
    <3>3. CASE b > i  BY <3>1, <3>3, <1>3, <1>4, <1>5
    <3>4. b < i \/ b = i \/ b > i  BY <1>1
    <3> QED  BY <3>2, <3>3, <3>4, <2>2
  <2>3. CASE a > i
    <3>1. CASE b < i
      <4>1. s[a - 1] = s[b] /\ a - 1 \in 1..n /\ b \in 1..n
        BY <2>3, <3>1, <1>4, <1>5
      <4>2. a - 1 = b  BY <4>1, <1>2
      <4> QED  BY <4>2, <2>3, <3>1, <1>1
    <3>2. CASE b = i  BY <2>3, <3>2, <1>3, <1>4, <1>5
    <3>3. CASE b > i
      <4>1. s[a - 1] = s[b - 1] /\ a - 1 \in 1..n /\ b - 1 \in 1..n
        BY <2>3, <3>3, <1>4, <1>5
      <4>2. a - 1 = b - 1  BY <4>1, <1>2
      <4> QED  BY <4>2, <1>1
    <3>4. b < i \/ b = i \/ b > i  BY <1>1
    <3> QED  BY <3>1, <3>2, <3>3, <3>4
  <2>4. a < i \/ a = i \/ a > i  BY <1>1
  <2> QED  BY <2>1, <2>2, <2>3, <2>4
<1>6. IsInjective(t)  BY <1>5, Elements DEF n, Widened
<1>7. ASSUME NEW j \in 1..(n + 1) PROVE t[j] \in ToSet(s) \cup {e}
  <2>1. \A k \in 1..n : s[k] \in ToSet(s)  BY Elements DEF n
  <2> QED  BY <2>1, <1>1, <1>4
<1>8. ASSUME NEW j \in 1..n PROVE \E k \in 1..(n + 1) : t[k] = s[j]
  <2>1. CASE j < i  BY <2>1, <1>1, <1>4
  <2>2. CASE j >= i
    <3>1. j + 1 \in 1..(n + 1) /\ j + 1 > i /\ (j + 1) - 1 = j
      BY <2>2, <1>1
    <3>2. t[j + 1] = s[j]  BY <3>1, <1>4
    <3> QED  BY <3>1, <3>2
  <2>3. j < i \/ j >= i  BY <1>1
  <2> QED  BY <2>1, <2>2, <2>3
<1>9. t[i] = e /\ i \in 1..(n + 1)  BY <1>4 DEF n
<1>10. ToSet(t) = { t[j] : j \in 1..(n + 1) }  BY Elements DEF n, Widened
<1>11. ToSet(s) = { s[j] : j \in 1..n }  BY Elements DEF n
<1>12. ToSet(t) \subseteq ToSet(s) \cup {e}  BY <1>7, <1>10, Zenon
<1>13. ToSet(s) \subseteq ToSet(t)  BY <1>8, <1>10, <1>11, Zenon
<1>14. e \in ToSet(t)  BY <1>9, <1>10, Zenon
<1> QED  BY <1>6, <1>12, <1>13, <1>14

(* t is s without its element at place i. *)
LEMMA OneLess ==
  ASSUME NEW S, NEW s \in Seq(S), NEW t \in Seq(S), NEW i \in 1..Len(s),
         IsInjective(s), Narrowed(s, t, i)
  PROVE  IsInjective(t) /\ ToSet(t) = ToSet(s) \ {s[i]}
<1> DEFINE n == Len(s)
<1>1. n \in Nat  BY LenProperties
<1>2. \A a, b \in 1..n : s[a] = s[b] => a = b  BY Elements
<1>4. \A j \in 1..(n - 1) : /\ j < i => t[j] = s[j] /\ j \in 1..n
                            /\ j >= i => t[j] = s[j + 1] /\ j + 1 \in 1..n
  BY <1>1 DEF Narrowed
<1>0. i \in 1..n  OBVIOUS
<1> HIDE DEF n
<1>5. ASSUME NEW a \in 1..(n - 1), NEW b \in 1..(n - 1), t[a] = t[b]
      PROVE  a = b
  <2>1. CASE a < i /\ b < i  BY <2>1, <1>2, <1>4, <1>5
  <2>2. CASE a < i /\ b >= i
    <3>1. s[a] = s[b + 1] /\ a \in 1..n /\ b + 1 \in 1..n
      BY <2>2, <1>4, <1>5
    <3>2. a = b + 1  BY <3>1, <1>2
    <3> QED  BY <3>2, <2>2, <1>1, <1>0
  <2>3. CASE a >= i /\ b < i
    <3>1. s[a + 1] = s[b] /\ a + 1 \in 1..n /\ b \in 1..n
      BY <2>3, <1>4, <1>5
    <3>2. a + 1 = b  BY <3>1, <1>2
    <3> QED  BY <3>2, <2>3, <1>1, <1>0
  <2>4. CASE a >= i /\ b >= i
    <3>1. s[a + 1] = s[b + 1] /\ a + 1 \in 1..n /\ b + 1 \in 1..n
      BY <2>4, <1>4, <1>5
    <3>2. a + 1 = b + 1  BY <3>1, <1>2
    <3> QED  BY <3>2, <1>1
  <2>5. (a < i \/ a >= i) /\ (b < i \/ b >= i)  BY <1>1, <1>0
  <2> QED  BY <2>1, <2>2, <2>3, <2>4, <2>5
<1>6. IsInjective(t)  BY <1>5, Elements DEF n, Narrowed
<1>7. ASSUME NEW j \in 1..(n - 1)
      PROVE  \E k \in 1..n : k # i /\ t[j] = s[k]
  <2>1. CASE j < i
    <3>1. t[j] = s[j] /\ j \in 1..n /\ j # i  BY <2>1, <1>4, <1>0, <1>1
    <3> QED  BY <3>1
  <2>2. CASE j >= i
    <3>1. t[j] = s[j + 1] /\ j + 1 \in 1..n /\ j + 1 # i
      BY <2>2, <1>4, <1>0, <1>1
    <3> QED  BY <3>1
  <2>3. j < i \/ j >= i  BY <1>1, <1>0
  <2> QED  BY <2>1, <2>2, <2>3
<1>8. ASSUME NEW j \in 1..n, j # i PROVE \E k \in 1..(n - 1) : t[k] = s[j]
  <2>1. CASE j < i
    <3>1. j \in 1..(n - 1)  BY <2>1, <1>0, <1>1
    <3> QED  BY <3>1, <2>1, <1>4
  <2>2. CASE j > i
    <3>1. j - 1 \in 1..(n - 1) /\ j - 1 >= i /\ (j - 1) + 1 = j
      BY <2>2, <1>0, <1>1
    <3>2. t[j - 1] = s[j]  BY <3>1, <1>4
    <3> QED  BY <3>1, <3>2
  <2>3. j < i \/ j > i  BY <1>1, <1>0, <1>8
  <2> QED  BY <2>1, <2>2, <2>3
<1>10. ToSet(t) = { t[j] : j \in 1..(n - 1) }  BY Elements DEF n, Narrowed
<1>11. ToSet(s) = { s[j] : j \in 1..n }  BY Elements DEF n
<1>12. \A k \in 1..n : s[k] = s[i] => k = i  BY <1>0, <1>2
<1>13. ASSUME NEW j \in 1..(n - 1) PROVE t[j] \in ToSet(s) \ {s[i]}
  <2>1. PICK k \in 1..n : k # i /\ t[j] = s[k]  BY <1>7
  <2>2. s[k] # s[i] /\ s[k] \in ToSet(s)  BY <2>1, <1>11, <1>12
  <2> QED  BY <2>1, <2>2
<1>14. ASSUME NEW j \in 1..n, s[j] # s[i] PROVE s[j] \in ToSet(t)
  <2>1. PICK k \in 1..(n - 1) : t[k] = s[j]  BY <1>8, <1>14
  <2> QED  BY <2>1, <1>10
<1>15. ToSet(t) \subseteq ToSet(s) \ {s[i]}  BY <1>10, <1>13, Zenon
<1>16. ToSet(s) \ {s[i]} \subseteq ToSet(t)  BY <1>11, <1>14, Zenon
<1> QED  BY <1>6, <1>15, <1>16

---------------------------------------------------------------------------
(* The operations of the queues on sequences without repetition *)

LEMMA Inserted ==
  ASSUME NEW S, NEW s \in Seq(S), NEW e \in S, NEW i \in 1..(Len(s) + 1),
         IsInjective(s), e \notin ToSet(s)
  PROVE  /\ InsertAt(s, i, e) \in Seq(S)
         /\ Len(InsertAt(s, i, e)) = Len(s) + 1
         /\ IsInjective(InsertAt(s, i, e))
         /\ ToSet(InsertAt(s, i, e)) = ToSet(s) \cup {e}
<1>1. InsertAt(s, i, e) \in Seq(S) /\ Widened(s, InsertAt(s, i, e), i, e)
  BY InsertAtProperties
<1>2. /\ IsInjective(InsertAt(s, i, e))
      /\ ToSet(InsertAt(s, i, e)) = ToSet(s) \cup {e}
  BY <1>1, OneMore
<1> QED  BY <1>1, <1>2 DEF Widened

LEMMA Appended ==
  ASSUME NEW S, NEW s \in Seq(S), NEW e \in S,
         IsInjective(s), e \notin ToSet(s)
  PROVE  /\ Append(s, e) \in Seq(S)
         /\ Len(Append(s, e)) = Len(s) + 1
         /\ IsInjective(Append(s, e))
         /\ ToSet(Append(s, e)) = ToSet(s) \cup {e}
<1> DEFINE t == Append(s, e)
           n == Len(s) + 1
<1>0. Len(s) \in Nat  BY LenProperties
<1>1. /\ t \in Seq(S) /\ Len(t) = n
      /\ \A j \in 1..Len(s) : t[j] = s[j]
      /\ t[n] = e
  BY AppendProperties
<1> HIDE DEF t
<1>2. n \in 1..(Len(s) + 1)  BY <1>0
<1>3. ASSUME NEW j \in 1..(Len(s) + 1)
      PROVE  t[j] = IF j < n THEN s[j] ELSE IF j = n THEN e ELSE s[j - 1]
  <2>1. CASE j < n  BY <2>1, <1>0, <1>1
  <2>2. CASE j = n  BY <2>2, <1>1, <1>0
  <2> QED  BY <2>1, <2>2, <1>0
<1>4. Widened(s, t, n, e)  BY <1>1, <1>3 DEF Widened
<1> HIDE DEF n
<1>5. IsInjective(t) /\ ToSet(t) = ToSet(s) \cup {e}
  BY <1>1, <1>2, <1>4, OneMore
<1> QED  BY <1>1, <1>5 DEF t, n

LEMMA Removed ==
  ASSUME NEW S, NEW s \in Seq(S), NEW i \in 1..Len(s), IsInjective(s)
  PROVE  /\ RemoveAt(s, i) \in Seq(S)
         /\ Len(RemoveAt(s, i)) = Len(s) - 1
         /\ IsInjective(RemoveAt(s, i))
         /\ ToSet(RemoveAt(s, i)) = ToSet(s) \ {s[i]}
<1>1. RemoveAt(s, i) \in Seq(S) /\ Narrowed(s, RemoveAt(s, i), i)
  BY RemoveAtProperties
<1>2. /\ IsInjective(RemoveAt(s, i))
      /\ ToSet(RemoveAt(s, i)) = ToSet(s) \ {s[i]}
  BY <1>1, OneLess
<1> QED  BY <1>1, <1>2 DEF Narrowed

(* Tail and Front leave out the first, and the last. *)
LEMMA TailNarrowed ==
  ASSUME NEW S, NEW s \in Seq(S), s # <<>>
  PROVE  /\ Tail(s) \in Seq(S) /\ Narrowed(s, Tail(s), 1)
         /\ 1 \in 1..Len(s)
<1>0. Len(s) \in Nat \ {0}  BY EmptySeq
<1>1. /\ Tail(s) \in Seq(S) /\ Len(Tail(s)) = Len(s) - 1
      /\ \A j \in 1..(Len(s) - 1) : Tail(s)[j] = s[j + 1]
  BY HeadTailProperties, <1>0
<1> QED  BY <1>0, <1>1 DEF Narrowed

LEMMA FrontNarrowed ==
  ASSUME NEW S, NEW s \in Seq(S), s # <<>>
  PROVE  /\ Front(s) \in Seq(S) /\ Narrowed(s, Front(s), Len(s))
         /\ Len(s) \in 1..Len(s) /\ Last(s) = s[Len(s)]
<1> DEFINE n == Len(s)
           t == Front(s)
<1>0. n \in Nat \ {0}  BY EmptySeq
<1>1. \A j \in 1..(n - 1) : s[j] \in S  BY ElementOfSeq, <1>0
<1>2. /\ SubSeq(s, 1, n - 1) \in Seq(S)
      /\ Len(SubSeq(s, 1, n - 1)) = IF 1 <= n - 1 THEN (n - 1) - 1 + 1 ELSE 0
      /\ \A j \in 1..((n - 1) - 1 + 1) : SubSeq(s, 1, n - 1)[j] = s[1 + j - 1]
  BY <1>0, <1>1, SubSeqProperties
<1>3. t = SubSeq(s, 1, n - 1)  BY DEF Front
<1> HIDE DEF t
<1>4. t \in Seq(S) /\ Len(t) = n - 1
  <2>1. CASE 1 <= n - 1  BY <2>1, <1>0, <1>2, <1>3
  <2>2. CASE ~ (1 <= n - 1)
    <3>0. n \in Nat /\ n # 0  BY <1>0
    <3> HIDE DEF n
    <3>1. n - 1 = 0  BY <2>2, <3>0
    <3>2. Len(SubSeq(s, 1, n - 1)) = 0  BY <2>2, <1>2, Zenon
    <3> QED  BY <3>1, <3>2, <1>2, <1>3
  <2> QED  BY <2>1, <2>2
<1>5. ASSUME NEW j \in 1..(n - 1) PROVE t[j] = s[j]
  <2>1. (n - 1) - 1 + 1 = n - 1 /\ 1 + j - 1 = j  BY <1>0
  <2> QED  BY <2>1, <1>2, <1>3
<1>6. Narrowed(s, t, n)  BY <1>0, <1>4, <1>5 DEF Narrowed
<1>7. n \in 1..n  BY <1>0
<1> QED  BY <1>4, <1>6, <1>7 DEF t, Last

LEMMA TailTaken ==
  ASSUME NEW S, NEW s \in Seq(S), s # <<>>, IsInjective(s)
  PROVE  /\ Tail(s) \in Seq(S)
         /\ Len(Tail(s)) = Len(s) - 1
         /\ IsInjective(Tail(s))
         /\ ToSet(Tail(s)) = ToSet(s) \ {s[1]}
<1> DEFINE t == Tail(s)
<1>1. t \in Seq(S) /\ Narrowed(s, t, 1) /\ 1 \in 1..Len(s)
  BY TailNarrowed
<1> HIDE DEF t
<1>2. IsInjective(t) /\ ToSet(t) = ToSet(s) \ {s[1]}
  BY <1>1, OneLess
<1> QED  BY <1>1, <1>2 DEF t, Narrowed

LEMMA FrontTaken ==
  ASSUME NEW S, NEW s \in Seq(S), s # <<>>, IsInjective(s)
  PROVE  /\ Front(s) \in Seq(S)
         /\ Len(Front(s)) = Len(s) - 1
         /\ IsInjective(Front(s))
         /\ ToSet(Front(s)) = ToSet(s) \ {Last(s)}
         /\ Last(s) \in ToSet(s)
<1> DEFINE n == Len(s)
           t == Front(s)
<1>1. /\ t \in Seq(S) /\ Narrowed(s, t, n) /\ n \in 1..n /\ Last(s) = s[n]
  BY FrontNarrowed
<1> HIDE DEF t
<1>2. IsInjective(t) /\ ToSet(t) = ToSet(s) \ {s[n]}
  BY <1>1, OneLess
<1>3. s[n] \in ToSet(s)  BY <1>1, Elements
<1> QED  BY <1>1, <1>2, <1>3 DEF t, Narrowed

LEMMA Replaced ==
  ASSUME NEW S, NEW s \in Seq(S), NEW e \in S, NEW i \in 1..Len(s),
         IsInjective(s), e \notin ToSet(s)
  PROVE  /\ [s EXCEPT ![i] = e] \in Seq(S)
         /\ Len([s EXCEPT ![i] = e]) = Len(s)
         /\ IsInjective([s EXCEPT ![i] = e])
         /\ ToSet([s EXCEPT ![i] = e]) = (ToSet(s) \ {s[i]}) \cup {e}
<1> DEFINE t == [s EXCEPT ![i] = e]
           n == Len(s)
<1>1. /\ t \in Seq(S) /\ Len(t) = n
      /\ \A j \in 1..n : t[j] = IF j = i THEN e ELSE s[j]
  BY ExceptSeq
<1> HIDE DEF t
<1>2. /\ \A a, b \in 1..n : s[a] = s[b] => a = b
      /\ \A a \in 1..n : s[a] # e
  BY Elements
<1>3. \A a, b \in 1..n : t[a] = t[b] => a = b  BY <1>1, <1>2
<1>4. IsInjective(t)  BY <1>1, <1>3, Elements
<1>5. ToSet(t) = { t[j] : j \in 1..n } /\ ToSet(s) = { s[j] : j \in 1..n }
  BY <1>1, Elements
<1>6. ASSUME NEW j \in 1..n PROVE t[j] \in (ToSet(s) \ {s[i]}) \cup {e}
  <2>1. CASE j = i  BY <2>1, <1>1
  <2>2. CASE j # i
    <3>1. s[j] # s[i] /\ s[j] \in ToSet(s)  BY <2>2, <1>2, <1>5
    <3> QED  BY <3>1, <2>2, <1>1
  <2> QED  BY <2>1, <2>2
<1>7. ASSUME NEW j \in 1..n, s[j] # s[i] PROVE s[j] \in ToSet(t)
  <2>1. t[j] = s[j]  BY <1>1, <1>7
  <2> QED  BY <2>1, <1>5
<1>8. e \in ToSet(t)  BY <1>1, <1>5
<1>9. ToSet(t) \subseteq (ToSet(s) \ {s[i]}) \cup {e}  BY <1>5, <1>6, Zenon
<1>10. ToSet(s) \ {s[i]} \subseteq ToSet(t)  BY <1>5, <1>7, Zenon
<1> QED  BY <1>1, <1>4, <1>8, <1>9, <1>10 DEF t


---------------------------------------------------------------------------
(* Induction over the places of a sequence, with the set of places where   *)
(* the claim holds instead of an operator for the claim                    *)

LEMMA EveryPlace ==
  ASSUME NEW n \in Nat, NEW P, n > 0 => 1 \in P,
         \A i \in 1..(n - 1) : i \in P => i + 1 \in P
  PROVE  \A i \in 1..n : i \in P
<1> DEFINE Left == (1..n) \ P
<1> SUFFICES ASSUME Left # {} PROVE FALSE  OBVIOUS
<1>1. Left \in SUBSET Nat  OBVIOUS
<1>2. PICK m \in Left : \A i \in Left : m <= i  BY <1>1, MinExists
<1>3. m \in 1..n /\ m \notin P /\ m # 1  BY <1>2
<1>4. m - 1 \in 1..(n - 1)  BY <1>3
<1>5. m - 1 \in 1..n /\ ~(m <= m - 1)  BY <1>3, <1>4
<1>6. m - 1 \in P  BY <1>2, <1>5
<1>7. (m - 1) + 1 \in P  BY <1>4, <1>6
<1> QED  BY <1>3, <1>7

(* t adds up d: a recursive function that does so exists. *)
Adds(t, n, d) ==
  /\ t \in [1..n -> Int]
  /\ n > 0 => t[1] = 0
  /\ \A i \in 1..(n - 1) : t[i + 1] = t[i] + d[i]

LEMMA SumsExist ==
  ASSUME NEW n \in Nat, NEW d \in [1..n -> Int]
  PROVE  \E t : Adds(t, n, d)
<1> DEFINE P == {k \in 1..n : \E t : Adds(t, k, d)}
<1>1. n > 0 => 1 \in P
  <2> SUFFICES ASSUME n > 0 PROVE 1 \in P  OBVIOUS
  <2> DEFINE t == [i \in 1..1 |-> 0]
  <2>1. Adds(t, 1, d)  BY DEF Adds
  <2> QED  BY <2>1
<1>2. ASSUME NEW k \in 1..(n - 1), k \in P  PROVE k + 1 \in P
  <2>1. PICK t : Adds(t, k, d)  BY <1>2
  <2> DEFINE u == [i \in 1..(k + 1) |-> IF i = k + 1 THEN t[k] + d[k] ELSE t[i]]
  <2>2. t[k] + d[k] \in Int  BY <2>1 DEF Adds
  <2>3. u \in [1..(k + 1) -> Int]  BY <2>1, <2>2 DEF Adds
  <2>4. u[1] = 0  BY <2>1 DEF Adds
  <2>5. \A i \in 1..k : u[i + 1] = u[i] + d[i]
    <3> TAKE i \in 1..k
    <3>1. CASE i = k  BY <3>1
    <3>2. CASE i # k
      <4>1. i \in 1..(k - 1)  BY <3>2
      <4>2. u[i + 1] = t[i + 1] /\ u[i] = t[i]  BY <4>1
      <4> QED  BY <2>1, <4>1, <4>2 DEF Adds
    <3> QED  BY <3>1, <3>2
  <2>6. k + 1 \in 1..n /\ (k + 1) - 1 = k  OBVIOUS
  <2> HIDE DEF u
  <2>7. Adds(u, k + 1, d)  BY <2>3, <2>4, <2>5, <2>6 DEF Adds
  <2> QED  BY <2>6, <2>7
<1> HIDE DEF P
<1>3. \A i \in 1..n : i \in P  BY <1>1, <1>2, EveryPlace
<1>4. CASE n > 0
  <2>1. n \in P  BY <1>3, <1>4
  <2> QED  BY <2>1 DEF P
<1>5. CASE n = 0
  <2> DEFINE t == [i \in 1..n |-> 0]
  <2>1. Adds(t, n, d)  BY <1>5 DEF Adds
  <2> QED  BY <2>1
<1> QED  BY <1>4, <1>5


(* u applies the functions of d one after the other. *)
Iterates(u, n, S, start, d) ==
  /\ u \in [0..n -> S]
  /\ u[0] = start
  /\ \A i \in 1..n : u[i] = d[i][u[i - 1]]

LEMMA IterationExists ==
  ASSUME NEW n \in Nat, NEW S, NEW start \in S, NEW d \in [1..n -> [S -> S]]
  PROVE  \E u : Iterates(u, n, S, start, d)
<1> DEFINE P == {k \in 1..(n + 1) : \E u : Iterates(u, k - 1, S, start, d)}
<1>0. n + 1 \in Nat /\ n + 1 > 0 /\ (n + 1) - 1 = n  OBVIOUS
<1>1. 1 \in P
  <2> DEFINE u == [i \in 0..0 |-> start]
  <2>1. u \in [0..0 -> S] /\ u[0] = start /\ 1..0 = {}  OBVIOUS
  <2> HIDE DEF u
  <2>2. Iterates(u, 0, S, start, d)  BY <2>1 DEF Iterates
  <2>3. 1 \in 1..(n + 1) /\ 1 - 1 = 0  OBVIOUS
  <2> QED  BY <2>2, <2>3
<1>2. ASSUME NEW k \in 1..((n + 1) - 1), k \in P  PROVE k + 1 \in P
  <2>0. k \in 1..n /\ k - 1 \in Nat /\ (k + 1) - 1 = k  OBVIOUS
  <2>1. PICK t : Iterates(t, k - 1, S, start, d)  BY <1>2
  <2>2. /\ t \in [0..(k - 1) -> S] /\ t[0] = start
        /\ \A i \in 1..(k - 1) : t[i] = d[i][t[i - 1]]
    BY <2>1 DEF Iterates
  <2> DEFINE e == d[k][t[k - 1]]
             u == [i \in 0..k |-> IF i = k THEN e ELSE t[i]]
  <2>3. e \in S
    <3>1. t[k - 1] \in S /\ d[k] \in [S -> S]  BY <2>0, <2>2
    <3> QED  BY <3>1
  <2> HIDE DEF e
  <2>4. u \in [0..k -> S]  BY <2>0, <2>2, <2>3
  <2>5. u[0] = start  BY <2>0, <2>2
  <2>6. \A i \in 1..k : u[i] = d[i][u[i - 1]]
    <3> TAKE i \in 1..k
    <3>1. u[i - 1] = t[i - 1]  BY <2>0
    <3>2. CASE i = k
      <4>1. u[i] = e  BY <3>2
      <4> HIDE DEF u
      <4> QED  BY <3>1, <3>2, <4>1 DEF e
    <3>3. CASE i # k
      <4>1. i \in 1..(k - 1) /\ u[i] = t[i]  BY <2>0, <3>3
      <4> HIDE DEF u
      <4> QED  BY <2>2, <3>1, <4>1
    <3> QED  BY <3>2, <3>3
  <2> HIDE DEF u
  <2>7. Iterates(u, (k + 1) - 1, S, start, d)
    BY <2>0, <2>4, <2>5, <2>6 DEF Iterates
  <2>8. k + 1 \in 1..(n + 1)  BY <2>0
  <2> QED  BY <2>7, <2>8
<1> HIDE DEF P
<1>3. \A i \in 1..(n + 1) : i \in P  BY <1>0, <1>1, <1>2, EveryPlace
<1>4. n + 1 \in P  BY <1>0, <1>3
<1> QED  BY <1>0, <1>4 DEF P

(* A set of places has a last one. *)
LEMMA MaxExists ==
  ASSUME NEW n \in Nat, NEW I \in SUBSET (1..n), I # {}
  PROVE  Max(I) \in I /\ \A i \in I : i <= Max(I)
<1> DEFINE J == {n - i : i \in I}
<1>1. J \in SUBSET Nat /\ J # {}
  <2>1. \A i \in I : n - i \in Nat
    <3> TAKE i \in I
    <3>1. i \in 1..n  OBVIOUS
    <3> QED  BY <3>1
  <2> QED  BY <2>1
<1>2. Min(J) \in J /\ \A j \in J : Min(J) <= j  BY <1>1, MinExists
<1>3. PICK m \in I : Min(J) = n - m  BY <1>2
<1>4. \A i \in I : m >= i
  <2> TAKE i \in I
  <2>1. n - m <= n - i  BY <1>2, <1>3
  <2>2. i \in 1..n /\ m \in 1..n  OBVIOUS
  <2> QED  BY <2>1, <2>2
<1> HIDE DEF J
<1>5. \E x \in I : \A y \in I : x >= y  BY <1>4
<1>6. Max(I) \in I /\ \A y \in I : Max(I) >= y  BY <1>5 DEF Max
<1>7. \A y \in I : y \in 1..n  OBVIOUS
<1>8. Max(I) \in 1..n  BY <1>6, <1>7
<1> QED  BY <1>6, <1>7, <1>8

(* What holds before the first step and is kept by each holds after all.   *)
LEMMA EveryStep ==
  ASSUME NEW n \in Nat, NEW P, 0 \in P, \A k \in 1..n : k - 1 \in P => k \in P
  PROVE  \A k \in 0..n : k \in P
<1> DEFINE Q == {k \in 1..(n + 1) : k - 1 \in P}
<1>1. n + 1 \in Nat /\ 1 \in Q  OBVIOUS
<1>2. ASSUME NEW k \in 1..((n + 1) - 1), k \in Q  PROVE k + 1 \in Q
  <2>1. k \in 1..n /\ k - 1 \in P /\ (k + 1) - 1 = k /\ k + 1 \in 1..(n + 1)  BY <1>2
  <2> QED  BY <2>1
<1> HIDE DEF Q
<1>3. \A k \in 1..(n + 1) : k \in Q  BY <1>1, <1>2, EveryPlace
<1> SUFFICES ASSUME NEW k \in 0..n PROVE k \in P  OBVIOUS
<1>4. k + 1 \in 1..(n + 1) /\ (k + 1) - 1 = k  OBVIOUS
<1> QED  BY <1>3, <1>4 DEF Q
=============================================================================
