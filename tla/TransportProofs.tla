---------------------------- MODULE TransportProofs ----------------------------
(***************************************************************************)
(* What the parts of the KCP crate that Transport puts side by side        *)
(* promise, for every size of their queues and number of their tasks:      *)
(*   RingIsFifo     - the ring is a queue;                                 *)
(*   RateKept       - the limiter keeps the rate;                          *)
(*   RoutingSound   - a datagram finds its session;                        *)
(*   WakeupsKept    - nobody sleeps on what is there for it;               *)
(*   FlushedKept    - no packet that flush() has committed to is dropped.  *)
(* Each is a part of TransportInv, whose parts are the inductive           *)
(* invariants of the components, RingBuffer's type, RateInv, RouteInv with *)
(* AcceptorWoken, and SessionInv.                                          *)
(***************************************************************************)
EXTENDS Transport, Facts, TLAPS

-----------------------------------------------------------------------------
(* The ring buffer.                                                        *)

(* Sequences with the same elements are the same.                          *)
LEMMA SameElements ==
    ASSUME NEW T, NEW s \in Seq(T), NEW t \in Seq(T), Len(s) = Len(t),
           \A i \in 1..Len(s) : s[i] = t[i]
    PROVE  s = t
OBVIOUS

(* Indexes wrap around once.                                               *)
LEMMA ModWrap ==
    ASSUME NEW m \in Nat, m > 0, NEW x \in 0..(2 * m - 1)
    PROVE  x % m = IF x < m THEN x ELSE x - m
OBVIOUS

(* The next slot.                                                          *)
LEMMA NextSlot ==
    ASSUME NEW m \in Nat, m > 1, NEW x \in 0..(m - 1)
    PROVE  (x + 1) % m = IF x + 1 < m THEN x + 1 ELSE 0
<1>1. x + 1 \in 0..(2 * m - 1)
  OBVIOUS
<1> QED
  BY <1>1, ModWrap

(* The elements of a ring from h up to t, their number, and the slot of    *)
(* each.                                                                   *)
Used(h, t, e) == IF h <= t THEN t - h ELSE Len(e) - h + t
Place(h, e, i) == IF h + i > Len(e) THEN h + i - Len(e) ELSE h + i
Contents(h, t, e) ==
    IF h <= t THEN SubSeq(e, h + 1, t) \o <<>> ELSE SubSeq(e, h + 1, Len(e)) \o SubSeq(e, 1, t)

(* They are the slots from h on.                                           *)
LEMMA ContentsAre ==
    ASSUME NEW T, NEW e \in Seq(T), NEW h \in 0..(Len(e) - 1), NEW t \in 0..(Len(e) - 1)
    PROVE  /\ Contents(h, t, e) \in Seq(T)
           /\ Len(Contents(h, t, e)) = Used(h, t, e)
           /\ Used(h, t, e) \in 0..(Len(e) - 1)
           /\ \A i \in 1..Used(h, t, e) : /\ Contents(h, t, e)[i] = e[Place(h, e, i)]
                                          /\ Place(h, e, i) \in 1..Len(e)
<1>1. CASE h <= t
  <2> DEFINE s == SubSeq(e, h + 1, t)
  <2>1. s \in Seq(T) /\ Len(s) = t - h /\ \A i \in 1..(t - h) : s[i] = e[h + i]
    BY <1>1
  <2> HIDE DEF s
  <2>2. s \o <<>> \in Seq(T) /\ Len(s \o <<>>) = t - h /\ \A i \in 1..(t - h) : (s \o <<>>)[i] = s[i]
    BY <1>1, <2>1
  <2>3. Contents(h, t, e) = s \o <<>> /\ Used(h, t, e) = t - h
    BY <1>1 DEF Contents, Used, s
  <2>4. \A i \in 1..(t - h) : Place(h, e, i) = h + i /\ h + i \in 1..Len(e)
    BY <1>1 DEF Place
  <2> QED
    BY <1>1, <2>1, <2>2, <2>3, <2>4
<1>2. CASE ~(h <= t)
  <2> DEFINE a == SubSeq(e, h + 1, Len(e))
             b == SubSeq(e, 1, t)
             n == Len(e) - h
  <2>1. a \in Seq(T) /\ Len(a) = n /\ \A i \in 1..n : a[i] = e[h + i]
    BY <1>2
  <2>2. b \in Seq(T) /\ Len(b) = t /\ \A i \in 1..t : b[i] = e[i]
    BY <1>2
  <2> HIDE DEF a, b
  <2>3. /\ a \o b \in Seq(T) /\ Len(a \o b) = n + t
        /\ \A i \in 1..(n + t) : (a \o b)[i] = IF i <= n THEN a[i] ELSE b[i - n]
    <3>1. /\ a \o b \in Seq(T) /\ Len(a \o b) = Len(a) + Len(b)
          /\ \A i \in 1..(Len(a) + Len(b)) : (a \o b)[i] = IF i <= Len(a) THEN a[i] ELSE b[i - Len(a)]
      <4>1. a \in Seq(T) /\ b \in Seq(T)
        BY <2>1, <2>2
      <4> QED
        BY <4>1, ConcatElements
    <3> QED
      BY <2>1, <2>2, <3>1
  <2>4. Contents(h, t, e) = a \o b /\ Used(h, t, e) = n + t
    BY <1>2 DEF Contents, Used, a, b
  <2>5. ASSUME NEW i \in 1..(n + t)
        PROVE  (a \o b)[i] = e[Place(h, e, i)] /\ Place(h, e, i) \in 1..Len(e)
    <3>1. CASE i <= n
      <4>1. Place(h, e, i) = h + i /\ h + i \in 1..Len(e) /\ i \in 1..n
        BY <1>2, <3>1 DEF Place
      <4> QED
        BY <2>1, <2>3, <3>1, <4>1
    <3>2. CASE ~(i <= n)
      <4>1. Place(h, e, i) = i - n /\ i - n \in 1..t /\ i - n \in 1..Len(e)
        BY <1>2, <3>2 DEF Place
      <4> QED
        BY <2>2, <2>3, <3>2, <4>1
    <3> QED
      BY <3>1, <3>2
  <2>6. n + t \in 0..(Len(e) - 1)
    BY <1>2
  <2> QED
    BY <2>3, <2>4, <2>5, <2>6
<1> QED
  BY <1>1, <1>2

(* The slots of different elements differ.                                 *)
LEMMA PlaceFacts ==
    ASSUME NEW T, NEW e \in Seq(T), NEW h \in 0..(Len(e) - 1), NEW t \in 0..(Len(e) - 1)
    PROVE  /\ \A i, j \in 1..Len(e) : Place(h, e, i) = Place(h, e, j) => i = j
           /\ Place(h, e, Used(h, t, e) + 1) = t + 1
           /\ Place(h, e, 1) = h + 1
BY DEF Place, Used

(* iter() shows the contents.                                              *)
LEMMA IterIs ==
    /\ Ring!iter = Contents(head, tail, elements)
    /\ Ring!iter' = Contents(head', tail', elements')
    /\ Ring!len = Used(head, tail, elements)
BY DEF Ring!iter, Ring!as_slices, Ring!len, Ring!size, Contents, Used

Slots == Values \cup {Default}

(* What Ring!TypeOK says.                                                  *)
LEMMA RingType ==
    ASSUME Ring!TypeOK
    PROVE  /\ elements \in Seq(Slots) /\ Len(elements) \in Nat /\ Len(elements) > 1
           /\ head \in 0..(Len(elements) - 1) /\ tail \in 0..(Len(elements) - 1)
           /\ Ring!iter \in Seq(Slots) /\ Len(Ring!iter) = Used(head, tail, elements)
           /\ Ring!len = Len(Ring!iter) /\ Used(head, tail, elements) \in 0..(Len(elements) - 1)
           /\ \A i \in 1..Used(head, tail, elements) :
                Ring!iter[i] = elements[Place(head, elements, i)] /\ Place(head, elements, i) \in 1..Len(elements)
<1>1. /\ elements \in Seq(Slots) /\ Len(elements) \in Nat /\ Len(elements) > 1
      /\ head \in 0..(Len(elements) - 1) /\ tail \in 0..(Len(elements) - 1)
  BY RingAssumption DEF Ring!TypeOK, Ring!size, Slots
<1> QED
  BY <1>1, IterIs, ContentsAre

(* How a step is recognised: it leaves a ring of its type with contents q. *)
LEMMA RingStep ==
    ASSUME elements' \in Seq(Slots), Len(elements') \in RINGBUFFER_MIN..MaxSize,
           head' \in 0..(Len(elements') - 1), tail' \in 0..(Len(elements') - 1),
           NEW q \in Seq(Slots), Len(q) = Used(head', tail', elements'),
           \A i \in 1..Len(q) : q[i] = elements'[Place(head', elements', i)]
    PROVE  Ring!TypeOK' /\ Ring!iter' = q
<1>1. Ring!TypeOK'
  BY DEF Ring!TypeOK, Ring!size, Slots
<1>2. /\ Ring!iter' \in Seq(Slots) /\ Len(Ring!iter') = Len(q)
      /\ \A i \in 1..Len(q) : Ring!iter'[i] = elements'[Place(head', elements', i)]
  BY IterIs, ContentsAre, SMTT(30)
<1> QED
  BY <1>1, <1>2, SameElements

(* The contents in the first slots of a vector of n.                       *)
LEMMA RebuiltAre ==
    ASSUME Ring!TypeOK, NEW n \in Nat, n > Ring!len
    PROVE  /\ Ring!Rebuilt(n) \in Seq(Slots) /\ Len(Ring!Rebuilt(n)) = n
           /\ \A i \in 1..Ring!len : Ring!Rebuilt(n)[i] = Ring!iter[i]
<1> DEFINE pad == [i \in 1..(n - Ring!len) |-> Default]
<1>1. Ring!iter \in Seq(Slots) /\ Ring!len = Len(Ring!iter) /\ Ring!len \in Nat
  BY RingType
<1>2. pad \in [1..(n - Ring!len) -> Slots] /\ n - Ring!len \in Nat
  BY <1>1 DEF Slots
<1> HIDE DEF pad
<1>3. /\ Ring!iter \o pad \in Seq(Slots)
      /\ Len(Ring!iter \o pad) = Len(Ring!iter) + (n - Ring!len)
      /\ \A i \in 1..(Len(Ring!iter) + (n - Ring!len)) :
           (Ring!iter \o pad)[i] = IF i <= Len(Ring!iter) THEN Ring!iter[i] ELSE pad[i - Len(Ring!iter)]
  <2> DEFINE k == n - Ring!len
             it == Ring!iter
  <2>1. it \in Seq(Slots) /\ k \in Nat /\ pad \in [1..k -> Slots]
    BY <1>1, <1>2
  <2> HIDE DEF k, it
  <2>2. /\ it \o pad \in Seq(Slots) /\ Len(it \o pad) = Len(it) + k
        /\ \A i \in 1..(Len(it) + k) : (it \o pad)[i] = IF i <= Len(it) THEN it[i] ELSE pad[i - Len(it)]
    BY <2>1, ConcatFunction
  <2> QED
    BY <2>2 DEF it, k
<1>4. Ring!Rebuilt(n) = Ring!iter \o pad
  BY DEF Ring!Rebuilt, pad
<1> QED
  BY <1>1, <1>3, <1>4

(* push().                                                                 *)
LEMMA PushStep ==
    ASSUME Ring!TypeOK, NEW v \in Values, Ring!push(v)
    PROVE  Ring!TypeOK' /\ Ring!iter' = Append(Ring!iter, v)
<1> DEFINE q == Append(Ring!iter, v)
           k == Used(head, tail, elements)
           size == Len(elements)
<1>1. /\ elements \in Seq(Slots) /\ size \in Nat /\ size > 1 /\ head \in 0..(size - 1) /\ tail \in 0..(size - 1)
      /\ Ring!iter \in Seq(Slots) /\ Len(Ring!iter) = k /\ Ring!len = k /\ k \in 0..(size - 1)
      /\ \A i \in 1..k : Ring!iter[i] = elements[Place(head, elements, i)] /\ Place(head, elements, i) \in 1..size
  BY RingType
<1>2. size \in RINGBUFFER_MIN..MaxSize
  BY DEF Ring!TypeOK, Ring!size
<1>3. v \in Slots
  BY DEF Slots
<1>4. /\ q \in Seq(Slots) /\ Len(q) = k + 1 /\ q[k + 1] = v
      /\ \A i \in 1..k : q[i] = Ring!iter[i]
  BY <1>1, <1>3
<1> HIDE DEF size
<1>5. (tail + 1) % size = IF tail + 1 < size THEN tail + 1 ELSE 0
  <2>1. size \in Nat /\ size > 1 /\ tail \in 0..(size - 1)
    BY <1>1
  <2> QED
    BY <2>1, NextSlot
<1>6. Ring!is_full <=> k = size - 1
  <2>1. Ring!is_full <=> (IF tail + 1 < size THEN tail + 1 ELSE 0) = head
    BY <1>5 DEF Ring!is_full, Ring!size, size
  <2>2. k = IF head <= tail THEN tail - head ELSE size - head + tail
    BY DEF Used, size
  <2> QED
    BY <1>1, <2>1, <2>2
<1> USE DEF size
<1> HIDE DEF q
<1>7. CASE Ring!is_full
  <2> DEFINE g == Ring!GrownSize
             r == Ring!Rebuilt(g)
  <2>1. g \in Nat /\ g > size
    BY <1>1, RingAssumption DEF Ring!GrownSize, Ring!size
  <2>2. g <= MaxSize /\ elements' = [r EXCEPT ![k + 1] = v] /\ head' = 0 /\ tail' = k + 1
    BY <1>1, <1>7 DEF Ring!push
  <2> HIDE DEF g
  <2>3. r \in Seq(Slots) /\ Len(r) = g /\ \A i \in 1..k : r[i] = Ring!iter[i]
    BY <1>1, <2>1, RebuiltAre
  <2> HIDE DEF r, k
  <2>4. /\ elements' \in Seq(Slots) /\ Len(elements') = g /\ elements'[k + 1] = v
        /\ \A i \in 1..k : elements'[i] = r[i]
    BY <1>1, <1>3, <2>1, <2>2, <2>3
  <2>5. /\ Used(head', tail', elements') = k + 1
        /\ \A i \in 1..(k + 1) : Place(head', elements', i) = i
    BY <1>1, <1>6, <1>7, <2>1, <2>2, <2>4 DEF Used, Place
  <2>6. \A i \in 1..(k + 1) : q[i] = elements'[i]
    BY <1>1, <1>4, <2>3, <2>4, SMTT(60)
  <2>7. /\ Len(elements') \in RINGBUFFER_MIN..MaxSize
        /\ head' \in 0..(Len(elements') - 1) /\ tail' \in 0..(Len(elements') - 1)
    BY <1>1, <1>2, <1>6, <1>7, <2>1, <2>2, <2>4, RingAssumption
  <2> QED
    BY <1>4, <2>4, <2>5, <2>6, <2>7, RingStep DEF q
<1>8. CASE ~Ring!is_full
  <2>1. /\ elements' = [elements EXCEPT ![tail + 1] = v] /\ UNCHANGED head
        /\ tail' = IF tail + 1 < size THEN tail + 1 ELSE 0
    BY <1>5, <1>8 DEF Ring!push, Ring!size
  <2>2. /\ elements' \in Seq(Slots) /\ Len(elements') = size /\ elements'[tail + 1] = v
        /\ \A j \in 1..size : j # tail + 1 => elements'[j] = elements[j]
    BY <1>1, <1>3, <2>1
  <2>3. /\ \A i, j \in 1..size : Place(head, elements, i) = Place(head, elements, j) => i = j
        /\ Place(head, elements, k + 1) = tail + 1
    BY <1>1, PlaceFacts
  <2>4. \A i : Place(head', elements', i) = Place(head, elements, i)
    BY <2>1, <2>2 DEF Place
  <2>5. Used(head', tail', elements') = k + 1
    <3> HIDE DEF size
    <3>1. Used(head', tail', elements') = IF head <= tail' THEN tail' - head ELSE size - head + tail'
      BY <2>1, <2>2 DEF Used
    <3>2. k = IF head <= tail THEN tail - head ELSE size - head + tail
      BY DEF Used, size
    <3>3. k # size - 1
      BY <1>6, <1>8
    <3>4. tail' = IF tail + 1 < size THEN tail + 1 ELSE 0
      BY <2>1
    <3> HIDE DEF k
    <3> QED
      BY <1>1, <3>1, <3>2, <3>3, <3>4
  <2> HIDE DEF k
  <2>6. ASSUME NEW i \in 1..(k + 1) PROVE q[i] = elements'[Place(head', elements', i)]
    <3>1. CASE i = k + 1
      BY <1>4, <2>2, <2>3, <2>4, <3>1
    <3>2. CASE i # k + 1
      <4>1. i \in 1..k /\ i \in 1..size /\ k + 1 \in 1..size
        BY <1>1, <1>6, <1>8, <3>2
      <4>2. Place(head, elements, i) # tail + 1
        BY <2>3, <3>2, <4>1
      <4> QED
        BY <1>1, <1>4, <2>2, <2>4, <4>1, <4>2
    <3> QED
      BY <3>1, <3>2
  <2>7. head' \in 0..(Len(elements') - 1) /\ tail' \in 0..(Len(elements') - 1)
    BY <1>1, <2>1, <2>2
  <2> QED
    BY <1>2, <1>4, <2>2, <2>5, <2>6, <2>7, RingStep DEF q
<1> QED
  BY <1>7, <1>8

(* A ring that loses its first n elements.                                 *)
LEMMA FrontStep ==
    ASSUME Ring!TypeOK, NEW n \in 0..Ring!len,
           elements' \in Seq(Slots), Len(elements') = Len(elements),
           head' = IF head + n < Len(elements) THEN head + n ELSE head + n - Len(elements), UNCHANGED tail,
           \A i \in (n + 1)..Ring!len : elements'[Place(head, elements, i)] = elements[Place(head, elements, i)]
    PROVE  Ring!TypeOK' /\ Ring!iter' = SubSeq(Ring!iter, n + 1, Len(Ring!iter))
<1> DEFINE q == SubSeq(Ring!iter, n + 1, Len(Ring!iter))
           k == Used(head, tail, elements)
           size == Len(elements)
<1>1. /\ elements \in Seq(Slots) /\ size \in Nat /\ size > 1 /\ head \in 0..(size - 1) /\ tail \in 0..(size - 1)
      /\ Ring!iter \in Seq(Slots) /\ Len(Ring!iter) = k /\ Ring!len = k /\ k \in 0..(size - 1)
      /\ \A i \in 1..k : Ring!iter[i] = elements[Place(head, elements, i)]
  BY RingType
<1>2. size \in RINGBUFFER_MIN..MaxSize
  BY DEF Ring!TypeOK, Ring!size
<1>3. q \in Seq(Slots) /\ Len(q) = k - n /\ \A i \in 1..(k - n) : q[i] = Ring!iter[n + i]
  <2> DEFINE it == Ring!iter
  <2>1. it \in Seq(Slots) /\ n \in 0..Len(it) /\ Len(it) = k
    BY <1>1
  <2> HIDE DEF it
  <2>2. /\ SubSeq(it, n + 1, Len(it)) \in Seq(Slots) /\ Len(SubSeq(it, n + 1, Len(it))) = Len(it) - n
        /\ \A i \in 1..(Len(it) - n) : SubSeq(it, n + 1, Len(it))[i] = it[n + i]
    BY <2>1, Suffix
  <2> QED
    BY <2>1, <2>2 DEF it
<1> DEFINE h == head'
<1>a. /\ Used(head', tail', elements') = IF h <= tail THEN tail - h ELSE size - h + tail
      /\ k = IF head <= tail THEN tail - head ELSE size - head + tail
      /\ h = IF head + n < size THEN head + n ELSE head + n - size
      /\ n \in 0..k
  BY <1>1 DEF Used
<1>b. /\ \A i : Place(head', elements', i) = IF h + i > size THEN h + i - size ELSE h + i
      /\ \A i : Place(head, elements, i) = IF head + i > size THEN head + i - size ELSE head + i
  BY DEF Place
<1> HIDE DEF q, k, h, size
<1>4. Used(head', tail', elements') = k - n
  <2>1. CASE head + n < size
    BY <1>1, <1>a, <2>1
  <2>2. CASE head + n >= size
    BY <1>1, <1>a, <2>2
  <2> QED
    BY <1>1, <1>a, <2>1, <2>2
<1>5. \A i \in 1..(k - n) : Place(head', elements', i) = Place(head, elements, n + i)
  <2>1. ASSUME NEW i \in 1..(k - n)
        PROVE  (IF h + i > size THEN h + i - size ELSE h + i)
                 = (IF head + (n + i) > size THEN head + (n + i) - size ELSE head + (n + i))
    <3>1. CASE head + n < size
      BY <1>1, <1>a, <3>1
    <3>2. CASE head + n >= size
      BY <1>1, <1>a, <3>2
    <3> QED
      BY <1>1, <1>a, <3>1, <3>2
  <2> QED
    BY <1>b, <2>1
<1>6. ASSUME NEW i \in 1..(k - n) PROVE q[i] = elements'[Place(head', elements', i)]
  <2>1. n + i \in (n + 1)..k /\ n + i \in 1..k
    BY <1>1
  <2> QED
    BY <1>1, <1>3, <1>5, <2>1
<1>7. head' \in 0..(size - 1) /\ tail' \in 0..(size - 1)
  <2>1. h \in 0..(size - 1)
    BY <1>1, <1>a
  <2> QED
    BY <1>1, <2>1 DEF h
<1> QED
  BY <1>2, <1>3, <1>4, <1>6, <1>7, RingStep DEF q, size

(* pop().                                                                  *)
LEMMA PopStep ==
    ASSUME Ring!TypeOK, Ring!pop
    PROVE  Ring!TypeOK' /\ Ring!len > 0 /\ Ring!iter' = SubSeq(Ring!iter, 2, Len(Ring!iter))
<1> DEFINE size == Len(elements)
<1>1. /\ elements \in Seq(Slots) /\ size \in Nat /\ size > 1 /\ head \in 0..(size - 1) /\ tail \in 0..(size - 1)
      /\ Ring!len = Used(head, tail, elements) /\ Ring!len \in 0..(size - 1)
      /\ \A i \in 1..Ring!len : Place(head, elements, i) \in 1..size
  BY RingType
<1>2. head # tail /\ elements' = [elements EXCEPT ![head + 1] = Default] /\ head' = (head + 1) % size /\ UNCHANGED tail
  BY DEF Ring!pop, Ring!is_empty, Ring!size
<1>3. head' = IF head + 1 < size THEN head + 1 ELSE head + 1 - size
  <2>1. head' = (head + 1) % size
    BY <1>2
  <2> HIDE DEF size
  <2>2. size \in Nat /\ size > 1 /\ head \in 0..(size - 1)
    BY <1>1
  <2>3. (head + 1) % size = IF head + 1 < size THEN head + 1 ELSE 0
    BY <2>2, NextSlot
  <2> QED
    BY <2>1, <2>2, <2>3
<1>4. 1 \in 0..Ring!len
  BY <1>1, <1>2 DEF Used
<1>5. /\ elements' \in Seq(Slots) /\ Len(elements') = size
      /\ \A j \in 1..size : j # head + 1 => elements'[j] = elements[j]
  BY <1>1, <1>2 DEF Slots
<1>6. ASSUME NEW i \in (1 + 1)..Ring!len PROVE elements'[Place(head, elements, i)] = elements[Place(head, elements, i)]
  <2>1. Place(head, elements, i) # head + 1
    <3>1. i \in 1..size /\ 1 \in 1..size /\ i # 1
      BY <1>1
    <3> QED
      BY <1>1, <3>1, PlaceFacts
  <2> QED
    BY <1>1, <1>5, <2>1
<1>7. Ring!TypeOK' /\ Ring!iter' = SubSeq(Ring!iter, 1 + 1, Len(Ring!iter))
  BY <1>2, <1>3, <1>4, <1>5, <1>6, FrontStep
<1> QED
  BY <1>1, <1>4, <1>7

(* discard().                                                              *)
LEMMA DiscardStep ==
    ASSUME Ring!TypeOK, NEW n \in Nat, Ring!discard(n)
    PROVE  /\ Ring!TypeOK'
           /\ \E j \in 0..Len(Ring!iter) : Ring!iter' = SubSeq(Ring!iter, j + 1, Len(Ring!iter))
<1> DEFINE size == Len(elements)
<1>1. /\ elements \in Seq(Slots) /\ size \in Nat /\ size > 1 /\ head \in 0..(size - 1) /\ tail \in 0..(size - 1)
      /\ Ring!len = Used(head, tail, elements) /\ Ring!len \in 0..(size - 1) /\ Ring!len = Len(Ring!iter)
      /\ Ring!iter \in Seq(Slots)
      /\ \A i \in 1..Ring!len : Place(head, elements, i) \in 1..size
  BY RingType
<1>2. size \in RINGBUFFER_MIN..MaxSize
  BY DEF Ring!TypeOK, Ring!size
<1>3. ASSUME NEW i, NEW j PROVE Ring!Emptied(i, j) \in Seq(Slots) /\ Len(Ring!Emptied(i, j)) = size
  <2>1. Ring!Emptied(i, j) \in [1..size -> Slots]
    BY <1>1 DEF Ring!Emptied, Ring!size, Slots
  <2> QED
    BY <1>1, <2>1, FunctionIsSeq
<1>4. CASE n >= Ring!len
  <2>1. elements' = Ring!Emptied(head, Ring!len) /\ head' = 0 /\ tail' = 0
    BY <1>4 DEF Ring!discard
  <2>2. elements' \in Seq(Slots) /\ Len(elements') = size
    BY <1>3, <2>1
  <2> DEFINE q == SubSeq(Ring!iter, Ring!len + 1, Len(Ring!iter))
  <2>3. q \in Seq(Slots) /\ Len(q) = 0
    BY <1>1, Suffix
  <2> HIDE DEF q
  <2>4. Used(head', tail', elements') = 0
    BY <2>1 DEF Used
  <2>5. Ring!TypeOK' /\ Ring!iter' = q
    <3>1. Len(elements') \in RINGBUFFER_MIN..MaxSize
      BY <1>2, <2>2
    <3>2. head' \in 0..(Len(elements') - 1) /\ tail' \in 0..(Len(elements') - 1)
      BY <1>1, <2>1, <2>2
    <3>3. \A i \in 1..Len(q) : q[i] = elements'[Place(head', elements', i)]
      BY <2>3
    <3> QED
      BY <2>2, <2>3, <2>4, <3>1, <3>2, <3>3, RingStep
  <2> QED
    BY <1>1, <2>5 DEF q
<1>5. CASE ~(n >= Ring!len)
  <2>1. /\ elements' = Ring!Emptied(head, n) /\ UNCHANGED tail
        /\ head' = IF head + n < size THEN head + n ELSE head + n - size
    BY <1>5 DEF Ring!discard, Ring!size
  <2>2. elements' \in Seq(Slots) /\ Len(elements') = size
    BY <1>3, <2>1
  <2>3. ASSUME NEW i \in (n + 1)..Ring!len PROVE elements'[Place(head, elements, i)] = elements[Place(head, elements, i)]
    <3> DEFINE p == Place(head, elements, i)
    <3>1. i \in 1..Ring!len /\ p \in 1..size
      BY <1>1
    <3>2. p - 1 - head + size = IF head + i > size THEN i - 1 ELSE i - 1 + size
      BY <1>1, <3>1 DEF Place
    <3>3. p - 1 - head + size \in 0..(2 * size - 1)
      BY <1>1, <3>1, <3>2, SMTT(60)
    <3>4. (p - 1 - head + size) % size = i - 1
      <4> DEFINE x == p - 1 - head + size
      <4>1. x \in 0..(2 * size - 1) /\ x = IF head + i > size THEN i - 1 ELSE i - 1 + size
        BY <3>2, <3>3
      <4> HIDE DEF x, size
      <4>2. x % size = IF x < size THEN x ELSE x - size
        <5>1. size \in Nat /\ size > 0 /\ x \in 0..(2 * size - 1)
          BY <1>1, <4>1
        <5> QED
          BY <5>1, ModWrap
      <4>3. i \in Nat /\ i >= 1 /\ i <= size
        BY <1>1, <3>1
      <4>4. x % size = i - 1
        BY <1>1, <4>1, <4>2, <4>3
      <4> QED
        BY <4>4 DEF x, size
    <3> HIDE DEF p
    <3>5. ~((p - 1 - head + size) % size < n)
      BY <1>1, <3>1, <3>4
    <3> QED
      BY <2>1, <3>1, <3>5 DEF Ring!Emptied, Ring!size, p
  <2>4. Ring!TypeOK' /\ Ring!iter' = SubSeq(Ring!iter, n + 1, Len(Ring!iter))
    <3>1. n \in 0..Ring!len
      BY <1>1, <1>5
    <3> QED
      BY <2>1, <2>2, <2>3, <3>1, FrontStep
  <2>5. n \in 0..Len(Ring!iter)
    BY <1>1, <1>5
  <2> QED
    BY <2>4, <2>5
<1> QED
  BY <1>4, <1>5

(* shrink_to().                                                            *)
LEMMA ShrinkStep ==
    ASSUME Ring!TypeOK, NEW n \in Nat, Ring!shrink_to(n)
    PROVE  Ring!TypeOK' /\ Ring!iter' = Ring!iter
<1> DEFINE new == IF n >= Ring!len + 1 THEN n ELSE Ring!len + 1
           k == Ring!len
<1>1. /\ Ring!iter \in Seq(Slots) /\ k = Len(Ring!iter) /\ k \in Nat
  BY RingType
<1>2. /\ n >= RINGBUFFER_MIN /\ Len(elements) > new /\ elements' = Ring!Rebuilt(new) /\ head' = 0 /\ tail' = k
  BY DEF Ring!shrink_to, Ring!size
<1>3. new \in Nat /\ new > k /\ new >= RINGBUFFER_MIN
  BY <1>1, <1>2, RingAssumption
<1>4. new <= MaxSize
  <2>1. Len(elements) \in RINGBUFFER_MIN..MaxSize
    BY DEF Ring!TypeOK, Ring!size
  <2> QED
    BY <1>2, <1>3, <2>1, RingAssumption
<1> HIDE DEF new
<1>5. elements' \in Seq(Slots) /\ Len(elements') = new /\ \A i \in 1..k : elements'[i] = Ring!iter[i]
  BY <1>2, <1>3, RebuiltAre
<1> HIDE DEF k
<1>6. Used(head', tail', elements') = k /\ \A i \in 1..k : Place(head', elements', i) = i
  BY <1>1, <1>2, <1>3, <1>5 DEF Used, Place
<1>7. /\ Len(elements') \in RINGBUFFER_MIN..MaxSize
      /\ head' \in 0..(Len(elements') - 1) /\ tail' \in 0..(Len(elements') - 1)
  BY <1>1, <1>2, <1>3, <1>4, <1>5, RingAssumption
<1> QED
  BY <1>1, <1>5, <1>6, <1>7, RingStep

(* An element is changed.                                                  *)
LEMMA ChangeStep ==
    ASSUME Ring!TypeOK, NEW i \in Nat, NEW v \in Values, Ring!change(i, v)
    PROVE  Ring!TypeOK' /\ i + 1 \in 1..Len(Ring!iter) /\ Ring!iter' = [Ring!iter EXCEPT ![i + 1] = v]
<1> DEFINE q == [Ring!iter EXCEPT ![i + 1] = v]
           k == Ring!len
           size == Len(elements)
           p == Place(head, elements, i + 1)
<1>1. /\ elements \in Seq(Slots) /\ size \in Nat /\ size > 1 /\ head \in 0..(size - 1) /\ tail \in 0..(size - 1)
      /\ Ring!iter \in Seq(Slots) /\ Len(Ring!iter) = k /\ k = Used(head, tail, elements) /\ k \in 0..(size - 1)
      /\ \A j \in 1..k : Ring!iter[j] = elements[Place(head, elements, j)] /\ Place(head, elements, j) \in 1..size
  BY RingType
<1>2. size \in RINGBUFFER_MIN..MaxSize /\ v \in Slots
  BY DEF Ring!TypeOK, Ring!size, Slots
<1>3. i < k /\ UNCHANGED <<head, tail>>
  BY DEF Ring!change
<1>4. i + 1 \in 1..k
  BY <1>1, <1>3
<1>5. elements' = [elements EXCEPT ![p] = v]
  <2>1. (IF head + i >= size THEN head + i - size ELSE head + i) + 1 = p
    BY <1>1, <1>4 DEF Place
  <2> QED
    BY <2>1 DEF Ring!change, Ring!size
<1>6. p \in 1..size
  BY <1>1, <1>4
<1>7. \A j \in 1..k : j # i + 1 => Place(head, elements, j) # p
  <2>1. \A j \in 1..k : j \in 1..size
    BY <1>1
  <2> QED
    BY <1>1, <1>4, <2>1, PlaceFacts
<1> HIDE DEF p
<1>8. /\ elements' \in Seq(Slots) /\ Len(elements') = size /\ elements'[p] = v
      /\ \A j \in 1..size : j # p => elements'[j] = elements[j]
  BY <1>1, <1>2, <1>5, <1>6
<1>9. /\ q \in Seq(Slots) /\ Len(q) = k /\ q[i + 1] = v
      /\ \A j \in 1..k : j # i + 1 => q[j] = Ring!iter[j]
  BY <1>1, <1>2, <1>4
<1>10. Used(head', tail', elements') = k /\ \A j : Place(head', elements', j) = Place(head, elements, j)
  BY <1>1, <1>3, <1>8 DEF Used, Place
<1> HIDE DEF q, k
<1>11. ASSUME NEW j \in 1..k PROVE q[j] = elements'[Place(head', elements', j)]
  <2>1. CASE j = i + 1
    BY <1>8, <1>9, <1>10, <2>1 DEF p
  <2>2. CASE j # i + 1
    BY <1>1, <1>7, <1>8, <1>9, <1>10, <2>2
  <2> QED
    BY <2>1, <2>2
<1>12. Ring!TypeOK' /\ Ring!iter' = q
  BY <1>1, <1>2, <1>3, <1>8, <1>9, <1>10, <1>11, RingStep
<1> QED
  BY <1>1, <1>4, <1>12 DEF q

(* The empty ring has its type.                                            *)
LEMMA RingInit == Ring!Init => Ring!TypeOK
<1> SUFFICES ASSUME Ring!Init PROVE Ring!TypeOK
  OBVIOUS
<1>1. elements \in [1..RINGBUFFER_MIN -> Slots] /\ RINGBUFFER_MIN \in Nat
  BY RingAssumption DEF Ring!Init, Slots
<1>2. elements \in Seq(Slots) /\ Len(elements) = RINGBUFFER_MIN
  BY <1>1, FunctionIsSeq
<1> QED
  BY <1>2, RingAssumption DEF Ring!Init, Ring!TypeOK, Ring!size, Slots

(* Every step keeps the type, and is one of the queue or changes nothing   *)
(* that is seen of it.                                                     *)
LEMMA RingNext ==
    ASSUME Ring!TypeOK, Ring!Next
    PROVE  Ring!TypeOK' /\ (Ring!F!Next \/ Ring!iter' = Ring!iter)
<1>1. Ring!iter \in Seq(Slots) /\ Len(Ring!iter) \in Nat /\ Ring!len = Len(Ring!iter)
      /\ DOMAIN Ring!iter = 1..Len(Ring!iter)
  BY RingType
<1>2. ASSUME NEW v \in Values, Ring!push(v) PROVE Ring!TypeOK' /\ Ring!F!Push
  BY <1>2, PushStep DEF Ring!F!Push
<1>3. ASSUME NEW n \in 1..Len(Ring!iter), Ring!iter' = SubSeq(Ring!iter, n + 1, Len(Ring!iter)) PROVE Ring!F!Take
  BY <1>3 DEF Ring!F!Take
<1>4. CASE Ring!pop
  <2>1. Ring!TypeOK' /\ Ring!len > 0 /\ Ring!iter' = SubSeq(Ring!iter, 2, Len(Ring!iter))
    BY <1>4, PopStep
  <2>2. 1 \in 1..Len(Ring!iter) /\ 1 + 1 = 2
    BY <1>1, <2>1
  <2> QED
    BY <1>3, <2>1, <2>2 DEF Ring!F!Next
<1>5. ASSUME NEW n \in 0..MaxSize, Ring!discard(n) PROVE Ring!TypeOK' /\ (Ring!F!Take \/ Ring!iter' = Ring!iter)
  <2>1. n \in Nat
    BY RingAssumption
  <2>2. Ring!TypeOK' /\ \E j \in 0..Len(Ring!iter) : Ring!iter' = SubSeq(Ring!iter, j + 1, Len(Ring!iter))
    BY <1>5, <2>1, DiscardStep
  <2>3. PICK j \in 0..Len(Ring!iter) : Ring!iter' = SubSeq(Ring!iter, j + 1, Len(Ring!iter))
    BY <2>2
  <2>4. CASE j = 0
    <3>1. SubSeq(Ring!iter, 0 + 1, Len(Ring!iter)) = Ring!iter
      BY <1>1
    <3> QED
      BY <2>2, <2>3, <2>4, <3>1
  <2>5. CASE j # 0
    <3>1. j \in 1..Len(Ring!iter)
      BY <1>1, <2>5
    <3> QED
      BY <1>3, <2>2, <2>3, <3>1
  <2> QED
    BY <2>4, <2>5
<1>6. ASSUME NEW n \in 0..MaxSize, Ring!shrink_to(n) PROVE Ring!TypeOK' /\ Ring!iter' = Ring!iter
  <2>1. n \in Nat
    BY RingAssumption
  <2> QED
    BY <1>6, <2>1, ShrinkStep
<1>7. ASSUME NEW i \in 0..(MaxSize - 1), NEW v \in Values, Ring!change(i, v) PROVE Ring!TypeOK' /\ Ring!F!Change
  <2>1. i \in Nat
    BY RingAssumption
  <2>2. Ring!TypeOK' /\ i + 1 \in 1..Len(Ring!iter) /\ Ring!iter' = [Ring!iter EXCEPT ![i + 1] = v]
    BY <1>7, <2>1, ChangeStep
  <2> QED
    BY <1>1, <2>2 DEF Ring!F!Change
<1> QED
  BY <1>2, <1>4, <1>5, <1>6, <1>7 DEF Ring!Next, Ring!F!Next

-----------------------------------------------------------------------------
(* The rate limiter.                                                       *)

(* Division by a limit, and products with it.                              *)
LEMMA DivFacts ==
    ASSUME NEW a \in Nat, NEW d \in Nat, d > 0
    PROVE  a \div d \in Nat /\ d * (a \div d) <= a /\ a < d * (a \div d) + d
OBVIOUS

(* A quotient is at most what its multiple reaches.                        *)
LEMMA DivBound ==
    ASSUME NEW a \in Nat, NEW d \in Nat, d > 0, NEW q \in Int, a < d * q + d
    PROVE  a \div d <= q
OBVIOUS

(* Products with a limit keep the order.                                   *)
LEMMA ProductOrder ==
    ASSUME NEW a \in Int, NEW b \in Int, NEW d \in Nat, a <= b
    PROVE  d * a \in Int /\ d * b \in Int /\ d * a <= d * b
OBVIOUS

(* Products distribute.                                                    *)
LEMMA ProductSum ==
    ASSUME NEW a \in Int, NEW b \in Int, NEW d \in Int
    PROVE  d * (a + b) = d * a + d * b /\ d * (a - b) = d * a - d * b
OBVIOUS

(* The bytes of the batch that waits, if they were reserved since the      *)
(* measurement began; and the time the debt takes.                         *)
Pending == IF wait # Rate!Free /\ wait.fresh THEN wait.n ELSE 0
DebtTime == IF tokens < 0 THEN (-tokens) \div limit ELSE 0

(* What has been reserved since the measurement began, and what is left in *)
(* the bucket, is no more than a burst and the rate.                       *)
Budget ==
    IF last >= since
    THEN sent + Pending + tokens <= BURST + limit * (last - since)
    ELSE sent = 0 /\ Pending = 0

(* A batch waits until the debt is paid; nobody waits: it is paid.         *)
DebtPaid ==
    last # Rate!Never => IF wait # Rate!Free THEN wait.until = last + DebtTime
                                             ELSE now >= last + DebtTime

RateType ==
    /\ Rate!TypeOK
    /\ wait \in [n: {0} \cup Batches, until: Nat, fresh: BOOLEAN]
    /\ wait.n = 0 => wait = Rate!Free
    /\ last <= now
    /\ last = Rate!Never => tokens = BURST

RateInv == RateType /\ (limit # 0 => Budget /\ DebtPaid) /\ Rate!Paced

(* advance() gives at most a burst, and at most what time has brought.     *)
LEMMA Advance ==
    ASSUME RateType, limit # 0
    PROVE  /\ Rate!advance \in Int /\ Rate!advance <= BURST
           /\ last # Rate!Never => Rate!advance <= tokens + limit * (now - last)
           /\ Rate!advance < 0 => last # Rate!Never /\ Rate!advance = tokens + limit * (now - last)
<1>1. limit \in Nat /\ now \in Int /\ last \in Int /\ tokens \in Int /\ BURST \in Nat
  BY RateAssumption DEF RateType, Rate!TypeOK, Rate!Never
<1>2. limit * (now - last) \in Int
  BY <1>1
<1> QED
  BY <1>1, <1>2 DEF Rate!advance, Rate!cap_at_burst, RateType

(* At first nothing is owed.                                               *)
LEMMA RateInit == Rate!Init => RateInv
<1> SUFFICES ASSUME Rate!Init PROVE RateInv
  OBVIOUS
<1>1. RateType
  BY RateAssumption DEF RateType, Rate!TypeOK, Rate!Init, Rate!Free, Rate!Never
<1>2. Budget /\ DebtPaid
  BY DEF Budget, DebtPaid, Pending, Rate!Init, Rate!Never
<1>3. ASSUME limit # 0 PROVE sent <= BURST + limit * (now - since + 1)
  <2>1. limit \in Nat /\ now - since + 1 = 1 /\ sent = 0
    BY RateAssumption DEF Rate!Init
  <2> QED
    BY <2>1, RateAssumption
<1> QED
  BY <1>1, <1>2, <1>3 DEF RateInv, Rate!Paced, Rate!Init

(* A batch is reserved.                                                    *)
LEMMA RateReserve ==
    ASSUME RateInv, NEW n \in Batches, Rate!reserve_n(n)
    PROVE  RateInv'
<1>1. RateType /\ n \in Nat \ {0} /\ BURST \in Nat
  BY RateAssumption DEF RateInv
<1>2. /\ limit \in Nat /\ now \in Nat /\ last \in Int /\ tokens \in Int /\ since \in Nat
      /\ since <= now /\ sent \in Nat /\ last <= now /\ tokens <= BURST
  BY <1>1, RateAssumption DEF RateType, Rate!TypeOK, Rate!Never
<1>3. wait = Rate!Free /\ wait'.n = n /\ wait'.fresh /\ wait' # Rate!Free /\ Pending = 0
      /\ UNCHANGED <<limit, now, since, sent>>
  BY <1>1 DEF Rate!reserve_n, Rate!Free, Pending
<1>4. CASE limit = 0
  <2>1. wait' = [n |-> n, until |-> now, fresh |-> TRUE] /\ UNCHANGED <<tokens, last>>
    BY <1>4 DEF Rate!reserve_n
  <2>2. RateType'
    BY <1>1, <1>2, <1>3, <2>1 DEF RateType, Rate!TypeOK, Rate!Free
  <2> QED
    BY <1>3, <1>4, <2>2 DEF RateInv, Rate!Paced
<1>5. CASE limit # 0
  <2> DEFINE adv == Rate!advance
             t == adv - n
             d == IF t < 0 THEN (-t) \div limit ELSE 0
  <2>1. tokens' = t /\ last' = now /\ wait' = [n |-> n, fresh |-> TRUE, until |-> now + d]
    BY <1>5 DEF Rate!reserve_n, Rate!Owed
  <2>2. adv \in Int /\ adv <= BURST
    BY <1>1, <1>5, Advance
  <2> HIDE DEF adv
  <2>3. t \in Int /\ t <= BURST
    BY <1>1, <2>2
  <2>4. d \in Nat
    BY <1>2, <1>5, <2>3, DivFacts
  <2>5. DebtTime' = d
    BY <1>3, <2>1 DEF DebtTime
  <2> HIDE DEF d
  <2>6. RateType'
    <3>1. wait' \in [n: {0} \cup Batches, until: Nat, fresh: BOOLEAN]
      BY <1>2, <2>1, <2>4
    <3>2. /\ wait'.n = n /\ wait'.until = now + d /\ wait'.fresh = TRUE
      BY <2>1
    <3>3. last' # Rate!Never /\ last' \in 0..MaxTime
      BY <1>1, <1>2, <2>1 DEF RateType, Rate!TypeOK, Rate!Never
    <3> QED
      BY <1>1, <1>2, <1>3, <2>1, <2>3, <2>4, <3>1, <3>2, <3>3 DEF RateType, Rate!TypeOK
  <2>7. Budget'
    <3>1. Pending' = n
      BY <1>3 DEF Pending
    <3>2. sent + n + t <= BURST + limit * (now - since)
      <4>1. CASE last >= since
        <5>1. last # Rate!Never
          BY <1>2, <4>1 DEF Rate!Never
        <5>2. adv <= tokens + limit * (now - last)
          BY <1>1, <1>5, <5>1, Advance DEF adv
        <5>3. sent + tokens <= BURST + limit * (last - since)
          BY <1>2, <1>3, <1>5, <4>1 DEF RateInv, Budget
        <5>4. limit * (now - since) = limit * (now - last) + limit * (last - since)
          <6>1. now - since = (now - last) + (last - since)
            BY <1>2
          <6> QED
            BY <1>2, <6>1, ProductSum
        <5>5. limit * (now - last) \in Int /\ limit * (last - since) \in Int
          BY <1>2
        <5> QED
          BY <1>1, <1>2, <2>2, <5>2, <5>3, <5>4, <5>5
      <4>2. CASE ~(last >= since)
        <5>1. sent = 0
          BY <1>5, <4>2 DEF RateInv, Budget
        <5>2. limit * (now - since) >= limit * 0
          BY <1>2, ProductOrder
        <5>3. limit * (now - since) \in Int /\ limit * 0 = 0
          BY <1>2
        <5> QED
          BY <1>1, <1>2, <2>2, <5>1, <5>2, <5>3
      <4> QED
        BY <4>1, <4>2
    <3> QED
      BY <1>2, <1>3, <2>1, <3>1, <3>2 DEF Budget
  <2>8. DebtPaid'
    BY <1>3, <2>1, <2>5 DEF DebtPaid
  <2>9. d <= n \div limit + 1
    <3>1. n \div limit \in Nat /\ n < limit * (n \div limit) + limit
      BY <1>1, <1>2, <1>5, DivFacts
    <3>2. CASE t >= 0
      BY <2>3, <3>1, <3>2 DEF d
    <3>3. CASE t < 0
      <4>1. -t < n + limit
        <5>1. CASE adv >= 0
          BY <1>1, <1>2, <1>5, <2>2, <5>1
        <5>2. CASE adv < 0
          <6>1. last # Rate!Never /\ adv = tokens + limit * (now - last)
            BY <1>1, <1>5, <5>2, Advance DEF adv
          <6>2. now >= last + DebtTime
            BY <1>3, <1>5, <6>1 DEF RateInv, DebtPaid
          <6>3. now - last >= 0 /\ limit * (now - last) \in Int
            BY <1>2
          <6>4. limit * (now - last) >= limit * 0 /\ limit * 0 = 0
            BY <1>2, <6>3, ProductOrder
          <6>5. tokens < 0
            BY <1>2, <5>2, <6>1, <6>3, <6>4
          <6> DEFINE q == (-tokens) \div limit
          <6>6. q \in Nat /\ -tokens < limit * q + limit
            BY <1>2, <1>5, <6>5, DivFacts
          <6>7. q <= now - last
            BY <1>2, <6>2, <6>5, <6>6 DEF DebtTime
          <6> HIDE DEF q
          <6>8. limit * q <= limit * (now - last) /\ limit * q \in Int
            BY <1>2, <6>3, <6>6, <6>7, ProductOrder
          <6> QED
            BY <1>1, <1>2, <6>1, <6>3, <6>6, <6>8
        <5> QED
          BY <2>2, <5>1, <5>2
      <4> DEFINE m == n \div limit
      <4>2. limit * (m + 1) = limit * m + limit * 1 /\ limit * m \in Int /\ limit * 1 = limit
        BY <1>2, <3>1, ProductSum
      <4>3. -t < limit * (m + 1) + limit
        BY <1>1, <1>2, <2>3, <3>1, <4>1, <4>2
      <4>4. (-t) \div limit <= m + 1
        BY <1>2, <1>5, <2>3, <3>1, <3>3, <4>3, DivBound
      <4> QED
        BY <3>3, <4>4 DEF d
    <3> QED
      BY <2>3, <3>2, <3>3
  <2>10. Rate!Paced'
    <3>1. sent <= BURST + limit * (now - since + 1)
      BY <1>5 DEF RateInv, Rate!Paced
    <3>2. wait'.until - last' = d
      BY <1>2, <2>1, <2>4
    <3> QED
      BY <1>3, <2>9, <3>1, <3>2 DEF Rate!Paced
  <2> QED
    BY <2>6, <2>7, <2>8, <2>10 DEF RateInv
<1> QED
  BY <1>4, <1>5

(* A batch goes out.                                                       *)
LEMMA RateSend ==
    ASSUME RateInv, Rate!Send
    PROVE  RateInv'
<1>1. RateType /\ BURST \in Nat
  BY RateAssumption DEF RateInv
<1>2. /\ limit \in Nat /\ now \in Nat /\ last \in Int /\ tokens \in Int /\ since \in Nat
      /\ since <= now /\ sent \in Nat /\ last <= now /\ wait.n \in Nat /\ wait.until \in Nat
  <2>1. wait.n \in Nat /\ wait.until \in Nat
    <3>1. wait.n \in {0} \cup Batches /\ wait.until \in Nat
      BY <1>1 DEF RateType, Rate!TypeOK
    <3>2. wait.n = 0 \/ wait.n \in Nat \ {0}
      BY <3>1, RateAssumption, Zenon
    <3> QED
      BY <3>1, <3>2
  <2>2. limit \in Limits /\ tokens \in Int /\ now \in Nat /\ now <= MaxTime
        /\ since \in 0..now /\ sent \in Nat /\ last \in {-1} \cup 0..MaxTime /\ last <= now
    BY <1>1, RateAssumption DEF RateType, Rate!TypeOK, Rate!Never
  <2> QED
    BY <2>1, <2>2, RateAssumption
<1>3. /\ wait # Rate!Free /\ now >= wait.until /\ wait' = Rate!Free
      /\ sent' = IF wait.fresh /\ limit # 0 THEN sent + wait.n ELSE sent
      /\ UNCHANGED <<limit, tokens, last, now, since>>
  BY DEF Rate!Send
<1>4. RateType'
  <2>1. sent' \in Nat
    BY <1>2, <1>3
  <2> QED
    BY <1>1, <1>3, <2>1 DEF RateType, Rate!TypeOK, Rate!Free
<1>5. CASE limit = 0
  BY <1>3, <1>4, <1>5 DEF RateInv, Rate!Paced
<1>6. CASE limit # 0
  <2>1. sent' = sent + Pending /\ Pending' = 0 /\ Pending \in Nat
    BY <1>2, <1>3, <1>6 DEF Pending
  <2>2. Budget'
    BY <1>2, <1>3, <1>6, <2>1 DEF RateInv, Budget
  <2>3. last # Rate!Never => wait.until = last + DebtTime
    BY <1>3, <1>6 DEF RateInv, DebtPaid
  <2>4. DebtTime' = DebtTime
    BY <1>3 DEF DebtTime
  <2>5. DebtPaid'
    BY <1>3, <2>3, <2>4 DEF DebtPaid
  <2>6. sent' <= BURST + limit * (now - since + 1)
    <3>1. CASE last >= since
      <4>1. sent' + tokens <= BURST + limit * (last - since)
        BY <1>2, <1>6, <2>1, <3>1 DEF RateInv, Budget
      <4>2. last + DebtTime <= now /\ last # Rate!Never
        BY <1>2, <1>3, <2>3, <3>1 DEF Rate!Never
      <4>3. CASE tokens >= 0
        <5>1. limit * (last - since) <= limit * (now - since + 1)
          BY <1>2, ProductOrder
        <5>2. limit * (last - since) \in Int /\ limit * (now - since + 1) \in Int
          BY <1>2
        <5> QED
          BY <1>1, <1>2, <2>1, <4>1, <4>3, <5>1, <5>2
      <4>4. CASE tokens < 0
        <5> DEFINE q == (-tokens) \div limit
        <5>1. q \in Nat /\ -tokens < limit * q + limit
          BY <1>2, <1>6, <4>4, DivFacts
        <5>2. last + q <= now
          BY <4>2, <4>4 DEF DebtTime
        <5> HIDE DEF q
        <5>3. limit * (last - since) + limit * q = limit * ((last - since) + q)
          BY <1>2, <5>1, ProductSum
        <5>4. limit * ((last - since) + q) + limit * 1 = limit * (((last - since) + q) + 1)
          BY <1>2, <5>1, ProductSum
        <5>5. limit * (((last - since) + q) + 1) <= limit * (now - since + 1)
          BY <1>2, <5>1, <5>2, ProductOrder
        <5>6. /\ limit * (last - since) \in Int /\ limit * q \in Int /\ limit * (now - since + 1) \in Int
              /\ limit * ((last - since) + q) \in Int /\ limit * 1 = limit
              /\ limit * (((last - since) + q) + 1) \in Int
          BY <1>2, <5>1
        <5> QED
          BY <1>1, <1>2, <2>1, <4>1, <5>1, <5>3, <5>4, <5>5, <5>6
      <4> QED
        BY <1>2, <4>3, <4>4
    <3>2. CASE ~(last >= since)
      <4>1. sent' = 0
        BY <1>6, <2>1, <3>2 DEF RateInv, Budget
      <4>2. limit * (now - since + 1) >= limit * 0 /\ limit * 0 = 0 /\ limit * (now - since + 1) \in Int
        BY <1>2, ProductOrder
      <4> QED
        BY <1>1, <4>1, <4>2
    <3> QED
      BY <3>1, <3>2
  <2>7. Rate!Paced'
    BY <1>3, <2>6 DEF Rate!Paced
  <2> QED
    BY <1>4, <2>2, <2>5, <2>7 DEF RateInv
<1> QED
  BY <1>5, <1>6

(* The clock, another instant to measure from, and another rate.           *)
LEMMA RateOther ==
    ASSUME RateInv, Rate!Tick \/ Rate!Observe \/ \E r \in Limits : Rate!set_rate(r)
    PROVE  RateInv'
<1>1. RateType /\ BURST \in Nat
  BY RateAssumption DEF RateInv
<1>2. /\ limit \in Nat /\ now \in Nat /\ last \in Int /\ tokens \in Int /\ since \in Nat
      /\ since <= now /\ sent \in Nat /\ last <= now /\ wait.n \in Nat /\ wait.until \in Nat
      /\ MaxTime \in Nat
  <2>1. wait.n \in Nat /\ wait.until \in Nat
    <3>1. wait.n \in {0} \cup Batches /\ wait.until \in Nat
      BY <1>1 DEF RateType, Rate!TypeOK
    <3>2. wait.n = 0 \/ wait.n \in Nat \ {0}
      BY <3>1, RateAssumption, Zenon
    <3> QED
      BY <3>1, <3>2
  <2>2. limit \in Limits /\ tokens \in Int /\ now \in Nat /\ now <= MaxTime
        /\ since \in 0..now /\ sent \in Nat /\ last \in {-1} \cup 0..MaxTime /\ last <= now
    BY <1>1, RateAssumption DEF RateType, Rate!TypeOK, Rate!Never
  <2> QED
    BY <2>1, <2>2, RateAssumption
<1>3. CASE Rate!Tick
  <2>1. now' = now + 1 /\ now' \in 0..MaxTime /\ UNCHANGED <<limit, tokens, last, wait, since, sent>>
    BY <1>2, <1>3 DEF Rate!Tick
  <2>2. RateType'
    BY <1>1, <1>2, <2>1 DEF RateType, Rate!TypeOK
  <2>3. Pending' = Pending /\ DebtTime' = DebtTime
    BY <2>1 DEF Pending, DebtTime
  <2>4. ASSUME limit # 0 PROVE Budget' /\ DebtPaid'
    <3>1. DebtTime \in Int
      BY <1>2, <2>4, DivFacts DEF DebtTime
    <3> QED
      BY <1>2, <2>1, <2>3, <2>4, <3>1 DEF RateInv, Budget, DebtPaid
  <2>5. ASSUME limit # 0 PROVE sent <= BURST + limit * (now' - since + 1)
    <3>1. limit * (now - since + 1) <= limit * (now' - since + 1)
      BY <1>2, <2>1, ProductOrder
    <3>2. limit * (now - since + 1) \in Int /\ limit * (now' - since + 1) \in Int
      BY <1>2, <2>1
    <3>3. sent <= BURST + limit * (now - since + 1)
      BY <2>5 DEF RateInv, Rate!Paced
    <3> QED
      BY <1>1, <1>2, <3>1, <3>2, <3>3
  <2> QED
    BY <2>1, <2>2, <2>4, <2>5 DEF RateInv, Rate!Paced
<1>4. ASSUME UNCHANGED now, since' = now, sent' = 0, wait' = Rate!Older, RateType',
             limit' # 0 => Budget' /\ DebtPaid'
      PROVE  RateInv'
  <2>1. now' - since' + 1 = 1
    BY <1>2, <1>4
  <2>2. limit' \in Nat
    BY <1>4, RateAssumption DEF RateType, Rate!TypeOK
  <2>3. limit' * 1 = limit'
    <3>1. \A x \in Nat : x * 1 = x
      OBVIOUS
    <3> QED
      BY <2>2, <3>1
  <2>4. ~(wait' # Rate!Free /\ wait'.fresh)
    BY <1>1, <1>4 DEF Rate!Older, RateType
  <2>5. Rate!Paced'
    BY <1>1, <1>4, <2>1, <2>2, <2>3, <2>4 DEF Rate!Paced
  <2> QED
    BY <1>4, <2>5 DEF RateInv
<1>5. /\ Rate!Older \in [n: {0} \cup Batches, until: Nat, fresh: BOOLEAN]
      /\ Rate!Older.n = 0 => Rate!Older = Rate!Free
      /\ Rate!Older # Rate!Free => ~Rate!Older.fresh
      /\ Rate!Older # Rate!Free <=> wait # Rate!Free
      /\ Rate!Older.until = wait.until
  <2>1. CASE wait = Rate!Free
    BY <1>1, <2>1 DEF Rate!Older, RateType
  <2>2. CASE wait # Rate!Free
    <3>1. Rate!Older = [wait EXCEPT !.fresh = FALSE]
      BY <2>2 DEF Rate!Older
    <3> QED
      BY <1>1, <2>2, <3>1 DEF Rate!Free, RateType
  <2> QED
    BY <2>1, <2>2
<1>6. CASE Rate!Observe
  <2>1. since' = now /\ sent' = 0 /\ wait' = Rate!Older /\ UNCHANGED <<limit, tokens, last, now>>
    BY <1>6 DEF Rate!Observe
  <2>2. RateType'
    BY <1>1, <1>2, <1>5, <2>1 DEF RateType, Rate!TypeOK
  <2>3. Pending' = 0 /\ DebtTime' = DebtTime
    BY <1>5, <2>1 DEF Pending, DebtTime
  <2>4. ASSUME limit # 0 PROVE Budget' /\ DebtPaid'
    <3>1. DebtPaid'
      BY <1>5, <2>1, <2>3, <2>4 DEF RateInv, DebtPaid
    <3>2. ASSUME last >= now PROVE limit * (last - now) = 0
      BY <1>2, <3>2
    <3>3. tokens <= BURST
      BY <1>1 DEF RateType, Rate!TypeOK
    <3> QED
      BY <1>1, <1>2, <2>1, <2>3, <3>1, <3>2, <3>3 DEF Budget
  <2> QED
    BY <1>4, <2>1, <2>2, <2>4
<1>7. ASSUME NEW r \in Limits, Rate!set_rate(r) PROVE RateInv'
  <2>1. /\ limit' = r /\ tokens' = BURST /\ last' = Rate!Never /\ since' = now /\ sent' = 0
        /\ wait' = Rate!Older /\ UNCHANGED now
    BY <1>7 DEF Rate!set_rate, Rate!New
  <2>2. RateType'
    BY <1>1, <1>2, <1>5, <2>1 DEF RateType, Rate!TypeOK, Rate!Never
  <2>3. Pending' = 0
    BY <1>5, <2>1 DEF Pending
  <2>4. Budget' /\ DebtPaid'
    BY <1>2, <2>1, <2>3 DEF Budget, DebtPaid, Rate!Never
  <2> QED
    BY <1>4, <2>1, <2>2, <2>4
<1> QED
  BY <1>3, <1>6, <1>7

(* Every step of the limiter keeps its invariant.                          *)
LEMMA RateNext == RateInv /\ Rate!Next => RateInv'
BY RateReserve, RateSend, RateOther DEF Rate!Next

-----------------------------------------------------------------------------
(* The listener's Notify.                                                  *)

NotifyPlaces == {"away", "look", "hit", "sure", "parked", "woken", "done"}

(* notify_one() keeps the type; what it does is one of two things.         *)
LEMMA NotifyOneType ==
    ASSUME NEW T, NEW n \in L!NotifyType(T), NEW m \in L!NotifyOne(n)
    PROVE  /\ m \in L!NotifyType(T)
           /\ \/ m.at = n.at /\ \A u \in T : n.at[u] \notin {"look", "parked"}
              \/ \E u \in T : /\ n.at[u] \in {"look", "parked"}
                               /\ m.at = [n.at EXCEPT ![u] = IF n.at[u] = "look" THEN "hit" ELSE "woken"]
<1>1. DOMAIN n.at = T /\ n.at \in [T -> NotifyPlaces] /\ n.permit \in BOOLEAN
  BY DEF L!NotifyType, NotifyPlaces
<1>2. CASE {t \in DOMAIN n.at : n.at[t] \in {"look", "parked"}} = {}
  <2>1. m = [n EXCEPT !.permit = TRUE]
    BY <1>2 DEF L!NotifyOne
  <2>2. \A u \in T : n.at[u] \notin {"look", "parked"}
    BY <1>1, <1>2
  <2>3. m \in L!NotifyType(T) /\ m.at = n.at
    BY <2>1 DEF L!NotifyType
  <2> QED
    BY <2>2, <2>3
<1>3. CASE {t \in DOMAIN n.at : n.at[t] \in {"look", "parked"}} # {}
  <2>1. PICK u \in T : /\ n.at[u] \in {"look", "parked"}
                       /\ m = [n EXCEPT !.at[u] = IF @ = "look" THEN "hit" ELSE "woken"]
    BY <1>1, <1>3 DEF L!NotifyOne
  <2>2. m.at = [n.at EXCEPT ![u] = IF n.at[u] = "look" THEN "hit" ELSE "woken"]
    BY <2>1 DEF L!NotifyType
  <2>3. m \in L!NotifyType(T)
    BY <2>1 DEF L!NotifyType
  <2> QED
    BY <2>1, <2>2, <2>3
<1> QED
  BY <1>2, <1>3

(* The other operations.                                                   *)
LEMMA NotifyTypes ==
    ASSUME NEW T, NEW n \in L!NotifyType(T), NEW t \in T
    PROVE  /\ L!Enable(n, t) \in L!NotifyType(T)
           /\ L!Enable(n, t).at = [n.at EXCEPT ![t] = IF n.permit THEN "sure" ELSE "look"]
           /\ \A m \in L!Drop(n, t) : m \in L!NotifyType(T)
           /\ L!Looking(n, t) => L!Await(n, t) \in L!NotifyType(T)
<1>1. n = [permit |-> n.permit, at |-> n.at] /\ n.permit \in BOOLEAN /\ n.at \in [T -> NotifyPlaces]
  BY DEF L!NotifyType, NotifyPlaces
<1>2. /\ L!Enable(n, t) \in L!NotifyType(T)
      /\ L!Enable(n, t).at = [n.at EXCEPT ![t] = IF n.permit THEN "sure" ELSE "look"]
  BY <1>1 DEF L!Enable, L!NotifyType, NotifyPlaces
<1>3. ASSUME NEW m \in L!Drop(n, t) PROVE m \in L!NotifyType(T)
  <2> DEFINE rest == [n EXCEPT !.at[t] = "away"]
  <2>1. rest \in L!NotifyType(T)
    BY <1>1 DEF L!NotifyType, NotifyPlaces
  <2>2. m \in L!NotifyOne(rest) \/ m = rest
    BY DEF L!Drop
  <2> HIDE DEF rest
  <2> QED
    BY <2>1, <2>2, NotifyOneType
<1>4. L!Looking(n, t) => L!Await(n, t) \in L!NotifyType(T)
  <2> SUFFICES ASSUME L!Looking(n, t) PROVE L!Await(n, t) \in L!NotifyType(T)
    OBVIOUS
  <2>1. \E p \in NotifyPlaces : L!Await(n, t) = [n EXCEPT !.at[t] = p]
    <3>1. CASE n.at[t] = "look"
      BY <3>1 DEF L!Await, NotifyPlaces
    <3>2. CASE n.at[t] = "hit"
      BY <3>2 DEF L!Await, NotifyPlaces
    <3>3. CASE n.at[t] = "sure"
      BY <3>3 DEF L!Await, NotifyPlaces
    <3> QED
      BY <3>1, <3>2, <3>3 DEF L!Looking
  <2> QED
    BY <1>1, <2>1 DEF L!NotifyType, NotifyPlaces
<1> QED
  BY <1>2, <1>3, <1>4

-----------------------------------------------------------------------------
(* The listener: routing.                                                  *)

Listed == {"live", "closing"}
Held == {"live", "closing", "unlisted"}

ListenerType ==
    /\ L!TypeOK
    /\ mon.step \in {"register", "push"} => Len(accepts) < ACCEPT_BACKLOG
    /\ mon.step \notin {"idle", "stopped"} => mon.addr \in Addrs

(* The two maps against the sessions: `sessions' leads to the sessions     *)
(* that are not taken out, `by_conv' to those whose close() is not over,   *)
(* but for the one that is just being registered.                          *)
Born == \A s \in L!Ids : life[s] = "none" <=> s > Len(made)
ByAddr ==
    /\ \A a \in Addrs : sessions[a] # None =>
         life[sessions[a]] \in Listed /\ made[sessions[a]].addr = a
    /\ \A s \in L!Ids : life[s] \in Listed => sessions[made[s].addr] = s
    /\ \A s \in L!Ids : life[s] = "unlisted" => victim[s] = s
ByConv ==
    /\ \A c \in Convs : by_conv[c] # None =>
         life[by_conv[c]] \in Held /\ made[by_conv[c]].conv = c
    /\ \A s \in L!Ids : life[s] \in Held /\ ~(mon.step = "register" /\ mon.sess = s) =>
         by_conv[made[s].conv] = s

(* The packet in the monitor's hands resets the session it found.          *)
Resets == mon.sess # None /\ mon.zero /\ mon.conv # None /\ mon.conv # made[mon.sess].conv

(* What the monitor has read of the maps still holds when it uses it.      *)
MonitorSound ==
    /\ mon.step \in {"idle", "stopped"} => mon.sess = None
    /\ mon.sess # None => life[mon.sess] # "none"
    /\ mon.step \in {"find", "route"} /\ mon.sess = None => sessions[mon.addr] = None
    /\ mon.step = "route" /\ mon.sess = None /\ mon.conv # None => by_conv[mon.conv] = None
    /\ mon.step \in {"find", "route"} /\ Resets =>
         life[mon.sess] = "live" /\ made[mon.sess].addr = mon.addr /\ by_conv[mon.conv] = None
    /\ mon.step \in {"wait", "create", "register"} => mon.conv # None /\ by_conv[mon.conv] = None
    /\ mon.step = "wait" => /\ mon.sess # None /\ life[mon.sess] # "live"
                            /\ made[mon.sess].addr = mon.addr
                            /\ life[mon.sess] \in {"unlisted", "closed"} => sessions[mon.addr] = None
    /\ mon.step = "create" => sessions[mon.addr] = None
    /\ mon.step = "register" => /\ mon.sess # None /\ life[mon.sess] = "live"
                                /\ made[mon.sess].conv = mon.conv
    /\ mon.step = "push" => mon.sess # None

Errors == (failed => mon.step = "stopped") /\ L!ErrorReachesAll

RouteInv == ListenerType /\ Born /\ ByAddr /\ ByConv /\ MonitorSound /\ Errors

Record == [step: {"idle", "find", "route", "wait", "create", "register", "push", "stopped"},
           addr: Addrs \cup {None}, conv: Convs \cup {None}, zero: BOOLEAN,
           sess: L!Ids \cup {None}]

(* A session that was made has an address and a conversation.              *)
LEMMA MadeFacts ==
    ASSUME L!TypeOK, Born, NEW s \in L!Ids, life[s] # "none"
    PROVE  /\ s \in 1..Len(made) /\ s # None
           /\ made[s] \in [conv: Convs, addr: Addrs]
           /\ made[s].addr \in Addrs /\ made[s].conv \in Convs
<1>1. s \in Nat /\ s > 0 /\ Len(made) \in Nat /\ made \in Seq([conv: Convs, addr: Addrs])
  BY ListenerAssumption DEF L!TypeOK, L!Ids
<1>2. s \in 1..Len(made)
  BY <1>1 DEF Born
<1>3. made[s] \in [conv: Convs, addr: Addrs]
  <2>1. ASSUME NEW T, made \in Seq(T) PROVE made[s] \in T
    BY <1>2, <2>1
  <2> QED
    BY <1>1, <2>1
<1> QED
  BY <1>1, <1>2, <1>3, ListenerAssumption

(* None is not the name of anything.                                       *)
LEMMA NoneFacts ==
    /\ None \notin Addrs /\ None \notin Convs /\ \A s \in L!Ids : s # None
BY ListenerAssumption DEF L!Ids

(* A listener with no session.                                             *)
LEMMA RouteInit == L!Init => RouteInv
<1> SUFFICES ASSUME L!Init PROVE RouteInv
  OBVIOUS
<1>1. L!TypeOK
  <2>1. mon \in Record
    BY DEF L!Init, L!Idle, Record
  <2>2. accept_notify \in L!NotifyType(Acceptors)
    BY DEF L!Init, L!Fresh, L!NotifyType
  <2>3. Len(<<>>) = 0 /\ 0 <= ACCEPT_BACKLOG /\ 0 <= MaxSessions
    BY ListenerAssumption
  <2>4. made = <<>> /\ accepts = <<>>
    BY DEF L!Init
  <2>5. \A T : <<>> \in Seq(T)
    OBVIOUS
  <2>6. /\ made \in Seq([conv: Convs, addr: Addrs]) /\ Len(made) <= MaxSessions
        /\ accepts \in Seq(L!Ids) /\ Len(accepts) <= ACCEPT_BACKLOG
    BY <2>3, <2>4, <2>5
  <2>7. /\ life \in [L!Ids -> {"none", "live", "closing", "unlisted", "closed"}]
        /\ victim \in [L!Ids -> L!Ids \cup {None}]
        /\ sessions \in [Addrs -> L!Ids \cup {None}] /\ by_conv \in [Convs -> L!Ids \cup {None}]
    BY DEF L!Init
  <2>8. handed_out \subseteq L!Ids /\ failed \in BOOLEAN /\ told \subseteq L!Ids
    BY DEF L!Init
  <2> QED
    BY <2>1, <2>2, <2>6, <2>7, <2>8 DEF L!TypeOK, Record
<1>2. mon.step = "idle" /\ mon.sess = None
  BY DEF L!Init, L!Idle
<1>3. ListenerType
  BY <1>1, <1>2 DEF ListenerType
<1>4. \A s \in L!Ids : s > Len(made) /\ life[s] = "none"
  BY ListenerAssumption DEF L!Init, L!Ids
<1>5. Born /\ ByAddr /\ ByConv
  BY <1>4 DEF L!Init, Born, ByAddr, ByConv, Listed, Held
<1>6. MonitorSound /\ Errors
  BY <1>2 DEF L!Init, MonitorSound, Errors, L!ErrorReachesAll
<1> QED
  BY <1>3, <1>5, <1>6 DEF RouteInv

-----------------------------------------------------------------------------
(* Steps of the monitor that change nothing else.                          *)
LEMMA MonitorMoves ==
    ASSUME RouteInv, UNCHANGED <<made, life, victim, sessions, by_conv, accepts, handed_out, accept_notify>>,
           UNCHANGED <<failed, told>>, mon' \in Record,
           mon'.step \in {"register", "push"} => mon.step = "register",
           mon'.step \notin {"idle", "stopped"} => mon'.addr \in Addrs,
           mon.step # "register", mon'.step # "register", ~failed, MonitorSound'
    PROVE  RouteInv'
<1>1. ListenerType'
  BY DEF RouteInv, ListenerType, L!TypeOK, Record
<1>2. Born' /\ ByAddr'
  BY DEF RouteInv, Born, ByAddr
<1>3. ByConv'
  BY DEF RouteInv, ByConv
<1>4. Errors'
  BY DEF Errors, L!ErrorReachesAll
<1> QED
  BY <1>1, <1>2, <1>3, <1>4 DEF RouteInv

(* What the monitor holds.                                                 *)
LEMMA MonitorType ==
    ASSUME RouteInv
    PROVE  /\ L!TypeOK /\ mon \in Record
           /\ mon = [step |-> mon.step, addr |-> mon.addr, conv |-> mon.conv, zero |-> mon.zero,
                     sess |-> mon.sess]
           /\ mon.conv \in Convs \cup {None} /\ mon.sess \in L!Ids \cup {None}
           /\ mon.step \notin {"idle", "stopped"} => mon.addr \in Addrs
           /\ mon.step # "stopped" => ~failed
           /\ sessions \in [Addrs -> L!Ids \cup {None}] /\ by_conv \in [Convs -> L!Ids \cup {None}]
           /\ mon.zero \in BOOLEAN /\ mon.addr \in Addrs \cup {None}
<1>1. mon \in Record
  BY DEF RouteInv, ListenerType, L!TypeOK, Record
<1>2. /\ mon = [step |-> mon.step, addr |-> mon.addr, conv |-> mon.conv, zero |-> mon.zero,
                sess |-> mon.sess]
      /\ mon.conv \in Convs \cup {None} /\ mon.sess \in L!Ids \cup {None}
      /\ mon.zero \in BOOLEAN /\ mon.addr \in Addrs \cup {None}
  BY <1>1 DEF Record
<1> QED
  BY <1>1, <1>2 DEF RouteInv, ListenerType, L!TypeOK, Errors

(* A datagram arrives.                                                     *)
LEMMA StepRecv ==
    ASSUME RouteInv, NEW a \in Addrs, NEW c \in Convs \cup {None}, NEW zero \in BOOLEAN, L!MonRecv(a, c, zero)
    PROVE  RouteInv'
<1> DEFINE s == sessions[a]
<1>1. /\ mon.step = "idle" /\ mon' = [step |-> "find", addr |-> a, conv |-> c, zero |-> zero, sess |-> s]
      /\ zero /\ s # None /\ c # None => life[s] = "live" /\ by_conv[c] \in {None, s}
      /\ UNCHANGED <<made, life, victim, sessions, by_conv, accepts, handed_out, accept_notify>>
      /\ UNCHANGED <<failed, told>>
  BY DEF L!MonRecv, L!closing, L!maps, L!queue, L!errors
<1>2. s \in L!Ids \cup {None} /\ ~failed
  BY <1>1, MonitorType
<1>3. s # None => life[s] \in Listed /\ made[s].addr = a
  BY DEF RouteInv, ByAddr
<1>4. c # None => (by_conv[c] # None => made[by_conv[c]].conv = c)
  BY DEF RouteInv, ByConv
<1> HIDE DEF s
<1>5. /\ mon'.step = "find" /\ mon'.addr = a /\ mon'.conv = c /\ mon'.zero = zero /\ mon'.sess = s
  BY <1>1
<1>6. mon' \in Record
  BY <1>1, <1>2 DEF Record
<1>7. Resets' => zero /\ s # None /\ c # None /\ c # made[s].conv
  BY <1>1, <1>5 DEF Resets
<1>8. MonitorSound'
  BY <1>1, <1>3, <1>4, <1>5, <1>7 DEF MonitorSound, Listed, s
<1> QED
  BY <1>1, <1>2, <1>5, <1>6, <1>8, MonitorMoves

(* Its conversation is looked up.                                          *)
LEMMA StepFind ==
    ASSUME RouteInv, L!MonFind
    PROVE  RouteInv'
<1> DEFINE t == IF mon.sess = None /\ mon.conv # None THEN by_conv[mon.conv] ELSE mon.sess
<1>1. /\ mon.step = "find" /\ mon' = [mon EXCEPT !.step = "route", !.sess = t]
      /\ UNCHANGED <<made, life, victim, sessions, by_conv, accepts, handed_out, accept_notify>>
      /\ UNCHANGED <<failed, told>>
  BY MonitorType DEF L!MonFind, L!closing, L!maps, L!queue, L!errors
<1>2. t \in L!Ids \cup {None} /\ ~failed /\ mon.addr \in Addrs /\ mon.conv \in Convs \cup {None}
  BY <1>1, MonitorType
<1>3. mon.sess # t => mon.sess = None /\ mon.conv # None /\ t = by_conv[mon.conv]
  OBVIOUS
<1>4. mon.sess = None /\ mon.conv # None => t = by_conv[mon.conv]
  OBVIOUS
<1>5. mon.sess # t /\ t # None => life[t] \in Held /\ made[t].conv = mon.conv
  BY <1>2, <1>3 DEF RouteInv, ByConv
<1> HIDE DEF t
<1>6. /\ mon'.step = "route" /\ mon'.addr = mon.addr /\ mon'.conv = mon.conv
      /\ mon'.zero = mon.zero /\ mon'.sess = t
  BY <1>1, MonitorType
<1>7. mon' \in Record
  BY <1>1, <1>2, MonitorType DEF Record
<1>8. MonitorSound
  BY DEF RouteInv
<1>9. Resets' => mon.sess = t /\ Resets
  BY <1>1, <1>5, <1>6 DEF Resets
<1>10. MonitorSound'
  <2>1. mon'.sess # None => life'[mon'.sess] # "none"
    BY <1>1, <1>5, <1>6, <1>8 DEF MonitorSound, Held
  <2>2. mon'.sess = None => sessions'[mon'.addr] = None
    BY <1>1, <1>3, <1>6, <1>8 DEF MonitorSound
  <2>3. mon'.sess = None /\ mon'.conv # None => by_conv'[mon'.conv] = None
    BY <1>1, <1>3, <1>4, <1>6, <1>8
  <2>4. Resets' => life'[mon'.sess] = "live" /\ made'[mon'.sess].addr = mon'.addr /\ by_conv'[mon'.conv] = None
    BY <1>1, <1>6, <1>8, <1>9 DEF MonitorSound
  <2> QED
    BY <1>6, <2>1, <2>2, <2>3, <2>4 DEF MonitorSound
<1> QED
  BY <1>1, <1>2, <1>6, <1>7, <1>10, MonitorMoves

(* close() returns to the monitor.                                         *)
LEMMA StepWait ==
    ASSUME RouteInv, L!MonWait
    PROVE  RouteInv'
<1>1. /\ mon.step = "wait" /\ life[mon.sess] = "closed" /\ mon' = [mon EXCEPT !.step = "create"]
      /\ UNCHANGED <<made, life, victim, sessions, by_conv, accepts, handed_out, accept_notify>>
      /\ UNCHANGED <<failed, told>>
  BY DEF L!MonWait, L!closing, L!maps, L!queue, L!errors
<1>2. /\ mon'.step = "create" /\ mon'.addr = mon.addr /\ mon'.conv = mon.conv
      /\ mon'.zero = mon.zero /\ mon'.sess = mon.sess /\ mon' \in Record
  BY <1>1, MonitorType DEF Record
<1>3. MonitorSound'
  BY <1>1, <1>2 DEF RouteInv, MonitorSound
<1> QED
  BY <1>1, <1>2, <1>3, MonitorType, MonitorMoves

(* The packet goes to its session, creates one, or resets one.             *)
LEMMA StepRoute ==
    ASSUME RouteInv, L!MonRoute
    PROVE  RouteInv'
<1> DEFINE s == mon.sess
           reset == s # None /\ mon.conv \notin {None, made[s].conv} /\ mon.zero
<1>1. mon.step = "route" /\ UNCHANGED <<made, victim, sessions, by_conv, accepts, handed_out, accept_notify>>
      /\ UNCHANGED <<failed, told>>
  BY DEF L!MonRoute, L!maps, L!queue, L!errors
<1>2. ~failed /\ mon.addr \in Addrs /\ mon.conv \in Convs \cup {None} /\ s \in L!Ids \cup {None}
  BY <1>1, MonitorType
<1>3. reset <=> Resets
  BY DEF Resets
<1>4. MonitorSound
  BY DEF RouteInv
<1>5. CASE reset /\ life[s] = "live" /\ life' = [life EXCEPT ![s] = "closing"] /\ mon' = [mon EXCEPT !.step = "wait"]
  <2>1. /\ mon'.step = "wait" /\ mon'.addr = mon.addr /\ mon'.conv = mon.conv
        /\ mon'.zero = mon.zero /\ mon'.sess = s /\ mon' \in Record
    BY <1>5, MonitorType DEF Record
  <2>2. s \in L!Ids /\ s # None
    BY <1>2, <1>5
  <2>3. life \in [L!Ids -> {"none", "live", "closing", "unlisted", "closed"}]
    BY MonitorType DEF L!TypeOK
  <2>4. /\ life' \in [L!Ids -> {"none", "live", "closing", "unlisted", "closed"}] /\ life'[s] = "closing"
        /\ \A t \in L!Ids : t # s => life'[t] = life[t]
    BY <1>5, <2>2, <2>3
  <2>5. ListenerType'
    BY <1>1, <1>2, <2>1, <2>4 DEF RouteInv, ListenerType, L!TypeOK, Record
  <2>6. Born'
    BY <1>1, <1>5, <2>4 DEF RouteInv, Born
  <2>7. ByAddr'
    <3>1. \A a \in Addrs : sessions[a] \in L!Ids \cup {None}
      BY MonitorType
    <3> QED
      BY <1>1, <1>5, <2>2, <2>4, <3>1 DEF RouteInv, ByAddr, Listed
  <2>8. ByConv'
    <3>1. \A c \in Convs : by_conv[c] \in L!Ids \cup {None}
      BY MonitorType
    <3> QED
      BY <1>1, <1>5, <2>1, <2>2, <2>4, <3>1 DEF RouteInv, ByConv, Held
  <2>9. MonitorSound'
    <3>1. mon.conv # None /\ by_conv[mon.conv] = None /\ made[s].addr = mon.addr
      BY <1>1, <1>3, <1>4, <1>5 DEF MonitorSound
    <3> QED
      BY <1>1, <2>1, <2>2, <2>4, <3>1 DEF MonitorSound
  <2>10. Errors'
    BY <1>1, <1>2 DEF Errors, L!ErrorReachesAll
  <2> QED
    BY <2>5, <2>6, <2>7, <2>8, <2>9, <2>10 DEF RouteInv
<1>6. CASE /\ IF s = None THEN mon.conv # None ELSE reset /\ life[s] # "live"
           /\ mon' = [mon EXCEPT !.step = "create"] /\ UNCHANGED life
  <2>1. /\ mon'.step = "create" /\ mon'.addr = mon.addr /\ mon'.conv = mon.conv
        /\ mon'.zero = mon.zero /\ mon'.sess = s /\ mon' \in Record
    BY <1>6, MonitorType DEF Record
  <2>2. s = None /\ mon.conv # None
    BY <1>1, <1>3, <1>4, <1>6 DEF MonitorSound
  <2>3. MonitorSound'
    BY <1>1, <1>4, <1>6, <2>1, <2>2 DEF MonitorSound
  <2> QED
    BY <1>1, <1>2, <1>6, <2>1, <2>3, MonitorMoves
<1>7. CASE mon' = L!Idle /\ UNCHANGED life
  <2>1. mon'.step = "idle" /\ mon'.sess = None /\ mon' \in Record
    BY <1>7 DEF L!Idle, Record
  <2>2. MonitorSound'
    BY <2>1 DEF MonitorSound
  <2> QED
    BY <1>1, <1>2, <1>7, <2>1, <2>2, MonitorMoves
<1> QED
  BY <1>5, <1>6, <1>7 DEF L!MonRoute

(* A session is made, or the backlog is full.                              *)
LEMMA StepCreate ==
    ASSUME RouteInv, L!MonCreate
    PROVE  RouteInv'
<1>1. mon.step = "create" /\ UNCHANGED <<by_conv, accepts, handed_out, accept_notify>> /\ UNCHANGED <<failed, told>>
  BY DEF L!MonCreate, L!queue, L!errors
<1>2. ~failed /\ mon.addr \in Addrs /\ mon.conv \in Convs \cup {None} /\ L!TypeOK
  BY <1>1, MonitorType
<1>3. MonitorSound /\ Born /\ ByAddr /\ ByConv
  BY DEF RouteInv
<1>4. CASE Len(accepts) >= ACCEPT_BACKLOG
  <2>1. mon' = L!Idle /\ UNCHANGED <<made, life, victim, sessions>>
    BY <1>4 DEF L!MonCreate, L!closing
  <2>2. mon'.step = "idle" /\ mon'.sess = None /\ mon' \in Record
    BY <2>1 DEF L!Idle, Record
  <2>3. MonitorSound'
    BY <2>2 DEF MonitorSound
  <2> QED
    BY <1>1, <1>2, <2>1, <2>2, <2>3, MonitorMoves
<1>5. CASE ~(Len(accepts) >= ACCEPT_BACKLOG)
  <2> DEFINE s == Len(made) + 1
             m == [conv |-> mon.conv, addr |-> mon.addr]
  <2>1. /\ s <= MaxSessions /\ made' = Append(made, m)
        /\ life' = [life EXCEPT ![s] = "live"] /\ sessions' = [sessions EXCEPT ![mon.addr] = s]
        /\ mon' = [mon EXCEPT !.step = "register", !.sess = s] /\ UNCHANGED victim
    BY <1>5 DEF L!MonCreate
  <2>2. made \in Seq([conv: Convs, addr: Addrs]) /\ Len(made) \in Nat
    BY <1>2 DEF L!TypeOK
  <2>3. s \in L!Ids /\ s \in Nat /\ s # None
    BY <2>1, <2>2, ListenerAssumption DEF L!Ids
  <2>4. mon.conv \in Convs /\ by_conv[mon.conv] = None /\ sessions[mon.addr] = None
    BY <1>1, <1>2, <1>3 DEF MonitorSound
  <2>5. life[s] = "none"
    BY <1>3, <2>2, <2>3 DEF Born
  <2>6. m \in [conv: Convs, addr: Addrs] /\ m.conv = mon.conv /\ m.addr = mon.addr
    BY <1>2, <2>4
  <2> HIDE DEF m
  <2>7. /\ made' \in Seq([conv: Convs, addr: Addrs]) /\ Len(made') = s /\ made'[s] = m
        /\ \A t \in 1..Len(made) : made'[t] = made[t]
    BY <2>1, <2>2, <2>6
  <2> HIDE DEF s
  <2>8. \A t \in L!Ids : life[t] # "none" => t # s /\ made'[t] = made[t] /\ made[t].addr \in Addrs /\ made[t].conv \in Convs
    BY <1>2, <1>3, <2>5, <2>7, MadeFacts
  <2>9. /\ life' \in [L!Ids -> {"none", "live", "closing", "unlisted", "closed"}] /\ life'[s] = "live"
        /\ \A t \in L!Ids : t # s => life'[t] = life[t]
    BY <1>2, <2>1, <2>3 DEF L!TypeOK
  <2>10. /\ sessions' \in [Addrs -> L!Ids \cup {None}] /\ sessions'[mon.addr] = s
         /\ \A a \in Addrs : a # mon.addr => sessions'[a] = sessions[a]
    BY <1>2, <2>1, <2>3 DEF L!TypeOK
  <2>11. /\ mon'.step = "register" /\ mon'.addr = mon.addr /\ mon'.conv = mon.conv
         /\ mon'.zero = mon.zero /\ mon'.sess = s /\ mon' \in Record
    BY <2>1, <2>3, MonitorType DEF Record
  <2>12. ListenerType'
    <3>1. Len(accepts) < ACCEPT_BACKLOG
      BY <1>2, <1>5, ListenerAssumption DEF L!TypeOK
    <3>2. L!TypeOK'
      BY <1>1, <1>2, <2>1, <2>7, <2>9, <2>10, <2>11 DEF L!TypeOK, Record
    <3> QED
      BY <1>1, <1>2, <2>11, <3>1, <3>2 DEF ListenerType
  <2>13. Born'
    <3>1. \A t \in L!Ids : t \in Nat
      BY ListenerAssumption DEF L!Ids
    <3>2. s = Len(made) + 1
      BY DEF s
    <3> QED
      BY <1>3, <2>2, <2>7, <2>9, <3>1, <3>2 DEF Born
  <2>14. ByAddr'
    <3>1. \A a \in Addrs : sessions[a] \in L!Ids \cup {None}
      BY <1>2 DEF L!TypeOK
    <3>2. ASSUME NEW a \in Addrs, sessions'[a] # None
          PROVE  life'[sessions'[a]] \in Listed /\ made'[sessions'[a]].addr = a
      <4>1. CASE a = mon.addr
        BY <2>6, <2>7, <2>9, <2>10, <4>1 DEF Listed
      <4>2. CASE a # mon.addr
        <5>1. sessions'[a] = sessions[a] /\ sessions[a] \in L!Ids
          BY <2>10, <3>1, <3>2, <4>2
        <5>2. life[sessions[a]] \in Listed /\ made[sessions[a]].addr = a
          BY <1>3, <3>2, <5>1 DEF ByAddr
        <5>3. life[sessions[a]] # "none"
          BY <5>2 DEF Listed
        <5>4. sessions[a] # s /\ made'[sessions[a]] = made[sessions[a]]
          BY <2>8, <5>1, <5>3
        <5> QED
          BY <2>9, <5>1, <5>2, <5>4
      <4> QED
        BY <4>1, <4>2
    <3>3. ASSUME NEW t \in L!Ids, life'[t] \in Listed PROVE sessions'[made'[t].addr] = t
      <4>1. CASE t = s
        BY <2>6, <2>7, <2>10, <4>1
      <4>2. CASE t # s
        <5>1. life[t] \in Listed
          BY <2>9, <3>3, <4>2
        <5>2. life[t] # "none"
          BY <5>1 DEF Listed
        <5>3. made'[t] = made[t] /\ made[t].addr \in Addrs
          BY <2>8, <5>2
        <5>4. sessions[made[t].addr] = t
          BY <1>3, <5>1 DEF ByAddr
        <5>5. made[t].addr # mon.addr
          BY <2>4, <5>4, NoneFacts
        <5> QED
          BY <2>10, <5>3, <5>4, <5>5
      <4> QED
        BY <4>1, <4>2
    <3>4. ASSUME NEW t \in L!Ids, life'[t] = "unlisted" PROVE victim'[t] = t
      BY <1>3, <2>1, <2>9, <3>4 DEF ByAddr
    <3> QED
      BY <3>2, <3>3, <3>4 DEF ByAddr
  <2>15. ByConv'
    <3>1. \A c \in Convs : by_conv[c] \in L!Ids \cup {None}
      BY <1>2 DEF L!TypeOK
    <3>2. ASSUME NEW c \in Convs, by_conv[c] # None
          PROVE  life'[by_conv[c]] \in Held /\ made'[by_conv[c]].conv = c
      <4>1. by_conv[c] \in L!Ids /\ life[by_conv[c]] \in Held /\ made[by_conv[c]].conv = c
        BY <1>3, <3>1, <3>2 DEF ByConv
      <4>2. life[by_conv[c]] # "none"
        BY <4>1 DEF Held
      <4> QED
        BY <2>8, <2>9, <4>1, <4>2
    <3>3. ASSUME NEW t \in L!Ids, life'[t] \in Held, t # s PROVE by_conv[made'[t].conv] = t
      <4>1. life[t] \in Held
        BY <2>9, <3>3
      <4>2. life[t] # "none"
        BY <4>1 DEF Held
      <4> QED
        BY <1>1, <1>3, <2>8, <4>1, <4>2 DEF ByConv
    <3> QED
      BY <1>1, <2>11, <3>2, <3>3 DEF ByConv
  <2>16. MonitorSound'
    BY <1>1, <2>3, <2>4, <2>6, <2>7, <2>9, <2>11, NoneFacts DEF MonitorSound
  <2>17. Errors'
    BY <1>1, <1>2 DEF Errors, L!ErrorReachesAll
  <2> QED
    BY <2>12, <2>13, <2>14, <2>15, <2>16, <2>17 DEF RouteInv
<1> QED
  BY <1>4, <1>5

(* The session gets its conversation.                                      *)
LEMMA StepRegister ==
    ASSUME RouteInv, L!MonRegister
    PROVE  RouteInv'
<1> DEFINE s == mon.sess
           c == mon.conv
<1>1. /\ mon.step = "register" /\ mon' = [mon EXCEPT !.step = "push"]
      /\ by_conv' = [by_conv EXCEPT ![c] = IF @ = None THEN s ELSE @]
      /\ UNCHANGED <<made, life, victim, sessions, accepts, handed_out, accept_notify>> /\ UNCHANGED <<failed, told>>
  BY DEF L!MonRegister, L!closing, L!queue, L!errors
<1>2. MonitorSound /\ Born /\ ByAddr /\ ByConv /\ L!TypeOK /\ ~failed /\ mon.addr \in Addrs
  BY <1>1, MonitorType DEF RouteInv
<1>3. /\ c \in Convs /\ by_conv[c] = None /\ s \in L!Ids /\ s # None /\ life[s] = "live" /\ made[s].conv = c
  BY <1>1, <1>2, MonitorType DEF MonitorSound
<1>4. /\ by_conv' \in [Convs -> L!Ids \cup {None}] /\ by_conv'[c] = s
      /\ \A d \in Convs : d # c => by_conv'[d] = by_conv[d]
  BY <1>1, <1>2, <1>3 DEF L!TypeOK
<1>5. /\ mon'.step = "push" /\ mon'.addr = mon.addr /\ mon'.sess = s /\ mon' \in Record
  BY <1>1, MonitorType DEF Record
<1>6. ListenerType'
  <2>1. L!TypeOK'
    BY <1>1, <1>2, <1>4, <1>5 DEF L!TypeOK, Record
  <2> QED
    BY <1>1, <1>2, <1>5, <2>1 DEF RouteInv, ListenerType
<1>7. Born' /\ ByAddr'
  BY <1>1, <1>2 DEF Born, ByAddr
<1>8. ByConv'
  <2>1. ASSUME NEW d \in Convs, by_conv'[d] # None
        PROVE  life[by_conv'[d]] \in Held /\ made[by_conv'[d]].conv = d
    <3>1. CASE d = c
      BY <1>3, <1>4, <3>1 DEF Held
    <3>2. CASE d # c
      BY <1>2, <1>4, <2>1, <3>2 DEF ByConv
    <3> QED
      BY <3>1, <3>2
  <2>2. ASSUME NEW t \in L!Ids, life[t] \in Held PROVE by_conv'[made[t].conv] = t
    <3>1. CASE t = s
      BY <1>3, <1>4, <3>1
    <3>2. CASE t # s
      <4>1. by_conv[made[t].conv] = t
        BY <1>2, <2>2, <3>2 DEF ByConv
      <4>2. life[t] # "none"
        BY <2>2 DEF Held
      <4>3. made[t].conv \in Convs /\ t # None
        BY <1>2, <4>2, MadeFacts
      <4> QED
        BY <1>3, <1>4, <4>1, <4>3
    <3> QED
      BY <3>1, <3>2
  <2> QED
    BY <1>1, <2>1, <2>2 DEF ByConv
<1>9. MonitorSound'
  BY <1>1, <1>3, <1>5 DEF MonitorSound
<1>10. Errors'
  BY <1>1, <1>2 DEF Errors, L!ErrorReachesAll
<1> QED
  BY <1>6, <1>7, <1>8, <1>9, <1>10 DEF RouteInv

(* A session is queued, or the monitor ends.                               *)
LEMMA StepPush ==
    ASSUME RouteInv, L!MonPush
    PROVE  RouteInv'
<1>1. /\ mon.step = "push" /\ mon' = L!Idle /\ accepts' = Append(accepts, mon.sess)
      /\ accept_notify' \in L!NotifyOne(accept_notify)
      /\ UNCHANGED <<made, life, victim, sessions, by_conv, handed_out>> /\ UNCHANGED <<failed, told>>
  BY DEF L!MonPush, L!closing, L!maps, L!errors
<1>2. MonitorSound /\ Born /\ ByAddr /\ ByConv /\ L!TypeOK /\ ~failed /\ Len(accepts) < ACCEPT_BACKLOG
  BY <1>1, MonitorType DEF RouteInv, ListenerType
<1>3. mon.sess \in L!Ids
  BY <1>1, <1>2, MonitorType DEF MonitorSound
<1>4. mon'.step = "idle" /\ mon'.sess = None /\ mon' \in Record
  BY <1>1 DEF L!Idle, Record
<1>5. ListenerType'
  <2>1. accept_notify' \in L!NotifyType(Acceptors)
    BY <1>1, <1>2, NotifyOneType DEF L!TypeOK
  <2>2. accepts' \in Seq(L!Ids) /\ Len(accepts') <= ACCEPT_BACKLOG
    BY <1>1, <1>2, <1>3, ListenerAssumption DEF L!TypeOK
  <2> QED
    BY <1>1, <1>2, <1>4, <2>1, <2>2 DEF ListenerType, L!TypeOK, Record
<1>6. Born' /\ ByAddr'
  BY <1>1, <1>2 DEF Born, ByAddr
<1>7. ByConv'
  BY <1>1, <1>2, <1>4 DEF ByConv
<1>8. MonitorSound'
  BY <1>4 DEF MonitorSound
<1>9. Errors'
  BY <1>1, <1>2 DEF Errors, L!ErrorReachesAll
<1> QED
  BY <1>5, <1>6, <1>7, <1>8, <1>9 DEF RouteInv

(* The socket fails, and everyone is told.                                 *)
LEMMA StepStop ==
    ASSUME RouteInv, NEW error \in BOOLEAN, L!MonStop(error)
    PROVE  RouteInv'
<1>1. /\ mon.step = "idle" /\ mon' = [mon EXCEPT !.step = "stopped"] /\ failed' = error
      /\ told' = IF error THEN {sessions[a] : a \in Addrs} \ {None} ELSE told
      /\ UNCHANGED <<made, life, victim, sessions, by_conv, accepts, handed_out, accept_notify>>
  BY DEF L!MonStop, L!closing, L!maps, L!queue
<1>2. MonitorSound /\ Born /\ ByAddr /\ ByConv /\ L!TypeOK
  BY MonitorType DEF RouteInv, ListenerType
<1>3. mon'.step = "stopped" /\ mon'.sess = mon.sess /\ mon' \in Record /\ mon.sess = None
  BY <1>1, <1>2, MonitorType DEF Record, MonitorSound
<1>4. ListenerType'
  <2>1. told' \subseteq L!Ids
    BY <1>1, <1>2 DEF L!TypeOK
  <2> QED
    BY <1>1, <1>2, <1>3, <2>1 DEF ListenerType, L!TypeOK, Record
<1>5. Born' /\ ByAddr'
  BY <1>1, <1>2 DEF Born, ByAddr
<1>6. ByConv'
  BY <1>1, <1>2, <1>3 DEF ByConv
<1>7. MonitorSound'
  BY <1>3 DEF MonitorSound
<1>8. Errors'
  <2>1. ASSUME failed', NEW s \in 1..Len(made), life[s] = "live" PROVE s \in told'
    <3>1. s \in L!Ids
      BY <1>2, ListenerAssumption DEF L!TypeOK, L!Ids
    <3>2. sessions[made[s].addr] = s /\ made[s].addr \in Addrs /\ s # None
      BY <1>2, <2>1, <3>1, MadeFacts DEF ByAddr, Listed
    <3> QED
      BY <1>1, <2>1, <3>2
  <2> QED
    BY <1>1, <1>3, <2>1 DEF Errors, L!ErrorReachesAll, L!Existing
<1> QED
  BY <1>4, <1>5, <1>6, <1>7, <1>8 DEF RouteInv

-----------------------------------------------------------------------------
(* close().                                                                *)

(* The application begins: not with a session in the monitor's hands.      *)
LEMMA StepCloseBegin ==
    ASSUME RouteInv, NEW s \in L!Ids, L!CloseBegin(s)
    PROVE  RouteInv'
<1>1. /\ mon.sess # s /\ life[s] = "live" /\ life' = [life EXCEPT ![s] = "closing"]
      /\ UNCHANGED <<made, victim, sessions, by_conv, accepts, handed_out, accept_notify, mon>> /\ UNCHANGED <<failed, told>>
  BY DEF L!CloseBegin, L!maps, L!queue, L!errors
<1>2. MonitorSound /\ Born /\ ByAddr /\ ByConv /\ Errors /\ L!TypeOK
  BY DEF RouteInv, ListenerType
<1>3. /\ life' \in [L!Ids -> {"none", "live", "closing", "unlisted", "closed"}] /\ life'[s] = "closing"
      /\ \A t \in L!Ids : t # s => life'[t] = life[t]
  BY <1>1, <1>2 DEF L!TypeOK
<1>4. /\ \A a \in Addrs : sessions[a] \in L!Ids \cup {None}
      /\ \A c \in Convs : by_conv[c] \in L!Ids \cup {None}
      /\ mon.sess \in L!Ids \cup {None} /\ s # None
  BY <1>2, MonitorType, NoneFacts
<1>5. ListenerType'
  BY <1>1, <1>3 DEF RouteInv, ListenerType, L!TypeOK
<1>6. Born'
  BY <1>1, <1>2, <1>3 DEF Born
<1>7. ByAddr'
  BY <1>1, <1>2, <1>3, <1>4 DEF ByAddr, Listed
<1>8. ByConv'
  BY <1>1, <1>2, <1>3, <1>4 DEF ByConv, Held
<1>9. MonitorSound'
  <2>1. mon.sess # None => life'[mon.sess] = life[mon.sess]
    BY <1>1, <1>3, <1>4
  <2>2. Resets' <=> Resets
    BY <1>1 DEF Resets
  <2>3. mon.step = "wait" => life'[mon.sess] = life[mon.sess]
    BY <1>2, <2>1 DEF MonitorSound
  <2>4. mon.step = "register" => life'[mon.sess] = life[mon.sess]
    BY <1>2, <2>1 DEF MonitorSound
  <2>5. Resets => life'[mon.sess] = life[mon.sess]
    BY <2>1 DEF Resets
  <2> QED
    BY <1>1, <1>2, <2>1, <2>2, <2>3, <2>4, <2>5 DEF MonitorSound
<1>10. Errors'
  <2>1. \A t \in 1..Len(made) : t \in L!Ids
    BY <1>2, ListenerAssumption DEF L!TypeOK, L!Ids
  <2> QED
    BY <1>1, <1>2, <1>3, <2>1 DEF Errors, L!ErrorReachesAll, L!Existing
<1> QED
  BY <1>5, <1>6, <1>7, <1>8, <1>9, <1>10 DEF RouteInv

(* The session leaves the map of addresses, and it is this session that    *)
(* leaves it.                                                              *)
LEMMA StepCloseRemove ==
    ASSUME RouteInv, NEW s \in L!Ids, L!CloseRemove(s)
    PROVE  RouteInv'
<1> DEFINE a == made[s].addr
<1>1. /\ life[s] = "closing" /\ life' = [life EXCEPT ![s] = "unlisted"]
      /\ victim' = [victim EXCEPT ![s] = sessions[a]] /\ sessions' = [sessions EXCEPT ![a] = None]
      /\ UNCHANGED <<made, by_conv, accepts, handed_out, accept_notify, mon>> /\ UNCHANGED <<failed, told>>
  BY DEF L!CloseRemove, L!queue, L!errors
<1>2. MonitorSound /\ Born /\ ByAddr /\ ByConv /\ Errors /\ L!TypeOK
  BY DEF RouteInv, ListenerType
<1>3. /\ life' \in [L!Ids -> {"none", "live", "closing", "unlisted", "closed"}] /\ life'[s] = "unlisted"
      /\ \A t \in L!Ids : t # s => life'[t] = life[t]
  BY <1>1, <1>2 DEF L!TypeOK
<1>4. a \in Addrs /\ sessions[a] = s /\ s # None
  BY <1>1, <1>2, MadeFacts DEF ByAddr, Listed
<1>5. /\ sessions' \in [Addrs -> L!Ids \cup {None}] /\ sessions'[a] = None
      /\ \A b \in Addrs : b # a => sessions'[b] = sessions[b]
  BY <1>1, <1>2, <1>4 DEF L!TypeOK
<1>6. /\ victim' \in [L!Ids -> L!Ids \cup {None}] /\ victim'[s] = s
      /\ \A t \in L!Ids : t # s => victim'[t] = victim[t]
  BY <1>1, <1>2, <1>4 DEF L!TypeOK
<1>7. /\ \A b \in Addrs : sessions[b] \in L!Ids \cup {None}
      /\ \A c \in Convs : by_conv[c] \in L!Ids \cup {None}
      /\ mon.sess \in L!Ids \cup {None}
  BY <1>2, MonitorType
<1>8. ListenerType'
  BY <1>1, <1>3, <1>5, <1>6 DEF RouteInv, ListenerType, L!TypeOK
<1>9. Born'
  BY <1>1, <1>2, <1>3 DEF Born
<1>10. ByAddr'
  <2>1. ASSUME NEW b \in Addrs, sessions'[b] # None
        PROVE  life'[sessions'[b]] \in Listed /\ made[sessions'[b]].addr = b
    <3>1. b # a /\ sessions'[b] = sessions[b] /\ sessions[b] \in L!Ids
      BY <1>5, <1>7, <2>1
    <3>2. life[sessions[b]] \in Listed /\ made[sessions[b]].addr = b
      BY <1>2, <2>1, <3>1 DEF ByAddr
    <3> QED
      BY <1>3, <3>1, <3>2
  <2>2. ASSUME NEW t \in L!Ids, life'[t] \in Listed PROVE sessions'[made[t].addr] = t
    <3>1. t # s /\ life[t] \in Listed
      BY <1>3, <2>2 DEF Listed
    <3>2. sessions[made[t].addr] = t
      BY <1>2, <3>1 DEF ByAddr
    <3>3. made[t].addr \in Addrs
      BY <1>2, <3>1, MadeFacts DEF Listed
    <3> QED
      BY <1>4, <1>5, <3>1, <3>2, <3>3
  <2>3. ASSUME NEW t \in L!Ids, life'[t] = "unlisted" PROVE victim'[t] = t
    BY <1>2, <1>3, <1>6, <2>3 DEF ByAddr
  <2> QED
    BY <1>1, <2>1, <2>2, <2>3 DEF ByAddr
<1>11. ByConv'
  BY <1>1, <1>2, <1>3, <1>7 DEF ByConv, Held
<1>12. MonitorSound'
  <2>1. \A b \in Addrs : sessions[b] = None => sessions'[b] = None
    BY <1>5
  <2>2. Resets' <=> Resets
    BY <1>1 DEF Resets
  <2>3. /\ mon.step # "idle" /\ mon.step # "stopped" => mon.addr \in Addrs
    BY MonitorType
  <2>4. mon.sess \in L!Ids => /\ life[mon.sess] = "live" => life'[mon.sess] = "live"
                              /\ life[mon.sess] # "live" => life'[mon.sess] # "live"
                              /\ life[mon.sess] # "none" => life'[mon.sess] # "none"
    BY <1>1, <1>3
  <2>5. mon.sess # None => mon.sess \in L!Ids
    BY <1>7
  <2>6. mon.step = "wait" /\ life'[mon.sess] \in {"unlisted", "closed"} => sessions'[mon.addr] = None
    <3> SUFFICES ASSUME mon.step = "wait", life'[mon.sess] \in {"unlisted", "closed"} PROVE sessions'[mon.addr] = None
      OBVIOUS
    <3>1. mon.sess \in L!Ids /\ made[mon.sess].addr = mon.addr
      BY <1>2, <2>5 DEF MonitorSound
    <3>2. CASE mon.sess = s
      BY <1>5, <3>1, <3>2
    <3>3. CASE mon.sess # s
      BY <1>2, <1>3, <2>1, <2>3, <3>1, <3>3 DEF MonitorSound
    <3> QED
      BY <3>2, <3>3
  <2> QED
    BY <1>1, <1>2, <2>1, <2>2, <2>3, <2>4, <2>5, <2>6 DEF MonitorSound, Resets
<1>13. Errors'
  <2>1. \A t \in 1..Len(made) : t \in L!Ids
    BY <1>2, ListenerAssumption DEF L!TypeOK, L!Ids
  <2> QED
    BY <1>1, <1>2, <1>3, <2>1 DEF Errors, L!ErrorReachesAll, L!Existing
<1> QED
  BY <1>8, <1>9, <1>10, <1>11, <1>12, <1>13 DEF RouteInv

(* And it leaves the map of conversations.                                 *)
LEMMA StepCloseAlias ==
    ASSUME RouteInv, NEW s \in L!Ids, L!CloseAlias(s)
    PROVE  RouteInv'
<1> DEFINE c == made[s].conv
<1>1. MonitorSound /\ Born /\ ByAddr /\ ByConv /\ Errors /\ L!TypeOK
  BY DEF RouteInv, ListenerType
<1>2. /\ life[s] = "unlisted" /\ life' = [life EXCEPT ![s] = "closed"]
      /\ victim' = [victim EXCEPT ![s] = None]
      /\ UNCHANGED <<made, sessions, accepts, handed_out, accept_notify, mon>> /\ UNCHANGED <<failed, told>>
  BY DEF L!CloseAlias, L!queue, L!errors
<1>3. victim[s] = s /\ s # None
  BY <1>1, <1>2, NoneFacts DEF ByAddr
<1>4. c \in Convs
  BY <1>1, <1>2, MadeFacts
<1>5. by_conv[c] = s
  <2>1. ~(mon.step = "register" /\ mon.sess = s)
    BY <1>1, <1>2 DEF MonitorSound
  <2> QED
    BY <1>1, <1>2, <2>1 DEF ByConv, Held
<1>6. /\ by_conv' \in [Convs -> L!Ids \cup {None}] /\ by_conv'[c] = None
      /\ \A d \in Convs : d # c => by_conv'[d] = by_conv[d]
  <2>1. by_conv' = [by_conv EXCEPT ![c] = None]
    BY <1>3, <1>5 DEF L!CloseAlias
  <2> QED
    BY <1>1, <1>4, <2>1 DEF L!TypeOK
<1>7. /\ life' \in [L!Ids -> {"none", "live", "closing", "unlisted", "closed"}] /\ life'[s] = "closed"
      /\ \A t \in L!Ids : t # s => life'[t] = life[t]
  BY <1>1, <1>2 DEF L!TypeOK
<1>8. /\ victim' \in [L!Ids -> L!Ids \cup {None}]
      /\ \A t \in L!Ids : t # s => victim'[t] = victim[t]
  BY <1>1, <1>2 DEF L!TypeOK
<1>9. /\ \A b \in Addrs : sessions[b] \in L!Ids \cup {None}
      /\ \A d \in Convs : by_conv[d] \in L!Ids \cup {None}
      /\ mon.sess \in L!Ids \cup {None} /\ mon.conv \in Convs \cup {None}
  BY <1>1, MonitorType
<1>10. ListenerType'
  BY <1>2, <1>6, <1>7, <1>8 DEF RouteInv, ListenerType, L!TypeOK
<1>11. Born'
  BY <1>1, <1>2, <1>7 DEF Born
<1>12. ByAddr'
  BY <1>1, <1>2, <1>7, <1>8, <1>9 DEF ByAddr, Listed
<1>13. ByConv'
  <2>1. ASSUME NEW d \in Convs, by_conv'[d] # None
        PROVE  life'[by_conv'[d]] \in Held /\ made[by_conv'[d]].conv = d
    <3>1. d # c /\ by_conv'[d] = by_conv[d] /\ by_conv[d] \in L!Ids
      BY <1>6, <1>9, <2>1
    <3>2. life[by_conv[d]] \in Held /\ made[by_conv[d]].conv = d
      BY <1>1, <2>1, <3>1 DEF ByConv
    <3> QED
      BY <1>7, <3>1, <3>2
  <2>2. ASSUME NEW t \in L!Ids, life'[t] \in Held, ~(mon.step = "register" /\ mon.sess = t)
        PROVE  by_conv'[made[t].conv] = t
    <3>1. t # s /\ life[t] \in Held
      BY <1>7, <2>2 DEF Held
    <3>2. by_conv[made[t].conv] = t
      BY <1>1, <2>2, <3>1 DEF ByConv
    <3>3. made[t].conv \in Convs
      BY <1>1, <3>1, MadeFacts DEF Held
    <3> QED
      BY <1>5, <1>6, <3>1, <3>2, <3>3
  <2> QED
    BY <1>2, <2>1, <2>2 DEF ByConv
<1>14. MonitorSound'
  <2>1. \A d \in Convs : by_conv[d] = None => by_conv'[d] = None
    BY <1>6
  <2>2. Resets' <=> Resets
    BY <1>2 DEF Resets
  <2>3. mon.sess \in L!Ids => /\ life[mon.sess] = "live" => life'[mon.sess] = "live"
                              /\ life[mon.sess] # "live" => life'[mon.sess] # "live"
                              /\ life[mon.sess] # "none" => life'[mon.sess] # "none"
                              /\ life'[mon.sess] \in {"unlisted", "closed"} => life[mon.sess] \in {"unlisted", "closed"}
    BY <1>2, <1>7
  <2>4. (mon.sess # None => mon.sess \in L!Ids) /\ (mon.conv # None => mon.conv \in Convs)
    BY <1>9
  <2> QED
    BY <1>1, <1>2, <2>1, <2>2, <2>3, <2>4 DEF MonitorSound, Resets
<1>15. Errors'
  <2>1. \A t \in 1..Len(made) : t \in L!Ids
    BY <1>1, ListenerAssumption DEF L!TypeOK, L!Ids
  <2> QED
    BY <1>1, <1>2, <1>7, <2>1 DEF Errors, L!ErrorReachesAll, L!Existing
<1> QED
  BY <1>10, <1>11, <1>12, <1>13, <1>14, <1>15 DEF RouteInv

(* accept().                                                               *)
LEMMA StepAccept ==
    ASSUME RouteInv, NEW t \in Acceptors, L!AcceptEnter(t) \/ L!AcceptLook(t) \/ L!AcceptGiveUp(t)
    PROVE  RouteInv'
<1>1. UNCHANGED <<made, life, victim, sessions, by_conv, mon>> /\ UNCHANGED <<failed, told>>
  BY DEF L!AcceptEnter, L!AcceptLook, L!AcceptGiveUp, L!closing, L!maps, L!errors
<1>2. L!TypeOK
  BY MonitorType
<1>3. accept_notify' \in L!NotifyType(Acceptors)
  <2>1. accept_notify \in L!NotifyType(Acceptors)
    BY <1>2 DEF L!TypeOK
  <2>2. \/ accept_notify' = L!Enable(accept_notify, t)
        \/ accept_notify' \in L!Drop(accept_notify, t)
        \/ L!Looking(accept_notify, t) /\ accept_notify' = L!Await(accept_notify, t)
    BY DEF L!AcceptEnter, L!AcceptLook, L!AcceptGiveUp
  <2> QED
    BY <2>1, <2>2, NotifyTypes
<1>4. /\ accepts' \in Seq(L!Ids) /\ Len(accepts') <= Len(accepts) /\ handed_out' \subseteq L!Ids
  <2>1. accepts \in Seq(L!Ids) /\ handed_out \subseteq L!Ids
    BY <1>2 DEF L!TypeOK
  <2>2. CASE UNCHANGED <<accepts, handed_out>>
    BY <2>1, <2>2
  <2>3. CASE accepts # <<>> /\ accepts' = Tail(accepts) /\ handed_out' = handed_out \cup {Head(accepts)}
    BY <2>1, <2>3
  <2> QED
    BY <2>2, <2>3 DEF L!AcceptEnter, L!AcceptLook, L!AcceptGiveUp
<1>5. ListenerType'
  <2>1. Len(accepts) \in Nat /\ Len(accepts') \in Nat
    BY <1>2, <1>4 DEF L!TypeOK
  <2>2. Len(accepts') <= ACCEPT_BACKLOG /\ (Len(accepts) < ACCEPT_BACKLOG => Len(accepts') < ACCEPT_BACKLOG)
    BY <1>2, <1>4, <2>1, ListenerAssumption DEF L!TypeOK
  <2> QED
    BY <1>1, <1>2, <1>3, <1>4, <2>2 DEF RouteInv, ListenerType, L!TypeOK
<1>6. Born' /\ ByAddr' /\ ByConv'
  BY <1>1 DEF RouteInv, Born, ByAddr, ByConv
<1>7. MonitorSound'
  BY <1>1 DEF RouteInv, MonitorSound, Resets
<1>8. Errors'
  BY <1>1 DEF RouteInv, Errors, L!ErrorReachesAll, L!Existing
<1> QED
  BY <1>5, <1>6, <1>7, <1>8 DEF RouteInv

(* Every step of the listener keeps its invariant.                         *)
LEMMA RouteNext == RouteInv /\ L!Next => RouteInv'
BY StepRecv, StepFind, StepRoute, StepWait, StepCreate, StepRegister, StepPush, StepStop,
   StepCloseBegin, StepCloseRemove, StepCloseAlias, StepAccept DEF L!Next

(* What the maps promise follows.                                          *)
LEMMA RouteHolds ==
    ASSUME RouteInv
    PROVE  L!LiveReachable /\ L!ClosedForgotten /\ L!OneSessionPerConv /\ L!ErrorReachesAll
<1>1. MonitorSound /\ Born /\ ByAddr /\ ByConv /\ Errors /\ L!TypeOK
  BY DEF RouteInv, ListenerType
<1>2. \A s \in 1..Len(made) : s \in L!Ids /\ s # None
  BY <1>1, ListenerAssumption, NoneFacts DEF L!TypeOK, L!Ids
<1>3. L!LiveReachable
  BY <1>1, <1>2 DEF L!LiveReachable, L!Existing, ByAddr, Listed
<1>4. L!ClosedForgotten
  BY <1>1, <1>2 DEF L!ClosedForgotten, L!Existing, ByAddr, ByConv, Listed, Held
<1>5. ASSUME NEW s \in 1..Len(made), NEW t \in 1..Len(made), life[s] = "live", life[t] = "live",
             made[s].conv = made[t].conv
      PROVE  s = t
  <2>1. CASE mon.step = "register" /\ mon.sess \in {s, t}
    <3>1. by_conv[made[s].conv] = None
      BY <1>1, <1>5, <2>1 DEF MonitorSound
    <3> QED
      BY <1>1, <1>2, <1>5, <2>1, <3>1 DEF ByConv, Held
  <2>2. CASE ~(mon.step = "register" /\ mon.sess \in {s, t})
    BY <1>1, <1>2, <1>5, <2>2 DEF ByConv, Held
  <2> QED
    BY <2>1, <2>2
<1>6. L!OneSessionPerConv
  BY <1>5 DEF L!OneSessionPerConv, L!Existing
<1> QED
  BY <1>1, <1>3, <1>4, <1>6 DEF Errors

-----------------------------------------------------------------------------
(* The listener: wake-ups.                                                 *)

(* The number of tasks in some places, and what changes when one moves.    *)
Tasks(at, states) == Cardinality({t \in Acceptors : at[t] \in states})

One(p, states) == IF p \in states THEN 1 ELSE 0

(* Listener counts with the same operator.                                 *)
LEMMA SameCardinality == \A T : L!Cardinality(T) = Cardinality(T)
BY DEF L!Cardinality, Cardinality

(* How a count changes when one task moves.                                *)
LEMMA TaskMoves ==
    ASSUME NEW states, NEW at \in [Acceptors -> NotifyPlaces], NEW new \in [Acceptors -> NotifyPlaces],
           NEW u \in Acceptors, \A t \in Acceptors : t # u => new[t] = at[t]
    PROVE  /\ Tasks(at, states) \in Nat /\ Tasks(new, states) \in Nat
           /\ Tasks(new, states) = Tasks(at, states) - One(at[u], states)
                                                   + One(new[u], states)
<1> DEFINE B == {t \in Acceptors \ {u} : at[t] \in states}
           A == {t \in Acceptors : at[t] \in states}
           C == {t \in Acceptors : new[t] \in states}
<1>1. /\ A = IF at[u] \in states THEN B \cup {u} ELSE B
      /\ C = IF new[u] \in states THEN B \cup {u} ELSE B
  OBVIOUS
<1>2. IsFiniteSet(B) /\ u \notin B
  <2>1. B \subseteq Acceptors /\ IsFiniteSet(Acceptors)
    BY ListenerAssumption
  <2> QED
    BY <2>1, FS_Subset
<1>3. Cardinality(B \cup {u}) = Cardinality(B) + 1 /\ Cardinality(B) \in Nat
  BY <1>2, FS_AddElement, FS_CardinalityType
<1>4. Tasks(at, states) = Cardinality(A) /\ Tasks(new, states) = Cardinality(C)
  BY DEF Tasks
<1> HIDE DEF A, B, C
<1>5. /\ Cardinality(A) = Cardinality(B) + One(at[u], states)
      /\ Cardinality(C) = Cardinality(B) + One(new[u], states)
  BY <1>1, <1>3 DEF One
<1>6. Cardinality(A) \in Nat /\ Cardinality(C) \in Nat
  BY <1>3, <1>5 DEF One
<1>7. Cardinality(C) = Cardinality(A) - One(at[u], states) + One(new[u], states)
  BY <1>3, <1>5, <1>6 DEF One
<1> QED
  BY <1>4, <1>6, <1>7

(* What a task in each place is worth to the queue: one that will look, or *)
(* hand its wake-up on; one that was woken before it has looked does both. *)
Awake == {"look", "hit", "sure", "woken"}
Weight(at) == Tasks(at, Awake) + Tasks(at, {"hit"})
Worth(p) == IF p = "hit" THEN 2 ELSE IF p \in Awake THEN 1 ELSE 0
Sleeper(at) == \E t \in Acceptors : at[t] = "parked"

(* It is a number.                                                         *)
LEMMA WeightType ==
    ASSUME NEW at \in [Acceptors -> NotifyPlaces]
    PROVE  Weight(at) \in Nat
<1>1. ASSUME NEW states PROVE Tasks(at, states) \in Nat
  <2>1. {t \in Acceptors : at[t] \in states} \subseteq Acceptors /\ IsFiniteSet(Acceptors)
    BY ListenerAssumption
  <2> QED
    BY <2>1, FS_Subset, FS_CardinalityType DEF Tasks
<1> QED
  BY <1>1 DEF Weight

(* What changes when a task moves.                                         *)
LEMMA WeightMoves ==
    ASSUME NEW at \in [Acceptors -> NotifyPlaces], NEW new \in [Acceptors -> NotifyPlaces], NEW u \in Acceptors,
           NEW p \in NotifyPlaces, new[u] = p, \A t \in Acceptors : t # u => new[t] = at[t]
    PROVE  /\ Weight(at) \in Nat /\ Weight(new) \in Nat
           /\ Weight(new) = Weight(at) - Worth(at[u]) + Worth(p)
           /\ p # "parked" => (Sleeper(new) => Sleeper(at))
<1>2. /\ Tasks(at, Awake) \in Nat /\ Tasks(new, Awake) \in Nat
      /\ Tasks(new, Awake) = Tasks(at, Awake) - One(at[u], Awake) + One(new[u], Awake)
  BY TaskMoves
<1>3. /\ Tasks(at, {"hit"}) \in Nat /\ Tasks(new, {"hit"}) \in Nat
      /\ Tasks(new, {"hit"}) = Tasks(at, {"hit"}) - One(at[u], {"hit"}) + One(new[u], {"hit"})
  BY TaskMoves
<1>4. p # "parked" => (Sleeper(new) => Sleeper(at))
  BY DEF Sleeper
<1>5. Weight(at) \in Nat /\ Weight(new) \in Nat
  BY <1>2, <1>3 DEF Weight
<1>6. Weight(new) = Weight(at) - Worth(at[u]) + Worth(p)
  <2>1. /\ Worth(p) = One(p, Awake) + One(p, {"hit"})
        /\ Worth(at[u]) = One(at[u], Awake) + One(at[u], {"hit"})
    BY DEF Worth, Awake, One
  <2> QED
    BY <1>2, <1>3, <2>1 DEF Weight, One
<1> QED
  BY <1>4, <1>5, <1>6

(* notify_one() adds one, unless nobody sleeps.                            *)
LEMMA WeightNotify ==
    ASSUME NEW n \in L!NotifyType(Acceptors), NEW m \in L!NotifyOne(n)
    PROVE  /\ Weight(m.at) \in Nat
           /\ Sleeper(m.at) => Sleeper(n.at) /\ Weight(m.at) = Weight(n.at) + 1
<1>1. n.at \in [Acceptors -> NotifyPlaces] /\ m.at \in [Acceptors -> NotifyPlaces]
  BY NotifyOneType DEF L!NotifyType, NotifyPlaces
<1>2. CASE m.at = n.at /\ \A u \in Acceptors : n.at[u] \notin {"look", "parked"}
  <2>1. ~Sleeper(m.at)
    BY <1>2 DEF Sleeper
  <2>2. Weight(m.at) \in Nat
    BY <1>1, WeightType
  <2> QED
    BY <2>1, <2>2
<1>3. ASSUME NEW u \in Acceptors, n.at[u] \in {"look", "parked"},
             m.at = [n.at EXCEPT ![u] = IF n.at[u] = "look" THEN "hit" ELSE "woken"]
      PROVE  Weight(m.at) \in Nat /\ (Sleeper(m.at) => Sleeper(n.at) /\ Weight(m.at) = Weight(n.at) + 1)
  <2> DEFINE p == IF n.at[u] = "look" THEN "hit" ELSE "woken"
  <2>1. p \in NotifyPlaces /\ p # "parked" /\ Worth(p) = Worth(n.at[u]) + 1 /\ Worth(n.at[u]) \in Nat
    BY <1>3 DEF NotifyPlaces, Worth, Awake
  <2>2. /\ Weight(n.at) \in Nat /\ Weight(m.at) \in Nat
        /\ Weight(m.at) = Weight(n.at) - Worth(n.at[u]) + Worth(p)
        /\ Sleeper(m.at) => Sleeper(n.at)
    <3>1. m.at[u] = p /\ \A t \in Acceptors : t # u => m.at[t] = n.at[t]
      BY <1>1, <1>3
    <3> HIDE DEF p
    <3> QED
      BY <1>1, <2>1, <3>1, WeightMoves
  <2> HIDE DEF p
  <2> QED
    BY <2>1, <2>2
<1> QED
  BY <1>2, <1>3, NotifyOneType

(* A dropped future takes at most one away: a wake-up it got is passed on. *)
LEMMA WeightDrop ==
    ASSUME NEW n \in L!NotifyType(Acceptors), NEW t \in Acceptors, NEW m \in L!Drop(n, t)
    PROVE  Sleeper(m.at) =>
             /\ Sleeper(n.at)
             /\ Weight(m.at) >= Weight(n.at) - (IF n.at[t] \in {"look", "hit", "sure"} THEN 1 ELSE 0)
<1> DEFINE rest == [n EXCEPT !.at[t] = "away"]
<1>1. /\ rest \in L!NotifyType(Acceptors) /\ rest.at = [n.at EXCEPT ![t] = "away"]
      /\ n.at \in [Acceptors -> NotifyPlaces] /\ n.at[t] \in NotifyPlaces
  BY DEF L!NotifyType, NotifyPlaces
<1>2. m \in IF n.at[t] \in {"hit", "woken"} THEN L!NotifyOne(rest) ELSE {rest}
  BY DEF L!Drop
<1> HIDE DEF rest
<1>3. /\ Weight(n.at) \in Nat /\ Weight(rest.at) \in Nat
      /\ Weight(rest.at) = Weight(n.at) - Worth(n.at[t]) + Worth("away")
      /\ Sleeper(rest.at) => Sleeper(n.at)
  <2>1. /\ rest.at \in [Acceptors -> NotifyPlaces] /\ rest.at[t] = "away"
        /\ \A u \in Acceptors : u # t => rest.at[u] = n.at[u]
    BY <1>1 DEF NotifyPlaces
  <2>2. "away" \in NotifyPlaces /\ "away" # "parked" /\ n.at \in [Acceptors -> NotifyPlaces]
    BY <1>1 DEF NotifyPlaces
  <2> QED
    BY <2>1, <2>2, WeightMoves
<1>4. Worth("away") = 0
  BY DEF Worth, Awake
<1>5. CASE n.at[t] \in {"hit", "woken"}
  <2>1. Sleeper(m.at) => Sleeper(rest.at) /\ Weight(m.at) = Weight(rest.at) + 1 /\ Weight(m.at) \in Nat
    BY <1>1, <1>2, <1>5, WeightNotify
  <2>2. Worth(n.at[t]) = IF n.at[t] = "hit" THEN 2 ELSE 1
    BY <1>5 DEF Worth, Awake
  <2> QED
    BY <1>3, <1>4, <1>5, <2>1, <2>2
<1>6. CASE n.at[t] \notin {"hit", "woken"}
  <2>1. m = rest
    BY <1>2, <1>6
  <2>2. Worth(n.at[t]) = IF n.at[t] \in {"look", "sure"} THEN 1 ELSE 0
    BY <1>1, <1>6 DEF Worth, Awake, NotifyPlaces
  <2> QED
    BY <1>3, <1>4, <1>6, <2>1, <2>2
<1> QED
  BY <1>5, <1>6

(* AcceptorWoken in these terms.                                           *)
LEMMA SleeperIs ==
    ASSUME NEW at
    PROVE  (Tasks(at, {"parked"}) > 0) <=> Sleeper(at)
<1> DEFINE P == {t \in Acceptors : at[t] \in {"parked"}}
<1>1. IsFiniteSet(P)
  <2>1. P \subseteq Acceptors /\ IsFiniteSet(Acceptors)
    BY ListenerAssumption
  <2> QED
    BY <2>1, FS_Subset
<1>2. Cardinality(P) \in Nat /\ (Cardinality(P) = 0 <=> P = {})
  BY <1>1, FS_CardinalityType, FS_EmptySet
<1>3. P # {} <=> Sleeper(at)
  BY DEF Sleeper
<1>4. Tasks(at, {"parked"}) = Cardinality(P)
  BY DEF Tasks
<1> QED
  BY <1>2, <1>3, <1>4

(* AcceptorWoken as a comparison of numbers.                               *)
LEMMA WokenIs == L!AcceptorWoken <=> (Sleeper(accept_notify.at) => Len(accepts) <= Weight(accept_notify.at))
<1>1. L!AcceptorWoken <=> (Tasks(accept_notify.at, {"parked"}) > 0 =>
                             Len(accepts) <= Tasks(accept_notify.at, Awake) + Tasks(accept_notify.at, {"hit"}))
  <2>1. \A st : L!Tasks(st) = Tasks(accept_notify.at, st)
    BY SameCardinality DEF L!Tasks, Tasks
  <2>2. /\ L!Tasks({"parked"}) = Tasks(accept_notify.at, {"parked"}) 
        /\ L!Tasks({"look", "hit", "sure", "woken"}) = Tasks(accept_notify.at, Awake)
        /\ L!Tasks({"hit"}) = Tasks(accept_notify.at, {"hit"}) 
    BY <2>1 DEF Awake
  <2> QED
    BY <2>2, Zenon DEF L!AcceptorWoken
<1> QED
  BY <1>1, SleeperIs DEF Weight

(* Nobody sleeps at first.                                                 *)
LEMMA AcceptorInit == L!Init => L!AcceptorWoken
<1> SUFFICES ASSUME L!Init PROVE L!AcceptorWoken
  OBVIOUS
<1>1. ~Sleeper(accept_notify.at)
  BY DEF L!Init, L!Fresh, Sleeper
<1> QED
  BY <1>1, WokenIs

(* Every step keeps it.                                                    *)
LEMMA AcceptorNext ==
    ASSUME L!TypeOK, L!TypeOK', L!AcceptorWoken, [L!Next]_listenerVars
    PROVE  L!AcceptorWoken'
<1> DEFINE n == accept_notify
           k == Len(accepts)
<1>1. /\ n \in L!NotifyType(Acceptors) /\ n' \in L!NotifyType(Acceptors) /\ k \in Nat /\ k' \in Nat
      /\ accepts \in Seq(L!Ids)
  BY DEF L!TypeOK
<1>2. n.at \in [Acceptors -> NotifyPlaces] /\ n'.at \in [Acceptors -> NotifyPlaces]
  BY <1>1 DEF L!NotifyType, NotifyPlaces
<1>3. Weight(n.at) \in Nat /\ Weight(n'.at) \in Nat
  BY <1>2, WeightType
<1>4. Sleeper(n.at) => k <= Weight(n.at)
  BY WokenIs
<1>5. SUFFICES Sleeper(n'.at) => k' <= Weight(n'.at)
  <2>1. L!AcceptorWoken' <=> (Sleeper(n'.at) => k' <= Weight(n'.at))
    <3>1. L!AcceptorWoken' <=> (Tasks(n'.at, {"parked"}) > 0 =>
                                  k' <= Tasks(n'.at, Awake) + Tasks(n'.at, {"hit"}))
      <4>1. /\ L!Tasks({"parked"})' = Tasks(n'.at, {"parked"})
            /\ L!Tasks({"look", "hit", "sure", "woken"})' = Tasks(n'.at, Awake)
            /\ L!Tasks({"hit"})' = Tasks(n'.at, {"hit"})
        BY SameCardinality DEF L!Tasks, Tasks, Awake
      <4> QED
        BY <4>1, Zenon DEF L!AcceptorWoken
    <3> QED
      BY <3>1, SleeperIs DEF Weight
  <2> QED
    BY <1>5, <2>1
<1>6. CASE UNCHANGED <<accepts, accept_notify>>
  BY <1>4, <1>6
<1>7. CASE L!MonPush
  <2>1. n' \in L!NotifyOne(n) /\ k' = k + 1
    BY <1>1, <1>7 DEF L!MonPush
  <2>2. Sleeper(n'.at) => Sleeper(n.at) /\ Weight(n'.at) = Weight(n.at) + 1
    BY <1>1, <2>1, WeightNotify
  <2> QED
    BY <1>1, <1>3, <1>4, <2>1, <2>2
<1>8. ASSUME NEW t \in Acceptors, L!AcceptEnter(t) PROVE Sleeper(n'.at) => k' <= Weight(n'.at)
  <2> DEFINE p == IF n.permit THEN "sure" ELSE "look"
  <2>1. n.at[t] \in {"away", "woken", "done"} /\ n' = L!Enable(n, t) /\ UNCHANGED accepts
    BY <1>8 DEF L!AcceptEnter, L!Starting
  <2>2. n'.at = [n.at EXCEPT ![t] = p]
    BY <1>1, <2>1, NotifyTypes
  <2>3. p \in NotifyPlaces /\ p # "parked" /\ Worth(p) = 1 /\ Worth(n.at[t]) \in {0, 1}
    BY <2>1 DEF NotifyPlaces, Worth, Awake
  <2>4. /\ Weight(n'.at) = Weight(n.at) - Worth(n.at[t]) + Worth(p)
        /\ Sleeper(n'.at) => Sleeper(n.at)
    <3>1. n'.at[t] = p /\ \A u \in Acceptors : u # t => n'.at[u] = n.at[u]
      BY <1>2, <2>2
    <3> HIDE DEF p
    <3> QED
      BY <1>2, <2>3, <3>1, WeightMoves
  <2> HIDE DEF p
  <2> QED
    BY <1>1, <1>3, <1>4, <2>1, <2>3, <2>4
<1>9. ASSUME NEW t \in Acceptors, L!AcceptLook(t) PROVE Sleeper(n'.at) => k' <= Weight(n'.at)
  <2>1. CASE accepts = <<>>
    <3>1. k' = 0
      BY <1>9, <2>1 DEF L!AcceptLook
    <3> QED
      BY <1>3, <3>1
  <2>2. CASE accepts # <<>>
    <3>1. n.at[t] \in {"look", "hit", "sure"} /\ n' \in L!Drop(n, t) /\ accepts' = Tail(accepts)
      BY <1>9, <2>2 DEF L!AcceptLook, L!Looking
    <3>2. k' = k - 1
      BY <1>1, <2>2, <3>1
    <3>3. Sleeper(n'.at) => Sleeper(n.at) /\ Weight(n'.at) >= Weight(n.at) - 1
      BY <1>1, <3>1, WeightDrop
    <3> QED
      BY <1>1, <1>3, <1>4, <3>2, <3>3
  <2> QED
    BY <2>1, <2>2
<1>10. ASSUME NEW t \in Acceptors, L!AcceptGiveUp(t) PROVE Sleeper(n'.at) => k' <= Weight(n'.at)
  <2>1. n.at[t] \in {"parked", "woken", "done"} /\ n' \in L!Drop(n, t) /\ UNCHANGED accepts
    BY <1>10 DEF L!AcceptGiveUp, L!Waiting
  <2>2. n.at[t] \notin {"look", "hit", "sure"}
    BY <2>1
  <2>3. Sleeper(n'.at) => Sleeper(n.at) /\ Weight(n'.at) >= Weight(n.at) - 0
    BY <1>1, <2>1, <2>2, WeightDrop
  <2> QED
    BY <1>1, <1>3, <1>4, <2>1, <2>3
<1> QED
  BY <1>6, <1>7, <1>8, <1>9, <1>10
  DEF L!Next, L!MonRecv, L!MonFind, L!MonRoute, L!MonWait, L!MonCreate, L!MonRegister, L!MonStop,
      L!CloseBegin, L!CloseRemove, L!CloseAlias, L!queue, listenerVars

-----------------------------------------------------------------------------
(* The tasks around one session.                                           *)

(* What the reader, the transmit task and close() rely on of the types.    *)
SessionType ==
    /\ read_notify \in S!NotifyType(Readers) /\ readable \in Nat
    /\ snd_queue \in Seq(Nat) /\ txqueue \in Seq(Nat)
    /\ chan \in Seq(Nat) /\ Len(chan) <= DEV_BACKLOG
    /\ writing \in [Writers -> Nat] /\ count \in Nat

SessionInv == SessionType /\ S!NothingDropped /\ S!NoSleepingReader

-----------------------------------------------------------------------------
(* The elements of a prefix, and of two sequences joined.                  *)
LEMMA ToSetFacts ==
    ASSUME NEW T, NEW s \in Seq(T), NEW t \in Seq(T)
    PROVE  /\ s \o t \in Seq(T)
           /\ \A x : x \in S!ToSet(s) => x \in S!ToSet(s \o t)
           /\ \A x : x \in S!ToSet(t) => x \in S!ToSet(s \o t)
           /\ s # <<>> => s \o t # <<>>
<1>1. s \o t \in Seq(T) /\ Len(s \o t) = Len(s) + Len(t)
  OBVIOUS
<1>2. ASSUME NEW i \in 1..Len(s) PROVE i \in DOMAIN (s \o t) /\ (s \o t)[i] = s[i]
  OBVIOUS
<1>3. ASSUME NEW i \in 1..Len(t) PROVE Len(s) + i \in DOMAIN (s \o t) /\ (s \o t)[Len(s) + i] = t[i]
  OBVIOUS
<1>4. DOMAIN s = 1..Len(s) /\ DOMAIN t = 1..Len(t)
  OBVIOUS
<1>5. s # <<>> => s \o t # <<>>
  BY <1>1
<1>6. ASSUME NEW x, x \in S!ToSet(s) PROVE x \in S!ToSet(s \o t)
  <2>1. PICK i \in 1..Len(s) : s[i] = x
    BY <1>4, <1>6 DEF S!ToSet
  <2> QED
    BY <1>2, <2>1 DEF S!ToSet
<1>7. ASSUME NEW x, x \in S!ToSet(t) PROVE x \in S!ToSet(s \o t)
  <2>1. PICK i \in 1..Len(t) : t[i] = x
    BY <1>4, <1>7 DEF S!ToSet
  <2> QED
    BY <1>3, <2>1 DEF S!ToSet
<1> QED
  BY <1>1, <1>5, <1>6, <1>7

(* What flush() does to the queues: as it asked for room, all that it      *)
(* emits is in the channel, unless the channel is gone.                    *)
LEMMA FlushFacts ==
    ASSUME SessionType, NEW queue \in Seq(Nat), NEW flight, NEW isopen,
           S!flush(queue, flight, isopen)
    PROVE  /\ snd_queue' \in Seq(Nat) /\ chan' \in Seq(Nat) /\ Len(chan') <= DEV_BACKLOG
           /\ \A x : x \in S!ToSet(chan) => x \in S!ToSet(chan')
           /\ tx # "exited" => \A x \in in_flight' \ flight : x \in S!ToSet(chan')
<1> DEFINE k == S!Emits(queue, isopen)
           out == SubSeq(queue, 1, k)
<1>1. k \in 0..Len(queue) /\ (tx # "exited" => k <= DEV_BACKLOG - Len(chan))
  <2>1. S!capacity \in Int /\ (tx # "exited" => S!capacity = DEV_BACKLOG - Len(chan))
    BY SessionAssumption DEF S!capacity, SessionType
  <2>2. OUTPUT_ROOM \in Nat /\ Len(queue) \in Nat /\ DEV_BACKLOG - Len(chan) \in Nat
    BY SessionAssumption DEF SessionType
  <2> QED
    BY <2>1, <2>2 DEF S!Emits
<1>2. /\ snd_queue' = SubSeq(queue, k + 1, Len(queue))
      /\ in_flight' = flight \cup S!ToSet(out)
      /\ chan' = IF tx = "exited" THEN chan ELSE S!send(out)
  BY DEF S!flush
<1> HIDE DEF k
<1>3. out \in Seq(Nat) /\ Len(out) = k /\ SubSeq(queue, k + 1, Len(queue)) \in Seq(Nat)
  BY <1>1
<1> HIDE DEF out
<1>4. /\ chan \o out \in Seq(Nat)
      /\ \A x : x \in S!ToSet(chan) => x \in S!ToSet(chan \o out)
      /\ \A x : x \in S!ToSet(out) => x \in S!ToSet(chan \o out)
  BY <1>3, ToSetFacts DEF SessionType
<1>5. chan \in Seq(Nat) /\ Len(chan) <= DEV_BACKLOG /\ DEV_BACKLOG \in Nat
  BY SessionAssumption DEF SessionType
<1>6. ASSUME tx # "exited"
      PROVE  S!send(out) = chan \o out /\ Len(chan \o out) <= DEV_BACKLOG
  <2>1. Len(chan \o out) = Len(chan) + Len(out)
    BY <1>3, <1>5
  <2>2. Len(chan \o out) <= DEV_BACKLOG
    BY <1>1, <1>3, <1>5, <1>6, <2>1
  <2> DEFINE all == chan \o out
  <2>3. S!send(out) = SubSeq(all, 1, IF Len(all) < DEV_BACKLOG THEN Len(all) ELSE DEV_BACKLOG)
    BY DEF S!send
  <2>4. all \in Seq(Nat) /\ Len(all) <= DEV_BACKLOG
    BY <1>4, <2>2
  <2> HIDE DEF all
  <2>5. (IF Len(all) < DEV_BACKLOG THEN Len(all) ELSE DEV_BACKLOG) = Len(all)
    BY <1>5, <2>4
  <2>6. SubSeq(all, 1, Len(all)) = all
    BY <2>4
  <2>7. S!send(out) = all
    BY <2>3, <2>5, <2>6
  <2> QED
    BY <2>2, <2>7 DEF all
<1>7. tx # "exited" => \A x \in in_flight' \ flight : x \in S!ToSet(chan')
  BY <1>2, <1>4, <1>6
<1>8. chan' \in Seq(Nat) /\ Len(chan') <= DEV_BACKLOG /\ \A x : x \in S!ToSet(chan) => x \in S!ToSet(chan')
  BY <1>2, <1>4, <1>5, <1>6
<1> QED
  BY <1>2, <1>3, <1>7, <1>8

(* notify_one() keeps the type, and parks nobody.                          *)
LEMMA NotifyOneFacts ==
    ASSUME NEW T, NEW o \in S!NotifyType(T), NEW m \in S!NotifyOne(o)
    PROVE  m \in S!NotifyType(T) /\ \A u \in T : m.at[u] = "parked" => o.at[u] = "parked"
<1>1. DOMAIN o.at = T
  BY DEF S!NotifyType
<1>2. CASE m = [o EXCEPT !.permit = TRUE]
  BY <1>2 DEF S!NotifyType
<1>3. ASSUME NEW v \in T, m = [o EXCEPT !.at[v] = IF @ = "look" THEN "hit" ELSE "woken"]
      PROVE  m \in S!NotifyType(T) /\ \A u \in T : m.at[u] = "parked" => o.at[u] = "parked"
  BY <1>3 DEF S!NotifyType
<1> QED
  BY <1>1, <1>2, <1>3 DEF S!NotifyOne

(* A Notify keeps its type, and what its operations do to a task.          *)
LEMMA NotifyFacts ==
    ASSUME NEW T, NEW n \in S!NotifyType(T), NEW t \in T
    PROVE  /\ S!Enable(n, t) \in S!NotifyType(T) /\ S!Enable(n, t).at[t] # "parked"
           /\ \A m \in S!NotifyOne(n) : m \in S!NotifyType(T)
           /\ \A m \in S!NotifyOne(n), u \in T : m.at[u] = "parked" => n.at[u] = "parked"
           /\ \A m \in S!Drop(n, t) : m \in S!NotifyType(T) /\ m.at[t] # "parked"
           /\ S!Looking(n, t) => S!Await(n, t) \in S!NotifyType(T)
<1> DEFINE Places == {"away", "look", "hit", "sure", "parked", "woken", "done"}
<1>1. n = [permit |-> n.permit, at |-> n.at] /\ n.permit \in BOOLEAN /\ n.at \in [T -> Places]
  BY DEF S!NotifyType
<1>2. ASSUME NEW o \in S!NotifyType(T), NEW m \in S!NotifyOne(o)
      PROVE  m \in S!NotifyType(T) /\ \A u \in T : m.at[u] = "parked" => o.at[u] = "parked"
  BY NotifyOneFacts
<1>3. S!Enable(n, t) \in S!NotifyType(T) /\ S!Enable(n, t).at[t] # "parked"
  BY <1>1 DEF S!Enable, S!NotifyType
<1>4. ASSUME NEW m \in S!Drop(n, t) PROVE m \in S!NotifyType(T) /\ m.at[t] # "parked"
  <2> DEFINE rest == [n EXCEPT !.at[t] = "away"]
  <2>1. rest \in S!NotifyType(T) /\ rest.at[t] = "away"
    BY <1>1 DEF S!NotifyType
  <2>2. m \in S!NotifyOne(rest) \/ m = rest
    BY DEF S!Drop
  <2> HIDE DEF rest
  <2> QED
    BY <1>2, <2>1, <2>2
<1>5. S!Looking(n, t) => S!Await(n, t) \in S!NotifyType(T)
  <2> SUFFICES ASSUME S!Looking(n, t) PROVE S!Await(n, t) \in S!NotifyType(T)
    OBVIOUS
  <2>1. \E p \in Places : S!Await(n, t) = [n EXCEPT !.at[t] = p]
    <3>1. CASE n.at[t] = "look"
      BY <3>1 DEF S!Await
    <3>2. CASE n.at[t] = "hit"
      BY <3>2 DEF S!Await
    <3>3. CASE n.at[t] = "sure"
      BY <3>3 DEF S!Await
    <3> QED
      BY <3>1, <3>2, <3>3 DEF S!Looking
  <2> QED
    BY <1>1, <2>1 DEF S!NotifyType
<1> QED
  BY <1>2, <1>3, <1>4, <1>5

(* notify_one() wakes the only task, if it is parked.                      *)
LEMMA NotifyWakes ==
    ASSUME NEW T, NEW n \in S!NotifyType(T), NEW m \in S!NotifyOne(n),
           \A t, u \in T : t = u
    PROVE  \A t \in T : m.at[t] # "parked"
<1> SUFFICES ASSUME NEW t \in T, m.at[t] = "parked" PROVE FALSE
  OBVIOUS
<1>1. DOMAIN n.at = T
  BY DEF S!NotifyType
<1>2. n.at[t] = "parked"
  BY NotifyFacts
<1>3. {u \in DOMAIN n.at : n.at[u] \in {"look", "parked"}} # {}
  BY <1>1, <1>2
<1>4. PICK v \in T : m = [n EXCEPT !.at[v] = IF @ = "look" THEN "hit" ELSE "woken"]
  BY <1>1, <1>3 DEF S!NotifyOne
<1>5. v = t
  OBVIOUS
<1> QED
  BY <1>4, <1>5 DEF S!NotifyType

(* A fresh session.                                                        *)
LEMMA SessionInit == S!Init => SessionInv
<1> SUFFICES ASSUME S!Init PROVE SessionInv
  OBVIOUS
<1>1. SessionType
  <2>1. read_notify \in S!NotifyType(Readers)
    BY DEF S!Init, S!NotifyType, S!Fresh
  <2>2. writing \in [Writers -> Nat]
    BY DEF S!Init
  <2> QED
    BY <2>1, <2>2, SessionAssumption DEF S!Init, SessionType
<1>2. S!NothingDropped
  BY DEF S!Init, S!NothingDropped
<1>3. S!NoSleepingReader
  BY DEF S!Init, S!NoSleepingReader
<1> QED
  BY <1>1, <1>2, <1>3 DEF SessionInv

(* A step that leaves the transmit task alone: what it adds to those in    *)
(* flight is in the channel.                                               *)
LEMMA TxUntouched ==
    ASSUME S!NothingDropped, UNCHANGED <<tx, txqueue, wire, write_error>>,
           tx # "exited" => \A x \in in_flight' \ in_flight : x \in S!ToSet(chan'),
           \A x : x \in S!ToSet(chan) => x \in S!ToSet(chan')
    PROVE  S!NothingDropped'
BY DEF S!NothingDropped

(* The writers and the updater.                                            *)
LEMMA WriterStep ==
    ASSUME SessionInv,
           \/ \E w \in Writers : S!WriteEnter(w) \/ S!WriteTry(w) \/ S!WriteGiveUp(w)
           \/ S!Update \/ \E from \in owed : S!WakeWriter(from)
    PROVE  SessionInv'
<1>1. SessionType /\ S!NothingDropped /\ S!NoSleepingReader
  BY DEF SessionInv
<1>2. ASSUME UNCHANGED <<read_notify, readable>>, "read" \in owed => "read" \in owed'
      PROVE  S!NoSleepingReader'
  BY <1>1, <1>2 DEF S!NoSleepingReader
<1>3. ASSUME UNCHANGED <<snd_queue, in_flight, chan, tx, txqueue, wire, write_error>>,
             UNCHANGED <<read_notify, readable>>, "read" \in owed => "read" \in owed',
             writing' \in [Writers -> Nat], count' \in Nat
      PROVE  SessionInv'
  <2>1. S!NothingDropped'
    BY <1>1, <1>3, TxUntouched
  <2>2. SessionType'
    BY <1>1, <1>3 DEF SessionType
  <2> QED
    BY <1>2, <1>3, <2>1, <2>2 DEF SessionInv
<1>4. ASSUME UNCHANGED <<tx, txqueue, wire, write_error>>,
             UNCHANGED <<read_notify, readable>>, "read" \in owed => "read" \in owed',
             writing' \in [Writers -> Nat], count' \in Nat,
             NEW queue \in Seq(Nat), S!flush(queue, in_flight, open)
      PROVE  SessionInv'
  <2>1. /\ snd_queue' \in Seq(Nat) /\ chan' \in Seq(Nat) /\ Len(chan') <= DEV_BACKLOG
        /\ tx # "exited" => \A x \in in_flight' \ in_flight : x \in S!ToSet(chan')
        /\ \A x : x \in S!ToSet(chan) => x \in S!ToSet(chan')
    BY <1>1, <1>4, FlushFacts
  <2>2. S!NothingDropped'
    BY <1>1, <1>4, <2>1, TxUntouched
  <2>3. SessionType'
    BY <1>1, <1>4, <2>1 DEF SessionType
  <2> QED
    BY <1>2, <1>4, <2>2, <2>3 DEF SessionInv
<1>5. ASSUME NEW w \in Writers, S!WriteEnter(w) PROVE SessionInv'
  <2>1. count \in Nat /\ writing \in [Writers -> Nat]
    BY <1>1 DEF SessionType
  <2>2. count' \in Nat
    BY <1>5, <2>1 DEF S!WriteEnter
  <2>3. writing' \in [Writers -> Nat]
    BY <1>5, <2>1, <2>2 DEF S!WriteEnter
  <2> QED
    BY <1>3, <1>5, <2>2, <2>3 DEF S!WriteEnter, S!kcpVars, S!txVars, S!readVars, S!closeVars
<1>6. ASSUME NEW w \in Writers, S!WriteTry(w) PROVE SessionInv'
  <2>1. /\ UNCHANGED <<tx, txqueue, wire, write_error>>
        /\ UNCHANGED <<read_notify, readable>> /\ UNCHANGED owed /\ UNCHANGED count
    BY <1>6 DEF S!WriteTry, S!txVars, S!readVars, S!closeVars
  <2>2. count \in Nat /\ writing \in [Writers -> Nat] /\ snd_queue \in Seq(Nat) /\ chan \in Seq(Nat)
    BY <1>1 DEF SessionType
  <2>3. CASE S!wait_snd(snd_queue, in_flight) >= SndWnd
    BY <1>3, <1>6, <2>1, <2>2, <2>3 DEF S!WriteTry
  <2>4. CASE ~(S!wait_snd(snd_queue, in_flight) >= SndWnd)
    <3> DEFINE queue == Append(snd_queue, writing[w])
    <3>1. queue \in Seq(Nat)
      BY <2>2
    <3>2. writing' \in [Writers -> Nat]
      BY <1>6, <2>2, <2>4 DEF S!WriteTry
    <3>3. S!flush(queue, in_flight, open) \/ (snd_queue' = queue /\ UNCHANGED <<in_flight, chan>>)
      BY <1>6, <2>4 DEF S!WriteTry
    <3> HIDE DEF queue
    <3>4. CASE S!flush(queue, in_flight, open)
      BY <1>4, <2>1, <2>2, <3>1, <3>2, <3>4
    <3>5. CASE snd_queue' = queue /\ UNCHANGED <<in_flight, chan>>
      <4>1. S!NothingDropped'
        BY <1>1, <2>1, <3>5, TxUntouched
      <4>2. SessionType'
        BY <1>1, <2>1, <2>2, <3>1, <3>2, <3>5 DEF SessionType
      <4> QED
        BY <1>2, <2>1, <4>1, <4>2 DEF SessionInv
    <3> QED
      BY <3>3, <3>4, <3>5
  <2> QED
    BY <2>3, <2>4
<1>7. ASSUME NEW w \in Writers, S!WriteGiveUp(w) PROVE SessionInv'
  <2>1. writing' \in [Writers -> Nat] /\ count \in Nat
    BY <1>1, <1>7 DEF SessionType, S!WriteGiveUp
  <2> QED
    BY <1>3, <1>7, <2>1 DEF S!WriteGiveUp, S!kcpVars, S!txVars, S!readVars, S!closeVars
<1>8. CASE S!Update
  <2>1. count \in Nat /\ writing \in [Writers -> Nat] /\ snd_queue \in Seq(Nat)
    BY <1>1 DEF SessionType
  <2>2. "read" \in owed => "read" \in owed'
    BY <1>8 DEF S!Update
  <2> QED
    BY <1>4, <1>8, <2>1, <2>2 DEF S!Update, S!txVars, S!readVars, S!closeVars
<1>9. ASSUME NEW from \in owed, S!WakeWriter(from) PROVE SessionInv'
  <2>1. count \in Nat /\ writing \in [Writers -> Nat]
    BY <1>1 DEF SessionType
  <2>2. "read" \in owed => "read" \in owed'
    BY <1>9 DEF S!WakeWriter
  <2> QED
    BY <1>3, <1>9, <2>1, <2>2 DEF S!WakeWriter, S!kcpVars, S!txVars, S!readVars, S!closeVars
<1> QED
  BY <1>5, <1>6, <1>7, <1>8, <1>9

(* The reader, and the input path that wakes it.                           *)
LEMMA ReaderStep ==
    ASSUME SessionInv,
           \/ \E r \in Readers : S!ReadEnter(r) \/ S!ReadLook(r) \/ S!ReadGiveUp(r)
           \/ S!WakeReader
           \/ \E acks \in SUBSET (in_flight \cap wire), new \in 0..1, isopen \in BOOLEAN :
                S!Input(acks, new, isopen)
    PROVE  SessionInv'
<1>1. SessionType /\ S!NothingDropped /\ S!NoSleepingReader
  BY DEF SessionInv
<1>2. read_notify \in S!NotifyType(Readers) /\ readable \in Nat
  BY <1>1 DEF SessionType
<1>3. ASSUME UNCHANGED <<snd_queue, in_flight, chan, tx, txqueue, wire, write_error>>,
             UNCHANGED <<writing, count>>, read_notify' \in S!NotifyType(Readers), readable' \in Nat,
             S!NoSleepingReader'
      PROVE  SessionInv'
  <2>1. S!NothingDropped'
    BY <1>1, <1>3, TxUntouched
  <2>2. SessionType'
    BY <1>1, <1>3 DEF SessionType
  <2> QED
    BY <1>3, <2>1, <2>2 DEF SessionInv
<1>4. ASSUME NEW r \in Readers, read_notify'.at[r] # "parked" PROVE S!NoSleepingReader'
  BY <1>4, SessionAssumption DEF S!NoSleepingReader
<1>5. ASSUME NEW r \in Readers, S!ReadEnter(r) PROVE SessionInv'
  <2>1. read_notify' \in S!NotifyType(Readers) /\ read_notify'.at[r] # "parked"
    BY <1>2, <1>5, NotifyFacts DEF S!ReadEnter
  <2>2. S!NoSleepingReader'
    BY <1>4, <2>1
  <2> QED
    BY <1>2, <1>3, <1>5, <2>1, <2>2 DEF S!ReadEnter, S!kcpVars, S!txVars, S!writeVars, S!closeVars
<1>6. ASSUME NEW r \in Readers, S!ReadLook(r) PROVE SessionInv'
  <2>1. /\ UNCHANGED <<snd_queue, in_flight, chan, tx, txqueue, wire, write_error>>
        /\ UNCHANGED <<writing, count>>
    BY <1>6 DEF S!ReadLook, S!kcpVars, S!txVars, S!writeVars, S!closeVars
  <2>2. CASE readable > 0
    <3>1. readable' \in Nat /\ read_notify' \in S!Drop(read_notify, r)
      BY <1>2, <1>6, <2>2 DEF S!ReadLook
    <3>2. read_notify' \in S!NotifyType(Readers) /\ read_notify'.at[r] # "parked"
      BY <1>2, <3>1, NotifyFacts
    <3> QED
      BY <1>3, <1>4, <2>1, <3>1, <3>2
  <2>3. CASE ~(readable > 0)
    <3>1. readable' = 0 /\ read_notify' = S!Await(read_notify, r) /\ S!Looking(read_notify, r)
      BY <1>2, <1>6, <2>3 DEF S!ReadLook
    <3>2. read_notify' \in S!NotifyType(Readers)
      BY <1>2, <3>1, NotifyFacts
    <3>3. S!NoSleepingReader'
      BY <3>1 DEF S!NoSleepingReader
    <3> QED
      BY <1>3, <2>1, <3>1, <3>2, <3>3
  <2> QED
    BY <2>2, <2>3
<1>7. ASSUME NEW r \in Readers, S!ReadGiveUp(r) PROVE SessionInv'
  <2>1. read_notify' \in S!NotifyType(Readers) /\ read_notify'.at[r] # "parked"
    BY <1>2, <1>7, NotifyFacts DEF S!ReadGiveUp
  <2>2. S!NoSleepingReader'
    BY <1>4, <2>1
  <2> QED
    BY <1>2, <1>3, <1>7, <2>1, <2>2 DEF S!ReadGiveUp, S!kcpVars, S!txVars, S!writeVars, S!closeVars
<1>8. CASE S!WakeReader
  <2>1. read_notify' \in S!NotifyOne(read_notify)
    BY <1>8 DEF S!WakeReader
  <2>2. \A r \in Readers : read_notify'.at[r] # "parked"
    BY <1>2, <2>1, NotifyWakes, SessionAssumption
  <2>3. S!NoSleepingReader'
    BY <2>2 DEF S!NoSleepingReader
  <2>4. read_notify' \in S!NotifyType(Readers)
    BY <1>2, <2>1, NotifyOneFacts
  <2> QED
    BY <1>2, <1>3, <1>8, <2>3, <2>4 DEF S!WakeReader, S!kcpVars, S!txVars, S!writeVars, S!closeVars
<1>9. ASSUME NEW acks \in SUBSET (in_flight \cap wire), NEW new \in 0..1, NEW isopen \in BOOLEAN,
             S!Input(acks, new, isopen)
      PROVE  SessionInv'
  <2>1. /\ UNCHANGED <<tx, txqueue, wire, write_error>>
        /\ UNCHANGED <<writing, count, read_notify>> /\ readable' = readable + new
    BY <1>9 DEF S!Input, S!txVars, S!writeVars, S!closeVars
  <2>2. owed' = owed \cup S!Wakeups(new, snd_queue', in_flight')
    BY <1>9 DEF S!Input
  <2>3. readable' > 0 => "read" \in owed'
    BY <1>2, <2>1, <2>2 DEF S!Wakeups
  <2>4. S!NoSleepingReader'
    BY <2>3 DEF S!NoSleepingReader
  <2>5. snd_queue \in Seq(Nat) /\ chan \in Seq(Nat)
    BY <1>1 DEF SessionType
  <2>6. /\ snd_queue' \in Seq(Nat) /\ chan' \in Seq(Nat) /\ Len(chan') <= DEV_BACKLOG
        /\ tx # "exited" => \A x \in in_flight' \ in_flight : x \in S!ToSet(chan')
        /\ \A x : x \in S!ToSet(chan) => x \in S!ToSet(chan')
    <3>1. CASE S!flush(snd_queue, in_flight \ acks, isopen)
      BY <1>1, <2>5, <3>1, FlushFacts
    <3>2. CASE UNCHANGED <<snd_queue, chan>> /\ in_flight' = in_flight \ acks
      BY <1>1, <2>5, <3>2 DEF SessionType
    <3> QED
      BY <1>9, <3>1, <3>2 DEF S!Input
  <2>7. S!NothingDropped'
    BY <1>1, <2>1, <2>6, TxUntouched
  <2>8. readable' \in Nat
    BY <1>2, <2>1
  <2>9. SessionType'
    BY <1>1, <2>1, <2>6, <2>8 DEF SessionType
  <2> QED
    BY <2>4, <2>7, <2>9 DEF SessionInv
<1> QED
  BY <1>5, <1>6, <1>7, <1>8, <1>9

(* The transmit task.                                                      *)
LEMMA TransmitStep ==
    ASSUME SessionInv, S!TxRecv \/ S!TxDie \/ S!TxWake \/ \E taken \in 0..Len(txqueue) : S!TxSend(taken)
    PROVE  SessionInv'
<1>1. SessionType /\ S!NothingDropped /\ S!NoSleepingReader
  BY DEF SessionInv
<1>2. chan \in Seq(Nat) /\ Len(chan) <= DEV_BACKLOG /\ DEV_BACKLOG \in Nat /\ txqueue \in Seq(Nat)
  BY <1>1, SessionAssumption DEF SessionType
<1>3. UNCHANGED <<snd_queue, in_flight, open, writing, count, read_notify, readable, owed>>
  BY DEF S!TxRecv, S!TxDie, S!TxWake, S!TxSend, S!kcpVars, S!writeVars, S!readVars
<1>4. ASSUME chan' \in Seq(Nat), Len(chan') <= DEV_BACKLOG, txqueue' \in Seq(Nat), S!NothingDropped'
      PROVE  SessionInv'
  <2>1. SessionType'
    BY <1>1, <1>3, <1>4 DEF SessionType
  <2>2. S!NoSleepingReader'
    BY <1>1, <1>3 DEF S!NoSleepingReader
  <2> QED
    BY <1>4, <2>1, <2>2 DEF SessionInv
<1>5. CASE S!TxRecv
  <2>1. CASE chan # <<>>
    <3> DEFINE batch == Append(txqueue, Head(chan))
    <3>1. chan' = Tail(chan) /\ txqueue' = batch /\ tx # "exited" /\ UNCHANGED <<wire, write_error>>
      BY <1>5, <2>1 DEF S!TxRecv
    <3>2. Tail(chan) \in Seq(Nat) /\ Len(Tail(chan)) <= DEV_BACKLOG /\ batch \in Seq(Nat)
      BY <1>2, <2>1
    <3>4. ASSUME NEW x, x \in S!ToSet(chan) PROVE x \in S!ToSet(Tail(chan)) \/ x \in S!ToSet(batch)
      <4>1. PICK i \in 1..Len(chan) : x = chan[i]
        BY <1>2, <3>4 DEF S!ToSet
      <4>2. CASE i = 1
        <5>1. Len(batch) = Len(txqueue) + 1 /\ batch[Len(txqueue) + 1] = chan[1]
              /\ Len(txqueue) + 1 \in DOMAIN batch
          BY <1>2, <2>1
        <5> QED
          BY <4>1, <4>2, <5>1 DEF S!ToSet
      <4>3. CASE i # 1
        <5>1. i - 1 \in DOMAIN Tail(chan) /\ Tail(chan)[i - 1] = chan[i]
          BY <1>2, <2>1, <4>3
        <5> QED
          BY <4>1, <5>1 DEF S!ToSet
      <4> QED
        BY <4>2, <4>3
    <3>5. ASSUME NEW x, x \in S!ToSet(txqueue) PROVE x \in S!ToSet(batch)
      <4>1. PICK i \in 1..Len(txqueue) : x = txqueue[i]
        BY <1>2, <3>5 DEF S!ToSet
      <4>2. i \in DOMAIN batch /\ batch[i] = txqueue[i]
        BY <1>2, <2>1
      <4> QED
        BY <4>1, <4>2 DEF S!ToSet
    <3> HIDE DEF batch
    <3>6. S!NothingDropped'
      BY <1>1, <1>3, <3>1, <3>4, <3>5 DEF S!NothingDropped
    <3> QED
      BY <1>4, <3>1, <3>2, <3>6
  <2>2. CASE chan = <<>>
    <3>1. tx # "exited" /\ UNCHANGED <<chan, txqueue, wire, write_error>>
      BY <1>5, <2>2 DEF S!TxRecv
    <3>2. S!NothingDropped'
      BY <1>1, <1>3, <3>1 DEF S!NothingDropped
    <3> QED
      BY <1>2, <1>4, <3>1, <3>2
  <2> QED
    BY <2>1, <2>2
<1>6. CASE S!TxDie
  <2>1. tx # "exited" /\ UNCHANGED <<txqueue, wire, write_error>>
    BY <1>6 DEF S!TxDie
  <2>2. CASE tx' = "exited" /\ chan' = <<>>
    BY <1>2, <1>4, <2>1, <2>2 DEF S!NothingDropped
  <2>3. CASE UNCHANGED chan
    BY <1>1, <1>2, <1>3, <1>4, <2>1, <2>3 DEF S!NothingDropped
  <2> QED
    BY <1>6, <2>2, <2>3 DEF S!TxDie
<1>7. CASE S!TxWake
  <2>1. tx # "exited" /\ UNCHANGED <<chan, txqueue, wire, write_error>>
    BY <1>7 DEF S!TxWake
  <2>2. S!NothingDropped'
    BY <1>1, <1>3, <2>1 DEF S!NothingDropped
  <2> QED
    BY <1>2, <1>4, <2>1, <2>2
<1>8. ASSUME NEW taken \in 0..Len(txqueue), S!TxSend(taken) PROVE SessionInv'
  <2>1. /\ tx = "send" /\ txqueue' = <<>> /\ UNCHANGED chan
        /\ wire' = wire \cup S!ToSet(SubSeq(txqueue, 1, taken))
        /\ write_error' = (write_error \/ taken < Len(txqueue))
    BY <1>8 DEF S!TxSend
  <2>2. txqueue' \in Seq(Nat)
    BY <2>1
  <2>3. CASE taken = Len(txqueue)
    <3>1. SubSeq(txqueue, 1, taken) = txqueue /\ ~(taken < Len(txqueue))
      BY <1>2, <2>3
    <3>2. wire' = wire \cup S!ToSet(txqueue) /\ (write_error => write_error')
      BY <2>1, <3>1
    <3>3. S!NothingDropped'
      BY <1>1, <1>3, <2>1, <3>2 DEF S!NothingDropped
    <3> QED
      BY <1>2, <1>4, <2>1, <2>2, <3>3
  <2>4. CASE taken # Len(txqueue)
    <3>1. taken < Len(txqueue)
      BY <1>2, <2>4
    <3>2. S!NothingDropped'
      BY <2>1, <3>1 DEF S!NothingDropped
    <3> QED
      BY <1>2, <1>4, <2>1, <2>2, <3>2
  <2> QED
    BY <2>3, <2>4
<1> QED
  BY <1>5, <1>6, <1>7, <1>8

(* close().                                                                *)
LEMMA CloseStep ==
    ASSUME SessionInv, S!CloseOnce \/ S!CloseFlush \/ S!CloseDie \/ S!CloseConn
    PROVE  SessionInv'
<1>1. SessionType /\ S!NothingDropped /\ S!NoSleepingReader
  BY DEF SessionInv
<1>2. UNCHANGED <<tx, txqueue, wire, write_error, writing, count, read_notify, readable, owed>>
  BY DEF S!CloseOnce, S!CloseFlush, S!CloseDie, S!CloseConn, S!txVars, S!writeVars, S!readVars
<1>3. S!NoSleepingReader'
  BY <1>1, <1>2 DEF S!NoSleepingReader
<1>4. CASE S!CloseFlush
  <2>1. S!flush(snd_queue, in_flight, open) /\ snd_queue \in Seq(Nat)
    BY <1>1, <1>4 DEF S!CloseFlush, SessionType
  <2>2. /\ snd_queue' \in Seq(Nat) /\ chan' \in Seq(Nat) /\ Len(chan') <= DEV_BACKLOG
        /\ \A x : x \in S!ToSet(chan) => x \in S!ToSet(chan')
        /\ tx # "exited" => \A x \in in_flight' \ in_flight : x \in S!ToSet(chan')
    BY <1>1, <2>1, FlushFacts
  <2>3. SessionType'
    BY <1>1, <1>2, <2>2 DEF SessionType
  <2>4. S!NothingDropped'
    BY <1>1, <1>2, <2>2, TxUntouched
  <2> QED
    BY <1>3, <2>3, <2>4 DEF SessionInv
<1>5. CASE S!CloseOnce \/ S!CloseDie \/ S!CloseConn
  <2>1. UNCHANGED <<snd_queue, in_flight, chan>>
    BY <1>5 DEF S!CloseOnce, S!CloseDie, S!CloseConn, S!kcpVars
  <2>2. SessionType' /\ S!NothingDropped'
    BY <1>1, <1>2, <2>1 DEF SessionType, S!NothingDropped
  <2> QED
    BY <1>3, <2>2 DEF SessionInv
<1> QED
  BY <1>4, <1>5

(* Every step of the session keeps its invariant.                          *)
LEMMA SessionNext == SessionInv /\ S!Next => SessionInv'
BY WriterStep, ReaderStep, TransmitStep, CloseStep DEF S!Next

-----------------------------------------------------------------------------
(* All four.                                                               *)

TransportInv ==
    /\ part = "ring" => Ring!TypeOK
    /\ part = "rate" => RateInv
    /\ part = "listener" => RouteInv /\ L!AcceptorWoken
    /\ part = "session" => SessionInv

(* The parts begin in their invariants.                                    *)
LEMMA TransportBegins == TransportInit => TransportInv
BY RingInit, RateInit, RouteInit, AcceptorInit, SessionInit DEF TransportInit, TransportInv

(* A part that takes no step keeps its invariant.                          *)
LEMMA PartsRest ==
    /\ UNCHANGED ringVars /\ Ring!TypeOK => Ring!TypeOK' /\ Ring!iter' = Ring!iter
    /\ UNCHANGED rateVars /\ RateInv => RateInv'
    /\ UNCHANGED listenerVars /\ RouteInv => RouteInv'
    /\ UNCHANGED sessionVars /\ SessionInv => SessionInv'
<1>1. UNCHANGED ringVars /\ Ring!TypeOK => Ring!TypeOK' /\ Ring!iter' = Ring!iter
  BY DEF ringVars, Ring!TypeOK, Ring!size, Ring!iter, Ring!as_slices
<1>2. UNCHANGED rateVars /\ RateInv => RateInv'
  BY DEF rateVars, RateInv, RateType, Rate!TypeOK, Budget, DebtPaid, Pending, DebtTime,
         Rate!Paced, Rate!Free, Rate!Never
<1>3. UNCHANGED listenerVars /\ RouteInv => RouteInv'
  BY DEF listenerVars, RouteInv, ListenerType, L!TypeOK, L!Ids, L!NotifyType, Born, ByAddr, ByConv,
         MonitorSound, Resets, Errors, L!ErrorReachesAll, L!Existing
<1>4. UNCHANGED sessionVars /\ SessionInv => SessionInv'
  BY DEF sessionVars, SessionInv, SessionType, S!NotifyType, S!NothingDropped,
         S!NoSleepingReader
<1> QED
  BY <1>1, <1>2, <1>3, <1>4

(* Every step keeps them; a step of the ring is one of the queue.          *)
LEMMA TransportStep ==
    ASSUME TransportInv, [TransportNext]_transportVars
    PROVE  /\ TransportInv'
           /\ part = "ring" => Ring!F!Next \/ Ring!iter' = Ring!iter
<1>1. UNCHANGED part
  BY DEF TransportNext, transportVars
<1>2. /\ [Ring!Next]_ringVars \/ part # "ring"
      /\ [Rate!Next]_rateVars \/ part # "rate"
      /\ [L!Next]_listenerVars \/ part # "listener"
      /\ [S!Next]_sessionVars \/ part # "session"
  BY DEF TransportNext, transportVars
<1>3. CASE part = "ring"
  <2>1. Ring!TypeOK' /\ (Ring!F!Next \/ Ring!iter' = Ring!iter)
    BY <1>2, <1>3, PartsRest, RingNext DEF TransportInv
  <2> QED
    BY <1>1, <1>3, <2>1 DEF TransportInv
<1>4. CASE part = "rate"
  <2>1. RateInv'
    BY <1>2, <1>4, PartsRest, RateNext DEF TransportInv
  <2> QED
    BY <1>1, <1>4, <2>1 DEF TransportInv
<1>5. CASE part = "listener"
  <2>1. RouteInv /\ RouteInv'
    BY <1>2, <1>5, PartsRest, RouteNext DEF TransportInv
  <2>2. L!TypeOK /\ L!TypeOK'
    BY <2>1 DEF RouteInv, ListenerType
  <2>3. L!AcceptorWoken'
    BY <1>2, <1>5, <2>2, AcceptorNext DEF TransportInv
  <2> QED
    BY <1>1, <1>5, <2>1, <2>3 DEF TransportInv
<1>6. CASE part = "session"
  <2>1. SessionInv'
    BY <1>2, <1>6, PartsRest, SessionNext DEF TransportInv
  <2> QED
    BY <1>1, <1>6, <2>1 DEF TransportInv
<1>7. CASE part \notin {"ring", "rate", "listener", "session"}
  BY <1>1, <1>7 DEF TransportInv
<1> QED
  BY <1>3, <1>4, <1>5, <1>6, <1>7

(* The invariant holds.                                                    *)
THEOREM TransportHolds == TransportSpec => []TransportInv
<1>1. TransportInit => TransportInv
  BY TransportBegins
<1>2. TransportInv /\ [TransportNext]_transportVars => TransportInv'
  BY TransportStep
<1> QED
  BY <1>1, <1>2, PTL DEF TransportSpec

(* Whatever order it is pushed to, taken from, discarded from, shrunk and  *)
(* changed in, and however often it grows and wraps around, the ring       *)
(* (ringbuffer.rs) shows the elements of a queue: every step adds one at   *)
(* the end, takes some from the front or changes one in place.             *)
THEOREM RingIsFifo == TransportSpec => IsFifo
<1>1. TransportInv /\ [TransportNext]_transportVars => [part = "ring" => Ring!F!Next]_Ring!iter
  BY TransportStep
<1> QED
  BY <1>1, TransportHolds, PTL DEF TransportSpec, IsFifo

(* reserve() and its caller (Limiter) keep the rate with batches of every  *)
(* size, also ones larger than the burst: what is sent since any moment is *)
(* at most a burst and what the rate allows, and no batch waits longer     *)
(* than its own bytes take.                                                *)
THEOREM RateKept == TransportSpec => []Paced
<1>1. TransportInv => Paced
  BY DEF TransportInv, RateInv, Paced
<1> QED
  BY <1>1, TransportHolds, PTL

(* packet_input() and close() agree on the two maps, for any number of     *)
(* addresses, conversations and sessions, as long as no peer resets a      *)
(* session that the application is closing: a live session is reached, a   *)
(* closed one forgotten, no conversation has two, every session hears of   *)
(* the socket's error.                                                     *)
THEOREM RoutingSound == TransportSpec => []Routing
<1>1. TransportInv => Routing
  BY RouteHolds DEF TransportInv, Routing
<1> QED
  BY <1>1, TransportHolds, PTL

(* No acceptor sleeps on a queued session that no wake-up is under way     *)
(* for, nor a reader on a message, for any number of acceptors.            *)
THEOREM WakeupsKept == TransportSpec => []NoLostWakeup
<1>1. TransportInv => NoLostWakeup
  <2> SUFFICES ASSUME TransportInv PROVE NoLostWakeup
    OBVIOUS
  <2>1. CASE part = "listener"
    BY <2>1 DEF TransportInv, NoLostWakeup
  <2>2. CASE part = "session"
    BY <2>2 DEF TransportInv, SessionInv, NoLostWakeup
  <2>3. CASE part # "listener" /\ part # "session"
    BY <2>3 DEF NoLostWakeup
  <2> QED
    BY <2>1, <2>2, <2>3
<1> QED
  BY <1>1, TransportHolds, PTL

(* What flush() has put in flight has been sent or is on its way to the    *)
(* socket, for any depth of the channel and any number of writers, while   *)
(* the transmit task runs and the socket has not failed: the room it asks  *)
(* for (OUTPUT_ROOM) is enough.                                            *)
THEOREM FlushedKept == TransportSpec => []NothingDropped
<1>1. TransportInv => NothingDropped
  BY DEF TransportInv, SessionInv, NothingDropped
<1> QED
  BY <1>1, TransportHolds, PTL

=============================================================================
