-------------------------- MODULE EventBinsProofs ---------------------------
(***************************************************************************)
(* What insert, remove, the pop of serviceOne and a walk do to the list of *)
(* EventBins, for every set of events and priorities.                      *)
(*                                                                         *)
(* Chain names the sequence the links stand for: q[1..n], without          *)
(* repetitions and sorted by key.  An event of a stack leads to the next   *)
(* one of its key, and the top of a stack to the top of the next stack.    *)
(* Nothing is said of the nextBin of the events below a top.               *)
(***************************************************************************)
EXTENDS EventBins, TLAPS

(* What the provers may take for a step that names none, in seconds. *)
USE SMTT(30), ZenonT(30), Z3T(30)

(* The event at place i, or the null pointer behind the last. *)
At(q, n, i) == IF i \in 1..n THEN q[i] ELSE NoEvent

(* Without repetitions and sorted. *)
Order(w, q, n) ==
    /\ n \in Nat /\ q \in [1..n -> Events]
    /\ \A i, j \in 1..n : i < j => q[i] # q[j] /\ ~Less(w, q[j], q[i])

(* q[i] is the first event of its key. *)
Top(w, q, i) == i = 1 \/ ~Same(w, q[i - 1], q[i])

(* The events from i on with the key of q[i] end before j. *)
Bin(w, q, n, i, j) ==
    /\ j \in (i + 1)..(n + 1)
    /\ \A k \in i..(j - 1) : Same(w, q[i], q[k])
    /\ j <= n => Less(w, q[i], q[j])

Stacks(l, w, q, n) ==
    \A i \in 1..n :
        l.nextInBin[q[i]] = IF i < n /\ Same(w, q[i], q[i + 1]) THEN q[i + 1] ELSE NoEvent

(* The link of the top of a bin to the next bin. *)
Link(l, w, q, n, i) == \E j \in 1..(n + 1) : Bin(w, q, n, i, j) /\ l.nextBin[q[i]] = At(q, n, j)

Chain(l, w, q, n) ==
    /\ Order(w, q, n) /\ Stacks(l, w, q, n)
    /\ l.head = At(q, n, 1)
    /\ \A i \in 1..n : Top(w, q, i) => Link(l, w, q, n, i)

IsList(l) ==
    /\ l = [head |-> l.head, nextBin |-> l.nextBin, nextInBin |-> l.nextInBin]
    /\ l.head \in Pointer
    /\ l.nextBin \in [Events -> Pointer] /\ l.nextInBin \in [Events -> Pointer]

Ticks == [Events -> Int]

(* q with e at place k, and without the event at place m. *)
Ins(q, n, k, e) == [i \in 1..(n + 1) |-> IF i < k THEN q[i] ELSE IF i = k THEN e ELSE q[i - 1]]
Del(q, n, m) == [i \in 1..(n - 1) |-> IF i < m THEN q[i] ELSE q[i + 1]]

-----------------------------------------------------------------------------
(* The comparison of events is a weak order, whatever their ticks. *)
LEMMA KeyOrder ==
  ASSUME NEW w \in Ticks, NEW a \in Events, NEW b \in Events, NEW c \in Events
  PROVE  /\ ~Less(w, a, a) /\ Same(w, a, a)
         /\ Less(w, a, b) => ~Less(w, b, a) /\ ~Same(w, a, b) /\ ~Same(w, b, a)
         /\ Same(w, a, b) => Same(w, b, a)
         /\ Less(w, a, b) \/ Same(w, a, b) \/ Less(w, b, a)
         /\ Less(w, a, b) /\ Less(w, b, c) => Less(w, a, c)
         /\ Less(w, a, b) /\ Same(w, b, c) => Less(w, a, c)
         /\ Same(w, a, b) /\ Less(w, b, c) => Less(w, a, c)
         /\ Same(w, a, b) /\ Same(w, b, c) => Same(w, a, c)
  BY BinsAssumption DEF Less, Same, Ticks

(* Every non-empty set of naturals has a least element.  The lemmas about  *)
(* loops take it as a hypothesis; EventQueueProofs proves it.              *)
LeastElements ==
    \A T \in SUBSET Nat : T # {} => \E x \in T : \A y \in T : x <= y

(* The states of a loop: the first is x, each of the others f of the last. *)
LEMMA TurnsStep ==
  ASSUME LeastElements, NEW f, NEW x, NEW n \in Nat
  PROVE  /\ Turns(f, x, n)[0] = x
         /\ \A k \in 1..n : Turns(f, x, n)[k] = f[Turns(f, x, n)[k - 1]]
<1> DEFINE Step(t, k) == t[k] = IF k = 0 THEN x ELSE f[t[k - 1]]
           Is(t, m) == t = [k \in 0..m |-> t[k]] /\ \A k \in 0..m : Step(t, k)
           turn == CHOOSE t : t = [k \in 0..n |-> IF k = 0 THEN x ELSE f[t[k - 1]]]
           Bad == {m \in Nat : ~\E t : Is(t, m)}
<1>1. Bad = {}
  <2> SUFFICES ASSUME Bad # {} PROVE FALSE
    OBVIOUS
  <2>1. PICK m \in Bad : \A k \in Bad : m <= k
    <3>1. Bad \in SUBSET Nat
      OBVIOUS
    <3> HIDE DEF Bad
    <3> QED
      BY <3>1 DEF LeastElements
  <2>2. CASE m = 0
    <3>1. Is([k \in 0..0 |-> x], 0)
      OBVIOUS
    <3> QED
      BY <2>2, <3>1, ZenonT(30)
  <2>3. CASE m # 0
    <3>1. m \in Nat /\ m - 1 \in Nat /\ m - 1 \notin Bad
      BY <2>1, <2>3
    <3>2. PICK t : Is(t, m - 1)
      BY <3>1
    <3> DEFINE u == [k \in 0..m |-> IF k = m THEN f[t[m - 1]] ELSE t[k]]
    <3>3. Is(u, m)
      <4>1. u = [k \in 0..m |-> u[k]]
        OBVIOUS
      <4>2. \A k \in 0..(m - 1) : u[k] = t[k]
        BY <3>1
      <4>3. u[m] = f[t[m - 1]]
        BY <3>1
      <4> HIDE DEF u
      <4>4. ASSUME NEW k \in 0..m PROVE Step(u, k)
        <5>1. CASE k = m
          <6>1. u[m - 1] = t[m - 1]
            BY <3>1, <4>2
          <6> QED
            BY <2>3, <4>3, <5>1, <6>1
        <5>2. CASE k # m
          <6>1. k \in 0..(m - 1) /\ (k # 0 => k - 1 \in 0..(m - 1))
            BY <3>1, <5>2
          <6>2. u[k] = t[k] /\ (k # 0 => u[k - 1] = t[k - 1])
            BY <4>2, <6>1
          <6> QED
            BY <3>2, <6>1, <6>2, ZenonT(30)
        <5> QED
          BY <5>1, <5>2
      <4> QED
        BY <4>1, <4>4, ZenonT(30)
    <3> QED
      BY <3>3, <2>1, ZenonT(30)
  <2> QED
    BY <2>2, <2>3
<1>2. Is(turn, n)
  <2>1. PICK t : Is(t, n)
    BY <1>1
  <2>2. t = [k \in 0..n |-> IF k = 0 THEN x ELSE f[t[k - 1]]]
    BY <2>1, ZenonT(30)
  <2>3. turn = [k \in 0..n |-> IF k = 0 THEN x ELSE f[turn[k - 1]]]
    BY <2>2, ZenonT(30)
  <2> HIDE DEF turn
  <2> QED
    BY <2>3, ZenonT(30)
<1>3. Turns(f, x, n) = turn
  BY DEF Turns
<1> HIDE DEF turn
<1>4. 0 \in 0..n /\ \A k \in 1..n : k \in 0..n /\ k # 0
  OBVIOUS
<1> QED
  BY <1>2, <1>3, <1>4, ZenonT(30)

(* A loop invariant P, one set of states per turn. *)
LEMMA TurnsInvariant ==
  ASSUME LeastElements, NEW f, NEW x, NEW n \in Nat, NEW P, x \in P[0],
         \A k \in 1..n : \A y \in P[k - 1] : f[y] \in P[k]
  PROVE  \A k \in 0..n : Turns(f, x, n)[k] \in P[k]
<1> DEFINE t == Turns(f, x, n)
           Bad == {k \in Nat : k <= n /\ t[k] \notin P[k]}
<1>1. t[0] = x /\ \A k \in 1..n : t[k] = f[t[k - 1]]
  BY TurnsStep
<1> HIDE DEF t
<1>2. Bad = {}
  <2> SUFFICES ASSUME Bad # {} PROVE FALSE
    OBVIOUS
  <2>1. PICK m \in Bad : \A k \in Bad : m <= k
    <3>1. Bad \in SUBSET Nat
      OBVIOUS
    <3> HIDE DEF Bad
    <3> QED
      BY <3>1, ZenonT(30) DEF LeastElements
  <2>2. m # 0
    BY <1>1, <2>1
  <2>3. m \in 1..n /\ m - 1 \in Nat /\ m - 1 <= n /\ m - 1 \notin Bad
    BY <2>1, <2>2
  <2>4. t[m - 1] \in P[m - 1]
    BY <2>3
  <2>5. t[m] \in P[m]
    BY <1>1, <2>3, <2>4
  <2> QED
    BY <2>1, <2>5
<1>3. \A k \in 0..n : k \in Nat /\ k <= n
  OBVIOUS
<1> QED
  BY <1>2, <1>3 DEF t

-----------------------------------------------------------------------------
(* e belongs at place c of q. *)
Place(w, q, n, e, c) ==
    /\ c \in 1..(n + 1) /\ e \in Events
    /\ \A i \in 1..n : q[i] # e /\ (i < c <=> Less(w, q[i], e))

(* r is q with e inserted at place c. *)
Inserted(q, n, c, e, r) ==
    /\ r \in [1..(n + 1) -> Events]
    /\ \A i \in 1..(c - 1) : r[i] = q[i]
    /\ r[c] = e
    /\ \A i \in c..n : r[i + 1] = q[i]

(* Ins is what it is called. *)
LEMMA InsInserted ==
  ASSUME NEW n \in Nat, NEW q \in [1..n -> Events], NEW c \in 1..(n + 1), NEW e \in Events
  PROVE  Inserted(q, n, c, e, Ins(q, n, c, e))
  BY DEF Inserted, Ins

(* Insertion at the right place keeps the order. *)
LEMMA InsertOrder ==
  ASSUME NEW w \in Ticks, NEW q, NEW n, Order(w, q, n), NEW e, NEW c, Place(w, q, n, e, c),
         NEW r, Inserted(q, n, c, e, r)
  PROVE  Order(w, r, n + 1)
<1>1. n \in Nat /\ c \in 1..(n + 1) /\ e \in Events /\ r \in [1..(n + 1) -> Events]
      /\ \A i \in 1..n : q[i] \in Events
  BY DEF Order, Place, Inserted
<1>2. ASSUME NEW i \in 1..(n + 1), NEW j \in 1..(n + 1), i < j
      PROVE  r[i] # r[j] /\ ~Less(w, r[j], r[i])
  <2>1. CASE j < c
    <3>1. i \in 1..n /\ j \in 1..n /\ r[i] = q[i] /\ r[j] = q[j]
      BY <1>1, <1>2, <2>1 DEF Inserted
    <3> QED
      BY <1>2, <3>1 DEF Order
  <2>2. CASE j = c
    <3>1. i \in 1..n /\ r[i] = q[i] /\ r[j] = e /\ i < c
      BY <1>1, <1>2, <2>2 DEF Inserted
    <3>2. q[i] # e /\ Less(w, q[i], e)
      BY <3>1 DEF Place
    <3> QED
      BY <1>1, <3>1, <3>2, KeyOrder
  <2>3. CASE i < c /\ c < j
    <3>1. i \in 1..n /\ j - 1 \in c..n /\ j - 1 \in 1..n /\ i < j - 1
      BY <1>1, <1>2, <2>3
    <3>2. r[i] = q[i] /\ r[j] = q[j - 1]
      BY <1>1, <2>3, <3>1 DEF Inserted
    <3> QED
      BY <3>1, <3>2 DEF Order
  <2>4. CASE i = c
    <3>1. j - 1 \in c..n /\ j - 1 \in 1..n /\ ~(j - 1 < c)
      BY <1>1, <1>2, <2>4
    <3>2. r[i] = e /\ r[j] = q[j - 1]
      BY <1>1, <2>4, <3>1 DEF Inserted
    <3> QED
      BY <3>1, <3>2 DEF Place
  <2>5. CASE c < i
    <3>1. i - 1 \in c..n /\ i - 1 \in 1..n /\ j - 1 \in c..n /\ j - 1 \in 1..n /\ i - 1 < j - 1
      BY <1>1, <1>2, <2>5
    <3>2. r[i] = q[i - 1] /\ r[j] = q[j - 1]
      BY <1>1, <3>1 DEF Inserted
    <3> QED
      BY <3>1, <3>2 DEF Order
  <2> QED
    BY <1>1, <1>2, <2>1, <2>2, <2>3, <2>4, <2>5
<1> QED
  BY <1>1, <1>2 DEF Order

(* The bins behind the place of insertion move by one. *)
LEMMA InsertShift ==
  ASSUME NEW w \in Ticks, NEW q, NEW n, Order(w, q, n), NEW e, NEW c, Place(w, q, n, e, c),
         NEW r, Inserted(q, n, c, e, r), NEW i \in c..n, NEW j, Bin(w, q, n, i, j)
  PROVE  Bin(w, r, n + 1, i + 1, j + 1) /\ At(r, n + 1, j + 1) = At(q, n, j)
<1>1. n \in Nat /\ c \in 1..(n + 1) /\ i \in 1..n /\ j \in (i + 1)..(n + 1)
  BY DEF Order, Place, Bin
<1>2. \A k \in c..n : r[k + 1] = q[k]
  BY DEF Inserted
<1>3. r[i + 1] = q[i] /\ (j <= n => r[j + 1] = q[j])
  BY <1>1, <1>2
<1>4. ASSUME NEW k \in (i + 1)..j PROVE Same(w, r[i + 1], r[k])
  <2>1. k - 1 \in i..(j - 1) /\ k - 1 \in c..n
    BY <1>1
  <2>2. r[k] = q[k - 1]
    <3>1. r[(k - 1) + 1] = q[k - 1]
      BY <1>2, <2>1
    <3> QED
      BY <1>1, <3>1
  <2> QED
    BY <1>3, <2>1, <2>2 DEF Bin
<1>5. j + 1 <= n + 1 => Less(w, r[i + 1], r[j + 1])
  BY <1>1, <1>3 DEF Bin
<1>6. j + 1 \in ((i + 1) + 1)..((n + 1) + 1) /\ (j + 1) - 1 = j
  BY <1>1
<1>7. At(r, n + 1, j + 1) = At(q, n, j)
  BY <1>1, <1>3 DEF At
<1> QED
  BY <1>4, <1>5, <1>6, <1>7 DEF Bin

(* A bin in front of it keeps its place, and ends at e if it ended there. *)
LEMMA InsertFront ==
  ASSUME NEW w \in Ticks, NEW q, NEW n, Order(w, q, n), NEW e, NEW c, Place(w, q, n, e, c),
         NEW r, Inserted(q, n, c, e, r), NEW i \in 1..(c - 1), NEW j, Bin(w, q, n, i, j)
  PROVE  /\ j \in (i + 1)..c /\ Bin(w, r, n + 1, i, j)
         /\ j < c => At(r, n + 1, j) = At(q, n, j)
<1>1. n \in Nat /\ c \in 1..(n + 1) /\ i \in 1..n /\ j \in (i + 1)..(n + 1) /\ i < c
      /\ e \in Events /\ \A k \in 1..n : q[k] \in Events
  BY DEF Order, Place, Bin
<1>2. Less(w, q[i], e)
  BY <1>1 DEF Place
<1>3. j <= c
  <2> SUFFICES ASSUME j > c PROVE FALSE
    BY <1>1
  <2>1. c \in i..(j - 1) /\ c \in 1..n
    BY <1>1
  <2>2. Same(w, q[i], q[c]) /\ ~Less(w, q[c], e)
    BY <2>1 DEF Bin, Place
  <2>3. q[i] \in Events /\ q[c] \in Events
    BY <1>1, <2>1
  <2>4. Same(w, q[c], q[i])
    BY <2>2, <2>3, KeyOrder
  <2> QED
    BY <1>1, <1>2, <2>2, <2>3, <2>4, KeyOrder
<1>4. \A k \in 1..(c - 1) : r[k] = q[k]
  BY DEF Inserted
<1>5. ASSUME NEW k \in i..(j - 1) PROVE Same(w, r[i], r[k])
  <2>1. k \in 1..(c - 1)
    BY <1>1, <1>3
  <2> QED
    BY <1>4, <2>1 DEF Bin
<1>6. Less(w, r[i], r[j])
  <2>1. CASE j = c
    BY <1>2, <1>4, <2>1 DEF Inserted
  <2>2. CASE j < c
    <3>1. j \in 1..(c - 1) /\ j <= n
      BY <1>1, <2>2
    <3> QED
      BY <1>4, <3>1 DEF Bin
  <2> QED
    BY <1>1, <1>3, <2>1, <2>2
<1>7. j < c => At(r, n + 1, j) = At(q, n, j)
  <2> SUFFICES ASSUME j < c PROVE At(r, n + 1, j) = At(q, n, j)
    OBVIOUS
  <2>1. j \in 1..(c - 1) /\ j \in 1..n /\ j \in 1..(n + 1)
    BY <1>1
  <2> QED
    BY <1>4, <2>1 DEF At
<1>8. j \in (i + 1)..((n + 1) + 1) /\ j \in (i + 1)..c
  BY <1>1, <1>3
<1> QED
  BY <1>5, <1>6, <1>7, <1>8 DEF Bin

(* What assigning one link does to a list. *)
LEMMA SetNextBin ==
  ASSUME NEW l, IsList(l), NEW a \in Events, NEW b \in Pointer
  PROVE  LET k == [l EXCEPT !.nextBin[a] = b] IN
         /\ IsList(k) /\ k.head = l.head /\ k.nextInBin = l.nextInBin
         /\ k.nextBin = [l.nextBin EXCEPT ![a] = b]
  BY DEF IsList
LEMMA SetNextInBin ==
  ASSUME NEW l, IsList(l), NEW a \in Events, NEW b \in Pointer
  PROVE  LET k == [l EXCEPT !.nextInBin[a] = b] IN
         /\ IsList(k) /\ k.head = l.head /\ k.nextBin = l.nextBin
         /\ k.nextInBin = [l.nextInBin EXCEPT ![a] = b]
  BY DEF IsList
LEMMA SetHead ==
  ASSUME NEW l, IsList(l), NEW b \in Pointer
  PROVE  LET k == [l EXCEPT !.head = b] IN
         IsList(k) /\ k.head = b /\ k.nextInBin = l.nextInBin /\ k.nextBin = l.nextBin
  BY DEF IsList

(* What insertBefore writes. *)
LEMMA InsertBeforeValue ==
  ASSUME NEW l, IsList(l), NEW w, NEW e \in Events, NEW curr \in Pointer
  PROVE  LET own == curr = NoEvent \/ Less(w, e, curr)
             m == InsertBefore(l, w, e, curr)
         IN  /\ IsList(m) /\ m.head = l.head
             /\ m.nextBin = [l.nextBin EXCEPT ![e] = IF own THEN curr ELSE l.nextBin[curr]]
             /\ m.nextInBin = [l.nextInBin EXCEPT ![e] = IF own THEN NoEvent ELSE curr]
<1>1. CASE curr = NoEvent \/ Less(w, e, curr)
  BY <1>1, ZenonT(30) DEF IsList, InsertBefore, Pointer
<1>2. CASE ~(curr = NoEvent \/ Less(w, e, curr))
  <2>1. curr \in Events /\ l.nextBin[curr] \in Pointer
    BY <1>2 DEF IsList, Pointer
  <2> QED
    BY <1>2, <2>1, ZenonT(30) DEF IsList, InsertBefore
<1> QED
  BY <1>1, <1>2

(* The links after insertBefore, but for the one that leads to e: that of  *)
(* the bin that ends at place c.                                           *)
LEMMA InsertBeforeLinks ==
  ASSUME NEW l, IsList(l), NEW w \in Ticks, NEW q, NEW n, Chain(l, w, q, n),
         NEW e, NEW c, Place(w, q, n, e, c), NEW r, Inserted(q, n, c, e, r),
         NEW m, m = InsertBefore(l, w, e, At(q, n, c))
  PROVE  /\ IsList(m) /\ m.head = l.head
         /\ Stacks(m, w, r, n + 1)
         /\ \A i \in c..(n + 1) : Top(w, r, i) => Link(m, w, r, n + 1, i)
         /\ \A i \in 1..(c - 1) : Top(w, r, i) =>
               /\ Top(w, q, i)
               /\ \E j \in (i + 1)..c : /\ Bin(w, q, n, i, j) /\ Bin(w, r, n + 1, i, j)
                                        /\ j < c => m.nextBin[r[i]] = At(r, n + 1, j)
<1> DEFINE own == c = n + 1 \/ Less(w, e, q[c])
<1>1. /\ n \in Nat /\ c \in 1..(n + 1) /\ e \in Events
      /\ \A i \in 1..n : q[i] \in Events /\ q[i] # e /\ (i < c <=> Less(w, q[i], e))
  BY DEF Chain, Order, Place
<1>2. /\ \A i \in 1..(c - 1) : r[i] = q[i]
      /\ r[c] = e
      /\ \A i \in c..n : r[i + 1] = q[i]
  BY DEF Inserted
<1>3. /\ At(q, n, c) \in Pointer
      /\ At(q, n, c) = NoEvent <=> c = n + 1
      /\ c <= n => At(q, n, c) = q[c]
  BY <1>1, BinsAssumption DEF At, Pointer
<1>4. /\ IsList(m) /\ m.head = l.head
      /\ m.nextBin[e] = IF own THEN At(q, n, c) ELSE l.nextBin[q[c]]
      /\ m.nextInBin[e] = IF own THEN NoEvent ELSE q[c]
      /\ \A a \in Events : a # e => m.nextBin[a] = l.nextBin[a] /\ m.nextInBin[a] = l.nextInBin[a]
  <2>1. (At(q, n, c) = NoEvent \/ Less(w, e, At(q, n, c))) <=> own
    BY <1>1, <1>3
  <2>2. ~own => At(q, n, c) = q[c]
    BY <1>1, <1>3
  <2>3. e \in DOMAIN l.nextBin /\ e \in DOMAIN l.nextInBin
    BY <1>1 DEF IsList
  <2> HIDE DEF own
  <2> DEFINE curr == At(q, n, c)
  <2>4. /\ IsList(m) /\ m.head = l.head
        /\ m.nextBin = [l.nextBin EXCEPT ![e] = IF own THEN curr ELSE l.nextBin[curr]]
        /\ m.nextInBin = [l.nextInBin EXCEPT ![e] = IF own THEN NoEvent ELSE curr]
    <3>1. m = InsertBefore(l, w, e, curr) /\ e \in Events /\ curr \in Pointer
      BY <1>1, <1>3, ZenonT(30)
    <3>2. (curr = NoEvent \/ Less(w, e, curr)) <=> own
      BY <2>1, ZenonT(30)
    <3> HIDE DEF curr
    <3>3. LET o == curr = NoEvent \/ Less(w, e, curr)
          IN  /\ IsList(m) /\ m.head = l.head
              /\ m.nextBin = [l.nextBin EXCEPT ![e] = IF o THEN curr ELSE l.nextBin[curr]]
              /\ m.nextInBin = [l.nextInBin EXCEPT ![e] = IF o THEN NoEvent ELSE curr]
      BY <3>1, InsertBeforeValue
    <3> QED
      BY <3>2, <3>3
  <2>5. ~own => curr = q[c]
    BY <2>2
  <2> HIDE DEF curr
  <2>6. DOMAIN l.nextBin = Events /\ DOMAIN l.nextInBin = Events
    BY DEF IsList
  <2>7. /\ m.nextBin[e] = IF own THEN curr ELSE l.nextBin[q[c]]
        /\ m.nextInBin[e] = IF own THEN NoEvent ELSE q[c]
    BY <2>3, <2>4, <2>5
  <2>8. \A a \in Events : a # e => m.nextBin[a] = l.nextBin[a] /\ m.nextInBin[a] = l.nextInBin[a]
    BY <2>4, <2>6
  <2> QED
    BY <2>4, <2>7, <2>8 DEF curr
<1>5. ~own => c \in 1..n /\ Same(w, e, q[c])
  <2> SUFFICES ASSUME ~own PROVE c \in 1..n /\ Same(w, e, q[c])
    OBVIOUS
  <2>1. c \in 1..n /\ ~Less(w, e, q[c])
    BY <1>1
  <2>2. ~Less(w, q[c], e) /\ q[c] \in Events
    BY <1>1, <2>1
  <2> QED
    BY <1>1, <2>1, <2>2, KeyOrder
<1>6. own => c = n + 1 \/ ~Same(w, e, q[c])
  <2>1. ASSUME c \in 1..n, Less(w, e, q[c]) PROVE ~Same(w, e, q[c])
    BY <1>1, <2>1, KeyOrder
  <2> QED
    BY <1>1, <2>1
<1> HIDE DEF own
<1>7. \A i \in 1..(c - 1) : i \in 1..n /\ Less(w, q[i], e) /\ ~Same(w, q[i], e)
  <2> SUFFICES ASSUME NEW i \in 1..(c - 1)
               PROVE  i \in 1..n /\ Less(w, q[i], e) /\ ~Same(w, q[i], e)
    OBVIOUS
  <2>1. i \in 1..n /\ i < c
    BY <1>1
  <2> QED
    BY <1>1, <2>1, KeyOrder
<1>8. ASSUME NEW i \in 1..(c - 1), c \in 1..n PROVE ~Same(w, q[i], q[c])
  <2>1. q[i] \in Events /\ q[c] \in Events /\ Less(w, q[i], e) /\ ~Less(w, q[c], e)
    BY <1>1, <1>7, <1>8
  <2>2. Same(w, q[i], q[c]) => Same(w, q[c], q[i])
    BY <2>1, KeyOrder
  <2>3. Same(w, q[c], q[i]) => Less(w, q[c], e)
    BY <1>1, <2>1, KeyOrder
  <2> QED
    BY <2>1, <2>2, <2>3
<1>9. \A i \in 1..n : l.nextInBin[q[i]] = IF i < n /\ Same(w, q[i], q[i + 1])
                                          THEN q[i + 1] ELSE NoEvent
  BY DEF Chain, Stacks
<1>10. Stacks(m, w, r, n + 1)
  <2> SUFFICES ASSUME NEW i \in 1..(n + 1)
               PROVE  m.nextInBin[r[i]] = IF i < n + 1 /\ Same(w, r[i], r[i + 1])
                                          THEN r[i + 1] ELSE NoEvent
    BY DEF Stacks
  <2>1. CASE i + 1 < c
    <3>1. i \in 1..n /\ i < n /\ i \in 1..(c - 1) /\ i + 1 \in 1..(c - 1)
      BY <1>1, <2>1
    <3>2. r[i] = q[i] /\ r[i + 1] = q[i + 1] /\ m.nextInBin[q[i]] = l.nextInBin[q[i]]
      BY <1>1, <1>2, <1>4, <3>1
    <3>3. l.nextInBin[q[i]] = IF i < n /\ Same(w, q[i], q[i + 1]) THEN q[i + 1] ELSE NoEvent
      BY <1>9, <3>1
    <3>4. i < n + 1
      BY <1>1, <3>1
    <3> QED
      BY <3>1, <3>2, <3>3, <3>4
  <2>2. CASE i + 1 = c
    <3>1. i \in 1..n /\ i \in 1..(c - 1)
      BY <1>1, <2>2
    <3>2. r[i] = q[i] /\ r[i + 1] = e /\ m.nextInBin[q[i]] = l.nextInBin[q[i]]
      BY <1>1, <1>2, <1>4, <2>2, <3>1
    <3>3. l.nextInBin[q[i]] = NoEvent
      <4>1. i < n => c \in 1..n
        BY <1>1, <2>2
      <4> QED
        BY <1>8, <1>9, <2>2, <3>1, <4>1
    <3> QED
      BY <1>7, <3>1, <3>2, <3>3
  <2>3. CASE i = c
    <3>1. c < n + 1 => c \in c..n
      BY <1>1
    <3>2. c < n + 1 => r[c + 1] = q[c]
      BY <1>2, <3>1
    <3>3. CASE own
      BY <1>1, <1>2, <1>4, <1>6, <2>3, <3>2, <3>3
    <3>4. CASE ~own
      BY <1>1, <1>2, <1>4, <1>5, <2>3, <3>2, <3>4
    <3> QED
      BY <3>3, <3>4
  <2>4. CASE i > c
    <3> DEFINE k == i - 1
    <3>1. k \in c..n /\ k \in 1..n /\ i = k + 1 /\ (k < n <=> i < n + 1)
      BY <1>1, <2>4
    <3> HIDE DEF k
    <3>2. r[k + 1] = q[k] /\ m.nextInBin[q[k]] = l.nextInBin[q[k]]
      BY <1>1, <1>2, <1>4, <3>1
    <3>3. k < n => r[(k + 1) + 1] = q[k + 1]
      <4>1. k < n => k + 1 \in c..n
        BY <1>1, <3>1
      <4> QED
        BY <1>2, <4>1
    <3> QED
      BY <1>9, <3>1, <3>2, <3>3
  <2> QED
    BY <1>1, <2>1, <2>2, <2>3, <2>4
<1>11. ASSUME NEW i \in c..n, Top(w, q, i)
       PROVE  \E j : Bin(w, q, n, i, j) /\ l.nextBin[q[i]] = At(q, n, j)
  <2>1. i \in 1..n
    BY <1>1
  <2> QED
    BY <1>11, <2>1 DEF Chain, Link
<1>12. c \in 1..n => Top(w, q, c)
  <2> SUFFICES ASSUME c \in 1..n, c # 1 PROVE ~Same(w, q[c - 1], q[c])
    BY DEF Top
  <2>1. c - 1 \in 1..(c - 1)
    BY <1>1
  <2> QED
    BY <1>8, <2>1
<1>13. ASSUME NEW i \in c..(n + 1), Top(w, r, i) PROVE Link(m, w, r, n + 1, i)
  <2>1. CASE i = c /\ own
    <3>1. c \in 1..n => r[c + 1] = q[c] /\ Less(w, e, q[c])
      <4>1. c \in 1..n => c \in c..n /\ c # n + 1
        BY <1>1
      <4> QED
        BY <1>2, <2>1, <4>1 DEF own
    <3>2. \A k \in c..((c + 1) - 1) : k = c
      BY <1>1
    <3>3. Same(w, r[c], r[c])
      BY <1>1, <1>2, KeyOrder
    <3>4. c + 1 <= n + 1 => c \in 1..n
      BY <1>1
    <3>5. c + 1 \in (c + 1)..((n + 1) + 1) /\ c + 1 \in 1..((n + 1) + 1)
      BY <1>1
    <3>6. Bin(w, r, n + 1, c, c + 1)
      BY <1>2, <3>1, <3>2, <3>3, <3>4, <3>5 DEF Bin
    <3>7. At(r, n + 1, c + 1) = At(q, n, c)
      BY <1>1, <3>1 DEF At
    <3> QED
      BY <1>2, <1>4, <2>1, <3>5, <3>6, <3>7 DEF Link
  <2>2. CASE i = c /\ ~own
    <3>1. c \in c..n /\ c \in 1..n /\ Same(w, e, q[c]) /\ Top(w, q, c)
      BY <1>1, <1>5, <1>12, <2>2
    <3>2. PICK j : Bin(w, q, n, c, j) /\ l.nextBin[q[c]] = At(q, n, j)
      BY <1>11, <3>1
    <3>3. Bin(w, r, n + 1, c + 1, j + 1) /\ At(r, n + 1, j + 1) = At(q, n, j)
      BY <3>1, <3>2, InsertShift DEF Chain
    <3>4. r[c + 1] = q[c] /\ q[c] \in Events /\ r \in [1..(n + 1) -> Events]
      BY <1>1, <1>2, <3>1 DEF Inserted
    <3>5. j \in Int /\ j + 1 \in (c + 1)..((n + 1) + 1) /\ j + 1 \in 1..((n + 1) + 1)
          /\ (j + 1) - 1 = j /\ j \in c..(n + 1)
      BY <1>1, <3>2 DEF Bin
    <3>6. \A k \in c..j : Same(w, e, r[k])
      <4> SUFFICES ASSUME NEW k \in c..j PROVE Same(w, e, r[k])
        OBVIOUS
      <4>1. CASE k = c
        BY <1>1, <1>2, <4>1, KeyOrder
      <4>2. CASE k # c
        <5>1. k \in (c + 1)..((j + 1) - 1) /\ k \in 1..(n + 1)
          BY <1>1, <3>5, <4>2
        <5>2. Same(w, q[c], r[k]) /\ r[k] \in Events
          BY <3>3, <3>4, <5>1 DEF Bin
        <5> QED
          BY <1>1, <3>1, <3>4, <5>2, KeyOrder
      <4> QED
        BY <4>1, <4>2
    <3>7. j + 1 <= n + 1 => Less(w, e, r[j + 1])
      <4> SUFFICES ASSUME j + 1 <= n + 1 PROVE Less(w, e, r[j + 1])
        OBVIOUS
      <4>1. Less(w, q[c], r[j + 1])
        BY <3>3, <3>4 DEF Bin
      <4>2. j + 1 \in 1..(n + 1)
        BY <1>1, <3>5
      <4> QED
        BY <1>1, <3>1, <3>4, <4>1, <4>2, KeyOrder
    <3>8. Bin(w, r, n + 1, c, j + 1)
      BY <1>2, <3>5, <3>6, <3>7 DEF Bin
    <3> QED
      BY <1>2, <1>4, <2>2, <3>2, <3>3, <3>5, <3>8 DEF Link
  <2>3. CASE i # c
    <3> DEFINE k == i - 1
    <3>1. k \in c..n /\ k \in 1..n /\ i = k + 1 /\ i # 1
      BY <1>1, <2>3
    <3> HIDE DEF k
    <3>2. r[i] = q[k] /\ m.nextBin[q[k]] = l.nextBin[q[k]]
      BY <1>1, <1>2, <1>4, <3>1
    <3>3. Top(w, q, k)
      <4>1. CASE k = c
        BY <1>12, <3>1, <4>1
      <4>2. CASE k # c
        <5>1. k - 1 \in c..n /\ (k - 1) + 1 = i - 1 /\ k - 1 = i - 2
          BY <1>1, <3>1, <4>2
        <5>2. r[i - 1] = q[k - 1]
          BY <1>2, <5>1
        <5> QED
          BY <1>13, <3>1, <3>2, <5>2 DEF Top
      <4> QED
        BY <4>1, <4>2
    <3>4. PICK j : Bin(w, q, n, k, j) /\ l.nextBin[q[k]] = At(q, n, j)
      BY <1>11, <3>1, <3>3
    <3>5. Bin(w, r, n + 1, k + 1, j + 1) /\ At(r, n + 1, j + 1) = At(q, n, j)
      BY <3>1, <3>4, InsertShift DEF Chain
    <3>6. j + 1 \in 1..((n + 1) + 1)
      BY <1>1, <3>1, <3>4 DEF Bin
    <3> QED
      BY <3>1, <3>2, <3>4, <3>5, <3>6 DEF Link
  <2> QED
    BY <2>1, <2>2, <2>3
<1>14. ASSUME NEW i \in 1..(c - 1), Top(w, r, i)
       PROVE  /\ Top(w, q, i)
              /\ \E j \in (i + 1)..c : /\ Bin(w, q, n, i, j) /\ Bin(w, r, n + 1, i, j)
                                       /\ j < c => m.nextBin[r[i]] = At(r, n + 1, j)
  <2>1. i \in 1..n /\ r[i] = q[i] /\ (i # 1 => r[i - 1] = q[i - 1])
    <3>1. i \in 1..n /\ (i # 1 => i - 1 \in 1..(c - 1))
      BY <1>1
    <3> QED
      BY <1>2, <3>1
  <2>2. Top(w, q, i)
    BY <1>14, <2>1 DEF Top
  <2>3. PICK j : Bin(w, q, n, i, j) /\ l.nextBin[q[i]] = At(q, n, j)
    BY <2>1, <2>2 DEF Chain, Link
  <2>4. /\ j \in (i + 1)..c /\ Bin(w, r, n + 1, i, j)
        /\ j < c => At(r, n + 1, j) = At(q, n, j)
    BY <2>3, InsertFront DEF Chain
  <2>5. m.nextBin[r[i]] = l.nextBin[q[i]]
    BY <1>1, <1>4, <2>1
  <2> QED
    BY <2>2, <2>3, <2>4, <2>5
<1> QED
  BY <1>4, <1>10, <1>13, <1>14

(* Two bins that end at the same place are one. *)
LEMMA OneBin ==
  ASSUME NEW w \in Ticks, NEW q, NEW n, Order(w, q, n), NEW j,
         NEW i \in 1..n, Top(w, q, i), Bin(w, q, n, i, j),
         NEW p \in 1..n, Top(w, q, p), Bin(w, q, n, p, j)
  PROVE  i = p
<1>1. n \in Nat /\ j \in Int /\ j > i /\ j > p /\ j <= n + 1 /\ \A k \in 1..n : q[k] \in Events
  BY DEF Order, Bin
<1>2. ASSUME NEW a \in 1..n, NEW b \in 1..n, a < b, b < j, Bin(w, q, n, a, j), Top(w, q, b)
      PROVE  FALSE
  <2>1. b # 1 /\ b - 1 \in a..(j - 1) /\ b \in a..(j - 1) /\ b - 1 \in 1..n
    BY <1>1, <1>2
  <2>2. Same(w, q[a], q[b - 1]) /\ Same(w, q[a], q[b])
    BY <1>2, <2>1 DEF Bin
  <2>3. q[a] \in Events /\ q[b] \in Events /\ q[b - 1] \in Events
    BY <1>1, <2>1
  <2>4. Same(w, q[b - 1], q[a])
    BY <2>2, <2>3, KeyOrder
  <2>5. Same(w, q[b - 1], q[b])
    BY <2>2, <2>3, <2>4, KeyOrder
  <2> QED
    BY <1>2, <2>1, <2>5 DEF Top
<1>3. ~(i < p) /\ ~(p < i)
  BY <1>1, <1>2
<1> QED
  BY <1>3

(* A bin ends where the next one begins. *)
LEMMA NextTop ==
  ASSUME NEW w \in Ticks, NEW q, NEW n, Order(w, q, n), NEW p \in 1..n, NEW c \in 1..n,
         Bin(w, q, n, p, c)
  PROVE  Top(w, q, c)
<1>1. n \in Nat /\ c > p /\ \A k \in 1..n : q[k] \in Events
  BY DEF Order, Bin
<1>2. c - 1 \in p..(c - 1) /\ c - 1 \in 1..n /\ c <= n
  BY <1>1
<1>3. Same(w, q[p], q[c - 1]) /\ Less(w, q[p], q[c])
  BY <1>2 DEF Bin
<1>4. q[p] \in Events /\ q[c] \in Events /\ q[c - 1] \in Events
  BY <1>1, <1>2
<1>5. Same(w, q[c - 1], q[c]) => Same(w, q[p], q[c])
  BY <1>3, <1>4, KeyOrder
<1>6. ~Same(w, q[p], q[c])
  BY <1>3, <1>4, KeyOrder
<1> QED
  BY <1>5, <1>6 DEF Top

(* The loop of insert() and remove() stops at the bin e belongs behind. *)
LEMMA FindBinStops ==
  ASSUME NEW l, IsList(l), NEW w \in Ticks, NEW q, NEW n, Chain(l, w, q, n),
         LeastElements, NumEvents \in Nat, n <= NumEvents, 1 <= n, NEW e \in Events, Less(w, q[1], e)
  PROVE  \E p \in 1..n, c \in 1..(n + 1) :
            /\ FindBin(l, w, e) = [prev |-> q[p], curr |-> At(q, n, c)]
            /\ Top(w, q, p) /\ Bin(w, q, n, p, c)
            /\ Less(w, q[p], e) /\ (c <= n => ~Less(w, q[c], e))
<1> DEFINE B == [prev : Pointer, curr : Pointer]
           next == [b \in B |-> IF b.curr # NoEvent /\ Less(w, b.curr, e)
                                THEN [prev |-> b.curr, curr |-> l.nextBin[b.curr]]
                                ELSE b]
           Is(b, p, c) == /\ b = [prev |-> q[p], curr |-> At(q, n, c)]
                          /\ Top(w, q, p) /\ Bin(w, q, n, p, c) /\ Less(w, q[p], e)
           Done(c) == c <= n => ~Less(w, q[c], e)
           P == [k \in 0..NumEvents |->
                   {b \in B : \E p \in 1..n, c \in 1..(n + 1) :
                                  Is(b, p, c) /\ (c >= k + 2 \/ Done(c))}]
           x == [prev |-> l.head, curr |-> l.nextBin[l.head]]
<1>1. /\ n \in Nat /\ NumEvents \in Nat /\ \A i \in 1..n : q[i] \in Events
      /\ Order(w, q, n) /\ l.head = q[1] /\ 1 \in 1..n
      /\ NoEvent \notin Events
  BY BinsAssumption DEF Chain, Order, At
<1>2. \A i \in 1..n : Top(w, q, i) =>
         \E j \in 1..(n + 1) : Bin(w, q, n, i, j) /\ l.nextBin[q[i]] = At(q, n, j)
  BY DEF Chain, Link
<1>3. \A p \in 1..n, c \in 1..(n + 1) : Bin(w, q, n, p, c) => c >= p + 1
  BY <1>1 DEF Bin
<1>4. \A c \in 1..(n + 1) : /\ At(q, n, c) \in Pointer
                            /\ At(q, n, c) # NoEvent => c \in 1..n /\ At(q, n, c) = q[c]
                            /\ c <= n => At(q, n, c) = q[c]
  BY <1>1 DEF At, Pointer
<1>5. \A p \in 1..n, c \in 1..(n + 1) : [prev |-> q[p], curr |-> At(q, n, c)] \in B
  BY <1>1, <1>4 DEF Pointer
<1>6. x \in P[0]
  <2>1. Top(w, q, 1)
    BY DEF Top
  <2>2. PICK j \in 1..(n + 1) : Bin(w, q, n, 1, j) /\ l.nextBin[q[1]] = At(q, n, j)
    BY <1>1, <1>2, <2>1
  <2>3. x = [prev |-> q[1], curr |-> At(q, n, j)] /\ x \in B
    BY <1>1, <1>5, <2>2
  <2>4. j >= 0 + 2
    BY <1>1, <1>3, <2>2
  <2>5. 0 \in 0..NumEvents
    BY <1>1
  <2> QED
    BY <1>1, <2>1, <2>2, <2>3, <2>4, <2>5
<1>7. ASSUME NEW k \in 1..NumEvents, NEW y \in P[k - 1] PROVE next[y] \in P[k]
  <2>1. k - 1 \in 0..NumEvents /\ k \in 0..NumEvents
    <3> HIDE DEF P
    <3> QED
      BY <1>1
  <2>2. y \in B /\ \E p \in 1..n, c \in 1..(n + 1) : Is(y, p, c) /\ (c >= (k - 1) + 2 \/ Done(c))
    BY <2>1
  <2>3. PICK p \in 1..n, c \in 1..(n + 1) : Is(y, p, c) /\ (c >= (k - 1) + 2 \/ Done(c))
    BY <2>2
  <2>4. y.curr = At(q, n, c)
    BY <2>3
  <2>5. CASE y.curr # NoEvent /\ Less(w, y.curr, e)
    <3>1. c \in 1..n /\ y.curr = q[c]
      BY <1>4, <2>4, <2>5
    <3>2. Top(w, q, c)
      BY <1>1, <2>3, <3>1, NextTop
    <3>3. PICK j \in 1..(n + 1) : Bin(w, q, n, c, j) /\ l.nextBin[q[c]] = At(q, n, j)
      BY <1>2, <3>1, <3>2, ZenonT(30)
    <3>4. next[y] = [prev |-> q[c], curr |-> At(q, n, j)]
      BY <2>2, <2>5, <3>1, <3>3
    <3>5. Less(w, q[c], e) /\ ~Done(c)
      BY <1>1, <2>5, <3>1
    <3>6. j >= k + 2
      BY <1>1, <1>3, <2>3, <3>1, <3>3, <3>5
    <3>7. Is(next[y], c, j)
      BY <3>2, <3>3, <3>4, <3>5
    <3>8. next[y] \in B
      BY <1>5, <3>1, <3>4
    <3> HIDE DEF next, Is, Done, B
    <3> QED
      BY <2>1, <3>1, <3>6, <3>7, <3>8
  <2>6. CASE ~(y.curr # NoEvent /\ Less(w, y.curr, e))
    <3>1. next[y] = y
      BY <2>2, <2>6
    <3>2. Done(c)
      BY <1>1, <1>4, <2>4, <2>6
    <3> HIDE DEF next, Is, Done, B
    <3> QED
      BY <2>1, <2>2, <2>3, <3>1, <3>2
  <2> QED
    BY <2>5, <2>6
<1>8. Turns(next, x, NumEvents)[NumEvents] \in P[NumEvents]
  <2>1. NumEvents \in 0..NumEvents
    BY <1>1
  <2> HIDE DEF next, P, x
  <2> QED
    BY <1>1, <1>6, <1>7, <2>1, TurnsInvariant
<1>9. FindBin(l, w, e) = Turns(next, x, NumEvents)[NumEvents]
  BY DEF FindBin
<1> HIDE DEF next, x, B
<1>10. PICK p \in 1..n, c \in 1..(n + 1) :
          Is(FindBin(l, w, e), p, c) /\ (c >= NumEvents + 2 \/ Done(c))
  <2>1. NumEvents \in 0..NumEvents
    BY <1>1
  <2> QED
    BY <1>8, <1>9, <2>1
<1>11. Done(c)
  BY <1>1, <1>10
<1> QED
  BY <1>10, <1>11

(* EventQueue::insert puts e in its place. *)
LEMMA InsertChain ==
  ASSUME NEW l, IsList(l), NEW w \in Ticks, NEW q, NEW n, Chain(l, w, q, n),
         LeastElements, NumEvents \in Nat, n <= NumEvents, NEW e \in Events, \A i \in 1..n : q[i] # e
  PROVE  \E c \in 1..(n + 1) : /\ Place(w, q, n, e, c)
                               /\ IsList(insert(l, w, e))
                               /\ Chain(insert(l, w, e), w, Ins(q, n, c, e), n + 1)
<1>1. /\ n \in Nat /\ q \in [1..n -> Events] /\ \A i \in 1..n : q[i] \in Events
      /\ Order(w, q, n) /\ l.head = At(q, n, 1) /\ NoEvent \notin Events
      /\ \A i, j \in 1..n : i < j => ~Less(w, q[j], q[i])
  BY BinsAssumption DEF Chain, Order
<1>2. n >= 1 => 1 \in 1..n /\ l.head = q[1] /\ l.head # NoEvent
  BY <1>1 DEF At
<1>3. n < 1 => l.head = NoEvent
  BY <1>1 DEF At
<1>4. CASE l.head = NoEvent \/ ~Less(w, l.head, e)
  <2> DEFINE r == Ins(q, n, 1, e)
             m == InsertBefore(l, w, e, At(q, n, 1))
  <2>1. insert(l, w, e) = [m EXCEPT !.head = e]
    BY <1>1, <1>4 DEF insert
  <2>2. Place(w, q, n, e, 1)
    <3> SUFFICES ASSUME NEW i \in 1..n PROVE ~Less(w, q[i], e)
      BY <1>1 DEF Place
    <3>1. q[1] \in Events /\ q[i] \in Events /\ ~Less(w, q[1], e) /\ 1 \in 1..n
      BY <1>1, <1>2, <1>4
    <3>2. i = 1 \/ ~Less(w, q[i], q[1])
      BY <1>1, <3>1
    <3>3. Less(w, q[1], q[i]) \/ Same(w, q[1], q[i])
      BY <3>1, <3>2, KeyOrder
    <3> QED
      BY <3>1, <3>3, KeyOrder
  <2>3. Inserted(q, n, 1, e, r) /\ 1 \in 1..(n + 1)
    BY <1>1, InsInserted
  <2> HIDE DEF r, m
  <2>4. Order(w, r, n + 1)
    BY <1>1, <2>2, <2>3, InsertOrder
  <2>5. /\ IsList(m) /\ Stacks(m, w, r, n + 1)
        /\ \A i \in 1..(n + 1) : Top(w, r, i) => Link(m, w, r, n + 1, i)
    BY <2>2, <2>3, InsertBeforeLinks DEF m
  <2> DEFINE k == insert(l, w, e)
  <2>6. /\ IsList(k) /\ k.head = e /\ k.nextBin = m.nextBin /\ k.nextInBin = m.nextInBin
    BY <2>1, <2>5 DEF IsList, Pointer
  <2> HIDE DEF k
  <2>7. k.head = At(r, n + 1, 1)
    BY <1>1, <2>3, <2>6 DEF At, Inserted
  <2>8. Stacks(k, w, r, n + 1) /\ \A i \in 1..(n + 1) : Top(w, r, i) => Link(k, w, r, n + 1, i)
    BY <2>5, <2>6 DEF Stacks, Link
  <2>9. Chain(k, w, r, n + 1)
    BY <2>4, <2>7, <2>8 DEF Chain
  <2> QED
    BY <2>2, <2>3, <2>6, <2>9 DEF k, r
<1>5. CASE l.head # NoEvent /\ Less(w, l.head, e)
  <2>1. 1 <= n /\ Less(w, q[1], e)
    BY <1>1, <1>2, <1>3, <1>5
  <2>2. PICK p \in 1..n, c \in 1..(n + 1) :
            /\ FindBin(l, w, e) = [prev |-> q[p], curr |-> At(q, n, c)]
            /\ Top(w, q, p) /\ Bin(w, q, n, p, c)
            /\ Less(w, q[p], e) /\ (c <= n => ~Less(w, q[c], e))
    BY <2>1, FindBinStops
  <2> DEFINE r == Ins(q, n, c, e)
             m == InsertBefore(l, w, e, At(q, n, c))
  <2>3. insert(l, w, e) = [m EXCEPT !.nextBin[q[p]] = e]
    BY <1>5, <2>2 DEF insert
  <2>4. p \in 1..(c - 1) /\ c \in (p + 1)..(n + 1)
    BY <1>1, <2>2 DEF Bin
  <2>5. Place(w, q, n, e, c)
    <3>1. ASSUME NEW i \in 1..n, i < c PROVE Less(w, q[i], e)
      <4>1. q[i] \in Events /\ q[p] \in Events
        BY <1>1
      <4>2. CASE i < p
        <5>1. Less(w, q[i], q[p]) \/ Same(w, q[i], q[p])
          BY <1>1, <4>1, <4>2, KeyOrder
        <5> QED
          BY <2>2, <4>1, <5>1, KeyOrder
      <4>3. CASE i >= p
        <5>1. i \in p..(c - 1)
          BY <1>1, <3>1, <4>3
        <5>2. Same(w, q[p], q[i])
          BY <2>2, <5>1 DEF Bin
        <5>3. Same(w, q[i], q[p])
          BY <4>1, <5>2, KeyOrder
        <5> QED
          BY <2>2, <4>1, <5>3, KeyOrder
      <4> QED
        BY <1>1, <4>2, <4>3
    <3>2. ASSUME NEW i \in 1..n, ~(i < c) PROVE ~Less(w, q[i], e)
      <4>1. c \in 1..n /\ q[i] \in Events /\ q[c] \in Events /\ (i = c \/ c < i)
        BY <1>1, <3>2
      <4>2. ~Less(w, q[c], e)
        BY <1>1, <2>2, <4>1
      <4>3. i = c \/ ~Less(w, q[i], q[c])
        BY <1>1, <4>1
      <4>4. Less(w, q[c], q[i]) \/ Same(w, q[c], q[i])
        BY <4>1, <4>3, KeyOrder
      <4> QED
        BY <4>1, <4>2, <4>4, KeyOrder
    <3> QED
      BY <3>1, <3>2 DEF Place
  <2>6. Inserted(q, n, c, e, r)
    BY <1>1, InsInserted
  <2> HIDE DEF r, m
  <2>7. Order(w, r, n + 1)
    BY <1>1, <2>5, <2>6, InsertOrder
  <2>8. /\ IsList(m) /\ m.head = l.head
        /\ Stacks(m, w, r, n + 1)
        /\ \A i \in c..(n + 1) : Top(w, r, i) => Link(m, w, r, n + 1, i)
        /\ \A i \in 1..(c - 1) : Top(w, r, i) =>
               /\ Top(w, q, i)
               /\ \E j \in (i + 1)..c : /\ Bin(w, q, n, i, j) /\ Bin(w, r, n + 1, i, j)
                                        /\ j < c => m.nextBin[r[i]] = At(r, n + 1, j)
    BY <2>5, <2>6, InsertBeforeLinks DEF m
  <2>9. /\ r \in [1..(n + 1) -> Events] /\ r[p] = q[p] /\ r[c] = e
        /\ \A i \in 1..(n + 1) : i # p => r[i] # r[p]
        /\ p \in 1..(n + 1)
    <3>1. p \in 1..(n + 1)
      BY <1>1
    <3>2. r[p] = q[p] /\ r[c] = e
      BY <2>4, <2>6 DEF Inserted
    <3> QED
      BY <1>1, <2>7, <3>1, <3>2 DEF Order
  <2> DEFINE k == insert(l, w, e)
  <2>10. /\ IsList(k) /\ k.head = m.head /\ k.nextInBin = m.nextInBin
         /\ k.nextBin = [m.nextBin EXCEPT ![q[p]] = e]
    <3>1. q[p] \in Events /\ e \in Pointer
      BY <1>1 DEF Pointer
    <3> DEFINE h == [m EXCEPT !.nextBin[q[p]] = e]
    <3>2. /\ IsList(h) /\ h.head = m.head /\ h.nextInBin = m.nextInBin
          /\ h.nextBin = [m.nextBin EXCEPT ![q[p]] = e]
      BY <2>8, <3>1, SetNextBin
    <3> QED
      BY <2>3, <3>2
  <2>11. /\ k.nextBin[r[p]] = e
         /\ \A i \in 1..(n + 1) : i # p => k.nextBin[r[i]] = m.nextBin[r[i]]
    <3>1. m.nextBin \in [Events -> Pointer] /\ q[p] \in Events
      BY <1>1, <2>8 DEF IsList
    <3>2. \A i \in 1..(n + 1) : r[i] \in Events
      BY <2>9
    <3> HIDE DEF k
    <3> QED
      BY <2>9, <2>10, <3>1, <3>2
  <2> HIDE DEF k
  <2>12. k.head = At(r, n + 1, 1)
    <3>1. 1 \in 1..(c - 1) /\ 1 \in 1..(n + 1)
      BY <1>1, <2>4
    <3> QED
      BY <1>2, <2>1, <2>6, <2>8, <2>10, <3>1 DEF At, Inserted
  <2>13. ASSUME NEW i \in 1..(n + 1), Top(w, r, i) PROVE Link(k, w, r, n + 1, i)
    <3>1. CASE i >= c
      <4>1. i \in c..(n + 1) /\ i # p
        BY <1>1, <2>4, <3>1
      <4>2. Link(m, w, r, n + 1, i)
        BY <2>8, <2>13, <4>1
      <4> QED
        BY <2>11, <4>1, <4>2 DEF Link
    <3>2. CASE i < c
      <4>1. i \in 1..(c - 1) /\ i \in 1..n
        BY <1>1, <3>2
      <4>2. Top(w, q, i)
        BY <2>8, <2>13, <4>1
      <4>3. PICK j \in (i + 1)..c : /\ Bin(w, q, n, i, j) /\ Bin(w, r, n + 1, i, j)
                                    /\ j < c => m.nextBin[r[i]] = At(r, n + 1, j)
        BY <2>8, <2>13, <4>1
      <4>4. j \in 1..((n + 1) + 1)
        BY <1>1
      <4>5. CASE j = c
        <5>1. i = p
          BY <1>1, <2>2, <4>1, <4>2, <4>3, <4>5, OneBin
        <5>2. At(r, n + 1, c) = e
          BY <1>1, <2>9 DEF At
        <5> QED
          BY <2>11, <4>3, <4>4, <4>5, <5>1, <5>2 DEF Link
      <4>6. CASE j < c
        <5>1. i # p
          <6> SUFFICES ASSUME i = p PROVE FALSE
            OBVIOUS
          <6>1. j \in p..(c - 1) /\ j <= n /\ j \in 1..n
            BY <1>1, <4>1, <4>6
          <6>2. Same(w, q[p], q[j]) /\ Less(w, q[p], q[j])
            BY <2>2, <4>3, <6>1 DEF Bin
          <6> QED
            BY <1>1, <6>1, <6>2, KeyOrder
        <5> QED
          BY <2>11, <4>3, <4>4, <4>6, <5>1 DEF Link
      <4> QED
        BY <1>1, <4>5, <4>6
    <3> QED
      BY <1>1, <3>1, <3>2
  <2>14. Stacks(k, w, r, n + 1)
    BY <2>8, <2>10 DEF Stacks
  <2>15. Chain(k, w, r, n + 1)
    BY <2>7, <2>12, <2>13, <2>14 DEF Chain
  <2> QED
    BY <2>5, <2>10, <2>15 DEF k, r
<1> QED
  BY <1>4, <1>5

-----------------------------------------------------------------------------
(* r is q without its event at place m. *)
Removed(q, n, m, r) ==
    /\ r \in [1..(n - 1) -> Events]
    /\ \A i \in 1..(m - 1) : r[i] = q[i]
    /\ \A i \in m..(n - 1) : r[i] = q[i + 1]

(* Del is what it is called. *)
LEMMA DelRemoved ==
  ASSUME NEW n \in Nat, NEW q \in [1..n -> Events], NEW m \in 1..n
  PROVE  Removed(q, n, m, Del(q, n, m))
  BY DEF Removed, Del

(* Removal keeps the order. *)
LEMMA RemoveOrder ==
  ASSUME NEW w \in Ticks, NEW q, NEW n, Order(w, q, n), NEW m \in 1..n,
         NEW r, Removed(q, n, m, r)
  PROVE  Order(w, r, n - 1)
<1>1. n \in Nat /\ n - 1 \in Nat /\ r \in [1..(n - 1) -> Events]
  BY DEF Order, Removed
<1>2. ASSUME NEW i \in 1..(n - 1), NEW j \in 1..(n - 1), i < j
      PROVE  r[i] # r[j] /\ ~Less(w, r[j], r[i])
  <2>1. i \in 1..n /\ j \in 1..n /\ i + 1 \in 1..n /\ j + 1 \in 1..n
        /\ i < j /\ i < j + 1 /\ i + 1 < j + 1
    BY <1>1, <1>2
  <2>2. \/ r[i] = q[i] /\ r[j] = q[j]
        \/ r[i] = q[i] /\ r[j] = q[j + 1]
        \/ r[i] = q[i + 1] /\ r[j] = q[j + 1]
    <3>1. i \in 1..(m - 1) \/ (i \in m..(n - 1) /\ j \in m..(n - 1))
      BY <1>1, <1>2
    <3>2. j \in 1..(m - 1) \/ j \in m..(n - 1)
      BY <1>1, <1>2
    <3> QED
      BY <3>1, <3>2 DEF Removed
  <2> QED
    BY <2>1, <2>2 DEF Order
<1> QED
  BY <1>1, <1>2 DEF Order

(* The bins behind the place of removal move by one. *)
LEMMA RemoveShift ==
  ASSUME NEW w \in Ticks, NEW q, NEW n, Order(w, q, n), NEW m \in 1..n,
         NEW r, Removed(q, n, m, r), NEW i \in m..(n - 1), NEW j, Bin(w, q, n, i + 1, j)
  PROVE  /\ j - 1 \in 1..((n - 1) + 1) /\ Bin(w, r, n - 1, i, j - 1)
         /\ At(r, n - 1, j - 1) = At(q, n, j)
<1>1. n \in Nat /\ i + 1 \in 1..n /\ j \in (i + 2)..(n + 1)
  BY DEF Order, Bin
<1>2. \A k \in m..(n - 1) : r[k] = q[k + 1]
  BY DEF Removed
<1>3. j <= n => r[j - 1] = q[j]
  <2>1. j <= n => j - 1 \in m..(n - 1) /\ (j - 1) + 1 = j
    BY <1>1
  <2> QED
    BY <1>2, <2>1
<1>4. ASSUME NEW k \in i..((j - 1) - 1) PROVE Same(w, r[i], r[k])
  <2>1. k + 1 \in (i + 1)..(j - 1) /\ k \in m..(n - 1)
    BY <1>1
  <2>2. r[k] = q[k + 1] /\ r[i] = q[i + 1]
    BY <1>2, <2>1
  <2> QED
    BY <2>1, <2>2 DEF Bin
<1>5. j - 1 <= n - 1 => Less(w, r[i], r[j - 1])
  BY <1>1, <1>2, <1>3 DEF Bin
<1>6. j - 1 \in (i + 1)..((n - 1) + 1) /\ j - 1 \in 1..((n - 1) + 1)
  BY <1>1
<1>7. At(r, n - 1, j - 1) = At(q, n, j)
  BY <1>1, <1>3 DEF At
<1> QED
  BY <1>4, <1>5, <1>6, <1>7 DEF Bin

(* The bin that ends at j is the same without the event behind c. *)
SameBin(w, q, n, r, c, i, j) ==
    /\ j \in (i + 1)..c /\ Bin(w, r, n - 1, i, j)
    /\ j < c => At(r, n - 1, j) = At(q, n, j)

(* A bin in front of the one that shrinks keeps its place. *)
LEMMA RemoveFront ==
  ASSUME NEW w \in Ticks, NEW q, NEW n, Order(w, q, n), NEW m \in 1..n,
         NEW r, Removed(q, n, m, r), NEW c \in 1..m, Top(w, q, c),
         NEW i \in 1..(c - 1), NEW j, Bin(w, q, n, i, j)
  PROVE  SameBin(w, q, n, r, c, i, j)
<1>1. /\ n \in Nat /\ c \in 1..n /\ i \in 1..n /\ j \in (i + 1)..(n + 1) /\ i < c
      /\ \A k \in 1..n : q[k] \in Events
      /\ \A a, b \in 1..n : a < b => ~Less(w, q[b], q[a])
  BY DEF Order, Bin
<1>2. j <= c
  <2> SUFFICES ASSUME j > c PROVE FALSE
    BY <1>1
  <2>1. c \in i..(j - 1) /\ c - 1 \in i..(j - 1) /\ c # 1 /\ c - 1 \in 1..n
    BY <1>1
  <2>2. Same(w, q[i], q[c]) /\ Same(w, q[i], q[c - 1])
    BY <2>1 DEF Bin
  <2>3. q[i] \in Events /\ q[c] \in Events /\ q[c - 1] \in Events
    BY <1>1, <2>1
  <2>4. Same(w, q[c - 1], q[i])
    BY <2>2, <2>3, KeyOrder
  <2>5. Same(w, q[c - 1], q[c])
    BY <2>2, <2>3, <2>4, KeyOrder
  <2> QED
    BY <2>1, <2>5 DEF Top
<1>3. \A k \in 1..(m - 1) : r[k] = q[k]
  BY DEF Removed
<1>4. ASSUME NEW k \in i..(j - 1) PROVE Same(w, r[i], r[k])
  <2>1. k \in 1..(m - 1) /\ i \in 1..(m - 1)
    BY <1>1, <1>2
  <2> QED
    BY <1>3, <2>1 DEF Bin
<1>5. ASSUME j <= n - 1 PROVE Less(w, r[i], r[j])
  <2>1. Less(w, q[i], q[j]) /\ r[i] = q[i] /\ j \in 1..n /\ j + 1 \in 1..n
    <3>1. j <= n /\ i \in 1..(m - 1) /\ j \in 1..n /\ j + 1 \in 1..n
      BY <1>1, <1>5
    <3> QED
      BY <1>3, <3>1 DEF Bin
  <2>2. r[j] = q[j] \/ r[j] = q[j + 1]
    <3>1. j \in 1..(m - 1) \/ j \in m..(n - 1)
      BY <1>1, <1>5
    <3> QED
      BY <3>1 DEF Removed
  <2>3. ~Less(w, q[j + 1], q[j]) /\ q[j] \in Events /\ q[j + 1] \in Events /\ q[i] \in Events
    BY <1>1, <2>1
  <2>4. Less(w, q[j], q[j + 1]) \/ Same(w, q[j], q[j + 1])
    BY <2>3, KeyOrder
  <2>5. Less(w, q[i], q[j + 1])
    BY <2>1, <2>3, <2>4, KeyOrder
  <2> QED
    BY <2>1, <2>2, <2>5
<1>6. j < c => At(r, n - 1, j) = At(q, n, j)
  <2> SUFFICES ASSUME j < c PROVE At(r, n - 1, j) = At(q, n, j)
    OBVIOUS
  <2>1. j \in 1..(m - 1) /\ j \in 1..n /\ j \in 1..(n - 1)
    BY <1>1
  <2> QED
    BY <1>3, <2>1 DEF At
<1>7. j \in (i + 1)..((n - 1) + 1) /\ j \in (i + 1)..c
  BY <1>1, <1>2
<1> QED
  BY <1>4, <1>5, <1>6, <1>7 DEF Bin, SameBin

(* A top behind the place of removal was one before. *)
LEMMA RemoveTop ==
  ASSUME NEW w \in Ticks, NEW q, NEW n, Order(w, q, n), NEW m \in 1..n,
         NEW r, Removed(q, n, m, r), NEW i \in m..(n - 1), Top(w, r, i),
         i = m => m # 1 /\ Same(w, q[m - 1], q[m])
  PROVE  Top(w, q, i + 1)
<1>1. n \in Nat /\ \A k \in 1..n : q[k] \in Events
  BY DEF Order
<1>2. i # 1 /\ r[i] = q[i + 1] /\ i + 1 # 1 /\ (i + 1) - 1 = i
  BY <1>1 DEF Removed
<1>3. ~Same(w, r[i - 1], q[i + 1])
  BY <1>2 DEF Top
<1>4. CASE i = m
  <2>1. m - 1 \in 1..(m - 1) /\ m - 1 \in 1..n /\ m + 1 \in 1..n
    BY <1>1, <1>4
  <2>2. r[m - 1] = q[m - 1]
    BY <2>1 DEF Removed
  <2>3. q[m - 1] \in Events /\ q[m] \in Events /\ q[m + 1] \in Events
    BY <1>1, <2>1
  <2>4. ~Same(w, q[m], q[m + 1])
    BY <1>3, <1>4, <2>2, <2>3, KeyOrder
  <2> QED
    BY <1>2, <1>4, <2>4 DEF Top
<1>5. CASE i # m
  <2>1. i - 1 \in m..(n - 1) /\ (i - 1) + 1 = i
    BY <1>1, <1>5
  <2>2. r[i - 1] = q[i]
    BY <2>1 DEF Removed
  <2> QED
    BY <1>2, <1>3, <2>2 DEF Top
<1> QED
  BY <1>4, <1>5

(* The loop with body step that starts at c ends before m. *)
StopsBefore(step, q, c, m) == Turns(step, q[c], NumEvents)[NumEvents] = q[m - 1]

(* The walk down a stack stops in front of the event at place m. *)
LEMMA PredStops ==
  ASSUME NEW l, NEW w \in Ticks, NEW q, NEW n, Chain(l, w, q, n),
         LeastElements, NumEvents \in Nat, n <= NumEvents,
         NEW c \in 1..n, NEW m \in (c + 1)..n, \A k \in c..m : Same(w, q[c], q[k]),
         NEW step,
         step = [p \in Events |-> IF l.nextInBin[p] = q[m] THEN p ELSE l.nextInBin[p]]
  PROVE  StopsBefore(step, q, c, m)
<1> DEFINE P == [k \in 0..NumEvents |->
                   {a \in Events : \E i \in c..(m - 1) : a = q[i] /\ (i = m - 1 \/ i = c + k)}]
<1>1. /\ n \in Nat /\ NumEvents \in Nat
      /\ \A i \in 1..n : q[i] \in Events
      /\ \A i, j \in 1..n : i < j => q[i] # q[j]
  <2>1. Order(w, q, n)
    BY ZenonT(30) DEF Chain
  <2> QED
    BY <2>1 DEF Order
<1>2. ASSUME NEW i \in c..(m - 1) PROVE i \in 1..n /\ l.nextInBin[q[i]] = q[i + 1]
  <2>1. i \in 1..n /\ i + 1 \in 1..n /\ i < n /\ i \in c..m /\ i + 1 \in c..m
    BY <1>1
  <2>2. Same(w, q[c], q[i]) /\ Same(w, q[c], q[i + 1])
    BY <2>1
  <2>3. q[c] \in Events /\ q[i] \in Events /\ q[i + 1] \in Events
    BY <1>1, <2>1
  <2>4. Same(w, q[i], q[c])
    BY <2>2, <2>3, KeyOrder
  <2>5. Same(w, q[i], q[i + 1])
    BY <2>2, <2>3, <2>4, KeyOrder
  <2> QED
    BY <2>1, <2>5 DEF Chain, Stacks
<1>3. q[c] \in P[0]
  BY <1>1
<1>4. ASSUME NEW k \in 1..NumEvents, NEW y \in P[k - 1] PROVE step[y] \in P[k]
  <2>1. k - 1 \in 0..NumEvents /\ k \in 0..NumEvents
    <3> HIDE DEF P
    <3> QED
      BY <1>1
  <2>2. PICK i \in c..(m - 1) : y = q[i] /\ (i = m - 1 \/ i = c + (k - 1))
    BY <2>1
  <2>3. y \in Events /\ l.nextInBin[y] = q[i + 1]
    BY <1>1, <1>2, <2>2
  <2>4. CASE i = m - 1
    <3>1. step[y] = y
      BY <1>1, <2>3, <2>4
    <3> QED
      BY <2>1, <2>2, <2>3, <2>4, <3>1
  <2>5. CASE i # m - 1
    <3>1. i + 1 \in c..(m - 1) /\ i + 1 \in 1..n /\ i + 1 < m /\ m \in 1..n /\ i + 1 = c + k
      BY <1>1, <2>1, <2>2, <2>5
    <3>2. q[i + 1] # q[m] /\ q[i + 1] \in Events
      BY <1>1, <3>1, ZenonT(30)
    <3>3. step[y] = q[i + 1]
      BY <2>3, <3>2
    <3> QED
      BY <2>1, <3>1, <3>2, <3>3
  <2> QED
    BY <2>4, <2>5
<1>5. Turns(step, q[c], NumEvents)[NumEvents] \in P[NumEvents]
  <2>1. NumEvents \in 0..NumEvents
    BY <1>1
  <2> HIDE DEF P
  <2> QED
    BY <1>1, <1>3, <1>4, <2>1, TurnsInvariant
<1>6. PICK i \in c..(m - 1) : /\ Turns(step, q[c], NumEvents)[NumEvents] = q[i]
                              /\ i = m - 1 \/ i = c + NumEvents
  <2>1. NumEvents \in 0..NumEvents
    BY <1>1
  <2> QED
    BY <1>5, <2>1
<1>7. i = m - 1
  BY <1>1, <1>6
<1> QED
  BY <1>6, <1>7 DEF StopsBefore

(* x is l and the stack at c without the event that r lacks; the link to   *)
(* that stack is still the old one.                                        *)
Unlinked(l, w, q, n, c, r, x) ==
    /\ IsList(x.l) /\ x.l.head = l.head
    /\ x.top = At(r, n - 1, c)
    /\ Stacks(x.l, w, r, n - 1)
    /\ \A i \in c..(n - 1) : Top(w, r, i) => Link(x.l, w, r, n - 1, i)
    /\ \A i \in 1..(c - 1) : Top(w, r, i) =>
          /\ Top(w, q, i)
          /\ \E j \in (i + 1)..c : /\ Bin(w, q, n, i, j) /\ Bin(w, r, n - 1, i, j)
                                   /\ j < c => x.l.nextBin[r[i]] = At(r, n - 1, j)

(* The links after removeItem, but for the one that leads to the stack. *)
LEMMA RemoveItemLinks ==
  ASSUME NEW l, IsList(l), NEW w \in Ticks, NEW q, NEW n, Chain(l, w, q, n),
         LeastElements, NumEvents \in Nat, n <= NumEvents,
         NEW c \in 1..n, Top(w, q, c), NEW m \in c..n, Same(w, q[c], q[m]),
         NEW r, Removed(q, n, m, r), NEW x, x = RemoveItem(l, q[m], q[c])
  PROVE  Unlinked(l, w, q, n, c, r, x)
<1>1. /\ n \in Nat /\ n - 1 \in Nat /\ m \in 1..n /\ Order(w, q, n) /\ NoEvent \notin Events
      /\ \A i \in 1..n : q[i] \in Events
      /\ \A i, j \in 1..n : i < j => q[i] # q[j] /\ ~Less(w, q[j], q[i])
  BY BinsAssumption DEF Chain, Order
<1>2. /\ \A i \in 1..(m - 1) : r[i] = q[i]
      /\ \A i \in m..(n - 1) : r[i] = q[i + 1]
      /\ r \in [1..(n - 1) -> Events]
  BY DEF Removed
<1>3. \A i \in 1..n : l.nextInBin[q[i]] = IF i < n /\ Same(w, q[i], q[i + 1])
                                          THEN q[i + 1] ELSE NoEvent
  BY DEF Chain, Stacks
<1>4. \A i \in 1..n : Top(w, q, i) =>
         \E j \in 1..(n + 1) : Bin(w, q, n, i, j) /\ l.nextBin[q[i]] = At(q, n, j)
  BY DEF Chain, Link
<1>5. PICK b \in 1..(n + 1) : Bin(w, q, n, c, b) /\ l.nextBin[q[c]] = At(q, n, b)
  BY <1>4
<1>6. m < b /\ c < b
  <2> SUFFICES ASSUME b <= m PROVE FALSE
    BY <1>1, <1>5 DEF Bin
  <2>1. b \in 1..n /\ Less(w, q[c], q[b])
    BY <1>1, <1>5 DEF Bin
  <2>2. q[c] \in Events /\ q[b] \in Events /\ q[m] \in Events /\ (b = m \/ ~Less(w, q[m], q[b]))
    BY <1>1, <2>1
  <2>3. Same(w, q[m], q[c]) /\ ~Same(w, q[c], q[b])
    BY <2>1, <2>2, KeyOrder
  <2>4. Less(w, q[m], q[b])
    BY <2>1, <2>2, <2>3, KeyOrder
  <2> QED
    BY <2>2, <2>3, <2>4
<1>7. \A k \in c..m : Same(w, q[c], q[k])
  BY <1>1, <1>5, <1>6 DEF Bin
<1>8. ASSUME NEW i \in (c + 1)..m PROVE i \in 1..n /\ i - 1 \in 1..n /\ Same(w, q[i - 1], q[i])
  <2>1. i \in 1..n /\ i - 1 \in 1..n /\ i \in c..m /\ i - 1 \in c..m
    BY <1>1
  <2>2. q[c] \in Events /\ q[i] \in Events /\ q[i - 1] \in Events
    BY <1>1, <2>1
  <2>3. Same(w, q[c], q[i]) /\ Same(w, q[c], q[i - 1])
    BY <1>7, <2>1
  <2>4. Same(w, q[i - 1], q[c])
    BY <2>2, <2>3, KeyOrder
  <2> QED
    BY <2>1, <2>2, <2>3, <2>4, KeyOrder
<1>9. c + 1 < b => c + 1 \in 1..n /\ Same(w, q[c], q[c + 1])
  BY <1>1, <1>5 DEF Bin
<1>10. /\ IsList(x.l) /\ x.l.head = l.head /\ x.top = At(r, n - 1, c)
       /\ \A i \in 1..n : m = c \/ i # m - 1 => x.l.nextInBin[q[i]] = l.nextInBin[q[i]]
       /\ m # c => x.l.nextInBin[q[m - 1]] = l.nextInBin[q[m]]
       /\ \A i \in 1..n : \/ m = c /\ i = c + 1 /\ c + 1 < b
                          \/ x.l.nextBin[q[i]] = l.nextBin[q[i]]
       /\ m = c /\ c + 1 < b => x.l.nextBin[q[c + 1]] = At(q, n, b)
  <2>1. CASE m # c
    <3> DEFINE step == [p \in Events |-> IF l.nextInBin[p] = q[m] THEN p ELSE l.nextInBin[p]]
               k == [l EXCEPT !.nextInBin[q[m - 1]] = l.nextInBin[q[m]]]
    <3>1. m \in (c + 1)..n /\ m - 1 \in 1..n /\ q[m] # q[c] /\ c \in 1..(m - 1) /\ c \in 1..(n - 1)
      BY <1>1, <2>1
    <3>2. Turns(step, q[c], NumEvents)[NumEvents] = q[m - 1]
      <4>1. step = [p \in Events |-> IF l.nextInBin[p] = q[m] THEN p ELSE l.nextInBin[p]]
        BY ZenonT(30)
      <4> HIDE DEF step
      <4>2. StopsBefore(step, q, c, m)
        BY <1>7, <3>1, <4>1, PredStops, ZenonT(30)
      <4> QED
        BY <4>2, ZenonT(30) DEF StopsBefore
    <3>3. x = [l |-> k, top |-> q[c]]
      BY <3>1, <3>2 DEF RemoveItem
    <3>4. l.nextInBin[q[m]] \in Pointer /\ q[m - 1] \in Events
      BY <1>1, <3>1 DEF IsList
    <3>5. /\ IsList(k) /\ k.head = l.head /\ k.nextBin = l.nextBin
          /\ k.nextInBin = [l.nextInBin EXCEPT ![q[m - 1]] = l.nextInBin[q[m]]]
      BY <3>4, SetNextInBin
    <3> HIDE DEF k
    <3>6. \A i \in 1..n : i # m - 1 => q[i] # q[m - 1]
      BY <1>1, <3>1
    <3>7. DOMAIN l.nextInBin = Events
      BY DEF IsList
    <3>8. /\ \A i \in 1..n : i # m - 1 => k.nextInBin[q[i]] = l.nextInBin[q[i]]
          /\ k.nextInBin[q[m - 1]] = l.nextInBin[q[m]]
      BY <1>1, <3>4, <3>5, <3>6, <3>7
    <3>9. q[c] = At(r, n - 1, c)
      BY <1>2, <3>1 DEF At
    <3>10. x.l = k /\ x.top = q[c]
      BY <3>3
    <3> QED
      BY <2>1, <3>5, <3>8, <3>9, <3>10, ZenonT(30)
  <2>2. CASE m = c /\ ~(c + 1 < b)
    <3>1. b = c + 1 /\ l.nextInBin[q[c]] = NoEvent
      <4>1. b = c + 1
        BY <1>1, <1>6, <2>2
      <4>2. c < n => ~Same(w, q[c], q[c + 1])
        <5> SUFFICES ASSUME c < n PROVE ~Same(w, q[c], q[c + 1])
          OBVIOUS
        <5>1. q[c] \in Events /\ q[c + 1] \in Events /\ Less(w, q[c], q[c + 1])
          BY <1>1, <1>5, <4>1 DEF Bin
        <5> QED
          BY <5>1, KeyOrder
      <4> QED
        BY <1>3, <4>1, <4>2
    <3>2. x = [l |-> l, top |-> l.nextBin[q[c]]]
      BY <2>2, <3>1 DEF RemoveItem
    <3>3. At(q, n, c + 1) = At(r, n - 1, c)
      BY <1>1, <1>2, <2>2 DEF At
    <3> QED
      BY <1>5, <2>2, <3>1, <3>2, <3>3
  <2>3. CASE m = c /\ c + 1 < b
    <3> DEFINE k == [l EXCEPT !.nextBin[q[c + 1]] = l.nextBin[q[c]]]
    <3>1. c + 1 \in 1..n /\ c < n /\ q[c + 1] \in Events /\ l.nextInBin[q[c]] = q[c + 1]
      BY <1>1, <1>3, <1>9, <2>3
    <3>2. x = [l |-> k, top |-> q[c + 1]]
      BY <1>1, <2>3, <3>1 DEF RemoveItem
    <3>3. l.nextBin[q[c]] \in Pointer
      BY <1>1 DEF IsList
    <3>4. /\ IsList(k) /\ k.head = l.head /\ k.nextInBin = l.nextInBin
          /\ k.nextBin = [l.nextBin EXCEPT ![q[c + 1]] = l.nextBin[q[c]]]
      BY <3>1, <3>3, SetNextBin
    <3> HIDE DEF k
    <3>5. \A i \in 1..n : i # c + 1 => q[i] # q[c + 1]
      BY <1>1, <3>1
    <3>6. DOMAIN l.nextBin = Events
      BY DEF IsList
    <3>7. /\ \A i \in 1..n : i # c + 1 => k.nextBin[q[i]] = l.nextBin[q[i]]
          /\ k.nextBin[q[c + 1]] = l.nextBin[q[c]]
      BY <1>1, <3>1, <3>4, <3>5, <3>6
    <3>8. q[c + 1] = At(r, n - 1, c)
      BY <1>1, <1>2, <2>3, <3>1 DEF At
    <3>9. x.l = k /\ x.top = q[c + 1]
      BY <3>2
    <3> QED
      BY <1>5, <2>3, <3>4, <3>7, <3>8, <3>9, ZenonT(30)
  <2> QED
    BY <2>1, <2>2, <2>3, ZenonT(30)
<1>11. ASSUME c # 1 PROVE Less(w, q[c - 1], q[c]) /\ c - 1 \in 1..n
  <2>1. c - 1 \in 1..n /\ c - 1 < c
    BY <1>1, <1>11
  <2>2. q[c - 1] \in Events /\ q[c] \in Events /\ ~Less(w, q[c], q[c - 1])
    BY <1>1, <2>1
  <2>3. ~Same(w, q[c - 1], q[c])
    BY <1>11 DEF Top
  <2> QED
    BY <2>1, <2>2, <2>3, KeyOrder
<1>12. Stacks(x.l, w, r, n - 1)
  <2> SUFFICES ASSUME NEW i \in 1..(n - 1)
               PROVE  x.l.nextInBin[r[i]] = IF i < n - 1 /\ Same(w, r[i], r[i + 1])
                                            THEN r[i + 1] ELSE NoEvent
    BY DEF Stacks
  <2>1. CASE i < m - 1
    <3>1. /\ i \in 1..n /\ i < n /\ i < n - 1 /\ i \in 1..(m - 1) /\ i + 1 \in 1..(m - 1)
          /\ i # m - 1
      BY <1>1, <2>1
    <3>2. r[i] = q[i] /\ r[i + 1] = q[i + 1] /\ x.l.nextInBin[q[i]] = l.nextInBin[q[i]]
      BY <1>2, <1>10, <3>1
    <3>3. l.nextInBin[q[i]] = IF i < n /\ Same(w, q[i], q[i + 1]) THEN q[i + 1] ELSE NoEvent
      BY <1>3, <3>1
    <3> QED
      BY <3>1, <3>2, <3>3
  <2>2. CASE i = m - 1
    <3>1. i \in 1..n /\ i \in 1..(m - 1) /\ i + 1 = m /\ (i < n - 1 <=> m < n)
      BY <1>1, <2>2
    <3>2. r[i] = q[i]
      BY <1>2, <3>1
    <3>3. m < n => r[m] = q[m + 1] /\ m + 1 \in 1..n
      <4>1. m < n => m \in m..(n - 1) /\ m + 1 \in 1..n
        BY <1>1
      <4> QED
        BY <1>2, <4>1
    <3>4. CASE m # c
      <4>1. m \in (c + 1)..m
        BY <1>1, <3>4
      <4>2. Same(w, q[i], q[m])
        BY <1>8, <3>1, <4>1, <2>2
      <4>3. ASSUME m < n PROVE Same(w, q[m], q[m + 1]) <=> Same(w, q[i], q[m + 1])
        <5>1. q[i] \in Events /\ q[m] \in Events /\ q[m + 1] \in Events
          BY <1>1, <3>1, <3>3, <4>3
        <5>2. Same(w, q[m], q[i])
          BY <4>2, <5>1, KeyOrder
        <5> QED
          BY <4>2, <5>1, <5>2, KeyOrder
      <4>4. l.nextInBin[q[m]] = IF m < n /\ Same(w, q[m], q[m + 1]) THEN q[m + 1] ELSE NoEvent
        BY <1>1, <1>3
      <4>5. x.l.nextInBin[q[i]] = l.nextInBin[q[m]]
        BY <1>10, <2>2, <3>4
      <4> QED
        BY <3>1, <3>2, <3>3, <4>3, <4>4, <4>5
    <3>5. CASE m = c
      <4>1. Less(w, q[i], q[c]) /\ c # 1
        BY <1>1, <1>11, <2>2, <3>5
      <4>2. l.nextInBin[q[i]] = NoEvent
        <5>1. q[i] \in Events /\ q[c] \in Events
          BY <1>1, <3>1
        <5>2. ~Same(w, q[i], q[i + 1])
          BY <3>1, <3>5, <4>1, <5>1, KeyOrder
        <5> QED
          BY <1>3, <3>1, <5>2
      <4>3. m < n => ~Same(w, q[i], q[m + 1])
        <5> SUFFICES ASSUME m < n PROVE ~Same(w, q[i], q[m + 1])
          OBVIOUS
        <5>1. q[i] \in Events /\ q[c] \in Events /\ q[m + 1] \in Events /\ ~Less(w, q[m + 1], q[c])
          BY <1>1, <3>1, <3>3, <3>5
        <5>2. Less(w, q[c], q[m + 1]) \/ Same(w, q[c], q[m + 1])
          BY <5>1, KeyOrder
        <5>3. Less(w, q[i], q[m + 1])
          BY <4>1, <5>1, <5>2, KeyOrder
        <5> QED
          BY <5>1, <5>3, KeyOrder
      <4>4. x.l.nextInBin[q[i]] = NoEvent
        BY <1>10, <3>1, <3>5, <4>2
      <4> QED
        BY <3>1, <3>2, <3>3, <4>3, <4>4
    <3> QED
      BY <3>4, <3>5
  <2>3. CASE i > m - 1
    <3>1. i \in m..(n - 1) /\ i + 1 \in 1..n /\ i + 1 # m - 1 /\ (i < n - 1 <=> i + 1 < n)
      BY <1>1, <2>3
    <3>2. r[i] = q[i + 1] /\ x.l.nextInBin[q[i + 1]] = l.nextInBin[q[i + 1]]
      BY <1>2, <1>10, <3>1
    <3>3. i < n - 1 => r[i + 1] = q[(i + 1) + 1]
      <4>1. i < n - 1 => i + 1 \in m..(n - 1)
        BY <1>1, <3>1
      <4> QED
        BY <1>2, <4>1
    <3>4. l.nextInBin[q[i + 1]] = IF i + 1 < n /\ Same(w, q[i + 1], q[(i + 1) + 1])
                                  THEN q[(i + 1) + 1] ELSE NoEvent
      BY <1>3, <3>1
    <3> QED
      BY <3>1, <3>2, <3>3, <3>4
  <2> QED
    BY <1>1, <2>1, <2>2, <2>3
<1>13. ASSUME NEW i \in c..(n - 1), Top(w, r, i) PROVE Link(x.l, w, r, n - 1, i)
  <2>1. CASE i < m
    <3>1. i = c
      <4> SUFFICES ASSUME i # c PROVE FALSE
        OBVIOUS
      <4>1. i \in (c + 1)..m /\ i # 1 /\ i \in 1..(m - 1) /\ i - 1 \in 1..(m - 1)
        BY <1>1, <2>1
      <4>2. Same(w, q[i - 1], q[i]) /\ r[i] = q[i] /\ r[i - 1] = q[i - 1]
        BY <1>2, <1>8, <4>1
      <4> QED
        BY <1>13, <4>1, <4>2 DEF Top
    <3>2. r[c] = q[c] /\ m # c /\ x.l.nextBin[q[c]] = At(q, n, b)
      <4>1. c \in 1..(m - 1) /\ m # c
        BY <1>1, <2>1, <3>1
      <4> QED
        BY <1>2, <1>5, <1>10, <4>1
    <3>3. At(r, n - 1, b - 1) = At(q, n, b)
      <4>1. b <= n => b - 1 \in m..(n - 1) /\ (b - 1) + 1 = b
        BY <1>1, <1>6
      <4>2. b <= n => r[b - 1] = q[b]
        BY <1>2, <4>1
      <4> QED
        BY <1>1, <1>6, <4>2 DEF At
    <3>4. \A k \in c..((b - 1) - 1) : Same(w, q[c], r[k])
      <4> SUFFICES ASSUME NEW k \in c..((b - 1) - 1) PROVE Same(w, q[c], r[k])
        OBVIOUS
      <4>1. k \in c..(b - 1) /\ k + 1 \in c..(b - 1) /\ (k \in 1..(m - 1) \/ k \in m..(n - 1))
        BY <1>1, <1>5
      <4>2. Same(w, q[c], q[k]) /\ Same(w, q[c], q[k + 1])
        BY <1>5, <4>1 DEF Bin
      <4> QED
        BY <1>2, <4>1, <4>2
    <3>5. b - 1 <= n - 1 => Less(w, q[c], r[b - 1])
      <4>1. b - 1 <= n - 1 => b <= n /\ b - 1 \in m..(n - 1) /\ (b - 1) + 1 = b
        BY <1>1, <1>6
      <4> QED
        BY <1>2, <1>5, <4>1 DEF Bin
    <3>6. b - 1 \in (c + 1)..((n - 1) + 1) /\ b - 1 \in 1..((n - 1) + 1)
      BY <1>1, <1>6, <2>1, <3>1
    <3>7. Bin(w, r, n - 1, c, b - 1)
      BY <3>2, <3>4, <3>5, <3>6 DEF Bin
    <3> QED
      BY <3>1, <3>2, <3>3, <3>6, <3>7 DEF Link
  <2>2. CASE i >= m /\ ~(m = c /\ i = c)
    <3>2. i \in m..(n - 1) /\ i + 1 \in 1..n
      BY <1>1, <2>2
    <3>3. Top(w, q, i + 1)
      <4>1. i = m => m # 1 /\ Same(w, q[m - 1], q[m])
        <5>1. i = m => m \in (c + 1)..m /\ m # 1
          BY <1>1, <2>2
        <5> QED
          BY <1>8, <5>1
      <4> QED
        BY <1>1, <1>13, <3>2, <4>1, RemoveTop
    <3>4. PICK j \in 1..(n + 1) : Bin(w, q, n, i + 1, j) /\ l.nextBin[q[i + 1]] = At(q, n, j)
      BY <1>4, <3>2, <3>3
    <3>5. /\ j - 1 \in 1..((n - 1) + 1) /\ Bin(w, r, n - 1, i, j - 1)
          /\ At(r, n - 1, j - 1) = At(q, n, j)
      <4>1. \A d : \A k \in m..(n - 1) : Bin(w, q, n, k + 1, d) =>
              /\ d - 1 \in 1..((n - 1) + 1) /\ Bin(w, r, n - 1, k, d - 1)
              /\ At(r, n - 1, d - 1) = At(q, n, d)
        BY <1>1, RemoveShift
      <4> QED
        BY <3>2, <3>4, <4>1
    <3>6. r[i] = q[i + 1] /\ x.l.nextBin[q[i + 1]] = l.nextBin[q[i + 1]]
      <4>1. r[i] = q[i + 1]
        BY <1>2, <3>2, ZenonT(30)
      <4>2. ~(m = c /\ i + 1 = c + 1)
        BY <1>1, <2>2, <3>2
      <4> QED
        BY <1>10, <3>2, <4>1, <4>2, ZenonT(30)
    <3> QED
      BY <3>4, <3>5, <3>6 DEF Link
  <2>3. CASE m = c /\ i = c /\ ~(c + 1 < b)
    <3>1. b = c + 1 /\ c \in m..(n - 1) /\ c + 1 \in 1..n
      BY <1>1, <1>6, <2>3
    <3>2. Top(w, q, c + 1)
      BY <1>1, <1>5, <3>1, NextTop
    <3>3. PICK j \in 1..(n + 1) : Bin(w, q, n, c + 1, j) /\ l.nextBin[q[c + 1]] = At(q, n, j)
      BY <1>4, <3>1, <3>2
    <3>4. /\ j - 1 \in 1..((n - 1) + 1) /\ Bin(w, r, n - 1, c, j - 1)
          /\ At(r, n - 1, j - 1) = At(q, n, j)
      BY <1>1, <3>1, <3>3, RemoveShift
    <3>5. r[c] = q[c + 1] /\ x.l.nextBin[q[c + 1]] = l.nextBin[q[c + 1]]
      BY <1>1, <1>2, <1>10, <2>3, <3>1
    <3> QED
      BY <2>3, <3>3, <3>4, <3>5 DEF Link
  <2>4. CASE m = c /\ i = c /\ c + 1 < b
    <3>1. c \in m..(n - 1) /\ c + 1 \in 1..n /\ Same(w, q[c], q[c + 1])
      BY <1>1, <1>9, <2>4
    <3>2. q[c] \in Events /\ q[c + 1] \in Events
      BY <1>1, <3>1
    <3>3. Same(w, q[c + 1], q[c])
      BY <3>1, <3>2, KeyOrder
    <3>4. Bin(w, q, n, c + 1, b)
      <4>1. ASSUME NEW k \in (c + 1)..(b - 1) PROVE Same(w, q[c + 1], q[k])
        <5>1. k \in c..(b - 1) /\ k \in 1..n
          BY <1>1
        <5>2. Same(w, q[c], q[k]) /\ q[k] \in Events
          BY <1>1, <1>5, <5>1 DEF Bin
        <5> QED
          BY <3>2, <3>3, <5>2, KeyOrder
      <4>2. ASSUME b <= n PROVE Less(w, q[c + 1], q[b])
        <5>1. Less(w, q[c], q[b]) /\ b \in 1..n
          BY <1>1, <1>5, <4>2 DEF Bin
        <5>2. q[b] \in Events
          BY <1>1, <5>1
        <5> QED
          BY <3>2, <3>3, <5>1, <5>2, KeyOrder
      <4>3. b \in ((c + 1) + 1)..(n + 1)
        BY <1>1, <2>4
      <4> QED
        BY <4>1, <4>2, <4>3 DEF Bin
    <3>5. /\ b - 1 \in 1..((n - 1) + 1) /\ Bin(w, r, n - 1, c, b - 1)
          /\ At(r, n - 1, b - 1) = At(q, n, b)
      BY <1>1, <3>1, <3>4, RemoveShift
    <3>6. r[c] = q[c + 1] /\ x.l.nextBin[q[c + 1]] = At(q, n, b)
      BY <1>2, <1>10, <2>4, <3>1
    <3> QED
      BY <2>4, <3>5, <3>6 DEF Link
  <2> QED
    BY <1>1, <2>1, <2>2, <2>3, <2>4
<1>14. ASSUME NEW i \in 1..(c - 1), Top(w, r, i)
       PROVE  /\ Top(w, q, i)
              /\ \E j \in (i + 1)..c : /\ Bin(w, q, n, i, j) /\ Bin(w, r, n - 1, i, j)
                                       /\ j < c => x.l.nextBin[r[i]] = At(r, n - 1, j)
  <2>1. i \in 1..n /\ r[i] = q[i] /\ (i # 1 => r[i - 1] = q[i - 1]) /\ i # c + 1
    <3>1. i \in 1..n /\ i \in 1..(m - 1) /\ (i # 1 => i - 1 \in 1..(m - 1)) /\ i # c + 1
      BY <1>1
    <3> QED
      BY <1>2, <3>1
  <2>2. Top(w, q, i)
    BY <1>14, <2>1 DEF Top
  <2>3. PICK j \in 1..(n + 1) : Bin(w, q, n, i, j) /\ l.nextBin[q[i]] = At(q, n, j)
    BY <1>4, <2>1, <2>2
  <2>4. /\ j \in (i + 1)..c /\ Bin(w, r, n - 1, i, j)
        /\ j < c => At(r, n - 1, j) = At(q, n, j)
    <3>1. c \in 1..m
      BY <1>1
    <3>2. SameBin(w, q, n, r, c, i, j)
      BY <1>1, <2>3, <3>1, RemoveFront
    <3> QED
      BY <3>2 DEF SameBin
  <2>5. x.l.nextBin[r[i]] = l.nextBin[q[i]]
    BY <1>10, <2>1
  <2> QED
    BY <2>2, <2>3, <2>4, <2>5
<1> QED
  BY <1>10, <1>12, <1>13, <1>14 DEF Unlinked

(* EventQueue::remove takes out the event it is asked to. *)
LEMMA RemoveChain ==
  ASSUME NEW l, IsList(l), NEW w \in Ticks, NEW q, NEW n, Chain(l, w, q, n),
         LeastElements, NumEvents \in Nat, n <= NumEvents, NEW m \in 1..n
  PROVE  /\ IsList(remove(l, w, q[m]))
         /\ Chain(remove(l, w, q[m]), w, Del(q, n, m), n - 1)
<1> DEFINE r == Del(q, n, m)
           k == remove(l, w, q[m])
<1>1. /\ n \in Nat /\ n - 1 \in Nat /\ q \in [1..n -> Events] /\ \A i \in 1..n : q[i] \in Events
      /\ Order(w, q, n) /\ l.head = At(q, n, 1)
      /\ \A i, j \in 1..n : i < j => ~Less(w, q[j], q[i])
      /\ 1 \in 1..n
  BY DEF Chain, Order
<1>2. l.head = q[1]
  BY <1>1 DEF At
<1>3. Removed(q, n, m, r)
  BY <1>1, DelRemoved
<1> HIDE DEF r
<1>4. Order(w, r, n - 1)
  BY <1>1, <1>3, RemoveOrder
<1>5. \A c : At(r, n - 1, c) \in Pointer
  BY <1>4 DEF At, Order, Pointer
<1>6. CASE Same(w, l.head, q[m])
  <2> DEFINE x == RemoveItem(l, q[m], q[1])
  <2>1. k = [x.l EXCEPT !.head = x.top]
    BY <1>2, <1>6 DEF remove
  <2> HIDE DEF x
  <2>2. Top(w, q, 1) /\ m \in 1..n /\ Same(w, q[1], q[m])
    BY <1>2, <1>6 DEF Top
  <2>3. /\ IsList(x.l) /\ x.top = At(r, n - 1, 1) /\ Stacks(x.l, w, r, n - 1)
        /\ \A i \in 1..(n - 1) : Top(w, r, i) => Link(x.l, w, r, n - 1, i)
    <3>1. x = RemoveItem(l, q[m], q[1])
      BY DEF x
    <3>2. Unlinked(l, w, q, n, 1, r, x)
      BY <1>1, <1>3, <2>2, <3>1, RemoveItemLinks
    <3> QED
      BY <3>2 DEF Unlinked
  <2>4. x.top \in Pointer
    BY <1>5, <2>3
  <2>5. IsList(k) /\ k.head = x.top /\ k.nextInBin = x.l.nextInBin /\ k.nextBin = x.l.nextBin
    <3> DEFINE h == [x.l EXCEPT !.head = x.top]
    <3>1. IsList(h) /\ h.head = x.top /\ h.nextInBin = x.l.nextInBin /\ h.nextBin = x.l.nextBin
      BY <2>3, <2>4, SetHead
    <3> QED
      BY <2>1, <3>1
  <2> HIDE DEF k
  <2>6. Stacks(k, w, r, n - 1) /\ \A i \in 1..(n - 1) : Top(w, r, i) => Link(k, w, r, n - 1, i)
    BY <2>3, <2>5 DEF Stacks, Link
  <2>7. Chain(k, w, r, n - 1)
    BY <1>4, <2>3, <2>5, <2>6 DEF Chain
  <2> QED
    BY <2>5, <2>7 DEF k, r
<1>7. CASE ~Same(w, l.head, q[m])
  <2>1. m # 1 /\ Less(w, q[1], q[m]) /\ q[m] \in Events /\ 1 <= n
    <3>1. q[1] \in Events /\ q[m] \in Events
      BY <1>1
    <3>2. m # 1
      BY <1>2, <1>7, <3>1, KeyOrder
    <3>3. ~Less(w, q[m], q[1])
      BY <1>1, <3>2
    <3> QED
      BY <1>1, <1>2, <1>7, <3>1, <3>2, <3>3, KeyOrder
  <2>2. PICK p \in 1..n, c \in 1..(n + 1) :
            /\ FindBin(l, w, q[m]) = [prev |-> q[p], curr |-> At(q, n, c)]
            /\ Top(w, q, p) /\ Bin(w, q, n, p, c)
            /\ Less(w, q[p], q[m]) /\ (c <= n => ~Less(w, q[c], q[m]))
    BY <2>1, FindBinStops
  <2>3. p < c /\ c <= m
    <3>1. p < c
      BY <1>1, <2>2 DEF Bin
    <3>2. ASSUME m < c PROVE FALSE
      <4>1. q[p] \in Events /\ q[m] \in Events
        BY <1>1
      <4>2. CASE m < p
        BY <1>1, <2>2, <4>2
      <4>3. CASE m >= p
        <5>1. m \in p..(c - 1)
          BY <1>1, <3>2, <4>3
        <5>2. Same(w, q[p], q[m])
          BY <2>2, <5>1 DEF Bin
        <5> QED
          BY <2>2, <4>1, <5>2, KeyOrder
      <4> QED
        BY <4>2, <4>3
    <3> QED
      BY <1>1, <3>1, <3>2
  <2>4. c \in 1..n /\ m \in c..n /\ p \in 1..(n - 1) /\ p \in 1..(m - 1) /\ 1 \in 1..(n - 1)
        /\ 1 \in 1..(m - 1)
    BY <1>1, <2>1, <2>3
  <2>5. Same(w, q[c], q[m])
    <3>1. q[c] \in Events /\ q[m] \in Events /\ ~Less(w, q[c], q[m])
      BY <1>1, <2>2, <2>4
    <3>2. c = m \/ ~Less(w, q[m], q[c])
      BY <1>1, <2>4
    <3> QED
      BY <3>1, <3>2, KeyOrder
  <2>6. Top(w, q, c)
    BY <1>1, <2>2, <2>4, NextTop
  <2> DEFINE x == RemoveItem(l, q[m], q[c])
  <2>7. k = [x.l EXCEPT !.nextBin[q[p]] = x.top]
    <3>1. At(q, n, c) = q[c]
      BY <2>4 DEF At
    <3> QED
      BY <1>7, <2>2, <3>1 DEF remove
  <2> HIDE DEF x
  <2>8. /\ IsList(x.l) /\ x.l.head = l.head /\ x.top = At(r, n - 1, c)
        /\ Stacks(x.l, w, r, n - 1)
        /\ \A i \in c..(n - 1) : Top(w, r, i) => Link(x.l, w, r, n - 1, i)
        /\ \A i \in 1..(c - 1) : Top(w, r, i) =>
               /\ Top(w, q, i)
               /\ \E j \in (i + 1)..c : /\ Bin(w, q, n, i, j) /\ Bin(w, r, n - 1, i, j)
                                        /\ j < c => x.l.nextBin[r[i]] = At(r, n - 1, j)
    <3>1. x = RemoveItem(l, q[m], q[c])
      BY DEF x
    <3>2. Unlinked(l, w, q, n, c, r, x)
      BY <1>1, <1>3, <2>4, <2>5, <2>6, <3>1, RemoveItemLinks
    <3> QED
      BY <3>2, ZenonT(30) DEF Unlinked
  <2>9. /\ r \in [1..(n - 1) -> Events] /\ r[p] = q[p] /\ r[1] = q[1]
        /\ \A i \in 1..(n - 1) : i # p => r[i] # r[p]
    <3>1. r[p] = q[p] /\ r[1] = q[1]
      BY <1>3, <2>4 DEF Removed
    <3> QED
      BY <1>1, <1>4, <2>4, <3>1 DEF Order
  <2>10. /\ IsList(k) /\ k.head = l.head /\ k.nextInBin = x.l.nextInBin
         /\ k.nextBin = [x.l.nextBin EXCEPT ![q[p]] = x.top]
    <3>1. q[p] \in Events /\ x.top \in Pointer
      BY <1>1, <1>5, <2>8, ZenonT(30)
    <3> DEFINE h == [x.l EXCEPT !.nextBin[q[p]] = x.top]
    <3>2. /\ IsList(h) /\ h.head = x.l.head /\ h.nextInBin = x.l.nextInBin
          /\ h.nextBin = [x.l.nextBin EXCEPT ![q[p]] = x.top]
      BY <2>8, <3>1, SetNextBin
    <3> QED
      BY <2>7, <2>8, <3>2
  <2>11. /\ k.nextBin[r[p]] = x.top
         /\ \A i \in 1..(n - 1) : i # p => k.nextBin[r[i]] = x.l.nextBin[r[i]]
    <3>1. x.l.nextBin \in [Events -> Pointer] /\ q[p] \in Events
      BY <1>1, <2>8 DEF IsList
    <3>2. \A i \in 1..(n - 1) : r[i] \in Events
      BY <2>9
    <3> HIDE DEF k
    <3> QED
      BY <2>9, <2>10, <3>1, <3>2
  <2> HIDE DEF k
  <2>12. k.head = At(r, n - 1, 1)
    BY <1>2, <2>4, <2>9, <2>10 DEF At
  <2>13. ASSUME NEW i \in 1..(n - 1), Top(w, r, i) PROVE Link(k, w, r, n - 1, i)
    <3>1. CASE i >= c
      <4>1. i \in c..(n - 1) /\ i # p
        BY <1>1, <2>3, <3>1
      <4>2. Link(x.l, w, r, n - 1, i)
        BY <2>8, <2>13, <4>1
      <4> QED
        BY <2>11, <4>1, <4>2 DEF Link
    <3>2. CASE i < c
      <4>1. i \in 1..(c - 1) /\ i \in 1..n
        BY <1>1, <3>2
      <4>2. Top(w, q, i)
        BY <2>8, <2>13, <4>1
      <4>3. PICK j \in (i + 1)..c : /\ Bin(w, q, n, i, j) /\ Bin(w, r, n - 1, i, j)
                                    /\ j < c => x.l.nextBin[r[i]] = At(r, n - 1, j)
        BY <2>8, <2>13, <4>1
      <4>4. j \in 1..((n - 1) + 1)
        BY <1>1, <2>4
      <4>5. CASE j = c
        <5>1. i = p
          <6>1. Bin(w, q, n, i, c)
            BY <4>3, <4>5, ZenonT(30)
          <6> QED
            BY <1>1, <2>2, <4>1, <4>2, <6>1, OneBin
        <5> QED
          BY <2>8, <2>11, <4>3, <4>4, <4>5, <5>1, ZenonT(30) DEF Link
      <4>6. CASE j < c
        <5>1. i # p
          <6> SUFFICES ASSUME i = p PROVE FALSE
            OBVIOUS
          <6>1. j \in p..(c - 1) /\ j <= n /\ j \in 1..n
            BY <1>1, <2>4, <4>1, <4>6
          <6>2. Same(w, q[p], q[j]) /\ Less(w, q[p], q[j])
            BY <2>2, <4>3, <6>1, ZenonT(30) DEF Bin
          <6> QED
            BY <1>1, <6>1, <6>2, KeyOrder
        <5> QED
          BY <2>11, <4>3, <4>4, <4>6, <5>1, ZenonT(30) DEF Link
      <4> QED
        BY <1>1, <4>5, <4>6
    <3> QED
      BY <1>1, <3>1, <3>2
  <2>14. Stacks(k, w, r, n - 1)
    BY <2>8, <2>10, ZenonT(30) DEF Stacks
  <2>15. Chain(k, w, r, n - 1)
    BY <1>4, <2>12, <2>13, <2>14 DEF Chain
  <2> QED
    BY <2>10, <2>15 DEF k, r
<1> QED
  BY <1>6, <1>7

(* The pop of serviceOne removes the first event. *)
LEMMA PopChain ==
  ASSUME NEW l, IsList(l), NEW w \in Ticks, NEW q, NEW n, Chain(l, w, q, n),
         LeastElements, NumEvents \in Nat, n <= NumEvents, 1 <= n
  PROVE  IsList(Pop(l)) /\ Chain(Pop(l), w, Del(q, n, 1), n - 1)
<1>1. n \in Nat /\ 1 \in 1..n /\ l.head = q[1] /\ q[1] \in Events
  BY DEF Chain, Order, At
<1>2. Same(w, l.head, q[1])
  BY <1>1, KeyOrder
<1> DEFINE next == l.nextInBin[l.head]
<1>3. CASE next = NoEvent
  BY <1>1, <1>2, <1>3, RemoveChain, ZenonT(30) DEF Pop, remove, RemoveItem
<1>4. CASE next # NoEvent
  <2>1. [[l EXCEPT !.nextBin[next] = l.nextBin[l.head]] EXCEPT !.head = next]
         = [l EXCEPT !.nextBin[next] = l.nextBin[l.head], !.head = next]
    OBVIOUS
  <2>2. Pop(l) = remove(l, w, q[1])
    BY <1>1, <1>2, <1>4, <2>1 DEF Pop, remove, RemoveItem
  <2> QED
    BY <1>1, <2>2, RemoveChain
<1> QED
  BY <1>3, <1>4

-----------------------------------------------------------------------------
(* What the list stands for depends on the ticks and links of its own events only. *)
LEMMA ChainOther ==
  ASSUME NEW l, NEW w \in Ticks, NEW q, NEW n, Chain(l, w, q, n),
         NEW k, k.head = l.head,
         NEW v \in Ticks,
         \A i \in 1..n : /\ k.nextBin[q[i]] = l.nextBin[q[i]]
                         /\ k.nextInBin[q[i]] = l.nextInBin[q[i]]
                         /\ v[q[i]] = w[q[i]]
  PROVE  Chain(k, v, q, n)
<1>1. n \in Nat
  BY DEF Chain, Order
<1>2. \A i, j \in 1..n : /\ Less(v, q[i], q[j]) <=> Less(w, q[i], q[j])
                         /\ Same(v, q[i], q[j]) <=> Same(w, q[i], q[j])
  BY DEF Less, Same
<1>3. Order(v, q, n)
  BY <1>2 DEF Chain, Order
<1>4. Stacks(k, v, q, n)
  <2> SUFFICES ASSUME NEW i \in 1..n
               PROVE  k.nextInBin[q[i]] = IF i < n /\ Same(v, q[i], q[i + 1])
                                          THEN q[i + 1] ELSE NoEvent
    BY DEF Stacks
  <2>1. i < n => i + 1 \in 1..n
    BY <1>1
  <2> QED
    BY <1>2, <2>1 DEF Chain, Stacks
<1>5. ASSUME NEW i \in 1..n, Top(v, q, i) PROVE Link(k, v, q, n, i)
  <2>1. Top(w, q, i)
    <3>1. i # 1 => i - 1 \in 1..n
      BY <1>1
    <3> QED
      BY <1>2, <1>5, <3>1 DEF Top
  <2>2. PICK j \in 1..(n + 1) : Bin(w, q, n, i, j) /\ l.nextBin[q[i]] = At(q, n, j)
    BY <2>1 DEF Chain, Link
  <2>3. Bin(v, q, n, i, j)
    <3>1. \A m \in i..(j - 1) : m \in 1..n
      BY <1>1, <2>2 DEF Bin
    <3>2. j <= n => j \in 1..n
      BY <1>1
    <3> QED
      BY <1>2, <2>2, <3>1, <3>2 DEF Bin
  <2> QED
    BY <2>2, <2>3 DEF Link
<1> QED
  BY <1>3, <1>4, <1>5 DEF Chain

(* b is the top of the bin of the event at place i. *)
BinTop(w, q, i, b) ==
    \E t \in 1..i : b = q[t] /\ Top(w, q, t) /\ \A j \in t..i : Same(w, q[t], q[j])

(* One step of the walk. *)
LEMMA WalkStep ==
  ASSUME NEW l, IsList(l), NEW w \in Ticks, NEW q, NEW n, Chain(l, w, q, n),
         NEW i \in 1..n, NEW b, BinTop(w, q, i, b)
  PROVE  /\ l.nextInBin[q[i]] # NoEvent =>
                /\ l.nextInBin[q[i]] = At(q, n, i + 1)
                /\ i < n => BinTop(w, q, i + 1, b)
         /\ l.nextInBin[q[i]] = NoEvent =>
                /\ l.nextBin[b] = At(q, n, i + 1)
                /\ i < n => BinTop(w, q, i + 1, q[i + 1])
<1>1. n \in Nat /\ \A j \in 1..n : q[j] \in Events
  BY DEF Chain, Order
<1>2. l.nextInBin[q[i]] = IF i < n /\ Same(w, q[i], q[i + 1]) THEN q[i + 1] ELSE NoEvent
  BY DEF Chain, Stacks
<1>3. PICK t \in 1..i : b = q[t] /\ Top(w, q, t) /\ \A j \in t..i : Same(w, q[t], q[j])
  BY DEF BinTop
<1>4. t \in 1..n /\ i \in t..i /\ (i < n => i + 1 \in 1..n)
  BY <1>1
<1>5. CASE l.nextInBin[q[i]] # NoEvent
  <2>1. i < n /\ Same(w, q[i], q[i + 1]) /\ l.nextInBin[q[i]] = q[i + 1] /\ i + 1 \in 1..n
    BY <1>2, <1>4, <1>5
  <2>2. Same(w, q[t], q[i + 1])
    BY <1>1, <1>3, <1>4, <2>1, KeyOrder
  <2>3. \A j \in t..(i + 1) : Same(w, q[t], q[j])
    <3>1. \A j \in t..(i + 1) : j \in t..i \/ j = i + 1
      OBVIOUS
    <3> QED
      BY <1>3, <2>2, <3>1
  <2>4. t \in 1..(i + 1)
    OBVIOUS
  <2>5. BinTop(w, q, i + 1, b)
    BY <1>3, <2>3, <2>4 DEF BinTop
  <2> QED
    BY <1>5, <2>1, <2>5 DEF At
<1>6. CASE l.nextInBin[q[i]] = NoEvent
  <2>1. i < n => ~Same(w, q[i], q[i + 1])
    <3>1. i < n => q[i + 1] # NoEvent
      BY <1>1, <1>4, BinsAssumption
    <3> QED
      BY <1>2, <1>6, <3>1
  <2>2. PICK j \in 1..(n + 1) : Bin(w, q, n, t, j) /\ l.nextBin[q[t]] = At(q, n, j)
    BY <1>3, <1>4 DEF Chain, Link
  <2>3. ~(j <= i)
    <3> SUFFICES ASSUME j <= i PROVE FALSE
      OBVIOUS
    <3>1. j \in t..i /\ j <= n /\ j \in 1..n
      BY <1>1, <2>2 DEF Bin
    <3>2. Less(w, q[t], q[j]) /\ Same(w, q[t], q[j])
      BY <1>3, <2>2, <3>1 DEF Bin
    <3> QED
      BY <1>1, <1>4, <3>1, <3>2, KeyOrder
  <2>4. ~(j > i + 1)
    <3> SUFFICES ASSUME j > i + 1 PROVE FALSE
      OBVIOUS
    <3>1. i < n /\ i \in t..(j - 1) /\ i + 1 \in t..(j - 1)
      BY <1>1
    <3>2. Same(w, q[t], q[i]) /\ Same(w, q[t], q[i + 1])
      BY <2>2, <3>1 DEF Bin
    <3>3. q[t] \in Events /\ q[i] \in Events /\ q[i + 1] \in Events
      BY <1>1, <1>4, <3>1
    <3>4. Same(w, q[i], q[t])
      BY <3>2, <3>3, KeyOrder
    <3>5. Same(w, q[i], q[i + 1])
      BY <3>2, <3>3, <3>4, KeyOrder
    <3> QED
      BY <2>1, <3>1, <3>5
  <2>5. j = i + 1
    BY <1>1, <2>3, <2>4
  <2>6. i < n => BinTop(w, q, i + 1, q[i + 1])
    <3> SUFFICES ASSUME i < n PROVE BinTop(w, q, i + 1, q[i + 1])
      OBVIOUS
    <3>1. Top(w, q, i + 1) /\ i + 1 \in 1..(i + 1)
      BY <2>1 DEF Top
    <3>2. \A m \in (i + 1)..(i + 1) : Same(w, q[i + 1], q[m])
      BY <1>1, <1>4, KeyOrder
    <3> QED
      BY <3>1, <3>2 DEF BinTop
  <2> QED
    BY <1>3, <1>6, <2>2, <2>5, <2>6
<1> QED
  BY <1>5, <1>6

(* The walk meets the events of the list in their order and stops behind the last. *)
LEMMA WalkFacts ==
  ASSUME NEW l, IsList(l), NEW w \in Ticks, NEW q, NEW n, Chain(l, w, q, n),
         LeastElements, NumEvents \in Nat, n <= NumEvents
  PROVE  LET k == Walk(l.head, l.nextBin, l.nextInBin)
         IN  /\ DOMAIN k = 1..n
             /\ \A i \in 1..n : k[i].ev = q[i] /\ BinTop(w, q, i, k[i].bin)
<1> DEFINE Place0 == [ev : Pointer, bin : Pointer]
           next == [x \in Place0 |->
                      IF x.ev = NoEvent THEN x
                      ELSE IF l.nextInBin[x.ev] # NoEvent
                      THEN [x EXCEPT !.ev = l.nextInBin[x.ev]]
                      ELSE [ev |-> l.nextBin[x.bin], bin |-> l.nextBin[x.bin]]]
           start == [ev |-> l.head, bin |-> l.head]
           walk == Turns(next, start, NumEvents)
           k == Walk(l.head, l.nextBin, l.nextInBin)
           P == [i \in 0..NumEvents |->
                   {x \in Place0 : x.ev = At(q, n, i + 1) /\ (i < n => BinTop(w, q, i + 1, x.bin))}]
<1>1. n \in Nat /\ NumEvents \in Nat /\ (\A j \in 1..n : q[j] \in Events) /\ l.head = At(q, n, 1)
  BY DEF Chain, Order
<1>2. start \in P[0]
  <2>1. start \in Place0
    BY DEF IsList
  <2>2. 0 < n => BinTop(w, q, 0 + 1, l.head)
    <3> SUFFICES ASSUME 0 < n PROVE BinTop(w, q, 1, l.head)
      OBVIOUS
    <3>1. 1 \in 1..n /\ l.head = q[1]
      BY <1>1 DEF At
    <3>2. \A j \in 1..1 : Same(w, q[1], q[j])
      BY <1>1, <3>1, KeyOrder
    <3> QED
      BY <3>1, <3>2 DEF BinTop, Top
  <2> QED
    BY <1>1, <2>1, <2>2
<1>3. ASSUME NEW i \in 1..NumEvents, NEW x \in P[i - 1] PROVE next[x] \in P[i]
  <2>1. i \in 0..NumEvents /\ i - 1 \in 0..NumEvents
    <3> HIDE DEF P
    <3> QED
      BY <1>1
  <2>2. x \in Place0 /\ x.ev = At(q, n, i) /\ (i - 1 < n => BinTop(w, q, i, x.bin))
    BY <2>1
  <2>3. CASE i > n
    BY <1>1, <2>1, <2>2, <2>3 DEF At
  <2>4. CASE i <= n
    <3>1. i \in 1..n /\ x.ev = q[i] /\ q[i] \in Events /\ q[i] # NoEvent /\ BinTop(w, q, i, x.bin)
      BY <1>1, <2>2, <2>4, BinsAssumption DEF At
    <3>2. x.bin \in Events
      <4>1. PICK t \in 1..i : x.bin = q[t]
        BY <3>1 DEF BinTop
      <4> QED
        BY <1>1, <2>4, <4>1
    <3>3. CASE l.nextInBin[q[i]] # NoEvent
      <4>1. l.nextInBin[q[i]] = At(q, n, i + 1) /\ (i < n => BinTop(w, q, i + 1, x.bin))
        BY <3>1, <3>3, WalkStep
      <4>2. next[x] = [x EXCEPT !.ev = l.nextInBin[q[i]]]
        BY <2>2, <3>1, <3>3
      <4>3. l.nextInBin[q[i]] \in Pointer
        BY <3>1 DEF IsList
      <4>4. next[x] \in Place0 /\ next[x].ev = l.nextInBin[q[i]] /\ next[x].bin = x.bin
        BY <2>2, <4>2, <4>3, ZenonT(30)
      <4> HIDE DEF next, Place0
      <4> QED
        BY <2>1, <4>1, <4>4
    <3>4. CASE l.nextInBin[q[i]] = NoEvent
      <4>1. l.nextBin[x.bin] = At(q, n, i + 1) /\ (i < n => BinTop(w, q, i + 1, q[i + 1]))
        BY <3>1, <3>4, WalkStep
      <4>2. next[x] = [ev |-> l.nextBin[x.bin], bin |-> l.nextBin[x.bin]]
        BY <2>2, <3>1, <3>4
      <4>3. l.nextBin[x.bin] \in Pointer
        BY <3>2 DEF IsList
      <4>4. next[x] \in Place0 /\ next[x].ev = l.nextBin[x.bin] /\ next[x].bin = l.nextBin[x.bin]
        BY <4>2, <4>3
      <4>5. i < n => At(q, n, i + 1) = q[i + 1]
        BY <1>1 DEF At
      <4> HIDE DEF next, Place0
      <4> QED
        BY <2>1, <4>1, <4>4, <4>5
    <3> QED
      BY <3>3, <3>4
  <2> QED
    BY <1>1, <2>3, <2>4
<1>4. \A i \in 0..NumEvents : walk[i] \in P[i]
  <2> HIDE DEF P, next, start
  <2> QED
    BY <1>1, <1>2, <1>3, TurnsInvariant
<1>5. \A i \in 1..(NumEvents + 1) :
          walk[i - 1].ev = At(q, n, i) /\ (i <= n => BinTop(w, q, i, walk[i - 1].bin))
  <2> SUFFICES ASSUME NEW i \in 1..(NumEvents + 1)
               PROVE  walk[i - 1].ev = At(q, n, i) /\ (i <= n => BinTop(w, q, i, walk[i - 1].bin))
    OBVIOUS
  <2>1. i - 1 \in 0..NumEvents /\ (i - 1) + 1 = i /\ (i <= n => i - 1 < n)
    BY <1>1
  <2> HIDE DEF walk, Place0
  <2>2. walk[i - 1] \in P[i - 1]
    BY <1>4, <2>1
  <2> QED
    BY <2>1, <2>2
<1>6. k = [i \in {m \in 1..(NumEvents + 1) : walk[m - 1].ev # NoEvent} |-> walk[i - 1]]
  BY DEF Walk
<1> HIDE DEF walk, k, P
<1>7. {m \in 1..(NumEvents + 1) : walk[m - 1].ev # NoEvent} = 1..n
  <2>1. \A m \in 1..(NumEvents + 1) : walk[m - 1].ev # NoEvent <=> m <= n
    BY <1>1, <1>5, BinsAssumption DEF At
  <2> QED
    BY <1>1, <2>1
<1>8. \A i \in 1..n : i \in 1..(NumEvents + 1) /\ At(q, n, i) = q[i]
  BY <1>1 DEF At
<1>9. DOMAIN k = 1..n /\ \A i \in 1..n : k[i] = walk[i - 1]
  BY <1>6, <1>7
<1>10. \A i \in 1..n : k[i].ev = q[i] /\ BinTop(w, q, i, k[i].bin)
  BY <1>5, <1>8, <1>9
<1> QED
  BY <1>9, <1>10 DEF k

(* The tops of two bins differ in their key. *)
LEMMA BinsIncrease ==
  ASSUME NEW w \in Ticks, NEW q, NEW n, Order(w, q, n), NEW i \in 1..n, NEW j \in 1..n, i < j,
         NEW a, BinTop(w, q, i, a), NEW b, BinTop(w, q, j, b), a # b
  PROVE  Less(w, a, b)
<1>1. /\ n \in Nat /\ \A k \in 1..n : q[k] \in Events
      /\ \A x, y \in 1..n : x < y => ~Less(w, q[y], q[x])
  BY DEF Order
<1>2. PICK s \in 1..i : a = q[s] /\ Top(w, q, s) /\ \A k \in s..i : Same(w, q[s], q[k])
  BY DEF BinTop
<1>3. PICK t \in 1..j : b = q[t] /\ Top(w, q, t) /\ \A k \in t..j : Same(w, q[t], q[k])
  BY DEF BinTop
<1>4. s \in 1..n /\ t \in 1..n /\ s # t
  BY <1>1, <1>2, <1>3
<1>5. ~(t < s)
  <2> SUFFICES ASSUME t < s PROVE FALSE
    OBVIOUS
  <2>1. s - 1 \in t..j /\ s \in t..j /\ s - 1 \in 1..n /\ s # 1
    BY <1>1, <1>4
  <2>2. Same(w, q[t], q[s - 1]) /\ Same(w, q[t], q[s])
    BY <1>3, <2>1
  <2>3. Same(w, q[s - 1], q[t])
    BY <1>1, <1>4, <2>1, <2>2, KeyOrder
  <2>4. Same(w, q[s - 1], q[s])
    BY <1>1, <1>4, <2>1, <2>2, <2>3, KeyOrder
  <2> QED
    BY <1>2, <2>1, <2>4 DEF Top
<1>6. s < t
  BY <1>4, <1>5
<1>7. ~Same(w, q[s], q[t])
  <2> SUFFICES ASSUME Same(w, q[s], q[t]) PROVE FALSE
    OBVIOUS
  <2>1. t - 1 \in 1..n /\ t # 1 /\ t - 1 < t /\ (s = t - 1 \/ s < t - 1)
    BY <1>1, <1>4, <1>6
  <2>2. q[s] \in Events /\ q[t - 1] \in Events /\ q[t] \in Events
    BY <1>1, <1>4, <2>1
  <2>3. ~Less(w, q[t], q[t - 1])
    BY <1>1, <1>4, <2>1
  <2>4. ~Less(w, q[t - 1], q[s])
    BY <1>1, <1>4, <2>1, <2>2, KeyOrder
  <2>5. Less(w, q[t - 1], q[t]) \/ Same(w, q[t - 1], q[t])
    BY <2>2, <2>3, KeyOrder
  <2>6. Same(w, q[t], q[s])
    BY <2>2, KeyOrder
  <2>7. Same(w, q[t - 1], q[t])
    BY <2>2, <2>4, <2>5, <2>6, KeyOrder
  <2> QED
    BY <1>3, <2>1, <2>7 DEF Top
<1>8. ~Less(w, q[t], q[s])
  BY <1>1, <1>4, <1>6
<1> QED
  BY <1>1, <1>2, <1>3, <1>4, <1>7, <1>8, KeyOrder

=============================================================================
