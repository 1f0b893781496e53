------------------------ MODULE EventQueueSpecProofs ------------------------
(***************************************************************************)
(* The promises of EventQueueSpec hold for every set of events, every      *)
(* assignment of priorities and every last tick.  They rest on facts about *)
(* the service order of EventList: what inserting an entry, removing one   *)
(* and taking the first one do to a sorted queue.                          *)
(***************************************************************************)
EXTENDS EventQueueSpec, SequenceTheorems, WellFoundedInduction, TLAPS

(* What the provers may take for a step that names none, in seconds. *)
USE SMTT(30), ZenonT(30), Z3T(30)

(* The members of E can be compared as queue entries. *)
EntrySet(E) == \A a \in E : a.when \in Int /\ a.pri \in Int

(* The comparison of events (eventq.hh:522-527) is a strict weak order. *)
LEMMA BeforeOrder ==
  ASSUME NEW E, EntrySet(E), NEW a \in E, NEW b \in E, NEW c \in E
  PROVE  /\ ~Before(a, a)
         /\ Before(a, b) => ~Before(b, a)
         /\ Before(a, b) /\ ~Before(c, b) => Before(a, c)
         /\ ~Before(b, a) /\ Before(b, c) => Before(a, c)
         /\ ~Before(b, a) /\ ~Before(c, b) => ~Before(c, a)
  BY DEF Before, EntrySet

(* Insert yields a queue that is one longer, made of x and q's entries. *)
LEMMA InsertType ==
  ASSUME NEW E, EntrySet(E), NEW q \in Seq(E), NEW x \in E
  PROVE  /\ Insert(q, x) \in Seq(E)
         /\ Len(Insert(q, x)) = Len(q) + 1
         /\ \A i \in 1..(Len(q) + 1) : Insert(q, x)[i] =
                IF i <= Len(q) /\ Before(q[i], x) THEN q[i]
                ELSE IF i = 1 \/ Before(q[i - 1], x) THEN x
                ELSE q[i - 1]
<1>1. Len(q) \in Nat /\ \A i \in 1..Len(q) : q[i] \in E
  BY ElementOfSeq, LenProperties
<1>2. \A i \in 1..(Len(q) + 1) : i # 1 => i - 1 \in 1..Len(q)
  BY <1>1
<1>3. Insert(q, x) \in [1..(Len(q) + 1) -> E]
  BY <1>1, <1>2 DEF Insert
<1>4. Insert(q, x) \in Seq(E) /\ Len(Insert(q, x)) = Len(q) + 1
  BY <1>1, <1>3
<1> QED
  BY <1>1, <1>4 DEF Insert

(* Position k splits q into what is before x and the rest, and x goes there. *)
Placed(q, x, k) ==
    /\ \A i \in 1..Len(q) : (i < k) <=> Before(q[i], x)
    /\ \A i \in 1..(Len(q) + 1) : Insert(q, x)[i] =
           IF i < k THEN q[i] ELSE IF i = k THEN x ELSE q[i - 1]

(***************************************************************************)
(* In a sorted queue the new entry has one place k: what is before it in   *)
(* key is before it in the queue, everything else is behind it.            *)
(***************************************************************************)
LEMMA InsertPlace ==
  ASSUME NEW E, EntrySet(E), NEW q \in Seq(E), NEW x \in E, Sorted(q)
  PROVE  \E k \in 1..(Len(q) + 1) : Placed(q, x, k)
<1> DEFINE T == {i \in 1..(Len(q) + 1) : i = Len(q) + 1 \/ ~Before(q[i], x)}
<1>1. Len(q) \in Nat /\ \A i \in 1..Len(q) : q[i] \in E
  BY ElementOfSeq, LenProperties
<1>2. T \subseteq Nat /\ T # {}
  <2>1. Len(q) + 1 \in T
    BY <1>1
  <2> QED
    BY <1>1, <2>1
<1>3. PICK k \in T : \A y \in T : ~(<<y, k>> \in OpToRel(<, Nat))
  <2> HIDE DEF T
  <2> QED
    BY <1>2, NatLessThanWellFounded, WFMin
<1>4. \A y \in T : k <= y
  <2> HIDE DEF T
  <2>1. \A m, n \in Nat : m < n => <<m, n>> \in OpToRel(<, Nat)
    BY DEF OpToRel
  <2>2. ASSUME NEW y \in T PROVE k <= y
    <3>1. y \in Nat /\ k \in Nat /\ ~(y < k)
      BY <1>2, <1>3, <2>1
    <3> QED
      BY <3>1
  <2> QED
    BY <2>2
<1>5. k \in 1..(Len(q) + 1)
  BY <1>3
<1>6. ASSUME NEW i \in 1..Len(q) PROVE (i < k) <=> Before(q[i], x)
  <2>1. i < k => Before(q[i], x)
    BY <1>1, <1>4, <1>5
  <2>2. ASSUME k <= i PROVE ~Before(q[i], x)
    <3>1. k \in 1..Len(q) /\ ~Before(q[k], x)
      <4>1. k \in 1..Len(q) /\ k # Len(q) + 1
        BY <1>1, <1>5, <2>2
      <4>2. k = Len(q) + 1 \/ ~Before(q[k], x)
        OBVIOUS
      <4> QED
        BY <4>1, <4>2
    <3>2. ~Before(q[i], q[k])
      BY <1>1, <2>2, <3>1, BeforeOrder DEF Sorted
    <3> QED
      BY <1>1, <3>1, <3>2, BeforeOrder
  <2> QED
    BY <1>1, <1>5, <2>1, <2>2
<1>10. \A i \in 1..(Len(q) + 1) : Insert(q, x)[i] =
           IF i <= Len(q) /\ Before(q[i], x) THEN q[i]
           ELSE IF i = 1 \/ Before(q[i - 1], x) THEN x ELSE q[i - 1]
  BY InsertType
<1>7. ASSUME NEW i \in 1..(Len(q) + 1)
      PROVE  Insert(q, x)[i] = IF i < k THEN q[i] ELSE IF i = k THEN x ELSE q[i - 1]
  <2> HIDE DEF T
  <2>0. Insert(q, x)[i] = IF i <= Len(q) /\ Before(q[i], x) THEN q[i]
                          ELSE IF i = 1 \/ Before(q[i - 1], x) THEN x ELSE q[i - 1]
    BY <1>10, ZenonT(30)
  <2>1. CASE i < k
    BY <1>1, <1>5, <1>6, <2>0, <2>1
  <2>2. CASE i = k
    <3>1. i <= Len(q) => ~Before(q[i], x)
      BY <1>1, <1>6, <2>2
    <3>2. i # 1 => Before(q[i - 1], x)
      BY <1>1, <1>6, <2>2
    <3> QED
      BY <1>1, <2>0, <2>2, <3>1, <3>2
  <2>3. CASE i > k
    <3>1. i <= Len(q) => ~Before(q[i], x)
      BY <1>1, <1>5, <1>6, <2>3
    <3>2. i # 1 /\ i - 1 \in 1..Len(q) /\ ~(i - 1 < k)
      BY <1>1, <1>5, <2>3
    <3>3. ~Before(q[i - 1], x)
      BY <1>6, <3>2
    <3> QED
      BY <1>1, <1>5, <2>0, <2>3, <3>1, <3>2, <3>3
  <2> QED
    BY <1>1, <1>5, <2>1, <2>2, <2>3
<1> QED
  BY <1>5, <1>6, <1>7 DEF Placed

(* Inserting keeps the queue sorted. *)
LEMMA InsertSorted ==
  ASSUME NEW E, EntrySet(E), NEW q \in Seq(E), NEW x \in E, Sorted(q)
  PROVE  Sorted(Insert(q, x))
<1>1. Len(q) \in Nat /\ \A i \in 1..Len(q) : q[i] \in E
  BY ElementOfSeq, LenProperties
<1>0. PICK k \in 1..(Len(q) + 1) : Placed(q, x, k)
  BY InsertPlace
<1>2. /\ \A i \in 1..Len(q) : (i < k) <=> Before(q[i], x)
      /\ \A i \in 1..(Len(q) + 1) : Insert(q, x)[i] =
             IF i < k THEN q[i] ELSE IF i = k THEN x ELSE q[i - 1]
  BY <1>0 DEF Placed
<1>3. Len(Insert(q, x)) = Len(q) + 1
  BY InsertType
<1> SUFFICES ASSUME NEW i \in 1..(Len(q) + 1), NEW j \in 1..(Len(q) + 1), i < j
             PROVE  ~Before(Insert(q, x)[j], Insert(q, x)[i])
  BY <1>3 DEF Sorted
<1>4. CASE j < k
  BY <1>1, <1>2, <1>4 DEF Sorted
<1>5. CASE j = k
  <2>1. i \in 1..Len(q) /\ i < k
    BY <1>1, <1>5
  <2>2. Insert(q, x)[i] = q[i] /\ Insert(q, x)[j] = x /\ Before(q[i], x)
    BY <1>2, <1>5, <2>1
  <2> QED
    BY <1>1, <2>1, <2>2, BeforeOrder
<1>6. CASE j > k
  <2>1. j - 1 \in 1..Len(q) /\ ~(j - 1 < k)
    BY <1>1, <1>6
  <2>2. Insert(q, x)[j] = q[j - 1] /\ ~Before(q[j - 1], x)
    BY <1>1, <1>2, <1>6, <2>1
  <2>3. CASE i < k
    <3>1. i \in 1..Len(q) /\ i <= j - 1 /\ Insert(q, x)[i] = q[i]
      BY <1>1, <1>2, <2>1, <2>3
    <3> QED
      BY <1>1, <2>1, <2>2, <3>1, BeforeOrder DEF Sorted
  <2>4. CASE i = k
    <3>1. Insert(q, x)[i] = x
      BY <1>2, <2>4
    <3> QED
      BY <2>2, <3>1
  <2>5. CASE i > k
    <3>1. i - 1 \in 1..Len(q) /\ i - 1 < j - 1 /\ Insert(q, x)[i] = q[i - 1]
      BY <1>1, <1>2, <2>1, <2>5
    <3> QED
      BY <2>1, <2>2, <3>1 DEF Sorted
  <2> QED
    BY <1>1, <2>3, <2>4, <2>5
<1> QED
  BY <1>1, <1>4, <1>5, <1>6

(***************************************************************************)
(* Inserting an entry for an event that is not queued adds exactly that    *)
(* event, and no event twice.                                              *)
(***************************************************************************)
LEMMA InsertEvents ==
  ASSUME NEW E, EntrySet(E), NEW q \in Seq(E), NEW x \in E, Sorted(q),
         Distinct(q), x.ev \notin EventsOf(q)
  PROVE  /\ EventsOf(Insert(q, x)) = EventsOf(q) \cup {x.ev}
         /\ Distinct(Insert(q, x))
         /\ \A i \in 1..Len(Insert(q, x)) :
               Insert(q, x)[i] = x \/ \E j \in 1..Len(q) : Insert(q, x)[i] = q[j]
<1> DEFINE r == Insert(q, x)
<1>1. Len(q) \in Nat /\ \A i \in 1..Len(q) : q[i] \in E
  BY ElementOfSeq, LenProperties
<1>2. Len(r) = Len(q) + 1
  BY InsertType
<1>3. PICK k \in 1..(Len(q) + 1) : Placed(q, x, k)
  BY InsertPlace
<1>4. \A i \in 1..(Len(q) + 1) :
         r[i] = IF i < k THEN q[i] ELSE IF i = k THEN x ELSE q[i - 1]
  BY <1>3 DEF Placed
<1> HIDE DEF r
<1>5. \A i \in 1..Len(q) : q[i].ev # x.ev
  BY DEF EventsOf
<1>6. ASSUME NEW i \in 1..(Len(q) + 1)
      PROVE  r[i] = x \/ \E j \in 1..Len(q) : r[i] = q[j]
  <2>1. CASE i < k
    BY <1>1, <1>4, <2>1
  <2>2. CASE i = k
    BY <1>4, <2>2
  <2>3. CASE i > k
    <3>1. i - 1 \in 1..Len(q) /\ r[i] = q[i - 1]
      BY <1>1, <1>4, <2>3
    <3> QED
      BY <3>1
  <2> QED
    BY <1>1, <2>1, <2>2, <2>3
<1>7. EventsOf(r) \subseteq EventsOf(q) \cup {x.ev}
  BY <1>2, <1>6 DEF EventsOf
<1>8. x.ev \in EventsOf(r)
  <2>1. k \in 1..Len(r) /\ r[k] = x
    BY <1>1, <1>2, <1>4
  <2> QED
    BY <2>1 DEF EventsOf
<1>9. ASSUME NEW i \in 1..Len(q) PROVE q[i].ev \in EventsOf(r)
  <2>1. CASE i < k
    <3>1. i \in 1..Len(r) /\ r[i] = q[i]
      BY <1>1, <1>2, <1>4, <2>1
    <3> QED
      BY <3>1 DEF EventsOf
  <2>2. CASE i >= k
    <3>1. i + 1 \in 1..Len(r) /\ r[i + 1] = q[i]
      BY <1>1, <1>2, <1>4, <2>2
    <3> QED
      BY <3>1 DEF EventsOf
  <2> QED
    BY <1>1, <2>1, <2>2
<1>10. EventsOf(q) \subseteq EventsOf(r)
  BY <1>9, ZenonT(30) DEF EventsOf
<1>11. Distinct(r)
  <2> SUFFICES ASSUME NEW i \in 1..(Len(q) + 1), NEW j \in 1..(Len(q) + 1),
                      r[i].ev = r[j].ev
               PROVE  i = j
    BY <1>2 DEF Distinct
  <2> DEFINE old(m) == IF m < k THEN m ELSE m - 1
  <2>1. ASSUME NEW m \in 1..(Len(q) + 1), m # k
        PROVE  old(m) \in 1..Len(q) /\ r[m] = q[old(m)]
    BY <1>1, <1>4, <2>1
  <2>2. CASE i # k /\ j # k
    <3>1. old(i) = old(j)
      <4>1. old(i) \in 1..Len(q) /\ old(j) \in 1..Len(q) /\ q[old(i)].ev = q[old(j)].ev
        BY <2>1, <2>2
      <4> HIDE DEF old
      <4> QED
        BY <4>1 DEF Distinct
    <3> QED
      BY <1>1, <2>2, <3>1
  <2>3. CASE i = k /\ j # k
    <3>1. r[i] = x /\ old(j) \in 1..Len(q) /\ r[j] = q[old(j)]
      BY <1>4, <2>1, <2>3
    <3> HIDE DEF old
    <3> QED
      BY <1>5, <3>1
  <2>4. CASE i # k /\ j = k
    <3>1. r[j] = x /\ old(i) \in 1..Len(q) /\ r[i] = q[old(i)]
      BY <1>4, <2>1, <2>4
    <3> HIDE DEF old
    <3> QED
      BY <1>5, <3>1
  <2> QED
    BY <2>2, <2>3, <2>4
<1> QED
  BY <1>2, <1>6, <1>7, <1>8, <1>10, <1>11 DEF r

(***************************************************************************)
(* Removing a queued event keeps the order of the others and leaves no     *)
(* entry for it.                                                           *)
(***************************************************************************)
LEMMA WithoutEvents ==
  ASSUME NEW E, EntrySet(E), NEW q \in Seq(E), Sorted(q), Distinct(q),
         NEW e \in EventsOf(q)
  PROVE  /\ Without(q, e) \in Seq(E)
         /\ Sorted(Without(q, e))
         /\ Distinct(Without(q, e))
         /\ EventsOf(Without(q, e)) = EventsOf(q) \ {e}
         /\ \A i \in 1..Len(Without(q, e)) :
               \E j \in 1..Len(q) : Without(q, e)[i] = q[j]
<1> DEFINE r == Without(q, e)
<1>1. Len(q) \in Nat /\ \A i \in 1..Len(q) : q[i] \in E
  BY ElementOfSeq, LenProperties
<1>2. PICK k \in 1..Len(q) : q[k].ev = e
  BY DEF EventsOf
<1>3. \A i \in 1..Len(q) : q[i].ev = e => i = k
  BY <1>2 DEF Distinct
<1>4. ASSUME NEW i \in 1..(Len(q) - 1)
      PROVE  (\E j \in 1..i : q[j].ev = e) <=> k <= i
  BY <1>1, <1>2, <1>3
<1>5. r = [i \in 1..(Len(q) - 1) |-> IF k <= i THEN q[i + 1] ELSE q[i]]
  BY <1>4 DEF Without
<1>6. r \in [1..(Len(q) - 1) -> E]
  BY <1>1, <1>5
<1>7. r \in Seq(E) /\ Len(r) = Len(q) - 1
  <2>1. Len(q) - 1 \in Nat
    BY <1>1, <1>2
  <2> HIDE DEF r
  <2> QED
    BY <1>6, <2>1
<1> DEFINE old(m) == IF k <= m THEN m + 1 ELSE m
<1>8. \A m \in 1..Len(r) : old(m) \in 1..Len(q) /\ old(m) # k /\ r[m] = q[old(m)]
  BY <1>1, <1>5, <1>7
<1>9. \A m, n \in 1..Len(r) : m < n => old(m) < old(n)
  BY <1>1, <1>7
<1> HIDE DEF r, old
<1>10. Sorted(r)
  <2> SUFFICES ASSUME NEW i \in 1..Len(r), NEW j \in 1..Len(r), i < j
               PROVE  ~Before(r[j], r[i])
    BY DEF Sorted
  <2>1. old(i) < old(j)
    BY <1>9
  <2>2. old(i) \in 1..Len(q) /\ old(j) \in 1..Len(q) /\ r[i] = q[old(i)] /\ r[j] = q[old(j)]
    BY <1>8, ZenonT(30)
  <2>3. ~Before(q[old(j)], q[old(i)])
    BY <2>1, <2>2, ZenonT(30) DEF Sorted
  <2> QED
    BY <2>2, <2>3, ZenonT(30)
<1>11. Distinct(r)
  <2> SUFFICES ASSUME NEW i \in 1..Len(r), NEW j \in 1..Len(r), r[i].ev = r[j].ev
               PROVE  i = j
    BY DEF Distinct
  <2>0. old(i) \in 1..Len(q) /\ old(j) \in 1..Len(q) /\ q[old(i)].ev = q[old(j)].ev
    BY <1>8, ZenonT(30)
  <2>1. old(i) = old(j)
    BY <2>0, ZenonT(30) DEF Distinct
  <2>2. i \in Int /\ j \in Int /\ old(i) \in Int
    BY <1>1, <1>8
  <2>3. ~(i < j) /\ ~(j < i)
    BY <1>9, <2>1, <2>2
  <2> QED
    BY <2>2, <2>3
<1>12. EventsOf(r) \subseteq EventsOf(q) \ {e}
  BY <1>3, <1>8 DEF EventsOf
<1>13. ASSUME NEW i \in 1..Len(q), q[i].ev # e PROVE q[i].ev \in EventsOf(r)
  <2>1. CASE i < k
    <3>1. i \in 1..Len(r) /\ r[i] = q[i]
      BY <1>1, <1>5, <1>7, <2>1
    <3> QED
      BY <3>1 DEF EventsOf
  <2>2. CASE i > k
    <3>1. i - 1 \in 1..Len(r) /\ r[i - 1] = q[i]
      BY <1>1, <1>5, <1>7, <2>2
    <3> QED
      BY <3>1 DEF EventsOf
  <2> QED
    BY <1>1, <1>2, <1>13, <2>1, <2>2
<1>14. EventsOf(q) \ {e} \subseteq EventsOf(r)
  BY <1>13, ZenonT(30) DEF EventsOf
<1> QED
  BY <1>7, <1>8, <1>10, <1>11, <1>12, <1>14 DEF r

(* Taking the first entry off: the rest keeps its order and loses that event. *)
LEMMA TailEvents ==
  ASSUME NEW E, EntrySet(E), NEW q \in Seq(E), q # <<>>, Sorted(q), Distinct(q)
  PROVE  /\ Tail(q) \in Seq(E)
         /\ Sorted(Tail(q))
         /\ Distinct(Tail(q))
         /\ Head(q) = q[1] /\ 1 \in 1..Len(q)
         /\ EventsOf(Tail(q)) = EventsOf(q) \ {Head(q).ev}
         /\ \A i \in 1..Len(Tail(q)) :
               ~Before(Tail(q)[i], Head(q)) /\ \E j \in 1..Len(q) : Tail(q)[i] = q[j]
<1> DEFINE r == Tail(q)
<1>1. Len(q) \in Nat \ {0} /\ \A i \in 1..Len(q) : q[i] \in E
  BY ElementOfSeq, EmptySeq
<1>2. /\ r \in Seq(E)
      /\ Len(r) = Len(q) - 1
      /\ \A i \in 1..Len(r) : r[i] = q[i + 1]
  BY HeadTailProperties
<1>3. Head(q) = q[1] /\ 1 \in 1..Len(q)
  BY <1>1
<1> HIDE DEF r
<1>4. \A i \in 1..Len(r) : i + 1 \in 1..Len(q) /\ r[i] = q[i + 1] /\ 1 < i + 1
  BY <1>1, <1>2
<1>5. Sorted(r)
  <2> SUFFICES ASSUME NEW i \in 1..Len(r), NEW j \in 1..Len(r), i < j
               PROVE  ~Before(r[j], r[i])
    BY ZenonT(30) DEF Sorted
  <2>1. i + 1 < j + 1
    BY <1>1, <1>2
  <2> QED
    BY <1>4, <2>1, ZenonT(30) DEF Sorted
<1>6. Distinct(r)
  <2> SUFFICES ASSUME NEW i \in 1..Len(r), NEW j \in 1..Len(r), r[i].ev = r[j].ev
               PROVE  i = j
    BY ZenonT(30) DEF Distinct
  <2>1. i + 1 = j + 1
    BY <1>4, ZenonT(30) DEF Distinct
  <2> QED
    BY <1>1, <1>2, <2>1
<1>7. \A i \in 1..Len(r) : ~Before(r[i], q[1])
  BY <1>3, <1>4 DEF Sorted
<1>8. \A i \in 1..Len(r) : r[i].ev # q[1].ev
  <2> SUFFICES ASSUME NEW i \in 1..Len(r) PROVE r[i].ev # q[1].ev
    OBVIOUS
  <2>1. i + 1 \in 1..Len(q) /\ i + 1 # 1 /\ r[i] = q[i + 1]
    BY <1>1, <1>4
  <2> QED
    BY <1>3, <2>1 DEF Distinct
<1>9. EventsOf(r) \subseteq EventsOf(q) \ {q[1].ev}
  BY <1>4, <1>8 DEF EventsOf
<1>10. ASSUME NEW i \in 1..Len(q), q[i].ev # q[1].ev PROVE q[i].ev \in EventsOf(r)
  <2>1. i - 1 \in 1..Len(r) /\ r[i - 1] = q[i]
    BY <1>1, <1>2, <1>10
  <2> QED
    BY <2>1 DEF EventsOf
<1>11. EventsOf(q) \ {q[1].ev} \subseteq EventsOf(r)
  BY <1>10 DEF EventsOf
<1> QED
  BY <1>2, <1>3, <1>4, <1>5, <1>6, <1>7, <1>9, <1>11 DEF r

-----------------------------------------------------------------------------
(***************************************************************************)
(* The inductive invariant.  The queue's order is what makes time          *)
(* monotone: the first entry carries the least tick.  That an event is     *)
(* queued at most once is what makes removing it, and hence deleting a     *)
(* managed one, safe.                                                      *)
(***************************************************************************)
IInv == TypeOK /\ QueueOrdered /\ NoPastEvents /\ SquashedOnlyQueued /\ NoUseAfterFree

(* The entries of events are such entries. *)
LEMMA EntryIsEntrySet == EntrySet(Entry) /\ \A e \in Events, t \in Tick : EntryOf(e, t) \in Entry
  BY QueueAssumption DEF EntrySet, Entry, EntryOf, Tick

(* An empty queue satisfies the invariant. *)
LEMMA InitInv == Init => IInv
<1> SUFFICES ASSUME Init PROVE IInv
  OBVIOUS
<1>1. TypeOK
  BY QueueAssumption DEF Init, TypeOK, Tick
<1>2. Len(queue) = 0 /\ 1..Len(queue) = {}
  BY DEF Init
<1>3. EventsOf(queue) = {}
  BY <1>2 DEF EventsOf
<1> QED
  BY <1>1, <1>2, <1>3, QueueAssumption
     DEF Init, IInv, QueueOrdered, Sorted, Distinct, NoPastEvents, SquashedOnlyQueued, NoUseAfterFree

(* Scheduling an event that is not queued, in its own right or after removing it. *)
LEMMA InsertStep ==
  ASSUME NEW q \in Seq(Entry), Sorted(q), Distinct(q), NEW now \in Tick,
         \A i \in 1..Len(q) : q[i].when >= now,
         NEW e \in Events, e \notin EventsOf(q), NEW t \in Tick, t >= now
  PROVE  LET r == Insert(q, EntryOf(e, t))
         IN  /\ r \in Seq(Entry) /\ Sorted(r) /\ Distinct(r)
             /\ EventsOf(r) = EventsOf(q) \cup {e}
             /\ \A i \in 1..Len(r) : r[i].when >= now
<1> DEFINE x == EntryOf(e, t)
           r == Insert(q, x)
<1>1. x \in Entry /\ x.ev = e /\ x.when = t /\ EntrySet(Entry)
  BY EntryIsEntrySet DEF EntryOf
<1> HIDE DEF x
<1>2. r \in Seq(Entry) /\ Sorted(r)
  BY <1>1, InsertType, InsertSorted
<1>3. /\ EventsOf(r) = EventsOf(q) \cup {x.ev}
      /\ Distinct(r)
      /\ \A i \in 1..Len(r) : r[i] = x \/ \E j \in 1..Len(q) : r[i] = q[j]
  BY <1>1, InsertEvents
<1> HIDE DEF r
<1>4. \A i \in 1..Len(r) : r[i].when >= now
  BY <1>1, <1>3
<1> QED
  BY <1>1, <1>2, <1>3, <1>4 DEF r, x

(* Removing a queued event. *)
LEMMA WithoutStep ==
  ASSUME NEW q \in Seq(Entry), Sorted(q), Distinct(q), NEW now \in Tick,
         \A i \in 1..Len(q) : q[i].when >= now, NEW e \in EventsOf(q)
  PROVE  LET r == Without(q, e)
         IN  /\ r \in Seq(Entry) /\ Sorted(r) /\ Distinct(r)
             /\ EventsOf(r) = EventsOf(q) \ {e}
             /\ \A i \in 1..Len(r) : r[i].when >= now
<1> DEFINE r == Without(q, e)
<1>1. /\ r \in Seq(Entry) /\ Sorted(r) /\ Distinct(r)
      /\ EventsOf(r) = EventsOf(q) \ {e}
      /\ \A i \in 1..Len(r) : \E j \in 1..Len(q) : r[i] = q[j]
  BY EntryIsEntrySet, WithoutEvents
<1> HIDE DEF r
<1>2. \A i \in 1..Len(r) : r[i].when >= now
  BY <1>1
<1> QED
  BY <1>1, <1>2 DEF r

(* Taking the first event off: nothing behind it is due earlier. *)
LEMMA TailStep ==
  ASSUME NEW q \in Seq(Entry), q # <<>>, Sorted(q), Distinct(q)
  PROVE  /\ Head(q) \in Entry /\ Head(q) = q[1] /\ 1 \in 1..Len(q)
         /\ Tail(q) \in Seq(Entry) /\ Sorted(Tail(q)) /\ Distinct(Tail(q))
         /\ EventsOf(Tail(q)) = EventsOf(q) \ {Head(q).ev}
         /\ Head(q).ev \in EventsOf(q)
         /\ \A i \in 1..Len(Tail(q)) :
               /\ Tail(q)[i].when >= Head(q).when
               /\ \E j \in 1..Len(q) : Tail(q)[i] = q[j]
<1> DEFINE r == Tail(q)
           h == Head(q)
<1>1. /\ r \in Seq(Entry) /\ Sorted(r) /\ Distinct(r)
      /\ h = q[1] /\ 1 \in 1..Len(q)
      /\ EventsOf(r) = EventsOf(q) \ {h.ev}
      /\ \A i \in 1..Len(r) : ~Before(r[i], h) /\ \E j \in 1..Len(q) : r[i] = q[j]
  BY EntryIsEntrySet, TailEvents
<1>2. h \in Entry
  BY <1>1, ElementOfSeq
<1>3. h.ev \in EventsOf(q)
  BY <1>1 DEF EventsOf
<1>4. \A i \in 1..Len(r) : r[i] \in Entry
  BY <1>1, ElementOfSeq
<1> HIDE DEF r, h
<1>5. \A i \in 1..Len(r) : r[i].when >= h.when
  <2> TAKE i \in 1..Len(r)
  <2>1. ~(r[i].when < h.when)
    BY <1>1, ZenonT(30) DEF Before
  <2>2. r[i] \in Entry
    BY <1>4, ZenonT(30)
  <2>3. r[i].when \in Tick /\ h.when \in Tick
    BY <1>2, <2>2 DEF Entry
  <2> QED
    BY <2>1, <2>3 DEF Tick
<1> QED
  BY <1>1, <1>2, <1>3, <1>5 DEF r, h

-----------------------------------------------------------------------------
(* Every call keeps the inductive invariant. *)
LEMMA NextInv == IInv /\ [Next]_vars => IInv'
<1> SUFFICES ASSUME IInv, [Next]_vars PROVE IInv'
  OBVIOUS
<1> USE DEF IInv, QueueOrdered
<1>0. /\ queue \in Seq(Entry) /\ curTick \in Tick
      /\ squashed \subseteq Events /\ alive \subseteq Events
      /\ serving \in Events \cup {NoEvent}
      /\ Sorted(queue) /\ Distinct(queue)
      /\ \A i \in 1..Len(queue) : queue[i].when >= curTick
      /\ squashed \subseteq EventsOf(queue)
      /\ EventsOf(queue) \subseteq alive
      /\ serving # NoEvent => serving \in alive
  BY DEF TypeOK, NoPastEvents, SquashedOnlyQueued, NoUseAfterFree
<1> DEFINE Goal == /\ queue' \in Seq(Entry) /\ curTick' \in Tick
                   /\ squashed' \subseteq EventsOf(queue') /\ alive' \subseteq Events
                   /\ serving' \in Events \cup {NoEvent}
                   /\ Sorted(queue') /\ Distinct(queue')
                   /\ \A i \in 1..Len(queue') : queue'[i].when >= curTick'
                   /\ EventsOf(queue') \subseteq alive'
                   /\ serving' # NoEvent => serving' \in alive'
<1>1. SUFFICES Goal
  BY DEF TypeOK, NoPastEvents, SquashedOnlyQueued, NoUseAfterFree
<1>2. ASSUME NEW e \in Events, New(e) PROVE Goal
  BY <1>0, <1>2 DEF New
<1>3. ASSUME NEW e \in Events, NEW t \in Tick, Schedule(e, t) PROVE Goal
  <2>1. /\ queue' \in Seq(Entry) /\ Sorted(queue') /\ Distinct(queue')
        /\ EventsOf(queue') = EventsOf(queue) \cup {e}
        /\ \A i \in 1..Len(queue') : queue'[i].when >= curTick
    BY <1>0, <1>3, InsertStep DEF Schedule, Scheduled
  <2> QED
    BY <1>0, <1>3, <2>1 DEF Schedule
<1>4. ASSUME NEW e \in Events, Deschedule(e) PROVE Goal
  <2>1. /\ queue' \in Seq(Entry) /\ Sorted(queue') /\ Distinct(queue')
        /\ EventsOf(queue') = EventsOf(queue) \ {e}
        /\ \A i \in 1..Len(queue') : queue'[i].when >= curTick
    BY <1>0, <1>4, WithoutStep DEF Deschedule, Scheduled
  <2>2. alive' = alive \/ (alive' = alive \ {e} /\ e # serving)
    BY <1>4 DEF Deschedule, Release
  <2> QED
    BY <1>0, <1>4, <2>1, <2>2 DEF Deschedule
<1>5. ASSUME NEW e \in Events, NEW t \in Tick, Reschedule(e, t) PROVE Goal
  <2> DEFINE q == IF Scheduled(e) THEN Without(queue, e) ELSE queue
  <2>1. /\ q \in Seq(Entry) /\ Sorted(q) /\ Distinct(q)
        /\ EventsOf(q) = EventsOf(queue) \ {e}
        /\ \A i \in 1..Len(q) : q[i].when >= curTick
    <3>1. CASE Scheduled(e)
      BY <1>0, <3>1, WithoutStep DEF Scheduled
    <3>2. CASE ~Scheduled(e)
      BY <1>0, <3>2 DEF Scheduled
    <3> QED
      BY <3>1, <3>2
  <2>2. queue' = Insert(q, EntryOf(e, t)) /\ t >= curTick /\ e \in alive
    BY <1>5 DEF Reschedule
  <2> HIDE DEF q
  <2>3. e \notin EventsOf(q)
    BY <2>1
  <2>4. /\ queue' \in Seq(Entry) /\ Sorted(queue') /\ Distinct(queue')
        /\ EventsOf(queue') = EventsOf(q) \cup {e}
        /\ \A i \in 1..Len(queue') : queue'[i].when >= curTick
    BY <1>0, <2>1, <2>2, <2>3, InsertStep
  <2> QED
    BY <1>0, <1>5, <2>1, <2>2, <2>4 DEF Reschedule
<1>6. ASSUME NEW e \in Events, Squash(e) PROVE Goal
  BY <1>0, <1>6 DEF Squash, Scheduled
<1>7. ASSUME ServiceOne PROVE Goal
  <2>1. queue # <<>> /\ queue' = Tail(queue) /\ curTick' = Head(queue).when
        /\ serving' = Head(queue).ev
    BY <1>7 DEF ServiceOne
  <2>2. /\ Head(queue) \in Entry
        /\ queue' \in Seq(Entry) /\ Sorted(queue') /\ Distinct(queue')
        /\ EventsOf(queue') = EventsOf(queue) \ {Head(queue).ev}
        /\ Head(queue).ev \in EventsOf(queue)
        /\ \A i \in 1..Len(queue') : queue'[i].when >= Head(queue).when
    BY <1>0, <2>1, TailStep
  <2>3. Head(queue).when \in Tick /\ Head(queue).ev \in Events
    BY <2>2 DEF Entry
  <2>4. squashed' \subseteq EventsOf(queue')
    BY <1>0, <1>7, <2>2 DEF ServiceOne
  <2> QED
    BY <1>0, <1>7, <2>1, <2>2, <2>3, <2>4 DEF ServiceOne
<1>8. ASSUME SkipSquashed PROVE Goal
  <2>1. queue # <<>> /\ queue' = Tail(queue)
    BY <1>8 DEF SkipSquashed
  <2>2. /\ Head(queue) \in Entry
        /\ queue' \in Seq(Entry) /\ Sorted(queue') /\ Distinct(queue')
        /\ EventsOf(queue') = EventsOf(queue) \ {Head(queue).ev}
        /\ \A i \in 1..Len(queue') : \E j \in 1..Len(queue) : queue'[i] = queue[j]
    BY <1>0, <2>1, TailStep
  <2>3. alive' = alive \/ alive' = alive \ {Head(queue).ev}
    BY <1>8 DEF SkipSquashed, Release
  <2>4. \A i \in 1..Len(queue') : queue'[i].when >= curTick
    BY <1>0, <2>2
  <2> QED
    BY <1>0, <1>8, <2>2, <2>3, <2>4 DEF SkipSquashed
<1>9. ASSUME ProcessDone PROVE Goal
  <2>1. alive' = alive \/ (alive' = alive \ {serving} /\ serving \notin EventsOf(queue))
    BY <1>9 DEF ProcessDone, Release
  <2> QED
    BY <1>0, <1>9, <2>1 DEF ProcessDone
<1>10. ASSUME NEW t \in Tick, AdvanceTo(t) PROVE Goal
  <2>1. ASSUME NEW i \in 1..Len(queue) PROVE queue[i].when >= t
    <3>1. queue # <<>>
      BY <1>0, EmptySeq
    <3>2. Head(queue).when > t /\ Head(queue) = queue[1] /\ 1 \in 1..Len(queue)
      BY <1>0, <1>10, <3>1, TailStep DEF AdvanceTo
    <3>3. queue[i] \in Entry /\ queue[1] \in Entry
      BY <1>0, <3>2, ElementOfSeq
    <3>4. i = 1 \/ ~Before(queue[i], queue[1])
      BY <1>0, <3>2 DEF Sorted
    <3> QED
      BY <3>2, <3>3, <3>4 DEF Before, Entry, Tick
  <2> QED
    BY <1>0, <1>10, <2>1 DEF AdvanceTo
<1>11. CASE UNCHANGED vars
  BY <1>0, <1>11 DEF vars
<1> HIDE DEF Goal
<1> QED
  BY <1>2, <1>3, <1>4, <1>5, <1>6, <1>7, <1>8, <1>9, <1>10, <1>11 DEF Next

(***************************************************************************)
(* However schedule, deschedule, reschedule, squash and serviceOne are     *)
(* called (eventq.hh:757-834, eventq.cc:223-262), the inductive invariant  *)
(* holds in every state.                                                   *)
(***************************************************************************)
THEOREM Invariance == Spec => []IInv
<1>1. Init => IInv
  BY InitInv
<1>2. IInv /\ [Next]_vars => IInv'
  BY NextInv
<1> QED
  BY <1>1, <1>2, PTL DEF Spec

(* The state of the queue is always well typed. *)
THEOREM TypeCorrect == Spec => []TypeOK
  BY Invariance, PTL DEF IInv

(* The service order is total and free of duplicates (EventQueue::insert and remove). *)
THEOREM OrderCorrect == Spec => []QueueOrdered
  BY Invariance, PTL DEF IInv

(* "event scheduled in the past" (simulate.cc:301) cannot happen. *)
THEOREM NothingOverdue == Spec => []NoPastEvents
  BY Invariance, PTL DEF IInv

(* No Squashed flag is left over for schedule() to trip on. *)
THEOREM SquashCorrect == Spec => []SquashedOnlyQueued
  BY Invariance, PTL DEF IInv

(* Event::release deletes no managed event that is queued or in service. *)
THEOREM ReleaseCorrect == Spec => []NoUseAfterFree
  BY Invariance, PTL DEF IInv

(* Simulated time never runs backwards (setCurTick in serviceOne and serviceEvents). *)
THEOREM TimeCorrect == Spec => TimeMonotone
<1>1. IInv /\ [Next]_vars => [curTick' >= curTick]_vars
  <2> SUFFICES ASSUME IInv, [Next]_vars PROVE [curTick' >= curTick]_vars
    OBVIOUS
  <2>1. curTick \in Int
    BY QueueAssumption DEF IInv, TypeOK, Tick
  <2>2. ASSUME ServiceOne PROVE curTick' >= curTick
    <3>1. Head(queue) = queue[1] /\ 1 \in 1..Len(queue)
      BY <2>2, TailStep DEF ServiceOne, IInv, TypeOK, QueueOrdered
    <3> QED
      BY <2>2, <3>1 DEF ServiceOne, IInv, NoPastEvents
  <2>3. CASE Next
    <3>1. ASSUME ~ServiceOne PROVE curTick' = curTick \/ curTick' >= curTick
      BY <2>3, <3>1
         DEF Next, New, Schedule, Deschedule, Reschedule, Squash, SkipSquashed, ProcessDone, AdvanceTo
    <3> QED
      BY <2>1, <2>2, <3>1
  <2>4. CASE UNCHANGED vars
    BY <2>4
  <2> QED
    BY <2>3, <2>4
<1> QED
  BY <1>1, Invariance, PTL DEF Spec, TimeMonotone

=============================================================================
