-------------------------- MODULE EventQueueProofs --------------------------
(***************************************************************************)
(* The linked list of EventQueue implements the sorted queue, for every    *)
(* set of events and priorities: in every state the links stand for a      *)
(* sequence (Chain), and it is the queue of the specification.             *)
(***************************************************************************)
EXTENDS EventQueue, EventBinsProofs, FiniteSetTheorems, Sequences

(* What the provers may take for a step that names none, in seconds. *)
USE SMTT(30), ZenonT(30), Z3T(30)

(* A set of naturals that is not empty has a least element. *)
LEMMA LeastNat == LeastElements
<1> SUFFICES ASSUME NEW T \in SUBSET Nat, T # {} PROVE \E x \in T : \A y \in T : x <= y
  BY DEF LeastElements
<1> DEFINE R == OpToRel(<, Nat)
<1>1. IsWellFoundedOn(R, Nat)
  BY NatLessThanWellFounded, ZenonT(30)
<1>2. \A x, y \in Nat : <<y, x>> \in R <=> y < x
  BY DEF OpToRel
<1> HIDE DEF R
<1>3. PICK x \in T : \A y \in T : ~(<<y, x>> \in R)
  BY <1>1, WFMin, ZenonT(30)
<1>4. \A y \in T : ~(y < x)
  BY <1>2, <1>3, ZenonT(30)
<1>5. \A y \in T : x <= y
  BY <1>4
<1> QED
  BY <1>5

(* The number of turns of the loops, and what it takes to reason about them. *)
LEMMA NumEventsNat == NumEvents \in Nat /\ LeastElements
  BY BinsAssumption, LeastNat, FS_CardinalityType DEF NumEvents

(* A list without repetitions is no longer than there are events. *)
LEMMA Count ==
  ASSUME NEW w, NEW q, NEW n, Order(w, q, n) PROVE n <= NumEvents
<1>1. n \in Nat /\ q \in [1..n -> Events] /\ \A i, j \in 1..n : i < j => q[i] # q[j]
  BY DEF Order
<1>2. \A i, j \in 1..n : q[i] = q[j] => i = j
  BY <1>1
<1>3. q \in Injection(1..n, Events)
  BY <1>1, <1>2 DEF Injection, IsInjective
<1>4. Cardinality(1..n) <= NumEvents
  BY <1>3, BinsAssumption, FS_Injection DEF NumEvents
<1>5. Cardinality(1..n) = n
  BY <1>1, FS_Interval
<1> QED
  BY <1>4, <1>5

-----------------------------------------------------------------------------
(* The entries of EventQueueSpec that stand for q. *)
Entries(q, n, w) == [i \in 1..n |-> [ev |-> q[i], when |-> w[q[i]], pri |-> Priority[q[i]]]]

(* What Entries says of a place. *)
LEMMA EntriesAt ==
  ASSUME NEW q, NEW n \in Nat, NEW w
  PROVE  /\ Len(Entries(q, n, w)) = n
         /\ DOMAIN Entries(q, n, w) = 1..n
         /\ \A i \in 1..n : Entries(q, n, w)[i] = [ev |-> q[i], when |-> w[q[i]], pri |-> Priority[q[i]]]
         /\ S!EventsOf(Entries(q, n, w)) = {q[i] : i \in 1..n}
  BY DEF Entries, S!EventsOf

(* The entry of an event comes before another's if the event does. *)
LEMMA EntriesBefore ==
  ASSUME NEW w, NEW a, NEW b
  PROVE  S!Before([ev |-> a, when |-> w[a], pri |-> Priority[a]],
                  [ev |-> b, when |-> w[b], pri |-> Priority[b]]) <=> Less(w, a, b)
  BY DEF S!Before, Less

(* insert() has the effect of Insert. *)
LEMMA EntriesInsert ==
  ASSUME NEW q, NEW n \in Nat, q \in [1..n -> Events], NEW w \in Ticks, NEW e, NEW c,
         Place(w, q, n, e, c)
  PROVE  S!Insert(Entries(q, n, w), S!EntryOf(e, w[e])) = Entries(Ins(q, n, c, e), n + 1, w)
<1> DEFINE x == S!EntryOf(e, w[e])
           d == Entries(q, n, w)
           r == Ins(q, n, c, e)
<1>1. c \in 1..(n + 1) /\ \A i \in 1..n : i < c <=> Less(w, q[i], e)
  BY DEF Place
<1>2. x = [ev |-> e, when |-> w[e], pri |-> Priority[e]]
  BY DEF S!EntryOf
<1>3. /\ Len(d) = n
      /\ \A i \in 1..n : d[i] = [ev |-> q[i], when |-> w[q[i]], pri |-> Priority[q[i]]]
  BY EntriesAt
<1>4. \A i \in 1..n : S!Before(d[i], x) <=> i < c
  BY <1>1, <1>2, <1>3, EntriesBefore
<1>5. \A i \in 1..(n + 1) : r[i] = IF i < c THEN q[i] ELSE IF i = c THEN e ELSE q[i - 1]
  BY DEF Ins
<1>6. S!Insert(d, x) = [i \in 1..(n + 1) |->
                          IF i <= n /\ S!Before(d[i], x) THEN d[i]
                          ELSE IF i = 1 \/ S!Before(d[i - 1], x) THEN x ELSE d[i - 1]]
  BY <1>3 DEF S!Insert
<1> HIDE DEF x, d, r
<1>7. ASSUME NEW i \in 1..(n + 1)
      PROVE  (IF i <= n /\ S!Before(d[i], x) THEN d[i]
              ELSE IF i = 1 \/ S!Before(d[i - 1], x) THEN x ELSE d[i - 1])
             = [ev |-> r[i], when |-> w[r[i]], pri |-> Priority[r[i]]]
  <2>1. CASE i < c
    <3>1. i \in 1..n /\ i <= n
      BY <1>1, <2>1
    <3> QED
      BY <1>3, <1>4, <1>5, <2>1, <3>1
  <2>2. CASE i = c
    <3>1. i <= n => i \in 1..n
      OBVIOUS
    <3>2. i # 1 => i - 1 \in 1..n /\ i - 1 < c
      BY <2>2
    <3>3. ~(i <= n /\ S!Before(d[i], x))
      BY <1>1, <1>4, <2>2, <3>1
    <3>4. i = 1 \/ S!Before(d[i - 1], x)
      BY <1>4, <3>2
    <3> QED
      BY <1>2, <1>5, <2>2, <3>3, <3>4
  <2>3. CASE i > c
    <3>1. (i <= n => i \in 1..n) /\ i # 1 /\ i - 1 \in 1..n /\ ~(i < c) /\ ~(i - 1 < c) /\ i # c
      BY <1>1, <2>3
    <3>2. ~(i <= n /\ S!Before(d[i], x)) /\ ~S!Before(d[i - 1], x)
      BY <1>4, <3>1
    <3> QED
      BY <1>3, <1>5, <3>1, <3>2
  <2> QED
    BY <1>1, <2>1, <2>2, <2>3
<1>8. S!Insert(d, x) = [i \in 1..(n + 1) |-> [ev |-> r[i], when |-> w[r[i]], pri |-> Priority[r[i]]]]
  BY <1>6, <1>7
<1> QED
  BY <1>8 DEF Entries, d, x, r

(* remove() has the effect of Without. *)
LEMMA EntriesWithout ==
  ASSUME NEW q, NEW n, NEW w, Order(w, q, n), NEW m \in 1..n
  PROVE  S!Without(Entries(q, n, w), q[m]) = Entries(Del(q, n, m), n - 1, w)
<1> DEFINE d == Entries(q, n, w)
           r == Del(q, n, m)
<1>1. n \in Nat /\ \A i, j \in 1..n : q[i] = q[j] => i = j
  <2>1. n \in Nat /\ \A i, j \in 1..n : i < j => q[i] # q[j]
    BY DEF Order
  <2> QED
    BY <2>1
<1>2. /\ Len(d) = n
      /\ \A i \in 1..n : d[i] = [ev |-> q[i], when |-> w[q[i]], pri |-> Priority[q[i]]]
  BY <1>1, EntriesAt
<1>3. \A i \in 1..(n - 1) : r[i] = IF i < m THEN q[i] ELSE q[i + 1]
  BY DEF Del
<1>4. S!Without(d, q[m]) = [i \in 1..(n - 1) |->
                              IF \E j \in 1..i : d[j].ev = q[m] THEN d[i + 1] ELSE d[i]]
  BY <1>2 DEF S!Without
<1> HIDE DEF d, r
<1>5. ASSUME NEW i \in 1..(n - 1)
      PROVE  (IF \E j \in 1..i : d[j].ev = q[m] THEN d[i + 1] ELSE d[i])
             = [ev |-> r[i], when |-> w[r[i]], pri |-> Priority[r[i]]]
  <2>1. i \in 1..n /\ i + 1 \in 1..n /\ \A j \in 1..i : j \in 1..n
    BY <1>1
  <2>2. (\E j \in 1..i : d[j].ev = q[m]) <=> m <= i
    <3>1. \A j \in 1..i : d[j].ev = q[m] <=> j = m
      BY <1>1, <1>2, <2>1
    <3> QED
      BY <1>1, <3>1
  <2>3. CASE m <= i
    BY <1>2, <1>3, <2>1, <2>2, <2>3
  <2>4. CASE i < m
    <3>1. ~(m <= i)
      BY <1>1, <2>4
    <3> QED
      BY <1>2, <1>3, <2>1, <2>2, <2>4, <3>1
  <2> QED
    BY <1>1, <2>3, <2>4
<1>6. S!Without(d, q[m]) = [i \in 1..(n - 1) |-> [ev |-> r[i], when |-> w[r[i]], pri |-> Priority[r[i]]]]
  BY <1>4, <1>5
<1> QED
  BY <1>6 DEF Entries, d, r

(* A sequence behind its head, place by place. *)
LEMMA TailAt ==
  ASSUME NEW R, NEW d \in Seq(R), Len(d) >= 1
  PROVE  Tail(d) = [i \in 1..(Len(d) - 1) |-> d[i + 1]]
<1>1. Tail(d) \in Seq(R) /\ Len(Tail(d)) = Len(d) - 1
  OBVIOUS
<1>2. \A i \in 1..(Len(d) - 1) : Tail(d)[i] = d[i + 1]
  OBVIOUS
<1>3. ASSUME NEW s \in Seq(R) PROVE s = [i \in 1..Len(s) |-> s[i]]
  OBVIOUS
<1> QED
  BY <1>1, <1>2, <1>3, ZenonT(30)

(* The pop of serviceOne takes the head off the entries. *)
LEMMA EntriesTail ==
  ASSUME NEW q, NEW n \in Nat, n >= 1, q \in [1..n -> Events], NEW w \in Ticks
  PROVE  /\ Entries(q, n, w) # <<>>
         /\ Head(Entries(q, n, w)) = [ev |-> q[1], when |-> w[q[1]], pri |-> Priority[q[1]]]
         /\ Tail(Entries(q, n, w)) = Entries(Del(q, n, 1), n - 1, w)
<1> DEFINE d == Entries(q, n, w)
           r == Del(q, n, 1)
<1>1. /\ Len(d) = n
      /\ \A i \in 1..n : d[i] = [ev |-> q[i], when |-> w[q[i]], pri |-> Priority[q[i]]]
  BY EntriesAt
<1>2. d \in Seq([ev : Events, when : Int, pri : Int])
  BY BinsAssumption, QueueAssumption DEF Entries, Ticks
<1>3. \A i \in 1..(n - 1) : r[i] = q[i + 1]
  BY DEF Del
<1> HIDE DEF d, r
<1>4. d # <<>> /\ Head(d) = d[1] /\ 1 \in 1..n
  BY <1>1, <1>2
<1>5. Tail(d) = [i \in 1..(n - 1) |-> d[i + 1]]
  <2>1. Len(d) >= 1
    BY <1>1
  <2>2. Tail(d) = [i \in 1..(Len(d) - 1) |-> d[i + 1]]
    BY <1>2, <2>1, TailAt, ZenonT(30)
  <2> QED
    BY <1>1, <2>2, ZenonT(30)
<1>6. \A i \in 1..(n - 1) : d[i + 1] = [ev |-> r[i], when |-> w[r[i]], pri |-> Priority[r[i]]]
  BY <1>1, <1>3
<1>7. Tail(d) = [i \in 1..(n - 1) |-> [ev |-> r[i], when |-> w[r[i]], pri |-> Priority[r[i]]]]
  BY <1>5, <1>6, ZenonT(30)
<1> QED
  BY <1>1, <1>4, <1>7, ZenonT(30) DEF Entries, d, r

-----------------------------------------------------------------------------
(* The events of q. *)
Members(q, n) == {q[i] : i \in 1..n}

(* They are the events of the entries of q. *)
LEMMA EntriesEvents ==
  ASSUME NEW q, NEW n \in Nat, NEW w PROVE S!EventsOf(Entries(q, n, w)) = Members(q, n)
  BY EntriesAt DEF Members

(* The list stands for q, and q holds the scheduled events. *)
Describes(q, n) ==
    /\ Chain(List, when, q, n)
    /\ {e \in Events : scheduled(e)} = Members(q, n)

(* The inductive invariant. *)
ListInv ==
    /\ TypeOK
    /\ \E n \in Nat : \E q \in [1..n -> Events] : Describes(q, n)
    /\ \A e \in Events : scheduled(e) => e \in alive
    /\ \A e \in Events : "Squashed" \in flags[e] => scheduled(e)
    /\ serving # NoEvent => serving \in alive

(* What a walk of the list finds in a state of the invariant. *)
LEMMA StateFacts ==
  ASSUME TypeOK, NEW n, NEW q, Chain(List, when, q, n)
  PROVE  /\ LeastElements /\ NumEvents \in Nat /\ n <= NumEvents /\ IsList(List) /\ when \in Ticks
         /\ DOMAIN Linked = 1..n
         /\ \A i \in 1..n : Linked[i].ev = q[i] /\ BinTop(when, q, i, Linked[i].bin)
         /\ ServiceOrder = Entries(q, n, when)
<1>1. Order(when, q, n) /\ n \in Nat
  BY DEF Chain, Order
<1>2. LeastElements /\ NumEvents \in Nat /\ n <= NumEvents
  BY <1>1, Count, NumEventsNat
<1>3. IsList(List) /\ when \in Ticks
  BY DEF TypeOK, IsList, List, Ticks, Tick
<1>4. Linked = Walk(List.head, List.nextBin, List.nextInBin)
  BY DEF Linked, Walk, List
<1>5. /\ DOMAIN Linked = 1..n
      /\ \A i \in 1..n : Linked[i].ev = q[i] /\ BinTop(when, q, i, Linked[i].bin)
  BY <1>2, <1>3, <1>4, WalkFacts
<1>6. ServiceOrder = Entries(q, n, when)
  BY <1>5 DEF ServiceOrder, Entries
<1> QED
  BY <1>2, <1>3, <1>5, <1>6

(* The same of the next state, for the service order. *)
LEMMA ServiceNext ==
  ASSUME TypeOK', NEW n, NEW q, Chain(List', when', q, n)
  PROVE  ServiceOrder' = Entries(q, n, when')
<1>1. Order(when', q, n) /\ n \in Nat
  BY DEF Chain, Order
<1>2. LeastElements /\ NumEvents \in Nat /\ n <= NumEvents
  BY <1>1, Count, NumEventsNat
<1>3. IsList(List') /\ when' \in Ticks
  BY DEF TypeOK, IsList, List, Ticks, Tick
<1>4. Linked' = Walk(List'.head, List'.nextBin, List'.nextInBin)
  BY DEF Linked, Walk, List
<1>5. DOMAIN Linked' = 1..n /\ \A i \in 1..n : Linked'[i].ev = q[i]
  BY <1>2, <1>3, <1>4, WalkFacts
<1>6. ServiceOrder' = Entries(q, n, when')
  BY <1>5 DEF ServiceOrder, Entries
<1> QED
  BY <1>6

(* The same for the events of the service order. *)
LEMMA QueuedEvents ==
  ASSUME TypeOK, NEW n \in Nat, NEW q, Describes(q, n)
  PROVE  \A e \in Events : S!Scheduled(e) <=> scheduled(e)
<1>1. ServiceOrder = Entries(q, n, when)
  BY StateFacts DEF Describes
<1>2. S!EventsOf(ServiceOrder) = {e \in Events : scheduled(e)}
  BY <1>1, EntriesAt DEF Describes, Members
<1> QED
  BY <1>2 DEF S!Scheduled

(* A transformed list is stored in the variables. *)
LEMMA ListSet ==
  ASSUME NEW l, IsList(l), SetList(l)
  PROVE  /\ List' = l
         /\ head' \in Pointer /\ nextBin' \in [Events -> Pointer] /\ nextInBin' \in [Events -> Pointer]
  BY DEF IsList, SetList, List

(* The events of a list after an insertion and a removal. *)
LEMMA InsertedEvents ==
  ASSUME NEW n \in Nat, NEW q \in [1..n -> Events], NEW c \in 1..(n + 1), NEW e \in Events,
         NEW r, Inserted(q, n, c, e, r)
  PROVE  Members(r, n + 1) = Members(q, n) \cup {e}
<1>1. \A i \in 1..(n + 1) : \/ i \in 1..n /\ r[i] = q[i]
                            \/ r[i] = e
                            \/ i - 1 \in 1..n /\ r[i] = q[i - 1]
  <2> SUFFICES ASSUME NEW i \in 1..(n + 1)
               PROVE  \/ i \in 1..n /\ r[i] = q[i]
                      \/ r[i] = e
                      \/ i - 1 \in 1..n /\ r[i] = q[i - 1]
    OBVIOUS
  <2>1. CASE i < c
    BY <2>1 DEF Inserted
  <2>2. CASE i = c
    BY <2>2 DEF Inserted
  <2>3. CASE i > c
    <3>1. i - 1 \in c..n /\ (i - 1) + 1 = i /\ i - 1 \in 1..n
      BY <2>3
    <3> QED
      BY <3>1 DEF Inserted
  <2> QED
    BY <2>1, <2>2, <2>3
<1>2. \A i \in 1..n : \E j \in 1..(n + 1) : r[j] = q[i]
  <2> SUFFICES ASSUME NEW i \in 1..n PROVE \E j \in 1..(n + 1) : r[j] = q[i]
    OBVIOUS
  <2>1. CASE i < c
    <3>1. i \in 1..(c - 1) /\ i \in 1..(n + 1)
      BY <2>1
    <3> QED
      BY <3>1 DEF Inserted
  <2>2. CASE i >= c
    <3>1. i \in c..n /\ i + 1 \in 1..(n + 1)
      BY <2>2
    <3> QED
      BY <3>1 DEF Inserted
  <2> QED
    BY <2>1, <2>2
<1>3. r[c] = e
  BY DEF Inserted
<1> QED
  BY <1>1, <1>2, <1>3 DEF Members

LEMMA RemovedEvents ==
  ASSUME NEW w, NEW q, NEW n, Order(w, q, n), NEW m \in 1..n, NEW r, Removed(q, n, m, r)
  PROVE  Members(r, n - 1) = Members(q, n) \ {q[m]}
<1>1. n \in Nat /\ \A i, j \in 1..n : q[i] = q[j] => i = j
  <2>1. n \in Nat /\ \A i, j \in 1..n : i < j => q[i] # q[j]
    BY DEF Order
  <2> QED
    BY <2>1
<1>2. \A i \in 1..(n - 1) : \E j \in 1..n : r[i] = q[j] /\ j # m
  <2> SUFFICES ASSUME NEW i \in 1..(n - 1) PROVE \E j \in 1..n : r[i] = q[j] /\ j # m
    OBVIOUS
  <2>1. CASE i < m
    <3>1. i \in 1..(m - 1) /\ i \in 1..n /\ i # m
      BY <1>1, <2>1
    <3> QED
      BY <3>1 DEF Removed
  <2>2. CASE i >= m
    <3>1. i \in m..(n - 1) /\ i + 1 \in 1..n /\ i + 1 # m
      BY <1>1, <2>2
    <3> QED
      BY <3>1 DEF Removed
  <2> QED
    BY <1>1, <2>1, <2>2
<1>3. \A j \in 1..n : j # m => \E i \in 1..(n - 1) : r[i] = q[j]
  <2> SUFFICES ASSUME NEW j \in 1..n, j # m PROVE \E i \in 1..(n - 1) : r[i] = q[j]
    OBVIOUS
  <2>1. CASE j < m
    <3>1. j \in 1..(m - 1) /\ j \in 1..(n - 1)
      BY <1>1, <2>1
    <3> QED
      BY <3>1 DEF Removed
  <2>2. CASE j > m
    <3>1. j - 1 \in m..(n - 1) /\ j - 1 \in 1..(n - 1) /\ (j - 1) + 1 = j
      BY <1>1, <2>2
    <3> QED
      BY <3>1 DEF Removed
  <2> QED
    BY <1>1, <2>1, <2>2
<1>4. \A i \in 1..(n - 1) : r[i] \in Members(q, n) \ {q[m]}
  BY <1>1, <1>2 DEF Members
<1> QED
  BY <1>3, <1>4 DEF Members

(* What insert() does to the list l of q, with v for the ticks w after e's is set to t. *)
InsertEffect(l, w, q, n, e, t, v) ==
    /\ IsList(insert(l, v, e)) /\ v \in [Events -> Tick]
    /\ \E r \in [1..(n + 1) -> Events] :
           /\ Chain(insert(l, v, e), v, r, n + 1)
           /\ Members(r, n + 1) = Members(q, n) \cup {e}
           /\ Entries(r, n + 1, v) = S!Insert(Entries(q, n, w), S!EntryOf(e, t))

(* insert() after the tick of e has been set, on a list that does not hold e. *)
LEMMA InsertStep ==
  ASSUME NEW w \in [Events -> Tick], NEW l, IsList(l), NEW q, NEW n, Chain(l, w, q, n),
         NEW e \in Events, NEW t \in Tick, \A i \in 1..n : q[i] # e,
         NEW v, v = [w EXCEPT ![e] = t]
  PROVE  InsertEffect(l, w, q, n, e, t, v)
<1>1. n \in Nat /\ q \in [1..n -> Events] /\ Order(w, q, n)
  BY DEF Chain, Order
<1>2. LeastElements /\ NumEvents \in Nat /\ n <= NumEvents
  BY <1>1, Count, NumEventsNat
<1>3. v \in [Events -> Tick] /\ v \in Ticks /\ w \in Ticks /\ v[e] = t
  BY DEF Tick, Ticks
<1>4. \A i \in 1..n : v[q[i]] = w[q[i]]
  BY <1>1
<1>5. Chain(l, v, q, n)
  <2>1. ASSUME NEW u \in Ticks, \A i \in 1..n : u[q[i]] = w[q[i]] PROVE Chain(l, u, q, n)
    BY <1>3, <2>1, ChainOther
  <2> QED
    BY <1>3, <1>4, <2>1, ZenonT(30)
<1>6. PICK c \in 1..(n + 1) : /\ Place(v, q, n, e, c)
                              /\ IsList(insert(l, v, e))
                              /\ Chain(insert(l, v, e), v, Ins(q, n, c, e), n + 1)
  BY <1>2, <1>3, <1>5, InsertChain
<1> DEFINE r == Ins(q, n, c, e)
<1>7. Inserted(q, n, c, e, r)
  BY <1>1, InsInserted
<1>8. r \in [1..(n + 1) -> Events] /\ Members(r, n + 1) = Members(q, n) \cup {e}
  <2> HIDE DEF r
  <2>1. r \in [1..(n + 1) -> Events]
    BY <1>7 DEF Inserted
  <2>2. Members(r, n + 1) = Members(q, n) \cup {e}
    <3>1. ASSUME NEW z, Inserted(q, n, c, e, z) PROVE Members(z, n + 1) = Members(q, n) \cup {e}
      BY <1>1, <3>1, InsertedEvents
    <3> QED
      BY <1>7, <3>1
  <2> QED
    BY <2>1, <2>2
<1>9. Entries(q, n, w) = Entries(q, n, v)
  BY <1>4 DEF Entries
<1>10. Entries(r, n + 1, v) = S!Insert(Entries(q, n, w), S!EntryOf(e, t))
  <2>1. S!Insert(Entries(q, n, v), S!EntryOf(e, v[e])) = Entries(Ins(q, n, c, e), n + 1, v)
    <3>1. ASSUME NEW u \in Ticks, Place(u, q, n, e, c)
          PROVE  S!Insert(Entries(q, n, u), S!EntryOf(e, u[e])) = Entries(Ins(q, n, c, e), n + 1, u)
      BY <1>1, <3>1, EntriesInsert
    <3> QED
      BY <1>3, <1>6, <3>1, ZenonT(30)
  <2> QED
    BY <1>3, <1>9, <2>1
<1> HIDE DEF r
<1>11. Chain(insert(l, v, e), v, r, n + 1)
  BY <1>6 DEF r
<1> QED
  BY <1>3, <1>6, <1>8, <1>10, <1>11, ZenonT(30) DEF InsertEffect

(* remove() of a scheduled event. *)
LEMMA RemoveStep ==
  ASSUME TypeOK, NEW q, NEW n, Describes(q, n), NEW e \in Events, scheduled(e)
  PROVE  /\ IsList(remove(List, when, e))
         /\ n - 1 \in Nat
         /\ \E r \in [1..(n - 1) -> Events] :
                /\ Chain(remove(List, when, e), when, r, n - 1)
                /\ Members(r, n - 1) = Members(q, n) \ {e}
                /\ Entries(r, n - 1, when) = S!Without(Entries(q, n, when), e)
<1>1. n \in Nat /\ q \in [1..n -> Events] /\ Order(when, q, n) /\ Chain(List, when, q, n)
  BY DEF Describes, Chain, Order
<1>2. LeastElements /\ NumEvents \in Nat /\ n <= NumEvents /\ IsList(List) /\ when \in Ticks
  BY <1>1, StateFacts
<1>3. PICK m \in 1..n : q[m] = e
  BY DEF Describes, Members
<1>4. IsList(remove(List, when, e)) /\ Chain(remove(List, when, e), when, Del(q, n, m), n - 1)
  BY <1>1, <1>2, <1>3, RemoveChain
<1>5. Removed(q, n, m, Del(q, n, m))
  BY <1>1, DelRemoved
<1>6. /\ Del(q, n, m) \in [1..(n - 1) -> Events]
      /\ Members(Del(q, n, m), n - 1) = Members(q, n) \ {e}
  <2>1. Del(q, n, m) \in [1..(n - 1) -> Events]
    BY <1>5 DEF Removed
  <2> QED
    BY <1>1, <1>3, <1>5, <2>1, RemovedEvents
<1>7. Entries(Del(q, n, m), n - 1, when) = S!Without(Entries(q, n, when), e)
  BY <1>1, <1>3, EntriesWithout
<1>8. n - 1 \in Nat
  BY <1>1
<1> QED
  BY <1>4, <1>6, <1>7, <1>8

(* The conjuncts of the invariant in the next state. *)
LEMMA InvNext ==
  ASSUME TypeOK', NEW n \in Nat, NEW q \in [1..n -> Events], Chain(List', when', q, n),
         {e \in Events : scheduled(e)'} = Members(q, n),
         \A e \in Events : scheduled(e)' => e \in alive',
         \A e \in Events : "Squashed" \in flags'[e] => scheduled(e)',
         serving' # NoEvent => serving' \in alive'
  PROVE  ListInv' /\ ServiceOrder' = Entries(q, n, when')
<1>1. Describes(q, n)'
  BY DEF Describes
<1>2. ListInv'
  BY <1>1 DEF ListInv
<1> QED
  BY <1>2, ServiceNext

(* schedule() *)
LEMMA ScheduleStep ==
  ASSUME ListInv, NEW e \in Events, NEW t \in Tick, Schedule(e, t)
  PROVE  ListInv' /\ S!Schedule(e, t)
<1>1. PICK n \in Nat : \E q \in [1..n -> Events] : Describes(q, n)
  BY DEF ListInv
<1>2. PICK q \in [1..n -> Events] : Describes(q, n)
  BY <1>1
<1>3. /\ TypeOK /\ Chain(List, when, q, n) /\ when \in [Events -> Tick]
      /\ flags \in [Events -> SUBSET {"Scheduled", "Squashed"}]
  BY <1>2 DEF ListInv, Describes, TypeOK
<1>4. IsList(List) /\ ServiceOrder = Entries(q, n, when)
  BY <1>3, StateFacts
<1>5. /\ e \in alive /\ t >= curTick /\ ~scheduled(e)
      /\ when' = [when EXCEPT ![e] = t] /\ SetList(insert(List, when', e))
      /\ flags' = [flags EXCEPT ![e] = @ \cup {"Scheduled"}]
      /\ curTick' = curTick /\ alive' = alive /\ serving' = serving
  BY DEF Schedule
<1>6. \A i \in 1..n : q[i] # e
  BY <1>2, <1>5 DEF Describes, Members
<1>7. /\ IsList(insert(List, when', e)) /\ when' \in [Events -> Tick]
      /\ \E r \in [1..(n + 1) -> Events] :
            /\ Chain(insert(List, when', e), when', r, n + 1)
            /\ Members(r, n + 1) = Members(q, n) \cup {e}
            /\ Entries(r, n + 1, when') = S!Insert(Entries(q, n, when), S!EntryOf(e, t))
  <2>1. InsertEffect(List, when, q, n, e, t, when')
    BY <1>3, <1>4, <1>5, <1>6, InsertStep, ZenonT(30)
  <2> QED
    BY <2>1 DEF InsertEffect
<1>8. PICK r \in [1..(n + 1) -> Events] :
            /\ Chain(List', when', r, n + 1)
            /\ Members(r, n + 1) = Members(q, n) \cup {e}
            /\ Entries(r, n + 1, when') = S!Insert(Entries(q, n, when), S!EntryOf(e, t))
  <2>1. List' = insert(List, when', e)
    BY <1>5, <1>7, ListSet
  <2> QED
    BY <1>7, <2>1
<1>9. TypeOK'
  <2>1. head' \in Pointer /\ nextBin' \in [Events -> Pointer] /\ nextInBin' \in [Events -> Pointer]
    BY <1>5, <1>7, ListSet
  <2>2. flags' \in [Events -> SUBSET {"Scheduled", "Squashed"}]
    BY <1>3, <1>5
  <2> QED
    BY <1>3, <1>5, <1>7, <2>1, <2>2 DEF TypeOK
<1>10. \A x \in Events : /\ scheduled(x)' <=> scheduled(x) \/ x = e
                         /\ "Squashed" \in flags'[x] <=> "Squashed" \in flags[x]
  BY <1>3, <1>5 DEF scheduled
<1>11. {x \in Events : scheduled(x)'} = Members(r, n + 1)
  <2>1. {x \in Events : scheduled(x)} = Members(q, n)
    BY <1>2 DEF Describes
  <2>2. {x \in Events : scheduled(x)'} = {x \in Events : scheduled(x)} \cup {e}
    BY <1>10
  <2> QED
    BY <1>8, <2>1, <2>2
<1>12. /\ \A x \in Events : scheduled(x)' => x \in alive'
       /\ \A x \in Events : "Squashed" \in flags'[x] => scheduled(x)'
       /\ serving' # NoEvent => serving' \in alive'
  BY <1>5, <1>10 DEF ListInv
<1>13. ListInv' /\ ServiceOrder' = Entries(r, n + 1, when')
  <2>1. n + 1 \in Nat
    OBVIOUS
  <2> QED
    BY <1>8, <1>9, <1>11, <1>12, <2>1, InvNext
<1>14. ServiceOrder' = S!Insert(ServiceOrder, S!EntryOf(e, t))
  BY <1>4, <1>8, <1>13
<1>15. ~S!Scheduled(e)
  BY <1>2, <1>3, <1>5, QueuedEvents
<1>16. {x \in Events : "Squashed" \in flags'[x]} = {x \in Events : "Squashed" \in flags[x]}
  BY <1>10
<1>17. S!Schedule(e, t)
  BY <1>5, <1>14, <1>15, <1>16 DEF S!Schedule
<1> QED
  BY <1>13, <1>17

(* reschedule() *)
LEMMA RescheduleStep ==
  ASSUME ListInv, NEW e \in Events, NEW t \in Tick, Reschedule(e, t)
  PROVE  ListInv' /\ S!Reschedule(e, t)
<1>1. PICK n \in Nat : \E q \in [1..n -> Events] : Describes(q, n)
  BY DEF ListInv
<1>2. PICK q \in [1..n -> Events] : Describes(q, n)
  BY <1>1
<1>3. /\ TypeOK /\ Chain(List, when, q, n) /\ when \in [Events -> Tick]
      /\ flags \in [Events -> SUBSET {"Scheduled", "Squashed"}]
      /\ {x \in Events : scheduled(x)} = Members(q, n)
  BY <1>2 DEF ListInv, Describes, TypeOK
<1>4. IsList(List) /\ ServiceOrder = Entries(q, n, when)
  BY <1>3, StateFacts
<1> DEFINE l == IF scheduled(e) THEN remove(List, when, e) ELSE List
           d == IF scheduled(e) THEN S!Without(ServiceOrder, e) ELSE ServiceOrder
<1>5. /\ e \in alive /\ t >= curTick
      /\ when' = [when EXCEPT ![e] = t] /\ SetList(insert(l, when', e))
      /\ flags' = [flags EXCEPT ![e] = {"Scheduled"}]
      /\ curTick' = curTick /\ alive' = alive /\ serving' = serving
  BY DEF Reschedule
<1>6. /\ IsList(l)
      /\ \E m \in Nat : \E p \in [1..m -> Events] :
            /\ Chain(l, when, p, m) /\ Members(p, m) = Members(q, n) \ {e}
            /\ Entries(p, m, when) = d
  <2>1. CASE scheduled(e)
    <3>1. /\ IsList(remove(List, when, e)) /\ n - 1 \in Nat
          /\ \E p \in [1..(n - 1) -> Events] :
                /\ Chain(remove(List, when, e), when, p, n - 1)
                /\ Members(p, n - 1) = Members(q, n) \ {e}
                /\ Entries(p, n - 1, when) = S!Without(Entries(q, n, when), e)
      BY <1>2, <1>3, <2>1, RemoveStep, ZenonT(30)
    <3> QED
      BY <1>4, <2>1, <3>1
  <2>2. CASE ~scheduled(e)
    <3>1. Members(q, n) = Members(q, n) \ {e}
      BY <1>3, <2>2
    <3> QED
      BY <1>3, <1>4, <2>2, <3>1
  <2> QED
    BY <2>1, <2>2
<1> HIDE DEF l, d
<1>7. PICK m \in Nat : \E p \in [1..m -> Events] :
            /\ Chain(l, when, p, m) /\ Members(p, m) = Members(q, n) \ {e}
            /\ Entries(p, m, when) = d
  BY <1>6
<1>8. PICK p \in [1..m -> Events] :
            /\ Chain(l, when, p, m) /\ Members(p, m) = Members(q, n) \ {e}
            /\ Entries(p, m, when) = d
  BY <1>7
<1>9. \A i \in 1..m : p[i] # e
  BY <1>8, ZenonT(30) DEF Members
<1>10. /\ IsList(insert(l, when', e)) /\ when' \in [Events -> Tick]
       /\ \E r \in [1..(m + 1) -> Events] :
             /\ Chain(insert(l, when', e), when', r, m + 1)
             /\ Members(r, m + 1) = Members(p, m) \cup {e}
             /\ Entries(r, m + 1, when') = S!Insert(Entries(p, m, when), S!EntryOf(e, t))
  <2>1. InsertEffect(l, when, p, m, e, t, when')
    BY <1>3, <1>5, <1>6, <1>8, <1>9, InsertStep, ZenonT(30)
  <2> QED
    BY <2>1 DEF InsertEffect
<1>11. PICK r \in [1..(m + 1) -> Events] :
             /\ Chain(List', when', r, m + 1)
             /\ Members(r, m + 1) = Members(p, m) \cup {e}
             /\ Entries(r, m + 1, when') = S!Insert(Entries(p, m, when), S!EntryOf(e, t))
  <2>1. List' = insert(l, when', e)
    BY <1>5, <1>10, ListSet
  <2> QED
    BY <1>10, <2>1
<1>12. TypeOK'
  <2>1. head' \in Pointer /\ nextBin' \in [Events -> Pointer] /\ nextInBin' \in [Events -> Pointer]
    BY <1>5, <1>10, ListSet
  <2>2. flags' \in [Events -> SUBSET {"Scheduled", "Squashed"}]
    BY <1>3, <1>5
  <2> QED
    BY <1>3, <1>5, <1>10, <2>1, <2>2 DEF TypeOK
<1>13. \A x \in Events : /\ scheduled(x)' <=> scheduled(x) \/ x = e
                         /\ "Squashed" \in flags'[x] <=> "Squashed" \in flags[x] /\ x # e
  BY <1>3, <1>5 DEF scheduled
<1>14. {x \in Events : scheduled(x)'} = Members(r, m + 1)
  <2>1. {x \in Events : scheduled(x)'} = {x \in Events : scheduled(x)} \cup {e}
    BY <1>13
  <2> QED
    BY <1>3, <1>8, <1>11, <2>1
<1>15. /\ \A x \in Events : scheduled(x)' => x \in alive'
       /\ \A x \in Events : "Squashed" \in flags'[x] => scheduled(x)'
       /\ serving' # NoEvent => serving' \in alive'
  BY <1>5, <1>13 DEF ListInv
<1>16. ListInv' /\ ServiceOrder' = Entries(r, m + 1, when')
  <2>1. m + 1 \in Nat
    OBVIOUS
  <2> QED
    BY <1>11, <1>12, <1>14, <1>15, <2>1, InvNext
<1>17. ServiceOrder' = S!Insert(d, S!EntryOf(e, t))
  BY <1>8, <1>11, <1>16
<1>18. S!Scheduled(e) <=> scheduled(e)
  BY <1>2, <1>3, QueuedEvents
<1>19. {x \in Events : "Squashed" \in flags'[x]} = {x \in Events : "Squashed" \in flags[x]} \ {e}
  BY <1>13
<1>20. S!Reschedule(e, t)
  BY <1>5, <1>17, <1>18, <1>19 DEF S!Reschedule, d
<1> QED
  BY <1>16, <1>20

(* deschedule() *)
LEMMA DescheduleStep ==
  ASSUME ListInv, NEW e \in Events, Deschedule(e)
  PROVE  ListInv' /\ S!Deschedule(e)
<1>1. PICK n \in Nat : \E q \in [1..n -> Events] : Describes(q, n)
  BY DEF ListInv
<1>2. PICK q \in [1..n -> Events] : Describes(q, n)
  BY <1>1
<1>3. /\ TypeOK /\ Chain(List, when, q, n) /\ when \in [Events -> Tick]
      /\ flags \in [Events -> SUBSET {"Scheduled", "Squashed"}]
      /\ {x \in Events : scheduled(x)} = Members(q, n)
  BY <1>2 DEF ListInv, Describes, TypeOK
<1>4. ServiceOrder = Entries(q, n, when)
  BY <1>3, StateFacts
<1>5. /\ scheduled(e) /\ (e \notin Managed \/ e # serving)
      /\ SetList(remove(List, when, e))
      /\ flags' = [flags EXCEPT ![e] = {}]
      /\ alive' = IF e \in Managed THEN alive \ {e} ELSE alive
      /\ when' = when /\ curTick' = curTick /\ serving' = serving
  BY DEF Deschedule, release
<1>6. /\ IsList(remove(List, when, e)) /\ n - 1 \in Nat
      /\ \E r \in [1..(n - 1) -> Events] :
            /\ Chain(remove(List, when, e), when, r, n - 1)
            /\ Members(r, n - 1) = Members(q, n) \ {e}
            /\ Entries(r, n - 1, when) = S!Without(Entries(q, n, when), e)
  BY <1>2, <1>3, <1>5, RemoveStep, ZenonT(30)
<1>7. PICK r \in [1..(n - 1) -> Events] :
            /\ Chain(remove(List, when, e), when, r, n - 1)
            /\ Members(r, n - 1) = Members(q, n) \ {e}
            /\ Entries(r, n - 1, when) = S!Without(Entries(q, n, when), e)
  BY <1>6
<1>8. /\ List' = remove(List, when, e)
      /\ head' \in Pointer /\ nextBin' \in [Events -> Pointer] /\ nextInBin' \in [Events -> Pointer]
  BY <1>5, <1>6, ListSet
<1>9. TypeOK'
  BY <1>3, <1>5, <1>8, ZenonT(30) DEF TypeOK
<1>10. \A x \in Events : /\ scheduled(x)' <=> scheduled(x) /\ x # e
                         /\ "Squashed" \in flags'[x] <=> "Squashed" \in flags[x] /\ x # e
  BY <1>3, <1>5 DEF scheduled
<1>11. {x \in Events : scheduled(x)'} = Members(r, n - 1)
  <2>1. {x \in Events : scheduled(x)'} = {x \in Events : scheduled(x)} \ {e}
    BY <1>10
  <2> QED
    BY <1>3, <1>7, <2>1
<1>12. /\ \A x \in Events : scheduled(x)' => x \in alive'
       /\ \A x \in Events : "Squashed" \in flags'[x] => scheduled(x)'
       /\ serving' # NoEvent => serving' \in alive'
  BY <1>5, <1>10 DEF ListInv
<1>13. ListInv' /\ ServiceOrder' = Entries(r, n - 1, when')
  <2>1. Chain(List', when', r, n - 1)
    BY <1>5, <1>7, <1>8
  <2> QED
    BY <1>6, <1>7, <1>9, <1>11, <1>12, <2>1, InvNext
<1>14. ServiceOrder' = S!Without(ServiceOrder, e)
  BY <1>4, <1>5, <1>7, <1>13
<1>15. S!Scheduled(e)
  BY <1>2, <1>3, <1>5, QueuedEvents
<1>16. {x \in Events : "Squashed" \in flags'[x]} = {x \in Events : "Squashed" \in flags[x]} \ {e}
  BY <1>10
<1>17. e \notin S!EventsOf(ServiceOrder')
  <2>1. S!EventsOf(ServiceOrder') = Members(r, n - 1)
    BY <1>6, <1>13, EntriesEvents
  <2> QED
    BY <1>7, <2>1
<1>18. S!Release(e, ServiceOrder')
  BY <1>5, <1>17 DEF S!Release
<1>19. S!Deschedule(e)
  BY <1>5, <1>14, <1>15, <1>16, <1>18 DEF S!Deschedule
<1> QED
  BY <1>13, <1>19

(* A step that leaves the list and the ticks and flags of scheduled events alone. *)
LEMMA QuietStep ==
  ASSUME TypeOK', NEW n \in Nat, NEW q \in [1..n -> Events], Describes(q, n), TypeOK,
         UNCHANGED <<links, when>>, \A x \in Events : scheduled(x)' <=> scheduled(x),
         \A x \in Events : scheduled(x)' => x \in alive',
         \A x \in Events : "Squashed" \in flags'[x] => scheduled(x)',
         serving' # NoEvent => serving' \in alive'
  PROVE  ListInv' /\ ServiceOrder' = ServiceOrder
<1>1. Chain(List, when, q, n) /\ {x \in Events : scheduled(x)} = Members(q, n)
  BY DEF Describes
<1>2. Chain(List', when', q, n)
  BY <1>1 DEF List, links
<1>3. {x \in Events : scheduled(x)'} = Members(q, n)
  BY <1>1
<1>4. ListInv' /\ ServiceOrder' = Entries(q, n, when')
  BY <1>2, <1>3, InvNext
<1>5. ServiceOrder = Entries(q, n, when)
  BY <1>1, StateFacts
<1> QED
  BY <1>4, <1>5

(* A managed event is allocated. *)
LEMMA NewStep ==
  ASSUME ListInv, NEW e \in Events, New(e)
  PROVE  ListInv' /\ S!New(e)
<1>1. PICK n \in Nat : \E q \in [1..n -> Events] : Describes(q, n)
  BY DEF ListInv
<1>2. PICK q \in [1..n -> Events] : Describes(q, n)
  BY <1>1
<1>3. /\ TypeOK /\ Chain(List, when, q, n) /\ when \in [Events -> Tick] /\ when \in Ticks
      /\ nextBin \in [Events -> Pointer] /\ nextInBin \in [Events -> Pointer]
      /\ flags \in [Events -> SUBSET {"Scheduled", "Squashed"}]
      /\ {x \in Events : scheduled(x)} = Members(q, n)
  BY <1>2 DEF ListInv, Describes, TypeOK, Ticks, Tick
<1>4. ServiceOrder = Entries(q, n, when)
  BY <1>3, StateFacts
<1>5. /\ e \notin alive /\ alive' = alive \cup {e}
      /\ nextBin' = [nextBin EXCEPT ![e] = NoEvent] /\ nextInBin' = [nextInBin EXCEPT ![e] = NoEvent]
      /\ when' = [when EXCEPT ![e] = 0] /\ flags' = [flags EXCEPT ![e] = {}]
      /\ head' = head /\ curTick' = curTick /\ serving' = serving
  BY DEF New
<1>6. TypeOK'
  <2>1. NoEvent \in Pointer /\ 0 \in Tick
    BY BinsAssumption, QueueAssumption DEF Pointer, Tick
  <2> QED
    BY <1>3, <1>5, <2>1 DEF TypeOK
<1>7. ~scheduled(e) /\ "Squashed" \notin flags[e]
  BY <1>5 DEF ListInv
<1>8. \A i \in 1..n : q[i] \in Events /\ q[i] # e
  BY <1>3, <1>7 DEF Members
<1>9. Chain(List', when', q, n)
  <2>1. when' \in Ticks
    BY <1>6 DEF TypeOK, Ticks, Tick
  <2>2. \A i \in 1..n : /\ List'.nextBin[q[i]] = List.nextBin[q[i]]
                        /\ List'.nextInBin[q[i]] = List.nextInBin[q[i]]
                        /\ when'[q[i]] = when[q[i]]
    BY <1>3, <1>5, <1>8 DEF List
  <2>3. List'.head = List.head
    BY <1>5 DEF List
  <2> HIDE DEF List
  <2>4. when \in Ticks /\ Chain(List, when, q, n)
    BY <1>3
  <2>5. ASSUME NEW k, k.head = List.head, NEW v \in Ticks,
               \A i \in 1..n : /\ k.nextBin[q[i]] = List.nextBin[q[i]]
                               /\ k.nextInBin[q[i]] = List.nextInBin[q[i]]
                               /\ v[q[i]] = when[q[i]]
        PROVE  Chain(k, v, q, n)
    BY <2>4, <2>5, ChainOther
  <2> QED
    BY <2>1, <2>2, <2>3, <2>5, ZenonT(30)
<1>10. \A x \in Events : /\ scheduled(x)' <=> scheduled(x)
                         /\ "Squashed" \in flags'[x] <=> "Squashed" \in flags[x]
  BY <1>3, <1>5, <1>7 DEF scheduled
<1>11. {x \in Events : scheduled(x)'} = Members(q, n)
  BY <1>3, <1>10
<1>12. /\ \A x \in Events : scheduled(x)' => x \in alive'
       /\ \A x \in Events : "Squashed" \in flags'[x] => scheduled(x)'
       /\ serving' # NoEvent => serving' \in alive'
  BY <1>5, <1>10 DEF ListInv
<1>13. ListInv' /\ ServiceOrder' = Entries(q, n, when')
  BY <1>6, <1>9, <1>11, <1>12, InvNext
<1>14. Entries(q, n, when') = Entries(q, n, when)
  BY <1>3, <1>5, <1>8 DEF Entries
<1>15. {x \in Events : "Squashed" \in flags'[x]} = {x \in Events : "Squashed" \in flags[x]}
  BY <1>10
<1>16. S!New(e)
  BY <1>4, <1>5, <1>13, <1>14, <1>15 DEF S!New
<1> QED
  BY <1>13, <1>16

(* Event::squash *)
LEMMA SquashStep ==
  ASSUME ListInv, NEW e \in Events, Squash(e)
  PROVE  ListInv' /\ S!Squash(e)
<1>1. PICK n \in Nat : \E q \in [1..n -> Events] : Describes(q, n)
  BY DEF ListInv
<1>2. PICK q \in [1..n -> Events] : Describes(q, n)
  BY <1>1
<1>3. TypeOK /\ flags \in [Events -> SUBSET {"Scheduled", "Squashed"}]
  BY DEF ListInv, TypeOK
<1>4. /\ scheduled(e) /\ flags' = [flags EXCEPT ![e] = @ \cup {"Squashed"}]
      /\ UNCHANGED <<links, when, curTick, alive, serving>>
  BY DEF Squash
<1>5. TypeOK'
  BY <1>3, <1>4 DEF TypeOK, links
<1>6. \A x \in Events : /\ scheduled(x)' <=> scheduled(x)
                        /\ "Squashed" \in flags'[x] <=> "Squashed" \in flags[x] \/ x = e
  BY <1>3, <1>4 DEF scheduled
<1>7. /\ \A x \in Events : scheduled(x)' => x \in alive'
      /\ \A x \in Events : "Squashed" \in flags'[x] => scheduled(x)'
      /\ serving' # NoEvent => serving' \in alive'
  BY <1>4, <1>6 DEF ListInv
<1>8. ListInv' /\ ServiceOrder' = ServiceOrder
  BY <1>2, <1>3, <1>4, <1>5, <1>6, <1>7, QuietStep
<1>9. S!Scheduled(e)
  BY <1>2, <1>3, <1>4, QueuedEvents
<1>10. {x \in Events : "Squashed" \in flags'[x]} = {x \in Events : "Squashed" \in flags[x]} \cup {e}
  BY <1>6
<1>11. S!Squash(e)
  BY <1>4, <1>8, <1>9, <1>10 DEF S!Squash
<1> QED
  BY <1>8, <1>11

(* The handler of the event in service returns. *)
LEMMA ProcessDoneStep ==
  ASSUME ListInv, ProcessDone
  PROVE  ListInv' /\ S!ProcessDone
<1>1. PICK n \in Nat : \E q \in [1..n -> Events] : Describes(q, n)
  BY DEF ListInv
<1>2. PICK q \in [1..n -> Events] : Describes(q, n)
  BY <1>1
<1>3. TypeOK /\ serving \in Events /\ alive \subseteq Events
  BY DEF ListInv, TypeOK, ProcessDone, Pointer
<1>4. /\ serving # NoEvent /\ serving' = NoEvent
      /\ alive' = IF serving \notin ExitEvents /\ serving \in Managed /\ ~scheduled(serving)
                  THEN alive \ {serving} ELSE alive
      /\ UNCHANGED <<links, when, flags, curTick>>
  BY DEF ProcessDone, release, scheduled
<1>5. TypeOK'
  BY <1>3, <1>4 DEF TypeOK, links, Pointer
<1>6. \A x \in Events : /\ scheduled(x)' <=> scheduled(x)
                        /\ "Squashed" \in flags'[x] <=> "Squashed" \in flags[x]
  BY <1>4 DEF scheduled
<1>7. /\ \A x \in Events : scheduled(x)' => x \in alive'
      /\ \A x \in Events : "Squashed" \in flags'[x] => scheduled(x)'
      /\ serving' # NoEvent => serving' \in alive'
  BY <1>4, <1>6 DEF ListInv
<1>8. ListInv' /\ ServiceOrder' = ServiceOrder
  BY <1>2, <1>3, <1>4, <1>5, <1>6, <1>7, QuietStep
<1>9. serving \in S!EventsOf(ServiceOrder) <=> scheduled(serving)
  BY <1>2, <1>3, QueuedEvents DEF S!Scheduled
<1>10. S!ProcessDone
  BY <1>4, <1>8, <1>9 DEF S!ProcessDone, S!Release
<1> QED
  BY <1>8, <1>10

(* serviceOne() takes the first event off, to run its handler or to drop it. *)
LEMMA ServiceOneStep ==
  ASSUME ListInv, ServiceOne
  PROVE  ListInv' /\ (S!ServiceOne \/ S!SkipSquashed)
<1>1. PICK n \in Nat : \E q \in [1..n -> Events] : Describes(q, n)
  BY DEF ListInv
<1>2. PICK q \in [1..n -> Events] : Describes(q, n)
  BY <1>1
<1>3. /\ TypeOK /\ Chain(List, when, q, n) /\ Order(when, q, n)
      /\ when \in [Events -> Tick] /\ flags \in [Events -> SUBSET {"Scheduled", "Squashed"}]
      /\ {x \in Events : scheduled(x)} = Members(q, n)
  BY <1>2 DEF ListInv, Describes, TypeOK, Chain
<1>4. /\ ServiceOrder = Entries(q, n, when) /\ LeastElements /\ NumEvents \in Nat /\ n <= NumEvents
      /\ IsList(List) /\ when \in Ticks
  BY <1>3, StateFacts
<1>5. /\ serving = NoEvent /\ head # NoEvent /\ SetList(Pop(List))
      /\ flags' = [flags EXCEPT ![head] = {}] /\ when' = when
      /\ "Squashed" \notin flags[head] => curTick' = when[head] /\ serving' = head /\ alive' = alive
      /\ "Squashed" \in flags[head] =>
            /\ alive' = IF head \in Managed THEN alive \ {head} ELSE alive
            /\ curTick' = curTick /\ serving' = serving
  BY DEF ServiceOne, release
<1>6. n >= 1 /\ 1 \in 1..n /\ head = q[1] /\ head \in Events
  <2>1. head = At(q, n, 1)
    BY <1>3 DEF Chain, List
  <2> QED
    BY <1>5, <2>1 DEF At
<1> DEFINE r == Del(q, n, 1)
<1>7. IsList(Pop(List)) /\ Chain(Pop(List), when, r, n - 1)
  BY <1>3, <1>4, <1>6, PopChain
<1>8. /\ List' = Pop(List)
      /\ head' \in Pointer /\ nextBin' \in [Events -> Pointer] /\ nextInBin' \in [Events -> Pointer]
  BY <1>5, <1>7, ListSet
<1>9. Removed(q, n, 1, r)
  BY <1>6, DelRemoved
<1>10. r \in [1..(n - 1) -> Events] /\ n - 1 \in Nat
  BY <1>6, <1>9 DEF Removed
<1> HIDE DEF r
<1>11. Members(r, n - 1) = Members(q, n) \ {head}
  BY <1>3, <1>6, <1>9, RemovedEvents
<1>12. head \in alive /\ scheduled(head)
  <2>1. head \in Members(q, n)
    BY <1>6 DEF Members
  <2> QED
    BY <1>3, <2>1 DEF ListInv
<1>13. TypeOK'
  <2>1. flags' \in [Events -> SUBSET {"Scheduled", "Squashed"}]
    BY <1>3, <1>5, ZenonT(30)
  <2>2. when[head] \in Tick /\ curTick \in Tick /\ alive \subseteq Events /\ head \in Pointer
    BY <1>3, <1>6 DEF TypeOK
  <2>3. CASE "Squashed" \in flags[head]
    BY <1>3, <1>5, <1>8, <2>1, <2>2, <2>3 DEF TypeOK
  <2>4. CASE "Squashed" \notin flags[head]
    BY <1>3, <1>5, <1>8, <2>1, <2>2, <2>4 DEF TypeOK
  <2> QED
    BY <2>3, <2>4
<1>14. \A x \in Events : /\ scheduled(x)' <=> scheduled(x) /\ x # head
                         /\ "Squashed" \in flags'[x] <=> "Squashed" \in flags[x] /\ x # head
  BY <1>3, <1>5, <1>6 DEF scheduled
<1>15. {x \in Events : scheduled(x)'} = Members(r, n - 1)
  <2>1. {x \in Events : scheduled(x)'} = {x \in Events : scheduled(x)} \ {head}
    BY <1>14
  <2> QED
    BY <1>3, <1>11, <2>1
<1>16. /\ \A x \in Events : scheduled(x)' => x \in alive'
       /\ \A x \in Events : "Squashed" \in flags'[x] => scheduled(x)'
       /\ serving' # NoEvent => serving' \in alive'
  <2>1. CASE "Squashed" \in flags[head]
    BY <1>5, <1>14, <2>1 DEF ListInv
  <2>2. CASE "Squashed" \notin flags[head]
    BY <1>5, <1>12, <1>14, <2>2 DEF ListInv
  <2> QED
    BY <2>1, <2>2
<1>17. ListInv' /\ ServiceOrder' = Entries(r, n - 1, when')
  <2>1. Chain(List', when', r, n - 1)
    BY <1>5, <1>7, <1>8
  <2> QED
    BY <1>10, <1>13, <1>15, <1>16, <2>1, InvNext
<1>18. /\ ServiceOrder # <<>> /\ ServiceOrder' = Tail(ServiceOrder)
       /\ Head(ServiceOrder).ev = head /\ Head(ServiceOrder).when = when[head]
  <2>1. /\ Entries(q, n, when) # <<>>
        /\ Head(Entries(q, n, when)) = [ev |-> q[1], when |-> when[q[1]], pri |-> Priority[q[1]]]
        /\ Tail(Entries(q, n, when)) = Entries(r, n - 1, when)
    BY <1>4, <1>6, EntriesTail, ZenonT(30) DEF r
  <2> QED
    BY <1>4, <1>5, <1>6, <1>17, <2>1
<1>19. CASE "Squashed" \notin flags[head]
  <2>1. head \notin {x \in Events : "Squashed" \in flags[x]}
    BY <1>19
  <2>2. {x \in Events : "Squashed" \in flags'[x]} = {x \in Events : "Squashed" \in flags[x]}
    BY <1>14, <1>19
  <2>3. S!ServiceOne
    BY <1>5, <1>18, <1>19, <2>1, <2>2 DEF S!ServiceOne
  <2> QED
    BY <1>17, <2>3
<1>20. CASE "Squashed" \in flags[head]
  <2>1. head \in {x \in Events : "Squashed" \in flags[x]}
    BY <1>6, <1>20
  <2>2. {x \in Events : "Squashed" \in flags'[x]} = {x \in Events : "Squashed" \in flags[x]} \ {head}
    BY <1>14
  <2>3. head \notin S!EventsOf(ServiceOrder')
    <3>1. S!EventsOf(ServiceOrder') = Members(r, n - 1)
      BY <1>10, <1>17, EntriesEvents
    <3> QED
      BY <1>11, <3>1
  <2>4. S!Release(head, ServiceOrder')
    BY <1>5, <1>20, <2>3 DEF S!Release
  <2>5. S!SkipSquashed
    BY <1>5, <1>18, <1>20, <2>1, <2>2, <2>4 DEF S!SkipSquashed
  <2> QED
    BY <1>17, <2>5
<1> QED
  BY <1>19, <1>20

(* serviceEvents() leaves its loop. *)
LEMMA AdvanceToStep ==
  ASSUME ListInv, NEW t \in Tick, AdvanceTo(t)
  PROVE  ListInv' /\ S!AdvanceTo(t)
<1>1. PICK n \in Nat : \E q \in [1..n -> Events] : Describes(q, n)
  BY DEF ListInv
<1>2. PICK q \in [1..n -> Events] : Describes(q, n)
  BY <1>1
<1>3. TypeOK /\ Chain(List, when, q, n)
  BY <1>2 DEF ListInv, Describes
<1>4. ServiceOrder = Entries(q, n, when) /\ when \in Ticks
  BY <1>3, StateFacts
<1>5. /\ serving = NoEvent /\ t >= curTick /\ (head # NoEvent => when[head] > t)
      /\ curTick' = t /\ UNCHANGED <<links, when, flags, alive, serving>>
  BY DEF AdvanceTo
<1>6. TypeOK'
  BY <1>3, <1>5 DEF TypeOK, links
<1>7. \A x \in Events : /\ scheduled(x)' <=> scheduled(x)
                        /\ "Squashed" \in flags'[x] <=> "Squashed" \in flags[x]
  BY <1>5 DEF scheduled
<1>8. /\ \A x \in Events : scheduled(x)' => x \in alive'
      /\ \A x \in Events : "Squashed" \in flags'[x] => scheduled(x)'
      /\ serving' # NoEvent => serving' \in alive'
  BY <1>5, <1>7 DEF ListInv
<1>9. ListInv' /\ ServiceOrder' = ServiceOrder
  BY <1>2, <1>3, <1>5, <1>6, <1>7, <1>8, QuietStep
<1>10. ServiceOrder # <<>> => Head(ServiceOrder).when > t
  <2>1. CASE n = 0
    <3>1. ServiceOrder = <<>>
      BY <1>4, <2>1 DEF Entries
    <3> QED
      BY <3>1
  <2>2. CASE n # 0
    <3>1. n >= 1 /\ head = q[1] /\ q[1] \in Events
      <4>1. head = At(q, n, 1)
        BY <1>3 DEF Chain, List
      <4> QED
        BY <2>2, <4>1 DEF At
    <3>2. Head(ServiceOrder) = [ev |-> q[1], when |-> when[q[1]], pri |-> Priority[q[1]]]
      BY <1>4, <3>1, EntriesTail
    <3>3. head # NoEvent
      BY <3>1, BinsAssumption, QueueAssumption
    <3> QED
      BY <1>5, <3>1, <3>2, <3>3
  <2> QED
    BY <2>1, <2>2
<1>11. S!AdvanceTo(t)
  BY <1>5, <1>9, <1>10 DEF S!AdvanceTo
<1> QED
  BY <1>9, <1>11

(* The empty list. *)
LEMMA InitStep ==
  ASSUME Init PROVE ListInv /\ S!Init
<1> DEFINE q == [i \in 1..0 |-> NoEvent]
<1>1. TypeOK
  BY BinsAssumption, QueueAssumption DEF Init, TypeOK, Pointer, Tick
<1>2. q \in [1..0 -> Events]
  OBVIOUS
<1>3. \A i \in 1..0 : FALSE
  OBVIOUS
<1> HIDE DEF q
<1>4. Chain(List, when, q, 0)
  <2>1. Order(when, q, 0)
    BY <1>2, <1>3 DEF Order
  <2>2. Stacks(List, when, q, 0)
    BY <1>3 DEF Stacks
  <2>3. List.head = At(q, 0, 1)
    BY DEF List, At, Init
  <2> QED
    BY <1>3, <2>1, <2>2, <2>3 DEF Chain
<1>5. Members(q, 0) = {}
  BY <1>3 DEF Members
<1>6. \A e \in Events : flags[e] = {}
  BY DEF Init
<1>7. {e \in Events : scheduled(e)} = {}
  BY <1>6 DEF scheduled
<1>8. Describes(q, 0)
  BY <1>4, <1>5, <1>7 DEF Describes
<1>9. serving = NoEvent
  BY DEF Init
<1>10. \E n \in Nat : \E p \in [1..n -> Events] : Describes(p, n)
  BY <1>2, <1>8, ZenonT(30)
<1>11. ListInv
  BY <1>1, <1>6, <1>9, <1>10 DEF ListInv, scheduled
<1>12. ServiceOrder = <<>>
  <2>1. ServiceOrder = Entries(q, 0, when)
    BY <1>1, <1>4, StateFacts
  <2> QED
    BY <2>1 DEF Entries
<1>13. {e \in Events : "Squashed" \in flags[e]} = {}
  BY <1>6
<1>14. S!Init
  BY <1>12, <1>13 DEF Init, S!Init
<1> QED
  BY <1>11, <1>14

(* Every step of the list preserves the invariant and is a step of the sorted queue. *)
LEMMA NextStep ==
  ASSUME ListInv, [Next]_vars
  PROVE  ListInv' /\ [S!Next]_(S!vars)
<1>1. ASSUME NEW e \in Events, New(e) PROVE ListInv' /\ S!Next
  BY <1>1, NewStep DEF S!Next
<1>2. ASSUME NEW e \in Events, Deschedule(e) PROVE ListInv' /\ S!Next
  BY <1>2, DescheduleStep DEF S!Next
<1>3. ASSUME NEW e \in Events, Squash(e) PROVE ListInv' /\ S!Next
  BY <1>3, SquashStep DEF S!Next
<1>4. ASSUME NEW e \in Events, NEW t \in Tick, Schedule(e, t) PROVE ListInv' /\ S!Next
  BY <1>4, ScheduleStep DEF S!Next, S!Tick, Tick
<1>5. ASSUME NEW e \in Events, NEW t \in Tick, Reschedule(e, t) PROVE ListInv' /\ S!Next
  BY <1>5, RescheduleStep DEF S!Next, S!Tick, Tick
<1>6. CASE ServiceOne
  BY <1>6, ServiceOneStep DEF S!Next
<1>7. CASE ProcessDone
  BY <1>7, ProcessDoneStep DEF S!Next
<1>8. ASSUME NEW t \in Tick, AdvanceTo(t) PROVE ListInv' /\ S!Next
  BY <1>8, AdvanceToStep DEF S!Next, S!Tick, Tick
<1>9. CASE UNCHANGED vars
  <2>1. UNCHANGED <<head, nextBin, nextInBin, when, flags, curTick, alive, serving>>
    BY <1>9 DEF vars, links
  <2>2. ListInv'
    BY <2>1 DEF ListInv, TypeOK, Describes, List, scheduled
  <2>3. ServiceOrder' = ServiceOrder
    BY <2>1, ZenonT(30) DEF ServiceOrder, Linked
  <2>4. UNCHANGED S!vars
    BY <2>1, <2>3 DEF S!vars
  <2> QED
    BY <2>2, <2>4
<1> QED
  BY <1>1, <1>2, <1>3, <1>4, <1>5, <1>6, <1>7, <1>8, <1>9 DEF Next

-----------------------------------------------------------------------------
(* The invariant holds in every reachable state. *)
THEOREM ListInvariant == Spec => []ListInv
<1>1. Init => ListInv
  BY InitStep
<1>2. ListInv /\ [Next]_vars => ListInv'
  BY NextStep
<1> QED
  BY <1>1, <1>2, PTL DEF Spec

(***************************************************************************)
(* EventQueue::debugVerify never fails, whatever the calls and their       *)
(* order: the events of a stack have the key of their bin, the keys of the *)
(* bins increase strictly and no event is linked twice.                    *)
(***************************************************************************)
THEOREM ListVerified == Spec => []debugVerify
<1>1. ListInv => debugVerify
  <2> SUFFICES ASSUME ListInv PROVE debugVerify
    OBVIOUS
  <2>1. PICK n \in Nat : \E q \in [1..n -> Events] : Describes(q, n)
    BY DEF ListInv
  <2>2. PICK q \in [1..n -> Events] : Describes(q, n)
    BY <2>1
  <2>3. TypeOK /\ Chain(List, when, q, n) /\ Order(when, q, n)
    BY <2>2, ZenonT(30) DEF ListInv, Describes, Chain
  <2>4. /\ when \in Ticks /\ DOMAIN Linked = 1..n
        /\ \A i \in 1..n : Linked[i].ev = q[i] /\ BinTop(when, q, i, Linked[i].bin)
    BY <2>3, StateFacts, ZenonT(30)
  <2>5. ASSUME NEW i \in 1..n PROVE Same(when, Linked[i].ev, Linked[i].bin)
    <3>1. PICK t \in 1..i : Linked[i].bin = q[t] /\ \A j \in t..i : Same(when, q[t], q[j])
      BY <2>4, ZenonT(30) DEF BinTop
    <3>2. i \in t..i /\ t \in 1..n
      OBVIOUS
    <3> QED
      BY <2>4, <3>1, <3>2, KeyOrder
  <2>6. ASSUME NEW i \in 1..n, NEW j \in 1..n, i < j
        PROVE  /\ Linked[i].ev # Linked[j].ev
               /\ Linked[i].bin # Linked[j].bin => Less(when, Linked[i].bin, Linked[j].bin)
    <3>1. Linked[i].ev # Linked[j].ev
      BY <2>3, <2>4, <2>6 DEF Order
    <3>2. BinTop(when, q, i, Linked[i].bin) /\ BinTop(when, q, j, Linked[j].bin)
      BY <2>4
    <3>3. Linked[i].bin # Linked[j].bin => Less(when, Linked[i].bin, Linked[j].bin)
      BY <2>3, <2>4, <2>6, <3>2, BinsIncrease
    <3> QED
      BY <3>1, <3>3
  <2> QED
    BY <2>4, <2>5, <2>6 DEF debugVerify
<1> QED
  BY <1>1, ListInvariant, PTL

(* The events a walk of the list finds are the ones with the Scheduled flag. *)
LEMMA LinkedScheduled ==
  ASSUME ListInv PROVE {e \in Events : scheduled(e)} = LinkedEvents
<1>1. PICK n \in Nat : \E q \in [1..n -> Events] : Describes(q, n)
  BY DEF ListInv
<1>2. PICK q \in [1..n -> Events] : Describes(q, n)
  BY <1>1
<1>3. TypeOK /\ Chain(List, when, q, n) /\ {e \in Events : scheduled(e)} = Members(q, n)
  BY <1>2 DEF ListInv, Describes
<1>4. DOMAIN Linked = 1..n /\ \A i \in 1..n : Linked[i].ev = q[i]
  BY <1>3, StateFacts
<1> QED
  BY <1>3, <1>4 DEF LinkedEvents, Members

(***************************************************************************)
(* The Scheduled flag tells the truth, so deschedule() and reschedule()    *)
(* never panic with "event not found!".                                    *)
(***************************************************************************)
THEOREM FlagsCorrect == Spec => []ScheduledIffLinked
<1>1. ListInv => ScheduledIffLinked
  BY LinkedScheduled DEF ListInv, ScheduledIffLinked
<1> QED
  BY <1>1, ListInvariant, PTL

(* No list walk, and no return from a handler, meets a deleted event. *)
THEOREM WalksCorrect == Spec => []WalksStayAlive
<1>1. ListInv => WalksStayAlive
  BY LinkedScheduled DEF ListInv, WalksStayAlive
<1> QED
  BY <1>1, ListInvariant, PTL

(***************************************************************************)
(* The linked list of eventq.cc implements the sorted queue: insert(),     *)
(* remove() and the pop of serviceOne() have the effect on the service     *)
(* order that EventQueueSpec gives them, whatever the stale nextBin        *)
(* pointers inside the stacks hold.                                        *)
(***************************************************************************)
THEOREM Refinement == Spec => ImplementsQueue
<1>1. Init => S!Init
  BY InitStep
<1>2. ListInv /\ [Next]_vars => [S!Next]_(S!vars)
  BY NextStep
<1> QED
  BY <1>1, <1>2, ListInvariant, PTL DEF Spec, ImplementsQueue, S!Spec

=============================================================================
