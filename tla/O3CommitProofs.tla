-------------------------- MODULE O3CommitProofs --------------------------
(***************************************************************************)
(* The rest of the proof that O3SquashProofs begins: the steps of commit   *)
(* that take instructions into the ROB and retire them, the end of the     *)
(* cycle, and the theorems.                                                *)
(***************************************************************************)
EXTENDS O3SquashProofs

(* What the provers may take for a step that names none, in seconds. *)
USE SMTT(30), ZenonT(30), Z3T(30)

(* What Commit::getInsts puts in the ROB: the unmarked instructions, all   *)
(* of them and nothing else, in the order they had.                        *)
LEMMA UnsquashedFacts ==
    ASSUME LeastElements, NEW q \in Seq(Sent)
    PROVE  /\ Unsquashed(q) \in Seq(Sent)
           /\ \A i \in DOMAIN Unsquashed(q) :
                 \E j \in DOMAIN q : Unsquashed(q)[i] = q[j] /\ ~q[j].squashed
           /\ \A j \in DOMAIN q : ~q[j].squashed =>
                 \E i \in DOMAIN Unsquashed(q) : Unsquashed(q)[i] = q[j]
           /\ Sorted(q) => Sorted(Unsquashed(q))
<1> DEFINE Step(f, n) == f[n] = IF n = 0 THEN <<>>
                                ELSE IF q[n].squashed THEN f[n - 1]
                                ELSE Append(f[n - 1], q[n])
           Is(f, n) == f = [m \in 0..n |-> f[m]] /\ \A m \in 0..n : Step(f, m)
           first == CHOOSE f : f = [n \in 0..Len(q) |->
                       IF n = 0 THEN <<>>
                       ELSE IF q[n].squashed THEN f[n - 1] ELSE Append(f[n - 1], q[n])]
           Bad == {n \in Nat : ~\E f : Is(f, n)}
<1>1. Bad = {}
  <2> SUFFICES ASSUME Bad # {} PROVE FALSE
    OBVIOUS
  <2>1. PICK n \in Bad : \A m \in Bad : n <= m
    <3>1. Bad \in SUBSET Nat
      OBVIOUS
    <3> HIDE DEF Bad
    <3> QED
      BY <3>1 DEF LeastElements
  <2>2. CASE n = 0
    <3>1. Is([m \in 0..0 |-> <<>>], 0)
      OBVIOUS
    <3> QED
      BY <2>2, <3>1, ZenonT(30)
  <2>3. CASE n # 0
    <3>1. n \in Nat /\ n - 1 \in Nat /\ n - 1 \notin Bad
      <4>1. n \in Nat
        BY <2>1
      <4>2. n - 1 \in Nat /\ ~(n <= n - 1)
        BY <2>3, <4>1
      <4> HIDE DEF Bad
      <4>3. n - 1 \notin Bad
        BY <2>1, <4>2, ZenonT(30)
      <4> QED
        BY <4>1, <4>2, <4>3
    <3>2. PICK f : Is(f, n - 1)
      BY <3>1
    <3> DEFINE last == IF q[n].squashed THEN f[n - 1] ELSE Append(f[n - 1], q[n])
               g == [m \in 0..n |-> IF m = n THEN last ELSE f[m]]
    <3>3. Is(g, n)
      <4>1. g = [m \in 0..n |-> g[m]]
        OBVIOUS
      <4>2. \A m \in 0..(n - 1) : g[m] = f[m]
        BY <3>1
      <4>3. g[n] = last
        BY <3>1
      <4> HIDE DEF g
      <4>4. ASSUME NEW m \in 0..n PROVE Step(g, m)
        <5>1. CASE m = n
          <6>1. g[n - 1] = f[n - 1]
            BY <3>1, <4>2
          <6> QED
            BY <2>3, <4>3, <5>1, <6>1
        <5>2. CASE m # n
          <6>1. m \in 0..(n - 1) /\ (m # 0 => m - 1 \in 0..(n - 1))
            BY <3>1, <5>2
          <6>2. g[m] = f[m] /\ (m # 0 => g[m - 1] = f[m - 1])
            BY <4>2, <6>1
          <6> QED
            BY <3>2, <6>1, <6>2, ZenonT(30)
        <5> QED
          BY <5>1, <5>2
      <4> QED
        BY <4>1, <4>4, ZenonT(30)
    <3> QED
      BY <3>3, <2>1, ZenonT(30)
  <2> QED
    BY <2>2, <2>3
<1>2. Is(first, Len(q))
  <2>1. Len(q) \in Nat
    OBVIOUS
  <2>2. PICK f : Is(f, Len(q))
    BY <1>1, <2>1
  <2>3. f = [n \in 0..Len(q) |->
              IF n = 0 THEN <<>>
              ELSE IF q[n].squashed THEN f[n - 1] ELSE Append(f[n - 1], q[n])]
    <3>1. f = [n \in 0..Len(q) |-> f[n]] /\ \A n \in 0..Len(q) : Step(f, n)
      BY <2>2, ZenonT(30)
    <3> QED
      BY <3>1, ZenonT(30)
  <2>4. first = [n \in 0..Len(q) |->
              IF n = 0 THEN <<>>
              ELSE IF q[n].squashed THEN first[n - 1] ELSE Append(first[n - 1], q[n])]
    BY <2>3, ZenonT(30)
  <2> HIDE DEF first
  <2> QED
    BY <2>4, ZenonT(30)
<1>3. Unsquashed(q) = first[Len(q)]
    BY DEF Unsquashed
<1> HIDE DEF first
<1> DEFINE Good(n) == /\ first[n] \in Seq(Sent)
                      /\ \A i \in DOMAIN first[n] :
                            \E j \in 1..n : first[n][i] = q[j] /\ ~q[j].squashed
                      /\ \A j \in 1..n : ~q[j].squashed =>
                            \E i \in DOMAIN first[n] : first[n][i] = q[j]
                      /\ Sorted(q) => Sorted(first[n])
           Wrong == {n \in Nat : n <= Len(q) /\ ~Good(n)}
<1>4. Wrong = {}
  <2> SUFFICES ASSUME Wrong # {} PROVE FALSE
    OBVIOUS
  <2>1. PICK n \in Wrong : \A m \in Wrong : n <= m
    <3>1. Wrong \in SUBSET Nat
      OBVIOUS
    <3> HIDE DEF Wrong
    <3> QED
      BY <3>1 DEF LeastElements
  <2>2. CASE n = 0
    <3>1. first[0] = <<>>
      BY <1>2
    <3>2. Good(0)
      BY <3>1 DEF Sorted
    <3> QED
      BY <2>1, <2>2, <3>2
  <2>3. CASE n # 0
    <3>1. n \in 1..Len(q) /\ n - 1 \in Nat /\ n - 1 \notin Wrong
      BY <2>1, <2>3
    <3>2. Good(n - 1)
      BY <3>1
    <3>3. first[n] = IF q[n].squashed THEN first[n - 1] ELSE Append(first[n - 1], q[n])
      <4>1. n \in 0..Len(q)
        BY <3>1
      <4>2. Step(first, n)
        BY <1>2, <4>1, ZenonT(30)
      <4> QED
        BY <2>3, <4>2
    <3> HIDE DEF Wrong
    <3>4. Good(n)
      <4>1. CASE q[n].squashed
        BY <3>1, <3>2, <3>3, <4>1
      <4>2. CASE ~q[n].squashed
        <5> DEFINE f == first[n - 1]
                   k == Len(f)
        <5>1. q[n] \in Sent /\ f \in Seq(Sent) /\ k \in Nat
          BY <3>1, <3>2
        <5>2. /\ first[n] \in Seq(Sent) /\ DOMAIN first[n] = 1..(k + 1) /\ DOMAIN f = 1..k
              /\ \A i \in 1..k : first[n][i] = f[i]
              /\ first[n][k + 1] = q[n]
          BY <3>3, <4>2, <5>1, SeqAppend
        <5>6. /\ \A i \in 1..k : \E j \in 1..(n - 1) : f[i] = q[j] /\ ~q[j].squashed
              /\ \A j \in 1..(n - 1) : ~q[j].squashed => \E i \in 1..k : f[i] = q[j]
              /\ Sorted(q) => Sorted(f)
          BY <3>2, <5>2, ZenonT(30)
        <5> HIDE DEF f, k
        <5>3. \A i \in DOMAIN first[n] :
                 \E j \in 1..n : first[n][i] = q[j] /\ ~q[j].squashed
          <6>1. ASSUME NEW i \in 1..(k + 1)
                PROVE  \E j \in 1..n : first[n][i] = q[j] /\ ~q[j].squashed
            <7>1. CASE i = k + 1
              BY <3>1, <4>2, <5>2, <7>1
            <7>2. CASE i \in 1..k
              <8>1. PICK j \in 1..(n - 1) : f[i] = q[j] /\ ~q[j].squashed
                BY <5>6, <7>2, ZenonT(30)
              <8>2. j \in 1..n
                BY <3>1
              <8>3. first[n][i] = f[i]
                BY <5>2, <7>2, ZenonT(30)
              <8> QED
                BY <8>1, <8>2, <8>3, ZenonT(30)
            <7> QED
              BY <5>1, <7>1, <7>2
          <6> QED
            BY <5>2, <6>1, ZenonT(30)
        <5>4. \A j \in 1..n : ~q[j].squashed =>
                 \E i \in DOMAIN first[n] : first[n][i] = q[j]
          <6>1. ASSUME NEW j \in 1..n, ~q[j].squashed
                PROVE  \E i \in 1..(k + 1) : first[n][i] = q[j]
            <7>1. CASE j = n
              BY <5>1, <5>2, <7>1
            <7>2. CASE j \in 1..(n - 1)
              <8>1. PICK i \in 1..k : f[i] = q[j]
                BY <5>6, <6>1, <7>2
              <8>2. i \in 1..(k + 1)
                BY <5>1
              <8> QED
                BY <5>2, <8>1, <8>2
            <7> QED
              BY <3>1, <7>1, <7>2
          <6> QED
            BY <5>2, <6>1, ZenonT(30)
        <5>5. ASSUME Sorted(q) PROVE Sorted(first[n])
          <6>1. Sorted(f)
            BY <5>5, <5>6
          <6>2. \A i \in 1..k : f[i].seqNum < q[n].seqNum
            <7>1. \A j \in 1..(n - 1) : q[j].seqNum < q[n].seqNum
              BY <3>1, <5>5 DEF Sorted
            <7> QED
              BY <5>6, <7>1, ZenonT(30)
          <6> QED
            <7> SUFFICES ASSUME NEW i \in 1..(k + 1), NEW j \in 1..(k + 1), i < j
                         PROVE  first[n][i].seqNum < first[n][j].seqNum
              BY <5>2, ZenonT(30) DEF Sorted
            <7>1. i \in 1..k /\ (j \in 1..k \/ j = k + 1)
              BY <5>1
            <7>2. CASE j \in 1..k
              <8>1. f[i].seqNum < f[j].seqNum
                BY <5>2, <6>1, <7>1, <7>2, ZenonT(30) DEF Sorted
              <8> QED
                BY <5>2, <7>1, <7>2, <8>1, ZenonT(30)
            <7>3. CASE j = k + 1
              BY <5>2, <6>2, <7>1, <7>3, ZenonT(30)
            <7> QED
              BY <7>1, <7>2, <7>3
        <5> QED
          BY <5>2, <5>3, <5>4, <5>5
      <4> QED
        BY <4>1, <4>2
    <3> QED
      BY <2>1, <3>4 DEF Wrong
  <2> QED
    BY <2>2, <2>3
<1>5. Good(Len(q))
    BY <1>4
<1>6. DOMAIN q = 1..Len(q)
    OBVIOUS
<1> DEFINE r == first[Len(q)]
<1>7. /\ r \in Seq(Sent)
      /\ \A i \in DOMAIN r : \E j \in DOMAIN q : r[i] = q[j] /\ ~q[j].squashed
      /\ \A j \in DOMAIN q : ~q[j].squashed => \E i \in DOMAIN r : r[i] = q[j]
      /\ Sorted(q) => Sorted(r)
    BY <1>5, <1>6, ZenonT(30)
<1> HIDE DEF r
<1>8. Unsquashed(q) = r
    BY <1>3 DEF r
<1> QED
    BY <1>7, <1>8, ZenonT(30)

-----------------------------------------------------------------------------
(* When nothing squashes, what rename has renamed and not committed is in  *)
(* the ROB or behind it.                                                   *)
LEMMA HeadFromLost ==
    ASSUME BackType', BackInv', Inv',
           \A h \in historyBuffer' : \/ h.instSeqNum <= commit'.lastCommitted
                                     \/ HoldsIn(toIEW'[1], h.instSeqNum)
                                     \/ HoldsIn(commit'.rob, h.instSeqNum)
    PROVE  HeadInv'
<1> SUFFICES ASSUME commit'.rob # <<>>, NEW h \in historyBuffer',
                    h.instSeqNum > commit'.lastCommitted
             PROVE  commit'.rob[1].seqNum <= h.instSeqNum
  <2>1. \A h \in historyBuffer' : h.instSeqNum \in Nat
    BY DEF Inv, MapTypeOK, RenameHistory
  <2>2. commit'.lastCommitted \in Nat
    BY DEF BackType, CommitState
  <2> QED
    BY <2>1, <2>2 DEF HeadInv
<1>1. h.instSeqNum \in Nat /\ commit'.lastCommitted \in Nat
    BY DEF Inv, MapTypeOK, RenameHistory, BackType, CommitState
<1>2. /\ commit'.rob \in Seq(Sent) /\ 1 \in DOMAIN commit'.rob
      /\ \A i \in DOMAIN commit'.rob : commit'.rob[i].seqNum \in Nat /\ i \in Nat /\ i >= 1
  <2>1. commit'.rob \in Seq(Sent)
    BY DEF BackType, CommitState
  <2>2. \A i \in DOMAIN commit'.rob : commit'.rob[i] \in Sent
    BY <2>1
  <2> QED
    BY <2>1, <2>2 DEF Sent
<1>3. CASE HoldsIn(toIEW'[1], h.instSeqNum)
  <2>1. h.instSeqNum \in SeqNums(toIEW'[1])
    BY <1>3 DEF HoldsIn, SeqNums
  <2>2. commit'.rob[1].seqNum \in SeqNums(commit'.rob)
    BY <1>2 DEF SeqNums
  <2> QED
    BY <1>1, <1>2, <2>1, <2>2 DEF BackInv, Below
<1>4. CASE HoldsIn(commit'.rob, h.instSeqNum)
  <2>1. PICK i \in DOMAIN commit'.rob : commit'.rob[i].seqNum = h.instSeqNum
    BY <1>4 DEF HoldsIn
  <2>2. i = 1 \/ commit'.rob[1].seqNum < commit'.rob[i].seqNum
    BY <1>2 DEF BackInv, Sorted
  <2> QED
    BY <1>1, <1>2, <2>1, <2>2
<1> QED
    BY <1>1, <1>3, <1>4

(* Without a new squash, what rename sent enters the ROB.  While the ROB   *)
(* squashes all of that is marked.                                         *)
LEMMA GetInstsPipe == ASSUME LeastElements, PipeInv, GetInsts, Inv' PROVE BackAll'
<1> DEFINE c == CheckSquashing(commit)
           new == IF c.status = "Running" THEN Unsquashed(toIEW[2]) ELSE <<>>
<1>1. /\ phase = "commit" /\ phase' = "retire" /\ c.status # "SquashAfterPending"
      /\ commit' = [c EXCEPT !.rob = @ \o new,
                             !.youngest = IF new = <<>> THEN @ ELSE new[Len(new)].seqNum,
                             !.changed = @ \/ new # <<>>]
      /\ fromCommit' = Signal(FALSE, c.status = "ROBSquashing", 0)
      /\ UNCHANGED <<renameMap, historyBuffer, freeingInProgress, toIEW, commitMap, rename,
                     decode, nextSeq, fromIEW>>
    BY DEF GetInsts, mapVars
<1>2. Checked(c)
    BY CheckSquashingFacts
<1> HIDE DEF c
<1>3. /\ commit.rob \in Seq(Sent) /\ DOMAIN commit.rob = 1..Len(commit.rob)
      /\ Len(commit.rob) \in Nat /\ commit.squashedSeqNum \in Nat
      /\ commit.lastCommitted \in Nat /\ toIEW[2] \in Seq(Sent) /\ toIEW[1] \in Seq(Sent)
      /\ \A i \in DOMAIN commit.rob : commit.rob[i].seqNum \in Nat
  <2>1. commit.rob \in Seq(Sent) /\ toIEW[2] \in Seq(Sent) /\ toIEW[1] \in Seq(Sent)
    BY BackNat DEF PipeInv
  <2>2. \A i \in DOMAIN commit.rob : commit.rob[i] \in Sent
    BY <2>1
  <2> QED
    BY <2>1, <2>2, BackNat DEF PipeInv, Sent
<1>4. /\ c \in CommitState /\ c.rob \in Seq(Sent) /\ Len(c.rob) = Len(commit.rob)
      /\ DOMAIN c.rob = DOMAIN commit.rob /\ Sorted(c.rob)
      /\ SeqNums(c.rob) = SeqNums(commit.rob)
  <2>1. c \in CommitState /\ c.rob \in Seq(Sent) /\ DOMAIN c.rob = DOMAIN commit.rob
    BY <1>2 DEF Checked, CommitState
  <2>2. Len(c.rob) = Len(commit.rob)
    BY <1>3, <2>1
  <2>3. \A i \in DOMAIN c.rob : c.rob[i].seqNum = commit.rob[i].seqNum
    BY <1>2 DEF Checked
  <2>4. SeqNums(c.rob) = SeqNums(commit.rob) /\ (Sorted(c.rob) <=> Sorted(commit.rob))
    BY <2>1, <2>3, NumsSame
  <2> QED
    BY <2>1, <2>2, <2>4 DEF PipeInv, BackInv

(* What enters the ROB. *)
<1>5. /\ new \in Seq(Sent) /\ Sorted(new) /\ SeqNums(new) \subseteq SeqNums(toIEW[2])
      /\ \A i \in DOMAIN new : \E j \in DOMAIN toIEW[2] :
            new[i] = toIEW[2][j] /\ ~toIEW[2][j].squashed
      /\ c.status = "Running" => \A j \in DOMAIN toIEW[2] : ~toIEW[2][j].squashed =>
            \E i \in DOMAIN new : new[i] = toIEW[2][j]
      /\ c.status # "Running" => new = <<>>
  <2>1. CASE c.status = "Running"
    <3>1. new = Unsquashed(toIEW[2]) /\ Sorted(toIEW[2])
      BY <2>1 DEF PipeInv, BackInv
    <3> HIDE DEF new
    <3>2. /\ new \in Seq(Sent) /\ Sorted(new)
          /\ \A i \in DOMAIN new : \E j \in DOMAIN toIEW[2] :
                new[i] = toIEW[2][j] /\ ~toIEW[2][j].squashed
          /\ \A j \in DOMAIN toIEW[2] : ~toIEW[2][j].squashed =>
                \E i \in DOMAIN new : new[i] = toIEW[2][j]
      <4> DEFINE q == toIEW[2]
      <4>1. q \in Seq(Sent) /\ new = Unsquashed(q) /\ Sorted(q)
        BY <1>3, <3>1
      <4> HIDE DEF q
      <4>2. /\ Unsquashed(q) \in Seq(Sent)
            /\ \A i \in DOMAIN Unsquashed(q) :
                  \E j \in DOMAIN q : Unsquashed(q)[i] = q[j] /\ ~q[j].squashed
            /\ \A j \in DOMAIN q : ~q[j].squashed =>
                  \E i \in DOMAIN Unsquashed(q) : Unsquashed(q)[i] = q[j]
            /\ Sorted(Unsquashed(q))
        BY <4>1, UnsquashedFacts, ZenonT(30)
      <4> QED
        BY <4>1, <4>2, ZenonT(30) DEF q
    <3>3. SeqNums(new) \subseteq SeqNums(toIEW[2])
      BY <3>2 DEF SeqNums
    <3> QED
      BY <2>1, <3>2, <3>3
  <2>2. CASE c.status # "Running"
    <3>1. new = <<>>
      BY <2>2
    <3> HIDE DEF new
    <3>2. new \in Seq(Sent) /\ DOMAIN new = {}
      BY <3>1
    <3>3. Sorted(new) /\ SeqNums(new) = {}
      BY <3>2 DEF Sorted, SeqNums
    <3> QED
      BY <2>2, <3>1, <3>2, <3>3
  <2> QED
    BY <2>1, <2>2
<1> HIDE DEF new
<1>6. /\ commit' \in CommitState /\ commit'.rob = c.rob \o new
      /\ commit'.squashIt = c.squashIt /\ commit'.squashedSeqNum = c.squashedSeqNum
      /\ commit'.lastCommitted = c.lastCommitted /\ commit'.status = c.status
      /\ new = <<>> => commit'.youngest = c.youngest /\ commit'.rob = c.rob
  <2>1. c.rob \o new \in Seq(Sent) /\ (new = <<>> => c.rob \o new = c.rob)
    BY <1>4, <1>5
  <2>2. (IF new = <<>> THEN c.youngest ELSE new[Len(new)].seqNum) \in Nat
    <3>1. CASE new = <<>>
      BY <1>4, <3>1 DEF CommitState
    <3>2. CASE new # <<>>
      <4>1. Len(new) \in DOMAIN new
        BY <1>5, <3>2
      <4>2. new[Len(new)] \in Sent
        BY <1>5, <4>1
      <4> QED
        BY <3>2, <4>1, <4>2 DEF Sent
    <3> QED
      BY <3>1, <3>2
  <2> DEFINE r == c.rob \o new
             y == IF new = <<>> THEN c.youngest ELSE new[Len(new)].seqNum
             z == c.changed \/ new # <<>>
  <2>3. commit' = [c EXCEPT !.rob = r, !.youngest = y, !.changed = z]
    BY <1>1
  <2>4. z \in BOOLEAN
    OBVIOUS
  <2>5. new = <<>> => y = c.youngest
    OBVIOUS
  <2> HIDE DEF r, y, z
  <2>6. r \in Seq(Sent) /\ y \in Nat
    BY <2>1, <2>2 DEF r, y
  <2> QED
    BY <1>4, <2>1, <2>3, <2>4, <2>5, <2>6, ZenonT(30) DEF CommitState, r
<1>7. /\ SeqNums(commit'.rob) = SeqNums(commit.rob) \cup SeqNums(new) /\ Sorted(commit'.rob)
      /\ DOMAIN commit'.rob = 1..(Len(commit.rob) + Len(new)) /\ Len(new) \in Nat
      /\ DOMAIN new = 1..Len(new)
      /\ \A i \in DOMAIN commit.rob : commit'.rob[i] = c.rob[i]
      /\ \A i \in DOMAIN new : commit'.rob[Len(commit.rob) + i] = new[i]
      /\ \A i \in DOMAIN commit'.rob : i \notin DOMAIN commit.rob =>
            i - Len(commit.rob) \in DOMAIN new /\ commit'.rob[i] = new[i - Len(commit.rob)]
  <2>1. Below(SeqNums(c.rob), SeqNums(new))
    BY <1>1, <1>4, <1>5 DEF PipeInv, BackInv, Sent2, Below
  <2>2. SeqNums(c.rob \o new) = SeqNums(c.rob) \cup SeqNums(new) /\ Sorted(c.rob \o new)
    BY <1>4, <1>5, <2>1, NumsConcat
  <2>3. /\ Len(c.rob \o new) = Len(c.rob) + Len(new) /\ Len(new) \in Nat
        /\ DOMAIN new = 1..Len(new)
        /\ DOMAIN (c.rob \o new) = 1..(Len(c.rob) + Len(new))
        /\ \A i \in DOMAIN (c.rob \o new) : (c.rob \o new)[i] =
              IF i <= Len(c.rob) THEN c.rob[i] ELSE new[i - Len(c.rob)]
    <3> DEFINE r == c.rob
    <3>1. r \in Seq(Sent) /\ new \in Seq(Sent)
      BY <1>4, <1>5
    <3> HIDE DEF r
    <3>2. /\ Len(r \o new) = Len(r) + Len(new) /\ Len(new) \in Nat
          /\ DOMAIN new = 1..Len(new) /\ r \o new \in Seq(Sent)
          /\ \A i \in 1..(Len(r) + Len(new)) : (r \o new)[i] =
                IF i <= Len(r) THEN r[i] ELSE new[i - Len(r)]
      BY <3>1
    <3>3. DOMAIN (r \o new) = 1..(Len(r) + Len(new))
      BY <3>2
    <3> QED
      BY <3>2, <3>3 DEF r
  <2>4. \A i \in DOMAIN (c.rob \o new) : i \notin DOMAIN commit.rob =>
            i - Len(commit.rob) \in DOMAIN new /\ (c.rob \o new)[i] = new[i - Len(commit.rob)]
    <3> SUFFICES ASSUME NEW i \in DOMAIN (c.rob \o new), i \notin DOMAIN commit.rob
                 PROVE  /\ i - Len(commit.rob) \in DOMAIN new
                        /\ (c.rob \o new)[i] = new[i - Len(commit.rob)]
      BY ZenonT(30)
    <3> DEFINE m == Len(commit.rob)
               l == Len(new)
    <3>1. m \in Nat /\ l \in Nat /\ i \in 1..(m + l) /\ i \notin 1..m /\ DOMAIN new = 1..l
      BY <1>3, <1>4, <2>3
    <3>2. (c.rob \o new)[i] = IF i <= m THEN c.rob[i] ELSE new[i - m]
      BY <1>4, <2>3, ZenonT(30)
    <3> HIDE DEF m, l
    <3>3. ~(i <= m) /\ i - m \in 1..l
      BY <3>1
    <3> QED
      BY <3>1, <3>2, <3>3 DEF m
  <2>5. \A i \in DOMAIN commit.rob : (c.rob \o new)[i] = c.rob[i]
    BY <1>3, <1>4, <2>3
  <2>6. \A i \in DOMAIN new : (c.rob \o new)[Len(commit.rob) + i] = new[i]
    <3> SUFFICES ASSUME NEW i \in DOMAIN new
                 PROVE  (c.rob \o new)[Len(commit.rob) + i] = new[i]
      BY ZenonT(30)
    <3>1. /\ Len(commit.rob) + i \in DOMAIN (c.rob \o new) /\ ~(Len(commit.rob) + i <= Len(c.rob))
          /\ (Len(commit.rob) + i) - Len(c.rob) = i
      <4>1. i \in 1..Len(new) /\ Len(new) \in Nat /\ Len(c.rob) = Len(commit.rob)
        BY <1>4, <2>3
      <4>2. /\ Len(commit.rob) + i \in 1..(Len(commit.rob) + Len(new))
            /\ ~(Len(commit.rob) + i <= Len(commit.rob))
            /\ (Len(commit.rob) + i) - Len(commit.rob) = i
        <5> DEFINE m == Len(commit.rob)
                   k == Len(new)
        <5>1. m \in Nat /\ k \in Nat /\ i \in 1..k
          BY <1>3, <4>1
        <5> HIDE DEF m, k
        <5>2. m + i \in 1..(m + k) /\ ~(m + i <= m) /\ (m + i) - m = i
          BY <5>1
        <5> QED
          BY <5>2 DEF m, k
      <4> QED
        BY <2>3, <4>1, <4>2
    <3> QED
      <4>1. (c.rob \o new)[Len(commit.rob) + i] =
               IF Len(commit.rob) + i <= Len(c.rob) THEN c.rob[Len(commit.rob) + i]
               ELSE new[(Len(commit.rob) + i) - Len(c.rob)]
        BY <2>3, <3>1, ZenonT(30)
      <4> QED
        BY <3>1, <4>1, ZenonT(30)
  <2> QED
    BY <1>4, <1>6, <2>2, <2>3, <2>4, <2>5, <2>6, ZenonT(30)
<1>8. /\ ~fromCommit'.squash /\ fromCommit'.doneSeqNum = 0
      /\ (fromCommit'.robSquashing <=> c.status = "ROBSquashing")
      /\ fromCommit'.squash \in BOOLEAN /\ fromCommit'.robSquashing \in BOOLEAN
      /\ fromCommit' = [f \in Signals |-> fromCommit'[f]]
    BY <1>1, ZenonT(30) DEF Signal, Signals
<1>9. BackType'
  <2>1. toIEW' \in [1..3 -> Seq(Sent)]
    BY <1>1 DEF PipeInv, BackType
  <2>2. fromCommit'.doneSeqNum \in Nat
    BY <1>8
  <2> QED
    BY <1>6, <1>8, <2>1, <2>2, ZenonT(30) DEF BackType
<1>10. BackInv'
  <2>1. Later' = Later
    BY <1>1 DEF Later
  <2>2. Sent2' = {} /\ Sent2 = SeqNums(toIEW[2])
    BY <1>1 DEF Sent2
  <2>3. commit'.lastCommitted = commit.lastCommitted
    BY <1>2, <1>6 DEF Checked
  <2> QED
    BY <1>1, <1>5, <1>7, <2>1, <2>2, <2>3 DEF PipeInv, BackInv, Below
<1>11. SquashInv'
  <2>1. commit'.status # "ROBSquashing" => commit'.squashIt = 0
    BY <1>2, <1>6 DEF Checked
  <2>2. commit'.squashIt \in 0..Len(commit'.rob)
    <3>1. c.squashIt \in 0..Len(commit.rob) /\ Len(commit'.rob) \in Nat
      BY <1>2, <1>6 DEF Checked, CommitState
    <3>2. Len(commit'.rob) = Len(commit.rob) + Len(new)
      <4> DEFINE m == Len(commit.rob) + Len(new)
      <4>1. commit'.rob \in Seq(Sent) /\ DOMAIN commit'.rob = 1..m /\ m \in Nat
        <5>1. commit'.rob \in Seq(Sent)
          BY <1>6, ZenonT(30) DEF CommitState
        <5>2. Len(commit.rob) \in Nat /\ Len(new) \in Nat
          BY <1>3, <1>7
        <5>3. DOMAIN commit'.rob = 1..m
          BY <1>7
        <5> QED
          BY <5>1, <5>2, <5>3
      <4> HIDE DEF m
      <4>2. Len(commit'.rob) = m
        BY <4>1
      <4> QED
        BY <4>2 DEF m
    <3> QED
      BY <1>3, <1>6, <1>7, <3>1, <3>2
  <2>3. commit'.status = "ROBSquashing" /\ commit'.rob # <<>> =>
         /\ commit'.youngest <= commit'.squashedSeqNum
         /\ \A i \in DOMAIN commit'.rob :
               i > commit'.squashIt /\ commit'.rob[i].seqNum > commit'.squashedSeqNum
                 => commit'.rob[i].squashed
    <3> SUFFICES ASSUME c.status = "ROBSquashing", commit'.rob # <<>>
                 PROVE  /\ commit'.youngest <= commit'.squashedSeqNum
                        /\ \A i \in DOMAIN commit'.rob :
                              i > commit'.squashIt
                              /\ commit'.rob[i].seqNum > commit'.squashedSeqNum
                                => commit'.rob[i].squashed
      BY <1>6
    <3>1. /\ commit.status = "ROBSquashing" /\ commit'.rob = c.rob
          /\ commit'.youngest = commit.youngest /\ commit'.squashedSeqNum = commit.squashedSeqNum
      BY <1>2, <1>5, <1>6 DEF Checked
    <3>2. commit.rob # <<>>
      BY <1>4, <3>1
    <3>3. commit.youngest <= commit.squashedSeqNum
      BY <3>1, <3>2 DEF PipeInv, SquashInv
    <3>4. \A i \in DOMAIN commit.rob :
             i > c.squashIt /\ commit.rob[i].seqNum > commit.squashedSeqNum => c.rob[i].squashed
      BY <1>2, <3>1 DEF Checked
    <3>5. /\ DOMAIN c.rob = DOMAIN commit.rob
          /\ \A i \in DOMAIN commit.rob : c.rob[i].seqNum = commit.rob[i].seqNum
      BY <1>2 DEF Checked
    <3> QED
      BY <1>6, <3>1, <3>3, <3>4, <3>5
  <2>4. commit'.status = "TrapPending" => commit'.rob # <<>>
    <3> SUFFICES ASSUME c.status = "TrapPending" PROVE commit'.rob # <<>>
      BY <1>6
    <3>1. commit.rob # <<>> /\ commit'.rob = c.rob
      BY <1>2, <1>5, <1>6 DEF Checked, PipeInv, SquashInv
    <3> QED
      BY <1>3, <1>4, <3>1
  <2>5. commit'.lastCommitted \in Nat
    BY <1>6 DEF CommitState
  <2> QED
    <3>1. phase' # "squash" /\ phase' \notin {"insts", "loop"}
      BY <1>1
    <3>2. fromCommit'.doneSeqNum <= commit'.lastCommitted
      BY <1>8, <2>5
    <3>3. fromCommit'.robSquashing <=> commit'.status = "ROBSquashing"
      BY <1>6, <1>8
    <3> QED
      BY <1>8, <2>1, <2>2, <2>3, <2>4, <3>1, <3>2, <3>3 DEF SquashInv

(* While the ROB squashes, nothing that is renamed is squashed any more.   *)
<1>12. commit.status = "ROBSquashing" =>
         /\ Marked(toIEW[1]) /\ Marked(toIEW[2])
         /\ commit.rob # <<>> => \A h \in historyBuffer : h.instSeqNum <= commit.squashedSeqNum
         /\ (NoInsts /\ decode.out = <<>>) \/ (fromIEW.block /\ ~fromIEW.unblock)
    BY <1>1 DEF PipeInv, FlowInv, SquashInv
<1>13. FlowInv'
  <2>1. commit'.status = "ROBSquashing" =>
           /\ commit.status = "ROBSquashing" /\ commit'.squashedSeqNum = commit.squashedSeqNum
           /\ commit'.rob # <<>> => commit.rob # <<>>
    <3> SUFFICES ASSUME c.status = "ROBSquashing"
                 PROVE  /\ commit.status = "ROBSquashing"
                        /\ commit'.squashedSeqNum = commit.squashedSeqNum
                        /\ commit'.rob # <<>> => commit.rob # <<>>
      BY <1>6
    <3>1. commit.status = "ROBSquashing" /\ commit'.squashedSeqNum = commit.squashedSeqNum
          /\ commit'.rob = c.rob
      BY <1>2, <1>5, <1>6 DEF Checked
    <3> QED
      BY <1>4, <3>1
  <2> QED
    BY <1>1, <1>8, <1>12, <2>1, ZenonT(30) DEF FlowInv, NoInsts, Blocking, Marked

(* Every renaming is accounted for. *)
<1>14. \A h \in historyBuffer : \/ h.instSeqNum <= commit'.lastCommitted
                                \/ HoldsIn(toIEW[1], h.instSeqNum)
                                \/ HoldsIn(commit'.rob, h.instSeqNum)
                                \/ commit'.status = "TrapPending"
  <2> SUFFICES ASSUME NEW h \in historyBuffer, commit'.status # "TrapPending"
               PROVE  \/ h.instSeqNum <= commit'.lastCommitted
                      \/ HoldsIn(toIEW[1], h.instSeqNum)
                      \/ HoldsIn(commit'.rob, h.instSeqNum)
    OBVIOUS
  <2>1. h.instSeqNum \in Nat /\ commit'.lastCommitted = commit.lastCommitted
    BY <1>2, <1>6, HistoryNat DEF PipeInv, Checked
  <2>2. commit.status \notin {"TrapPending", "SquashAfterPending"}
    BY <1>1, <1>2, <1>6 DEF Checked
  <2>3. ~WillBeSquashed(h.instSeqNum)
    BY <1>1, <2>1, <2>2 DEF WillBeSquashed, PipeInv, FlowInv, BackType
  <2>4. HoldsIn(commit.rob, h.instSeqNum) => HoldsIn(commit'.rob, h.instSeqNum)
    <3> SUFFICES ASSUME NEW i \in DOMAIN commit.rob, commit.rob[i].seqNum = h.instSeqNum,
                        ~commit.rob[i].squashed
                 PROVE  HoldsIn(commit'.rob, h.instSeqNum)
      BY DEF HoldsIn
    <3>1. commit.status = "ROBSquashing" => h.instSeqNum <= commit.squashedSeqNum
      BY <1>3, <1>12
    <3>2. ~c.rob[i].squashed /\ c.rob[i].seqNum = h.instSeqNum
      <4>1. /\ c.rob[i].seqNum = commit.rob[i].seqNum
            /\ c.rob[i].squashed =>
                 commit.status = "ROBSquashing" /\ commit.rob[i].seqNum > commit.squashedSeqNum
        BY <1>2, ZenonT(30) DEF Checked
      <4>2. commit.squashedSeqNum \in Nat
        BY <1>3
      <4> QED
        BY <2>1, <3>1, <4>1, <4>2
    <3>3. i \in DOMAIN commit'.rob /\ commit'.rob[i] = c.rob[i]
      BY <1>3, <1>7
    <3> QED
      BY <3>2, <3>3 DEF HoldsIn
  <2>5. HoldsIn(toIEW[2], h.instSeqNum) => HoldsIn(commit'.rob, h.instSeqNum)
    <3> SUFFICES ASSUME NEW j \in DOMAIN toIEW[2], toIEW[2][j].seqNum = h.instSeqNum,
                        ~toIEW[2][j].squashed
                 PROVE  HoldsIn(commit'.rob, h.instSeqNum)
      BY DEF HoldsIn
    <3>1. c.status = "Running"
      <4>1. commit.status # "ROBSquashing"
        BY <1>12 DEF Marked
      <4>2. c.status = commit.status /\ c.status \in CommitStatuses
        BY <1>2, <4>1 DEF Checked, CommitState
      <4> QED
        BY <1>1, <1>6, <4>1, <4>2 DEF CommitStatuses
    <3>2. PICK i \in DOMAIN new : new[i] = toIEW[2][j]
      BY <1>5, <3>1
    <3>3. Len(commit.rob) + i \in DOMAIN commit'.rob
      <4> DEFINE m == Len(commit.rob)
                 l == Len(new)
      <4>1. m \in Nat /\ l \in Nat /\ i \in 1..l
        BY <1>3, <1>7
      <4> HIDE DEF m, l
      <4>2. m + i \in 1..(m + l)
        BY <4>1
      <4> QED
        BY <1>7, <4>2, ZenonT(30) DEF m, l
    <3> QED
      BY <1>7, <3>2, <3>3 DEF HoldsIn
  <2> QED
    BY <2>1, <2>3, <2>4, <2>5 DEF PipeInv, LostInv
<1>15. LostInv'
    BY <1>1, <1>14, ZenonT(30) DEF LostInv, WillBeSquashed, HoldsIn
<1>16. HeadInv'
  <2>1. CASE commit'.status = "TrapPending"
    <3>1. commit.rob # <<>> /\ commit'.lastCommitted = commit.lastCommitted
      BY <1>2, <1>6, <2>1 DEF Checked, PipeInv, SquashInv
    <3>2. 1 \in DOMAIN commit.rob
      BY <1>3, <3>1
    <3>3. commit'.rob[1].seqNum = commit.rob[1].seqNum
      BY <1>2, <1>7, <3>2 DEF Checked
    <3> QED
      BY <1>1, <3>1, <3>3 DEF PipeInv, HeadInv
  <2>2. CASE commit'.status # "TrapPending"
    <3>1. \A h \in historyBuffer' : \/ h.instSeqNum <= commit'.lastCommitted
                                    \/ HoldsIn(toIEW'[1], h.instSeqNum)
                                    \/ HoldsIn(commit'.rob, h.instSeqNum)
      BY <1>1, <1>14, <2>2
    <3> QED
      BY <1>9, <1>10, <3>1, HeadFromLost
  <2> QED
    BY <2>1, <2>2
<1>17. RecordInv'
  <2>1. \A d \in {1, 2} : \A i \in DOMAIN toIEW[d] : OnlyIts(toIEW[d][i])'
    BY <1>1 DEF PipeInv, RecordInv, OnlyIts
  <2>2. \A i \in DOMAIN toIEW[1] : ~toIEW[1][i].squashed =>
          \A a \in DOMAIN toIEW[1][i].regs : Recorded(toIEW[1][i], a)'
    BY <1>1 DEF PipeInv, RecordInv, Recorded
  <2>3. ASSUME NEW i \in DOMAIN commit'.rob
        PROVE  /\ OnlyIts(commit.rob[i])'
               /\ ~commit'.rob[i].squashed => \A a \in DOMAIN commit'.rob[i].regs :
                    \/ Recorded(commit.rob[i], a)'
                    \/ (Undoing(commit.rob[i])
                        /\ commit.rob[i].regs[a] \in MiscRegs \cup freeingInProgress)'
    <3>1. CASE i \in DOMAIN commit.rob
      <4>1. /\ commit'.rob[i].seqNum = commit.rob[i].seqNum
            /\ commit'.rob[i].regs = commit.rob[i].regs
            /\ ~commit'.rob[i].squashed => ~commit.rob[i].squashed
        BY <1>2, <1>7, <3>1 DEF Checked
      <4>2. OnlyIts(commit.rob[i])'
        BY <1>1, <3>1, <4>1 DEF PipeInv, RecordInv, OnlyIts
      <4>3. ASSUME ~commit'.rob[i].squashed, NEW a \in DOMAIN commit'.rob[i].regs
            PROVE  \/ Recorded(commit.rob[i], a)'
                   \/ (Undoing(commit.rob[i])
                       /\ commit.rob[i].regs[a] \in MiscRegs \cup freeingInProgress)'
        <5>1. CASE Recorded(commit.rob[i], a)
          BY <1>1, <4>1, <5>1 DEF Recorded
        <5>2. CASE /\ Undoing(commit.rob[i])
                   /\ commit.rob[i].regs[a] \in MiscRegs \cup freeingInProgress
          <6>1. c.status = "ROBSquashing"
            <7> SUFFICES ASSUME c.status # "ROBSquashing" PROVE FALSE
              OBVIOUS
            <7>1. c.squashIt = 0 /\ c.rob[i].squashed
              BY <1>2, <1>3, <3>1, <5>2 DEF Checked, Undoing
            <7> QED
              BY <1>7, <3>1, <4>3, <7>1
          <6>2. Undoing(commit.rob[i])'
            BY <1>2, <1>6, <4>1, <5>2, <6>1 DEF Undoing, Checked
          <6> QED
            BY <1>1, <4>1, <5>2, <6>2
        <5> QED
          BY <3>1, <4>1, <4>3, <5>1, <5>2 DEF PipeInv, RecordInv
      <4> QED
        BY <4>2, <4>3
    <3>2. CASE i \notin DOMAIN commit.rob
      <4>1. PICK j \in DOMAIN toIEW[2] : commit'.rob[i] = toIEW[2][j] /\ ~toIEW[2][j].squashed
        <5>1. i - Len(commit.rob) \in DOMAIN new /\ commit'.rob[i] = new[i - Len(commit.rob)]
          BY <1>7, <3>2
        <5> QED
          BY <1>5, <5>1
      <4>2. OnlyIts(toIEW[2][j]) /\ \A a \in DOMAIN toIEW[2][j].regs : Recorded(toIEW[2][j], a)
        BY <1>1, <4>1 DEF PipeInv, RecordInv
      <4> QED
        BY <1>1, <4>1, <4>2 DEF OnlyIts, Recorded
    <3> QED
      BY <3>1, <3>2
  <2> QED
    BY <1>1, <2>1, <2>2, <2>3, ZenonT(30) DEF RecordInv
<1>18. MapsAgree'
  <2>1. commit'.lastCommitted = commit.lastCommitted
    BY <1>2, <1>6 DEF Checked
  <2> QED
    BY <1>1, <2>1 DEF PipeInv, MapsAgree
<1> QED
    BY <1>9, <1>10, <1>11, <1>13, <1>15, <1>16, <1>17, <1>18 DEF BackAll

-----------------------------------------------------------------------------
(* A squashed head leaves the ROB. *)
LEMMA RetireSquashedPipe == ASSUME PipeInv, RetireSquashed, Inv' PROVE BackAll'
<1> DEFINE q == commit.rob
<1>1. /\ phase = "retire" /\ phase' = "retire" /\ commit.status = "Running"
      /\ q # <<>> /\ q[1].squashed
      /\ commit' = [commit EXCEPT !.rob = Tail(q), !.changed = TRUE]
      /\ UNCHANGED <<renameMap, historyBuffer, freeingInProgress, toIEW, commitMap, rename,
                     decode, nextSeq, fromIEW, fromCommit>>
    BY DEF RetireSquashed, AtHead, mapVars
<1>2. /\ q \in Seq(Sent) /\ Len(q) \in Nat /\ DOMAIN q = 1..Len(q) /\ commit \in CommitState
    BY BackNat DEF PipeInv, BackType
<1> HIDE DEF q
<1>3. /\ Tail(q) \in Seq(Sent) /\ DOMAIN Tail(q) = 1..(Len(q) - 1)
      /\ \A i \in DOMAIN Tail(q) : i + 1 \in DOMAIN q /\ Tail(q)[i] = q[i + 1]
      /\ \A i \in DOMAIN q : i = 1 \/ (i - 1 \in DOMAIN Tail(q) /\ Tail(q)[i - 1] = q[i])
    BY <1>1, <1>2
<1>4. /\ commit' \in CommitState /\ commit'.rob = Tail(q) /\ commit'.squashIt = commit.squashIt
      /\ commit'.lastCommitted = commit.lastCommitted /\ commit'.status = "Running"
  <2> DEFINE t == Tail(q)
  <2>1. t \in Seq(Sent) /\ commit' = [commit EXCEPT !.rob = t, !.changed = TRUE]
    BY <1>1, <1>3
  <2> HIDE DEF t
  <2>2. commit' \in CommitState /\ commit'.rob = t /\ commit'.squashIt = commit.squashIt
        /\ commit'.lastCommitted = commit.lastCommitted /\ commit'.status = commit.status
    BY <1>2, <2>1, ZenonT(30) DEF CommitState
  <2> QED
    BY <1>1, <2>2 DEF t
<1>5. BackType'
    BY <1>1, <1>4 DEF PipeInv, BackType
<1>6. SeqNums(Tail(q)) \subseteq SeqNums(q) /\ Sorted(Tail(q))
    BY <1>1, <1>2, NumsTail, ZenonT(30) DEF PipeInv, BackInv, q
<1>7. BackInv'
  <2>1. Later' = Later
    BY <1>1 DEF Later
  <2>2. Sent2' = {}
    BY <1>1 DEF Sent2
  <2> QED
    BY <1>1, <1>4, <1>6, <2>1, <2>2 DEF PipeInv, BackInv, Below, q
<1>8. ~fromCommit.squash /\ ~fromCommit.robSquashing /\ commit.squashIt = 0
    BY <1>1 DEF PipeInv, SquashInv
<1>9. SquashInv'
  <2>1. commit'.squashIt \in 0..Len(commit'.rob)
    BY <1>4, <1>5, <1>8, BackNat DEF BackType, CommitState
  <2> QED
    BY <1>1, <1>4, <1>8, <2>1 DEF PipeInv, SquashInv
<1>10. FlowInv'
    BY <1>1, <1>4, <1>8 DEF FlowInv
<1>11. \A h \in historyBuffer : \/ h.instSeqNum <= commit.lastCommitted
                                \/ HoldsIn(toIEW[1], h.instSeqNum)
                                \/ HoldsIn(commit'.rob, h.instSeqNum)
  <2>1. \A n : HoldsIn(q, n) => HoldsIn(Tail(q), n)
    BY <1>1, <1>3, ZenonT(30) DEF HoldsIn
  <2> QED
    BY <1>1, <1>4, <1>8, <2>1 DEF PipeInv, LostInv, WillBeSquashed, q
<1>12. LostInv'
    BY <1>1, <1>4, <1>11 DEF LostInv, HoldsIn
<1>13. HeadInv'
    BY <1>1, <1>4, <1>5, <1>7, <1>11, HeadFromLost
<1>14. RecordInv'
  <2>1. \A d \in {1, 2} : \A i \in DOMAIN toIEW[d] : OnlyIts(toIEW[d][i])'
    BY <1>1 DEF PipeInv, RecordInv, OnlyIts
  <2>2. \A i \in DOMAIN toIEW[1] : ~toIEW[1][i].squashed =>
          \A a \in DOMAIN toIEW[1][i].regs : Recorded(toIEW[1][i], a)'
    BY <1>1 DEF PipeInv, RecordInv, Recorded
  <2>3. ASSUME NEW i \in DOMAIN commit'.rob
        PROVE  /\ OnlyIts(commit.rob[i])'
               /\ ~commit'.rob[i].squashed => \A a \in DOMAIN commit'.rob[i].regs :
                    Recorded(commit.rob[i], a)'
    <3>1. i + 1 \in DOMAIN commit.rob /\ commit'.rob[i] = commit.rob[i + 1]
      BY <1>3, <1>4 DEF q
    <3>2. OnlyIts(commit.rob[i + 1])
      BY <3>1 DEF PipeInv, RecordInv
    <3>3. ~commit.rob[i + 1].squashed => \A a \in DOMAIN commit.rob[i + 1].regs :
                    Recorded(commit.rob[i + 1], a)
      BY <1>1, <3>1 DEF PipeInv, RecordInv, Undoing
    <3> QED
      BY <1>1, <3>1, <3>2, <3>3 DEF OnlyIts, Recorded
  <2> QED
    BY <1>1, <2>1, <2>2, <2>3 DEF RecordInv
<1>15. MapsAgree'
    BY <1>1, <1>4 DEF PipeInv, MapsAgree
<1> QED
    BY <1>5, <1>7, <1>9, <1>10, <1>12, <1>13, <1>14, <1>15 DEF BackAll

(* The renamings of a register form a chain, so that committing the oldest *)
(* one makes the register it took the committed one.                       *)
LEMMA NextInChain ==
    ASSUME LeastElements, Inv, NEW a \in ArchRegs, NEW h \in historyBuffer, h.archReg = a
    PROVE  LET younger == {g \in historyBuffer : g.archReg = a /\ g.instSeqNum > h.instSeqNum}
           IN \/ younger = {} /\ h.newPhysReg = renameMap[a]
              \/ \E g \in younger : /\ \A k \in younger : g.instSeqNum <= k.instSeqNum
                                    /\ h.newPhysReg = g.prevPhysReg
<1> DEFINE younger == {g \in historyBuffer : g.archReg = a /\ g.instSeqNum > h.instSeqNum}
<1>1. h \in Renamings /\ Younger(h) = younger
    BY DEF Renamings, Younger
<1>2. /\ younger = {} => h.newPhysReg = renameMap[a]
      /\ \A g \in younger : \/ h.newPhysReg = g.prevPhysReg
                            \/ \E k \in younger : k.instSeqNum < g.instSeqNum
    BY <1>1 DEF Inv, Chained
<1>3. CASE younger # {}
  <2> DEFINE T == {g.instSeqNum : g \in younger}
  <2>1. T \in SUBSET Nat /\ T # {}
    BY <1>3, HistoryNat
  <2> HIDE DEF T
  <2>2. PICK n \in T : \A m \in T : n <= m
    BY <2>1 DEF LeastElements
  <2>3. PICK g \in younger : g.instSeqNum = n
    BY <2>2 DEF T
  <2>4. \A k \in younger : g.instSeqNum <= k.instSeqNum
    BY <2>2, <2>3 DEF T
  <2>5. ~\E k \in younger : k.instSeqNum < g.instSeqNum
    BY <2>4, HistoryNat
  <2> QED
    BY <1>2, <2>4, <2>5
<1> QED
    BY <1>2, <1>3

(* The head commits. *)
LEMMA CommitHeadPipe == ASSUME LeastElements, PipeInv, CommitHead, Inv' PROVE BackAll'
<1> DEFINE q == commit.rob
           head == commit.rob[1]
<1>1. /\ phase = "retire" /\ phase' = "retire" /\ commit.status = "Running"
      /\ q # <<>> /\ ~q[1].squashed
      /\ commitMap' = [a \in Regs |-> IF a \in DOMAIN head.regs
                                      THEN head.regs[a] ELSE commitMap[a]]
      /\ fromCommit' = [fromCommit EXCEPT !.doneSeqNum = head.seqNum]
      /\ UNCHANGED <<renameMap, historyBuffer, freeingInProgress, toIEW, rename,
                     decode, nextSeq, fromIEW>>
    BY DEF CommitHead, AtHead, mapVars
<1>2. PICK status \in {"Running", "SquashAfterPending"} :
        commit' = [commit EXCEPT !.rob = Tail(q), !.changed = TRUE,
                                 !.committed = @ + 1, !.status = status,
                                 !.lastCommitted = head.seqNum]
    BY ZenonT(30) DEF CommitHead
<1>3. /\ q \in Seq(Sent) /\ Len(q) \in Nat /\ DOMAIN q = 1..Len(q) /\ commit \in CommitState
      /\ commit.lastCommitted \in Nat
    BY BackNat DEF PipeInv, BackType
<1> HIDE DEF q
<1>4. /\ Tail(q) \in Seq(Sent) /\ DOMAIN Tail(q) = 1..(Len(q) - 1) /\ 1 \in DOMAIN q
      /\ \A i \in DOMAIN Tail(q) : i + 1 \in DOMAIN q /\ Tail(q)[i] = q[i + 1]
      /\ \A i \in DOMAIN q : i = 1 \/ (i - 1 \in DOMAIN Tail(q) /\ Tail(q)[i - 1] = q[i])
    BY <1>1, <1>3
<1>5. head = Head(q) /\ head.seqNum \in Nat /\ head.seqNum \in SeqNums(q)
      /\ commit.lastCommitted < head.seqNum
  <2>1. head = q[1] /\ q[1] \in Sent
    BY <1>3, <1>4 DEF q
  <2>2. head = Head(q) /\ head.seqNum \in Nat /\ head.seqNum \in SeqNums(q)
    BY <1>3, <1>4, <2>1 DEF Sent, SeqNums
  <2> QED
    BY <2>2 DEF PipeInv, BackInv, Below, q
<1> HIDE DEF head
<1>6. /\ commit' \in CommitState /\ commit'.rob = Tail(q) /\ commit'.squashIt = commit.squashIt
      /\ commit'.lastCommitted = head.seqNum
      /\ commit'.status \in {"Running", "SquashAfterPending"}
  <2> DEFINE t == Tail(q)
             s == head.seqNum
             k == commit.committed + 1
  <2>1. /\ t \in Seq(Sent) /\ s \in Nat /\ status \in CommitStatuses /\ k \in Nat
        /\ commit' = [commit EXCEPT !.rob = t, !.changed = TRUE, !.committed = k,
                                    !.status = status, !.lastCommitted = s]
    <3>1. commit.committed \in Nat
      BY <1>3 DEF CommitState
    <3> QED
      BY <1>2, <1>4, <1>5, <3>1 DEF CommitStatuses
  <2> HIDE DEF t, s, k
  <2>2. commit' \in CommitState /\ commit'.rob = t /\ commit'.squashIt = commit.squashIt
        /\ commit'.lastCommitted = s /\ commit'.status = status
    BY <1>3, <2>1, ZenonT(30) DEF CommitState
  <2> QED
    BY <1>2, <2>2 DEF t, s
<1>7. ~fromCommit.squash /\ ~fromCommit.robSquashing /\ commit.squashIt = 0
    BY <1>1 DEF PipeInv, SquashInv
<1>8. /\ fromCommit' = [f \in Signals |-> fromCommit'[f]]
      /\ fromCommit'.squash = fromCommit.squash
      /\ fromCommit'.robSquashing = fromCommit.robSquashing
      /\ fromCommit'.doneSeqNum = head.seqNum
  <2>1. fromCommit = [f \in Signals |-> fromCommit[f]]
    BY DEF PipeInv, BackType
  <2> QED
    BY <1>1, <2>1 DEF Signals
<1>9. BackType'
    BY <1>1, <1>5, <1>6, <1>8 DEF PipeInv, BackType
<1>10. /\ SeqNums(Tail(q)) \subseteq SeqNums(q) /\ Sorted(Tail(q))
       /\ Below({head.seqNum}, SeqNums(Tail(q)))
    BY <1>1, <1>3, <1>5, NumsTail DEF PipeInv, BackInv, q
<1>11. BackInv'
  <2>1. Later' = Later
    BY <1>1 DEF Later
  <2>2. Sent2' = {}
    BY <1>1 DEF Sent2
  <2>3. Below({head.seqNum}, SeqNums(Tail(q)) \cup SeqNums(toIEW[1]) \cup Later)
    BY <1>5, <1>10 DEF PipeInv, BackInv, Below, q
  <2> QED
    BY <1>1, <1>6, <1>10, <2>1, <2>2, <2>3 DEF PipeInv, BackInv, Below, q
<1>12. SquashInv'
  <2>1. commit'.squashIt \in 0..Len(commit'.rob)
    BY <1>6, <1>7, <1>9, BackNat DEF BackType, CommitState
  <2> QED
    BY <1>1, <1>5, <1>6, <1>7, <1>8, <2>1 DEF SquashInv
<1>13. FlowInv'
    BY <1>6, <1>7, <1>8 DEF FlowInv
<1>14. \A h \in historyBuffer : \/ h.instSeqNum <= head.seqNum
                                \/ HoldsIn(toIEW[1], h.instSeqNum)
                                \/ HoldsIn(commit'.rob, h.instSeqNum)
  <2> SUFFICES ASSUME NEW h \in historyBuffer, ~(h.instSeqNum <= head.seqNum)
               PROVE  \/ HoldsIn(toIEW[1], h.instSeqNum)
                      \/ HoldsIn(commit'.rob, h.instSeqNum)
    OBVIOUS
  <2>1. h.instSeqNum \in Nat /\ ~(h.instSeqNum <= commit.lastCommitted)
    BY <1>3, <1>5, HistoryNat DEF PipeInv
  <2>2. HoldsIn(q, h.instSeqNum) => HoldsIn(Tail(q), h.instSeqNum)
    <3> SUFFICES ASSUME NEW i \in DOMAIN q, q[i].seqNum = h.instSeqNum, ~q[i].squashed
                 PROVE  HoldsIn(Tail(q), h.instSeqNum)
      BY DEF HoldsIn
    <3>1. i # 1
      BY <1>5, <2>1 DEF head, q
    <3> QED
      BY <1>4, <3>1, ZenonT(30) DEF HoldsIn
  <2> QED
    BY <1>1, <1>6, <1>7, <2>1, <2>2 DEF PipeInv, LostInv, WillBeSquashed, q
<1>15. LostInv'
    BY <1>1, <1>6, <1>14 DEF LostInv, HoldsIn
<1>16. HeadInv'
    BY <1>1, <1>6, <1>9, <1>11, <1>14, HeadFromLost
<1>17. RecordInv'
  <2>1. \A d \in {1, 2} : \A i \in DOMAIN toIEW[d] : OnlyIts(toIEW[d][i])'
    BY <1>1 DEF PipeInv, RecordInv, OnlyIts
  <2>2. \A i \in DOMAIN toIEW[1] : ~toIEW[1][i].squashed =>
          \A a \in DOMAIN toIEW[1][i].regs : Recorded(toIEW[1][i], a)'
    BY <1>1 DEF PipeInv, RecordInv, Recorded
  <2>3. ASSUME NEW i \in DOMAIN commit'.rob
        PROVE  /\ OnlyIts(commit.rob[i])'
               /\ ~commit'.rob[i].squashed => \A a \in DOMAIN commit'.rob[i].regs :
                    Recorded(commit.rob[i], a)'
    <3>1. i + 1 \in DOMAIN commit.rob /\ commit'.rob[i] = commit.rob[i + 1]
      BY <1>4, <1>6 DEF q
    <3>2. OnlyIts(commit.rob[i + 1])
      BY <3>1 DEF PipeInv, RecordInv
    <3>3. ~commit.rob[i + 1].squashed => \A a \in DOMAIN commit.rob[i + 1].regs :
                    Recorded(commit.rob[i + 1], a)
      BY <1>1, <3>1 DEF PipeInv, RecordInv, Undoing
    <3> QED
      BY <1>1, <3>1, <3>2, <3>3 DEF OnlyIts, Recorded
  <2> QED
    BY <1>1, <2>1, <2>2, <2>3 DEF RecordInv
<1>18. MapsAgree'
  <2> SUFFICES ASSUME NEW a \in ArchRegs PROVE Agree(a)'
    BY AgreeDef
  <2>1. Agree(a) /\ a \in Regs
    BY AgreeDef DEF PipeInv, Regs
  <2>2. \A h \in historyBuffer : /\ h.instSeqNum \in Nat
                                 /\ \/ h.instSeqNum <= commit.lastCommitted
                                    \/ head.seqNum <= h.instSeqNum
    BY <1>1, HistoryNat DEF PipeInv, HeadInv, head, q
  <2>3. Pending(a)' = {h \in historyBuffer : h.archReg = a /\ h.instSeqNum > head.seqNum}
    BY <1>1, <1>6 DEF Pending
  <2>4. /\ OnlyIts(head) /\ \A b \in DOMAIN head.regs : Recorded(head, b)
    BY <1>1, <1>4 DEF PipeInv, RecordInv, Undoing, head, q
  <2>5. CASE a \in DOMAIN head.regs
    <3>1. PICK h \in historyBuffer : /\ h.instSeqNum = head.seqNum /\ h.archReg = a
                                     /\ h.newPhysReg = head.regs[a]
      BY <2>4, <2>5 DEF Recorded
    <3>2. commitMap'[a] = h.newPhysReg
      BY <1>1, <2>1, <2>5, <3>1
    <3>3. \/ Pending(a)' = {} /\ h.newPhysReg = renameMap[a]
          \/ \E g \in Pending(a)' : /\ \A k \in Pending(a)' : g.instSeqNum <= k.instSeqNum
                                    /\ h.newPhysReg = g.prevPhysReg
      BY <2>3, <3>1, NextInChain DEF PipeInv
    <3> QED
      BY <1>1, <3>2, <3>3, ZenonT(30) DEF Agree
  <2>6. CASE a \notin DOMAIN head.regs
    <3>1. commitMap'[a] = commitMap[a]
      BY <1>1, <2>1, <2>6
    <3>2. Pending(a)' = Pending(a)
      <4>1. \A h \in historyBuffer : h.archReg = a => h.instSeqNum # head.seqNum
        BY <2>4, <2>6 DEF OnlyIts
      <4>2. \A h \in historyBuffer : h.archReg = a =>
               (h.instSeqNum > head.seqNum <=> h.instSeqNum > commit.lastCommitted)
        BY <1>3, <1>5, <2>2, <4>1
      <4> QED
        BY <2>3, <4>2 DEF Pending
    <3> QED
      BY <1>1, <2>1, <3>1, <3>2 DEF Agree
  <2> QED
    BY <2>5, <2>6
<1> QED
    BY <1>9, <1>11, <1>12, <1>13, <1>15, <1>16, <1>17, <1>18 DEF BackAll

(* The head faults, and waits for its trap. *)
LEMMA FaultPipe == ASSUME PipeInv, Fault PROVE BackAll'
<1>1. /\ phase = "retire" /\ phase' = "retire" /\ commit.status = "Running"
      /\ commit.rob # <<>> /\ commit' = [commit EXCEPT !.status = "TrapPending"]
      /\ UNCHANGED <<renameMap, historyBuffer, freeingInProgress, toIEW, rename, commitMap,
                     decode, nextSeq, fromIEW, fromCommit>>
    BY DEF Fault, AtHead, mapVars
<1>2. /\ commit' \in CommitState /\ commit'.rob = commit.rob
      /\ commit'.squashIt = commit.squashIt /\ commit'.lastCommitted = commit.lastCommitted
      /\ commit'.status = "TrapPending"
    BY <1>1, ZenonT(30) DEF PipeInv, BackType, CommitState, CommitStatuses
<1>3. ~fromCommit.squash /\ ~fromCommit.robSquashing /\ commit.squashIt = 0
    BY <1>1 DEF PipeInv, SquashInv
<1>4. BackType'
    BY <1>1, <1>2 DEF PipeInv, BackType
<1>5. BackInv'
  <2>1. Later' = Later /\ Sent2' = Sent2
    BY <1>1 DEF Later, Sent2
  <2> QED
    BY <1>1, <1>2, <2>1 DEF PipeInv, BackInv
<1>6. SquashInv' /\ FlowInv'
    BY <1>1, <1>2, <1>3 DEF PipeInv, SquashInv, FlowInv
<1>7. LostInv' /\ HeadInv' /\ MapsAgree'
    BY <1>1, <1>2 DEF PipeInv, LostInv, HeadInv, MapsAgree, WillBeSquashed
<1>8. RecordInv'
  <2>1. \A i \in DOMAIN commit.rob : ~commit.rob[i].squashed =>
           \A a \in DOMAIN commit.rob[i].regs : Recorded(commit.rob[i], a)
    BY <1>1 DEF PipeInv, RecordInv, Undoing
  <2> QED
    BY <1>1, <1>2, <2>1 DEF PipeInv, RecordInv, Recorded, OnlyIts
<1> QED
    BY <1>4, <1>5, <1>6, <1>7, <1>8 DEF BackAll

(* The buffers between the stages advance. *)
LEMMA EndCyclePipe == ASSUME PipeInv, EndCycle PROVE BackAll'
<1>1. /\ phase = "retire" /\ phase' = "decode"
      /\ commit' = [commit EXCEPT !.changed = FALSE, !.committed = 0]
      /\ toIEW' = <<<<>>, toIEW[1], toIEW[2]>>
      /\ UNCHANGED <<renameMap, historyBuffer, freeingInProgress, rename, commitMap,
                     decode, nextSeq, fromIEW>>
    BY DEF EndCycle, mapVars
<1>2. /\ commit' \in CommitState /\ commit'.rob = commit.rob
      /\ commit'.squashIt = commit.squashIt /\ commit'.lastCommitted = commit.lastCommitted
      /\ commit'.status = commit.status /\ commit'.youngest = commit.youngest
      /\ commit'.squashedSeqNum = commit.squashedSeqNum
    BY <1>1, ZenonT(30) DEF PipeInv, BackType, CommitState
<1>3. /\ fromCommit' = [f \in Signals |-> fromCommit'[f]]
      /\ fromCommit'.squash = fromCommit.squash
      /\ fromCommit'.robSquashing = fromCommit.robSquashing
      /\ fromCommit'.doneSeqNum = fromCommit.doneSeqNum
  <2>1. fromCommit = [f \in Signals |-> fromCommit[f]]
    BY DEF PipeInv, BackType
  <2> QED
    BY <2>1, ZenonT(30) DEF EndCycle, Signals
<1>4. /\ toIEW'[1] = <<>> /\ toIEW'[2] = toIEW[1] /\ toIEW' \in [1..3 -> Seq(Sent)]
  <2>1. toIEW[1] \in Seq(Sent) /\ toIEW[2] \in Seq(Sent) /\ <<>> \in Seq(Sent)
    BY BackNat DEF PipeInv
  <2>2. ASSUME NEW S, NEW x \in S, NEW y \in S, NEW z \in S
        PROVE  /\ <<x, y, z>>[1] = x /\ <<x, y, z>>[2] = y /\ <<x, y, z>>[3] = z
               /\ <<x, y, z>> \in [1..3 -> S]
    <3>1. \A i \in 1..3 : i = 1 \/ i = 2 \/ i = 3
      OBVIOUS
    <3> QED
      BY <3>1
  <2> DEFINE x == <<>>
             y == toIEW[1]
             z == toIEW[2]
             T == Seq(Sent)
  <2>3. x \in T /\ y \in T /\ z \in T /\ toIEW' = <<x, y, z>>
    BY <1>1, <2>1
  <2> HIDE DEF x, y, z, T
  <2>4. toIEW'[1] = x /\ toIEW'[2] = y /\ toIEW' \in [1..3 -> T]
    BY <2>2, <2>3, ZenonT(30)
  <2> QED
    BY <2>4 DEF x, y, z, T
<1>5. BackType'
    BY <1>2, <1>3, <1>4 DEF PipeInv, BackType
<1>6. SeqNums(toIEW'[1]) = {} /\ Sorted(toIEW'[1]) /\ Marked(toIEW'[1])
      /\ DOMAIN toIEW'[1] = {}
    BY <1>4, NumsEmpty
<1>7. BackInv'
  <2>1. Later' = Later /\ Sent2' = SeqNums(toIEW[1])
    BY <1>1, <1>4 DEF Later, Sent2
  <2> QED
    BY <1>2, <1>4, <1>6, <2>1 DEF PipeInv, BackInv, Below
<1>8. SquashInv'
  <2>1. fromCommit.squash =>
           Below({fromCommit.doneSeqNum}, SeqNums(toIEW'[1]) \cup SeqNums(toIEW'[2]))
    BY <1>4, <1>6 DEF PipeInv, SquashInv, Below
  <2> QED
    BY <1>1, <1>2, <1>3, <2>1 DEF PipeInv, SquashInv
<1>9. FlowInv'
    BY <1>1, <1>2, <1>3, <1>4, <1>6 DEF PipeInv, FlowInv, NoInsts, Blocking
<1>10. LostInv' /\ HeadInv' /\ MapsAgree'
  <2>1. LostInv'
    BY <1>1, <1>2, <1>3, <1>4 DEF PipeInv, LostInv, WillBeSquashed
  <2>2. HeadInv' /\ MapsAgree'
    BY <1>1, <1>2 DEF PipeInv, HeadInv, MapsAgree
  <2> QED
    BY <2>1, <2>2
<1>11. RecordInv'
  <2>1. \A d \in {1, 2} : \A i \in DOMAIN toIEW'[d] : OnlyIts(toIEW[d][i])'
    <3>1. \A i \in DOMAIN toIEW'[2] : OnlyIts(toIEW[2][i])'
      BY <1>1, <1>4 DEF PipeInv, RecordInv, OnlyIts
    <3> QED
      BY <1>6, <3>1
  <2>2. \A i \in DOMAIN toIEW'[2] : ~toIEW'[2][i].squashed =>
          \A a \in DOMAIN toIEW'[2][i].regs : Recorded(toIEW[2][i], a)'
    BY <1>1, <1>4 DEF PipeInv, RecordInv, Recorded
  <2>3. \A i \in DOMAIN commit'.rob :
          /\ OnlyIts(commit.rob[i])'
          /\ ~commit'.rob[i].squashed => \A a \in DOMAIN commit'.rob[i].regs :
               \/ Recorded(commit.rob[i], a)'
               \/ (Undoing(commit.rob[i])
                   /\ commit.rob[i].regs[a] \in MiscRegs \cup freeingInProgress)'
    BY <1>1, <1>2 DEF PipeInv, RecordInv, Recorded, OnlyIts, Undoing
  <2> QED
    BY <1>6, <2>1, <2>2, <2>3 DEF RecordInv
<1> QED
    BY <1>5, <1>7, <1>8, <1>9, <1>10, <1>11 DEF BackAll

-----------------------------------------------------------------------------
(* The pipeline starts empty. *)
LEMMA PipeInit == Init => PipeInv
<1> SUFFICES ASSUME Init PROVE PipeInv
    OBVIOUS
<1>1. QueuesInv
    BY QueuesInit
<1>2. Inv /\ historyBuffer = {}
    BY InitInv DEF Init, MapInit
<1>3. /\ phase = "decode" /\ nextSeq = 1
      /\ decode.out = <<>>
      /\ rename.status = "Idle" /\ rename.insts = <<>> /\ rename.skid = <<>>
      /\ toIEW = <<<<>>, <<>>, <<>>>>
      /\ commit = [status |-> "Running", rob |-> <<>>, squashedSeqNum |-> 0, squashIt |-> 0,
                   youngest |-> 0, lastCommitted |-> 0, changed |-> FALSE, committed |-> 0]
      /\ commitMap = renameMap
      /\ fromCommit = [squash |-> FALSE, robSquashing |-> FALSE, doneSeqNum |-> 0,
                       usedROB |-> FALSE, freeROB |-> 0, emptyROB |-> FALSE]
    BY DEF Init
<1>4. /\ commit \in CommitState /\ commit.status = "Running" /\ commit.rob = <<>>
      /\ commit.squashIt = 0 /\ commit.lastCommitted = 0
  <2>1. <<>> \in Seq(Sent)
    OBVIOUS
  <2> QED
    BY <1>3, <2>1 DEF CommitState, CommitStatuses
<1>5. /\ ~fromCommit.squash /\ ~fromCommit.robSquashing /\ fromCommit.doneSeqNum = 0
      /\ fromCommit.squash \in BOOLEAN /\ fromCommit.robSquashing \in BOOLEAN
      /\ fromCommit = [f \in Signals |-> fromCommit[f]]
    BY <1>3 DEF Signals
<1>6. toIEW[1] = <<>> /\ toIEW[2] = <<>> /\ toIEW \in [1..3 -> Seq(Sent)]
  <2>1. <<>> \in Seq(Sent) /\ \A i \in 1..3 : i = 1 \/ i = 2 \/ i = 3
    OBVIOUS
  <2> DEFINE x == <<>>
             T == Seq(Sent)
  <2>2. x \in T /\ toIEW = <<x, x, x>>
    BY <1>3, <2>1
  <2> HIDE DEF x, T
  <2>3. toIEW[1] = x /\ toIEW[2] = x /\ toIEW \in [1..3 -> T]
    BY <2>1, <2>2
  <2> QED
    BY <2>3 DEF x, T
<1>7. BackType
    BY <1>4, <1>5, <1>6 DEF BackType
<1>8. /\ SeqNums(rename.insts) = {} /\ Sorted(rename.insts)
      /\ SeqNums(rename.skid) = {} /\ Sorted(rename.skid)
      /\ SeqNums(decode.out) = {} /\ Sorted(decode.out)
      /\ SeqNums(toIEW[1]) = {} /\ Sorted(toIEW[1]) /\ Marked(toIEW[1])
      /\ SeqNums(toIEW[2]) = {} /\ Sorted(toIEW[2]) /\ Marked(toIEW[2])
      /\ SeqNums(commit.rob) = {} /\ Sorted(commit.rob)
    BY <1>3, <1>4, <1>6, NumsEmpty
<1>9. Held(rename) = {} /\ Nums(rename) = {} /\ Later = {1}
    BY <1>3, <1>8 DEF Held, Nums, Later
<1>10. FrontInv
    BY <1>3, <1>8, <1>9 DEF FrontInv, InOrder, Ordered, Below
<1>11. BackInv
    BY <1>4, <1>8, <1>9 DEF BackInv, Sent2, Below
<1>12. SquashInv
  <2>1. Len(commit.rob) = 0
    BY <1>4
  <2> QED
    BY <1>3, <1>4, <1>5, <2>1 DEF SquashInv
<1>13. FlowInv
    BY <1>4, <1>5 DEF FlowInv
<1>14. LostInv /\ HeadInv
    BY <1>2 DEF LostInv, HeadInv
<1>15. RecordInv
  <2>1. DOMAIN toIEW[1] = {} /\ DOMAIN toIEW[2] = {} /\ DOMAIN commit.rob = {}
    BY <1>4, <1>6
  <2> QED
    BY <2>1 DEF RecordInv
<1>16. MapsAgree
    BY <1>2, <1>3 DEF MapsAgree
<1> QED
    BY <1>1, <1>2, <1>7, <1>10, <1>11, <1>12, <1>13, <1>14, <1>15, <1>16 DEF PipeInv

(* Nothing changes outside the pipeline. *)
LEMMA StutterPipe == ASSUME PipeInv, UNCHANGED vars PROVE BackAll'
<1>1. UNCHANGED <<renameMap, freeList, historyBuffer, freeingInProgress, phase, nextSeq,
                  decode, rename, toIEW, commit, commitMap, fromIEW, fromCommit>>
    BY DEF vars, mapVars, pipeVars
<1>2. BackType'
    BY <1>1 DEF PipeInv, BackType
<1>3. BackInv'
    BY <1>1, ZenonT(30) DEF PipeInv, BackInv, Sent2, Later
<1>4. SquashInv'
    BY <1>1 DEF PipeInv, SquashInv
<1>5. FlowInv'
    BY <1>1 DEF PipeInv, FlowInv, NoInsts, Blocking
<1>6. LostInv' /\ HeadInv' /\ MapsAgree'
    BY <1>1 DEF PipeInv, LostInv, HeadInv, MapsAgree, WillBeSquashed
<1>7. RecordInv'
  <2>1. RecordInv
    BY DEF PipeInv
  <2>2. /\ \A i \in DOMAIN commit'.rob : OnlyIts(commit.rob[i])'
        /\ \A d \in {1, 2} : \A i \in DOMAIN toIEW'[d] : OnlyIts(toIEW[d][i])'
    BY <1>1, <2>1, ZenonT(30) DEF RecordInv, OnlyIts
  <2>3. /\ \A i \in DOMAIN toIEW'[1] : ~toIEW'[1][i].squashed =>
              \A a \in DOMAIN toIEW'[1][i].regs : Recorded(toIEW[1][i], a)'
        /\ phase' # "retire" => \A i \in DOMAIN toIEW'[2] : ~toIEW'[2][i].squashed =>
              \A a \in DOMAIN toIEW'[2][i].regs : Recorded(toIEW[2][i], a)'
    BY <1>1, <2>1 DEF RecordInv, Recorded
  <2>4. \A i \in DOMAIN commit'.rob : ~commit'.rob[i].squashed =>
           \A a \in DOMAIN commit'.rob[i].regs :
              \/ Recorded(commit.rob[i], a)'
              \/ (Undoing(commit.rob[i]) /\ commit.rob[i].regs[a] \in MiscRegs \cup freeingInProgress)'
    BY <1>1, <2>1 DEF RecordInv, Recorded, Undoing
  <2> QED
    BY <2>2, <2>3, <2>4, ZenonT(30) DEF RecordInv
<1> QED
    BY <1>2, <1>3, <1>4, <1>5, <1>6, <1>7 DEF BackAll

LOCAL INSTANCE WellFoundedInduction

(* A non-empty set of naturals has a least element, by induction. *)
LEMMA LeastNat == LeastElements
<1> SUFFICES ASSUME NEW T \in SUBSET Nat, T # {} PROVE \E x \in T : \A y \in T : x <= y
    BY DEF LeastElements
<1> DEFINE R == OpToRel(<, Nat)
<1>1. IsWellFoundedOn(R, Nat)
    BY NatLessThanWellFounded, ZenonT(30)
<1>2. \A x, y \in Nat : <<y, x>> \in R <=> y < x
    BY DEF OpToRel
<1> HIDE DEF R
<1>3. PICK x \in T : \A y \in T : ~(<<y, x>> \in R)
    BY <1>1, WFMin, ZenonT(30)
<1>4. \A y \in T : ~(y < x)
    BY <1>2, <1>3, ZenonT(30)
<1>5. \A y \in T : x <= y
    BY <1>4
<1> QED
    BY <1>5

(* Every step keeps the invariant. *)
LEMMA PipeNext == PipeInv /\ [Next]_vars => PipeInv'
<1> SUFFICES ASSUME PipeInv, [Next]_vars PROVE PipeInv'
    OBVIOUS
<1>1. QueuesInv'
    BY DecodeStep, SquashStep, SignalsStep, BeginStep, StallStep, InstStep, EndStep,
       HistoryStep, OtherSteps DEF Next, PipeInv
<1>2. Inv'
    BY MapStep, NextInv DEF PipeInv
<1>3. FrontInv'
    BY DecodeFront, SquashFront, SignalsFront, BeginFront, StallFront, InstFront, EndFront,
       HistoryFront, OtherFront DEF Next, PipeInv
<1>4. BackAll'
    BY <1>2, LeastNat, DecodePipe, RenameSquashPipe, DoSquashPipe, SignalsPipe, BeginPipe, StallPipe,
       RenameInstPipe, EndPipe, HistoryPipe, IEWPipe, SquashAllPipe, SquashFromIEWPipe,
       GetInstsPipe, RetireSquashedPipe, CommitHeadPipe, FaultPipe, EndCyclePipe, StutterPipe
    DEF Next
<1> QED
    BY <1>1, <1>2, <1>3, <1>4 DEF PipeInv, BackAll

(* It holds in every reachable state. *)
LEMMA PipeInvariant == Spec => []PipeInv
BY PipeInit, PipeNext, PTL DEF Spec

-----------------------------------------------------------------------------
(* On every CPU and for every program: an instruction that rename has      *)
(* renamed is on its way to the ROB, in it, committed or about to be       *)
(* squashed.  Commit drops what arrives while the ROB squashes, and        *)
(* everything that arrives then has been marked.                           *)
THEOREM NothingLostCorrect == Spec => []NothingLost
<1>1. PipeInv => NothingLost
    BY DEF PipeInv, LostInv, NothingLost, HoldsIn
<1> QED
    BY <1>1, PipeInvariant, PTL

(* Undoing what is not committed always gives commit's map. *)
THEOREM MapsAgreeCorrect == Spec => []MapsAgree
<1>1. PipeInv => MapsAgree
    BY DEF PipeInv
<1> QED
    BY <1>1, PipeInvariant, PTL

(* A register that an instruction in the ROB may still write is never on   *)
(* the free list.                                                          *)
THEOREM OwnedCorrect == Spec => []OwnedNotFree
<1>1. PipeInv => OwnedNotFree
  <2> SUFFICES ASSUME PipeInv, NEW i \in DOMAIN commit.rob, ~commit.rob[i].squashed,
                      NEW a \in DOMAIN commit.rob[i].regs
               PROVE  commit.rob[i].regs[a] \notin freeList
    BY DEF OwnedNotFree
  <2> DEFINE reg == commit.rob[i].regs[a]
  <2>1. /\ freeList \subseteq PhysRegs /\ PhysRegs \cap MiscRegs = {}
        /\ freeList \cap freeingInProgress = {}
        /\ freeList \cap (Current \cup Previous) = {}
    BY RegsAssumption DEF PipeInv, Inv, MapTypeOK, RegistersConserved
  <2>2. CASE reg \in MiscRegs \cup freeingInProgress
    BY <2>1, <2>2
  <2>3. CASE Recorded(commit.rob[i], a)
    <3>1. PICK h \in historyBuffer : h.archReg = a /\ h.newPhysReg = reg
      BY <2>3 DEF Recorded
    <3>2. h.archReg \in ArchRegs \cup MiscRegs
      BY DEF PipeInv, Inv, MapTypeOK, RenameHistory, Regs
    <3>3. CASE h.archReg \in MiscRegs
      BY <2>1, <3>1, <3>3 DEF PipeInv, Inv, MiscFixed
    <3>4. CASE h.archReg \in ArchRegs
      <4>1. \/ reg = renameMap[a]
            \/ \E g \in historyBuffer : g.archReg = a /\ reg = g.prevPhysReg
        BY <3>1, <3>4, LeastNat, NextInChain DEF PipeInv
      <4>2. reg \in Current \cup Previous
        BY <3>1, <3>4, <4>1 DEF Current, Previous, Renamings
      <4> QED
        BY <2>1, <4>2
    <3> QED
      BY <3>2, <3>3, <3>4
  <2> QED
    BY <2>2, <2>3 DEF PipeInv, RecordInv
<1> QED
    BY <1>1, PipeInvariant, PTL
=============================================================================
