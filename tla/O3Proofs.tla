----------------------------- MODULE O3Proofs -----------------------------
(***************************************************************************)
(* Registers of the out-of-order CPU.                                      *)
(*                                                                         *)
(* The first part proves RegistersConserved of RenameMap, for any registers*)
(* and any order of renamings, squashes and commits.  Undoing an entry     *)
(* exchanges its two registers between the map and freeingInProgress,      *)
(* committing it moves the previous one to the free list; that the         *)
(* register taken from the map, or put back into it, is the right one      *)
(* rests on the entries of one architectural register being a chain that   *)
(* ends in the map.                                                        *)
(*                                                                         *)
(* The second part proves that the pipeline implements RenameMap: its      *)
(* stages change the map, the free list and the history by the steps       *)
(* allowed there and in no other way, whatever the widths, the number of   *)
(* ROB entries and the program.  So the registers are conserved in it,     *)
(* too.  The inductive part is small: the instructions in the queues of    *)
(* decode and rename have sequence numbers and destinations.               *)
(*                                                                         *)
(* The third part is about the order of instructions in decode and rename: *)
(* what waits there is in fetch order, whatever is blocked, held back to   *)
(* serialize, resumed or squashed.  O3SquashProofs builds on it.           *)
(***************************************************************************)
EXTENDS O3Pipeline, TLAPS

(* What the provers may take for a step that names none, in seconds. *)
USE SMTT(30), ZenonT(30), Z3T(30)

(* The entries of an architectural register that are younger than h. *)
Younger(h) == {g \in historyBuffer : g.archReg = h.archReg /\ g.instSeqNum > h.instSeqNum}

(* An unrenamed register maps to itself, also in the history. *)
MiscFixed ==
    /\ \A a \in MiscRegs : renameMap[a] = a
    /\ \A h \in historyBuffer :
          IF h.archReg \in MiscRegs
          THEN h.newPhysReg = h.archReg /\ h.prevPhysReg = h.archReg
          ELSE h.newPhysReg \in PhysRegs /\ h.prevPhysReg \in PhysRegs

ArchMapped == \A a \in ArchRegs : renameMap[a] \in PhysRegs

(* An instruction has one entry for a register. *)
OneEntry ==
    \A g, h \in historyBuffer :
        g.archReg = h.archReg /\ g.instSeqNum = h.instSeqNum => g = h

(* A renaming replaces a register by another. *)
NewDiffers == \A h \in Renamings : h.newPhysReg # h.prevPhysReg

(* What an entry made is in the map, or in the previous register of the    *)
(* next entry.                                                             *)
Chained ==
    \A h \in Renamings :
        /\ Younger(h) = {} => h.newPhysReg = renameMap[h.archReg]
        /\ \A g \in Younger(h) :
              \/ h.newPhysReg = g.prevPhysReg
              \/ \E k \in Younger(h) : k.instSeqNum < g.instSeqNum

Inv ==
    /\ MapTypeOK /\ MiscFixed /\ ArchMapped /\ OneEntry /\ NewDiffers /\ Chained
    /\ RegistersConserved

-----------------------------------------------------------------------------
(* The CPU starts with the invariant: no register is renamed yet. *)
LEMMA InitInv == MapInit => Inv
<1> SUFFICES ASSUME MapInit PROVE Inv
    OBVIOUS
<1>1. PICK map \in Injection(ArchRegs, PhysRegs) :
        /\ renameMap = [a \in Regs |-> IF a \in ArchRegs THEN map[a] ELSE a]
        /\ freeList = PhysRegs \ {map[a] : a \in ArchRegs}
    BY DEF MapInit
<1>2. historyBuffer = {} /\ freeingInProgress = {}
    BY DEF MapInit
<1>3. map \in [ArchRegs -> PhysRegs] /\ \A a, b \in ArchRegs : map[a] = map[b] => a = b
    BY DEF Injection, IsInjective
<1>4. \A a \in ArchRegs : renameMap[a] = map[a]
    BY <1>1 DEF Regs
<1>5. MapTypeOK /\ MiscFixed /\ ArchMapped
    BY <1>1, <1>2, <1>3, RegsAssumption DEF MapTypeOK, MiscFixed, ArchMapped, Regs
<1>6. OneEntry /\ NewDiffers /\ Chained
    BY <1>2 DEF OneEntry, NewDiffers, Chained, Renamings
<1>7. RegistersConserved
    BY <1>1, <1>2, <1>3, <1>4 DEF RegistersConserved, Current, Previous, Renamings
<1> QED
    BY <1>5, <1>6, <1>7 DEF Inv

(* Giving squashed registers back changes only where the free ones are. *)
LEMMA FreeInv == Inv /\ FreeSquashed => Inv'
<1> SUFFICES ASSUME Inv, FreeSquashed PROVE Inv'
    OBVIOUS
<1>1. (MapTypeOK /\ MiscFixed /\ ArchMapped /\ OneEntry /\ NewDiffers /\ Chained)'
    BY DEF Inv, FreeSquashed, MapTypeOK, MiscFixed, ArchMapped, OneEntry, NewDiffers,
           Chained, Renamings, Younger
<1>2. RegistersConserved'
    BY DEF Inv, FreeSquashed, RegistersConserved, Current, Previous, Renamings
<1> QED
    BY <1>1, <1>2 DEF Inv

(* Committing the oldest entry frees the register that it kept for undoing. *)
LEMMA CommitInv == ASSUME NEW h, Inv, CommitMapping(h) PROVE Inv'
<1>1. /\ h \in historyBuffer
      /\ historyBuffer' = historyBuffer \ {h}
      /\ renameMap' = renameMap /\ freeingInProgress' = freeingInProgress
    BY DEF CommitMapping
<1>2. h \in RenameHistory /\ historyBuffer \subseteq RenameHistory
    BY <1>1 DEF Inv, MapTypeOK
<1>3. freeList' = IF h \in Renamings THEN freeList \cup {h.prevPhysReg} ELSE freeList
    BY <1>1, <1>2, RegsAssumption
    DEF CommitMapping, Renamed, Inv, MiscFixed, NewDiffers, Renamings, RenameHistory, Regs
<1>4. (MapTypeOK /\ MiscFixed /\ ArchMapped /\ OneEntry)'
    BY <1>1, <1>2, <1>3, RegsAssumption
    DEF Inv, MapTypeOK, MiscFixed, ArchMapped, OneEntry, Renamings
<1>5. Renamings' = Renamings \ {h}
    BY <1>1 DEF Renamings
<1>6. \A g \in historyBuffer' : Younger(g)' = Younger(g)
    BY <1>1, <1>2 DEF Younger, CommitMapping, RenameHistory
<1>7. NewDiffers' /\ Chained'
    BY <1>1, <1>5, <1>6 DEF Inv, NewDiffers, Chained, Renamings
<1>8. RegistersConserved'
  <2>1. Current' = Current
    BY <1>1 DEF Current
  <2>2. CASE h \in Renamings
    <3>1. Previous' = Previous \ {h.prevPhysReg}
      BY <1>5, <2>2 DEF Previous, Inv, RegistersConserved
    <3> QED
      BY <1>1, <1>3, <1>5, <2>1, <2>2, <3>1 DEF Inv, RegistersConserved, Previous
  <2>3. CASE h \notin Renamings
    BY <1>1, <1>3, <1>5, <2>1, <2>3 DEF Inv, RegistersConserved, Previous
  <2> QED
    BY <2>2, <2>3
<1> QED
    BY <1>4, <1>7, <1>8 DEF Inv

(* Undoing the youngest entry takes the register it made out of the map.   *)
LEMMA UndoInv == ASSUME NEW h, Inv, UndoMapping(h) PROVE Inv'
<1>1. /\ h \in historyBuffer
      /\ \A g \in historyBuffer : g.instSeqNum <= h.instSeqNum
      /\ historyBuffer' = historyBuffer \ {h}
      /\ freeList' = freeList
    BY DEF UndoMapping
<1>2. h \in RenameHistory /\ historyBuffer \subseteq RenameHistory
    BY <1>1 DEF Inv, MapTypeOK
<1>3. Younger(h) = {}
    BY <1>1, <1>2 DEF Younger, RenameHistory
<1>4. \A g \in historyBuffer' : Younger(g)' = Younger(g) \ {h}
    BY <1>1 DEF Younger
<1>5. Renamings' = Renamings \ {h}
    BY <1>1 DEF Renamings
<1>6. CASE h \in Renamings
  <2>1. /\ h.archReg \in ArchRegs
        /\ h.newPhysReg = renameMap[h.archReg] /\ h.newPhysReg # h.prevPhysReg
        /\ h.newPhysReg \in PhysRegs /\ h.prevPhysReg \in PhysRegs
    BY <1>1, <1>2, <1>3, <1>6, RegsAssumption
    DEF Inv, Chained, NewDiffers, MiscFixed, Renamings, RenameHistory
  <2>2. /\ renameMap' = [renameMap EXCEPT ![h.archReg] = h.prevPhysReg]
        /\ freeingInProgress' = freeingInProgress \cup {h.newPhysReg}
    BY <2>1 DEF UndoMapping, Renamed
  <2>3. /\ renameMap \in [Regs -> PhysRegs \cup MiscRegs]
        /\ renameMap'[h.archReg] = h.prevPhysReg
        /\ \A a \in Regs \ {h.archReg} : renameMap'[a] = renameMap[a]
    BY <2>1, <2>2 DEF Inv, MapTypeOK, Regs
  <2>4. (MapTypeOK /\ MiscFixed /\ ArchMapped /\ OneEntry)'
    BY <1>1, <1>2, <2>1, <2>2, <2>3, RegsAssumption
    DEF Inv, MapTypeOK, MiscFixed, ArchMapped, OneEntry, Regs
  <2>5. NewDiffers'
    BY <1>5 DEF Inv, NewDiffers
  <2>6. Chained'
    <3> SUFFICES ASSUME NEW g \in Renamings'
                 PROVE  /\ Younger(g)' = {} => g.newPhysReg = renameMap'[g.archReg]
                        /\ \A k \in Younger(g)' :
                              \/ g.newPhysReg = k.prevPhysReg
                              \/ \E j \in Younger(g)' : j.instSeqNum < k.instSeqNum
      BY DEF Chained
    <3>1. g \in Renamings /\ g # h /\ g \in historyBuffer' /\ g.archReg \in Regs
      BY <1>1, <1>2, <1>5 DEF Renamings, Regs
    <3>2. Younger(g)' = Younger(g) \ {h}
      BY <1>4, <3>1
    <3>3. ASSUME Younger(g)' = {} PROVE g.newPhysReg = renameMap'[g.archReg]
      <4>1. CASE g.archReg = h.archReg
        <5>1. g.instSeqNum # h.instSeqNum
          BY <1>1, <3>1, <4>1 DEF Inv, OneEntry, Renamings
        <5>2. h \in Younger(g)
          BY <1>1, <1>2, <3>1, <4>1, <5>1 DEF Younger, Renamings, RenameHistory
        <5>3. \A j \in Younger(g) : ~(j.instSeqNum < h.instSeqNum)
          BY <1>2, <3>2, <3>3 DEF RenameHistory, Younger
        <5> QED
          BY <2>3, <3>1, <4>1, <5>2, <5>3 DEF Inv, Chained
      <4>2. CASE g.archReg # h.archReg
        <5>1. Younger(g) = {}
          BY <3>2, <3>3, <4>2 DEF Younger
        <5> QED
          BY <2>3, <3>1, <4>2, <5>1 DEF Inv, Chained
      <4> QED
        BY <4>1, <4>2
    <3>4. ASSUME NEW k \in Younger(g)'
          PROVE  \/ g.newPhysReg = k.prevPhysReg
                 \/ \E j \in Younger(g)' : j.instSeqNum < k.instSeqNum
      <4>1. k \in Younger(g) /\ k \in historyBuffer
        BY <3>2, <3>4 DEF Younger
      <4>2. \A j \in Younger(g) : j.instSeqNum < k.instSeqNum => j # h
        BY <1>1, <1>2, <4>1 DEF RenameHistory
      <4> QED
        BY <3>1, <3>2, <4>1, <4>2 DEF Inv, Chained
    <3> QED
      BY <3>3, <3>4
  <2>7. RegistersConserved'
    <3>1. Previous' = Previous \ {h.prevPhysReg} /\ h.prevPhysReg \in Previous
      BY <1>5, <1>6 DEF Previous, Inv, RegistersConserved
    <3>2. Current' = (Current \ {h.newPhysReg}) \cup {h.prevPhysReg} /\ h.newPhysReg \in Current
      BY <2>1, <2>3 DEF Current, Inv, RegistersConserved, Regs
    <3>3. \A a, b \in ArchRegs : renameMap'[a] = renameMap'[b] => a = b
      BY <2>1, <2>3, <3>1 DEF Current, Inv, RegistersConserved, Regs
    <3> QED
      BY <1>1, <1>5, <2>1, <2>2, <3>1, <3>2, <3>3 DEF Inv, RegistersConserved
  <2> QED
    BY <2>4, <2>5, <2>6, <2>7 DEF Inv
<1>7. CASE h \notin Renamings
  <2>1. renameMap' = renameMap /\ freeingInProgress' = freeingInProgress
    BY <1>1, <1>2, <1>7 DEF UndoMapping, Renamed, Renamings, Inv, MiscFixed, RenameHistory, Regs
  <2>2. Renamings' = Renamings /\ \A g \in Renamings : Younger(g)' = Younger(g)
    BY <1>1, <1>5, <1>7 DEF Renamings, Younger
  <2>3. (MapTypeOK /\ MiscFixed /\ ArchMapped /\ OneEntry)'
    BY <1>1, <2>1 DEF Inv, MapTypeOK, MiscFixed, ArchMapped, OneEntry
  <2>4. NewDiffers' /\ Chained'
    BY <2>1, <2>2 DEF Inv, NewDiffers, Chained
  <2>5. RegistersConserved'
    BY <1>1, <2>1, <2>2 DEF Inv, RegistersConserved, Current, Previous
  <2> QED
    BY <2>3, <2>4, <2>5 DEF Inv
<1> QED
    BY <1>6, <1>7

(* Renaming moves registers from the free list to the map, and those they  *)
(* replace from the map to the new entries.                                *)
LEMMA RenameInv ==
    ASSUME NEW n \in Nat, NEW dests \in SUBSET Regs, Inv, RenameDestRegs(n, dests)
    PROVE  Inv'
<1> DEFINE D == dests \cap ArchRegs
           E(a) == [instSeqNum |-> n, archReg |-> a,
                    newPhysReg |-> renameMap'[a], prevPhysReg |-> renameMap[a]]
<1>1. PICK new \in Injection(D, freeList) :
        /\ renameMap' = [a \in Regs |-> IF a \in D THEN new[a] ELSE renameMap[a]]
        /\ freeList' = freeList \ {new[a] : a \in D}
    BY DEF RenameDestRegs
<1>2. /\ \A h \in historyBuffer : h.instSeqNum < n
      /\ historyBuffer' = historyBuffer \cup {E(a) : a \in dests}
      /\ freeingInProgress' = freeingInProgress
    BY DEF RenameDestRegs
<1>3. new \in [D -> freeList] /\ \A a, b \in D : new[a] = new[b] => a = b
    BY DEF Injection, IsInjective
<1>4. /\ renameMap \in [Regs -> PhysRegs \cup MiscRegs] /\ freeList \subseteq PhysRegs
      /\ historyBuffer \subseteq RenameHistory
    BY DEF Inv, MapTypeOK
<1>5. /\ \A a \in D : renameMap'[a] = new[a] /\ new[a] \in freeList
      /\ \A a \in Regs \ D : renameMap'[a] = renameMap[a]
    BY <1>1, <1>3 DEF Regs
<1>6. MapTypeOK'
  <2>1. renameMap' \in [Regs -> PhysRegs \cup MiscRegs]
    BY <1>1, <1>3, <1>4
  <2>2. \A a \in dests : E(a) \in RenameHistory
    BY <1>4, <2>1 DEF RenameHistory
  <2> QED
    BY <1>1, <1>2, <1>4, <2>1, <2>2, ZenonT(30) DEF Inv, MapTypeOK
<1>7. MiscFixed' /\ ArchMapped'
  <2>1. \A a \in MiscRegs : renameMap'[a] = a /\ renameMap[a] = a
    BY <1>5, RegsAssumption DEF Inv, MiscFixed, Regs
  <2>2. \A a \in ArchRegs : renameMap'[a] \in PhysRegs /\ renameMap[a] \in PhysRegs
    BY <1>4, <1>5 DEF Inv, ArchMapped, Regs
  <2>3. \A a \in dests : E(a).archReg = a /\ E(a).newPhysReg = renameMap'[a]
                           /\ E(a).prevPhysReg = renameMap[a]
    OBVIOUS
  <2> QED
    BY <1>2, <2>1, <2>2, <2>3 DEF Inv, MiscFixed, ArchMapped, Regs
<1>8. OneEntry'
    BY <1>2, <1>4 DEF Inv, OneEntry, RenameHistory
<1>9. Renamings' = Renamings \cup {E(a) : a \in D}
    BY <1>2 DEF Renamings
<1>10. NewDiffers'
  <2>1. \A a \in D : renameMap[a] \in Current /\ renameMap'[a] \in freeList
    BY <1>5 DEF Current
  <2>2. \A a \in D : E(a).newPhysReg # E(a).prevPhysReg
    BY <2>1 DEF Inv, RegistersConserved
  <2> QED
    BY <1>9, <2>2 DEF Inv, NewDiffers
<1>11. Chained'
  <2> DEFINE Y(h) == {g \in historyBuffer' : g.archReg = h.archReg
                                             /\ g.instSeqNum > h.instSeqNum}
  <2>1. ASSUME NEW a \in D
        PROVE  Y(E(a)) = {} /\ E(a).newPhysReg = renameMap'[E(a).archReg]
    BY <1>2, <1>4 DEF RenameHistory
  <2>2. ASSUME NEW h \in Renamings, h.archReg \in D
        PROVE  Y(h) = Younger(h) \cup {E(h.archReg)}
    BY <1>2, <1>4, <2>2 DEF Younger, RenameHistory, Renamings
  <2>3. ASSUME NEW h \in Renamings, h.archReg \notin D
        PROVE  Y(h) = Younger(h)
    BY <1>2, <1>4, <2>3 DEF Younger, RenameHistory, Renamings
  <2>4. ASSUME NEW h \in Renamings, h.archReg \in D
        PROVE  /\ Y(h) = {} => h.newPhysReg = renameMap'[h.archReg]
               /\ \A g \in Y(h) : \/ h.newPhysReg = g.prevPhysReg
                                  \/ \E k \in Y(h) : k.instSeqNum < g.instSeqNum
    <3>1. /\ Younger(h) = {} => h.newPhysReg = E(h.archReg).prevPhysReg
          /\ \A g \in Younger(h) : g.instSeqNum < E(h.archReg).instSeqNum
      BY <1>2 DEF Inv, Chained, Younger
    <3> QED
      <4>1. Y(h) = Younger(h) \cup {E(h.archReg)}
        BY <2>2, <2>4, ZenonT(30)
      <4>2. ASSUME NEW g \in Younger(h)
            PROVE  \/ h.newPhysReg = g.prevPhysReg
                   \/ \E k \in Younger(h) : k.instSeqNum < g.instSeqNum
        BY ZenonT(30) DEF Inv, Chained
      <4> HIDE DEF Y, E
      <4>3. \A g \in Younger(h) : \/ h.newPhysReg = g.prevPhysReg
                                  \/ \E k \in Y(h) : k.instSeqNum < g.instSeqNum
        BY <4>1, <4>2, ZenonT(30)
      <4>4. \/ h.newPhysReg = E(h.archReg).prevPhysReg
            \/ \E k \in Y(h) : k.instSeqNum < E(h.archReg).instSeqNum
        BY <3>1, <4>1, ZenonT(30)
      <4> QED
        BY <4>1, <4>3, <4>4, ZenonT(30)
  <2>5. ASSUME NEW h \in Renamings, h.archReg \notin D
        PROVE  /\ Y(h) = {} => h.newPhysReg = renameMap'[h.archReg]
               /\ \A g \in Y(h) : \/ h.newPhysReg = g.prevPhysReg
                                  \/ \E k \in Y(h) : k.instSeqNum < g.instSeqNum
    <3>1. renameMap'[h.archReg] = renameMap[h.archReg]
      BY <1>4, <1>5, <2>5 DEF Renamings, RenameHistory
    <3> QED
      BY <2>3, <2>5, <3>1 DEF Inv, Chained
  <2>6. ASSUME NEW h \in Renamings'
        PROVE  /\ Y(h) = {} => h.newPhysReg = renameMap'[h.archReg]
               /\ \A g \in Y(h) : \/ h.newPhysReg = g.prevPhysReg
                                  \/ \E k \in Y(h) : k.instSeqNum < g.instSeqNum
    BY <1>9, <2>1, <2>4, <2>5
  <2> QED
    BY <2>6 DEF Chained, Younger
<1>12. RegistersConserved'
  <2>1. Current' = (Current \ {renameMap[a] : a \in D}) \cup {new[a] : a \in D}
    BY <1>5 DEF Current, Regs, Inv, RegistersConserved
  <2>2. Previous' = Previous \cup {renameMap[a] : a \in D}
    <3>1. \A a \in D : E(a).prevPhysReg = renameMap[a]
      OBVIOUS
    <3> HIDE DEF E
    <3> QED
      BY <1>9, <3>1 DEF Previous
  <2>3. /\ {renameMap[a] : a \in D} \subseteq Current
        /\ {new[a] : a \in D} \subseteq freeList
    BY <1>5 DEF Current
  <2>4. \A a, b \in ArchRegs : renameMap'[a] = renameMap'[b] => a = b
    BY <1>3, <1>5 DEF Current, Regs, Inv, RegistersConserved
  <2>5. \A g, h \in Renamings' : g.prevPhysReg = h.prevPhysReg => g = h
    BY <1>9, <2>3 DEF Inv, RegistersConserved, Previous
  <2> QED
    BY <1>1, <1>2, <2>1, <2>2, <2>3, <2>4, <2>5, ZenonT(30) DEF Inv, RegistersConserved
<1> QED
    BY <1>6, <1>7, <1>8, <1>10, <1>11, <1>12 DEF Inv

(* Every step of the renaming keeps it. *)
LEMMA NextInv == Inv /\ [MapNext]_mapVars => Inv'
<1>1. ASSUME Inv, UNCHANGED mapVars PROVE Inv'
  <2>1. (MapTypeOK /\ MiscFixed /\ ArchMapped /\ OneEntry)'
    BY <1>1 DEF mapVars, Inv, MapTypeOK, MiscFixed, ArchMapped, OneEntry
  <2>2. (NewDiffers /\ Chained)'
    BY <1>1 DEF mapVars, Inv, NewDiffers, Chained, Renamings, Younger
  <2>3. RegistersConserved'
    BY <1>1 DEF mapVars, Inv, RegistersConserved, Renamings, Current, Previous
  <2> QED
    BY <2>1, <2>2, <2>3 DEF Inv
<1> QED
    BY <1>1, RenameInv, UndoInv, CommitInv, FreeInv DEF MapNext

(***************************************************************************)
(* No physical register is lost, shared or freed while it may be needed,   *)
(* for any number of registers and instructions, whatever the order in     *)
(* which the stages rename, squash, commit and free (rename.cc).           *)
(***************************************************************************)
THEOREM RegistersCorrect == MapSpec => []RegistersConserved
<1>1. Inv => RegistersConserved
    BY DEF Inv
<1> QED
    BY <1>1, InitInv, NextInv, PTL DEF MapSpec

-----------------------------------------------------------------------------
(* Sequences, as the stages use them. *)
LEMMA SeqExcept ==
    ASSUME NEW S, NEW s \in Seq(S), NEW i \in 1..Len(s), NEW e \in S
    PROVE  [s EXCEPT ![i] = e] \in Seq(S)
OBVIOUS

(* Concatenation: skidInsert. *)
LEMMA SeqConcat ==
    ASSUME NEW S, NEW s \in Seq(S), NEW t \in Seq(S)
    PROVE  /\ s \o t \in Seq(S)
           /\ Len(s \o t) = Len(s) + Len(t)
           /\ \A i \in 1..(Len(s) + Len(t)) :
                 (s \o t)[i] = IF i <= Len(s) THEN s[i] ELSE t[i - Len(s)]
OBVIOUS

(* The head of a queue and the rest. *)
LEMMA SeqHeadTail ==
    ASSUME NEW S, NEW s \in Seq(S), s # <<>>
    PROVE  Head(s) \in S /\ Tail(s) \in Seq(S)
OBVIOUS

(* Something is put at the end of a queue. *)
LEMMA SeqAppend ==
    ASSUME NEW S, NEW s \in Seq(S), NEW e \in S
    PROVE  /\ Append(s, e) \in Seq(S)
           /\ Len(Append(s, e)) = Len(s) + 1
           /\ \A i \in 1..Len(s) : Append(s, e)[i] = s[i]
           /\ Append(s, e)[Len(s) + 1] = e
OBVIOUS

-----------------------------------------------------------------------------
Kinds == UNION {p.kinds : p \in Platforms}

Inst == [seqNum : Nat, dests : SUBSET Regs, kind : Kinds, temp : BOOLEAN, handled : BOOLEAN]

RenameFields ==
    {"status", "insts", "skid", "serializeInst", "serializeOnNext", "stall", "freeROB",
     "emptyROB", "inProgress", "available", "blockThisCycle", "renameBlock", "renameUnblock"}

(* A state of the rename stage whose queues hold instructions. *)
WellFormed(r) ==
    /\ DOMAIN r = RenameFields
    /\ r = [f \in RenameFields |-> r[f]]
    /\ r.insts \in Seq(Inst) /\ r.skid \in Seq(Inst)
    /\ r.status = "SerializeStall" => r.serializeInst \in Inst

QueuesInv ==
    /\ platform \in Platforms
    /\ nextSeq \in Nat
    /\ decode.out \in Seq(Inst)
    /\ WellFormed(rename)

-----------------------------------------------------------------------------
(* What the helpers of the rename stage make of such a state. *)
LEMMA SkidInsertWF == ASSUME NEW r, WellFormed(r) PROVE WellFormed(SkidInsert(r))
<1>1. r.skid \o r.insts \in Seq(Inst) /\ <<>> \in Seq(Inst)
    BY SeqConcat DEF WellFormed
<1>2. /\ DOMAIN SkidInsert(r) = RenameFields
      /\ SkidInsert(r) = [f \in RenameFields |-> SkidInsert(r)[f]]
      /\ SkidInsert(r).skid = r.skid \o r.insts /\ SkidInsert(r).insts = <<>>
      /\ SkidInsert(r).status = r.status /\ SkidInsert(r).serializeInst = r.serializeInst
    BY ZenonT(30) DEF WellFormed, SkidInsert, RenameFields
<1> QED
    BY <1>1, <1>2, ZenonT(30) DEF WellFormed

LEMMA BlockWF == ASSUME NEW r, WellFormed(r) PROVE WellFormed(Block(r))
BY SkidInsertWF, ZenonT(30) DEF WellFormed, Block, SkidInsert, RenameFields

LEMMA UnblockWF == ASSUME NEW r, WellFormed(r) PROVE WellFormed(Unblock(r))
BY ZenonT(30) DEF WellFormed, Unblock, RenameFields

LEMMA ReadSignalsWF == ASSUME NEW r, WellFormed(r) PROVE WellFormed(ReadSignals(r))
BY ZenonT(30) DEF WellFormed, ReadSignals, RenameFields

LEMMA QueueWF == ASSUME NEW r, WellFormed(r) PROVE Queue(r) \in Seq(Inst)
BY DEF WellFormed, Queue

LEMMA WithQueueWF ==
    ASSUME NEW r, WellFormed(r), NEW q \in Seq(Inst) PROVE WellFormed(WithQueue(r, q))
BY ZenonT(30) DEF WellFormed, WithQueue, RenameFields

LEMMA SetSerializeBeforeWF ==
    ASSUME NEW q \in Seq(Inst) PROVE SetSerializeBefore(q) \in Seq(Inst)
<1>1. CASE q = <<>>
    BY <1>1 DEF SetSerializeBefore
<1>2. CASE q # <<>>
  <2>1. 1 \in 1..Len(q) /\ 1 \in DOMAIN q /\ q[1] \in Inst
    BY <1>2
  <2>2. [q[1] EXCEPT !.temp = TRUE] \in Inst
    BY <2>1, ZenonT(30) DEF Inst
  <2>3. SetSerializeBefore(q) = [q EXCEPT ![1] = [q[1] EXCEPT !.temp = TRUE]]
    BY <1>2, <2>1 DEF SetSerializeBefore
  <2> QED
    BY <2>1, <2>2, <2>3, SeqExcept
<1> QED
    BY <1>1, <1>2

LEMMA ResumeWF == ASSUME NEW r, WellFormed(r) PROVE WellFormed(Resume(r))
<1> DEFINE u == Unblock([r EXCEPT !.status = "Unblocking"])
           inst == <<[r.serializeInst EXCEPT !.temp = FALSE]>>
<1>1. WellFormed([r EXCEPT !.status = "Unblocking"]) /\ WellFormed([r EXCEPT !.status = "Running"])
    BY ZenonT(30) DEF WellFormed, RenameFields
<1>2. WellFormed(u) /\ u.status # "SerializeStall"
    BY <1>1, UnblockWF, ZenonT(30) DEF Unblock, WellFormed, RenameFields
<1>3. CASE r.status = "SerializeStall"
  <2>1. inst \in Seq(Inst)
    <3>1. [r.serializeInst EXCEPT !.temp = FALSE] \in Inst
      BY <1>3, ZenonT(30) DEF WellFormed, Inst
    <3> QED
      BY <3>1
  <2>2. inst \o u.skid \in Seq(Inst) /\ inst \o u.insts \in Seq(Inst)
    BY <1>2, <2>1, SeqConcat DEF WellFormed
  <2>3. Resume(r) = [u EXCEPT !.skid = IF u.skid # <<>> THEN inst \o u.skid ELSE u.skid,
                              !.insts = IF u.skid = <<>> THEN inst \o u.insts ELSE u.insts,
                              !.serializeInst = NoInst]
    BY <1>2, <1>3 DEF Resume, WellFormed, RenameFields
  <2> HIDE DEF u, inst
  <2> QED
    BY <1>2, <2>2, <2>3, ZenonT(30) DEF WellFormed, RenameFields
<1>4. CASE r.status # "SerializeStall"
    BY <1>1, <1>2, <1>4 DEF Resume
<1> QED
    BY <1>3, <1>4

-----------------------------------------------------------------------------
(* One lemma per step that changes a queue. *)
LEMMA DecodeStep == QueuesInv /\ DecodeTick => QueuesInv'
<1> SUFFICES ASSUME QueuesInv, DecodeTick PROVE QueuesInv'
    OBVIOUS
<1> DEFINE stalled == (decode.stall \/ rename.renameBlock) /\ ~rename.renameUnblock
           most == IF stalled \/ fromCommit.squash THEN 0 ELSE platform.width
           out(n, new) == [i \in 1..n |->
                             [seqNum |-> nextSeq + i - 1, dests |-> new[i].dests,
                              kind |-> new[i].kind, temp |-> FALSE, handled |-> FALSE]]
<1>1. PICK n \in 0..most : \E new \in Insts(n) :
        nextSeq' = nextSeq + n /\ decode' = [stall |-> stalled, out |-> out(n, new)]
    BY ZenonT(30) DEF DecodeTick
<1>2. n \in Nat
    BY <1>1
<1>3. PICK new \in Insts(n) : decode' = [stall |-> stalled, out |-> out(n, new)]
    BY <1>1, ZenonT(30)
<1>4. \A i \in 1..n : new[i].dests \in SUBSET Regs /\ new[i].kind \in Kinds
  <2>1. \A i \in 1..n : new[i].dests \in platform.dests /\ new[i].kind \in platform.kinds
    BY <1>3 DEF Insts
  <2> QED
    <3>1. platform \in Platforms
      BY ZenonT(30) DEF QueuesInv
    <3>2. platform.dests \subseteq SUBSET Regs /\ platform.kinds \subseteq Kinds
      BY <3>1, PlatformsAssumption DEF Kinds
    <3> QED
      BY <2>1, <3>2
<1>5. nextSeq' \in Nat /\ \A i \in 1..n : nextSeq + i - 1 \in Nat
    BY <1>1, <1>2 DEF QueuesInv
<1>6. decode'.out \in Seq(Inst)
  <2>1. \A i \in 1..n : [seqNum |-> nextSeq + i - 1, dests |-> new[i].dests,
                          kind |-> new[i].kind, temp |-> FALSE, handled |-> FALSE] \in Inst
    BY <1>4, <1>5 DEF Inst
  <2>2. out(n, new) \in Seq(Inst)
    BY <1>2, <2>1
  <2>3. decode'.out = out(n, new)
    BY <1>3
  <2> QED
    BY <2>2, <2>3
<1>7. rename.insts \o decode.out \in Seq(Inst)
    BY SeqConcat DEF QueuesInv, WellFormed
<1>8. rename' = [rename EXCEPT !.insts = rename.insts \o decode.out,
                               !.renameBlock = FALSE, !.renameUnblock = FALSE]
    BY DEF DecodeTick, QueuesInv, WellFormed, RenameFields
<1>9. WellFormed(rename)'
    BY <1>7, <1>8, ZenonT(30) DEF QueuesInv, WellFormed, RenameFields
<1> QED
    BY <1>5, <1>6, <1>9 DEF QueuesInv, DecodeTick

LEMMA SquashStep == QueuesInv /\ RenameSquash => QueuesInv'
<1> SUFFICES ASSUME QueuesInv, RenameSquash PROVE QueuesInv'
    OBVIOUS
<1> DEFINE r == ReadSignals(rename)
<1>1. WellFormed(r)
    BY ReadSignalsWF DEF QueuesInv
<1>2. PICK x : rename' = [r EXCEPT !.status = "Squashing", !.insts = <<>>, !.skid = <<>>,
                                  !.serializeInst = NoInst, !.renameUnblock = x]
    BY ZenonT(30) DEF RenameSquash
<1> HIDE DEF r
<1>3. /\ DOMAIN rename' = RenameFields
      /\ rename' = [f \in RenameFields |-> rename'[f]]
      /\ rename'.insts = <<>> /\ rename'.skid = <<>> /\ rename'.status = "Squashing"
  <2> HIDE DEF NoInst
  <2> QED
    BY <1>1, <1>2, ZenonT(30) DEF WellFormed, RenameFields
<1>4. WellFormed(rename')
    BY <1>3 DEF WellFormed
<1> QED
    BY <1>4, ZenonT(30) DEF QueuesInv, RenameSquash, WellFormed

LEMMA SignalsStep == QueuesInv /\ CheckSignalsAndUpdate => QueuesInv'
<1> SUFFICES ASSUME QueuesInv, CheckSignalsAndUpdate PROVE QueuesInv'
    OBVIOUS
<1> DEFINE r == ReadSignals(rename)
<1>1. WellFormed(Block(r)) /\ WellFormed(Resume(r))
    BY ReadSignalsWF, BlockWF, ResumeWF DEF QueuesInv
<1>2. rename' = Block(r) \/ rename' = Resume(r)
    BY DEF CheckSignalsAndUpdate
<1>3. WellFormed(rename')
    BY <1>1, <1>2
<1> QED
    BY <1>3 DEF QueuesInv, CheckSignalsAndUpdate, WellFormed

LEMMA BeginStep == QueuesInv /\ RenameInstsBegin => QueuesInv'
<1> SUFFICES ASSUME QueuesInv, RenameInstsBegin PROVE QueuesInv'
    OBVIOUS
<1> DEFINE marked == WithQueue(rename, SetSerializeBefore(Queue(rename)))
<1>1. WellFormed(rename) /\ WellFormed(marked)
    BY QueueWF, SetSerializeBeforeWF, WithQueueWF DEF QueuesInv
<1>2. \E r \in {rename, marked} : \E x, y, z :
        rename' = [r EXCEPT !.available = x, !.blockThisCycle = y, !.serializeOnNext = z]
  <2> DEFINE active == /\ rename.status \in {"Running", "Idle", "Unblocking"}
                       /\ Queue(rename) # <<>>
             free == CalcFreeROBEntries(rename)
             serialized == rename.emptyROB /\ rename.inProgress = 0
             r == IF active /\ free > 0 /\ rename.serializeOnNext /\ ~serialized
                  THEN marked ELSE rename
  <2>1. r \in {rename, marked}
    OBVIOUS
  <2>2. \E x, y, z :
          rename' = [r EXCEPT !.available = x, !.blockThisCycle = y, !.serializeOnNext = z]
    BY ZenonT(30) DEF RenameInstsBegin
  <2> QED
    BY <2>1, <2>2, ZenonT(30)
<1> HIDE DEF marked
<1>3. PICK r \in {rename, marked} : \E x, y, z :
        rename' = [r EXCEPT !.available = x, !.blockThisCycle = y, !.serializeOnNext = z]
    BY <1>2, ZenonT(30)
<1>4. PICK x, y, z :
        rename' = [r EXCEPT !.available = x, !.blockThisCycle = y, !.serializeOnNext = z]
    BY <1>3, ZenonT(30)
<1>5. WellFormed(r)
    BY <1>1, <1>3
<1>6. WellFormed(rename)'
    BY <1>4, <1>5, ZenonT(30) DEF WellFormed, RenameFields
<1> QED
    BY <1>6 DEF QueuesInv, RenameInstsBegin

(* The instruction at hand, and the rest of the queue. *)
LEMMA HeadWF ==
    ASSUME QueuesInv, HasNext
    PROVE  Head(Queue(rename)) \in Inst /\ Tail(Queue(rename)) \in Seq(Inst)
BY QueueWF, SeqHeadTail DEF QueuesInv, HasNext

LEMMA StallStep == QueuesInv /\ SerializeStall => QueuesInv'
<1> SUFFICES ASSUME QueuesInv, SerializeStall PROVE QueuesInv'
    OBVIOUS
<1> DEFINE inst == Head(Queue(rename))
           r == WithQueue(rename, Tail(Queue(rename)))
           held == [inst EXCEPT !.handled = ~inst.temp]
<1>1. inst \in Inst /\ WellFormed(r)
    BY HeadWF, WithQueueWF, ZenonT(30) DEF QueuesInv, SerializeStall
<1>2. held \in Inst
  <2> HIDE DEF inst
  <2> QED
    BY <1>1, ZenonT(30) DEF Inst
<1>3. rename' = [r EXCEPT !.status = "SerializeStall", !.serializeInst = held,
                          !.blockThisCycle = TRUE]
    BY DEF SerializeStall
<1> HIDE DEF r, held
<1>4. WellFormed(rename)'
    BY <1>1, <1>2, <1>3, ZenonT(30) DEF WellFormed, RenameFields
<1> QED
    BY <1>4 DEF QueuesInv, SerializeStall

LEMMA InstStep == QueuesInv /\ RenameInst => QueuesInv'
<1> SUFFICES ASSUME QueuesInv, RenameInst PROVE QueuesInv'
    OBVIOUS
<1> DEFINE rest == Tail(Queue(rename))
           r1 == WithQueue(rename, rest)
           r2 == WithQueue(rename, SetSerializeBefore(rest))
<1>1. WellFormed(r1) /\ WellFormed(r2)
    BY HeadWF, WithQueueWF, SetSerializeBeforeWF, ZenonT(30) DEF QueuesInv, RenameInst
<1>2. \E r \in {r1, r2} : \E x, y :
        rename' = [r EXCEPT !.available = x, !.serializeOnNext = y]
  <2> DEFINE after == Head(Queue(rename)).kind = "after"
                      /\ ~Head(Queue(rename)).handled
             r == WithQueue(rename, IF after THEN SetSerializeBefore(rest) ELSE rest)
  <2>1. r \in {r1, r2}
    OBVIOUS
  <2>2. \E x, y : rename' = [r EXCEPT !.available = x, !.serializeOnNext = y]
    BY ZenonT(30) DEF RenameInst
  <2> QED
    BY <2>1, <2>2, ZenonT(30)
<1> HIDE DEF r1, r2
<1>3. PICK r \in {r1, r2} : \E x, y :
        rename' = [r EXCEPT !.available = x, !.serializeOnNext = y]
    BY <1>2, ZenonT(30)
<1>4. PICK x, y : rename' = [r EXCEPT !.available = x, !.serializeOnNext = y]
    BY <1>3, ZenonT(30)
<1>5. WellFormed(r)
    BY <1>1, <1>3
<1>6. WellFormed(rename)'
    BY <1>4, <1>5, ZenonT(30) DEF WellFormed, RenameFields
<1> QED
    BY <1>6 DEF QueuesInv, RenameInst

LEMMA EndStep == QueuesInv /\ RenameInstsEnd => QueuesInv'
<1> SUFFICES ASSUME QueuesInv, RenameInstsEnd PROVE QueuesInv'
    OBVIOUS
<1> DEFINE r == [rename EXCEPT !.inProgress = rename.inProgress + Len(toIEW[1])]
           c == [Block(r) EXCEPT !.renameUnblock = FALSE]
<1>1. WellFormed(r)
    BY ZenonT(30) DEF QueuesInv, WellFormed, RenameFields
<1>2. WellFormed(Block(r))
    BY <1>1, BlockWF
<1>3. WellFormed(c)
  <2> DEFINE q == Block(r)
  <2>1. WellFormed(q)
    BY <1>2
  <2> HIDE DEF q
  <2>2. WellFormed([q EXCEPT !.renameUnblock = FALSE])
    BY <2>1, ZenonT(30) DEF WellFormed, RenameFields
  <2> QED
    BY <2>2 DEF q
<1>4. /\ WellFormed(Unblock(SkidInsert(r))) /\ WellFormed(Unblock(SkidInsert(c)))
    BY <1>1, <1>3, SkidInsertWF, UnblockWF
<1>5. rename' \in {r, c, Unblock(SkidInsert(r)), Unblock(SkidInsert(c))}
    BY DEF RenameInstsEnd
<1>6. WellFormed(rename')
    BY <1>1, <1>3, <1>4, <1>5, ZenonT(30)
<1> QED
    BY <1>6, ZenonT(30) DEF QueuesInv, RenameInstsEnd, WellFormed

LEMMA HistoryStep == QueuesInv /\ RemoveFromHistory => QueuesInv'
BY ZenonT(30) DEF QueuesInv, RemoveFromHistory, WellFormed, RenameFields

LEMMA OtherSteps ==
    ASSUME QueuesInv,
           \/ DoSquash \/ IEWTick \/ SquashAll \/ SquashFromIEW \/ GetInsts
           \/ RetireSquashed \/ CommitHead \/ Fault \/ EndCycle \/ UNCHANGED vars
    PROVE  QueuesInv'
<1>1. UNCHANGED <<platform, nextSeq, decode, rename>>
    BY ZenonT(30) DEF DoSquash, IEWTick, SquashAll, SquashFromIEW, SquashTo, GetInsts,
           RetireSquashed, CommitHead, Fault, EndCycle, vars, pipeVars
<1> QED
    BY <1>1 DEF QueuesInv, WellFormed

(* The pipeline starts empty. *)
LEMMA QueuesInit == Init => QueuesInv
BY DEF Init, QueuesInv, WellFormed, RenameFields

(* In every reachable state the queues hold instructions. *)
LEMMA QueuesInvariant == Spec => []QueuesInv
<1>1. Init => QueuesInv
    BY QueuesInit
<1>2. QueuesInv /\ [Next]_vars => QueuesInv'
    BY DecodeStep, SquashStep, SignalsStep, BeginStep, StallStep, InstStep, EndStep,
       HistoryStep, OtherSteps DEF Next
<1> QED
    BY <1>1, <1>2, PTL DEF Spec
-----------------------------------------------------------------------------
(* The stages touch the map, the free list and the history only through    *)
(* the operations of RenameMap.                                            *)
LEMMA MapStep ==
    ASSUME QueuesInv, [Next]_vars
    PROVE  [MapNext]_mapVars
<1>1. CASE RenameInst
  <2> DEFINE inst == Head(Queue(rename))
  <2>1. inst \in Inst /\ RenameDestRegs(inst.seqNum, inst.dests)
    BY <1>1, HeadWF DEF RenameInst
  <2> HIDE DEF inst
  <2>2. inst.seqNum \in Nat /\ inst.dests \in SUBSET Regs
    BY <2>1 DEF Inst
  <2> QED
    BY <2>1, <2>2 DEF MapNext
<1>2. CASE DoSquash
  <2>1. (\E h \in Undone : UndoMapping(h)) \/ UNCHANGED mapVars
    BY <1>2 DEF DoSquash
  <2> QED
    BY <2>1 DEF MapNext, Undone
<1>3. CASE RemoveFromHistory
  <2>1. (\E h \in Removed : CommitMapping(h)) \/ UNCHANGED mapVars
    BY <1>3 DEF RemoveFromHistory
  <2>2. Removed \subseteq historyBuffer
    BY DEF Removed
  <2> QED
    BY <2>1, <2>2 DEF MapNext
<1>4. CASE CheckSignalsAndUpdate
    BY <1>4 DEF CheckSignalsAndUpdate, MapNext
<1>5. CASE \/ DecodeTick \/ RenameSquash \/ RenameInstsBegin \/ SerializeStall
           \/ RenameInstsEnd \/ IEWTick \/ SquashAll \/ SquashFromIEW \/ GetInsts
           \/ RetireSquashed \/ CommitHead \/ Fault \/ EndCycle \/ UNCHANGED vars
  <2>1. UNCHANGED mapVars
    BY <1>5, ZenonT(30) DEF DecodeTick, RenameSquash, RenameInstsBegin, SerializeStall,
       RenameInstsEnd, IEWTick, SquashAll, SquashFromIEW, SquashTo, GetInsts,
       RetireSquashed, CommitHead, Fault, EndCycle, vars
  <2> QED
    BY <2>1
<1> QED
    BY <1>1, <1>2, <1>3, <1>4, <1>5 DEF Next

(* The pipeline implements the renaming of RenameMap: on every CPU and for *)
(* every program, whatever the stages tell each other and when, rename     *)
(* only takes registers for a whole instruction, undoes the youngest       *)
(* renaming, commits the oldest or frees what a squash left behind.        *)
THEOREM PipelineRenames == Spec => MapSpec
<1>1. Init => MapInit
    BY DEF Init
<1>2. QueuesInv /\ [Next]_vars => [MapNext]_mapVars
    BY MapStep
<1> QED
    BY <1>1, <1>2, QueuesInvariant, PTL DEF Spec, MapSpec

(* No physical register of the pipeline is ever lost, freed twice or freed *)
(* while it is mapped or may be mapped again by a squash.                  *)
THEOREM PipelineConserves == Spec => []RegistersConserved
BY PipelineRenames, RegistersCorrect, PTL

-----------------------------------------------------------------------------
(* A buffer: its sequence numbers, whether they rise, whether all is squashed. *)
SeqNums(q) == {q[i].seqNum : i \in DOMAIN q}
Sorted(q) == \A i, j \in DOMAIN q : i < j => q[i].seqNum < q[j].seqNum
Below(M, N) == \A m \in M, n \in N : m < n
Marked(q) == \A i \in DOMAIN q : q[i].squashed

(* The instructions that rename has yet to take. *)
Held(r) == IF r.status = "SerializeStall" THEN {r.serializeInst.seqNum} ELSE {}
Nums(r) == Held(r) \cup SeqNums(r.skid) \cup SeqNums(r.insts)

(* rename holds its instructions in the order of fetch: the one it holds   *)
(* back to serialize, the skid buffer, what has just arrived from decode.  *)
Ordered(r) ==
    /\ Sorted(r.skid) /\ Sorted(r.insts) /\ Below(SeqNums(r.skid), SeqNums(r.insts))
    /\ Below(Held(r), SeqNums(r.skid) \cup SeqNums(r.insts))

(* Unless it is blocked, stalled or catching up its skid buffer is empty. *)
InOrder(r) ==
    /\ Ordered(r)
    /\ r.status \in {"Running", "Idle", "Squashing"} => r.skid = <<>>

(* Fetch order in decode and rename.  In the loop of renameInsts rename is *)
(* in a state that takes instructions, or has none to take.                *)
FrontInv ==
    /\ InOrder(rename)
    /\ Sorted(decode.out) /\ Below(Nums(rename), SeqNums(decode.out))
    /\ Below(Nums(rename) \cup SeqNums(decode.out), {nextSeq})
    /\ phase = "loop" => \/ rename.available = 0
                         \/ rename.status \in {"Running", "Idle", "Unblocking", "SerializeStall"}

(* What rename has yet to take, what decode sends it, and what is to be fetched. *)
Later == Nums(rename) \cup SeqNums(decode.out) \cup {nextSeq}

(* rename has thrown away what it had; it is told to stall. *)
NoInsts == rename.insts = <<>> /\ rename.skid = <<>> /\ rename.status = "Squashing"
Blocking == (rename.stall \/ fromIEW.block) /\ ~fromIEW.unblock

-----------------------------------------------------------------------------
(* The sequence numbers of sequences made of sequences. *)
LEMMA NumsEmpty == SeqNums(<<>>) = {} /\ Sorted(<<>>) /\ Marked(<<>>)
BY DEF SeqNums, Sorted, Marked

(* Concatenation keeps the order if the second part is the younger one. *)
LEMMA NumsConcat ==
    ASSUME NEW S, NEW q \in Seq(S), NEW r \in Seq(S)
    PROVE  /\ SeqNums(q \o r) = SeqNums(q) \cup SeqNums(r)
           /\ Sorted(q) /\ Sorted(r) /\ Below(SeqNums(q), SeqNums(r)) => Sorted(q \o r)
<1> DEFINE m == Len(q)
           n == Len(r)
           c == q \o r
<1>1. /\ m \in Nat /\ n \in Nat
      /\ DOMAIN q = 1..m /\ DOMAIN r = 1..n /\ DOMAIN c = 1..(m + n)
      /\ \A i \in 1..(m + n) : c[i] = IF i <= m THEN q[i] ELSE r[i - m]
    BY SeqConcat
<1> HIDE DEF m, n, c
<1>2. \A i \in 1..(m + n) : \/ i \in 1..m /\ c[i] = q[i]
                            \/ i - m \in 1..n /\ i > m /\ c[i] = r[i - m]
    BY <1>1
<1>3. /\ \A i \in 1..m : i \in 1..(m + n) /\ c[i] = q[i]
      /\ \A i \in 1..n : i + m \in 1..(m + n) /\ c[i + m] = r[i]
    BY <1>1
<1>4. SeqNums(c) = SeqNums(q) \cup SeqNums(r)
  <2>1. SeqNums(c) \subseteq SeqNums(q) \cup SeqNums(r)
    BY <1>1, <1>2, ZenonT(30) DEF SeqNums
  <2>2. SeqNums(q) \subseteq SeqNums(c)
    BY <1>1, <1>3 DEF SeqNums
  <2>3. SeqNums(r) \subseteq SeqNums(c)
    <3> SUFFICES ASSUME NEW i \in 1..n PROVE r[i].seqNum \in SeqNums(c)
      BY <1>1, ZenonT(30) DEF SeqNums
    <3>1. i + m \in DOMAIN c /\ r[i].seqNum = c[i + m].seqNum
      BY <1>1, <1>3
    <3> QED
      BY <3>1 DEF SeqNums
  <2> QED
    BY <2>1, <2>2, <2>3
<1>5. ASSUME Sorted(q), Sorted(r), Below(SeqNums(q), SeqNums(r)) PROVE Sorted(c)
  <2> SUFFICES ASSUME NEW i \in 1..(m + n), NEW j \in 1..(m + n), i < j
               PROVE  c[i].seqNum < c[j].seqNum
    BY <1>1 DEF Sorted
  <2>1. CASE j <= m
    <3>1. i \in 1..m /\ j \in 1..m
      BY <1>1, <2>1
    <3>2. c[i] = q[i] /\ c[j] = q[j]
      BY <1>3, <3>1, ZenonT(30)
    <3> QED
      BY <1>1, <1>5, <3>1, <3>2, ZenonT(30) DEF Sorted
  <2>2. CASE i <= m /\ j > m
    <3>1. c[i].seqNum \in SeqNums(q) /\ c[j].seqNum \in SeqNums(r)
      <4>1. i \in DOMAIN q /\ c[i] = q[i] /\ j - m \in DOMAIN r /\ c[j] = r[j - m]
        BY <1>1, <1>2, <2>2
      <4> QED
        BY <4>1 DEF SeqNums
    <3> QED
      BY <1>5, <3>1 DEF Below
  <2>3. CASE i > m
    <3>1. i - m \in 1..n /\ j - m \in 1..n /\ i - m < j - m
      BY <1>1, <2>3
    <3>2. c[i] = r[i - m] /\ c[j] = r[j - m]
      BY <1>1, <2>3
    <3> QED
      BY <1>1, <1>5, <3>1, <3>2, ZenonT(30) DEF Sorted
  <2> QED
    BY <1>1, <2>1, <2>2, <2>3
<1> QED
    BY <1>4, <1>5 DEF c

(* The head of a sorted buffer is the oldest. *)
LEMMA NumsTail ==
    ASSUME NEW S, NEW q \in Seq(S), q # <<>>
    PROVE  /\ SeqNums(q) = {Head(q).seqNum} \cup SeqNums(Tail(q))
           /\ Sorted(q) => Sorted(Tail(q)) /\ Below({Head(q).seqNum}, SeqNums(Tail(q)))
           /\ Marked(q) => Marked(Tail(q))
<1> DEFINE n == Len(q)
           t == Tail(q)
<1>1. /\ n \in Nat /\ n > 0 /\ DOMAIN q = 1..n /\ DOMAIN t = 1..(n - 1)
      /\ Head(q) = q[1] /\ \A i \in 1..(n - 1) : t[i] = q[i + 1]
    OBVIOUS
<1> HIDE DEF n, t
<1>2. \A i \in 1..n : i = 1 \/ (i - 1 \in 1..(n - 1) /\ t[i - 1] = q[i])
    BY <1>1
<1>3. SeqNums(q) = {Head(q).seqNum} \cup SeqNums(t)
  <2>1. SeqNums(q) \subseteq {Head(q).seqNum} \cup SeqNums(t)
    <3> SUFFICES ASSUME NEW i \in 1..n, i # 1 PROVE q[i].seqNum \in SeqNums(t)
      BY <1>1 DEF SeqNums
    <3>1. i - 1 \in DOMAIN t /\ q[i].seqNum = t[i - 1].seqNum
      BY <1>1, <1>2
    <3> QED
      BY <3>1 DEF SeqNums
  <2>2. SeqNums(t) \subseteq SeqNums(q) /\ Head(q).seqNum \in SeqNums(q)
    BY <1>1 DEF SeqNums
  <2> QED
    BY <2>1, <2>2
<1>4. Sorted(q) => Sorted(t) /\ Below({Head(q).seqNum}, SeqNums(t))
  <2> SUFFICES ASSUME Sorted(q) PROVE Sorted(t) /\ Below({Head(q).seqNum}, SeqNums(t))
    OBVIOUS
  <2>1. \A i, j \in 1..n : i < j => q[i].seqNum < q[j].seqNum
    BY <1>1, ZenonT(30) DEF Sorted
  <2>2. \A i \in 1..(n - 1) : q[1].seqNum < t[i].seqNum
    BY <1>1, <2>1
  <2>3. \A i, j \in 1..(n - 1) : i < j => t[i].seqNum < t[j].seqNum
    BY <1>1, <2>1
  <2> QED
    <3>1. Sorted(t)
      BY <1>1, <2>3, ZenonT(30) DEF Sorted
    <3>2. \A m \in SeqNums(t) : Head(q).seqNum < m
      BY <1>1, <2>2, ZenonT(30) DEF SeqNums
    <3> QED
      BY <3>1, <3>2, ZenonT(30) DEF Below
<1>5. Marked(q) => Marked(t)
    <2> SUFFICES ASSUME Marked(q), NEW i \in 1..(n - 1) PROVE t[i].squashed
      BY <1>1, ZenonT(30) DEF Marked
    <2>1. i + 1 \in 1..n
      BY <1>1
    <2>2. q[i + 1].squashed
      BY <1>1, <2>1, ZenonT(30) DEF Marked
    <2> QED
      BY <1>1, <2>2, ZenonT(30)
<1> QED
    BY <1>3, <1>4, <1>5 DEF t

(* One instruction is in order. *)
LEMMA NumsSingle == ASSUME NEW e PROVE SeqNums(<<e>>) = {e.seqNum} /\ Sorted(<<e>>)
BY DEF SeqNums, Sorted

(* Appending a younger instruction keeps the order. *)
LEMMA NumsAppend ==
    ASSUME NEW S, NEW q \in Seq(S), NEW e \in S
    PROVE  /\ SeqNums(Append(q, e)) = SeqNums(q) \cup {e.seqNum}
           /\ Sorted(q) /\ Below(SeqNums(q), {e.seqNum}) => Sorted(Append(q, e))
<1>1. Append(q, e) = q \o <<e>> /\ <<e>> \in Seq(S)
    OBVIOUS
<1>2. SeqNums(<<e>>) = {e.seqNum} /\ Sorted(<<e>>)
    BY NumsSingle
<1> DEFINE r == <<e>>
<1>3. /\ SeqNums(q \o r) = SeqNums(q) \cup SeqNums(r)
      /\ Sorted(q) /\ Sorted(r) /\ Below(SeqNums(q), SeqNums(r)) => Sorted(q \o r)
    BY <1>1, NumsConcat, ZenonT(30)
<1> HIDE DEF r
<1> QED
    BY <1>1, <1>2, <1>3, ZenonT(30) DEF r

(* A sequence that differs from another only in fields other than seqNum. *)
LEMMA NumsSame ==
    ASSUME NEW q, NEW r, DOMAIN q = DOMAIN r, \A i \in DOMAIN q : q[i].seqNum = r[i].seqNum
    PROVE  SeqNums(q) = SeqNums(r) /\ (Sorted(q) <=> Sorted(r))
BY DEF SeqNums, Sorted

(* Rename::serializeAfter leaves the sequence numbers alone. *)
LEMMA NumsSerializeBefore ==
    ASSUME NEW q \in Seq(Inst)
    PROVE  /\ SeqNums(SetSerializeBefore(q)) = SeqNums(q)
           /\ Sorted(SetSerializeBefore(q)) <=> Sorted(q)
           /\ SetSerializeBefore(q) = <<>> <=> q = <<>>
<1>1. CASE q = <<>>
    BY <1>1 DEF SetSerializeBefore
<1>2. CASE q # <<>>
  <2> DEFINE r == [q EXCEPT ![1] = [q[1] EXCEPT !.temp = TRUE]]
  <2>1. SetSerializeBefore(q) = r
    BY <1>2 DEF SetSerializeBefore
  <2>2. 1 \in DOMAIN q /\ q[1] \in Inst
    BY <1>2
  <2>3. [q[1] EXCEPT !.temp = TRUE].seqNum = q[1].seqNum
    BY <2>2 DEF Inst
  <2>4. DOMAIN r = DOMAIN q /\ \A i \in DOMAIN q : r[i].seqNum = q[i].seqNum
    BY <2>2, <2>3
  <2>5. r # <<>>
    BY <2>2, <2>4
  <2> HIDE DEF r
  <2> QED
    BY <1>2, <2>1, <2>4, <2>5, NumsSame
<1> QED
    BY <1>1, <1>2

-----------------------------------------------------------------------------
(* What the helpers of the rename stage do to the order of instructions.   *)
LEMMA OrderSame ==
    ASSUME NEW r, NEW t, t.skid = r.skid, t.insts = r.insts, t.status = r.status,
           t.serializeInst = r.serializeInst
    PROVE  /\ Nums(t) = Nums(r) /\ Held(t) = Held(r)
           /\ Ordered(t) <=> Ordered(r)
           /\ InOrder(t) <=> InOrder(r)
BY DEF Nums, Held, Ordered, InOrder

(* Rename::skidInsert moves the arrivals behind the skid buffer. *)
LEMMA SkidInsertOrder ==
    ASSUME NEW r, WellFormed(r), Ordered(r)
    PROVE  /\ Ordered(SkidInsert(r)) /\ Nums(SkidInsert(r)) = Nums(r)
           /\ SkidInsert(r).insts = <<>> /\ SkidInsert(r).skid = r.skid \o r.insts
           /\ SkidInsert(r).status = r.status
           /\ SkidInsert(r).serializeInst = r.serializeInst
<1> DEFINE t == SkidInsert(r)
<1>1. /\ t.insts = <<>> /\ t.skid = r.skid \o r.insts
      /\ t.status = r.status /\ t.serializeInst = r.serializeInst
    BY DEF SkidInsert, WellFormed, RenameFields
<1>2. /\ SeqNums(t.skid) = SeqNums(r.skid) \cup SeqNums(r.insts)
      /\ Sorted(t.skid)
  <2>1. r.skid \in Seq(Inst) /\ r.insts \in Seq(Inst)
    BY DEF WellFormed
  <2>2. /\ SeqNums(r.skid \o r.insts) = SeqNums(r.skid) \cup SeqNums(r.insts)
        /\ Sorted(r.skid \o r.insts)
    BY <2>1, NumsConcat DEF Ordered
  <2> QED
    BY <1>1, <2>2
<1>3. SeqNums(t.insts) = {} /\ Sorted(t.insts)
    BY <1>1, NumsEmpty
<1> HIDE DEF t
<1>4. Held(t) = Held(r)
    BY <1>1 DEF Held
<1>5. Ordered(t) /\ Nums(t) = Nums(r)
    BY <1>2, <1>3, <1>4 DEF Ordered, Nums, Below
<1> QED
    BY <1>1, <1>5 DEF t

(* Rename::block: all that rename has is in the skid buffer. *)
LEMMA BlockOrder ==
    ASSUME NEW r, WellFormed(r), Ordered(r)
    PROVE  /\ InOrder(Block(r)) /\ Nums(Block(r)) = Nums(r)
           /\ Block(r).insts = <<>> /\ Block(r).skid = r.skid \o r.insts
           /\ Block(r).status = IF r.status = "SerializeStall" THEN r.status ELSE "Blocked"
           /\ Block(r).available = r.available /\ Block(r).stall = r.stall
<1> DEFINE k == SkidInsert(r)
           t == Block(r)
<1>1. /\ Ordered(k) /\ Nums(k) = Nums(r)
      /\ k.insts = <<>> /\ k.skid = r.skid \o r.insts
      /\ k.status = r.status /\ k.serializeInst = r.serializeInst
    BY SkidInsertOrder, ZenonT(30)
<1>2. WellFormed(k) /\ k.available = r.available /\ k.stall = r.stall
    BY SkidInsertWF, ZenonT(30) DEF SkidInsert, WellFormed, RenameFields
<1>3. PICK x, y : t = [k EXCEPT !.renameBlock = x, !.renameUnblock = y,
                                !.status = IF k.status = "SerializeStall"
                                           THEN k.status ELSE "Blocked"]
    BY ZenonT(30) DEF Block
<1> HIDE DEF k, t
<1>4. /\ t.insts = k.insts /\ t.skid = k.skid /\ t.serializeInst = k.serializeInst
      /\ t.status = IF k.status = "SerializeStall" THEN k.status ELSE "Blocked"
      /\ t.available = k.available /\ t.stall = k.stall
    BY <1>2, <1>3 DEF WellFormed, RenameFields
<1>5. Held(t) = Held(k)
    BY <1>4 DEF Held
<1>6. InOrder(t) /\ Nums(t) = Nums(k)
    BY <1>1, <1>4, <1>5 DEF InOrder, Ordered, Nums
<1> QED
    BY <1>1, <1>2, <1>4, <1>6 DEF t

(* Rename::unblock. *)
LEMMA UnblockOrder ==
    ASSUME NEW r, WellFormed(r), Ordered(r), InOrder(r) \/ r.status = "Unblocking"
    PROVE  /\ InOrder(Unblock(r)) /\ Nums(Unblock(r)) = Nums(r)
           /\ Unblock(r).insts = r.insts /\ Unblock(r).skid = r.skid
           /\ Unblock(r).status = IF r.skid = <<>> /\ r.status # "SerializeStall"
                                  THEN "Running" ELSE r.status
           /\ Unblock(r).available = r.available
<1> DEFINE t == Unblock(r)
<1>1. /\ t.insts = r.insts /\ t.skid = r.skid /\ t.serializeInst = r.serializeInst
      /\ t.status = IF r.skid = <<>> /\ r.status # "SerializeStall"
                    THEN "Running" ELSE r.status
      /\ t.available = r.available
    BY DEF Unblock, WellFormed, RenameFields
<1> HIDE DEF t
<1>2. Held(t) = Held(r)
    BY <1>1 DEF Held
<1>3. InOrder(t) /\ Nums(t) = Nums(r)
    BY <1>1, <1>2 DEF InOrder, Ordered, Nums
<1> QED
    BY <1>1, <1>3 DEF t

(* The end of a stall in checkSignalsAndUpdate: the instruction that was   *)
(* held back goes in front of the others.                                  *)
LEMMA ResumeOrder ==
    ASSUME NEW r, WellFormed(r), InOrder(r)
    PROVE  /\ InOrder(Resume(r)) /\ Nums(Resume(r)) = Nums(r)
           /\ r.status = "Squashing" =>
                Resume(r).insts = r.insts /\ Resume(r).skid = r.skid
<1> DEFINE s == [r EXCEPT !.status = "Unblocking"]
           u == Unblock(s)
           inst == <<[r.serializeInst EXCEPT !.temp = FALSE]>>
<1>1. /\ WellFormed(s) /\ s.status = "Unblocking"
      /\ s.skid = r.skid /\ s.insts = r.insts
    BY ZenonT(30) DEF WellFormed, RenameFields
<1>2. Ordered(s)
  <2>1. Held(s) = {}
    BY <1>1 DEF Held
  <2> QED
    BY <1>1, <2>1 DEF InOrder, Ordered, Below
<1>3. /\ InOrder(u) /\ u.insts = r.insts /\ u.skid = r.skid
      /\ u.status = IF r.skid = <<>> THEN "Running" ELSE "Unblocking"
      /\ WellFormed(u)
    BY <1>1, <1>2, UnblockOrder, UnblockWF, ZenonT(30)
<1> HIDE DEF s, u
<1>4. Nums(u) = SeqNums(r.skid) \cup SeqNums(r.insts)
    BY <1>3 DEF Nums, Held
<1>5. CASE r.status = "Blocked"
  <2>1. Resume(r) = u
    BY <1>5 DEF Resume, u, s
  <2>2. Held(r) = {}
    BY <1>5 DEF Held
  <2> QED
    BY <1>3, <1>4, <1>5, <2>1, <2>2 DEF Nums
<1>6. CASE r.status = "Squashing"
  <2> DEFINE t == [r EXCEPT !.status = "Running"]
  <2>1. Resume(r) = t
    BY <1>6 DEF Resume
  <2>2. t.skid = r.skid /\ t.insts = r.insts /\ t.status = "Running"
    BY DEF WellFormed, RenameFields
  <2> HIDE DEF t
  <2>3. Held(t) = {} /\ Held(r) = {}
    BY <1>6, <2>2 DEF Held
  <2> QED
    BY <1>6, <2>1, <2>2, <2>3 DEF InOrder, Ordered, Nums
<1>7. CASE r.status = "SerializeStall"
  <2> DEFINE t == Resume(r)
             n == r.serializeInst.seqNum
  <2>1. inst \in Seq(Inst) /\ SeqNums(inst) = {n} /\ Sorted(inst) /\ inst # <<>>
    <3>1. /\ [r.serializeInst EXCEPT !.temp = FALSE] \in Inst
          /\ [r.serializeInst EXCEPT !.temp = FALSE].seqNum = n
      BY <1>7, ZenonT(30) DEF WellFormed, Inst
    <3>2. inst \in Seq(Inst) /\ inst # <<>>
      BY <3>1
    <3>3. SeqNums(inst) = {[r.serializeInst EXCEPT !.temp = FALSE].seqNum} /\ Sorted(inst)
      BY NumsSingle, ZenonT(30)
    <3> QED
      BY <3>1, <3>2, <3>3, ZenonT(30)
  <2> HIDE DEF inst
  <2>2. t = [u EXCEPT !.skid = IF u.skid # <<>> THEN inst \o u.skid ELSE u.skid,
                      !.insts = IF u.skid = <<>> THEN inst \o u.insts ELSE u.insts,
                      !.serializeInst = NoInst]
    BY <1>3, <1>7 DEF Resume, WellFormed, RenameFields, u, s, inst
  <2>3. /\ t.skid = IF r.skid # <<>> THEN inst \o r.skid ELSE r.skid
        /\ t.insts = IF r.skid = <<>> THEN inst \o r.insts ELSE r.insts
        /\ t.status = u.status
    <3> HIDE DEF t, NoInst
    <3> QED
      BY <1>3, <2>2 DEF WellFormed, RenameFields
  <2> HIDE DEF t
  <2>4. Held(r) = {n} /\ Held(t) = {}
    BY <1>3, <1>7, <2>3 DEF Held
  <2>5. Below(SeqNums(inst), SeqNums(r.skid)) /\ Below(SeqNums(inst), SeqNums(r.insts))
    BY <2>1, <2>4 DEF InOrder, Ordered, Below
  <2>6. CASE r.skid = <<>>
    <3>1. /\ SeqNums(t.insts) = {n} \cup SeqNums(r.insts)
          /\ Sorted(t.insts) /\ t.skid = <<>>
      <4>1. r.insts \in Seq(Inst) /\ Sorted(r.insts) /\ inst \in Seq(Inst) /\ Sorted(inst)
        BY <2>1 DEF WellFormed, InOrder, Ordered
      <4>2. SeqNums(inst \o r.insts) = SeqNums(inst) \cup SeqNums(r.insts) /\ Sorted(inst \o r.insts)
        BY <2>5, <4>1, NumsConcat
      <4> QED
        BY <2>1, <2>3, <2>6, <4>2
    <3>2. SeqNums(t.skid) = {} /\ Sorted(t.skid) /\ SeqNums(r.skid) = {}
      BY <2>6, <3>1, NumsEmpty
    <3> QED
      BY <1>7, <2>4, <2>6, <3>1, <3>2 DEF t, Nums, InOrder, Ordered, Below
  <2>7. CASE r.skid # <<>>
    <3>1. /\ SeqNums(t.skid) = {n} \cup SeqNums(r.skid)
          /\ Sorted(t.skid) /\ t.insts = r.insts
      <4>1. r.skid \in Seq(Inst) /\ Sorted(r.skid) /\ inst \in Seq(Inst) /\ Sorted(inst)
        BY <2>1 DEF WellFormed, InOrder, Ordered
      <4>2. SeqNums(inst \o r.skid) = SeqNums(inst) \cup SeqNums(r.skid) /\ Sorted(inst \o r.skid)
        BY <2>5, <4>1, NumsConcat
      <4> QED
        BY <2>1, <2>3, <2>7, <4>2
    <3>2. t.status = "Unblocking"
      BY <1>3, <2>3, <2>7
    <3> QED
      BY <1>7, <2>1, <2>4, <2>5, <3>1, <3>2 DEF t, Nums, InOrder, Ordered, Below
  <2> QED
    BY <2>6, <2>7
<1>8. CASE r.status \notin {"Blocked", "Squashing", "SerializeStall"}
    BY <1>8 DEF Resume
<1> QED
    BY <1>5, <1>6, <1>7, <1>8

-----------------------------------------------------------------------------
(* No instruction reaches rename that is older than one it has yet to take. *)
Rises == \A n \in Later' : n \in Nat /\ \E m \in Later : m <= n

(* Sequence numbers are naturals. *)
LEMMA LaterNat == ASSUME QueuesInv PROVE Later \subseteq Nat /\ nextSeq \in Nat
<1>1. ASSUME NEW q \in Seq(Inst) PROVE SeqNums(q) \subseteq Nat
  <2>1. \A i \in DOMAIN q : q[i] \in Inst
    OBVIOUS
  <2>2. \A i \in DOMAIN q : q[i].seqNum \in Nat
    BY <2>1 DEF Inst
  <2> QED
    BY <2>2 DEF SeqNums
<1>2. Held(rename) \subseteq Nat
    BY ZenonT(30) DEF Held, QueuesInv, WellFormed, Inst
<1> QED
    BY <1>1, <1>2 DEF QueuesInv, WellFormed, Later, Nums

(* A step that gives rename nothing new. *)
LEMMA FrontKept ==
    ASSUME QueuesInv, FrontInv, InOrder(rename'), Nums(rename') \subseteq Nums(rename),
           UNCHANGED <<decode, nextSeq>>,
           phase' = "loop" =>
             \/ rename'.available = 0
             \/ rename'.status \in {"Running", "Idle", "Unblocking", "SerializeStall"}
    PROVE  FrontInv' /\ Rises
<1>1. Nums(rename)' = Nums(rename') /\ InOrder(rename)' = InOrder(rename')
    OBVIOUS
<1>2. FrontInv'
    BY <1>1 DEF FrontInv, Below
<1>3. Later' \subseteq Later
    BY <1>1 DEF Later
<1>4. Rises
    BY <1>3, LaterNat DEF Rises
<1> QED
    BY <1>2, <1>4

(* Decode sends instructions younger than all that rename has. *)
LEMMA DecodeFront ==
    ASSUME QueuesInv, FrontInv, DecodeTick
    PROVE  /\ FrontInv' /\ Rises
           /\ fromCommit.squash => decode'.out = <<>>
           /\ decode.out = <<>> => rename'.insts = rename.insts
           /\ UNCHANGED <<rename.skid, rename.status, rename.stall, rename.available>>
<1> DEFINE stalled == (decode.stall \/ rename.renameBlock) /\ ~rename.renameUnblock
           most == IF stalled \/ fromCommit.squash THEN 0 ELSE platform.width
           out(n, new) == [i \in 1..n |->
                             [seqNum |-> nextSeq + i - 1, dests |-> new[i].dests,
                              kind |-> new[i].kind, temp |-> FALSE, handled |-> FALSE]]
<1>1. PICK n \in 0..most : \E new \in Insts(n) :
        nextSeq' = nextSeq + n /\ decode' = [stall |-> stalled, out |-> out(n, new)]
    BY ZenonT(30) DEF DecodeTick
<1>2. PICK new \in Insts(n) : decode' = [stall |-> stalled, out |-> out(n, new)]
    BY <1>1, ZenonT(30)
<1>3. n \in Nat /\ (fromCommit.squash => n = 0)
    BY <1>1
<1> DEFINE o == decode'.out
<1>4. o = out(n, new)
    BY <1>2
<1>5. DOMAIN o = 1..n /\ \A i \in 1..n : o[i].seqNum = nextSeq + i - 1
    BY <1>4
<1> HIDE DEF o, out
<1>6. \A m \in SeqNums(o) : nextSeq <= m /\ m < nextSeq' /\ m \in Nat
    <2> SUFFICES ASSUME NEW i \in 1..n
                 PROVE  LET m == o[i].seqNum IN nextSeq <= m /\ m < nextSeq' /\ m \in Nat
      BY <1>5, ZenonT(30) DEF SeqNums
    <2>1. o[i].seqNum = nextSeq + i - 1 /\ nextSeq \in Nat /\ nextSeq' = nextSeq + n
      BY <1>1, <1>5, LaterNat
    <2> QED
      BY <1>3, <2>1
<1>7. Sorted(o)
    <2> SUFFICES ASSUME NEW i \in 1..n, NEW j \in 1..n, i < j PROVE o[i].seqNum < o[j].seqNum
      BY <1>5, ZenonT(30) DEF Sorted
    <2>1. o[i].seqNum = nextSeq + i - 1 /\ o[j].seqNum = nextSeq + j - 1 /\ nextSeq \in Nat
      BY <1>5, LaterNat
    <2> QED
      BY <1>3, <2>1
<1>8. /\ rename'.insts = rename.insts \o decode.out
      /\ rename'.skid = rename.skid /\ rename'.status = rename.status
      /\ rename'.serializeInst = rename.serializeInst
      /\ rename'.stall = rename.stall /\ rename'.available = rename.available
    <2>1. rename' = [rename EXCEPT !.insts = rename.insts \o decode.out,
                                   !.renameBlock = FALSE, !.renameUnblock = FALSE]
      BY DEF DecodeTick
    <2> QED
      BY <2>1, ZenonT(30) DEF QueuesInv, WellFormed, RenameFields
<1>9. /\ SeqNums(rename'.insts) = SeqNums(rename.insts) \cup SeqNums(decode.out)
      /\ Sorted(rename'.insts)
  <2>1. rename.insts \in Seq(Inst) /\ decode.out \in Seq(Inst)
    BY DEF QueuesInv, WellFormed
  <2>2. /\ Sorted(rename.insts) /\ Sorted(decode.out)
        /\ Below(SeqNums(rename.insts), SeqNums(decode.out))
    BY DEF FrontInv, InOrder, Ordered, Nums, Below
  <2>3. /\ SeqNums(rename.insts \o decode.out) = SeqNums(rename.insts) \cup SeqNums(decode.out)
        /\ Sorted(rename.insts \o decode.out)
    BY <2>1, <2>2, NumsConcat
  <2> QED
    BY <1>8, <2>3
<1>10. Held(rename') = Held(rename)
    BY <1>8 DEF Held
<1>11. Nums(rename') = Nums(rename) \cup SeqNums(decode.out)
    BY <1>8, <1>9, <1>10 DEF Nums
<1>12. InOrder(rename')
  <2>1. /\ Below(SeqNums(rename.skid), SeqNums(decode.out))
        /\ Below(Held(rename), SeqNums(decode.out))
    BY DEF FrontInv, Nums, Below
  <2> QED
    BY <1>8, <1>9, <1>10, <2>1 DEF FrontInv, InOrder, Ordered, Below
<1>13. \A m \in Nums(rename') : m < nextSeq /\ m \in Nat
    BY <1>11, LaterNat DEF FrontInv, Below, Later
<1>14. FrontInv'
  <2>1. Below(Nums(rename'), SeqNums(o))
    BY <1>6, <1>13, LaterNat DEF Below
  <2>2. Below(Nums(rename') \cup SeqNums(o), {nextSeq'})
    BY <1>1, <1>3, <1>6, <1>13, LaterNat DEF Below
  <2>3. phase' # "loop"
    BY DEF DecodeTick
  <2> QED
    BY <1>7, <1>12, <2>1, <2>2, <2>3 DEF FrontInv, o
<1>15. Rises
  <2>1. nextSeq <= nextSeq' /\ nextSeq' \in Nat
    BY <1>1, <1>3, LaterNat
  <2>2. \A m \in Nums(rename') : m \in Later
    BY <1>11 DEF Later
  <2>3. Later' = Nums(rename') \cup SeqNums(o) \cup {nextSeq'}
    BY DEF Later, o
  <2> QED
    BY <1>6, <1>13, <2>1, <2>2, <2>3 DEF Rises, Later
<1>16. fromCommit.squash => o = <<>>
    BY <1>3, <1>4 DEF out
<1>17. decode.out = <<>> => rename'.insts = rename.insts
    BY <1>8 DEF QueuesInv, WellFormed
<1> QED
    BY <1>8, <1>14, <1>15, <1>16, <1>17, ZenonT(30) DEF o

(* Rename::squash throws everything away. *)
LEMMA SquashFront ==
    ASSUME QueuesInv, FrontInv, RenameSquash
    PROVE  /\ FrontInv' /\ Rises
           /\ rename'.insts = <<>> /\ rename'.skid = <<>> /\ rename'.status = "Squashing"
<1> DEFINE r == ReadSignals(rename)
<1>1. WellFormed(r)
    BY ReadSignalsWF DEF QueuesInv
<1>2. PICK x : rename' = [r EXCEPT !.status = "Squashing", !.insts = <<>>, !.skid = <<>>,
                                  !.serializeInst = NoInst, !.renameUnblock = x]
    BY ZenonT(30) DEF RenameSquash
<1> HIDE DEF r
<1>3. rename'.insts = <<>> /\ rename'.skid = <<>> /\ rename'.status = "Squashing"
  <2> HIDE DEF NoInst
  <2> QED
    BY <1>1, <1>2 DEF WellFormed, RenameFields
<1>4. InOrder(rename') /\ Nums(rename') = {}
    BY <1>3, NumsEmpty DEF InOrder, Ordered, Nums, Held, Below
<1>5. UNCHANGED <<decode, nextSeq>> /\ phase' # "loop"
    BY DEF RenameSquash
<1>6. FrontInv' /\ Rises
    BY <1>4, <1>5, FrontKept
<1> QED
    BY <1>3, <1>6

(* A stall signal keeps rename from resuming. *)
LEMMA SignalsFront ==
    ASSUME QueuesInv, FrontInv, CheckSignalsAndUpdate
    PROVE  /\ FrontInv' /\ Rises
           /\ Blocking => rename'.status \in {"Blocked", "SerializeStall"}
           /\ NoInsts => \/ rename'.status = "Blocked"
                         \/ rename'.insts = <<>> /\ rename'.skid = <<>>
<1> DEFINE r == ReadSignals(rename)
<1>1. WellFormed(r)
    BY ReadSignalsWF DEF QueuesInv
<1>2. /\ r.skid = rename.skid /\ r.insts = rename.insts /\ r.status = rename.status
      /\ r.serializeInst = rename.serializeInst
      /\ r.stall = ((rename.stall \/ fromIEW.block) /\ ~fromIEW.unblock)
    BY DEF ReadSignals, QueuesInv, WellFormed, RenameFields
<1>3. rename' = IF CheckStall(r) THEN Block(r) ELSE Resume(r)
    BY DEF CheckSignalsAndUpdate
<1>4. UNCHANGED <<decode, nextSeq>> /\ phase' # "loop"
    BY DEF CheckSignalsAndUpdate
<1> HIDE DEF r
<1>5. InOrder(r) /\ Ordered(r) /\ Nums(r) = Nums(rename)
    BY <1>2, OrderSame DEF FrontInv, InOrder
<1>6. Blocking => CheckStall(r)
    BY <1>2, ZenonT(30) DEF Blocking, CheckStall
<1>7. CASE CheckStall(r)
  <2>1. /\ InOrder(rename') /\ Nums(rename') = Nums(rename)
        /\ rename'.status = IF rename.status = "SerializeStall" THEN rename.status ELSE "Blocked"
    BY <1>1, <1>2, <1>3, <1>5, <1>7, BlockOrder, ZenonT(30)
  <2> QED
    BY <1>4, <2>1, FrontKept DEF NoInsts
<1>8. CASE ~CheckStall(r)
  <2>1. /\ InOrder(rename') /\ Nums(rename') = Nums(rename)
        /\ r.status = "Squashing" => rename'.insts = r.insts /\ rename'.skid = r.skid
    BY <1>1, <1>3, <1>5, <1>8, ResumeOrder
  <2> QED
    BY <1>2, <1>4, <1>6, <1>8, <2>1, FrontKept DEF NoInsts
<1> QED
    BY <1>7, <1>8

(* Which buffer renameInsts takes from. *)
LEMMA WithQueueOrder ==
    ASSUME NEW r, WellFormed(r), NEW q \in Seq(Inst)
    PROVE  /\ WithQueue(r, q).skid = IF r.status = "Unblocking" THEN q ELSE r.skid
           /\ WithQueue(r, q).insts = IF r.status = "Unblocking" THEN r.insts ELSE q
           /\ WithQueue(r, q).status = r.status
           /\ WithQueue(r, q).serializeInst = r.serializeInst
           /\ WithQueue(r, q).available = r.available
BY DEF WithQueue, WellFormed, RenameFields

(* The head of renameInsts. *)
LEMMA BeginFront ==
    ASSUME QueuesInv, FrontInv, RenameInstsBegin
    PROVE  /\ FrontInv' /\ Rises
           /\ rename'.status = rename.status
           /\ Queue(rename) = <<>> \/ rename.status \notin {"Running", "Idle", "Unblocking"} =>
                 /\ rename'.available = 0
                 /\ rename'.insts = rename.insts /\ rename'.skid = rename.skid
<1> DEFINE active == /\ rename.status \in {"Running", "Idle", "Unblocking"}
                     /\ Queue(rename) # <<>>
           free == CalcFreeROBEntries(rename)
           serialized == rename.emptyROB /\ rename.inProgress = 0
           q == SetSerializeBefore(Queue(rename))
           r == IF active /\ free > 0 /\ rename.serializeOnNext /\ ~serialized
                THEN WithQueue(rename, q) ELSE rename
           av == IF active THEN Max({0, Min({free, Len(Queue(rename))})}) ELSE 0
<1>1. q \in Seq(Inst) /\ Queue(rename) \in Seq(Inst) /\ WellFormed(rename)
    BY QueueWF, SetSerializeBeforeWF DEF QueuesInv
<1>2. WellFormed(r)
    BY <1>1, WithQueueWF
<1>3. PICK y, z : rename' = [r EXCEPT !.available = av, !.blockThisCycle = y,
                                      !.serializeOnNext = z]
    BY ZenonT(30) DEF RenameInstsBegin
<1>4. SeqNums(q) = SeqNums(Queue(rename)) /\ (Sorted(q) <=> Sorted(Queue(rename)))
    BY <1>1, NumsSerializeBefore
<1>5. /\ SeqNums(r.skid) = SeqNums(rename.skid) /\ SeqNums(r.insts) = SeqNums(rename.insts)
      /\ Sorted(r.skid) <=> Sorted(rename.skid)
      /\ Sorted(r.insts) <=> Sorted(rename.insts)
      /\ r.status = rename.status /\ r.serializeInst = rename.serializeInst
      /\ r.skid = rename.skid \/ rename.status = "Unblocking"
      /\ ~active => r.skid = rename.skid /\ r.insts = rename.insts
  <2>1. CASE r = rename
    BY <2>1, ZenonT(30)
  <2>2. CASE r = WithQueue(rename, q) /\ active
    <3> HIDE DEF q
    <3>1. /\ r.skid = IF rename.status = "Unblocking" THEN q ELSE rename.skid
          /\ r.insts = IF rename.status = "Unblocking" THEN rename.insts ELSE q
          /\ r.status = rename.status /\ r.serializeInst = rename.serializeInst
      BY <1>1, <2>2, WithQueueOrder
    <3> HIDE DEF r
    <3>2. CASE rename.status = "Unblocking"
      BY <1>4, <2>2, <3>1, <3>2 DEF Queue
    <3>3. CASE rename.status # "Unblocking"
      BY <1>4, <2>2, <3>1, <3>3 DEF Queue
    <3> QED
      BY <3>2, <3>3
  <2> QED
    BY <2>1, <2>2, ZenonT(30)
<1> HIDE DEF r, av
<1>6. /\ rename'.skid = r.skid /\ rename'.insts = r.insts /\ rename'.status = r.status
      /\ rename'.serializeInst = r.serializeInst /\ rename'.available = av
    BY <1>2, <1>3 DEF WellFormed, RenameFields
<1>7. Held(rename') = Held(rename)
    BY <1>5, <1>6 DEF Held
<1>8. InOrder(rename') /\ Nums(rename') = Nums(rename)
  <2>1. Nums(rename') = Nums(rename)
    BY <1>5, <1>6, <1>7 DEF Nums
  <2>2. Ordered(rename')
    BY <1>5, <1>6, <1>7 DEF FrontInv, InOrder, Ordered, Below
  <2> QED
    BY <1>5, <1>6, <2>1, <2>2 DEF FrontInv, InOrder
<1>9. ~active => av = 0
    BY DEF av
<1>10. UNCHANGED <<decode, nextSeq>>
    BY DEF RenameInstsBegin
<1>11. FrontInv' /\ Rises
    BY <1>5, <1>6, <1>8, <1>9, <1>10, FrontKept
<1> QED
    BY <1>5, <1>6, <1>9, <1>11

(* The instruction at hand is the oldest one that rename has. *)
LEMMA HeadFront ==
    ASSUME QueuesInv, FrontInv, phase = "loop", HasNext,
           NEW r, WellFormed(r), NEW t \in Seq(Inst),
           SeqNums(t) = SeqNums(Tail(Queue(rename))), Sorted(t),
           r = WithQueue(rename, t)
    PROVE  LET n == Head(Queue(rename)).seqNum
           IN /\ n \in Nums(rename) /\ Held(r) = {} /\ Below({n}, Nums(r))
              /\ Nums(r) \subseteq Nums(rename)
              /\ Ordered(r) /\ rename.status \in {"Running", "Idle", "Unblocking"}
              /\ rename.status \in {"Running", "Idle"} => r.skid = <<>>
<1> DEFINE q == Queue(rename)
           n == Head(q).seqNum
<1>1. q \in Seq(Inst) /\ q # <<>> /\ WellFormed(rename)
    BY QueueWF DEF QueuesInv, HasNext
<1>2. rename.status \in {"Running", "Idle", "Unblocking"}
    BY DEF FrontInv, HasNext
<1>3. /\ r.skid = IF rename.status = "Unblocking" THEN t ELSE rename.skid
      /\ r.insts = IF rename.status = "Unblocking" THEN rename.insts ELSE t
      /\ r.status = rename.status
    BY <1>1, WithQueueOrder
<1>4. Sorted(q)
    BY DEF FrontInv, InOrder, Ordered, Queue
<1> HIDE DEF q
<1>5. SeqNums(q) = {n} \cup SeqNums(t) /\ Below({n}, SeqNums(t))
  <2>1. /\ SeqNums(q) = {Head(q).seqNum} \cup SeqNums(Tail(q))
        /\ Below({Head(q).seqNum}, SeqNums(Tail(q)))
    BY <1>1, <1>4, NumsTail
  <2> QED
    BY <2>1 DEF Below, q
<1>6. Held(r) = {} /\ Held(rename) = {}
    BY <1>2, <1>3 DEF Held
<1> HIDE DEF n
<1>7. CASE rename.status = "Unblocking"
  <2>1. q = rename.skid /\ r.skid = t /\ r.insts = rename.insts
    BY <1>3, <1>7 DEF q, Queue
  <2>2. Nums(rename) = {n} \cup SeqNums(t) \cup SeqNums(r.insts)
    BY <1>5, <1>6, <2>1 DEF Nums
  <2>3. /\ Below(SeqNums(q), SeqNums(r.insts)) /\ Sorted(r.insts)
    BY <2>1 DEF FrontInv, InOrder, Ordered
  <2>4. Ordered(r) /\ Nums(r) = SeqNums(t) \cup SeqNums(r.insts)
    BY <1>5, <1>6, <2>1, <2>3 DEF Ordered, Nums, Below
  <2>5. Below({n}, Nums(r))
    BY <1>5, <2>3, <2>4 DEF Below
  <2> QED
    BY <1>2, <1>6, <1>7, <2>2, <2>4, <2>5 DEF n, q
<1>8. CASE rename.status # "Unblocking"
  <2>1. q = rename.insts /\ r.skid = <<>> /\ r.insts = t /\ rename.skid = <<>>
    BY <1>2, <1>3, <1>8 DEF q, Queue, FrontInv, InOrder
  <2>2. SeqNums(r.skid) = {} /\ Sorted(r.skid) /\ SeqNums(rename.skid) = {}
    BY <2>1, NumsEmpty
  <2>3. Nums(rename) = {n} \cup SeqNums(t)
    BY <1>5, <1>6, <2>1, <2>2 DEF Nums
  <2>4. Ordered(r) /\ Nums(r) = SeqNums(t)
    BY <1>5, <1>6, <2>1, <2>2 DEF Ordered, Nums, Below
  <2>5. Below({n}, Nums(r))
    BY <1>5, <2>4 DEF Below
  <2> QED
    BY <1>2, <1>6, <2>1, <2>3, <2>4, <2>5 DEF n, q
<1> QED
    BY <1>7, <1>8

(* An instruction that must wait is held back, in front of all others. *)
LEMMA StallFront ==
    ASSUME QueuesInv, FrontInv, SerializeStall
    PROVE  FrontInv' /\ Rises /\ rename'.available = rename.available
<1> DEFINE inst == Head(Queue(rename))
           t == Tail(Queue(rename))
           r == WithQueue(rename, t)
           held == [inst EXCEPT !.handled = ~inst.temp]
<1>1. inst \in Inst /\ t \in Seq(Inst) /\ Queue(rename) \in Seq(Inst) /\ Queue(rename) # <<>>
    BY HeadWF, QueueWF DEF SerializeStall, HasNext, QueuesInv
<1>2. WellFormed(r) /\ r.available = rename.available
    BY <1>1, WithQueueWF, WithQueueOrder, ZenonT(30) DEF QueuesInv
<1>3. Sorted(Queue(rename))
    BY DEF Queue, FrontInv, InOrder, Ordered
<1>4. Sorted(t)
    BY <1>1, <1>3, NumsTail, ZenonT(30)
<1>5. /\ inst.seqNum \in Nums(rename) /\ Below({inst.seqNum}, Nums(r))
      /\ Nums(r) \subseteq Nums(rename) /\ Ordered(r) /\ Held(r) = {}
    BY <1>1, <1>2, <1>4, HeadFront, ZenonT(30) DEF SerializeStall
<1>6. held.seqNum = inst.seqNum
  <2> HIDE DEF inst
  <2> QED
    BY <1>1 DEF Inst
<1>7. rename' = [r EXCEPT !.status = "SerializeStall", !.serializeInst = held,
                          !.blockThisCycle = TRUE]
    BY DEF SerializeStall
<1> HIDE DEF r, held, inst
<1>8. /\ rename'.status = "SerializeStall" /\ rename'.serializeInst = held
      /\ rename'.skid = r.skid /\ rename'.insts = r.insts
      /\ rename'.available = r.available
    BY <1>2, <1>7 DEF WellFormed, RenameFields
<1>9. Held(rename') = {inst.seqNum}
    BY <1>6, <1>8 DEF Held
<1>10. InOrder(rename') /\ Nums(rename') \subseteq Nums(rename)
    BY <1>5, <1>8, <1>9 DEF InOrder, Ordered, Nums, Below
<1>11. UNCHANGED <<decode, nextSeq>>
    BY DEF SerializeStall
<1>12. FrontInv' /\ Rises
    BY <1>8, <1>10, <1>11, FrontKept
<1> QED
    BY <1>2, <1>8, <1>12

(* What is renamed is older than all that follows. *)
LEMMA InstFront ==
    ASSUME QueuesInv, FrontInv, RenameInst
    PROVE  /\ FrontInv' /\ Rises
           /\ Head(Queue(rename)).seqNum \in Later
           /\ Below({Head(Queue(rename)).seqNum}, Later')
<1> DEFINE inst == Head(Queue(rename))
           n == inst.seqNum
           rest == Tail(Queue(rename))
           after == inst.kind = "after" /\ ~inst.handled
           t == IF after THEN SetSerializeBefore(rest) ELSE rest
           r == WithQueue(rename, t)
<1>1. inst \in Inst /\ rest \in Seq(Inst) /\ Queue(rename) \in Seq(Inst) /\ Queue(rename) # <<>>
    BY HeadWF, QueueWF DEF RenameInst, HasNext, QueuesInv
<1>2. Sorted(Queue(rename))
    BY DEF Queue, FrontInv, InOrder, Ordered
<1>3. Sorted(rest)
    BY <1>1, <1>2, NumsTail, ZenonT(30)
<1>4. t \in Seq(Inst) /\ SeqNums(t) = SeqNums(rest) /\ Sorted(t)
  <2> HIDE DEF rest
  <2> QED
    BY <1>1, <1>3, NumsSerializeBefore, SetSerializeBeforeWF
<1>5. rename' = [r EXCEPT !.available = rename.available - 1,
                          !.serializeOnNext = rename.serializeOnNext \/ (after /\ rest = <<>>)]
  <2>1. r.available = rename.available /\ r.serializeOnNext = rename.serializeOnNext
    BY DEF WithQueue, QueuesInv, WellFormed, RenameFields
  <2>2. rename' = [r EXCEPT !.available = @ - 1,
                            !.serializeOnNext = @ \/ (after /\ rest = <<>>)]
    BY DEF RenameInst
  <2> HIDE DEF r, after, rest
  <2> QED
    BY <2>1, <2>2
<1> HIDE DEF t
<1>6. WellFormed(r)
    BY <1>4, WithQueueWF DEF QueuesInv
<1>7. /\ n \in Nums(rename) /\ Below({n}, Nums(r)) /\ Nums(r) \subseteq Nums(rename)
      /\ Ordered(r) /\ rename.status \in {"Running", "Idle", "Unblocking"}
      /\ rename.status \in {"Running", "Idle"} => r.skid = <<>>
    BY <1>4, <1>6, HeadFront, ZenonT(30) DEF RenameInst
<1>8. r.status = rename.status
    BY <1>4, WithQueueOrder DEF QueuesInv
<1> HIDE DEF r, after, rest
<1>9. /\ rename'.status = r.status /\ rename'.serializeInst = r.serializeInst
      /\ rename'.skid = r.skid /\ rename'.insts = r.insts
    BY <1>5, <1>6 DEF WellFormed, RenameFields
<1>10. InOrder(rename') /\ Nums(rename') = Nums(r)
    BY <1>7, <1>8, <1>9, OrderSame DEF InOrder
<1>11. UNCHANGED <<decode, nextSeq>>
    BY DEF RenameInst
<1>12. FrontInv' /\ Rises
    BY <1>7, <1>8, <1>9, <1>10, <1>11, FrontKept
<1>13. Below({n}, Later')
  <2>1. Below({n}, SeqNums(decode.out) \cup {nextSeq})
    BY <1>7 DEF FrontInv, Below
  <2>2. Later' = Nums(rename') \cup SeqNums(decode.out) \cup {nextSeq}
    BY <1>11 DEF Later
  <2> QED
    BY <1>7, <1>10, <2>1, <2>2 DEF Below
<1>14. n \in Later
    BY <1>7 DEF Later
<1> QED
    BY <1>12, <1>13, <1>14

(* The tail of renameInsts. *)
LEMMA EndFront ==
    ASSUME QueuesInv, FrontInv, RenameInstsEnd PROVE FrontInv' /\ Rises
<1> DEFINE r == [rename EXCEPT !.inProgress = rename.inProgress + Len(toIEW[1])]
           k == Block(r)
           c == [k EXCEPT !.renameUnblock = FALSE]
           b == IF r.available > 0 \/ r.blockThisCycle THEN c ELSE r
<1>1. /\ r.skid = rename.skid /\ r.insts = rename.insts /\ r.status = rename.status
      /\ r.serializeInst = rename.serializeInst /\ WellFormed(r)
    BY ZenonT(30) DEF QueuesInv, WellFormed, RenameFields
<1>2. InOrder(r) /\ Ordered(r) /\ Nums(r) = Nums(rename)
    BY <1>1, OrderSame, ZenonT(30) DEF FrontInv, InOrder
<1> HIDE DEF r
<1>3. InOrder(k) /\ Nums(k) = Nums(rename) /\ WellFormed(k)
    BY <1>1, <1>2, BlockOrder, BlockWF, ZenonT(30)
<1> HIDE DEF k
<1>4. /\ c.skid = k.skid /\ c.insts = k.insts /\ c.status = k.status
      /\ c.serializeInst = k.serializeInst /\ WellFormed(c)
    BY <1>3, ZenonT(30) DEF WellFormed, RenameFields
<1>5. InOrder(c) /\ Nums(c) = Nums(rename)
    BY <1>3, <1>4, OrderSame, ZenonT(30)
<1> HIDE DEF c
<1>6. InOrder(b) /\ Ordered(b) /\ Nums(b) = Nums(rename) /\ WellFormed(b)
    BY <1>1, <1>2, <1>4, <1>5 DEF InOrder
<1>7. rename' = IF b.status = "Unblocking" THEN Unblock(SkidInsert(b)) ELSE b
    BY DEF RenameInstsEnd, b, c, k, r
<1> HIDE DEF b
<1>8. CASE b.status = "Unblocking"
  <2> DEFINE i == SkidInsert(b)
  <2>1. WellFormed(i) /\ Ordered(i) /\ Nums(i) = Nums(b) /\ i.status = "Unblocking"
    BY <1>6, <1>8, SkidInsertWF, SkidInsertOrder, ZenonT(30)
  <2> HIDE DEF i
  <2>2. InOrder(Unblock(i)) /\ Nums(Unblock(i)) = Nums(b)
    BY <2>1, UnblockOrder
  <2> QED
    BY <1>6, <1>7, <1>8, <2>2, FrontKept, ZenonT(30) DEF i, RenameInstsEnd
<1>9. CASE b.status # "Unblocking"
    BY <1>6, <1>7, <1>9, FrontKept, ZenonT(30) DEF RenameInstsEnd
<1> QED
    BY <1>8, <1>9

(* removeFromHistory leaves rename's buffers alone. *)
LEMMA HistoryFront ==
    ASSUME QueuesInv, FrontInv, RemoveFromHistory
    PROVE  /\ FrontInv' /\ Rises
           /\ UNCHANGED <<rename.insts, rename.skid, rename.status, rename.stall>>
<1>1. /\ rename'.skid = rename.skid /\ rename'.insts = rename.insts
      /\ rename'.status = rename.status /\ rename'.serializeInst = rename.serializeInst
      /\ rename'.stall = rename.stall
    BY ZenonT(30) DEF RemoveFromHistory, QueuesInv, WellFormed, RenameFields
<1>2. UNCHANGED <<decode, nextSeq>> /\ phase' # "loop"
    BY DEF RemoveFromHistory
<1>3. InOrder(rename') /\ Nums(rename') = Nums(rename)
    BY <1>1, OrderSame DEF FrontInv
<1> QED
    BY <1>1, <1>2, <1>3, FrontKept

(* Neither do the later stages touch decode and rename. *)
LEMMA OtherFront ==
    ASSUME QueuesInv, FrontInv,
           \/ DoSquash \/ IEWTick \/ SquashAll \/ SquashFromIEW \/ GetInsts
           \/ RetireSquashed \/ CommitHead \/ Fault \/ EndCycle \/ UNCHANGED vars
    PROVE  FrontInv' /\ Rises
<1>1. UNCHANGED <<decode, rename, nextSeq>>
    BY ZenonT(30) DEF DoSquash, IEWTick, SquashAll, SquashFromIEW, SquashTo, GetInsts,
           RetireSquashed, CommitHead, Fault, EndCycle, vars, pipeVars
<1>2. phase' = "loop" => phase = "loop"
    BY DEF DoSquash, IEWTick, SquashAll, SquashFromIEW, SquashTo, GetInsts, AtHead,
           RetireSquashed, CommitHead, Fault, EndCycle, vars, pipeVars
<1>3. InOrder(rename') /\ Nums(rename') = Nums(rename)
    BY <1>1 DEF FrontInv
<1> QED
    BY <1>1, <1>2, <1>3, FrontKept DEF FrontInv

=============================================================================
