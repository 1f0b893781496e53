----------------------------- MODULE RenameMap -----------------------------
(***************************************************************************)
(* Register renaming of the out-of-order CPU (cpu/o3): the rename map, the *)
(* free list and the history buffer of one thread, for one register class. *)
(* An instruction is renamed, its renaming is undone when it is squashed   *)
(* and made final when it is committed; the registers of squashed          *)
(* instructions wait in freeingInProgress until the reorder buffer is done *)
(* squashing.  When each of these happens is left open here: O3Pipeline    *)
(* has the stages that decide it.                                          *)
(*                                                                         *)
(* The free list is a queue in the code.  Only its contents matter to what *)
(* is stated below, so it is a set and getReg takes any member.            *)
(***************************************************************************)
EXTENDS Integers, FiniteSets, Functions

CONSTANTS ArchRegs,  \* architectural registers that are renamed
          MiscRegs,  \* registers that are not: each is its own physical register
          PhysRegs   \* the physical registers of the class

ASSUME RegsAssumption ==
    /\ ArchRegs \cap MiscRegs = {}
    /\ PhysRegs \cap MiscRegs = {}

VARIABLES renameMap, freeList, historyBuffer, freeingInProgress

mapVars == <<renameMap, freeList, historyBuffer, freeingInProgress>>

Regs == ArchRegs \cup MiscRegs

RenameHistory ==
    [instSeqNum : Nat, archReg : Regs,
     newPhysReg : PhysRegs \cup MiscRegs, prevPhysReg : PhysRegs \cup MiscRegs]

(* The first registers of the free list go to the architectural ones. *)
MapInit ==
    /\ \E map \in Injection(ArchRegs, PhysRegs) :
          /\ renameMap = [a \in Regs |-> IF a \in ArchRegs THEN map[a] ELSE a]
          /\ freeList = PhysRegs \ {map[a] : a \in ArchRegs}
    /\ historyBuffer = {}
    /\ freeingInProgress = {}

CanRename(dests) == Cardinality(dests \cap ArchRegs) <= Cardinality(freeList)

(* renameDestRegs for instruction n: a register off the free list for each *)
(* destination, and a history entry that remembers the one it replaces.    *)
RenameDestRegs(n, dests) ==
    /\ \A h \in historyBuffer : h.instSeqNum < n
    /\ \E new \in Injection(dests \cap ArchRegs, freeList) :
          /\ renameMap' = [a \in Regs |->
                             IF a \in dests \cap ArchRegs THEN new[a] ELSE renameMap[a]]
          /\ freeList' = freeList \ {new[a] : a \in dests \cap ArchRegs}
    /\ historyBuffer' = historyBuffer \cup
          {[instSeqNum |-> n, archReg |-> a,
            newPhysReg |-> renameMap'[a], prevPhysReg |-> renameMap[a]] : a \in dests}
    /\ UNCHANGED freeingInProgress

(* Fault: the register of a misc register is freed, too. *)
Renamed_Always(h) == TRUE

(* Only a real renaming has a register to give back. *)
Renamed(h) == h.newPhysReg # h.prevPhysReg

(* One turn of doSquash's loop: the youngest entry is undone. *)
UndoMapping(h) ==
    /\ h \in historyBuffer
    /\ \A g \in historyBuffer : g.instSeqNum <= h.instSeqNum
    /\ IF Renamed(h)
         THEN /\ renameMap' = [renameMap EXCEPT ![h.archReg] = h.prevPhysReg]
              /\ freeingInProgress' = freeingInProgress \cup {h.newPhysReg}
         ELSE UNCHANGED <<renameMap, freeingInProgress>>
    /\ historyBuffer' = historyBuffer \ {h}
    /\ UNCHANGED freeList

(* One turn of removeFromHistory's loop: the oldest entry is committed. *)
CommitMapping(h) ==
    /\ h \in historyBuffer
    /\ \A g \in historyBuffer : h.instSeqNum <= g.instSeqNum
    /\ freeList' = freeList \cup (IF Renamed(h) THEN {h.prevPhysReg} ELSE {})
    /\ historyBuffer' = historyBuffer \ {h}
    /\ UNCHANGED <<renameMap, freeingInProgress>>

(* The registers of squashed instructions go back on the free list. *)
FreeSquashed ==
    /\ freeList' = freeList \cup freeingInProgress
    /\ freeingInProgress' = {}
    /\ UNCHANGED <<renameMap, historyBuffer>>

MapNext ==
    \/ \E n \in Nat, dests \in SUBSET Regs : RenameDestRegs(n, dests)
    \/ \E h \in historyBuffer : UndoMapping(h) \/ CommitMapping(h)
    \/ FreeSquashed

MapSpec == MapInit /\ [][MapNext]_mapVars

-----------------------------------------------------------------------------
MapTypeOK ==
    /\ renameMap \in [Regs -> PhysRegs \cup MiscRegs]
    /\ freeList \subseteq PhysRegs
    /\ freeingInProgress \subseteq PhysRegs
    /\ historyBuffer \subseteq RenameHistory

(* The registers that hold the current value of an architectural register, *)
(* and those that a squash could make current again.                       *)
Current == {renameMap[a] : a \in ArchRegs}
Renamings == {h \in historyBuffer : h.archReg \in ArchRegs}
Previous == {h.prevPhysReg : h \in Renamings}

(* Every physical register is in exactly one place: on the free list, on   *)
(* its way there after a squash, current for one architectural register,   *)
(* or held back by one history entry for a squash that may still come.     *)
(* doSquash and removeFromHistory free a register each from the same       *)
(* entry, one the new and the other the previous one; were a register      *)
(* freed twice, or freed while mapped, two values would share it.          *)
RegistersConserved ==
    /\ PhysRegs = freeList \cup freeingInProgress \cup Current \cup Previous
    /\ (freeList \cup freeingInProgress) \cap (Current \cup Previous) = {}
    /\ freeList \cap freeingInProgress = {}
    /\ Current \cap Previous = {}
    /\ \A a, b \in ArchRegs : renameMap[a] = renameMap[b] => a = b
    /\ \A g, h \in Renamings : g.prevPhysReg = h.prevPhysReg => g = h
=============================================================================
