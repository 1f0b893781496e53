---------------------------- MODULE O3Pipeline ----------------------------
(***************************************************************************)
(* The stages of the out-of-order CPU (cpu/o3) that decide when registers  *)
(* are renamed, restored and freed: decode's flow control, rename, the     *)
(* dispatch half of issue/execute/writeback (IEW), commit and the reorder  *)
(* buffer (ROB), for one thread.  CPU::tick runs the stages in pipeline    *)
(* order once per cycle; what a stage writes for another is seen one cycle *)
(* later (two from rename to IEW).  "phase" is the place reached in a      *)
(* tick, and a loop of a stage takes one step per turn.                    *)
(*                                                                         *)
(* Left open: which instructions decode delivers, when an instruction has  *)
(* executed, mispredicts, violates the memory order or faults.  The issue  *)
(* and load/store queues are never full, and no store holds back emptyROB. *)
(***************************************************************************)
EXTENDS RenameMap, Sequences, FiniteSetsExt

CONSTANT Platforms  \* the CPUs and the programs they run: how many instructions,
                    \* with which destinations and of which kinds, on which
                    \* stage, ROB and squash widths

ASSUME PlatformsAssumption ==
    \A p \in Platforms : p.dests \subseteq SUBSET Regs /\ p.squashWidth \in Nat

VARIABLES platform, phase, nextSeq,
          decode,      \* stalls.rename, and the instructions sent this cycle
          rename,      \* the rename stage, with its wires to decode
          toIEW,       \* renamed instructions, by the cycles since
          dispatchStatus,
          commit,      \* the commit stage and the ROB
          commitMap,   \* commit's rename map
          fromIEW, fromCommit

pipeVars == <<platform, phase, nextSeq, decode, rename, toIEW, dispatchStatus,
              commit, commitMap, fromIEW, fromCommit>>
vars == <<mapVars, pipeVars>>

Insts(size) == [1..size -> [dests : platform.dests, kind : platform.kinds]]
NoInst == [seqNum |-> 0]

Init ==
    /\ MapInit
    /\ platform \in Platforms
    /\ phase = "decode"
    /\ nextSeq = 1
    /\ decode = [stall |-> FALSE, out |-> <<>>]
    /\ rename = [status |-> "Idle", insts |-> <<>>, skid |-> <<>>,
                 serializeInst |-> NoInst, serializeOnNext |-> FALSE,
                 stall |-> FALSE, freeROB |-> platform.robEntries, emptyROB |-> TRUE,
                 inProgress |-> 0, available |-> 0, blockThisCycle |-> FALSE,
                 renameBlock |-> FALSE, renameUnblock |-> FALSE]
    /\ toIEW = <<<<>>, <<>>, <<>>>>
    /\ dispatchStatus = "Running"
    /\ commit = [status |-> "Running", rob |-> <<>>, squashedSeqNum |-> 0, squashIt |-> 0,
                 youngest |-> 0, lastCommitted |-> 0, changed |-> FALSE, committed |-> 0]
    /\ commitMap = renameMap
    /\ fromIEW = [block |-> FALSE, unblock |-> FALSE, dispatched |-> 0]
    /\ fromCommit = [squash |-> FALSE, robSquashing |-> FALSE, doneSeqNum |-> 0,
                     usedROB |-> FALSE, freeROB |-> 0, emptyROB |-> FALSE]

-----------------------------------------------------------------------------
(***************************************************************************)
(* Decode sends up to its width unless rename stalls it.  A squash empties *)
(* the front end, and fetch marks every instruction outside the ROB.       *)
(***************************************************************************)
DecodeTick ==
    /\ phase = "decode"
    /\ LET stall == (decode.stall \/ rename.renameBlock) /\ ~rename.renameUnblock
       IN \E n \in 0..(IF stall \/ fromCommit.squash THEN 0 ELSE platform.width) :
            \E new \in Insts(n) :
              /\ nextSeq + n <= platform.maxInsts + 1
              /\ nextSeq' = nextSeq + n
              /\ decode' = [stall |-> stall,
                            out |-> [i \in 1..n |->
                                       [seqNum |-> nextSeq + i - 1, dests |-> new[i].dests,
                                        kind |-> new[i].kind,
                                        temp |-> FALSE, handled |-> FALSE]]]
    /\ rename' = [rename EXCEPT !.insts = @ \o decode.out,
                                !.renameBlock = FALSE, !.renameUnblock = FALSE]
    /\ toIEW' = IF fromCommit.squash
                THEN [d \in 1..3 |-> [i \in DOMAIN toIEW[d] |->
                                        [toIEW[d][i] EXCEPT !.squashed = TRUE]]]
                ELSE toIEW
    /\ phase' = "rename"
    /\ UNCHANGED <<mapVars, platform, dispatchStatus, commit, commitMap, fromIEW, fromCommit>>

-----------------------------------------------------------------------------
(* What block() and unblock() do: a stalled stage keeps its input in the   *)
(* skid buffer, and tells decode unless decode has been told already.      *)
SkidInsert(r) == [r EXCEPT !.skid = @ \o r.insts, !.insts = <<>>]

Block(r) ==
    LET told == r.status \in {"Blocked", "Unblocking"}
    IN [SkidInsert(r) EXCEPT !.renameBlock = @ \/ ~told,
                             !.renameUnblock = @ /\ told,
                             !.status = IF @ = "SerializeStall" THEN @ ELSE "Blocked"]

Unblock(r) ==
    IF r.skid = <<>> /\ r.status # "SerializeStall"
    THEN [r EXCEPT !.status = "Running", !.renameUnblock = TRUE]
    ELSE r

(* Fault: what is on its way to IEW is not counted. *)
CalcFreeROBEntries_Announced(r) == r.freeROB

(* Instructions on their way to IEW count against the last free entries    *)
(* the ROB announced.                                                      *)
CalcFreeROBEntries(r) == r.freeROB - (r.inProgress - fromIEW.dispatched)

(* Fault: a serialize stall waits for the ROB only. *)
CheckStall_EmptyROB(r) ==
    \/ r.stall
    \/ CalcFreeROBEntries(r) <= 0
    \/ r.status = "SerializeStall" /\ ~r.emptyROB

CheckStall(r) ==
    \/ r.stall
    \/ CalcFreeROBEntries(r) <= 0
    \/ r.status = "SerializeStall" /\ (~r.emptyROB \/ r.inProgress # 0)

ReadSignals(r) ==
    [r EXCEPT !.freeROB = IF fromCommit.usedROB THEN fromCommit.freeROB ELSE @,
              !.emptyROB = IF fromCommit.usedROB THEN fromCommit.emptyROB ELSE @,
              !.stall = (@ \/ fromIEW.block) /\ ~fromIEW.unblock]

(* The status after a stall, a squash or a serialize stall has passed: the *)
(* instruction that serialized goes back to the front of its queue.        *)
Resume(r) ==
    LET u == Unblock([r EXCEPT !.status = "Unblocking"])
        inst == <<[r.serializeInst EXCEPT !.temp = FALSE]>>
    IN CASE r.status = "Blocked" -> u
         [] r.status = "Squashing" -> [r EXCEPT !.status = "Running"]
         [] r.status = "SerializeStall" ->
              [u EXCEPT !.skid = IF @ # <<>> THEN inst \o @ ELSE @,
                        !.insts = IF u.skid = <<>> THEN inst \o @ ELSE @,
                        !.serializeInst = NoInst]
         [] OTHER -> r

(* Fault: a serialize stall that is squashed leaves decode stalled. *)
TellDecode_Blocked(r) == r.status \in {"Blocked", "Unblocking"}

(* A squash leaves nothing to stall for, so decode may go on. *)
TellDecode(r) == r.status \in {"Blocked", "Unblocking", "SerializeStall"}

RenameSquash ==
    /\ phase = "rename"
    /\ fromCommit.squash
    /\ rename' = [ReadSignals(rename) EXCEPT
                    !.status = "Squashing", !.insts = <<>>, !.skid = <<>>,
                    !.serializeInst = NoInst,
                    !.renameUnblock = @ \/ TellDecode(rename)]
    /\ phase' = "squash"
    /\ UNCHANGED <<mapVars, platform, nextSeq, decode, toIEW, dispatchStatus, commit,
                   commitMap, fromIEW, fromCommit>>

(* Fault: the last instruction kept is undone, too. *)
Undone_Inclusive == {h \in historyBuffer : h.instSeqNum >= fromCommit.doneSeqNum}

Undone == {h \in historyBuffer : h.instSeqNum > fromCommit.doneSeqNum}

DoSquash ==
    /\ phase = "squash"
    /\ \/ /\ \E h \in Undone : UndoMapping(h)
          /\ UNCHANGED phase
       \/ /\ Undone = {}
          /\ phase' = "history"
          /\ UNCHANGED mapVars
    /\ UNCHANGED <<platform, nextSeq, decode, rename, toIEW, dispatchStatus, commit,
                   commitMap, fromIEW, fromCommit>>

(* Fault: squashed registers are freed in the next cycle. *)
ROBDoneSquashing_AtOnce == TRUE

(* "The phys regs can still be owned by squashing but executing            *)
(* instructions" until then.                                               *)
ROBDoneSquashing == ~fromCommit.robSquashing

CheckSignalsAndUpdate ==
    /\ phase = "rename"
    /\ ~fromCommit.squash
    /\ IF ROBDoneSquashing THEN FreeSquashed ELSE UNCHANGED mapVars
    /\ LET r == ReadSignals(rename)
       IN rename' = IF CheckStall(r) THEN Block(r) ELSE Resume(r)
    /\ phase' = "insts"
    /\ UNCHANGED <<platform, nextSeq, decode, toIEW, dispatchStatus, commit,
                   commitMap, fromIEW, fromCommit>>

(* The queue that renameInsts works on. *)
Queue(r) == IF r.status = "Unblocking" THEN r.skid ELSE r.insts
WithQueue(r, q) ==
    IF r.status = "Unblocking" THEN [r EXCEPT !.skid = q] ELSE [r EXCEPT !.insts = q]

SetSerializeBefore(q) == IF q = <<>> THEN q ELSE [q EXCEPT ![1].temp = TRUE]

RenameInstsBegin ==
    /\ phase = "insts"
    /\ LET q == Queue(rename)
           free == CalcFreeROBEntries(rename)
           active == rename.status \in {"Running", "Idle", "Unblocking"} /\ q # <<>>
           serialized == rename.emptyROB /\ rename.inProgress = 0
       IN rename' = [(IF active /\ free > 0 /\ rename.serializeOnNext /\ ~serialized
                      THEN WithQueue(rename, SetSerializeBefore(q)) ELSE rename)
                     EXCEPT !.available = IF active THEN Max({0, Min({free, Len(q)})}) ELSE 0,
                            !.blockThisCycle = active /\ free < Len(q),
                            !.serializeOnNext = @ /\ ~(active /\ free > 0 /\ serialized)]
    /\ phase' = "loop"
    /\ UNCHANGED <<mapVars, platform, nextSeq, decode, toIEW, dispatchStatus, commit,
                   commitMap, fromIEW, fromCommit>>

(* renameInsts has an instruction left that it has the registers for. *)
HasNext ==
    /\ rename.available > 0 /\ Queue(rename) # <<>>
    /\ Len(toIEW[1]) < platform.width
    /\ rename.status # "SerializeStall"
    /\ CanRename(Head(Queue(rename)).dests)

Serializes(inst) == (inst.kind = "before" \/ inst.temp) /\ ~inst.handled

SerializeStall ==
    /\ phase = "loop"
    /\ HasNext
    /\ LET inst == Head(Queue(rename))
       IN /\ Serializes(inst)
          /\ rename' = [WithQueue(rename, Tail(Queue(rename)))
                        EXCEPT !.status = "SerializeStall",
                               !.serializeInst = [inst EXCEPT !.handled = ~inst.temp],
                               !.blockThisCycle = TRUE]
    /\ UNCHANGED <<mapVars, platform, phase, nextSeq, decode, toIEW, dispatchStatus,
                   commit, commitMap, fromIEW, fromCommit>>

RenameInst ==
    /\ phase = "loop"
    /\ HasNext
    /\ LET inst == Head(Queue(rename))
           rest == Tail(Queue(rename))
           after == inst.kind = "after" /\ ~inst.handled
       IN /\ ~Serializes(inst)
          /\ RenameDestRegs(inst.seqNum, inst.dests)
          /\ toIEW' = [toIEW EXCEPT ![1] = Append(@,
                         [seqNum |-> inst.seqNum, kind |-> inst.kind, squashed |-> FALSE,
                          regs |-> [a \in inst.dests |-> renameMap'[a]]])]
          /\ rename' = [WithQueue(rename, IF after THEN SetSerializeBefore(rest) ELSE rest)
                        EXCEPT !.available = @ - 1,
                               !.serializeOnNext = @ \/ (after /\ rest = <<>>)]
    /\ UNCHANGED <<platform, phase, nextSeq, decode, dispatchStatus, commit, commitMap,
                   fromIEW, fromCommit>>

RenameInstsEnd ==
    /\ phase = "loop"
    /\ ~HasNext
    /\ LET r == [rename EXCEPT !.inProgress = @ + Len(toIEW[1])]
           b == IF r.available > 0 \/ r.blockThisCycle
                THEN [Block(r) EXCEPT !.renameUnblock = FALSE] ELSE r
       IN rename' = IF b.status = "Unblocking" THEN Unblock(SkidInsert(b)) ELSE b
    /\ phase' = "history"
    /\ UNCHANGED <<mapVars, platform, nextSeq, decode, toIEW, dispatchStatus, commit,
                   commitMap, fromIEW, fromCommit>>

(* The end of Rename::tick: committed renamings, then the instructions IEW *)
(* has taken over.                                                         *)
Removed ==
    IF fromCommit.doneSeqNum # 0 /\ ~fromCommit.squash /\ rename.status # "Squashing"
    THEN {h \in historyBuffer : h.instSeqNum <= fromCommit.doneSeqNum}
    ELSE {}

RemoveFromHistory ==
    /\ phase = "history"
    /\ \/ /\ \E h \in Removed : CommitMapping(h)
          /\ UNCHANGED <<phase, rename>>
       \/ /\ Removed = {}
          /\ rename' = [rename EXCEPT !.inProgress = @ - fromIEW.dispatched,
                                      !.available = 0, !.blockThisCycle = FALSE]
          /\ phase' = "iew"
          /\ UNCHANGED mapVars
    /\ UNCHANGED <<platform, nextSeq, decode, toIEW, dispatchStatus, commit, commitMap,
                   fromIEW, fromCommit>>

-----------------------------------------------------------------------------
(* Fault: IEW goes on while the ROB squashes. *)
IEWCheckStall_Never == FALSE

IEWCheckStall == fromCommit.robSquashing

(***************************************************************************)
(* IEW takes what rename sent two cycles ago, to dispatch it or to drop    *)
(* it: either way it is no longer in progress.  While the ROB squashes it  *)
(* blocks rename, so that nothing reaches a commit stage that would not    *)
(* take it.                                                                *)
(***************************************************************************)
IEWTick ==
    /\ phase = "iew"
    /\ LET squash == fromCommit.squash
           block == ~squash /\ IEWCheckStall
       IN /\ fromIEW' = [block |-> block,
                         unblock |-> dispatchStatus = "Blocked" /\ ~block,
                         dispatched |-> Len(toIEW[3])]
          /\ dispatchStatus' = IF squash THEN "Squashing"
                               ELSE IF block THEN "Blocked" ELSE "Running"
    /\ phase' = "commit"
    /\ UNCHANGED <<mapVars, platform, nextSeq, decode, rename, toIEW, commit, commitMap,
                   fromCommit>>

-----------------------------------------------------------------------------
(* ROB::doSquash: mark up to squashWidth instructions from the tail on.    *)
(* squashIt is the next one to look at, 0 when the ROB is done squashing.  *)
ROBDoSquash(c) ==
    LET older == {i \in 1..c.squashIt : c.rob[i].seqNum <= c.squashedSeqNum}
        next == Max({0, c.squashIt - platform.squashWidth} \cup older)
    IN [c EXCEPT !.rob = [i \in DOMAIN c.rob |->
                            [c.rob[i] EXCEPT !.squashed = @ \/ i \in (next + 1)..c.squashIt]],
                 !.squashIt = IF next \in older THEN 0 ELSE next]

ROBSquash(c, seqNum) ==
    IF c.rob = <<>> THEN c
    ELSE ROBDoSquash([c EXCEPT !.squashedSeqNum = seqNum, !.squashIt = Len(c.rob)])

(* The start of Commit::tick. *)
CheckSquashing(c) ==
    IF c.status # "ROBSquashing" THEN c
    ELSE IF c.squashIt = 0 THEN [c EXCEPT !.status = "Running"]
    ELSE ROBDoSquash(c)

Signal(squash, robSquashing, doneSeqNum) ==
    [squash |-> squash, robSquashing |-> robSquashing, doneSeqNum |-> doneSeqNum,
     usedROB |-> FALSE, freeROB |-> 0, emptyROB |-> FALSE]

(* Squash everything younger than seqNum, and tell the other stages. *)
SquashTo(c, seqNum, youngest) ==
    /\ commit' = [ROBSquash(c, seqNum) EXCEPT !.status = "ROBSquashing",
                                              !.youngest = youngest, !.changed = TRUE]
    /\ fromCommit' = Signal(TRUE, TRUE, seqNum)
    /\ phase' = "retire"
    /\ UNCHANGED <<mapVars, platform, nextSeq, decode, rename, toIEW, dispatchStatus,
                   commitMap, fromIEW>>

(* A trap whose latency is over, an instruction that wants a squash behind *)
(* it, or a write through the thread context squashes the whole ROB.       *)
SquashAll ==
    /\ phase = "commit"
    /\ LET c == CheckSquashing(commit)
           seqNum == IF c.rob = <<>> THEN c.lastCommitted ELSE c.rob[1].seqNum - 1
       IN /\ c.status \in {"TrapPending", "SquashAfterPending"} \/ platform.squashFromTC
          /\ SquashTo(c, seqNum, c.lastCommitted)

(* An instruction can only have executed once IEW has dispatched it. *)
Dispatched(inst) ==
    \A d \in {2, 3} : \A i \in DOMAIN toIEW[d] : toIEW[d][i].seqNum # inst.seqNum

(* A branch that was mispredicted, or a load that violated the memory      *)
(* order (and is itself squashed).  A squash by an instruction that an     *)
(* older squash covers is ignored.  The control transfers that serialize   *)
(* what follows (returns from a trap) execute at the head of the ROB: they *)
(* are non-speculative, or follow another such micro-op (x86 IRET).        *)
SquashFromIEW ==
    /\ phase = "commit"
    /\ LET c == CheckSquashing(commit)
       IN /\ c.status \in {"Running", "ROBSquashing"}
          /\ \E i \in DOMAIN c.rob, includeSquashInst \in {0, 1} :
               /\ ~commit.rob[i].squashed
               /\ Dispatched(c.rob[i])
               /\ c.rob[i].seqNum <= c.youngest
               /\ c.rob[i].kind = "after" /\ includeSquashInst = 0 => i = 1
               /\ LET seqNum == c.rob[i].seqNum - includeSquashInst
                  IN SquashTo(c, seqNum, seqNum)

(* What getInsts inserts of the first instructions: those that no squash   *)
(* has marked, in order.                                                   *)
Unsquashed(insts) ==
    LET first[n \in 0..Len(insts)] ==
          IF n = 0 THEN <<>>
          ELSE IF insts[n].squashed THEN first[n - 1] ELSE Append(first[n - 1], insts[n])
    IN first[Len(insts)]

(* Without a new squash: the instructions rename sent last cycle enter the *)
(* ROB, unless commit is squashing or waits for a trap.                    *)
GetInsts ==
    /\ phase = "commit"
    /\ LET c == CheckSquashing(commit)
           new == IF c.status = "Running" THEN Unsquashed(toIEW[2]) ELSE <<>>
       IN /\ c.status # "SquashAfterPending"
          /\ commit' = [c EXCEPT !.rob = @ \o new,
                                 !.youngest = IF new = <<>> THEN @ ELSE new[Len(new)].seqNum,
                                 !.changed = @ \/ new # <<>>]
          /\ fromCommit' = Signal(FALSE, c.status = "ROBSquashing", 0)
    /\ phase' = "retire"
    /\ UNCHANGED <<mapVars, platform, nextSeq, decode, rename, toIEW, dispatchStatus,
                   commitMap, fromIEW>>

(* commitInsts: a squashed head leaves the ROB at once... *)
AtHead ==
    /\ phase = "retire"
    /\ commit.status = "Running"
    /\ commit.committed < platform.width
    /\ commit.rob # <<>>

RetireSquashed ==
    /\ AtHead
    /\ commit.rob[1].squashed
    /\ commit' = [commit EXCEPT !.rob = Tail(@), !.changed = TRUE]
    /\ UNCHANGED <<mapVars, platform, phase, nextSeq, decode, rename, toIEW,
                   dispatchStatus, commitMap, fromIEW, fromCommit>>

(* ...and another one when it has executed, or it faults.  A drain, like   *)
(* some instructions, wants everything behind the head squashed.           *)
CommitHead ==
    /\ AtHead
    /\ LET head == commit.rob[1]
       IN /\ ~head.squashed
          /\ Dispatched(head)
          /\ \E status \in {"Running", "SquashAfterPending"} :
               commit' = [commit EXCEPT !.rob = Tail(@), !.changed = TRUE,
                                        !.committed = @ + 1, !.status = status,
                                        !.lastCommitted = head.seqNum]
          /\ commitMap' = [a \in Regs |-> IF a \in DOMAIN head.regs
                                          THEN head.regs[a] ELSE commitMap[a]]
          /\ fromCommit' = [fromCommit EXCEPT !.doneSeqNum = head.seqNum]
    /\ UNCHANGED <<mapVars, platform, phase, nextSeq, decode, rename, toIEW,
                   dispatchStatus, fromIEW>>

Fault ==
    /\ AtHead
    /\ ~commit.rob[1].squashed
    /\ Dispatched(commit.rob[1])
    /\ commit.committed = 0
    /\ commit' = [commit EXCEPT !.status = "TrapPending"]
    /\ UNCHANGED <<mapVars, platform, phase, nextSeq, decode, rename, toIEW,
                   dispatchStatus, commitMap, fromIEW, fromCommit>>

(* A return that found itself mispredicted has executed, and               *)
(* markCompletedInsts saw it in the cycle of its squash: it commits next.  *)
Returned(inst) == inst.kind = "after" /\ inst.seqNum = commit.squashedSeqNum

(* The end of the cycle, when commitInsts has nothing left that it must    *)
(* retire: a ROB that has changed says so, and the buffers between the     *)
(* stages advance.                                                         *)
EndCycle ==
    /\ phase = "retire"
    /\ AtHead => ~commit.rob[1].squashed /\ ~Returned(commit.rob[1])
    /\ fromCommit' = [fromCommit EXCEPT
                        !.usedROB = commit.changed,
                        !.freeROB = IF commit.changed
                                    THEN platform.robEntries - Len(commit.rob) ELSE 0,
                        !.emptyROB = commit.changed /\ commit.rob = <<>>]
    /\ commit' = [commit EXCEPT !.changed = FALSE, !.committed = 0]
    /\ toIEW' = <<<<>>, toIEW[1], toIEW[2]>>
    /\ phase' = "decode"
    /\ UNCHANGED <<mapVars, platform, nextSeq, decode, rename, dispatchStatus, commitMap,
                   fromIEW>>

Next ==
    \/ DecodeTick
    \/ RenameSquash \/ DoSquash \/ CheckSignalsAndUpdate
    \/ RenameInstsBegin \/ SerializeStall \/ RenameInst \/ RenameInstsEnd
    \/ RemoveFromHistory
    \/ IEWTick
    \/ SquashAll \/ SquashFromIEW \/ GetInsts
    \/ RetireSquashed \/ CommitHead \/ Fault \/ EndCycle

Spec == Init /\ [][Next]_vars

-----------------------------------------------------------------------------
Statuses == {"Idle", "Running", "Squashing", "Blocked", "Unblocking", "SerializeStall"}
CommitStatuses == {"Running", "ROBSquashing", "TrapPending", "SquashAfterPending"}

(* The variables have the types the stages declare. *)
TypeOK ==
    /\ MapTypeOK
    /\ phase \in {"decode", "rename", "squash", "insts", "loop", "history",
                  "iew", "commit", "retire"}
    /\ nextSeq \in 1..(platform.maxInsts + 1)
    /\ rename.status \in Statuses
    /\ rename.serializeInst # NoInst <=> rename.status = "SerializeStall"
    /\ dispatchStatus \in {"Running", "Squashing", "Blocked"}
    /\ commit.status \in CommitStatuses
    /\ commit.squashIt \in 0..Len(commit.rob)
    /\ \A i, j \in DOMAIN commit.rob : i < j => commit.rob[i].seqNum < commit.rob[j].seqNum

(* What an instruction still writes is not free: a register of an          *)
(* instruction in the ROB that is not marked squashed is not on the free   *)
(* list.  doSquash keeps the registers of squashed instructions in         *)
(* freeingInProgress because "the phys regs can still be owned by          *)
(* squashing but executing instructions", and lets them go when commit     *)
(* reports that the ROB no longer squashes.                                *)
OwnedNotFree ==
    \A i \in DOMAIN commit.rob : ~commit.rob[i].squashed =>
        \A a \in DOMAIN commit.rob[i].regs : commit.rob[i].regs[a] \notin freeList

(* Rename's map and commit's map, kept by two stages that hear of each     *)
(* other's steps cycles later, agree: undoing the renamings that are not   *)
(* committed yet gives the committed map.                                  *)
MapsAgree ==
    \A a \in ArchRegs :
        LET pending == {h \in historyBuffer :
                          h.archReg = a /\ h.instSeqNum > commit.lastCommitted}
        IN \/ pending = {} /\ commitMap[a] = renameMap[a]
           \/ \E h \in pending : /\ \A g \in pending : h.instSeqNum <= g.instSeqNum
                                 /\ commitMap[a] = h.prevPhysReg

(* A squash that rename has yet to hear of covers the instruction. *)
WillBeSquashed(seqNum) ==
    \/ fromCommit.squash /\ seqNum > fromCommit.doneSeqNum
    \/ commit.status \in {"TrapPending", "SquashAfterPending"}

(* An instruction that rename has renamed is on its way to the ROB, in it, *)
(* committed or about to be squashed.  Commit drops what arrives while the *)
(* ROB squashes, without a word to rename: that nothing of the new path    *)
(* arrives then rests on IEW blocking rename in time.                      *)
NothingLost ==
    \A h \in historyBuffer :
        LET Holds(q) == \E i \in DOMAIN q : q[i].seqNum = h.instSeqNum /\ ~q[i].squashed
        IN \/ h.instSeqNum <= commit.lastCommitted
           \/ Holds(toIEW[1]) \/ Holds(toIEW[2]) \/ Holds(commit.rob)
           \/ WillBeSquashed(h.instSeqNum)

(* The stages are well formed and the assertions on the flow control       *)
(* between them hold: an unblock signal finds the stage stalled, the skid  *)
(* buffer holds what arrives before decode hears of a block, the           *)
(* instructions to rename are there, the ROB has room for what rename let  *)
(* through, no instruction leaves rename's count twice; and rename is      *)
(* never asked to resume a serialize stall, since a squash is always older *)
(* than the instruction that waits.                                        *)
AssertionsHold ==
    /\ TypeOK
    /\ rename.renameUnblock => decode.stall \/ rename.renameBlock
    /\ phase = "rename" /\ fromIEW.unblock => rename.stall \/ fromIEW.block
    /\ Len(rename.skid) <= 2 * platform.width
    /\ phase = "loop" /\ rename.status # "SerializeStall" =>
          rename.available <= Len(Queue(rename))
    /\ Len(commit.rob) <= platform.robEntries
    /\ rename.inProgress >= 0
    /\ fromCommit.squash /\ rename.status = "SerializeStall" =>
          rename.serializeInst.seqNum > fromCommit.doneSeqNum

(* "serializeBefore makes the instruction wait in rename until the ROB is  *)
(* empty", and an instruction marked SerializeAfter "needs to serialize    *)
(* instructions behind it": neither has company in the ROB on the side     *)
(* where it must not.                                                      *)
Serialized ==
    \A i, j \in DOMAIN commit.rob :
        LET first == commit.rob[i]
            second == commit.rob[j]
        IN i < j /\ ~first.squashed /\ ~second.squashed =>
             first.kind # "after" /\ second.kind # "before"

(* Nothing is in the ROB or on a wire, and no stage has a change to make. *)
Quiet ==
    /\ phase = "decode"
    /\ decode.out = <<>> /\ commit.rob = <<>>
    /\ \A d \in 1..3 : toIEW[d] = <<>>
    /\ dispatchStatus = "Running" /\ commit.status = "Running"
    /\ fromIEW = [block |-> FALSE, unblock |-> FALSE, dispatched |-> 0]
    /\ fromCommit = Signal(FALSE, FALSE, 0)

(* No wakeup is lost: when the rest of the pipeline is quiet, nothing      *)
(* stalls rename, it has all of its ROB entries and an empty history, and  *)
(* decode waits only for a rename that is about to unblock it.             *)
NoLostWakeup ==
    Quiet => /\ ~CheckStall(rename)
             /\ rename.freeROB = platform.robEntries
             /\ rename.inProgress = 0
             /\ historyBuffer = {}
             /\ decode.stall => \/ rename.renameUnblock
                                \/ rename.status \in {"Blocked", "Unblocking", "SerializeStall"}
=============================================================================
