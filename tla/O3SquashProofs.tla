-------------------------- MODULE O3SquashProofs --------------------------
(***************************************************************************)
(* The out-of-order CPU loses no renaming: the rename map, the history     *)
(* buffer, the wires to IEW, the ROB and the commit map tell the same      *)
(* story in every reachable state (src/gem5/src/cpu/o3/rename.cc,          *)
(* commit.cc, rob.cc).                                                     *)
(*                                                                         *)
(* None of the three properties is inductive.  What carries them is        *)
(*   - FrontInv, BackInv: sequence numbers rise along the pipeline from    *)
(*     the ROB's head to the next instruction to be fetched;               *)
(*   - SquashInv: how far the ROB has walked while it squashes, and what   *)
(*     commit has told the other stages about it;                          *)
(*   - FlowInv: nothing that a squash has killed passes rename or enters   *)
(*     the ROB unmarked, although decode and rename learn of the squash a  *)
(*     cycle late and the ROB needs several cycles to finish it;           *)
(*   - LostInv, HeadInv, RecordInv: the history buffer and the             *)
(*     instructions in flight name each other's renamings.                 *)
(* FrontInv is in O3Proofs.  For the rest there is one lemma per action    *)
(* (...Pipe); those of commit's own steps and the theorems are in          *)
(* O3CommitProofs.                                                         *)
(***************************************************************************)
EXTENDS O3Proofs

(* What the provers may take for a step that names none, in seconds. *)
USE SMTT(30), ZenonT(30), Z3T(30)

(* Those that it has sent on and that have yet to enter the ROB. *)
Sent2 == IF phase = "retire" THEN {} ELSE SeqNums(toIEW[2])

(* Fetch order from the ROB to fetch: commit has retired what is older     *)
(* than the ROB, the ROB holds what is older than the instructions on the  *)
(* wires to IEW, and those are older than what rename has yet to take.     *)
BackInv ==
    /\ Sorted(commit.rob) /\ Sorted(toIEW[1]) /\ Sorted(toIEW[2])
    /\ Below({commit.lastCommitted}, SeqNums(commit.rob) \cup Sent2 \cup SeqNums(toIEW[1]) \cup Later)
    /\ Below(SeqNums(commit.rob), Sent2 \cup SeqNums(toIEW[1]) \cup Later)
    /\ Below(SeqNums(toIEW[2]), SeqNums(toIEW[1]) \cup Later)
    /\ Below(SeqNums(toIEW[1]), Later)

(* The squash in progress: the signals to the other stages agree with the  *)
(* status of commit, and behind squashIt the ROB has marked everything     *)
(* that is younger than the instruction squashed to.                       *)
SquashInv ==
    /\ fromCommit.robSquashing <=> commit.status = "ROBSquashing"
    /\ fromCommit.squash => fromCommit.robSquashing
    /\ phase = "squash" => fromCommit.squash
    /\ phase \in {"insts", "loop"} => ~fromCommit.squash
    /\ commit.status # "ROBSquashing" => commit.squashIt = 0
    /\ commit.squashIt \in 0..Len(commit.rob)
    /\ IF fromCommit.squash THEN commit.lastCommitted <= fromCommit.doneSeqNum
       ELSE fromCommit.doneSeqNum <= commit.lastCommitted
    /\ fromCommit.squash => Below({fromCommit.doneSeqNum}, SeqNums(toIEW[1]) \cup SeqNums(toIEW[2]))
    /\ commit.status = "ROBSquashing" /\ commit.rob # <<>> =>
         /\ commit.youngest <= commit.squashedSeqNum
         /\ fromCommit.squash => fromCommit.doneSeqNum = commit.squashedSeqNum
         /\ \A i \in DOMAIN commit.rob :
               i > commit.squashIt /\ commit.rob[i].seqNum > commit.squashedSeqNum
                 => commit.rob[i].squashed
    /\ commit.status = "TrapPending" => commit.rob # <<>>

(* In the cycle of the squash signal and while the ROB works it off, all   *)
(* that may reach the ROB is marked as squashed, and rename renames        *)
(* nothing: it is empty, or blocked because IEW blocks until the ROB is    *)
(* done.                                                                   *)
FlowInv ==
    /\ fromCommit.squash =>
         /\ phase \notin {"retire", "decode"} =>
              Marked(toIEW[1]) /\ Marked(toIEW[2]) /\ decode.out = <<>>
         /\ phase \in {"squash", "history", "iew", "commit"} => NoInsts
         /\ phase \in {"history", "iew", "commit"} =>
              \A h \in historyBuffer : h.instSeqNum <= fromCommit.doneSeqNum
    /\ commit.status = "ROBSquashing" /\ ~fromCommit.squash =>
         /\ Marked(toIEW[1]) /\ Marked(toIEW[2])
         /\ commit.rob # <<>> =>
              \A h \in historyBuffer : h.instSeqNum <= commit.squashedSeqNum
         /\ phase \in {"retire", "decode"} => (NoInsts /\ decode.out = <<>>) \/ Blocking
         /\ phase = "rename" => NoInsts \/ Blocking
         /\ phase \in {"insts", "loop"} =>
              \/ rename.insts = <<>> /\ rename.skid = <<>>
              \/ rename.status \in {"Blocked", "SerializeStall"}
         /\ phase = "loop" => rename.available = 0
         /\ phase = "commit" => fromIEW.block /\ ~fromIEW.unblock

(* Instruction n is in buffer q and lives. *)
HoldsIn(q, n) == \E i \in DOMAIN q : q[i].seqNum = n /\ ~q[i].squashed

(* NothingLost, told with the wire from rename to IEW as it is in the      *)
(* phase at hand.                                                          *)
LostInv ==
    \A h \in historyBuffer :
        \/ h.instSeqNum <= commit.lastCommitted
        \/ HoldsIn(toIEW[1], h.instSeqNum)
        \/ phase # "retire" /\ HoldsIn(toIEW[2], h.instSeqNum)
        \/ HoldsIn(commit.rob, h.instSeqNum)
        \/ WillBeSquashed(h.instSeqNum)

(* A renaming commit has not made its own is no older than the ROB's head. *)
HeadInv ==
    commit.rob # <<>> =>
      \A h \in historyBuffer : \/ h.instSeqNum <= commit.lastCommitted
                               \/ commit.rob[1].seqNum <= h.instSeqNum

(* The history buffer has e's renaming of a; e is beyond the point that is *)
(* squashed to; the history buffer has nothing of e but its destinations.  *)
Recorded(e, a) ==
    \E h \in historyBuffer : /\ h.instSeqNum = e.seqNum /\ h.archReg = a
                             /\ h.newPhysReg = e.regs[a]
Undoing(e) == commit.status = "ROBSquashing" /\ e.seqNum > commit.squashedSeqNum
OnlyIts(e) == \A h \in historyBuffer : h.instSeqNum = e.seqNum => h.archReg \in DOMAIN e.regs

(* A living instruction in flight has all its renamings in the history     *)
(* buffer, unless the squash that kills it has undone them already and its *)
(* registers are on their way to the free list.                            *)
RecordInv ==
    /\ \A i \in DOMAIN commit.rob : OnlyIts(commit.rob[i])
    /\ \A d \in {1, 2} : \A i \in DOMAIN toIEW[d] : OnlyIts(toIEW[d][i])
    /\ \A i \in DOMAIN toIEW[1] : ~toIEW[1][i].squashed =>
          \A a \in DOMAIN toIEW[1][i].regs : Recorded(toIEW[1][i], a)
    /\ phase # "retire" => \A i \in DOMAIN toIEW[2] : ~toIEW[2][i].squashed =>
          \A a \in DOMAIN toIEW[2][i].regs : Recorded(toIEW[2][i], a)
    /\ \A i \in DOMAIN commit.rob : ~commit.rob[i].squashed =>
          \A a \in DOMAIN commit.rob[i].regs :
             \/ Recorded(commit.rob[i], a)
             \/ Undoing(commit.rob[i]) /\ commit.rob[i].regs[a] \in MiscRegs \cup freeingInProgress

-----------------------------------------------------------------------------
(* What rename sends on. *)
Sent ==
    [seqNum : Nat, kind : Kinds, squashed : BOOLEAN,
     regs : UNION {[D -> PhysRegs \cup MiscRegs] : D \in SUBSET Regs}]

-----------------------------------------------------------------------------
(* The commit stage and the ROB. *)
CommitState ==
    [status : CommitStatuses, rob : Seq(Sent), squashedSeqNum : Nat, squashIt : Nat,
     youngest : Nat, lastCommitted : Nat, changed : BOOLEAN, committed : Nat]

-----------------------------------------------------------------------------
(* The fields of the wire from commit. *)
Signals == {"squash", "robSquashing", "doneSeqNum", "usedROB", "freeROB", "emptyROB"}

(* The types of the back end's variables. *)
BackType ==
    /\ toIEW \in [1..3 -> Seq(Sent)]
    /\ commit \in CommitState
    /\ fromCommit = [f \in Signals |-> fromCommit[f]]
    /\ fromCommit.squash \in BOOLEAN /\ fromCommit.robSquashing \in BOOLEAN
    /\ fromCommit.doneSeqNum \in Nat

(* The inductive invariant. *)
PipeInv ==
    /\ QueuesInv /\ Inv /\ FrontInv /\ BackType /\ BackInv /\ SquashInv /\ FlowInv
    /\ LostInv /\ HeadInv /\ RecordInv /\ MapsAgree

(* The back end's numbers are naturals. *)
LEMMA BackNat ==
    ASSUME BackType
    PROVE  /\ SeqNums(commit.rob) \subseteq Nat
           /\ SeqNums(toIEW[1]) \subseteq Nat /\ SeqNums(toIEW[2]) \subseteq Nat
           /\ commit.lastCommitted \in Nat /\ commit.squashedSeqNum \in Nat
           /\ commit.squashIt \in Nat /\ commit.youngest \in Nat
           /\ commit.rob \in Seq(Sent) /\ DOMAIN commit.rob = 1..Len(commit.rob)
           /\ Len(commit.rob) \in Nat
           /\ \A d \in {1, 2, 3} : toIEW[d] \in Seq(Sent)
<1>1. ASSUME NEW q \in Seq(Sent) PROVE SeqNums(q) \subseteq Nat
  <2>1. \A i \in DOMAIN q : q[i] \in Sent
    OBVIOUS
  <2>2. \A i \in DOMAIN q : q[i].seqNum \in Nat
    BY <2>1 DEF Sent
  <2> QED
    BY <2>2 DEF SeqNums
<1>2. /\ commit.rob \in Seq(Sent)
      /\ commit.lastCommitted \in Nat /\ commit.squashedSeqNum \in Nat
      /\ commit.squashIt \in Nat /\ commit.youngest \in Nat
    BY DEF BackType, CommitState
<1>3. \A d \in {1, 2, 3} : toIEW[d] \in Seq(Sent)
    BY DEF BackType
<1> QED
    <2>1. /\ SeqNums(commit.rob) \subseteq Nat
          /\ SeqNums(toIEW[1]) \subseteq Nat /\ SeqNums(toIEW[2]) \subseteq Nat
      BY <1>1, <1>2, <1>3, ZenonT(30)
    <2>2. DOMAIN commit.rob = 1..Len(commit.rob) /\ Len(commit.rob) \in Nat
      BY <1>2
    <2> QED
      BY <1>2, <1>3, <2>1, <2>2, ZenonT(30)

(* And so are the history buffer's. *)
LEMMA HistoryNat == ASSUME Inv PROVE \A h \in historyBuffer : h.instSeqNum \in Nat
BY DEF Inv, MapTypeOK, RenameHistory

(* The same facts from the invariant, and the ROB's entries one by one. *)
LEMMA PipeNat ==
    ASSUME PipeInv
    PROVE  /\ SeqNums(commit.rob) \subseteq Nat
           /\ SeqNums(toIEW[1]) \subseteq Nat /\ SeqNums(toIEW[2]) \subseteq Nat
           /\ commit.lastCommitted \in Nat /\ commit.squashedSeqNum \in Nat
           /\ commit.youngest \in Nat
           /\ commit.rob \in Seq(Sent) /\ DOMAIN commit.rob = 1..Len(commit.rob)
           /\ Len(commit.rob) \in Nat /\ commit.rob # <<>> => 1 \in DOMAIN commit.rob
           /\ \A i \in DOMAIN commit.rob : /\ commit.rob[i].seqNum \in SeqNums(commit.rob)
                                           /\ commit.rob[i].seqNum \in Nat
<1>1. BackType
    BY ZenonT(30) DEF PipeInv
<1>2. \A i \in DOMAIN commit.rob : commit.rob[i].seqNum \in SeqNums(commit.rob)
    BY ZenonT(30) DEF SeqNums
<1>3. commit.rob \in Seq(Sent) /\ SeqNums(commit.rob) \subseteq Nat
    BY <1>1, BackNat, ZenonT(30)
<1>4. commit.rob # <<>> => 1 \in DOMAIN commit.rob
    BY <1>3
<1>5. \A i \in DOMAIN commit.rob : commit.rob[i].seqNum \in Nat
    BY <1>2, <1>3, ZenonT(30)
<1> QED
    BY <1>1, <1>2, <1>4, <1>5, BackNat, ZenonT(30)

(* What the order of the back end says of single instructions. *)
LEMMA BackOrder ==
    ASSUME PipeInv
    PROVE  /\ \A n \in SeqNums(commit.rob) \cup SeqNums(toIEW[1]) : commit.lastCommitted < n
           /\ \A m \in SeqNums(commit.rob), n \in SeqNums(toIEW[1]) : m < n
           /\ \A n \in Later :
                 \A m \in SeqNums(commit.rob) \cup SeqNums(toIEW[1]) \cup SeqNums(toIEW[2]) : m < n
           /\ phase # "retire" => \A n \in SeqNums(toIEW[2]) :
                 commit.lastCommitted < n /\ \A m \in SeqNums(commit.rob) : m < n
<1>1. BackInv
    BY ZenonT(30) DEF PipeInv
<1>2. phase # "retire" => Sent2 = SeqNums(toIEW[2])
    BY ZenonT(30) DEF Sent2
<1> QED
    BY <1>1, <1>2 DEF BackInv, Below

(* A step that keeps the instructions of the back end, whatever it marks,  *)
(* keeps its order.                                                        *)
LEMMA BackInvKept ==
    ASSUME PipeInv, Rises, phase # "retire", phase' # "retire", UNCHANGED commit,
           \A d \in 1..2 : /\ SeqNums(toIEW'[d]) = SeqNums(toIEW[d])
                           /\ Sorted(toIEW[d]) => Sorted(toIEW'[d])
    PROVE  BackInv'
<1> DEFINE last == {commit.lastCommitted}
           inROB == SeqNums(commit.rob)
           sent1 == SeqNums(toIEW[1])
           sent2 == SeqNums(toIEW[2])
<1>1. /\ Below(last, inROB \cup sent2 \cup sent1 \cup Later)
      /\ Below(inROB, sent2 \cup sent1 \cup Later)
      /\ Below(sent2, sent1 \cup Later) /\ Below(sent1, Later)
    BY ZenonT(30) DEF PipeInv, BackInv, Sent2
<1>2. last \subseteq Nat /\ inROB \subseteq Nat /\ sent1 \subseteq Nat /\ sent2 \subseteq Nat
    BY PipeNat
<1>3. 1 \in 1..2 /\ 2 \in 1..2
    OBVIOUS
<1>4. /\ Sorted(commit.rob)' /\ Sorted(toIEW'[1]) /\ Sorted(toIEW'[2])
      /\ {commit'.lastCommitted} = last /\ SeqNums(commit'.rob) = inROB
      /\ SeqNums(toIEW'[1]) = sent1 /\ SeqNums(toIEW'[2]) = sent2 /\ Sent2' = sent2
  <2>1. /\ Sorted(toIEW'[1]) /\ Sorted(toIEW'[2]) /\ Sorted(commit.rob)
        /\ SeqNums(toIEW'[1]) = sent1 /\ SeqNums(toIEW'[2]) = sent2
    BY <1>3, ZenonT(30) DEF PipeInv, BackInv
  <2>2. Sent2' = SeqNums(toIEW'[2])
    BY ZenonT(30) DEF Sent2
  <2> QED
    BY <2>1, <2>2, ZenonT(30)
<1> HIDE DEF last, inROB, sent1, sent2
<1>5. ASSUME NEW M \in SUBSET Nat, NEW N, Below(M, N \cup Later)
      PROVE  Below(M, N \cup Later')
  <2> SUFFICES ASSUME NEW m \in M, NEW n \in Later' PROVE m < n
    BY <1>5, ZenonT(30) DEF Below
  <2>1. PICK k \in Later : k <= n /\ n \in Nat
    BY ZenonT(30) DEF Rises
  <2>2. k \in Nat /\ m \in Nat
    BY LaterNat DEF PipeInv
  <2>3. m < k
    BY <1>5, ZenonT(30) DEF Below
  <2> QED
    BY <2>1, <2>2, <2>3
<1>6. Below(sent1, Later')
  <2>1. Below(sent1, {} \cup Later)
    BY <1>1, ZenonT(30) DEF Below
  <2> QED
    BY <1>2, <1>5, <2>1, ZenonT(30) DEF Below
<1>7. /\ Below(last, inROB \cup sent2 \cup sent1 \cup Later')
      /\ Below(inROB, sent2 \cup sent1 \cup Later')
      /\ Below(sent2, sent1 \cup Later')
    BY <1>1, <1>2, <1>5, ZenonT(30)
<1> QED
    BY <1>4, <1>6, <1>7, ZenonT(30) DEF BackInv

(* A step of rename that renames nothing. *)
LEMMA BackKept ==
    ASSUME PipeInv, Rises, phase # "retire", phase' # "retire",
           UNCHANGED <<toIEW, commit, fromCommit, commitMap, renameMap, historyBuffer>>,
           freeingInProgress' = freeingInProgress \/ commit.status # "ROBSquashing"
    PROVE  (BackType /\ BackInv /\ LostInv /\ HeadInv /\ RecordInv /\ MapsAgree)'
<1>1. BackType'
    BY DEF PipeInv, BackType
<1>2. BackInv'
    BY BackInvKept
<1>3. LostInv' /\ HeadInv' /\ MapsAgree'
    BY DEF PipeInv, LostInv, HeadInv, MapsAgree, WillBeSquashed, HoldsIn
<1>4. RecordInv'
    BY DEF PipeInv, RecordInv, Recorded, OnlyIts, Undoing
<1> QED
    BY <1>1, <1>2, <1>3, <1>4

(* The part of the invariant that the steps below establish. *)
BackAll == BackType /\ BackInv /\ SquashInv /\ FlowInv /\ LostInv /\ HeadInv /\ RecordInv
           /\ MapsAgree

(* The steps of rename, one after the other: it sees the squash signal. *)
LEMMA RenameSquashPipe == ASSUME PipeInv, RenameSquash PROVE BackAll'
<1>1. /\ phase = "rename" /\ phase' = "squash" /\ fromCommit.squash
      /\ UNCHANGED <<toIEW, commit, fromCommit, commitMap, renameMap, historyBuffer,
                     freeingInProgress, decode>>
    BY DEF RenameSquash, mapVars
<1>2. Rises /\ rename'.insts = <<>> /\ rename'.skid = <<>> /\ rename'.status = "Squashing"
    BY SquashFront DEF PipeInv
<1>3. SquashInv'
    BY <1>1 DEF PipeInv, SquashInv
<1>4. FlowInv'
    BY <1>1, <1>2 DEF PipeInv, FlowInv, NoInsts
<1> QED
    BY <1>1, <1>2, <1>3, <1>4, BackKept DEF BackAll

(* While the ROB squashes rename has nothing to do or is told to stall. *)
LEMMA SignalsPipe == ASSUME PipeInv, CheckSignalsAndUpdate PROVE BackAll'
<1>1. /\ phase = "rename" /\ phase' = "insts" /\ ~fromCommit.squash
      /\ UNCHANGED <<toIEW, commit, fromCommit, commitMap, decode, fromIEW>>
    BY DEF CheckSignalsAndUpdate
<1>2. /\ UNCHANGED <<renameMap, historyBuffer>>
      /\ freeingInProgress' = freeingInProgress \/ commit.status # "ROBSquashing"
    BY DEF CheckSignalsAndUpdate, FreeSquashed, mapVars, ROBDoneSquashing, PipeInv, SquashInv
<1>3. /\ Rises
      /\ Blocking => rename'.status \in {"Blocked", "SerializeStall"}
      /\ NoInsts => \/ rename'.status = "Blocked"
                    \/ rename'.insts = <<>> /\ rename'.skid = <<>>
    BY SignalsFront DEF PipeInv
<1>4. SquashInv'
    BY <1>1 DEF PipeInv, SquashInv
<1>5. FlowInv'
    BY <1>1, <1>2, <1>3 DEF PipeInv, FlowInv
<1> QED
    BY <1>1, <1>2, <1>3, <1>4, <1>5, BackKept DEF BackAll

(* While the ROB squashes, the loop of renameInsts has nothing to rename. *)
LEMMA BeginPipe == ASSUME PipeInv, RenameInstsBegin PROVE BackAll'
<1>1. /\ phase = "insts" /\ phase' = "loop"
      /\ UNCHANGED <<toIEW, commit, fromCommit, commitMap, renameMap, historyBuffer,
                     freeingInProgress>>
    BY DEF RenameInstsBegin, mapVars
<1>2. /\ Rises /\ rename'.status = rename.status
      /\ Queue(rename) = <<>> \/ rename.status \notin {"Running", "Idle", "Unblocking"} =>
           /\ rename'.available = 0
           /\ rename'.insts = rename.insts /\ rename'.skid = rename.skid
    BY BeginFront DEF PipeInv
<1>3. SquashInv'
    BY <1>1 DEF PipeInv, SquashInv
<1>4. FlowInv'
    BY <1>1, <1>2 DEF PipeInv, SquashInv, FlowInv, Queue
<1> QED
    BY <1>1, <1>2, <1>3, <1>4, BackKept DEF BackAll

(* An instruction is held back to serialize. *)
LEMMA StallPipe == ASSUME PipeInv, SerializeStall PROVE BackAll'
<1>1. /\ phase = "loop" /\ phase' = "loop" /\ rename.available > 0
      /\ UNCHANGED <<toIEW, commit, fromCommit, commitMap, renameMap, historyBuffer,
                     freeingInProgress>>
    BY DEF SerializeStall, HasNext, mapVars
<1>2. Rises
    BY StallFront DEF PipeInv
<1>3. SquashInv'
    BY <1>1 DEF PipeInv, SquashInv
<1>4. FlowInv'
    BY <1>1 DEF PipeInv, SquashInv, FlowInv
<1> QED
    BY <1>1, <1>2, <1>3, <1>4, BackKept DEF BackAll

(* The loop of renameInsts is done. *)
LEMMA EndPipe == ASSUME PipeInv, RenameInstsEnd PROVE BackAll'
<1>1. /\ phase = "loop" /\ phase' = "history"
      /\ UNCHANGED <<toIEW, commit, fromCommit, commitMap, renameMap, historyBuffer,
                     freeingInProgress>>
    BY DEF RenameInstsEnd, mapVars
<1>2. Rises
    BY EndFront DEF PipeInv
<1>3. SquashInv'
    BY <1>1 DEF PipeInv, SquashInv
<1>4. FlowInv'
    BY <1>1 DEF PipeInv, SquashInv, FlowInv
<1> QED
    BY <1>1, <1>2, <1>3, <1>4, BackKept DEF BackAll

(* IEW blocks rename as long as the ROB squashes. *)
LEMMA IEWPipe == ASSUME PipeInv, IEWTick PROVE BackAll'
<1>1. /\ phase = "iew" /\ phase' = "commit"
      /\ UNCHANGED <<toIEW, commit, fromCommit, commitMap, renameMap, historyBuffer,
                     freeingInProgress, rename, decode>>
    BY DEF IEWTick, mapVars
<1>2. Rises
    BY OtherFront DEF PipeInv
<1>3. ~fromCommit.squash /\ fromCommit.robSquashing => fromIEW'.block /\ ~fromIEW'.unblock
    BY ZenonT(30) DEF IEWTick, IEWCheckStall
<1>4. SquashInv'
    BY <1>1 DEF PipeInv, SquashInv
<1>5. FlowInv'
    BY <1>1, <1>3 DEF PipeInv, SquashInv, FlowInv, NoInsts
<1> QED
    BY <1>1, <1>2, <1>4, <1>5, BackKept DEF BackAll

-----------------------------------------------------------------------------
(* Rename forgets renamings. *)
LEMMA HistoryShrinks ==
    ASSUME PipeInv, Rises, phase # "retire", phase' # "retire",
           UNCHANGED <<toIEW, commit, fromCommit>>, historyBuffer' \subseteq historyBuffer
    PROVE  (BackType /\ BackInv /\ LostInv /\ HeadInv)'
<1>1. BackType'
    BY DEF PipeInv, BackType
<1>2. BackInv'
    BY BackInvKept
<1>3. LostInv' /\ HeadInv'
    BY DEF PipeInv, LostInv, HeadInv, WillBeSquashed, HoldsIn
<1> QED
    BY <1>1, <1>2, <1>3

(* The renamings of a that commit has not made its own. *)
Pending(a) == {h \in historyBuffer : h.archReg = a /\ h.instSeqNum > commit.lastCommitted}

(* The maps agree on a: the committed register is the one renamed to, or   *)
(* the one that the oldest pending renaming replaced.                      *)
Agree(a) ==
    \/ Pending(a) = {} /\ commitMap[a] = renameMap[a]
    \/ \E h \in Pending(a) : /\ \A g \in Pending(a) : h.instSeqNum <= g.instSeqNum
                             /\ commitMap[a] = h.prevPhysReg

(* MapsAgree says that for every register. *)
LEMMA AgreeDef ==
    /\ MapsAgree <=> \A a \in ArchRegs : Agree(a)
    /\ MapsAgree' <=> \A a \in ArchRegs : Agree(a)'
BY DEF MapsAgree, Agree, Pending

(* Undoing the youngest renaming, of an instruction that is squashed. *)
LEMMA UndoPipe ==
    ASSUME PipeInv, NEW h \in Undone, UndoMapping(h), fromCommit.squash, phase = "squash",
           UNCHANGED <<phase, toIEW, commit, fromCommit, commitMap>>
    PROVE  RecordInv' /\ MapsAgree'
<1>1. /\ h \in historyBuffer /\ h.instSeqNum > fromCommit.doneSeqNum
      /\ \A g \in historyBuffer : g.instSeqNum <= h.instSeqNum
      /\ historyBuffer' = historyBuffer \ {h}
    BY DEF Undone, UndoMapping
<1>2. /\ \A g \in historyBuffer : g \in RenameHistory /\ g.instSeqNum \in Nat
      /\ OneEntry /\ ArchRegs \cap MiscRegs = {}
    BY RegsAssumption DEF PipeInv, Inv, MapTypeOK, RenameHistory
<1>3. \/ h.archReg \in MiscRegs /\ UNCHANGED <<renameMap, freeingInProgress>>
      \/ /\ h.archReg \in ArchRegs
         /\ renameMap' = [renameMap EXCEPT ![h.archReg] = h.prevPhysReg]
         /\ freeingInProgress' = freeingInProgress \cup {h.newPhysReg}
  <2>1. h.archReg \in ArchRegs \cup MiscRegs
    BY <1>1, <1>2 DEF RenameHistory, Regs
  <2>2. h.archReg \in MiscRegs => ~Renamed(h)
    BY <1>1 DEF PipeInv, Inv, MiscFixed, Renamed
  <2>3. h.archReg \in ArchRegs => Renamed(h)
    BY <1>1 DEF PipeInv, Inv, NewDiffers, Renamings, Renamed
  <2> QED
    BY <2>1, <2>2, <2>3 DEF UndoMapping
<1>4. RecordInv'
  <2>1. \A e : OnlyIts(e) => OnlyIts(e)'
    BY <1>1 DEF OnlyIts
  <2>2. \A i \in DOMAIN toIEW[1] : toIEW[1][i].squashed
    BY DEF PipeInv, FlowInv, Marked
  <2>3. \A i \in DOMAIN toIEW[2] : toIEW[2][i].squashed
    BY DEF PipeInv, FlowInv, Marked
  <2>4. ASSUME NEW i \in DOMAIN commit.rob, ~commit.rob[i].squashed,
               NEW a \in DOMAIN commit.rob[i].regs
        PROVE  \/ Recorded(commit.rob[i], a)'
               \/ /\ Undoing(commit.rob[i])'
                  /\ commit.rob[i].regs[a] \in MiscRegs \cup freeingInProgress'
    <3> DEFINE e == commit.rob[i]
    <3>1. CASE Undoing(e) /\ e.regs[a] \in MiscRegs \cup freeingInProgress
      <4>1. Undoing(e)' /\ (e.regs[a] \in freeingInProgress => e.regs[a] \in freeingInProgress')
        BY <1>3, <3>1 DEF Undoing
      <4> QED
        BY <3>1, <4>1
    <3>2. CASE Recorded(e, a)
      <4>1. PICK g \in historyBuffer : /\ g.instSeqNum = e.seqNum /\ g.archReg = a
                                       /\ g.newPhysReg = e.regs[a]
        BY <3>2 DEF Recorded
      <4>2. CASE g # h
        BY <1>1, <4>1, <4>2 DEF Recorded
      <4>3. CASE g = h
        <5>1. commit.status = "ROBSquashing" /\ e.seqNum > commit.squashedSeqNum
          <6>1. commit.rob # <<>>
            OBVIOUS
          <6>2. commit.status = "ROBSquashing" /\ fromCommit.doneSeqNum = commit.squashedSeqNum
            BY <6>1 DEF PipeInv, SquashInv
          <6> QED
            BY <1>1, <4>1, <4>3, <6>2
        <5>2. Undoing(e)'
          BY <5>1 DEF Undoing
        <5>3. e.regs[a] \in MiscRegs \cup freeingInProgress'
          BY <1>1, <1>3, <4>1, <4>3 DEF PipeInv, Inv, MiscFixed
        <5> QED
          BY <5>2, <5>3
      <4> QED
        BY <4>2, <4>3
    <3> QED
      BY <2>4, <3>1, <3>2 DEF PipeInv, RecordInv
  <2>5. \A i \in DOMAIN commit.rob : OnlyIts(commit.rob[i])'
    BY <2>1 DEF PipeInv, RecordInv
  <2>6. \A d \in {1, 2} : \A i \in DOMAIN toIEW[d] : OnlyIts(toIEW[d][i])'
    BY <2>1 DEF PipeInv, RecordInv
  <2> QED
    BY <2>2, <2>3, <2>4, <2>5, <2>6 DEF RecordInv
<1>5. MapsAgree'
  <2> SUFFICES ASSUME NEW a \in ArchRegs PROVE Agree(a)'
    BY AgreeDef
  <2>1. Agree(a)
    BY AgreeDef DEF PipeInv
  <2>2. commit.lastCommitted <= fromCommit.doneSeqNum /\ commit.lastCommitted \in Nat
        /\ fromCommit.doneSeqNum \in Nat
    BY BackNat DEF PipeInv, SquashInv, BackType
  <2>3. Pending(a)' = Pending(a) \ {h}
    BY <1>1 DEF Pending
  <2>4. CASE h.archReg # a
    <3>1. Pending(a)' = Pending(a) /\ renameMap'[a] = renameMap[a]
      BY <1>2, <1>3, <2>3, <2>4 DEF Pending, PipeInv, Inv, MapTypeOK, Regs
    <3> QED
      BY <2>1, <3>1 DEF Agree
  <2>5. CASE h.archReg = a
    <3>1. h \in Pending(a)
      BY <1>1, <1>2, <2>2, <2>5 DEF Pending
    <3>2. renameMap'[a] = h.prevPhysReg
      BY <1>2, <1>3, <2>5 DEF PipeInv, Inv, MapTypeOK, Regs
    <3>3. PICK g \in Pending(a) : /\ \A k \in Pending(a) : g.instSeqNum <= k.instSeqNum
                                  /\ commitMap[a] = g.prevPhysReg
      BY <2>1, <3>1 DEF Agree
    <3>4. CASE g = h
      <4>1. \A k \in Pending(a) : k = h
        <5> SUFFICES ASSUME NEW k \in Pending(a) PROVE k = h
          OBVIOUS
        <5>1. k \in historyBuffer /\ k.archReg = h.archReg
          BY <2>5 DEF Pending
        <5>2. k.instSeqNum = h.instSeqNum
          BY <1>1, <1>2, <3>3, <3>4, <5>1
        <5> QED
          BY <1>1, <1>2, <5>1, <5>2 DEF OneEntry
      <4> QED
        BY <2>3, <3>2, <3>3, <3>4, <4>1 DEF Agree
    <3>5. CASE g # h
      BY <2>3, <3>3, <3>5 DEF Agree
    <3> QED
      BY <3>4, <3>5
  <2> QED
    BY <2>4, <2>5
<1> QED
    BY <1>4, <1>5

(* Rename::doSquash undoes a renaming, or has undone all of them. *)
LEMMA DoSquashPipe == ASSUME PipeInv, DoSquash PROVE BackAll'
<1>1. /\ phase = "squash" /\ fromCommit.squash
      /\ UNCHANGED <<toIEW, commit, fromCommit, commitMap, rename, decode, nextSeq>>
    BY DEF DoSquash, PipeInv, SquashInv
<1>2. Rises
    BY OtherFront DEF PipeInv
<1>3. CASE \E h \in Undone : UndoMapping(h) /\ UNCHANGED phase
  <2>1. PICK h \in Undone : UndoMapping(h) /\ UNCHANGED phase
    BY <1>3
  <2>2. RecordInv' /\ MapsAgree'
    BY <1>1, <2>1, UndoPipe
  <2>3. historyBuffer' \subseteq historyBuffer
    BY <2>1 DEF UndoMapping
  <2>4. (BackType /\ BackInv /\ LostInv /\ HeadInv)'
    BY <1>1, <1>2, <2>1, <2>3, HistoryShrinks
  <2>5. SquashInv' /\ FlowInv'
    BY <1>1, <2>1 DEF PipeInv, SquashInv, FlowInv, NoInsts
  <2> QED
    BY <2>2, <2>4, <2>5 DEF BackAll
<1>4. CASE Undone = {} /\ phase' = "history" /\ UNCHANGED mapVars
  <2>1. (BackType /\ BackInv /\ LostInv /\ HeadInv /\ RecordInv /\ MapsAgree)'
    BY <1>1, <1>2, <1>4, BackKept DEF mapVars
  <2>2. \A h \in historyBuffer : h.instSeqNum <= fromCommit.doneSeqNum
    BY <1>4, HistoryNat DEF Undone, PipeInv, BackType
  <2>3. SquashInv' /\ FlowInv'
    BY <1>1, <1>4, <2>2 DEF PipeInv, SquashInv, FlowInv, NoInsts, mapVars
  <2> QED
    BY <2>1, <2>3 DEF BackAll
<1> QED
    BY <1>3, <1>4 DEF DoSquash

(* Making a renaming final that commit has long made its own. *)
LEMMA HistoryPipe == ASSUME PipeInv, RemoveFromHistory PROVE BackAll'
<1>1. /\ phase = "history" /\ phase' \in {"history", "iew"}
      /\ UNCHANGED <<toIEW, commit, fromCommit, commitMap, decode, nextSeq, fromIEW>>
    BY DEF RemoveFromHistory
<1>2. Rises /\ UNCHANGED <<rename.insts, rename.skid, rename.status, rename.stall>>
    BY HistoryFront DEF PipeInv
<1>3. historyBuffer' \subseteq historyBuffer
    BY DEF RemoveFromHistory, CommitMapping, mapVars
<1>4. SquashInv' /\ FlowInv'
    BY <1>1, <1>2, <1>3 DEF PipeInv, SquashInv, FlowInv, NoInsts
<1>5. CASE UNCHANGED mapVars
    BY <1>1, <1>2, <1>4, <1>5, BackKept DEF BackAll, mapVars
<1>6. CASE \E h \in Removed : CommitMapping(h)
  <2>1. PICK h \in Removed : CommitMapping(h)
    BY <1>6
  <2>2. /\ h \in historyBuffer /\ h.instSeqNum <= fromCommit.doneSeqNum
        /\ ~fromCommit.squash
    BY DEF Removed
  <2>3. h.instSeqNum <= commit.lastCommitted /\ h.instSeqNum \in Nat
    <3>1. fromCommit.doneSeqNum <= commit.lastCommitted
      BY <2>2 DEF PipeInv, SquashInv
    <3>2. h.instSeqNum \in Nat
      BY <2>2, HistoryNat DEF PipeInv
    <3>3. fromCommit.doneSeqNum \in Nat /\ commit.lastCommitted \in Nat
      BY PipeNat DEF PipeInv, BackType
    <3> QED
      BY <2>2, <3>1, <3>2, <3>3
  <2>4. /\ historyBuffer' = historyBuffer \ {h}
        /\ UNCHANGED <<renameMap, freeingInProgress>>
    BY <2>1 DEF CommitMapping
  <2>5. \A n \in SeqNums(commit.rob) \cup SeqNums(toIEW[1]) \cup SeqNums(toIEW[2]) :
           n # h.instSeqNum
    <3>1. \A n \in SeqNums(commit.rob) \cup SeqNums(toIEW[1]) \cup SeqNums(toIEW[2]) :
             commit.lastCommitted < n /\ n \in Nat
      BY <1>1, BackOrder, PipeNat
    <3> QED
      BY <2>3, <3>1, PipeNat
  <2>6. RecordInv'
    <3>1. \A e : OnlyIts(e) => OnlyIts(e)'
      BY <2>4 DEF OnlyIts
    <3>2. \A e, a : e.seqNum # h.instSeqNum /\ Recorded(e, a) => Recorded(e, a)'
      BY <2>4 DEF Recorded
    <3>3. /\ \A i \in DOMAIN commit.rob : commit.rob[i].seqNum # h.instSeqNum
          /\ \A i \in DOMAIN toIEW[1] : toIEW[1][i].seqNum # h.instSeqNum
          /\ \A i \in DOMAIN toIEW[2] : toIEW[2][i].seqNum # h.instSeqNum
      BY <2>5 DEF SeqNums
    <3>4. \A e : Undoing(e)' <=> Undoing(e)
      BY <1>1 DEF Undoing
    <3>5. \A i \in DOMAIN commit.rob : OnlyIts(commit.rob[i])'
      BY <1>1, <3>1 DEF PipeInv, RecordInv
    <3>6. \A d \in {1, 2} : \A i \in DOMAIN toIEW[d] : OnlyIts(toIEW[d][i])'
      BY <1>1, <3>1 DEF PipeInv, RecordInv
    <3>7. \A i \in DOMAIN toIEW[1] : ~toIEW[1][i].squashed =>
             \A a \in DOMAIN toIEW[1][i].regs : Recorded(toIEW[1][i], a)'
      BY <1>1, <3>2, <3>3 DEF PipeInv, RecordInv
    <3>8. \A i \in DOMAIN toIEW[2] : ~toIEW[2][i].squashed =>
             \A a \in DOMAIN toIEW[2][i].regs : Recorded(toIEW[2][i], a)'
      BY <1>1, <3>2, <3>3 DEF PipeInv, RecordInv
    <3>9. \A i \in DOMAIN commit.rob : ~commit.rob[i].squashed =>
             \A a \in DOMAIN commit.rob[i].regs :
               \/ Recorded(commit.rob[i], a)'
               \/ /\ Undoing(commit.rob[i])'
                  /\ commit.rob[i].regs[a] \in MiscRegs \cup freeingInProgress
      <4>1. \A i \in DOMAIN commit.rob : ~commit.rob[i].squashed =>
               \A a \in DOMAIN commit.rob[i].regs :
                 \/ Recorded(commit.rob[i], a)
                 \/ /\ Undoing(commit.rob[i])
                    /\ commit.rob[i].regs[a] \in MiscRegs \cup freeingInProgress
        BY <1>1, ZenonT(30) DEF PipeInv, RecordInv
      <4> QED
        BY <1>1, <3>2, <3>3, <3>4, <4>1, ZenonT(30)
    <3> QED
      BY <1>1, <2>4, <3>5, <3>6, <3>7, <3>8, <3>9 DEF RecordInv
  <2>7. MapsAgree'
    <3> SUFFICES ASSUME NEW a \in ArchRegs PROVE Agree(a)'
      BY AgreeDef
    <3>1. Agree(a)
      BY AgreeDef DEF PipeInv
    <3>2. h \notin Pending(a)
      <4>1. ~(h.instSeqNum > commit.lastCommitted)
        BY <2>3, PipeNat
      <4> QED
        BY <4>1, ZenonT(30) DEF Pending
    <3>3. Pending(a)' = Pending(a)
      BY <1>1, <2>4, <3>2 DEF Pending
    <3> QED
      BY <1>1, <2>4, <3>1, <3>3 DEF Agree
  <2>8. (BackType /\ BackInv /\ LostInv /\ HeadInv)'
    BY <1>1, <1>2, <1>3, HistoryShrinks
  <2> QED
    BY <1>4, <2>6, <2>7, <2>8 DEF BackAll
<1> QED
    BY <1>5, <1>6 DEF RemoveFromHistory

-----------------------------------------------------------------------------
(* Renaming an instruction: nothing squashes, and it is younger than all   *)
(* that was renamed before.                                                *)
LEMMA RenameInstPipe == ASSUME PipeInv, RenameInst, Inv' PROVE BackAll'
<1> DEFINE inst == Head(Queue(rename))
           n == inst.seqNum
           new == [seqNum |-> n, kind |-> inst.kind, squashed |-> FALSE,
                   regs |-> [a \in inst.dests |-> renameMap'[a]]]
           Entry(a) == [instSeqNum |-> n, archReg |-> a,
                        newPhysReg |-> renameMap'[a], prevPhysReg |-> renameMap[a]]
<1>1. /\ phase = "loop" /\ phase' = "loop" /\ HasNext
      /\ RenameDestRegs(n, inst.dests)
      /\ toIEW' = [toIEW EXCEPT ![1] = Append(@, new)]
      /\ UNCHANGED <<commit, fromCommit, commitMap, decode, nextSeq>>
    BY DEF RenameInst
<1>2. inst \in Inst
    BY <1>1, HeadWF DEF PipeInv
<1>3. Rises /\ n \in Later /\ Below({n}, Later')
    BY InstFront DEF PipeInv
<1> HIDE DEF inst
<1>4. n \in Nat /\ inst.dests \subseteq Regs /\ inst.kind \in Kinds
    BY <1>2 DEF Inst
<1>5. PICK e \in Sent : e = new
  <2>1. [a \in inst.dests |-> renameMap'[a]] \in [inst.dests -> PhysRegs \cup MiscRegs]
    BY <1>4 DEF Inv, MapTypeOK
  <2> QED
    BY <1>4, <2>1, ZenonT(30) DEF Sent
<1>51. e.seqNum = n /\ ~e.squashed /\ e.regs = [a \in inst.dests |-> renameMap'[a]]
    BY <1>5
<1>52. toIEW' = [toIEW EXCEPT ![1] = Append(@, e)]
    BY <1>1, <1>5
<1>6. /\ historyBuffer' = historyBuffer \cup {Entry(a) : a \in inst.dests}
      /\ \A h \in historyBuffer : h.instSeqNum < n
      /\ \A a \in ArchRegs : a \notin inst.dests => renameMap'[a] = renameMap[a]
      /\ UNCHANGED freeingInProgress
    BY <1>1 DEF RenameDestRegs, Regs
<1> HIDE DEF new, Entry
<1>7. /\ \A a : Entry(a).instSeqNum = n /\ Entry(a).archReg = a
      /\ \A a : Entry(a).newPhysReg = renameMap'[a] /\ Entry(a).prevPhysReg = renameMap[a]
    BY DEF Entry
<1>8. commit.status # "ROBSquashing" /\ ~fromCommit.squash
    BY <1>1 DEF PipeInv, FlowInv, SquashInv, HasNext
<1> DEFINE q == toIEW[1]
<1>9. /\ toIEW \in [1..3 -> Seq(Sent)] /\ q \in Seq(Sent)
      /\ toIEW'[1] = Append(q, e) /\ toIEW'[2] = toIEW[2]
      /\ toIEW' \in [1..3 -> Seq(Sent)]
    BY <1>52 DEF PipeInv, BackType
<1>10. /\ DOMAIN q = 1..Len(q) /\ Len(q) \in Nat /\ DOMAIN toIEW'[1] = 1..(Len(q) + 1)
       /\ \A i \in 1..Len(q) : toIEW'[1][i] = q[i]
       /\ toIEW'[1][Len(q) + 1] = e
  <2>1. Len(Append(q, e)) = Len(q) + 1 /\ Append(q, e) \in Seq(Sent)
    BY <1>9
  <2> QED
    BY <1>9, <2>1
<1>11. BackType'
    BY <1>1, <1>9 DEF PipeInv, BackType
<1>12. BackInv'
  <2>1. \A M \in SUBSET Nat : Below(M, Later) => Below(M, Later') /\ Below(M, {n})
    <3>1. Later \subseteq Nat /\ QueuesInv
      BY LaterNat DEF PipeInv
    <3>2. ASSUME NEW m \in Nat, \A k \in Later : m < k, NEW k \in Later' PROVE m < k
      BY <3>1, <3>2, <1>3 DEF Rises
    <3> QED
      BY <1>3, <3>2 DEF Below
  <2>2. SeqNums(toIEW'[1]) = SeqNums(q) \cup {n} /\ Sorted(toIEW'[1])
    <3>1. Below(SeqNums(q), {e.seqNum}) /\ Sorted(q)
      BY <1>51, <2>1, BackNat, ZenonT(30) DEF PipeInv, BackInv
    <3> QED
      <4>1. /\ SeqNums(Append(q, e)) = SeqNums(q) \cup {e.seqNum}
            /\ Sorted(q) /\ Below(SeqNums(q), {e.seqNum}) => Sorted(Append(q, e))
        BY <1>9, NumsAppend, ZenonT(30)
      <4> QED
        BY <1>51, <1>9, <3>1, <4>1, ZenonT(30)
  <2>3. /\ Sorted(commit.rob) /\ Sorted(toIEW[2])
        /\ Below({commit.lastCommitted}, SeqNums(commit.rob) \cup SeqNums(toIEW[2])
                                           \cup SeqNums(toIEW'[1]) \cup Later')
        /\ Below(SeqNums(commit.rob), SeqNums(toIEW[2]) \cup SeqNums(toIEW'[1]) \cup Later')
        /\ Below(SeqNums(toIEW[2]), SeqNums(toIEW'[1]) \cup Later')
        /\ Below(SeqNums(toIEW'[1]), Later')
    <3>1. /\ Below({commit.lastCommitted}, Later) /\ Below(SeqNums(commit.rob), Later)
          /\ Below(SeqNums(toIEW[2]), Later) /\ Below(SeqNums(q), Later)
      BY DEF PipeInv, BackInv, Below
    <3>2. /\ Below({commit.lastCommitted}, Later' \cup {n})
          /\ Below(SeqNums(commit.rob), Later' \cup {n})
          /\ Below(SeqNums(toIEW[2]), Later' \cup {n}) /\ Below(SeqNums(q), Later' \cup {n})
      <4>1. \A M \in SUBSET Nat : Below(M, Later) => Below(M, Later' \cup {n})
        BY <2>1 DEF Below
      <4>2. /\ {commit.lastCommitted} \in SUBSET Nat /\ SeqNums(commit.rob) \in SUBSET Nat
            /\ SeqNums(toIEW[2]) \in SUBSET Nat /\ SeqNums(q) \in SUBSET Nat
        BY PipeNat
      <4> QED
        BY <3>1, <4>1, <4>2, ZenonT(30)
    <3> QED
      BY <1>1, <1>3, <2>2, <3>2 DEF PipeInv, BackInv, Sent2, Below
  <2> QED
    BY <1>1, <1>9, <2>2, <2>3 DEF BackInv, Sent2
<1>13. SquashInv' /\ FlowInv'
    BY <1>1, <1>8, ZenonT(30) DEF PipeInv, SquashInv, FlowInv
<1>14. LostInv'
  <2>1. \A m : HoldsIn(toIEW[1], m) => HoldsIn(toIEW'[1], m)
    BY <1>10 DEF HoldsIn
  <2>2. HoldsIn(toIEW'[1], n)
    BY <1>51, <1>10 DEF HoldsIn
  <2> SUFFICES ASSUME NEW h \in historyBuffer'
               PROVE  \/ h.instSeqNum <= commit.lastCommitted
                      \/ HoldsIn(toIEW'[1], h.instSeqNum)
                      \/ HoldsIn(toIEW[2], h.instSeqNum)
                      \/ HoldsIn(commit.rob, h.instSeqNum)
                      \/ WillBeSquashed(h.instSeqNum)
    BY <1>1, <1>9 DEF LostInv, WillBeSquashed, HoldsIn
  <2>3. CASE h \in historyBuffer
    BY <2>1, <2>3 DEF PipeInv, LostInv
  <2>4. CASE h \notin historyBuffer
    BY <1>6, <1>7, <2>2, <2>4
  <2> QED
    BY <2>3, <2>4
<1>15. HeadInv'
  <2>1. commit.rob # <<>> => commit.rob[1].seqNum < n /\ commit.rob[1].seqNum \in Nat
    <3> SUFFICES ASSUME commit.rob # <<>>
                 PROVE  commit.rob[1].seqNum < n /\ commit.rob[1].seqNum \in Nat
      OBVIOUS
    <3>1. commit.rob[1].seqNum \in SeqNums(commit.rob)
      <4>1. 1 \in DOMAIN commit.rob
        BY PipeNat
      <4> QED
        BY <4>1, PipeNat
    <3> QED
      BY <1>3, <3>1, BackOrder, PipeNat
  <2> QED
    BY <1>1, <1>4, <1>6, <1>7, <2>1 DEF PipeInv, HeadInv
<1>16. RecordInv'
  <2>1. \A m \in SeqNums(commit.rob) \cup SeqNums(toIEW[1]) \cup SeqNums(toIEW[2]) : m # n
    BY <1>3, <1>4, BackOrder, PipeNat
  <2>2. \A x : x.seqNum # n /\ OnlyIts(x) => OnlyIts(x)'
    BY <1>6, <1>7 DEF OnlyIts
  <2>3. \A x, a : Recorded(x, a) => Recorded(x, a)'
    BY <1>6 DEF Recorded
  <2>4. /\ \A i \in DOMAIN commit.rob : commit.rob[i].seqNum # n
        /\ \A i \in DOMAIN toIEW[1] : toIEW[1][i].seqNum # n
        /\ \A i \in DOMAIN toIEW[2] : toIEW[2][i].seqNum # n
    BY <2>1 DEF SeqNums
  <2>5. OnlyIts(e)'
    <3>1. \A h \in historyBuffer' : h.instSeqNum = n => h.archReg \in inst.dests
      BY <1>4, <1>6, <1>7, HistoryNat DEF PipeInv
    <3> QED
      BY <1>51, <3>1 DEF OnlyIts
  <2>6. \A a \in DOMAIN e.regs : Recorded(e, a)'
    <3> SUFFICES ASSUME NEW a \in inst.dests PROVE Recorded(e, a)'
      BY <1>51
    <3>1. Entry(a) \in historyBuffer' /\ e.regs[a] = renameMap'[a]
      BY <1>51, <1>6
    <3> QED
      BY <1>51, <1>7, <3>1 DEF Recorded
  <2>7. \A i \in DOMAIN commit.rob : OnlyIts(commit.rob[i])'
    BY <1>1, <2>2, <2>4 DEF PipeInv, RecordInv
  <2>8. /\ \A i \in DOMAIN toIEW'[1] : OnlyIts(toIEW[1][i])'
        /\ \A i \in DOMAIN toIEW'[2] : OnlyIts(toIEW[2][i])'
    <3>1. \A i \in 1..Len(q) : OnlyIts(toIEW[1][i])'
      BY <1>10, <2>2, <2>4, ZenonT(30) DEF PipeInv, RecordInv
    <3>2. \A i \in DOMAIN toIEW'[2] : OnlyIts(toIEW[2][i])'
      BY <1>9, <2>2, <2>4 DEF PipeInv, RecordInv
    <3> QED
      BY <1>10, <2>5, <3>1, <3>2
  <2>9. \A i \in DOMAIN toIEW'[1] : ~toIEW'[1][i].squashed =>
          \A a \in DOMAIN toIEW'[1][i].regs : Recorded(toIEW[1][i], a)'
    <3>1. \A i \in 1..Len(q) : ~q[i].squashed =>
            \A a \in DOMAIN q[i].regs : Recorded(toIEW[1][i], a)'
      BY <1>10, <2>3 DEF PipeInv, RecordInv
    <3> QED
      BY <1>10, <2>6, <3>1
  <2>10. \A i \in DOMAIN toIEW'[2] : ~toIEW'[2][i].squashed =>
          \A a \in DOMAIN toIEW'[2][i].regs : Recorded(toIEW[2][i], a)'
    BY <1>1, <1>9, <2>3, ZenonT(30) DEF PipeInv, RecordInv
  <2>11. \A i \in DOMAIN commit.rob : ~commit.rob[i].squashed =>
             \A a \in DOMAIN commit.rob[i].regs : Recorded(commit.rob[i], a)'
    BY <1>1, <1>8, <2>3, ZenonT(30) DEF PipeInv, RecordInv, Undoing
  <2> QED
    BY <1>1, <2>7, <2>8, <2>9, <2>10, <2>11 DEF RecordInv
<1>17. MapsAgree'
  <2> SUFFICES ASSUME NEW a \in ArchRegs PROVE Agree(a)'
    BY AgreeDef
  <2>1. Agree(a)
    BY AgreeDef DEF PipeInv
  <2>2. commit.lastCommitted < n
    BY <1>3, BackNat, ZenonT(30) DEF PipeInv, BackInv, Below
  <2>3. CASE a \notin inst.dests
    <3>1. Pending(a)' = Pending(a) /\ renameMap'[a] = renameMap[a]
      BY <1>1, <1>6, <1>7, <2>3 DEF Pending
    <3> QED
      BY <1>1, <2>1, <3>1 DEF Agree
  <2>4. CASE a \in inst.dests
    <3>1. Pending(a)' = Pending(a) \cup {Entry(a)}
      BY <1>1, <1>6, <1>7, <2>2, <2>4 DEF Pending
    <3>2. \A g \in Pending(a) : g.instSeqNum <= n
      BY <1>4, <1>6, HistoryNat DEF Pending, PipeInv
    <3>3. CASE Pending(a) = {}
      BY <1>1, <1>4, <1>7, <2>1, <3>1, <3>3 DEF Agree
    <3>4. CASE Pending(a) # {}
      BY <1>1, <1>7, <2>1, <3>1, <3>2, <3>4 DEF Agree
    <3> QED
      BY <3>3, <3>4
  <2> QED
    BY <2>3, <2>4
<1> QED
    BY <1>11, <1>12, <1>13, <1>14, <1>15, <1>16, <1>17 DEF BackAll

(* Decode: a squash marks what is on its way to the ROB. *)
LEMMA DecodePipe == ASSUME PipeInv, DecodeTick PROVE BackAll'
<1>1. /\ phase = "decode" /\ phase' = "rename"
      /\ UNCHANGED <<commit, fromCommit, commitMap, renameMap, historyBuffer,
                     freeingInProgress, fromIEW>>
      /\ toIEW' = IF fromCommit.squash
                  THEN [d \in 1..3 |-> [i \in DOMAIN toIEW[d] |->
                                          [toIEW[d][i] EXCEPT !.squashed = TRUE]]]
                  ELSE toIEW
    BY DEF DecodeTick, mapVars
<1>2. /\ Rises
      /\ fromCommit.squash => decode'.out = <<>>
      /\ decode.out = <<>> => rename'.insts = rename.insts
      /\ UNCHANGED <<rename.skid, rename.status, rename.stall>>
    BY DecodeFront DEF PipeInv
<1>3. CASE ~fromCommit.squash
  <2>1. UNCHANGED toIEW
    BY <1>1, <1>3
  <2>2. SquashInv'
    BY <1>1, <1>3, <2>1 DEF PipeInv, SquashInv
  <2>3. FlowInv'
    BY <1>1, <1>2, <1>3, <2>1 DEF PipeInv, FlowInv, NoInsts, Blocking
  <2> QED
    BY <1>1, <1>2, <2>1, <2>2, <2>3, BackKept DEF BackAll
<1>4. CASE fromCommit.squash
  <2>1. \A d \in 1..3 : toIEW[d] \in Seq(Sent)
    BY DEF PipeInv, BackType
  <2>2. \A d \in 1..3 :
          /\ toIEW'[d] \in Seq(Sent) /\ DOMAIN toIEW'[d] = DOMAIN toIEW[d]
          /\ \A i \in DOMAIN toIEW[d] : /\ toIEW'[d][i].squashed
                                        /\ toIEW'[d][i].seqNum = toIEW[d][i].seqNum
                                        /\ toIEW'[d][i].regs = toIEW[d][i].regs
    <3> SUFFICES ASSUME NEW d \in 1..3
                 PROVE  /\ toIEW'[d] \in Seq(Sent) /\ DOMAIN toIEW'[d] = DOMAIN toIEW[d]
                        /\ \A i \in DOMAIN toIEW[d] :
                              /\ toIEW'[d][i].squashed
                              /\ toIEW'[d][i].seqNum = toIEW[d][i].seqNum
                              /\ toIEW'[d][i].regs = toIEW[d][i].regs
      BY ZenonT(30)
    <3> DEFINE q == toIEW[d]
               r == [i \in DOMAIN q |-> [q[i] EXCEPT !.squashed = TRUE]]
    <3>1. toIEW'[d] = r /\ q \in Seq(Sent)
      BY <1>1, <1>4, <2>1
    <3> HIDE DEF q
    <3>2. Len(q) \in Nat /\ DOMAIN q = 1..Len(q) /\ \A i \in DOMAIN q : q[i] \in Sent
      BY <3>1
    <3>3. \A i \in DOMAIN q : r[i] \in Sent /\ r[i].squashed /\ r[i].seqNum = q[i].seqNum
                              /\ r[i].regs = q[i].regs
      BY <3>2, ZenonT(30) DEF Sent
    <3>4. DOMAIN r = DOMAIN q
      OBVIOUS
    <3> HIDE DEF r
    <3>5. r \in Seq(Sent)
      <4>1. r \in [1..Len(q) -> Sent]
        BY <3>2, <3>3, <3>4 DEF r
      <4> QED
        BY <3>2, <4>1
    <3> QED
      BY <3>1, <3>3, <3>4, <3>5 DEF q
  <2>3. BackType'
    <3>1. toIEW' \in [1..3 -> Seq(Sent)]
      <4>1. DOMAIN toIEW' = 1..3 /\ toIEW' = [d \in 1..3 |-> toIEW'[d]]
        BY <1>1, <1>4
      <4> QED
        BY <2>2, <4>1
    <3> QED
      BY <1>1, <3>1 DEF PipeInv, BackType
  <2>4. \A d \in 1..3 : SeqNums(toIEW'[d]) = SeqNums(toIEW[d])
                        /\ (Sorted(toIEW'[d]) <=> Sorted(toIEW[d]))
    <3> SUFFICES ASSUME NEW d \in 1..3
                 PROVE  /\ SeqNums(toIEW'[d]) = SeqNums(toIEW[d])
                        /\ Sorted(toIEW'[d]) <=> Sorted(toIEW[d])
      BY ZenonT(30)
    <3>1. /\ DOMAIN toIEW'[d] = DOMAIN toIEW[d]
          /\ \A i \in DOMAIN toIEW'[d] : toIEW'[d][i].seqNum = toIEW[d][i].seqNum
      BY <2>2, ZenonT(30)
    <3> QED
      BY <3>1, NumsSame, ZenonT(30)
  <2>5. BackInv'
    <3>1. \A d \in 1..2 : /\ SeqNums(toIEW'[d]) = SeqNums(toIEW[d])
                          /\ Sorted(toIEW[d]) => Sorted(toIEW'[d])
      BY <2>4
    <3> QED
      BY <1>1, <1>2, <3>1, BackInvKept
  <2>6. SquashInv'
    <3>1. Below({fromCommit.doneSeqNum}, SeqNums(toIEW'[1]) \cup SeqNums(toIEW'[2]))
      <4>1. /\ SeqNums(toIEW'[1]) = SeqNums(toIEW[1])
            /\ SeqNums(toIEW'[2]) = SeqNums(toIEW[2])
        BY <2>4
      <4>2. Below({fromCommit.doneSeqNum}, SeqNums(toIEW[1]) \cup SeqNums(toIEW[2]))
        BY <1>4 DEF PipeInv, SquashInv
      <4> QED
        BY <4>1, <4>2 DEF Below
    <3> QED
      BY <1>1, <3>1 DEF PipeInv, SquashInv
  <2>7. FlowInv'
    BY <1>1, <1>2, <1>4, <2>2 DEF FlowInv, Marked
  <2>8. LostInv'
    <3>1. ASSUME NEW d \in {1, 2}, NEW n \in Nat, HoldsIn(toIEW[d], n)
          PROVE  n > fromCommit.doneSeqNum
      <4>1. n \in SeqNums(toIEW[d])
        BY <3>1 DEF HoldsIn, SeqNums
      <4> QED
        BY <1>4, <4>1, ZenonT(30) DEF PipeInv, SquashInv, BackType, Below
    <3> SUFFICES ASSUME NEW h \in historyBuffer
                 PROVE  \/ h.instSeqNum <= commit.lastCommitted
                        \/ HoldsIn(commit.rob, h.instSeqNum)
                        \/ WillBeSquashed(h.instSeqNum)
      BY <1>1 DEF LostInv, WillBeSquashed, HoldsIn
    <3>2. h.instSeqNum \in Nat
      BY HistoryNat DEF PipeInv
    <3> QED
      BY <1>4, <3>1, <3>2 DEF PipeInv, LostInv, WillBeSquashed
  <2>9. HeadInv' /\ MapsAgree'
    BY <1>1 DEF PipeInv, HeadInv, MapsAgree
  <2>10. RecordInv'
    <3>1. ASSUME NEW d \in {1, 2}, NEW i \in DOMAIN toIEW'[d] PROVE OnlyIts(toIEW[d][i])'
      <4>1. i \in DOMAIN toIEW[d] /\ OnlyIts(toIEW[d][i])
        BY <2>2 DEF PipeInv, RecordInv
      <4>2. /\ toIEW'[d][i].seqNum = toIEW[d][i].seqNum
            /\ toIEW'[d][i].regs = toIEW[d][i].regs
        BY <2>2, <4>1
      <4> QED
        BY <1>1, <4>1, <4>2 DEF OnlyIts
    <3>2. \A i \in DOMAIN toIEW'[1] : toIEW'[1][i].squashed
      BY <2>2
    <3>3. \A i \in DOMAIN toIEW'[2] : toIEW'[2][i].squashed
      BY <2>2
    <3>4. \A i \in DOMAIN commit.rob :
             /\ OnlyIts(commit.rob[i])'
             /\ ~commit.rob[i].squashed =>
                  \A a \in DOMAIN commit.rob[i].regs :
                     Recorded(commit.rob[i], a)'
                     \/ (Undoing(commit.rob[i])
                         /\ commit.rob[i].regs[a] \in MiscRegs \cup freeingInProgress)'
      BY <1>1 DEF PipeInv, RecordInv, Recorded, OnlyIts, Undoing
    <3> QED
      BY <1>1, <3>1, <3>2, <3>3, <3>4, ZenonT(30) DEF RecordInv
  <2> QED
    BY <2>3, <2>5, <2>6, <2>7, <2>8, <2>9, <2>10 DEF BackAll
<1> QED
    BY <1>3, <1>4

-----------------------------------------------------------------------------
(* Every non-empty set of naturals has a least element.  The lemmas that   *)
(* need it take it as a hypothesis; O3CommitProofs proves it.              *)
LeastElements ==
    \A T \in SUBSET Nat : T # {} => \E x \in T : \A y \in T : x <= y

(* What Max chooses in a bounded set of integers. *)
LEMMA MaxFacts ==
    ASSUME LeastElements, NEW S \in SUBSET Int, S # {}, NEW bound \in Int, \A y \in S : y <= bound
    PROVE  Max(S) \in S /\ \A y \in S : y <= Max(S)
<1> DEFINE T == {bound - y : y \in S}
<1>1. T \in SUBSET Nat /\ T # {}
  <2>1. \A y \in S : bound - y \in Nat
    OBVIOUS
  <2> QED
    BY <2>1
<1>2. PICK t \in T : \A u \in T : t <= u
    BY <1>1, ZenonT(30) DEF LeastElements
<1>3. PICK x \in S : t = bound - x
    OBVIOUS
<1>4. \A y \in S : x >= y
    BY <1>2, <1>3
<1>5. \E z \in S : \A y \in S : z >= y
    BY <1>4
<1>6. Max(S) \in S /\ \A y \in S : Max(S) >= y
    BY <1>5, ZenonT(30) DEF Max
<1> QED
    BY <1>6


(* d has the instructions of c, with more of them marked, but none that    *)
(* the squash of d keeps.                                                  *)
Marks(c, d) ==
    /\ DOMAIN d.rob = DOMAIN c.rob
    /\ \A i \in DOMAIN c.rob :
          /\ d.rob[i].seqNum = c.rob[i].seqNum /\ d.rob[i].regs = c.rob[i].regs
          /\ c.rob[i].squashed => d.rob[i].squashed
          /\ d.rob[i].squashed => c.rob[i].squashed \/ c.rob[i].seqNum > d.squashedSeqNum
    /\ d.lastCommitted = c.lastCommitted

(* ROB::doSquash walks squashWidth instructions from squashIt towards the  *)
(* head and marks the ones younger than the instruction squashed to.       *)
LEMMA ROBDoSquashFacts ==
    ASSUME LeastElements, NEW c \in CommitState, platform.squashWidth \in Nat, Sorted(c.rob),
           c.squashIt \in 0..Len(c.rob)
    PROVE  LET d == ROBDoSquash(c)
           IN /\ d \in CommitState /\ Marks(c, d)
              /\ d.status = c.status /\ d.youngest = c.youngest
              /\ d.squashedSeqNum = c.squashedSeqNum
              /\ d.squashIt \in 0..c.squashIt
              /\ \A i \in DOMAIN c.rob :
                    d.squashIt < i /\ i <= c.squashIt /\ c.rob[i].seqNum > c.squashedSeqNum
                      => d.rob[i].squashed
<1> DEFINE older == {i \in 1..c.squashIt : c.rob[i].seqNum <= c.squashedSeqNum}
           S == {0, c.squashIt - platform.squashWidth} \cup older
           next == Max(S)
           rob == [i \in DOMAIN c.rob |->
                     [c.rob[i] EXCEPT !.squashed = @ \/ i \in (next + 1)..c.squashIt]]
           it == IF next \in older THEN 0 ELSE next
           d == ROBDoSquash(c)
<1>1. /\ c.rob \in Seq(Sent) /\ c.squashIt \in Nat /\ c.squashedSeqNum \in Nat
      /\ DOMAIN c.rob = 1..Len(c.rob) /\ Len(c.rob) \in Nat
    BY DEF CommitState
<1>2. next \in S /\ \A y \in S : y <= next
  <2>1. S \in SUBSET Int /\ S # {}
    BY <1>1
  <2>2. c.squashIt \in Int /\ \A y \in S : y <= c.squashIt
    BY <1>1
  <2>3. Max(S) \in S /\ \A y \in S : y <= Max(S)
    <3> HIDE DEF S
    <3> QED
      BY <2>1, <2>2, MaxFacts, ZenonT(30)
  <2> QED
    BY <2>3
<1>3. next \in 0..c.squashIt /\ \A i \in older : i <= next
    BY <1>1, <1>2
<1>4. d = [c EXCEPT !.rob = rob, !.squashIt = it, !.squashedSeqNum = c.squashedSeqNum]
    BY ZenonT(30) DEF ROBDoSquash, CommitState
<1> HIDE DEF next
<1>5. \A i \in 1..Len(c.rob) : c.rob[i] \in Sent
    BY <1>1
<1>6. /\ rob \in Seq(Sent) /\ DOMAIN rob = DOMAIN c.rob /\ Len(rob) = Len(c.rob)
      /\ \A i \in DOMAIN c.rob :
            /\ rob[i].seqNum = c.rob[i].seqNum /\ rob[i].regs = c.rob[i].regs
            /\ rob[i].squashed <=> c.rob[i].squashed \/ i \in (next + 1)..c.squashIt
  <2>1. ASSUME NEW i \in 1..Len(c.rob)
        PROVE  /\ [c.rob[i] EXCEPT !.squashed = @ \/ i \in (next + 1)..c.squashIt] \in Sent
               /\ rob[i].seqNum = c.rob[i].seqNum /\ rob[i].regs = c.rob[i].regs
               /\ rob[i].squashed <=> c.rob[i].squashed \/ i \in (next + 1)..c.squashIt
    <3> DEFINE x == i \in (next + 1)..c.squashIt
    <3>1. rob[i] = [c.rob[i] EXCEPT !.squashed = @ \/ x]
      BY <1>1
    <3> HIDE DEF x, rob
    <3>2. c.rob[i] \in Sent /\ x \in BOOLEAN
      BY <1>5 DEF x
    <3>3. /\ [c.rob[i] EXCEPT !.squashed = @ \/ x] \in Sent
          /\ rob[i].seqNum = c.rob[i].seqNum /\ rob[i].regs = c.rob[i].regs
          /\ rob[i].squashed <=> c.rob[i].squashed \/ x
      BY <3>1, <3>2, ZenonT(30) DEF Sent
    <3> QED
      BY <3>3 DEF x
  <2>2. rob \in [1..Len(c.rob) -> Sent]
    BY <1>1, <2>1, ZenonT(30)
  <2>3. rob \in Seq(Sent) /\ DOMAIN rob = 1..Len(c.rob) /\ Len(rob) = Len(c.rob)
    <3> HIDE DEF rob
    <3> QED
      BY <1>1, <2>2
  <2> QED
    BY <1>1, <2>1, <2>3, ZenonT(30)
<1>7. it \in 0..c.squashIt
    BY <1>1, <1>3
<1> HIDE DEF rob, it
<1>8. /\ d \in CommitState
      /\ d.rob = rob /\ d.squashIt = it /\ d.status = c.status /\ d.youngest = c.youngest
      /\ d.squashedSeqNum = c.squashedSeqNum /\ d.lastCommitted = c.lastCommitted
  <2> HIDE DEF d
  <2>1. rob \in Seq(Sent) /\ it \in Nat /\ c.squashedSeqNum \in Nat
    BY <1>1, <1>6, <1>7
  <2> QED
    BY <1>4, <2>1, ZenonT(30) DEF CommitState
<1> HIDE DEF d
<1>9. Marks(c, d)
  <2>1. ASSUME NEW i \in DOMAIN c.rob, i \in (next + 1)..c.squashIt
        PROVE  c.rob[i].seqNum > c.squashedSeqNum
    <3>1. i \notin older /\ i \in 1..c.squashIt
      BY <1>1, <1>3, <2>1
    <3>2. c.rob[i].seqNum \in Nat
      BY <1>1, <1>5 DEF Sent
    <3> QED
      BY <1>1, <3>1, <3>2
  <2> QED
    BY <1>6, <1>8, <2>1 DEF Marks
<1>10. ASSUME NEW i \in DOMAIN c.rob, it < i, i <= c.squashIt,
              c.rob[i].seqNum > c.squashedSeqNum
       PROVE  rob[i].squashed
  <2>1. CASE next \in older
    <3>1. c.rob[next].seqNum <= c.squashedSeqNum /\ next \in 1..c.squashIt
      BY <2>1
    <3>2. ~(i <= next)
      <4> SUFFICES ASSUME i <= next PROVE FALSE
        OBVIOUS
      <4>1. i = next \/ c.rob[i].seqNum < c.rob[next].seqNum
        BY <1>1, <3>1 DEF Sorted
      <4>2. c.rob[i].seqNum \in Nat /\ c.rob[next].seqNum \in Nat
        <5>1. next \in DOMAIN c.rob
          BY <1>1, <3>1
        <5>2. c.rob[i] \in Sent /\ c.rob[next] \in Sent
          BY <1>5, <5>1
        <5> QED
          BY <5>2 DEF Sent
      <4> QED
        BY <1>1, <1>10, <3>1, <4>1, <4>2
    <3> QED
      BY <1>1, <1>3, <1>6, <1>10, <3>2
  <2>2. CASE next \notin older
    BY <1>1, <1>3, <1>6, <1>10, <2>2 DEF it
  <2> QED
    BY <2>1, <2>2
<1> QED
    BY <1>7, <1>8, <1>9, <1>10 DEF d

(* ROB::squash starts the walk at the tail and takes its first steps. *)
LEMMA ROBSquashFacts ==
    ASSUME LeastElements, NEW c \in CommitState, platform.squashWidth \in Nat, Sorted(c.rob),
           c.squashIt \in 0..Len(c.rob), NEW n \in Nat
    PROVE  LET d == ROBSquash(c, n)
           IN /\ d \in CommitState
              /\ c.rob = <<>> => d = c
              /\ c.rob # <<>> =>
                   /\ Marks(c, d) /\ d.squashedSeqNum = n /\ d.rob # <<>>
                   /\ d.squashIt \in 0..Len(d.rob)
                   /\ \A i \in DOMAIN d.rob :
                        i > d.squashIt /\ d.rob[i].seqNum > n => d.rob[i].squashed
<1>1. CASE c.rob = <<>>
    BY <1>1 DEF ROBSquash
<1>2. CASE c.rob # <<>>
  <2> DEFINE b == [c EXCEPT !.squashedSeqNum = n, !.squashIt = Len(c.rob)]
             d == ROBSquash(c, n)
  <2>1. /\ b \in CommitState /\ b.rob = c.rob /\ b.squashIt = Len(c.rob)
        /\ b.squashedSeqNum = n /\ b.lastCommitted = c.lastCommitted
        /\ Len(c.rob) \in Nat /\ DOMAIN c.rob = 1..Len(c.rob)
    <3>1. Len(c.rob) \in Nat /\ DOMAIN c.rob = 1..Len(c.rob) /\ c.rob \in Seq(Sent)
      BY DEF CommitState
    <3>2. b = [c EXCEPT !.rob = c.rob, !.squashIt = Len(c.rob), !.squashedSeqNum = n]
      BY ZenonT(30) DEF CommitState
    <3> HIDE DEF b
    <3> QED
      BY <3>1, <3>2, ZenonT(30) DEF CommitState
  <2>2. d = ROBDoSquash(b)
    BY <1>2 DEF ROBSquash
  <2> HIDE DEF b, d
  <2>3. /\ d \in CommitState /\ Marks(b, d) /\ d.squashedSeqNum = n
        /\ d.squashIt \in 0..b.squashIt
        /\ \A i \in DOMAIN b.rob :
              d.squashIt < i /\ i <= b.squashIt /\ b.rob[i].seqNum > b.squashedSeqNum
                => d.rob[i].squashed
    <3>1. Sorted(b.rob) /\ b.squashIt \in 0..Len(b.rob)
      BY <2>1
    <3> QED
      BY <2>1, <2>2, <3>1, ROBDoSquashFacts, ZenonT(30)
  <2>4. Marks(c, d)
    BY <2>1, <2>3 DEF Marks
  <2>5. DOMAIN d.rob = 1..Len(c.rob) /\ d.rob \in Seq(Sent)
    BY <2>1, <2>3, <2>4 DEF Marks, CommitState
  <2>6. Len(d.rob) = Len(c.rob) /\ d.rob # <<>>
    BY <1>2, <2>1, <2>5
  <2>7. \A i \in DOMAIN d.rob : i > d.squashIt /\ d.rob[i].seqNum > n => d.rob[i].squashed
    BY <2>1, <2>3, <2>4, <2>5 DEF Marks
  <2> QED
    BY <1>2, <2>1, <2>3, <2>4, <2>6, <2>7 DEF d
<1> QED
    BY <1>1, <1>2

-----------------------------------------------------------------------------
(* The start of Commit::tick: c is the state that checkSquashing leaves.   *)
Checked(c) ==
    /\ c \in CommitState
    /\ DOMAIN c.rob = DOMAIN commit.rob
    /\ \A i \in DOMAIN commit.rob :
          /\ c.rob[i].seqNum = commit.rob[i].seqNum /\ c.rob[i].regs = commit.rob[i].regs
          /\ commit.rob[i].squashed => c.rob[i].squashed
          /\ c.rob[i].squashed =>
               \/ commit.rob[i].squashed
               \/ commit.status = "ROBSquashing" /\ commit.rob[i].seqNum > commit.squashedSeqNum
    /\ c.lastCommitted = commit.lastCommitted /\ c.youngest = commit.youngest
    /\ c.squashedSeqNum = commit.squashedSeqNum
    /\ c.squashIt \in 0..Len(commit.rob)
    /\ c.status # "ROBSquashing" => c.squashIt = 0
    /\ \/ c.status = commit.status
       \/ commit.status = "ROBSquashing" /\ c.status = "Running"
    /\ commit.status = "ROBSquashing" =>
         \A i \in DOMAIN commit.rob :
            i > c.squashIt /\ commit.rob[i].seqNum > commit.squashedSeqNum => c.rob[i].squashed

(* The ROB takes another stretch of its walk, and may be done. *)
LEMMA CheckSquashingFacts == ASSUME LeastElements, PipeInv PROVE Checked(CheckSquashing(commit))
<1> DEFINE c == CheckSquashing(commit)
<1>1. /\ commit \in CommitState /\ commit.squashIt \in 0..Len(commit.rob)
      /\ Sorted(commit.rob) /\ platform.squashWidth \in Nat
    BY PlatformsAssumption DEF PipeInv, BackType, SquashInv, BackInv, QueuesInv
<1>2. /\ DOMAIN commit.rob = 1..Len(commit.rob) /\ Len(commit.rob) \in Nat
      /\ commit.squashIt \in Nat
      /\ \A i \in DOMAIN commit.rob : commit.rob[i].seqNum \in Nat
  <2>1. commit.rob \in Seq(Sent)
    BY BackNat DEF PipeInv
  <2>2. \A i \in DOMAIN commit.rob : commit.rob[i] \in Sent
    BY <2>1
  <2> QED
    BY <2>1, <2>2, BackNat DEF PipeInv, Sent
<1>3. CASE commit.status # "ROBSquashing"
  <2>1. c = commit
    BY <1>3 DEF CheckSquashing
  <2>2. commit.squashIt = 0
    BY <1>3 DEF PipeInv, SquashInv
  <2>3. Checked(commit)
    BY <1>1, <1>3, <2>2 DEF Checked
  <2> QED
    BY <2>1, <2>3
<1>4. CASE commit.status = "ROBSquashing" /\ commit.squashIt = 0
  <2>1. c = [commit EXCEPT !.status = "Running"]
    BY <1>4 DEF CheckSquashing
  <2> HIDE DEF c
  <2>2. /\ c \in CommitState /\ c.rob = commit.rob /\ c.status = "Running"
        /\ c.squashIt = commit.squashIt /\ c.lastCommitted = commit.lastCommitted
        /\ c.youngest = commit.youngest /\ c.squashedSeqNum = commit.squashedSeqNum
    BY <1>1, <2>1, ZenonT(30) DEF CommitState, CommitStatuses
  <2>3. \A i \in DOMAIN commit.rob :
           commit.rob[i].seqNum > commit.squashedSeqNum => commit.rob[i].squashed
    <3>1. commit.rob # <<>> =>
            \A i \in DOMAIN commit.rob :
               i > commit.squashIt /\ commit.rob[i].seqNum > commit.squashedSeqNum
                 => commit.rob[i].squashed
      BY <1>4 DEF PipeInv, SquashInv
    <3> QED
      BY <1>2, <1>4, <3>1
  <2>4. Checked(c)
    BY <1>1, <1>2, <1>4, <2>2, <2>3 DEF Checked
  <2> QED
    BY <2>4 DEF c
<1>5. CASE commit.status = "ROBSquashing" /\ commit.squashIt # 0
  <2>1. c = ROBDoSquash(commit)
    BY <1>5 DEF CheckSquashing
  <2> HIDE DEF c
  <2>2. /\ c \in CommitState /\ Marks(commit, c)
        /\ c.status = commit.status /\ c.youngest = commit.youngest
        /\ c.squashedSeqNum = commit.squashedSeqNum
        /\ c.squashIt \in 0..commit.squashIt
        /\ \A i \in DOMAIN commit.rob :
              c.squashIt < i /\ i <= commit.squashIt
              /\ commit.rob[i].seqNum > commit.squashedSeqNum => c.rob[i].squashed
    BY <1>1, <2>1, ROBDoSquashFacts
  <2>3. commit.rob # <<>>
    BY <1>1, <1>2, <1>5
  <2>4. \A i \in DOMAIN commit.rob :
           i > commit.squashIt /\ commit.rob[i].seqNum > commit.squashedSeqNum
             => commit.rob[i].squashed
    BY <1>5, <2>3 DEF PipeInv, SquashInv
  <2>5. \A i \in DOMAIN commit.rob :
           i > c.squashIt /\ commit.rob[i].seqNum > commit.squashedSeqNum => c.rob[i].squashed
    BY <1>2, <2>2, <2>4 DEF Marks
  <2>6. c.squashIt \in 0..Len(commit.rob)
    BY <1>1, <1>2, <2>2
  <2>7. Checked(c)
    <3>1. /\ DOMAIN c.rob = DOMAIN commit.rob /\ c.lastCommitted = commit.lastCommitted
          /\ \A i \in DOMAIN commit.rob :
               /\ c.rob[i].seqNum = commit.rob[i].seqNum /\ c.rob[i].regs = commit.rob[i].regs
               /\ commit.rob[i].squashed => c.rob[i].squashed
               /\ c.rob[i].squashed =>
                    commit.rob[i].squashed \/ commit.rob[i].seqNum > commit.squashedSeqNum
      BY <2>2 DEF Marks
    <3> QED
      BY <1>5, <2>2, <2>5, <2>6, <3>1, ZenonT(30) DEF Checked
  <2> QED
    BY <2>7 DEF c
<1> QED
    BY <1>3, <1>4, <1>5

(* A new squash: it keeps no instruction that an older one has marked.     *)
LEMMA SquashToPipe ==
    ASSUME LeastElements, PipeInv, phase = "commit", NEW n \in Nat, NEW y \in Nat,
           SquashTo(CheckSquashing(commit), n, y),
           y <= n, commit.lastCommitted <= n,
           Below({n}, SeqNums(toIEW[1]) \cup SeqNums(toIEW[2])),
           commit.status = "ROBSquashing" =>
              \A i \in DOMAIN commit.rob :
                 commit.rob[i].seqNum > commit.squashedSeqNum => commit.rob[i].seqNum > n,
           commit.status \in {"TrapPending", "SquashAfterPending"} =>
              \A h \in historyBuffer : h.instSeqNum <= commit.lastCommitted \/ h.instSeqNum > n
    PROVE  BackAll'
<1> DEFINE c == CheckSquashing(commit)
           d == ROBSquash(c, n)
<1>1. /\ commit' = [d EXCEPT !.status = "ROBSquashing", !.youngest = y, !.changed = TRUE]
      /\ fromCommit' = Signal(TRUE, TRUE, n) /\ phase' = "retire"
      /\ UNCHANGED <<renameMap, historyBuffer, freeingInProgress, toIEW, commitMap, rename,
                     decode, nextSeq>>
    BY DEF SquashTo, mapVars
<1>2. Checked(c)
    BY CheckSquashingFacts
<1> HIDE DEF c
<1>3. /\ commit.rob \in Seq(Sent) /\ DOMAIN commit.rob = 1..Len(commit.rob)
      /\ Len(commit.rob) \in Nat /\ commit.squashedSeqNum \in Nat
      /\ commit.lastCommitted \in Nat
      /\ \A i \in DOMAIN commit.rob : commit.rob[i].seqNum \in Nat
  <2>1. commit.rob \in Seq(Sent)
    BY BackNat DEF PipeInv
  <2>2. \A i \in DOMAIN commit.rob : commit.rob[i] \in Sent
    BY <2>1
  <2> QED
    BY <2>1, <2>2, BackNat DEF PipeInv, Sent
<1>4. /\ c \in CommitState /\ c.rob \in Seq(Sent) /\ Len(c.rob) = Len(commit.rob)
      /\ DOMAIN c.rob = DOMAIN commit.rob /\ Sorted(c.rob) /\ c.squashIt \in 0..Len(c.rob)
      /\ SeqNums(c.rob) = SeqNums(commit.rob) /\ (c.rob = <<>> <=> commit.rob = <<>>)
  <2>1. c \in CommitState /\ c.rob \in Seq(Sent) /\ DOMAIN c.rob = DOMAIN commit.rob
    BY <1>2, ZenonT(30) DEF Checked, CommitState
  <2>2. Len(c.rob) = Len(commit.rob)
    BY <1>3, <2>1
  <2>3. \A i \in DOMAIN c.rob : c.rob[i].seqNum = commit.rob[i].seqNum
    BY <1>2 DEF Checked
  <2>4. SeqNums(c.rob) = SeqNums(commit.rob) /\ (Sorted(c.rob) <=> Sorted(commit.rob))
    BY <2>1, <2>3, NumsSame
  <2>5. c.squashIt \in 0..Len(c.rob)
    BY <1>2, <2>2 DEF Checked
  <2>6. c.rob = <<>> <=> commit.rob = <<>>
    BY <1>3, <2>1, <2>2
  <2> QED
    BY <2>1, <2>2, <2>4, <2>5, <2>6, ZenonT(30) DEF PipeInv, BackInv
<1>5. /\ d \in CommitState
      /\ c.rob = <<>> => d = c
      /\ c.rob # <<>> =>
           /\ Marks(c, d) /\ d.squashedSeqNum = n /\ d.rob # <<>>
           /\ d.squashIt \in 0..Len(d.rob)
           /\ \A i \in DOMAIN d.rob : i > d.squashIt /\ d.rob[i].seqNum > n => d.rob[i].squashed
  <2>1. platform.squashWidth \in Nat
    BY PlatformsAssumption DEF PipeInv, QueuesInv
  <2> QED
    BY <1>4, <2>1, ROBSquashFacts, ZenonT(30)
<1> HIDE DEF d
<1>6. /\ commit' \in CommitState /\ commit'.rob = d.rob /\ commit'.squashIt = d.squashIt
      /\ commit'.squashedSeqNum = d.squashedSeqNum /\ commit'.lastCommitted = d.lastCommitted
      /\ commit'.status = "ROBSquashing" /\ commit'.youngest = y
    BY <1>1, <1>5, ZenonT(30) DEF CommitState, CommitStatuses

(* The ROB holds the same instructions, those up to n as before. *)
<1>7. /\ DOMAIN commit'.rob = DOMAIN commit.rob /\ commit'.lastCommitted = commit.lastCommitted
      /\ \A i \in DOMAIN commit.rob :
            /\ commit'.rob[i].seqNum = commit.rob[i].seqNum
            /\ commit'.rob[i].regs = commit.rob[i].regs
            /\ commit.rob[i].squashed => commit'.rob[i].squashed
            /\ commit'.rob[i].squashed => commit.rob[i].squashed \/ commit.rob[i].seqNum > n
  <2>1. CASE c.rob = <<>>
    <3>1. commit.rob = <<>> /\ d = c
      BY <1>4, <1>5, <2>1, ZenonT(30)
    <3> QED
      BY <1>2, <1>6, <2>1, <3>1, ZenonT(30) DEF Checked
  <2>2. CASE c.rob # <<>>
    <3>1. Marks(c, d) /\ d.squashedSeqNum = n
      BY <1>5, <2>2
    <3>2. /\ DOMAIN d.rob = DOMAIN commit.rob /\ d.lastCommitted = commit.lastCommitted
          /\ \A i \in DOMAIN commit.rob :
                /\ d.rob[i].seqNum = c.rob[i].seqNum /\ d.rob[i].regs = c.rob[i].regs
                /\ c.rob[i].squashed => d.rob[i].squashed
                /\ d.rob[i].squashed => c.rob[i].squashed \/ c.rob[i].seqNum > n
      BY <1>2, <1>4, <3>1, ZenonT(30) DEF Marks, Checked
    <3>3. \A i \in DOMAIN commit.rob :
                /\ c.rob[i].seqNum = commit.rob[i].seqNum /\ c.rob[i].regs = commit.rob[i].regs
                /\ commit.rob[i].squashed => c.rob[i].squashed
                /\ c.rob[i].squashed => commit.rob[i].squashed \/ commit.rob[i].seqNum > n
      BY <1>2, ZenonT(30) DEF Checked
    <3> QED
      BY <1>6, <3>2, <3>3, ZenonT(30)
  <2> QED
    BY <2>1, <2>2, ZenonT(30)
<1>8. /\ SeqNums(commit'.rob) = SeqNums(commit.rob) /\ Sorted(commit'.rob)
      /\ commit'.rob \in Seq(Sent) /\ Len(commit'.rob) = Len(commit.rob)
      /\ (commit'.rob = <<>> <=> commit.rob = <<>>)
  <2>1. commit'.rob \in Seq(Sent)
    BY <1>6, ZenonT(30) DEF CommitState
  <2>2. Len(commit'.rob) = Len(commit.rob) /\ (commit'.rob = <<>> <=> commit.rob = <<>>)
    BY <1>3, <1>7, <2>1
  <2> QED
    BY <1>7, <2>1, <2>2, NumsSame, ZenonT(30) DEF PipeInv, BackInv
<1>9. /\ fromCommit'.squash /\ fromCommit'.robSquashing /\ fromCommit'.doneSeqNum = n
      /\ fromCommit'.squash = TRUE /\ fromCommit'.robSquashing = TRUE
      /\ fromCommit' = [f \in Signals |-> fromCommit'[f]]
    BY <1>1 DEF Signal, Signals
<1>10. BackType'
    BY <1>1, <1>6, <1>9, ZenonT(30) DEF PipeInv, BackType
<1>11. BackInv'
  <2>1. Later' = Later
    BY <1>1 DEF Later
  <2>2. Sent2' = {} /\ Sent2 = SeqNums(toIEW[2])
    BY <1>1 DEF Sent2
  <2> QED
    BY <1>1, <1>7, <1>8, <2>1, <2>2 DEF PipeInv, BackInv, Below
<1>12. SquashInv'
  <2>1. commit'.squashIt \in 0..Len(commit'.rob)
    BY <1>4, <1>5, <1>6
  <2>2. commit'.rob # <<>> =>
          /\ commit'.squashedSeqNum = n
          /\ \A i \in DOMAIN commit'.rob :
                i > commit'.squashIt /\ commit'.rob[i].seqNum > n => commit'.rob[i].squashed
    BY <1>4, <1>5, <1>6, <1>8
  <2> QED
    BY <1>1, <1>6, <1>7, <1>9, <2>1, <2>2, ZenonT(30) DEF SquashInv
<1>13. FlowInv'
    BY <1>1, <1>9, ZenonT(30) DEF FlowInv
<1>14. LostInv'
  <2> SUFFICES ASSUME NEW h \in historyBuffer, h.instSeqNum <= n
               PROVE  \/ h.instSeqNum <= commit.lastCommitted
                      \/ HoldsIn(commit'.rob, h.instSeqNum)
    <3>1. \A h \in historyBuffer : h.instSeqNum \in Nat
      BY HistoryNat, ZenonT(30) DEF PipeInv
    <3>2. \A h \in historyBuffer : h.instSeqNum <= n \/ WillBeSquashed(h.instSeqNum)'
      BY <1>9, <3>1 DEF WillBeSquashed
    <3>3. (LostInv)' <=> \A h \in historyBuffer :
             \/ h.instSeqNum <= commit'.lastCommitted
             \/ HoldsIn(toIEW[1], h.instSeqNum)
             \/ HoldsIn(commit'.rob, h.instSeqNum)
             \/ WillBeSquashed(h.instSeqNum)'
      BY <1>1 DEF LostInv, HoldsIn, WillBeSquashed
    <3> QED
      BY <1>7, <3>2, <3>3, ZenonT(30)
  <2>1. h.instSeqNum \in Nat
    BY HistoryNat DEF PipeInv
  <2>2. ~HoldsIn(toIEW[1], h.instSeqNum) /\ ~HoldsIn(toIEW[2], h.instSeqNum)
    BY <2>1 DEF Below, SeqNums, HoldsIn
  <2>3. HoldsIn(commit.rob, h.instSeqNum) => HoldsIn(commit'.rob, h.instSeqNum)
    BY <1>7, <2>1 DEF HoldsIn
  <2>4. WillBeSquashed(h.instSeqNum) => h.instSeqNum <= commit.lastCommitted
    BY <2>1 DEF WillBeSquashed, PipeInv, FlowInv, BackType
  <2> QED
    BY <2>2, <2>3, <2>4, ZenonT(30) DEF PipeInv, LostInv
<1>15. HeadInv' /\ MapsAgree'
  <2>1. commit'.rob # <<>> => commit'.rob[1].seqNum = commit.rob[1].seqNum
    <3>1. commit.rob # <<>> => 1 \in DOMAIN commit.rob
      BY <1>3
    <3> QED
      BY <1>7, <1>8, <3>1, ZenonT(30)
  <2> QED
    BY <1>1, <1>7, <1>8, <2>1 DEF PipeInv, HeadInv, MapsAgree
<1>16. RecordInv'
  <2>1. \A d1 \in {1, 2} : \A i \in DOMAIN toIEW[d1] : OnlyIts(toIEW[d1][i])'
    BY <1>1 DEF PipeInv, RecordInv, OnlyIts
  <2>2. \A i \in DOMAIN toIEW[1] : ~toIEW[1][i].squashed =>
          \A a \in DOMAIN toIEW[1][i].regs : Recorded(toIEW[1][i], a)'
    BY <1>1 DEF PipeInv, RecordInv, Recorded
  <2>3. \A i \in DOMAIN commit'.rob : OnlyIts(commit.rob[i])'
    BY <1>1, <1>7 DEF PipeInv, RecordInv, OnlyIts
  <2>4. ASSUME NEW i \in DOMAIN commit'.rob, ~commit'.rob[i].squashed,
               NEW a \in DOMAIN commit'.rob[i].regs
        PROVE  \/ Recorded(commit.rob[i], a)'
               \/ (Undoing(commit.rob[i])
                   /\ commit.rob[i].regs[a] \in MiscRegs \cup freeingInProgress)'
    <3>1. /\ i \in DOMAIN commit.rob /\ ~commit.rob[i].squashed
          /\ a \in DOMAIN commit.rob[i].regs
      BY <1>7, <2>4, ZenonT(30)
    <3>2. CASE Recorded(commit.rob[i], a)
      BY <1>1, <1>7, <3>1, <3>2 DEF Recorded
    <3>3. CASE /\ Undoing(commit.rob[i])
               /\ commit.rob[i].regs[a] \in MiscRegs \cup freeingInProgress
      <4>1. commit'.squashedSeqNum = n
        <5>1. commit.rob # <<>>
          BY <1>3, <3>1
        <5> QED
          BY <1>4, <1>5, <1>6, <5>1, ZenonT(30)
      <4>2. commit'.rob[i].seqNum > n
        BY <1>3, <1>7, <3>1, <3>3, ZenonT(30) DEF Undoing
      <4>3. Undoing(commit.rob[i])'
        BY <1>6, <4>1, <4>2, ZenonT(30) DEF Undoing
      <4> QED
        BY <1>1, <1>7, <3>1, <3>3, <4>3
    <3> QED
      BY <3>1, <3>2, <3>3, ZenonT(30) DEF PipeInv, RecordInv
  <2> QED
    BY <1>1, <2>1, <2>2, <2>3, <2>4 DEF RecordInv
<1> QED
    BY <1>10, <1>11, <1>12, <1>13, <1>14, <1>15, <1>16 DEF BackAll

(* commit squashes everything: a trap, or a squash from outside. *)
LEMMA SquashAllPipe == ASSUME LeastElements, PipeInv, SquashAll PROVE BackAll'
<1> DEFINE c == CheckSquashing(commit)
           n == IF c.rob = <<>> THEN c.lastCommitted ELSE c.rob[1].seqNum - 1
<1>1. phase = "commit" /\ SquashTo(c, n, c.lastCommitted)
    BY DEF SquashAll
<1>2. /\ DOMAIN c.rob = DOMAIN commit.rob /\ c.lastCommitted = commit.lastCommitted
      /\ \A i \in DOMAIN commit.rob : c.rob[i].seqNum = commit.rob[i].seqNum
      /\ c.rob \in Seq(Sent)
    BY CheckSquashingFacts DEF Checked, CommitState
<1> HIDE DEF c
<1>3. commit.rob \in Seq(Sent) /\ commit.lastCommitted \in Nat
      /\ SeqNums(commit.rob) \subseteq Nat
    BY BackNat DEF PipeInv
<1>4. CASE commit.rob = <<>>
  <2>1. c.rob = <<>> /\ n = commit.lastCommitted
    <3>1. Len(commit.rob) = 0 /\ DOMAIN commit.rob = 1..Len(commit.rob)
      BY <1>3, <1>4
    <3>2. Len(c.rob) = 0
      <4>1. Len(c.rob) = Len(commit.rob)
        BY <1>2, <1>3
      <4> QED
        BY <3>1, <4>1
    <3>3. c.rob = <<>>
      BY <1>2, <3>2
    <3> QED
      BY <1>2, <3>3
  <2>2. SquashTo(c, commit.lastCommitted, commit.lastCommitted)
    BY <1>1, <1>2, <2>1
  <2>3. Below({commit.lastCommitted}, SeqNums(toIEW[1]) \cup SeqNums(toIEW[2]))
    BY <1>1 DEF PipeInv, BackInv, Sent2, Below
  <2>4. commit.status = "ROBSquashing" =>
          \A i \in DOMAIN commit.rob : commit.rob[i].seqNum > commit.squashedSeqNum
            => commit.rob[i].seqNum > commit.lastCommitted
    BY <1>4
  <2>5. \A h \in historyBuffer :
           h.instSeqNum <= commit.lastCommitted \/ h.instSeqNum > commit.lastCommitted
    BY <1>3, HistoryNat DEF PipeInv
  <2>6. commit.lastCommitted <= commit.lastCommitted
    BY <1>3
  <2> QED
    BY <1>1, <1>3, <2>2, <2>3, <2>4, <2>5, <2>6, SquashToPipe, ZenonT(30) DEF c
<1>5. CASE commit.rob # <<>>
  <2> DEFINE m == commit.rob[1].seqNum - 1
  <2>1. 1 \in DOMAIN commit.rob /\ commit.rob[1].seqNum \in SeqNums(commit.rob)
    BY <1>3, <1>5 DEF SeqNums
  <2>2. c.rob # <<>> /\ n = m
    BY <1>2, <1>3, <1>5, <2>1
  <2>3. commit.rob[1].seqNum \in Nat /\ commit.lastCommitted < commit.rob[1].seqNum
    BY <1>3, <2>1 DEF PipeInv, BackInv, Below
  <2>4. m \in Nat /\ commit.lastCommitted <= m
    BY <1>3, <2>3
  <2>5. SquashTo(c, m, commit.lastCommitted)
    BY <1>1, <1>2, <2>2
  <2>6. Below({m}, SeqNums(toIEW[1]) \cup SeqNums(toIEW[2]))
    <3>1. \A x \in SeqNums(toIEW[1]) \cup SeqNums(toIEW[2]) :
             commit.rob[1].seqNum < x /\ x \in Nat
      BY <1>1, <2>1, BackOrder, PipeNat
    <3> QED
      BY <2>3, <3>1 DEF Below
  <2>7. \A i \in DOMAIN commit.rob : commit.rob[i].seqNum > m
    <3> SUFFICES ASSUME NEW i \in DOMAIN commit.rob PROVE commit.rob[i].seqNum > m
      OBVIOUS
    <3>1. commit.rob[i].seqNum \in Nat /\ i \in Nat /\ i >= 1
      BY <1>3 DEF SeqNums
    <3>2. i = 1 \/ commit.rob[1].seqNum < commit.rob[i].seqNum
      BY <2>1, <3>1 DEF PipeInv, BackInv, Sorted
    <3> QED
      BY <2>3, <3>1, <3>2
  <2>8. \A h \in historyBuffer : h.instSeqNum <= commit.lastCommitted \/ h.instSeqNum > m
    BY <1>5, <2>3, HistoryNat DEF PipeInv, HeadInv
  <2> HIDE DEF m
  <2> QED
    BY <1>1, <1>3, <2>4, <2>5, <2>6, <2>7, <2>8, SquashToPipe, ZenonT(30) DEF c
<1> QED
    BY <1>4, <1>5

(* commit squashes what is younger than a mispredicted instruction. *)
LEMMA SquashFromIEWPipe == ASSUME LeastElements, PipeInv, SquashFromIEW PROVE BackAll'
<1> DEFINE c == CheckSquashing(commit)
<1>1. /\ phase = "commit" /\ c.status \in {"Running", "ROBSquashing"}
      /\ \E i \in DOMAIN c.rob, includeSquashInst \in {0, 1} :
            /\ c.rob[i].seqNum <= c.youngest
            /\ SquashTo(c, c.rob[i].seqNum - includeSquashInst,
                        c.rob[i].seqNum - includeSquashInst)
    BY DEF SquashFromIEW
<1>2. /\ DOMAIN c.rob = DOMAIN commit.rob /\ c.youngest = commit.youngest
      /\ \A i \in DOMAIN commit.rob : c.rob[i].seqNum = commit.rob[i].seqNum
      /\ commit.status \in {"Running", "ROBSquashing"}
  <2>1. Checked(c)
    BY CheckSquashingFacts, ZenonT(30)
  <2> HIDE DEF c
  <2>2. c.status \in {"Running", "ROBSquashing"}
    BY <1>1
  <2> QED
    BY <2>1, <2>2 DEF Checked
<1> HIDE DEF c
<1>3. PICK i \in DOMAIN commit.rob, k \in {0, 1} :
        /\ commit.rob[i].seqNum <= commit.youngest
        /\ SquashTo(c, commit.rob[i].seqNum - k, commit.rob[i].seqNum - k)
    BY <1>1, <1>2
<1> DEFINE n == commit.rob[i].seqNum - k
<1>4. commit.rob[i].seqNum \in SeqNums(commit.rob) /\ commit.rob # <<>>
    <2>1. commit.rob[i].seqNum \in SeqNums(commit.rob)
      BY PipeNat
    <2> QED
      BY <2>1 DEF SeqNums
<1>5. commit.rob[i].seqNum \in Nat /\ commit.lastCommitted \in Nat
      /\ commit.lastCommitted < commit.rob[i].seqNum
    BY <1>4, BackOrder, PipeNat
<1>6. n \in Nat /\ commit.lastCommitted <= n /\ n <= n
    BY <1>5
<1>7. Below({n}, SeqNums(toIEW[1]) \cup SeqNums(toIEW[2]))
    <2>1. \A x \in SeqNums(toIEW[1]) \cup SeqNums(toIEW[2]) :
             commit.rob[i].seqNum < x /\ x \in Nat
      BY <1>1, <1>4, BackOrder, PipeNat
    <2> QED
      BY <1>5, <2>1 DEF Below
<1>8. commit.status = "ROBSquashing" =>
        \A j \in DOMAIN commit.rob :
           commit.rob[j].seqNum > commit.squashedSeqNum => commit.rob[j].seqNum > n
  <2> SUFFICES ASSUME commit.status = "ROBSquashing", NEW j \in DOMAIN commit.rob,
                      commit.rob[j].seqNum > commit.squashedSeqNum
               PROVE  commit.rob[j].seqNum > n
    BY ZenonT(30)
  <2>1. commit.youngest <= commit.squashedSeqNum
    BY <1>4 DEF PipeInv, SquashInv
  <2>2. commit.rob[j].seqNum \in Nat /\ commit.youngest \in Nat /\ commit.squashedSeqNum \in Nat
    BY PipeNat
  <2> QED
    BY <1>3, <1>5, <2>1, <2>2
<1> HIDE DEF n
<1>9. SquashTo(c, n, n)
    BY <1>3 DEF n
<1> QED
    BY <1>1, <1>2, <1>6, <1>7, <1>8, <1>9, SquashToPipe, ZenonT(30) DEF c
=============================================================================
