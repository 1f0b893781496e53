---------------------------- MODULE MESITwoLevel ----------------------------
(***************************************************************************)
(* Ruby's MESI_Two_Level protocol for one cache line: the L1 controllers   *)
(* (MESI_Two_Level-L1cache.sm), the L2 bank and the directory that own the *)
(* line (-L2cache.sm, -dir.sm), the part of the sequencer that sits between*)
(* a core and its L1 (Sequencer.cc), and the stall map every controller    *)
(* keeps (stall_and_wait, wakeUpBuffers).  The state names, the message    *)
(* types and the transitions are those of the SLICC sources.               *)
(*                                                                         *)
(* The network is a bag: its virtual networks promise no order.  A message *)
(* whose state has no transition for it is never delivered, which is what  *)
(* the generated doTransition turns into "panic: Invalid transition".      *)
(* NP and I of the L1 are one state, "I": they have the same transitions.  *)
(* A line leaves a cache when another line of its set needs the way; that  *)
(* other line is the environment.                                          *)
(***************************************************************************)
EXTENDS Integers, FiniteSets, Bags

CONSTANTS L1Cache,           \* the L1 controllers, one per core
          L2Cache, Directory, Memory,
          Values, None,      \* contents of a line; no data, nobody
          Platforms          \* the configurations to explore

ReadOps == {"LD", "IFETCH", "Load_Linked"}

WriteOps == {"ST", "Locked_RMW_Read", "Locked_RMW_Write", "Store_Conditional"}

ASSUME PlatformsAssumption ==
  Platforms \subseteq [ops : [L1Cache -> SUBSET (ReadOps \cup WriteOps)],
                       values : SUBSET Values, l2Evicts : BOOLEAN]

VARIABLES
  platform,   \* the operations the cores issue; whether the L2 set fills up
  sequencer,  \* per core: its request for the line and where that request is
  l1, l2,     \* the line's cache entry and TBE in each L1, and in the L2
  dir, memory,
  network,    \* messages in flight
  stalled,    \* per controller: the messages of its stall map
  latest,     \* history: the last value written to the line
  window      \* history: the values of the line since each core's request

vars == <<platform, sequencer, l1, l2, dir, memory, network, stalled, latest,
          window>>

history == <<latest, window>>

-----------------------------------------------------------------------------
(* Messages and the steps of a controller.                                 *)

\* from is a request's Requestor or a response's Sender.
Message(type, from, to) ==
  [type |-> type, from |-> from, to |-> to, data |-> None, dirty |-> FALSE,
   acks |-> 0]

DataMessage(type, from, to, c) ==
  [Message(type, from, to) EXCEPT !.data = c.data, !.dirty = c.dirty]

AckMessage(from, to, n) == [Message("ACK", from, to) EXCEPT !.acks = n]

\* Controller c consumes the messages in, and sends the messages out.
Exchange(in, out) ==
  /\ network' = (network (-) SetToBag(in)) (+) SetToBag(out)
  /\ UNCHANGED stalled

\* The same, and kd_wakeUpDependents puts c's stall map back in its queues.
ExchangeAndWake(c, in, out) ==
  /\ network' = (network (-) SetToBag(in)) (+) SetToBag(out) (+) stalled[c]
  /\ stalled' = [stalled EXCEPT ![c] = EmptyBag]

\* stall_and_wait: out of the queue until c wakes its dependents.
StallAndWait(c, m) ==
  /\ network' = network (-) SetToBag({m})
  /\ stalled' = [stalled EXCEPT ![c] = @ (+) SetToBag({m})]
  /\ UNCHANGED <<platform, sequencer, l1, l2, dir, memory, history>>

InFlight == BagToSet(network)

-----------------------------------------------------------------------------
(* The sequencer.                                                          *)

NoRequest == [op |-> "none", at |-> "core"]

LineLocked == [op |-> "Locked_RMW_Read", at |-> "core"]

\* blockOnQueue: from the callback of a Locked_RMW_Read to that of its
\* Locked_RMW_Write the L1 takes nothing else for the line.
Blocked(l) == sequencer[l] = LineLocked \/ sequencer[l].op = "Locked_RMW_Write"

\* makeRequest for a line with no request outstanding: insertRequest answers
\* RequestStatus_Aliased to every other, and isBlocked holds back all but the
\* Locked_RMW_Write of a locked line.
MakeRequest(l, op) ==
  /\ sequencer[l].at = "core"
  /\ op \in platform.ops[l]
  /\ Blocked(l) <=> op = "Locked_RMW_Write"
  /\ sequencer' = [sequencer EXCEPT ![l] = [op |-> op, at |-> "mandatoryQueue"]]
  /\ window' = [window EXCEPT ![l] = IF op \in ReadOps THEN {latest} ELSE {}]
  /\ UNCHANGED <<platform, l1, l2, dir, memory, network, stalled, latest>>

\* readCallback: the core gets the data of the entry, c.
ReadCallback(l, c) ==
  /\ l1' = [l1 EXCEPT ![l] =
              [c EXCEPT !.locked = @ \/ sequencer[l].op = "Load_Linked"]]
  /\ UNCHANGED latest

\* writeCallback: the core's operation changes the data of the entry, c.  A
\* Store_Conditional writes only if its monitor is still set, and every write
\* clears the monitor; a Locked_RMW_Read writes nothing.
WriteCallback(l, c) ==
  LET op == sequencer[l].op
      writes == /\ op # "Locked_RMW_Read"
                /\ op = "Store_Conditional" => c.locked
  IN \E v \in IF writes THEN platform.values ELSE {c.data} :
       /\ l1' = [l1 EXCEPT ![l] =
                   [c EXCEPT !.data = v, !.dirty = TRUE, !.locked = FALSE]]
       /\ latest' = IF writes THEN v ELSE latest

\* The callback of a request, after which the sequencer forgets it; a
\* Locked_RMW_Read leaves the line blocked.
Callback(l, c) ==
  /\ \/ sequencer[l].op \in ReadOps /\ ReadCallback(l, c)
     \/ sequencer[l].op \in WriteOps /\ WriteCallback(l, c)
  /\ sequencer' = [sequencer EXCEPT ![l] =
                     IF @.op = "Locked_RMW_Read" THEN LineLocked ELSE NoRequest]
  /\ window' = [k \in L1Cache |->
                  IF k = l \/ window[k] = {} THEN {}
                  ELSE window[k] \cup {latest'}]
-----------------------------------------------------------------------------
(* The L1 controller: requests of the core.                                *)

Invalid == [state |-> "I", data |-> None, dirty |-> FALSE, acks |-> 0,
            loadLinked |-> FALSE, icache |-> FALSE, locked |-> FALSE]

\* The TBE of an answered owner; its data is not read again.
SinkWBAck == [Invalid EXCEPT !.state = "SINK_WB_ACK"]

Transient == {"IS", "IM", "IS_I", "M_I", "SM", "SINK_WB_ACK"}

LLSC == {"LLSC_E", "LLSC_M"}

\* The request at the head of the mandatory queue is for the cache, I or D,
\* that does not hold the line.
WrongCache(l) ==
  /\ sequencer[l].at = "mandatoryQueue"
  /\ l1[l].state \notin {"I", "M_I", "SINK_WB_ACK"}
  /\ l1[l].icache # (sequencer[l].op = "IFETCH")

\* {S,E,M}, {Load, Ifetch}; {E,M}, Store; {E,M}, Load_Linked; {LLSC_E, LLSC_M}.
L1Hit(l) ==
  LET op == sequencer[l].op
      c == l1[l]
      next == CASE op = "Load_Linked" /\ c.state \in {"E", "LLSC_E"} -> "LLSC_E"
                [] op = "Load_Linked" /\ c.state \in {"M", "LLSC_M"} -> "LLSC_M"
                [] op \in WriteOps -> IF c.state \in LLSC THEN "LLSC_M" ELSE "M"
                [] OTHER -> c.state
  IN /\ sequencer[l].at = "mandatoryQueue" /\ ~WrongCache(l)
     /\ \/ c.state \in {"E", "M"} \cup LLSC
        \/ c.state = "S" /\ op \in {"LD", "IFETCH"}
     /\ Callback(l, [c EXCEPT !.state = next])
     /\ UNCHANGED <<platform, l2, dir, memory, network, stalled>>

\* {NP,I}, {Load, Ifetch, Store, Load_Linked}; S, {Store, Load_Linked}: allocate
\* a TBE and ask the L2.
L1Miss(l) ==
  LET op == sequencer[l].op
      c == l1[l]
      ll == op = "Load_Linked"
      Ask(type, fill) ==
        /\ Exchange({}, {Message(type, l, L2Cache)})
        /\ l1' = [l1 EXCEPT ![l] = fill]
  IN /\ sequencer[l].at = "mandatoryQueue" /\ ~WrongCache(l)
     /\ \/ /\ c.state = "I" /\ op = "LD"
           /\ Ask("GETS", [Invalid EXCEPT !.state = "IS"])
        \/ /\ c.state = "I" /\ op = "IFETCH"
           /\ Ask("GET_INSTR",
                  [Invalid EXCEPT !.state = "IS", !.icache = TRUE])
        \/ /\ c.state = "I" /\ op \in WriteOps \cup {"Load_Linked"}
           /\ Ask("GETX", [Invalid EXCEPT !.state = "IM", !.loadLinked = ll])
        \/ /\ c.state = "S" /\ op \in WriteOps \cup {"Load_Linked"}
           /\ Ask("UPGRADE", [c EXCEPT !.state = "SM", !.loadLinked = ll])
     /\ sequencer' = [sequencer EXCEPT ![l].at = "TBE"]
     /\ UNCHANGED <<platform, l2, dir, memory, history>>

\* Transient states and LLSC locks stall the core's request.
L1StallMandatory(l) ==
  /\ sequencer[l].at = "mandatoryQueue"
  /\ \/ l1[l].state \in Transient
     \/ l1[l].state \in LLSC /\ WrongCache(l)
  /\ sequencer' = [sequencer EXCEPT ![l].at = "stallMap"]
  /\ UNCHANGED <<platform, l1, l2, dir, memory, network, stalled, history>>

\* L1_Replacement: another line needs the way, or the core's request is for the
\* other cache.  check_on_cache_probe spares a line that a locked
\* read-modify-write holds.  An exclusive line is written back and its data
\* kept in the TBE until the L2 answers.
L1Replacement(l) ==
  LET c == l1[l]
  IN /\ ~Blocked(l)
     /\ \/ /\ c.state = "S"
           /\ l1' = [l1 EXCEPT ![l] = Invalid]
           /\ Exchange({}, {})
        \/ /\ c.state \in {"E", "M"}
           /\ l1' = [l1 EXCEPT ![l] =
                       [Invalid EXCEPT !.state = "M_I", !.data = c.data,
                                       !.dirty = c.dirty]]
           /\ Exchange({}, {DataMessage("PUTX", l, L2Cache, c)})
     /\ UNCHANGED <<platform, sequencer, l2, dir, memory, history>>

\* The wake-up of the core's own request.
WakeMandatory(l) ==
  sequencer' = IF sequencer[l].at = "stallMap"
               THEN [sequencer EXCEPT ![l].at = "mandatoryQueue"]
               ELSE sequencer

\* llscLockTimerTable: the lock of a Load_Linked runs out.
LLSCTimeout(l) ==
  /\ l1[l].state \in LLSC
  /\ l1' = [l1 EXCEPT ![l].state = IF @ = "LLSC_E" THEN "E" ELSE "M"]
  /\ ExchangeAndWake(l, {}, {})
  /\ WakeMandatory(l)
  /\ UNCHANGED <<platform, l2, dir, memory, history>>
-----------------------------------------------------------------------------
(* The L1 controller: requests of the L2 (INV and forwarded requests) and  *)
(* responses.  Nothing of a blocked line is taken (block_on).              *)

\* Inv.  Only an owner that may have written the line sends its data.
L1Inv(l, m) ==
  LET c == l1[l]
      Reply(out, next) ==
        Exchange({m}, {out}) /\ l1' = [l1 EXCEPT ![l] = next]
      ack == AckMessage(l, m.from, 1)
      data == DataMessage("DATA", l, L2Cache, c)
  IN /\ m.type = "INV"
     /\ \/ c.state \in {"I", "S", "E"} /\ Reply(ack, Invalid)
        \/ c.state = "M" /\ Reply(data, Invalid)
        \/ c.state = "M_I" /\ Reply(data, SinkWBAck)
        \/ /\ c.state \in {"IS", "IS_I"}
           /\ Reply(ack, [c EXCEPT !.state = "IS_I"])
        \/ /\ c.state \in {"IM", "SM"}
           /\ Reply(ack, [Invalid EXCEPT !.state = "IM", !.acks = c.acks,
                                         !.loadLinked = c.loadLinked])
        \/ c.state = "SINK_WB_ACK" /\ Reply(ack, c)
     /\ UNCHANGED <<platform, sequencer, l2, dir, memory, history>>

\* Fwd_GETX, Fwd_GETS, Fwd_GET_INSTR: the owner serves the requestor, and on a
\* read the L2 too.
L1Forward(l, m) ==
  LET c == l1[l]
      toRequestor == DataMessage("DATA", l, m.from, c)
      toL2 == DataMessage("DATA", l, L2Cache, c)
      Reply(out, next) == Exchange({m}, out) /\ l1' = [l1 EXCEPT ![l] = next]
  IN /\ \/ /\ m.type \in {"GETX", "UPGRADE"}
           /\ \/ c.state \in {"E", "M"} /\ Reply({toRequestor}, Invalid)
              \/ c.state = "M_I" /\ Reply({toRequestor}, SinkWBAck)
        \/ /\ m.type \in {"GETS", "GET_INSTR"}
           /\ \/ /\ c.state \in {"E", "M"}
                 /\ Reply({toRequestor, toL2}, [c EXCEPT !.state = "S"])
              \/ c.state = "M_I" /\ Reply({toRequestor, toL2}, SinkWBAck)
     /\ UNCHANGED <<platform, sequencer, l2, dir, memory, history>>

\* {LLSC_E, LLSC_M}, {Fwd_GETS, Fwd_GETX, Fwd_GET_INSTR, Inv}.
L1StallRequest(l, m) ==
  /\ m.type \in {"INV", "GETX", "UPGRADE", "GETS", "GET_INSTR"}
  /\ l1[l].state \in LLSC
  /\ StallAndWait(l, m)

\* The response that completes the request of the TBE: the entry becomes c, and
\* unblock, if any, is sent to the L2.
L1Complete(l, m, c, unblock) ==
  /\ Callback(l, [c EXCEPT !.acks = 0, !.loadLinked = FALSE])
  /\ ExchangeAndWake(l, {m}, {Message(u, l, L2Cache) : u \in unblock})

\* DATA and DATA_EXCLUSIVE.
L1Data(l, m) ==
  LET c == [l1[l] EXCEPT !.data = m.data, !.dirty = m.dirty]
      fromL1 == m.from \in L1Cache
      left == c.acks - m.acks
      shared == IF c.state = "IS" THEN [c EXCEPT !.state = "S"]
                ELSE [Invalid EXCEPT !.data = m.data]
      owned == [c EXCEPT !.state = IF c.loadLinked THEN "LLSC_E" ELSE "M"]
  IN /\ \/ /\ m.type = "DATA_EXCLUSIVE" /\ c.state \in {"IS", "IS_I"}
           /\ L1Complete(l, m, [c EXCEPT !.state = "E"], {"EXCLUSIVE_UNBLOCK"})
        \/ /\ m.type = "DATA" /\ c.state \in {"IS", "IS_I"}
           /\ \/ fromL1 /\ L1Complete(l, m, shared, {"UNBLOCK"})
              \/ ~fromL1 /\ left = 0 /\ L1Complete(l, m, shared, {})
        \/ /\ m.type = "DATA" /\ c.state = "IM" /\ left = 0
           /\ L1Complete(l, m, owned, {"EXCLUSIVE_UNBLOCK"})
        \/ /\ m.type = "DATA" /\ c.state = "IM" /\ left # 0
           /\ l1' = [l1 EXCEPT ![l] = [c EXCEPT !.state = "SM", !.acks = left]]
           /\ Exchange({m}, {})
           /\ UNCHANGED <<sequencer, history>>
     /\ UNCHANGED <<platform, l2, dir, memory>>

\* ACK of an invalidation, or of the L2 to an upgrade.
L1Ack(l, m) ==
  LET c == l1[l]
      left == c.acks - m.acks
  IN /\ m.type = "ACK"
     /\ \/ /\ c.state = "SM" /\ left = 0
           /\ L1Complete(l, m,
                         [c EXCEPT !.state = IF c.loadLinked THEN "LLSC_E" ELSE "M"],
                         {"EXCLUSIVE_UNBLOCK"})
        \/ /\ c.state \in {"SM", "IM"} /\ left # 0
           /\ l1' = [l1 EXCEPT ![l].acks = left]
           /\ Exchange({m}, {})
           /\ UNCHANGED <<sequencer, history>>
     /\ UNCHANGED <<platform, l2, dir, memory>>

\* {M_I, SINK_WB_ACK}, WB_Ack.
L1WBAck(l, m) ==
  /\ m.type = "WB_ACK"
  /\ l1[l].state \in {"M_I", "SINK_WB_ACK"}
  /\ l1' = [l1 EXCEPT ![l] = Invalid]
  /\ ExchangeAndWake(l, {m}, {})
  /\ WakeMandatory(l)
  /\ UNCHANGED <<platform, l2, dir, memory, history>>
-----------------------------------------------------------------------------
(* The L2 bank.  data and dirty are those of the entry, or of the TBE once *)
(* a replacement has freed the entry; sharers is empty then.               *)

NotPresent == [state |-> "NP", data |-> None, dirty |-> FALSE, sharers |-> {},
               exclusive |-> None, getS |-> {}, getX |-> None, acks |-> 0]

L2Replacing == {"I_I", "S_I", "MT_I", "MCT_I", "M_I"}

L2Blocking == {"SS_MB", "MT_MB", "MT_IIB", "MT_IB", "MT_SB"}

\* An L1 request in a state with no stall for it: consume m, send out.
L2Serve(m, out, next) ==
  /\ Exchange({m}, out)
  /\ l2' = next
  /\ UNCHANGED <<platform, sequencer, l1, dir, memory, history>>

\* Fault: kd_wakeUpDependents is forgotten.
L2ServeAndWake_NoWake(m, out, next) == L2Serve(m, out, next)

\* A response or an unblock after which the requests that wait are retried.
L2ServeAndWake(m, out, next) ==
  /\ ExchangeAndWake(L2Cache, {m}, out)
  /\ l2' = next
  /\ UNCHANGED <<platform, sequencer, l1, dir, memory, history>>

\* The data of the entry, never marked dirty, with the acks the requestor is to
\* collect counted negatively.
L2Data(type, to, acks) ==
  [Message(type, L2Cache, to) EXCEPT !.data = l2.data, !.acks = acks]

\* Fault: the sender of an UPGRADE or a PUTX is taken at its word.
IsSharer_Any(m) == TRUE

IsSharer(m) == m.from \in l2.sharers

\* fwm_sendFwdInvToSharersMinusRequestor, and the acks it makes.
InvToOthers(m) ==
  {Message("INV", m.from, k) : k \in l2.sharers \ {m.from}}

\* Fault: the requestor is not told of the sharers.
AcksOf_None(m) == 0

AcksOf(m) == 0 - Cardinality(l2.sharers \ {m.from})

\* L1_GETS and L1_GET_INSTR.
L2Read(m) ==
  LET r == m.from
      instr == m.type = "GET_INSTR"
      joined == [l2 EXCEPT !.sharers = @ \cup {r}]
  IN /\ m.type \in {"GETS", "GET_INSTR"}
     /\ \/ /\ l2.state = "NP"
           /\ L2Serve(m, {Message("GETS", L2Cache, Directory)},
                [joined EXCEPT !.state = IF instr THEN "IS" ELSE "ISS",
                               !.getS = {r}])
        \/ /\ l2.state \in {"IS", "ISS"}
           /\ L2Serve(m, {}, [joined EXCEPT !.state = "IS", !.getS = @ \cup {r}])
        \/ /\ l2.state = "SS"
           /\ L2Serve(m, {L2Data("DATA", r, 0)}, joined)
        \/ /\ l2.state = "M" /\ instr
           /\ L2Serve(m, {L2Data("DATA", r, AcksOf(m))},
                      [joined EXCEPT !.state = "SS"])
        \/ /\ l2.state = "M" /\ ~instr
           /\ L2Serve(m, {L2Data("DATA_EXCLUSIVE", r, AcksOf(m))},
                      [l2 EXCEPT !.state = "MT_MB"])
        \/ /\ l2.state = "MT"
           /\ L2Serve(m, {Message(m.type, r, l2.exclusive)},
                      [l2 EXCEPT !.state = "MT_IIB"])

\* L1_GETX, L1_UPGRADE; an upgrade whose copy is gone is a GETX.
L2Write(m) ==
  LET upgrade == m.type = "UPGRADE" /\ IsSharer(m)
  IN /\ m.type \in {"GETX", "UPGRADE"}
     /\ \/ /\ l2.state = "NP"
           /\ L2Serve(m, {Message("GETS", L2Cache, Directory)},
                      [l2 EXCEPT !.state = "IM", !.getX = m.from])
        \/ /\ l2.state = "SS" /\ ~upgrade
           /\ L2Serve(m, {L2Data("DATA", m.from, AcksOf(m))} \cup InvToOthers(m),
                      [l2 EXCEPT !.state = "SS_MB"])
        \/ /\ l2.state = "SS" /\ upgrade
           /\ L2Serve(m, {AckMessage(L2Cache, m.from, AcksOf(m))}
                           \cup InvToOthers(m),
                      [l2 EXCEPT !.state = "SS_MB"])
        \/ /\ l2.state = "M" /\ ~upgrade
           /\ L2Serve(m, {L2Data("DATA", m.from, AcksOf(m))},
                      [l2 EXCEPT !.state = "MT_MB"])
        \/ /\ l2.state = "MT" /\ ~upgrade
           /\ L2Serve(m, {Message(m.type, m.from, l2.exclusive)},
                      [l2 EXCEPT !.state = "MT_MB"])

\* L1_PUTX, L1_PUTX_old: the writeback counts only if the sender still owns the
\* line.
L2PutX(m) ==
  LET ack == {Message("WB_ACK", L2Cache, m.from)}
      back == [l2 EXCEPT !.state = "M", !.sharers = {}, !.exclusive = None]
  IN /\ m.type = "PUTX"
     /\ \/ /\ l2.state = "MT" /\ IsSharer(m)
           /\ L2Serve(m, ack,
                IF m.dirty THEN [back EXCEPT !.data = m.data, !.dirty = TRUE]
                ELSE back)
        \/ /\ \/ l2.state = "MT" /\ ~IsSharer(m)
              \/ l2.state \in {"NP", "IS", "ISS", "IM", "SS", "M", "M_I", "I_I",
                               "S_I", "MT_IB", "MT_SB"}
           /\ L2Serve(m, ack, l2)

\* zz_stallAndWaitL1RequestQueue.
L2StallRequest(m) ==
  /\ \/ /\ m.type \in {"GETS", "GET_INSTR", "GETX", "UPGRADE"}
        /\ l2.state \in L2Blocking \cup L2Replacing
     \/ /\ m.type \in {"GETX", "UPGRADE"} /\ ~(m.type = "UPGRADE" /\ IsSharer(m))
        /\ l2.state \in {"IS", "ISS", "IM"}
     \/ m.type \in {"GETS", "GET_INSTR"} /\ l2.state = "IM"
     \/ /\ m.type = "PUTX"
        /\ l2.state \in {"MT_IIB", "MCT_I", "MT_I", "MT_MB", "SS_MB"}
  /\ StallAndWait(L2Cache, m)
\* Unblock, Exclusive_Unblock.
L2Unblock(m) ==
  LET joined == [l2 EXCEPT !.sharers = @ \cup {m.from}]
  IN \/ /\ m.type = "EXCLUSIVE_UNBLOCK" /\ l2.state \in {"SS_MB", "MT_MB"}
        /\ L2ServeAndWake(m, {}, [l2 EXCEPT !.state = "MT", !.sharers = {m.from},
                                            !.exclusive = m.from])
     \/ /\ m.type = "UNBLOCK" /\ l2.state = "MT_IIB"
        /\ L2Serve(m, {}, [joined EXCEPT !.state = "MT_IB"])
     \/ /\ m.type = "UNBLOCK" /\ l2.state = "MT_SB"
        /\ L2ServeAndWake(m, {}, [joined EXCEPT !.state = "SS"])

\* Fault: dirty data is given up like clean data.
ToDirectory_Clean(c) == {Message("ACK", L2Cache, Directory)}

\* c_exclusiveReplacement, ct_exclusiveReplacementFromTBE and
\* c_exclusiveCleanReplacement: give the line c back to the directory.
ToDirectory(c) == {DataMessage("MEMORY_DATA", L2Cache, Directory, c)}

CleanToDirectory == {Message("ACK", L2Cache, Directory)}

\* The TBE that waits for the directory's answer; its data is not read again.
AwaitMemAck == [NotPresent EXCEPT !.state = "M_I"]

\* WB_Data, WB_Data_clean: the data of an owner that was downgraded or
\* invalidated.
L2WBData(m) ==
  LET written == [l2 EXCEPT !.data = m.data, !.dirty = @ \/ m.dirty]
      tbe == IF m.dirty THEN [l2 EXCEPT !.data = m.data, !.dirty = TRUE] ELSE l2
  IN /\ m.type = "DATA"
     /\ \/ /\ l2.state = "MT_IIB"
           /\ L2Serve(m, {}, [written EXCEPT !.state = "MT_SB"])
        \/ /\ l2.state = "MT_IB"
           /\ L2ServeAndWake(m, {}, [written EXCEPT !.state = "SS"])
        \/ /\ l2.state = "MT_I" \/ (l2.state = "MCT_I" /\ m.dirty)
           /\ L2Serve(m, ToDirectory(tbe), AwaitMemAck)
        \/ /\ l2.state = "MCT_I" /\ ~m.dirty
           /\ L2Serve(m, CleanToDirectory, AwaitMemAck)

\* Ack, Ack_all of the invalidations of a replacement.
L2Ack(m) ==
  LET left == l2.acks - m.acks
  IN /\ m.type = "ACK"
     /\ \/ /\ l2.state \in {"I_I", "S_I"} /\ left # 0
           /\ L2Serve(m, {}, [l2 EXCEPT !.acks = left])
        \/ /\ l2.state \in {"I_I", "MCT_I"} /\ left = 0
           /\ L2Serve(m, CleanToDirectory, AwaitMemAck)
        \/ /\ l2.state \in {"S_I", "MT_I"} /\ left = 0
           /\ L2Serve(m, ToDirectory(l2), AwaitMemAck)

\* Mem_Data, Mem_Ack.
L2Mem(m) ==
  LET filled == [l2 EXCEPT !.data = m.data, !.dirty = @ \/ m.dirty,
                           !.getS = {}, !.getX = None]
      Data(type, k) == [L2Data(type, k, 0) EXCEPT !.data = m.data]
  IN \/ /\ m.type = "MEMORY_DATA" /\ l2.state = "ISS"
        /\ L2Serve(m, {Data("DATA_EXCLUSIVE", k) : k \in l2.getS},
                   [filled EXCEPT !.state = "MT_MB"])
     \/ /\ m.type = "MEMORY_DATA" /\ l2.state = "IS"
        /\ L2ServeAndWake(m, {Data("DATA", k) : k \in l2.getS},
                          [filled EXCEPT !.state = "SS"])
     \/ /\ m.type = "MEMORY_DATA" /\ l2.state = "IM"
        /\ L2Serve(m, {Data("DATA", l2.getX)}, [filled EXCEPT !.state = "MT_MB"])
     \/ /\ m.type = "MEMORY_ACK" /\ l2.state = "M_I"
        /\ L2ServeAndWake(m, {}, NotPresent)

\* L2_Replacement, L2_Replacement_clean: another line needs the way.  The entry
\* is freed at once; the TBE holds the data until the directory answers.
L2Replacement ==
  LET tbe == [NotPresent EXCEPT !.data = l2.data, !.dirty = l2.dirty,
                                !.acks = Cardinality(l2.sharers)]
      invs == {Message("INV", L2Cache, k) : k \in l2.sharers}
  IN /\ platform.l2Evicts
     /\ \/ /\ l2.state = "SS"
           /\ Exchange({}, invs)
           /\ l2' = [tbe EXCEPT !.state = IF l2.dirty THEN "S_I" ELSE "I_I"]
        \/ /\ l2.state = "MT"
           /\ Exchange({}, invs)
           /\ l2' = [tbe EXCEPT !.state = IF l2.dirty THEN "MT_I" ELSE "MCT_I"]
        \/ /\ l2.state = "M"
           /\ Exchange({}, IF l2.dirty THEN ToDirectory(l2) ELSE CleanToDirectory)
           /\ l2' = AwaitMemAck
     /\ UNCHANGED <<platform, sequencer, l1, dir, memory, history>>

-----------------------------------------------------------------------------
(* The directory and the memory behind it.                                 *)

DirStep(m, out, next) ==
  /\ Exchange({m}, {out})
  /\ dir' = next
  /\ UNCHANGED <<platform, sequencer, l1, l2, memory, history>>

\* Fetch, Data, CleanReplacement, Memory_Data, Memory_Ack.
DirReceive(m) ==
  \/ /\ m.type = "GETS" /\ dir = "I"
     /\ DirStep(m, Message("MEMORY_READ", Directory, Memory), "IM")
  \/ /\ m.type = "MEMORY_READ" /\ dir = "IM"
     /\ DirStep(m, [Message("MEMORY_DATA", Directory, L2Cache)
                     EXCEPT !.data = m.data], "M")
  \/ /\ m.type = "ACK" /\ dir = "M"
     /\ DirStep(m, Message("MEMORY_ACK", Directory, L2Cache), "I")
  \/ /\ m.type = "MEMORY_DATA" /\ dir = "M"
     /\ DirStep(m, [Message("MEMORY_WB", Directory, Memory)
                     EXCEPT !.data = m.data], "MI")
  \/ /\ m.type = "MEMORY_WB" /\ dir = "MI"
     /\ DirStep(m, Message("MEMORY_ACK", Directory, L2Cache), "I")

\* The memory controller serves the directory's queue and answers in kind.
MemoryReceive(m) ==
  /\ memory' = IF m.type = "MEMORY_WB" THEN m.data ELSE memory
  /\ Exchange({m}, {[Message(m.type, Memory, Directory) EXCEPT !.data = memory']})
  /\ UNCHANGED <<platform, sequencer, l1, l2, dir, history>>
-----------------------------------------------------------------------------
\* Fault: the in_ports lack block_on.
L1Receive_NotBlocked(l, m) ==
  \/ L1Inv(l, m) \/ L1Forward(l, m) \/ L1StallRequest(l, m)
  \/ L1Data(l, m) \/ L1Ack(l, m) \/ L1WBAck(l, m)

L1Receive(l, m) ==
  /\ ~Blocked(l)
  /\ \/ L1Inv(l, m)
     \/ L1Forward(l, m)
     \/ L1StallRequest(l, m)
     \/ L1Data(l, m)
     \/ L1Ack(l, m)
     \/ L1WBAck(l, m)

L2Receive(m) ==
  \/ L2Read(m) \/ L2Write(m) \/ L2PutX(m) \/ L2StallRequest(m)
  \/ L2Unblock(m) \/ L2WBData(m) \/ L2Ack(m) \/ L2Mem(m)

Deliver(m) ==
  \/ m.to \in L1Cache /\ L1Receive(m.to, m)
  \/ m.to = L2Cache /\ L2Receive(m)
  \/ m.to = Directory /\ DirReceive(m)
  \/ m.to = Memory /\ MemoryReceive(m)

Init ==
  /\ platform \in Platforms
  /\ sequencer = [l \in L1Cache |-> NoRequest]
  /\ l1 = [l \in L1Cache |-> Invalid]
  /\ l2 = NotPresent
  /\ dir = "I"
  /\ memory \in platform.values
  /\ network = EmptyBag
  /\ stalled = [c \in L1Cache \cup {L2Cache} |-> EmptyBag]
  /\ latest = memory
  /\ window = [l \in L1Cache |-> {}]

Core(l) ==
  \/ \E op \in platform.ops[l] : MakeRequest(l, op)
  \/ L1Hit(l) \/ L1Miss(l) \/ L1StallMandatory(l)
  \/ L1Replacement(l) \/ LLSCTimeout(l)

Next ==
  \/ \E l \in L1Cache : Core(l)
  \/ \E m \in InFlight : Deliver(m)
  \/ L2Replacement

Spec == Init /\ [][Next]_vars

-----------------------------------------------------------------------------
(* Fairness.  The event queue runs every wake-up a controller has          *)
(* scheduled, so what stays possible happens.  A request may be retried    *)
(* many times: a woken message keeps its arrival time and is then the      *)
(* oldest of its queue, and the L1 takes forwarded requests before those   *)
(* of its core (the ranks of its in_ports), so one that is possible again  *)
(* and again is served.  A core that holds a line locked goes on to write  *)
(* it.  No cache is obliged to replace a line for another one.             *)

CoreProceeds(l) ==
  \/ L1Hit(l) \/ L1Miss(l) \/ L1StallMandatory(l)
  \/ WrongCache(l) /\ L1Replacement(l)

L1TakesResponse(l) ==
  \E m \in InFlight : /\ m.to = l /\ ~Blocked(l)
                      /\ L1Data(l, m) \/ L1Ack(l, m) \/ L1WBAck(l, m)

L1TakesRequest(l) ==
  \E m \in InFlight : /\ m.to = l /\ ~Blocked(l)
                      /\ L1Inv(l, m) \/ L1Forward(l, m)

L2TakesResponse ==
  \E m \in InFlight : /\ m.to = L2Cache
                      /\ L2Unblock(m) \/ L2WBData(m) \/ L2Ack(m) \/ L2Mem(m)

L2TakesRequest(l) ==
  \E m \in InFlight : /\ m.to = L2Cache /\ m.from = l
                      /\ L2Read(m) \/ L2Write(m) \/ L2PutX(m)

MemoryProceeds ==
  \E m \in InFlight : /\ m.to \in {Directory, Memory}
                      /\ Deliver(m)

Fairness ==
  /\ WF_vars(L2TakesResponse) /\ WF_vars(MemoryProceeds)
  /\ \A l \in L1Cache :
       /\ WF_vars(CoreProceeds(l)) /\ WF_vars(LLSCTimeout(l))
       /\ WF_vars(MakeRequest(l, "Locked_RMW_Write"))
       /\ WF_vars(L1TakesResponse(l))
       /\ SF_vars(L1TakesRequest(l)) /\ SF_vars(L2TakesRequest(l))

FairSpec == Spec /\ Fairness

-----------------------------------------------------------------------------
(* Properties.                                                             *)

Readable(l) == l1[l].state \in {"S", "SM", "E", "M"} \cup LLSC

Writable(l) == l1[l].state \in {"E", "M"} \cup LLSC

\* Every variable keeps its type; the acks an L1 waits for never exceed the
\* other caches, in either direction.
TypeOK ==
  LET Line == Values \cup {None}
      Count == (0 - Cardinality(L1Cache))..Cardinality(L1Cache)
  IN /\ platform \in Platforms
     /\ \A l \in L1Cache :
          /\ sequencer[l].op \in {"none"} \cup platform.ops[l]
          /\ sequencer[l].at \in {"core", "mandatoryQueue", "stallMap", "TBE"}
          /\ l1[l].state \in {"I", "S", "E", "M"} \cup Transient \cup LLSC
          /\ l1[l].data \in Line /\ l1[l].acks \in Count
          /\ window[l] \subseteq Values
     /\ l2.state \in {"NP", "SS", "M", "MT", "ISS", "IS", "IM"}
                       \cup L2Replacing \cup L2Blocking
     /\ l2.data \in Line /\ l2.acks \in Count /\ l2.sharers \subseteq L1Cache
     /\ dir \in {"I", "IM", "M", "MI"}
     /\ memory \in Values /\ latest \in Values

\* A core can read nothing but the value written last, and a line that one core
\* may write is in no other core's cache: the two promises of the L1 states'
\* access permissions, in the middle of every race of upgrades, writebacks,
\* invalidations and forwarded requests.
Coherent ==
  /\ \A l \in L1Cache : Readable(l) => l1[l].data = latest
  /\ \A l, k \in L1Cache : l # k /\ Writable(l) => ~Readable(k)

\* I of the directory: "memory is up-to-date" (MESI_Two_Level-dir.sm:47).
MemoryUpToDate == dir = "I" => memory = latest

\* The variables have their types, and the states of the directory and of the
\* L2 mean what they are declared to mean, although neither hears of a silent
\* change in an L1: I of the directory is "memory is up-to-date, all other
\* copies are Invalid", M of the L2 "not present in any L1s", and SS excludes a
\* writable copy.
StateMeaning ==
  /\ TypeOK
  /\ MemoryUpToDate
  /\ dir = "I" => \A l \in L1Cache : ~Readable(l)
  /\ l2.state \in {"SS", "M"} => l2.data = latest
  /\ l2.state = "M" => \A l \in L1Cache : ~Readable(l)
  /\ l2.state = "SS" => \A l \in L1Cache : ~Writable(l)

\* No controller meets a message for which its state has no transition, which
\* the generated code answers with panic("Invalid transition").  Every message
\* in flight can be taken, or stalled, at once; a line locked by a
\* read-modify-write makes it wait.
NoInvalidTransition ==
  \A m \in InFlight :
     m.to \notin L1Cache \/ ~Blocked(m.to) => ENABLED Deliver(m)

\* This step answers the request of core l.
Answered(l) == sequencer[l].at # "core" /\ sequencer'[l].at = "core"

\* A load returns a value the line had between its request and its answer, also
\* when the copy is invalidated before the data arrives (IS_I).
LoadsInWindow ==
  [][\A l \in L1Cache :
       sequencer[l].op \in ReadOps /\ Answered(l)
         => l1'[l].data \in window[l]]_vars

\* Between a core's Load_Linked and its Store_Conditional, while the monitor is
\* set, and between its Locked_RMW_Read and its Locked_RMW_Write, no other core's
\* write completes: both pairs are atomic.
AtomicUpdates ==
  [][\A k \in L1Cache :
       sequencer[k].op \in WriteOps /\ Answered(k)
         => \A l \in L1Cache \ {k} : ~l1[l].locked /\ ~Blocked(l)]_vars

\* Every request of a core is answered: no message is left in a stall map for
\* ever, and no two controllers wait for each other.  Sequencer::wakeup panics
\* with "Possible Deadlock detected" otherwise.
RequestAnswered ==
  \A l \in L1Cache : sequencer[l].at # "core" ~> sequencer[l].at = "core"
============================================================================
