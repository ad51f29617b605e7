------------------------- MODULE ExterServer_proofs -------------------------
(***************************************************************************)
(* Proofs about the exter helper and its clients, for any senders, units   *)
(* and packets: the type invariant, the single dummy message and the       *)
(* single reply, across resets.                                            *)
(***************************************************************************)
EXTENDS ExterServer, FiniteSetTheorems, SequenceTheorems, TLAPS

Items == [from : Senders, seq : Nat, part : Nat, len : 2 .. 4, num : Nat]
Ports == [dummy : {TRUE}] \cup [dummy : {FALSE}, packet : Packets]

(* Types, by the parts of the state that change together. *)
SenderRecord == [at : {"idle", "write", "full", "request", "forgotten"},
                 seq : 0 .. MaxMsgs, len : 0 .. 4, part : 0 .. 5]
InMessage(r) ==
  r.at \in {"write", "full"} => r.len \in 2 .. 4 /\ r.part \in 1 .. r.len
SenderTypes ==
  sender \in [Senders -> SenderRecord] /\ \A s \in Senders : InMessage(sender[s])

PipeTypes ==
  /\ pending \in Seq(Items) /\ Len(pending) <= PipeCap
  /\ log \in Seq([from : Senders, seq : Nat])

ExterRecord(e) ==
  e = [at |-> e.at, signal |-> e.signal, msg |-> e.msg, got |-> e.got, need |-> e.need,
       whole |-> e.whole, dummy |-> e.dummy]
ExterTypes ==
  /\ ExterRecord(exter)
  /\ exter.at \in {"wait", "call10", "scan", "args", "act"}
  /\ exter.at = "args" => exter.msg \in Items
  /\ exter.got \in Nat /\ exter.need \in Nat
  /\ exter.dummy = None \/ (exter.at = "act" /\ \E u \in Units : exter.dummy = <<u>>)
  /\ int_sem \in 0 .. 1 /\ unit_no \in 0 .. MaxUnits

CmdTypes ==
  /\ cmds_sent \in [Units -> Nat] /\ cmds_acked \in [Units -> Nat]
  /\ cmds_complete \in [Units -> Nat]
  /\ \A u \in Units : cmds_complete[u] <= cmds_acked[u] /\ cmds_acked[u] <= cmds_sent[u]

HandlerTypes ==
  /\ port \in [Units -> Seq(Ports)] /\ queue \in [Units -> SUBSET Packets]
  /\ unit_pipe \in [Units -> Seq(Packets)]
  /\ thread \in [Units -> [at : {"read", "count", "mark", "request"},
                           packet : {None} \cup {<<p>> : p \in Packets}]]
  /\ mark \in [Packets -> {"new", "sent", "unstarted", "started", "finished", "gone"}]
  /\ replied \in [Packets -> Nat] /\ scanning \subseteq Units /\ early \subseteq Units

(* Every unit of n2asem that is taken is taken by one sender. *)
Holders == {s \in Senders : sender[s].at # "idle"}
HolderInv == n2asem \in Nat /\ n2asem + Cardinality(Holders) = Installs

(* The dummy message of a unit is on its way only while the unit's acked   *)
(* count is ahead of its complete count: the test of NeedsMessage.         *)
DummyInv ==
  \A u \in Units :
    (exter.dummy = <<u>> \/ \E i \in DOMAIN port[u] : port[u][i].dummy)
      => cmds_acked[u] # cmds_complete[u]

(* A packet is in one place: on its unit's port while it is sent, once;    *)
(* then in the handler's list, until it is replied to.                     *)
PortInv ==
  \A u \in Units : \A i \in DOMAIN port[u] : ~ port[u][i].dummy =>
    /\ UnitOf[port[u][i].packet] = u /\ mark[port[u][i].packet] = "sent"
    /\ \A j \in DOMAIN port[u] :
         ~ port[u][j].dummy /\ port[u][j].packet = port[u][i].packet => i = j
ListInv ==
  \A u \in Units : \A p \in queue[u] :
    /\ UnitOf[p] = u /\ replied[p] = 0
    /\ mark[p] \in {"unstarted", "started", "finished"}
StartedInv ==
  /\ \A u \in Units : \A i \in DOMAIN unit_pipe[u] : mark[unit_pipe[u][i]] \in {"started", "finished"}
  /\ \A u \in Units : thread[u].at \in {"count", "mark"} =>
       \E p \in Packets : thread[u].packet = <<p>> /\ mark[p] \in {"started", "finished"}

Types == SenderTypes /\ PipeTypes /\ ExterTypes /\ CmdTypes /\ HandlerTypes /\ intreq \in BOOLEAN
IInv ==
  Types /\ HolderInv /\ DummyInv /\ DummyQueuedOnce /\ PortInv /\ ListInv /\ StartedInv /\ RepliedOnce

-----------------------------------------------------------------------------
LEMMA Initial == ASSUME Init PROVE IInv
<1>1. Holders = {} /\ Cardinality(Holders) = 0
  BY FS_EmptySet DEF Init, Holders, Idle
<1>2. SenderTypes /\ PipeTypes
  BY ExterAssumption DEF Init, SenderTypes, SenderRecord, InMessage, PipeTypes, Idle
<1>3. ExterTypes
  BY ExterAssumption DEF Init, ExterTypes, ExterRecord, None
<1>4. CmdTypes /\ HandlerTypes
  BY DEF Init, CmdTypes, HandlerTypes, NoPacket, None
<1>5. intreq \in BOOLEAN
  BY DEF Init
<1>6. HolderInv
  BY <1>1, ExterAssumption DEF Init, HolderInv
<1>7. DummyInv /\ DummyQueuedOnce /\ PortInv /\ ListInv /\ StartedInv /\ RepliedOnce
  BY DEF Init, DummyInv, DummyQueuedOnce, PortInv, ListInv, StartedInv, RepliedOnce, NoPacket, None
<1> QED
  BY <1>2, <1>3, <1>4, <1>5, <1>6, <1>7 DEF IInv, Types

-----------------------------------------------------------------------------
(* Which steps change which part of the state. *)
ChangesPipe ==
  \/ \E s \in Senders : NativeSemWait(s)
  \/ \E s \in Senders : PipeFull(s)
  \/ \E s \in Senders : WriteItem(s)
  \/ \E s \in Senders : RequestInt(s)
  \/ HelperCommand
  \/ HelperArgument
  \/ ResetBegin
LEMMA PipeFrame == ASSUME [Next]_vars, ~ ChangesPipe PROVE UNCHANGED <<n2asem, sender, log, pending>>
  BY DEF ChangesPipe, Next, SenderStep, ExterStep, HandlerStep, ThreadStep,
    NativeSemWait, PipeFull, WriteItem, RequestInt, InterruptServer, ExterWakes,
    HelperBusy, HelperEnter, HelperCommand, HelperArgument, ExterActs, HelperUnit,
    HelperEnd, Vsync, SendPacket, HandlerPacket, HandlerRefuses,
    HandlerDummy, HandlerScan, ThreadRead, ThreadCount, ThreadMark, ThreadRequest, ResetBegin, ResetEnd, vars, senders, extvars,
    cmds, handler

ChangesExter ==
  \/ InterruptServer
  \/ ExterWakes
  \/ HelperBusy
  \/ HelperEnter
  \/ HelperCommand
  \/ HelperArgument
  \/ ExterActs
  \/ HelperUnit
  \/ HelperEnd
  \/ ResetEnd
LEMMA ExterFrame == ASSUME [Next]_vars, ~ ChangesExter PROVE UNCHANGED <<exter, delivered, int_sem, unit_no>>
  BY DEF ChangesExter, Next, SenderStep, ExterStep, HandlerStep, ThreadStep,
    NativeSemWait, PipeFull, WriteItem, RequestInt, InterruptServer, ExterWakes,
    HelperBusy, HelperEnter, HelperCommand, HelperArgument, ExterActs, HelperUnit,
    HelperEnd, Vsync, SendPacket, HandlerPacket, HandlerRefuses,
    HandlerDummy, HandlerScan, ThreadRead, ThreadCount, ThreadMark, ThreadRequest, ResetBegin, ResetEnd, vars, senders, extvars,
    cmds, handler

ChangesCmds ==
  \/ HelperUnit
  \/ \E u \in Units : HandlerDummy(u)
  \/ \E u \in Units : ThreadCount(u)
  \/ ResetEnd
LEMMA CmdFrame == ASSUME [Next]_vars, ~ ChangesCmds PROVE UNCHANGED <<cmds_sent, cmds_acked, cmds_complete>>
  BY DEF ChangesCmds, Next, SenderStep, ExterStep, HandlerStep, ThreadStep,
    NativeSemWait, PipeFull, WriteItem, RequestInt, InterruptServer, ExterWakes,
    HelperBusy, HelperEnter, HelperCommand, HelperArgument, ExterActs, HelperUnit,
    HelperEnd, Vsync, SendPacket, HandlerPacket, HandlerRefuses,
    HandlerDummy, HandlerScan, ThreadRead, ThreadCount, ThreadMark, ThreadRequest, ResetBegin, ResetEnd, vars, senders, extvars,
    cmds, handler

ChangesHandler ==
  \/ ExterActs
  \/ HelperUnit
  \/ \E p \in Packets : SendPacket(p)
  \/ \E u \in Units : HandlerPacket(u)
  \/ \E u \in Units : HandlerRefuses(u)
  \/ \E u \in Units : HandlerDummy(u)
  \/ \E u \in Units : HandlerScan(u)
  \/ \E u \in Units : ThreadRead(u)
  \/ \E u \in Units : ThreadCount(u)
  \/ \E u \in Units : ThreadMark(u)
  \/ \E u \in Units : ThreadRequest(u)
  \/ ResetEnd
LEMMA HandlerFrame ==
  ASSUME [Next]_vars, ~ ChangesHandler
  PROVE  UNCHANGED <<port, queue, unit_pipe, thread, mark, replied, scanning, early>>
  BY DEF ChangesHandler, Next, SenderStep, ExterStep, HandlerStep, ThreadStep,
    NativeSemWait, PipeFull, WriteItem, RequestInt, InterruptServer, ExterWakes,
    HelperBusy, HelperEnter, HelperCommand, HelperArgument, ExterActs, HelperUnit,
    HelperEnd, Vsync, SendPacket, HandlerPacket, HandlerRefuses,
    HandlerDummy, HandlerScan, ThreadRead, ThreadCount, ThreadMark, ThreadRequest, ResetBegin, ResetEnd, vars, senders, extvars,
    cmds, handler

-----------------------------------------------------------------------------
(* Types. *)
LEMMA SenderUpdate ==
  ASSUME SenderTypes, NEW s \in Senders, NEW r \in SenderRecord, InMessage(r),
         sender' = [sender EXCEPT ![s] = r]
  PROVE  SenderTypes'
  BY DEF SenderTypes

LEMMA SenderStepTypes == ASSUME IInv, [Next]_vars PROVE SenderTypes'
<1>0. SenderTypes
  BY DEF IInv, Types
<1>1. ASSUME NEW s \in Senders, NativeSemWait(s) PROVE SenderTypes'
  <2>1. PICK len \in Lengths :
          sender' = [sender EXCEPT ![s] = [at |-> "write", seq |-> sender[s].seq + 1, len |-> len, part |-> 1]]
    BY <1>0, <1>1 DEF NativeSemWait, SenderTypes
  <2>2. sender[s].seq \in 0 .. MaxMsgs /\ sender[s].seq < MaxMsgs /\ len \in 2 .. 4
    BY <1>0, <1>1, ExterAssumption DEF NativeSemWait, SenderTypes, SenderRecord
  <2>3. [at |-> "write", seq |-> sender[s].seq + 1, len |-> len, part |-> 1] \in SenderRecord
    BY <2>2, ExterAssumption DEF SenderRecord
  <2>4. InMessage([at |-> "write", seq |-> sender[s].seq + 1, len |-> len, part |-> 1])
    BY <2>2 DEF InMessage
  <2> QED
    BY <1>0, <2>1, <2>3, <2>4, SenderUpdate
<1>2. ASSUME NEW s \in Senders, PipeFull(s) PROVE SenderTypes'
  <2>1. sender' = [sender EXCEPT ![s] = [sender[s] EXCEPT !.at = "full"]]
    BY <1>0, <1>2 DEF PipeFull, SenderTypes
  <2>2. [sender[s] EXCEPT !.at = "full"] \in SenderRecord
    BY <1>0 DEF SenderTypes, SenderRecord
  <2>3. InMessage([sender[s] EXCEPT !.at = "full"])
    BY <1>0, <1>2 DEF PipeFull, SenderTypes, SenderRecord, InMessage
  <2> QED
    BY <1>0, <2>1, <2>2, <2>3, SenderUpdate
<1>3. ASSUME NEW s \in Senders, WriteItem(s) PROVE SenderTypes'
  <2> DEFINE at == IF sender[s].part = sender[s].len THEN "request" ELSE "write"
             r == [at |-> at, seq |-> sender[s].seq, len |-> sender[s].len,
                   part |-> sender[s].part + 1]
  <2>1. sender[s] \in SenderRecord
    BY <1>0 DEF SenderTypes
  <2>2. sender[s] = [at |-> sender[s].at, seq |-> sender[s].seq, len |-> sender[s].len,
                     part |-> sender[s].part] /\ sender[s].seq \in 0 .. MaxMsgs
    BY <2>1 DEF SenderRecord
  <2>3. sender' = [sender EXCEPT ![s] = [sender[s] EXCEPT !.part = sender[s].part + 1, !.at = at]]
    BY <1>0, <1>3 DEF WriteItem, SenderTypes
  <2>4. sender' = [sender EXCEPT ![s] = r]
    <3> DEFINE q == [sender[s] EXCEPT !.part = sender[s].part + 1, !.at = at]
    <3>1. q = [sender[s] EXCEPT !.part = sender[s].part + 1, !.at = at]
      OBVIOUS
    <3>2. sender' = [sender EXCEPT ![s] = q]
      BY <2>3
    <3> HIDE DEF q, at
    <3>3. q = r
      BY <2>2, <3>1
    <3> QED
      BY <3>2, <3>3
  <2>5. sender[s].len \in 2 .. 4 /\ sender[s].part \in 1 .. sender[s].len
    BY <1>0, <1>3 DEF WriteItem, SenderTypes, InMessage
  <2>6. sender[s].part + 1 \in 0 .. 5 /\ sender[s].len \in 0 .. 4
    BY <2>5
  <2>7. at \in {"request", "write"} /\ (at = "write" => sender[s].part # sender[s].len)
    OBVIOUS
  <2> HIDE DEF at
  <2>8. r \in SenderRecord
    BY <2>2, <2>6, <2>7 DEF SenderRecord
  <2>9. InMessage(r)
    BY <2>5, <2>7 DEF InMessage
  <2> HIDE DEF r
  <2> QED
    BY <1>0, <2>4, <2>8, <2>9, SenderUpdate
<1>4. ASSUME NEW s \in Senders, RequestInt(s) PROVE SenderTypes'
  <2>1. sender' = [sender EXCEPT ![s] = [sender[s] EXCEPT !.at = "idle"]]
    BY <1>0, <1>4 DEF RequestInt, SenderTypes
  <2>2. [sender[s] EXCEPT !.at = "idle"] \in SenderRecord
    BY <1>0 DEF SenderTypes, SenderRecord
  <2>3. InMessage([sender[s] EXCEPT !.at = "idle"])
    BY <1>0 DEF SenderTypes, SenderRecord, InMessage
  <2> QED
    BY <1>0, <2>1, <2>2, <2>3, SenderUpdate
<1>5. ASSUME ResetBegin PROVE SenderTypes'
  BY <1>0, <1>5 DEF ResetBegin, SenderTypes, SenderRecord, InMessage
<1>6. CASE HelperCommand \/ HelperArgument
  BY <1>0, <1>6 DEF HelperCommand, HelperArgument, senders, SenderTypes
<1>7. CASE ~ ChangesPipe
  BY <1>0, <1>7, PipeFrame DEF SenderTypes
<1> QED
  BY <1>1, <1>2, <1>3, <1>4, <1>5, <1>6, <1>7 DEF ChangesPipe

LEMMA PipeStep == ASSUME IInv, [Next]_vars PROVE PipeTypes'
<1>0. PipeTypes /\ SenderTypes
  BY DEF IInv, Types
<1>1. ASSUME NEW s \in Senders, NativeSemWait(s) \/ PipeFull(s) \/ RequestInt(s) PROVE PipeTypes'
  BY <1>0, <1>1 DEF NativeSemWait, PipeFull, RequestInt, PipeTypes
<1>3. ASSUME NEW s \in Senders, WriteItem(s) PROVE PipeTypes'
  <2> DEFINE i == [from |-> s, seq |-> sender[s].seq, part |-> sender[s].part,
                   len |-> sender[s].len, num |-> Len(log) + 1]
             m == [from |-> s, seq |-> sender[s].seq]
  <2>1. i \in Items /\ m \in [from : Senders, seq : Nat]
    BY <1>0, <1>3 DEF WriteItem, SenderTypes, SenderRecord, InMessage, Items, PipeTypes
  <2>2. /\ pending' = Append(pending, i) /\ Len(pending) < PipeCap
        /\ log' = IF sender[s].part = sender[s].len THEN Append(log, m) ELSE log
    BY <1>3 DEF WriteItem
  <2>3. pending' \in Seq(Items) /\ Len(pending') <= PipeCap
    BY <1>0, <2>1, <2>2, ExterAssumption DEF PipeTypes
  <2>4. log' \in Seq([from : Senders, seq : Nat])
    <3>1. log \in Seq([from : Senders, seq : Nat])
      BY <1>0 DEF PipeTypes
    <3>2. Append(log, m) \in Seq([from : Senders, seq : Nat])
      BY <2>1, <3>1, AppendProperties
    <3> QED
      BY <2>2, <3>1, <3>2
  <2> QED
    BY <2>3, <2>4 DEF PipeTypes
<1>5. CASE HelperCommand \/ HelperArgument
  <2>1. pending # <<>> /\ pending' = Tail(pending) /\ log' = log
    BY <1>5 DEF HelperCommand, HelperArgument, senders
  <2> QED
    BY <1>0, <2>1, ExterAssumption DEF PipeTypes
<1>6. CASE ResetBegin
  BY <1>0, <1>6, ExterAssumption DEF ResetBegin, PipeTypes
<1>7. CASE ~ ChangesPipe
  BY <1>0, <1>7, PipeFrame DEF PipeTypes
<1> QED
  BY <1>1, <1>3, <1>5, <1>6, <1>7 DEF ChangesPipe

LEMMA ExterTypeStep == ASSUME IInv, [Next]_vars PROVE ExterTypes'
<1>0. ExterTypes /\ PipeTypes
  BY DEF IInv, Types
<1> USE DEF ExterTypes, ExterRecord
<1>1. ASSUME InterruptServer PROVE ExterTypes'
  <2>1. exter' = [at |-> exter.at, signal |-> TRUE, msg |-> exter.msg, got |-> exter.got,
                need |-> exter.need, whole |-> exter.whole, dummy |-> exter.dummy]
    BY <1>0, <1>1 DEF InterruptServer
  <2>2. int_sem' \in 0 .. 1 /\ unit_no' \in 0 .. MaxUnits
    BY <1>0, <1>1, ExterAssumption DEF InterruptServer, Units
  <2> QED
    BY <1>0, <1>1, <2>1, <2>2 DEF InterruptServer
<1>2. ASSUME ExterWakes PROVE ExterTypes'
  <2>1. exter' = [at |-> "call10", signal |-> FALSE, msg |-> exter.msg, got |-> exter.got,
                need |-> exter.need, whole |-> exter.whole, dummy |-> exter.dummy]
    BY <1>0, <1>2 DEF ExterWakes
  <2>2. int_sem' \in 0 .. 1 /\ unit_no' \in 0 .. MaxUnits
    BY <1>0, <1>2, ExterAssumption DEF ExterWakes, Units
  <2> QED
    BY <1>0, <1>2, <2>1, <2>2 DEF ExterWakes
<1>3. ASSUME HelperBusy PROVE ExterTypes'
  <2>1. exter' = [at |-> "wait", signal |-> exter.signal, msg |-> exter.msg, got |-> exter.got,
                need |-> exter.need, whole |-> exter.whole, dummy |-> exter.dummy]
    BY <1>0, <1>3 DEF HelperBusy
  <2>2. int_sem' \in 0 .. 1 /\ unit_no' \in 0 .. MaxUnits
    BY <1>0, <1>3, ExterAssumption DEF HelperBusy, Units
  <2> QED
    BY <1>0, <1>3, <2>1, <2>2 DEF HelperBusy
<1>4. ASSUME HelperEnter PROVE ExterTypes'
  <2>1. exter' = [at |-> "scan", signal |-> exter.signal, msg |-> exter.msg, got |-> exter.got,
                need |-> exter.need, whole |-> exter.whole, dummy |-> exter.dummy]
    BY <1>0, <1>4 DEF HelperEnter
  <2>2. int_sem' \in 0 .. 1 /\ unit_no' \in 0 .. MaxUnits
    BY <1>0, <1>4, ExterAssumption DEF HelperEnter, Units
  <2> QED
    BY <1>0, <1>4, <2>1, <2>2 DEF HelperEnter
<1>5. ASSUME ExterActs PROVE ExterTypes'
  <2>1. exter' = [at |-> "scan", signal |-> exter.signal, msg |-> exter.msg, got |-> exter.got,
                need |-> exter.need, whole |-> exter.whole, dummy |-> None]
    BY <1>0, <1>5 DEF ExterActs
  <2>2. int_sem' \in 0 .. 1 /\ unit_no' \in 0 .. MaxUnits
    BY <1>0, <1>5, ExterAssumption DEF ExterActs, Units
  <2> QED
    BY <1>0, <1>5, <2>1, <2>2 DEF ExterActs
<1>6. ASSUME HelperEnd PROVE ExterTypes'
  <2>1. exter' = [at |-> "wait", signal |-> exter.signal, msg |-> exter.msg, got |-> exter.got,
                need |-> exter.need, whole |-> exter.whole, dummy |-> exter.dummy]
    BY <1>0, <1>6 DEF HelperEnd
  <2>2. int_sem' \in 0 .. 1 /\ unit_no' \in 0 .. MaxUnits
    BY <1>0, <1>6, ExterAssumption DEF HelperEnd, Units
  <2> QED
    BY <1>0, <1>6, <2>1, <2>2 DEF HelperEnd
<1>7. ASSUME ResetEnd PROVE ExterTypes'
  <2>1. exter' = [at |-> "wait", signal |-> FALSE, msg |-> exter.msg, got |-> exter.got,
                need |-> exter.need, whole |-> exter.whole, dummy |-> None]
    BY <1>0, <1>7 DEF ResetEnd
  <2>2. int_sem' \in 0 .. 1 /\ unit_no' \in 0 .. MaxUnits
    BY <1>0, <1>7, ExterAssumption DEF ResetEnd, Units
  <2> QED
    BY <1>0, <1>7, <2>1, <2>2 DEF ResetEnd
<1>8. ASSUME HelperArgument PROVE ExterTypes'
  <2>1. exter' = [at |-> IF exter.got + 1 = exter.need THEN "act" ELSE "args",
                  signal |-> exter.signal, msg |-> exter.msg, got |-> exter.got + 1, need |-> exter.need,
                  whole |-> exter.whole /\ Head(pending) = [exter.msg EXCEPT !.part = exter.got + 1],
                  dummy |-> exter.dummy]
    BY <1>0, <1>8 DEF HelperArgument
  <2>2. int_sem' \in 0 .. 1 /\ unit_no' \in 0 .. MaxUnits
    BY <1>0, <1>8, ExterAssumption DEF HelperArgument, Units
  <2>3. exter.msg \in Items /\ exter.dummy = None
    BY <1>0, <1>8 DEF HelperArgument
  <2>4. /\ ExterRecord(exter') /\ exter'.at \in {"act", "args"} /\ exter'.msg \in Items
        /\ exter'.got \in Nat /\ exter'.need \in Nat /\ exter'.dummy = None
    BY <1>0, <2>1, <2>3
  <2> QED
    BY <2>2, <2>4
<1>9. ASSUME HelperCommand PROVE ExterTypes'
  <2>1. Head(pending) \in Items
    BY <1>0, <1>9 DEF HelperCommand, PipeTypes
  <2>2. PICK need \in (IF Head(pending).part = 1 THEN {Head(pending).len} ELSE 1 .. 4) :
          exter' = [exter EXCEPT !.at = IF need = 1 THEN "scan" ELSE "args",
                      !.msg = Head(pending), !.got = 1, !.need = need, !.whole = Head(pending).part = 1]
    BY <1>9 DEF HelperCommand
  <2>3. exter' = [at |-> IF need = 1 THEN "scan" ELSE "args", signal |-> exter.signal,
                  msg |-> Head(pending), got |-> 1, need |-> need,
                  whole |-> Head(pending).part = 1, dummy |-> exter.dummy]
    BY <1>0, <2>2
  <2>4. need \in Nat /\ exter.dummy = None /\ UNCHANGED <<int_sem, unit_no>>
    BY <1>0, <1>9, <2>1, <2>2 DEF HelperCommand, Items
  <2> QED
    BY <1>0, <2>1, <2>3, <2>4
<1>10. ASSUME HelperUnit PROVE ExterTypes'
  <2>1. PICK u \in Units : /\ exter' = [exter EXCEPT !.at = "act", !.dummy = <<u>>]
                           /\ unit_no' = u + 1 /\ int_sem' = int_sem
    BY <1>10 DEF HelperUnit
  <2>2. exter' = [at |-> "act", signal |-> exter.signal, msg |-> exter.msg, got |-> exter.got,
                  need |-> exter.need, whole |-> exter.whole, dummy |-> <<u>>]
    BY <1>0, <2>1
  <2>3. unit_no' \in 0 .. MaxUnits
    BY <2>1, ExterAssumption DEF Units
  <2> QED
    BY <1>0, <2>1, <2>2, <2>3
<1>11. CASE ~ ChangesExter
  BY <1>0, <1>11, ExterFrame
<1> QED
  BY <1>1, <1>2, <1>3, <1>4, <1>5, <1>6, <1>7, <1>8, <1>9, <1>10, <1>11 DEF ChangesExter

LEMMA CmdStep == ASSUME IInv, [Next]_vars PROVE CmdTypes'
<1> USE DEF IInv, Types, CmdTypes
<1>1. CASE HelperUnit
  BY <1>1 DEF HelperUnit
<1>2. CASE \E u \in Units : HandlerDummy(u)
  BY <1>2 DEF HandlerDummy
<1>3. CASE \E u \in Units : ThreadCount(u)
  BY <1>3 DEF ThreadCount
<1>4. CASE ResetEnd
  BY <1>4 DEF ResetEnd
<1>5. CASE ~ ChangesCmds
  BY <1>5, CmdFrame
<1> QED
  BY <1>1, <1>2, <1>3, <1>4, <1>5 DEF ChangesCmds

LEMMA PortTypes == ASSUME IInv, [Next]_vars PROVE port' \in [Units -> Seq(Ports)]
<1>0. port \in [Units -> Seq(Ports)] /\ ExterTypes
  BY DEF IInv, Types, HandlerTypes
<1>1. ASSUME ExterActs PROVE port' \in [Units -> Seq(Ports)]
  <2>1. Dummy \in Ports
    BY DEF Dummy, Ports
  <2> QED
    BY <1>0, <1>1, <2>1 DEF ExterActs, ExterTypes
<1>2. ASSUME NEW p \in Packets, SendPacket(p) PROVE port' \in [Units -> Seq(Ports)]
  <2>1. Packet(p) \in Ports /\ UnitOf[p] \in Units
    BY ExterAssumption DEF Packet, Ports
  <2> QED
    BY <1>0, <1>2, <2>1 DEF SendPacket
<1>3. ASSUME NEW u \in Units, HandlerPacket(u) \/ HandlerRefuses(u) \/ HandlerDummy(u)
      PROVE  port' \in [Units -> Seq(Ports)]
  <2>1. port[u] # <<>> /\ port' = [port EXCEPT ![u] = Tail(port[u])]
    BY <1>0, <1>3 DEF HandlerPacket, HandlerRefuses, HandlerDummy
  <2>2. Tail(port[u]) \in Seq(Ports)
    BY <1>0, <2>1
  <2> QED
    BY <1>0, <2>1, <2>2
<1>4. CASE ResetEnd
  BY <1>4 DEF ResetEnd
<1>5. CASE \E u \in Units : HandlerScan(u) \/ ThreadStep(u)
  BY <1>0, <1>5 DEF HandlerScan, ThreadStep, ThreadRead, ThreadCount, ThreadMark, ThreadRequest, handler
<1>6. CASE HelperUnit \/ ~ ChangesHandler
  BY <1>0, <1>6, HandlerFrame DEF HelperUnit, handler
<1> QED
  BY <1>1, <1>2, <1>3, <1>4, <1>5, <1>6 DEF ChangesHandler, ThreadStep

LEMMA HandlerStepTypes == ASSUME IInv, [Next]_vars PROVE HandlerTypes'
<1>0. HandlerTypes
  BY DEF IInv, Types
<1> USE DEF HandlerTypes
<1>1. ASSUME ExterActs PROVE HandlerTypes'
  BY <1>0, <1>1, PortTypes DEF ExterActs
<1>2. ASSUME NEW p \in Packets, SendPacket(p) PROVE HandlerTypes'
  BY <1>0, <1>2, PortTypes DEF SendPacket
<1>3. ASSUME NEW u \in Units, HandlerPacket(u) PROVE HandlerTypes'
  <2> DEFINE p == Head(port[u]).packet
  <2>1. p \in Packets
    <3>1. Head(port[u]) \in Ports /\ ~ Head(port[u]).dummy
      BY <1>0, <1>3 DEF HandlerPacket
    <3> QED
      BY <3>1 DEF Ports
  <2>5. \/ mark' = [mark EXCEPT ![p] = "unstarted"] /\ unit_pipe' = unit_pipe
        \/ /\ mark' = [mark EXCEPT ![p] = "started"]
           /\ unit_pipe' = [unit_pipe EXCEPT ![u] = Append(unit_pipe[u], p)]
    BY <1>0, <1>3 DEF HandlerPacket
  <2>2. queue' \in [Units -> SUBSET Packets]
    BY <1>0, <1>3, <2>1 DEF HandlerPacket
  <2>3. unit_pipe' \in [Units -> Seq(Packets)]
    <3>1. Append(unit_pipe[u], p) \in Seq(Packets)
      BY <1>0, <2>1, AppendProperties
    <3> QED
      BY <1>0, <2>5, <3>1
  <2>4. mark' \in [Packets -> {"new", "sent", "unstarted", "started", "finished", "gone"}]
    BY <1>0, <2>1, <2>5
  <2> QED
    BY <1>0, <1>3, PortTypes, <2>2, <2>3, <2>4 DEF HandlerPacket
<1>4. ASSUME NEW u \in Units, HandlerDummy(u) PROVE HandlerTypes'
  BY <1>0, <1>4, PortTypes DEF HandlerDummy
<1>5. ASSUME NEW u \in Units, HandlerScan(u) PROVE HandlerTypes'
  BY <1>0, <1>5, PortTypes DEF HandlerScan
<1>6. ASSUME NEW u \in Units, ThreadRead(u) PROVE HandlerTypes'
  <2>1. Head(unit_pipe[u]) \in Packets /\ Tail(unit_pipe[u]) \in Seq(Packets)
    BY <1>0, <1>6 DEF ThreadRead
  <2> QED
    BY <1>0, <1>6, PortTypes, <2>1 DEF ThreadRead
<1>7. ASSUME NEW u \in Units, ThreadCount(u) PROVE HandlerTypes'
  BY <1>0, <1>7, PortTypes DEF ThreadCount, handler
<1>8. ASSUME NEW u \in Units, ThreadMark(u) PROVE HandlerTypes'
  BY <1>0, <1>8, PortTypes DEF ThreadMark
<1>9. ASSUME NEW u \in Units, ThreadRequest(u) PROVE HandlerTypes'
  BY <1>0, <1>9, PortTypes DEF ThreadRequest, NoPacket, handler
<1>10. ASSUME ResetEnd PROVE HandlerTypes'
  BY <1>0, <1>10, PortTypes DEF ResetEnd
<1>11. CASE HelperUnit
  BY <1>0, <1>11, PortTypes DEF HelperUnit, handler
<1>12. CASE ~ ChangesHandler
  BY <1>0, <1>12, PortTypes, HandlerFrame
<1>13. ASSUME NEW u \in Units, HandlerRefuses(u) PROVE HandlerTypes'
  <2> DEFINE p == Head(port[u]).packet
  <2>1. p \in Packets
    <3>1. Head(port[u]) \in Ports /\ ~ Head(port[u]).dummy
      BY <1>0, <1>13 DEF HandlerRefuses
    <3> QED
      BY <3>1 DEF Ports
  <2>2. /\ mark' = [mark EXCEPT ![p] = "finished"]
        /\ replied' = [replied EXCEPT ![p] = replied[p] + 1]
        /\ UNCHANGED <<queue, unit_pipe, thread, scanning, early>>
    BY <1>13 DEF HandlerRefuses
  <2> HIDE DEF p
  <2>3. mark' \in [Packets -> {"new", "sent", "unstarted", "started", "finished", "gone"}]
    BY <1>0, <2>1, <2>2
  <2>4. replied' \in [Packets -> Nat]
    BY <1>0, <2>1, <2>2
  <2> QED
    BY <1>0, PortTypes, <2>2, <2>3, <2>4
<1> QED
  BY <1>1, <1>2, <1>3, <1>4, <1>5, <1>6, <1>7, <1>8, <1>9, <1>10, <1>11, <1>12, <1>13
    DEF ChangesHandler

LEMMA HolderStep == ASSUME IInv, [Next]_vars PROVE HolderInv'
<1>0. HolderInv /\ SenderTypes /\ IsFiniteSet(Holders)
  BY ExterAssumption, FS_Subset DEF IInv, Types, Holders
<1>1. ASSUME NEW s \in Senders, NativeSemWait(s) PROVE HolderInv'
  <2>1. Holders' = Holders \cup {s} /\ s \notin Holders /\ n2asem' = n2asem - 1 /\ n2asem > 0
    BY <1>0, <1>1 DEF NativeSemWait, Holders, SenderTypes
  <2> QED
    <3>1. Cardinality(Holders') = Cardinality(Holders) + 1 /\ Cardinality(Holders) \in Nat
      BY <1>0, <2>1, FS_AddElement, FS_CardinalityType
    <3> QED
      BY <1>0, <2>1, <3>1 DEF HolderInv
<1>2. ASSUME NEW s \in Senders, RequestInt(s) PROVE HolderInv'
  <2>1. Holders' = Holders \ {s} /\ s \in Holders /\ n2asem' = n2asem + 1
    BY <1>0, <1>2 DEF RequestInt, Holders, SenderTypes
  <2> QED
    <3>1. Cardinality(Holders') = Cardinality(Holders) - 1 /\ Cardinality(Holders) \in Nat
      BY <1>0, <2>1, FS_RemoveElement, FS_CardinalityType
    <3> QED
      BY <1>0, <2>1, <3>1, ExterAssumption DEF HolderInv
<1>3. ASSUME NEW s \in Senders, PipeFull(s) \/ WriteItem(s) PROVE HolderInv'
  <2>1. Holders' = Holders /\ n2asem' = n2asem
    BY <1>0, <1>3 DEF PipeFull, WriteItem, Holders, SenderTypes, SenderRecord
  <2> QED
    BY <1>0, <2>1 DEF HolderInv
<1>4. ASSUME ResetBegin PROVE HolderInv'
  <2>1. Holders' = Holders /\ n2asem' = n2asem
    BY <1>0, <1>4 DEF ResetBegin, Holders, SenderTypes, SenderRecord
  <2> QED
    BY <1>0, <2>1 DEF HolderInv
<1>5. CASE HelperCommand \/ HelperArgument \/ ~ ChangesPipe
  <2>1. Holders' = Holders /\ n2asem' = n2asem
    BY <1>5, PipeFrame DEF HelperCommand, HelperArgument, senders, Holders
  <2> QED
    BY <1>0, <2>1 DEF HolderInv
<1> QED
  BY <1>1, <1>2, <1>3, <1>4, <1>5 DEF ChangesPipe

-----------------------------------------------------------------------------
(* Sequences: what a position of a tail or of an append holds. *)
LEMMA TailPositions ==
  ASSUME NEW S, NEW q \in Seq(S), q # <<>>
  PROVE  /\ 1 \in DOMAIN q /\ Head(q) = q[1]
         /\ \A i \in DOMAIN Tail(q) : i \in Nat /\ i > 0 /\ i + 1 \in DOMAIN q /\ Tail(q)[i] = q[i + 1]
<1>1. Tail(q) \in Seq(S) /\ Len(Tail(q)) = Len(q) - 1 /\ Head(q) = q[1]
      /\ \A i \in 1 .. Len(Tail(q)) : Tail(q)[i] = q[i + 1]
  BY HeadTailProperties
<1>2. DOMAIN q = 1 .. Len(q) /\ Len(q) \in Nat /\ Len(q) > 0
  BY LenProperties, EmptySeq
<1>3. DOMAIN Tail(q) = 1 .. Len(q) - 1
  BY <1>1, LenProperties
<1> QED
  BY <1>1, <1>2, <1>3

LEMMA AppendPositions ==
  ASSUME NEW S, NEW q \in Seq(S), NEW e \in S
  PROVE  /\ \A i \in DOMAIN Append(q, e) : \/ i \in DOMAIN q /\ Append(q, e)[i] = q[i]
                                           \/ i = Len(q) + 1 /\ Append(q, e)[i] = e
         /\ Len(q) + 1 \notin DOMAIN q
<1>1. /\ Append(q, e) \in Seq(S) /\ Len(Append(q, e)) = Len(q) + 1
      /\ \A i \in 1 .. Len(q) : Append(q, e)[i] = q[i]
      /\ Append(q, e)[Len(q) + 1] = e
  BY AppendProperties
<1>2. DOMAIN q = 1 .. Len(q) /\ Len(q) \in Nat /\ DOMAIN Append(q, e) = 1 .. Len(q) + 1
  BY <1>1, LenProperties
<1> QED
  BY <1>1, <1>2

-----------------------------------------------------------------------------
(* One dummy message. *)
LEMMA DummyFrame ==
  ASSUME IInv, [Next]_vars, ~ ExterActs, ~ HelperUnit, ~ ResetEnd,
         ~ \E p \in Packets : SendPacket(p),
         ~ \E u \in Units : HandlerPacket(u) \/ HandlerRefuses(u) \/ HandlerDummy(u)
  PROVE  exter'.dummy = exter.dummy /\ UNCHANGED <<port, cmds_acked, cmds_complete>>
<1>1. exter'.dummy = exter.dummy
  <2>1. CASE InterruptServer \/ ExterWakes \/ HelperBusy \/ HelperEnter \/ HelperEnd
    BY <2>1 DEF InterruptServer, ExterWakes, HelperBusy, HelperEnter, HelperEnd, IInv, Types,
      ExterTypes, ExterRecord
  <2>2. CASE HelperCommand
    BY <2>2 DEF HelperCommand, IInv, Types, ExterTypes, ExterRecord
  <2>3. CASE HelperArgument
    BY <2>3 DEF HelperArgument, IInv, Types, ExterTypes, ExterRecord
  <2>4. CASE ~ ChangesExter
    BY <2>4, ExterFrame
  <2> QED
    BY <2>1, <2>2, <2>3, <2>4 DEF ChangesExter
<1>2. UNCHANGED <<cmds_acked, cmds_complete>>
  <2>1. CASE \E u \in Units : ThreadCount(u)
    BY <2>1 DEF ThreadCount
  <2>2. CASE ~ ChangesCmds
    BY <2>2, CmdFrame
  <2> QED
    BY <2>1, <2>2 DEF ChangesCmds
<1>3. UNCHANGED port
  <2>1. CASE \E u \in Units : HandlerScan(u) \/ ThreadStep(u)
    BY <2>1 DEF HandlerScan, ThreadStep, ThreadRead, ThreadCount, ThreadMark, ThreadRequest, handler
  <2>2. CASE ~ ChangesHandler
    BY <2>2, HandlerFrame
  <2> QED
    BY <2>1, <2>2 DEF ChangesHandler, ThreadStep
<1> QED
  BY <1>1, <1>2, <1>3

LEMMA DummyStep == ASSUME IInv, [Next]_vars PROVE DummyInv' /\ DummyQueuedOnce'
<1>0. /\ ExterTypes /\ CmdTypes /\ DummyInv /\ DummyQueuedOnce
      /\ port \in [Units -> Seq(Ports)]
  BY DEF IInv, Types, HandlerTypes
<1> USE DEF DummyInv, DummyQueuedOnce
<1>1. ASSUME ExterActs PROVE DummyInv' /\ DummyQueuedOnce'
  <2>1. exter'.dummy = None /\ UNCHANGED <<cmds_acked, cmds_complete>>
    BY <1>0, <1>1 DEF ExterActs, ExterTypes, ExterRecord, cmds
  <2>2. \A u \in Units : exter'.dummy # <<u>>
    BY <2>1 DEF None
  <2>3. CASE exter.dummy = None
    BY <1>0, <1>1, <2>1, <2>2, <2>3 DEF ExterActs
  <2>4. ASSUME NEW v \in Units, exter.dummy = <<v>> PROVE DummyInv' /\ DummyQueuedOnce'
    <3>1. port' = [port EXCEPT ![v] = Append(port[v], Dummy)]
      BY <1>1, <2>4 DEF ExterActs, None
    <3>2. Dummy \in Ports /\ Dummy.dummy
      BY DEF Dummy, Ports
    <3>3. \A i \in DOMAIN port[v] : ~ port[v][i].dummy
      BY <1>0, <2>4
    <3>4. \A i \in DOMAIN port'[v] : port'[v][i].dummy => i = Len(port[v]) + 1
      BY <1>0, <3>1, <3>2, <3>3, AppendPositions
    <3>5. \A u \in Units : u # v => port'[u] = port[u]
      BY <1>0, <3>1
    <3> QED
      BY <1>0, <2>1, <2>2, <2>4, <3>4, <3>5
  <2> QED
    BY <1>0, <2>3, <2>4 DEF ExterTypes
<1>2. ASSUME HelperUnit PROVE DummyInv' /\ DummyQueuedOnce'
  <2>1. PICK v \in Units : /\ NeedsMessage(v)
                           /\ cmds_acked' = [cmds_acked EXCEPT ![v] = cmds_sent[v]]
                           /\ exter' = [exter EXCEPT !.at = "act", !.dummy = <<v>>]
    BY <1>2 DEF HelperUnit
  <2>2. exter'.dummy = <<v>> /\ exter.dummy = None
    BY <1>0, <1>2, <2>1 DEF HelperUnit, ExterTypes, ExterRecord
  <2>3. UNCHANGED <<port, cmds_complete>>
    BY <1>2 DEF HelperUnit, handler
  <2>4. \A i \in DOMAIN port[v] : ~ port[v][i].dummy
    BY <1>0, <2>1 DEF NeedsMessage
  <2>5. cmds_acked'[v] # cmds_complete[v] /\ \A u \in Units : u # v => cmds_acked'[u] = cmds_acked[u]
    BY <1>0, <2>1 DEF NeedsMessage, CmdTypes
  <2>6. \A u \in Units : <<v>> = <<u>> => u = v
    OBVIOUS
  <2> QED
    BY <1>0, <2>2, <2>3, <2>4, <2>5, <2>6
<1>3. ASSUME NEW p \in Packets, SendPacket(p) PROVE DummyInv' /\ DummyQueuedOnce'
  <2>1. UnitOf[p] \in Units /\ Packet(p) \in Ports /\ ~ Packet(p).dummy
    BY ExterAssumption DEF Packet, Ports
  <2>2. /\ port' = [port EXCEPT ![UnitOf[p]] = Append(port[UnitOf[p]], Packet(p))]
        /\ UNCHANGED <<exter, cmds_acked, cmds_complete>>
    BY <1>3 DEF SendPacket, extvars, cmds
  <2>3. \A u \in Units : \A i \in DOMAIN port'[u] :
          port'[u][i].dummy => i \in DOMAIN port[u] /\ port[u][i].dummy
    <3> TAKE u \in Units
    <3>1. CASE u = UnitOf[p]
      BY <1>0, <2>1, <2>2, <3>1, AppendPositions
    <3>2. CASE u # UnitOf[p]
      BY <1>0, <2>1, <2>2, <3>2
    <3> QED
      BY <3>1, <3>2
  <2> QED
    BY <1>0, <2>2, <2>3
<1>4. ASSUME NEW v \in Units, HandlerPacket(v) \/ HandlerRefuses(v) \/ HandlerDummy(v)
      PROVE  DummyInv' /\ DummyQueuedOnce'
  <2>1. /\ port[v] # <<>> /\ port' = [port EXCEPT ![v] = Tail(port[v])]
        /\ UNCHANGED <<exter, cmds_acked>>
    BY <1>0, <1>4 DEF HandlerPacket, HandlerRefuses, HandlerDummy, extvars, cmds
  <2>2. \A i \in DOMAIN port'[v] : i \in Nat /\ i > 0 /\ i + 1 \in DOMAIN port[v] /\ port'[v][i] = port[v][i + 1]
    BY <1>0, <2>1, TailPositions
  <2>3. \A u \in Units : u # v => port'[u] = port[u]
    BY <1>0, <2>1
  <2>4. DummyQueuedOnce'
    BY <1>0, <2>1, <2>2, <2>3
  <2>5. CASE HandlerPacket(v) \/ HandlerRefuses(v)
    <3>1. UNCHANGED cmds_complete
      BY <2>5 DEF HandlerPacket, HandlerRefuses, cmds
    <3> QED
      BY <1>0, <2>1, <2>2, <2>3, <2>4, <3>1
  <2>6. CASE HandlerDummy(v)
    <3>1. port[v][1].dummy /\ 1 \in DOMAIN port[v]
      BY <1>0, <2>6, TailPositions DEF HandlerDummy
    <3>2. exter.dummy # <<v>> /\ \A i \in DOMAIN port'[v] : ~ port'[v][i].dummy
      BY <1>0, <2>2, <3>1
    <3>3. \A u \in Units : u # v => cmds_complete'[u] = cmds_complete[u]
      BY <1>0, <2>6 DEF HandlerDummy, CmdTypes
    <3> QED
      BY <1>0, <2>1, <2>3, <2>4, <3>2, <3>3
  <2> QED
    BY <1>4, <2>5, <2>6
<1>5. ASSUME ResetEnd PROVE DummyInv' /\ DummyQueuedOnce'
  <2>1. exter'.dummy = None
    BY <1>0, <1>5 DEF ResetEnd, ExterTypes, ExterRecord
  <2>2. \A u \in Units : exter'.dummy # <<u>> /\ port'[u] = <<>>
    BY <1>5, <2>1 DEF ResetEnd, None
  <2> QED
    BY <2>2
<1>6. CASE ~ ( \/ ExterActs \/ HelperUnit \/ ResetEnd \/ \E p \in Packets : SendPacket(p)
               \/ \E u \in Units : HandlerPacket(u) \/ HandlerRefuses(u) \/ HandlerDummy(u) )
  <2>1. exter'.dummy = exter.dummy /\ UNCHANGED <<port, cmds_acked, cmds_complete>>
    BY <1>6, DummyFrame
  <2> QED
    BY <1>0, <2>1
<1> QED
  BY <1>1, <1>2, <1>3, <1>4, <1>5, <1>6
-----------------------------------------------------------------------------
(* One reply. *)
LEMMA IntreqStep == ASSUME IInv, [Next]_vars PROVE intreq' \in BOOLEAN
<1>0. intreq \in BOOLEAN
  BY DEF IInv, Types
<1>1. CASE \/ \E s \in Senders : RequestInt(s)
           \/ InterruptServer \/ HelperBusy \/ Vsync \/ ResetEnd
           \/ \E u \in Units : ThreadRequest(u)
  BY <1>1, Zenon DEF RequestInt, InterruptServer, HelperBusy, Vsync, ResetEnd, ThreadRequest
<1>2. CASE ~ (\/ \E s \in Senders : RequestInt(s)
              \/ InterruptServer \/ HelperBusy \/ Vsync \/ ResetEnd
              \/ \E u \in Units : ThreadRequest(u))
  <2>1. intreq' = intreq
    BY <1>2 DEF Next, SenderStep, ExterStep, HandlerStep, ThreadStep,
      NativeSemWait, PipeFull, WriteItem, ExterWakes, HelperEnter, HelperCommand,
      HelperArgument, ExterActs, HelperUnit, HelperEnd, SendPacket, HandlerPacket,
      HandlerRefuses, HandlerDummy, HandlerScan, ThreadRead, ThreadCount, ThreadMark, ResetBegin, vars
  <2> QED
    BY <1>0, <2>1, Zenon
<1> QED
  BY <1>1, <1>2

(* The steps that move or mark a packet. *)
MovesPacket ==
  \/ ExterActs
  \/ \E p \in Packets : SendPacket(p)
  \/ \E u \in Units : HandlerPacket(u)
  \/ \E u \in Units : HandlerRefuses(u)
  \/ \E u \in Units : HandlerDummy(u)
  \/ \E u \in Units : HandlerScan(u)
  \/ \E u \in Units : ThreadRead(u)
  \/ \E u \in Units : ThreadMark(u)
  \/ ResetEnd
PacketInv == PortInv /\ ListInv /\ StartedInv /\ RepliedOnce

LEMMA PacketFrame ==
  ASSUME IInv, [Next]_vars, ~ MovesPacket
  PROVE  /\ UNCHANGED <<port, queue, unit_pipe, mark, replied>>
         /\ \A u \in Units : thread'[u].at \in {"count", "mark"} =>
              thread[u].at \in {"count", "mark"} /\ thread'[u].packet = thread[u].packet
<1>0. thread \in [Units -> [at : {"read", "count", "mark", "request"},
                            packet : {None} \cup {<<p>> : p \in Packets}]]
  BY DEF IInv, Types, HandlerTypes
<1>1. CASE \E u \in Units : ThreadCount(u)
  BY <1>0, <1>1 DEF ThreadCount, handler
<1>2. CASE \E u \in Units : ThreadRequest(u)
  BY <1>0, <1>2 DEF ThreadRequest, NoPacket, handler
<1>3. CASE HelperUnit
  BY <1>3 DEF HelperUnit, handler
<1>4. CASE ~ ChangesHandler
  BY <1>4, HandlerFrame
<1> QED
  BY <1>1, <1>2, <1>3, <1>4 DEF MovesPacket, ChangesHandler

(* The packet at the head of a port. *)
LEMMA HeadPacket ==
  ASSUME IInv, NEW u \in Units, HandlerPacket(u) \/ HandlerRefuses(u)
  PROVE  \E p \in Packets :
           /\ UnitOf[p] = u /\ mark[p] = "sent"
           /\ Head(port[u]) = port[u][1] /\ 1 \in DOMAIN port[u]
           /\ ~ port[u][1].dummy /\ port[u][1].packet = p /\ Head(port[u]).packet = p
<1>0. port \in [Units -> Seq(Ports)] /\ PortInv
  BY DEF IInv, Types, HandlerTypes
<1>1. port[u] # <<>> /\ ~ Head(port[u]).dummy
  BY DEF HandlerPacket, HandlerRefuses
<1>2. Head(port[u]) = port[u][1] /\ 1 \in DOMAIN port[u]
  BY <1>0, <1>1, TailPositions
<1>3. Head(port[u]) \in Ports
  BY <1>0, <1>1
<1>4. port[u][1].packet \in Packets
  BY <1>1, <1>2, <1>3 DEF Ports
<1>5. UnitOf[port[u][1].packet] = u /\ mark[port[u][1].packet] = "sent"
  BY <1>0, <1>1, <1>2 DEF PortInv
<1> QED
  BY <1>1, <1>2, <1>4, <1>5

LEMMA PortStep == ASSUME IInv, [Next]_vars PROVE PortInv'
<1>0. /\ port \in [Units -> Seq(Ports)]
      /\ mark \in [Packets -> {"new", "sent", "unstarted", "started", "finished", "gone"}]
      /\ PortInv
  BY DEF IInv, Types, HandlerTypes
<1>p. \A u \in Units : \A i \in DOMAIN port[u] : ~ port[u][i].dummy => port[u][i].packet \in Packets
  <2> TAKE u \in Units
  <2>1. port[u] \in Seq(Ports)
    BY <1>0
  <2>2. \A i \in DOMAIN port[u] : port[u][i] \in Ports
    BY <2>1, ElementOfSeq, LenProperties
  <2> QED
    BY <2>2 DEF Ports
<1>1. ASSUME ExterActs PROVE PortInv'
  <2>1. UNCHANGED mark
    BY <1>1 DEF ExterActs
  <2>2. CASE port' = port
    BY <1>0, <2>1, <2>2 DEF PortInv
  <2>3. ASSUME NEW v \in Units, exter.dummy = <<v>> PROVE PortInv'
    <3>1. port' = [port EXCEPT ![v] = Append(port[v], Dummy)]
      BY <1>1, <2>3 DEF ExterActs, None
    <3>2. Dummy \in Ports /\ Dummy.dummy
      BY DEF Dummy, Ports
    <3>3. \A i \in DOMAIN port'[v] : ~ port'[v][i].dummy => i \in DOMAIN port[v] /\ port'[v][i] = port[v][i]
      BY <1>0, <3>1, <3>2, AppendPositions
    <3>4. \A u \in Units : u # v => port'[u] = port[u]
      BY <1>0, <3>1
    <3> QED
      BY <1>0, <2>1, <3>3, <3>4 DEF PortInv
  <2> QED
    BY <1>1, <2>2, <2>3 DEF ExterActs, IInv, Types, ExterTypes
<1>2. ASSUME NEW p \in Packets, SendPacket(p) PROVE PortInv'
  <2> DEFINE v == UnitOf[p]
  <2>1. v \in Units /\ Packet(p) \in Ports /\ ~ Packet(p).dummy /\ Packet(p).packet = p
    BY ExterAssumption DEF Packet, Ports
  <2>2. /\ port' = [port EXCEPT ![v] = Append(port[v], Packet(p))]
        /\ mark[p] = "new" /\ mark' = [mark EXCEPT ![p] = "sent"]
    BY <1>2 DEF SendPacket
  <2>3. \A u \in Units : \A i \in DOMAIN port[u] : ~ port[u][i].dummy => port[u][i].packet # p
    BY <1>0, <2>2 DEF PortInv
  <2>4. \A i \in DOMAIN port'[v] : \/ i \in DOMAIN port[v] /\ port'[v][i] = port[v][i]
                                   \/ i = Len(port[v]) + 1 /\ port'[v][i] = Packet(p)
    BY <1>0, <2>1, <2>2, AppendPositions
  <2>5. \A u \in Units : u # v => port'[u] = port[u]
    BY <1>0, <2>1, <2>2
  <2>6. mark'[p] = "sent" /\ \A x \in Packets : x # p /\ mark[x] = "sent" => mark'[x] = "sent"
    BY <1>0, <2>2
  <2>7. UnitOf[p] = v
    OBVIOUS
  <2> HIDE DEF v
  <2>8. \A i \in DOMAIN port'[v] : ~ port'[v][i].dummy =>
          \/ i \in DOMAIN port[v] /\ port'[v][i] = port[v][i] /\ port'[v][i].packet # p
          \/ i = Len(port[v]) + 1 /\ port'[v][i].packet = p
    BY <2>1, <2>3, <2>4
  <2>9. \A i \in DOMAIN port'[v] : ~ port'[v][i].dummy =>
          /\ UnitOf[port'[v][i].packet] = v /\ mark'[port'[v][i].packet] = "sent"
          /\ \A j \in DOMAIN port'[v] :
               ~ port'[v][j].dummy /\ port'[v][j].packet = port'[v][i].packet => i = j
    <3>1. ASSUME NEW i \in DOMAIN port'[v], ~ port'[v][i].dummy
          PROVE  UnitOf[port'[v][i].packet] = v /\ mark'[port'[v][i].packet] = "sent"
      <4>1. CASE port'[v][i].packet = p
        BY <2>6, <2>7, <4>1
      <4>2. CASE i \in DOMAIN port[v] /\ port'[v][i] = port[v][i] /\ port'[v][i].packet # p
        <5>1. /\ port[v][i].packet \in Packets /\ port[v][i].packet # p
              /\ UnitOf[port[v][i].packet] = v /\ mark[port[v][i].packet] = "sent"
          BY <1>0, <1>p, <2>1, <3>1, <4>2 DEF PortInv
        <5> QED
          BY <2>6, <4>2, <5>1
      <4> QED
        BY <2>8, <3>1, <4>1, <4>2
    <3>2. ASSUME NEW i \in DOMAIN port'[v], ~ port'[v][i].dummy, NEW j \in DOMAIN port'[v],
                 ~ port'[v][j].dummy, port'[v][j].packet = port'[v][i].packet
          PROVE  i = j
      <4>1. CASE port'[v][i].packet = p
        BY <2>8, <3>2, <4>1
      <4>2. CASE port'[v][i].packet # p
        <5>1. /\ i \in DOMAIN port[v] /\ port'[v][i] = port[v][i]
              /\ j \in DOMAIN port[v] /\ port'[v][j] = port[v][j]
          BY <2>8, <3>2, <4>2
        <5> QED
          BY <1>0, <2>1, <3>2, <5>1 DEF PortInv
      <4> QED
        BY <4>1, <4>2
    <3> QED
      BY <3>1, <3>2
  <2>10. \A u \in Units : u # v => \A i \in DOMAIN port'[u] : ~ port'[u][i].dummy =>
          /\ UnitOf[port'[u][i].packet] = u /\ mark'[port'[u][i].packet] = "sent"
          /\ \A j \in DOMAIN port'[u] :
               ~ port'[u][j].dummy /\ port'[u][j].packet = port'[u][i].packet => i = j
    BY <1>0, <1>p, <2>3, <2>5, <2>6 DEF PortInv
  <2> QED
    BY <2>9, <2>10 DEF PortInv
<1>3. ASSUME NEW v \in Units, HandlerPacket(v) \/ HandlerRefuses(v) PROVE PortInv'
  <2>1. PICK p \in Packets :
           /\ UnitOf[p] = v /\ mark[p] = "sent" /\ 1 \in DOMAIN port[v]
           /\ ~ port[v][1].dummy /\ port[v][1].packet = p /\ Head(port[v]).packet = p
    BY <1>3, HeadPacket
  <2>2. port[v] # <<>> /\ port' = [port EXCEPT ![v] = Tail(port[v])]
    BY <1>3 DEF HandlerPacket, HandlerRefuses
  <2>3. \A x \in Packets : x # p => mark'[x] = mark[x]
    BY <1>0, <1>3, <2>1 DEF HandlerPacket, HandlerRefuses
  <2>4. \A i \in DOMAIN port'[v] : i \in Nat /\ i > 0 /\ i + 1 \in DOMAIN port[v] /\ port'[v][i] = port[v][i + 1]
    BY <1>0, <2>2, TailPositions
  <2>5. \A u \in Units : u # v => port'[u] = port[u]
    BY <1>0, <2>2
  <2>6. \A i \in DOMAIN port'[v] : ~ port'[v][i].dummy => port'[v][i].packet # p
    BY <1>0, <2>1, <2>4 DEF PortInv
  <2>7. \A u \in Units : u # v => \A i \in DOMAIN port[u] : ~ port[u][i].dummy => port[u][i].packet # p
    BY <1>0, <2>1 DEF PortInv
  <2>8. \A i \in DOMAIN port'[v] : ~ port'[v][i].dummy =>
          /\ UnitOf[port'[v][i].packet] = v /\ mark'[port'[v][i].packet] = "sent"
          /\ \A j \in DOMAIN port'[v] :
               ~ port'[v][j].dummy /\ port'[v][j].packet = port'[v][i].packet => i = j
    BY <1>0, <1>p, <2>3, <2>4, <2>6 DEF PortInv
  <2>9. \A u \in Units : u # v => \A i \in DOMAIN port'[u] : ~ port'[u][i].dummy =>
          /\ UnitOf[port'[u][i].packet] = u /\ mark'[port'[u][i].packet] = "sent"
          /\ \A j \in DOMAIN port'[u] :
               ~ port'[u][j].dummy /\ port'[u][j].packet = port'[u][i].packet => i = j
    BY <1>0, <1>p, <2>3, <2>5, <2>7 DEF PortInv
  <2> QED
    BY <2>8, <2>9 DEF PortInv
<1>4. ASSUME NEW v \in Units, HandlerDummy(v) PROVE PortInv'
  <2>1. port[v] # <<>> /\ port' = [port EXCEPT ![v] = Tail(port[v])] /\ UNCHANGED mark
    BY <1>4 DEF HandlerDummy
  <2>2. \A i \in DOMAIN port'[v] : i \in Nat /\ i > 0 /\ i + 1 \in DOMAIN port[v] /\ port'[v][i] = port[v][i + 1]
    BY <1>0, <2>1, TailPositions
  <2>3. \A u \in Units : u # v => port'[u] = port[u]
    BY <1>0, <2>1
  <2> QED
    BY <1>0, <2>1, <2>2, <2>3 DEF PortInv
<1>5. CASE \E u \in Units : HandlerScan(u) \/ ThreadRead(u)
  <2>1. UNCHANGED <<port, mark>>
    BY <1>5 DEF HandlerScan, ThreadRead
  <2> QED
    BY <1>0, <2>1 DEF PortInv
<1>6. ASSUME NEW v \in Units, ThreadMark(v) PROVE PortInv'
  <2>1. PICK p \in Packets : thread[v].packet = <<p>> /\ mark[p] \in {"started", "finished"}
    BY <1>6 DEF ThreadMark, IInv, StartedInv
  <2>2. UNCHANGED port /\ mark' = [mark EXCEPT ![p] = "finished"]
    BY <1>6, <2>1 DEF ThreadMark
  <2>3. \A x \in Packets : mark[x] = "sent" => mark'[x] = "sent"
    BY <1>0, <2>1, <2>2
  <2> QED
    BY <1>0, <1>p, <2>2, <2>3 DEF PortInv
<1>7. CASE ResetEnd
  <2>1. \A u \in Units : port'[u] = <<>>
    BY <1>7 DEF ResetEnd
  <2> QED
    BY <2>1 DEF PortInv
<1>8. CASE ~ MovesPacket
  <2>1. UNCHANGED <<port, mark>>
    BY <1>8, PacketFrame
  <2> QED
    BY <1>0, <2>1 DEF PortInv
<1> QED
  BY <1>1, <1>2, <1>3, <1>4, <1>5, <1>6, <1>7, <1>8 DEF MovesPacket

(* What the steps do to the marks. *)
LEMMA MarkStep ==
  ASSUME IInv, [Next]_vars, ~ ResetEnd, NEW p \in Packets
  PROVE  /\ mark[p] = "finished" => mark'[p] = "finished"
         /\ mark[p] = "started" => mark'[p] \in {"started", "finished"}
         /\ mark[p] = "unstarted" => mark'[p] = "unstarted"
<1>0. mark \in [Packets -> {"new", "sent", "unstarted", "started", "finished", "gone"}]
  BY DEF IInv, Types, HandlerTypes
<1>1. ASSUME NEW q \in Packets, SendPacket(q)
      PROVE  mark[q] = "new" /\ mark' = [mark EXCEPT ![q] = "sent"]
  BY <1>1 DEF SendPacket
<1>2. ASSUME NEW u \in Units, HandlerPacket(u) \/ HandlerRefuses(u)
      PROVE  \E q \in Packets : /\ mark[q] = "sent"
                                /\ \/ mark' = [mark EXCEPT ![q] = "started"]
                                   \/ mark' = [mark EXCEPT ![q] = "unstarted"]
                                   \/ mark' = [mark EXCEPT ![q] = "finished"]
  <2>1. PICK q \in Packets : mark[q] = "sent" /\ Head(port[u]).packet = q
    BY <1>2, HeadPacket
  <2> QED
    BY <1>2, <2>1 DEF HandlerPacket, HandlerRefuses
<1>3. ASSUME NEW u \in Units, ThreadMark(u)
      PROVE  \E q \in Packets : /\ mark[q] \in {"started", "finished"}
                                /\ mark' = [mark EXCEPT ![q] = "finished"]
  <2>1. PICK q \in Packets : thread[u].packet = <<q>> /\ mark[q] \in {"started", "finished"}
    BY <1>3 DEF ThreadMark, IInv, StartedInv
  <2>2. mark' = [mark EXCEPT ![q] = "finished"]
    BY <1>3, <2>1 DEF ThreadMark
  <2> QED
    BY <2>1, <2>2
<1>4. CASE ~ (\/ \E q \in Packets : SendPacket(q)
              \/ \E u \in Units : HandlerPacket(u) \/ HandlerRefuses(u) \/ ThreadMark(u))
  <2>1. mark' = mark
    <3>1. CASE ExterActs
      BY <3>1 DEF ExterActs
    <3>2. CASE \E u \in Units : HandlerDummy(u) \/ HandlerScan(u) \/ ThreadRead(u)
      BY <3>2 DEF HandlerDummy, HandlerScan, ThreadRead
    <3>3. CASE ~ MovesPacket
      BY <3>3, PacketFrame
    <3> QED
      BY <1>4, <3>1, <3>2, <3>3 DEF MovesPacket
  <2> QED
    BY <2>1
<1> QED
  BY <1>0, <1>1, <1>2, <1>3, <1>4

LEMMA ListStep == ASSUME IInv, [Next]_vars PROVE ListInv' /\ RepliedOnce'
<1>0. /\ queue \in [Units -> SUBSET Packets] /\ replied \in [Packets -> Nat]
      /\ mark \in [Packets -> {"new", "sent", "unstarted", "started", "finished", "gone"}]
      /\ ListInv /\ RepliedOnce
  BY DEF IInv, Types, HandlerTypes
<1>1. ASSUME NEW u \in Units, HandlerPacket(u) PROVE ListInv' /\ RepliedOnce'
  <2>1. PICK p \in Packets : UnitOf[p] = u /\ mark[p] = "sent" /\ Head(port[u]).packet = p
    BY <1>1, HeadPacket
  <2>2. /\ replied' = replied /\ queue' = [queue EXCEPT ![u] = queue[u] \cup {p}]
        /\ \/ mark' = [mark EXCEPT ![p] = "started"]
           \/ mark' = [mark EXCEPT ![p] = "unstarted"]
    BY <1>1, <2>1 DEF HandlerPacket
  <2>3. replied[p] = 0
    BY <1>0, <2>1 DEF RepliedOnce
  <2>4. mark'[p] \in {"unstarted", "started"} /\ \A x \in Packets : x # p => mark'[x] = mark[x]
    BY <1>0, <2>2
  <2>5. ListInv'
    BY <1>0, <2>1, <2>2, <2>3, <2>4 DEF ListInv
  <2>6. RepliedOnce'
    BY <1>0, <2>2, <2>3, <2>4 DEF RepliedOnce
  <2> QED
    BY <2>5, <2>6
<1>2. ASSUME NEW u \in Units, HandlerScan(u) PROVE ListInv' /\ RepliedOnce'
  <2>1. /\ mark' = mark /\ queue' = [queue EXCEPT ![u] = queue[u] \ Finished(u)]
        /\ replied' = [p \in Packets |-> replied[p] + (IF p \in Finished(u) THEN 1 ELSE 0)]
    BY <1>2 DEF HandlerScan
  <2>2. \A p \in Finished(u) : p \in queue[u] /\ UnitOf[p] = u /\ replied[p] = 0 /\ mark[p] = "finished"
    BY <1>0 DEF Finished, ListInv
  <2> DEFINE more(p) == IF p \in Finished(u) THEN 1 ELSE 0
  <2>3. \A p \in Packets : replied'[p] = replied[p] + more(p)
    BY <2>1
  <2>4. \A p \in Packets : p \notin Finished(u) => replied'[p] = replied[p]
    BY <1>0, <2>3
  <2>5. \A p \in Packets : p \in Finished(u) => replied'[p] = 1
    BY <2>2, <2>3
  <2>6. RepliedOnce'
    BY <1>0, <2>1, <2>2, <2>4, <2>5 DEF RepliedOnce
  <2>7. \A v \in Units : \A p \in queue'[v] : p \in queue[v] /\ p \notin Finished(u)
    BY <1>0, <2>1, <2>2 DEF ListInv
  <2>8. ListInv'
    BY <1>0, <2>1, <2>4, <2>7 DEF ListInv
  <2> QED
    BY <2>6, <2>8
<1>3. CASE ResetEnd
  <2>1. \A u \in Units : queue'[u] = {}
    BY <1>3 DEF ResetEnd
  <2>2. \A p \in Packets : replied'[p] = 0
    BY <1>3 DEF ResetEnd
  <2> QED
    BY <2>1, <2>2 DEF ListInv, RepliedOnce
<1>4. CASE ~ (ResetEnd \/ \E u \in Units : HandlerPacket(u) \/ HandlerRefuses(u) \/ HandlerScan(u))
  <2>5. queue' = queue /\ replied' = replied
    <3>1. CASE ExterActs
      BY <3>1 DEF ExterActs
    <3>2. CASE \E p \in Packets : SendPacket(p)
      BY <3>2 DEF SendPacket
    <3>3. CASE \E u \in Units : HandlerDummy(u) \/ ThreadRead(u) \/ ThreadMark(u)
      BY <3>3 DEF HandlerDummy, ThreadRead, ThreadMark
    <3>4. CASE ~ MovesPacket
      BY <3>4, PacketFrame
    <3> QED
      BY <1>4, <3>1, <3>2, <3>3, <3>4 DEF MovesPacket
  <2>6. \A p \in Packets : /\ mark[p] = "finished" => mark'[p] = "finished"
                           /\ mark[p] = "started" => mark'[p] \in {"started", "finished"}
                           /\ mark[p] = "unstarted" => mark'[p] = "unstarted"
    BY <1>4, MarkStep
  <2> QED
    BY <1>0, <2>5, <2>6 DEF ListInv, RepliedOnce
<1>5. ASSUME NEW u \in Units, HandlerRefuses(u) PROVE ListInv' /\ RepliedOnce'
  <2>1. PICK p \in Packets : UnitOf[p] = u /\ mark[p] = "sent" /\ Head(port[u]).packet = p
    BY <1>5, HeadPacket
  <2>2. /\ queue' = queue /\ mark' = [mark EXCEPT ![p] = "finished"]
        /\ replied' = [replied EXCEPT ![p] = replied[p] + 1]
    BY <1>5, <2>1 DEF HandlerRefuses
  <2>3. replied[p] = 0 /\ \A v \in Units : p \notin queue[v]
    BY <1>0, <2>1 DEF RepliedOnce, ListInv
  <2>4. /\ mark'[p] = "finished" /\ replied'[p] = 1
        /\ \A x \in Packets : x # p => mark'[x] = mark[x] /\ replied'[x] = replied[x]
    BY <1>0, <2>2, <2>3
  <2>5. ListInv'
    BY <1>0, <2>2, <2>3, <2>4 DEF ListInv
  <2>6. RepliedOnce'
    BY <1>0, <2>4 DEF RepliedOnce
  <2> QED
    BY <2>5, <2>6
<1> QED
  BY <1>1, <1>2, <1>3, <1>4, <1>5

LEMMA StartedStep == ASSUME IInv, [Next]_vars PROVE StartedInv'
<1> DEFINE Live(x) == x \in Packets /\ mark[x] \in {"started", "finished"}
           LiveNext(x) == x \in Packets /\ mark'[x] \in {"started", "finished"}
<1>0. /\ unit_pipe \in [Units -> Seq(Packets)] /\ StartedInv
      /\ thread \in [Units -> [at : {"read", "count", "mark", "request"},
                               packet : {None} \cup {<<p>> : p \in Packets}]]
      /\ mark \in [Packets -> {"new", "sent", "unstarted", "started", "finished", "gone"}]
  BY DEF IInv, Types, HandlerTypes
<1>p. \A u \in Units : \A i \in DOMAIN unit_pipe[u] : Live(unit_pipe[u][i])
  <2> TAKE u \in Units
  <2>1. unit_pipe[u] \in Seq(Packets)
    BY <1>0
  <2> QED
    BY <1>0, <2>1, ElementOfSeq, LenProperties DEF StartedInv
<1>t. \A u \in Units : thread[u].at \in {"count", "mark"} => \E p \in Packets : thread[u].packet = <<p>> /\ Live(p)
  BY <1>0 DEF StartedInv
<1>m. ASSUME ~ ResetEnd, NEW x, Live(x) PROVE LiveNext(x)
  BY <1>m, MarkStep
<1>q. ASSUME \A u \in Units : \A i \in DOMAIN unit_pipe'[u] : LiveNext(unit_pipe'[u][i]),
             \A u \in Units : thread'[u].at \in {"count", "mark"} =>
               \E p \in Packets : thread'[u].packet = <<p>> /\ LiveNext(p)
      PROVE  StartedInv'
  BY <1>q DEF StartedInv
<1> HIDE DEF Live, LiveNext
<1>1. ASSUME NEW v \in Units, HandlerPacket(v), ~ ResetEnd PROVE StartedInv'
  <2>1. PICK p \in Packets : mark[p] = "sent" /\ Head(port[v]).packet = p
    BY <1>1, HeadPacket
  <2>2. thread' = thread
    BY <1>1 DEF HandlerPacket
  <2>3. CASE unit_pipe' = unit_pipe
    BY <1>p, <1>t, <1>m, <1>q, <1>1, <2>2, <2>3
  <2>4. CASE /\ mark' = [mark EXCEPT ![p] = "started"]
             /\ unit_pipe' = [unit_pipe EXCEPT ![v] = Append(unit_pipe[v], p)]
    <3>1. LiveNext(p)
      BY <1>0, <2>4 DEF LiveNext
    <3>2. \A i \in DOMAIN unit_pipe'[v] :
             \/ i \in DOMAIN unit_pipe[v] /\ unit_pipe'[v][i] = unit_pipe[v][i]
             \/ unit_pipe'[v][i] = p
      BY <1>0, <2>4, AppendPositions
    <3>3. \A u \in Units : u # v => unit_pipe'[u] = unit_pipe[u]
      BY <1>0, <2>4
    <3> QED
      BY <1>p, <1>t, <1>m, <1>q, <1>1, <2>2, <3>1, <3>2, <3>3
  <2> QED
    BY <1>1, <2>1, <2>3, <2>4 DEF HandlerPacket
<1>2. ASSUME NEW v \in Units, ThreadRead(v), ~ ResetEnd PROVE StartedInv'
  <2>1. /\ unit_pipe[v] # <<>> /\ unit_pipe' = [unit_pipe EXCEPT ![v] = Tail(unit_pipe[v])]
        /\ thread' = [thread EXCEPT ![v] = [at |-> "count", packet |-> <<Head(unit_pipe[v])>>]]
    BY <1>2 DEF ThreadRead
  <2>2. Live(Head(unit_pipe[v])) /\ Head(unit_pipe[v]) \in Packets
    BY <1>0, <1>p, <2>1, TailPositions DEF Live
  <2>3. /\ thread'[v].packet = <<Head(unit_pipe[v])>>
        /\ \A u \in Units : u # v => thread'[u] = thread[u]
    BY <1>0, <2>1
  <2>4. \A i \in DOMAIN unit_pipe'[v] : Live(unit_pipe'[v][i])
    BY <1>0, <1>p, <2>1, TailPositions
  <2>5. \A u \in Units : u # v => unit_pipe'[u] = unit_pipe[u]
    BY <1>0, <2>1
  <2> QED
    BY <1>p, <1>t, <1>m, <1>q, <1>2, <2>2, <2>3, <2>4, <2>5
<1>3. CASE ResetEnd
  <2>1. \A u \in Units : unit_pipe'[u] = <<>> /\ thread'[u].at = "read"
    BY <1>3 DEF ResetEnd
  <2> QED
    BY <2>1 DEF StartedInv
<1>4. CASE ~ (ResetEnd \/ \E u \in Units : HandlerPacket(u) \/ ThreadRead(u))
  <2>1. unit_pipe' = unit_pipe
    <3>1. CASE ExterActs
      BY <3>1 DEF ExterActs
    <3>2. CASE \E p \in Packets : SendPacket(p)
      BY <3>2 DEF SendPacket
    <3>3. CASE \E u \in Units : HandlerRefuses(u) \/ HandlerDummy(u) \/ HandlerScan(u) \/ ThreadMark(u)
      BY <3>3 DEF HandlerRefuses, HandlerDummy, HandlerScan, ThreadMark
    <3>4. CASE ~ MovesPacket
      BY <3>4, PacketFrame
    <3> QED
      BY <1>4, <3>1, <3>2, <3>3, <3>4 DEF MovesPacket
  <2>2. \A u \in Units : thread'[u].at \in {"count", "mark"} =>
          thread[u].at \in {"count", "mark"} /\ thread'[u].packet = thread[u].packet
    <3>1. CASE ExterActs
      BY <3>1 DEF ExterActs
    <3>2. CASE \E p \in Packets : SendPacket(p)
      BY <3>2 DEF SendPacket
    <3>3. CASE \E u \in Units : HandlerRefuses(u) \/ HandlerDummy(u) \/ HandlerScan(u)
      BY <3>3 DEF HandlerRefuses, HandlerDummy, HandlerScan
    <3>4. CASE \E u \in Units : ThreadMark(u)
      BY <1>0, <3>4 DEF ThreadMark
    <3>5. CASE ~ MovesPacket
      BY <3>5, PacketFrame
    <3> QED
      BY <1>4, <3>1, <3>2, <3>3, <3>4, <3>5 DEF MovesPacket
  <2> QED
    BY <1>p, <1>t, <1>m, <1>q, <1>4, <2>1, <2>2
<1> QED
  BY <1>1, <1>2, <1>3, <1>4

-----------------------------------------------------------------------------
LEMMA Step == ASSUME IInv, [Next]_vars PROVE IInv'
<1>1. Types'
  BY SenderStepTypes, PipeStep, ExterTypeStep, CmdStep, HandlerStepTypes, IntreqStep, Zenon DEF Types
<1> QED
  BY <1>1, HolderStep, DummyStep, PortStep, ListStep, StartedStep, Zenon DEF IInv

LEMMA Inductive == Spec => []IInv
  BY Initial, Step, PTL DEF Spec

LEMMA Implied == ASSUME IInv PROVE TypeOK
<1>1. n2asem \in 0 .. Installs
  <2>1. IsFiniteSet(Holders) /\ HolderInv
    BY ExterAssumption, FS_Subset DEF IInv, Holders
  <2>2. Cardinality(Holders) \in Nat
    BY <2>1, FS_CardinalityType
  <2> QED
    BY <2>1, <2>2, ExterAssumption DEF HolderInv
<1>2. /\ int_sem \in 0 .. 1 /\ unit_no \in 0 .. MaxUnits
      /\ exter.at \in {"wait", "call10", "scan", "args", "act"}
  BY DEF IInv, Types, ExterTypes
<1>3. /\ sender \in [Senders -> [at : {"idle", "write", "full", "request", "forgotten"},
                             seq : 0 .. MaxMsgs, len : 0 .. 4, part : 0 .. 5]]
      /\ Len(pending) <= PipeCap
  BY DEF IInv, Types, SenderTypes, SenderRecord, PipeTypes
<1>4. \A u \in Units : /\ thread[u].at \in {"read", "count", "mark", "request"}
                       /\ cmds_complete[u] <= cmds_acked[u] /\ cmds_acked[u] <= cmds_sent[u]
  BY DEF IInv, Types, HandlerTypes, CmdTypes
<1>5. /\ mark \in [Packets -> {"new", "sent", "unstarted", "started", "finished", "gone"}]
      /\ scanning \subseteq Units /\ early \subseteq Units
  BY DEF IInv, Types, HandlerTypes
<1>6. intreq \in BOOLEAN
  BY Zenon DEF IInv, Types
<1> QED
  BY <1>1, <1>2, <1>3, <1>4, <1>5, <1>6, Zenon DEF TypeOK

(* The state keeps its types, for any senders, units and packets: n2asem   *)
(* and the counters of a unit stay in order through every interleaving of  *)
(* senders, 68k tasks, unit threads and resets.                            *)
THEOREM TypeCorrect == Spec => []TypeOK
  BY Inductive, Implied, PTL

(* A unit's only dummy message is never put on a port while it is there:   *)
(* exter_int_helper (filesys.cpp) acks a count again only after the        *)
(* handler task has taken the message and set cmds_complete.               *)
THEOREM DummyQueuedOnceAlways == Spec => []DummyQueuedOnce
<1>1. IInv => DummyQueuedOnce
  BY DEF IInv
<1> QED
  BY <1>1, Inductive, PTL

(* No packet is replied to twice, or before it is finished.                *)
THEOREM RepliedOnceAlways == Spec => []RepliedOnce
<1>1. IInv => RepliedOnce
  BY DEF IInv
<1> QED
  BY <1>1, Inductive, PTL

-----------------------------------------------------------------------------
(* Nothing is lost.  What makes a unit's handler look at its list:         *)
HasDummy(u) == \E i \in DOMAIN port[u] : port[u][i].dummy
(* its dummy message is on its way, or was taken from the port ...         *)
Ahead(u) == exter.dummy = <<u>> \/ HasDummy(u)
ScanComes(u) == u \in scanning \/ Ahead(u)
(* ... or the helper is going to find that the unit needs one.             *)
Called == intreq \/ exter.signal \/ exter.at = "call10"
Coming(u) ==
  \/ thread[u].at = "request" \/ Called
  \/ exter.at \in {"scan", "args", "act"} /\ unit_no <= u
AckComes(u) == NeedsMessage(u) /\ Coming(u)
Looks(u) == u \in early \/ ScanComes(u) \/ AckComes(u)

(* Where a packet is. *)
OnPort(p) == \E i \in DOMAIN port[UnitOf[p]] : ~ port[UnitOf[p]][i].dummy /\ port[UnitOf[p]][i].packet = p
InPipe(p) == \E i \in DOMAIN unit_pipe[UnitOf[p]] : unit_pipe[UnitOf[p]][i] = p
WithThread(p) == thread[UnitOf[p]].at \in {"count", "mark"} /\ thread[UnitOf[p]].packet = <<p>>

UnitInv ==
  /\ \A u \in Units : \A i \in DOMAIN unit_pipe[u] : UnitOf[unit_pipe[u][i]] = u
  /\ \A u \in Units : \A p \in Packets :
       thread[u].at \in {"count", "mark"} /\ thread[u].packet = <<p>> => UnitOf[p] = u
PlaceInv ==
  \A p \in Packets :
    /\ mark[p] = "sent" => OnPort(p)
    /\ mark[p] \in {"unstarted", "started"} => p \in queue[UnitOf[p]]
    /\ mark[p] = "started" => InPipe(p) \/ WithThread(p)
    /\ mark[p] = "finished" => p \in queue[UnitOf[p]] \/ replied[p] = 1
(* The counts: a unit whose acked count is ahead has its dummy message     *)
(* under way; a packet that is counted but not marked is still to be acked.*)
CountInv ==
  \A u \in Units :
    /\ cmds_acked[u] # cmds_complete[u] => Ahead(u)
    /\ thread[u].at = "mark" => u \in early \/ cmds_acked[u] # cmds_sent[u]
FinishedInv == \A u \in Units : Finished(u) # {} => Looks(u)
ServedInv == UnitInv /\ PlaceInv /\ CountInv /\ FinishedInv

(* A packet that a process sent and that no reset took is on its port, in  *)
(* the unit's pipe, with its thread, unstarted, or replied to; or it is    *)
(* finished, and its handler is going to look at its list.                 *)
NothingForgotten ==
  \A p \in Packets : mark[p] \notin {"new", "unstarted", "gone"} =>
    \/ OnPort(p) \/ InPipe(p) \/ WithThread(p) \/ replied[p] = 1
    \/ mark[p] = "finished" /\ p \in queue[UnitOf[p]] /\ Looks(UnitOf[p])

-----------------------------------------------------------------------------
(* Positions that stay when a sequence loses its head or grows.            *)
LEMMA TailKeeps ==
  ASSUME NEW S, NEW q \in Seq(S), q # <<>>, NEW i \in DOMAIN q, i # 1
  PROVE  i - 1 \in DOMAIN Tail(q) /\ Tail(q)[i - 1] = q[i]
<1>1. Tail(q) \in Seq(S) /\ Len(Tail(q)) = Len(q) - 1
      /\ \A k \in 1 .. Len(Tail(q)) : Tail(q)[k] = q[k + 1]
  BY HeadTailProperties
<1>2. DOMAIN q = 1 .. Len(q) /\ Len(q) \in Nat /\ Len(q) > 0
  BY LenProperties, EmptySeq
<1>3. DOMAIN Tail(q) = 1 .. Len(q) - 1
  BY <1>1, LenProperties
<1>4. i - 1 \in 1 .. Len(q) - 1 /\ (i - 1) + 1 = i
  BY <1>2
<1> QED
  BY <1>1, <1>3, <1>4

LEMMA AppendKeeps ==
  ASSUME NEW S, NEW q \in Seq(S), NEW e \in S
  PROVE  /\ \A i \in DOMAIN q : i \in DOMAIN Append(q, e) /\ Append(q, e)[i] = q[i]
         /\ Len(q) + 1 \in DOMAIN Append(q, e) /\ Append(q, e)[Len(q) + 1] = e
<1>1. /\ Append(q, e) \in Seq(S) /\ Len(Append(q, e)) = Len(q) + 1
      /\ \A i \in 1 .. Len(q) : Append(q, e)[i] = q[i]
      /\ Append(q, e)[Len(q) + 1] = e
  BY AppendProperties
<1>2. DOMAIN q = 1 .. Len(q) /\ Len(q) \in Nat /\ DOMAIN Append(q, e) = 1 .. Len(q) + 1
  BY <1>1, LenProperties
<1> QED
  BY <1>1, <1>2

-----------------------------------------------------------------------------
LEMMA ServedInit == ASSUME Init PROVE ServedInv
  BY DEF Init, ServedInv, UnitInv, PlaceInv, CountInv, FinishedInv, Finished, NoPacket, None

LEMMA UnitStep == ASSUME IInv, UnitInv, [Next]_vars PROVE UnitInv'
<1>0. /\ unit_pipe \in [Units -> Seq(Packets)] /\ UnitInv
      /\ thread \in [Units -> [at : {"read", "count", "mark", "request"},
                               packet : {None} \cup {<<p>> : p \in Packets}]]
  BY DEF IInv, Types, HandlerTypes
<1>1. ASSUME NEW v \in Units, HandlerPacket(v) PROVE UnitInv'
  <2>1. PICK p \in Packets : UnitOf[p] = v /\ Head(port[v]).packet = p
    BY <1>1, HeadPacket
  <2>2. thread' = thread
    BY <1>1 DEF HandlerPacket
  <2>3. CASE unit_pipe' = unit_pipe
    BY <1>0, <2>2, <2>3 DEF UnitInv
  <2>4. CASE unit_pipe' = [unit_pipe EXCEPT ![v] = Append(unit_pipe[v], p)]
    <3>1. \A i \in DOMAIN unit_pipe'[v] :
             \/ i \in DOMAIN unit_pipe[v] /\ unit_pipe'[v][i] = unit_pipe[v][i]
             \/ unit_pipe'[v][i] = p
      BY <1>0, <2>4, AppendPositions
    <3>2. \A u \in Units : u # v => unit_pipe'[u] = unit_pipe[u]
      BY <1>0, <2>4
    <3>3. \A i \in DOMAIN unit_pipe'[v] : UnitOf[unit_pipe'[v][i]] = v
      BY <1>0, <2>1, <3>1 DEF UnitInv
    <3> QED
      BY <1>0, <2>2, <3>2, <3>3 DEF UnitInv
  <2> QED
    BY <1>1, <2>1, <2>3, <2>4 DEF HandlerPacket
<1>2. ASSUME NEW v \in Units, ThreadRead(v) PROVE UnitInv'
  <2>1. /\ unit_pipe[v] # <<>> /\ unit_pipe' = [unit_pipe EXCEPT ![v] = Tail(unit_pipe[v])]
        /\ thread' = [thread EXCEPT ![v] = [at |-> "count", packet |-> <<Head(unit_pipe[v])>>]]
    BY <1>2 DEF ThreadRead
  <2>2. UnitOf[Head(unit_pipe[v])] = v
    BY <1>0, <2>1, TailPositions DEF UnitInv
  <2>3. /\ thread'[v].packet = <<Head(unit_pipe[v])>>
        /\ \A u \in Units : u # v => thread'[u] = thread[u]
    BY <1>0, <2>1
  <2>4. \A i \in DOMAIN unit_pipe'[v] : UnitOf[unit_pipe'[v][i]] = v
    BY <1>0, <2>1, TailPositions DEF UnitInv
  <2>5. \A u \in Units : u # v => unit_pipe'[u] = unit_pipe[u]
    BY <1>0, <2>1
  <2>6. \A p : <<Head(unit_pipe[v])>> = <<p>> => Head(unit_pipe[v]) = p
    OBVIOUS
  <2> QED
    BY <1>0, <2>2, <2>3, <2>4, <2>5, <2>6 DEF UnitInv
<1>3. CASE ResetEnd
  <2>1. \A u \in Units : unit_pipe'[u] = <<>> /\ thread'[u].at = "read"
    BY <1>3 DEF ResetEnd
  <2> QED
    BY <2>1 DEF UnitInv
<1>4. CASE ~ (ResetEnd \/ \E u \in Units : HandlerPacket(u) \/ ThreadRead(u))
  <2>1. /\ unit_pipe' = unit_pipe
        /\ \A u \in Units : thread'[u].at \in {"count", "mark"} =>
             thread[u].at \in {"count", "mark"} /\ thread'[u].packet = thread[u].packet
    <3>1. CASE ExterActs
      BY <3>1 DEF ExterActs
    <3>2. CASE \E p \in Packets : SendPacket(p)
      BY <3>2 DEF SendPacket
    <3>3. CASE \E u \in Units : HandlerRefuses(u) \/ HandlerDummy(u) \/ HandlerScan(u)
      BY <3>3 DEF HandlerRefuses, HandlerDummy, HandlerScan
    <3>4. CASE \E u \in Units : ThreadMark(u)
      BY <1>0, <3>4 DEF ThreadMark
    <3>5. CASE ~ MovesPacket
      BY <3>5, PacketFrame
    <3> QED
      BY <1>4, <3>1, <3>2, <3>3, <3>4, <3>5 DEF MovesPacket
  <2> QED
    BY <1>0, <2>1 DEF UnitInv
<1> QED
  BY <1>1, <1>2, <1>3, <1>4

(* A port keeps its other messages. *)
LEMMA OnPortGrows ==
  ASSUME IInv, NEW v \in Units, NEW e \in Ports, port' = [port EXCEPT ![v] = Append(port[v], e)],
         NEW p \in Packets
  PROVE  /\ OnPort(p) => OnPort(p)'
         /\ ~ e.dummy /\ e.packet = p /\ UnitOf[p] = v => OnPort(p)'
         /\ \A u \in Units : HasDummy(u) => HasDummy(u)'
         /\ e.dummy => HasDummy(v)'
<1>0. port \in [Units -> Seq(Ports)] /\ UnitOf[p] \in Units
  BY ExterAssumption DEF IInv, Types, HandlerTypes
<1>1. /\ \A i \in DOMAIN port[v] : i \in DOMAIN port'[v] /\ port'[v][i] = port[v][i]
      /\ Len(port[v]) + 1 \in DOMAIN port'[v] /\ port'[v][Len(port[v]) + 1] = e
  BY <1>0, AppendKeeps
<1>2. \A u \in Units : u # v => port'[u] = port[u]
  BY <1>0
<1>3. \A u \in Units : \A i \in DOMAIN port[u] : i \in DOMAIN port'[u] /\ port'[u][i] = port[u][i]
  BY <1>1, <1>2
<1> QED
  BY <1>0, <1>1, <1>3 DEF OnPort, HasDummy

LEMMA OnPortShrinks ==
  ASSUME IInv, NEW v \in Units, port[v] # <<>>, port' = [port EXCEPT ![v] = Tail(port[v])],
         NEW p \in Packets
  PROVE  /\ OnPort(p) => OnPort(p)' \/ (~ Head(port[v]).dummy /\ Head(port[v]).packet = p)
         /\ \A u \in Units : HasDummy(u) => HasDummy(u)' \/ (u = v /\ Head(port[v]).dummy)
<1>0. port \in [Units -> Seq(Ports)] /\ UnitOf[p] \in Units
  BY ExterAssumption DEF IInv, Types, HandlerTypes
<1>1. \A i \in DOMAIN port[v] : i # 1 => i - 1 \in DOMAIN port'[v] /\ port'[v][i - 1] = port[v][i]
  BY <1>0, TailKeeps
<1>2. Head(port[v]) = port[v][1]
  BY <1>0, TailPositions
<1>3. \A u \in Units : u # v => port'[u] = port[u]
  BY <1>0
<1>4. \A u \in Units : \A i \in DOMAIN port[u] :
        (u = v /\ i = 1) \/ \E k \in DOMAIN port'[u] : port'[u][k] = port[u][i]
  BY <1>1, <1>3
<1> QED
  BY <1>0, <1>2, <1>4 DEF OnPort, HasDummy

(* Units and threads that a step leaves alone. *)
LEMMA ThreadFrame ==
  ASSUME IInv, [Next]_vars, ~ ResetEnd, NEW u \in Units,
         ~ ThreadStep(u)
  PROVE  thread'[u] = thread[u]
<1>0. thread \in [Units -> [at : {"read", "count", "mark", "request"},
                            packet : {None} \cup {<<p>> : p \in Packets}]]
  BY DEF IInv, Types, HandlerTypes
<1>1. ASSUME NEW v \in Units, ThreadStep(v) PROVE thread'[u] = thread[u]
  BY <1>0, <1>1 DEF ThreadStep, ThreadRead, ThreadCount, ThreadMark, ThreadRequest
<1>2. CASE \E v \in Units : HandlerStep(v)
  BY <1>2 DEF HandlerStep, HandlerPacket, HandlerRefuses, HandlerDummy, HandlerScan
<1>3. CASE ExterActs \/ HelperUnit \/ \E p \in Packets : SendPacket(p)
  BY <1>3 DEF ExterActs, HelperUnit, SendPacket
<1>4. CASE ~ ChangesHandler
  BY <1>4, HandlerFrame
<1> QED
  BY <1>1, <1>2, <1>3, <1>4 DEF ChangesHandler, ThreadStep, HandlerStep

(* The place of one packet. *)
PlaceOf(p) ==
  /\ mark[p] = "sent" => OnPort(p)
  /\ mark[p] \in {"unstarted", "started"} => p \in queue[UnitOf[p]]
  /\ mark[p] = "started" => InPipe(p) \/ WithThread(p)
  /\ mark[p] = "finished" => p \in queue[UnitOf[p]] \/ replied[p] = 1

LEMMA PlaceStep == ASSUME IInv, UnitInv, PlaceInv, [Next]_vars PROVE PlaceInv'
<1>0. /\ queue \in [Units -> SUBSET Packets] /\ unit_pipe \in [Units -> Seq(Packets)]
      /\ port \in [Units -> Seq(Ports)] /\ replied \in [Packets -> Nat]
      /\ thread \in [Units -> [at : {"read", "count", "mark", "request"},
                               packet : {None} \cup {<<p>> : p \in Packets}]]
      /\ mark \in [Packets -> {"new", "sent", "unstarted", "started", "finished", "gone"}]
      /\ UnitOf \in [Packets -> Units]
  BY ExterAssumption DEF IInv, Types, HandlerTypes
<1> SUFFICES ASSUME NEW p \in Packets PROVE PlaceOf(p)'
  BY DEF PlaceInv, PlaceOf
<1>p. PlaceOf(p)
  BY DEF PlaceInv, PlaceOf
<1>1. CASE ExterActs
  <2>1. UNCHANGED <<queue, unit_pipe, thread, mark, replied>>
    BY <1>1 DEF ExterActs
  <2>2. OnPort(p) => OnPort(p)'
    <3>1. CASE port' = port
      BY <3>1 DEF OnPort
    <3>2. ASSUME NEW v \in Units, exter.dummy = <<v>> PROVE OnPort(p) => OnPort(p)'
      <4>1. port' = [port EXCEPT ![v] = Append(port[v], Dummy)]
        BY <1>1, <3>2 DEF ExterActs, None
      <4>2. Dummy \in Ports
        BY DEF Dummy, Ports
      <4> QED
        BY <4>1, <4>2, OnPortGrows
    <3> QED
      BY <1>1, <3>1, <3>2 DEF ExterActs, IInv, Types, ExterTypes
  <2> QED
    BY <1>p, <2>1, <2>2 DEF PlaceOf, InPipe, WithThread
<1>2. ASSUME NEW q \in Packets, SendPacket(q) PROVE PlaceOf(p)'
  <2>1. Packet(q) \in Ports /\ ~ Packet(q).dummy /\ Packet(q).packet = q /\ UnitOf[q] \in Units
    BY <1>0 DEF Packet, Ports
  <2>2. /\ port' = [port EXCEPT ![UnitOf[q]] = Append(port[UnitOf[q]], Packet(q))]
        /\ mark' = [mark EXCEPT ![q] = "sent"]
        /\ UNCHANGED <<queue, unit_pipe, replied, thread>>
    BY <1>2 DEF SendPacket
  <2>3. (OnPort(p) => OnPort(p)') /\ (p = q => OnPort(p)')
    BY <2>1, <2>2, OnPortGrows
  <2>4. CASE p = q
    BY <1>0, <2>2, <2>3, <2>4 DEF PlaceOf
  <2>5. CASE p # q
    <3>1. mark'[p] = mark[p]
      BY <1>0, <2>2, <2>5
    <3> QED
      BY <1>p, <2>2, <2>3, <3>1 DEF PlaceOf, InPipe, WithThread
  <2> QED
    BY <2>4, <2>5
<1>3. ASSUME NEW v \in Units, HandlerPacket(v) PROVE PlaceOf(p)'
  <2>1. PICK q \in Packets : /\ UnitOf[q] = v /\ mark[q] = "sent"
                             /\ ~ Head(port[v]).dummy /\ Head(port[v]).packet = q
    BY <1>3, HeadPacket
  <2>2. /\ port[v] # <<>> /\ port' = [port EXCEPT ![v] = Tail(port[v])]
        /\ queue' = [queue EXCEPT ![v] = queue[v] \cup {q}]
        /\ UNCHANGED <<replied, thread>>
    BY <1>3, <2>1 DEF HandlerPacket
  <2>3. \/ mark' = [mark EXCEPT ![q] = "unstarted"] /\ unit_pipe' = unit_pipe
        \/ /\ mark' = [mark EXCEPT ![q] = "started"]
           /\ unit_pipe' = [unit_pipe EXCEPT ![v] = Append(unit_pipe[v], q)]
    BY <1>3, <2>1 DEF HandlerPacket
  <2>4. q \in queue'[v] /\ \A u \in Units : queue[u] \subseteq queue'[u]
    BY <1>0, <2>2
  <2>5. (InPipe(p) => InPipe(p)') /\ (p = q => mark'[p] = "unstarted" \/ InPipe(p)')
    <3>1. CASE mark' = [mark EXCEPT ![q] = "unstarted"] /\ unit_pipe' = unit_pipe
      BY <1>0, <3>1 DEF InPipe
    <3>2. CASE unit_pipe' = [unit_pipe EXCEPT ![v] = Append(unit_pipe[v], q)]
      <4>1. /\ \A i \in DOMAIN unit_pipe[v] : i \in DOMAIN unit_pipe'[v] /\ unit_pipe'[v][i] = unit_pipe[v][i]
            /\ Len(unit_pipe[v]) + 1 \in DOMAIN unit_pipe'[v] /\ unit_pipe'[v][Len(unit_pipe[v]) + 1] = q
        BY <1>0, <3>2, AppendKeeps
      <4>2. \A u \in Units : u # v => unit_pipe'[u] = unit_pipe[u]
        BY <1>0, <3>2
      <4> QED
        BY <1>0, <2>1, <4>1, <4>2 DEF InPipe
    <3> QED
      BY <2>3, <3>1, <3>2
  <2>6. CASE p = q
    <3>1. mark'[p] \in {"unstarted", "started"}
      BY <1>0, <2>3, <2>6
    <3> QED
      BY <2>1, <2>4, <2>5, <2>6, <3>1 DEF PlaceOf
  <2>7. CASE p # q
    <3>1. mark'[p] = mark[p]
      BY <1>0, <2>3, <2>7
    <3>2. OnPort(p) => OnPort(p)'
      BY <2>1, <2>2, <2>7, OnPortShrinks
    <3>3. WithThread(p)' = WithThread(p) /\ replied'[p] = replied[p] /\ UnitOf[p] \in Units
      BY <1>0, <2>2 DEF WithThread
    <3> QED
      BY <1>p, <2>4, <2>5, <3>1, <3>2, <3>3 DEF PlaceOf
  <2> QED
    BY <2>6, <2>7
<1>4. ASSUME NEW v \in Units, HandlerDummy(v) PROVE PlaceOf(p)'
  <2>1. /\ port[v] # <<>> /\ Head(port[v]).dummy /\ port' = [port EXCEPT ![v] = Tail(port[v])]
        /\ UNCHANGED <<queue, unit_pipe, thread, mark, replied>>
    BY <1>4 DEF HandlerDummy
  <2>2. OnPort(p) => OnPort(p)'
    BY <2>1, OnPortShrinks
  <2> QED
    BY <1>p, <2>1, <2>2 DEF PlaceOf, InPipe, WithThread
<1>5. ASSUME NEW v \in Units, HandlerScan(v) PROVE PlaceOf(p)'
  <2>1. /\ queue' = [queue EXCEPT ![v] = queue[v] \ Finished(v)]
        /\ replied' = [x \in Packets |-> replied[x] + (IF x \in Finished(v) THEN 1 ELSE 0)]
        /\ UNCHANGED <<port, unit_pipe, mark, thread>>
    BY <1>5 DEF HandlerScan
  <2>2. CASE p \in Finished(v)
    <3>1. replied[p] = 0 /\ mark[p] = "finished"
      BY <2>2 DEF Finished, IInv, ListInv
    <3>2. replied'[p] = 1 /\ mark'[p] = "finished"
      BY <2>1, <2>2, <3>1
    <3> QED
      BY <3>2 DEF PlaceOf
  <2>3. CASE p \notin Finished(v)
    <3>1. replied'[p] = replied[p]
      BY <1>0, <2>1, <2>3
    <3>2. p \in queue[UnitOf[p]] => p \in queue'[UnitOf[p]]
      BY <1>0, <2>1, <2>3
    <3> QED
      BY <1>p, <2>1, <3>1, <3>2 DEF PlaceOf, OnPort, InPipe, WithThread
  <2> QED
    BY <2>2, <2>3
<1>6. ASSUME NEW v \in Units, ThreadRead(v) PROVE PlaceOf(p)'
  <2>1. /\ thread[v].at = "read" /\ unit_pipe[v] # <<>>
        /\ unit_pipe' = [unit_pipe EXCEPT ![v] = Tail(unit_pipe[v])]
        /\ thread' = [thread EXCEPT ![v] = [at |-> "count", packet |-> <<Head(unit_pipe[v])>>]]
        /\ UNCHANGED <<port, queue, mark, replied>>
    BY <1>6 DEF ThreadRead
  <2>2. /\ Head(unit_pipe[v]) = unit_pipe[v][1]
        /\ \A i \in DOMAIN unit_pipe[v] : i # 1 => i - 1 \in DOMAIN unit_pipe'[v] /\ unit_pipe'[v][i - 1] = unit_pipe[v][i]
    BY <1>0, <2>1, TailPositions, TailKeeps
  <2>3. \A u \in Units : u # v => unit_pipe'[u] = unit_pipe[u] /\ thread'[u] = thread[u]
    BY <1>0, <2>1
  <2>4. thread'[v].at = "count" /\ thread'[v].packet = <<Head(unit_pipe[v])>>
    BY <1>0, <2>1
  <2>5. InPipe(p) => InPipe(p)' \/ WithThread(p)'
    <3> SUFFICES ASSUME InPipe(p) PROVE InPipe(p)' \/ WithThread(p)'
      OBVIOUS
    <3>1. PICK i \in DOMAIN unit_pipe[UnitOf[p]] : unit_pipe[UnitOf[p]][i] = p
      BY DEF InPipe
    <3>2. CASE UnitOf[p] # v
      BY <1>0, <2>3, <3>1, <3>2 DEF InPipe
    <3>3. CASE UnitOf[p] = v /\ i = 1
      BY <2>2, <2>4, <3>1, <3>3 DEF WithThread
    <3>4. CASE UnitOf[p] = v /\ i # 1
      BY <2>2, <3>1, <3>4 DEF InPipe
    <3> QED
      BY <3>2, <3>3, <3>4
  <2>6. WithThread(p) => WithThread(p)'
    BY <1>0, <2>1, <2>3 DEF WithThread
  <2> QED
    BY <1>p, <2>1, <2>5, <2>6 DEF PlaceOf, OnPort
<1>7. ASSUME NEW v \in Units, ThreadMark(v) PROVE PlaceOf(p)'
  <2>1. PICK q \in Packets : thread[v].packet = <<q>> /\ mark[q] \in {"started", "finished"}
    BY <1>7 DEF ThreadMark, IInv, StartedInv
  <2>2. /\ mark' = [mark EXCEPT ![q] = "finished"] /\ thread' = [thread EXCEPT ![v].at = "request"]
        /\ UNCHANGED <<port, queue, unit_pipe, replied>>
    BY <1>7, <2>1 DEF ThreadMark
  <2>3. CASE p = q
    <3>1. p \in queue[UnitOf[p]] \/ replied[p] = 1
      BY <1>p, <2>1, <2>3 DEF PlaceOf
    <3>2. mark'[p] = "finished"
      BY <1>0, <2>2, <2>3
    <3> QED
      BY <2>2, <3>1, <3>2 DEF PlaceOf
  <2>4. CASE p # q
    <3>1. mark'[p] = mark[p]
      BY <1>0, <2>2, <2>4
    <3>2. WithThread(p) => UnitOf[p] # v
      BY <2>1, <2>4 DEF WithThread
    <3>3. WithThread(p) => WithThread(p)'
      BY <1>0, <2>2, <3>2 DEF WithThread
    <3> QED
      BY <1>p, <2>2, <3>1, <3>3 DEF PlaceOf, OnPort, InPipe
  <2> QED
    BY <2>3, <2>4
<1>8. CASE ResetEnd
  <2>1. mark'[p] \in {"new", "gone"}
    BY <1>8 DEF ResetEnd
  <2> QED
    BY <2>1 DEF PlaceOf
<1>9. CASE ~ MovesPacket
  <2>1. UNCHANGED <<port, queue, unit_pipe, mark, replied>>
    BY <1>9, PacketFrame
  <2>2. WithThread(p) => WithThread(p)'
    <3>1. CASE \E u \in Units : ThreadCount(u)
      BY <1>0, <3>1 DEF ThreadCount, WithThread
    <3>2. CASE \E u \in Units : ThreadRequest(u)
      BY <1>0, <3>2 DEF ThreadRequest, WithThread
    <3>3. CASE ~ \E u \in Units : ThreadStep(u)
      <4>1. thread'[UnitOf[p]] = thread[UnitOf[p]]
        BY <1>0, <1>9, <3>3, ThreadFrame DEF MovesPacket
      <4> QED
        BY <4>1 DEF WithThread
    <3> QED
      BY <1>9, <3>1, <3>2, <3>3 DEF MovesPacket, ThreadStep
  <2> QED
    BY <1>p, <2>1, <2>2 DEF PlaceOf, OnPort, InPipe
<1>10. ASSUME NEW v \in Units, HandlerRefuses(v) PROVE PlaceOf(p)'
  <2>1. PICK q \in Packets : /\ UnitOf[q] = v /\ mark[q] = "sent"
                             /\ ~ Head(port[v]).dummy /\ Head(port[v]).packet = q
    BY <1>10, HeadPacket
  <2>2. /\ port[v] # <<>> /\ port' = [port EXCEPT ![v] = Tail(port[v])]
        /\ mark' = [mark EXCEPT ![q] = "finished"]
        /\ replied' = [replied EXCEPT ![q] = replied[q] + 1]
        /\ UNCHANGED <<queue, unit_pipe, thread>>
    BY <1>10, <2>1 DEF HandlerRefuses
  <2>3. CASE p = q
    <3>1. replied[q] = 0
      BY <1>0, <2>1 DEF IInv, RepliedOnce
    <3>2. mark'[p] = "finished" /\ replied'[p] = 1
      BY <1>0, <2>2, <2>3, <3>1
    <3> QED
      BY <3>2 DEF PlaceOf
  <2>4. CASE p # q
    <3>1. mark'[p] = mark[p] /\ replied'[p] = replied[p]
      BY <1>0, <2>2, <2>4
    <3>2. OnPort(p) => OnPort(p)'
      BY <2>1, <2>2, <2>4, OnPortShrinks
    <3> QED
      BY <1>p, <2>2, <3>1, <3>2 DEF PlaceOf, InPipe, WithThread
  <2> QED
    BY <2>3, <2>4
<1> QED
  BY <1>1, <1>2, <1>3, <1>4, <1>5, <1>6, <1>7, <1>8, <1>9, <1>10 DEF MovesPacket

-----------------------------------------------------------------------------
(* A dummy message stays on its way until the handler has taken it.        *)
LEMMA AheadStep ==
  ASSUME IInv, [Next]_vars, ~ ResetEnd, NEW u \in Units, Ahead(u)
  PROVE  Ahead(u)' \/ HandlerDummy(u)
<1>0. port \in [Units -> Seq(Ports)] /\ ExterTypes
  BY DEF IInv, Types, HandlerTypes
<1>1. CASE ExterActs
  <2>1. CASE exter.dummy = None
    <3>1. port' = port /\ exter.dummy # <<u>>
      BY <1>1, <2>1 DEF ExterActs, None
    <3> QED
      BY <3>1 DEF Ahead, HasDummy
  <2>2. ASSUME NEW v \in Units, exter.dummy = <<v>> PROVE Ahead(u)'
    <3>1. port' = [port EXCEPT ![v] = Append(port[v], Dummy)]
      BY <1>1, <2>2 DEF ExterActs, None
    <3>2. Dummy \in Ports /\ Dummy.dummy
      BY DEF Dummy, Ports
    <3>3. CASE u = v
      <4>1. Len(port[v]) + 1 \in DOMAIN port'[v] /\ port'[v][Len(port[v]) + 1] = Dummy
        BY <1>0, <3>1, <3>2, AppendKeeps
      <4> QED
        BY <3>2, <3>3, <4>1 DEF Ahead, HasDummy
    <3>4. CASE u # v
      <4>1. port'[u] = port[u] /\ exter.dummy # <<u>>
        BY <1>0, <2>2, <3>1, <3>4
      <4> QED
        BY <4>1 DEF Ahead, HasDummy
    <3> QED
      BY <3>3, <3>4
  <2> QED
    BY <1>0, <2>1, <2>2 DEF ExterTypes
<1>2. CASE HelperUnit
  <2>1. port' = port /\ exter.dummy = None
    BY <1>0, <1>2 DEF HelperUnit, ExterTypes, handler
  <2> QED
    BY <2>1 DEF Ahead, HasDummy, None
<1>3. ASSUME NEW p \in Packets, SendPacket(p) PROVE Ahead(u)'
  <2>1. UnitOf[p] \in Units /\ Packet(p) \in Ports
    BY ExterAssumption DEF Packet, Ports
  <2>2. /\ port' = [port EXCEPT ![UnitOf[p]] = Append(port[UnitOf[p]], Packet(p))]
        /\ UNCHANGED exter
    BY <1>3 DEF SendPacket, extvars
  <2>3. HasDummy(u) => HasDummy(u)'
    BY <2>1, <2>2, OnPortGrows
  <2> QED
    BY <2>2, <2>3 DEF Ahead
<1>4. ASSUME NEW v \in Units, HandlerPacket(v) \/ HandlerRefuses(v) PROVE Ahead(u)'
  <2>1. /\ port[v] # <<>> /\ port' = [port EXCEPT ![v] = Tail(port[v])] /\ UNCHANGED exter
        /\ ~ Head(port[v]).dummy
    BY <1>4 DEF HandlerPacket, HandlerRefuses, extvars
  <2>2. PICK p \in Packets : Head(port[v]).packet = p
    BY <1>4, HeadPacket
  <2>3. HasDummy(u) => HasDummy(u)'
    BY <2>1, <2>2, OnPortShrinks
  <2> QED
    BY <2>1, <2>3 DEF Ahead
<1>5. ASSUME NEW v \in Units, HandlerDummy(v), u # v PROVE Ahead(u)'
  <2>1. port'[u] = port[u] /\ UNCHANGED exter
    BY <1>0, <1>5 DEF HandlerDummy, extvars
  <2> QED
    BY <2>1 DEF Ahead, HasDummy
<1>6. CASE ~ ( \/ ExterActs \/ HelperUnit \/ \E p \in Packets : SendPacket(p)
               \/ \E v \in Units : HandlerPacket(v) \/ HandlerRefuses(v) \/ HandlerDummy(v) )
  <2>1. exter'.dummy = exter.dummy /\ UNCHANGED port
    BY <1>6, DummyFrame
  <2> QED
    BY <2>1 DEF Ahead, HasDummy
<1> QED
  BY <1>1, <1>2, <1>3, <1>4, <1>5, <1>6

LEMMA CountInvStep == ASSUME IInv, CountInv, [Next]_vars PROVE CountInv'
<1>0. /\ CmdTypes /\ early \subseteq Units
      /\ thread \in [Units -> [at : {"read", "count", "mark", "request"},
                               packet : {None} \cup {<<p>> : p \in Packets}]]
  BY DEF IInv, Types, HandlerTypes
<1> SUFFICES ASSUME NEW u \in Units
    PROVE /\ cmds_acked'[u] # cmds_complete'[u] => Ahead(u)'
          /\ thread'[u].at = "mark" => u \in early' \/ cmds_acked'[u] # cmds_sent'[u]
  BY DEF CountInv
<1>c. /\ cmds_acked[u] # cmds_complete[u] => Ahead(u)
      /\ thread[u].at = "mark" => u \in early \/ cmds_acked[u] # cmds_sent[u]
  BY DEF CountInv
<1>1. ASSUME NEW v \in Units, HelperUnit, NeedsMessage(v),
             cmds_acked' = [cmds_acked EXCEPT ![v] = cmds_sent[v]], exter'.dummy = <<v>>,
             early' = IF thread[v].at = "mark" THEN early \cup {v} ELSE early
      PROVE /\ cmds_acked'[u] # cmds_complete'[u] => Ahead(u)'
            /\ thread'[u].at = "mark" => u \in early' \/ cmds_acked'[u] # cmds_sent'[u]
  <2>1. UNCHANGED <<cmds_sent, cmds_complete, thread, port>>
    BY <1>1 DEF HelperUnit, handler
  <2>2. CASE u = v
    BY <1>1, <2>1, <2>2 DEF Ahead
  <2>3. CASE u # v
    <3>1. cmds_acked'[u] = cmds_acked[u]
      BY <1>0, <1>1, <2>3 DEF CmdTypes
    <3>2. exter.dummy # <<u>>
      <4>1. exter.at = "scan" /\ ExterTypes
        BY <1>1 DEF HelperUnit, IInv, Types
      <4>2. exter.dummy = None
        BY <4>1 DEF ExterTypes
      <4> QED
        BY <4>2 DEF None
    <3>3. Ahead(u) => Ahead(u)'
      BY <2>1, <3>2 DEF Ahead, HasDummy
    <3> QED
      BY <1>c, <1>1, <2>1, <3>1, <3>3
  <2> QED
    BY <2>2, <2>3
<1>2. CASE HelperUnit
  <2>1. PICK v \in Units : /\ NeedsMessage(v)
                           /\ cmds_acked' = [cmds_acked EXCEPT ![v] = cmds_sent[v]]
                           /\ exter' = [exter EXCEPT !.at = "act", !.dummy = <<v>>]
                           /\ early' = IF thread[v].at = "mark" THEN early \cup {v} ELSE early
    BY <1>2 DEF HelperUnit
  <2>2. exter'.dummy = <<v>>
    BY <2>1 DEF IInv, Types, ExterTypes, ExterRecord
  <2> QED
    BY <1>1, <1>2, <2>1, <2>2
<1>3. ASSUME NEW v \in Units, HandlerDummy(v), ~ ResetEnd
      PROVE /\ cmds_acked'[u] # cmds_complete'[u] => Ahead(u)'
            /\ thread'[u].at = "mark" => u \in early' \/ cmds_acked'[u] # cmds_sent'[u]
  <2>1. /\ cmds_complete' = [cmds_complete EXCEPT ![v] = cmds_acked[v]]
        /\ UNCHANGED <<cmds_sent, cmds_acked, thread, early>>
    BY <1>3 DEF HandlerDummy
  <2>2. CASE u = v
    <3>1. cmds_complete'[u] = cmds_acked'[u]
      BY <1>0, <2>1, <2>2 DEF CmdTypes
    <3> QED
      BY <1>c, <2>1, <3>1
  <2>3. CASE u # v
    <3>1. cmds_complete'[u] = cmds_complete[u]
      BY <1>0, <2>1, <2>3 DEF CmdTypes
    <3>2. Ahead(u) => Ahead(u)'
      <4>1. port'[u] = port[u] /\ exter' = exter
        BY <1>3, <2>3 DEF HandlerDummy, extvars, IInv, Types, HandlerTypes
      <4> QED
        BY <4>1 DEF Ahead, HasDummy
    <3> QED
      BY <1>c, <2>1, <3>1, <3>2
  <2> QED
    BY <2>2, <2>3
<1>4. ASSUME NEW v \in Units, ThreadCount(v)
      PROVE /\ cmds_acked'[u] # cmds_complete'[u] => Ahead(u)'
            /\ thread'[u].at = "mark" => u \in early' \/ cmds_acked'[u] # cmds_sent'[u]
  <2>1. /\ cmds_sent' = [cmds_sent EXCEPT ![v] = cmds_sent[v] + 1]
        /\ thread' = [thread EXCEPT ![v].at = "mark"]
        /\ UNCHANGED <<cmds_acked, cmds_complete, port, exter, early>>
    BY <1>4 DEF ThreadCount, handler, extvars
  <2>2. Ahead(u)' <=> Ahead(u)
    BY <2>1 DEF Ahead, HasDummy
  <2>3. CASE u = v
    <3>1. cmds_acked'[u] # cmds_sent'[u]
      BY <1>0, <2>1, <2>3 DEF CmdTypes
    <3> QED
      BY <1>c, <2>1, <2>2, <3>1
  <2>4. CASE u # v
    <3>1. cmds_sent'[u] = cmds_sent[u] /\ thread'[u] = thread[u]
      BY <1>0, <2>1, <2>4 DEF CmdTypes
    <3> QED
      BY <1>c, <2>1, <2>2, <3>1
  <2> QED
    BY <2>3, <2>4
<1>5. CASE ResetEnd
  <2>1. cmds_acked'[u] = cmds_complete'[u] /\ thread'[u].at = "read"
    BY <1>5 DEF ResetEnd
  <2> QED
    BY <2>1
<1>6. CASE ~ ChangesCmds
  <2>1. UNCHANGED <<cmds_sent, cmds_acked, cmds_complete>>
    BY <1>6, CmdFrame
  <2>2. ~ ResetEnd /\ ~ HandlerDummy(u) /\ ~ HelperUnit /\ ~ ThreadCount(u)
    BY <1>6 DEF ChangesCmds
  <2>3. Ahead(u) => Ahead(u)'
    BY <2>2, AheadStep
  <2>4. thread'[u].at = "mark" => thread[u].at = "mark"
    <3>1. CASE ThreadStep(u)
      BY <1>0, <2>2, <3>1 DEF ThreadStep, ThreadRead, ThreadMark, ThreadRequest, NoPacket
    <3>2. CASE ~ ThreadStep(u)
      BY <2>2, <3>2, ThreadFrame
    <3> QED
      BY <3>1, <3>2
  <2>5. u \in early => u \in early'
    <3>1. CASE \E v \in Units : HandlerStep(v) \/ ThreadStep(v)
      BY <3>1 DEF HandlerStep, HandlerPacket, HandlerRefuses, HandlerDummy, HandlerScan,
        ThreadStep, ThreadRead, ThreadCount, ThreadMark, ThreadRequest
    <3>2. CASE ExterActs \/ \E p \in Packets : SendPacket(p)
      BY <3>2 DEF ExterActs, SendPacket
    <3>3. CASE ~ ChangesHandler
      BY <3>3, HandlerFrame
    <3> QED
      BY <2>2, <3>1, <3>2, <3>3 DEF ChangesHandler, HandlerStep, ThreadStep
  <2> QED
    BY <1>c, <2>1, <2>3, <2>4, <2>5
<1>7. \A v \in Units : HandlerDummy(v) => ~ ResetEnd
  BY DEF HandlerDummy, ResetEnd, CpuFree
<1> QED
  BY <1>2, <1>3, <1>4, <1>5, <1>6, <1>7 DEF ChangesCmds

-----------------------------------------------------------------------------
(* A call of the helper is not forgotten: it becomes a scan of the units.  *)
LEMMA EarlyStep == ASSUME [Next]_vars, ~ ResetEnd PROVE early \subseteq early'
<1>1. CASE \E v \in Units : HandlerStep(v) \/ ThreadStep(v)
  BY <1>1 DEF HandlerStep, HandlerPacket, HandlerRefuses, HandlerDummy, HandlerScan,
    ThreadStep, ThreadRead, ThreadCount, ThreadMark, ThreadRequest
<1>2. CASE ExterActs \/ \E p \in Packets : SendPacket(p)
  BY <1>2 DEF ExterActs, SendPacket
<1>3. CASE HelperUnit
  BY <1>3 DEF HelperUnit
<1>4. CASE ~ ChangesHandler
  BY <1>4, HandlerFrame
<1> QED
  BY <1>1, <1>2, <1>3, <1>4 DEF ChangesHandler, HandlerStep, ThreadStep

LEMMA IntreqStays ==
  ASSUME [Next]_vars, ~ ResetEnd, ~ InterruptServer, intreq
  PROVE  intreq'
<1>1. CASE \/ \E s \in Senders : RequestInt(s)
           \/ HelperBusy \/ Vsync \/ \E u \in Units : ThreadRequest(u)
  BY <1>1, Zenon DEF RequestInt, HelperBusy, Vsync, ThreadRequest
<1>2. CASE ~ (\/ \E s \in Senders : RequestInt(s)
              \/ HelperBusy \/ Vsync \/ \E u \in Units : ThreadRequest(u))
  <2>1. intreq' = intreq
    BY <1>2 DEF Next, SenderStep, ExterStep, HandlerStep, ThreadStep,
      NativeSemWait, PipeFull, WriteItem, ExterWakes, HelperEnter, HelperCommand,
      HelperArgument, ExterActs, HelperUnit, HelperEnd, SendPacket, HandlerPacket,
      HandlerRefuses, HandlerDummy, HandlerScan, ThreadRead, ThreadCount, ThreadMark, ResetBegin, vars
  <2> QED
    BY <2>1, Zenon
<1> QED
  BY <1>1, <1>2

(* The steps of the helper, in the terms of Coming. *)
LEMMA ExterMoves ==
  ASSUME IInv, [Next]_vars, ~ ResetEnd, ~ HelperUnit, ~ HelperEnd
  PROVE  /\ InterruptServer => exter'.signal
         /\ exter.signal => exter'.signal \/ exter'.at = "call10"
         /\ exter.at = "call10" => \/ exter'.at = "call10" \/ intreq'
                                   \/ exter'.at = "scan" /\ unit_no' = 0
         /\ exter.at \in {"scan", "args", "act"} =>
              exter'.at \in {"scan", "args", "act"} /\ unit_no' = unit_no
<1>0. ExterRecord(exter)
  BY DEF IInv, Types, ExterTypes
<1>1. CASE InterruptServer
  BY <1>0, <1>1 DEF InterruptServer, ExterRecord
<1>2. CASE ExterWakes
  BY <1>0, <1>2 DEF ExterWakes, ExterRecord, InterruptServer
<1>3. CASE HelperBusy
  BY <1>0, <1>3 DEF HelperBusy, ExterRecord, InterruptServer
<1>4. CASE HelperEnter
  BY <1>0, <1>4 DEF HelperEnter, ExterRecord, InterruptServer
<1>5. CASE HelperCommand
  BY <1>0, <1>5 DEF HelperCommand, ExterRecord, InterruptServer
<1>6. CASE HelperArgument
  BY <1>0, <1>6 DEF HelperArgument, ExterRecord, InterruptServer
<1>7. CASE ExterActs
  BY <1>0, <1>7 DEF ExterActs, ExterRecord, InterruptServer
<1>8. CASE ~ ChangesExter
  BY <1>8, ExterFrame DEF ChangesExter
<1> QED
  BY <1>1, <1>2, <1>3, <1>4, <1>5, <1>6, <1>7, <1>8 DEF ChangesExter

LEMMA ComingStep ==
  ASSUME IInv, [Next]_vars, ~ ResetEnd, ~ HelperUnit, NEW u \in Units, NeedsMessage(u), Coming(u)
  PROVE  Coming(u)'
<1>0. /\ unit_no \in 0 .. MaxUnits /\ MaxUnits \in Nat /\ u \in 0 .. MaxUnits - 1
      /\ thread \in [Units -> [at : {"read", "count", "mark", "request"},
                               packet : {None} \cup {<<p>> : p \in Packets}]]
  BY ExterAssumption DEF IInv, Types, HandlerTypes, ExterTypes, Units
<1>1. CASE HelperEnd
  <2>1. /\ ~ (unit_no <= u) /\ thread' = thread /\ exter.at = "scan"
        /\ exter' = [exter EXCEPT !.at = "wait"] /\ ~ InterruptServer
    BY <1>0, <1>1 DEF HelperEnd, InterruptServer, IInv, Types, ExterTypes
  <2>2. exter'.signal = exter.signal
    BY <2>1 DEF IInv, Types, ExterTypes, ExterRecord
  <2>3. intreq => intreq'
    BY <2>1, IntreqStays
  <2> QED
    BY <2>1, <2>2, <2>3 DEF Coming, Called
<1>2. CASE ~ HelperEnd
  <2>1. CASE thread[u].at = "request"
    <3>1. CASE ThreadRequest(u)
      <4>1. intreq'
        BY <3>1, Zenon DEF ThreadRequest
      <4> QED
        BY <4>1 DEF Coming, Called
    <3>2. CASE ~ ThreadRequest(u)
      <4>1. ~ ThreadStep(u)
        BY <2>1, <3>2 DEF ThreadStep, ThreadRead, ThreadCount, ThreadMark
      <4>2. thread'[u].at = "request"
        BY <2>1, <4>1, ThreadFrame
      <4> QED
        BY <4>2 DEF Coming
    <3> QED
      BY <3>1, <3>2
  <2>2. CASE intreq
    BY <1>2, <2>2, IntreqStays, ExterMoves DEF Coming, Called
  <2>3. CASE exter.signal
    BY <1>2, <2>3, ExterMoves DEF Coming, Called
  <2>4. CASE exter.at = "call10"
    BY <1>0, <1>2, <2>4, ExterMoves DEF Coming, Called
  <2>5. CASE exter.at \in {"scan", "args", "act"} /\ unit_no <= u
    BY <1>2, <2>5, ExterMoves DEF Coming, Called
  <2> QED
    BY <2>1, <2>2, <2>3, <2>4, <2>5 DEF Coming, Called
<1> QED
  BY <1>1, <1>2

(* The counts that make the helper send the message stay until it does. *)
LEMMA NeedsStep ==
  ASSUME IInv, [Next]_vars, ~ ResetEnd, ~ HelperUnit, NEW u \in Units, NeedsMessage(u)
  PROVE  NeedsMessage(u)'
<1>0. CmdTypes
  BY DEF IInv, Types
<1>1. ASSUME NEW v \in Units, HandlerDummy(v) PROVE NeedsMessage(u)'
  BY <1>0, <1>1 DEF HandlerDummy, NeedsMessage, CmdTypes
<1>2. ASSUME NEW v \in Units, ThreadCount(v) PROVE NeedsMessage(u)'
  BY <1>0, <1>2 DEF ThreadCount, NeedsMessage, CmdTypes
<1>3. CASE ~ ChangesCmds
  BY <1>3, CmdFrame DEF NeedsMessage
<1> QED
  BY <1>1, <1>2, <1>3 DEF ChangesCmds

LEMMA LooksStep ==
  ASSUME IInv, [Next]_vars, ~ ResetEnd, NEW u \in Units, Looks(u), ~ HandlerScan(u)
  PROVE  Looks(u)'
<1>1. CASE u \in early
  BY <1>1, EarlyStep DEF Looks
<1>2. CASE u \in scanning
  <2>1. u \in scanning'
    <3>1. ASSUME NEW v \in Units, HandlerScan(v) PROVE u \in scanning'
      BY <1>2, <3>1 DEF HandlerScan
    <3>2. CASE \E v \in Units : \/ HandlerPacket(v) \/ HandlerRefuses(v) \/ HandlerDummy(v)
                                \/ ThreadStep(v)
      BY <1>2, <3>2 DEF HandlerPacket, HandlerRefuses, HandlerDummy, handler,
        ThreadStep, ThreadRead, ThreadCount, ThreadMark, ThreadRequest
    <3>3. CASE ExterActs \/ HelperUnit \/ \E p \in Packets : SendPacket(p)
      BY <1>2, <3>3 DEF ExterActs, HelperUnit, SendPacket, handler
    <3>4. CASE ~ ChangesHandler
      BY <1>2, <3>4, HandlerFrame
    <3> QED
      BY <3>1, <3>2, <3>3, <3>4 DEF ChangesHandler, ThreadStep
  <2> QED
    BY <2>1 DEF Looks, ScanComes
<1>3. CASE Ahead(u)
  <2>1. HandlerDummy(u) => u \in scanning'
    BY DEF HandlerDummy
  <2> QED
    BY <1>3, <2>1, AheadStep DEF Looks, ScanComes
<1>4. CASE AckComes(u)
  <2>1. CASE ~ HelperUnit
    <3>1. NeedsMessage(u) /\ Coming(u)
      BY <1>4 DEF AckComes
    <3>2. NeedsMessage(u)' /\ Coming(u)'
      BY <2>1, <3>1, NeedsStep, ComingStep
    <3> QED
      BY <3>2 DEF Looks, AckComes
  <2>2. CASE HelperUnit
    <3>1. PICK v \in Units : /\ v >= unit_no
                             /\ \A w \in Units : w >= unit_no /\ w < v => ~ NeedsMessage(w)
                             /\ cmds_acked' = [cmds_acked EXCEPT ![v] = cmds_sent[v]]
                             /\ unit_no' = v + 1
                             /\ exter' = [exter EXCEPT !.at = "act", !.dummy = <<v>>]
      BY <2>2 DEF HelperUnit
    <3>2. /\ UNCHANGED <<cmds_sent, cmds_complete, thread>> /\ exter.at = "scan"
          /\ intreq' = intreq
      BY <2>2 DEF HelperUnit
    <3>3. /\ exter'.at = "act" /\ exter'.dummy = <<v>> /\ exter'.signal = exter.signal
      BY <3>1 DEF IInv, Types, ExterTypes, ExterRecord
    <3>4. CASE u = v
      BY <3>3, <3>4 DEF Looks, ScanComes, Ahead
    <3>5. CASE u # v
      <4>1. cmds_acked'[u] = cmds_acked[u]
        BY <3>1, <3>5 DEF IInv, Types, CmdTypes
      <4>2. NeedsMessage(u)'
        BY <1>4, <3>2, <4>1 DEF AckComes, NeedsMessage
      <4>3. unit_no <= u => v + 1 <= u
        <5>1. u \in Int /\ v \in Int /\ unit_no \in Int
          BY ExterAssumption DEF Units, IInv, Types, ExterTypes
        <5>2. NeedsMessage(u)
          BY <1>4 DEF AckComes
        <5> QED
          BY <3>1, <3>5, <5>1, <5>2
      <4>4. ~ ResetEnd /\ ~ InterruptServer
        BY <2>2 DEF HelperUnit, InterruptServer, handler
      <4>5. intreq => intreq'
        BY <4>4, IntreqStays
      <4>6. Coming(u)'
        BY <1>4, <3>1, <3>2, <3>3, <4>3, <4>5 DEF AckComes, Coming, Called
      <4> QED
        BY <4>2, <4>6 DEF Looks, AckComes
    <3> QED
      BY <3>4, <3>5
  <2> QED
    BY <2>1, <2>2
<1> QED
  BY <1>1, <1>2, <1>3, <1>4 DEF Looks, ScanComes

LEMMA FinishedStep == ASSUME IInv, ServedInv, [Next]_vars PROVE FinishedInv'
<1>0. /\ queue \in [Units -> SUBSET Packets] /\ ListInv /\ UnitInv /\ CountInv /\ FinishedInv
      /\ thread \in [Units -> [at : {"read", "count", "mark", "request"},
                               packet : {None} \cup {<<p>> : p \in Packets}]]
      /\ mark \in [Packets -> {"new", "sent", "unstarted", "started", "finished", "gone"}]
  BY DEF IInv, Types, HandlerTypes, ServedInv
<1> SUFFICES ASSUME NEW u \in Units, NEW p \in queue'[u], mark'[p] = "finished" PROVE Looks(u)'
  BY DEF FinishedInv, Finished
<1>1. ~ ResetEnd /\ p \in Packets
  BY HandlerStepTypes DEF ResetEnd, HandlerTypes
<1>2. ~ HandlerScan(u)
  <2>1. ASSUME HandlerScan(u) PROVE FALSE
    BY <1>0, <2>1 DEF HandlerScan, Finished
  <2> QED
    BY <2>1
<1>3. CASE p \in queue[u] /\ mark[p] = "finished"
  BY <1>0, <1>1, <1>2, <1>3, LooksStep DEF FinishedInv, Finished
<1>4. CASE \E v \in Units : ThreadMark(v)
  <2>1. PICK v \in Units : ThreadMark(v)
    BY <1>4
  <2>2. PICK q \in Packets : thread[v].packet = <<q>> /\ mark[q] \in {"started", "finished"}
    BY <2>1 DEF ThreadMark, IInv, StartedInv
  <2>3. /\ mark' = [mark EXCEPT ![q] = "finished"] /\ queue' = queue
        /\ thread' = [thread EXCEPT ![v].at = "request"]
        /\ UNCHANGED <<cmds_sent, cmds_acked, cmds_complete, early, exter, port>>
        /\ thread[v].at = "mark"
    BY <2>1, <2>2 DEF ThreadMark, cmds, extvars
  <2>4. CASE p = q
    <3>1. u = v
      BY <1>0, <2>2, <2>3, <2>4 DEF UnitInv, ListInv
    <3>2. thread'[u].at = "request"
      BY <1>0, <2>3, <3>1
    <3>3. u \in early \/ cmds_acked[u] # cmds_sent[u]
      BY <1>0, <2>3, <3>1 DEF CountInv
    <3>4. CASE cmds_acked[u] = cmds_complete[u] /\ cmds_acked[u] # cmds_sent[u]
      BY <2>3, <3>2, <3>4 DEF Looks, AckComes, Coming, NeedsMessage
    <3>5. CASE cmds_acked[u] # cmds_complete[u]
      BY <1>0, <2>3, <3>5 DEF CountInv, Looks, ScanComes, Ahead, HasDummy
    <3> QED
      BY <2>3, <3>3, <3>4, <3>5 DEF Looks
  <2>5. CASE p # q
    BY <1>0, <1>1, <1>3, <2>3, <2>5
  <2> QED
    BY <2>4, <2>5
<1>5. ASSUME NEW v \in Units, HandlerPacket(v) PROVE Looks(u)'
  <2>1. PICK q \in Packets : UnitOf[q] = v /\ mark[q] = "sent" /\ Head(port[v]).packet = q
    BY <1>5, HeadPacket
  <2>2. /\ queue' = [queue EXCEPT ![v] = queue[v] \cup {q}]
        /\ mark' = [mark EXCEPT ![q] = "started"] \/ mark' = [mark EXCEPT ![q] = "unstarted"]
    BY <1>5, <2>1 DEF HandlerPacket
  <2>3. p # q /\ mark'[p] = mark[p]
    BY <1>0, <1>1, <2>2
  <2> QED
    BY <1>0, <1>3, <2>2, <2>3
<1>6. CASE ~ (\/ \E v \in Units : HandlerPacket(v) \/ HandlerRefuses(v) \/ ThreadMark(v))
  <2>1. mark'[p] = "finished" => mark[p] = "finished"
    <3>1. CASE \E q \in Packets : SendPacket(q)
      BY <1>0, <1>1, <3>1 DEF SendPacket
    <3>2. CASE ExterActs \/ \E v \in Units : HandlerDummy(v) \/ HandlerScan(v) \/ ThreadRead(v)
      BY <3>2 DEF ExterActs, HandlerDummy, HandlerScan, ThreadRead
    <3>3. CASE ~ MovesPacket
      BY <3>3, PacketFrame
    <3> QED
      BY <1>1, <1>6, <3>1, <3>2, <3>3 DEF MovesPacket
  <2>2. p \in queue[u]
    <3>1. CASE ExterActs \/ \E v \in Units : HandlerDummy(v) \/ ThreadRead(v)
      BY <3>1 DEF ExterActs, HandlerDummy, ThreadRead
    <3>2. CASE \E v \in Units : HandlerScan(v)
      BY <1>0, <3>2 DEF HandlerScan
    <3>3. CASE \E q \in Packets : SendPacket(q)
      BY <3>3 DEF SendPacket
    <3>4. CASE ~ MovesPacket
      BY <3>4, PacketFrame
    <3> QED
      BY <1>1, <1>6, <3>1, <3>2, <3>3, <3>4 DEF MovesPacket
  <2> QED
    BY <1>3, <2>1, <2>2
<1>7. ASSUME NEW v \in Units, HandlerRefuses(v) PROVE Looks(u)'
  <2>1. PICK q \in Packets : UnitOf[q] = v /\ mark[q] = "sent" /\ Head(port[v]).packet = q
    BY <1>7, HeadPacket
  <2>2. queue' = queue /\ mark' = [mark EXCEPT ![q] = "finished"]
    BY <1>7, <2>1 DEF HandlerRefuses
  <2>3. p # q
    BY <2>1, <2>2, <1>0 DEF ListInv
  <2>4. mark'[p] = mark[p]
    BY <1>0, <1>1, <2>2, <2>3
  <2> QED
    BY <1>3, <2>2, <2>4
<1> QED
  BY <1>4, <1>5, <1>6, <1>7

LEMMA ServedInvariant == Spec => []ServedInv
<1>1. IInv /\ ServedInv /\ [Next]_vars => ServedInv'
  BY UnitStep, PlaceStep, CountInvStep, FinishedStep, Zenon DEF ServedInv
<1> QED
  BY <1>1, ServedInit, Inductive, PTL DEF Spec

(* No packet is forgotten, whatever the interleaving of the 68k's tasks,   *)
(* the unit's thread and the resets, but for the two cases of              *)
(* SentIsReplied: an unstarted packet, and a unit acked early.             *)
THEOREM NothingForgottenAlways == Spec => []NothingForgotten
<1>1. IInv /\ ServedInv => NothingForgotten
  <2> SUFFICES ASSUME IInv, ServedInv, NEW p \in Packets, mark[p] \notin {"new", "unstarted", "gone"}
      PROVE \/ OnPort(p) \/ InPipe(p) \/ WithThread(p) \/ replied[p] = 1
            \/ mark[p] = "finished" /\ p \in queue[UnitOf[p]] /\ Looks(UnitOf[p])
    BY DEF NothingForgotten
  <2>1. mark[p] \in {"sent", "started", "finished"} /\ UnitOf[p] \in Units
    BY ExterAssumption DEF IInv, Types, HandlerTypes
  <2> QED
    BY <2>1 DEF ServedInv, PlaceInv, FinishedInv, Finished
<1> QED
  BY <1>1, Inductive, ServedInvariant, PTL

-----------------------------------------------------------------------------
(* The messages.  exter_task is called, or is between two of its calls of  *)
(* the helper: it will read the pipe until it finds nothing in it.         *)
Inside == exter.at \in {"scan", "args", "act"}
Awake == Called \/ Inside
InMessageOf(i) ==
  sender[i.from].at \in {"write", "full", "request"} /\ sender[i.from].seq = i.seq
ResetInv ==
  /\ resets.busy => resets.count > 0
  /\ resets.count \in Nat /\ resets = [count |-> resets.count, busy |-> resets.busy, cut |-> resets.cut]
(* The helper has its semaphore, unless a reset came between two calls.    *)
Entered ==
  ~ resets.cut => (int_sem = 0 <=> Inside) /\ (resets.busy => ~ Inside)
(* Until the first reset, whoever put an item into the pipe has raised the *)
(* interrupt since, or is still in that message and is going to.           *)
Heard == resets.count = 0 => \A k \in DOMAIN pending : Awake \/ InMessageOf(pending[k])
HeardInv == ResetInv /\ Entered /\ Heard

LEMMA HeardInit == ASSUME Init PROVE HeardInv
  BY ExterAssumption DEF Init, HeardInv, ResetInv, Entered, Heard, Inside

LEMMA ResetsFrame == ASSUME [Next]_vars, ~ ResetBegin, ~ ResetEnd PROVE resets' = resets
  BY DEF Next, SenderStep, ExterStep, HandlerStep, ThreadStep,
    NativeSemWait, PipeFull, WriteItem, RequestInt, InterruptServer, ExterWakes,
    HelperBusy, HelperEnter, HelperCommand, HelperArgument, ExterActs, HelperUnit,
    HelperEnd, Vsync, SendPacket, HandlerPacket, HandlerRefuses,
    HandlerDummy, HandlerScan, ThreadRead, ThreadCount, ThreadMark, ThreadRequest, vars

LEMMA ResetStep == ASSUME ResetInv, [Next]_vars PROVE ResetInv'
<1>1. CASE ResetBegin
  BY <1>1 DEF ResetBegin, ResetInv
<1>2. CASE ResetEnd
  BY <1>2 DEF ResetEnd, ResetInv
<1>3. CASE ~ ResetBegin /\ ~ ResetEnd
  BY <1>3, ResetsFrame DEF ResetInv
<1> QED
  BY <1>1, <1>2, <1>3

LEMMA EnteredStep == ASSUME IInv, ResetInv, Entered, [Next]_vars PROVE Entered'
<1>0. ExterRecord(exter) /\ exter.at \in {"wait", "call10", "scan", "args", "act"} /\ int_sem \in 0 .. 1
  BY DEF IInv, Types, ExterTypes
<1>1. CASE ResetBegin
  <2>1. /\ UNCHANGED <<exter, int_sem>> /\ exter.at # "args"
        /\ resets'.cut <=> resets.cut \/ exter.at \in {"scan", "act"}
    BY <1>1 DEF ResetBegin, CpuFree, extvars
  <2> QED
    BY <1>0, <2>1 DEF Entered, Inside
<1>2. CASE ResetEnd
  <2>1. /\ exter'.at = "wait" /\ int_sem' = int_sem /\ resets.busy
        /\ resets'.cut = resets.cut /\ ~ resets'.busy
    BY <1>0, <1>2 DEF ResetEnd, ExterRecord, ResetInv
  <2> QED
    BY <2>1 DEF Entered, Inside
<1>3. ASSUME ~ ResetBegin, ~ ResetEnd, ChangesExter PROVE Entered'
  <2>0. resets' = resets
    BY <1>3, ResetsFrame
  <2>1. CASE HelperArgument
    BY <1>0, <2>0, <2>1 DEF HelperArgument, ExterRecord, Entered, Inside
  <2>2. CASE ~ HelperArgument
    <3>1. ~ resets.busy
      BY <1>3, <2>2 DEF ChangesExter, CpuFree, InterruptServer, ExterWakes, HelperBusy,
        HelperEnter, HelperCommand, ExterActs, HelperUnit, HelperEnd
    <3>2. CASE InterruptServer \/ ExterWakes \/ HelperBusy
      BY <1>0, <2>0, <3>1, <3>2 DEF InterruptServer, ExterWakes, HelperBusy, ExterRecord, Entered, Inside
    <3>3. CASE HelperEnter
      BY <1>0, <2>0, <3>1, <3>3 DEF HelperEnter, ExterRecord, Entered, Inside
    <3>4. CASE HelperCommand
      BY <1>0, <2>0, <3>1, <3>4 DEF HelperCommand, ExterRecord, Entered, Inside
    <3>5. CASE ExterActs
      BY <1>0, <2>0, <3>1, <3>5 DEF ExterActs, ExterRecord, Entered, Inside
    <3>6. CASE HelperUnit
      BY <1>0, <2>0, <3>1, <3>6 DEF HelperUnit, ExterRecord, Entered, Inside
    <3>7. CASE HelperEnd
      BY <1>0, <2>0, <3>1, <3>7 DEF HelperEnd, ExterRecord, Entered, Inside
    <3> QED
      BY <1>3, <2>2, <3>2, <3>3, <3>4, <3>5, <3>6, <3>7 DEF ChangesExter
  <2> QED
    BY <2>1, <2>2
<1>4. CASE ~ ResetBegin /\ ~ ResetEnd /\ ~ ChangesExter
  BY <1>4, ResetsFrame, ExterFrame DEF Entered, Inside
<1> QED
  BY <1>1, <1>2, <1>3, <1>4

(* exter_task, once called, stays awake until it has found the pipe empty. *)
LEMMA AwakeStep ==
  ASSUME IInv, [Next]_vars, ~ ResetEnd, ~ HelperEnd, Awake
  PROVE  Awake'
<1>1. CASE HelperUnit
  <2>1. exter'.at = "act"
    BY <1>1 DEF HelperUnit, IInv, Types, ExterTypes, ExterRecord
  <2> QED
    BY <2>1 DEF Awake, Inside
<1>2. CASE ~ HelperUnit
  BY <1>2, ExterMoves, IntreqStays DEF Awake, Inside, Called
<1> QED
  BY <1>1, <1>2

LEMMA HeardStep == ASSUME IInv, HeardInv, [Next]_vars PROVE Heard'
<1>0. /\ Heard /\ ResetInv /\ SenderTypes /\ pending \in Seq(Items)
  BY DEF IInv, Types, HeardInv, PipeTypes
<1>f. \A j \in DOMAIN pending : pending[j].from \in Senders
  <2>1. \A j \in DOMAIN pending : pending[j] \in Items
    BY <1>0, ElementOfSeq, LenProperties
  <2> QED
    BY <2>1 DEF Items
<1> SUFFICES ASSUME resets'.count = 0, NEW k \in DOMAIN pending' PROVE Awake' \/ InMessageOf(pending[k])'
  BY DEF Heard
<1>r. /\ ~ ResetEnd /\ ~ ResetBegin /\ resets.count = 0
  <2>1. ~ ResetBegin
    BY <1>0 DEF ResetBegin, ResetInv
  <2>2. ~ ResetEnd
    BY <1>0 DEF ResetEnd, ResetInv
  <2> QED
    BY <2>1, <2>2, ResetsFrame
<1>e. ~ HelperEnd
  BY DEF HelperEnd
<1>1. CASE Awake
  BY <1>1, <1>e, <1>r, AwakeStep
<1> SUFFICES ASSUME ~ Awake, \A j \in DOMAIN pending : InMessageOf(pending[j])
    PROVE  Awake' \/ InMessageOf(pending[k])'
  BY <1>0, <1>1, <1>r DEF Heard
<1>2. ASSUME NEW s \in Senders, RequestInt(s) PROVE Awake'
  <2>1. intreq'
    BY <1>2, Zenon DEF RequestInt
  <2> QED
    BY <2>1 DEF Awake, Called
<1>3. ASSUME NEW s \in Senders, NativeSemWait(s) PROVE InMessageOf(pending[k])'
  <2>1. pending' = pending /\ sender[s].at = "idle" /\ \A x \in Senders : x # s => sender'[x] = sender[x]
    BY <1>0, <1>3 DEF NativeSemWait, SenderTypes
  <2>2. pending[k].from \in Senders
    BY <1>f, <2>1
  <2> QED
    BY <2>1, <2>2 DEF InMessageOf
<1>4. ASSUME NEW s \in Senders, PipeFull(s) PROVE InMessageOf(pending[k])'
  <2>1. /\ pending' = pending /\ \A x \in Senders : sender'[x].at \in {sender[x].at, "full"}
        /\ \A x \in Senders : sender'[x].seq = sender[x].seq
    BY <1>0, <1>4 DEF PipeFull, SenderTypes, SenderRecord
  <2>2. pending[k].from \in Senders
    BY <1>f, <2>1
  <2> QED
    BY <2>1, <2>2 DEF InMessageOf
<1>5. ASSUME NEW s \in Senders, WriteItem(s) PROVE InMessageOf(pending[k])'
  <2> DEFINE i == [from |-> s, seq |-> sender[s].seq, part |-> sender[s].part,
                   len |-> sender[s].len, num |-> Len(log) + 1]
  <2>1. /\ \A x \in Senders : sender'[x].seq = sender[x].seq
        /\ \A x \in Senders : x # s => sender'[x] = sender[x]
        /\ sender'[s].at \in {"write", "request"}
    BY <1>0, <1>5 DEF WriteItem, SenderTypes, SenderRecord
  <2>2. pending' = Append(pending, i)
    BY <1>5 DEF WriteItem
  <2>3. i \in Items
    BY <1>0, <1>5 DEF WriteItem, SenderTypes, SenderRecord, InMessage, Items, IInv, Types, PipeTypes
  <2>4. i.from = s /\ i.seq = sender[s].seq
    OBVIOUS
  <2> HIDE DEF i
  <2>5. (k \in DOMAIN pending /\ pending'[k] = pending[k]) \/ pending'[k] = i
    BY <1>0, <2>2, <2>3, AppendPositions
  <2>6. CASE pending'[k] = i
    BY <2>1, <2>4, <2>6 DEF InMessageOf
  <2>7. CASE k \in DOMAIN pending /\ pending'[k] = pending[k]
    <3>1. pending[k].from \in Senders
      BY <1>f, <2>7
    <3> QED
      BY <2>1, <2>7, <3>1 DEF InMessageOf
  <2> QED
    BY <2>5, <2>6, <2>7
<1>6. ~ HelperCommand /\ ~ HelperArgument
  BY DEF HelperCommand, HelperArgument, Awake, Inside
<1>7. CASE ~ ChangesPipe
  BY <1>7, PipeFrame DEF InMessageOf
<1> QED
  BY <1>2, <1>3, <1>4, <1>5, <1>6, <1>7, <1>r DEF ChangesPipe

LEMMA HeardInvariant == Spec => []HeardInv
<1>1. IInv /\ HeardInv /\ [Next]_vars => HeardInv'
  BY ResetStep, EnteredStep, HeardStep DEF HeardInv
<1> QED
  BY <1>1, HeardInit, Inductive, PTL DEF Spec

(* "Pretend it isn't for us": exter_int_helper never meets its semaphore   *)
(* taken, unless a reset came between two of its calls.                    *)
THEOREM HelperEnters == Spec => [](exter.at = "call10" /\ ~ resets.cut => int_sem = 1)
<1>1. IInv /\ HeardInv => (exter.at = "call10" /\ ~ resets.cut => int_sem = 1)
  BY DEF HeardInv, Entered, Inside, IInv, Types, ExterTypes
<1> QED
  BY <1>1, Inductive, HeardInvariant, PTL

(* Until the first reset no item of a message stays in the pipe unheard:   *)
(* the interrupt is raised, exter_task is on its way or at the helper, or  *)
(* the sender has not come to do_uae_int_requested.                        *)
THEOREM HeardAlways == Spec => []Heard
<1>1. HeardInv => Heard
  BY DEF HeardInv
<1> QED
  BY <1>1, HeardInvariant, PTL
=============================================================================
