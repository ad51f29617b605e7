----------------------------- MODULE ExterServer -----------------------------
(***************************************************************************)
(* How host threads get work done on the 68k side (native2amiga.cpp, the   *)
(* exter_int_helper trap and the packet path of filesys.cpp, and the 68k   *)
(* tasks of filesys.asm, with direct traps):                               *)
(*                                                                         *)
(*  - host threads (Senders) put messages of several items into the pipe   *)
(*    native2amiga_pending and raise bit 0 of uae_int_requested;           *)
(*  - the interrupt server takes the bit and signals exter_task, which     *)
(*    calls exter_int_helper until it finds nothing more to do;            *)
(*  - each filesystem unit has a 68k handler task, which queues the DOS    *)
(*    packets it starts, and a host thread, which executes them; the       *)
(*    counters cmds_sent, cmds_acked and cmds_complete decide when         *)
(*    exter_task sends the handler the dummy message that makes it reply   *)
(*    to the finished packets.                                             *)
(*                                                                         *)
(* Pipes are bounded queues: CommPipe shows that they implement one.       *)
(***************************************************************************)
EXTENDS Integers, FiniteSets, Sequences

CONSTANTS
  Senders,     \* host threads that call uae_Signal, uae_PutMsg, ...
  Lengths,     \* items per message: 2 (Cause, ReplyMsg), 3 or 4
  MaxMsgs,     \* bound: messages a sender sends
  PipeCap,     \* items native2amiga_pending holds (299)
  MaxUnits,    \* MAX_FILESYSTEM_UNITS
  Packets,     \* DOS packets
  UnitOf,      \* the unit a packet is sent to
  MaxStarted,  \* packets a handler starts before it only queues (20)
  Recheck,     \* currprefs.uaeboard > 1: filesys_vsync looks for missed work
  MaxResets,   \* bound: resets of the emulated machine
  Installs     \* native2amiga_install calls so far in this process

Units == 0 .. MaxUnits - 1

ASSUME ExterAssumption ==
  /\ IsFiniteSet(Senders)
  /\ Lengths \subseteq 2 .. 4
  /\ MaxMsgs \in Nat /\ MaxResets \in Nat /\ MaxUnits \in Nat
  /\ Installs \in Nat \ {0} /\ PipeCap \in Nat \ {0} /\ MaxStarted \in Nat \ {0}
  /\ UnitOf \in [Packets -> Units]
  /\ Recheck \in BOOLEAN

VARIABLES
  n2asem,        \* the semaphore that serialises the senders
  sender,        \* sender s: messages begun, their length, the next item
  pending,       \* native2amiga_pending
  log,           \* messages whose last item was written, oldest first (history)
  intreq,        \* bit 0 of uae_int_requested
  int_sem,       \* singlethread_int_sem
  exter,         \* exter_task: where it is, and the arguments it waits for
  unit_no,       \* the static scan position of exter_int_helper
  delivered,     \* messages handed to exter_task, oldest first
  cmds_sent, cmds_acked, cmds_complete,   \* per unit
  port,          \* the message port of each handler task
  queue,         \* the packets in the handler's list, not replied to
  scanning,      \* handlers between exter_int_helper(1) and the scan of the list
  unit_pipe,     \* packets handed to the unit's thread
  thread,        \* the unit's thread: its packet and how far it is
  mark,          \* message_addr + 4: unstarted (1), started (0), finished (-1)
  replied,       \* how often a packet was replied to
  early,         \* units acked between cmds_sent++ and the mark (history)
  resets         \* resets so far, whether one is under way, whether one cut
                 \* exter_task off between two helper calls (history)

senders == <<n2asem, sender, log>>
extvars == <<int_sem, exter, unit_no, delivered>>
cmds    == <<cmds_sent, cmds_acked, cmds_complete>>
handler == <<port, queue, scanning, unit_pipe, mark, replied>>
vars    == <<senders, pending, intreq, extvars, cmds, handler, thread, early, resets>>

None == <<>>
Idle == [at |-> "idle", seq |-> 0, len |-> 0, part |-> 0]
Dummy == [dummy |-> TRUE]
Packet(p) == [dummy |-> FALSE, packet |-> p]
NoPacket == [at |-> "read", packet |-> None]

(* The host thread that runs the 68k is free to run 68k code: it is        *)
(* neither inside a blocking pipe read nor inside devices_reset.           *)
CpuFree == exter.at # "args" /\ ~ resets.busy

-----------------------------------------------------------------------------
(* The senders: uae_Cause, uae_ReplyMsg, uae_PutMsg, uae_Signal, ...       *)

NativeSemWait_Unlocked(s) ==
  /\ sender[s].at = "idle"
  /\ sender[s].seq < MaxMsgs
  /\ \E len \in Lengths :
       sender' = [sender EXCEPT ![s] = [at |-> "write", seq |-> @.seq + 1, len |-> len, part |-> 1]]
  /\ UNCHANGED <<n2asem, pending, log, intreq, extvars, cmds, handler, thread, early, resets>>
NativeSemWait(s) ==
  /\ sender[s].at = "idle"
  /\ sender[s].seq < MaxMsgs
  /\ n2asem > 0
  /\ n2asem' = n2asem - 1
  /\ \E len \in Lengths :
       sender' = [sender EXCEPT ![s] = [at |-> "write", seq |-> @.seq + 1, len |-> len, part |-> 1]]
  /\ UNCHANGED <<pending, log, intreq, extvars, cmds, handler, thread, early, resets>>

(* write_comm_pipe_* on a full pipe: the sender sleeps on writer_wait. *)
PipeFull(s) ==
  /\ sender[s].at = "write"
  /\ Len(pending) = PipeCap
  /\ sender' = [sender EXCEPT ![s].at = "full"]
  /\ UNCHANGED <<n2asem, pending, log, intreq, extvars, cmds, handler, thread, early, resets>>

WriteItem(s) ==
  LET m == sender[s] IN
  /\ m.at \in {"write", "full"}
  /\ Len(pending) < PipeCap
  /\ pending' = Append(pending, [from |-> s, seq |-> m.seq, part |-> m.part, len |-> m.len,
                                num |-> Len(log) + 1])
  /\ log' = IF m.part = m.len THEN Append(log, [from |-> s, seq |-> m.seq]) ELSE log
  /\ sender' = [sender EXCEPT ![s].part = @ + 1,
                              ![s].at = IF m.part = m.len THEN "request" ELSE "write"]
  /\ UNCHANGED <<n2asem, intreq, extvars, cmds, handler, thread, early, resets>>

(* do_uae_int_requested, then the semaphore. *)
RequestInt_Never(s) ==
  /\ sender[s].at = "request"
  /\ n2asem' = n2asem + 1
  /\ sender' = [sender EXCEPT ![s].at = "idle"]
  /\ UNCHANGED <<pending, log, intreq, extvars, cmds, handler, thread, early, resets>>
RequestInt(s) ==
  /\ sender[s].at = "request"
  /\ intreq' = TRUE
  /\ n2asem' = n2asem + 1
  /\ sender' = [sender EXCEPT ![s].at = "idle"]
  /\ UNCHANGED <<pending, log, extvars, cmds, handler, thread, early, resets>>

SenderStep(s) == PipeFull(s) \/ WriteItem(s) \/ RequestInt(s)

-----------------------------------------------------------------------------
(* exter_server_new reads RTAREA_INTREQ, which takes the bit, and signals. *)
InterruptServer ==
  /\ CpuFree
  /\ intreq
  /\ intreq' = FALSE
  /\ exter' = [exter EXCEPT !.signal = TRUE]
  /\ UNCHANGED <<senders, pending, int_sem, unit_no, delivered, cmds, handler,
                 thread, early, resets>>

(* exter_task wakes from Wait and calls exter_int_helper with 10. *)
ExterWakes ==
  /\ CpuFree
  /\ exter.at = "wait" /\ exter.signal
  /\ exter' = [exter EXCEPT !.signal = FALSE, !.at = "call10"]
  /\ UNCHANGED <<senders, pending, intreq, int_sem, unit_no, delivered, cmds,
                 handler, thread, early, resets>>

(* "Pretend it isn't for us. We might get it again later." *)
HelperBusy ==
  /\ CpuFree
  /\ exter.at = "call10" /\ int_sem = 0
  /\ intreq' = TRUE
  /\ exter' = [exter EXCEPT !.at = "wait"]
  /\ UNCHANGED <<senders, pending, int_sem, unit_no, delivered, cmds, handler,
                 thread, early, resets>>

HelperEnter ==
  /\ CpuFree
  /\ exter.at = "call10" /\ int_sem = 1
  /\ int_sem' = 0
  /\ unit_no' = 0
  /\ exter' = [exter EXCEPT !.at = "scan"]
  /\ UNCHANGED <<senders, pending, intreq, delivered, cmds, handler, thread,
                 early, resets>>

(* comm_pipe_has_data and the command word, which says how many words      *)
(* follow.  A word that is no command is taken for one by its value: for   *)
(* any of them, or for an "unknown native action" of one word.             *)
HelperCommand ==
  /\ CpuFree
  /\ exter.at = "scan" /\ pending # <<>>
  /\ LET i == Head(pending) IN
     \E need \in IF i.part = 1 THEN {i.len} ELSE 1 .. 4 :
       exter' = [exter EXCEPT !.at = IF need = 1 THEN "scan" ELSE "args",
                   !.msg = i, !.got = 1, !.need = need, !.whole = i.part = 1]
  /\ pending' = Tail(pending)
  /\ UNCHANGED <<senders, intreq, int_sem, unit_no, delivered, cmds, handler,
                 thread, early, resets>>

(* The helper blocks the whole 68k until the sender has written the rest. *)
HelperArgument ==
  /\ exter.at = "args" /\ pending # <<>>
  /\ LET i == Head(pending)
         got == exter.got + 1
         whole == exter.whole /\ i = [exter.msg EXCEPT !.part = got] IN
     /\ pending' = Tail(pending)
     /\ exter' = [exter EXCEPT !.got = got, !.whole = whole,
                               !.at = IF got = exter.need THEN "act" ELSE "args"]
     /\ delivered' = IF got # exter.need THEN delivered
                     ELSE Append(delivered, [from |-> exter.msg.from, seq |-> exter.msg.seq,
                                             whole |-> whole])
  /\ UNCHANGED <<senders, intreq, int_sem, unit_no, cmds, handler, thread, early, resets>>

(* exter_task does what the helper told it, PutMsg for a unit's dummy      *)
(* message, and calls the helper again with 11.                            *)
ExterActs ==
  /\ CpuFree
  /\ exter.at = "act"
  /\ port' = IF exter.dummy = None THEN port
             ELSE [port EXCEPT ![exter.dummy[1]] = Append(@, Dummy)]
  /\ exter' = [exter EXCEPT !.at = "scan", !.dummy = None]
  /\ UNCHANGED <<senders, pending, intreq, int_sem, unit_no, delivered, cmds, queue,
                 scanning, unit_pipe, mark, replied, thread, early, resets>>

NeedsMessage_NoAckTest(u) == cmds_acked[u] # cmds_sent[u]
NeedsMessage(u) ==
  /\ cmds_acked[u] = cmds_complete[u]
  /\ cmds_acked[u] # cmds_sent[u]

(* "Find some unit that needs a message sent", from unit_no on. *)
HelperUnit ==
  /\ CpuFree
  /\ exter.at = "scan" /\ pending = <<>>
  /\ \E u \in Units :
       /\ u >= unit_no /\ NeedsMessage(u)
       /\ \A v \in Units : v >= unit_no /\ v < u => ~ NeedsMessage(v)
       /\ cmds_acked' = [cmds_acked EXCEPT ![u] = cmds_sent[u]]
       /\ unit_no' = u + 1
       /\ exter' = [exter EXCEPT !.at = "act", !.dummy = <<u>>]
       /\ early' = IF thread[u].at = "mark" THEN early \cup {u} ELSE early
  /\ UNCHANGED <<senders, pending, intreq, int_sem, delivered, cmds_sent, cmds_complete,
                 handler, thread, resets>>

HelperEnd ==
  /\ CpuFree
  /\ exter.at = "scan" /\ pending = <<>>
  /\ \A u \in Units : u >= unit_no => ~ NeedsMessage(u)
  /\ int_sem' = 1
  /\ unit_no' = MaxUnits
  /\ exter' = [exter EXCEPT !.at = "wait"]
  /\ UNCHANGED <<senders, pending, intreq, delivered, cmds, handler, thread, early, resets>>

ExterStep ==
  \/ ExterWakes \/ HelperBusy \/ HelperEnter \/ HelperCommand \/ HelperArgument
  \/ ExterActs \/ HelperUnit \/ HelperEnd

(* filesys_vsync with a UAE board: "check if there is waiting requests     *)
(* without signal".  It takes and gives back singlethread_int_sem.         *)
Vsync ==
  /\ Recheck /\ CpuFree
  /\ ~ intreq /\ int_sem = 1
  /\ pending # <<>> \/ \E u \in Units : NeedsMessage(u)
  /\ intreq' = TRUE
  /\ UNCHANGED <<senders, pending, extvars, cmds, handler, thread, early, resets>>

-----------------------------------------------------------------------------
(* The filesystem: handler task and unit thread. *)

(* A DOS process sends a packet to the handler's port. *)
SendPacket(p) ==
  /\ CpuFree
  /\ mark[p] = "new"
  /\ mark' = [mark EXCEPT ![p] = "sent"]
  /\ port' = [port EXCEPT ![UnitOf[p]] = Append(@, Packet(p))]
  /\ UNCHANGED <<senders, pending, intreq, extvars, cmds, queue, scanning, unit_pipe,
                 replied, thread, early, resets>>

Started(u) == Cardinality({p \in queue[u] : mark[p] # "unstarted"})

(* FSML_FromDOS and filesys_handler: start the packet, or only queue it. *)
HandlerPacket(u) ==
  /\ CpuFree
  /\ u \notin scanning
  /\ port[u] # <<>> /\ ~ Head(port[u]).dummy
  /\ LET p == Head(port[u]).packet IN
     /\ IF Started(u) < MaxStarted
          THEN /\ mark' = [mark EXCEPT ![p] = "started"]
               /\ unit_pipe' = [unit_pipe EXCEPT ![u] = Append(@, p)]
          ELSE /\ mark' = [mark EXCEPT ![p] = "unstarted"]
               /\ UNCHANGED unit_pipe
     /\ queue' = [queue EXCEPT ![u] = @ \cup {p}]
  /\ port' = [port EXCEPT ![u] = Tail(@)]
  /\ UNCHANGED <<senders, pending, intreq, extvars, cmds, scanning, replied, thread, early,
                 resets>>

(* filesys_handler's error returns (a bad address, no volume, no thread):  *)
(* it marks the packet itself, and the 68k replies at once (FSML_Reply).   *)
HandlerRefuses(u) ==
  /\ CpuFree
  /\ u \notin scanning
  /\ port[u] # <<>> /\ ~ Head(port[u]).dummy
  /\ Started(u) < MaxStarted
  /\ LET p == Head(port[u]).packet IN
     /\ mark' = [mark EXCEPT ![p] = "finished"]
     /\ replied' = [replied EXCEPT ![p] = @ + 1]
  /\ port' = [port EXCEPT ![u] = Tail(@)]
  /\ UNCHANGED <<senders, pending, intreq, extvars, cmds, queue, scanning, unit_pipe, thread,
                 early, resets>>

(* The dummy message: exter_int_helper with 1 ... *)
HandlerDummy(u) ==
  /\ CpuFree
  /\ u \notin scanning
  /\ port[u] # <<>> /\ Head(port[u]).dummy
  /\ cmds_complete' = [cmds_complete EXCEPT ![u] = cmds_acked[u]]
  /\ port' = [port EXCEPT ![u] = Tail(@)]
  /\ scanning' = scanning \cup {u}
  /\ UNCHANGED <<senders, pending, intreq, extvars, cmds_sent, cmds_acked, queue,
                 unit_pipe, mark, replied, thread, early, resets>>

Finished(u) == {p \in queue[u] : mark[p] = "finished"}

(* ... then FSML_check_old.  The scan of the list is one step: packets     *)
(* finish in the order they were started and the list holds the newest     *)
(* first, so a scan that finds one finished finds every older one so.      *)
(* The order of the list matters to nothing else: it is a set here.        *)
HandlerScan_KeepsList(u) ==
  /\ CpuFree
  /\ u \in scanning
  /\ scanning' = scanning \ {u}
  /\ replied' = [p \in Packets |-> replied[p] + (IF p \in Finished(u) THEN 1 ELSE 0)]
  /\ UNCHANGED <<senders, pending, intreq, extvars, cmds, port, queue, unit_pipe, mark,
                 thread, early, resets>>
HandlerScan(u) ==
  /\ CpuFree
  /\ u \in scanning
  /\ scanning' = scanning \ {u}
  /\ replied' = [p \in Packets |-> replied[p] + (IF p \in Finished(u) THEN 1 ELSE 0)]
  /\ queue' = [queue EXCEPT ![u] = @ \ Finished(u)]
  /\ UNCHANGED <<senders, pending, intreq, extvars, cmds, port, unit_pipe, mark, thread,
                 early, resets>>

(* filesys_iteration: read and handle a packet. *)
ThreadRead(u) ==
  /\ thread[u].at = "read" /\ unit_pipe[u] # <<>>
  /\ thread' = [thread EXCEPT ![u] = [at |-> "count", packet |-> <<Head(unit_pipe[u])>>]]
  /\ unit_pipe' = [unit_pipe EXCEPT ![u] = Tail(@)]
  /\ UNCHANGED <<senders, pending, intreq, extvars, cmds, port, queue, scanning, mark,
                 replied, early, resets>>

(* cmds_sent++ comes first ... *)
ThreadCount(u) ==
  /\ thread[u].at = "count"
  /\ cmds_sent' = [cmds_sent EXCEPT ![u] = @ + 1]
  /\ thread' = [thread EXCEPT ![u].at = "mark"]
  /\ UNCHANGED <<senders, pending, intreq, extvars, cmds_acked, cmds_complete, handler,
                 early, resets>>

(* ... then trap_multi marks the packet in 68k memory ... *)
ThreadMark(u) ==
  /\ thread[u].at = "mark"
  /\ mark' = [mark EXCEPT ![thread[u].packet[1]] = "finished"]
  /\ thread' = [thread EXCEPT ![u].at = "request"]
  /\ UNCHANGED <<senders, pending, intreq, extvars, cmds, port, queue, scanning, unit_pipe,
                 replied, early, resets>>

(* ... then do_uae_int_requested. *)
ThreadRequest_Never(u) ==
  /\ thread[u].at = "request"
  /\ thread' = [thread EXCEPT ![u] = NoPacket]
  /\ UNCHANGED <<senders, pending, intreq, extvars, cmds, handler, early, resets>>
ThreadRequest(u) ==
  /\ thread[u].at = "request"
  /\ intreq' = TRUE
  /\ thread' = [thread EXCEPT ![u] = NoPacket]
  /\ UNCHANGED <<senders, pending, extvars, cmds, handler, early, resets>>

ThreadStep(u) == ThreadRead(u) \/ ThreadCount(u) \/ ThreadMark(u) \/ ThreadRequest(u)
HandlerStep(u) ==
  HandlerPacket(u) \/ HandlerRefuses(u) \/ HandlerDummy(u) \/ HandlerScan(u)

-----------------------------------------------------------------------------
(* devices_reset, on the thread that runs the 68k.  native2amiga_reset     *)
(* empties the pipe without n2asem (a sender asleep on the full pipe is    *)
(* forgotten: writer_waiting = 0), and singlethread_int_sem keeps the      *)
(* value the interrupted exter_task left it with.                          *)
ResetBegin ==
  /\ CpuFree
  /\ resets.count < MaxResets
  /\ resets' = [busy |-> TRUE, count |-> resets.count + 1,
                cut |-> resets.cut \/ exter.at \in {"scan", "act"}]
  /\ pending' = <<>>
  /\ sender' = [s \in Senders |-> IF sender[s].at = "full"
                                    THEN [sender[s] EXCEPT !.at = "forgotten"] ELSE sender[s]]
  /\ UNCHANGED <<n2asem, log, intreq, extvars, cmds, handler, thread, early>>

(* filesys_prepare_reset2 waits for every unit thread; the units, the 68k  *)
(* tasks, their lists and the packets are gone; uae_int_requested = 0 is   *)
(* the last line.                                                          *)
ResetEnd ==
  /\ resets.busy
  /\ \A u \in Units : thread[u].at = "read"
  /\ resets' = [resets EXCEPT !.busy = FALSE]
  /\ intreq' = FALSE
  /\ exter' = [exter EXCEPT !.at = "wait", !.signal = FALSE, !.dummy = None]
  /\ cmds_sent' = [u \in Units |-> 0] /\ cmds_acked' = [u \in Units |-> 0]
  /\ cmds_complete' = [u \in Units |-> 0]
  /\ port' = [u \in Units |-> <<>>] /\ queue' = [u \in Units |-> {}]
  /\ unit_pipe' = [u \in Units |-> <<>>]
  /\ scanning' = {} /\ early' = {}
  /\ mark' = [p \in Packets |-> IF mark[p] = "new" THEN "new" ELSE "gone"]
  /\ replied' = [p \in Packets |-> 0]
  /\ UNCHANGED <<senders, pending, int_sem, unit_no, delivered, thread>>

-----------------------------------------------------------------------------
(* native2amiga_install, run again whenever the emulator restarts in the   *)
(* same process: uae_sem_init creates n2asem with 1 the first time, and    *)
(* POSTS the existing semaphore every later time.                          *)
Init ==
  /\ n2asem = Installs /\ sender = [s \in Senders |-> Idle]
  /\ pending = <<>> /\ log = <<>> /\ intreq = FALSE /\ int_sem = 1
  /\ exter = [at |-> "wait", signal |-> FALSE, msg |-> None, got |-> 0, need |-> 0,
              whole |-> TRUE, dummy |-> None]
  /\ unit_no = 0 /\ delivered = <<>>
  /\ cmds_sent = [u \in Units |-> 0] /\ cmds_acked = [u \in Units |-> 0]
  /\ cmds_complete = [u \in Units |-> 0]
  /\ port = [u \in Units |-> <<>>] /\ queue = [u \in Units |-> {}]
  /\ scanning = {} /\ unit_pipe = [u \in Units |-> <<>>] /\ thread = [u \in Units |-> NoPacket]
  /\ mark = [p \in Packets |-> "new"] /\ replied = [p \in Packets |-> 0]
  /\ early = {} /\ resets = [count |-> 0, busy |-> FALSE, cut |-> FALSE]

Next ==
  \/ \E s \in Senders : NativeSemWait(s) \/ SenderStep(s)
  \/ InterruptServer \/ ExterStep \/ Vsync
  \/ \E p \in Packets : SendPacket(p)
  \/ \E u \in Units : HandlerStep(u) \/ ThreadStep(u)
  \/ ResetBegin \/ ResetEnd

(* Host threads run on, the 68k takes its interrupts and its tasks are     *)
(* scheduled; nobody has to send anything, and nobody has to reset.        *)
Fairness ==
  /\ \A s \in Senders : WF_vars(SenderStep(s))
  /\ WF_vars(InterruptServer) /\ WF_vars(ExterStep) /\ WF_vars(ResetEnd)
  /\ \A u \in Units : WF_vars(HandlerStep(u)) /\ WF_vars(ThreadStep(u))

Spec == Init /\ [][Next]_vars
FairSpec == Spec /\ Fairness

-----------------------------------------------------------------------------
TypeOK ==
  /\ n2asem \in 0 .. Installs /\ int_sem \in 0 .. 1 /\ intreq \in BOOLEAN
  /\ sender \in [Senders -> [at : {"idle", "write", "full", "request", "forgotten"},
                             seq : 0 .. MaxMsgs, len : 0 .. 4, part : 0 .. 5]]
  /\ Len(pending) <= PipeCap
  /\ exter.at \in {"wait", "call10", "scan", "args", "act"}
  /\ unit_no \in 0 .. MaxUnits
  /\ \A u \in Units : /\ thread[u].at \in {"read", "count", "mark", "request"}
                      /\ cmds_complete[u] <= cmds_acked[u] /\ cmds_acked[u] <= cmds_sent[u]
  /\ mark \in [Packets -> {"new", "sent", "unstarted", "started", "finished", "gone"}]
  /\ scanning \subseteq Units /\ early \subseteq Units

(* "It's emptied via exter_int_helper": what the helper takes for a        *)
(* message is one message, all of it, from one sender.                     *)
MessagesAreWhole == \A i \in DOMAIN delivered : delivered[i].whole

(* The messages sent are those whose last item was written. *)
Written(s) == sender[s].seq - (IF sender[s].at \in {"write", "full"} THEN 1 ELSE 0)

Mailbox == INSTANCE MessageQueue WITH
  queue <- [k \in 1 .. Len(log) - Len(delivered) |-> log[Len(delivered) + k]],
  sent  <- [s \in Senders |-> Written(s)],
  taken <- [k \in 1 .. Len(delivered) |->
              [from |-> delivered[k].from,
               seq  |-> IF delivered[k].whole THEN delivered[k].seq ELSE 0]]

(* Host threads that write two to four items each into a pipe made for one *)
(* writer, and a helper that reads them one by one while they are written, *)
(* amount to a queue of whole messages: writing the last item sends the    *)
(* message, reading it takes the message, in the order they were sent.     *)
ImplementsMessageQueue == Mailbox!Spec

(* Every message sent is delivered. *)
SentIsDelivered ==
  \A s \in Senders : \A n \in 1 .. MaxMsgs :
    (sender[s].seq >= n) ~> (\E i \in DOMAIN delivered :
                               delivered[i].from = s /\ delivered[i].seq = n)

(* A unit has a single dummy message: exter_task never puts it on a port   *)
(* while it is still there, which would tie the port's list into a knot.   *)
DummyQueuedOnce ==
  \A u \in Units : \A i \in DOMAIN port[u] :
    port[u][i].dummy => /\ exter.dummy # <<u>>
                        /\ \A j \in DOMAIN port[u] : port[u][j].dummy => i = j

(* A packet is replied to at most once, and only when it is finished. *)
RepliedOnce == \A p \in Packets : replied[p] <= 1 /\ (replied[p] = 1 => mark[p] = "finished")

(* A packet that was sent is replied to.  This protocol has three ways to  *)
(* lose one: exter_task acked the unit's count between cmds_sent++ and the *)
(* mark ("make sure an interrupt happens" does not help: it finds nothing  *)
(* to ack), the packet was queued unstarted ("We can handle an unlimited   *)
(* number of unstarted commands", but nothing starts it later), or a reset *)
(* took it, or came between two calls of the helper: singlethread_int_sem  *)
(* then stays taken, and every later call is refused ("We might get it     *)
(* again later": never).                                                   *)
SentIsReplied ==
  \A p \in Packets :
    (mark[p] = "sent") ~> \/ replied[p] = 1
                          \/ UnitOf[p] \in early \/ mark[p] \in {"unstarted", "gone"}
                          \/ resets.cut
=============================================================================
